----------------------------- MODULE MCDocuments -----------------------------
(* Small schemas in the manner of tests/schema/schema, and all documents of a few      *)
(* elements with three names.                                                          *)
EXTENDS DocumentConversion

Def(name, chld) == [name |-> name, chld |-> chld]
Member(name, typnam, chld, array) ==
  [name |-> name, typnam |-> typnam, chld |-> chld, array |-> array, attribute |-> FALSE]
Atom(name, type) == Member(name, type, <<>>, FALSE)
Ref(name, type) == Member(name, type, <<>>, FALSE)
ArrayOf(name, type) == Member(name, type, <<>>, TRUE)
Inline(name, chld) == Member(name, NoType, chld, FALSE)
InlineArray(name, chld) == Member(name, NoType, chld, TRUE)
Attr(name, type) == [Atom(name, type) EXCEPT !.attribute = TRUE]

MCSchemas ==
  { <<Def("q", <<Ref("a", "T")>>),                                       \* term_expression
      Def("T", <<Atom("x", "string")>>),
      Def("T", <<Atom("b", "string"), Atom("x", "string"), ArrayOf("a", "T")>>)>>,
    <<Def("q", <<ArrayOf("a", "T"), Atom("x", "boolean")>>),
      Def("T", <<ArrayOf("b", "U"), Atom("x", "string")>>),
      Def("U", <<Atom("x", "integer")>>)>>,
    <<Def("q", <<Ref("a", "R"), Atom("x", "integer")>>),                 \* restriction_expression
      Def("R", <<InlineArray("a", <<ArrayOf("b", "T")>>)>>),
      Def("R", <<ArrayOf("b", "T")>>),
      Def("T", <<Atom("x", "integer")>>)>>,
    <<Def("q", <<InlineArray("a", <<Atom("x", "number"), Inline("b", <<Atom("x", "boolean")>>)>>),
                 Atom("b", "string")>>)>>,
    <<Def("q", <<Inline("a", <<ArrayOf("x", "integer")>>),               \* evalset
                 ArrayOf("b", "string"), Atom("x", "string")>>)>>,
    <<Def("q", <<Attr("x", "integer"), Ref("a", "T")>>),
      Def("T", <<Attr("x", "boolean"), Attr("b", "number"), Atom("x", "string")>>)>>,
    <<Def("q", <<Ref("a", "T")>>), Def("T", <<Ref("b", "T"), Atom("x", "string")>>)>>,
    <<Def("q", <<InlineArray("a", <<ArrayOf("b", "T")>>), ArrayOf("b", "T")>>),   \* queryresult
      Def("T", <<Atom("x", "string")>>)>>,
    <<Def("q", <<Ref("a", "T")>>), Def("T", <<Ref("b", "U"), Atom("x", "string")>>),
      Def("U", <<Ref("a", "V")>>), Def("V", <<Atom("a", "string")>>)>>,
    <<Def("q", <<Ref("a", "T")>>), Def("T", <<Atom("x", "integer")>>), Def("T", <<Atom("x", "string")>>)>> }

Names == {"a", "b", "x"}

(* Sequences of trees with n elements together                                          *)
RECURSIVE Forests(_, _, _)
Forests(n, names, texts) ==
  IF n = 0 THEN {<<>>}
  ELSE UNION {{<<Element(name, <<>>, text, kids)>> \o rest :
                 name \in names, text \in (IF m = 1 THEN texts ELSE {NoText}),
                 kids \in Forests(m - 1, names, texts), rest \in Forests(n - m, names, texts)}
              : m \in 1 .. n}

Att(name, v) == <<[name |-> name, v |-> v]>>
WithAttributes ==
  {Element("q", qa, NoText, <<Element("a", aa, text, kids)>>) :
     qa \in {<<>>, Att("x", "1"), Att("x", "word")}, text \in {NoText, "word"},
     aa \in {<<>>} \cup {Att(n, v) : n \in {"x", "b"}, v \in {"1", "0.5", "true"}},
     kids \in Forests(1, Names, {NoText, "1"}) \cup {<<>>}}

(* Deep documents: elements in each other, with and without arrays on every level             *)
RECURSIVE Chain(_)
Chain(n) == IF n = 0 THEN Element("x", <<>>, "1", <<>>) ELSE Element("a", <<>>, NoText, <<Chain(n - 1)>>)
One(name, text) == Element(name, <<>>, text, <<>>)
Second(name, kids) == <<One(name, NoText), Element(name, <<>>, NoText, kids)>>
Deep ==
  {Chain(n) : n \in 2 .. 7}
    \cup {Element("q", <<>>, NoText, Second("a", Second("b", kids))) :
            kids \in {<<One("x", "1")>>, <<One("x", "1"), One("x", "1")>>, <<One("x", NoText), One("x", "1")>>}}

(* Attributes next to and in what is printed before or after them                           *)
Both(text) == Element("a", Att("x", "1") \o Att("b", text), NoText, <<One("x", "true")>>)
AmongAttributes ==
  {Element("q", Att("x", "1"), NoText, kids) :
     kids \in {<<One("a", NoText), One("a", NoText)>>, <<One("b", "1"), Both("word")>>,
              <<Both("1"), Both("word")>>, <<One("b", NoText), One("x", "1"), Both("1")>>}}

(* The larger ones of them have nothing in an x, which is in no schema a structure, and        *)
(* start with an a                                                                           *)
RECURSIVE Closed(_)
Closed(e) == (e.name = "x" => e.kids = <<>>) /\ \A i \in DOMAIN e.kids : Closed(e.kids[i])

Below(forests) == {Element("q", <<>>, NoText, f) : f \in forests}
MCDocuments ==
  Below(UNION {Forests(n, Names, {NoText, "1"}) : n \in 0 .. 3}
          \cup {f \in Forests(4, Names, {"1"}) : \A i \in DOMAIN f : Closed(f[i])}
          \cup {f \in Forests(5, {"a", "b"}, {NoText}) : f[1].name = "a"}
          \cup Forests(2, Names, {"1", "-1", "0.5", "true", "word"}))
    \cup {One("q", "1"), One("q", "true")} \cup Deep \cup AmongAttributes
    \cup {d \in WithAttributes : \A i \in DOMAIN d.kids : d.kids[i].text = NoText \/ d.kids[i].kids = <<>>}

(* The schema does not matter where none is used                                         *)
MCInit == ConvInit /\ tree[root].name = "q" /\ (way # "schema" => tree = CHOOSE t \in Schemas : TRUE)
MCSpec == MCInit /\ [][ConvNext]_allVars
=============================================================================
