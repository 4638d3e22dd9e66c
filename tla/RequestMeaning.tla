--------------------------- MODULE RequestMeaning ---------------------------
(* What the references of a request stand for, defined on what the context found  *)
(* and without resolvers (papuga_ResolveType of include/papuga/request.h), and    *)
(* what has to hold of the calls issued.                                          *)
EXTENDS RequestIterator

Candidates(item, scope, range) ==
  {o \in ToSet(Objects(item)) : Inside(o, scope) /\ InRange(o, range)}
Covering(item, scope, range) ==
  {o \in ToSet(Objects(item)) : Inside(scope, o) /\ InRange(o, range)}

(* The objects whose scopes are in no other one of them, one for each scope, in   *)
(* the order of the document.                                                     *)
Outermost(item, scope, range) ==
  LET objs == Objects(item)
      cand == Candidates(item, scope, range)
      outer(i) == /\ objs[i] \in cand
                  /\ \A o \in cand : Inside(objs[i], o) => o.from = objs[i].from /\ o.to = objs[i].to
                  /\ \A j \in 1..(i - 1) : objs[j].from # objs[i].from \/ objs[j].to # objs[i].to
                                           \/ objs[j] \notin cand
      sel == Ordered({i \in DOMAIN objs : outer(i)})
  IN  [k \in DOMAIN sel |-> objs[sel[k]]]

Nothing == [ok |-> TRUE, out |-> <<>>]
Wrong == [ok |-> FALSE, out |-> <<>>]
Then(x, y) == IF x.ok /\ y.ok THEN [ok |-> TRUE, out |-> x.out \o y.out] ELSE Wrong
Token(t) == [ok |-> TRUE, out |-> <<t>>]
Around(x) == Then(Token(Open), Then(x, Token(Close)))
Otherwise(x, y) == IF x = Nothing THEN y ELSE x

RECURSIVE Meaning(_, _, _, _, _)
(* The element of a scope is its first defined value or else its structure.       *)
DefinedAt(item, s) ==
  SelectSeq(Objects(item), LAMBDA o : /\ o.from = s.from /\ o.to = s.to
                                      /\ o.kind = "struct" \/ o.of # 0)
ObjectMeaning(o, have, embedded) ==
  LET inner == [from |-> o.from + 1, to |-> o.to]
      members == FoldLeft(LAMBDA x, m : Then(x, Meaning(m, inner, o.level, have, m.named)), Nothing,
                          atm.structs[o.of].members)
  IN  IF o.kind = "value" THEN Token(o.of)
      ELSE IF embedded THEN members ELSE Around(members)
Element(item, s, have, embedded) ==
  LET here == DefinedAt(item, s)
  IN  IF here = <<>> THEN Nothing ELSE ObjectMeaning(here[1], have, embedded)

(* A reference with a type, seen from a scope and its level in the document; a    *)
(* member of a structure that is void is left out.                                *)
SingleMeaning(ref, scopes, have, void) ==
  IF Len(scopes) > 1 THEN Wrong
  ELSE IF scopes = <<>> THEN void
  ELSE Otherwise(Element(ref.item, scopes[1], have, "named" \in DOMAIN ref /\ ~ref.named), void)
InheritedMeaning(covering, void) ==
  LET innermost == CHOOSE o \in covering : \A x \in covering : Inside(o, x)
  IN  IF covering = {} \/ innermost.kind = "struct" THEN Wrong
      ELSE IF innermost.of = 0 THEN void ELSE Token(innermost.of)
ArrayMeaning(ref, scopes, have, void) ==
  LET add(x, s) == Then(x, Otherwise(Element(ref.item, s, have, FALSE), Token(Void)))
  IN  IF scopes = <<>> THEN void ELSE Around(FoldLeft(add, Nothing, scopes))
Meaning(ref, scope, level, have, leftOut) ==
  LET range == TagLevelRange(ref.type, level, ref.reach)
      void == IF ref.type \in {"required", "arrayNonEmpty"} THEN Wrong
              ELSE IF leftOut THEN Nothing ELSE Token(Void)
  IN  IF ref.item = NULL THEN IF ref.var \in have THEN Token(Variable) ELSE Wrong
      ELSE CASE ref.type \in {"required", "optional"} ->
                  SingleMeaning(ref, Outermost(ref.item, scope, range), have, void)
             [] ref.type = "inherited" -> InheritedMeaning(Covering(ref.item, scope, range), void)
             [] OTHER -> ArrayMeaning(ref, Outermost(ref.item, scope, range), have, void)

-----------------------------------------------------------------------------
(* The arguments of the call issued last: reference and meaning                   *)
References == ReferencesOf(issued.calls)
MeaningOf(ref) ==
  Meaning(ref.arg, [from |-> ref.node.from, to |-> ref.node.to], ref.node.level, issued.have, FALSE)
Issued == issued.calls # <<>>

-----------------------------------------------------------------------------
(* No undefined value is followed by another object of its item: what comes after *)
(* it is lost, see ArrayIsComplete.                                               *)
Gapless ==
  \A item \in atm.items : \A i \in 1..(EndOf(item) - 2) :
    LET o == Objects(item)[i]  next == Objects(item)[i + 1]
    IN  o.kind = "value" /\ o.of = 0 => next.from = o.from /\ next.to = o.to

(* A call is issued with what its references stand for, and refused if one of     *)
(* them stands for nothing or for too much, wherever the resolvings before left   *)
(* the resolvers (nextCall, resolveItem).                                         *)
IssuedAs(meanings, def) ==
  LET args == [k \in DOMAIN meanings |-> meanings[k].out]
  IN  /\ issued.ok <=> \A k \in DOMAIN meanings : meanings[k].ok
      /\ issued.ok => issued.args = IF def.assign THEN args ELSE WithoutDefaults(args, def.args)
ArgumentsAsDefined ==
  Issued /\ Gapless =>
    LET refs == References
    IN  IssuedAs([k \in DOMAIN refs |-> MeaningOf(refs[k])], atm.calls[issued.calls[1].call])

(* An array has an element for each scope of the item (request.h).                *)
ArrayIsComplete ==
  Issued /\ issued.ok => \A k \in DOMAIN issued.args :
    References[k].arg.item # NULL /\ References[k].arg.type \in {"array", "arrayNonEmpty"} =>
      issued.args[k] = MeaningOf(References[k]).out

(* An inherited item is found if it is in an including scope (request.h): where a *)
(* call is refused for something undefined it is not that.                        *)
InheritedIsFound ==
  Issued /\ itererr = "ValueUndefined" => \E r \in ToSet(References) :
    \/ r.arg.item = NULL \/ r.arg.type # "inherited"
    \/ Covering(r.arg.item, r.node, TagLevelRange("inherited", r.node.level, r.arg.reach)) = {}
=============================================================================
