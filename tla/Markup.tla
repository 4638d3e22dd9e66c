------------------------------- MODULE Markup -------------------------------
(* Printing a serialization as JSON or XML (the key and the tag declarations of the     *)
(* value markup) and reading it back from JSON (papuga_Serialization_append_json).       *)
(* JSON is printed as a tree, see Document, XML as the sequence of marks written.          *)
EXTENDS Document

(* Names of attributes have a leading dash in JSON and in the serialization, the name of  *)
(* the text next to attributes is "#text"                                                 *)
AttributeName(n) == Token("Name", "attribute", n)
TextName == Token("Name", "text", NoText)

-----------------------------------------------------------------------------
(* The nodes on the top level of a serialization, a structure with all it encloses         *)
Nesting(tokens) ==
  FoldLeft(LAMBDA depth, t : CASE t.tag = "Open" -> depth + 1 [] t.tag = "Close" -> depth - 1 [] OTHER -> depth,
           0, tokens)
Balanced(tokens) ==
  Nesting(tokens) = 0 /\ \A n \in DOMAIN tokens : Nesting(SubSeq(tokens, 1, n)) >= 0

Parts(tokens) ==
  LET Put(parts, t) ==
        IF parts # <<>> /\ Nesting(Last(parts)) > 0
        THEN Append(Front(parts), Append(Last(parts), t)) ELSE Append(parts, <<t>>)
  IN FoldLeft(Put, <<>>, tokens)

Tag(part) == part[1].tag
Inside(part) == SubSeq(part, 2, Len(part) - 1)
IsDict(parts) == parts = <<>> \/ Tag(parts[1]) = "Name"
Members(parts) == [i \in 1 .. Len(parts) \div 2 |-> [name |-> parts[2 * i - 1][1], part |-> parts[2 * i]]]

(* What appendSerializationIter goes through without an exception: names and values in      *)
(* turn, or values only, for every structure. Also consumeClose.                             *)
RECURSIVE Regular(_)
Regular(parts) ==
  /\ \A i \in DOMAIN parts :
       /\ (Tag(parts[i]) = "Name") = (IsDict(parts) /\ i % 2 = 1)
       /\ Tag(parts[i]) = "Open" => Regular(Parts(Inside(parts[i])))
  /\ IsDict(parts) => Len(parts) % 2 = 0
Printable(tokens) == Balanced(tokens) /\ Regular(Parts(tokens))

-----------------------------------------------------------------------------
(* JSON: numbers below zero, and all but integers, are printed as strings                    *)
SortOf(name) == IF name.type = NoText THEN "element" ELSE name.type
Unnamed == Token("Name", "none", NoText)

RECURSIVE PrintedJson(_, _)
(* What could be wrong: a void value is printed as a string                                   *)
JsonPartPrintingVoid(name, part) ==
  IF Tag(part) = "Open" THEN PrintedJson(name, Inside(part))
  ELSE Node(SortOf(name), name.v, "value", part[1].v, <<>>)

JsonPart(name, part) ==
  IF Tag(part) = "Open" THEN PrintedJson(name, Inside(part))
  ELSE Node(SortOf(name), name.v, IF part[1] = Void THEN "null" ELSE "value", part[1].v, <<>>)

PrintedJson(name, tokens) ==
  LET parts == Parts(tokens) IN
  IF IsDict(parts)
  THEN Node(SortOf(name), name.v, "object", NoText,
            [i \in DOMAIN Members(parts) |-> JsonPart(Members(parts)[i].name, Members(parts)[i].part)])
  ELSE Node(SortOf(name), name.v, "array", NoText,
            [i \in DOMAIN parts |-> JsonPart(Unnamed, parts[i])])

ToJson(tokens) == PrintedJson(Unnamed, tokens)

-----------------------------------------------------------------------------
(* Serialization_append_node: a null without name is left out, as one of an attribute or a   *)
(* text                                                                                     *)
NamedAs(nd) ==
  CASE nd.sort = "attribute" -> <<AttributeName(nd.name)>>
    [] nd.sort = "text" -> <<TextName>>
    [] nd.sort = "element" -> <<Name(nd.name)>>
    [] OTHER -> <<>>

RECURSIVE AppendNode(_)
AppendNode(nd) ==
  CASE nd.type = "null" -> IF nd.sort = "element" THEN <<Name(nd.name), Void>> ELSE <<>>
    [] nd.type = "value" -> NamedAs(nd) \o <<Value("string", nd.v)>>
    [] nd.type = "boolean" -> NamedAs(nd) \o <<Value("boolean", nd.v)>>
    [] OTHER -> NamedAs(nd) \o Enclosed(FlattenSeq([i \in DOMAIN nd.child |-> AppendNode(nd.child[i])]))

(* Serialization_append_tree: on the top level every node needs a name, and the nodes of a     *)
(* tree can be nested to a limit. What has no content but a null or a literal, has no value.     *)
AppendTree(nd) ==
  IF \E i \in DOMAIN nd.child : nd.child[i].sort = "none" THEN [ser |-> <<>>, err |-> "SyntaxError"]
  ELSE IF HeightOf(nd) > MaxRecursionDepth + 1 THEN [ser |-> <<>>, err |-> "MaxRecursionDepthReached"]
  ELSE [err |-> "Ok",
        ser |-> IF nd.child # <<>> THEN FlattenSeq([i \in DOMAIN nd.child |-> AppendNode(nd.child[i])])
                ELSE IF nd.type = "value" THEN <<Value("string", nd.v)>> ELSE <<Void>>]

(* papuga_Serialization_append_json                                                          *)
FromJson(tree, rooted) ==
  IF tree.child = <<>> THEN [ser |-> <<>>, err |-> "SyntaxError"]
  ELSE IF rooted THEN AppendTree(tree)
  ELSE IF Len(tree.child) > 1 THEN [ser |-> <<>>, err |-> "DuplicateDefinition"]
  ELSE AppendTree(tree.child[1])

-----------------------------------------------------------------------------
(* XML: the marks written one after the other, as the members come. A tag can get an         *)
(* attribute as long as nothing is written after it.                                          *)
Mark(tag, name) == [tag |-> tag, name |-> name, atts |-> <<>>]
Written(out, tag, name) == [out EXCEPT !.marks = Append(@, Mark(tag, name))]
NotPrinted == [marks |-> <<>>, err |-> "SyntaxError"]

(* appendAttribute: into the last tag, if it is one that can be opened again                  *)
Reopenable(mark) == mark.tag \in {"Open", "Close"}
Attributed(out, name, v) ==
  IF Reopenable(Last(out.marks))
  THEN [out EXCEPT !.marks = Append(Front(@), [Last(@) EXCEPT !.atts = Append(@, [name |-> name.v, v |-> v])])]
  ELSE NotPrinted

ValueInTags(out, name, v) == Written(Written(Written(out, "Open", name), "Text", v), "Close", name)

(* What could be wrong: a void value is printed as an element without content                *)
XmlValuePrintingVoid(out, name, value) ==
  IF name.type = "attribute" THEN Attributed(out, name, value.v) ELSE ValueInTags(out, name, value.v)

(* A void value is not printed *)
XmlValue(out, name, value) ==
  IF value = Void THEN out
  ELSE IF name.type = "attribute" THEN Attributed(out, name, value.v)
  ELSE ValueInTags(out, name, value.v)

(* The elements of an array have the name of the array. A structure without members is an     *)
(* empty tag, whatever it is for.                                                             *)
RECURSIVE XmlPart(_, _, _)
XmlMembers(out, members) == FoldLeft(LAMBDA o, m : XmlPart(o, m.name, m.part), out, members)
XmlPart(out, name, part) ==
  LET parts == Parts(Inside(part)) IN
  CASE out.err # "Ok" -> out
    [] Tag(part) = "Value" -> XmlValue(out, name, part[1])
    [] Tag(part) = "Open" /\ parts = <<>> -> Written(out, "Empty", name)
    [] Tag(part) = "Open" /\ parts # <<>> /\ IsDict(parts) ->
         Written(XmlMembers(Written(out, "Open", name), Members(parts)), "Close", name)
    [] OTHER -> FoldLeft(LAMBDA o, p : XmlPart(o, name, p), out, parts)

(* papuga_ValueVariant_toxml with the name of the root: its content cannot be an array. No     *)
(* output is returned with an error.                                                          *)
ToXml(tokens, rootname) ==
  LET start == [marks |-> <<Mark("Open", Name(rootname))>>, err |-> "Ok"]
      out == IF Printable(tokens) /\ IsDict(Parts(tokens))
             THEN Written(XmlMembers(start, Members(Parts(tokens))), "Close", Name(rootname))
             ELSE NotPrinted
  IN IF out.err = "Ok" THEN out ELSE NotPrinted
=============================================================================
