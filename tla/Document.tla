------------------------------ MODULE Document ------------------------------
(* The documents clients send, written as XML or as JSON, the elements the request   *)
(* parsers make of them, and the nodes of a serialization. A document is a tree of   *)
(* elements with attributes and either a text or child elements; text next to child  *)
(* elements is left out.                                                             *)
EXTENDS Integers, Sequences, FiniteSets, SequencesExt

CONSTANTS
  NoText,               \* an element without content
  MaxRecursionDepth     \* PAPUGA_MAX_RECURSION_DEPTH

ASSUME DocumentAssumption == MaxRecursionDepth \in Nat

Element(name, atts, text, kids) == [name |-> name, atts |-> atts, text |-> text, kids |-> kids]
IsLeaf(e) == e.kids = <<>> /\ e.atts = <<>>

(* Siblings that follow each other and have the same name, as sequences          *)
RECURSIVE Runs(_)
Runs(kids) ==
  IF kids = <<>> THEN <<>>
  ELSE LET rest == Runs(Tail(kids)) IN
       IF rest # <<>> /\ rest[1][1].name = kids[1].name
       THEN <<<<kids[1]>> \o rest[1]>> \o Tail(rest)
       ELSE <<<<kids[1]>>>> \o rest

(* A node of a serialization; numbers are written as texts, with the type they have  *)
Token(tag, type, v) == [tag |-> tag, type |-> type, v |-> v]
Name(n) == Token("Name", NoText, n)
Value(type, text) == Token("Value", type, text)
Void == Value("void", NoText)
Open == Token("Open", NoText, NoText)
Close == Token("Close", NoText, NoText)
Enclosed(tokens) == <<Open>> \o tokens \o <<Close>>

-----------------------------------------------------------------------------
(* The elements of a request: XML. textwolf reports them in this order; a closed   *)
(* tag has no value.                                                                *)
Item(type, v) == [type |-> type, v |-> v]
CloseItem == Item("Close", NoText)

AttributeItems(atts) ==
  FlattenSeq([i \in DOMAIN atts |->
                <<Item("AttributeName", atts[i].name), Item("AttributeValue", atts[i].v)>>])

RECURSIVE XmlItems(_)
XmlItems(e) ==
  <<Item("Open", e.name)>> \o AttributeItems(e.atts)
    \o (IF e.text = NoText THEN <<>> ELSE <<Item("Content", e.text)>>)
    \o FlattenSeq([i \in DOMAIN e.kids |-> XmlItems(e.kids[i])]) \o <<CloseItem>>

CountOf(items, type) == Cardinality({i \in DOMAIN items : items[i].type = type})

(* What could be wrong: the tags are not counted                                     *)
XmlParsedUncounted(items) == [items |-> items, err |-> "Ok"]

(* RequestParser_xml::getNext until the end of the input: it counts tags only       *)
XmlParsed(items) ==
  [items |-> items,
   err |-> IF CountOf(items, "Open") # CountOf(items, "Close") \/ CountOf(items, "Open") = 0
           THEN "UnexpectedEof" ELSE "Ok"]

-----------------------------------------------------------------------------
(* JSON: a node has a name of a sort, "-x" is an attribute, "#text" the text, and   *)
(* elements of arrays and the root have none. The literals true and false are no    *)
(* values, but of a type of their own.                                              *)
Node(sort, name, type, v, child) ==
  [sort |-> sort, name |-> name, type |-> type, v |-> v, child |-> child]

JsonValue(sort, name, text) ==
  Node(sort, name, IF text \in {"true", "false"} THEN "boolean" ELSE "value", text, <<>>)

(* How a client writes an element: as null, as a value, or as an object; siblings   *)
(* with one name as an array, see tests/schema/query                               *)
RECURSIVE JsonNode(_, _)
JsonNode(e, sort) ==
  LET members == [i \in DOMAIN e.atts |-> JsonValue("attribute", e.atts[i].name, e.atts[i].v)]
        \o (IF e.text = NoText THEN <<>> ELSE <<JsonValue("text", NoText, e.text)>>)
        \o [i \in DOMAIN Runs(e.kids) |->
              LET run == Runs(e.kids)[i] IN
              IF Len(run) = 1 THEN JsonNode(run[1], "element")
              ELSE Node("element", run[1].name, "array", NoText,
                        [j \in DOMAIN run |-> JsonNode(run[j], "none")])]
  IN IF ~IsLeaf(e) THEN Node(sort, e.name, "object", NoText, members)
     ELSE IF e.text = NoText THEN Node(sort, e.name, "null", NoText, <<>>)
     ELSE JsonValue(sort, e.name, e.text)

JsonTree(e) == Node("none", NoText, "object", NoText, <<JsonNode(e, "element")>>)

(* getTextwolfValue                                                                *)
ValueItems(nd) ==
  CASE nd.sort = "attribute" -> <<Item("AttributeName", nd.name), Item("AttributeValue", nd.v)>>
    [] nd.sort = "element" -> <<Item("Open", nd.name), Item("Content", nd.v), CloseItem>>
    [] OTHER -> <<Item("Content", nd.v)>>

(* getTextwolfItems_: the elements of an array have the name of the array, or their  *)
(* index if the array has none itself                                              *)
RECURSIVE JsonItems(_)
JsonItems(nd) ==
  LET Inner == [i \in DOMAIN nd.child |-> JsonItems(nd.child[i])]
      Tagged(i) == <<Item("Open", IF nd.sort = "none" THEN i ELSE nd.name)>> \o Inner[i] \o <<CloseItem>>
  IN CASE nd.type = "null" -> IF nd.sort = "element" THEN <<Item("Open", nd.name), CloseItem>> ELSE <<>>
       [] nd.type \in {"value", "boolean"} -> ValueItems(nd)
       [] nd.type = "array" -> FlattenSeq([i \in DOMAIN nd.child |-> Tagged(i)])
       [] nd.type = "object" ->
            IF nd.sort = "none" THEN FlattenSeq(Inner)
            ELSE <<Item("Open", nd.name)>> \o FlattenSeq(Inner) \o <<CloseItem>>

RECURSIVE HeightOf(_)
HeightOf(nd) ==
  IF nd.child = <<>> THEN 0
  ELSE 1 + Max({HeightOf(nd.child[i]) : i \in DOMAIN nd.child})

(* getTextwolfItems gives up the whole document if a node is nested too deep        *)
JsonParsed(nd) ==
  IF HeightOf(nd) > MaxRecursionDepth
  THEN [items |-> <<>>, err |-> "MaxRecursionDepthReached"]
  ELSE [items |-> JsonItems(nd), err |-> "Ok"]
=============================================================================
