--------------------------- MODULE SchemaMapping ---------------------------
(* Mapping a document to a serialization by a schema (papuga_schema_parse): the      *)
(* document is read into a list of elements, then each element is matched with the   *)
(* select expressions of the schema, and the operation of the one that matches, if it  *)
(* does, writes the result.                                                            *)
EXTENDS Document, SchemaMap, Functions

CONSTANTS
  Schemas,              \* schema sources, see SchemaMap
  Documents,            \* root elements, see Document
  Forms,                \* of a request: a subset of {"xml", "json"}
  NoTag                 \* no array of atomic values is open

VARIABLES
  tree, root,           \* the source of the schema map and the definition used of it
  ops,                  \* the operations of that schema, once compiled
  doc, form,            \* what the client sent
  request, ridx,        \* the elements of the document, the one processed next
  path,                 \* names of the open elements, kept by the automaton
  output,               \* the serialization written: tokens [tag, type, v]
  setStack,             \* the alternatives of each open named structure
  arrayStack,           \* the first element of each open array of structures
  arraytag,             \* the name of the open array of atomic values
  consumed,             \* the element that opens the next structure of an open array
  state, err

vars == <<tree, root, ops, doc, form, request, ridx, path, output, setStack, arrayStack, arraytag,
          consumed, state, err>>
mapped == <<request, ridx, path, output, setStack, arrayStack, arraytag, consumed>>

-----------------------------------------------------------------------------
(* The values of the documents and how they are read: stringToInt gives a number     *)
(* without its sign, stringToDouble and stringToBool what is written                   *)
Accepts ==
  [integer |-> {"1", "-1"}, float |-> {"1", "-1", "0.5"}, boolean |-> {"1", "true"},
   string |-> {"1", "-1", "0.5", "true", "word"}]
ReadInt(text) == IF text = "-1" THEN "1" ELSE text
Converted(type, text) ==
  CASE type = "integer" -> Value("integer", ReadInt(text))
    [] type = "boolean" -> Value("float", IF text = "true" THEN "1" ELSE text)
    [] OTHER -> Value(type, text)

-----------------------------------------------------------------------------
Refused(t) == \E r \in RootsOf(t) : CompileErrors(t, r) # {}

Init ==
  /\ tree \in Schemas
  /\ root \in RootsOf(tree)
  /\ doc = NoText /\ form = NoText
  /\ ops = {} /\ request = <<>> /\ ridx = 1 /\ path = <<>> /\ output = <<>>
  /\ setStack = <<>> /\ arrayStack = <<>> /\ arraytag = NoTag /\ consumed = 0
  /\ state = "Created" /\ err = "Ok"

(* papuga_create_SchemaMap: one definition that cannot be compiled refuses them all      *)
CreateSchemaMap ==
  /\ state = "Created"
  /\ state' = IF Refused(tree) THEN "Done" ELSE "Compiled"
  /\ err' = IF Refused(tree) THEN "SchemaRefused" ELSE "Ok"
  /\ ops' = IF Refused(tree) THEN {} ELSE Compiled(tree, root)
  /\ UNCHANGED <<tree, root, doc, form, mapped>>

(* parseRequest: an XML document may end anywhere                                       *)
Parsed(d, f) ==
  IF f = "json" THEN {JsonParsed(JsonTree(d))}
  ELSE {XmlParsed(SubSeq(XmlItems(d), 1, n)) : n \in 0 .. Len(XmlItems(d))}

ParseRequest ==
  /\ state = "Compiled"
  /\ doc' \in Documents
  /\ form' \in Forms
  /\ \E parsed \in Parsed(doc', form') :
       /\ request' = IF parsed.err = "Ok" THEN parsed.items ELSE <<>>
       /\ err' = parsed.err
       /\ state' = IF parsed.err = "Ok" THEN "Mapping" ELSE "Done"
  /\ UNCHANGED <<tree, root, ops, ridx, path, output, setStack, arrayStack, arraytag, consumed>>

-----------------------------------------------------------------------------
(* The automaton of textwolf: an element is matched on the path it is on                *)
Elem == request[ridx]
ElemPath ==
  CASE Elem.type = "Open" -> Append(path, Elem.v)
    [] Elem.type = "AttributeValue" -> Append(path, request[ridx - 1].v)
    [] OTHER -> path
Matching == {op \in ops : op.on = Elem.type /\ Matches(op.path, ElemPath)}

Processing == state = "Mapping" /\ ridx <= Len(request)

(* What could be wrong: the alternatives are not checked                                  *)
AllowedAnywhere(op) == TRUE

(* Every operation but the end of a named structure needs one of the alternatives that    *)
(* declare it to be an alternative of the structure it is in                              *)
Masked(op) == op.mask # {} /\ op.id.kind # "CloseNamed"
Allowed(op) == Masked(op) => setStack # <<>> /\ Last(setStack) \cap op.mask # {}

Write(tokens) == output' = output \o tokens
Structures == <<setStack, arrayStack, consumed>>

Advance ==
  /\ ridx' = ridx + 1
  /\ path' = CASE Elem.type = "Open" -> ElemPath [] Elem.type = "Close" -> Front(path) [] OTHER -> path
  /\ UNCHANGED <<tree, root, ops, doc, form, request, state, err>>

Fail(code) ==
  /\ state' = "Done" /\ err' = code
  /\ UNCHANGED <<tree, root, ops, doc, form, mapped>>

(* What could be wrong: any element that is opened continues the array                     *)
ReopensWithAny == ridx < Len(request) /\ request[ridx + 1].type = "Open"

(* The same element again: the array goes on                                              *)
Reopens == ridx < Len(request) /\ request[Last(arrayStack)] = request[ridx + 1]
Reopened == ridx = consumed

-----------------------------------------------------------------------------
NameAtomic(op) ==
  /\ op.id = Id("Name", FALSE)
  /\ Write(<<Name(Elem.v)>>)
  /\ UNCHANGED <<Structures, arraytag>> /\ Advance

(* The name of an array of atomic values is written when none is open                     *)
NameArray(op) ==
  /\ op.id = Id("Name", TRUE)
  /\ Write(IF arraytag = NoTag THEN <<Name(Elem.v), Open>> ELSE <<>>)
  /\ arraytag' = IF arraytag = NoTag THEN Elem.v ELSE arraytag
  /\ UNCHANGED Structures /\ Advance

(* An open array of atomic values is closed before the next value                         *)
ContentValue(op, type) ==
  /\ op.id = ValueId(type, FALSE)
  /\ Elem.v \in Accepts[type]
  /\ Write((IF arraytag = NoTag THEN <<>> ELSE <<Close>>) \o <<Converted(type, Elem.v)>>)
  /\ arraytag' = NoTag
  /\ UNCHANGED Structures /\ Advance

AttributeValue(op, type) ==
  /\ op.id = ValueId(type, TRUE)
  /\ Elem.v \in Accepts[type]
  /\ Write(<<Name(request[ridx - 1].v), Converted(type, Elem.v)>>)
  /\ UNCHANGED <<Structures, arraytag>> /\ Advance

ValueNotAccepted(op, type) ==
  /\ op.id = ValueId(type, FALSE) \/ op.id = ValueId(type, TRUE)
  /\ Elem.v \notin Accepts[type]
  /\ Fail("SyntaxError")

OpenNamedStructure(op) ==
  /\ op.id = Id("OpenNamed", FALSE)
  /\ setStack' = Append(setStack, op.set)
  /\ Write(<<Name(Elem.v), Open>>)
  /\ UNCHANGED <<arrayStack, consumed, arraytag>> /\ Advance

CloseNamedStructure(op) ==
  /\ op.id = Id("CloseNamed", FALSE)
  /\ IF setStack = <<>> THEN Fail("LogicError")
     ELSE /\ setStack' = Front(setStack)
          /\ Write(<<Close>>)
          /\ UNCHANGED <<arrayStack, consumed, arraytag>> /\ Advance

(* What could be wrong: the alternatives are pushed for every element of the array           *)
OpenNamedStructureArrayPushing(op) ==
  /\ op.id = Id("OpenNamed", TRUE)
  /\ setStack' = Append(setStack, op.set)
  /\ arrayStack' = IF Reopened THEN arrayStack ELSE Append(arrayStack, ridx)
  /\ Write(IF Reopened THEN <<>> ELSE <<Name(Elem.v), Open, Open>>)
  /\ UNCHANGED <<consumed, arraytag>> /\ Advance

OpenNamedStructureArray(op) ==
  /\ op.id = Id("OpenNamed", TRUE)
  /\ setStack' = IF Reopened THEN setStack ELSE Append(setStack, op.set)
  /\ arrayStack' = IF Reopened THEN arrayStack ELSE Append(arrayStack, ridx)
  /\ Write(IF Reopened THEN <<>> ELSE <<Name(Elem.v), Open, Open>>)
  /\ UNCHANGED <<consumed, arraytag>> /\ Advance

(* An array that goes on keeps its entries on both stacks                                  *)
CloseNamedStructureArray(op) ==
  /\ op.id = Id("CloseNamed", TRUE)
  /\ IF setStack = <<>> \/ arrayStack = <<>> THEN Fail("LogicError")
     ELSE /\ Write(IF Reopens THEN <<Close, Open>> ELSE <<Close, Close>>)
          /\ consumed' = IF Reopens THEN ridx + 1 ELSE consumed
          /\ arrayStack' = IF Reopens THEN arrayStack ELSE Front(arrayStack)
          /\ setStack' = IF Reopens THEN setStack ELSE Front(setStack)
          /\ UNCHANGED arraytag /\ Advance

OpenStructure(op) ==
  /\ op.id = Id("Open", FALSE)
  /\ Write(<<Name(Elem.v), Open>>)
  /\ UNCHANGED <<Structures, arraytag>> /\ Advance

CloseStructure(op) ==
  /\ op.id = Id("Close", FALSE)
  /\ Write(<<Close>>)
  /\ UNCHANGED <<Structures, arraytag>> /\ Advance

OpenStructureArray(op) ==
  /\ op.id = Id("Open", TRUE)
  /\ arrayStack' = IF Reopened THEN arrayStack ELSE Append(arrayStack, ridx)
  /\ Write(IF Reopened THEN <<>> ELSE <<Name(Elem.v), Open, Open>>)
  /\ UNCHANGED <<setStack, consumed, arraytag>> /\ Advance

CloseStructureArray(op) ==
  /\ op.id = Id("Close", TRUE)
  /\ IF arrayStack = <<>> THEN Fail("LogicError")
     ELSE /\ Write(IF Reopens THEN <<Close, Open>> ELSE <<Close, Close>>)
          /\ consumed' = IF Reopens THEN ridx + 1 ELSE consumed
          /\ arrayStack' = IF Reopens THEN arrayStack ELSE Front(arrayStack)
          /\ UNCHANGED <<setStack, arraytag>> /\ Advance

-----------------------------------------------------------------------------
(* Elements that no expression matches are left out if they carry nothing                   *)
Ignored == Elem.type \in {"Close", "AttributeName"}
Ignore ==
  /\ Processing /\ Matching = {} /\ Ignored
  /\ UNCHANGED <<output, Structures, arraytag>> /\ Advance

(* Several operations are done before they are refused together: what they wrote is dropped *)
Undeclared == Processing /\ Matching = {} /\ ~Ignored /\ Fail("SyntaxError")
Ambiguous == Processing /\ Cardinality(Matching) > 1 /\ Fail("SyntaxError")

(* The operation of the only expression that matches                                       *)
Types == {"integer", "float", "boolean", "string"}
NotAllowed(op) == ~Allowed(op) /\ Fail(IF setStack = <<>> THEN "LogicError" ELSE "SyntaxError")
Perform(op) ==
  \/ NotAllowed(op)
  \/ /\ Allowed(op)
     /\ \/ NameAtomic(op) \/ NameArray(op)
        \/ \E type \in Types : ContentValue(op, type) \/ AttributeValue(op, type) \/ ValueNotAccepted(op, type)
        \/ OpenNamedStructure(op) \/ CloseNamedStructure(op)
        \/ OpenNamedStructureArray(op) \/ CloseNamedStructureArray(op)
        \/ OpenStructure(op) \/ CloseStructure(op)
        \/ OpenStructureArray(op) \/ CloseStructureArray(op)
Operate == Processing /\ Cardinality(Matching) = 1 /\ \E op \in Matching : Perform(op)

Finish ==
  /\ state = "Mapping" /\ ridx > Len(request)
  /\ state' = "Done"
  /\ UNCHANGED <<tree, root, ops, doc, form, mapped, err>>

Next ==
  \/ CreateSchemaMap \/ ParseRequest
  \/ Operate \/ Ignore \/ Undeclared \/ Ambiguous
  \/ Finish

Spec == Init /\ [][Next]_vars
=============================================================================
