-------------------------- MODULE XmlSerialization --------------------------
(* Reading an XML document into a serialization (papuga_Serialization_append_xml).      *)
(* Elements with one name that follow each other become an array. A first pass finds    *)
(* where arrays start; the second one writes, and finds where they end by the names of   *)
(* the elements closed last.                                                            *)
EXTENDS Document

VARIABLES
  xml, pos, withRoot,   \* what the scanner reports, the position of the current element
  arrays, arrayidx,     \* positions where arrays start, the next of them
  siblings,             \* on each level the element opened last; elem if it is in an array
  structure,            \* the element read but not yet written
  ser, reading          \* the serialization; "idle", "reading" or the result

xmlVars == <<xml, pos, withRoot, arrays, arrayidx, siblings, structure, ser, reading>>

NoSibling == [name |-> NoText, elem |-> FALSE]
NoStructure == [name |-> NoText, atts |-> <<>>, content |-> NoText, open |-> FALSE, close |-> FALSE]

-----------------------------------------------------------------------------
(* getArrays: the stack keeps the element before on the current level. The second of      *)
(* two elements with one name reports the position of the first, once.                     *)
Entered(s, name, i) ==
  LET before == SubSeq(s.stack, 1, s.size)
      New == Append(before, [name |-> name, pos |-> i])
      first == s.stack[s.size + 1]
      reported == s.arrays # <<>> /\ Last(s.arrays) = first.pos
  IN IF s.size = Len(s.stack) \/ first.name # name
     THEN [s EXCEPT !.stack = New, !.size = @ + 1]
     ELSE [stack |-> Append(before, first), size |-> s.size + 1,
           arrays |-> IF reported THEN s.arrays ELSE Append(s.arrays, first.pos)]

GetArrays(items) ==
  FoldLeft(LAMBDA s, i : CASE items[i].type = "Open" -> Entered(s, items[i].v, i)
                           [] items[i].type = "Close" -> [s EXCEPT !.size = @ - 1]
                           [] OTHER -> s,
           [stack |-> <<>>, size |-> 0, arrays |-> <<>>],
           [i \in DOMAIN items |-> i]).arrays

(* flushStructure: an element with a text only is a value, an empty one a void value;       *)
(* the text of an element with attributes gets an empty name                                *)
Flushed(s) ==
  LET If(condition, tokens) == IF condition THEN tokens ELSE <<>>
      text == If(s.content # NoText, <<Value("string", s.content)>>)
  IN If(s.name # NoText, <<Name(s.name)>>)
     \o (IF s.atts # <<>>
         THEN If(s.open, <<Open>>)
              \o FlattenSeq([i \in DOMAIN s.atts |-> <<Name(s.atts[i].name), Value("string", s.atts[i].v)>>])
              \o If(text # <<>>, <<Name("")>> \o text) \o If(s.close, <<Close>>)
         ELSE IF s.open /\ s.close THEN IF text # <<>> THEN text ELSE <<Void>>
         ELSE If(s.open, <<Open>>) \o text \o If(s.close, <<Close>>))

-----------------------------------------------------------------------------
XmlInit ==
  /\ xml = <<>> /\ pos = 1 /\ withRoot = TRUE /\ arrays = <<>> /\ arrayidx = 1
  /\ siblings = <<NoSibling>> /\ structure = NoStructure /\ ser = <<>> /\ reading = "idle"

(* TagStack::init *)
StartReading(items) ==
  /\ reading = "idle"
  /\ xml' = Append(items, Item("Exit", NoText))
  /\ withRoot' \in BOOLEAN
  /\ arrays' = GetArrays(items)
  /\ reading' = "reading"
  /\ UNCHANGED <<pos, arrayidx, siblings, structure, ser>>

Current == xml[pos]
At(type) == reading = "reading" /\ pos <= Len(xml) /\ Current.type = type
Depth == Len(siblings) - 1
Step == pos' = pos + 1 /\ UNCHANGED <<xml, withRoot, arrays>>

(* The elements in an array on the level above that end here                               *)
ArrayEnd(ends) == IF ends THEN <<Close>> ELSE <<>>

(* TagStack::push: the element goes on with the array of the one before it on the level,     *)
(* or it is the next that starts one                                                        *)
Pushed(name) ==
  LET sibling == siblings[Depth + 1]
      next == CHOOSE i \in arrayidx .. Len(arrays) + 1 :
                /\ \A j \in arrayidx .. i - 1 : arrays[j] < pos
                /\ i <= Len(arrays) => arrays[i] >= pos
  IN IF sibling.name = name THEN [new |-> FALSE, elem |-> TRUE, ends |-> FALSE, idx |-> arrayidx]
     ELSE [new |-> TRUE, elem |-> next <= Len(arrays) /\ arrays[next] = pos, ends |-> sibling.elem, idx |-> next]

ReadOpen ==
  LET pushed == Pushed(Current.v)
      written == withRoot \/ Depth > 0
  IN /\ At("Open")
     /\ Depth < MaxRecursionDepth - 1
     /\ arrayidx' = pushed.idx
     /\ siblings' = SubSeq(siblings, 1, Depth)
                      \o <<[name |-> Current.v, elem |-> pushed.elem], NoSibling>>
     /\ ser' = ser \o Flushed(structure) \o ArrayEnd(pushed.ends)
                   \o (IF pushed.elem /\ pushed.new /\ written THEN <<Name(Current.v), Open>> ELSE <<>>)
     /\ structure' = [NoStructure EXCEPT !.open = pushed.elem \/ written,
                                         !.name = IF written /\ ~pushed.elem THEN Current.v ELSE NoText]
     /\ UNCHANGED reading /\ Step

TooDeep ==
  /\ At("Open") /\ Depth >= MaxRecursionDepth - 1
  /\ ser' = ser \o Flushed(structure) /\ reading' = "MaxRecursionDepthReached"
  /\ UNCHANGED <<xml, pos, withRoot, arrays, arrayidx, siblings, structure>>

ReadAttribute ==
  /\ At("AttributeName") \/ At("AttributeValue")
  /\ structure' = IF Current.type = "AttributeName" THEN structure
                  ELSE [structure EXCEPT !.atts = Append(@, [name |-> xml[pos - 1].v, v |-> Current.v])]
  /\ UNCHANGED <<arrayidx, siblings, ser, reading>> /\ Step

ReadContent ==
  /\ At("Content")
  /\ structure' = [structure EXCEPT !.content = Current.v]
  /\ UNCHANGED <<arrayidx, siblings, ser, reading>> /\ Step

(* What could be wrong: an element does not close the array among its children             *)
ReadCloseInArray ==
  /\ At("Close")
  /\ ser' = ser \o Flushed([structure EXCEPT !.close = withRoot \/ Depth > 1])
  /\ structure' = NoStructure
  /\ siblings' = Front(siblings)
  /\ UNCHANGED <<arrayidx, reading>> /\ Step

(* TagStack::pop and the end of an element                                                 *)
ReadClose ==
  /\ At("Close")
  /\ ser' = ser \o ArrayEnd(Last(siblings).elem)
                \o Flushed([structure EXCEPT !.close = withRoot \/ Depth > 1])
  /\ structure' = NoStructure
  /\ siblings' = Front(siblings)
  /\ UNCHANGED <<arrayidx, reading>> /\ Step

ReadExit ==
  /\ At("Exit")
  /\ ser' = ser \o ArrayEnd(Last(siblings).elem) \o Flushed(structure)
  /\ reading' = "Ok"
  /\ UNCHANGED <<arrayidx, siblings, structure>> /\ Step

XmlNext == ReadOpen \/ TooDeep \/ ReadAttribute \/ ReadContent \/ ReadClose \/ ReadExit
=============================================================================
