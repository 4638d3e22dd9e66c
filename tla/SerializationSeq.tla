--------------------------- MODULE SerializationSeq ---------------------------
(* What include/papuga/serialization.h promises: a serialization is a sequence  *)
(* of tagged nodes that grows at its end, can be cut back to a position marked  *)
(* earlier, and is read by an iterator from the first node to the last.         *)
EXTENDS Naturals, Sequences

CONSTANTS Tag,       \* the tags a caller pushes
          MaxFrames  \* bound on nested marks

VARIABLES content,   \* the nodes pushed and not released
          marks,     \* lengths of content remembered by the open frames
          reader     \* [at |-> "none" | "node" | "eof", idx |-> index of the node]

vars == <<content, marks, reader>>

NoReader  == [at |-> "none", idx |-> 0]
AtEof     == [at |-> "eof", idx |-> 0]
AtNode(i) == IF i \in 1..Len(content) THEN [at |-> "node", idx |-> i] ELSE AtEof

Init == content = <<>> /\ marks = <<>> /\ reader = NoReader

Push(t) == content' = Append(content, t) /\ UNCHANGED <<marks, reader>>

Enter == /\ Len(marks) < MaxFrames
         /\ marks' = Append(marks, Len(content))
         /\ UNCHANGED <<content, reader>>

Leave == /\ marks # <<>>
         /\ marks' = SubSeq(marks, 1, Len(marks) - 1)
         /\ UNCHANGED <<content, reader>>

(* Cut back to the innermost mark; a reader past the cut is abandoned. *)
Restart ==
  /\ marks # <<>>
  /\ marks[Len(marks)] < Len(content)
  /\ content' = SubSeq(content, 1, marks[Len(marks)])
  /\ marks' = SubSeq(marks, 1, Len(marks) - 1)
  /\ reader' = IF reader.at = "node" /\ reader.idx <= marks[Len(marks)]
               THEN reader ELSE NoReader

Open     == reader' = AtNode(1) /\ UNCHANGED <<content, marks>>
OpenLast == reader' = AtNode(Len(content)) /\ UNCHANGED <<content, marks>>
Skip     == reader.at = "node" /\ reader' = AtNode(reader.idx + 1)
            /\ UNCHANGED <<content, marks>>

Next == \/ \E t \in Tag : Push(t)
        \/ Enter \/ Leave \/ Restart
        \/ Open \/ OpenLast \/ Skip

Spec == Init /\ [][Next]_vars
=============================================================================
