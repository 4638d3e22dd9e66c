---------------------------- MODULE Expressions ----------------------------
(* The path expressions of request automata: what textwolf selects with them, and *)
(* how src/requestAutomaton.cpp puts them together.                               *)
EXTENDS Naturals, Sequences, SequencesExt

CONSTANT NULL

(* textwolf: an expression selects elements by their path from the root or by the *)
(* end of their path.                                                             *)
FromRoot(tags) == [rooted |-> TRUE, tags |-> tags]
Anywhere(tags) == [rooted |-> FALSE, tags |-> tags]
Deep == "//"  \* among the tags: the next one anywhere below
SelectsBelow(tags, p) ==
  LET Reached(at, tag) ==
        {i + 1 : i \in {j \in at : j < Len(tags) /\ tags[j + 1] = tag}}
          \cup {j \in at : j < Len(tags) /\ tags[j + 1] = Deep}
          \cup {j + 2 : j \in {i \in at : i + 1 < Len(tags) /\ tags[i + 1] = Deep /\ tags[i + 2] = tag}}
  IN  Len(tags) \in FoldLeft(Reached, {0}, p)
Selects(e, p) == IF ~e.rooted THEN IsSuffix(e.tags, p)
                 ELSE IF Contains(e.tags, Deep) THEN SelectsBelow(e.tags, p) ELSE p = e.tags

(* An expression of a description ends with an attribute or with "()", the        *)
(* content, or with neither.  Below another one it is relative to it.             *)
PathTo(rooted, tags, leaf) == [rooted |-> rooted, tags |-> tags, leaf |-> leaf]
NoPath == PathTo(FALSE, <<>>, "none")
PathOf(e) == [rooted |-> e.rooted, tags |-> e.tags]

(* joinExpression: nothing behind, or only "/", changes nothing.                    *)
Join(root, e) ==
  IF e = NoPath \/ (e = PathTo(TRUE, <<>>, "none") /\ root # NoPath) THEN root
  ELSE PathTo(IF root = NoPath THEN e.rooted ELSE root.rooted, root.tags \o e.tags, e.leaf)
=============================================================================
