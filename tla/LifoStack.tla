------------------------------ MODULE LifoStack ------------------------------
(* include/papuga/stack.h: a stack of elements; pop gives the one pushed last. *)
EXTENDS Naturals, Sequences

CONSTANTS Elem,  \* what is pushed
          NULL   \* the result of a pop of the empty stack

VARIABLES stack,  \* elements, the top last
          ret     \* what the last pop returned

vars == <<stack, ret>>

Init == stack = <<>> /\ ret = NULL

Push(e) == stack' = Append(stack, e) /\ UNCHANGED ret

Pop == \/ /\ stack # <<>>
          /\ ret' = stack[Len(stack)]
          /\ stack' = SubSeq(stack, 1, Len(stack) - 1)
       \/ /\ stack = <<>>
          /\ ret' = NULL
          /\ UNCHANGED stack

Next == (\E e \in Elem : Push(e)) \/ Pop

Spec == Init /\ [][Next]_vars
=============================================================================
