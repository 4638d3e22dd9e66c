----------------------------- MODULE PapugaStack -----------------------------
(* src/stack.c: a stack in nodes of NodeSize elements over an optional first    *)
(* buffer given by the caller.  A node emptied by a pop stays on top until the  *)
(* next pop frees it.  Used by the event stacks of the request automaton        *)
(* (request.cpp) and to build Python structures (libpapuga_python3_dev.c).      *)
EXTENDS Naturals, Integers, Sequences, SequencesExt

CONSTANTS Elem,      \* elements pushed
          NULL,      \* null pointer
          Garbage,   \* memory never written
          BufSize,   \* elements that fit into the caller's buffer, 0 if none
          NodeSize,  \* elements per allocated node
          MaxSize    \* bound on the elements on the stack

ASSUME SizesAssumption == BufSize \in Nat /\ NodeSize \in Nat \ {0} /\ MaxSize \in Nat

VARIABLES nodes,  \* the nodes from the first to top: [mem, used]
          size,   \* papuga_Stack_size
          ret     \* what the last pop returned

vars == <<nodes, size, ret>>

NewNode(n) == [mem |-> [p \in 1..n |-> Garbage], used |-> 0]

(* papuga_init_Stack: with a buffer too small for one element there is no node. *)
Init == /\ nodes = IF BufSize = 0 THEN <<>> ELSE <<NewNode(BufSize)>>
        /\ size = 0
        /\ ret = NULL

Top == nodes[Len(nodes)]
Full(nd) == nd.used = Len(nd.mem)

PutOn(nd, e) == [mem |-> [nd.mem EXCEPT ![nd.used + 1] = e], used |-> nd.used + 1]

(* papuga_Stack_push; with malloc failing it returns NULL and changes nothing. *)
Push(e) ==
  /\ size < MaxSize
  /\ nodes' = IF nodes = <<>> \/ Full(Top)
              THEN Append(nodes, PutOn(NewNode(NodeSize), e))
              ELSE [nodes EXCEPT ![Len(nodes)] = PutOn(Top, e)]
  /\ size' = size + 1
  /\ UNCHANGED ret

(* The nodes left when the loop of papuga_Stack_pop has freed the emptied ones. *)
Unemptied == {i \in DOMAIN nodes : nodes[i].used > 0}
Trimmed == SubSeq(nodes, 1, CHOOSE i \in Unemptied : \A j \in Unemptied : j <= i)

PopWithoutTrim ==
  IF size = 0 THEN ret' = NULL /\ UNCHANGED <<nodes, size>>
  ELSE /\ ret' = Top.mem[IF Top.used = 0 THEN 1 ELSE Top.used]
       /\ nodes' = [nodes EXCEPT ![Len(nodes)].used = IF @ = 0 THEN 0 ELSE @ - 1]
       /\ size' = size - 1

Pop == IF size = 0 THEN ret' = NULL /\ UNCHANGED <<nodes, size>>
       ELSE LET kept == Trimmed
                top  == kept[Len(kept)]
            IN  /\ ret' = top.mem[top.used]
                /\ nodes' = [kept EXCEPT ![Len(kept)].used = @ - 1]
                /\ size' = size - 1

Next == (\E e \in Elem : Push(e)) \/ Pop

Spec == Init /\ [][Next]_vars

-----------------------------------------------------------------------------
(* Every node but the top one is full: element k of the stack is where it has its *)
(* place when the slots are counted through the nodes.                            *)
Buffers == IF BufSize = 0 THEN 0 ELSE 1
Capacity(i) == IF i <= Buffers THEN BufSize ELSE NodeSize
Start(i)  == IF i <= Buffers THEN 0 ELSE BufSize + (i - Buffers - 1) * NodeSize
NodeOf(k) == IF k <= BufSize THEN 1 ELSE (k - BufSize - 1) \div NodeSize + 1 + Buffers
SlotOf(k) == IF k <= BufSize THEN k ELSE ((k - BufSize - 1) % NodeSize) + 1

Contents == [k \in 1..size |-> nodes[NodeOf(k)].mem[SlotOf(k)]]

StackNode == [mem : Seq(Elem \cup {Garbage}), used : Nat]

(* Types of the variables: a pop never gives memory that was not written. *)
TypeOK == /\ nodes \in Seq(StackNode)
          /\ size \in 0..MaxSize
          /\ ret \in Elem \cup {NULL}

(* The nodes below the top are full, what is used of a node was written, and the *)
(* size counts it.                                                                *)
Packed == /\ \A i \in DOMAIN nodes :
                /\ Len(nodes[i].mem) = Capacity(i) /\ nodes[i].used <= Capacity(i)
                /\ \A p \in 1..nodes[i].used : nodes[i].mem[p] \in Elem
          /\ \A i \in 1..Len(nodes) - 1 : Full(nodes[i])
          /\ size = IF nodes = <<>> THEN 0 ELSE Start(Len(nodes)) + Top.used
          /\ BufSize > 0 => nodes # <<>>

IInv == TypeOK /\ Packed

(* papuga_Stack_top: with an emptied node on top the node below it is taken, but *)
(* the offset still comes from the fill size of the top: the slot before its     *)
(* first element, in the header of the node.                                     *)
StackTop ==
  IF size = 0 THEN NULL
  ELSE LET nd == IF Top.used = 0 THEN nodes[Len(nodes) - 1] ELSE Top
       IN  IF Top.used = 0 THEN Garbage ELSE nd.mem[Top.used]

(* papuga_Stack_top_n: the nodes are taken whole from the top, and only between  *)
(* two of them the count of missing elements is compared with 0.  It wraps below *)
(* it, and then every node is taken.  The result tells which slots of buf were   *)
(* written: slot i with the element i of those taken, counted so that slot n has *)
(* the top; slots below 1 are outside of the caller's buffer.                    *)
UsedFrom(i) == MapThenSumSet(LAMBDA j : nodes[j].used, i..Len(nodes))
TakenForTopNodeOnly(n) == IF n > size THEN 0 ELSE Top.used
TakenFor(n) ==
  IF n > size THEN 0
  ELSE IF n = 0 \/ \E i \in DOMAIN nodes : UsedFrom(i) = n THEN n
  ELSE size
TopN(n) ==
  LET taken == TakenFor(n)
      all   == Contents
  IN  [ok  |-> n <= size /\ nodes # <<>> /\ taken = n,
       buf |-> [i \in (n - taken + 1)..n |-> all[Len(all) - n + i]]]

-----------------------------------------------------------------------------
Lifo == INSTANCE LifoStack WITH stack <- Contents

(* Pushes and pops across node boundaries behave as one stack. *)
ImplementsLifo == Lifo!Spec

(* What a caller asking for n elements can use of the result: the slots 1..n hold *)
(* the n elements on top, oldest first, and no other slot was written.  A stack   *)
(* that has no node yet refuses even to give none.                                *)
TopNCorrect(n) == LET r == TopN(n)
                      all == Contents
                  IN  IF n <= Len(all) /\ nodes # <<>>
                      THEN r.ok /\ r.buf = [i \in 1..n |-> all[Len(all) - n + i]]
                      ELSE ~r.ok

(* Asked for all of its elements, as papuga_PyStruct_create does, and whatever *)
(* node was emptied before, top_n gives all of them in order, and refuses more. *)
TopNOfAllCorrect == TopNCorrect(size) /\ TopNCorrect(size + 1)

(* top gives the last element left, or NULL, unless a pop has emptied the top node *)
(* (papuga_Stack_top, of which stack.h:89 promises it always).                     *)
TopIsLastPushed ==
  \/ nodes # <<>> /\ Top.used = 0 /\ size > 0
  \/ StackTop = IF Contents = <<>> THEN NULL ELSE Last(Contents)

(* The readers of the stack give what their callers in the repository rely on.     *)
ReadersCorrect == TopNOfAllCorrect /\ TopIsLastPushed
=============================================================================
