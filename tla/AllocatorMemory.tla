--------------------------- MODULE AllocatorMemory ---------------------------
(* src/allocator.c, the memory side: blocks are cut off the root node; when the *)
(* root is exhausted it is pushed to the list of nodes and replaced by a new    *)
(* node.  Sizes and addresses are scaled down: StdBlock is STDBLOCKSIZE,        *)
(* MaxAlign is MAXALIGN, UintMod the range of unsigned int.                     *)
EXTENDS Integers, Sequences, FiniteSets

CONSTANTS BufSize,       \* size of the caller's buffer, 0 if none
          StdBlock,      \* STDBLOCKSIZE
          MaxAlign,      \* MAXALIGN
          DefaultAlign,  \* sizeof(struct MaxAlignStruct)
          UintMod,       \* number of values of unsigned int
          Sizes,         \* block sizes asked for
          Aligns,        \* alignments asked for
          Bases,         \* addresses modulo MaxAlign that malloc returns
          Doublings,     \* how often the size of a node is doubled at most
          MaxNodes,      \* bound on the nodes
          MaxBlocks      \* bound on the blocks given out

(* A node takes at most half of the range of unsigned int, the MAXBLOCKSIZE the    *)
(* code means; no more is asked for, or the size of the node wraps to 0.           *)
MaxBlock == UintMod \div 2
NodeSizes == {StdBlock * 2^k : k \in 0..Doublings}

ASSUME UnitsAssumption == /\ StdBlock \in Nat /\ MaxAlign \in Nat
                          /\ DefaultAlign \in 1..MaxAlign /\ UintMod \in Nat
                          /\ NodeSizes \subseteq 1..MaxBlock
ASSUME CallerAssumption == /\ BufSize \in 0..MaxBlock /\ Bases \subseteq Nat /\ Aligns \subseteq Nat
                           /\ \A n \in Sizes : n \in Nat /\ n + MaxAlign <= MaxBlock

VARIABLES nodes,   \* root last: [base, allocsize, arsize, allocated]; base -1 is ar=NULL
          blocks,  \* blocks given to callers: [node, ofs, len, align]
          freed    \* TRUE after papuga_destroy_Allocator

vars == <<nodes, blocks, freed>>

NoAr == -1
Root == nodes[Len(nodes)]

(* papuga_init_Allocator *)
Init == /\ \E b \in Bases :
             nodes = <<[base |-> IF BufSize = 0 THEN NoAr ELSE b, allocsize |-> BufSize,
                        arsize |-> 0, allocated |-> BufSize = 0]>>
        /\ blocks = {}
        /\ freed = FALSE

IsPowerOfTwo(n) == \E k \in 0..8 : n = 2^k

ValidRequest(n, al) == al = 0 \/ (IsPowerOfTwo(al) /\ al <= MaxAlign /\ n # 0)
Alignment(al) == IF al = 0 THEN DefaultAlign ELSE al

AlignIncr(base, ofs, al) == (al - ((base + ofs) % al)) % al

(* The doubling loop: the first size that is big enough, if there is one. *)
NodeSizesFor(n, al) == {s \in NodeSizes : s >= n + al /\ (s = StdBlock \/ s \div 2 < n + al)}

Given(i, ofs, n, al) == [node |-> i, ofs |-> ofs, len |-> n, align |-> al]

(* papuga_Allocator_alloc with room in the root node ... *)
FitsInRoot(n, al) ==
  Root.base # NoAr /\ Root.allocsize >=
     (Root.arsize + ((n + AlignIncr(Root.base, Root.arsize, al)) % UintMod)) % UintMod

AllocInRoot(n, req) ==
  LET al  == Alignment(req)
      inc == AlignIncr(Root.base, Root.arsize, al)
  IN  /\ ValidRequest(n, req)
      /\ FitsInRoot(n, al)
      /\ nodes' = [nodes EXCEPT ![Len(nodes)].arsize = @ + inc + n]
      /\ blocks' = blocks \cup {Given(Len(nodes), Root.arsize + inc, n, al)}

(* ... and with a new root node; the old root is kept below it. *)
AllocInNewNode(n, req) ==
  LET al   == Alignment(req)
      kept == IF Root.base = NoAr THEN SubSeq(nodes, 1, Len(nodes) - 1) ELSE nodes
  IN  /\ ValidRequest(n, req)
      /\ ~FitsInRoot(n, al)
      /\ Len(kept) < MaxNodes
      /\ \E b \in Bases, size \in NodeSizesFor(n, al) :
           LET inc == AlignIncr(b, 0, al) IN
           /\ nodes' = Append(kept, [base |-> b, allocsize |-> size,
                                     arsize |-> inc + n, allocated |-> TRUE])
           /\ blocks' = blocks \cup {Given(Len(kept) + 1, inc, n, al)}

(* malloc of the new node's memory fails after the root was pushed down. *)
AllocFails(n, req) ==
  /\ ValidRequest(n, req)
  /\ ~FitsInRoot(n, Alignment(req))
  /\ Root.base # NoAr
  /\ Len(nodes) < MaxNodes
  /\ \E size \in NodeSizesFor(n, Alignment(req)) :
       nodes' = Append(nodes, [base |-> NoAr, allocsize |-> size,
                               arsize |-> 0, allocated |-> FALSE])
  /\ UNCHANGED blocks

Alloc(n, req) == ~freed /\ UNCHANGED freed /\ Cardinality(blocks) < MaxBlocks
                 /\ (AllocInRoot(n, req) \/ AllocInNewNode(n, req) \/ AllocFails(n, req))

(* papuga_Allocator_shrink_last_alloc: the caller gives the block's size. *)
ShrinkableAnyEnd(b) == b.node = Len(nodes) /\ Root.base # NoAr
Shrinkable(b) == b.node = Len(nodes) /\ b.ofs = Root.arsize - b.len

ShrinkLast(b, n) ==
  /\ ~freed
  /\ Shrinkable(b)
  /\ n <= b.len
  /\ nodes' = [nodes EXCEPT ![Len(nodes)].arsize = @ - b.len + n]
  /\ blocks' = (blocks \ {b}) \cup {[b EXCEPT !.len = n]}
  /\ UNCHANGED freed

(* papuga_destroy_AllocatorNode: every node's memory is freed, if it was malloced. *)
Destroy == /\ ~freed
           /\ freed' = TRUE
           /\ nodes' = <<[Root EXCEPT !.base = NoAr]>>
           /\ blocks' = {}

Next == \/ \E n \in Sizes, al \in Aligns : Alloc(n, al)
        \/ \E b \in blocks, n \in Sizes : ShrinkLast(b, n)
        \/ Destroy

Spec == Init /\ [][Next]_vars

-----------------------------------------------------------------------------
(* Types of the variables: no node is filled above its size. *)
Node == [base : Bases \cup {NoAr}, allocsize : 0..MaxBlock, arsize : 0..MaxBlock, allocated : BOOLEAN]
TypeOK == /\ nodes \in Seq(Node) /\ nodes # <<>>
          /\ \A i \in DOMAIN nodes : nodes[i].arsize <= nodes[i].allocsize
          /\ blocks \subseteq [node : 1..Len(nodes), ofs : Nat, len : Nat, align : Nat \ {0}]
          /\ freed \in BOOLEAN

(* Every block lies inside its node, at the alignment asked for (a block of no     *)
(* bytes, which alignment 0 lets through, may be left behind by a shrink).         *)
BlocksInsideAndAligned ==
  \A b \in blocks : b.len > 0 => LET nd == nodes[b.node] IN
    /\ b.ofs + b.len <= nd.arsize
    /\ nd.base # NoAr
    /\ (nd.base + b.ofs) % b.align = 0

(* No byte is given out twice, whatever was shrunk or failed in between. *)
BlocksDisjoint ==
  \A b, c \in blocks : b # c /\ b.node = c.node /\ b.len > 0 /\ c.len > 0 =>
     b.ofs + b.len <= c.ofs \/ c.ofs + c.len <= b.ofs

(* The blocks given out can be used side by side. *)
BlocksSound == TypeOK /\ BlocksInsideAndAligned /\ BlocksDisjoint

=============================================================================
