------------------------ MODULE AllocatorMemoryProofs ------------------------
(* For all sizes of buffers, nodes and blocks below half the range of unsigned    *)
(* int: the blocks an allocator gives are inside of its nodes, aligned and apart.  *)
EXTENDS AllocatorMemory, SequenceTheorems, TLAPS

(* Multiples of an alignment are aligned. *)
LEMMA MultipleIsAligned ==
  ASSUME NEW m \in Nat, NEW al \in Nat \ {0}
  PROVE  (al * m) % al = 0
  OBVIOUS

(* The bytes getPointerAlignIncr skips are less than the alignment and reach it.   *)
LEMMA AlignIncrAligns ==
  ASSUME NEW base \in Nat, NEW ofs \in Nat, NEW al \in Nat \ {0}
  PROVE  /\ AlignIncr(base, ofs, al) \in 0..(al - 1)
         /\ (base + (ofs + AlignIncr(base, ofs, al))) % al = 0
<1> DEFINE x == base + ofs
           q == x \div al
           r == x % al
<1>1. /\ x \in Nat /\ r \in 0..(al - 1) /\ q \in Nat /\ x = al * q + r
  OBVIOUS
<1>2. AlignIncr(base, ofs, al) = (al - r) % al
  BY DEF AlignIncr
<1> HIDE DEF r, q
<1>3. CASE r = 0
  <2>1. AlignIncr(base, ofs, al) = 0
    BY <1>2, <1>3
  <2>2. (al * q) % al = 0
    BY <1>1, MultipleIsAligned
  <2>3. QED BY <1>1, <1>3, <2>1, <2>2
<1>4. CASE r # 0
  <2>1. AlignIncr(base, ofs, al) = al - r
    BY <1>1, <1>2, <1>4
  <2>2. base + (ofs + (al - r)) = al * (q + 1)
    BY <1>1, <1>4
  <2>3. (al * (q + 1)) % al = 0
    <3>1. q + 1 \in Nat
      BY <1>1
    <3>2. QED BY <3>1, MultipleIsAligned
  <2>4. QED BY <1>1, <1>4, <2>1, <2>2, <2>3
<1>5. QED BY <1>3, <1>4

(* What is asked for is below the limit with its alignment.                        *)
LEMMA RequestFacts ==
  ASSUME NEW n \in Sizes, NEW req \in Aligns, ValidRequest(n, req)
  PROVE  LET al == Alignment(req)
         IN  n \in Nat /\ al \in Nat \ {0} /\ MaxBlock \in Nat /\ n + al <= MaxBlock
<1>1. /\ n \in Nat /\ n + MaxAlign <= MaxBlock /\ MaxBlock \in Nat
      /\ MaxAlign \in Nat /\ DefaultAlign \in 1..MaxAlign /\ req \in Nat
  BY UnitsAssumption, CallerAssumption DEF MaxBlock
<1>2. Alignment(req) \in 1..MaxAlign
  BY <1>1 DEF ValidRequest, Alignment
<1>3. QED BY <1>1, <1>2

(* The root is the last of the nodes.                                              *)
LEMMA RootFacts ==
  ASSUME TypeOK
  PROVE  /\ Len(nodes) \in Nat \ {0} /\ DOMAIN nodes = 1..Len(nodes)
         /\ \A i \in 1..Len(nodes) : nodes[i] \in Node /\ nodes[i].arsize <= nodes[i].allocsize
         /\ Root \in Node /\ Root = nodes[Len(nodes)]
         /\ MaxBlock \in Nat /\ UintMod \in Nat /\ 2 * MaxBlock <= UintMod
<1>1. nodes \in Seq(Node) /\ nodes # <<>>
  BY DEF TypeOK
<1>2. Len(nodes) \in Nat \ {0} /\ DOMAIN nodes = 1..Len(nodes)
  BY <1>1, LenProperties, EmptySeq
<1>3. \A i \in 1..Len(nodes) : nodes[i] \in Node
  BY <1>1, ElementOfSeq
<1>4. MaxBlock \in Nat /\ UintMod \in Nat /\ 2 * MaxBlock <= UintMod
  BY UnitsAssumption DEF MaxBlock
<1>5. QED BY <1>2, <1>3, <1>4 DEF Root, TypeOK

(* The sums of the size test do not wrap below the limit.                          *)
LEMMA FitsMeansFits ==
  ASSUME TypeOK, NEW n \in Sizes, NEW req \in Aligns, ValidRequest(n, req),
         FitsInRoot(n, Alignment(req))
  PROVE  LET inc == AlignIncr(Root.base, Root.arsize, Alignment(req))
         IN  /\ Root.base \in Nat /\ inc \in Nat
             /\ Root.arsize + inc + n <= Root.allocsize
<1> DEFINE al  == Alignment(req)
           inc == AlignIncr(Root.base, Root.arsize, al)
<1>1. n \in Nat /\ al \in Nat \ {0} /\ MaxBlock \in Nat /\ n + al <= MaxBlock
  BY RequestFacts
<1>2. Root \in Node /\ Root.arsize \in 0..MaxBlock /\ Root.allocsize \in 0..MaxBlock
      /\ 2 * MaxBlock <= UintMod /\ UintMod \in Nat
  BY RootFacts DEF Node
<1>3. Root.base \in Nat
  BY <1>2, CallerAssumption DEF FitsInRoot, Node
<1>5. Root.allocsize >= (Root.arsize + ((n + inc) % UintMod)) % UintMod
  BY DEF FitsInRoot
<1> HIDE DEF al
<1>4. inc \in 0..(al - 1)
  <2>1. Root.arsize \in Nat
    BY <1>1, <1>2
  <2>2. QED BY <1>1, <1>3, <2>1, AlignIncrAligns
<1> HIDE DEF inc
<1>6. n + inc \in Nat /\ n + inc < MaxBlock
  BY <1>1, <1>4
<1>7. (n + inc) % UintMod = n + inc
  BY <1>1, <1>2, <1>6
<1>8. Root.arsize + (n + inc) \in Nat /\ Root.arsize + (n + inc) < UintMod
  BY <1>1, <1>2, <1>6
<1>9. (Root.arsize + (n + inc)) % UintMod = Root.arsize + (n + inc)
  BY <1>2, <1>8
<1>10. Root.arsize + inc + n <= Root.allocsize
  BY <1>1, <1>2, <1>4, <1>5, <1>7, <1>9
<1>11. QED BY <1>3, <1>4, <1>10 DEF al, inc

LEMMA InitSound == Init => BlocksSound
<1>1. SUFFICES ASSUME Init PROVE BlocksSound
  OBVIOUS
<1>2. PICK b \in Bases :
        nodes = <<[base |-> IF BufSize = 0 THEN NoAr ELSE b, allocsize |-> BufSize,
                   arsize |-> 0, allocated |-> BufSize = 0]>>
  BY <1>1 DEF Init
<1>3. MaxBlock \in Nat /\ BufSize \in 0..MaxBlock
  BY UnitsAssumption, CallerAssumption DEF MaxBlock
<1>4. [base |-> IF BufSize = 0 THEN NoAr ELSE b, allocsize |-> BufSize,
       arsize |-> 0, allocated |-> BufSize = 0] \in Node
  BY <1>3 DEF Node
<1>5. TypeOK
  <2> DEFINE nd == [base |-> IF BufSize = 0 THEN NoAr ELSE b, allocsize |-> BufSize,
                    arsize |-> 0, allocated |-> BufSize = 0]
  <2>1. nd \in Node /\ nd.arsize <= nd.allocsize
    BY <1>3, <1>4
  <2>2. nodes = <<nd>>
    BY <1>2
  <2> HIDE DEF nd
  <2>3. /\ <<nd>> \in Seq(Node) /\ <<nd>> # <<>> /\ Len(<<nd>>) = 1
        /\ DOMAIN <<nd>> = 1..1 /\ <<nd>>[1] = nd
    BY <2>1
  <2>4. \A i \in DOMAIN nodes : nodes[i].arsize <= nodes[i].allocsize
    BY <2>1, <2>2, <2>3
  <2>5. QED BY <1>1, <2>2, <2>3, <2>4 DEF Init, TypeOK
<1>6. QED BY <1>1, <1>5 DEF Init, BlocksSound, BlocksInsideAndAligned, BlocksDisjoint

(* One more block behind the fill of the node it is in.                            *)
LEMMA BlockAdded ==
  ASSUME TypeOK, BlocksSound, TypeOK', NEW b, blocks' = blocks \cup {b},
         b.align \in Nat \ {0}, b.node \in 1..Len(nodes)', b.ofs \in Nat, b.len \in Nat,
         \A c \in blocks : c.len > 0 =>
           /\ c.node \in 1..Len(nodes)'
           /\ nodes'[c.node].base = nodes[c.node].base
           /\ nodes'[c.node].arsize >= nodes[c.node].arsize
           /\ c.node = b.node => c.ofs + c.len <= b.ofs,
         b.ofs + b.len <= nodes'[b.node].arsize,
         nodes'[b.node].base # NoAr,
         (nodes'[b.node].base + b.ofs) % b.align = 0
  PROVE  BlocksSound'
<1>1. ASSUME NEW c \in blocks', c.len > 0
      PROVE  /\ c.ofs + c.len <= nodes'[c.node].arsize
             /\ nodes'[c.node].base # NoAr
             /\ (nodes'[c.node].base + c.ofs) % c.align = 0
  <2>1. CASE c = b
    BY <2>1
  <2>2. CASE c \in blocks
    <3>1. /\ c.ofs + c.len <= nodes[c.node].arsize
          /\ nodes[c.node].base # NoAr
          /\ (nodes[c.node].base + c.ofs) % c.align = 0
      BY <1>1, <2>2 DEF BlocksSound, BlocksInsideAndAligned
    <3>2. /\ c.node \in 1..Len(nodes) /\ c.ofs \in Nat /\ c.len \in Nat
          /\ nodes[c.node].arsize \in Nat
      <4>1. c.node \in 1..Len(nodes) /\ c.ofs \in Nat /\ c.len \in Nat
        BY <2>2 DEF TypeOK
      <4>2. nodes[c.node] \in Node /\ MaxBlock \in Nat
        BY <4>1, RootFacts
      <4>3. QED BY <4>1, <4>2 DEF Node
    <3>3. nodes'[c.node] \in Node
      BY <1>1, <2>2, ElementOfSeq DEF TypeOK
    <3>4. /\ nodes'[c.node].base = nodes[c.node].base
          /\ nodes'[c.node].arsize >= nodes[c.node].arsize
          /\ nodes'[c.node].arsize \in Nat
      BY <1>1, <2>2, <3>3 DEF Node
    <3>5. c.ofs + c.len <= nodes'[c.node].arsize
      <4>1. c.ofs + c.len <= nodes[c.node].arsize /\ nodes[c.node].arsize <= nodes'[c.node].arsize
        BY <3>1, <3>2, <3>4
      <4>2. /\ c.ofs + c.len \in Nat /\ nodes[c.node].arsize \in Nat
            /\ nodes'[c.node].arsize \in Nat
        BY <3>2, <3>4
      <4>3. QED BY <4>1, <4>2
    <3>6. nodes'[c.node].base # NoAr /\ (nodes'[c.node].base + c.ofs) % c.align = 0
      <4>1. nodes'[c.node].base = nodes[c.node].base
        BY <3>4
      <4>2. QED BY <3>1, <4>1, Zenon
    <3>7. QED BY <3>5, <3>6
  <2>3. QED BY <1>1, <2>1, <2>2
<1>2. ASSUME NEW c \in blocks', NEW d \in blocks', c # d, c.node = d.node, c.len > 0, d.len > 0
      PROVE  c.ofs + c.len <= d.ofs \/ d.ofs + d.len <= c.ofs
  BY <1>2 DEF BlocksSound, BlocksDisjoint
<1>3. QED BY <1>1, <1>2 DEF BlocksSound, BlocksInsideAndAligned, BlocksDisjoint

LEMMA AllocInRootSound ==
  ASSUME BlocksSound, UNCHANGED freed, NEW n \in Sizes, NEW req \in Aligns, AllocInRoot(n, req)
  PROVE  BlocksSound'
<1> DEFINE al  == Alignment(req)
           inc == AlignIncr(Root.base, Root.arsize, al)
           b   == Given(Len(nodes), Root.arsize + inc, n, al)
<1>1. /\ ValidRequest(n, req) /\ FitsInRoot(n, al)
      /\ nodes' = [nodes EXCEPT ![Len(nodes)].arsize = @ + inc + n]
      /\ blocks' = blocks \cup {b}
  BY DEF AllocInRoot
<1>2. n \in Nat /\ al \in Nat \ {0}
  BY <1>1, RequestFacts
<1>3. TypeOK
  BY DEF BlocksSound
<1>4. Root.base \in Nat /\ inc \in Nat /\ Root.arsize + inc + n <= Root.allocsize
  BY <1>1, <1>3, FitsMeansFits
<1>5. /\ Len(nodes) \in Nat \ {0} /\ DOMAIN nodes = 1..Len(nodes)
      /\ \A i \in 1..Len(nodes) : nodes[i] \in Node /\ nodes[i].arsize <= nodes[i].allocsize
      /\ Root \in Node /\ Root = nodes[Len(nodes)]
      /\ Root.arsize \in Nat /\ Root.allocsize \in 0..MaxBlock /\ MaxBlock \in Nat
  BY <1>3, RootFacts DEF Node
<1>6. (Root.base + (Root.arsize + inc)) % al = 0
  <2>1. Root.base \in Nat /\ Root.arsize \in Nat /\ al \in Nat \ {0}
    BY <1>2, <1>4, <1>5
  <2>2. QED BY <2>1, AlignIncrAligns, Zenon
<1> DEFINE root == [Root EXCEPT !.arsize = @ + inc + n]
<1>7. /\ nodes' = [nodes EXCEPT ![Len(nodes)] = root]
      /\ root \in Node /\ root.arsize = Root.arsize + inc + n
      /\ root.base = Root.base /\ root.allocsize = Root.allocsize
  <2>1. root = [nodes[Len(nodes)] EXCEPT !.arsize = @ + inc + n]
    BY <1>5
  <2>2. nodes' = [nodes EXCEPT ![Len(nodes)] = root]
    BY <1>1, <2>1
  <2>3. /\ root.arsize = Root.arsize + inc + n
        /\ root.base = Root.base /\ root.allocsize = Root.allocsize
    BY <1>5 DEF Node
  <2>4. Root.arsize + inc + n \in 0..MaxBlock
    BY <1>2, <1>4, <1>5
  <2> HIDE DEF inc
  <2>5. root \in Node
    BY <1>5, <2>4 DEF Node
  <2>6. QED BY <2>2, <2>3, <2>5
<1>8. /\ b.node = Len(nodes) /\ b.ofs = Root.arsize + inc /\ b.len = n /\ b.align = al
      /\ b \in [node : 1..Len(nodes), ofs : Nat, len : Nat, align : Nat \ {0}]
  BY <1>2, <1>4, <1>5 DEF Given
<1> HIDE DEF al, inc, b, root
<1>9. /\ nodes' \in Seq(Node) /\ Len(nodes') = Len(nodes)
      /\ \A i \in 1..Len(nodes) : nodes'[i] = IF i = Len(nodes) THEN root ELSE nodes[i]
  BY <1>3, <1>5, <1>7, ExceptSeq DEF TypeOK
<1>10. DOMAIN nodes' = 1..Len(nodes) /\ nodes' # <<>>
  BY <1>5, <1>9, LenProperties, EmptySeq
<1>11. TypeOK'
  BY <1>1, <1>3, <1>4, <1>5, <1>7, <1>8, <1>9, <1>10 DEF TypeOK
<1>12. ASSUME NEW c \in blocks, c.len > 0
       PROVE  /\ c.node \in 1..Len(nodes)'
              /\ nodes'[c.node].base = nodes[c.node].base
              /\ nodes'[c.node].arsize >= nodes[c.node].arsize
              /\ c.node = b.node => c.ofs + c.len <= b.ofs
  <2>1. c.node \in 1..Len(nodes) /\ c.ofs \in Nat /\ c.len \in Nat
    BY <1>3, <1>12 DEF TypeOK
  <2>2. c.ofs + c.len <= nodes[c.node].arsize /\ nodes[c.node].arsize \in Nat
    BY <1>5, <1>12, <2>1 DEF BlocksSound, BlocksInsideAndAligned, Node
  <2>3. CASE c.node = Len(nodes)
    <3>1. nodes[c.node] = Root /\ nodes'[c.node] = root
      BY <1>5, <1>9, <2>1, <2>3
    <3>2. /\ root.base = Root.base /\ root.arsize >= Root.arsize
          /\ c.ofs + c.len <= Root.arsize + inc
      <4>1. root.base = Root.base /\ root.arsize = Root.arsize + inc + n
        BY <1>7
      <4>2. root.arsize >= Root.arsize
        BY <1>2, <1>4, <1>5, <4>1
      <4>3. c.ofs + c.len <= Root.arsize + inc
        BY <1>4, <1>5, <2>1, <2>2, <3>1
      <4>4. QED BY <4>1, <4>2, <4>3
    <3>3. QED BY <1>8, <1>9, <2>1, <3>1, <3>2
  <2>4. CASE c.node # Len(nodes)
    BY <1>8, <1>9, <2>1, <2>2, <2>4
  <2>5. QED BY <2>3, <2>4
<1>13. /\ b.ofs + b.len <= nodes'[b.node].arsize
       /\ nodes'[b.node].base # NoAr
       /\ (nodes'[b.node].base + b.ofs) % b.align = 0
  <2>1. nodes'[b.node] = root
    BY <1>5, <1>8, <1>9
  <2>2. b.ofs + b.len <= root.arsize
    BY <1>2, <1>4, <1>5, <1>7, <1>8
  <2>3. root.base # NoAr
    BY <1>4, <1>7 DEF NoAr
  <2>4. (root.base + b.ofs) % b.align = 0
    <3>1. root.base = Root.base /\ b.ofs = Root.arsize + inc /\ b.align = al
      BY <1>7, <1>8
    <3>2. QED BY <1>6, <3>1, Zenon
  <2>5. QED BY <2>1, <2>2, <2>3, <2>4
<1>14. QED BY <1>1, <1>3, <1>8, <1>9, <1>11, <1>12, <1>13, BlockAdded

(* A node behind those kept takes the block; what is dropped has none.             *)
LEMMA AllocInNewNodeSound ==
  ASSUME BlocksSound, UNCHANGED freed, NEW n \in Sizes, NEW req \in Aligns,
         AllocInNewNode(n, req)
  PROVE  BlocksSound'
<1> DEFINE al   == Alignment(req)
           kept == IF Root.base = NoAr THEN SubSeq(nodes, 1, Len(nodes) - 1) ELSE nodes
<1>1. PICK base \in Bases, size \in NodeSizesFor(n, al) :
        LET inc == AlignIncr(base, 0, al) IN
        /\ nodes' = Append(kept, [base |-> base, allocsize |-> size,
                                  arsize |-> inc + n, allocated |-> TRUE])
        /\ blocks' = blocks \cup {Given(Len(kept) + 1, inc, n, al)}
  BY DEF AllocInNewNode
<1> DEFINE inc == AlignIncr(base, 0, al)
           new == [base |-> base, allocsize |-> size, arsize |-> inc + n, allocated |-> TRUE]
           b   == Given(Len(kept) + 1, inc, n, al)
<1>2. /\ n \in Nat /\ al \in Nat \ {0} /\ MaxBlock \in Nat
      /\ base \in Nat /\ base \in Bases
      /\ size \in 1..MaxBlock /\ size >= n + al
  <2>1. ValidRequest(n, req)
    BY DEF AllocInNewNode
  <2>2. n \in Nat /\ al \in Nat \ {0} /\ MaxBlock \in Nat
    BY <2>1, RequestFacts
  <2>3. QED BY <2>2, UnitsAssumption, CallerAssumption DEF NodeSizesFor
<1>3. TypeOK
  BY DEF BlocksSound
<1>4. /\ Len(nodes) \in Nat \ {0} /\ nodes \in Seq(Node) /\ DOMAIN nodes = 1..Len(nodes)
      /\ \A i \in 1..Len(nodes) : nodes[i] \in Node /\ nodes[i].arsize <= nodes[i].allocsize
      /\ Root = nodes[Len(nodes)]
  BY <1>3, RootFacts DEF TypeOK
<1>5. /\ kept \in Seq(Node) /\ Len(kept) \in Nat /\ Len(kept) <= Len(nodes)
      /\ Len(nodes) <= Len(kept) + 1
      /\ \A i \in 1..Len(kept) : kept[i] = nodes[i]
      /\ Root.base # NoAr => Len(kept) = Len(nodes)
  <2>1. CASE Root.base = NoAr
    BY <1>4, <2>1, SubSeqProperties
  <2>2. CASE Root.base # NoAr
    BY <1>4, <2>2
  <2>3. QED BY <2>1, <2>2
<1> HIDE DEF al
<1>6. inc \in 0..(al - 1) /\ (base + inc) % al = 0
  BY <1>2, AlignIncrAligns
<1> HIDE DEF inc, kept
<1>7. /\ b.node = Len(kept) + 1 /\ b.ofs = inc /\ b.len = n /\ b.align = al
      /\ b \in [node : 1..(Len(kept) + 1), ofs : Nat, len : Nat, align : Nat \ {0}]
  BY <1>2, <1>5, <1>6 DEF Given
<1>8. /\ new \in Node /\ new.base = base /\ new.arsize = inc + n /\ new.allocsize = size
      /\ inc + n <= size
  <2>1. inc + n \in 0..MaxBlock /\ inc + n <= size
    BY <1>2, <1>6
  <2>2. QED BY <1>2, <2>1 DEF Node
<1>9. nodes' = Append(kept, new) /\ blocks' = blocks \cup {b}
  BY <1>1 DEF inc
<1> HIDE DEF new, b
<1>10. /\ nodes' \in Seq(Node) /\ nodes' # <<>> /\ Len(nodes') = Len(kept) + 1
       /\ DOMAIN nodes' = 1..(Len(kept) + 1)
       /\ \A i \in 1..Len(kept) : nodes'[i] = nodes[i]
       /\ nodes'[Len(kept) + 1] = new
  BY <1>5, <1>8, <1>9, AppendProperties, LenProperties
<1>11. TypeOK'
  <2>1. \A i \in DOMAIN nodes' : nodes'[i].arsize <= nodes'[i].allocsize
    BY <1>4, <1>5, <1>8, <1>10
  <2>2. blocks' \subseteq [node : 1..Len(nodes'), ofs : Nat, len : Nat, align : Nat \ {0}]
    BY <1>3, <1>4, <1>5, <1>7, <1>9, <1>10 DEF TypeOK
  <2>3. QED BY <1>3, <1>10, <2>1, <2>2 DEF TypeOK
<1>12. ASSUME NEW c \in blocks, c.len > 0
       PROVE  c.node \in 1..Len(kept)
  <2>1. c.node \in 1..Len(nodes)
    BY <1>3 DEF TypeOK
  <2>2. nodes[c.node].base # NoAr
    BY <1>12 DEF BlocksSound, BlocksInsideAndAligned
  <2>3. CASE Root.base = NoAr
    BY <1>4, <1>5, <2>1, <2>2, <2>3
  <2>4. CASE Root.base # NoAr
    BY <1>5, <2>1, <2>4
  <2>5. QED BY <2>3, <2>4
<1>13. ASSUME NEW c \in blocks, c.len > 0
       PROVE  /\ c.node \in 1..Len(nodes)'
              /\ nodes'[c.node].base = nodes[c.node].base
              /\ nodes'[c.node].arsize >= nodes[c.node].arsize
              /\ c.node = b.node => c.ofs + c.len <= b.ofs
  <2>1. c.node \in 1..Len(kept) /\ nodes'[c.node] = nodes[c.node]
    BY <1>10, <1>12, <1>13
  <2>2. nodes[c.node].arsize \in Nat
    BY <1>2, <1>4, <1>5, <2>1 DEF Node
  <2>3. QED BY <1>5, <1>7, <1>10, <2>1, <2>2
<1>14. /\ b.ofs + b.len <= nodes'[b.node].arsize
       /\ nodes'[b.node].base # NoAr
       /\ (nodes'[b.node].base + b.ofs) % b.align = 0
  <2>1. nodes'[b.node] = new
    BY <1>7, <1>10
  <2>2. b.ofs + b.len = new.arsize
    BY <1>7, <1>8
  <2>3. b.ofs + b.len <= new.arsize
    BY <1>2, <1>6, <1>7, <2>2
  <2>4. new.base # NoAr
    BY <1>2, <1>8 DEF NoAr
  <2>5. (new.base + b.ofs) % b.align = 0
    BY <1>6, <1>7, <1>8
  <2>6. QED BY <2>1, <2>3, <2>4, <2>5
<1>15. QED BY <1>3, <1>7, <1>9, <1>10, <1>11, <1>13, <1>14, BlockAdded

(* The root without memory has no blocks, the others keep theirs.                  *)
LEMMA AllocFailsSound ==
  ASSUME BlocksSound, UNCHANGED freed, NEW n \in Sizes, NEW req \in Aligns, AllocFails(n, req)
  PROVE  BlocksSound'
<1>1. PICK size \in NodeSizesFor(n, Alignment(req)) :
        nodes' = Append(nodes, [base |-> NoAr, allocsize |-> size,
                                arsize |-> 0, allocated |-> FALSE])
  BY DEF AllocFails
<1> DEFINE new == [base |-> NoAr, allocsize |-> size, arsize |-> 0, allocated |-> FALSE]
<1>2. TypeOK /\ nodes \in Seq(Node)
  BY DEF BlocksSound, TypeOK
<1>3. /\ Len(nodes) \in Nat \ {0} /\ DOMAIN nodes = 1..Len(nodes) /\ MaxBlock \in Nat
  BY <1>2, RootFacts
<1>4. new \in Node /\ new.arsize <= new.allocsize
  BY <1>3, UnitsAssumption DEF NodeSizesFor, Node
<1>5. nodes' = Append(nodes, new) /\ blocks' = blocks
  BY <1>1 DEF AllocFails
<1> HIDE DEF new
<1>6. /\ nodes' \in Seq(Node) /\ nodes' # <<>> /\ Len(nodes') = Len(nodes) + 1
      /\ DOMAIN nodes' = 1..(Len(nodes) + 1)
      /\ \A i \in 1..Len(nodes) : nodes'[i] = nodes[i]
      /\ nodes'[Len(nodes) + 1] = new
  BY <1>2, <1>4, <1>5, AppendProperties, LenProperties
<1>7. TypeOK'
  BY <1>2, <1>3, <1>4, <1>5, <1>6 DEF TypeOK
<1>8. \A c \in blocks : c.node \in 1..Len(nodes) /\ nodes'[c.node] = nodes[c.node]
  BY <1>2, <1>6 DEF TypeOK
<1>9. QED BY <1>5, <1>7, <1>8 DEF BlocksSound, BlocksInsideAndAligned, BlocksDisjoint

(* The last block of the root gets shorter: no other one is behind its start.      *)
LEMMA ShrinkLastSound ==
  ASSUME BlocksSound, NEW b \in blocks, NEW n \in Sizes, ShrinkLast(b, n)
  PROVE  BlocksSound'
<1> DEFINE less == [b EXCEPT !.len = n]
           root == [Root EXCEPT !.arsize = @ - b.len + n]
<1>1. TypeOK /\ nodes \in Seq(Node)
  BY DEF BlocksSound, TypeOK
<1>2. /\ Len(nodes) \in Nat \ {0} /\ DOMAIN nodes = 1..Len(nodes)
      /\ \A i \in 1..Len(nodes) : nodes[i] \in Node /\ nodes[i].arsize <= nodes[i].allocsize
      /\ Root \in Node /\ Root = nodes[Len(nodes)] /\ MaxBlock \in Nat
  BY <1>1, RootFacts
<1>3. /\ b \in [node : 1..Len(nodes), ofs : Nat, len : Nat, align : Nat \ {0}]
      /\ b.node = Len(nodes) /\ b.ofs = Root.arsize - b.len
      /\ n \in Nat /\ n <= b.len
      /\ nodes' = [nodes EXCEPT ![Len(nodes)].arsize = @ - b.len + n]
      /\ blocks' = (blocks \ {b}) \cup {less}
      /\ freed' = freed
  BY <1>1, CallerAssumption DEF ShrinkLast, Shrinkable, TypeOK
<1>4. /\ less.node = b.node /\ less.ofs = b.ofs /\ less.len = n /\ less.align = b.align
      /\ less \in [node : 1..Len(nodes), ofs : Nat, len : Nat, align : Nat \ {0}]
  BY <1>3
<1>5. /\ root \in Node /\ root.base = Root.base /\ root.allocsize = Root.allocsize
      /\ root.arsize = b.ofs + n /\ root.arsize <= Root.arsize
      /\ Root.arsize \in Nat /\ Root.arsize <= Root.allocsize
      /\ b.ofs \in Nat /\ b.len \in Nat /\ b.align \in Nat \ {0}
  <2>1. /\ Root.arsize \in 0..MaxBlock /\ b.len \in Nat /\ b.ofs \in Nat
        /\ b.align \in Nat \ {0} /\ Root.arsize <= Root.allocsize
    BY <1>2, <1>3 DEF Node
  <2>2. Root.arsize - b.len + n = b.ofs + n /\ b.ofs + n <= Root.arsize /\ b.ofs + n \in 0..MaxBlock
    BY <1>2, <1>3, <2>1
  <2>3. /\ root.base = Root.base /\ root.allocsize = Root.allocsize
        /\ root.arsize = Root.arsize - b.len + n
    BY <1>2 DEF Node
  <2>4. root \in Node
    <3>1. Root.arsize - b.len + n \in 0..MaxBlock
      BY <2>2
    <3>2. QED BY <1>2, <3>1 DEF Node
  <2> HIDE DEF root
  <2>5. QED BY <2>1, <2>2, <2>3, <2>4
<1>6. nodes' = [nodes EXCEPT ![Len(nodes)] = root]
  BY <1>2, <1>3
<1> HIDE DEF less, root
<1>7. /\ nodes' \in Seq(Node) /\ Len(nodes') = Len(nodes)
      /\ \A i \in 1..Len(nodes) : nodes'[i] = IF i = Len(nodes) THEN root ELSE nodes[i]
  BY <1>1, <1>2, <1>5, <1>6, ExceptSeq
<1>8. DOMAIN nodes' = 1..Len(nodes) /\ nodes' # <<>>
  BY <1>2, <1>7, LenProperties, EmptySeq
<1>9. TypeOK'
  <2>1. \A i \in DOMAIN nodes' : nodes'[i].arsize <= nodes'[i].allocsize
    <3>1. root.arsize <= root.allocsize
      BY <1>2, <1>5 DEF Node
    <3>2. QED BY <1>2, <1>7, <1>8, <3>1
  <2>2. blocks' \subseteq [node : 1..Len(nodes'), ofs : Nat, len : Nat, align : Nat \ {0}]
    BY <1>1, <1>3, <1>4, <1>7 DEF TypeOK
  <2>3. QED BY <1>1, <1>3, <1>7, <1>8, <2>1, <2>2 DEF TypeOK
(* Another block of the root ends where the last one starts, if that has bytes.    *)
<1>10. ASSUME NEW c \in blocks, c # b, c.len > 0
       PROVE  /\ c.node \in 1..Len(nodes) /\ c.ofs \in Nat /\ c.len \in Nat
              /\ c.ofs + c.len <= nodes'[c.node].arsize
              /\ nodes'[c.node].base # NoAr
              /\ (nodes'[c.node].base + c.ofs) % c.align = 0
              /\ c.node = b.node => c.ofs + c.len <= b.ofs
  <2>1. c.node \in 1..Len(nodes) /\ c.ofs \in Nat /\ c.len \in Nat
    BY <1>1 DEF TypeOK
  <2>2. /\ c.ofs + c.len <= nodes[c.node].arsize
        /\ nodes[c.node].base # NoAr
        /\ (nodes[c.node].base + c.ofs) % c.align = 0
    BY <1>10 DEF BlocksSound, BlocksInsideAndAligned
  <2>3. CASE c.node = b.node
    <3>1. nodes[c.node] = Root /\ nodes'[c.node] = root
      BY <1>2, <1>3, <1>7, <2>3
    <3>2. c.ofs + c.len <= b.ofs
      <4>1. CASE b.len > 0
        <5>1. c.ofs + c.len <= b.ofs \/ b.ofs + b.len <= c.ofs
          BY <1>10, <2>3, <4>1 DEF BlocksSound, BlocksDisjoint
        <5>2. b.ofs + b.len = Root.arsize
          BY <1>3, <1>5
        <5>3. QED BY <1>5, <1>10, <2>1, <2>2, <3>1, <5>1, <5>2
      <4>2. CASE ~(b.len > 0)
        BY <1>3, <1>5, <2>1, <2>2, <3>1, <4>2
      <4>3. QED BY <4>1, <4>2
    <3>3. c.ofs + c.len <= root.arsize
      BY <1>3, <1>5, <2>1, <3>2
    <3>4. root.base = Root.base
      BY <1>5
    <3>5. QED BY <2>1, <2>2, <3>1, <3>2, <3>3, <3>4
  <2>4. CASE c.node # b.node
    BY <1>3, <1>7, <2>1, <2>2, <2>4
  <2>5. QED BY <2>3, <2>4
<1>11. less.len > 0 =>
         /\ less.ofs + less.len <= nodes'[less.node].arsize
         /\ nodes'[less.node].base # NoAr
         /\ (nodes'[less.node].base + less.ofs) % less.align = 0
  <2>1. SUFFICES ASSUME less.len > 0
                 PROVE  /\ less.ofs + less.len <= nodes'[less.node].arsize
                        /\ nodes'[less.node].base # NoAr
                        /\ (nodes'[less.node].base + less.ofs) % less.align = 0
    OBVIOUS
  <2>2. b.len > 0
    BY <1>3, <1>4, <1>5, <2>1
  <2>3. nodes[b.node].base # NoAr /\ (nodes[b.node].base + b.ofs) % b.align = 0
    BY <2>2 DEF BlocksSound, BlocksInsideAndAligned
  <2>4. nodes'[less.node] = root /\ nodes[b.node] = Root
    BY <1>2, <1>3, <1>4, <1>7
  <2>5. QED BY <1>3, <1>4, <1>5, <2>3, <2>4
<1>12. BlocksInsideAndAligned'
  BY <1>3, <1>10, <1>11 DEF BlocksInsideAndAligned
<1>13. BlocksDisjoint'
  <2>1. SUFFICES ASSUME NEW c \in blocks', NEW d \in blocks', c # d, c.node = d.node,
                        c.len > 0, d.len > 0
                 PROVE  c.ofs + c.len <= d.ofs \/ d.ofs + d.len <= c.ofs
    BY DEF BlocksDisjoint
  <2>2. CASE c \in blocks \ {b} /\ d \in blocks \ {b}
    BY <2>1, <2>2 DEF BlocksSound, BlocksDisjoint
  <2>3. CASE c = less /\ d \in blocks \ {b}
    BY <1>4, <1>10, <2>1, <2>3
  <2>4. CASE d = less /\ c \in blocks \ {b}
    BY <1>4, <1>10, <2>1, <2>4
  <2>5. QED BY <1>3, <2>1, <2>2, <2>3, <2>4
<1>14. QED BY <1>9, <1>12, <1>13 DEF BlocksSound

LEMMA DestroySound ==
  ASSUME BlocksSound, Destroy
  PROVE  BlocksSound'
<1> DEFINE nd == [Root EXCEPT !.base = NoAr]
<1>1. nodes' = <<nd>> /\ blocks' = {} /\ freed' = TRUE
  BY DEF Destroy
<1>2. Root \in Node /\ Root.arsize <= Root.allocsize
  BY RootFacts DEF BlocksSound
<1>3. nd \in Node /\ nd.arsize <= nd.allocsize
  BY <1>2 DEF Node
<1> HIDE DEF nd
<1>4. /\ <<nd>> \in Seq(Node) /\ <<nd>> # <<>> /\ DOMAIN <<nd>> = 1..1 /\ <<nd>>[1] = nd
  BY <1>3
<1>5. \A i \in DOMAIN nodes' : nodes'[i].arsize <= nodes'[i].allocsize
  BY <1>1, <1>3, <1>4
<1>6. TypeOK'
  BY <1>1, <1>4, <1>5 DEF TypeOK
<1>7. QED BY <1>1, <1>6 DEF BlocksSound, BlocksInsideAndAligned, BlocksDisjoint

(* Whatever is allocated, refused, shrunk or freed, the blocks given out are inside *)
(* of their nodes, aligned, and no byte is in two (papuga_Allocator_alloc,          *)
(* papuga_Allocator_shrink_last_alloc), below the limit of CallerAssumption.        *)
THEOREM BlocksAlwaysSound == Spec => []BlocksSound
<1>1. Init => BlocksSound
  BY InitSound
<1>2. BlocksSound /\ [Next]_vars => BlocksSound'
  <2>1. SUFFICES ASSUME BlocksSound, [Next]_vars PROVE BlocksSound'
    OBVIOUS
  <2>2. ASSUME NEW n \in Sizes, NEW al \in Aligns, Alloc(n, al) PROVE BlocksSound'
    BY <2>1, <2>2, AllocInRootSound, AllocInNewNodeSound, AllocFailsSound DEF Alloc
  <2>3. ASSUME NEW b \in blocks, NEW n \in Sizes, ShrinkLast(b, n) PROVE BlocksSound'
    BY <2>1, <2>3, ShrinkLastSound
  <2>4. CASE Destroy
    BY <2>1, <2>4, DestroySound
  <2>5. CASE UNCHANGED vars
    BY <2>1, <2>5 DEF vars, BlocksSound, TypeOK, BlocksInsideAndAligned, BlocksDisjoint
  <2>6. QED BY <2>1, <2>2, <2>3, <2>4, <2>5 DEF Next
<1>3. QED BY <1>1, <1>2, PTL DEF Spec
=============================================================================
