--------------------------- MODULE PapugaStackProofs ---------------------------
(* For every size of the buffer, of the nodes and of the stack: pushes and pops   *)
(* across the nodes of a papuga_Stack behave as one stack, and its readers give   *)
(* what their callers rely on.                                                    *)
EXTENDS PapugaStack, SequenceTheorems, TLAPS

-----------------------------------------------------------------------------
(* Counting the slots through the nodes. *)
LEMMA Division ==
  ASSUME NEW n \in Nat \ {0}, NEW q \in Nat, NEW p \in 0..n-1
  PROVE  /\ q * n + p \in Nat
         /\ (q * n + p) \div n = q /\ (q * n + p) % n = p
<1>1. q * n + p \in Nat
  OBVIOUS
<1>2. (q * n + p) \div n = q
  OBVIOUS
<1>3. (q * n + p) % n = p
  OBVIOUS
<1>4. QED BY <1>1, <1>2, <1>3

LEMMA Quotient ==
  ASSUME NEW n \in Nat \ {0}, NEW i \in Nat
  PROVE  \E d \in Nat, r \in 0..n-1 : i \div n = d /\ i % n = r /\ i = d * n + r
<1> DEFINE d == i \div n
           r == i % n
<1>1. r \in 0..n-1 /\ d \in Nat /\ i = n * d + r
  OBVIOUS
<1> HIDE DEF d, r
<1>2. n * d = d * n
  BY <1>1
<1>3. i = d * n + r
  BY <1>1, <1>2
<1>4. d \in Nat /\ r \in 0..n-1 /\ i = d * n + r
  BY <1>1, <1>3
<1>5. i \div n = d /\ i % n = r
  BY DEF d, r
<1>6. QED BY <1>4, <1>5

(* Each node starts where the one below it ends. *)
LEMMA StartFacts ==
  /\ BufSize \in Nat /\ NodeSize \in Nat \ {0} /\ Buffers \in {0, 1}
  /\ BufSize = 0 <=> Buffers = 0
  /\ Start(1) = 0
  /\ \A i \in Nat \ {0} : /\ Capacity(i) \in Nat \ {0} /\ Start(i) \in Nat
                          /\ Start(i + 1) = Start(i) + Capacity(i)
  /\ \A j, k \in Nat \ {0} : j < k => Start(j) + Capacity(j) <= Start(k)
<1>1. /\ BufSize \in Nat /\ NodeSize \in Nat \ {0} /\ Buffers \in {0, 1}
      /\ BufSize = 0 <=> Buffers = 0
  BY SizesAssumption DEF Buffers
<1>2. Start(1) = 0
  <2>1. CASE Buffers = 0
    BY <1>1, <2>1 DEF Start
  <2>2. CASE Buffers = 1
    BY <2>2 DEF Start
  <2>3. QED BY <1>1, <2>1, <2>2
<1>3. ASSUME NEW i \in Nat \ {0}
      PROVE  Capacity(i) \in Nat \ {0} /\ Start(i) \in Nat
  <2>1. Capacity(i) \in Nat \ {0}
    BY <1>1 DEF Capacity
  <2>2. CASE i <= Buffers
    BY <2>1, <2>2 DEF Start
  <2>3. CASE ~(i <= Buffers)
    <3>1. i - Buffers - 1 \in Nat
      BY <1>1, <2>3
    <3>2. (i - Buffers - 1) * NodeSize \in Nat
      BY <1>1, <3>1
    <3>3. QED BY <1>1, <2>1, <2>3, <3>2 DEF Start
  <2>4. QED BY <2>1, <2>2, <2>3
<1>4. ASSUME NEW i \in Nat \ {0}
      PROVE  Start(i + 1) = Start(i) + Capacity(i)
  <2>1. CASE i <= Buffers
    <3>1. i = 1 /\ Buffers = 1
      BY <1>1, <2>1
    <3>2. Start(2) = BufSize
      BY <1>1, <3>1 DEF Start
    <3>3. QED BY <1>1, <2>1, <3>1, <3>2 DEF Start, Capacity
  <2>2. CASE ~(i <= Buffers)
    <3> DEFINE d == i - Buffers - 1
    <3>1. d \in Nat /\ (i + 1) - Buffers - 1 = d + 1 /\ ~(i + 1 <= Buffers)
      BY <1>1, <2>2
    <3> HIDE DEF d
    <3>2. (d + 1) * NodeSize = d * NodeSize + NodeSize
      BY <1>1, <3>1
    <3>3. Start(i) = BufSize + d * NodeSize /\ Start(i + 1) = BufSize + (d + 1) * NodeSize
      BY <2>2, <3>1 DEF Start, d
    <3>4. d * NodeSize \in Nat /\ Capacity(i) = NodeSize
      BY <1>1, <2>2, <3>1 DEF Capacity
    <3>5. QED BY <1>1, <3>2, <3>3, <3>4
  <2>3. QED BY <2>1, <2>2
<1>5. ASSUME NEW j \in Nat \ {0}, NEW k \in Nat \ {0}, j < k
      PROVE  Start(j) + Capacity(j) <= Start(k)
  <2>1. Start(j) + Capacity(j) = Start(j + 1)
    BY <1>4
  <2>2. Start(j + 1) <= Start(k)
    <3>1. ~(j + 1 <= Buffers) /\ ~(k <= Buffers)
      BY <1>1, <1>5
    <3> DEFINE a == (j + 1) - Buffers - 1
               m == k - (j + 1)
    <3>2. a \in Nat /\ m \in Nat /\ k - Buffers - 1 = a + m
      BY <1>1, <1>5
    <3> HIDE DEF a, m
    <3>3. (a + m) * NodeSize = a * NodeSize + m * NodeSize
      BY <1>1, <3>2
    <3>4. a * NodeSize \in Nat /\ m * NodeSize \in Nat
      BY <1>1, <3>2
    <3>5. Start(j + 1) = BufSize + a * NodeSize /\ Start(k) = BufSize + (a + m) * NodeSize
      BY <3>1, <3>2 DEF Start, a
    <3>6. QED BY <1>1, <3>3, <3>4, <3>5
  <2>3. QED BY <2>1, <2>2
<1>6. QED BY <1>1, <1>2, <1>3, <1>4, <1>5

LEMMA PlaceOfSlot ==
  ASSUME NEW i \in Nat \ {0}, NEW p \in 1..Capacity(i)
  PROVE  NodeOf(Start(i) + p) = i /\ SlotOf(Start(i) + p) = p
<1>1. /\ BufSize \in Nat /\ NodeSize \in Nat \ {0} /\ Buffers \in {0, 1}
      /\ BufSize = 0 <=> Buffers = 0
  BY StartFacts
<1>2. CASE i <= Buffers
  <2>1. i = 1 /\ Start(i) = 0 /\ Capacity(i) = BufSize
    BY <1>1, <1>2 DEF Start, Capacity
  <2>2. Start(i) + p = p /\ p <= BufSize
    BY <1>1, <2>1
  <2>3. QED BY <2>1, <2>2 DEF NodeOf, SlotOf
<1>3. CASE ~(i <= Buffers)
  <2> DEFINE d == i - Buffers - 1
             r == p - 1
             k == Start(i) + p
  <2>1. d \in Nat /\ r \in 0..NodeSize - 1 /\ d + 1 + Buffers = i /\ r + 1 = p
    BY <1>1, <1>3 DEF Capacity
  <2>2. k = BufSize + d * NodeSize + p
    BY <1>3 DEF Start
  <2> HIDE DEF d, r, k
  <2>3. /\ d * NodeSize + r \in Nat
        /\ (d * NodeSize + r) \div NodeSize = d /\ (d * NodeSize + r) % NodeSize = r
    BY <1>1, <2>1, Division
  <2>4. d * NodeSize \in Nat
    BY <1>1, <2>1
  <2>5. k - BufSize - 1 = d * NodeSize + r /\ ~(k <= BufSize)
    <3>1. p = r + 1
      BY <2>1
    <3>2. QED BY <1>1, <2>1, <2>2, <2>4, <3>1
  <2>6. NodeOf(k) = d + 1 + Buffers /\ SlotOf(k) = r + 1
    BY <2>3, <2>5 DEF NodeOf, SlotOf
  <2>7. QED BY <2>1, <2>6 DEF k
<1>4. QED BY <1>2, <1>3

LEMMA SlotOfPlace ==
  ASSUME NEW k \in Nat \ {0}
  PROVE  /\ NodeOf(k) \in Nat \ {0} /\ SlotOf(k) \in 1..Capacity(NodeOf(k))
         /\ k = Start(NodeOf(k)) + SlotOf(k)
<1>1. /\ BufSize \in Nat /\ NodeSize \in Nat \ {0} /\ Buffers \in {0, 1}
      /\ BufSize = 0 <=> Buffers = 0
  BY StartFacts
<1>2. CASE k <= BufSize
  <2>1. NodeOf(k) = 1 /\ SlotOf(k) = k /\ Buffers = 1
    BY <1>1, <1>2 DEF NodeOf, SlotOf
  <2>2. QED BY <1>2, <2>1 DEF Start, Capacity
<1>3. CASE ~(k <= BufSize)
  <2> DEFINE m == k - BufSize - 1
  <2>1. m \in Nat
    BY <1>1, <1>3
  <2>2. NodeOf(k) = m \div NodeSize + 1 + Buffers /\ SlotOf(k) = (m % NodeSize) + 1
    BY <1>3 DEF NodeOf, SlotOf
  <2>3. k = BufSize + m + 1
    BY <1>1
  <2> HIDE DEF m
  <2>4. PICK d \in Nat, r \in 0..NodeSize - 1 :
          m \div NodeSize = d /\ m % NodeSize = r /\ m = d * NodeSize + r
    BY <1>1, <2>1, Quotient
  <2>5. NodeOf(k) = d + 1 + Buffers /\ SlotOf(k) = r + 1
    BY <2>2, <2>4
  <2>6. ~(d + 1 + Buffers <= Buffers) /\ (d + 1 + Buffers) - Buffers - 1 = d
    BY <1>1, <2>4
  <2>7. Start(NodeOf(k)) = BufSize + d * NodeSize /\ Capacity(NodeOf(k)) = NodeSize
    BY <2>5, <2>6 DEF Start, Capacity
  <2>8. d * NodeSize \in Nat
    BY <1>1
  <2>9. k = (BufSize + d * NodeSize) + (r + 1)
    BY <1>1, <2>3, <2>4, <2>8
  <2>10. QED BY <1>1, <2>4, <2>5, <2>7, <2>9
<1>4. QED BY <1>2, <1>3

-----------------------------------------------------------------------------
(* The elements of a stack. *)
LEMMA NodeFacts ==
  ASSUME IInv
  PROVE  /\ nodes \in Seq(StackNode) /\ Len(nodes) \in Nat /\ DOMAIN nodes = 1..Len(nodes)
         /\ \A i \in 1..Len(nodes) :
               /\ i \in Nat \ {0} /\ nodes[i] \in StackNode
               /\ nodes[i].mem \in [1..Capacity(i) -> Elem \cup {Garbage}]
               /\ nodes[i].used \in 0..Capacity(i)
               /\ i < Len(nodes) => nodes[i].used = Capacity(i)
               /\ \A p \in 1..nodes[i].used : nodes[i].mem[p] \in Elem
         /\ size \in Nat
         /\ nodes = <<>> <=> Len(nodes) = 0
         /\ nodes = <<>> => size = 0
         /\ nodes # <<>> => size = Start(Len(nodes)) + nodes[Len(nodes)].used
<1>1. nodes \in Seq(StackNode) /\ Len(nodes) \in Nat /\ DOMAIN nodes = 1..Len(nodes)
  BY LenProperties DEF IInv, TypeOK
<1>2. ASSUME NEW i \in 1..Len(nodes)
      PROVE  /\ i \in Nat \ {0} /\ nodes[i] \in StackNode
             /\ nodes[i].mem \in [1..Capacity(i) -> Elem \cup {Garbage}]
             /\ nodes[i].used \in 0..Capacity(i)
             /\ i < Len(nodes) => nodes[i].used = Capacity(i)
             /\ \A p \in 1..nodes[i].used : nodes[i].mem[p] \in Elem
  <2>1. i \in Nat \ {0} /\ nodes[i] \in StackNode
    BY <1>1, ElementOfSeq
  <2>2. nodes[i].mem \in Seq(Elem \cup {Garbage}) /\ nodes[i].used \in Nat
    BY <2>1 DEF StackNode
  <2>3. /\ Len(nodes[i].mem) = Capacity(i) /\ nodes[i].used <= Capacity(i)
        /\ \A p \in 1..nodes[i].used : nodes[i].mem[p] \in Elem
    BY <1>1 DEF IInv, Packed
  <2>4. nodes[i].mem \in [1..Capacity(i) -> Elem \cup {Garbage}]
    BY <2>2, <2>3, LenProperties
  <2>5. Capacity(i) \in Nat
    BY <2>1, StartFacts
  <2>6. i < Len(nodes) => nodes[i].used = Capacity(i)
    BY <1>1, <2>3 DEF IInv, Packed, Full
  <2>7. QED BY <2>1, <2>2, <2>3, <2>4, <2>5, <2>6
<1>3. size \in Nat
  BY SizesAssumption DEF IInv, TypeOK
<1>4. nodes = <<>> <=> Len(nodes) = 0
  BY <1>1, EmptySeq
<1>5. /\ nodes = <<>> => size = 0
      /\ nodes # <<>> => size = Start(Len(nodes)) + nodes[Len(nodes)].used
  BY DEF IInv, Packed, Top
<1>6. QED BY <1>1, <1>2, <1>3, <1>4, <1>5

(* What is used of the nodes is numbered from 1 to the size. *)
LEMMA SlotsNumbered ==
  ASSUME IInv
  PROVE  /\ \A k \in 1..size : /\ NodeOf(k) \in 1..Len(nodes)
                               /\ SlotOf(k) \in 1..nodes[NodeOf(k)].used
         /\ \A i \in 1..Len(nodes) : \A p \in 1..nodes[i].used :
               /\ Start(i) + p \in 1..size
               /\ NodeOf(Start(i) + p) = i /\ SlotOf(Start(i) + p) = p
<1> DEFINE L == Len(nodes)
<1>1. /\ L \in Nat /\ size \in Nat
      /\ \A i \in 1..L : /\ i \in Nat \ {0} /\ nodes[i].used \in 0..Capacity(i)
                         /\ i < L => nodes[i].used = Capacity(i)
      /\ L = 0 => size = 0
      /\ L # 0 => size = Start(L) + nodes[L].used
  BY NodeFacts
<1> HIDE DEF L
<1>2. ASSUME NEW k \in 1..size
      PROVE  NodeOf(k) \in 1..L /\ SlotOf(k) \in 1..nodes[NodeOf(k)].used
  <2> DEFINE i == NodeOf(k)
             p == SlotOf(k)
  <2>1. i \in Nat \ {0} /\ p \in 1..Capacity(i) /\ k = Start(i) + p
    BY <1>1, SlotOfPlace
  <2> HIDE DEF i, p
  <2>2. L \in Nat \ {0} /\ L \in 1..L /\ size = Start(L) + nodes[L].used
    BY <1>1
  <2>3. Start(i) \in Nat /\ Start(L) \in Nat /\ Capacity(i) \in Nat /\ Capacity(L) \in Nat
    BY <2>1, <2>2, StartFacts
  <2>4. nodes[L].used \in 0..Capacity(L)
    BY <1>1, <2>2
  <2>5. i <= L
    <3>1. ASSUME L < i PROVE FALSE
      <4>1. Start(L) + Capacity(L) <= Start(i)
        BY <2>1, <2>2, <3>1, StartFacts
      <4>2. QED BY <2>1, <2>2, <2>3, <2>4, <4>1
    <3>2. QED BY <1>1, <2>1, <3>1
  <2>6. CASE i = L
    <3>1. p <= nodes[L].used
      BY <2>1, <2>2, <2>3, <2>4, <2>6
    <3>2. QED BY <2>1, <2>2, <2>3, <2>4, <2>6, <3>1 DEF i, p
  <2>7. CASE i < L
    <3>1. i \in 1..L /\ nodes[i].used = Capacity(i)
      BY <1>1, <2>1, <2>7
    <3>2. QED BY <2>1, <3>1 DEF i, p
  <2>8. QED BY <1>1, <2>1, <2>5, <2>6, <2>7
<1>3. ASSUME NEW i \in 1..L, NEW p \in 1..nodes[i].used
      PROVE  /\ Start(i) + p \in 1..size
             /\ NodeOf(Start(i) + p) = i /\ SlotOf(Start(i) + p) = p
  <2>1. i \in Nat \ {0} /\ nodes[i].used \in 0..Capacity(i) /\ L \in Nat \ {0} /\ L \in 1..L
    BY <1>1
  <2>2. Start(i) \in Nat /\ Start(L) \in Nat /\ Capacity(i) \in Nat /\ Capacity(L) \in Nat
    BY <2>1, StartFacts
  <2>3. p \in 1..Capacity(i)
    BY <2>1, <2>2
  <2>4. NodeOf(Start(i) + p) = i /\ SlotOf(Start(i) + p) = p
    BY <2>1, <2>3, PlaceOfSlot
  <2>5. size = Start(L) + nodes[L].used /\ nodes[L].used \in Nat
    <3>1. nodes[L].used \in 0..Capacity(L)
      BY <1>1, <2>1
    <3>2. QED BY <1>1, <2>1, <2>2, <3>1
  <2>6. Start(i) + p \in 1..size
    <3>1. CASE i = L
      BY <2>1, <2>2, <2>5, <3>1
    <3>2. CASE i < L
      <4>1. Start(i) + Capacity(i) <= Start(L)
        BY <2>1, <3>2, StartFacts
      <4>2. QED BY <2>2, <2>3, <2>5, <4>1
    <3>3. QED BY <1>1, <2>1, <3>1, <3>2
  <2>7. QED BY <2>4, <2>6
<1>4. QED BY <1>2, <1>3 DEF L

LEMMA SeqOfFunction ==
  ASSUME NEW S, NEW n \in Nat, NEW f \in [1..n -> S]
  PROVE  f \in Seq(S) /\ Len(f) = n
<1>1. f \in Seq(S)
  <2>1. f \in UNION {[1..k -> S] : k \in Nat}
    OBVIOUS
  <2>2. QED BY <2>1, SeqDef
<1>2. DOMAIN f = 1..n /\ DOMAIN f = 1..Len(f) /\ Len(f) \in Nat
  BY <1>1, LenProperties
<1>3. QED BY <1>1, <1>2

Counted == Contents \in Seq(Elem) /\ Len(Contents) = size

LEMMA ContentsCounted == IInv => Counted
<1>1. SUFFICES ASSUME IInv PROVE Counted
  OBVIOUS
<1>2. ASSUME NEW k \in 1..size PROVE nodes[NodeOf(k)].mem[SlotOf(k)] \in Elem
  BY <1>1, SlotsNumbered, NodeFacts
<1>3. size \in Nat /\ Contents \in [1..size -> Elem]
  BY <1>1, <1>2, NodeFacts DEF Contents
<1>4. QED BY <1>3, SeqOfFunction DEF Counted

LEMMA NextContentsCounted == IInv' => Counted'
<1>1. QED BY ContentsCounted, PTL

-----------------------------------------------------------------------------
(* The first state. *)
LEMMA NewNodeFacts ==
  ASSUME NEW n \in Nat
  PROVE  /\ NewNode(n) \in StackNode /\ Len(NewNode(n).mem) = n /\ NewNode(n).used = 0
         /\ NewNode(n).mem \in [1..n -> Elem \cup {Garbage}]
<1>1. NewNode(n).mem \in [1..n -> Elem \cup {Garbage}] /\ NewNode(n).used = 0
  BY DEF NewNode
<1>2. NewNode(n).mem \in Seq(Elem \cup {Garbage}) /\ Len(NewNode(n).mem) = n
  BY <1>1, SeqOfFunction
<1>3. NewNode(n) \in StackNode
  BY <1>2 DEF NewNode, StackNode
<1>4. QED BY <1>1, <1>2, <1>3

LEMMA InitIInv == Init => IInv
<1>1. SUFFICES ASSUME Init PROVE IInv
  OBVIOUS
<1>2. size = 0 /\ ret = NULL /\ BufSize \in Nat /\ MaxSize \in Nat
  BY <1>1, SizesAssumption DEF Init
<1>3. CASE BufSize = 0
  <2>1. nodes = <<>>
    BY <1>1, <1>3 DEF Init
  <2>2. Len(nodes) = 0 /\ DOMAIN nodes = {} /\ nodes \in Seq(StackNode)
    BY <2>1
  <2>3. TypeOK
    BY <1>2, <2>2 DEF TypeOK
  <2>4. Packed
    BY <1>2, <1>3, <2>1, <2>2 DEF Packed
  <2>5. QED BY <2>3, <2>4 DEF IInv
<1>4. CASE BufSize # 0
  <2> DEFINE nd == NewNode(BufSize)
  <2>1. nodes = <<nd>>
    BY <1>1, <1>4 DEF Init
  <2>2. nd \in StackNode /\ Len(nd.mem) = BufSize /\ nd.used = 0
    BY <1>2, NewNodeFacts
  <2> HIDE DEF nd
  <2>3. /\ nodes \in Seq(StackNode) /\ Len(nodes) = 1 /\ DOMAIN nodes = 1..1 /\ nodes[1] = nd
        /\ nodes # <<>>
    BY <2>1, <2>2
  <2>4. Capacity(1) = BufSize /\ Start(1) = 0
    BY <1>2, <1>4, StartFacts DEF Capacity, Buffers
  <2>5. TypeOK
    BY <1>2, <2>3 DEF TypeOK
  <2>6. Packed
    BY <1>2, <2>2, <2>3, <2>4 DEF Packed, Top
  <2>7. QED BY <2>5, <2>6 DEF IInv
<1>5. QED BY <1>3, <1>4

(* Writing an element behind those of a node. *)
LEMMA PutOnFacts ==
  ASSUME NEW n \in Nat, NEW nd \in StackNode, Len(nd.mem) = n, nd.used \in 0..n - 1,
         NEW e \in Elem, \A p \in 1..nd.used : nd.mem[p] \in Elem
  PROVE  /\ PutOn(nd, e) \in StackNode /\ Len(PutOn(nd, e).mem) = n
         /\ PutOn(nd, e).used = nd.used + 1
         /\ PutOn(nd, e).mem[nd.used + 1] = e
         /\ \A p \in 1..nd.used : PutOn(nd, e).mem[p] = nd.mem[p]
         /\ \A p \in 1..nd.used + 1 : PutOn(nd, e).mem[p] \in Elem
<1> DEFINE w == PutOn(nd, e)
<1>1. nd.mem \in [1..n -> Elem \cup {Garbage}] /\ nd.used + 1 \in 1..n /\ nd.used \in Nat
  <2>1. nd.mem \in Seq(Elem \cup {Garbage})
    BY DEF StackNode
  <2>2. QED BY <2>1, LenProperties
<1>2. w.mem = [nd.mem EXCEPT ![nd.used + 1] = e] /\ w.used = nd.used + 1
  BY DEF PutOn
<1>3. w.mem \in [1..n -> Elem \cup {Garbage}]
  BY <1>1, <1>2
<1>4. w.mem \in Seq(Elem \cup {Garbage}) /\ Len(w.mem) = n
  BY <1>3, SeqOfFunction
<1>5. w \in StackNode
  BY <1>1, <1>2, <1>4 DEF StackNode, PutOn
<1>6. w.mem[nd.used + 1] = e /\ \A p \in 1..nd.used : w.mem[p] = nd.mem[p]
  BY <1>1, <1>2
<1>7. \A p \in 1..nd.used + 1 : w.mem[p] \in Elem
  BY <1>1, <1>6
<1>8. QED BY <1>2, <1>4, <1>5, <1>6, <1>7

(* A push onto the top node, or onto a new one, writes the next slot. *)
Pushed(e) ==
  LET M == Len(nodes') IN
  /\ M \in Nat \ {0} /\ Len(nodes) <= M
  /\ \A i \in 1..Len(nodes) : \A p \in 1..nodes[i].used : nodes'[i].mem[p] = nodes[i].mem[p]
  /\ nodes'[M].used \in 1..Capacity(M) /\ nodes'[M].mem[nodes'[M].used] = e

LEMMA PushOnTop ==
  ASSUME IInv, NEW e \in Elem, Push(e), nodes # <<>>, ~Full(Top)
  PROVE  IInv' /\ Pushed(e)
<1> DEFINE L == Len(nodes)
<1>1. /\ nodes' = [nodes EXCEPT ![L] = PutOn(nodes[L], e)] /\ size' = size + 1 /\ ret' = ret
      /\ size < MaxSize
  BY DEF Push, Top
<1>2. /\ L \in Nat \ {0} /\ DOMAIN nodes = 1..L /\ nodes \in Seq(StackNode)
      /\ \A i \in 1..L : /\ i \in Nat \ {0} /\ nodes[i] \in StackNode
                         /\ nodes[i].used \in 0..Capacity(i)
                         /\ i < L => nodes[i].used = Capacity(i)
                         /\ \A p \in 1..nodes[i].used : nodes[i].mem[p] \in Elem
      /\ size = Start(L) + nodes[L].used
  BY NodeFacts
<1>3. \A i \in 1..L : Len(nodes[i].mem) = Capacity(i)
  BY <1>2 DEF IInv, Packed
<1> HIDE DEF L
<1>4. L \in 1..L /\ Capacity(L) \in Nat /\ Start(L) \in Nat
  BY <1>2, StartFacts
<1>5. nodes[L].used \in 0..Capacity(L) - 1
  BY <1>2, <1>3, <1>4 DEF Full, Top, L
<1> DEFINE w == PutOn(nodes[L], e)
           u == nodes[L].used
<1>6. /\ w \in StackNode /\ Len(w.mem) = Capacity(L) /\ w.used = u + 1 /\ w.mem[u + 1] = e
      /\ \A p \in 1..u : w.mem[p] = nodes[L].mem[p]
      /\ \A p \in 1..u + 1 : w.mem[p] \in Elem
  BY <1>2, <1>3, <1>4, <1>5, PutOnFacts
<1>7. nodes' = [nodes EXCEPT ![L] = w] /\ u \in 0..Capacity(L) - 1
  BY <1>1, <1>5
<1>8. size = Start(L) + u
  BY <1>2
<1> HIDE DEF w
<1>9. /\ nodes' \in Seq(StackNode) /\ Len(nodes') = L /\ nodes'[L] = w
      /\ \A i \in 1..L : i # L => nodes'[i] = nodes[i]
      /\ DOMAIN nodes' = 1..L
  <2>1. L \in 1..Len(nodes) /\ Len(nodes) = L
    BY <1>4 DEF L
  <2>2. /\ nodes' \in Seq(StackNode) /\ Len(nodes') = L
        /\ \A j \in 1..L : nodes'[j] = IF j = L THEN w ELSE nodes[j]
    BY <1>2, <1>6, <1>7, <2>1, ExceptSeq
  <2>3. QED BY <1>4, <2>2, LenProperties
<1> HIDE DEF u
<1>10. Pushed(e)
  <2>1. \A i \in 1..L : \A p \in 1..nodes[i].used : nodes'[i].mem[p] = nodes[i].mem[p]
    BY <1>6, <1>9 DEF u
  <2>2. w.used \in 1..Capacity(L) /\ w.mem[w.used] = e
    BY <1>4, <1>6, <1>7
  <2>3. Len(nodes') = L /\ nodes'[L] = w /\ L \in Nat \ {0} /\ L <= L
    BY <1>2, <1>9
  <2>4. Len(nodes) = L
    BY DEF L
  <2> HIDE DEF w
  <2>5. QED BY <2>1, <2>2, <2>3, <2>4 DEF Pushed
<1>11. TypeOK'
  BY <1>1, <1>2, <1>9, SizesAssumption DEF IInv, TypeOK
<1>12. Packed'
  <2>1. ASSUME NEW i \in 1..L
        PROVE  /\ Len(nodes'[i].mem) = Capacity(i) /\ nodes'[i].used <= Capacity(i)
               /\ \A p \in 1..nodes'[i].used : nodes'[i].mem[p] \in Elem
    <3>1. CASE i = L
      BY <1>4, <1>6, <1>7, <1>9, <3>1
    <3>2. CASE i # L
      <4>1. nodes'[i] = nodes[i]
        BY <1>9, <3>2
      <4>2. nodes[i].used <= Capacity(i)
        <5>1. Capacity(i) \in Nat /\ nodes[i].used \in 0..Capacity(i)
          BY <1>2, StartFacts
        <5>2. QED BY <5>1
      <4>3. QED BY <1>2, <1>3, <4>1, <4>2
    <3>3. QED BY <3>1, <3>2
  <2>2. ASSUME NEW i \in 1..L - 1 PROVE Full(nodes'[i])
    <3>1. i \in 1..L /\ i # L /\ i < L
      BY <1>2
    <3>2. nodes'[i] = nodes[i] /\ nodes[i].used = Capacity(i) /\ Len(nodes[i].mem) = Capacity(i)
      BY <1>2, <1>3, <1>9, <3>1
    <3>3. QED BY <3>2 DEF Full
  <2>3. size' = Start(L) + w.used
    BY <1>1, <1>4, <1>6, <1>7, <1>8
  <2>4. nodes' # <<>>
    BY <1>2, <1>9
  <2>5. QED BY <1>9, <2>1, <2>2, <2>3, <2>4 DEF Packed, Top
<1>13. QED BY <1>10, <1>11, <1>12 DEF IInv

LEMMA PushOnNew ==
  ASSUME IInv, NEW e \in Elem, Push(e), nodes = <<>> \/ Full(Top)
  PROVE  IInv' /\ Pushed(e)
<1> DEFINE L == Len(nodes)
           w == PutOn(NewNode(NodeSize), e)
<1>1. /\ nodes' = Append(nodes, w) /\ size' = size + 1 /\ ret' = ret /\ size < MaxSize
  BY DEF Push
<1>2. /\ L \in Nat /\ DOMAIN nodes = 1..L /\ nodes \in Seq(StackNode)
      /\ \A i \in 1..L : /\ i \in Nat \ {0} /\ nodes[i] \in StackNode
                         /\ nodes[i].used \in 0..Capacity(i)
                         /\ i < L => nodes[i].used = Capacity(i)
                         /\ \A p \in 1..nodes[i].used : nodes[i].mem[p] \in Elem
      /\ L = 0 <=> nodes = <<>>
      /\ L = 0 => size = 0
      /\ L # 0 => size = Start(L) + nodes[L].used
  BY NodeFacts
<1>3. \A i \in 1..L : Len(nodes[i].mem) = Capacity(i)
  BY <1>2 DEF IInv, Packed
<1>4. L # 0 => nodes[L].used = Capacity(L)
  BY <1>2, <1>3 DEF Full, Top
<1> HIDE DEF L
<1>5. /\ w \in StackNode /\ Len(w.mem) = NodeSize /\ w.used = 1 /\ w.mem[1] = e
      /\ \A p \in 1..1 : w.mem[p] \in Elem
  <2> DEFINE nd == NewNode(NodeSize)
  <2>1. NodeSize \in Nat \ {0}
    BY StartFacts
  <2>2. nd \in StackNode /\ Len(nd.mem) = NodeSize /\ nd.used = 0
    BY <2>1, NewNodeFacts
  <2> HIDE DEF nd
  <2>3. nd.used \in 0..NodeSize - 1 /\ \A p \in 1..nd.used : nd.mem[p] \in Elem
    BY <2>1, <2>2
  <2>4. /\ PutOn(nd, e) \in StackNode /\ Len(PutOn(nd, e).mem) = NodeSize
        /\ PutOn(nd, e).used = 0 + 1 /\ PutOn(nd, e).mem[0 + 1] = e
        /\ \A p \in 1..0 + 1 : PutOn(nd, e).mem[p] \in Elem
    BY <2>1, <2>2, <2>3, PutOnFacts
  <2>5. w = PutOn(nd, e)
    BY DEF nd
  <2> HIDE DEF w
  <2>6. QED BY <2>4, <2>5
<1> HIDE DEF w
<1>6. /\ nodes' \in Seq(StackNode) /\ Len(nodes') = L + 1 /\ nodes'[L + 1] = w
      /\ \A i \in 1..L : nodes'[i] = nodes[i]
      /\ DOMAIN nodes' = 1..L + 1
  BY <1>1, <1>2, <1>5, AppendProperties, LenProperties DEF L
<1>7. Capacity(L + 1) = NodeSize /\ NodeSize \in Nat \ {0}
  <2>1. L = 0 => Buffers = 0
    BY <1>2, StartFacts, SizesAssumption DEF IInv, Packed
  <2>2. ~(L + 1 <= Buffers)
    BY <1>2, <2>1, StartFacts
  <2>3. QED BY <2>2, StartFacts DEF Capacity
<1>8. size = Start(L + 1)
  <2>1. CASE L = 0
    BY <1>2, <2>1, StartFacts
  <2>2. CASE L # 0
    <3>1. size = Start(L) + Capacity(L) /\ L \in Nat \ {0}
      BY <1>2, <1>4, <2>2
    <3>2. QED BY <3>1, StartFacts
  <2>3. QED BY <2>1, <2>2
<1>9. Pushed(e)
  BY <1>2, <1>5, <1>6, <1>7 DEF Pushed, L
<1>10. TypeOK'
  BY <1>1, <1>2, <1>6, SizesAssumption DEF IInv, TypeOK
<1>11. Packed'
  <2>1. ASSUME NEW i \in 1..L + 1
        PROVE  /\ Len(nodes'[i].mem) = Capacity(i) /\ nodes'[i].used <= Capacity(i)
               /\ \A p \in 1..nodes'[i].used : nodes'[i].mem[p] \in Elem
    <3>1. CASE i = L + 1
      BY <1>5, <1>6, <1>7, <3>1
    <3>2. CASE i # L + 1
      <4>1. i \in 1..L /\ nodes'[i] = nodes[i]
        BY <1>2, <1>6, <3>2
      <4>2. nodes[i].used <= Capacity(i)
        <5>1. Capacity(i) \in Nat /\ nodes[i].used \in 0..Capacity(i)
          BY <1>2, <4>1, StartFacts
        <5>2. QED BY <5>1
      <4>3. QED BY <1>2, <1>3, <4>1, <4>2
    <3>3. QED BY <3>1, <3>2
  <2>2. ASSUME NEW i \in 1..(L + 1) - 1 PROVE Full(nodes'[i])
    <3>1. i \in 1..L
      BY <1>2
    <3>2. nodes[i].used = Capacity(i)
      BY <1>2, <1>4, <3>1
    <3>3. nodes'[i] = nodes[i] /\ Len(nodes[i].mem) = Capacity(i)
      BY <1>3, <1>6, <3>1
    <3>4. QED BY <3>2, <3>3 DEF Full
  <2>3. size' = Start(L + 1) + w.used
    BY <1>1, <1>5, <1>8
  <2>4. nodes' # <<>>
    BY <1>2, <1>6
  <2>5. QED BY <1>6, <2>1, <2>2, <2>3, <2>4 DEF Packed, Top
<1>12. QED BY <1>9, <1>10, <1>11 DEF IInv

LEMMA PushStep ==
  ASSUME IInv, NEW e \in Elem, Push(e)
  PROVE  IInv' /\ Lifo!Push(e)
<1>1. IInv' /\ Pushed(e)
  <2>1. CASE nodes = <<>> \/ Full(Top)
    BY <2>1, PushOnNew
  <2>2. CASE nodes # <<>> /\ ~Full(Top)
    BY <2>2, PushOnTop
  <2>3. QED BY <2>1, <2>2
<1> DEFINE M == Len(nodes')
           u == nodes'[M].used
           longer == Append(Contents, e)
<1>2. size' = size + 1 /\ ret' = ret
  BY DEF Push
<1>3. /\ M \in Nat \ {0} /\ Len(nodes) <= M /\ u \in 1..Capacity(M) /\ nodes'[M].mem[u] = e
      /\ \A i \in 1..Len(nodes) : \A p \in 1..nodes[i].used : nodes'[i].mem[p] = nodes[i].mem[p]
  BY <1>1 DEF Pushed
<1>4. size' = Start(M) + u
  <2>1. nodes' # <<>>
    BY <1>3, EmptySeq
  <2>2. QED BY <1>1, <2>1 DEF IInv, Packed, Top
<1> HIDE DEF M, u
<1>5. NodeOf(size + 1) = M /\ SlotOf(size + 1) = u
  BY <1>2, <1>3, <1>4, PlaceOfSlot
<1>6. /\ size \in Nat /\ Contents \in Seq(Elem) /\ Len(Contents) = size
      /\ Contents' \in Seq(Elem) /\ Len(Contents') = size'
  BY <1>1, NodeFacts, ContentsCounted, NextContentsCounted DEF Counted
<1>7. /\ longer \in Seq(Elem) /\ Len(longer) = size + 1
      /\ \A k \in 1..size : longer[k] = Contents[k]
      /\ longer[size + 1] = e
  BY <1>6, AppendProperties
<1> HIDE DEF longer
<1>8. ASSUME NEW k \in 1..size + 1 PROVE Contents'[k] = nodes'[NodeOf(k)].mem[SlotOf(k)]
  BY <1>2 DEF Contents
<1>9. ASSUME NEW k \in 1..size PROVE Contents'[k] = Contents[k]
  <2>1. NodeOf(k) \in 1..Len(nodes) /\ SlotOf(k) \in 1..nodes[NodeOf(k)].used
    BY SlotsNumbered
  <2>2. nodes'[NodeOf(k)].mem[SlotOf(k)] = nodes[NodeOf(k)].mem[SlotOf(k)]
    BY <1>3, <2>1
  <2>3. Contents[k] = nodes[NodeOf(k)].mem[SlotOf(k)] /\ k \in 1..size + 1
    BY <1>6 DEF Contents
  <2>4. QED BY <1>8, <2>2, <2>3
<1>10. Contents'[size + 1] = e
  <2>1. size + 1 \in 1..size + 1
    BY <1>6
  <2>2. Contents'[size + 1] = nodes'[M].mem[u]
    BY <1>5, <1>8, <2>1
  <2>3. QED BY <1>3, <2>2 DEF M, u
<1>11. Contents' = longer
  <2>1. \A k \in 1..Len(Contents') : Contents'[k] = longer[k]
    BY <1>2, <1>6, <1>7, <1>9, <1>10
  <2>2. QED BY <1>2, <1>6, <1>7, <2>1, SeqEqual
<1>12. QED BY <1>1, <1>2, <1>11 DEF Lifo!Push, longer

(* The node a pop takes the element from: the top, or the one below an emptied top. *)
LEMMA TrimmedFacts ==
  ASSUME IInv, size # 0
  PROVE  \E M \in 1..Len(nodes) : /\ Trimmed = SubSeq(nodes, 1, M)
                                  /\ nodes[M].used \in 1..Capacity(M)
                                  /\ size = Start(M) + nodes[M].used
<1> DEFINE L == Len(nodes)
           m == CHOOSE i \in Unemptied : \A j \in Unemptied : j <= i
<1>1. /\ L \in Nat \ {0} /\ DOMAIN nodes = 1..L /\ size \in Nat
      /\ \A i \in 1..L : /\ i \in Nat \ {0} /\ nodes[i].used \in 0..Capacity(i)
                         /\ i < L => nodes[i].used = Capacity(i)
      /\ size = Start(L) + nodes[L].used
  BY NodeFacts
<1>2. Trimmed = SubSeq(nodes, 1, m)
  BY DEF Trimmed
<1>3. Unemptied = {i \in 1..L : nodes[i].used > 0}
  BY <1>1 DEF Unemptied
<1> HIDE DEF L
<1>4. ASSUME NEW M \in Unemptied, \A j \in Unemptied : j <= M
      PROVE  m = M
  <2>1. m \in Unemptied /\ \A j \in Unemptied : j <= m
    BY <1>4
  <2> HIDE DEF m
  <2>2. m <= M /\ M <= m /\ m \in Nat /\ M \in Nat
    BY <1>1, <1>3, <1>4, <2>1
  <2>3. QED BY <2>2
<1>5. L \in 1..L /\ Start(L) \in Nat /\ Capacity(L) \in Nat
  BY <1>1, StartFacts
<1> HIDE DEF m
<1>6. CASE nodes[L].used > 0
  <2>1. L \in Unemptied /\ \A j \in Unemptied : j <= L
    BY <1>1, <1>3, <1>5, <1>6
  <2>2. m = L
    BY <1>4, <2>1
  <2>3. nodes[L].used \in 1..Capacity(L)
    <3>1. nodes[L].used \in 0..Capacity(L)
      BY <1>1, <1>5
    <3>2. QED BY <1>5, <1>6, <3>1
  <2>4. QED BY <1>1, <1>2, <1>5, <2>2, <2>3 DEF L
<1>7. CASE ~(nodes[L].used > 0)
  <2> DEFINE M == L - 1
  <2>1. nodes[L].used = 0 /\ Start(L) = size
    <3>1. nodes[L].used \in 0..Capacity(L)
      BY <1>1, <1>5
    <3>2. nodes[L].used = 0
      BY <1>5, <1>7, <3>1
    <3>3. QED BY <1>1, <1>5, <3>2
  <2>2. L # 1
    BY <1>1, <2>1, StartFacts
  <2>3. M \in Nat \ {0} /\ M \in 1..L /\ M < L /\ M + 1 = L
    BY <1>1, <2>2
  <2> HIDE DEF M
  <2>4. nodes[M].used = Capacity(M) /\ Capacity(M) \in Nat \ {0} /\ Start(M + 1) = Start(M) + Capacity(M)
    BY <1>1, <2>3, StartFacts
  <2>5. M \in Unemptied
    BY <1>3, <2>3, <2>4
  <2>6. \A j \in Unemptied : j <= M
    <3>1. SUFFICES ASSUME NEW j \in Unemptied PROVE j <= M
      OBVIOUS
    <3>2. j \in 1..L /\ j # L
      BY <1>3, <1>7
    <3>3. QED BY <1>1, <2>3, <3>2
  <2>7. m = M
    BY <1>4, <2>5, <2>6
  <2>8. nodes[M].used \in 1..Capacity(M) /\ size = Start(M) + nodes[M].used
    BY <2>1, <2>3, <2>4
  <2>9. QED BY <1>2, <2>3, <2>7, <2>8 DEF L
<1>8. QED BY <1>6, <1>7

LEMMA PopOfElement ==
  ASSUME IInv, Pop, size # 0
  PROVE  IInv' /\ Lifo!Pop
<1>1. PICK M \in 1..Len(nodes) : /\ Trimmed = SubSeq(nodes, 1, M)
                                 /\ nodes[M].used \in 1..Capacity(M)
                                 /\ size = Start(M) + nodes[M].used
  BY TrimmedFacts
<1> DEFINE kept == SubSeq(nodes, 1, M)
           u == nodes[M].used
<1>2. /\ ret' = kept[Len(kept)].mem[kept[Len(kept)].used]
      /\ nodes' = [kept EXCEPT ![Len(kept)].used = @ - 1]
      /\ size' = size - 1
  BY <1>1 DEF Pop
<1>3. /\ Len(nodes) \in Nat /\ DOMAIN nodes = 1..Len(nodes) /\ nodes \in Seq(StackNode)
      /\ \A i \in 1..Len(nodes) : /\ i \in Nat \ {0} /\ nodes[i] \in StackNode
                                  /\ nodes[i].used \in 0..Capacity(i)
                                  /\ i < Len(nodes) => nodes[i].used = Capacity(i)
                                  /\ \A p \in 1..nodes[i].used : nodes[i].mem[p] \in Elem
      /\ size \in Nat
  BY NodeFacts
<1>4. \A i \in 1..Len(nodes) : Len(nodes[i].mem) = Capacity(i)
  BY <1>3 DEF IInv, Packed
<1>5. /\ M \in 1..Len(nodes) /\ M \in Nat \ {0} /\ Start(M) \in Nat /\ Capacity(M) \in Nat \ {0}
      /\ u \in 1..Capacity(M) /\ size = Start(M) + u /\ u - 1 \in Nat
  <2>1. M \in Nat \ {0}
    BY <1>3
  <2>2. Start(M) \in Nat /\ Capacity(M) \in Nat \ {0}
    BY <2>1, StartFacts
  <2>3. QED BY <1>1, <2>1, <2>2
<1>6. /\ kept \in Seq(StackNode) /\ Len(kept) = M /\ \A i \in 1..M : kept[i] = nodes[i]
      /\ DOMAIN kept = 1..M
  <2>1. \A i \in 1..M : nodes[i] \in StackNode
    BY <1>3
  <2>2. /\ kept \in Seq(StackNode)
        /\ Len(kept) = IF 1 <= M THEN M - 1 + 1 ELSE 0
        /\ \A i \in 1..(M - 1 + 1) : kept[i] = nodes[1 + i - 1]
    BY <1>5, <2>1, SubSeqProperties
  <2> HIDE DEF kept
  <2>3. Len(kept) = M
    BY <1>5, <2>2
  <2>4. \A i \in 1..M : kept[i] = nodes[i]
    BY <1>5, <2>2
  <2>5. QED BY <2>2, <2>3, <2>4, LenProperties
<1> HIDE DEF kept
<1> DEFINE w == [nodes[M] EXCEPT !.used = u - 1]
<1>7. ret' = nodes[M].mem[u] /\ nodes' = [kept EXCEPT ![M] = w] /\ M \in 1..M
  <2>1. Len(kept) = M /\ kept[M] = nodes[M] /\ M \in 1..M
    BY <1>5, <1>6
  <2>2. ret' = nodes[M].mem[u]
    BY <1>2, <2>1
  <2>3. nodes' = [kept EXCEPT ![M] = [nodes[M] EXCEPT !.used = nodes[M].used - 1]]
    BY <1>2, <1>6, <2>1
  <2>4. QED BY <2>1, <2>2, <2>3
<1>8. w \in StackNode /\ w.mem = nodes[M].mem /\ w.used = u - 1
  BY <1>3, <1>5 DEF StackNode
<1> HIDE DEF w
<1>9. /\ nodes' \in Seq(StackNode) /\ Len(nodes') = M /\ nodes'[M] = w
      /\ \A i \in 1..M : i # M => nodes'[i] = nodes[i]
      /\ DOMAIN nodes' = 1..M /\ nodes' # <<>>
  <2>1. /\ nodes' \in Seq(StackNode) /\ Len(nodes') = M
        /\ \A j \in 1..M : nodes'[j] = IF j = M THEN w ELSE kept[j]
    BY <1>6, <1>7, <1>8, ExceptSeq
  <2>2. nodes' # <<>>
    BY <1>5, <2>1, EmptySeq
  <2>3. QED BY <1>6, <1>7, <2>1, <2>2, LenProperties
<1> HIDE DEF u
<1>10. \A i \in 1..M : nodes'[i].mem = nodes[i].mem
  BY <1>8, <1>9
<1>11. nodes[M].mem[u] \in Elem
  BY <1>3, <1>5 DEF u
<1>12. IInv'
  <2>1. TypeOK'
    BY <1>2, <1>3, <1>7, <1>9, <1>11, SizesAssumption DEF IInv, TypeOK
  <2>2. ASSUME NEW i \in 1..M
        PROVE  /\ Len(nodes'[i].mem) = Capacity(i) /\ nodes'[i].used <= Capacity(i)
               /\ \A p \in 1..nodes'[i].used : nodes'[i].mem[p] \in Elem
    <3>1. i \in 1..Len(nodes) /\ nodes'[i].mem = nodes[i].mem
      BY <1>3, <1>10
    <3>2. CASE i = M
      <4>1. nodes'[i].used = u - 1
        BY <1>8, <1>9, <3>2
      <4>2. u - 1 <= Capacity(i) /\ \A p \in 1..u - 1 : p \in 1..u
        BY <1>5, <3>2
      <4>3. QED BY <1>3, <1>4, <3>1, <3>2, <4>1, <4>2 DEF u
    <3>3. CASE i # M
      <4>1. nodes'[i] = nodes[i]
        BY <1>9, <3>3
      <4>2. nodes[i].used <= Capacity(i)
        <5>1. Capacity(i) \in Nat /\ nodes[i].used \in 0..Capacity(i)
          BY <1>3, <3>1, StartFacts
        <5>2. QED BY <5>1
      <4>3. QED BY <1>3, <1>4, <3>1, <4>1, <4>2
    <3>4. QED BY <3>2, <3>3
  <2>3. ASSUME NEW i \in 1..M - 1 PROVE Full(nodes'[i])
    <3>1. i \in 1..M /\ i # M /\ i \in 1..Len(nodes) /\ i < Len(nodes)
      BY <1>3, <1>5
    <3>2. nodes'[i] = nodes[i] /\ nodes[i].used = Capacity(i) /\ Len(nodes[i].mem) = Capacity(i)
      BY <1>3, <1>4, <1>9, <3>1
    <3>3. QED BY <3>2 DEF Full
  <2>4. size' = Start(M) + w.used
    BY <1>2, <1>5, <1>8
  <2>5. Packed'
    BY <1>9, <2>2, <2>3, <2>4 DEF Packed, Top
  <2>6. QED BY <2>1, <2>5 DEF IInv
<1>13. /\ Contents \in Seq(Elem) /\ Len(Contents) = size
       /\ Contents' \in Seq(Elem) /\ Len(Contents') = size'
  BY <1>12, ContentsCounted, NextContentsCounted DEF Counted
<1>14. Contents # <<>> /\ ret' = Contents[Len(Contents)]
  <2>1. NodeOf(size) = M /\ SlotOf(size) = u
    BY <1>5, PlaceOfSlot
  <2>2. size \in 1..size
    BY <1>3
  <2>3. Contents[size] = nodes[M].mem[u]
    BY <2>1, <2>2 DEF Contents
  <2>4. Contents # <<>>
    BY <1>13, EmptySeq
  <2>5. QED BY <1>7, <1>13, <2>3, <2>4
<1>15. ASSUME NEW k \in 1..size - 1 PROVE Contents'[k] = Contents[k]
  <2>1. /\ NodeOf(k)' = NodeOf(k) /\ Contents'[k] = nodes'[NodeOf(k)].mem[SlotOf(k)]
    BY <1>2 DEF Contents
  <2>2. Contents[k] = nodes[NodeOf(k)].mem[SlotOf(k)]
    BY <1>3 DEF Contents
  <2>3. NodeOf(k) \in 1..M
    <3>1. k \in 1..size'
      BY <1>2
    <3>2. NodeOf(k) \in Nat \ {0} /\ SlotOf(k) \in 1..Capacity(NodeOf(k)) /\ k = Start(NodeOf(k)) + SlotOf(k)
      BY <1>3, SlotOfPlace
    <3>3. ASSUME M < NodeOf(k) PROVE FALSE
      <4>1. Start(M) + Capacity(M) <= Start(NodeOf(k)) /\ Start(NodeOf(k)) \in Nat /\ Capacity(NodeOf(k)) \in Nat
        BY <1>5, <3>2, <3>3, StartFacts
      <4>2. size = Start(M) + u /\ u <= Capacity(M) /\ k <= size - 1 /\ size \in Nat
        BY <1>3, <1>5
      <4>3. k >= Start(NodeOf(k)) + 1
        BY <3>2, <4>1
      <4>4. QED BY <1>5, <4>1, <4>2, <4>3
    <3>4. QED BY <1>5, <3>2, <3>3
  <2>4. QED BY <1>10, <2>1, <2>2, <2>3
<1>16. Contents' = SubSeq(Contents, 1, Len(Contents) - 1)
  <2> DEFINE n == size - 1
             shorter == SubSeq(Contents, 1, n)
  <2>1. n \in Nat /\ \A k \in 1..n : k \in 1..Len(Contents)
    BY <1>3, <1>13
  <2>2. \A k \in 1..n : Contents[k] \in Elem
    BY <1>13, <2>1, ElementOfSeq
  <2> HIDE DEF n
  <2>3. /\ shorter \in Seq(Elem)
        /\ Len(shorter) = IF 1 <= n THEN n - 1 + 1 ELSE 0
        /\ \A k \in 1..(n - 1 + 1) : shorter[k] = Contents[1 + k - 1]
    BY <1>13, <2>1, <2>2, SubSeqProperties
  <2> HIDE DEF shorter
  <2>4. Len(shorter) = n /\ \A k \in 1..n : shorter[k] = Contents[k]
    BY <2>1, <2>3
  <2>5. Len(Contents') = n /\ \A k \in 1..n : Contents'[k] = Contents[k]
    BY <1>2, <1>13, <1>15 DEF n
  <2>6. Contents' = shorter
    BY <1>13, <2>3, <2>4, <2>5, SeqEqual
  <2>7. QED BY <1>13, <2>6 DEF shorter, n
<1>17. QED BY <1>12, <1>14, <1>16 DEF Lifo!Pop

LEMMA PopStep ==
  ASSUME IInv, Pop
  PROVE  IInv' /\ Lifo!Pop
<1>1. CASE size # 0
  BY <1>1, PopOfElement
<1>2. CASE size = 0
  <2>1. nodes' = nodes /\ size' = size /\ ret' = NULL
    BY <1>2 DEF Pop
  <2>2. IInv'
    BY <2>1 DEF IInv, TypeOK, Packed, Top
  <2>3. Contents' = Contents
    BY <2>1 DEF Contents
  <2>4. Contents = <<>>
    BY <1>2, ContentsCounted, EmptySeq DEF Counted
  <2>5. QED BY <2>1, <2>2, <2>3, <2>4 DEF Lifo!Pop
<1>3. QED BY <1>1, <1>2

-----------------------------------------------------------------------------
(* In every reachable state the nodes below the top are full and what they hold   *)
(* was pushed.                                                                    *)
THEOREM InductiveInvariant == Spec => []IInv
<1>1. IInv /\ [Next]_vars => IInv'
  <2>1. SUFFICES ASSUME IInv, [Next]_vars PROVE IInv'
    OBVIOUS
  <2>2. ASSUME NEW e \in Elem, Push(e) PROVE IInv'
    BY <2>1, <2>2, PushStep
  <2>3. CASE Pop
    BY <2>1, <2>3, PopStep
  <2>4. CASE UNCHANGED vars
    BY <2>1, <2>4 DEF vars, IInv, TypeOK, Packed, Top
  <2>5. QED BY <2>1, <2>2, <2>3, <2>4 DEF Next
<1>2. QED BY InitIInv, <1>1, PTL DEF Spec

(* papuga_Stack_push and papuga_Stack_pop over a buffer and nodes of any size are *)
(* the push and the pop of one stack: a pop gives the element pushed last and not *)
(* popped since, from whatever node, and NULL only when there is none.            *)
THEOREM StackImplemented == Spec => ImplementsLifo
<1>1. Init => Lifo!Init
  <2>1. SUFFICES ASSUME Init PROVE Lifo!Init
    OBVIOUS
  <2>2. size = 0 /\ ret = NULL
    BY <2>1 DEF Init
  <2>3. Contents = <<>>
    BY <2>1, <2>2, InitIInv, ContentsCounted, EmptySeq DEF Counted
  <2>4. QED BY <2>2, <2>3 DEF Lifo!Init
<1>2. IInv /\ [Next]_vars => [Lifo!Next]_(Lifo!vars)
  <2>1. SUFFICES ASSUME IInv, [Next]_vars PROVE [Lifo!Next]_(Lifo!vars)
    OBVIOUS
  <2>2. ASSUME NEW e \in Elem, Push(e) PROVE Lifo!Next
    BY <2>1, <2>2, PushStep DEF Lifo!Next
  <2>3. CASE Pop
    BY <2>1, <2>3, PopStep DEF Lifo!Next
  <2>4. CASE UNCHANGED vars
    BY <2>4 DEF vars, Lifo!vars, Contents
  <2>5. QED BY <2>1, <2>2, <2>3, <2>4 DEF Next
<1>3. QED BY <1>1, <1>2, InductiveInvariant, PTL DEF Spec, ImplementsLifo, Lifo!Spec

(* papuga_Stack_top_n of all elements gives them all in order whatever node was     *)
(* emptied before, and refuses more; papuga_Stack_top gives the element pushed last *)
(* unless a pop has emptied the top node.                                           *)
THEOREM ReadersAlwaysCorrect == Spec => []ReadersCorrect
<1>1. IInv => ReadersCorrect
  <2>1. SUFFICES ASSUME IInv PROVE ReadersCorrect
    OBVIOUS
  <2>2. size \in Nat /\ Len(Contents) = size
    BY <2>1, NodeFacts, ContentsCounted DEF Counted
  <2>3. TopNCorrect(size)
    <3>1. TakenFor(size) = size /\ size <= size
      BY <2>2 DEF TakenFor
    <3>2. (size - size + 1)..size = 1..size
      BY <2>2
    <3>3. QED BY <2>2, <3>1, <3>2 DEF TopNCorrect, TopN
  <2>4. TopNCorrect(size + 1)
    <3>1. ~(size + 1 <= size)
      BY <2>2
    <3>2. QED BY <2>2, <3>1 DEF TopNCorrect, TopN
  <2>5. TopIsLastPushed
    <3>1. CASE size = 0
      <4>1. Contents = <<>>
        BY <2>1, <3>1, ContentsCounted, EmptySeq DEF Counted
      <4>2. QED BY <3>1, <4>1 DEF TopIsLastPushed, StackTop
    <3>2. CASE size # 0 /\ Top.used # 0
      <4> DEFINE L == Len(nodes)
      <4>1. L \in Nat \ {0} /\ size = Start(L) + nodes[L].used /\ nodes[L].used \in 0..Capacity(L)
        BY <2>1, <3>2, NodeFacts
      <4>2. Capacity(L) \in Nat
        BY <4>1, StartFacts
      <4>3. nodes[L].used \in 1..Capacity(L)
        BY <3>2, <4>1, <4>2 DEF Top
      <4>4. NodeOf(size) = L /\ SlotOf(size) = nodes[L].used
        BY <4>1, <4>3, PlaceOfSlot
      <4>5. size \in 1..size
        BY <2>2, <3>2
      <4>6. Contents[size] = nodes[L].mem[nodes[L].used]
        BY <4>4, <4>5 DEF Contents
      <4>7. Contents # <<>>
        BY <2>2, <3>2, EmptySeq
      <4>8. StackTop = Contents[size]
        BY <3>2, <4>6 DEF StackTop, Top
      <4>9. QED BY <2>2, <4>7, <4>8 DEF TopIsLastPushed, Last
    <3>3. CASE size # 0 /\ Top.used = 0
      <4>1. nodes # <<>> /\ size > 0
        BY <2>1, <2>2, <3>3, NodeFacts
      <4>2. QED BY <3>3, <4>1 DEF TopIsLastPushed
    <3>4. QED BY <3>1, <3>2, <3>3
  <2>6. QED BY <2>3, <2>4, <2>5 DEF ReadersCorrect, TopNOfAllCorrect
<1>2. QED BY <1>1, InductiveInvariant, PTL
=============================================================================
