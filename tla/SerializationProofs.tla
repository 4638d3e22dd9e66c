------------------------- MODULE SerializationProofs -------------------------
(* For every chunk size, set of chunks and nesting depth: the chunk lists of a *)
(* serialization stay disjoint, packed and complete, marks and readers stay on *)
(* live positions, and they implement the sequence of nodes of                 *)
(* SerializationSeq: the nodes are numbered through the chunks of a packed     *)
(* list, a push appends to them, a release cuts them back, and a skip goes to  *)
(* the next number.                                                            *)
EXTENDS Serialization, SequenceTheorems, TLAPS

-----------------------------------------------------------------------------
(* Lists without repetition. *)

(* Linking a chunk that is not in the list: alloc_node. *)
LEMMA AppendDistinct ==
  ASSUME NEW S, NEW s \in Seq(S), NEW e \in S, Distinct(s), e \notin Elems(s)
  PROVE  /\ Distinct(Append(s, e))
         /\ Elems(Append(s, e)) = Elems(s) \cup {e}
<1>1. /\ Append(s, e) \in Seq(S)
      /\ DOMAIN s = 1..Len(s)
      /\ Len(s) \in Nat
      /\ DOMAIN Append(s, e) = 1..(Len(s) + 1)
      /\ \A i \in 1..Len(s) : Append(s, e)[i] = s[i]
      /\ Append(s, e)[Len(s) + 1] = e
  BY AppendProperties, LenProperties
<1>2. Distinct(Append(s, e))
  BY <1>1 DEF Distinct, Elems
<1>3. Elems(Append(s, e)) = Elems(s) \cup {e}
  BY <1>1 DEF Elems
<1>4. QED BY <1>2, <1>3

(* Taking the first chunk of the freelist. *)
LEMMA TailDistinct ==
  ASSUME NEW S, NEW s \in Seq(S), s # <<>>, Distinct(s)
  PROVE  /\ Tail(s) \in Seq(S)
         /\ Distinct(Tail(s))
         /\ s[1] \in S
         /\ s[1] \in Elems(s)
         /\ Elems(Tail(s)) = Elems(s) \ {s[1]}
<1>1. /\ Tail(s) \in Seq(S)
      /\ Len(s) \in Nat \ {0}
      /\ DOMAIN s = 1..Len(s)
      /\ DOMAIN Tail(s) = 1..(Len(s) - 1)
      /\ \A i \in 1..(Len(s) - 1) : Tail(s)[i] = s[i + 1]
  BY HeadTailProperties, LenProperties, EmptySeq
<1>2. Distinct(Tail(s))
  BY <1>1 DEF Distinct
<1>3. s[1] \in S /\ s[1] \in Elems(s)
  BY <1>1 DEF Elems
<1>4. Elems(Tail(s)) \subseteq Elems(s) \ {s[1]}
  BY <1>1 DEF Elems, Distinct
<1>5. ASSUME NEW x \in Elems(s) \ {s[1]} PROVE x \in Elems(Tail(s))
  <2>1. PICK i \in 1..Len(s) : s[i] = x
    BY <1>1, <1>5 DEF Elems
  <2>2. i - 1 \in 1..(Len(s) - 1) /\ Tail(s)[i - 1] = x
    BY <1>1, <1>5, <2>1
  <2>3. QED BY <1>1, <2>2 DEF Elems
<1>6. QED BY <1>1, <1>2, <1>3, <1>4, <1>5

(* Cutting the list after position i: release_tail. *)
LEMMA CutDistinct ==
  ASSUME NEW S, NEW s \in Seq(S), NEW i \in 1..Len(s), Distinct(s)
  PROVE  LET a == SubSeq(s, 1, i)
             b == SubSeq(s, i + 1, Len(s))
         IN  /\ a \in Seq(S) /\ b \in Seq(S)
             /\ Len(a) = i /\ a # <<>>
             /\ DOMAIN a = 1..i
             /\ \A k \in 1..i : a[k] = s[k]
             /\ Distinct(a) /\ Distinct(b)
             /\ Elems(a) \cap Elems(b) = {}
             /\ Elems(a) \cup Elems(b) = Elems(s)
<1> DEFINE a == SubSeq(s, 1, i)
           b == SubSeq(s, i + 1, Len(s))
<1>1. Len(s) \in Nat /\ DOMAIN s = 1..Len(s) /\ \A k \in 1..Len(s) : s[k] \in S
  BY LenProperties, ElementOfSeq
<1>2. /\ a \in Seq(S) /\ Len(a) = i
      /\ \A k \in 1..i : a[k] = s[k]
  BY <1>1, SubSeqProperties
<1>3. /\ b \in Seq(S) /\ Len(b) = Len(s) - i
      /\ \A k \in 1..(Len(s) - i) : b[k] = s[i + k]
  <2>1. i + 1 \in Int /\ Len(s) \in Int /\ \A k \in (i + 1)..Len(s) : s[k] \in S
    BY <1>1
  <2>2. /\ b \in Seq(S)
        /\ Len(b) = IF i + 1 <= Len(s) THEN Len(s) - (i + 1) + 1 ELSE 0
        /\ \A k \in 1..(Len(s) - (i + 1) + 1) : b[k] = s[(i + 1) + k - 1]
    BY <2>1, SubSeqProperties
  <2> HIDE DEF b
  <2>3. Len(b) = Len(s) - i
    <3>1. Len(b) = IF i + 1 <= Len(s) THEN Len(s) - (i + 1) + 1 ELSE 0
      BY <2>2
    <3>2. Len(s) \in Nat /\ i \in Nat /\ i <= Len(s)
      BY <1>1
    <3>3. CASE i + 1 <= Len(s) BY <3>1, <3>2, <3>3
    <3>4. CASE ~(i + 1 <= Len(s)) BY <3>1, <3>2, <3>4
    <3>5. QED BY <3>3, <3>4
  <2>4. ASSUME NEW k \in 1..(Len(s) - i) PROVE b[k] = s[i + k]
    <3>1. k \in 1..(Len(s) - (i + 1) + 1) /\ (i + 1) + k - 1 = i + k
      BY <1>1
    <3>2. QED BY <2>2, <3>1
  <2>5. QED BY <2>2, <2>3, <2>4
<1> HIDE DEF a, b
<1>4. DOMAIN a = 1..i /\ DOMAIN b = 1..(Len(s) - i) /\ a # <<>>
  BY <1>2, <1>3, LenProperties, EmptySeq
<1>5. Distinct(a) /\ Distinct(b)
  <2>1. Distinct(a)
    BY <1>1, <1>2, <1>4 DEF Distinct
  <2>2. ASSUME NEW k \in DOMAIN b, NEW l \in DOMAIN b, b[k] = b[l] PROVE k = l
    <3>1. /\ i + k \in DOMAIN s /\ i + l \in DOMAIN s
          /\ s[i + k] = s[i + l]
      <4>1. k \in 1..Len(s) - i /\ l \in 1..Len(s) - i
        BY <1>4
      <4>2. s[i + k] = b[k] /\ s[i + l] = b[l]
        BY <1>3, <4>1
      <4>3. i + k \in 1..Len(s) /\ i + l \in 1..Len(s)
        BY <1>1, <4>1
      <4>4. QED BY <1>1, <2>2, <4>2, <4>3
    <3>2. QED BY <1>4, <2>2, <3>1 DEF Distinct
  <2>3. QED BY <2>1, <2>2 DEF Distinct
<1>6. Elems(a) \cap Elems(b) = {}
  <2>1. SUFFICES ASSUME NEW k \in DOMAIN a, NEW l \in DOMAIN b, a[k] = b[l] PROVE FALSE
    BY DEF Elems
  <2>2. k \in DOMAIN s /\ i + l \in DOMAIN s /\ s[k] = s[i + l] /\ k # i + l
    BY <1>1, <1>2, <1>3, <1>4, <2>1
  <2>3. QED BY <2>2 DEF Distinct
<1>7. Elems(a) \subseteq Elems(s) /\ Elems(b) \subseteq Elems(s)
  <2>1. \A k \in DOMAIN a : k \in DOMAIN s /\ a[k] = s[k]
    BY <1>1, <1>2, <1>4
  <2>2. \A k \in DOMAIN b : i + k \in DOMAIN s /\ b[k] = s[i + k]
    BY <1>1, <1>3, <1>4
  <2>3. QED BY <2>1, <2>2 DEF Elems
<1>8. ASSUME NEW x \in Elems(s) PROVE x \in Elems(a) \cup Elems(b)
  <2>1. PICK k \in 1..Len(s) : s[k] = x
    BY <1>1 DEF Elems
  <2>2. CASE k <= i
    BY <1>1, <1>2, <1>4, <2>1, <2>2 DEF Elems
  <2>3. CASE k > i
    <3>1. k - i \in 1..(Len(s) - i) /\ b[k - i] = x
      BY <1>1, <1>3, <2>1, <2>3
    <3>2. QED BY <1>4, <3>1 DEF Elems
  <2>4. QED BY <1>1, <2>2, <2>3
<1>9. QED BY <1>2, <1>3, <1>4, <1>5, <1>6, <1>7, <1>8 DEF a, b

(* Appending the released chunks to the freelist. *)
LEMMA ConcatDistinct ==
  ASSUME NEW S, NEW s \in Seq(S), NEW t \in Seq(S),
         Distinct(s), Distinct(t), Elems(s) \cap Elems(t) = {}
  PROVE  /\ s \o t \in Seq(S)
         /\ Distinct(s \o t)
         /\ Elems(s \o t) = Elems(s) \cup Elems(t)
<1> DEFINE c == s \o t
<1>1. /\ c \in Seq(S) /\ Len(c) = Len(s) + Len(t)
      /\ \A i \in 1..(Len(s) + Len(t)) : c[i] = IF i <= Len(s) THEN s[i] ELSE t[i - Len(s)]
  BY ConcatProperties
<1> HIDE DEF c
<1>2. /\ DOMAIN c = 1..(Len(s) + Len(t))
      /\ DOMAIN s = 1..Len(s) /\ DOMAIN t = 1..Len(t)
      /\ Len(s) \in Nat /\ Len(t) \in Nat
  BY <1>1, LenProperties
<1>8. \A i \in DOMAIN c : (i <= Len(s) /\ i \in DOMAIN s /\ c[i] = s[i])
                        \/ (i > Len(s) /\ i - Len(s) \in DOMAIN t /\ c[i] = t[i - Len(s)])
  <2>1. TAKE i \in DOMAIN c
  <2>2. i \in 1..(Len(s) + Len(t)) /\ c[i] = IF i <= Len(s) THEN s[i] ELSE t[i - Len(s)]
    BY <1>1, <1>2
  <2>3. CASE i <= Len(s)
    <3>1. i \in 1..Len(s)
      BY <1>2, <2>2, <2>3
    <3>2. i \in DOMAIN s /\ c[i] = s[i]
      BY <1>2, <2>2, <2>3, <3>1
    <3>3. QED BY <2>3, <3>2
  <2>4. CASE i > Len(s)
    <3>1. i \in Int /\ Len(s) \in Nat /\ Len(t) \in Nat /\ i <= Len(s) + Len(t)
      BY <1>2, <2>2
    <3>2. i - Len(s) \in 1..Len(t) /\ ~(i <= Len(s))
      BY <2>4, <3>1
    <3>4. i - Len(s) \in DOMAIN t
      BY <1>2, <3>2
    <3>5. c[i] = t[i - Len(s)]
      BY <2>2, <3>2
    <3>3. QED BY <2>4, <3>4, <3>5
  <2>5. QED BY <1>2, <2>2, <2>3, <2>4
<1>9. \A i \in DOMAIN c : (i <= Len(s) /\ c[i] \in Elems(s))
                        \/ (i > Len(s) /\ c[i] \in Elems(t))
  BY <1>8 DEF Elems
<1>3. Distinct(c)
  <2>1. SUFFICES ASSUME NEW i \in DOMAIN c, NEW j \in DOMAIN c, c[i] = c[j] PROVE i = j
    BY DEF Distinct
  <2>2. CASE i <= Len(s) /\ j <= Len(s)
    <3>1. i \in DOMAIN s /\ j \in DOMAIN s /\ s[i] = s[j]
      BY <1>1, <1>2, <2>1, <2>2
    <3>2. QED BY <3>1 DEF Distinct
  <2>3. CASE i > Len(s) /\ j > Len(s)
    <3>1. i - Len(s) \in DOMAIN t /\ j - Len(s) \in DOMAIN t /\ t[i - Len(s)] = t[j - Len(s)]
      BY <1>1, <1>2, <2>1, <2>3
    <3>2. i - Len(s) = j - Len(s)
      BY <3>1 DEF Distinct
    <3>3. i \in Int /\ j \in Int /\ Len(s) \in Int
      BY <1>2
    <3>4. QED BY <3>2, <3>3
  <2>4. CASE (i <= Len(s)) # (j <= Len(s))
    BY <1>2, <1>9, <2>1, <2>4
  <2>6. QED BY <1>2, <2>1, <2>2, <2>3, <2>4
<1>4. \A i \in DOMAIN c : c[i] \in Elems(s) \cup Elems(t)
  BY <1>9
<1>5. Elems(s) \subseteq Elems(c)
  BY <1>1, <1>2 DEF Elems
<1>6. ASSUME NEW x \in Elems(t) PROVE x \in Elems(c)
  <2>1. PICK k \in 1..Len(t) : t[k] = x
    BY <1>2 DEF Elems
  <2>2. Len(s) + k \in 1..(Len(s) + Len(t)) /\ c[Len(s) + k] = x
    <3>1. Len(s) + k \in 1..(Len(s) + Len(t)) /\ ~(Len(s) + k <= Len(s)) /\ (Len(s) + k) - Len(s) = k
      BY <1>2
    <3>2. QED BY <1>1, <1>2, <2>1, <3>1
  <2>3. QED BY <1>2, <2>2 DEF Elems
<1>7. Elems(c) = Elems(s) \cup Elems(t)
  BY <1>4, <1>5, <1>6 DEF Elems
<1>10. QED BY <1>1, <1>3, <1>7 DEF c

(* The index of an element of a list without repetition. *)
LEMMA IndexOfElement ==
  ASSUME NEW S, NEW s \in Seq(S), Distinct(s)
  PROVE  /\ \A i \in 1..Len(s) : s[i] \in Elems(s) /\ IndexIn(s, s[i]) = i
         /\ \A c \in Elems(s) : IndexIn(s, c) \in 1..Len(s) /\ s[IndexIn(s, c)] = c
<1>1. DOMAIN s = 1..Len(s)
  BY LenProperties
<1>2. \A i \in 1..Len(s) : s[i] \in Elems(s)
  BY <1>1 DEF Elems
<1>3. ASSUME NEW c \in Elems(s)
      PROVE  IndexIn(s, c) \in DOMAIN s /\ s[IndexIn(s, c)] = c
  <2>1. \E i \in DOMAIN s : s[i] = c
    BY DEF Elems
  <2>2. QED BY <2>1 DEF IndexIn
<1>4. \A i \in 1..Len(s) : IndexIn(s, s[i]) = i
  BY <1>1, <1>2, <1>3 DEF Distinct
<1>5. QED BY <1>1, <1>2, <1>3, <1>4

-----------------------------------------------------------------------------
(* The inductive invariant. *)

(* Facts every step uses: the current chunk is the last of a non-empty chain. *)
LEMMA ChainFacts ==
  ASSUME IInv
  PROVE  /\ Len(chain) \in Nat \ {0} /\ DOMAIN chain = 1..Len(chain)
         /\ Current \in Chunk /\ Current \in Elems(chain)
         /\ IndexOf(Current) = Len(chain)
         /\ \A i \in 1..Len(chain) : /\ chain[i] \in Chunk
                                     /\ chain[i] \in Elems(chain)
                                     /\ IndexOf(chain[i]) = i
         /\ \A c \in Elems(chain) : /\ c \in Chunk
                                    /\ IndexOf(c) \in 1..Len(chain)
                                    /\ chain[IndexOf(c)] = c
         /\ \A c \in Elems(chain) : c # Current => size[c] = ChunkSize
         /\ HeadChunk \in Elems(chain)
         /\ Current # HeadChunk => size[Current] > 0
<1>1. /\ chain \in Seq(Chunk) /\ chain # <<>> /\ chain[1] = HeadChunk /\ Distinct(chain)
  BY DEF IInv, TypeOK, ChunksNotShared
<1>2. /\ Len(chain) \in Nat \ {0} /\ DOMAIN chain = 1..Len(chain)
      /\ \A i \in 1..Len(chain) : chain[i] \in Chunk
  BY <1>1, LenProperties, EmptySeq, ElementOfSeq
<1>3. /\ \A i \in 1..Len(chain) : chain[i] \in Elems(chain) /\ IndexOf(chain[i]) = i
      /\ \A c \in Elems(chain) : IndexOf(c) \in 1..Len(chain) /\ chain[IndexOf(c)] = c
  BY <1>1, IndexOfElement DEF IndexOf
<1>4. 1 \in 1..Len(chain) /\ Len(chain) \in 1..Len(chain)
  BY <1>2
<1>5. \A c \in Elems(chain) : c # Current => size[c] = ChunkSize
  <2>1. TAKE c \in Elems(chain)
  <2>2. HAVE c # Current
  <2>3. IndexOf(c) \in 1..Len(chain)-1
    BY <1>2, <1>3, <2>2 DEF Current
  <2>4. QED BY <1>3, <2>3 DEF IInv, ChainPacked
<1>6. Current # HeadChunk => size[Current] > 0
  <2>1. Current # HeadChunk => Len(chain) > 1
    BY <1>1, <1>2 DEF Current
  <2>2. QED BY <2>1 DEF IInv, ChainPacked
<1>7. QED BY <1>1, <1>2, <1>3, <1>4, <1>5, <1>6 DEF Current

(* What the invariant says of each mark. *)
LEMMA MarkFacts ==
  ASSUME IInv
  PROVE  /\ Len(marks) \in Nat /\ DOMAIN marks = 1..Len(marks)
         /\ \A k \in DOMAIN marks :
               /\ marks[k] \in Position
               /\ marks[k].chunk \in Elems(chain)
               /\ marks[k].pos \in 0..ChunkSize
               /\ marks[k].pos <= size[marks[k].chunk]
               /\ marks[k].pos > 0 \/ marks[k].chunk = HeadChunk
<1>1. marks \in Seq(Position)
  BY DEF IInv, TypeOK
<1>2. Len(marks) \in Nat /\ DOMAIN marks = 1..Len(marks)
      /\ \A k \in DOMAIN marks : marks[k] \in Position
  BY <1>1, LenProperties, ElementOfSeq
<1>3. \A k \in DOMAIN marks : marks[k].pos \in 0..ChunkSize
  BY <1>2 DEF Position
<1>4. QED BY <1>2, <1>3 DEF IInv, MarksLive

(* The first state. *)
LEMMA InitIInv == Init => IInv
<1>1. SUFFICES ASSUME Init PROVE IInv
  OBVIOUS
<1>2. /\ <<HeadChunk>> \in Seq(Chunk) /\ Len(<<HeadChunk>>) = 1
      /\ <<HeadChunk>>[1] = HeadChunk /\ DOMAIN <<HeadChunk>> = 1..1
  BY ConstantsAssumption
<1>3. TypeOK
  BY <1>1, <1>2, ConstantsAssumption DEF Init, TypeOK
<1>4. ChunksNotShared
  BY <1>1, <1>2 DEF Init, ChunksNotShared, Distinct, Elems
<1>5. NoChunkLost /\ ChainPacked /\ MarksLive /\ LiveWritten /\ ReaderLive
  BY <1>1, <1>2, ConstantsAssumption
     DEF Init, NoChunkLost, ChainPacked, MarksLive, LiveWritten, ReaderLive, Current
<1>6. QED BY <1>3, <1>4, <1>5 DEF IInv

(* A node written to the current chunk. *)
LEMMA PushInCurrentIInv ==
  ASSUME IInv, NEW t \in Tag, PushInCurrent(t)
  PROVE  IInv'
<1> DEFINE n == size[Current]
<1>1. /\ chain' = chain /\ freelist' = freelist /\ marks' = marks /\ reader' = reader
      /\ n < ChunkSize /\ Current' = Current
  BY DEF PushInCurrent, Current
<1>2. /\ Current \in Chunk /\ Current \in Elems(chain)
      /\ DOMAIN chain = 1..Len(chain)
      /\ Len(chain) \in Nat \ {0}
      /\ \A i \in 1..Len(chain) : chain[i] \in Chunk /\ chain[i] \in Elems(chain)
      /\ \A c \in Elems(chain) : c \in Chunk
  BY ChainFacts
<1>3. /\ size \in [Chunk -> 0..ChunkSize] /\ ChunkSize \in Nat \ {0}
      /\ ar \in [Chunk -> [0..ChunkSize-1 -> Tag \cup {Garbage}]]
  BY ConstantsAssumption DEF IInv, TypeOK
<1>4. /\ size' \in [Chunk -> 0..ChunkSize]
      /\ size'[Current] = n + 1
      /\ \A c \in Chunk : c # Current => size'[c] = size[c]
      /\ \A c \in Chunk : size'[c] >= size[c]
  BY <1>1, <1>2, <1>3 DEF PushInCurrent
<1>5. /\ ar' \in [Chunk -> [0..ChunkSize-1 -> Tag \cup {Garbage}]]
      /\ ar'[Current][n] = t
      /\ \A c \in Chunk : \A p \in 0..ChunkSize-1 :
            (c # Current \/ p # n) => ar'[c][p] = ar[c][p]
  BY <1>1, <1>2, <1>3 DEF PushInCurrent
<1> HIDE DEF n
<1>6. TypeOK'
  BY <1>1, <1>4, <1>5 DEF IInv, TypeOK
<1>7. ChunksNotShared'
  BY <1>1 DEF IInv, ChunksNotShared
<1>8. NoChunkLost'
  BY <1>1, <1>2, <1>4 DEF IInv, NoChunkLost
<1>9. ChainPacked'
  <2>1. ASSUME NEW i \in 1..Len(chain)-1 PROVE size'[chain[i]] = ChunkSize
    <3>1. size[chain[i]] = ChunkSize /\ chain[i] \in Chunk
      BY <1>2 DEF IInv, ChainPacked
    <3>2. QED BY <1>1, <1>3, <1>4, <3>1 DEF n
  <2>2. size'[Current] > 0
    BY <1>2, <1>3, <1>4 DEF n
  <2>3. QED BY <1>1, <2>1, <2>2 DEF ChainPacked
<1>10. MarksLive'
  <2>1. ASSUME NEW k \in DOMAIN marks
        PROVE  /\ marks[k].chunk \in Elems(chain)
               /\ marks[k].pos <= size'[marks[k].chunk]
               /\ marks[k].pos > 0 \/ marks[k].chunk = HeadChunk
    <3>1. /\ marks[k].chunk \in Elems(chain)
          /\ marks[k].pos <= size[marks[k].chunk]
          /\ marks[k].pos > 0 \/ marks[k].chunk = HeadChunk
          /\ marks[k].pos \in 0..ChunkSize
      BY MarkFacts
    <3>2. QED BY <1>2, <1>3, <1>4, <3>1
  <2>2. QED BY <1>1, <2>1 DEF IInv, MarksLive, Before, IndexOf
<1>11. LiveWritten'
  <2>1. SUFFICES ASSUME NEW i \in 1..Len(chain), NEW p \in 0..size'[chain[i]]-1
                 PROVE  ar'[chain[i]][p] \in Tag
    BY <1>1, <1>2 DEF LiveWritten
  <2>2. CASE chain[i] = Current /\ p = n
    BY <1>5, <2>2
  <2>3. CASE ~(chain[i] = Current /\ p = n)
    <3>1. p \in 0..size[chain[i]]-1 /\ p \in 0..ChunkSize-1
      BY <1>2, <1>3, <1>4, <2>3 DEF n
    <3>2. QED BY <1>2, <1>5, <2>3, <3>1 DEF IInv, LiveWritten
  <2>4. QED BY <2>2, <2>3
<1>12. ReaderLive'
  <2>1. SUFFICES ASSUME reader # NULL, ~reader.eof
                 PROVE  /\ reader.chunk \in Elems(chain)
                        /\ reader.pos < size'[reader.chunk]
                        /\ reader.tag = ar'[reader.chunk][reader.pos]
    BY <1>1 DEF ReaderLive
  <2>2. /\ reader.chunk \in Elems(chain)
        /\ reader.pos < size[reader.chunk]
        /\ reader.tag = ar[reader.chunk][reader.pos]
        /\ reader.pos \in 0..ChunkSize
    BY <2>1 DEF IInv, ReaderLive, TypeOK, Position
  <2>3. reader.pos \in 0..ChunkSize-1 /\ (reader.chunk # Current \/ reader.pos # n)
    BY <1>2, <1>3, <2>2 DEF n
  <2>4. QED BY <1>2, <1>3, <1>4, <1>5, <2>2, <2>3
<1>13. QED BY <1>6, <1>7, <1>8, <1>9, <1>10, <1>11, <1>12 DEF IInv

(* A chunk that is in neither list, or the first of the freelist, is linked after *)
(* the full current one and takes the node.                                       *)
LEMMA LinkChunkIInv ==
  ASSUME IInv, NEW t \in Tag, NEW c \in Chunk \ Elems(chain),
         size[Current] = ChunkSize, PushIn(c, t),
         freelist' \in Seq(Chunk), Distinct(freelist'),
         Elems(freelist') = Elems(freelist) \ {c}
  PROVE  IInv'
<1>1. /\ chain' = Append(chain, c) /\ marks' = marks /\ reader' = reader
  BY DEF PushIn
<1>2. /\ Current \in Chunk /\ Current \in Elems(chain)
      /\ DOMAIN chain = 1..Len(chain)
      /\ Len(chain) \in Nat \ {0}
      /\ \A i \in 1..Len(chain) : /\ chain[i] \in Chunk
                                  /\ chain[i] \in Elems(chain)
                                  /\ IndexOf(chain[i]) = i
      /\ \A d \in Elems(chain) : /\ d \in Chunk
                                 /\ IndexOf(d) \in 1..Len(chain)
                                 /\ chain[IndexOf(d)] = d
      /\ \A d \in Elems(chain) : size[d] = ChunkSize
  BY ChainFacts
<1>3. /\ size \in [Chunk -> 0..ChunkSize] /\ ChunkSize \in Nat \ {0}
      /\ ar \in [Chunk -> [0..ChunkSize-1 -> Tag \cup {Garbage}]]
      /\ chain \in Seq(Chunk) /\ chain[1] = HeadChunk
      /\ Distinct(chain) /\ Elems(chain) \cap Elems(freelist) = {}
  BY ConstantsAssumption DEF IInv, TypeOK, ChunksNotShared
<1>4. /\ chain' \in Seq(Chunk) /\ chain' # <<>> /\ chain'[1] = HeadChunk
      /\ Len(chain') = Len(chain) + 1
      /\ DOMAIN chain' = 1..(Len(chain) + 1)
      /\ \A i \in 1..Len(chain) : chain'[i] = chain[i]
      /\ chain'[Len(chain) + 1] = c
      /\ Current' = c
  BY <1>1, <1>2, <1>3, AppendProperties, LenProperties DEF Current
<1>5. Distinct(chain') /\ Elems(chain') = Elems(chain) \cup {c}
  BY <1>1, <1>3, AppendDistinct
<1>6. \A d \in Elems(chain) : IndexOf(d)' = IndexOf(d)
  <2>1. TAKE d \in Elems(chain)
  <2>2. IndexOf(d) \in 1..Len(chain) /\ chain'[IndexOf(d)] = d
    BY <1>2, <1>4
  <2>3. IndexOf(d) \in 1..Len(chain')
    BY <1>2, <1>4, <2>2
  <2>4. IndexIn(chain', chain'[IndexOf(d)]) = IndexOf(d)
    BY <1>4, <1>5, <2>3, IndexOfElement
  <2>5. QED BY <2>2, <2>4 DEF IndexOf
<1>7. /\ size' \in [Chunk -> 0..ChunkSize]
      /\ size'[c] = 1
      /\ \A d \in Chunk : d # c => size'[d] = size[d]
  BY <1>3 DEF PushIn
<1>8. /\ ar' \in [Chunk -> [0..ChunkSize-1 -> Tag \cup {Garbage}]]
      /\ ar'[c][0] = t
      /\ \A d \in Chunk : d # c => ar'[d] = ar[d]
  BY <1>3 DEF PushIn
<1>9. TypeOK'
  BY <1>1, <1>4, <1>7, <1>8 DEF IInv, TypeOK
<1>10. ChunksNotShared'
  BY <1>3, <1>5 DEF ChunksNotShared
<1>11. NoChunkLost'
  BY <1>5, <1>7 DEF IInv, NoChunkLost
<1>12. ChainPacked'
  <2>1. ASSUME NEW i \in 1..Len(chain')-1 PROVE size'[chain'[i]] = ChunkSize
    <3>1. i \in 1..Len(chain) /\ chain'[i] = chain[i] /\ chain[i] # c
      BY <1>2, <1>4, <2>1
    <3>2. QED BY <1>2, <1>7, <3>1
  <2>2. size'[Current'] > 0
    BY <1>4, <1>7
  <2>3. QED BY <2>1, <2>2 DEF ChainPacked
<1>13. MarksLive'
  <2>1. ASSUME NEW k \in DOMAIN marks
        PROVE  /\ marks[k].chunk \in Elems(chain')
               /\ marks[k].pos <= size'[marks[k].chunk]
               /\ marks[k].pos > 0 \/ marks[k].chunk = HeadChunk
    <3>1. marks[k].chunk \in Elems(chain) /\ marks[k].chunk # c
      BY MarkFacts
    <3>2. QED BY <1>2, <1>5, <1>7, <3>1, MarkFacts
  <2>2. ASSUME NEW j \in DOMAIN marks, NEW k \in DOMAIN marks, j < k
        PROVE  ~Before(marks[k], marks[j])'
    <3>1. ~Before(marks[k], marks[j])
      BY <2>2 DEF IInv, MarksLive
    <3>2. marks[j].chunk \in Elems(chain) /\ marks[k].chunk \in Elems(chain)
      BY MarkFacts
    <3>3. QED BY <1>1, <1>6, <3>1, <3>2 DEF Before
  <2>3. QED BY <1>1, <2>1, <2>2 DEF MarksLive
<1>14. LiveWritten'
  <2>1. SUFFICES ASSUME NEW i \in 1..Len(chain'), NEW p \in 0..size'[chain'[i]]-1
                 PROVE  ar'[chain'[i]][p] \in Tag
    BY <1>4 DEF LiveWritten
  <2>2. CASE i = Len(chain) + 1
    BY <1>4, <1>7, <1>8, <2>2
  <2>3. CASE i \in 1..Len(chain)
    <3>1. chain'[i] = chain[i] /\ chain[i] # c /\ chain[i] \in Chunk
      BY <1>2, <1>4, <2>3
    <3>2. p \in 0..size[chain[i]]-1
      BY <1>7, <3>1
    <3>3. QED BY <1>2, <1>8, <2>3, <3>1, <3>2 DEF IInv, LiveWritten
  <2>4. QED BY <1>2, <1>4, <2>2, <2>3
<1>15. ReaderLive'
  <2>1. SUFFICES ASSUME reader # NULL, ~reader.eof
                 PROVE  /\ reader.chunk \in Elems(chain')
                        /\ reader.pos < size'[reader.chunk]
                        /\ reader.tag = ar'[reader.chunk][reader.pos]
    BY <1>1 DEF ReaderLive
  <2>2. /\ reader.chunk \in Elems(chain)
        /\ reader.pos < size[reader.chunk]
        /\ reader.tag = ar[reader.chunk][reader.pos]
    BY <2>1 DEF IInv, ReaderLive
  <2>3. QED BY <1>2, <1>5, <1>7, <1>8, <2>2
<1>16. QED BY <1>9, <1>10, <1>11, <1>12, <1>13, <1>14, <1>15 DEF IInv

(* The node goes to a chunk of the freelist. *)
LEMMA PushReusingIInv ==
  ASSUME IInv, NEW t \in Tag, PushReusing(t)
  PROVE  IInv'
<1>1. /\ freelist \in Seq(Chunk) /\ Distinct(freelist) /\ freelist # <<>>
      /\ Elems(chain) \cap Elems(freelist) = {}
  BY DEF IInv, TypeOK, ChunksNotShared, PushReusing
<1>2. /\ Tail(freelist) \in Seq(Chunk) /\ Distinct(Tail(freelist))
      /\ freelist[1] \in Chunk /\ freelist[1] \in Elems(freelist)
      /\ Elems(Tail(freelist)) = Elems(freelist) \ {freelist[1]}
  BY <1>1, TailDistinct
<1>3. QED BY <1>1, <1>2, LinkChunkIInv DEF PushReusing

(* The node goes to a chunk the allocator gives. *)
LEMMA PushAllocatingIInv ==
  ASSUME IInv, NEW t \in Tag, PushAllocating(t)
  PROVE  IInv'
<1>1. /\ freelist \in Seq(Chunk) /\ Distinct(freelist)
      /\ freelist = <<>> /\ freelist' = freelist
  BY DEF IInv, TypeOK, ChunksNotShared, PushAllocating
<1>2. Elems(freelist) = {}
  BY <1>1 DEF Elems
<1>3. PICK c \in Chunk \ Elems(chain) : PushIn(c, t)
  BY DEF PushAllocating
<1>4. QED BY <1>1, <1>2, <1>3, LinkChunkIInv DEF PushAllocating

(* serialize_node begins: the end of the serialization is a position. *)
LEMMA EnterIInv ==
  ASSUME IInv, Enter
  PROVE  IInv'
<1>1. /\ chain' = chain /\ freelist' = freelist /\ size' = size /\ ar' = ar
      /\ reader' = reader /\ marks' = Append(marks, IterEnd)
  BY DEF Enter
<1>2. /\ Current \in Chunk /\ Current \in Elems(chain)
      /\ IndexOf(Current) = Len(chain) /\ Len(chain) \in Nat
      /\ \A c \in Elems(chain) : IndexOf(c) \in 1..Len(chain) /\ chain[IndexOf(c)] = c
      /\ Current # HeadChunk => size[Current] > 0
  BY ChainFacts
<1>3. size[Current] \in 0..ChunkSize
  BY <1>2 DEF IInv, TypeOK
<1>4. /\ IterEnd \in Position /\ IterEnd.chunk = Current /\ IterEnd.pos = size[Current]
  BY <1>2, <1>3 DEF IterEnd, EofOf, Position
<1>5. marks \in Seq(Position) /\ Len(marks) \in Nat /\ DOMAIN marks = 1..Len(marks)
  BY MarkFacts DEF IInv, TypeOK
<1>6. /\ marks' \in Seq(Position) /\ Len(marks') = Len(marks) + 1
      /\ DOMAIN marks' = 1..(Len(marks) + 1)
      /\ \A k \in 1..Len(marks) : marks'[k] = marks[k]
      /\ marks'[Len(marks) + 1] = IterEnd
  BY <1>1, <1>4, <1>5, AppendProperties, LenProperties
<1>7. \A k \in DOMAIN marks' : (k \in DOMAIN marks /\ marks'[k] = marks[k])
                              \/ (k = Len(marks) + 1 /\ marks'[k] = IterEnd)
  BY <1>5, <1>6
<1>8. ASSUME NEW k \in DOMAIN marks'
      PROVE  /\ marks'[k].chunk \in Elems(chain)
             /\ marks'[k].pos <= size[marks'[k].chunk]
             /\ marks'[k].pos > 0 \/ marks'[k].chunk = HeadChunk
  <2>1. CASE k \in DOMAIN marks /\ marks'[k] = marks[k]
    BY <2>1, MarkFacts
  <2>2. CASE marks'[k] = IterEnd
    BY <1>2, <1>3, <1>4, <2>2
  <2>3. QED BY <1>7, <2>1, <2>2
<1>9. ASSUME NEW j \in DOMAIN marks', NEW k \in DOMAIN marks', j < k
      PROVE  ~Before(marks'[k], marks'[j])
  <2>1. j \in DOMAIN marks /\ marks'[j] = marks[j]
    BY <1>5, <1>6, <1>7, <1>9
  <2>2. CASE k \in DOMAIN marks /\ marks'[k] = marks[k]
    BY <1>9, <2>1, <2>2 DEF IInv, MarksLive
  <2>3. CASE marks'[k] = IterEnd
    <3>1. /\ marks[j].chunk \in Elems(chain)
          /\ marks[j].pos \in Nat /\ marks[j].pos <= size[marks[j].chunk]
      BY <2>1, MarkFacts
    <3>2. ~(IndexOf(Current) < IndexOf(marks[j].chunk))
      BY <1>2, <3>1
    <3>3. ~(marks[j].chunk = Current /\ size[Current] < marks[j].pos)
      BY <1>3, <3>1
    <3>4. QED BY <1>4, <2>1, <2>3, <3>2, <3>3 DEF Before
  <2>4. QED BY <1>7, <2>2, <2>3
<1>10. MarksLive'
  BY <1>1, <1>8, <1>9 DEF MarksLive, Before, IndexOf
<1>11. TypeOK'
  BY <1>1, <1>6 DEF IInv, TypeOK
<1>12. ChunksNotShared' /\ NoChunkLost' /\ ChainPacked' /\ LiveWritten' /\ ReaderLive'
  BY <1>1 DEF IInv, ChunksNotShared, NoChunkLost, ChainPacked, LiveWritten, ReaderLive,
              Current
<1>13. QED BY <1>10, <1>11, <1>12 DEF IInv

(* Dropping the innermost mark. *)
LEMMA PopMark ==
  ASSUME IInv, marks # <<>>, marks' = SubSeq(marks, 1, Len(marks) - 1)
  PROVE  /\ marks' \in Seq(Position)
         /\ Len(marks) \in Nat \ {0} /\ Len(marks) \in DOMAIN marks
         /\ DOMAIN marks' = 1..(Len(marks) - 1)
         /\ \A k \in DOMAIN marks' : /\ k \in DOMAIN marks /\ k < Len(marks)
                                     /\ marks'[k] = marks[k]
<1>1. /\ marks \in Seq(Position) /\ Len(marks) \in Nat \ {0} /\ DOMAIN marks = 1..Len(marks)
      /\ \A k \in 1..Len(marks) : marks[k] \in Position
  BY MarkFacts, EmptySeq DEF IInv, TypeOK
<1>2. Len(marks) - 1 \in Int /\ \A k \in 1..(Len(marks) - 1) : marks[k] \in Position
  BY <1>1
<1>3. /\ marks' \in Seq(Position)
      /\ Len(marks') = IF 1 <= Len(marks) - 1 THEN (Len(marks) - 1) - 1 + 1 ELSE 0
      /\ \A k \in 1..((Len(marks) - 1) - 1 + 1) : marks'[k] = marks[1 + k - 1]
  BY <1>2, SubSeqProperties
<1>4. Len(marks') = Len(marks) - 1
  <2>1. Len(marks') = IF 1 <= Len(marks) - 1 THEN (Len(marks) - 1) - 1 + 1 ELSE 0
    BY <1>3
  <2>2. QED BY <1>1, <2>1
<1>5. DOMAIN marks' = 1..(Len(marks) - 1)
  BY <1>3, <1>4, LenProperties
<1>6. ASSUME NEW k \in 1..(Len(marks) - 1) PROVE marks'[k] = marks[k]
  <2>1. k \in 1..((Len(marks) - 1) - 1 + 1) /\ 1 + k - 1 = k
    BY <1>1
  <2>2. QED BY <1>3, <2>1
<1>7. QED BY <1>1, <1>3, <1>5, <1>6

(* serialize_node returns with the table written as an array. *)
LEMMA LeaveIInv ==
  ASSUME IInv, Leave
  PROVE  IInv'
<1>1. /\ chain' = chain /\ freelist' = freelist /\ size' = size /\ ar' = ar
      /\ reader' = reader /\ marks # <<>> /\ marks' = SubSeq(marks, 1, Len(marks) - 1)
  BY DEF Leave
<1>2. /\ marks' \in Seq(Position)
      /\ \A k \in DOMAIN marks' : k \in DOMAIN marks /\ marks'[k] = marks[k]
  BY <1>1, PopMark
<1>3. TypeOK'
  BY <1>1, <1>2 DEF IInv, TypeOK
<1>4. MarksLive'
  BY <1>1, <1>2 DEF IInv, MarksLive, Before, IndexOf
<1>5. ChunksNotShared' /\ NoChunkLost' /\ ChainPacked' /\ LiveWritten' /\ ReaderLive'
  BY <1>1 DEF IInv, ChunksNotShared, NoChunkLost, ChainPacked, LiveWritten, ReaderLive,
              Current
<1>6. QED BY <1>3, <1>4, <1>5 DEF IInv

(* release_tail at the innermost mark. *)
LEMMA RestartIInv ==
  ASSUME IInv, Restart
  PROVE  IInv'
<1> DEFINE m == Innermost
           i == IndexOf(m.chunk)
<1>1. /\ marks # <<>> /\ marks' = SubSeq(marks, 1, Len(marks) - 1)
      /\ chain' = SubSeq(chain, 1, i)
      /\ freelist' = freelist \o SubSeq(chain, i + 1, Len(chain))
      /\ size' = [size EXCEPT ![m.chunk] = m.pos]
      /\ ar' = ar
      /\ reader' = IF reader # NULL /\ ~reader.eof /\ Before(reader, m)
                   THEN reader ELSE NULL
  BY DEF Restart, ReleaseTail
<1>2. /\ marks' \in Seq(Position)
      /\ Len(marks) \in DOMAIN marks
      /\ \A k \in DOMAIN marks' : /\ k \in DOMAIN marks /\ k < Len(marks)
                                  /\ marks'[k] = marks[k]
  BY <1>1, PopMark
<1>3. /\ m \in Position /\ m.chunk \in Elems(chain) /\ m.pos \in 0..ChunkSize
      /\ m.pos <= size[m.chunk]
      /\ m.pos > 0 \/ m.chunk = HeadChunk
  BY <1>2, MarkFacts DEF Innermost
<1>4. /\ \A k \in 1..Len(chain) : /\ chain[k] \in Chunk /\ chain[k] \in Elems(chain)
                                  /\ IndexOf(chain[k]) = k
      /\ \A d \in Elems(chain) : /\ d \in Chunk
                                 /\ IndexOf(d) \in 1..Len(chain)
                                 /\ chain[IndexOf(d)] = d
      /\ Len(chain) \in Nat \ {0} /\ DOMAIN chain = 1..Len(chain)
  BY ChainFacts
<1>5. i \in 1..Len(chain) /\ chain[i] = m.chunk /\ m.chunk \in Chunk
  BY <1>3, <1>4
<1>6. /\ chain \in Seq(Chunk) /\ freelist \in Seq(Chunk) /\ chain[1] = HeadChunk
      /\ Distinct(chain) /\ Distinct(freelist)
      /\ Elems(chain) \cap Elems(freelist) = {}
      /\ size \in [Chunk -> 0..ChunkSize] /\ ChunkSize \in Nat \ {0}
  BY ConstantsAssumption DEF IInv, TypeOK, ChunksNotShared
<1> DEFINE released == SubSeq(chain, i + 1, Len(chain))
<1>7. /\ chain' \in Seq(Chunk) /\ released \in Seq(Chunk)
      /\ Len(chain') = i /\ chain' # <<>>
      /\ DOMAIN chain' = 1..i
      /\ \A k \in 1..i : chain'[k] = chain[k]
      /\ Distinct(chain') /\ Distinct(released)
      /\ Elems(chain') \cap Elems(released) = {}
      /\ Elems(chain') \cup Elems(released) = Elems(chain)
  <2> HIDE DEF i
  <2> DEFINE kept == SubSeq(chain, 1, i)
  <2>1. /\ kept \in Seq(Chunk) /\ released \in Seq(Chunk)
        /\ Len(kept) = i /\ kept # <<>>
        /\ DOMAIN kept = 1..i
        /\ \A k \in 1..i : kept[k] = chain[k]
        /\ Distinct(kept) /\ Distinct(released)
        /\ Elems(kept) \cap Elems(released) = {}
        /\ Elems(kept) \cup Elems(released) = Elems(chain)
    BY <1>5, <1>6, CutDistinct
  <2>2. chain' = kept
    BY <1>1
  <2> HIDE DEF kept, released
  <2>3. QED BY <2>1, <2>2
<1>8. /\ freelist' \in Seq(Chunk) /\ Distinct(freelist')
      /\ Elems(freelist') = Elems(freelist) \cup Elems(released)
  <2> HIDE DEF released
  <2>1. Elems(freelist) \cap Elems(released) = {} /\ freelist' = freelist \o released
    BY <1>1, <1>6, <1>7 DEF released
  <2>2. QED BY <1>6, <1>7, <2>1, ConcatDistinct
<1> HIDE DEF m, i, released
<1>9. /\ size' \in [Chunk -> 0..ChunkSize]
      /\ size'[m.chunk] = m.pos
      /\ \A d \in Chunk : d # m.chunk => size'[d] = size[d]
      /\ \A d \in Chunk : size'[d] <= size[d]
  BY <1>1, <1>3, <1>5, <1>6
<1>10. Current' = m.chunk
  BY <1>5, <1>7 DEF Current
<1>11. \A d \in Elems(chain) : IndexOf(d) <= i =>
          d \in Elems(chain') /\ IndexOf(d)' = IndexOf(d)
  <2>1. TAKE d \in Elems(chain)
  <2>2. HAVE IndexOf(d) <= i
  <2>3. IndexOf(d) \in 1..i /\ chain'[IndexOf(d)] = d
    BY <1>4, <1>5, <1>7, <2>2
  <2>4. /\ chain'[IndexOf(d)] \in Elems(chain')
        /\ IndexIn(chain', chain'[IndexOf(d)]) = IndexOf(d)
    BY <1>7, <2>3, IndexOfElement
  <2>5. QED BY <2>3, <2>4 DEF IndexOf
<1>12. ASSUME NEW k \in DOMAIN marks'
       PROVE  /\ marks[k].chunk \in Elems(chain) /\ marks[k].pos \in 0..ChunkSize
              /\ IndexOf(marks[k].chunk) <= i
              /\ marks[k].chunk = m.chunk => marks[k].pos <= m.pos
  <2>1. k \in DOMAIN marks /\ ~Before(m, marks[k])
    BY <1>2 DEF IInv, MarksLive, m, Innermost
  <2>2. marks[k].chunk \in Elems(chain) /\ marks[k].pos \in 0..ChunkSize
    BY <2>1, MarkFacts
  <2>3. IndexOf(marks[k].chunk) \in 1..Len(chain)
    BY <1>4, <2>2
  <2>4. ~(i < IndexOf(marks[k].chunk)) /\ ~(m.chunk = marks[k].chunk /\ m.pos < marks[k].pos)
    BY <2>1 DEF Before, i
  <2>5. QED BY <1>3, <1>5, <2>2, <2>3, <2>4
<1>13. TypeOK'
  <2>1. chain'[1] = HeadChunk
    BY <1>5, <1>6, <1>7
  <2>2. reader' \in Position \cup {NULL}
    BY <1>1 DEF IInv, TypeOK
  <2>3. QED BY <1>1, <1>2, <1>7, <1>8, <1>9, <2>1, <2>2 DEF IInv, TypeOK
<1>14. ChunksNotShared'
  BY <1>6, <1>7, <1>8 DEF ChunksNotShared
<1>15. NoChunkLost'
  <2>1. ASSUME NEW d \in Chunk, size'[d] > 0
        PROVE  d \in Elems(chain') \cup Elems(freelist')
    <3>1. size[d] > 0
      BY <1>6, <1>9, <2>1
    <3>2. d \in Elems(chain) \cup Elems(freelist)
      BY <3>1 DEF IInv, NoChunkLost
    <3>3. QED BY <1>7, <1>8, <3>2
  <2>2. QED BY <2>1 DEF NoChunkLost
<1>16. ChainPacked'
  <2>1. ASSUME NEW k \in 1..Len(chain')-1 PROVE size'[chain'[k]] = ChunkSize
    <3>1. /\ k \in 1..Len(chain)-1 /\ k < i /\ k \in 1..Len(chain)
          /\ chain'[k] = chain[k]
      BY <1>4, <1>5, <1>7, <2>1
    <3>2. chain[k] # m.chunk /\ chain[k] \in Chunk
      <4>1. IndexOf(chain[k]) = k /\ IndexOf(m.chunk) = i
        BY <1>4, <3>1 DEF i
      <4>2. QED BY <1>4, <1>5, <3>1, <4>1
    <3>3. size[chain[k]] = ChunkSize
      BY <3>1 DEF IInv, ChainPacked
    <3>4. QED BY <1>9, <3>1, <3>2, <3>3
  <2>2. Len(chain') > 1 => m.pos > 0
    <3>1. HAVE Len(chain') > 1
    <3>2. m.chunk # HeadChunk
      <4>1. 1 \in 1..Len(chain) /\ IndexOf(chain[1]) = 1 /\ i # 1 /\ IndexOf(m.chunk) = i
        BY <1>4, <1>5, <1>7, <3>1 DEF i
      <4>2. QED BY <1>6, <4>1
    <3>3. QED BY <1>3, <3>2
  <2>3. QED BY <1>9, <1>10, <2>1, <2>2 DEF ChainPacked
<1>17. MarksLive'
  <2>1. ASSUME NEW k \in DOMAIN marks'
        PROVE  /\ marks'[k].chunk \in Elems(chain')
               /\ marks'[k].pos <= size'[marks'[k].chunk]
               /\ marks'[k].pos > 0 \/ marks'[k].chunk = HeadChunk
    <3>1. /\ marks[k].chunk \in Elems(chain') /\ marks[k].chunk \in Chunk
          /\ marks'[k] = marks[k] /\ k \in DOMAIN marks
      BY <1>2, <1>4, <1>11, <1>12
    <3>2. /\ marks[k].pos <= size[marks[k].chunk]
          /\ marks[k].pos > 0 \/ marks[k].chunk = HeadChunk
      BY <3>1, MarkFacts
    <3>3. marks[k].pos <= size'[marks[k].chunk]
      BY <1>9, <1>12, <3>1, <3>2
    <3>4. QED BY <3>1, <3>2, <3>3
  <2>2. ASSUME NEW j \in DOMAIN marks', NEW k \in DOMAIN marks', j < k
        PROVE  ~Before(marks[k], marks[j])'
    <3>1. ~Before(marks[k], marks[j]) /\ marks'[j] = marks[j] /\ marks'[k] = marks[k]
      BY <1>2, <2>2 DEF IInv, MarksLive
    <3>2. /\ IndexOf(marks[j].chunk)' = IndexOf(marks[j].chunk)
          /\ IndexOf(marks[k].chunk)' = IndexOf(marks[k].chunk)
      <4>1. /\ IndexOf(marks[j].chunk) <= i /\ marks[j].chunk \in Elems(chain)
            /\ IndexOf(marks[k].chunk) <= i /\ marks[k].chunk \in Elems(chain)
        BY <1>12
      <4>2. /\ marks'[j].chunk = marks[j].chunk
            /\ marks'[k].chunk = marks[k].chunk
        BY <3>1
      <4>3. QED BY <1>11, <4>1, <4>2
    <3>3. QED BY <3>1, <3>2 DEF Before
  <2>3. QED BY <2>1, <2>2 DEF MarksLive
<1>18. LiveWritten'
  <2>1. SUFFICES ASSUME NEW k \in 1..i, NEW p \in 0..size'[chain'[k]]-1
                 PROVE  ar'[chain'[k]][p] \in Tag
    BY <1>7 DEF LiveWritten
  <2>2. chain'[k] = chain[k] /\ k \in DOMAIN chain /\ chain[k] \in Chunk
    BY <1>4, <1>5, <1>7
  <2>3. p \in 0..size[chain[k]]-1
    BY <1>6, <1>9, <2>2
  <2>4. QED BY <1>1, <2>2, <2>3 DEF IInv, LiveWritten
<1>19. ReaderLive'
  <2>1. SUFFICES ASSUME reader # NULL, ~reader.eof, Before(reader, m), reader' = reader
                 PROVE  /\ reader.chunk \in Elems(chain')
                        /\ reader.pos < size'[reader.chunk]
                        /\ reader.tag = ar'[reader.chunk][reader.pos]
    BY <1>1 DEF ReaderLive
  <2>2. /\ reader.chunk \in Elems(chain)
        /\ reader.pos < size[reader.chunk]
        /\ reader.tag = ar[reader.chunk][reader.pos]
        /\ reader.pos \in 0..ChunkSize
    BY <2>1 DEF IInv, ReaderLive, TypeOK, Position
  <2>3. /\ IndexOf(reader.chunk) <= i
        /\ reader.chunk = m.chunk => reader.pos < m.pos
    <3>1. \/ IndexOf(reader.chunk) < i
          \/ reader.chunk = m.chunk /\ reader.pos < m.pos
      BY <2>1 DEF Before, i
    <3>2. IndexOf(reader.chunk) \in 1..Len(chain) /\ IndexOf(m.chunk) = i
      BY <1>4, <2>2 DEF i
    <3>3. QED BY <1>4, <1>5, <2>2, <3>1, <3>2
  <2>4. reader.chunk \in Elems(chain') /\ reader.chunk \in Chunk
    BY <1>4, <1>11, <2>2, <2>3
  <2>5. QED BY <1>1, <1>9, <2>2, <2>3, <2>4
<1>20. QED BY <1>13, <1>14, <1>15, <1>16, <1>17, <1>18, <1>19 DEF IInv

(* A consumer opens an iterator or skips to the next node. *)
LEMMA ReaderIInv ==
  ASSUME IInv, Open \/ OpenLast \/ Skip
  PROVE  IInv'
<1>1. /\ chain' = chain /\ freelist' = freelist /\ size' = size /\ ar' = ar /\ marks' = marks
  BY DEF Open, OpenLast, Skip, writer
<1>2. /\ Current \in Chunk /\ Current \in Elems(chain) /\ HeadChunk \in Elems(chain)
      /\ DOMAIN chain = 1..Len(chain) /\ Len(chain) \in Nat \ {0}
      /\ \A k \in 1..Len(chain) : chain[k] \in Chunk /\ chain[k] \in Elems(chain)
      /\ \A c \in Elems(chain) : /\ c \in Chunk /\ IndexOf(c) \in 1..Len(chain)
                                 /\ chain[IndexOf(c)] = c
      /\ \A c \in Elems(chain) : c # Current => size[c] = ChunkSize
      /\ Current # HeadChunk => size[Current] > 0
  BY ChainFacts
<1>3. /\ size \in [Chunk -> 0..ChunkSize] /\ ChunkSize \in Nat \ {0}
      /\ ar \in [Chunk -> [0..ChunkSize-1 -> Tag \cup {Garbage}]]
      /\ reader \in Position \cup {NULL}
  BY ConstantsAssumption DEF IInv, TypeOK
<1>4. \A c \in Elems(chain) : EofOf(c) \in Position /\ EofOf(c).eof
  BY <1>2, <1>3 DEF EofOf, Position
<1>5. ASSUME NEW c \in Elems(chain), NEW p \in Nat, p < size[c]
      PROVE  /\ At(c, p) \in Position /\ At(c, p).chunk \in Elems(chain)
             /\ At(c, p).pos < size[At(c, p).chunk]
             /\ At(c, p).tag = ar[At(c, p).chunk][At(c, p).pos]
  BY <1>2, <1>3, <1>5 DEF At, Position
<1>6. ASSUME NEW it, \/ it.eof /\ it \in Position
                     \/ \E c \in Elems(chain) : \E p \in Nat : p < size[c] /\ it = At(c, p)
      PROVE  reader' = it => IInv'
  <2>1. HAVE reader' = it
  <2>2. TypeOK'
    BY <1>1, <1>5, <1>6, <2>1 DEF IInv, TypeOK
  <2>3. ReaderLive'
    BY <1>1, <1>5, <1>6, <2>1 DEF ReaderLive
  <2>4. ChunksNotShared' /\ NoChunkLost' /\ ChainPacked' /\ MarksLive' /\ LiveWritten'
    BY <1>1 DEF IInv, ChunksNotShared, NoChunkLost, ChainPacked, MarksLive, LiveWritten,
                Current, Before, IndexOf
  <2>5. QED BY <2>2, <2>3, <2>4 DEF IInv
<1>7. CASE Open
  <2>1. size[HeadChunk] \in Nat /\ reader' = IterFirst
    BY <1>2, <1>3, <1>7 DEF Open
  <2>2. CASE size[HeadChunk] = 0
    <3>1. reader' = EofOf(HeadChunk)
      BY <2>1, <2>2 DEF IterFirst
    <3>2. QED BY <1>2, <1>4, <1>6, <3>1
  <2>3. CASE size[HeadChunk] # 0
    <3>1. reader' = At(HeadChunk, 0) /\ 0 < size[HeadChunk] /\ 0 \in Nat
      BY <2>1, <2>3 DEF IterFirst
    <3>2. QED BY <1>2, <1>6, <3>1
  <2>4. QED BY <2>2, <2>3
<1>8. CASE OpenLast
  <2>1. size[Current] \in Nat /\ reader' = IterLast
    BY <1>2, <1>3, <1>8 DEF OpenLast
  <2>2. CASE size[Current] = 0
    <3>1. reader' = EofOf(Current)
      BY <2>1, <2>2 DEF IterLast
    <3>2. QED BY <1>2, <1>4, <1>6, <3>1
  <2>3. CASE size[Current] # 0
    <3>1. /\ reader' = At(Current, size[Current] - 1)
          /\ size[Current] - 1 < size[Current] /\ size[Current] - 1 \in Nat
      BY <2>1, <2>3 DEF IterLast
    <3>2. QED BY <1>2, <1>6, <3>1
  <2>4. QED BY <2>2, <2>3
<1>9. CASE Skip
  <2>1. /\ reader' = IterSkip(reader)
        /\ reader.chunk \in Elems(chain) /\ reader.pos < size[reader.chunk]
        /\ reader.pos \in Nat
    BY <1>3, <1>9 DEF Skip, IInv, ReaderLive, Position
  <2>2. CASE reader.pos + 1 < size[reader.chunk]
    <3>1. reader' = At(reader.chunk, reader.pos + 1) /\ reader.pos + 1 \in Nat
      BY <2>1, <2>2 DEF IterSkip
    <3>2. QED BY <1>6, <2>1, <2>2, <3>1
  <2>3. CASE ~(reader.pos + 1 < size[reader.chunk]) /\ NextChunk(reader.chunk) # NULL
    <3>1. reader' = At(NextChunk(reader.chunk), 0)
      BY <2>1, <2>3 DEF IterSkip
    <3>2. reader.chunk # Current /\ NextChunk(reader.chunk) = chain[IndexOf(reader.chunk) + 1]
      BY <2>1, <2>3 DEF NextChunk
    <3>3. IndexOf(reader.chunk) + 1 \in 2..Len(chain)
      BY <1>2, <2>1, <3>2 DEF Current
    <3>4. /\ NextChunk(reader.chunk) \in Elems(chain)
          /\ size[NextChunk(reader.chunk)] > 0
      <4>1. NextChunk(reader.chunk) \in Elems(chain)
        BY <1>2, <3>2, <3>3
      <4>2. Len(chain) > 1 => size[Current] > 0
        BY DEF IInv, ChainPacked
      <4>3. QED BY <1>2, <1>3, <3>3, <4>1, <4>2
    <3>5. QED BY <1>6, <3>1, <3>4
  <2>4. CASE ~(reader.pos + 1 < size[reader.chunk]) /\ NextChunk(reader.chunk) = NULL
    <3>1. reader' = EofOf(reader.chunk)
      BY <2>1, <2>4 DEF IterSkip
    <3>2. QED BY <1>4, <1>6, <2>1, <3>1
  <2>5. QED BY <2>2, <2>3, <2>4
<1>10. QED BY <1>7, <1>8, <1>9

-----------------------------------------------------------------------------
(* Every reachable state of a serialization written and read as the bindings do *)
(* satisfies the inductive invariant.                                           *)
THEOREM InductiveInvariant == Spec => []IInv
<1>1. Init => IInv
  BY InitIInv
<1>2. IInv /\ [Next]_vars => IInv'
  <2>1. SUFFICES ASSUME IInv, [Next]_vars PROVE IInv'
    OBVIOUS
  <2>2. ASSUME NEW t \in Tag, Push(t) PROVE IInv'
    BY <2>1, <2>2, PushInCurrentIInv, PushReusingIInv, PushAllocatingIInv DEF Push
  <2>3. CASE Enter BY <2>1, <2>3, EnterIInv
  <2>4. CASE Leave BY <2>1, <2>4, LeaveIInv
  <2>5. CASE Restart BY <2>1, <2>5, RestartIInv
  <2>6. CASE Open \/ OpenLast \/ Skip BY <2>1, <2>6, ReaderIInv
  <2>7. CASE UNCHANGED vars
    <3>1. /\ chain' = chain /\ freelist' = freelist /\ size' = size /\ ar' = ar
          /\ marks' = marks /\ reader' = reader
      BY <2>7 DEF vars
    <3>2. QED BY <2>1, <3>1 DEF IInv, TypeOK, ChunksNotShared, NoChunkLost, ChainPacked,
                 MarksLive, LiveWritten, ReaderLive, Current, Before, IndexOf
  <2>8. QED BY <2>1, <2>2, <2>3, <2>4, <2>5, <2>6, <2>7 DEF Next
<1>3. QED BY <1>1, <1>2, PTL DEF Spec

(* The variables keep their types. *)
THEOREM TypeCorrect == Spec => []TypeOK
<1>1. IInv => TypeOK
  BY DEF IInv
<1>2. QED BY <1>1, InductiveInvariant, PTL

(* A chunk that held nodes is in the serialization or on the freelist, but never in *)
(* both, nor in one of them twice.                                                 *)
THEOREM ChunksAlwaysAccounted == Spec => []ChunksAccounted
<1>1. IInv => ChunksAccounted
  BY DEF IInv, ChunksAccounted
<1>2. QED BY <1>1, InductiveInvariant, PTL

(* All chunks but the last are full and the last is not empty. *)
THEOREM ChainAlwaysPacked == Spec => []ChainPacked
<1>1. IInv => ChainPacked
  BY DEF IInv
<1>2. QED BY <1>1, InductiveInvariant, PTL

(* The marks of open frames stay positions of the serialization, in frame order. *)
THEOREM MarksAlwaysLive == Spec => []MarksLive
<1>1. IInv => MarksLive
  BY DEF IInv
<1>2. QED BY <1>1, InductiveInvariant, PTL

(* An iterator not at eof is on a node pushed and not released, with its tag. *)
THEOREM ReaderAlwaysOnLiveNode == Spec => []ReaderOnLiveNode
<1>1. IInv => ReaderOnLiveNode
  <2>1. SUFFICES ASSUME IInv, reader # NULL, ~reader.eof PROVE ReaderOnLiveNode
    BY DEF ReaderOnLiveNode
  <2>2. /\ reader.chunk \in Elems(chain) /\ reader.pos < size[reader.chunk]
        /\ reader.tag = ar[reader.chunk][reader.pos]
        /\ reader.pos \in 0..ChunkSize
    BY <2>1 DEF IInv, ReaderLive, TypeOK, Position
  <2>3. reader.tag \in Tag
    <3>1. PICK k \in DOMAIN chain : chain[k] = reader.chunk
      BY <2>2 DEF Elems
    <3>2. chain[k] \in Chunk /\ size[chain[k]] \in Nat
      BY <2>1, <3>1, ChainFacts DEF IInv, TypeOK
    <3>3. reader.pos \in 0..size[chain[k]]-1
      BY <2>2, <3>1, <3>2
    <3>4. QED BY <2>1, <2>2, <3>1, <3>3 DEF IInv, LiveWritten
  <2>4. FollowTag(reader) = IterSkip(reader).tag
    BY DEF FollowTag, IterSkip, At, EofOf
  <2>5. QED BY <2>2, <2>3, <2>4 DEF ReaderOnLiveNode
<1>2. QED BY <1>1, InductiveInvariant, PTL

-----------------------------------------------------------------------------
(* Nodes are numbered through the chunks. *)
LEMMA NumberedNode ==
  ASSUME NEW n \in Nat \ {0}, NEW q \in Nat, NEW p \in 0..n-1
  PROVE  /\ q * n + p \in Nat
         /\ (q * n + p) \div n = q /\ (q * n + p) % n = p
<1>1. q * n + p \in Nat
  OBVIOUS
<1>2. (q * n + p) \div n = q
  OBVIOUS
<1>3. (q * n + p) % n = p
  OBVIOUS
<1>4. QED BY <1>1, <1>2, <1>3

LEMMA NodeOfNumber ==
  ASSUME NEW n \in Nat \ {0}, NEW i \in Nat
  PROVE  \E d \in Nat, r \in 0..n-1 : i \div n = d /\ i % n = r /\ i = d * n + r
<1> DEFINE d == i \div n
           r == i % n
<1>1. r \in 0..n-1 /\ d \in Nat /\ i = n * d + r
  OBVIOUS
<1> HIDE DEF d, r
<1>2. n * d = d * n
  BY <1>1
<1>3. i = d * n + r
  BY <1>1, <1>2
<1>4. d \in Nat /\ r \in 0..n-1 /\ i = d * n + r
  BY <1>1, <1>3
<1>5. i \div n = d /\ i % n = r
  BY DEF d, r
<1>6. QED BY <1>4, <1>5

(* The nodes in the chunks before the q-th. *)
Base(q) == (q - 1) * ChunkSize

LEMMA BaseFacts ==
  /\ ChunkSize \in Nat \ {0} /\ Base(1) = 0
  /\ \A q \in Nat \ {0} : Base(q) \in Nat /\ Base(q + 1) = Base(q) + ChunkSize
  /\ \A j, k \in Nat \ {0} : j < k => Base(j) + ChunkSize <= Base(k)
<1>1. ChunkSize \in Nat \ {0}
  BY ConstantsAssumption
<1>2. Base(1) = 0
  BY <1>1 DEF Base
<1>3. \A q \in Nat \ {0} : Base(q) \in Nat /\ Base(q + 1) = Base(q) + ChunkSize
  BY <1>1 DEF Base
<1>4. ASSUME NEW j \in Nat \ {0}, NEW k \in Nat \ {0}, j < k
      PROVE  Base(j) + ChunkSize <= Base(k)
  <2> DEFINE m == (k - j - 1) * ChunkSize
  <2>1. m \in Nat
    BY <1>1, <1>4
  <2>2. Base(k) = Base(j) + ChunkSize + m
    BY <1>1 DEF Base
  <2> HIDE DEF m
  <2>3. QED BY <1>1, <1>3, <2>1, <2>2
<1>5. QED BY <1>1, <1>2, <1>3, <1>4

LEMMA NumberInBase ==
  ASSUME NEW q \in Nat \ {0}, NEW p \in 0..ChunkSize-1
  PROVE  (Base(q) + p) \div ChunkSize + 1 = q /\ (Base(q) + p) % ChunkSize = p
<1> DEFINE d == q - 1
<1>1. d \in Nat /\ d + 1 = q
  OBVIOUS
<1> HIDE DEF d
<1>2. (d * ChunkSize + p) \div ChunkSize = d /\ (d * ChunkSize + p) % ChunkSize = p
  BY <1>1, NumberedNode, ConstantsAssumption
<1>3. QED BY <1>1, <1>2 DEF d, Base

LEMMA BaseOfNumber ==
  ASSUME NEW i \in Nat
  PROVE  \E q \in Nat \ {0}, p \in 0..ChunkSize-1 :
            q = i \div ChunkSize + 1 /\ p = i % ChunkSize /\ i = Base(q) + p
<1>1. PICK d \in Nat, p \in 0..ChunkSize-1 :
        i \div ChunkSize = d /\ i % ChunkSize = p /\ i = d * ChunkSize + p
  BY ConstantsAssumption, NodeOfNumber
<1>2. (d + 1) - 1 = d
  OBVIOUS
<1>3. Base(d + 1) = d * ChunkSize
  BY <1>2 DEF Base
<1>4. i = Base(d + 1) + p /\ d + 1 = i \div ChunkSize + 1
  BY <1>1, <1>3
<1>5. QED BY <1>1, <1>4

LEMMA SameInterval ==
  ASSUME NEW m \in Nat, NEW n \in Nat, 1..m = 1..n
  PROVE  m = n
  OBVIOUS

(* The node sequence, over the chunks of any packed list: the nodes are numbered   *)
(* through from 1 to their count.                                                   *)
CountIn(ch, sz) == Base(Len(ch)) + sz[ch[Len(ch)]]
NodesIn(ch, a, n) ==
  [i \in 1..n |-> a[ch[(i - 1) \div ChunkSize + 1]][(i - 1) % ChunkSize]]

Packed(ch, sz, a) ==
  /\ ch \in Seq(Chunk) /\ Len(ch) > 0 /\ sz \in [Chunk -> 0..ChunkSize]
  /\ \A q \in 1..Len(ch) - 1 : sz[ch[q]] = ChunkSize
  /\ \A q \in 1..Len(ch) : \A p \in 0..sz[ch[q]] - 1 : a[ch[q]][p] \in Tag

Numbered(ch, sz, a, n, nodes) ==
  /\ n \in Nat /\ nodes \in Seq(Tag) /\ Len(nodes) = n
  /\ \A q \in 1..Len(ch) : \A p \in 0..sz[ch[q]] - 1 :
        /\ Base(q) + p + 1 \in 1..n
        /\ nodes[Base(q) + p + 1] = a[ch[q]][p]
  /\ \A i \in 1..n : \E q \in 1..Len(ch) : \E p \in 0..sz[ch[q]] - 1 :
        i = Base(q) + p + 1

LEMMA NodeSequence ==
  ASSUME NEW ch, NEW sz, NEW a, Packed(ch, sz, a)
  PROVE  Numbered(ch, sz, a, CountIn(ch, sz), NodesIn(ch, a, CountIn(ch, sz)))
<1> DEFINE n == CountIn(ch, sz)
           content == NodesIn(ch, a, n)
<1>1. /\ ch \in Seq(Chunk) /\ Len(ch) > 0 /\ sz \in [Chunk -> 0..ChunkSize]
      /\ \A q \in 1..Len(ch) - 1 : sz[ch[q]] = ChunkSize
      /\ \A q \in 1..Len(ch) : \A p \in 0..sz[ch[q]] - 1 : a[ch[q]][p] \in Tag
      /\ n = Base(Len(ch)) + sz[ch[Len(ch)]]
  BY DEF Packed, CountIn
<1>2. content = [i \in 1..n |-> a[ch[(i - 1) \div ChunkSize + 1]][(i - 1) % ChunkSize]]
  BY DEF NodesIn
<1> HIDE DEF n, content
<1> DEFINE L == Len(ch)
           last == sz[ch[L]]
<1>3. /\ L \in Nat \ {0} /\ \A q \in 1..L : ch[q] \in Chunk
      /\ ChunkSize \in Nat \ {0}
  BY <1>1, LenProperties, ElementOfSeq, ConstantsAssumption
<1>4. last \in 0..ChunkSize /\ L \in 1..L
  BY <1>1, <1>3
<1>5. n \in Nat /\ n = Base(L) + last
  <2>1. Base(L) \in Nat
    BY <1>3, BaseFacts
  <2>2. QED BY <1>1, <1>3, <1>4, <2>1
<1> HIDE DEF L, last
<1>6. ASSUME NEW q \in 1..L PROVE sz[ch[q]] \in 0..ChunkSize
  BY <1>1, <1>3
<1>7. ASSUME NEW q \in 1..L, NEW p \in 0..sz[ch[q]] - 1
      PROVE  Base(q) + p + 1 \in 1..n
  <2>1. q - 1 \in Nat /\ p \in 0..ChunkSize - 1
    BY <1>3, <1>6
  <2>2. q \in Nat \ {0} /\ Base(q) \in Nat
    <3>1. q \in Nat \ {0}
      BY <1>3
    <3>2. QED BY <3>1, BaseFacts
  <2>3. CASE q = L
    <3>1. sz[ch[q]] = last /\ n = Base(q) + last
      BY <1>5, <2>3 DEF last
    <3>2. QED BY <1>4, <2>2, <3>1
  <2>4. CASE q < L
    <3>1. Base(q) + ChunkSize <= Base(L)
      BY <1>3, <2>2, <2>4, BaseFacts
    <3>2. Base(L) \in Nat
      BY <1>3, BaseFacts
    <3>3. Base(q) + p + 1 <= Base(L) + last
      BY <1>3, <1>4, <2>1, <2>2, <3>1, <3>2
    <3>4. QED BY <1>5, <2>1, <2>2, <3>3
  <2>5. QED BY <1>3, <2>3, <2>4
<1>8. ASSUME NEW i \in 1..n
      PROVE  \E q \in 1..L : \E p \in 0..sz[ch[q]] - 1 :
                /\ i = Base(q) + p + 1
                /\ q = (i - 1) \div ChunkSize + 1 /\ p = (i - 1) % ChunkSize
  <2>1. PICK q \in Nat \ {0}, p \in 0..ChunkSize - 1 :
          q = (i - 1) \div ChunkSize + 1 /\ p = (i - 1) % ChunkSize /\ i - 1 = Base(q) + p
    <3> DEFINE k == i - 1
    <3>1. k \in Nat
      BY <1>5
    <3> HIDE DEF k
    <3>2. \E q \in Nat \ {0}, p \in 0..ChunkSize-1 :
            q = k \div ChunkSize + 1 /\ p = k % ChunkSize /\ k = Base(q) + p
      BY <3>1, BaseOfNumber
    <3>3. QED BY <3>2 DEF k
  <2>2. i - 1 = Base(q) + p /\ Base(q) \in Nat
    BY <2>1, BaseFacts
  <2>3. q <= L
    <3>1. ASSUME L < q PROVE FALSE
      <4>1. Base(L) + ChunkSize <= Base(q) /\ Base(L) \in Nat
        BY <1>3, <2>1, <3>1, BaseFacts
      <4>2. i - 1 < Base(L) + last
        BY <1>5
      <4>3. QED BY <1>3, <1>4, <2>2, <4>1, <4>2
    <3>2. QED BY <1>3, <2>1, <3>1
  <2>4. q \in 1..L
    BY <1>3, <2>1, <2>3
  <2>5. p < sz[ch[q]]
    <3>1. CASE q = L
      <4>1. sz[ch[q]] = last
        BY <3>1 DEF last
      <4>2. i - 1 < Base(q) + last
        BY <1>5, <3>1
      <4>3. QED BY <1>4, <2>2, <4>1, <4>2
    <3>2. CASE q # L
      <4>1. q \in 1..Len(ch) - 1
        BY <1>3, <2>4, <3>2 DEF L
      <4>2. sz[ch[q]] = ChunkSize
        BY <1>1, <4>1
      <4>3. QED BY <1>3, <2>1, <4>2
    <3>3. QED BY <3>1, <3>2
  <2>6. p \in 0..sz[ch[q]] - 1 /\ i = Base(q) + p + 1
    BY <1>6, <2>1, <2>4, <2>5
  <2>7. QED BY <2>1, <2>4, <2>6
<1>9. ASSUME NEW i \in 1..n PROVE content[i] \in Tag
  <2>1. PICK q \in 1..L : \E p \in 0..sz[ch[q]] - 1 :
                /\ i = Base(q) + p + 1
                /\ q = (i - 1) \div ChunkSize + 1 /\ p = (i - 1) % ChunkSize
    BY <1>8
  <2>2. PICK p \in 0..sz[ch[q]] - 1 : p = (i - 1) % ChunkSize
    BY <2>1
  <2>3. content[i] = a[ch[q]][p]
    BY <1>2, <2>1, <2>2
  <2>4. QED BY <1>1, <2>3 DEF L
<1>10. content \in [1..n -> Tag]
  BY <1>2, <1>9
<1>11. content \in Seq(Tag) /\ Len(content) = n
  <2>1. content \in Seq(Tag)
    <3>1. content \in UNION {[1..k -> Tag] : k \in Nat}
      BY <1>5, <1>10
    <3>2. QED BY <3>1, SeqDef
  <2>2. DOMAIN content = 1..n /\ DOMAIN content = 1..Len(content) /\ Len(content) \in Nat
    BY <1>10, <2>1, LenProperties
  <2>3. QED BY <1>5, <2>1, <2>2
<1>12. ASSUME NEW q \in 1..L, NEW p \in 0..sz[ch[q]] - 1
       PROVE  content[Base(q) + p + 1] = a[ch[q]][p]
  <2> DEFINE i == Base(q) + p + 1
  <2>1. i \in 1..n
    BY <1>7
  <2>2. q \in Nat \ {0} /\ p \in 0..ChunkSize - 1 /\ Base(q) \in Nat
    <3>1. q \in Nat \ {0} /\ sz[ch[q]] \in 0..ChunkSize
      BY <1>3, <1>6
    <3>2. Base(q) \in Nat
      BY <3>1, BaseFacts
    <3>3. QED BY <1>3, <3>1, <3>2
  <2>3. i - 1 = Base(q) + p
    BY <2>2
  <2>4. (i - 1) \div ChunkSize + 1 = q /\ (i - 1) % ChunkSize = p
    BY <2>2, <2>3, NumberInBase
  <2> HIDE DEF i
  <2>5. content[i] = a[ch[(i - 1) \div ChunkSize + 1]][(i - 1) % ChunkSize]
    BY <1>2, <2>1
  <2>6. QED BY <2>4, <2>5 DEF i
<1>13. QED BY <1>5, <1>7, <1>8, <1>11, <1>12 DEF L, n, content, Numbered

(* ... of the serialization, and of the one after a step. *)
LEMMA ContentFacts ==
  ASSUME IInv
  PROVE  /\ Numbered(chain, size, ar, Length, Content)
         /\ Length = CountIn(chain, size)
<1>1. Packed(chain, size, ar)
  <2>1. chain \in Seq(Chunk) /\ Len(chain) > 0 /\ size \in [Chunk -> 0..ChunkSize]
    <3>1. Len(chain) \in Nat \ {0}
      BY ChainFacts
    <3>2. QED BY <3>1 DEF IInv, TypeOK
  <2>2. \A q \in 1..Len(chain) - 1 : size[chain[q]] = ChunkSize
    BY DEF IInv, ChainPacked
  <2>3. \A q \in 1..Len(chain) : \A p \in 0..size[chain[q]] - 1 : ar[chain[q]][p] \in Tag
    <3>1. \A q \in 1..Len(chain) : chain[q] \in Elems(chain)
      BY ChainFacts
    <3>2. QED BY <3>1 DEF IInv, LiveWritten
  <2>4. QED BY <2>1, <2>2, <2>3 DEF Packed
<1>2. Length = CountIn(chain, size) /\ Content = NodesIn(chain, ar, Length)
  BY DEF Length, CountIn, Base, Current, Content, NodesIn
<1>3. QED BY <1>1, <1>2, NodeSequence

LEMMA NextContentFacts ==
  ASSUME IInv'
  PROVE  /\ Numbered(chain', size', ar', Length', Content')
         /\ Length' = CountIn(chain', size')
<1>1. chain' \in Seq(Chunk) /\ chain' # <<>>
  BY DEF IInv, TypeOK
<1>2. Len(chain') > 0 /\ DOMAIN chain' = 1..Len(chain')
  BY <1>1, EmptySeq, LenProperties
<1>3. Packed(chain', size', ar')
  BY <1>1, <1>2 DEF IInv, TypeOK, ChainPacked, LiveWritten, Packed
<1>4. Length' = CountIn(chain', size') /\ Content' = NodesIn(chain', ar', Length')
  BY DEF Length, CountIn, Base, Current, Content, NodesIn
<1>5. QED BY <1>3, <1>4, NodeSequence

(* The marks as lengths of the node sequence. *)
MarkOffsets == [k \in DOMAIN marks |-> OffsetOf(marks[k])]

LEMMA OffsetFacts ==
  ASSUME IInv, NEW it, it.chunk \in Elems(chain), it.pos \in 0..size[it.chunk]
  PROVE  /\ IndexOf(it.chunk) \in 1..Len(chain)
         /\ Base(IndexOf(it.chunk)) \in Nat
         /\ OffsetOf(it) = Base(IndexOf(it.chunk)) + it.pos
         /\ OffsetOf(it) \in 0..Length
         /\ (it.chunk # Current \/ it.pos < size[it.chunk]) <=> OffsetOf(it) < Length
<1> DEFINE q == IndexOf(it.chunk)
           L == Len(chain)
<1>1. /\ q \in 1..L /\ L \in Nat \ {0} /\ it.chunk \in Chunk
      /\ chain[q] = it.chunk /\ (q = L <=> it.chunk = Current)
      /\ L > 1 => size[Current] > 0
      /\ Current \in Chunk
  BY ChainFacts DEF Current, IInv, ChainPacked
<1>2. /\ size \in [Chunk -> 0..ChunkSize] /\ ChunkSize \in Nat \ {0}
      /\ size[it.chunk] \in 0..ChunkSize /\ size[Current] \in 0..ChunkSize
  BY <1>1, ConstantsAssumption DEF IInv, TypeOK
<1>3. OffsetOf(it) = Base(q) + it.pos /\ Length = Base(L) + size[Current]
  BY DEF OffsetOf, Length, Base
<1> HIDE DEF q, L
<1>4. q \in Nat \ {0} /\ Base(q) \in Nat /\ Base(L) \in Nat
  <2>1. q \in Nat \ {0}
    BY <1>1
  <2>2. QED BY <1>1, <2>1, BaseFacts
<1>5. CASE q = L
  <2>1. it.chunk = Current
    BY <1>1, <1>5
  <2>2. QED BY <1>1, <1>2, <1>3, <1>4, <1>5, <2>1 DEF q, L
<1>6. CASE q # L
  <2>1. q < L /\ L > 1 /\ it.chunk # Current
    BY <1>1, <1>4, <1>6
  <2>2. Base(q) + ChunkSize <= Base(L) /\ size[Current] > 0
    BY <1>1, <1>4, <2>1, BaseFacts
  <2>3. OffsetOf(it) < Length
    BY <1>2, <1>3, <1>4, <2>2
  <2>4. QED BY <1>1, <1>2, <1>3, <1>4, <2>1, <2>3 DEF q, L
<1>7. QED BY <1>5, <1>6

LEMMA MarkOffsetFacts ==
  ASSUME IInv
  PROVE  /\ MarkOffsets \in Seq(Nat) /\ Len(MarkOffsets) = Len(marks)
         /\ DOMAIN MarkOffsets = 1..Len(marks) /\ Len(marks) \in Nat
         /\ \A k \in 1..Len(marks) : /\ MarkOffsets[k] = OffsetOf(marks[k])
                                     /\ MarkOffsets[k] \in 0..Length
<1>1. /\ Len(marks) \in Nat /\ DOMAIN marks = 1..Len(marks)
      /\ \A k \in 1..Len(marks) : /\ marks[k].chunk \in Elems(chain)
                                  /\ marks[k].pos \in 0..size[marks[k].chunk]
  BY MarkFacts
<1>2. \A k \in 1..Len(marks) : OffsetOf(marks[k]) \in 0..Length
  BY <1>1, OffsetFacts
<1>3. Length \in Nat
  BY ContentFacts DEF Numbered
<1>4. MarkOffsets \in [1..Len(marks) -> Nat]
  BY <1>1, <1>2, <1>3 DEF MarkOffsets
<1>5. MarkOffsets \in Seq(Nat)
  <2>1. MarkOffsets \in UNION {[1..n -> Nat] : n \in Nat}
    BY <1>1, <1>4
  <2>2. QED BY <2>1, SeqDef
<1>6. Len(MarkOffsets) = Len(marks)
  <2>1. DOMAIN MarkOffsets = 1..Len(MarkOffsets) /\ Len(MarkOffsets) \in Nat
    BY <1>5, LenProperties
  <2>2. DOMAIN MarkOffsets = 1..Len(marks)
    BY <1>4
  <2>3. QED BY <1>1, <2>1, <2>2, SameInterval
<1>7. QED BY <1>1, <1>2, <1>4, <1>5, <1>6 DEF MarkOffsets

(* The mapped state stays where the chunks it refers to keep their place. *)
LEMMA SameOffsets ==
  ASSUME IInv, marks' = marks, reader' = reader,
         \A d \in Elems(chain) : IndexIn(chain', d) = IndexIn(chain, d)
  PROVE  MarkOffsets' = MarkOffsets /\ ReaderMap' = ReaderMap
<1>1. \A k \in DOMAIN marks : marks[k].chunk \in Elems(chain)
  BY MarkFacts
<1>2. MarkOffsets' = MarkOffsets
  BY <1>1 DEF MarkOffsets, OffsetOf, IndexOf
<1>3. reader # NULL /\ ~reader.eof => reader.chunk \in Elems(chain)
  BY DEF IInv, ReaderLive
<1>4. ReaderMap' = ReaderMap
  BY <1>3 DEF ReaderMap, OffsetOf, IndexOf
<1>5. QED BY <1>2, <1>4

-----------------------------------------------------------------------------
(* The steps. *)

(* A node written behind all the others, none of which is touched. *)
LEMMA ContentPushed ==
  ASSUME IInv, IInv', NEW t \in Tag,
         Len(chain') >= Len(chain),
         \A q \in 1..Len(chain) :
            /\ chain'[q] = chain[q]
            /\ size'[chain[q]] >= size[chain[q]]
            /\ \A p \in 0..size[chain[q]] - 1 : ar'[chain[q]][p] = ar[chain[q]][p],
         Length' = Length + 1,
         size'[chain'[Len(chain')]] > 0,
         ar'[chain'[Len(chain')]][size'[chain'[Len(chain')]] - 1] = t
  PROVE  Content' = Append(Content, t)
<1> DEFINE M == Len(chain')
<1>1. /\ Len(chain) \in Nat \ {0} /\ M \in Nat \ {0}
      /\ \A q \in 1..Len(chain) : size[chain[q]] \in Nat
      /\ size'[chain'[M]] \in Nat /\ size' \in [Chunk -> 0..ChunkSize]
      /\ \A q \in 1..Len(chain) : size'[chain[q]] \in Nat
  <2>1. Len(chain) \in Nat \ {0} /\ \A q \in 1..Len(chain) : chain[q] \in Chunk
    BY ChainFacts
  <2>2. chain' \in Seq(Chunk) /\ chain' # <<>>
    BY DEF IInv, TypeOK
  <2>3. M \in Nat \ {0} /\ chain'[M] \in Chunk
    BY <2>2, EmptySeq, LenProperties, ElementOfSeq
  <2>4. /\ size \in [Chunk -> 0..ChunkSize] /\ size' \in [Chunk -> 0..ChunkSize]
        /\ ChunkSize \in Nat
    BY ConstantsAssumption DEF IInv, TypeOK
  <2>5. QED BY <2>1, <2>3, <2>4
<1>2. /\ Length \in Nat /\ Content \in Seq(Tag) /\ Len(Content) = Length
      /\ \A q \in 1..Len(chain) : \A p \in 0..size[chain[q]] - 1 :
            Content[Base(q) + p + 1] = ar[chain[q]][p]
      /\ \A i \in 1..Length : \E q \in 1..Len(chain) : \E p \in 0..size[chain[q]] - 1 :
            i = Base(q) + p + 1
  BY ContentFacts DEF Numbered
<1>3. /\ Content' \in Seq(Tag) /\ Len(Content') = Length'
      /\ \A q \in 1..M : \A p \in 0..size'[chain'[q]] - 1 :
            Content'[Base(q) + p + 1] = ar'[chain'[q]][p]
      /\ Length' = Base(M) + size'[chain'[M]]
  BY NextContentFacts DEF Numbered, CountIn
<1> DEFINE longer == Append(Content, t)
<1>4. /\ longer \in Seq(Tag) /\ Len(longer) = Length + 1
      /\ \A i \in 1..Length : longer[i] = Content[i]
      /\ longer[Length + 1] = t
  BY <1>2, AppendProperties
<1> HIDE DEF longer, M
<1>5. ASSUME NEW i \in 1..Length PROVE Content'[i] = Content[i]
  <2>1. PICK q \in 1..Len(chain) : \E p \in 0..size[chain[q]] - 1 : i = Base(q) + p + 1
    BY <1>2
  <2>2. PICK p \in 0..size[chain[q]] - 1 : i = Base(q) + p + 1
    BY <2>1
  <2>3. Content[i] = ar[chain[q]][p]
    BY <1>2, <2>2
  <2>4. q \in 1..M /\ p \in 0..size'[chain'[q]] - 1 /\ ar'[chain'[q]][p] = ar[chain[q]][p]
    <3>1. /\ Len(chain) <= M /\ chain'[q] = chain[q] /\ size'[chain[q]] >= size[chain[q]]
          /\ ar'[chain[q]][p] = ar[chain[q]][p]
      BY <2>2 DEF M
    <3>2. q \in 1..M
      BY <1>1, <3>1
    <3>3. p \in 0..size'[chain[q]] - 1
      <4>1. size[chain[q]] \in Nat /\ size'[chain[q]] \in Nat
        BY <1>1
      <4>2. p \in Nat /\ p < size[chain[q]] /\ size[chain[q]] <= size'[chain[q]]
        BY <3>1, <4>1
      <4>3. QED BY <4>1, <4>2
    <3>4. QED BY <3>1, <3>2, <3>3
  <2>5. Content'[i] = ar'[chain'[q]][p]
    BY <1>3, <2>2, <2>4
  <2>6. QED BY <2>3, <2>4, <2>5
<1>6. Content'[Length + 1] = t
  <2> DEFINE p == size'[chain'[M]] - 1
  <2>1. p \in 0..size'[chain'[M]] - 1 /\ M \in 1..M
    BY <1>1 DEF M
  <2>2. Base(M) \in Nat
    BY <1>1, BaseFacts
  <2>3. Length + 1 = Base(M) + p + 1
    BY <1>1, <1>3, <2>2
  <2>4. Content'[Base(M) + p + 1] = ar'[chain'[M]][p]
    BY <1>3, <2>1
  <2>5. QED BY <2>3, <2>4 DEF M
<1>7. \A i \in 1..Len(Content') : Content'[i] = longer[i]
  BY <1>2, <1>3, <1>4, <1>5, <1>6
<1>8. Content' = longer
  BY <1>2, <1>3, <1>4, <1>7, SeqEqual
<1>9. QED BY <1>8 DEF longer

LEMMA PushInCurrentRefines ==
  ASSUME IInv, IInv', NEW t \in Tag, PushInCurrent(t)
  PROVE  Seqs!Push(t)
<1> DEFINE n == size[Current]
<1>1. /\ chain' = chain /\ marks' = marks /\ reader' = reader /\ n < ChunkSize
      /\ ar' = [ar EXCEPT ![Current][n] = t]
      /\ size' = [size EXCEPT ![Current] = n + 1]
  BY DEF PushInCurrent, IInv, TypeOK
<1>2. /\ Len(chain) \in Nat \ {0} /\ Current = chain[Len(chain)] /\ Current \in Chunk
      /\ \A q \in 1..Len(chain) : chain[q] \in Chunk
      /\ size \in [Chunk -> 0..ChunkSize] /\ ChunkSize \in Nat \ {0}
      /\ ar \in [Chunk -> [0..ChunkSize-1 -> Tag \cup {Garbage}]]
      /\ n \in 0..ChunkSize - 1
  <2>1. /\ Len(chain) \in Nat \ {0} /\ Current = chain[Len(chain)] /\ Current \in Chunk
        /\ \A q \in 1..Len(chain) : chain[q] \in Chunk
    BY ChainFacts DEF Current
  <2>2. /\ size \in [Chunk -> 0..ChunkSize] /\ ChunkSize \in Nat \ {0}
        /\ ar \in [Chunk -> [0..ChunkSize-1 -> Tag \cup {Garbage}]]
    BY ConstantsAssumption DEF IInv, TypeOK
  <2>3. n \in 0..ChunkSize - 1
    <3>1. n \in 0..ChunkSize
      BY <2>1, <2>2
    <3>2. QED BY <1>1, <2>2, <3>1
  <2>4. QED BY <2>1, <2>2, <2>3
<1> HIDE DEF n
<1>3. /\ size'[Current] = n + 1
      /\ ar'[Current][n] = t
      /\ \A q \in 1..Len(chain) :
            /\ size'[chain[q]] >= size[chain[q]]
            /\ \A p \in 0..size[chain[q]] - 1 : ar'[chain[q]][p] = ar[chain[q]][p]
  <2>1. size'[Current] = n + 1 /\ ar'[Current][n] = t
    BY <1>1, <1>2
  <2>2. ASSUME NEW q \in 1..Len(chain)
        PROVE  /\ size'[chain[q]] >= size[chain[q]]
               /\ \A p \in 0..size[chain[q]] - 1 : ar'[chain[q]][p] = ar[chain[q]][p]
    <3>1. CASE chain[q] = Current
      <4>1. size[chain[q]] = n
        BY <3>1 DEF n
      <4>2. \A p \in 0..n - 1 : ar'[Current][p] = ar[Current][p]
        BY <1>1, <1>2
      <4>3. QED BY <1>2, <2>1, <3>1, <4>1, <4>2
    <3>2. CASE chain[q] # Current
      BY <1>1, <1>2, <3>2
    <3>3. QED BY <3>1, <3>2
  <2>3. QED BY <2>1, <2>2
<1>4. Length' = Length + 1
  <2>1. Length = Base(Len(chain)) + n /\ Length' = Base(Len(chain)) + (n + 1)
    BY <1>1, <1>2, <1>3 DEF Length, Base, Current, n
  <2>2. Base(Len(chain)) \in Nat
    BY <1>2, BaseFacts
  <2>3. QED BY <1>2, <2>1, <2>2
<1>5. Content' = Append(Content, t)
  <2>1. size'[chain'[Len(chain')]] > 0 /\ (n + 1) - 1 = n
    BY <1>1, <1>2, <1>3
  <2>2. ar'[chain'[Len(chain')]][size'[chain'[Len(chain')]] - 1] = t
    BY <1>1, <1>2, <1>3, <2>1
  <2>3. QED BY <1>1, <1>2, <1>3, <1>4, <2>1, <2>2, ContentPushed
<1>6. MarkOffsets' = MarkOffsets /\ ReaderMap' = ReaderMap
  BY <1>1, SameOffsets
<1>7. QED BY <1>5, <1>6 DEF Seqs!Push, MarkOffsets

(* A node written to a chunk linked behind a full one. *)
LEMMA LinkChunkRefines ==
  ASSUME IInv, IInv', NEW t \in Tag, NEW c \in Chunk \ Elems(chain),
         size[Current] = ChunkSize, PushIn(c, t)
  PROVE  Seqs!Push(t)
<1> DEFINE L == Len(chain)
<1>1. /\ chain' = Append(chain, c) /\ marks' = marks /\ reader' = reader
      /\ size' = [size EXCEPT ![c] = 1]
      /\ ar' = [ar EXCEPT ![c][0] = t]
  BY DEF PushIn
<1>2. /\ L \in Nat \ {0} /\ Current = chain[L] /\ chain \in Seq(Chunk)
      /\ \A q \in 1..L : chain[q] \in Chunk /\ chain[q] # c
      /\ \A d \in Elems(chain) : IndexIn(chain, d) \in 1..L /\ chain[IndexIn(chain, d)] = d
      /\ size \in [Chunk -> 0..ChunkSize] /\ ChunkSize \in Nat \ {0}
      /\ ar \in [Chunk -> [0..ChunkSize-1 -> Tag \cup {Garbage}]]
  <2>1. /\ L \in Nat \ {0} /\ Current = chain[L]
        /\ \A q \in 1..L : chain[q] \in Chunk /\ chain[q] \in Elems(chain)
        /\ \A d \in Elems(chain) : IndexIn(chain, d) \in 1..L /\ chain[IndexIn(chain, d)] = d
    BY ChainFacts DEF Current, IndexOf
  <2>2. \A q \in 1..L : chain[q] # c
    BY <2>1
  <2>3. /\ chain \in Seq(Chunk) /\ size \in [Chunk -> 0..ChunkSize]
        /\ ChunkSize \in Nat \ {0}
        /\ ar \in [Chunk -> [0..ChunkSize-1 -> Tag \cup {Garbage}]]
    BY ConstantsAssumption DEF IInv, TypeOK
  <2>4. QED BY <2>1, <2>2, <2>3
<1>3. /\ Len(chain') = L + 1 /\ chain'[L + 1] = c
      /\ \A q \in 1..L : chain'[q] = chain[q]
  BY <1>1, <1>2, AppendProperties
<1> HIDE DEF L
<1>4. /\ size'[c] = 1 /\ ar'[c][0] = t
      /\ \A q \in 1..L : /\ size'[chain[q]] = size[chain[q]]
                         /\ ar'[chain[q]] = ar[chain[q]]
  BY <1>1, <1>2
<1>5. Length' = Length + 1
  <2>1. Length = Base(L) + ChunkSize /\ Length' = Base(L + 1) + 1
    BY <1>2, <1>3, <1>4 DEF Length, Base, Current, L
  <2>2. Base(L + 1) = Base(L) + ChunkSize /\ Base(L) \in Nat
    BY <1>2, BaseFacts
  <2>3. QED BY <1>2, <2>1, <2>2
<1>6. Content' = Append(Content, t)
  <2>1. /\ Len(chain') >= Len(chain)
        /\ \A q \in 1..Len(chain) :
             /\ chain'[q] = chain[q]
             /\ size'[chain[q]] >= size[chain[q]]
             /\ \A p \in 0..size[chain[q]] - 1 : ar'[chain[q]][p] = ar[chain[q]][p]
    BY <1>2, <1>3, <1>4 DEF L
  <2>2. /\ size'[chain'[Len(chain')]] > 0
        /\ ar'[chain'[Len(chain')]][size'[chain'[Len(chain')]] - 1] = t
    BY <1>3, <1>4
  <2>3. QED BY <1>5, <2>1, <2>2, ContentPushed
<1>7. ASSUME NEW d \in Elems(chain) PROVE IndexIn(chain', d) = IndexIn(chain, d)
  <2> DEFINE i == IndexIn(chain, d)
  <2>1. i \in 1..L /\ chain'[i] = d
    BY <1>2, <1>3
  <2>2. chain' \in Seq(Chunk) /\ Distinct(chain')
    BY DEF IInv, TypeOK, ChunksNotShared
  <2>3. i \in 1..Len(chain')
    BY <1>2, <1>3, <2>1
  <2>4. IndexIn(chain', chain'[i]) = i
    BY <2>2, <2>3, IndexOfElement
  <2>5. QED BY <2>1, <2>4
<1>8. MarkOffsets' = MarkOffsets /\ ReaderMap' = ReaderMap
  BY <1>1, <1>7, SameOffsets
<1>9. QED BY <1>6, <1>8 DEF Seqs!Push, MarkOffsets

LEMMA PushRefines ==
  ASSUME IInv, IInv', NEW t \in Tag, Push(t)
  PROVE  Seqs!Push(t)
<1>1. CASE PushInCurrent(t)
  BY <1>1, PushInCurrentRefines
<1>2. CASE PushReusing(t)
  <2>1. freelist \in Seq(Chunk) /\ freelist # <<>> /\ Elems(chain) \cap Elems(freelist) = {}
    BY <1>2 DEF PushReusing, IInv, TypeOK, ChunksNotShared
  <2>2. 1 \in 1..Len(freelist) /\ DOMAIN freelist = 1..Len(freelist)
    BY <2>1, EmptySeq, LenProperties
  <2>3. freelist[1] \in Chunk \ Elems(chain)
    BY <2>1, <2>2, ElementOfSeq DEF Elems
  <2>4. QED BY <1>2, <2>3, LinkChunkRefines DEF PushReusing
<1>3. CASE PushAllocating(t)
  BY <1>3, LinkChunkRefines DEF PushAllocating
<1>4. QED BY <1>1, <1>2, <1>3 DEF Push

(* What the steps do to the marks. *)
LEMMA SeqOfFunction ==
  ASSUME NEW S, NEW n \in Nat, NEW f \in [1..n -> S]
  PROVE  f \in Seq(S) /\ Len(f) = n
<1>1. f \in Seq(S)
  <2>1. f \in UNION {[1..k -> S] : k \in Nat}
    OBVIOUS
  <2>2. QED BY <2>1, SeqDef
<1>2. DOMAIN f = 1..n /\ DOMAIN f = 1..Len(f) /\ Len(f) \in Nat
  BY <1>1, LenProperties
<1>3. QED BY <1>1, <1>2, SameInterval

LEMMA SameContent ==
  ASSUME chain' = chain, size' = size, ar' = ar
  PROVE  /\ Content' = Content /\ Length' = Length
         /\ \A d \in Elems(chain) : IndexIn(chain', d) = IndexIn(chain, d)
  BY DEF Content, Length, Current

(* The marks after a step in which the chunks of the first n keep their place. *)
LEMMA OffsetsKept ==
  ASSUME NEW n \in Nat, n \in 0..Len(marks), DOMAIN marks = 1..Len(marks),
         Len(marks) \in Nat, 1..n \subseteq DOMAIN marks',
         \A k \in 1..n : /\ marks'[k] = marks[k]
                         /\ IndexIn(chain', marks[k].chunk) = IndexIn(chain, marks[k].chunk)
  PROVE  \A k \in 1..n : MarkOffsets'[k] = MarkOffsets[k]
<1>1. SUFFICES ASSUME NEW k \in 1..n PROVE MarkOffsets'[k] = MarkOffsets[k]
  OBVIOUS
<1>2. k \in DOMAIN marks /\ k \in DOMAIN marks'
  OBVIOUS
<1>3. MarkOffsets[k] = (IndexIn(chain, marks[k].chunk) - 1) * ChunkSize + marks[k].pos
  BY <1>2 DEF MarkOffsets, OffsetOf, IndexOf
<1>4. MarkOffsets'[k] = (IndexIn(chain', marks'[k].chunk) - 1) * ChunkSize + marks'[k].pos
  BY <1>2 DEF MarkOffsets, OffsetOf, IndexOf
<1>5. QED BY <1>3, <1>4

OffsetsTyped == /\ MarkOffsets \in Seq(Nat) /\ Len(MarkOffsets) = Len(marks)
                /\ Len(marks) \in Nat

LEMMA NextOffsetsTyped == IInv' => OffsetsTyped'
<1>1. IInv => OffsetsTyped
  BY MarkOffsetFacts DEF OffsetsTyped
<1>2. QED BY <1>1, PTL

LEMMA EnterRefines ==
  ASSUME IInv, IInv', Enter
  PROVE  Seqs!Enter
<1> DEFINE n == Len(marks)
<1>1. /\ chain' = chain /\ size' = size /\ ar' = ar /\ reader' = reader
      /\ marks' = Append(marks, IterEnd) /\ Len(marks) < MaxFrames
  BY DEF Enter
<1>2. Content' = Content /\ ReaderMap' = ReaderMap
  <2>1. /\ Content' = Content
        /\ \A d \in Elems(chain) : IndexIn(chain', d) = IndexIn(chain, d)
    BY <1>1, SameContent
  <2>2. reader # NULL /\ ~reader.eof => reader.chunk \in Elems(chain)
    BY DEF IInv, ReaderLive
  <2>3. QED BY <1>1, <2>1, <2>2 DEF ReaderMap, OffsetOf, IndexOf
<1>3. marks \in Seq(Position) /\ n \in Nat /\ DOMAIN marks = 1..n
  BY MarkFacts DEF IInv, TypeOK
<1>4. /\ Current \in Elems(chain) /\ size[Current] \in 0..ChunkSize /\ Current \in Chunk
      /\ IndexOf(Current) = Len(chain)
  BY ChainFacts DEF IInv, TypeOK
<1>5. IterEnd \in Position /\ IterEnd.chunk = Current /\ IterEnd.pos = size[Current]
  BY <1>4 DEF IterEnd, EofOf, Position
<1>6. /\ DOMAIN marks' = 1..(n + 1) /\ Len(marks') = n + 1
      /\ \A k \in 1..n : marks'[k] = marks[k]
      /\ marks'[n + 1] = IterEnd
  BY <1>1, <1>3, <1>5, AppendProperties, LenProperties
<1>7. /\ MarkOffsets \in Seq(Nat) /\ Len(MarkOffsets) = n
      /\ Length \in Nat /\ Len(Content) = Length
  BY MarkOffsetFacts, ContentFacts DEF Numbered
<1>8. MarkOffsets' \in Seq(Nat) /\ Len(MarkOffsets') = n + 1
  BY <1>6, NextOffsetsTyped DEF OffsetsTyped
<1> HIDE DEF n
<1>9. \A k \in 1..n : MarkOffsets'[k] = MarkOffsets[k]
  BY <1>1, <1>3, <1>6, OffsetsKept DEF n
<1>10. MarkOffsets'[n + 1] = Length
  <2>1. MarkOffsets'[n + 1] = (IndexIn(chain', marks'[n + 1].chunk) - 1) * ChunkSize + marks'[n + 1].pos
    BY <1>3, <1>6 DEF MarkOffsets, OffsetOf, IndexOf
  <2>2. QED BY <1>1, <1>4, <1>5, <1>6, <2>1 DEF Length, IndexOf
<1>11. MarkOffsets' = Append(MarkOffsets, Len(Content))
  <2> DEFINE longer == Append(MarkOffsets, Length)
  <2>1. /\ longer \in Seq(Nat) /\ Len(longer) = n + 1
        /\ \A k \in 1..n : longer[k] = MarkOffsets[k]
        /\ longer[n + 1] = Length
    BY <1>7, AppendProperties
  <2> HIDE DEF longer
  <2>2. \A k \in 1..(n + 1) : MarkOffsets'[k] = longer[k]
    BY <1>3, <1>9, <1>10, <2>1 DEF n
  <2>3. MarkOffsets' = longer
    BY <1>8, <2>1, <2>2, SeqEqual
  <2>4. QED BY <1>7, <2>3 DEF longer
<1>12. Len(MarkOffsets) < MaxFrames
  BY <1>1, <1>7 DEF n
<1>13. QED BY <1>2, <1>11, <1>12 DEF Seqs!Enter, MarkOffsets

(* A mark taken off. *)
LEMMA MarkOffsetsPopped ==
  ASSUME IInv, IInv', marks # <<>>, marks' = SubSeq(marks, 1, Len(marks) - 1),
         \A k \in 1..Len(marks) - 1 :
            IndexIn(chain', marks[k].chunk) = IndexIn(chain, marks[k].chunk)
  PROVE  /\ MarkOffsets' = SubSeq(MarkOffsets, 1, Len(MarkOffsets) - 1)
         /\ MarkOffsets # <<>>
         /\ MarkOffsets[Len(MarkOffsets)] = OffsetOf(Innermost)
<1> DEFINE n == Len(marks)
<1>1. /\ n \in Nat \ {0} /\ DOMAIN marks' = 1..(n - 1) /\ DOMAIN marks = 1..n
      /\ \A k \in DOMAIN marks' : marks'[k] = marks[k]
      /\ marks' \in Seq(Position)
  BY PopMark, MarkFacts
<1>2. /\ MarkOffsets \in Seq(Nat) /\ Len(MarkOffsets) = n
      /\ \A k \in 1..n : MarkOffsets[k] = OffsetOf(marks[k]) /\ MarkOffsets[k] \in Nat
  <2>1. Length \in Nat
    BY ContentFacts DEF Numbered
  <2>2. QED BY <2>1, MarkOffsetFacts
<1>3. MarkOffsets' \in Seq(Nat) /\ Len(MarkOffsets') = n - 1
  <2>1. DOMAIN marks' = 1..Len(marks') /\ Len(marks') \in Nat
    BY <1>1, LenProperties
  <2>2. Len(marks') = n - 1
    BY <1>1, <2>1, SameInterval
  <2>3. QED BY <2>2, NextOffsetsTyped DEF OffsetsTyped
<1>4. \A k \in 1..(n - 1) : MarkOffsets'[k] = MarkOffsets[k]
  <2>1. n - 1 \in Nat /\ n - 1 \in 0..Len(marks)
    BY <1>1
  <2>2. \A k \in 1..(n - 1) : marks'[k] = marks[k]
    BY <1>1
  <2>3. 1..(n - 1) \subseteq DOMAIN marks'
    BY <1>1
  <2>4. QED BY <1>1, <2>1, <2>2, <2>3, OffsetsKept
<1> HIDE DEF n
<1>5. MarkOffsets' = SubSeq(MarkOffsets, 1, n - 1)
  <2> DEFINE shorter == SubSeq(MarkOffsets, 1, n - 1)
  <2>1. \A k \in 1..(n - 1) : MarkOffsets[k] \in Nat
    BY <1>1, <1>2
  <2>2. /\ shorter \in Seq(Nat)
        /\ Len(shorter) = IF 1 <= n - 1 THEN (n - 1) - 1 + 1 ELSE 0
        /\ \A k \in 1..((n - 1) - 1 + 1) : shorter[k] = MarkOffsets[1 + k - 1]
    BY <1>1, <2>1, SubSeqProperties
  <2> HIDE DEF shorter
  <2>3. Len(shorter) = n - 1
    BY <1>1, <2>2
  <2>4. \A k \in 1..(n - 1) : shorter[k] = MarkOffsets[k]
    BY <1>1, <2>2
  <2>5. MarkOffsets' = shorter
    BY <1>3, <1>4, <2>2, <2>3, <2>4, SeqEqual
  <2>6. QED BY <2>5 DEF shorter
<1>6. MarkOffsets # <<>> /\ MarkOffsets[n] = OffsetOf(Innermost)
  BY <1>1, <1>2, EmptySeq DEF Innermost, n
<1>7. QED BY <1>2, <1>5, <1>6

LEMMA LeaveRefines ==
  ASSUME IInv, IInv', Leave
  PROVE  Seqs!Leave
<1>1. /\ chain' = chain /\ size' = size /\ ar' = ar /\ reader' = reader
      /\ marks # <<>> /\ marks' = SubSeq(marks, 1, Len(marks) - 1)
  BY DEF Leave
<1>2. Content' = Content
  BY <1>1, SameContent
<1>3. ReaderMap' = ReaderMap
  BY <1>1 DEF ReaderMap, OffsetOf, IndexOf
<1>4. MarkOffsets' = SubSeq(MarkOffsets, 1, Len(MarkOffsets) - 1) /\ MarkOffsets # <<>>
  BY <1>1, MarkOffsetsPopped
<1>5. QED BY <1>2, <1>3, <1>4 DEF Seqs!Leave, MarkOffsets

(* Positions compare as the lengths they stand for. *)
LEMMA BeforeIsLess ==
  ASSUME IInv, NEW it, it.chunk \in Elems(chain), it.pos \in 0..size[it.chunk] - 1,
               NEW jt, jt.chunk \in Elems(chain), jt.pos \in 0..size[jt.chunk]
  PROVE  Before(it, jt) <=> OffsetOf(it) < OffsetOf(jt)
<1> DEFINE q == IndexOf(it.chunk)
           r == IndexOf(jt.chunk)
<1>1. /\ q \in Nat \ {0} /\ r \in Nat \ {0} /\ chain[q] = it.chunk /\ chain[r] = jt.chunk
      /\ it.chunk \in Chunk /\ jt.chunk \in Chunk
  BY ChainFacts
<1>2. ChunkSize \in Nat \ {0} /\ size[it.chunk] \in 0..ChunkSize /\ size[jt.chunk] \in 0..ChunkSize
  BY <1>1, ConstantsAssumption DEF IInv, TypeOK
<1>3. OffsetOf(it) = Base(q) + it.pos /\ OffsetOf(jt) = Base(r) + jt.pos
  BY DEF OffsetOf, Base
<1>4. Before(it, jt) <=> q < r \/ (q = r /\ it.pos < jt.pos)
  BY <1>1 DEF Before
<1> HIDE DEF q, r
<1>5. Base(q) \in Nat /\ Base(r) \in Nat
  BY <1>1, BaseFacts
<1>6. CASE q < r
  <2>1. Base(q) + ChunkSize <= Base(r)
    BY <1>1, <1>6, BaseFacts
  <2>2. QED BY <1>2, <1>3, <1>4, <1>5, <1>6, <2>1
<1>7. CASE q = r
  BY <1>1, <1>2, <1>3, <1>4, <1>5, <1>7
<1>8. CASE r < q
  <2>1. Base(r) + ChunkSize <= Base(q)
    BY <1>1, <1>8, BaseFacts
  <2>2. QED BY <1>1, <1>2, <1>3, <1>4, <1>5, <1>8, <2>1
<1>9. QED BY <1>1, <1>6, <1>7, <1>8

(* What release_tail leaves. *)
LEMMA ContentReleased ==
  ASSUME IInv, IInv', NEW i \in 1..Len(chain), NEW pos \in 0..size[chain[i]],
         ar' = ar, chain' = SubSeq(chain, 1, i),
         size' = [size EXCEPT ![chain[i]] = pos]
  PROVE  /\ Content' = SubSeq(Content, 1, Base(i) + pos)
         /\ \A d \in Elems(chain) : IndexIn(chain, d) <= i =>
                IndexIn(chain', d) = IndexIn(chain, d)
<1> DEFINE off == Base(i) + pos
<1>1. /\ chain \in Seq(Chunk) /\ Distinct(chain) /\ Len(chain) \in Nat
      /\ \A q \in 1..Len(chain) : chain[q] \in Chunk
      /\ \A d \in Elems(chain) : /\ IndexIn(chain, d) \in 1..Len(chain)
                                 /\ chain[IndexIn(chain, d)] = d
  BY ChainFacts DEF IInv, TypeOK, ChunksNotShared, IndexOf
<1>2. /\ Len(chain') = i /\ \A q \in 1..i : chain'[q] = chain[q]
  BY <1>1, CutDistinct
<1>3. /\ chain[i] \in Chunk /\ size \in [Chunk -> 0..ChunkSize] /\ ChunkSize \in Nat \ {0}
      /\ size[chain[i]] \in 0..ChunkSize
  BY <1>1, ConstantsAssumption DEF IInv, TypeOK
<1>4. /\ size'[chain[i]] = pos /\ pos \in Nat
      /\ \A q \in 1..i : size'[chain[q]] <= size[chain[q]] /\ size'[chain[q]] \in Nat
                        /\ size[chain[q]] \in Nat
  BY <1>1, <1>3
<1>5. \A d \in Elems(chain) : IndexIn(chain, d) <= i => IndexIn(chain', d) = IndexIn(chain, d)
  <2>1. SUFFICES ASSUME NEW d \in Elems(chain), IndexIn(chain, d) <= i
                 PROVE  IndexIn(chain', d) = IndexIn(chain, d)
    OBVIOUS
  <2> DEFINE k == IndexIn(chain, d)
  <2>2. k \in 1..i /\ chain'[k] = d
    BY <1>1, <1>2, <2>1
  <2>3. chain' \in Seq(Chunk) /\ Distinct(chain')
    BY DEF IInv, TypeOK, ChunksNotShared
  <2> HIDE DEF k
  <2>4. IndexIn(chain', chain'[k]) = k
    BY <1>2, <2>2, <2>3, IndexOfElement
  <2>5. QED BY <2>2, <2>4 DEF k
<1>6. off \in Nat /\ Length' = off
  <2>1. i \in Nat \ {0}
    BY <1>1
  <2>2. Base(i) \in Nat
    BY <2>1, BaseFacts
  <2>3. Length' = Base(Len(chain')) + size'[chain'[Len(chain')]]
    BY DEF Length, Base, Current
  <2>4. QED BY <1>2, <1>4, <2>1, <2>2, <2>3
<1>7. /\ Content \in Seq(Tag) /\ Len(Content) = Length /\ Length \in Nat
      /\ \A q \in 1..Len(chain) : \A p \in 0..size[chain[q]] - 1 :
            /\ Base(q) + p + 1 \in 1..Length
            /\ Content[Base(q) + p + 1] = ar[chain[q]][p]
  BY ContentFacts DEF Numbered
<1>8. /\ Content' \in Seq(Tag) /\ Len(Content') = Length'
      /\ \A q \in 1..Len(chain') : \A p \in 0..size'[chain'[q]] - 1 :
            Content'[Base(q) + p + 1] = ar'[chain'[q]][p]
      /\ \A j \in 1..Length' : \E q \in 1..Len(chain') : \E p \in 0..size'[chain'[q]] - 1 :
            j = Base(q) + p + 1
  BY NextContentFacts DEF Numbered
<1> HIDE DEF off
<1>9. ASSUME NEW j \in 1..off
      PROVE  Content'[j] = Content[j] /\ j \in 1..Length
  <2>1. PICK q \in 1..i : \E p \in 0..size'[chain'[q]] - 1 : j = Base(q) + p + 1
    BY <1>2, <1>6, <1>8
  <2>2. PICK p \in 0..size'[chain'[q]] - 1 : j = Base(q) + p + 1
    BY <2>1
  <2>3. Content'[j] = ar'[chain'[q]][p]
    BY <1>2, <1>8, <2>2
  <2>4. chain'[q] = chain[q] /\ q \in 1..Len(chain)
    BY <1>1, <1>2
  <2>5. p \in 0..size[chain[q]] - 1
    BY <1>4, <2>4
  <2>6. Content[j] = ar[chain[q]][p] /\ j \in 1..Length
    BY <1>7, <2>2, <2>4, <2>5
  <2>7. QED BY <2>3, <2>4, <2>6
<1>10. Content' = SubSeq(Content, 1, off)
  <2> DEFINE cut == SubSeq(Content, 1, off)
  <2>1. \A j \in 1..off : Content[j] \in Tag
    BY <1>7, <1>9, ElementOfSeq
  <2>2. /\ cut \in Seq(Tag)
        /\ Len(cut) = IF 1 <= off THEN off - 1 + 1 ELSE 0
        /\ \A k \in 1..(off - 1 + 1) : cut[k] = Content[1 + k - 1]
    BY <1>6, <1>7, <2>1, SubSeqProperties
  <2> HIDE DEF cut
  <2>3. Len(cut) = off /\ \A k \in 1..off : cut[k] = Content[k]
    BY <1>6, <2>2
  <2>4. Content' = cut
    BY <1>6, <1>8, <1>9, <2>2, <2>3, SeqEqual
  <2>5. QED BY <2>4 DEF cut
<1>11. QED BY <1>5, <1>10 DEF off

LEMMA RestartRefines ==
  ASSUME IInv, IInv', Restart
  PROVE  Seqs!Restart
<1> DEFINE m == Innermost
           i == IndexOf(m.chunk)
           off == OffsetOf(m)
<1>1. /\ marks # <<>> /\ marks' = SubSeq(marks, 1, Len(marks) - 1)
      /\ chain' = SubSeq(chain, 1, i) /\ ar' = ar
      /\ size' = [size EXCEPT ![m.chunk] = m.pos]
      /\ Before(m, IterEnd)
      /\ reader' = IF reader # NULL /\ ~reader.eof /\ Before(reader, m)
                   THEN reader ELSE NULL
  BY DEF Restart, ReleaseTail
<1>2. /\ Len(marks) \in DOMAIN marks /\ Len(marks) \in Nat \ {0}
      /\ \A k \in 1..Len(marks) - 1 : k \in DOMAIN marks
      /\ m.chunk \in Elems(chain) /\ m.pos \in 0..size[m.chunk]
  <2>1. Len(marks) \in DOMAIN marks /\ Len(marks) \in Nat \ {0} /\ DOMAIN marks = 1..Len(marks)
    BY <1>1, PopMark, MarkFacts
  <2>2. m = marks[Len(marks)]
    BY DEF Innermost
  <2>3. m.chunk \in Elems(chain) /\ m.pos \in 0..ChunkSize /\ m.pos <= size[m.chunk]
    BY <2>1, <2>2, MarkFacts
  <2>4. size[m.chunk] \in 0..ChunkSize
    BY <2>3, ChainFacts DEF IInv, TypeOK
  <2>5. QED BY <2>1, <2>3, <2>4
<1>3. /\ i \in 1..Len(chain) /\ chain[i] = m.chunk /\ i = IndexIn(chain, m.chunk)
      /\ off = Base(i) + m.pos /\ off \in 0..Length
      /\ (m.chunk # Current \/ m.pos < size[m.chunk]) <=> off < Length
  <2> HIDE DEF m
  <2>1. /\ i \in 1..Len(chain) /\ off = Base(i) + m.pos /\ off \in 0..Length
        /\ (m.chunk # Current \/ m.pos < size[m.chunk]) <=> off < Length
    BY <1>2, OffsetFacts
  <2>2. chain[i] = m.chunk
    BY <1>2, ChainFacts
  <2>3. QED BY <2>1, <2>2 DEF IndexOf
<1> HIDE DEF m
<1>4. /\ Content' = SubSeq(Content, 1, off)
      /\ \A d \in Elems(chain) : IndexIn(chain, d) <= i => IndexIn(chain', d) = IndexIn(chain, d)
  <2> HIDE DEF i, off
  <2>1. size' = [size EXCEPT ![chain[i]] = m.pos] /\ m.pos \in 0..size[chain[i]]
    BY <1>1, <1>2, <1>3
  <2>2. /\ Content' = SubSeq(Content, 1, Base(i) + m.pos)
        /\ \A d \in Elems(chain) : IndexIn(chain, d) <= i => IndexIn(chain', d) = IndexIn(chain, d)
    BY <1>1, <1>3, <2>1, ContentReleased
  <2>3. QED BY <1>3, <2>2
<1>5. off < Len(Content)
  <2>1. /\ IterEnd.chunk = Current /\ IterEnd.pos = size[Current]
        /\ IndexOf(Current) = Len(chain)
    BY ChainFacts DEF IterEnd, EofOf
  <2>2. \/ i < Len(chain)
        \/ m.chunk = Current /\ m.pos < size[Current]
    BY <1>1, <2>1 DEF Before
  <2>3. m.chunk # Current \/ m.pos < size[m.chunk]
    <3>1. i < Len(chain) => m.chunk # Current
      BY <1>3, <2>1, ChainFacts
    <3>2. QED BY <2>2, <3>1
  <2>4. Len(Content) = Length
    BY ContentFacts DEF Numbered
  <2>5. QED BY <1>3, <2>3, <2>4
<1>6. \A k \in 1..Len(marks) - 1 :
        IndexIn(chain', marks[k].chunk) = IndexIn(chain, marks[k].chunk)
  <2>1. TAKE k \in 1..Len(marks) - 1
  <2>2. k \in DOMAIN marks /\ k < Len(marks)
    BY <1>2
  <2>3. ~Before(m, marks[k])
    BY <1>2, <2>2 DEF IInv, MarksLive, m, Innermost
  <2>4. marks[k].chunk \in Elems(chain)
    BY <2>2, MarkFacts
  <2>5. IndexIn(chain, marks[k].chunk) \in 1..Len(chain)
    BY <2>4, ChainFacts DEF IndexOf
  <2>6. ~(i < IndexIn(chain, marks[k].chunk))
    BY <2>3 DEF Before, IndexOf
  <2>7. IndexIn(chain, marks[k].chunk) <= i
    BY <1>3, <2>5, <2>6, ChainFacts
  <2>8. QED BY <1>4, <2>4, <2>7
<1>7. /\ MarkOffsets' = SubSeq(MarkOffsets, 1, Len(MarkOffsets) - 1)
      /\ MarkOffsets # <<>>
      /\ MarkOffsets[Len(MarkOffsets)] = off
  BY <1>1, <1>6, MarkOffsetsPopped DEF m
<1>8. ReaderMap' = IF ReaderMap.at = "node" /\ ReaderMap.idx <= off
                   THEN ReaderMap ELSE Seqs!NoReader
  <2>1. CASE reader = NULL \/ reader.eof
    <3>1. reader' = NULL
      BY <1>1, <2>1
    <3>2. ReaderMap.at # "node"
      BY <2>1 DEF ReaderMap
    <3>3. QED BY <3>1, <3>2 DEF ReaderMap, Seqs!NoReader
  <2>2. CASE reader # NULL /\ ~reader.eof
    <3>1. reader.chunk \in Elems(chain) /\ reader.pos \in 0..size[reader.chunk] - 1
      <4>1. /\ reader.chunk \in Elems(chain) /\ reader.pos < size[reader.chunk]
            /\ reader.pos \in 0..ChunkSize
        BY <2>2 DEF IInv, ReaderLive, TypeOK, Position
      <4>2. size[reader.chunk] \in 0..ChunkSize /\ ChunkSize \in Nat
        BY <4>1, ChainFacts, ConstantsAssumption DEF IInv, TypeOK
      <4>3. QED BY <4>1, <4>2
    <3>2. Before(reader, m) <=> OffsetOf(reader) < off
      BY <1>2, <3>1, BeforeIsLess
    <3>3. ReaderMap.at = "node" /\ ReaderMap.idx = OffsetOf(reader) + 1
      BY <2>2 DEF ReaderMap
    <3>4. OffsetOf(reader) \in Nat /\ off \in Nat
      <4>1. /\ IndexOf(reader.chunk) \in Nat \ {0} /\ reader.pos \in Nat
            /\ OffsetOf(reader) = Base(IndexOf(reader.chunk)) + reader.pos
        BY <3>1, ChainFacts DEF OffsetOf, Base
      <4>2. Base(IndexOf(reader.chunk)) \in Nat
        BY <4>1, BaseFacts
      <4>3. Length \in Nat
        BY ContentFacts DEF Numbered
      <4>4. QED BY <1>3, <4>1, <4>2, <4>3
    <3>5. Before(reader, m) <=> ReaderMap.idx <= off
      <4> HIDE DEF off
      <4>1. QED BY <3>2, <3>3, <3>4
    <3>6. CASE Before(reader, m)
      <4>1. reader' = reader
        BY <1>1, <2>2, <3>6
      <4>2. IndexIn(chain, reader.chunk) <= i
        <5>1. \/ IndexOf(reader.chunk) < i
              \/ reader.chunk = m.chunk
          BY <3>6 DEF Before
        <5>2. IndexOf(reader.chunk) \in 1..Len(chain) /\ Len(chain) \in Nat
          BY <3>1, ChainFacts
        <5>3. QED BY <1>3, <5>1, <5>2 DEF IndexOf
      <4>3. IndexIn(chain', reader.chunk) = IndexIn(chain, reader.chunk)
        BY <1>4, <3>1, <4>2
      <4>4. ReaderMap' = ReaderMap
        BY <4>1, <4>3 DEF ReaderMap, OffsetOf, IndexOf
      <4>5. QED BY <3>3, <3>5, <3>6, <4>4
    <3>7. CASE ~Before(reader, m)
      <4>1. reader' = NULL
        BY <1>1, <3>7
      <4>2. ReaderMap' = Seqs!NoReader
        BY <4>1 DEF ReaderMap, Seqs!NoReader
      <4>3. QED BY <3>3, <3>5, <3>7, <4>2
    <3>8. QED BY <3>6, <3>7
  <2>3. QED BY <2>1, <2>2
<1> HIDE DEF off, i
<1>9. QED BY <1>4, <1>5, <1>7, <1>8 DEF Seqs!Restart, MarkOffsets

(* A reader set to the p-th node of a chunk is at the node of that number, one at *)
(* eof at none.                                                                    *)
LEMMA ReaderSet ==
  ASSUME IInv, chain' = chain, NEW c \in Elems(chain)
  PROVE  /\ IndexOf(c) \in Nat \ {0} /\ Base(IndexOf(c)) \in Nat
         /\ reader' = EofOf(c) => ReaderMap' = Seqs!AtEof
         /\ \A p \in 0..size[c] - 1 : reader' = At(c, p) =>
               /\ Base(IndexOf(c)) + p + 1 \in 1..Len(Content)
               /\ ReaderMap' = [at |-> "node", idx |-> Base(IndexOf(c)) + p + 1]
<1>1. /\ IndexOf(c) \in Nat \ {0} /\ IndexOf(c) \in 1..Len(chain) /\ c \in Chunk
      /\ chain[IndexOf(c)] = c
  BY ChainFacts
<1>2. /\ size \in [Chunk -> 0..ChunkSize] /\ ChunkSize \in Nat \ {0}
      /\ ar \in [Chunk -> [0..ChunkSize-1 -> Tag \cup {Garbage}]]
  BY ConstantsAssumption DEF IInv, TypeOK
<1>3. Base(IndexOf(c)) \in Nat
  BY <1>1, BaseFacts
<1>4. ASSUME reader' = EofOf(c) PROVE ReaderMap' = Seqs!AtEof
  <2>1. EofOf(c) \in Position /\ EofOf(c).eof
    BY <1>1, <1>2 DEF EofOf, Position
  <2>2. reader' # NULL /\ reader'.eof
    BY <1>4, <2>1, NullAssumption
  <2>3. QED BY <2>2 DEF ReaderMap, Seqs!AtEof
<1>5. ASSUME NEW p \in 0..size[c] - 1, reader' = At(c, p)
      PROVE  /\ Base(IndexOf(c)) + p + 1 \in 1..Len(Content)
             /\ ReaderMap' = [at |-> "node", idx |-> Base(IndexOf(c)) + p + 1]
  <2>1. At(c, p) \in Position /\ ~At(c, p).eof /\ At(c, p).chunk = c /\ At(c, p).pos = p
    BY <1>1, <1>2 DEF At, Position
  <2>2. reader' # NULL /\ ~reader'.eof /\ reader'.chunk = c /\ reader'.pos = p
    BY <1>5, <2>1, NullAssumption
  <2>3. OffsetOf(reader)' = Base(IndexOf(c)) + p
    BY <2>2 DEF OffsetOf, IndexOf, Base
  <2>4. Base(IndexOf(c)) + p + 1 \in 1..Len(Content)
    BY <1>1, ContentFacts DEF Numbered
  <2>5. QED BY <2>2, <2>3, <2>4 DEF ReaderMap
<1>6. QED BY <1>1, <1>3, <1>4, <1>5

LEMMA OpenRefines ==
  ASSUME IInv, Open
  PROVE  Seqs!Open
<1>1. /\ chain' = chain /\ size' = size /\ ar' = ar /\ marks' = marks /\ reader' = IterFirst
  BY DEF Open, writer
<1>2. Content' = Content /\ MarkOffsets' = MarkOffsets
  BY <1>1, SameContent DEF MarkOffsets, OffsetOf, IndexOf
<1>3. /\ HeadChunk \in Elems(chain) /\ Len(chain) \in Nat \ {0} /\ chain[1] = HeadChunk
      /\ IndexOf(HeadChunk) = 1 /\ size[HeadChunk] \in 0..ChunkSize /\ ChunkSize \in Nat \ {0}
  <2>1. Len(chain) \in Nat \ {0} /\ chain[1] = HeadChunk /\ HeadChunk \in Elems(chain)
    BY ChainFacts DEF IInv, TypeOK
  <2>2. 1 \in 1..Len(chain)
    BY <2>1
  <2>3. IndexOf(HeadChunk) = 1
    BY <2>1, <2>2, ChainFacts
  <2>4. QED BY <2>1, <2>3, ConstantsAssumption DEF IInv, TypeOK
<1>4. Base(1) = 0
  BY BaseFacts
<1>5. CASE size[HeadChunk] = 0
  <2>1. ReaderMap' = Seqs!AtEof
    BY <1>1, <1>3, <1>5, ReaderSet DEF IterFirst
  <2>2. HeadChunk = Current /\ Len(chain) = 1
    <3>1. HeadChunk = Current
      BY <1>3, <1>5, ChainFacts
    <3>2. QED BY <1>3, <3>1, ChainFacts
  <2>3. Len(Content) = 0
    <3>1. Length = 0
      BY <1>4, <1>5, <2>2 DEF Length, Base
    <3>2. QED BY <3>1, ContentFacts DEF Numbered
  <2>4. Seqs!AtNode(1) = Seqs!AtEof
    BY <2>3 DEF Seqs!AtNode
  <2>5. QED BY <1>2, <2>1, <2>4 DEF Seqs!Open, MarkOffsets
<1>6. CASE size[HeadChunk] # 0
  <2>1. reader' = At(HeadChunk, 0) /\ 0 \in 0..size[HeadChunk] - 1
    BY <1>1, <1>3, <1>6 DEF IterFirst
  <2>2. /\ Base(IndexOf(HeadChunk)) + 0 + 1 \in 1..Len(Content)
        /\ ReaderMap' = [at |-> "node", idx |-> Base(IndexOf(HeadChunk)) + 0 + 1]
    BY <1>1, <1>3, <2>1, ReaderSet
  <2>3. Base(IndexOf(HeadChunk)) + 0 + 1 = 1
    BY <1>3, <1>4
  <2>4. ReaderMap' = Seqs!AtNode(1)
    BY <2>2, <2>3 DEF Seqs!AtNode
  <2>5. QED BY <1>2, <2>4 DEF Seqs!Open, MarkOffsets
<1>7. QED BY <1>5, <1>6

LEMMA OpenLastRefines ==
  ASSUME IInv, OpenLast
  PROVE  Seqs!OpenLast
<1>1. /\ chain' = chain /\ size' = size /\ ar' = ar /\ marks' = marks /\ reader' = IterLast
  BY DEF OpenLast, writer
<1>2. Content' = Content /\ MarkOffsets' = MarkOffsets
  BY <1>1, SameContent DEF MarkOffsets, OffsetOf, IndexOf
<1>3. /\ Current \in Elems(chain) /\ Len(chain) \in Nat \ {0} /\ IndexOf(Current) = Len(chain)
      /\ size[Current] \in 0..ChunkSize /\ ChunkSize \in Nat \ {0}
      /\ Len(chain) > 1 => size[Current] > 0
  BY ChainFacts, ConstantsAssumption DEF IInv, TypeOK, ChainPacked
<1>4. Length = Base(IndexOf(Current)) + size[Current] /\ Len(Content) = Length
  BY <1>3, ContentFacts DEF Numbered, Length, Base
<1>5. CASE size[Current] = 0
  <2>1. ReaderMap' = Seqs!AtEof
    BY <1>1, <1>3, <1>5, ReaderSet DEF IterLast
  <2>2. Len(chain) = 1
    BY <1>3, <1>5
  <2>3. Len(Content) = 0
    BY <1>3, <1>4, <1>5, <2>2, BaseFacts
  <2>4. Seqs!AtNode(Len(Content)) = Seqs!AtEof
    BY <2>3 DEF Seqs!AtNode
  <2>5. QED BY <1>2, <2>1, <2>4 DEF Seqs!OpenLast, MarkOffsets
<1>6. CASE size[Current] # 0
  <2> DEFINE p == size[Current] - 1
  <2>1. reader' = At(Current, p) /\ p \in 0..size[Current] - 1
    BY <1>1, <1>3, <1>6 DEF IterLast
  <2> HIDE DEF p
  <2>2. /\ Base(IndexOf(Current)) \in Nat
        /\ Base(IndexOf(Current)) + p + 1 \in 1..Len(Content)
        /\ ReaderMap' = [at |-> "node", idx |-> Base(IndexOf(Current)) + p + 1]
    BY <1>1, <1>3, <2>1, ReaderSet
  <2>3. Base(IndexOf(Current)) + p + 1 = Len(Content)
    BY <1>3, <1>4, <2>2 DEF p
  <2>4. ReaderMap' = Seqs!AtNode(Len(Content))
    BY <2>2, <2>3 DEF Seqs!AtNode
  <2>5. QED BY <1>2, <2>4 DEF Seqs!OpenLast, MarkOffsets
<1>7. QED BY <1>5, <1>6

LEMMA SkipRefines ==
  ASSUME IInv, Skip
  PROVE  Seqs!Skip
<1> DEFINE c == reader.chunk
           q == IndexOf(c)
           p == reader.pos
<1>1. /\ chain' = chain /\ size' = size /\ ar' = ar /\ marks' = marks
      /\ reader' = IterSkip(reader) /\ reader # NULL /\ ~reader.eof
  BY DEF Skip, writer
<1>2. Content' = Content /\ MarkOffsets' = MarkOffsets
  BY <1>1, SameContent DEF MarkOffsets, OffsetOf, IndexOf
<1>3. /\ c \in Elems(chain) /\ p \in Nat /\ p < size[c] /\ size[c] \in 0..ChunkSize
      /\ ChunkSize \in Nat \ {0}
  <2>1. c \in Elems(chain) /\ p < size[c] /\ p \in 0..ChunkSize
    BY <1>1 DEF IInv, ReaderLive, TypeOK, Position
  <2>2. c \in Chunk
    BY <2>1, ChainFacts
  <2>3. size[c] \in 0..ChunkSize /\ ChunkSize \in Nat \ {0}
    BY <2>2, ConstantsAssumption DEF IInv, TypeOK
  <2>4. QED BY <2>1, <2>3
<1>4. q \in Nat \ {0} /\ q \in 1..Len(chain) /\ Base(q) \in Nat /\ Len(chain) \in Nat /\ chain[q] = c
  BY <1>1, <1>3, ReaderSet, ChainFacts
<1>5. ReaderMap.at = "node" /\ ReaderMap.idx = Base(q) + p + 1
  BY <1>1 DEF ReaderMap, OffsetOf, Base
<1>6. \/ c # Current /\ size[c] = ChunkSize /\ NextChunk(c) = chain[q + 1]
      \/ c = Current /\ NextChunk(c) = NULL /\ q = Len(chain)
  BY <1>3, ChainFacts DEF NextChunk
<1>7. ReaderMap' = Seqs!AtNode(Base(q) + p + 2)
  <2>1. CASE p + 1 < size[c]
    <3> DEFINE n == p + 1
    <3>1. reader' = At(c, n) /\ n \in 0..size[c] - 1
      BY <1>1, <1>3, <2>1 DEF IterSkip
    <3> HIDE DEF n, c
    <3>2. /\ Base(q) + n + 1 \in 1..Len(Content)
          /\ ReaderMap' = [at |-> "node", idx |-> Base(q) + n + 1]
      BY <1>1, <1>3, <3>1, ReaderSet
    <3>3. Base(q) + n + 1 = Base(q) + p + 2
      BY <1>3, <1>4 DEF n
    <3>4. QED BY <3>2, <3>3 DEF Seqs!AtNode
  <2>2. CASE ~(p + 1 < size[c]) /\ c # Current
    <3> DEFINE d == chain[q + 1]
    <3>1. q < Len(chain) /\ q + 1 \in 1..Len(chain)
      BY <1>4, <2>2 DEF Current
    <3>2. /\ d \in Elems(chain) /\ d \in Chunk /\ IndexOf(d) = q + 1
          /\ d # Current => size[d] = ChunkSize
      BY <3>1, ChainFacts
    <3>3. size[d] > 0 /\ size[d] \in 0..ChunkSize
      <4>1. size[d] \in 0..ChunkSize
        BY <3>2 DEF IInv, TypeOK
      <4>2. CASE d = Current
        <5>1. Len(chain) > 1
          BY <1>4, <3>1
        <5>2. QED BY <4>1, <4>2, <5>1 DEF IInv, ChainPacked
      <4>3. CASE d # Current
        BY <1>3, <3>2, <4>1, <4>3
      <4>4. QED BY <4>2, <4>3
    <3>4. NextChunk(c) = d /\ d # NULL /\ size[c] = ChunkSize
      BY <1>6, <2>2, <3>2, ConstantsAssumption
    <3>5. reader' = At(d, 0) /\ 0 \in 0..size[d] - 1
      BY <1>1, <2>2, <3>3, <3>4 DEF IterSkip
    <3> HIDE DEF d
    <3>6. /\ Base(q + 1) + 0 + 1 \in 1..Len(Content)
          /\ ReaderMap' = [at |-> "node", idx |-> Base(q + 1) + 0 + 1]
      BY <1>1, <3>2, <3>5, ReaderSet
    <3>7. Base(q + 1) + 0 + 1 = Base(q) + p + 2
      <4>1. Base(q + 1) = Base(q) + ChunkSize
        BY <1>4, BaseFacts
      <4>2. p + 1 = ChunkSize
        BY <1>3, <2>2, <3>4
      <4>3. QED BY <1>3, <1>4, <4>1, <4>2
    <3>8. QED BY <3>6, <3>7 DEF Seqs!AtNode
  <2>3. CASE ~(p + 1 < size[c]) /\ c = Current
    <3>1. reader' = EofOf(c)
      BY <1>1, <1>6, <2>3 DEF IterSkip
    <3>2. ReaderMap' = Seqs!AtEof
      BY <1>1, <1>3, <3>1, ReaderSet
    <3>3. p + 1 = size[c] /\ Length = Base(q) + size[c] /\ Len(Content) = Length
      <4>1. p + 1 = size[c]
        BY <1>3, <2>3
      <4>2. Length = Base(q) + size[c]
        BY <1>6, <2>3 DEF Length, Base
      <4>3. QED BY <4>1, <4>2, ContentFacts DEF Numbered
    <3>4. Base(q) + p + 2 \notin 1..Len(Content)
      BY <1>3, <1>4, <3>3
    <3>5. QED BY <3>2, <3>4 DEF Seqs!AtNode
  <2>4. QED BY <2>1, <2>2, <2>3
<1>8. ReaderMap.idx + 1 = Base(q) + p + 2
  BY <1>3, <1>4, <1>5
<1>9. QED BY <1>2, <1>5, <1>7, <1>8 DEF Seqs!Skip, MarkOffsets

LEMMA InitRefines ==
  ASSUME Init
  PROVE  Seqs!Init
<1>1. IInv
  BY InitIInv
<1>2. chain = <<HeadChunk>> /\ size[HeadChunk] = 0 /\ marks = <<>> /\ reader = NULL
  BY ConstantsAssumption DEF Init
<1>3. Content = <<>>
  <2>1. Current = HeadChunk /\ Length = (1 - 1) * ChunkSize + 0
    BY <1>2 DEF Current, Length
  <2>2. (1 - 1) * ChunkSize + 0 = 0
    BY ConstantsAssumption
  <2>3. Content \in Seq(Tag) /\ Len(Content) = 0
    BY <1>1, <2>1, <2>2, ContentFacts DEF Numbered
  <2>4. QED BY <2>3, EmptySeq
<1>4. MarkOffsets = <<>>
  <2>1. MarkOffsets \in Seq(Nat) /\ Len(MarkOffsets) = 0
    BY <1>1, <1>2, MarkOffsetFacts
  <2>2. QED BY <2>1, EmptySeq
<1>5. ReaderMap = Seqs!NoReader
  BY <1>2 DEF ReaderMap, Seqs!NoReader
<1>6. QED BY <1>3, <1>4, <1>5 DEF Seqs!Init, MarkOffsets

(* The chunk list with its freelist and the iterators over it behave as one         *)
(* sequence of nodes, grown at its end, cut back to marks and read from its first   *)
(* node to its last: papuga_Serialization_push, release_tail and the iterators.     *)
THEOREM SequenceImplemented == Spec => ImplementsSeq
<1>1. Init => Seqs!Init
  BY InitRefines
<1>2. IInv /\ IInv' /\ [Next]_vars => [Seqs!Next]_(Seqs!vars)
  <2>1. SUFFICES ASSUME IInv, IInv', [Next]_vars PROVE [Seqs!Next]_(Seqs!vars)
    OBVIOUS
  <2>2. ASSUME NEW t \in Tag, Push(t) PROVE Seqs!Next
    BY <2>1, <2>2, PushRefines DEF Seqs!Next
  <2>3. CASE Enter BY <2>1, <2>3, EnterRefines DEF Seqs!Next
  <2>4. CASE Leave BY <2>1, <2>4, LeaveRefines DEF Seqs!Next
  <2>5. CASE Restart BY <2>1, <2>5, RestartRefines DEF Seqs!Next
  <2>6. CASE Open BY <2>1, <2>6, OpenRefines DEF Seqs!Next
  <2>7. CASE OpenLast BY <2>1, <2>7, OpenLastRefines DEF Seqs!Next
  <2>8. CASE Skip BY <2>1, <2>8, SkipRefines DEF Seqs!Next
  <2>9. CASE UNCHANGED vars
    <3>1. chain' = chain /\ size' = size /\ ar' = ar /\ marks' = marks /\ reader' = reader
      BY <2>9 DEF vars
    <3>2. Content' = Content
      BY <3>1, SameContent
    <3>3. MarkOffsets' = MarkOffsets /\ ReaderMap' = ReaderMap
      BY <3>1 DEF MarkOffsets, ReaderMap, OffsetOf, IndexOf
    <3>4. QED BY <3>2, <3>3 DEF Seqs!vars, MarkOffsets
  <2>10. QED BY <2>1, <2>2, <2>3, <2>4, <2>5, <2>6, <2>7, <2>8, <2>9 DEF Next
<1>3. QED BY <1>1, <1>2, InductiveInvariant, PTL DEF Spec, ImplementsSeq, Seqs!Spec
=============================================================================
