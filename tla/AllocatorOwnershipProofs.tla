----------------------- MODULE AllocatorOwnershipProofs -----------------------
(* For every number of allocators, references and objects: an object has one     *)
(* owner while an allocator has to destroy it and none else, and the lists of     *)
(* references an allocator runs name what exists, completely and once.            *)
EXTENDS AllocatorOwnership, SequenceTheorems, FiniteSetTheorems, TLAPS

-----------------------------------------------------------------------------
(* Lists of references. *)
LEMMA PrependFacts ==
  ASSUME NEW s \in Seq(Reference), IsInjective(s), NEW e \in Reference, e \notin ToSet(s)
  PROVE  /\ <<e>> \o s \in Seq(Reference)
         /\ IsInjective(<<e>> \o s)
         /\ ToSet(<<e>> \o s) = {e} \cup ToSet(s)
<1> DEFINE t == <<e>> \o s
<1>1. /\ Len(s) \in Nat /\ DOMAIN s = 1..Len(s)
      /\ <<e>> \in Seq(Reference) /\ Len(<<e>>) = 1 /\ <<e>>[1] = e
  BY LenProperties
<1>2. /\ t \in Seq(Reference) /\ Len(t) = 1 + Len(s)
      /\ \A i \in 1..1 + Len(s) : t[i] = IF i <= 1 THEN <<e>>[i] ELSE s[i - 1]
  BY <1>1, ConcatProperties
<1>3. DOMAIN t = 1..Len(s)+1
  BY <1>1, <1>2, LenProperties
<1> HIDE DEF t
<1>4. t[1] = e /\ \A i \in 1..Len(s) : t[i+1] = s[i]
  BY <1>1, <1>2
<1>5. \A i \in DOMAIN t : i = 1 \/ (i - 1 \in 1..Len(s) /\ t[i] = s[i-1])
  BY <1>1, <1>2, <1>3
<1>6. \A i \in DOMAIN s : s[i] # e
  BY DEF ToSet
<1>7. IsInjective(t)
  BY <1>1, <1>3, <1>4, <1>5, <1>6 DEF IsInjective
<1>8. ToSet(t) = {e} \cup ToSet(s)
  <2>1. \A x \in ToSet(t) : x = e \/ x \in ToSet(s)
    BY <1>1, <1>3, <1>4, <1>5 DEF ToSet
  <2>2. \A x \in ToSet(s) : x \in ToSet(t)
    BY <1>1, <1>3, <1>4 DEF ToSet
  <2>3. e \in ToSet(t)
    BY <1>1, <1>3, <1>4 DEF ToSet
  <2>4. QED BY <2>1, <2>2, <2>3
<1>9. QED BY <1>2, <1>7, <1>8 DEF t

LEMMA UnlinkedFacts ==
  ASSUME NEW s \in Seq(Reference), IsInjective(s), NEW e \in ToSet(s)
  PROVE  /\ Unlinked(s, e) \in Seq(Reference)
         /\ IsInjective(Unlinked(s, e))
         /\ ToSet(Unlinked(s, e)) = ToSet(s) \ {e}
<1> DEFINE k == CHOOSE i \in DOMAIN s : s[i] = e
           l == SubSeq(s, 1, k - 1)
           r == SubSeq(s, k + 1, Len(s))
           t == l \o r
<1>1. /\ Len(s) \in Nat /\ DOMAIN s = 1..Len(s)
      /\ \A i \in 1..Len(s) : s[i] \in Reference
  BY LenProperties, ElementOfSeq
<1>2. \E i \in DOMAIN s : s[i] = e
  BY DEF ToSet
<1>3. k \in 1..Len(s) /\ s[k] = e
  BY <1>1, <1>2
<1>4. Unlinked(s, e) = t
  BY DEF Unlinked, RemoveAt
<1> HIDE DEF k
<1>5. \A i \in DOMAIN s : s[i] = e <=> i = k
  BY <1>1, <1>3 DEF IsInjective
<1>6. /\ l \in Seq(Reference) /\ Len(l) = k - 1
      /\ \A i \in 1..k-1 : l[i] = s[i]
  <2>1. k - 1 \in Int /\ \A i \in 1..k-1 : s[i] \in Reference
    BY <1>1, <1>3
  <2>2. /\ l \in Seq(Reference)
        /\ Len(l) = IF 1 <= k - 1 THEN (k - 1) - 1 + 1 ELSE 0
        /\ \A i \in 1..(k - 1) - 1 + 1 : l[i] = s[1 + i - 1]
    BY <2>1, SubSeqProperties
  <2>3. QED BY <1>1, <1>3, <2>2
<1>7. /\ r \in Seq(Reference) /\ Len(r) = Len(s) - k
      /\ \A i \in 1..Len(s)-k : r[i] = s[k+i]
  <2>1. k + 1 \in Int /\ Len(s) \in Int /\ \A i \in k+1..Len(s) : s[i] \in Reference
    BY <1>1, <1>3
  <2>2. /\ r \in Seq(Reference)
        /\ Len(r) = IF k + 1 <= Len(s) THEN Len(s) - (k + 1) + 1 ELSE 0
        /\ \A i \in 1..Len(s) - (k + 1) + 1 : r[i] = s[(k + 1) + i - 1]
    BY <2>1, SubSeqProperties
  <2>3. /\ Len(s) - (k + 1) + 1 = Len(s) - k
        /\ \A i \in 1..Len(s) - k : (k + 1) + i - 1 = k + i
    BY <1>1, <1>3
  <2> HIDE DEF r
  <2>4. Len(r) = Len(s) - k
    <3>1. Len(r) = IF k + 1 <= Len(s) THEN Len(s) - (k + 1) + 1 ELSE 0
      BY <2>2
    <3>2. CASE k + 1 <= Len(s)
      BY <2>3, <3>1, <3>2
    <3>3. CASE ~(k + 1 <= Len(s))
      <4>1. k \in Int /\ Len(s) \in Int /\ k <= Len(s)
        BY <1>1, <1>3
      <4>2. Len(s) - k = 0
        BY <3>3, <4>1
      <4>3. QED BY <3>1, <3>3, <4>2
    <3>4. QED BY <3>2, <3>3
  <2>5. \A i \in 1..Len(s)-k : r[i] = s[k+i]
    BY <2>2, <2>3
  <2>6. QED BY <2>2, <2>4, <2>5
<1> HIDE DEF l, r
<1>8. /\ t \in Seq(Reference) /\ Len(t) = Len(s) - 1
      /\ \A i \in 1..Len(s) - 1 : t[i] = IF i <= k - 1 THEN l[i] ELSE r[i - (k - 1)]
  <2>1. /\ t \in Seq(Reference) /\ Len(t) = Len(l) + Len(r)
        /\ \A i \in 1..Len(l) + Len(r) : t[i] = IF i <= Len(l) THEN l[i] ELSE r[i - Len(l)]
    BY <1>6, <1>7, ConcatProperties
  <2>2. Len(l) + Len(r) = Len(s) - 1 /\ Len(l) = k - 1
    BY <1>1, <1>3, <1>6, <1>7
  <2>3. QED BY <2>1, <2>2
<1>9. DOMAIN t = 1..Len(s) - 1
  BY <1>8, LenProperties
<1> HIDE DEF t
<1>10. \A i \in 1..Len(s) - 1 : t[i] = IF i < k THEN s[i] ELSE s[i + 1]
  <2>1. ASSUME NEW i \in 1..Len(s) - 1, i < k PROVE t[i] = s[i]
    <3>1. i \in 1..k - 1
      BY <1>1, <1>3, <2>1
    <3>2. t[i] = l[i]
      BY <1>1, <1>3, <1>8, <3>1
    <3>3. QED BY <1>6, <3>1, <3>2
  <2>2. ASSUME NEW i \in 1..Len(s) - 1, ~(i < k) PROVE t[i] = s[i + 1]
    <3>1. /\ i - (k - 1) \in 1..Len(s) - k /\ k + (i - (k - 1)) = i + 1
          /\ ~(i <= k - 1)
      BY <1>1, <1>3, <2>2
    <3>2. t[i] = r[i - (k - 1)]
      BY <1>8, <3>1
    <3>3. r[i - (k - 1)] = s[k + (i - (k - 1))]
      BY <1>7, <3>1
    <3>4. QED BY <3>1, <3>2, <3>3
  <2>3. QED BY <2>1, <2>2
<1>11. IsInjective(t)
  <2>1. ASSUME NEW i \in 1..Len(s) - 1, NEW j \in 1..Len(s) - 1, t[i] = t[j]
        PROVE  i = j
    <3> DEFINE u == IF i < k THEN i ELSE i + 1
               v == IF j < k THEN j ELSE j + 1
    <3>1. u \in DOMAIN s /\ v \in DOMAIN s /\ s[u] = s[v]
      BY <1>1, <1>3, <1>10, <2>1
    <3>2. u = v
      BY <3>1 DEF IsInjective
    <3>3. QED BY <1>1, <1>3, <3>2
  <2>2. QED BY <1>9, <2>1 DEF IsInjective
<1>12. ToSet(t) = ToSet(s) \ {e}
  <2>1. ASSUME NEW i \in DOMAIN t PROVE t[i] \in ToSet(s) \ {e}
    <3>1. \E u \in DOMAIN s : u # k /\ t[i] = s[u]
      BY <1>1, <1>3, <1>9, <1>10
    <3>2. QED BY <1>5, <3>1 DEF ToSet
  <2>2. ASSUME NEW u \in DOMAIN s, s[u] # e PROVE s[u] \in ToSet(t)
    <3>1. CASE u < k
      <4>1. u \in DOMAIN t /\ t[u] = s[u]
        BY <1>1, <1>3, <1>9, <1>10, <3>1
      <4>2. QED BY <4>1 DEF ToSet
    <3>2. CASE u > k
      <4>1. u - 1 \in DOMAIN t /\ t[u - 1] = s[u]
        BY <1>1, <1>3, <1>9, <1>10, <3>2
      <4>2. QED BY <4>1 DEF ToSet
    <3>3. QED BY <1>1, <1>3, <2>2, <3>1, <3>2
  <2>3. QED BY <2>1, <2>2 DEF ToSet
<1>13. QED BY <1>4, <1>8, <1>11, <1>12

(* The allocators reached from one are closed under the lists, and each but the    *)
(* first is on the list of another.                                                 *)
LEMMA InsideFacts ==
  ASSUME NEW d \in live
  PROVE  /\ Inside(d) \subseteq live /\ d \in Inside(d)
         /\ \A x \in Inside(d) : Nested(x) \subseteq Inside(d)
         /\ \A y \in Inside(d) \ {d} : \E x \in Inside(d) : y \in Nested(x)
<1>1. Inside(d) \subseteq live /\ d \in Inside(d)
  BY DEF Inside
<1>2. ASSUME NEW x \in Inside(d), NEW y \in Nested(x) PROVE y \in Inside(d)
  <2>1. y \in live
    BY DEF Nested
  <2>2. ASSUME NEW S \in SUBSET live, d \in S, Closed(S) PROVE y \in S
    BY <2>2 DEF Inside, Closed
  <2>3. QED BY <2>1, <2>2 DEF Inside
<1>3. ASSUME NEW y \in Inside(d) \ {d}, \A x \in Inside(d) : y \notin Nested(x)
      PROVE  FALSE
  <2> DEFINE S == Inside(d) \ {y}
  <2>1. S \in SUBSET live /\ d \in S
    BY <1>1
  <2>2. Closed(S)
    BY <1>2, <1>3 DEF Closed
  <2>3. y \in S
    BY <2>1, <2>2 DEF Inside
  <2>4. QED BY <2>3
<1>4. QED BY <1>1, <1>2, <1>3

-----------------------------------------------------------------------------
(* The invariant, by kind of entry. *)
Sound(s, a, allocators, nesting, refs) ==
  /\ IsInjective(s)
  /\ \A r \in Ref : HostRef(r) \in ToSet(s) => refs[r] # NULL /\ refs[r].home = a
  /\ \A b \in Alloc : AllocRef(b) \in ToSet(s) => b \in allocators /\ nesting[b] = a

LEMMA EntryKinds ==
  /\ \A x \in Reference : \/ \E r \in Ref : x = HostRef(r)
                          \/ \E a \in Alloc : x = AllocRef(a)
  /\ \A r \in Ref : /\ HostRef(r) \in Reference
                    /\ HostRef(r).kind = "HostObject" /\ HostRef(r).id = r
  /\ \A a \in Alloc : /\ AllocRef(a) \in Reference
                      /\ AllocRef(a).kind # "HostObject" /\ AllocRef(a).id = a
  BY DEF Reference, HostRef, AllocRef

LEMMA SoundIff ==
  ASSUME NEW s \in Seq(Reference), NEW a, NEW allocators, NEW nesting, NEW refs
  PROVE  Sound(s, a, allocators, nesting, refs) <=>
           /\ IsInjective(s)
           /\ \A x \in ToSet(s) :
                IF x.kind = "HostObject" THEN refs[x.id] # NULL /\ refs[x.id].home = a
                ELSE x.id \in allocators /\ nesting[x.id] = a
<1>1. ToSet(s) \subseteq Reference
  BY LenProperties, ElementOfSeq DEF ToSet
<1>2. QED BY <1>1, EntryKinds DEF Sound

LEMMA InvariantFacts ==
  ASSUME IInv
  PROVE  /\ TypeOK
         /\ \A a \in live : /\ a \in Alloc /\ reflist[a] \in Seq(Reference)
                            /\ Sound(reflist[a], a, live, nestedIn, ref)
                            /\ nestedIn[a] # NULL => /\ nestedIn[a] \in live
                                                     /\ AllocRef(a) \in ToSet(reflist[nestedIn[a]])
<1>1. TypeOK /\ ReflistsInOrder /\ MemoryLive
  BY DEF IInv, ReflistsSound
<1>2. \A a \in live : a \in Alloc /\ reflist[a] \in Seq(Reference)
  BY <1>1 DEF TypeOK
<1>3. \A a \in live : Sound(reflist[a], a, live, nestedIn, ref)
  BY <1>1, <1>2, SoundIff DEF ReflistsInOrder
<1>4. QED BY <1>1, <1>2, <1>3 DEF ReflistsInOrder, MemoryLive

(* The conditions in the next state, given for its lists. *)
LEMMA NextReflistsSound ==
  ASSUME TypeOK',
         \A a \in live' : /\ Sound(reflist'[a], a, live', nestedIn', ref')
                          /\ nestedIn'[a] # NULL =>
                                AllocRef(a) \in ToSet(reflist'[nestedIn'[a]])
  PROVE  ReflistsSound'
<1>1. \A a \in live' : reflist'[a] \in Seq(Reference)
  BY DEF TypeOK
<1>2. QED BY <1>1, SoundIff DEF ReflistsSound, ReflistsInOrder

LEMMA EmptyList ==
  /\ <<>> \in Seq(Reference) /\ IsInjective(<<>>) /\ ToSet(<<>>) = {}
  BY DEF IsInjective, ToSet

(* The conditions on one object. *)
OwnedRight(o) ==
  IF o \in managed /\ destroyed[o] = 0
  THEN \E r \in Allocated : /\ Owners(o) = {r}
                            /\ ref[r].home \in live
                            /\ HostRef(r) \in ToSet(reflist[ref[r].home])
  ELSE Owners(o) = {}

LEMMA OwnedRightKept ==
  ASSUME NEW o \in Obj, OwnedOnce,
         Owners(o)' = Owners(o),
         o \in managed' <=> o \in managed,
         destroyed'[o] = destroyed[o],
         \A r \in Owners(o) :
            /\ r \in Allocated
            /\ ref[r].home \in live
            /\ HostRef(r) \in ToSet(reflist[ref[r].home])
            => /\ r \in Allocated'
               /\ ref'[r].home \in live'
               /\ HostRef(r) \in ToSet(reflist'[ref'[r].home])
  PROVE  OwnedRight(o)'
<1>1. CASE o \in managed /\ destroyed[o] = 0
  <2>1. PICK r \in Allocated : /\ Owners(o) = {r}
                               /\ ref[r].home \in live
                               /\ HostRef(r) \in ToSet(reflist[ref[r].home])
    BY <1>1 DEF OwnedOnce
  <2>2. /\ r \in Allocated' /\ Owners(o)' = {r} /\ ref'[r].home \in live'
        /\ HostRef(r) \in ToSet(reflist'[ref'[r].home])
    BY <2>1
  <2>3. QED BY <1>1, <2>2 DEF OwnedRight
<1>2. CASE ~(o \in managed /\ destroyed[o] = 0)
  BY <1>2 DEF OwnedOnce, OwnedRight
<1>3. QED BY <1>1, <1>2

(* An entry put in front of the list of a. *)
LEMMA PrependToList ==
  ASSUME TypeOK, NEW a \in Alloc, NEW e \in Reference,
         IsInjective(reflist[a]), e \notin ToSet(reflist[a]),
         reflist' = [reflist EXCEPT ![a] = <<e>> \o @]
  PROVE  /\ reflist' \in [Alloc -> Seq(Reference)]
         /\ IsInjective(reflist'[a])
         /\ ToSet(reflist'[a]) = {e} \cup ToSet(reflist[a])
         /\ \A x \in Alloc : x # a => reflist'[x] = reflist[x]
<1>1. reflist \in [Alloc -> Seq(Reference)] /\ reflist[a] \in Seq(Reference)
  BY DEF TypeOK
<1>2. reflist' = [reflist EXCEPT ![a] = <<e>> \o reflist[a]]
  BY <1>1
<1>3. /\ <<e>> \o reflist[a] \in Seq(Reference)
      /\ IsInjective(<<e>> \o reflist[a])
      /\ ToSet(<<e>> \o reflist[a]) = {e} \cup ToSet(reflist[a])
  BY <1>1, PrependFacts
<1>4. QED BY <1>1, <1>2, <1>3

-----------------------------------------------------------------------------
(* The actions. *)
LEMMA InitIInv == Init => IInv
<1>1. SUFFICES ASSUME Init PROVE IInv
  OBVIOUS
<1>2. TypeOK
  BY <1>1, EmptyList DEF Init, TypeOK
<1>3. Allocated = {}
  BY <1>1 DEF Init, Allocated, Free
<1>4. QED
  BY <1>1, <1>2, <1>3
     DEF Init, IInv, ReflistsSound, ReflistsInOrder, OwnedOnce, Owners, MemoryLive

LEMMA ConstructIInv ==
  ASSUME IInv, NEW a \in Alloc, Construct(a)
  PROVE  IInv'
<1>1. /\ a \notin live /\ live' = live \cup {a}
      /\ reflist' = [reflist EXCEPT ![a] = <<>>]
      /\ nestedIn' = [nestedIn EXCEPT ![a] = NULL]
      /\ ref' = ref /\ destroyed' = destroyed /\ managed' = managed
  BY DEF Construct
<1>2. TypeOK /\ OwnedOnce /\ MemoryLive
  BY DEF IInv, ReflistsSound
<1>3. TypeOK'
  BY <1>1, <1>2, EmptyList DEF TypeOK
<1>4. /\ \A x \in live : x # a /\ reflist'[x] = reflist[x] /\ nestedIn'[x] = nestedIn[x]
      /\ reflist'[a] = <<>> /\ nestedIn'[a] = NULL
  BY <1>1, <1>2 DEF TypeOK
<1>5. ReflistsSound'
  <2>1. ASSUME NEW x \in live
        PROVE  /\ Sound(reflist'[x], x, live', nestedIn', ref')
               /\ nestedIn'[x] # NULL => AllocRef(x) \in ToSet(reflist'[nestedIn'[x]])
    BY <1>1, <1>4, InvariantFacts DEF Sound
  <2>2. /\ Sound(reflist'[a], a, live', nestedIn', ref')
        /\ nestedIn'[a] = NULL
    BY <1>4, EmptyList DEF Sound
  <2>3. QED BY <1>1, <1>3, <2>1, <2>2, NextReflistsSound
<1>6. OwnedOnce'
  BY <1>1, <1>2, <1>4 DEF OwnedOnce, Owners, Allocated, Free
<1>7. MemoryLive'
  BY <1>1, <1>2, <1>4 DEF MemoryLive, Allocated, Free
<1>8. QED BY <1>5, <1>6, <1>7 DEF IInv

(* The reference of an object taken is its only owner. *)
LEMMA AllocHostObjectIInv ==
  ASSUME IInv, NEW a \in Alloc, NEW o \in Obj, NEW r \in Ref, AllocHostObject(a, o, r)
  PROVE  IInv'
<1> DEFINE new == [data |-> o, destroy |-> TRUE, home |-> a]
<1>1. /\ a \in live /\ o \notin managed /\ destroyed[o] = 0 /\ ref[r] = NULL
      /\ ref' = [ref EXCEPT ![r] = new]
      /\ reflist' = [reflist EXCEPT ![a] = <<HostRef(r)>> \o @]
      /\ managed' = managed \cup {o}
      /\ live' = live /\ nestedIn' = nestedIn /\ destroyed' = destroyed
  BY DEF AllocHostObject, Free
<1>2. TypeOK /\ OwnedOnce /\ MemoryLive
  BY DEF IInv, ReflistsSound
<1>3. /\ new \in [data : Obj, destroy : BOOLEAN, home : Alloc] /\ new # NULL
      /\ new.data = o /\ new.destroy /\ new.home = a
  <2>1. new \in [data : Obj, destroy : BOOLEAN, home : Alloc]
    OBVIOUS
  <2>2. new.data = o /\ new.destroy /\ new.home = a
    OBVIOUS
  <2>3. QED BY <2>1, <2>2, NullAssumption
<1> HIDE DEF new
<1>4. /\ ref'[r] = new /\ \A q \in Ref : q # r => ref'[q] = ref[q]
  BY <1>1, <1>2 DEF TypeOK
<1>5. /\ reflist' \in [Alloc -> Seq(Reference)]
      /\ IsInjective(reflist'[a])
      /\ ToSet(reflist'[a]) = {HostRef(r)} \cup ToSet(reflist[a])
      /\ \A x \in Alloc : x # a => reflist'[x] = reflist[x]
  <2>1. IsInjective(reflist[a]) /\ HostRef(r) \notin ToSet(reflist[a]) /\ HostRef(r) \in Reference
    BY <1>1, InvariantFacts, EntryKinds DEF Sound
  <2>2. QED BY <1>1, <1>2, <2>1, PrependToList
<1>7. TypeOK'
  <2>1. ref' \in [Ref -> [data : Obj, destroy : BOOLEAN, home : Alloc] \cup {NULL}]
    BY <1>1, <1>2, <1>3 DEF TypeOK
  <2>2. QED BY <1>1, <1>2, <1>5, <2>1 DEF TypeOK
<1>8. ReflistsSound'
  <2>1. ASSUME NEW x \in live PROVE Sound(reflist'[x], x, live', nestedIn', ref')
    <3>1. CASE x = a
      <4>1. Sound(reflist[a], a, live, nestedIn, ref)
        BY <1>1, InvariantFacts
      <4>2. ASSUME NEW q \in Ref, HostRef(q) \in ToSet(reflist'[a])
            PROVE  ref'[q] # NULL /\ ref'[q].home = a
        <5>1. q = r \/ HostRef(q) \in ToSet(reflist[a])
          BY <1>5, <4>2, EntryKinds
        <5>2. QED BY <1>1, <1>3, <1>4, <4>1, <5>1 DEF Sound
      <4>3. ASSUME NEW b \in Alloc, AllocRef(b) \in ToSet(reflist'[a])
            PROVE  b \in live' /\ nestedIn'[b] = a
        <5>1. AllocRef(b) \in ToSet(reflist[a])
          BY <1>5, <4>3, EntryKinds
        <5>2. QED BY <1>1, <4>1, <5>1 DEF Sound
      <4>4. QED BY <1>5, <3>1, <4>2, <4>3 DEF Sound
    <3>2. CASE x # a
      <4>1. x \in Alloc /\ Sound(reflist[x], x, live, nestedIn, ref)
        BY InvariantFacts
      <4>2. \A q \in Ref : ref[q] # NULL => ref'[q] = ref[q]
        BY <1>1, <1>4
      <4>3. QED BY <1>1, <1>5, <3>2, <4>1, <4>2 DEF Sound
    <3>3. QED BY <3>1, <3>2
  <2>2. ASSUME NEW x \in live, nestedIn'[x] # NULL
        PROVE  AllocRef(x) \in ToSet(reflist'[nestedIn'[x]])
    BY <1>1, <1>5, <2>2, InvariantFacts
  <2>3. QED BY <1>1, <1>7, <2>1, <2>2, NextReflistsSound
<1>9. OwnedOnce'
  <2>1. ASSUME NEW p \in Obj PROVE OwnedRight(p)'
    <3>1. CASE p = o
      <4>1. Owners(o) = {}
        BY <1>1, <1>2 DEF OwnedOnce
      <4>2. Owners(o)' = {r} /\ r \in Allocated'
        BY <1>1, <1>3, <1>4, <4>1 DEF Owners, Allocated, Free
      <4>3. QED BY <1>1, <1>3, <1>4, <1>5, <3>1, <4>2 DEF OwnedRight
    <3>2. CASE p # o
      <4>1. Owners(p)' = Owners(p)
        BY <1>1, <1>3, <1>4, <3>2 DEF Owners, Allocated, Free
      <4>2. \A q \in Allocated : q \in Allocated' /\ ref'[q] = ref[q] /\ ref[q].home \in Alloc
        BY <1>1, <1>2, <1>3, <1>4 DEF TypeOK, Allocated, Free
      <4>3. OwnedOnce /\ p \in Obj
        BY <1>2
      <4>4. /\ p \in managed' <=> p \in managed
            /\ destroyed'[p] = destroyed[p]
        BY <1>1, <3>2
      <4>5. ASSUME NEW q \in Owners(p), q \in Allocated, ref[q].home \in live,
                   HostRef(q) \in ToSet(reflist[ref[q].home])
            PROVE  /\ q \in Allocated' /\ ref'[q].home \in live'
                   /\ HostRef(q) \in ToSet(reflist'[ref'[q].home])
        <5>1. q \in Allocated' /\ ref'[q] = ref[q] /\ ref[q].home \in Alloc
          BY <4>2, <4>5
        <5>2. ToSet(reflist[ref[q].home]) \subseteq ToSet(reflist'[ref[q].home])
          BY <1>5, <5>1
        <5>3. QED BY <1>1, <4>5, <5>1, <5>2
      <4>6. QED BY <4>1, <4>3, <4>4, <4>5, OwnedRightKept
    <3>3. QED BY <3>1, <3>2
  <2>2. QED BY <2>1 DEF OwnedOnce, OwnedRight
<1>10. MemoryLive'
  BY <1>1, <1>2, <1>3, <1>4 DEF MemoryLive, Allocated, Free
<1>11. QED BY <1>8, <1>9, <1>10 DEF IInv

(* A copy that moves takes the ownership from the original. *)
LEMMA DeepCopyIInv ==
  ASSUME IInv, NEW b \in Alloc, NEW r \in Ref, NEW new \in Ref, NEW move \in BOOLEAN,
         DeepCopy(b, r, new, move)
  PROVE  IInv'
<1> DEFINE o == ref[r].data
           copy == [data |-> o, home |-> b, destroy |-> move /\ ref[r].destroy]
           left == [ref[r] EXCEPT !.destroy = @ /\ ~move]
<1>1. /\ b \in live /\ ref[r] # NULL /\ ref[new] = NULL /\ r # new
      /\ reflist' = [reflist EXCEPT ![b] = <<HostRef(new)>> \o @]
      /\ live' = live /\ nestedIn' = nestedIn
      /\ destroyed' = destroyed /\ managed' = managed
  BY DEF DeepCopy, CopyOne, Free, Allocated
<1>2. TypeOK /\ OwnedOnce /\ MemoryLive
  BY DEF IInv, ReflistsSound
<1>3. /\ ref[r] \in [data : Obj, destroy : BOOLEAN, home : Alloc]
      /\ o \in Obj /\ ref[r].home \in live /\ ref[r].destroy \in BOOLEAN
  BY <1>1, <1>2 DEF TypeOK, MemoryLive, Allocated, Free
<1>4. /\ copy \in [data : Obj, destroy : BOOLEAN, home : Alloc]
      /\ copy.data = o /\ copy.home = b /\ (copy.destroy <=> move /\ ref[r].destroy)
  BY <1>3
<1>5. /\ left \in [data : Obj, destroy : BOOLEAN, home : Alloc]
      /\ left.data = o /\ left.home = ref[r].home /\ (left.destroy <=> ref[r].destroy /\ ~move)
  BY <1>3
<1>6. ref' = [ref EXCEPT ![new] = copy, ![r] = left]
  BY <1>1, <1>2 DEF DeepCopy, CopyOne, TypeOK
<1> HIDE DEF copy, left, o
<1>7. /\ ref'[new] = copy /\ ref'[r] = left
      /\ \A q \in Ref : q # new /\ q # r => ref'[q] = ref[q]
      /\ copy # NULL /\ left # NULL
  BY <1>1, <1>2, <1>4, <1>5, <1>6, NullAssumption DEF TypeOK
<1>8. /\ \A q \in Allocated : /\ q \in Ref /\ q \in Allocated' /\ q # new
                              /\ ref'[q].home = ref[q].home /\ ref[q].home \in live
      /\ new \in Allocated' /\ Allocated' = Allocated \cup {new}
  BY <1>1, <1>2, <1>5, <1>7 DEF Allocated, Free, MemoryLive
<1>9. /\ reflist' \in [Alloc -> Seq(Reference)]
      /\ IsInjective(reflist'[b])
      /\ ToSet(reflist'[b]) = {HostRef(new)} \cup ToSet(reflist[b])
      /\ \A x \in Alloc : x # b => reflist'[x] = reflist[x]
  <2>1. IsInjective(reflist[b]) /\ HostRef(new) \notin ToSet(reflist[b])
        /\ HostRef(new) \in Reference
    BY <1>1, InvariantFacts, EntryKinds DEF Sound
  <2>2. QED BY <1>1, <1>2, <2>1, PrependToList
<1>10. TypeOK'
  <2>1. ref' \in [Ref -> [data : Obj, destroy : BOOLEAN, home : Alloc] \cup {NULL}]
    BY <1>2, <1>4, <1>5, <1>6 DEF TypeOK
  <2>2. QED BY <1>1, <1>2, <1>9, <2>1 DEF TypeOK
<1>11. ReflistsSound'
  <2>1. ASSUME NEW x \in live PROVE Sound(reflist'[x], x, live', nestedIn', ref')
    <3>1. x \in Alloc /\ Sound(reflist[x], x, live, nestedIn, ref)
      BY InvariantFacts
    <3>2. \A q \in Ref : ref[q] # NULL => ref'[q] # NULL /\ ref'[q].home = ref[q].home
      BY <1>8 DEF Allocated, Free
    <3>3. CASE x = b
      <4>1. \A q \in Ref : HostRef(q) \in ToSet(reflist'[b]) =>
                            q = new \/ HostRef(q) \in ToSet(reflist[b])
        BY <1>9, EntryKinds
      <4>2. \A a \in Alloc : AllocRef(a) \in ToSet(reflist'[b]) =>
                              AllocRef(a) \in ToSet(reflist[b])
        BY <1>9, EntryKinds
      <4>3. ASSUME NEW q \in Ref, HostRef(q) \in ToSet(reflist'[b])
            PROVE  ref'[q] # NULL /\ ref'[q].home = b
        BY <1>4, <1>7, <3>1, <3>2, <3>3, <4>1, <4>3 DEF Sound
      <4>4. QED BY <1>1, <1>9, <3>1, <3>3, <4>2, <4>3 DEF Sound
    <3>4. CASE x # b
      BY <1>1, <1>9, <3>1, <3>2, <3>4 DEF Sound
    <3>5. QED BY <3>3, <3>4
  <2>2. ASSUME NEW x \in live, nestedIn'[x] # NULL
        PROVE  AllocRef(x) \in ToSet(reflist'[nestedIn'[x]])
    BY <1>1, <1>9, <2>2, InvariantFacts
  <2>3. QED BY <1>1, <1>10, <2>1, <2>2, NextReflistsSound
<1>12. OwnedOnce'
  <2>1. ASSUME NEW p \in Obj PROVE OwnedRight(p)'
    <3>1. CASE p = o /\ move /\ ref[r].destroy
      <4>1. r \in Owners(p)
        BY <1>1, <3>1 DEF Owners, Allocated, Free, o
      <4>2. p \in managed /\ destroyed[p] = 0 /\ Owners(p) = {r}
        BY <1>2, <4>1 DEF OwnedOnce
      <4>3. Owners(p)' = {new}
        <5>1. ASSUME NEW q \in Allocated, ref'[q].destroy, ref'[q].data = p
              PROVE  FALSE
          <6>1. q # r
            BY <1>5, <1>7, <3>1, <5>1
          <6>2. q \in Owners(p)
            BY <1>7, <1>8, <5>1, <6>1 DEF Owners
          <6>3. QED BY <4>2, <6>1, <6>2
        <5>2. ref'[new].destroy /\ ref'[new].data = p
          BY <1>4, <1>7, <3>1
        <5>3. QED BY <1>8, <5>1, <5>2 DEF Owners
      <4>4. QED BY <1>1, <1>4, <1>7, <1>8, <1>9, <3>1, <4>2, <4>3 DEF OwnedRight
    <3>2. CASE ~(p = o /\ move /\ ref[r].destroy)
      <4>1. \A q \in Allocated : /\ ref'[q].data = ref[q].data
                                 /\ ref[q].data = p => (ref'[q].destroy <=> ref[q].destroy)
        BY <1>5, <1>7, <1>8, <3>2 DEF o
      <4>2. ref'[new].data = p => ~ref'[new].destroy
        BY <1>4, <1>7, <3>2
      <4>3. Owners(p)' = Owners(p)
        BY <1>8, <4>1, <4>2 DEF Owners
      <4>4. \A q \in Allocated : ref[q].home \in Alloc
        BY <1>2, <1>8 DEF TypeOK
      <4>5. QED BY <1>1, <1>2, <1>8, <1>9, <4>3, <4>4, OwnedRightKept
    <3>3. QED BY <3>1, <3>2
  <2>2. QED BY <2>1 DEF OwnedOnce, OwnedRight
<1>13. MemoryLive'
  BY <1>1, <1>2, <1>4, <1>7, <1>8 DEF MemoryLive
<1>14. QED BY <1>11, <1>12, <1>13 DEF IInv

(* The destructor flag of r cleared: what Release and DestroyHostObject do to it. *)
LEMMA FlagCleared ==
  ASSUME TypeOK, OwnedOnce, NEW r \in Allocated, ref' = [ref EXCEPT ![r].destroy = FALSE]
  PROVE  /\ r \in Ref /\ ref[r].data \in Obj
         /\ ref' \in [Ref -> [data : Obj, destroy : BOOLEAN, home : Alloc] \cup {NULL}]
         /\ Allocated' = Allocated
         /\ \A q \in Allocated : ref'[q].home = ref[q].home /\ ref[q].home \in Alloc
         /\ \A o \in Obj :
               IF ref[r].destroy /\ ref[r].data = o
               THEN o \in managed /\ destroyed[o] = 0 /\ Owners(o)' = {}
               ELSE Owners(o)' = Owners(o)
<1> DEFINE left == [ref[r] EXCEPT !.destroy = FALSE]
<1>1. r \in Ref /\ ref[r] # NULL /\ ref[r] \in [data : Obj, destroy : BOOLEAN, home : Alloc]
  BY DEF TypeOK, Allocated, Free
<1>2. /\ left \in [data : Obj, destroy : BOOLEAN, home : Alloc] /\ left # NULL
      /\ left.data = ref[r].data /\ left.home = ref[r].home /\ ~left.destroy
  <2>1. left \in [data : Obj, destroy : BOOLEAN, home : Alloc]
    BY <1>1
  <2>2. left.data = ref[r].data /\ left.home = ref[r].home /\ ~left.destroy
    BY <1>1
  <2>3. QED BY <2>1, <2>2, NullAssumption
<1>3. ref' = [ref EXCEPT ![r] = left]
  BY DEF TypeOK
<1> HIDE DEF left
<1>4. /\ ref'[r] = left
      /\ \A q \in Ref : q # r => ref'[q] = ref[q]
      /\ ref' \in [Ref -> [data : Obj, destroy : BOOLEAN, home : Alloc] \cup {NULL}]
  BY <1>1, <1>2, <1>3 DEF TypeOK
<1>5. Allocated' = Allocated
  BY <1>1, <1>2, <1>4 DEF Allocated, Free
<1>6. \A q \in Allocated : ref'[q].home = ref[q].home /\ ref[q].home \in Alloc
  BY <1>2, <1>4 DEF TypeOK, Allocated, Free
<1>7. ASSUME NEW o \in Obj, ref[r].destroy, ref[r].data = o
      PROVE  o \in managed /\ destroyed[o] = 0 /\ Owners(o)' = {}
  <2>1. r \in Owners(o)
    BY <1>7 DEF Owners
  <2>2. o \in managed /\ destroyed[o] = 0 /\ Owners(o) = {r}
    BY <2>1 DEF OwnedOnce
  <2>3. ASSUME NEW q \in Allocated, ref'[q].destroy, ref'[q].data = o PROVE FALSE
    <3>1. q # r
      BY <1>2, <1>4, <2>3
    <3>2. q \in Owners(o)
      BY <1>4, <2>3, <3>1 DEF Owners, Allocated
    <3>3. QED BY <2>2, <3>1, <3>2
  <2>4. QED BY <1>5, <2>2, <2>3 DEF Owners
<1>8. ASSUME NEW o \in Obj, ~(ref[r].destroy /\ ref[r].data = o)
      PROVE  Owners(o)' = Owners(o)
  <2>1. \A q \in Allocated : (ref'[q].destroy /\ ref'[q].data = o)
                             <=> (ref[q].destroy /\ ref[q].data = o)
    BY <1>2, <1>4, <1>8 DEF Allocated
  <2>2. QED BY <1>5, <2>1 DEF Owners
<1>9. QED BY <1>1, <1>4, <1>5, <1>6, <1>7, <1>8

(* An object the host takes back has no owner left. *)
LEMMA ReleaseIInv ==
  ASSUME IInv, NEW r \in Ref, Release(r)
  PROVE  IInv'
<1>1. /\ r \in Allocated /\ ref[r].destroy
      /\ ref' = [ref EXCEPT ![r].destroy = FALSE]
      /\ managed' = managed \ {ref[r].data}
      /\ live' = live /\ nestedIn' = nestedIn
      /\ reflist' = reflist /\ destroyed' = destroyed
  BY DEF Release
<1>2. TypeOK /\ OwnedOnce /\ MemoryLive
  BY DEF IInv, ReflistsSound
<1>3. /\ ref' \in [Ref -> [data : Obj, destroy : BOOLEAN, home : Alloc] \cup {NULL}]
      /\ Allocated' = Allocated
      /\ \A q \in Allocated : ref'[q].home = ref[q].home /\ ref[q].home \in Alloc
  BY <1>1, <1>2, FlagCleared
<1>4. \A o \in Obj : IF ref[r].destroy /\ ref[r].data = o
                     THEN o \in managed /\ destroyed[o] = 0 /\ Owners(o)' = {}
                     ELSE Owners(o)' = Owners(o)
  BY <1>1, <1>2, FlagCleared
<1>5. TypeOK'
  BY <1>1, <1>2, <1>3 DEF TypeOK
<1>6. ReflistsSound'
  <2>1. \A q \in Ref : ref[q] # NULL => ref'[q] # NULL /\ ref'[q].home = ref[q].home
    BY <1>3 DEF Allocated, Free
  <2>2. QED BY <1>1, <1>5, <2>1, InvariantFacts, NextReflistsSound DEF Sound
<1>7. OwnedOnce'
  <2>1. ASSUME NEW o \in Obj PROVE OwnedRight(o)'
    <3>1. CASE ref[r].data = o
      BY <1>1, <1>4, <3>1 DEF OwnedRight
    <3>2. CASE ref[r].data # o
      BY <1>1, <1>2, <1>3, <1>4, <3>2, OwnedRightKept
    <3>3. QED BY <3>1, <3>2
  <2>2. QED BY <2>1 DEF OwnedOnce, OwnedRight
<1>8. MemoryLive'
  BY <1>1, <1>2, <1>3 DEF MemoryLive
<1>9. QED BY <1>6, <1>7, <1>8 DEF IInv

(* What an entry unlinked from the list of a leaves. *)
LEMMA UnlinkFromList ==
  ASSUME IInv, NEW a \in live, NEW e \in ToSet(reflist[a])
  PROVE  /\ Unlinked(reflist[a], e) \in Seq(Reference)
         /\ IsInjective(Unlinked(reflist[a], e))
         /\ ToSet(Unlinked(reflist[a], e)) = ToSet(reflist[a]) \ {e}
  BY InvariantFacts, UnlinkedFacts DEF Sound

(* An object destroyed with its reference is destroyed the first time. *)
LEMMA DestroyHostObjectIInv ==
  ASSUME IInv, NEW a \in Alloc, NEW r \in Ref, DestroyHostObject(a, r)
  PROVE  IInv'
<1>1. /\ a \in live /\ HostRef(r) \in ToSet(reflist[a])
      /\ reflist' = [reflist EXCEPT ![a] = Unlinked(@, HostRef(r))]
      /\ destroyed' = IF ref[r].destroy
                      THEN [destroyed EXCEPT ![ref[r].data] = @ + 1] ELSE destroyed
      /\ ref' = [ref EXCEPT ![r].destroy = FALSE]
      /\ live' = live /\ nestedIn' = nestedIn /\ managed' = managed
  BY DEF DestroyHostObject
<1>2. TypeOK /\ OwnedOnce /\ MemoryLive
  BY DEF IInv, ReflistsSound
<1>3. r \in Allocated /\ ref[r].home = a
  BY <1>1, InvariantFacts DEF Sound, Allocated, Free
<1>4. /\ ref' \in [Ref -> [data : Obj, destroy : BOOLEAN, home : Alloc] \cup {NULL}]
      /\ Allocated' = Allocated
      /\ \A q \in Allocated : ref'[q].home = ref[q].home /\ ref[q].home \in Alloc
      /\ ref[r].data \in Obj
  BY <1>1, <1>2, <1>3, FlagCleared
<1>5. \A o \in Obj : IF ref[r].destroy /\ ref[r].data = o
                     THEN o \in managed /\ destroyed[o] = 0 /\ Owners(o)' = {}
                     ELSE Owners(o)' = Owners(o)
  BY <1>1, <1>2, <1>3, FlagCleared
<1>6. /\ reflist' \in [Alloc -> Seq(Reference)]
      /\ IsInjective(reflist'[a])
      /\ ToSet(reflist'[a]) = ToSet(reflist[a]) \ {HostRef(r)}
      /\ \A x \in Alloc : x # a => reflist'[x] = reflist[x]
  <2>1. reflist' = [reflist EXCEPT ![a] = Unlinked(reflist[a], HostRef(r))]
    BY <1>1, <1>2 DEF TypeOK
  <2>2. /\ Unlinked(reflist[a], HostRef(r)) \in Seq(Reference)
        /\ IsInjective(Unlinked(reflist[a], HostRef(r)))
        /\ ToSet(Unlinked(reflist[a], HostRef(r))) = ToSet(reflist[a]) \ {HostRef(r)}
    BY <1>1, UnlinkFromList
  <2>3. a \in Alloc /\ reflist \in [Alloc -> Seq(Reference)]
    BY <1>1, <1>2 DEF TypeOK
  <2>4. QED BY <2>1, <2>2, <2>3
<1>7. /\ destroyed' \in [Obj -> 0..1]
      /\ \A o \in Obj : destroyed'[o] = IF ref[r].destroy /\ ref[r].data = o THEN 1
                                       ELSE destroyed[o]
  <2>1. CASE ref[r].destroy
    <3>1. destroyed[ref[r].data] = 0 /\ destroyed \in [Obj -> 0..1]
      BY <1>2, <1>4, <1>5, <2>1 DEF TypeOK
    <3>2. QED BY <1>1, <1>4, <2>1, <3>1
  <2>2. CASE ~ref[r].destroy
    BY <1>1, <1>2, <2>2 DEF TypeOK
  <2>3. QED BY <2>1, <2>2
<1>8. TypeOK'
  BY <1>1, <1>2, <1>4, <1>6, <1>7 DEF TypeOK
<1>9. ReflistsSound'
  <2>1. \A q \in Ref : ref[q] # NULL => ref'[q] # NULL /\ ref'[q].home = ref[q].home
    BY <1>4 DEF Allocated, Free
  <2>2. ASSUME NEW x \in live
        PROVE  /\ Sound(reflist'[x], x, live', nestedIn', ref')
               /\ nestedIn'[x] # NULL => AllocRef(x) \in ToSet(reflist'[nestedIn'[x]])
    <3>1. x \in Alloc /\ Sound(reflist[x], x, live, nestedIn, ref)
      BY InvariantFacts
    <3>2. ToSet(reflist'[x]) \subseteq ToSet(reflist[x]) /\ IsInjective(reflist'[x])
      BY <1>6, <3>1 DEF Sound
    <3>3. Sound(reflist'[x], x, live', nestedIn', ref')
      BY <1>1, <2>1, <3>1, <3>2 DEF Sound
    <3>4. nestedIn'[x] # NULL => AllocRef(x) \in ToSet(reflist'[nestedIn'[x]])
      BY <1>1, <1>6, <3>1, InvariantFacts, EntryKinds
    <3>5. QED BY <3>3, <3>4
  <2>3. QED BY <1>1, <1>8, <2>2, NextReflistsSound
<1>10. OwnedOnce'
  <2>1. ASSUME NEW o \in Obj PROVE OwnedRight(o)'
    <3>1. CASE ref[r].destroy /\ ref[r].data = o
      BY <1>5, <1>7, <3>1 DEF OwnedRight
    <3>2. CASE ~(ref[r].destroy /\ ref[r].data = o)
      <4>1. ASSUME NEW q \in Owners(o), q \in Allocated, ref[q].home \in live,
                   HostRef(q) \in ToSet(reflist[ref[q].home])
            PROVE  HostRef(q) \in ToSet(reflist'[ref'[q].home])
        <5>1. q # r /\ q \in Ref
          BY <3>2, <4>1 DEF Owners, Allocated
        <5>2. HostRef(q) # HostRef(r)
          BY <5>1, EntryKinds
        <5>3. QED BY <1>4, <1>6, <4>1, <5>2
      <4>2. QED BY <1>1, <1>2, <1>4, <1>5, <1>7, <3>2, <4>1, OwnedRightKept
    <3>3. QED BY <3>1, <3>2
  <2>2. QED BY <2>1 DEF OwnedOnce, OwnedRight
<1>11. MemoryLive'
  BY <1>1, <1>2, <1>4 DEF MemoryLive
<1>12. QED BY <1>9, <1>10, <1>11 DEF IInv

(* A nested allocator is on the list of the one it is made in. *)
LEMMA AllocAllocatorIInv ==
  ASSUME IInv, NEW a \in Alloc, NEW b \in Alloc, AllocAllocator(a, b)
  PROVE  IInv'
<1>1. /\ a \in live /\ b \notin live /\ a # b
      /\ live' = live \cup {b}
      /\ nestedIn' = [nestedIn EXCEPT ![b] = a]
      /\ reflist' = [reflist EXCEPT ![a] = <<AllocRef(b)>> \o @, ![b] = <<>>]
      /\ ref' = ref /\ destroyed' = destroyed /\ managed' = managed
  BY DEF AllocAllocator
<1>2. TypeOK /\ OwnedOnce /\ MemoryLive
  BY DEF IInv, ReflistsSound
<1>3. /\ reflist[a] \in Seq(Reference)
      /\ IsInjective(reflist[a]) /\ AllocRef(b) \notin ToSet(reflist[a])
      /\ AllocRef(b) \in Reference
  BY <1>1, InvariantFacts, EntryKinds DEF Sound
<1>4. /\ <<AllocRef(b)>> \o reflist[a] \in Seq(Reference)
      /\ IsInjective(<<AllocRef(b)>> \o reflist[a])
      /\ ToSet(<<AllocRef(b)>> \o reflist[a]) = {AllocRef(b)} \cup ToSet(reflist[a])
  BY <1>3, PrependFacts
<1>5. /\ reflist' \in [Alloc -> Seq(Reference)]
      /\ IsInjective(reflist'[a]) /\ reflist'[b] = <<>>
      /\ ToSet(reflist'[a]) = {AllocRef(b)} \cup ToSet(reflist[a])
      /\ \A x \in Alloc : x # a /\ x # b => reflist'[x] = reflist[x]
  <2>1. reflist' = [reflist EXCEPT ![a] = <<AllocRef(b)>> \o reflist[a], ![b] = <<>>]
    BY <1>1, <1>2 DEF TypeOK
  <2>2. QED BY <1>1, <1>2, <1>4, <2>1, EmptyList DEF TypeOK
<1>6. /\ nestedIn'[b] = a /\ \A x \in Alloc : x # b => nestedIn'[x] = nestedIn[x]
      /\ a # NULL
  BY <1>1, <1>2, NullAssumption DEF TypeOK
<1>7. TypeOK'
  BY <1>1, <1>2, <1>5 DEF TypeOK
<1>8. ReflistsSound'
  <2>1. ASSUME NEW x \in live
        PROVE  /\ Sound(reflist'[x], x, live', nestedIn', ref')
               /\ nestedIn'[x] # NULL => AllocRef(x) \in ToSet(reflist'[nestedIn'[x]])
    <3>1. /\ x \in Alloc /\ x # b /\ Sound(reflist[x], x, live, nestedIn, ref)
          /\ nestedIn[x] # NULL => /\ nestedIn[x] \in live
                                  /\ AllocRef(x) \in ToSet(reflist[nestedIn[x]])
      BY <1>1, InvariantFacts
    <3>2. \A y \in live : y # b /\ y \in Alloc
      BY <1>1, InvariantFacts
    <3>3. CASE x = a
      <4>1. \A q \in Ref : HostRef(q) \in ToSet(reflist'[a]) => HostRef(q) \in ToSet(reflist[a])
        BY <1>5, EntryKinds
      <4>2. \A y \in Alloc : AllocRef(y) \in ToSet(reflist'[a]) =>
                              y = b \/ AllocRef(y) \in ToSet(reflist[a])
        BY <1>5, EntryKinds
      <4>3. Sound(reflist'[x], x, live', nestedIn', ref')
        BY <1>1, <1>5, <1>6, <3>1, <3>2, <3>3, <4>1, <4>2 DEF Sound
      <4>4. QED BY <1>5, <1>6, <3>1, <3>2, <4>3
    <3>4. CASE x # a
      <4>1. Sound(reflist'[x], x, live', nestedIn', ref')
        BY <1>1, <1>5, <1>6, <3>1, <3>2, <3>4 DEF Sound
      <4>2. QED BY <1>5, <1>6, <3>1, <3>2, <4>1
    <3>5. QED BY <3>3, <3>4
  <2>2. /\ Sound(reflist'[b], b, live', nestedIn', ref')
        /\ AllocRef(b) \in ToSet(reflist'[nestedIn'[b]])
    BY <1>5, <1>6, EmptyList DEF Sound
  <2>3. QED BY <1>1, <1>7, <2>1, <2>2, NextReflistsSound
<1>9. OwnedOnce'
  <2>1. \A x \in live : ToSet(reflist[x]) \subseteq ToSet(reflist'[x])
    BY <1>1, <1>5, InvariantFacts
  <2>2. ASSUME NEW o \in Obj PROVE OwnedRight(o)'
    <3>1. Owners(o)' = Owners(o) /\ Allocated' = Allocated
      BY <1>1 DEF Owners, Allocated, Free
    <3>2. QED BY <1>1, <1>2, <2>1, <3>1, OwnedRightKept
  <2>3. QED BY <2>2 DEF OwnedOnce, OwnedRight
<1>10. MemoryLive'
  <2>1. Allocated' = Allocated
    BY <1>1 DEF Allocated, Free
  <2>2. QED BY <1>1, <1>2, <1>6, <2>1, InvariantFacts DEF MemoryLive
<1>11. QED BY <1>8, <1>9, <1>10 DEF IInv

(* The entries of an allocator added as free belong to the one that replaces it. *)
LEMMA AddFreeAllocatorIInv ==
  ASSUME IInv, NEW a \in Alloc, NEW c \in Alloc, NEW b \in Alloc, AddFreeAllocator(a, c, b)
  PROVE  IInv'
<1>1. /\ c \in live /\ a \in live \ Inside(c) /\ nestedIn[c] = NULL /\ b \notin live
      /\ live' = (live \cup {b}) \ {c}
      /\ nestedIn' = [x \in Alloc |-> IF x = b THEN a
                                      ELSE IF nestedIn[x] = c THEN b ELSE nestedIn[x]]
      /\ reflist' = [reflist EXCEPT ![a] = <<AllocRef(b)>> \o @,
                                    ![b] = reflist[c], ![c] = <<>>]
      /\ ref' = [r \in Ref |-> IF ref[r] # NULL /\ ref[r].home = c
                              THEN [ref[r] EXCEPT !.home = b] ELSE ref[r]]
      /\ destroyed' = destroyed /\ managed' = managed
  BY DEF AddFreeAllocator
<1>2. TypeOK /\ OwnedOnce /\ MemoryLive
  BY DEF IInv, ReflistsSound
<1>3. a # b /\ a # c /\ b # c /\ a \in live
  BY <1>1, InsideFacts
<1>4. /\ <<AllocRef(b)>> \o reflist[a] \in Seq(Reference)
      /\ IsInjective(<<AllocRef(b)>> \o reflist[a])
      /\ ToSet(<<AllocRef(b)>> \o reflist[a]) = {AllocRef(b)} \cup ToSet(reflist[a])
  <2>1. /\ reflist[a] \in Seq(Reference)
        /\ IsInjective(reflist[a]) /\ AllocRef(b) \notin ToSet(reflist[a])
        /\ AllocRef(b) \in Reference
    BY <1>1, <1>3, InvariantFacts, EntryKinds DEF Sound
  <2>2. QED BY <2>1, PrependFacts
<1>5. /\ reflist' \in [Alloc -> Seq(Reference)]
      /\ IsInjective(reflist'[a])
      /\ ToSet(reflist'[a]) = {AllocRef(b)} \cup ToSet(reflist[a])
      /\ reflist'[b] = reflist[c] /\ reflist'[c] = <<>>
      /\ \A x \in Alloc \ {a, b, c} : reflist'[x] = reflist[x]
  <2>1. reflist' = [reflist EXCEPT ![a] = <<AllocRef(b)>> \o reflist[a],
                                  ![b] = reflist[c], ![c] = <<>>]
    BY <1>1, <1>2 DEF TypeOK
  <2>2. QED BY <1>2, <1>3, <1>4, <2>1, EmptyList DEF TypeOK
<1>6. /\ nestedIn' \in [Alloc -> Alloc \cup {NULL}] /\ nestedIn'[b] = a
      /\ \A x \in Alloc \ {b} : nestedIn'[x] = IF nestedIn[x] = c THEN b ELSE nestedIn[x]
      /\ a # NULL /\ b # NULL /\ c # NULL
  BY <1>1, <1>2, <1>3, NullAssumption DEF TypeOK
<1>7. /\ ref' \in [Ref -> [data : Obj, destroy : BOOLEAN, home : Alloc] \cup {NULL}]
      /\ Allocated' = Allocated
      /\ \A r \in Allocated : /\ r \in Ref /\ ref[r] # NULL /\ ref'[r] # NULL
                              /\ ref'[r].data = ref[r].data
                              /\ ref'[r].destroy <=> ref[r].destroy
                              /\ ref'[r].home = IF ref[r].home = c THEN b ELSE ref[r].home
  <2>1. ASSUME NEW r \in Ref, ref[r] # NULL
        PROVE  /\ ref'[r] \in [data : Obj, destroy : BOOLEAN, home : Alloc]
               /\ ref'[r].data = ref[r].data
               /\ ref'[r].destroy <=> ref[r].destroy
               /\ ref'[r].home = IF ref[r].home = c THEN b ELSE ref[r].home
    <3>1. ref[r] \in [data : Obj, destroy : BOOLEAN, home : Alloc]
      BY <1>2, <2>1 DEF TypeOK
    <3>2. CASE ref[r].home = c
      <4>1. ref'[r] = [ref[r] EXCEPT !.home = b]
        BY <1>1, <2>1, <3>2
      <4>2. QED BY <3>1, <3>2, <4>1
    <3>3. CASE ref[r].home # c
      BY <1>1, <3>1, <3>3
    <3>4. QED BY <3>2, <3>3
  <2>2. \A r \in Ref : ref[r] = NULL => ref'[r] = NULL
    BY <1>1
  <2>3. \A r \in Ref : ref[r] # NULL => ref'[r] # NULL
    BY <2>1, NullAssumption
  <2>4. Allocated' = Allocated
    BY <2>2, <2>3 DEF Allocated, Free
  <2>5. ref' \in [Ref -> [data : Obj, destroy : BOOLEAN, home : Alloc] \cup {NULL}]
    <3>1. \A r \in Ref : ref'[r] \in [data : Obj, destroy : BOOLEAN, home : Alloc] \cup {NULL}
      BY <2>1, <2>2
    <3>2. ref' = [r \in Ref |-> ref'[r]]
      BY <1>1
    <3>3. QED BY <3>1, <3>2
  <2>6. QED BY <2>1, <2>3, <2>4, <2>5 DEF Allocated, Free
<1>8. TypeOK'
  BY <1>1, <1>2, <1>5, <1>6, <1>7 DEF TypeOK
<1>9. ASSUME NEW x \in live
      PROVE  /\ x \in Alloc /\ x # b /\ Sound(reflist[x], x, live, nestedIn, ref)
             /\ nestedIn[x] # NULL => /\ nestedIn[x] \in live
                                     /\ AllocRef(x) \in ToSet(reflist[nestedIn[x]])
  BY <1>1, InvariantFacts
<1>10. ReflistsSound'
  <2>1. ASSUME NEW x \in live, NEW y \in Alloc, AllocRef(y) \in ToSet(reflist[x])
        PROVE  y \in live' /\ nestedIn'[y] = IF x = c THEN b ELSE x
    <3>1. x \in Alloc /\ x # NULL /\ Sound(reflist[x], x, live, nestedIn, ref)
      BY <1>9, NullAssumption
    <3>2. y \in live /\ nestedIn[y] = x
      BY <2>1, <3>1 DEF Sound
    <3>3. y # c /\ y # b
      BY <1>1, <3>1, <3>2
    <3>4. QED BY <1>1, <1>6, <2>1, <3>2, <3>3
  <2>2. ASSUME NEW x \in live, NEW r \in Ref, HostRef(r) \in ToSet(reflist[x])
        PROVE  ref'[r] # NULL /\ ref'[r].home = IF x = c THEN b ELSE x
    <3>1. ref[r] # NULL /\ ref[r].home = x
      BY <1>9, <2>2 DEF Sound
    <3>2. QED BY <1>7, <2>2, <3>1 DEF Allocated, Free
  <2>3. ASSUME NEW x \in live' PROVE Sound(reflist'[x], x, live', nestedIn', ref')
    <3>1. CASE x = a
      <4>1. /\ \A r \in Ref : HostRef(r) \in ToSet(reflist'[a]) => HostRef(r) \in ToSet(reflist[a])
            /\ \A y \in Alloc : AllocRef(y) \in ToSet(reflist'[a]) =>
                                y = b \/ AllocRef(y) \in ToSet(reflist[a])
        BY <1>5, EntryKinds
      <4>2. b \in live'
        BY <1>1, <1>3
      <4>3. QED BY <1>3, <1>5, <1>6, <2>1, <2>2, <3>1, <4>1, <4>2 DEF Sound
    <3>2. CASE x = b
      BY <1>1, <1>5, <1>9, <2>1, <2>2, <3>2 DEF Sound
    <3>3. CASE x # a /\ x # b
      <4>1. x \in live /\ x # c /\ x \in Alloc
        BY <1>1, <1>9, <3>3
      <4>2. QED BY <1>5, <1>9, <2>1, <2>2, <3>3, <4>1 DEF Sound
    <3>4. QED BY <3>1, <3>2, <3>3
  <2>4. ASSUME NEW x \in live', nestedIn'[x] # NULL
        PROVE  AllocRef(x) \in ToSet(reflist'[nestedIn'[x]])
    <3>1. CASE x = b
      BY <1>5, <1>6, <3>1
    <3>2. CASE x # b
      <4>1. /\ x \in live /\ x \in Alloc /\ nestedIn[x] # NULL /\ nestedIn[x] \in live
            /\ AllocRef(x) \in ToSet(reflist[nestedIn[x]])
            /\ nestedIn'[x] = IF nestedIn[x] = c THEN b ELSE nestedIn[x]
        BY <1>1, <1>6, <1>9, <2>4, <3>2
      <4>2. nestedIn[x] \in Alloc /\ nestedIn[x] # b
        BY <1>9, <4>1
      <4>3. QED BY <1>5, <4>1, <4>2
    <3>3. QED BY <3>1, <3>2
  <2>5. QED BY <1>8, <2>3, <2>4, NextReflistsSound
<1>11. OwnedOnce'
  <2>1. ASSUME NEW o \in Obj PROVE OwnedRight(o)'
    <3>1. Owners(o)' = Owners(o)
      BY <1>7 DEF Owners
    <3>2. ASSUME NEW q \in Owners(o), q \in Allocated, ref[q].home \in live,
                 HostRef(q) \in ToSet(reflist[ref[q].home])
          PROVE  /\ ref'[q].home \in live'
                 /\ HostRef(q) \in ToSet(reflist'[ref'[q].home])
      <4>1. CASE ref[q].home = c
        <5>1. ref'[q].home = b /\ b \in live'
          BY <1>1, <1>3, <1>7, <3>2, <4>1
        <5>2. HostRef(q) \in ToSet(reflist'[b])
          BY <1>5, <3>2, <4>1
        <5>3. QED BY <5>1, <5>2
      <4>2. CASE ref[q].home # c
        BY <1>1, <1>3, <1>5, <1>7, <1>9, <3>2, <4>2
      <4>3. QED BY <4>1, <4>2
    <3>3. QED BY <1>1, <1>2, <1>7, <3>1, <3>2, OwnedRightKept
  <2>2. QED BY <2>1 DEF OwnedOnce, OwnedRight
<1>12. MemoryLive'
  <2>1. \A r \in Allocated : ref'[r].home \in live'
    BY <1>1, <1>2, <1>3, <1>7 DEF MemoryLive
  <2>2. \A x \in live' : nestedIn'[x] # NULL => nestedIn'[x] \in live'
    BY <1>1, <1>3, <1>6, <1>9
  <2>3. QED BY <1>7, <2>1, <2>2 DEF MemoryLive
<1>13. QED BY <1>10, <1>11, <1>12 DEF IInv

(* Allocators destroyed with everything their lists reach, the first of them       *)
(* unlinked from the list it was on: their references and their nested allocators  *)
(* are all among them, and nothing that is left names one of them.                 *)
Left(x, d) == IF x \in Inside(d) THEN <<>>
              ELSE IF x = nestedIn[d] THEN Unlinked(reflist[x], AllocRef(d))
              ELSE reflist[x]

LEMMA DestroyingIInv ==
  ASSUME IInv, NEW d \in live, Destroying(Inside(d)),
         reflist' = [x \in Alloc |-> Left(x, d)], UNCHANGED managed
  PROVE  IInv'
<1> DEFINE dead == Inside(d)
           owners == {r \in Allocated : /\ ref[r].destroy
                                        /\ \E x \in dead : HostRef(r) \in ToSet(reflist[x])}
<1>1. /\ live' = live \ dead
      /\ destroyed' = [o \in Obj |-> destroyed[o] + Cardinality({r \in owners : ref[r].data = o})]
      /\ ref' = [r \in Ref |-> IF ref[r] # NULL /\ ref[r].home \in dead THEN NULL ELSE ref[r]]
      /\ nestedIn' = [x \in Alloc |-> IF x \in dead THEN NULL ELSE nestedIn[x]]
      /\ managed' = managed
  BY DEF Destroying
<1>2. TypeOK /\ OwnedOnce /\ MemoryLive
  BY DEF IInv, ReflistsSound
<1>3. /\ dead \subseteq live /\ d \in dead /\ d \in Alloc
      /\ \A x \in dead : Nested(x) \subseteq dead
      /\ \A y \in dead \ {d} : \E x \in dead : y \in Nested(x)
  BY InsideFacts, InvariantFacts
<1> HIDE DEF dead, owners
<1>4. ASSUME NEW x \in live
      PROVE  /\ x \in Alloc /\ reflist[x] \in Seq(Reference)
             /\ Sound(reflist[x], x, live, nestedIn, ref)
             /\ nestedIn[x] # NULL => /\ nestedIn[x] \in live
                                      /\ AllocRef(x) \in ToSet(reflist[nestedIn[x]])
  BY InvariantFacts
(* Of the allocators destroyed only the first is listed by one that is left. *)
<1>5. ASSUME NEW x \in live', NEW y \in Alloc, AllocRef(y) \in ToSet(reflist[x]), y \in dead
      PROVE  y = d /\ x = nestedIn[d]
  <2>1. x \in live /\ x \notin dead /\ nestedIn[y] = x
    BY <1>1, <1>4, <1>5 DEF Sound
  <2>2. ASSUME y # d PROVE FALSE
    <3>1. PICK z \in dead : AllocRef(y) \in ToSet(reflist[z])
      BY <1>3, <1>5, <2>2 DEF Nested
    <3>2. nestedIn[y] = z
      BY <1>3, <1>4, <3>1 DEF Sound
    <3>3. QED BY <2>1, <3>1, <3>2
  <2>3. QED BY <2>1, <2>2
(* What is left of the lists. *)
<1>6. ASSUME NEW x \in live'
      PROVE  /\ x \in Alloc /\ x \in live /\ x \notin dead
             /\ reflist'[x] \in Seq(Reference) /\ IsInjective(reflist'[x])
             /\ ToSet(reflist'[x]) = ToSet(reflist[x]) \ {AllocRef(y) : y \in dead}
  <2>1. /\ x \in live /\ x \notin dead /\ x \in Alloc /\ reflist[x] \in Seq(Reference)
        /\ IsInjective(reflist[x])
    BY <1>1, <1>4 DEF Sound
  <2>2. CASE x = nestedIn[d]
    <3>1. reflist'[x] = Unlinked(reflist[x], AllocRef(d))
      BY <2>1, <2>2 DEF Left, dead
    <3>2. AllocRef(d) \in ToSet(reflist[x])
      BY <1>3, <1>4, <2>1, <2>2, NullAssumption
    <3>3. /\ reflist'[x] \in Seq(Reference) /\ IsInjective(reflist'[x])
          /\ ToSet(reflist'[x]) = ToSet(reflist[x]) \ {AllocRef(d)}
      BY <2>1, <3>1, <3>2, UnlinkFromList
    <3>4. \A y \in dead : AllocRef(y) \in ToSet(reflist[x]) => y = d
      BY <1>3, <1>4, <1>5
    <3>5. QED BY <1>3, <2>1, <3>3, <3>4
  <2>3. CASE x # nestedIn[d]
    <3>1. reflist'[x] = reflist[x]
      BY <2>1, <2>3 DEF Left, dead
    <3>2. \A y \in dead : AllocRef(y) \notin ToSet(reflist[x])
      BY <1>3, <1>4, <1>5, <2>3
    <3>3. QED BY <2>1, <3>1, <3>2
  <2>4. QED BY <2>2, <2>3
<1>7. /\ Allocated' = {r \in Allocated : ref[r].home \notin dead}
      /\ \A r \in Allocated' : ref'[r] = ref[r]
  BY <1>1 DEF Allocated, Free
(* An object is destroyed if its owner is. *)
<1>8. ASSUME NEW o \in Obj
      PROVE  /\ destroyed'[o] \in 0..1
             /\ Owners(o) = {} => destroyed'[o] = destroyed[o]
             /\ \A r \in Allocated :
                  /\ Owners(o) = {r} /\ ref[r].home \in live
                  /\ HostRef(r) \in ToSet(reflist[ref[r].home])
                  => destroyed'[o] = IF ref[r].home \in dead THEN destroyed[o] + 1
                                     ELSE destroyed[o]
  <2> DEFINE run == {r \in owners : ref[r].data = o}
  <2>1. destroyed'[o] = destroyed[o] + Cardinality(run) /\ destroyed[o] \in 0..1
    BY <1>1, <1>2 DEF TypeOK
  <2>2. run \subseteq Owners(o)
    BY DEF owners, Owners
  <2>3. CASE Owners(o) = {}
    <3>1. run = {}
      BY <2>2, <2>3
    <3>2. Cardinality(run) = 0
      BY <3>1, FS_EmptySet
    <3>3. QED BY <2>1, <2>3, <3>2
  <2>4. ASSUME NEW r \in Allocated, Owners(o) = {r}, ref[r].home \in live,
               HostRef(r) \in ToSet(reflist[ref[r].home])
        PROVE  /\ destroyed'[o] = IF ref[r].home \in dead THEN destroyed[o] + 1
                                  ELSE destroyed[o]
    <3>1. r \in Ref
      BY DEF Allocated
    <3>2. CASE ref[r].home \in dead
      <4>1. r \in run
        BY <2>4, <3>2 DEF owners, Owners
      <4>2. run = {r}
        BY <2>2, <2>4, <4>1
      <4>3. Cardinality(run) = 1
        BY <4>2, FS_Singleton
      <4>4. QED BY <2>1, <3>2, <4>3
    <3>3. CASE ref[r].home \notin dead
      <4>1. \A x \in dead : HostRef(r) \notin ToSet(reflist[x])
        BY <1>3, <1>4, <3>1, <3>3 DEF Sound
      <4>2. run = {}
        BY <2>2, <2>4, <4>1 DEF owners
      <4>3. Cardinality(run) = 0
        BY <4>2, FS_EmptySet
      <4>4. QED BY <2>1, <3>3, <4>3
    <3>4. QED BY <3>2, <3>3
  <2>5. destroyed'[o] \in 0..1
    <3>1. CASE o \in managed /\ destroyed[o] = 0
      <4>1. PICK r \in Allocated : /\ Owners(o) = {r} /\ ref[r].home \in live
                                   /\ HostRef(r) \in ToSet(reflist[ref[r].home])
        BY <1>2, <3>1 DEF OwnedOnce
      <4>2. destroyed'[o] = 1 \/ destroyed'[o] = 0
        BY <2>4, <3>1, <4>1
      <4>3. QED BY <4>2
    <3>2. CASE ~(o \in managed /\ destroyed[o] = 0)
      <4>1. Owners(o) = {}
        BY <1>2, <3>2 DEF OwnedOnce
      <4>2. run = {}
        BY <2>2, <4>1
      <4>3. Cardinality(run) = 0
        BY <4>2, FS_EmptySet
      <4>4. QED BY <2>1, <4>3
    <3>3. QED BY <3>1, <3>2
  <2> HIDE DEF run
  <2>6. QED BY <2>1, <2>3, <2>4, <2>5
<1>9. TypeOK'
  <2>1. destroyed' \in [Obj -> 0..1]
    BY <1>1, <1>8
  <2>2. reflist' \in [Alloc -> Seq(Reference)]
    <3>1. ASSUME NEW x \in Alloc PROVE Left(x, d) \in Seq(Reference)
      <4>1. CASE x \in dead
        BY <4>1, EmptyList DEF Left, dead
      <4>2. CASE x \notin dead /\ x = nestedIn[d]
        BY <1>3, <1>4, <4>2, UnlinkFromList, NullAssumption DEF Left, dead
      <4>3. CASE x \notin dead /\ x # nestedIn[d]
        BY <1>2, <4>3 DEF Left, dead, TypeOK
      <4>4. QED BY <4>1, <4>2, <4>3
    <3>2. QED BY <3>1
  <2>3. QED BY <1>1, <1>2, <2>1, <2>2 DEF TypeOK
<1>10. ReflistsSound'
  <2>1. ASSUME NEW x \in live' PROVE Sound(reflist'[x], x, live', nestedIn', ref')
    <3>1. ASSUME NEW r \in Ref, HostRef(r) \in ToSet(reflist'[x])
          PROVE  ref'[r] # NULL /\ ref'[r].home = x
      <4>1. x \in live /\ x \notin dead /\ HostRef(r) \in ToSet(reflist[x])
        BY <1>6, <3>1
      <4>2. Sound(reflist[x], x, live, nestedIn, ref)
        BY <1>4, <4>1
      <4>3. ref[r] # NULL /\ ref[r].home = x
        BY <4>1, <4>2 DEF Sound
      <4>4. QED BY <1>1, <4>1, <4>3
    <3>2. ASSUME NEW y \in Alloc, AllocRef(y) \in ToSet(reflist'[x])
          PROVE  y \in live' /\ nestedIn'[y] = x
      <4>1. AllocRef(y) \in ToSet(reflist[x]) /\ y \notin dead
        <5>1. AllocRef(y) \in ToSet(reflist[x]) \ {AllocRef(z) : z \in dead}
          BY <1>6, <3>2
        <5>2. QED BY <5>1
      <4>2. y \in live /\ nestedIn[y] = x
        BY <1>4, <1>6, <4>1 DEF Sound
      <4>3. QED BY <1>1, <4>1, <4>2
    <3>3. QED BY <1>6, <3>1, <3>2 DEF Sound
  <2>2. ASSUME NEW x \in live', nestedIn'[x] # NULL
        PROVE  nestedIn'[x] \in live' /\ AllocRef(x) \in ToSet(reflist'[nestedIn'[x]])
    <3>1. x \in live /\ x \notin dead /\ x \in Alloc /\ nestedIn'[x] = nestedIn[x]
      BY <1>1, <1>6
    <3>2. nestedIn[x] \in live /\ AllocRef(x) \in ToSet(reflist[nestedIn[x]])
      BY <1>4, <2>2, <3>1
    <3>3. nestedIn[x] \notin dead
      BY <1>3, <3>1, <3>2 DEF Nested
    <3>4. nestedIn[x] \in live'
      BY <1>1, <3>2, <3>3
    <3>5. \A y \in dead : AllocRef(y) # AllocRef(x)
      BY <1>3, <1>4, <3>1, EntryKinds
    <3>6. QED BY <1>6, <3>1, <3>2, <3>4, <3>5
  <2>3. QED BY <1>9, <2>1, <2>2, NextReflistsSound
<1>11. OwnedOnce'
  <2>1. ASSUME NEW o \in Obj PROVE OwnedRight(o)'
    <3>1. Owners(o)' = {r \in Owners(o) : ref[r].home \notin dead}
      BY <1>7 DEF Owners
    <3>2. CASE o \in managed /\ destroyed[o] = 0
      <4>1. PICK r \in Allocated : /\ Owners(o) = {r} /\ ref[r].home \in live
                                   /\ HostRef(r) \in ToSet(reflist[ref[r].home])
        BY <1>2, <3>2 DEF OwnedOnce
      <4>2. destroyed'[o] = IF ref[r].home \in dead THEN 1 ELSE 0
        BY <1>8, <3>2, <4>1
      <4>3. CASE ref[r].home \in dead
        <5>1. Owners(o)' = {} /\ destroyed'[o] = 1
          BY <3>1, <4>1, <4>2, <4>3
        <5>2. QED BY <5>1 DEF OwnedRight
      <4>4. CASE ref[r].home \notin dead
        <5>1. Owners(o)' = {r} /\ destroyed'[o] = 0
          BY <3>1, <4>1, <4>2, <4>4
        <5>2. r \in Allocated' /\ ref'[r].home = ref[r].home /\ ref[r].home \in live'
          BY <1>1, <1>7, <4>1, <4>4
        <5>3. \A y \in dead : HostRef(r) # AllocRef(y)
          BY DEF HostRef, AllocRef
        <5>4. HostRef(r) \in ToSet(reflist'[ref'[r].home])
          BY <1>6, <4>1, <5>2, <5>3
        <5>5. QED BY <1>1, <3>2, <5>1, <5>2, <5>4 DEF OwnedRight
      <4>5. QED BY <4>3, <4>4
    <3>3. CASE ~(o \in managed /\ destroyed[o] = 0)
      <4>1. Owners(o) = {}
        BY <1>2, <3>3 DEF OwnedOnce
      <4>2. Owners(o)' = {} /\ destroyed'[o] = destroyed[o]
        BY <1>8, <3>1, <4>1
      <4>3. QED BY <1>1, <3>3, <4>2 DEF OwnedRight
    <3>4. QED BY <3>2, <3>3
  <2>2. QED BY <2>1 DEF OwnedOnce, OwnedRight
<1>12. MemoryLive'
  <2>1. \A r \in Allocated' : ref'[r].home \in live'
    BY <1>1, <1>2, <1>7 DEF MemoryLive
  <2>2. ASSUME NEW x \in live', nestedIn'[x] # NULL PROVE nestedIn'[x] \in live'
    <3>1. x \in live /\ x \notin dead /\ x \in Alloc /\ nestedIn'[x] = nestedIn[x]
      BY <1>1, <1>6
    <3>2. nestedIn[x] \in live /\ AllocRef(x) \in ToSet(reflist[nestedIn[x]])
      BY <1>4, <2>2, <3>1
    <3>3. nestedIn[x] \notin dead
      BY <1>3, <3>1, <3>2 DEF Nested
    <3>4. QED BY <1>1, <3>1, <3>2, <3>3
  <2>3. QED BY <2>1, <2>2 DEF MemoryLive
<1>13. QED BY <1>10, <1>11, <1>12 DEF IInv

LEMMA DestroyIInv ==
  ASSUME IInv, NEW a \in Alloc, Destroy(a)
  PROVE  IInv'
<1>1. /\ a \in live /\ nestedIn[a] = NULL /\ Destroying(Inside(a)) /\ UNCHANGED managed
      /\ reflist' = [x \in Alloc |-> IF x \in Inside(a) THEN <<>> ELSE reflist[x]]
  BY DEF Destroy
<1>2. \A x \in Alloc : x # nestedIn[a]
  BY <1>1, NullAssumption
<1>3. reflist' = [x \in Alloc |-> Left(x, a)]
  BY <1>1, <1>2 DEF Left
<1>4. QED BY <1>1, <1>3, DestroyingIInv

LEMMA DestroyAllocatorIInv ==
  ASSUME IInv, NEW a \in Alloc, NEW b \in Alloc, DestroyAllocator(a, b)
  PROVE  IInv'
<1>1. /\ a \in live /\ AllocRef(b) \in ToSet(reflist[a])
      /\ Destroying(Inside(b)) /\ UNCHANGED managed
      /\ reflist' = [x \in Alloc |-> IF x \in Inside(b) THEN <<>>
                                    ELSE IF x = a THEN Unlinked(reflist[a], AllocRef(b))
                                    ELSE reflist[x]]
  BY DEF DestroyAllocator
<1>2. b \in live /\ nestedIn[b] = a
  BY <1>1, InvariantFacts DEF Sound
<1>3. reflist' = [x \in Alloc |-> Left(x, b)]
  BY <1>1, <1>2 DEF Left
<1>4. QED BY <1>1, <1>2, <1>3, DestroyingIInv

-----------------------------------------------------------------------------
(* The theorems. *)
THEOREM InductiveInvariant == Spec => []IInv
<1>1. IInv /\ [Next]_vars => IInv'
  <2>1. SUFFICES ASSUME IInv, [Next]_vars PROVE IInv'
    OBVIOUS
  <2>2. CASE \E a \in Alloc : Construct(a) \/ Destroy(a)
    BY <2>1, <2>2, ConstructIInv, DestroyIInv
  <2>3. CASE \E a \in Alloc, o \in Obj, r \in Ref : AllocHostObject(a, o, r)
    BY <2>1, <2>3, AllocHostObjectIInv
  <2>4. CASE \E b \in Alloc, r, new \in Ref, move \in BOOLEAN : DeepCopy(b, r, new, move)
    BY <2>1, <2>4, DeepCopyIInv
  <2>5. CASE \E r \in Ref : Release(r)
    BY <2>1, <2>5, ReleaseIInv
  <2>6. CASE \E a \in Alloc, r \in Ref : DestroyHostObject(a, r)
    BY <2>1, <2>6, DestroyHostObjectIInv
  <2>7. CASE \E a, b \in Alloc : AllocAllocator(a, b)
    BY <2>1, <2>7, AllocAllocatorIInv
  <2>8. CASE \E a, b \in Alloc : DestroyAllocator(a, b)
    BY <2>1, <2>8, DestroyAllocatorIInv
  <2>9. CASE \E a, b, c \in Alloc : AddFreeAllocator(a, c, b)
    BY <2>1, <2>9, AddFreeAllocatorIInv
  <2>10. CASE UNCHANGED vars
    <3>1. /\ live' = live /\ nestedIn' = nestedIn /\ reflist' = reflist /\ ref' = ref
          /\ destroyed' = destroyed /\ managed' = managed
      BY <2>10 DEF vars
    <3>2. QED BY <2>1, <3>1 DEF IInv, ReflistsSound, ReflistsInOrder, TypeOK, OwnedOnce, Owners,
                               MemoryLive, Allocated, Free
  <2>11. QED BY <2>1, <2>2, <2>3, <2>4, <2>5, <2>6, <2>7, <2>8, <2>9, <2>10 DEF Next
<1>2. QED BY InitIInv, <1>1, PTL DEF Spec

(* An object an allocator has taken has one owner, listed where it lives, until it *)
(* is destroyed, which is once; an object the host has again has none.             *)
THEOREM AlwaysOwnedOnce == Spec => []OwnedOnce
<1>1. IInv => OwnedOnce
  BY DEF IInv
<1>2. QED BY <1>1, InductiveInvariant, PTL

(* The lists of references name what exists in the memory of their allocator, each *)
(* entry once, and every nested allocator is on one.                               *)
THEOREM ReflistsAlwaysSound == Spec => []ReflistsSound
<1>1. IInv => ReflistsSound
  BY DEF IInv
<1>2. QED BY <1>1, InductiveInvariant, PTL
===============================================================================
