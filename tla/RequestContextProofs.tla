------------------------- MODULE RequestContextProofs -------------------------
(* For any number of threads, contexts, keys and variables: the maps of the       *)
(* handler are counted by their holders, what a map in use shows stays published  *)
(* and unchanged, and the updates are puts and drops in a registry.               *)
EXTENDS RequestContext, FiniteSetTheorems, SequenceTheorems, TLAPS

-----------------------------------------------------------------------------
(* Selecting elements of a sequence in their order. *)
LEMMA RankFacts ==
  ASSUME NEW N \in Nat, NEW I \in SUBSET (1..N)
  PROVE  /\ IsFiniteSet(I) /\ Cardinality(I) \in Nat
         /\ \A i \in I : Rank(I, i) \in 1..Cardinality(I)
         /\ \A i, j \in I : i < j => Rank(I, i) < Rank(I, j)
<1>1. IsFiniteSet(I) /\ Cardinality(I) \in Nat
  <2>1. IsFiniteSet(1..N)
    BY FS_Interval
  <2>2. QED BY <2>1, FS_Subset, FS_CardinalityType
<1> DEFINE upto(i) == {k \in I : k <= i}
<1>2. ASSUME NEW i \in I
      PROVE  /\ IsFiniteSet(upto(i)) /\ Cardinality(upto(i)) \in Nat \ {0}
             /\ Cardinality(upto(i)) <= Cardinality(I)
  <2> DEFINE U == upto(i)
  <2>1. U \in SUBSET I /\ i \in U
    OBVIOUS
  <2> HIDE DEF U
  <2>2. IsFiniteSet(U) /\ Cardinality(U) <= Cardinality(I)
    BY <1>1, <2>1, FS_Subset
  <2>3. Cardinality(U) \in Nat /\ Cardinality(U) # 0
    BY <2>1, <2>2, FS_CardinalityType, FS_EmptySet
  <2>4. QED BY <2>2, <2>3 DEF U
<1>3. ASSUME NEW i \in I, NEW j \in I, i < j
      PROVE  Cardinality(upto(i)) < Cardinality(upto(j))
  <2> DEFINE U == upto(i)
             V == upto(j)
  <2>1. U \in SUBSET V /\ j \in V /\ j \notin U
    <3>1. i \in Nat /\ j \in Nat /\ \A k \in I : k \in Nat
      OBVIOUS
    <3>2. \A k \in I : k <= i => k <= j
      BY <1>3, <3>1
    <3>3. j <= j /\ ~(j <= i)
      BY <1>3, <3>1
    <3>4. U \in SUBSET V
      BY <3>2
    <3>5. j \in V /\ j \notin U
      BY <3>3
    <3>6. QED BY <3>4, <3>5
  <2>2. /\ IsFiniteSet(V) /\ Cardinality(U) \in Nat /\ Cardinality(V) \in Nat
    BY <1>2
  <2> HIDE DEF U, V
  <2>3. Cardinality(U) <= Cardinality(V) /\ (Cardinality(V) = Cardinality(U) => V = U)
    BY <2>1, <2>2, FS_Subset
  <2>4. Cardinality(U) < Cardinality(V)
    BY <2>1, <2>2, <2>3
  <2>5. QED BY <2>4 DEF U, V
<1>4. \A i \in I : Rank(I, i) = Cardinality(upto(i))
  BY DEF Rank
<1> HIDE DEF upto
<1>5. QED BY <1>1, <1>2, <1>3, <1>4

(* Every rank is taken. *)
LEMMA RankTaken ==
  ASSUME NEW N \in Nat, NEW I \in SUBSET (1..N), NEW n \in 1..Cardinality(I)
  PROVE  \E i \in I : Rank(I, i) = n
<1>1. SUFFICES ASSUME \A i \in I : Rank(I, i) # n PROVE FALSE
  OBVIOUS
<1> DEFINE f == [i \in I |-> Rank(I, i)]
           T == (1..Cardinality(I)) \ {n}
<1>2. /\ IsFiniteSet(I) /\ Cardinality(I) \in Nat
      /\ \A i \in I : Rank(I, i) \in 1..Cardinality(I)
      /\ \A i, j \in I : i < j => Rank(I, i) < Rank(I, j)
  BY RankFacts
<1>3. f \in [I -> T]
  BY <1>1, <1>2
<1>4. IsFiniteSet(T) /\ Cardinality(T) < Cardinality(I)
  <2>1. /\ IsFiniteSet(1..Cardinality(I))
        /\ Cardinality(1..Cardinality(I)) = Cardinality(I)
    BY <1>2, FS_Interval
  <2>2. IsFiniteSet(T) /\ Cardinality(T) = Cardinality(I) - 1
    BY <2>1, FS_RemoveElement
  <2>3. QED BY <1>2, <2>2
<1>5. \E i, j \in I : i # j /\ f[i] = f[j]
  <2> HIDE DEF f, T
  <2>1. QED BY <1>2, <1>3, <1>4, FS_PigeonHole
<1>6. PICK i \in I, j \in I : i # j /\ Rank(I, i) = Rank(I, j)
  BY <1>5
<1>7. i \in Nat /\ j \in Nat /\ Rank(I, i) \in Nat
  BY <1>2
<1>8. i < j \/ j < i
  BY <1>6, <1>7
<1>9. QED BY <1>2, <1>6, <1>7, <1>8

(* The elements kept are those at the indexes, each once. *)
LEMMA KeptFacts ==
  ASSUME NEW S, NEW s \in Seq(S), NEW I \in SUBSET DOMAIN s
  PROVE  /\ Kept(s, I) \in Seq(S)
         /\ \E at \in [DOMAIN Kept(s, I) -> I] :
               /\ \A n \in DOMAIN Kept(s, I) : Kept(s, I)[n] = s[at[n]]
               /\ \A m, n \in DOMAIN Kept(s, I) : at[m] = at[n] => m = n
               /\ \A i \in I : \E n \in DOMAIN Kept(s, I) : at[n] = i
<1> DEFINE c == Cardinality(I)
           at == [n \in 1..c |-> CHOOSE i \in I : Rank(I, i) = n]
<1>1. DOMAIN s = 1..Len(s) /\ Len(s) \in Nat /\ \A i \in DOMAIN s : s[i] \in S
  BY LenProperties, ElementOfSeq
<1>2. /\ c \in Nat /\ \A i \in I : Rank(I, i) \in 1..c
      /\ \A i, j \in I : i < j => Rank(I, i) < Rank(I, j)
  BY <1>1, RankFacts
<1>3. \A n \in 1..c : \E i \in I : Rank(I, i) = n
  BY <1>1, RankTaken
<1>4. \A n \in 1..c : at[n] \in I /\ Rank(I, at[n]) = n
  <2>1. TAKE n \in 1..c
  <2>2. at[n] = CHOOSE i \in I : Rank(I, i) = n
    OBVIOUS
  <2>3. \E i \in I : Rank(I, i) = n
    BY <1>3
  <2>4. QED BY <2>2, <2>3
<1>5. Kept(s, I) = [n \in 1..c |-> s[at[n]]]
  BY DEF Kept
<1>6. DOMAIN at = 1..c
  OBVIOUS
<1> HIDE DEF c, at
<1>7. DOMAIN Kept(s, I) = 1..c /\ at \in [1..c -> I]
  <2>1. DOMAIN Kept(s, I) = 1..c
    BY <1>5
  <2>2. at \in [1..c -> I]
    BY <1>4, <1>6 DEF at
  <2>3. QED BY <2>1, <2>2
<1>8. Kept(s, I) \in Seq(S)
  <2>1. Kept(s, I) \in [1..c -> S]
    BY <1>1, <1>4, <1>5
  <2>2. Kept(s, I) \in UNION {[1..k -> S] : k \in Nat}
    BY <1>2, <2>1
  <2>3. QED BY <2>2, SeqDef
<1>9. \A i \in I : \E n \in 1..c : at[n] = i
  <2>1. TAKE i \in I
  <2>2. Rank(I, i) \in 1..c /\ at[Rank(I, i)] \in I /\ Rank(I, at[Rank(I, i)]) = Rank(I, i)
    BY <1>2, <1>4
  <2>3. i \in Nat /\ at[Rank(I, i)] \in Nat
    BY <1>1, <2>2
  <2>4. at[Rank(I, i)] = i
    <3> DEFINE j == at[Rank(I, i)]
    <3> HIDE DEF j
    <3>1. j \in I /\ j \in Nat /\ Rank(I, j) = Rank(I, i) /\ Rank(I, i) \in Nat
      BY <2>2, <2>3 DEF j
    <3>2. ~(i < j) /\ ~(j < i)
      BY <1>2, <3>1
    <3>3. QED BY <2>3, <3>1, <3>2 DEF j
  <2>5. QED BY <2>2, <2>4
<1>10. \A m, n \in 1..c : at[m] = at[n] => m = n
  BY <1>4
<1>11. \A n \in 1..c : Kept(s, I)[n] = s[at[n]]
  BY <1>5
<1>12. /\ at \in [DOMAIN Kept(s, I) -> I]
       /\ \A n \in DOMAIN Kept(s, I) : Kept(s, I)[n] = s[at[n]]
       /\ \A m, n \in DOMAIN Kept(s, I) : at[m] = at[n] => m = n
       /\ \A i \in I : \E n \in DOMAIN Kept(s, I) : at[n] = i
  BY <1>7, <1>9, <1>10, <1>11
<1>13. QED BY <1>8, <1>12

LEMMA InheritedFacts ==
  ASSUME NEW s \in Seq(Entry)
  PROVE  /\ Inherited(s) \in Seq(Entry) /\ DOMAIN Inherited(s) = DOMAIN s
         /\ Len(Inherited(s)) = Len(s)
         /\ \A i \in DOMAIN s : /\ Inherited(s)[i].name = s[i].name
                                /\ Inherited(s)[i].ref = s[i].ref
<1>1. DOMAIN s = 1..Len(s) /\ Len(s) \in Nat /\ \A i \in DOMAIN s : s[i] \in Entry
  BY LenProperties, ElementOfSeq
<1>2. \A i \in DOMAIN s : /\ Inherited(s)[i] = [s[i] EXCEPT !.inheritcnt = @ + 1]
                          /\ Inherited(s)[i] \in Entry
  <2>1. TAKE i \in DOMAIN s
  <2>2. Inherited(s)[i] = [s[i] EXCEPT !.inheritcnt = @ + 1]
    BY DEF Inherited
  <2>3. s[i] \in Entry
    BY <1>1
  <2>4. [s[i] EXCEPT !.inheritcnt = @ + 1] \in Entry
    BY <2>3 DEF Entry
  <2>5. QED BY <2>2, <2>4
<1>3. DOMAIN Inherited(s) = 1..Len(s)
  BY <1>1 DEF Inherited
<1>4. Inherited(s) \in [1..Len(s) -> Entry]
  BY <1>1, <1>2 DEF Inherited
<1>5. Inherited(s) \in Seq(Entry)
  <2>1. Inherited(s) \in UNION {[1..k -> Entry] : k \in Nat}
    BY <1>1, <1>4
  <2>2. QED BY <2>1, SeqDef
<1>6. Len(Inherited(s)) = Len(s)
  BY <1>1, <1>3, <1>5, LenProperties
<1>7. QED BY <1>1, <1>2, <1>3, <1>5, <1>6 DEF Entry

-----------------------------------------------------------------------------
(* A context's variables: created at most as the n-th variable, each name once. *)
Proper(vm, n) == /\ vm \in Seq(Entry) /\ NamedOnce(vm)
                 /\ \A i \in DOMAIN vm : vm[i].ref <= n
Includes(vm, from) == \A i \in DOMAIN from : \E j \in DOMAIN vm :
                         vm[j].name = from[i].name /\ vm[j].ref = from[i].ref
NoLocals(vm) == \A i \in DOMAIN vm : vm[i].name \notin Local

LEMMA EntryFacts ==
  ASSUME NEW vm \in Seq(Entry)
  PROVE  /\ DOMAIN vm = 1..Len(vm) /\ Len(vm) \in Nat
         /\ \A i \in DOMAIN vm : /\ vm[i] \in Entry /\ vm[i].name \in Name
                                 /\ vm[i].ref \in 1..MaxVars /\ vm[i].ref \in Nat
<1>1. DOMAIN vm = 1..Len(vm) /\ Len(vm) \in Nat /\ \A i \in DOMAIN vm : vm[i] \in Entry
  BY LenProperties, ElementOfSeq
<1>2. QED BY <1>1, BoundsAssumption DEF Entry

(* Defining a variable in a proper map gives a proper map. *)
LEMMA CreatedIsProper ==
  ASSUME NEW n \in Nat, n + 1 <= MaxVars, NEW vm, Proper(vm, n), NEW name \in Name
  PROVE  Proper(CreateVariable(vm, name, n + 1), n + 1)
<1> DEFINE new == [name |-> name, ref |-> n + 1, inheritcnt |-> 0]
           made == CreateVariable(vm, name, n + 1)
<1>1. new \in Entry
  BY BoundsAssumption DEF Entry
<1>2. /\ vm \in Seq(Entry) /\ NamedOnce(vm) /\ \A i \in DOMAIN vm : vm[i].ref <= n
      /\ DOMAIN vm = 1..Len(vm) /\ Len(vm) \in Nat
      /\ \A i \in DOMAIN vm : vm[i] \in Entry /\ vm[i].ref \in Nat
  BY EntryFacts DEF Proper
<1>3. CASE EntryOf(vm, name) = {}
  <2>1. made = Append(vm, new)
    BY <1>3 DEF CreateVariable
  <2>2. /\ made \in Seq(Entry) /\ DOMAIN made = 1..Len(vm) + 1 /\ made[Len(vm) + 1] = new
        /\ \A i \in DOMAIN vm : made[i] = vm[i]
    <3>1. /\ made \in Seq(Entry) /\ Len(made) = Len(vm) + 1 /\ made[Len(vm) + 1] = new
          /\ \A i \in 1..Len(vm) : made[i] = vm[i]
      <4>1. Append(vm, new) \in Seq(Entry) /\ Len(Append(vm, new)) = Len(vm) + 1
        BY <1>1, <1>2, AppendProperties
      <4>2. Append(vm, new)[Len(vm) + 1] = new /\ \A i \in 1..Len(vm) : Append(vm, new)[i] = vm[i]
        BY <1>1, <1>2, AppendProperties
      <4>3. QED BY <2>1, <4>1, <4>2
    <3>2. DOMAIN made = 1..Len(made)
      BY <3>1, LenProperties
    <3> HIDE DEF made, new
    <3>3. QED BY <1>2, <3>1, <3>2
  <2>3. \A i \in DOMAIN vm : vm[i].name # name
    BY <1>3 DEF EntryOf
  <2>4. \A i \in DOMAIN made : i \in DOMAIN vm \/ i = Len(vm) + 1
    BY <1>2, <2>2
  <2>5. \A i \in DOMAIN made : made[i].ref <= n + 1
    BY <1>2, <2>2, <2>4
  <2> HIDE DEF made
  <2>6. NamedOnce(made)
    BY <1>2, <2>2, <2>3, <2>4 DEF NamedOnce
  <2>7. QED BY <2>2, <2>5, <2>6 DEF Proper, made
<1>4. CASE EntryOf(vm, name) # {}
  <2>1. made = [i \in DOMAIN vm |-> IF vm[i].name = name THEN new ELSE vm[i]]
    BY <1>4 DEF CreateVariable
  <2> HIDE DEF made
  <2>2. /\ made \in [1..Len(vm) -> Entry] /\ DOMAIN made = DOMAIN vm
        /\ \A i \in DOMAIN vm : made[i].name = vm[i].name /\ made[i].ref <= n + 1
    BY <1>1, <1>2, <2>1
  <2>3. made \in Seq(Entry)
    <3>1. made \in UNION {[1..k -> Entry] : k \in Nat}
      BY <1>2, <2>2
    <3>2. QED BY <3>1, SeqDef
  <2>4. NamedOnce(made)
    BY <1>2, <2>2 DEF NamedOnce
  <2>5. QED BY <2>2, <2>3, <2>4 DEF Proper, made
<1>5. QED BY <1>3, <1>4

(* Keeping some entries of a proper map, or counting their inheritance. *)
LEMMA KeptIsProper ==
  ASSUME NEW n \in Nat, NEW vm, Proper(vm, n), NEW I \in SUBSET DOMAIN vm
  PROVE  /\ Proper(Kept(vm, I), n)
         /\ \A i \in DOMAIN Kept(vm, I) : \E j \in I : Kept(vm, I)[i] = vm[j]
         /\ \A j \in I : \E i \in DOMAIN Kept(vm, I) : Kept(vm, I)[i] = vm[j]
<1> DEFINE k == Kept(vm, I)
<1>1. vm \in Seq(Entry) /\ NamedOnce(vm) /\ \A i \in DOMAIN vm : vm[i].ref <= n
  BY DEF Proper
<1>2. k \in Seq(Entry)
  BY <1>1, KeptFacts
<1>3. PICK at \in [DOMAIN k -> I] :
          /\ \A i \in DOMAIN k : k[i] = vm[at[i]]
          /\ \A i, j \in DOMAIN k : at[i] = at[j] => i = j
          /\ \A j \in I : \E i \in DOMAIN k : at[i] = j
  BY <1>1, KeptFacts
<1> HIDE DEF k
<1>4. \A i \in DOMAIN k : at[i] \in I /\ at[i] \in DOMAIN vm
  BY <1>3
<1>5. NamedOnce(k)
  <2>1. SUFFICES ASSUME NEW i \in DOMAIN k, NEW j \in DOMAIN k, k[i].name = k[j].name PROVE i = j
    BY DEF NamedOnce
  <2>2. vm[at[i]].name = vm[at[j]].name /\ at[i] \in DOMAIN vm /\ at[j] \in DOMAIN vm
    BY <1>3, <1>4, <2>1
  <2>3. at[i] = at[j]
    BY <1>1, <2>2 DEF NamedOnce
  <2>4. QED BY <1>3, <2>3
<1>6. /\ \A i \in DOMAIN k : k[i].ref <= n
      /\ \A i \in DOMAIN k : \E j \in I : k[i] = vm[j]
      /\ \A j \in I : \E i \in DOMAIN k : k[i] = vm[j]
  BY <1>1, <1>3, <1>4
<1>7. QED BY <1>2, <1>5, <1>6 DEF Proper, k

LEMMA InheritedIsProper ==
  ASSUME NEW n \in Nat, NEW vm, Proper(vm, n)
  PROVE  Proper(Inherited(vm), n)
<1> DEFINE h == Inherited(vm)
<1>1. /\ h \in Seq(Entry) /\ DOMAIN h = DOMAIN vm
      /\ \A i \in DOMAIN vm : h[i].name = vm[i].name /\ h[i].ref = vm[i].ref
  BY InheritedFacts DEF Proper
<1> HIDE DEF h
<1>2. QED BY <1>1 DEF Proper, NamedOnce, h

(* Dropping the local variables. *)
LEMMA WithoutLocalIsProper ==
  ASSUME NEW n \in Nat, NEW vm, Proper(vm, n)
  PROVE  Proper(WithoutLocalVariables(vm), n) /\ NoLocals(WithoutLocalVariables(vm))
<1> DEFINE I == {i \in DOMAIN vm : vm[i].name \notin Local}
           k == Kept(vm, I)
<1> I \in SUBSET DOMAIN vm
  OBVIOUS
<1>1. Proper(k, n) /\ \A i \in DOMAIN k : \E j \in I : k[i] = vm[j]
  <2> HIDE DEF I
  <2>1. QED BY KeptIsProper
<1>2. NoLocals(k)
  BY <1>1 DEF NoLocals
<1>3. QED BY <1>1, <1>2 DEF WithoutLocalVariables

(* Merging a published map: the result is proper and has the entries it had; if  *)
(* nothing conflicts, it has every entry of the published map.                   *)
LEMMA MergedIsProper ==
  ASSUME NEW n \in Nat, NEW vm, Proper(vm, n), NEW from, Proper(from, n)
  PROVE  /\ Proper(Merged(vm, from), n)
         /\ Conflicts(vm, from) = {} => Includes(Merged(vm, from), from)
<1> DEFINE I == {i \in DOMAIN from : /\ EntryOf(vm, from[i].name) = {}
                                     /\ \A c \in Conflicts(vm, from) : i < c}
           k == Kept(from, I)
           h == Inherited(k)
           all == vm \o h
<1> I \in SUBSET DOMAIN from
  OBVIOUS
<1>1. /\ Proper(k, n)
      /\ \A i \in DOMAIN k : \E j \in I : k[i] = from[j]
      /\ \A j \in I : \E i \in DOMAIN k : k[i] = from[j]
  <2> HIDE DEF I
  <2>1. QED BY KeptIsProper
<1>2. Merged(vm, from) = all
  BY DEF Merged
<1>3. /\ h \in Seq(Entry) /\ DOMAIN h = DOMAIN k
      /\ \A i \in DOMAIN k : h[i].name = k[i].name /\ h[i].ref = k[i].ref
  BY <1>1, InheritedFacts DEF Proper
<1>4. Proper(h, n)
  BY <1>1, InheritedIsProper
<1>5. \A i \in DOMAIN h : EntryOf(vm, h[i].name) = {}
  <2>1. TAKE i \in DOMAIN h
  <2>2. PICK j \in I : k[i] = from[j]
    BY <1>1, <1>3
  <2>3. h[i].name = from[j].name
    BY <1>3, <2>2
  <2>4. QED BY <2>2, <2>3
<1>6. /\ vm \in Seq(Entry) /\ DOMAIN vm = 1..Len(vm) /\ Len(vm) \in Nat
      /\ NamedOnce(vm) /\ \A i \in DOMAIN vm : vm[i].ref <= n
  BY EntryFacts DEF Proper
<1>7. /\ DOMAIN h = 1..Len(h) /\ Len(h) \in Nat
      /\ NamedOnce(h) /\ \A i \in DOMAIN h : h[i].ref <= n
  BY <1>4, EntryFacts DEF Proper
<1> HIDE DEF h, k, I
<1>8. all \in Seq(Entry) /\ Len(all) = Len(vm) + Len(h)
  BY <1>3, <1>6, ConcatProperties
<1>9. \A i \in 1..Len(vm) + Len(h) : all[i] = IF i <= Len(vm) THEN vm[i] ELSE h[i - Len(vm)]
  BY <1>3, <1>6, ConcatProperties
<1>10. DOMAIN all = 1..Len(vm) + Len(h)
  BY <1>8, LenProperties
<1> HIDE DEF all
<1>11. \A i \in DOMAIN all : \/ i \in DOMAIN vm /\ all[i] = vm[i]
                             \/ \E j \in DOMAIN h : i = Len(vm) + j /\ all[i] = h[j]
  <2>1. TAKE i \in DOMAIN all
  <2>2. i \in 1..Len(vm) + Len(h)
    BY <1>10
  <2>3. CASE i <= Len(vm)
    BY <1>6, <1>9, <2>2, <2>3
  <2>4. CASE ~(i <= Len(vm))
    <3>1. i - Len(vm) \in DOMAIN h /\ i = Len(vm) + (i - Len(vm))
      BY <1>6, <1>7, <2>2, <2>4
    <3>2. all[i] = h[i - Len(vm)]
      BY <1>9, <2>2, <2>4
    <3>3. QED BY <3>1, <3>2
  <2>5. QED BY <2>3, <2>4
<1>12. \A i \in DOMAIN vm : i \in DOMAIN all /\ all[i] = vm[i]
  BY <1>6, <1>7, <1>9, <1>10
<1>13. \A j \in DOMAIN h : Len(vm) + j \in DOMAIN all /\ all[Len(vm) + j] = h[j]
  <2>1. TAKE j \in DOMAIN h
  <2>2. /\ j \in 1..Len(h) /\ Len(vm) + j \in 1..Len(vm) + Len(h)
        /\ ~(Len(vm) + j <= Len(vm)) /\ Len(vm) + j - Len(vm) = j
    BY <1>6, <1>7
  <2>3. QED BY <1>9, <1>10, <2>2
<1>14. \A i \in DOMAIN all : all[i].ref <= n
  BY <1>6, <1>7, <1>11
<1>15. \A i \in DOMAIN vm, j \in DOMAIN h : vm[i].name # h[j].name
  BY <1>5 DEF EntryOf
<1>16. NamedOnce(all)
  <2>1. SUFFICES ASSUME NEW i \in DOMAIN all, NEW j \in DOMAIN all, all[i].name = all[j].name
                 PROVE i = j
    BY DEF NamedOnce
  <2>2. CASE i \in DOMAIN vm /\ all[i] = vm[i]
    BY <1>6, <1>11, <1>15, <2>1, <2>2 DEF NamedOnce
  <2>3. CASE \E a \in DOMAIN h : i = Len(vm) + a /\ all[i] = h[a]
    <3>1. PICK a \in DOMAIN h : i = Len(vm) + a /\ all[i] = h[a]
      BY <2>3
    <3>2. CASE j \in DOMAIN vm /\ all[j] = vm[j]
      BY <1>15, <2>1, <3>1, <3>2
    <3>3. CASE \E b \in DOMAIN h : j = Len(vm) + b /\ all[j] = h[b]
      <4>1. PICK b \in DOMAIN h : j = Len(vm) + b /\ all[j] = h[b]
        BY <3>3
      <4>2. a = b
        BY <1>7, <2>1, <3>1, <4>1 DEF NamedOnce
      <4>3. QED BY <3>1, <4>1, <4>2
    <3>4. QED BY <1>11, <3>2, <3>3
  <2>4. QED BY <1>11, <2>2, <2>3
<1>17. Proper(all, n)
  BY <1>8, <1>14, <1>16 DEF Proper
<1>18. ASSUME Conflicts(vm, from) = {}, NEW i \in DOMAIN from
       PROVE  \E j \in DOMAIN all : all[j].name = from[i].name /\ all[j].ref = from[i].ref
  <2>1. CASE EntryOf(vm, from[i].name) = {}
    <3>1. i \in I
      BY <1>18, <2>1 DEF I
    <3>2. PICK a \in DOMAIN k : k[a] = from[i]
      BY <1>1, <3>1
    <3>3. a \in DOMAIN h /\ h[a].name = from[i].name /\ h[a].ref = from[i].ref
      BY <1>3, <3>2
    <3>4. QED BY <1>13, <3>3
  <2>2. CASE EntryOf(vm, from[i].name) # {}
    <3>1. PICK j \in EntryOf(vm, from[i].name) : TRUE
      BY <2>2
    <3>2. j \in DOMAIN vm /\ vm[j].name = from[i].name
      BY <3>1 DEF EntryOf
    <3>3. vm[j].ref = from[i].ref
      BY <1>18, <3>1 DEF Conflicts
    <3>4. QED BY <1>12, <3>2, <3>3
  <2>3. QED BY <2>1, <2>2
<1>19. QED BY <1>2, <1>17, <1>18 DEF Includes

-----------------------------------------------------------------------------
(* Counting the holders of a map. *)
Bit(b) == IF b THEN 1 ELSE 0

LEMMA OneMoves ==
  ASSUME NEW W, IsFiniteSet(W), NEW t \in W, NEW S \in SUBSET W, NEW T \in SUBSET W,
         \A u \in W \ {t} : u \in S <=> u \in T
  PROVE  /\ Cardinality(S) \in Nat /\ Cardinality(T) \in Nat
         /\ Cardinality(S) + Bit(t \in T) = Cardinality(T) + Bit(t \in S)
<1>1. /\ IsFiniteSet(S) /\ Cardinality(S) \in Nat
      /\ IsFiniteSet(T) /\ Cardinality(T) \in Nat
  BY FS_Subset, FS_CardinalityType
<1>2. CASE t \in S <=> t \in T
  <2>1. S = T
    BY <1>2
  <2>2. QED BY <1>1, <2>1 DEF Bit
<1>3. CASE t \in S /\ t \notin T
  <2>1. T = S \ {t}
    BY <1>3
  <2>2. Cardinality(T) = Cardinality(S) - 1
    BY <1>1, <1>3, <2>1, FS_RemoveElement
  <2>3. QED BY <1>1, <1>3, <2>2 DEF Bit
<1>4. CASE t \notin S /\ t \in T
  <2>1. S = T \ {t}
    BY <1>4
  <2>2. Cardinality(S) = Cardinality(T) - 1
    BY <1>1, <1>4, <2>1, FS_RemoveElement
  <2>3. QED BY <1>1, <1>4, <2>2 DEF Bit
<1>5. QED BY <1>2, <1>3, <1>4

Merging(m) == {t \in Thread : pc[t].op = "merging" /\ pc[t].map = m}
Holding(m) == {t \in Thread : pc[t].op = "publishing" /\ pc[t].held = m}
Copying(m) == {t \in Thread : pc[t].op = "publishing" /\ pc[t].copy = m}
Counted(m) == Cardinality(Merging(m)) + Cardinality(Holding(m)) + Cardinality(Copying(m))
Weight(t, m) == Bit(t \in Merging(m)) + Bit(t \in Holding(m)) + Bit(t \in Copying(m))

LEMMA HoldersCounted ==
  ASSUME NEW m \in Map
  PROVE  /\ Holders(m) = Bit(m = contextmap) + Counted(m)
         /\ Counted(m) \in Nat
<1>1. /\ Cardinality(Merging(m)) \in Nat /\ Cardinality(Holding(m)) \in Nat
      /\ Cardinality(Copying(m)) \in Nat
  <2>1. /\ Merging(m) \in SUBSET Thread /\ Holding(m) \in SUBSET Thread
        /\ Copying(m) \in SUBSET Thread
    BY DEF Merging, Holding, Copying
  <2>2. QED BY <2>1, ThreadAssumption, FS_Subset, FS_CardinalityType
<1>2. Holders(m) = Bit(m = contextmap) + Cardinality(Merging(m))
                     + Cardinality(Holding(m)) + Cardinality(Copying(m))
  BY DEF Holders, Bit, Merging, Holding, Copying
<1>3. QED BY <1>1, <1>2 DEF Counted, Bit

LEMMA HoldersCountedNext ==
  ASSUME NEW m \in Map
  PROVE  Holders(m)' = Bit(m = contextmap') + Counted(m)'
<1> DEFINE a == Cardinality(Merging(m)')
           b == Cardinality(Holding(m)')
           c == Cardinality(Copying(m)')
<1>1. a \in Nat /\ b \in Nat /\ c \in Nat
  <2>1. Merging(m)' \in SUBSET Thread /\ Holding(m)' \in SUBSET Thread /\ Copying(m)' \in SUBSET Thread
    BY DEF Merging, Holding, Copying
  <2>2. QED BY <2>1, ThreadAssumption, FS_Subset, FS_CardinalityType
<1>2. Holders(m)' = Bit(m = contextmap') + a + b + c
  BY DEF Holders, Bit, Merging, Holding, Copying
<1>3. Counted(m)' = a + b + c
  BY DEF Counted
<1> HIDE DEF a, b, c
<1>4. QED BY <1>1, <1>2, <1>3 DEF Bit

(* A step of one thread changes the count by what that thread holds. *)
LEMMA CountMoves ==
  ASSUME NEW t \in Thread, \A u \in Thread \ {t} : pc'[u] = pc[u], NEW m \in Map
  PROVE  /\ Counted(m) + Weight(t, m)' = Counted(m)' + Weight(t, m)
         /\ Counted(m) \in Nat /\ Counted(m)' \in Nat
<1>1. /\ Merging(m) \in SUBSET Thread /\ Merging(m)' \in SUBSET Thread
      /\ \A u \in Thread \ {t} : u \in Merging(m) <=> u \in Merging(m)'
  BY DEF Merging
<1>2. /\ Holding(m) \in SUBSET Thread /\ Holding(m)' \in SUBSET Thread
      /\ \A u \in Thread \ {t} : u \in Holding(m) <=> u \in Holding(m)'
  BY DEF Holding
<1>3. /\ Copying(m) \in SUBSET Thread /\ Copying(m)' \in SUBSET Thread
      /\ \A u \in Thread \ {t} : u \in Copying(m) <=> u \in Copying(m)'
  BY DEF Copying
<1> DEFINE a1 == Cardinality(Merging(m))
           b1 == Cardinality(Merging(m)')
           x1 == Bit(t \in Merging(m))
           y1 == Bit(t \in Merging(m)')
           a2 == Cardinality(Holding(m))
           b2 == Cardinality(Holding(m)')
           x2 == Bit(t \in Holding(m))
           y2 == Bit(t \in Holding(m)')
           a3 == Cardinality(Copying(m))
           b3 == Cardinality(Copying(m)')
           x3 == Bit(t \in Copying(m))
           y3 == Bit(t \in Copying(m)')
<1>4. a1 \in Nat /\ b1 \in Nat /\ a1 + y1 = b1 + x1
  BY <1>1, ThreadAssumption, OneMoves
<1>5. a2 \in Nat /\ b2 \in Nat /\ a2 + y2 = b2 + x2
  BY <1>2, ThreadAssumption, OneMoves
<1>6. a3 \in Nat /\ b3 \in Nat /\ a3 + y3 = b3 + x3
  BY <1>3, ThreadAssumption, OneMoves
<1>7. /\ x1 \in Nat /\ y1 \in Nat /\ x2 \in Nat /\ y2 \in Nat /\ x3 \in Nat /\ y3 \in Nat
  BY DEF Bit
<1>8. /\ Counted(m) = a1 + a2 + a3 /\ Counted(m)' = b1 + b2 + b3
      /\ Weight(t, m) = x1 + x2 + x3 /\ Weight(t, m)' = y1 + y2 + y3
  BY DEF Counted, Weight
<1> HIDE DEF a1, b1, x1, y1, a2, b2, x2, y2, a3, b3, x3, y3
<1>9. QED BY <1>4, <1>5, <1>6, <1>7, <1>8

(* A map that was never created is held by nobody. *)
LEMMA UnmadeUnused ==
  ASSUME IInv, NEW m \in Map, m > nmaps
  PROVE  uses[m] = 0 /\ m # contextmap /\ Counted(m) = 0
<1>1. nmaps \in Nat /\ m \in Nat /\ contextmap \in 1..nmaps
  BY BoundsAssumption DEF IInv, TypeOK, Map
<1>2. Merging(m) = {} /\ Holding(m) = {} /\ Copying(m) = {}
  <2>1. ASSUME NEW t \in Merging(m) PROVE FALSE
    BY <1>1 DEF Merging, IInv, Reading
  <2>2. ASSUME NEW t \in Holding(m) PROVE FALSE
    BY <1>1 DEF Holding, IInv, Building
  <2>3. ASSUME NEW t \in Copying(m) PROVE FALSE
    BY <1>1 DEF Copying, IInv, Building
  <2>4. QED BY <2>1, <2>2, <2>3
<1>3. Counted(m) = 0
  BY <1>2, FS_EmptySet DEF Counted
<1>4. uses[m] = Holders(m)
  BY DEF IInv, MapsCounted
<1>5. QED BY <1>1, <1>3, <1>4, HoldersCounted DEF Bit

-----------------------------------------------------------------------------
(* The invariant holds at the start. *)
AllProper == \A c \in Ctx : /\ Proper(varmap[c], nvars)
                            /\ owner[c] = "handler" => NoLocals(varmap[c])

LEMMA ProperFromIInv == IInv => AllProper
<1>1. SUFFICES ASSUME IInv, NEW c \in Ctx
               PROVE  /\ Proper(varmap[c], nvars)
                      /\ owner[c] = "handler" => NoLocals(varmap[c])
  BY DEF AllProper
<1>2. varmap[c] \in Seq(Entry)
  BY <1>1 DEF IInv, TypeOK
<1>3. /\ \A i \in DOMAIN varmap[c] : varmap[c][i].ref <= nvars
      /\ NamedOnce(varmap[c])
      /\ owner[c] = "handler" => \A i \in DOMAIN varmap[c] : varmap[c][i].name \notin Local
  <2>1. VariablesSound
    BY <1>1 DEF IInv
  <2>2. QED BY <2>1 DEF VariablesSound
<1>4. Proper(varmap[c], nvars)
  BY <1>2, <1>3 DEF Proper
<1>5. owner[c] = "handler" => NoLocals(varmap[c])
  BY <1>3 DEF NoLocals
<1>6. QED BY <1>4, <1>5

LEMMA InitIInv == Init => IInv
<1>1. SUFFICES ASSUME Init PROVE IInv
  OBVIOUS
<1>2. MaxMaps \in Nat /\ MaxVars \in Nat /\ 1 \in Map
  BY BoundsAssumption DEF Map
<1>3. <<>> \in Seq(Entry) /\ DOMAIN <<>> = {} /\ <<>> \in Seq([by : Ctx, defined : BOOLEAN]) /\ Len(<<>>) = 0
  <2>1. <<>> \in Seq(Entry) /\ <<>> \in Seq([by : Ctx, defined : BOOLEAN]) /\ Len(<<>>) = 0
    BY EmptySeq
  <2>2. DOMAIN <<>> = 1..0
    BY <2>1, LenProperties
  <2>3. QED BY <2>1, <2>2
<1>4. TypeOK
  BY <1>1, <1>2, <1>3 DEF Init, TypeOK, Errors
<1>5. MapsCounted
  <2>1. SUFFICES ASSUME NEW m \in Map PROVE uses[m] = Holders(m)
    BY DEF MapsCounted
  <2>2. Merging(m) = {} /\ Holding(m) = {} /\ Copying(m) = {}
    BY <1>1 DEF Init, Idle, Merging, Holding, Copying
  <2>3. Counted(m) = 0
    BY <2>2, FS_EmptySet DEF Counted
  <2>4. uses[m] = Bit(m = contextmap)
    BY <1>1 DEF Init, Bit
  <2>5. QED BY <2>3, <2>4, HoldersCounted DEF Bit
<1>6. PublishedLive
  BY <1>1 DEF Init, PublishedLive
<1>7. VariablesSound
  BY <1>1, <1>3 DEF Init, VariablesSound, NamedOnce
<1>8. \A t \in Thread : Building(t) /\ Reading(t)
  BY <1>1 DEF Init, Idle, Building, Reading
<1>9. QED BY <1>4, <1>5, <1>6, <1>7, <1>8 DEF IInv

-----------------------------------------------------------------------------
(* What threads do to their own contexts leaves the maps as they are. *)
LEMMA OwnStep ==
  ASSUME IInv, UNCHANGED <<mapVars, pc, lock>>,
         \A d \in Ctx : \/ owner'[d] = owner[d]
                        \/ /\ owner[d] # "handler"
                           /\ \A u \in Thread : owner[d] = u => pc[u] = Idle
  PROVE  MapsCounted' /\ PublishedLive' /\ \A u \in Thread : Building(u)' /\ Reading(u)'
<1>1. UNCHANGED tab /\ UNCHANGED uses /\ UNCHANGED nmaps /\ UNCHANGED contextmap
  BY DEF mapVars
<1>2. MapsCounted'
  BY <1>1 DEF IInv, MapsCounted, Holders
<1>3. PublishedLive'
  <2>1. \A m \in Map, k \in Key : tab[m][k] \in Ctx \cup {NULL}
    BY DEF IInv, TypeOK
  <2>2. QED BY <1>1, <2>1 DEF IInv, PublishedLive, Live
<1>4. ASSUME NEW u \in Thread PROVE Building(u)' /\ Reading(u)'
  <2>1. Building(u)'
    BY <1>1 DEF IInv, Building
  <2>2. Reading(u)'
    <3>1. SUFFICES ASSUME pc[u].op \in {"reading", "merging"} PROVE owner'[pc[u].ctx] = u
      BY <1>1 DEF IInv, Reading
    <3>2. pc[u] # Idle /\ pc[u] \in Busy
      BY <3>1 DEF Idle, IInv, TypeOK
    <3>3. pc[u].ctx \in Ctx /\ owner[pc[u].ctx] = u
      BY <3>1, <3>2 DEF Busy, IInv, Reading
    <3>4. QED BY <3>2, <3>3
  <2>3. QED BY <2>1, <2>2
<1>5. QED BY <1>2, <1>3, <1>4

LEMMA CreateKeeps ==
  ASSUME IInv, NEW t \in Thread, NEW c \in Ctx, Create(t, c)
  PROVE  IInv'
<1>1. /\ pc[t] = Idle /\ owner[c] = NULL /\ owner' = [owner EXCEPT ![c] = t]
      /\ UNCHANGED <<varmap, errcode, var, nvars>> /\ UNCHANGED <<mapVars, pc, lock>>
  BY DEF Create
<1>2. t # "handler" /\ NULL # "handler" /\ \A u \in Thread : NULL # u
  BY ThreadAssumption, NullAssumption
<1>3. owner \in [Ctx -> Thread \cup {"handler", "freed", NULL}]
  BY DEF IInv, TypeOK
<1>4. TypeOK'
  BY <1>1, <1>3 DEF IInv, TypeOK, mapVars
<1>5. VariablesSound'
  BY <1>1, <1>2, <1>3 DEF IInv, VariablesSound, NamedOnce
<1>6. MapsCounted' /\ PublishedLive' /\ \A u \in Thread : Building(u)' /\ Reading(u)'
  BY <1>1, <1>2, <1>3, OwnStep
<1>7. QED BY <1>4, <1>5, <1>6 DEF IInv

LEMMA DestroyKeeps ==
  ASSUME IInv, NEW t \in Thread, NEW c \in Ctx, Destroy(t, c)
  PROVE  IInv'
<1>1. /\ pc[t] = Idle /\ owner[c] = t /\ owner' = [owner EXCEPT ![c] = "freed"]
      /\ varmap' = [varmap EXCEPT ![c] = <<>>] /\ errcode' = [errcode EXCEPT ![c] = "Ok"]
      /\ UNCHANGED <<var, nvars>> /\ UNCHANGED <<mapVars, pc, lock>>
  BY DEF Destroy
<1>2. t # "handler"
  BY ThreadAssumption
<1>3. owner \in [Ctx -> Thread \cup {"handler", "freed", NULL}] /\ varmap \in [Ctx -> Seq(Entry)]
  BY DEF IInv, TypeOK
<1>4. <<>> \in Seq(Entry) /\ DOMAIN <<>> = {}
  BY EmptySeq, LenProperties
<1>5. TypeOK'
  BY <1>1, <1>3, <1>4 DEF IInv, TypeOK, mapVars, Errors
<1>6. VariablesSound'
  <2>1. SUFFICES ASSUME NEW d \in Ctx
                 PROVE  /\ \A i \in DOMAIN varmap'[d] : varmap'[d][i].ref <= nvars'
                        /\ NamedOnce(varmap'[d])
                        /\ owner'[d] = "handler" =>
                             \A i \in DOMAIN varmap'[d] : varmap'[d][i].name \notin Local
    BY DEF VariablesSound
  <2>2. CASE d = c
    <3>1. varmap'[d] = <<>>
      BY <1>1, <1>3, <2>2
    <3>2. QED BY <1>4, <3>1 DEF NamedOnce
  <2>3. CASE d # c
    <3>1. varmap'[d] = varmap[d] /\ owner'[d] = owner[d] /\ nvars' = nvars
      BY <1>1, <1>3, <2>3
    <3>2. VariablesSound
      BY DEF IInv
    <3>3. QED BY <3>1, <3>2 DEF VariablesSound
  <2>4. QED BY <2>2, <2>3
<1>7. MapsCounted' /\ PublishedLive' /\ \A u \in Thread : Building(u)' /\ Reading(u)'
  BY <1>1, <1>2, <1>3, OwnStep
<1>8. QED BY <1>5, <1>6, <1>7 DEF IInv

LEMMA DefineVariableKeeps ==
  ASSUME IInv, NEW t \in Thread, NEW c \in Ctx, NEW n \in Name, NEW ok \in BOOLEAN,
         DefineVariable(t, c, n, ok)
  PROVE  IInv'
<1> DEFINE value == [by |-> c, defined |-> ok]
           Values == [by : Ctx, defined : BOOLEAN]
<1>1. /\ nvars < MaxVars /\ nvars' = nvars + 1
      /\ varmap' = [varmap EXCEPT ![c] = CreateVariable(varmap[c], n, nvars + 1)]
      /\ var' = Append(var, value)
      /\ errcode' = IF ok THEN errcode ELSE [errcode EXCEPT ![c] = "NoMemError"]
      /\ owner[c] = t /\ UNCHANGED owner /\ UNCHANGED <<mapVars, pc, lock>>
  BY DEF DefineVariable
<1>2. t # "handler"
  BY ThreadAssumption
<1>3. /\ varmap \in [Ctx -> Seq(Entry)] /\ nvars \in Nat /\ MaxVars \in Nat
      /\ var \in Seq(Values) /\ Len(var) = nvars
  BY BoundsAssumption DEF IInv, TypeOK
<1>4. AllProper
  BY ProperFromIInv
<1>5. Proper(CreateVariable(varmap[c], n, nvars + 1), nvars + 1)
  BY <1>1, <1>3, <1>4, CreatedIsProper DEF AllProper
<1>6. \A d \in Ctx : /\ Proper(varmap'[d], nvars')
                     /\ owner'[d] = "handler" => NoLocals(varmap'[d])
  <2>1. SUFFICES ASSUME NEW d \in Ctx
                 PROVE  /\ Proper(varmap'[d], nvars')
                        /\ owner'[d] = "handler" => NoLocals(varmap'[d])
    OBVIOUS
  <2>2. CASE d = c
    BY <1>1, <1>2, <1>3, <1>5, <2>2
  <2>3. CASE d # c
    <3>1. varmap'[d] = varmap[d] /\ Proper(varmap[d], nvars) /\ owner'[d] = owner[d]
      BY <1>1, <1>3, <1>4, <2>3 DEF AllProper
    <3>2. Proper(varmap[d], nvars + 1)
      <4>1. \A i \in DOMAIN varmap[d] : varmap[d][i].ref <= nvars /\ varmap[d][i].ref \in Nat
        BY <3>1, EntryFacts DEF Proper
      <4>2. \A i \in DOMAIN varmap[d] : varmap[d][i].ref <= nvars + 1
        BY <1>3, <4>1
      <4>3. QED BY <3>1, <4>2 DEF Proper
    <3>3. QED BY <1>1, <1>4, <3>1, <3>2 DEF AllProper
  <2>4. QED BY <2>2, <2>3
<1>7. VariablesSound'
  BY <1>6 DEF VariablesSound, Proper, NoLocals
<1>8. TypeOK'
  <2>1. varmap' \in [Ctx -> Seq(Entry)]
    BY <1>1, <1>3, <1>5 DEF Proper
  <2>2. var' \in Seq(Values) /\ Len(var') = nvars'
    <3>1. value \in Values
      OBVIOUS
    <3> HIDE DEF value, Values
    <3>2. QED BY <1>1, <1>3, <3>1, AppendProperties
  <2>3. errcode' \in [Ctx -> Errors]
    BY <1>1 DEF IInv, TypeOK, Errors
  <2>4. nvars' \in 0..MaxVars
    BY <1>1, <1>3
  <2> HIDE DEF value
  <2>5. QED BY <1>1, <2>1, <2>2, <2>3, <2>4 DEF IInv, TypeOK, mapVars
<1>9. MapsCounted' /\ PublishedLive' /\ \A u \in Thread : Building(u)' /\ Reading(u)'
  BY <1>1, OwnStep
<1>10. QED BY <1>7, <1>8, <1>9 DEF IInv

LEMMA TransferFailsKeeps ==
  ASSUME IInv, NEW t \in Thread, NEW c \in Ctx, TransferFails(t, c)
  PROVE  IInv'
<1>1. /\ varmap' = [varmap EXCEPT ![c] = WithoutLocalVariables(varmap[c])]
      /\ UNCHANGED <<owner, errcode, var, nvars>> /\ UNCHANGED <<mapVars, pc, lock>>
  BY DEF TransferFails
<1>2. varmap \in [Ctx -> Seq(Entry)] /\ nvars \in Nat
  BY BoundsAssumption DEF IInv, TypeOK
<1>3. AllProper
  BY ProperFromIInv
<1>4. /\ Proper(WithoutLocalVariables(varmap[c]), nvars)
      /\ NoLocals(WithoutLocalVariables(varmap[c]))
  BY <1>2, <1>3, WithoutLocalIsProper DEF AllProper
<1>5. \A d \in Ctx : Proper(varmap'[d], nvars) /\ (owner[d] = "handler" => NoLocals(varmap'[d]))
  BY <1>1, <1>2, <1>3, <1>4 DEF AllProper
<1>6. VariablesSound'
  BY <1>1, <1>5 DEF VariablesSound, Proper, NoLocals
<1>7. TypeOK'
  <2>1. varmap' \in [Ctx -> Seq(Entry)]
    BY <1>1, <1>2, <1>4 DEF Proper
  <2>2. QED BY <1>1, <2>1 DEF IInv, TypeOK, mapVars
<1>8. MapsCounted' /\ PublishedLive' /\ \A u \in Thread : Building(u)' /\ Reading(u)'
  BY <1>1, OwnStep
<1>9. QED BY <1>6, <1>7, <1>8 DEF IInv

-----------------------------------------------------------------------------
(* The calls that use or build a map, one at a time if the callers lock. *)
LEMMA LockHeld ==
  ASSUME IInv, ReadersSynchronized, NEW u \in Thread
  PROVE  /\ pc[u] = Idle \/ lock = u
         /\ pc[u] = Idle => pc[u].op = "idle"
<1>1. CASE pc[u] = Idle
  BY <1>1 DEF Idle
<1>2. CASE pc[u] \in Busy
  <2>1. pc[u].op \in {"reading", "merging", "publishing"}
    BY <1>2 DEF Busy
  <2>2. lock = u
    BY <2>1 DEF IInv, Building, Reading
  <2>3. QED BY <2>2 DEF Idle
<1>3. QED BY <1>1, <1>2 DEF IInv, TypeOK

LEMMA CurrentLive ==
  ASSUME IInv
  PROVE  /\ contextmap \in Map /\ contextmap \in Nat /\ nmaps \in Nat /\ contextmap <= nmaps
         /\ uses[contextmap] \in Nat /\ uses[contextmap] >= 1
<1>1. contextmap \in Map /\ contextmap \in Nat /\ nmaps \in Nat /\ contextmap <= nmaps
  BY BoundsAssumption DEF IInv, TypeOK, Map
<1>2. uses[contextmap] = 1 + Counted(contextmap) /\ Counted(contextmap) \in Nat
  BY <1>1, HoldersCounted DEF IInv, MapsCounted, Bit
<1>3. QED BY <1>1, <1>2

(* The others are idle before and after a step of the thread in the lock. *)
LEMMA OthersIdle ==
  ASSUME NEW t \in Thread, \A u \in Thread \ {t} : pc'[u] = Idle
  PROVE  \A u \in Thread \ {t} : Building(u)' /\ Reading(u)'
  BY DEF Idle, Building, Reading

LEMMA InheritReadKeeps ==
  ASSUME IInv, ReadersSynchronized, NEW t \in Thread, NEW c \in Ctx, NEW k \in Key,
         InheritRead(t, c, k)
  PROVE  IInv'
<1> DEFINE doing == [op |-> "reading", ctx |-> c, key |-> k, map |-> contextmap]
<1>1. /\ pc[t] = Idle /\ owner[c] = t /\ lock = NULL /\ lock' = t
      /\ pc' = [pc EXCEPT ![t] = doing]
      /\ UNCHANGED <<owner, varmap, errcode, var, nvars>> /\ UNCHANGED mapVars
  BY DEF InheritRead
<1>2. UNCHANGED tab /\ UNCHANGED uses /\ UNCHANGED nmaps /\ UNCHANGED contextmap
  BY <1>1 DEF mapVars
<1>3. contextmap \in Map /\ contextmap \in 1..nmaps
  BY CurrentLive DEF IInv, TypeOK
<1>4. pc \in [Thread -> Busy \cup {Idle}] /\ doing \in Busy
  BY <1>3 DEF IInv, TypeOK, Busy
<1>5. /\ pc'[t] = doing /\ \A u \in Thread \ {t} : pc'[u] = pc[u]
      /\ \A u \in Thread \ {t} : pc'[u] = Idle
  <2>1. \A u \in Thread : lock # u
    BY <1>1, NullAssumption
  <2>2. QED BY <1>1, <1>4, <2>1, LockHeld
<1>6. TypeOK'
  <2> HIDE DEF doing
  <2>1. pc' \in [Thread -> Busy \cup {Idle}]
    BY <1>1, <1>4
  <2>2. QED BY <1>1, <1>2, <2>1 DEF IInv, TypeOK
<1>7. MapsCounted'
  <2>1. SUFFICES ASSUME NEW m \in Map PROVE uses'[m] = Holders(m)'
    BY DEF MapsCounted
  <2>2. Weight(t, m) = 0 /\ Weight(t, m)' = 0
    BY <1>1, <1>5 DEF Weight, Merging, Holding, Copying, Bit, Idle
  <2>3. /\ Counted(m) + Weight(t, m)' = Counted(m)' + Weight(t, m)
        /\ Counted(m) \in Nat /\ Counted(m)' \in Nat
    BY <1>5, CountMoves
  <2>4. Counted(m)' = Counted(m)
    BY <2>2, <2>3
  <2>5. uses[m] = Bit(m = contextmap) + Counted(m)
    BY HoldersCounted DEF IInv, MapsCounted
  <2>6. Holders(m)' = Bit(m = contextmap') + Counted(m)'
    BY HoldersCountedNext
  <2>7. QED BY <1>2, <2>4, <2>5, <2>6 DEF Bit
<1>8. PublishedLive' /\ VariablesSound'
  BY <1>1, <1>2 DEF IInv, PublishedLive, Live, VariablesSound
<1>9. Building(t)' /\ Reading(t)'
  BY <1>1, <1>2, <1>3, <1>5 DEF Building, Reading
<1>10. \A u \in Thread : Building(u)' /\ Reading(u)'
  BY <1>5, <1>9, OthersIdle
<1>11. QED BY <1>6, <1>7, <1>8, <1>10 DEF IInv

(* The new map differs from the current one in one row and is held by its builder. *)
LEMMA CopyStep ==
  ASSUME IInv, ReadersSynchronized, NEW t \in Thread, NEW k \in Key, NEW x \in Ctx \cup {NULL},
         pc[t] = Idle, lock = NULL, nmaps < MaxMaps, lock' = t, nmaps' = nmaps + 1,
         uses' = [uses EXCEPT ![contextmap] = @ + 1, ![nmaps'] = 1],
         tab' = [tab EXCEPT ![nmaps'] = [tab[contextmap] EXCEPT ![k] = x]],
         pc' = [pc EXCEPT ![t] = [op |-> "publishing", held |-> contextmap, copy |-> nmaps']],
         UNCHANGED contextmap,
         x # NULL \/ tab[contextmap][k] # NULL,
         \A d \in Ctx : owner[d] = "handler" => owner'[d] = "handler",
         x # NULL => owner'[x] = "handler"
  PROVE  /\ tab' \in [Map -> [Key -> Ctx \cup {NULL}]]
         /\ uses' \in [Map -> Nat]
         /\ nmaps' \in Map /\ contextmap' \in 1..nmaps'
         /\ pc' \in [Thread -> Busy \cup {Idle}]
         /\ lock' \in Thread \cup {NULL}
         /\ MapsCounted' /\ PublishedLive' /\ \A u \in Thread : Building(u)' /\ Reading(u)'
<1> DEFINE n == nmaps + 1
           row == [tab[contextmap] EXCEPT ![k] = x]
           doing == [op |-> "publishing", held |-> contextmap, copy |-> n]
<1>1. /\ contextmap \in Map /\ contextmap \in Nat /\ nmaps \in Nat /\ contextmap <= nmaps
      /\ uses[contextmap] \in Nat /\ uses[contextmap] >= 1
  BY CurrentLive
<1>2. n \in Map /\ n \in Nat /\ n > nmaps /\ contextmap # n /\ contextmap \in 1..n
  BY <1>1, BoundsAssumption DEF Map, IInv, TypeOK
<1>3. /\ uses \in [Map -> Nat] /\ tab \in [Map -> [Key -> Ctx \cup {NULL}]]
      /\ pc \in [Thread -> Busy \cup {Idle}]
  BY DEF IInv, TypeOK
<1>4. /\ uses' \in [Map -> Nat] /\ uses'[n] = 1 /\ uses'[contextmap] = uses[contextmap] + 1
      /\ \A m \in Map \ {n, contextmap} : uses'[m] = uses[m]
  BY <1>1, <1>2, <1>3
<1>5. /\ row \in [Key -> Ctx \cup {NULL}] /\ row[k] = x
      /\ \A j \in Key \ {k} : row[j] = tab[contextmap][j]
  BY <1>1, <1>3
<1> HIDE DEF row
<1>6. /\ tab' \in [Map -> [Key -> Ctx \cup {NULL}]] /\ tab'[n] = row
      /\ \A m \in Map \ {n} : tab'[m] = tab[m]
  BY <1>2, <1>3, <1>5 DEF row
<1>7. doing \in Busy
  BY <1>1, <1>2 DEF Busy
<1>8. /\ pc'[t] = doing /\ \A u \in Thread \ {t} : pc'[u] = pc[u] /\ pc'[u] = Idle
      /\ pc' \in [Thread -> Busy \cup {Idle}]
  <2>1. \A u \in Thread : lock # u
    BY NullAssumption
  <2> HIDE DEF doing
  <2>2. QED BY <1>3, <1>7, <2>1, LockHeld DEF doing
<1>9. MapsCounted'
  <2>1. SUFFICES ASSUME NEW m \in Map PROVE uses'[m] = Holders(m)'
    BY DEF MapsCounted
  <2>2. Weight(t, m) = 0 /\ Weight(t, m)' = Bit(m = contextmap) + Bit(m = n)
    <3>1. Weight(t, m) = 0
      BY DEF Weight, Merging, Holding, Copying, Bit, Idle
    <3>2. /\ t \notin Merging(m)' /\ (t \in Holding(m)' <=> m = contextmap)
          /\ (t \in Copying(m)' <=> m = n)
      BY <1>8 DEF Merging, Holding, Copying
    <3>3. QED BY <3>1, <3>2 DEF Weight, Bit
  <2>3. /\ Counted(m) + Weight(t, m)' = Counted(m)' + Weight(t, m)
        /\ Counted(m) \in Nat /\ Counted(m)' \in Nat
    BY <1>8, CountMoves
  <2>4. uses[m] = Bit(m = contextmap) + Counted(m)
    BY HoldersCounted DEF IInv, MapsCounted
  <2>5. Holders(m)' = Bit(m = contextmap) + Counted(m)'
    BY HoldersCountedNext
  <2>6. CASE m = n
    <3>1. uses[m] = 0 /\ Counted(m) = 0 /\ m # contextmap
      BY <1>2, <2>6, UnmadeUnused
    <3>2. QED BY <1>4, <2>2, <2>3, <2>5, <2>6, <3>1 DEF Bit
  <2>7. CASE m = contextmap
    BY <1>1, <1>2, <1>4, <2>2, <2>3, <2>4, <2>5, <2>7 DEF Bit
  <2>8. CASE m # n /\ m # contextmap
    BY <1>4, <2>2, <2>3, <2>4, <2>5, <2>8 DEF Bit
  <2>9. QED BY <2>6, <2>7, <2>8
<1>10. PublishedLive'
  <2>1. SUFFICES ASSUME NEW m \in Map, NEW j \in Key, uses'[m] > 0, tab'[m][j] # NULL
                 PROVE  owner'[tab'[m][j]] = "handler"
    BY DEF PublishedLive, Live
  <2>2. ASSUME NEW a \in Map, uses[a] > 0, tab[a][j] # NULL
        PROVE  owner'[tab[a][j]] = "handler"
    <3>1. tab[a][j] \in Ctx
      BY <1>3, <2>2
    <3>2. QED BY <2>2, <3>1 DEF IInv, PublishedLive, Live
  <2>3. CASE m # n
    <3>1. uses[m] > 0
      BY <1>1, <1>4, <2>1, <2>3
    <3>2. QED BY <1>6, <2>1, <2>2, <2>3, <3>1
  <2>4. CASE m = n
    <3>1. tab'[m][j] = row[j]
      BY <1>6, <2>4
    <3>2. CASE j = k
      BY <1>5, <2>1, <3>1, <3>2
    <3>3. CASE j # k
      <4>1. tab'[m][j] = tab[contextmap][j] /\ uses[contextmap] > 0
        BY <1>1, <1>5, <3>1, <3>3
      <4>2. QED BY <1>1, <2>1, <2>2, <4>1
    <3>4. QED BY <3>2, <3>3
  <2>5. QED BY <2>3, <2>4
<1>11. Building(t)' /\ Reading(t)'
  <2>1. tab'[n] = row /\ tab'[contextmap] = tab[contextmap]
    BY <1>1, <1>2, <1>6
  <2>2. Building(t)'
    BY <1>2, <1>5, <1>8, <2>1 DEF Building
  <2>3. QED BY <1>8, <2>2 DEF Reading
<1>12. \A u \in Thread : Building(u)' /\ Reading(u)'
  BY <1>8, <1>11, OthersIdle
<1>13. QED BY <1>1, <1>2, <1>4, <1>6, <1>8, <1>9, <1>10, <1>12

LEMMA TransferCopyKeeps ==
  ASSUME IInv, ReadersSynchronized, NEW t \in Thread, NEW c \in Ctx, NEW k \in Key,
         TransferCopy(t, c, k)
  PROVE  IInv'
<1>1. /\ pc[t] = Idle /\ owner[c] = t /\ lock = NULL /\ nmaps < MaxMaps
      /\ lock' = t /\ nmaps' = nmaps + 1
      /\ uses' = [uses EXCEPT ![contextmap] = @ + 1, ![nmaps'] = 1]
      /\ tab' = [tab EXCEPT ![nmaps'] = [tab[contextmap] EXCEPT ![k] = c]]
      /\ pc' = [pc EXCEPT ![t] = [op |-> "publishing", held |-> contextmap, copy |-> nmaps']]
      /\ varmap' = [varmap EXCEPT ![c] = WithoutLocalVariables(varmap[c])]
      /\ owner' = [owner EXCEPT ![c] = "handler"]
      /\ UNCHANGED contextmap /\ UNCHANGED <<errcode, var, nvars>>
  BY DEF TransferCopy
<1>2. /\ varmap \in [Ctx -> Seq(Entry)] /\ nvars \in Nat
      /\ owner \in [Ctx -> Thread \cup {"handler", "freed", NULL}]
  BY BoundsAssumption DEF IInv, TypeOK
<1>3. c # NULL /\ owner'[c] = "handler" /\ \A d \in Ctx \ {c} : owner'[d] = owner[d]
  BY <1>1, <1>2, NullAssumption
<1>4. /\ tab' \in [Map -> [Key -> Ctx \cup {NULL}]]
      /\ uses' \in [Map -> Nat]
      /\ nmaps' \in Map /\ contextmap' \in 1..nmaps'
      /\ pc' \in [Thread -> Busy \cup {Idle}]
      /\ lock' \in Thread \cup {NULL}
      /\ MapsCounted' /\ PublishedLive' /\ \A u \in Thread : Building(u)' /\ Reading(u)'
  BY <1>1, <1>3, CopyStep
<1>5. /\ Proper(WithoutLocalVariables(varmap[c]), nvars)
      /\ NoLocals(WithoutLocalVariables(varmap[c]))
  BY <1>2, ProperFromIInv, WithoutLocalIsProper DEF AllProper
<1>6. \A d \in Ctx : Proper(varmap'[d], nvars) /\ (owner'[d] = "handler" => NoLocals(varmap'[d]))
  BY <1>1, <1>2, <1>3, <1>5, ProperFromIInv DEF AllProper
<1>7. VariablesSound'
  BY <1>1, <1>6 DEF VariablesSound, Proper, NoLocals
<1>8. varmap' \in [Ctx -> Seq(Entry)] /\ owner' \in [Ctx -> Thread \cup {"handler", "freed", NULL}]
  BY <1>1, <1>2, <1>5 DEF Proper
<1>9. TypeOK'
  BY <1>1, <1>4, <1>8 DEF IInv, TypeOK
<1>10. QED BY <1>4, <1>7, <1>9 DEF IInv

LEMMA RemoveCopyKeeps ==
  ASSUME IInv, ReadersSynchronized, NEW t \in Thread, NEW k \in Key, RemoveCopy(t, k)
  PROVE  IInv'
<1>1. /\ pc[t] = Idle /\ lock = NULL /\ nmaps < MaxMaps /\ tab[contextmap][k] # NULL
      /\ lock' = t /\ nmaps' = nmaps + 1
      /\ uses' = [uses EXCEPT ![contextmap] = @ + 1, ![nmaps'] = 1]
      /\ tab' = [tab EXCEPT ![nmaps'] = [tab[contextmap] EXCEPT ![k] = NULL]]
      /\ pc' = [pc EXCEPT ![t] = [op |-> "publishing", held |-> contextmap, copy |-> nmaps']]
      /\ UNCHANGED contextmap /\ UNCHANGED <<owner, varmap, errcode, var, nvars>>
  BY DEF RemoveCopy
<1>2. /\ tab' \in [Map -> [Key -> Ctx \cup {NULL}]]
      /\ uses' \in [Map -> Nat]
      /\ nmaps' \in Map /\ contextmap' \in 1..nmaps'
      /\ pc' \in [Thread -> Busy \cup {Idle}]
      /\ lock' \in Thread \cup {NULL}
      /\ MapsCounted' /\ PublishedLive' /\ \A u \in Thread : Building(u)' /\ Reading(u)'
  BY <1>1, CopyStep
<1>3. VariablesSound'
  BY <1>1 DEF IInv, VariablesSound
<1>4. TypeOK'
  BY <1>1, <1>2 DEF IInv, TypeOK
<1>5. QED BY <1>2, <1>3, <1>4 DEF IInv

LEMMA InheritHoldKeeps ==
  ASSUME IInv, ReadersSynchronized, NEW t \in Thread, InheritHold(t)
  PROVE  IInv'
<1> DEFINE a == pc[t]
           doing == [a EXCEPT !.op = "merging"]
<1>1. /\ a.op = "reading" /\ uses' = [uses EXCEPT ![a.map] = @ + 1]
      /\ pc' = [pc EXCEPT ![t] = doing]
      /\ UNCHANGED <<owner, varmap, errcode, var, nvars, tab, nmaps, contextmap, lock>>
  BY DEF InheritHold
<1>2. pc \in [Thread -> Busy \cup {Idle}] /\ uses \in [Map -> Nat]
  BY DEF IInv, TypeOK
<1>3. a \in [op : {"reading", "merging"}, ctx : Ctx, key : Key, map : Map]
  BY <1>1, <1>2 DEF Busy, Idle
<1>4. /\ doing \in Busy /\ doing.op = "merging" /\ doing.map = a.map /\ doing.ctx = a.ctx
  BY <1>3 DEF Busy
<1>5. /\ owner[a.ctx] = t /\ a.map = contextmap /\ a.map \in 1..nmaps /\ lock = t
  BY <1>1 DEF IInv, Reading
<1>6. /\ pc'[t] = doing /\ \A u \in Thread \ {t} : pc'[u] = pc[u] /\ pc'[u] = Idle
      /\ pc' \in [Thread -> Busy \cup {Idle}]
  <2> HIDE DEF doing
  <2>1. QED BY <1>1, <1>2, <1>4, <1>5, LockHeld
<1> HIDE DEF doing
<1>7. /\ uses' \in [Map -> Nat] /\ uses'[a.map] = uses[a.map] + 1
      /\ \A m \in Map \ {a.map} : uses'[m] = uses[m]
  BY <1>1, <1>2, <1>3
<1>8. TypeOK'
  BY <1>1, <1>6, <1>7 DEF IInv, TypeOK
<1>9. MapsCounted'
  <2>1. SUFFICES ASSUME NEW m \in Map PROVE uses'[m] = Holders(m)'
    BY DEF MapsCounted
  <2>2. Weight(t, m) = 0 /\ Weight(t, m)' = Bit(m = a.map)
    <3>1. t \notin Merging(m) /\ t \notin Holding(m) /\ t \notin Copying(m)
      BY <1>1 DEF Merging, Holding, Copying
    <3>2. (t \in Merging(m)' <=> m = a.map) /\ t \notin Holding(m)' /\ t \notin Copying(m)'
      BY <1>4, <1>6 DEF Merging, Holding, Copying
    <3>3. QED BY <3>1, <3>2 DEF Weight, Bit
  <2>3. /\ Counted(m) + Weight(t, m)' = Counted(m)' + Weight(t, m)
        /\ Counted(m) \in Nat /\ Counted(m)' \in Nat
    BY <1>6, CountMoves
  <2>4. uses[m] = Bit(m = contextmap) + Counted(m)
    BY HoldersCounted DEF IInv, MapsCounted
  <2>5. Holders(m)' = Bit(m = contextmap) + Counted(m)'
    BY <1>1, HoldersCountedNext
  <2>6. CASE m = a.map
    BY <1>7, <2>2, <2>3, <2>4, <2>5, <2>6 DEF Bit
  <2>7. CASE m # a.map
    BY <1>7, <2>2, <2>3, <2>4, <2>5, <2>7 DEF Bit
  <2>8. QED BY <2>6, <2>7
<1>10. PublishedLive'
  <2>1. SUFFICES ASSUME NEW m \in Map, NEW k \in Key, uses'[m] > 0, tab[m][k] # NULL
                 PROVE  owner[tab[m][k]] = "handler"
    BY <1>1 DEF PublishedLive, Live
  <2>2. uses[m] > 0
    <3>1. CASE m = a.map
      BY <1>5, <3>1, CurrentLive
    <3>2. CASE m # a.map
      BY <1>7, <2>1, <3>2
    <3>3. QED BY <3>1, <3>2
  <2>3. QED BY <2>1, <2>2 DEF IInv, PublishedLive, Live
<1>11. VariablesSound'
  BY <1>1 DEF IInv, VariablesSound
<1>12. Building(t)' /\ Reading(t)'
  BY <1>1, <1>4, <1>5, <1>6 DEF Building, Reading
<1>13. \A u \in Thread : Building(u)' /\ Reading(u)'
  BY <1>6, <1>12, OthersIdle
<1>14. QED BY <1>8, <1>9, <1>10, <1>11, <1>13 DEF IInv

(* Dropping references frees only published contexts, and none of a map in use. *)
LEMMA FreedFacts ==
  ASSUME IInv, NEW newUses \in [Map -> Nat], \A m \in Map : newUses[m] > 0 => uses[m] > 0
  PROVE  /\ \A c \in FreedWith(newUses) : c \in Ctx /\ owner[c] = "handler"
         /\ \A m \in Map, k \in Key :
               newUses[m] > 0 /\ tab[m][k] # NULL =>
                 /\ tab[m][k] \in Ctx /\ tab[m][k] \notin FreedWith(newUses)
                 /\ owner[tab[m][k]] = "handler"
<1>1. \A c \in FreedWith(newUses) : c \in Ctx /\ owner[c] = "handler"
  BY DEF FreedWith
<1>2. ASSUME NEW m \in Map, NEW k \in Key, newUses[m] > 0, tab[m][k] # NULL
      PROVE  /\ tab[m][k] \in Ctx /\ tab[m][k] \notin FreedWith(newUses)
             /\ owner[tab[m][k]] = "handler"
  <2>1. tab[m][k] \in Ctx
    BY <1>2 DEF IInv, TypeOK
  <2>2. tab[m][k] \notin FreedWith(newUses)
    BY <1>2 DEF FreedWith
  <2>3. uses[m] > 0
    BY <1>2
  <2>4. owner[tab[m][k]] = "handler"
    BY <1>2, <2>3 DEF IInv, PublishedLive, Live
  <2>5. QED BY <2>1, <2>2, <2>4
<1>3. QED BY <1>1, <1>2

(* The end of a call that drops references. *)
LEMMA DropStep ==
  ASSUME IInv, ReadersSynchronized, NEW t \in Thread, pc[t] # Idle, uses' \in [Map -> Nat],
         \A m \in Map : uses'[m] > 0 => uses[m] > 0,
         pc' = [pc EXCEPT ![t] = Idle], UNCHANGED tab,
         owner' = [c \in Ctx |-> IF c \in FreedWith(uses') THEN "freed" ELSE owner[c]]
  PROVE  /\ owner' \in [Ctx -> Thread \cup {"handler", "freed", NULL}]
         /\ pc' \in [Thread -> Busy \cup {Idle}] /\ pc'[t] = Idle
         /\ lock = t /\ \A u \in Thread \ {t} : pc'[u] = pc[u]
         /\ PublishedLive' /\ \A u \in Thread : Building(u)' /\ Reading(u)'
<1>1. /\ owner \in [Ctx -> Thread \cup {"handler", "freed", NULL}]
      /\ pc \in [Thread -> Busy \cup {Idle}]
  BY DEF IInv, TypeOK
<1>2. lock = t /\ \A u \in Thread \ {t} : pc[u] = Idle
  BY LockHeld
<1>3. pc' \in [Thread -> Busy \cup {Idle}] /\ \A u \in Thread : pc'[u] = Idle
  BY <1>1, <1>2
<1>4. \A u \in Thread : Building(u)' /\ Reading(u)'
  BY <1>3 DEF Building, Reading, Idle
<1>5. PublishedLive'
  <2>1. SUFFICES ASSUME NEW m \in Map, NEW k \in Key, uses'[m] > 0, tab[m][k] # NULL
                 PROVE  owner'[tab[m][k]] = "handler"
    BY DEF PublishedLive, Live
  <2>2. /\ tab[m][k] \in Ctx /\ tab[m][k] \notin FreedWith(uses')
        /\ owner[tab[m][k]] = "handler"
    BY <2>1, FreedFacts
  <2>3. QED BY <2>2
<1>6. owner' \in [Ctx -> Thread \cup {"handler", "freed", NULL}]
  BY <1>1
<1>7. QED BY <1>1, <1>2, <1>3, <1>4, <1>5, <1>6

LEMMA InheritMergeKeeps ==
  ASSUME IInv, ReadersSynchronized, NEW t \in Thread, InheritMerge(t)
  PROVE  IInv'
<1> DEFINE a == pc[t]
           c == a.ctx
           from == tab[a.map][a.key]
           dead == FreedWith(uses')
<1>1. /\ a.op = "merging" /\ uses' = [uses EXCEPT ![a.map] = @ - 1]
      /\ owner' = [x \in Ctx |-> IF x \in dead THEN "freed" ELSE owner[x]]
      /\ varmap' = [x \in Ctx |-> IF x \in dead THEN <<>>
                                  ELSE IF x = c /\ from # NULL
                                       THEN Merged(varmap[c], varmap[from])
                                  ELSE varmap[x]]
      /\ errcode' = [errcode EXCEPT ![c] =
                       IF from = NULL THEN "AddressedItemNotFound"
                       ELSE IF Conflicts(varmap[c], varmap[from]) # {} THEN "DuplicateDefinition"
                       ELSE errcode[c]]
      /\ pc' = [pc EXCEPT ![t] = Idle] /\ lock' = IF lock = t THEN NULL ELSE lock
      /\ UNCHANGED <<var, nvars, tab, nmaps, contextmap>>
  BY DEF InheritMerge
<1>2. /\ pc \in [Thread -> Busy \cup {Idle}] /\ uses \in [Map -> Nat]
      /\ tab \in [Map -> [Key -> Ctx \cup {NULL}]] /\ varmap \in [Ctx -> Seq(Entry)]
      /\ errcode \in [Ctx -> Errors] /\ nvars \in Nat
  BY BoundsAssumption DEF IInv, TypeOK
<1>3. a \in [op : {"reading", "merging"}, ctx : Ctx, key : Key, map : Map] /\ a # Idle
  BY <1>1, <1>2 DEF Busy, Idle
<1>4. c \in Ctx /\ a.map \in Map /\ a.key \in Key /\ from \in Ctx \cup {NULL}
  BY <1>2, <1>3
<1>5. owner[c] = t /\ t # "handler"
  BY <1>1, ThreadAssumption DEF IInv, Reading
<1>6. \A m \in Map : /\ uses'[m] = uses[m] - Bit(m = a.map) /\ uses'[m] \in Nat
                     /\ uses'[m] = Holders(m)'
  <2>1. TAKE m \in Map
  <2>2. Weight(t, m) = Bit(m = a.map) /\ Weight(t, m)' = 0
    <3>1. (t \in Merging(m) <=> m = a.map) /\ t \notin Holding(m) /\ t \notin Copying(m)
      BY <1>1 DEF Merging, Holding, Copying
    <3>2. pc'[t] = Idle
      BY <1>1, <1>2
    <3>3. t \notin Merging(m)' /\ t \notin Holding(m)' /\ t \notin Copying(m)'
      BY <3>2 DEF Merging, Holding, Copying, Idle
    <3>4. QED BY <3>1, <3>3 DEF Weight, Bit
  <2>3. /\ Counted(m) + Weight(t, m)' = Counted(m)' + Weight(t, m)
        /\ Counted(m) \in Nat /\ Counted(m)' \in Nat
    <3>1. \A u \in Thread \ {t} : pc'[u] = pc[u]
      BY <1>1, <1>2
    <3>2. QED BY <3>1, CountMoves
  <2>4. uses[m] = Bit(m = contextmap) + Counted(m)
    BY HoldersCounted DEF IInv, MapsCounted
  <2>5. Holders(m)' = Bit(m = contextmap) + Counted(m)'
    BY <1>1, HoldersCountedNext
  <2>6. uses'[m] = uses[m] - Bit(m = a.map)
    <3>1. uses[m] \in Nat
      BY <1>2
    <3>2. QED BY <1>1, <1>2, <1>4, <3>1 DEF Bit
  <2>7. QED BY <2>2, <2>3, <2>4, <2>5, <2>6 DEF Bit
<1>7. MapsCounted'
  BY <1>6 DEF MapsCounted
<1>8. uses' \in [Map -> Nat] /\ \A m \in Map : uses'[m] > 0 => uses[m] > 0
  <2>1. DOMAIN uses' = Map /\ uses' = [m \in Map |-> uses'[m]]
    BY <1>1, <1>2
  <2>2. uses' \in [Map -> Nat]
    BY <1>6, <2>1
  <2>3. \A m \in Map : uses'[m] > 0 => uses[m] > 0
    <3>1. TAKE m \in Map
    <3>2. uses[m] \in Nat /\ uses'[m] = uses[m] - Bit(m = a.map)
      BY <1>2, <1>6
    <3>3. QED BY <3>2 DEF Bit
  <2>4. QED BY <2>2, <2>3
<1>9. /\ owner' \in [Ctx -> Thread \cup {"handler", "freed", NULL}]
      /\ pc' \in [Thread -> Busy \cup {Idle}] /\ lock = t
      /\ PublishedLive' /\ \A u \in Thread : Building(u)' /\ Reading(u)'
  BY <1>1, <1>3, <1>8, DropStep
<1>10. c \notin dead /\ \A x \in dead : x \in Ctx /\ owner[x] = "handler"
  BY <1>5, <1>8, FreedFacts
<1>11. \A x \in Ctx : Proper(varmap'[x], nvars) /\ (owner'[x] = "handler" => NoLocals(varmap'[x]))
  <2>1. SUFFICES ASSUME NEW x \in Ctx
                 PROVE  Proper(varmap'[x], nvars) /\ (owner'[x] = "handler" => NoLocals(varmap'[x]))
    OBVIOUS
  <2>2. CASE x \in dead
    <3>1. varmap'[x] = <<>>
      BY <1>1, <2>2
    <3>2. <<>> \in Seq(Entry) /\ DOMAIN <<>> = {}
      BY EmptySeq, LenProperties
    <3>3. QED BY <3>1, <3>2 DEF Proper, NamedOnce, NoLocals
  <2>3. CASE x \notin dead /\ x = c /\ from # NULL
    <3>1. varmap'[x] = Merged(varmap[c], varmap[from]) /\ owner'[x] = t
      BY <1>1, <1>5, <2>3
    <3>2. Proper(varmap[c], nvars) /\ Proper(varmap[from], nvars)
      BY <1>4, <2>3, ProperFromIInv DEF AllProper
    <3>3. Proper(Merged(varmap[c], varmap[from]), nvars)
      BY <1>2, <3>2, MergedIsProper
    <3>4. QED BY <1>5, <3>1, <3>3
  <2>4. CASE x \notin dead /\ ~(x = c /\ from # NULL)
    <3>1. varmap'[x] = varmap[x] /\ owner'[x] = owner[x]
      BY <1>1, <2>4
    <3>2. QED BY <3>1, ProperFromIInv DEF AllProper
  <2>5. QED BY <2>2, <2>3, <2>4
<1>12. VariablesSound'
  <2>1. nvars' = nvars
    BY <1>1
  <2>2. QED BY <1>11, <2>1 DEF VariablesSound, Proper, NoLocals
<1>13. TypeOK'
  <2>1. varmap' \in [Ctx -> Seq(Entry)]
    <3>1. varmap' = [x \in Ctx |-> varmap'[x]]
      BY <1>1
    <3>2. QED BY <1>11, <3>1 DEF Proper
  <2>2. errcode' \in [Ctx -> Errors]
    BY <1>1, <1>2, <1>4 DEF Errors
  <2>3. lock' \in Thread \cup {NULL}
    BY <1>1, <1>9
  <2>4. QED BY <1>1, <1>8, <1>9, <2>1, <2>2, <2>3 DEF IInv, TypeOK
<1>14. QED BY <1>7, <1>9, <1>12, <1>13 DEF IInv

LEMMA PublishKeeps ==
  ASSUME IInv, ReadersSynchronized, NEW t \in Thread, Publish(t)
  PROVE  IInv'
<1> DEFINE a == pc[t]
           dead == FreedWith(uses')
<1>1. /\ a.op = "publishing" /\ contextmap' = a.copy
      /\ uses' = [m \in Map |-> uses[m] - (IF m = contextmap THEN 1 ELSE 0)
                                     - (IF m = a.held THEN 1 ELSE 0)]
      /\ owner' = [x \in Ctx |-> IF x \in dead THEN "freed" ELSE owner[x]]
      /\ varmap' = [x \in Ctx |-> IF x \in dead THEN <<>> ELSE varmap[x]]
      /\ pc' = [pc EXCEPT ![t] = Idle] /\ lock' = NULL
      /\ UNCHANGED <<errcode, var, nvars, tab, nmaps>>
  BY DEF Publish, FreeContexts
<1>2. /\ pc \in [Thread -> Busy \cup {Idle}] /\ uses \in [Map -> Nat]
      /\ varmap \in [Ctx -> Seq(Entry)] /\ nmaps \in Nat /\ nmaps \in Map
  BY BoundsAssumption DEF IInv, TypeOK, Map
<1>3. /\ a.held = contextmap /\ a.copy \in 1..nmaps /\ a.copy # contextmap /\ a # Idle
  BY <1>1 DEF IInv, Building, Idle
<1>4. /\ pc'[t] = Idle /\ \A u \in Thread \ {t} : pc'[u] = pc[u]
  BY <1>1, <1>2
<1>5. \A m \in Map : /\ uses'[m] = Holders(m)' /\ uses'[m] \in Nat
                     /\ uses'[m] > 0 => uses[m] > 0
  <2>1. TAKE m \in Map
  <2>2. Weight(t, m) = Bit(m = contextmap) + Bit(m = a.copy) /\ Weight(t, m)' = 0
    <3>1. /\ t \notin Merging(m) /\ (t \in Holding(m) <=> m = contextmap)
          /\ (t \in Copying(m) <=> m = a.copy)
      BY <1>1, <1>3 DEF Merging, Holding, Copying
    <3>2. t \notin Merging(m)' /\ t \notin Holding(m)' /\ t \notin Copying(m)'
      BY <1>4 DEF Merging, Holding, Copying, Idle
    <3>3. QED BY <3>1, <3>2 DEF Weight, Bit
  <2>3. /\ Counted(m) + Weight(t, m)' = Counted(m)' + Weight(t, m)
        /\ Counted(m) \in Nat /\ Counted(m)' \in Nat
    BY <1>4, CountMoves
  <2>4. uses[m] = Bit(m = contextmap) + Counted(m) /\ uses[m] \in Nat
    BY <1>2, HoldersCounted DEF IInv, MapsCounted
  <2>5. Holders(m)' = Bit(m = a.copy) + Counted(m)'
    BY <1>1, HoldersCountedNext
  <2>6. uses'[m] = uses[m] - Bit(m = contextmap) - Bit(m = contextmap)
    BY <1>1, <1>3 DEF Bit
  <2>7. QED BY <2>2, <2>3, <2>4, <2>5, <2>6 DEF Bit
<1>6. MapsCounted'
  BY <1>5 DEF MapsCounted
<1>7. uses' \in [Map -> Nat]
  <2>1. uses' = [m \in Map |-> uses'[m]]
    BY <1>1
  <2>2. QED BY <1>5, <2>1
<1>8. /\ owner' \in [Ctx -> Thread \cup {"handler", "freed", NULL}]
      /\ pc' \in [Thread -> Busy \cup {Idle}]
      /\ PublishedLive' /\ \A u \in Thread : Building(u)' /\ Reading(u)'
  <2>1. /\ UNCHANGED tab
        /\ owner' = [x \in Ctx |-> IF x \in FreedWith(uses') THEN "freed" ELSE owner[x]]
    BY <1>1
  <2>2. QED BY <1>1, <1>3, <1>5, <1>7, <2>1, DropStep
<1>9. \A x \in Ctx : Proper(varmap'[x], nvars) /\ (owner'[x] = "handler" => NoLocals(varmap'[x]))
  <2>1. SUFFICES ASSUME NEW x \in Ctx
                 PROVE  Proper(varmap'[x], nvars) /\ (owner'[x] = "handler" => NoLocals(varmap'[x]))
    OBVIOUS
  <2>2. CASE x \in dead
    <3>1. varmap'[x] = <<>>
      BY <1>1, <2>2
    <3>2. <<>> \in Seq(Entry) /\ DOMAIN <<>> = {}
      BY EmptySeq, LenProperties
    <3>3. QED BY <3>1, <3>2 DEF Proper, NamedOnce, NoLocals
  <2>3. CASE x \notin dead
    <3>1. varmap'[x] = varmap[x] /\ owner'[x] = owner[x]
      BY <1>1, <2>3
    <3>2. QED BY <3>1, ProperFromIInv DEF AllProper
  <2>4. QED BY <2>2, <2>3
<1>10. VariablesSound'
  <2>1. nvars' = nvars
    BY <1>1
  <2>2. QED BY <1>9, <2>1 DEF VariablesSound, Proper, NoLocals
<1>11. TypeOK'
  <2>1. varmap' \in [Ctx -> Seq(Entry)]
    <3>1. varmap' = [x \in Ctx |-> varmap'[x]]
      BY <1>1
    <3>2. QED BY <1>9, <3>1 DEF Proper
  <2>2. QED BY <1>1, <1>3, <1>7, <1>8, <2>1 DEF IInv, TypeOK
<1>12. QED BY <1>6, <1>8, <1>10, <1>11 DEF IInv

LEMMA StutterKeeps == IInv /\ UNCHANGED vars => IInv'
<1>1. SUFFICES ASSUME IInv, UNCHANGED vars PROVE IInv'
  OBVIOUS
<1>2. UNCHANGED <<owner, varmap, errcode, var, nvars>> /\ UNCHANGED <<mapVars, pc, lock>>
  BY <1>1 DEF vars, mapVars
<1>3. MapsCounted' /\ PublishedLive' /\ \A u \in Thread : Building(u)' /\ Reading(u)'
  BY <1>1, <1>2, OwnStep
<1>4. TypeOK' /\ VariablesSound'
  BY <1>1, <1>2 DEF IInv, TypeOK, VariablesSound, mapVars
<1>5. QED BY <1>3, <1>4 DEF IInv

LEMMA NextKeeps ==
  ASSUME ReadersSynchronized
  PROVE  IInv /\ [Next]_vars => IInv'
<1>1. SUFFICES ASSUME IInv, [Next]_vars PROVE IInv'
  OBVIOUS
<1>2. CASE UNCHANGED vars
  BY <1>1, <1>2, StutterKeeps
<1>3. CASE Next
  <2>1. PICK t \in Thread :
          \/ \E c \in Ctx : \/ Create(t, c)
                            \/ Destroy(t, c)
                            \/ TransferFails(t, c) \/ TransferDeletes(t, c)
                            \/ \E n \in Name, ok \in BOOLEAN : DefineVariable(t, c, n, ok)
                            \/ \E k \in Key : InheritRead(t, c, k) \/ TransferCopy(t, c, k)
          \/ \E k \in Key : RemoveCopy(t, k)
          \/ InheritHold(t) \/ InheritMerge(t) \/ Publish(t)
    BY <1>3 DEF Next
  <2>2. ASSUME NEW c \in Ctx, Create(t, c) PROVE IInv'
    BY <1>1, <2>2, CreateKeeps
  <2>3. ASSUME NEW c \in Ctx, Destroy(t, c) \/ TransferDeletes(t, c) PROVE IInv'
    BY <1>1, <2>3, DestroyKeeps DEF TransferDeletes
  <2>4. ASSUME NEW c \in Ctx, TransferFails(t, c) PROVE IInv'
    BY <1>1, <2>4, TransferFailsKeeps
  <2>5. ASSUME NEW c \in Ctx, NEW n \in Name, NEW ok \in BOOLEAN, DefineVariable(t, c, n, ok)
        PROVE  IInv'
    BY <1>1, <2>5, DefineVariableKeeps
  <2>6. ASSUME NEW c \in Ctx, NEW k \in Key, InheritRead(t, c, k) PROVE IInv'
    BY <1>1, <2>6, InheritReadKeeps
  <2>7. ASSUME NEW c \in Ctx, NEW k \in Key, TransferCopy(t, c, k) PROVE IInv'
    BY <1>1, <2>7, TransferCopyKeeps
  <2>8. ASSUME NEW k \in Key, RemoveCopy(t, k) PROVE IInv'
    BY <1>1, <2>8, RemoveCopyKeeps
  <2>9. CASE InheritHold(t)
    BY <1>1, <2>9, InheritHoldKeeps
  <2>10. CASE InheritMerge(t)
    BY <1>1, <2>10, InheritMergeKeeps
  <2>11. CASE Publish(t)
    BY <1>1, <2>11, PublishKeeps
  <2>12. QED BY <2>1, <2>2, <2>3, <2>4, <2>5, <2>6, <2>7, <2>8, <2>9, <2>10, <2>11
<1>4. QED BY <1>1, <1>2, <1>3

(* If the callers synchronize inherit with the updates of the handler, the maps   *)
(* and the variables stay in order whatever threads do (src/requestHandler.cpp).  *)
THEOREM InductiveInvariant == ReadersSynchronized => (Spec => []IInv)
<1>1. SUFFICES ASSUME ReadersSynchronized PROVE Spec => []IInv
  OBVIOUS
<1>2. IInv /\ [Next]_vars => IInv'
  BY <1>1, NextKeeps
<1>3. QED BY <1>2, InitIInv, PTL DEF Spec

(* Every map is counted by those that hold it, and is freed when they are done:   *)
(* RequestContextMapRef::reset of papuga_RequestContext_inherit and the updates.  *)
THEOREM MapsAlwaysSound == ReadersSynchronized => (Spec => []MapsSound)
<1>1. SUFFICES ASSUME ReadersSynchronized PROVE Spec => []MapsSound
  OBVIOUS
<1>2. IInv => MapsSound
  BY DEF IInv, MapsSound
<1>3. QED BY <1>1, <1>2, InductiveInvariant, PTL

(* papuga_RequestContext_inherit reads no map and no context that was freed.      *)
THEOREM SnapshotsAlwaysLive == ReadersSynchronized => (Spec => []SnapshotsLive)
<1>1. SUFFICES ASSUME ReadersSynchronized PROVE Spec => []SnapshotsLive
  OBVIOUS
<1>2. IInv => SnapshotsLive
  <2>1. SUFFICES ASSUME IInv PROVE SnapshotsLive
    OBVIOUS
  <2>2. ASSUME NEW t \in Thread, pc[t].op \in {"reading", "merging"} PROVE Live(pc[t].map)
    <3>1. pc[t].map \in Map
      <4>1. pc[t] \in Busy \cup {Idle} /\ pc[t] # Idle
        BY <2>1, <2>2 DEF IInv, TypeOK, Idle
      <4>2. pc[t] \notin [op : {"publishing"}, held : Map, copy : Map]
        BY <2>2
      <4>3. pc[t] \in [op : {"reading", "merging"}, ctx : Ctx, key : Key, map : Map]
        BY <4>1, <4>2 DEF Busy
      <4>4. QED BY <4>3
    <3>2. CASE pc[t].op = "reading"
      <4>1. pc[t].map = contextmap
        BY <1>1, <2>1, <3>2 DEF IInv, Reading
      <4>2. QED BY <2>1, <4>1, CurrentLive DEF Live
    <3>3. CASE pc[t].op = "merging"
      <4> DEFINE m == pc[t].map
      <4>1. t \in Merging(m)
        BY <3>3 DEF Merging
      <4>2. /\ Cardinality(Merging(m)) \in Nat /\ Cardinality(Holding(m)) \in Nat
            /\ Cardinality(Copying(m)) \in Nat /\ Cardinality(Merging(m)) # 0
        <5>1. /\ Merging(m) \in SUBSET Thread /\ Holding(m) \in SUBSET Thread
              /\ Copying(m) \in SUBSET Thread
          BY DEF Merging, Holding, Copying
        <5>2. QED BY <4>1, <5>1, ThreadAssumption, FS_Subset, FS_CardinalityType, FS_EmptySet
      <4>3. uses[m] = Bit(m = contextmap) + Counted(m)
        BY <2>1, <3>1, HoldersCounted DEF IInv, MapsCounted
      <4> HIDE DEF m
      <4>4. uses[m] > 0
        BY <4>2, <4>3 DEF Counted, Bit
      <4>5. QED BY <4>4 DEF Live, m
    <3>4. QED BY <2>2, <3>2, <3>3
  <2>3. QED BY <2>1, <2>2 DEF SnapshotsLive, IInv, PublishedLive
<1>3. QED BY <1>1, <1>2, InductiveInvariant, PTL

-----------------------------------------------------------------------------
(* What a published context shows. *)
LEMMA FrozenStep ==
  ASSUME ReadersSynchronized, IInv, [Next]_vars, NEW c \in Ctx,
         owner[c] = "handler", owner'[c] = "handler"
  PROVE  varmap'[c] = varmap[c] /\ ViewOf(c)' = ViewOf(c)
<1> DEFINE SameVars == var' = var
           Values == [by : Ctx, defined : BOOLEAN]
           Longer == \E e \in Values : var' = Append(var, e)
<1>1. /\ varmap \in [Ctx -> Seq(Entry)] /\ var \in Seq(Values) /\ Len(var) = nvars /\ nvars \in Nat
      /\ \A t \in Thread : t # "handler"
  BY BoundsAssumption, ThreadAssumption DEF IInv, TypeOK
<1>2. varmap'[c] = varmap[c] /\ (SameVars \/ Longer)
  <2>1. CASE UNCHANGED vars
    BY <2>1 DEF vars
  <2>2. CASE Next
    <3>1. PICK t \in Thread :
          \/ \E d \in Ctx : \/ Create(t, d)
                            \/ Destroy(t, d)
                            \/ TransferFails(t, d) \/ TransferDeletes(t, d)
                            \/ \E n \in Name, ok \in BOOLEAN : DefineVariable(t, d, n, ok)
                            \/ \E k \in Key : InheritRead(t, d, k) \/ TransferCopy(t, d, k)
          \/ \E k \in Key : RemoveCopy(t, k)
          \/ InheritHold(t) \/ InheritMerge(t) \/ Publish(t)
      BY <2>2 DEF Next
    <3>2. ASSUME NEW d \in Ctx, Create(t, d) PROVE varmap'[c] = varmap[c] /\ SameVars
      BY <3>2 DEF Create
    <3>3. ASSUME NEW d \in Ctx, Destroy(t, d) \/ TransferDeletes(t, d)
          PROVE  varmap'[c] = varmap[c] /\ SameVars
      BY <1>1, <3>3 DEF Destroy, TransferDeletes
    <3>4. ASSUME NEW d \in Ctx, TransferFails(t, d) PROVE varmap'[c] = varmap[c] /\ SameVars
      BY <1>1, <3>4 DEF TransferFails
    <3>5. ASSUME NEW d \in Ctx, NEW n \in Name, NEW ok \in BOOLEAN, DefineVariable(t, d, n, ok)
          PROVE  varmap'[c] = varmap[c] /\ Longer
      <4>1. varmap'[c] = varmap[c] /\ var' = Append(var, [by |-> d, defined |-> ok])
        BY <1>1, <3>5 DEF DefineVariable
      <4>2. QED BY <4>1
    <3>6. ASSUME NEW d \in Ctx, NEW k \in Key, InheritRead(t, d, k)
          PROVE  varmap'[c] = varmap[c] /\ SameVars
      BY <3>6 DEF InheritRead
    <3>7. ASSUME NEW d \in Ctx, NEW k \in Key, TransferCopy(t, d, k)
          PROVE  varmap'[c] = varmap[c] /\ SameVars
      BY <1>1, <3>7 DEF TransferCopy
    <3>8. ASSUME NEW k \in Key, RemoveCopy(t, k) PROVE varmap'[c] = varmap[c] /\ SameVars
      BY <3>8 DEF RemoveCopy
    <3>9. CASE InheritHold(t)
      BY <3>9 DEF InheritHold
    <3>10. CASE InheritMerge(t)
      <4>1. c # pc[t].ctx
        BY <1>1, <3>10 DEF InheritMerge, IInv, Reading
      <4>2. QED BY <3>10, <4>1 DEF InheritMerge
    <3>11. CASE Publish(t)
      BY <3>11 DEF Publish, FreeContexts
    <3>12. QED BY <3>1, <3>2, <3>3, <3>4, <3>5, <3>6, <3>7, <3>8, <3>9, <3>10, <3>11
  <2>3. QED BY <2>1, <2>2
<1>3. \A i \in DOMAIN varmap[c] : var'[varmap[c][i].ref] = var[varmap[c][i].ref]
  <2>1. CASE SameVars
    BY <2>1
  <2>2. CASE Longer
    <3>1. PICK e \in Values : var' = Append(var, e)
      BY <2>2
    <3>2. \A i \in DOMAIN varmap[c] : varmap[c][i].ref \in 1..nvars
      <4>1. \A i \in DOMAIN varmap[c] : varmap[c][i].ref \in 1..MaxVars
        BY <1>1, EntryFacts
      <4>2. \A i \in DOMAIN varmap[c] : varmap[c][i].ref <= nvars
        BY DEF IInv, VariablesSound
      <4>3. QED BY <1>1, <4>1, <4>2, BoundsAssumption
    <3> HIDE DEF Values
    <3>3. \A j \in 1..nvars : var'[j] = var[j]
      BY <1>1, <3>1, AppendProperties
    <3>4. QED BY <3>2, <3>3
  <2>3. QED BY <1>2, <2>1, <2>2
<1>4. ViewOf(c)' = ViewOf(c)
  BY <1>2, <1>3 DEF ViewOf
<1>5. QED BY <1>2, <1>4

(* A published context shows the same variables as long as it is published,       *)
(* though it shares them with the contexts that inherited them.                   *)
THEOREM PublishedStaysFrozen == ReadersSynchronized => (Spec => PublishedIsFrozen)
<1>1. SUFFICES ASSUME ReadersSynchronized PROVE Spec => PublishedIsFrozen
  OBVIOUS
<1>2. IInv /\ [Next]_vars =>
        [\A c \in Ctx : owner[c] = "handler" /\ owner'[c] = "handler" => ViewOf(c)' = ViewOf(c)]_vars
  BY <1>1, FrozenStep
<1>3. QED BY <1>1, <1>2, InductiveInvariant, PTL DEF Spec, PublishedIsFrozen

(* A successful papuga_RequestContext_inherit has all variables of the context it *)
(* names, with the values they have there, and no variable twice.                 *)
THEOREM InheritAlwaysTakesAll == ReadersSynchronized => (Spec => InheritTakesAll)
<1> DEFINE A == \A t \in Thread, c \in Ctx :
                  pc[t].op = "merging" /\ pc'[t] = Idle /\ pc[t].ctx = c /\ errcode'[c] = "Ok"
                    => LET from == tab[pc[t].map][pc[t].key]
                       IN  /\ from # NULL /\ ViewOf(from) \subseteq ViewOf(c)'
                           /\ NamedOnce(varmap'[c])
<1>1. SUFFICES ASSUME ReadersSynchronized PROVE Spec => InheritTakesAll
  OBVIOUS
<1>2. IInv /\ [Next]_vars => [A]_vars
  <2>1. SUFFICES ASSUME IInv, Next, NEW t \in Thread, NEW c \in Ctx,
                        pc[t].op = "merging", pc'[t] = Idle, pc[t].ctx = c, errcode'[c] = "Ok"
                 PROVE  /\ tab[pc[t].map][pc[t].key] # NULL
                        /\ ViewOf(tab[pc[t].map][pc[t].key]) \subseteq ViewOf(c)'
                        /\ NamedOnce(varmap'[c])
    OBVIOUS
  <2> DEFINE from == tab[pc[t].map][pc[t].key]
             merged == Merged(varmap[c], varmap[from])
  <2>2. /\ pc \in [Thread -> Busy \cup {Idle}] /\ nvars \in Nat /\ uses \in [Map -> Nat]
        /\ tab \in [Map -> [Key -> Ctx \cup {NULL}]] /\ errcode \in [Ctx -> Errors]
    BY <2>1, BoundsAssumption DEF IInv, TypeOK
  <2>3. pc[t] \in [op : {"reading", "merging"}, ctx : Ctx, key : Key, map : Map]
    BY <2>1, <2>2 DEF Busy, Idle
  <2>4. InheritMerge(t)
    <3>1. lock = t /\ lock # NULL /\ \A u \in Thread \ {t} : pc[u] = Idle
      BY <1>1, <2>1, LockHeld, NullAssumption DEF Idle
    <3>2. pc[t] # Idle /\ pc'[t] # pc[t]
      BY <2>1 DEF Idle
    <3>3. PICK u \in Thread :
          \/ \E d \in Ctx : \/ Create(u, d)
                            \/ Destroy(u, d)
                            \/ TransferFails(u, d) \/ TransferDeletes(u, d)
                            \/ \E n \in Name, ok \in BOOLEAN : DefineVariable(u, d, n, ok)
                            \/ \E k \in Key : InheritRead(u, d, k) \/ TransferCopy(u, d, k)
          \/ \E k \in Key : RemoveCopy(u, k)
          \/ InheritHold(u) \/ InheritMerge(u) \/ Publish(u)
      BY <2>1 DEF Next
    <3>4. \A d \in Ctx : /\ ~Create(u, d) /\ ~Destroy(u, d) /\ ~TransferFails(u, d)
                         /\ ~TransferDeletes(u, d)
                         /\ \A n \in Name, ok \in BOOLEAN : ~DefineVariable(u, d, n, ok)
      BY <3>2 DEF Create, Destroy, TransferFails, TransferDeletes, DefineVariable
    <3>5. \A d \in Ctx, k \in Key : ~InheritRead(u, d, k) /\ ~TransferCopy(u, d, k) /\ ~RemoveCopy(u, k)
      BY <1>1, <3>1 DEF InheritRead, TransferCopy, RemoveCopy
    <3>6. ~InheritHold(u) /\ ~Publish(u)
      BY <2>1, <3>1 DEF InheritHold, Publish, Idle
    <3>7. InheritMerge(u)
      BY <3>3, <3>4, <3>5, <3>6
    <3>8. u = t
      <4>1. pc[u].op = "merging"
        BY <3>7 DEF InheritMerge
      <4>2. pc[u] # Idle
        BY <4>1 DEF Idle
      <4>3. QED BY <3>1, <4>2
    <3>9. QED BY <3>7, <3>8
  <2>5. /\ errcode' = [errcode EXCEPT ![c] =
                         IF from = NULL THEN "AddressedItemNotFound"
                         ELSE IF Conflicts(varmap[c], varmap[from]) # {} THEN "DuplicateDefinition"
                         ELSE errcode[c]]
        /\ uses' = [uses EXCEPT ![pc[t].map] = @ - 1]
        /\ var' = var
        /\ varmap' = [x \in Ctx |-> IF x \in FreedWith(uses') THEN <<>>
                                    ELSE IF x = c /\ from # NULL THEN merged
                                    ELSE varmap[x]]
    BY <2>1, <2>4 DEF InheritMerge
  <2>6. from # NULL /\ Conflicts(varmap[c], varmap[from]) = {}
    BY <2>1, <2>2, <2>5
  <2>7. from \in Ctx
    BY <2>2, <2>3, <2>6
  <2>8. c \notin FreedWith(uses')
    <3>1. owner[c] = t /\ t # "handler"
      BY <2>1, ThreadAssumption DEF IInv, Reading
    <3>2. QED BY <3>1 DEF FreedWith
  <2>9. varmap'[c] = merged
    BY <2>5, <2>6, <2>8
  <2>10. Proper(varmap[c], nvars) /\ Proper(varmap[from], nvars)
    BY <2>1, <2>7, ProperFromIInv DEF AllProper
  <2>11. /\ Proper(merged, nvars)
         /\ \A i \in DOMAIN varmap[from] : \E j \in DOMAIN merged :
               merged[j].name = varmap[from][i].name /\ merged[j].ref = varmap[from][i].ref
    <3>1. Proper(merged, nvars) /\ Includes(merged, varmap[from])
      BY <2>2, <2>6, <2>10, MergedIsProper
    <3>2. QED BY <3>1 DEF Includes
  <2>12. ViewOf(from) \subseteq ViewOf(c)'
    <3> HIDE DEF merged, from
    <3>1. SUFFICES ASSUME NEW i \in DOMAIN varmap[from]
                   PROVE  [name |-> varmap[from][i].name, value |-> var[varmap[from][i].ref]] \in ViewOf(c)'
      BY DEF ViewOf
    <3>2. PICK j \in DOMAIN merged : /\ merged[j].name = varmap[from][i].name
                                    /\ merged[j].ref = varmap[from][i].ref
      BY <2>11
    <3>3. [name |-> varmap'[c][j].name, value |-> var'[varmap'[c][j].ref]] \in ViewOf(c)'
      BY <2>9, <3>2 DEF ViewOf
    <3>4. QED BY <2>5, <2>9, <3>2, <3>3
  <2>13. QED BY <2>6, <2>9, <2>11, <2>12 DEF Proper
<1>3. QED BY <1>1, <1>2, InductiveInvariant, PTL DEF Spec, InheritTakesAll

-----------------------------------------------------------------------------
(* The registry. *)
Shown == [k \in Key |-> IF tab[contextmap][k] = NULL THEN NULL
                        ELSE ViewOf(tab[contextmap][k])]

Views == [c \in Ctx |-> ViewOf(c)]

CurrentRow == /\ contextmap \in Map /\ Live(contextmap)
              /\ \A k \in Key :
                    /\ tab[contextmap][k] \in Ctx \cup {NULL}
                    /\ tab[contextmap][k] # NULL => owner[tab[contextmap][k]] = "handler"
                    /\ Shown[k] = IF tab[contextmap][k] = NULL THEN NULL
                                  ELSE Views[tab[contextmap][k]]

LEMMA CurrentRowFacts == IInv => CurrentRow
<1>1. SUFFICES ASSUME IInv PROVE CurrentRow
  OBVIOUS
<1>2. contextmap \in Map /\ Live(contextmap)
  BY <1>1, CurrentLive DEF Live
<1>3. ASSUME NEW k \in Key
      PROVE  /\ tab[contextmap][k] \in Ctx \cup {NULL}
             /\ tab[contextmap][k] # NULL => owner[tab[contextmap][k]] = "handler"
             /\ Shown[k] = IF tab[contextmap][k] = NULL THEN NULL
                           ELSE Views[tab[contextmap][k]]
  <2>1. tab[contextmap][k] \in Ctx \cup {NULL}
    BY <1>1, <1>2 DEF IInv, TypeOK
  <2>2. tab[contextmap][k] # NULL => owner[tab[contextmap][k]] = "handler"
    BY <1>1, <1>2 DEF IInv, PublishedLive
  <2>3. Shown[k] = IF tab[contextmap][k] = NULL THEN NULL ELSE Views[tab[contextmap][k]]
    BY <2>1 DEF Shown, Views
  <2>4. QED BY <2>1, <2>2, <2>3
<1>4. QED BY <1>2, <1>3 DEF CurrentRow

(* What a context shows does not change while it stays published. *)
LEMMA ViewsSame ==
  ASSUME ReadersSynchronized, IInv, [Next]_vars, NEW c \in Ctx,
         owner[c] = "handler", owner'[c] = "handler"
  PROVE  Views'[c] = Views[c]
<1>1. Views'[c] = ViewOf(c)' /\ Views[c] = ViewOf(c)
  BY DEF Views
<1>2. QED BY <1>1, FrozenStep

LEMMA ViewsProper ==
  ASSUME IInv, NEW c \in Ctx, owner[c] = "handler"
  PROVE  Views[c] \in View /\ Clean(Views[c]) /\ Views[c] # NULL
<1> DEFINE Values == [by : Ctx, defined : BOOLEAN]
<1>1. /\ varmap[c] \in Seq(Entry) /\ var \in Seq(Values) /\ Len(var) = nvars /\ nvars \in Nat
  BY BoundsAssumption DEF IInv, TypeOK
<1>2. \A i \in DOMAIN varmap[c] : /\ varmap[c][i].name \in Name \ Local
                                  /\ varmap[c][i].ref \in 1..nvars
  <2>1. TAKE i \in DOMAIN varmap[c]
  <2>2. varmap[c][i].name \in Name /\ varmap[c][i].ref \in 1..MaxVars
    BY <1>1, EntryFacts
  <2>3. varmap[c][i].name \notin Local /\ varmap[c][i].ref <= nvars
    BY DEF IInv, VariablesSound
  <2>4. QED BY <1>1, <2>2, <2>3, BoundsAssumption
<1>3. \A i \in DOMAIN varmap[c] : var[varmap[c][i].ref] \in Values
  <2> HIDE DEF Values
  <2>1. \A j \in 1..nvars : var[j] \in Values
    BY <1>1, ElementOfSeq
  <2>2. QED BY <1>2, <2>1
<1>4. ViewOf(c) \in View
  BY <1>2, <1>3 DEF ViewOf, View
<1>5. Clean(ViewOf(c))
  BY <1>2 DEF ViewOf, Clean
<1>6. Views[c] = ViewOf(c)
  BY DEF Views
<1>7. QED BY <1>4, <1>5, <1>6, ViewAssumption

ViewsClean == \A c \in Ctx : owner[c] = "handler" =>
                 Views[c] \in View /\ Clean(Views[c]) /\ Views[c] # NULL

LEMMA ViewsAlwaysClean == IInv => ViewsClean
  BY ViewsProper DEF ViewsClean

(* Publishing the copy puts or drops one entry; no other step shows. *)
LEMMA PublishStep ==
  ASSUME ReadersSynchronized, IInv, NEW t \in Thread, Publish(t)
  PROVE  \E k \in Key : \/ /\ Shown' = [Shown EXCEPT ![k] = Shown'[k]]
                           /\ Shown'[k] # NULL /\ Shown'[k] \in View /\ Clean(Shown'[k])
                        \/ /\ Shown' = [Shown EXCEPT ![k] = NULL] /\ Shown[k] # NULL
<1> DEFINE n == pc[t].copy
<1>1. pc[t].op = "publishing" /\ contextmap' = n /\ tab' = tab
  BY DEF Publish
<1>2. PICK k \in Key : /\ \A j \in Key \ {k} : tab[n][j] = tab[contextmap][j]
                       /\ tab[n][k] # NULL \/ tab[contextmap][k] # NULL
  BY <1>1 DEF IInv, Building
<1> HIDE DEF n
<1>3. Next
  BY DEF Next
<1>4. IInv'
  BY PublishKeeps
<1>5. CurrentRow
  BY CurrentRowFacts
<1>6. CurrentRow'
  BY <1>4, CurrentRowFacts, PTL
<1>7. \A j \in Key : /\ tab'[n][j] \in Ctx \cup {NULL}
                     /\ tab'[n][j] # NULL => owner'[tab'[n][j]] = "handler"
                     /\ Shown'[j] = IF tab'[n][j] = NULL THEN NULL ELSE Views'[tab'[n][j]]
  BY <1>1, <1>6 DEF CurrentRow
<1>8. DOMAIN Shown = Key /\ Shown' = [j \in Key |-> Shown'[j]]
  BY DEF Shown
<1>9. \A j \in Key \ {k} : Shown'[j] = Shown[j]
  <2>1. TAKE j \in Key \ {k}
  <2>2. tab'[n][j] = tab[contextmap][j]
    BY <1>1, <1>2
  <2>3. CASE tab'[n][j] = NULL
    BY <1>5, <1>7, <2>2, <2>3 DEF CurrentRow
  <2>4. CASE tab'[n][j] # NULL
    <3>1. PICK c \in Ctx : c = tab'[n][j]
      BY <1>7, <2>4
    <3>2. owner[c] = "handler" /\ owner'[c] = "handler"
      BY <1>5, <1>7, <2>2, <2>4, <3>1 DEF CurrentRow
    <3>3. Views'[c] = Views[c]
      BY <1>3, <3>2, ViewsSame
    <3>4. QED BY <1>5, <1>7, <2>2, <2>4, <3>1, <3>3 DEF CurrentRow
  <2>5. QED BY <2>3, <2>4
<1>10. CASE tab'[n][k] # NULL
  <2>1. PICK c \in Ctx : c = tab'[n][k]
    BY <1>7, <1>10
  <2>2. owner'[c] = "handler" /\ Shown'[k] = Views'[c]
    BY <1>7, <1>10, <2>1
  <2>3. ViewsClean'
    BY <1>4, ViewsAlwaysClean, PTL
  <2>4. Views'[c] \in View /\ Clean(Views'[c]) /\ Views'[c] # NULL
    BY <2>2, <2>3 DEF ViewsClean, View, Clean
  <2>5. Shown' = [Shown EXCEPT ![k] = Shown'[k]]
    BY <1>8, <1>9
  <2>6. QED BY <2>2, <2>4, <2>5
<1>11. CASE tab'[n][k] = NULL
  <2>1. Shown'[k] = NULL
    BY <1>7, <1>11
  <2>2. tab[contextmap][k] # NULL
    BY <1>1, <1>2, <1>11
  <2>3. PICK c \in Ctx : c = tab[contextmap][k]
    BY <1>5, <2>2 DEF CurrentRow
  <2>4. Shown[k] = Views[c] /\ owner[c] = "handler"
    BY <1>5, <2>2, <2>3 DEF CurrentRow
  <2>5. Shown[k] # NULL
    BY <2>4, ViewsProper
  <2>6. Shown' = [Shown EXCEPT ![k] = NULL]
    BY <1>8, <1>9, <2>1
  <2>7. QED BY <2>5, <2>6
<1>12. QED BY <1>10, <1>11

LEMMA QuietStep ==
  ASSUME ReadersSynchronized, IInv, [Next]_vars, UNCHANGED contextmap,
         \A k \in Key : tab'[contextmap][k] = tab[contextmap][k]
  PROVE  Shown' = Shown
<1>1. CurrentRow
  BY CurrentRowFacts
<1>2. IInv'
  BY NextKeeps
<1>3. CurrentRow'
  BY <1>2, CurrentRowFacts, PTL
<1>4. \A k \in Key : Shown'[k] = Shown[k]
  <2>1. TAKE k \in Key
  <2>2. /\ tab'[contextmap][k] # NULL => owner'[tab'[contextmap][k]] = "handler"
        /\ Shown'[k] = IF tab'[contextmap][k] = NULL THEN NULL ELSE Views'[tab'[contextmap][k]]
    BY <1>3 DEF CurrentRow
  <2>3. CASE tab[contextmap][k] = NULL
    BY <1>1, <2>2, <2>3 DEF CurrentRow
  <2>4. CASE tab[contextmap][k] # NULL
    <3>1. PICK c \in Ctx : c = tab[contextmap][k]
      BY <1>1, <2>4 DEF CurrentRow
    <3>2. owner[c] = "handler" /\ owner'[c] = "handler"
      BY <1>1, <2>2, <2>4, <3>1 DEF CurrentRow
    <3>3. Views'[c] = Views[c]
      BY <3>2, ViewsSame
    <3>4. QED BY <1>1, <2>2, <2>4, <3>1, <3>3 DEF CurrentRow
  <2>5. QED BY <2>3, <2>4
<1>5. Shown = [k \in Key |-> Shown[k]] /\ Shown' = [k \in Key |-> Shown'[k]]
  BY DEF Shown
<1>6. QED BY <1>4, <1>5

(* The handler is a registry of frozen sets of variables: every update puts or    *)
(* drops one entry of the map that the other callers see, and nothing else does.  *)
THEOREM RegistryImplemented == ReadersSynchronized => (Spec => ImplementsRegistry)
<1>1. SUFFICES ASSUME ReadersSynchronized PROVE Spec => ImplementsRegistry
  OBVIOUS
<1>2. Init => Registry!Init
  BY BoundsAssumption DEF Init, Registry!Init, Map
<1>3. IInv /\ [Next]_vars => [Registry!Next]_Shown
  <2>1. SUFFICES ASSUME IInv, [Next]_vars PROVE [Registry!Next]_Shown
    OBVIOUS
  <2>2. ASSUME NEW t \in Thread, Publish(t) PROVE Registry!Next
    BY <1>1, <2>1, <2>2, PublishStep DEF Shown, Registry!Next, Registry!Transfer, Registry!Remove
  <2>3. ASSUME UNCHANGED contextmap,
               \A k \in Key : tab'[contextmap][k] = tab[contextmap][k]
        PROVE  Shown' = Shown
    BY <1>1, <2>1, <2>3, QuietStep
  <2>4. ASSUME NEW row, tab' = [tab EXCEPT ![nmaps + 1] = row], UNCHANGED contextmap
        PROVE  Shown' = Shown
    <3>1. contextmap # nmaps + 1 /\ contextmap \in Map
      BY <2>1, CurrentLive
    <3>2. tab'[contextmap] = tab[contextmap]
      BY <2>1, <2>4, <3>1 DEF IInv, TypeOK
    <3>3. QED BY <2>3, <2>4, <3>2
  <2>5. CASE UNCHANGED vars
    BY <2>3, <2>5 DEF vars
  <2>6. CASE Next
    <3>1. PICK t \in Thread :
          \/ \E c \in Ctx : \/ Create(t, c)
                            \/ Destroy(t, c)
                            \/ TransferFails(t, c) \/ TransferDeletes(t, c)
                            \/ \E n \in Name, ok \in BOOLEAN : DefineVariable(t, c, n, ok)
                            \/ \E k \in Key : InheritRead(t, c, k) \/ TransferCopy(t, c, k)
          \/ \E k \in Key : RemoveCopy(t, k)
          \/ InheritHold(t) \/ InheritMerge(t) \/ Publish(t)
      BY <2>6 DEF Next
    <3>2. ASSUME NEW c \in Ctx, Create(t, c) \/ Destroy(t, c)
                                     \/ TransferFails(t, c) \/ TransferDeletes(t, c)
          PROVE  Shown' = Shown
      BY <2>3, <3>2 DEF Create, Destroy, TransferFails, TransferDeletes, mapVars
    <3>3. ASSUME NEW c \in Ctx, NEW n \in Name, NEW ok \in BOOLEAN, DefineVariable(t, c, n, ok)
          PROVE  Shown' = Shown
      BY <2>3, <3>3 DEF DefineVariable, mapVars
    <3>4. ASSUME NEW c \in Ctx, NEW k \in Key, InheritRead(t, c, k) PROVE Shown' = Shown
      BY <2>3, <3>4 DEF InheritRead, mapVars
    <3>5. ASSUME NEW c \in Ctx, NEW k \in Key, TransferCopy(t, c, k) PROVE Shown' = Shown
      BY <2>4, <3>5 DEF TransferCopy
    <3>6. ASSUME NEW k \in Key, RemoveCopy(t, k) PROVE Shown' = Shown
      BY <2>4, <3>6 DEF RemoveCopy
    <3>7. InheritHold(t) \/ InheritMerge(t) => Shown' = Shown
      BY <2>3 DEF InheritHold, InheritMerge
    <3>8. QED BY <2>2, <3>1, <3>2, <3>3, <3>4, <3>5, <3>6, <3>7
  <2>7. QED BY <2>1, <2>5, <2>6
<1>4. QED BY <1>1, <1>2, <1>3, InductiveInvariant, PTL DEF Spec, ImplementsRegistry, Registry!Spec, Shown
=============================================================================
