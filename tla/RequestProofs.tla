--------------------------- MODULE RequestProofs ----------------------------
(* A request, for every automaton and every document. What is found: the scopes of  *)
(* it are nested like the elements, every value that is wanted is collected, and    *)
(* prioritizing drops no call without reason and leaves no rival. What is called:   *)
(* the calls are placed in the order they were found in. What they give: a result   *)
(* is delivered in the scope it belongs to, a reference with several results is     *)
(* reported, and an object is made before a method of it is called.                 *)
EXTENDS CallExecution, FiniteSetTheorems, SequenceTheorems, TLAPS

-----------------------------------------------------------------------------
(* Induction over the natural numbers, for a set of them.                          *)
LEMMA SetInduction ==
  ASSUME NEW S \in SUBSET Nat, 0 \in S, \A n \in S : n + 1 \in S
  PROVE  S = Nat
<1>1. SUFFICES ASSUME NEW m \in Nat, m \notin S PROVE FALSE
  OBVIOUS
<1> DEFINE T == S \cap 0..m
           U == T \ {0}
           f == [n \in T |-> n + 1]
<1>2. 0 \in T /\ \A n \in T : n + 1 \in U
  BY <1>1
<1>3. IsFiniteSet(T) /\ IsFiniteSet(U) /\ Cardinality(U) = Cardinality(T) - 1 /\ Cardinality(T) \in Nat
  <2>1. IsFiniteSet(0..m)
    BY FS_Interval
  <2>2. IsFiniteSet(T)
    BY <2>1, FS_Subset
  <2>3. QED BY <1>2, <2>2, FS_RemoveElement, FS_CardinalityType
<1>4. f \in [T -> U]
  BY <1>2
<1>5. \E x, y \in T : x # y /\ f[x] = f[y]
  <2> HIDE DEF T, U, f
  <2>1. Cardinality(U) < Cardinality(T)
    BY <1>3
  <2>2. QED BY <1>3, <1>4, <2>1, FS_PigeonHole
<1>6. QED BY <1>5

(* The elements of a set in some order: all of them.                               *)
LEMMA OrderFacts ==
  ASSUME NEW S, IsFiniteSet(S), NEW order \in SetToSeqs(S)
  PROVE  order \in Seq(S) /\ ToSet(order) = S
<1> DEFINE n == Cardinality(S)
<1>1. n \in Nat
  BY FS_CardinalityType
<1>2. order \in [1..n -> S] /\ \A i, j \in 1..n : i # j => order[i] # order[j]
  BY DEF SetToSeqs
<1>3. order \in Seq(S) /\ DOMAIN order = 1..n
  BY <1>1, <1>2
<1>4. IsFiniteSet(1..n) /\ Cardinality(1..n) = n
  <2> HIDE DEF n
  <2>1. QED BY <1>1, FS_Interval
<1>5. order \in Injection(1..n, S)
  BY <1>2 DEF Injection, IsInjective
<1>6. order \in Surjection(1..n, S)
  BY <1>4, <1>5, FS_Injection
<1>7. QED BY <1>3, <1>6 DEF Surjection, ToSet

LEMMA ListFacts ==
  ASSUME NEW S, IsFiniteSet(S)
  PROVE  SetToSeq(S) \in Seq(S) /\ DOMAIN SetToSeq(S) = 1..Cardinality(S) /\ Cardinality(S) \in Nat
<1> DEFINE n == Cardinality(S)
<1>1. n \in Nat /\ \E f : f \in Bijection(1..n, S)
  BY FS_CardinalityType DEF ExistsBijection
<1>2. \E f \in [1..n -> S] : IsInjective(f)
  BY <1>1 DEF Bijection, Injection, IsInjective
<1>3. SetToSeq(S) \in [1..n -> S]
  BY <1>2 DEF SetToSeq
<1>4. QED BY <1>1, <1>3

(* Inserting objects adds them and keeps the others.                               *)
LEMMA InsertedFacts ==
  ASSUME NEW A, NEW objs \in Seq(A), NEW new \in Seq(A)
  PROVE  Inserted(objs, new) \in Seq(A) /\ ToSet(Inserted(objs, new)) = ToSet(objs) \cup ToSet(new)
<1> DEFINE before == {i \in DOMAIN objs : \A k \in DOMAIN new : ~KeyLess(new[k], objs[i])}
           place == Cardinality(before)
           n == Len(objs)
           s == SubSeq(objs, 1, place)
           t == SubSeq(objs, place + 1, n)
           st == s \o new
<1>1. n \in Nat /\ DOMAIN objs = 1..n /\ \A i \in 1..n : objs[i] \in A
  BY LenProperties, ElementOfSeq
<1>2. place \in 0..n
  <2>1. IsFiniteSet(1..n) /\ Cardinality(1..n) = n
    <3> HIDE DEF n
    <3>1. QED BY <1>1, FS_Interval
  <2>2. before \in SUBSET (1..n)
    BY <1>1
  <2>3. IsFiniteSet(before) /\ place <= n
    BY <2>1, <2>2, FS_Subset
  <2>4. QED BY <1>1, <2>3, FS_CardinalityType
<1>3. Inserted(objs, new) = st \o t
  BY DEF Inserted
<1> HIDE DEF before, place, n
<1>4. s \in Seq(A) /\ Len(s) = place /\ \A i \in 1..place : s[i] = objs[i]
  <2>1. \A i \in 1..place : objs[i] \in A
    BY <1>1, <1>2
  <2>2. QED BY <1>1, <1>2, <2>1, SubSeqProperties
<1>5. t \in Seq(A) /\ Len(t) = n - place /\ \A i \in 1..(n - place) : t[i] = objs[place + i]
  <2>1. \A i \in (place + 1)..n : objs[i] \in A
    BY <1>1, <1>2
  <2>2. /\ t \in Seq(A) /\ Len(t) = IF place + 1 <= n THEN n - (place + 1) + 1 ELSE 0
        /\ \A i \in 1..(n - (place + 1) + 1) : t[i] = objs[place + 1 + i - 1]
    BY <1>1, <1>2, <2>1, SubSeqProperties
  <2>3. Len(t) = n - place
    BY <1>1, <1>2, <2>2
  <2>4. ASSUME NEW i \in 1..(n - place) PROVE t[i] = objs[place + i]
    <3>1. i \in 1..(n - (place + 1) + 1) /\ place + 1 + i - 1 = place + i
      BY <1>1, <1>2
    <3>2. QED BY <2>2, <3>1
  <2>5. QED BY <2>2, <2>3, <2>4
<1> HIDE DEF s, t
<1>6. /\ st \in Seq(A) /\ Len(st) = place + Len(new)
      /\ \A i \in 1..(place + Len(new)) : st[i] = IF i <= place THEN s[i] ELSE new[i - place]
  BY <1>4, ConcatProperties
<1> HIDE DEF st
<1> DEFINE all == st \o t
           m == Len(new)
<1>7. /\ all \in Seq(A) /\ Len(all) = Len(st) + Len(t)
      /\ \A i \in 1..(Len(st) + Len(t)) : all[i] = IF i <= Len(st) THEN st[i] ELSE t[i - Len(st)]
  BY <1>5, <1>6, ConcatProperties
<1>8. m \in Nat /\ DOMAIN new = 1..m /\ Len(st) = place + m /\ Len(st) + Len(t) = n + m
  BY <1>1, <1>2, <1>5, <1>6, LenProperties
<1> HIDE DEF all
<1>9. /\ all \in Seq(A) /\ DOMAIN all = 1..(n + m)
      /\ \A i \in 1..(n + m) : all[i] = IF i <= place THEN objs[i]
                                       ELSE IF i <= place + m THEN new[i - place] ELSE objs[i - m]
  <2>1. \A i \in 1..(place + m) : st[i] = IF i <= place THEN s[i] ELSE new[i - place]
    BY <1>6
  <2> HIDE DEF m
  <2>2. ASSUME NEW i \in 1..(n + m)
        PROVE  all[i] = IF i <= place THEN objs[i]
                        ELSE IF i <= place + m THEN new[i - place] ELSE objs[i - m]
    <3>1. all[i] = IF i <= place + m THEN st[i] ELSE t[i - (place + m)]
      BY <1>7, <1>8
    <3>2. CASE i <= place
      BY <1>1, <1>2, <1>4, <1>8, <2>1, <3>1, <3>2
    <3>3. CASE i > place /\ i <= place + m
      BY <1>1, <1>2, <1>8, <2>1, <3>1, <3>3
    <3>4. CASE i > place + m
      <4>1. all[i] = t[i - (place + m)] /\ i - (place + m) \in 1..(n - place)
        BY <1>1, <1>2, <1>8, <3>1, <3>4
      <4>2. t[i - (place + m)] = objs[place + (i - (place + m))]
        BY <1>5, <4>1
      <4>3. place + (i - (place + m)) = i - m /\ ~(i <= place) /\ ~(i <= place + m)
        BY <1>1, <1>2, <1>8, <3>4
      <4>4. QED BY <4>1, <4>2, <4>3
    <3>5. QED BY <1>1, <1>2, <1>8, <3>2, <3>3, <3>4
  <2>3. QED BY <1>7, <1>8, <2>2, LenProperties
<1> HIDE DEF m
<1>10. ToSet(all) \subseteq ToSet(objs) \cup ToSet(new)
  <2>1. ASSUME NEW i \in 1..(n + m) PROVE all[i] \in ToSet(objs) \cup ToSet(new)
    <3>1. \/ i \in 1..n /\ all[i] = objs[i]
          \/ i - place \in 1..m /\ all[i] = new[i - place]
          \/ i - m \in 1..n /\ all[i] = objs[i - m]
      BY <1>1, <1>2, <1>8, <1>9
    <3>2. QED BY <1>1, <1>8, <3>1 DEF ToSet
  <2>2. QED BY <1>9, <2>1 DEF ToSet
<1>11. ToSet(objs) \subseteq ToSet(all)
  <2>1. ASSUME NEW i \in 1..n PROVE \E j \in 1..(n + m) : all[j] = objs[i]
    <3>1. CASE i <= place
      BY <1>1, <1>2, <1>8, <1>9, <3>1
    <3>2. CASE i > place
      <4>1. i + m \in 1..(n + m) /\ all[i + m] = objs[(i + m) - m] /\ (i + m) - m = i
        BY <1>1, <1>2, <1>8, <1>9, <3>2
      <4>2. QED BY <4>1
    <3>3. QED BY <1>1, <1>2, <3>1, <3>2
  <2>2. ASSUME NEW i \in 1..n PROVE objs[i] \in ToSet(all)
    BY <1>9, <2>1 DEF ToSet
  <2>3. QED BY <1>1, <2>2 DEF ToSet
<1>12. ToSet(new) \subseteq ToSet(all)
  <2>1. ASSUME NEW i \in 1..m PROVE \E j \in 1..(n + m) : all[j] = new[i]
    <3>1. i + place \in 1..(n + m) /\ all[i + place] = new[(i + place) - place] /\ (i + place) - place = i
      BY <1>1, <1>2, <1>8, <1>9
    <3>2. QED BY <3>1
  <2>2. ASSUME NEW i \in 1..m PROVE new[i] \in ToSet(all)
    BY <1>9, <2>1 DEF ToSet
  <2>3. QED BY <1>8, <2>2 DEF ToSet
<1>13. QED BY <1>3, <1>9, <1>10, <1>11, <1>12 DEF all

-----------------------------------------------------------------------------
(* The calls left by the triggers that prioritize, taken in some order.            *)
Prior(order, k) == atm.priorities[order[k]].call
Rival(x, i) == x.call # i /\ atm.calls[x.call].result = atm.calls[i].result
LeftAfter(left, calls, order, scope, n) ==
  left = [k \in 0..n |-> IF k = 0 THEN calls
                         ELSE left[k - 1] \ Suppressed(left[k - 1], Prior(order, k), scope)]

(* They are defined one by one.                                                    *)
LEMMA PrioritizedSteps ==
  ASSUME NEW calls, NEW order, NEW scope, Len(order) \in Nat
  PROVE  \E left : /\ LeftAfter(left, calls, order, scope, Len(order))
                   /\ Prioritized(calls, order, scope) = left[Len(order)]
<1> DEFINE Some(n) == \E left : LeftAfter(left, calls, order, scope, n)
           Ok == {n \in Nat : Some(n)}
<1>1. Some(0)
  <2>1. LeftAfter([k \in 0..0 |-> calls], calls, order, scope, 0)
    BY DEF LeftAfter
  <2>2. QED BY <2>1
<1>2. ASSUME NEW n \in Nat, Some(n) PROVE Some(n + 1)
  <2>1. PICK left : LeftAfter(left, calls, order, scope, n)
    BY <1>2
  <2> DEFINE drop == left[n] \ Suppressed(left[n], Prior(order, n + 1), scope)
             more == [k \in 0..(n + 1) |-> IF k = n + 1 THEN drop ELSE left[k]]
  <2>2. LeftAfter(more, calls, order, scope, n + 1)
    <3>1. ASSUME NEW k \in 0..(n + 1)
          PROVE  more[k] = IF k = 0 THEN calls
                           ELSE more[k - 1] \ Suppressed(more[k - 1], Prior(order, k), scope)
      <4>1. CASE k = n + 1
        <5>1. k # 0 /\ k - 1 = n /\ n \in 0..(n + 1) /\ n # n + 1
          BY <4>1
        <5>2. more[k] = drop /\ more[k - 1] = left[n]
          BY <4>1, <5>1
        <5>3. QED BY <4>1, <5>1, <5>2
      <4>2. CASE k # n + 1
        <5>1. k \in 0..n /\ (k # 0 => k - 1 \in 0..(n + 1) /\ k - 1 # n + 1)
          BY <4>2
        <5>2. left[k] = IF k = 0 THEN calls
                        ELSE left[k - 1] \ Suppressed(left[k - 1], Prior(order, k), scope)
          BY <2>1, <5>1 DEF LeftAfter
        <5>3. more[k] = left[k] /\ (k # 0 => more[k - 1] = left[k - 1])
          BY <4>2, <5>1
        <5>4. QED BY <5>2, <5>3
      <4>3. QED BY <4>1, <4>2
    <3>2. DOMAIN more = 0..(n + 1) /\ more = [k \in 0..(n + 1) |-> more[k]]
      OBVIOUS
    <3> HIDE DEF more
    <3>3. QED BY <3>1, <3>2 DEF LeftAfter
  <2>3. QED BY <2>2
<1>3. Len(order) \in Ok
  <2>1. 0 \in Ok /\ \A n \in Ok : n + 1 \in Ok
    BY <1>1, <1>2
  <2> HIDE DEF Some
  <2>2. Ok \in SUBSET Nat
    OBVIOUS
  <2> HIDE DEF Ok
  <2>3. QED BY <2>1, <2>2, SetInduction
<1>4. PICK left : LeftAfter(left, calls, order, scope, Len(order))
  BY <1>3
<1> DEFINE chosen == CHOOSE f : LeftAfter(f, calls, order, scope, Len(order))
<1>5. LeftAfter(chosen, calls, order, scope, Len(order))
  BY <1>4
<1>6. Prioritized(calls, order, scope) = chosen[Len(order)]
  BY DEF Prioritized, LeftAfter, Prior
<1>7. QED BY <1>5, <1>6

(* None is added; one is dropped for a call prioritized that occurred there; and    *)
(* if the loops reach all calls of the scope, no rival of such a call is left.      *)
Reaches(calls, scope) ==
  \A x, y \in calls : Inside(x, scope) /\ y.to >= x.to => y.from >= scope.from
LEMMA PrioritizedFacts ==
  ASSUME NEW calls, NEW S, NEW order \in Seq(S), NEW scope,
         NEW left, left = Prioritized(calls, order, scope)
  PROVE  /\ left \subseteq calls
         /\ \A x \in calls \ left : \E k \in DOMAIN order, y \in calls :
              y.call = Prior(order, k) /\ Inside(y, scope) /\ Inside(x, scope) /\ Rival(x, Prior(order, k))
         /\ Reaches(calls, scope) => \A k \in DOMAIN order : \A x, y \in left :
              Inside(x, scope) /\ Inside(y, scope) /\ y.call = Prior(order, k) => ~Rival(x, Prior(order, k))
<1> DEFINE n == Len(order)
<1>1. n \in Nat /\ DOMAIN order = 1..n
  BY LenProperties
<1>2. PICK f : LeftAfter(f, calls, order, scope, n) /\ left = f[n]
  BY <1>1, PrioritizedSteps
<1> HIDE DEF n
<1>3. f[0] = calls /\ \A k \in 1..n : f[k] = f[k - 1] \ Suppressed(f[k - 1], Prior(order, k), scope)
  <2> DEFINE then(k) == f[k - 1] \ Suppressed(f[k - 1], Prior(order, k), scope)
  <2>1. f = [k \in 0..n |-> IF k = 0 THEN calls ELSE then(k)]
    BY <1>2 DEF LeftAfter
  <2> HIDE DEF then
  <2>2. f[0] = calls
    BY <1>1, <2>1
  <2>3. ASSUME NEW k \in 1..n PROVE f[k] = then(k)
    BY <1>1, <2>1
  <2>4. QED BY <2>2, <2>3 DEF then
<1> DEFINE
      Fewer(m) == f[m] \subseteq calls
      Reason(m) == \A x \in calls \ f[m] : \E k \in 1..n, y \in calls :
        y.call = Prior(order, k) /\ Inside(y, scope) /\ Inside(x, scope) /\ Rival(x, Prior(order, k))
      NoRival(m) == \A k \in 1..n : k <= m => \A x, y \in f[m] :
        Inside(x, scope) /\ Inside(y, scope) /\ y.call = Prior(order, k) => ~Rival(x, Prior(order, k))
      Good(m) == Fewer(m) /\ Reason(m) /\ (Reaches(calls, scope) => NoRival(m))
      Ok == {m \in Nat : m <= n => Good(m)}
<1>4. 0 \in Ok
  BY <1>3
<1>5. ASSUME NEW m \in Ok PROVE m + 1 \in Ok
  <2>1. SUFFICES ASSUME m + 1 <= n PROVE Good(m + 1)
    OBVIOUS
  <2> DEFINE i == Prior(order, m + 1)
             gone == Suppressed(f[m], i, scope)
  <2>2. m \in Nat /\ m + 1 \in 1..n /\ Good(m)
    BY <1>1, <2>1
  <2>3. f[m + 1] = f[m] \ gone
    BY <1>3, <2>2
  <2>4. \A x \in gone : x \in f[m] /\ Inside(x, scope) /\ Rival(x, i)
                        /\ \E y \in f[m] : y.call = i /\ Inside(y, scope)
    BY DEF Suppressed, ReachedBack, Rival
  <2>5. Reaches(calls, scope) /\ Fewer(m) => \A x, y \in f[m] :
          Inside(x, scope) /\ Inside(y, scope) /\ y.call = i /\ Rival(x, i) => x \in gone
    BY DEF Suppressed, ReachedBack, Rival, Reaches
  <2> HIDE DEF gone, i
  <2>6. Fewer(m + 1)
    BY <2>2, <2>3
  <2>7. Reason(m + 1)
    <3>1. SUFFICES ASSUME NEW x \in calls, x \notin f[m + 1]
                   PROVE  \E k \in 1..n, y \in calls :
                            y.call = Prior(order, k) /\ Inside(y, scope) /\ Inside(x, scope) /\ Rival(x, Prior(order, k))
      OBVIOUS
    <3>2. CASE x \notin f[m]
      BY <2>2, <3>2
    <3>3. CASE x \in f[m]
      <4>1. x \in gone
        BY <2>3, <3>1, <3>3
      <4>2. QED BY <2>2, <2>4, <4>1 DEF i
    <3>4. QED BY <3>2, <3>3
  <2>8. ASSUME Reaches(calls, scope) PROVE NoRival(m + 1)
    <3>1. SUFFICES ASSUME NEW k \in 1..n, k <= m + 1, NEW x \in f[m + 1], NEW y \in f[m + 1],
                          Inside(x, scope), Inside(y, scope), y.call = Prior(order, k)
                   PROVE  ~Rival(x, Prior(order, k))
      OBVIOUS
    <3>2. x \in f[m] /\ y \in f[m] /\ x \notin gone
      BY <2>3
    <3>3. CASE k <= m
      BY <2>2, <2>8, <3>1, <3>2, <3>3
    <3>4. CASE k = m + 1
      BY <2>2, <2>5, <2>8, <3>1, <3>2, <3>4 DEF i
    <3>5. QED BY <2>2, <3>1, <3>3, <3>4
  <2>9. QED BY <2>6, <2>7, <2>8
<1>6. Ok = Nat
  <2>1. Ok \in SUBSET Nat
    OBVIOUS
  <2> HIDE DEF Ok
  <2>2. QED BY <1>4, <1>5, <2>1, SetInduction
<1>7. Good(n)
  <2>1. n \in Ok
    BY <1>1, <1>6
  <2>2. QED BY <1>1, <2>1
<1>8. QED BY <1>1, <1>2, <1>7

-----------------------------------------------------------------------------
(* The triggers fired are finitely many.                                           *)
LEMMA FiredFinite ==
  ASSUME atm \in Automata
  PROVE  /\ \A defs \in {atm.values, atm.structs, atm.calls, atm.priorities} :
              DOMAIN defs = 1..Len(defs) /\ IsFiniteSet(DOMAIN defs)
                /\ \A fired \in SUBSET DOMAIN defs : IsFiniteSet(fired)
         /\ \A i \in DOMAIN atm.values : atm.values[i].item \in atm.items
         /\ \A i \in DOMAIN atm.priorities : atm.priorities[i].call \in DOMAIN atm.calls
<1>1. SUFFICES ASSUME NEW defs \in {atm.values, atm.structs, atm.calls, atm.priorities}
               PROVE  /\ DOMAIN defs = 1..Len(defs) /\ IsFiniteSet(DOMAIN defs)
                      /\ \A fired \in SUBSET DOMAIN defs : IsFiniteSet(fired)
  BY AutomataAssumption
<1>2. defs \in Seq(ToSet(defs))
  <2>1. \A d \in {"values", "structs", "calls", "priorities"} : atm[d] \in Seq(ToSet(atm[d]))
    BY AutomataAssumption
  <2>2. QED BY <1>1, <2>1
<1>3. Len(defs) \in Nat /\ DOMAIN defs = 1..Len(defs)
  BY <1>2, LenProperties
<1>4. IsFiniteSet(DOMAIN defs)
  BY <1>3, FS_Interval
<1>5. QED BY <1>3, <1>4, FS_Subset

(* What is collected for an item at the end of a scope: an object for each trigger, *)
(* with the value that waits for it, if there is one, in the first.                *)
Here(x, scope, level) == x.from = scope.from /\ x.to = scope.to /\ x.level = level
Taken(o, nodes, fired, item) ==
  /\ \E i \in fired : atm.values[i].item = item
  /\ o.of = 0 \/ \E n \in Pending(nodes, item) : o.of = n.at
LEMMA CollectFacts ==
  ASSUME NEW nodes, NEW fired, IsFiniteSet(fired), NEW item, NEW scope, NEW level,
         NEW objs, objs = CollectObjects(nodes, fired, item, scope, level)
  PROVE  /\ objs \in Seq(ToSet(objs))
         /\ \A o \in ToSet(objs) : /\ Here(o, scope, level) /\ o.kind = "value"
                                   /\ Taken(o, nodes, fired, item)
         /\ (\E i \in fired : atm.values[i].item = item) => ToSet(objs) # {}
<1> DEFINE mine == {i \in fired : atm.values[i].item = item}
           times == Cardinality(mine)
           values == Collected(nodes, item, times)
<1>1. IsFiniteSet(mine) /\ times \in Nat /\ (mine # {} <=> times > 0)
  <2>1. IsFiniteSet(mine)
    BY FS_Subset
  <2>2. QED BY <2>1, FS_CardinalityType, FS_EmptySet
<1>2. objs = [k \in DOMAIN values |-> ObjectOf("value", scope, level, values[k])]
  BY DEF CollectObjects
<1> HIDE DEF mine, times
<1>3. /\ DOMAIN values = 1..times
      /\ \A k \in 1..times : values[k] = 0 \/ \E n \in Pending(nodes, item) : values[k] = n.at
  BY DEF Collected
<1> HIDE DEF values
<1>4. /\ DOMAIN objs = 1..times
      /\ \A k \in 1..times : objs[k] = ObjectOf("value", scope, level, values[k])
  BY <1>2, <1>3
<1>5. objs \in Seq(ToSet(objs))
  <2>1. objs \in [1..times -> ToSet(objs)]
    BY <1>2, <1>4 DEF ToSet
  <2>2. QED BY <1>1, <2>1
<1>6. \A o \in ToSet(objs) : /\ Here(o, scope, level) /\ o.kind = "value"
                             /\ o.of = 0 \/ \E n \in Pending(nodes, item) : o.of = n.at
  BY <1>3, <1>4 DEF ToSet, Here, ObjectOf
<1>7. mine # {} <=> ToSet(objs) # {}
  BY <1>1, <1>4 DEF ToSet
<1>8. \A o \in ToSet(objs) : Taken(o, nodes, fired, item)
  BY <1>6, <1>7 DEF Taken, mine
<1>9. QED BY <1>5, <1>6, <1>7, <1>8 DEF mine

LEMMA StructFacts ==
  ASSUME NEW fired, IsFiniteSet(fired), NEW item, NEW scope, NEW level,
         NEW objs, objs = StructObjects(fired, item, scope, level)
  PROVE  /\ objs \in Seq(ToSet(objs))
         /\ \A o \in ToSet(objs) : Here(o, scope, level) /\ o.kind = "struct"
<1> DEFINE mine == {i \in fired : atm.structs[i].item = item}
           structs == SetToSeq(mine)
           n == Cardinality(mine)
<1>1. IsFiniteSet(mine)
  BY FS_Subset
<1>2. objs = [k \in DOMAIN structs |-> ObjectOf("struct", scope, level, structs[k])]
  BY DEF StructObjects
<1> HIDE DEF mine
<1>3. n \in Nat /\ DOMAIN structs = 1..n
  BY <1>1, ListFacts
<1> HIDE DEF structs, n
<1>4. objs \in [1..n -> ToSet(objs)]
  BY <1>2, <1>3 DEF ToSet
<1>5. \A o \in ToSet(objs) : Here(o, scope, level) /\ o.kind = "struct"
  BY <1>2, <1>3 DEF ToSet, Here, ObjectOf
<1>6. QED BY <1>3, <1>4, <1>5

-----------------------------------------------------------------------------
(* What is found at the innermost open scope, up to the event that is fed, lies     *)
(* well in what was found before, whether the scope is left then or not.            *)
Laminar(x, y) ==
  /\ x.to < y.from \/ y.to < x.from \/ Inside(x, y) \/ Inside(y, x)
  /\ Inside(x, y) => x.level >= y.level /\ (x.level = y.level => x.from = y.from)
LEMMA FoundHere ==
  ASSUME TypeOK, StackOpen, FoundUnderStack, ScopesLaminar, scopestack # <<>>, scopecnt' = scopecnt + 1,
         NEW new, \A x \in new : Here(x, Curscope, Taglevel),
         AllFound' \subseteq AllFound \cup new,
         scopestack' \in {scopestack, Front(scopestack)}
  PROVE  /\ scopestack' \in Seq(Nat) /\ StackOpen' /\ FoundUnderStack'
         /\ \A x \in AllFound' : Spans(x)' /\ x.level \in Nat
         /\ \A x, y \in AllFound' : Laminar(x, y)
<1> DEFINE n == Len(scopestack)
           top == Last(scopestack)
           now == scopecnt + 1
<1>1. /\ n \in Nat /\ n > 0 /\ DOMAIN scopestack = 1..n /\ \A i \in 1..n : scopestack[i] \in Nat
      /\ scopecnt \in Nat /\ top = scopestack[n] /\ top <= scopecnt /\ top \in Nat
      /\ \A i \in 1..n : scopestack[i] <= top
  <2>1. scopestack \in Seq(Nat) /\ scopecnt \in Nat
    BY DEF TypeOK
  <2>2. n \in Nat /\ n > 0 /\ DOMAIN scopestack = 1..n /\ \A i \in 1..n : scopestack[i] \in Nat
    BY <2>1, LenProperties, EmptySeq, ElementOfSeq
  <2>3. top = scopestack[n]
    BY DEF Last
  <2>4. top <= scopecnt
    BY <2>2, <2>3 DEF StackOpen
  <2> HIDE DEF n, top
  <2>5. ASSUME NEW i \in 1..n PROVE scopestack[i] <= top
    <3>1. CASE i = n
      BY <2>2, <2>3, <3>1
    <3>2. CASE i < n
      BY <2>2, <2>3, <3>2 DEF StackOpen
    <3>3. i = n \/ i < n
      BY <2>2
    <3>4. QED BY <3>1, <3>2, <3>3
  <2>6. QED BY <2>1, <2>2, <2>3, <2>4, <2>5
<1>2. \A x \in new : x.from = top /\ x.to = now /\ x.level = n
  BY DEF Here, Curscope, Taglevel
<1> HIDE DEF n, top
<1>3. /\ scopestack' \in Seq(Nat) /\ DOMAIN scopestack' \subseteq 1..n
      /\ \A i \in DOMAIN scopestack' : scopestack'[i] = scopestack[i]
  <2>1. scopestack \in Seq(Nat)
    BY DEF TypeOK
  <2>2. CASE scopestack' = scopestack
    BY <1>1, <2>1, <2>2
  <2>3. CASE scopestack' = Front(scopestack)
    <3>1. Front(scopestack) = SubSeq(scopestack, 1, n - 1)
      BY DEF Front, n
    <3>2. /\ SubSeq(scopestack, 1, n - 1) \in Seq(Nat) /\ Len(SubSeq(scopestack, 1, n - 1)) = n - 1
          /\ \A i \in 1..(n - 1) : SubSeq(scopestack, 1, n - 1)[i] = scopestack[i]
      <4>1. \A i \in 1..(n - 1) : scopestack[i] \in Nat
        BY <1>1
      <4>2. /\ SubSeq(scopestack, 1, n - 1) \in Seq(Nat)
            /\ Len(SubSeq(scopestack, 1, n - 1)) = IF 1 <= n - 1 THEN (n - 1) - 1 + 1 ELSE 0
            /\ \A i \in 1..((n - 1) - 1 + 1) : SubSeq(scopestack, 1, n - 1)[i] = scopestack[1 + i - 1]
        BY <1>1, <4>1, SubSeqProperties
      <4>3. QED BY <1>1, <4>2
    <3>3. DOMAIN SubSeq(scopestack, 1, n - 1) = 1..(n - 1)
      BY <3>2, LenProperties
    <3>4. QED BY <1>1, <2>3, <3>1, <3>2, <3>3
  <2>4. QED BY <2>2, <2>3
<1>4. StackOpen'
  BY <1>1, <1>3 DEF StackOpen
<1>5. ASSUME NEW x \in AllFound PROVE Spans(x) /\ x.level \in Nat
  BY DEF TypeOK
<1>6. \A x \in AllFound' : Spans(x)' /\ x.level \in Nat
  <2>1. SUFFICES ASSUME NEW x \in AllFound \cup new PROVE Spans(x)' /\ x.level \in Nat
    OBVIOUS
  <2>2. CASE x \in AllFound
    BY <1>1, <1>5, <2>2 DEF Spans
  <2>3. CASE x \in new
    BY <1>1, <1>2, <2>3 DEF Spans
  <2>4. QED BY <2>1, <2>2, <2>3
<1>7. FoundUnderStack'
  <2>1. SUFFICES ASSUME NEW x \in AllFound \cup new, NEW i \in 1..n
                 PROVE  \/ x.to < scopestack[i]
                        \/ x.from >= scopestack[i] /\ x.level >= i /\ (x.level = i => x.from = scopestack[i])
    BY <1>3 DEF FoundUnderStack
  <2>2. CASE x \in AllFound
    BY <1>1, <2>1, <2>2 DEF FoundUnderStack
  <2>3. CASE x \in new
    BY <1>1, <1>2, <2>1, <2>3
  <2>4. QED BY <2>1, <2>2, <2>3
<1>8. ASSUME NEW x \in AllFound, NEW y \in new PROVE Laminar(x, y) /\ Laminar(y, x)
  <2>1. \/ x.to < top
        \/ x.from >= top /\ x.level >= n /\ (x.level = n => x.from = top)
    BY <1>1 DEF FoundUnderStack
  <2>2. x.to < now /\ x.from <= x.to /\ x.from \in Nat /\ x.to \in Nat
    BY <1>1, <1>5 DEF Spans
  <2>3. y.from = top /\ y.to = now /\ y.level = n
    BY <1>2
  <2>4. QED BY <1>1, <2>1, <2>2, <2>3 DEF Laminar, Inside
<1>9. ASSUME NEW x \in new, NEW y \in new PROVE Laminar(x, y)
  BY <1>1, <1>2 DEF Laminar, Inside
<1>10. ASSUME NEW x \in AllFound, NEW y \in AllFound PROVE Laminar(x, y)
  BY DEF ScopesLaminar, AllFound, Laminar
<1>11. QED BY <1>3, <1>4, <1>6, <1>7, <1>8, <1>9, <1>10

-----------------------------------------------------------------------------
LEMMA SeqFacts ==
  ASSUME NEW A, NEW s \in Seq(A)
  PROVE  s \in Seq(ToSet(s)) /\ \A B : A \subseteq B => s \in Seq(B)
<1>1. Len(s) \in Nat /\ s \in [1..Len(s) -> A]
  OBVIOUS
<1>2. s \in [1..Len(s) -> ToSet(s)] /\ \A B : A \subseteq B => s \in [1..Len(s) -> B]
  BY <1>1 DEF ToSet
<1>3. QED BY <1>1, <1>2

LEMMA FrontFacts ==
  ASSUME NEW A, NEW s \in Seq(A), s # <<>>
  PROVE  Front(s) \in Seq(A) /\ Len(s) \in Nat \ {0} /\ Len(Front(s)) = Len(s) - 1
<1>1. Len(s) \in Nat \ {0} /\ \A i \in 1..(Len(s) - 1) : s[i] \in A
  BY LenProperties, EmptySeq, ElementOfSeq
<1> DEFINE n == Len(s) - 1
<1>2. Front(s) = SubSeq(s, 1, n)
  BY DEF Front
<1>3. SubSeq(s, 1, n) \in Seq(A) /\ Len(SubSeq(s, 1, n)) = IF 1 <= n THEN n - 1 + 1 ELSE 0
  BY <1>1, SubSeqProperties
<1>4. n \in Nat
  BY <1>1
<1> HIDE DEF n
<1>5. Len(SubSeq(s, 1, n)) = n
  BY <1>3, <1>4
<1>6. QED BY <1>1, <1>2, <1>3, <1>5 DEF n

(* Objects for an item at the end of a scope are inserted as they are.             *)
LEMMA InsertedHere ==
  ASSUME NEW objs, objs \in Seq(ToSet(objs)), NEW new, new \in Seq(ToSet(new)), NEW all, all = Inserted(objs, new)
  PROVE  all \in Seq(ToSet(all)) /\ ToSet(all) = ToSet(objs) \cup ToSet(new)
<1> DEFINE A == ToSet(objs) \cup ToSet(new)
<1>1. objs \in Seq(A) /\ new \in Seq(A)
  BY SeqFacts
<1> HIDE DEF A
<1>2. all \in Seq(A) /\ ToSet(all) = ToSet(objs) \cup ToSet(new)
  BY <1>1, InsertedFacts
<1>3. QED BY <1>2, SeqFacts

-----------------------------------------------------------------------------
(* At the beginning nothing is found.                                              *)
LEMMA InitIInv == Init => IInv
<1>1. SUFFICES ASSUME Init PROVE IInv
  OBVIOUS
<1>2. /\ atm \in Automata /\ path = <<>> /\ scopecnt = 0 /\ scopestack = <<0>>
      /\ methodcalls = {} /\ closed = {} /\ scopeobjmap = [item \in atm.items |-> <<>>]
  BY <1>1 DEF Init, NothingFed, NoObjects
<1>3. AllFound = {} /\ \A item \in atm.items : Objects(item) = <<>>
  BY <1>2 DEF AllFound, Objects, ToSet
<1>4. TypeOK
  <2>1. <<>> \in Seq(ToSet(<<>>)) /\ path \in Seq(Tag) /\ scopestack \in Seq(Nat)
    BY <1>2
  <2>2. \A item \in atm.items : Objects(item) \in Seq(ToSet(Objects(item)))
    BY <1>3, <2>1
  <2>3. QED BY <1>2, <1>3, <2>1, <2>2 DEF TypeOK
<1>5. StackOpen /\ FoundUnderStack
  BY <1>2, <1>3 DEF StackOpen, FoundUnderStack
<1>6. CallsMade /\ PrioritizedWins /\ CallsKept
  BY <1>2 DEF CallsMade, PrioritizedWins, CallsKept
<1>7. ScopesLaminar
  BY <1>2, <1>3 DEF ScopesLaminar, AllFound
<1>8. QED BY <1>4, <1>5, <1>6, <1>7 DEF IInv

(* What is found stays as it was as long as no scope is left and none is collected. *)
LEMMA FoundKept ==
  ASSUME IInv, UNCHANGED <<atm, scopeobjmap, methodcalls, closed>>, scopecnt' \in {scopecnt, scopecnt + 1}
  PROVE  /\ AllFound' = AllFound
         /\ DOMAIN scopeobjmap' = atm.items /\ \A item \in atm.items : Objects(item)' = Objects(item)
         /\ scopecnt' \in Nat /\ scopecnt \in Nat
         /\ \A x \in AllFound : Spans(x)' /\ x.level \in Nat
         /\ \A c \in closed : Spans(c)'
         /\ CallsMade' /\ PrioritizedWins' /\ CallsKept'
<1>1. \A item : Objects(item)' = Objects(item)
  BY DEF Objects
<1>2. AllFound' = AllFound
  BY <1>1 DEF AllFound
<1>3. CallsMade' /\ PrioritizedWins' /\ CallsKept'
  BY DEF IInv, CallsMade, PrioritizedWins, CallsKept
<1>4. scopecnt' \in Nat /\ scopecnt \in Nat /\ DOMAIN scopeobjmap' = atm.items
  BY DEF IInv, TypeOK
<1>5. ASSUME NEW x, Spans(x) PROVE Spans(x)'
  BY <1>4, <1>5 DEF Spans
<1>6. (\A x \in AllFound : Spans(x) /\ x.level \in Nat) /\ \A c \in closed : Spans(c)
  BY DEF IInv, TypeOK
<1>7. QED BY <1>1, <1>2, <1>3, <1>4, <1>5, <1>6

LEMMA CallsStay ==
  ASSUME UNCHANGED <<atm, methodcalls, closed>>, CallsMade, PrioritizedWins, CallsKept
  PROVE  CallsMade' /\ PrioritizedWins' /\ CallsKept'
BY DEF CallsMade, PrioritizedWins, CallsKept

LEMMA SpansStay ==
  ASSUME NEW x, Spans(x), scopecnt \in Nat, scopecnt' \in {scopecnt, scopecnt + 1}
  PROVE  Spans(x)'
BY DEF Spans

LEMMA KeptIInv ==
  ASSUME IInv, UNCHANGED <<atm, scopeobjmap, methodcalls, closed, path, scopestack>>,
         scopecnt' \in {scopecnt, scopecnt + 1}, scopestack # <<>> \/ fed' = fed
  PROVE  IInv'
<1>1. /\ AllFound' = AllFound
      /\ DOMAIN scopeobjmap' = atm.items /\ \A item \in atm.items : Objects(item)' = Objects(item)
      /\ scopecnt' \in Nat /\ scopecnt \in Nat
      /\ \A x \in AllFound : Spans(x)' /\ x.level \in Nat
      /\ \A c \in closed : Spans(c)'
      /\ CallsMade' /\ PrioritizedWins' /\ CallsKept'
  BY FoundKept
<1>2. TypeOK'
  <2>1. TypeOK
    BY DEF IInv
  <2>2. \A item \in atm.items : Objects(item)' \in Seq(ToSet(Objects(item)'))
    BY <1>1, <2>1 DEF TypeOK
  <2>3. QED BY <1>1, <2>1, <2>2 DEF TypeOK
<1>3. StackOpen'
  <2>1. \A i \in DOMAIN scopestack : scopestack[i] \in Nat
    <3>1. scopestack \in Seq(Nat)
      BY DEF IInv, TypeOK
    <3>2. QED BY <3>1
  <2>2. QED BY <1>1, <2>1 DEF IInv, StackOpen
<1>4. FoundUnderStack'
  BY <1>1 DEF IInv, FoundUnderStack
<1>5. ScopesLaminar'
  <2>1. ScopesLaminar
    BY DEF IInv
  <2>2. \A x, y \in AllFound : Laminar(x, y)
    BY <2>1 DEF ScopesLaminar, AllFound, Laminar
  <2>3. \A x, y \in AllFound' : Laminar(x, y)
    BY <1>1, <2>2
  <2>4. Len(scopestack') = Len(path') + IF fed' = "close tag" /\ scopestack' = <<>> THEN 0 ELSE 1
    BY <2>1 DEF ScopesLaminar
  <2>5. QED BY <2>3, <2>4 DEF ScopesLaminar, AllFound, Laminar
<1>6. QED BY <1>1, <1>2, <1>3, <1>4, <1>5 DEF IInv

(* An element that is opened starts after everything found.                        *)
LEMMA OpenTagIInv ==
  ASSUME IInv, NEW t \in Tag, OpenTag(t)
  PROVE  IInv'
<1>1. /\ scopecnt' = scopecnt + 1 /\ scopestack # <<>> /\ fed' = "open tag"
      /\ scopestack' = Append(scopestack, scopecnt + 1) /\ path' = Append(path, t)
      /\ UNCHANGED <<atm, scopeobjmap, methodcalls, closed>>
  BY DEF OpenTag, Feeding, foundVars
<1>2. /\ AllFound' = AllFound
      /\ DOMAIN scopeobjmap' = atm.items /\ \A item \in atm.items : Objects(item)' = Objects(item)
      /\ scopecnt' \in Nat /\ scopecnt \in Nat
      /\ \A x \in AllFound : Spans(x)' /\ x.level \in Nat
      /\ \A c \in closed : Spans(c)'
      /\ CallsMade' /\ PrioritizedWins' /\ CallsKept'
  BY <1>1, FoundKept
<1> DEFINE n == Len(scopestack)
<1>3. /\ path \in Seq(Tag) /\ scopestack \in Seq(Nat) /\ n \in Nat /\ Len(path) \in Nat
      /\ DOMAIN scopestack = 1..n /\ \A i \in 1..n : scopestack[i] \in Nat
  <2>1. path \in Seq(Tag) /\ scopestack \in Seq(Nat)
    BY DEF IInv, TypeOK
  <2>2. QED BY <2>1, LenProperties, ElementOfSeq
<1>4. /\ scopestack' \in Seq(Nat) /\ path' \in Seq(Tag)
      /\ Len(scopestack') = n + 1 /\ Len(path') = Len(path) + 1 /\ DOMAIN scopestack' = 1..(n + 1)
      /\ scopestack'[n + 1] = scopecnt + 1 /\ \A i \in 1..n : scopestack'[i] = scopestack[i]
  <2> HIDE DEF n
  <2>1. /\ Append(path, t) \in Seq(Tag) /\ Len(Append(path, t)) = Len(path) + 1
    BY <1>3, AppendProperties
  <2> DEFINE s == Append(scopestack, scopecnt + 1)
  <2>2. scopecnt + 1 \in Nat /\ Len(scopestack) = n
    BY <1>2 DEF n
  <2>3. /\ s \in Seq(Nat) /\ Len(s) = n + 1 /\ s[n + 1] = scopecnt + 1
        /\ \A i \in 1..n : s[i] = scopestack[i]
    BY <1>3, <2>2, AppendProperties
  <2>4. DOMAIN s = 1..(n + 1)
    BY <2>3, LenProperties
  <2> HIDE DEF s
  <2>5. QED BY <1>1, <2>1, <2>3, <2>4 DEF s
<1> HIDE DEF n
<1>5. TypeOK'
  <2>1. TypeOK
    BY DEF IInv
  <2>2. \A item \in atm.items : Objects(item)' \in Seq(ToSet(Objects(item)'))
    BY <1>2, <2>1 DEF TypeOK
  <2>3. QED BY <1>1, <1>2, <1>4, <2>1, <2>2 DEF TypeOK
<1>6. StackOpen'
  <2>1. /\ \A i \in 1..n : scopestack[i] <= scopecnt
        /\ \A i, j \in 1..n : i < j => scopestack[i] < scopestack[j]
    BY <1>3 DEF IInv, StackOpen
  <2>2. ASSUME NEW i \in 1..(n + 1) PROVE scopestack'[i] <= scopecnt'
    <3>1. scopecnt' = scopecnt + 1 /\ scopecnt \in Nat
      BY <1>1, <1>2
    <3>2. CASE i \in 1..n
      <4>1. scopestack[i] \in Nat /\ scopestack[i] <= scopecnt /\ scopestack'[i] = scopestack[i]
        BY <1>3, <1>4, <2>1, <3>2
      <4>2. QED BY <3>1, <4>1
    <3>3. CASE i = n + 1
      <4>1. scopestack'[i] = scopecnt + 1
        BY <1>4, <3>3
      <4>2. QED BY <3>1, <4>1
    <3>4. QED BY <1>3, <3>2, <3>3
  <2>3. ASSUME NEW i \in 1..(n + 1), NEW j \in 1..(n + 1), i < j PROVE scopestack'[i] < scopestack'[j]
    <3>1. i \in 1..n /\ scopestack'[i] = scopestack[i] /\ (j \in 1..n \/ j = n + 1)
      BY <1>3, <1>4, <2>3
    <3>2. scopestack[i] \in Nat /\ scopestack[i] <= scopecnt
      BY <1>3, <2>1, <3>1
    <3>3. CASE j \in 1..n
      BY <1>4, <2>1, <2>3, <3>1, <3>3
    <3>4. CASE j = n + 1
      BY <1>2, <1>4, <3>1, <3>2, <3>4
    <3>5. QED BY <3>1, <3>3, <3>4
  <2>4. QED BY <1>4, <2>2, <2>3 DEF StackOpen
<1>7. FoundUnderStack'
  <2>1. SUFFICES ASSUME NEW x \in AllFound, NEW i \in 1..(n + 1)
                 PROVE  \/ x.to < scopestack'[i]
                        \/ x.from >= scopestack'[i] /\ x.level >= i /\ (x.level = i => x.from = scopestack'[i])
    BY <1>2, <1>4 DEF FoundUnderStack
  <2>2. CASE i \in 1..n
    BY <1>3, <1>4, <2>2 DEF IInv, FoundUnderStack
  <2>3. CASE i = n + 1
    <3>1. Spans(x)
      BY DEF IInv, TypeOK
    <3>2. QED BY <1>2, <1>4, <2>3, <3>1 DEF Spans
  <2>4. QED BY <1>3, <2>2, <2>3
<1>8. ScopesLaminar'
  <2>1. ScopesLaminar
    BY DEF IInv
  <2>2. Len(scopestack') = Len(path') + 1
    BY <1>1, <1>3, <1>4, <2>1 DEF ScopesLaminar, n
  <2>3. QED BY <1>1, <1>2, <2>1, <2>2 DEF ScopesLaminar, AllFound
<1>9. QED BY <1>2, <1>5, <1>6, <1>7, <1>8 DEF IInv

-----------------------------------------------------------------------------
(* What is inserted for each item at the end of a scope.                           *)
ObjectsAdded(nodes, fired, scope, level) ==
  /\ DOMAIN scopeobjmap' = atm.items
  /\ \A item \in atm.items :
       /\ Objects(item)' \in Seq(ToSet(Objects(item)'))
       /\ ToSet(Objects(item)) \subseteq ToSet(Objects(item)')
       /\ \A o \in ToSet(Objects(item)') :
            \/ o \in ToSet(Objects(item))
            \/ /\ Here(o, scope, level)
               /\ o.kind = "value" => Taken(o, nodes, fired, item)
       /\ (\E i \in fired : atm.values[i].item = item) =>
            \E o \in ToSet(Objects(item)') : Here(o, scope, level) /\ o.kind = "value"

LEMMA ValueObjects ==
  ASSUME TypeOK, NEW nodes, NEW fired, fired \subseteq DOMAIN atm.values, NEW item \in atm.items,
         NEW scope, NEW level,
         NEW objs, objs = Inserted(Objects(item), CollectObjects(nodes, fired, item, scope, level))
  PROVE  /\ objs \in Seq(ToSet(objs)) /\ ToSet(Objects(item)) \subseteq ToSet(objs)
         /\ \A o \in ToSet(objs) :
              \/ o \in ToSet(Objects(item))
              \/ /\ Here(o, scope, level) /\ o.kind = "value"
                 /\ Taken(o, nodes, fired, item)
         /\ (\E i \in fired : atm.values[i].item = item) =>
              \E o \in ToSet(objs) : Here(o, scope, level) /\ o.kind = "value"
<1> DEFINE new == CollectObjects(nodes, fired, item, scope, level)
<1>1. IsFiniteSet(fired)
  BY FiredFinite DEF TypeOK
<1>2. /\ new \in Seq(ToSet(new))
      /\ \A o \in ToSet(new) : /\ Here(o, scope, level) /\ o.kind = "value"
                               /\ Taken(o, nodes, fired, item)
      /\ (\E i \in fired : atm.values[i].item = item) => ToSet(new) # {}
  BY <1>1, CollectFacts
<1> HIDE DEF new
<1>3. Objects(item) \in Seq(ToSet(Objects(item)))
  BY DEF TypeOK
<1>4. objs \in Seq(ToSet(objs)) /\ ToSet(objs) = ToSet(Objects(item)) \cup ToSet(new)
  BY <1>2, <1>3, InsertedHere DEF new
<1>5. ASSUME NEW o \in ToSet(new)
      PROVE  /\ o \in ToSet(objs) /\ Here(o, scope, level) /\ o.kind = "value"
             /\ Taken(o, nodes, fired, item)
  <2>1. o \in ToSet(objs)
    BY <1>4
  <2>2. QED BY <1>2, <2>1
<1>6. (\E i \in fired : atm.values[i].item = item) => \E o : o \in ToSet(new)
  BY <1>2
<1>7. \A o \in ToSet(objs) : o \in ToSet(Objects(item)) \/ o \in ToSet(new)
  BY <1>4
<1>8. ToSet(Objects(item)) \subseteq ToSet(objs)
  BY <1>4
<1>9. objs \in Seq(ToSet(objs))
  BY <1>4
<1>10. QED BY ONLY <1>5, <1>6, <1>7, <1>8, <1>9

LEMMA StructsAfterValues ==
  ASSUME TypeOK, NEW fired, fired \subseteq DOMAIN atm.structs, NEW item, NEW scope, NEW level,
         NEW objs, objs \in Seq(ToSet(objs)),
         NEW all, all = Inserted(objs, StructObjects(fired, item, scope, level))
  PROVE  /\ all \in Seq(ToSet(all)) /\ ToSet(objs) \subseteq ToSet(all)
         /\ \A o \in ToSet(all) : o \in ToSet(objs) \/ (Here(o, scope, level) /\ o.kind = "struct")
<1> DEFINE new == StructObjects(fired, item, scope, level)
<1>1. IsFiniteSet(fired)
  BY FiredFinite DEF TypeOK
<1>2. /\ new \in Seq(ToSet(new))
      /\ \A o \in ToSet(new) : Here(o, scope, level) /\ o.kind = "struct"
  BY <1>1, StructFacts
<1> HIDE DEF new
<1>3. all \in Seq(ToSet(all)) /\ ToSet(all) = ToSet(objs) \cup ToSet(new)
  BY <1>2, InsertedHere DEF new
<1>4. QED BY <1>2, <1>3

(* The calls and objects of a state after what is inserted.                        *)
LEMMA AddedIsFoundHere ==
  ASSUME NEW nodes, NEW fired, NEW scope, NEW level, ObjectsAdded(nodes, fired, scope, level), atm' = atm,
         \A x \in methodcalls' : x \in methodcalls \/ Here(x, scope, level)
  PROVE  \A x \in AllFound' : x \in AllFound \/ Here(x, scope, level)
<1>1. SUFFICES ASSUME NEW x \in AllFound' PROVE x \in AllFound \/ Here(x, scope, level)
  OBVIOUS
<1>2. CASE x \in methodcalls'
  BY <1>2 DEF AllFound
<1>3. CASE \E item \in atm.items : x \in ToSet(Objects(item)')
  BY <1>3 DEF AllFound, ObjectsAdded
<1>4. x \in methodcalls' \/ \E item \in atm.items : x \in ToSet(Objects(item)')
  BY <1>1 DEF AllFound
<1>5. QED BY <1>2, <1>3, <1>4

LEMMA AttributeValueAdds ==
  ASSUME IInv, AttributeValue, errcode' = errcode
  PROVE  \E nodes, collects :
           /\ nodes = Instantiated(FiredBy(atm.values, {"attribute", "scope"}, path))
           /\ collects = FiredBy(atm.values, {"scope"}, path)
           /\ ~CollectFails(nodes, collects)
           /\ valuenodes' = LeftPending(nodes, collects)
           /\ ObjectsAdded(nodes, collects, Curscope, Taglevel)
<1> DEFINE nodes == Instantiated(FiredBy(atm.values, {"attribute", "scope"}, path))
           collects == FiredBy(atm.values, {"scope"}, path)
           scope == Curscope
<1>1. ~CollectFails(nodes, collects) /\ atm' = atm
  BY DEF AttributeValue, Feeding
<1>2. /\ valuenodes' = LeftPending(nodes, collects)
      /\ scopeobjmap' = [item \in atm.items |->
           Inserted(scopeobjmap[item], CollectObjects(nodes, collects, item, scope, Taglevel))]
  BY <1>1 DEF AttributeValue
<1>3. collects \subseteq DOMAIN atm.values
  BY DEF FiredBy
<1> HIDE DEF nodes, collects, scope
<1>4. ASSUME NEW item \in atm.items
      PROVE  /\ Objects(item)' \in Seq(ToSet(Objects(item)'))
             /\ ToSet(Objects(item)) \subseteq ToSet(Objects(item)')
             /\ \A o \in ToSet(Objects(item)') :
                  \/ o \in ToSet(Objects(item))
                  \/ /\ Here(o, scope, Taglevel)
                     /\ o.kind = "value" => Taken(o, nodes, collects, item)
             /\ (\E i \in collects : atm.values[i].item = item) =>
                  \E o \in ToSet(Objects(item)') : Here(o, scope, Taglevel) /\ o.kind = "value"
  <2> DEFINE objs == Inserted(Objects(item), CollectObjects(nodes, collects, item, scope, Taglevel))
  <2>1. Objects(item)' = objs
    BY <1>1, <1>2 DEF Objects
  <2>2. TypeOK
    BY DEF IInv
  <2> HIDE DEF objs
  <2>3. /\ objs \in Seq(ToSet(objs)) /\ ToSet(Objects(item)) \subseteq ToSet(objs)
        /\ \A o \in ToSet(objs) :
             \/ o \in ToSet(Objects(item))
             \/ /\ Here(o, scope, Taglevel) /\ o.kind = "value"
                /\ Taken(o, nodes, collects, item)
        /\ (\E i \in collects : atm.values[i].item = item) =>
             \E o \in ToSet(objs) : Here(o, scope, Taglevel) /\ o.kind = "value"
    BY <1>3, <2>2, ValueObjects DEF objs
  <2>4. QED BY <2>1, <2>3
<1>5. ObjectsAdded(nodes, collects, scope, Taglevel)
  BY <1>1, <1>2, <1>4 DEF ObjectsAdded
<1>6. QED BY <1>1, <1>2, <1>5 DEF nodes, collects, scope

LEMMA CloseTagAdds ==
  ASSUME IInv, CloseTag, errcode' = errcode
  PROVE  \E collects :
           /\ collects = {i \in Fired(atm.values, path) : atm.values[i].on # "scope"}
           /\ ~CollectFails(valuenodes, collects)
           /\ valuenodes' = LeftPending(valuenodes, collects)
           /\ ObjectsAdded(valuenodes, collects, Curscope, Taglevel)
<1> DEFINE collects == {i \in Fired(atm.values, path) : atm.values[i].on # "scope"}
           structs == Fired(atm.structs, path)
           scope == Curscope
<1>1. ~CollectFails(valuenodes, collects) /\ atm' = atm
  BY DEF CloseTag, Feeding
<1>2. /\ valuenodes' = LeftPending(valuenodes, collects)
      /\ scopeobjmap' = [item \in atm.items |->
           Inserted(Inserted(scopeobjmap[item], CollectObjects(valuenodes, collects, item, scope, Taglevel)),
                    StructObjects(structs, item, scope, Taglevel))]
  BY <1>1 DEF CloseTag
<1>3. collects \subseteq DOMAIN atm.values /\ structs \subseteq DOMAIN atm.structs
  BY DEF Fired
<1> HIDE DEF collects, structs, scope
<1>4. ASSUME NEW item \in atm.items
      PROVE  /\ Objects(item)' \in Seq(ToSet(Objects(item)'))
             /\ ToSet(Objects(item)) \subseteq ToSet(Objects(item)')
             /\ \A o \in ToSet(Objects(item)') :
                  \/ o \in ToSet(Objects(item))
                  \/ /\ Here(o, scope, Taglevel)
                     /\ o.kind = "value" => Taken(o, valuenodes, collects, item)
             /\ (\E i \in collects : atm.values[i].item = item) =>
                  \E o \in ToSet(Objects(item)') : Here(o, scope, Taglevel) /\ o.kind = "value"
  <2> DEFINE objs == Inserted(Objects(item), CollectObjects(valuenodes, collects, item, scope, Taglevel))
             all == Inserted(objs, StructObjects(structs, item, scope, Taglevel))
  <2>1. Objects(item)' = all
    BY <1>1, <1>2 DEF Objects
  <2>2. TypeOK
    BY DEF IInv
  <2> HIDE DEF objs, all
  <2>3. /\ objs \in Seq(ToSet(objs)) /\ ToSet(Objects(item)) \subseteq ToSet(objs)
        /\ \A o \in ToSet(objs) :
             \/ o \in ToSet(Objects(item))
             \/ /\ Here(o, scope, Taglevel) /\ o.kind = "value"
                /\ Taken(o, valuenodes, collects, item)
        /\ (\E i \in collects : atm.values[i].item = item) =>
             \E o \in ToSet(objs) : Here(o, scope, Taglevel) /\ o.kind = "value"
    <3>1. collects \subseteq DOMAIN atm.values
      BY <1>3
    <3>2. QED BY <2>2, <3>1, ValueObjects DEF objs
  <2>4. /\ all \in Seq(ToSet(all)) /\ ToSet(objs) \subseteq ToSet(all)
        /\ \A o \in ToSet(all) : o \in ToSet(objs) \/ (Here(o, scope, Taglevel) /\ o.kind = "struct")
    BY <1>3, <2>2, <2>3, StructsAfterValues DEF all
  <2>5. ASSUME NEW o \in ToSet(all)
        PROVE  \/ o \in ToSet(Objects(item))
               \/ /\ Here(o, scope, Taglevel)
                  /\ o.kind = "value" => Taken(o, valuenodes, collects, item)
    <3>1. CASE o \in ToSet(objs)
      BY <2>3, <3>1
    <3>2. CASE Here(o, scope, Taglevel) /\ o.kind = "struct"
      BY <3>2
    <3>3. QED BY <2>4, <3>1, <3>2
  <2>6. ToSet(Objects(item)) \subseteq ToSet(all)
    BY <2>3, <2>4
  <2>7. (\E i \in collects : atm.values[i].item = item) =>
           \E o \in ToSet(all) : Here(o, scope, Taglevel) /\ o.kind = "value"
    BY <2>3, <2>4
  <2>8. all \in Seq(ToSet(all))
    BY <2>4
  <2>9. QED BY <2>1, <2>5, <2>6, <2>7, <2>8
<1>5. ObjectsAdded(valuenodes, collects, scope, Taglevel)
  BY <1>1, <1>2, <1>4 DEF ObjectsAdded
<1>6. QED BY <1>1, <1>2, <1>5 DEF collects, scope

(* A value of an attribute is collected in the scope of its element so far.        *)
LEMMA AttributeValueIInv ==
  ASSUME IInv, AttributeValue
  PROVE  IInv'
<1>1. /\ scopestack # <<>> /\ scopecnt' = scopecnt + 1 /\ fed' = "attribute value"
      /\ UNCHANGED <<atm, path, scopestack, methodcalls, closed>>
  BY DEF AttributeValue, Feeding
<1>2. CASE errcode' # errcode
  <2>1. UNCHANGED scopeobjmap
    BY <1>2 DEF AttributeValue
  <2>2. QED BY <1>1, <2>1, KeptIInv
<1>3. CASE errcode' = errcode
  <2> DEFINE new == {x \in AllFound' : Here(x, Curscope, Taglevel)}
  <2>1. PICK nodes, collects : ObjectsAdded(nodes, collects, Curscope, Taglevel)
    BY <1>3, AttributeValueAdds
  <2>2. \A x \in AllFound' : x \in AllFound \/ Here(x, Curscope, Taglevel)
    BY <1>1, <2>1, AddedIsFoundHere
  <2>3. /\ AllFound' \subseteq AllFound \cup new /\ \A x \in new : Here(x, Curscope, Taglevel)
        /\ scopestack' \in {scopestack, Front(scopestack)}
    BY <1>1, <2>2
  <2>4. TypeOK /\ StackOpen /\ FoundUnderStack /\ ScopesLaminar
    BY DEF IInv
  <2> HIDE DEF new
  <2>5. /\ scopestack' \in Seq(Nat) /\ StackOpen' /\ FoundUnderStack'
        /\ \A x \in AllFound' : Spans(x)' /\ x.level \in Nat
        /\ \A x, y \in AllFound' : Laminar(x, y)
    BY <1>1, <2>3, <2>4, FoundHere
  <2>6. TypeOK'
    <3>1. scopecnt' \in Nat /\ \A c \in closed' : Spans(c)'
      <4>1. scopecnt \in Nat /\ \A c \in closed : Spans(c)
        BY <2>4 DEF TypeOK
      <4>2. scopecnt' = scopecnt + 1
        BY <1>1
      <4>3. scopecnt' \in Nat
        BY <4>1, <4>2
      <4>4. QED BY <1>1, <4>1, <4>2, <4>3, SpansStay
    <3>2. /\ DOMAIN scopeobjmap' = atm'.items
          /\ \A item \in atm'.items : Objects(item)' \in Seq(ToSet(Objects(item)'))
      BY <1>1, <2>1 DEF ObjectsAdded
    <3>3. \A x \in methodcalls' : x.call \in DOMAIN atm'.calls
      BY <1>1, <2>4 DEF TypeOK
    <3>4. atm' \in Automata /\ path' \in Seq(Tag)
      BY <1>1, <2>4 DEF TypeOK
    <3>5. QED BY <2>5, <3>1, <3>2, <3>3, <3>4 DEF TypeOK
  <2>7. ScopesLaminar'
    <3>1. Len(scopestack') = Len(path') + 1
      BY <1>1, <2>4 DEF ScopesLaminar
    <3>2. QED BY <1>1, <2>5, <3>1 DEF ScopesLaminar, AllFound, Laminar
  <2>8. CallsMade' /\ PrioritizedWins' /\ CallsKept'
    <3>1. CallsMade /\ PrioritizedWins /\ CallsKept
      BY DEF IInv
    <3>2. QED BY <1>1, <3>1, CallsStay
  <2>9. QED BY <2>5, <2>6, <2>7, <2>8 DEF IInv
<1>4. QED BY <1>2, <1>3

-----------------------------------------------------------------------------
(* The end of an element: the calls it makes, and what prioritizing leaves.        *)
ClosedHere(c) == c = [path |-> path, from |-> Curscope.from, to |-> Curscope.to]
LEMMA CloseTagCalls ==
  ASSUME IInv, CloseTag, errcode' = errcode
  PROVE  \E calls, order, c :
           /\ ClosedHere(c) /\ closed' = closed \cup {c}
           /\ calls = methodcalls \cup MethodCalls(Fired(atm.calls, path), Curscope, Taglevel)
           /\ order \in Seq(Fired(atm.priorities, path)) /\ ToSet(order) = Fired(atm.priorities, path)
           /\ methodcalls' = Prioritized(calls, order, Curscope)
<1> DEFINE fired == Fired(atm.priorities, path)
           calls == methodcalls \cup MethodCalls(Fired(atm.calls, path), Curscope, Taglevel)
           c == [path |-> path, from |-> Curscope.from, to |-> Curscope.to]
<1>1. /\ closed' = closed \cup {c}
      /\ \E order \in SetToSeqs(fired) : methodcalls' = Prioritized(calls, order, Curscope)
  BY DEF CloseTag, Feeding
<1>2. IsFiniteSet(fired)
  <2>1. fired \subseteq DOMAIN atm.priorities /\ atm \in Automata
    BY DEF Fired, IInv, TypeOK
  <2>2. QED BY <2>1, FiredFinite
<1>3. PICK order \in SetToSeqs(fired) : methodcalls' = Prioritized(calls, order, Curscope)
  BY <1>1
<1> HIDE DEF fired
<1>4. order \in Seq(fired) /\ ToSet(order) = fired
  BY <1>2, OrderFacts
<1> HIDE DEF calls, c
<1>5. QED BY <1>1, <1>3, <1>4 DEF ClosedHere, fired, calls, c

LEMMA NewCalls ==
  ASSUME NEW scope, NEW level, NEW x
  PROVE  x \in MethodCalls(Fired(atm.calls, path), scope, level) <=>
           \E i \in DOMAIN atm.calls :
             /\ Selects(atm.calls[i].scope, path)
             /\ x = [call |-> i, group |-> atm.calls[i].group, from |-> scope.from, to |-> scope.to,
                     level |-> level]
BY DEF MethodCalls, Fired

CallsThere == methodcalls \cup MethodCalls(Fired(atm.calls, path), Curscope, Taglevel)
(* The calls that are there after the end of an element, or were before.           *)
LEMMA CloseTagMade ==
  ASSUME IInv, NEW c, scopestack # <<>>, atm' = atm,
         ClosedHere(c), closed' = closed \cup {c}, scopecnt' = scopecnt + 1
  PROVE  /\ \A x \in CallsThere : /\ x \in methodcalls \/ Here(x, Curscope, Taglevel)
                             /\ x.call \in DOMAIN atm.calls
                             /\ \E d \in closed' : d.from = x.from /\ d.to = x.to
                                                  /\ Selects(atm.calls[x.call].scope, d.path)
         /\ \A i \in DOMAIN atm.calls : Selects(atm.calls[i].scope, path) =>
              \E x \in CallsThere : x.call = i /\ x.from = c.from /\ x.to = c.to
         /\ c.from = Curscope.from /\ c.to = Curscope.to /\ c.path = path
<1> DEFINE scope == Curscope
           level == Taglevel
           new == MethodCalls(Fired(atm.calls, path), scope, level)
<1>1. c.from = scope.from /\ c.to = scope.to /\ c.path = path
  BY DEF ClosedHere
<1> HIDE DEF scope, level
<1>2. ASSUME NEW x \in new
      PROVE  /\ Here(x, scope, level) /\ x.call \in DOMAIN atm.calls
             /\ x.from = scope.from /\ x.to = scope.to /\ Selects(atm.calls[x.call].scope, path)
  <2>1. PICK i \in DOMAIN atm.calls :
             /\ Selects(atm.calls[i].scope, path)
             /\ x = [call |-> i, group |-> atm.calls[i].group, from |-> scope.from, to |-> scope.to,
                     level |-> level]
    BY NewCalls
  <2>2. QED BY <2>1 DEF Here
<1>3. ASSUME NEW i \in DOMAIN atm.calls, Selects(atm.calls[i].scope, path)
      PROVE  \E x \in new : x.call = i /\ x.from = scope.from /\ x.to = scope.to
  <2> DEFINE x == [call |-> i, group |-> atm.calls[i].group, from |-> scope.from, to |-> scope.to,
                   level |-> level]
  <2>1. x \in new
    BY <1>3, NewCalls
  <2>2. x.call = i /\ x.from = scope.from /\ x.to = scope.to
    OBVIOUS
  <2> HIDE DEF x, new
  <2>3. QED BY <2>1, <2>2
<1>4. CallsThere = methodcalls \cup new
  BY DEF CallsThere, scope, level
<1> HIDE DEF new
<1>5. \A x \in methodcalls : /\ x.call \in DOMAIN atm.calls
                             /\ \E d \in closed : d.from = x.from /\ d.to = x.to
                                                 /\ Selects(atm.calls[x.call].scope, d.path)
  BY DEF IInv, TypeOK, CallsMade
<1>6. ASSUME NEW x \in CallsThere
      PROVE  /\ x \in methodcalls \/ Here(x, scope, level)
             /\ x.call \in DOMAIN atm.calls
             /\ \E d \in closed' : d.from = x.from /\ d.to = x.to /\ Selects(atm.calls[x.call].scope, d.path)
  <2>1. CASE x \in methodcalls
    BY <1>5, <2>1
  <2>2. CASE x \in new
    <3>1. c \in closed' /\ c.from = x.from /\ c.to = x.to /\ Selects(atm.calls[x.call].scope, c.path)
      BY <1>1, <1>2, <2>2
    <3>2. QED BY <1>2, <2>2, <3>1
  <2>3. QED BY <1>4, <2>1, <2>2
<1>7. QED BY <1>1, <1>3, <1>4, <1>6 DEF scope, level

(* The loops of prioritizing reach every call of the scope that is left.           *)
LEMMA CloseTagReaches ==
  ASSUME TypeOK, StackOpen, FoundUnderStack, scopestack # <<>>, scopecnt' = scopecnt + 1,
         NEW calls, \A x \in calls : x \in methodcalls \/ Here(x, Curscope, Taglevel)
  PROVE  Reaches(calls, Curscope)
<1> DEFINE n == Len(scopestack)
           top == Last(scopestack)
           now == scopecnt + 1
<1>1. n \in DOMAIN scopestack /\ top = scopestack[n] /\ top \in Nat /\ top <= scopecnt /\ scopecnt \in Nat
  <2>1. scopestack \in Seq(Nat) /\ scopecnt \in Nat
    BY DEF TypeOK
  <2>2. n \in Nat /\ n > 0 /\ DOMAIN scopestack = 1..n /\ \A i \in 1..n : scopestack[i] \in Nat
    BY <2>1, LenProperties, EmptySeq, ElementOfSeq
  <2>3. top = scopestack[n]
    BY DEF Last
  <2>4. QED BY <2>1, <2>2, <2>3 DEF StackOpen
<1>2. Curscope.from = top /\ Curscope.to = now
  BY DEF Curscope
<1> HIDE DEF n, top, now
<1>3. ASSUME NEW x \in calls
      PROVE  /\ x.to \in Nat /\ x.from \in Nat /\ x.from <= x.to
             /\ x.to < top \/ x.from >= top
  <2>1. CASE x \in methodcalls
    <3>1. x \in AllFound
      BY <2>1 DEF AllFound
    <3>2. Spans(x)
      BY <3>1 DEF TypeOK
    <3>3. x.to < top \/ x.from >= top
      BY <1>1, <3>1 DEF FoundUnderStack
    <3>4. QED BY <3>2, <3>3 DEF Spans
  <2>2. CASE Here(x, Curscope, Taglevel)
    <3>1. x.from = top /\ x.to = now
      BY <1>2, <2>2 DEF Here
    <3>2. QED BY <1>1, <3>1 DEF now
  <2>3. QED BY <2>1, <2>2
<1>4. SUFFICES ASSUME NEW x \in calls, NEW y \in calls, Inside(x, Curscope), y.to >= x.to
               PROVE  y.from >= Curscope.from
  BY DEF Reaches
<1>5. x.from >= top
  BY <1>2, <1>4 DEF Inside
<1>6. QED BY <1>1, <1>2, <1>3, <1>4, <1>5

(* What prioritizing at the end of an element keeps and drops, with its reason.    *)
LEMMA CloseTagPrioritizes ==
  ASSUME IInv, CloseTag, errcode' = errcode
  PROVE  \E c, calls :
    /\ ClosedHere(c) /\ closed' = closed \cup {c} /\ methodcalls' \subseteq calls
    /\ c.from = Curscope.from /\ c.to = Curscope.to /\ c.path = path
    /\ \A x \in calls : /\ x \in methodcalls \/ Here(x, Curscope, Taglevel)
                        /\ x.call \in DOMAIN atm.calls
                        /\ \E d \in closed' : d.from = x.from /\ d.to = x.to
                                             /\ Selects(atm.calls[x.call].scope, d.path)
    /\ methodcalls \subseteq calls
    /\ \A i \in DOMAIN atm.calls : Selects(atm.calls[i].scope, path) =>
         \E x \in calls : x.call = i /\ x.from = c.from /\ x.to = c.to
    /\ \A x \in calls \ methodcalls' : \E p \in ToSet(atm.priorities), y \in calls :
         /\ Selects(p.scope, path) /\ y.call = p.call
         /\ Inside(y, Curscope) /\ Inside(x, Curscope) /\ Rival(x, p.call)
    /\ \A p \in ToSet(atm.priorities), x \in methodcalls', y \in methodcalls' :
         Selects(p.scope, path) /\ Inside(x, Curscope) /\ Inside(y, Curscope) /\ y.call = p.call =>
           ~Rival(x, p.call)
<1> DEFINE fired == Fired(atm.priorities, path)
<1>1. PICK calls, order, c :
        /\ ClosedHere(c) /\ closed' = closed \cup {c}
        /\ calls = methodcalls \cup MethodCalls(Fired(atm.calls, path), Curscope, Taglevel)
        /\ order \in Seq(fired) /\ ToSet(order) = fired
        /\ methodcalls' = Prioritized(calls, order, Curscope)
  BY CloseTagCalls
<1>2. scopestack # <<>> /\ atm' = atm /\ scopecnt' = scopecnt + 1
  BY DEF CloseTag, Feeding
<1>3. fired = {i \in DOMAIN atm.priorities : Selects(atm.priorities[i].scope, path)}
  BY DEF Fired
<1> HIDE DEF fired
<1>4. /\ \A x \in calls : /\ x \in methodcalls \/ Here(x, Curscope, Taglevel)
                          /\ x.call \in DOMAIN atm.calls
                          /\ \E d \in closed' : d.from = x.from /\ d.to = x.to
                                               /\ Selects(atm.calls[x.call].scope, d.path)
      /\ \A i \in DOMAIN atm.calls : Selects(atm.calls[i].scope, path) =>
           \E x \in calls : x.call = i /\ x.from = c.from /\ x.to = c.to
      /\ c.from = Curscope.from /\ c.to = Curscope.to /\ c.path = path
  <2> HIDE DEF ClosedHere
  <2>1. /\ scopestack # <<>> /\ atm' = atm /\ ClosedHere(c) /\ closed' = closed \cup {c}
        /\ scopecnt' = scopecnt + 1
        /\ calls = methodcalls \cup MethodCalls(Fired(atm.calls, path), Curscope, Taglevel)
    BY <1>1, <1>2
  <2> DEFINE all == CallsThere
  <2>2. calls = all
    BY <2>1 DEF CallsThere
  <2>3. /\ \A x \in all : /\ x \in methodcalls \/ Here(x, Curscope, Taglevel)
                          /\ x.call \in DOMAIN atm.calls
                          /\ \E d \in closed' : d.from = x.from /\ d.to = x.to
                                               /\ Selects(atm.calls[x.call].scope, d.path)
        /\ \A i \in DOMAIN atm.calls : Selects(atm.calls[i].scope, path) =>
             \E x \in all : x.call = i /\ x.from = c.from /\ x.to = c.to
        /\ c.from = Curscope.from /\ c.to = Curscope.to /\ c.path = path
    BY <2>1, CloseTagMade
  <2> HIDE DEF all
  <2>4. QED BY <2>2, <2>3
<1>5. Reaches(calls, Curscope)
  <2>1. TypeOK /\ StackOpen /\ FoundUnderStack
    BY DEF IInv
  <2>2. \A x \in calls : x \in methodcalls \/ Here(x, Curscope, Taglevel)
    BY <1>4
  <2>3. QED BY <1>2, <2>1, <2>2, CloseTagReaches
<1> DEFINE left == Prioritized(calls, order, Curscope)
<1>6. methodcalls' = left /\ methodcalls \subseteq calls /\ order \in Seq(fired) /\ ToSet(order) = fired
  BY <1>1
<1>7. /\ left \subseteq calls
      /\ \A x \in calls \ left : \E k \in DOMAIN order, y \in calls :
           y.call = Prior(order, k) /\ Inside(y, Curscope) /\ Inside(x, Curscope) /\ Rival(x, Prior(order, k))
      /\ Reaches(calls, Curscope) => \A k \in DOMAIN order : \A x, y \in left :
           Inside(x, Curscope) /\ Inside(y, Curscope) /\ y.call = Prior(order, k) => ~Rival(x, Prior(order, k))
  BY <1>6, PrioritizedFacts
<1> HIDE DEF left
<1>8. /\ \A k \in DOMAIN order : /\ atm.priorities[order[k]] \in ToSet(atm.priorities)
                                 /\ Selects(atm.priorities[order[k]].scope, path)
      /\ \A p \in ToSet(atm.priorities) : Selects(p.scope, path) =>
           \E k \in DOMAIN order : atm.priorities[order[k]] = p
  <2>1. \A k \in DOMAIN order : order[k] \in fired
    BY <1>6 DEF ToSet
  <2>2. \A i \in fired : \E k \in DOMAIN order : order[k] = i
    BY <1>6 DEF ToSet
  <2>3. QED BY <1>3, <2>1, <2>2 DEF ToSet
<1>9. ASSUME NEW x \in calls \ left
      PROVE  \E p \in ToSet(atm.priorities), y \in calls :
               /\ Selects(p.scope, path) /\ y.call = p.call
               /\ Inside(y, Curscope) /\ Inside(x, Curscope) /\ Rival(x, p.call)
  <2>1. PICK k \in DOMAIN order, y \in calls :
           y.call = Prior(order, k) /\ Inside(y, Curscope) /\ Inside(x, Curscope) /\ Rival(x, Prior(order, k))
    BY <1>7
  <2>2. QED BY <1>8, <2>1 DEF Prior
<1>10. ASSUME NEW p \in ToSet(atm.priorities), NEW x \in left, NEW y \in left,
              Selects(p.scope, path), Inside(x, Curscope), Inside(y, Curscope), y.call = p.call
       PROVE  ~Rival(x, p.call)
  <2>1. PICK k \in DOMAIN order : atm.priorities[order[k]] = p
    BY <1>8, <1>10
  <2>2. Prior(order, k) = p.call
    BY <2>1 DEF Prior
  <2>3. QED BY <1>5, <1>7, <1>10, <2>2
<1>11. /\ ClosedHere(c) /\ closed' = closed \cup {c} /\ methodcalls' \subseteq calls
       /\ c.from = Curscope.from /\ c.to = Curscope.to /\ c.path = path
  BY <1>1, <1>4, <1>6, <1>7
<1>12. WITNESS c, calls
<1>13. QED BY <1>4, <1>6, <1>9, <1>10, <1>11

LEMMA CloseTagKeepsCalls ==
  ASSUME IInv, CloseTag, errcode' = errcode
  PROVE  CallsMade' /\ PrioritizedWins' /\ CallsKept'
<1>1. PICK c, calls :
    /\ ClosedHere(c) /\ closed' = closed \cup {c} /\ methodcalls' \subseteq calls
    /\ c.from = Curscope.from /\ c.to = Curscope.to /\ c.path = path
    /\ \A x \in calls : /\ x \in methodcalls \/ Here(x, Curscope, Taglevel)
                        /\ x.call \in DOMAIN atm.calls
                        /\ \E d \in closed' : d.from = x.from /\ d.to = x.to
                                             /\ Selects(atm.calls[x.call].scope, d.path)
    /\ methodcalls \subseteq calls
    /\ \A i \in DOMAIN atm.calls : Selects(atm.calls[i].scope, path) =>
         \E x \in calls : x.call = i /\ x.from = c.from /\ x.to = c.to
    /\ \A x \in calls \ methodcalls' : \E p \in ToSet(atm.priorities), y \in calls :
         /\ Selects(p.scope, path) /\ y.call = p.call
         /\ Inside(y, Curscope) /\ Inside(x, Curscope) /\ Rival(x, p.call)
    /\ \A p \in ToSet(atm.priorities), x \in methodcalls', y \in methodcalls' :
         Selects(p.scope, path) /\ Inside(x, Curscope) /\ Inside(y, Curscope) /\ y.call = p.call =>
           ~Rival(x, p.call)
  BY CloseTagPrioritizes
<1>2. atm' = atm /\ scopecnt' = scopecnt + 1 /\ Curscope.to = scopecnt + 1
  BY DEF CloseTag, Feeding, Curscope
<1>3. scopecnt \in Nat /\ \A e \in closed : e.to \in Nat /\ e.to <= scopecnt
  BY DEF IInv, TypeOK, Spans
<1>4. \A x : Inside(x, c) <=> Inside(x, Curscope)
  BY <1>1 DEF Inside
<1>5. CallsMade'
  BY <1>1, <1>2 DEF CallsMade
<1>6. PrioritizedWins'
  <2>1. SUFFICES ASSUME NEW e \in closed \cup {c}, NEW p \in ToSet(atm.priorities), Selects(p.scope, e.path),
                        NEW y \in methodcalls', Inside(y, e), y.call = p.call,
                        NEW x \in methodcalls', Inside(x, e),
                        atm.calls[x.call].result = atm.calls[p.call].result
                 PROVE  x.call = p.call
    BY <1>1, <1>2 DEF PrioritizedWins
  <2>2. CASE e \in closed
    <3>1. \A z \in methodcalls' : Inside(z, e) => z \in methodcalls
      <4>1. SUFFICES ASSUME NEW z \in methodcalls', Inside(z, e), Here(z, Curscope, Taglevel) PROVE FALSE
        BY <1>1
      <4>2. z.to = scopecnt + 1 /\ z.to <= e.to
        BY <1>2, <4>1 DEF Here, Inside
      <4>3. QED BY <1>3, <2>2, <4>2
    <3>2. x \in methodcalls /\ y \in methodcalls
      BY <2>1, <3>1
    <3>3. PrioritizedWins
      BY DEF IInv
    <3>4. QED BY <2>1, <2>2, <3>2, <3>3 DEF PrioritizedWins
  <2>3. CASE e = c
    <3>1. ~Rival(x, p.call)
      BY <1>1, <1>4, <2>1, <2>3
    <3>2. QED BY <2>1, <3>1 DEF Rival
  <2>4. QED BY <2>2, <2>3
<1>7. CallsKept'
  <2> DEFINE Reason(i, e, cls) ==
        \E p \in ToSet(atm.priorities), s \in cls, d \in cls :
          /\ Selects(p.scope, s.path) /\ Inside(e, s)
          /\ p.call # i /\ atm.calls[p.call].result = atm.calls[i].result
          /\ Selects(atm.calls[p.call].scope, d.path) /\ Inside(d, s)
  <2>1. SUFFICES ASSUME NEW i \in DOMAIN atm.calls, NEW e \in closed \cup {c},
                        Selects(atm.calls[i].scope, e.path),
                        ~\E x \in methodcalls' : x.call = i /\ x.from = e.from /\ x.to = e.to
                 PROVE  Reason(i, e, closed')
    BY <1>1, <1>2 DEF CallsKept
  <2>2. ASSUME NEW x \in calls, x.call = i, x.from = e.from, x.to = e.to PROVE Reason(i, e, closed')
    <3>1. PICK p \in ToSet(atm.priorities), y \in calls :
             /\ Selects(p.scope, path) /\ y.call = p.call
             /\ Inside(y, Curscope) /\ Inside(x, Curscope) /\ Rival(x, p.call)
      BY <1>1, <2>1, <2>2
    <3>2. PICK d \in closed' : d.from = y.from /\ d.to = y.to /\ Selects(atm.calls[y.call].scope, d.path)
      BY <1>1
    <3>3. Inside(e, c) /\ Inside(d, c)
      BY <1>4, <2>2, <3>1, <3>2 DEF Inside
    <3>4. Selects(p.scope, c.path) /\ Selects(atm.calls[p.call].scope, d.path) /\ c \in closed'
      BY <1>1, <3>1, <3>2
    <3>5. p.call # i /\ atm.calls[p.call].result = atm.calls[i].result
      BY <2>2, <3>1 DEF Rival
    <3>6. QED BY <3>3, <3>4, <3>5
  <2>3. CASE e = c
    <3>1. PICK x \in calls : x.call = i /\ x.from = c.from /\ x.to = c.to
      BY <1>1, <2>1, <2>3
    <3>2. QED BY <2>2, <2>3, <3>1
  <2>4. CASE e \in closed
    <3>1. CASE \E x \in methodcalls : x.call = i /\ x.from = e.from /\ x.to = e.to
      <4>1. PICK x \in methodcalls : x.call = i /\ x.from = e.from /\ x.to = e.to
        BY <3>1
      <4>2. x \in calls
        BY <1>1
      <4>3. QED BY <2>2, <4>1, <4>2
    <3>2. CASE ~\E x \in methodcalls : x.call = i /\ x.from = e.from /\ x.to = e.to
      <4>1. CallsKept
        BY DEF IInv
      <4>2. Reason(i, e, closed)
        BY <2>1, <2>4, <3>2, <4>1 DEF CallsKept
      <4>3. closed \subseteq closed'
        BY <1>1
      <4>4. QED BY <4>2, <4>3
    <3>3. QED BY <3>1, <3>2
  <2>5. QED BY <2>3, <2>4
<1>8. QED BY <1>5, <1>6, <1>7

(* An element that is closed leaves the innermost scope.                           *)
LEMMA CloseTagIInv ==
  ASSUME IInv, CloseTag
  PROVE  IInv'
<1>1. scopestack # <<>> /\ scopecnt' = scopecnt + 1 /\ fed' = "close tag" /\ atm' = atm
  BY DEF CloseTag, Feeding
<1>2. CASE errcode' # errcode
  <2>1. UNCHANGED <<atm, scopeobjmap, methodcalls, closed, path, scopestack>>
    BY <1>2 DEF CloseTag, foundVars
  <2>2. QED BY <1>1, <2>1, KeptIInv
<1>3. CASE errcode' = errcode
  <2> DEFINE new == {x \in AllFound' : Here(x, Curscope, Taglevel)}
  <2>1. PICK nodes, collects : ObjectsAdded(nodes, collects, Curscope, Taglevel)
    BY <1>3, CloseTagAdds
  <2>2. PICK c, calls :
          /\ ClosedHere(c) /\ closed' = closed \cup {c} /\ methodcalls' \subseteq calls
          /\ c.from = Curscope.from /\ c.to = Curscope.to
          /\ \A x \in calls : /\ x \in methodcalls \/ Here(x, Curscope, Taglevel)
                              /\ x.call \in DOMAIN atm.calls
    BY <1>3, CloseTagPrioritizes
  <2>3. \A x \in AllFound' : x \in AllFound \/ Here(x, Curscope, Taglevel)
    BY <1>1, <2>1, <2>2, AddedIsFoundHere
  <2>4. scopestack' = Front(scopestack) /\ path' = IF path = <<>> THEN path ELSE Front(path)
    BY <1>3 DEF CloseTag, Feeding
  <2>5. /\ AllFound' \subseteq AllFound \cup new /\ \A x \in new : Here(x, Curscope, Taglevel)
        /\ scopestack' \in {scopestack, Front(scopestack)}
    BY <2>3, <2>4
  <2>6. TypeOK /\ StackOpen /\ FoundUnderStack /\ ScopesLaminar
    BY DEF IInv
  <2> HIDE DEF new
  <2>7. /\ scopestack' \in Seq(Nat) /\ StackOpen' /\ FoundUnderStack'
        /\ \A x \in AllFound' : Spans(x)' /\ x.level \in Nat
        /\ \A x, y \in AllFound' : Laminar(x, y)
    BY <1>1, <2>5, <2>6, FoundHere
  <2>8. TypeOK'
    <3>1. scopecnt' \in Nat /\ \A e \in closed' : Spans(e)'
      <4>1. scopecnt \in Nat /\ \A e \in closed : Spans(e)
        BY <2>6 DEF TypeOK
      <4>2. scopecnt' = scopecnt + 1
        BY <1>1
      <4>3. scopecnt' \in Nat
        BY <4>1, <4>2
      <4>4. \A e \in closed : Spans(e)'
        BY <1>1, <4>1, <4>2, SpansStay
      <4>5. Spans(c)'
        <5>1. Last(scopestack) \in Nat /\ Last(scopestack) <= scopecnt
          <6>1. scopestack \in Seq(Nat) /\ \A i \in DOMAIN scopestack : scopestack[i] <= scopecnt
            BY <2>6 DEF TypeOK, StackOpen
          <6>2. Len(scopestack) \in Nat \ {0}
            BY <1>1, <6>1, LenProperties, EmptySeq
          <6>3. Len(scopestack) \in DOMAIN scopestack
            BY <6>1, <6>2, LenProperties
          <6>4. scopestack[Len(scopestack)] \in Nat
            BY <6>1, <6>2, ElementOfSeq
          <6>5. QED BY <6>1, <6>3, <6>4 DEF Last
        <5>2. c.from = Last(scopestack) /\ c.to = scopecnt + 1
          BY <2>2, <4>2 DEF Curscope
        <5>3. QED BY <4>1, <4>2, <5>1, <5>2 DEF Spans
      <4>6. QED BY <2>2, <4>3, <4>4, <4>5
    <3>2. /\ DOMAIN scopeobjmap' = atm'.items
          /\ \A item \in atm'.items : Objects(item)' \in Seq(ToSet(Objects(item)'))
      BY <1>1, <2>1 DEF ObjectsAdded
    <3>3. \A x \in methodcalls' : x.call \in DOMAIN atm'.calls
      BY <1>1, <2>2
    <3>4. atm' \in Automata /\ path' \in Seq(Tag)
      <4>1. atm \in Automata /\ path \in Seq(Tag)
        BY <2>6 DEF TypeOK
      <4>2. path # <<>> => Front(path) \in Seq(Tag)
        BY <4>1, FrontFacts
      <4>3. QED BY <1>1, <2>4, <4>1, <4>2
    <3>5. QED BY <2>7, <3>1, <3>2, <3>3, <3>4 DEF TypeOK
  <2>9. Len(scopestack') = Len(path') + IF fed' = "close tag" /\ scopestack' = <<>> THEN 0 ELSE 1
    <3>1. Len(scopestack) = Len(path) + 1 /\ scopestack \in Seq(Nat) /\ path \in Seq(Tag)
      BY <1>1, <2>6 DEF ScopesLaminar, TypeOK
    <3>2. /\ scopestack' \in Seq(Nat) /\ Len(scopestack) \in Nat \ {0} /\ Len(scopestack') = Len(scopestack) - 1
      BY <1>1, <2>4, <3>1, FrontFacts
    <3>3. CASE path = <<>>
      <4>1. Len(path) = 0 /\ Len(path') = 0
        BY <2>4, <3>3
      <4>2. Len(scopestack') = 0
        BY <3>1, <3>2, <4>1
      <4>3. scopestack' = <<>>
        BY <3>2, <4>2, EmptySeq
      <4>4. Len(path') = 0 /\ fed' = "close tag" /\ Len(scopestack') = 0
        BY <1>1, <4>1, <4>2
      <4>5. (IF fed' = "close tag" /\ scopestack' = <<>> THEN 0 ELSE 1) = 0
        BY <4>3, <4>4
      <4>6. 0 = 0 + 0
        OBVIOUS
      <4>7. QED BY <4>4, <4>5, <4>6, Zenon
    <3>4. CASE path # <<>>
      <4>1. Len(path) \in Nat \ {0} /\ Len(path') = Len(path) - 1
        BY <2>4, <3>1, <3>4, FrontFacts
      <4>2. Len(scopestack') = Len(path') + 1 /\ Len(scopestack') > 0
        BY <3>1, <3>2, <4>1
      <4>3. scopestack' # <<>>
        BY <4>2
      <4>4. QED BY <4>2, <4>3
    <3>5. QED BY <3>3, <3>4
  <2>10. ScopesLaminar'
    BY <1>1, <2>7, <2>9 DEF ScopesLaminar, AllFound, Laminar
  <2>11. CallsMade' /\ PrioritizedWins' /\ CallsKept'
    BY <1>3, CloseTagKeepsCalls
  <2>12. QED BY <2>7, <2>8, <2>10, <2>11 DEF IInv
<1>4. QED BY <1>2, <1>3

-----------------------------------------------------------------------------
LEMMA NextIInv == IInv /\ [Next]_contextVars => IInv'
<1>1. SUFFICES ASSUME IInv, [Next]_contextVars PROVE IInv'
  OBVIOUS
<1>2. ASSUME NEW t \in Tag, OpenTag(t) PROVE IInv'
  BY <1>1, <1>2, OpenTagIInv
<1>3. CASE AttributeName
  BY <1>1, <1>3, KeptIInv DEF AttributeName, Feeding, foundVars
<1>4. CASE AttributeValue
  BY <1>1, <1>4, AttributeValueIInv
<1>5. CASE Content
  BY <1>1, <1>5, KeptIInv DEF Content, Feeding
<1>6. CASE CloseTag
  BY <1>1, <1>6, CloseTagIInv
<1>7. CASE Done
  BY <1>1, <1>7, KeptIInv DEF Done, foundVars
<1>8. CASE UNCHANGED contextVars
  BY <1>1, <1>8, KeptIInv DEF contextVars, foundVars
<1>9. QED BY <1>1, <1>2, <1>3, <1>4, <1>5, <1>6, <1>7, <1>8 DEF Next

(* Every state the automaton is in while it is fed is as the invariant says.       *)
THEOREM InductiveInvariant == Spec => []IInv
<1>1. Init => IInv
  BY InitIInv
<1>2. IInv /\ [Next]_contextVars => IInv'
  BY NextIInv
<1>3. QED BY <1>1, <1>2, PTL DEF Spec

(* Scopes are nested and calls made and dropped as they should be.                 *)
THEOREM ScopesAlwaysLaminar == Spec => []ScopesLaminar
BY InductiveInvariant, PTL DEF IInv

(* A call that is prioritized in an element and occurred there is left alone.      *)
THEOREM PrioritizedAlwaysWins == Spec => []PrioritizedWins
BY InductiveInvariant, PTL DEF IInv

(* No call is dropped but for one that was prioritized.                            *)
THEOREM CallsAlwaysKept == Spec => []CallsKept
BY InductiveInvariant, PTL DEF IInv

-----------------------------------------------------------------------------
(* Every element that is the scope of a value gets an object for it when it closes. *)
LEMMA ScopesCollectedStays ==
  ASSUME ScopesCollected, UNCHANGED <<atm, closed>>, AutomataAssumption, atm \in Automata,
         \A item \in atm.items : ToSet(Objects(item)) \subseteq ToSet(Objects(item)')
  PROVE  ScopesCollected'
<1>1. SUFFICES ASSUME NEW i \in DOMAIN atm.values, atm.values[i].on # "scope",
                      NEW c \in closed, Selects(atm.values[i].scope, c.path)
               PROVE  \E o \in ToSet(Objects(atm.values[i].item)') :
                        o.kind = "value" /\ o.from = c.from /\ o.to = c.to
  BY DEF ScopesCollected
<1>2. atm.values[i].item \in atm.items
  BY FiredFinite
<1>3. PICK o \in ToSet(Objects(atm.values[i].item)) : o.kind = "value" /\ o.from = c.from /\ o.to = c.to
  BY <1>1 DEF ScopesCollected
<1>4. QED BY <1>2, <1>3

LEMMA CloseTagCollects ==
  ASSUME IInv, ScopesCollected, CloseTag, errcode' = errcode
  PROVE  ScopesCollected'
<1>1. PICK collects :
        /\ collects = {i \in Fired(atm.values, path) : atm.values[i].on # "scope"}
        /\ ObjectsAdded(valuenodes, collects, Curscope, Taglevel)
  BY CloseTagAdds
<1>2. PICK c : /\ closed' = closed \cup {c}
               /\ c.from = Curscope.from /\ c.to = Curscope.to /\ c.path = path
  BY CloseTagPrioritizes
<1>3. atm' = atm /\ atm \in Automata
  BY DEF CloseTag, Feeding, IInv, TypeOK
<1>4. SUFFICES ASSUME NEW i \in DOMAIN atm.values, atm.values[i].on # "scope",
                      NEW e \in closed \cup {c}, Selects(atm.values[i].scope, e.path)
               PROVE  \E o \in ToSet(Objects(atm.values[i].item)') :
                        o.kind = "value" /\ o.from = e.from /\ o.to = e.to
  BY <1>2, <1>3 DEF ScopesCollected
<1>5. PICK item : item = atm.values[i].item
  OBVIOUS
<1>6. /\ item \in atm.items
      /\ ToSet(Objects(item)) \subseteq ToSet(Objects(item)')
      /\ (\E k \in collects : atm.values[k].item = item) =>
           \E o \in ToSet(Objects(item)') : Here(o, Curscope, Taglevel) /\ o.kind = "value"
  <2>1. item \in atm.items
    BY <1>3, <1>5, FiredFinite
  <2>2. ObjectsAdded(valuenodes, collects, Curscope, Taglevel)
    BY <1>1
  <2>3. QED BY <2>1, <2>2 DEF ObjectsAdded
<1>7. CASE e \in closed
  <2>1. \E o \in ToSet(Objects(item)) : o.kind = "value" /\ o.from = e.from /\ o.to = e.to
    BY <1>4, <1>5, <1>7 DEF ScopesCollected
  <2>2. ToSet(Objects(item)) \subseteq ToSet(Objects(item)')
    BY <1>6
  <2>3. QED BY <1>3, <1>5, <2>1, <2>2
<1>8. CASE e = c
  <2>1. i \in collects
    BY <1>1, <1>2, <1>4, <1>8 DEF Fired
  <2>2. \E o \in ToSet(Objects(item)') : Here(o, Curscope, Taglevel) /\ o.kind = "value"
    BY <1>5, <1>6, <2>1
  <2>3. QED BY <1>2, <1>3, <1>5, <1>8, <2>2 DEF Here
<1>9. QED BY <1>4, <1>7, <1>8

LEMMA NextScopesCollected == IInv /\ ScopesCollected /\ [Next]_contextVars => ScopesCollected'
<1>1. SUFFICES ASSUME IInv, ScopesCollected, [Next]_contextVars PROVE ScopesCollected'
  OBVIOUS
<1>2. atm \in Automata
  BY <1>1 DEF IInv, TypeOK
<1>3. ASSUME UNCHANGED <<atm, scopeobjmap, closed>> PROVE ScopesCollected'
  <2>1. \A item : Objects(item)' = Objects(item)
    BY <1>3 DEF Objects
  <2>2. QED BY <1>1, <1>2, <1>3, <2>1, AutomataAssumption, ScopesCollectedStays
<1>4. ASSUME NEW t \in Tag, OpenTag(t) PROVE ScopesCollected'
  BY <1>3, <1>4 DEF OpenTag, foundVars
<1>5. CASE AttributeName
  BY <1>3, <1>5 DEF AttributeName, foundVars
<1>6. CASE AttributeValue
  <2>1. UNCHANGED <<atm, closed>>
    BY <1>6 DEF AttributeValue
  <2>2. CASE errcode' = errcode
    <3>1. PICK nodes, collects : ObjectsAdded(nodes, collects, Curscope, Taglevel)
      BY <1>1, <1>6, <2>2, AttributeValueAdds
    <3>2. \A item \in atm.items : ToSet(Objects(item)) \subseteq ToSet(Objects(item)')
      BY <3>1 DEF ObjectsAdded
    <3>3. QED BY <1>1, <1>2, <2>1, <3>2, AutomataAssumption, ScopesCollectedStays
  <2>3. CASE errcode' # errcode
    BY <1>3, <1>6, <2>3 DEF AttributeValue
  <2>4. QED BY <2>2, <2>3
<1>7. CASE Content
  BY <1>3, <1>7 DEF Content
<1>8. CASE CloseTag
  <2>1. CASE errcode' = errcode
    BY <1>1, <1>8, <2>1, CloseTagCollects
  <2>2. CASE errcode' # errcode
    BY <1>3, <1>8, <2>2 DEF CloseTag, foundVars
  <2>3. QED BY <2>1, <2>2
<1>9. CASE Done
  BY <1>3, <1>9 DEF Done, foundVars
<1>10. CASE UNCHANGED contextVars
  BY <1>3, <1>10 DEF contextVars, foundVars
<1>11. QED BY <1>1, <1>4, <1>5, <1>6, <1>7, <1>8, <1>9, <1>10 DEF Next

-----------------------------------------------------------------------------
(* Prefixes of the path.                                                           *)
LEMMA PrefixFacts ==
  ASSUME NEW A, NEW s \in Seq(A), NEW p \in Seq(A), IsPrefix(s, p)
  PROVE  /\ Len(s) \in Nat /\ Len(p) \in Nat /\ Len(s) <= Len(p)
         /\ \A t \in A : IsPrefix(s, Append(p, t))
         /\ s # p => p # <<>> /\ Len(s) < Len(p) /\ IsPrefix(s, Front(p))
<1> DEFINE n == Len(s)
           m == Len(p)
<1>1. n \in Nat /\ m \in Nat /\ n <= m
  BY LenProperties DEF IsPrefix
<1>2. SubSeq(s, 1, n) = SubSeq(p, 1, n)
  BY DEF IsPrefix
<1>3. SubSeq(s, 1, n) = [i \in 1..n |-> s[i]] /\ s = [i \in 1..n |-> s[i]]
  BY <1>1
<1>4. SubSeq(p, 1, n) = [i \in 1..n |-> p[i]] /\ p = [i \in 1..m |-> p[i]]
  BY <1>1
<1>5. ASSUME NEW t \in A PROVE IsPrefix(s, Append(p, t))
  <2> DEFINE q == Append(p, t)
  <2>1. q \in Seq(A) /\ Len(q) = m + 1 /\ \A i \in 1..m : q[i] = p[i]
    BY AppendProperties
  <2> HIDE DEF q
  <2>2. SubSeq(q, 1, n) = [i \in 1..n |-> q[i]]
    BY <1>1, <2>1
  <2>3. [i \in 1..n |-> q[i]] = [i \in 1..n |-> p[i]]
    BY <1>1, <2>1
  <2>4. QED BY <1>1, <1>2, <1>4, <2>1, <2>2, <2>3 DEF IsPrefix, q
<1>6. ASSUME s # p PROVE p # <<>> /\ n < m /\ IsPrefix(s, Front(p))
  <2>1. n # m
    BY <1>2, <1>3, <1>4, <1>6
  <2>2. n < m
    BY <1>1, <2>1
  <2>3. p # <<>>
    BY <1>1, <2>2
  <2> DEFINE q == Front(p)
  <2>4. q \in Seq(A) /\ Len(q) = m - 1
    BY <2>3, FrontFacts
  <2>5. q = [i \in 1..(m - 1) |-> p[i]]
    BY <1>1, <2>2 DEF Front
  <2> HIDE DEF q
  <2>6. SubSeq(q, 1, n) = [i \in 1..n |-> q[i]]
    BY <1>1, <2>2, <2>4
  <2>7. [i \in 1..n |-> q[i]] = [i \in 1..n |-> p[i]]
    BY <1>1, <2>2, <2>5
  <2>8. SubSeq(q, 1, n) = SubSeq(s, 1, n)
    BY <1>2, <1>4, <2>6, <2>7
  <2>9. n <= Len(q)
    BY <1>1, <2>2, <2>4
  <2>10. IsPrefix(s, q)
    BY <2>8, <2>9 DEF IsPrefix
  <2>11. QED BY <2>2, <2>3, <2>10 DEF q
<1>7. QED BY <1>1, <1>5, <1>6

(* The scope of a value in the path of the event.                                  *)
LEMMA ScopeInPath ==
  ASSUME IInv, NEW i \in DOMAIN atm.values, NEW tags, tags = atm.values[i].scope.tags,
         IsPrefix(tags, path)
  PROVE  /\ Len(tags) \in Nat /\ Len(path) \in Nat /\ Len(tags) <= Len(path)
         /\ \A t \in Tag : IsPrefix(tags, Append(path, t))
         /\ tags # path => path # <<>> /\ Len(tags) < Len(path) /\ IsPrefix(tags, Front(path))
<1>1. path \in Seq(Tag) /\ atm \in Automata
  BY DEF IInv, TypeOK
<1>2. tags \in Seq(ToSet(tags))
  BY <1>1, AutomataAssumption
<1> DEFINE A == ToSet(tags) \cup Tag
<1>3. path \in Seq(A) /\ tags \in Seq(A)
  BY <1>1, <1>2, SeqFacts
<1> HIDE DEF A
<1>4. /\ Len(tags) \in Nat /\ Len(path) \in Nat /\ Len(tags) <= Len(path)
      /\ \A t \in A : IsPrefix(tags, Append(path, t))
      /\ tags # path => path # <<>> /\ Len(tags) < Len(path) /\ IsPrefix(tags, Front(path))
  BY <1>3, PrefixFacts
<1>5. QED BY <1>4 DEF A

(* A plain path selects one element.                                               *)
LEMMA PlainPathSelects ==
  ASSUME NEW e, PlainPath(e), NEW p, Selects(e, p)
  PROVE  p = e.tags
BY DEF PlainPath, Selects

(* While an element is open the events are in it, its scope being the innermost.   *)
LEMMA StackFacts ==
  ASSUME IInv, scopestack # <<>>
  PROVE  /\ Len(path) \in Nat /\ Len(scopestack) = Len(path) + 1 /\ scopecnt \in Nat
         /\ scopestack[Len(path) + 1] = Last(scopestack)
         /\ \A i \in 1..Len(scopestack) : scopestack[i] \in Nat /\ scopestack[i] <= scopecnt
<1>1. /\ path \in Seq(Tag) /\ scopestack \in Seq(Nat) /\ scopecnt \in Nat
      /\ Len(scopestack) = Len(path) + 1
  BY DEF IInv, TypeOK, ScopesLaminar
<1>2. DOMAIN scopestack = 1..Len(scopestack) /\ \A i \in 1..Len(scopestack) : scopestack[i] \in Nat
  BY <1>1, LenProperties, ElementOfSeq
<1>3. \A i \in 1..Len(scopestack) : scopestack[i] <= scopecnt
  BY <1>2 DEF IInv, StackOpen
<1>4. Len(path) \in Nat
  BY <1>1, LenProperties
<1>5. QED BY <1>1, <1>2, <1>3, <1>4 DEF Last

LEMMA OpenStays ==
  ASSUME IInv, NEW n, OpenFor(n), UNCHANGED <<atm, path, scopestack>>,
         scopecnt' \in {scopecnt, scopecnt + 1}, scopestack # <<>>
  PROVE  OpenFor(n)'
<1> DEFINE tags == atm.values[n.def].scope.tags
<1>1. /\ n.def \in DOMAIN atm.values /\ n.item = atm.values[n.def].item
      /\ atm.values[n.def].on # "scope" /\ IsPrefix(tags, path) /\ Len(tags) < Len(scopestack)
      /\ n.at \in scopestack[Len(tags) + 1]..scopecnt
  BY DEF OpenFor
<1>2. Len(tags) \in Nat
  BY <1>1, ScopeInPath
<1> HIDE DEF tags
<1>3. scopecnt \in Nat /\ scopestack[Len(tags) + 1] \in Nat
  <2>1. Len(scopestack) \in Nat /\ scopecnt \in Nat
    BY StackFacts
  <2>2. Len(tags) + 1 \in 1..Len(scopestack)
    BY <1>1, <1>2, <2>1
  <2>3. QED BY <2>1, <2>2, StackFacts
<1>4. n.at \in scopestack[Len(tags) + 1]..scopecnt'
  BY <1>1, <1>3
<1>5. QED BY <1>1, <1>4 DEF OpenFor, tags

(* A value that is instantiated occurs in its scope.                               *)
LEMMA InstantiatedOpen ==
  ASSUME IInv, ItemsApart(atm), scopestack # <<>>, scopecnt' = scopecnt + 1,
         UNCHANGED <<atm, path, scopestack>>,
         NEW on, NEW n, n \in Instantiated(FiredBy(atm.values, on, path)), n \notin valuenodes
  PROVE  /\ n.def \in FiredBy(atm.values, on, path) /\ n.item = atm.values[n.def].item
         /\ n.at = scopecnt + 1
         /\ atm.values[n.def].on # "scope" => OpenFor(n)'
<1>1. PICK i \in FiredBy(atm.values, on, path) :
        n = [item |-> atm.values[i].item, at |-> scopecnt', def |-> i]
  BY DEF Instantiated
<1>2. n.def = i /\ n.item = atm.values[i].item /\ n.at = scopecnt + 1
  BY <1>1
<1> DEFINE v == atm.values[i]
<1>3. i \in DOMAIN atm.values /\ Selects(v.select, path)
  BY DEF FiredBy
<1>4. PlainPath(v.select) /\ IsPrefix(v.scope.tags, v.select.tags)
  BY <1>3 DEF ItemsApart
<1>5. v.select.tags = path /\ IsPrefix(v.scope.tags, path)
  BY <1>3, <1>4, PlainPathSelects
<1> DEFINE tags == v.scope.tags
<1>6. Len(tags) \in Nat /\ Len(path) \in Nat /\ Len(tags) <= Len(path)
  BY <1>3, <1>5, ScopeInPath
<1>7. IsPrefix(tags, path)
  BY <1>5
<1> HIDE DEF tags
<1>8. /\ Len(scopestack) = Len(path) + 1 /\ scopecnt \in Nat
      /\ \A k \in 1..Len(scopestack) : scopestack[k] \in Nat /\ scopestack[k] <= scopecnt
  BY StackFacts
<1>9. Len(tags) < Len(scopestack) /\ scopecnt + 1 \in scopestack[Len(tags) + 1]..(scopecnt + 1)
  <2>1. Len(tags) + 1 \in 1..Len(scopestack)
    BY <1>6, <1>8
  <2>2. scopestack[Len(tags) + 1] \in Nat /\ scopestack[Len(tags) + 1] <= scopecnt
    BY <1>8, <2>1
  <2>3. QED BY <1>6, <1>8, <2>2
<1>10. v.on # "scope" => OpenFor(n)'
  <2>1. n.at \in scopestack'[Len(tags) + 1]..scopecnt' /\ Len(tags) < Len(scopestack') /\ IsPrefix(tags, path')
    BY <1>2, <1>7, <1>9
  <2>2. QED BY <1>2, <1>3, <2>1 DEF OpenFor, tags
<1>11. QED BY <1>2, <1>10

(* A value that is taken at the end of a scope of its item belongs to this scope.  *)
LEMMA TakenInScope ==
  ASSUME IInv, ItemsApart(atm), scopestack # <<>>, scopecnt' = scopecnt + 1,
         NEW i \in DOMAIN atm.values, atm.values[i].scope.tags = path,
         NEW n, OpenFor(n), n.item = atm.values[i].item
  PROVE  n.at \in Curscope.from..Curscope.to
<1> DEFINE tags == atm.values[n.def].scope.tags
<1>1. /\ n.def \in DOMAIN atm.values /\ n.item = atm.values[n.def].item /\ IsPrefix(tags, path)
      /\ n.at \in scopestack[Len(tags) + 1]..scopecnt
  BY DEF OpenFor
<1>2. ~IsStrictPrefix(tags, path)
  <2>1. ~IsStrictPrefix(tags, atm.values[i].scope.tags)
    BY <1>1 DEF ItemsApart
  <2>2. QED BY <2>1
<1>3. tags = path
  BY <1>1, <1>2 DEF IsStrictPrefix
<1> HIDE DEF tags
<1>4. /\ Len(path) \in Nat /\ Len(scopestack) = Len(path) + 1 /\ scopecnt \in Nat
      /\ scopestack[Len(path) + 1] = Last(scopestack)
      /\ scopestack[Len(path) + 1] \in Nat
  <2>1. /\ Len(path) \in Nat /\ Len(scopestack) = Len(path) + 1 /\ scopecnt \in Nat
        /\ scopestack[Len(path) + 1] = Last(scopestack)
    BY StackFacts
  <2>2. Len(path) + 1 \in 1..Len(scopestack)
    BY <2>1
  <2>3. scopestack[Len(path) + 1] \in Nat
    BY <2>2, StackFacts
  <2>4. QED BY <2>1, <2>3
<1>5. n.at \in Last(scopestack)..scopecnt /\ Last(scopestack) \in Nat
  BY <1>1, <1>3, <1>4
<1>6. Curscope.from = Last(scopestack) /\ Curscope.to = scopecnt + 1
  BY DEF Curscope
<1>7. QED BY <1>4, <1>5, <1>6

-----------------------------------------------------------------------------
(* The values that wait are in the scopes that are open, those that were taken in  *)
(* the scopes they were taken for.                                                 *)
Waiting == PendingOpen /\ ValuesInScope /\ (done => valuenodes = {})

LEMMA PendingStays ==
  ASSUME IInv, PendingOpen, UNCHANGED <<atm, valuenodes, path, scopestack>>,
         scopecnt' \in {scopecnt, scopecnt + 1}, scopestack # <<>>
  PROVE  PendingOpen'
<1>1. \A n \in valuenodes : OpenFor(n)'
  BY OpenStays DEF PendingOpen
<1>2. QED BY <1>1 DEF PendingOpen

LEMMA ValuesStayInScope ==
  ASSUME ValuesInScope, UNCHANGED <<atm, scopeobjmap>>
  PROVE  ValuesInScope'
<1>1. \A item : Objects(item)' = Objects(item)
  BY DEF Objects
<1>2. QED BY <1>1 DEF ValuesInScope

LEMMA ValuesAddedInScope ==
  ASSUME ValuesInScope, atm' = atm, NEW nodes, NEW collects,
         ObjectsAdded(nodes, collects, Curscope, Taglevel),
         \A i \in collects, n \in nodes : n.item = atm.values[i].item => n.at \in Curscope.from..Curscope.to,
         Curscope.from \in Nat, Curscope.to \in Nat
  PROVE  ValuesInScope'
<1>1. SUFFICES ASSUME NEW item \in atm.items, NEW o \in ToSet(Objects(item)'), o.kind = "value", o.of # 0
               PROVE  o.of >= o.from /\ o.of <= o.to
  BY DEF ValuesInScope
<1>2. \/ o \in ToSet(Objects(item))
      \/ Here(o, Curscope, Taglevel) /\ (o.kind = "value" => Taken(o, nodes, collects, item))
  BY <1>1 DEF ObjectsAdded
<1>3. CASE o \in ToSet(Objects(item))
  BY <1>1, <1>3 DEF ValuesInScope
<1>4. CASE Here(o, Curscope, Taglevel) /\ Taken(o, nodes, collects, item)
  <2>1. PICK i \in collects, n \in nodes : atm.values[i].item = item /\ n.item = item /\ o.of = n.at
    BY <1>1, <1>4 DEF Taken, Pending
  <2>2. n.at \in Curscope.from..Curscope.to
    BY <2>1
  <2>3. QED BY <1>4, <2>1, <2>2 DEF Here
<1>5. QED BY <1>1, <1>2, <1>3, <1>4

LEMMA CurscopeFacts ==
  ASSUME IInv, scopestack # <<>>, scopecnt' = scopecnt + 1
  PROVE  /\ Curscope.from \in Nat /\ Curscope.to \in Nat /\ Curscope.from <= Curscope.to
         /\ Curscope.to = scopecnt + 1
<1>1. /\ Len(path) \in Nat /\ Len(scopestack) = Len(path) + 1 /\ scopecnt \in Nat
      /\ scopestack[Len(path) + 1] = Last(scopestack)
  BY StackFacts
<1>2. Last(scopestack) \in Nat /\ Last(scopestack) <= scopecnt
  <2>1. Len(path) + 1 \in 1..Len(scopestack)
    BY <1>1
  <2>2. scopestack[Len(path) + 1] \in Nat /\ scopestack[Len(path) + 1] <= scopecnt
    BY <2>1, StackFacts
  <2>3. QED BY <1>1, <2>2
<1>3. Curscope.from = Last(scopestack) /\ Curscope.to = scopecnt + 1
  BY DEF Curscope
<1>4. QED BY <1>1, <1>2, <1>3

LEMMA OpenTagWaiting ==
  ASSUME IInv, Waiting, NEW t \in Tag, OpenTag(t)
  PROVE  Waiting'
<1>1. /\ scopecnt' = scopecnt + 1 /\ scopestack # <<>> /\ ~done
      /\ scopestack' = Append(scopestack, scopecnt + 1) /\ path' = Append(path, t)
      /\ UNCHANGED <<atm, scopeobjmap, valuenodes, done>>
  BY DEF OpenTag, Feeding, foundVars
<1>2. ASSUME NEW n \in valuenodes PROVE OpenFor(n)'
  <2> DEFINE tags == atm.values[n.def].scope.tags
  <2>1. /\ n.def \in DOMAIN atm.values /\ n.item = atm.values[n.def].item
        /\ atm.values[n.def].on # "scope" /\ IsPrefix(tags, path) /\ Len(tags) < Len(scopestack)
        /\ n.at \in scopestack[Len(tags) + 1]..scopecnt
    BY DEF Waiting, PendingOpen, OpenFor
  <2>2. Len(tags) \in Nat /\ IsPrefix(tags, Append(path, t))
    BY <2>1, ScopeInPath
  <2> HIDE DEF tags
  <2>3. scopestack \in Seq(Nat) /\ scopecnt \in Nat
    BY DEF IInv, TypeOK
  <2>4. /\ Len(scopestack) \in Nat /\ Len(scopestack') = Len(scopestack) + 1
        /\ \A i \in 1..Len(scopestack) : scopestack'[i] = scopestack[i]
    BY <1>1, <2>3, LenProperties, AppendProperties
  <2>5. Len(tags) + 1 \in 1..Len(scopestack) /\ Len(tags) < Len(scopestack')
    BY <2>1, <2>2, <2>4
  <2>6. scopestack'[Len(tags) + 1] = scopestack[Len(tags) + 1] /\ scopestack[Len(tags) + 1] \in Nat
    BY <2>3, <2>4, <2>5, ElementOfSeq
  <2>7. n.at \in scopestack'[Len(tags) + 1]..scopecnt'
    <3>1. scopecnt' = scopecnt + 1
      BY <1>1
    <3>2. QED BY <2>1, <2>3, <2>6, <3>1
  <2>8. IsPrefix(tags, path')
    BY <1>1, <2>2
  <2>9. QED BY <1>1, <2>1, <2>5, <2>7, <2>8 DEF OpenFor, tags
<1>3. PendingOpen'
  BY <1>1, <1>2 DEF PendingOpen
<1>4. ValuesInScope'
  BY <1>1, ValuesStayInScope DEF Waiting
<1>5. QED BY <1>1, <1>3, <1>4 DEF Waiting

LEMMA ContentWaiting ==
  ASSUME IInv, ItemsApart(atm), Waiting, Content
  PROVE  Waiting'
<1>1. /\ scopecnt' = scopecnt + 1 /\ scopestack # <<>> /\ ~done
      /\ UNCHANGED <<atm, path, scopestack, scopeobjmap, done>>
      /\ valuenodes' = Instantiated(FiredBy(atm.values, {"content"}, path))
  BY DEF Content, Feeding
<1>2. ASSUME NEW n \in valuenodes' PROVE OpenFor(n)'
  <2>1. CASE n \in valuenodes
    BY <1>1, <2>1, OpenStays DEF Waiting, PendingOpen
  <2>2. CASE n \notin valuenodes
    <3>1. /\ n.def \in FiredBy(atm.values, {"content"}, path)
          /\ atm.values[n.def].on # "scope" => OpenFor(n)'
      BY <1>1, <2>2, InstantiatedOpen
    <3>2. atm.values[n.def].on = "content"
      BY <3>1 DEF FiredBy
    <3>3. QED BY <3>1, <3>2
  <2>3. QED BY <2>1, <2>2
<1>3. PendingOpen'
  BY <1>2 DEF PendingOpen
<1>4. ValuesInScope'
  BY <1>1, ValuesStayInScope DEF Waiting
<1>5. QED BY <1>1, <1>3, <1>4 DEF Waiting

LEMMA AttributeValueWaiting ==
  ASSUME IInv, ItemsApart(atm), Waiting, AttributeValue
  PROVE  Waiting'
<1>1. /\ scopecnt' = scopecnt + 1 /\ scopestack # <<>> /\ ~done
      /\ UNCHANGED <<atm, path, scopestack, done>>
  BY DEF AttributeValue, Feeding
<1>2. CASE errcode' # errcode
  <2>1. UNCHANGED <<valuenodes, scopeobjmap>>
    BY <1>2 DEF AttributeValue
  <2>2. PendingOpen' /\ ValuesInScope'
    BY <1>1, <2>1, PendingStays, ValuesStayInScope DEF Waiting
  <2>3. QED BY <1>1, <2>2 DEF Waiting
<1>3. CASE errcode' = errcode
  <2>1. PICK nodes, collects :
          /\ nodes = Instantiated(FiredBy(atm.values, {"attribute", "scope"}, path))
          /\ collects = FiredBy(atm.values, {"scope"}, path)
          /\ valuenodes' = LeftPending(nodes, collects)
          /\ ObjectsAdded(nodes, collects, Curscope, Taglevel)
    BY <1>3, AttributeValueAdds
  <2>2. ASSUME NEW n \in nodes, n \notin valuenodes
        PROVE  /\ n.def \in FiredBy(atm.values, {"attribute", "scope"}, path)
               /\ n.item = atm.values[n.def].item /\ n.at = scopecnt + 1
               /\ atm.values[n.def].on # "scope" => OpenFor(n)'
    BY <1>1, <2>1, <2>2, InstantiatedOpen
  <2>3. ASSUME NEW n \in valuenodes' PROVE OpenFor(n)'
    <3>1. n \in nodes /\ \A i \in collects : n.item # atm.values[i].item
      BY <2>1 DEF LeftPending
    <3>2. CASE n \in valuenodes
      BY <1>1, <3>2, OpenStays DEF Waiting, PendingOpen
    <3>3. CASE n \notin valuenodes
      <4>1. n.def \notin collects
        BY <2>2, <3>1, <3>3
      <4>2. atm.values[n.def].on # "scope"
        BY <2>1, <2>2, <3>1, <3>3, <4>1 DEF FiredBy
      <4>3. QED BY <2>2, <3>1, <3>3, <4>2
    <3>4. QED BY <3>2, <3>3
  <2>4. PendingOpen'
    BY <2>3 DEF PendingOpen
  <2>5. ASSUME NEW i \in collects, NEW n \in nodes, n.item = atm.values[i].item
        PROVE  n.at \in Curscope.from..Curscope.to
    <3>1. i \in DOMAIN atm.values /\ atm.values[i].on = "scope" /\ Selects(atm.values[i].select, path)
      BY <2>1 DEF FiredBy
    <3>2. PlainPath(atm.values[i].select) /\ atm.values[i].select = atm.values[i].scope
      BY <3>1 DEF ItemsApart
    <3>3. atm.values[i].scope.tags = path
      BY <3>1, <3>2, PlainPathSelects
    <3>4. CASE n \in valuenodes
      BY <1>1, <2>5, <3>1, <3>3, <3>4, TakenInScope DEF Waiting, PendingOpen
    <3>5. CASE n \notin valuenodes
      <4>1. n.at = scopecnt + 1
        BY <2>2, <3>5
      <4>2. QED BY <1>1, <4>1, CurscopeFacts
    <3>6. QED BY <3>4, <3>5
  <2>6. ValuesInScope'
    BY <1>1, <2>1, <2>5, CurscopeFacts, ValuesAddedInScope DEF Waiting
  <2>7. QED BY <1>1, <2>4, <2>6 DEF Waiting
<1>4. QED BY <1>2, <1>3

LEMMA CloseTagWaiting ==
  ASSUME IInv, ItemsApart(atm), Waiting, CloseTag
  PROVE  Waiting'
<1>1. scopecnt' = scopecnt + 1 /\ scopestack # <<>> /\ ~done /\ UNCHANGED <<atm, done>>
  BY DEF CloseTag, Feeding
<1>2. CASE errcode' # errcode
  <2>1. UNCHANGED <<valuenodes, scopeobjmap, path, scopestack>>
    BY <1>2 DEF CloseTag, foundVars
  <2>2. PendingOpen' /\ ValuesInScope'
    BY <1>1, <2>1, PendingStays, ValuesStayInScope DEF Waiting
  <2>3. QED BY <1>1, <2>2 DEF Waiting
<1>3. CASE errcode' = errcode
  <2>1. PICK collects :
          /\ collects = {i \in Fired(atm.values, path) : atm.values[i].on # "scope"}
          /\ valuenodes' = LeftPending(valuenodes, collects)
          /\ ObjectsAdded(valuenodes, collects, Curscope, Taglevel)
    BY <1>3, CloseTagAdds
  <2>2. scopestack' = Front(scopestack) /\ path' = IF path = <<>> THEN path ELSE Front(path)
    BY <1>3 DEF CloseTag, Feeding
  <2>3. ASSUME NEW n \in valuenodes' PROVE OpenFor(n)'
    <3>1. n \in valuenodes /\ \A i \in collects : n.item # atm.values[i].item
      BY <2>1 DEF LeftPending
    <3> DEFINE tags == atm.values[n.def].scope.tags
    <3>2. /\ n.def \in DOMAIN atm.values /\ n.item = atm.values[n.def].item
          /\ atm.values[n.def].on # "scope" /\ IsPrefix(tags, path)
          /\ n.at \in scopestack[Len(tags) + 1]..scopecnt
      BY <3>1 DEF Waiting, PendingOpen, OpenFor
    <3>3. ~Selects(atm.values[n.def].scope, path)
      BY <2>1, <3>1, <3>2 DEF Fired
    <3>4. tags # path
      BY <3>2, <3>3 DEF ItemsApart, PlainPath, Selects
    <3>5. path # <<>> /\ Len(tags) \in Nat /\ Len(tags) < Len(path) /\ IsPrefix(tags, Front(path))
      BY <3>2, <3>4, ScopeInPath
    <3> HIDE DEF tags
    <3>6. Len(path) \in Nat /\ Len(scopestack) = Len(path) + 1 /\ scopecnt \in Nat
      BY <1>1, StackFacts
    <3>7. scopestack \in Seq(Nat)
      BY DEF IInv, TypeOK
    <3>8. Len(scopestack') = Len(path) /\ \A i \in 1..Len(path) : scopestack'[i] = scopestack[i]
      <4>1. Front(scopestack) = [i \in 1..(Len(scopestack) - 1) |-> scopestack[i]]
        BY <3>6, <3>7 DEF Front
      <4>2. Len(scopestack) - 1 = Len(path)
        BY <3>6
      <4>3. Len(Front(scopestack)) = Len(scopestack) - 1
        BY <1>1, <3>7, FrontFacts
      <4>4. QED BY <2>2, <4>1, <4>2, <4>3
    <3>9. Len(tags) + 1 \in 1..Len(path)
      BY <3>5, <3>6
    <3>10. scopestack[Len(tags) + 1] \in Nat /\ scopestack'[Len(tags) + 1] = scopestack[Len(tags) + 1]
      <4>1. Len(tags) + 1 \in 1..Len(scopestack)
        BY <3>6, <3>9
      <4>2. QED BY <3>7, <3>8, <3>9, <4>1, ElementOfSeq
    <3>11. n.at \in scopestack'[Len(tags) + 1]..scopecnt'
      <4>1. scopecnt' = scopecnt + 1
        BY <1>1
      <4>2. QED BY <3>2, <3>6, <3>10, <4>1
    <3>12. Len(tags) < Len(scopestack') /\ IsPrefix(tags, path')
      BY <2>2, <3>5, <3>8
    <3>13. QED BY <1>1, <3>2, <3>11, <3>12 DEF OpenFor, tags
  <2>4. PendingOpen'
    BY <2>3 DEF PendingOpen
  <2>5. ASSUME NEW i \in collects, NEW n \in valuenodes, n.item = atm.values[i].item
        PROVE  n.at \in Curscope.from..Curscope.to
    <3>1. i \in DOMAIN atm.values /\ Selects(atm.values[i].scope, path)
      BY <2>1 DEF Fired
    <3>2. PlainPath(atm.values[i].scope)
      BY <3>1 DEF ItemsApart
    <3>3. atm.values[i].scope.tags = path
      BY <3>1, <3>2, PlainPathSelects
    <3>4. QED BY <1>1, <2>5, <3>1, <3>3, TakenInScope DEF Waiting, PendingOpen
  <2>6. ValuesInScope'
    BY <1>1, <2>1, <2>5, CurscopeFacts, ValuesAddedInScope DEF Waiting
  <2>7. QED BY <1>1, <2>4, <2>6 DEF Waiting
<1>4. QED BY <1>2, <1>3

(* At the end of the document no scope is left for a value to wait for.            *)
LEMMA DoneWaiting ==
  ASSUME IInv, ItemsApart(atm), Waiting, Done
  PROVE  Waiting'
<1>1. path = <<>> /\ scopecnt' = scopecnt + 1 /\ UNCHANGED <<atm, path, scopestack, scopeobjmap, valuenodes>>
  BY DEF Done, foundVars
<1>2. valuenodes = {}
  <2>1. SUFFICES ASSUME NEW n \in valuenodes PROVE FALSE
    OBVIOUS
  <2> DEFINE tags == atm.values[n.def].scope.tags
  <2>2. n.def \in DOMAIN atm.values /\ IsPrefix(tags, path)
    BY DEF Waiting, PendingOpen, OpenFor
  <2>3. tags # <<>>
    BY <2>2 DEF ItemsApart, PlainPath
  <2>4. tags # path
    BY <1>1, <2>3
  <2>5. QED BY <1>1, <2>2, <2>4, ScopeInPath
<1>3. PendingOpen'
  BY <1>1, <1>2 DEF PendingOpen
<1>4. ValuesInScope'
  BY <1>1, ValuesStayInScope DEF Waiting
<1>5. QED BY <1>1, <1>2, <1>3, <1>4 DEF Waiting

LEMMA NextWaiting == IInv /\ ItemsApart(atm) /\ Waiting /\ [Next]_contextVars => Waiting'
<1>1. SUFFICES ASSUME IInv, ItemsApart(atm), Waiting, [Next]_contextVars PROVE Waiting'
  OBVIOUS
<1>2. ASSUME NEW t \in Tag, OpenTag(t) PROVE Waiting'
  BY <1>1, <1>2, OpenTagWaiting
<1>3. CASE AttributeName
  <2>1. /\ scopestack # <<>> /\ scopecnt' = scopecnt + 1 /\ ~done
        /\ UNCHANGED <<atm, path, scopestack, valuenodes, scopeobjmap, done>>
    BY <1>3 DEF AttributeName, Feeding, foundVars
  <2>2. PendingOpen' /\ ValuesInScope'
    BY <1>1, <2>1, PendingStays, ValuesStayInScope DEF Waiting
  <2>3. QED BY <2>1, <2>2 DEF Waiting
<1>4. CASE AttributeValue
  BY <1>1, <1>4, AttributeValueWaiting
<1>5. CASE Content
  BY <1>1, <1>5, ContentWaiting
<1>6. CASE CloseTag
  BY <1>1, <1>6, CloseTagWaiting
<1>7. CASE Done
  BY <1>1, <1>7, DoneWaiting
<1>8. CASE UNCHANGED contextVars
  BY <1>1, <1>8 DEF contextVars, foundVars, Waiting, PendingOpen, OpenFor, ValuesInScope, Objects
<1>9. QED BY <1>1, <1>2, <1>3, <1>4, <1>5, <1>6, <1>7, <1>8 DEF Next

(* Every closed element that is the scope of a value has an object for it, for any *)
(* automaton (CollectValue at the end of an element).                              *)
THEOREM ScopesAlwaysCollected == Spec => []ScopesCollected
<1>1. Init => ScopesCollected
  BY DEF Init, NothingFed, ScopesCollected
<1>2. IInv /\ ScopesCollected /\ [Next]_contextVars => ScopesCollected'
  BY NextScopesCollected
<1>3. QED BY <1>1, <1>2, InductiveInvariant, PTL DEF Spec

(* If the scopes of an item are not nested, a value is collected for a scope it    *)
(* occurred in, and none is left when the document is done.                        *)
THEOREM ValuesAlwaysCollected ==
  ASSUME \A a \in Automata : ItemsApart(a)
  PROVE  Spec => []ValuesCollected
<1>1. Init => Waiting
  <2>1. SUFFICES ASSUME Init PROVE Waiting
    OBVIOUS
  <2>2. valuenodes = {} /\ scopeobjmap = [item \in atm.items |-> <<>>]
    BY <2>1 DEF Init, NothingFed, NoObjects
  <2>3. \A item \in atm.items : ToSet(Objects(item)) = {}
    BY <2>2 DEF Objects, ToSet
  <2>4. QED BY <2>2, <2>3 DEF Waiting, PendingOpen, ValuesInScope
<1>2. IInv /\ Waiting /\ [Next]_contextVars => Waiting'
  <2>1. IInv => ItemsApart(atm)
    BY DEF IInv, TypeOK
  <2>2. QED BY <2>1, NextWaiting
<1>3. Spec => []Waiting
  BY <1>1, <1>2, InductiveInvariant, PTL DEF Spec
<1>4. Waiting /\ ScopesCollected => ValuesCollected
  BY DEF Waiting, ValuesCollected
<1>5. QED BY <1>3, <1>4, ScopesAlwaysCollected, PTL

-----------------------------------------------------------------------------
(* The elements of a finite set numbered in a strict order: the place of one is how *)
(* many are before it.                                                             *)
Before(S, R, x) == {y \in S : <<y, x>> \in R}
StrictOrder(S, R) == /\ \A x \in S : <<x, x>> \notin R
                     /\ \A x, y, z \in S : <<x, y>> \in R /\ <<y, z>> \in R => <<x, z>> \in R
                     /\ \A x, y \in S : x = y \/ <<x, y>> \in R \/ <<y, x>> \in R
LEMMA RankFacts ==
  ASSUME NEW S, IsFiniteSet(S), NEW R, StrictOrder(S, R),
         NEW rank, rank = [x \in S |-> Cardinality(Before(S, R, x))]
  PROVE  /\ Cardinality(S) \in Nat
         /\ \A x \in S : rank[x] \in 0..(Cardinality(S) - 1)
         /\ \A k \in 1..Cardinality(S) : \E x \in S : rank[x] = k - 1
         /\ \A x, y \in S : rank[x] < rank[y] <=> <<x, y>> \in R
         /\ \A x, y \in S : rank[x] = rank[y] => x = y
<1> DEFINE n == Cardinality(S)
<1>1. n \in Nat
  BY FS_CardinalityType
<1>2. ASSUME NEW x \in S PROVE IsFiniteSet(Before(S, R, x)) /\ rank[x] \in Nat /\ rank[x] <= n - 1
  <2>1. Before(S, R, x) \in SUBSET (S \ {x})
    BY DEF Before, StrictOrder
  <2>2. IsFiniteSet(S \ {x}) /\ Cardinality(S \ {x}) = n - 1
    BY FS_RemoveElement
  <2>3. IsFiniteSet(Before(S, R, x)) /\ Cardinality(Before(S, R, x)) <= n - 1
    BY <2>1, <2>2, FS_Subset
  <2>4. QED BY <2>3, FS_CardinalityType
<1>3. ASSUME NEW x \in S, NEW y \in S, <<x, y>> \in R PROVE rank[x] < rank[y]
  <2>1. Before(S, R, x) \in SUBSET (Before(S, R, y) \ {x}) /\ x \in Before(S, R, y)
    BY <1>3 DEF Before, StrictOrder
  <2>2. /\ IsFiniteSet(Before(S, R, y) \ {x})
        /\ Cardinality(Before(S, R, y) \ {x}) = Cardinality(Before(S, R, y)) - 1
    BY <1>2, <2>1, FS_RemoveElement
  <2>3. Cardinality(Before(S, R, x)) <= Cardinality(Before(S, R, y)) - 1
    BY <2>1, <2>2, FS_Subset
  <2>4. rank[x] = Cardinality(Before(S, R, x)) /\ rank[y] = Cardinality(Before(S, R, y))
    OBVIOUS
  <2>5. QED BY <1>2, <2>3, <2>4
<1>4. \A x, y \in S : rank[x] < rank[y] <=> <<x, y>> \in R
  <2>1. SUFFICES ASSUME NEW x \in S, NEW y \in S, rank[x] < rank[y], <<x, y>> \notin R PROVE FALSE
    BY <1>3
  <2>2. x = y \/ <<y, x>> \in R
    BY <2>1 DEF StrictOrder
  <2>3. ~(rank[x] < rank[x]) /\ ~(rank[y] < rank[x])
    BY <1>2, <2>1
  <2>4. QED BY <1>3, <2>1, <2>2, <2>3
<1>5. \A x, y \in S : rank[x] = rank[y] => x = y
  <2>1. SUFFICES ASSUME NEW x \in S, NEW y \in S, rank[x] = rank[y], x # y PROVE FALSE
    OBVIOUS
  <2>2. <<x, y>> \in R \/ <<y, x>> \in R
    BY <2>1 DEF StrictOrder
  <2>3. ~(rank[x] < rank[y]) /\ ~(rank[y] < rank[x])
    BY <1>2, <2>1
  <2>4. QED BY <1>3, <2>2, <2>3
<1> HIDE DEF n
<1>6. rank \in Injection(S, 0..(n - 1))
  <2>1. rank \in [S -> 0..(n - 1)]
    BY <1>1, <1>2
  <2>2. QED BY <1>5, <2>1 DEF Injection, IsInjective
<1>7. IsFiniteSet(0..(n - 1)) /\ Cardinality(0..(n - 1)) = n
  BY <1>1, FS_Interval
<1>8. rank \in Surjection(S, 0..(n - 1))
  BY <1>6, <1>7, FS_Injection DEF n
<1>9. \A k \in 1..n : \E x \in S : rank[x] = k - 1
  BY <1>1, <1>8 DEF Surjection
<1>10. QED BY <1>1, <1>2, <1>4, <1>5, <1>9 DEF n

(* So there is one for each place.                                                 *)
LEMMA PlaceFacts ==
  ASSUME NEW S, IsFiniteSet(S), NEW R, StrictOrder(S, R)
  PROVE  \A k \in 1..Cardinality(S) : \E x \in S : Cardinality(Before(S, R, x)) = k - 1
<1> DEFINE rank == [x \in S |-> Cardinality(Before(S, R, x))]
<1>1. rank = [x \in S |-> Cardinality(Before(S, R, x))]
  OBVIOUS
<1>2. \A k \in 1..Cardinality(S) : \E x \in S : rank[x] = k - 1
  <2> HIDE DEF rank
  <2>1. QED BY <1>1, RankFacts
<1>3. QED BY <1>1, <1>2

(* Numbers in order.                                                               *)
LEMMA OrderedFacts ==
  ASSUME NEW S, IsFiniteSet(S), S \subseteq Nat
  PROVE  Ordered(S) \in Seq(S)
<1> DEFINE R == {p \in S \X S : p[1] < p[2]}
           n == Cardinality(S)
<1>1. StrictOrder(S, R)
  BY DEF StrictOrder
<1>2. n \in Nat
  BY FS_CardinalityType
<1>3. \A k \in 1..n : \E x \in S : Cardinality({j \in S : j < x}) = k - 1
  <2>1. \A k \in 1..n : \E x \in S : Cardinality(Before(S, R, x)) = k - 1
    <3> HIDE DEF R
    <3>1. QED BY <1>1, PlaceFacts, Zenon
  <2>2. \A x \in S : Before(S, R, x) = {j \in S : j < x}
    BY DEF Before
  <2>3. QED BY <2>1, <2>2
<1>4. \A k \in 1..n : Ordered(S)[k] \in S
  BY <1>3 DEF Ordered
<1> DEFINE f == Ordered(S)
<1>5. f = [k \in 1..n |-> f[k]]
  <2> DEFINE at(k) == CHOOSE i \in S : Cardinality({j \in S : j < i}) = k - 1
  <2>1. f = [k \in 1..n |-> at(k)]
    BY DEF Ordered
  <2> HIDE DEF f, at, n
  <2>2. QED BY <2>1
<1>6. f \in [1..n -> S]
  <2> HIDE DEF n
  <2>1. \A k \in 1..n : f[k] \in S
    BY <1>4
  <2> HIDE DEF f
  <2>2. QED BY <1>5, <2>1
<1>7. f \in Seq(S)
  <2> HIDE DEF n, f
  <2>1. QED BY <1>2, <1>6
<1>8. QED BY <1>7

(* The calls in the order of their execution: all of them, each once.              *)
LEMMA InOrderFacts ==
  ASSUME NEW S, IsFiniteSet(S),
         \A x \in S : x.group \in Int /\ x.to \in Nat /\ x.call \in Nat,
         \A x, y \in S : x.to = y.to /\ x.call = y.call => x = y,
         NEW order, order = InOrder(S)
  PROVE  /\ order \in Seq(S) /\ ToSet(order) = S
         /\ \A i, j \in DOMAIN order : i < j => CallLess(order[i], order[j])
<1> DEFINE R == {p \in S \X S : CallLess(p[1], p[2])}
           rank == [x \in S |-> Cardinality(Before(S, R, x))]
           n == Cardinality(S)
<1>1. \A x, y \in S : <<x, y>> \in R <=> CallLess(x, y)
  OBVIOUS
<1>2. StrictOrder(S, R)
  <2>1. \A x \in S : ~CallLess(x, x)
    BY DEF CallLess
  <2>2. \A x, y, z \in S : CallLess(x, y) /\ CallLess(y, z) => CallLess(x, z)
    BY DEF CallLess
  <2>3. \A x, y \in S : x = y \/ CallLess(x, y) \/ CallLess(y, x)
    BY DEF CallLess
  <2> HIDE DEF R
  <2>4. QED BY <1>1, <2>1, <2>2, <2>3 DEF StrictOrder
<1>3. \A x \in S : rank[x] = Cardinality({y \in S : CallLess(y, x)})
  <2>1. \A x \in S : Before(S, R, x) = {y \in S : CallLess(y, x)}
    BY DEF Before
  <2>2. QED BY <2>1
<1>4. /\ n \in Nat /\ \A k \in 1..n : \E x \in S : rank[x] = k - 1
      /\ \A x \in S : rank[x] \in 0..(n - 1)
      /\ \A x, y \in S : rank[x] < rank[y] <=> <<x, y>> \in R
      /\ \A x, y \in S : rank[x] = rank[y] => x = y
  <2>1. rank = [x \in S |-> Cardinality(Before(S, R, x))]
    OBVIOUS
  <2> HIDE DEF rank, R
  <2>2. QED BY <1>2, <2>1, RankFacts
<1> HIDE DEF rank, R
<1>5. DOMAIN order = 1..n /\ order = [k \in 1..n |-> order[k]]
  <2> DEFINE at(k) == CHOOSE x \in S : Cardinality({y \in S : CallLess(y, x)}) = k - 1
  <2>1. order = [k \in 1..n |-> at(k)]
    BY DEF InOrder
  <2> HIDE DEF at, n
  <2>2. QED BY <2>1
<1>6. ASSUME NEW k \in 1..n PROVE order[k] \in S /\ rank[order[k]] = k - 1
  <2>1. order[k] = CHOOSE x \in S : Cardinality({y \in S : CallLess(y, x)}) = k - 1
    BY DEF InOrder
  <2>2. PICK x \in S : Cardinality({y \in S : CallLess(y, x)}) = k - 1
    BY <1>3, <1>4
  <2>3. order[k] \in S /\ Cardinality({y \in S : CallLess(y, order[k])}) = k - 1
    BY <2>1, <2>2
  <2>4. QED BY <1>3, <2>3
<1> HIDE DEF n
<1>7. order \in Seq(S)
  BY <1>4, <1>5, <1>6
<1>8. ASSUME NEW x \in S PROVE x \in ToSet(order)
  <2>1. rank[x] + 1 \in 1..n
    BY <1>4
  <2>2. rank[order[rank[x] + 1]] = rank[x] /\ order[rank[x] + 1] \in S
    BY <1>4, <1>6, <2>1
  <2>3. QED BY <1>4, <1>5, <2>1, <2>2 DEF ToSet
<1>9. ASSUME NEW i \in 1..n, NEW j \in 1..n, i < j PROVE CallLess(order[i], order[j])
  <2>1. /\ order[i] \in S /\ rank[order[i]] = i - 1
        /\ order[j] \in S /\ rank[order[j]] = j - 1
    BY <1>6
  <2>2. rank[order[i]] < rank[order[j]]
    BY <1>4, <1>9, <2>1
  <2>3. QED BY <1>1, <1>4, <2>1, <2>2
<1>10. QED BY <1>5, <1>6, <1>7, <1>8, <1>9 DEF ToSet

-----------------------------------------------------------------------------
(* The calls have places in the order: a call made at the end of an element ends   *)
(* behind all that were made before.                                              *)
LEMMA MethodCallsPlaced ==
  ASSUME atm \in Automata, NEW scope, NEW level
  PROVE  LET new == MethodCalls(Fired(atm.calls, path), scope, level) IN
         /\ IsFiniteSet(new)
         /\ \A x \in new : x.group = atm.calls[x.call].group /\ x.to = scope.to
         /\ \A x, y \in new : x.call = y.call => x = y
<1> DEFINE call(i) == [call |-> i, group |-> atm.calls[i].group, from |-> scope.from, to |-> scope.to,
                       level |-> level]
           fired == Fired(atm.calls, path)
           new == MethodCalls(fired, scope, level)
           made == [i \in fired |-> call(i)]
<1>1. new = {call(i) : i \in fired}
  BY DEF MethodCalls
<1>2. IsFiniteSet(fired)
  <2>1. fired \subseteq DOMAIN atm.calls
    BY DEF Fired
  <2>2. QED BY <2>1, FiredFinite
<1>3. made \in Surjection(fired, new)
  <2> HIDE DEF call, new, fired
  <2>1. QED BY <1>1 DEF Surjection
<1>4. IsFiniteSet(new)
  <2> HIDE DEF made, new, fired
  <2>1. QED BY <1>2, <1>3, FS_Surjection
<1>5. \A x \in new : x.group = atm.calls[x.call].group /\ x.to = scope.to /\ x = call(x.call)
  <2> HIDE DEF new, fired
  <2>1. QED BY <1>1
<1> HIDE DEF call
<1>6. \A x, y \in new : x.call = y.call => x = y
  BY <1>5
<1>7. QED BY <1>4, <1>5, <1>6

LEMMA PrioritizedDrops ==
  ASSUME NEW calls, NEW S, NEW order \in Seq(S), NEW scope
  PROVE  Prioritized(calls, order, scope) \subseteq calls
<1> DEFINE left == Prioritized(calls, order, scope)
<1>1. left = Prioritized(calls, order, scope)
  OBVIOUS
<1> HIDE DEF left
<1>2. left \subseteq calls
  BY <1>1, PrioritizedFacts
<1>3. QED BY <1>1, <1>2

LEMMA CloseTagPlaced ==
  ASSUME IInv, CallsPlaced, CloseTag
  PROVE  CallsPlaced'
<1>1. scopecnt' = scopecnt + 1 /\ atm' = atm /\ scopecnt \in Nat /\ atm \in Automata
  BY DEF CloseTag, Feeding, IInv, TypeOK
<1>2. CASE errcode' # errcode
  <2>1. UNCHANGED methodcalls
    BY <1>2 DEF CloseTag, foundVars
  <2>2. QED BY <1>1, <2>1 DEF CallsPlaced
<1>3. CASE errcode' = errcode
  <2> DEFINE new == MethodCalls(Fired(atm.calls, path), Curscope, Taglevel)
             calls == methodcalls \cup new
  <2>1. methodcalls' \subseteq calls
    <3> DEFINE fired == Fired(atm.priorities, path)
    <3>1. PICK order \in Seq(fired) : methodcalls' = Prioritized(calls, order, Curscope)
      BY <1>3, CloseTagCalls
    <3> HIDE DEF calls, fired
    <3>2. QED BY <3>1, PrioritizedDrops
  <2>2. /\ IsFiniteSet(new)
        /\ \A x \in new : x.group = atm.calls[x.call].group /\ x.to = scopecnt + 1
        /\ \A x, y \in new : x.call = y.call => x = y
    <3>1. Curscope.to = scopecnt + 1
      BY <1>1 DEF Curscope
    <3>2. QED BY <1>1, <3>1, MethodCallsPlaced
  <2> HIDE DEF new
  <2>3. \A x \in methodcalls : x.to \in Nat /\ x.to <= scopecnt
    BY DEF IInv, TypeOK, AllFound, Spans
  <2>4. IsFiniteSet(methodcalls')
    <3>1. IsFiniteSet(calls)
      BY <2>2, FS_Union DEF CallsPlaced
    <3> HIDE DEF calls
    <3>2. QED BY <2>1, <3>1, FS_Subset
  <2>5. \A x \in methodcalls' : x.group = atm'.calls[x.call].group
    BY <1>1, <2>1, <2>2 DEF CallsPlaced
  <2>6. ASSUME NEW x \in calls, NEW y \in calls, x.to = y.to, x.call = y.call PROVE x = y
    <3>1. CASE x \in methodcalls /\ y \in methodcalls
      BY <2>6, <3>1 DEF CallsPlaced
    <3>2. CASE x \in new /\ y \in new
      BY <2>2, <2>6, <3>2
    <3>3. ~(x \in methodcalls /\ y \in new) /\ ~(x \in new /\ y \in methodcalls)
      BY <1>1, <2>2, <2>3, <2>6
    <3>4. QED BY <3>1, <3>2, <3>3
  <2>7. QED BY <2>1, <2>4, <2>5, <2>6 DEF CallsPlaced
<1>4. QED BY <1>2, <1>3

LEMMA DoneOrdered ==
  ASSUME IInv, CallsPlaced, callorder' = InOrder(methodcalls), UNCHANGED <<atm, methodcalls>>
  PROVE  CallsOrdered'
<1>1. atm \in Automata /\ \A x \in methodcalls : x.call \in DOMAIN atm.calls /\ x.to \in Nat
  BY DEF IInv, TypeOK, AllFound, Spans
<1>2. DOMAIN atm.calls \subseteq Nat
  BY <1>1, FiredFinite
<1>3. \A x \in methodcalls : x.group \in Int
  BY <1>1, AutomataAssumption DEF CallsPlaced
<1>4. /\ callorder' \in Seq(methodcalls) /\ ToSet(callorder') = methodcalls
      /\ \A i, j \in DOMAIN callorder' : i < j => CallLess(callorder'[i], callorder'[j])
  BY <1>1, <1>2, <1>3, InOrderFacts DEF CallsPlaced
<1>5. QED BY <1>4 DEF CallsOrdered, CallLess

LEMMA NextOrdered ==
  IInv /\ CallsPlaced /\ CallsOrdered /\ [Next]_contextVars => CallsPlaced' /\ CallsOrdered'
<1>1. SUFFICES ASSUME IInv, CallsPlaced, CallsOrdered, [Next]_contextVars
               PROVE  CallsPlaced' /\ CallsOrdered'
  OBVIOUS
<1>2. ASSUME UNCHANGED <<atm, methodcalls>> PROVE CallsPlaced'
  BY <1>1, <1>2 DEF CallsPlaced
<1>3. ASSUME NEW t \in Tag, OpenTag(t) PROVE CallsPlaced' /\ CallsOrdered'
  BY <1>2, <1>3 DEF OpenTag, Feeding, foundVars, CallsOrdered
<1>4. CASE AttributeName
  BY <1>2, <1>4 DEF AttributeName, Feeding, foundVars, CallsOrdered
<1>5. CASE AttributeValue
  BY <1>2, <1>5 DEF AttributeValue, Feeding, CallsOrdered
<1>6. CASE Content
  BY <1>2, <1>6 DEF Content, Feeding, CallsOrdered
<1>7. CASE CloseTag
  BY <1>1, <1>7, CloseTagPlaced DEF CloseTag, Feeding, CallsOrdered
<1>8. CASE Done
  BY <1>1, <1>2, <1>8, DoneOrdered DEF Done, foundVars
<1>9. CASE UNCHANGED contextVars
  <2>1. UNCHANGED <<atm, methodcalls, callorder, done>>
    BY <1>9 DEF contextVars, foundVars
  <2>2. QED BY <1>1, <1>2, <2>1 DEF CallsOrdered, CallLess
<1>10. QED BY <1>1, <1>3, <1>4, <1>5, <1>6, <1>7, <1>8, <1>9 DEF Next

LEMMA InitOrdered == Init => CallsPlaced /\ CallsOrdered
<1>1. Init => methodcalls = {} /\ done = FALSE
  BY DEF Init, NothingFed
<1>2. QED BY <1>1, FS_EmptySet DEF CallsPlaced, CallsOrdered

(* When the document is done all calls are in one order, first by their group.     *)
THEOREM CallsAlwaysOrdered == Spec => []CallsOrdered
<1>1. Init => IInv /\ CallsPlaced /\ CallsOrdered
  BY InitIInv, InitOrdered
<1>2. IInv /\ CallsPlaced /\ CallsOrdered /\ [Next]_contextVars => (IInv /\ CallsPlaced /\ CallsOrdered)'
  BY NextIInv, NextOrdered
<1>3. QED BY <1>1, <1>2, PTL DEF Spec

-----------------------------------------------------------------------------
(* The greatest of some numbers                                                    *)
LEMMA MaxFacts ==
  ASSUME NEW S, S # {}, NEW n \in Nat, \A x \in S : x \in 0..n
  PROVE  Max(S) \in S /\ \A x \in S : x <= Max(S)
<1> DEFINE U == {m \in Nat : \E y \in S : y >= m}
<1>1. \E x \in S : \A y \in S : x >= y
  <2>1. SUFFICES ASSUME \A x \in S : \E y \in S : ~(x >= y) PROVE FALSE
    OBVIOUS
  <2>2. 0 \in U
    OBVIOUS
  <2>3. ASSUME NEW m \in U PROVE m + 1 \in U
    <3>1. PICK x \in S : x >= m
      OBVIOUS
    <3>2. PICK y \in S : ~(x >= y)
      BY <2>1
    <3>3. y >= m + 1
      BY <3>1, <3>2
    <3>4. QED BY <3>3
  <2>4. U \in SUBSET Nat
    OBVIOUS
  <2> HIDE DEF U
  <2>5. U = Nat
    BY <2>2, <2>3, <2>4, SetInduction
  <2>6. n + 1 \in U
    BY <2>5
  <2>7. QED BY <2>6 DEF U
<1>2. \E x \in S : x = Max(S) /\ \A y \in S : x >= y
  BY <1>1 DEF Max
<1>3. QED BY <1>2

(* The calls taken at once follow each other and give the same result.             *)
Gathered(A, k, nodes) ==
  /\ nodes \in Seq(A) /\ Len(nodes) \in 1..(Len(callorder) - k + 1)
  /\ nodes[1] = callorder[k] /\ Last(nodes) \in ToSet(nodes)
  /\ \A i \in k..(k + Len(nodes) - 1) :
       atm.calls[callorder[i].call].result = atm.calls[nodes[1].call].result
LEMMA TogetherFacts ==
  ASSUME NEW A, callorder \in Seq(A), NEW k \in 1..Len(callorder), NEW nodes, nodes = Together(k)
  PROVE  Gathered(A, k, nodes)
<1> DEFINE same(i, j) == /\ atm.calls[callorder[i].call].assign /\ atm.calls[callorder[j].call].assign
                         /\ callorder[i].group = callorder[j].group
                         /\ atm.calls[callorder[i].call].result = atm.calls[callorder[j].call].result
           S == {j \in k..Len(callorder) : \A i \in (k + 1)..j : same(k, i)}
           last == Max(S)
<1>1. nodes = SubSeq(callorder, k, last)
  BY DEF Together
<1>2. Len(callorder) \in Nat /\ \A i \in 1..Len(callorder) : callorder[i] \in A
  BY LenProperties, ElementOfSeq
<1>3. k \in S /\ S \subseteq k..Len(callorder) /\ \A j \in S : \A i \in (k + 1)..j : same(k, i)
  OBVIOUS
<1>4. last \in k..Len(callorder) /\ \A i \in (k + 1)..last : same(k, i)
  <2> HIDE DEF S, same
  <2>1. S # {} /\ \A x \in S : x \in 0..Len(callorder)
    BY <1>2, <1>3
  <2>2. last \in S
    BY <1>2, <2>1, MaxFacts
  <2>3. QED BY <1>3, <2>2
<1> HIDE DEF last, S
<1>5. /\ nodes \in Seq(A) /\ Len(nodes) = last - k + 1
      /\ \A i \in 1..(last - k + 1) : nodes[i] = callorder[k + i - 1]
  <2>1. \A i \in k..last : callorder[i] \in A
    BY <1>2, <1>4
  <2>2. QED BY <1>1, <1>2, <1>4, <2>1, SubSeqProperties
<1>6. nodes[1] = callorder[k]
  BY <1>2, <1>4, <1>5
<1>7. Last(nodes) \in ToSet(nodes)
  <2>1. Len(nodes) \in 1..Len(nodes) /\ DOMAIN nodes = 1..Len(nodes)
    BY <1>2, <1>4, <1>5, LenProperties
  <2>2. QED BY <2>1 DEF Last, ToSet
<1>8. ASSUME NEW i \in k..(k + Len(nodes) - 1)
      PROVE  atm.calls[callorder[i].call].result = atm.calls[callorder[k].call].result
  <2>1. i = k \/ i \in (k + 1)..last
    BY <1>2, <1>4, <1>5
  <2>2. QED BY <1>4, <2>1
<1>9. Len(nodes) \in 1..(Len(callorder) - k + 1)
  BY <1>2, <1>4, <1>5
<1>10. QED BY <1>5, <1>6, <1>7, <1>8, <1>9 DEF Gathered

-----------------------------------------------------------------------------
(* The templates while the document is fed: what is added has no value yet.        *)
Items(ts) == DOMAIN ts = DOMAIN atm.results /\ \A t \in DOMAIN ts : ts[t] \in Seq(ItemOf(t))
Grown(ts, new) ==
  /\ Items(new)
  /\ \A t \in DOMAIN new : \A k \in DOMAIN new[t] :
       \/ \E j \in DOMAIN ts[t] : new[t][k] = ts[t][j]
       \/ new[t][k].value = <<>>

LEMMA NodesFacts ==
  ASSUME atm \in Automata, NEW t \in DOMAIN atm.results
  PROVE  /\ DOMAIN NodesOf(t) = 1..Len(NodesOf(t)) /\ Len(NodesOf(t)) \in Nat
         /\ \A j \in DOMAIN NodesOf(t) : NodesOf(t)[j].kind = "result" => NodesOf(t)[j].var # NULL
<1>1. /\ NodesOf(t) \in Seq(ToSet(NodesOf(t)))
      /\ \A j \in DOMAIN NodesOf(t) : NodesOf(t)[j].kind = "result" => NodesOf(t)[j].var # NULL
  BY ResultsAssumption DEF NodesOf
<1>2. QED BY <1>1, LenProperties

LEMMA InstructedFacts ==
  ASSUME atm \in Automata, NEW ts, Items(ts), NEW kinds, NEW p, NEW scope, NEW level \in Nat,
         scope.from \in Nat, scope.to \in Nat
  PROVE  Grown(ts, Instructed(ts, kinds, p, scope, level))
<1> DEFINE new == Instructed(ts, kinds, p, scope, level)
           fired(t) == {j \in DOMAIN NodesOf(t) : /\ NodesOf(t)[j].kind \in kinds
                                                  /\ Selects(NodesOf(t)[j].select, p)}
           item(j) == [node |-> j, from |-> scope.from, to |-> scope.to, level |-> level, value |-> <<>>]
           added(t) == [k \in DOMAIN Ordered(fired(t)) |-> item(Ordered(fired(t))[k])]
<1>1. new = [t \in DOMAIN ts |-> ts[t] \o added(t)]
  BY DEF Instructed
<1>2. ASSUME NEW t \in DOMAIN ts
      PROVE  /\ ts[t] \o added(t) \in Seq(ItemOf(t))
             /\ \A k \in DOMAIN (ts[t] \o added(t)) :
                  \/ \E j \in DOMAIN ts[t] : (ts[t] \o added(t))[k] = ts[t][j]
                  \/ (ts[t] \o added(t))[k].value = <<>>
  <2> DEFINE F == fired(t)
             s == Ordered(F)
             add == [k \in DOMAIN s |-> item(s[k])]
  <2>1. F \subseteq DOMAIN NodesOf(t) /\ F \subseteq Nat /\ IsFiniteSet(F)
    <3>1. t \in DOMAIN atm.results
      BY DEF Items
    <3>2. DOMAIN NodesOf(t) = 1..Len(NodesOf(t)) /\ Len(NodesOf(t)) \in Nat
      BY <3>1, NodesFacts
    <3>3. F \subseteq DOMAIN NodesOf(t)
      OBVIOUS
    <3> HIDE DEF F
    <3>4. IsFiniteSet(1..Len(NodesOf(t)))
      BY <3>2, FS_Interval
    <3>5. QED BY <3>2, <3>3, <3>4, FS_Subset
  <2> HIDE DEF F
  <2>2. s \in Seq(F)
    BY <2>1, OrderedFacts
  <2> HIDE DEF s
  <2>3. Len(s) \in Nat /\ DOMAIN s = 1..Len(s) /\ \A k \in 1..Len(s) : s[k] \in DOMAIN NodesOf(t)
    BY <2>1, <2>2, LenProperties, ElementOfSeq
  <2>4. \A j \in DOMAIN NodesOf(t) : item(j) \in ItemOf(t) /\ item(j).value = <<>>
    BY EmptySeq DEF ItemOf
  <2> HIDE DEF item
  <2>5. /\ add \in Seq(ItemOf(t)) /\ DOMAIN add = 1..Len(s) /\ Len(add) = Len(s)
        /\ \A k \in 1..Len(s) : add[k].value = <<>>
    BY <2>3, <2>4
  <2> HIDE DEF add
  <2>6. ts[t] \in Seq(ItemOf(t)) /\ Len(ts[t]) \in Nat /\ DOMAIN ts[t] = 1..Len(ts[t])
    BY LenProperties DEF Items
  <2> DEFINE all == ts[t] \o add
  <2>7. /\ all \in Seq(ItemOf(t)) /\ Len(all) = Len(ts[t]) + Len(add)
        /\ \A i \in 1..(Len(ts[t]) + Len(add)) :
             all[i] = IF i <= Len(ts[t]) THEN ts[t][i] ELSE add[i - Len(ts[t])]
    <3> DEFINE old == ts[t]
               T == ItemOf(t)
    <3>1. old \in Seq(T) /\ add \in Seq(T)
      BY <2>5, <2>6
    <3> HIDE DEF old, T
    <3>2. /\ old \o add \in Seq(T) /\ Len(old \o add) = Len(old) + Len(add)
          /\ \A i \in 1..(Len(old) + Len(add)) :
               (old \o add)[i] = IF i <= Len(old) THEN old[i] ELSE add[i - Len(old)]
      BY <3>1, ConcatProperties
    <3>3. QED BY <3>2 DEF old, T
  <2> HIDE DEF all
  <2>8. DOMAIN all = 1..(Len(ts[t]) + Len(s))
    BY <2>5, <2>7, LenProperties
  <2>9. ASSUME NEW k \in DOMAIN all
        PROVE  (\E j \in DOMAIN ts[t] : all[k] = ts[t][j]) \/ all[k].value = <<>>
    <3>1. CASE k <= Len(ts[t])
      BY <2>3, <2>5, <2>6, <2>7, <2>8, <3>1
    <3>2. CASE ~(k <= Len(ts[t]))
      <4>1. k - Len(ts[t]) \in 1..Len(s) /\ all[k] = add[k - Len(ts[t])]
        BY <2>3, <2>5, <2>6, <2>7, <2>8, <3>2
      <4>2. QED BY <2>5, <4>1
    <3>3. QED BY <3>1, <3>2
  <2>10. QED BY <2>7, <2>9 DEF all, add, s, F, item
<1> HIDE DEF added
<1>3. DOMAIN new = DOMAIN ts /\ \A t \in DOMAIN ts : new[t] = ts[t] \o added(t)
  BY <1>1
<1> HIDE DEF new
<1>4. Items(new)
  BY <1>2, <1>3 DEF Items
<1>5. ASSUME NEW t \in DOMAIN new, NEW k \in DOMAIN new[t]
      PROVE  (\E j \in DOMAIN ts[t] : new[t][k] = ts[t][j]) \/ new[t][k].value = <<>>
  <2>1. t \in DOMAIN ts /\ new[t] = ts[t] \o added(t)
    BY <1>3
  <2>2. QED BY <1>2, <2>1
<1>6. Grown(ts, new)
  BY <1>4, <1>5 DEF Grown
<1>7. QED BY <1>6 DEF new

LEMMA GrownTwice ==
  ASSUME NEW a, NEW b, NEW c, Grown(a, b), Grown(b, c)
  PROVE  Grown(a, c)
BY DEF Grown, Items

-----------------------------------------------------------------------------
(* What a reference holds after some calls, ret                                    *)
HoldsIn(ret, item, node) ==
  node.kind = "result" =>
    /\ \A n \in DOMAIN ret :
         /\ ret[n].var = node.var /\ ret[n].kind # "undefined"
         /\ \A x \in ToSet(ret[n].nodes) : Inside(x, item)
         => n \in ToSet(item.value)
    /\ \A i \in DOMAIN item.value : LET n == item.value[i] IN n # Void =>
         n \in DOMAIN ret /\ ret[n].var = node.var /\ \E x \in ToSet(ret[n].nodes) : Inside(x, item)
    /\ \A i, j \in DOMAIN item.value : i < j /\ item.value[j] # Void => item.value[i] < item.value[j]
    /\ node.type \notin Many => Len(item.value) <= 1

LEMMA HoldsNow ==
  ASSUME NEW item, NEW node
  PROVE  /\ Holds(item, node) <=> HoldsIn(returned, item, node)
         /\ Holds(item, node)' <=> HoldsIn(returned', item, node)
BY DEF Holds, HoldsIn, Numbers, Inside, ToSet, Many, Void

LEMMA EmptyHolds ==
  ASSUME NEW item, NEW node, item.value = <<>>
  PROVE  HoldsIn(<<>>, item, node)
BY DEF HoldsIn

(* A call that is not for a reference leaves it as it should be.                   *)
LEMMA HoldsStill ==
  ASSUME NEW A, NEW ret \in Seq(A), NEW entry \in A, NEW item, NEW node, HoldsIn(ret, item, node),
         node.kind = "result" =>
           ~(/\ entry.var = node.var /\ entry.kind # "undefined"
             /\ \A x \in ToSet(entry.nodes) : Inside(x, item))
  PROVE  HoldsIn(Append(ret, entry), item, node)
<1> DEFINE all == Append(ret, entry)
           N == Len(ret) + 1
<1>1. N \in Nat \ {0} /\ DOMAIN ret = 1..(N - 1)
  BY LenProperties
<1>2. DOMAIN all = 1..N /\ all[N] = entry /\ \A n \in 1..(N - 1) : all[n] = ret[n]
  <2>1. all \in Seq(A) /\ Len(all) = N /\ all[N] = entry /\ \A n \in 1..Len(ret) : all[n] = ret[n]
    BY AppendProperties
  <2> HIDE DEF all
  <2>2. QED BY <1>1, <2>1, LenProperties
<1> HIDE DEF all, N
<1>3. SUFFICES ASSUME node.kind = "result" PROVE HoldsIn(all, item, node)
  BY DEF HoldsIn, all
<1>4. \A n \in 1..N : n = N \/ n \in 1..(N - 1)
  BY <1>1
<1>5. ASSUME NEW n \in DOMAIN all, all[n].var = node.var, all[n].kind # "undefined",
             \A x \in ToSet(all[n].nodes) : Inside(x, item)
      PROVE  n \in ToSet(item.value)
  <2>1. n \in 1..(N - 1)
    BY <1>2, <1>3, <1>4, <1>5
  <2>2. QED BY <1>1, <1>2, <1>3, <1>5, <2>1 DEF HoldsIn
<1>6. 1..(N - 1) \subseteq 1..N
  BY <1>1
<1>7. ASSUME NEW i \in DOMAIN item.value, item.value[i] # Void
      PROVE  /\ item.value[i] \in DOMAIN all /\ all[item.value[i]].var = node.var
             /\ \E x \in ToSet(all[item.value[i]].nodes) : Inside(x, item)
  BY <1>1, <1>2, <1>3, <1>6, <1>7 DEF HoldsIn
<1>8. QED BY <1>3, <1>5, <1>7 DEF HoldsIn

(* A value put into a reference                                                    *)
LEMMA PutFacts ==
  ASSUME NEW t, NEW item \in ItemOf(t), NEW type, NEW value \in Nat, ~Refuses(item, type)
  PROVE  LET new == PutResult(item, type, value) IN
         /\ new \in ItemOf(t) /\ new.node = item.node /\ new.from = item.from /\ new.to = item.to
         /\ type \notin Many => item.value = <<>>
         /\ \/ type \notin Many /\ value = Void /\ new.value = item.value
            \/ new.value = Append(item.value, value)
<1> DEFINE new == PutResult(item, type, value)
<1>1. /\ item.value \in Seq(Nat) /\ item.node \in DOMAIN NodesOf(t) /\ item.from \in Nat /\ item.to \in Nat
      /\ item.level \in Nat
      /\ item = [node |-> item.node, from |-> item.from, to |-> item.to, level |-> item.level,
                 value |-> item.value]
  BY DEF ItemOf
<1>2. type \notin Many => item.value = <<>>
  BY DEF Refuses
<1> DEFINE v == IF type \in Many THEN Append(item.value, value) ELSE IF value = Void THEN <<>> ELSE <<value>>
<1>3. new = [item EXCEPT !.value = v]
  BY DEF PutResult
<1>4. v \in Seq(Nat)
  BY <1>1, EmptySeq, AppendProperties
<1>5. \/ type \notin Many /\ value = Void /\ v = item.value
      \/ v = Append(item.value, value)
  <2>1. <<value>> = Append(<<>>, value)
    OBVIOUS
  <2>2. QED BY <1>2, <2>1
<1> HIDE DEF v, new
<1>6. new = [node |-> item.node, from |-> item.from, to |-> item.to, level |-> item.level, value |-> v]
  BY <1>1, <1>3
<1>7. /\ new \in ItemOf(t) /\ new.node = item.node /\ new.from = item.from /\ new.to = item.to
      /\ new.value = v
  BY <1>1, <1>4, <1>6 DEF ItemOf
<1>8. QED BY <1>2, <1>5, <1>7 DEF new

LEMMA PutHolds ==
  ASSUME NEW A, NEW ret \in Seq(A), NEW entry \in A, NEW t, NEW item \in ItemOf(t), NEW node,
         HoldsIn(ret, item, node), node.kind = "result", entry.var = node.var,
         \E x \in ToSet(entry.nodes) : Inside(x, item), ~Refuses(item, node.type),
         NEW value, value = IF entry.kind = "undefined" THEN Void ELSE Len(ret) + 1
  PROVE  HoldsIn(Append(ret, entry), PutResult(item, node.type, value), node)
<1> DEFINE all == Append(ret, entry)
           N == Len(ret) + 1
           new == PutResult(item, node.type, value)
           old == item.value
<1>1. N \in Nat \ {0} /\ DOMAIN ret = 1..(N - 1)
  BY LenProperties
<1>2. DOMAIN all = 1..N /\ all[N] = entry /\ \A n \in 1..(N - 1) : all[n] = ret[n]
  <2>1. all \in Seq(A) /\ Len(all) = N /\ all[N] = entry /\ \A n \in 1..Len(ret) : all[n] = ret[n]
    BY AppendProperties
  <2> HIDE DEF all
  <2>2. QED BY <1>1, <2>1, LenProperties
<1>3. /\ new.from = item.from /\ new.to = item.to
      /\ node.type \notin Many => old = <<>>
      /\ \/ node.type \notin Many /\ value = Void /\ new.value = old
         \/ new.value = Append(old, value)
  <2>1. value \in Nat
    BY <1>1 DEF Void
  <2>2. QED BY <2>1, PutFacts
<1>4. value = IF entry.kind = "undefined" THEN Void ELSE N
  OBVIOUS
<1> DEFINE m == Len(old)
<1>5. m \in Nat /\ DOMAIN old = 1..m /\ old \in Seq(Nat) /\ \A i \in 1..m : old[i] \in Nat
  <2>1. old \in Seq(Nat)
    BY DEF ItemOf
  <2>2. QED BY <2>1, LenProperties, ElementOfSeq
<1> HIDE DEF all, N, new
<1>6. \A x : Inside(x, new) <=> Inside(x, item)
  BY <1>3 DEF Inside
<1>7. /\ \A n \in 1..(N - 1) :
           /\ ret[n].var = node.var /\ ret[n].kind # "undefined"
           /\ \A x \in ToSet(ret[n].nodes) : Inside(x, item)
           => n \in ToSet(old)
      /\ \A i \in 1..m : old[i] # Void =>
           /\ old[i] \in 1..(N - 1) /\ ret[old[i]].var = node.var
           /\ \E x \in ToSet(ret[old[i]].nodes) : Inside(x, item)
      /\ \A i, j \in 1..m : i < j /\ old[j] # Void => old[i] < old[j]
  BY <1>1, <1>5 DEF HoldsIn
<1>8. CASE node.type \notin Many /\ value = Void /\ new.value = old
  <2>1. entry.kind = "undefined"
    BY <1>1, <1>4, <1>8 DEF Void
  <2>2. HoldsIn(all, item, node)
    BY <2>1, HoldsStill DEF all
  <2>3. QED BY <1>3, <1>6, <1>8, <2>2 DEF HoldsIn, all, new
<1>9. CASE new.value = Append(old, value)
  <2>1. value \in Nat
    BY <1>1, <1>4 DEF Void
  <2> DEFINE put == new.value
  <2>2. /\ put \in Seq(Nat) /\ Len(put) = m + 1 /\ DOMAIN put = 1..(m + 1) /\ put[m + 1] = value
        /\ \A i \in 1..m : put[i] = old[i]
    <3>1. LET s == Append(old, value) IN
          s \in Seq(Nat) /\ Len(s) = m + 1 /\ s[m + 1] = value /\ \A i \in 1..m : s[i] = old[i]
      BY <1>5, <2>1, AppendProperties
    <3> HIDE DEF m
    <3>2. QED BY <1>9, <3>1, LenProperties
  <2> HIDE DEF put, m
  <2>3. \A i \in 1..(m + 1) : i = m + 1 \/ i \in 1..m
    BY <1>5
  <2>4. ToSet(put) = ToSet(old) \cup {value}
    <3> HIDE DEF old
    <3>1. ToSet(put) = {put[i] : i \in 1..(m + 1)} /\ ToSet(old) = {old[i] : i \in 1..m}
      BY <1>5, <2>2 DEF ToSet
    <3>2. m + 1 \in 1..(m + 1) /\ \A i \in 1..m : i \in 1..(m + 1)
      BY <1>5
    <3>3. ASSUME NEW i \in 1..(m + 1) PROVE put[i] \in ToSet(old) \cup {value}
      BY <2>2, <2>3, <3>1
    <3>4. \A v \in ToSet(old) \cup {value} : \E i \in 1..(m + 1) : put[i] = v
      BY <2>2, <3>1, <3>2
    <3>5. ToSet(put) \subseteq ToSet(old) \cup {value}
      BY <3>1, <3>3
    <3>6. \A i \in 1..(m + 1) : put[i] \in ToSet(put)
      BY <3>1
    <3>7. QED BY <3>4, <3>5, <3>6
  <2>5. ASSUME NEW n \in 1..N, all[n].var = node.var, all[n].kind # "undefined",
               \A x \in ToSet(all[n].nodes) : Inside(x, new)
        PROVE  n \in ToSet(put)
    <3>1. CASE n = N
      BY <1>2, <1>4, <2>4, <2>5, <3>1
    <3>2. CASE n \in 1..(N - 1)
      BY <1>2, <1>6, <1>7, <2>4, <2>5, <3>2
    <3>3. QED BY <1>1, <3>1, <3>2
  <2>6. ASSUME NEW i \in 1..(m + 1), put[i] # Void
        PROVE  /\ put[i] \in 1..N /\ all[put[i]].var = node.var
               /\ \E x \in ToSet(all[put[i]].nodes) : Inside(x, new)
    <3>1. CASE i = m + 1
      <4>1. put[i] = N /\ N \in 1..N
        BY <1>1, <1>4, <2>2, <2>6, <3>1
      <4>2. QED BY <1>2, <1>6, <4>1
    <3>2. CASE i \in 1..m
      <4>1. /\ put[i] = old[i] /\ old[i] \in 1..(N - 1) /\ ret[old[i]].var = node.var
            /\ \E x \in ToSet(ret[old[i]].nodes) : Inside(x, item)
        BY <1>7, <2>2, <2>6, <3>2
      <4>2. put[i] \in 1..N /\ all[put[i]] = ret[old[i]]
        BY <1>1, <1>2, <4>1
      <4>3. QED BY <1>6, <4>1, <4>2
    <3>3. QED BY <2>3, <3>1, <3>2
  <2>7. ASSUME NEW i \in 1..(m + 1), NEW j \in 1..(m + 1), i < j, put[j] # Void
        PROVE  put[i] < put[j]
    <3>1. i \in 1..m /\ put[i] = old[i] /\ old[i] \in Nat
      BY <1>5, <2>2, <2>7
    <3>2. CASE j \in 1..m
      BY <1>7, <2>2, <2>7, <3>1, <3>2
    <3>3. CASE j = m + 1
      <4>1. put[j] = N
        BY <1>4, <2>2, <2>7, <3>3
      <4>2. old[i] = 0 \/ old[i] \in 1..(N - 1)
        BY <1>7, <3>1 DEF Void
      <4>3. QED BY <1>1, <3>1, <4>1, <4>2
    <3>4. QED BY <2>3, <3>2, <3>3
  <2>8. node.type \notin Many => Len(put) <= 1
    <3>1. node.type \notin Many => m = 0
      BY <1>3, EmptySeq DEF m
    <3>2. QED BY <2>2, <3>1
  <2>9. HoldsIn(all, new, node)
    BY <1>2, <2>2, <2>5, <2>6, <2>7, <2>8 DEF HoldsIn, put
  <2>10. QED BY <2>9 DEF all, new
<1>10. QED BY <1>3, <1>8, <1>9

-----------------------------------------------------------------------------
(* What pushing a result does to an item of a template if no reference refuses it. *)
Pushed(nodes, item, var, scope, value, new) ==
  IF Takes(nodes, item, var) /\ Inside(scope, item)
  THEN /\ ~Refuses(item, nodes[item.node].type)
       /\ new = PutResult(item, nodes[item.node].type, value)
  ELSE new = item

LEMMA PushResultFacts ==
  ASSUME NEW t, NEW items \in Seq(ItemOf(t)), NEW nodes, NEW var, NEW scope, NEW value \in Nat,
         NEW p, p = PushResult(items, nodes, var, scope, value)
  PROVE  /\ p.items \in Seq(ItemOf(t)) /\ DOMAIN p.items = DOMAIN items
         /\ p.err = "Ok" => \A k \in DOMAIN items : Pushed(nodes, items[k], var, scope, value, p.items[k])
<1> DEFINE type(k) == nodes[items[k].node].type
           refs == {k \in DOMAIN items : Takes(nodes, items[k], var) /\ Inside(scope, items[k])}
           refusing == {k \in refs : Refuses(items[k], type(k))}
           filled == {k \in refs : \A j \in refusing : k < j}
           put(k) == IF k \in filled THEN PutResult(items[k], type(k), value) ELSE items[k]
<1>1. /\ p.items = [k \in DOMAIN items |-> put(k)]
      /\ p.err = IF refusing = {} THEN "Ok"
                 ELSE IF type(Min(refusing)) = "inherited" THEN "NotImplemented" ELSE "AmbiguousReference"
  BY DEF PushResult
<1>2. Len(items) \in Nat /\ DOMAIN items = 1..Len(items) /\ \A k \in 1..Len(items) : items[k] \in ItemOf(t)
  BY LenProperties, ElementOfSeq
<1>3. ASSUME NEW k \in 1..Len(items) PROVE put(k) \in ItemOf(t)
  <2>1. CASE k \in filled
    <3>1. ~(k < k)
      BY <1>2
    <3>2. k \in refs /\ k \notin refusing
      BY <2>1, <3>1
    <3>3. ~Refuses(items[k], type(k))
      BY <3>2
    <3>4. PutResult(items[k], type(k), value) \in ItemOf(t)
      <4> HIDE DEF type
      <4>1. QED BY <1>2, <3>3, PutFacts
    <3>5. QED BY <2>1, <3>4
  <2>2. CASE k \notin filled
    BY <1>2, <2>2
  <2>3. QED BY <2>1, <2>2
<1>4. p.items \in Seq(ItemOf(t)) /\ DOMAIN p.items = DOMAIN items
  <2> DEFINE n == Len(items)
             T == ItemOf(t)
             s == p.items
  <2>1. s = [k \in 1..n |-> put(k)] /\ \A k \in 1..n : put(k) \in T
    BY <1>1, <1>2, <1>3
  <2>2. n \in Nat /\ DOMAIN items = 1..n
    BY <1>2
  <2> HIDE DEF put, n, T, s
  <2>3. s \in [1..n -> T]
    BY <2>1
  <2>4. s \in Seq(T) /\ DOMAIN s = 1..n
    BY <2>2, <2>3
  <2>5. QED BY <2>2, <2>4 DEF s, T
<1>5. ASSUME p.err = "Ok", NEW k \in DOMAIN items
      PROVE  Pushed(nodes, items[k], var, scope, value, p.items[k])
  <2>1. refusing = {}
    <3> HIDE DEF refusing, type
    <3>1. QED BY <1>1, <1>5
  <2>2. p.items[k] = IF k \in refs THEN PutResult(items[k], type(k), value) ELSE items[k]
    BY <1>1, <1>5, <2>1
  <2>3. k \in refs => ~Refuses(items[k], type(k))
    BY <2>1
  <2>4. k \in refs <=> Takes(nodes, items[k], var) /\ Inside(scope, items[k])
    BY <1>5
  <2> HIDE DEF refs
  <2>5. QED BY <2>2, <2>3, <2>4 DEF Pushed
<1>6. QED BY <1>4, <1>5

LEMMA PushCallResultFacts ==
  ASSUME atm \in Automata, Items(templates), NEW err, NEW def, NEW nodes, NEW value \in Nat,
         NEW p, p = PushCallResult(err, def, nodes, value)
  PROVE  /\ Items(p.templates)
         /\ p.err = "Ok" =>
              /\ err = "Ok" /\ def.result # NULL
              /\ \A t \in DOMAIN templates :
                   /\ DOMAIN p.templates[t] = DOMAIN templates[t]
                   /\ \A k \in DOMAIN templates[t] :
                        Pushed(NodesOf(t), templates[t][k], def.result, Last(nodes), value, p.templates[t][k])
<1> DEFINE pushed(t) == PushResult(templates[t], NodesOf(t), def.result, Last(nodes), value)
           refusing == {t \in DOMAIN templates : pushed(t).err # "Ok"}
<1>1. p = IF def.result = NULL THEN [templates |-> templates, err |-> "ValueUndefined"]
          ELSE [templates |-> [t \in DOMAIN templates |-> pushed(t).items],
                err |-> IF refusing = {} THEN err ELSE pushed(Max(refusing)).err]
  BY DEF PushCallResult, ResultScope
<1>2. ASSUME NEW t \in DOMAIN templates
      PROVE  /\ pushed(t).items \in Seq(ItemOf(t)) /\ DOMAIN pushed(t).items = DOMAIN templates[t]
             /\ pushed(t).err = "Ok" => \A k \in DOMAIN templates[t] :
                  Pushed(NodesOf(t), templates[t][k], def.result, Last(nodes), value, pushed(t).items[k])
  <2>1. templates[t] \in Seq(ItemOf(t))
    BY DEF Items
  <2>2. QED BY <2>1, PushResultFacts
<1> HIDE DEF pushed
<1>3. CASE def.result = NULL
  BY <1>1, <1>3
<1>4. CASE def.result # NULL
  <2>1. /\ p.templates = [t \in DOMAIN templates |-> pushed(t).items]
        /\ p.err = IF refusing = {} THEN err ELSE pushed(Max(refusing)).err
    BY <1>1, <1>4
  <2>2. Items(p.templates)
    BY <1>2, <2>1 DEF Items
  <2>3. ASSUME p.err = "Ok" PROVE refusing = {}
    <3>1. SUFFICES ASSUME refusing # {} PROVE FALSE
      OBVIOUS
    <3>2. DOMAIN templates = 1..Len(atm.results) /\ Len(atm.results) \in Nat
      <4>1. atm.results \in Seq(ToSet(atm.results)) /\ DOMAIN templates = DOMAIN atm.results
        BY ResultsAssumption DEF Items
      <4>2. QED BY <4>1, LenProperties
    <3>3. \A x \in refusing : x \in 0..Len(atm.results)
      BY <3>2
    <3>4. \A x \in refusing : pushed(x).err # "Ok"
      OBVIOUS
    <3> HIDE DEF refusing
    <3>5. Max(refusing) \in refusing
      BY <3>1, <3>2, <3>3, MaxFacts
    <3>6. pushed(Max(refusing)).err # "Ok"
      BY <3>4, <3>5
    <3>7. QED BY <2>1, <2>3, <3>1, <3>6
  <2>4. ASSUME p.err = "Ok", NEW t \in DOMAIN templates
        PROVE  /\ DOMAIN p.templates[t] = DOMAIN templates[t]
               /\ \A k \in DOMAIN templates[t] :
                    Pushed(NodesOf(t), templates[t][k], def.result, Last(nodes), value, p.templates[t][k])
    <3>1. pushed(t).err = "Ok" /\ p.templates[t] = pushed(t).items
      BY <2>1, <2>3, <2>4
    <3>2. QED BY <1>2, <3>1
  <2>5. ASSUME p.err = "Ok" PROVE err = "Ok"
    BY <2>1, <2>3, <2>5
  <2>6. QED BY <1>4, <2>2, <2>4, <2>5
<1>5. QED BY <1>3, <1>4

-----------------------------------------------------------------------------
(* The variables: one that is created exists, and none is removed.                 *)
VarMaps == [Names \ {NULL} -> [kind : Kinds, by : Nat] \cup {NULL}]
VarsGrown(vm) == vm \in VarMaps /\ \A v \in Names \ {NULL} : varmap[v] # NULL => vm[v] # NULL
Made(vm, v) == v = NULL \/ IsResultVariable(v) \/ vm[v] # NULL

LEMMA CreatedFacts ==
  ASSUME returned \in Seq(ToSet(returned)), varmap \in VarMaps, NEW vm, VarsGrown(vm),
         NEW v \in Names, NEW kind \in Kinds
  PROVE  VarsGrown(Created(vm, v, kind)) /\ Made(Created(vm, v, kind), v)
<1> DEFINE value == NewValue(kind)
           new == Created(vm, v, kind)
           W == [kind : Kinds, by : Nat]
<1>1. value \in W
  <2>1. Number \in Nat
    BY LenProperties DEF Number
  <2>2. QED BY <2>1 DEF NewValue
<1>2. NULL \notin W
  BY NullAssumption DEF Kinds
<1>3. new = [vm EXCEPT ![v] = value]
  BY DEF Created
<1> HIDE DEF value, new, W
<1>4. vm \in [Names \ {NULL} -> W \cup {NULL}] /\ \A u \in Names \ {NULL} : varmap[u] # NULL => vm[u] # NULL
  BY DEF VarsGrown, VarMaps, W
<1>5. CASE v = NULL
  <2>1. new = vm
    BY <1>3, <1>4, <1>5
  <2>2. QED BY <1>5, <2>1 DEF new, Made
<1>6. CASE v # NULL
  <2>1. new \in [Names \ {NULL} -> W \cup {NULL}] /\ new[v] = value
    BY <1>1, <1>3, <1>4, <1>6
  <2>2. \A u \in Names \ {NULL} : new[u] = IF u = v THEN value ELSE vm[u]
    BY <1>3, <1>4
  <2>3. value # NULL
    BY <1>1, <1>2
  <2>4. \A u \in Names \ {NULL} : varmap[u] # NULL => new[u] # NULL
    BY <1>4, <2>2, <2>3
  <2>5. VarsGrown(new)
    BY <2>1, <2>4 DEF VarsGrown, VarMaps, W
  <2>6. QED BY <2>1, <2>3, <2>5 DEF Made, new
<1>7. QED BY <1>5, <1>6

-----------------------------------------------------------------------------
(* What a turn does, in the three ways it ends                                     *)
Broken(r) == UNCHANGED <<templates, returned>> /\ itererr' = r.err
Assigned(nodes, def, r) ==
  \E kind \in Kinds :
    /\ kind = "undefined" \/ def.result = NULL \/ ~IsResultVariable(def.result)
    /\ Returning(nodes, def, kind)
    /\ UNCHANGED <<templates, error>> /\ itererr' = r.err
PushedTo(nodes, def, r) ==
  \E kind \in Kinds : \E pushed :
    /\ pushed = PushCallResult(r.err, def, nodes, IF kind = "undefined" THEN Void ELSE Number)
    /\ Returning(nodes, def, kind)
    /\ templates' = pushed.templates /\ itererr' = pushed.err /\ UNCHANGED error
Effect(nodes, def, r) ==
  /\ VarsGrown(varmap') /\ (r.ok => Made(varmap', def.result))
  /\ methodidx' = methodidx + (IF r.ok THEN Len(nodes) ELSE 0) /\ issued'.calls = nodes
  /\ error' = "MissingSelf" => def.self # NULL /\ varmap[def.self] = NULL
  /\ Broken(r) \/ Assigned(nodes, def, r) \/ PushedTo(nodes, def, r)

LEMMA IssueFacts ==
  ASSUME NEW nodes, NEW have, NEW r, NEW err, Issue(nodes, have, r, err)
  PROVE  /\ methodidx' = methodidx + (IF r.ok THEN Len(nodes) ELSE 0)
         /\ issued'.calls = nodes /\ itererr' = err
BY DEF Issue

LEMMA BreaksEffect ==
  ASSUME NEW nodes, NEW def, NEW r, NEW err, NEW vm, Breaks(nodes, r, err, vm), VarsGrown(vm),
         r.ok => Made(vm, def.result),
         err = "MissingSelf" => def.self # NULL /\ varmap[def.self] = NULL
  PROVE  Effect(nodes, def, r)
<1>1. Issue(nodes, Existing(varmap), r, r.err) /\ error' = err /\ varmap' = vm /\ UNCHANGED <<templates, returned>>
  BY DEF Breaks
<1>2. QED BY <1>1, IssueFacts DEF Effect, Broken

LEMMA AssignsEffect ==
  ASSUME NEW nodes, NEW def, NEW r, NEW vm, NEW kind \in Kinds, Assigns(nodes, def, r, vm, kind),
         VarsGrown(vm), Made(vm, def.result), error = "Ok",
         kind = "undefined" \/ def.result = NULL \/ ~IsResultVariable(def.result)
  PROVE  Effect(nodes, def, r)
<1>1. /\ Issue(nodes, Existing(varmap), r, r.err) /\ varmap' = vm
      /\ Returning(nodes, def, kind) /\ UNCHANGED <<templates, error>>
  BY DEF Assigns
<1>2. /\ methodidx' = methodidx + (IF r.ok THEN Len(nodes) ELSE 0)
      /\ issued'.calls = nodes /\ itererr' = r.err
  BY <1>1, IssueFacts
<1>3. Assigned(nodes, def, r)
  BY <1>1, <1>2 DEF Assigned
<1>4. QED BY <1>1, <1>2, <1>3 DEF Effect

LEMMA PushesEffect ==
  ASSUME NEW nodes, NEW def, NEW r, NEW kind \in Kinds, Pushes(nodes, def, r, kind),
         VarsGrown(varmap), Made(varmap, def.result), error = "Ok"
  PROVE  Effect(nodes, def, r)
<1>1. PICK pushed : /\ pushed = PushCallResult(r.err, def, nodes, IF kind = "undefined" THEN Void ELSE Number)
                    /\ Issue(nodes, Existing(varmap), r, pushed.err)
                    /\ templates' = pushed.templates
                    /\ Returning(nodes, def, kind)
                    /\ UNCHANGED <<varmap, error>>
  BY DEF Pushes
<1>2. /\ methodidx' = methodidx + (IF r.ok THEN Len(nodes) ELSE 0)
      /\ issued'.calls = nodes /\ itererr' = pushed.err
  BY <1>1, IssueFacts
<1>3. PushedTo(nodes, def, r)
  BY <1>1, <1>2 DEF PushedTo
<1>4. QED BY <1>1, <1>2, <1>3 DEF Effect

LEMMA PerformEffect ==
  ASSUME returned \in Seq(ToSet(returned)), varmap \in VarMaps, error = "Ok",
         NEW nodes, NEW i \in DOMAIN atm.calls, NEW def, def = atm.calls[i], NEW r, Perform(nodes, def, r)
  PROVE  Effect(nodes, def, r)
<1>1. VarsGrown(varmap) /\ def.result \in Names /\ def.self \in Names
  BY DEF VarsGrown, Names
<1> DEFINE own == def.result # NULL /\ ~IsResultVariable(def.result)
<1>2. \A kind \in Kinds : /\ VarsGrown(Created(varmap, def.result, kind))
                          /\ Made(Created(varmap, def.result, kind), def.result)
  BY <1>1, CreatedFacts
<1>3. ~own => Made(varmap, def.result)
  BY DEF Made
<1>4. "undefined" \in Kinds /\ "object" \in Kinds /\ "value" \in Kinds
  BY DEF Kinds
<1>5. CASE ~r.ok
  <2>1. Breaks(nodes, r, error, varmap)
    BY <1>5 DEF Perform
  <2>2. QED BY <1>1, <1>5, <2>1, BreaksEffect
<1>6. CASE r.ok /\ def.assign
  <2> DEFINE kind == AssignedKind(nodes, def, r)
  <2>1. PerformAssignment(nodes, def, r)
    BY <1>6 DEF Perform
  <2>2. kind \in Kinds
    <3>1. \A v \in Existing(varmap) : varmap[v].kind \in Kinds
      BY DEF Existing, VarMaps
    <3>2. QED BY <1>4, <3>1 DEF AssignedKind
  <2>3. CASE IsResultVariable(def.result)
    <3>1. Pushes(nodes, def, r, kind)
      BY <2>1, <2>3 DEF PerformAssignment
    <3> HIDE DEF kind
    <3>2. QED BY <1>1, <1>3, <2>2, <2>3, <3>1, PushesEffect
  <2>4. CASE ~IsResultVariable(def.result)
    <3>1. Assigns(nodes, def, r, Created(varmap, def.result, kind), kind)
      BY <2>1, <2>4 DEF PerformAssignment
    <3> HIDE DEF kind
    <3>2. QED BY <1>2, <2>2, <2>4, <3>1, AssignsEffect
  <2>5. QED BY <2>3, <2>4
<1>7. CASE r.ok /\ ~def.assign /\ def.self = NULL
  <2>1. PICK outcome \in {"fails", "object"} : PerformConstructor(nodes, def, r, outcome)
    BY <1>7 DEF Perform
  <2> DEFINE made(kind) == IF def.result = NULL THEN varmap ELSE Created(varmap, def.result, kind)
  <2>2. \A kind \in Kinds : VarsGrown(made(kind)) /\ Made(made(kind), def.result)
    BY <1>1, <1>2 DEF Made
  <2>3. CASE def.result # NULL /\ IsResultVariable(def.result)
    <3>1. Breaks(nodes, r, "MixedConstruction", varmap)
      BY <2>1, <2>3 DEF PerformConstructor
    <3>2. QED BY <1>1, <1>3, <2>3, <3>1, BreaksEffect
  <2>4. CASE ~(def.result # NULL /\ IsResultVariable(def.result))
    <3>1. \/ Breaks(nodes, r, "HostObjectError", made("undefined"))
          \/ Assigns(nodes, def, r, made("object"), "object")
      BY <2>1, <2>4 DEF PerformConstructor
    <3> HIDE DEF made
    <3>2. CASE Breaks(nodes, r, "HostObjectError", made("undefined"))
      BY <1>4, <2>2, <3>2, BreaksEffect
    <3>3. CASE Assigns(nodes, def, r, made("object"), "object")
      BY <1>4, <2>2, <2>4, <3>3, AssignsEffect
    <3>4. QED BY <3>1, <3>2, <3>3
  <2>5. QED BY <2>3, <2>4
<1>8. CASE r.ok /\ ~def.assign /\ def.self # NULL
  <2>1. PICK outcome \in {"fails", "undefined", "value", "object"} : PerformMethod(nodes, def, r, outcome)
    BY <1>8 DEF Perform
  <2> DEFINE vm == IF own THEN Created(varmap, def.result, "undefined") ELSE varmap
  <2>2. VarsGrown(vm) /\ Made(vm, def.result)
    BY <1>1, <1>2, <1>3, <1>4
  <2>3. vm[def.self] = NULL => varmap[def.self] = NULL
    <3> HIDE DEF vm
    <3>1. QED BY <1>1, <1>8, <2>2 DEF VarsGrown
  <2>4. \/ Breaks(nodes, r, "MissingSelf", vm) /\ vm[def.self] = NULL
        \/ Breaks(nodes, r, "TypeError", vm)
        \/ Breaks(nodes, r, "HostObjectError", vm)
        \/ own /\ outcome # "fails" /\ Assigns(nodes, def, r, Created(varmap, def.result, outcome), outcome)
        \/ ~own /\ outcome = "undefined" /\ Assigns(nodes, def, r, varmap, outcome)
        \/ ~own /\ outcome # "fails" /\ Pushes(nodes, def, r, outcome)
    BY <2>1 DEF PerformMethod
  <2> HIDE DEF vm
  <2>5. CASE Breaks(nodes, r, "MissingSelf", vm) /\ vm[def.self] = NULL
    BY <1>8, <2>2, <2>3, <2>5, BreaksEffect
  <2>6. CASE Breaks(nodes, r, "TypeError", vm)
    BY <2>2, <2>6, BreaksEffect
  <2>7. CASE Breaks(nodes, r, "HostObjectError", vm)
    BY <2>2, <2>7, BreaksEffect
  <2>8. outcome # "fails" => outcome \in Kinds
    BY DEF Kinds
  <2>9. CASE own /\ outcome # "fails" /\ Assigns(nodes, def, r, Created(varmap, def.result, outcome), outcome)
    BY <1>2, <2>8, <2>9, AssignsEffect
  <2>10. CASE ~own /\ outcome = "undefined" /\ Assigns(nodes, def, r, varmap, outcome)
    BY <1>1, <1>3, <2>8, <2>10, AssignsEffect
  <2>11. CASE ~own /\ outcome # "fails" /\ Pushes(nodes, def, r, outcome)
    BY <1>1, <1>3, <2>8, <2>11, PushesEffect
  <2>12. QED BY <2>4, <2>5, <2>6, <2>7, <2>9, <2>10, <2>11
<1>9. QED BY <1>5, <1>6, <1>7, <1>8

-----------------------------------------------------------------------------
(* The invariant of the execution, with what it relies on, and a step that keeps it *)
All == IInv /\ CallsPlaced /\ CallsOrdered /\ ExecutionIInv
Valued(ts, ret) ==
  \A t \in DOMAIN ts : \A k \in DOMAIN ts[t] : HoldsIn(ret, ts[t][k], NodesOf(t)[ts[t][k].node])

LEMMA ValuedNow ==
  ValuesHeld <=> ((error = "Ok" /\ itererr = "Ok") \/ status = "ok" => Valued(templates, returned))
<1>1. \A item, node : Holds(item, node) <=> HoldsIn(returned, item, node)
  BY HoldsNow
<1>2. QED BY <1>1 DEF ValuesHeld, Valued

LEMMA ValuedNext ==
  ASSUME atm' = atm, (error' = "Ok" /\ itererr' = "Ok") \/ status' = "ok" => Valued(templates', returned')
  PROVE  ValuesHeld'
<1>1. SUFFICES ASSUME Valued(templates', returned'), NEW t \in DOMAIN templates', NEW k \in DOMAIN templates'[t]
               PROVE  Holds(templates[t][k], NodesOf(t)[templates[t][k].node])'
  BY DEF ValuesHeld
<1> DEFINE item == templates'[t][k]
           node == NodesOf(t)[item.node]
<1>2. HoldsIn(returned', item, node)
  BY <1>1 DEF Valued
<1>3. NodesOf(t)' = NodesOf(t)
  BY DEF NodesOf
<1>4. QED BY <1>2, <1>3 DEF HoldsIn, Holds, Numbers, Inside, ToSet, Many, Void

LEMMA TypeNext ==
  ASSUME atm' = atm, Items(templates'), returned' \in Seq(ToSet(returned')), methodidx' \in Nat,
         status' # "feeding" => varmap' \in VarMaps
  PROVE  ExecutionTypeOK'
<1>1. (\A t : ItemOf(t)' = ItemOf(t)) /\ VarMaps' = VarMaps
  <2>1. \A t : ItemOf(t)' = ItemOf(t)
    BY DEF ItemOf, NodesOf
  <2>2. Names' = Names
    BY DEF Names, Referenced, VariablesIn
  <2>3. QED BY <2>1, <2>2 DEF VarMaps, Kinds
<1>2. (DOMAIN templates = DOMAIN atm.results /\ \A t \in DOMAIN templates : templates[t] \in Seq(ItemOf(t)))'
  BY <1>1 DEF Items
<1>3. (returned \in Seq(ToSet(returned)))'
  BY DEF ToSet
<1>4. (status # "feeding" => varmap \in VarMaps)'
  BY <1>1
<1>5. QED BY <1>2, <1>3, <1>4 DEF ExecutionTypeOK, VarMaps

LEMMA MadeNext ==
  ASSUME UNCHANGED <<atm, callorder>>,
         status' # "feeding" => \A i \in 1..(methodidx' - 1) : Made(varmap', atm.calls[callorder[i].call].result)
  PROVE  VariablesMade'
BY DEF VariablesMade, Made, IsResultVariable, NodesOf

LEMMA NowFacts ==
  ASSUME ExecutionIInv
  PROVE  /\ Items(templates) /\ returned \in Seq(ToSet(returned)) /\ methodidx \in Nat
         /\ status # "feeding" =>
              /\ varmap \in VarMaps /\ done /\ methodidx \in 1..(Len(callorder) + 1)
              /\ \A i \in 1..(methodidx - 1) : Made(varmap, atm.calls[callorder[i].call].result)
         /\ status = "feeding" => returned = <<>> /\ error = "Ok" /\ itererr = "Ok"
         /\ (error = "Ok" /\ itererr = "Ok") \/ status = "ok" => Valued(templates, returned)
BY ValuedNow DEF ExecutionIInv, ExecutionTypeOK, Phases, VariablesMade, Items, VarMaps, Made

LEMMA InitExecution == ExecutionInit => ExecutionIInv
<1>1. SUFFICES ASSUME ExecutionInit PROVE ExecutionIInv
  OBVIOUS
<1>2. /\ templates = [t \in DOMAIN atm.results |-> <<>>] /\ returned = <<>> /\ methodidx = 0
      /\ status = "feeding" /\ error = "Ok" /\ itererr = "Ok"
  BY <1>1 DEF ExecutionInit, IteratorInit
<1>3. ExecutionTypeOK
  BY <1>2, EmptySeq DEF ExecutionTypeOK, ToSet
<1>4. ValuesHeld
  BY <1>2 DEF ValuesHeld
<1>5. QED BY <1>2, <1>3, <1>4 DEF ExecutionIInv, Phases, VariablesMade

(* Steps that do not execute a call                                                *)
LEMMA QuietStep ==
  ASSUME ExecutionIInv,
         UNCHANGED <<atm, templates, returned>>, done => done' /\ UNCHANGED callorder,
         UNCHANGED <<methodidx, varmap>>,
         status # "feeding" => status' # "feeding",
         status = "feeding" => UNCHANGED <<status, error, itererr>>,
         (error' = "Ok" /\ itererr' = "Ok") \/ status' = "ok" => (error = "Ok" /\ itererr = "Ok") \/ status = "ok"
  PROVE  ExecutionIInv'
<1>1. ExecutionTypeOK'
  BY NowFacts, TypeNext
<1>2. Phases'
  BY NowFacts DEF Phases
<1>3. VariablesMade'
  <2>1. CASE status = "feeding"
    BY <2>1 DEF VariablesMade
  <2>2. CASE status # "feeding"
    BY <2>2, NowFacts, MadeNext
  <2>3. QED BY <2>1, <2>2
<1>4. ValuesHeld'
  BY NowFacts, ValuedNext
<1>5. QED BY <1>1, <1>2, <1>3, <1>4 DEF ExecutionIInv

(* The document is fed                                                             *)
LEMMA GrowStep ==
  ASSUME ExecutionIInv, status = "feeding", Grown(templates, templates'),
         UNCHANGED <<atm, returned, methodidx, status, error, itererr>>
  PROVE  ExecutionIInv'
<1>1. ExecutionTypeOK'
  BY NowFacts, TypeNext DEF Grown
<1>2. Phases' /\ VariablesMade'
  BY NowFacts DEF Phases, VariablesMade
<1>3. returned = <<>> /\ Valued(templates, returned)
  BY NowFacts
<1>4. Valued(templates', returned')
  <2>1. SUFFICES ASSUME NEW t \in DOMAIN templates', NEW k \in DOMAIN templates'[t]
                 PROVE  HoldsIn(returned, templates'[t][k], NodesOf(t)[templates'[t][k].node])
    BY DEF Valued
  <2>2. CASE templates'[t][k].value = <<>>
    BY <1>3, <2>2, EmptyHolds
  <2>3. CASE \E j \in DOMAIN templates[t] : templates'[t][k] = templates[t][j]
    <3>1. t \in DOMAIN templates
      BY NowFacts DEF Grown, Items
    <3>2. QED BY <1>3, <2>3, <3>1 DEF Valued
  <2>4. QED BY <2>2, <2>3 DEF Grown
<1>5. QED BY <1>1, <1>2, <1>4, ValuedNext DEF ExecutionIInv

LEMMA FeedOpenTagKeeps ==
  ASSUME IInv, ExecutionIInv, NEW t \in Tag, FeedOpenTag(t)
  PROVE  ExecutionIInv'
<1>1. /\ ~done /\ atm' = atm /\ scopecnt' = scopecnt + 1 /\ scopecnt \in Nat /\ atm \in Automata
      /\ scopestack' = Append(scopestack, scopecnt') /\ scopestack \in Seq(Nat)
  BY DEF FeedOpenTag, OpenTag, Feeding, IInv, TypeOK
<1>2. status = "feeding" /\ Items(templates)
  BY <1>1, NowFacts
<1>3. Len(scopestack') \in Nat
  <2>1. scopestack' \in Seq(Nat)
    BY <1>1, AppendProperties
  <2>2. QED BY <2>1, LenProperties
<1>4. templates' = Opened(templates, path', [from |-> scopecnt', to |-> scopecnt'], Len(scopestack'))
  BY DEF FeedOpenTag
<1>5. Grown(templates, templates')
  <2> DEFINE scope == [from |-> scopecnt', to |-> scopecnt']
             kinds == {"open", "openArray", "constant"}
  <2>1. scope.from \in Nat /\ scope.to \in Nat
    BY <1>1
  <2>2. templates' = Instructed(templates, kinds, path', scope, Len(scopestack'))
    BY <1>4 DEF Opened
  <2> HIDE DEF scope, kinds
  <2>3. QED BY <1>1, <1>2, <1>3, <2>1, <2>2, InstructedFacts
<1>6. UNCHANGED <<returned, methodidx, status, error, itererr>>
  BY DEF FeedOpenTag, iteratorVars
<1>7. QED BY <1>1, <1>2, <1>5, <1>6, GrowStep

LEMMA FeedCloseTagKeeps ==
  ASSUME IInv, ExecutionIInv, FeedCloseTag
  PROVE  ExecutionIInv'
<1>1. /\ ~done /\ atm' = atm /\ scopecnt' = scopecnt + 1 /\ scopecnt \in Nat /\ atm \in Automata
      /\ scopestack # <<>> /\ scopestack \in Seq(Nat)
  BY DEF FeedCloseTag, CloseTag, Feeding, IInv, TypeOK
<1>2. status = "feeding" /\ Items(templates)
  BY <1>1, NowFacts
<1>3. Taglevel \in Nat /\ Curscope.from \in Nat /\ Curscope.to \in Nat
  <2>1. Len(scopestack) \in Nat \ {0}
    BY <1>1, EmptySeq
  <2>2. scopestack[Len(scopestack)] \in Nat
    BY <1>1, <2>1, ElementOfSeq
  <2>3. QED BY <1>1, <2>1, <2>2 DEF Taglevel, Curscope, Last
<1>4. templates' = IF errcode' = "Ok" THEN Closed(templates, path, Curscope, Taglevel) ELSE templates
  BY DEF FeedCloseTag
<1>5. Grown(templates, templates')
  <2> DEFINE filled == Instructed(templates, {"input", "result"}, path, Curscope, Taglevel)
             ended == Instructed(filled, {"close", "closeArray"}, path, Curscope, Taglevel)
  <2>1. Grown(templates, filled)
    BY <1>1, <1>2, <1>3, InstructedFacts
  <2>2. Grown(filled, ended)
    <3>1. Items(filled)
      BY <2>1 DEF Grown
    <3> HIDE DEF filled
    <3>2. QED BY <1>1, <1>3, <3>1, InstructedFacts
  <2>3. Grown(templates, ended)
    <3> HIDE DEF filled, ended
    <3>1. QED BY <2>1, <2>2, GrownTwice
  <2>4. Grown(templates, templates)
    BY <1>2 DEF Grown
  <2>5. templates' = ended \/ templates' = templates
    BY <1>4 DEF Closed
  <2> HIDE DEF ended
  <2>6. QED BY <2>3, <2>4, <2>5
<1>6. UNCHANGED <<returned, methodidx, status, error, itererr>>
  BY DEF FeedCloseTag, iteratorVars
<1>7. QED BY <1>1, <1>2, <1>5, <1>6, GrowStep

LEMMA StartKeeps ==
  ASSUME ExecutionIInv, Start
  PROVE  ExecutionIInv'
<1>1. /\ status = "feeding" /\ status' = "running" /\ done /\ methodidx' = 1
      /\ UNCHANGED <<atm, done, callorder, templates, returned, error, itererr>>
  BY DEF Start, CreateIterator, contextVars
<1>2. PICK inherited : varmap' = [v \in Names \ {NULL} |-> IF v \in inherited THEN [kind |-> "object", by |-> 0] ELSE NULL]
  BY DEF Start
<1>3. varmap' \in VarMaps
  <2>1. [kind |-> "object", by |-> 0] \in [kind : Kinds, by : Nat]
    BY DEF Kinds
  <2>2. QED BY <1>2, <2>1 DEF VarMaps
<1>4. ExecutionTypeOK' /\ ValuesHeld'
  BY <1>1, <1>3, NowFacts, TypeNext, ValuedNext
<1>5. VariablesMade'
  BY <1>1 DEF VariablesMade
<1>6. Phases'
  <2>1. CASE Len(callorder) \in Nat
    BY <1>1, <2>1 DEF Phases
  <2>2. QED BY <2>1
<1>7. QED BY <1>4, <1>5, <1>6 DEF ExecutionIInv

LEMMA FinishKeeps ==
  ASSUME ExecutionIInv, NEW r, FinishFailed \/ FinishWith(r)
  PROVE  ExecutionIInv'
<1>1. CASE FinishFailed
  <2>1. /\ status = "running" /\ status' = "failed" /\ error' # "Ok"
        /\ UNCHANGED <<atm, done, callorder, templates, returned, methodidx, varmap>>
    BY <1>1 DEF FinishFailed, vars, contextVars, iteratorVars
  <2>2. QED BY <2>1, QuietStep
<1>2. CASE FinishWith(r)
  <2>1. /\ status = "running" /\ status' \in {"ok", "failed"} /\ error = "Ok" /\ itererr = "Ok"
        /\ UNCHANGED <<atm, done, callorder, templates, returned, methodidx, varmap>>
    BY <1>2 DEF FinishWith, Finished, contextVars
  <2>2. QED BY <2>1, QuietStep
<1>3. QED BY <1>1, <1>2

-----------------------------------------------------------------------------
(* A call executed                                                                 *)
LEMMA TurnFacts ==
  ASSUME All, NEW r, ExecuteWith(r), NEW nodes, nodes = NextNodes,
         NEW def, def = atm.calls[nodes[1].call]
  PROVE  /\ Effect(nodes, def, r)
         /\ status = "running" /\ error = "Ok" /\ UNCHANGED <<atm, done, callorder, methodcalls, status>>
         /\ methodidx \in 1..Len(callorder) /\ Len(callorder) \in Nat
         /\ Len(nodes) \in 1..(Len(callorder) - methodidx + 1) /\ Last(nodes) \in ToSet(nodes)
         /\ nodes[1] = callorder[methodidx]
         /\ \A i \in methodidx..(methodidx + Len(nodes) - 1) : atm.calls[callorder[i].call].result = def.result
<1>1. /\ status = "running" /\ error = "Ok" /\ methodidx <= Len(callorder)
      /\ Perform(nodes, def, r) /\ UNCHANGED <<contextVars, status>>
  BY DEF ExecuteWith, Turn, CallLeft
<1>2. /\ returned \in Seq(ToSet(returned)) /\ varmap \in VarMaps
      /\ done /\ methodidx \in 1..(Len(callorder) + 1)
  BY <1>1, NowFacts DEF All
<1>3. callorder \in Seq(methodcalls) /\ Len(callorder) \in Nat
  BY <1>2, LenProperties DEF All, CallsOrdered
<1>4. methodidx \in 1..Len(callorder)
  BY <1>1, <1>2, <1>3
<1>5. /\ nodes \in Seq(methodcalls) /\ Len(nodes) \in 1..(Len(callorder) - methodidx + 1)
      /\ nodes[1] = callorder[methodidx] /\ Last(nodes) \in ToSet(nodes)
      /\ \A i \in methodidx..(methodidx + Len(nodes) - 1) :
           atm.calls[callorder[i].call].result = atm.calls[nodes[1].call].result
  <2>1. nodes = Together(methodidx)
    BY DEF NextNodes
  <2>2. Gathered(methodcalls, methodidx, nodes)
    BY <1>3, <1>4, <2>1, TogetherFacts
  <2>3. QED BY <2>2 DEF Gathered
<1>6. nodes[1].call \in DOMAIN atm.calls
  <2>1. nodes[1] \in methodcalls
    BY <1>3, <1>4, <1>5, ElementOfSeq
  <2>2. QED BY <2>1 DEF All, IInv, TypeOK
<1>7. Effect(nodes, def, r)
  BY <1>1, <1>2, <1>6, PerformEffect
<1>8. UNCHANGED <<atm, done, callorder, methodcalls, status>>
  BY <1>1 DEF contextVars, foundVars
<1>9. QED BY <1>1, <1>3, <1>4, <1>5, <1>7, <1>8

(* Assignments and failing calls leave the templates as they should be.            *)
LEMMA AssignedHolds ==
  ASSUME atm \in Automata, Items(templates), returned \in Seq(ToSet(returned)), Valued(templates, returned),
         NEW nodes, NEW def, NEW r, Assigned(nodes, def, r)
  PROVE  Valued(templates', returned')
<1>1. PICK kind \in Kinds :
        /\ kind = "undefined" \/ def.result = NULL \/ ~IsResultVariable(def.result)
        /\ Returning(nodes, def, kind) /\ UNCHANGED templates
  BY DEF Assigned
<1> DEFINE entry == [nodes |-> nodes, var |-> def.result, kind |-> kind]
           A == ToSet(returned) \cup {entry}
<1>2. returned' = Append(returned, entry) /\ returned \in Seq(A) /\ entry \in A
  BY <1>1, SeqFacts DEF Returning
<1>3. SUFFICES ASSUME NEW t \in DOMAIN templates, NEW k \in DOMAIN templates[t]
               PROVE  HoldsIn(returned', templates[t][k], NodesOf(t)[templates[t][k].node])
  BY <1>1 DEF Valued
<1> DEFINE item == templates[t][k]
           node == NodesOf(t)[item.node]
<1>4. item.node \in DOMAIN NodesOf(t) /\ t \in DOMAIN atm.results
  <2>1. templates[t] \in Seq(ItemOf(t)) /\ t \in DOMAIN atm.results
    BY DEF Items
  <2>2. item \in ItemOf(t)
    BY <2>1, LenProperties, ElementOfSeq
  <2>3. QED BY <2>1, <2>2 DEF ItemOf
<1>5. node.kind = "result" => node.var # NULL /\ IsResultVariable(node.var)
  <2>1. node.kind = "result" => node.var # NULL
    BY <1>4, NodesFacts
  <2>2. QED BY <1>4, <2>1 DEF IsResultVariable
<1>6. node.kind = "result" => ~(entry.var = node.var /\ entry.kind # "undefined")
  BY <1>1, <1>5
<1>7. HoldsIn(returned, item, node)
  BY DEF Valued
<1> HIDE DEF entry, item, node, A
<1>8. HoldsIn(returned', item, node)
  BY <1>2, <1>6, <1>7, HoldsStill
<1>9. QED BY <1>8 DEF item, node

(* A result is put where it belongs, if no reference refuses it.                   *)
LEMMA PushedHolds ==
  ASSUME atm \in Automata, Items(templates), returned \in Seq(ToSet(returned)),
         NEW nodes, Last(nodes) \in ToSet(nodes), NEW def, NEW r, PushedTo(nodes, def, r)
  PROVE  /\ Items(templates')
         /\ itererr' = "Ok" => r.err = "Ok" /\ (Valued(templates, returned) => Valued(templates', returned'))
<1>1. PICK kind, pushed :
        /\ kind \in Kinds
        /\ pushed = PushCallResult(r.err, def, nodes, IF kind = "undefined" THEN Void ELSE Number)
        /\ Returning(nodes, def, kind)
        /\ templates' = pushed.templates /\ itererr' = pushed.err
  BY DEF PushedTo
<1> DEFINE value == IF kind = "undefined" THEN Void ELSE Number
           entry == [nodes |-> nodes, var |-> def.result, kind |-> kind]
           A == ToSet(returned) \cup {entry}
<1>2. value \in Nat /\ value = IF entry.kind = "undefined" THEN Void ELSE Len(returned) + 1
  <2>1. Len(returned) \in Nat
    BY LenProperties
  <2>2. QED BY <2>1 DEF Number, Void
<1>3. returned' = Append(returned, entry) /\ returned \in Seq(A) /\ entry \in A
  BY <1>1, SeqFacts DEF Returning
<1>4. /\ Items(templates')
      /\ itererr' = "Ok" =>
           /\ r.err = "Ok"
           /\ \A t \in DOMAIN templates :
                /\ DOMAIN templates'[t] = DOMAIN templates[t]
                /\ \A k \in DOMAIN templates[t] :
                     Pushed(NodesOf(t), templates[t][k], def.result, Last(nodes), value, templates'[t][k])
  <2>1. pushed = PushCallResult(r.err, def, nodes, value)
    BY <1>1
  <2> HIDE DEF value
  <2>2. QED BY <1>1, <1>2, <2>1, PushCallResultFacts
<1>5. ASSUME itererr' = "Ok", Valued(templates, returned) PROVE Valued(templates', returned')
  <2>1. SUFFICES ASSUME NEW t \in DOMAIN templates', NEW k \in DOMAIN templates'[t]
                 PROVE  HoldsIn(returned', templates'[t][k], NodesOf(t)[templates'[t][k].node])
    BY DEF Valued
  <2> DEFINE item == templates[t][k]
             new == templates'[t][k]
             node == NodesOf(t)[item.node]
  <2>2. t \in DOMAIN templates /\ k \in DOMAIN templates[t]
    BY <1>4, <1>5 DEF Items
  <2>3. item \in ItemOf(t)
    <3>1. templates[t] \in Seq(ItemOf(t))
      BY <2>2 DEF Items
    <3>2. QED BY <2>2, <3>1, LenProperties, ElementOfSeq
  <2>4. HoldsIn(returned, item, node)
    BY <1>5, <2>2 DEF Valued
  <2>5. Pushed(NodesOf(t), item, def.result, Last(nodes), value, new)
    BY <1>4, <1>5, <2>2
  <2> HIDE DEF item, new, value
  <2>6. CASE Takes(NodesOf(t), item, def.result) /\ Inside(Last(nodes), item)
    <3>1. /\ ~Refuses(item, node.type) /\ new = PutResult(item, node.type, value)
          /\ node.kind = "result" /\ node.var = def.result
      BY <2>5, <2>6 DEF Pushed, Takes
    <3>2. new.node = item.node
      <4> HIDE DEF node
      <4>1. QED BY <1>2, <2>3, <3>1, PutFacts
    <3>3. entry.var = node.var /\ \E x \in ToSet(entry.nodes) : Inside(x, item)
      BY <2>6, <3>1
    <3> HIDE DEF node, entry, A
    <3>4. HoldsIn(returned', new, node)
      BY <1>2, <1>3, <2>3, <2>4, <3>1, <3>3, PutHolds
    <3>5. QED BY <3>2, <3>4 DEF node, new
  <2>7. CASE ~(Takes(NodesOf(t), item, def.result) /\ Inside(Last(nodes), item))
    <3>1. new = item
      BY <2>5, <2>7 DEF Pushed
    <3>2. node.kind = "result" =>
            ~(entry.var = node.var /\ \A x \in ToSet(entry.nodes) : Inside(x, item))
      BY <2>7 DEF Takes
    <3> HIDE DEF node, entry, A
    <3>3. HoldsIn(returned', item, node)
      BY <1>3, <2>4, <3>2, HoldsStill
    <3>4. QED BY <3>1, <3>3 DEF node, new
  <2>8. QED BY <2>6, <2>7
<1>6. QED BY <1>4, <1>5

LEMMA ExecuteKeeps ==
  ASSUME All, NEW r, Resolution(r), ExecuteWith(r)
  PROVE  ExecutionIInv'
<1> DEFINE nodes == NextNodes
           def == atm.calls[nodes[1].call]
<1>1. /\ Effect(nodes, def, r)
      /\ status = "running" /\ error = "Ok" /\ UNCHANGED <<atm, done, callorder, methodcalls, status>>
      /\ methodidx \in 1..Len(callorder) /\ Len(callorder) \in Nat
      /\ Len(nodes) \in 1..(Len(callorder) - methodidx + 1) /\ Last(nodes) \in ToSet(nodes)
      /\ \A i \in methodidx..(methodidx + Len(nodes) - 1) : atm.calls[callorder[i].call].result = def.result
  BY TurnFacts
<1>2. /\ Items(templates) /\ returned \in Seq(ToSet(returned)) /\ varmap \in VarMaps
      /\ \A i \in 1..(methodidx - 1) : Made(varmap, atm.calls[callorder[i].call].result)
      /\ error = "Ok" /\ itererr = "Ok" => Valued(templates, returned)
      /\ done /\ atm \in Automata
  BY <1>1, NowFacts DEF All, IInv, TypeOK
<1> HIDE DEF nodes, def
<1>3. /\ VarsGrown(varmap') /\ (r.ok => Made(varmap', def.result))
      /\ methodidx' = methodidx + (IF r.ok THEN Len(nodes) ELSE 0)
      /\ Broken(r) \/ Assigned(nodes, def, r) \/ PushedTo(nodes, def, r)
  BY <1>1 DEF Effect
<1>4. methodidx' \in 1..(Len(callorder) + 1)
  BY <1>1, <1>3
<1>5. Phases'
  BY <1>1, <1>2, <1>4 DEF Phases
<1>6. VariablesMade'
  <2>1. SUFFICES ASSUME NEW i \in 1..(methodidx' - 1)
                 PROVE  Made(varmap', atm.calls[callorder[i].call].result)
    BY <1>1, MadeNext
  <2>2. CASE i \in 1..(methodidx - 1)
    <3>1. Made(varmap, atm.calls[callorder[i].call].result)
      BY <1>2, <2>2
    <3> DEFINE v == atm.calls[callorder[i].call].result
    <3>2. v # NULL => v \in Names \ {NULL}
      <4>1. callorder \in Seq(methodcalls)
        BY <1>2 DEF All, CallsOrdered
      <4>2. i \in 1..Len(callorder)
        BY <1>1, <2>2
      <4>3. callorder[i] \in methodcalls
        BY <4>1, <4>2, ElementOfSeq
      <4>4. callorder[i].call \in DOMAIN atm.calls
        BY <4>3 DEF All, IInv, TypeOK
      <4>5. QED BY <4>4 DEF Names
    <3> HIDE DEF v
    <3>3. Made(varmap, v)
      BY <3>1 DEF v
    <3>4. Made(varmap', v)
      BY <1>3, <3>2, <3>3 DEF Made, VarsGrown
    <3>5. QED BY <3>4 DEF v
  <2>3. CASE i \notin 1..(methodidx - 1)
    <3>1. r.ok /\ i \in methodidx..(methodidx + Len(nodes) - 1)
      BY <1>1, <1>3, <2>3
    <3>2. QED BY <1>1, <1>3, <3>1
  <2>4. QED BY <2>2, <2>3
<1>7. returned' \in Seq(ToSet(returned'))
  <2>1. CASE returned' = returned
    BY <1>2, <2>1
  <2>2. CASE \E kind : Returning(nodes, def, kind)
    <3>1. PICK entry : returned' = Append(returned, entry)
      BY <2>2 DEF Returning
    <3> DEFINE A == ToSet(returned) \cup {entry}
    <3>2. returned \in Seq(A) /\ entry \in A
      BY <1>2, SeqFacts
    <3> HIDE DEF A
    <3>3. returned' \in Seq(A)
      BY <3>1, <3>2, AppendProperties
    <3>4. QED BY <3>3, SeqFacts
  <2>3. QED BY <1>3, <2>1, <2>2 DEF Broken, Assigned, PushedTo
<1>8. Items(templates') /\ (itererr' = "Ok" => Valued(templates', returned'))
  <2>1. itererr # "Ok" => r.err # "Ok"
    BY DEF Resolution
  <2>2. r.err = "Ok" => Valued(templates, returned)
    BY <1>1, <1>2, <2>1
  <2>3. CASE Broken(r)
    BY <1>2, <2>2, <2>3 DEF Broken
  <2>4. CASE Assigned(nodes, def, r)
    <3>1. UNCHANGED templates /\ itererr' = r.err
      BY <2>4 DEF Assigned
    <3>2. QED BY <1>2, <2>2, <2>4, <3>1, AssignedHolds
  <2>5. CASE PushedTo(nodes, def, r)
    BY <1>1, <1>2, <2>2, <2>5, PushedHolds
  <2>6. QED BY <1>3, <2>3, <2>4, <2>5
<1>9. ExecutionTypeOK'
  <2>1. methodidx' \in Nat /\ varmap' \in VarMaps
    BY <1>1, <1>3, <1>4 DEF VarsGrown
  <2>2. QED BY <1>1, <1>7, <1>8, <2>1, TypeNext
<1>10. ValuesHeld'
  BY <1>1, <1>8, ValuedNext
<1>11. QED BY <1>5, <1>6, <1>9, <1>10 DEF ExecutionIInv

-----------------------------------------------------------------------------
(* Every step of the execution                                                     *)
LEMMA StepInContext == CallsNext => [Next]_contextVars
<1>1. SUFFICES ASSUME CallsNext PROVE [Next]_contextVars
  OBVIOUS
<1>2. ASSUME NEW t \in Tag, FeedOpenTag(t) PROVE Next
  BY <1>2 DEF FeedOpenTag, Next
<1>3. CASE FeedCloseTag
  BY <1>3 DEF FeedCloseTag, Next
<1>4. CASE (AttributeName \/ AttributeValue \/ Content \/ Done) /\ UNCHANGED <<iteratorVars, executionVars>>
  BY <1>4 DEF Next
<1>5. CASE Start
  BY <1>5 DEF Start, CreateIterator
<1>6. ASSUME NEW r, ExecuteWith(r) \/ FinishWith(r) PROVE UNCHANGED contextVars
  BY <1>6 DEF ExecuteWith, FinishWith
<1>7. CASE FinishFailed
  BY <1>7 DEF FinishFailed, vars
<1>8. QED BY <1>1, <1>2, <1>3, <1>4, <1>5, <1>6, <1>7 DEF CallsNext

LEMMA OtherFeedKeeps ==
  ASSUME ExecutionIInv, AttributeName \/ AttributeValue \/ Content \/ Done,
         UNCHANGED <<iteratorVars, executionVars>>
  PROVE  ExecutionIInv'
<1>1. UNCHANGED <<methodidx, itererr, templates, varmap, returned, status, error>>
  BY DEF iteratorVars, executionVars
<1>2. ~done /\ atm' = atm
  BY DEF AttributeName, AttributeValue, Content, Done, Feeding
<1>3. QED BY <1>1, <1>2, QuietStep

LEMMA NextExecution ==
  ASSUME All, [CallsNext]_allVars
  PROVE  ExecutionIInv'
<1>1. IInv /\ ExecutionIInv
  BY DEF All
<1>2. ASSUME NEW t \in Tag, FeedOpenTag(t) PROVE ExecutionIInv'
  BY <1>1, <1>2, FeedOpenTagKeeps
<1>3. CASE FeedCloseTag
  BY <1>1, <1>3, FeedCloseTagKeeps
<1>4. CASE (AttributeName \/ AttributeValue \/ Content \/ Done) /\ UNCHANGED <<iteratorVars, executionVars>>
  BY <1>1, <1>4, OtherFeedKeeps
<1>5. CASE Start
  BY <1>1, <1>5, StartKeeps
<1>6. ASSUME NEW r, Resolution(r), ExecuteWith(r) PROVE ExecutionIInv'
  BY <1>6, ExecuteKeeps
<1>7. ASSUME NEW r, FinishFailed \/ FinishWith(r) PROVE ExecutionIInv'
  BY <1>1, <1>7, FinishKeeps
<1>8. CASE UNCHANGED allVars
  <2>1. UNCHANGED <<atm, done, callorder, methodidx, itererr, templates, varmap, returned, status, error>>
    BY <1>8 DEF allVars, vars, contextVars, iteratorVars, executionVars
  <2>2. QED BY <1>1, <2>1, QuietStep
<1>9. QED BY <1>2, <1>3, <1>4, <1>5, <1>6, <1>7, <1>8 DEF CallsNext

LEMMA NextAll == All /\ [CallsNext]_allVars => All'
<1>1. SUFFICES ASSUME All, [CallsNext]_allVars PROVE All'
  OBVIOUS
<1>2. [Next]_contextVars
  BY <1>1, StepInContext DEF allVars, vars
<1>3. IInv' /\ CallsPlaced' /\ CallsOrdered'
  BY <1>1, <1>2, NextIInv, NextOrdered DEF All
<1>4. ExecutionIInv'
  BY <1>1, NextExecution
<1>5. QED BY <1>3, <1>4 DEF All

(* What is found, the order of the calls, the variables made, the templates and what *)
(* was returned fit together, whatever arguments are resolved to (execute_request). *)
THEOREM AllInvariant == CallsSpec => []All
<1>1. ExecutionInit => All
  <2>1. ExecutionInit => Init
    BY DEF ExecutionInit
  <2>2. QED BY <2>1, InitIInv, InitOrdered, InitExecution DEF All
<1>2. All /\ [CallsNext]_allVars => All'
  BY NextAll
<1>3. QED BY <1>1, <1>2, PTL DEF CallsSpec

(* Every reference of a template, and what it holds                                *)
LEMMA ItemsHold ==
  ASSUME All, (error = "Ok" /\ itererr = "Ok") \/ status = "ok", NEW tk \in ResultItems,
         NEW item, item = templates[tk[1]][tk[2]], NEW node, node = NodesOf(tk[1])[item.node]
  PROVE  node.kind = "result" /\ Holds(item, node) /\ item.value \in Seq(Nat)
<1>1. PICK t \in DOMAIN templates : tk[1] = t /\ tk[2] \in DOMAIN templates[t]
  <2>1. PICK t \in DOMAIN templates : tk \in {t} \X DOMAIN templates[t]
    BY DEF ResultItems
  <2>2. QED BY <2>1
<1>2. Holds(item, node)
  BY <1>1 DEF All, ExecutionIInv, ValuesHeld
<1>3. item \in ItemOf(t)
  <2>1. templates[t] \in Seq(ItemOf(t))
    BY <1>1 DEF All, ExecutionIInv, ExecutionTypeOK
  <2>2. QED BY <1>1, <2>1, LenProperties, ElementOfSeq
<1>4. node.kind = "result"
  BY DEF ResultItems
<1>5. QED BY <1>2, <1>3, <1>4 DEF ItemOf

LEMMA AllInScope == All => ResultsInScope
<1>1. SUFFICES ASSUME All, error = "Ok", itererr = "Ok", NEW tk \in ResultItems,
                      NEW item, item = templates[tk[1]][tk[2]], NEW node, node = NodesOf(tk[1])[item.node]
               PROVE  LET values == ToSet(item.value) \ {Void} IN
                      /\ Numbers(item, node.var, TRUE) \subseteq values
                      /\ values \cap Strange(item, node.var) = {}
                      /\ \A i, j \in DOMAIN item.value :
                           i < j /\ item.value[j] # Void => item.value[i] < item.value[j]
  BY DEF ResultsInScope
<1>2. node.kind = "result" /\ Holds(item, node)
  BY <1>1, ItemsHold
<1>3. Void \notin DOMAIN returned
  <2>1. returned \in Seq(ToSet(returned))
    BY <1>1, NowFacts DEF All
  <2>2. DOMAIN returned = 1..Len(returned) /\ Len(returned) \in Nat
    BY <2>1, LenProperties
  <2>3. QED BY <2>2 DEF Void
<1>4. Numbers(item, node.var, TRUE) \subseteq ToSet(item.value) \ {Void}
  BY <1>2, <1>3 DEF Holds, Numbers
<1>5. (ToSet(item.value) \ {Void}) \cap Strange(item, node.var) = {}
  <2>1. SUFFICES ASSUME NEW i \in DOMAIN item.value, item.value[i] # Void, item.value[i] \in Strange(item, node.var)
                 PROVE  FALSE
    BY DEF ToSet
  <2>2. /\ returned[item.value[i]].var = node.var
        /\ \E x \in ToSet(returned[item.value[i]].nodes) : Inside(x, item)
    BY <1>2, <2>1 DEF Holds
  <2>3. QED BY <2>1, <2>2 DEF Strange
<1>6. \A i, j \in DOMAIN item.value : i < j /\ item.value[j] # Void => item.value[i] < item.value[j]
  BY <1>2 DEF Holds
<1>7. QED BY <1>4, <1>5, <1>6

LEMMA AllReported == All => AmbiguityReported
<1>1. SUFFICES ASSUME All, status = "ok", NEW tk \in ResultItems,
                      NEW item, item = templates[tk[1]][tk[2]], NEW node, node = NodesOf(tk[1])[item.node],
                      node.type \in {"required", "optional"}
               PROVE  Cardinality(Numbers(item, node.var, TRUE)) <= 1
  BY DEF AmbiguityReported
<1> DEFINE N == Numbers(item, node.var, TRUE)
<1>2. node.kind = "result" /\ Holds(item, node) /\ item.value \in Seq(Nat)
  BY <1>1, ItemsHold
<1>3. N \subseteq ToSet(item.value) /\ Len(item.value) <= 1
  BY <1>1, <1>2 DEF Holds, Many
<1>4. \E x : N \subseteq {x}
  <2>1. Len(item.value) \in Nat /\ DOMAIN item.value = 1..Len(item.value)
    BY <1>2, LenProperties
  <2>2. \A i \in DOMAIN item.value : i = 1
    BY <1>3, <2>1
  <2>3. ToSet(item.value) \subseteq {item.value[1]}
    BY <2>2 DEF ToSet
  <2> HIDE DEF N
  <2>4. N \subseteq {item.value[1]}
    BY <1>3, <2>3
  <2>5. QED BY <2>4
<1> HIDE DEF N
<1>5. PICK x : N \subseteq {x}
  BY <1>4
<1>6. IsFiniteSet({x}) /\ Cardinality({x}) = 1
  BY FS_Singleton
<1>7. Cardinality(N) <= Cardinality({x})
  BY <1>5, <1>6, FS_Subset
<1>8. Cardinality(N) <= 1
  BY <1>6, <1>7
<1>9. QED BY <1>8 DEF N

(* A reference in a template has the results of the calls in its scope, of no       *)
(* others, and in the order of the calls, whatever the arguments are resolved to.   *)
THEOREM ResultsAlwaysInScope == CallsSpec => []ResultsInScope
BY AllInvariant, AllInScope, PTL

(* No request with two results for a single reference ends as successful.           *)
THEOREM AmbiguityAlwaysReported == CallsSpec => []AmbiguityReported
BY AllInvariant, AllReported, PTL

-----------------------------------------------------------------------------
(* The iterator never has the error of a method without its object.                *)
LEMMA PushCallErrors ==
  ASSUME NEW err \in IteratorErrors, NEW def, NEW nodes, NEW value
  PROVE  PushCallResult(err, def, nodes, value).err \in IteratorErrors
<1> DEFINE pushed(t) == PushResult(templates[t], NodesOf(t), def.result, ResultScope(nodes), value)
           refusing == {t \in DOMAIN templates : pushed(t).err # "Ok"}
           m == Max(refusing)
<1>1. PushCallResult(err, def, nodes, value) =
        IF def.result = NULL THEN [templates |-> templates, err |-> "ValueUndefined"]
        ELSE [templates |-> [t \in DOMAIN templates |-> pushed(t).items],
              err |-> IF refusing = {} THEN err ELSE pushed(m).err]
  BY DEF PushCallResult
<1>2. pushed(m).err \in {"Ok", "NotImplemented", "AmbiguousReference"}
  <2> HIDE DEF m
  <2>1. QED BY DEF PushResult
<1> HIDE DEF pushed, refusing, m
<1>3. QED BY <1>1, <1>2 DEF IteratorErrors

ErrorKnown == itererr \in IteratorErrors
LEMMA NextErrorKnown == All /\ ErrorKnown /\ [CallsNext]_allVars => ErrorKnown'
<1>1. SUFFICES ASSUME All, itererr \in IteratorErrors, [CallsNext]_allVars
               PROVE  itererr' \in IteratorErrors
  BY DEF ErrorKnown
<1>2. ASSUME NEW t \in Tag, FeedOpenTag(t) PROVE UNCHANGED itererr
  BY <1>2 DEF FeedOpenTag, iteratorVars
<1>3. CASE (AttributeName \/ AttributeValue \/ Content \/ Done) /\ UNCHANGED <<iteratorVars, executionVars>>
  BY <1>1, <1>3 DEF iteratorVars
<1>4. CASE Start
  BY <1>1, <1>4 DEF Start, CreateIterator
<1>5. ASSUME NEW r, Resolution(r), ExecuteWith(r) PROVE itererr' \in IteratorErrors
  <2> DEFINE nodes == NextNodes
             def == atm.calls[nodes[1].call]
  <2>1. Effect(nodes, def, r)
    BY <1>1, <1>5, TurnFacts
  <2>2. r.err \in IteratorErrors
    BY <1>5 DEF Resolution
  <2> HIDE DEF nodes, def
  <2>3. QED BY <2>1, <2>2, PushCallErrors DEF Effect, Broken, Assigned, PushedTo
<1>6. ASSUME NEW r, Resolution(r), FinishWith(r) PROVE itererr' \in IteratorErrors
  BY <1>6 DEF FinishWith, Resolution
<1>7. CASE FinishFailed
  BY <1>1, <1>7 DEF FinishFailed, vars, iteratorVars
<1>8. CASE UNCHANGED allVars
  BY <1>1, <1>8 DEF allVars, vars, iteratorVars
<1>9. CASE FeedCloseTag
  BY <1>1, <1>9 DEF FeedCloseTag, iteratorVars
<1>10. QED BY <1>1, <1>2, <1>3, <1>4, <1>5, <1>6, <1>7, <1>8, <1>9 DEF CallsNext

(* A method that misses its object has none of an earlier group before it that      *)
(* makes it: that call is behind in the order, and has made the variable.          *)
LEMMA ExecuteMadeBefore ==
  ASSUME All, SelvesApart(atm), NEW r, ExecuteWith(r)
  PROVE  ObjectMadeBefore'
<1> DEFINE nodes == NextNodes
           x == nodes[1]
           def == atm.calls[x.call]
<1>1. /\ Effect(nodes, def, r) /\ status = "running"
      /\ UNCHANGED <<atm, done, callorder, methodcalls, status>>
      /\ methodidx \in 1..Len(callorder) /\ Len(callorder) \in Nat /\ x = callorder[methodidx]
  BY TurnFacts
<1>2. /\ callorder \in Seq(methodcalls) /\ ToSet(callorder) = methodcalls
      /\ \A i, j \in DOMAIN callorder : i < j => CallLess(callorder[i], callorder[j])
      /\ \A i \in 1..(methodidx - 1) : Made(varmap, atm.calls[callorder[i].call].result)
  BY <1>1, NowFacts DEF All, CallsOrdered
<1>3. DOMAIN callorder = 1..Len(callorder)
  BY <1>2, LenProperties
<1>4. /\ \A y \in methodcalls : y.call \in DOMAIN atm.calls /\ y.group \in Int
      /\ x \in methodcalls
  <2>1. \A y \in methodcalls : y.call \in DOMAIN atm.calls /\ y.group = atm.calls[y.call].group
    BY DEF All, IInv, TypeOK, CallsPlaced
  <2>2. atm \in Automata
    BY DEF All, IInv, TypeOK
  <2>3. x \in methodcalls
    BY <1>1, <1>2, ElementOfSeq
  <2> HIDE DEF x
  <2>4. QED BY <2>1, <2>2, <2>3, AutomataAssumption
<1> HIDE DEF nodes, x, def
<1>5. SUFFICES ASSUME error' = "MissingSelf", NEW y \in methodcalls, y.group < x.group,
                      atm.calls[y.call].result = def.self
               PROVE  FALSE
  BY <1>1 DEF ObjectMadeBefore, Effect, x, def
<1>6. def.self # NULL /\ varmap[def.self] = NULL
  BY <1>1, <1>5 DEF Effect
<1>7. PICK j \in 1..Len(callorder) : y = callorder[j]
  BY <1>2, <1>3 DEF ToSet
<1>8. j \in 1..(methodidx - 1)
  <2>1. ~(methodidx < j)
    <3>1. SUFFICES ASSUME methodidx < j PROVE FALSE
      OBVIOUS
    <3>2. CallLess(x, y)
      BY <1>1, <1>2, <1>3, <1>7, <3>1
    <3>3. QED BY <1>4, <1>5, <3>2 DEF CallLess
  <2>2. methodidx # j
    BY <1>1, <1>4, <1>5, <1>7
  <2>3. QED BY <1>1, <2>1, <2>2
<1>9. Made(varmap, def.self)
  BY <1>2, <1>5, <1>7, <1>8
<1>10. ~IsResultVariable(def.self)
  <2>1. x.call \in DOMAIN atm.calls /\ def = atm.calls[x.call]
    BY <1>4 DEF def
  <2>2. QED BY <1>6, <2>1 DEF SelvesApart, IsResultVariable, NodesOf
<1>11. QED BY <1>6, <1>9, <1>10 DEF Made

LEMMA NextMadeBefore ==
  ASSUME All, ErrorKnown, SelvesApart(atm), ObjectMadeBefore, [CallsNext]_allVars
  PROVE  ObjectMadeBefore'
<1>1. status = "feeding" => error = "Ok"
  BY NowFacts DEF All
<1>2. ASSUME error' = "Ok" PROVE ObjectMadeBefore'
  BY <1>2 DEF ObjectMadeBefore
<1>3. ASSUME UNCHANGED <<atm, issued, methodcalls, error>> PROVE ObjectMadeBefore'
  BY <1>3 DEF ObjectMadeBefore
<1>4. ~done => error = "Ok"
  BY <1>1, NowFacts DEF All
<1>5. ASSUME NEW t \in Tag, FeedOpenTag(t) PROVE ObjectMadeBefore'
  BY <1>2, <1>4, <1>5 DEF FeedOpenTag, OpenTag, Feeding
<1>6. CASE FeedCloseTag
  BY <1>2, <1>4, <1>6 DEF FeedCloseTag, CloseTag, Feeding
<1>7. CASE (AttributeName \/ AttributeValue \/ Content \/ Done) /\ UNCHANGED <<iteratorVars, executionVars>>
  <2>1. ~done /\ UNCHANGED error
    BY <1>7 DEF AttributeName, AttributeValue, Content, Done, Feeding, executionVars
  <2>2. QED BY <1>2, <1>4, <2>1
<1>8. CASE Start
  BY <1>1, <1>2, <1>8 DEF Start
<1>9. ASSUME NEW r, ExecuteWith(r) PROVE ObjectMadeBefore'
  BY <1>9, ExecuteMadeBefore
<1>10. ASSUME NEW r, Resolution(r), FinishWith(r) PROVE ObjectMadeBefore'
  <2>1. error' \in IteratorErrors
    BY <1>10 DEF FinishWith, Resolution
  <2>2. error' # "MissingSelf"
    BY <2>1 DEF IteratorErrors
  <2>3. QED BY <2>2 DEF ObjectMadeBefore
<1>11. CASE FinishFailed
  <2>1. /\ error' = IF error # "Ok" THEN error ELSE itererr
        /\ UNCHANGED <<atm, issued, methodcalls>>
    BY <1>11 DEF FinishFailed, vars, contextVars, foundVars, iteratorVars
  <2>2. itererr # "MissingSelf"
    BY DEF ErrorKnown, IteratorErrors
  <2>3. CASE error' = error
    BY <1>3, <2>1, <2>3
  <2>4. CASE error' = itererr
    BY <2>2, <2>4 DEF ObjectMadeBefore
  <2>5. QED BY <2>1, <2>3, <2>4
<1>12. CASE UNCHANGED allVars
  BY <1>3, <1>12 DEF allVars, vars, contextVars, foundVars, iteratorVars, executionVars
<1>13. QED BY <1>5, <1>6, <1>7, <1>8, <1>9, <1>10, <1>11, <1>12 DEF CallsNext

(* A method does not miss an object that a call of an earlier group makes, if no    *)
(* object is named like a result, wherever the elements are and however they fail.  *)
THEOREM ObjectAlwaysMadeBefore ==
  ASSUME \A a \in Automata : SelvesApart(a)
  PROVE  CallsSpec => []ObjectMadeBefore
<1>1. ExecutionInit => ErrorKnown /\ ObjectMadeBefore
  BY DEF ExecutionInit, IteratorInit, ErrorKnown, IteratorErrors, ObjectMadeBefore
<1>2. All => SelvesApart(atm)
  BY DEF All, IInv, TypeOK
<1>3. All /\ (ErrorKnown /\ ObjectMadeBefore) /\ [CallsNext]_allVars => (ErrorKnown /\ ObjectMadeBefore)'
  BY <1>2, NextErrorKnown, NextMadeBefore
<1>4. QED BY <1>1, <1>3, AllInvariant, PTL DEF CallsSpec
=============================================================================
