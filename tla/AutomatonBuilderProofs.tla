----------------------- MODULE AutomatonBuilderProofs -----------------------
(* The order of execution of the calls, for every description, whatever the       *)
(* numbers of its groups are and whatever limits there are.                       *)
EXTENDS AutomatonBuilder, SequenceTheorems, TLAPS

(* Any client of the build API whose groups have no negative number               *)
DescriptionNext ==
  \/ \E scope, kind, self, result, nofargs : AddCall(scope, kind, self, result, nofargs)
  \/ \E k, arg : SetCallArg(k, arg)
  \/ \E scope : PrioritizeLastCall(scope)
  \/ \E scope, item, nofmembers : AddStructure(scope, item, nofmembers)
  \/ \E k, member : SetMember(k, member)
  \/ \E scope, select, item : AddValueDef(scope, select, item)
  \/ \E descr : AddResultDescription(descr)
  \/ \E g \in Nat : OpenGroup(g)
  \/ CloseGroup
  \/ Describe
DescriptionSpec == DescriptionInit /\ [][DescriptionNext]_descriptionVars

-----------------------------------------------------------------------------
(* The inductive invariant.  CallOrderDefined alone says nothing before done and   *)
(* nothing of the places that the groups will get.                                *)
Calls == 1..Len(calldefs)
Openings == 1..Len(openings)
PlaceOf(n) == groupidmap[VirtualGroupId(openings[n])]
Once(n) == \A m \in Openings : m # n => openings[m] # openings[n]

Shape ==
  /\ \E S : calldefs \in Seq(S)
  /\ \A i \in Calls : "group" \in DOMAIN calldefs[i]
  /\ Len(calldefs) <= MaxNofCallDefs
  /\ definedIn \in Seq(Nat) /\ Len(definedIn) = Len(calldefs)
  /\ \A i \in Calls : definedIn[i] <= Len(openings)
  /\ openings \in Seq(Nat)
  /\ described \in BOOLEAN

(* Every opening has a place, which is not behind the calls there are.             *)
PlacesKnown == \A n \in Openings :
  VirtualGroupId(openings[n]) \in DOMAIN groupidmap /\ PlaceOf(n) \in 0..Len(calldefs)

(* The group that is open is the last opened, and all calls since are in it.       *)
LastIsOpen ==
  groupid # NoGroup =>
    /\ openings # <<>> /\ groupid = VirtualGroupId(openings[Len(openings)])
    /\ \A i \in Calls : definedIn[i] # Len(openings) => i <= PlaceOf(Len(openings))

(* The place of a group opened once is between the calls before it and its own.    *)
PlacesOrdered == \A n \in Openings : Once(n) =>
  \A i \in Calls : definedIn[i] = n =>
    /\ PlaceOf(n) < i
    /\ \A j \in Calls : j < i /\ definedIn[j] # n => j <= PlaceOf(n)

(* Before done a call has its own number or that of its group.                     *)
NotRewritten ==
  ~described => \A i \in Calls :
    calldefs[i].group = IF definedIn[i] = 0 THEN i - 1 ELSE VirtualGroupId(openings[definedIn[i]])

IInv == Shape /\ PlacesKnown /\ LastIsOpen /\ PlacesOrdered /\ NotRewritten /\ CallOrderDefined

-----------------------------------------------------------------------------
(* An operation succeeds only if none of its checks fails (FirstError), for up to  *)
(* six checks with an error each.                                                 *)
LEMMA NoneFails ==
  ASSUME NEW checks, NEW n \in 1..6, DOMAIN checks = 1..n,
         \A k \in 1..n : checks[k].fails => checks[k].error # "Ok",
         FirstError(checks) = "Ok"
  PROVE  \A k \in 1..n : ~checks[k].fails
<1> DEFINE failed == {k \in DOMAIN checks : checks[k].fails}
<1>1. SUFFICES ASSUME failed # {} PROVE FALSE
  OBVIOUS
<1>2. \E k \in failed : \A j \in failed : k <= j
  <2>1. failed \subseteq 1..6 OBVIOUS
  <2>2. CASE 1 \in failed BY <2>1, <2>2
  <2>3. CASE 1 \notin failed /\ 2 \in failed BY <2>1, <2>3
  <2>4. CASE 1 \notin failed /\ 2 \notin failed /\ 3 \in failed BY <2>1, <2>4
  <2>5. CASE failed \cap 1..3 = {} /\ 4 \in failed BY <2>1, <2>5
  <2>6. CASE failed \cap 1..4 = {} BY <2>1, <2>6, <1>1
  <2> QED BY <2>2, <2>3, <2>4, <2>5, <2>6
<1>3. PICK k \in failed : FirstError(checks) = checks[k].error
  BY <1>1, <1>2 DEF FirstError
<1> QED BY <1>3

(* A call is added only before done and up to the limit (addCall).                 *)
LEMMA CallAllowed ==
  ASSUME NEW kind, NEW self, NEW nofargs,
         FirstError(CallErrors(kind, self, nofargs)) = "Ok"
  PROVE  ~described /\ ~(Len(calldefs) >= MaxNofCallDefs)
<1> DEFINE checks == CallErrors(kind, self, nofargs)
<1>1. DOMAIN checks = 1..6 BY DEF CallErrors
<1>2. /\ checks[1] = Check(described, "ExecutionOrder")
      /\ checks[2] = Check(nofargs > MaxNofArguments, "NofArgsError")
      /\ checks[3] = Check(kind = "unknown", "AddressedItemNotFound")
      /\ checks[4] = Check(kind = "method" /\ self = NULL, "MissingSelf")
      /\ checks[5] = Check(Len(calldefs) >= MaxNofCallDefs, "ComplexityOfProblem")
      /\ checks[6] = Check(descerr # "Ok", descerr)
  BY DEF CallErrors
<1>3. checks[1].fails = described /\ checks[5].fails = (Len(calldefs) >= MaxNofCallDefs)
  BY <1>2 DEF Check
<1>4. \A k \in 1..6 : checks[k].fails => checks[k].error # "Ok"
  <2>1. \A k \in 1..5 : checks[k].error # "Ok" BY <1>2 DEF Check
  <2>2. checks[6].fails = (descerr # "Ok") /\ checks[6].error = descerr BY <1>2 DEF Check
  <2>3. checks[6].fails => checks[6].error # "Ok" BY <2>2
  <2> QED BY <2>1, <2>3
<1>5. FirstError(checks) = "Ok" OBVIOUS
<1> HIDE DEF checks
<1>6. 6 \in 1..6 OBVIOUS
<1>7. \A k \in 1..6 : ~checks[k].fails BY ONLY <1>1, <1>4, <1>5, <1>6, NoneFails, Zenon
<1>8. ~checks[1].fails /\ ~checks[5].fails BY <1>7
<1> QED BY ONLY <1>3, <1>8, Zenon

-----------------------------------------------------------------------------
(* The invariant is about the calls and the groups.                                *)
orderVars == <<calldefs, definedIn, openings, groupid, groupidmap, described>>

LEMMA NothingChanged ==
  ASSUME IInv, UNCHANGED orderVars
  PROVE  IInv'
<1>1. Calls' = Calls /\ Openings' = Openings
  BY DEF orderVars, Calls, Openings
<1>2. Shape'
  BY <1>1 DEF IInv, orderVars, Shape
<1>3. PlacesKnown' /\ LastIsOpen'
  BY <1>1 DEF IInv, orderVars, PlacesKnown, LastIsOpen, PlaceOf
<1>4. PlacesOrdered'
  BY <1>1 DEF IInv, orderVars, PlacesOrdered, Once, PlaceOf
<1>5. NotRewritten'
  BY <1>1 DEF IInv, orderVars, NotRewritten
<1>6. CallOrderDefined'
  BY DEF IInv, orderVars, CallOrderDefined, OpenedOnce
<1>7. QED BY <1>2, <1>3, <1>4, <1>5, <1>6 DEF IInv

LEMMA PlacesKept ==
  ASSUME IInv, UNCHANGED <<openings, groupid, groupidmap, described, definedIn>>,
         NEW S, calldefs' \in Seq(S), Len(calldefs') = Len(calldefs),
         \A i \in Calls : "group" \in DOMAIN calldefs'[i] /\ calldefs'[i].group = calldefs[i].group
  PROVE  IInv'
<1>1. Calls' = Calls BY DEF Calls
<1>2. Shape' BY <1>1 DEF IInv, Shape
<1>3. PlacesKnown' BY DEF IInv, PlacesKnown, Openings, PlaceOf
<1>4. LastIsOpen' BY <1>1 DEF IInv, LastIsOpen, PlaceOf
<1>5. PlacesOrdered' BY <1>1 DEF IInv, PlacesOrdered, Openings, Once, PlaceOf
<1>6. NotRewritten' BY <1>1 DEF IInv, NotRewritten
<1>7. CallOrderDefined'
  <2>1. DOMAIN calldefs = Calls /\ DOMAIN calldefs' = Calls
    BY DEF IInv, Shape, Calls
  <2> QED BY <2>1 DEF IInv, CallOrderDefined, OpenedOnce
<1> QED BY <1>2, <1>3, <1>4, <1>5, <1>6, <1>7 DEF IInv

(* A call has the place behind all calls before it, or is in the group opened last. *)
LEMMA AddCallKeeps ==
  ASSUME IInv, NEW scope, NEW kind, NEW self, NEW result, NEW nofargs,
         AddCall(scope, kind, self, result, nofargs)
  PROVE  IInv'
<1> DEFINE err == FirstError(CallErrors(kind, self, nofargs))
           group == IF groupid = NoGroup THEN Len(calldefs) ELSE groupid
           opening == IF groupid = NoGroup THEN 0 ELSE Len(openings)
           call == [scope |-> PathOf(scope), self |-> self, result |-> result, group |-> group,
                    assign |-> kind = "assign", args |-> [k \in 1..nofargs |-> Unset]]
           new == Len(calldefs) + 1
<1>1. UNCHANGED <<openings, groupid, groupidmap, described>>
  BY DEF AddCall, groups
<1>2. CASE err # "Ok"
  <2>1. UNCHANGED <<calldefs, definedIn>>
    BY <1>2 DEF AddCall, Adding
  <2> QED BY <1>1, <2>1, NothingChanged DEF orderVars
<1>3. CASE err = "Ok"
  <2>1. ~described /\ ~(Len(calldefs) >= MaxNofCallDefs)
    BY <1>3, CallAllowed
  <2>2. calldefs' = Append(calldefs, call) /\ definedIn' = Append(definedIn, opening)
    BY <1>3 DEF AddCall, Adding
  <2>3. PICK S : calldefs \in Seq(S)
    BY DEF IInv, Shape
  <2> HIDE DEF call
  <2>4. opening \in Nat /\ opening <= Len(openings)
    BY DEF IInv, Shape
  <2>5. /\ calldefs \in Seq(S \cup {call}) /\ calldefs' \in Seq(S \cup {call})
        /\ Len(calldefs') = new /\ Calls' = Calls \cup {new}
        /\ \A i \in Calls : calldefs'[i] = calldefs[i]
        /\ calldefs'[new] = call
    BY <2>2, <2>3 DEF Calls
  <2>6. /\ definedIn' \in Seq(Nat) /\ Len(definedIn') = new
        /\ \A i \in Calls : definedIn'[i] = definedIn[i]
        /\ definedIn'[new] = opening
    BY <2>2, <2>4 DEF IInv, Shape, Calls
  <2>7. "group" \in DOMAIN call /\ call.group = group
    BY DEF call
  <2> HIDE DEF err
  <2>8. Shape'
    <3>1. Len(calldefs') <= MaxNofCallDefs
      BY <2>1, <2>3, <2>5, LimitsAssumption
    <3>2. \A i \in Calls' : "group" \in DOMAIN calldefs'[i]
      BY <2>5, <2>7 DEF IInv, Shape
    <3>3. \A i \in Calls' : definedIn'[i] <= Len(openings')
      BY <1>1, <2>4, <2>5, <2>6 DEF IInv, Shape
    <3>4. openings' \in Seq(Nat) /\ described' \in BOOLEAN
      BY <1>1 DEF IInv, Shape
    <3> QED BY <2>5, <2>6, <3>1, <3>2, <3>3, <3>4 DEF Shape
  <2>9. PlacesKnown'
    BY <1>1, <2>5, <2>3 DEF IInv, PlacesKnown, Openings, PlaceOf
  <2>10. LastIsOpen'
    BY <1>1, <2>5, <2>6 DEF IInv, LastIsOpen, PlaceOf
  <2>11. PlacesOrdered'
    <3> SUFFICES ASSUME NEW n \in Openings, Once(n), NEW i \in Calls', definedIn'[i] = n
                 PROVE  /\ PlaceOf(n) < i
                        /\ \A j \in Calls' : j < i /\ definedIn'[j] # n => j <= PlaceOf(n)
      BY <1>1 DEF PlacesOrdered, Openings, Once, PlaceOf
    <3>1. PlaceOf(n) \in 0..Len(calldefs)
      BY DEF IInv, PlacesKnown
    <3>2. CASE i \in Calls
      <4>1. \A j \in Calls' : j < i => j \in Calls
        BY <2>3, <2>5, <3>2 DEF Calls
      <4> QED BY <2>5, <2>6, <3>2, <4>1 DEF IInv, PlacesOrdered
    <3>3. CASE i = new
      <4>1. n = Len(openings) /\ groupid # NoGroup
        BY <2>6, <3>3 DEF Openings
      <4>2. \A j \in Calls : definedIn[j] # n => j <= PlaceOf(n)
        BY <4>1 DEF IInv, LastIsOpen
      <4> QED BY <2>3, <2>5, <2>6, <3>1, <3>3, <4>2 DEF Calls
    <3> QED BY <2>5, <3>2, <3>3
  <2>12. NotRewritten'
    <3>1. ASSUME NEW i \in Calls
          PROVE  calldefs'[i].group = IF definedIn'[i] = 0 THEN i - 1
                                      ELSE VirtualGroupId(openings'[definedIn'[i]])
      BY <1>1, <2>1, <2>5, <2>6 DEF IInv, NotRewritten
    <3>2. calldefs'[new].group = IF definedIn'[new] = 0 THEN new - 1
                                 ELSE VirtualGroupId(openings'[definedIn'[new]])
      <4>1. CASE groupid = NoGroup
        BY <2>3, <2>5, <2>6, <2>7, <4>1
      <4>2. CASE groupid # NoGroup
        <5>1. openings # <<>> /\ groupid = VirtualGroupId(openings[Len(openings)])
          BY <4>2 DEF IInv, LastIsOpen
        <5>2. Len(openings) # 0
          BY <5>1 DEF IInv, Shape
        <5> QED BY <1>1, <2>5, <2>6, <2>7, <4>2, <5>1, <5>2
      <4> QED BY <4>1, <4>2
    <3> QED BY <2>5, <3>1, <3>2 DEF NotRewritten
  <2>13. CallOrderDefined'
    BY <1>1, <2>1 DEF CallOrderDefined
  <2> QED BY <2>8, <2>9, <2>10, <2>11, <2>12, <2>13 DEF IInv
<1> QED BY <1>2, <1>3

(* An argument is set in the last call, of which the place stays (setCallArg).      *)
LEMMA SetCallArgKeeps ==
  ASSUME IInv, NEW k, NEW arg, SetCallArg(k, arg)
  PROVE  IInv'
<1> DEFINE n == Len(calldefs)
           call == [calldefs[n] EXCEPT !.args[k] = arg]
<1>1. UNCHANGED <<openings, groupid, groupidmap, described, definedIn>>
  BY DEF SetCallArg, groups
<1>2. CASE UNCHANGED calldefs
  BY <1>1, <1>2, NothingChanged DEF orderVars
<1>3. CASE calldefs' # calldefs
  <2>1. calldefs' = [calldefs EXCEPT ![n] = call]
    BY <1>3 DEF SetCallArg
  <2>2. PICK S : calldefs \in Seq(S)
    BY DEF IInv, Shape
  <2>3. n \in Calls
    BY <1>3, <2>1, <2>2 DEF Calls
  <2>4. "group" \in DOMAIN call /\ call.group = calldefs[n].group
    BY <2>3 DEF IInv, Shape
  <2> HIDE DEF call
  <2>5. /\ calldefs' \in Seq(S \cup {call}) /\ Len(calldefs') = Len(calldefs) /\ Calls' = Calls
        /\ \A i \in Calls : calldefs'[i] = IF i = n THEN call ELSE calldefs[i]
    BY <2>1, <2>2, <2>3 DEF Calls
  <2>6. \A i \in Calls : "group" \in DOMAIN calldefs'[i] /\ calldefs'[i].group = calldefs[i].group
    BY <2>4, <2>5 DEF IInv, Shape
  <2> QED BY <1>1, <2>2, <2>5, <2>6, PlacesKept
<1> QED BY <1>2, <1>3

(* A group opened gets the place behind all calls there are, and takes the place   *)
(* of those of its number along (openGroup).                                       *)
LEMMA OpenGroupKeeps ==
  ASSUME IInv, NEW g \in Nat, OpenGroup(g)
  PROVE  IInv'
<1> DEFINE v == VirtualGroupId(g)
<1>1. UNCHANGED <<calldefs, described, definedIn>>
  BY DEF OpenGroup, defs
<1>2. CASE UNCHANGED <<openings, groupid, groupidmap>>
  BY <1>1, <1>2, NothingChanged DEF orderVars
<1>3. CASE ~UNCHANGED <<openings, groupid, groupidmap>>
  <2> DEFINE place == [h \in {v} |-> Len(calldefs)]
  <2>0. PICK new : new = Len(openings) + 1
    OBVIOUS
  <2>1. /\ openings' = Append(openings, g)
        /\ groupid' = v
        /\ groupidmap' = [h \in DOMAIN groupidmap \cup DOMAIN place |->
                            IF h \in DOMAIN place THEN place[h] ELSE groupidmap[h]]
    BY <1>3 DEF OpenGroup, Adding
  <2>2. /\ v \in DOMAIN groupidmap' /\ groupidmap'[v] = Len(calldefs)
        /\ \A h \in DOMAIN groupidmap : h \in DOMAIN groupidmap' /\ (h # v => groupidmap'[h] = groupidmap[h])
    BY <2>1
  <2>3. /\ openings \in Seq(Nat) /\ openings' \in Seq(Nat) /\ Len(openings') = new
        /\ Openings' = Openings \cup {new} /\ Len(openings) \in Nat
        /\ \A n \in Openings : openings'[n] = openings[n]
        /\ openings'[new] = g
        /\ DOMAIN openings = Openings /\ DOMAIN openings' = Openings'
    BY <2>0, <2>1 DEF IInv, Shape, Openings
  <2>4. Len(calldefs) \in Nat /\ Calls' = Calls
    BY <1>1 DEF IInv, Shape, Calls
  <2>5. \A i \in Calls : definedIn[i] \in Nat /\ definedIn[i] <= Len(openings)
    BY DEF IInv, Shape, Calls
  <2>6. \A n \in Openings : VirtualGroupId(openings[n]) = v => openings[n] = g
    BY <2>3, LimitsAssumption DEF VirtualGroupId, Openings
  <2> HIDE DEF v
  <2>7. Shape'
    BY <1>1, <2>3, <2>4, <2>5 DEF IInv, Shape
  <2>8. PlacesKnown'
    <3>1. ASSUME NEW n \in Openings
          PROVE  VirtualGroupId(openings'[n]) \in DOMAIN groupidmap' /\ PlaceOf(n)' \in 0..Len(calldefs)
      <4>1. VirtualGroupId(openings[n]) \in DOMAIN groupidmap /\ PlaceOf(n) \in 0..Len(calldefs)
        BY DEF IInv, PlacesKnown
      <4>2. openings'[n] = openings[n]
        BY <2>3
      <4>3. CASE VirtualGroupId(openings[n]) = v
        BY <2>2, <2>4, <4>2, <4>3 DEF PlaceOf
      <4>4. CASE VirtualGroupId(openings[n]) # v
        BY <2>2, <4>1, <4>2, <4>4 DEF PlaceOf
      <4>5. QED BY <4>3, <4>4
    <3>2. VirtualGroupId(openings'[new]) \in DOMAIN groupidmap' /\ PlaceOf(new)' \in 0..Len(calldefs)
      BY <2>2, <2>3, <2>4 DEF PlaceOf, v
    <3> QED BY <1>1, <2>3, <3>1, <3>2 DEF PlacesKnown, PlaceOf
  <2>9. LastIsOpen'
    <3>1. openings' # <<>> /\ groupid' = VirtualGroupId(openings'[Len(openings')])
      BY <2>1, <2>3 DEF v
    <3>2. groupidmap'[VirtualGroupId(openings'[Len(openings')])] = Len(calldefs)
      BY <2>2, <2>3 DEF v
    <3> QED BY <1>1, <2>4, <3>1, <3>2 DEF LastIsOpen, PlaceOf, Calls
  <2>10. PlacesOrdered'
    <3> SUFFICES ASSUME NEW n \in Openings', Once(n)', NEW i \in Calls, definedIn[i] = n
                 PROVE  /\ PlaceOf(n)' < i
                        /\ \A j \in Calls : j < i /\ definedIn[j] # n => j <= PlaceOf(n)'
      BY <1>1, <2>4 DEF PlacesOrdered
    <3>1. n \in Openings
      BY <2>3, <2>5 DEF Openings
    <3>2. openings[n] # g
      <4>1. new \in Openings' /\ new # n
        BY <2>0, <2>3, <3>1 DEF Openings
      <4> QED BY <2>3, <3>1, <4>1 DEF Once
    <3>3. PlaceOf(n)' = PlaceOf(n)
      BY <2>2, <2>3, <2>6, <3>1, <3>2 DEF IInv, PlacesKnown, PlaceOf
    <3>4. Once(n)
      BY <2>3, <3>1 DEF Once
    <3> QED BY <3>1, <3>3, <3>4 DEF IInv, PlacesOrdered
  <2>11. NotRewritten'
    BY <1>1, <2>3, <2>4, <2>5 DEF IInv, NotRewritten, Openings
  <2>12. CallOrderDefined'
    <3>1. \A i \in Calls : OpenedOnce(i)' => OpenedOnce(i)
      <4>1. \A i \in Calls : definedIn[i] # 0 => openings'[definedIn[i]] = openings[definedIn[i]]
        BY <2>3, <2>5 DEF Openings
      <4> QED BY <1>1, <2>3, <4>1 DEF OpenedOnce
    <3>2. DOMAIN calldefs = Calls
      BY DEF IInv, Shape, Calls
    <3> QED BY <1>1, <3>1, <3>2 DEF IInv, CallOrderDefined
  <2> QED BY <2>7, <2>8, <2>9, <2>10, <2>11, <2>12 DEF IInv
<1> QED BY <1>2, <1>3

(* closeGroup *)
LEMMA CloseGroupKeeps ==
  ASSUME IInv, CloseGroup
  PROVE  IInv'
<1>1. UNCHANGED <<calldefs, definedIn, openings, groupidmap, described>>
  BY DEF CloseGroup, defs
<1>2. groupid' = NoGroup \/ groupid' = groupid
  BY DEF CloseGroup
<1>3. Calls' = Calls /\ Openings' = Openings
  BY <1>1 DEF Calls, Openings
<1>4. Shape' /\ PlacesKnown' /\ PlacesOrdered'
  BY <1>1, <1>3 DEF IInv, Shape, PlacesKnown, PlacesOrdered, PlaceOf, Once
<1>5. LastIsOpen'
  BY <1>1, <1>2, <1>3 DEF IInv, LastIsOpen, PlaceOf
<1>6. NotRewritten' /\ CallOrderDefined'
  BY <1>1, <1>3 DEF IInv, NotRewritten, CallOrderDefined, OpenedOnce
<1> QED BY <1>4, <1>5, <1>6 DEF IInv

(* done gives the calls of a group the place it got (RewrittenGroup), and a call    *)
(* without a group keeps its own: the order of all of them is that of the calls.    *)
LEMMA DescribeKeeps ==
  ASSUME IInv, Describe
  PROVE  IInv'
<1> DEFINE unknown(g) == IsVirtualGroupId(g) /\ g \notin DOMAIN groupidmap
           checks == <<Check(described, "LogicError"),
                       Check(\E i \in DOMAIN calldefs : unknown(calldefs[i].group), "LogicError")>>
           err == FirstError(checks)
<1>1. UNCHANGED <<definedIn, openings, groupid, groupidmap>>
  BY DEF Describe, groups
<1>2. CASE err # "Ok"
  <2>1. UNCHANGED <<calldefs, described>>
    BY <1>2 DEF Describe, IInv, Shape
  <2> QED BY <1>1, <2>1, NothingChanged DEF orderVars
<1>3. CASE err = "Ok"
  <2>1. ~described
    <3>1. DOMAIN checks = 1..2 OBVIOUS
    <3>2. checks[1].fails = described /\ \A k \in 1..2 : checks[k].error # "Ok"
      BY DEF Check
    <3>3. 2 \in 1..6 OBVIOUS
    <3> HIDE DEF checks
    <3>4. \A k \in 1..2 : ~checks[k].fails
      BY <1>3, <3>1, <3>2, <3>3, NoneFails
    <3>5. ~checks[1].fails BY <3>4
    <3> QED BY ONLY <3>2, <3>5, Zenon
  <2>2. calldefs' = [i \in DOMAIN calldefs |-> [calldefs[i] EXCEPT !.group = RewrittenGroup(@)]]
    BY <1>3 DEF Describe
  <2> HIDE DEF err
  <2>3. PICK S : calldefs \in Seq(S)
    BY DEF IInv, Shape
  <2>4. DOMAIN calldefs = Calls /\ Len(calldefs) \in Nat
    BY <2>3 DEF Calls
  <2> DEFINE T == {[calldefs[i] EXCEPT !.group = RewrittenGroup(@)] : i \in Calls}
  <2>5. calldefs' \in Seq(T) /\ Len(calldefs') = Len(calldefs) /\ Calls' = Calls
    BY <2>2, <2>4 DEF Calls
  <2>6. \A i \in Calls : "group" \in DOMAIN calldefs'[i] /\ calldefs'[i].group = RewrittenGroup(calldefs[i].group)
    BY <2>2, <2>4 DEF IInv, Shape
  <2> HIDE DEF T
  <2>7. \A i \in Calls : definedIn[i] \in Nat /\ definedIn[i] <= Len(openings)
    BY DEF IInv, Shape, Calls
  <2>8. ASSUME NEW i \in Calls
        PROVE  calldefs'[i].group = IF definedIn[i] = 0 THEN i - 1 ELSE PlaceOf(definedIn[i])
    <3>1. CASE definedIn[i] = 0
      <4>1. calldefs[i].group = i - 1 /\ i <= MaxNofCallDefs /\ i \in Nat
        BY <2>1, <2>4, <3>1, LimitsAssumption DEF IInv, Shape, NotRewritten, Calls
      <4>2. ~IsVirtualGroupId(i - 1)
        BY <4>1, LimitsAssumption DEF IsVirtualGroupId
      <4> QED BY <2>6, <3>1, <4>1, <4>2 DEF RewrittenGroup
    <3>2. CASE definedIn[i] # 0
      <4>1. definedIn[i] \in Openings /\ openings[definedIn[i]] \in Nat
        BY <2>7, <3>2 DEF IInv, Shape, Openings
      <4>2. IsVirtualGroupId(VirtualGroupId(openings[definedIn[i]]))
        BY <4>1, LimitsAssumption DEF IsVirtualGroupId, VirtualGroupId
      <4>3. calldefs[i].group = VirtualGroupId(openings[definedIn[i]])
        BY <2>1, <3>2 DEF IInv, NotRewritten
      <4> QED BY <2>6, <3>2, <4>2, <4>3 DEF RewrittenGroup, PlaceOf
    <3> QED BY <3>1, <3>2
  <2>9. CallOrderDefined'
    <3> SUFFICES ASSUME NEW i \in Calls, NEW j \in Calls, i < j
                 PROVE  IF definedIn[i] # 0 /\ definedIn[i] = definedIn[j]
                        THEN calldefs'[i].group = calldefs'[j].group
                        ELSE OpenedOnce(i) /\ OpenedOnce(j) => calldefs'[i].group < calldefs'[j].group
      <4>1. DOMAIN calldefs' = Calls BY <2>5 DEF Calls
      <4> QED BY <1>1, <4>1 DEF CallOrderDefined, OpenedOnce
    <3>1. CASE definedIn[i] # 0 /\ definedIn[i] = definedIn[j]
      BY <2>8, <3>1
    <3>2. CASE ~(definedIn[i] # 0 /\ definedIn[i] = definedIn[j]) /\ OpenedOnce(i) /\ OpenedOnce(j)
      <4>1. \A k \in {i, j} : definedIn[k] # 0 =>
              definedIn[k] \in Openings /\ Once(definedIn[k]) /\ PlaceOf(definedIn[k]) \in Int
        <5>1. DOMAIN openings = Openings BY DEF IInv, Shape, Openings
        <5>2. ASSUME NEW k \in {i, j}, definedIn[k] # 0 PROVE definedIn[k] \in Openings
          BY <2>7, <5>2 DEF IInv, Shape, Openings
        <5>3. ASSUME NEW n \in Openings PROVE PlaceOf(n) \in Int
          BY DEF IInv, PlacesKnown
        <5>4. ASSUME NEW k \in {i, j}, definedIn[k] # 0 PROVE Once(definedIn[k])
          <6>1. OpenedOnce(k)
            BY <3>2
          <6>2. QED BY <5>1, <5>4, <6>1 DEF OpenedOnce, Once
        <5> QED BY <5>2, <5>3, <5>4
      <4>2. definedIn[i] # 0 => PlaceOf(definedIn[i]) < i
        BY <4>1 DEF IInv, PlacesOrdered
      <4>3. definedIn[j] # 0 => i <= PlaceOf(definedIn[j])
        BY <3>2, <4>1 DEF IInv, PlacesOrdered
      <4>4. i \in Nat /\ j \in Nat BY DEF Calls
      <4> QED BY <2>8, <3>2, <4>1, <4>2, <4>3, <4>4
    <3> QED BY <3>1, <3>2
  <2>10. Shape'
    <3>1. described' \in BOOLEAN
      BY DEF Describe
    <3> QED BY <1>1, <2>5, <2>6, <3>1 DEF IInv, Shape
  <2>11. PlacesKnown' /\ LastIsOpen' /\ PlacesOrdered'
    BY <1>1, <2>5 DEF IInv, PlacesKnown, LastIsOpen, PlacesOrdered, Openings, Once, PlaceOf
  <2>12. NotRewritten'
    BY <1>3 DEF Describe, NotRewritten, err
  <2> QED BY <2>9, <2>10, <2>11, <2>12 DEF IInv
<1> QED BY <1>2, <1>3

-----------------------------------------------------------------------------
LEMMA InitHolds == DescriptionInit => IInv
<1> SUFFICES ASSUME DescriptionInit PROVE IInv
  OBVIOUS
<1>1. calldefs = <<>> /\ openings = <<>> /\ definedIn = <<>> /\ groupid = NoGroup /\ described = FALSE
  BY DEF DescriptionInit
<1>2. Calls = {} /\ Openings = {}
  BY <1>1 DEF Calls, Openings
<1>3. Shape
  <2>1. calldefs \in Seq({}) /\ Len(calldefs) = 0 /\ definedIn \in Seq(Nat) /\ Len(definedIn) = 0
        /\ openings \in Seq(Nat)
    BY <1>1
  <2>2. \E S : calldefs \in Seq(S) BY <2>1
  <2>3. Len(calldefs) <= MaxNofCallDefs BY <2>1, LimitsAssumption
  <2>4. described \in BOOLEAN BY <1>1
  <2> QED BY <1>2, <2>1, <2>2, <2>3, <2>4 DEF Shape
<1>4. PlacesKnown /\ LastIsOpen /\ PlacesOrdered /\ NotRewritten /\ CallOrderDefined
  BY <1>1, <1>2 DEF PlacesKnown, LastIsOpen, PlacesOrdered, NotRewritten, CallOrderDefined
<1> QED BY <1>3, <1>4 DEF IInv

LEMMA NextKeeps == IInv /\ [DescriptionNext]_descriptionVars => IInv'
<1> SUFFICES ASSUME IInv, [DescriptionNext]_descriptionVars PROVE IInv'
  OBVIOUS
<1>1. ASSUME NEW scope, NEW kind, NEW self, NEW result, NEW nofargs,
             AddCall(scope, kind, self, result, nofargs)
      PROVE  IInv'
  BY <1>1, AddCallKeeps
<1>2. ASSUME NEW k, NEW arg, SetCallArg(k, arg) PROVE IInv'
  BY <1>2, SetCallArgKeeps
<1>3. ASSUME NEW scope, PrioritizeLastCall(scope) PROVE IInv'
  BY <1>3, NothingChanged DEF PrioritizeLastCall, groups, orderVars
<1>4. ASSUME NEW scope, NEW item, NEW nofmembers, AddStructure(scope, item, nofmembers) PROVE IInv'
  BY <1>4, NothingChanged DEF AddStructure, groups, orderVars
<1>5. ASSUME NEW k, NEW member, SetMember(k, member) PROVE IInv'
  BY <1>5, NothingChanged DEF SetMember, groups, orderVars
<1>6. ASSUME NEW scope, NEW select, NEW item, AddValueDef(scope, select, item) PROVE IInv'
  BY <1>6, NothingChanged DEF AddValueDef, groups, orderVars
<1>7. ASSUME NEW descr, AddResultDescription(descr) PROVE IInv'
  BY <1>7, NothingChanged DEF AddResultDescription, groups, orderVars
<1>8. ASSUME NEW g \in Nat, OpenGroup(g) PROVE IInv'
  BY <1>8, OpenGroupKeeps
<1>9. CASE CloseGroup
  BY <1>9, CloseGroupKeeps
<1>10. CASE Describe
  BY <1>10, DescribeKeeps
<1>11. CASE UNCHANGED descriptionVars
  BY <1>11, NothingChanged DEF descriptionVars, defs, groups, orderVars
<1> QED
  BY <1>1, <1>2, <1>3, <1>4, <1>5, <1>6, <1>7, <1>8, <1>9, <1>10, <1>11 DEF DescriptionNext

(* Whatever operations a client calls, in whatever order, before and after done:   *)
(* the calls and the groups that have different numbers are executed in the order *)
(* of their definition (openGroup, addCall, done of request.cpp).                  *)
THEOREM CallsInOrder == DescriptionSpec => []CallOrderDefined
<1>1. DescriptionInit => IInv BY InitHolds
<1>2. IInv /\ [DescriptionNext]_descriptionVars => IInv' BY NextKeeps
<1>3. IInv => CallOrderDefined BY DEF IInv
<1> QED BY <1>1, <1>2, <1>3, PTL DEF DescriptionSpec

-----------------------------------------------------------------------------
(* No group has a negative number: it would count as the place of the group.        *)
NumbersNotNegative == Do("openGroup") => Head(todo).number \in Nat

(* A step of the builder is an operation of the build API or changes nothing.       *)
LEMMA BuilderIsClient ==
  ASSUME NumbersNotNegative, [BuilderNext]_builderVars
  PROVE  [DescriptionNext]_descriptionVars
<1>1. CASE ExpandList \/ ExpandGroup \/ ExpandFunction \/ ExpandStruct \/ ExpandValue
  BY <1>1 DEF ExpandList, ExpandGroup, ExpandFunction, ExpandStruct, ExpandValue
<1>2. CASE BuildCall \/ BuildArg
  BY <1>2 DEF BuildCall, BuildArg, DescriptionNext
<1>3. CASE BuildStruct \/ BuildMember \/ BuildValue
  BY <1>3 DEF BuildStruct, BuildMember, BuildValue, DescriptionNext
<1>4. CASE BuildOpenGroup
  BY <1>4 DEF BuildOpenGroup, NumbersNotNegative, DescriptionNext
<1>5. CASE BuildCloseGroup \/ BuildResult \/ BuildDone \/ BuildPrioritize
  BY <1>5 DEF BuildCloseGroup, BuildResult, BuildDone, BuildPrioritize, DescriptionNext
<1>6. CASE DescribeElement \/ DescribeRelation \/ DescribeDependency \/ DescribeResolve \/ DescribeDone
  BY <1>6 DEF DescribeElement, DescribeRelation, DescribeDependency, DescribeResolve, DescribeDone,
              Describing
<1>7. CASE UNCHANGED builderVars
  BY <1>7 DEF builderVars
<1> QED BY <1>1, <1>2, <1>3, <1>4, <1>5, <1>6, <1>7 DEF BuilderNext

(* The same for automata built from a description in C++, however its nodes are    *)
(* nested (RequestAutomaton of requestAutomaton.cpp).                              *)
THEOREM BuiltInOrder == BuilderSpec /\ []NumbersNotNegative => []CallOrderDefined
<1>1. BuilderInit => IInv
  BY InitHolds DEF BuilderInit
<1>2. IInv /\ NumbersNotNegative /\ [BuilderNext]_builderVars => IInv'
  BY BuilderIsClient, NextKeeps
<1>3. IInv => CallOrderDefined BY DEF IInv
<1> QED BY <1>1, <1>2, <1>3, PTL DEF BuilderSpec
=============================================================================
