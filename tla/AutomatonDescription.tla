------------------------ MODULE AutomatonDescription ------------------------
(* The build API of a request automaton (AutomatonDescription of src/request.cpp): *)
(* calls, structures and values are added one after the other, arguments and      *)
(* members to the last one added; calls between openGroup and closeGroup share    *)
(* their place in the order of execution, which done works out.                   *)
(* An operation returns false and leaves an error that is never taken back.       *)
EXTENDS Expressions, Integers

CONSTANTS MaxNofCallDefs,   \* MaxNofCallDefs, 1<<15
          MaxNofArguments,  \* papuga_MAX_NOF_ARGUMENTS
          MaxNofResults     \* the results that ResRef_check lets through, 256
ASSUME LimitsAssumption ==
  MaxNofCallDefs \in Nat /\ MaxNofArguments \in Nat /\ MaxNofResults \in Nat

VARIABLES calldefs, structdefs, valuedefs, resultdefs,  \* m_calldefs, ...
          priorities,   \* the triggers of prioritizeLastCallInScope
          groupid,      \* m_groupid
          groupidmap,   \* m_groupidmap
          described,    \* m_done
          descerr,      \* m_errcode
          succeeded,    \* what the operation before returned
          openings,     \* history: the numbers of the groups opened
          definedIn     \* history: the opening a call was defined in, 0 if in none

defs == <<calldefs, structdefs, valuedefs, resultdefs, priorities>>
groups == <<groupid, groupidmap, openings>>
descriptionVars == <<defs, groups, described, descerr, succeeded, definedIn>>

NoGroup == -1
Unset == [type |-> "unset"]  \* an argument or a member not set yet

DescriptionInit ==
  /\ calldefs = <<>> /\ structdefs = <<>> /\ valuedefs = <<>> /\ resultdefs = <<>>
  /\ priorities = <<>>
  /\ groupid = NoGroup /\ groupidmap = [g \in {} |-> 0]
  /\ described = FALSE /\ descerr = "Ok" /\ succeeded = TRUE
  /\ openings = <<>> /\ definedIn = <<>>

-----------------------------------------------------------------------------
(* The checks of an operation in their order: the error of the first that fails    *)
Check(fails, error) == [fails |-> fails, error |-> error]
FirstError(checks) ==
  LET failed == {k \in DOMAIN checks : checks[k].fails}
  IN  IF failed = {} THEN "Ok" ELSE checks[CHOOSE k \in failed : \A j \in failed : k <= j].error
Outcome(err) ==
  /\ succeeded' = (err = "Ok")
  /\ descerr' = IF err = "Ok" THEN descerr ELSE err
Adding(seq, x, err) == seq' = IF err = "Ok" THEN Append(seq, x) ELSE seq

(* addCall: kind is that of the method, "assign" for none and "new" for a          *)
(* constructor.  An error left by an operation before lets it fail as well.        *)
CallErrors(kind, self, nofargs) ==
  <<Check(described, "ExecutionOrder"),
    Check(nofargs > MaxNofArguments, "NofArgsError"),
    Check(kind = "unknown", "AddressedItemNotFound"),
    Check(kind = "method" /\ self = NULL, "MissingSelf"),
    Check(Len(calldefs) >= MaxNofCallDefs, "ComplexityOfProblem"),
    Check(descerr # "Ok", descerr)>>
AddCall(scope, kind, self, result, nofargs) ==
  /\ LET err == FirstError(CallErrors(kind, self, nofargs))
         group == IF groupid = NoGroup THEN Len(calldefs) ELSE groupid
         args  == [k \in 1..nofargs |-> Unset]
     IN  /\ Adding(calldefs, [scope |-> PathOf(scope), self |-> self, result |-> result,
                              group |-> group, assign |-> kind = "assign", args |-> args], err)
         /\ Adding(definedIn, IF groupid = NoGroup THEN 0 ELSE Len(openings), err)
         /\ Outcome(err)
  /\ UNCHANGED <<structdefs, valuedefs, resultdefs, priorities, groups, described>>

(* setCallArg: an argument with a negative reach is set before it is refused.      *)
SetCallArg(k, arg) ==
  /\ LET n == Len(calldefs)
         known == n > 0 /\ k \in DOMAIN calldefs[n].args
         err == FirstError(<<Check(described \/ ~known, "InvalidAccess"),
                             Check(known /\ calldefs[n].args[k] # Unset, "DuplicateDefinition")>>)
     IN  /\ calldefs' = IF err = "Ok" THEN [calldefs EXCEPT ![n].args[k] = arg] ELSE calldefs
         /\ Outcome(IF err = "Ok" /\ arg.reach < 0 THEN "TypeError" ELSE err)
  /\ UNCHANGED <<structdefs, valuedefs, resultdefs, priorities, groups, described, definedIn>>

(* prioritizeLastCallInScope: also after done *)
PrioritizeLastCall(scope) ==
  /\ LET err == FirstError(<<Check(calldefs = <<>>, "ExecutionOrder")>>)
     IN  /\ Adding(priorities, [scope |-> PathOf(scope), call |-> Len(calldefs)], err)
         /\ Outcome(err)
  /\ UNCHANGED <<calldefs, structdefs, valuedefs, resultdefs, groups, described, definedIn>>

(* addStructure *)
AddStructure(scope, item, nofmembers) ==
  /\ LET err == FirstError(<<Check(described, "ExecutionOrder")>>)
     IN  /\ Adding(structdefs, [item |-> item, scope |-> PathOf(scope),
                                members |-> [k \in 1..nofmembers |-> Unset]], err)
         /\ Outcome(err)
  /\ UNCHANGED <<calldefs, valuedefs, resultdefs, priorities, groups, described, definedIn>>

(* setMemberItem, setMemberVar: the reach of a member may be unlimited (-1); only  *)
(* an item set before is noticed.                                                 *)
SetMember(k, member) ==
  /\ LET n == Len(structdefs)
         known == n > 0 /\ k \in DOMAIN structdefs[n].members
         isItem(m) == m # Unset /\ m.item # NULL
         err == FirstError(<<Check(described, "ExecutionOrder"),
                             Check(~known, "InvalidAccess"),
                             Check(member.reach < -1, "TypeError"),
                             Check(known /\ isItem(structdefs[n].members[k]), "DuplicateDefinition")>>)
     IN  /\ structdefs' = IF err = "Ok" THEN [structdefs EXCEPT ![n].members[k] = member] ELSE structdefs
         /\ Outcome(err)
  /\ UNCHANGED <<calldefs, valuedefs, resultdefs, priorities, groups, described, definedIn>>

(* addValue: an attribute as scope is also what is selected.                       *)
ValueDef(item, scope, select) ==
  IF scope.leaf = "attribute"
  THEN [item |-> item, scope |-> PathOf(scope), select |-> PathOf(scope), on |-> "scope"]
  ELSE [item |-> item, scope |-> PathOf(scope), select |-> PathOf(Join(scope, select)), on |-> select.leaf]
AddValueDef(scope, select, item) ==
  /\ LET err == FirstError(<<Check(described, "ExecutionOrder"),
                             Check(scope.leaf = "attribute" /\ select # NoPath, "SyntaxError"),
                             Check(select.rooted, "SyntaxError")>>)
     IN  Adding(valuedefs, ValueDef(item, scope, select), err) /\ Outcome(err)
  /\ UNCHANGED <<calldefs, structdefs, resultdefs, priorities, groups, described, definedIn>>

(* addResultDescription: also after done *)
AddResultDescription(descr) ==
  /\ LET err == FirstError(<<Check(Len(resultdefs) >= MaxNofResults, "BufferOverflowError")>>)
     IN  Adding(resultdefs, descr, err) /\ Outcome(err)
  /\ UNCHANGED <<calldefs, structdefs, valuedefs, priorities, groups, described, definedIn>>

-----------------------------------------------------------------------------
(* A group has a number beyond those of the calls until done.  Opened again it     *)
(* gets the place of the opening last.                                            *)
VirtualGroupIdNotShifted(g) == g  \* mutant: the number of the group as it is
VirtualGroupId(g) == g + MaxNofCallDefs + 1
IsVirtualGroupId(g) == g >= MaxNofCallDefs + 1
OpenGroup(g) ==
  /\ LET err == FirstError(<<Check(groupid >= 0, "LogicError")>>)
         place == [h \in {VirtualGroupId(g)} |-> Len(calldefs)]
     IN  /\ Outcome(err)
         /\ Adding(openings, g, err)
         /\ IF err # "Ok" THEN UNCHANGED <<groupid, groupidmap>>
            ELSE /\ groupid' = VirtualGroupId(g)
                 /\ groupidmap' = [h \in DOMAIN groupidmap \cup DOMAIN place |->
                                     IF h \in DOMAIN place THEN place[h] ELSE groupidmap[h]]
  /\ UNCHANGED <<defs, described, definedIn>>
CloseGroup ==
  /\ LET err == FirstError(<<Check(groupid < 0, "LogicError")>>)
     IN  /\ Outcome(err)
         /\ groupid' = IF err = "Ok" THEN NoGroup ELSE groupid
  /\ UNCHANGED <<defs, groupidmap, openings, described, definedIn>>

(* done *)
RewrittenGroup(g) == IF IsVirtualGroupId(g) THEN groupidmap[g] ELSE g
Describe ==
  LET unknown(g) == IsVirtualGroupId(g) /\ g \notin DOMAIN groupidmap
      err == FirstError(<<Check(described, "LogicError"),
                          Check(\E i \in DOMAIN calldefs : unknown(calldefs[i].group), "LogicError")>>)
  IN  /\ Outcome(err)
      /\ described' = (described \/ err = "Ok")
      /\ calldefs' = IF err # "Ok" THEN calldefs
                     ELSE [i \in DOMAIN calldefs |->
                             [calldefs[i] EXCEPT !.group = RewrittenGroup(@)]]
  /\ UNCHANGED <<structdefs, valuedefs, resultdefs, priorities, groups, definedIn>>

-----------------------------------------------------------------------------
(* Calls of one group have the same place; calls without a group are in the order  *)
(* of their definition (papuga_RequestAutomaton_open_group in request.h), and so   *)
(* are they and the groups, as long as no number of a group is opened twice.       *)
OpenedOnce(i) == \A n \in DOMAIN openings :
  definedIn[i] # 0 /\ n # definedIn[i] => openings[n] # openings[definedIn[i]]
CallOrderDefined ==
  described => \A i, j \in DOMAIN calldefs : i < j =>
    IF definedIn[i] # 0 /\ definedIn[i] = definedIn[j]
    THEN calldefs[i].group = calldefs[j].group
    ELSE OpenedOnce(i) /\ OpenedOnce(j) => calldefs[i].group < calldefs[j].group
=============================================================================
