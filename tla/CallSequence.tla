---------------------------- MODULE CallSequence -----------------------------
(* The calls of a request in the order of their execution (nextCall of            *)
(* RequestIterator, src/request.cpp), without how an argument is resolved: that is *)
(* in RequestIterator.                                                            *)
EXTENDS AutomatonContext

VARIABLES resolvers,  \* m_resolvers: item -> position in the objects, one beyond for end()
          methodidx,  \* m_curr_methodidx
          issued,     \* the call issued last: the call nodes it stands for and its arguments
          itererr     \* m_errstruct.errcode

iteratorVars == <<resolvers, methodidx, issued, itererr>>
vars == <<contextVars, iteratorVars>>

Void == 0
Open == -1
Close == -2
Variable == -3

-----------------------------------------------------------------------------
IteratorInit == /\ resolvers = NULL /\ methodidx = 0
                /\ issued = [calls |-> <<>>, args |-> <<>>, have |-> {}, ok |-> TRUE]
                /\ itererr = "Ok"

EndOf(item) == Len(Objects(item)) + 1
(* papuga_create_RequestIterator *)
CreateIterator ==
  /\ done /\ resolvers = NULL
  /\ resolvers' = [item \in atm.items |-> EndOf(item)]
  /\ methodidx' = 1
  /\ UNCHANGED <<contextVars, issued, itererr>>

(* The calls nextCall takes at once: the assignments to a variable that follow    *)
(* each other in a group, or one call.                                            *)
Together(k) ==
  LET same(i, j) == /\ atm.calls[callorder[i].call].assign /\ atm.calls[callorder[j].call].assign
                    /\ callorder[i].group = callorder[j].group
                    /\ atm.calls[callorder[i].call].result = atm.calls[callorder[j].call].result
      last == Max({j \in k..Len(callorder) : \A i \in (k + 1)..j : same(k, i)})
  IN  SubSeq(callorder, k, last)

(* nextCall drops optional arguments at the end that are undefined.               *)
WithoutDefaults(args, defs) ==
  SubSeq(args, 1, Max({0} \cup {k \in DOMAIN args : args[k] # <<Void>> \/ defs[k].type # "optional"}))

(* What the arguments of a call, or of assignments together, refer to             *)
ReferencesOf(nodes) ==
  LET def == atm.calls[nodes[1].call]
  IN  IF def.assign
      THEN [k \in DOMAIN nodes |-> [node |-> nodes[k], arg |-> atm.calls[nodes[k].call].args[1]]]
      ELSE [k \in DOMAIN def.args |-> [node |-> nodes[1], arg |-> def.args[k]]]

(* nextCall: r is the arguments resolved, err the error the iterator is left with *)
CallLeft == resolvers # NULL /\ issued.ok /\ methodidx <= Len(callorder)
NextNodes == Together(methodidx)
Issue(nodes, have, r, err) ==
  LET def == atm.calls[nodes[1].call]
  IN  /\ resolvers' = r.at
      /\ itererr' = err
      /\ methodidx' = methodidx + IF r.ok THEN Len(nodes) ELSE 0
      /\ issued' = [calls |-> nodes, have |-> have, ok |-> r.ok,
                    args |-> IF def.assign THEN r.args ELSE WithoutDefaults(r.args, def.args)]

(* The variables referenced; which of them exist is up to the calls before.       *)
VariablesIn(refs) == {refs[k].var : k \in {j \in DOMAIN refs : refs[j].item = NULL}}
Referenced == UNION ({VariablesIn(atm.calls[i].args) : i \in DOMAIN atm.calls}
                     \cup {VariablesIn(atm.structs[i].members) : i \in DOMAIN atm.structs})
=============================================================================
