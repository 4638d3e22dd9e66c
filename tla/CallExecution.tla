---------------------------- MODULE CallExecution ----------------------------
(* The calls of a request executed one after the other                            *)
(* (papuga_RequestContext_execute_request of src/requestHandler.cpp), their results *)
(* assigned to variables or put into the templates of results that the document has *)
(* built (src/requestResult_utils.hpp).  What the arguments are resolved to is left *)
(* open here, see RequestExecution.  The result of a call is represented by the   *)
(* number of the call.                                                            *)
EXTENDS CallSequence

(* A result of an automaton is a sequence of nodes with a kind, the element that   *)
(* selects it and a tag (NULL if none); a reference has a type and an item or a    *)
(* variable; contentvars tells if variables are attached.                          *)
VARIABLES templates, \* m_results: result |-> items: node, scope, level and value, <<>> if undefined
          varmap,    \* variables of the context: NULL, or kind of the value and call it is from
          returned,  \* history: the calls executed and what they gave
          status,    \* "feeding", "running", "ok" or "failed"
          error,     \* errstruct->errcode
          results    \* what get_result_array returns: index of the template and content

executionVars == <<templates, varmap, returned, status, error, results>>
allVars == <<vars, executionVars>>

NodesOf(t) == atm.results[t].nodes
ASSUME ResultsAssumption == \A a \in Automata :
  /\ a.results \in Seq(ToSet(a.results))
  /\ \A t \in DOMAIN a.results : LET nodes == a.results[t].nodes IN
       /\ nodes \in Seq(ToSet(nodes))
       /\ \A j \in DOMAIN nodes : nodes[j].kind = "result" => nodes[j].var # NULL
ASSUME NullAssumption == NULL \notin [kind : {"object", "value", "undefined"}, by : Nat]

Names == {atm.calls[i].self : i \in DOMAIN atm.calls} \cup {atm.calls[i].result : i \in DOMAIN atm.calls}
         \cup Referenced
Existing(vm) == {v \in DOMAIN vm : vm[v] # NULL}

(* papuga_Request_is_result_variable *)
IsResultVariable(v) ==
  \E t \in DOMAIN atm.results : \E j \in DOMAIN NodesOf(t) :
    NodesOf(t)[j].kind = "result" /\ NodesOf(t)[j].var = v

-----------------------------------------------------------------------------
(* ResultInstruction: the nodes of some kinds selected by an element are added to  *)
(* their templates.  addResultDescription gives their triggers an order, what is   *)
(* closed last; textwolf and the event stack are taken to keep it.                 *)
Instructed(ts, kinds, p, scope, level) ==
  [t \in DOMAIN ts |->
     LET fired == Ordered({j \in DOMAIN NodesOf(t) : /\ NodesOf(t)[j].kind \in kinds
                                                     /\ Selects(NodesOf(t)[j].select, p)})
     IN  ts[t] \o [k \in DOMAIN fired |-> [node |-> fired[k], from |-> scope.from, to |-> scope.to,
                                          level |-> level, value |-> <<>>]]]
Opened(ts, p, scope, level) == Instructed(ts, {"open", "openArray", "constant"}, p, scope, level)
Closed(ts, p, scope, level) ==
  Instructed(Instructed(ts, {"input", "result"}, p, scope, level), {"close", "closeArray"}, p, scope, level)

FeedOpenTag(t) ==
  /\ OpenTag(t)
  /\ templates' = Opened(templates, path', [from |-> scopecnt', to |-> scopecnt'], Len(scopestack'))
  /\ UNCHANGED <<iteratorVars, varmap, returned, status, error, results>>

FeedCloseTag ==
  /\ CloseTag
  /\ templates' = IF errcode' = "Ok" THEN Closed(templates, path, Curscope, Taglevel) ELSE templates
  /\ UNCHANGED <<iteratorVars, varmap, returned, status, error, results>>

-----------------------------------------------------------------------------
(* RequestResultTemplate::pushResult: into the references to a variable in whose   *)
(* scope the call is, until one refuses it.                                        *)
Many == {"array", "arrayNonEmpty"}
RefusesInherited(item, type) == type = "inherited"  \* mutant: a second result replaces the first
Refuses(item, type) == type = "inherited" \/ (type \notin Many /\ item.value # <<>>)
PutResult(item, type, value) ==
  [item EXCEPT !.value = IF type \in Many THEN Append(@, value) ELSE IF value = Void THEN <<>> ELSE <<value>>]

Takes(nodes, item, var) == nodes[item.node].kind = "result" /\ nodes[item.node].var = var
PushResult(items, nodes, var, scope, value) ==
  LET type(k) == nodes[items[k].node].type
      refs == {k \in DOMAIN items : Takes(nodes, items[k], var) /\ Inside(scope, items[k])}
      refusing == {k \in refs : Refuses(items[k], type(k))}
      filled == {k \in refs : \A j \in refusing : k < j}
  IN  [items |-> [k \in DOMAIN items |-> IF k \in filled THEN PutResult(items[k], type(k), value) ELSE items[k]],
       err |-> IF refusing = {} THEN "Ok"
               ELSE IF type(Min(refusing)) = "inherited" THEN "NotImplemented" ELSE "AmbiguousReference"]

(* pushCallResult; the scope is that of the last of the nodes of the call.  What   *)
(* it returns is not looked at, its error is kept until the end.                   *)
ResultScopeOfFirst(nodes) == callorder[1]  \* mutant: the scope of the first call
ResultScope(nodes) == Last(nodes)
PushCallResult(err, def, nodes, value) ==
  LET pushed(t) == PushResult(templates[t], NodesOf(t), def.result, ResultScope(nodes), value)
      refusing == {t \in DOMAIN templates : pushed(t).err # "Ok"}
  IN  IF def.result = NULL THEN [templates |-> templates, err |-> "ValueUndefined"]
      ELSE [templates |-> [t \in DOMAIN templates |-> pushed(t).items],
            err |-> IF refusing = {} THEN err ELSE pushed(Max(refusing)).err]

-----------------------------------------------------------------------------
(* Start of the execution; variables inherited may be objects.                     *)
Start ==
  /\ status = "feeding" /\ CreateIterator
  /\ \E inherited \in SUBSET ({atm.calls[i].self : i \in DOMAIN atm.calls} \ {NULL}) :
       varmap' = [v \in Names \ {NULL} |-> IF v \in inherited THEN [kind |-> "object", by |-> 0] ELSE NULL]
  /\ status' = "running"
  /\ UNCHANGED <<templates, returned, error, results>>

Number == Len(returned) + 1
NewValue(kind) == [kind |-> kind, by |-> Number]
Created(vm, v, kind) == [vm EXCEPT ![v] = NewValue(kind)]
Returning(nodes, def, kind) ==
  returned' = Append(returned, [nodes |-> nodes, var |-> def.result, kind |-> kind])

(* Every case ends in one of these three.                                          *)
Breaks(nodes, r, err, vm) ==
  /\ Issue(nodes, Existing(varmap), r, r.err)
  /\ error' = err
  /\ varmap' = vm
  /\ UNCHANGED <<templates, returned>>
Assigns(nodes, def, r, vm, kind) ==
  /\ Issue(nodes, Existing(varmap), r, r.err)
  /\ varmap' = vm
  /\ Returning(nodes, def, kind)
  /\ UNCHANGED <<templates, error>>
Pushes(nodes, def, r, kind) ==
  \E pushed \in {PushCallResult(r.err, def, nodes, IF kind = "undefined" THEN Void ELSE Number)} :
    /\ Issue(nodes, Existing(varmap), r, pushed.err)
    /\ templates' = pushed.templates
    /\ Returning(nodes, def, kind)
    /\ UNCHANGED <<varmap, error>>

(* [A] An assignment.  The copy of the value does not move an object.              *)
AssignedKind(nodes, def, r) ==
  IF Len(nodes) > 1 THEN "value"
  ELSE IF def.args[1].item = NULL /\ def.args[1].var \in Existing(varmap) THEN varmap[def.args[1].var].kind
  ELSE IF r.args[1] = <<Void>> THEN "undefined" ELSE "value"
PerformAssignment(nodes, def, r) ==
  IF IsResultVariable(def.result) THEN Pushes(nodes, def, r, AssignedKind(nodes, def, r))
  ELSE Assigns(nodes, def, r, Created(varmap, def.result, AssignedKind(nodes, def, r)),
               AssignedKind(nodes, def, r))

(* [B] A constructor call: the variable is created before, undefined.              *)
PerformConstructor(nodes, def, r, outcome) ==
  IF def.result # NULL /\ IsResultVariable(def.result)
  THEN Breaks(nodes, r, "MixedConstruction", varmap)
  ELSE LET made(kind) == IF def.result = NULL THEN varmap ELSE Created(varmap, def.result, kind)
       IN  IF outcome = "fails" THEN Breaks(nodes, r, "HostObjectError", made("undefined"))
           ELSE Assigns(nodes, def, r, made("object"), "object")

(* [C] A method call: the variable for the result is created before the object is  *)
(* looked up.                                                                      *)
PerformMethod(nodes, def, r, outcome) ==
  LET own == def.result # NULL /\ ~IsResultVariable(def.result)
      vm  == IF own THEN Created(varmap, def.result, "undefined") ELSE varmap
  IN  IF vm[def.self] = NULL THEN Breaks(nodes, r, "MissingSelf", vm)
      ELSE IF vm[def.self].kind # "object" THEN Breaks(nodes, r, "TypeError", vm)
      ELSE IF outcome = "fails" THEN Breaks(nodes, r, "HostObjectError", vm)
      ELSE IF own THEN Assigns(nodes, def, r, Created(varmap, def.result, outcome), outcome)
      ELSE IF outcome = "undefined" THEN Assigns(nodes, def, r, varmap, outcome)
      ELSE Pushes(nodes, def, r, outcome)

(* One turn of the loop.  The outcome of a call is up to the host.                 *)
Perform(nodes, def, r) ==
  IF ~r.ok THEN Breaks(nodes, r, error, varmap)
  ELSE IF def.assign THEN PerformAssignment(nodes, def, r)
  ELSE IF def.self = NULL THEN \E outcome \in {"fails", "object"} : PerformConstructor(nodes, def, r, outcome)
  ELSE \E outcome \in {"fails", "undefined", "value", "object"} : PerformMethod(nodes, def, r, outcome)
Turn == status = "running" /\ error = "Ok" /\ CallLeft
ExecuteWith(r) ==
  /\ Turn
  /\ Perform(NextNodes, atm.calls[NextNodes[1].call], r)
  /\ UNCHANGED <<contextVars, status, results>>

(* The end: an error, or the results of the templates, r                           *)
FinishFailed ==
  /\ status = "running" /\ (error # "Ok" \/ (~CallLeft /\ itererr # "Ok"))
  /\ status' = "failed" /\ error' = IF error # "Ok" THEN error ELSE itererr
  /\ UNCHANGED <<vars, templates, varmap, returned, results>>
Finished == status = "running" /\ error = "Ok" /\ ~CallLeft /\ itererr = "Ok"
FinishWith(r) ==
  /\ Finished
  /\ resolvers' = r.at /\ itererr' = r.err /\ error' = r.err
  /\ status' = IF r.ok THEN "ok" ELSE "failed"
  /\ results' = IF r.ok THEN r.results ELSE <<>>
  /\ UNCHANGED <<contextVars, methodidx, issued, templates, varmap, returned>>

-----------------------------------------------------------------------------
ExecutionInit ==
  /\ Init /\ IteratorInit
  /\ templates = [t \in DOMAIN atm.results |-> <<>>]
  /\ varmap = NULL /\ returned = <<>>
  /\ status = "feeding" /\ error = "Ok" /\ results = <<>>

(* The calls executed whatever their arguments are resolved to, except that an     *)
(* error of the iterator is never lost (IteratorErrorStays)                        *)
IteratorErrors == {"Ok", "ValueUndefined", "AmbiguousReference", "InvalidAccess", "NotImplemented"}
Resolution(r) == /\ r.ok \in BOOLEAN /\ r.err \in IteratorErrors
                 /\ itererr # "Ok" => r.err # "Ok"
CallsNext ==
  \/ \E t \in Tag : FeedOpenTag(t)
  \/ FeedCloseTag
  \/ (AttributeName \/ AttributeValue \/ Content \/ Done) /\ UNCHANGED <<iteratorVars, executionVars>>
  \/ Start
  \/ \E r : Resolution(r) /\ ExecuteWith(r)
  \/ FinishFailed
  \/ \E r : Resolution(r) /\ FinishWith(r)
CallsSpec == ExecutionInit /\ [][CallsNext]_allVars

-----------------------------------------------------------------------------
(* Every call returned is kept with the number it has.                             *)
ResultItems ==
  {tk \in UNION {{t} \X DOMAIN templates[t] : t \in DOMAIN templates} :
     NodesOf(tk[1])[templates[tk[1]][tk[2]].node].kind = "result"}
Numbers(item, var, defined) ==
  {n \in DOMAIN returned : /\ returned[n].var = var
                           /\ defined => returned[n].kind # "undefined"
                           /\ \A x \in ToSet(returned[n].nodes) : Inside(x, item)}
Strange(item, var) ==
  {n \in DOMAIN returned : \/ returned[n].var # var
                           \/ \A x \in ToSet(returned[n].nodes) : ~Inside(x, item)}

(* As long as there is no error, a reference in a template has the results of the  *)
(* calls that lie in the scope it was found in, of no call elsewhere, and in the   *)
(* order of the calls (pushResult, with the scope from pushCallResult). A call    *)
(* that stands for assignments of several elements counts with the scope of the    *)
(* last of them: if only some of them lie in the scope of the reference, it may    *)
(* have the result or not.                                                         *)
ResultsInScope ==
  error = "Ok" /\ itererr = "Ok" => \A tk \in ResultItems :
    LET item == templates[tk[1]][tk[2]]
        node == NodesOf(tk[1])[item.node]
        values == ToSet(item.value) \ {Void}
    IN  /\ Numbers(item, node.var, TRUE) \subseteq values
        /\ values \cap Strange(item, node.var) = {}
        /\ \A i, j \in DOMAIN item.value : i < j /\ item.value[j] # Void => item.value[i] < item.value[j]

(* A request in which a single reference has two results is not reported as        *)
(* successful, though the return value of push_call_result is dropped and calls    *)
(* follow (execute_request).                                                       *)
AmbiguityReported ==
  status = "ok" => \A tk \in ResultItems :
    LET item == templates[tk[1]][tk[2]]
        node == NodesOf(tk[1])[item.node]
    IN  node.type \in {"required", "optional"} => Cardinality(Numbers(item, node.var, TRUE)) <= 1

(* An error met in resolving or in pushing a result is kept by the iterator and not *)
(* lost by resolving the arguments of calls that follow (pushCallResult, nextCall). *)
IteratorErrorStays ==
  [][itererr' \in IteratorErrors /\ (itererr # "Ok" => itererr' # "Ok")]_allVars

(* A method does not miss its object if the document has a call of an earlier      *)
(* group that makes it, wherever in the document that is (done, openGroup), as     *)
(* long as the method itself does not replace it.                                  *)
ObjectMadeBefore ==
  error = "MissingSelf" =>
    LET x == issued.calls[1] IN
    \A y \in methodcalls :
      y.group < x.group => atm.calls[y.call].result # atm.calls[x.call].self

-----------------------------------------------------------------------------
(* No object that a method is called of is named like a result: results are not   *)
(* put into variables.                                                            *)
SelvesApart(a) ==
  \A i \in DOMAIN a.calls, t \in DOMAIN a.results : \A j \in DOMAIN a.results[t].nodes :
    LET node == a.results[t].nodes[j] IN
    node.kind = "result" /\ a.calls[i].self # NULL => node.var # a.calls[i].self

(* What makes them inductive.                                                     *)
Kinds == {"object", "value", "undefined"}
ItemOf(t) == [node : DOMAIN NodesOf(t), from : Nat, to : Nat, level : Nat, value : Seq(Nat)]
ExecutionTypeOK ==
  /\ DOMAIN templates = DOMAIN atm.results /\ \A t \in DOMAIN templates : templates[t] \in Seq(ItemOf(t))
  /\ returned \in Seq(ToSet(returned)) /\ methodidx \in Nat
  /\ status # "feeding" => varmap \in [Names \ {NULL} -> [kind : Kinds, by : Nat] \cup {NULL}]

(* Calls are executed when the document is done, and templates grow before.        *)
Phases ==
  /\ status = "feeding" => returned = <<>> /\ error = "Ok" /\ itererr = "Ok"
  /\ status # "feeding" => done /\ methodidx \in 1..(Len(callorder) + 1)

(* A call behind has made the variable of its result, if that is one.              *)
VariablesMade ==
  status # "feeding" => \A i \in 1..(methodidx - 1) :
    LET v == atm.calls[callorder[i].call].result
    IN  v = NULL \/ IsResultVariable(v) \/ varmap[v] # NULL

(* A reference holds the calls it should, each a call before the call on its right. *)
Holds(item, node) ==
  node.kind = "result" =>
    /\ Numbers(item, node.var, TRUE) \subseteq ToSet(item.value)
    /\ \A i \in DOMAIN item.value : LET n == item.value[i] IN n # Void =>
         n \in DOMAIN returned /\ returned[n].var = node.var /\ \E x \in ToSet(returned[n].nodes) : Inside(x, item)
    /\ \A i, j \in DOMAIN item.value : i < j /\ item.value[j] # Void => item.value[i] < item.value[j]
    /\ node.type \notin Many => Len(item.value) <= 1
ValuesHeld ==
  (error = "Ok" /\ itererr = "Ok") \/ status = "ok" =>
    \A t \in DOMAIN templates : \A k \in DOMAIN templates[t] :
      Holds(templates[t][k], NodesOf(t)[templates[t][k].node])

ExecutionIInv == ExecutionTypeOK /\ Phases /\ VariablesMade /\ ValuesHeld
=============================================================================
