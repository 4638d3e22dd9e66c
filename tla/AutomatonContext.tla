-------------------------- MODULE AutomatonContext --------------------------
(* A request document fed to a request automaton (AutomatonDescription and        *)
(* AutomatonContext of src/request.cpp).  Every feed call counts up the scope     *)
(* counter and fires the triggers of the automaton; what they find is kept with   *)
(* the scope it was found in, the method calls for an order of their own.  A value *)
(* is represented by the count of the event that brought it.                      *)
EXTENDS Expressions, Integers, FiniteSets, FiniteSetsExt, TLC

CONSTANTS Automata,  \* the automata considered
          Tag,       \* names of elements
          MaxEvents, \* bound on the events of a document
          MaxDepth   \* bound on the depth of a document

(* The definitions of an automaton by kind:                                       *)
(*   values      item, its scope, its selector, and if these are attributes       *)
(*   structs     item, scope, members                                             *)
(*   calls       scope, self variable, result variable, group (the place in the   *)
(*               order of execution), arguments, and if it is an assignment       *)
(*   priorities  scope, the call prioritized in it                                *)
(*   results     templates of results, see RequestExecution                       *)
(* A member or an argument has an item, a resolve type and a maximum difference   *)
(* of tag levels (reach), or a variable.                                          *)
ASSUME AutomataAssumption == \A a \in Automata :
  /\ DOMAIN a = {"items", "values", "structs", "calls", "priorities", "results", "strict"}
  /\ \A defs \in {"values", "structs", "calls", "priorities"} : a[defs] \in Seq(ToSet(a[defs]))
  /\ \A i \in DOMAIN a.values : LET tags == a.values[i].scope.tags IN
       a.values[i].item \in a.items /\ tags \in Seq(ToSet(tags))
  /\ \A i \in DOMAIN a.calls : a.calls[i].group \in Int
  /\ \A i \in DOMAIN a.priorities : a.priorities[i].call \in DOMAIN a.calls
ASSUME BoundsAssumption == MaxEvents \in Nat /\ MaxDepth \in Nat

VARIABLES atm,          \* the automaton
          path,         \* the open elements, outermost first
          fed,          \* the event before, on which depends what the parser feeds next
          scopecnt,     \* m_scopecnt
          scopestack,   \* m_scopestack
          rootelements, \* m_rootelements
          valuenodes,   \* m_valuenodes: item, the event, and the definition that took it
          scopeobjmap,  \* m_scopeobjmap: item -> objects, see ObjectOf
          methodcalls,  \* m_methodcalls
          callorder,    \* m_methodcalls in the order of execution, when done
          closed,       \* history: the elements closed, with their scopes
          done,         \* m_done
          errcode       \* m_errcode

foundVars == <<valuenodes, scopeobjmap, methodcalls>>
contextVars == <<atm, path, fed, scopecnt, scopestack, rootelements, foundVars, callorder,
                 closed, done, errcode>>

(* The elements of a set of numbers in order *)
Ordered(S) ==
  [k \in 1..Cardinality(S) |-> CHOOSE i \in S : Cardinality({j \in S : j < i}) = k - 1]

(* extractRootTagName, isValidRootTagSet *)
AcceptedRootTags(a) ==
  LET scopes(defs) == {defs[i].scope : i \in DOMAIN defs}
      exprs == scopes(a.values) \cup scopes(a.structs) \cup scopes(a.calls) \cup scopes(a.priorities)
               \cup UNION {{n.select : n \in ToSet(a.results[t].nodes)} : t \in DOMAIN a.results}
  IN  {e.tags[1] : e \in {x \in exprs : x.rooted /\ x.tags # <<>>}}
IsValidRootTagSet(a, roots) ==
  a.strict => /\ roots = {} => AcceptedRootTags(a) = {}
              /\ roots \subseteq AcceptedRootTags(a)

-----------------------------------------------------------------------------
(* m_scopeobjmap: a multimap by scope key.  An outer scope comes before the scopes *)
(* in it, a value before a structure of the same scope.  A reference to an object  *)
(* stands for what it refers to (of): a value for the event that brought it, 0 if  *)
(* it is undefined, a structure for its definition.                               *)
ObjectOf(kind, scope, level, of) ==
  [from |-> scope.from, to |-> scope.to, kind |-> kind, level |-> level, of |-> of]
KeyLess(x, y) == \/ x.from < y.from
                 \/ x.from = y.from /\ x.to > y.to
                 \/ x.from = y.from /\ x.to = y.to /\ x.kind = "value" /\ y.kind = "struct"
NoObjects(a) == [item \in a.items |-> <<>>]
Objects(item) == scopeobjmap[item]

(* insertObjectRef, of objects with the same key: behind all that are not greater  *)
Inserted(objs, new) ==
  LET place == Cardinality({i \in DOMAIN objs : \A k \in DOMAIN new : ~KeyLess(new[k], objs[i])})
  IN  SubSeq(objs, 1, place) \o new \o SubSeq(objs, place + 1, Len(objs))

(* processEvent, by the kind of the trigger, for all triggers of that kind.        *)
(* InstantiateValue: *)
Instantiated(fired) ==
  valuenodes \cup {[item |-> atm.values[i].item, at |-> scopecnt', def |-> i] : i \in fired}

(* CollectValue takes the values of the item instantiated so far, or an undefined  *)
(* one if there are none; more than one is an error.  So of the triggers for one   *)
(* item the first takes the value and the others find none.                        *)
Pending(nodes, item) == {n \in nodes : n.item = item}
CollectFails(nodes, fired) == \E i \in fired : Cardinality(Pending(nodes, atm.values[i].item)) > 1
CollectedIfAny(nodes, item, times) ==  \* mutant: no object for a value that is missing
  IF Pending(nodes, item) = {} THEN <<>>
  ELSE [k \in 1..times |-> IF k = 1 THEN (CHOOSE n \in Pending(nodes, item) : TRUE).at ELSE 0]
Collected(nodes, item, times) ==
  [k \in 1..times |-> IF k > 1 \/ Pending(nodes, item) = {} THEN 0
                      ELSE (CHOOSE n \in Pending(nodes, item) : TRUE).at]
CollectObjects(nodes, fired, item, scope, level) ==
  LET values == Collected(nodes, item, Cardinality({i \in fired : atm.values[i].item = item}))
  IN  [k \in DOMAIN values |-> ObjectOf("value", scope, level, values[k])]
LeftPending(nodes, fired) == {n \in nodes : \A i \in fired : n.item # atm.values[i].item}

(* CloseStruct *)
StructObjects(fired, item, scope, level) ==
  LET structs == SetToSeq({i \in fired : atm.structs[i].item = item})
  IN  [k \in DOMAIN structs |-> ObjectOf("struct", scope, level, structs[k])]

(* MethodCall *)
MethodCalls(fired, scope, level) ==
  {[call |-> i, group |-> atm.calls[i].group, from |-> scope.from, to |-> scope.to, level |-> level] :
     i \in fired}

(* MethodCallPrioritize: if the call occurred in the scope, drop the others there  *)
(* with the same result.  Both loops go back from the call closed last to the first *)
(* that started before the scope.  (That the assignments left get the group of     *)
(* their definition changes nothing: they have it.)                                *)
Inside(x, scope) == x.from >= scope.from /\ x.to <= scope.to
ReachedBackNotFirst(calls, scope) ==  \* mutant: the loop ends before the first call
  {x \in calls : /\ \A y \in calls : y.to >= x.to => y.from >= scope.from
                 /\ \E y \in calls : y.to < x.to}
ReachedBack(calls, scope) ==
  {x \in calls : \A y \in calls : y.to >= x.to => y.from >= scope.from}
SuppressedOverall(calls, i, scope) ==  \* mutant: the scope is not compared
  IF \E x \in calls : x.call = i
  THEN {x \in calls : x.call # i /\ atm.calls[x.call].result = atm.calls[i].result}
  ELSE {}
Suppressed(calls, i, scope) ==
  LET here == {x \in ReachedBack(calls, scope) : Inside(x, scope)}
  IN  IF \E x \in here : x.call = i
      THEN {x \in here : x.call # i /\ atm.calls[x.call].result = atm.calls[i].result}
      ELSE {}
(* The triggers of a kind come one after the other, in what order is up to textwolf. *)
Prioritized(calls, order, scope) ==
  LET left[k \in 0..Len(order)] ==
        IF k = 0 THEN calls
        ELSE left[k - 1] \ Suppressed(left[k - 1], atm.priorities[order[k]].call, scope)
  IN  left[Len(order)]

(* processEvents at the end of an element or of an attribute value: the stacks of  *)
(* events give an order by kind.                                                   *)
Fired(defs, p) == {i \in DOMAIN defs : Selects(defs[i].scope, p)}
FiredBy(defs, on, p) == {i \in DOMAIN defs : defs[i].on \in on /\ Selects(defs[i].select, p)}

-----------------------------------------------------------------------------
(* AutomatonContext::AutomatonContext *)
NothingFed ==
  /\ valuenodes = {} /\ methodcalls = {} /\ callorder = <<>>
  /\ path = <<>> /\ fed = "begin"
  /\ scopecnt = 0 /\ scopestack = <<0>>
  /\ rootelements = {}
  /\ closed = {}
  /\ done = FALSE /\ errcode = "Ok"
Init == atm \in Automata /\ scopeobjmap = NoObjects(atm) /\ NothingFed

Feeding == ~done /\ errcode = "Ok" /\ scopecnt < MaxEvents /\ scopestack # <<>>
Curscope == [from |-> Last(scopestack), to |-> scopecnt']
Taglevel == Len(scopestack)

(* processOpenTag *)
OpenTagFromBefore(t) ==  \* mutant: the scope starts at the event before
  /\ Feeding /\ Len(path) < MaxDepth /\ fed # "attribute name"
  /\ scopecnt' = scopecnt + 1
  /\ rootelements' = IF Len(scopestack) <= 1 THEN rootelements \cup {t} ELSE rootelements
  /\ scopestack' = Append(scopestack, scopecnt)
  /\ path' = Append(path, t)
  /\ fed' = "open tag"
  /\ UNCHANGED <<atm, foundVars, callorder, closed, done, errcode>>
OpenTag(t) ==
  /\ Feeding /\ Len(path) < MaxDepth /\ fed # "attribute name"
  /\ scopecnt' = scopecnt + 1
  /\ rootelements' = IF Len(scopestack) <= 1 THEN rootelements \cup {t} ELSE rootelements
  /\ scopestack' = Append(scopestack, scopecnt')
  /\ path' = Append(path, t)
  /\ fed' = "open tag"
  /\ UNCHANGED <<atm, foundVars, callorder, closed, done, errcode>>

(* processAttributeName *)
AttributeName ==
  /\ Feeding /\ fed \in {"open tag", "attribute value"}
  /\ scopecnt' = scopecnt + 1
  /\ fed' = "attribute name"
  /\ UNCHANGED <<atm, path, scopestack, rootelements, foundVars, callorder, closed, done, errcode>>

(* processAttributeValue: the values that select it, and those it is the scope of *)
AttributeValue ==
  /\ Feeding /\ fed = "attribute name"
  /\ scopecnt' = scopecnt + 1
  /\ fed' = "attribute value"
  /\ LET nodes    == Instantiated(FiredBy(atm.values, {"attribute", "scope"}, path))
         collects == FiredBy(atm.values, {"scope"}, path)
     IN  IF CollectFails(nodes, collects)
         THEN errcode' = "DuplicateDefinition" /\ UNCHANGED <<valuenodes, scopeobjmap>>
         ELSE /\ valuenodes' = LeftPending(nodes, collects)
              /\ scopeobjmap' = [item \in atm.items |->
                   Inserted(scopeobjmap[item], CollectObjects(nodes, collects, item, Curscope, Taglevel))]
              /\ UNCHANGED errcode
  /\ UNCHANGED <<atm, path, scopestack, rootelements, methodcalls, callorder, closed, done>>

(* processValue *)
Content ==
  /\ Feeding /\ path # <<>> /\ fed \in {"open tag", "attribute value", "close tag"}
  /\ scopecnt' = scopecnt + 1
  /\ fed' = "content"
  /\ valuenodes' = Instantiated(FiredBy(atm.values, {"content"}, path))
  /\ UNCHANGED <<atm, path, scopestack, rootelements, scopeobjmap, methodcalls, callorder, closed,
                 done, errcode>>

(* processCloseTag; feed_request calls it once more at the end of the document *)
CloseTag ==
  /\ Feeding /\ fed \notin {"begin", "attribute name"}
  /\ scopecnt' = scopecnt + 1
  /\ fed' = "close tag"
  /\ LET collects == {i \in Fired(atm.values, path) : atm.values[i].on # "scope"}
         structs  == Fired(atm.structs, path)
         calls    == methodcalls \cup MethodCalls(Fired(atm.calls, path), Curscope, Taglevel)
     IN  IF CollectFails(valuenodes, collects)
         THEN errcode' = "DuplicateDefinition" /\ UNCHANGED <<foundVars, closed, path, scopestack>>
         ELSE /\ valuenodes' = LeftPending(valuenodes, collects)
              /\ scopeobjmap' = [item \in atm.items |->
                   Inserted(Inserted(scopeobjmap[item],
                                     CollectObjects(valuenodes, collects, item, Curscope, Taglevel)),
                            StructObjects(structs, item, Curscope, Taglevel))]
              /\ \E order \in SetToSeqs(Fired(atm.priorities, path)) :
                   methodcalls' = Prioritized(calls, order, Curscope)
              /\ closed' = closed \cup {[path |-> path, from |-> Curscope.from, to |-> Curscope.to]}
              /\ path' = IF path = <<>> THEN path ELSE Front(path)
              /\ scopestack' = Front(scopestack)
              /\ UNCHANGED errcode
  /\ UNCHANGED <<atm, rootelements, callorder, done>>

(* done *)
CallLessInDocument(x, y) ==  \* mutant: the groups are not compared
  x.to < y.to \/ (x.to = y.to /\ x.call < y.call)
CallLess(x, y) == \/ x.group < y.group
                  \/ x.group = y.group /\ x.to < y.to
                  \/ x.group = y.group /\ x.to = y.to /\ x.call < y.call
InOrder(calls) ==
  [k \in 1..Cardinality(calls) |-> CHOOSE x \in calls : Cardinality({y \in calls : CallLess(y, x)}) = k - 1]
Done ==
  /\ Len(scopestack) <= 1 /\ path = <<>> /\ fed = "close tag" /\ ~done /\ errcode = "Ok"
  /\ scopecnt' = scopecnt + 1
  /\ callorder' = InOrder(methodcalls)
  /\ IF IsValidRootTagSet(atm, rootelements)
     THEN done' = TRUE /\ UNCHANGED errcode
     ELSE errcode' = "InvalidRequest" /\ UNCHANGED done
  /\ UNCHANGED <<atm, path, fed, scopestack, rootelements, foundVars, closed>>

Next == \/ \E t \in Tag : OpenTag(t)
        \/ AttributeName \/ AttributeValue \/ Content \/ CloseTag \/ Done
Spec == Init /\ [][Next]_contextVars

-----------------------------------------------------------------------------
(* The scopes of all objects and calls lie apart or in each other, and a scope in *)
(* another is deeper in the document unless it starts with it: what the resolving *)
(* by position and the search back in prioritizing rely on (processOpenTag and    *)
(* processCloseTag count each event, and a scope ends before it is left). One scope *)
(* is open for each open element and for the document.                             *)
ScopesLaminar ==
  LET all == methodcalls \cup UNION {ToSet(Objects(item)) : item \in atm.items}
  IN  /\ \A x, y \in all :
           /\ x.to < y.from \/ y.to < x.from \/ Inside(x, y) \/ Inside(y, x)
           /\ Inside(x, y) => x.level >= y.level /\ (x.level = y.level => x.from = y.from)
      /\ Len(scopestack) = Len(path) + IF fed = "close tag" /\ scopestack = <<>> THEN 0 ELSE 1

(* Each element closed that is the scope of a value has an object for it, an      *)
(* undefined one if need be; a value belongs to a scope it occurred in, and none  *)
(* waits for its scope when the document is done (CollectValue).                  *)
ScopesCollected ==
  \A i \in DOMAIN atm.values : atm.values[i].on # "scope" =>
    \A c \in closed : Selects(atm.values[i].scope, c.path) =>
      \E o \in ToSet(Objects(atm.values[i].item)) : o.kind = "value" /\ o.from = c.from /\ o.to = c.to
ValuesInScope ==
  \A item \in atm.items : \A o \in ToSet(Objects(item)) :
    o.kind = "value" /\ o.of # 0 => o.of >= o.from /\ o.of <= o.to
ValuesCollected == ScopesCollected /\ ValuesInScope /\ (done => valuenodes = {})

(* Where a call is prioritized, it is the only one for its result in the scope if *)
(* it occurred there, whatever is closed later (MethodCallPrioritize).            *)
PrioritizedWins ==
  \A c \in closed, p \in ToSet(atm.priorities) : Selects(p.scope, c.path) =>
    LET inside == {x \in methodcalls : Inside(x, c)}
    IN  (\E x \in inside : x.call = p.call) =>
          \A x \in inside : atm.calls[x.call].result = atm.calls[p.call].result => x.call = p.call

(* A call is there for every element that makes it, unless a call prioritized in  *)
(* an element around it occurred there as well.                                   *)
CallsKept ==
  \A i \in DOMAIN atm.calls : \A c \in closed : Selects(atm.calls[i].scope, c.path) =>
    \/ \E x \in methodcalls : x.call = i /\ x.from = c.from /\ x.to = c.to
    \/ \E p \in ToSet(atm.priorities), s \in closed, d \in closed :
         /\ Selects(p.scope, s.path) /\ Inside(c, s)
         /\ p.call # i /\ atm.calls[p.call].result = atm.calls[i].result
         /\ Selects(atm.calls[p.call].scope, d.path) /\ Inside(d, s)

-----------------------------------------------------------------------------
(* What makes them inductive.                                                     *)
AllFound == methodcalls \cup UNION {ToSet(Objects(item)) : item \in atm.items}
Spans(x) == x.from \in Nat /\ x.to \in Nat /\ x.from <= x.to /\ x.to <= scopecnt

(* The state is well typed.                                                       *)
TypeOK ==
  /\ atm \in Automata /\ path \in Seq(Tag)
  /\ scopecnt \in Nat /\ scopestack \in Seq(Nat)
  /\ DOMAIN scopeobjmap = atm.items
  /\ \A item \in atm.items : Objects(item) \in Seq(ToSet(Objects(item)))
  /\ \A x \in AllFound : Spans(x) /\ x.level \in Nat
  /\ \A x \in methodcalls : x.call \in DOMAIN atm.calls
  /\ \A c \in closed : Spans(c)

(* An open scope starts after those around it; what was found ended before it      *)
(* started or is in it, deeper in the document unless it starts with it.           *)
StackOpen ==
  /\ \A i \in DOMAIN scopestack : scopestack[i] <= scopecnt
  /\ \A i, j \in DOMAIN scopestack : i < j => scopestack[i] < scopestack[j]
FoundUnderStack ==
  \A x \in AllFound, i \in DOMAIN scopestack :
    \/ x.to < scopestack[i]
    \/ x.from >= scopestack[i] /\ x.level >= i /\ (x.level = i => x.from = scopestack[i])

(* Every call was made by an element that is closed.                               *)
CallsMade ==
  \A x \in methodcalls : \E c \in closed :
    c.from = x.from /\ c.to = x.to /\ Selects(atm.calls[x.call].scope, c.path)

IInv == /\ TypeOK /\ StackOpen /\ FoundUnderStack /\ CallsMade
        /\ ScopesLaminar /\ PrioritizedWins /\ CallsKept

(* No two calls have the same place in the order, so that sorting gives one order,  *)
(* with all calls (done).                                                          *)
CallsPlaced ==
  /\ IsFiniteSet(methodcalls)
  /\ \A x \in methodcalls : x.group = atm.calls[x.call].group
  /\ \A x, y \in methodcalls : x.to = y.to /\ x.call = y.call => x = y
CallsOrdered ==
  done => /\ callorder \in Seq(methodcalls) /\ ToSet(callorder) = methodcalls
          /\ \A i, j \in DOMAIN callorder : i < j => CallLess(callorder[i], callorder[j])

-----------------------------------------------------------------------------
(* Values belong to the scopes they occurred in if the scopes of an item are not   *)
(* nested: all are paths from the root, none an element in the scope of another.   *)
PlainPath(e) == e.rooted /\ ~Contains(e.tags, Deep) /\ e.tags # <<>>
ItemsApart(a) == \A i \in DOMAIN a.values : LET v == a.values[i] IN
  /\ PlainPath(v.scope) /\ PlainPath(v.select) /\ IsPrefix(v.scope.tags, v.select.tags)
  /\ v.on = "scope" => v.select = v.scope
  /\ \A j \in DOMAIN a.values : a.values[j].item = v.item => ~IsStrictPrefix(a.values[j].scope.tags, v.scope.tags)

(* A value that waits for its scope occurred in it, and the scope is open.         *)
OpenFor(n) ==
  /\ n.def \in DOMAIN atm.values /\ n.item = atm.values[n.def].item /\ atm.values[n.def].on # "scope"
  /\ LET tags == atm.values[n.def].scope.tags IN
       /\ IsPrefix(tags, path)
       /\ Len(tags) < Len(scopestack)
       /\ n.at \in scopestack[Len(tags) + 1]..scopecnt
PendingOpen == \A n \in valuenodes : OpenFor(n)
=============================================================================
