-------------------------- MODULE RequestBuilding ---------------------------
(* From the description of an automaton to the calls of a request: the builder    *)
(* makes an automaton of a description, a request is created for it when it is    *)
(* done, and documents are fed to that.  What the description means is defined on *)
(* its tree of nodes.                                                             *)
EXTENDS RequestMeaning, AutomatonBuilder

allVars == <<builderVars, vars>>

(* The items are those of the definitions (m_maxitemid counts them).              *)
ItemsOf(definitions) == {definitions[i].item : i \in DOMAIN definitions}
BuiltAutomaton ==
  [items |-> ItemsOf(valuedefs) \cup ItemsOf(structdefs),
   values |-> valuedefs, structs |-> structdefs, calls |-> calldefs, priorities |-> priorities,
   results |-> resultdefs, strict |-> description.strict]

(* papuga_create_Request, when done was called as request.h demands; only for the  *)
(* automata considered, the other descriptions are built only.                    *)
CreateRequest ==
  /\ finished /\ BuiltAutomaton \in Automata /\ atm # BuiltAutomaton
  /\ atm' = BuiltAutomaton /\ scopeobjmap' = NoObjects(BuiltAutomaton)
  /\ UNCHANGED <<path, fed, scopecnt, scopestack, rootelements, valuenodes, methodcalls, callorder,
                 closed, done, errcode>>
  /\ UNCHANGED <<iteratorVars, builderVars>>
Created == atm \in Automata

BuildingInit ==
  /\ BuilderInit
  /\ atm = BuiltAutomaton /\ scopeobjmap = NoObjects(atm)
  /\ NothingFed /\ IteratorInit
BuildingNext ==
  \/ ExpandList /\ UNCHANGED vars
  \/ ExpandGroup /\ UNCHANGED vars
  \/ ExpandFunction /\ UNCHANGED vars
  \/ ExpandStruct /\ UNCHANGED vars
  \/ ExpandValue /\ UNCHANGED vars
  \/ BuildCall /\ UNCHANGED vars
  \/ BuildArg /\ UNCHANGED vars
  \/ BuildStruct /\ UNCHANGED vars
  \/ BuildMember /\ UNCHANGED vars
  \/ BuildValue /\ UNCHANGED vars
  \/ BuildOpenGroup /\ UNCHANGED vars
  \/ BuildCloseGroup /\ UNCHANGED vars
  \/ BuildResult /\ UNCHANGED vars
  \/ BuildDone /\ UNCHANGED vars
  \/ BuildPrioritize /\ UNCHANGED vars
  \/ DescribeElement /\ UNCHANGED vars
  \/ DescribeRelation /\ UNCHANGED vars
  \/ DescribeDependency /\ UNCHANGED vars
  \/ DescribeResolve /\ UNCHANGED vars
  \/ DescribeDone /\ UNCHANGED vars
  \/ CreateRequest
  \/ Created /\ RequestNext /\ UNCHANGED builderVars
BuildingSpec == BuildingInit /\ [][BuildingNext]_allVars

-----------------------------------------------------------------------------
(* The nodes of a description without the lists, with their expressions in front;  *)
(* a group also where it starts.                                                  *)
RECURSIVE Leaves(_, _)
Leaves(nodes, root) == FlattenSeq([k \in DOMAIN nodes |->
  LET n == nodes[k]
      at == Join(root, n.root)
      leaf(what, node, group) == [is |-> what, node |-> node, root |-> at, group |-> group]
  IN  CASE n.do = "list" -> Leaves(n.nodes, Join(at, n.prefix))
        [] n.do = "group" -> <<leaf("group", n, n.number)>>
                             \o [i \in DOMAIN n.nodes |-> leaf("function", n.nodes[i], n.number)]
        [] OTHER -> <<leaf(n.do, n, NULL)>>])

Scope(l) == Join(l.root, l.node.scope)
SelectedBy(l) == Join(Scope(l), l.node.select)

(* A call without a group comes after those defined before it, a call in a group   *)
(* after those defined before the group was opened last.                          *)
MeantCalls(leaves) ==
  LET functions == Ordered({p \in DOMAIN leaves : leaves[p].is = "function"})
      before(p) == Cardinality({q \in 1..(p - 1) : leaves[q].is = "function"})
      opened(g) == Max({p \in DOMAIN leaves : leaves[p].is = "group" /\ leaves[p].group = g})
      place(p) == IF leaves[p].group = NULL THEN before(p) ELSE before(opened(leaves[p].group))
      call(p) == LET f == leaves[p].node
                 IN  [scope |-> PathOf(SelectedBy(leaves[p])), self |-> f.self, result |-> f.result,
                      group |-> place(p), assign |-> f.kind = "assign", args |-> f.args]
  IN  [i \in DOMAIN functions |-> call(functions[i])]
MeantPriorities(leaves) ==
  LET functions == SelectSeq(leaves, LAMBDA l : l.is = "function")
      assigns == Ordered({i \in DOMAIN functions : functions[i].node.kind = "assign"})
  IN  [k \in DOMAIN assigns |-> [scope |-> PathOf(Scope(functions[assigns[k]])), call |-> assigns[k]]]
MeantStructs(leaves) ==
  LET structs == SelectSeq(leaves, LAMBDA l : l.is = "struct")
  IN  [k \in DOMAIN structs |-> [item |-> structs[k].node.item, scope |-> PathOf(Scope(structs[k])),
                                 members |-> structs[k].node.members]]

(* The values known to the automaton; one of which the scope is an attribute is    *)
(* that attribute.                                                                *)
MeantValues(leaves) ==
  LET values == SelectSeq(leaves, LAMBDA l : l.is = "value" /\ l.node.type # "void")
      on(l) == IF Scope(l).leaf = "attribute" THEN "scope" ELSE l.node.select.leaf
  IN  [k \in DOMAIN values |-> [item |-> values[k].node.item, scope |-> PathOf(Scope(values[k])),
                                select |-> PathOf(SelectedBy(values[k])), on |-> on(values[k])]]

(* What is wrong with a node by itself, and with all of them                       *)
Faultless(l) ==
  CASE l.is = "function" -> /\ l.node.kind # "unknown"
                            /\ l.node.kind = "method" => l.node.self # NULL
                            /\ Len(l.node.args) <= MaxNofArguments
                            /\ \A k \in DOMAIN l.node.args : l.node.args[k].reach >= 0
    [] l.is = "value" -> \/ l.node.type = "void"
                         \/ IF Scope(l).leaf = "attribute" THEN l.node.select = NoPath
                            ELSE ~l.node.select.rooted
    [] OTHER -> TRUE
KeyOf(l) == <<IF l.is = "value" THEN SelectedBy(l) ELSE Scope(l), l.node.item>>
Acceptable(leaves) ==
  LET keyed == SelectSeq(leaves, LAMBDA l : l.is \in {"struct", "value"})
  IN  /\ \A p \in DOMAIN leaves : Faultless(leaves[p])
      /\ IsInjective([k \in DOMAIN keyed |-> KeyOf(keyed[k])])
      /\ Len(MeantCalls(leaves)) <= MaxNofCallDefs
      /\ Len(description.results) <= MaxNofResults

(* What the schema refuses comes from one of these: an element wanted at any depth, *)
(* a value that is neither an attribute nor a content, two that share a place, or  *)
(* something told of a place where nothing is defined.                             *)
Told(l) == IF l.is \in {"value", "function"} THEN SelectedBy(l) ELSE Scope(l)
SamePlace(l, m) ==
  /\ Told(l).tags = Told(m).tags
  /\ Told(l).leaf = Told(m).leaf \/ "attribute" \notin {Told(l).leaf, Told(m).leaf}
Doubtful(leaves) ==
  LET those(kinds) == {p \in DOMAIN leaves : leaves[p].is \in kinds}
  IN  \/ \E p \in DOMAIN leaves \ those({"group"}) : Contains(Told(leaves[p]).tags, Deep)
      \/ \E p \in those({"value"}) : leaves[p].node.type # "void" /\ Told(leaves[p]).leaf = "none"
      \/ \E p, q \in those({"value", "struct", "resolve"}) : p # q /\ SamePlace(leaves[p], leaves[q])
      \/ \E p \in those({"function", "resolve"}) :
            \A q \in those({"value", "struct"}) : ~IsPrefix(Told(leaves[p]).tags, Told(leaves[q]).tags)

(* A description is refused only if there is something wrong with it, and else     *)
(* the automaton is what its nodes mean, however they are grouped and nested       *)
(* (addToAutomaton, addCall, addValue); what the schema refuses is in doubt         *)
(* (addSubTree, finish).  It is looked at before the first event.                  *)
BuiltAsDescribed ==
  todo = <<>> /\ scopecnt = 0 =>
    LET leaves == Leaves(description.nodes, NoPath)
    IN  /\ lasterr # "Ok" => Doubtful(leaves)
        /\ Acceptable(leaves) => described \/ lasterr # "Ok"
        /\ described => /\ Acceptable(leaves)
                        /\ calldefs = MeantCalls(leaves)
                        /\ priorities = MeantPriorities(leaves)
                        /\ structdefs = MeantStructs(leaves)
                        /\ valuedefs = MeantValues(leaves)
                        /\ resultdefs = description.results

-----------------------------------------------------------------------------
(* The place of an element in the finished description of the schema: below the    *)
(* last // that is not in front, and the places of a value of it there.  A content  *)
(* is the element itself, or a child without name if it has attributes.             *)
DescribedAt(tags) ==
  LET deep == {k \in DOMAIN tags : tags[k] = Deep /\ k > 1}
  IN  IF deep = {} THEN SelectSeq(tags, LAMBDA t : t # Deep)
      ELSE <<Deep>> \o SubSeq(tags, Max(deep) + 1, Len(tags))
ValuePlaces(l) ==
  LET p == DescribedAt(SelectedBy(l).tags)
  IN  IF SelectedBy(l).leaf = "attribute" THEN {Append(p, AttrName)} ELSE {p, Append(p, TextName)}
InSchema(l) ==
  LET p == DescribedAt(SelectedBy(l).tags)
  IN  IF l.node.type = "void" THEN {p, <<Deep, Last(p)>>} \cap DOMAIN tree # {}
      ELSE \E q \in ValuePlaces(l) \cap DOMAIN tree : tree[q].type = l.node.type

(* Of the elements wanted below //, those with a name that is wanted below // in    *)
(* another place too are dropped but for the first.                                *)
DeepIn(e) == {SubSeq(e.tags, 1, k) : k \in {i \in DOMAIN e.tags : i > 1 /\ e.tags[i - 1] = Deep}}
Shadowed(leaves, e) ==
  \E p \in {q \in DOMAIN leaves : leaves[q].is \in {"value", "struct"}} :
    \E d \in DeepIn(e), c \in DeepIn(Told(leaves[p])) : c # d /\ Last(c) = Last(d)

(* Whatever the order in which values, structures, relations and calls are told,   *)
(* and however elements are turned into structures, made global and referred to    *)
(* (addFollow, addElement, finish): the finished description tells every value of  *)
(* the automaton in its place with its type, and no other.  It too is looked at     *)
(* before the first event.                                                         *)
SchemaAsDescribed ==
  finished /\ scopecnt = 0 =>
    LET leaves == Leaves(description.nodes, NoPath)
        values == {leaves[p] : p \in {q \in DOMAIN leaves : leaves[q].is = "value"}}
    IN  /\ \A l \in values : InSchema(l) \/ Shadowed(leaves, SelectedBy(l))
        /\ \A q \in {p \in DOMAIN tree : tree[p].type # "void"} :
              \E l \in values : l.node.type = tree[q].type /\ q \in ValuePlaces(l)
=============================================================================
