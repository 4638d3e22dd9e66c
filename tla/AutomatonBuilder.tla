-------------------------- MODULE AutomatonBuilder --------------------------
(* The description of a request automaton in C++ (RequestAutomaton of             *)
(* src/requestAutomaton.cpp): a list of nodes, some of them lists with an          *)
(* expression in front of all their nodes, is added to the automaton node by node *)
(* with the build API, and to the description of its schema along with it.  The    *)
(* first operation refused ends it with an exception, and there is no automaton.  *)
(* A node tells with do what it is; every node has a root, which is the expression *)
(* in front of it:                                                                *)
(*   list      prefix, nodes                                                      *)
(*   group     number, nodes (functions)                                          *)
(*   function  scope, select, kind, self, result, args                            *)
(*   struct    scope, item, members                                               *)
(*   value     scope, select, item, type; void is known to the schema only         *)
(*   resolve   scope, resolve                                                     *)
EXTENDS AutomatonDescription, SchemaDescription

CONSTANT Descriptions  \* the descriptions considered: nodes, results, strict

VARIABLES description,
          todo,    \* the nodes and the operations of the build API still to come
          keyset,  \* keyset: expression and item of structures and values
          thrown   \* the exception thrown, "" if none

builderVars == <<descriptionVars, schemaVars, description, todo, keyset, thrown>>

BuilderInit ==
  /\ DescriptionInit /\ SchemaInit
  /\ description \in Descriptions
  /\ todo = description.nodes \o [k \in DOMAIN description.results |->
                                    [do |-> "result", descr |-> description.results[k]]]
                              \o <<[do |-> "done"], [do |-> "describe"]>>
  /\ keyset = {} /\ thrown = ""

-----------------------------------------------------------------------------
(* RequestAutomaton_Node::addToAutomaton, by the kind of the node, which is        *)
(* replaced by what is to do for it.                                              *)
Do(what) == todo # <<>> /\ Head(todo).do = what
Replace(nodes) == todo' = nodes \o Tail(todo)
Throw(err) == thrown' = err /\ todo' = <<>>

RootOfNodesAlone(n) == n.prefix  \* mutant: what is in front of the list is lost
RootOfNodes(n) == Join(n.root, n.prefix)
WithRoot(root, node) == [node EXCEPT !.root = Join(root, @)]
ExpandList ==
  /\ Do("list")
  /\ LET n == Head(todo)
     IN  Replace([k \in DOMAIN n.nodes |-> WithRoot(RootOfNodes(n), n.nodes[k])])
  /\ UNCHANGED <<descriptionVars, schemaVars, description, keyset, thrown>>

(* RequestAutomaton_GroupDef::addToAutomaton *)
ExpandGroup ==
  /\ Do("group")
  /\ LET n == Head(todo)
     IN  Replace(<<[do |-> "openGroup", number |-> n.number]>>
                 \o [k \in DOMAIN n.nodes |-> WithRoot(n.root, n.nodes[k])]
                 \o <<[do |-> "closeGroup"]>>)
  /\ UNCHANGED <<descriptionVars, schemaVars, description, keyset, thrown>>

(* RequestAutomaton_FunctionDef::addToAutomaton: an assignment is prioritized in   *)
(* its scope.                                                                     *)
ExpandFunction ==
  /\ Do("function")
  /\ LET n == Head(todo)
         scope == Join(n.root, n.scope)
     IN  Replace(<<[do |-> "call", scope |-> Join(scope, n.select), def |-> n]>>
                 \o FlattenSeq([k \in DOMAIN n.args |->
                      <<[do |-> "arg", idx |-> k, arg |-> n.args[k]]>>
                      \o IF n.args[k].item = NULL THEN <<>>
                         ELSE <<[do |-> "dependency", scope |-> Join(scope, n.select), ref |-> n.args[k]]>>])
                 \o IF n.kind = "assign" THEN <<[do |-> "prioritize", scope |-> scope]>> ELSE <<>>)
  /\ UNCHANGED <<descriptionVars, schemaVars, description, keyset, thrown>>

(* RequestAutomaton_StructDef::addToAutomaton and ValueDef::addToAutomaton: a       *)
(* second one of the same key is refused.                                         *)
Keyed(key, nodes) ==
  IF key \in keyset THEN Throw("duplicate") /\ UNCHANGED keyset
  ELSE Replace(nodes) /\ keyset' = keyset \cup {key} /\ UNCHANGED thrown
ExpandStruct ==
  /\ Do("struct")
  /\ LET n == Head(todo)
         scope == Join(n.root, n.scope)
     IN  Keyed(<<scope, n.item>>,
               <<[do |-> "structure", scope |-> scope, def |-> n],
                 [do |-> "element", scope |-> scope, item |-> n.item, type |-> "void"]>>
               \o FlattenSeq([k \in DOMAIN n.members |->
                    <<[do |-> "member", idx |-> k, member |-> n.members[k]]>>
                    \o IF n.members[k].item = NULL THEN <<>>
                       ELSE <<[do |-> "relation", scope |-> scope, item |-> n.item, ref |-> n.members[k]]>>]))
  /\ UNCHANGED <<descriptionVars, schemaVars, description>>
ExpandValue ==
  /\ Do("value")
  /\ LET n == Head(todo)
         scope == Join(n.root, n.scope)
     IN  Keyed(<<Join(scope, n.select), n.item>>,
               (IF n.type = "void" THEN <<>> ELSE <<[do |-> "addValue", scope |-> scope, def |-> n]>>)
               \o <<[do |-> "element", scope |-> Join(scope, n.select), item |-> n.item, type |-> n.type]>>)
  /\ UNCHANGED <<descriptionVars, schemaVars, description>>

-----------------------------------------------------------------------------
(* An operation of the build API; an exception if it fails                         *)
Proceed == /\ IF succeeded' THEN Replace(<<>>) /\ UNCHANGED thrown ELSE Throw(descerr')
           /\ UNCHANGED <<schemaVars, description, keyset>>

BuildCall == LET c == Head(todo) IN
  Do("call") /\ AddCall(c.scope, c.def.kind, c.def.self, c.def.result, Len(c.def.args)) /\ Proceed
BuildArg == LET c == Head(todo) IN Do("arg") /\ SetCallArg(c.idx, c.arg) /\ Proceed
BuildStruct == LET c == Head(todo) IN
  Do("structure") /\ AddStructure(c.scope, c.def.item, Len(c.def.members)) /\ Proceed
BuildMember == LET c == Head(todo) IN Do("member") /\ SetMember(c.idx, c.member) /\ Proceed
BuildValue == LET c == Head(todo) IN
  Do("addValue") /\ AddValueDef(c.scope, c.def.select, c.def.item) /\ Proceed
BuildOpenGroup == Do("openGroup") /\ OpenGroup(Head(todo).number) /\ Proceed
BuildCloseGroup == Do("closeGroup") /\ CloseGroup /\ Proceed
BuildResult == Do("result") /\ AddResultDescription(Head(todo).descr) /\ Proceed
BuildDone == Do("done") /\ Describe /\ Proceed

(* The result of prioritize_last_call is not looked at.                            *)
BuildPrioritize ==
  /\ Do("prioritize") /\ PrioritizeLastCall(Head(todo).scope)
  /\ Replace(<<>>)
  /\ UNCHANGED <<schemaVars, description, keyset, thrown>>

(* An operation of the description of the schema                                   *)
Describing == /\ IF lasterr' = "Ok" THEN Replace(<<>>) /\ UNCHANGED thrown ELSE Throw(lasterr')
              /\ UNCHANGED <<descriptionVars, description, keyset>>

DescribeElement == LET c == Head(todo) IN
  Do("element") /\ AddElement(c.item, c.scope, c.type, "required") /\ Describing
DescribeRelation == LET c == Head(todo) IN
  Do("relation") /\ AddRelation(c.item, c.scope, c.ref.item, c.ref.type) /\ Describing
DescribeDependency == LET c == Head(todo) IN
  Do("dependency") /\ AddDependency(c.scope, c.ref.item, c.ref.type) /\ Describing
DescribeResolve == LET n == Head(todo) IN
  Do("resolve") /\ ResolveAs(Join(n.root, n.scope), n.resolve) /\ Describing
DescribeDone == Do("describe") /\ Finish /\ Describing

BuilderNext ==
  \/ ExpandList \/ ExpandGroup \/ ExpandFunction \/ ExpandStruct \/ ExpandValue
  \/ BuildCall \/ BuildArg \/ BuildStruct \/ BuildMember \/ BuildValue
  \/ BuildOpenGroup \/ BuildCloseGroup \/ BuildResult \/ BuildDone \/ BuildPrioritize
  \/ DescribeElement \/ DescribeRelation \/ DescribeDependency \/ DescribeResolve \/ DescribeDone
BuilderSpec == BuilderInit /\ [][BuilderNext]_builderVars
=============================================================================
