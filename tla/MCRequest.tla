------------------------------ MODULE MCRequest ------------------------------
(* Automata for model checking, and the descriptions they are built from.          *)
EXTENDS RequestBuilding

Value(item, scope, select, on) == [item |-> item, scope |-> scope, select |-> select, on |-> on]
Struct(item, scope, members) == [item |-> item, scope |-> scope, members |-> members]
Member(item, type, reach) == [item |-> item, type |-> type, reach |-> reach, named |-> TRUE]
Embedded(item, type, reach) == [item |-> item, type |-> type, reach |-> reach, named |-> FALSE]
VariableMember(v) == [item |-> NULL, var |-> v, type |-> "required", reach |-> 0, named |-> TRUE]
Arg(item, type, reach) == [item |-> item, type |-> type, reach |-> reach]
VariableArg(v) == [item |-> NULL, var |-> v, type |-> "required", reach |-> 0]
Method(scope, result, place, args) ==
  [scope |-> scope, self |-> "o", result |-> result, group |-> place, assign |-> FALSE, args |-> args]
Assign(scope, result, place, arg) ==
  [scope |-> scope, self |-> NULL, result |-> result, group |-> place, assign |-> TRUE, args |-> <<arg>>]
Template(select) ==
  [nodes |-> <<[kind |-> "constant", select |-> select, tag |-> "c"]>>, contentvars |-> FALSE]
Automaton(values, structs, calls, prios, results, strict) ==
  [items |-> {values[i].item : i \in DOMAIN values} \cup {structs[i].item : i \in DOMAIN structs},
   values |-> values, structs |-> structs, calls |-> calls, priorities |-> prios,
   results |-> results, strict |-> strict]

A  == FromRoot(<<"a">>)
AB == FromRoot(<<"a", "b">>)
ABA == FromRoot(<<"a", "b", "a">>)
AA == FromRoot(<<"a", "a">>)

(* The nodes of descriptions                                                       *)
Path(tags) == PathTo(FALSE, tags, "none")
Root(tags) == PathTo(TRUE, tags, "none")
Text == PathTo(FALSE, <<>>, "content")
Attribute == PathTo(FALSE, <<>>, "attribute")
ListNode(prefix, nodes) == [do |-> "list", root |-> NoPath, prefix |-> prefix, nodes |-> nodes]
GroupNode(number, nodes) == [do |-> "group", root |-> NoPath, number |-> number, nodes |-> nodes]
FunctionNode(kind, scope, select, self, result, args) ==
  [do |-> "function", root |-> NoPath, kind |-> kind, scope |-> scope, select |-> select,
   self |-> self, result |-> result, args |-> args]
CallNode(scope, result, args) == FunctionNode("method", scope, NoPath, "o", result, args)
AssignNode(scope, select, result, arg) ==
  FunctionNode("assign", scope, select, NULL, result, <<arg>>)
StructNode(scope, item, members) ==
  [do |-> "struct", root |-> NoPath, scope |-> scope, item |-> item, members |-> members]
ValueNode(scope, select, item) ==
  [do |-> "value", root |-> NoPath, scope |-> scope, select |-> select, item |-> item,
   type |-> "string"]
Typed(node, type) == [node EXCEPT !.type = type]
ResolveNode(scope, resolve) == [do |-> "resolve", root |-> NoPath, scope |-> scope, resolve |-> resolve]
Description(nodes, results, strict) == [nodes |-> nodes, results |-> results, strict |-> strict]

-----------------------------------------------------------------------------
(* A list of b with an attribute and a content: a call for each and one for all;  *)
(* an attribute that is a scope of its own                                        *)
NameArgs == <<Arg("name", "required", 0), Arg("text", "optional", 0)>>
ListArgs == <<Arg("key", "arrayNonEmpty", 1), Arg("name", "array", 1)>>
ListAutomaton == Automaton(
  <<Value("name", AB, AB, "attribute"), Value("text", AB, AB, "content"), Value("key", A, A, "scope")>>,
  <<>>,
  <<Method(AB, "x", 0, NameArgs), Method(A, "y", 1, ListArgs)>>,
  <<>>, <<Template(A)>>, TRUE)
ListDescription == Description(
  <<ListNode(Root(<<"a">>),
      <<ListNode(Path(<<"b">>), <<ValueNode(NoPath, Attribute, "name"), ValueNode(NoPath, Text, "text"),
                                  GroupNode(1, <<CallNode(NoPath, "x", NameArgs)>>)>>),
        ValueNode(Attribute, NoPath, "key"),
        CallNode(NoPath, "y", ListArgs)>>)>>,
  <<Template(A)>>, TRUE)

(* Structures in structures, an inherited attribute, variables, and assignments   *)
(* to a variable of which one is prioritized in an element and the other around it *)
ElemMembers == <<Member("text", "array", 1), VariableMember("z")>>
ListMembers == <<Embedded("elem", "optional", 1)>>
NestedArgs == <<Arg("list", "required", 0), VariableArg("z")>>
ElemArgs == <<Arg("lang", "inherited", 1), Arg("elem", "required", 0)>>
NestedAutomaton == Automaton(
  <<Value("lang", A, A, "attribute"), Value("text", ABA, ABA, "content")>>,
  <<Struct("elem", AB, ElemMembers), Struct("list", A, ListMembers)>>,
  <<Assign(AB, "v", 0, Arg("text", "array", 1)), Assign(ABA, "v", 0, Arg("text", "optional", 0)),
    Method(A, "y", 2, NestedArgs), Method(AB, "x", 3, ElemArgs)>>,
  <<[scope |-> A, call |-> 1], [scope |-> AB, call |-> 2]>>, <<>>, FALSE)
NestedDescription == Description(
  <<ListNode(Root(<<"a">>),
      <<ValueNode(NoPath, Attribute, "lang"),
        ListNode(Path(<<"b">>), <<ValueNode(Path(<<"a">>), Text, "text"),
                                  StructNode(NoPath, "elem", ElemMembers)>>),
        StructNode(NoPath, "list", ListMembers),
        GroupNode(1, <<AssignNode(NoPath, Path(<<"b">>), "v", Arg("text", "array", 1)),
                       AssignNode(Path(<<"b">>), Path(<<"a">>), "v", Arg("text", "optional", 0))>>),
        CallNode(NoPath, "y", NestedArgs),
        GroupNode(2, <<CallNode(Path(<<"b">>), "x", ElemArgs)>>)>>)>>,
  <<>>, FALSE)

(* An array of structures that fail without an attribute                           *)
PairMembers == <<Member("key", "required", 1)>>
PairArgs == <<Arg("pair", "array", 1)>>
PairsAutomaton == Automaton(
  <<Value("key", AB, AB, "scope")>>, <<Struct("pair", AB, PairMembers)>>,
  <<Method(A, "x", 0, PairArgs)>>, <<>>, <<>>, FALSE)
PairsDescription == Description(
  <<ListNode(Root(<<"a">>),
      <<ListNode(Path(<<"b">>), <<ValueNode(Attribute, NoPath, "key"), StructNode(NoPath, "pair", PairMembers)>>),
        CallNode(NoPath, "x", PairArgs)>>)>>,
  <<>>, FALSE)

-----------------------------------------------------------------------------
(* Descriptions that are built only: nodes in any order, groups opened again, the  *)
(* same value defined in two ways                                                 *)
SmallNodes ==
  LET call == CallNode(Root(<<"a">>), NULL, <<>>)
  IN  {call,
       FunctionNode("new", Root(<<"b">>), NoPath, NULL, "o", <<>>),
       AssignNode(Root(<<"a">>), Path(<<"b">>), "v", VariableArg("o")),
       GroupNode(1, <<call>>), GroupNode(1, <<>>), GroupNode(2, <<call, call>>),
       ValueNode(Root(<<"a">>), PathTo(FALSE, <<"b">>, "content"), "text"),
       ValueNode(Root(<<"a", "b">>), Text, "text"),
       StructNode(Root(<<"a">>), "elem", <<Member("text", "array", -1)>>),
       ListNode(Root(<<"a">>), <<GroupNode(1, <<CallNode(Path(<<"b">>), NULL, <<>>)>>)>>)}
FaultyNodes ==
  {CallNode(Root(<<"a">>), NULL, <<VariableArg("o"), VariableArg("o"), VariableArg("o")>>),
   CallNode(Root(<<"a">>), NULL, <<Arg("text", "array", -1)>>),
   FunctionNode("method", Root(<<"a">>), NoPath, NULL, NULL, <<>>),
   FunctionNode("unknown", Root(<<"a">>), NoPath, "o", NULL, <<>>),
   ValueNode(Attribute, Text, "text"),
   ValueNode(Root(<<"a">>), Root(<<"b">>), "text"),
   Typed(ValueNode(Root(<<"a">>), Root(<<"b">>), "text"), "void")}
SmallLists == {<<>>} \cup {<<n>> : n \in SmallNodes} \cup {<<n, m>> : n, m \in SmallNodes}
              \cup {<<n, m, l>> : n, m, l \in SmallNodes}
FaultyLists == {<<n, f>> : n \in SmallNodes, f \in FaultyNodes}

(* Descriptions that differ in the schema: contents with attributes, elements at    *)
(* any depth, values for the schema only, relations and calls before and after them *)
SchemaNodes ==
  {ValueNode(Root(<<"a", "b">>), Text, "text"), ValueNode(Root(<<"a", "b">>), Attribute, "name"),
   ValueNode(Root(<<"a", "b">>), NoPath, "text"), ValueNode(Root(<<Deep, "b">>), Text, "text"),
   Typed(ValueNode(Root(<<"a", Deep, "b">>), Attribute, "name"), "integer"),
   Typed(ValueNode(Root(<<"a", Deep, "b">>), Text, "num"), "integer"),
   Typed(ValueNode(Root(<<"b", Deep, "b">>), Text, "num"), "integer"),
   Typed(ValueNode(Root(<<"a", "b">>), Text, "tree"), "void"),
   Typed(ValueNode(Root(<<"a", "a">>), NoPath, "tree"), "void"),
   StructNode(Root(<<Deep, "b">>), "tree", <<Member("text", "optional", 1)>>),
   StructNode(Root(<<"a", Deep, "b">>), "tree", <<Member("name", "optional", 1)>>),
   StructNode(Root(<<"a">>), "list", <<Member("text", "array", 1), Member("tree", "optional", 1)>>),
   CallNode(Root(<<"a", "b">>), NULL, <<Arg("text", "optional", 1)>>),
   CallNode(Root(<<"a">>), NULL, <<Arg("tree", "array", 1)>>),
   ResolveNode(Root(<<"a", "b">>), "array"), ResolveNode(Root(<<"a", "b">>), "optional")}
SchemaLists == {<<n, m, l>> : n, m, l \in SchemaNodes}

MCAutomata == {ListAutomaton, NestedAutomaton, PairsAutomaton}
(* Their items have scopes that are not nested, as ValuesAlwaysCollected assumes   *)
ASSUME ScopesApartAssumption == \A a \in MCAutomata : ItemsApart(a)
MCDescriptions ==
  {ListDescription, NestedDescription, PairsDescription}
    \cup {Description(nodes, <<>>, FALSE) : nodes \in SmallLists \cup FaultyLists \cup SchemaLists}
    \cup {Description(<<>>, <<Template(A), Template(A)>>, FALSE)}

(* A value that is inherited, and one that is the element of an array              *)
LangArgs == <<Arg("lang", "inherited", 1)>>
InheritedAutomata == {Automaton(<<Value("lang", Anywhere(<<"a">>), Anywhere(<<"a">>), "attribute"),
                                  Value("text", AB, AB, "content")>>,
                                <<>>, <<Method(AB, "x", 0, LangArgs)>>, <<>>, <<>>, FALSE)}
InheritedDescriptions ==
  {Description(<<ValueNode(Path(<<"a">>), Attribute, "lang"), ValueNode(Root(<<"a", "b">>), Text, "text"),
                 CallNode(Root(<<"a", "b">>), "x", LangArgs)>>, <<>>, FALSE)}
TextArgs == <<Arg("text", "array", 1)>>
ArrayAutomata == {Automaton(<<Value("text", AB, AB, "content")>>, <<>>,
                            <<Method(A, "x", 0, TextArgs)>>, <<>>, <<>>, FALSE)}
ArrayDescriptions ==
  {Description(<<ValueNode(Root(<<"a", "b">>), Text, "text"), CallNode(Root(<<"a">>), "x", TextArgs)>>,
               <<>>, FALSE)}
=============================================================================
