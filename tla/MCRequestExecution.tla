------------------------- MODULE MCRequestExecution --------------------------
(* Automata for model checking, with templates of results.                        *)
EXTENDS RequestExecution

Value(item, scope) == [item |-> item, scope |-> scope, select |-> scope, on |-> "content"]
Arg(item, type) == [item |-> item, type |-> type, reach |-> 1]
VariableArg(v) == [item |-> NULL, var |-> v, type |-> "required", reach |-> 0]
New(scope, result, place) ==
  [scope |-> scope, self |-> NULL, result |-> result, group |-> place, assign |-> FALSE, args |-> <<>>]
Method(scope, self, result, place, args) ==
  [scope |-> scope, self |-> self, result |-> result, group |-> place, assign |-> FALSE, args |-> args]
Assign(scope, result, place, arg) ==
  [scope |-> scope, self |-> NULL, result |-> result, group |-> place, assign |-> TRUE, args |-> <<arg>>]

Node(kind, select, tag) == [kind |-> kind, select |-> select, tag |-> tag]
ResultNode(select, tag, type, var) ==
  [kind |-> "result", select |-> select, tag |-> tag, item |-> NULL, type |-> type, var |-> var]
InputNode(select, tag, type, item) ==
  [kind |-> "input", select |-> select, tag |-> tag, item |-> item, type |-> type]
Template(nodes) == [nodes |-> nodes, contentvars |-> FALSE]
Automaton(values, calls, descriptions) ==
  [items |-> {values[i].item : i \in DOMAIN values}, values |-> values, structs |-> <<>>,
   calls |-> calls, priorities |-> <<>>, results |-> descriptions, strict |-> FALSE]

A  == FromRoot(<<"a">>)
AA == FromRoot(<<"a", "a">>)
AB == FromRoot(<<"a", "b">>)

(* An object made by one element and used by others, a list with a value of the   *)
(* document and a result for each element, and a list of all results              *)
ListOfResults == Automaton(
  <<Value("text", AB)>>,
  <<New(AA, "o", 0),
    Method(AB, "o", "r", 1, <<Arg("text", "optional")>>),
    Method(A, "o", "p", 2, <<VariableArg("o")>>)>>,
  <<Template(<<Node("open", A, "list"), Node("openArray", AB, "item"),
               ResultNode(AB, "v", "optional", "r"), InputNode(AB, "t", "optional", "text"),
               Node("closeArray", AB, "item"), Node("close", A, "list")>>),
    Template(<<Node("openArray", A, "all"), ResultNode(A, NULL, "array", "r"),
               Node("closeArray", A, "all")>>)>>)

(* A result of the whole document that may be given several times, after one that *)
(* another element opens; a variable that loses its object; assignments           *)
SingleResult == Automaton(
  <<Value("text", AB)>>,
  <<New(A, "o", 0), Assign(AB, "s", 1, Arg("text", "optional")),
    Method(AB, "o", "r", 2, <<>>), Method(AA, "o", "o", 3, <<>>)>>,
  <<Template(<<Node("constant", AA, "c")>>),
    Template(<<Node("open", A, "doc"), ResultNode(A, "v", "required", "r"), Node("close", A, "doc")>>),
    Template(<<ResultNode(AB, "s", "array", "s")>>)>>)

(* The object assigned to another variable, and a constructor whose variable is a *)
(* result                                                                         *)
AssignedObject == Automaton(
  <<Value("text", AB)>>,
  <<New(A, "o", 0), Assign(A, "q", 1, VariableArg("o")), New(AA, "s", 2),
    Method(AB, "q", "s", 3, <<Arg("text", "required")>>)>>,
  <<Template(<<ResultNode(A, "v", "required", "s")>>)>>)

MCAutomata == {ListOfResults, SingleResult, AssignedObject}
(* Their objects are not named like results, as ObjectAlwaysMadeBefore assumes     *)
ASSUME SelvesApartAssumption == \A a \in MCAutomata : SelvesApart(a)
=============================================================================
