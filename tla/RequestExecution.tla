-------------------------- MODULE RequestExecution ---------------------------
(* The execution of a request (papuga_RequestContext_execute_request of            *)
(* src/requestHandler.cpp), composed of the iterator that resolves the arguments and *)
(* of the execution of the calls, and what is made of the templates of results at  *)
(* the end.                                                                        *)
EXTENDS RequestIterator, CallExecution

Execute == Turn /\ \E r \in {Resolved(Existing(varmap))} : ExecuteWith(r)

-----------------------------------------------------------------------------
(* initResult prints the items of a template.  An array whose elements have tags   *)
(* is a list of structures; a closed array that is opened again goes on.           *)
Constant == -4
ArrayOpening(structured) == IF structured THEN <<Open, Open>> ELSE <<Open>>
ArrayClosingOnce(structured) == <<Close>>  \* mutant: the last structure stays open
ArrayClosing(structured) == IF structured THEN <<Close, Close>> ELSE <<Close>>
Printed(items, nodes) ==
  LET at(k) == nodes[items[k].node]
      next(k, kind) == k < Len(items) /\ at(k + 1).kind = kind
      valuelist(k) == k < Len(items) /\ at(k + 1).tag = NULL /\ at(k + 1).kind # "closeArray"
      reopen(k) == next(k, "openArray") /\ at(k + 1).tag = at(k).tag
      put(acc, tokens) == [acc EXCEPT !.out = @ \o tokens]
      close(acc, k) ==
        IF acc.structs = <<>> THEN [acc EXCEPT !.ok = FALSE]
        ELSE IF reopen(k)
        THEN put([acc EXCEPT !.skip = TRUE], IF Last(acc.structs) THEN <<Close, Open>> ELSE <<>>)
        ELSE put([acc EXCEPT !.structs = Front(@)], ArrayClosing(Last(acc.structs)))
      print(acc, k) ==
        CASE acc.skip -> [acc EXCEPT !.skip = FALSE]
          [] ~acc.skip /\ at(k).kind = "constant" -> put(acc, <<Constant>>)
          [] ~acc.skip /\ at(k).kind = "open" -> put(acc, <<Open>>)
          [] ~acc.skip /\ at(k).kind = "close" -> put(acc, <<Close>>)
          [] ~acc.skip /\ at(k).kind = "openArray" ->
               put([acc EXCEPT !.structs = Append(@, ~valuelist(k))], ArrayOpening(~valuelist(k)))
          [] ~acc.skip /\ at(k).kind = "closeArray" -> close(acc, k)
          [] ~acc.skip /\ at(k).kind \in {"input", "result"} -> put(acc, items[k].value)
  IN  FoldLeft(print, [out |-> <<>>, structs |-> <<>>, skip |-> FALSE, ok |-> TRUE],
               [k \in DOMAIN items |-> k])

(* RequestResultTemplate::valid, findUnresolvedResultVariable                      *)
Valid(t) == NodesOf(t) = <<>> \/ templates[t] # <<>> \/ atm.results[t].contentvars
Unresolved(t) ==
  \E k \in DOMAIN templates[t] : LET node == NodesOf(t)[templates[t][k].node] IN
    node.kind = "result" /\ node.type \in {"required", "arrayNonEmpty"} /\ templates[t][k].value = <<>>

(* The input references of a template, resolved over one level.                    *)
ResolveInput(r, t, k) ==
  LET item == templates[t][k]
      node == NodesOf(t)[item.node]
      put(q) == [q EXCEPT !.items[k].value = IF q.out = <<Void>> THEN <<>> ELSE q.out]
  IN  IF ~r.ok THEN r
      ELSE put(ResolveItem([r EXCEPT !.out = <<>>], node, [from |-> item.from, to |-> item.to],
                           TagLevelRange(node.type, item.level, 1), Existing(varmap), FALSE, FALSE))
InputsResolved(r, t) ==
  FoldLeft(LAMBDA q, k : ResolveInput(q, t, k), [r EXCEPT !.items = templates[t]],
           Ordered({k \in DOMAIN templates[t] : NodesOf(t)[templates[t][k].node].kind = "input"}))

(* initResult, with the index it is given                                          *)
InitResult(r, t) ==
  LET printed(q) == IF ~q.ok THEN q
                    ELSE [q EXCEPT !.results = Append(@, [idx |-> t, content |-> Printed(q.items, NodesOf(t))])]
  IN  IF ~r.ok THEN r
      ELSE IF Unresolved(t) THEN [r EXCEPT !.err = "ValueUndefined", !.ok = FALSE]
      ELSE printed(InputsResolved(r, t))

(* getResultArray passes the position of the result in its array for the index of  *)
(* the template.                                                                   *)
GetResultArray ==
  LET valid == {t \in DOMAIN templates : Valid(t)}
  IN  FoldLeft(InitResult, [at |-> resolvers, err |-> itererr, ok |-> TRUE, obj |-> 0, out |-> <<>>,
                            items |-> <<>>, results |-> <<>>],
               [k \in 1..Cardinality(valid) |-> k])

Finish == FinishFailed \/ (Finished /\ \E r \in {GetResultArray} : FinishWith(r))

ExecutionNext ==
  \/ \E t \in Tag : FeedOpenTag(t)
  \/ FeedCloseTag
  \/ (AttributeName \/ AttributeValue \/ Content \/ Done) /\ UNCHANGED <<iteratorVars, executionVars>>
  \/ Start \/ Execute \/ Finish
ExecutionSpec == ExecutionInit /\ [][ExecutionNext]_allVars

-----------------------------------------------------------------------------
(* What is delivered is well nested: structures and arrays are closed in the       *)
(* reverse order, none is left open, wherever arrays end and go on (initResult).   *)
Depth(out, n) == Cardinality({i \in 1..n : out[i] = Open}) - Cardinality({i \in 1..n : out[i] = Close})
ResultsWellNested ==
  \A k \in DOMAIN results : LET c == results[k].content IN
    /\ c.ok /\ c.structs = <<>>
    /\ \A n \in DOMAIN c.out : Depth(c.out, n) >= 0
    /\ Depth(c.out, Len(c.out)) = 0

(* request.h:486, the list of all non empty results: those of the templates that   *)
(* the document has filled.                                                        *)
ResultsAreNonEmpty ==
  status = "ok" => {results[k].idx : k \in DOMAIN results} = {t \in DOMAIN templates : Valid(t)}
=============================================================================
