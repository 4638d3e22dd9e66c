--------------------------- MODULE ContextRegistry ---------------------------
(* What papuga_RequestHandler promises of its contexts, without copies, counts    *)
(* and threads: a registry of frozen sets of variables.  One update puts or drops *)
(* one entry, and what is published has no local variables.                       *)
CONSTANTS Key,       \* addresses (type, name) of contexts
          View,      \* what a context may show to those that inherit from it
          Clean(_),  \* the view has no local variables
          NULL

VARIABLE registry    \* key |-> view, or NULL when there is no such context

Init == registry = [k \in Key |-> NULL]

Transfer(k) == /\ registry' = [registry EXCEPT ![k] = registry'[k]]
               /\ registry'[k] # NULL /\ registry'[k] \in View /\ Clean(registry'[k])
Remove(k)   == registry[k] # NULL /\ registry' = [registry EXCEPT ![k] = NULL]

Next == \E k \in Key : Transfer(k) \/ Remove(k)

Spec == Init /\ [][Next]_registry
=============================================================================
