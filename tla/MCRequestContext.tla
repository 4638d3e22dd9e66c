--------------------------- MODULE MCRequestContext ---------------------------
(* Three contexts, of which two can be published and one inherit from both; two   *)
(* updates of the map; two names and a local one.                                  *)
EXTENDS RequestContext, TLC

CONSTANTS t1, t2, c1, c2, c3, k1, k2, x, z, _y

MCThread == {t1, t2}
MCCtx == {c1, c2, c3}
MCKey == {k1, k2}
MCSymmetry == Permutations(MCThread) \cup Permutations(MCCtx) \cup Permutations(MCKey)
                \cup Permutations({x, z})

(* A definition that fails counts for two                                          *)
FailuresBounded == nvars + Cardinality({v \in DOMAIN var : ~var[v].defined}) <= MaxVars
=============================================================================
