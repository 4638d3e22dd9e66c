---------------------------- MODULE MCPapugaStack ----------------------------
(* A buffer and nodes of two elements: pushes and pops cross node boundaries. *)
EXTENDS PapugaStack

CONSTANTS e1, e2

MCElem == {e1, e2}
=============================================================================
