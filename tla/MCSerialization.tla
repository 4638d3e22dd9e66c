--------------------------- MODULE MCSerialization ---------------------------
(* Three chunks of two nodes: the head, one chunk reused and one allocated. *)
EXTENDS Serialization

CONSTANTS h, c1, c2

MCChunk == {h, c1, c2}
MCTag == {"Open", "Value"}
=============================================================================
