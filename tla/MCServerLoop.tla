----------------------------- MODULE MCServerLoop -----------------------------
(* The connections of the model-checked instance of ServerLoop. *)
EXTENDS ServerLoop

CONSTANTS c1, c2
=============================================================================
