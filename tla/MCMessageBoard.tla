--------------------------- MODULE MCMessageBoard ---------------------------
(* The environments of the model-checked instances of MessageBoard. *)
EXTENDS MessageBoard, TLC

AllFaults   == FaultKinds
DurableFaults == FaultKinds \ {"flush", "open", "desert"}
=============================================================================
