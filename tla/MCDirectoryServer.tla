------------------------ MODULE MCDirectoryServer ------------------------
(* The environments of the model-checked instances of DirectoryServer. *)
EXTENDS DirectoryServer, TLC

AllFaults == FaultKinds

Uid2 == Permutations(Uids)
=============================================================================
