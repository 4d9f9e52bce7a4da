---------------------------- MODULE MCUserSession ----------------------------
(* The environments of the model-checked instances of UserSession. *)
EXTENDS UserSession

CONSTANTS c1, c2, u1, u2, a, b, n1

AllFaults == FaultKinds

(* The first user has an account and may found a group, leave it and list  *)
(* it; the second one only asks for the list of the groups.                *)
OneOwner ==
  [c \in Clients |->
     {q \in Requests :
        IF c = c1 THEN \/ q.op \in AccountOps \/ q.op = "GLM"
                       \/ q.op = "GSR" /\ q.gid = NewGroup
                       \/ q.op = "GUR" /\ q.gid # NewGroup
        ELSE q.op = "GLS"}]

(* Each user has an account.  The first one logs in with any password, and *)
(* the second one founds a group.                                          *)
TwoOwners ==
  [c \in Clients |->
     {q \in Requests :
        IF c = c1 THEN q.op \in {"REG", "LOG"} /\ q.uid = u1
        ELSE \/ q.op \in {"REG", "LOG"} /\ q.uid = u2 /\ q.pass = a
             \/ q.op = "GSR" /\ q.uid = u2 /\ q.gid = NewGroup}]
=============================================================================
