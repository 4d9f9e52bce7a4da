------------------------------ MODULE Protocol ------------------------------
(***************************************************************************)
(* The requests that clients send to the directory server in datagrams,    *)
(* and the verb each is answered with.  Only well-formed requests: those   *)
(* that the checks of the client, and again of the server, let through.    *)
(***************************************************************************)
EXTENDS Naturals

CONSTANTS
  Uids,        \* user numbers
  Passes,      \* passwords
  GNames,      \* the group names that clients ask for; Blank may be one
  Blank,       \* the empty group name ("subscribe 00 ", with a blank at its end)
  MaxGroups    \* the last group number there is (99 in the code)

ASSUME ProtocolAssumption == MaxGroups \in Nat \ {0}

(* "00" asks for a new group. *)
NewGroup == 0
Gids     == 0..MaxGroups

AccountOps == {"REG", "UNR", "LOG", "OUT"}

Requests ==
  [op: AccountOps, uid: Uids, pass: Passes]
    \cup [op: {"GSR"}, uid: Uids, gid: Gids, name: GNames]
    \cup [op: {"GUR"}, uid: Uids, gid: Gids]
    \cup [op: {"GLM"}, uid: Uids]
    \cup [op: {"GLS"}]

Verb == [REG |-> "RRG", UNR |-> "RUN", LOG |-> "RLO", OUT |-> "ROU",
         GSR |-> "RGS", GUR |-> "RGU", GLM |-> "RGM", GLS |-> "RGL"]

Statuses == {"OK", "NOK", "DUP", "NEW", "E_USR", "E_GRP", "E_GNAME", "E_FULL"}
=============================================================================
