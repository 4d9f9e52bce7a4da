------------------------------ MODULE MessageLog ------------------------------
(***************************************************************************)
(* What the message directory of a group promises to those who post: a log *)
(* in which each post takes the next number, once; a number that was taken *)
(* is never given to another post; and a post is acknowledged only after   *)
(* its message can be read whole.                                          *)
(***************************************************************************)
EXTENDS Naturals

CONSTANT Posters

VARIABLES
  last,     \* the last number taken
  number,   \* the number of each post, 0 as long as it has none
  whole,    \* the posts whose message is complete
  acked     \* the posts that were acknowledged

log == <<last, number, whole, acked>>

Init ==
  /\ last = 0 /\ number = [p \in Posters |-> 0]
  /\ whole = {} /\ acked = {}

Take(p) ==
  /\ number[p] = 0
  /\ last' = last + 1
  /\ number' = [number EXCEPT ![p] = last + 1]
  /\ UNCHANGED <<whole, acked>>

Complete(p) ==
  /\ number[p] # 0
  /\ whole' = whole \cup {p}
  /\ UNCHANGED <<last, number, acked>>

Acknowledge(p) ==
  /\ p \in whole
  /\ acked' = acked \cup {p}
  /\ UNCHANGED <<last, number, whole>>

Next == \E p \in Posters : Take(p) \/ Complete(p) \/ Acknowledge(p)

Spec == Init /\ [][Next]_log
=============================================================================
