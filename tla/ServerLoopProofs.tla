-------------------------- MODULE ServerLoopProofs --------------------------
(***************************************************************************)
(* Theorems about ServerLoop, for any number of connections, and for any   *)
(* number of descriptors, children and groups that a server may have.      *)
(***************************************************************************)
EXTENDS ServerLoop, FiniteSetTheorems, TLAPS

(***************************************************************************)
(* The inductive invariant.                                                *)
(***************************************************************************)

(* A server that has ended holds nothing: its sockets were closed and its  *)
(* zombies taken.                                                          *)
Resting ==
  state # "run" =>
    /\ pc = "select" /\ udp = 0 /\ backlog = << >>
    /\ zombies = 0 /\ fds = Base

(* select found no datagram when it chose a connection, so that the one    *)
(* accepted next is the first to overtake any.                             *)
Turn ==
  state = "run" =>
    /\ udp = 0 \/ pc = "accept" => overtaken = 0
    /\ pc \in {"accept", "fork"} => backlog # << >>

(* A client's connection waits once, and has no child while it does.       *)
Lines ==
  /\ \A i, j \in DOMAIN backlog : backlog[i] = backlog[j] => i = j
  /\ \A i \in DOMAIN backlog : backlog[i] \notin served

(* Every child that was forked runs or is a zombie.                        *)
Counted == state = "run" => forked = Cardinality(served) + zombies

(* The parent has open what it started with, the directories that it has   *)
(* listed, and the connection it is just handing on.                       *)
InHand == IF pc \in {"fork", "close"} THEN 1 ELSE 0

DescriptorsAccounted == state = "run" => fds = Base + opened + InHand

LInv ==
  /\ TypeOK /\ Resting /\ Turn /\ Lines /\ Counted
  /\ DescriptorsAccounted /\ DatagramsFirst

(***************************************************************************)
(* Lemmas.                                                                 *)
(***************************************************************************)

(* The children that run are finitely many.                                *)
LEMMA ServedFinite ==
  ASSUME TypeOK
  PROVE  IsFiniteSet(served) /\ Cardinality(served) \in Nat
<1>1. IsFiniteSet(served)
  BY FS_Subset, LoopAssumption DEF TypeOK
<1> QED
  BY <1>1, FS_CardinalityType

(* A connection at the end of a line.                                      *)
LEMMA AtTheEnd ==
  ASSUME NEW s \in Seq(Conns), NEW c \in Conns
  PROVE  /\ Append(s, c) \in Seq(Conns)
         /\ DOMAIN Append(s, c) = DOMAIN s \cup {Len(s) + 1}
         /\ \A i \in DOMAIN s : Append(s, c)[i] = s[i]
         /\ Append(s, c)[Len(s) + 1] = c
OBVIOUS

(* A line without its first connection.                                    *)
LEMMA WithoutTheFirst ==
  ASSUME NEW s \in Seq(Conns), s # << >>
  PROVE  /\ Head(s) \in Conns /\ Head(s) = s[1] /\ 1 \in DOMAIN s
         /\ Tail(s) \in Seq(Conns)
         /\ \A i \in DOMAIN Tail(s) : i + 1 \in DOMAIN s /\ i + 1 # 1 /\ Tail(s)[i] = s[i + 1]
OBVIOUS

(* The end of the parent.                                                  *)
LEMMA EndKeepsInv ==
  ASSUME LInv, NEW how \in {"exited", "dead"}, End(how)
  PROVE  LInv'
<1> USE DEF LInv, End, files, history
<1>1. TypeOK'
  BY LoopAssumption DEF TypeOK, States, Places
<1>2. Resting' /\ Turn' /\ Counted' /\ DescriptorsAccounted' /\ DatagramsFirst'
  BY DEF Resting, Turn, Counted, DescriptorsAccounted, InHand, DatagramsFirst
<1>3. Lines'
  BY DEF Lines
<1> QED
  BY <1>1, <1>2, <1>3

(* A handler that comes to its end with n directories more, left open.     *)
LEMMA AnsweredKeepsInv ==
  ASSUME LInv, state = "run", Answered, NEW n \in Nat, n <= Free,
         pc \in Kinds, fds' = fds + n, opened' = opened + n,
         groups' \in 0..MaxGroups, nameless' \in 0..groups', passless' \in BOOLEAN
  PROVE  LInv'
<1> USE DEF LInv, Answered
<1>1. TypeOK'
  BY LoopAssumption DEF TypeOK, Places, Free
<1>2. Resting' /\ Lines' /\ Counted' /\ DatagramsFirst'
  BY DEF Resting, Lines, Counted, DatagramsFirst
<1>3. Turn'
  BY DEF Turn
<1>4. DescriptorsAccounted'
  BY LoopAssumption DEF DescriptorsAccounted, InHand, TypeOK, Kinds
<1> QED
  BY <1>1, <1>2, <1>3, <1>4

(* What Open(n) opens.                                                     *)
LEMMA Opened ==
  ASSUME TypeOK, NEW n \in Nat, Open(n)
  PROVE  \E k \in Nat : k <= Free /\ fds' = fds + k /\ opened' = opened + k
BY LoopAssumption DEF TypeOK, Open, Free

(* A list of groups, given out or died of.                                 *)
LEMMA ListKeepsInv ==
  ASSUME LInv, state = "run", pc \in Kinds,
         NEW n \in 0..groups, NEW unnamed \in BOOLEAN, List(n, unnamed)
  PROVE  LInv'
<1>1. CASE Free = 0 /\ Answered /\ Keep
  BY <1>1, AnsweredKeepsInv, LoopAssumption DEF Keep, files, LInv, TypeOK, Free
<1>2. CASE \E k \in {1, n + 1} : Open(k) /\ Answered /\ UNCHANGED files
  <2>1. PICK k \in Nat : k <= Free /\ fds' = fds + k /\ opened' = opened + k
    BY <1>2, Opened DEF LInv
  <2> QED
    BY <1>2, <2>1, AnsweredKeepsInv DEF files, LInv, TypeOK
<1>3. CASE End("dead")
  BY <1>3, EndKeepsInv
<1> QED
  BY <1>1, <1>2, <1>3 DEF List

(* A connection is accepted, or ends the loop.                             *)
LEMMA AcceptKeepsInv ==
  ASSUME LInv, Accept
  PROVE  LInv'
<1>1. CASE Free = 0 /\ End("exited")
  BY <1>1, EndKeepsInv
<1>2. CASE /\ Free > 0 /\ fds' = fds + 1 /\ pc' = "fork"
           /\ overtaken' = IF udp > 0 THEN overtaken + 1 ELSE overtaken
           /\ UNCHANGED <<state, udp, backlog, served, zombies, files, opened, forked>>
  <2>1. state = "run" /\ pc = "accept" /\ backlog # << >> /\ overtaken = 0
    BY DEF Accept, LInv, Turn
  <2>2. TypeOK'
    BY <1>2, <2>1, LoopAssumption DEF LInv, TypeOK, Places, Free, files
  <2>3. Resting' /\ Turn' /\ Lines' /\ Counted' /\ DatagramsFirst'
    BY <1>2, <2>1 DEF LInv, Resting, Turn, Lines, Counted, DatagramsFirst, TypeOK
  <2>4. DescriptorsAccounted'
    BY <1>2, <2>1, LoopAssumption DEF LInv, TypeOK, DescriptorsAccounted, InHand
  <2> QED
    BY <2>2, <2>3, <2>4 DEF LInv
<1> QED
  BY <1>1, <1>2 DEF Accept

(* A connection gets its child, or ends the loop.                          *)
LEMMA ForkKeepsInv ==
  ASSUME LInv, Fork
  PROVE  LInv'
<1>1. CASE ~CanFork /\ End("exited")
  BY <1>1, EndKeepsInv
<1>2. CASE /\ CanFork /\ forked' = forked + 1 /\ pc' = "close"
           /\ served' = served \cup {Head(backlog)} /\ backlog' = Tail(backlog)
           /\ UNCHANGED <<state, udp, zombies, fds, files, opened, overtaken>>
  <2>1. state = "run" /\ pc = "fork" /\ backlog # << >>
    BY DEF Fork, LInv, Turn
  <2>2. /\ Head(backlog) \in Conns /\ Head(backlog) = backlog[1] /\ 1 \in DOMAIN backlog
        /\ Tail(backlog) \in Seq(Conns)
        /\ \A i \in DOMAIN Tail(backlog) :
             i + 1 \in DOMAIN backlog /\ i + 1 # 1 /\ Tail(backlog)[i] = backlog[i + 1]
    BY <2>1, WithoutTheFirst DEF LInv, TypeOK
  <2>3. Head(backlog) \notin served
    BY <2>2 DEF LInv, Lines
  <2>4. IsFiniteSet(served) /\ Cardinality(served) \in Nat
    BY ServedFinite DEF LInv
  <2>5. Cardinality(served') = Cardinality(served) + 1
    BY <1>2, <2>3, <2>4, FS_AddElement
  <2>6. forked = Cardinality(served) + zombies /\ forked < MaxForks
    BY <1>2, <2>1 DEF LInv, Counted, CanFork
  <2>7. TypeOK'
    <3>1. backlog' \in Seq(Conns) /\ served' \subseteq Conns
      BY <1>2, <2>2 DEF LInv, TypeOK
    <3> QED
      BY <1>2, <2>6, <3>1, LoopAssumption DEF LInv, TypeOK, Places, files
  <2>8. Resting' /\ Turn' /\ DescriptorsAccounted' /\ DatagramsFirst'
    BY <1>2, <2>1 DEF LInv, Resting, Turn, DescriptorsAccounted, InHand, DatagramsFirst, TypeOK
  <2>9. Counted'
    BY <1>2, <2>1, <2>4, <2>5, <2>6 DEF LInv, Counted, TypeOK
  <2>10. Lines'
    <3>1. ASSUME NEW i \in DOMAIN Tail(backlog), NEW j \in DOMAIN Tail(backlog),
                 Tail(backlog)[i] = Tail(backlog)[j]
          PROVE  i = j
      <4>1. i + 1 = j + 1
        BY <2>2, <3>1 DEF LInv, Lines
      <4>2. i \in Nat /\ j \in Nat
        BY <2>2, <3>1
      <4> QED
        BY <4>1, <4>2
    <3>2. ASSUME NEW i \in DOMAIN Tail(backlog)
          PROVE  Tail(backlog)[i] \notin served \cup {Head(backlog)}
      BY <2>2, <3>2 DEF LInv, Lines
    <3> QED
      BY <1>2, <3>1, <3>2 DEF Lines
  <2> QED
    BY <2>7, <2>8, <2>9, <2>10 DEF LInv
<1> QED
  BY <1>1, <1>2 DEF Fork

(* The parent gives its copy of the connection back.                       *)
LEMMA CloseKeepsInv ==
  ASSUME LInv, Close
  PROVE  LInv'
<1>1. fds = Base + opened + 1 /\ fds' = fds - 1
  BY DEF Close, LInv, DescriptorsAccounted, InHand, Released
<1>2. TypeOK'
  BY <1>1, LoopAssumption DEF Close, LInv, TypeOK, Places, files, history
<1>3. Resting' /\ Turn' /\ Lines' /\ Counted' /\ DatagramsFirst'
  BY DEF Close, LInv, Resting, Turn, Lines, Counted, DatagramsFirst, files, history
<1>4. DescriptorsAccounted'
  BY <1>1, LoopAssumption DEF Close, LInv, TypeOK, DescriptorsAccounted, InHand, history
<1> QED
  BY <1>2, <1>3, <1>4 DEF LInv

(* A datagram is answered, or ends the server.                             *)
LEMMA HandlerKeepsInv ==
  ASSUME LInv, Handler
  PROVE  LInv'
<1> state = "run" /\ pc \in Kinds
  BY DEF Handler, Kinds, Plain, Register, ReadFile, Unregister, Found, Missing, ListAll, ListMine
<1>1. CASE Answered /\ Keep
  BY <1>1, AnsweredKeepsInv, LoopAssumption DEF Keep, files, LInv, TypeOK, Free
<1>2. CASE End("dead")
  BY <1>2, EndKeepsInv
<1>3. CASE Unregister
  <2>1. CASE Open(2) /\ Answered /\ UNCHANGED files
    <3>1. PICK k \in Nat : k <= Free /\ fds' = fds + k /\ opened' = opened + k
      BY <2>1, Opened DEF LInv
    <3> QED
      BY <2>1, <3>1, AnsweredKeepsInv DEF files, LInv, TypeOK
  <2> QED
    BY <1>2, <1>3, <2>1 DEF Unregister
<1>4. CASE Found
  <2>1. CASE /\ Free = 0 /\ groups = 0 /\ groups' = 1 /\ nameless' = 1
             /\ Answered /\ UNCHANGED <<fds, opened, passless>>
    BY <2>1, AnsweredKeepsInv, LoopAssumption DEF LInv, TypeOK, Free
  <2>2. CASE /\ Free > 0 /\ ~Full /\ Open(1) /\ Answered /\ UNCHANGED passless
             /\ groups' = groups + 1
             /\ nameless' = IF Free = 1 THEN nameless + 1 ELSE nameless
    <3>1. PICK k \in Nat : k <= Free /\ fds' = fds + k /\ opened' = opened + k
      BY <2>2, Opened DEF LInv
    <3>2. groups' \in 0..MaxGroups /\ nameless' \in 0..groups' /\ passless' \in BOOLEAN
      BY <2>2, LoopAssumption DEF LInv, TypeOK, Full
    <3> QED
      BY <2>2, <3>1, <3>2, AnsweredKeepsInv
  <2> QED
    BY <1>1, <1>2, <1>4, <2>1, <2>2 DEF Found
<1>5. CASE ListAll
  <2>1. groups \in 0..groups /\ (nameless > 0) \in BOOLEAN
    BY LoopAssumption DEF LInv, TypeOK
  <2> QED
    BY <1>5, <2>1, ListKeepsInv DEF ListAll
<1>6. CASE ListMine
  <2>1. PICK n \in 0..(groups - nameless) : List(n, FALSE)
    BY <1>6 DEF ListMine
  <2>2. n \in 0..groups
    BY LoopAssumption DEF LInv, TypeOK
  <2> QED
    BY <2>1, <2>2, ListKeepsInv
<1>7. CASE Register
  BY <1>7, AnsweredKeepsInv, LoopAssumption DEF Register, LInv, TypeOK, Free
<1> QED
  BY <1>1, <1>2, <1>3, <1>4, <1>5, <1>6, <1>7 DEF Handler, Plain, ReadFile, Missing

(* The invariant holds of a server that was never started.                 *)
LEMMA InitInv ==
  ASSUME Init
  PROVE  LInv
<1>1. TypeOK
  <2>1. backlog \in Seq(Conns) /\ served \subseteq Conns
    BY DEF Init
  <2>2. passless \in BOOLEAN
    BY DEF Init
  <2>3. nameless \in 0..groups /\ groups \in 0..MaxGroups /\ fds \in Base..MaxFds
    BY LoopAssumption DEF Init
  <2> QED
    BY <2>1, <2>2, <2>3, LoopAssumption DEF Init, TypeOK, States, Places
<1>2. Resting /\ Turn /\ Counted /\ DescriptorsAccounted /\ DatagramsFirst
  BY DEF Init, Resting, Turn, Counted, DescriptorsAccounted, InHand, DatagramsFirst
<1>3. Lines
  BY DEF Init, Lines
<1> QED
  BY <1>1, <1>2, <1>3 DEF LInv

(* The clients, the kernel and the operator keep the invariant.            *)
LEMMA OutsideKeepsInv ==
  ASSUME LInv,
         Datagram \/ Restart \/ \E c \in Conns : Connect(c) \/ ChildEnds(c)
  PROVE  LInv'
<1>1. CASE Datagram
  <2>1. TypeOK'
    BY <1>1, LoopAssumption DEF Datagram, LInv, TypeOK, files, history
  <2>2. Resting' /\ Turn' /\ Lines' /\ Counted' /\ DescriptorsAccounted' /\ DatagramsFirst'
    BY <1>1, LoopAssumption DEF Datagram, LInv, TypeOK, Resting, Turn, Lines, Counted, DescriptorsAccounted, InHand,
                DatagramsFirst, files, history
  <2> QED
    BY <2>1, <2>2 DEF LInv
<1>2. CASE Restart
  <2>1. TypeOK'
    BY <1>2, LoopAssumption DEF Restart, LInv, TypeOK, States, files
  <2>2. Counted'
    BY <1>2, FS_EmptySet DEF Restart, LInv, Counted, Resting
  <2>3. Resting' /\ Turn' /\ Lines' /\ DescriptorsAccounted' /\ DatagramsFirst'
    BY <1>2, LoopAssumption DEF Restart, LInv, Resting, Turn, Lines, DescriptorsAccounted, InHand,
                                DatagramsFirst, files
  <2> QED
    BY <2>1, <2>2, <2>3 DEF LInv
<1>3. ASSUME NEW c \in Conns, Connect(c)
      PROVE  LInv'
  <2>1. /\ Append(backlog, c) \in Seq(Conns)
        /\ DOMAIN Append(backlog, c) = DOMAIN backlog \cup {Len(backlog) + 1}
        /\ \A i \in DOMAIN backlog : Append(backlog, c)[i] = backlog[i]
        /\ Append(backlog, c)[Len(backlog) + 1] = c
    BY AtTheEnd DEF LInv, TypeOK
  <2>2. c \notin served /\ \A i \in DOMAIN backlog : backlog[i] # c
    BY <1>3 DEF Connect, Queued
  <2>3. TypeOK'
    BY <1>3, <2>1 DEF Connect, LInv, TypeOK, files, history
  <2>4. Lines'
    BY <1>3, <2>1, <2>2 DEF Connect, LInv, Lines
  <2>5. Turn'
    <3>1. Append(backlog, c) # << >>
      BY <2>1
    <3> QED
      BY <1>3, <3>1 DEF Connect, LInv, Turn, history
  <2>6. Resting' /\ Counted' /\ DescriptorsAccounted' /\ DatagramsFirst'
    BY <1>3 DEF Connect, LInv, Resting, Counted, DescriptorsAccounted, InHand, DatagramsFirst,
                files, history
  <2> QED
    BY <2>3, <2>4, <2>5, <2>6 DEF LInv
<1>4. ASSUME NEW c \in Conns, ChildEnds(c)
      PROVE  LInv'
  <2>1. IsFiniteSet(served) /\ Cardinality(served) \in Nat
    BY ServedFinite DEF LInv
  <2>2. Cardinality(served \ {c}) = Cardinality(served) - 1
    BY <1>4, <2>1, FS_RemoveElement DEF ChildEnds
  <2>3. TypeOK'
    BY <1>4 DEF ChildEnds, LInv, TypeOK, files, history
  <2>4. Counted'
    BY <1>4, <2>1, <2>2 DEF ChildEnds, LInv, Counted, TypeOK, history
  <2>5. Resting' /\ Turn' /\ Lines' /\ DescriptorsAccounted' /\ DatagramsFirst'
    BY <1>4 DEF ChildEnds, LInv, Resting, Turn, Lines, DescriptorsAccounted, InHand, DatagramsFirst,
                files, history
  <2> QED
    BY <2>3, <2>4, <2>5 DEF LInv
<1> QED
  BY <1>1, <1>2, <1>3, <1>4

(* select keeps the invariant.                                             *)
LEMMA SelectKeepsInv ==
  ASSUME LInv, Select
  PROVE  LInv'
<1>1. TypeOK'
  BY LoopAssumption DEF Select, LInv, TypeOK, Places, files
<1>2. Turn'
  BY DEF Select, LInv, Turn, TypeOK, Kinds
<1>3. Resting' /\ Lines' /\ Counted' /\ DescriptorsAccounted' /\ DatagramsFirst'
  BY DEF Select, LInv, Resting, Lines, Counted, DescriptorsAccounted, InHand, DatagramsFirst,
         Kinds, files
<1> QED
  BY <1>1, <1>2, <1>3 DEF LInv

(* A step that changes nothing keeps the invariant.                        *)
LEMMA StutterKeepsInv ==
  ASSUME LInv, UNCHANGED vars
  PROVE  LInv'
BY DEF vars, files, history, LInv, TypeOK, Resting, Turn, Lines, Counted,
       DescriptorsAccounted, InHand, DatagramsFirst

(* The invariant is inductive.                                             *)
LEMMA NextKeepsInv ==
  ASSUME LInv, [Next]_vars
  PROVE  LInv'
BY OutsideKeepsInv, SelectKeepsInv, AcceptKeepsInv, ForkKeepsInv, CloseKeepsInv,
   HandlerKeepsInv, StutterKeepsInv DEF Next, Loop

(* The main loop never leaves the invariant.                               *)
THEOREM Invariance == Spec => []LInv
<1>1. Init => LInv
  BY InitInv
<1>2. LInv /\ [Next]_vars => LInv'
  BY NextKeepsInv
<1> QED
  BY <1>1, <1>2, PTL DEF Spec

(***************************************************************************)
(* What the main loop is shown to do.                                      *)
(***************************************************************************)

(* Every variable has its type: no server opens more descriptors, forks    *)
(* more children, or founds more groups than there may be.                 *)
THEOREM TypeCorrect == Spec => []TypeOK
<1>1. LInv => TypeOK
  BY DEF LInv
<1> QED
  BY <1>1, Invariance, PTL

(* At most one connection is accepted ahead of a datagram that waits.      *)
THEOREM DatagramsComeFirst == Spec => []DatagramsFirst
<1>1. LInv => DatagramsFirst
  BY DEF LInv
<1> QED
  BY <1>1, Invariance, PTL

(* The parent leaves its loop for one of two reasons: all its descriptors  *)
(* are taken by directories it has listed, or it has forked as many        *)
(* children as it may have.                                                *)
THEOREM ExhaustionEndsTheLoop == Spec => LeavesOnlyExhausted
<1>1. ASSUME LInv, [Next]_vars, state = "run", state' = "exited"
      PROVE  opened = MaxFds - Base \/ forked = MaxForks
  <2>1. (Accept /\ Free = 0) \/ (Fork /\ ~CanFork)
    BY <1>1 DEF Next, Datagram, Restart, Loop, Connect, ChildEnds, Select, Accept, Fork, Close,
                Handler, Plain, Register, ReadFile, Unregister, Found, Missing, ListAll, ListMine, List,
                Answered, End, vars
  <2>2. IsFiniteSet(served) /\ Cardinality(served) \in Nat
    BY <1>1, ServedFinite DEF LInv
  <2>3. CASE Accept /\ Free = 0
    BY <1>1, <2>3, LoopAssumption DEF LInv, TypeOK, DescriptorsAccounted, InHand, Accept, Free
  <2>4. CASE Fork /\ ~CanFork
    BY <1>1, <2>2, <2>4, LoopAssumption DEF LInv, TypeOK, Counted, CanFork
  <2> QED
    BY <2>1, <2>3, <2>4
<1>2. LInv /\ [Next]_vars
        => [state = "run" /\ state' = "exited"
              => opened = MaxFds - Base \/ forked = MaxForks]_vars
  BY <1>1
<1> QED
  BY <1>2, Invariance, PTL DEF Spec, LeavesOnlyExhausted

(* A list of n of the groups, with names or not, ends the server only when *)
(* the directories listed before leave too few descriptors for it, or a    *)
(* name is missing.                                                        *)
LEMMA ListEndsExhausted ==
  ASSUME LInv, state = "run", state' = "dead", pc \in Kinds, NEW n \in 0..groups,
         NEW unnamed \in BOOLEAN, List(n, unnamed)
  PROVE  opened + groups + 2 > MaxFds - Base \/ unnamed
<1>1. unnamed \/ Free < Needs(n)
  BY DEF List, Answered
<1> QED
  BY <1>1, LoopAssumption DEF LInv, TypeOK, DescriptorsAccounted, InHand, Kinds, Free, Needs

(* A datagram ends the server only over a group that is not there, over a  *)
(* hundredth group, or when earlier listings have taken the descriptors    *)
(* that one listing more needs, or had taken those that a group's name or  *)
(* an account's password was to be written with.                           *)
THEOREM ExhaustionKills == Spec => DiesOnlyExhausted
<1> DEFINE Reason == \/ pc = "missing" \/ (pc = "found" /\ groups = MaxGroups)
                     \/ opened + groups + 2 > MaxFds - Base
                     \/ nameless > 0 /\ pc = "all"
                     \/ passless /\ pc = "login"
<1>1. ASSUME LInv, [Next]_vars, state = "run", state' = "dead"
      PROVE  Reason
  <2>1. Handler
    BY <1>1 DEF Next, Datagram, Restart, Loop, Connect, ChildEnds, Select, Accept, Fork, Close,
                End, vars
  <2> pc \in Kinds
    BY <2>1 DEF Handler, Kinds, Plain, Register, ReadFile, Unregister, Found, Missing,
                ListAll, ListMine
  <2>2. ASSUME Free = 0
        PROVE  opened + groups + 2 > MaxFds - Base
    BY <1>1, <2>2, LoopAssumption DEF LInv, TypeOK, DescriptorsAccounted, InHand, Kinds, Free
  <2>3. CASE Plain \/ Register \/ ReadFile \/ Unregister \/ Missing
    BY <1>1, <2>2, <2>3 DEF Plain, Register, ReadFile, Unregister, Missing, Answered
  <2>4. CASE Found
    BY <1>1, <2>4 DEF Found, Full, Answered
  <2>5. CASE ListAll
    <3>1. groups \in 0..groups /\ (nameless > 0) \in BOOLEAN
      BY <1>1, LoopAssumption DEF LInv, TypeOK
    <3> QED
      BY <1>1, <2>5, <3>1, ListEndsExhausted DEF ListAll
  <2>6. CASE ListMine
    <3>1. PICK n \in 0..(groups - nameless) : List(n, FALSE)
      BY <2>6 DEF ListMine
    <3>2. n \in 0..groups
      BY <1>1, LoopAssumption DEF LInv, TypeOK
    <3> QED
      BY <1>1, <3>1, <3>2, ListEndsExhausted
  <2> QED
    BY <2>1, <2>3, <2>4, <2>5, <2>6 DEF Handler
<1>2. LInv /\ [Next]_vars => [state = "run" /\ state' = "dead" => Reason]_vars
  BY <1>1
<1> QED
  BY <1>2, Invariance, PTL DEF Spec, DiesOnlyExhausted
=============================================================================
