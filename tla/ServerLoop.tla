------------------------------ MODULE ServerLoop ------------------------------
(***************************************************************************)
(* The main loop of the server: select, one datagram or one connection,    *)
(* and again.                                                              *)
(*                                                                         *)
(* A datagram is answered by the parent itself, a connection by a child    *)
(* that is forked for it.  The loop lives on two things that it does not   *)
(* give back: every directory that a handler lists stays open (the DIR is  *)
(* freed, not closed), and every child that ends stays a zombie (it is not *)
(* waited for).  What the handlers do to the files is in DirectoryServer   *)
(* and MessageBoard; here a datagram is what it opens.                     *)
(***************************************************************************)
EXTENDS Naturals, Sequences, FiniteSets

CONSTANTS
  Conns,       \* the client's ends of connections
  UdpBuffer,   \* bound: datagrams that the kernel keeps for the server
  Base,        \* the descriptors of a server that starts: stdio and two sockets
  MaxFds,      \* the descriptors that a process may have (RLIMIT_NOFILE)
  MaxForks,    \* the children that a process may have (RLIMIT_NPROC)
  MaxGroups    \* the last group number there is (99 in the code)

ASSUME LoopAssumption ==
  /\ IsFiniteSet(Conns) /\ UdpBuffer \in Nat \ {0} /\ MaxGroups \in Nat \ {0}
  /\ Base \in Nat /\ MaxFds \in Nat /\ Base <= MaxFds /\ MaxForks \in Nat

VARIABLES
  state,      \* of the parent: it runs, has left its loop, or has died
  pc,         \* where it is in its loop: see Places
  udp,        \* the datagrams that wait for it
  backlog,    \* the connections that have no child yet, in their order
  served,     \* the connections that have a child
  zombies,    \* the children that have ended and were not waited for
  fds,        \* the parent's open descriptors
  groups,     \* the groups there are
  nameless,   \* those among them that have no name.txt
  passless,   \* some account's directory has no pass.txt
  opened,     \* history: the directories opened since the server started
  forked,     \* history: the children forked since then
  overtaken   \* history: the connections accepted while a datagram waited

files   == <<groups, nameless, passless>>
history == <<opened, forked, overtaken>>
vars    == <<state, pc, udp, backlog, served, zombies, fds, files, history>>

(* What a datagram asks for, as far as it matters here:                    *)
(*   plain:      no file is opened: a refusal, GUR                         *)
(*   register:   REG of a user that there is not                           *)
(*   login:      LOG, OUT, and a UNR that gets no further than pass.txt    *)
(*   join:       GSR to a group there is, and that has a name              *)
(*   unregister: UNR;  found: GSR 00;  missing: GSR to a group that is     *)
(*               not there or has no name;  all: GLS;  mine: GLM           *)
Kinds  == {"plain", "register", "login", "join", "unregister", "found", "missing",
           "all", "mine"}
Places == {"select", "accept", "fork", "close"} \cup Kinds
States == {"run", "exited", "dead"}

Free == MaxFds - fds

Init ==
  /\ state = "exited" /\ pc = "select" /\ udp = 0 /\ backlog = << >> /\ served = {}
  /\ zombies = 0 /\ fds = Base /\ groups = 0 /\ nameless = 0 /\ passless = FALSE
  /\ opened = 0 /\ forked = 0 /\ overtaken = 0

Queued(c) == \E i \in DOMAIN backlog : backlog[i] = c

----------------------------------------------------------------------------
(* The clients and the kernel. *)

Datagram ==
  /\ state = "run" /\ udp < UdpBuffer /\ udp' = udp + 1
  /\ UNCHANGED <<state, pc, backlog, served, zombies, fds, files, history>>

Connect(c) ==
  /\ state = "run" /\ c \notin served /\ ~Queued(c)
  /\ backlog' = Append(backlog, c)
  /\ UNCHANGED <<state, pc, udp, served, zombies, fds, files, history>>

(* The child closes its connection and exits.  SIGCHLD is left at its      *)
(* default and nobody calls wait; init takes an orphan's children.         *)
ChildEnds(c) ==
  /\ c \in served /\ served' = served \ {c}
  /\ zombies' = IF state = "run" THEN zombies + 1 ELSE 0
  /\ UNCHANGED <<state, pc, udp, backlog, fds, files, history>>

(* The parent is gone, and the queues of its sockets. *)
End(how) ==
  /\ state' = how /\ pc' = "select" /\ udp' = 0 /\ backlog' = << >>
  /\ zombies' = 0 /\ fds' = Base
  /\ UNCHANGED <<served, files, history>>

(* A child has the UDP socket of its parent: bind fails until the last is  *)
(* gone, and init_udp ends the new server.                                 *)
Restart ==
  /\ state # "run" /\ served = {} /\ state' = "run"
  /\ opened' = 0 /\ forked' = 0 /\ overtaken' = 0
  /\ UNCHANGED <<pc, udp, backlog, served, zombies, fds, files>>

----------------------------------------------------------------------------
(* The loop. *)

(* Mutant of Select: the connection comes first. *)
ConnectionFirst ==
  /\ state = "run" /\ pc = "select"
  /\ \/ backlog # << >> /\ pc' = "accept" /\ UNCHANGED <<udp, overtaken>>
     \/ /\ backlog = << >> /\ udp > 0 /\ pc' \in Kinds /\ udp' = udp - 1
        /\ overtaken' = IF udp = 1 THEN 0 ELSE overtaken
  /\ UNCHANGED <<state, backlog, served, zombies, fds, files, opened, forked>>

(* Mutant of Select: the listening socket is not put into rset again. *)
ForgetsListening ==
  /\ state = "run" /\ pc = "select"
  /\ \/ /\ udp > 0 /\ pc' \in Kinds /\ udp' = udp - 1
        /\ overtaken' = IF udp = 1 THEN 0 ELSE overtaken
     \/ udp = 0 /\ backlog # << >> /\ forked = 0 /\ pc' = "accept" /\ UNCHANGED <<udp, overtaken>>
  /\ UNCHANGED <<state, backlog, served, zombies, fds, files, opened, forked>>

(* select and the tests behind it: a connection has its turn only when no  *)
(* datagram waits.                                                         *)
Select ==
  /\ state = "run" /\ pc = "select"
  /\ \/ /\ udp > 0 /\ pc' \in Kinds /\ udp' = udp - 1
        /\ overtaken' = IF udp = 1 THEN 0 ELSE overtaken
     \/ udp = 0 /\ backlog # << >> /\ pc' = "accept" /\ UNCHANGED <<udp, overtaken>>
  /\ UNCHANGED <<state, backlog, served, zombies, fds, files, opened, forked>>

(* fork fails when the children, the zombies among them, are too many. *)
CanFork == Cardinality(served) + zombies < MaxForks

(* accept gives the parent a descriptor for the connection; datagrams may  *)
(* have come since select.  Where accept fails the parent forks all the    *)
(* same, the child finds nothing to read and exits, and the parent ends    *)
(* its loop because it cannot close what it has not got.                   *)
Accept ==
  /\ state = "run" /\ pc = "accept"
  /\ \/ /\ Free > 0 /\ fds' = fds + 1 /\ pc' = "fork"
        /\ overtaken' = IF udp > 0 THEN overtaken + 1 ELSE overtaken
        /\ UNCHANGED <<state, udp, backlog, served, zombies, files, opened, forked>>
     \/ Free = 0 /\ End("exited")

(* The child takes the connection over, with a copy of the descriptor. *)
Fork ==
  /\ state = "run" /\ pc = "fork"
  /\ \/ /\ CanFork /\ forked' = forked + 1 /\ pc' = "close"
        /\ served' = served \cup {Head(backlog)} /\ backlog' = Tail(backlog)
        /\ UNCHANGED <<state, udp, zombies, fds, files, opened, overtaken>>
     \/ ~CanFork /\ End("exited")

(* Mutant of Released: the connection is left to the child that serves it. *)
NothingReleased == 0

(* The parent closes its own copy. *)
Released == 1

Close ==
  /\ state = "run" /\ pc = "close" /\ fds' = fds - Released /\ pc' = "select"
  /\ UNCHANGED <<state, udp, backlog, served, zombies, files, history>>

----------------------------------------------------------------------------
(* The handlers of datagrams. *)

(* opendir n times, as long as there are descriptors, and no closedir. *)
Open(n) ==
  LET k == IF n < Free THEN n ELSE Free
  IN  fds' = fds + k /\ opened' = opened + k

Answered ==
  pc' = "select" /\ UNCHANGED <<state, udp, backlog, served, zombies, forked, overtaken>>

Keep == UNCHANGED <<fds, files, opened>>

Plain == pc = "plain" /\ Answered /\ Keep

(* mkdir needs no descriptor, and the fopen of pass.txt does: the request  *)
(* is refused and the directory stays.                                     *)
Register ==
  /\ pc = "register" /\ Answered /\ UNCHANGED <<fds, opened, groups, nameless>>
  /\ passless' = (passless \/ Free = 0)

(* fopen of pass.txt or name.txt: fscanf of a NULL file ends the server.   *)
(* An account without a pass.txt may be the one that is named.             *)
ReadFile ==
  /\ pc \in {"login", "join"}
  /\ \/ Free > 0 /\ Answered /\ Keep
     \/ Free = 0 /\ End("dead")
     \/ pc = "login" /\ passless /\ End("dead")

(* delete_directory opens the user's directory, list_subdirectories that   *)
(* of the groups.                                                          *)
Unregister ==
  /\ pc = "unregister"
  /\ \/ Free > 0 /\ Open(2) /\ Answered /\ UNCHANGED files
     \/ Free = 0 /\ End("dead")

(* Mutant of Full: one group too many. *)
OneMore == groups > MaxGroups

(* new_id > 99 *)
Full == groups = MaxGroups

(* The groups are counted, for the number of the new one.  When their      *)
(* directory cannot be opened the count is 0, and 01 there is already, or  *)
(* is made without a name; with one descriptor the name cannot be written. *)
(* The answer "E_FULL" is prepared, and group 00 is opened all the same.   *)
Found ==
  /\ pc = "found"
  /\ \/ Free = 0 /\ groups > 0 /\ Answered /\ Keep
     \/ /\ Free = 0 /\ groups = 0 /\ groups' = 1 /\ nameless' = 1
        /\ Answered /\ UNCHANGED <<fds, opened, passless>>
     \/ /\ Free > 0 /\ ~Full /\ Open(1) /\ Answered /\ UNCHANGED passless
        /\ groups' = groups + 1
        /\ nameless' = IF Free = 1 THEN nameless + 1 ELSE nameless
     \/ Free > 0 /\ Full /\ End("dead")

(* fopen of the name of a group that is not there. *)
Missing == pc = "missing" /\ End("dead")

(* Mutant of Needs: the files of the names stay open to the end. *)
NamesStayOpen(n) == 2 * n + 1

(* The descriptors that a list of n groups takes: the groups' directory,   *)
(* that of each group's messages, and a name at a time.                    *)
Needs(n) == n + 2

(* The directory of the groups, and then of each group in the list its MSG *)
(* directory and its name.  Where the first cannot be opened the list is   *)
(* empty; where a name cannot be read the server dies.                     *)
List(n, unnamed) ==
  \/ Free = 0 /\ Answered /\ Keep
  \/ Free > 0 /\ n = 0 /\ Open(1) /\ Answered /\ UNCHANGED files
  \/ Free >= Needs(n) /\ n > 0 /\ ~unnamed /\ Open(n + 1) /\ Answered /\ UNCHANGED files
  \/ Free > 0 /\ n > 0 /\ (unnamed \/ Free < Needs(n)) /\ End("dead")

ListAll  == pc = "all" /\ List(groups, nameless > 0)

(* A group that has no name has no members either. *)
ListMine == pc = "mine" /\ \E n \in 0..(groups - nameless) : List(n, FALSE)

Handler ==
  /\ state = "run"
  /\ \/ Plain \/ Register \/ ReadFile \/ Unregister \/ Found \/ Missing \/ ListAll \/ ListMine

----------------------------------------------------------------------------
Loop == Select \/ Accept \/ Fork \/ Close \/ Handler

Next ==
  \/ Datagram \/ Restart \/ Loop
  \/ \E c \in Conns : Connect(c) \/ ChildEnds(c)

Spec == Init /\ [][Next]_vars

(* The parent does what it can.  Nothing is assumed of the clients, nor of *)
(* the children, which wait for them.                                      *)
FairSpec == Spec /\ WF_vars(Loop)

----------------------------------------------------------------------------
(* Properties. *)

(* Every variable has its type. *)
TypeOK ==
  /\ state \in States /\ pc \in Places /\ udp \in 0..UdpBuffer
  /\ backlog \in Seq(Conns) /\ served \subseteq Conns
  /\ zombies \in Nat /\ fds \in Base..MaxFds
  /\ groups \in 0..MaxGroups /\ nameless \in 0..groups /\ passless \in BOOLEAN
  /\ opened \in Nat /\ forked \in 0..MaxForks /\ overtaken \in Nat

(* One connection at most is accepted ahead of a datagram that waits.      *)
DatagramsFirst == overtaken <= 1

(* The server leaves its loop only when it has listed as many directories, *)
(* or forked as many children, as it may have since it started: the        *)
(* connections it has accepted cost it no descriptor.                      *)
LeavesOnlyExhausted ==
  [][state = "run" /\ state' = "exited"
       => opened = MaxFds - Base \/ forked = MaxForks]_vars

(* A datagram ends the server only when it names a group that is not       *)
(* there, asks for a hundredth group, or when the directories that the     *)
(* server has listed leave too few descriptors for one listing more -- now *)
(* or, where a group has no name or an account no password, when that was  *)
(* founded or registered.                                                  *)
DiesOnlyExhausted ==
  [][state = "run" /\ state' = "dead"
       => \/ pc = "missing" \/ (pc = "found" /\ groups = MaxGroups)
          \/ opened + groups + 2 > MaxFds - Base
          \/ nameless > 0 /\ pc = "all"
          \/ passless /\ pc = "login"]_vars

(* Once no datagrams come, a connection in the backlog is accepted, unless *)
(* the server ends before: no other connection keeps it waiting.           *)
ConnectionServed ==
  <>[](udp = 0) => \A c \in Conns : Queued(c) ~> ~Queued(c)
=============================================================================
