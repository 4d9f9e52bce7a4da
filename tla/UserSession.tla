----------------------------- MODULE UserSession -----------------------------
(***************************************************************************)
(* The user clients, their sessions, and the datagrams between them and    *)
(* the directory server.                                                   *)
(*                                                                         *)
(* A client sends a request and waits at most 15 seconds for a datagram,   *)
(* whichever comes.  Nothing in a datagram says which request it answers:  *)
(* the client compares its first word with the verb it expects, prints an  *)
(* error when they differ (EXPECT, debug.h), and goes on.  When none comes *)
(* the command returns FERROR, which is 0, what the prompt's loop ends on: *)
(* the client is gone, without a logout, and its user starts another.      *)
(* The server is what the module Directory promises, and DirectoryServer   *)
(* implements.                                                             *)
(***************************************************************************)
EXTENDS Protocol, FiniteSets, SequencesExt

CONSTANTS
  Clients,     \* the users at their terminals, with one client each at a time
  Typed,       \* the requests that each of them may ask for
  Posters,     \* those of them who post
  Faults,      \* what the environment may do, see FaultKinds
  MaxTrouble,  \* bound: how often the environment does it
  NoUser,      \* uid[0] = '\0': nobody is logged in
  NoGroup,     \* gid[0] = '\0': no group is selected
  NoCommand,   \* no request: the client waits for none, a datagram answers none
  Nobody,      \* an address that no client has
  NoAccount, NoResult

(* loss:  a datagram is lost                                               *)
(* delay: an answer comes after its client's 15 seconds                    *)
(* stray: a post fails, and its child reports that in a datagram           *)
(* stop:  the server stops; somebody starts it again                       *)
FaultKinds == {"loss", "delay", "stray", "stop"}

ASSUME SessionAssumption ==
  /\ Typed \in [Clients -> SUBSET Requests] /\ Posters \subseteq Clients
  /\ Faults \subseteq FaultKinds
  /\ MaxTrouble \in Nat
  /\ NoUser \notin Uids /\ NoGroup \notin Gids
  /\ NoCommand \notin Requests /\ Nobody \notin Clients /\ NoAccount \notin Passes

VARIABLES
  account, logged, groups, result, up,   \* the server: see Directory
  trouble,   \* how often the environment has done something of Faults
  peer,      \* the server's udp_info->addr: who sent the last datagram
  heard,     \* the copy of it that the child of a client's post was forked with
  socket,    \* the requests that wait for the server, and their senders
  inbox,     \* the answers on their way to a client, or in its socket
  session,   \* uid, pass and gid of each client's session_context_t
  stage,     \* where each client is
  cmd,       \* the request whose answer it waits for
  muddled    \* history: a stray datagram has come to the client

directory == <<account, logged, groups, result, up>>
network   == <<trouble, peer, heard, socket, inbox>>
client    == <<session, stage, cmd, muddled>>
vars      == <<directory, network, client>>

Server == INSTANCE Directory

(* The second word of an answer: a status, or the number of groups. *)
Words    == Statuses \cup {"N"}
Datagram == [re: Requests \cup {NoCommand}, word: Words]
Address  == Clients \cup {Nobody}

(* queued: connected for a post, in the backlog of the server; posting: the *)
(* server has forked a child for it; cut: nobody is at the other end of the *)
(* connection that the client reads from.                                   *)
Stages  == {"prompt", "await", "leaving", "queued", "posting", "cut", "gone"}
Session == [uid: Uids \cup {NoUser}, pass: Passes \cup {NoUser}, gid: Gids \cup {NoGroup}]

Waiting(c)  == stage[c] \in {"await", "leaving"}
LoggedIn(c) == session[c].uid # NoUser

(* init_session: the session of a client that starts. *)
Fresh == [uid |-> NoUser, pass |-> NoUser, gid |-> NoGroup]

Init ==
  /\ Server!Init
  /\ trouble = 0 /\ peer = Nobody /\ heard = [c \in Clients |-> Nobody]
  /\ socket = << >> /\ inbox = [c \in Clients |-> << >>]
  /\ session = [c \in Clients |-> Fresh] /\ stage = [c \in Clients |-> "gone"]
  /\ cmd = [c \in Clients |-> NoCommand] /\ muddled = [c \in Clients |-> FALSE]

May(fault)     == fault \in Faults /\ trouble < MaxTrouble
Happens(fault) == May(fault) /\ trouble' = trouble + 1

----------------------------------------------------------------------------
(* The server and the network. *)

(* The parent takes a datagram and does what it asks for. *)
Take ==
  /\ up /\ result = NoResult /\ socket # << >>
  /\ Server!Do(Head(socket).req) /\ peer' = Head(socket).from
  /\ socket' = Tail(socket)
  /\ UNCHANGED <<up, trouble, heard, inbox, client>>

(* Mutant of SecondWord: the client reads one word too few. *)
FirstWord(r) == r.req.op

(* The word of an answer that a client acts on. *)
SecondWord(r) == IF r.req.op \in {"GLS", "GLM"} /\ r.status = "OK" THEN "N" ELSE r.status

(* sendto an address: nobody may be there any more. *)
Deliver(to, datagram) ==
  inbox' = IF to \in Clients THEN [inbox EXCEPT ![to] = Append(@, datagram)] ELSE inbox

Answer ==
  /\ result # NoResult /\ result' = NoResult
  /\ \/ Deliver(peer, [re |-> result.req, word |-> SecondWord(result)]) /\ UNCHANGED trouble
     \/ Happens("loss") /\ UNCHANGED inbox
  /\ UNCHANGED <<account, logged, groups, up, peer, heard, socket, client>>

Lose ==
  /\ Happens("loss")
  /\ \E i \in DOMAIN socket : socket' = RemoveAt(socket, i)
  /\ UNCHANGED <<directory, peer, heard, inbox, client>>

(* select: a connection is accepted when no datagram waits.  The child is *)
(* forked with a copy of the address that the parent has heard last.      *)
AcceptPost(c) ==
  /\ up /\ result = NoResult /\ socket = << >> /\ stage[c] = "queued"
  /\ heard' = [heard EXCEPT ![c] = peer]
  /\ stage' = [stage EXCEPT ![c] = "posting"]
  /\ UNCHANGED <<directory, trouble, peer, socket, inbox, session, cmd, muddled>>

(* The connections in the backlog end with the listening socket. *)
Reset(c) == IF stage[c] = "queued" THEN "cut" ELSE stage[c]

(* What waits in the server's sockets is lost with it. *)
Stop ==
  /\ Happens("stop") /\ Server!Stop /\ socket' = << >>
  /\ stage' = [c \in Clients |-> Reset(c)]
  /\ UNCHANGED <<peer, heard, inbox, session, cmd, muddled>>

(* The new process has heard of nobody.  It cannot bind its port while a *)
(* child of the old one has a copy of the socket.                        *)
Resume ==
  /\ \A c \in Clients : stage[c] # "posting"
  /\ Server!Resume /\ peer' = Nobody
  /\ UNCHANGED <<trouble, heard, socket, inbox, client>>

----------------------------------------------------------------------------
(* A client starts and ends. *)

Start(c) ==
  /\ stage[c] = "gone" /\ stage' = [stage EXCEPT ![c] = "prompt"]
  /\ UNCHANGED <<directory, network, session, cmd, muddled>>

(* Its session, its socket and what that holds are gone; what is under way *)
(* to or from its address no longer concerns anybody.                      *)
Unhear(a, c) == IF a = c THEN Nobody ELSE a

Gone(c) ==
  /\ stage' = [stage EXCEPT ![c] = "gone"] /\ session' = [session EXCEPT ![c] = Fresh]
  /\ cmd' = [cmd EXCEPT ![c] = NoCommand] /\ muddled' = [muddled EXCEPT ![c] = FALSE]
  /\ inbox' = [inbox EXCEPT ![c] = << >>]
  /\ socket' = [i \in DOMAIN socket |-> [socket[i] EXCEPT !.from = Unhear(@, c)]]
  /\ peer' = Unhear(peer, c) /\ heard' = [k \in Clients |-> Unhear(heard[k], c)]
  /\ UNCHANGED directory

----------------------------------------------------------------------------
(* The commands that send a datagram. *)

(* sendto: a request to a server that is down reaches nobody. *)
Send(c, q, next) ==
  /\ socket' = IF up THEN Append(socket, [from |-> c, req |-> q]) ELSE socket
  /\ cmd' = [cmd EXCEPT ![c] = q] /\ stage' = [stage EXCEPT ![c] = next]
  /\ UNCHANGED <<directory, trouble, peer, heard, inbox, session, muddled>>

(* What a user may ask for about any account, or about none. *)
Asks(c, op) ==
  stage[c] = "prompt" /\ \E q \in Typed[c] : q.op = op /\ Send(c, q, "await")

(* What a session asks for of its own user. *)
AsksForSelf(c, op) ==
  /\ stage[c] = "prompt" /\ LoggedIn(c)
  /\ \E q \in Typed[c] : q.op = op /\ q.uid = session[c].uid /\ Send(c, q, "await")

AskReg(c)         == Asks(c, "REG")
AskUnregister(c)  == Asks(c, "UNR")
AskLogin(c)       == Asks(c, "LOG")
AskGroups(c)      == Asks(c, "GLS")
AskSubscribe(c)   == AsksForSelf(c, "GSR")
AskUnsubscribe(c) == AsksForSelf(c, "GUR")
AskMyGroups(c)    == AsksForSelf(c, "GLM")

SendLogout(c, next) ==
  /\ stage[c] = "prompt" /\ LoggedIn(c)
  /\ Send(c, [op |-> "OUT", uid |-> session[c].uid, pass |-> session[c].pass], next)

AskLogout(c) == SendLogout(c, "await")

Ask(c) ==
  \/ AskReg(c) \/ AskUnregister(c) \/ AskLogin(c) \/ AskLogout(c)
  \/ AskGroups(c) \/ AskSubscribe(c) \/ AskUnsubscribe(c) \/ AskMyGroups(c)

(* exit: a session is logged out first, and the client ends whatever comes *)
(* of it.                                                                  *)
Exit(c) ==
  \/ SendLogout(c, "leaving")
  \/ stage[c] = "prompt" /\ ~LoggedIn(c) /\ Gone(c) /\ UNCHANGED trouble

(* Mutant of LoggedOut: the group stays selected. *)
LogoutKeepsGroup(s) == [s EXCEPT !.uid = NoUser, !.pass = NoUser]

(* logout() of connection.c.  The password it leaves is not looked at again. *)
LoggedOut(s) == Fresh

(* Mutant of LoggedInAs: the status is not looked at. *)
LogsInAnyway(s, q, word) ==
  IF s.uid = NoUser THEN [s EXCEPT !.uid = q.uid, !.pass = q.pass] ELSE s

(* login_: a session that is open stays what it is. *)
LoggedInAs(s, q, word) ==
  IF word = "OK" /\ s.uid = NoUser THEN [s EXCEPT !.uid = q.uid, !.pass = q.pass] ELSE s

(* What the commands make of the second word they get.  The two EXPECTs of *)
(* logout_ print an error and the session ends all the same.               *)
Handle(s, q, word) ==
  CASE q.op = "LOG" -> LoggedInAs(s, q, word)
    [] q.op = "OUT" -> LoggedOut(s)
    [] q.op = "UNR" /\ word = "OK" /\ s.uid = q.uid -> LoggedOut(s)
    [] OTHER -> s

(* recvfrom takes the first datagram there is. *)
Receive(c) ==
  /\ Waiting(c) /\ inbox[c] # << >> /\ UNCHANGED trouble
  /\ \/ stage[c] = "leaving" /\ Gone(c)
     \/ /\ stage[c] = "await"
        /\ session' = [session EXCEPT ![c] = Handle(@, cmd[c], Head(inbox[c]).word)]
        /\ inbox' = [inbox EXCEPT ![c] = Tail(@)]
        /\ stage' = [stage EXCEPT ![c] = "prompt"] /\ cmd' = [cmd EXCEPT ![c] = NoCommand]
        /\ UNCHANGED <<directory, peer, heard, socket, muddled>>

(* The answer to the client's request may still come. *)
OnItsWay(c) ==
  \/ \E i \in DOMAIN socket : socket[i].from = c
  \/ result # NoResult /\ peer = c
  \/ inbox[c] # << >>

(* SO_RCVTIMEO: 15 seconds without a datagram. *)
Overdue(c) == IF OnItsWay(c) THEN Happens("delay") ELSE UNCHANGED trouble

(* Mutant of GiveUp: the command returns WARNING, the prompt comes back. *)
BackToPrompt(c) ==
  /\ stage' = [stage EXCEPT ![c] = "prompt"] /\ cmd' = [cmd EXCEPT ![c] = NoCommand]
  /\ UNCHANGED <<directory, peer, heard, socket, inbox, session, muddled>>

(* ASSERT(rcv_success == 1, FERROR, ...): the client ends. *)
GiveUp(c) == Gone(c)

TimeOut(c) == Waiting(c) /\ Overdue(c) /\ GiveUp(c)

----------------------------------------------------------------------------
(* The commands that do not. *)

(* select_ *)
Select(c) ==
  /\ stage[c] = "prompt" /\ LoggedIn(c)
  /\ \E g \in Gids : session' = [session EXCEPT ![c].gid = g]
  /\ UNCHANGED <<directory, network, stage, cmd, muddled>>

(* post, retrieve and ulist go over a connection of their own. *)
Connects(c) == stage[c] = "prompt" /\ LoggedIn(c) /\ session[c].gid # NoGroup

(* A connect that fails is reported and not acted on: writing to the       *)
(* socket raises SIGPIPE.                                                  *)
Unreachable(c) == Connects(c) /\ ~up /\ Gone(c) /\ UNCHANGED trouble

(* The connection is made with the server's backlog, and the client writes *)
(* its request and reads, without a timeout.                               *)
Post(c) ==
  /\ c \in Posters /\ Connects(c) /\ up
  /\ stage' = [stage EXCEPT ![c] = "queued"]
  /\ UNCHANGED <<directory, network, session, cmd, muddled>>

(* The child answers on the connection, with a MID or with NOK. *)
PostDone(c) ==
  /\ stage[c] = "posting"
  /\ heard' = [heard EXCEPT ![c] = Nobody]
  /\ stage' = [stage EXCEPT ![c] = "prompt"]
  /\ UNCHANGED <<directory, trouble, peer, socket, inbox, session, cmd, muddled>>

(* The child finds the group and cannot make a directory or a file of the  *)
(* message.  It sends "RPT NOK" in a datagram, to the client that the      *)
(* parent had heard of last, and exits without an answer on the connection. *)
PostFails(c) ==
  /\ stage[c] = "posting" /\ session[c].gid \in DOMAIN groups /\ Happens("stray")
  /\ Deliver(heard[c], [re |-> NoCommand, word |-> "NOK"])
  /\ muddled' = [k \in Clients |-> muddled[k] \/ k = heard[c]]
  /\ heard' = [heard EXCEPT ![c] = Nobody]
  /\ stage' = [stage EXCEPT ![c] = "cut"]
  /\ UNCHANGED <<directory, peer, socket, session, cmd>>

(* Mutant of Closed: the parent keeps its copy of the connection. *)
ClosedLate(c) == stage[c] = "cut" /\ ~up

(* The parent has closed its copy of the connection: the end of the child  *)
(* is the end of the stream.                                               *)
Closed(c) == stage[c] = "cut"

(* The read gives nothing, or fails and leaves the buffer as it was.  The  *)
(* words the poster then takes from it may be anything: it dies of that,   *)
(* or goes on.                                                             *)
CutShort(c) ==
  /\ Closed(c) /\ UNCHANGED trouble
  /\ \/ Gone(c)
     \/ /\ stage' = [stage EXCEPT ![c] = "prompt"]
        /\ UNCHANGED <<directory, peer, heard, socket, inbox, session, cmd, muddled>>

----------------------------------------------------------------------------
Client(c) == Receive(c) \/ TimeOut(c) \/ CutShort(c)

Next ==
  \/ Take \/ Answer \/ Lose \/ Stop \/ Resume
  \/ \E c \in Clients :
       \/ Start(c) \/ Ask(c) \/ Exit(c) \/ Select(c) \/ Client(c)
       \/ Unreachable(c) \/ Post(c) \/ AcceptPost(c) \/ PostDone(c) \/ PostFails(c)

Spec == Init /\ [][Next]_vars

(* The kernel wakes a client for a datagram or for the end of its time.    *)
(* The server, while it runs, takes what is in its socket, and answers.    *)
(* Nothing says that a post is ever accepted, behind the datagrams, or     *)
(* answered: its client reads without a timeout.                           *)
Fairness ==
  /\ WF_vars(Take) /\ WF_vars(Answer)
  /\ \A c \in Clients : WF_vars(Client(c))

FairSpec == Spec /\ Fairness

----------------------------------------------------------------------------
(* Properties. *)

(* Every variable has its type, and a client has a request in hand exactly *)
(* while it waits for an answer.                                           *)
TypeOK ==
  /\ account \in [Uids -> Passes \cup {NoAccount}] /\ logged \subseteq Uids
  /\ up \in BOOLEAN /\ trouble \in 0..MaxTrouble
  /\ peer \in Address /\ heard \in [Clients -> Address]
  /\ socket \in Seq([from: Address, req: Requests]) /\ inbox \in [Clients -> Seq(Datagram)]
  /\ session \in [Clients -> Session] /\ stage \in [Clients -> Stages]
  /\ cmd \in [Clients -> Requests \cup {NoCommand}]
  /\ \A c \in Clients : Waiting(c) <=> cmd[c] # NoCommand
  /\ muddled \in [Clients -> BOOLEAN]

(* As long as no failed post's datagram has come to it, what a client      *)
(* takes from its socket is the answer to the request it waits for, though *)
(* others were lost or came too late before.                               *)
AnswerIsOurs ==
  \A c \in Clients : ~muddled[c] =>
    /\ Len(inbox[c]) <= 1
    /\ inbox[c] # << >> => Waiting(c) /\ inbox[c][1].re = cmd[c]

(* Nobody else uses the account. *)
Alone(c, u) == \A k \in Clients \ {c} : \A q \in Typed[k] : q.op # "GLS" => q.uid # u

(* The user of a client's session is logged in at the server, with the     *)
(* password of the session.                                                *)
InStep(c) == session[c].uid \in logged /\ account[session[c].uid] = session[c].pass

(* The session of a user whom no other client uses is in step with the     *)
(* server at every prompt, whatever was lost and whatever an earlier       *)
(* client of the same user left in the server's socket, as long as no      *)
(* failed post's datagram has come.                                        *)
SessionInStep ==
  \A c \in Clients :
    stage[c] = "prompt" /\ LoggedIn(c) /\ Alone(c, session[c].uid) /\ ~muddled[c]
      => InStep(c)

(* logout() and a logout by unregister() leave no group behind: whoever    *)
(* logs in next starts with none selected.                                 *)
NoInheritedGroup ==
  [][\A c \in Clients :
       ~LoggedIn(c) /\ session'[c].uid # NoUser => session'[c].gid = NoGroup]_vars

(* A command that waits for a datagram comes back to the prompt or ends    *)
(* the client, whatever is lost, late or stopped.  So does a post whose    *)
(* connection has nobody at its other end.  A post that the server has not *)
(* accepted, or whose child is at work, may last for ever.                 *)
WaitsEnd ==
  \A c \in Clients : /\ Waiting(c) ~> ~Waiting(c)
                     /\ stage[c] = "cut" ~> stage[c] # "cut"

(* commands.c:160-162: "login UID pass sent: LOG UID pass received: RLO    *)
(* status".  A client that never posts opens the session of a user whom no *)
(* other client uses on the answer to its login: with the password that    *)
(* the account has.                                                        *)
LoginAnsweredInKind ==
  [][\A c \in Clients \ Posters :
       LET u == session'[c].uid
       IN  ~LoggedIn(c) /\ u # NoUser /\ Alone(c, u) => account[u] = session'[c].pass]_vars
=============================================================================
