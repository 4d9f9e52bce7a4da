-------------------------- MODULE UserSessionProofs --------------------------
(***************************************************************************)
(* Theorems about UserSession, for any number of clients, users, passwords *)
(* and groups, whatever the users ask for and however often datagrams are  *)
(* lost or late, posts fail and the server stops.                          *)
(***************************************************************************)
EXTENDS UserSession, SequenceTheorems, TLAPS

(***************************************************************************)
(* The inductive invariant.                                                *)
(***************************************************************************)

(* The request that the server has at hand is that of the client k. *)
Answering(k) == result # NoResult /\ peer = k

(* The request is about the user u. *)
Concerns(q, u) == q.op # "GLS" /\ q.uid = u

Answered == result # NoResult => result.req \in Requests /\ result.status \in Statuses

(* A session has a user and a password, or no user and no group.           *)
Logins ==
  \A k \in Clients : IF LoggedIn(k) THEN session[k].pass \in Passes ELSE session[k].gid = NoGroup

(* All there is of the client's between its last datagram and the answer:  *)
(* a request in the server's socket, or one at hand, or an answer, and one *)
(* of them at most.                                                        *)
Single(k) ==
  /\ \A i \in DOMAIN socket : socket[i].from = k =>
       /\ Waiting(k) /\ socket[i].req = cmd[k] /\ ~Answering(k) /\ inbox[k] = << >>
       /\ \A j \in DOMAIN socket : socket[j].from = k => j = i
  /\ Answering(k) => Waiting(k) /\ result.req = cmd[k] /\ inbox[k] = << >>
  /\ Len(inbox[k]) <= 1
  /\ inbox[k] # << >> => Waiting(k) /\ inbox[k][1].re = cmd[k]

Ours == \A k \in Clients : ~muddled[k] => Single(k)

(* A client asks about its own users only. *)
Owns(k, u) == \E q \in Typed[k] : Concerns(q, u)

Owned ==
  \A k \in Clients :
    /\ LoggedIn(k) => Owns(k, session[k].uid)
    /\ cmd[k] # NoCommand => \A u \in Uids : Concerns(cmd[k], u) => Owns(k, u)

(* The server's socket keeps its order: nothing about the user u is behind *)
(* the request of the client k, who alone asks about u, nor left once that *)
(* has been taken.                                                         *)
Following(k, u) ==
  \A i, j \in DOMAIN socket :
    socket[i].from = k /\ i < j => ~Concerns(socket[j].req, u)

Untouched(k, u) ==
  Answering(k) \/ inbox[k] # << >> =>
    \A j \in DOMAIN socket : ~Concerns(socket[j].req, u)

OnlyItsOwn(k, u) ==
  session[k].uid = u =>
    \A j \in DOMAIN socket : Concerns(socket[j].req, u) => socket[j].from = k

(* The server has ended the session of the client k, who waits to hear it. *)
OutOfStep(k) ==
  /\ Waiting(k) /\ \A j \in DOMAIN socket : socket[j].from # k
  /\ \/ cmd[k].op = "OUT"
     \/ /\ cmd[k].op = "UNR" /\ cmd[k].uid = session[k].uid
        /\ Answering(k) => result.status = "OK"
        /\ inbox[k] # << >> => inbox[k][1].word = "OK"

Stepping(k, u) == session[k].uid = u => InStep(k) \/ OutOfStep(k)

(* The server has opened a session, and the client is to hear it. *)
Opens(k, u) ==
  /\ Waiting(k) /\ cmd[k].op = "LOG" /\ cmd[k].uid = u
  /\ \/ Answering(k) /\ result.status = "OK"
     \/ inbox[k] # << >> /\ inbox[k][1].word = "OK"

Opening(k, u) == Opens(k, u) => u \in logged /\ account[u] = cmd[k].pass

Kept(k, u) ==
  Following(k, u) /\ Untouched(k, u) /\ OnlyItsOwn(k, u) /\ Stepping(k, u) /\ Opening(k, u)

Keeping == \A k \in Clients : \A u \in Uids : ~muddled[k] /\ Alone(k, u) => Kept(k, u)

Typing == TypeOK /\ Answered /\ Logins

SInv == Typing /\ Ours /\ Owned /\ Keeping

(***************************************************************************)
(* Lemmas about requests and about what the server does with them.         *)
(***************************************************************************)

(* The parts of a request, by its operation.                               *)
LEMMA Fields ==
  ASSUME NEW q \in Requests
  PROVE  /\ q.op \in {"REG", "UNR", "LOG", "OUT", "GSR", "GUR", "GLM", "GLS"}
         /\ q.op # "GLS" => q.uid \in Uids
         /\ q.op \in AccountOps => q.pass \in Passes
         /\ q # NoCommand
BY SessionAssumption DEF Requests, AccountOps

(* A logout of the session's user is a request.                            *)
LEMMA LogoutIsRequest ==
  ASSUME NEW u \in Uids, NEW p \in Passes
  PROVE  [op |-> "OUT", uid |-> u, pass |-> p] \in Requests
BY DEF Requests, AccountOps

(* What a request leaves alone, and what its outcome is.                   *)
LEMMA DoTyped ==
  ASSUME NEW q \in Requests, Server!Do(q),
         account \in [Uids -> Passes \cup {NoAccount}], logged \subseteq Uids
  PROVE  /\ account' \in [Uids -> Passes \cup {NoAccount}] /\ logged' \subseteq Uids
         /\ result'.req = q /\ result'.status \in Statuses
         /\ \A u \in Uids : ~Concerns(q, u) =>
              account'[u] = account[u] /\ (u \in logged' <=> u \in logged)
<1> USE DEF Server!Do, Statuses, Concerns, Server!Result, Server!Refuse, Server!Accept
<1> q.op # "GLS" => q.uid \in Uids
  BY Fields
<1> q.op \in AccountOps => q.pass \in Passes
  BY Fields
<1>1. CASE q.op = "REG" /\ Server!Register(q)
  BY <1>1 DEF Server!Register, AccountOps
<1>2. CASE q.op = "UNR" /\ Server!Unregister(q)
  BY <1>2 DEF Server!Unregister
<1>3. CASE q.op = "LOG" /\ Server!Login(q)
  BY <1>3 DEF Server!Login
<1>4. CASE q.op = "OUT" /\ Server!Logout(q)
  BY <1>4 DEF Server!Logout
<1>5. CASE q.op \in {"UNR", "LOG", "OUT"} /\ ~Server!Entitled(q) /\ Server!Refuse(q, "NOK")
  BY <1>5
<1>6. CASE q.op = "GSR" /\ Server!Subscribe(q)
  BY <1>6 DEF Server!Subscribe, Server!Found, Server!Join
<1>7. CASE q.op = "GUR" /\ Server!Unsubscribe(q)
  BY <1>7 DEF Server!Unsubscribe
<1>8. CASE q.op = "GLS" /\ Server!ListGroups(q)
  BY <1>8 DEF Server!ListGroups
<1>9. CASE q.op = "GLM" /\ Server!ListMine(q)
  BY <1>9 DEF Server!ListMine
<1> QED
  BY <1>1, <1>2, <1>3, <1>4, <1>5, <1>6, <1>7, <1>8, <1>9

(* A request of a user who is logged in with the password p: the user      *)
(* stays so, or the request was a logout, or an unregister() that was      *)
(* granted.                                                                *)
LEMMA DoOfLoggedIn ==
  ASSUME NEW q \in Requests, Server!Do(q), Concerns(q, q.uid),
         account \in [Uids -> Passes \cup {NoAccount}], logged \subseteq Uids,
         NEW p \in Passes, q.uid \in logged, account[q.uid] = p
  PROVE  \/ q.uid \in logged' /\ account'[q.uid] = p
         \/ q.op = "OUT"
         \/ q.op = "UNR" /\ result'.status = "OK"
<1> USE DEF Server!Do, Concerns, Server!Result, Server!Refuse, Server!Accept, Server!Knows
<1> q.uid \in Uids /\ (q.op \in AccountOps => q.pass \in Passes)
  BY Fields DEF Concerns
<1> p # NoAccount
  BY SessionAssumption
<1>1. CASE q.op = "REG" /\ Server!Register(q)
  BY <1>1 DEF Server!Register
<1>2. CASE q.op = "UNR" /\ Server!Unregister(q)
  BY <1>2 DEF Server!Unregister
<1>3. CASE q.op = "LOG" /\ Server!Login(q)
  BY <1>3 DEF Server!Login
<1>4. CASE q.op = "OUT" /\ Server!Logout(q)
  BY <1>4
<1>5. CASE q.op \in {"UNR", "LOG", "OUT"} /\ ~Server!Entitled(q) /\ Server!Refuse(q, "NOK")
  BY <1>5
<1>6. CASE q.op = "GSR" /\ Server!Subscribe(q)
  BY <1>6 DEF Server!Subscribe, Server!Found, Server!Join
<1>7. CASE q.op = "GUR" /\ Server!Unsubscribe(q)
  BY <1>7 DEF Server!Unsubscribe
<1>8. CASE q.op = "GLS" /\ Server!ListGroups(q)
  BY <1>8 DEF Server!ListGroups
<1>9. CASE q.op = "GLM" /\ Server!ListMine(q)
  BY <1>9 DEF Server!ListMine
<1> QED
  BY <1>1, <1>2, <1>3, <1>4, <1>5, <1>6, <1>7, <1>8, <1>9

(* A login that is granted.                                                *)
LEMMA DoLogin ==
  ASSUME NEW q \in Requests, Server!Do(q), q.op = "LOG", result'.status = "OK"
  PROVE  q.uid \in logged' /\ account'[q.uid] = q.pass
<1>1. CASE Server!Login(q)
  BY <1>1 DEF Server!Login, Server!Entitled
<1>2. CASE Server!Refuse(q, "NOK")
  BY <1>2 DEF Server!Refuse, Server!Result
<1> QED
  BY <1>1, <1>2 DEF Server!Do

(***************************************************************************)
(* The steps, sorted by what they change.                                  *)
(***************************************************************************)

(* The client c sends the request q, which it may ask for.                 *)
Sends(c, q) ==
  /\ stage[c] = "prompt" /\ q \in Requests
  /\ \/ q \in Typed[c]
     \/ q.op = "OUT" /\ q.uid = session[c].uid /\ LoggedIn(c)
  /\ \E next \in {"await", "leaving"} : Send(c, q, next)

(* The client c takes an answer from its socket.                           *)
Hears(c) ==
  /\ stage[c] = "await" /\ inbox[c] # << >>
  /\ session' = [session EXCEPT ![c] = Handle(@, cmd[c], Head(inbox[c]).word)]
  /\ inbox' = [inbox EXCEPT ![c] = Tail(@)]
  /\ stage' = [stage EXCEPT ![c] = "prompt"] /\ cmd' = [cmd EXCEPT ![c] = NoCommand]
  /\ UNCHANGED <<directory, trouble, peer, heard, socket, muddled>>

(* The client c ends.                                                      *)
Ends(c) == Gone(c) /\ (UNCHANGED trouble \/ Happens("delay"))

(* The client c, who waits for no answer, goes on to the stage s.          *)
Moves(c, s) ==
  /\ ~Waiting(c) /\ s \in {"prompt", "queued", "posting"} /\ stage' = [stage EXCEPT ![c] = s]
  /\ heard' \in [Clients -> Address]
  /\ UNCHANGED <<account, logged, result, up, trouble, peer, socket, inbox, session, cmd, muddled>>

LEMMA ClientSteps ==
  ASSUME TypeOK, Logins, NEW c \in Clients,
         \/ Start(c) \/ Ask(c) \/ Exit(c) \/ Select(c) \/ Client(c)
         \/ Unreachable(c) \/ Post(c) \/ AcceptPost(c) \/ PostDone(c) \/ PostFails(c)
  PROVE  \/ \E q \in Requests : Sends(c, q)
         \/ Hears(c) \/ Ends(c) \/ Select(c) \/ PostFails(c)
         \/ \E s \in Stages : Moves(c, s)
<1> stage \in [Clients -> Stages] /\ heard \in [Clients -> Address] /\ session \in [Clients -> Session]
  BY DEF TypeOK
<1> Typed[c] \subseteq Requests
  BY SessionAssumption
<1>1. CASE Start(c)
  <2> Moves(c, "prompt")
    BY <1>1 DEF Start, Moves, Waiting, network, directory, Stages
  <2> QED
    BY DEF Stages
<1>2. CASE SendLogout(c, "await") \/ SendLogout(c, "leaving")
  <2> PICK next \in {"await", "leaving"} : SendLogout(c, next)
    BY <1>2
  <2> DEFINE r == [op |-> "OUT", uid |-> session[c].uid, pass |-> session[c].pass]
  <2> r \in Requests
    BY LogoutIsRequest DEF SendLogout, LoggedIn, Session, Logins
  <2> Sends(c, r)
    BY DEF Sends, SendLogout
  <2> QED
    OBVIOUS
<1>3. ASSUME NEW op, Asks(c, op) \/ AsksForSelf(c, op)
      PROVE  \E r \in Requests : Sends(c, r)
  <2> PICK r \in Typed[c] : Send(c, r, "await")
    BY <1>3 DEF Asks, AsksForSelf
  <2> r \in Requests /\ stage[c] = "prompt"
    BY <1>3 DEF Asks, AsksForSelf
  <2> Sends(c, r)
    BY DEF Sends, Send
  <2> QED
    OBVIOUS
<1>4. CASE Ask(c)
  BY <1>2, <1>3, <1>4 DEF Ask, AskReg, AskUnregister, AskLogin, AskGroups, AskSubscribe,
                          AskUnsubscribe, AskMyGroups, AskLogout
<1>5. CASE Exit(c)
  BY <1>2, <1>5 DEF Exit, Ends
<1>6. CASE Receive(c)
  BY <1>6 DEF Receive, Ends, Hears
<1>7. CASE TimeOut(c) \/ Unreachable(c)
  BY <1>7 DEF TimeOut, Overdue, GiveUp, Ends, Unreachable
<1>8. CASE PostDone(c)
  <2> Moves(c, "prompt")
    BY <1>8 DEF PostDone, Moves, Waiting, directory, Address
  <2> QED
    BY DEF Stages
<1>9. CASE Post(c)
  <2> Moves(c, "queued")
    BY <1>9 DEF Post, Connects, Moves, Waiting, directory, network, TypeOK
  <2> QED
    BY DEF Stages
<1>11. CASE AcceptPost(c)
  <2> Moves(c, "posting")
    BY <1>11 DEF AcceptPost, Moves, Waiting, directory, TypeOK
  <2> QED
    BY DEF Stages
<1>10. CASE CutShort(c)
  <2>1. CASE Gone(c) /\ UNCHANGED trouble
    BY <2>1 DEF Ends
  <2>2. CASE stage' = [stage EXCEPT ![c] = "prompt"] /\ ~Gone(c)
    <3> Moves(c, "prompt")
      BY <1>10, <2>2 DEF CutShort, Closed, Moves, Waiting, directory
    <3> QED
      BY DEF Stages
  <2> QED
    BY <1>10, <2>1, <2>2 DEF CutShort
<1> QED
  BY <1>1, <1>4, <1>5, <1>6, <1>7, <1>8, <1>9, <1>10, <1>11 DEF Client

(***************************************************************************)
(* The types.                                                              *)
(***************************************************************************)

Entry == [from: Address, req: Requests]

(* The sequence t is s without its element n: it keeps the order of s.     *)
Without(s, n, t) ==
  \E f \in [DOMAIN t -> DOMAIN s \ {n}] :
    /\ \A i \in DOMAIN t : t[i] = s[f[i]]
    /\ \A i, j \in DOMAIN t : i < j => f[i] < f[j]

LEMMA Removed ==
  ASSUME NEW s \in Seq(Entry), NEW n \in DOMAIN s
  PROVE  RemoveAt(s, n) \in Seq(Entry) /\ Without(s, n, RemoveAt(s, n))
<1> DEFINE a == SubSeq(s, 1, n - 1)
           b == SubSeq(s, n + 1, Len(s))
           t == RemoveAt(s, n)
           f == [i \in DOMAIN t |-> IF i < n THEN i ELSE i + 1]
<1> DOMAIN s = 1..Len(s) /\ Len(s) \in Nat /\ n \in 1..Len(s)
  BY LenProperties
<1> \A i \in 1..Len(s) : s[i] \in Entry
  BY ElementOfSeq
<1>1. a \in Seq(Entry) /\ Len(a) = n - 1 /\ \A i \in 1..(n - 1) : a[i] = s[i]
  <2>1. \A i \in 1..(n - 1) : s[i] \in Entry
    OBVIOUS
  <2>2. /\ a \in Seq(Entry) /\ Len(a) = IF 1 <= n - 1 THEN n - 1 - 1 + 1 ELSE 0
        /\ \A i \in 1..(n - 1 - 1 + 1) : a[i] = s[1 + i - 1]
    <3> HIDE DEF Entry
    <3> QED
      BY <2>1, SubSeqProperties
  <2> QED
    BY <2>2
<1>2. b \in Seq(Entry) /\ Len(b) = Len(s) - n /\ \A i \in 1..(Len(s) - n) : b[i] = s[n + i]
  <2>1. \A i \in (n + 1)..Len(s) : s[i] \in Entry
    OBVIOUS
  <2>2. /\ b \in Seq(Entry) /\ Len(b) = IF n + 1 <= Len(s) THEN Len(s) - (n + 1) + 1 ELSE 0
        /\ \A i \in 1..(Len(s) - (n + 1) + 1) : b[i] = s[(n + 1) + i - 1]
    BY <2>1, SubSeqProperties
  <2>3. Len(s) - (n + 1) + 1 = Len(s) - n
    OBVIOUS
  <2>4. \A i \in 1..(Len(s) - n) : (n + 1) + i - 1 = n + i
    OBVIOUS
  <2> HIDE DEF b
  <2>5. Len(b) = Len(s) - n
    BY <2>2
  <2>6. \A i \in 1..(Len(s) - n) : b[i] = s[n + i]
    BY <2>2, <2>3, <2>4
  <2> QED
    BY <2>2, <2>5, <2>6
<1> HIDE DEF a, b
<1> t = a \o b
  BY DEF RemoveAt, a, b
<1> HIDE DEF t
<1>3. t \in Seq(Entry) /\ Len(t) = Len(s) - 1
      /\ \A i \in 1..Len(t) : t[i] = IF i <= n - 1 THEN a[i] ELSE b[i - (n - 1)]
  <2>1. /\ a \o b \in Seq(Entry) /\ Len(a \o b) = Len(a) + Len(b)
        /\ \A i \in 1..Len(a) + Len(b) : (a \o b)[i] = IF i <= Len(a) THEN a[i] ELSE b[i - Len(a)]
    BY <1>1, <1>2, ConcatProperties
  <2>2. Len(a) = n - 1 /\ Len(a) + Len(b) = Len(s) - 1
    BY <1>1, <1>2
  <2> QED
    BY <2>1, <2>2
<1>4. DOMAIN t = 1..(Len(s) - 1)
  BY <1>3, LenProperties
<1>5. ASSUME NEW i \in DOMAIN t
      PROVE  f[i] \in DOMAIN s \ {n} /\ t[i] = s[f[i]]
  <2> i \in 1..(Len(s) - 1)
    BY <1>4
  <2> f[i] = IF i < n THEN i ELSE i + 1
    OBVIOUS
  <2> t[i] = IF i <= n - 1 THEN a[i] ELSE b[i - (n - 1)]
    BY <1>3
  <2> HIDE DEF f
  <2>1. CASE i < n
    <3> i \in 1..(n - 1) /\ i <= n - 1
      BY <2>1
    <3> QED
      BY <2>1, <1>1
  <2>2. CASE ~(i < n)
    <3> DEFINE m == i - (n - 1)
    <3> m \in 1..(Len(s) - n) /\ n + m = i + 1 /\ ~(i <= n - 1)
      BY <2>2
    <3> b[m] = s[n + m]
      BY <1>2
    <3> QED
      BY <2>2
  <2> QED
    BY <2>1, <2>2
<1>6. ASSUME NEW i \in DOMAIN t, NEW j \in DOMAIN t, i < j
      PROVE  f[i] < f[j]
  <2> i \in 1..(Len(s) - 1) /\ j \in 1..(Len(s) - 1)
    BY <1>4
  <2> f[i] = (IF i < n THEN i ELSE i + 1) /\ f[j] = IF j < n THEN j ELSE j + 1
    OBVIOUS
  <2> QED
    BY <1>6
<1>7. f \in [DOMAIN t -> DOMAIN s \ {n}]
  BY <1>5
<1> QED
  BY <1>3, <1>5, <1>6, <1>7 DEF Without, t

LEMMA TailRemoved ==
  ASSUME NEW s \in Seq(Entry), s # << >>
  PROVE  1 \in DOMAIN s /\ Head(s) = s[1] /\ Tail(s) \in Seq(Entry) /\ Without(s, 1, Tail(s))
<1> Len(s) \in Nat \ {0} /\ DOMAIN s = 1..Len(s)
  BY EmptySeq, LenProperties
<1>1. SubSeq(s, 1, 1 - 1) = << >>
  BY SubSeqEmpty
<1>2. SubSeq(s, 1 + 1, Len(s)) = Tail(s)
  BY TailIsSubSeq
<1>3. RemoveAt(s, 1) = Tail(s)
  BY <1>1, <1>2, HeadTailProperties, ConcatEmptySeq DEF RemoveAt
<1>4. 1 \in DOMAIN s /\ Head(s) = s[1]
  OBVIOUS
<1> QED
  BY <1>3, <1>4, Removed

LEMMA InitTyping == Init => Typing
<1> SUFFICES ASSUME Init PROVE Typing
  OBVIOUS
<1> << >> \in Seq(Entry) /\ << >> \in Seq(Datagram)
  BY EmptySeq
<1>1. account \in [Uids -> Passes \cup {NoAccount}] /\ logged \subseteq Uids /\ up \in BOOLEAN
  BY DEF Init, Server!Init
<1>2. trouble \in 0..MaxTrouble /\ peer \in Address /\ heard \in [Clients -> Address]
  BY SessionAssumption DEF Init, Address
<1>3. socket \in Seq([from: Address, req: Requests]) /\ inbox \in [Clients -> Seq(Datagram)]
  BY DEF Init, Entry
<1>4. /\ session \in [Clients -> Session] /\ stage \in [Clients -> Stages]
      /\ cmd \in [Clients -> Requests \cup {NoCommand}] /\ muddled \in [Clients -> BOOLEAN]
      /\ \A c \in Clients : Waiting(c) <=> cmd[c] # NoCommand
  BY DEF Init, Fresh, Session, Stages, Waiting
<1>5. Answered /\ Logins
  BY DEF Init, Server!Init, Answered, Logins, LoggedIn, Fresh
<1> QED
  BY <1>1, <1>2, <1>3, <1>4, <1>5 DEF Typing, TypeOK

(* An answer has the parts of a datagram.                                  *)
LEMMA AnswerIsDatagram ==
  ASSUME Answered, result # NoResult
  PROVE  [re |-> result.req, word |-> SecondWord(result)] \in Datagram
BY DEF Answered, SecondWord, Datagram, Words

(* What a client makes of an answer is a session, with a password if       *)
(* somebody is logged in.                                                  *)
LEMMA HandleTyped ==
  ASSUME NEW s \in Session, NEW q \in Requests, NEW word \in Words,
         IF s.uid # NoUser THEN s.pass \in Passes ELSE s.gid = NoGroup
  PROVE  LET t == Handle(s, q, word)
         IN  t \in Session /\ IF t.uid # NoUser THEN t.pass \in Passes ELSE t.gid = NoGroup
<1>1. CASE q.op = "LOG"
  <2> q.uid \in Uids /\ q.pass \in Passes
    BY <1>1, Fields DEF AccountOps
  <2> QED
    BY <1>1 DEF Handle, LoggedInAs, Session
<1>2. CASE q.op # "LOG"
  BY <1>2 DEF Handle, LoggedOut, Fresh, Session
<1> QED
  BY <1>1, <1>2

(* The datagram that is delivered to an address.                           *)
LEMMA Delivered ==
  ASSUME TypeOK, NEW to \in Address, NEW d \in Datagram, Deliver(to, d)
  PROVE  /\ inbox' \in [Clients -> Seq(Datagram)]
         /\ \A k \in Clients : inbox'[k] = IF k = to THEN Append(inbox[k], d) ELSE inbox[k]
<1> inbox \in [Clients -> Seq(Datagram)]
  BY DEF TypeOK
<1> \A k \in Clients : Append(inbox[k], d) \in Seq(Datagram)
  BY AppendProperties
<1> QED
  BY DEF Deliver

LEMMA TakeTyped == ASSUME Typing, Take PROVE Typing'
<1> DEFINE q == Head(socket).req
<1> socket \in Seq(Entry) /\ socket # << >>
  BY DEF Typing, TypeOK, Entry, Take
<1>1. Head(socket) \in Entry /\ Tail(socket) \in Seq(Entry)
  BY HeadTailProperties
<1>2. q \in Requests /\ peer' \in Address
  BY <1>1 DEF Entry, Take
<1>3. /\ account' \in [Uids -> Passes \cup {NoAccount}] /\ logged' \subseteq Uids
      /\ result'.req = q /\ result'.status \in Statuses
  BY <1>2, DoTyped DEF Take, Typing, TypeOK
<1>4. TypeOK'
  BY <1>1, <1>2, <1>3 DEF Take, Typing, TypeOK, Entry, client, Waiting
<1>5. Answered' /\ Logins'
  BY <1>2, <1>3 DEF Take, Answered, Typing, Logins, LoggedIn, client
<1> QED
  BY <1>4, <1>5 DEF Typing

LEMMA AnswerTyped == ASSUME Typing, Answer PROVE Typing'
<1> DEFINE d == [re |-> result.req, word |-> SecondWord(result)]
<1> d \in Datagram
  BY AnswerIsDatagram DEF Typing, Answer
<1> HIDE DEF d
<1>1. trouble' \in 0..MaxTrouble
  BY SessionAssumption DEF Answer, Typing, TypeOK, Happens, May
<1>2. inbox' \in [Clients -> Seq(Datagram)]
  <2>1. CASE Deliver(peer, d)
    BY <2>1, Delivered DEF Typing, TypeOK
  <2> QED
    BY <2>1 DEF Answer, Typing, TypeOK, d
<1>3. TypeOK'
  BY <1>1, <1>2 DEF Answer, Typing, TypeOK, client, Waiting
<1> QED
  BY <1>3 DEF Answer, Typing, Answered, Logins, LoggedIn, client

(* A server that stops makes nobody wait, and ends no wait for a datagram. *)
LEMMA StopWaits ==
  ASSUME stage \in [Clients -> Stages], Stop
  PROVE  /\ stage' \in [Clients -> Stages]
         /\ \A k \in Clients : Waiting(k)' <=> Waiting(k)
BY DEF Stop, Reset, Waiting, Stages

(* The server's socket and its process come and go.                        *)
LEMMA ServerTyped == ASSUME Typing, Lose \/ Stop \/ Resume PROVE Typing'
<1> socket \in Seq(Entry) /\ << >> \in Seq(Entry)
  BY EmptySeq DEF Typing, TypeOK, Entry
<1>1. trouble' \in 0..MaxTrouble
  BY SessionAssumption DEF Lose, Stop, Resume, Typing, TypeOK, Happens, May
<1>2. socket' \in Seq([from: Address, req: Requests])
  BY Removed DEF Lose, Stop, Resume, Entry
<1>3. stage' \in [Clients -> Stages] /\ \A k \in Clients : Waiting(k)' <=> Waiting(k)
  BY StopWaits DEF Lose, Resume, client, Waiting, Typing, TypeOK
<1>4. TypeOK'
  BY <1>1, <1>2, <1>3
  DEF Lose, Stop, Resume, Server!Stop, Server!Resume, Typing, TypeOK, client, directory, Address
<1> QED
  BY <1>4
  DEF Lose, Stop, Resume, Server!Stop, Server!Resume, Typing, Answered, Logins, LoggedIn, client,
      directory

LEMMA SendsTyped ==
  ASSUME Typing, NEW c \in Clients, NEW q \in Requests, Sends(c, q)
  PROVE  Typing'
<1> PICK next \in {"await", "leaving"} : Send(c, q, next)
  BY DEF Sends
<1> [from |-> c, req |-> q] \in Entry /\ socket \in Seq(Entry)
  BY DEF Typing, TypeOK, Entry, Address
<1>1. socket' \in Seq([from: Address, req: Requests])
  BY AppendProperties DEF Send, Entry
<1>2. TypeOK'
  BY <1>1, SessionAssumption DEF Send, Typing, TypeOK, directory, Waiting, Stages
<1> QED
  BY <1>2 DEF Send, Typing, Answered, Logins, LoggedIn, directory

LEMMA HearsTyped == ASSUME Typing, NEW c \in Clients, Hears(c) PROVE Typing'
<1> cmd[c] \in Requests /\ session[c] \in Session
  BY DEF Hears, Typing, TypeOK, Waiting
<1>1. Head(inbox[c]) \in Datagram /\ Tail(inbox[c]) \in Seq(Datagram)
  BY HeadTailProperties DEF Typing, TypeOK, Hears
<1>2. Head(inbox[c]).word \in Words
  BY <1>1 DEF Datagram
<1> DEFINE s == Handle(session[c], cmd[c], Head(inbox[c]).word)
<1>3. s \in Session /\ IF s.uid # NoUser THEN s.pass \in Passes ELSE s.gid = NoGroup
  BY <1>2, HandleTyped DEF Typing, Logins, LoggedIn
<1>4. session' = [session EXCEPT ![c] = s]
  BY DEF Hears
<1> HIDE DEF s
<1>5. TypeOK'
  BY <1>1, <1>3, <1>4 DEF Hears, Typing, TypeOK, directory, Waiting, Stages
<1> QED
  BY <1>3, <1>4, <1>5 DEF Hears, Typing, TypeOK, Answered, Logins, LoggedIn, directory

(* The requests of a client that is gone stay, with nobody to answer.      *)
LEMMA Unsigned ==
  ASSUME TypeOK, NEW c \in Clients, Gone(c)
  PROVE  /\ socket' \in Seq(Entry) /\ DOMAIN socket' = DOMAIN socket
         /\ \A i \in DOMAIN socket : /\ socket'[i].req = socket[i].req
                                     /\ socket'[i].from = Unhear(socket[i].from, c)
<1> DEFINE e(i) == [socket[i] EXCEPT !.from = Unhear(@, c)]
<1> socket \in Seq(Entry)
  BY DEF TypeOK, Entry
<1>1. DOMAIN socket = 1..Len(socket) /\ Len(socket) \in Nat
  BY LenProperties
<1>2. \A i \in 1..Len(socket) : socket[i] \in Entry
  BY ElementOfSeq
<1>3. \A i \in 1..Len(socket) : /\ e(i) \in Entry /\ e(i).req = socket[i].req
                                /\ e(i).from = Unhear(socket[i].from, c)
  BY <1>2 DEF Entry, Unhear, Address
<1>4. socket' = [i \in 1..Len(socket) |-> e(i)]
  BY <1>1 DEF Gone
<1> HIDE DEF e
<1>5. socket' \in Seq(Entry)
  BY <1>1, <1>3, <1>4, IsASeq
<1> QED
  BY <1>1, <1>3, <1>4, <1>5

LEMMA EndsTyped == ASSUME Typing, NEW c \in Clients, Ends(c) PROVE Typing'
<1>1. trouble' \in 0..MaxTrouble
  BY SessionAssumption DEF Ends, Typing, TypeOK, Happens, May
<1>2. socket' \in Seq([from: Address, req: Requests])
  BY Unsigned DEF Ends, Typing, Entry
<1>3. peer' \in Address /\ heard' \in [Clients -> Address]
  BY DEF Ends, Gone, Unhear, Typing, TypeOK, Address
<1>4. inbox' \in [Clients -> Seq(Datagram)]
  BY EmptySeq DEF Ends, Gone, Typing, TypeOK
<1>5. TypeOK'
  BY <1>1, <1>2, <1>3, <1>4
  DEF Ends, Gone, Typing, TypeOK, directory, Waiting, Stages, Fresh, Session
<1> QED
  BY <1>5 DEF Ends, Gone, Typing, TypeOK, Answered, Logins, LoggedIn, directory, Fresh

LEMMA MovesTyped ==
  ASSUME Typing, NEW c \in Clients, NEW s \in Stages, Moves(c, s)
  PROVE  Typing'
<1>1. TypeOK'
  BY DEF Moves, Typing, TypeOK, Waiting, Stages
<1> QED
  BY <1>1 DEF Moves, Typing, Answered, Logins, LoggedIn

LEMMA SelectTyped == ASSUME Typing, NEW c \in Clients, Select(c) PROVE Typing'
<1> PICK g \in Gids : session' = [session EXCEPT ![c].gid = g]
  BY DEF Select
<1>1. session' \in [Clients -> Session]
  <2>1. session \in [Clients -> Session]
    BY DEF Typing, TypeOK
  <2>2. [session[c] EXCEPT !.gid = g] \in Session
    BY <2>1 DEF Session
  <2> QED
    BY <2>1, <2>2
<1>2. TypeOK'
  BY <1>1 DEF Select, Typing, TypeOK, directory, network, Waiting
<1> QED
  BY <1>2 DEF Select, Typing, TypeOK, Session, Answered, Logins, LoggedIn, directory, network

LEMMA PostFailsTyped == ASSUME Typing, NEW c \in Clients, PostFails(c) PROVE Typing'
<1> [re |-> NoCommand, word |-> "NOK"] \in Datagram /\ heard[c] \in Address
  BY DEF Datagram, Words, Statuses, Typing, TypeOK
<1>1. inbox' \in [Clients -> Seq(Datagram)]
  BY Delivered DEF PostFails, Typing
<1>2. trouble' \in 0..MaxTrouble
  BY SessionAssumption DEF PostFails, Typing, TypeOK, Happens, May
<1>3. muddled' \in [Clients -> BOOLEAN]
  BY Zenon DEF PostFails, Typing, TypeOK
<1>4. TypeOK'
  BY <1>1, <1>2, <1>3 DEF PostFails, Typing, TypeOK, directory, Waiting, Stages, Address
<1> QED
  BY <1>4 DEF PostFails, Typing, Answered, Logins, LoggedIn, directory

LEMMA StepTyped == ASSUME Typing, [Next]_vars PROVE Typing'
<1>1. CASE UNCHANGED vars
  BY <1>1
  DEF vars, directory, network, client, Typing, TypeOK, Answered, Logins, LoggedIn, Waiting
<1>2. CASE Take \/ Answer \/ Lose \/ Stop \/ Resume
  BY <1>2, TakeTyped, AnswerTyped, ServerTyped
<1>3. ASSUME NEW c \in Clients,
             \/ Start(c) \/ Ask(c) \/ Exit(c) \/ Select(c) \/ Client(c)
             \/ Unreachable(c) \/ Post(c) \/ AcceptPost(c) \/ PostDone(c) \/ PostFails(c)
      PROVE  Typing'
  BY <1>3, ClientSteps, SendsTyped, HearsTyped, EndsTyped, SelectTyped, PostFailsTyped, MovesTyped
  DEF Typing
<1> QED
  BY <1>1, <1>2, <1>3 DEF Next

(* Every variable keeps its type (TypeOK).                                 *)
THEOREM TypeCorrect == Spec => []TypeOK
<1>1. Typing => TypeOK
  BY DEF Typing
<1> QED
  BY <1>1, InitTyping, StepTyped, PTL DEF Spec

(***************************************************************************)
(* The group of a session.                                                 *)
(***************************************************************************)

LEMMA NothingInheritedStep ==
  ASSUME Typing, [Next]_vars, NEW k \in Clients, ~LoggedIn(k), session'[k].uid # NoUser
  PROVE  session'[k].gid = NoGroup
<1> session \in [Clients -> Session] /\ session[k].gid = NoGroup /\ session[k].uid = NoUser
  BY DEF Typing, TypeOK, Logins, LoggedIn
<1>1. CASE UNCHANGED vars
  BY <1>1 DEF vars, client
<1>2. CASE Take \/ Answer \/ Lose \/ Stop \/ Resume
  BY <1>2 DEF Take, Answer, Lose, Stop, Resume, client
<1>3. ASSUME NEW c \in Clients,
             \/ Start(c) \/ Ask(c) \/ Exit(c) \/ Select(c) \/ Client(c)
             \/ Unreachable(c) \/ Post(c) \/ AcceptPost(c) \/ PostDone(c) \/ PostFails(c)
      PROVE  session'[k].gid = NoGroup
  <2>1. CASE \E q \in Requests : Sends(c, q)
    BY <2>1 DEF Sends, Send
  <2>2. CASE Hears(c)
    BY <2>2 DEF Hears, Handle, LoggedInAs, LoggedOut, Fresh, Session
  <2>3. CASE Ends(c)
    BY <2>3 DEF Ends, Gone, Fresh
  <2>4. CASE Select(c)
    BY <2>4 DEF Select, LoggedIn, Session
  <2>5. CASE PostFails(c)
    BY <2>5 DEF PostFails
  <2>6. CASE \E s \in Stages : Moves(c, s)
    BY <2>6 DEF Moves
  <2> QED
    BY <1>3, <2>1, <2>2, <2>3, <2>4, <2>5, <2>6, ClientSteps DEF Typing
<1> QED
  BY <1>1, <1>2, <1>3 DEF Next

(* Whoever logs in starts with no group selected (NoInheritedGroup).       *)
THEOREM NothingInherited == Spec => NoInheritedGroup
<1>1. Typing /\ [Next]_vars =>
        [\A c \in Clients :
           ~LoggedIn(c) /\ session'[c].uid # NoUser => session'[c].gid = NoGroup]_vars
  BY NothingInheritedStep
<1> QED
  BY <1>1, InitTyping, StepTyped, PTL DEF Spec, NoInheritedGroup

(***************************************************************************)
(* Requests and their answers.                                             *)
(***************************************************************************)

LEMMA InitOurs == Init => Ours
BY DEF Init, Server!Init, Ours, Single, Answering

(* A request leaves the server's socket, and may be the one at hand now.   *)
LEMMA Left ==
  ASSUME Typing, Ours, NEW n \in DOMAIN socket, Without(socket, n, socket'),
         socket' \in Seq(Entry), UNCHANGED client, UNCHANGED inbox,
         NEW k \in Clients, ~muddled[k],
         Answering(k)' => \/ Answering(k) /\ result' = result
                          \/ socket[n].from = k /\ result'.req = socket[n].req
  PROVE  Single(k)'
<1> PICK f \in [DOMAIN socket' -> DOMAIN socket \ {n}] :
        /\ \A i \in DOMAIN socket' : socket'[i] = socket[f[i]]
        /\ \A i, j \in DOMAIN socket' : i < j => f[i] < f[j]
  BY DEF Without
<1> Single(k)
  BY DEF Ours
<1> UNCHANGED <<stage, cmd, inbox>>
  BY DEF client
<1> DOMAIN socket' = 1..Len(socket') /\ Len(socket') \in Nat
  BY LenProperties
<1> DOMAIN socket = 1..Len(socket) /\ Len(socket) \in Nat
  BY LenProperties DEF Typing, TypeOK
<1>1. ASSUME NEW i \in DOMAIN socket', socket'[i].from = k
      PROVE  /\ Waiting(k) /\ socket'[i].req = cmd[k] /\ ~Answering(k)' /\ inbox[k] = << >>
             /\ \A j \in DOMAIN socket' : socket'[j].from = k => j = i
  <2> f[i] \in DOMAIN socket /\ f[i] # n /\ socket[f[i]].from = k
    BY <1>1
  <2>1. /\ Waiting(k) /\ socket[f[i]].req = cmd[k] /\ ~Answering(k) /\ inbox[k] = << >>
        /\ \A j \in DOMAIN socket : socket[j].from = k => j = f[i]
    BY DEF Single
  <2>2. ~Answering(k)'
    BY <2>1
  <2>3. ASSUME NEW j \in DOMAIN socket', socket'[j].from = k PROVE j = i
    <3> f[j] = f[i]
      BY <2>1, <2>3
    <3> f[i] \in Nat
      OBVIOUS
    <3> QED
      OBVIOUS
  <2> QED
    BY <2>1, <2>2, <2>3
<1>2. ASSUME Answering(k)'
      PROVE  Waiting(k) /\ result'.req = cmd[k] /\ inbox[k] = << >>
  BY <1>2 DEF Single
<1>3. Len(inbox[k]) <= 1 /\ (inbox[k] # << >> => Waiting(k) /\ inbox[k][1].re = cmd[k])
  BY DEF Single
<1> QED
  BY <1>1, <1>2, <1>3 DEF Single, Waiting

LEMMA TakeOurs == ASSUME Typing, Ours, Take PROVE Ours'
<1> SUFFICES ASSUME NEW k \in Clients, ~muddled[k] PROVE Single(k)'
  BY DEF Ours, Take, client
<1> socket \in Seq(Entry) /\ socket # << >>
  BY DEF Typing, TypeOK, Entry, Take
<1>1. /\ 1 \in DOMAIN socket /\ Head(socket) = socket[1]
      /\ socket' \in Seq(Entry) /\ Without(socket, 1, socket')
  BY TailRemoved DEF Take
<1>2. result'.req = socket[1].req /\ peer' = socket[1].from
  <2> Head(socket) \in Entry
    BY HeadTailProperties
  <2> socket[1].req \in Requests
    BY <1>1 DEF Entry
  <2> QED
    BY <1>1, DoTyped DEF Take, Typing, TypeOK
<1> QED
  BY <1>1, <1>2, Left DEF Take, Answering

LEMMA LoseOurs == ASSUME Typing, Ours, Lose PROVE Ours'
<1> SUFFICES ASSUME NEW k \in Clients, ~muddled[k] PROVE Single(k)'
  BY DEF Ours, Lose, client
<1> socket \in Seq(Entry)
  BY DEF Typing, TypeOK, Entry
<1> PICK n \in DOMAIN socket : socket' = RemoveAt(socket, n)
  BY DEF Lose
<1>1. socket' \in Seq(Entry) /\ Without(socket, n, socket')
  BY Removed
<1> QED
  BY <1>1, Left DEF Lose, Answering, directory

LEMMA AnswerOurs == ASSUME Typing, Ours, Answer PROVE Ours'
<1> SUFFICES ASSUME NEW k \in Clients, ~muddled[k] PROVE Single(k)'
  BY DEF Ours, Answer, client
<1> Single(k) /\ UNCHANGED <<stage, cmd, socket>> /\ ~Answering(k)'
  BY DEF Ours, Answer, client, Answering
<1> DEFINE d == [re |-> result.req, word |-> SecondWord(result)]
<1> d \in Datagram /\ d.re = result.req /\ inbox[k] \in Seq(Datagram)
  BY AnswerIsDatagram DEF Typing, TypeOK, Answer
<1>1. CASE Deliver(peer, d) /\ peer = k
  <2>1. inbox'[k] = Append(inbox[k], d)
    BY <1>1, Delivered DEF Typing, TypeOK
  <2>2. Answering(k)
    BY <1>1 DEF Answer, Answering
  <2>3. Waiting(k) /\ result.req = cmd[k] /\ inbox[k] = << >>
    BY <2>2 DEF Single
  <2>4. \A i \in DOMAIN socket : socket[i].from # k
    BY <2>2 DEF Single
  <2>5. inbox'[k][1] = d /\ Len(inbox'[k]) = 1
    BY <2>1, <2>3
  <2> HIDE DEF d
  <2> QED
    BY <2>3, <2>4, <2>5 DEF Single, Waiting
<1>2. CASE Deliver(peer, d) /\ peer # k
  <2>1. inbox'[k] = inbox[k]
    BY <1>2, Delivered DEF Typing, TypeOK
  <2> QED
    BY <2>1 DEF Single, Waiting
<1>3. CASE UNCHANGED inbox
  BY <1>3 DEF Single, Waiting
<1> QED
  BY <1>1, <1>2, <1>3 DEF Answer

LEMMA ServerOurs == ASSUME Typing, Ours, Stop \/ Resume PROVE Ours'
<1> SUFFICES ASSUME NEW k \in Clients, ~muddled[k] PROVE Single(k)'
  BY DEF Ours, Stop, Resume, client
<1> Single(k) /\ k # Nobody
  BY SessionAssumption DEF Ours
<1> Waiting(k)' <=> Waiting(k)
  BY StopWaits DEF Resume, client, Waiting, Typing, TypeOK
<1> QED
  BY DEF Single, Stop, Resume, Server!Stop, Server!Resume, client, Answering

(* The server's socket after a client has sent a request.                  *)
LEMMA Sent ==
  ASSUME TypeOK, NEW c \in Clients, NEW q \in Requests, NEW next, Send(c, q, next)
  PROVE  /\ DOMAIN socket = 1..Len(socket) /\ Len(socket) \in Nat
         /\ \/ socket' = socket
            \/ /\ DOMAIN socket' = 1..(Len(socket) + 1)
               /\ socket'[Len(socket) + 1] = [from |-> c, req |-> q]
               /\ \A i \in 1..Len(socket) : socket'[i] = socket[i]
<1> DEFINE e == [from |-> c, req |-> q]
<1> socket \in Seq(Entry) /\ e \in Entry
  BY DEF TypeOK, Entry, Address
<1>1. CASE socket' = Append(socket, e)
  <2>1. /\ Append(socket, e) \in Seq(Entry) /\ Len(Append(socket, e)) = Len(socket) + 1
        /\ Append(socket, e)[Len(socket) + 1] = e
        /\ \A i \in 1..Len(socket) : Append(socket, e)[i] = socket[i]
    BY AppendProperties
  <2> QED
    BY <1>1, <2>1, LenProperties
<1> QED
  BY <1>1, LenProperties DEF Send

LEMMA SendsOurs ==
  ASSUME Typing, Ours, NEW c \in Clients, NEW q \in Requests, Sends(c, q)
  PROVE  Ours'
<1> SUFFICES ASSUME NEW k \in Clients, ~muddled[k] PROVE Single(k)'
  BY DEF Ours, Sends, Send
<1> PICK next \in {"await", "leaving"} : Send(c, q, next)
  BY DEF Sends
<1> DEFINE e == [from |-> c, req |-> q]
<1>1. Single(k) /\ (Answering(k)' <=> Answering(k)) /\ UNCHANGED <<result, inbox>>
  BY DEF Ours, Send, Answering, directory
<1>2. DOMAIN socket = 1..Len(socket) /\ Len(socket) \in Nat
  BY Sent DEF Typing
<1>3. \/ socket' = socket
      \/ /\ DOMAIN socket' = 1..(Len(socket) + 1) /\ socket'[Len(socket) + 1] = e
         /\ \A i \in 1..Len(socket) : socket'[i] = socket[i]
  BY Sent DEF Typing
<1>4. CASE k = c
  <2>1. ~Waiting(k)
    BY <1>4 DEF Sends, Waiting
  <2>2. (\A i \in DOMAIN socket : socket[i].from # k) /\ ~Answering(k) /\ inbox[k] = << >>
    BY <2>1, <1>1 DEF Single
  <2>3. Waiting(k)' /\ cmd'[k] = q
    BY <1>4 DEF Send, Waiting, Typing, TypeOK
  <2>4. ASSUME NEW i \in DOMAIN socket', socket'[i].from = k
        PROVE  i = Len(socket) + 1 /\ socket'[i] = e
    BY <2>2, <2>4, <1>2, <1>3
  <2> QED
    BY <1>1, <2>2, <2>3, <2>4 DEF Single
<1>5. CASE k # c
  <2>1. (Waiting(k)' <=> Waiting(k)) /\ cmd'[k] = cmd[k]
    BY <1>5 DEF Send, Waiting, Typing, TypeOK
  <2>2. ASSUME NEW i \in DOMAIN socket', socket'[i].from = k
        PROVE  i \in DOMAIN socket /\ socket'[i] = socket[i]
    BY <2>2, <1>2, <1>3, <1>5
  <2> QED
    BY <1>1, <2>1, <2>2 DEF Single
<1> QED
  BY <1>4, <1>5

LEMMA HearsOurs == ASSUME Typing, Ours, NEW c \in Clients, Hears(c) PROVE Ours'
<1> SUFFICES ASSUME NEW k \in Clients, ~muddled[k] PROVE Single(k)'
  BY DEF Ours, Hears
<1> Single(k) /\ inbox[k] \in Seq(Datagram) /\ UNCHANGED <<socket, result, peer>>
  BY DEF Ours, Hears, directory, Typing, TypeOK
<1>1. CASE k = c
  <2>1. (\A i \in DOMAIN socket : socket[i].from # k) /\ ~Answering(k) /\ Len(inbox[k]) <= 1
    BY <1>1 DEF Single, Hears
  <2>2. inbox'[k] = Tail(inbox[k]) /\ inbox[k] # << >>
    BY <1>1 DEF Hears, Typing, TypeOK
  <2>3. Len(inbox'[k]) = Len(inbox[k]) - 1 /\ inbox'[k] \in Seq(Datagram) /\ Len(inbox[k]) \in Nat
    BY <2>2, HeadTailProperties, LenProperties
  <2>4. inbox'[k] = << >>
    BY <2>1, <2>3, EmptySeq
  <2> QED
    BY <2>1, <2>4 DEF Single, Answering
<1>2. CASE k # c
  <2> UNCHANGED <<stage[k], cmd[k], inbox[k]>>
    BY <1>2 DEF Hears, Typing, TypeOK
  <2> QED
    BY DEF Single, Answering, Waiting
<1> QED
  BY <1>1, <1>2

LEMMA EndsOurs == ASSUME Typing, Ours, NEW c \in Clients, Ends(c) PROVE Ours'
<1> SUFFICES ASSUME NEW k \in Clients, ~muddled'[k] PROVE Single(k)'
  BY DEF Ours
<1> k # Nobody /\ UNCHANGED result
  BY SessionAssumption DEF Ends, Gone, directory
<1>1. /\ DOMAIN socket' = DOMAIN socket
      /\ \A i \in DOMAIN socket : /\ socket'[i].req = socket[i].req
                                  /\ socket'[i].from = Unhear(socket[i].from, c)
  BY Unsigned DEF Ends, Typing
<1>2. CASE k = c
  <2>1. inbox'[k] = << >>
    BY <1>2 DEF Ends, Gone, Typing, TypeOK
  <2>2. \A a : Unhear(a, c) # k
    BY <1>2 DEF Unhear
  <2>3. ~Answering(k)'
    BY <2>2 DEF Answering, Ends, Gone
  <2> QED
    BY <1>1, <2>1, <2>2, <2>3 DEF Single
<1>3. CASE k # c
  <2>1. UNCHANGED <<stage[k], cmd[k], inbox[k], muddled[k]>>
    BY <1>3 DEF Ends, Gone, Typing, TypeOK
  <2>2. \A a : Unhear(a, c) = k <=> a = k
    BY <1>3 DEF Unhear
  <2>3. Single(k) /\ (Answering(k)' <=> Answering(k))
    BY <2>1, <2>2 DEF Ours, Answering, Ends, Gone
  <2> QED
    BY <1>1, <2>1, <2>2, <2>3 DEF Single, Waiting
<1> QED
  BY <1>2, <1>3

LEMMA MovesOurs ==
  ASSUME Typing, Ours, NEW c \in Clients, NEW s \in Stages, Moves(c, s)
  PROVE  Ours'
<1> SUFFICES ASSUME NEW k \in Clients, ~muddled[k] PROVE Single(k)'
  BY DEF Ours, Moves
<1> Single(k) /\ (Waiting(k)' <=> Waiting(k))
  BY DEF Ours, Moves, Waiting, Typing, TypeOK
<1> QED
  BY DEF Moves, Single, Answering

LEMMA SelectOurs == ASSUME Ours, NEW c \in Clients, Select(c) PROVE Ours'
BY DEF Select, Ours, Single, Answering, Waiting, directory, network

(* A client that is not muddled after a post has failed was not sent the   *)
(* report.                                                                 *)
LEMMA Spared ==
  ASSUME Typing, NEW c \in Clients, PostFails(c), NEW k \in Clients, ~muddled'[k]
  PROVE  ~muddled[k] /\ inbox'[k] = inbox[k] /\ (Waiting(k)' <=> Waiting(k))
<1> [re |-> NoCommand, word |-> "NOK"] \in Datagram /\ heard[c] \in Address
  BY DEF Datagram, Words, Statuses, Typing, TypeOK
<1>1. ~muddled[k] /\ k # heard[c]
  <2> muddled'[k] = (muddled[k] \/ k = heard[c])
    BY DEF PostFails
  <2> QED
    OBVIOUS
<1>2. inbox'[k] = inbox[k]
  BY <1>1, Delivered DEF PostFails, Typing
<1> QED
  BY <1>1, <1>2 DEF PostFails, Waiting, Typing, TypeOK

LEMMA PostFailsOurs == ASSUME Typing, Ours, NEW c \in Clients, PostFails(c) PROVE Ours'
<1> SUFFICES ASSUME NEW k \in Clients, ~muddled'[k] PROVE Single(k)'
  BY DEF Ours
<1> Single(k) /\ inbox'[k] = inbox[k] /\ (Waiting(k)' <=> Waiting(k))
  BY Spared DEF Ours
<1> QED
  BY DEF PostFails, Single, Answering, directory

LEMMA StepOurs == ASSUME Typing, Ours, [Next]_vars PROVE Ours'
<1>1. CASE UNCHANGED vars
  BY <1>1 DEF vars, directory, network, client, Ours, Single, Answering, Waiting
<1>2. CASE Take \/ Answer \/ Lose \/ Stop \/ Resume
  BY <1>2, TakeOurs, AnswerOurs, LoseOurs, ServerOurs
<1>3. ASSUME NEW c \in Clients,
             \/ Start(c) \/ Ask(c) \/ Exit(c) \/ Select(c) \/ Client(c)
             \/ Unreachable(c) \/ Post(c) \/ AcceptPost(c) \/ PostDone(c) \/ PostFails(c)
      PROVE  Ours'
  BY <1>3, ClientSteps, SendsOurs, HearsOurs, EndsOurs, SelectOurs, PostFailsOurs, MovesOurs
  DEF Typing
<1> QED
  BY <1>1, <1>2, <1>3 DEF Next

(* What a client takes from its socket is the answer to its request        *)
(* (AnswerIsOurs).                                                         *)
THEOREM AnswersAreOurs == Spec => []AnswerIsOurs
<1>1. Ours => AnswerIsOurs
  BY DEF Ours, Single, AnswerIsOurs
<1> QED
  BY <1>1, InitTyping, StepTyped, InitOurs, StepOurs, PTL DEF Spec

(***************************************************************************)
(* Users and their clients.                                                *)
(***************************************************************************)

LEMMA InitOwned == Init => Owned
BY DEF Init, Owned, LoggedIn, Fresh

(* The request that a client sends is about a user of its own.             *)
LEMMA SendsOwn ==
  ASSUME Typing, Owned, NEW c \in Clients, NEW q \in Requests, Sends(c, q),
         NEW u \in Uids, Concerns(q, u)
  PROVE  Owns(c, u)
<1>1. CASE q \in Typed[c]
  BY <1>1 DEF Owns
<1>2. CASE q.op = "OUT" /\ q.uid = session[c].uid /\ LoggedIn(c)
  BY <1>2 DEF Owned, Concerns
<1> QED
  BY <1>1, <1>2 DEF Sends

(* The user of a session after an answer.                                  *)
LEMMA HandleUser ==
  ASSUME NEW s \in Session, NEW q \in Requests, NEW word
  PROVE  LET t == Handle(s, q, word)
         IN  \/ t.uid \in {NoUser, s.uid}
             \/ q.op = "LOG" /\ t.uid = q.uid
<1>1. CASE q.op = "LOG"
  BY <1>1 DEF Handle, LoggedInAs, Session
<1>2. CASE q.op # "LOG"
  BY <1>2 DEF Handle, LoggedOut, Fresh
<1> QED
  BY <1>1, <1>2

LEMMA StepOwned == ASSUME Typing, Owned, [Next]_vars PROVE Owned'
<1> session \in [Clients -> Session] /\ cmd \in [Clients -> Requests \cup {NoCommand}]
  BY DEF Typing, TypeOK
<1>1. CASE UNCHANGED <<session, cmd>>
  BY <1>1 DEF Owned, LoggedIn
<1>2. ASSUME NEW c \in Clients, ~UNCHANGED <<session, cmd>>,
             \/ Start(c) \/ Ask(c) \/ Exit(c) \/ Select(c) \/ Client(c)
             \/ Unreachable(c) \/ Post(c) \/ AcceptPost(c) \/ PostDone(c) \/ PostFails(c)
      PROVE  Owned'
  <2>1. ASSUME NEW q \in Requests, Sends(c, q) PROVE Owned'
    <3> session' = session /\ cmd' = [cmd EXCEPT ![c] = q]
      BY <2>1 DEF Sends, Send
    <3>1. \A u \in Uids : Concerns(q, u) => Owns(c, u)
      BY <2>1, SendsOwn
    <3> QED
      BY <3>1 DEF Owned, LoggedIn
  <2>2. CASE Hears(c)
    <3> DEFINE s == Handle(session[c], cmd[c], Head(inbox[c]).word)
    <3>1. session' = [session EXCEPT ![c] = s] /\ cmd' = [cmd EXCEPT ![c] = NoCommand]
      BY <2>2 DEF Hears
    <3>2. cmd[c] \in Requests
      BY <2>2 DEF Hears, Typing, TypeOK, Waiting
    <3>3. \/ s.uid \in {NoUser, session[c].uid}
          \/ cmd[c].op = "LOG" /\ s.uid = cmd[c].uid
      BY <3>2, HandleUser
    <3>4. s.uid # NoUser => Owns(c, s.uid)
      <4>1. CASE s.uid = session[c].uid
        BY <4>1 DEF Owned, LoggedIn
      <4>2. CASE cmd[c].op = "LOG" /\ s.uid = cmd[c].uid
        BY <3>2, <4>2, Fields DEF Owned, Concerns
      <4> QED
        BY <3>3, <4>1, <4>2
    <3> HIDE DEF s
    <3> QED
      BY <3>1, <3>4 DEF Owned, LoggedIn
  <2>3. CASE Ends(c)
    BY <2>3 DEF Ends, Gone, Fresh, Owned, LoggedIn
  <2>4. CASE Select(c)
    BY <2>4 DEF Select, Session, Owned, LoggedIn
  <2> QED
    BY <1>2, <2>1, <2>2, <2>3, <2>4, ClientSteps DEF Typing, PostFails, Moves
<1> QED
  BY <1>1, <1>2 DEF Next, vars, Take, Answer, Lose, Stop, Resume, client

(***************************************************************************)
(* The sessions and the server.                                            *)
(***************************************************************************)

LEMMA InitKeeping == Init => Keeping
BY SessionAssumption
DEF Init, Server!Init, Keeping, Kept, Following, Untouched, OnlyItsOwn, Stepping, Opening,
    Opens, Waiting, Fresh, Answering

(* The step leaves alone what is between the client k and the server.      *)
Beside(k) ==
  /\ UNCHANGED <<account, logged, result, session[k].uid, session[k].pass, cmd[k], inbox[k]>>
  /\ (Waiting(k)' <=> Waiting(k)) /\ (Answering(k)' <=> Answering(k))

(* Behind what was there, requests that are not the client's, nor about    *)
(* its user.                                                               *)
LEMMA Bystander ==
  ASSUME NEW k \in Clients, NEW u \in Uids, Kept(k, u), Beside(k),
         \A i \in DOMAIN socket' :
           \/ /\ i \in DOMAIN socket /\ socket'[i].req = socket[i].req
              /\ socket'[i].from = k <=> socket[i].from = k
           \/ socket'[i].from # k /\ ~Concerns(socket'[i].req, u)
  PROVE  Kept(k, u)'
<1>1. Following(k, u)'
  BY DEF Kept, Following
<1>2. Untouched(k, u)'
  BY DEF Kept, Untouched, Beside
<1>3. OnlyItsOwn(k, u)'
  BY DEF Kept, OnlyItsOwn, Beside
<1>4. Stepping(k, u)'
  BY DEF Kept, Stepping, InStep, OutOfStep, Beside
<1>5. Opening(k, u)'
  BY DEF Kept, Opening, Opens, Beside
<1> QED
  BY <1>1, <1>2, <1>3, <1>4, <1>5 DEF Kept

(* A request about a user is its own client's.                             *)
LEMMA OthersElsewhere ==
  ASSUME NEW c \in Clients, NEW k \in Clients, NEW u \in Uids, Alone(k, u), Owns(c, u)
  PROVE  c = k
BY DEF Alone, Owns, Concerns

(* What the server does with the request at the head of its socket, as far *)
(* as the client k and its user u are concerned.                           *)
LEMMA TakeKeeps ==
  ASSUME SInv, Take, NEW k \in Clients, NEW u \in Uids, ~muddled[k], Alone(k, u)
  PROVE  Kept(k, u)'
<1> DEFINE q == socket[1].req
<1> Kept(k, u) /\ Single(k)
  BY DEF SInv, Keeping, Ours
<1> socket \in Seq(Entry) /\ socket # << >> /\ ~Answering(k)
  BY DEF SInv, Typing, TypeOK, Entry, Take, Answering
<1>1. /\ 1 \in DOMAIN socket /\ Head(socket) = socket[1]
      /\ socket' \in Seq(Entry) /\ Without(socket, 1, socket')
  BY TailRemoved DEF Take
<1> Head(socket) \in Entry
  BY HeadTailProperties
<1> q \in Requests
  BY <1>1 DEF Entry
<1>2. /\ result'.req = q /\ peer' = socket[1].from
      /\ \A v \in Uids : ~Concerns(q, v) => account'[v] = account[v] /\ (v \in logged' <=> v \in logged)
  BY <1>1, DoTyped DEF Take, SInv, Typing, TypeOK
<1>3. UNCHANGED <<session, stage, cmd, inbox>>
  BY DEF Take, client
<1> PICK f \in [DOMAIN socket' -> DOMAIN socket \ {1}] :
        /\ \A i \in DOMAIN socket' : socket'[i] = socket[f[i]]
        /\ \A i, j \in DOMAIN socket' : i < j => f[i] < f[j]
  BY <1>1 DEF Without
<1> DOMAIN socket = 1..Len(socket) /\ Len(socket) \in Nat
  BY LenProperties
<1>4. CASE socket[1].from = k
  <2>1. Waiting(k) /\ q = cmd[k] /\ inbox[k] = << >> /\ \A j \in DOMAIN socket : socket[j].from = k => j = 1
    BY <1>1, <1>4 DEF Single
  <2>2. \A j \in DOMAIN socket' : socket'[j].from # k /\ ~Concerns(socket'[j].req, u)
    <3> TAKE j \in DOMAIN socket'
    <3> f[j] \in DOMAIN socket /\ 1 < f[j]
      OBVIOUS
    <3> ~Concerns(socket[f[j]].req, u)
      BY <1>1, <1>4 DEF Kept, Following
    <3> QED
      BY <2>1
  <2>3. Following(k, u)' /\ Untouched(k, u)' /\ OnlyItsOwn(k, u)'
    BY <2>2 DEF Following, Untouched, OnlyItsOwn
  <2>4. Stepping(k, u)'
    <3> SUFFICES ASSUME session[k].uid = u PROVE InStep(k)' \/ OutOfStep(k)'
      BY <1>3 DEF Stepping
    <3>1. InStep(k)
      BY <1>1, <1>4 DEF Kept, Stepping, OutOfStep
    <3>2. CASE ~Concerns(q, u)
      BY <1>2, <1>3, <3>1, <3>2 DEF InStep
    <3>3. CASE Concerns(q, u)
      <4>1. session[k].pass \in Passes
        BY SessionAssumption DEF SInv, Typing, Logins, LoggedIn
      <4>2. q.uid = u /\ Concerns(q, q.uid)
        BY <3>3 DEF Concerns
      <4>3. \/ u \in logged' /\ account'[u] = session[k].pass
            \/ q.op = "OUT"
            \/ q.op = "UNR" /\ result'.status = "OK"
        <5> DEFINE p == session[k].pass
        <5>1. Server!Do(q)
          BY <1>1 DEF Take
        <5>2. account \in [Uids -> Passes \cup {NoAccount}] /\ logged \subseteq Uids
          BY DEF SInv, Typing, TypeOK
        <5>3. p \in Passes /\ q.uid \in logged /\ account[q.uid] = p /\ Concerns(q, q.uid)
          BY <3>1, <4>1, <4>2 DEF InStep
        <5> HIDE DEF p, q
        <5>4. \/ q.uid \in logged' /\ account'[q.uid] = p
              \/ q.op = "OUT"
              \/ q.op = "UNR" /\ result'.status = "OK"
          BY <5>1, <5>2, <5>3, DoOfLoggedIn
        <5> QED
          BY <4>2, <5>4 DEF p
      <4>4. Waiting(k)' /\ inbox'[k] = << >> /\ cmd'[k] = q
        BY <1>3, <2>1 DEF Waiting
      <4> QED
        BY <1>3, <2>2, <4>2, <4>3, <4>4 DEF InStep, OutOfStep
    <3> QED
      BY <3>2, <3>3
  <2>5. Opening(k, u)'
    <3> SUFFICES ASSUME q.op = "LOG", q.uid = u, result'.status = "OK"
                 PROVE  u \in logged' /\ account'[u] = q.pass
      BY <1>3, <2>1 DEF Opening, Opens
    <3> QED
      BY <1>1, DoLogin DEF Take
  <2> QED
    BY <2>3, <2>4, <2>5 DEF Kept
<1>5. CASE socket[1].from # k
  <2> ~Answering(k)'
    BY <1>2, <1>5 DEF Answering
  <2>1. Following(k, u)' /\ Untouched(k, u)' /\ OnlyItsOwn(k, u)'
    BY <1>3 DEF Kept, Following, Untouched, OnlyItsOwn
  <2>2. Stepping(k, u)'
    <3> SUFFICES ASSUME session[k].uid = u PROVE InStep(k)' \/ OutOfStep(k)'
      BY <1>3 DEF Stepping
    <3> ~Concerns(q, u)
      BY <1>1, <1>5 DEF Kept, OnlyItsOwn
    <3>1. CASE InStep(k)
      BY <1>2, <1>3, <3>1 DEF InStep
    <3>2. CASE OutOfStep(k)
      BY <1>3, <3>2 DEF OutOfStep, Waiting
    <3> QED
      BY <3>1, <3>2 DEF Kept, Stepping
  <2>3. Opening(k, u)'
    <3> SUFFICES ASSUME Opens(k, u)' PROVE u \in logged' /\ account'[u] = cmd[k].pass
      BY <1>3 DEF Opening
    <3>1. Opens(k, u) /\ inbox[k] # << >>
      BY <1>3 DEF Opens, Waiting
    <3>2. ~Concerns(q, u)
      BY <1>1, <3>1 DEF Kept, Untouched
    <3> QED
      BY <1>2, <3>1, <3>2 DEF Kept, Opening
  <2> QED
    BY <2>1, <2>2, <2>3 DEF Kept
<1> QED
  BY <1>4, <1>5

LEMMA LoseKeeps ==
  ASSUME SInv, Lose, NEW k \in Clients, NEW u \in Uids, Kept(k, u)
  PROVE  Kept(k, u)'
<1> PICK n \in DOMAIN socket : socket' = RemoveAt(socket, n)
  BY DEF Lose
<1>1. Without(socket, n, socket')
  BY Removed DEF SInv, Typing, TypeOK, Entry
<1> PICK f \in [DOMAIN socket' -> DOMAIN socket \ {n}] :
        /\ \A i \in DOMAIN socket' : socket'[i] = socket[f[i]]
        /\ \A i, j \in DOMAIN socket' : i < j => f[i] < f[j]
  BY <1>1 DEF Without
<1>2. UNCHANGED <<account, logged, result, peer, session, stage, cmd, inbox>>
  BY DEF Lose, directory, client
<1>3. Following(k, u)' /\ Untouched(k, u)' /\ OnlyItsOwn(k, u)'
  BY <1>2 DEF Kept, Following, Untouched, OnlyItsOwn, Answering
<1>4. Stepping(k, u)' /\ Opening(k, u)'
  BY <1>2 DEF Kept, Stepping, InStep, OutOfStep, Opening, Opens, Waiting, Answering
<1> QED
  BY <1>3, <1>4 DEF Kept

LEMMA AnswerKeeps ==
  ASSUME SInv, Answer, NEW k \in Clients, NEW u \in Uids, ~muddled[k], Kept(k, u)
  PROVE  Kept(k, u)'
<1> Single(k) /\ ~Answering(k)' /\ UNCHANGED <<account, logged, socket, session, stage, cmd>>
  BY DEF SInv, Ours, Answer, client, Answering
<1> DEFINE d == [re |-> result.req, word |-> SecondWord(result)]
<1> d \in Datagram /\ d.word = SecondWord(result)
  BY AnswerIsDatagram DEF SInv, Typing, Answer
<1> inbox[k] \in Seq(Datagram)
  BY DEF SInv, Typing, TypeOK
<1>1. CASE inbox'[k] # inbox[k]
  <2>1. Deliver(peer, d)
    BY <1>1 DEF Answer
  <2>2. peer = k /\ inbox'[k] = Append(inbox[k], d)
    BY <1>1, <2>1, Delivered DEF SInv, Typing, TypeOK
  <2>3. Answering(k)
    BY <2>2 DEF Answer, Answering
  <2>4. Waiting(k) /\ result.req = cmd[k] /\ inbox[k] = << >>
    BY <2>3 DEF Single
  <2>5. inbox'[k] # << >> /\ inbox'[k][1] = d
    BY <2>2, <2>4
  <2>6. cmd[k].op \in {"LOG", "UNR"} => d.word = result.status
    BY <2>4 DEF SecondWord
  <2> HIDE DEF d
  <2>7. Following(k, u)' /\ Untouched(k, u)' /\ OnlyItsOwn(k, u)'
    BY <2>3 DEF Kept, Following, Untouched, OnlyItsOwn
  <2>8. Stepping(k, u)'
    BY <2>3, <2>5, <2>6 DEF Kept, Stepping, InStep, OutOfStep, Waiting
  <2>9. Opening(k, u)'
    BY <2>3, <2>5, <2>6 DEF Kept, Opening, Opens, Waiting
  <2> QED
    BY <2>7, <2>8, <2>9 DEF Kept
<1>2. CASE inbox'[k] = inbox[k]
  <2>1. Following(k, u)' /\ Untouched(k, u)' /\ OnlyItsOwn(k, u)'
    BY <1>2 DEF Kept, Following, Untouched, OnlyItsOwn
  <2>2. Stepping(k, u)' /\ Opening(k, u)'
    BY <1>2 DEF Kept, Stepping, InStep, OutOfStep, Opening, Opens, Waiting
  <2> QED
    BY <2>1, <2>2 DEF Kept
<1> QED
  BY <1>1, <1>2

LEMMA ServerKeeps ==
  ASSUME Typing, Stop \/ Resume, NEW k \in Clients, NEW u \in Uids, Kept(k, u)
  PROVE  Kept(k, u)'
<1> Waiting(k)' <=> Waiting(k)
  BY StopWaits DEF Resume, client, Waiting, Typing, TypeOK
<1>1. /\ ~Answering(k)' /\ UNCHANGED <<account, logged, session, cmd, inbox>>
      /\ socket' \in {<< >>, socket}
  BY SessionAssumption
  DEF Stop, Resume, Server!Stop, Server!Resume, Answering, client
<1>2. Following(k, u)' /\ Untouched(k, u)' /\ OnlyItsOwn(k, u)'
  BY <1>1 DEF Kept, Following, Untouched, OnlyItsOwn
<1>3. Stepping(k, u)' /\ Opening(k, u)'
  BY <1>1 DEF Kept, Stepping, InStep, OutOfStep, Opening, Opens
<1> QED
  BY <1>2, <1>3 DEF Kept

LEMMA SendsKeeps ==
  ASSUME SInv, NEW c \in Clients, NEW q \in Requests, Sends(c, q),
         NEW k \in Clients, NEW u \in Uids, ~muddled[k], Alone(k, u)
  PROVE  Kept(k, u)'
<1> PICK next \in {"await", "leaving"} : Send(c, q, next)
  BY DEF Sends
<1> DEFINE e == [from |-> c, req |-> q]
<1> Kept(k, u) /\ Single(k)
  BY DEF SInv, Keeping, Ours
<1>1. DOMAIN socket = 1..Len(socket) /\ Len(socket) \in Nat
  BY Sent DEF SInv, Typing
<1>2. \/ socket' = socket
      \/ /\ DOMAIN socket' = 1..(Len(socket) + 1) /\ socket'[Len(socket) + 1] = e
         /\ \A i \in 1..Len(socket) : socket'[i] = socket[i]
  BY Sent DEF SInv, Typing
<1>3. /\ UNCHANGED <<account, logged, result, session, inbox>>
      /\ Answering(k)' <=> Answering(k)
  BY DEF Send, Answering, directory
<1>4. CASE k # c
  <2>1. Beside(k)
    BY <1>3, <1>4 DEF Beside, Send, Waiting, SInv, Typing, TypeOK
  <2>2. ~Concerns(q, u)
    BY <1>4, SendsOwn, OthersElsewhere DEF SInv
  <2>3. \A i \in DOMAIN socket' :
          \/ i \in DOMAIN socket /\ socket'[i] = socket[i]
          \/ socket'[i] = e
    BY <1>1, <1>2
  <2> QED
    BY <1>4, <2>1, <2>2, <2>3, Bystander
<1>5. CASE k = c
  <2>1. ~Waiting(k)
    BY <1>5 DEF Sends, Waiting
  <2>2. (\A i \in DOMAIN socket : socket[i].from # k) /\ ~Answering(k) /\ inbox[k] = << >>
    BY <2>1 DEF Single
  <2>3. Following(k, u)'
    <3> SUFFICES ASSUME NEW i \in DOMAIN socket', NEW j \in DOMAIN socket',
                        socket'[i].from = k, i < j
                 PROVE  FALSE
      BY DEF Following
    <3> QED
      BY <1>1, <1>2, <2>2
  <2>4. Untouched(k, u)' /\ Opening(k, u)'
    BY <1>3, <2>2 DEF Untouched, Opening, Opens
  <2>5. OnlyItsOwn(k, u)'
    BY <1>1, <1>2, <1>3, <1>5 DEF Kept, OnlyItsOwn
  <2>6. Stepping(k, u)'
    BY <1>3, <2>1 DEF Kept, Stepping, InStep, OutOfStep
  <2> QED
    BY <2>3, <2>4, <2>5, <2>6 DEF Kept
<1> QED
  BY <1>4, <1>5

LEMMA EndsKeeps ==
  ASSUME SInv, NEW c \in Clients, Ends(c), NEW k \in Clients, NEW u \in Uids,
         ~muddled'[k], Alone(k, u)
  PROVE  Kept(k, u)'
<1> k # Nobody /\ UNCHANGED <<account, logged, result>>
  BY SessionAssumption DEF Ends, Gone, directory
<1>1. /\ DOMAIN socket' = DOMAIN socket
      /\ \A i \in DOMAIN socket : /\ socket'[i].req = socket[i].req
                                  /\ socket'[i].from = Unhear(socket[i].from, c)
  BY Unsigned DEF Ends, SInv, Typing
<1>2. CASE k # c
  <2>1. UNCHANGED <<session[k], stage[k], cmd[k], inbox[k], muddled[k]>>
    BY <1>2 DEF Ends, Gone, SInv, Typing, TypeOK
  <2>2. \A a : Unhear(a, c) = k <=> a = k
    BY <1>2 DEF Unhear
  <2>3. Beside(k)
    BY <2>1, <2>2 DEF Beside, Waiting, Answering, Ends, Gone
  <2>4. Kept(k, u)
    BY <2>1 DEF SInv, Keeping
  <2> QED
    BY <1>1, <2>2, <2>3, <2>4, Bystander
<1>3. CASE k = c
  <2>1. ~Waiting(k)' /\ inbox'[k] = << >> /\ session'[k].uid = NoUser
    BY <1>3 DEF Ends, Gone, Waiting, Fresh, SInv, Typing, TypeOK
  <2>2. \A a : Unhear(a, c) # k
    BY <1>3 DEF Unhear
  <2>3. ~Answering(k)' /\ \A i \in DOMAIN socket' : socket'[i].from # k
    BY <1>1, <2>2 DEF Answering, Ends, Gone
  <2>4. u # NoUser
    BY SessionAssumption
  <2> QED
    BY <2>1, <2>3, <2>4
    DEF Kept, Following, Untouched, OnlyItsOwn, Stepping, Opening, Opens
<1> QED
  BY <1>2, <1>3

LEMMA MovesKeeps ==
  ASSUME SInv, NEW c \in Clients, (\E s \in Stages : Moves(c, s)) \/ Select(c),
         NEW k \in Clients, NEW u \in Uids, Kept(k, u)
  PROVE  Kept(k, u)'
<1>1. CASE \E s \in Stages : Moves(c, s)
  <2> Beside(k) /\ UNCHANGED socket
    BY <1>1 DEF Moves, Beside, Waiting, Answering, SInv, Typing, TypeOK
  <2> QED
    BY Bystander
<1>2. CASE Select(c)
  <2> Beside(k) /\ UNCHANGED socket
    BY <1>2
    DEF Select, Beside, Waiting, Answering, directory, network, SInv, Typing, TypeOK, Session
  <2> QED
    BY Bystander
<1> QED
  BY <1>1, <1>2

LEMMA PostFailsKeeps ==
  ASSUME SInv, NEW c \in Clients, PostFails(c), NEW k \in Clients, NEW u \in Uids,
         ~muddled'[k], Alone(k, u)
  PROVE  Kept(k, u)'
<1>1. ~muddled[k] /\ inbox'[k] = inbox[k] /\ (Waiting(k)' <=> Waiting(k))
  BY Spared DEF SInv
<1>2. Beside(k) /\ UNCHANGED socket
  BY <1>1 DEF PostFails, Beside, Answering, directory
<1> QED
  BY <1>1, <1>2, Bystander DEF SInv, Keeping

(* A client that hears of a login is in step from then on; it hears of the *)
(* end of its session when it was out of step.                             *)
LEMMA HearsKeeps ==
  ASSUME SInv, NEW c \in Clients, Hears(c), NEW k \in Clients, NEW u \in Uids,
         ~muddled[k], Alone(k, u)
  PROVE  Kept(k, u)'
<1> Kept(k, u) /\ Single(k) /\ UNCHANGED <<account, logged, result, peer, socket>>
  BY DEF SInv, Keeping, Ours, Hears, directory
<1>1. CASE k # c
  <2> Beside(k)
    BY <1>1 DEF Hears, Beside, Waiting, Answering, SInv, Typing, TypeOK
  <2> QED
    BY Bystander
<1>2. CASE k = c
  <2> DEFINE word == Head(inbox[c]).word
             s == Handle(session[c], cmd[c], word)
  <2>1. session'[k] = s /\ ~Waiting(k)'
    BY <1>2 DEF Hears, Waiting, SInv, Typing, TypeOK
  <2>2. /\ \A i \in DOMAIN socket : socket[i].from # k
        /\ ~Answering(k) /\ inbox[k] # << >> /\ Waiting(k)
    BY <1>2 DEF Single, Hears, Waiting
  <2>3. inbox[k] \in Seq(Datagram) /\ session[k] \in Session /\ cmd[k] \in Requests
    BY <2>2 DEF SInv, Typing, TypeOK
  <2>4. word = inbox[k][1].word
    BY <1>2, <2>2, <2>3, EmptySeq
  <2>5. \A j \in DOMAIN socket : ~Concerns(socket[j].req, u)
    BY <2>2 DEF Kept, Untouched
  <2>6. Stepping(k, u)'
    <3> SUFFICES ASSUME s.uid = u PROVE u \in logged /\ account[u] = s.pass
      BY <2>1 DEF Stepping, InStep
    <3> HIDE DEF word
    <3> u # NoUser
      BY SessionAssumption
    <3>1. CASE cmd[k].op = "LOG" /\ session[k].uid = NoUser
      <4>1. word = "OK" /\ cmd[k].uid = u /\ s.pass = cmd[k].pass
        BY <1>2, <2>3, <3>1 DEF Handle, LoggedInAs, Session
      <4>2. Opens(k, u)
        BY <2>2, <2>4, <3>1, <4>1 DEF Opens
      <4> QED
        BY <4>1, <4>2 DEF Kept, Opening
    <3>2. CASE ~(cmd[k].op = "LOG" /\ session[k].uid = NoUser)
      <4>1. s = session[k] /\ cmd[k].op # "OUT"
            /\ ~(cmd[k].op = "UNR" /\ word = "OK" /\ session[k].uid = cmd[k].uid)
        BY <1>2, <2>3, <3>2 DEF Handle, LoggedInAs, LoggedOut, Fresh, Session
      <4>2. ~OutOfStep(k)
        BY <2>2, <2>4, <4>1 DEF OutOfStep
      <4> QED
        BY <4>1, <4>2 DEF Kept, Stepping, InStep
    <3> QED
      BY <3>1, <3>2
  <2> QED
    BY <2>1, <2>2, <2>5, <2>6 DEF Kept, Following, Untouched, OnlyItsOwn, Opening, Opens
<1> QED
  BY <1>1, <1>2

LEMMA StepKeeping == ASSUME SInv, [Next]_vars PROVE Keeping'
<1> SUFFICES ASSUME NEW k \in Clients, NEW u \in Uids, ~muddled'[k], Alone(k, u)
             PROVE  Kept(k, u)'
  BY DEF Keeping, Alone
<1>1. CASE UNCHANGED vars
  <2> Beside(k) /\ UNCHANGED socket /\ ~muddled[k]
    BY <1>1 DEF vars, directory, network, client, Beside, Waiting, Answering
  <2> QED
    BY Bystander DEF SInv, Keeping
<1>2. CASE Take \/ Answer \/ Lose \/ Stop \/ Resume
  <2> ~muddled[k] /\ Kept(k, u)
    BY <1>2 DEF Take, Answer, Lose, Stop, Resume, client, SInv, Keeping
  <2> QED
    BY <1>2, TakeKeeps, AnswerKeeps, LoseKeeps, ServerKeeps DEF SInv
<1>3. ASSUME NEW c \in Clients,
             \/ Start(c) \/ Ask(c) \/ Exit(c) \/ Select(c) \/ Client(c)
             \/ Unreachable(c) \/ Post(c) \/ AcceptPost(c) \/ PostDone(c) \/ PostFails(c)
      PROVE  Kept(k, u)'
  <2>1. CASE Ends(c) \/ PostFails(c)
    BY <2>1, EndsKeeps, PostFailsKeeps
  <2>2. CASE (\E q \in Requests : Sends(c, q)) \/ Hears(c)
    <3> ~muddled[k]
      BY <2>2 DEF Sends, Send, Hears
    <3> QED
      BY <2>2, SendsKeeps, HearsKeeps
  <2>3. CASE (\E s \in Stages : Moves(c, s)) \/ Select(c)
    <3> ~muddled[k]
      BY <2>3 DEF Moves, Select
    <3> QED
      BY <2>3, MovesKeeps DEF SInv, Keeping
  <2> QED
    BY <1>3, <2>1, <2>2, <2>3, ClientSteps DEF SInv, Typing
<1> QED
  BY <1>1, <1>2, <1>3 DEF Next

LEMMA StepKeepsInv == ASSUME SInv, [Next]_vars PROVE SInv'
BY StepTyped, StepOurs, StepOwned, StepKeeping DEF SInv

(* At every prompt the session of a user whom no other client uses is what *)
(* the server says it is (SessionInStep).                                  *)
THEOREM SessionsInStep == Spec => []SessionInStep
<1>1. SInv => SessionInStep
  <2> SUFFICES ASSUME SInv, NEW c \in Clients, stage[c] = "prompt", LoggedIn(c),
                      Alone(c, session[c].uid), ~muddled[c]
               PROVE  InStep(c)
    BY DEF SessionInStep
  <2> session[c].uid \in Uids
    BY DEF SInv, Typing, TypeOK, Session, LoggedIn
  <2> ~OutOfStep(c)
    BY DEF OutOfStep, Waiting
  <2> QED
    BY DEF SInv, Keeping, Kept, Stepping
<1>2. Init => SInv
  BY InitTyping, InitOurs, InitOwned, InitKeeping DEF SInv
<1> QED
  BY <1>1, <1>2, StepKeepsInv, PTL DEF Spec
=============================================================================
