------------------------------ MODULE Directory ------------------------------
(***************************************************************************)
(* What the directory server promises to its users: a table of accounts    *)
(* and a list of groups, in which every request takes effect at one        *)
(* instant, between its arrival and its answer.  The server may stop at    *)
(* any time: the request at hand is then not answered.                     *)
(***************************************************************************)
EXTENDS Protocol, Sequences, FiniteSets

CONSTANTS NoAccount, NoResult

VARIABLES
  account,   \* the password of each user
  logged,    \* the users that are logged in
  groups,    \* the groups in the order of their numbers
  result,    \* the outcome of the request at hand
  up         \* the server runs

directory == <<account, logged, groups, result, up>>

Init ==
  /\ account = [u \in Uids |-> NoAccount]
  /\ logged = {} /\ groups = << >> /\ result = NoResult /\ up = FALSE

Result(q, status, list) == result' = [req |-> q, status |-> status, list |-> list]
Refuse(q, status) == Result(q, status, {}) /\ UNCHANGED <<account, logged, groups>>
Accept(q)         == Result(q, "OK", {})

Knows(u)   == account[u] # NoAccount
Entitled(q) == account[q.uid] = q.pass

Register(q) ==
  \/ Knows(q.uid) /\ Refuse(q, "DUP")
  \/ /\ ~Knows(q.uid) /\ Accept(q)
     /\ account' = [account EXCEPT ![q.uid] = q.pass]
     /\ UNCHANGED <<logged, groups>>

Unregister(q) ==
  /\ Entitled(q) /\ Accept(q)
  /\ account' = [account EXCEPT ![q.uid] = NoAccount]
  /\ logged' = logged \ {q.uid}
  /\ groups' = [g \in DOMAIN groups |->
                  [groups[g] EXCEPT !.members = @ \ {q.uid}]]

Login(q) ==
  /\ Entitled(q) /\ Accept(q)
  /\ logged' = logged \cup {q.uid}
  /\ UNCHANGED <<account, groups>>

Logout(q) ==
  /\ Entitled(q) /\ Accept(q)
  /\ logged' = logged \ {q.uid}
  /\ UNCHANGED <<account, groups>>

(* A new group has its founder for a member.  A group that was given a     *)
(* blank name has none that a user could state: any may pass for it.       *)
Found(q) ==
  /\ Len(groups) < MaxGroups
  /\ Result(q, "NEW", {Len(groups) + 1})
  /\ \E members \in {{q.uid}} \cup (IF q.name = Blank THEN {{}} ELSE {}) :
       groups' = Append(groups, [name |-> q.name, members |-> members])
  /\ UNCHANGED <<account, logged>>

Join(q) ==
  /\ groups[q.gid].name \in {q.name, Blank} /\ Accept(q)
  /\ groups' = [groups EXCEPT ![q.gid].members = @ \cup {q.uid}]
  /\ UNCHANGED <<account, logged>>

Subscribe(q) ==
  \/ ~Knows(q.uid) /\ Refuse(q, "E_USR")
  \/ Knows(q.uid) /\ q.gid = NewGroup /\ Found(q)
  \/ Knows(q.uid) /\ q.gid = NewGroup /\ Len(groups) = MaxGroups /\ Refuse(q, "E_FULL")
  \/ Knows(q.uid) /\ q.gid \notin {NewGroup} \cup DOMAIN groups /\ Refuse(q, "E_GRP")
  \/ /\ Knows(q.uid) /\ q.gid \in DOMAIN groups
     /\ \/ Join(q)
        \/ (groups[q.gid].name = Blank \/ groups[q.gid].name # q.name) /\ Refuse(q, "E_GNAME")

Unsubscribe(q) ==
  \/ ~Knows(q.uid) /\ Refuse(q, "E_USR")
  \/ Knows(q.uid) /\ q.gid \notin DOMAIN groups /\ Refuse(q, "E_GRP")
  \/ /\ Knows(q.uid) /\ q.gid \in DOMAIN groups /\ Accept(q)
     /\ groups' = [groups EXCEPT ![q.gid].members = @ \ {q.uid}]
     /\ UNCHANGED <<account, logged>>

ListGroups(q) ==
  /\ Result(q, "OK", DOMAIN groups)
  /\ UNCHANGED <<account, logged, groups>>

ListMine(q) ==
  \/ q.uid \notin logged /\ Refuse(q, "E_USR")
  \/ /\ q.uid \in logged
     /\ Result(q, "OK", {g \in DOMAIN groups : q.uid \in groups[g].members})
     /\ UNCHANGED <<account, logged, groups>>

Do(q) ==
  \/ q.op = "REG" /\ Register(q)
  \/ q.op = "UNR" /\ Unregister(q)
  \/ q.op = "LOG" /\ Login(q)
  \/ q.op = "OUT" /\ Logout(q)
  \/ q.op \in {"UNR", "LOG", "OUT"} /\ ~Entitled(q) /\ Refuse(q, "NOK")
  \/ q.op = "GSR" /\ Subscribe(q)
  \/ q.op = "GUR" /\ Unsubscribe(q)
  \/ q.op = "GLS" /\ ListGroups(q)
  \/ q.op = "GLM" /\ ListMine(q)

Take == /\ up /\ result = NoResult /\ UNCHANGED up
        /\ \E q \in Requests : Do(q)

Answer == /\ result # NoResult
          /\ result' = NoResult /\ UNCHANGED <<account, logged, groups, up>>

Stop   == up /\ up' = FALSE /\ result' = NoResult /\ UNCHANGED <<account, logged, groups>>
Resume == ~up /\ up' = TRUE /\ UNCHANGED <<account, logged, groups, result>>

Next == Take \/ Answer \/ Stop \/ Resume

Spec == Init /\ [][Next]_directory
=============================================================================
