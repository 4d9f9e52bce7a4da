----------------------- MODULE DirectoryServerProofs -----------------------
(***************************************************************************)
(* Theorems about DirectoryServer, for any number of users, groups and     *)
(* ULS requests.                                                           *)
(***************************************************************************)
EXTENDS DirectoryServer, FiniteSetTheorems, TLAPS

(***************************************************************************)
(* The inductive invariant, any fault allowed.                             *)
(***************************************************************************)

(* What each stage of the parent knows of the request it serves. *)
Serves ==
  /\ pc \in {"begin", "reply"} => req \in Requests
  /\ pc \in {"pass", "pass+"} => req \in Requests /\ req.op = "REG"
  /\ pc \in {"rmhome", "rmsubs"} => req \in Requests /\ req.op = "UNR"
  /\ pc \in {"mkmsg", "name", "name+", "compare"} => req \in Requests /\ req.op = "GSR"
  /\ pc \in {"mkmsg", "name", "name+"} => gid \in groups

(* The numbers of the groups have no gap. *)
Contiguous == \E n \in Nat : groups = 1..n

(* A user without a directory has no files. *)
Housed == \A u \in Uids : u \notin homes => pass[u] = Absent /\ u \notin login

(* What is known of the password of the user that is registered, before it *)
(* is written, and of the one that is unregistered.                        *)
Passing ==
  /\ pc \in {"pass", "pass+"} => req.uid \in homes /\ pass[req.uid] \notin Passes
  /\ pc = "rmhome" => pass[req.uid] \in {req.pass, Empty, Absent}

DInv == TypeOK /\ Serves /\ Contiguous /\ Housed /\ Passing

(***************************************************************************)
(* The inductive invariant of a server none of whose calls fails.          *)
(***************************************************************************)

(* Whom the handler at hand has yet to make or to remove. *)
Registering == IF pc \in {"pass", "pass+", "rmhome"} THEN {req.uid} ELSE {}
Creating    == IF pc \in {"mkmsg", "name"} THEN {gid} ELSE {}
Straying(g) == IF pc = "rmsubs" /\ g \in todo THEN {req.uid} ELSE {}

CInv ==
  /\ \A u \in homes \ Registering : pass[u] \in Passes
  /\ \A g \in groups \ Creating : g \in msgs /\ name[g] # Absent
  /\ \A g \in Gids \ groups : name[g] = Absent /\ members[g] = {}
  /\ pc = "name" => gid \in msgs
  /\ \A g \in Gids : members[g] \subseteq homes \cup Straying(g)
  /\ pc \in {"mkmsg", "name", "name+", "compare"} => req.uid \in homes
  /\ CrashOnlyInGsr

(***************************************************************************)
(* Lemmas about requests and answers.                                      *)
(***************************************************************************)

(* The parts of a request, by its operation. *)
LEMMA Fields ==
  ASSUME NEW q \in Requests
  PROVE  /\ q.op \in {"REG", "UNR", "LOG", "OUT", "GSR", "GUR", "GLM", "GLS"}
         /\ q.op # "GLS" => q.uid \in Uids
         /\ q.op \in AccountOps => q.pass \in Passes
         /\ q.op \in {"GSR", "GUR"} => q.gid \in Gids
         /\ q.op = "GSR" => q.name \in GNames
<1>1. CASE q \in [op: AccountOps, uid: Uids, pass: Passes]
  BY <1>1 DEF AccountOps
<1>2. CASE q \in [op: {"GSR"}, uid: Uids, gid: Gids, name: GNames]
  BY <1>2 DEF AccountOps
<1>3. CASE q \in [op: {"GUR"}, uid: Uids, gid: Gids]
  BY <1>3 DEF AccountOps
<1>4. CASE q \in [op: {"GLM"}, uid: Uids]
  BY <1>4 DEF AccountOps
<1>5. CASE q \in [op: {"GLS"}]
  BY <1>5 DEF AccountOps
<1> QED
  BY <1>1, <1>2, <1>3, <1>4, <1>5 DEF Requests

(* Every operation has a verb. *)
LEMMA Verbs ==
  /\ \A q \in Requests : Verb[q.op] \in {Verb[op] : op \in DOMAIN Verb}
  /\ "RGS" \in {Verb[op] : op \in DOMAIN Verb}
<1>1. DOMAIN Verb = {"REG", "UNR", "LOG", "OUT", "GSR", "GUR", "GLM", "GLS"}
  BY DEF Verb
<1>2. Verb["GSR"] = "RGS"
  BY DEF Verb
<1> QED
  BY <1>1, <1>2, Fields

(* What formatting an answer keeps of the types. *)
LEMMA Preparing ==
  ASSUME TypeOK, NEW verb \in {Verb[op] : op \in DOMAIN Verb},
         NEW status \in Statuses, NEW list \in SUBSET Gids,
         Prepare(verb, status, list)
  PROVE  /\ out' \in Answers /\ pc' = "reply" /\ pc' \in Stages
         /\ req' = req /\ gid' = gid /\ todo' = todo /\ missed' = missed /\ ul' = ul
  BY DEF Prepare, Answers, Goto, Stages

(* The same for the answers that carry a status only. *)
LEMMA Saying ==
  ASSUME TypeOK, req \in Requests, NEW status \in Statuses, Say(status)
  PROVE  /\ out' \in Answers /\ pc' = "reply" /\ pc' \in Stages
         /\ req' = req /\ gid' = gid /\ todo' = todo /\ missed' = missed /\ ul' = ul
<1>1. Prepare(Verb[req.op], status, {})
  BY DEF Say
<1>2. Verb[req.op] \in {Verb[op] : op \in DOMAIN Verb} /\ {} \in SUBSET Gids
  BY Verbs
<1> QED
  BY <1>1, <1>2 DEF Prepare, Answers, Goto, Stages

(* What counting the listed groups and adding one gives. *)
LEMMA Counting ==
  ASSUME NEW n \in Nat, groups = 1..n
  PROVE  /\ Cardinality(groups) = n
         /\ NextGid = IF "list" \in missed THEN 1 ELSE n + 1
<1>1. Cardinality(1..n) = IF 1 > n THEN 0 ELSE n - 1 + 1
  BY FS_Interval
<1>2. Cardinality(groups) = n
  BY <1>1
<1>3. Cardinality({}) = 0
  BY FS_EmptySet
<1> QED
  BY <1>2, <1>3 DEF NextGid, Listed

(* Without the fault nothing is missed; with it, nothing unknown. *)
LEMMA Missing ==
  /\ \A opens : {} \in Failing(opens)
  /\ \A op : Failing(OpensOf(op)) \subseteq Failing(Opens)
  /\ Failing({"file", "list"}) \subseteq SUBSET Opens
  /\ Faults = {} /\ TypeOK => missed = {}
<1>1. \A op : OpensOf(op) \subseteq Opens
  BY DEF OpensOf, Opens
<1>2. \A op : Failing(OpensOf(op)) \subseteq Failing(Opens)
  BY <1>1 DEF Failing
<1>3. Failing({"file", "list"}) \subseteq SUBSET Opens
  BY DEF Failing, Opens
<1>4. \A opens : {} \in Failing(opens)
  BY DEF Failing
<1>5. Faults = {} /\ TypeOK => missed = {}
  BY DEF Failing, TypeOK, May
<1> QED
  BY <1>2, <1>3, <1>4, <1>5

(***************************************************************************)
(* Type correctness.                                                       *)
(***************************************************************************)
(* The initial values have their types. *)
LEMMA TypeInit == Init => TypeOK
  BY ProtocolAssumption, Missing DEF Init, TypeOK, Stages, Down, Gids, NewGroup, Lister, ListerStages

(* The handlers of REG, UNR, LOG and OUT keep the types. *)
LEMMA TypeAccounts ==
  ASSUME TypeOK, Serves, Accounts
  PROVE  TypeOK'
<1> USE Fields DEF TypeOK, Serves, AccountFrame, Step, Goto, locals, accounts, files
<1>s. Stages = {"off", "fault", "mkusers", "mkgroups", "idle", "begin", "pass",
                "pass+", "rmhome", "rmsubs", "mkmsg", "name", "name+",
                "compare", "reply"}
  BY DEF Stages, Down, Starting
<1>t. {"OK", "NOK", "DUP"} \subseteq Statuses
  BY DEF Statuses
<1>1. CASE Register
  BY <1>1, <1>s, <1>t, Saying DEF Register, Begin
<1>2. CASE CreatePass
  BY <1>2, <1>s, <1>t, Saying DEF CreatePass
<1>3. CASE WritePass
  BY <1>3, <1>s, <1>t, Saying DEF WritePass, AccountOps
<1>4. CASE Refuse
  BY <1>4, <1>s, <1>t, Saying DEF Refuse, Segfault
<1>5. CASE Login
  BY <1>5, <1>s, <1>t, Saying DEF Login, Admitted, Begin
<1>6. CASE Logout
  BY <1>6, <1>s, <1>t, Saying DEF Logout, Admitted, Begin
<1>7. CASE Unregister
  BY <1>7, <1>s, <1>t, Saying DEF Unregister, Admitted, Begin
<1>8. CASE DeleteFile
  BY <1>8, <1>s DEF DeleteFile
<1>9. CASE CannotDelete
  BY <1>9, <1>s, <1>t, Saying DEF CannotDelete
<1>10. CASE DeleteHome
  BY <1>10, <1>s DEF DeleteHome, HomesWithout, GroupsToLeave, Listed
<1>11. CASE LeaveGroup
  BY <1>11, <1>s, <1>t, Saying DEF LeaveGroup, Tick
<1>12. CASE Unregistered
  BY <1>12, <1>s, <1>t, Saying DEF Unregistered
<1> QED
  BY <1>1, <1>2, <1>3, <1>4, <1>5, <1>6, <1>7, <1>8, <1>9, <1>10, <1>11, <1>12
  DEF Accounts

(* The handlers of GSR, GUR, GLS and GLM keep the types. *)
LEMMA TypeGroups ==
  ASSUME TypeOK, Serves, Contiguous, Groups
  PROVE  TypeOK'
<1> USE Fields DEF TypeOK, Serves, GroupFrame, Step, Goto, locals, accounts, files
<1>s. Stages = {"off", "fault", "mkusers", "mkgroups", "idle", "begin", "pass",
                "pass+", "rmhome", "rmsubs", "mkmsg", "name", "name+",
                "compare", "reply"}
  BY DEF Stages, Down, Starting
<1>t. {"OK", "NOK", "NEW", "E_USR", "E_GRP", "E_GNAME", "E_FULL"} \subseteq Statuses
  BY DEF Statuses
<1>g. NewGroup \in Gids /\ groups \subseteq Gids
  BY ProtocolAssumption DEF NewGroup, Gids
<1>v. \A status \in Statuses, list \in SUBSET Gids :
         [verb |-> "RGS", status |-> status, list |-> list] \in Answers
  BY Verbs DEF Answers
<1>1. CASE Subscribe
  <2>1. CanFound => NextGid \in Gids \ {NewGroup}
    BY Counting, ProtocolAssumption DEF Contiguous, CanFound, Gids, NewGroup
  <2> QED
    BY <1>1, <2>1, <1>s, <1>t, <1>g, <1>v, Saying DEF Subscribe, Begin, Target
<1>2. CASE MakeMsgDir
  BY <1>2, <1>s, <1>t, Saying DEF MakeMsgDir, CannotCreate
<1>3. CASE CreateName
  BY <1>3, <1>s, <1>t, Saying DEF CreateName, CannotCreate
<1>4. CASE WriteName
  BY <1>4, <1>s, <1>t, <1>g, <1>v DEF WriteName
<1>5. CASE CompareName
  <2>1. ASSUME NEW status \in Statuses, Settle(status)
        PROVE  out' \in Answers \cup {NoResult} /\ pc' = "reply" /\ UNCHANGED <<req, gid, todo, missed, ul>>
    BY <2>1, <1>v DEF Settle
  <2> QED
    BY <1>5, <2>1, <1>s, <1>t, Saying DEF CompareName
<1>6. CASE NameMissing
  BY <1>6, <1>s DEF NameMissing, Segfault
<1>7. CASE Unsubscribe
  BY <1>7, <1>s, <1>t, Saying DEF Unsubscribe, Begin
<1>8. ASSUME NEW shown \in SUBSET groups, req \in Requests, ShowGroups(shown)
      PROVE  TypeOK'
  BY <1>8, <1>s, <1>t, <1>g, Verbs, Preparing DEF ShowGroups, Segfault
<1>9. CASE ListGroups
  BY <1>9, <1>8 DEF ListGroups, Begin, Listed
<1>10. CASE ListMine
  BY <1>10, <1>8, <1>s, <1>t, Verbs, Preparing DEF ListMine, Begin, Subscribed, Listed
<1> QED
  BY <1>1, <1>2, <1>3, <1>4, <1>5, <1>6, <1>7, <1>9, <1>10 DEF Groups

(* The child of a ULS request changes its locals only. *)
LEMMA TypeUlist ==
  ASSUME TypeOK, NEW l \in Listers, AcceptUlist(l) \/ SendRequest(l) \/ Ulist(l)
  PROVE  /\ ul' \in [Listers -> Lister]
         /\ UNCHANGED <<files, pc, locals>>
<1> USE DEF TypeOK, ListerFrame
<1>m. ul[l] \in Lister
  OBVIOUS
<1>k. /\ "read" \in ListerStages /\ "look" \in ListerStages /\ "spin" \in ListerStages
      /\ "done" \in ListerStages /\ "crashed" \in ListerStages
      /\ "name" \in ListerStages /\ "files" \in ListerStages
  BY DEF ListerStages, AtWork
<1>e. ASSUME NEW stage \in ListerStages, ul' = [ul EXCEPT ![l].pc = stage]
      PROVE  ul' \in [Listers -> Lister]
  <2>1. [ul[l] EXCEPT !.pc = stage] \in Lister
    BY <1>m DEF Lister
  <2> QED
    BY <1>e, <2>1
<1>1. CASE AcceptUlist(l)
  BY <1>1, <1>e, <1>k DEF AcceptUlist
<1>6. CASE SendRequest(l)
  BY <1>6, <1>m DEF SendRequest, Lister
<1>7. CASE ReadRequest(l)
  <2>1. ASSUME NEW g \in Gids, NEW opens \in Failing({"file", "list"}),
               ul' = [ul EXCEPT ![l].pc = "look", ![l].gid = g, ![l].missed = opens,
                                ![l].named = (name[g] # Absent)]
        PROVE  ul' \in [Listers -> Lister]
    <3>1. opens \in SUBSET Opens
      BY Missing
    <3>2. \A b \in BOOLEAN :
            [ul[l] EXCEPT !.pc = "look", !.gid = g, !.missed = opens, !.named = b] \in Lister
      BY <1>m, <1>k, <3>1 DEF Lister
    <3>3. (name[g] # Absent) \in BOOLEAN
      OBVIOUS
    <3>4. ul' = [ul EXCEPT ![l] = [ul[l] EXCEPT !.pc = "look", !.gid = g, !.missed = opens,
                                                !.named = (name[g] # Absent)]]
      BY <2>1
    <3> QED
      BY <3>2, <3>3, <3>4
  <2> QED
    BY <1>7, <2>1, <1>e, <1>k DEF ReadRequest
<1>2. CASE Look(l)
  <2>1. [ul[l] EXCEPT !.pc = "done", !.status = "NOK"] \in Lister
    BY <1>m, <1>k DEF Lister
  <2>2. \/ ul' = [ul EXCEPT ![l].pc = "name"]
        \/ ul' = [ul EXCEPT ![l] = [ul[l] EXCEPT !.pc = "done", !.status = "NOK"]]
    BY <1>2 DEF Look
  <2> QED
    BY <1>2, <2>1, <2>2, <1>e, <1>k DEF Look
<1>3. CASE ReadName(l)
  <2>1. ASSUME NEW users \in SUBSET Uids
        PROVE  [ul[l] EXCEPT !.pc = "files", !.todo = users] \in Lister
    BY <1>m, <1>k DEF Lister
  <2>2. \/ ul' = [ul EXCEPT ![l].pc = "crashed"]
        \/ ul' = [ul EXCEPT ![l].pc = "files",
                            ![l].todo = IF "list" \in ul[l].missed THEN {} ELSE Uids]
    BY <1>3 DEF ReadName
  <2>3. CASE ul' = [ul EXCEPT ![l].pc = "crashed"]
    BY <1>3, <2>3, <1>e, <1>k DEF ReadName
  <2>4. ASSUME NEW users \in SUBSET Uids, ul' = [ul EXCEPT ![l].pc = "files", ![l].todo = users]
        PROVE  ul' \in [Listers -> Lister]
    <3>1. ul' = [ul EXCEPT ![l] = [ul[l] EXCEPT !.pc = "files", !.todo = users]]
      BY <2>4
    <3> QED
      BY <2>1, <3>1
  <2> QED
    BY <1>3, <2>2, <2>3, <2>4 DEF ReadName
<1>4. CASE ReadEntry(l)
  <2>1. PICK u \in ul[l].todo :
          ul' = [ul EXCEPT ![l].todo = @ \ {u},
                           ![l].seen = @ \cup ({u} \cap members[ul[l].gid])]
    BY <1>4 DEF ReadEntry
  <2>2. u \in Uids
    BY <1>m DEF Lister
  <2>3. [ul[l] EXCEPT !.todo = @ \ {u},
                      !.seen = @ \cup ({u} \cap members[ul[l].gid])] \in Lister
    BY <1>m, <2>2 DEF Lister
  <2>4. ul' \in [Listers -> Lister]
    BY <2>1, <2>3
  <2> QED
    BY <1>4, <2>4 DEF ReadEntry
<1>5. CASE SendList(l)
  <2>1. [ul[l] EXCEPT !.pc = "done", !.status = "OK"] \in Lister
    BY <1>m, <1>k DEF Lister
  <2>2. ul' = [ul EXCEPT ![l] = [ul[l] EXCEPT !.pc = "done", !.status = "OK"]]
    BY <1>5 DEF SendList
  <2> QED
    BY <1>5, <2>1, <2>2 DEF SendList
<1> QED
  BY <1>1, <1>2, <1>3, <1>4, <1>5, <1>6, <1>7 DEF Ulist

(* Every step of the server keeps the types. *)
LEMMA TypeNext ==
  ASSUME TypeOK, Serves, Contiguous, [Next]_vars
  PROVE  TypeOK'
<1>s. Stages = {"off", "fault", "mkusers", "mkgroups", "idle", "begin", "pass",
                "pass+", "rmhome", "rmsubs", "mkmsg", "name", "name+",
                "compare", "reply"}
  BY DEF Stages, Down, Starting
<1>f. Forget => /\ req' = NoReq /\ gid' \in Gids /\ todo' = {} /\ out' = NoResult
                /\ missed' \in Failing(Opens)
  BY ProtocolAssumption, Missing DEF Forget, NewGroup, Gids
<1>1. CASE Start
  BY <1>1, <1>s, <1>f DEF Start, TypeOK, Tree, Goto, accounts
<1>2. CASE MakeUsers \/ MakeGroups
  BY <1>2, <1>s DEF MakeUsers, MakeGroups, MakeTop, TypeOK, Tree, Goto, accounts, locals
<1>3. CASE Kill
  <2>1. ul' \in [Listers -> Lister]
    BY <1>3 DEF Kill, TypeOK, Lister, ListerStages
  <2> QED
    BY <1>3, <2>1, <1>s, <1>f DEF Kill, TypeOK, Goto, files, accounts
<1>4. CASE Receive
  <2>1. req' \in Requests /\ missed' \in Failing(Opens)
    BY <1>4, Missing DEF Receive
  <2> QED
    BY <1>4, <2>1, <1>s DEF Receive, TypeOK, Goto, files, accounts
<1>5. CASE Accounts
  BY <1>5, TypeAccounts
<1>6. CASE Groups
  BY <1>6, TypeGroups
<1>7. CASE Answer
  BY <1>7, <1>s, <1>f DEF Answer, TypeOK, Goto, files, accounts
<1>8. ASSUME NEW l \in Listers, AcceptUlist(l) \/ SendRequest(l) \/ Ulist(l)
      PROVE  TypeOK'
  BY <1>8, TypeUlist DEF TypeOK, files, accounts, locals
<1>9. CASE UNCHANGED vars
  BY <1>9 DEF vars, TypeOK, files, accounts, locals
<1> QED
  BY <1>1, <1>2, <1>3, <1>4, <1>5, <1>6, <1>7, <1>8, <1>9 DEF Next, Handler

(***************************************************************************)
(* The other conjuncts of the inductive invariant.                         *)
(***************************************************************************)

(* The parent's steps outside of its handlers leave the files of users and *)
(* groups alone, and so do the children.                                   *)
LEMMA OtherSteps ==
  ASSUME TypeOK, [Next]_vars, ~Accounts, ~Groups
  PROVE  /\ UNCHANGED <<accounts, groups, msgs, name, members>>
         /\ \/ UNCHANGED <<pc, req, gid, todo>>
            \/ pc' \in {"off", "mkusers", "mkgroups", "idle"}
            \/ pc' = "begin" /\ req' \in Requests
         /\ pc' \in {"pass", "pass+", "rmhome", "rmsubs", "mkmsg", "name",
                     "name+", "compare", "reply", "fault"} => UNCHANGED <<pc, req, gid, todo>>
<1> USE DEF Goto, files, accounts, locals
<1>1. CASE Start
  BY <1>1 DEF Start
<1>2. CASE MakeUsers \/ MakeGroups
  BY <1>2 DEF MakeUsers, MakeGroups, MakeTop
<1>3. CASE Kill
  BY <1>3 DEF Kill
<1>4. CASE Receive
  BY <1>4 DEF Receive
<1>5. CASE Answer
  BY <1>5 DEF Answer
<1>6. ASSUME NEW l \in Listers, AcceptUlist(l) \/ SendRequest(l) \/ Ulist(l)
      PROVE  UNCHANGED <<files, pc, locals>>
  BY <1>6, TypeUlist
<1>7. CASE UNCHANGED vars
  BY <1>7 DEF vars
<1> QED
  BY <1>1, <1>2, <1>3, <1>4, <1>5, <1>6, <1>7 DEF Next, Handler

(* A handler keeps to the request that it was started with. *)
LEMMA ServesNext ==
  ASSUME TypeOK, Serves, [Next]_vars
  PROVE  Serves'
<1> USE DEF Serves, Step, Goto, Say, Prepare, locals
<1>1. CASE Accounts
  BY <1>1 DEF Accounts, Begin, Admitted, AccountFrame, Register, CreatePass,
     WritePass, Refuse, Segfault, Login, Logout, Unregister, DeleteFile,
     CannotDelete, DeleteHome, LeaveGroup, Unregistered
<1>2. CASE Groups
  <2>1. CASE Subscribe
    BY <2>1 DEF Subscribe, Begin, Target
  <2>2. CASE MakeMsgDir \/ CreateName \/ WriteName
    BY <2>2 DEF MakeMsgDir, CreateName, WriteName, CannotCreate
  <2>3. CASE CompareName \/ NameMissing
    BY <2>3 DEF CompareName, NameMissing, Settle, Segfault
  <2>4. CASE Unsubscribe
    BY <2>4 DEF Unsubscribe, Begin
  <2>5. CASE ListGroups \/ ListMine
    BY <2>5 DEF ListGroups, ListMine, ShowGroups, Begin, Segfault
  <2> QED
    BY <1>2, <2>1, <2>2, <2>3, <2>4, <2>5 DEF Groups
<1>3. CASE ~Accounts /\ ~Groups
  BY <1>3, OtherSteps
<1> QED
  BY <1>1, <1>2, <1>3

(* Only subscribe() adds a group, the next one. *)
LEMMA ContiguousNext ==
  ASSUME TypeOK, Contiguous, [Next]_vars
  PROVE  Contiguous'
<1>1. CASE UNCHANGED groups
  BY <1>1 DEF Contiguous
<1>2. CASE groups' = groups \cup {NextGid} /\ NextGid \notin groups
  <2>1. PICK n \in Nat : groups = 1..n
    BY DEF Contiguous
  <2>2. NextGid = n + 1
    BY <1>2, <2>1, Counting
  <2>3. groups' = 1..(n + 1)
    BY <1>2, <2>1, <2>2
  <2> QED
    BY <2>1, <2>3 DEF Contiguous
<1>3. Accounts => UNCHANGED groups
  BY DEF Accounts, AccountFrame, files, Register, CreatePass, WritePass, Refuse,
     Segfault, Login, Logout, Unregister, DeleteFile, CannotDelete, DeleteHome,
     LeaveGroup, Unregistered
<1>4. Groups => \/ UNCHANGED groups
                \/ groups' = groups \cup {NextGid} /\ NextGid \notin groups
  BY DEF Groups, Subscribe, MakeMsgDir, CreateName, WriteName, CannotCreate,
     CompareName, NameMissing, Unsubscribe, ListGroups, ListMine, ShowGroups,
     Segfault, files
<1> QED
  BY <1>1, <1>2, <1>3, <1>4, OtherSteps

(* What a step of the group handlers does to the accounts: nothing. *)
LEMMA GroupsKeepAccounts ==
  ASSUME Groups
  PROVE  /\ UNCHANGED <<tree, homes, pass, login>>
         /\ pc' \in {"mkmsg", "name", "name+", "compare", "reply", "fault"}
  BY DEF Groups, GroupFrame, files, accounts, Goto, Step, Target, Say, Prepare,
     Settle, Subscribe, MakeMsgDir, CreateName, WriteName, CannotCreate,
     CompareName, NameMissing, Unsubscribe, ListGroups, ListMine, ShowGroups,
     Segfault

(* The files of an account are made and removed within its directory. *)
LEMMA AccountsNext ==
  ASSUME TypeOK, Serves, Housed, Passing, [Next]_vars
  PROVE  Housed' /\ Passing'
<1> USE Fields, DirectoryAssumption
    DEF TypeOK, Serves, Housed, Passing, Step, Goto, Say, Prepare, locals,
        accounts, files, AccountOps
<1>1. CASE Register
  BY <1>1 DEF Register, Begin, KnownUser
<1>2. CASE CreatePass
  BY <1>2 DEF CreatePass
<1>3. CASE WritePass
  BY <1>3 DEF WritePass
<1>4. CASE Refuse
  BY <1>4 DEF Refuse, Segfault
<1>5. ASSUME NEW op \in {"UNR", "LOG", "OUT"}, Admitted(op)
      PROVE  req.uid \in homes /\ pass[req.uid] \in {req.pass, Empty}
  BY <1>5 DEF Admitted, Right
<1>6. CASE Login \/ Logout
  BY <1>6, <1>5 DEF Login, Logout
<1>7. CASE Unregister
  BY <1>7, <1>5 DEF Unregister
<1>8. CASE DeleteFile
  BY <1>8 DEF DeleteFile
<1>9. CASE CannotDelete
  BY <1>9 DEF CannotDelete
<1>10. CASE DeleteHome
  BY <1>10 DEF DeleteHome, HomesWithout
<1>11. CASE LeaveGroup \/ Unregistered
  BY <1>11 DEF LeaveGroup, Unregistered
<1>12. CASE Groups
  BY <1>12, GroupsKeepAccounts
<1>13. CASE ~Accounts /\ ~Groups
  BY <1>13, OtherSteps
<1> QED
  BY <1>1, <1>2, <1>3, <1>4, <1>6, <1>7, <1>8, <1>9, <1>10, <1>11, <1>12, <1>13
  DEF Accounts

(***************************************************************************)
(* The theorems, any fault allowed.                                        *)
(***************************************************************************)
(* The invariant holds at the start. *)
LEMMA DInvInit == Init => DInv
<1>1. Init => Contiguous
  <2>1. {} = 1..0
    OBVIOUS
  <2> QED
    BY <2>1 DEF Init, Contiguous
<1> QED
  BY <1>1, TypeInit DEF Init, DInv, Serves, Housed, Passing

(* The invariant is inductive. *)
LEMMA DInvNext == DInv /\ [Next]_vars => DInv'
  BY TypeNext, ServesNext, ContiguousNext, AccountsNext DEF DInv

(* The invariant that the theorems of this module rest on. *)
THEOREM Structure == Spec => []DInv
  BY DInvInit, DInvNext, PTL DEF Spec

(* Type correctness of the directory server. *)
THEOREM TypeCorrect == Spec => []TypeOK
<1>1. DInv => TypeOK
  BY DEF DInv
<1> QED
  BY <1>1, Structure, PTL

(* The groups are numbered 1..n, through failures and kills. *)
THEOREM GidsAreContiguous == Spec => []GidsContiguous
<1>1. DInv => GidsContiguous
  BY Counting DEF DInv, Contiguous, GidsContiguous
<1> QED
  BY <1>1, Structure, PTL

(* The two parts of OnlyOwnerRemoves for one step. *)
Removal ==
  \A u \in Uids :
    /\ pass[u] \in Passes /\ pass'[u] # pass[u]
         => req.op = "UNR" /\ req.uid = u /\ req.pass = pass[u]
    /\ u \in login \ login'
         => /\ req.op \in {"UNR", "OUT"} /\ req.uid = u
            /\ pass[u] \in {req.pass, Absent, Empty}

(* The step property that OnlyOwnerRemoves states, from the invariant. *)
LEMMA RemovalStep == DInv /\ [Next]_vars => Removal
<1> SUFFICES ASSUME DInv, [Next]_vars PROVE Removal
  OBVIOUS
<1> USE Fields, DirectoryAssumption
    DEF DInv, TypeOK, Serves, Passing, Removal, accounts, files, AccountOps
<1>1. CASE Register \/ CreatePass \/ WritePass \/ Refuse
  BY <1>1 DEF Register, CreatePass, WritePass, Refuse, Segfault
<1>2. CASE Login \/ Unregister \/ CannotDelete \/ DeleteHome \/ LeaveGroup \/ Unregistered
  BY <1>2 DEF Login, Unregister, CannotDelete, DeleteHome, LeaveGroup, Unregistered
<1>3. CASE Logout
  BY <1>3 DEF Logout, Admitted, Begin, Right
<1>4. CASE DeleteFile
  BY <1>4 DEF DeleteFile
<1>5. CASE Groups
  BY <1>5, GroupsKeepAccounts
<1>6. CASE ~Accounts /\ ~Groups
  BY <1>6, OtherSteps
<1> QED
  BY <1>1, <1>2, <1>3, <1>4, <1>5, <1>6 DEF Accounts

(* No account or session is lost but by its owner's request. *)
THEOREM OwnersRemove == Spec => OnlyOwnerRemoves
<1>1. DInv /\ [Next]_vars => [Removal]_vars
  BY RemovalStep
<1> QED
  BY <1>1, Structure, PTL DEF Spec, OnlyOwnerRemoves, Removal

(***************************************************************************)
(* A server none of whose calls fails and that nobody kills.               *)
(***************************************************************************)
(* The invariant of the server without failures holds at the start. *)
LEMMA CInvInit == Init => CInv
  BY DEF Init, CInv, CrashOnlyInGsr

(* No handler is at a stage of its own when the parent's other steps, or   *)
(* the children's, are taken.                                              *)
LEMMA CInvOther ==
  ASSUME TypeOK, CInv, Faults = {}, [Next]_vars, ~Accounts, ~Groups
  PROVE  CInv'
<1>k. ~Kill
  BY DEF Kill, May
<1>h. \/ UNCHANGED <<pc, req, gid, todo>>
      \/ /\ pc \in {"off", "fault", "mkusers", "mkgroups", "idle", "reply"}
         /\ pc' \in {"off", "mkusers", "mkgroups", "idle", "begin"}
  <2> USE DEF Goto, Down
  <2>1. CASE Start \/ MakeUsers \/ MakeGroups
    BY <2>1 DEF Start, MakeUsers, MakeGroups, MakeTop, May
  <2>2. CASE Receive \/ Answer
    BY <2>2 DEF Receive, Answer
  <2>3. ASSUME NEW l \in Listers, AcceptUlist(l) \/ SendRequest(l) \/ Ulist(l)
        PROVE  UNCHANGED <<files, pc, locals>>
    BY <2>3, TypeUlist
  <2>4. CASE UNCHANGED vars
    BY <2>4 DEF vars, locals
  <2> QED
    BY <2>1, <2>2, <2>3, <2>4, <1>k DEF Next, Handler, locals
<1>1. UNCHANGED <<accounts, groups, msgs, name, members>>
  BY OtherSteps
<1>2. CASE UNCHANGED <<pc, req, gid, todo>>
  BY <1>1, <1>2 DEF CInv, Registering, Creating, Straying, CrashOnlyInGsr, accounts
<1>3. CASE /\ pc \in {"off", "fault", "mkusers", "mkgroups", "idle", "reply"}
           /\ pc' \in {"off", "mkusers", "mkgroups", "idle", "begin"}
  BY <1>1, <1>3 DEF CInv, Registering, Creating, Straying, CrashOnlyInGsr, accounts
<1> QED
  BY <1>h, <1>2, <1>3

(* The handlers of REG, UNR, LOG and OUT leave whole accounts. *)
LEMMA CInvAccounts ==
  ASSUME DInv, CInv, Faults = {}, Accounts
  PROVE  CInv'
<1> USE Fields DEF DInv, TypeOK, Serves, CInv, Registering, Creating, Straying,
        CrashOnlyInGsr, May, AccountFrame, Step, Goto, Say, Prepare, locals,
        accounts, files, AccountOps
<1>c. missed = {}
  BY Missing
<1>1. CASE Register
  BY <1>1 DEF Register, Begin, KnownUser
<1>2. CASE CreatePass
  BY <1>2 DEF CreatePass
<1>3. CASE WritePass
  BY <1>3 DEF WritePass
<1>4. CASE Refuse
  BY <1>4, <1>c, DirectoryAssumption DEF Refuse, Unreadable, Legible
<1>5. CASE Login \/ Logout \/ Unregister
  BY <1>5 DEF Login, Logout, Unregister, Admitted, Begin
<1>6. CASE DeleteFile \/ CannotDelete
  BY <1>6 DEF DeleteFile, CannotDelete
<1>7. CASE DeleteHome
  BY <1>7, <1>c DEF DeleteHome, HomesWithout, GroupsToLeave, Listed
<1>8. CASE LeaveGroup
  BY <1>8 DEF LeaveGroup, Tick
<1>9. CASE Unregistered
  BY <1>9 DEF Unregistered
<1> QED
  BY <1>1, <1>2, <1>3, <1>4, <1>5, <1>6, <1>7, <1>8, <1>9 DEF Accounts

(* The handlers of GSR, GUR, GLS and GLM leave whole groups. *)
LEMMA CInvGroups ==
  ASSUME DInv, CInv, Faults = {}, Groups
  PROVE  CInv'
<1> USE Fields, DirectoryAssumption
    DEF DInv, TypeOK, Serves, CInv, Registering, Creating, Straying,
        CrashOnlyInGsr, May, GroupFrame, Step, Goto, Say, Prepare, locals,
        accounts, files
<1>c. missed = {}
  BY Missing
<1>1. CASE Subscribe
  <2>1. CanFound => NextGid \in Gids
    BY Counting, ProtocolAssumption DEF Contiguous, CanFound, Gids
  <2> QED
    BY <1>1, <2>1 DEF Subscribe, Begin, Target, KnownUser
<1>2. CASE MakeMsgDir
  BY <1>2 DEF MakeMsgDir, CannotCreate
<1>3. CASE CreateName
  BY <1>3 DEF CreateName, CannotCreate
<1>4. CASE WriteName
  BY <1>4 DEF WriteName
<1>5. CASE CompareName
  BY <1>5 DEF CompareName, Settle, Legible
<1>6. CASE NameMissing
  BY <1>6, <1>c DEF NameMissing, Legible, Segfault
<1>7. CASE Unsubscribe
  BY <1>7 DEF Unsubscribe, Begin
<1>8. ASSUME NEW shown \in SUBSET groups, pc = "begin", ShowGroups(shown)
      PROVE  CInv'
  BY <1>8, <1>c DEF ShowGroups, Legible
<1>9. CASE ListGroups \/ ListMine
  BY <1>9, <1>8 DEF ListGroups, ListMine, Begin, Subscribed, Listed
<1> QED
  BY <1>1, <1>2, <1>3, <1>4, <1>5, <1>6, <1>7, <1>9 DEF Groups

(* Without failures, both invariants hold throughout. *)
LEMMA CleanStructure ==
  ASSUME Faults = {}
  PROVE  Spec => [](DInv /\ CInv)
<1>1. Init => DInv /\ CInv
  BY DInvInit, CInvInit
<1>2. DInv /\ CInv /\ [Next]_vars => (DInv /\ CInv)'
  <2>1. DInv /\ CInv /\ [Next]_vars => CInv'
    BY CInvOther, CInvAccounts, CInvGroups DEF DInv
  <2> QED
    BY <2>1, DInvNext
<1> QED
  BY <1>1, <1>2, PTL DEF Spec

(* Whole accounts, whole groups and registered members between requests,   *)
(* as long as no call fails.                                               *)
THEOREM HandlersLeaveNothingHalfDone ==
  ASSUME Faults = {}
  PROVE  Spec => []SettledClean
<1>1. DInv /\ CInv => SettledClean
  BY DEF DInv, TypeOK, Housed, CInv, Registering, Creating, Straying, SettledClean,
     NoStrayMembers, AccountsUsable, GroupsUsable, Idle, Down
<1> QED
  BY <1>1, CleanStructure, PTL

(* Only the subscription to a group that there is not brings the server    *)
(* down, as long as no call fails.                                         *)
THEOREM OnlySubscriptionsCrash ==
  ASSUME Faults = {}
  PROVE  Spec => []CrashOnlyInGsr
<1>1. CInv => CrashOnlyInGsr
  BY DEF CInv
<1> QED
  BY <1>1, CleanStructure, PTL

(***************************************************************************)
(* Answers, any fault allowed.                                             *)
(***************************************************************************)

(* An answer is prepared once: at the end of a handler, or half-way by a   *)
(* subscription to a new group, which then goes on to join it.             *)
Answering ==
  /\ pc \notin {"compare", "reply", "fault"} => out = NoResult
  /\ pc = "compare" /\ out # NoResult =>
       \/ out.status = "E_FULL"
       \/ /\ out.status = "NEW" /\ gid \in msgs
          /\ name[gid] \in {req.name, Empty}

(* What has been made, or removed, at the stages that report it. *)
Progress ==
  /\ pc = "pass+" => pass[req.uid] = Empty
  /\ pc = "rmsubs" =>
       /\ req.uid \notin homes
       /\ \/ \A g \in groups \ todo : req.uid \notin members[g]
          \/ "list" \in missed
  /\ pc \in {"name", "name+"} => gid \in msgs
  /\ pc = "name+" => name[gid] = Empty

(* A group with a name has been made up to its name, in a tree that is     *)
(* there to stay.                                                          *)
Rooted ==
  /\ \A g \in Gids : name[g] # Absent => g \in msgs
  /\ groups # {} => "GROUPS" \in tree

Telling == Answering /\ Progress /\ Rooted /\ AnswersTrue

(* The groups stay, and so do their names. *)
Named(l) ==
  /\ ul[l].pc \in {"name", "files", "crashed"} => ul[l].gid \in groups
  /\ ul[l].pc \in {"look", "name"} /\ ul[l].named => name[ul[l].gid] # Absent
  /\ ul[l].pc = "crashed" => MayDie(l)

(* The parent's steps outside of its handlers forget the request or leave  *)
(* everything that an answer tells of alone.                               *)
LEMMA TellingOther ==
  ASSUME DInv, Telling, [Next]_vars, ~Accounts, ~Groups
  PROVE  Telling'
<1> USE DEF Telling, Goto, files, accounts, locals
<1>u. ASSUME UNCHANGED <<files, pc, locals>> PROVE Telling'
  BY <1>u DEF Answering, Progress, Rooted, AnswersTrue, Granted, Listed
<1>f. ASSUME pc' \in {"off", "mkusers", "mkgroups", "idle", "begin"}, out' = NoResult,
             UNCHANGED <<groups, msgs, name>>, "GROUPS" \in tree => "GROUPS" \in tree'
      PROVE  Telling'
  BY <1>f DEF Answering, Progress, Rooted, AnswersTrue
<1>1. CASE Start
  BY <1>1, <1>f DEF Start, Forget
<1>2. CASE MakeUsers \/ MakeGroups
  BY <1>2, <1>f DEF MakeUsers, MakeGroups, MakeTop, Answering
<1>3. CASE Kill
  BY <1>3, <1>f DEF Kill, Forget
<1>4. CASE Receive
  BY <1>4, <1>f DEF Receive, Answering
<1>5. CASE Answer
  BY <1>5, <1>f DEF Answer, Forget
<1>6. ASSUME NEW l \in Listers, AcceptUlist(l) \/ SendRequest(l) \/ Ulist(l)
      PROVE  Telling'
  BY <1>6, <1>u, TypeUlist DEF DInv
<1>7. CASE UNCHANGED vars
  BY <1>7, <1>u DEF vars
<1> QED
  BY <1>1, <1>2, <1>3, <1>4, <1>5, <1>6, <1>7 DEF Next, Handler

(* The ends of a handler: a refusal, a segmentation fault, an answer that  *)
(* is so; and its going on.                                                *)
LEMMA Ends ==
  ASSUME DInv, Telling, Rooted'
  PROVE  /\ \A status \in Statuses \ {"OK", "NEW"} : Say(status) => Telling'
         /\ Segfault => Telling'
         /\ \A status : Say(status) /\ Granted' => Telling'
         /\ \A stage \in {"pass", "rmhome", "mkmsg"} :
              Step(stage) /\ pc \notin {"compare", "reply"} /\ out = NoResult => Telling'
<1>s. \A status : Say(status) => pc' = "reply" /\ out'.status = status
  BY DEF Say, Prepare, Goto
<1>1. ASSUME NEW status \in Statuses \ {"OK", "NEW"}, Say(status) PROVE Telling'
  BY <1>1, <1>s DEF Telling, Answering, Progress, AnswersTrue
<1>2. ASSUME Segfault PROVE Telling'
  BY <1>2 DEF Segfault, Step, Goto, Telling, Answering, Progress, AnswersTrue
<1>3. ASSUME NEW status, Say(status), Granted' PROVE Telling'
  BY <1>3, <1>s DEF Telling, Answering, Progress, AnswersTrue
<1>4. ASSUME NEW stage \in {"pass", "rmhome", "mkmsg"}, Step(stage), out = NoResult
      PROVE  Telling'
  BY <1>4 DEF Step, Goto, locals, Telling, Answering, Progress, AnswersTrue
<1> QED
  BY <1>1, <1>2, <1>3, <1>4

(* The parent has no answer yet where a handler begins, and where it goes  *)
(* on.                                                                     *)
LEMMA NoAnswerYet ==
  ASSUME Telling, pc \notin {"compare", "reply", "fault"}
  PROVE  out = NoResult
  BY DEF Telling, Answering

(* The handlers of REG, UNR, LOG and OUT answer what is so. *)
LEMMA TellingAccounts ==
  ASSUME DInv, Telling, Accounts
  PROVE  Telling'
<1>f. req \in Requests => (req.op \in AccountOps => req.uid \in Uids /\ req.pass \in Passes)
  BY Fields DEF AccountOps
<1>t. {"DUP", "NOK"} \subseteq Statuses \ {"OK", "NEW"}
  BY DEF Statuses
<1>r. Rooted'
  <2>1. UNCHANGED <<tree, groups, msgs, name>>
    BY DEF Accounts, AccountFrame, files, Register, CreatePass, WritePass, Refuse,
     Segfault, Login, Logout, Unregister, DeleteFile, CannotDelete, DeleteHome,
     LeaveGroup, Unregistered
  <2> QED
    BY <2>1 DEF Telling, Rooted
<1>q. \A status : Say(status) => UNCHANGED <<req, gid, todo>>
  BY DEF Say, Prepare
<1>1. CASE Register
  BY <1>1, <1>t, <1>r, Ends, NoAnswerYet DEF Register, Begin
<1>2. CASE CreatePass
  <2>1. CASE Say("NOK")
    BY <2>1, <1>t, <1>r, Ends
  <2>2. CASE pass' = [pass EXCEPT ![req.uid] = Empty] /\ Step("pass+")
    <3>1. pass'[req'.uid] = Empty /\ pc' = "pass+" /\ out' = NoResult
      BY <1>2, <2>2, <1>f, NoAnswerYet
      DEF CreatePass, Step, Goto, locals, DInv, TypeOK, Serves, AccountOps
    <3> QED
      BY <1>r, <3>1 DEF Telling, Answering, Progress, AnswersTrue
  <2> QED
    BY <1>2, <2>1, <2>2 DEF CreatePass
<1>3. CASE WritePass
  <2>1. req.op = "REG" /\ req.uid \in Uids /\ req.uid \in homes
    BY <1>3, <1>f DEF WritePass, DInv, Serves, Passing, AccountOps
  <2>2. req' = req /\ homes' = homes
    BY <1>3, <1>q DEF WritePass
  <2>3. pass'[req.uid] = req.pass \/ (pass'[req.uid] = Empty /\ May("flush"))
    BY <1>3, <2>1 DEF WritePass, Telling, Progress, DInv, TypeOK
  <2>4. Granted'
    BY <2>1, <2>2, <2>3 DEF Granted, May
  <2> QED
    BY <1>3, <1>r, <2>4, Ends DEF WritePass
<1>4. CASE Refuse
  BY <1>4, <1>t, <1>r, Ends DEF Refuse
<1>5. CASE Login \/ Logout
  <2>1. CASE Say("NOK")
    BY <2>1, <1>t, <1>r, Ends
  <2>2. CASE Login /\ login' = login \cup {req.uid} /\ Say("OK")
    <3>1. req' = req /\ req.op = "LOG"
      BY <2>2, <1>q DEF Login, Admitted, Begin
    <3>2. Granted'
      BY <2>2, <3>1 DEF Granted
    <3> QED
      BY <2>2, <1>r, <3>2, Ends
  <2>3. CASE Logout /\ login' = login \ {req.uid} /\ Say("OK")
    <3>1. req' = req /\ req.op = "OUT"
      BY <2>3, <1>q DEF Logout, Admitted, Begin
    <3>2. Granted'
      BY <2>3, <3>1 DEF Granted
    <3> QED
      BY <2>3, <1>r, <3>2, Ends
  <2> QED
    BY <1>5, <2>1, <2>2, <2>3 DEF Login, Logout
<1>7. CASE Unregister \/ DeleteFile \/ CannotDelete
  BY <1>7, <1>t, <1>r, Ends, NoAnswerYet
  DEF Unregister, Admitted, Begin, DeleteFile, CannotDelete
<1>8. CASE DeleteHome
  <2>1. /\ pc' = "rmsubs" /\ out' = NoResult /\ req' = req
        /\ req.uid \notin homes' /\ missed' = missed /\ UNCHANGED <<groups, members>>
        /\ todo' = groups \/ "list" \in missed
    BY <1>8, NoAnswerYet DEF DeleteHome, HomesWithout, GroupsToLeave, Listed, Goto, AccountFrame
  <2> QED
    BY <1>r, <2>1 DEF Telling, Answering, Progress, AnswersTrue
<1>9. CASE LeaveGroup
  <2>1. CASE Say("NOK")
    BY <2>1, <1>t, <1>r, Ends
  <2>2. ASSUME NEW g \in todo,
               members' = [members EXCEPT ![g] = @ \ {req.uid}],
               todo' = Tick(g), Goto("rmsubs"), UNCHANGED <<req, gid, out, missed, ul>>
        PROVE  Telling'
    <3>1. UNCHANGED <<groups, homes>>
      BY <1>9 DEF LeaveGroup, accounts
    <3>2. \/ \A h \in groups \ todo' : req.uid \notin members'[h]
          \/ "list" \in missed'
      BY <1>9, <2>2 DEF LeaveGroup, Telling, Progress, DInv, TypeOK, Tick
    <3>3. out' = NoResult
      BY <1>9, <2>2, NoAnswerYet DEF LeaveGroup
    <3> QED
      BY <1>9, <1>r, <2>2, <3>1, <3>2, <3>3
      DEF LeaveGroup, Goto, Telling, Answering, Progress, AnswersTrue
  <2> QED
    BY <1>9, <2>1, <2>2 DEF LeaveGroup
<1>10. CASE Unregistered
  <2>1. /\ req.op = "UNR" /\ req.uid \in Uids /\ req.uid \notin homes
        /\ \/ \A g \in groups : req.uid \notin members[g]
           \/ "list" \in missed
    BY <1>10, <1>f DEF Unregistered, Telling, Progress, DInv, Serves, AccountOps
  <2>2. pass[req.uid] = Absent /\ req.uid \notin login
    BY <2>1 DEF DInv, Housed
  <2>3. req' = req /\ UNCHANGED <<homes, login, pass, groups, members>>
    BY <1>10, <1>q DEF Unregistered, files, accounts
  <2>5. missed' = missed
    BY <1>10 DEF Unregistered, Say, Prepare
  <2>4. Granted'
    BY <2>1, <2>2, <2>3, <2>5 DEF Granted
  <2> QED
    BY <1>10, <1>r, <2>4, Ends DEF Unregistered
<1> QED
  BY <1>1, <1>2, <1>3, <1>4, <1>5, <1>7, <1>8, <1>9, <1>10 DEF Accounts

(* A new group is made up to its name one step at a time. *)
LEMMA RootedGroups ==
  ASSUME DInv, Telling, Groups
  PROVE  Rooted'
<1> USE DEF Rooted, Telling, DInv, TypeOK
<1>t. tree' = tree
  BY GroupsKeepAccounts
<1>1. CASE Subscribe
  BY <1>1, <1>t DEF Subscribe
<1>2. CASE MakeMsgDir
  BY <1>2, <1>t DEF MakeMsgDir, CannotCreate
<1>3. CASE CreateName \/ WriteName
  <2>1. gid \in msgs /\ msgs' = msgs /\ groups' = groups
    BY <1>3 DEF CreateName, WriteName, CannotCreate, Progress
  <2>2. \A g \in Gids : g # gid => name'[g] = name[g]
    BY <1>3 DEF CreateName, WriteName, CannotCreate
  <2> QED
    BY <1>t, <2>1, <2>2
<1>4. CASE CompareName \/ NameMissing \/ Unsubscribe \/ ListGroups \/ ListMine
  BY <1>4, <1>t DEF CompareName, NameMissing, Unsubscribe, ListGroups, ListMine,
     ShowGroups, Segfault, files
<1> QED
  BY <1>1, <1>2, <1>3, <1>4 DEF Groups

(* The handlers of GSR, GUR, GLS and GLM answer what is so. *)
LEMMA TellingGroups ==
  ASSUME DInv, Telling, Groups
  PROVE  Telling'
<1>f. req \in Requests =>
        /\ req.op \in {"GSR", "GUR"} => req.uid \in Uids /\ req.gid \in Gids
        /\ req.op = "GSR" => req.name \in GNames
        /\ req.op = "GLM" => req.uid \in Uids
  BY Fields
<1>t. {"NOK", "E_USR", "E_GRP", "E_GNAME", "E_FULL"} \subseteq Statuses \ {"OK", "NEW"}
  BY DEF Statuses
<1>r. Rooted'
  BY RootedGroups
<1>q. \A status : Say(status) => UNCHANGED <<req, gid, todo>>
  BY DEF Say, Prepare
<1>1. CASE Subscribe
  <2>1. out = NoResult /\ pc = "begin"
    BY <1>1, NoAnswerYet DEF Subscribe, Begin
  <2>2. CASE Say("E_USR") \/ Say("NOK")
    BY <2>2, <1>t, <1>r, Ends
  <2>3. CASE pc' = "compare" /\ (out' = out \/ out'.status = "E_FULL")
    BY <2>1, <2>3, <1>r DEF Telling, Answering, Progress, AnswersTrue
  <2>4. CASE pc' = "mkmsg" /\ out' = out
    BY <2>1, <2>4, <1>r DEF Telling, Answering, Progress, AnswersTrue
  <2> QED
    BY <1>1, <2>2, <2>3, <2>4 DEF Subscribe, Target, Goto
<1>2. CASE MakeMsgDir
  <2>1. CASE Say("NOK")
    BY <2>1, <1>t, <1>r, Ends
  <2>2. CASE msgs' = msgs \cup {gid} /\ Step("name")
    <3>1. pc' = "name" /\ out' = NoResult /\ gid' \in msgs'
      BY <1>2, <2>2, NoAnswerYet DEF MakeMsgDir, Step, Goto, locals
    <3> QED
      BY <3>1, <1>r DEF Telling, Answering, Progress, AnswersTrue
  <2> QED
    BY <1>2, <2>1, <2>2 DEF MakeMsgDir, CannotCreate
<1>3. CASE CreateName
  <2>1. CASE Say("NOK")
    BY <2>1, <1>t, <1>r, Ends
  <2>2. CASE name' = [name EXCEPT ![gid] = Empty] /\ Step("name+") /\ msgs' = msgs
    <3>1. pc' = "name+" /\ out' = NoResult /\ gid' = gid /\ name'[gid] = Empty
      BY <1>3, <2>2, NoAnswerYet DEF CreateName, Step, Goto, locals, DInv, TypeOK
    <3> QED
      BY <1>3, <2>2, <3>1, <1>r DEF CreateName, Telling, Answering, Progress, AnswersTrue
  <2> QED
    BY <1>3, <2>1, <2>2 DEF CreateName, CannotCreate
<1>4. CASE WriteName
  <2>1. pc' = "compare" /\ out'.status = "NEW" /\ UNCHANGED <<gid, req, msgs>>
    BY <1>4 DEF WriteName, Goto
  <2>2. gid \in msgs /\ name'[gid] \in {req.name, Empty}
    BY <1>4 DEF WriteName, Telling, Progress, DInv, TypeOK
  <2> QED
    BY <2>1, <2>2, <1>r DEF Telling, Answering, Progress, AnswersTrue
<1>5. CASE CompareName
  <2>1. CASE Say("NOK")
    BY <2>1, <1>t, <1>r, Ends
  <2>2. ASSUME NEW status \in Statuses, Settle(status),
               \/ status \in {"E_GRP", "E_GNAME"} /\ members' = members
               \/ /\ status = "OK" /\ name[gid] \in {Empty, req.name}
                  /\ members' = [members EXCEPT ![gid] = @ \cup {req.uid}],
               status = "E_GRP" => "GROUPS" \notin tree,
               status = "E_GNAME" => NameDiffers(gid, req.name),
               status # "E_GRP" => name[gid] # Absent
        PROVE  Telling'
    <3>1. /\ pc' = "reply" /\ UNCHANGED <<req, gid, groups, msgs, name>>
          /\ \/ out' = out /\ out # NoResult
             \/ out'.status = status /\ out = NoResult
      BY <1>5, <2>2 DEF CompareName, Settle, Goto
    <3>2. req.op = "GSR" /\ req.uid \in Uids /\ gid \in Gids
      BY <1>5, <1>f DEF CompareName, DInv, Serves, TypeOK
    <3>3. name[gid] # Absent => gid \in msgs /\ gid \in groups /\ "GROUPS" \in tree
      BY <3>2 DEF Telling, Rooted, DInv, TypeOK
    <3>4. CASE status = "OK" /\ out = NoResult
      <4>1. req.uid \in members'[gid]
        BY <2>2, <3>2, <3>4 DEF DInv, TypeOK
      <4>2. Granted'
        BY <2>2, <3>1, <3>2, <3>3, <3>4, <4>1 DEF Granted
      <4> QED
        BY <3>1, <4>2, <1>r DEF Telling, Answering, Progress, AnswersTrue
    <3>5. CASE out # NoResult /\ out.status = "NEW"
      <4>1. gid \in msgs /\ name[gid] \in {req.name, Empty} /\ gid \in groups
        BY <1>5, <3>5 DEF CompareName, Telling, Answering, DInv, TypeOK
      <4>2. "GROUPS" \in tree
        BY <4>1 DEF Telling, Rooted
      <4>3. req.uid \in members'[gid] \/ name[gid] = Empty
        BY <2>2, <3>2, <4>1, <4>2 DEF DInv, TypeOK, NameDiffers
      <4>4. Granted'
        BY <3>1, <3>2, <4>1, <4>3 DEF Granted
      <4> QED
        BY <3>1, <4>4, <1>r DEF Telling, Answering, Progress, AnswersTrue
    <3>6. CASE out'.status \notin {"OK", "NEW"}
      BY <3>1, <3>6, <1>r DEF Telling, Answering, Progress, AnswersTrue
    <3>7. out # NoResult => out.status \in {"NEW", "E_FULL"}
      BY <1>5 DEF CompareName, Telling, Answering
    <3> QED
      BY <2>2, <3>1, <3>4, <3>5, <3>6, <3>7
  <2>3. {"E_GRP", "E_GNAME", "OK"} \subseteq Statuses
    BY DEF Statuses
  <2>4. CASE "GROUPS" \notin tree /\ Settle("E_GRP") /\ UNCHANGED members
    BY <2>2, <2>3, <2>4
  <2>5. CASE /\ Legible(name[gid]) /\ NameDiffers(gid, req.name)
             /\ Settle("E_GNAME") /\ UNCHANGED members
    BY <2>2, <2>3, <2>5 DEF Legible
  <2>6. CASE /\ Legible(name[gid]) /\ NameMatches(gid, req.name)
             /\ members' = [members EXCEPT ![gid] = @ \cup {req.uid}] /\ Settle("OK")
    BY <2>2, <2>3, <2>6 DEF NameMatches, Legible
  <2> QED
    BY <1>5, <2>1, <2>4, <2>5, <2>6 DEF CompareName
<1>6. CASE NameMissing
  BY <1>6, <1>r, Ends DEF NameMissing
<1>7. CASE Unsubscribe
  <2>1. CASE Say("E_USR") \/ Say("E_GRP") \/ Say("NOK")
    BY <2>1, <1>t, <1>r, Ends
  <2>2. CASE members' = [members EXCEPT ![req.gid] = @ \ {req.uid}] /\ Say("OK")
    <3>1. req' = req /\ req.op = "GUR" /\ req.gid \in Gids
      BY <1>7, <2>2, <1>f, <1>q DEF Unsubscribe, Begin, DInv, Serves
    <3>2. Granted'
      BY <2>2, <3>1 DEF Granted, DInv, TypeOK
    <3> QED
      BY <2>2, <3>2, <1>r, Ends
  <2> QED
    BY <1>7, <2>1, <2>2 DEF Unsubscribe
<1>8. ASSUME NEW shown \in SUBSET groups, ShowGroups(shown),
             \/ req.op = "GLS" /\ shown = Listed
             \/ req.op = "GLM" /\ shown = Subscribed(req.uid)
      PROVE  Telling'
  <2>1. CASE Segfault
    BY <2>1, <1>r, Ends
  <2>2. CASE Prepare(Verb[req.op], "OK", shown)
    <3>1. /\ req' = req /\ pc' = "reply" /\ out'.list = shown
          /\ UNCHANGED <<groups, members, missed>>
      BY <1>8, <2>2 DEF Prepare, Goto, ShowGroups, files
    <3>2. Granted'
      BY <1>8, <3>1 DEF Granted, Subscribed, Listed
    <3> QED
      BY <3>1, <3>2, <1>r DEF Telling, Answering, Progress, AnswersTrue
  <2> QED
    BY <1>8, <2>1, <2>2 DEF ShowGroups
<1>9. CASE ListGroups
  BY <1>9, <1>8 DEF ListGroups, Begin, Listed
<1>10. CASE ListMine
  <2>1. CASE ShowGroups(Subscribed(req.uid))
    BY <1>10, <2>1, <1>8 DEF ListMine, Begin, Subscribed, Listed
  <2>2. CASE Prepare("RGS", "E_USR", {})
    BY <2>2, <1>r DEF Prepare, Goto, Telling, Answering, Progress, AnswersTrue
  <2> QED
    BY <1>10, <2>1, <2>2 DEF ListMine
<1> QED
  BY <1>1, <1>2, <1>3, <1>4, <1>5, <1>6, <1>7, <1>9, <1>10 DEF Groups

(* Whatever fails and whatever earlier requests left half-done, an answer  *)
(* OK or NEW is sent only when the files agree with it, up to lost writes  *)
(* and to an opendir of GROUPS that fails in the request (AnswersTrue).    *)
THEOREM AnswersAreTrue == Spec => []AnswersTrue
<1>1. Init => Telling
  BY DEF Init, Telling, Answering, Progress, Rooted, AnswersTrue
<1>2. DInv /\ Telling /\ [Next]_vars => Telling'
  BY TellingOther, TellingAccounts, TellingGroups
<1>3. Telling => AnswersTrue
  BY DEF Telling
<1> QED
  BY <1>1, <1>2, <1>3, Structure, PTL DEF Spec

(* Groups are never removed, and no name is. *)
LEMMA GroupsStay ==
  ASSUME DInv, [Next]_vars
  PROVE  /\ groups \subseteq groups'
         /\ \A g \in Gids : name[g] # Absent => name'[g] # Absent
<1> USE DirectoryAssumption DEF files, accounts
<1>1. CASE Accounts
  BY <1>1 DEF Accounts, AccountFrame, Register, CreatePass, WritePass, Refuse,
     Segfault, Login, Logout, Unregister, DeleteFile, CannotDelete, DeleteHome,
     LeaveGroup, Unregistered
<1>2. CASE Groups
  <2>1. CASE Subscribe
    BY <2>1 DEF Subscribe
  <2>2. CASE CreateName
    BY <2>2 DEF CreateName, CannotCreate, DInv, TypeOK
  <2>3. CASE WriteName
    BY <2>3, Fields DEF WriteName, DInv, TypeOK, Serves
  <2>4. CASE MakeMsgDir \/ CompareName \/ NameMissing \/ Unsubscribe \/ ListGroups \/ ListMine
    BY <2>4 DEF MakeMsgDir, CannotCreate, CompareName, NameMissing, Unsubscribe,
       ListGroups, ListMine, ShowGroups, Segfault
  <2> QED
    BY <1>2, <2>1, <2>2, <2>3, <2>4 DEF Groups
<1>3. CASE ~Accounts /\ ~Groups
  BY <1>3, OtherSteps DEF DInv
<1> QED
  BY <1>1, <1>2, <1>3

(* A handler of the parent does not touch the children. *)
LEMMA UlKept == ASSUME Accounts \/ Groups PROVE ul' = ul
<1> USE DEF Step, Say, Prepare, Segfault
<1>1. CASE Accounts
  BY <1>1 DEF Accounts, Register, CreatePass, WritePass, Refuse, Login, Logout,
     Unregister, DeleteFile, CannotDelete, DeleteHome, LeaveGroup, Unregistered
<1>2. CASE Groups
  BY <1>2 DEF Groups, Target, Settle, Subscribe, MakeMsgDir, CreateName, WriteName,
     CannotCreate, CompareName, NameMissing, Unsubscribe, ListGroups, ListMine, ShowGroups
<1> QED
  BY <1>1, <1>2

(* What a child knows of the group it was asked about stays so. *)
LEMMA NamedNext ==
  ASSUME DInv, [Next]_vars, NEW l \in Listers, Named(l)
  PROVE  Named(l)'
<1> USE DEF DInv, TypeOK
<1>g. ul[l] \in Lister /\ ul[l].gid \in Gids
  BY DEF Lister
<1>1. CASE AcceptUlist(l) \/ SendRequest(l)
  <2>1. ul'[l].pc = "read"
    BY <1>1, <1>g DEF AcceptUlist, SendRequest, Lister
  <2> QED
    BY <2>1 DEF Named
<1>5. CASE ReadRequest(l)
  <2>1. CASE ul' = [ul EXCEPT ![l].pc = "spin"]
    <3>1. ul'[l].pc = "spin"
      BY <2>1, <1>g DEF Lister
    <3> QED
      BY <3>1 DEF Named
  <2>2. ASSUME NEW g \in Gids, NEW opens,
               ul' = [ul EXCEPT ![l].pc = "look", ![l].gid = g, ![l].missed = opens,
                                ![l].named = (name[g] # Absent)]
        PROVE  Named(l)'
    <3>1. ul'[l] = [ul[l] EXCEPT !.pc = "look", !.gid = g, !.missed = opens,
                                 !.named = (name[g] # Absent)]
      BY <2>2
    <3>2. ul'[l].pc = "look" /\ ul'[l].gid = g /\ ul'[l].named = (name[g] # Absent)
      BY <3>1, <1>g DEF Lister
    <3>3. UNCHANGED <<name, groups>>
      BY <1>5 DEF ReadRequest, ListerFrame, files
    <3> QED
      BY <3>2, <3>3 DEF Named
  <2> QED
    BY <1>5, <2>1, <2>2 DEF ReadRequest
<1>2. CASE Look(l) \/ ReadName(l) \/ ReadEntry(l) \/ SendList(l)
  <2>1. /\ ul'[l].gid = ul[l].gid /\ ul'[l].named = ul[l].named
        /\ ul'[l].missed = ul[l].missed
        /\ \/ ul[l].pc = "look" /\ ul'[l].pc = "name" /\ ul[l].gid \in groups
           \/ /\ ul[l].pc = "name" /\ ul'[l].pc = "crashed"
              /\ name[ul[l].gid] = Absent \/ ul[l].missed # {}
           \/ ul[l].pc \in {"name", "files"} /\ ul'[l].pc = "files"
           \/ ul'[l].pc = "done"
    <3>1. CASE Look(l)
      BY <3>1, <1>g DEF Look, GroupExists, Lister
    <3>2. CASE ReadName(l)
      BY <3>2, <1>g DEF ReadName, NameUnread, Lister
    <3>3. CASE ReadEntry(l)
      <4>1. PICK u \in ul[l].todo :
              ul' = [ul EXCEPT ![l].todo = @ \ {u},
                               ![l].seen = @ \cup ({u} \cap members[ul[l].gid])]
        BY <3>3 DEF ReadEntry
      <4>2. ul'[l] = [ul[l] EXCEPT !.todo = @ \ {u},
                                   !.seen = @ \cup ({u} \cap members[ul[l].gid])]
        BY <4>1
      <4>3. /\ ul'[l].gid = ul[l].gid /\ ul'[l].named = ul[l].named
            /\ ul'[l].missed = ul[l].missed /\ ul'[l].pc = ul[l].pc
        BY <4>2, <1>g DEF Lister
      <4> QED
        BY <3>3, <4>3 DEF ReadEntry
    <3>4. CASE SendList(l)
      BY <3>4, <1>g DEF SendList, Lister
    <3> QED
      BY <1>2, <3>1, <3>2, <3>3, <3>4
  <2>2. UNCHANGED <<name, groups>>
    BY <1>2 DEF Look, ReadName, ReadEntry, SendList, ListerFrame, files
  <2> QED
    BY <2>1, <2>2 DEF Named, MayDie
<1>3. CASE /\ ul'[l].gid = ul[l].gid /\ ul'[l].named = ul[l].named
           /\ ul'[l].missed = ul[l].missed /\ ul'[l].pc \in {ul[l].pc, "killed"}
  BY <1>3, <1>g, GroupsStay DEF Named, MayDie
<1>4. ~AcceptUlist(l) /\ ~SendRequest(l) /\ ~Ulist(l) =>
        /\ ul'[l].gid = ul[l].gid /\ ul'[l].named = ul[l].named
        /\ ul'[l].missed = ul[l].missed /\ ul'[l].pc \in {ul[l].pc, "killed"}
  <2>1. CASE Kill
    BY <2>1, <1>g DEF Kill, Lister
  <2>2. CASE Start \/ MakeUsers \/ MakeGroups \/ Receive \/ Answer \/ UNCHANGED vars
    BY <2>2 DEF Start, MakeUsers, MakeGroups, MakeTop, Receive, Answer, vars
  <2>3. CASE Accounts \/ Groups
    <3>1. ul' = ul
      BY <2>3, UlKept
    <3> QED
      BY <3>1
  <2>4. ASSUME NEW k \in Listers \ {l}, AcceptUlist(k) \/ SendRequest(k) \/ Ulist(k)
        PROVE  ul'[l] = ul[l]
    BY <2>4 DEF AcceptUlist, SendRequest, Ulist, ReadRequest, Look, ReadName, ReadEntry, SendList
  <2> QED
    BY <2>1, <2>2, <2>3, <2>4 DEF Next, Handler
<1> QED
  BY <1>1, <1>2, <1>3, <1>4, <1>5 DEF Ulist

(* And so it does for all children. *)
AllNamed == \A l \in Listers : Named(l)

(* The child of a ULS request dies only when its group was found and had   *)
(* no name when the request was read, or when it fails to open what it     *)
(* reads (UlistCrashesOnlyUnnamed), whatever the parent does meanwhile.    *)
THEOREM UlistDiesUnnamed == Spec => []UlistCrashesOnlyUnnamed
<1>1. Init => AllNamed
  BY DEF Init, AllNamed, Named
<1>2. DInv /\ AllNamed /\ [Next]_vars => AllNamed'
  BY NamedNext DEF AllNamed
<1>3. AllNamed => UlistCrashesOnlyUnnamed
  BY DEF AllNamed, Named, UlistCrashesOnlyUnnamed
<1> QED
  BY <1>1, <1>2, <1>3, Structure, PTL DEF Spec
=============================================================================
