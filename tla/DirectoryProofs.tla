---------------------------- MODULE DirectoryProofs ----------------------------
(***************************************************************************)
(* The directory server implements the abstract directory, as long as no   *)
(* call fails and nobody kills it.                                         *)
(***************************************************************************)
EXTENDS DirectoryServerProofs, SequenceTheorems

(***************************************************************************)
(* The invariant, besides those of DirectoryServerProofs.                  *)
(***************************************************************************)

(* The three directories are made before the first request is taken. *)
Treed ==
  /\ pc \notin {"off"} \cup Starting => tree = Tree
  /\ pc = "off" => tree = {}
  /\ pc = "mkusers" => tree = {"SERVER"}
  /\ pc = "mkgroups" => tree = {"SERVER", "USERS"}

(* The group at hand: the last one, new and without members, or the one    *)
(* that the request names; or none, when there can be no more groups.      *)
Making ==
  /\ pc \in {"mkmsg", "name", "name+"} => req.gid = NewGroup /\ gid # NewGroup
  /\ pc \in {"mkmsg", "name", "name+", "compare"} /\ req.gid = NewGroup /\ gid # NewGroup =>
       groups = 1..gid /\ members[gid] = {}
  /\ pc = "compare" /\ req.gid = NewGroup /\ gid # NewGroup =>
       /\ out # NoResult /\ out.status = "NEW" /\ out.list = {gid}
       /\ name[gid] = IF req.name = Blank THEN Empty ELSE req.name
  /\ pc = "compare" /\ req.gid # NewGroup => gid = req.gid /\ out = NoResult

PInv == DInv /\ CInv /\ Telling /\ Treed /\ Making

(***************************************************************************)
(* The directory in the terms of the files.                                *)
(***************************************************************************)

(* What is there can be opened and listed. *)
LEMMA NothingMissed ==
  ASSUME PInv, Faults = {}
  PROVE  missed = {} /\ Listed = groups
  BY Missing DEF PInv, DInv, Listed

Row(g) == [name |-> IF name[g] = Empty THEN Blank ELSE name[g],
           members |-> members[g] \ Leaving]

(* What is counted of the groups is numbered 1..n, too. *)
LEMMA Counted ==
  DInv /\ Making => DirGroups = [g \in groups \ InMaking |-> Row(g)]
<1> SUFFICES ASSUME DInv, Making
             PROVE  DirGroups = [g \in groups \ InMaking |-> Row(g)]
  OBVIOUS
<1>1. PICK n \in Nat : groups = 1..n
  BY DEF DInv, Contiguous
<1>2. \E m \in Nat : groups \ InMaking = 1..m
  <2>1. CASE InMaking = {} \/ gid = NewGroup
    <3>1. groups \ InMaking = groups
      BY <2>1, <1>1 DEF InMaking, NewGroup
    <3> QED
      BY <1>1, <3>1
  <2>2. CASE InMaking # {} /\ gid # NewGroup
    <3>1. InMaking = {gid} /\ groups = 1..gid /\ gid \in Nat /\ gid # 0
      BY <2>2, ProtocolAssumption DEF InMaking, Making, DInv, TypeOK, Gids, NewGroup
    <3>2. groups \ InMaking = 1..(gid - 1) /\ gid - 1 \in Nat
      BY <3>1
    <3> QED
      BY <3>2
  <2> QED
    BY <2>1, <2>2
<1>3. groups \ InMaking = 1..Cardinality(groups \ InMaking)
  <2>1. PICK m \in Nat : groups \ InMaking = 1..m
    BY <1>2
  <2>2. Cardinality(1..m) = m
    BY FS_Interval
  <2> QED
    BY <2>1, <2>2
<1> QED
  BY <1>3 DEF DirGroups, Row

(* Both speak of the same requests. *)
LEMMA SameRequests == Promise!Requests = Requests /\ Promise!NewGroup = NewGroup
  BY DEF Promise!Requests, Requests, Promise!AccountOps, AccountOps, Promise!Gids, Gids,
         Promise!NewGroup, NewGroup

(* The steps of the abstract directory, in the terms of the server. *)
LEMMA DirTerms ==
  /\ UNCHANGED <<DirAccount, DirLogged, DirGroups, DirResult, Up>>
       => UNCHANGED Promise!directory
  /\ (Up /\ Up' /\ DirResult = NoResult /\ \E q \in Requests : Promise!Do(q)) => Promise!Take
  /\ (DirResult # NoResult /\ DirResult' = NoResult
        /\ UNCHANGED <<DirAccount, DirLogged, DirGroups, Up>>) => Promise!Answer
  /\ (Up /\ ~Up' /\ DirResult' = NoResult
        /\ UNCHANGED <<DirAccount, DirLogged, DirGroups>>) => Promise!Stop
  /\ (~Up /\ Up' /\ UNCHANGED <<DirAccount, DirLogged, DirGroups, DirResult>>) => Promise!Resume
<1>b. Up \in BOOLEAN /\ Up' \in BOOLEAN
  BY DEF Up
<1>1. UNCHANGED <<DirAccount, DirLogged, DirGroups, DirResult, Up>>
       => UNCHANGED Promise!directory
  BY DEF Promise!directory
<1>2. (Up /\ Up' /\ DirResult = NoResult /\ \E q \in Requests : Promise!Do(q)) => Promise!Take
  BY <1>b, SameRequests DEF Promise!Take
<1>3. (DirResult # NoResult /\ DirResult' = NoResult
        /\ UNCHANGED <<DirAccount, DirLogged, DirGroups, Up>>) => Promise!Answer
  BY DEF Promise!Answer
<1>4. (Up /\ ~Up' /\ DirResult' = NoResult
        /\ UNCHANGED <<DirAccount, DirLogged, DirGroups>>) => Promise!Stop
  BY <1>b DEF Promise!Stop
<1>5. (~Up /\ Up' /\ UNCHANGED <<DirAccount, DirLogged, DirGroups, DirResult>>) => Promise!Resume
  BY <1>b DEF Promise!Resume
<1> QED
  BY <1>1, <1>2, <1>3, <1>4, <1>5

(***************************************************************************)
(* The invariant.                                                          *)
(***************************************************************************)

(* Where the handlers of REG, UNR, LOG and OUT lead, and what they leave   *)
(* alone.                                                                  *)
LEMMA AccountStages ==
  ASSUME Accounts
  PROVE  /\ pc' \in {"pass", "pass+", "rmhome", "rmsubs", "reply", "fault"}
         /\ pc \in {"begin", "pass", "pass+", "rmhome", "rmsubs"}
         /\ UNCHANGED <<tree, groups, msgs, name>>
<1> USE DEF AccountFrame, Goto, Step, Say, Prepare, Begin, Admitted, Segfault, files
<1>1. CASE Register \/ CreatePass \/ WritePass \/ Refuse
  BY <1>1 DEF Register, CreatePass, WritePass, Refuse
<1>2. CASE Login \/ Logout \/ Unregister \/ DeleteFile \/ CannotDelete
  BY <1>2 DEF Login, Logout, Unregister, DeleteFile, CannotDelete
<1>3. CASE DeleteHome \/ LeaveGroup \/ Unregistered
  BY <1>3 DEF DeleteHome, LeaveGroup, Unregistered
<1> QED
  BY <1>1, <1>2, <1>3 DEF Accounts

(* Where the handlers of GSR, GUR, GLS and GLM start.                      *)
LEMMA GroupStages ==
  ASSUME Groups
  PROVE  pc \in {"begin", "mkmsg", "name", "name+", "compare"}
  BY DEF Groups, Begin, Subscribe, MakeMsgDir, CreateName, WriteName, CompareName,
     NameMissing, Unsubscribe, ListGroups, ListMine

(* The tree is made first, and stays. *)
LEMMA TreedNext ==
  ASSUME DInv, Treed, Faults = {}, [Next]_vars
  PROVE  Treed'
<1> USE DEF Treed, Starting, Goto
<1>1. CASE Accounts
  BY <1>1, AccountStages
<1>2. CASE Groups
  BY <1>2, GroupsKeepAccounts, GroupStages
<1>3. CASE Start
  BY <1>3 DEF Start, Down, Tree
<1>4. CASE MakeUsers \/ MakeGroups
  BY <1>4 DEF MakeUsers, MakeGroups, MakeTop, May, Tree
<1>5. CASE Kill
  BY <1>5 DEF Kill, May
<1>6. CASE Receive \/ Answer
  BY <1>6 DEF Receive, Answer, files
<1>7. ASSUME NEW l \in Listers, AcceptUlist(l) \/ SendRequest(l) \/ Ulist(l)
      PROVE  Treed'
  BY <1>7, TypeUlist DEF DInv, files
<1>8. CASE UNCHANGED vars
  BY <1>8 DEF vars, files
<1> QED
  BY <1>1, <1>2, <1>3, <1>4, <1>5, <1>6, <1>7, <1>8 DEF Next, Handler

(* A new group is the last, and nobody joins it before it is named. *)
LEMMA MakingNext ==
  ASSUME PInv, Faults = {}, [Next]_vars
  PROVE  Making'
<1> USE DEF PInv, DInv
<1>1. CASE Accounts
  BY <1>1, AccountStages DEF Making
<1>2. CASE Subscribe
  <2>1. out = NoResult /\ req \in Requests /\ req.op = "GSR"
    BY <1>2, NoAnswerYet DEF Subscribe, Begin, Serves
  <2>2. CASE Target(req.gid, "compare") /\ out' = out /\ req.gid # NewGroup
    BY <2>1, <2>2 DEF Making, Target, Goto
  <2>3. CASE Target(NewGroup, "compare") /\ req.gid = NewGroup
    BY <2>3 DEF Making, Target, Goto
  <2>4. CASE /\ req.gid = NewGroup /\ CanFound
             /\ groups' = groups \cup {NextGid} /\ Target(NextGid, "mkmsg")
    <3>1. PICK n \in Nat : groups = 1..n
      BY DEF Contiguous
    <3>2. NextGid = n + 1
      BY <3>1, Counting, NothingMissed
    <3>3. groups' = 1..NextGid /\ NextGid # NewGroup
      BY <2>4, <3>1, <3>2 DEF NewGroup
    <3>4. NextGid \in Gids \ groups
      BY <2>4, <3>1, <3>2, ProtocolAssumption DEF CanFound, Gids
    <3>5. members'[NextGid] = {}
      BY <1>2, <3>4 DEF Subscribe, CInv
    <3> QED
      BY <2>4, <3>3, <3>5 DEF Making, Target, Goto
  <2>5. CASE pc' = "reply"
    BY <2>5 DEF Making
  <2> QED
    BY <1>2, <2>2, <2>3, <2>4, <2>5 DEF Subscribe, Say, Prepare, Goto
<1>3. CASE MakeMsgDir \/ CreateName
  BY <1>3 DEF MakeMsgDir, CreateName, CannotCreate, May, Step, Goto, locals, Making
<1>4. CASE WriteName
  <2>1. name[gid] = Empty /\ gid \in Gids
    BY <1>4 DEF WriteName, Telling, Progress, TypeOK
  <2>2. name'[gid] = IF req.name = Blank THEN Empty ELSE req.name
    BY <1>4, <2>1 DEF WriteName, May, TypeOK
  <2>3. out' # NoResult /\ out'.status = "NEW" /\ out'.list = {gid}
    <3>1. [verb |-> "RGS", status |-> "NEW", list |-> {gid}] \in Answers
      BY <2>1, Verbs DEF Answers, Statuses
    <3> QED
      BY <1>4, <3>1, DirectoryAssumption DEF WriteName
  <2> QED
    BY <1>4, <2>2, <2>3 DEF WriteName, Goto, Making
<1>5. CASE CompareName \/ NameMissing \/ Unsubscribe \/ ListGroups \/ ListMine
  <2>1. pc' \in {"reply", "fault"}
    BY <1>5 DEF CompareName, Settle, NameMissing, Segfault, Step, Unsubscribe, ListGroups,
       ListMine, ShowGroups, Say, Prepare, Goto
  <2> QED
    BY <2>1 DEF Making
<1>6. CASE ~Accounts /\ ~Groups
  <2>1. UNCHANGED <<groups, name, members>>
    BY <1>6, OtherSteps
  <2>2. \/ pc' \notin {"mkmsg", "name", "name+", "compare"}
        \/ UNCHANGED <<pc, req, gid, out>>
    <3>1. CASE Start \/ MakeUsers \/ MakeGroups \/ Kill \/ Receive \/ Answer
      BY <3>1 DEF Start, MakeUsers, MakeGroups, MakeTop, Kill, Receive, Answer, Goto
    <3>2. ASSUME NEW l \in Listers, AcceptUlist(l) \/ SendRequest(l) \/ Ulist(l)
          PROVE  UNCHANGED <<pc, req, gid, out>>
      BY <3>2, TypeUlist DEF locals
    <3>3. CASE UNCHANGED vars
      BY <3>3 DEF vars, locals
    <3> QED
      BY <1>6, <3>1, <3>2, <3>3 DEF Next, Handler
  <2> QED
    BY <2>1, <2>2 DEF Making
<1> QED
  BY <1>1, <1>2, <1>3, <1>4, <1>5, <1>6 DEF Groups

(* Without failures, the invariant holds throughout. *)
LEMMA PInvAlways ==
  ASSUME Faults = {}
  PROVE  Spec => []PInv
<1>1. Init => PInv
  <2>1. Init => Telling
    BY DEF Init, Telling, Answering, Progress, Rooted, AnswersTrue
  <2>2. Init => Treed /\ Making
    BY DEF Init, Treed, Making, Starting
  <2> QED
    BY <2>1, <2>2, DInvInit, CInvInit DEF PInv
<1>2. PInv /\ [Next]_vars => PInv'
  <2> SUFFICES ASSUME PInv, [Next]_vars PROVE PInv'
    OBVIOUS
  <2>1. DInv'
    BY DInvNext DEF PInv
  <2>2. CInv'
    BY CInvOther, CInvAccounts, CInvGroups DEF PInv, DInv
  <2>3. Telling'
    BY TellingOther, TellingAccounts, TellingGroups DEF PInv
  <2>4. Treed' /\ Making'
    BY TreedNext, MakingNext DEF PInv
  <2> QED
    BY <2>1, <2>2, <2>3, <2>4 DEF PInv
<1> QED
  BY <1>1, <1>2, PTL DEF Spec

(***************************************************************************)
(* The steps.                                                              *)
(***************************************************************************)

(* What the abstract directory shows of the password of a user. *)
Shown(u) == IF pass[u] \in Passes THEN pass[u] ELSE NoAccount

(* Where nothing is half-done, the directory shows the files as they are.  *)
LEMMA Plain ==
  DInv /\ Making /\ pc \in {"begin", "pass+", "reply"} =>
    /\ Up /\ Leaving = {} /\ DirLogged = login
    /\ DirAccount = [u \in Uids |-> Shown(u)]
    /\ DirGroups = [g \in groups |-> Row(g)]
    /\ \A g \in groups : Row(g).members = members[g]
<1> SUFFICES ASSUME DInv, Making, pc \in {"begin", "pass+", "reply"}
             PROVE  /\ Up /\ Leaving = {} /\ DirLogged = login
                    /\ DirAccount = [u \in Uids |-> Shown(u)]
                    /\ DirGroups = [g \in groups |-> Row(g)]
                    /\ \A g \in groups : Row(g).members = members[g]
  OBVIOUS
<1>1. Leaving = {} /\ InMaking = {} /\ Up
  BY DEF Leaving, InMaking, Up, Down, Starting
<1>2. DirGroups = [g \in groups |-> Row(g)]
  BY <1>1, Counted
<1> QED
  BY <1>1, <1>2 DEF DirLogged, DirAccount, Shown, Row

(* The same after a step. *)
LEMMA PlainNext ==
  DInv' /\ Making' /\ pc' \in {"begin", "pass+", "reply"} =>
    /\ Up' /\ Leaving' = {} /\ DirLogged' = login'
    /\ DirAccount' = [u \in Uids |-> Shown(u)']
    /\ DirGroups' = [g \in groups' |-> Row(g)']
    /\ \A g \in groups' : Row(g)'.members = members'[g]
<1>1. (DInv /\ Making /\ pc \in {"begin", "pass+", "reply"} =>
         /\ Up /\ Leaving = {} /\ DirLogged = login
         /\ DirAccount = [u \in Uids |-> Shown(u)]
         /\ DirGroups = [g \in groups |-> Row(g)]
         /\ \A g \in groups : Row(g).members = members[g])'
  BY Plain, PTL
<1> QED
  BY <1>1

(* The groups as they are counted, after a step. *)
LEMMA CountedNext ==
  DInv' /\ Making' => DirGroups' = [g \in groups' \ InMaking' |-> Row(g)']
<1>1. (DInv /\ Making => DirGroups = [g \in groups \ InMaking |-> Row(g)])'
  BY Counted, PTL
<1> QED
  BY <1>1

(* An answer is the result of the request. *)
LEMMA Replies ==
  ASSUME NEW verb, NEW status, NEW list, Prepare(verb, status, list)
  PROVE  /\ Promise!Result(req, status, list) /\ req' = req /\ pc' = "reply"
         /\ UNCHANGED <<gid, todo>>
<1>1. /\ pc' = "reply" /\ UNCHANGED <<req, gid, todo>>
      /\ out' = [verb |-> verb, status |-> status, list |-> list]
  BY DEF Prepare, Goto
<1>2. Leaving' = {}
  BY <1>1 DEF Leaving
<1>3. DirResult' = [req |-> req', status |-> out'.status, list |-> out'.list]
  BY <1>1, <1>2 DEF DirResult
<1> QED
  BY <1>1, <1>3 DEF Promise!Result

(* The request at hand takes effect. *)
LEMMA Effect ==
  ASSUME pc \in {"begin", "pass+", "compare"}, pc' = "reply", req \in Requests,
         Promise!Do(req)
  PROVE  Promise!Next
<1>1. Up /\ Up' /\ Leaving = {}
  BY DEF Up, Leaving, Down, Starting
<1>2. DirResult = NoResult
  BY <1>1 DEF DirResult
<1> QED
  BY <1>1, <1>2, DirTerms DEF Promise!Next

(* A request is refused and changes nothing. *)
LEMMA Refusals ==
  ASSUME PInv, PInv', pc \in {"begin", "pass+"}, UNCHANGED files,
         NEW verb, NEW status, Prepare(verb, status, {})
  PROVE  Promise!Refuse(req, status)
<1>1. UNCHANGED <<DirAccount, DirLogged, DirGroups>>
  <2>1. pc' = "reply"
    BY Replies
  <2>2. \A u : Shown(u)' = Shown(u)
    BY DEF Shown, files
  <2>3. \A g : Row(g)' = Row(g)
    BY <2>1, Plain, PlainNext DEF PInv, Row, files
  <2> QED
    BY <2>1, <2>2, <2>3, Plain, PlainNext DEF PInv, files
<1> QED
  BY <1>1, Replies DEF Promise!Refuse

(* Whom the directory knows, and who is entitled to what. *)
LEMMA Knowledge ==
  ASSUME PInv, pc \in {"begin", "pass+"}, NEW u \in Uids
  PROVE  /\ Promise!Knows(u) <=> pass[u] \in Passes
         /\ pc = "begin" => (u \in homes <=> pass[u] \in Passes)
         /\ \A p \in Passes : DirAccount[u] = p <=> pass[u] = p
<1>1. DirAccount[u] = Shown(u)
  BY Plain DEF PInv
<1>2. NoAccount \notin Passes /\ Absent \notin Passes
  BY DirectoryAssumption
<1>3. pc = "begin" => (u \in homes <=> pass[u] \in Passes)
  BY <1>2 DEF PInv, DInv, Housed, CInv, Registering
<1> QED
  BY <1>1, <1>2, <1>3 DEF Shown, Promise!Knows

(* The groups are counted, and their rows read, as before. *)
LEMMA SameRows ==
  ASSUME PInv, PInv', groups' \ InMaking' = groups \ InMaking,
         \A g \in groups \ InMaking : Row(g)' = Row(g)
  PROVE  DirGroups' = DirGroups
  BY Counted, CountedNext DEF PInv

(* What a step of REG, UNR, LOG or OUT that does not answer shows: the     *)
(* admission of an unregister(), which is its effect, or nothing.          *)
LEMMA AccountsUnseen ==
  ASSUME PInv, PInv', Faults = {}, \/ Register /\ pc' = "pass"
                                   \/ CreatePass \/ DeleteFile \/ DeleteHome
                                   \/ LeaveGroup \/ Unregistered
  PROVE  UNCHANGED Promise!directory
<1>a. Accounts
  BY DEF Accounts
<1>1. /\ pc \in {"begin", "pass", "rmhome", "rmsubs"}
      /\ pc' \in {"pass", "pass+", "rmhome", "rmsubs", "reply"}
      /\ pc \in {"rmhome", "rmsubs"} <=> pc' \in {"rmhome", "rmsubs", "reply"}
      /\ req' = req /\ UNCHANGED <<groups, name>>
  <2> USE DEF Step, Goto, Say, Prepare, locals
  <2>1. CASE Register /\ pc' = "pass"
    BY <2>1, AccountStages, <1>a DEF Register, Begin
  <2>2. CASE CreatePass
    BY <2>2, AccountStages, <1>a DEF CreatePass, May
  <2>3. CASE DeleteFile \/ DeleteHome \/ Unregistered
    BY <2>3, AccountStages, <1>a DEF DeleteFile, DeleteHome, Unregistered
  <2>4. CASE LeaveGroup
    BY <2>4, AccountStages, <1>a DEF LeaveGroup, May
  <2> QED
    BY <2>1, <2>2, <2>3, <2>4
<1>u. req \in Requests /\ req.uid \in Uids
  BY <1>1, <1>a, Fields DEF PInv, DInv, Serves, Accounts, Register, Begin, AccountOps,
     CreatePass, DeleteFile, DeleteHome, LeaveGroup, Unregistered
<1>2. Up' = Up
  BY <1>1 DEF Up, Down, Starting
<1>3. InMaking = {} /\ InMaking' = {}
  BY <1>1 DEF InMaking
<1>4. Leaving = (IF pc \in {"rmhome", "rmsubs"} THEN {req.uid} ELSE {})
      /\ Leaving' = (IF pc' \in {"rmhome", "rmsubs"} THEN {req.uid} ELSE {})
  BY <1>1 DEF Leaving
<1>5. CASE pc \in {"begin", "pass"}
  <2>1. Leaving = {} /\ Leaving' = {} /\ pc' \in {"pass", "pass+"}
    BY <1>1, <1>4, <1>5
  <2>2. DirResult = NoResult /\ DirResult' = NoResult
    BY <2>1, <1>5 DEF DirResult
  <2>3. UNCHANGED <<login, members>> /\ \A u \in Uids : Shown(u)' = Shown(u)
    <3>1. CASE Register
      BY <3>1 DEF Register, Shown, AccountFrame
    <3>2. CASE CreatePass
      BY <3>2, <1>5, <2>1, DirectoryAssumption, <1>u
      DEF CreatePass, Shown, AccountFrame, PInv, DInv, Passing, TypeOK, Say, Prepare, Goto
    <3> QED
      BY <3>1, <3>2, <1>5 DEF DeleteFile, DeleteHome, LeaveGroup, Unregistered
  <2>4. DirAccount' = DirAccount /\ DirLogged' = DirLogged
    BY <2>1, <2>3 DEF DirAccount, DirLogged, Shown
  <2>5. DirGroups' = DirGroups
    BY <1>1, <1>3, <2>1, <2>3, SameRows DEF Row
  <2> QED
    BY <1>2, <2>2, <2>4, <2>5, DirTerms
<1>6. CASE pc \in {"rmhome", "rmsubs"}
  <2>1. Leaving = {req.uid} /\ pc' \in {"rmhome", "rmsubs", "reply"}
    BY <1>1, <1>4, <1>6
  <2>2. pc' = "reply" =>
          /\ Unregistered /\ pass[req.uid] = Absent /\ req.uid \notin login
          /\ \A g \in groups : req.uid \notin members[g]
    <3>1. pc' = "reply" => Unregistered
      BY <1>6 DEF Register, Begin, CreatePass, DeleteFile, DeleteHome, LeaveGroup, Step,
         Goto, Say, Prepare, May
    <3>2. Unregistered => req.uid \notin homes /\ \A g \in groups : req.uid \notin members[g]
      BY NothingMissed DEF Unregistered, PInv, Telling, Progress
    <3> QED
      BY <3>1, <3>2, <1>u DEF PInv, DInv, Housed
  <2>3. /\ \A u \in Uids \ {req.uid} : pass'[u] = pass[u]
        /\ login' \ {req.uid} = login \ {req.uid}
        /\ \A g \in groups : members'[g] \ {req.uid} = members[g] \ {req.uid}
        /\ pc' = "reply" => UNCHANGED <<pass, login, members>>
    <3> USE <1>6, <1>u DEF PInv, DInv, TypeOK
    <3>1. CASE DeleteFile
      BY <3>1 DEF DeleteFile, AccountFrame, Step, Goto
    <3>2. CASE DeleteHome \/ Unregistered
      BY <3>2 DEF DeleteHome, Unregistered, AccountFrame, Goto, files, accounts
    <3>3. CASE LeaveGroup
      BY <3>3 DEF LeaveGroup, accounts, Goto, May
    <3> QED
      BY <3>1, <3>2, <3>3 DEF Register, Begin, CreatePass
  <2>4. DirAccount' = DirAccount
    <3>1. \A u \in Uids : (pass'[u] \in Passes /\ u \notin Leaving')
                              <=> (pass[u] \in Passes /\ u \notin Leaving)
      BY <1>4, <2>1, <2>2, <2>3, DirectoryAssumption
    <3>2. \A u \in Uids : u \notin Leaving => pass'[u] = pass[u]
      BY <2>1, <2>3
    <3> QED
      BY <3>1, <3>2 DEF DirAccount
  <2>5. DirLogged' = DirLogged
    BY <1>4, <2>1, <2>2, <2>3 DEF DirLogged
  <2>6. DirGroups' = DirGroups
    <3>1. \A g \in groups : members'[g] \ Leaving' = members[g] \ Leaving
      BY <1>4, <2>1, <2>2, <2>3
    <3> QED
      BY <1>1, <1>3, <3>1, SameRows DEF Row
  <2>7. DirResult' = DirResult
    <3>1. DirResult = [req |-> req, status |-> "OK", list |-> {}]
      BY <1>6, <2>1 DEF DirResult
    <3>2. CASE pc' = "reply"
      <4>1. Promise!Result(req, "OK", {})
        BY <2>2, <3>2, Replies DEF Unregistered, Say
      <4> QED
        BY <3>1, <4>1 DEF Promise!Result
    <3>3. CASE pc' # "reply"
      BY <1>1, <1>4, <2>1, <3>1, <3>3 DEF DirResult
    <3> QED
      BY <3>2, <3>3
  <2> QED
    BY <1>2, <2>4, <2>5, <2>6, <2>7, DirTerms
<1> QED
  BY <1>1, <1>5, <1>6

(* REG, LOG and OUT take effect with their answers, and so do refusals.    *)
LEMMA AccountsTake ==
  ASSUME PInv, PInv', Faults = {}, \/ Register /\ pc' # "pass"
                                   \/ WritePass \/ Refuse \/ Login \/ Logout
  PROVE  Promise!Next
<1>u. req \in Requests /\ req.op \in AccountOps /\ req.uid \in Uids /\ req.pass \in Passes
  BY Fields DEF PInv, DInv, Serves, Register, WritePass, Refuse, Login, Logout,
     Admitted, Begin, AccountOps
<1>r. \A status : Say(status) => pc' = "reply" /\ Promise!Result(req, status, {})
  BY Replies DEF Say
<1>g. UNCHANGED <<groups, name, members>>
  BY DEF Register, WritePass, Refuse, Login, Logout, AccountFrame, Segfault, files
<1>v. ASSUME pc \in {"begin", "pass+"}, pc' = "reply"
      PROVE  /\ DirGroups' = DirGroups /\ DirLogged = login /\ DirLogged' = login'
             /\ DirAccount = [u \in Uids |-> Shown(u)]
             /\ DirAccount' = [u \in Uids |-> Shown(u)']
  <2>1. Leaving = {} /\ Leaving' = {}
    BY <1>v, Plain, PlainNext DEF PInv
  <2>2. \A g : Row(g)' = Row(g)
    BY <1>g, <2>1 DEF Row
  <2>3. DirGroups' = DirGroups
    BY <1>v, <1>g, <2>2, Plain, PlainNext DEF PInv
  <2> QED
    BY <1>v, <2>3, Plain, PlainNext DEF PInv
<1>1. CASE Register /\ pc' # "pass"
  <2>1. KnownUser(req.uid) /\ Say("DUP") /\ UNCHANGED files
    BY <1>1 DEF Register, KnownUser, May, Step, Goto, PInv, Treed, Tree, Begin, Starting,
       AccountFrame, files, accounts
  <2>2. pc = "begin" /\ req.op = "REG"
    BY <1>1 DEF Register, Begin
  <2>3. Promise!Knows(req.uid) /\ Promise!Refuse(req, "DUP")
    BY <1>u, <2>1, <2>2, Knowledge, Refusals DEF KnownUser, Say
  <2>4. Promise!Do(req)
    BY <2>2, <2>3 DEF Promise!Do, Promise!Register
  <2> QED
    BY <1>u, <1>r, <2>1, <2>2, <2>4, Effect
<1>2. CASE WritePass
  <2>1. /\ pc = "pass+" /\ req.op = "REG" /\ Say("OK") /\ UNCHANGED <<homes, login>>
        /\ pass' = [pass EXCEPT ![req.uid] = req.pass]
    BY <1>2 DEF WritePass, May, PInv, DInv, Serves
  <2>2. ~Promise!Knows(req.uid)
    BY <1>u, <2>1, Knowledge DEF PInv, DInv, Passing
  <2>3. DirAccount' = [DirAccount EXCEPT ![req.uid] = req.pass]
    <3>1. \A u \in Uids : Shown(u)' = IF u = req.uid THEN req.pass ELSE Shown(u)
      BY <1>u, <2>1 DEF Shown, PInv, DInv, TypeOK
    <3> QED
      BY <1>u, <1>r, <1>v, <2>1, <3>1
  <2>4. DirLogged' = DirLogged /\ DirGroups' = DirGroups
    BY <1>r, <1>v, <2>1
  <2>5. Promise!Do(req)
    BY <1>r, <2>1, <2>2, <2>3, <2>4 DEF Promise!Do, Promise!Register, Promise!Accept
  <2> QED
    BY <1>u, <1>r, <2>1, <2>5, Effect
<1>3. CASE Refuse
  <2>1. pc = "begin" /\ req.op \in {"UNR", "LOG", "OUT"}
    BY <1>3 DEF Refuse
  <2>2. Wrong(req.uid, req.pass) /\ Say("NOK") /\ UNCHANGED files
    BY <1>3, <1>u, <2>1, Knowledge, NothingMissed, DirectoryAssumption
    DEF Refuse, Unreadable, Legible
  <2>3. ~Promise!Entitled(req)
    BY <1>u, <2>1, <2>2, Knowledge, DirectoryAssumption DEF Wrong, Legible, Promise!Entitled
  <2>4. Promise!Refuse(req, "NOK")
    BY <2>1, <2>2, Refusals DEF Say
  <2>5. Promise!Do(req)
    BY <2>1, <2>3, <2>4 DEF Promise!Do
  <2> QED
    BY <1>u, <1>r, <2>1, <2>2, <2>5, Effect
<1>4. ASSUME NEW op, Admitted(op) PROVE Promise!Entitled(req)
  BY <1>4, <1>u, Knowledge, DirectoryAssumption
  DEF Admitted, Begin, Right, Legible, Promise!Entitled
<1>5. CASE Login \/ Logout
  <2>1. /\ pc = "begin" /\ Say("OK") /\ UNCHANGED <<homes, pass>>
        /\ \/ req.op = "LOG" /\ login' = login \cup {req.uid}
           \/ req.op = "OUT" /\ login' = login \ {req.uid}
    BY <1>5 DEF Login, Logout, Admitted, Begin, May
  <2>2. Promise!Entitled(req)
    BY <1>5, <1>4 DEF Login, Logout
  <2>3. DirAccount' = DirAccount /\ DirGroups' = DirGroups
    BY <1>r, <1>v, <2>1 DEF Shown
  <2>4. \/ req.op = "LOG" /\ DirLogged' = DirLogged \cup {req.uid}
        \/ req.op = "OUT" /\ DirLogged' = DirLogged \ {req.uid}
    BY <1>r, <1>v, <2>1
  <2>5. Promise!Do(req)
    BY <1>r, <2>1, <2>2, <2>3, <2>4
    DEF Promise!Do, Promise!Login, Promise!Logout, Promise!Accept
  <2> QED
    BY <1>u, <1>r, <2>1, <2>5, Effect
<1> QED
  BY <1>1, <1>2, <1>3, <1>5

(* UNR takes effect when it is admitted. *)
LEMMA UnregisterTakes ==
  ASSUME PInv, PInv', Faults = {}, Unregister
  PROVE  Promise!Next
<1>1. /\ pc = "begin" /\ pc' = "rmhome" /\ req.op = "UNR"
      /\ req' = req /\ UNCHANGED files /\ Right(req.uid, req.pass)
  BY NothingMissed DEF Unregister, Admitted, Begin, Step, Goto, locals
<1>u. req \in Requests /\ req.uid \in Uids /\ req.pass \in Passes
  BY <1>1, Fields DEF PInv, DInv, Serves, AccountOps
<1>2. Promise!Entitled(req)
  BY <1>1, <1>u, Knowledge, DirectoryAssumption DEF Right, Legible, Promise!Entitled
<1>3. /\ Leaving = {} /\ Leaving' = {req.uid} /\ InMaking = {} /\ InMaking' = {}
      /\ Up /\ Up'
  BY <1>1 DEF Leaving, InMaking, Up, Down, Starting
<1>4. DirResult = NoResult /\ Promise!Accept(req)
  BY <1>1, <1>3 DEF DirResult, Promise!Accept, Promise!Result
<1>5. DirAccount' = [DirAccount EXCEPT ![req.uid] = NoAccount]
  BY <1>1, <1>3, <1>u DEF DirAccount, files, accounts
<1>6. DirLogged' = DirLogged \ {req.uid}
  BY <1>1, <1>3 DEF DirLogged, files, accounts
<1>7. DirGroups' = [g \in DOMAIN DirGroups |->
                      [DirGroups[g] EXCEPT !.members = @ \ {req.uid}]]
  <2>1. DirGroups = [g \in groups |-> Row(g)] /\ DirGroups' = [g \in groups |-> Row(g)']
    BY <1>1, <1>3, Counted, CountedNext DEF PInv, files
  <2>2. \A g \in groups : Row(g)' = [Row(g) EXCEPT !.members = @ \ {req.uid}]
    BY <1>1, <1>3 DEF Row, files
  <2> QED
    BY <2>1, <2>2
<1>8. Promise!Do(req)
  BY <1>1, <1>2, <1>4, <1>5, <1>6, <1>7 DEF Promise!Do, Promise!Unregister
<1> QED
  BY <1>u, <1>3, <1>4, <1>8, DirTerms DEF Promise!Next

(* What a handler of a request about groups finds in the directory.        *)
LEMMA GroupsSeen ==
  ASSUME PInv, PInv', Groups
  PROVE  /\ UNCHANGED <<DirAccount, DirLogged>>
         /\ Leaving = {} /\ Leaving' = {} /\ DirResult = NoResult /\ Up
         /\ pc' # "reply" => DirResult' = NoResult
         /\ pc' \notin {"reply", "fault"} => Up'
<1>1. /\ UNCHANGED <<pass, login>>
      /\ pc \in {"begin", "mkmsg", "name", "name+", "compare"}
      /\ pc' \in {"mkmsg", "name", "name+", "compare", "reply", "fault"}
  BY GroupsKeepAccounts, GroupStages
<1>2. Leaving = {} /\ Leaving' = {} /\ Up /\ (pc' \notin {"reply", "fault"} => Up')
  BY <1>1 DEF Leaving, Up, Down, Starting
<1>3. DirResult = NoResult /\ (pc' # "reply" => DirResult' = NoResult)
  BY <1>1, <1>2 DEF DirResult
<1> QED
  BY <1>1, <1>2, <1>3 DEF DirAccount, DirLogged

(* A new group does not show before its subscription ends. *)
LEMMA GroupsUnseen ==
  ASSUME PInv, PInv', Faults = {}, \/ Subscribe /\ pc' # "reply"
                                   \/ MakeMsgDir \/ CreateName \/ WriteName
  PROVE  UNCHANGED Promise!directory
<1>a. Groups
  BY DEF Groups
<1>1. pc' \in {"mkmsg", "name", "name+", "compare"} /\ members' = members
  <2> USE DEF Step, Target, Goto
  <2>1. CASE Subscribe /\ pc' # "reply"
    BY <2>1 DEF Subscribe, Say, Prepare
  <2>2. CASE MakeMsgDir \/ CreateName \/ WriteName
    BY <2>2 DEF MakeMsgDir, CreateName, WriteName, CannotCreate, May
  <2> QED
    BY <2>1, <2>2
<1>2. groups' \ InMaking' = groups \ InMaking
  <2>1. CASE Subscribe /\ pc' # "reply"
    <3>1. InMaking = {}
      BY <2>1 DEF Subscribe, Begin, InMaking
    <3>2. CASE Target(req.gid, "compare") /\ req.gid # NewGroup /\ groups' = groups
      BY <3>1, <3>2 DEF Target, Goto, InMaking
    <3>3. CASE Target(NewGroup, "compare") /\ req.gid = NewGroup /\ groups' = groups
      BY <3>1, <3>3 DEF Target, Goto, InMaking, PInv, DInv, TypeOK
    <3>4. CASE /\ req.gid = NewGroup /\ NextGid \notin groups
               /\ groups' = groups \cup {NextGid} /\ Target(NextGid, "mkmsg")
      BY <3>1, <3>4 DEF Target, Goto, InMaking
    <3>5. ~Say("E_USR") /\ ~Say("NOK")
      BY <2>1 DEF Say, Prepare, Goto
    <3> QED
      BY <2>1, <3>2, <3>3, <3>4, <3>5 DEF Subscribe
  <2>2. CASE MakeMsgDir \/ CreateName \/ WriteName
    BY <2>2 DEF MakeMsgDir, CreateName, WriteName, CannotCreate, May, Step, Goto, locals,
       InMaking
  <2> QED
    BY <2>1, <2>2
<1>3. \A g \in groups \ InMaking : name'[g] = name[g]
  <2>1. CASE Subscribe \/ MakeMsgDir
    BY <2>1 DEF Subscribe, MakeMsgDir, CannotCreate, May
  <2>2. CASE CreateName \/ WriteName
    <3>1. InMaking = {gid}
      BY <2>2 DEF CreateName, WriteName, InMaking, PInv, Making
    <3> QED
      BY <2>2, <3>1 DEF CreateName, WriteName, CannotCreate, May, PInv, DInv, TypeOK
  <2> QED
    BY <2>1, <2>2
<1>4. DirGroups' = DirGroups
  <2>1. \A g \in groups \ InMaking : Row(g)' = Row(g)
    BY <1>a, <1>1, <1>3, GroupsSeen DEF Row
  <2> QED
    BY <1>2, <2>1, SameRows
<1>5. Up' = Up
  BY <1>a, <1>1, GroupsSeen DEF Up
<1> QED
  BY <1>a, <1>1, <1>4, <1>5, GroupsSeen, DirTerms

(* A segmentation fault stops the directory, and shows nothing else. *)
LEMMA FaultStops ==
  ASSUME PInv, PInv', Faults = {}, Segfault, Groups, pc = "begin" \/ NameMissing
  PROVE  Promise!Next
<1>1. /\ pc' = "fault" /\ UNCHANGED files /\ InMaking' = {} /\ ~Up'
  BY DEF Segfault, Step, Goto, InMaking, Up, Down
<1>2. groups \ InMaking = groups
  <2>1. CASE pc = "begin"
    BY <2>1 DEF InMaking
  <2>2. CASE NameMissing
    BY <2>2, NothingMissed DEF NameMissing, Legible, InMaking, PInv, CInv, Creating
  <2> QED
    BY <2>1, <2>2
<1>3. DirGroups' = DirGroups
  BY <1>1, <1>2, GroupsSeen, SameRows DEF Row, files
<1> QED
  BY <1>1, <1>3, GroupsSeen, DirTerms DEF Promise!Next

(* GSR from someone that has no account is refused. *)
LEMMA SubscribeRefused ==
  ASSUME PInv, PInv', Faults = {}, Subscribe, pc' = "reply"
  PROVE  Promise!Next
<1>1. pc = "begin" /\ req.op = "GSR" /\ req \in Requests /\ req.uid \in Uids
  BY Fields DEF Subscribe, Begin, PInv, DInv, Serves
<1>2. ~KnownUser(req.uid) /\ Say("E_USR") /\ UNCHANGED files
  <2>1. NextGid \notin groups
    BY Counting, NothingMissed DEF PInv, DInv, Contiguous
  <2>2. "GROUPS" \in tree
    BY <1>1 DEF PInv, Treed, Tree, Starting
  <2> QED
    BY <2>1, <2>2 DEF Subscribe, Target, Goto, May, GroupFrame, files, accounts
<1>3. ~Promise!Knows(req.uid)
  BY <1>1, <1>2, Knowledge DEF KnownUser
<1>4. Promise!Refuse(req, "E_USR")
  BY <1>1, <1>2, Refusals DEF Say
<1>5. Promise!Do(req)
  BY <1>1, <1>3, <1>4 DEF Promise!Do, Promise!Subscribe
<1> QED
  BY <1>1, <1>5, Effect

(* GUR takes effect with its answer. *)
LEMMA UnsubscribeTakes ==
  ASSUME PInv, PInv', Faults = {}, Unsubscribe
  PROVE  Promise!Next
<1>a. Groups
  BY DEF Groups
<1>1. /\ pc = "begin" /\ req.op = "GUR" /\ req \in Requests
      /\ req.uid \in Uids /\ req.gid \in Gids
  BY Fields DEF Unsubscribe, Begin, PInv, DInv, Serves
<1>r. \A status : Say(status) => pc' = "reply" /\ Promise!Result(req, status, {})
  BY Replies DEF Say
<1>g. DOMAIN DirGroups = groups
  BY <1>1, Plain DEF PInv
<1>f. \A status : Say(status) /\ members' = members => Promise!Refuse(req, status)
  <2>1. members' = members => UNCHANGED files
    BY DEF Unsubscribe, GroupFrame, files, accounts
  <2> QED
    BY <1>1, <2>1, Refusals DEF Say
<1>2. CASE ~KnownUser(req.uid) /\ Say("E_USR") /\ UNCHANGED members
  <2>1. ~Promise!Knows(req.uid) /\ Promise!Refuse(req, "E_USR")
    BY <1>1, <1>2, <1>f, Knowledge DEF KnownUser
  <2>2. Promise!Do(req)
    BY <1>1, <2>1 DEF Promise!Do, Promise!Unsubscribe
  <2> QED
    BY <1>1, <1>2, <1>r, <2>2, Effect
<1>3. CASE KnownUser(req.uid) /\ req.gid \notin groups /\ Say("E_GRP") /\ UNCHANGED members
  <2>1. Promise!Knows(req.uid) /\ Promise!Refuse(req, "E_GRP")
    BY <1>1, <1>3, <1>f, Knowledge DEF KnownUser
  <2>2. Promise!Do(req)
    BY <1>1, <1>3, <1>g, <2>1 DEF Promise!Do, Promise!Unsubscribe
  <2> QED
    BY <1>1, <1>3, <1>r, <2>2, Effect
<1>4. CASE /\ KnownUser(req.uid) /\ req.gid \in groups
           /\ members' = [members EXCEPT ![req.gid] = @ \ {req.uid}] /\ Say("OK")
  <2>1. Promise!Knows(req.uid) /\ Promise!Accept(req)
    BY <1>1, <1>4, <1>r, Knowledge DEF KnownUser, Promise!Accept
  <2>2. UNCHANGED <<groups, name>>
    BY DEF Unsubscribe
  <2>3. \A g \in groups : Row(g)' = IF g = req.gid
                                    THEN [Row(g) EXCEPT !.members = @ \ {req.uid}]
                                    ELSE Row(g)
    BY <1>1, <1>4, <1>a, <2>2, GroupsSeen DEF Row, PInv, DInv, TypeOK
  <2>4. DirGroups = [g \in groups |-> Row(g)] /\ DirGroups' = [g \in groups |-> Row(g)']
    BY <1>1, <1>4, <1>r, <2>2, Plain, PlainNext DEF PInv
  <2>5. DirGroups' = [DirGroups EXCEPT ![req.gid].members = @ \ {req.uid}]
    BY <1>4, <2>3, <2>4
  <2>6. Promise!Do(req)
    BY <1>1, <1>4, <1>g, <1>a, <2>1, <2>5, GroupsSeen DEF Promise!Do, Promise!Unsubscribe
  <2> QED
    BY <1>1, <1>4, <1>r, <2>6, Effect
<1> QED
  BY <1>2, <1>3, <1>4 DEF Unsubscribe, May

(* GLS and GLM take effect with their answers. *)
LEMMA ListsTake ==
  ASSUME PInv, PInv', Faults = {}, ListGroups \/ ListMine, ~Segfault
  PROVE  Promise!Next
<1>a. Groups
  BY DEF Groups
<1>1. /\ pc = "begin" /\ req.op \in {"GLS", "GLM"} /\ req \in Requests
      /\ req.op = "GLM" => req.uid \in Uids
  BY Fields DEF ListGroups, ListMine, Begin, PInv, DInv, Serves
<1>2. DirGroups = [g \in groups |-> Row(g)] /\ DirLogged = login
      /\ \A g \in groups : Row(g).members = members[g]
  BY <1>1, Plain DEF PInv
<1>f. UNCHANGED files
  BY DEF ListGroups, ListMine, ShowGroups
<1>s. ASSUME pc' = "reply" PROVE UNCHANGED <<DirAccount, DirLogged, DirGroups>>
  <2>1. \A g : Row(g)' = Row(g)
    BY <1>a, <1>f, GroupsSeen DEF Row, files
  <2> QED
    BY <1>a, <1>f, <1>s, <1>2, <2>1, GroupsSeen, PlainNext DEF PInv, files
<1>3. CASE ListGroups
  <2>1. Prepare(Verb[req.op], "OK", groups) /\ req.op = "GLS"
    BY <1>3, NothingMissed DEF ListGroups, ShowGroups, Begin
  <2>2. Promise!Result(req, "OK", groups) /\ pc' = "reply"
    BY <2>1, Replies
  <2>3. Promise!Do(req)
    BY <1>2, <1>s, <2>1, <2>2 DEF Promise!Do, Promise!ListGroups
  <2> QED
    BY <1>1, <2>2, <2>3, Effect
<1>4. CASE ListMine /\ req.uid \in homes /\ req.uid \in login
  <2>1. Prepare(Verb[req.op], "OK", Subscribed(req.uid)) /\ req.op = "GLM"
    BY <1>4 DEF ListMine, KnownUser, ShowGroups, Begin
  <2>2. Promise!Result(req, "OK", Subscribed(req.uid)) /\ pc' = "reply"
    BY <2>1, Replies
  <2>3. Subscribed(req.uid) = {g \in DOMAIN DirGroups : req.uid \in DirGroups[g].members}
    BY <1>2, NothingMissed DEF Subscribed
  <2>4. Promise!Do(req)
    BY <1>2, <1>4, <1>s, <2>1, <2>2, <2>3 DEF Promise!Do, Promise!ListMine
  <2> QED
    BY <1>1, <2>2, <2>4, Effect
<1>5. CASE ListMine /\ ~(req.uid \in homes /\ req.uid \in login)
  <2>1. Prepare("RGS", "E_USR", {}) /\ req.op = "GLM" /\ req.uid \notin login
    BY <1>1, <1>5 DEF ListMine, KnownUser, Begin, PInv, DInv, Housed
  <2>2. Promise!Refuse(req, "E_USR") /\ pc' = "reply"
    BY <1>1, <1>f, <2>1, Refusals, Replies
  <2>3. Promise!Do(req)
    BY <1>2, <2>1, <2>2 DEF Promise!Do, Promise!ListMine
  <2> QED
    BY <1>1, <2>2, <2>3, Effect
<1> QED
  BY <1>3, <1>4, <1>5

(* A sequence that goes on as another one does, by one element more. *)
LEMMA Appends ==
  ASSUME NEW S, NEW n \in Nat, NEW s \in [1..n -> S], NEW t \in [1..(n + 1) -> S],
         \A i \in 1..n : t[i] = s[i]
  PROVE  Len(s) = n /\ t = Append(s, t[n + 1])
<1>1. s \in Seq(S) /\ Len(s) = n /\ t[n + 1] \in S /\ n + 1 \in Nat
  OBVIOUS
<1> DEFINE a == Append(s, t[n + 1])
<1>2. /\ a \in Seq(S) /\ Len(a) = n + 1
      /\ \A i \in 1..n : a[i] = s[i]
      /\ a[n + 1] = t[n + 1]
  BY <1>1, AppendProperties
<1> HIDE DEF a
<1>4. a \in [1..(n + 1) -> S]
  BY <1>2, LenProperties
<1>3. \A i \in 1..(n + 1) : t[i] = a[i]
  BY <1>2
<1>5. t = a
  BY <1>3, <1>4
<1> QED
  BY <1>1, <1>5 DEF a

(* What the second half of subscribe() starts from, when the group has a   *)
(* name.                                                                   *)
LEMMA AtCompare ==
  ASSUME PInv, CompareName
  PROVE  /\ pc = "compare" /\ req \in Requests /\ req.op = "GSR"
         /\ req.uid \in Uids /\ req.name \in GNames /\ Promise!Knows(req.uid)
         /\ "GROUPS" \in tree /\ gid \in groups /\ gid # NewGroup /\ gid \in Nat
         /\ gid <= MaxGroups
<1>1. pc = "compare" /\ req \in Requests /\ req.op = "GSR"
  BY DEF CompareName, PInv, DInv, Serves
<1>2. req.uid \in Uids /\ req.name \in GNames
  BY <1>1, Fields
<1>3. "GROUPS" \in tree
  BY <1>1 DEF PInv, Treed, Tree, Starting
<1>4. gid \in groups /\ gid \in Gids \ {NewGroup}
  BY <1>3 DEF CompareName, Legible, PInv, CInv, DInv, TypeOK
<1>5. Promise!Knows(req.uid)
  <2>1. pass[req.uid] \in Passes /\ Leaving = {}
    BY <1>1 DEF PInv, CInv, Registering, Leaving
  <2> QED
    BY <1>2, <2>1, DirectoryAssumption DEF Promise!Knows, DirAccount
<1> QED
  BY <1>1, <1>2, <1>3, <1>4, <1>5, ProtocolAssumption DEF Gids

(* GSR for a group that exists joins it, or is refused. *)
LEMMA JoinTakes ==
  ASSUME PInv, PInv', Faults = {}, CompareName, req.gid # NewGroup
  PROVE  Promise!Next
<1>a. Groups
  BY DEF Groups
<1>1. gid = req.gid /\ out = NoResult /\ InMaking = {} /\ groups' = groups /\ name' = name
  BY AtCompare DEF PInv, Making, InMaking, CompareName
<1>2. DirGroups = [g \in groups |-> Row(g)]
  BY <1>1, Counted DEF PInv
<1>s. ASSUME NEW status, Settle(status)
      PROVE  pc' = "reply" /\ Promise!Result(req, status, {})
  <2>1. Prepare("RGS", status, {})
    BY <1>1, <1>s DEF Settle, Prepare
  <2> QED
    BY <2>1, Replies
<1>3. pc' = "reply" => DirGroups' = [g \in groups |-> Row(g)']
  BY <1>1, PlainNext DEF PInv
<1>4. CASE NameDiffers(gid, req.name) /\ Settle("E_GNAME") /\ UNCHANGED members
  <2>1. \A g : Row(g)' = Row(g)
    BY <1>a, <1>1, <1>4, GroupsSeen DEF Row
  <2>2. DirGroups' = DirGroups
    BY <1>s, <1>2, <1>3, <1>4, <2>1
  <2>3. Promise!Refuse(req, "E_GNAME")
    BY <1>a, <1>s, <1>4, <2>2, GroupsSeen DEF Promise!Refuse
  <2>4. DirGroups[req.gid].name = Blank \/ DirGroups[req.gid].name # req.name
    BY <1>1, <1>2, <1>4, AtCompare DEF NameDiffers, Row
  <2>5. Promise!Do(req)
    BY <1>1, <1>2, <2>3, <2>4, AtCompare DEF Promise!Do, Promise!Subscribe
  <2> QED
    BY <1>s, <1>4, <2>5, AtCompare, Effect
<1>5. CASE /\ NameMatches(gid, req.name) /\ Settle("OK")
           /\ members' = [members EXCEPT ![gid] = @ \cup {req.uid}]
  <2>1. \A g \in groups : Row(g)' = IF g = req.gid
                                    THEN [Row(g) EXCEPT !.members = @ \cup {req.uid}]
                                    ELSE Row(g)
    BY <1>a, <1>1, <1>5, GroupsSeen DEF Row, PInv, DInv, TypeOK
  <2>2. DirGroups' = [DirGroups EXCEPT ![req.gid].members = @ \cup {req.uid}]
    BY <1>s, <1>1, <1>2, <1>3, <1>5, <2>1, AtCompare
  <2>3. DirGroups[req.gid].name \in {req.name, Blank}
    BY <1>1, <1>2, <1>5, AtCompare DEF NameMatches, Row
  <2>4. Promise!Join(req)
    BY <1>a, <1>s, <1>5, <2>2, <2>3, GroupsSeen DEF Promise!Join, Promise!Accept
  <2>5. Promise!Do(req)
    BY <1>1, <1>2, <2>4, AtCompare DEF Promise!Do, Promise!Subscribe
  <2> QED
    BY <1>s, <1>5, <2>5, AtCompare, Effect
<1> QED
  BY <1>4, <1>5, AtCompare DEF CompareName, May

(* GSR for a new group founds it. *)
LEMMA FoundTakes ==
  ASSUME PInv, PInv', Faults = {}, CompareName, req.gid = NewGroup
  PROVE  Promise!Next
<1>a. Groups
  BY DEF Groups
<1>1. /\ groups = 1..gid /\ members[gid] = {} /\ out # NoResult
      /\ out.status = "NEW" /\ out.list = {gid} /\ InMaking = {gid}
      /\ name[gid] = IF req.name = Blank THEN Empty ELSE req.name
  BY AtCompare DEF PInv, Making, InMaking
<1>2. /\ pc' = "reply" /\ out' = out /\ UNCHANGED <<req, gid, groups, name>>
      /\ \/ members' = [members EXCEPT ![gid] = @ \cup {req.uid}]
         \/ members' = members /\ NameDiffers(gid, req.name)
  BY <1>1, AtCompare DEF CompareName, Settle, Goto, May
<1>3. gid \in Nat /\ gid # 0 /\ gid - 1 \in Nat /\ (gid - 1) + 1 = gid
      /\ groups \ InMaking = 1..(gid - 1)
  BY <1>1, AtCompare DEF NewGroup
<1>4. Leaving = {} /\ Leaving' = {}
  BY <1>a, GroupsSeen
<1>5. DirGroups = [g \in 1..(gid - 1) |-> Row(g)] /\ DirGroups' = [g \in 1..gid |-> Row(g)']
  BY <1>1, <1>2, <1>3, Counted, PlainNext DEF PInv
<1>6. \A g \in 1..(gid - 1) : Row(g)' = Row(g)
  <2>1. \A g \in 1..(gid - 1) : g # gid /\ g \in Gids
    BY <1>3, AtCompare, ProtocolAssumption DEF Gids
  <2>2. \A g \in 1..(gid - 1) : members'[g] = members[g]
    BY <1>2, <2>1 DEF PInv, DInv, TypeOK
  <2> QED
    BY <1>2, <1>4, <2>2 DEF Row
<1>7. /\ Row(gid)' = [name |-> req.name, members |-> members'[gid]]
      /\ members'[gid] \in {{req.uid}} \cup (IF req.name = Blank THEN {{}} ELSE {})
  <2>1. gid \in Gids
    BY DEF PInv, DInv, TypeOK
  <2>2. Row(gid)' = [name |-> IF name'[gid] = Empty THEN Blank ELSE name'[gid],
                     members |-> members'[gid]]
    BY <1>2, <1>4 DEF Row
  <2>3. (IF name'[gid] = Empty THEN Blank ELSE name'[gid]) = req.name
    BY <1>1, <1>2, AtCompare, DirectoryAssumption
  <2>4. members'[gid] = {req.uid} \/ (members'[gid] = {} /\ req.name = Blank)
    BY <1>1, <1>2, <2>1, AtCompare, DirectoryAssumption DEF NameDiffers, PInv, DInv, TypeOK
  <2> QED
    BY <2>2, <2>3, <2>4
<1>8. Len(DirGroups) = gid - 1 /\ DirGroups' = Append(DirGroups, Row(gid)')
  <2> DEFINE S == {Row(g) : g \in 1..gid} \cup {Row(g)' : g \in 1..gid}
  <2>1. DirGroups \in [1..(gid - 1) -> S] /\ DirGroups' \in [1..((gid - 1) + 1) -> S]
    BY <1>3, <1>5
  <2>2. \A i \in 1..(gid - 1) : DirGroups'[i] = DirGroups[i]
    BY <1>3, <1>5, <1>6
  <2>3. DirGroups'[(gid - 1) + 1] = Row(gid)'
    <3>1. gid \in 1..gid
      BY <1>3
    <3>2. DirGroups'[gid] = Row(gid)'
      BY <1>2, <1>5, <3>1
    <3> QED
      BY <1>3, <3>2
  <2> HIDE DEF S
  <2> QED
    BY <1>3, <2>1, <2>2, <2>3, Appends
<1>9. Promise!Result(req, "NEW", {Len(DirGroups) + 1})
  <2>1. DirResult' = [req |-> req, status |-> "NEW", list |-> {gid}]
    BY <1>1, <1>2, <1>4 DEF DirResult
  <2> QED
    BY <1>3, <1>8, <2>1 DEF Promise!Result
<1>10. Promise!Found(req)
  <2>1. Len(DirGroups) < MaxGroups
    BY <1>3, <1>8, AtCompare, ProtocolAssumption
  <2> QED
    BY <1>a, <1>7, <1>8, <1>9, <2>1, GroupsSeen DEF Promise!Found
<1>11. Promise!Do(req)
  BY <1>10, AtCompare, SameRequests DEF Promise!Do, Promise!Subscribe
<1> QED
  BY <1>2, <1>11, AtCompare, Effect

(* The parent's steps outside of its handlers: an answer is sent, a new    *)
(* server resumes, and the rest does not show.                             *)
LEMMA OthersStep ==
  ASSUME PInv, PInv', Faults = {}, [Next]_vars, ~Accounts, ~Groups
  PROVE  [Promise!Next]_Promise!directory
<1>1. UNCHANGED <<accounts, groups, name, members>>
  BY OtherSteps DEF PInv, DInv
<1>v. ASSUME Leaving' = Leaving, InMaking' = InMaking
      PROVE  UNCHANGED <<DirAccount, DirLogged, DirGroups>>
  <2>1. DirGroups' = DirGroups
    BY <1>v, <1>1, SameRows DEF Row
  <2> QED
    BY <1>v, <1>1, <2>1 DEF DirAccount, DirLogged, accounts
<1>i. ASSUME UNCHANGED <<files, pc, locals>> PROVE UNCHANGED Promise!directory
  BY <1>i, <1>v, DirTerms DEF Leaving, InMaking, DirResult, Up, locals
<1>2. CASE Start \/ MakeUsers \/ MakeGroups \/ Receive \/ Answer
  <2>1. /\ pc \in {"off", "fault", "mkusers", "mkgroups", "idle", "reply"}
        /\ pc' \in {"off", "mkusers", "mkgroups", "idle", "begin"}
        /\ pc = "reply" <=> Answer
        /\ Answer \/ Receive => pc' \in {"idle", "begin"} /\ pc \in {"idle", "reply"}
    BY <1>2 DEF Start, MakeUsers, MakeGroups, MakeTop, Receive, Answer, Goto, Down
  <2>2. UNCHANGED <<DirAccount, DirLogged, DirGroups>> /\ Leaving = {} /\ Leaving' = {}
    BY <2>1, <1>v DEF Leaving, InMaking
  <2>3. DirResult' = NoResult /\ (pc # "reply" => DirResult = NoResult)
    BY <2>1, <2>2 DEF DirResult
  <2>4. Up \in BOOLEAN /\ Up' \in BOOLEAN /\ (Up => Up') /\ (Answer => Up /\ Up')
    <3>1. Start \/ MakeUsers \/ MakeGroups => ~Up
      BY DEF Start, MakeUsers, MakeGroups, MakeTop, Up, Starting
    <3> QED
      BY <1>2, <2>1, <3>1 DEF Up, Down, Starting
  <2>5. CASE DirResult' = DirResult
    BY <2>2, <2>4, <2>5, DirTerms DEF Promise!Next
  <2>6. CASE DirResult' # DirResult
    BY <2>1, <2>2, <2>3, <2>4, <2>6, DirTerms DEF Promise!Next
  <2> QED
    BY <2>5, <2>6
<1>3. ~Kill
  BY DEF Kill, May
<1>4. ASSUME NEW l \in Listers, AcceptUlist(l) \/ SendRequest(l) \/ Ulist(l)
      PROVE  UNCHANGED Promise!directory
  BY <1>4, <1>i, TypeUlist DEF PInv, DInv
<1>5. CASE UNCHANGED vars
  BY <1>5, <1>i DEF vars
<1> QED
  BY <1>2, <1>3, <1>4, <1>5 DEF Next, Handler

(* Every step of the server is one of the directory, or shows nothing in   *)
(* it.                                                                     *)
LEMMA DirectoryStep ==
  ASSUME PInv, PInv', Faults = {}, [Next]_vars
  PROVE  [Promise!Next]_Promise!directory
<1>1. CASE Accounts
  BY <1>1, AccountsUnseen, AccountsTake, UnregisterTakes DEF Accounts, CannotDelete, May
<1>2. CASE Groups
  <2>1. CASE CompareName
    BY <2>1, JoinTakes, FoundTakes
  <2>2. CASE Segfault /\ (ListGroups \/ ListMine)
    BY <1>2, <2>2, FaultStops DEF ListGroups, ListMine, Begin
  <2>3. CASE NameMissing
    BY <1>2, <2>3, FaultStops DEF NameMissing
  <2> QED
    BY <1>2, <2>1, <2>2, <2>3, GroupsUnseen, SubscribeRefused, UnsubscribeTakes, ListsTake
    DEF Groups
<1> QED
  BY <1>1, <1>2, OthersStep

(* As long as no call fails the server implements the abstract directory   *)
(* (ImplementsDirectory): each request takes effect at one instant between *)
(* its arrival and its answer, unregister() when it is admitted and the    *)
(* others with their answers.                                              *)
THEOREM ServerIsADirectory ==
  ASSUME Faults = {}
  PROVE  Spec => ImplementsDirectory
<1>1. Init => Promise!Init
  <2> SUFFICES ASSUME Init PROVE Promise!Init
    OBVIOUS
  <2>1. Leaving = {} /\ InMaking = {} /\ Up = FALSE /\ DirResult = NoResult
    BY DEF Init, Leaving, InMaking, Up, Down, DirResult
  <2>2. DirAccount = [u \in Uids |-> NoAccount] /\ DirLogged = {}
    BY <2>1, DirectoryAssumption DEF Init, DirAccount, DirLogged
  <2>3. DirGroups = << >>
    <3>1. groups \ InMaking = {}
      BY DEF Init
    <3>2. Cardinality(groups \ InMaking) = 0
      BY <3>1, FS_EmptySet
    <3>3. DirGroups \in [1..0 -> {}]
      BY <3>2 DEF DirGroups
    <3> QED
      BY <3>3
  <2> QED
    BY <2>1, <2>2, <2>3 DEF Promise!Init
<1>2. PInv /\ PInv' /\ [Next]_vars => [Promise!Next]_Promise!directory
  BY DirectoryStep
<1> QED
  BY <1>1, <1>2, PInvAlways, PTL DEF Spec, ImplementsDirectory, Promise!Spec

=============================================================================
