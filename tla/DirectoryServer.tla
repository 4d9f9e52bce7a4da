--------------------------- MODULE DirectoryServer ---------------------------
(***************************************************************************)
(* The directory server's parent process and the files it keeps.           *)
(*                                                                         *)
(*   SERVER/USERS/<UID>/pass.txt, login        an account and its session  *)
(*   SERVER/GROUPS/<GID>/name.txt, MSG, <UID>  a group and its members     *)
(*                                                                         *)
(* The parent answers the datagrams one at a time, in handlers that are    *)
(* sequences of file system calls.  Each action below is one call that     *)
(* changes the files, with the tests that lead to it; the children that    *)
(* answer ULS requests run beside it, and a crash may fall between any two *)
(* steps.  The handlers of the other children are in MessageBoard.         *)
(***************************************************************************)
EXTENDS Protocol, FiniteSets, Sequences

CONSTANTS
  Listers,     \* the ULS requests: a connection and its child
  Faults,      \* what the environment may do, see FaultKinds
  Absent,      \* the file does not exist
  Empty,       \* the file holds nothing: opened and not flushed, or blank
  NoReq,       \* no request is being served
  NoResult,    \* no answer has been prepared
  NoAccount    \* for the abstract directory: the user has no account

(* create: mkdir, or fopen for writing, fails                              *)
(* open:   opendir, or fopen for reading, fails                            *)
(* flush:  fprintf or fclose fails; create_file does not look at them      *)
(* remove: remove or rmdir fails                                           *)
(* hangup: the client of a ULS request closes before it has sent it        *)
(* kill:   the server's process group is killed                            *)
FaultKinds == {"create", "open", "flush", "remove", "hangup", "kill"}

Answers == [verb: {Verb[op] : op \in DOMAIN Verb}, status: Statuses, list: SUBSET Gids]

ASSUME DirectoryAssumption ==
  /\ Faults \subseteq FaultKinds
  /\ Absent \notin Passes \cup GNames \cup {Empty}
  /\ Empty \notin Passes \cup GNames
  /\ NoReq \notin Requests
  /\ NoResult \notin Answers
  /\ NoAccount \notin Passes

VARIABLES
  tree,     \* which of SERVER, SERVER/USERS and SERVER/GROUPS exist
  homes,    \* the users that have a directory
  pass,     \* the content of each user's pass.txt
  login,    \* the users whose directory holds the file login
  groups,   \* the groups that have a directory
  msgs,     \* the groups whose directory holds MSG
  name,     \* the content of each group's name.txt
  members,  \* the users that have a file in the group's directory
  pc,       \* where the parent is
  req,      \* the request it serves
  gid,      \* subscribe(): gid and group_dir
  todo,     \* unregister(): the groups still to leave
  out,      \* msg_buffer: the answer, once it is formatted
  missed,   \* what the handler will fail to open for reading
  ul        \* the child of each ULS request

accounts == <<homes, pass, login>>
files    == <<tree, homes, pass, login, groups, msgs, name, members>>
locals   == <<req, gid, todo, out, missed>>
vars     == <<files, pc, locals, ul>>

Tree     == {"SERVER", "USERS", "GROUPS"}
Down     == {"off", "fault"}
Starting == {"mkusers", "mkgroups"}
Stages   == Down \cup Starting \cup
  {"idle", "begin", "pass", "pass+", "rmhome", "rmsubs",
   "mkmsg", "name", "name+", "compare", "reply"}

(* What may be missed: a pass.txt or name.txt, the user's directory when it *)
(* is deleted, the listing of GROUPS (for a child, of its group).          *)
Opens == {"file", "home", "list"}

AtWork == {"read", "spin", "look", "name", "files"}
ListerStages == {"idle", "done", "crashed", "killed"} \cup AtWork
Lister == [pc: ListerStages, client: {"silent", "sent", "gone"}, gid: Gids,
           named: BOOLEAN, missed: SUBSET Opens, todo: SUBSET Uids,
           seen: SUBSET Uids, status: {"none", "OK", "NOK"}]

Serving(l) == ul[l].pc \in AtWork

Init ==
  /\ tree = {}
  /\ homes = {} /\ pass = [u \in Uids |-> Absent] /\ login = {}
  /\ groups = {} /\ msgs = {}
  /\ name = [g \in Gids |-> Absent] /\ members = [g \in Gids |-> {}]
  /\ pc = "off" /\ req = NoReq /\ gid = NewGroup /\ todo = {} /\ out = NoResult
  /\ missed = {}
  /\ ul = [l \in Listers |->
             [pc |-> "idle", client |-> "silent", gid |-> NewGroup, named |-> FALSE,
              missed |-> {}, todo |-> {}, seen |-> {}, status |-> "none"]]

May(fault) == fault \in Faults

(* Those that a request attempts. *)
OpensOf(op) ==
  CASE op = "UNR"                   -> {"file", "home", "list"}
    [] op \in {"LOG", "OUT"}        -> {"file"}
    [] op \in {"GSR", "GLS", "GLM"} -> {"file", "list"}
    [] OTHER                        -> {}

(* Any of them may fail while one request is served. *)
Failing(opens) == IF May("open") THEN SUBSET opens ELSE {{}}

Goto(stage) == pc' = stage

Prepare(verb, status, list) ==
  /\ out' = [verb |-> verb, status |-> status, list |-> list]
  /\ Goto("reply")
  /\ UNCHANGED <<req, gid, todo, missed, ul>>

(* Format the answer and go to send it. *)
Say(status) == Prepare(Verb[req.op], status, {})

(* On to the next call of the handler. *)
Step(stage) == Goto(stage) /\ UNCHANGED <<locals, ul>>

(* fscanf on the NULL that fopen returned. *)
Segfault == Step("fault") /\ UNCHANGED files

----------------------------------------------------------------------------
(* Starting and stopping. *)

Forget ==
  req' = NoReq /\ gid' = NewGroup /\ todo' = {} /\ out' = NoResult /\ missed' = {}

(* create_filesystem makes the three directories when there is no SERVER,  *)
(* and looks no further when there is one.  A child that is still alive    *)
(* holds the UDP port: the bind fails and the new server exits.            *)
Start ==
  /\ pc \in Down /\ \A l \in Listers : ~Serving(l)
  /\ \/ tree # {} /\ Goto("idle") /\ UNCHANGED tree
     \/ tree = {} /\ tree' = {"SERVER"} /\ Goto("mkusers")
  /\ Forget /\ UNCHANGED <<accounts, groups, msgs, name, members, ul>>

MakeTop(stage, dir, next) ==
  /\ pc = stage
  /\ \/ tree' = tree \cup {dir} /\ Goto(next)
     \/ May("create") /\ UNCHANGED tree /\ Goto("off")
  /\ UNCHANGED <<accounts, groups, msgs, name, members, locals, ul>>

MakeUsers  == MakeTop("mkusers", "USERS", "mkgroups")
MakeGroups == MakeTop("mkgroups", "GROUPS", "idle")

Kill ==
  /\ May("kill") /\ (pc \notin Down \/ \E l \in Listers : Serving(l))
  /\ Goto("off") /\ Forget
  /\ ul' = [l \in Listers |-> IF Serving(l) THEN [ul[l] EXCEPT !.pc = "killed"] ELSE ul[l]]
  /\ UNCHANGED files

----------------------------------------------------------------------------
(* A datagram is taken from the socket, served to its end, and answered.   *)

Receive ==
  /\ pc = "idle"
  /\ \E q \in Requests : req' = q /\ missed' \in Failing(OpensOf(q.op))
  /\ Goto("begin") /\ UNCHANGED <<files, gid, todo, out, ul>>

Begin(op) == pc = "begin" /\ req.op = op

Answer ==
  /\ pc = "reply"
  /\ Goto("idle") /\ Forget /\ UNCHANGED <<files, ul>>

----------------------------------------------------------------------------
(* Accounts. *)

AccountFrame == UNCHANGED <<tree, groups, msgs, name, members>>

(* fopen of pass.txt or name.txt for reading *)
Legible(content) == content # Absent /\ "file" \notin missed

(* Mutant of Right: the password is read and not compared. *)
RightAnyPassword(u, password) == u \in homes /\ Legible(pass[u])

(* What check_credencials may find: the right password, a wrong one or no  *)
(* user, a pass.txt that it cannot open.  An empty pass.txt leaves the     *)
(* buffer it is read into as it was, and so compares either way.           *)
Right(u, password) == u \in homes /\ Legible(pass[u]) /\ pass[u] \in {password, Empty}
Wrong(u, password) == u \notin homes \/ (Legible(pass[u]) /\ pass[u] # password)
Unreadable(u)      == u \in homes /\ ~Legible(pass[u])

(* reg: directory_exists of the user's directory *)
KnownUser(u) == u \in homes

Register ==
  /\ Begin("REG")
  /\ \/ KnownUser(req.uid) /\ Say("DUP") /\ UNCHANGED homes
     \/ /\ ~KnownUser(req.uid) /\ "USERS" \in tree /\ req.uid \notin homes
        /\ homes' = homes \cup {req.uid} /\ Step("pass")
     \/ /\ ~KnownUser(req.uid)
        /\ "USERS" \notin tree \/ req.uid \in homes \/ May("create")
        /\ Say("NOK") /\ UNCHANGED homes
  /\ AccountFrame /\ UNCHANGED <<pass, login>>

(* create_file: fopen, then what fclose flushes *)
CreatePass ==
  /\ pc = "pass"
  /\ \/ pass' = [pass EXCEPT ![req.uid] = Empty] /\ Step("pass+")
     \/ May("create") /\ Say("NOK") /\ UNCHANGED pass
  /\ AccountFrame /\ UNCHANGED <<homes, login>>

WritePass ==
  /\ pc = "pass+" /\ Say("OK")
  /\ \/ pass' = [pass EXCEPT ![req.uid] = req.pass]
     \/ May("flush") /\ UNCHANGED pass
  /\ AccountFrame /\ UNCHANGED <<homes, login>>

(* UNR, LOG and OUT when the credentials are not right. *)
Refuse ==
  /\ pc = "begin" /\ req.op \in {"UNR", "LOG", "OUT"}
  /\ \/ Wrong(req.uid, req.pass) /\ Say("NOK") /\ UNCHANGED files
     \/ Unreadable(req.uid) /\ Segfault

Admitted(op) == Begin(op) /\ Right(req.uid, req.pass)

Login ==
  /\ Admitted("LOG")
  /\ \/ login' = login \cup {req.uid} /\ Say("OK")
     \/ req.uid \notin login /\ May("create") /\ Say("NOK") /\ UNCHANGED login
  /\ AccountFrame /\ UNCHANGED <<homes, pass>>

Logout ==
  /\ Admitted("OUT")
  /\ \/ login' = login \ {req.uid} /\ Say("OK")
     \/ req.uid \in login /\ May("remove") /\ Say("NOK") /\ UNCHANGED login
  /\ AccountFrame /\ UNCHANGED <<homes, pass>>

(* A directory that opendir fails on is taken for empty: rmdir refuses it. *)
Unregister ==
  /\ Admitted("UNR")
  /\ \/ "home" \notin missed /\ Step("rmhome")
     \/ "home" \in missed /\ Say("NOK")
  /\ UNCHANGED files

(* delete_directory: the files in the order that readdir gives them, *)
(* and then the directory.                                           *)
DeleteFile ==
  /\ pc = "rmhome"
  /\ \/ /\ pass[req.uid] # Absent
        /\ pass' = [pass EXCEPT ![req.uid] = Absent] /\ UNCHANGED login
     \/ req.uid \in login /\ login' = login \ {req.uid} /\ UNCHANGED pass
  /\ Step("rmhome")
  /\ AccountFrame /\ UNCHANGED homes

CannotDelete == pc = "rmhome" /\ May("remove") /\ Say("NOK") /\ UNCHANGED files

(* Mutant of HomesWithout: the directory is emptied and not removed. *)
HomesKept(u) == homes

(* rmdir *)
HomesWithout(u) == homes \ {u}

(* Mutant of GroupsToLeave: the groups are not searched. *)
LeavesNoGroup == {}

(* list_subdirectories of GROUPS: when opendir fails, no group *)
Listed == IF "list" \in missed THEN {} ELSE groups

GroupsToLeave == Listed

DeleteHome ==
  /\ pc = "rmhome" /\ pass[req.uid] = Absent /\ req.uid \notin login
  /\ homes' = HomesWithout(req.uid)
  /\ todo' = GroupsToLeave /\ Goto("rmsubs") /\ UNCHANGED <<req, gid, out, missed, ul>>
  /\ AccountFrame /\ UNCHANGED <<pass, login>>

(* Mutant of Tick: the loop does not move on. *)
TickStays(g) == todo

Tick(g) == todo \ {g}

LeaveGroup ==
  /\ pc = "rmsubs"
  /\ \E g \in todo :
       \/ /\ members' = [members EXCEPT ![g] = @ \ {req.uid}]
          /\ todo' = Tick(g) /\ Goto("rmsubs") /\ UNCHANGED <<req, gid, out, missed, ul>>
       \/ /\ req.uid \in members[g] /\ May("remove")
          /\ Say("NOK") /\ UNCHANGED members
  /\ UNCHANGED <<tree, accounts, groups, msgs, name>>

Unregistered == pc = "rmsubs" /\ todo = {} /\ Say("OK") /\ UNCHANGED files

----------------------------------------------------------------------------
(* Groups. *)

GroupFrame == UNCHANGED <<tree, accounts>>

(* The handler gives up in the middle, and leaves behind what it made. *)
CannotCreate == May("create") /\ Say("NOK") /\ UNCHANGED <<groups, msgs, name, members>>

(* Mutant of NextGid: the listing holds one entry too many. *)
NextGidCountsDot == Cardinality(Listed) + 2

NextGid == Cardinality(Listed) + 1

Target(g, stage) == gid' = g /\ Goto(stage) /\ UNCHANGED <<req, todo, missed, ul>>

(* Mutant of CanFound: there is a group 100. *)
CanFoundOneMore == NextGid <= MaxGroups + 1

CanFound == NextGid <= MaxGroups

Subscribe ==
  /\ Begin("GSR") /\ GroupFrame
  /\ \/ ~KnownUser(req.uid) /\ Say("E_USR") /\ UNCHANGED groups
     \/ /\ KnownUser(req.uid) /\ req.gid # NewGroup
        /\ Target(req.gid, "compare") /\ UNCHANGED <<groups, out>>
     \/ /\ KnownUser(req.uid) /\ req.gid = NewGroup /\ ~CanFound
        /\ out' = [verb |-> "RGS", status |-> "E_FULL", list |-> {}]
        /\ Target(NewGroup, "compare") /\ UNCHANGED groups
     \/ /\ KnownUser(req.uid) /\ req.gid = NewGroup /\ CanFound
        /\ \/ /\ "GROUPS" \in tree /\ NextGid \notin groups
              /\ groups' = groups \cup {NextGid}
              /\ Target(NextGid, "mkmsg") /\ UNCHANGED out
           \/ /\ "GROUPS" \notin tree \/ NextGid \in groups \/ May("create")
              /\ Say("NOK") /\ UNCHANGED groups
  /\ UNCHANGED <<msgs, name, members>>

MakeMsgDir ==
  /\ pc = "mkmsg" /\ GroupFrame
  /\ \/ msgs' = msgs \cup {gid} /\ Step("name") /\ UNCHANGED <<groups, name, members>>
     \/ CannotCreate

CreateName ==
  /\ pc = "name" /\ GroupFrame
  /\ \/ /\ name' = [name EXCEPT ![gid] = Empty] /\ Step("name+")
        /\ UNCHANGED <<groups, msgs, members>>
     \/ CannotCreate

WriteName ==
  /\ pc = "name+" /\ GroupFrame
  /\ \/ req.name # Blank /\ name' = [name EXCEPT ![gid] = req.name]
     \/ (req.name = Blank \/ May("flush")) /\ UNCHANGED name
  /\ out' = [verb |-> "RGS", status |-> "NEW", list |-> {gid}]
  /\ Goto("compare") /\ UNCHANGED <<req, gid, todo, missed, ul, groups, msgs, members>>

(* has_msg: the answer is already there *)
Settle(status) ==
  /\ out' = IF out # NoResult THEN out
            ELSE [verb |-> "RGS", status |-> status, list |-> {}]
  /\ Goto("reply") /\ UNCHANGED <<req, gid, todo, missed, ul>>

(* Mutant of NameMatches: any name will do. *)
NameNotCompared(g, gname) == name[g] # Absent

(* An empty name.txt leaves the buffer it is read into as it was: the      *)
(* comparison can come out either way.                                     *)
NameMatches(g, gname) == name[g] \in {Empty, gname}
NameDiffers(g, gname) == name[g] = Empty \/ name[g] # gname

(* The second half of subscribe(), which a new group goes through too.     *)
(* What is tested is the existence of GROUPS, not that of the group.       *)
CompareName ==
  /\ pc = "compare" /\ GroupFrame
  /\ \/ "GROUPS" \notin tree /\ Settle("E_GRP") /\ UNCHANGED members
     \/ /\ "GROUPS" \in tree /\ Legible(name[gid]) /\ NameDiffers(gid, req.name)
        /\ Settle("E_GNAME") /\ UNCHANGED members
     \/ /\ "GROUPS" \in tree /\ Legible(name[gid]) /\ NameMatches(gid, req.name)
        /\ \/ members' = [members EXCEPT ![gid] = @ \cup {req.uid}] /\ Settle("OK")
           \/ May("create") /\ Say("NOK") /\ UNCHANGED members
  /\ UNCHANGED <<groups, msgs, name>>

NameMissing ==
  /\ pc = "compare" /\ "GROUPS" \in tree /\ ~Legible(name[gid]) /\ Segfault

Unsubscribe ==
  /\ Begin("GUR") /\ GroupFrame
  /\ \/ ~KnownUser(req.uid) /\ Say("E_USR") /\ UNCHANGED members
     \/ KnownUser(req.uid) /\ req.gid \notin groups /\ Say("E_GRP") /\ UNCHANGED members
     \/ /\ KnownUser(req.uid) /\ req.gid \in groups
        /\ \/ members' = [members EXCEPT ![req.gid] = @ \ {req.uid}] /\ Say("OK")
           \/ /\ req.uid \in members[req.gid] /\ May("remove")
              /\ Say("NOK") /\ UNCHANGED members
  /\ UNCHANGED <<groups, msgs, name>>

(* The listings read the name of every group they name. *)
ShowGroups(shown) ==
  /\ UNCHANGED files
  /\ \/ (\E g \in shown : ~Legible(name[g])) /\ Segfault
     \/ /\ \A g \in shown : Legible(name[g])
        /\ Prepare(Verb[req.op], "OK", shown)

(* Mutant of Subscribed: the listing is that of all groups. *)
SubscribedToAll(u) == Listed

Subscribed(u) == {g \in Listed : u \in members[g]}

ListGroups == Begin("GLS") /\ ShowGroups(Listed)

(* my_groups refuses with the verb of a subscription *)
ListMine ==
  /\ Begin("GLM")
  /\ \/ KnownUser(req.uid) /\ req.uid \in login /\ ShowGroups(Subscribed(req.uid))
     \/ /\ ~(KnownUser(req.uid) /\ req.uid \in login)
        /\ Prepare("RGS", "E_USR", {}) /\ UNCHANGED files

----------------------------------------------------------------------------
(* ulist(), run by the child of the ULS request l. *)

ListerFrame == UNCHANGED <<files, pc, locals>>

(* accept and fork *)
AcceptUlist(l) ==
  /\ pc = "idle" /\ ul[l].pc = "idle"
  /\ ul' = [ul EXCEPT ![l].pc = "read"]
  /\ ListerFrame

(* The client has written its request to the end, or closes before.  (That *)
(* it closes later changes nothing that the child does.)                   *)
SendRequest(l) ==
  /\ ul[l].pc = "read" /\ ul[l].client = "silent"
  /\ \E state \in {"sent"} \cup (IF May("hangup") THEN {"gone"} ELSE {}) :
       ul' = [ul EXCEPT ![l].client = state]
  /\ ListerFrame

(* read_fd of the verb and of the GID waits for a silent client, and never *)
(* returns at end of file.                                                 *)
(* named: history, that the group had its name when the request was read   *)
ReadRequest(l) ==
  /\ ul[l].pc = "read"
  /\ \/ /\ ul[l].client = "sent"
        /\ \E g \in Gids, opens \in Failing({"file", "list"}) :
             ul' = [ul EXCEPT ![l].pc = "look", ![l].gid = g, ![l].missed = opens,
                              ![l].named = (name[g] # Absent)]
     \/ ul[l].client = "gone" /\ ul' = [ul EXCEPT ![l].pc = "spin"]
  /\ ListerFrame

(* Mutant of GroupExists: any group number is taken for a group. *)
GroupNotChecked(g) == TRUE

GroupExists(g) == g \in groups

Look(l) ==
  /\ ul[l].pc = "look"
  /\ \/ GroupExists(ul[l].gid) /\ ul' = [ul EXCEPT ![l].pc = "name"]
     \/ /\ ~GroupExists(ul[l].gid)
        /\ ul' = [ul EXCEPT ![l].pc = "done", ![l].status = "NOK"]
  /\ ListerFrame

NameUnread(l) == name[ul[l].gid] = Absent \/ "file" \in ul[l].missed

(* Then list_files, whose opendir may fail: without name.txt the size of   *)
(* the answer is computed for -1 members, and the buffer is overwritten.   *)
ReadName(l) ==
  /\ ul[l].pc = "name"
  /\ \/ /\ NameUnread(l) \/ "list" \in ul[l].missed
        /\ ul' = [ul EXCEPT ![l].pc = "crashed"]
     \/ /\ ~NameUnread(l)
        /\ ul' = [ul EXCEPT ![l].pc = "files",
             ![l].todo = IF "list" \in ul[l].missed THEN {} ELSE Uids]
  /\ ListerFrame

(* Whether readdir shows a file depends on when it gets there. *)
ReadEntry(l) ==
  /\ ul[l].pc = "files"
  /\ \E u \in ul[l].todo :
       ul' = [ul EXCEPT ![l].todo = @ \ {u},
                        ![l].seen = @ \cup ({u} \cap members[ul[l].gid])]
  /\ ListerFrame

SendList(l) ==
  /\ ul[l].pc = "files" /\ ul[l].todo = {}
  /\ ul' = [ul EXCEPT ![l].pc = "done", ![l].status = "OK"]
  /\ ListerFrame

----------------------------------------------------------------------------
Accounts ==
  \/ Register \/ CreatePass \/ WritePass \/ Refuse \/ Login \/ Logout
  \/ Unregister \/ DeleteFile \/ CannotDelete \/ DeleteHome
  \/ LeaveGroup \/ Unregistered

Groups ==
  \/ Subscribe \/ MakeMsgDir \/ CreateName \/ WriteName
  \/ CompareName \/ NameMissing \/ Unsubscribe \/ ListGroups \/ ListMine

Handler == Accounts \/ Groups \/ Answer

Ulist(l) == ReadRequest(l) \/ Look(l) \/ ReadName(l) \/ ReadEntry(l) \/ SendList(l)

Next ==
  \/ Start \/ MakeUsers \/ MakeGroups \/ Kill \/ Receive \/ Handler
  \/ \E l \in Listers : AcceptUlist(l) \/ SendRequest(l) \/ Ulist(l)

Spec == Init /\ [][Next]_vars

(* A handler that can go on goes on: the processes are scheduled fairly.   *)
(* Nothing is assumed of the clients.                                      *)
FairSpec == Spec /\ WF_vars(Handler) /\ \A l \in Listers : WF_vars(Ulist(l))

----------------------------------------------------------------------------
(* Properties. *)

(* Every variable keeps to the values that the files and the locals of the *)
(* handlers can have.                                                      *)
TypeOK ==
  /\ tree \subseteq Tree
  /\ homes \subseteq Uids /\ login \subseteq Uids
  /\ pass \in [Uids -> Passes \cup {Absent, Empty}]
  /\ groups \subseteq Gids \ {NewGroup} /\ msgs \subseteq groups
  /\ name \in [Gids -> GNames \cup {Absent, Empty}]
  /\ members \in [Gids -> SUBSET Uids]
  /\ pc \in Stages /\ req \in Requests \cup {NoReq}
  /\ gid \in Gids /\ todo \subseteq groups /\ missed \in Failing(Opens)
  /\ out \in Answers \cup {NoResult}
  /\ ul \in [Listers -> Lister]

(* subscribe() numbers a new group by counting the directories there are:  *)
(* whatever fails or is killed half-way, the numbers stay 1..n, so that    *)
(* the next mkdir never meets an existing group.                           *)
GidsContiguous == groups = 1..Cardinality(groups)

Idle == pc \in Down \cup {"idle"}

(* A file is found in a directory, and a user's files in the user's own.   *)
AccountsUsable == \A u \in Uids : IF u \in homes THEN pass[u] \in Passes
                                  ELSE pass[u] = Absent /\ u \notin login
GroupsUsable   == \A g \in groups : g \in msgs /\ name[g] # Absent

(* unregister() deletes the account first and the memberships afterwards:  *)
(* nobody is a member of a group without having an account.                *)
NoStrayMembers == \A g \in Gids : members[g] \subseteq homes

(* As long as no call fails the requests leave whole accounts and whole    *)
(* groups behind, and members that are registered, even those requests     *)
(* that end in a segmentation fault.                                       *)
SettledClean == Idle => AccountsUsable /\ GroupsUsable /\ NoStrayMembers

(* Failures and kills included, no password is changed or lost but by an   *)
(* unregister() that was given it, and no session ends but by the user's   *)
(* unregister() or logout_(): reg() never rewrites an account.             *)
OnlyOwnerRemoves ==
  [][\A u \in Uids :
       /\ pass[u] \in Passes /\ pass'[u] # pass[u]
            => req.op = "UNR" /\ req.uid = u /\ req.pass = pass[u]
       /\ u \in login \ login'
            => /\ req.op \in {"UNR", "OUT"} /\ req.uid = u
               /\ pass[u] \in {req.pass, Absent, Empty}]_vars

(* What the files say when the answer is sent, for each answer that grants *)
(* the request.                                                            *)
Granted ==
  CASE req.op = "REG" -> /\ req.uid \in homes
                         /\ \/ pass[req.uid] = req.pass
                            \/ pass[req.uid] = Empty /\ May("flush")
    [] req.op = "UNR" -> /\ req.uid \notin homes \cup login /\ pass[req.uid] = Absent
                         /\ \/ \A g \in groups : req.uid \notin members[g]
                            \/ "list" \in missed
    [] req.op = "LOG" -> req.uid \in login
    [] req.op = "OUT" -> req.uid \notin login
    [] req.op = "GSR" -> /\ gid \in groups \cap msgs /\ name[gid] \in {req.name, Empty}
                         /\ req.uid \in members[gid] \/ name[gid] = Empty
    [] req.op = "GUR" -> req.uid \notin members[req.gid]
    [] req.op = "GLM" -> \/ out.list = {g \in groups : req.uid \in members[g]}
                         \/ "list" \in missed /\ out.list = {}
    [] req.op = "GLS" -> \/ out.list = groups
                         \/ "list" \in missed /\ out.list = {}

(* An answer OK or NEW is only sent when the files agree with it, whatever *)
(* fails and whatever earlier requests left half-done, but for two kinds   *)
(* of failure that no handler looks at: a password or a group's name may   *)
(* not have been flushed; and when the opendir of GROUPS fails in the very *)
(* request, a user is unregistered with memberships left, and the listings *)
(* are answered with no group at all.                                      *)
AnswersTrue == pc = "reply" /\ out.status \in {"OK", "NEW"} => Granted

(* As long as no call fails, the server is only brought down by a          *)
(* subscription, and only by one to a group that there is not.             *)
CrashOnlyInGsr == pc = "fault" => req.op = "GSR" /\ gid \notin groups

(* The child of a ULS request dies only when its group was found and had   *)
(* no name yet when the request was read (the parent was still creating    *)
(* it, or had failed to), or when it cannot open what it reads.            *)
MayDie(l) == ~ul[l].named \/ ul[l].missed # {}

UlistCrashesOnlyUnnamed ==
  \A l \in Listers : ul[l].pc = "crashed" => ul[l].gid \in groups /\ MayDie(l)

(* Nothing that the request reads is missing. *)
Sound ==
  /\ missed = {} /\ "GROUPS" \in tree
  /\ \A u \in homes : pass[u] # Absent
  /\ \A g \in groups : name[g] # Absent
  /\ req.op = "GSR" => IF req.gid = NewGroup THEN CanFound ELSE req.gid \in groups

(* A datagram that finds sound files gets an answer, whatever fails to be  *)
(* made or removed.  A ULS request that has come in full gets one, or its  *)
(* child dies over a name.txt or a listing that it cannot read; it does    *)
(* not hang or spin.                                                       *)
RequestsAnswered ==
  /\ (pc = "begin" /\ Sound) ~> pc = "reply"
  /\ \A l \in Listers :
       (Serving(l) /\ ul[l].client = "sent")
         ~> (ul[l].status # "none" \/ (ul[l].pc = "crashed" /\ MayDie(l)))

(* commands.c:379: "subscribe GID GName ... received RGS status". *)
UnknownGroupAnswered == pc = "fault" => ~(req.op = "GSR" /\ req.gid # NewGroup)

----------------------------------------------------------------------------
(* The server implements the abstract directory as long as no call fails.  *)
(* A user whose unregister() has been admitted counts as gone, and a group *)
(* counts from the end of the subscription that makes it.                  *)
Leaving  == IF pc \in {"rmhome", "rmsubs"} THEN {req.uid} ELSE {}
InMaking == IF pc \in {"mkmsg", "name", "name+", "compare"} /\ req.gid = NewGroup
            THEN {gid} ELSE {}

DirAccount == [u \in Uids |-> IF pass[u] \in Passes /\ u \notin Leaving
                              THEN pass[u] ELSE NoAccount]
DirLogged  == login \ Leaving
DirGroups  == [g \in 1..Cardinality(groups \ InMaking) |->
                 [name |-> IF name[g] = Empty THEN Blank ELSE name[g],
                  members |-> members[g] \ Leaving]]
DirResult  ==
  CASE pc = "reply"  -> [req |-> req, status |-> out.status, list |-> out.list]
    [] Leaving # {} -> [req |-> req, status |-> "OK", list |-> {}]
    [] OTHER        -> NoResult
Up         == pc \notin Down \cup Starting

Promise == INSTANCE Directory WITH
  account <- DirAccount, logged <- DirLogged, groups <- DirGroups,
  result <- DirResult, up <- Up

(* Each request takes effect at one instant, between its arrival and its   *)
(* answer, as the abstract directory says.                                 *)
ImplementsDirectory == Promise!Spec
=============================================================================
