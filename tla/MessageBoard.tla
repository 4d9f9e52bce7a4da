----------------------------- MODULE MessageBoard -----------------------------
(***************************************************************************)
(* The message directory SERVER/GROUPS/<GID>/MSG of one group, as the      *)
(* directory server's forked children use it.                              *)
(*                                                                         *)
(* Every TCP request is served by a child process of its own (server.c),   *)
(* so any number of post() and retrieve() calls run against the same       *)
(* directory with no lock; the only atomic operations are those of the     *)
(* file system.  Each action below is one such operation, or one blocking  *)
(* read of the socket.  A message is the directory MSG/<MID>, and what its *)
(* files hold is told apart only by the post that wrote them: the post p   *)
(* writes p in author.txt, in text.txt and in its file.                    *)
(***************************************************************************)
EXTENDS Integers, FiniteSets, Sequences

CONSTANTS
  Posters,     \* the PST requests: a client, its connection, its child
  Readers,     \* the RTV requests, likewise
  WithFile,    \* the posts that carry a file
  Window,      \* how many messages one retrieve returns (20 in the code)
  MaxFrom,     \* bound: the largest MID a retrieve starts from
  Faults,      \* what the environment may do, see FaultKinds
  NoDir,       \* the message has no FILE directory
  Absent,      \* the file does not exist
  Partial      \* the file was opened for writing and holds a prefix only

(* create:    mkdir, or fopen for writing, fails (no space, no descriptor)  *)
(* open:      opendir fails, and passes for an empty directory, or fopen for *)
(*            reading                                                       *)
(* flush:     fprintf, fwrite or fclose fails; no caller looks at it        *)
(* hangup:    a poster's client closes its connection                       *)
(* desert:    a reader's client closes its connection, or stops reading     *)
(* interrupt: the server's process group is killed and started again       *)
FaultKinds == {"create", "open", "flush", "hangup", "desert", "interrupt"}

ASSUME BoardAssumption ==
  /\ Posters \cap Readers = {}
  /\ WithFile \subseteq Posters
  /\ Window \in Nat \ {0}
  /\ MaxFrom \in Nat
  /\ Faults \subseteq FaultKinds
  /\ {NoDir, Absent, Partial} \cap Posters = {}
  /\ NoDir # Absent /\ NoDir # Partial /\ Absent # Partial

VARIABLES
  group,    \* "none", "dir" (GROUPS/<GID> exists) or "msg" (and MSG in it)
  making,   \* the parent is in subscribe(), between the two mkdirs
  store,    \* the message directory: a function from its MIDs to messages
  pc,       \* where each child is
  upload,   \* how much of its request each child's client has sent
  client,   \* "there"; "silent": it no longer reads; "gone": it has closed
  msgId,    \* post(): msg_id, the MID it counted
  msgDir,   \* post(): the MID whose directory it made, 0 before; kept on exit
  reply,    \* the status the client was sent over its connection
  rd        \* retrieve(): the locals of each reader

vars == <<group, making, store, pc, upload, client, msgId, msgDir, reply, rd>>

Children == Posters \cup Readers

File    == {Absent, Partial} \cup Posters
Message == [author: File, text: File, file: File \cup {NoDir}]

NewMessage == [author |-> Absent, text |-> Absent, file |-> NoDir]

(* What a post leaves behind when every step of it succeeds. *)
Whole(p) == [author |-> p, text |-> p,
             file |-> IF p \in WithFile THEN p ELSE NoDir]

PostStages == {"header", "check", "scan", "mkdir", "author", "author+",
               "text", "text+", "trailer", "filedir", "data", "attach",
               "attach+", "reply"}
ReadStages == {"request", "check", "open", "list", "item", "itemtext", "itemfile"}
Ended      == {"done", "failed", "crashed", "killed"}
Stages     == {"idle", "spin"} \cup PostStages \cup ReadStages \cup Ended

Entry  == [mid: Nat, msg: Message]
Locals == [from: Nat, known: SUBSET Nat, base: SUBSET Nat, todo: SUBSET Nat,
           count: Int, cur: Message, entries: Seq(Entry)]

Alive(c) == pc[c] \notin {"idle"} \cup Ended

Acked == {msgDir[p] : p \in {q \in Posters : reply[q] = "OK"}}

NewReader == [from |-> 1, known |-> {}, base |-> {}, todo |-> {}, count |-> 0,
              cur |-> [NewMessage EXCEPT !.author = Partial], entries |-> << >>]

Init ==
  /\ group = "none" /\ making = FALSE
  /\ store = [m \in {} |-> NewMessage]
  /\ pc = [c \in Children |-> "idle"]
  /\ upload = [c \in Children |-> "none"]
  /\ client = [c \in Children |-> "there"]
  /\ msgId = [p \in Posters |-> 0]
  /\ msgDir = [p \in Posters |-> 0]
  /\ reply = [c \in Children |-> "none"]
  /\ rd = [r \in Readers |-> NewReader]

Goto(c, stage) == pc' = [pc EXCEPT ![c] = stage]

SetLocals(r, new) == rd' = [rd EXCEPT ![r] = new]

----------------------------------------------------------------------------
(* The parent process and the environment. *)

(* subscribe() creating the group: GROUPS/<GID> first, MSG in a second     *)
(* call.  The parent accepts no connection in between.                     *)
MakeGroup ==
  /\ group = "none" /\ ~making
  /\ group' = "dir" /\ making' = TRUE
  /\ UNCHANGED <<store, pc, upload, client, msgId, msgDir, reply, rd>>

MakeMsg ==
  /\ making /\ making' = FALSE
  /\ \/ group' = "msg"
     \/ "create" \in Faults /\ UNCHANGED group
  /\ UNCHANGED <<store, pc, upload, client, msgId, msgDir, reply, rd>>

(* accept and fork *)
AcceptPost(p) ==
  /\ pc[p] = "idle" /\ ~making
  /\ Goto(p, "header")
  /\ UNCHANGED <<group, making, store, upload, client, msgId, msgDir, reply, rd>>

AcceptRetrieve(r) ==
  /\ pc[r] = "idle" /\ ~making
  /\ Goto(r, "request")
  /\ UNCHANGED <<group, making, store, upload, client, msgId, msgDir, reply, rd>>

(* The client writes its request piece by piece.  A post: through the text; *)
(* with a file, through the file's name and size; the rest.  A retrieve:    *)
(* the verb, then the three words.                                          *)
Upload(c) ==
  /\ Alive(c) /\ client[c] = "there" /\ upload[c] # "all"
  /\ upload' = [upload EXCEPT ![c] =
       CASE @ = "none" -> IF c \in Posters THEN "text" ELSE "verb"
         [] @ = "text" /\ c \in WithFile -> "name"
         [] OTHER -> "all"]
  /\ UNCHANGED <<group, making, store, pc, client, msgId, msgDir, reply, rd>>

Becomes(c, state) ==
  /\ Alive(c) /\ client[c] \notin {state, "gone"}
  /\ client' = [client EXCEPT ![c] = state]
  /\ UNCHANGED <<group, making, store, pc, upload, msgId, msgDir, reply, rd>>

Hangup(p) == "hangup" \in Faults /\ Becomes(p, "gone")

Desert(r) == "desert" \in Faults /\ \E state \in {"silent", "gone"} : Becomes(r, state)

(* The server runs until it is killed, and its children with it; the files *)
(* stay and the next server finds them.                                    *)
Interrupt ==
  /\ "interrupt" \in Faults
  /\ making \/ \E c \in Children : Alive(c)
  /\ making' = FALSE
  /\ pc' = [c \in Children |-> IF Alive(c) THEN "killed" ELSE pc[c]]
  /\ UNCHANGED <<group, store, upload, client, msgId, msgDir, reply, rd>>

----------------------------------------------------------------------------
(* post(), run by the child of the poster p. *)

(* The status is sent to the client unless it has closed the connection. *)
Respond(c, status) ==
  reply' = IF client[c] = "gone" THEN reply ELSE [reply EXCEPT ![c] = status]

(* Mutant of NokOverUdp: a failed post tries its mkdir again. *)
RetriesMkdir(p) == Goto(p, "mkdir") /\ UNCHANGED <<store, msgDir>>

(* Once the group is found, every failure of post() is reported with       *)
(* send_udp_message: to the UDP client the parent served last.  The poster *)
(* gets nothing and its connection is closed.                              *)
NokOverUdp(p) ==
  /\ Goto(p, "failed")
  /\ UNCHANGED <<store, msgDir>>

CannotCreate(p) == "create" \in Faults /\ NokOverUdp(p)

PostFrame == UNCHANGED <<group, making, upload, client, rd>>

(* The verb, UID, GID, size and text.  At end of file read_fd never        *)
(* returns, but get_word_fd does: cut off where the size begins, the       *)
(* header reads as that of an empty text.                                  *)
ReadHeader(p) ==
  /\ pc[p] = "header"
  /\ \/ upload[p] # "none" /\ Goto(p, "check")
     \/ upload[p] = "none" /\ client[p] = "gone" /\ \E s \in {"spin", "check"} : Goto(p, s)
  /\ PostFrame /\ UNCHANGED <<store, msgId, msgDir, reply>>

CheckGroup(p) ==
  /\ pc[p] = "check"
  /\ \/ group # "none" /\ Goto(p, "scan") /\ UNCHANGED reply
     \/ group = "none" /\ Goto(p, "done") /\ Respond(p, "NOK")
  /\ PostFrame /\ UNCHANGED <<store, msgId, msgDir>>

(* Mutants of NextMid: the first MID is 0; the listing holds one entry too *)
(* many, as it would with ".".                                             *)
NextMidFromZero == Cardinality(DOMAIN store)
NextMidCountsDot == Cardinality(DOMAIN store) + 2

(* list_subdirectories of MSG, empty when there is no MSG.  Messages are   *)
(* only added, so a listing that overlaps additions returns a count the    *)
(* directory had at some instant of it: one atomic read stands for it.     *)
NextMid == Cardinality(DOMAIN store) + 1

CountMessages(p) ==
  /\ pc[p] = "scan"
  /\ \/ msgId' = [msgId EXCEPT ![p] = NextMid]
     \/ "open" \in Faults /\ msgId' = [msgId EXCEPT ![p] = 1]
  /\ Goto(p, "mkdir")
  /\ PostFrame /\ UNCHANGED <<store, msgDir, reply>>

(* Mutant of MkdirPossible: a directory that exists will do. *)
MkdirAnyway(p) == group = "msg"

(* mkdir MSG/<MID> fails when it exists or MSG does not. *)
MkdirPossible(p) == group = "msg" /\ msgId[p] \notin DOMAIN store

MakeMessageDir(p) ==
  /\ pc[p] = "mkdir"
  /\ \/ /\ MkdirPossible(p)
        /\ store' = [m \in DOMAIN store \cup {msgId[p]} |->
                       IF m = msgId[p] THEN NewMessage ELSE store[m]]
        /\ msgDir' = [msgDir EXCEPT ![p] = msgId[p]]
        /\ Goto(p, "author")
     \/ ~MkdirPossible(p) /\ NokOverUdp(p)
     \/ CannotCreate(p)
  /\ PostFrame /\ UNCHANGED <<msgId, reply>>

Mine(p) == store[msgDir[p]]

(* The message of p becomes msg and p goes on. *)
Put(p, msg, stage) ==
  /\ store' = [store EXCEPT ![msgDir[p]] = msg]
  /\ Goto(p, stage)
  /\ UNCHANGED msgDir

(* A buffered write that is lost is not noticed: p goes on. *)
FlushLost(p, stage) ==
  /\ "flush" \in Faults
  /\ Goto(p, stage)
  /\ UNCHANGED <<store, msgDir>>

(* create_file of author.txt: fopen, then fprintf and fclose. *)
CreateAuthor(p) ==
  /\ pc[p] = "author"
  /\ \/ Put(p, [Mine(p) EXCEPT !.author = Partial], "author+")
     \/ CannotCreate(p)
  /\ PostFrame /\ UNCHANGED <<msgId, reply>>

WriteAuthor(p) ==
  /\ pc[p] = "author+"
  /\ \/ Put(p, [Mine(p) EXCEPT !.author = p], "text")
     \/ FlushLost(p, "text")
  /\ PostFrame /\ UNCHANGED <<msgId, reply>>

CreateText(p) ==
  /\ pc[p] = "text"
  /\ \/ Put(p, [Mine(p) EXCEPT !.text = Partial], "text+")
     \/ CannotCreate(p)
  /\ PostFrame /\ UNCHANGED <<msgId, reply>>

WriteText(p) ==
  /\ pc[p] = "text+"
  /\ \/ upload[p] # "none" /\ Put(p, [Mine(p) EXCEPT !.text = p], "trailer")
     \/ upload[p] = "none" /\ Put(p, Mine(p), "trailer")
     \/ FlushLost(p, "trailer")
  /\ PostFrame /\ UNCHANGED <<msgId, reply>>

(* Mutant of TrailerSaysFile: the character is compared wrongly. *)
TrailerMisread(p) == {FALSE}

(* read(fd, &c, 1): a blank when a file follows.  At end of file c keeps   *)
(* whatever its stack slot held.                                           *)
TrailerSaysFile(p) ==
  IF upload[p] \in {"none", "text"} THEN BOOLEAN ELSE {p \in WithFile}

ReadTrailer(p) ==
  /\ pc[p] = "trailer"
  /\ upload[p] \notin {"none", "text"} \/ client[p] = "gone"
  /\ \E c \in TrailerSaysFile(p) : Goto(p, IF c THEN "filedir" ELSE "reply")
  /\ PostFrame /\ UNCHANGED <<store, msgId, msgDir, reply>>

MakeFileDir(p) ==
  /\ pc[p] = "filedir"
  /\ \/ Put(p, [Mine(p) EXCEPT !.file = Absent], "data")
     \/ CannotCreate(p)
  /\ PostFrame /\ UNCHANGED <<msgId, reply>>

(* The name, the size, then the data.  With the connection closed: read_fd *)
(* of the missing data never returns; cut off in the name or the size, the *)
(* file is an empty one; without a name fopen gets the directory, fails,   *)
(* and the null stream faults.                                             *)
ReadData(p) ==
  /\ pc[p] = "data"
  /\ \/ upload[p] = "all" /\ Goto(p, "attach")
     \/ upload[p] = "name" /\ client[p] = "gone" /\ Goto(p, "spin")
     \/ upload[p] = "text" /\ client[p] = "gone" /\ p \in WithFile /\ Goto(p, "attach")
     \/ upload[p] \in {"none", "text"} /\ client[p] = "gone" /\ Goto(p, "crashed")
  /\ PostFrame /\ UNCHANGED <<store, msgId, msgDir, reply>>

(* This fopen is not checked: when it fails fwrite faults. *)
CreateData(p) ==
  /\ pc[p] = "attach"
  /\ \/ Put(p, [Mine(p) EXCEPT !.file = Partial], "attach+")
     \/ "create" \in Faults /\ Goto(p, "crashed") /\ UNCHANGED <<store, msgDir>>
  /\ PostFrame /\ UNCHANGED <<msgId, reply>>

WriteData(p) ==
  /\ pc[p] = "attach+"
  /\ \/ upload[p] = "all" /\ Put(p, [Mine(p) EXCEPT !.file = p], "reply")
     \/ upload[p] # "all" /\ Put(p, Mine(p), "reply")
     \/ FlushLost(p, "reply")
  /\ PostFrame /\ UNCHANGED <<msgId, reply>>

(* "RPT <MID>" *)
SendMid(p) ==
  /\ pc[p] = "reply"
  /\ Goto(p, "done") /\ Respond(p, "OK")
  /\ PostFrame /\ UNCHANGED <<store, msgId, msgDir>>

Post(p) ==
  \/ ReadHeader(p) \/ CheckGroup(p) \/ CountMessages(p) \/ MakeMessageDir(p)
  \/ CreateAuthor(p) \/ WriteAuthor(p) \/ CreateText(p) \/ WriteText(p)
  \/ ReadTrailer(p) \/ MakeFileDir(p) \/ ReadData(p) \/ CreateData(p)
  \/ WriteData(p) \/ SendMid(p)

----------------------------------------------------------------------------
(* retrieve(), run by the child of the reader r. *)

ReadFrame == UNCHANGED <<group, making, store, upload, client, msgId, msgDir>>

(* The verb, with read_fd, which never returns at end of file; then UID,    *)
(* GID and MID with get_word_fd, which gives an empty word there.  A child  *)
(* with an empty word sends a buffer that it has freed and goes on; all it  *)
(* does after that is for a client that is gone, and writes nothing.        *)
(* known: the MIDs whose posters had their status when the request was read. *)
ReadRequest(r) ==
  /\ pc[r] = "request"
  /\ \/ /\ upload[r] = "all"
        /\ \E mid \in 1..MaxFrom :
             SetLocals(r, [rd[r] EXCEPT !.from = mid, !.known = Acked])
        /\ Goto(r, "check")
     \/ upload[r] = "none" /\ client[r] = "gone" /\ Goto(r, "spin") /\ UNCHANGED rd
     \/ /\ upload[r] = "verb" /\ client[r] = "gone" /\ UNCHANGED rd
        /\ \E s \in {"failed", "crashed"} : Goto(r, s)
  /\ ReadFrame /\ UNCHANGED reply

CheckBoard(r) ==
  /\ pc[r] = "check"
  /\ \/ group # "none" /\ Goto(r, "open") /\ UNCHANGED reply
     \/ group = "none" /\ Goto(r, "done") /\ Respond(r, "NOK")
  /\ ReadFrame /\ UNCHANGED rd

(* opendir: from here on a message that is added may or may not be listed. *)
OpenList(r) ==
  /\ pc[r] = "open"
  /\ SetLocals(r, [rd[r] EXCEPT !.base = DOMAIN store])
  /\ Goto(r, "list")
  /\ ReadFrame /\ UNCHANGED reply

(* Mutant of InWindow: the first message asked for is skipped. *)
InWindowLate(m, from) == m > from /\ m < from + Window

(* Mutant of InWindow: the window is one message too wide. *)
InWindowWide(m, from) == m >= from /\ m <= from + Window

(* The tests that skip a message and that end the loop. *)
InWindow(m, from) == m >= from /\ m < from + Window

(* The N of the answer, from the first MID asked for and the number of     *)
(* messages listed.                                                        *)
Announced(from, n) == IF Window < n - from + 1 THEN Window ELSE n - from + 1

(* The end of list_subdirectories_ord, then the head of the answer. *)
ListMessages(r) ==
  /\ pc[r] = "list"
  /\ \E listed \in SUBSET DOMAIN store :
       /\ rd[r].base \subseteq listed \/ ("open" \in Faults /\ listed = {})
       /\ \/ /\ rd[r].from > Cardinality(listed)
             /\ Goto(r, "done") /\ Respond(r, "EOF")
             /\ UNCHANGED rd
          \/ /\ rd[r].from <= Cardinality(listed)
             /\ SetLocals(r, [rd[r] EXCEPT
                  !.count = Announced(rd[r].from, Cardinality(listed)),
                  !.todo  = {m \in listed : InWindow(m, rd[r].from)}])
             /\ Goto(r, "item") /\ Respond(r, "OK")
  /\ ReadFrame

Least(S) == CHOOSE m \in S : \A n \in S : m <= n

(* current_str: the list is ordered. *)
Current(r) == Least(rd[r].todo)

EndLoop(r) ==
  /\ pc[r] = "item" /\ rd[r].todo = {}
  /\ Goto(r, "done")
  /\ ReadFrame /\ UNCHANGED <<rd, reply>>

(* A missing file, or an empty FILE directory, is a null pointer: the      *)
(* child faults in the middle of its answer.                               *)
FaultIf(r, missing) ==
  /\ missing \/ "open" \in Faults
  /\ Goto(r, "crashed") /\ UNCHANGED rd

(* fread from an empty author.txt leaves the buffer as it was: undefined   *)
(* (Partial), or the author of the message before, in the same stack slot. *)
AuthorSeen(r, found) ==
  IF found = Partial THEN {Partial, rd[r].cur.author} ELSE {found}

(* author.txt of the next message. *)
ReadAuthor(r) ==
  /\ pc[r] = "item" /\ rd[r].todo # {}
  /\ LET found == store[Current(r)].author
     IN \/ FaultIf(r, found = Absent)
        \/ /\ found # Absent
           /\ \E author \in AuthorSeen(r, found) :
                SetLocals(r, [rd[r] EXCEPT
                  !.cur = [NewMessage EXCEPT !.author = author]])
           /\ Goto(r, "itemtext")
  /\ ReadFrame /\ UNCHANGED reply

ReadText(r) ==
  /\ pc[r] = "itemtext"
  /\ LET found == store[Current(r)].text
     IN \/ FaultIf(r, found = Absent)
        \/ /\ found # Absent
           /\ SetLocals(r, [rd[r] EXCEPT !.cur.text = found])
           /\ Goto(r, "itemfile")
  /\ ReadFrame /\ UNCHANGED reply

(* Mutant of ReadFile: the loop does not move on in its list. *)
ReadFileStays(r) ==
  /\ pc[r] = "itemfile"
  /\ Goto(r, "item")
  /\ ReadFrame /\ UNCHANGED <<rd, reply>>

EntryRead(r) ==
  [mid |-> Current(r), msg |-> [rd[r].cur EXCEPT !.file = store[Current(r)].file]]

(* The FILE directory if there is one; then the entry has been sent. *)
ReadFile(r) ==
  /\ pc[r] = "itemfile"
  /\ \/ FaultIf(r, store[Current(r)].file = Absent)
     \/ /\ store[Current(r)].file # Absent
        /\ SetLocals(r, [rd[r] EXCEPT !.todo = @ \ {Current(r)},
                                      !.entries = Append(@, EntryRead(r))])
        /\ Goto(r, "item")
  /\ ReadFrame /\ UNCHANGED reply

(* SIGPIPE: a write to a connection that the client has closed. *)
BrokenPipe(r) ==
  /\ pc[r] \in {"item", "itemtext", "itemfile"} /\ client[r] = "gone"
  /\ Goto(r, "crashed")
  /\ ReadFrame /\ UNCHANGED <<rd, reply>>

Retrieve(r) ==
  \/ ReadRequest(r) \/ CheckBoard(r) \/ OpenList(r) \/ ListMessages(r)
  \/ EndLoop(r) \/ ReadAuthor(r) \/ ReadText(r) \/ ReadFile(r) \/ BrokenPipe(r)

----------------------------------------------------------------------------
Next ==
  \/ MakeGroup \/ MakeMsg \/ Interrupt
  \/ \E p \in Posters : AcceptPost(p) \/ Upload(p) \/ Hangup(p) \/ Post(p)
  \/ \E r \in Readers : AcceptRetrieve(r) \/ Upload(r) \/ Desert(r) \/ Retrieve(r)

Spec == Init /\ [][Next]_vars

(* The kernel runs every child that is not blocked in a read, or in a write *)
(* to a client that no longer reads.                                        *)
Fairness ==
  /\ \A p \in Posters : WF_vars(Post(p))
  /\ \A r \in Readers : WF_vars(client[r] # "silent" /\ Retrieve(r))

FairSpec == Spec /\ Fairness
----------------------------------------------------------------------------
(* Properties. *)

TypeOK ==
  /\ group \in {"none", "dir", "msg"} /\ making \in BOOLEAN
  /\ DOMAIN store \subseteq Nat \ {0}
  /\ store \in [DOMAIN store -> Message]
  /\ pc \in [Children -> Stages]
  /\ upload \in [Children -> {"none", "verb", "text", "name", "all"}]
  /\ client \in [Children -> {"there", "silent", "gone"}]
  /\ msgId \in [Posters -> Nat]
  /\ msgDir \in [Posters -> Nat]
  /\ reply \in [Children -> {"none", "OK", "NOK", "EOF"}]
  /\ rd \in [Readers -> Locals]

(* The MIDs of a group are 1..n without a gap, whatever children race and  *)
(* die: "count the directories, add one, mkdir" never skips a number.      *)
MidsContiguous == DOMAIN store = 1..Cardinality(DOMAIN store)

(* A post whose client was told "RPT <MID>" is in MSG/<MID> with its own   *)
(* author, text and file, for ever: no other post was given its MID and no *)
(* crash or failure after the answer takes any of it away.                 *)
AckedIntact ==
  \A p \in Posters : reply[p] = "OK" =>
    msgDir[p] \in DOMAIN store /\ store[msgDir[p]] = Whole(p)

(* What one post wrote in a message directory is never replaced.           *)
WrittenOnce ==
  [][\A m \in DOMAIN store :
       /\ m \in DOMAIN store'
       /\ \A f \in DOMAIN store[m] :
            store[m][f] \in Posters => store'[m][f] = store[m][f]]_vars

(* No message directory ever holds what two posts wrote: mkdir gives each  *)
(* MID to one of the posts that race for it.                               *)
Authors(msg) == {msg.author, msg.text, msg.file} \cap Posters

NoMixing == \A m \in DOMAIN store : Cardinality(Authors(store[m])) <= 1

(* A retrieve that runs to its end delivers, whole, every message of its   *)
(* window that had been acknowledged when the request was read; "EOF" is   *)
(* answered only when there is none.  (This is so as long as no buffered   *)
(* write is lost and no opendir fails.)                                    *)
RetrieveSeesAcked ==
  \A r \in Readers : pc[r] = "done" =>
    \A p \in Posters :
      (/\ msgDir[p] \in rd[r].known
       /\ rd[r].from <= msgDir[p] /\ msgDir[p] < rd[r].from + Window) =>
        \E i \in 1..Len(rd[r].entries) :
          rd[r].entries[i] = [mid |-> msgDir[p], msg |-> Whole(p)]

(* When no call fails, a message directory that is not whole belongs to a  *)
(* post that is still at work or that was killed: post() leaves no hole    *)
(* behind, not even when it loses the race for its MID.                    *)
NoHoles ==
  \A m \in DOMAIN store : \E p \in Posters :
    /\ msgDir[p] = m
    /\ Alive(p) \/ pc[p] = "killed" \/ store[m] = Whole(p)

(* A retrieve that comes to its end while no message is added sends as     *)
(* many entries as it announced: the count, and the tests that skip a      *)
(* message and end the loop, agree at both ends of the window.             *)
AnnouncedAreSent ==
  \A r \in Readers :
    pc[r] = "done" /\ reply[r] = "OK" /\ rd[r].base = DOMAIN store
      => Len(rd[r].entries) = rd[r].count

(* The child of a post whose request has come in full ends, whatever the   *)
(* other children, the disk and the operator do.                           *)
PostSettles ==
  \A p \in Posters : (Alive(p) /\ upload[p] = "all") ~> pc[p] \in Ended

(* The child of a retrieve whose request has come in full ends, unless its  *)
(* client stops reading the answer: whatever posts add meanwhile, and also  *)
(* when the client closes its connection.                                   *)
RetrieveSettles ==
  \A r \in Readers :
    (Alive(r) /\ upload[r] = "all") ~> (pc[r] \in Ended \/ client[r] = "silent")

(* The directory implements the log: a number is taken by mkdir, a post is *)
(* complete when the last file it carries has been written.                *)
Log == INSTANCE MessageLog WITH
  last   <- Cardinality(DOMAIN store),
  number <- msgDir,
  whole  <- {p \in Posters :
               /\ msgDir[p] # 0
               /\ Mine(p).author = p /\ Mine(p).text = p
               /\ p \in WithFile => Mine(p).file = p},
  acked  <- {p \in Posters : reply[p] = "OK"}

ImplementsLog == Log!Spec

(* The comment over retrieve() says "receive: RRT status [N[ MID UID Tsize *)
(* text ...]]*]": the UID of an entry is that of the user who posted its   *)
(* text.  A retrieve that finds an author.txt still empty refutes it: it   *)
(* sends the author of the message before.                                 *)
EntryNamesItsAuthor ==
  \A r \in Readers : \A i \in 1..Len(rd[r].entries) :
    Cardinality(Authors(rd[r].entries[i].msg)) <= 1
=============================================================================
