------------------------- MODULE MessageBoardProofs -------------------------
(***************************************************************************)
(* Theorems about MessageBoard, for any number of posts and retrieves.     *)
(***************************************************************************)
EXTENDS MessageBoard, FiniteSetTheorems, TLAPS

(***************************************************************************)
(* The inductive invariant, any fault allowed.                             *)
(***************************************************************************)

(* The MIDs are 1..n, and a post about to make its directory has counted   *)
(* no more messages than there are.                                        *)
Contiguous ==
  \E n \in Nat :
    /\ DOMAIN store = 1..n
    /\ \A p \in Posters : pc[p] = "mkdir" => msgId[p] \in 1..(n + 1)

(* The stages at which a post has a directory of its own to write in. *)
OwnStages == {"author", "author+", "text", "text+", "trailer", "filedir",
              "data", "attach", "attach+", "reply"}

(* No two posts made the same directory. *)
Placed ==
  /\ \A p \in Posters : msgDir[p] = 0 \/ msgDir[p] \in DOMAIN store
  /\ \A p \in Posters : pc[p] \in OwnStages => msgDir[p] # 0
  /\ \A p, q \in Posters : msgDir[p] = msgDir[q] /\ msgDir[p] # 0 => p = q

(* What a post has yet to write does not hold anything of a post. *)
UnwrittenBy(p) ==
  /\ pc[p] \in {"author", "author+"} => Mine(p).author \notin Posters
  /\ pc[p] \in {"author", "author+", "text", "text+"} =>
       Mine(p).text \notin Posters
  /\ pc[p] \in OwnStages \ {"reply"} => Mine(p).file \notin Posters

Unwritten == \A p \in Posters : UnwrittenBy(p)

(* A reader's list names directories that exist, and one while it is       *)
(* inside of its loop.                                                     *)
Listed ==
  \A r \in Readers :
    /\ rd[r].todo \subseteq DOMAIN store
    /\ pc[r] \in {"itemtext", "itemfile"} => rd[r].todo # {}

SInv == TypeOK /\ Contiguous /\ Placed /\ Unwritten /\ Listed

(***************************************************************************)
(* Lemmas about the helpers.                                               *)
(***************************************************************************)

(* The least number of a nonempty set of numbers is one of it. *)
LEMMA LeastExists ==
  ASSUME NEW S \in SUBSET Nat, S # {}
  PROVE  Least(S) \in S /\ \A n \in S : Least(S) <= n
<1> DEFINE Less == {ss \in Nat \X Nat : ss[1] < ss[2]}
<1>1. IsWellFoundedOn(Less, Nat)
  BY NatLessThanWellFounded DEF OpToRel
<1>2. PICK m \in S : \A n \in S : <<n, m>> \notin Less
  BY <1>1, WFMin
<1>3. ASSUME NEW n \in S PROVE m <= n
  <2>1. n < m => <<n, m>> \in Less
    OBVIOUS
  <2> QED
    BY <1>2, <2>1
<1> QED
  BY <1>3 DEF Least

(* What "count the directories and add one" finds. *)
LEMMA Counting ==
  ASSUME NEW n \in Nat, DOMAIN store = 1..n
  PROVE  NextMid = n + 1 /\ \A T \in SUBSET DOMAIN store : Cardinality(T) \in Nat
<1>1. IsFiniteSet(1..n) /\ Cardinality(1..n) = n
  BY FS_Interval
<1>2. \A T \in SUBSET (1..n) : IsFiniteSet(T)
  BY <1>1, FS_Subset
<1> QED
  BY <1>1, <1>2, FS_CardinalityType DEF NextMid

(* A new message is one, and what a post writes is what a file may hold. *)
LEMMA MessageFiles ==
  /\ NewMessage \in Message
  /\ \A p \in Posters : {p, Absent, Partial} \subseteq File
  BY DEF NewMessage, Message, File

(***************************************************************************)
(* Type correctness.                                                       *)
(***************************************************************************)
(* The initial values have their types. *)
LEMMA TypeInit == Init => TypeOK
<1> SUFFICES ASSUME Init PROVE TypeOK
  OBVIOUS
<1>1. DOMAIN store = {} /\ store \in [DOMAIN store -> Message]
  BY DEF Init
<1>2. NewReader \in Locals
  BY DEF NewReader, NewMessage, Message, File, Locals, Entry
<1> QED
  BY <1>1, <1>2 DEF Init, TypeOK, Children, Stages

(* The step of a post that writes a message of its own. *)
LEMMA TypePut ==
  ASSUME TypeOK, Placed, NEW p \in Posters, pc[p] \in OwnStages,
         NEW msg \in Message, NEW s \in Stages, Put(p, msg, s)
  PROVE  /\ DOMAIN store' = DOMAIN store
         /\ store' \in [DOMAIN store' -> Message]
         /\ pc' \in [Children -> Stages]
         /\ msgDir' = msgDir
  BY DEF TypeOK, Placed, Put, Goto, Children

(* Every step of post() keeps the types. *)
LEMMA TypePost ==
  ASSUME TypeOK, Contiguous, Placed, NEW p \in Posters, Post(p)
  PROVE  TypeOK'
<1> USE BoardAssumption DEF Goto, PostFrame, Children, Ended, PostStages, Stages
<1>m. \A q \in Posters : pc[q] \in OwnStages => Mine(q) \in Message
  BY DEF Mine, Placed, TypeOK
<1>1. CASE ReadHeader(p)
  BY <1>1 DEF ReadHeader, TypeOK
<1>2. CASE CheckGroup(p)
  BY <1>2 DEF CheckGroup, Respond, TypeOK
<1>3. CASE CountMessages(p)
  <2>1. NextMid \in Nat
    BY Counting DEF Contiguous
  <2> QED
    BY <1>3, <2>1 DEF CountMessages, TypeOK
<1>4. CASE MakeMessageDir(p)
  <2>1. CASE pc' = [pc EXCEPT ![p] = "failed"] /\ UNCHANGED <<store, msgDir>>
    BY <1>4, <2>1 DEF MakeMessageDir, TypeOK
  <2>2. CASE MkdirPossible(p) /\ pc' = [pc EXCEPT ![p] = "author"]
    <3>1. msgId[p] \in Nat \ {0}
      BY <1>4 DEF MakeMessageDir, Contiguous
    <3>2. /\ msgDir' = [msgDir EXCEPT ![p] = msgId[p]]
          /\ store' = [m \in DOMAIN store \cup {msgId[p]} |->
                         IF m = msgId[p] THEN NewMessage ELSE store[m]]
      BY <1>4, <2>2 DEF MakeMessageDir, NokOverUdp, CannotCreate, TypeOK
    <3>3. /\ DOMAIN store' = DOMAIN store \cup {msgId[p]}
          /\ store' \in [DOMAIN store' -> Message]
      BY <3>2, MessageFiles DEF TypeOK
    <3> QED
      BY <1>4, <2>2, <3>1, <3>2, <3>3 DEF MakeMessageDir, TypeOK
  <2> QED
    BY <1>4, <2>1, <2>2 DEF MakeMessageDir, NokOverUdp, CannotCreate
<1>5. CASE CreateAuthor(p)
  <2>1. [Mine(p) EXCEPT !.author = Partial] \in Message
    BY <1>5, <1>m, MessageFiles DEF CreateAuthor, OwnStages, Message
  <2> QED
    BY <1>5, <2>1, TypePut DEF CreateAuthor, CannotCreate, NokOverUdp, OwnStages, TypeOK
<1>6. CASE WriteAuthor(p)
  <2>1. [Mine(p) EXCEPT !.author = p] \in Message
    BY <1>6, <1>m, MessageFiles DEF WriteAuthor, OwnStages, Message
  <2> QED
    BY <1>6, <2>1, TypePut DEF WriteAuthor, FlushLost, OwnStages, TypeOK
<1>7. CASE CreateText(p)
  <2>1. [Mine(p) EXCEPT !.text = Partial] \in Message
    BY <1>7, <1>m, MessageFiles DEF CreateText, OwnStages, Message
  <2> QED
    BY <1>7, <2>1, TypePut DEF CreateText, CannotCreate, NokOverUdp, OwnStages, TypeOK
<1>8. CASE WriteText(p)
  <2>1. {Mine(p), [Mine(p) EXCEPT !.text = p]} \subseteq Message
    BY <1>8, <1>m, MessageFiles DEF WriteText, OwnStages, Message
  <2> QED
    BY <1>8, <2>1, TypePut DEF WriteText, FlushLost, OwnStages, TypeOK
<1>9. CASE ReadTrailer(p)
  BY <1>9 DEF ReadTrailer, TypeOK
<1>10. CASE MakeFileDir(p)
  <2>1. [Mine(p) EXCEPT !.file = Absent] \in Message
    BY <1>10, <1>m, MessageFiles DEF MakeFileDir, OwnStages, Message
  <2> QED
    BY <1>10, <2>1, TypePut DEF MakeFileDir, CannotCreate, NokOverUdp, OwnStages, TypeOK
<1>11. CASE ReadData(p)
  BY <1>11 DEF ReadData, TypeOK
<1>12. CASE CreateData(p)
  <2>1. [Mine(p) EXCEPT !.file = Partial] \in Message
    BY <1>12, <1>m, MessageFiles DEF CreateData, OwnStages, Message
  <2> QED
    BY <1>12, <2>1, TypePut DEF CreateData, FlushLost, OwnStages, TypeOK
<1>13. CASE WriteData(p)
  <2>1. {Mine(p), [Mine(p) EXCEPT !.file = p]} \subseteq Message
    BY <1>13, <1>m, MessageFiles DEF WriteData, OwnStages, Message
  <2> QED
    BY <1>13, <2>1, TypePut DEF WriteData, FlushLost, OwnStages, TypeOK
<1>14. CASE SendMid(p)
  BY <1>14 DEF SendMid, Respond, TypeOK
<1> QED
  BY <1>1, <1>2, <1>3, <1>4, <1>5, <1>6, <1>7, <1>8, <1>9, <1>10, <1>11,
     <1>12, <1>13, <1>14 DEF Post

(* The step of a reader that changes its locals. *)
LEMMA TypeLocals ==
  ASSUME TypeOK, NEW r \in Readers, NEW new \in Locals, SetLocals(r, new)
  PROVE  rd' \in [Readers -> Locals]
  BY DEF TypeOK, SetLocals

(* Every step of retrieve() keeps the types. *)
LEMMA TypeRetrieve ==
  ASSUME TypeOK, Contiguous, Listed, NEW r \in Readers, Retrieve(r)
  PROVE  TypeOK'
<1> USE BoardAssumption DEF Goto, ReadFrame, Children, Ended, ReadStages, Stages
<1>m. rd[r] \in Locals
  BY DEF TypeOK
<1>n. ASSUME rd[r].todo # {}
      PROVE  Current(r) \in Nat /\ store[Current(r)] \in Message
  BY <1>m, <1>n, LeastExists DEF Current, Locals, Listed, TypeOK
<1>0. CASE ReadRequest(r)
  <2>1. ASSUME NEW mid \in 1..MaxFrom
        PROVE  [rd[r] EXCEPT !.from = mid, !.known = Acked] \in Locals
    <3> mid \in Nat /\ Acked \subseteq Nat
      BY DEF Acked, TypeOK
    <3> QED
      BY <1>m DEF Locals
  <2>2. rd' \in [Readers -> Locals]
    BY <1>0, <2>1, TypeLocals DEF ReadRequest, TypeOK
  <2>3. pc' \in [Children -> Stages]
    BY <1>0 DEF ReadRequest, TypeOK
  <2>4. UNCHANGED <<group, making, store, upload, client, msgId, msgDir, reply>>
    BY <1>0 DEF ReadRequest
  <2> QED
    BY <2>2, <2>3, <2>4 DEF TypeOK
<1>1. CASE CheckBoard(r) \/ BrokenPipe(r)
  BY <1>1 DEF CheckBoard, BrokenPipe, Respond, TypeOK
<1>2. CASE OpenList(r)
  <2>1. [rd[r] EXCEPT !.base = DOMAIN store] \in Locals
    BY <1>m DEF TypeOK, Locals
  <2> QED
    BY <1>2, <2>1, TypeLocals DEF OpenList, TypeOK
<1>3. CASE ListMessages(r)
  <2>1. ASSUME NEW listed \in SUBSET DOMAIN store
        PROVE  [rd[r] EXCEPT
                  !.count = Announced(rd[r].from, Cardinality(listed)),
                  !.todo  = {m \in listed : InWindow(m, rd[r].from)}] \in Locals
    <3>1. Cardinality(listed) \in Nat
      BY Counting DEF Contiguous
    <3>2. Announced(rd[r].from, Cardinality(listed)) \in Int
      BY <3>1, <1>m DEF Announced, Locals
    <3> QED
      BY <3>2, <1>m DEF Locals, TypeOK
  <2>2. rd' \in [Readers -> Locals]
    BY <1>3, <2>1, TypeLocals DEF ListMessages, TypeOK
  <2> QED
    BY <1>3, <2>2 DEF ListMessages, Respond, TypeOK
<1>4. CASE EndLoop(r)
  BY <1>4 DEF EndLoop, TypeOK
<1>5. CASE ReadAuthor(r)
  <2>1. store[Current(r)] \in Message
    BY <1>5, <1>n DEF ReadAuthor
  <2>2. AuthorSeen(r, store[Current(r)].author) \subseteq File
    BY <2>1, <1>m, MessageFiles DEF AuthorSeen, Locals, Message, File
  <2>3. ASSUME NEW author \in File
        PROVE  [rd[r] EXCEPT !.cur = [NewMessage EXCEPT !.author = author]] \in Locals
    <3>1. [NewMessage EXCEPT !.author = author] \in Message
      BY MessageFiles DEF Message
    <3> QED
      BY <3>1, <1>m DEF Locals
  <2>4. rd' \in [Readers -> Locals]
    BY <1>5, <2>2, <2>3, TypeLocals DEF ReadAuthor, FaultIf, TypeOK
  <2> QED
    BY <1>5, <2>4 DEF ReadAuthor, FaultIf, TypeOK
<1>6. CASE ReadText(r)
  <2>1. [rd[r] EXCEPT !.cur.text = store[Current(r)].text] \in Locals
    BY <1>6, <1>m, <1>n DEF ReadText, Listed, Locals, Message
  <2>2. rd' \in [Readers -> Locals]
    BY <1>6, <2>1, TypeLocals DEF ReadText, FaultIf, TypeOK
  <2> QED
    BY <1>6, <2>2 DEF ReadText, FaultIf, TypeOK
<1>7. CASE ReadFile(r)
  <2>1. Current(r) \in Nat /\ store[Current(r)] \in Message
    BY <1>7, <1>n DEF ReadFile, Listed
  <2>2. [rd[r].cur EXCEPT !.file = store[Current(r)].file] \in Message
    BY <2>1, <1>m DEF Locals, Message
  <2>3. EntryRead(r) \in Entry
    BY <2>1, <2>2 DEF EntryRead, Entry
  <2>4. Append(rd[r].entries, EntryRead(r)) \in Seq(Entry)
    BY <2>3, <1>m DEF Locals
  <2>5. rd[r].todo \ {Current(r)} \in SUBSET Nat
    BY <1>m DEF Locals
  <2>6. [rd[r] EXCEPT !.todo = @ \ {Current(r)},
                      !.entries = Append(@, EntryRead(r))] \in Locals
    BY <2>4, <2>5, <1>m DEF Locals
  <2>7. rd' \in [Readers -> Locals]
    BY <1>7, <2>6, TypeLocals DEF ReadFile, FaultIf, TypeOK
  <2> QED
    BY <1>7, <2>7 DEF ReadFile, FaultIf, TypeOK
<1> QED
  BY <1>0, <1>1, <1>2, <1>3, <1>4, <1>5, <1>6, <1>7 DEF Retrieve

(* The parent accepts a post, or a client does something. *)
Outside(c) ==
  \/ c \in Posters /\ AcceptPost(c)
  \/ Upload(c) \/ Hangup(c) \/ Desert(c)

(* Every step of the board keeps the types. *)
LEMMA TypeNext ==
  ASSUME SInv, [Next]_vars
  PROVE  TypeOK'
<1> USE BoardAssumption DEF SInv, Goto, Children, Ended, PostStages, ReadStages, Stages
<1>1. CASE MakeGroup \/ MakeMsg
  BY <1>1 DEF MakeGroup, MakeMsg, TypeOK
<1>2. CASE Interrupt
  BY <1>2 DEF Interrupt, TypeOK
<1>3. ASSUME NEW p \in Children, Outside(p)
      PROVE  TypeOK'
  BY <1>3 DEF Outside, AcceptPost, Upload, Hangup, Desert, Becomes, TypeOK
<1>4. ASSUME NEW p \in Posters, Post(p) PROVE TypeOK'
  BY <1>4, TypePost
<1>5. ASSUME NEW r \in Readers, AcceptRetrieve(r) PROVE TypeOK'
  BY <1>5 DEF AcceptRetrieve, TypeOK
<1>6. ASSUME NEW r \in Readers, Retrieve(r) PROVE TypeOK'
  BY <1>6, TypeRetrieve
<1>7. CASE UNCHANGED vars
  BY <1>7 DEF vars, TypeOK
<1> QED
  BY <1>1, <1>2, <1>3, <1>4, <1>5, <1>6, <1>7 DEF Next, Outside

(***************************************************************************)
(* The other conjuncts.  Only a post changes store, msgId or msgDir, and   *)
(* only MakeMessageDir adds a directory.                                   *)
(***************************************************************************)

(* What the steps that are not of a post leave alone. *)
Elsewhere ==
  /\ UNCHANGED <<store, msgId, msgDir>>
  /\ \A p \in Posters : \/ pc'[p] = pc[p]
                        \/ pc[p] = "idle" /\ pc'[p] = "header"
                        \/ Alive(p) /\ pc'[p] = "killed"

(* A retrieve changes what it has of its own, and nothing else.            *)
ReaderFrame(r) ==
  /\ UNCHANGED <<group, making, store, upload, client, msgId, msgDir>>
  /\ \A c \in Children \ {r} : pc'[c] = pc[c] /\ reply'[c] = reply[c]
  /\ \A q \in Readers \ {r} : rd'[q] = rd[q]

LEMMA ReaderKeeps ==
  ASSUME TypeOK, NEW r \in Readers, AcceptRetrieve(r) \/ Retrieve(r)
  PROVE  ReaderFrame(r)
<1> DEFINE Own == /\ \E s : Goto(r, s)
                  /\ reply' = reply \/ \E a : reply' = [reply EXCEPT ![r] = a]
                  /\ rd' = rd \/ \E new : SetLocals(r, new)
<1>1. ASSUME AcceptRetrieve(r) PROVE Own /\ ReadFrame
  <2>1. ReadFrame /\ reply' = reply /\ Goto(r, "request") /\ rd' = rd
    BY <1>1 DEF AcceptRetrieve, ReadFrame
  <2> QED
    BY <2>1
<1>0. ASSUME ReadRequest(r) PROVE Own /\ ReadFrame
  BY <1>0 DEF ReadRequest
<1>2. ASSUME CheckBoard(r) \/ OpenList(r) \/ EndLoop(r) \/ BrokenPipe(r) PROVE Own /\ ReadFrame
  BY <1>2 DEF CheckBoard, OpenList, EndLoop, BrokenPipe, Respond
<1>3. ASSUME ListMessages(r) PROVE Own /\ ReadFrame
  BY <1>3 DEF ListMessages, Respond
<1>4. ASSUME ReadAuthor(r) PROVE Own /\ ReadFrame
  BY <1>4 DEF ReadAuthor, FaultIf
<1>5. ASSUME ReadText(r) PROVE Own /\ ReadFrame
  BY <1>5 DEF ReadText, FaultIf
<1>6. ASSUME ReadFile(r) PROVE Own /\ ReadFrame
  BY <1>6 DEF ReadFile, FaultIf
<1>7. Own /\ ReadFrame
  BY <1>0, <1>1, <1>2, <1>3, <1>4, <1>5, <1>6 DEF Retrieve
<1>8. r \in Children /\ \A c \in Children \ {r} : pc'[c] = pc[c]
  BY <1>7 DEF Goto, TypeOK, Children
<1>9. \A c \in Children \ {r} : reply'[c] = reply[c]
  BY <1>7 DEF TypeOK
<1>10. \A q \in Readers \ {r} : rd'[q] = rd[q]
  BY <1>7 DEF SetLocals, TypeOK
<1> QED
  BY <1>7, <1>8, <1>9, <1>10 DEF ReaderFrame, ReadFrame

(* A step is one of a post, or leaves what posts work on alone. *)
LEMMA OtherSteps ==
  ASSUME TypeOK, [Next]_vars
  PROVE  Elsewhere \/ \E p \in Posters : Post(p)
<1> USE BoardAssumption DEF Elsewhere, Children, TypeOK, Goto
<1>1. CASE MakeGroup \/ MakeMsg \/ Interrupt
  BY <1>1 DEF MakeGroup, MakeMsg, Interrupt
<1>2. ASSUME NEW p \in Children, Outside(p)
      PROVE  Elsewhere
  BY <1>2 DEF Outside, AcceptPost, Upload, Hangup, Desert, Becomes
<1>3. ASSUME NEW r \in Readers, AcceptRetrieve(r) \/ Retrieve(r)
      PROVE  Elsewhere
  BY <1>3, ReaderKeeps DEF ReaderFrame
<1>4. CASE UNCHANGED vars
  BY <1>4 DEF vars
<1> QED
  BY <1>1, <1>2, <1>3, <1>4 DEF Next, Outside

(* A step of a post leaves the directories as they are, makes the one it   *)
(* counted, or writes in its own.                                          *)
MakesDir(p) ==
  /\ pc[p] = "mkdir" /\ msgId[p] \notin DOMAIN store
  /\ store' = [m \in DOMAIN store \cup {msgId[p]} |->
                 IF m = msgId[p] THEN NewMessage ELSE store[m]]
  /\ msgDir' = [msgDir EXCEPT ![p] = msgId[p]]
  /\ msgId' = msgId
  /\ pc' = [pc EXCEPT ![p] = "author"]

Writes(p) ==
  /\ pc[p] \in OwnStages
  /\ \E msg : store' = [store EXCEPT ![msgDir[p]] = msg]
  /\ UNCHANGED <<msgId, msgDir>>
  /\ pc'[p] \in (OwnStages \ {"author"}) \cup Ended

Moves(p) ==
  /\ UNCHANGED <<store, msgDir>>
  /\ pc'[p] \in OwnStages => pc[p] \in OwnStages
  /\ \/ msgId' = msgId /\ pc'[p] # "mkdir"
     \/ \E id \in {NextMid, 1} : msgId' = [msgId EXCEPT ![p] = id]

(* A step of a post makes its directory, writes in it, or does neither. *)
LEMMA PostSteps ==
  ASSUME TypeOK, NEW p \in Posters, Post(p)
  PROVE  /\ \A q \in Posters \ {p} : pc'[q] = pc[q]
         /\ MakesDir(p) \/ Writes(p) \/ Moves(p)
<1> USE DEF TypeOK, Children, Goto, OwnStages, Ended, MakesDir, Writes, Moves,
            NokOverUdp, CannotCreate, Put, FlushLost
<1>1. CASE ReadHeader(p) \/ CheckGroup(p) \/ CountMessages(p)
  BY <1>1 DEF ReadHeader, CheckGroup, CountMessages, Respond
<1>2. CASE MakeMessageDir(p)
  BY <1>2 DEF MakeMessageDir, MkdirPossible
<1>3. CASE CreateAuthor(p) \/ WriteAuthor(p) \/ CreateText(p) \/ WriteText(p)
  BY <1>3 DEF CreateAuthor, WriteAuthor, CreateText, WriteText
<1>4. CASE ReadTrailer(p) \/ ReadData(p) \/ SendMid(p)
  BY <1>4 DEF ReadTrailer, ReadData, SendMid
<1>5. CASE MakeFileDir(p) \/ CreateData(p) \/ WriteData(p)
  BY <1>5 DEF MakeFileDir, CreateData, WriteData
<1> QED
  BY <1>1, <1>2, <1>3, <1>4, <1>5 DEF Post

(* The MIDs stay 1..n: only the next one is ever made. *)
LEMMA ContiguousNext ==
  ASSUME SInv, [Next]_vars
  PROVE  Contiguous'
<1> USE DEF SInv
<1>1. PICK n \in Nat : /\ DOMAIN store = 1..n
                       /\ \A q \in Posters : pc[q] = "mkdir" => msgId[q] \in 1..(n + 1)
  BY DEF Contiguous
<1>2. CASE Elsewhere
  BY <1>1, <1>2 DEF Elsewhere, Contiguous
<1>3. ASSUME NEW p \in Posters, Post(p) PROVE Contiguous'
  <2>1. \A q \in Posters \ {p} : pc'[q] = pc[q]
    BY <1>3, PostSteps
  <2>2. CASE MakesDir(p)
    <3>1. DOMAIN store' = 1..(n + 1)
      BY <1>1, <2>2 DEF MakesDir
    <3>2. \A q \in Posters : pc'[q] = "mkdir" => msgId'[q] \in 1..(n + 2)
      BY <1>1, <2>1, <2>2 DEF MakesDir, TypeOK, Children
    <3> QED
      BY <3>1, <3>2 DEF Contiguous
  <2>3. CASE Writes(p)
    <3>1. DOMAIN store' = 1..n
      BY <1>1, <2>3 DEF Writes
    <3>2. \A q \in Posters : pc'[q] = "mkdir" => msgId'[q] \in 1..(n + 1)
      BY <1>1, <2>1, <2>3 DEF Writes, OwnStages, Ended
    <3> QED
      BY <3>1, <3>2 DEF Contiguous
  <2>4. CASE Moves(p)
    <3>1. DOMAIN store' = 1..n
      BY <1>1, <2>4 DEF Moves
    <3>2. NextMid = n + 1
      BY <1>1, Counting
    <3>3. \A q \in Posters : pc'[q] = "mkdir" => msgId'[q] \in 1..(n + 1)
      <4>1. \A q \in Posters \ {p} : msgId'[q] = msgId[q]
        BY <2>4 DEF Moves, TypeOK
      <4>2. pc'[p] = "mkdir" => msgId'[p] \in {n + 1, 1}
        BY <2>4, <3>2 DEF Moves, TypeOK
      <4> QED
        BY <1>1, <2>1, <4>1, <4>2
    <3> QED
      BY <3>1, <3>3 DEF Contiguous
  <2> QED
    BY <1>3, <2>2, <2>3, <2>4, PostSteps
<1> QED
  BY <1>2, <1>3, OtherSteps

(* No two posts come to own the same directory. *)
LEMMA PlacedNext ==
  ASSUME SInv, [Next]_vars
  PROVE  Placed'
<1> USE DEF SInv
<1>1. CASE Elsewhere
  BY <1>1 DEF Elsewhere, Placed, OwnStages
<1>2. ASSUME NEW p \in Posters, Post(p) PROVE Placed'
  <2>1. \A q \in Posters \ {p} : pc'[q] = pc[q]
    BY <1>2, PostSteps
  <2>2. CASE MakesDir(p)
    <3>1. msgId[p] \in Nat \ {0}
      BY <2>2 DEF MakesDir, Contiguous
    <3>2. /\ DOMAIN store' = DOMAIN store \cup {msgId[p]}
          /\ msgDir'[p] = msgId[p]
          /\ \A q \in Posters \ {p} : msgDir'[q] = msgDir[q]
      BY <2>2 DEF MakesDir, TypeOK
    <3>3. \A q \in Posters \ {p} : msgDir[q] # msgId[p]
      BY <2>2, <3>1 DEF MakesDir, Placed
    <3> QED
      BY <2>1, <3>1, <3>2, <3>3 DEF Placed
  <2>3. CASE Writes(p)
    BY <2>1, <2>3 DEF Writes, Placed
  <2>4. CASE Moves(p)
    BY <2>1, <2>4 DEF Moves, Placed
  <2> QED
    BY <1>2, <2>2, <2>3, <2>4, PostSteps
<1> QED
  BY <1>1, <1>2, OtherSteps

(* A listed directory stays: nothing removes a message. *)
LEMMA ListedNext ==
  ASSUME SInv, [Next]_vars
  PROVE  Listed'
<1> USE BoardAssumption DEF SInv, Goto, Children
<1>1. DOMAIN store \subseteq DOMAIN store'
  <2>1. CASE Elsewhere
    BY <2>1 DEF Elsewhere
  <2>2. ASSUME NEW p \in Posters, Post(p) PROVE DOMAIN store \subseteq DOMAIN store'
    <3>1. MakesDir(p) \/ Writes(p) \/ Moves(p)
      BY <2>2, PostSteps
    <3> QED
      BY <3>1 DEF MakesDir, Writes, Moves
  <2>3. Elsewhere \/ \E p \in Posters : Post(p)
    BY OtherSteps
  <2> QED
    BY <2>1, <2>2, <2>3
<1>2. ASSUME NEW p \in Children, Outside(p) \/ (p \in Posters /\ Post(p))
      PROVE  UNCHANGED rd /\ \A r \in Readers : pc'[r] = pc[r]
  <2>1. CASE Outside(p)
    BY <2>1 DEF Outside, AcceptPost, Upload, Hangup, Desert, Becomes, TypeOK
  <2>2. CASE p \in Posters /\ Post(p)
    <3> USE DEF PostFrame, NokOverUdp, CannotCreate, Put, FlushLost, TypeOK
    <3> p \in Posters
      BY <2>2
    <3>1. CASE ReadHeader(p) \/ CheckGroup(p) \/ CountMessages(p) \/ MakeMessageDir(p)
      BY <3>1 DEF ReadHeader, CheckGroup, CountMessages, MakeMessageDir
    <3>2. CASE CreateAuthor(p) \/ WriteAuthor(p) \/ CreateText(p) \/ WriteText(p)
      BY <3>2 DEF CreateAuthor, WriteAuthor, CreateText, WriteText
    <3>3. CASE ReadTrailer(p) \/ ReadData(p) \/ SendMid(p)
      BY <3>3 DEF ReadTrailer, ReadData, SendMid
    <3>4. CASE MakeFileDir(p) \/ CreateData(p) \/ WriteData(p)
      BY <3>4 DEF MakeFileDir, CreateData, WriteData
    <3> QED
      BY <2>2, <3>1, <3>2, <3>3, <3>4 DEF Post
  <2> QED
    BY <1>2, <2>1, <2>2
<1>3. CASE MakeGroup \/ MakeMsg \/ Interrupt \/ UNCHANGED vars
  BY <1>1, <1>3 DEF MakeGroup, MakeMsg, Interrupt, vars, Listed, TypeOK
<1>4. ASSUME NEW r \in Readers, AcceptRetrieve(r) \/ Retrieve(r)
      PROVE  Listed'
  <2>1. rd[r] \in Locals
    BY DEF TypeOK
  <2>2. \A q \in Readers \ {r} : rd'[q] = rd[q] /\ pc'[q] = pc[q]
    BY <1>4, ReaderKeeps DEF ReaderFrame, Children
  <2>3. /\ rd'[r].todo \subseteq DOMAIN store
        /\ pc'[r] \in {"itemtext", "itemfile"} => rd'[r].todo # {}
    <3>1. \A new : SetLocals(r, new) => rd'[r] = new
      BY DEF SetLocals, TypeOK
    <3>2. \A s : Goto(r, s) => pc'[r] = s
      BY DEF TypeOK
    <3>3. /\ rd[r].todo \subseteq DOMAIN store
          /\ pc[r] \in {"itemtext", "itemfile"} => rd[r].todo # {}
      BY DEF Listed
    <3> HIDE DEF Goto
    <3>4. CASE ReadRequest(r)
      <4>1. \/ rd' = rd
            \/ \E mid \in 1..MaxFrom :
                 SetLocals(r, [rd[r] EXCEPT !.from = mid, !.known = Acked])
        BY <3>4 DEF ReadRequest
      <4>2. rd'[r].todo = rd[r].todo
        BY <4>1, <3>1, <2>1 DEF Locals
      <4>3. \E s \in {"check", "spin", "failed", "crashed"} : Goto(r, s)
        BY <3>4 DEF ReadRequest
      <4> QED
        BY <4>2, <4>3, <3>2, <3>3
    <3>5. CASE AcceptRetrieve(r) \/ CheckBoard(r) \/ EndLoop(r) \/ BrokenPipe(r)
      BY <3>5, <3>2, <3>3 DEF AcceptRetrieve, CheckBoard, EndLoop, BrokenPipe
    <3>6. CASE OpenList(r)
      <4>1. rd'[r].todo = rd[r].todo
        BY <3>6, <3>1, <2>1 DEF OpenList, Locals
      <4> QED
        BY <3>6, <4>1, <3>2, <3>3 DEF OpenList
    <3>7. CASE ListMessages(r)
      <4>1. PICK listed \in SUBSET DOMAIN store :
              \/ UNCHANGED rd
              \/ SetLocals(r, [rd[r] EXCEPT
                   !.count = Announced(rd[r].from, Cardinality(listed)),
                   !.todo  = {m \in listed : InWindow(m, rd[r].from)}])
        BY <3>7 DEF ListMessages
      <4>2. CASE UNCHANGED rd
        BY <3>7, <4>2, <3>2, <3>3 DEF ListMessages
      <4>3. CASE ~UNCHANGED rd
        <5>1. rd'[r].todo = {m \in listed : InWindow(m, rd[r].from)}
          BY <4>1, <4>3, <3>1, <2>1 DEF Locals
        <5> QED
          BY <3>7, <5>1, <3>2 DEF ListMessages
      <4> QED
        BY <4>2, <4>3
    <3>8. CASE ReadAuthor(r)
      <4>1. rd'[r].todo = rd[r].todo
        BY <3>8, <3>1, <2>1 DEF ReadAuthor, FaultIf, Locals
      <4> QED
        BY <3>8, <4>1, <3>3 DEF ReadAuthor
    <3>9. CASE ReadText(r)
      <4>1. rd'[r].todo = rd[r].todo
        BY <3>9, <3>1, <2>1 DEF ReadText, FaultIf, Locals
      <4> QED
        BY <3>9, <4>1, <3>3 DEF ReadText
    <3>10. CASE ReadFile(r)
      <4> DEFINE sent == Append(rd[r].entries, EntryRead(r))
      <4>1. \/ UNCHANGED rd
            \/ rd'[r] = [rd[r] EXCEPT !.todo = @ \ {Current(r)}, !.entries = sent]
        BY <3>10, <3>1 DEF ReadFile, FaultIf
      <4> HIDE DEF sent
      <4>2. rd'[r].todo \subseteq rd[r].todo
        BY <4>1, <2>1 DEF Locals
      <4> QED
        BY <3>10, <4>2, <3>2, <3>3 DEF ReadFile, FaultIf
    <3> QED
      BY <1>4, <3>4, <3>5, <3>6, <3>7, <3>8, <3>9, <3>10 DEF Retrieve
  <2> QED
    BY <1>1, <2>2, <2>3 DEF Listed
<1> QED
  BY <1>1, <1>2, <1>3, <1>4 DEF Next, Outside, Listed

(* A post leaves the messages of the others alone. *)
LEMMA OthersKept ==
  ASSUME SInv, NEW p \in Posters, Post(p),
         NEW q \in Posters, q # p, msgDir[q] # 0
  PROVE  msgDir'[q] = msgDir[q] /\ Mine(q)' = Mine(q)
<1> USE DEF SInv, Mine
<1>1. CASE MakesDir(p)
  <2>1. msgDir[q] \in DOMAIN store /\ msgDir[q] # msgId[p]
    BY <1>1 DEF MakesDir, Placed
  <2> QED
    BY <1>1, <2>1 DEF MakesDir, TypeOK
<1>2. CASE Writes(p)
  <2>1. msgDir[q] \in DOMAIN store /\ msgDir[q] # msgDir[p]
    BY DEF Placed
  <2> QED
    BY <1>2, <2>1 DEF Writes
<1>3. CASE Moves(p)
  BY <1>3 DEF Moves
<1> QED
  BY <1>1, <1>2, <1>3, PostSteps

(* A write of a post lands in its own message. *)
LEMMA MineAfterPut ==
  ASSUME TypeOK, Placed, NEW p \in Posters, pc[p] \in OwnStages,
         NEW msg, NEW s, Put(p, msg, s)
  PROVE  Mine(p)' = msg /\ pc'[p] = s
  BY DEF TypeOK, Placed, Put, Mine, Goto, Children

(* A post writes each of its files once. *)
LEMMA UnwrittenPost ==
  ASSUME SInv, NEW p \in Posters, Post(p)
  PROVE  UnwrittenBy(p)'
<1> USE BoardAssumption DEF SInv
<1>s. \A s : Goto(p, s) => pc'[p] = s
  BY DEF TypeOK, Goto, Children
<1>k. UNCHANGED <<store, msgDir>> => Mine(p)' = Mine(p)
  BY DEF Mine
<1>u. UnwrittenBy(p)
  BY DEF Unwritten
<1>m. pc[p] \in OwnStages => Mine(p) \in Message
  BY DEF Mine, Placed, TypeOK
<1>1. CASE ReadHeader(p) \/ CheckGroup(p) \/ CountMessages(p)
  BY <1>1, <1>s DEF ReadHeader, CheckGroup, CountMessages, UnwrittenBy, OwnStages
<1>2. CASE MakeMessageDir(p)
  <2>1. CASE MakesDir(p)
    <3>1. Mine(p)' = NewMessage
      BY <2>1 DEF MakesDir, Mine, TypeOK
    <3> QED
      BY <3>1 DEF UnwrittenBy, NewMessage
  <2>2. CASE Goto(p, "failed")
    BY <2>2, <1>s DEF UnwrittenBy, OwnStages
  <2> QED
    BY <1>2, <2>1, <2>2 DEF MakeMessageDir, MkdirPossible, MakesDir, NokOverUdp, CannotCreate, Goto
<1>f. CannotCreate(p) => UnwrittenBy(p)'
  BY <1>s DEF CannotCreate, NokOverUdp, UnwrittenBy, OwnStages
<1>3. CASE CreateAuthor(p)
  BY <1>3, <1>f, <1>u, <1>m, MineAfterPut DEF CreateAuthor, UnwrittenBy, OwnStages, Message
<1>4. CASE WriteAuthor(p)
  BY <1>4, <1>s, <1>k, <1>u, <1>m, MineAfterPut DEF WriteAuthor, FlushLost, UnwrittenBy, OwnStages, Message
<1>5. CASE CreateText(p)
  BY <1>5, <1>f, <1>u, <1>m, MineAfterPut DEF CreateText, UnwrittenBy, OwnStages, Message
<1>6. CASE WriteText(p)
  BY <1>6, <1>s, <1>k, <1>u, <1>m, MineAfterPut DEF WriteText, FlushLost, UnwrittenBy, OwnStages, Message
<1>7. CASE ReadTrailer(p) \/ ReadData(p) \/ SendMid(p)
  BY <1>7, <1>s, <1>k, <1>u DEF ReadTrailer, ReadData, SendMid, UnwrittenBy, OwnStages
<1>8. CASE MakeFileDir(p)
  BY <1>8, <1>f, <1>u, <1>m, MineAfterPut DEF MakeFileDir, UnwrittenBy, OwnStages, Message
<1>9. CASE CreateData(p)
  BY <1>9, <1>s, <1>u, <1>m, MineAfterPut DEF CreateData, UnwrittenBy, OwnStages, Message
<1>10. CASE WriteData(p)
  BY <1>10, <1>s, <1>k, <1>u, <1>m, MineAfterPut DEF WriteData, FlushLost, UnwrittenBy, OwnStages, Message
<1> QED
  BY <1>1, <1>2, <1>3, <1>4, <1>5, <1>6, <1>7, <1>8, <1>9, <1>10 DEF Post

(* The steps of others do not write in the files of a post. *)
LEMMA UnwrittenNext ==
  ASSUME SInv, [Next]_vars
  PROVE  Unwritten'
<1> USE DEF SInv
<1>1. CASE Elsewhere
  BY <1>1 DEF Elsewhere, Unwritten, UnwrittenBy, OwnStages, Mine
<1>2. ASSUME NEW p \in Posters, Post(p) PROVE Unwritten'
  <2>1. UnwrittenBy(p)'
    BY <1>2, UnwrittenPost
  <2>2. ASSUME NEW q \in Posters \ {p} PROVE UnwrittenBy(q)'
    <3>1. pc'[q] = pc[q]
      BY <1>2, PostSteps
    <3>2. pc[q] \in OwnStages => Mine(q)' = Mine(q)
      BY <1>2, OthersKept DEF Placed
    <3> QED
      BY <3>1, <3>2 DEF Unwritten, UnwrittenBy, OwnStages
  <2> QED
    BY <2>1, <2>2 DEF Unwritten
<1> QED
  BY <1>1, <1>2, OtherSteps

(***************************************************************************)
(* The invariant and what follows from it.                                 *)
(***************************************************************************)
(* The structural invariant holds at the start. *)
LEMMA SInvInit == Init => SInv
<1> SUFFICES ASSUME Init PROVE SInv
  OBVIOUS
<1>1. DOMAIN store = 1..0
  BY DEF Init
<1>2. \A p \in Posters : pc[p] = "idle" /\ msgDir[p] = 0
  BY DEF Init, Children
<1>3. Contiguous
  BY <1>1, <1>2 DEF Contiguous
<1>4. Placed /\ Unwritten
  BY <1>2 DEF Placed, Unwritten, UnwrittenBy, OwnStages, Init
<1>5. Listed
  BY DEF Init, Listed, NewReader, Children
<1> QED
  BY <1>3, <1>4, <1>5, TypeInit DEF SInv

(* The invariant that the theorems of this module rest on. *)
THEOREM Structure == Spec => []SInv
<1>1. SInv /\ [Next]_vars => SInv'
  BY TypeNext, ContiguousNext, PlacedNext, UnwrittenNext, ListedNext DEF SInv
<1> QED
  BY <1>1, SInvInit, PTL DEF Spec

(* Whatever fails and whoever races, every child is at a stage of its      *)
(* program and every message directory holds files of the known kinds.     *)
THEOREM TypeCorrect == Spec => []TypeOK
<1>1. SInv => TypeOK
  BY DEF SInv
<1> QED
  BY <1>1, Structure, PTL

(* Whatever fails and whoever races, the MIDs of a group are 1..n.         *)
THEOREM MidsAreContiguous == Spec => []MidsContiguous
<1>1. SInv => MidsContiguous
  BY FS_Interval DEF SInv, Contiguous, MidsContiguous
<1> QED
  BY <1>1, Structure, PTL

(***************************************************************************)
(* What a post has written is never replaced.                              *)
(***************************************************************************)

(* A message still holds all that was of a post in it. *)
Holds(old, new) ==
  \A f \in {"author", "text", "file"} : old[f] \in Posters => new[f] = old[f]

(* The steps of others leave the directory of a post alone. *)
LEMMA OwnKept ==
  ASSUME SInv, NEW p \in Posters, Post(p), pc[p] \in OwnStages
  PROVE  Holds(Mine(p), Mine(p)')
<1> USE BoardAssumption DEF SInv
<1>k. UNCHANGED <<store, msgDir>> => Mine(p)' = Mine(p)
  BY DEF Mine
<1>u. UnwrittenBy(p)
  BY DEF Unwritten
<1>m. Mine(p) \in Message
  BY DEF Mine, Placed, TypeOK
<1> USE DEF Holds, CannotCreate, NokOverUdp, FlushLost, Message
<1>1. CASE ReadHeader(p) \/ CheckGroup(p) \/ CountMessages(p) \/ MakeMessageDir(p)
  BY <1>1 DEF ReadHeader, CheckGroup, CountMessages, MakeMessageDir, OwnStages
<1>2. CASE CreateAuthor(p)
  BY <1>2, <1>k, <1>u, <1>m, MineAfterPut DEF CreateAuthor, UnwrittenBy, OwnStages
<1>3. CASE WriteAuthor(p)
  BY <1>3, <1>k, <1>u, <1>m, MineAfterPut DEF WriteAuthor, UnwrittenBy, OwnStages
<1>4. CASE CreateText(p)
  BY <1>4, <1>k, <1>u, <1>m, MineAfterPut DEF CreateText, UnwrittenBy, OwnStages
<1>5. CASE WriteText(p)
  BY <1>5, <1>k, <1>u, <1>m, MineAfterPut DEF WriteText, UnwrittenBy, OwnStages
<1>6. CASE ReadTrailer(p) \/ ReadData(p) \/ SendMid(p)
  BY <1>6, <1>k DEF ReadTrailer, ReadData, SendMid
<1>7. CASE MakeFileDir(p)
  BY <1>7, <1>k, <1>u, <1>m, MineAfterPut DEF MakeFileDir, UnwrittenBy, OwnStages
<1>8. CASE CreateData(p)
  BY <1>8, <1>k, <1>u, <1>m, MineAfterPut DEF CreateData, UnwrittenBy, OwnStages
<1>9. CASE WriteData(p)
  BY <1>9, <1>k, <1>u, <1>m, MineAfterPut DEF WriteData, UnwrittenBy, OwnStages
<1> QED
  BY <1>1, <1>2, <1>3, <1>4, <1>5, <1>6, <1>7, <1>8, <1>9 DEF Post

(* Every step keeps every message that exists. *)
LEMMA MessagesKept ==
  ASSUME SInv, [Next]_vars, NEW m \in DOMAIN store
  PROVE  m \in DOMAIN store' /\ Holds(store[m], store'[m])
<1> USE DEF SInv
<1>1. CASE Elsewhere
  BY <1>1 DEF Elsewhere, Holds
<1>2. ASSUME NEW p \in Posters, Post(p)
      PROVE  m \in DOMAIN store' /\ Holds(store[m], store'[m])
  <2>1. CASE MakesDir(p) \/ Moves(p)
    BY <2>1 DEF MakesDir, Moves, Holds
  <2>2. CASE Writes(p) /\ m # msgDir[p]
    BY <2>2 DEF Writes, Holds
  <2>3. CASE Writes(p) /\ m = msgDir[p]
    <3>1. Holds(Mine(p), Mine(p)') /\ msgDir' = msgDir /\ DOMAIN store' = DOMAIN store
      BY <1>2, <2>3, OwnKept DEF Writes
    <3> QED
      BY <2>3, <3>1 DEF Mine
  <2> QED
    BY <1>2, <2>1, <2>2, <2>3, PostSteps
<1> QED
  BY <1>1, <1>2, OtherSteps

(* Whatever fails and whoever races, a file written by a post stays as the *)
(* post wrote it.                                                          *)
THEOREM NothingIsReplaced == Spec => WrittenOnce
<1>1. SInv /\ [Next]_vars =>
        [\A m \in DOMAIN store :
           /\ m \in DOMAIN store'
           /\ \A f \in DOMAIN store[m] :
                store[m][f] \in Posters => store'[m][f] = store[m][f]]_vars
  <2> SUFFICES ASSUME SInv, [Next]_vars, NEW m \in DOMAIN store
               PROVE  /\ m \in DOMAIN store'
                      /\ \A f \in DOMAIN store[m] :
                           store[m][f] \in Posters => store'[m][f] = store[m][f]
    OBVIOUS
  <2>1. DOMAIN store[m] = {"author", "text", "file"}
    BY DEF SInv, TypeOK, Message
  <2> QED
    BY <2>1, MessagesKept DEF Holds
<1> QED
  BY <1>1, Structure, PTL DEF Spec, WrittenOnce

(***************************************************************************)
(* An acknowledged post is whole, when no buffered write is lost.          *)
(***************************************************************************)

(* What the message of a post whose client is there holds at each stage. *)
Draft(p) ==
  CASE pc[p] = "author"  -> NewMessage
    [] pc[p] = "author+" -> [author |-> Partial, text |-> Absent, file |-> NoDir]
    [] pc[p] = "text"    -> [author |-> p, text |-> Absent, file |-> NoDir]
    [] pc[p] = "text+"   -> [author |-> p, text |-> Partial, file |-> NoDir]
    [] pc[p] \in {"trailer", "filedir"}
                         -> [author |-> p, text |-> p, file |-> NoDir]
    [] pc[p] \in {"data", "attach"}
                         -> [author |-> p, text |-> p, file |-> Absent]
    [] pc[p] = "attach+" -> [author |-> p, text |-> p, file |-> Partial]
    [] OTHER             -> Whole(p)

(* How much of the request had come for the post to be where it is. *)
Received(p) ==
  /\ pc[p] \in {"check", "scan", "mkdir"} \cup OwnStages =>
       client[p] = "gone" \/ upload[p] # "none"
  /\ upload[p] = "name" => p \in WithFile
  /\ pc[p] \in {"filedir", "data", "attach", "attach+"} =>
       client[p] = "gone" \/ p \in WithFile
  /\ pc[p] \in {"attach", "attach+"} => client[p] = "gone" \/ upload[p] = "all"

Drafted(p) == pc[p] \in OwnStages /\ client[p] # "gone" => Mine(p) = Draft(p)

Answered(p) ==
  reply[p] = "OK" => pc[p] = "done" /\ msgDir[p] # 0 /\ Mine(p) = Whole(p)

Sound(p) == Received(p) /\ Drafted(p) /\ Answered(p)

AInv == SInv /\ \A p \in Posters : Sound(p)

(* A post that is not cut short builds its whole message. *)
LEMMA SoundPost ==
  ASSUME AInv, "flush" \notin Faults, NEW p \in Posters, Post(p)
  PROVE  Sound(p)'
<1> USE BoardAssumption DEF AInv, SInv
<1>s. \A s : Goto(p, s) => pc'[p] = s
  BY DEF TypeOK, Goto, Children
<1>k. UNCHANGED <<store, msgDir>> => Mine(p)' = Mine(p)
  BY DEF Mine
<1>a. Sound(p) /\ (pc[p] # "done" => reply[p] # "OK")
  BY DEF Sound, Answered
<1>m. pc[p] \in OwnStages => Mine(p) \in Message /\ msgDir[p] # 0
  BY DEF Mine, Placed, TypeOK
<1>g. client' = client /\ upload' = upload
  BY DEF Post, ReadHeader, CheckGroup, CountMessages, MakeMessageDir, CreateAuthor,
         WriteAuthor, CreateText, WriteText, ReadTrailer, MakeFileDir, ReadData,
         CreateData, WriteData, SendMid, PostFrame
<1>f. CannotCreate(p) /\ reply' = reply /\ pc[p] # "done" => Sound(p)'
  BY <1>s, <1>a, <1>g DEF CannotCreate, NokOverUdp, Sound, Received, Drafted, Answered, OwnStages
<1> USE <1>a, <1>g DEF Sound, Received, Drafted, Answered, OwnStages
<1>1. CASE ReadHeader(p) \/ CheckGroup(p) \/ CountMessages(p)
  BY <1>1, <1>s DEF ReadHeader, CheckGroup, CountMessages, Respond, TypeOK, Children
<1>2. CASE MakeMessageDir(p)
  <2>1. CASE MakesDir(p)
    <3>1. Mine(p)' = NewMessage
      BY <2>1 DEF MakesDir, Mine, TypeOK
    <3> QED
      BY <1>2, <1>s, <2>1, <3>1 DEF MakeMessageDir, MakesDir, Draft, Goto
  <2>2. CASE Goto(p, "failed")
    BY <1>2, <2>2, <1>s DEF MakeMessageDir
  <2> QED
    BY <1>2, <2>1, <2>2 DEF MakeMessageDir, MkdirPossible, MakesDir, NokOverUdp, CannotCreate, Goto
<1>3. CASE CreateAuthor(p)
  BY <1>3, <1>f, <1>m, MineAfterPut DEF CreateAuthor, Draft, NewMessage
<1>4. CASE WriteAuthor(p)
  BY <1>4, <1>m, MineAfterPut DEF WriteAuthor, FlushLost, Draft
<1>5. CASE CreateText(p)
  BY <1>5, <1>f, <1>m, MineAfterPut DEF CreateText, Draft
<1>6. CASE WriteText(p)
  BY <1>6, <1>m, MineAfterPut DEF WriteText, FlushLost, Draft
<1>7. CASE ReadTrailer(p)
  BY <1>7, <1>k, <1>s DEF ReadTrailer, TrailerSaysFile, Draft, Whole, TypeOK
<1>8. CASE MakeFileDir(p)
  BY <1>8, <1>f, <1>m, MineAfterPut DEF MakeFileDir, Draft
<1>9. CASE ReadData(p)
  BY <1>9, <1>k, <1>s DEF ReadData, Draft
<1>10. CASE CreateData(p)
  BY <1>10, <1>s, <1>m, MineAfterPut DEF CreateData, Draft
<1>11. CASE WriteData(p)
  BY <1>11, <1>m, MineAfterPut DEF WriteData, FlushLost, Draft, Whole
<1>12. CASE SendMid(p)
  BY <1>12, <1>k, <1>s, <1>m DEF SendMid, Respond, Draft, TypeOK, Children
<1> QED
  BY <1>1, <1>2, <1>3, <1>4, <1>5, <1>6, <1>7, <1>8, <1>9, <1>10, <1>11, <1>12 DEF Post

(* A step of p leaves the other posts as they are. *)
LEMMA SoundOthers ==
  ASSUME AInv, NEW p \in Posters, Post(p), NEW q \in Posters \ {p}
  PROVE  Sound(q)'
<1> USE BoardAssumption DEF AInv, SInv
<1>1. client'[q] = client[q] /\ upload'[q] = upload[q] /\ reply'[q] = reply[q]
  <2> USE DEF TypeOK, Children, PostFrame
  <2>1. CASE ReadHeader(p) \/ CheckGroup(p) \/ CountMessages(p) \/ MakeMessageDir(p)
    BY <2>1 DEF ReadHeader, CheckGroup, CountMessages, MakeMessageDir, Respond
  <2>2. CASE CreateAuthor(p) \/ WriteAuthor(p) \/ CreateText(p) \/ WriteText(p)
    BY <2>2 DEF CreateAuthor, WriteAuthor, CreateText, WriteText
  <2>3. CASE ReadTrailer(p) \/ ReadData(p) \/ SendMid(p)
    BY <2>3 DEF ReadTrailer, ReadData, SendMid, Respond
  <2>4. CASE MakeFileDir(p) \/ CreateData(p) \/ WriteData(p)
    BY <2>4 DEF MakeFileDir, CreateData, WriteData
  <2> QED
    BY <2>1, <2>2, <2>3, <2>4 DEF Post
<1>2. pc'[q] = pc[q]
  BY PostSteps
<1>3. msgDir[q] # 0 => msgDir'[q] = msgDir[q] /\ Mine(q)' = Mine(q)
  BY OthersKept
<1>4. pc[q] \in OwnStages => msgDir[q] # 0
  BY DEF Placed
<1> QED
  BY <1>1, <1>2, <1>3, <1>4 DEF Sound, Received, Drafted, Draft, Answered, OwnStages

(* A client that has closed its connection is not heard of again. *)
LEMMA Deserted ==
  ASSUME TypeOK, NEW c \in Children, Hangup(c) \/ Desert(c)
  PROVE  /\ UNCHANGED <<group, making, store, pc, upload, msgId, msgDir, reply, rd>>
         /\ \A k \in Children : client[k] = "gone" => client'[k] = "gone"
<1> PICK state \in {"silent", "gone"} : Becomes(c, state)
  BY DEF Hangup, Desert
<1> QED
  BY DEF Becomes, TypeOK

(* What a post has built stays as it is until it has answered. *)
LEMMA SoundNext ==
  ASSUME AInv, "flush" \notin Faults, [Next]_vars
  PROVE  \A q \in Posters : Sound(q)'
<1> SUFFICES ASSUME NEW q \in Posters PROVE Sound(q)'
  OBVIOUS
<1> USE BoardAssumption DEF AInv, SInv
<1>s. Sound(q)
  OBVIOUS
<1>k. UNCHANGED <<store, msgDir>> => Mine(q)' = Mine(q)
  BY DEF Mine
<1> USE DEF Sound, Received, Drafted, Draft, Answered, OwnStages
<1>1. CASE MakeGroup \/ MakeMsg \/ UNCHANGED vars
  BY <1>1, <1>k, <1>s DEF MakeGroup, MakeMsg, vars
<1>2. CASE Interrupt
  <2>1. pc'[q] = pc[q] \/ (pc'[q] = "killed" /\ pc[q] # "done")
    BY <1>2 DEF Interrupt, Alive, Ended, Children
  <2> QED
    BY <1>2, <2>1, <1>k, <1>s DEF Interrupt
<1>3. ASSUME NEW p \in Posters, AcceptPost(p) PROVE Sound(q)'
  BY <1>3, <1>k, <1>s DEF AcceptPost, Goto, TypeOK, Children
<1>4. ASSUME NEW p \in Children, Upload(p) PROVE Sound(q)'
  BY <1>4, <1>k, <1>s DEF Upload, TypeOK
<1>5. ASSUME NEW p \in Children, Hangup(p) \/ Desert(p) PROVE Sound(q)'
  <2>1. /\ UNCHANGED <<store, pc, upload, msgDir, reply>>
        /\ client[q] = "gone" => client'[q] = "gone"
    BY <1>5, Deserted DEF Children
  <2> QED
    BY <2>1, <1>k, <1>s
<1>6. ASSUME NEW p \in Posters, Post(p) PROVE Sound(q)'
  <2>1. CASE q = p
    BY <1>6, <2>1, SoundPost
  <2>2. CASE q # p
    BY <1>6, <2>2, SoundOthers
  <2> QED
    BY <2>1, <2>2
<1>7. ASSUME NEW r \in Readers, AcceptRetrieve(r) \/ Retrieve(r) PROVE Sound(q)'
  <2>1. /\ UNCHANGED <<store, upload, client, msgDir>>
        /\ pc'[q] = pc[q] /\ reply'[q] = reply[q]
    BY <1>7, BoardAssumption, ReaderKeeps DEF ReaderFrame, Children
  <2> QED
    BY <2>1, <1>k, <1>s
<1> QED
  BY <1>1, <1>2, <1>3, <1>4, <1>5, <1>6, <1>7 DEF Next, Children

(* The structural invariant is inductive. *)
LEMMA SInvNext == ASSUME SInv, [Next]_vars PROVE SInv'
  BY TypeNext, ContiguousNext, PlacedNext, UnwrittenNext, ListedNext DEF SInv

(* And so is the invariant about what posts have built. *)
LEMMA AInvInit == Init => AInv
<1>1. Init => \A p \in Posters : pc[p] = "idle" /\ reply[p] = "none" /\ upload[p] = "none"
  BY DEF Init, Children
<1> QED
  BY <1>1, SInvInit DEF AInv, Sound, Received, Drafted, Answered, OwnStages

LEMMA AInvNext == ASSUME "flush" \notin Faults, AInv, [Next]_vars PROVE AInv'
  BY SInvNext, SoundNext DEF AInv

(* The steps that are not of a post change no message and answer no post. *)
LEMMA OthersUnseen ==
  ASSUME TypeOK, [Next]_vars
  PROVE  \/ \E p \in Posters : Post(p)
         \/ UNCHANGED <<store, msgDir>> /\ \A p \in Posters : reply'[p] = reply[p]
<1> USE BoardAssumption DEF Children, TypeOK
<1>1. CASE MakeGroup \/ MakeMsg \/ Interrupt \/ UNCHANGED vars
  BY <1>1 DEF MakeGroup, MakeMsg, Interrupt, vars
<1>2. ASSUME NEW p \in Children, Outside(p)
      PROVE  UNCHANGED <<store, msgDir, reply>>
  BY <1>2 DEF Outside, AcceptPost, Upload, Hangup, Desert, Becomes
<1>3. ASSUME NEW r \in Readers, AcceptRetrieve(r) \/ Retrieve(r)
      PROVE  UNCHANGED <<store, msgDir>> /\ \A p \in Posters : reply'[p] = reply[p]
  BY <1>3, ReaderKeeps DEF ReaderFrame
<1> QED
  BY <1>1, <1>2, <1>3 DEF Next, Outside

(* A post answers once, with the status of its whole message or with NOK.  *)
LEMMA PostAnswers ==
  ASSUME TypeOK, NEW p \in Posters, Post(p)
  PROVE  \/ reply' = reply
         \/ CheckGroup(p) /\ reply' = [reply EXCEPT ![p] = "NOK"]
         \/ SendMid(p) /\ reply' = [reply EXCEPT ![p] = "OK"]
  BY DEF Post, ReadHeader, CheckGroup, CountMessages, MakeMessageDir, CreateAuthor,
         WriteAuthor, CreateText, WriteText, ReadTrailer, MakeFileDir, ReadData,
         CreateData, WriteData, SendMid, PostFrame, Respond

(* If the disk keeps what is written to it, a post whose client was told   *)
(* "RPT <MID>" is whole in MSG/<MID> from then on, whatever races, hangs   *)
(* up, runs out of space or is killed.                                     *)
THEOREM AckedStaysIntact ==
  ASSUME "flush" \notin Faults
  PROVE  Spec => []AckedIntact
<1>1. AInv /\ [Next]_vars => AInv'
  BY AInvNext
<1>2. AInv => AckedIntact
  BY DEF AInv, SInv, Placed, Sound, Answered, AckedIntact, Mine
<1> QED
  BY <1>1, <1>2, AInvInit, PTL DEF Spec

(***************************************************************************)
(* Whose files are in a message directory, any fault allowed.              *)
(***************************************************************************)

(* The stages of a post before it has made its directory. *)
Before == {"idle", "header", "check", "scan", "mkdir"}

Unplaced == \A p \in Posters : pc[p] \in Before => msgDir[p] = 0

(* What a message holds of a post is in the directory that the post made. *)
Signed == \A m \in DOMAIN store : \A q \in Authors(store[m]) : msgDir[q] = m

OInv == SInv /\ Unplaced /\ Signed

(* No step leads a post back before its mkdir. *)
LEMMA NeverBack ==
  ASSUME TypeOK, NEW p \in Posters, Post(p), pc'[p] \in Before
  PROVE  pc[p] \in Before /\ UNCHANGED <<store, msgDir>>
<1> USE DEF TypeOK, Children, Goto, Before, NokOverUdp, CannotCreate, Put, FlushLost
<1>1. CASE ReadHeader(p) \/ CheckGroup(p) \/ CountMessages(p) \/ MakeMessageDir(p)
  BY <1>1 DEF ReadHeader, CheckGroup, CountMessages, MakeMessageDir
<1>2. CASE CreateAuthor(p) \/ WriteAuthor(p) \/ CreateText(p) \/ WriteText(p)
  BY <1>2 DEF CreateAuthor, WriteAuthor, CreateText, WriteText
<1>3. CASE ReadTrailer(p) \/ ReadData(p) \/ SendMid(p)
  BY <1>3 DEF ReadTrailer, ReadData, SendMid
<1>4. CASE MakeFileDir(p) \/ CreateData(p) \/ WriteData(p)
  BY <1>4 DEF MakeFileDir, CreateData, WriteData
<1> QED
  BY <1>1, <1>2, <1>3, <1>4 DEF Post

(* A post that has yet to make its directory has none. *)
LEMMA UnplacedNext == ASSUME SInv, Unplaced, [Next]_vars PROVE Unplaced'
<1>1. CASE \E p \in Posters : Post(p)
  <2> PICK p \in Posters : Post(p)
    BY <1>1
  <2>1. pc'[p] \in Before => msgDir'[p] = 0
    BY NeverBack DEF SInv, Unplaced
  <2>2. \A q \in Posters \ {p} : pc'[q] = pc[q]
    BY PostSteps DEF SInv
  <2>3. \A q \in Posters \ {p} : msgDir'[q] = msgDir[q]
    <3>1. msgDir' = msgDir \/ msgDir' = [msgDir EXCEPT ![p] = msgId[p]]
      BY PostSteps DEF SInv, MakesDir, Writes, Moves
    <3> QED
      BY <3>1 DEF SInv, TypeOK
  <2> QED
    BY <2>1, <2>2, <2>3 DEF Unplaced
<1>2. CASE Elsewhere
  <2> SUFFICES ASSUME NEW p \in Posters, pc'[p] \in Before PROVE msgDir[p] = 0
    BY <1>2 DEF Elsewhere, Unplaced
  <2> pc[p] \in Before
    BY <1>2 DEF Elsewhere, Before
  <2> QED
    BY DEF Unplaced
<1> QED
  BY <1>1, <1>2, OtherSteps DEF SInv

(* A post adds itself to its own message, and nobody else. *)
LEMMA OwnAuthors ==
  ASSUME SInv, NEW p \in Posters, Post(p), pc[p] \in OwnStages
  PROVE  Authors(Mine(p))' \subseteq Authors(Mine(p)) \cup {p}
<1> USE BoardAssumption DEF SInv
<1>k. UNCHANGED <<store, msgDir>> => Mine(p)' = Mine(p)
  BY DEF Mine
<1>m. Mine(p) \in Message
  BY DEF Mine, Placed, TypeOK
<1> USE DEF Authors, CannotCreate, NokOverUdp, FlushLost, Message
<1>1. CASE ReadHeader(p) \/ CheckGroup(p) \/ CountMessages(p) \/ MakeMessageDir(p)
  BY <1>1 DEF ReadHeader, CheckGroup, CountMessages, MakeMessageDir, OwnStages
<1>2. CASE CreateAuthor(p)
  BY <1>2, <1>k, <1>m, MineAfterPut DEF CreateAuthor
<1>3. CASE WriteAuthor(p)
  BY <1>3, <1>k, <1>m, MineAfterPut DEF WriteAuthor
<1>4. CASE CreateText(p)
  BY <1>4, <1>k, <1>m, MineAfterPut DEF CreateText
<1>5. CASE WriteText(p)
  BY <1>5, <1>k, <1>m, MineAfterPut DEF WriteText
<1>6. CASE ReadTrailer(p) \/ ReadData(p) \/ SendMid(p)
  BY <1>6, <1>k DEF ReadTrailer, ReadData, SendMid
<1>7. CASE MakeFileDir(p)
  BY <1>7, <1>k, <1>m, MineAfterPut DEF MakeFileDir
<1>8. CASE CreateData(p)
  BY <1>8, <1>k, <1>m, MineAfterPut DEF CreateData
<1>9. CASE WriteData(p)
  BY <1>9, <1>k, <1>m, MineAfterPut DEF WriteData
<1> QED
  BY <1>1, <1>2, <1>3, <1>4, <1>5, <1>6, <1>7, <1>8, <1>9 DEF Post

(* What a message holds stays that of its post. *)
LEMMA SignedNext == ASSUME OInv, [Next]_vars PROVE Signed'
<1> USE DEF OInv, SInv
<1>1. CASE Elsewhere
  BY <1>1 DEF Elsewhere, Signed
<1>2. ASSUME NEW p \in Posters, Post(p) PROVE Signed'
  <2>1. CASE MakesDir(p)
    <3>1. msgDir[p] = 0
      BY <2>1 DEF MakesDir, Unplaced, Before
    <3>2. DOMAIN store' = DOMAIN store \cup {msgId[p]} /\ Authors(store'[msgId[p]]) = {}
      BY <2>1, BoardAssumption DEF MakesDir, Authors, NewMessage
    <3>3. ASSUME NEW m \in DOMAIN store, NEW q \in Authors(store'[m]), m # msgId[p]
          PROVE  msgDir'[q] = m
      <4>1. store'[m] = store[m] /\ q \in Posters
        BY <2>1, <3>3 DEF MakesDir, Authors
      <4>2. msgDir[q] = m /\ m # 0
        BY <3>3, <4>1 DEF Signed, TypeOK
      <4> QED
        BY <2>1, <3>1, <4>1, <4>2 DEF MakesDir, TypeOK
    <3> QED
      BY <3>2, <3>3 DEF Signed
  <2>2. CASE Writes(p)
    <3>1. Authors(Mine(p))' \subseteq Authors(Mine(p)) \cup {p} /\ msgDir[p] \in DOMAIN store
      BY <1>2, <2>2, OwnAuthors DEF Writes, Placed
    <3>2. /\ DOMAIN store' = DOMAIN store /\ msgDir' = msgDir
          /\ \A m \in DOMAIN store : m # msgDir[p] => store'[m] = store[m]
      BY <2>2 DEF Writes
    <3> QED
      BY <3>1, <3>2 DEF Signed, Mine
  <2>3. CASE Moves(p)
    BY <2>3 DEF Moves, Signed
  <2> QED
    BY <1>2, <2>1, <2>2, <2>3, PostSteps
<1> QED
  BY <1>1, <1>2, OtherSteps

(* Whatever fails and whoever races, no message directory holds files of   *)
(* two posts (NoMixing).                                                   *)
THEOREM MessagesAreUnmixed == Spec => []NoMixing
<1>1. Init => OInv
  <2>1. Init => \A p \in Posters : msgDir[p] = 0
    BY DEF Init
  <2> QED
    BY <2>1, SInvInit DEF OInv, Unplaced, Signed, Init
<1>2. OInv /\ [Next]_vars => OInv'
  BY SInvNext, UnplacedNext, SignedNext DEF OInv
<1>3. OInv => NoMixing
  <2> SUFFICES ASSUME OInv, NEW m \in DOMAIN store
               PROVE  Cardinality(Authors(store[m])) <= 1
    BY DEF NoMixing
  <2>1. CASE Authors(store[m]) = {}
    BY <2>1, FS_EmptySet
  <2>2. ASSUME NEW q \in Authors(store[m]) PROVE Cardinality(Authors(store[m])) <= 1
    <3>1. m # 0 /\ Authors(store[m]) \subseteq Posters
      BY DEF OInv, SInv, TypeOK, Authors
    <3>2. Authors(store[m]) = {q}
      BY <2>2, <3>1 DEF OInv, Signed, SInv, Placed
    <3> QED
      BY <3>2, FS_Singleton
  <2> QED
    BY <2>1, <2>2
<1> QED
  BY <1>1, <1>2, <1>3, PTL DEF Spec
=============================================================================
