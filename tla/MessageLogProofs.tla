--------------------------- MODULE MessageLogProofs ---------------------------
(***************************************************************************)
(* Theorems about what the message directory promises to those who post:   *)
(* it has no holes, and it implements the log.                             *)
(***************************************************************************)
EXTENDS MessageBoardProofs

(***************************************************************************)
(* No holes, when no call fails and no client hangs up.                    *)
(***************************************************************************)

(* The children are killed at most. *)
Quiet == Faults \cap {"create", "flush", "hangup"} = {}

(* Nothing cuts a post short but its being killed, and one that has ended  *)
(* and has a message has written all of it.                                *)
Finished(p) ==
  /\ client[p] # "gone" /\ pc[p] \notin {"spin", "crashed"}
  /\ pc[p] \in {"done", "failed"} /\ msgDir[p] # 0 => Mine(p) = Whole(p)

(* Every message directory is that of a post. *)
Owned == \A m \in DOMAIN store : \E p \in Posters : msgDir[p] = m

NInv == AInv /\ Unplaced /\ Owned /\ \A p \in Posters : Finished(p)

(* A post ends with its message whole, or without one. *)
LEMMA FinishedPost ==
  ASSUME NInv, Quiet, NEW p \in Posters, Post(p)
  PROVE  Finished(p)'
<1> USE BoardAssumption DEF NInv, AInv, SInv
<1>s. \A s : Goto(p, s) => pc'[p] = s
  BY DEF TypeOK, Goto, Children
<1>k. UNCHANGED <<store, msgDir>> => Mine(p)' = Mine(p)
  BY DEF Mine
<1>g. client' = client /\ client[p] # "gone"
  BY DEF Finished, Post, ReadHeader, CheckGroup, CountMessages, MakeMessageDir, CreateAuthor,
         WriteAuthor, CreateText, WriteText, ReadTrailer, MakeFileDir, ReadData,
         CreateData, WriteData, SendMid, PostFrame
<1>b. pc[p] \in Before => msgDir[p] = 0
  BY DEF Unplaced
<1>f. ~CannotCreate(p) /\ \A s : ~FlushLost(p, s)
  BY DEF Quiet, CannotCreate, FlushLost
<1> USE <1>g DEF Finished
<1>1. CASE ReadHeader(p) \/ CheckGroup(p) \/ CountMessages(p)
  BY <1>1, <1>s, <1>b DEF ReadHeader, CheckGroup, CountMessages, Before
<1>2. CASE MakeMessageDir(p)
  <2>1. CASE Goto(p, "author")
    BY <2>1, <1>s
  <2>2. CASE NokOverUdp(p)
    BY <1>2, <2>2, <1>s, <1>b DEF MakeMessageDir, NokOverUdp, Before
  <2> QED
    BY <1>2, <1>f, <2>1, <2>2 DEF MakeMessageDir
<1>3. CASE CreateAuthor(p) \/ WriteAuthor(p) \/ CreateText(p) \/ WriteText(p)
  BY <1>3, <1>f, <1>s DEF CreateAuthor, WriteAuthor, CreateText, WriteText, Put
<1>4. CASE ReadTrailer(p) \/ ReadData(p)
  BY <1>4, <1>s DEF ReadTrailer, ReadData
<1>5. CASE MakeFileDir(p) \/ WriteData(p)
  BY <1>5, <1>f, <1>s DEF MakeFileDir, WriteData, Put
<1>c. CASE CreateData(p)
  <2>1. Goto(p, "attach+")
    BY <1>c DEF CreateData, Put, Quiet
  <2> QED
    BY <2>1, <1>s
<1>6. CASE SendMid(p)
  <2>1. Mine(p) = Whole(p)
    BY <1>6 DEF SendMid, Sound, Drafted, Draft, OwnStages
  <2>2. Mine(p)' = Mine(p) /\ pc'[p] = "done"
    BY <1>6, <1>k, <1>s DEF SendMid
  <2> QED
    BY <2>1, <2>2
<1> QED
  BY <1>1, <1>2, <1>3, <1>4, <1>5, <1>c, <1>6 DEF Post

(* The other steps undo nothing of it. *)
LEMMA FinishedNext ==
  ASSUME NInv, Quiet, [Next]_vars, NEW q \in Posters
  PROVE  Finished(q)'
<1> USE BoardAssumption DEF NInv, AInv, SInv
<1>k. UNCHANGED <<store, msgDir>> => Mine(q)' = Mine(q)
  BY DEF Mine
<1>1. ASSUME NEW p \in Posters, Post(p) PROVE Finished(q)'
  <2>1. CASE q = p
    BY <1>1, <2>1, FinishedPost
  <2>2. CASE q # p
    <3>1. pc'[q] = pc[q]
      BY <1>1, <2>2, PostSteps
    <3>2. msgDir[q] # 0 => msgDir'[q] = msgDir[q] /\ Mine(q)' = Mine(q)
      BY <1>1, <2>2, OthersKept
    <3>3. msgDir'[q] = msgDir[q]
      <4>1. msgDir' = msgDir \/ msgDir' = [msgDir EXCEPT ![p] = msgId[p]]
        BY <1>1, PostSteps DEF MakesDir, Writes, Moves
      <4> QED
        BY <4>1, <2>2 DEF TypeOK
    <3>4. client' = client
      BY <1>1 DEF Post, ReadHeader, CheckGroup, CountMessages, MakeMessageDir, CreateAuthor,
         WriteAuthor, CreateText, WriteText, ReadTrailer, MakeFileDir, ReadData,
         CreateData, WriteData, SendMid, PostFrame
    <3> QED
      BY <3>1, <3>2, <3>3, <3>4 DEF Finished
  <2> QED
    BY <2>1, <2>2
<1>2. CASE MakeGroup \/ MakeMsg \/ UNCHANGED vars
  BY <1>2, <1>k DEF MakeGroup, MakeMsg, vars, Finished
<1>3. CASE Interrupt
  BY <1>3, <1>k DEF Interrupt, Finished, Children
<1>4. ASSUME NEW p \in Posters, AcceptPost(p) \/ Upload(p) \/ Hangup(p)
      PROVE  Finished(q)'
  BY <1>4, <1>k DEF AcceptPost, Upload, Hangup, Quiet, Goto, Finished, TypeOK, Children
<1>6. ASSUME NEW r \in Readers, Upload(r) \/ Desert(r) PROVE Finished(q)'
  <2>1. UNCHANGED <<store, pc, msgDir>>
    BY <1>6 DEF Upload, Desert, Becomes
  <2>2. client'[q] = client[q]
    BY <1>6, BoardAssumption DEF Upload, Desert, Becomes, TypeOK, Children
  <2> QED
    BY <2>1, <2>2, <1>k DEF Finished
<1>5. ASSUME NEW r \in Readers, AcceptRetrieve(r) \/ Retrieve(r) PROVE Finished(q)'
  <2>1. UNCHANGED <<store, client, msgDir>> /\ pc'[q] = pc[q]
    BY <1>5, ReaderKeeps DEF ReaderFrame, Children
  <2> QED
    BY <2>1, <1>k DEF Finished
<1> QED
  BY <1>1, <1>2, <1>3, <1>4, <1>5, <1>6 DEF Next

(* Only a post makes a message directory, and it keeps it. *)
LEMMA OwnedNext == ASSUME SInv, Unplaced, Owned, [Next]_vars PROVE Owned'
<1> USE DEF SInv, Owned
<1>1. CASE Elsewhere
  BY <1>1 DEF Elsewhere
<1>2. ASSUME NEW p \in Posters, Post(p) PROVE Owned'
  <2>1. CASE MakesDir(p)
    <3>1. msgDir[p] = 0
      BY <2>1 DEF MakesDir, Unplaced, Before
    <3>2. /\ DOMAIN store' = DOMAIN store \cup {msgId[p]}
          /\ msgDir'[p] = msgId[p]
          /\ \A q \in Posters \ {p} : msgDir'[q] = msgDir[q]
      BY <2>1 DEF MakesDir, TypeOK
    <3> QED
      BY <3>1, <3>2 DEF TypeOK
  <2>2. CASE Writes(p) \/ Moves(p)
    BY <2>2 DEF Writes, Moves
  <2> QED
    BY <1>2, <2>1, <2>2, PostSteps
<1> QED
  BY <1>1, <1>2, OtherSteps

(* When no call fails, a message directory that is not whole belongs to a  *)
(* post that is at work or was killed: losing the race for a MID leaves    *)
(* none behind (NoHoles).                                                  *)
THEOREM NoHolesAreLeft ==
  ASSUME Faults \cap {"create", "flush", "hangup"} = {}
  PROVE  Spec => []NoHoles
<1>q. Quiet /\ "flush" \notin Faults
  BY DEF Quiet
<1>1. Init => NInv
  <2>1. Init => \A p \in Posters : msgDir[p] = 0 /\ client[p] = "there" /\ pc[p] = "idle"
    BY DEF Init, Children
  <2>2. Init => Owned
    BY DEF Init, Owned
  <2> QED
    BY <2>1, <2>2, AInvInit DEF NInv, Unplaced, Finished
<1>2. NInv /\ [Next]_vars => NInv'
  BY <1>q, AInvNext, UnplacedNext, OwnedNext, FinishedNext DEF NInv, AInv
<1>3. NInv => NoHoles
  <2> SUFFICES ASSUME NInv, NEW m \in DOMAIN store
               PROVE  \E p \in Posters :
                        /\ msgDir[p] = m
                        /\ Alive(p) \/ pc[p] = "killed" \/ store[m] = Whole(p)
    BY DEF NoHoles
  <2>1. PICK p \in Posters : msgDir[p] = m
    BY DEF NInv, Owned
  <2>2. m # 0 /\ pc[p] # "idle"
    BY <2>1 DEF NInv, AInv, SInv, TypeOK, Unplaced, Before
  <2> QED
    BY <2>1, <2>2 DEF NInv, Finished, Alive, Ended, Mine
<1> QED
  BY <1>1, <1>2, <1>3, PTL DEF Spec

(***************************************************************************)
(* The directory implements the log, when no buffered write is lost.       *)
(***************************************************************************)

(* What the log calls whole, and acknowledged. *)
Full(p) ==
  /\ msgDir[p] # 0
  /\ Mine(p).author = p /\ Mine(p).text = p
  /\ p \in WithFile => Mine(p).file = p

FullPosts  == {p \in Posters : Full(p)}
AckedPosts == {p \in Posters : reply[p] = "OK"}

(* The steps of the log, in the terms of the directory. *)
LEMMA LogTerms ==
  /\ (/\ Cardinality(DOMAIN store) = 0 /\ msgDir = [p \in Posters |-> 0]
      /\ FullPosts = {} /\ AckedPosts = {}) => Log!Init
  /\ (/\ Cardinality(DOMAIN store)' = Cardinality(DOMAIN store)
      /\ msgDir' = msgDir /\ FullPosts' = FullPosts /\ AckedPosts' = AckedPosts)
        => UNCHANGED Log!log
  /\ \A p \in Posters :
       (/\ msgDir[p] = 0
        /\ Cardinality(DOMAIN store)' = Cardinality(DOMAIN store) + 1
        /\ msgDir' = [msgDir EXCEPT ![p] = Cardinality(DOMAIN store) + 1]
        /\ FullPosts' = FullPosts /\ AckedPosts' = AckedPosts) => Log!Take(p)
  /\ \A p \in Posters :
       (/\ msgDir[p] # 0 /\ FullPosts' = FullPosts \cup {p}
        /\ Cardinality(DOMAIN store)' = Cardinality(DOMAIN store)
        /\ msgDir' = msgDir /\ AckedPosts' = AckedPosts) => Log!Complete(p)
  /\ \A p \in Posters :
       (/\ p \in FullPosts /\ AckedPosts' = AckedPosts \cup {p}
        /\ Cardinality(DOMAIN store)' = Cardinality(DOMAIN store)
        /\ msgDir' = msgDir /\ FullPosts' = FullPosts) => Log!Acknowledge(p)
  BY DEF Log!Init, Log!log, Log!Take, Log!Complete, Log!Acknowledge,
         FullPosts, Full, AckedPosts

(* A step of a post shows in its own message only. *)
LEMMA OthersFull ==
  ASSUME SInv, NEW p \in Posters, Post(p), NEW q \in Posters \ {p}
  PROVE  Full(q)' <=> Full(q)
<1>1. msgDir[q] # 0 => msgDir'[q] = msgDir[q] /\ Mine(q)' = Mine(q)
  BY OthersKept
<1>2. msgDir'[q] = msgDir[q]
  <2>1. msgDir' = msgDir \/ msgDir' = [msgDir EXCEPT ![p] = msgId[p]]
    BY PostSteps DEF MakesDir, Writes, Moves, SInv
  <2> QED
    BY <2>1 DEF SInv, TypeOK
<1> QED
  BY <1>1, <1>2 DEF Full

(* mkdir takes the next number of the log. *)
LEMMA MkdirTakes ==
  ASSUME AInv, Unplaced, NEW p \in Posters, Post(p), MakesDir(p)
  PROVE  Log!Take(p)
<1> USE DEF AInv, SInv
<1>1. msgDir[p] = 0
  BY DEF MakesDir, Unplaced, Before
<1>2. PICK n \in Nat : DOMAIN store = 1..n /\ msgId[p] \in 1..(n + 1)
  BY DEF Contiguous, MakesDir
<1>3. msgId[p] = n + 1 /\ DOMAIN store' = 1..(n + 1)
  BY <1>2 DEF MakesDir
<1>4. Cardinality(DOMAIN store) = n /\ Cardinality(DOMAIN store') = n + 1
  BY <1>2, <1>3, FS_Interval
<1>5. reply' = reply
  BY PostAnswers DEF MakesDir, CheckGroup, SendMid
<1>6. Mine(p)' = NewMessage
  BY <1>3 DEF MakesDir, Mine, TypeOK
<1>7. ~Full(p) /\ ~Full(p)'
  BY <1>1, <1>6, BoardAssumption DEF Full, NewMessage
<1>8. FullPosts' = FullPosts
  BY <1>7, OthersFull DEF FullPosts
<1>9. msgDir' = [msgDir EXCEPT ![p] = Cardinality(DOMAIN store) + 1]
  BY <1>3, <1>4 DEF MakesDir
<1> QED
  BY <1>1, <1>4, <1>5, <1>8, <1>9, LogTerms DEF AckedPosts

(* A write completes the message of its post or shows nothing. *)
LEMMA WriteCompletes ==
  ASSUME AInv, NEW p \in Posters, Post(p), Writes(p), ~SendMid(p)
  PROVE  Log!Complete(p) \/ UNCHANGED Log!log
<1> USE DEF AInv, SInv
<1>1. msgDir[p] # 0 /\ msgDir' = msgDir /\ DOMAIN store' = DOMAIN store
  BY DEF Writes, Placed
<1>2. Full(p) => Full(p)'
  <2>1. Holds(Mine(p), Mine(p)')
    BY OwnKept DEF Writes
  <2> QED
    BY <1>1, <2>1 DEF Full, Holds
<1>3. FullPosts' = FullPosts \/ FullPosts' = FullPosts \cup {p}
  BY <1>2, OthersFull DEF FullPosts
<1>4. reply' = reply
  BY PostAnswers DEF CheckGroup, Writes, OwnStages
<1> QED
  BY <1>1, <1>3, <1>4, LogTerms DEF AckedPosts

(* The other steps of a post show nothing. *)
LEMMA MovesUnseen ==
  ASSUME AInv, NEW p \in Posters, Post(p), Moves(p), ~SendMid(p)
  PROVE  UNCHANGED Log!log
<1> USE DEF AInv, SInv
<1>1. store' = store /\ msgDir' = msgDir /\ FullPosts' = FullPosts
  BY DEF Moves, FullPosts, Full, Mine
<1>2. AckedPosts' = AckedPosts
  <2>1. CheckGroup(p) => reply[p] # "OK"
    BY DEF CheckGroup, Sound, Answered
  <2> QED
    BY <2>1, PostAnswers DEF AckedPosts, TypeOK, Children
<1> QED
  BY <1>1, <1>2, LogTerms

(* The answer acknowledges a whole message, or does not come through. *)
LEMMA AnswerAcknowledges ==
  ASSUME AInv, NEW p \in Posters, SendMid(p)
  PROVE  Log!Acknowledge(p) \/ UNCHANGED Log!log
<1> USE DEF AInv, SInv
<1>1. store' = store /\ msgDir' = msgDir /\ FullPosts' = FullPosts
  BY DEF SendMid, FullPosts, Full, Mine
<1>2. CASE client[p] = "gone"
  BY <1>1, <1>2, LogTerms DEF SendMid, Respond, AckedPosts
<1>3. CASE client[p] # "gone"
  <2>1. msgDir[p] # 0 /\ Mine(p) = Whole(p)
    BY <1>3 DEF SendMid, Sound, Drafted, Draft, OwnStages, Placed
  <2>2. p \in FullPosts
    BY <2>1 DEF FullPosts, Full, Whole
  <2>3. AckedPosts' = AckedPosts \cup {p}
    BY <1>3 DEF SendMid, Respond, AckedPosts, TypeOK, Children
  <2> QED
    BY <1>1, <2>2, <2>3, LogTerms
<1> QED
  BY <1>2, <1>3

(* Every step of the directory is one of the log, or shows nothing in it.  *)
LEMMA LogStep ==
  ASSUME AInv, Unplaced, [Next]_vars
  PROVE  [Log!Next]_Log!log
<1>1. ASSUME NEW p \in Posters, Post(p) PROVE [Log!Next]_Log!log
  <2>1. Log!Take(p) \/ Log!Complete(p) \/ Log!Acknowledge(p) \/ UNCHANGED Log!log
    BY <1>1, PostSteps, MkdirTakes, WriteCompletes, MovesUnseen, AnswerAcknowledges
    DEF AInv, SInv
  <2> QED
    BY <2>1 DEF Log!Next
<1>2. CASE UNCHANGED <<store, msgDir>> /\ \A p \in Posters : reply'[p] = reply[p]
  BY <1>2, LogTerms DEF FullPosts, Full, Mine, AckedPosts
<1> QED
  BY <1>1, <1>2, OthersUnseen DEF AInv, SInv

(* When the disk keeps what is written to it, the directory implements the *)
(* log (ImplementsLog): mkdir takes the next number for one post, the last *)
(* write of a post completes its message, and only then is it answered.    *)
THEOREM DirectoryIsALog ==
  ASSUME "flush" \notin Faults
  PROVE  Spec => ImplementsLog
<1>1. Init => Log!Init
  <2>1. Init => FullPosts = {} /\ AckedPosts = {}
    BY DEF Init, FullPosts, Full, AckedPosts, Children
  <2>2. Init => Cardinality(DOMAIN store) = 0
    BY FS_EmptySet DEF Init
  <2> QED
    BY <2>1, <2>2, LogTerms DEF Init
<1>2. Init => AInv /\ Unplaced
  BY AInvInit DEF Init, Unplaced
<1>3. AInv /\ Unplaced /\ [Next]_vars => (AInv /\ Unplaced)' /\ [Log!Next]_Log!log
  BY AInvNext, UnplacedNext, LogStep DEF AInv
<1> QED
  BY <1>1, <1>2, <1>3, PTL DEF Spec, ImplementsLog, Log!Spec
=============================================================================
