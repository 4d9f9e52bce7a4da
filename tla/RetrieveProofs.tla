---------------------------- MODULE RetrieveProofs ----------------------------
(***************************************************************************)
(* Theorems about what a retrieve sends while posts go on.                 *)
(***************************************************************************)
EXTENDS MessageBoardProofs, SequenceTheorems

(* The stages of a retrieve before its list, and inside of its loop. *)
Ahead == {"idle", "request", "check", "open", "list"}
Loop  == {"item", "itemtext", "itemfile"}

(* What a step that is not one of r does to r: it may kill it. *)
Away(r) ==
  /\ rd'[r] = rd[r] /\ reply'[r] = reply[r]
  /\ pc'[r] \in {pc[r], "killed"}

(* A step is one of the retrieve r, which leaves the directory alone, or   *)
(* leaves r alone.                                                         *)
LEMMA ReaderSteps ==
  ASSUME TypeOK, [Next]_vars, NEW r \in Readers
  PROVE  \/ /\ AcceptRetrieve(r) \/ Retrieve(r)
            /\ UNCHANGED <<group, store, msgDir>>
            /\ \A p \in Posters : reply'[p] = reply[p]
         \/ Away(r)
<1> USE BoardAssumption DEF Away, Children, TypeOK, Goto
<1>1. CASE MakeGroup \/ MakeMsg \/ Interrupt \/ UNCHANGED vars
  BY <1>1 DEF MakeGroup, MakeMsg, Interrupt, vars
<1>2. ASSUME NEW p \in Children, Outside(p)
      PROVE  Away(r)
  BY <1>2 DEF Outside, AcceptPost, Upload, Hangup, Desert, Becomes
<1>3. ASSUME NEW p \in Posters, Post(p) PROVE Away(r)
  <2> USE DEF PostFrame, NokOverUdp, CannotCreate, Put, FlushLost
  <2>1. CASE ReadHeader(p) \/ CheckGroup(p) \/ CountMessages(p) \/ MakeMessageDir(p)
    BY <2>1 DEF ReadHeader, CheckGroup, CountMessages, MakeMessageDir, Respond
  <2>2. CASE CreateAuthor(p) \/ WriteAuthor(p) \/ CreateText(p) \/ WriteText(p)
    BY <2>2 DEF CreateAuthor, WriteAuthor, CreateText, WriteText
  <2>3. CASE ReadTrailer(p) \/ ReadData(p) \/ SendMid(p)
    BY <2>3 DEF ReadTrailer, ReadData, SendMid, Respond
  <2>4. CASE MakeFileDir(p) \/ CreateData(p) \/ WriteData(p)
    BY <2>4 DEF MakeFileDir, CreateData, WriteData
  <2> QED
    BY <1>3, <2>1, <2>2, <2>3, <2>4 DEF Post
<1>4. ASSUME NEW q \in Readers \ {r}, AcceptRetrieve(q) \/ Retrieve(q)
      PROVE  Away(r)
  BY <1>4, ReaderKeeps DEF ReaderFrame
<1>5. ASSUME AcceptRetrieve(r) \/ Retrieve(r)
      PROVE  /\ UNCHANGED <<group, store, msgDir>>
             /\ \A p \in Posters : reply'[p] = reply[p]
  BY <1>5, ReaderKeeps DEF ReaderFrame
<1> QED
  BY <1>1, <1>2, <1>3, <1>4, <1>5 DEF Next, Outside

(* Messages are only added. *)
LEMMA StoreGrows == ASSUME SInv, [Next]_vars PROVE DOMAIN store \subseteq DOMAIN store'
  BY MessagesKept

(***************************************************************************)
(* What each step of a retrieve does to its locals.                        *)
(***************************************************************************)
(* The connection is accepted. *)
LEMMA AcceptFields ==
  ASSUME TypeOK, NEW r \in Readers, AcceptRetrieve(r)
  PROVE  pc[r] = "idle" /\ pc'[r] = "request" /\ reply'[r] = reply[r] /\ rd'[r] = rd[r]
BY DEF AcceptRetrieve, Goto, TypeOK, Children

(* The request is read, or it is cut short. *)
LEMMA RequestFields ==
  ASSUME TypeOK, NEW r \in Readers, ReadRequest(r)
  PROVE  /\ pc[r] = "request" /\ reply'[r] = reply[r]
         /\ \A f \in {"base", "todo", "count", "cur", "entries"} : rd'[r][f] = rd[r][f]
         /\ \/ /\ pc'[r] = "check"
               /\ rd'[r].from \in Nat \ {0} /\ rd'[r].known = Acked
            \/ pc'[r] \in {"spin", "failed", "crashed"} /\ rd'[r] = rd[r]
<1>1. CASE Goto(r, "check") /\ \E mid \in 1..MaxFrom :
             SetLocals(r, [rd[r] EXCEPT !.from = mid, !.known = Acked])
  <2>1. PICK mid \in 1..MaxFrom :
          rd' = [rd EXCEPT ![r] = [rd[r] EXCEPT !.from = mid, !.known = Acked]]
    BY <1>1 DEF SetLocals
  <2>2. rd'[r] = [rd[r] EXCEPT !.from = mid, !.known = Acked] /\ rd[r] \in Locals
    BY <2>1 DEF TypeOK
  <2>3. mid \in Nat \ {0}
    BY BoardAssumption
  <2>4. /\ rd'[r].from \in Nat \ {0} /\ rd'[r].known = Acked
        /\ \A f \in {"base", "todo", "count", "cur", "entries"} : rd'[r][f] = rd[r][f]
    BY <2>2, <2>3 DEF Locals
  <2>5. pc[r] = "request" /\ pc'[r] = "check" /\ reply'[r] = reply[r]
    BY <1>1 DEF ReadRequest, Goto, TypeOK, Children
  <2> QED
    BY <2>4, <2>5
<1>2. CASE UNCHANGED rd /\ \E s \in {"spin", "failed", "crashed"} : Goto(r, s)
  BY <1>2 DEF ReadRequest, Goto, TypeOK, Children
<1> QED
  BY <1>1, <1>2 DEF ReadRequest

(* opendir. *)
LEMMA OpenFields ==
  ASSUME TypeOK, NEW r \in Readers, OpenList(r)
  PROVE  /\ pc[r] = "open" /\ pc'[r] = "list" /\ reply'[r] = reply[r]
         /\ rd'[r].base = DOMAIN store
         /\ \A f \in {"from", "known", "todo", "count", "cur", "entries"} :
              rd'[r][f] = rd[r][f]
<1>1. rd'[r] = [rd[r] EXCEPT !.base = DOMAIN store] /\ rd[r] \in Locals
  BY DEF TypeOK, OpenList, SetLocals
<1> QED
  BY <1>1 DEF Locals, OpenList, Goto, TypeOK, Children

(* The list, and whether there is something to send. *)
LEMMA ListFields ==
  ASSUME TypeOK, NEW r \in Readers, ListMessages(r)
  PROVE  /\ pc[r] = "list"
         /\ \E listed \in SUBSET DOMAIN store :
              /\ rd[r].base \subseteq listed \/ ("open" \in Faults /\ listed = {})
              /\ \/ /\ rd[r].from > Cardinality(listed)
                    /\ pc'[r] = "done" /\ reply'[r] \in {reply[r], "EOF"} /\ rd'[r] = rd[r]
                 \/ /\ rd[r].from <= Cardinality(listed)
                    /\ pc'[r] = "item" /\ reply'[r] \in {reply[r], "OK"}
                    /\ rd'[r].count = Announced(rd[r].from, Cardinality(listed))
                    /\ rd'[r].todo = {m \in listed : InWindow(m, rd[r].from)}
                    /\ \A f \in {"from", "known", "base", "cur", "entries"} :
                         rd'[r][f] = rd[r][f]
<1>1. rd[r] \in Locals
  BY DEF TypeOK
<1> USE DEF Goto, TypeOK, Children
<1>2. PICK listed \in SUBSET DOMAIN store :
       /\ rd[r].base \subseteq listed \/ ("open" \in Faults /\ listed = {})
       /\ \/ /\ rd[r].from > Cardinality(listed)
             /\ Goto(r, "done") /\ Respond(r, "EOF")
             /\ UNCHANGED rd
          \/ /\ rd[r].from <= Cardinality(listed)
             /\ SetLocals(r, [rd[r] EXCEPT
                  !.count = Announced(rd[r].from, Cardinality(listed)),
                  !.todo  = {m \in listed : InWindow(m, rd[r].from)}])
             /\ Goto(r, "item") /\ Respond(r, "OK")
  BY DEF ListMessages
<1>3. CASE rd[r].from > Cardinality(listed) /\ Goto(r, "done")
           /\ Respond(r, "EOF") /\ UNCHANGED rd
  BY <1>2, <1>3 DEF ListMessages, Respond
<1>4. CASE /\ rd[r].from <= Cardinality(listed)
           /\ SetLocals(r, [rd[r] EXCEPT
                !.count = Announced(rd[r].from, Cardinality(listed)),
                !.todo  = {m \in listed : InWindow(m, rd[r].from)}])
           /\ Goto(r, "item") /\ Respond(r, "OK")
  <2>1. rd'[r] = [rd[r] EXCEPT
                    !.count = Announced(rd[r].from, Cardinality(listed)),
                    !.todo  = {m \in listed : InWindow(m, rd[r].from)}]
    BY <1>4 DEF SetLocals
  <2>2. /\ rd'[r].count = Announced(rd[r].from, Cardinality(listed))
        /\ rd'[r].todo = {m \in listed : InWindow(m, rd[r].from)}
        /\ \A f \in {"from", "known", "base", "cur", "entries"} : rd'[r][f] = rd[r][f]
    BY <1>1, <2>1 DEF Locals
  <2>3. pc[r] = "list" /\ pc'[r] = "item" /\ reply'[r] \in {reply[r], "OK"}
    BY <1>4 DEF ListMessages, Respond
  <2> QED
    BY <1>2, <1>4, <2>2, <2>3
<1> QED
  BY <1>2, <1>3, <1>4

(* author.txt of the next message. *)
LEMMA AuthorFields ==
  ASSUME TypeOK, NEW r \in Readers, ReadAuthor(r)
  PROVE  /\ pc[r] = "item" /\ rd[r].todo # {} /\ reply'[r] = reply[r]
         /\ \A f \in {"from", "known", "base", "todo", "count", "entries"} :
              rd'[r][f] = rd[r][f]
         /\ \/ pc'[r] = "crashed"
            \/ /\ pc'[r] = "itemtext"
               /\ \E author \in AuthorSeen(r, store[Current(r)].author) :
                    rd'[r].cur = [NewMessage EXCEPT !.author = author]
<1>1. rd[r] \in Locals
  BY DEF TypeOK
<1>2. /\ pc[r] = "item" /\ rd[r].todo # {} /\ reply'[r] = reply[r]
      /\ \/ pc'[r] = "crashed" /\ rd'[r] = rd[r]
         \/ /\ pc'[r] = "itemtext"
            /\ \E author \in AuthorSeen(r, store[Current(r)].author) :
                 rd'[r] = [rd[r] EXCEPT !.cur = [NewMessage EXCEPT !.author = author]]
  BY DEF ReadAuthor, FaultIf, SetLocals, Goto, TypeOK, Children
<1> QED
  BY <1>1, <1>2 DEF Locals

(* Then text.txt. *)
LEMMA TextFields ==
  ASSUME TypeOK, NEW r \in Readers, ReadText(r)
  PROVE  /\ pc[r] = "itemtext" /\ reply'[r] = reply[r]
         /\ \A f \in {"from", "known", "base", "todo", "count", "entries"} :
              rd'[r][f] = rd[r][f]
         /\ \/ pc'[r] = "crashed"
            \/ /\ pc'[r] = "itemfile"
               /\ rd'[r].cur = [rd[r].cur EXCEPT !.text = store[Current(r)].text]
<1>1. rd[r] \in Locals
  BY DEF TypeOK
<1>2. /\ pc[r] = "itemtext" /\ reply'[r] = reply[r]
      /\ \/ pc'[r] = "crashed" /\ rd'[r] = rd[r]
         \/ /\ pc'[r] = "itemfile"
            /\ rd'[r] = [rd[r] EXCEPT !.cur.text = store[Current(r)].text]
  BY DEF ReadText, FaultIf, SetLocals, Goto, TypeOK, Children
<1> QED
  BY <1>1, <1>2 DEF Locals

(* The end of an entry. *)
LEMMA FileFields ==
  ASSUME TypeOK, NEW r \in Readers, ReadFile(r)
  PROVE  /\ pc[r] = "itemfile" /\ reply'[r] = reply[r]
         /\ \A f \in {"from", "known", "base", "count", "cur"} : rd'[r][f] = rd[r][f]
         /\ \/ pc'[r] = "crashed"
            \/ /\ pc'[r] = "item"
               /\ rd'[r].todo = rd[r].todo \ {Current(r)}
               /\ rd'[r].entries = Append(rd[r].entries, EntryRead(r))
<1>1. rd[r] \in Locals
  BY DEF TypeOK
<1> DEFINE sent == Append(rd[r].entries, EntryRead(r))
<1>2. /\ pc[r] = "itemfile" /\ reply'[r] = reply[r]
      /\ \/ pc'[r] = "crashed" /\ rd'[r] = rd[r]
         \/ /\ pc'[r] = "item"
            /\ rd'[r] = [rd[r] EXCEPT !.todo = @ \ {Current(r)}, !.entries = sent]
  BY DEF ReadFile, FaultIf, SetLocals, Goto, TypeOK, Children
<1> HIDE DEF sent
<1>3. /\ \A f \in {"from", "known", "base", "count", "cur"} : rd'[r][f] = rd[r][f]
      /\ \/ pc'[r] = "crashed"
         \/ /\ pc'[r] = "item" /\ rd'[r].entries = sent
            /\ rd'[r].todo = rd[r].todo \ {Current(r)}
  BY <1>1, <1>2 DEF Locals
<1> QED
  BY <1>2, <1>3 DEF sent

(***************************************************************************)
(* The count that is announced, any fault allowed.                         *)
(***************************************************************************)

(* As long as no message has been added since opendir, the entries sent    *)
(* and the ones to be sent are as many as were announced.                  *)
Sized(r) ==
  /\ rd[r].from \in Nat \ {0}
  /\ rd[r].base \subseteq DOMAIN store
  /\ pc[r] \in Ahead => rd[r].entries = << >> /\ reply[r] # "OK"
  /\ pc[r] \in Loop /\ rd[r].base = DOMAIN store =>
       Len(rd[r].entries) + Cardinality(rd[r].todo) = rd[r].count
  /\ pc[r] = "done" /\ reply[r] = "OK" /\ rd[r].base = DOMAIN store =>
       Len(rd[r].entries) = rd[r].count

CInv == SInv /\ \A r \in Readers : Sized(r)

(* The window on 1..n has as many messages as are announced for it. *)
LEMMA WindowSize ==
  ASSUME NEW n \in Nat, NEW from \in 1..n
  PROVE  Cardinality({m \in 1..n : InWindow(m, from)}) = Announced(from, n)
<1> USE BoardAssumption
<1> DEFINE k == Announced(from, n)
<1>1. k \in 1..n /\ from + k - 1 \in Nat
  BY DEF Announced
<1>2. {m \in 1..n : InWindow(m, from)} = from..(from + k - 1)
  BY <1>1 DEF Announced, InWindow
<1>3. from <= from + k - 1 /\ (from + k - 1) - from + 1 = k
  BY <1>1
<1> HIDE DEF k
<1>4. Cardinality(from..(from + k - 1)) = (from + k - 1) - from + 1
  BY <1>1, <1>3, FS_Interval
<1> QED
  BY <1>2, <1>3, <1>4 DEF k

(* The list is finite, and sending an entry makes it shorter by one. *)
LEMMA TodoShrinks ==
  ASSUME SInv, NEW r \in Readers, rd[r].todo # {}
  PROVE  /\ Current(r) \in rd[r].todo
         /\ Cardinality(rd[r].todo) \in Nat
         /\ Cardinality(rd[r].todo \ {Current(r)}) = Cardinality(rd[r].todo) - 1
<1>1. rd[r].todo \subseteq DOMAIN store /\ rd[r].todo \in SUBSET Nat
  BY DEF SInv, Listed, TypeOK, Locals
<1>2. PICK n \in Nat : DOMAIN store = 1..n
  BY DEF SInv, Contiguous
<1>3. IsFiniteSet(rd[r].todo)
  BY <1>1, <1>2, FS_Interval, FS_Subset
<1>4. Current(r) \in rd[r].todo
  BY <1>1, LeastExists DEF Current
<1> QED
  BY <1>3, <1>4, FS_CardinalityType, FS_RemoveElement

(* What is sent is an entry. *)
LEMMA EntryTyped ==
  ASSUME SInv, NEW r \in Readers, ReadFile(r)
  PROVE  EntryRead(r) \in Entry
<1>1. rd[r] \in Locals /\ rd[r].todo # {} /\ rd[r].todo \subseteq DOMAIN store
  BY DEF SInv, TypeOK, Listed, ReadFile
<1>2. Current(r) \in DOMAIN store /\ Current(r) \in Nat
  BY <1>1, TodoShrinks DEF SInv, TypeOK
<1>3. [rd[r].cur EXCEPT !.file = store[Current(r)].file] \in Message
  BY <1>1, <1>2 DEF SInv, TypeOK, Locals, Message
<1> QED
  BY <1>2, <1>3 DEF EntryRead, Entry

(* The step of a retrieve keeps its count. *)
LEMMA SizedOwn ==
  ASSUME SInv, NEW r \in Readers, Sized(r), AcceptRetrieve(r) \/ Retrieve(r),
         UNCHANGED store
  PROVE  Sized(r)'
<1> USE DEF Ahead, Loop
<1>t. TypeOK /\ rd[r] \in Locals
  BY DEF SInv, TypeOK
<1>1. CASE AcceptRetrieve(r)
  BY <1>1, <1>t, AcceptFields DEF Sized
<1>0. CASE ReadRequest(r)
  BY <1>0, <1>t, RequestFields DEF Sized
<1>2. CASE CheckBoard(r) \/ BrokenPipe(r)
  BY <1>2, <1>t DEF CheckBoard, BrokenPipe, Respond, Sized, Goto, TypeOK, Children
<1>3. CASE OpenList(r)
  BY <1>3, <1>t, OpenFields DEF Sized
<1>4. CASE ListMessages(r)
  <2>1. PICK listed \in SUBSET DOMAIN store :
          /\ rd[r].base \subseteq listed \/ ("open" \in Faults /\ listed = {})
          /\ \/ /\ rd[r].from > Cardinality(listed)
                /\ pc'[r] = "done" /\ reply'[r] \in {reply[r], "EOF"} /\ rd'[r] = rd[r]
             \/ /\ rd[r].from <= Cardinality(listed)
                /\ pc'[r] = "item" /\ reply'[r] \in {reply[r], "OK"}
                /\ rd'[r].count = Announced(rd[r].from, Cardinality(listed))
                /\ rd'[r].todo = {m \in listed : InWindow(m, rd[r].from)}
                /\ \A f \in {"from", "known", "base", "cur", "entries"} :
                     rd'[r][f] = rd[r][f]
    BY <1>4, <1>t, ListFields
  <2>2. CASE pc'[r] = "done" /\ reply'[r] \in {reply[r], "EOF"} /\ rd'[r] = rd[r]
    BY <1>4, <2>2 DEF Sized, ListMessages
  <2>3. CASE /\ rd[r].from <= Cardinality(listed)
             /\ pc'[r] = "item" /\ reply'[r] \in {reply[r], "OK"}
             /\ rd'[r].count = Announced(rd[r].from, Cardinality(listed))
             /\ rd'[r].todo = {m \in listed : InWindow(m, rd[r].from)}
             /\ \A f \in {"from", "known", "base", "cur", "entries"} :
                  rd'[r][f] = rd[r][f]
    <3>1. rd'[r].entries = << >> /\ rd'[r].from = rd[r].from /\ rd'[r].base = rd[r].base
      BY <1>4, <2>3 DEF Sized, ListMessages
    <3>2. ASSUME rd[r].base = DOMAIN store
          PROVE  Cardinality(rd'[r].todo) = rd'[r].count
      <4>1. PICK n \in Nat : DOMAIN store = 1..n
        BY DEF SInv, Contiguous
      <4>2. listed = 1..n /\ Cardinality(listed) = n
        <5>0. listed # {}
          <6>1. listed = {} => Cardinality(listed) = 0
            BY FS_EmptySet
          <6> QED
            BY <2>3, <6>1 DEF Sized
        <5>1. listed = 1..n
          BY <2>1, <3>2, <4>1, <5>0
        <5> QED
          BY <5>1, FS_Interval
      <4>3. rd[r].from \in 1..n
        BY <2>3, <4>2 DEF Sized
      <4> QED
        BY <2>3, <4>2, <4>3, WindowSize
    <3>3. rd'[r].count \in Int
      BY <1>t, <1>4, <2>1, TypeRetrieve DEF SInv, Retrieve, TypeOK, Locals
    <3>4. Len(rd'[r].entries) = 0
      BY <3>1
    <3> QED
      BY <2>3, <3>1, <3>2, <3>3, <3>4 DEF Sized
  <2> QED
    BY <2>1, <2>2, <2>3
<1>5. CASE EndLoop(r)
  <2>1. pc[r] = "item" /\ rd[r].todo = {} /\ pc'[r] = "done" /\ rd' = rd
    BY <1>5, <1>t DEF EndLoop, Goto, TypeOK, Children
  <2>2. Cardinality(rd[r].todo) = 0 /\ Len(rd[r].entries) \in Nat
    BY <2>1, <1>t, FS_EmptySet DEF Locals
  <2> QED
    BY <2>1, <2>2 DEF Sized
<1>6. CASE ReadAuthor(r)
  BY <1>6, <1>t, AuthorFields DEF Sized
<1>7. CASE ReadText(r)
  BY <1>7, <1>t, TextFields DEF Sized
<1>8. CASE ReadFile(r)
  <2>1. CASE pc'[r] = "crashed"
    BY <1>8, <1>t, <2>1, FileFields DEF Sized
  <2>2. CASE /\ pc'[r] = "item"
             /\ rd'[r].todo = rd[r].todo \ {Current(r)}
             /\ rd'[r].entries = Append(rd[r].entries, EntryRead(r))
    <3>1. /\ Cardinality(rd[r].todo) \in Nat
          /\ Cardinality(rd'[r].todo) = Cardinality(rd[r].todo) - 1
      BY <1>8, <2>2, TodoShrinks DEF SInv, Listed, ReadFile
    <3>2. Len(rd'[r].entries) = Len(rd[r].entries) + 1 /\ Len(rd[r].entries) \in Nat
      <4>1. EntryRead(r) \in Entry
        BY <1>8, <2>2, <1>t, EntryTyped
      <4> QED
        BY <2>2, <4>1, <1>t, AppendProperties DEF Locals
    <3>3. \A f \in {"from", "base", "count"} : rd'[r][f] = rd[r][f]
      BY <1>8, <1>t, FileFields
    <3>4. Len(rd'[r].entries) + Cardinality(rd'[r].todo)
            = Len(rd[r].entries) + Cardinality(rd[r].todo)
      BY <3>1, <3>2
    <3> QED
      BY <1>8, <2>2, <3>3, <3>4 DEF Sized, ReadFile
  <2> QED
    BY <1>8, <1>t, <2>1, <2>2, FileFields
<1> QED
  BY <1>0, <1>1, <1>2, <1>3, <1>4, <1>5, <1>6, <1>7, <1>8 DEF Retrieve

(* A retrieve that runs to its end while no message is added sends as many *)
(* entries as it announced (AnnouncedAreSent), whatever fails elsewhere.   *)
THEOREM AnnouncedIsSent == Spec => []AnnouncedAreSent
<1>1. Init => CInv
  <2>1. Init => \A r \in Readers : /\ pc[r] = "idle" /\ rd[r] = NewReader
                                   /\ reply[r] = "none"
    BY DEF Init, Children
  <2> QED
    BY <2>1, SInvInit DEF CInv, Sized, NewReader, Ahead, Loop
<1>2. ASSUME CInv, [Next]_vars PROVE CInv'
  <2>1. SInv'
    BY <1>2, SInvNext DEF CInv
  <2>2. ASSUME NEW r \in Readers PROVE Sized(r)'
    <3>1. CASE Away(r)
      <4>1. DOMAIN store \subseteq DOMAIN store'
        BY <1>2, StoreGrows DEF CInv
      <4> QED
        BY <1>2, <3>1, <4>1 DEF Away, Sized, CInv, Ahead, Loop
    <3>2. CASE (AcceptRetrieve(r) \/ Retrieve(r)) /\ UNCHANGED store
      BY <1>2, <3>2, SizedOwn DEF CInv
    <3> QED
      BY <1>2, <3>1, <3>2, ReaderSteps DEF CInv, SInv
  <2> QED
    BY <2>1, <2>2 DEF CInv
<1>3. CInv => AnnouncedAreSent
  BY DEF CInv, Sized, AnnouncedAreSent
<1> QED
  BY <1>1, <1>2, <1>3, PTL DEF Spec

(***************************************************************************)
(* The acknowledged messages are delivered, when no buffered write is      *)
(* lost.                                                                   *)
(***************************************************************************)

(* The post p was acknowledged before the request of r, which asks for it. *)
Wanted(r, p) == msgDir[p] \in rd[r].known /\ InWindow(msgDir[p], rd[r].from)

Sent(r, p) ==
  \E i \in 1..Len(rd[r].entries) :
    rd[r].entries[i] = [mid |-> msgDir[p], msg |-> Whole(p)]

(* What has been read so far of the message of p. *)
ReadOf(r, p) ==
  /\ pc[r] = "itemtext" => rd[r].cur = [NewMessage EXCEPT !.author = p]
  /\ pc[r] = "itemfile" => rd[r].cur = [author |-> p, text |-> p, file |-> NoDir]

(* A message that is wanted was there at opendir, is in the list until its *)
(* entry is sent, and what is read of it is what its post wrote.           *)
Sees(r) ==
  /\ rd[r].known \subseteq Acked
  /\ pc[r] = "list" =>
       rd[r].known \subseteq rd[r].base /\ \E k \in Nat : rd[r].base = 1..k
  /\ pc[r] \in Loop \cup {"done"} =>
       \A p \in Posters : Wanted(r, p) =>
         \/ pc[r] \in Loop /\ msgDir[p] \in rd[r].todo
         \/ Sent(r, p)
  /\ pc[r] \in {"itemtext", "itemfile"} =>
       \A p \in Posters : Wanted(r, p) /\ Current(r) = msgDir[p] => ReadOf(r, p)

(* Without a group there is no message. *)
NoGroup == group = "none" => DOMAIN store = {}

VInv == AInv /\ NoGroup /\ \A r \in Readers : Sees(r)

(* An acknowledged post stays so, and keeps its directory. *)
LEMMA AckedKept ==
  ASSUME AInv, [Next]_vars, NEW p \in Posters, reply[p] = "OK"
  PROVE  reply'[p] = "OK" /\ msgDir'[p] = msgDir[p]
<1> USE DEF AInv, SInv
<1>1. pc[p] = "done"
  BY DEF Sound, Answered
<1>2. ASSUME NEW q \in Posters, Post(q)
      PROVE  reply'[p] = "OK" /\ msgDir'[p] = msgDir[p]
  <2>1. reply'[p] = "OK"
    BY <1>1, <1>2, PostAnswers DEF CheckGroup, SendMid, TypeOK, Children
  <2>2. msgDir' = msgDir \/ (msgDir' = [msgDir EXCEPT ![q] = msgId[q]] /\ pc[q] = "mkdir")
    BY <1>2, PostSteps DEF MakesDir, Writes, Moves
  <2> QED
    BY <1>1, <2>1, <2>2 DEF TypeOK
<1> QED
  BY <1>2, OthersUnseen

(* What a retrieve knows to be acknowledged is in the directory, whole. *)
LEMMA KnownWhole ==
  ASSUME AInv, NEW r \in Readers, rd[r].known \subseteq Acked,
         NEW p \in Posters, msgDir[p] \in rd[r].known
  PROVE  /\ reply[p] = "OK"
         /\ msgDir[p] \in DOMAIN store /\ store[msgDir[p]] = Whole(p)
<1> USE DEF AInv, SInv
<1>1. PICK q \in Posters : reply[q] = "OK" /\ msgDir[q] = msgDir[p]
  BY DEF Acked
<1>2. q = p
  BY <1>1 DEF Sound, Answered, Placed
<1> QED
  BY <1>1, <1>2 DEF Sound, Answered, Placed, Mine

(* The steps of others do not change what a retrieve has seen. *)
LEMMA SeesAway ==
  ASSUME AInv, AInv', [Next]_vars, NEW r \in Readers, Sees(r), Away(r)
  PROVE  Sees(r)'
<1> USE DEF Away
<1>1. rd'[r].known \subseteq Acked'
  BY AckedKept DEF Sees, Acked
<1>2. ASSUME NEW p \in Posters, Wanted(r, p)' PROVE Wanted(r, p) /\ msgDir'[p] = msgDir[p]
  <2>1. PICK q \in Posters : reply[q] = "OK" /\ msgDir[q] = msgDir'[p]
    BY <1>2 DEF Wanted, Sees, Acked
  <2>2. msgDir'[q] = msgDir'[p] /\ reply'[q] = "OK"
    BY <2>1, AckedKept
  <2>3. q = p
    BY <2>2 DEF AInv, SInv, Sound, Answered, Placed
  <2> QED
    BY <1>2, <2>1, <2>3 DEF Wanted
<1>3. Current(r)' = Current(r)
  BY DEF Current
<1>4. \A p \in Posters : msgDir'[p] = msgDir[p] => (Sent(r, p)' <=> Sent(r, p))
  BY DEF Sent, Whole
<1>5. \A p \in Posters : ReadOf(r, p) => ReadOf(r, p)'
  BY DEF ReadOf
<1> QED
  BY <1>1, <1>2, <1>3, <1>4, <1>5 DEF Sees, Loop

(* An entry that has been sent stays sent, and the one at hand is added.   *)
LEMMA SentAppended ==
  ASSUME SInv, NEW r \in Readers, NEW p \in Posters, ReadFile(r), msgDir' = msgDir,
         rd'[r].entries = Append(rd[r].entries, EntryRead(r)),
         Sent(r, p) \/ EntryRead(r) = [mid |-> msgDir[p], msg |-> Whole(p)]
  PROVE  Sent(r, p)'
<1> DEFINE seq == rd[r].entries
<1>1. seq \in Seq(Entry) /\ EntryRead(r) \in Entry
  BY EntryTyped DEF SInv, TypeOK, Locals
<1>2. /\ Len(Append(seq, EntryRead(r))) = Len(seq) + 1 /\ Len(seq) \in Nat
      /\ \A i \in 1..Len(seq) : Append(seq, EntryRead(r))[i] = seq[i]
      /\ Append(seq, EntryRead(r))[Len(seq) + 1] = EntryRead(r)
  BY <1>1, AppendProperties
<1>3. 1..Len(seq) \subseteq 1..(Len(seq) + 1) /\ Len(seq) + 1 \in 1..(Len(seq) + 1)
  BY <1>2
<1> QED
  BY <1>2, <1>3 DEF Sent

(* The steps of a retrieve up to its list. *)
LEMMA SeesList ==
  ASSUME "open" \notin Faults, AInv, NoGroup,
         NEW r \in Readers, Sees(r), UNCHANGED <<group, store, msgDir>>,
         \A p \in Posters : reply'[p] = reply[p],
         \/ AcceptRetrieve(r) \/ ReadRequest(r) \/ CheckBoard(r) \/ BrokenPipe(r)
         \/ OpenList(r) \/ ListMessages(r)
  PROVE  Sees(r)'
<1> USE DEF AInv, SInv, Loop
<1>t. rd[r] \in Locals
  BY DEF TypeOK
<1>a. Acked' = Acked
  BY DEF Acked
<1>1. CASE AcceptRetrieve(r)
  <2>1. pc[r] = "idle" /\ pc'[r] = "request" /\ rd'[r] = rd[r]
    BY <1>1, AcceptFields
  <2> QED
    BY <1>a, <2>1 DEF Sees
<1>0. CASE ReadRequest(r)
  BY <1>0, <1>a, RequestFields DEF Sees
<1>5. CASE BrokenPipe(r)
  <2>1. pc'[r] = "crashed" /\ rd'[r] = rd[r]
    BY <1>5 DEF BrokenPipe, Goto, TypeOK, Children
  <2> QED
    BY <1>a, <2>1 DEF Sees
<1>2. CASE CheckBoard(r)
  <2>1. rd' = rd
    BY <1>2 DEF CheckBoard
  <2>2. pc'[r] = "open" \/ (pc'[r] = "done" /\ group = "none")
    BY <1>2 DEF CheckBoard, Goto, TypeOK, Children
  <2>3. ASSUME group = "none", NEW p \in Posters PROVE ~Wanted(r, p)
    BY <2>3, KnownWhole DEF NoGroup, Sees, Wanted
  <2>4. \A p \in Posters : Wanted(r, p)' <=> Wanted(r, p)
    BY <2>1 DEF Wanted
  <2> QED
    BY <1>a, <2>1, <2>2, <2>3, <2>4 DEF Sees
<1>3. CASE OpenList(r)
  <2>1. /\ pc'[r] = "list" /\ rd'[r].base = DOMAIN store
        /\ rd'[r].known = rd[r].known
    BY <1>3, OpenFields
  <2>2. rd[r].known \subseteq DOMAIN store
    BY DEF Sees, Acked, Sound, Answered, Placed
  <2>3. \E k \in Nat : DOMAIN store = 1..k
    BY DEF Contiguous
  <2> QED
    BY <1>a, <2>1, <2>2, <2>3 DEF Sees
<1>4. CASE ListMessages(r)
  <2>1. PICK listed \in SUBSET DOMAIN store :
          /\ rd[r].base \subseteq listed \/ ("open" \in Faults /\ listed = {})
          /\ \/ /\ rd[r].from > Cardinality(listed)
                /\ pc'[r] = "done" /\ reply'[r] \in {reply[r], "EOF"} /\ rd'[r] = rd[r]
             \/ /\ rd[r].from <= Cardinality(listed)
                /\ pc'[r] = "item" /\ reply'[r] \in {reply[r], "OK"}
                /\ rd'[r].count = Announced(rd[r].from, Cardinality(listed))
                /\ rd'[r].todo = {m \in listed : InWindow(m, rd[r].from)}
                /\ \A f \in {"from", "known", "base", "cur", "entries"} :
                     rd'[r][f] = rd[r][f]
    BY <1>4, ListFields
  <2>2. pc[r] = "list" /\ rd[r].known \subseteq listed
    BY <1>4, <2>1 DEF ListMessages, Sees
  <2>3. CASE /\ rd[r].from > Cardinality(listed)
             /\ pc'[r] = "done" /\ rd'[r] = rd[r]
    <3>1. PICK k \in Nat : rd[r].base = 1..k
      BY <2>2 DEF Sees
    <3>2. k <= Cardinality(listed) /\ Cardinality(listed) \in Nat
      <4>1. PICK n \in Nat : DOMAIN store = 1..n
        BY DEF Contiguous
      <4>2. IsFiniteSet(listed)
        BY <2>1, <4>1, FS_Interval, FS_Subset
      <4>3. Cardinality(1..k) <= Cardinality(listed) /\ Cardinality(1..k) = k
        BY <2>1, <3>1, <4>2, FS_Interval, FS_Subset
      <4> QED
        BY <4>2, <4>3, FS_CardinalityType
    <3>3. ASSUME NEW p \in Posters, Wanted(r, p) PROVE FALSE
      <4>1. msgDir[p] \in 1..k
        BY <2>2, <3>1, <3>3 DEF Sees, Wanted
      <4>2. msgDir[p] >= rd[r].from /\ rd[r].from \in Nat
        BY <1>t, <3>3 DEF Wanted, InWindow, Locals
      <4> QED
        BY <2>3, <3>2, <4>1, <4>2
    <3>4. \A p \in Posters : Wanted(r, p)' <=> Wanted(r, p)
      BY <2>3 DEF Wanted
    <3> QED
      BY <1>a, <2>3, <3>3, <3>4 DEF Sees
  <2>4. CASE /\ pc'[r] = "item"
             /\ rd'[r].todo = {m \in listed : InWindow(m, rd[r].from)}
             /\ \A f \in {"from", "known", "base", "cur", "entries"} :
                  rd'[r][f] = rd[r][f]
    BY <1>a, <2>2, <2>4 DEF Sees, Wanted
  <2> QED
    BY <2>1, <2>3, <2>4
<1> QED
  BY <1>0, <1>1, <1>2, <1>3, <1>4, <1>5

(* The steps of its loop. *)
LEMMA SeesLoop ==
  ASSUME AInv, NEW r \in Readers, Sees(r), UNCHANGED <<group, store, msgDir>>,
         \A p \in Posters : reply'[p] = reply[p],
         EndLoop(r) \/ ReadAuthor(r) \/ ReadText(r) \/ ReadFile(r)
  PROVE  Sees(r)'
<1>y. TypeOK
  BY DEF AInv, SInv
<1> USE DEF AInv, SInv, Loop
<1>t. rd[r] \in Locals
  BY DEF TypeOK
<1>a. Acked' = Acked /\ rd[r].known \subseteq Acked
  BY DEF Acked, Sees
<1>w. ASSUME NEW p \in Posters, Wanted(r, p)
      PROVE  msgDir[p] \in DOMAIN store /\ store[msgDir[p]] = Whole(p)
  BY <1>a, <1>w, KnownWhole DEF Wanted
<1>1. CASE EndLoop(r)
  <2>1. pc[r] = "item" /\ rd[r].todo = {} /\ pc'[r] = "done" /\ rd' = rd
    BY <1>1 DEF EndLoop, Goto, TypeOK, Children
  <2> QED
    BY <1>a, <2>1 DEF Sees, Wanted, Sent, Whole
<1>2. CASE ReadAuthor(r) \/ ReadText(r)
  <2>1. /\ pc[r] \in {"item", "itemtext"}
        /\ \A f \in {"from", "known", "base", "todo", "entries"} : rd'[r][f] = rd[r][f]
        /\ pc'[r] \in {"crashed", "itemtext", "itemfile"}
    <3>1. CASE ReadAuthor(r)
      BY <1>y, <3>1, AuthorFields
    <3>2. CASE ReadText(r)
      <4>1. /\ pc[r] = "itemtext"
            /\ \A f \in {"from", "known", "base", "todo", "count", "entries"} :
                 rd'[r][f] = rd[r][f]
            /\ pc'[r] = "crashed" \/ pc'[r] = "itemfile"
        BY <1>y, <3>2, TextFields
      <4> QED
        BY <4>1
    <3> QED
      BY <1>2, <3>1, <3>2
  <2>2. /\ \A p \in Posters : Wanted(r, p)' <=> Wanted(r, p)
        /\ \A p \in Posters : Sent(r, p)' <=> Sent(r, p)
        /\ Current(r)' = Current(r)
    BY <2>1 DEF Wanted, Sent, Whole, Current
  <2>3. ASSUME NEW p \in Posters, Wanted(r, p), Current(r) = msgDir[p],
               pc'[r] # "crashed"
        PROVE  ReadOf(r, p)'
    <3>1. store[Current(r)] = [author |-> p, text |-> p, file |-> Whole(p).file]
      BY <1>w, <2>3 DEF Whole
    <3>2. CASE ReadAuthor(r)
      <4>1. AuthorSeen(r, p) = {p}
        BY BoardAssumption DEF AuthorSeen
      <4>2. PICK author \in AuthorSeen(r, store[Current(r)].author) :
              pc'[r] = "itemtext" /\ rd'[r].cur = [NewMessage EXCEPT !.author = author]
        BY <1>y, <2>3, <3>2, AuthorFields
      <4>3. author = p
        BY <3>1, <4>1, <4>2
      <4> QED
        BY <4>2, <4>3 DEF ReadOf
    <3>3. CASE ReadText(r)
      <4>1. rd[r].cur = [NewMessage EXCEPT !.author = p]
        BY <2>3, <3>3 DEF Sees, ReadOf, ReadText
      <4>2. rd'[r].cur = [rd[r].cur EXCEPT !.text = p] /\ pc'[r] = "itemfile"
        BY <3>1, <3>3, <2>3, TextFields
      <4> QED
        BY <4>1, <4>2 DEF ReadOf, NewMessage
    <3> QED
      BY <1>2, <3>2, <3>3
  <2> QED
    BY <1>a, <2>1, <2>2, <2>3 DEF Sees
<1>3. CASE ReadFile(r)
  <2>1. CASE pc'[r] = "crashed"
    BY <1>3, <1>a, <2>1, FileFields DEF Sees
  <2>2. CASE /\ pc'[r] = "item"
             /\ rd'[r].todo = rd[r].todo \ {Current(r)}
             /\ rd'[r].entries = Append(rd[r].entries, EntryRead(r))
    <3>1. \A f \in {"from", "known"} : rd'[r][f] = rd[r][f]
      BY <1>3, FileFields
    <3>2. \A p \in Posters : Wanted(r, p)' <=> Wanted(r, p)
      BY <3>1 DEF Wanted
    <3>3. ASSUME NEW p \in Posters, Wanted(r, p)
          PROVE  msgDir[p] \in rd'[r].todo \/ Sent(r, p)'
      <4>1. CASE Sent(r, p)
        BY <1>3, <2>2, <4>1, SentAppended
      <4>2. CASE msgDir[p] \in rd[r].todo /\ msgDir[p] # Current(r)
        BY <2>2, <4>2
      <4>3. CASE msgDir[p] = Current(r)
        <5>1. rd[r].cur = [author |-> p, text |-> p, file |-> NoDir]
          BY <1>3, <3>3, <4>3 DEF Sees, ReadOf, ReadFile
        <5>2. store[Current(r)].file = Whole(p).file
          BY <1>w, <3>3, <4>3
        <5>3. EntryRead(r) = [mid |-> msgDir[p], msg |-> Whole(p)]
          BY <4>3, <5>1, <5>2 DEF EntryRead, Whole
        <5> QED
          BY <1>3, <2>2, <5>3, SentAppended
      <4> QED
        BY <1>3, <3>3, <4>1, <4>2, <4>3 DEF Sees, ReadFile
    <3> QED
      BY <1>a, <2>2, <3>1, <3>2, <3>3 DEF Sees
  <2> QED
    BY <1>3, <2>1, <2>2, FileFields
<1> QED
  BY <1>1, <1>2, <1>3

(* Nothing removes a group. *)
LEMMA GroupStays == ASSUME [Next]_vars, group' = "none" PROVE group = "none"
<1>1. CASE MakeGroup \/ MakeMsg \/ Interrupt \/ UNCHANGED vars
  BY <1>1 DEF MakeGroup, MakeMsg, Interrupt, vars
<1>2. ASSUME NEW p \in Children, Outside(p) PROVE group' = group
  BY <1>2 DEF Outside, AcceptPost, Upload, Hangup, Desert, Becomes
<1>3. ASSUME NEW p \in Posters, Post(p) PROVE group' = group
  BY <1>3 DEF Post, ReadHeader, CheckGroup, CountMessages, MakeMessageDir, CreateAuthor,
         WriteAuthor, CreateText, WriteText, ReadTrailer, MakeFileDir, ReadData,
         CreateData, WriteData, SendMid, PostFrame
<1>4. ASSUME NEW r \in Readers, AcceptRetrieve(r) \/ Retrieve(r) PROVE group' = group
  BY <1>4 DEF AcceptRetrieve, Retrieve, ReadFrame, CheckBoard, OpenList, ListMessages,
              EndLoop, ReadAuthor, ReadText, ReadFile, ReadRequest, BrokenPipe
<1> QED
  BY <1>1, <1>2, <1>3, <1>4 DEF Next, Outside, Children

(* Only with a group is a message directory made. *)
LEMMA MkdirNeedsGroup ==
  ASSUME TypeOK, NEW p \in Posters, Post(p), DOMAIN store' # DOMAIN store
  PROVE  group = "msg"
<1> USE DEF NokOverUdp, CannotCreate, Put, FlushLost
<1>1. CASE ReadHeader(p) \/ CheckGroup(p) \/ CountMessages(p)
  BY <1>1 DEF ReadHeader, CheckGroup, CountMessages
<1>2. CASE MakeMessageDir(p)
  BY <1>2 DEF MakeMessageDir, MkdirPossible
<1>3. CASE CreateAuthor(p) \/ WriteAuthor(p) \/ CreateText(p) \/ WriteText(p)
  BY <1>3 DEF CreateAuthor, WriteAuthor, CreateText, WriteText
<1>4. CASE ReadTrailer(p) \/ ReadData(p) \/ SendMid(p)
  BY <1>4 DEF ReadTrailer, ReadData, SendMid
<1>5. CASE MakeFileDir(p) \/ CreateData(p) \/ WriteData(p)
  BY <1>5 DEF MakeFileDir, CreateData, WriteData
<1> QED
  BY <1>1, <1>2, <1>3, <1>4, <1>5 DEF Post

(* A group, once there is one, stays; a message needs one. *)
LEMMA NoGroupNext == ASSUME SInv, NoGroup, [Next]_vars PROVE NoGroup'
<1> SUFFICES ASSUME group' = "none" PROVE DOMAIN store' = {}
  BY DEF NoGroup
<1>1. group = "none" /\ DOMAIN store = {}
  BY GroupStays DEF NoGroup
<1>2. DOMAIN store' = DOMAIN store
  BY <1>1, OtherSteps, MkdirNeedsGroup DEF Elsewhere, SInv
<1> QED
  BY <1>1, <1>2

(* When the disk keeps what is written to it and lists what it keeps, a    *)
(* retrieve that runs to its end has delivered, whole, every message of    *)
(* its window that had been acknowledged when its request was read         *)
(* (RetrieveSeesAcked).                                                    *)
THEOREM AckedIsSeen ==
  ASSUME Faults \cap {"flush", "open"} = {}
  PROVE  Spec => []RetrieveSeesAcked
<1>q. "flush" \notin Faults /\ "open" \notin Faults
  OBVIOUS
<1>1. Init => VInv
  <2>1. Init => \A r \in Readers : pc[r] = "idle" /\ rd[r].known = {}
    BY DEF Init, Children, NewReader
  <2>2. Init => NoGroup
    BY DEF Init, NoGroup
  <2> QED
    BY <2>1, <2>2, AInvInit DEF VInv, Sees, Loop
<1>2. ASSUME VInv, [Next]_vars PROVE VInv'
  <2>1. AInv' /\ NoGroup'
    BY <1>q, <1>2, AInvNext, NoGroupNext DEF VInv, AInv
  <2>2. ASSUME NEW r \in Readers PROVE Sees(r)'
    <3>1. CASE Away(r)
      BY <1>2, <2>1, <3>1, SeesAway DEF VInv
    <3>2. CASE /\ AcceptRetrieve(r) \/ Retrieve(r)
               /\ UNCHANGED <<group, store, msgDir>>
               /\ \A p \in Posters : reply'[p] = reply[p]
      BY <1>q, <1>2, <3>2, SeesList, SeesLoop DEF VInv, Retrieve
    <3> QED
      BY <1>2, <3>1, <3>2, ReaderSteps DEF VInv, AInv, SInv
  <2> QED
    BY <2>1, <2>2 DEF VInv
<1>3. VInv => RetrieveSeesAcked
  <2> SUFFICES ASSUME VInv, NEW r \in Readers, pc[r] = "done", NEW p \in Posters,
                      msgDir[p] \in rd[r].known,
                      rd[r].from <= msgDir[p], msgDir[p] < rd[r].from + Window
               PROVE  \E i \in 1..Len(rd[r].entries) :
                        rd[r].entries[i] = [mid |-> msgDir[p], msg |-> Whole(p)]
    BY DEF RetrieveSeesAcked
  <2>1. Wanted(r, p)
    BY DEF Wanted, InWindow, VInv, AInv, SInv, TypeOK, Locals
  <2> QED
    BY <2>1 DEF VInv, Sees, Sent, Loop
<1> QED
  BY <1>1, <1>2, <1>3, PTL DEF Spec
=============================================================================
