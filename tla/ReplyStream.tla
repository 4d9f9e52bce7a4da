----------------------------- MODULE ReplyStream -----------------------------
(***************************************************************************)
(* The answer to a retrieve or to a ulist, from the child that writes it   *)
(* to the client that takes it apart.                                      *)
(*                                                                         *)
(*   RRT OK N[ MID UID Tsize text[ / Fname Fsize data]]* NL                *)
(*   RUL OK GName [UID ]* NL                                               *)
(*                                                                         *)
(* The child writes an answer in pieces, and may die between two of them   *)
(* or within one (MessageBoard says what of).  The client reads it word by *)
(* word, and texts and files by their number of bytes; it takes the end of *)
(* the stream for an empty word.  Nothing tells it that an answer is       *)
(* short.  A word is one token here, a text is one token per byte.         *)
(***************************************************************************)
EXTENDS Naturals, SequencesExt

CONSTANTS
  MaxMessages,  \* bound: entries of a retrieve
  MaxUsers,     \* bound: users in a group
  MaxSize,      \* bound: bytes of a text, or of a file
  NoFile        \* the message has no file

ASSUME StreamAssumption ==
  /\ MaxMessages \in Nat /\ MaxUsers \in Nat /\ MaxSize \in Nat
  /\ NoFile \notin Nat

VARIABLES
  answer,  \* what the child has to answer
  part,    \* the piece that it writes next
  whole,   \* the entries that it has written to their last byte
  wire,    \* the tokens on their way to the client
  child,   \* it writes, or has closed the connection, or has died
  pc,      \* what the client reads next
  left,    \* retrieve: the entries still to come, N - i
  held,    \* retrieve: buffer, the word read ahead
  entry,   \* retrieve: the entry that is being read
  shown    \* what the client has printed

vars == <<answer, part, whole, wire, child, pc, left, held, entry, shown>>

Tok(what, v) == [what |-> what, v |-> v]
SP == Tok("SP", 0)
NL == Tok("NL", 0)
IsSeparator(token) == token \in {SP, NL}

Text(k, n) == [i \in 1..n |-> Tok("text", k)]
Data(k, n) == [i \in 1..n |-> Tok("data", k)]

Messages == [text: 0..MaxSize, file: 0..MaxSize \cup {NoFile}]
Answers ==
  [to: {"retrieve"}, status: {"OK"}, list: SeqOf(Messages, MaxMessages) \ {<< >>}]
    \cup [to: {"retrieve"}, status: {"EOF", "NOK"}, list: {<< >>}]
    \cup [to: {"ulist"}, status: {"OK"}, list: {[u \in 1..n |-> u] : n \in 0..MaxUsers}]
    \cup [to: {"ulist"}, status: {"NOK"}, list: {<< >>}]

----------------------------------------------------------------------------
(* What the child writes. *)

(* Mutant of Announced: the size of the text with its final zero. *)
WithZero(m) == m.text + 1

(* Tsize *)
Announced(m) == m.text

(* An entry: its head, its text with what announces the file, the file.    *)
EntryHead(k, m) == <<SP, Tok("mid", k), SP, Tok("uid", k), SP, Tok("size", Announced(m)), SP>>
FileHead(k, m)  == <<SP, Tok("/", 0), SP, Tok("fname", k), SP, Tok("size", m.file), SP>>
HasFile(m)      == m.file # NoFile

(* An answer without entries is one piece; that to a ulist names the users *)
(* in it.                                                                  *)
Users(n) == [i \in 1..(2 * n) |-> IF i % 2 = 1 THEN Tok("uid", (i + 1) \div 2) ELSE SP]

First(a) ==
  CASE a.to = "retrieve" /\ a.status = "OK"  ->
         <<Tok("RRT", 0), SP, Tok("OK", 0), SP, Tok("size", Len(a.list))>>
    [] a.to = "retrieve" /\ a.status = "EOF" ->
         <<Tok("RRT", 0), SP, Tok("EOF", 0), SP, Tok("size", 0), NL>>
    [] a.to = "retrieve" /\ a.status = "NOK" -> <<Tok("RRT", 0), SP, Tok("NOK", 0), NL>>
    [] a.to = "ulist" /\ a.status = "OK"     ->
         <<Tok("RUL", 0), SP, Tok("OK", 0), SP, Tok("name", 0), SP>> \o Users(Len(a.list)) \o <<NL>>
    [] a.to = "ulist" /\ a.status = "NOK"    -> <<Tok("RUL", 0), SP, Tok("NOK", 0), NL>>

HasEntries(a) == a.to = "retrieve" /\ a.status = "OK"

(* The message at hand. *)
Current == answer.list[whole + 1]

(* What the next write writes, and what is written after it. *)
Piece ==
  CASE part = "first"   -> First(answer)
    [] part = "head"    -> EntryHead(whole + 1, Current)
    [] part = "text"    -> Text(whole + 1, Current.text)
                             \o IF HasFile(Current) THEN FileHead(whole + 1, Current) ELSE << >>
    [] part = "data"    -> Data(whole + 1, Current.file)
    [] part = "newline" -> <<NL>>

EndsEntry == part = "data" \/ (part = "text" /\ ~HasFile(Current))

NextPart ==
  CASE part = "first" -> IF HasEntries(answer) THEN "head" ELSE "exit"
    [] part = "head"  -> "text"
    [] part = "text" /\ HasFile(Current) -> "data"
    [] EndsEntry -> IF whole + 1 < Len(answer.list) THEN "head" ELSE "newline"
    [] part = "newline" -> "exit"

NoEntry == [mid |-> << >>, uid |-> << >>, text |-> << >>, fname |-> << >>, file |-> << >>]

Init ==
  /\ answer \in Answers /\ part = "first" /\ whole = 0
  /\ wire = << >> /\ child = "writes"
  /\ pc = "verb" /\ left = 0 /\ held = << >> /\ entry = NoEntry /\ shown = << >>

client == <<pc, left, held, entry, shown>>

Write ==
  /\ child = "writes" /\ part # "exit"
  /\ wire' = wire \o Piece /\ part' = NextPart
  /\ whole' = IF EndsEntry THEN whole + 1 ELSE whole
  /\ UNCHANGED <<answer, child, client>>

(* Mutant of ChildExits: the child stays. *)
NeverExits == FALSE

(* parse_tcp_message returns: the connection is closed. *)
ChildExits == child = "writes" /\ part = "exit"

Close ==
  /\ ChildExits /\ child' = "closed"
  /\ UNCHANGED <<answer, part, whole, wire, client>>

(* It is killed, or dies of a file that is not there; a piece may be cut. *)
Die ==
  /\ child = "writes" /\ part # "exit" /\ child' = "died"
  /\ \E n \in {0} \cup 1..(Len(Piece) - 1) : wire' = wire \o SubSeq(Piece, 1, n)
  /\ UNCHANGED <<answer, part, whole, client>>

----------------------------------------------------------------------------
(* What the client reads. *)

AtEnd == child # "writes"

(* get_word_fd: the tokens before the next separator, or the end. *)
WordReady == AtEnd \/ \E i \in DOMAIN wire : IsSeparator(wire[i])
WordLen ==
  LET seps == {i \in DOMAIN wire : IsSeparator(wire[i])}
  IN  IF seps = {} THEN Len(wire) ELSE Min(seps) - 1
Word == SubSeq(wire, 1, WordLen)

Reads(stage, next) ==
  /\ pc = stage /\ WordReady
  /\ wire' = SubSeq(wire, WordLen + 2, Len(wire))
  /\ pc' = next /\ UNCHANGED <<answer, part, whole, child>>

(* atoi *)
Number(word) == IF Len(word) = 1 /\ word[1].what = "size" THEN word[1].v ELSE 0
Says(word, what) == Len(word) = 1 /\ word[1].what = what

FirstOf(n) == SubSeq(wire, 1, Min({n, Len(wire)}))

(* A loop of reads until n bytes are there, which has no other end. *)
Counts(stage, n, next) ==
  /\ pc = stage
  /\ \/ /\ Len(wire) >= n /\ wire' = SubSeq(wire, n + 1, Len(wire)) /\ pc' = next
     \/ AtEnd /\ Len(wire) < n /\ wire' = << >> /\ pc' = "spins"
  /\ UNCHANGED <<answer, part, whole, child>>

(* Mutant of Skipped: the separator behind a text is not thrown away. *)
NotSkipped == 0

(* read(fd, buffer, 1) *)
Skipped == 1

Skips(stage, next) ==
  /\ pc = stage /\ (AtEnd \/ wire # << >>)
  /\ wire' = SubSeq(wire, 1 + Skipped, Len(wire))
  /\ pc' = next /\ UNCHANGED <<answer, part, whole, child, left, held, entry, shown>>

(* The first words are compared with what is expected, and not acted on. *)
ReadVerb == Reads("verb", "status") /\ UNCHANGED <<left, held, entry, shown>>

ReadStatus ==
  /\ Reads("status", IF ~Says(Word, "OK") THEN "done"
                     ELSE IF answer.to = "ulist" THEN "name" ELSE "count")
  /\ UNCHANGED <<left, held, entry, shown>>

ReadCount == Reads("count", "ahead") /\ left' = Number(Word) /\ UNCHANGED <<held, entry, shown>>

(* Mutant of LoopOn: i <= N. *)
LoopOnceMore(n) == IF n < 0 THEN "done" ELSE "uid"

(* The head of the loop over the entries. *)
LoopOn(n) == IF n = 0 THEN "done" ELSE "uid"

(* The word before the loop: the first MID. *)
ReadAhead ==
  /\ Reads("ahead", LoopOn(left)) /\ held' = Word
  /\ entry' = [NoEntry EXCEPT !.mid = Word] /\ UNCHANGED <<left, shown>>

ReadUid == Reads("uid", "size") /\ entry' = [entry EXCEPT !.uid = Word] /\ UNCHANGED <<left, held, shown>>

(* msg_size, and later file_size, stay in held here. *)
ReadSize == Reads("size", "text") /\ held' = Word /\ UNCHANGED <<left, entry, shown>>

ReadText ==
  /\ Counts("text", Number(held), "sep")
  /\ entry' = [entry EXCEPT !.text = FirstOf(Number(held))]
  /\ UNCHANGED <<left, held, shown>>

SkipSep == Skips("sep", "slash")

(* Shows the entry; the word behind it is the next one's MID. *)
Shows(word) ==
  /\ left' = left - 1 /\ held' = word
  /\ entry' = [NoEntry EXCEPT !.mid = word]

ReadSlash ==
  \/ /\ Says(Word, "/") /\ Reads("slash", "fname") /\ UNCHANGED <<left, held, entry, shown>>
  \/ /\ ~Says(Word, "/") /\ Reads("slash", LoopOn(left - 1))
     /\ Shows(Word) /\ shown' = Append(shown, entry)

ReadFname == Reads("fname", "fsize") /\ entry' = [entry EXCEPT !.fname = Word] /\ UNCHANGED <<left, held, shown>>
ReadFsize == Reads("fsize", "data") /\ held' = Word /\ UNCHANGED <<left, entry, shown>>

ReadData ==
  /\ Counts("data", Number(held), "sep2")
  /\ entry' = [entry EXCEPT !.file = FirstOf(Number(held))]
  /\ UNCHANGED <<left, held, shown>>

SkipSep2 == Skips("sep2", "next")

ReadNext ==
  /\ Reads("next", LoopOn(left - 1))
  /\ Shows(Word) /\ shown' = Append(shown, entry)

Retrieve ==
  \/ ReadCount \/ ReadAhead \/ ReadUid \/ ReadSize \/ ReadText \/ SkipSep \/ ReadSlash
  \/ ReadFname \/ ReadFsize \/ ReadData \/ SkipSep2 \/ ReadNext

(* ulist: the name of the group, and words until an empty one, which is    *)
(* printed like the others.                                                *)
ReadName ==
  /\ Reads("name", IF Word = << >> THEN "done" ELSE "user")
  /\ UNCHANGED <<left, held, entry, shown>>

ReadUser ==
  /\ Reads("user", IF Word = << >> THEN "done" ELSE "user")
  /\ shown' = Append(shown, [NoEntry EXCEPT !.uid = Word]) /\ UNCHANGED <<left, held, entry>>

Client == ReadVerb \/ ReadStatus \/ Retrieve \/ ReadName \/ ReadUser

----------------------------------------------------------------------------
Next == Write \/ Close \/ Die \/ Client

Spec == Init /\ [][Next]_vars

(* The child writes without waiting for the client, and exits; the kernel  *)
(* wakes a client that has something to read.                              *)
FairSpec == Spec /\ WF_vars(Write \/ Close) /\ WF_vars(Client)

----------------------------------------------------------------------------
(* Properties. *)

Parts == {"first", "head", "text", "data", "newline", "exit"}
Stages ==
  {"verb", "status", "count", "ahead", "uid", "size", "text", "sep", "slash", "fname",
   "fsize", "data", "sep2", "next", "name", "user", "done", "spins"}

(* Every variable has its type. *)
TypeOK ==
  /\ answer \in Answers /\ part \in Parts /\ child \in {"writes", "closed", "died"} /\ pc \in Stages
  /\ whole \in 0..Len(answer.list) /\ left \in 0..MaxMessages
  /\ DOMAIN entry = DOMAIN NoEntry /\ Len(shown) <= MaxMessages + MaxUsers + 1

(* What a client has to show in the end: the messages, with their files;   *)
(* or the users, and an empty line.                                        *)
Whole(k, m) ==
  [mid |-> <<Tok("mid", k)>>, uid |-> <<Tok("uid", k)>>, text |-> Text(k, m.text),
   fname |-> IF m.file = NoFile THEN << >> ELSE <<Tok("fname", k)>>,
   file |-> IF m.file = NoFile THEN << >> ELSE Data(k, m.file)]

Expected ==
  CASE answer.status # "OK" -> << >>
    [] answer.to = "retrieve" /\ answer.status = "OK" -> [k \in DOMAIN answer.list |-> Whole(k, answer.list[k])]
    [] answer.to = "ulist" /\ answer.status = "OK" ->
         Append([u \in DOMAIN answer.list |-> [NoEntry EXCEPT !.uid = <<Tok("uid", u)>>]], NoEntry)

(* The entries appear in their order and unmixed.  One that was written to *)
(* its last byte is shown as it is; of the one in which the child died,    *)
(* and of those behind it, nothing is shown but what came of it.           *)
EntriesTrue ==
  /\ Len(shown) <= Len(Expected)
  /\ \A k \in DOMAIN shown :
       /\ k <= whole \/ child # "died" => shown[k] = Expected[k]
       /\ \A field \in DOMAIN NoEntry : IsPrefix(shown[k][field], Expected[k][field])

(* The client is caught in a loop of reads only when the child died within *)
(* an answer, with an entry unfinished.                                    *)
SpinsOnlyInside == pc = "spins" => child = "died" /\ whole < Len(answer.list)

(* Unless the child dies, the client shows all there is and gets done.     *)
AnswerShown ==
  [](child # "died") => <>(pc = "done" /\ shown = Expected)
=============================================================================
