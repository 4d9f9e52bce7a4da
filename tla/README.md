# Verification of Projeto-RC

Projeto-RC is a message board with a directory server (`src/src/server`) and a
text client (`src/src/user`). Users register and log in, subscribe to numbered
groups and post messages, with or without a file, that other users retrieve.
Requests about users and groups are datagrams that the server's only process
answers one at a time. Listing the members of a group, posting and retrieving go
over a TCP connection, and the server forks a child for each. Nothing is kept in
memory: the state is a tree of directories and files, which the parent and all
the children use without locks.

    SERVER/USERS/<UID>/pass.txt, login
    SERVER/GROUPS/<GID>/name.txt, <UID> (one empty file per member)
    SERVER/GROUPS/<GID>/MSG/<MID>/author.txt, text.txt, FILE/<name>

## Inventory

| component | state | operations | used by / uses | hard behaviour | what makes it correct |
|---|---|---|---|---|---|
| Message board of a group (`server/commands.c` post, retrieve) | `MSG/<MID>` directories, locals of each child | `post`, `retrieve` | clients over TCP; file system | children race without locks; a child dies, is killed or is cut off half-way; buffered writes | numbers without gaps, no mixing of messages, an acknowledged message stays whole and is delivered, children end |
| Directory of users and groups (the other handlers) | `USERS`, `GROUPS` | `reg`, `unregister`, `login_`, `logout_`, `subscribe`, `unsubscribe`, `groups`, `my_groups`; `ulist` in a child | clients over UDP, TCP | handlers of several calls that fail or are killed in the middle; `ulist` beside the parent | requests are atomic, answers agree with the files, only the owner removes an account, group numbers without gaps |
| File system helpers (`file_management.c`, `strlinkedlist.c`) | the tree; lists of names | create, delete, list | all handlers | creation of an empty file before its content; listings that leak their descriptors | a listing is complete and ordered |
| Main loop (`server.c`, `connection.c`) | sockets, the address of the last datagram, descriptors, children | select, receive, accept, fork | both of the above | datagrams go first; descriptors and zombies run out; a child inherits the sockets and the UDP address | it goes on serving both sockets until something has run out; nothing waits for ever |
| Client session and UDP requests (`user/*.c`) | uid, password, selected group | one request and its answer; `select`, `exit` | server, over UDP | lost, late and stray answers; 15 seconds, then the client ends | the answer taken is the request's own; the session agrees with the server's; a wait for a datagram ends |
| Client post, retrieve and ulist | one TCP connection | send a post; take an answer apart | a child of the server | a child that dies within its answer, or before it | what is shown was sent; the loops end |
| Readers (`common/util.c`) | none | `get_word`, `get_word_fd`, `read_fd`, `get_quote` | client and server | end of file, errors, one-byte steps | they return what was sent |

`PROJECT.json` lists every hazard at the line where it bites, with the
properties that would catch it going wrong, or the reason why none does yet.

## What is modelled

| module | what it is |
|---|---|
| `MessageLog` | abstract: a log in which a post takes a number, completes and is acknowledged |
| `MessageBoard` | the children of `post` and `retrieve` on the directory of one group |
| `MessageBoardProofs` | theorems about `MessageBoard`: its directory and its posts |
| `MessageLogProofs` | no holes; `MessageBoard` implements `MessageLog` |
| `RetrieveProofs` | what a retrieve sends while posts go on |
| `Protocol` | the requests that come in datagrams |
| `Directory` | abstract: accounts, sessions and groups, with atomic requests |
| `DirectoryServer` | the parent process, handler by handler, and the `ulist` children |
| `DirectoryServerProofs` | theorems about `DirectoryServer` |
| `DirectoryProofs` | `DirectoryServer` implements `Directory` |
| `ServerLoop` | the main loop of the parent, and the descriptors and processes it uses up |
| `ServerLoopProofs` | theorems about `ServerLoop` |
| `UserSession` | the clients with their sessions and datagrams, composed with `Directory` |
| `UserSessionProofs` | theorems about `UserSession` |
| `ReplyStream` | the two ends of the answer to a retrieve or a ulist |
| `ReplyStreamProofs` | theorems about `ReplyStream` |
| `MC*` | the environments of the model-checked instances |

Three of them meet in the abstract directory: `DirectoryServer` implements
`Directory`, and `UserSession` has `Directory` for its server. `ServerLoop` decides
when the handlers of `DirectoryServer` and the children of `MessageBoard` run, and
keeps of them only what they cost. `ReplyStream` is the connection between the
`retrieve` of `MessageBoard` (or the `ulist` of `DirectoryServer`) and the client; the
deaths of the child that those modules explain are there a child that dies anywhere.

### MessageBoard

The state is `store`, the message directories with the content of each file, the
stage `pc` of each child with its locals, and, for each child, how much of its
request its client has sent (`upload`) and whether the client is there, has fallen
`silent`, or has closed the connection (`gone`). What a file holds is told apart by the post that wrote it: `Absent`,
`Partial` (opened and not, or not all, flushed), or the post itself.

`post()` is one action per call: `ReadHeader`, `CheckGroup` (`directory_exists`),
`CountMessages` (`list_subdirectories` and the addition), `MakeMessageDir`
(`mkdir`), `CreateAuthor`/`WriteAuthor` and `CreateText`/`WriteText` (`create_file`,
cut in two because `fopen` makes an empty file that other children can read),
`ReadTrailer` (is there a file?), `MakeFileDir`, `ReadData`, `CreateData`,
`WriteData`, `SendMid`. `retrieve()` is `ReadRequest` (the reads of the verb and of
the three words: they wait for a silent client; at end of file `read_fd` spins, and
`get_word_fd` gives an empty word), `CheckBoard`, `OpenList`, `ListMessages`
(a listing that overlaps additions may or may not show them, and one whose `opendir`
fails is empty), and for each message `ReadAuthor`, `ReadText`, `ReadFile`, then
`EndLoop`; `BrokenPipe` is the SIGPIPE of a write to a client that is gone. The buffer of the
author is not cleared between messages, and `AuthorSeen` says what it holds when
the file is empty. A null stream, of a file that is missing or that cannot be opened, is
a crash of the child.

### DirectoryServer

The state is the tree as sets and functions: `tree` (the three top directories),
`homes`, `pass`, `login`, `groups`, `msgs`, `name`, `members`. The parent has a
stage `pc`, the request `req` it serves, the locals `gid` and `todo`, and `out`, the
answer once it is formatted. `missed` is what `fopen` for reading and `opendir` will fail
on in this request: `pass.txt` and `name.txt` (`Legible`), the user's directory, which
`delete_directory` then finds empty and cannot remove, or `GROUPS`, whose listing
(`Listed`) is then empty. Each handler is a chain of actions, one for each call
that changes the files:

* `reg`: `Register` (mkdir), `CreatePass`, `WritePass`;
* `unregister`: `Unregister`, `DeleteFile` in any order, `DeleteHome`, `LeaveGroup`
  for each group in any order, `Unregistered`; `CannotDelete` is the early return;
* `login_`, `logout_`: `Login`, `Logout`; all three refuse in `Refuse`;
* `subscribe`: `Subscribe` (the tests, and mkdir of a new group), `MakeMsgDir`,
  `CreateName`, `WriteName`, then `CompareName` or `NameMissing`, the second half
  that an existing group goes to directly;
* `unsubscribe`: `Unsubscribe`; `groups` and `my_groups`: `ListGroups`, `ListMine`
  (only the parent changes what they read, so one step stands for them);
* `ulist`, in a child: `AcceptUlist`, `ReadRequest` (the verb and the GID, with `read_fd`,
  which waits for a silent client and spins when it has gone), `Look`, `ReadName`,
  `ReadEntry` once for each user (the order in which `readdir` comes by), `SendList`;
  `SendRequest` is the client's part.

`Start`, `MakeUsers` and `MakeGroups` are `create_filesystem`. A call that fails ends
its handler with a status NOK where the code returns early, and leaves what was
made. `fscanf` on a null stream stops the server (`pc = "fault"`); the operator
starts it again, once no child holds the port. An empty `pass.txt` or `name.txt`
leaves an uninitialised buffer, so that a comparison with it goes either way.

### ServerLoop

`udp` and `backlog` are what waits at the two sockets, `pc` is where the parent is in its
loop. `Select` is `select` with the two tests behind it: a connection has its turn only
when no datagram waits. `Accept` takes a descriptor for the connection, `Fork` gives the
child a copy, and `Close` gives the parent's own back; where one of them fails the loop
ends, as it does in the code (`running = FALSE`). A datagram is no more here than the files
and directories it opens: `Plain`, `Register`, `ReadFile`, `Unregister`, `Found`,
`Missing`, `ListAll` and `ListMine` are the handlers seen from the descriptor table. Every
`opendir` stays open (`free(d)`), every child that ends stays a zombie, and a handler that
cannot open the file it wants to read dies of the null stream. What a server without
descriptors leaves behind outlives it: a group made without a name (`nameless`) and an
account registered without a `pass.txt` (`passless`) each kill a later server that has
all its descriptors. `Restart` waits until no
child is left, because a child keeps the UDP socket and `bind` fails.

### UserSession

Each user has one client at a time (`stage`, `session`, the request `cmd` it waits for) and
a socket (`inbox`). Each command is an action that sends a datagram (`AskReg` to
`AskMyGroups`, `AskLogout`, `Exit`), and `Receive` takes the first datagram there is and
does what the command does with its second word (`Handle`). The verb is compared by
`EXPECT`, which prints and goes on, so it changes nothing. `TimeOut` is the end of the 15
seconds: the command returns `FERROR`, which is 0, and `main` leaves its loop on 0, so the
client is gone without a logout; `Start` is the user's next client. The server is
`Directory` with the address it answers to (`peer`). A post that fails sends its NOK to
the address that its child inherited (`heard`), whoever that is, and closes the poster's
connection without an answer (`PostFails`, `CutShort`). A post waits in the backlog until
the server takes it, behind the datagrams (`Post`, `AcceptPost`), and its client reads
without a timeout: it may wait for ever.

### ReplyStream

`Piece` is what the next `write` of the child writes, with one token for a word and one
for each byte of a text or a file, and `NextPart` says which piece follows: an entry of a
retrieve is its head, its text with what announces the file, and the file. `Die` lets the
child end between two pieces or within one. The client is one action for each read of
`retrieve()` and `ulist()`: `get_word_fd` returns what comes before the next separator, or
before the end of the stream; a text and a file are read by a loop that only the count
ends, so that at the end of the stream it spins.

## What is checked

All configurations check deadlock, except those of `MessageBoard`, where finitely many
requests are served and the system then rests, that of `ReplyStream`, where one
answer is, and `dir_ulist`, where a server that a segmentation fault has ended cannot be
started again while a child that spins holds its port.

| run | instance | what it shows |
|---|---|---|
| `board_faults` | 2 posts, 1 with a file; all faults; fair | types; MIDs are 1..n; no directory mixes two posts; nothing written is replaced; every post whose request has come ends |
| `board_durable` | 2 posts, 1 retrieve, window 2; no lost flush, no listing that fails, a reader that stays | an acknowledged message is whole for ever, and a later retrieve delivers it; `MessageBoard` implements `MessageLog` |
| `board_reads` | 2 posts, 1 retrieve, window 1; children are killed, files and directories fail to open for reading, the reader falls silent or hangs up; fair | only a killed child leaves a message unfinished (the loser of a race leaves no hole); a retrieve sends as many entries as it announced; a retrieve whose request came in full ends, unless its client stops reading |
| `dir_faults` | 2 users, 2 passwords, 2 group numbers; all faults | types; group numbers are 1..n; an answer that grants a request agrees with the files, or with an empty list where `opendir` of `GROUPS` failed in that very request; only its owner's request removes an account or a session |
| `dir_clean` | 2 users, 2 passwords, 2 group numbers, 3 names; no fault | accounts, groups and memberships are whole between requests; only a subscription crashes the server; `DirectoryServer` implements `Directory` |
| `dir_ulist` | 1 ULS child, 2 groups; creations, removals and opens for reading fail, the client of the child hangs up; fair | a child dies only over a group that had no name when the request was read, or over a file it cannot open; a datagram that finds sound files is answered, and so is a ULS request that came in full |
| `session` | 2 clients, 1 of them posting, 1 user, 2 passwords, 1 group; any one fault; fair | until a stray datagram comes to it, a client takes only the answer to the request it waits for, and the session of a user whom no other client uses is in step with the server at every prompt; no session inherits a group; no client waits for ever for a datagram, nor for a child that has died |
| `server_loop` | 2 connections, 2 datagrams waiting, 5 descriptors and 3 processes to spend, 2 groups; fair | the loop ends only when listings have used up the descriptors or children the processes, and a datagram ends the server only for the reasons listed: a group that is not there, a hundredth group, too few descriptors left, or what an exhausted server left without a name or a password; one connection at most overtakes a datagram; connections are served once datagrams stop |
| `reply_stream` | up to 2 messages or users, texts and files of up to 2 bytes; the child dies anywhere; fair | what was written whole is shown whole, in order and unmixed; the client spins only within an unfinished entry; unless the child dies it shows everything |

`SessionInStep`, `AnswerIsOurs` and `WaitsEnd` are about lost and late answers, and hold
because a timeout ends the client: the mutant in which it comes back to the prompt
breaks the first two at once.

These runs refute a comment of the code; each finding quotes it.

| run | what TLC finds |
|---|---|
| `board_misattributed` | a retrieve sends a text under the name of the author of the message before |
| `dir_unknown` | a subscription to a group that there is not kills the server: `groups_dir` is tested in place of `group_dir` |
| `session_stray` | the `RPT NOK` of a failed post comes in a datagram to another client, which the server heard last and which is not posting; that client stays one answer behind, and its login with a wrong password opens a session on the OK of its earlier request |

More behaviours of the code are in the models without a run of their own. A post that
loses the race for its MID is never answered on its connection (`NokOverUdp`). A retrieve
that meets a message being written dies in the middle of its answer (`FaultIf`). When
`opendir` of `GROUPS` fails, the listing cannot tell that from an empty directory:
`unregister` answers `RUN OK` and leaves the memberships, `groups` and `my_groups` answer
`RGL 0` and `RGM 0` although there are groups. `AnswersTrue` names these false answers as
its exceptions and shows that a failure to list makes no other. An
account whose `pass.txt` could not be created kills the server at its next login, and a
server killed during its first start never makes `USERS` or `GROUPS` again. When
all group numbers are taken, `subscribe` formats `E_FULL` and goes on to open the name
of a group that is not there, so the server dies (`CrashOnlyInGsr` counts it among the
subscriptions). `my_groups` refuses with the verb `RGS`, which the client does not
expect. A ULS child dies over a group that the parent has not yet named
(`UlistCrashesOnlyUnnamed` says that it dies of nothing else).

### Bounds

Two posts are enough for a race, and one of them has a file so that both shapes of a
message meet. `Window = 2` (20 in the code) with two
messages reaches both ends of the window, and `MaxFrom` bounds the first MID asked
for. `MaxGroups = 2` (99 in the code) lets one group exist while the next is made,
and fills the directory. In `dir_ulist` one user and one password are enough, because the
child looks at neither. Two
users and two passwords tell apart the owner's requests from another's. The number
of datagrams is not bounded. In `board_reads` the window is one message, so that there
is one behind it.

In `session`, `MaxTrouble = 1` lets any one fault of the environment happen, between any
two steps: one is enough for a request of an ended client to wait in the server's socket
while the next client sends others. The number of commands and of a user's
clients is not bounded. The second client has no account and is there to be heard by the server and
hit by the stray datagram. In `session_stray` both clients have an account of their own; the
second founds a group and posts, and the property is about the first. In `server_loop`, `MaxFds - Base = 5` is one more than the
longest listing of two groups needs, so that a server lists, lists again and runs out;
`MaxForks = 3` leaves room for both connections, a zombie, and one fork too many;
`UdpBuffer = 2` lets a datagram come while another is served. The history variables
`opened` and `forked` are bounded by these. In `reply_stream` two messages are enough for
a word that is read ahead to belong to the next, and two bytes for a text cut within.

### Fairness

The runs marked fair use `FairSpec`, the others `Spec`; the first only removes behaviours
that stop, so what it says of safety is said of every behaviour.
`post` and `retrieve` children, `ulist` children, the parent's handlers and its loop take
a step when they can (weak fairness on each process): the kernel schedules them and
none holds a lock. A client that waits is woken by a datagram, by the end of its 15
seconds or by the end of its connection. That a post is accepted or answered is not
assumed: datagrams go first, the child may wait, and the client reads without a timeout, so
`WaitsEnd` says nothing of a post that is queued or under way. Nothing is assumed of users,
of the operator, of the network or of the arrival of requests. A client that falls silent
blocks the writes of its retrieve (`RetrieveSettles` leaves it out, and the fairness of
`Retrieve` does not hold for it). A child whose client cuts its request off may spin for
ever (`read_fd` at end of file), and `PostSettles`, `RetrieveSettles` and
`RequestsAnswered` say so by requiring a request that came in full. `RequestsAnswered` does
not take a crash for an answer: of a datagram it requires that the files it reads are there
and can be opened (`Sound`), because otherwise the server dies of it. A client that reads
an answer from a child that dies within it may spin too, and `AnswerShown` says so.
`ConnectionServed` requires that datagrams stop: the code lets them starve the
connections.

## What is proved

Every invariant, every property of steps and both refinements that a passing run checks
are theorems too. They hold for any number of users, clients, groups, posts, retrieves,
connections, entries and bytes and, where nothing else is said, any faults. The only
assumptions are those named in the modules (`BoardAssumption`, `ProtocolAssumption`,
`DirectoryAssumption`, `LoopAssumption`, `SessionAssumption`, `StreamAssumption`), which
say that the placeholders are distinct from the data (`NoAccount` is no password,
`NoFile` no size), and that a limit is a number no smaller than what a server starts
with. `ASSUME` in a theorem names the faults that it excludes, the same as its run does.

`MessageBoardProofs`. The invariant `SInv` joins `TypeOK` with: the MIDs are 1..n, and
a post about to `mkdir` has counted no more than n (`Contiguous`); no two posts own
the same directory (`Placed`); a post has not yet written what it is going to write
(`Unwritten`); a reader's list names existing directories (`Listed`). None of the
safety properties is inductive without them: that a MID is given out once rests on
`mkdir` failing for one that exists, which gives the next number only because there
are no gaps. From it follow `TypeCorrect`, `MidsAreContiguous` and `NothingIsReplaced`,
under every fault. `AckedStaysIntact` needs in addition what each stage of a post has
written so far (`Sound`), and that no flush is lost. `MessagesAreUnmixed` rests on what a
message holds of a post being in the directory which that post made (`Signed`), and on a
post having none before its `mkdir` (`Unplaced`): the posts of one directory are then
one. It holds under every fault.

`MessageLogProofs`. `NoHolesAreLeft`, for children that may be killed while no call fails
and no client hangs up, adds that every directory is that of a post (`Owned`) and that a
post comes to its end with its message whole or without one (`Finished`). For
`DirectoryIsALog` (`ImplementsLog`, no flush lost), `LogTerms` puts the steps of the log in
the terms of the files, and each step of the children is shown to be one of them: `mkdir`
takes a number, and the next one because there are no gaps; the last write of a post
completes it, because before that a file is missing or unflushed; `SendMid`
acknowledges; all others change nothing that the log speaks of.

`RetrieveProofs`. `AnnouncedIsSent` counts: as long as no message has been added since
`opendir`, the entries sent and the messages left in the list make up the count announced
(`Sized`), which is the number of messages in the window (`WindowSize`, the arithmetic of
both ends of it). For `AckedIsSeen`, `Sees` follows an acknowledged message of the window
through a retrieve: it was in the directory at `opendir`, so `readdir` shows it; it stays
in the list until its entry is sent; and what the reader has in its buffers is what the post
wrote, since an acknowledged message stays whole. It is for a server whose listings do not
fail: one that does is empty, and `EOF` is answered. Both hold next to any number of posts.

`DirectoryServerProofs`. The invariant `DInv` joins `TypeOK` with what each stage knows
of the request it serves (`Serves`), the absence of gaps (`Contiguous`), that a user
without a directory has no files (`Housed`), and what is known of the password while
it is made or removed (`Passing`). From it follow `TypeCorrect`, `GidsAreContiguous`
and, as a property of steps, `OwnersRemove`, under every fault. `AnswersAreTrue` needs what
a handler has done by the stage at which it formats its answer: `Answering`, `Progress`
(an `unregister()` has left all groups that are not in `todo`), and that a group with a
name has its `MSG` (`Rooted`). An earlier request may have left anything half-done, and
the answer is true all the same, up to what a failing `opendir` of `GROUPS` hides from the
very request (`Listed`). `UlistDiesUnnamed` says of a child that its group stays
and keeps the name that it had (`Named`). `CInv` adds, for a
server none of whose calls fails, that accounts and groups are whole but for the one
the handler at hand is making or removing; from it follow
`HandlersLeaveNothingHalfDone` and `OnlySubscriptionsCrash`.

`DirectoryProofs`. `ServerIsADirectory` (`ImplementsDirectory`) is for a server none of
whose calls fails. `unregister()` takes effect at the instant at which it is admitted (its
user counts as gone while the files are still there), every other request with its
answer, and a new group counts from the end of its subscription. `PInv` joins `DInv`,
`CInv` and the invariant of `AnswersAreTrue` with: the tree is complete before the first
request (`Treed`); while a group is made it is the last one and has no members (`Making`),
so that what counts of the groups is numbered 1..n as well (`Counted`). `DirTerms` puts
the steps of the directory in the terms of the files, and the lemmas about the handlers
(`AccountsTake`, `JoinTakes`, `ListsTake`...) show each step to be one of them or none.

`ServerLoopProofs`. The invariant `LInv` joins `TypeOK` and `DatagramsFirst` with: the
descriptors are those of the start, of the directories listed, and of the connection at
hand (`DescriptorsAccounted`, which follows from the shape of the loop and is needed for the
rest); a server that has ended holds nothing (`Resting`); no connection
has overtaken a datagram when `select` has found none (`Turn`); a connection waits once
and has no child meanwhile (`Lines`), so that every child forked is one that runs or a
zombie (`Counted`). The last is what ties the end of the loop to the number of forks:
without it `~CanFork` says nothing of the past. From it follow `TypeCorrect`,
`DatagramsComeFirst` and, as properties of steps,
`ExhaustionEndsTheLoop` and `ExhaustionKills`, for any limits.

`UserSessionProofs`. That an answer is the client's own (`AnswersAreOurs`) rests on there
being only one thing of a client's under way: a request in the server's socket, or one at
hand, or an answer (`Single`), and on the client's end at a timeout, which takes its name
from all three. `SessionsInStep` needs more, because an earlier client of the same user
may have left a logout in the server's socket. The socket keeps its order, so whatever is
about the user was sent before the login of the client there is now (`Following`), and
is gone once that has been taken (`Untouched`); while the session lasts, only its
client's requests are about its user (`OnlyItsOwn`); when the server ends the session,
the client is waiting for the answer that says so (`OutOfStep`), and when it opens one,
for the answer that grants the login (`Opening`). These parts hold of a user whom no
other client asks about and of a client that no stray datagram has reached; what a
client asks about is its own (`Owned`). `TypeCorrect` and `NothingInherited` follow from
the first part, `Typing`, which adds that a session without a user has no group. The
steps of a client are sorted by what they change (`ClientSteps`) before each part is
shown to survive them.

`ReplyStreamProofs`. The answer is laid out in sections, each up to and with the
separator that ends it: section 0 is what comes before the entries, section k the k-th
entry. `Layout` is the table of where they begin; that it exists is proved by taking the
least number of sections without one. `At` says which token stands at each place. The
inductive invariant `RInv` says that the child is at a place of that layout (`Making`,
`Made`), that the client is at one as well, and that the wire holds what stands between
them (`Carries`). A client is either there and has read what stands before its place
(`InPlace`), or the child has died and the client has run out of bytes: what it has of the
entry is right or empty, and the entry is not one that was written whole, unless the
client has all of it (`Short`). The second half is what makes `EntriesTrue` inductive: a
client that has lost its place never finds anything again, because the wire is empty.
Each read moves from place to place, because the first separator behind it is where the
layout has it, and the announced size is the number of bytes that follow. From `RInv`
follow `TypeCorrect`, `EntriesAreTrue` and `SpinsInside`, for answers of any length,
whatever byte the child dies at.

## What is only model-checked

Liveness under fairness is out of the prover's reach and stays with TLC: `PostSettles`,
`RetrieveSettles`, `RequestsAnswered`, `WaitsEnd`, `ConnectionServed` and `AnswerShown`. So do
the three properties that runs refute.

## What is not modelled

Requests that do not pass the checks of their arguments; the wording of answers;
message counts in the listings of groups; reordering of the directory entries that
`readdir` returns, beyond what the handlers depend on; datagrams that overtake each other
or come twice; a client that uses the address of one that ended; the reset that closing
a connection with unread input may cause, and the minutes for which the system may hold
the port of a server that ended; a word cut within, of which the client may read a
shorter number; the file that a retrieve stores at the client; the access to a freed
buffer in `retrieve()` for a malformed request, and the two allocations that are too
small (`PROJECT.json` lists them). `get_word`, `get_quote`, `get_line` and the linked list work
on memory that one process owns, and are modelled by what their callers get.

## Plan

1. `MessageLog`, `MessageBoard`, proofs: done.
2. `Protocol`, `Directory`, `DirectoryServer`, proofs: done.
3. `UserSession` with `Directory` as its server, proofs: done.
4. `ServerLoop`, proofs: done.
5. `ReplyStream`, proofs: done.
6. Proofs of all safety properties and of both refinements: done. Worth a theorem yet:
   properties of steps that no run asks for, such as that a retrieve changes no file.
7. Pure operators against reference definitions: the ordered list, `get_word` and
   `get_quote`.
