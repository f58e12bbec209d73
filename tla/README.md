# A TLA+ model of the remote file system over TCP

The program (C, about 1300 lines) is a small remote file system: `./server`
keeps files in the directory `file` and their permissions in the directory
`meta`; each run of `./client rfs <command>` opens one connection and runs one
command: WRITE, GET, RM, LS, STOP, or HELP. This project models the server, its
handler threads, the clients, the connections and the disk, checks what they do
together with TLC, and proves all of its safety properties for any number of
clients, up to the promise that, for users who come one at a time, it is a store
whose requests are atomic.

## The system

| Component | Source | State | Operations |
|---|---|---|---|
| accept loop | `server.c:65-157` | one stack buffer, the socket being looked at | accept, recv the request, cut it into tokens, STOP, SKIP, start a thread, return |
| handler threads | `server.c:31-61`, `serverHandler.c` | command, permission, path, two descriptors, a message | `handle_client`, `handle_write`, `handle_get`, `handle_rm`, `handle_ls` |
| client process | `client.c`, `clientHandler.c` | where it is, its local file, the answer it printed, its exit status | `client_write`, `client_get`, `client_rm`, `client_ls`, `client_stop`, `client_close` |
| header conversion | `parseHdr.c` | none | `headerToString`, `getPermission` |
| cipher | `cipher.c` | none | `pbEncode`, `pbDecode` |
| directory creation | `utils.c` | the directories | `createDir`, `createDirRecursive` |
| TCP connections | external | two ends, two queues, the listen queue | connect, accept, send, recv, close |
| the disk | external | names, inodes, contents | open, read, write, unlink, fcntl |

How they interact:

* The loop receives each request itself, then hands the thread *pointers into
  its own buffer* (`strtok`). It clears and refills the buffer for the next
  client while the thread still reads its command, permission and path there.
* A handler and its client exchange messages without framing: WRITE is request,
  acknowledgement, contents, result; GET is request, contents, acknowledgement,
  result; RM and LS are request, result. An end of file counts as a message in
  most of these places, because only `recv() < 0` is looked at.
* Handlers share the two directory trees. They lock what they open with `fcntl`,
  but such locks belong to the process, so they exclude no other thread.
* Threads are detached, nothing handles SIGPIPE, and main returns on STOP: the
  end of the process takes every handler with it, wherever it is.

What makes each part correct:

* accept loop: no client's behaviour ends the server; every connection gets
  looked at; STOP does not tear requests apart.
* handlers: a handler runs the request of its own client; a read-only file is
  left alone; a header is always one that somebody wrote; descriptors are
  closed; every handler ends.
* clients: every session ends; the answer is the answer to the request.
* connections: at most one text is under way, since nothing separates two.
* together: a store in which each request is one atomic step.

The list of hazards, each with its line and the properties that cover it, is in
`PROJECT.json`.

## The modules

| Module | What it is |
|---|---|
| `RfsCommon` | requests, texts, the cipher and header conversions |
| `Connection` | the TCP connections (external) |
| `Disk` | the two directory trees (external), and `getPermission` on them |
| `RfsServer` | the accept loop and the handler threads |
| `RfsClient` | the client processes |
| `Rfs` | the composition: `Init`, `Next`, fairness, the properties and the invariants |
| `RemoteFiles` | the abstract specification: an atomic file store |
| `RfsRefinement` | the refinement mapping from `Rfs` to `RemoteFiles` |
| `MCRfs` | the instances TLC checks; one `.cfg` per run |
| `Polybius`, `CipherFile`, `MCCipher` | the cipher on characters, one ciphered file, its instance |
| `CreateDir`, `MCCreateDir` | `createDir` by several threads, its instances |
| `RfsLimits`, `MCRfsLimits` | `Rfs` in a process with a limit on descriptors and threads; its instances |
| `Transfer`, `MCTransfer` | one file as bytes on a TCP that cuts messages, with buffers of a size; its instance |
| `RfsProofs` | proofs about processes and connections: types, one text at a time, no signal ends the server |
| `DiskProofs` | proofs about descriptors and files: what is left open, readable headers, who empties a file |
| `OrderProofs` | proofs for users that come one after the other: integrity of requests, read-only headers, that `Rfs` implements `RemoteFiles`, and whole files |
| `RfsLimitsProofs` | the proofs that one text at a time is under way under the limits too, that leaks never fill the table, and which limits are no limits |
| `CreateDirProofs` | the proofs about `createDir` |
| `PolybiusProofs` | lemmas: what `pbEncode` makes of any text, and that `pbDecode` undoes it |
| `CipherProofs` | the proof that a ciphered file decodes to its text |
| `TransferProofs` | the proofs that texts come back, and of what success and failure mean |

`RfsServer` extends `Connection` and `Disk`; `RfsClient` extends `Connection`;
`Rfs` extends both. An action of the server or the client leaves the other's
variables to `Rfs`, which adds the `UNCHANGED`.

### How state and actions correspond to the code

*One action is one access to something another thread or process can touch*: the
shared buffer, a socket, or the disk. What lies between two accesses is local
and part of the action before it. `pc[c]` names the place of the handler of
connection `c` (prefix `w_`, `g_`, `r_`, `l_` for the four handlers), `cpc[c]`
that of the client, `mpc` that of the loop.

* **The shared buffer.** `buf` holds whose line is in it and whether `strtok`
  has cut it. What a handler finds at its pointers is computed from that:
  `CommandsRead`, `PathsRead`, `PermissionRead`. Names have one length, so the
  path pointer of a handler points at the path of another line exactly when
  both commands have the same length (`PathOffset`); otherwise it points at the
  empty string or at cut-off text (`Garbled`). A chain of `strcmp` calls that
  straddles a change of the buffer may match nothing: the outcome `None`. The
  race is undefined behaviour in C; these are the outcomes of reading the bytes
  before or after the change.
* **handle_write** reads the path three times: into the meta path, into the file
  path, and into the refusal. The send of the acknowledgement and the first
  read are one action (`WriteAck`); the text of the refusal is a fixed note.
* **handle_rm** reads the header twice (`RmCheck`, `RmRecheck`), as the code
  does, and the model keeps the descriptors the code leaves open.
* **Writes** go to the inode a descriptor is open on, from offset 0, and leave
  what was longer behind them (`Overlay`): two handlers that write one file
  produce the mixtures that the program would. A two-digit header is a `-1`
  whose first byte was replaced.
* **Locks** do nothing, because all lockers are one process (`Disk`).
* **Texts** are sequences of cells. A cell carries its case on the wire and
  loses it on the disk: that is what the cipher does to a text (`PbEncode`
  upper-cases, `PbDecode` gives back upper case).
* **Connections** follow Linux: queued data is delivered after a FIN or a reset;
  closing with unread data resets the peer; the first send to a closed peer
  succeeds and provokes a reset; after a FIN, recv keeps returning 0 and a send
  after that reset raises SIGPIPE.
* **The client's buffers**: `client_write` and `client_get` clear theirs before
  the last recv, `client_rm` and `client_ls` do not, so on an end of file they
  may print anything: the note `stale`.
* **The exit status** is `ok` for 0. HELP and malformed commands both send
  `SKIP`; one exits 0, the other 1, hence two outcomes.
* **The end of the process** (`ServerDies`) is one action: STOP's return from
  main, SIGPIPE, or the `strcmp` of a NULL pointer.

* **The cipher** is modelled twice: as a change of case in `RfsCommon`, and
  character by character in `Polybius`. `CipherFile` joins the two: its
  `ClearText` says that a file of ciphered characters, however it was written
  over, decodes to the overlay of the texts in upper case. That is what lets a
  cell of `Rfs` stand for whole characters.
* **createDir** is a walk along one path: `depth` is the length of the prefix in
  the current call of `createDirRecursive`, `first` and `again` are its two
  `mkdir` calls, and a return value of 0 moves on to the next longer prefix.
  `dirs` records who made each directory, for `FailureExcused` only.

* **Limits** (`RfsLimits`) add no state: the sockets and files that are open are
  counted. At the limit accept goes round (`AcceptFails`), every open of a
  handler fails (`OpenRefused`), and a header that cannot be opened counts as
  absent, because `getPermission` returns -1 for that too. `pthread_create`
  fails by a positive number, which the code takes for success
  (`SpawnRefused`). What the properties show: handlers that have ended never
  hold all descriptors, because the last that any of them opened needed room
  beside their own socket, which is closed; so accept succeeds again in the
  end, although the server may have become unable to do anything for the user
  it accepts.
* **Bytes** (`Transfer`): the queues of a connection are bytes, and a recv takes
  what one buffer holds or, when `parts` holds, any beginning of the queue. A
  buffer filled to its end has no zero, so `strlen` goes on (`AsString`). All
  that is left of a session but its file is abstracted: permission is given,
  the request arrives whole, RM is one step.

### Abstractions

In `Rfs`, names are flat and contain no digit; both trees exist (so `createDir` changes
nothing); no other process touches them; open, write and fcntl on valid
descriptors succeed; memory and, but for `RfsLimits`, threads and descriptors
can be had; the listen queue is not full; a text fits the buffers and one send is received by one recv (`Transfer`
drops the last two). Bounds: each
client is one run of `./client`, and the number of clients, the names and the
local files are constants of the instance; no other counter needs a bound.

## The runs

The runs of `Rfs` use `MCRfs` with one name: every conflict is a conflict about one name,
except the ones through the buffer, which reach the second path `Garbled` and
the empty path.

| Run | Instance | Shows |
|---|---|---|
| `sequential` | three clients, each of the seven requests, one after the other, over five disks a crash may leave | `FilesImplemented`: the server refines the atomic store; `RequestIntegrity`; `FilesWhole`; `ReadOnlyStable`; `GracefulStop` |
| `concurrent` | two clients at once, each of the seven requests, three disks | `TypeOK`, `HeadersReadable`, `EmptiedByFailure`, `ServerSurvives` |
| `faulty` | two clients at once, with one request of each exchange in each role; one has a local path that cannot be opened, the other may be killed at any step | `LockStep`, `LeaksKnown`, `EmptiedByFailure`, `SignalHasCause`, `EverySessionEnds`, `EveryHandlerEnds` |
| `cipher` | texts of up to three characters out of eleven, of every kind | `ClearText` |
| `make_dirs` | three threads, files that share none, some or all of their directories or have the name of a directory, one tree that exists and one that does not | `FailureExcused`, `SomeoneSucceeds`, `DirectoryThere`, `CreateDirReturns` |
| `limits` | three users at once, whose handlers leave two, one and no descriptors open; three descriptors, two threads | `LeaksLeaveRoom`, `EveryoneAccepted` |
| `transfer` | any number of users, one at a time; buffers of eight bytes, files of 0 to 9 bytes, messages whole or cut anywhere | `RoundTrip`, `SuccessMeansStored`, `CopyIsCurrent`, `CrashOnlyWhenLong`, `SessionsEnd` |

Three sequential clients reach what matters of an unbounded sequence: any disk a
crash leaves (`AllLeftovers`), then one request that changes it, one that meets
the change, and one that meets what the second left. Two concurrent clients give
every pair of handlers, and the second is the one that overwrites the buffer.
`EmptiedByFailure` is checked there, with a WRITE and an RM of one file that
overlap and both succeed, and in `faulty`, with clients that fail. What two users cannot do
is lay a digit over a header of `-1`: one handler must take the line of a WRITE
for its own, and a third line must lead the two to one path.
That case of `HeadersReadable` is covered by its proof alone.
The two texts of the local files differ in length, so a shorter can be written
over a longer. Three threads give `createDir` one that
is disturbed twice; paths of four names give a recursion of depth three. Three
characters give a text that is shorter, as long as, and longer than another
that is not empty.

Three descriptors are the fewest that let any handler work (a socket and the two
files of a WRITE or RM) and few enough that the three users reach the limit in
every place where the code opens something. In `transfer` a cipher of half a
buffer fills the other, so that files of 0 to 3, 4, 7, 8 and 9 bytes are on both
sides of every limit; a fixed message is two bytes, which is enough to be cut.

Five runs find disagreements between the code and what it says of itself:

| Run | Property | What happens |
|---|---|---|
| `shared_buffer` | `RequestIntegrity` | two users at once: a handler runs another user's command, path or permission (`Readme.md:19`) |
| `mixed_write` | `FilesWhole` | two WRITEs of one file: truncation precedes the lock, the lock excludes no thread, and the file ends as a mixture (`serverHandler.c:139`) |
| `read_only_race` | `ReadOnlyStable` | permission is checked, then the header is truncated; it became read-only in between (`serverHandler.c:49`, `test_rfs.sh:70`) |
| `limit_read_only` | `ReadOnlyStable` | one user after the other: `fopen` fails for want of a descriptor, the read-only header counts as absent, and is written (`parseHdr.c:19-21`) |
| `bad_local_path` | `ServerSurvives` | a GET into a local path that cannot be opened ends the server by SIGPIPE, one user at a time (`Readme.md:21`) |

Five more are visible in the models and have no run: STOP ends handlers of
other users in the middle of their requests, and leaves an empty header, or one file
without the other (`ServerDies`, against `Readme.md:22`); a client that is killed
between its connect and its request ends the server, for recv returns 0,
`strtok` NULL, and `strcmp` reads through it (`RecvNothing`); the second
`mkdir` of the recursion takes EEXIST for a failure and drops a request
(`Again`, against `utils.c:47`); the square has a stride of 5 in rows of 6, not
that of the comment (`square`, against `cipher.c:10-18`); and the first part of
a file that TCP delivers in parts is stored as the whole, with "Write Success"
(`Store` when `parts` holds).

`RequestIntegrity`, `FilesWhole` and `ReadOnlyStable` hold in `sequential` and fail
with two users at once: each pair says exactly what concurrency breaks. `ServerSurvives`
holds with two users whose clients run to their end, however they mix up
requests, and fails as soon as one client fails by itself (`bad_local_path`) or
is killed. `SignalHasCause` says that these are the only causes: in `faulty`, a signal
ends the server only after such a client. `GracefulStop` holds in `sequential`,
where a STOP finds every handler done but for its `close`, and not with two users at
once. `EmptiedByFailure` says what
becomes of a WRITE whose client is gone after the acknowledgement: the file is
emptied, but an empty file always has a failed client or a mixed-up request as
its cause. `DirectoryThere` has
a second alternative that the comment at `utils.c:20` does not mention:
`createDir` also reports success when a regular file has the directory's name,
and the open after it fails.

Each property of a passing run is tested with a slip of the code that it must
catch (the definitions marked `Slip:`, listed under `mutants`).

### Fairness

`FairSpec` assumes weak fairness of the accept loop, of each handler thread and
of each started client: each of them is a process or thread of its own, which
the scheduler runs when it can run, and whose blocking calls return when there
is something to return. Nobody has to start a client or kill one. The loop is
weakly fair as a whole: it is one thread, and has at most one action to take
(accept takes the head of the queue). `Finished` is the state in which all
clients have exited and the server waits in accept or is gone; it is the only
state in which the system may stop, so deadlock stays checked. `CreateDir` is
fair to each thread that has been asked for a file. `RfsLimits` and `Transfer` are
fair in the same way. `faulty`, `make_dirs`, `limits` and `transfer` check
liveness. In `limits` a connection without a thread waits for ever, so that run
does not check deadlock: `SpawnRefused` leaves nobody who would answer it.

## The proofs

Every safety invariant that a passing run checks is proved, the action
properties `ReadOnlyStable` and `GracefulStop`, and the refinement `FilesImplemented`. TLC shows them on small instances; the theorems hold
for any sets of clients, names, threads and texts. What they assume of the
constants:

* `CommonAssumption`, `ClientAssumption` and `RfsAssumption` (for all of `Rfs`)
  say what the constants are: each client has a set of requests to choose from
  and a text in its local file, leftovers are texts on the disk, and so on.
  `None`, `Empty` and `Garbled` are none of the things they stand beside, clients
  are no names, and inodes (pairs of a maker and a tree) are not confused with
  either. `NoTextAssumption` says that `None`, which stands for a file that is
  not there, is no text.
* `LimitsAssumption`: the limits are natural numbers, the descriptors not 0, and
  the clients finitely many, for their descriptors are counted.
* `CreateDirAssumption`: paths are sequences of at least two names, and what
  exists at the start has its parents.
* `TransferAssumption` and `CipherAssumption`: the buffer is of even size (as
  the 4096 bytes of the code are) and texts are sequences over an alphabet.

Some theorems have hypotheses of their own, which say when the code keeps
the promise; where it is dropped, the run named with it shows what happens.

| Hypothesis | Says | Needed by | Without it |
|---|---|---|---|
| `ClientsFinish` | no client is killed or, in a GET, has a local path that cannot be opened | `ServerAlwaysSurvives` | `bad_local_path` |
| `LeftoverHeaders` | the headers found at the start are numbers the server could have written | `HeadersAreReadable`, `OnlyFailureEmpties`, `ReadOnlyHeadersStay`, `FilesAreImplemented`, `FilesAreWhole`, `ReadOnlyWithRoom`, `FilesWithRoom` | other headers were made by nobody |
| `LeftoverFiles` | no data file was empty at the start | `OnlyFailureEmpties` | the failure lies in an earlier run |
| `Orderly` | one client after the other (`test_rfs.sh` runs them so), none killed, local files can be opened and hold something | `RequestsKept`, `StopIsGraceful`, `ReadOnlyHeadersStay`, `FilesAreImplemented`, `FilesAreWhole`, `ReadOnlyWithRoom`, `FilesWithRoom` | `shared_buffer`, `read_only_race`, `mixed_write` |
| `NumbersSent` | a WRITE sends 0 or 1: `client.c:101` takes nothing else | `FilesAreImplemented`, `FilesAreWhole`, `FilesWithRoom` | the abstract store has no header for it |
| `PlainLeftovers` | each header found at the start is empty, 0 or 1, as the server writes them for such users, or has left them at its end | `FilesAreImplemented`, `FilesAreWhole`, `FilesWithRoom` | the same |
| `EnoughRoom` | three descriptors and a thread can be had for each client | `RoomIsEnough`, `ReadOnlyWithRoom`, `FilesWithRoom` | `limit_read_only` |
| `FilesAsked` | nobody asks for a directory that exists, paths have a greatest length (the path buffers have one) | `RaceHasWinner` | there is no race |

**Types** (`RfsProofs`). `TypesHold == Spec => []TypeOK`. `TypeOK` is not
inductive: a handler that opens `path[c]` must have read one, one that writes
through `fd[c]` must have opened it, and whoever looks at `req[c]` must know
that `c` has sent it. `TypeInv` adds these (`PathsKnown`, `OpenKnown`,
`RequestsKnown`).

**One text at a time** (`RfsProofs`). `LockStepHolds == Spec => []LockStep`: at
most one text is under way on a connection, with clients that fail or are
killed, and with handlers that run commands other than the ones sent. The
argument is the right to send. `TurnsTaken` says that a client about to send
and a handler that will send before it receives exclude each other, that neither
exists while a text is under way, and that the ends of a closed connection,
whose end of file also gives a turn, have nothing to say any more.
`QueueOrdered` says that each connection is accepted once and has no handler
before. Every step of a handler or client is one of a few moves (work without a
word, send, receive, close), each a lemma; the steps of the loop and the end of
the process have one lemma each.

**No signal** (`RfsProofs`). `ServerAlwaysSurvives`: under `ClientsFinish` no
SIGPIPE ends the server, whatever requests are mixed up. SIGPIPE takes a second
send into a connection that the client has closed. `SurvivalInv` says that a
client that has asked stays for the first answer (`Awaits`), so no handler's
first send meets a closed end, and that a handler that has once sent to a closed
end sends no more (`LastWord`).

`SignalsHaveCauses == Spec => []SignalHasCause` (`DiskProofs`) drops the hypothesis: a
client that leaves before it has been answered fails by it (`LeavingEarly`),
what has failed stays so (`LeftEarlyStays`), and until then every step keeps
`SurvivalInv` (`StepPolite`).

**Descriptors** (`DiskProofs`). `LeaksAreKnown == Spec => []LeaksKnown`: a
handler that has ended has left a descriptor open only after an RM, an LS, or a
GET that found nothing. The property looks at the end of a handler only;
`LeakInv` says of every place in the code which descriptors may be open there
and which command leads to it (`OnPath`), and that GET holds no text before it
has read (`NothingRead`), which tells the GET that leaks from the one that
closes. A step disturbs only its own handler (`OnlyOf`); the end of the process
closes everything.

**Headers** (`DiskProofs`). `HeadersAreReadable`: whatever handlers write over
each other, a header is empty or a number `fscanf` can read. The two trees share
no inode (`LinkKinds`) and each write goes through a descriptor of its own tree
(`OwnKinds`); the overlays of the headers are closed (`HeaderInv`).

**Emptied files** (`DiskProofs`). `OnlyFailureEmpties`: an empty data file with
no handler at work has a failed client or a mixed-up request as its cause. A
file is empty from `open` with `O_TRUNC` to the write that follows. `EmptyInv`
says that each such file has a handler that is between the two (`Pending`,
`FileOf`) or an excuse (`Covered`), that inodes are made once (`InodeInv`), and
that excuses stay (`ExcusedStays`).

**One user at a time** (`OrderProofs`). Under `Orderly`, `RequestsKept == Spec =>
[]RequestIntegrity` and `ReadOnlyHeadersStay == Spec => ReadOnlyStable`. This is
not immediate: a client that has exited leaves a handler behind that may still
run. `OrderInv` says that only one client is being served (`OneActive`), that
the connections before it in the queue are over (`QueueDone`), what the client
does while its handler is at each place (`Synced`), and that the line in the
buffer is its own until the handler has read it for the last time (`Untouched`,
`OwnRequest`). `ReadOnlyInv` adds what a handler that opens a header for writing
has seen there (`MetaSeen`): the check and the open are apart, but nobody steps
between them. `StopIsGraceful == Spec => GracefulStop` is a consequence of
`Untouched`: while a handler serves, the loop waits for the next request.

**The atomic store** (`OrderProofs`). `FilesAreImplemented == Spec =>
FilesImplemented`: with users one at a time the system implements `RemoteFiles`,
under the mapping of `RfsRefinement`, which TLC checks in `sequential`. What is
shown changes in four places only: a client that is launched asks (or finishes, when
the server has been stopped), the step of a handler that decides the outcome (a
refusal, the read of what is to be sent, or the first open of a change) serves,
a client that exits finishes, and the loop that reads STOP stops. All other
steps show nothing. That rests on `RefInv`, which is `ReadOnlyInv` with:

* `FilesSeen`: what the handler has done so far to the two files of its name, so
  that the end of a change leaves what the mapping showed from its beginning;
* `Commanded`, `ClientPath`: handler and client are on the path of the command
  that was sent;
* `Unserved`: before the decision nothing has been said that a user could take
  for an answer, and a client is lost only when the server is stopping, for only
  then may the abstract user finish unserved;
* `Served`: after it, what is under way, or has been printed or stored, is the
  reply of the abstract store (`Told`, `Fetched`), with the tail of the buffer
  that `client_rm` and `client_ls` may print (`Endings`);
* `PlainHeaders`, `DeadStopped`: headers are empty, 0 or 1, and only a STOP ends
  the server.

A handler's step has two halves with a lemma per command: its `Effect` on the
files, which is shown or not (`StillAsked`, `NowServed`, `StillServed`), and its
`Talk`. Nobody else sees anything of it (`AtWorkApart`), since one client at
most is being served. The steps of a client have a lemma each (`SendTalk` to
`CloseTalk`); the last is where the promise is kept or broken, for it shows the
user's view and exit status at once.

**Whole files** (`OrderProofs`). `FilesAreWhole == Spec => []FilesWhole`, under the
hypotheses of the atomic store: what `mixed_write` shows of two users at once
cannot happen to users in order. `WholeInv` says more than the property, of
every inode of the data tree at every moment: it is empty, or holds what one
client sent, or what was there under its own name at the start (`OwnLinks`: a
name links to the inode it had, or to one that a handler has made). Only the
write of `handle_write` puts a text there (`StoreWhole`). `FilesSeen` says that
it goes to an empty file and `Served` that it is the whole of what the client
sends.

**Limits** (`RfsLimitsProofs`), about `RfsLimits`. `LockStepAtLimits ==
LimitedSpec => []LockStep` holds because a refused `open` is work without a word
and a refused thread leaves its client waiting: `TurnInv` survives both.
`LeaksAlwaysLeaveRoom == LimitedSpec => []LeaksLeaveRoom` says that what ended
handlers have left open never fills the table, so that `accept` can succeed once
the handlers at work have finished. The invariant `LimitInv` bounds the
descriptors in use by the limit and says that an ended handler's socket is
closed. When a handler ends, what it leaves was in the table beside the socket it
now closes, so there is one descriptor less than the limit allows; opening one
changes nothing of what was lost.

`RoomIsEnough` says which limits are none: under `EnoughRoom`, `LimitedSpec =>
Spec`, whatever handlers leave open for ever. Where a handler opens something,
`LeakInv` has it hold one file at most, so there is a descriptor left
(`OpeningHasRoom`); the client to be served has no thread, so there is a thread
left (`SpawnHasThread`); no step is a refusal (`NothingRefused`). Less is not
enough: when all clients but one hold a connection and the two files of an RM,
and the last is about to open its second, all but one of three for each are in
use. Everything proved of `Spec` then holds of
`LimitedSpec`; `ReadOnlyWithRoom` and `FilesWithRoom` spell it out for the
header that `limit_read_only` sees lost for want of a descriptor, and for the
atomic store.

**Directories** (`CreateDirProofs`), for any number of threads and any paths.
`DirectoryIsThere`, `FailuresAreExcused` and `RaceHasWinner` rest on `DirInv`:
who made a directory made it on the way to its file and has gone on (`Makers`),
a directory that was missing when a thread looked and is there now was made by
another (`Missed`), and a thread that has failed was overtaken at the depth where
it failed (`Overtaken`). For the last theorem, take the failed thread that got
furthest: the maker of the directory in its way has got further still, so it
has not failed.

**The cipher** (`PolybiusProofs`, `CipherProofs`). `TextIsEncoded` says what
`pbEncode` makes of a text of any length (a pair of digits of the square for
each sign), `CipherIsDecoded` that `pbDecode` undoes it, and `FileIsTheText` that
a file over which texts have been written decodes to what the texts would be
over each other. `pbEncode` flattens a sequence of pairs with a fold; what it
does for every length is an induction, which is done by taking the least number
in a set of natural numbers (`LeastNumber`, `AllNumbers`), since the induction
theorems of the library take an operator.

**Bytes** (`TransferProofs`), for all texts and every even size of the buffers.
`TextsComeBack`, `SuccessIsTrue`, `CopiesAreCurrent` and `ShortNeverCrashes`
are what the users of `Transfer` are promised when TCP delivers messages whole
(the first two) or cuts them anywhere (the others). The invariant `TransferInv`
has a part for each kind of exchange that says what is under way at each place
of the two programs (`RemoveInv`, `WriteInv`, `GetInv`), and for those in which
nothing is cut or the text is short, what exactly it is (`WholeWriteInv`,
`ShortGetInv`, `WholeGetInv`). `StoredInv` says that the remote file can always
be decoded, and that a short one is the cipher of the beginning of the local
file that was last written. TLC has checked each part, like the other invariants,
before it was proved.

Only model-checked: liveness (`EverySessionEnds`, `EveryHandlerEnds`,
`CreateDirReturns`, `EveryoneAccepted`, `SessionsEnd`), which is out of the
prover's reach. The refinement is one of safety: `RemoteFiles` states no fairness.

## Not modelled, and the plan

Not part of the program: `evaluation.c` (two comment lines), the test scripts
(their order is the constant `Concurrent`), `Makefile`, `.ccls-cache`, `.cache`
and `.vscode` (caches and settings of tools).

Those directories hold most of the lines of the repository: copies of system
headers, and of older versions of these same sources. The program itself is the
thirteen hundred lines of `server.c`, `serverHandler.c`, `client.c`,
`clientHandler.c`, `parseHdr.c`, `cipher.c` and `utils.c`; their functions are
all modelled. Of them are left out, with the reason:

* `socket`, `bind`, `listen`, and the set-up of addresses: they run once, before
  anybody else does, and a failure exits.
* Errors of `malloc`, of `fcntl` and of `write` on an open descriptor (a full
  disk): the code handles none that it could recover from.
* Path buffers that are a byte short (`serverHandler.c:43`), and the header
  buffer (`parseHdr.c:13`): what they overwrite depends on the allocator.
* Requests longer than the server's buffer of 1024 bytes (`server.c:116`).
* The parsing of the client's arguments, but for its outcomes.

Next, in this order:

1. Concurrent users without the shared buffer: `RemoteFiles` with requests that
   overlap, to tell what the missing locks alone break, the WRITE that an RM
   swallows among it.
2. Requests longer than the server's buffer, whose rest is taken for the file.
