# Verification of CompSys-MTK

TLA+ models of the programs in this repository, the TLC configurations that
check them on small instances, and TLAPS proofs about them. The repository holds
solutions to five assignments; each is a system of its own.

## The system

| Part | Source | State | Operations | Talks to |
|---|---|---|---|---|
| Job queue | `Opgave3/src/job_queue.{c,h}` | circular buffer, `front`, `rear`, `count`, `destroyed`; three mutexes, two condition variables | `job_queue_init/push/pop/destroy` | the worker programs' threads |
| Worker programs | `Opgave3/src/{fauxgrep-mt,fhistogram-mt,fibs}.c` | main's walk, `strdup`'d paths, worker loops | create workers, push, destroy, join; pop, handle, free | job queue, histogram |
| Histogram | `Opgave3/src/histogram.h`, `fhistogram{,-mt}.c` | local and global histograms, `global_lock` | update, merge, print | worker programs |
| C peer: network | `Opgave4/src/peer.c` | `network`, `peer_count`, `network_mutex`, `run`; a client and a server thread | REGISTER and its reply, INFORM, quit | other peers over TCP |
| File transfer | `Opgave4/src/peer.c`, `Opgave4/python/*/peer.py` | blocks to send, blocks received, hashes | RETRIEVE, reply blocks, save | C or Python peer at the other end |
| Python peers: network | `Opgave4/python/*/peer.py` | network list with salts and timestamps, files being retrieved, two mutexes | register, inform, expire, request; the client's register and retrieve | other peers |
| Branch predictors | `Opgave5/src/simulate.c` | 2-bit counters, tables, history | predict, update | simulator |
| RISC-V simulator | `Opgave5/src/{simulate,memory,main}.c` | registers, paged memory, pc | one instruction per turn, ecalls | ELF reader, predictors |
| Disassembler | `Opgave5/src/disassemble.c` | none | print an instruction | the listing of `sim -d` |
| ELF reader | `Opgave5/src/read_elf.c` | none | load segments | simulator's memory |
| Record indexes | `Opgave2/src` | sorted arrays, Eytzinger layout, k-d tree | build, look up | record reader |
| `file` | `Opgave1/src/file.c` | 1024-byte buffer | classify | none |

What is hard, and what makes each part correct:

- **Job queue.** `front`, `rear` and `count` are written under three different
  locks; tests of `count` are acted on after its lock is released; waits and
  signals use different mutexes; teardown overlaps threads that are leaving.
  Correct means: first in first out, nothing lost, duplicated or overwritten;
  `push` and `pop` return as `job_queue.h` says; `destroy` returns once drained.
- **Worker programs.** Shutdown is destroy, then join; a failing `strdup` or
  `pthread_create` is taken differently by each of the three. Every file is
  handled once and its path freed once, and the program exits.
- **Histogram.** Concurrent merges of local into global counts. Every bit is in
  exactly one histogram, and the final one is the sequential program's.
- **C peer.** Two threads on one table, one of them without the lock for most of
  its reads; byte order on several paths; crashes of other peers at any point.
  Tables hold valid, distinct addresses; a registration is mutual; no circle of
  peers waits on each other.
- **File transfer.** Two implementations of each end, block counting, order,
  streams that end early. What is saved is what was served, or nothing is saved.
- **Python peers.** A thread per request beside the client thread, exceptions
  between an acquire and its release, a scan of the list without the mutex.
  Correct means: a peer keeps itself on its list and lists nobody twice, answers
  every request, serves files only to those who registered, and never leaves a
  mutex behind that others wait for.
- **Simulator.** Arithmetic at the sign bit, shifts, bytes merged into words,
  pages made on demand. A turn of the loop is a step of the instruction set.
- **Predictors.** Entries shared by many branches. Counters stay two bits wide,
  and an entry errs at most twice per change of direction.
- **Disassembler.** It takes instructions apart by other code than the simulator;
  the listing must name what is executed, and print no more than that.
- **Indexes.** Every index returns what the naive scan returns, over files with
  duplicate ids and incomplete lines and whatever order `qsort` leaves.
- **`file`.** Sequences cut by the buffer, bytes of the shape of a character that
  are none, texts valid in two encodings.

`PROJECT.json` lists these as components, with the hazards at their lines.

## Modules

`JobQueue` models `job_queue.c`. An action is one lock operation, one critical
section, one wait or one teardown call; `pc` says where in which function a
thread is. Mutexes are an `owner` per mutex, the condition variables are the
threads asleep (a pc of their own), and a signal moves one of them to relock.
The primitives follow glibc: destroying a held mutex returns EBUSY and does
nothing; locking a destroyed mutex returns EINVAL, and since the code does not
look at the result the thread goes on unprotected; a thread that was already
waiting when the mutex was destroyed may be locked out (`stranded`, a slight
over-approximation of the futex race); `pthread_cond_destroy` blocks while there
are sleepers. Spurious wakeups are allowed. `stored` and `taken` are history.

`BoundedFifo` is the abstract queue: what `job_queue.h` promises, in which a push
and a pop are one step each. `JobQueue!ImplementsFifo` is the refinement.

`WorkerPool` extends `JobQueue` with `main` (create, walk, destroy, join) and the
workers of the three programs. What a job computes is one step. The programs
differ only in what follows a call that fails: `programs` is the set of those a
run can still be of, and a step of one of them narrows it. A NULL from `strdup`
is dropped by `fauxgrep-mt` (`WalkSkip`) and pushed by the others
(`WalkPushNull`); `fhistogram-mt` then fails to open it and frees it
(`WorkerPassesNull`), `fibs` crashes in `atoi` (`WorkerCrashes`). A failing
`pthread_create` ends `fhistogram-mt` and `fibs` (`CreateFails`); `fauxgrep-mt`
goes on (`CreateIgnored`) and joins an uninitialised `pthread_t` in the end, which
fails or crashes (`JoinCrashes`). `running` is false once the process has ended
that way. NULL is `data[w]` of a file in `uncopied`.

`Histogram` models `fhistogram-mt.c`'s workers with the queue reduced to the set
of files nobody has taken (that is what the queue runs establish); the load and
the store of a bin are separate steps. `NoPath` is a worker's `path` before its
first pop. At least one worker and finitely many files are assumed: the program
refuses `num_threads` below one, and a walk ends.

`BlockTransfer` models one RETRIEVE between a C or Python server and a C or
Python client. A hash is the bytes it is of; a payload may be a prefix of what
its header announces, if the server died or the connection broke under a write,
after which `respond` returns (`ServerWriteFails`); `recv` may return early in Python. If a
stream ends inside a block the C client hashes whatever its buffer held for the
rest, a nondeterministic choice; a write past its buffer goes unnoticed or brings
it down. A header that is cut short is the same as the end of the stream.

`PeerNetwork` models the tables of any number of C peers, each with a client and
a server thread. `add_peer_to_network` is one step, under its mutex. The server's
unlocked uses of the table are a step for each use of `peer_count` that matters
(make room, copy, send, each INFORM), so the client thread can add a peer
between them; the copying of one table or entry is atomic, and reallocation of
the array is not modelled. Integers in headers are swapped, or not, as the code
does it. The client does not test what `readn` returns: from a connection that
broke it reads a failure, or any entries of `Junk` (`ClientEof`), whose ports,
which may be any number, are kept in the history `strays`. So are those that the
server sends of a list shorter than it says. A connection may also break before
its header is written: one that was closed ends the server's loop, one that was
reset leaves it with the header of an earlier turn (`ServerReadErr`). A list that
is written past the room for it, a length that was never read and a signal may
bring the process down (`Smash`).

`PyPeer` models one Python peer: any number of request handlers (`pc`, `req`,
`idx`, `drop`, `data` per handler) and the client thread (`cpc`, ...), the two
mutexes as holders, and the other peers as the environment that sends requests
and answers ours. A step is what happens between two points where another thread
can interfere: an acquire, a critical section, one turn of an unprotected loop,
one send. Every send may raise; where that leads depends on the enclosing `try`,
and so does what is held then. `threading.Lock.release` does not look at the
holder, and raises on a free lock. A hash is what was hashed together with the
type of the salt, since the code formats the salt into a string: an entry that
came over the wire has a salt of type bytes and never matches. `answers`, `lost`,
`registered`, `served` and `broken` are history.

`Cpu` models `simulate()`, one action per class of opcodes for one turn of the
loop, on `Memory` (pages of words, allocated when touched, with halfwords and
bytes merged in) and `Predictors` (NT, BTFNT, bimodal and gShare in tables of
several sizes). The width of a word is a parameter. Loading an ELF file's
segments and placing the arguments of the program are part of the initial state,
computed by the same memory operators. A fetch from an aligned address finds any
instruction of `Instrs`, so a run is over every program at once. `Isa` is the
abstract machine: registers, a flat array of bytes, and instructions named by a
table of encodings and given their effect by name; `&`, `|`, `^` and the shifts
are sets of the places that have a one; a division by zero and the one that
overflows have the results that RV32M gives them. `Cpu!ImplementsIsa` compares the
two: a turn of the loop is a step of `Isa` if and only if it is none of `Departs`,
the divisions that trap on the host and the high products in which the sign of an
unsigned factor matters. `Conforms` names the instructions of RV32I and RV32M, all
of them, and `Fits` the programs whose segments and arguments do not overwrite
each other.

`IdQuery` models the four programs that look a record up by `osm_id`, one turn of
a search loop per step, from the reading of the file on; a line of fewer than
five columns leaves its id to chance, and `qsort` leaves equal records in any
order. `KdTree` (both lookups by position), `FileType` (`file.c`) and `Decode`
(both decoders of Opgave5: the chain of tests in `simulate()` and the functions
of `disassemble.c`) are operators without state, each beside a reference
definition: the set of distances, a text that can be cut into the characters of
RFC 3629, the line an assembler would read. Where the code falls short of one, the
cases are named (`PassedOver`, `Misjudged`, `Misprinted`) and the property says
that they are exactly those, or for the tree that there are no others.
`test.sh` of Opgave1 calls an overlong sequence data; a target printed over the
`zero,` that was taken back leaves the last characters of it (`Smudges`). `Algorithms` puts the four beside each other: a
lookup by `osm_id` runs, or `input` is an input of one of the operators and
stays. Their recursion is written as functions, so that it can be proved about.

`JobQueueProofs`, `WorkerPoolProofs` (on top of it), `HistogramProofs`,
`BlockTransferProofs`, `PeerNetworkProofs`, `PyPeerProofs`, `AlgorithmsProofs` and
`CpuProofs` hold the theorems. `MC*` modules give the instances for TLC.

## Runs

| Run | Instance | Shows |
|---|---|---|
| `queue_threads` | 2 pushers, 2 poppers, 3 jobs, 2 slots, a destroy that overlaps them | `TypeOK`; until teardown `IntactQueue`, `IntactLocks`, `IntactChecks` |
| `pool` | main, 2 workers, 3 files, 2 slots, up to 2 failing calls of `strdup` and `pthread_create` | `PoolTypeOK`, `QueueInv` and `JobsOwned` through the teardown, `DestroyDrains`, `ExitComplete`, the refinement `ImplementsFifo`, and `ExitsOrSleeps` |
| `histogram` | 2 workers, 2 bins, files at and off the merge interval | `TypeOK`, `BitsConserved`, `FinalHistogram`, `ShownGrows`, `Finishes` |
| `transfer` | files of 0 to 5 bytes and one with 0xFF, blocks of 2, all four pairings, deaths, failing writes and short reads | `TypeOK`, `SavedIsServed`, `BlocksCoverData`, `WholeTransferKept`, `TransferEnds` |
| `network` | 3 peers (two share an IP), 3 possible registrations, one crash, one that may quit, a stray port | `TypeOK`, `PortsValid`, `NoDuplicates`, `JoinedKnowEachOther`, `TablesGrow`, `RegisterReturns` |
| `lost_wakeup` | main, 1 worker, 1 file | `Exits` fails |
| `informs` | 3 peers, 2 register with the third | `InformsTakenUp` fails |
| `py_peer` | 2 handlers and the client, 3 requests of 6 kinds, sends that fail at any point | `TypeOK`, `OwnEntryFirst`, `AddressesDistinct`, `AlwaysAnswered`, `ServedRegistered`, `HoldersRelease` |
| `py_incomplete` | the same | `ServedComplete` fails |
| `py_mutexes` | the same | `MutexesReleased` fails |
| `simulator` | 4-bit words, 4 registers, up to 4 instructions, each of RV32I and RV32M among them | `CpuTypeOK`, `MispredictsBounded`, `ImplementsIsa`: steps of `Isa` except for `Departs` |
| `algorithms` | files of up to 3 lines and one of 7; up to 4 points on a grid; texts of up to 4 bytes of every class, and longer ones that the buffer cuts; every operation at two addresses | `AnswerRight`, `CoordLookups`, `ClassifierRight`, `DecodersAgree` |

Bounds. Two threads per role reach every pair of positions, and three jobs for
two slots reach full, empty and wrapped buffers with an order to keep. Jobs are
pushed once each. `MaxFaults` 2 lets both workers be missing, or two files
uncopied; the walk takes the files in one order, as they differ in nothing else. After teardown has broken exclusion the history of taken jobs is bounded.
Blocks of two bytes with a header of one keep the disagreement of the C server's
two ways of counting (`MAX_MSG_LEN` for the number, `MAX_MSG_LEN -
REPLY_HEADER_LEN` for the size). Ports in `MCPeerNetwork` have a low byte below
128 so that swapped numbers fit TLC's integers. Three peers are the fewest for
which an INFORM tells a third of a second. `Asks` are the registrations a user may
ask for, `Quitters` those who may quit, `Junk` what uninitialised bytes may be read
as, here a port above 16 bits, and `MaxJunk` how many entries.

In `py_peer` (`MaxRequests` 3, `MaxRetrieves` 1, `MaxTime` 1, `EXPIRY` 0) a third
request can come while two handlers are at any pair of positions, which is what a
release of somebody else's mutex takes; one tick and an expiry of none let every
entry but our own grow too old. In `simulator` a byte has one bit and a page two
words, so that loads and stores cross bytes, words and pages and every value of
a word occurs; four instructions (`MaxInsns`) are two to set registers, one to
compute or store and one to use it or jump. The values of the setters are those
around zero and the sign bit. `algorithms` takes the points from a grid with ties
in both coordinates, a buffer of four bytes (`BUF`), which holds the longest
character and which texts of five and six exceed at every place of one, and the
register numbers and `f7` values that a test of either decoder tells apart. The
addresses, 32 and 65536, have targets on both sides of each length that matters.

`CHECK_DEADLOCK FALSE` is set where the system may rest: a pool with a lost
wakeup hangs, a queue may be left with no caller, all threads of all peers may
wait in `accept` and at the menu, and simulated programs and queries come to an
end.

Fairness. `WorkerPool`: every thread keeps running (WF), and a step inside the
queue that is enabled again and again is taken (SF): a mutex that is released
infinitely often is eventually acquired, which the schedulers the programs run on
provide. Spurious wakeups are not assumed. `Histogram`: SF per worker for the
same reason. `BlockTransfer`: both processes run and TCP delivers (WF). `PeerNetwork`:
both threads of each peer run (WF); that a user asks for anything or a peer
crashes is not assumed. `PyPeer`, `Cpu` and `IdQuery` are checked for safety only.

## What the runs found

The four violations above are findings in `PROJECT.json`, each with the line of
the repository it contradicts:

- a broadcast between `pop`'s test and its wait is lost, and the program hangs;
- no INFORM between C peers is ever accepted (byte order of port and length);
- a Python peer serves a file that its client thread has just truncated, since
  the name leaves the list of files being retrieved before the file is written;
- a handler whose answer to a request for such a file cannot be sent ends with
  `retrieving_mutex` in hand, though it is to be released "in all circumstances".

The same models show others, for which the properties are stated in the modules
and no run is kept; adding one to a cfg of that module gives the trace:

| Property | What TLC shows |
|---|---|
| `BufferFits` | the last block of a C server's reply, which counts by 8196 bytes and fills 8116, is larger than the room the C client makes for it (`peer.c:533`: room for all blocks, at their largest) |
| `FormatAgreed` | an empty file is sent without hashes and refused by the C client |
| `NoDifference` | the C server takes a byte 0xFF for the end of the file |
| `RetrievedFromPy` | the C client refuses the order a Python server shuffles its blocks into |
| `DataReturned` | the Python client's single `recv` per block returns early and the file is given up |
| `ServerSurvives` | a client that leaves early kills the C server (SIGPIPE) |
| `CompleteList` | a REGISTER reply has the wrong port and signature for all but two entries |
| `ServerInfinite` | a connection closed before its header ends the server loop |
| `QuitStops` | quit does not stop the server thread |
| `ListFits` | the list sent for a REGISTER can outgrow the array it is put together in |
| `PrimitivesUnused` | `destroy` destroys the mutexes while a worker is still in `pop` |
| `Exclusive` | the `except` of `_register` releases `network_mutex` under another thread |
| `AnsweredOnce` | a peer that cannot be reached makes `_register` answer a second time |
| `RegistrationTold` | with an entry learned over the wire on the list, a REGISTER is recorded and answered with an error |
| `ListedAuthorised` | a peer known from an INFORM or from another peer's list is refused with the right signature |
| `HeardKept` | a peer whose request is being handled is dropped, as timestamps are never updated |
| `ScanFinds` | a removal shifts the list under the scan, and a listed peer is told it is missing |
| `AlwaysIsa` | a division by zero or of the least number by -1 ends the simulator, where RV32M has a result; `mulhsu` and `mulhu` of a factor with its top bit set give the high product of signed ones |
| `TreeFindsNearest` | the k-d tree skips the side on which the query lies (`coord_query_kdtree.c:124-125`, 140: the nearest is ensured) |
| `RightClass` | an overlong sequence is called UTF-8 (`test.sh:142-155`: data), and UTF-8 whose last character the buffer cuts is data |
| `Utf8Recognised` | some UTF-8 is ISO-8859 as well, and called that |
| `ListingFaithful` | the listing of `zero` operands, of the value 255, of far backward jumps and of targets with fewer digits than the `zero,` they are printed over |

The last four are operators: an invariant for them applies them to `input` as
those of `Algorithms` do.

With the byte order, the length and the list corrected in a copy of
`PeerNetwork`, `InformsTakenUp` and `CompleteList` hold.

## Proofs

Every invariant, action property and refinement that a run checks is also a
theorem, for every value of the constants that satisfies the named assumptions;
only liveness is left to TLC. Each inductive invariant was first checked by TLC
as an invariant of the same instances.

`JobQueueProofs`, for any sets of pushers, poppers and jobs and any capacity:

- `TypeCorrect`: `Spec => []TypeOK`; the indices stay within the buffer.
- `QueueCorrect`, `LocksCorrect`, `ChecksCorrect`: until `destroy` has taken
  anything down, the queue is a sound first-in first-out buffer, the mutexes
  exclude, and a test of `count` still holds when it is acted on.

The three are one induction over `IntactInv == LocksExclusive /\ ChecksStillHold
/\ QueueInv`. None is inductive alone: that a push does not overwrite a slot
needs the test of `count` not to be stale, which needs that only one thread is
between test and commit on its side, which is the locks; and `count` describes
the buffer only up to the pushes and pops that have moved an index and not yet
the count. Lemmas on the modulus (`SlotSucc`, `SlotsDiffer`) carry the circular
buffer. The induction is over steps that stay intact; a step that destroys
something ends the claim.

`WorkerPoolProofs`, for any number of workers and files and any capacity:

- `PoolTypeCorrect`, `PoolQueueCorrect`, `DestroyWaits`, `NoDoubleFree`,
  `EveryJobHandled`: `PoolSpec => []P` for `PoolTypeOK`, `QueueInv`,
  `DestroyDrains`, `JobsOwned` and `ExitComplete`;
- `QueueImplementsFifo`: `PoolSpec => ImplementsFifo`, the refinement of
  `BoundedFifo`.

Here the claim goes through the teardown, where the locks no longer exclude. The
invariant is `PoolInv`. `MainAt` and `WorkersAt` tie the position of a thread in
the program to its position in the queue. `TeardownSafe` is the argument: until
main is past its drain loop nothing is destroyed, so `IntactInv` holds; from then
on the queue is empty, no worker is between its test of `count` and its
decrement, and none can get there, since `count` is zero and main, the only
pusher, does not come back. So an unprotected worker only ever reads. `JobsInv`
accounts for the files: each is still to be walked, dropped, offered, stored or
taken, a taken one is carried by at most one worker, and `handled` is one exactly
for those taken and put down that could be copied (`HandledExact`); the heap holds
those offered, stored and not put down, without the uncopied (`HeapExact`). A
missing worker stays out of the queue, and a process that has ended steps no more. For the refinement the abstract queue is the part
of `stored` behind the first `Len(taken)`; a push takes effect at its store, a
pop at its take, and every other step stutters.

`HistogramProofs`, for any finite set of workers and files, any contents and
number of bins:

- `HistogramTypeCorrect`, `NoBitLost`, `ParallelEqualsSequential`: `Spec => []P`
  for `TypeOK`, `BitsConserved` and `FinalHistogram`;
- `ShownMonotone`: `Spec => ShownGrows`, an action property.

The properties sum over workers, bins and files, with a fold of the community
modules. The first part of the module proves what the fold needs (`TotalChange`:
changing one summand changes the sum by the difference; `TotalZero`,
`TotalRestrict`). The library's induction theorems take an operator, which the
provers cannot instantiate, so induction is derived once for properties that are
given as sets, from the least element of a set of numbers (`LeastNat`, `Induct`,
`FiniteInduct`). The invariant adds to `BitsConserved` that no two workers are on
the same file, that the holder of `global_lock` is the one worker inside a merge,
that the value it loaded is still the bin's (`LoadedFresh`), and that the bins it
has passed are emptied; and for the bits shown that a merge only adds.

`BlockTransferProofs`, for files, headers and messages of any size, each pairing
of C and Python, with deaths, failing writes and short reads:

- `TransferTypeCorrect`, `SavedFileIsServedFile`, `ReplyCoversData`,
  `WholeTransferArrives`: `Spec => []P` for `TypeOK`, `SavedIsServed`,
  `BlocksCoverData` and `WholeTransferKept`.

`PiecesFlatten` is about the data: a sequence that is cut at increasing places is
what its pieces put together give, by induction on their number. `CutGood` shows
that both servers cut so, `respond` in spite of counting blocks by one size and
cutting another: there is at least one byte left for the last block. The
invariant says that all messages under way belong to one reply (same count, hash
and total, each block's bytes the piece of its number or a prefix of it), that
blocks of a C server are in order, and that what a client holds are pieces of
that reply (`GotInv`); a client with as many blocks as the count says then holds
all of them (`AllHeld`), since they have different numbers below the count.

`PeerNetworkProofs`, for any peers, addresses, registrations and crashes:

- `NetworkTypeCorrect`: `Spec => []TypeOK`;
- `TablesDistinct`: no table has an address twice;
- `TablesOnlyGrow`: no step shortens a table or moves an entry;
- `TablePortsValid`: `Spec => []PortsValid`;
- `JoinedAreMutual`: `Spec => []JoinedKnowEachOther`.

The first three are one induction over `Good`, the type invariant in parts
together with distinctness of the tables. The heart is `AddPeerKeeps`: since the
addresses are distinct there is at most one place to update, and otherwise the
entry goes to the end. `PortsInv` says of everything under way which conversion it
has had; with `SwapTwice` (`be32(be32(n)) = n` for a port) a table holds only
ports of peers and the `strays`, which enter only where bytes are read that
nothing initialised. `JoinInv` follows one
registration: a running peer has at most one under way, in the backlog of the
peer it waits for, in hand there, or answered (`OneRequest`); an answer OK starts
with the server's own address and exists only when the server is about to add the
client or has it (`Answered`); and what the server adds is the address of that
client, which needs the byte order again. A peer that died may leave a request
behind, so all of this is about peers that run.

The assumptions are those named in the modules (`JobQueue`: disjoint roles and a
positive capacity; `WorkerPool`: main is the only pusher, `MaxFaults` a number; `Histogram`: see above;
`BlockTransfer`: a header is shorter than a message; `PeerNetwork`: distinct
addresses and ports in range).

`PyPeerProofs`, for any number of handlers, addresses, files and requests and any
expiry time, from `PyAssumption` (threads and addresses are distinct, requests
are well-formed):

- `PyTypeCorrect`, `OwnEntryKept`, `MutexHolders`, `OneEntryEach`,
  `RequestsAnswered`, `OnlyRegisteredServed`: `Spec => []P` for the six
  invariants of `py_peer`.

The induction is over `Inv`, which adds five facts. `ReqOK` ties a handler's
request to its position. `DropOK` says that only entries with a timestamp are
flagged, without which a removal could reach our own entry; that the list is
never empty is what keeps the client from returning with the mutex.
`HoldersRelease` gives mutual exclusion (`OneHolder`), and with it `Fresh`: an
address tested under the mutex is still unlisted when it is appended. `Listed`
says that only entries made by a REGISTER have a signature that can match, and
`Authorised` that whoever passed the test is registered.

`AlgorithmsProofs`, for any files, records, texts and instructions:

- `LookupsRight`: `IdSpec => []AnswerRight`, the four lookups by `osm_id`;
- `PositionsRight`, `ClassesRight`, `ListingsRight`: `Spec => []P` for
  `CoordLookups`, `ClassifierRight` and `DecodersAgree`.

*Ids.* The invariant is the shape of the index (the sorted records are a
permutation in order), and where the needle can still be: behind the position of
the scan, or between `low` and `high`. For the Eytzinger layout the lemmas first
settle the order in which `build_eytzinger` visits the nodes, by induction from
the leaves: the recursion has a solution, every node is visited once
(`FromInjective`, from the fact that the subtrees of two children are disjoint,
and `AllVisited`), hence the p-th node visited holds the p-th record
(`TreeOrder`). `Narrowed` is what the walk knows at node `k`: the visits below
`k` are consecutive, every one before them has a smaller id than the needle, and
the one right after them is `last`, whose id is not smaller. Without the place of
`last` the answer at the end of the walk could not be justified.

The recursive functions of the other three have to be shown to exist before
anything follows from their equations, each by induction on what it recurses
over. *Positions:* that is the number of records in a slice for `buildKDTree` and
the height of a tree for `lookup_tree`; the halves on both sides of a median are
disjoint and smaller, the distance of the record in hand never grows on the walk,
and a record of a subtree that the walk leaves out is either farther away, being
beyond the line, or in `PassedOver`. *Classes:* a text can be cut into characters
in one way only, as the first byte of a character gives its length and no
continuation byte is a first byte; so the loop finds the cutting if there is one,
and the cutting settles whether a character of it is ill-formed or cut off. *Listings:* an immediate is a sum
of slices of the instruction, and each decoder's sum is brought to one form; then
the cases are those of the two chains of tests.

`CpuProofs`, for words and bytes of any width, any set of registers, any program,
arguments and memory, and predictor tables of any sizes:

- `PredictorTypes`, `MispredictionBound`: the counters and the history keep their
  widths, and an entry errs at most twice per change of direction. The invariant
  says how many errors an entry still owes, given the distance of its counter
  from the latest outcome. `MispredictionsOfPrograms` is the bound for the
  branches that `simulate()` feeds the predictors.
- `MachineTypes`: `Spec => []CpuTypeOK`.
- `MemoryIsBytes`: a store changes exactly the bytes it covers, in order,
  touching a page changes none, and a load returns the bytes at its address, with
  their sign. The bytes of a word are its digits: `WordSplit` and `WordBytes` take
  a word apart and put it together, `ByteIn` and `HalfIn` replace a part of it.
- `FollowsIsa`: a turn of `simulate()` is a step of `Isa` if and only if it is none
  of `Departs`; `SimulatesIsa`: `Spec => ImplementsIsa`, with the loading.

For the refinement, the bits of a word determine it (`OnesUnique`), so that
`ByBits` and the shifts can be compared with the sets of ones by their bits
(`BitwiseRight`, `ShiftsRight`); an arithmetic shift repeats the sign bit because
it is a division of the signed value, rounded down. A truncating division has one
result (`DividesOnce`), which `Quotient` and `Remainder` are (`TruncatesC`,
`SignedDivision`), also where the operands differ in sign, and which is in range
but for the pair that traps. Where `simulate()` stops in such a trap `Isa` goes on,
so that turn is no step of it. The high product of unsigned factors differs from
the signed one by `Lacks`, modulo a word. An encoding has one name (`OneName`), so
the table of names and the tests of `f3` and `f7` are compared entry by entry.
One lemma per class of opcodes then shows its turn to be the step (`TurnComputes`,
`TurnLoads`, `TurnStores`, ...). For the initial state, loading is followed write
by write (`CopyStep`, `ArgStored`, `PassStored`, `ElfStored`): what is written
later does not touch what is already in place.

`FollowsIsa` assumes `Conforms` of the instructions in the text: that they are of
RV32I or RV32M. `SimulatesIsa` assumes `Fits` as well: segments that
overlap, or that lie on the arguments, overwrite each other, and then there is
nothing a program could rely on. `MCCpu` states both of its instance as
assumptions, which TLC evaluates. `MemoryAssumption` says that the page that is
not allocated is no page, and that pages are whole words and memory whole pages;
`CpuAssumption` and `AlgorithmsAssumption` otherwise give the constants their types.

Only model-checked: everything live (`ExitsOrSleeps`, `Finishes`,
`TransferEnds`, `RegisterReturns`), since the prover has no rules for fairness,
and the violations, which are about one behaviour.

## Not modelled

- SHA-256 is third party and pure 32-bit arithmetic; a hash is an injective
  function in the models. `elf.h` is the system's header. Of the ELF reader the
  format, its error exits and the symbol table are left out; the sequential
  `fauxgrep`, the benchmarks and the scripts are sequential I/O.
- `Opgave3/src/bigtest` is generated test data (some 147,000 of the
  repository's lines) and no program.
- In the simulator: the log, the summary, the layout of listings and symbol
  names; an instruction word that changes because the program writes over it (a
  fetch finds any instruction anyway). Division is the x86 instruction the build
  produces: by zero, and of the least number by -1, it raises SIGFPE.
- In the worker programs: `fts_open` and `job_queue_init` failing, and files that
  come without end.
- In the Python peer: the configuration file, and requests whose fields are not
  numbers, which fail like any other exception.
- In the indexes: the text of a record, `free`, and input lines that are not
  numbers.
- In the C peer: requests that are malformed (bad IP, unknown command), buffers
  for port strings, replies of more than one block to REGISTER, overflow of the
  float in `respond`. Menu choice 2 (a random peer and file) is a RETRIEVE.
- Overflow of a histogram bin (more than 2^31 bits of a position).

## Plan

1. `PeerNetwork`: replies to REGISTER of more than one block, and the table as an
   array that reallocation moves.
2. Liveness of `PyPeer`: every request is answered if no send fails.
3. Instances of `Cpu` and `PeerNetwork` with the departures above corrected, and
   the theorems without their exceptions.
