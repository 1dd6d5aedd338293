# A TLA+ model of yacl

yacl is a C++ library of the building blocks of secure multi-party
computation: number theory, symmetric and elliptic-curve primitives, oblivious
transfer, VOLE, DPF, secret sharing, Yao circuits, and the *link* layer over
which the parties of a protocol talk to each other. Almost all of it is
sequential, pure code. The exception is the link layer, where every message
passes through a user thread, a send thread, a task thread, the peer's
receiver loop and a waiting reader, with acknowledgements, throttling, retries,
a closing handshake and an abort on top. The link layer and the thread pool
have modules and runs of their own: there the order of events matters and tests
reach least. The rest of the library is modelled part by part, each with a
client that makes its calls in every order within a bound, and all of these
parts share one run.

## Inventory

| component | source | state | operations | hard part |
|---|---|---|---|---|
| SegmentTree | `utils/segment_tree.h` | map of segments, counter | Insert, Contains, Count, SegmentsCount | canonical form under every insertion order |
| Channel | `link/transport/channel.{h,cc}` | sequence counter, send queue, tasks, received / acknowledged / finished ids, unread messages, close and abort flags | Send*, Recv, OnRequest, WaitLinkTaskFinish, Abort, TestSend/TestRecv | everything is concurrent, links retry |
| Chunked transfer | `channel.cc` 187-325, 490-554 | window of running pushes, chunks received | SendChunked, OnChunkedMessage | completion and failure of parallel pushes, duplicated chunks |
| AsioLink / ReceiverLoopAsio | `link/transport/asio_link.{h,cc}` | one socket, connect flags, sessions | SendRequest, Connect, Start, Stop | threads share one socket |
| ChannelMem | `link/transport/channel_mem.{h,cc}` | one map of messages | the IChannel interface in memory | close handshake |
| Context | `link/context.{h,cc}` | event counters, channels | P2P sends, ConnectToMesh, WaitLinkTaskFinish, Spawn, SubWorld | same ids on all ranks, order of closing |
| Collectives | `link/algorithm/*.cc` | none | Barrier, Broadcast, Gather, Scatter, AllGather | everyone waits on everyone |
| Factories | `link/factory_*.cc` | - | build contexts | lifetimes |
| ThreadPool, parallel | `utils/thread_pool.*`, `utils/parallel.*` | queue of jobs, workers | Submit, WorkLoop, parallel_for | shutdown, nested use, errors |
| containers | `utils/dynamic_bitset.h`, `utils/buffer.*`, `utils/serializ*`, `utils/int128.*` | blocks, memory and its owner | append, shift, resize, move, pack | block boundaries, ownership |
| SPI | `utils/spi/*` | registry, Items | Register, Create, ListLibraries, ResizeAndSpan | order of registration, views |
| numbers, fields, curves | `math/**` | digits, static moduli, shared points | arithmetic, conversions, hash to curve | edges of words, statics shared by objects |
| oblivious transfer | `ot/*` | stores and slices, trees, rounds | Send, Recv, Slice, NextSlice | sizes that fill no batch, checks |
| VOLE, DPF, PPRF, secret sharing, SNARK | `vole/*`, `dpf/*`, `vss/*`, `snark/*` | keys, correlations, witnesses | generate, evaluate, verify | edge indices, random draws that may be 0 or repeat |
| executors and kernels | `mpc/*` | triples, pools, cached correlations | A2B, AndB, eval, eval_multithread | two parties in step, dropped errors |
| coding | `coding/**` | bins and stash, index batches | Insert, Encode | full tables, wrapped indices |
| input, output, circuits | `io/**` | positions, bits of a stream, offsets | Read, Seek, Spawn, Close, Put | end of file, failed writes |
| randomness | `rand/**`, `theoretical_tools/prg.*`, `experimental/sync_drbg/*` | seeds, counters, cached output | Fill, ReSeed, SendState, RecvState | reuse after a reseed, two parties in step |
| ciphers, keys, schemes | `block_cipher`, `aead`, `hash`, `hmac`, `sign`, `pke`, `kem`, `envelope`, `oprf`, `tpre` | contexts, keys, blinds | Encrypt, Update, Sign, Evaluate | contexts out of step, stale cached values |

The parts call each other top down (collectives -> Context -> Channel ->
TransportLink) and bottom up through callbacks (ReceiverLoop -> OnRequest ->
OnMessage -> condition variables of waiting calls).

What makes each part correct: a SegmentTree is a set of ids; a Channel is a
mailbox that loses nothing, repeats nothing, acknowledges only what was
consumed and closes without leaving the peer in the lurch; a chunked transfer
stores its message whole and once, or says that it failed; a link gives every
request its own answer; a collective gives every party the right inputs whatever
the others are doing; a parallel loop visits every index once and is over when
it returns. For the other parts: a container holds what an ideal one would; a
protocol's two outputs satisfy its correlation whatever the sizes; a kernel
returns with every piece computed; a stream of random bytes is never handed out
twice and two synchronised ones stay equal; what is serialized, sealed, signed
or shared comes back, and only for the right key.

`PROJECT.json` lists every component with its status, and the hazards that weigh
most, each with the line where it bites and the properties that watch it. Where
the code does go wrong in the case a hazard describes, no property covers it: the
case is left out of the property it concerns, the hazard's note names that
property, and the section on disagreements below describes the case.

## Modules

| module | models | notes |
|---|---|---|
| `IdSet` | what SegmentTree promises | abstract specification |
| `SegmentTree` | `utils/segment_tree.h` | the map of half-open segments and the counter |
| `SegmentTreeProofs` | | theorems about `SegmentTree` |
| `Mailbox` | what a pair of channels promises | abstract specification |
| `Channel` | `link/transport/channel.{h,cc}` | two connected channels |
| `MCChannel` | | model values and symmetry |
| `ChannelProofs` | | theorems about `Channel`: types, acknowledgements, delivery |
| `ChannelIdProofs` | | where the sequence ids are; the throttle window; `Channel` implements `Mailbox` |
| `ChannelCloseProofs` | | the closing handshake |
| `ChunkedSend` | `SendChunked`, `SendChunkedWindow`, `OnChunkedMessage` | one message |
| `ChunkedSendProofs` | | theorems about `ChunkedSend` |
| `AsioLink` | `link/transport/asio_link.cc` | the threads of one link and the peer's session |
| `AsioLinkProofs` | | theorems about `AsioLink` |
| `Mesh` | `link/context.cc`, `link/algorithm/*.cc`, `channel_mem.cc`, `factory_mem.cc` | all parties of a mesh, sub worlds included |
| `MCMesh` | | five small meshes |
| `MeshProofs` | | theorems about `Mesh` |
| `ParallelRun` | `utils/parallel.{h,cc}`, `utils/thread_pool.{h,cc}` | user threads, pool threads, nested calls |
| `MCParallelRun` | | two programs |
| `ParallelRunProofs` | | theorems about `ParallelRun` |
| `MCLibrary` | | the parts below, one per behaviour |

The parts of the `library` run; each has an `Init`, actions for its calls and
its invariants, over the two variables of `Scenario` (`part`, which never
changes, and `st`, the objects of that part):

| module | models |
|---|---|
| `Scenario` | the shared frame; machine words, shifts and `math/gadget.h` |
| `LinkSetup` | `Context::ConnectToMesh`, `FactoryMem`'s sessions, refused connections; mutexes, condition variables and `Abort` of `channel.cc` |
| `DynamicBitset` | `utils/dynamic_bitset.h` |
| `Buffers` | `utils/buffer.*`, msgpack sizes, `SerializeVars`, `int128` |
| `Spi` | `utils/spi/*`: factories, Items, and the sketches' in-place operations |
| `MpInt` | `math/mpint/*`: digits, conversions, table powers, safe primes; ownership, division, literals, draws |
| `Fields` | `gf_intrinsic.h`; the factories and sketches of `math/galois_field` |
| `Curves`, `EcGroups` | curve tables and the toy curves; the other groups' sharing of points, encodings and hashing |
| `OtStore`, `OtExtension`, `Softspoken`, `SinglePointOt`, `Ferret` | `ot/*`: stores; IKNP, KOS, KKRT and the transposition of `utils/matrix_utils.cc`; SoftSpoken; SGRR and GYWZ; Ferret |
| `Vole`, `Fss`, `Snark` | `vole/*`, `dpf/*`, `snark/*` |
| `Schemes` | verifiable secret sharing, OPRF, threshold proxy re-encryption |
| `SsExecutor`, `Kernels` | `mpc/*`: the executors; the OT and VOLE kernels |
| `Coding` | `coding/**` (cuckoo index, linear codes) |
| `Io`, `Circuit` | `io/**`: streams, stores and CSV files; circuit files and the plaintext executor |
| `Prg`, `Drbg` | `theoretical_tools/prg.*`; `rand/**` and `experimental/sync_drbg` |
| `Crypto` | symmetric objects; keys, certificates, signatures, envelopes |

Variables carry the names of the members they model (without the trailing
underscore where that reads better), actions the names of the functions; a
comment gives the correspondence where they differ. The `map` of `PROJECT.json`
names the lines behind the definitions; a small helper of a function that is
mapped as a whole has no entry of its own. Some definitions have a twin, stated
just before them, that is a plausible bug of the code (a dropped guard, a missing
reset); no specification uses it, and it is there to show that a property can
fail. `PROJECT.json` names one for each property of each run; in the library's
parts each invariant that a property of `library` collects has one of its own.

**Channel.** A step is what the code does between two points at which another
thread can see or change what it uses. So the three parts of `SendAsync` (check
of `waiting_finish_`, taking the sequence id, queueing) are three actions, and
so are the parts of `Recv` (taking the message under the lock, acknowledging it
after), of the send thread (test of the stop flag, pop and submit, throttle
wait, drain), of `WaitLinkTaskFinish` (one per wait) and of `Abort`. A task is
one record that flies, is served or refused by the peer's `OnRequest` (an
aborting end and a clash of keys send an error answer), or has failed; a
LinkError loses the request or either answer, and the task tries again up to
`max_retry` times, unless the error is of a kind `should_retry` does not name
(the fault "final"). A wait on a condition variable is a guard: every such wait
in the code tests its predicate in a loop. The user of an end closes it or aborts
it, not both. Message contents are left out. The
received and acknowledged ids are sets, which `SegmentTree` justifies.

**ChunkedSend** takes up what `Channel` treats as one request. **AsioLink**
takes up what it treats as a request and its answer: the order in which threads
use the one socket. A connect may be refused at the first attempt, where nobody
connects any more, or in the hands of a thread that connects a second time, where
the link is left with a closed socket on which every later transfer throws. **Mesh** stands above the channels: a strand (one thread of
one party, running one world's program) makes its calls one after the other. A
*place* in a call is the channel call to make next, with the variable of the loop
it stands in; each collective is an operator that gives the place that follows
(`Following` chooses among them), as the `for` loops of `link/algorithm` do.
`SendImpl`, `Recv` and `RecvTimeout` execute the channel call, and `Skip` is an
iteration of Broadcast that makes none. Worlds share channels, as
`SubWorld` and `Spawn` do. A `Recv` may time out at any moment within the bound
`MaxTimeouts`, and whenever nothing will come any more; the caller then goes on
or stops. **ParallelRun** gives each thread a stack of frames, so that a body
can make a nested call on a pool thread as well as on the caller's.

**The library's parts.** Data is abstracted to what a property tells apart.
Widths are constants (a bitset block of 3 bits, a batch of 4 OTs, a field of
order 11), so that every boundary case is met with small sizes; the shapes of the
loops, the index computations and the early returns are those of the code. A
hash or PRG of a protocol is a fixed injective or linear toy function, marked
external in the map: correlations can be checked through it, secrecy cannot. Group elements are their
exponents. Where the code calls a library (OpenSSL, MCL, libtommath, msgpack,
leveldb) the call is modelled by what its users rely on. Several parts are
concurrent and are modelled so: `LinkSetup` (the waits of a channel) and
`Kernels` (VOLE) have threads, `LinkSetup` (the mesh), `SsExecutor` and `Drbg`
(the synchronised one) several parties with messages between them,
`Fields` the tasks of a `parallel_for`, `Io` a second process. In
the others a step is one call, or one round of a long one.

## Runs

All runs finish in a few minutes with two workers.

| run | question | bounds and why they suffice |
|---|---|---|
| `segment_tree` | is SegmentTree a set of ids, canonical, with an exact counter? | seven ids in every order: a new segment, growth at either end, and a merge between two other segments all occur; proved for all ids |
| `channel_close` | does a server stop only when the peer needs it no more; is the pair a pair of mailboxes? | both ends send one message, read it or not and close, one request lost at any point, retried or given up: every order of data, acknowledgement, FIN and close |
| `channel_threads` | two threads, one key, a window of one, a lost request or answer, retried or given up, timeouts, aborts | two messages are the least that can overtake each other or clash in a key |
| `channel_live` | do both closes return, and is the window never closed without need? | two messages behind a window of one: the second is still queued when the closes begin |
| `chunked_send` | is a message stored whole and once, and does the call return? | three chunks, the last one short, two pushes at a time, three errors: every chunk can be repeated, and one can fail for good |
| `asio_link` | one answer for every request, and does every request return? | three threads, one refused connect, the first or a second one |
| `mesh` | are results and barriers right at every pace, and does everyone get out? | a broadcast tree of five with a gap, a barrier of four, four collectives in a row among three, messages around a barrier, a sub world with its ranks reversed; one late message |
| `parallel_run` | is every index visited once, is a call over when it returns, do errors come back, does nested use deadlock? | five indices in two or three tasks (uneven), nested ranges, one throwing body, one set_num_threads at any moment, a pool of one or two threads |
| `channel_close_race` | (violated) may one thread send while another closes? | two threads, one message |
| `chunked_swallow` | (violated) is a failed chunk reported? | three chunks at once, one failure |
| `asio_answer_swap` | (violated) does a thread get its own answer? | two threads |
| `library` | the ten questions below, of all parts | see below |

Each property of `library` collects the invariants of the parts that answer one
question; the parts' modules say what each conjunct means for its code. Where the
code does not keep what its comments say, the invariant does not assert what the
code does instead: the case is left out of it, its comment names the case, and
the section on disagreements lists it.

| property | question |
|---|---|
| `ContainersHold` | do bitsets, buffers, Items, OT stores and cuckoo tables hold what ideal ones would, whatever the order of the calls? |
| `OutputsCorrelated` | do the two outputs of a protocol satisfy its correlation (OT, VOLE, DPF, shares, circuits)? |
| `ChecksExact` | does a check (consistency, commitment, proof, tag, signature) pass for what its honest maker made and for nothing else? |
| `AccessesInside` | does every index, offset and length computed beforehand stay inside its buffer? |
| `RandomnessFresh` | is no random value handed out or used twice, and does what is made of it keep its range? |
| `ReadsBack` | is what was written or serialized read back as it was, after any seeks and partial reads? |
| `ArithmeticRight` | does the arithmetic of words, digits, fields, curves and codes agree with a reference definition? |
| `PartiesKeepStep` | do parties and threads that wait for each other go on together? |
| `ObjectsKeepApart` | do operations on one object leave the others alone? |
| `RightImplementation` | does a factory make what was asked for, with the best library that can? |

The constants of `library` are set so that each part meets its boundary cases:
a bitset reaches a third block; OT counts lie below, at and above one batch,
one super batch and one round of Ferret, whose outputs feed the next round;
KKRT corrections come in unequal pieces; the cuckoo table can be full with its
stash; a DRBG passes its reseed interval; a PRG starts a second budget and a CSV
file has no, one and several rows; three ranks connect with two retries; two
fields of one type live at once; scripts of three to seven calls are the
shortest in which a second object, a reseed or a close can follow a use. The
parts do not influence each other, so a violation belongs to one part. The
run's deadlock check is off since a client that has made its calls stops, as
every sequential use of the library does; where a call of the code may block
for ever, a conjunct of `PartiesKeepStep` says so instead (`MpcNoOneWaits`,
`SvoleReturns`, `ArrivalReachesSleepers`).

A passing run with `Serial` has a user that closes an end only when none of its
other calls is running.

Deadlock is not checked where the program may stop: users are free to make no
further call, an aborted or exited end stays so, and a thread may wait on a
connection that was refused. `ChunkedSend` and `SegmentTree` check it.

### Fairness

`channel_live` assumes weak fairness of each end's send thread, of its tasks, and
of each call that has begun: threads are scheduled and an established link
delivers. Calls that have not begun need not be made, and nothing is assumed of
errors, timeouts or aborts. `ChunkedSend` assumes the same of the sender and of
each push. `AsioLink` needs strong fairness of a thread, because `socket_mutex_`
may be free only now and then; the mutex of the platform is assumed to be
starvation-free. `Mesh` assumes only that the mesh as a whole goes on, and
`ParallelRun` weak fairness of each thread.

## What is proved

TLAPS checks these for every value of the constants that satisfies the named
assumptions of the modules (sizes and bounds are natural numbers, sets of threads
are finite, model values are distinct; TLC evaluates them in every run). Every
invariant below was checked by TLC on the instances of the runs before it was
proved. Where a theorem has a hypothesis the statement is false without it, and a
run or a paragraph of the next section shows how.

*SegmentTree.* `SegmentTreeTypeOK`, `SegmentTreeCanonical`,
`SegmentTreeCountExact` and `SegmentTreeImplementsIdSet`, from the invariant
that the segments are non-empty, disjoint and never adjacent, that the ids they
cover are the ids inserted, and that the counter is their number. Canonicity is
needed for the answers: only then does the last segment that starts at or below
an id decide whether it is in, and only then is the number of segments the
number of runs, which the closing handshake of Channel compares with 1. The
lemma `MergePrevIsIdle` shows that the first of the two merges of `Insert` never
finds anything to merge, since a segment that ends at the new id was extended
before.

*Channel: types and promises.* `ChannelTypeOK`: the types are kept. The types
alone are not inductive: `TypeInv` adds that a thread numbers a message only
while the bound allows it, counting the threads that are about to (`Budget`), and
that a thread and a task at a given step carry the key and id that step needs
(`CallOK`, `TaskOK`).

`ChannelAckMeansConsumed` and `ChannelSendDelivers`, from `PromiseInv`: a task
that was served has its id among the peer's received ids (`ServedReceived`),
what lies unread was received (`UnreadOK`), an acknowledgement on its way and a
thread about to send one name a message that is consumed (`AckTasksOK`,
`AckThreadsOK`). A message is *consumed* when its id was received and nothing
unread has that id; this is stable because a received id is never stored again,
which is the point of the duplicate check at `channel.cc:466`.
`ChannelSendDelivers` assumes `exit_if_async_error`; without it the statement is
false (see below).

*Channel: the ids.* `IdsInv` adds to `PromiseInv` where each id that was given
out is: with the thread that fetched it, in the send queue (`QueueOK`) or with
one task (`HandedOK`), in one of them only. `ChannelWindowBound` follows for any
number of threads, with `WindowInv`: every id handed to a task is below the
number of acknowledgements plus the window, but for the one the send thread waits
on. This is why comparing a count of acknowledgements with an *id*
(`channel.cc:677`) keeps the bound although ids are queued out of order.
`ChannelWaitsOnlyWhenFull` is the other direction. It assumes a single sending
thread, which makes the queue ordered (`InOrder`); with two the window can close
early.

*Channel: refinement.* `ChannelImplementsMailbox`: under the mapping of
`Channel` (a message is in the peer's mailbox from the moment it is numbered until
it is read) every step of the pair of channels is a step of `Mailbox` or leaves it
alone. Beside `IdsInv` the proof needs that a key is with one message at a time
where the user uses each key once (`KeysOnce`), since the receiver stores by key
and a second message of a key replaces the first.

*Channel: closing.* `ChannelQuiescentAtClose`, for users that close after their
other calls have returned (`Serial`) and links that lose no answers. `ClInv` adds
to `IdsInv`: nothing under way has arrived before (`FlyingNew`, where a lost
answer would break it); a message is acknowledged once (`AckOnce`); one thread
closes and makes no other call (`OneCloser`, which is `Serial`); the FIN counts
all messages (`FinTrue`); and what each wait of `WaitLinkTaskFinish` has
established (`CloseInv`). A stopped server has then received every message the
peer numbered and an acknowledgement of every one it sent, and the peer's threads
are past theirs. That all numbers up to the count were received follows from one
segment in the set of ids, by an induction over the numbers (`AllOfThem`).

*ChunkedSend.* `ChunkedSendTypeOK`, `ChunkedSendWholeMessageOnce`,
`ChunkedSendParallelBound` and `ChunkedSendReturnMeansStored`. `running_push_` is
the number of live pushes, and one more while the caller waits for its turn
(`Counted`): it is raised before the wait (`channel.cc:236`), so that the bound
holds with it. The receiver's buffer holds the bytes of exactly the
chunks it has seen, and `bytes_written` is their number (`Assembled`); who takes
the buffer out has all bytes (`Whole`). Until the message is stored, no chunk
whose push was answered is missing from the buffer (`NoneLost`): this carries
`ReturnMeansStored`, because a chunk that arrives after the message was put
together starts a new buffer that nobody completes.

*AsioLink.* `AsioLinkTypeOK`, `AsioLinkOneAnswerEach` and
`AsioLinkAnswersUsedOnce` for every finite set of threads. The ids of requests
that are written, under way, answered and returned are in one place each
(`RequestsFresh`, `AnswersFresh`, `ResultsFresh`); a thread is past `Connect` only
with a socket (`Socket`); each request connects at most once (`ConnectsBound`,
which bounds the type of `connects`). That the answer is *its own* is false, and
the run `asio_answer_swap` shows it.

*ParallelRun.* All five invariants of the run, for every program of the users,
every number of threads and at every setting of it, with nested calls on callers
and workers. `ThreadsAssumption` says that the numbers of threads that may be set
have a largest one and that users are not workers. Everything rests on the shapes
of the stacks (`Shapes`: a user thread is in one of six places of its call, a
worker in one of three), and on `Flight` and `OnePlace`: a task that was
submitted and whose future is not yet set is in the queue or at the bottom of one
worker's stack, and the frame of its call is there, still to reach that future.

- `ParallelRunOverMeansQuiet`: with `Fresh` (a call that was not made is not over)
  and `Quiet` (a call that is over is nowhere). The end of a call by an
  exception from the pool is the case to look at: no task was submitted, since
  there is no pool.
- `ParallelRunErrorsReported`: the exception of a body is in a frame of its call or
  in a future that is still to be read, until the call throws (`ErrInv`); a nested
  call that threw hands it to the frame below.
- `ParallelRunEachIndexOnce`: `VisitInv` says of a call that was cut that each of
  its tasks has not begun, with its part unvisited, or has visited its part; the
  parts are disjoint and cover the range whatever the number of threads was
  (`TasksApart`, `TasksCover`). With `Quiet`, at the return none has not begun.
- `ParallelRunResultsFit` and `ParallelRunOnlyBodiesThrow`: while no set took effect
  during a call, the number of threads is one and the same for `parallel_reduce`,
  `_parallel_run` and the pool (`ResultsInv`, `PoolInv`); a call that throws has
  a body behind it (`SourceInv`).

*Mesh.* All four invariants of the run and `MeshTypeOK`, for every number of
parties, every set of worlds over them and every program of collectives and
messages, from `DeploymentAssumption` alone: ranks are those of the mesh, a world
names a party once, and the parties of a world run the same program with the
same roots. A program may be of any length, and any number of calls may time out.

- The loops. `PlaceOK` says where each collective can be. `CallStarts` and
  `CallGoesOn` follow one step of a party and compare, for any two parties, what
  the one still sends with what the other still receives; they are about numbers
  only. Broadcast is the case with substance: a stride is a power of two (one bit
  is set, `HasSingleBit`), `bit_floor` exists for every size, and a party at
  distance *d* from the root receives at the lowest bit of *d*, from the party
  that has the value by then.
- `MeshTypeOK`: `TypeInv` adds what the counters are. `counter_` is the number of
  collectives among the calls made, `p2p_counter_` of a pair the number of its
  messages, so that an id depends on the place in the program only, and not on
  which calls timed out. Different calls therefore have different keys
  (`KeysDiffer`).
- `MeshResultsRight`, `MeshBarrierHolds` and `MeshSendNeverClashes`: `CallInv`
  says of a message in a channel that the sender of its call is past that send, so
  that it cannot send it again, and what it carries (`MsgInv`);
  which Buffers of a running call are filled in, and with what (`BufInv`); and
  that a party in the round of a Barrier with offset *o* has heard, directly or
  through others, from the *o* parties before it (`RoundInv`, where a message in
  a channel carries the same for its sender). None of the three properties is
  inductive without it: they do not say what a call under way has collected, nor
  whose messages lie in a channel.
- `MeshNoUnprovokedFailure`: `FailInv` adds that while no due message was late
  (`timeouts = 0`) a message lies in a channel exactly while its sender is past
  the send and its receiver not past the receive (`Matched`), the same of FINs and
  the places of the two closes (`Fins`), and that channels hold nothing else
  (`Known`). A Recv without a message then has a sender that is still to send, so
  that giving up counts as a timeout; and after all closes nothing is left.

*Only model-checked.* Liveness (`CloseCompletes`, `TransferEnds`, `AllReturn`,
`EveryoneFinishes`) is outside the prover's reach. The ten properties of `library`
compare recursive or bounded computations with reference definitions: what a
recursion computes for every input needs induction over data, which the prover
cannot do, and the modules use recursive operators, which it does not handle.
`TypeOK` of ParallelRun is neither a property of its run nor a theorem; the parts
of it the proofs need are in `Typed` and `Shapes`.

## Disagreements between the code and what it says

Shown by a run:

* `channel_close_race`: `SendAsync` tests `waiting_finish_` before it takes its
  sequence id. If another thread closes in between, the FIN counts one message
  less, the peer completes its close and stops its server, and the message finds
  none. `QuiescentAtClose` holds when the user closes only after its other calls
  have returned (`Serial`), which is how `channel_close` runs.
* `chunked_swallow`: when all chunks were started at once, the error of a failed
  one is stored and never looked at.
* `asio_answer_swap`: two threads that share a link may take each other's
  answers.

Seen while modelling, not runs of their own:

* Without `exit_if_async_error` a `Send` returns for a message that was lost
  (`channel.cc:91`, against `channel.h:70`): the task's destructor marks its id
  finished whatever happened.
* A request whose answer is lost is retried; if the peer has meanwhile finished
  its close, the retry meets a stopped server (`channel.cc:766`). Runs that
  close lose requests only.
* With two sending threads the throttle window compares the number of
  acknowledgements with a sequence id, not with the number of messages handed
  over, so a message may wait although the window has room (`channel.cc:677`);
  `WaitsOnlyWhenFull` is checked for one thread.
* `GetToken` throws while push threads are joinable, which ends the process
  (`channel.cc:239`); in `ChunkedSend` this is the outcome "terminated".
* A refused connect leaves `connecting_` set, and the next request on that link
  waits for ever (`asio_link.cc:348`); a thread that found the link unconnected
  may connect again and replace the socket (`asio_link.cc:327`), with a closed one
  if that connect is refused. `AllReturn` of `AsioLink` excludes exactly these
  cases.
* A clash of keys is answered with an error after the id was marked received
  (`channel.cc:476`). If that answer is lost, the retry counts as a duplicate and
  succeeds, although the message was dropped.
* AsioLink never throws a LinkError, so `SendRequestWithRetry` does not retry
  with it, and `ConnectToMesh` retries only a NetworkError (`context.cc:151`).
* `set_num_threads` after the pool exists is to be an error by the text at
  `parallel.cc:181`, which is the *condition* of an enforce and so always true.
  If it takes effect between the two readings of the number of threads in
  `parallel_reduce` (`parallel.h:143`, `parallel.cc:117`), a task may write
  behind the end of the results; if it is set to 1 after a range was cut, the
  pool cannot be created, now or later. `ResultsFit` and `OnlyBodiesThrow`
  hold when no set takes effect during a call.
* `SVoleKernel::eval_multithread` drops the futures of its tasks
  (`svole_kernel.cc:103`), so an error in one is lost; the sender's
  `eval_streaming` puts every step where the last one goes
  (`svole_kernel.cc:158`): `SvolePiecesFit` leaves its earlier steps out, and
  `SvoleInBounds` the sender whose steps do not divide the output. The receiver
  is held to both in all cases.

In the library's parts. An invariant that one of these cases concerns leaves it
out, and its comment says so.

* *Link set-up.* Over AsioLink a refused connection is an
  `asio::system_error`, which `ConnectToMesh` does not retry. `FactoryMem`
  never forgets a session. A notification of `Abort` (`channel.h:89`, "abort
  channel immediately") between a waiter's test and its sleep is lost; waits with
  a timeout recover, that of `WaitSeqIdSendFinished` has none.
  `AbortWakesSleepers` is about all other waiters.
* *Containers.* `dynamic_bitset::append(self)` reads a block it has changed.
  `Buffer::resize` accepts a negative size. `Item::ResizeAndSpan` only grows a
  vector although its comment says it is resized. An in-place
  operation reads elements it has already changed when its operands overlap.
* *SPI.* A performance is converted to an unsigned number, so that a negative one
  ranks before a positive one (`spi_factory.h:167`, against "bigger is better" at
  line 195); `BestLibraryChosen` is about performances of one sign. A `Check`
  that throws ends `Create`, and so the search.
* *MPInt.* Copy-assigning into a moved-from MPInt writes through a null pointer;
  `Set(float)` lacks the growth `Set(double)` has; the member `Pow(0)` of 0
  throws and the static one gives 1; `RandomLtN` of a non-positive bound never
  ends; `q + delta` of `mpx_safe_prime_rand` may need one bit more.
* *Fields.* Two MCL fields of one size class share a static modulus; the
  intrinsic field accepts every degree and creates two; its 64-bit `Pow` returns
  1, its 128-bit `Pow` and `Inv` throw; `ExtractHashCoef` is wrong for a largest
  index of 1 and throws for an only index of 0.
* *Curves.* Copies of an OpenSSL or MCL point share one object, and MCL's
  generator is a static. `ecc_spi.h:237` allows a buffer longer than the point:
  MCL's padding then clears the last byte of the point, and OpenSSL refuses to
  read it back; `PointsReadBack` leaves out these two. FourQ's
  `IsInfinity` asks only whether x is 0, and so takes the point of order two for
  the neutral one (`FourQlib/FourQ_group.cc:367`, against `ecc_spi.h:285`);
  `EqualPointsHashAlike` leaves that pair out. Three OpenSSL curve names
  cannot be reached; the toy groups hash to a curve without reducing, or not at
  all although `ecc_spi.h` says the autonomous strategy always works.
* *OT, VOLE, DPF.* `StealBlkBuf` and `Reset` of a store always throw; the
  cheetah variants of Ferret reuse its seed; SilentVole passes its `mal` flag
  as SoftSpoken's step; `PprfPunc` keeps the first seeds of a key that is
  punctured again; `MpFssParam::SetIndexes` ignores the last index.
* *Kernels, executors, circuits.* Each Ferret evaluation of an OtKernel starts
  again from the same cached OTs, as a FIXME there says; `Finalize` of
  the executors is right only for outputs of one width; a second `SetupInputs`
  is dropped; a truncated circuit file repeats its last gate.
* *Secret sharing, OPRF, re-encryption.* A share's position may be 0 or repeat;
  `RefreshBlind` keeps the inverse of the old blind; key derivation copies the
  info with `snprintf`, which puts a zero in the place of its last byte
  (`DerivedFromSeedAndInfo` leaves out infos that differ there only); `CipherHash` may be 0, whose inverse throws.
* *Coding, SNARK.* `CuckooIndex::Insert` past its limit throws after changing
  the table; the bits of `ToBits` cannot be derived by `ComputeWitness`;
  `DeserializeProof` ignores what follows the proof.
* *Streams and stores.* `FileInputStream::Read` throws at the end of file where
  `interface.h` excepts it, `MemInputStream::Read` is silently short;
  `MemoryKVStore::Put` keeps the first value and the leveldb store the last;
  temporary databases are not removed. A CSV row with a wrong number of fields
  throws with its line consumed. `Spawn` takes over the position but not the eof
  and fail bits (`file_io.cc:121`, against `interface.h:87`, "Copy all inter
  state"); `SpawnReadsOn` is about streams that have neither.
* *Randomness.* `SetSeed` of a Prg keeps what was cached; `Prg<bool>` hands out
  zero bits first (`PrgOnlyStream` is about words). `MersennePrimeMod` returns p
  for a sum of exactly p (`prg.h:172` tests `>`, its comment at line 160 `>=`);
  `MersenneRight` leaves that sum out. RdSeed's amounts do not pass the size
  check of `Sm4Drbg::ReSeed` (`native_factory.cc:270`, against line 255), so that
  NativeDrbg stops after its interval; `ServesWhileSeedsFit` and
  `DrbgAccessesInside` are about the other source. `derive` lays out its input for
  32 bytes and writes beyond it for shorter ones. Its step (l)
  (`native_factory.cc:208`) passes no place for the output length and does not
  look at the result: the cipher call of the pinned OpenSSL
  (`cmake/deps/openssl.cmake:18`) refuses that and writes nothing, so that the
  derived seed stays zero; a call that wrote would put 32 bytes into a 16-byte
  block. `DrbgAccessesInside` covers the accesses of that step, and no property
  is about the value derived. `SyncDrbg::Fill` leaves a batch unfilled when it
  reseeds (`sync_drbg.cc:144`, against `sync_drbg.h:112`), which `FillFills`
  leaves out; a Fill that has passed the flag goes on during an exchange
  (`sync_drbg.cc:123`, against `sync_drbg.h:83`), which `SyncedStreams` leaves
  out; and a failed exchange leaves the flag set.
* *Ciphers and keys.* `AeadCtx::GetMacSize` returns the key size for GCM;
  SM4-MTE seals an empty text and cannot open it; the DER file exports write
  PEM; `LoadKeyFromBufs` is declared and not defined; `MakeX509Cert` does not
  compare its two keys.

## Not modelled

Cryptography proper (ciphers, hashes, curve and pairing arithmetic of OpenSSL,
MCL, FourQ and the AES intrinsics), which is external to the models and
appears by what it promises; secrecy and soundness errors, which are
probabilistic; pairings (`math/pairing`), whose factories only choose an
external library; base OT and the vendored OT code; TLS and the wire format;
the mode of Channel without sequence ids; object lifetimes (the destructors of
Channel, FactoryAsio's local thread); stack traces, logging, timers and
statistics; benchmarks and examples.

## Plan

Done: the link layer, the thread pool, the library's parts, and the proofs
above. Left:

1. *Proofs*: of the library's parts those whose argument does not depend on the
   width, once their modules are freed of recursive operators:
   `OtSlicesDisjoint`, `BitsetConsistent`, `SvolePiecesFit`,
   `DigitsHaveOneOwner`, `AbortWakesSleepers`.
2. *Link, the rest*: the mode without sequence ids; Start and Stop of the
   receiver loop; the vector variants of Gather and AllGather.
3. *Numbers*: the pairing factories over the toy exponent groups.
