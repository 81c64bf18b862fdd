# Verification of xproc

TLA+ models of xproc, checked with TLC on small instances. Every safety property that
the passing runs check is also proved with TLAPS, for every value of the constants.
`PROJECT.json` maps each definition to the source lines it models and lists the runs,
hazards, findings and theorems.

## The system

xproc passes messages from one producer process to one consumer process, through a
ring in shared memory or over a TCP connection.

| Part | State | Operations | What makes it hard |
|---|---|---|---|
| Channel (`channel.hpp`, `shm_interface.cpp`) | ring bytes, `write_pos`, `commit_pos`, `read_pos` | seven send variants, `poll` | payloads borrowed from the ring, the end of the data area, full ring, exceptions and crashes between handler and release |
| Runtime (`runtime.hpp`) | `running_`, reuse buffer, notify word | `run`, `run` with backpressure, `run_batched`, `stop` | stop and commit racing the wait, tasks that outlive their buffer |
| Segment (`shm_posix.cpp`, `layout_manager.cpp`, `endpoint.hpp`) | name, control block, `attach_count`, `producer_pid` | open, format, validate, close, unlink, `read_existing_shm_options` | processes that create, attach and die at any step |
| Windows shared memory (`shm_win32.cpp`) | sections, views with counts, canonical handles | open, share, move, detach | threads between lookup, system call and registration; handle values used again |
| Options and builders (`options.hpp`, `shm_builders.hpp`, `socket_builders.hpp`, both bindings) | options in hand, header of a segment | set, parse, check, open, give out, infer | integer limits and types of three languages, what comes back in |
| Socket transport (`socket_channel.cpp`) | connections, byte streams, wake pipe | connect, send, accept, poll, wait, interrupt | cut-off frames, failed reads, lost peers, reconnection with a backlog |
| Observer and diagnostics (`observer.hpp`, `diagnostics_tracker.*`) | last snapshots | `snapshot`, metrics, `peek`, `update` | loads at different moments |
| C API (`capi/xproc_c.cpp`) | handles, retained message, last error per thread | open, send, `poll_copy`, `wait` | retries with another buffer, failed allocations |
| Node and Python bindings | wrapper objects, pending waits, trackers | open, close, send, poll, peek, `waitAsync`, collection | garbage collection, pool threads, the GIL |
| Subprocess (`platform/subprocess_*`) and handshake examples | children, their numbers, pipes | spawn, `poll_exit`, `wait`, `terminate`, hello, ack, progress | partial failures, numbers used again, children that die at any step |

A `runtime` drives a channel or a socket consumer through `poll` and `wait`; the C API
and the bindings wrap the same interfaces. Endpoints open a segment first and build
channel views on it. An observer maps the segment read-only. The examples start a child
with a process object and talk to it over channels.

`thirdparty/spscring`, which owns the ring's reservation and commit and the notify
word, is a submodule whose source is not in the tree. Those steps are modelled from how
`channel.hpp`, `runtime.hpp` and `observer.hpp` use them and marked external in the map.

## Modules

| Module | Models |
|---|---|
| `ShmChannel` | One action per step of a send (`Call`, `Reserve`, `ReserveFails`, `Copy`, `Pad`, `Commit`) and of `poll` (`TryRead`, `HandlerReturns`, `HandlerThrows`, `ReadAdvance`), down to the cells of the ring. `Layout` selects fixed or varlen. |
| `DeliveryContract` | The abstract promise of a transport: accepted messages are handed over in order. Constants say whether the last may be repeated and whether some may be dropped. Implemented by `ShmChannel`, `SocketTransport` and `CApiConsumer`. |
| `Runtime` | The consumer loop over shared memory in its three modes, with copy policy and executor as constants, the notify word, a producer and any thread calling `stop()`. |
| `Segment`, `MCSegment` | The constructors of endpoints and observers, and calls of `read_existing_shm_options`, as processes, step by step, with crash, close and unlink. |
| `Win32Shm`, `MCWin32` | The shm objects of one Windows process and its two tables: each system call and each block under `g_win32_shm_mutex` is a step. |
| `Options`, `MCOptions` | Options as a record. `parse` of either binding, the builder's setters and the checks are operators over values with a type; building, opening, giving out and inferring are actions, through C++, C, Node (its channel factories and attachers included) and Python. What scripts pass, what builders are given and who created the segment before are constants. |
| `SocketTransport` | Producer, TCP connections as bounded streams of frame pieces, and `run()` over `socket_consumer`. |
| `Observer` | Every load of the observer as its own step between those of a commit, the consumer and `stop()`. |
| `CApiConsumer` | `poll_copy`, `pending_len` and `wait` over either transport. |
| `Bindings` | The objects of the Node addon or the Python module, the interpreter as a token (`turn`), two threads, and the last error of each. |
| `Subprocess` | The process class on both platforms against a system that gives numbers and handles out again: a handle closed twice may by then be that of a later child, which loses it (`Close`). |
| `Launcher` | `Subprocess` composed with the parents and children of the two handshake examples, or with arbitrary calls. |
| `ShmChannelProofs`, `RuntimeProofs`, `SegmentProofs`, `SocketProofs`, `Win32Proofs` | Theorems about the module of that name. |
| `BindingsProofs` | Theorems about `Bindings` and `Options`. |
| `ReaderProofs` | Theorems about `Observer` and `CApiConsumer`. |
| `LauncherProofs` | Theorems about `Subprocess` and `Launcher`. |

An operator whose comment begins with "Fault:" is a plausible bug in the definition
after it. It is no part of any specification: it shows that a property would notice.

### Abstractions

- A message is a number, and a payload is that number in each of its cells. Metadata is
  not told apart from the payload.
- A record is one contiguous region, as `channel.hpp` copies and reads it with one
  pointer. A varlen record that begins near the end of the data area runs past it, and
  `spscring` is not known to prevent that. What lies beyond is not modelled: the copy goes
  through or the process dies of it (`Copy`), and nothing is said of those bytes.
- A record's header takes room in the ring, and its contents are not modelled.
  `BorrowedPayloadIntact` therefore speaks of payload cells; that a reservation never
  reaches the positions of an unread record, header included, is `Tiling` in the proved
  `RingInv`.
- `Runtime` and `Observer` count records of one size; the byte geometry is in
  `ShmChannel`.
- `commit_seq` is an unbounded number beside a waiter flag. The code packs a 31-bit
  counter and the flag into one word; wrapping would take 2^31 bumps during one sleep.
- Atomic operations are sequentially consistent single steps. The code pairs release
  stores with acquire loads at the places where order matters.
- In `Segment` the manifest fields that must agree are one value. In `Options` they are
  separate, and the header is read at one moment.
- In `Options` the limits of the integer types are small constants in the same order as
  the real ones (16 bits, 32 bits, the doubles' 2^53, 64 bits). `IntMax` is
  the largest C `int`. Sums of sizes wrap as a `size_t` does.
- In `SocketTransport` a frame is `FrameUnits` pieces. A prefix and a payload, or the
  parts of a partial write, are pieces.
- In `Subprocess` a handle is named after what it was opened for. A value that was closed
  is not used for waits or reads in the name of its new owner; only that it may be closed
  again, and whose handle that hits, is followed.
- In `Bindings` and `Launcher` a channel is a list of messages, as `ShmChannel` and the
  contract allow. A native call that does not block is one step.
- Time is not measured: a deadline may pass at any moment while the code looks at it.

## Runs

| Run | Shows |
|---|---|
| `channel_fixed`, `channel_varlen` | Borrowed bytes stay intact wherever they lie inside the data area: the whole slot of a fixed channel, the whole payload of a varlen record that does not run past the end (`BorrowedPayloadIntact`). Results agree with publication (`ResultsFaithful`), messages are handed over in order and repeated only after a fault (`ImplementsContract`), every message is handled, and every send returns unless a copy past the end of the segment ends the process. |
| `runtime` | Counts reported to the backpressure callback add up; handlers see their own bytes with `sbo` and an executor that runs tasks at once or later; `stop()` is not missed, lets at most the rest of a batch through and ends the loop. |
| `segment` | Constructors that race, or run again after a close or a death, meet in one segment with an exact `attach_count` and a compatible layout; options read out of a segment fit it; every constructor ends, that of a dead creator's peer included. |
| `win32` | View counts and canonical handles are exact, nothing is left when all objects are closed, and a name opens a section of that name. |
| `options` | What an open endpoint gives out is accepted again by every endpoint it can be meant for, attaches to the same segment and has kept its settings. What builders, factories, attachers and segments give out passes the checks of the options, but for a wrapped size. |
| `socket` | Frames stay whole, order holds across reconnections, every message is handled if no write, read or handler fails and no producer dies, `stop()` ends the loop. |
| `observer` | What metrics, snapshot, peek and tracker may show although their loads are not atomic. A peek is intact until its slot is reserved again. |
| `capi` | A refused message is retained, neither lost, repeated nor overtaken, over either transport. |
| `bindings` | No thread is inside a deleted handle, the length probed is the length copied, the exception of a call says what made that call fail (the rejection of `waitAsync` excepted, see below), and `waitAsync` settles. |
| `launcher` | Children and handles are accounted for through every call and failure of the process class, except those that a second close of `hThread` hits on Windows; the examples report what their child did, and end. |

Every property of these runs comes with a fault that makes TLC report it violated.

### Disagreements met

| Run | What the code does |
|---|---|
| `runtime_lost_wakeup` | A commit between an empty poll and the load of `commit_seq` leaves the loop asleep with data in the ring. The run ends in that counterexample; `findings` quotes the text it contradicts. |

Met as well while modelling, and kept with the hazards:

- An attacher early enough is refused with `bad_magic` instead of waiting for `is_ready`
  (`CheckMagic`), though `docs/design.rst:9` says that non-creators wait.
- A consumer that created the segment may erase the pid of a producer that attached at
  the same time (`PublishPid`).
- The exception of a refused open may carry the code `ok` when the creator finishes
  between the two validations (`Compare`).
- A handler's `std::runtime_error` is taken for a lost peer by the socket consumer and
  swallowed, though `runtime.hpp:45` says that the loop does not catch it.
- With `reuse_buffer` or `zero_copy` a task that an executor posted reads the bytes of a
  later message, as the comment on `copy_policy` warns.
- `stop()` moves `commit_seq`, so `producer_alive` can be true without a commit.
- On Windows the canonical handle may be closed between its lookup and
  `DuplicateHandle` (`OpenedByName` excepts it).
- On Windows `spawn` closes `hThread` and the object closes its copy again
  (`subprocess_win32.cpp:215`, `289`). By then the value may be that of a handle of a later
  child, which is closed in its place (`HandlesOwned` and `ChildrenAccounted` except it).
- An interrupted `waitpid` counts as the child's end (`ChildrenAccounted` excepts it).
- `peekCopy` of both bindings peeks twice, and the consumer may take the message in
  between: Node then returns a shorter message in a buffer of the old length, or throws
  where `index.d.ts:350` says `null`.
- A script that sends into a full ring whose consumer it holds itself stops for good
  (`WaitSettles` excepts it).
- A varlen record may run past the end of the data area (`Spans`). The comment at
  `benchmarks/ringbuffer_benchmark.cpp:48-50` says that the library assumes it does not,
  and nothing in `channel.hpp` sees to it (`BorrowedPayloadIntact` says nothing of the
  bytes beyond, `EverySendReturns` excepts a copy that ends the process).
- A peek shows the oldest unread message, though `index.d.ts:340`, `350` and `355` and
  `__init__.pyi:412` and `450` say the latest. Nothing keeps its slot from being written
  again under the handler (`PeekIntact` excepts that).
- A `waitAsync` that fails is rejected with the last error of the JavaScript thread, that
  of an earlier call or none, since the call that failed ran in a pool thread
  (`ErrorsNameTheirCause` excepts it).
- A C++ builder given the one capacity whose sum with the control block wraps to 0 gives
  out options without a size, which no creator takes (`SizeWrapped`; `GivenOutIsAccepted`
  excepts it). Node's factories refuse it.
- The checks of the options do not compare capacity and item size: a creator may still be
  refused by `_init_header` (`layout_manager.cpp:140`), which leaves the segment behind
  unformatted.
- Node's attachers do not compare the schema they are given with the segment's, as the C++
  ones do; the endpoint then refuses it (`CopyAttaches`).
- The launcher demo does not poll again after the child's exit, so its last telemetry
  stays in the ring.
- A Python thread may close the consumer that another is waiting on
  (`HandlesOutliveUse` excepts it).

### Bounds

- Channel: four calls on rings of two fixed slots, or of six cells for varlen records of
  two and three cells, so the ring fills, positions go round and a record
  runs past the end of the data area. A payload too long for its slot or ring is among
  the lengths. No varlen call waits for room without a deadline (`send_varlen` throws), so
  sends that block are in the fixed run.
- Runtime: two slots and up to three messages (slots are reused), two stops and two
  calls of `run`, so that a stop may meet the loop at every step and a second run
  follows a first.
- Segment: a producer, a consumer, an observer and a reader of options share three
  constructor calls in any way, so three race or one comes back after its death, with
  one crash and one unlink; `MaxSegs` is one more than the unlinks, the most that can
  be created. The options differ in item size and capacity, and one pair cannot be
  formatted.
- Win32: two objects, two names, three sizes (one of them "as large as it is"), three
  handle values, two sections and four opens, so that handle values come round again
  while an open is under way. Objects, names and handle values are symmetric.
- Options: for each field a few values of each type, around the limits of its integer
  type and of the checks, two fields at a time; capacities up to the largest `size_t`,
  one of which wraps the size to 0 and some of which items do not fill; options go out and
  in again twice. The build is for Windows, where one check more is made.
- Socket: three messages of two pieces over two connections with a buffer of three
  pieces, so writes block inside a frame, and one fault: a failed write or read, a dead
  producer or a handler's exception.
- Observer: two calls against four messages in two slots, so slots are overwritten
  during a peek.
- C API: four messages, empty ones included, three buffer sizes, one failed allocation.
- Bindings: both hosts, two threads, two trackers, two messages of two lengths
  and a ring of one slot, so a send blocks and a message changes between two calls. Messages
  are not empty here; empty ones are in the run of the C API.
- Launcher: two process objects, two process numbers and two spawns, so that a number
  is used again while an object still has it, two streams, and children of two steps.

The passing run of `Runtime` uses the batched and the backpressure mode. Plain `run()` is
in `runtime_lost_wakeup`; its safety properties are proved with those of the other modes,
and that `stop()` ends it is checked over a socket only.

Deadlock is not checked where the bounds, or a system that may stop, end a behaviour.

### Fairness

- Weak fairness of each step of a send, of `poll` and of the loop: a running thread
  goes on. Handlers are assumed to return.
- `Call`, `Stop`, crashes, exceptions and unlinks are never fair: nobody has to do them.
- Weak fairness of `ProducerNotify` and `StopNotify`: a wake call once due is made.
- Segment: while constructors run, some constructor takes a step. No constructor loops
  for ever, so this is enough, and less than a scheduler grants.
- Socket: the producer finishes a frame it has begun or closes. A live peer that stays
  silent inside a frame would keep `poll` in `read_exact_sock`, where `stop()` cannot
  reach it.
- Bindings: weak fairness of the interpreter's thread and strong fairness of the pool
  thread, whose completion is disabled again and again while scripts hold the
  interpreter; libuv's loop comes round to it.
- Launcher: parent and child go on, and a deadline that the parent keeps looking at
  passes. The last is strong, as the parent looks at its clock between other steps only.

## Proofs

All theorems assume only the named `ASSUME`s of the modules: capacities, sizes and
bounds are naturals, positive where the code divides by them or refuses zero; roles are
disjoint and finite sets of processes; options pass the checks of `options.hpp`; 0 is
no handle and no process number, and is among the exit codes; the names of streams,
trackers and process objects differ from the words the models set aside. Of the options,
builders' arguments have their C++ types, a number that a script gives for an integer is
one, and an earlier creator passed its own checks.

Each argument has the same form. The property is not inductive, so an invariant is
stated that is, one lemma per action shows that it is kept, and the property follows
from it. The invariants were tried with TLC on the instances of the runs first.

`ShmChannelProofs`. The safety properties of `ShmChannel` are not inductive: that a
borrowed payload is intact depends on where the producer writes. `RingInv` (defined in
`ShmChannel`) adds that unread records tile the positions from `read_pos` to the last
commit and a record being written follows them (`Tiling`), that each holds its message
inside the data area (`Contents`), and that the reader is at the oldest one (`Reading`).
Distinct positions less than a capacity apart are distinct cells (`PhysDistinct`), a
byte inside the data area is stored at its position's cell (`AddrInside`), and a fixed
slot lies inside as a whole because positions are multiples of the item size
(`SlotInside`). A write into a reservation therefore leaves the others alone, also when
it runs past the end. One lemma per action shows that `RingInv` is kept. From it follow
`TypeCorrect`, `PayloadIntegrity`, `ResultsAreFaithful`, `NothingReleasedUnhandled`, and
`ChannelImplementsContract`, the refinement of `DeliveryContract`.

`RuntimeProofs`. `RuntimeInv` consists of: a blocked loop is registered in the notify
word, or a bump or wake call is pending (`WordInv`); dispatched messages are reported or
still counted (`AcctInv`); messages handed over after a stop are within the current
batch (`LateInv`); unread slots hold their messages (`SlotInv`); what a task captured is
its message (`TaskInv`), and so is what handlers saw (`SeenInv`); a message given to the
executor was handled or is posted, not both, and posted tasks are in order
(`DispatchInv`). Each part has a lemma with one case per action. The theorems are
`NoStopMissed`, `ReportsAddUp`, `OverrunBounded`, `HandlersSeeTheirMessages` and
`MessagesHandledOnce`. `HandlersSeeTheirMessages` is for an inline executor or `sbo`, the
cases in which the code keeps the bytes. `MessagesHandledOnce` is for every executor and
policy: it counts calls of handlers that return. A handler that throws out of `run()`
leaves its message in the ring, and the next `run()` calls it again.

`SegmentProofs`. That `attach_count` is exact cannot be shown from
itself: a creator stores 1 over whatever is there, which is right only if nobody holds a
reference yet. `SegInv` adds that a segment has one creator (`OneCreator`), that what a
constructor has checked or stored so far holds of the block it has mapped (`Phase`),
that segments not yet made are blank (`Fresh`), and that without an unlink there is only
one (`OneName`). A constructor past `is_ready` and one before it can then not have the
same segment (`CreatorAlone`), so the creator's stores disturb nobody. The steps fall
into three kinds, each with a lemma: those that write nothing shared (`PrivateStep`),
the creator's stores (`CreatorStep`), and changes of a ready block (`SharedStep`). The
theorems are `AttachCountIsExact`, `AttachedShareManifest` and `RacersMeet`.

`ReaderProofs`, the observer. A bound on what two loads give needs to know what may
happen between them. `ObserverInv` relates the loads made so far to the state of the
ring at each later load: `UsedInv` for the metrics, `PeekInv` for a peek, `SnapInv` for
a snapshot in the making, `QuietInv` for two successive snapshots, over `RingInv`, the
ring between the steps of its two sides. The theorems are `OccupancyNeverTooHigh`,
`PeekSeesOldest`, `SnapshotIsCovered` and `QuietTrackerIsRight`. `PeekSeesOldest` needs
that a slot keeps its message until it is reserved again, even when the message was
released.

`ReaderProofs`, the C API. `HandleInv` adds to the properties that a retained message is the
last one taken, has a length above zero and comes after everything copied (`Retained`).
The length matters: the code tells "nothing retained" by an empty vector, and an empty
message is never retained (`EmptyMeansNone`). The theorems are `RefusedMessageKept`,
`PollCopyLosesNothing` and `HandleImplementsContract`, the refinement of
`DeliveryContract`.

`SocketProofs`. A frame is read piece by piece while the producer may fail inside one,
reconnect and go on, so `FramesWhole` needs to know what may be on a connection.
`StreamInv` says that the pieces in flight follow each other within frames, that the
first goes on where the consumer is (`Resumes`) and the last is where the producer is
(`Trails`); a write that fails closes its connection, so nothing comes after half a
frame. `ConnInv` orders the connections, and `OrderInv`, `TakenInv` and `DeliveredInv`
order the messages along them, in the consumer's frame and among those delivered. With
`TypeInv` they make `SocketInv`. The theorems are `FramesWholeAlways` and
`SocketImplementsContract`, the refinement of `DeliveryContract`: in order, at most once
and only what was sent, with drops allowed. `NothingLostAlways` says when there are
none: as long as no write or read failed, no producer died and no handler threw, a
message whose send returned is delivered, in the consumer's hands or on a connection. It
needs that the producer's connection has both ends (`EndsInv`): the consumer closes one
only at its end, which comes after the producer has closed it. `StopReachesWaitAlways`
is the safety part of `StopEndsRun`: a consumer that waits after `stop()` has the wake
byte, or the stopping thread is about to write it.

`BindingsProofs`. `BindInv` says who may hold what: an object referred to is open, the
observer's count is that of its open trackers and it is open while there is one
(`ObjectsInv`); a thread inside a native call that scripts see as one has the
interpreter (`ThreadsInv`); in Node the consumer is open while its pool thread waits
(`WaitsInv`). Nobody else can then take the message between the two calls of a copy. The
last error is kept per thread, and a thread that failed calls nothing before it reads
the text; the promise of `waitAsync`, which another thread rejects, is excepted. The
theorems are `HandlesOutliveUseAlways`, `ProbeStillValidAlways` and
`ErrorsNameTheirCauseAlways`.

`BindingsProofs`, the options. What is given out is accepted again only if what was
checked once is still so after conversions, so `OptionsInv` follows the options through
their stages: they always have their C++ types, whatever a script passed; those of an
open endpoint were checked for its kind and match the manifest, whose capacity is the
size they name; those taken out match it too; a formatted manifest is one that
`_init_header` writes (`Manifest`). The lemmas are about the operators. The checks of
either binding let only values of the field's type through (`ScriptTyped`). What either
gives out it takes back, with the same values, 64-bit fields above the safe integers
included (`RoundTripJs`, `RoundTripPy`), and so does C (`RoundTripC`). Size and capacity
are inverse to each other for sizes a segment can have (`SizeOfCapacity`,
`CapacityOfSize`). Options that attached still do once the manifest's size is filled in
(`AttachedKeeps`), and so do those read from the manifest (`ReadExistingOk`); with
another schema they do exactly if it is the segment's (`OtherSchema`). A listener that
keeps the port it got stays valid (`BoundKeeps`). The theorems are
`GivenOutIsAcceptedAlways`, `CopyAttachesAlways` and, an action property,
`CopyKeepsSettingsAlways`.

`Win32Proofs`. The tables of the process and of the kernel are changed by different
steps, so `Win32Inv` relates them at each point of an `open`: every open handle has
exactly one owner, an `open` under way or a registered view (`OwnerInv`); a view is
counted once per object (`UsersInv`); a section is mapped once per view and once per
`open` about to register (`MapsInv`); a canonical handle belongs to a view of its name
(`CanonicalInv`). `SizesInv` holds always and `NamesInv` as long as no handle was closed
between its lookup and `DuplicateHandle`. Counting rests on `FiniteSetTheorems`: each
step adds or removes one member of the sets that are counted. The theorems are
`TablesExactAlways`, `NothingLeaksAlways` and `OpenedByNameAlways`.

`LauncherProofs`. `ProcInv` is about the process class. A record stands for its child as
long as it may use the child's number, and what it says of the exit is how the child
ended (`Stands`), unless its `hProcess` was closed in place of an `hThread`; no child
has two records; every child with a number has one (`ReapInv`); the open handles are
those of records and of the spawn under way, less those that were closed in place of
another (`OpenInv`, `StruckInv`). `LaunchInv` is about the examples: what was sent is
handled or on its way (`PipeInv`), only a child that has done its work exits with 0
(`ChildInv`), a child with its ack is followed to its end and to its last message
(`ProgressInv`), and the number in the region is that of the child, even before `spawn`
has returned (`MonitorInv`). Every step of the examples is one of a few kinds as far as
processes are concerned (`StepKinds`), so `ProcInv` is shown once for both. The theorems
are `ChildrenAccountedAlways`, `HandlesOwnedAlways` and `ResultTrueAlways`.

Model-checked only: the liveness properties (`EveryMessageHandled`, `EverySendReturns`,
`StopEndsRun`, `EveryOpenEnds`, `WaitSettles`, `LaunchEnds`), since fairness is out of the
prover's reach, and the counterexample of `runtime_lost_wakeup`.

## Not modelled

- The inside of `spscring`: its source is not in the tree.
- A payload buffer that cannot be allocated inside the socket's `poll`: the connection
  stays in the middle of a frame, and what the next poll makes of it depends on payload
  bytes, which the pieces of a frame do not have.
- `run_batched` with a batch size of 0 never polls. No check refuses it and no document
  describes it; the model takes sizes from 1.
- The wrap of the 31-bit counter: see Abstractions.
- A `stop()` before `run()` is overwritten by `run()`; no document says what it should
  do, so no property is stated.
- The uses of a Windows handle value that was closed under its object and given out
  again, other than to close it: whose child such a `wait` would wait for is not followed.
- `created_this_open_` of the Windows shared memory: it decides who formats a segment,
  which `Segment` models for POSIX, and none of the tables of `Win32Shm` depends on it.
- `open()` on a Windows object that is open already: it would forget what the object had.
  Every user of the class in the library opens a new object once.
- Options taken out of one binding and handed to the other.
- The text of a rejected `waitAsync` beyond whose it is.
- `idle_duration_ms`, error texts, address resolution, socket options, names of Windows
  objects, quoting of command lines, data in a child's pipes: no property is about them.
- Rust and C# bindings: wrappers over the C API, whose calls are modelled, with handles
  owned by `Drop` and `SafeHandle`.
- The other examples, benchmarks and tools: they use the library in one fixed way each.
