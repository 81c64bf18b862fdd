------------------------------ MODULE CApiConsumer ------------------------------
(***************************************************************************)
(* The consumer handle of the C API (capi/xproc_c.cpp): poll_copy with its *)
(* retained message, pending_len and wait, over either transport.          *)
(*                                                                         *)
(* A message is its number; Len gives its length.  The transport is a      *)
(* queue: shared memory releases a message after its handler returned, a   *)
(* socket has consumed it by the time the handler is called.               *)
(***************************************************************************)
EXTENDS Integers, Sequences

CONSTANTS
  Backends,     \* the transports considered: "shm", "socket"
  Lens, Caps,   \* lengths of messages, capacities of callers' buffers
  MaxSent,      \* bound: messages sent
  MaxAllocs     \* bound: failed allocations

ASSUME CApiAssumption ==
  /\ Backends \subseteq {"shm", "socket"}
  /\ Lens \subseteq Nat /\ Caps \subseteq Nat
  /\ MaxSent \in Nat /\ MaxAllocs \in Nat

VARIABLES
  backend,    \* the transport the consumer was opened on
  lens,       \* lengths of the messages sent, by number
  taken,      \* messages the transport has released
  pending,    \* consumer->pending: the retained message, 0 for none
  copied,     \* messages copied to the caller, in order
  status,     \* what the last call returned
  outLen,     \* and its *out_len
  waiting,    \* the caller is blocked in xproc_c_consumer_wait
  seen,       \* messages sent when shm_consumer::wait loaded commit_seq
  allocs      \* failed allocations so far

consumerVars == <<backend, lens, taken, pending, copied, status, outLen, waiting, seen, allocs>>

ConsumerInit ==
  /\ backend \in Backends
  /\ lens = << >> /\ taken = 0 /\ pending = 0 /\ copied = << >>
  /\ status = "OK" /\ outLen = 0 /\ waiting = FALSE /\ seen = 0 /\ allocs = 0

\* pending.size(): an empty vector is no message at all.
PendingLen == IF pending = 0 THEN 0 ELSE lens[pending]

Send ==
  /\ Len(lens) < MaxSent
  /\ \E n \in Lens : lens' = Append(lens, n)
  /\ UNCHANGED <<backend, taken, pending, copied, status, outLen, waiting, seen, allocs>>

Returns(code, n) == status' = code /\ outLen' = n

-----------------------------------------------------------------------------
(* xproc_c_consumer_poll_copy with a buffer of `cap' bytes.                *)

\* A message is retained: hand it over, or refuse again and keep it.
CopyPending(cap) ==
  /\ ~waiting /\ PendingLen # 0
  /\ \/ /\ cap >= PendingLen
        /\ copied' = Append(copied, pending)
        /\ pending' = 0
        /\ Returns("OK", PendingLen)
     \/ /\ cap < PendingLen
        /\ Returns("BUFFER_TOO_SMALL", PendingLen)
        /\ UNCHANGED <<copied, pending>>
  /\ UNCHANGED <<backend, lens, taken, waiting, seen, allocs>>

\* Fault: a message that does not fit is released without being retained.
PollTooSmallDrops(cap) ==
  /\ ~waiting /\ PendingLen = 0 /\ taken < Len(lens) /\ lens[taken + 1] > cap
  /\ taken' = taken + 1
  /\ Returns("BUFFER_TOO_SMALL", lens[taken + 1])
  /\ UNCHANGED <<backend, lens, pending, copied, waiting, seen, allocs>>

\* Fault: the message is retained but left in the transport as well.
PollTooSmallKeepsBoth(cap) ==
  /\ ~waiting /\ PendingLen = 0 /\ taken < Len(lens) /\ lens[taken + 1] > cap
  /\ pending' = taken + 1
  /\ Returns("BUFFER_TOO_SMALL", lens[taken + 1])
  /\ UNCHANGED <<backend, lens, taken, copied, waiting, seen, allocs>>

\* The transport has a message that does not fit: it is released and retained.
PollTooSmall(cap) ==
  /\ ~waiting /\ PendingLen = 0 /\ taken < Len(lens) /\ lens[taken + 1] > cap
  /\ taken' = taken + 1
  /\ pending' = taken + 1
  /\ Returns("BUFFER_TOO_SMALL", lens[taken + 1])
  /\ UNCHANGED <<backend, lens, copied, waiting, seen, allocs>>

PollFits(cap) ==
  /\ ~waiting /\ PendingLen = 0 /\ taken < Len(lens) /\ lens[taken + 1] <= cap
  /\ taken' = taken + 1
  /\ copied' = Append(copied, taken + 1)
  /\ Returns("OK", lens[taken + 1])
  /\ UNCHANGED <<backend, lens, pending, waiting, seen, allocs>>

PollAgain ==
  /\ ~waiting /\ PendingLen = 0 /\ taken = Len(lens)
  /\ Returns("AGAIN", 0)
  /\ UNCHANGED <<backend, lens, taken, pending, copied, waiting, seen, allocs>>

\* Allocation of the copy fails inside the handler: std::bad_alloc leaves poll(), and
\* a shared-memory transport has not released the message.
PollNoMemory(cap) ==
  /\ ~waiting /\ PendingLen = 0 /\ taken < Len(lens) /\ lens[taken + 1] > cap
  /\ allocs < MaxAllocs
  /\ allocs' = allocs + 1
  /\ taken' = IF backend = "socket" THEN taken + 1 ELSE taken
  /\ Returns("NO_MEMORY", outLen)
  /\ UNCHANGED <<backend, lens, pending, copied, waiting, seen>>

-----------------------------------------------------------------------------
(* xproc_c_consumer_wait.                                                  *)

Block == waiting' = TRUE /\ seen' = Len(lens) /\ UNCHANGED status

\* Fault: wait blocks although a message is retained.
WaitAlwaysBlocks ==
  /\ ~waiting
  /\ Block
  /\ UNCHANGED <<backend, lens, taken, pending, copied, outLen, allocs>>

\* With a message retained the call returns at once.
Wait ==
  /\ ~waiting
  /\ \/ PendingLen # 0 /\ status' = "OK" /\ UNCHANGED <<waiting, seen>>
     \/ PendingLen = 0 /\ Block
  /\ UNCHANGED <<backend, lens, taken, pending, copied, outLen, allocs>>

\* Shared memory waits for commit_seq to move from the value loaded on entry, a
\* socket for bytes to read.
WaitReturns ==
  /\ waiting
  /\ IF backend = "shm" THEN seen # Len(lens) ELSE taken < Len(lens)
  /\ waiting' = FALSE
  /\ status' = "OK"
  /\ UNCHANGED <<backend, lens, taken, pending, copied, outLen, seen, allocs>>

PollCopy(cap) ==
  \/ CopyPending(cap) \/ PollTooSmall(cap) \/ PollFits(cap) \/ PollAgain \/ PollNoMemory(cap)

ConsumerNext ==
  \/ Send
  \/ \E cap \in Caps : PollCopy(cap)
  \/ Wait \/ WaitReturns

ConsumerSpec == ConsumerInit /\ [][ConsumerNext]_consumerVars

-----------------------------------------------------------------------------
(* Properties.                                                             *)

\* Type invariant.
TypeOK ==
  /\ backend \in Backends /\ taken \in 0 .. Len(lens) /\ pending \in 0 .. taken
  /\ status \in {"OK", "AGAIN", "BUFFER_TOO_SMALL", "NO_MEMORY"} /\ outLen \in Nat
  /\ waiting \in BOOLEAN /\ seen \in 0 .. Len(lens) /\ allocs \in Nat

Contract == INSTANCE DeliveryContract WITH
  Messages <- 1 .. MaxSent, MayRepeat <- FALSE, MayLose <- TRUE,
  accepted <- [i \in 1 .. Len(lens) |-> i],
  cursor <- IF copied = << >> THEN 0 ELSE copied[Len(copied)],
  handed <- copied

\* The caller gets messages at most once and in order, whatever sizes of buffer it
\* tries: a refused message is neither doubled nor overtaken.
ImplementsContract == Contract!CSpec

\* Whatever the transport released, the caller has or will get from the handle: only
\* a socket loses a message, and only when its copy cannot be allocated.
NothingLost ==
  backend = "shm" \/ allocs = 0 =>
    \A m \in 1 .. taken : m = pending \/ \E i \in 1 .. Len(copied) : copied[i] = m

\* A caller is never left waiting with a message retained, and the length it was told
\* with BUFFER_TOO_SMALL is that of the message the next call hands over.
RefusalRetains ==
  /\ waiting => pending = 0
  /\ status = "BUFFER_TOO_SMALL" => pending # 0 /\ outLen = PendingLen
================================================================================
