------------------------------ MODULE ShmChannel ------------------------------
(***************************************************************************)
(* The shared-memory channel of include/xproc/ipc/channel.hpp: one         *)
(* producer process and one consumer process over one ring.  Every send    *)
(* variant and poll() is modelled at the grain at which the two processes  *)
(* interleave: reserve, copy, zero-pad, commit on one side, try_read,      *)
(* handler, read_advance on the other.                                     *)
(*                                                                         *)
(* The ring itself (spscring) is an external library.  Its operators are   *)
(* modelled from the way channel.hpp calls it.  Positions are monotone     *)
(* byte counters.  A record that starts at position pos is one contiguous  *)
(* region at offset pos % Capacity of the data area: channel.hpp copies it *)
(* with a single memcpy, so a record that begins near the end of the data  *)
(* area runs past it and does not go on at its beginning.                  *)
(***************************************************************************)
EXTENDS Integers, Sequences

CONSTANTS
  Layout,      \* "fixed" or "varlen" (transport_options::type)
  Capacity,    \* data_capacity, in bytes
  ItemSize,    \* item_size of a fixed channel
  SlotHeader,  \* bytes the ring keeps in front of a varlen payload
  Lens,        \* payload lengths the application asks for
  MaxCalls,    \* bound: number of send calls
  MaxFaults    \* bound: handler exceptions and consumer crashes

ASSUME LayoutAssumption == Layout \in {"fixed", "varlen"}

ASSUME SizeAssumption ==
  /\ Capacity \in Nat \ {0}
  /\ ItemSize \in Nat \ {0}
  /\ SlotHeader \in Nat
  /\ Lens \subseteq Nat
  /\ ItemSize <= Capacity

\* _init_header refuses a fixed channel whose items do not fill the data area.
ASSUME FillAssumption == Layout = "fixed" => Capacity % ItemSize = 0

ASSUME BoundAssumption == MaxCalls \in Nat /\ MaxFaults \in Nat

VARIABLES
  cells,      \* the data area of the segment
  writePos,   \* rb_meta.write_pos: end of the reserved bytes
  readPos,    \* rb_meta.read_pos
  log,        \* committed records, oldest first (history)
  nread,      \* how many of them read_advance has released
  ppc,        \* where the producer thread is inside a send call
  call,       \* the send call in progress: which one, its length, its slot
  results,    \* what each completed send call reported (history)
  cpc,        \* where the consumer thread is inside poll()
  delivered,  \* index in log of each handler call that returned (history)
  faults      \* handler exceptions and crashes so far

ringVars == <<cells, writePos, readPos, log, nread>>
prodVars == <<ppc, call, results>>
consVars == <<cpc, delivered, faults>>
vars == <<ringVars, prodVars, consVars>>

FixedCalls == {"send_fixed_sized", "send_fixed_bytes", "try_send_fixed_sized", "send_fixed_sized_for"}
VarlenCalls == {"send_varlen", "try_send_varlen", "send_varlen_for"}
Calls == FixedCalls \cup VarlenCalls

\* Calls that report a failure through send_result; the others throw.
StatusCalls == {"try_send_fixed_sized", "send_fixed_sized_for", "try_send_varlen", "send_varlen_for"}
Results == {"ok", "full", "timeout", "message_too_large", "invalid_argument", "throw"}

-----------------------------------------------------------------------------
(* Slot geometry.                                                          *)

HeaderSize == IF Layout = "fixed" THEN 0 ELSE SlotHeader

\* Bytes the handler is given: poll() always passes item_size on a fixed channel.
PayloadSize(len) == IF Layout = "fixed" THEN ItemSize ELSE len

Footprint(len) == HeaderSize + PayloadSize(len)

\* Positions of the payload bytes of a record that starts at pos.
PayloadAt(pos, len) == (pos + HeaderSize) .. (pos + Footprint(len) - 1)

Phys(p) == p % Capacity

\* Where the byte at position p of a record that starts at pos is stored: an offset
\* into the data area, or past it.
Addr(pos, p) == Phys(pos) + (p - pos)

\* The record does not fit between its start and the end of the data area.  A fixed
\* slot never does this; a varlen record may, and nothing in channel.hpp looks.
Spans(r) == Phys(r.pos) + Footprint(r.len) > Capacity

\* Messages are told apart by the number of their send call; 0 is a padding byte.
ByteOf(id, pos, len, p) == IF p < pos + HeaderSize + len THEN id ELSE 0

\* The payload bytes of r that lie inside the data area are those of its message.
Holds(r) ==
  \A p \in PayloadAt(r.pos, r.len) :
    Addr(r.pos, p) < Capacity => cells[Addr(r.pos, p)] = ByteOf(r.id, r.pos, r.len, p)

Unread == (nread + 1) .. Len(log)

-----------------------------------------------------------------------------
Init ==
  /\ cells = [i \in 0 .. Capacity - 1 |-> 0]
  /\ writePos = 0 /\ readPos = 0
  /\ log = << >> /\ nread = 0
  /\ ppc = "idle"
  /\ call = [name |-> "none", len |-> 0, pos |-> 0]
  /\ results = << >>
  /\ cpc = "idle" /\ delivered = << >> /\ faults = 0

-----------------------------------------------------------------------------
(* Producer.                                                               *)

Id == Len(results) + 1

Return(result) ==
  /\ results' = Append(results, result)
  /\ ppc' = "idle"
  /\ call' = [call EXCEPT !.name = "none"]

\* The channel-type checks.  send_varlen has none: on a fixed channel it casts the
\* fixed writer to a varlen writer, which is undefined, so that call is left out.
WrongType(name) ==
  \/ Layout = "varlen" /\ name \in FixedCalls
  \/ Layout = "fixed" /\ name \in VarlenCalls

TooLong(name, len) == name \in FixedCalls /\ len > ItemSize

Call(name, len) ==
  /\ ppc = "idle"
  /\ Len(results) < MaxCalls
  /\ ~(Layout = "fixed" /\ name = "send_varlen")
  /\ UNCHANGED <<ringVars, consVars>>
  /\ \/ /\ WrongType(name)
        /\ Return("throw")
     \/ /\ ~WrongType(name) /\ TooLong(name, len)
        /\ Return(IF name \in StatusCalls THEN "invalid_argument" ELSE "throw")
     \/ /\ ~WrongType(name) /\ ~TooLong(name, len)
        /\ ppc' = "reserve"
        /\ call' = [name |-> name, len |-> len, pos |-> writePos]
        /\ UNCHANGED results

\* Fault: there is room as long as the ring is not full, whatever the record needs.
FitsIgnoresSize == writePos - readPos < Capacity

\* spscring try_reserve: room for the whole record between write_pos and read_pos.
Fits == writePos + Footprint(call.len) - readPos <= Capacity
TooLarge == Footprint(call.len) > Capacity

Reserve ==
  /\ ppc = "reserve"
  /\ Fits
  /\ writePos' = writePos + Footprint(call.len)
  /\ call' = [call EXCEPT !.pos = writePos]
  /\ ppc' = "copy"
  /\ UNCHANGED <<cells, readPos, log, nread, results, consVars>>

\* Fault: only a full ring is reported, so a record that can never fit is retried for ever.
ReserveFailsOnlyWhenFull ==
  /\ ppc = "reserve"
  /\ ~Fits /\ ~TooLarge
  /\ \/ call.name = "send_varlen" /\ Return("throw")
     \/ call.name \in {"try_send_fixed_sized", "try_send_varlen"} /\ Return("full")
     \/ call.name \in {"send_fixed_sized_for", "send_varlen_for"} /\ Return("timeout")
  /\ UNCHANGED <<ringVars, consVars>>

\* try_reserve found no room.  spin_until_reserve stays in its loop, and so does a
\* timed call before its deadline: both are stuttering steps here.
ReserveFails ==
  /\ ppc = "reserve"
  /\ ~Fits
  /\ \/ call.name = "send_varlen" /\ Return("throw")
     \/ call.name \in StatusCalls /\ TooLarge /\ Return("message_too_large")
     \/ call.name \in {"try_send_fixed_sized", "try_send_varlen"} /\ ~TooLarge /\ Return("full")
     \/ call.name \in {"send_fixed_sized_for", "send_varlen_for"} /\ ~TooLarge /\ Return("timeout")
  /\ UNCHANGED <<ringVars, consVars>>

\* The data area once the bytes at positions ps of the slot in hand are set to value.
Written(ps, value) ==
  [i \in 0 .. Capacity - 1 |-> IF \E p \in ps : Addr(call.pos, p) = i THEN value ELSE cells[i]]

\* memcpy of the caller's bytes.  Where the record runs past the data area, and with it
\* past the segment, the copy is undefined: it goes through or the process dies of it.
Copy ==
  /\ ppc = "copy"
  /\ LET first == call.pos + HeaderSize IN cells' = Written(first .. (first + call.len - 1), Id)
  /\ \/ ppc' = IF Layout = "fixed" THEN "pad" ELSE "commit"
     \/ Spans(call) /\ ppc' = "dead"
  /\ UNCHANGED <<writePos, readPos, log, nread, call, results, consVars>>

\* Fault: the tail of the slot is left as the previous lap wrote it.
PadForgotten == ppc = "pad" /\ ppc' = "commit" /\ UNCHANGED <<ringVars, call, results, consVars>>

\* memset of the unused tail of a fixed slot.
Pad ==
  /\ ppc = "pad"
  /\ cells' = Written((call.pos + call.len) .. (call.pos + ItemSize - 1), 0)
  /\ ppc' = "commit"
  /\ UNCHANGED <<writePos, readPos, log, nread, call, results, consVars>>

\* Fault: a timed call whose deadline passed during the copy reports timeout all the same.
CommitReportsLate ==
  /\ ppc = "commit"
  /\ log' = Append(log, [id |-> Id, len |-> call.len, pos |-> call.pos])
  /\ Return(IF call.name \in {"send_fixed_sized_for", "send_varlen_for"} THEN "timeout" ELSE "ok")
  /\ UNCHANGED <<cells, writePos, readPos, nread, consVars>>

\* commit() publishes the record; only now can the reader see it.
Commit ==
  /\ ppc = "commit"
  /\ log' = Append(log, [id |-> Id, len |-> call.len, pos |-> call.pos])
  /\ Return("ok")
  /\ UNCHANGED <<cells, writePos, readPos, nread, consVars>>

-----------------------------------------------------------------------------
(* Consumer.  A poll() that finds nothing returns false and changes nothing. *)

\* Fault: the reader takes a ring with one record for an empty one.
TryReadOffByOne ==
  /\ cpc = "idle"
  /\ nread + 1 < Len(log)
  /\ cpc' = "handler"
  /\ UNCHANGED <<ringVars, prodVars, delivered, faults>>

TryRead ==
  /\ cpc = "idle"
  /\ nread < Len(log)
  /\ cpc' = "handler"
  /\ UNCHANGED <<ringVars, prodVars, delivered, faults>>

HandlerReturns ==
  /\ cpc = "handler"
  /\ delivered' = Append(delivered, nread + 1)
  /\ cpc' = "advance"
  /\ UNCHANGED <<ringVars, prodVars, faults>>

\* Fault: the exception is swallowed and the slot released.
HandlerThrowsReleases ==
  /\ cpc = "handler"
  /\ faults < MaxFaults
  /\ faults' = faults + 1
  /\ cpc' = "advance"
  /\ UNCHANGED <<ringVars, prodVars, delivered>>

\* The exception leaves poll() before read_advance.  A consumer that dies in its
\* handler, of a read past the data area for one, leaves the same state behind.
HandlerThrows ==
  /\ cpc = "handler"
  /\ faults < MaxFaults
  /\ faults' = faults + 1
  /\ cpc' = "idle"
  /\ UNCHANGED <<ringVars, prodVars, delivered>>

ReadAdvance ==
  /\ cpc = "advance"
  /\ readPos' = readPos + Footprint(log[nread + 1].len)
  /\ nread' = nread + 1
  /\ cpc' = "idle"
  /\ UNCHANGED <<cells, writePos, log, prodVars, delivered, faults>>

\* The consumer process dies inside poll() and a new one attaches to the segment.
ConsumerCrash ==
  /\ cpc = "advance"
  /\ faults < MaxFaults
  /\ faults' = faults + 1
  /\ cpc' = "idle"
  /\ UNCHANGED <<ringVars, prodVars, delivered>>

-----------------------------------------------------------------------------
Producer == (\E name \in Calls, len \in Lens : Call(name, len)) \/ Reserve \/ ReserveFails \/ Copy \/ Pad \/ Commit

Consumer == TryRead \/ HandlerReturns \/ HandlerThrows \/ ReadAdvance \/ ConsumerCrash

Next == Producer \/ Consumer

\* The producer thread is scheduled while it is inside a send call, and the
\* application polls in a loop.
Fairness ==
  /\ WF_vars(Reserve) /\ WF_vars(ReserveFails) /\ WF_vars(Copy) /\ WF_vars(Pad) /\ WF_vars(Commit)
  /\ WF_vars(TryRead) /\ WF_vars(HandlerReturns) /\ WF_vars(ReadAdvance)

Spec == Init /\ [][Next]_vars

FairSpec == Spec /\ Fairness

-----------------------------------------------------------------------------
(* Properties.                                                             *)

Records == [id : Nat, len : Nat, pos : Nat]

\* Type invariant.
TypeOK ==
  /\ cells \in [0 .. Capacity - 1 -> Nat]
  /\ writePos \in Nat /\ readPos \in Nat /\ nread \in Nat
  /\ log \in Seq(Records)
  /\ ppc \in {"idle", "reserve", "copy", "pad", "commit", "dead"}
  /\ call \in [name : Calls \cup {"none"}, len : Nat, pos : Nat]
  /\ results \in Seq(Results)
  /\ cpc \in {"idle", "handler", "advance"}
  /\ delivered \in Seq(Nat)
  /\ faults \in Nat

\* While the handler runs, the slot poll() lent it holds exactly the bytes of its
\* message followed by zeros, as far as the slot lies inside the data area: the
\* producer never reuses the slot before read_advance, never publishes it half
\* written, no byte of an earlier lap shows through the padding, and a record that
\* runs past the end damages none of the records at the beginning.  On a fixed
\* channel that is the whole slot.  On a varlen channel it is the whole payload of a
\* record that does not run past the end; nothing is promised of the bytes beyond,
\* and benchmarks/ringbuffer_benchmark.cpp:48-50 says only that the library
\* assumes there are none.
BorrowedPayloadIntact ==
  cpc = "handler" =>
    /\ Holds(log[nread + 1])
    /\ Layout = "fixed" => ~Spans(log[nread + 1])

\* A send call reports ok exactly when its message was published, and messages
\* are published in call order, each once: a call that reported full, timeout or
\* an error leaves nothing behind that poll() could return.
ResultsFaithful ==
  /\ \A i \in 1 .. Len(results) : results[i] = "ok" <=> \E j \in 1 .. Len(log) : log[j].id = i
  /\ \A j \in 1 .. Len(log) : log[j].id \in 1 .. Len(results)
  /\ \A j, k \in 1 .. Len(log) : j < k => log[j].id < log[k].id

\* poll() skips no message and never goes back: a handler call is for the message
\* after the previous one, or for the same message again when the consumer died
\* between the handler and read_advance.
DeliveredInOrder ==
  \A i \in 1 .. Len(delivered) :
    LET previous == IF i = 1 THEN 0 ELSE delivered[i - 1]
    IN  /\ delivered[i] = previous + 1 \/ (faults > 0 /\ i > 1 /\ delivered[i] = previous)
        /\ delivered[i] \in 1 .. Len(log)

\* read_advance releases only messages whose handler returned, so a handler that
\* throws sees its message again.
ReleasedWasHandled == \A i \in 1 .. nread : \E k \in 1 .. Len(delivered) : delivered[k] = i

LastHandled == IF delivered = << >> THEN 0 ELSE delivered[Len(delivered)]

Contract == INSTANCE DeliveryContract WITH
  Messages <- 1 .. MaxCalls,
  MayRepeat <- MaxFaults > 0,
  MayLose <- FALSE,
  accepted <- [i \in 1 .. Len(log) |-> log[i].id],
  cursor <- LastHandled,
  handed <- [i \in 1 .. Len(delivered) |-> log[delivered[i]].id]

\* The channel is a first-in first-out queue between commit() and the handler: no
\* message is lost or reordered, and only a crash or an exception repeats one.
ImplementsContract == Contract!CSpec

\* Every published message is eventually handled.
EveryMessageHandled ==
  \A i \in 1 .. MaxCalls : (i <= Len(log)) ~> (nread >= i)

\* Every send call eventually returns: the blocking ones because the consumer keeps
\* freeing slots, the timed ones by their deadline at the latest.  Only a copy past
\* the end of the segment may end the process instead.
EverySendReturns == (ppc # "idle") ~> (ppc \in {"idle", "dead"})

-----------------------------------------------------------------------------
(* The inductive invariant behind the safety properties.                   *)

InFlight == ppc \in {"copy", "pad", "commit", "dead"}

\* End of the committed bytes (rb_meta.commit_pos).
CommitEnd == IF InFlight THEN call.pos ELSE writePos

EndOf(r) == r.pos + Footprint(r.len)

FitsSlot(len) == Layout = "fixed" => len <= ItemSize

\* On a fixed channel positions are whole numbers of items.
Aligned(p) == Layout = "fixed" => p % ItemSize = 0

\* The reserved window never exceeds the ring, and the unread records tile it.
Tiling ==
  /\ nread <= Len(log)
  /\ readPos <= writePos /\ writePos - readPos <= Capacity
  /\ ppc # "idle" => FitsSlot(call.len)
  /\ ppc = "pad" => Layout = "fixed"
  /\ InFlight => readPos <= call.pos /\ EndOf(call) = writePos
  /\ \A i \in 1 .. Len(log) : FitsSlot(log[i].len) /\ Aligned(log[i].pos)
  /\ Aligned(writePos) /\ Aligned(call.pos)
  /\ nread = Len(log) => readPos = CommitEnd
  /\ nread < Len(log) => log[nread + 1].pos = readPos /\ EndOf(log[Len(log)]) = CommitEnd
  /\ \A i \in Unread : readPos <= log[i].pos /\ EndOf(log[i]) <= CommitEnd
  /\ \A i, j \in Unread : j = i + 1 => EndOf(log[i]) = log[j].pos
  /\ \A i, j \in Unread : i < j => EndOf(log[i]) <= log[j].pos

\* What the bytes of every unread record, and of the one being written, hold.
Contents ==
  /\ \A i \in Unread : Holds(log[i])
  /\ ppc = "pad" =>
       \A p \in PayloadAt(call.pos, call.len) :
         p < call.pos + call.len /\ Addr(call.pos, p) < Capacity => cells[Addr(call.pos, p)] = Id
  /\ ppc = "commit" => Holds([id |-> Id, len |-> call.len, pos |-> call.pos])

\* Where the reader is with respect to what it handed over.
Reading ==
  /\ cpc # "idle" => nread < Len(log)
  /\ LastHandled \in {nread, nread + 1}
  /\ cpc = "advance" => LastHandled = nread + 1
  /\ LastHandled = nread + 1 => cpc = "advance" \/ faults > 0
  /\ LastHandled <= Len(log)

\* The bounds on calls and faults are respected.
Bounded == faults <= MaxFaults /\ (ppc # "idle" => Len(results) < MaxCalls)

RingInv == TypeOK /\ Tiling /\ Contents /\ Reading /\ DeliveredInOrder /\ ResultsFaithful /\ ReleasedWasHandled
=============================================================================
