-------------------------------- MODULE Observer --------------------------------
(***************************************************************************)
(* The read-only side: observer::snapshot, the occupancy metrics and peek  *)
(* (include/xproc/ipc/observer.hpp) and diagnostics_tracker, while a       *)
(* producer, a consumer and a thread that calls runtime::stop() go on.     *)
(*                                                                         *)
(* Every field is loaded on its own, so what the observer puts together    *)
(* never existed at one moment.  Positions count records of one size.      *)
(***************************************************************************)
EXTENDS Integers

CONSTANTS
  Capacity,      \* records the ring holds
  MaxMsgs,       \* bound: messages published
  MaxStops,      \* bound: calls of runtime::stop()
  MaxLooks       \* bound: calls on the observer

ASSUME ObserverBounds ==
  /\ Capacity \in Nat \ {0}
  /\ MaxMsgs \in Nat /\ MaxStops \in Nat /\ MaxLooks \in Nat

VARIABLES
  slots, writePos, commitPos, readPos, commitSeq,   \* the ring
  ppc,             \* the producer: "idle", "publish" or "bump"
  stops,
  opc, snap,       \* the observer: what it is doing, and the fields loaded so far
  was,             \* what was true when the first field was loaded (history)
  used,            \* last result of used_bytes_, and `was' of that call
  peeked,          \* last payload peek() passed on, the position it came from, and whether
                   \* the producer had come round to that position's slot by then
  prev, curr,      \* prev_ and curr_ of the tracker
  looks

ring == <<slots, writePos, commitPos, readPos, commitSeq>>
observer == <<opc, snap, was, used, peeked, prev, curr, looks>>
vars == <<ring, ppc, stops, observer>>

Slot(n) == n % Capacity
NoSnap == [write |-> 0, read |-> 0, seq |-> 0, commit |-> 0]

Init ==
  /\ slots = [i \in 0 .. Capacity - 1 |-> 0]
  /\ writePos = 0 /\ commitPos = 0 /\ readPos = 0 /\ commitSeq = 0
  /\ ppc = "idle" /\ stops = 0
  /\ opc = "idle" /\ snap = NoSnap /\ was = 0 /\ used = [bytes |-> 0, was |-> 0]
  /\ peeked = [pos |-> 0, bytes |-> 1, lapped |-> FALSE]
  /\ prev = NoSnap /\ curr = NoSnap /\ looks = 0

-----------------------------------------------------------------------------
(* The producer, the consumer and stop().                                  *)

Reserve ==
  /\ ppc = "idle"
  /\ writePos < MaxMsgs
  /\ writePos - readPos < Capacity
  /\ writePos' = writePos + 1
  /\ ppc' = "publish"
  /\ UNCHANGED <<slots, commitPos, readPos, commitSeq, stops, observer>>

Publish ==
  /\ ppc = "publish"
  /\ slots' = [slots EXCEPT ![Slot(commitPos)] = writePos]
  /\ commitPos' = writePos
  /\ ppc' = "bump"
  /\ UNCHANGED <<writePos, readPos, commitSeq, stops, observer>>

CommitBump ==
  /\ ppc = "bump"
  /\ commitSeq' = commitSeq + 1
  /\ ppc' = "idle"
  /\ UNCHANGED <<slots, writePos, commitPos, readPos, stops, observer>>

Consume ==
  /\ readPos < commitPos
  /\ readPos' = readPos + 1
  /\ UNCHANGED <<slots, writePos, commitPos, commitSeq, ppc, stops, observer>>

\* runtime::stop() bumps commit_seq to wake its loop.
StopBump ==
  /\ stops < MaxStops
  /\ stops' = stops + 1
  /\ commitSeq' = commitSeq + 1
  /\ UNCHANGED <<slots, writePos, commitPos, readPos, ppc, observer>>

-----------------------------------------------------------------------------
(* The observer.                                                           *)

world == <<ring, ppc, stops>>

\* Any of the calls begins; all but peek load write_pos first.
Look(call) ==
  /\ opc = "idle"
  /\ looks < MaxLooks
  /\ looks' = looks + 1
  /\ opc' = call
  /\ UNCHANGED <<world, snap, was, used, peeked, prev, curr>>

LoadWrite ==
  /\ opc \in {"snapshot", "used"}
  /\ snap' = [snap EXCEPT !.write = writePos]
  /\ was' = writePos - readPos
  /\ opc' = IF opc = "snapshot" THEN "snapshot2" ELSE "used2"
  /\ UNCHANGED <<world, used, peeked, prev, curr, looks>>

LoadRead ==
  /\ opc = "snapshot2"
  /\ snap' = [snap EXCEPT !.read = readPos]
  /\ opc' = "snapshot3"
  /\ UNCHANGED <<world, was, used, peeked, prev, curr, looks>>

\* Fault: commit_seq keeps its value from the last snapshot.
LoadSeqStale ==
  /\ opc = "snapshot3"
  /\ opc' = "snapshot4"
  /\ UNCHANGED <<world, snap, was, used, peeked, prev, curr, looks>>

LoadSeq ==
  /\ opc = "snapshot3"
  /\ snap' = [snap EXCEPT !.seq = commitSeq]
  /\ opc' = "snapshot4"
  /\ UNCHANGED <<world, was, used, peeked, prev, curr, looks>>

\* Fault: commit_pos is left as it was.
LoadCommitSkipped ==
  /\ opc = "snapshot4"
  /\ opc' = "update"
  /\ UNCHANGED <<world, snap, was, used, peeked, prev, curr, looks>>

LoadCommit ==
  /\ opc = "snapshot4"
  /\ snap' = [snap EXCEPT !.commit = commitPos]
  /\ opc' = "update"
  /\ UNCHANGED <<world, was, used, peeked, prev, curr, looks>>

\* diagnostics_tracker::update with the snapshot.
Update ==
  /\ opc = "update"
  /\ prev' = curr /\ curr' = snap
  /\ opc' = "idle"
  /\ UNCHANGED <<world, snap, was, used, peeked, looks>>

Min(a, b) == IF a <= b THEN a ELSE b

\* Fault: the difference is taken without looking which position is ahead.
UsedUnguarded ==
  /\ opc = "used2"
  /\ used' = [bytes |-> Min(snap.write - readPos, Capacity), was |-> was]
  /\ opc' = "idle"
  /\ UNCHANGED <<world, snap, was, peeked, prev, curr, looks>>

\* used_bytes_: read_pos may have passed the write_pos loaded before it.
Used ==
  /\ opc = "used2"
  /\ used' = [bytes |-> IF snap.write >= readPos THEN Min(snap.write - readPos, Capacity) ELSE 0,
              was |-> was]
  /\ opc' = "idle"
  /\ UNCHANGED <<world, snap, was, peeked, prev, curr, looks>>

\* Fault: peek looks at the slot after the one it checked.
PeekNext ==
  /\ opc = "peek"
  /\ readPos < commitPos
  /\ snap' = [snap EXCEPT !.read = readPos + 1]
  /\ peeked' = [peeked EXCEPT !.pos = readPos]
  /\ opc' = "peek2"
  /\ UNCHANGED <<world, was, used, prev, curr, looks>>

\* try_read without read_advance: the position of the oldest message ...
Peek ==
  /\ opc = "peek"
  /\ readPos < commitPos
  /\ snap' = [snap EXCEPT !.read = readPos]
  /\ peeked' = [peeked EXCEPT !.pos = readPos]
  /\ opc' = "peek2"
  /\ UNCHANGED <<world, was, used, prev, curr, looks>>

PeekEmpty ==
  /\ opc = "peek"
  /\ readPos = commitPos
  /\ opc' = "idle"
  /\ UNCHANGED <<world, snap, was, used, peeked, prev, curr, looks>>

\* The producer has reserved the slot of record n for the next lap.
Lapped(n) == writePos > n + Capacity

\* ... and the bytes its handler reads there later.  Nothing keeps the consumer from
\* releasing the record meanwhile, nor the producer from copying the next one over it:
\* then the read races with the copy and finds the old bytes, the new ones or a mixture (0).
PeekBytes ==
  /\ opc = "peek2"
  /\ \E bytes \in {slots[Slot(snap.read)]} \cup (IF Lapped(snap.read) THEN {snap.read + 1, writePos, 0} ELSE {}) :
       peeked' = [peeked EXCEPT !.bytes = bytes, !.lapped = Lapped(snap.read)]
  /\ opc' = "idle"
  /\ UNCHANGED <<world, snap, was, used, prev, curr, looks>>

Next ==
  \/ Reserve \/ Publish \/ CommitBump \/ Consume \/ StopBump
  \/ \E call \in {"snapshot", "used", "peek"} : Look(call)
  \/ LoadWrite \/ LoadRead \/ LoadSeq \/ LoadCommit \/ Update \/ Used
  \/ Peek \/ PeekEmpty \/ PeekBytes

Spec == Init /\ [][Next]_vars

-----------------------------------------------------------------------------
(* Properties.                                                             *)

\* occupancy_bytes never exceeds what the ring held when the call began, nor its
\* capacity, and never wraps below zero, although its two positions are loaded at
\* different moments; available_bytes is therefore never too small.
OccupancyBounded == used.bytes \in 0 .. used.was

\* peek passes on the message that was the oldest unread one when it looked, intact even
\* when the consumer releases that message under its handler, unless the producer has by
\* then reserved the slot again: observer.hpp neither holds the slot nor looks afterwards.
\* node/index.d.ts:340, 350 and 355 and the Python stub speak of the latest committed
\* payload; try_read starts at read_pos, so with several messages unread it is the oldest.
PeekIntact == opc # "peek2" /\ ~peeked.lapped => peeked.bytes = peeked.pos + 1

\* However the loads of a snapshot fall between the steps of the other side, it shows
\* at most one reserved record that its commit_seq does not count yet, and no record
\* read that its commit_pos does not cover.
SnapshotCovers == curr.write <= curr.seq + 1 /\ curr.read <= curr.commit

producer_alive == curr.seq # prev.seq

\* A tracker that reports no live producer has missed at most the record being sent:
\* between its two snapshots no more than one was reserved beyond those committed.
QuietMeansIdle == ~producer_alive => curr.write <= prev.commit + 1
================================================================================
