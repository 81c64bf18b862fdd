----------------------------- MODULE ReaderProofs -----------------------------
(***************************************************************************)
(* The two readers of a channel beside the runtime.  An observer: what it  *)
(* may conclude from loads made at different moments, for every capacity   *)
(* and every number of messages, stops and looks.  The consumer handle of  *)
(* the C API, for every set of message lengths and buffer capacities and   *)
(* every number of messages and failed allocations.                        *)
(***************************************************************************)
EXTENDS Observer, CApiConsumer, TLAPS

-----------------------------------------------------------------------------
(* The observer.                                                           *)

Snaps == [write : Nat, read : Nat, seq : Nat, commit : Nat]

\* The ring between the steps of its two sides: what is reserved, published, counted
\* and readable.
RingInv ==
  /\ slots \in [0 .. Capacity - 1 -> Nat]
  /\ writePos \in Nat /\ commitPos \in Nat /\ readPos \in Nat /\ commitSeq \in Nat
  /\ readPos <= commitPos /\ writePos - readPos <= Capacity
  /\ ppc \in {"idle", "publish", "bump"}
  /\ ppc = "publish" => writePos = commitPos + 1 /\ commitPos <= commitSeq
  /\ ppc = "idle" => writePos = commitPos /\ commitPos <= commitSeq
  /\ ppc = "bump" => writePos = commitPos /\ commitPos <= commitSeq + 1
  /\ \A n \in 0 .. commitPos - 1 : ~Lapped(n) => slots[Slot(n)] = n + 1

\* A half-made snapshot is covered by what was loaded after it, or is still in the ring.
SnapInv ==
  /\ snap \in Snaps /\ curr \in Snaps /\ prev \in Snaps
  /\ opc \in {"snapshot2", "snapshot3"} => snap.write <= commitSeq + 1
  /\ opc \in {"snapshot4", "update"} => snap.write <= snap.seq + 1 /\ snap.seq <= commitSeq
  /\ opc \in {"snapshot3", "snapshot4"} => snap.read <= commitPos
  /\ opc = "update" => snap.read <= snap.commit
  /\ curr.seq <= commitSeq
  /\ SnapshotCovers

\* While commit_seq stands where a snapshot found it, the producer is at most one
\* record beyond that snapshot's commit_pos.
Still(s) ==
  s.seq = commitSeq =>
    /\ ppc = "idle" => commitPos <= s.commit
    /\ writePos <= s.commit + 1

QuietInv ==
  /\ Still(curr)
  /\ opc = "update" => Still(snap)
  /\ opc \in {"snapshot2", "snapshot3"} /\ curr.seq = commitSeq => snap.write <= curr.commit + 1
  /\ opc \in {"snapshot4", "update"} /\ curr.seq = snap.seq => snap.write <= curr.commit + 1
  /\ QuietMeansIdle

\* The occupancy at the first load bounds what the second load can make of it.
UsedInv ==
  /\ was \in 0 .. Capacity
  /\ opc = "used2" => snap.write - readPos <= was
  /\ used \in [bytes : Int, was : Int]
  /\ OccupancyBounded

\* The record a peek found was published, and stays until the producer comes round.
PeekInv ==
  /\ opc = "peek2" => snap.read = peeked.pos /\ snap.read < commitPos
  /\ peeked \in [pos : Nat, bytes : Nat, lapped : BOOLEAN]
  /\ PeekIntact

ObserverInv == RingInv /\ SnapInv /\ QuietInv /\ UsedInv /\ PeekInv

\* The steps of the observer, which write nothing in the segment.
ObserverStep ==
  \/ \E call \in {"snapshot", "used", "peek"} : Look(call)
  \/ LoadWrite \/ LoadRead \/ LoadSeq \/ LoadCommit \/ Update \/ Used
  \/ Peek \/ PeekEmpty \/ PeekBytes

-----------------------------------------------------------------------------
\* An observer changes nothing the two sides can see.
LEMMA ObserverReadsOnly ==
  ASSUME ObserverStep
  PROVE  UNCHANGED <<slots, writePos, commitPos, readPos, commitSeq, ppc>>
  BY DEF ObserverStep, Look, LoadWrite, LoadRead, LoadSeq, LoadCommit, Update, Used, Peek,
         PeekEmpty, PeekBytes, world, ring

\* The two sides and stop() change nothing of the observer's.
LEMMA WorldLeavesObserver ==
  ASSUME Reserve \/ Publish \/ CommitBump \/ Consume \/ StopBump
  PROVE  UNCHANGED <<opc, snap, was, used, peeked, prev, curr>>
  BY DEF Reserve, Publish, CommitBump, Consume, StopBump, observer

\* In a well-formed ring at most one record is reserved that commit_seq does not count.
LEMMA ReservedCovered ==
  ASSUME RingInv
  PROVE  /\ writePos <= commitSeq + 1 /\ commitPos <= writePos
         /\ writePos <= commitPos + 1 /\ ppc = "idle" => writePos = commitPos
  BY DEF RingInv

\* Positions and commit_seq only grow.
LEMMA OnlyGrows ==
  ASSUME RingInv, [Next]_vars
  PROVE  /\ readPos <= readPos' /\ commitPos <= commitPos'
         /\ commitSeq' = commitSeq \/ commitSeq' = commitSeq + 1
<1>1. CASE Reserve BY <1>1 DEF Reserve, RingInv
<1>2. CASE Publish BY <1>2 DEF Publish, RingInv
<1>3. CASE CommitBump BY <1>3 DEF CommitBump, RingInv
<1>4. CASE Consume BY <1>4 DEF Consume, RingInv
<1>5. CASE StopBump BY <1>5 DEF StopBump, RingInv
<1>6. CASE ObserverStep BY <1>6, ObserverReadsOnly DEF RingInv
<1>7. CASE UNCHANGED vars BY <1>7 DEF vars, ring, RingInv
<1>8. QED BY <1>1, <1>2, <1>3, <1>4, <1>5, <1>6, <1>7 DEF Next, ObserverStep

-----------------------------------------------------------------------------
\* A position selects a slot of the ring.
LEMMA SlotRange == ASSUME NEW n \in Nat PROVE Slot(n) \in 0 .. Capacity - 1
  BY ObserverBounds DEF Slot

\* Two positions less than one lap apart are stored in different slots.
LEMMA SlotDistinct ==
  ASSUME NEW n \in Nat, NEW w \in Nat, n < w, w - n < Capacity
  PROVE  Slot(n) # Slot(w)
<1> DEFINE qx == n \div Capacity
           qy == w \div Capacity
<1>1. /\ Capacity \in Nat \ {0} /\ qx \in Nat /\ qy \in Nat
      /\ Slot(n) \in Nat /\ Slot(w) \in Nat
      /\ n = Capacity * qx + Slot(n) /\ w = Capacity * qy + Slot(w)
  BY ObserverBounds, SMT DEF Slot
<1> HIDE DEF qx, qy
<1>2. SUFFICES ASSUME Slot(n) = Slot(w) PROVE FALSE
  OBVIOUS
<1>3. w - n = Capacity * qy - Capacity * qx BY <1>1, <1>2, SMT
<1>4. CASE qy <= qx
  <2>1. Capacity * qy <= Capacity * qx BY <1>1, <1>4, SMT
  <2>2. QED BY <2>1, <1>1, <1>3, SMT
<1>5. CASE qy >= qx + 1
  <2>1. Capacity * qy >= Capacity * qx + Capacity BY <1>1, <1>5, SMT
  <2>2. QED BY <2>1, <1>1, <1>3, SMT
<1>6. QED BY <1>1, <1>4, <1>5, SMT

\* The ring stays well formed.
LEMMA RingKept == RingInv /\ [Next]_vars => RingInv'
<1> SUFFICES ASSUME RingInv, [Next]_vars PROVE RingInv'
  OBVIOUS
<1>1. CASE Reserve
  <2>1. /\ ppc = "idle" /\ ppc' = "publish" /\ writePos - readPos < Capacity
        /\ writePos' = writePos + 1 /\ UNCHANGED <<slots, commitPos, readPos, commitSeq>>
    BY <1>1 DEF Reserve
  <2>2. writePos' \in Nat /\ writePos' = commitPos' + 1 /\ writePos' - readPos' <= Capacity
    BY <2>1, ObserverBounds DEF RingInv
  <2>3. \A n \in 0 .. commitPos - 1 : ~Lapped(n)' => ~Lapped(n)
    BY <2>1, ObserverBounds DEF RingInv, Lapped
  <2>4. QED BY <2>1, <2>2, <2>3 DEF RingInv, Slot
<1>2. CASE Publish
  <2>1. /\ ppc = "publish" /\ ppc' = "bump" /\ commitPos' = commitPos + 1 /\ commitPos \in Nat
        /\ writePos = commitPos + 1
        /\ UNCHANGED <<writePos, readPos, commitSeq>>
        /\ slots' = [slots EXCEPT ![Slot(commitPos)] = commitPos + 1]
    BY <1>2 DEF Publish, RingInv
  <2>2. slots \in [0 .. Capacity - 1 -> Nat] /\ Slot(commitPos) \in 0 .. Capacity - 1
    BY Zenon, <2>1, SlotRange DEF RingInv
  <2>3. slots' \in [0 .. Capacity - 1 -> Nat] BY <2>1, <2>2
  <2>4. ASSUME NEW n \in 0 .. commitPos' - 1, ~Lapped(n)' PROVE slots'[Slot(n)] = n + 1
    <3>1. n \in Nat /\ n <= commitPos /\ writePos <= n + Capacity /\ ~Lapped(n)
      BY <2>1, <2>4, ObserverBounds DEF RingInv, Lapped
    <3>2. CASE n = commitPos BY <2>1, <2>2, <3>2
    <3>3. CASE n < commitPos
      <4>1. commitPos - n < Capacity BY <2>1, <3>1, <3>3, ObserverBounds
      <4>2. Slot(n) # Slot(commitPos) BY Zenon, <2>1, <3>1, <3>3, <4>1, SlotDistinct
      <4>3. Slot(n) \in 0 .. Capacity - 1 BY Zenon, <3>1, SlotRange
      <4>4. slots[Slot(n)] = n + 1 BY <2>1, <3>1, <3>3 DEF RingInv
      <4>5. QED BY <2>1, <2>2, <4>2, <4>3, <4>4
    <3>4. QED BY <2>1, <3>1, <3>2, <3>3
  <2>5. QED BY <2>1, <2>3, <2>4, ObserverBounds DEF RingInv
<1>3. CASE CommitBump BY <1>3 DEF CommitBump, RingInv, Slot, Lapped
<1>4. CASE Consume
  <2>1. readPos < commitPos /\ readPos' = readPos + 1
        /\ UNCHANGED <<slots, writePos, commitPos, commitSeq, ppc>>
    BY <1>4 DEF Consume
  <2>2. readPos' \in Nat /\ readPos' <= commitPos' /\ writePos' - readPos' <= Capacity
    BY <2>1, ObserverBounds DEF RingInv
  <2>3. QED BY <2>1, <2>2 DEF RingInv, Slot, Lapped
<1>5. CASE StopBump BY <1>5 DEF StopBump, RingInv, Slot, Lapped
<1>6. CASE ObserverStep BY <1>6, ObserverReadsOnly DEF RingInv, Slot, Lapped
<1>7. CASE UNCHANGED vars BY <1>7 DEF vars, ring, RingInv, Slot, Lapped
<1>8. QED BY <1>1, <1>2, <1>3, <1>4, <1>5, <1>6, <1>7 DEF Next, ObserverStep

\* A snapshot in the making stays covered.
LEMMA SnapKept == RingInv /\ SnapInv /\ [Next]_vars => SnapInv'
<1> SUFFICES ASSUME RingInv, SnapInv, [Next]_vars PROVE SnapInv'
  OBVIOUS
<1>0. /\ writePos \in Nat /\ commitPos \in Nat /\ readPos \in Nat /\ commitSeq \in Nat
      /\ readPos <= commitPos /\ writePos <= commitSeq + 1
      /\ commitPos' \in Nat /\ commitSeq' \in Nat
      /\ commitPos <= commitPos' /\ commitSeq <= commitSeq'
  BY RingKept, ReservedCovered, OnlyGrows DEF RingInv
<1>1. CASE Reserve \/ Publish \/ CommitBump \/ Consume \/ StopBump \/ UNCHANGED vars
  <2>1. UNCHANGED <<opc, snap, prev, curr>>
    BY <1>1, WorldLeavesObserver DEF vars, observer
  <2>2. snap \in Snaps /\ curr \in Snaps BY DEF SnapInv
  <2>3. QED BY <1>0, <2>1, <2>2 DEF SnapInv, SnapshotCovers, Snaps
<1>2. CASE ObserverStep
  <2>0. UNCHANGED <<commitPos, commitSeq>> BY <1>2, ObserverReadsOnly
  <2>1. ASSUME NEW call \in {"snapshot", "used", "peek"}, Look(call) PROVE SnapInv'
    BY <2>0, <2>1 DEF Look, SnapInv, SnapshotCovers, Snaps
  <2>2. CASE LoadWrite BY <1>0, <2>0, <2>2 DEF LoadWrite, SnapInv, SnapshotCovers, Snaps
  <2>3. CASE LoadRead BY <1>0, <2>0, <2>3 DEF LoadRead, SnapInv, SnapshotCovers, Snaps
  <2>4. CASE LoadSeq BY <1>0, <2>0, <2>4 DEF LoadSeq, SnapInv, SnapshotCovers, Snaps
  <2>5. CASE LoadCommit BY <1>0, <2>0, <2>5 DEF LoadCommit, SnapInv, SnapshotCovers, Snaps
  <2>6. CASE Update BY <1>0, <2>0, <2>6 DEF Update, SnapInv, SnapshotCovers, Snaps
  <2>7. CASE Used BY <1>0, <2>0, <2>7 DEF Used, SnapInv, SnapshotCovers, Snaps
  <2>8. CASE Peek BY <1>0, <2>0, <2>8 DEF Peek, SnapInv, SnapshotCovers, Snaps
  <2>9. CASE PeekEmpty \/ PeekBytes
    BY <1>0, <2>0, <2>9 DEF PeekEmpty, PeekBytes, SnapInv, SnapshotCovers, Snaps
  <2>10. QED BY <1>2, <2>1, <2>2, <2>3, <2>4, <2>5, <2>6, <2>7, <2>8, <2>9 DEF ObserverStep
<1>3. QED BY <1>1, <1>2 DEF Next, ObserverStep

\* Two commits apart or none: how far a quiet tracker can be behind.
LEMMA QuietKept == RingInv /\ SnapInv /\ QuietInv /\ [Next]_vars => QuietInv'
<1> SUFFICES ASSUME RingInv, SnapInv, QuietInv, [Next]_vars PROVE QuietInv'
  OBVIOUS
<1>0. /\ writePos \in Nat /\ commitPos \in Nat /\ commitSeq \in Nat
      /\ writePos <= commitPos + 1 /\ (ppc = "idle" => writePos = commitPos)
      /\ commitSeq' = commitSeq \/ commitSeq' = commitSeq + 1
  BY ReservedCovered, OnlyGrows DEF RingInv
<1>1. snap \in Snaps /\ curr \in Snaps /\ prev \in Snaps /\ curr.seq <= commitSeq
      /\ (opc = "update" => snap.seq <= commitSeq)
  BY DEF SnapInv
<1>2. CASE Reserve \/ Publish \/ CommitBump \/ Consume \/ StopBump \/ UNCHANGED vars
  <2>1. UNCHANGED <<opc, snap, prev, curr>>
    BY <1>2, WorldLeavesObserver DEF vars, observer
  <2>2. ASSUME NEW s \in Snaps, s.seq <= commitSeq, Still(s)
        PROVE  s.seq = commitSeq' =>
                 /\ ppc' = "idle" => commitPos' <= s.commit
                 /\ writePos' <= s.commit + 1
    <3>0. s.seq \in Nat /\ s.commit \in Nat BY DEF Snaps
    <3> SUFFICES ASSUME s.seq = commitSeq'
                 PROVE  (ppc' = "idle" => commitPos' <= s.commit) /\ writePos' <= s.commit + 1
      OBVIOUS
    <3>1. commitSeq' = commitSeq /\ s.seq = commitSeq BY <1>0, <2>2, <3>0
    <3>2. writePos <= s.commit + 1 /\ (ppc = "idle" => commitPos <= s.commit)
      BY <2>2, <3>1 DEF Still
    <3>3. CASE Reserve BY <1>0, <3>0, <3>2, <3>3 DEF Reserve
    <3>4. CASE Publish BY <1>0, <3>0, <3>2, <3>4 DEF Publish
    <3>5. CASE CommitBump \/ StopBump BY <1>0, <3>1, <3>5 DEF CommitBump, StopBump
    <3>6. CASE Consume BY <3>2, <3>6 DEF Consume
    <3>7. CASE UNCHANGED vars BY <3>2, <3>7 DEF vars, ring
    <3>8. QED BY <1>2, <3>3, <3>4, <3>5, <3>6, <3>7
  <2>3. Still(curr)' BY <1>1, <2>1, <2>2 DEF QuietInv, Still
  <2>4. (opc = "update" => Still(snap))' BY <1>1, <2>1, <2>2 DEF QuietInv, Still
  <2>5. (opc \in {"snapshot2", "snapshot3"} /\ curr.seq = commitSeq => snap.write <= curr.commit + 1)'
    <3>1. curr.seq = commitSeq' => curr.seq = commitSeq BY <1>0, <1>1 DEF Snaps
    <3>2. QED BY <2>1, <3>1 DEF QuietInv
  <2>6. QED BY <2>1, <2>3, <2>4, <2>5 DEF QuietInv, QuietMeansIdle, producer_alive
<1>3. CASE ObserverStep
  <2>0. UNCHANGED <<writePos, commitPos, commitSeq, ppc>> BY <1>3, ObserverReadsOnly
  <2>1. ASSUME NEW call \in {"snapshot", "used", "peek"}, Look(call) PROVE QuietInv'
    BY <2>0, <2>1 DEF Look, QuietInv, Still, QuietMeansIdle, producer_alive
  <2>2. CASE LoadWrite
    <3>1. /\ UNCHANGED <<prev, curr>> /\ opc' \in {"snapshot2", "used2"}
          /\ snap'.write = writePos
      BY <2>2, <1>1 DEF LoadWrite, Snaps
    <3>2. QED BY <2>0, <3>1 DEF QuietInv, Still, QuietMeansIdle, producer_alive
  <2>3. CASE LoadRead
    <3>1. /\ UNCHANGED <<prev, curr>> /\ opc = "snapshot2" /\ opc' = "snapshot3"
          /\ snap'.write = snap.write
      BY <2>3, <1>1 DEF LoadRead, Snaps
    <3>2. QED BY <2>0, <3>1 DEF QuietInv, Still, QuietMeansIdle, producer_alive
  <2>4. CASE LoadSeq
    <3>1. /\ UNCHANGED <<prev, curr>> /\ opc = "snapshot3" /\ opc' = "snapshot4"
          /\ snap'.write = snap.write /\ snap'.seq = commitSeq
      BY <2>4, <1>1 DEF LoadSeq, Snaps
    <3>2. QED BY <2>0, <3>1 DEF QuietInv, Still, QuietMeansIdle, producer_alive
  <2>5. CASE LoadCommit
    <3>1. /\ UNCHANGED <<prev, curr>> /\ opc = "snapshot4" /\ opc' = "update"
          /\ snap'.write = snap.write /\ snap'.seq = snap.seq /\ snap'.commit = commitPos
      BY <2>5, <1>1 DEF LoadCommit, Snaps
    <3>2. Still(snap)' BY <1>0, <2>0, <3>1 DEF Still
    <3>3. Still(curr)' BY <2>0, <3>1 DEF QuietInv, Still
    <3>4. QED BY <2>0, <3>1, <3>2, <3>3 DEF QuietInv, QuietMeansIdle, producer_alive
  <2>6. CASE Update
    <3>1. prev' = curr /\ curr' = snap /\ snap' = snap /\ opc = "update" /\ opc' = "idle"
      BY <2>6 DEF Update
    <3>2. QED BY <2>0, <3>1 DEF QuietInv, Still, QuietMeansIdle, producer_alive
  <2>7. CASE Used \/ PeekEmpty \/ PeekBytes \/ Peek
    <3>1. UNCHANGED <<prev, curr>> /\ opc' \in {"idle", "peek2"}
      BY <2>7 DEF Used, PeekEmpty, PeekBytes, Peek
    <3>2. QED BY <2>0, <3>1 DEF QuietInv, Still, QuietMeansIdle, producer_alive
  <2>8. QED BY <1>3, <2>1, <2>2, <2>3, <2>4, <2>5, <2>6, <2>7 DEF ObserverStep
<1>4. QED BY <1>2, <1>3 DEF Next, ObserverStep

\* The occupancy stays within what the ring held when the call began.
LEMMA UsedKept == RingInv /\ SnapInv /\ UsedInv /\ [Next]_vars => UsedInv'
<1> SUFFICES ASSUME RingInv, SnapInv, UsedInv, [Next]_vars PROVE UsedInv'
  OBVIOUS
<1>0. /\ writePos \in Nat /\ readPos \in Nat /\ readPos' \in Nat /\ readPos <= readPos'
      /\ readPos <= writePos /\ writePos - readPos <= Capacity /\ Capacity \in Nat
  <2>1. RingInv' BY RingKept
  <2>2. readPos' \in Nat BY <2>1 DEF RingInv
  <2>3. writePos \in Nat /\ readPos \in Nat /\ commitPos \in Nat /\ readPos <= commitPos
        /\ writePos - readPos <= Capacity
    BY DEF RingInv
  <2>4. readPos <= readPos' BY OnlyGrows
  <2>5. commitPos <= writePos BY ReservedCovered
  <2>6. QED BY <2>2, <2>3, <2>4, <2>5, ObserverBounds
<1>1. snap \in Snaps /\ snap.write \in Nat BY DEF SnapInv, Snaps
<1>2. CASE Reserve \/ Publish \/ CommitBump \/ Consume \/ StopBump \/ UNCHANGED vars
  <2>1. UNCHANGED <<opc, snap, was, used>> BY <1>2, WorldLeavesObserver DEF vars, observer
  <2>2. QED BY <1>0, <1>1, <2>1 DEF UsedInv, OccupancyBounded
<1>3. CASE LoadWrite
  <2>1. snap'.write = writePos /\ was' = writePos - readPos /\ UNCHANGED <<used, readPos>>
    BY <1>1, <1>3 DEF LoadWrite, world, ring, Snaps
  <2>2. QED BY <1>0, <2>1 DEF UsedInv, OccupancyBounded
<1>4. CASE Used
  <2>1. was' = was /\ opc' = "idle" /\ snap.write - readPos <= was /\ was \in 0 .. Capacity
    BY <1>4 DEF Used, UsedInv
  <2>2. used' = [bytes |-> IF snap.write >= readPos THEN Min(snap.write - readPos, Capacity) ELSE 0,
                 was |-> was]
    BY <1>4 DEF Used
  <2>3. used'.bytes \in 0 .. was /\ used'.was = was /\ used' \in [bytes : Int, was : Int]
    BY <1>0, <1>1, <2>1, <2>2 DEF Min
  <2>4. QED BY <2>1, <2>3 DEF UsedInv, OccupancyBounded
<1>5. CASE ObserverStep /\ ~LoadWrite /\ ~Used
  <2>1. UNCHANGED <<was, used>> /\ opc' # "used2"
    BY <1>5 DEF ObserverStep, Look, LoadRead, LoadSeq, LoadCommit, Update, Peek, PeekEmpty, PeekBytes
  <2>2. QED BY <2>1 DEF UsedInv, OccupancyBounded
<1>6. QED BY <1>2, <1>3, <1>4, <1>5 DEF Next, ObserverStep

\* The record peek found is intact until the producer comes round to its slot.
LEMMA PeekKept == RingInv /\ SnapInv /\ PeekInv /\ [Next]_vars => PeekInv'
<1> SUFFICES ASSUME RingInv, SnapInv, PeekInv, [Next]_vars PROVE PeekInv'
  OBVIOUS
<1> DEFINE Peeks == [pos : Nat, bytes : Nat, lapped : BOOLEAN]
<1>0. /\ readPos \in Nat /\ writePos \in Nat
      /\ commitPos \in Nat /\ commitPos' \in Nat /\ commitPos <= commitPos'
      /\ peeked \in Peeks /\ snap \in Snaps
  BY RingKept, OnlyGrows DEF RingInv, PeekInv, SnapInv
<1>1. CASE Reserve \/ Publish \/ CommitBump \/ Consume \/ StopBump \/ UNCHANGED vars
  <2>1. UNCHANGED <<opc, snap, peeked>>
    BY <1>1, WorldLeavesObserver DEF vars, observer
  <2>2. snap.read \in Nat BY <1>0 DEF Snaps
  <2>3. snap.read < commitPos => snap'.read < commitPos' BY <1>0, <2>1, <2>2
  <2>4. QED BY <2>1, <2>3 DEF PeekInv, PeekIntact
<1>2. CASE Peek
  <2>1. /\ readPos < commitPos /\ UNCHANGED commitPos /\ opc' = "peek2"
        /\ snap' = [snap EXCEPT !.read = readPos]
        /\ peeked' = [peeked EXCEPT !.pos = readPos]
    BY <1>2 DEF Peek, world, ring
  <2>2. snap'.read = readPos BY <1>0, <2>1 DEF Snaps
  <2>3. peeked' \in Peeks /\ peeked'.pos = readPos BY Zenon, <1>0, <2>1
  <2>4. QED BY <2>1, <2>2, <2>3 DEF PeekInv, PeekIntact
<1>3. CASE PeekBytes
  <2>0. snap.read = peeked.pos /\ snap.read \in Nat /\ snap.read < commitPos /\ opc = "peek2"
    BY <1>0, <1>3 DEF PeekInv, Snaps, PeekBytes
  <2>1. PICK bytes \in {slots[Slot(snap.read)]} \cup (IF Lapped(snap.read) THEN {snap.read + 1, writePos, 0} ELSE {}) :
          peeked' = [peeked EXCEPT !.bytes = bytes, !.lapped = Lapped(snap.read)]
    BY <1>3 DEF PeekBytes
  <2>2. opc' = "idle" BY <1>3 DEF PeekBytes
  <2>3. slots[Slot(snap.read)] \in Nat
    <3>1. Slot(snap.read) \in 0 .. Capacity - 1 BY Zenon, <2>0, SlotRange
    <3>2. QED BY <3>1 DEF RingInv
  <2>4. bytes \in Nat BY <1>0, <2>0, <2>1, <2>3
  <2>5. Lapped(snap.read) \in BOOLEAN BY DEF Lapped
  <2>6. /\ peeked' \in Peeks /\ peeked'.pos = peeked.pos
        /\ peeked'.lapped = Lapped(snap.read) /\ peeked'.bytes = bytes
    BY <1>0, <2>1, <2>4, <2>5, Zenon
  <2>7. ASSUME ~Lapped(snap.read) PROVE bytes = snap.read + 1
    <3>1. bytes = slots[Slot(snap.read)] BY <2>1, <2>7
    <3>2. snap.read \in 0 .. commitPos - 1 BY <1>0, <2>0
    <3>3. QED BY <2>7, <3>1, <3>2 DEF RingInv
  <2>8. QED BY <2>0, <2>2, <2>6, <2>7 DEF PeekInv, PeekIntact
<1>4. CASE ObserverStep /\ ~Peek /\ ~PeekBytes
  <2>1. UNCHANGED peeked /\ opc # "peek2" /\ opc' # "peek2"
    BY <1>4 DEF ObserverStep, Look, LoadWrite, LoadRead, LoadSeq, LoadCommit, Update, Used, PeekEmpty
  <2>2. QED BY <2>1 DEF PeekInv, PeekIntact
<1>5. QED BY <1>1, <1>2, <1>3, <1>4 DEF Next, ObserverStep

-----------------------------------------------------------------------------
\* The inductive invariant holds when the segment has just been formatted.
LEMMA ObserverInit == Init => ObserverInv
<1> SUFFICES ASSUME Init PROVE ObserverInv
  OBVIOUS
<1>1. RingInv BY ObserverBounds DEF Init, RingInv
<1>2. SnapInv BY DEF Init, SnapInv, Snaps, NoSnap, SnapshotCovers
<1>3. QuietInv BY DEF Init, QuietInv, Still, NoSnap, QuietMeansIdle, producer_alive
<1>4. UsedInv BY ObserverBounds DEF Init, UsedInv, OccupancyBounded
<1>5. PeekInv
  <2>1. opc # "peek2" BY DEF Init
  <2>2. peeked \in [pos : Nat, bytes : Nat, lapped : BOOLEAN] BY DEF Init
  <2>3. peeked.bytes = peeked.pos + 1 BY DEF Init
  <2>4. QED BY <2>1, <2>2, <2>3 DEF PeekInv, PeekIntact
<1>6. QED BY <1>1, <1>2, <1>3, <1>4, <1>5 DEF ObserverInv

\* Every reachable state satisfies the inductive invariant.
THEOREM ObserverInvariant == Spec => []ObserverInv
<1>1. Init => ObserverInv BY ObserverInit
<1>2. ObserverInv /\ [Next]_vars => ObserverInv'
  BY RingKept, SnapKept, QuietKept, UsedKept, PeekKept DEF ObserverInv
<1>3. QED BY <1>1, <1>2, PTL DEF Spec

\* occupancy_bytes never exceeds what the ring held when the call began and never
\* wraps below zero.
THEOREM OccupancyNeverTooHigh == Spec => []OccupancyBounded
<1>1. ObserverInv => OccupancyBounded BY DEF ObserverInv, UsedInv
<1>2. QED BY <1>1, ObserverInvariant, PTL

\* peek passes on the message that was the oldest unread one when it looked, intact
\* unless the producer has come round to its slot.
THEOREM PeekSeesOldest == Spec => []PeekIntact
<1>1. ObserverInv => PeekIntact BY DEF ObserverInv, PeekInv, PeekIntact
<1>2. QED BY <1>1, ObserverInvariant, PTL

\* A snapshot shows at most one reserved record that its commit_seq does not count, and
\* none read that its commit_pos does not cover.
THEOREM SnapshotIsCovered == Spec => []SnapshotCovers
<1>1. ObserverInv => SnapshotCovers BY DEF ObserverInv, SnapInv
<1>2. QED BY <1>1, ObserverInvariant, PTL

\* A tracker that reports no live producer missed at most the record being sent.
THEOREM QuietTrackerIsRight == Spec => []QuietMeansIdle
<1>1. ObserverInv => QuietMeansIdle BY DEF ObserverInv, QuietInv
<1>2. QED BY <1>1, ObserverInvariant, PTL

-----------------------------------------------------------------------------
(* The consumer handle of the C API.                                       *)

\* At most one message is retained, it is the last one the transport released and it
\* is not empty; everything handed over is older.
Retained ==
  /\ pending # 0 => pending = taken /\ lens[pending] > 0
  /\ \A i \in 1 .. Len(copied) :
       copied[i] \in 1 .. taken /\ (pending # 0 => copied[i] < pending)

\* The inductive invariant.
HandleInv ==
  /\ lens \in Seq(Nat) /\ Len(lens) <= MaxSent /\ copied \in Seq(Nat)
  /\ TypeOK /\ Retained /\ RefusalRetains /\ NothingLost

-----------------------------------------------------------------------------
\* What Append does to a sequence.
LEMMA AppendFacts ==
  ASSUME NEW s \in Seq(Nat), NEW e \in Nat
  PROVE  /\ Append(s, e) \in Seq(Nat)
         /\ Len(Append(s, e)) = Len(s) + 1
         /\ Len(s) \in Nat
         /\ \A i \in 1 .. Len(s) : Append(s, e)[i] = s[i]
         /\ Append(s, e)[Len(s) + 1] = e
  OBVIOUS

\* pending.size() is zero exactly when no message is retained, which is why the code
\* may use the vector's emptiness for "nothing retained".
LEMMA EmptyMeansNone ==
  ASSUME HandleInv
  PROVE  /\ PendingLen = 0 <=> pending = 0
         /\ PendingLen \in Nat
  BY DEF HandleInv, TypeOK, Retained, PendingLen

\* Handing message m over, the newest released one, keeps the record of deliveries.
LEMMA HandOver ==
  ASSUME copied \in Seq(Nat), NEW m \in Nat \ {0}, copied' = Append(copied, m),
         NEW t \in Nat, m <= t,
         \A i \in 1 .. Len(copied) : copied[i] \in 1 .. t
  PROVE  /\ copied' \in Seq(Nat)
         /\ \A i \in 1 .. Len(copied') : copied'[i] \in 1 .. t
         /\ \E i \in 1 .. Len(copied') : copied'[i] = m
         /\ \A k : (\E i \in 1 .. Len(copied) : copied[i] = k)
                     => \E i \in 1 .. Len(copied') : copied'[i] = k
<1>1. /\ copied' \in Seq(Nat) /\ Len(copied') = Len(copied) + 1 /\ Len(copied) \in Nat
      /\ \A i \in 1 .. Len(copied) : copied'[i] = copied[i]
      /\ copied'[Len(copied) + 1] = m
  BY AppendFacts
<1>2. \A i \in 1 .. Len(copied') : i \in 1 .. Len(copied) \/ i = Len(copied) + 1
  BY <1>1
<1>3. \A i \in 1 .. Len(copied') : copied'[i] \in 1 .. t BY <1>1, <1>2
<1>4. Len(copied) + 1 \in 1 .. Len(copied') BY <1>1
<1>5. \A i \in 1 .. Len(copied) : i \in 1 .. Len(copied') BY <1>1
<1>6. QED BY <1>1, <1>3, <1>4, <1>5

-----------------------------------------------------------------------------
\* The invariant holds when the handle is opened.
LEMMA HandleInit == ConsumerInit => HandleInv
<1> SUFFICES ASSUME ConsumerInit PROVE HandleInv
  OBVIOUS
<1>1. lens \in Seq(Nat) /\ Len(lens) = 0 /\ copied \in Seq(Nat) /\ Len(copied) = 0 BY DEF ConsumerInit
<1>2. TypeOK
  <2>1. waiting \in BOOLEAN BY Zenon DEF ConsumerInit
  <2>2. taken \in 0 .. Len(lens) /\ pending \in 0 .. taken /\ seen \in 0 .. Len(lens)
    BY <1>1 DEF ConsumerInit
  <2>3. QED BY <2>1, <2>2 DEF ConsumerInit, TypeOK
<1>3. Retained BY <1>1 DEF ConsumerInit, Retained
<1>4. RefusalRetains BY DEF ConsumerInit, RefusalRetains
<1>5. NothingLost BY DEF ConsumerInit, NothingLost
<1>6. QED BY <1>1, <1>2, <1>3, <1>4, <1>5, CApiAssumption DEF HandleInv

\* A new message in the transport disturbs nothing the handle holds.
LEMMA SendKeeps == HandleInv /\ Send => HandleInv'
<1> SUFFICES ASSUME HandleInv, Send PROVE HandleInv'
  OBVIOUS
<1>1. PICK n \in Nat : lens' = Append(lens, n) BY CApiAssumption DEF Send
<1>2. /\ lens' \in Seq(Nat) /\ Len(lens') = Len(lens) + 1 /\ Len(lens) \in Nat
      /\ \A i \in 1 .. Len(lens) : lens'[i] = lens[i]
  BY <1>1, AppendFacts DEF HandleInv
<1>3. UNCHANGED <<backend, taken, pending, copied, status, outLen, waiting, seen, allocs>>
  BY DEF Send
<1>4. Len(lens') <= MaxSent BY <1>2, CApiAssumption DEF Send
<1>5. TypeOK' BY <1>2, <1>3 DEF HandleInv, TypeOK
<1>6. Retained'
  <2>1. pending # 0 => pending \in 1 .. Len(lens) BY <1>2 DEF HandleInv, TypeOK
  <2>2. pending # 0 => lens'[pending] = lens[pending] BY Zenon, <1>2, <2>1
  <2>3. QED BY Zenon, <1>3, <2>2 DEF HandleInv, Retained
<1>7. RefusalRetains'
  <2>1. pending \in 0 .. Len(lens) BY <1>2 DEF HandleInv, TypeOK
  <2>2. PendingLen' = PendingLen BY <2>1, <1>2, <1>3 DEF PendingLen
  <2>3. QED BY <2>2, <1>3 DEF HandleInv, RefusalRetains
<1>8. NothingLost' BY <1>3 DEF HandleInv, NothingLost
<1>9. QED BY <1>2, <1>3, <1>4, <1>5, <1>6, <1>7, <1>8 DEF HandleInv

\* The retained message is handed over once, or kept.
LEMMA CopyPendingKeeps ==
  ASSUME HandleInv, NEW cap \in Caps, CopyPending(cap) PROVE HandleInv'
<1>0. cap \in Nat BY CApiAssumption
<1>1. /\ UNCHANGED <<backend, lens, taken, waiting, seen, allocs>> /\ ~waiting
      /\ pending # 0 /\ pending \in Nat /\ PendingLen \in Nat
  BY EmptyMeansNone DEF CopyPending, HandleInv, TypeOK
<1>2. CASE cap < PendingLen
  <2>1. UNCHANGED <<copied, pending>> /\ status' = "BUFFER_TOO_SMALL" /\ outLen' = PendingLen
    BY <1>0, <1>1, <1>2 DEF CopyPending, Returns
  <2>2. TypeOK' BY <2>1, <1>1 DEF HandleInv, TypeOK
  <2>3. Retained' BY <2>1, <1>1 DEF HandleInv, Retained
  <2>4. RefusalRetains' BY <2>1, <1>1 DEF HandleInv, RefusalRetains, PendingLen
  <2>5. NothingLost' BY <2>1, <1>1 DEF HandleInv, NothingLost
  <2>6. QED BY <2>1, <2>2, <2>3, <2>4, <2>5, <1>1 DEF HandleInv
<1>3. CASE cap >= PendingLen
  <2>1. /\ copied' = Append(copied, pending) /\ pending' = 0
        /\ status' = "OK" /\ outLen' = PendingLen
    BY <1>0, <1>1, <1>3 DEF CopyPending, Returns
  <2>2. /\ copied' \in Seq(Nat)
        /\ \A i \in 1 .. Len(copied') : copied'[i] \in 1 .. taken
        /\ \E i \in 1 .. Len(copied') : copied'[i] = pending
        /\ \A k : (\E i \in 1 .. Len(copied) : copied[i] = k)
                    => \E i \in 1 .. Len(copied') : copied'[i] = k
    <3>1. /\ copied \in Seq(Nat) /\ taken \in Nat /\ pending <= taken /\ pending \in Nat \ {0}
          /\ \A i \in 1 .. Len(copied) : copied[i] \in 1 .. taken
      BY <1>1 DEF HandleInv, TypeOK, Retained
    <3>2. QED BY <2>1, <3>1, HandOver
  <2>3. TypeOK' BY <2>1, <1>1 DEF HandleInv, TypeOK
  <2>4. Retained' BY <2>1, <2>2, <1>1 DEF Retained
  <2>5. RefusalRetains' BY <2>1 DEF RefusalRetains
  <2>6. NothingLost' BY Zenon, <2>1, <2>2, <1>1 DEF HandleInv, NothingLost
  <2>7. QED BY <2>2, <2>3, <2>4, <2>5, <2>6, <1>1 DEF HandleInv
<1>4. QED BY <1>0, <1>1, <1>2, <1>3

\* A message that does not fit moves from the transport to the handle.
LEMMA TooSmallKeeps ==
  ASSUME HandleInv, NEW cap \in Caps, PollTooSmall(cap) PROVE HandleInv'
<1>0. cap \in Nat BY CApiAssumption
<1>1. /\ UNCHANGED <<backend, lens, copied, waiting, seen, allocs>> /\ ~waiting
      /\ pending = 0 /\ taken < Len(lens) /\ lens[taken + 1] > cap
      /\ taken' = taken + 1 /\ pending' = taken + 1
      /\ status' = "BUFFER_TOO_SMALL" /\ outLen' = lens[taken + 1]
  BY EmptyMeansNone DEF PollTooSmall, Returns
<1>2. taken \in Nat /\ Len(lens) \in Nat /\ lens[taken + 1] \in Nat
  BY <1>1 DEF HandleInv, TypeOK
<1>3. TypeOK' BY <1>1, <1>2 DEF HandleInv, TypeOK
<1>4. Retained'
  <2>1. \A i \in 1 .. Len(copied) : copied[i] \in 1 .. taken BY Zenon DEF HandleInv, Retained
  <2>2. \A m \in 1 .. taken : m \in 1 .. taken + 1 /\ m < taken + 1 BY <1>2
  <2>3. lens[taken + 1] > 0 BY <1>0, <1>1, <1>2
  <2>4. QED BY Zenon, <1>1, <2>1, <2>2, <2>3 DEF Retained
<1>5. RefusalRetains' BY <1>1, <1>2 DEF RefusalRetains, PendingLen
<1>6. NothingLost'
  <2>1. \A m \in 1 .. taken' : m \in 1 .. taken \/ m = taken + 1 BY <1>1, <1>2
  <2>2. 0 \notin 1 .. taken BY <1>2
  <2>3. QED BY <2>1, <2>2, <1>1 DEF HandleInv, NothingLost
<1>7. QED BY <1>1, <1>3, <1>4, <1>5, <1>6 DEF HandleInv

\* A message that fits is handed over as it is released.
LEMMA FitsKeeps ==
  ASSUME HandleInv, NEW cap \in Caps, PollFits(cap) PROVE HandleInv'
<1>1. /\ UNCHANGED <<backend, lens, pending, waiting, seen, allocs>> /\ ~waiting
      /\ pending = 0 /\ taken < Len(lens)
      /\ taken' = taken + 1 /\ copied' = Append(copied, taken + 1)
      /\ status' = "OK" /\ outLen' = lens[taken + 1]
  BY EmptyMeansNone DEF PollFits, Returns
<1>2. taken \in Nat /\ Len(lens) \in Nat /\ lens[taken + 1] \in Nat
  BY <1>1 DEF HandleInv, TypeOK
<1>3. /\ copied' \in Seq(Nat)
      /\ \A i \in 1 .. Len(copied') : copied'[i] \in 1 .. taken + 1
      /\ \E i \in 1 .. Len(copied') : copied'[i] = taken + 1
      /\ \A k : (\E i \in 1 .. Len(copied) : copied[i] = k)
                  => \E i \in 1 .. Len(copied') : copied'[i] = k
  <2>1. \A i \in 1 .. Len(copied) : copied[i] \in 1 .. taken + 1
    BY <1>2 DEF HandleInv, Retained
  <2>2. copied \in Seq(Nat) BY DEF HandleInv
  <2>3. QED BY <1>1, <1>2, <2>1, <2>2, HandOver
<1>4. TypeOK' BY <1>1, <1>2 DEF HandleInv, TypeOK
<1>5. Retained' BY <1>1, <1>3 DEF Retained
<1>6. RefusalRetains' BY <1>1 DEF RefusalRetains
<1>7. NothingLost'
  <2>1. \A m \in 1 .. taken' : m \in 1 .. taken \/ m = taken + 1 BY <1>1, <1>2
  <2>2. QED BY <2>1, <1>1, <1>3 DEF HandleInv, NothingLost
<1>8. QED BY <1>1, <1>3, <1>4, <1>5, <1>6, <1>7 DEF HandleInv

\* Calls that hand nothing over leave the handle's message alone.
LEMMA OthersKeep ==
  ASSUME HandleInv,
         PollAgain \/ Wait \/ WaitReturns \/ \E cap \in Caps : PollNoMemory(cap)
  PROVE  HandleInv'
<1>1. PendingLen' = PendingLen /\ UNCHANGED <<backend, lens, pending, copied>>
  BY DEF PollAgain, Wait, WaitReturns, PollNoMemory, PendingLen
<1>2. CASE PollAgain
  <2>1. /\ UNCHANGED <<taken, waiting, seen, allocs>> /\ ~waiting
        /\ status' = "AGAIN" /\ outLen' = 0
    BY <1>2 DEF PollAgain, Returns
  <2>2. TypeOK' BY <1>1, <2>1 DEF HandleInv, TypeOK
  <2>3. Retained' BY <1>1, <2>1 DEF HandleInv, Retained
  <2>4. RefusalRetains' BY <2>1 DEF RefusalRetains
  <2>5. NothingLost' BY <1>1, <2>1 DEF HandleInv, NothingLost
  <2>6. QED BY <1>1, <2>2, <2>3, <2>4, <2>5 DEF HandleInv
<1>3. CASE Wait
  <2>1. UNCHANGED <<taken, outLen, allocs>> BY <1>3 DEF Wait
  <2>2. TypeOK'
    <3>1. waiting' \in BOOLEAN BY Zenon, <1>3 DEF Wait, Block, HandleInv, TypeOK
    <3>2. status' \in {"OK", "AGAIN", "BUFFER_TOO_SMALL", "NO_MEMORY"}
      BY <1>3 DEF Wait, Block, HandleInv, TypeOK
    <3>3. seen' \in 0 .. Len(lens) BY <1>3 DEF Wait, Block, HandleInv, TypeOK
    <3>4. QED BY <1>1, <2>1, <3>1, <3>2, <3>3 DEF HandleInv, TypeOK
  <2>3. Retained' BY <1>1, <2>1 DEF HandleInv, Retained
  <2>4. RefusalRetains'
    <3>1. CASE PendingLen # 0
      BY <1>1, <1>3, <3>1 DEF Wait, RefusalRetains
    <3>2. CASE PendingLen = 0
      <4>1. pending = 0 BY <3>2, EmptyMeansNone
      <4>2. status' = status BY <1>3, <3>2 DEF Wait, Block
      <4>3. QED BY <1>1, <4>1, <4>2 DEF HandleInv, RefusalRetains
    <3>3. QED BY <3>1, <3>2
  <2>5. NothingLost' BY <1>1, <2>1 DEF HandleInv, NothingLost
  <2>6. QED BY <1>1, <2>2, <2>3, <2>4, <2>5 DEF HandleInv
<1>4. CASE WaitReturns
  <2>1. UNCHANGED <<taken, outLen, seen, allocs>> /\ waiting' = FALSE /\ status' = "OK"
    BY <1>4 DEF WaitReturns
  <2>2. TypeOK'
    <3>1. waiting' \in BOOLEAN BY Zenon, <2>1
    <3>2. QED BY <1>1, <2>1, <3>1 DEF HandleInv, TypeOK
  <2>3. Retained' BY <1>1, <2>1 DEF HandleInv, Retained
  <2>4. RefusalRetains' BY <2>1 DEF RefusalRetains
  <2>5. NothingLost' BY <1>1, <2>1 DEF HandleInv, NothingLost
  <2>6. QED BY <1>1, <2>2, <2>3, <2>4, <2>5 DEF HandleInv
<1>5. ASSUME NEW cap \in Caps, PollNoMemory(cap) PROVE HandleInv'
  <2>1. /\ UNCHANGED <<waiting, seen>> /\ ~waiting /\ pending = 0
        /\ taken < Len(lens) /\ allocs' = allocs + 1
        /\ taken' = IF backend = "socket" THEN taken + 1 ELSE taken
        /\ status' = "NO_MEMORY" /\ outLen' = outLen
    BY <1>5, EmptyMeansNone DEF PollNoMemory, Returns
  <2>2. /\ taken \in Nat /\ Len(lens) \in Nat /\ allocs \in Nat
        /\ taken' \in Nat /\ taken <= taken' /\ taken' <= Len(lens)
    BY <2>1 DEF HandleInv, TypeOK
  <2>3. TypeOK' BY <1>1, <2>1, <2>2 DEF HandleInv, TypeOK
  <2>4. Retained' BY <1>1, <2>1, <2>2 DEF HandleInv, Retained
  <2>5. RefusalRetains' BY <1>1, <2>1 DEF RefusalRetains
  <2>6. NothingLost'
    <3>1. allocs' # 0 BY <2>1, <2>2
    <3>2. backend = "shm" => taken' = taken /\ NothingLost /\ \A m \in 1 .. taken :
                               m = pending \/ \E i \in 1 .. Len(copied) : copied[i] = m
      BY <2>1 DEF HandleInv, NothingLost
    <3>3. QED BY <1>1, <3>1, <3>2 DEF NothingLost
  <2>7. QED BY <1>1, <2>3, <2>4, <2>5, <2>6 DEF HandleInv
<1>6. QED BY <1>2, <1>3, <1>4, <1>5

-----------------------------------------------------------------------------
\* Every reachable state of the handle satisfies the inductive invariant.
THEOREM HandleInvariant == ConsumerSpec => []HandleInv
<1>1. ConsumerInit => HandleInv BY HandleInit
<1>2. HandleInv /\ [ConsumerNext]_consumerVars => HandleInv'
  <2> SUFFICES ASSUME HandleInv, [ConsumerNext]_consumerVars PROVE HandleInv'
    OBVIOUS
  <2>1. CASE Send BY <2>1, SendKeeps
  <2>2. ASSUME NEW cap \in Caps, PollCopy(cap) PROVE HandleInv'
    BY <2>2, CopyPendingKeeps, TooSmallKeeps, FitsKeeps, OthersKeep DEF PollCopy
  <2>3. CASE Wait \/ WaitReturns BY <2>3, OthersKeep
  <2>4. CASE UNCHANGED consumerVars
    <3>1. UNCHANGED <<backend, lens, taken, pending, copied, status, outLen, waiting, seen, allocs>>
      BY <2>4 DEF consumerVars
    <3>2. TypeOK' BY <3>1 DEF HandleInv, TypeOK
    <3>3. Retained' BY <3>1 DEF HandleInv, Retained
    <3>4. RefusalRetains' BY <3>1 DEF HandleInv, RefusalRetains, PendingLen
    <3>5. NothingLost' BY <3>1 DEF HandleInv, NothingLost
    <3>6. QED BY <3>1, <3>2, <3>3, <3>4, <3>5 DEF HandleInv
  <2>5. QED BY <2>1, <2>2, <2>3, <2>4 DEF ConsumerNext
<1>3. QED BY <1>1, <1>2, PTL DEF ConsumerSpec

\* A message refused with BUFFER_TOO_SMALL is kept for the next poll_copy, with the
\* length that was reported, and a wait never blocks over it.
THEOREM RefusedMessageKept == ConsumerSpec => []RefusalRetains
<1>1. HandleInv => RefusalRetains BY DEF HandleInv
<1>2. QED BY <1>1, HandleInvariant, PTL

\* poll_copy loses a message only over a socket, when its copy cannot be allocated.
THEOREM PollCopyLosesNothing == ConsumerSpec => []NothingLost
<1>1. HandleInv => NothingLost BY DEF HandleInv
<1>2. QED BY <1>1, HandleInvariant, PTL

\* The caller of poll_copy gets every message at most once and in order.
THEOREM HandleImplementsContract == ConsumerSpec => ImplementsContract
<1>1. ConsumerInit => Contract!CInit
  BY DEF ConsumerInit, Contract!CInit
<1>2. HandleInv /\ HandleInv' /\ [ConsumerNext]_consumerVars => [Contract!CNext]_(Contract!cvars)
  <2> DEFINE ids == [i \in 1 .. Len(lens) |-> i]
             last == IF copied = << >> THEN 0 ELSE copied[Len(copied)]
  <2> SUFFICES ASSUME HandleInv, HandleInv', [ConsumerNext]_consumerVars
               PROVE  Contract!CNext \/ UNCHANGED <<ids, last, copied>>
    BY DEF Contract!cvars
  <2>0. Len(lens) \in Nat /\ copied \in Seq(Nat) /\ Len(copied) \in Nat /\ taken \in 0 .. Len(lens)
    <3>1. lens \in Seq(Nat) /\ copied \in Seq(Nat) BY DEF HandleInv
    <3>2. taken \in 0 .. Len(lens) BY DEF HandleInv, TypeOK
    <3>3. QED BY <3>1, <3>2
  <2>1. CASE UNCHANGED <<lens, copied>> BY <2>1
  <2>2. CASE Send
    <3>1. PICK n \in Nat : lens' = Append(lens, n) BY <2>2, CApiAssumption DEF Send
    <3>2. Len(lens') = Len(lens) + 1 /\ Len(lens') <= MaxSent BY <3>1, AppendFacts DEF HandleInv
    <3>3. ids' = Append(ids, Len(lens) + 1)
      <4>1. ids \in Seq(Nat) /\ Len(ids) = Len(lens) BY <2>0
      <4>2. QED BY <4>1, <3>2, <2>0
    <3>4. Len(lens) + 1 \in 1 .. MaxSent BY <3>2, <2>0, CApiAssumption
    <3>5. copied' = copied BY <2>2 DEF Send
    <3>6. Contract!Accept BY <3>3, <3>4, <3>5 DEF Contract!Accept
    <3>7. QED BY <3>6 DEF Contract!CNext
  <2>3. ASSUME NEW m \in 1 .. Len(lens), copied' = Append(copied, m), lens' = lens,
               \A i \in 1 .. Len(copied) : copied[i] \in 1 .. Len(lens) /\ copied[i] < m
        PROVE  Contract!CNext
    <3>1. Len(copied') = Len(copied) + 1 /\ copied'[Len(copied) + 1] = m
      BY <2>0, <2>3, AppendFacts
    <3>2. last' = m
      <4>1. copied' # << >> BY <3>1, <2>0
      <4>2. QED BY <4>1, <3>1
    <3>3. last \in Nat /\ last < m
      <4>1. CASE copied = << >> BY <4>1
      <4>2. CASE copied # << >>
        <5>1. Len(copied) \in 1 .. Len(copied) BY <4>2, <2>0
        <5>2. last = copied[Len(copied)] BY <4>2
        <5>3. QED BY <5>1, <5>2, <2>3
      <4>3. QED BY <4>1, <4>2
    <3>4. ids' = ids /\ ids[m] = m /\ Len(ids) = Len(lens) BY <2>3, <2>0
    <3>5. m \in (last + 1) .. Len(ids) BY <3>3, <3>4, <2>0
    <3>6. Contract!Hand BY <2>3, <3>2, <3>4, <3>5 DEF Contract!Hand
    <3>7. QED BY <3>6 DEF Contract!CNext
  <2>4. ASSUME NEW cap \in Caps, CopyPending(cap) PROVE Contract!CNext \/ UNCHANGED <<lens, copied>>
    <3>1. CASE copied' = copied BY <2>4, <3>1 DEF CopyPending
    <3>2. CASE copied' = Append(copied, pending)
      <4>1. pending # 0 /\ lens' = lens BY <2>4, EmptyMeansNone DEF CopyPending
      <4>2. pending \in 1 .. Len(lens) BY <4>1, <2>0 DEF HandleInv, TypeOK
      <4>3. \A i \in 1 .. Len(copied) : copied[i] \in 1 .. Len(lens) /\ copied[i] < pending
        BY <4>1, <2>0 DEF HandleInv, Retained
      <4>4. QED BY <4>1, <4>2, <4>3, <3>2, <2>3
    <3>3. QED BY <2>4, <3>1, <3>2 DEF CopyPending
  <2>5. ASSUME NEW cap \in Caps, PollFits(cap) PROVE Contract!CNext
    <3>1. copied' = Append(copied, taken + 1) /\ lens' = lens /\ taken + 1 \in 1 .. Len(lens)
      BY <2>5, <2>0 DEF PollFits
    <3>2. \A i \in 1 .. Len(copied) : copied[i] \in 1 .. Len(lens) /\ copied[i] < taken + 1
      BY <2>0 DEF HandleInv, Retained
    <3>3. QED BY <3>1, <3>2, <2>3
  <2>6. ASSUME NEW cap \in Caps, PollTooSmall(cap) \/ PollAgain \/ PollNoMemory(cap)
        PROVE  UNCHANGED <<lens, copied>>
    BY <2>6 DEF PollTooSmall, PollAgain, PollNoMemory
  <2>7. CASE Wait \/ WaitReturns \/ UNCHANGED consumerVars
    <3>1. UNCHANGED <<lens, copied>> BY <2>7 DEF Wait, WaitReturns, consumerVars
    <3>2. QED BY <3>1, <2>1
  <2>8. QED BY <2>1, <2>2, <2>4, <2>5, <2>6, <2>7 DEF ConsumerNext, PollCopy
<1>3. QED BY <1>1, <1>2, HandleInvariant, PTL DEF ConsumerSpec, ImplementsContract, Contract!CSpec
================================================================================
