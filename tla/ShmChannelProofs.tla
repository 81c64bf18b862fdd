--------------------------- MODULE ShmChannelProofs ---------------------------
(***************************************************************************)
(* Safety of the shared-memory channel for every capacity, item size,      *)
(* header size, set of payload lengths and number of calls.                *)
(***************************************************************************)
EXTENDS ShmChannel, TLAPS

-----------------------------------------------------------------------------
(* Arithmetic and data lemmas.                                             *)

\* Two positions less than one lap apart are stored in different bytes.
LEMMA PhysDistinct ==
  ASSUME NEW a \in Nat, NEW b \in Nat, a < b, b - a < Capacity
  PROVE  Phys(a) # Phys(b)
<1> DEFINE qx == a \div Capacity
           qy == b \div Capacity
<1>1. /\ Capacity \in Nat \ {0} /\ qx \in Nat /\ qy \in Nat
      /\ Phys(a) \in Nat /\ Phys(b) \in Nat
      /\ a = Capacity * qx + Phys(a) /\ b = Capacity * qy + Phys(b)
  BY SizeAssumption, SMT DEF Phys
<1> HIDE DEF qx, qy
<1>2. SUFFICES ASSUME Phys(a) = Phys(b) PROVE FALSE
  OBVIOUS
<1>3. b - a = Capacity * qy - Capacity * qx BY <1>1, <1>2, SMT
<1>4. CASE qy <= qx
  <2>1. Capacity * qy <= Capacity * qx BY <1>1, <1>4, SMT
  <2>2. QED BY <2>1, <1>1, <1>3, SMT
<1>5. CASE qy >= qx + 1
  <2>1. Capacity * qy >= Capacity * qx + Capacity BY <1>1, <1>5, SMT
  <2>2. QED BY <2>1, <1>1, <1>3, SMT
<1>6. QED BY <1>1, <1>4, <1>5, SMT

\* A position is stored inside the data area.
LEMMA PhysRange == ASSUME NEW a \in Nat PROVE Phys(a) \in 0 .. Capacity - 1
  BY SizeAssumption DEF Phys

\* Inside the data area a byte of a record is stored where its position says.
LEMMA AddrInside ==
  ASSUME NEW pos \in Nat, NEW p \in Nat, pos <= p, Addr(pos, p) < Capacity
  PROVE  Addr(pos, p) = Phys(p) /\ Addr(pos, p) \in 0 .. Capacity - 1
<1> DEFINE qx == pos \div Capacity
           qy == p \div Capacity
           x == Addr(pos, p)
<1>1. /\ Capacity \in Nat \ {0} /\ qx \in Nat /\ qy \in Nat
      /\ Phys(pos) \in Nat /\ Phys(p) \in 0 .. Capacity - 1
      /\ pos = Capacity * qx + Phys(pos) /\ p = Capacity * qy + Phys(p)
  BY SizeAssumption, SMT DEF Phys
<1> HIDE DEF qx, qy
<1>2. x \in Nat /\ x < Capacity /\ p = Capacity * qx + x
  <2>1. x = Phys(pos) + (p - pos) BY DEF Addr
  <2>2. PICK c \in Nat : c = Capacity * qx BY <1>1, SMT
  <2>3. QED BY <2>1, <2>2, <1>1, SMT
<1> HIDE DEF x
<1>3. CASE qy <= qx - 1
  <2>1. Capacity * qy + Capacity <= Capacity * qx BY <1>1, <1>3, SMT
  <2>2. QED BY <2>1, <1>1, <1>2, SMT
<1>4. CASE qy >= qx + 1
  <2>1. Capacity * qy >= Capacity * qx + Capacity BY <1>1, <1>4, SMT
  <2>2. QED BY <2>1, <1>1, <1>2, SMT
<1>5. CASE qy = qx
  <2>1. x = Phys(p) BY <1>1, <1>2, <1>5, SMT
  <2>2. QED BY <2>1, <1>1 DEF x
<1>6. QED BY <1>1, <1>3, <1>4, <1>5, SMT

\* A fixed slot ends inside the data area.
LEMMA SlotInside ==
  ASSUME Layout = "fixed", NEW pos \in Nat, Aligned(pos)
  PROVE  Phys(pos) + ItemSize <= Capacity
<1> DEFINE k == pos \div ItemSize
           m == Capacity \div ItemSize
           q == pos \div Capacity
<1>1. /\ Capacity \in Nat \ {0} /\ ItemSize \in Nat \ {0} /\ q \in Nat
      /\ Phys(pos) \in 0 .. Capacity - 1 /\ pos = Capacity * q + Phys(pos)
  BY SizeAssumption, SMT DEF Phys
<1>2. k \in Nat /\ m \in Nat /\ pos = ItemSize * k /\ Capacity = ItemSize * m
  BY SizeAssumption, FillAssumption, SMT DEF Aligned
<1> HIDE DEF k, m, q
<1>3. PICK j \in Int : j = k - m * q BY <1>1, <1>2, SMT
<1>4. Phys(pos) = ItemSize * j
  <2>1. Capacity * q = ItemSize * (m * q) BY <1>1, <1>2, SMT
  <2>2. m * q \in Nat BY <1>1, <1>2, SMT
  <2>3. ItemSize * k - ItemSize * (m * q) = ItemSize * (k - m * q) BY <1>1, <1>2, <2>2, SMT
  <2>4. QED BY <2>1, <2>2, <2>3, <1>1, <1>2, <1>3, SMT
<1>5. j < m
  <2>1. SUFFICES ASSUME j >= m PROVE FALSE BY <1>2, <1>3, SMT
  <2>2. ItemSize * j >= ItemSize * m BY <2>1, <1>1, <1>2, <1>3, SMT
  <2>3. QED BY <2>2, <1>1, <1>2, <1>4, SMT
<1>6. ItemSize * (j + 1) <= ItemSize * m BY <1>1, <1>2, <1>3, <1>5, SMT
<1>7. ItemSize * (j + 1) = ItemSize * j + ItemSize BY <1>1, <1>3, SMT
<1>8. QED BY <1>6, <1>7, <1>1, <1>2, <1>3, <1>4, SMT

\* A fixed slot after an aligned position ends at an aligned one.
LEMMA NextAligned ==
  ASSUME NEW pos \in Nat, NEW len \in Nat, Aligned(pos)
  PROVE  Aligned(pos + Footprint(len))
<1>0. Layout = "fixed" => Footprint(len) = ItemSize
  BY SizeAssumption DEF Footprint, HeaderSize, PayloadSize
<1> SUFFICES ASSUME Layout = "fixed" PROVE (pos + ItemSize) % ItemSize = 0
  BY Zenon, <1>0 DEF Aligned
<1>1. ItemSize \in Nat \ {0} /\ pos % ItemSize = 0 BY SizeAssumption DEF Aligned
<1> DEFINE k == pos \div ItemSize
<1>2. k \in Nat /\ pos = ItemSize * k BY <1>1, SMT
<1> HIDE DEF k
<1> DEFINE e == pos + ItemSize
           q == e \div ItemSize
           r == e % ItemSize
<1>3. e = ItemSize * k + ItemSize BY <1>1, <1>2, SMT
<1>4. q \in Nat /\ r \in 0 .. ItemSize - 1 /\ e = ItemSize * q + r BY <1>1, SMT
<1> HIDE DEF e, q, r
<1>5. CASE q <= k
  <2>1. ItemSize * q <= ItemSize * k BY <1>1, <1>2, <1>4, <1>5, SMT
  <2>2. QED BY <2>1, <1>1, <1>2, <1>3, <1>4, SMT
<1>6. CASE q >= k + 1
  <2>1. ItemSize * q >= ItemSize * k + ItemSize BY <1>1, <1>2, <1>4, <1>6, SMT
  <2>2. r = 0 BY <2>1, <1>1, <1>2, <1>3, <1>4, SMT
  <2>3. QED BY <2>2 DEF r, e
<1>7. QED BY <1>2, <1>4, <1>5, <1>6, SMT

\* Sizes are natural numbers, and a payload that was let in fits its slot.
LEMMA Geometry ==
  ASSUME NEW len \in Nat
  PROVE  /\ HeaderSize \in Nat
         /\ PayloadSize(len) \in Nat
         /\ Footprint(len) \in Nat
         /\ Footprint(len) = HeaderSize + PayloadSize(len)
         /\ FitsSlot(len) => len <= PayloadSize(len)
         /\ Layout # "fixed" => PayloadSize(len) = len
         /\ Layout = "fixed" => HeaderSize = 0 /\ PayloadSize(len) = ItemSize
  BY LayoutAssumption, SizeAssumption DEF HeaderSize, PayloadSize, Footprint, FitsSlot

\* What Append does to a sequence.
LEMMA AppendFacts ==
  ASSUME NEW S, NEW s \in Seq(S), NEW e \in S
  PROVE  /\ Append(s, e) \in Seq(S)
         /\ Len(Append(s, e)) = Len(s) + 1
         /\ Len(s) \in Nat
         /\ \A i \in 1 .. Len(s) : Append(s, e)[i] = s[i]
         /\ Append(s, e)[Len(s) + 1] = e
  OBVIOUS

\* Fields of a logged record.
LEMMA LogFields ==
  ASSUME log \in Seq(Records), NEW i \in 1 .. Len(log)
  PROVE  log[i].id \in Nat /\ log[i].len \in Nat /\ log[i].pos \in Nat
<1>1. log[i] \in Records OBVIOUS
<1>2. QED BY <1>1 DEF Records

\* memcpy and memset write the bytes they are given, those inside the data area.
LEMMA WrittenFacts ==
  ASSUME cells \in [0 .. Capacity - 1 -> Nat], call.pos \in Nat,
         NEW ps \in SUBSET Nat, \A p \in ps : call.pos <= p, NEW v \in Nat
  PROVE  /\ Written(ps, v) \in [0 .. Capacity - 1 -> Nat]
         /\ \A p \in ps : Addr(call.pos, p) < Capacity => Written(ps, v)[Addr(call.pos, p)] = v
<1>1. Written(ps, v) \in [0 .. Capacity - 1 -> Nat] BY DEF Written
<1>2. ASSUME NEW p \in ps, Addr(call.pos, p) < Capacity
      PROVE  Written(ps, v)[Addr(call.pos, p)] = v
  <2>1. Addr(call.pos, p) \in 0 .. Capacity - 1 BY <1>2, AddrInside
  <2>2. QED BY Zenon, <2>1 DEF Written
<1>3. QED BY <1>1, <1>2

\* The payload bytes of a record lie inside the record.
LEMMA PayloadInside ==
  ASSUME NEW pos \in Nat, NEW len \in Nat, NEW p \in PayloadAt(pos, len)
  PROVE  p \in Nat /\ pos <= p /\ p < pos + Footprint(len)
  BY Geometry DEF PayloadAt

\* Bytes memcpy writes: inside the slot, and all of the payload of a varlen record.
LEMMA CopyRange ==
  ASSUME NEW pos \in Nat, NEW len \in Nat, FitsSlot(len), NEW end, end = pos + Footprint(len)
  PROVE  LET ps == (pos + HeaderSize) .. (pos + HeaderSize + len - 1)
         IN  /\ ps \in SUBSET Nat
             /\ ps \in SUBSET (pos .. (end - 1))
             /\ \A p \in PayloadAt(pos, len) : p \in ps <=> p < pos + HeaderSize + len
<1>1. /\ HeaderSize \in Nat /\ PayloadSize(len) \in Nat /\ len <= PayloadSize(len)
      /\ Footprint(len) = HeaderSize + PayloadSize(len)
  BY Geometry
<1>2. PayloadAt(pos, len) = (pos + HeaderSize) .. (pos + Footprint(len) - 1) BY DEF PayloadAt
<1> HIDE DEF HeaderSize, PayloadSize, Footprint, PayloadAt
<1>3. QED BY <1>1, <1>2

\* Bytes memset writes: the rest of the slot of a fixed record.
LEMMA PadRange ==
  ASSUME NEW pos \in Nat, NEW len \in Nat, FitsSlot(len), Layout = "fixed",
         NEW end, end = pos + Footprint(len)
  PROVE  LET ps == (pos + len) .. (pos + ItemSize - 1)
         IN  /\ ps \in SUBSET Nat
             /\ ps \in SUBSET (pos .. (end - 1))
             /\ \A p \in PayloadAt(pos, len) : p \in ps <=> ~(p < pos + len)
<1>1. /\ HeaderSize = 0 /\ len <= ItemSize /\ ItemSize \in Nat
      /\ Footprint(len) = ItemSize
  BY Geometry, SizeAssumption
<1>2. PayloadAt(pos, len) = pos .. (pos + ItemSize - 1) BY <1>1 DEF PayloadAt
<1> HIDE DEF HeaderSize, PayloadSize, Footprint, PayloadAt
<1>3. QED BY <1>1, <1>2

\* A write inside the reserved slot spares the unread bytes in front of it.
LEMMA WriteSpares ==
  ASSUME cells \in [0 .. Capacity - 1 -> Nat],
         call.pos \in Nat, writePos \in Nat, readPos \in Nat, writePos - readPos <= Capacity,
         NEW v \in Nat, NEW ps \in SUBSET (call.pos .. (writePos - 1)),
         NEW pos \in Nat, NEW p \in Nat, pos <= p, readPos <= p, p < call.pos,
         Addr(pos, p) < Capacity
  PROVE  Written(ps, v)[Addr(pos, p)] = cells[Addr(pos, p)]
<1>1. Addr(pos, p) = Phys(p) /\ Addr(pos, p) \in 0 .. Capacity - 1 BY AddrInside
<1>2. ASSUME NEW q \in ps, Addr(call.pos, q) = Addr(pos, p) PROVE FALSE
  <2>1. q \in Nat /\ call.pos <= q /\ p < q /\ q - p < Capacity BY SizeAssumption
  <2>2. Addr(call.pos, q) = Phys(q) BY <1>2, <2>1, AddrInside
  <2>3. QED BY <1>1, <1>2, <2>1, <2>2, PhysDistinct
<1>3. QED BY Zenon, <1>1, <1>2 DEF Written

-----------------------------------------------------------------------------
(* The invariant holds initially.                                          *)

\* An empty ring satisfies the invariant.
LEMMA InitEstablishes == Init => RingInv
<1> SUFFICES ASSUME Init PROVE RingInv OBVIOUS
<1> USE DEF Init
<1>1. TypeOK BY SizeAssumption DEF TypeOK, Calls, Records, Results
<1>2. Tiling BY SizeAssumption DEF Tiling, InFlight, CommitEnd, Unread, Aligned
<1>3. Contents BY DEF Contents, Unread
<1>4. Reading BY DEF Reading, LastHandled
<1>5. DeliveredInOrder /\ ResultsFaithful /\ ReleasedWasHandled
  BY DEF DeliveredInOrder, ResultsFaithful, ReleasedWasHandled
<1>6. QED BY <1>1, <1>2, <1>3, <1>4, <1>5 DEF RingInv

-----------------------------------------------------------------------------
(* The producer's steps preserve it.                                       *)

\* A call that fails adds a result and publishes nothing.
LEMMA FailedCall ==
  ASSUME TypeOK, ResultsFaithful, NEW r \in Results \ {"ok"},
         results' = Append(results, r), log' = log
  PROVE  ResultsFaithful' /\ results' \in Seq(Results)
<1>1. results \in Seq(Results) /\ r \in Results BY DEF TypeOK
<1>2. results' \in Seq(Results) /\ Len(results') = Len(results) + 1 /\ Len(results) \in Nat
  BY <1>1, AppendFacts
<1>3. \A i \in 1 .. Len(results) : results'[i] = results[i]
  BY <1>1, AppendFacts
<1>4. results'[Len(results) + 1] # "ok"
  BY <1>1, AppendFacts
<1>5. /\ \A i \in 1 .. Len(results) : results[i] = "ok" <=> \E j \in 1 .. Len(log) : log[j].id = i
      /\ \A j \in 1 .. Len(log) : log[j].id \in 1 .. Len(results)
      /\ \A j, k \in 1 .. Len(log) : j < k => log[j].id < log[k].id
  BY DEF ResultsFaithful
<1>6. ASSUME NEW i \in 1 .. Len(results')
      PROVE  results'[i] = "ok" <=> \E j \in 1 .. Len(log) : log[j].id = i
  <2>1. CASE i \in 1 .. Len(results)
    <3>1. results'[i] = results[i] BY <2>1, <1>3
    <3>2. QED BY <3>1, <2>1, <1>5
  <2>2. CASE i = Len(results) + 1
    <3>1. \A j \in 1 .. Len(log) : log[j].id # i BY <2>2, <1>2, <1>5
    <3>2. QED BY <3>1, <1>4, <2>2
  <2>3. QED BY <1>2, <2>1, <2>2
<1>7. \A j \in 1 .. Len(log) : log[j].id \in 1 .. Len(results') BY <1>2, <1>5
<1>8. QED BY <1>2, <1>5, <1>6, <1>7 DEF ResultsFaithful

\* A step of the producer that leaves log, results and the reader alone.
LEMMA ReaderUntouched ==
  ASSUME RingInv, UNCHANGED <<log, nread, consVars>>
  PROVE  Reading' /\ DeliveredInOrder' /\ ReleasedWasHandled'
  BY DEF RingInv, Reading, LastHandled, DeliveredInOrder, ReleasedWasHandled, consVars

\* A send entering, with its early errors (channel::send_*), keeps the invariant.
LEMMA CallPreserves ==
  ASSUME RingInv, NEW name \in Calls, NEW len \in Lens, Call(name, len)
  PROVE  RingInv'
<1> USE DEF RingInv, Call, ringVars, consVars
<1>0. ppc = "idle" /\ len \in Nat BY SizeAssumption
<1>1. Reading' /\ DeliveredInOrder' /\ ReleasedWasHandled' BY ReaderUntouched
<1>2. CASE \E r \in Results \ {"ok"} : Return(r)
  <2> PICK r \in Results \ {"ok"} : Return(r) BY <1>2
  <2>1. ResultsFaithful' /\ results' \in Seq(Results) BY FailedCall DEF Return
  <2>2. TypeOK' BY Zenon, <2>1 DEF TypeOK, Return
  <2>3. Tiling' BY <1>0 DEF Tiling, Return, InFlight, CommitEnd, Unread, EndOf
  <2>4. Contents' BY <1>0 DEF Contents, Return, Unread, Holds
  <2>5. QED BY <1>1, <2>1, <2>2, <2>3, <2>4
<1>3. CASE /\ ~WrongType(name) /\ ~TooLong(name, len)
           /\ ppc' = "reserve"
           /\ call' = [name |-> name, len |-> len, pos |-> writePos]
           /\ UNCHANGED results
  <2>1. TypeOK' BY <1>0, <1>3 DEF TypeOK
  <2>2. FitsSlot(len) BY <1>0, <1>3, SizeAssumption DEF FitsSlot, TooLong, WrongType, Calls
  <2>3. Tiling' BY <1>0, <1>3, <2>2 DEF Tiling, InFlight, CommitEnd, Unread, EndOf
  <2>4. Contents' BY <1>0, <1>3 DEF Contents, Unread, Holds
  <2>5. ResultsFaithful' BY <1>3 DEF ResultsFaithful
  <2>6. QED BY <1>1, <2>1, <2>3, <2>4, <2>5
<1>4. QED BY <1>2, <1>3 DEF Results

\* A refused reservation only ends the call or retries it: the ring is untouched.
LEMMA ReserveFailsPreserves == ASSUME RingInv, ReserveFails PROVE RingInv'
<1> USE DEF RingInv, ReserveFails, ringVars, consVars
<1>0. ppc = "reserve" OBVIOUS
<1>1. Reading' /\ DeliveredInOrder' /\ ReleasedWasHandled' BY ReaderUntouched
<1> PICK r \in Results \ {"ok"} : Return(r) BY DEF Results
<1>2. ResultsFaithful' /\ results' \in Seq(Results) BY FailedCall DEF Return
<1>3. TypeOK' BY Zenon, <1>2 DEF TypeOK, Return
<1>4. Tiling' BY <1>0 DEF Tiling, Return, InFlight, CommitEnd, Unread, EndOf
<1>5. Contents' BY <1>0 DEF Contents, Return, Unread, Holds
<1>6. QED BY <1>1, <1>2, <1>3, <1>4, <1>5

\* A reservation that fits takes the bytes after the last record, none of them unread.
LEMMA ReservePreserves == ASSUME RingInv, Reserve PROVE RingInv'
<1> USE DEF RingInv, Reserve, consVars
<1>0. /\ ppc = "reserve" /\ call.len \in Nat /\ writePos \in Nat /\ readPos \in Nat
      /\ Footprint(call.len) \in Nat
  BY Geometry DEF TypeOK
<1>1. Reading' /\ DeliveredInOrder' /\ ReleasedWasHandled' BY ReaderUntouched
<1>2. TypeOK'
  <2>1. call' \in [name : Calls \cup {"none"}, len : Nat, pos : Nat] BY Zenon, <1>0 DEF TypeOK
  <2>2. QED BY <1>0, <2>1 DEF TypeOK
<1>3. ResultsFaithful' BY DEF ResultsFaithful
<1>4. CommitEnd' = CommitEnd BY <1>0, <1>2 DEF CommitEnd, InFlight, TypeOK
<1>5. Tiling'
  <2>1. call'.len = call.len /\ call'.pos = writePos BY DEF TypeOK
  <2>2. EndOf(call)' = writePos' BY <2>1 DEF EndOf
  <2>3. readPos' <= writePos' /\ writePos' - readPos' <= Capacity
    BY <1>0, SizeAssumption DEF Fits, Tiling
  <2>4. Aligned(writePos) /\ Aligned(writePos + Footprint(call.len))
    BY <1>0, NextAligned DEF Tiling
  <2>5. Aligned(writePos)' /\ Aligned(call.pos)' BY <2>1, <2>4 DEF Aligned
  <2>6. QED BY <1>0, <1>4, <2>1, <2>2, <2>3, <2>5 DEF Tiling, Unread, EndOf, InFlight
<1>6. Contents' BY <1>0 DEF Contents, Unread, Holds
<1>7. QED BY <1>1, <1>2, <1>3, <1>5, <1>6

\* Writing inside the reserved slot leaves every unread record as it was.
LEMMA UnreadUntouched ==
  ASSUME TypeOK, Tiling, InFlight, UNCHANGED <<log, nread>>,
         NEW ps \in SUBSET (call.pos .. (writePos - 1)), NEW v \in Nat,
         cells' = Written(ps, v), \A i \in Unread : Holds(log[i])
  PROVE  \A i \in Unread : Holds(log[i])'
<1> SUFFICES ASSUME NEW i \in Unread, NEW p \in PayloadAt(log[i].pos, log[i].len),
                    Addr(log[i].pos, p) < Capacity
             PROVE  cells'[Addr(log[i].pos, p)] = cells[Addr(log[i].pos, p)]
  BY Zenon DEF Holds
<1>1. /\ i \in 1 .. Len(log) /\ log[i] \in Records
      /\ writePos \in Nat /\ readPos \in Nat /\ call.pos \in Nat
      /\ nread \in Nat
  BY DEF TypeOK, Unread
<1>2. log[i].len \in Nat /\ log[i].pos \in Nat BY <1>1 DEF Records
<1>3. readPos <= log[i].pos /\ log[i].pos + Footprint(log[i].len) <= call.pos
  BY DEF Tiling, CommitEnd, EndOf
<1>4. p \in Nat /\ log[i].pos <= p /\ p < log[i].pos + Footprint(log[i].len)
  BY <1>2, PayloadInside
<1>5. Footprint(log[i].len) \in Nat BY <1>2, Geometry
<1> HIDE DEF Footprint
<1>6. readPos <= p /\ p < call.pos BY <1>1, <1>2, <1>3, <1>4, <1>5
<1>7. writePos - readPos <= Capacity /\ cells \in [0 .. Capacity - 1 -> Nat] BY DEF Tiling, TypeOK
<1>8. PICK pos \in Nat : pos = log[i].pos BY Zenon, <1>2
<1>9. pos <= p /\ Addr(pos, p) < Capacity BY Zenon, <1>4, <1>8
<1>10. Written(ps, v)[Addr(pos, p)] = cells[Addr(pos, p)]
  BY ONLY SMTT(20), <1>1, <1>4, <1>6, <1>7, <1>9, pos \in Nat, p \in Nat, v \in Nat,
     ps \in SUBSET (call.pos .. (writePos - 1)), WriteSpares
<1>11. QED BY Zenon, <1>8, <1>10

\* The memcpy into the reserved record touches no unread record.
LEMMA CopyPreserves == ASSUME RingInv, Copy PROVE RingInv'
<1> DEFINE first == call.pos + HeaderSize
           ps == first .. (first + call.len - 1)
<1>1. TypeOK /\ Tiling /\ Contents /\ ResultsFaithful BY DEF RingInv
<1>2. /\ ppc = "copy" /\ ppc' \in {IF Layout = "fixed" THEN "pad" ELSE "commit", "dead"}
      /\ cells' = Written(ps, Id)
      /\ UNCHANGED <<writePos, readPos, log, nread, call, results, consVars>>
  BY DEF Copy
<1>3. /\ call.len \in Nat /\ call.pos \in Nat /\ writePos \in Nat /\ Id \in Nat
      /\ cells \in [0 .. Capacity - 1 -> Nat]
  BY <1>1 DEF TypeOK, Id
<1>4. InFlight /\ FitsSlot(call.len) /\ writePos = call.pos + Footprint(call.len)
  BY <1>1, <1>2 DEF Tiling, InFlight, EndOf
<1>5. /\ ps \in SUBSET Nat
      /\ ps \in SUBSET (call.pos .. (writePos - 1))
      /\ \A p \in PayloadAt(call.pos, call.len) : p \in ps <=> p < call.pos + HeaderSize + call.len
  BY <1>3, <1>4, CopyRange
<1> HIDE DEF ps
<1>6. \A p \in ps : call.pos <= p BY <1>3, <1>5, SMT
<1>7. /\ Written(ps, Id) \in [0 .. Capacity - 1 -> Nat]
      /\ \A p \in ps : Addr(call.pos, p) < Capacity => Written(ps, Id)[Addr(call.pos, p)] = Id
  BY Zenon, <1>3, <1>5, <1>6, WrittenFacts
<1>8. TypeOK' BY <1>1, <1>2, <1>7 DEF TypeOK, consVars
<1>9. Tiling' BY <1>1, <1>2 DEF Tiling, InFlight, CommitEnd, Unread, EndOf
<1>10. ResultsFaithful' BY <1>1, <1>2 DEF ResultsFaithful
<1>11. \A i \in Unread : Holds(log[i])'
  BY <1>1, <1>2, <1>3, <1>4, <1>5, UnreadUntouched DEF Contents
<1>12. Contents'
  <2>1. CASE ppc' = "pad"
    <3>1. HeaderSize = 0 BY <2>1, <1>2 DEF HeaderSize
    <3>2. \A p \in PayloadAt(call.pos, call.len) : p < call.pos + call.len => p \in ps
      BY <3>1, <1>3, <1>5
    <3>3. \A p \in PayloadAt(call.pos, call.len) :
            p < call.pos + call.len /\ Addr(call.pos, p) < Capacity => cells'[Addr(call.pos, p)] = Id
      BY Zenon, <3>2, <1>2, <1>7
    <3>4. QED BY <2>1, <3>3, <1>2, <1>11 DEF Contents, Unread, Id
  <2>2. CASE ppc' = "commit"
    <3>1. Layout # "fixed" BY <2>2, <1>2
    <3>2. \A p \in PayloadAt(call.pos, call.len) : p < call.pos + HeaderSize + call.len
      <4>1. /\ Footprint(call.len) = HeaderSize + call.len /\ HeaderSize \in Nat
        BY Zenon, <3>1, <1>3, Geometry
      <4>2. QED BY <4>1, <1>3 DEF PayloadAt
    <3>3. \A p \in PayloadAt(call.pos, call.len) :
            Addr(call.pos, p) < Capacity => cells'[Addr(call.pos, p)] = Id
      BY Zenon, <3>2, <1>2, <1>5, <1>7
    <3>4. Holds([id |-> Id, len |-> call.len, pos |-> call.pos])'
      BY <3>2, <3>3, <1>2 DEF Holds, ByteOf, Id
    <3>5. QED BY <2>2, <3>4, <1>2, <1>11 DEF Contents, Unread
  <2>3. CASE ppc' = "dead" BY <2>3, <1>2, <1>11 DEF Contents, Unread
  <2>4. QED BY <2>1, <2>2, <2>3, <1>2
<1>13. Reading' /\ DeliveredInOrder' /\ ReleasedWasHandled' BY <1>2, ReaderUntouched
<1>14. QED BY <1>8, <1>9, <1>10, <1>12, <1>13 DEF RingInv

\* Zeroing the tail of a fixed slot touches no unread record and completes the payload.
LEMMA PadPreserves == ASSUME RingInv, Pad PROVE RingInv'
<1> DEFINE ps == (call.pos + call.len) .. (call.pos + ItemSize - 1)
<1>1. TypeOK /\ Tiling /\ Contents /\ ResultsFaithful BY DEF RingInv
<1>2. /\ ppc = "pad" /\ ppc' = "commit"
      /\ cells' = Written(ps, 0)
      /\ UNCHANGED <<writePos, readPos, log, nread, call, results, consVars>>
  BY DEF Pad
<1>3. /\ call.len \in Nat /\ call.pos \in Nat /\ writePos \in Nat /\ Id \in Nat
      /\ cells \in [0 .. Capacity - 1 -> Nat]
  BY <1>1 DEF TypeOK, Id
<1>4. /\ InFlight /\ FitsSlot(call.len) /\ writePos = call.pos + Footprint(call.len)
      /\ Layout = "fixed" /\ HeaderSize = 0
  BY <1>1, <1>2 DEF Tiling, InFlight, EndOf, HeaderSize
<1>5. /\ ps \in SUBSET Nat
      /\ ps \in SUBSET (call.pos .. (writePos - 1))
      /\ \A p \in PayloadAt(call.pos, call.len) : p \in ps <=> ~(p < call.pos + call.len)
  BY <1>3, <1>4, PadRange
<1> HIDE DEF ps
<1>6. \A p \in ps : call.pos <= p BY <1>3, <1>5, SMT
<1>7. /\ Written(ps, 0) \in [0 .. Capacity - 1 -> Nat]
      /\ \A p \in ps : Addr(call.pos, p) < Capacity => Written(ps, 0)[Addr(call.pos, p)] = 0
  BY Zenon, <1>3, <1>5, <1>6, WrittenFacts
<1>8. TypeOK' BY <1>1, <1>2, <1>7 DEF TypeOK, consVars
<1>9. Tiling' BY <1>1, <1>2 DEF Tiling, InFlight, CommitEnd, Unread, EndOf
<1>10. ResultsFaithful' BY <1>1, <1>2 DEF ResultsFaithful
<1>11. \A i \in Unread : Holds(log[i])'
  BY <1>1, <1>2, <1>3, <1>4, <1>5, UnreadUntouched DEF Contents
<1>12. Holds([id |-> Id, len |-> call.len, pos |-> call.pos])'
  <2> SUFFICES ASSUME NEW p \in PayloadAt(call.pos, call.len), Addr(call.pos, p) < Capacity
               PROVE  cells'[Addr(call.pos, p)] = IF p < call.pos + call.len THEN Id ELSE 0
    BY <1>2, <1>3, <1>4 DEF Holds, ByteOf, Id
  <2>1. CASE p < call.pos + call.len
    <3>1. cells[Addr(call.pos, p)] = Id BY <1>1, <1>2, <2>1 DEF Contents
    <3>2. p \in Nat /\ call.pos <= p BY <1>3, PayloadInside
    <3>3. ASSUME NEW q \in ps PROVE Addr(call.pos, q) # Addr(call.pos, p)
      <4>1. q \in (call.pos + call.len) .. (call.pos + ItemSize - 1) BY DEF ps
      <4>2. q \in Nat /\ p < q BY <4>1, <2>1, <3>2, <1>3, SizeAssumption
      <4>3. Phys(call.pos) \in Int BY <1>3, SizeAssumption DEF Phys
      <4>4. QED BY <4>2, <4>3, <3>2, <1>3 DEF Addr
    <3>4. Addr(call.pos, p) \in 0 .. Capacity - 1 BY <3>2, <1>3, AddrInside
    <3>5. QED BY <2>1, <3>1, <3>3, <3>4, <1>2 DEF Written
  <2>2. CASE ~(p < call.pos + call.len) BY Zenon, <2>2, <1>2, <1>5, <1>7
  <2>3. QED BY <2>1, <2>2
<1>13. Contents' BY <1>2, <1>11, <1>12 DEF Contents, Unread
<1>14. Reading' /\ DeliveredInOrder' /\ ReleasedWasHandled' BY <1>2, ReaderUntouched
<1>15. QED BY <1>8, <1>9, <1>10, <1>13, <1>14 DEF RingInv

\* commit() adds the record just filled to the unread ones.
LEMMA CommitPreserves == ASSUME RingInv, Commit PROVE RingInv'
<1> DEFINE rec == [id |-> Id, len |-> call.len, pos |-> call.pos]
           n == Len(log)
<1>1. /\ TypeOK /\ Tiling /\ Contents /\ Reading
      /\ ResultsFaithful /\ DeliveredInOrder /\ ReleasedWasHandled
  BY DEF RingInv
<1>2. /\ ppc = "commit" /\ ppc' = "idle"
      /\ log' = Append(log, rec)
      /\ results' = Append(results, "ok")
      /\ call' = [call EXCEPT !.name = "none"]
      /\ UNCHANGED <<cells, writePos, readPos, nread, cpc, delivered, faults>>
  BY DEF Commit, Return, consVars
<1>3. /\ call.len \in Nat /\ call.pos \in Nat /\ Id \in Nat /\ nread \in Nat
      /\ rec \in Records
      /\ n \in Nat /\ Len(results) \in Nat /\ Id = Len(results) + 1
  BY <1>1 DEF TypeOK, Id, Records
<1>4. /\ log' \in Seq(Records) /\ Len(log') = n + 1
      /\ \A i \in 1 .. n : log'[i] = log[i]
      /\ log'[n + 1] = rec
  BY <1>1, <1>2, <1>3, AppendFacts DEF TypeOK
<1>5. /\ results' \in Seq(Results) /\ Len(results') = Id
      /\ \A i \in 1 .. Len(results) : results'[i] = results[i]
      /\ results'[Id] = "ok"
  <2>1. results \in Seq(Results) /\ "ok" \in Results BY <1>1 DEF TypeOK, Results
  <2>2. QED BY <2>1, <1>2, <1>3, AppendFacts
<1>6. rec.len = call.len /\ rec.pos = call.pos /\ rec.id = Id OBVIOUS
<1> HIDE DEF rec
<1>7. TypeOK'
  <2>1. call' \in [name : Calls \cup {"none"}, len : Nat, pos : Nat] BY Zenon, <1>1, <1>2 DEF TypeOK
  <2>2. QED BY <1>1, <1>2, <1>4, <1>5, <2>1 DEF TypeOK
<1>8. Tiling'
  <2>1. EndOf(rec) = writePos /\ FitsSlot(rec.len) /\ readPos <= rec.pos
    BY <1>1, <1>2, <1>6 DEF Tiling, InFlight, EndOf
  <2>2. CommitEnd' = writePos /\ CommitEnd = rec.pos /\ ~InFlight'
    BY <1>2, <1>6 DEF CommitEnd, InFlight
  <2>3. rec.pos <= writePos
    <3>1. Footprint(rec.len) \in Nat BY Zenon, <1>3, <1>6, Geometry
    <3>2. QED BY <2>1, <3>1, <1>3, <1>6 DEF EndOf
  <2>4. \A i \in Unread' : i \in Unread \/ i = n + 1 BY <1>3, <1>4, <1>2 DEF Unread
  <2>5. \A i \in Unread : i \in 1 .. n /\ log'[i] = log[i] BY <1>3, <1>4 DEF Unread
  <2>6. nread' <= Len(log') /\ nread' # Len(log') /\ writePos' = writePos /\ readPos' = readPos
    BY <1>1, <1>2, <1>3, <1>4 DEF Tiling
  <2>7. \A i \in 1 .. Len(log') : FitsSlot(log'[i].len) /\ Aligned(log'[i].pos)
    BY <1>1, <1>3, <1>4, <1>6, <2>1 DEF Tiling
  <2>8. log'[nread' + 1].pos = readPos' /\ EndOf(log'[Len(log')]) = CommitEnd'
    <3>1. CASE nread = n BY <3>1, <2>1, <2>2, <1>1, <1>2, <1>4, <1>6 DEF Tiling
    <3>2. CASE nread < n BY <3>2, <2>1, <2>2, <1>1, <1>2, <1>3, <1>4 DEF Tiling
    <3>3. QED BY <3>1, <3>2, <1>1, <1>3 DEF Tiling
  <2>9. \A i \in Unread' : readPos <= log'[i].pos /\ EndOf(log'[i]) <= CommitEnd'
    <3>1. ASSUME NEW i \in Unread PROVE readPos <= log'[i].pos /\ EndOf(log'[i]) <= CommitEnd'
      <4>1. EndOf(log[i]) <= rec.pos /\ readPos <= log[i].pos BY <1>1, <2>2 DEF Tiling
      <4>2. EndOf(log[i]) \in Int
        <5>1. log[i].pos \in Nat /\ log[i].len \in Nat
          BY <1>1, <2>5, LogFields DEF TypeOK
        <5>2. QED BY <5>1, Geometry DEF EndOf
      <4>3. rec.pos \in Nat /\ writePos \in Nat BY <1>1, <1>3, <1>6 DEF TypeOK
      <4>4. QED BY <4>1, <4>2, <4>3, <2>2, <2>3, <2>5
    <3>2. readPos <= log'[n + 1].pos /\ EndOf(log'[n + 1]) <= CommitEnd'
      <4>1. writePos \in Nat BY <1>1 DEF TypeOK
      <4>2. QED BY <4>1, <1>4, <2>1, <2>2
    <3>3. QED BY <3>1, <3>2, <2>4
  <2>10. \A i, j \in Unread' : j = i + 1 => EndOf(log'[i]) = log'[j].pos
    <3> SUFFICES ASSUME NEW i \in Unread', NEW j \in Unread', j = i + 1
                 PROVE  EndOf(log'[i]) = log'[j].pos
      OBVIOUS
    <3>1. CASE j \in Unread
      <4>1. i \in Unread BY <3>1, <1>2, <1>3, <1>4 DEF Unread
      <4>2. QED BY <4>1, <3>1, <2>5, <1>1 DEF Tiling
    <3>2. CASE j = n + 1
      <4>1. i = n /\ n \in Unread /\ nread < n BY <3>2, <1>2, <1>3, <1>4 DEF Unread
      <4>2. EndOf(log[n]) = rec.pos BY <4>1, <2>2, <1>1 DEF Tiling
      <4>3. QED BY <4>1, <4>2, <3>2, <2>5, <1>4
    <3>3. QED BY <3>1, <3>2, <2>4
  <2>11. \A i, j \in Unread' : i < j => EndOf(log'[i]) <= log'[j].pos
    <3> SUFFICES ASSUME NEW i \in Unread', NEW j \in Unread', i < j
                 PROVE  EndOf(log'[i]) <= log'[j].pos
      OBVIOUS
    <3>0. i \in Unread BY <1>2, <1>3, <1>4 DEF Unread
    <3>1. CASE j \in Unread BY <3>0, <3>1, <2>5, <1>1 DEF Tiling
    <3>2. CASE j = n + 1 BY <3>0, <3>2, <2>2, <2>5, <1>1, <1>4 DEF Tiling
    <3>3. QED BY <3>1, <3>2, <2>4
  <2>12. Aligned(writePos)' /\ Aligned(call.pos)' /\ Aligned(writePos) /\ Aligned(call.pos)
    BY <1>1, <1>2 DEF Tiling, TypeOK
  <2>13. QED
    BY Zenon, <1>2, <2>2, <2>6, <2>7, <2>8, <2>9, <2>10, <2>11, <2>12, <1>1
    DEF Tiling, EndOf, InFlight
<1>9. Contents'
  <2>1. ASSUME NEW i \in Unread' PROVE Holds(log'[i])
    <3>1. CASE i \in Unread BY <3>1, <1>1, <1>3, <1>4 DEF Contents, Unread
    <3>2. CASE i = n + 1 BY <3>2, <1>1, <1>2, <1>4 DEF Contents, rec
    <3>3. QED BY <3>1, <3>2, <1>2, <1>3, <1>4 DEF Unread
  <2>2. QED BY Zenon, <2>1, <1>2 DEF Contents, Holds
<1>10. Reading'
  <2>1. LastHandled' = LastHandled BY <1>2 DEF LastHandled
  <2>2. LastHandled \in {nread, nread + 1} /\ LastHandled <= n BY <1>1 DEF Reading
  <2>3. LastHandled <= n + 1 BY <2>2, <1>3
  <2>4. (cpc' # "idle" => nread < n + 1) BY <1>1, <1>2, <1>3 DEF Reading
  <2>5. QED BY <1>1, <1>2, <1>4, <2>1, <2>3, <2>4 DEF Reading
<1>11. DeliveredInOrder'
  <2>1. \A i \in 1 .. Len(delivered) : delivered[i] \in Nat BY <1>1 DEF TypeOK
  <2>2. \A i \in 1 .. Len(delivered) : delivered[i] \in 1 .. (n + 1)
    BY <1>1, <1>3, <2>1 DEF DeliveredInOrder
  <2>3. QED BY <1>1, <1>2, <1>4, <2>2 DEF DeliveredInOrder
<1>12. ReleasedWasHandled' BY <1>1, <1>2 DEF ReleasedWasHandled
<1>13. ResultsFaithful'
  <2>1. \A j \in 1 .. n : log[j].id \in 1 .. Len(results) BY <1>1 DEF ResultsFaithful
  <2>2. \A i \in 1 .. Len(results') : results'[i] = "ok" <=> \E j \in 1 .. Len(log') : log'[j].id = i
    <3> SUFFICES ASSUME NEW i \in 1 .. Len(results')
                 PROVE  results'[i] = "ok" <=> \E j \in 1 .. Len(log') : log'[j].id = i
      OBVIOUS
    <3>1. CASE i = Id BY <3>1, <1>3, <1>4, <1>5, <1>6
    <3>2. CASE i \in 1 .. Len(results)
      <4>1. results'[i] = results[i] BY <3>2, <1>5
      <4>2. log'[n + 1].id # i BY <3>2, <1>3, <1>4, <1>6
      <4>3. (\E j \in 1 .. Len(log') : log'[j].id = i) <=> (\E j \in 1 .. n : log[j].id = i)
        <5>1. ASSUME NEW j \in 1 .. Len(log'), log'[j].id = i PROVE j \in 1 .. n /\ log[j].id = i
          BY <5>1, <4>2, <1>3, <1>4
        <5>2. ASSUME NEW j \in 1 .. n, log[j].id = i PROVE j \in 1 .. Len(log') /\ log'[j].id = i
          BY <5>2, <1>3, <1>4
        <5>3. QED BY <5>1, <5>2
      <4>4. QED BY <4>1, <4>3, <3>2, <1>1 DEF ResultsFaithful
    <3>3. QED BY <3>1, <3>2, <1>3, <1>5
  <2>3. ASSUME NEW j \in 1 .. Len(log') PROVE log'[j].id \in 1 .. Len(results')
    <3>1. CASE j \in 1 .. n
      <4>1. log'[j] = log[j] BY Zenon, <3>1, <1>4
      <4>2. QED BY <4>1, <3>1, <2>1, <1>3, <1>5
    <3>2. CASE j = n + 1 BY <3>2, <1>3, <1>4, <1>5, <1>6
    <3>3. QED BY <3>1, <3>2, <1>3, <1>4
  <2>4. \A j, k \in 1 .. Len(log') : j < k => log'[j].id < log'[k].id
    <3> SUFFICES ASSUME NEW j \in 1 .. Len(log'), NEW k \in 1 .. Len(log'), j < k
                 PROVE  log'[j].id < log'[k].id
      OBVIOUS
    <3>1. j \in 1 .. n BY <1>3, <1>4
    <3>2. CASE k \in 1 .. n BY <3>1, <3>2, <1>1, <1>4 DEF ResultsFaithful
    <3>3. CASE k = n + 1 BY <3>1, <3>3, <2>1, <1>3, <1>4, <1>6
    <3>4. QED BY <3>2, <3>3, <1>3, <1>4
  <2>5. QED BY <2>2, <2>3, <2>4 DEF ResultsFaithful
<1>14. QED BY <1>7, <1>8, <1>9, <1>10, <1>11, <1>12, <1>13 DEF RingInv

-----------------------------------------------------------------------------
(* The consumer's steps preserve it.                                       *)

\* A step that changes neither the ring nor the producer.
LEMMA RingUntouched ==
  ASSUME RingInv, UNCHANGED <<ringVars, prodVars>>
  PROVE  Tiling' /\ Contents' /\ ResultsFaithful'
<1>1. Tiling' BY DEF RingInv, ringVars, prodVars, Tiling, InFlight, CommitEnd, Unread, EndOf
<1>2. Contents' BY DEF RingInv, ringVars, prodVars, Contents, Unread, Holds, Id
<1>3. ResultsFaithful' BY DEF RingInv, ringVars, prodVars, ResultsFaithful
<1>4. QED BY <1>1, <1>2, <1>3

\* try_read gives the handler the oldest unread record.
LEMMA TryReadPreserves == ASSUME RingInv, TryRead PROVE RingInv'
<1> USE DEF TryRead
<1>1. Tiling' /\ Contents' /\ ResultsFaithful' BY RingUntouched
<1>2. TypeOK' BY DEF RingInv, TypeOK, ringVars, prodVars
<1>3. Reading' BY DEF RingInv, Reading, LastHandled, ringVars, prodVars
<1>4. DeliveredInOrder' BY DEF RingInv, DeliveredInOrder, ringVars
<1>5. ReleasedWasHandled' BY DEF RingInv, ReleasedWasHandled, ringVars
<1>6. QED BY <1>1, <1>2, <1>3, <1>4, <1>5 DEF RingInv

\* A handler that throws and a consumer that dies both leave poll() without releasing the slot.
LEMMA AbandonPreserves ==
  ASSUME RingInv, HandlerThrows \/ ConsumerCrash
  PROVE  RingInv'
<1>1. /\ cpc \in {"handler", "advance"} /\ cpc' = "idle" /\ faults' = faults + 1
      /\ UNCHANGED <<ringVars, prodVars, delivered>>
  BY DEF HandlerThrows, ConsumerCrash
<1>2. Tiling' /\ Contents' /\ ResultsFaithful' BY <1>1, RingUntouched
<1>3. faults \in Nat /\ faults' \in Nat /\ faults' > 0 BY <1>1 DEF RingInv, TypeOK
<1>4. TypeOK' BY <1>1, <1>3 DEF RingInv, TypeOK, ringVars, prodVars
<1>5. Reading' BY <1>1, <1>3 DEF RingInv, Reading, LastHandled, ringVars
<1>6. DeliveredInOrder' BY <1>1, <1>3 DEF RingInv, DeliveredInOrder, ringVars
<1>7. ReleasedWasHandled' BY <1>1 DEF RingInv, ReleasedWasHandled, ringVars
<1>8. QED BY <1>2, <1>4, <1>5, <1>6, <1>7 DEF RingInv

\* A handler that returned has handled the oldest unread record.
LEMMA HandlerReturnsPreserves == ASSUME RingInv, HandlerReturns PROVE RingInv'
<1> DEFINE d == Len(delivered)
<1>1. TypeOK /\ Tiling /\ Reading /\ DeliveredInOrder /\ ReleasedWasHandled BY DEF RingInv
<1>2. /\ cpc = "handler" /\ cpc' = "advance" /\ delivered' = Append(delivered, nread + 1)
      /\ UNCHANGED <<ringVars, prodVars, faults>>
  BY DEF HandlerReturns
<1>3. Tiling' /\ Contents' /\ ResultsFaithful' BY <1>2, RingUntouched
<1>4. /\ delivered \in Seq(Nat) /\ nread \in Nat /\ d \in Nat /\ Len(log) \in Nat
      /\ nread < Len(log)
  BY <1>1, <1>2 DEF TypeOK, Reading
<1>5. /\ delivered' \in Seq(Nat) /\ Len(delivered') = d + 1
      /\ \A i \in 1 .. d : delivered'[i] = delivered[i]
      /\ delivered'[d + 1] = nread + 1
  BY <1>2, <1>4, AppendFacts
<1>6. log' = log /\ nread' = nread BY <1>2 DEF ringVars
<1>7. TypeOK' BY <1>1, <1>2, <1>5 DEF TypeOK, ringVars, prodVars
<1>8. LastHandled' = nread + 1
  <2>1. delivered' # << >> BY <1>4, <1>5
  <2>2. QED BY <2>1, <1>5 DEF LastHandled
<1>9. Reading' BY <1>2, <1>4, <1>6, <1>8 DEF Reading
<1>10. DeliveredInOrder'
  <2> SUFFICES ASSUME NEW i \in 1 .. (d + 1)
               PROVE  LET previous == IF i = 1 THEN 0 ELSE delivered'[i - 1]
                      IN  /\ \/ delivered'[i] = previous + 1
                             \/ faults > 0 /\ i > 1 /\ delivered'[i] = previous
                          /\ delivered'[i] \in 1 .. Len(log)
    BY Zenon, <1>2, <1>5, <1>6 DEF DeliveredInOrder
  <2>1. CASE i \in 1 .. d
    <3>1. delivered'[i] = delivered[i] /\ (i # 1 => delivered'[i - 1] = delivered[i - 1])
      <4>1. i # 1 => (i - 1) \in 1 .. d BY <2>1, <1>4
      <4>2. QED BY <4>1, <2>1, <1>5
    <3>2. QED BY <2>1, <3>1, <1>1 DEF DeliveredInOrder
  <2>2. CASE i = d + 1
    <3>1. delivered'[i] = nread + 1 /\ delivered'[i] \in 1 .. Len(log) BY <2>2, <1>4, <1>5
    <3>2. (IF i = 1 THEN 0 ELSE delivered'[i - 1]) = LastHandled
      <4>1. CASE d = 0 BY <4>1, <2>2, <1>4 DEF LastHandled
      <4>2. CASE d # 0
        <5>1. delivered # << >> /\ i # 1 /\ i - 1 = d /\ d \in 1 .. d BY <4>2, <2>2, <1>4
        <5>2. QED BY <5>1, <1>5 DEF LastHandled
      <4>3. QED BY <4>1, <4>2
    <3>3. CASE LastHandled = nread BY <3>1, <3>2, <3>3
    <3>4. CASE LastHandled = nread + 1
      <4>1. faults > 0 BY <3>4, <1>1, <1>2 DEF Reading
      <4>2. i > 1
        <5>1. d # 0 BY <3>4, <1>4 DEF LastHandled
        <5>2. QED BY <5>1, <2>2, <1>4
      <4>3. QED BY <3>1, <3>2, <3>4, <4>1, <4>2
    <3>5. QED BY <3>3, <3>4, <1>1 DEF Reading
  <2>3. QED BY <2>1, <2>2, <1>4
<1>11. ReleasedWasHandled'
  <2> SUFFICES ASSUME NEW i \in 1 .. nread
               PROVE  \E k \in 1 .. (d + 1) : delivered'[k] = i
    BY <1>5, <1>6 DEF ReleasedWasHandled
  <2>1. PICK k \in 1 .. d : delivered[k] = i BY <1>1 DEF ReleasedWasHandled
  <2>2. k \in 1 .. (d + 1) BY <2>1, <1>4
  <2>3. delivered'[k] = i BY Zenon, <2>1, <1>5
  <2>4. QED BY Zenon, <2>2, <2>3
<1>12. QED BY <1>3, <1>7, <1>9, <1>10, <1>11 DEF RingInv

\* read_advance releases exactly the record that was handled.
LEMMA ReadAdvancePreserves == ASSUME RingInv, ReadAdvance PROVE RingInv'
<1> DEFINE r == log[nread + 1]
           n == Len(log)
<1>1. /\ TypeOK /\ Tiling /\ Contents /\ Reading
      /\ ResultsFaithful /\ DeliveredInOrder /\ ReleasedWasHandled
  BY DEF RingInv
<1>2. /\ cpc = "advance" /\ cpc' = "idle"
      /\ readPos' = readPos + Footprint(r.len) /\ nread' = nread + 1
      /\ UNCHANGED <<cells, writePos, log, ppc, call, results, delivered, faults>>
  BY DEF ReadAdvance, prodVars
<1>3. /\ nread \in Nat /\ n \in Nat /\ nread < n /\ readPos \in Nat /\ writePos \in Nat
      /\ call.pos \in Nat /\ call.len \in Nat /\ log \in Seq(Records)
  BY <1>1, <1>2 DEF TypeOK, Reading
<1>4. \A i \in 1 .. n : log[i].pos \in Nat /\ log[i].len \in Nat BY <1>3, LogFields
<1>5. nread + 1 \in 1 .. n /\ nread + 1 \in Unread BY <1>3 DEF Unread
<1>6. r.pos = readPos /\ r.len \in Nat /\ Footprint(r.len) \in Nat
  BY Zenon, <1>1, <1>3, <1>4, <1>5, Geometry DEF Tiling
<1>7. readPos' = EndOf(r) BY <1>2, <1>6 DEF EndOf
<1>8. \A i \in Unread' : i \in Unread /\ i # nread + 1 /\ nread + 1 < i BY <1>2, <1>3 DEF Unread
<1>9. CommitEnd' = CommitEnd /\ (InFlight' <=> InFlight) BY <1>2 DEF CommitEnd, InFlight
<1>10. EndOf(r) <= CommitEnd /\ CommitEnd \in Nat /\ CommitEnd <= writePos
  <2>0. EndOf(r) <= CommitEnd BY Zenon, <1>1, <1>5 DEF Tiling
  <2>1. CASE InFlight
    <3>1. Footprint(call.len) \in Nat BY Zenon, <1>3, Geometry
    <3>2. EndOf(call) = writePos BY <2>1, <1>1 DEF Tiling
    <3>3. CommitEnd = call.pos BY <2>1 DEF CommitEnd
    <3>4. QED BY <2>0, <3>1, <3>2, <3>3, <1>3 DEF EndOf
  <2>2. CASE ~InFlight
    <3>1. CommitEnd = writePos BY <2>2 DEF CommitEnd
    <3>2. QED BY <2>0, <3>1, <1>3
  <2>3. QED BY <2>1, <2>2
<1> HIDE DEF r
<1>11. TypeOK' BY <1>1, <1>2, <1>3, <1>6 DEF TypeOK
<1>12. Tiling'
  <2>1. /\ nread' <= Len(log)' /\ readPos' <= writePos' /\ writePos' - readPos' <= Capacity
    <3>1. writePos - readPos <= Capacity BY <1>1 DEF Tiling
    <3>2. readPos' \in Nat /\ readPos' >= readPos BY <1>2, <1>3, <1>6
    <3>3. readPos' <= writePos BY <3>2, <1>3, <1>7, <1>10
    <3>4. QED BY <3>1, <3>2, <3>3, <1>2, <1>3, SizeAssumption
  <2>2. InFlight' => readPos' <= call'.pos /\ EndOf(call') = writePos'
    <3> SUFFICES ASSUME InFlight PROVE EndOf(r) <= call.pos /\ EndOf(call) = writePos
      BY <1>2, <1>7, <1>9
    <3>1. CommitEnd = call.pos BY DEF CommitEnd
    <3>2. EndOf(r) <= call.pos BY <3>1, <1>10
    <3>3. QED BY <3>2, <1>1 DEF Tiling
  <2>3. nread' = Len(log') => readPos' = CommitEnd'
    <3> SUFFICES ASSUME nread + 1 = n PROVE EndOf(r) = CommitEnd BY <1>2, <1>7, <1>9
    <3>1. EndOf(log[n]) = CommitEnd BY <1>1, <1>3 DEF Tiling
    <3>2. QED BY <3>1 DEF r
  <2>4. nread' < Len(log') => log'[nread' + 1].pos = readPos' /\ EndOf(log'[Len(log')]) = CommitEnd'
    <3> SUFFICES ASSUME nread + 1 < n
                 PROVE  log[nread + 2].pos = EndOf(r) /\ EndOf(log[n]) = CommitEnd
      BY <1>2, <1>3, <1>7, <1>9
    <3>1. nread + 2 \in Unread /\ nread + 2 = (nread + 1) + 1 BY <1>3 DEF Unread
    <3>2. EndOf(log[nread + 1]) = log[nread + 2].pos BY <3>1, <1>1, <1>5 DEF Tiling
    <3>3. QED BY <3>2, <1>1, <1>3 DEF Tiling, r
  <2>5. \A i \in Unread' : readPos' <= log'[i].pos /\ EndOf(log'[i]) <= CommitEnd'
    BY <1>1, <1>2, <1>5, <1>7, <1>8, <1>9 DEF Tiling, r
  <2>6. \A i, j \in Unread' : /\ j = i + 1 => EndOf(log'[i]) = log'[j].pos
                              /\ i < j => EndOf(log'[i]) <= log'[j].pos
    BY <1>1, <1>2, <1>8 DEF Tiling
  <2>7. QED BY <1>1, <1>2, <2>1, <2>2, <2>3, <2>4, <2>5, <2>6 DEF Tiling, EndOf, InFlight
<1>13. Contents' BY <1>1, <1>2, <1>8 DEF Contents, Holds, Id
<1>14. Reading'
  <2>1. LastHandled' = LastHandled /\ LastHandled = nread + 1
    BY <1>1, <1>2 DEF LastHandled, Reading
  <2>2. QED BY <2>1, <1>2, <1>3 DEF Reading
<1>15. DeliveredInOrder' BY <1>1, <1>2 DEF DeliveredInOrder
<1>16. ResultsFaithful' BY <1>1, <1>2 DEF ResultsFaithful
<1>17. ReleasedWasHandled'
  <2>1. LastHandled = nread + 1 BY <1>1, <1>2 DEF Reading
  <2>2. /\ Len(delivered) \in 1 .. Len(delivered) /\ delivered[Len(delivered)] = nread + 1
    <3>1. delivered # << >> BY <2>1, <1>3 DEF LastHandled
    <3>2. delivered \in Seq(Nat) BY <1>1 DEF TypeOK
    <3>3. QED BY <3>1, <3>2, <2>1 DEF LastHandled
  <2>3. \A i \in 1 .. (nread + 1) : i \in 1 .. nread \/ i = nread + 1 BY <1>3
  <2>4. QED BY <2>2, <2>3, <1>1, <1>2 DEF ReleasedWasHandled
<1>18. QED BY <1>11, <1>12, <1>13, <1>14, <1>15, <1>16, <1>17 DEF RingInv

-----------------------------------------------------------------------------
(* The theorems.                                                           *)

\* Every reachable state satisfies the inductive invariant.
THEOREM RingInvariant == Spec => []RingInv
<1>1. Init => RingInv BY InitEstablishes
<1>2. RingInv /\ [Next]_vars => RingInv'
  <2> SUFFICES ASSUME RingInv, [Next]_vars PROVE RingInv' OBVIOUS
  <2>1. CASE \E name \in Calls, len \in Lens : Call(name, len) BY <2>1, CallPreserves
  <2>2. CASE Reserve BY <2>2, ReservePreserves
  <2>3. CASE ReserveFails BY <2>3, ReserveFailsPreserves
  <2>4. CASE Copy BY <2>4, CopyPreserves
  <2>5. CASE Pad BY <2>5, PadPreserves
  <2>6. CASE Commit BY <2>6, CommitPreserves
  <2>7. CASE TryRead BY <2>7, TryReadPreserves
  <2>8. CASE HandlerReturns BY <2>8, HandlerReturnsPreserves
  <2>9. CASE HandlerThrows \/ ConsumerCrash BY <2>9, AbandonPreserves
  <2>10. CASE ReadAdvance BY <2>10, ReadAdvancePreserves
  <2>11. CASE UNCHANGED vars
    <3>1. UNCHANGED <<ringVars, prodVars, consVars>> BY <2>11 DEF vars
    <3>2. Tiling' /\ Contents' /\ ResultsFaithful' BY <3>1, RingUntouched
    <3>3. Reading' /\ DeliveredInOrder' /\ ReleasedWasHandled' BY <3>1, ReaderUntouched DEF ringVars
    <3>4. TypeOK' BY <3>1 DEF RingInv, TypeOK, ringVars, prodVars, consVars
    <3>5. QED BY <3>2, <3>3, <3>4 DEF RingInv
  <2>12. QED
    BY <2>1, <2>2, <2>3, <2>4, <2>5, <2>6, <2>7, <2>8, <2>9, <2>10, <2>11
    DEF Next, Producer, Consumer
<1>3. QED BY <1>1, <1>2, PTL DEF Spec

\* Type correctness.
THEOREM TypeCorrect == Spec => []TypeOK
  BY RingInvariant, PTL DEF RingInv

\* The slot poll() lends to the handler holds exactly its message as far as it lies
\* inside the data area, and a fixed slot lies inside it altogether, whatever the
\* capacity, the item size and the payload lengths.
THEOREM PayloadIntegrity == Spec => []BorrowedPayloadIntact
<1>1. RingInv => BorrowedPayloadIntact
  <2> SUFFICES ASSUME RingInv, cpc = "handler"
               PROVE  /\ Holds(log[nread + 1])
                      /\ Layout = "fixed" => ~Spans(log[nread + 1])
    BY DEF BorrowedPayloadIntact
  <2>1. nread < Len(log) /\ nread \in Nat /\ Len(log) \in Nat BY DEF RingInv, Reading, TypeOK
  <2>2. nread + 1 \in Unread BY <2>1 DEF Unread
  <2>3. Holds(log[nread + 1]) BY <2>2 DEF RingInv, Contents
  <2>4. ASSUME Layout = "fixed" PROVE ~Spans(log[nread + 1])
    <3>1. nread + 1 \in 1 .. Len(log) BY <2>1
    <3>2. log[nread + 1].pos \in Nat /\ log[nread + 1].len \in Nat
      BY <3>1, LogFields DEF RingInv, TypeOK
    <3>3. Aligned(log[nread + 1].pos) BY <3>1 DEF RingInv, Tiling
    <3>4. Footprint(log[nread + 1].len) = ItemSize
      BY <2>4, SizeAssumption DEF Footprint, HeaderSize, PayloadSize
    <3>5. Phys(log[nread + 1].pos) + ItemSize <= Capacity BY <2>4, <3>2, <3>3, SlotInside
    <3>6. Phys(log[nread + 1].pos) \in Int BY <3>2, SizeAssumption DEF Phys
    <3>7. QED BY <3>4, <3>5, <3>6, SizeAssumption DEF Spans
  <2>5. QED BY <2>3, <2>4
<1>2. QED BY <1>1, RingInvariant, PTL

\* ok means published, anything else means never published, in call order.
THEOREM ResultsAreFaithful == Spec => []ResultsFaithful
  BY RingInvariant, PTL DEF RingInv

\* No slot is released before a handler returned for it.
THEOREM NothingReleasedUnhandled == Spec => []ReleasedWasHandled
  BY RingInvariant, PTL DEF RingInv

\* The guards keep the model inside its bounds.
LEMMA BoundsRespected == Spec => []Bounded
<1>1. Init => Bounded BY BoundAssumption DEF Init, Bounded
<1>2. RingInv /\ Bounded /\ [Next]_vars => Bounded'
  <2> SUFFICES ASSUME TypeOK, Bounded, [Next]_vars PROVE Bounded' BY DEF RingInv
  <2>1. faults \in Nat /\ MaxFaults \in Nat BY BoundAssumption DEF TypeOK
  <2>2. faults' <= MaxFaults
    BY <2>1 DEF Bounded, Next, Producer, Consumer, Call, Reserve, ReserveFails, Copy, Pad, Commit,
      TryRead, HandlerReturns, HandlerThrows, ReadAdvance, ConsumerCrash, vars, consVars
  <2>3. ppc' # "idle" => Len(results') < MaxCalls
    BY DEF Bounded, Next, Producer, Consumer, Call, Reserve, ReserveFails, Copy, Pad, Commit, Return,
      TryRead, HandlerReturns, HandlerThrows, ReadAdvance, ConsumerCrash, vars, prodVars
  <2>4. QED BY <2>2, <2>3 DEF Bounded
<1>3. QED BY <1>1, <1>2, RingInvariant, PTL DEF Spec

Accepted == [i \in 1 .. Len(log) |-> log[i].id]
Handed == [i \in 1 .. Len(delivered) |-> log[delivered[i]].id]

\* The channel implements the delivery contract: every step hands over the next
\* message, repeats the last one after a fault, accepts one, or is invisible.
THEOREM ChannelImplementsContract == Spec => ImplementsContract
<1>1. Init => Contract!CInit
  BY DEF Init, Contract!CInit, LastHandled
<1>2. RingInv /\ Bounded /\ [Next]_vars => [Contract!CNext]_(Contract!cvars)
  <2> SUFFICES ASSUME RingInv, Bounded, [Next]_vars
               PROVE  Contract!CNext \/ UNCHANGED <<Accepted, LastHandled, Handed>>
    BY DEF Contract!cvars, Accepted, Handed
  <2>0. /\ TypeOK /\ Reading /\ DeliveredInOrder
    BY DEF RingInv
  <2>1. CASE UNCHANGED <<log, delivered>>
    BY <2>1 DEF Accepted, Handed, LastHandled
  <2>2. CASE Commit
    <3>1. /\ log' = Append(log, [id |-> Id, len |-> call.len, pos |-> call.pos])
          /\ delivered' = delivered /\ ppc = "commit"
      BY <2>2 DEF Commit, consVars
    <3>2. /\ log \in Seq(Records) /\ [id |-> Id, len |-> call.len, pos |-> call.pos] \in Records
          /\ Len(log) \in Nat /\ Id \in Nat /\ Len(results) \in Nat
      BY <2>0 DEF TypeOK, Records, Id
    <3>3. /\ Len(log') = Len(log) + 1
          /\ \A i \in 1 .. Len(log) : log'[i] = log[i]
          /\ log'[Len(log) + 1].id = Id
      BY <3>1, <3>2, AppendFacts
    <3>4. Id \in 1 .. MaxCalls BY <3>1, <3>2, BoundAssumption DEF Bounded, Id
    <3>5. Accepted' = Append(Accepted, Id)
      <4>1. Accepted \in Seq(Nat) /\ Len(Accepted) = Len(log)
        <5>1. \A i \in 1 .. Len(log) : log[i].id \in Nat BY <3>2, LogFields
        <5>2. QED BY <5>1, <3>2 DEF Accepted
      <4>2. QED BY <4>1, <3>2, <3>3 DEF Accepted
    <3>6. LastHandled' = LastHandled BY <3>1 DEF LastHandled
    <3>7. Handed' = Handed
      <4>1. \A i \in 1 .. Len(delivered) : log'[delivered[i]] = log[delivered[i]]
        BY <3>3, <2>0 DEF DeliveredInOrder
      <4>2. QED BY Zenon, <4>1, <3>1 DEF Handed
    <3>8. Contract!Accept BY Zenon, <3>4, <3>5, <3>6, <3>7 DEF Contract!Accept, Accepted, Handed
    <3>9. QED BY <3>8 DEF Contract!CNext
  <2>3. CASE HandlerReturns
    <3> DEFINE d == Len(delivered)
    <3>1. /\ delivered' = Append(delivered, nread + 1) /\ log' = log /\ cpc = "handler"
      BY <2>3 DEF HandlerReturns, ringVars
    <3>2. /\ delivered \in Seq(Nat) /\ nread \in Nat /\ d \in Nat /\ Len(log) \in Nat
          /\ log \in Seq(Records) /\ nread < Len(log)
      BY <2>0, <3>1 DEF TypeOK, Reading
    <3>3. /\ Len(delivered') = d + 1
          /\ \A i \in 1 .. d : delivered'[i] = delivered[i]
          /\ delivered'[d + 1] = nread + 1
      BY <3>1, <3>2, AppendFacts
    <3>4. LastHandled' = nread + 1
      <4>1. delivered' # << >> BY <3>2, <3>3
      <4>2. QED BY <4>1, <3>3 DEF LastHandled
    <3>5. Accepted' = Accepted /\ Accepted[nread + 1] = log[nread + 1].id /\ Len(Accepted) = Len(log)
      BY <3>1, <3>2 DEF Accepted
    <3>6. Handed' = Append(Handed, log[nread + 1].id)
      <4>1. \A i \in 1 .. Len(log) : log[i].id \in Nat BY <3>2, LogFields
      <4>2. \A i \in 1 .. d : delivered[i] \in 1 .. Len(log) BY <2>0 DEF DeliveredInOrder
      <4>3. Handed \in Seq(Nat) /\ Len(Handed) = d BY <4>1, <4>2, <3>2 DEF Handed
      <4>4. QED BY <4>3, <3>1, <3>2, <3>3 DEF Handed
    <3>7. CASE LastHandled = nread
      <4>1. nread + 1 \in (LastHandled + 1) .. Len(Accepted) BY <3>2, <3>5, <3>7
      <4>2. Contract!Hand
        BY Zenon, <4>1, <3>4, <3>5, <3>6, <3>7 DEF Contract!Hand, Accepted, Handed
      <4>3. QED BY <4>2 DEF Contract!CNext
    <3>8. CASE LastHandled = nread + 1
      <4>1. MaxFaults > 0
        <5>1. faults > 0 BY <3>1, <3>8, <2>0 DEF Reading
        <5>2. QED BY <5>1, <2>0, BoundAssumption DEF Bounded, TypeOK
      <4>2. LastHandled > 0 BY <3>2, <3>8
      <4>3. Contract!Repeat
        BY Zenon, <4>1, <4>2, <3>4, <3>5, <3>6, <3>8 DEF Contract!Repeat, Accepted, Handed
      <4>4. QED BY <4>3 DEF Contract!CNext
    <3>9. QED BY <3>7, <3>8, <2>0 DEF Reading
  <2>4. QED
    BY <2>1, <2>2, <2>3 DEF Next, Producer, Consumer, Call, Reserve, ReserveFails, Copy, Pad,
      TryRead, HandlerThrows, ReadAdvance, ConsumerCrash, vars, ringVars, consVars
<1>3. QED BY <1>1, <1>2, RingInvariant, BoundsRespected, PTL DEF Spec, ImplementsContract, Contract!CSpec
=============================================================================
