-------------------------------- MODULE Segment --------------------------------
(***************************************************************************)
(* How producers, consumers and observers come to share one segment:       *)
(* shm::open (src/core/shm_posix.cpp), layout_manager::format and          *)
(* validate_detailed (src/core/layout_manager.cpp), the constructor and    *)
(* destructor of endpoint, the constructor of observer, and                *)
(* read_existing_shm_options (ipc/shm_builders.hpp).                       *)
(*                                                                         *)
(* Each endpoint is a process of its own.  The kernel's shm_open,          *)
(* ftruncate and shm_unlink are atomic steps, as is every store or load of *)
(* the control block that another process can see.  The manifest fields    *)
(* that must agree (layout, schema, alignment) are one value, `item'.      *)
(***************************************************************************)
EXTENDS Integers, FiniteSets

CONSTANTS
  Producers, Consumers, Observers,   \* endpoints by role
  Readers,                           \* calls of read_existing_shm_options
  Wants,                             \* options an endpoint may be opened with
  MaxSegs,                           \* bound: segments ever created
  MaxOpens,                          \* bound: constructor calls
  MaxCrashes, MaxUnlinks             \* bounds: crashes, shm::unlink calls

Writers == Producers \cup Consumers
Endpoints == Writers \cup Observers \cup Readers

\* transport_options: create_if_missing, the manifest value and the data capacity, 0
\* to take the capacity of an existing segment.
Options == [create : BOOLEAN, item : Nat \ {0}, cap : Nat]

ASSUME RolesAssumption ==
  /\ Producers \cap Consumers = {} /\ Writers \cap Observers = {}
  /\ Readers \cap (Writers \cup Observers) = {}
  /\ IsFiniteSet(Endpoints)
  /\ 0 \notin Endpoints

\* What validate_producer_transport_options and its two siblings let through.
Valid(w) == w.create => w.cap # 0

ASSUME WantsAssumption == Wants # {} /\ Wants \subseteq {w \in Options : Valid(w)}

ASSUME SegmentBounds ==
  MaxSegs \in Nat /\ MaxOpens \in Nat /\ MaxCrashes \in Nat /\ MaxUnlinks \in Nat

VARIABLES
  name,      \* the segment the path names, 0 for none
  nsegs,     \* segments created so far
  seg,       \* the segments' size and control block
  pc,        \* where each endpoint's constructor is
  want,      \* its options
  at,        \* the segment it has open
  created,   \* created_this_open
  err,       \* "none", "invalid" (format returned null), or the error thrown
  opens, crashes, unlinks,
  leaked     \* references of crashed endpoints, by segment (history)

own == <<pc, want, at, created, err>>
counts == <<opens, crashes, unlinks, leaked>>
vars == <<name, nsegs, seg, own, counts>>

Segs == 1 .. MaxSegs

Blank == [size |-> 0, magic |-> FALSE, item |-> 0, pid |-> 0, attach |-> 0, ready |-> FALSE]

\* What an endpoint that is not open holds.
Default == CHOOSE w \in Wants : TRUE

Init ==
  /\ name = 0 /\ nsegs = 0
  /\ seg = [s \in Segs |-> Blank]
  /\ pc = [e \in Endpoints |-> "closed"]
  /\ want = [e \in Endpoints |-> Default]
  /\ at = [e \in Endpoints |-> 0]
  /\ created = [e \in Endpoints |-> FALSE]
  /\ err = [e \in Endpoints |-> "none"]
  /\ opens = 0 /\ crashes = 0 /\ unlinks = 0
  /\ leaked = [s \in Segs |-> 0]

Goto(e, label) == pc' = [pc EXCEPT ![e] = label]
Fail(e, code) == Goto(e, "failed") /\ err' = [err EXCEPT ![e] = code]

\* The control block of the segment e has mapped.
Header(e) == seg[at[e]]

-----------------------------------------------------------------------------
(* shm::open.                                                              *)

\* shm_open(O_RDWR), or O_RDONLY for an observer and a reader, which never create.  A
\* reader tries ten times; this is the last of them.
Open(e) ==
  /\ pc[e] \in {"closed", "failed"}
  /\ opens < MaxOpens
  /\ opens' = opens + 1
  /\ \E w \in Wants :
       /\ e \notin Writers => ~w.create
       /\ e \in Readers => w.cap = 0
       /\ want' = [want EXCEPT ![e] = w]
       /\ created' = [created EXCEPT ![e] = FALSE]
       /\ at' = [at EXCEPT ![e] = name]
       /\ \/ name # 0 /\ Goto(e, "stat") /\ err' = [err EXCEPT ![e] = "none"]
          \/ name = 0 /\ w.create /\ Goto(e, "excl") /\ err' = [err EXCEPT ![e] = "none"]
          \/ name = 0 /\ ~w.create /\ Fail(e, "os")
  /\ UNCHANGED <<name, nsegs, seg, crashes, unlinks, leaked>>

\* Fault: O_CREAT without O_EXCL: an existing segment counts as created by this open.
ExclNotExclusive(e) ==
  /\ pc[e] = "excl"
  /\ nsegs < MaxSegs
  /\ nsegs' = IF name = 0 THEN nsegs + 1 ELSE nsegs
  /\ name' = IF name = 0 THEN nsegs + 1 ELSE name
  /\ at' = [at EXCEPT ![e] = name']
  /\ created' = [created EXCEPT ![e] = TRUE]
  /\ Goto(e, "truncate")
  /\ UNCHANGED <<seg, want, err, counts>>

\* shm_open(O_CREAT | O_EXCL); EEXIST sends the caller back to a plain open.
Excl(e) ==
  /\ pc[e] = "excl"
  /\ \/ /\ name = 0
        /\ nsegs < MaxSegs
        /\ nsegs' = nsegs + 1
        /\ name' = nsegs + 1
        /\ at' = [at EXCEPT ![e] = nsegs + 1]
        /\ created' = [created EXCEPT ![e] = TRUE]
        /\ Goto(e, "truncate")
     \/ name # 0 /\ Goto(e, "reopen") /\ UNCHANGED <<name, nsegs, at, created>>
  /\ UNCHANGED <<seg, want, err, counts>>

\* Fault: the loser of the race for O_EXCL removes the name and makes its own segment.
ReopenReplaces(e) ==
  /\ pc[e] = "reopen"
  /\ nsegs < MaxSegs
  /\ nsegs' = nsegs + 1
  /\ name' = nsegs + 1
  /\ at' = [at EXCEPT ![e] = nsegs + 1]
  /\ created' = [created EXCEPT ![e] = TRUE]
  /\ Goto(e, "truncate")
  /\ UNCHANGED <<seg, want, err, counts>>

\* The second plain open, which fails if the name was removed meanwhile.
Reopen(e) ==
  /\ pc[e] = "reopen"
  /\ at' = [at EXCEPT ![e] = name]
  /\ \/ name # 0 /\ Goto(e, "stat") /\ UNCHANGED err
     \/ name = 0 /\ Fail(e, "os")
  /\ UNCHANGED <<name, nsegs, seg, want, created, counts>>

\* ftruncate and mmap by the creator; a failure leaves the empty segment behind.
Truncate(e) ==
  /\ pc[e] = "truncate"
  /\ \/ seg' = [seg EXCEPT ![at[e]].size = want[e].cap] /\ Goto(e, "init") /\ UNCHANGED err
     \/ Fail(e, "os") /\ UNCHANGED seg
  /\ UNCHANGED <<name, nsegs, want, at, created, counts>>

\* fstat and mmap by everyone else: a segment of size 0, or shorter than asked, is EINVAL.
Stat(e) ==
  /\ pc[e] = "stat"
  /\ \/ /\ Header(e).size # 0 /\ Header(e).size >= want[e].cap /\ UNCHANGED err
        /\ Goto(e, IF e \in Readers THEN "copy" ELSE "magic")
     \/ (Header(e).size = 0 \/ Header(e).size < want[e].cap) /\ Fail(e, "os")
  /\ UNCHANGED <<name, nsegs, seg, want, at, created, counts>>

\* A reader takes the manifest it will validate against from the segment itself,
\* before it knows whether the creator is done.
CopyFields(e) ==
  /\ pc[e] = "copy"
  /\ want' = [want EXCEPT ![e].item = Header(e).item]
  /\ Goto(e, "magic")
  /\ UNCHANGED <<name, nsegs, seg, at, created, err, counts>>

-----------------------------------------------------------------------------
(* layout_manager::_init_header, by the creator.                           *)

\* The capacity must hold a whole number of items.
InitFails(e) ==
  /\ pc[e] = "init"
  /\ want[e].cap % want[e].item # 0
  /\ err' = [err EXCEPT ![e] = "invalid"]
  /\ Goto(e, "magic")
  /\ UNCHANGED <<name, nsegs, seg, want, at, created, counts>>

InitMagic(e) ==
  /\ pc[e] = "init"
  /\ want[e].cap % want[e].item = 0
  /\ seg' = [seg EXCEPT ![at[e]].magic = TRUE]
  /\ Goto(e, "fields")
  /\ UNCHANGED <<name, nsegs, want, at, created, err, counts>>

\* Fault: is_ready is stored before attach_count.
InitReadyEarly(e) ==
  /\ pc[e] = "fields"
  /\ seg' = [seg EXCEPT ![at[e]].item = want[e].item, ![at[e]].pid = e, ![at[e]].ready = TRUE]
  /\ Goto(e, "count")
  /\ UNCHANGED <<name, nsegs, want, at, created, err, counts>>

InitFields(e) ==
  /\ pc[e] = "fields"
  /\ seg' = [seg EXCEPT ![at[e]].item = want[e].item, ![at[e]].pid = e]
  /\ Goto(e, "count")
  /\ UNCHANGED <<name, nsegs, want, at, created, err, counts>>

InitCount(e) ==
  /\ pc[e] = "count"
  /\ seg' = [seg EXCEPT ![at[e]].attach = 1]
  /\ Goto(e, "ready")
  /\ UNCHANGED <<name, nsegs, want, at, created, err, counts>>

InitReady(e) ==
  /\ pc[e] = "ready"
  /\ seg' = [seg EXCEPT ![at[e]].ready = TRUE]
  /\ Goto(e, "publish")
  /\ UNCHANGED <<name, nsegs, want, at, created, err, counts>>

-----------------------------------------------------------------------------
(* layout_manager::validate_detailed, by everyone else.  format() runs it  *)
(* once; when it fails the constructor runs it again for the error to throw *)
(* (a reader throws the first).                                            *)

Reject(e, code) ==
  \/ err[e] = "none" /\ e \notin Readers /\ err' = [err EXCEPT ![e] = "invalid"] /\ Goto(e, "magic")
  \/ (err[e] = "invalid" \/ e \in Readers) /\ Fail(e, code)

CheckMagic(e) ==
  /\ pc[e] = "magic"
  /\ \/ Header(e).magic /\ Goto(e, "spin") /\ UNCHANGED err
     \/ ~Header(e).magic /\ Reject(e, "bad_magic")
  /\ UNCHANGED <<name, nsegs, seg, want, at, created, counts>>

\* Fault: no limit on the spin.
SpinForever(e) ==
  /\ pc[e] = "spin"
  /\ Header(e).ready
  /\ Goto(e, "compare")
  /\ UNCHANGED <<name, nsegs, seg, want, at, created, err, counts>>

\* The spin on is_ready ends when it is set, or at is_ready_spin_limit.
Spin(e) ==
  /\ pc[e] = "spin"
  /\ \/ Header(e).ready /\ Goto(e, "compare") /\ UNCHANGED err
     \/ ~Header(e).ready /\ Reject(e, "not_ready_timeout")
  /\ UNCHANGED <<name, nsegs, seg, want, at, created, counts>>

Compatible(e) == Header(e).item = want[e].item /\ Header(e).size >= want[e].cap

\* The manifest comparison.  The second run may find nothing wrong any more.
Compare(e) ==
  /\ pc[e] = "compare"
  /\ \/ ~Compatible(e) /\ Reject(e, "mismatch")
     \/ /\ Compatible(e) /\ err[e] = "none"
        /\ Goto(e, IF e \in Writers THEN "ref" ELSE "attached") /\ UNCHANGED err
     \/ Compatible(e) /\ err[e] = "invalid" /\ Fail(e, "ok")
  /\ UNCHANGED <<name, nsegs, seg, want, at, created, counts>>

-----------------------------------------------------------------------------
(* The rest of endpoint, and the end of an endpoint.                       *)

\* attach_count.fetch_add by a non-creator that opened for writing.
Ref(e) ==
  /\ pc[e] = "ref"
  /\ seg' = [seg EXCEPT ![at[e]].attach = @ + 1]
  /\ Goto(e, "publish")
  /\ UNCHANGED <<name, nsegs, want, at, created, err, counts>>

\* producer_pid: cleared by a creator that is not the producer, set by a producer.
PublishPid(e) ==
  /\ pc[e] = "publish"
  /\ seg' = [seg EXCEPT ![at[e]].pid =
               IF e \in Producers THEN e ELSE IF created[e] THEN 0 ELSE @]
  /\ Goto(e, "attached")
  /\ UNCHANGED <<name, nsegs, want, at, created, err, counts>>

\* The endpoint and its mapping are gone.
Gone(e) ==
  /\ Goto(e, "closed")
  /\ want' = [want EXCEPT ![e] = Default]
  /\ at' = [at EXCEPT ![e] = 0]
  /\ created' = [created EXCEPT ![e] = FALSE]

\* ~endpoint drops its reference and unmaps; ~observer only unmaps.
Close(e) ==
  /\ pc[e] = "attached"
  /\ seg' = [seg EXCEPT ![at[e]].attach = @ - (IF e \in Writers THEN 1 ELSE 0)]
  /\ Gone(e)
  /\ UNCHANGED <<name, nsegs, err, counts>>

\* The endpoints whose reference is counted in segment s.
Holders(s) == {e \in Writers : at[e] = s /\ pc[e] \in {"ready", "publish", "attached"}}

\* The process dies; what it wrote to the segment stays.
Crash(e) ==
  /\ crashes < MaxCrashes
  /\ pc[e] \notin {"closed", "failed"}
  /\ crashes' = crashes + 1
  /\ leaked' = [s \in Segs |-> IF e \in Holders(s) THEN leaked[s] + 1 ELSE leaked[s]]
  /\ Gone(e)
  /\ err' = [err EXCEPT ![e] = "none"]
  /\ UNCHANGED <<name, nsegs, seg, opens, unlinks>>

\* shm::unlink: the name goes, mapped segments stay.
Unlink ==
  /\ unlinks < MaxUnlinks
  /\ name # 0
  /\ unlinks' = unlinks + 1
  /\ name' = 0
  /\ UNCHANGED <<nsegs, seg, own, opens, crashes, leaked>>

Step(e) ==
  \/ Excl(e) \/ Reopen(e) \/ Truncate(e) \/ Stat(e) \/ CopyFields(e)
  \/ InitFails(e) \/ InitMagic(e) \/ InitFields(e) \/ InitCount(e) \/ InitReady(e)
  \/ CheckMagic(e) \/ Spin(e) \/ Compare(e) \/ Ref(e) \/ PublishPid(e)

Next ==
  \/ \E e \in Endpoints : Open(e) \/ Step(e) \/ Close(e) \/ Crash(e)
  \/ Unlink

Spec == Init /\ [][Next]_vars

\* While constructors are running, one of them runs on.  None of them loops, so this
\* is enough, and less than what a scheduler grants each process.
FairSpec == Spec /\ WF_vars(\E e \in Endpoints : Step(e))

-----------------------------------------------------------------------------
(* Properties.                                                             *)

Done == {"closed", "failed", "attached"}

\* attach_count is exact: once a segment is ready it counts the producers and
\* consumers that are attached or about to be, plus those that died attached.  The
\* creator's plain store of 1 loses nobody's increment, and observers never count.
AttachCountExact ==
  \A s \in Segs : seg[s].ready => seg[s].attach = Cardinality(Holders(s)) + leaked[s]

\* An attached endpoint shares a finished segment whose manifest and capacity are
\* what it asked for, for as long as it stays attached: nobody formats it again.  The
\* same goes for the options read out of a segment, though they were copied before
\* is_ready was seen.
AttachedIsCompatible ==
  \A e \in Endpoints : pc[e] = "attached" => Header(e).ready /\ Compatible(e)

\* Endpoints that race to create the same path meet in one segment, as long as
\* nobody unlinks the path.
Rendezvous ==
  unlinks = 0 =>
    \A e, f \in Endpoints : pc[e] = "attached" /\ pc[f] = "attached" => at[e] = at[f]

\* Constructors always end, attached or with an exception, even when the creator
\* died half way through its initialisation.
EveryOpenEnds == (\E e \in Endpoints : pc[e] \notin Done) ~> (\A e \in Endpoints : pc[e] \in Done)
================================================================================
