---------------------------- MODULE SegmentProofs ----------------------------
(***************************************************************************)
(* Safety of attaching, for any number of endpoints, segments, crashes and *)
(* unlinks and any options.                                                *)
(***************************************************************************)
EXTENDS Segment, FiniteSetTheorems, TLAPS

\* Where a creator is still filling in the control block.
InitPcs == {"truncate", "init", "fields", "count", "ready"}

\* Where an endpoint has seen is_ready, or set it.
Finished == {"compare", "ref", "publish", "attached"}

Mapped == {"stat", "copy", "magic", "spin"} \cup InitPcs \cup Finished
Pcs == {"closed", "failed", "excl", "reopen"} \cup Mapped

Blocks == [size : Nat, magic : BOOLEAN, item : Nat, pid : Endpoints \cup {0},
           attach : Int, ready : BOOLEAN]
Wanted == [create : BOOLEAN, item : Nat, cap : Nat]

TypeInv ==
  /\ nsegs \in Nat /\ name \in 0 .. nsegs /\ nsegs <= MaxSegs
  /\ seg \in [Segs -> Blocks] /\ leaked \in [Segs -> Nat]
  /\ pc \in [Endpoints -> Pcs] /\ want \in [Endpoints -> Wanted]
  /\ at \in [Endpoints -> 0 .. nsegs]
  /\ unlinks \in Nat

\* What an endpoint's position in its constructor says about the segment it has open.
Phase(e) ==
  /\ pc[e] \in Mapped => at[e] # 0
  /\ pc[e] \in InitPcs => e \in Writers /\ ~Header(e).ready /\ leaked[at[e]] = 0
  /\ pc[e] \in InitPcs \ {"truncate"} => Header(e).size = want[e].cap
  /\ pc[e] \in {"count", "ready"} => Header(e).item = want[e].item
  /\ pc[e] = "ready" => Header(e).attach = 1
  /\ pc[e] \in Finished => Header(e).ready
  /\ pc[e] \in Finished \ {"compare"} => Compatible(e)
  /\ pc[e] \in {"excl", "ref", "publish"} => e \in Writers

\* A segment has one creator.
OneCreator ==
  \A e, f \in Endpoints : pc[e] \in InitPcs /\ pc[f] \in InitPcs /\ at[e] = at[f] => e = f

\* Segments not made yet.
Fresh == \A s \in Segs : s > nsegs => ~seg[s].ready /\ leaked[s] = 0

\* Without an unlink there is one segment at most, and the path names it.
OneName == unlinks = 0 => name = nsegs /\ nsegs <= 1

SegInv ==
  /\ TypeInv /\ OneCreator /\ Fresh /\ OneName /\ AttachCountExact
  /\ \A e \in Endpoints : Phase(e)

-----------------------------------------------------------------------------
\* Reference holders are finitely many.
LEMMA HoldersFinite == ASSUME NEW s PROVE IsFiniteSet(Holders(s)) /\ Cardinality(Holders(s)) \in Nat
<1>1. Holders(s) \in SUBSET Endpoints BY DEF Holders, Endpoints
<1>2. IsFiniteSet(Holders(s)) BY <1>1, FS_Subset, RolesAssumption
<1>3. QED BY <1>2, FS_CardinalityType

\* The segment of a mapped endpoint exists.
LEMMA MappedSegment ==
  ASSUME TypeInv, NEW e \in Endpoints, Phase(e), pc[e] \in Mapped
  PROVE  at[e] \in Segs /\ at[e] \in Nat /\ Header(e) \in Blocks
<1>1. at[e] \in 0 .. nsegs /\ at[e] # 0 BY DEF TypeInv, Phase
<1>2. at[e] \in Segs BY <1>1, SegmentBounds DEF TypeInv, Segs
<1>3. QED BY <1>1, <1>2 DEF TypeInv, Header

\* Nobody else is in the segment of a creator with more than an unfinished attach.
LEMMA CreatorAlone ==
  ASSUME SegInv, NEW e \in Endpoints, pc[e] \in InitPcs,
         NEW f \in Endpoints, f # e, at[f] = at[e]
  PROVE  pc[f] \notin InitPcs /\ pc[f] \notin Finished
<1>1. pc[f] \notin InitPcs BY DEF SegInv, OneCreator
<1>2. Phase(e) /\ Phase(f) BY DEF SegInv
<1>3. QED BY <1>1, <1>2 DEF Phase, Header

-----------------------------------------------------------------------------
Counted == {"ready", "publish", "attached"}

\* A step of e that writes nothing in any segment and does not change who holds a
\* reference.
Private(e, l, a, w) ==
  /\ UNCHANGED <<name, nsegs, seg, leaked, unlinks>>
  /\ pc' = [pc EXCEPT ![e] = l] /\ at' = [at EXCEPT ![e] = a] /\ want' = [want EXCEPT ![e] = w]
  /\ l \in Pcs \ InitPcs /\ a \in 0 .. nsegs /\ w \in Wanted
  /\ e \in Writers => pc[e] \notin Counted /\ l \notin Counted
  /\ Phase(e)'

\* A step of a creator that stores block b in its segment.
Storing(e, l, b) ==
  /\ UNCHANGED <<name, nsegs, leaked, unlinks, at, want>>
  /\ pc[e] \in InitPcs /\ l \in InitPcs \cup {"publish"} /\ pc' = [pc EXCEPT ![e] = l]
  /\ b \in Blocks /\ seg' = [seg EXCEPT ![at[e]] = b]
  /\ b.ready => l = "publish" /\ b.attach = 1
  /\ Phase(e)'

\* What a step of e leaves alone in the constructor of f.
LEMMA SamePhase ==
  ASSUME NEW f \in Endpoints, Phase(f),
         pc'[f] = pc[f], at'[f] = at[f], want'[f] = want[f],
         Header(f)' = Header(f),
         pc[f] \in InitPcs => leaked'[at[f]] = leaked[at[f]]
  PROVE  Phase(f)'
<1>1. Compatible(f)' = Compatible(f) BY DEF Compatible
<1>2. QED BY <1>1 DEF Phase

\* An endpoint without a segment has nothing to fear from what happens to segments.
LEMMA UnmappedPhase ==
  ASSUME NEW f \in Endpoints, Phase(f), pc'[f] = pc[f],
         pc[f] \notin InitPcs, pc[f] \notin Finished, pc[f] \in Mapped => at'[f] = at[f]
  PROVE  Phase(f)'
  BY DEF Phase, Mapped, InitPcs, Finished

\* A private step keeps the invariant.
LEMMA PrivateStep ==
  ASSUME SegInv, NEW e \in Endpoints, NEW l, NEW a, NEW w, Private(e, l, a, w) PROVE SegInv'
<1>1. UNCHANGED <<name, nsegs, seg, leaked, unlinks>> BY DEF Private
<1>2. /\ pc \in [Endpoints -> Pcs] /\ at \in [Endpoints -> 0 .. nsegs]
      /\ want \in [Endpoints -> Wanted]
  BY DEF SegInv, TypeInv
<1>3. /\ pc'[e] = l /\ at'[e] = a
      /\ \A f \in Endpoints : f # e => pc'[f] = pc[f] /\ at'[f] = at[f] /\ want'[f] = want[f]
  BY <1>2 DEF Private
<1>4. TypeInv'
  <2>1. pc' \in [Endpoints -> Pcs] BY <1>2 DEF Private
  <2>2. at' \in [Endpoints -> 0 .. nsegs] BY <1>2 DEF Private
  <2>3. want' \in [Endpoints -> Wanted] BY <1>2 DEF Private
  <2>4. QED BY <1>1, <2>1, <2>2, <2>3 DEF SegInv, TypeInv
<1>5. l \notin InitPcs /\ (e \in Writers => pc[e] \notin Counted /\ l \notin Counted) BY DEF Private
<1>6. OneCreator' BY <1>3, <1>5 DEF SegInv, OneCreator
<1>7. Fresh' /\ OneName' BY <1>1 DEF SegInv, Fresh, OneName
<1>8. \A s \in Segs : Holders(s)' = Holders(s)
  BY <1>3, <1>5 DEF Holders, Endpoints, Counted
<1>9. AttachCountExact' BY <1>1, <1>8 DEF SegInv, AttachCountExact
<1>10. ASSUME NEW f \in Endpoints PROVE Phase(f)'
  <2>1. CASE f = e BY <2>1 DEF Private
  <2>2. CASE f # e
    <3>1. Phase(f) BY DEF SegInv
    <3>2. Header(f)' = Header(f) BY <1>1, <1>3, <2>2 DEF Header
    <3>3. QED BY <1>1, <1>3, <2>2, <3>1, <3>2, SamePhase
  <2>3. QED BY <2>1, <2>2
<1>11. QED BY <1>4, <1>6, <1>7, <1>9, <1>10 DEF SegInv

\* A store by the creator keeps the invariant.
LEMMA CreatorStep ==
  ASSUME SegInv, NEW e \in Endpoints, NEW l, NEW b, Storing(e, l, b) PROVE SegInv'
<1>0. Phase(e) /\ TypeInv /\ pc[e] \in InitPcs BY DEF SegInv, Storing
<1>1. /\ pc \in [Endpoints -> Pcs] /\ seg \in [Segs -> Blocks] /\ at[e] \in Segs
      /\ at[e] <= nsegs /\ nsegs \in Nat
  <2>1. at[e] \in Segs BY <1>0, MappedSegment DEF Mapped
  <2>2. at[e] \in 0 .. nsegs BY <1>0 DEF TypeInv
  <2>3. QED BY <1>0, <2>1, <2>2 DEF TypeInv
<1>2. /\ pc'[e] = l /\ seg'[at[e]] = b
      /\ \A f \in Endpoints : f # e => pc'[f] = pc[f]
      /\ \A s \in Segs : s # at[e] => seg'[s] = seg[s]
  BY <1>1 DEF Storing
<1>3. UNCHANGED <<name, nsegs, leaked, unlinks, at, want>> BY DEF Storing
<1>4. l \in InitPcs \cup {"publish"} /\ (b.ready => l = "publish" /\ b.attach = 1) BY DEF Storing
<1>5. TypeInv'
  <2>1. seg' \in [Segs -> Blocks] BY <1>1 DEF Storing
  <2>2. l \in Pcs BY <1>4 DEF Pcs, Mapped, Finished
  <2>3. pc' \in [Endpoints -> Pcs] BY <1>1, <2>2 DEF Storing
  <2>4. QED BY <1>0, <1>3, <2>1, <2>3 DEF TypeInv
<1>6. OneCreator' BY <1>0, <1>2, <1>3 DEF SegInv, OneCreator
<1>7. Fresh' BY <1>1, <1>2, <1>3 DEF SegInv, Fresh, Segs
<1>8. OneName' BY <1>3 DEF SegInv, OneName
<1>9. ASSUME NEW s \in Segs, seg'[s].ready
      PROVE  seg'[s].attach = Cardinality(Holders(s)') + leaked'[s]
  <2>1. CASE s # at[e]
    <3>1. Holders(s)' = Holders(s) BY <1>2, <1>3, <2>1 DEF Holders, Endpoints
    <3>2. QED BY <1>2, <1>3, <1>9, <2>1, <3>1 DEF SegInv, AttachCountExact
  <2>2. CASE s = at[e]
    <3>1. b.attach = 1 /\ l = "publish" BY <1>2, <1>4, <1>9, <2>2
    <3>2. leaked[s] = 0 /\ e \in Writers BY <1>0, <2>2 DEF Phase
    <3>3. Holders(s)' = {e}
      <4>1. e \in Holders(s)' BY <1>2, <1>3, <2>2, <3>1, <3>2 DEF Holders
      <4>2. ASSUME NEW f \in Holders(s)' PROVE f = e
        <5>1. f \in Endpoints /\ at[f] = at[e] /\ pc'[f] \in {"ready", "publish", "attached"}
          BY <1>3, <2>2, <4>2 DEF Holders, Endpoints
        <5>2. QED BY <5>1, <1>0, <1>2, CreatorAlone DEF InitPcs, Finished
      <4>3. QED BY <4>1, <4>2
    <3>4. Cardinality(Holders(s)') = 1 BY Zenon, <3>3, FS_Singleton
    <3>5. seg'[s].attach = 1 /\ leaked'[s] = 0 BY <1>2, <1>3, <2>2, <3>1, <3>2
    <3>6. QED BY <3>4, <3>5
  <2>3. QED BY <2>1, <2>2
<1>10. AttachCountExact' BY <1>9 DEF AttachCountExact
<1>11. ASSUME NEW f \in Endpoints PROVE Phase(f)'
  <2>0. Phase(f) BY DEF SegInv
  <2>1. CASE f = e BY <2>1 DEF Storing
  <2>2. CASE f # e /\ (pc[f] \notin Mapped \/ at[f] = at[e])
    <3>1. pc[f] \notin InitPcs /\ pc[f] \notin Finished BY <1>0, <2>2, CreatorAlone DEF Mapped
    <3>2. QED BY <1>2, <1>3, <2>0, <2>2, <3>1, UnmappedPhase
  <2>3. CASE f # e /\ pc[f] \in Mapped /\ at[f] # at[e]
    <3>1. at[f] \in Segs BY <1>0, <2>0, <2>3, MappedSegment
    <3>2. Header(f)' = Header(f) BY <1>2, <1>3, <2>3, <3>1 DEF Header
    <3>3. QED BY <1>2, <1>3, <2>0, <2>3, <3>2, SamePhase
  <2>4. QED BY <2>1, <2>2, <2>3
<1>12. QED BY <1>5, <1>6, <1>7, <1>8, <1>10, <1>11 DEF SegInv

-----------------------------------------------------------------------------
(* shm::open and the checks, which write nothing.                          *)

\* shm_open finds the segment, or not.
LEMMA OpenKeeps == ASSUME SegInv, NEW e \in Endpoints, Open(e) PROVE SegInv'
<1>0. TypeInv /\ Phase(e) BY DEF SegInv
<1>1. PICK w \in Wants :
        /\ e \notin Writers => ~w.create
        /\ want' = [want EXCEPT ![e] = w]
        /\ at' = [at EXCEPT ![e] = name]
        /\ \/ name # 0 /\ Goto(e, "stat")
           \/ name = 0 /\ w.create /\ Goto(e, "excl")
           \/ name = 0 /\ ~w.create /\ Goto(e, "failed")
  BY Zenon DEF Open, Fail
<1>2. UNCHANGED <<name, nsegs, seg, leaked, unlinks>> /\ pc[e] \in {"closed", "failed"}
  BY DEF Open
<1>3. w \in Wanted BY WantsAssumption DEF Options, Wanted
<1>4. PICK l \in {"stat", "excl", "failed"} :
        /\ pc' = [pc EXCEPT ![e] = l]
        /\ l = "stat" => name # 0
        /\ l = "excl" => e \in Writers
  BY <1>1 DEF Goto
<1>5. pc'[e] = l /\ at'[e] = name BY <1>0, <1>1, <1>4 DEF TypeInv
<1>6. Phase(e)' BY <1>4, <1>5 DEF Phase, Mapped, InitPcs, Finished
<1>7. name \in 0 .. nsegs BY <1>0 DEF TypeInv
<1>8. l \in Pcs /\ l \notin InitPcs /\ l \notin {"ready", "publish", "attached"}
  BY <1>4 DEF Pcs, Mapped, InitPcs
<1>9. Private(e, l, name, w) BY <1>1, <1>2, <1>3, <1>4, <1>6, <1>7, <1>8 DEF Private, Counted
<1>10. QED BY <1>9, PrivateStep

\* Steps of a constructor after which nothing is claimed of the segment but that it is
\* mapped, finished or the one wanted.
Looks(e, l, w) ==
  /\ UNCHANGED <<name, nsegs, seg, leaked, unlinks, at>>
  /\ l \in {"failed", "copy", "magic", "spin", "compare", "ref", "reopen", "attached"}
  /\ pc' = [pc EXCEPT ![e] = l] /\ w \in Wanted /\ want' = [want EXCEPT ![e] = w]
  /\ pc[e] \in Mapped \/ l \in {"failed", "reopen"}
  /\ e \in Writers => pc[e] \notin Counted
  /\ l \in {"compare", "ref", "attached"} => Header(e).ready
  /\ l \in {"ref", "attached"} => Compatible(e)'
  /\ (l = "ref" => e \in Writers) /\ (l = "attached" => e \notin Writers)

\* Looking at a segment keeps the invariant.
LEMMA LooksKeep == ASSUME SegInv, NEW e \in Endpoints, NEW l, NEW w, Looks(e, l, w) PROVE SegInv'
<1>0. TypeInv /\ Phase(e) BY DEF SegInv
<1>1. UNCHANGED <<name, nsegs, seg, leaked, unlinks, at>> BY DEF Looks
<1>2. /\ pc' = [pc EXCEPT ![e] = l] /\ w \in Wanted /\ want' = [want EXCEPT ![e] = w]
      /\ l \in {"failed", "copy", "magic", "spin", "compare", "ref", "reopen", "attached"}
  BY DEF Looks
<1>3. /\ pc'[e] = l /\ at[e] \in 0 .. nsegs /\ at' = [at EXCEPT ![e] = at[e]] /\ at'[e] = at[e]
  BY <1>0, <1>1, <1>2 DEF TypeInv
<1>4. l \in Mapped => at[e] # 0
  <2>1. pc[e] \in Mapped => at[e] # 0 BY <1>0 DEF Phase
  <2>2. pc[e] \in Mapped \/ l \notin Mapped BY DEF Looks, Mapped, InitPcs, Finished
  <2>3. QED BY <2>1, <2>2
<1>5. l \in Pcs \ InitPcs /\ (e \in Writers => pc[e] \notin Counted /\ l \notin Counted)
  BY DEF Looks, Pcs, Mapped, InitPcs, Finished, Counted
<1>6. Phase(e)'
  <2>1. /\ l \in Finished => Header(e)'.ready
        /\ l \in Finished \ {"compare"} => Compatible(e)'
        /\ l \in {"excl", "ref", "publish"} => e \in Writers
    BY <1>1 DEF Looks, Finished, Header
  <2>2. l \notin InitPcs BY <1>5
  <2>3. QED BY <1>3, <1>4, <2>1, <2>2 DEF Phase, InitPcs
<1>7. Private(e, l, at[e], w) BY Zenon, <1>1, <1>2, <1>3, <1>5, <1>6 DEF Private
<1>8. QED BY <1>7, PrivateStep

\* Reopen, Stat, CopyFields, InitFails and the checks of validate_detailed.
LEMMA ChecksKeep ==
  ASSUME SegInv, NEW e \in Endpoints,
         \/ Stat(e) \/ CopyFields(e) \/ InitFails(e) \/ CheckMagic(e) \/ Spin(e) \/ Compare(e)
         \/ Truncate(e) /\ Fail(e, "os") /\ UNCHANGED seg
  PROVE  SegInv'
<1>0. TypeInv /\ Phase(e) BY DEF SegInv
<1>1. UNCHANGED <<name, nsegs, seg, leaked, unlinks, at>>
  BY DEF Stat, CopyFields, InitFails, CheckMagic, Spin, Compare, Truncate, counts
<1>2. pc[e] \in {"stat", "copy", "init", "magic", "spin", "compare", "truncate"}
  BY DEF Stat, CopyFields, InitFails, CheckMagic, Spin, Compare, Truncate
<1>3. pc[e] \in Mapped /\ pc[e] \notin {"ready", "publish", "attached"}
  BY <1>2 DEF Mapped, InitPcs, Finished
<1>4. want[e] \in Wanted /\ want = [want EXCEPT ![e] = want[e]] BY <1>0 DEF TypeInv
<1>5. CASE CopyFields(e)
  <2>1. pc' = [pc EXCEPT ![e] = "magic"] /\ want' = [want EXCEPT ![e].item = Header(e).item]
    BY <1>5 DEF CopyFields, Goto
  <2>2. Header(e) \in Blocks BY <1>0, <1>3, MappedSegment
  <2>3. Header(e).item \in Nat BY <2>2 DEF Blocks
  <2>4. [want[e] EXCEPT !.item = Header(e).item] \in Wanted BY <1>4, <2>3 DEF Wanted
  <2>5. want' = [want EXCEPT ![e] = [want[e] EXCEPT !.item = Header(e).item]] BY <2>1
  <2>6. Looks(e, "magic", [want[e] EXCEPT !.item = Header(e).item])
    BY <1>1, <1>3, <2>1, <2>4, <2>5 DEF Looks, Counted
  <2>7. QED BY <2>6, LooksKeep
<1>6. CASE ~CopyFields(e)
  <2>1. want' = want BY <1>6 DEF Stat, InitFails, CheckMagic, Spin, Compare, Truncate
  <2>2. Compatible(e)' = Compatible(e) BY <1>1, <2>1 DEF Compatible, Header
  <2>3. CASE Stat(e) \/ InitFails(e) \/ CheckMagic(e) \/ (Truncate(e) /\ Fail(e, "os"))
    <3>1. PICK l \in {"failed", "copy", "magic", "spin"} : pc' = [pc EXCEPT ![e] = l]
      <4>1. CASE Stat(e)
        <5>1. pc' = [pc EXCEPT ![e] = "failed"] \/ pc' = [pc EXCEPT ![e] = "copy"]
              \/ pc' = [pc EXCEPT ![e] = "magic"]
          BY <4>1 DEF Stat, Goto, Fail
        <5>2. QED BY <5>1
      <4>2. CASE InitFails(e) BY <4>2 DEF InitFails, Goto
      <4>3. CASE CheckMagic(e) BY <4>3 DEF CheckMagic, Reject, Goto, Fail
      <4>4. CASE Truncate(e) /\ Fail(e, "os") BY <4>4 DEF Fail, Goto
      <4>5. QED BY <2>3, <4>1, <4>2, <4>3, <4>4
    <3>2. Looks(e, l, want[e]) BY <1>1, <1>3, <1>4, <2>1, <3>1 DEF Looks, Counted
    <3>3. QED BY <3>2, LooksKeep
  <2>4. CASE Spin(e)
    <3>1. PICK l \in {"failed", "magic", "compare"} :
            pc' = [pc EXCEPT ![e] = l] /\ (l = "compare" => Header(e).ready)
      BY <2>4 DEF Spin, Reject, Goto, Fail
    <3>2. Looks(e, l, want[e]) BY <1>1, <1>3, <1>4, <2>1, <3>1 DEF Looks, Counted
    <3>3. QED BY <3>2, LooksKeep
  <2>5. CASE Compare(e)
    <3>1. PICK l \in {"failed", "magic", "ref", "attached"} :
            /\ pc' = [pc EXCEPT ![e] = l]
            /\ l \in {"ref", "attached"} => Compatible(e)
            /\ (l = "ref" => e \in Writers) /\ (l = "attached" => e \notin Writers)
      <4>1. CASE ~Compatible(e) BY <2>5, <4>1 DEF Compare, Reject, Goto, Fail
      <4>2. CASE Compatible(e) BY <2>5, <4>2 DEF Compare, Goto, Fail
      <4>3. QED BY <4>1, <4>2
    <3>2. Header(e).ready BY <1>0, <2>5 DEF Compare, Phase, Finished
    <3>3. Looks(e, l, want[e])
      BY <1>1, <1>3, <1>4, <2>1, <2>2, <3>1, <3>2 DEF Looks, Counted
    <3>4. QED BY <3>3, LooksKeep
  <2>6. QED BY <1>6, <2>3, <2>4, <2>5
<1>7. QED BY <1>5, <1>6

\* The second plain open.
LEMMA ReopenKeeps == ASSUME SegInv, NEW e \in Endpoints, Reopen(e) PROVE SegInv'
<1>0. TypeInv /\ Phase(e) BY DEF SegInv
<1>1. /\ UNCHANGED <<name, nsegs, seg, leaked, unlinks, want>> /\ pc[e] = "reopen"
      /\ at' = [at EXCEPT ![e] = name]
  BY DEF Reopen, counts
<1>2. PICK l \in {"stat", "failed"} : pc' = [pc EXCEPT ![e] = l] /\ (l = "stat" => name # 0)
  BY DEF Reopen, Goto, Fail
<1>3. /\ want[e] \in Wanted /\ want' = [want EXCEPT ![e] = want[e]] /\ name \in 0 .. nsegs
      /\ pc'[e] = l /\ at'[e] = name
  BY <1>0, <1>1, <1>2 DEF TypeInv
<1>4. Phase(e)' BY <1>2, <1>3 DEF Phase, Mapped, InitPcs, Finished
<1>5. l \in Pcs /\ l \notin InitPcs /\ l \notin {"ready", "publish", "attached"}
  BY <1>2 DEF Pcs, Mapped, InitPcs
<1>6. Private(e, l, name, want[e]) BY Zenon, <1>1, <1>2, <1>3, <1>4, <1>5 DEF Private, Counted
<1>7. QED BY <1>6, PrivateStep

\* O_EXCL: one creator for a new segment, and everyone else goes back.
LEMMA ExclKeeps == ASSUME SegInv, NEW e \in Endpoints, Excl(e) PROVE SegInv'
<1>0. TypeInv /\ Phase(e) /\ pc[e] = "excl" BY DEF SegInv, Excl
<1>1. UNCHANGED <<seg, want, leaked, unlinks>> BY DEF Excl, counts
<1>2. CASE name # 0
  <2>1. UNCHANGED <<name, nsegs, at>> /\ pc' = [pc EXCEPT ![e] = "reopen"]
    BY <1>2 DEF Excl, Goto
  <2>2. want[e] \in Wanted /\ want' = [want EXCEPT ![e] = want[e]] BY <1>0, <1>1 DEF TypeInv
  <2>3. Looks(e, "reopen", want[e]) BY Zenon, <1>0, <1>1, <2>1, <2>2 DEF Looks, Counted
  <2>4. QED BY <2>3, LooksKeep
<1>3. CASE name = 0
  <2> DEFINE n == nsegs + 1
  <2>1. /\ nsegs < MaxSegs /\ nsegs' = n /\ name' = n
        /\ at' = [at EXCEPT ![e] = n] /\ pc' = [pc EXCEPT ![e] = "truncate"]
    BY <1>3 DEF Excl, Goto
  <2>2. /\ n \in Segs /\ nsegs \in Nat /\ n \in Nat /\ n <= MaxSegs
        /\ \A f \in Endpoints : at[f] \in 0 .. nsegs
    BY <1>0, <2>1, SegmentBounds DEF TypeInv, Segs
  <2>3. ~seg[n].ready /\ leaked[n] = 0 BY <2>2 DEF SegInv, Fresh
  <2>4. /\ pc'[e] = "truncate" /\ at'[e] = n
        /\ \A f \in Endpoints : f # e => pc'[f] = pc[f] /\ at'[f] = at[f] /\ at[f] # n
    BY <1>0, <2>1, <2>2 DEF TypeInv
  <2>5. TypeInv'
    <3>1. at' \in [Endpoints -> 0 .. n] BY <1>0, <2>1, <2>2 DEF TypeInv
    <3>2. pc' \in [Endpoints -> Pcs] BY <1>0, <2>1 DEF TypeInv, Pcs, Mapped, InitPcs
    <3>3. name' \in 0 .. nsegs' /\ nsegs' \in Nat /\ nsegs' <= MaxSegs BY <2>1, <2>2
    <3>4. QED BY <1>0, <1>1, <2>1, <3>1, <3>2, <3>3 DEF TypeInv
  <2>6. OneCreator' BY <2>4 DEF SegInv, OneCreator
  <2>7. Fresh' BY <1>1, <2>1, <2>2 DEF SegInv, Fresh, Segs
  <2>8. OneName' BY <1>1, <1>3, <2>1, <2>2 DEF SegInv, OneName
  <2>9. AttachCountExact'
    <3>1. e \notin {f \in Endpoints : pc[f] \in {"ready", "publish", "attached"}} BY <1>0
    <3>2. \A s \in Segs : Holders(s)' = Holders(s) BY <1>0, <2>4 DEF Holders, Endpoints
    <3>3. QED BY <1>1, <3>2 DEF SegInv, AttachCountExact
  <2>10. ASSUME NEW f \in Endpoints PROVE Phase(f)'
    <3>0. Phase(f) BY DEF SegInv
    <3>1. CASE f = e
      BY <1>0, <1>1, <2>2, <2>3, <2>4, <3>1 DEF Phase, Mapped, InitPcs, Finished, Header
    <3>2. CASE f # e
      <4>1. Header(f)' = Header(f) BY <1>1, <2>4, <3>2 DEF Header
      <4>2. QED BY <1>1, <2>4, <3>0, <3>2, <4>1, SamePhase
    <3>3. QED BY <3>1, <3>2
  <2>11. QED BY <2>5, <2>6, <2>7, <2>8, <2>9, <2>10 DEF SegInv
<1>4. QED BY <1>2, <1>3

-----------------------------------------------------------------------------
(* The creator's stores.                                                   *)

\* ftruncate and _init_header, up to is_ready.
LEMMA InitKeeps ==
  ASSUME SegInv, NEW e \in Endpoints,
         \/ Truncate(e) /\ seg' = [seg EXCEPT ![at[e]].size = want[e].cap] /\ Goto(e, "init")
         \/ InitMagic(e) \/ InitFields(e) \/ InitCount(e) \/ InitReady(e)
  PROVE  SegInv'
<1>0. TypeInv /\ Phase(e) BY DEF SegInv
<1>1. UNCHANGED <<name, nsegs, leaked, unlinks, at, want>>
  BY DEF Truncate, InitMagic, InitFields, InitCount, InitReady, counts
<1>2. pc[e] \in InitPcs BY DEF Truncate, InitMagic, InitFields, InitCount, InitReady, InitPcs
<1>3. /\ at[e] \in Segs /\ Header(e) \in Blocks /\ Header(e) = seg[at[e]]
      /\ want[e] \in Wanted /\ seg \in [Segs -> Blocks] /\ pc \in [Endpoints -> Pcs]
      /\ at[e] \in Nat /\ at[e] # 0
  BY <1>0, <1>2, MappedSegment DEF Mapped, Header, TypeInv, Phase
<1>4. ~Header(e).ready /\ leaked[at[e]] = 0 /\ e \in Writers BY <1>0, <1>2 DEF Phase
<1>5. want[e].cap \in Nat /\ want[e].item \in Nat BY <1>3 DEF Wanted
<1>6. CASE Truncate(e) /\ seg' = [seg EXCEPT ![at[e]].size = want[e].cap] /\ Goto(e, "init")
  <2> DEFINE b == [Header(e) EXCEPT !.size = want[e].cap]
  <2>1. seg' = [seg EXCEPT ![at[e]] = b] /\ pc' = [pc EXCEPT ![e] = "init"]
    BY <1>3, <1>6 DEF Goto
  <2>2. b \in Blocks /\ b.size = want[e].cap /\ b.ready = Header(e).ready BY <1>3, <1>5 DEF Blocks
  <2>3. pc'[e] = "init" /\ Header(e)' = b BY <1>1, <1>3, <2>1 DEF Header
  <2>4. Phase(e)' BY <1>1, <1>3, <1>4, <2>2, <2>3 DEF Phase, Mapped, InitPcs, Finished
  <2>5. Storing(e, "init", b) BY <1>1, <1>2, <1>4, <2>1, <2>2, <2>4 DEF Storing, InitPcs
  <2>6. QED BY <2>5, CreatorStep
<1>7. CASE InitMagic(e)
  <2> DEFINE b == [Header(e) EXCEPT !.magic = TRUE]
  <2>1. /\ seg' = [seg EXCEPT ![at[e]] = b] /\ pc' = [pc EXCEPT ![e] = "fields"] /\ pc[e] = "init"
    BY <1>3, <1>7 DEF InitMagic, Goto
  <2>2. b \in Blocks /\ b.size = Header(e).size /\ b.ready = Header(e).ready BY Zenon, <1>3 DEF Blocks
  <2>3. pc'[e] = "fields" /\ Header(e)' = b BY Zenon, <1>1, <1>3, <2>1 DEF Header
  <2>4. Header(e).size = want[e].cap BY <1>0, <2>1 DEF Phase, InitPcs
  <2>5. Phase(e)' BY <1>1, <1>3, <1>4, <2>2, <2>3, <2>4 DEF Phase, Mapped, InitPcs, Finished
  <2>6. Storing(e, "fields", b) BY <1>1, <1>2, <1>4, <2>1, <2>2, <2>5 DEF Storing, InitPcs
  <2>7. QED BY <2>6, CreatorStep
<1>8. CASE InitFields(e)
  <2> DEFINE b == [Header(e) EXCEPT !.item = want[e].item, !.pid = e]
  <2>1. /\ seg' = [seg EXCEPT ![at[e]] = b] /\ pc' = [pc EXCEPT ![e] = "count"] /\ pc[e] = "fields"
    BY Zenon, <1>3, <1>8 DEF InitFields, Goto
  <2>2. /\ b \in Blocks /\ b.size = Header(e).size /\ b.ready = Header(e).ready
        /\ b.item = want[e].item
    BY Zenon, <1>3, <1>5 DEF Blocks
  <2>3. pc'[e] = "count" /\ Header(e)' = b BY Zenon, <1>1, <1>3, <2>1 DEF Header
  <2>4. Header(e).size = want[e].cap BY <1>0, <2>1 DEF Phase, InitPcs
  <2>5. Phase(e)' BY <1>1, <1>3, <1>4, <2>2, <2>3, <2>4 DEF Phase, Mapped, InitPcs, Finished
  <2>6. Storing(e, "count", b) BY <1>1, <1>2, <1>4, <2>1, <2>2, <2>5 DEF Storing, InitPcs
  <2>7. QED BY <2>6, CreatorStep
<1>9. CASE InitCount(e)
  <2> DEFINE b == [Header(e) EXCEPT !.attach = 1]
  <2>1. /\ seg' = [seg EXCEPT ![at[e]] = b] /\ pc' = [pc EXCEPT ![e] = "ready"] /\ pc[e] = "count"
    BY <1>3, <1>9 DEF InitCount, Goto
  <2>2. /\ b \in Blocks /\ b.size = Header(e).size /\ b.ready = Header(e).ready
        /\ b.item = Header(e).item /\ b.attach = 1
    BY <1>3 DEF Blocks
  <2>3. pc'[e] = "ready" /\ Header(e)' = b BY <1>1, <1>3, <2>1 DEF Header
  <2>4. Header(e).size = want[e].cap /\ Header(e).item = want[e].item BY <1>0, <2>1 DEF Phase, InitPcs
  <2>5. Phase(e)' BY <1>1, <1>3, <1>4, <2>2, <2>3, <2>4 DEF Phase, Mapped, InitPcs, Finished
  <2>6. Storing(e, "ready", b) BY <1>1, <1>2, <1>4, <2>1, <2>2, <2>5 DEF Storing, InitPcs
  <2>7. QED BY <2>6, CreatorStep
<1>10. CASE InitReady(e)
  <2> DEFINE b == [Header(e) EXCEPT !.ready = TRUE]
  <2>1. /\ seg' = [seg EXCEPT ![at[e]] = b] /\ pc' = [pc EXCEPT ![e] = "publish"] /\ pc[e] = "ready"
    BY <1>3, <1>10 DEF InitReady, Goto
  <2>2. /\ b \in Blocks /\ b.size = Header(e).size /\ b.item = Header(e).item
        /\ b.attach = Header(e).attach
    BY Zenon, <1>3 DEF Blocks
  <2>3. b.ready BY <1>3 DEF Blocks
  <2>4. pc'[e] = "publish" /\ Header(e)' = b BY Zenon, <1>1, <1>3, <2>1 DEF Header
  <2>5. /\ Header(e).size = want[e].cap /\ Header(e).item = want[e].item /\ Header(e).attach = 1
    BY <1>0, <2>1 DEF Phase, InitPcs
  <2>6. Compatible(e)' BY <1>1, <1>5, <2>2, <2>4, <2>5 DEF Compatible
  <2>7. Phase(e)' BY <1>1, <1>3, <1>4, <2>3, <2>4, <2>6 DEF Phase, Mapped, InitPcs, Finished
  <2>8. Storing(e, "publish", b) BY <1>1, <1>2, <2>1, <2>2, <2>5, <2>7 DEF Storing, InitPcs
  <2>9. QED BY <2>8, CreatorStep
<1>11. QED BY <1>6, <1>7, <1>8, <1>9, <1>10

-----------------------------------------------------------------------------
(* Stores to a segment that is ready, and the end of an endpoint.          *)

\* A step of e that changes only attach_count or producer_pid of its ready segment s,
\* and leaves attach_count exact.
Sharing(e, s, l, a, w, b) ==
  /\ pc[e] \in Finished /\ s = at[e]
  /\ UNCHANGED <<name, nsegs, leaked, unlinks>>
  /\ l \in {"publish", "attached", "closed"} /\ pc' = [pc EXCEPT ![e] = l]
  /\ a \in 0 .. nsegs /\ at' = [at EXCEPT ![e] = a]
  /\ w \in Wanted /\ want' = [want EXCEPT ![e] = w]
  /\ b \in Blocks /\ seg' = [seg EXCEPT ![s] = b]
  /\ b.size = Header(e).size /\ b.item = Header(e).item /\ b.ready
  /\ l # "closed" => a = at[e] /\ w = want[e] /\ Compatible(e) /\ e \in Writers
  /\ b.attach = Cardinality(Holders(s)') + leaked[s]

\* Such a step keeps the invariant.
LEMMA SharedStep ==
  ASSUME SegInv, NEW e \in Endpoints, NEW s, NEW l, NEW a, NEW w, NEW b, Sharing(e, s, l, a, w, b)
  PROVE  SegInv'
<1>0. Phase(e) /\ TypeInv BY DEF SegInv
<1>1. /\ s \in Segs /\ s = at[e] /\ s # 0 /\ s <= nsegs /\ nsegs \in Nat
      /\ Header(e) = seg[s] /\ Header(e).ready
  <2>1. pc[e] \in Finished /\ s = at[e] BY DEF Sharing
  <2>2. pc[e] \in Mapped BY <2>1 DEF Mapped
  <2>3. s \in Segs BY <1>0, <2>1, <2>2, MappedSegment
  <2>4. s # 0 /\ Header(e).ready BY <1>0, <2>1, <2>2 DEF Phase
  <2>5. s \in 0 .. nsegs /\ nsegs \in Nat BY <1>0, <2>1 DEF TypeInv
  <2>6. QED BY <2>1, <2>3, <2>4, <2>5 DEF Header
<1>2. /\ pc \in [Endpoints -> Pcs] /\ seg \in [Segs -> Blocks]
      /\ at \in [Endpoints -> 0 .. nsegs] /\ want \in [Endpoints -> Wanted]
  BY <1>0 DEF TypeInv
<1>3. UNCHANGED <<name, nsegs, leaked, unlinks>> BY DEF Sharing
<1>4. /\ pc'[e] = l /\ seg'[s] = b /\ at'[e] = a /\ want'[e] = w
      /\ \A f \in Endpoints : f # e => pc'[f] = pc[f] /\ at'[f] = at[f] /\ want'[f] = want[f]
      /\ \A t \in Segs : t # s => seg'[t] = seg[t]
  BY <1>1, <1>2 DEF Sharing
<1>5. b.size = seg[s].size /\ b.item = seg[s].item /\ b.ready BY <1>1 DEF Sharing
<1>6. l \in {"publish", "attached", "closed"}
      /\ (l # "closed" => a = s /\ w = want[e] /\ Compatible(e) /\ e \in Writers)
  BY <1>1 DEF Sharing
<1>7. TypeInv'
  <2>1. seg' \in [Segs -> Blocks] BY Zenon, <1>2 DEF Sharing
  <2>2. l \in Pcs BY <1>6 DEF Pcs, Mapped, Finished
  <2>3. pc' \in [Endpoints -> Pcs] BY <1>2, <2>2 DEF Sharing
  <2>4. at' \in [Endpoints -> 0 .. nsegs] BY <1>2 DEF Sharing
  <2>5. want' \in [Endpoints -> Wanted] BY <1>2 DEF Sharing
  <2>6. QED BY <1>0, <1>3, <2>1, <2>3, <2>4, <2>5 DEF TypeInv
<1>8. OneCreator'
  <2>1. l \notin InitPcs BY <1>6 DEF InitPcs
  <2>2. \A f \in Endpoints : pc'[f] \in InitPcs => pc[f] \in InitPcs /\ at'[f] = at[f]
    BY <1>4, <2>1
  <2>3. QED BY <2>2 DEF SegInv, OneCreator
<1>9. Fresh' BY <1>1, <1>3, <1>4 DEF SegInv, Fresh, Segs
<1>10. OneName' BY <1>3 DEF SegInv, OneName
<1>11. ASSUME NEW t \in Segs, seg'[t].ready
       PROVE  seg'[t].attach = Cardinality(Holders(t)') + leaked'[t]
  <2>1. CASE t # s
    <3>1. l # "closed" => a # t BY <1>6, <2>1
    <3>2. Holders(t)' = Holders(t) BY <1>1, <1>4, <1>6, <2>1, <3>1 DEF Holders, Endpoints
    <3>3. QED BY <1>3, <1>4, <1>11, <2>1, <3>2 DEF SegInv, AttachCountExact
  <2>2. CASE t = s
    <3>1. b.attach = Cardinality(Holders(s)') + leaked[s] BY DEF Sharing
    <3>2. Holders(t)' = Holders(s)' BY <2>2
    <3>3. QED BY <1>3, <1>4, <2>2, <3>1, <3>2
  <2>3. QED BY <2>1, <2>2
<1>12. AttachCountExact' BY <1>11 DEF AttachCountExact
<1>13. ASSUME NEW f \in Endpoints PROVE Phase(f)'
  <2>0. Phase(f) BY DEF SegInv
  <2>1. CASE f = e /\ l = "closed" BY <1>4, <2>1 DEF Phase, Mapped, InitPcs, Finished
  <2>2. CASE f = e /\ l # "closed"
    <3>1. Header(e)' = b /\ at'[e] = s /\ pc'[e] \in {"publish", "attached"}
      BY <1>4, <1>6, <2>2 DEF Header
    <3>2. Compatible(e)' BY <1>1, <1>4, <1>5, <1>6, <2>2, <3>1 DEF Compatible
    <3>3. QED BY <1>1, <1>5, <1>6, <2>2, <3>1, <3>2 DEF Phase, InitPcs
  <2>3. CASE f # e /\ at[f] = s
    <3>1. Header(f) = seg[s] /\ Header(f)' = b /\ at'[f] = at[f] BY <1>4, <2>3 DEF Header
    <3>2. pc[f] \notin InitPcs BY <1>1, <2>0, <3>1 DEF Phase
    <3>3. Compatible(f)' = Compatible(f) BY <1>4, <1>5, <2>3, <3>1 DEF Compatible
    <3>4. QED BY Zenon, <1>4, <1>5, <2>0, <2>3, <3>1, <3>2, <3>3 DEF Phase, InitPcs
  <2>4. CASE f # e /\ at[f] # s /\ pc[f] \in Mapped
    <3>1. at[f] \in Segs BY <1>0, <2>0, <2>4, MappedSegment
    <3>2. Header(f)' = Header(f) BY <1>4, <2>4, <3>1 DEF Header
    <3>3. QED BY <1>3, <1>4, <2>0, <2>4, <3>2, SamePhase
  <2>5. CASE f # e /\ pc[f] \notin Mapped BY <1>4, <2>0, <2>5, UnmappedPhase DEF Mapped
  <2>6. QED BY <2>1, <2>2, <2>3, <2>4, <2>5
<1>14. QED BY <1>7, <1>8, <1>9, <1>10, <1>12, <1>13 DEF SegInv

\* attach_count grows by the endpoint that attaches.
LEMMA RefKeeps == ASSUME SegInv, NEW e \in Endpoints, Ref(e) PROVE SegInv'
<1>0. TypeInv /\ Phase(e) /\ pc[e] = "ref" BY DEF SegInv, Ref
<1> PICK s : s = at[e]
  OBVIOUS
<1> DEFINE b == [Header(e) EXCEPT !.attach = Header(e).attach + 1]
<1>1. /\ s \in Segs /\ Header(e) \in Blocks /\ s \in 0 .. nsegs /\ want[e] \in Wanted
      /\ at = [at EXCEPT ![e] = at[e]] /\ want = [want EXCEPT ![e] = want[e]]
      /\ Header(e) = seg[s] /\ pc \in [Endpoints -> Pcs] /\ leaked[s] \in Nat
  BY <1>0, MappedSegment DEF TypeInv, Mapped, Finished, Header
<1>2. /\ seg' = [seg EXCEPT ![s] = b] /\ pc' = [pc EXCEPT ![e] = "publish"]
      /\ UNCHANGED <<name, nsegs, leaked, unlinks, at, want>>
  BY <1>1 DEF Ref, Goto, counts
<1>3. Header(e).ready /\ Compatible(e) /\ e \in Writers BY <1>0 DEF Phase, Finished
<1>4. b \in Blocks /\ b.size = Header(e).size /\ b.item = Header(e).item
      /\ b.ready = Header(e).ready /\ b.attach = Header(e).attach + 1 /\ Header(e).attach \in Int
  BY <1>1 DEF Blocks
<1>5. Cardinality(Holders(s)') = Cardinality(Holders(s)) + 1
  <2>1. e \notin Holders(s) BY <1>0 DEF Holders
  <2>2. Holders(s)' = Holders(s) \cup {e} BY <1>1, <1>2, <1>3 DEF Holders, Endpoints
  <2>3. QED BY <2>1, <2>2, HoldersFinite, FS_AddElement
<1>6. Header(e).attach = Cardinality(Holders(s)) + leaked[s]
  BY <1>1, <1>3 DEF SegInv, AttachCountExact
<1>7. b.attach = Cardinality(Holders(s)') + leaked[s]
  BY <1>1, <1>4, <1>5, <1>6, HoldersFinite
<1> HIDE DEF b
<1>8. at' = [at EXCEPT ![e] = at[e]] /\ want' = [want EXCEPT ![e] = want[e]] BY <1>1, <1>2
<1>9. Sharing(e, s, "publish", s, want[e], b)
  BY <1>0, <1>1, <1>2, <1>3, <1>4, <1>7, <1>8 DEF Sharing, Finished
<1>10. QED BY <1>9, SharedStep

\* producer_pid changes no count and no field that attaching compares.
LEMMA PublishKeeps == ASSUME SegInv, NEW e \in Endpoints, PublishPid(e) PROVE SegInv'
<1>0. TypeInv /\ Phase(e) /\ pc[e] = "publish" BY DEF SegInv, PublishPid
<1> PICK s : s = at[e]
  OBVIOUS
<1> DEFINE p == IF e \in Producers THEN e ELSE IF created[e] THEN 0 ELSE Header(e).pid
           b == [Header(e) EXCEPT !.pid = p]
<1>1. /\ s \in Segs /\ Header(e) \in Blocks /\ s \in 0 .. nsegs /\ want[e] \in Wanted
      /\ at = [at EXCEPT ![e] = at[e]] /\ want = [want EXCEPT ![e] = want[e]]
      /\ Header(e) = seg[s] /\ pc \in [Endpoints -> Pcs]
  BY <1>0, MappedSegment DEF TypeInv, Mapped, Finished, Header
<1>2. /\ seg' = [seg EXCEPT ![s] = b] /\ pc' = [pc EXCEPT ![e] = "attached"]
      /\ UNCHANGED <<name, nsegs, leaked, unlinks, at, want>>
  BY <1>1 DEF PublishPid, Goto, counts
<1>3. Header(e).ready /\ Compatible(e) /\ e \in Writers BY <1>0 DEF Phase, Finished
<1>4. p \in Endpoints \cup {0}
  <2>1. Header(e).pid \in Endpoints \cup {0} BY <1>1 DEF Blocks
  <2>2. QED BY <2>1
<1>5. b \in Blocks /\ b.size = Header(e).size /\ b.item = Header(e).item
      /\ b.ready = Header(e).ready /\ b.attach = Header(e).attach
  <2> HIDE DEF p
  <2> QED BY <1>1, <1>4 DEF Blocks
<1>6. Holders(s)' = Holders(s) BY <1>0, <1>1, <1>2, <1>3 DEF Holders, Endpoints
<1>7. b.attach = Cardinality(Holders(s)') + leaked[s]
  BY <1>1, <1>3, <1>5, <1>6 DEF SegInv, AttachCountExact
<1> HIDE DEF b
<1>8. at' = [at EXCEPT ![e] = at[e]] /\ want' = [want EXCEPT ![e] = want[e]] BY <1>1, <1>2
<1>9. Sharing(e, s, "attached", s, want[e], b)
  BY <1>0, <1>1, <1>2, <1>3, <1>5, <1>7, <1>8 DEF Sharing, Finished
<1>10. QED BY <1>9, SharedStep

\* What an endpoint that is gone holds.
LEMMA DefaultWanted == Default \in Wanted
<1>1. \E w : w \in Wants BY WantsAssumption
<1>2. Default \in Wants BY <1>1 DEF Default
<1>3. QED BY <1>2, WantsAssumption DEF Options, Wanted

\* A destructor drops exactly the reference its constructor took.
LEMMA CloseKeeps == ASSUME SegInv, NEW e \in Endpoints, Close(e) PROVE SegInv'
<1>0. TypeInv /\ Phase(e) /\ pc[e] = "attached" BY DEF SegInv, Close
<1> PICK s : s = at[e]
  OBVIOUS
<1> DEFINE k == IF e \in Writers THEN 1 ELSE 0
           b == [Header(e) EXCEPT !.attach = Header(e).attach - k]
<1>1. /\ s \in Segs /\ Header(e) \in Blocks /\ s \in 0 .. nsegs /\ nsegs \in Nat /\ s # 0
      /\ Header(e) = seg[s] /\ pc \in [Endpoints -> Pcs] /\ leaked[s] \in Nat
      /\ at \in [Endpoints -> 0 .. nsegs]
  BY Zenon, <1>0, MappedSegment DEF TypeInv, Mapped, Finished, Header, Phase
<1>2. /\ seg' = [seg EXCEPT ![s] = b] /\ pc' = [pc EXCEPT ![e] = "closed"]
      /\ at' = [at EXCEPT ![e] = 0] /\ want' = [want EXCEPT ![e] = Default]
      /\ UNCHANGED <<name, nsegs, leaked, unlinks>>
  BY <1>1 DEF Close, Gone, Goto, counts
<1>3. Header(e).ready BY <1>0 DEF Phase, Finished
<1>4. k \in Int OBVIOUS
<1>5. b \in Blocks /\ b.size = Header(e).size /\ b.item = Header(e).item
      /\ b.ready = Header(e).ready /\ b.attach = Header(e).attach - k /\ Header(e).attach \in Int
  <2> HIDE DEF k
  <2> QED BY <1>1, <1>4 DEF Blocks
<1>6. Cardinality(Holders(s)') = Cardinality(Holders(s)) - k
  <2>1. CASE e \in Writers
    <3>1. e \in Holders(s) BY <1>0, <2>1 DEF Holders
    <3>2. Holders(s)' = Holders(s) \ {e} BY <1>1, <1>2 DEF Holders, Endpoints
    <3>3. IsFiniteSet(Holders(s)) BY HoldersFinite
    <3>4. Cardinality(Holders(s) \ {e}) = Cardinality(Holders(s)) - 1
      BY Zenon, <3>1, <3>3, FS_RemoveElement
    <3>5. k = 1 BY <2>1
    <3>6. QED BY <3>2, <3>4, <3>5
  <2>2. CASE e \notin Writers
    <3>1. Holders(s)' = Holders(s) BY <1>1, <1>2, <2>2 DEF Holders, Endpoints
    <3>2. QED BY <2>2, <3>1, HoldersFinite
  <2>3. QED BY <2>1, <2>2
<1>7. Header(e).attach = Cardinality(Holders(s)) + leaked[s]
  BY <1>1, <1>3 DEF SegInv, AttachCountExact
<1>8. b.attach = Cardinality(Holders(s)') + leaked[s]
  <2> HIDE DEF k, b
  <2>1. Cardinality(Holders(s)) \in Nat BY HoldersFinite
  <2>2. leaked[s] \in Nat BY <1>1
  <2>3. b.attach = Cardinality(Holders(s)) + leaked[s] - k
    BY <1>4, <1>5, <1>7, <2>1, <2>2
  <2>4. QED BY <1>4, <1>6, <2>1, <2>2, <2>3
<1> HIDE DEF b
<1>9. 0 \in 0 .. nsegs BY <1>1
<1>10. Sharing(e, s, "closed", 0, Default, b)
  BY <1>0, <1>1, <1>2, <1>3, <1>5, <1>8, <1>9, DefaultWanted DEF Sharing, Finished
<1>11. QED BY <1>10, SharedStep

\* A crash leaves its reference behind, and nothing else of consequence.
LEMMA CrashKeeps == ASSUME SegInv, NEW e \in Endpoints, Crash(e) PROVE SegInv'
<1>0. TypeInv BY DEF SegInv
<1>1. /\ pc' = [pc EXCEPT ![e] = "closed"]
      /\ at' = [at EXCEPT ![e] = 0] /\ want' = [want EXCEPT ![e] = Default]
      /\ UNCHANGED <<name, nsegs, seg, unlinks>>
      /\ leaked' = [s \in Segs |-> IF e \in Holders(s) THEN leaked[s] + 1 ELSE leaked[s]]
  BY DEF Crash, Gone, Goto
<1>2. /\ pc'[e] = "closed" /\ at'[e] = 0
      /\ \A f \in Endpoints : f # e => pc'[f] = pc[f] /\ at'[f] = at[f] /\ want'[f] = want[f]
  BY <1>0, <1>1 DEF TypeInv
<1>3. TypeInv'
  <2>1. leaked' \in [Segs -> Nat] BY <1>0, <1>1 DEF TypeInv
  <2>2. pc' \in [Endpoints -> Pcs] BY <1>0, <1>1 DEF TypeInv, Pcs
  <2>3. at' \in [Endpoints -> 0 .. nsegs] BY <1>0, <1>1 DEF TypeInv
  <2>4. want' \in [Endpoints -> Wanted] BY <1>0, <1>1, DefaultWanted DEF TypeInv
  <2>5. QED BY <1>0, <1>1, <2>1, <2>2, <2>3, <2>4 DEF TypeInv
<1>4. OneCreator' BY <1>2 DEF SegInv, OneCreator, InitPcs
<1>5. Fresh'
  <2>1. ASSUME NEW s \in Segs, s > nsegs PROVE e \notin Holders(s)
    <3>1. at[e] # s BY <1>0, <2>1 DEF TypeInv, Segs
    <3>2. QED BY <3>1 DEF Holders
  <2>2. QED BY <1>1, <2>1 DEF SegInv, Fresh
<1>6. OneName' BY <1>1 DEF SegInv, OneName
<1>7. ASSUME NEW s \in Segs, seg'[s].ready
      PROVE  seg'[s].attach = Cardinality(Holders(s)') + leaked'[s]
  <2>0. seg[s].attach = Cardinality(Holders(s)) + leaked[s] /\ leaked[s] \in Nat
    BY <1>0, <1>1, <1>7 DEF SegInv, AttachCountExact, TypeInv
  <2>1. Holders(s)' = Holders(s) \ {e} BY <1>2 DEF Holders, Endpoints
  <2>2. CASE e \in Holders(s)
    <3>1. Cardinality(Holders(s)') = Cardinality(Holders(s)) - 1
      <4>1. IsFiniteSet(Holders(s)) BY HoldersFinite
      <4>2. QED BY Zenon, <2>1, <2>2, <4>1, FS_RemoveElement
    <3>2. leaked'[s] = leaked[s] + 1 /\ seg'[s] = seg[s] BY <1>1, <2>2
    <3>3. Cardinality(Holders(s)) \in Nat BY HoldersFinite
    <3>4. seg'[s].attach = Cardinality(Holders(s)) + leaked[s] BY <2>0, <3>2
    <3>5. QED BY <2>0, <3>1, <3>2, <3>3, <3>4
  <2>3. CASE e \notin Holders(s)
    <3>1. Holders(s)' = Holders(s) BY <2>1, <2>3
    <3>2. leaked'[s] = leaked[s] BY <1>1, <2>3
    <3>3. QED BY <1>1, <2>0, <3>1, <3>2
  <2>4. QED BY <2>2, <2>3
<1>8. AttachCountExact' BY <1>7 DEF AttachCountExact
<1>9. ASSUME NEW f \in Endpoints PROVE Phase(f)'
  <2>0. Phase(f) BY DEF SegInv
  <2>1. CASE f = e BY <1>2, <2>1 DEF Phase, Mapped, InitPcs, Finished
  <2>2. CASE f # e /\ pc[f] \in InitPcs
    <3>1. at[f] \in Segs BY <1>0, <2>0, <2>2, MappedSegment DEF Mapped
    <3>2. e \notin Holders(at[f])
      <4>1. at[e] = at[f] => pc[e] \notin InitPcs /\ pc[e] \notin Finished BY <2>2, CreatorAlone
      <4>2. QED BY <4>1 DEF Holders, InitPcs, Finished
    <3>3. leaked'[at[f]] = leaked[at[f]] BY <1>1, <3>1, <3>2
    <3>4. Header(f)' = Header(f) BY <1>1, <1>2, <2>2 DEF Header
    <3>5. QED BY Zenon, <1>2, <2>0, <2>2, <3>3, <3>4, SamePhase
  <2>3. CASE f # e /\ pc[f] \notin InitPcs
    <3>1. Header(f)' = Header(f) BY <1>1, <1>2, <2>3 DEF Header
    <3>2. QED BY <1>2, <2>0, <2>3, <3>1, SamePhase
  <2>4. QED BY <2>1, <2>2, <2>3
<1>10. QED BY <1>3, <1>4, <1>5, <1>6, <1>8, <1>9 DEF SegInv

\* unlink takes the name and leaves the segments.
LEMMA UnlinkKeeps == ASSUME SegInv, Unlink PROVE SegInv'
<1>1. /\ UNCHANGED <<nsegs, seg, pc, want, at, leaked>> /\ name' = 0 /\ unlinks' = unlinks + 1
  BY DEF Unlink, own
<1>2. TypeInv BY DEF SegInv
<1>3. TypeInv' BY <1>1, <1>2 DEF TypeInv
<1>4. OneName' BY <1>1, <1>2 DEF TypeInv, OneName
<1>5. OneCreator' /\ Fresh' BY <1>1 DEF SegInv, OneCreator, Fresh
<1>6. AttachCountExact' BY <1>1 DEF SegInv, AttachCountExact, Holders
<1>7. \A e \in Endpoints : Phase(e)' BY <1>1 DEF SegInv, Phase, Header, Compatible
<1>8. QED BY <1>3, <1>4, <1>5, <1>6, <1>7 DEF SegInv

-----------------------------------------------------------------------------
\* Before anyone opened anything.
LEMMA SegInit == Init => SegInv
<1> SUFFICES ASSUME Init PROVE SegInv
  OBVIOUS
<1>1. TypeInv
  <2>1. Blank \in Blocks BY DEF Blank, Blocks
  <2>2. seg \in [Segs -> Blocks] /\ leaked \in [Segs -> Nat] BY <2>1 DEF Init
  <2>3. pc \in [Endpoints -> Pcs] BY DEF Init, Pcs
  <2>4. want \in [Endpoints -> Wanted] BY DefaultWanted DEF Init
  <2>5. at \in [Endpoints -> 0 .. nsegs] BY DEF Init
  <2>6. nsegs \in Nat /\ name \in 0 .. nsegs /\ nsegs <= MaxSegs /\ unlinks \in Nat
    BY SegmentBounds DEF Init
  <2>7. QED BY <2>2, <2>3, <2>4, <2>5, <2>6 DEF TypeInv
<1>2. \A e \in Endpoints : pc[e] = "closed" BY DEF Init
<1>3. \A s \in Segs : ~seg[s].ready /\ leaked[s] = 0 BY DEF Init, Blank
<1>4. OneCreator BY <1>2 DEF OneCreator, InitPcs
<1>5. Fresh /\ AttachCountExact BY <1>3 DEF Fresh, AttachCountExact
<1>6. OneName BY DEF Init, OneName
<1>7. \A e \in Endpoints : Phase(e) BY <1>2 DEF Phase, Mapped, InitPcs, Finished
<1>8. QED BY <1>1, <1>4, <1>5, <1>6, <1>7 DEF SegInv

\* Every reachable state satisfies the inductive invariant.
THEOREM SegmentInvariant == Spec => []SegInv
<1>1. Init => SegInv BY SegInit
<1>2. SegInv /\ [Next]_vars => SegInv'
  <2> SUFFICES ASSUME SegInv, [Next]_vars PROVE SegInv'
    OBVIOUS
  <2>1. ASSUME NEW e \in Endpoints, Step(e) PROVE SegInv'
    <3>1. CASE Truncate(e)
      <4>1. CASE seg' = [seg EXCEPT ![at[e]].size = want[e].cap] /\ Goto(e, "init")
        BY Zenon, <3>1, <4>1, InitKeeps
      <4>2. CASE Fail(e, "os") /\ UNCHANGED seg BY <3>1, <4>2, ChecksKeep
      <4>3. QED BY <3>1, <4>1, <4>2 DEF Truncate
    <3>2. CASE Excl(e) \/ Reopen(e) BY <3>2, ExclKeeps, ReopenKeeps
    <3>3. CASE \/ Stat(e) \/ CopyFields(e) \/ InitFails(e) \/ CheckMagic(e) \/ Spin(e) \/ Compare(e)
      BY <3>3, ChecksKeep
    <3>4. CASE InitMagic(e) \/ InitFields(e) \/ InitCount(e) \/ InitReady(e) BY Zenon, <3>4, InitKeeps
    <3>5. CASE Ref(e) \/ PublishPid(e) BY <3>5, RefKeeps, PublishKeeps
    <3>6. QED BY <2>1, <3>1, <3>2, <3>3, <3>4, <3>5 DEF Step
  <2>2. ASSUME NEW e \in Endpoints, Open(e) \/ Close(e) \/ Crash(e) PROVE SegInv'
    BY <2>2, OpenKeeps, CloseKeeps, CrashKeeps
  <2>3. CASE Unlink BY <2>3, UnlinkKeeps
  <2>4. CASE UNCHANGED vars
    <3>1. UNCHANGED <<name, nsegs, seg, pc, want, at, unlinks, leaked>>
      BY <2>4 DEF vars, own, counts
    <3>2. TypeInv' /\ OneCreator' /\ Fresh' /\ OneName'
      BY <3>1 DEF SegInv, TypeInv, OneCreator, Fresh, OneName
    <3>3. AttachCountExact' BY <3>1 DEF SegInv, AttachCountExact, Holders
    <3>4. \A e \in Endpoints : Phase(e)' BY <3>1 DEF SegInv, Phase, Header, Compatible
    <3>5. QED BY <3>2, <3>3, <3>4 DEF SegInv
  <2>5. QED BY <2>1, <2>2, <2>3, <2>4 DEF Next
<1>3. QED BY <1>1, <1>2, PTL DEF Spec

\* attach_count of a ready segment is the number of producers and consumers attached or
\* about to be, plus those that died attached.
THEOREM AttachCountIsExact == Spec => []AttachCountExact
<1>1. SegInv => AttachCountExact BY DEF SegInv
<1>2. QED BY <1>1, SegmentInvariant, PTL

\* Whoever is attached shares a finished segment with the manifest and capacity it
\* asked for.
THEOREM AttachedShareManifest == Spec => []AttachedIsCompatible
<1>1. SegInv => AttachedIsCompatible BY DEF SegInv, Phase, Finished, AttachedIsCompatible
<1>2. QED BY <1>1, SegmentInvariant, PTL

\* Without an unlink all who are attached are attached to one segment.
THEOREM RacersMeet == Spec => []Rendezvous
<1>1. SegInv => Rendezvous
  <2> SUFFICES ASSUME SegInv, unlinks = 0, NEW e \in Endpoints, NEW f \in Endpoints,
                      pc[e] = "attached", pc[f] = "attached"
               PROVE  at[e] = at[f]
    BY DEF Rendezvous
  <2>1. at[e] # 0 /\ at[f] # 0 BY DEF SegInv, Phase, Mapped, Finished
  <2>2. nsegs <= 1 /\ nsegs \in Nat /\ at[e] \in 0 .. nsegs /\ at[f] \in 0 .. nsegs
    BY DEF SegInv, OneName, TypeInv
  <2>3. QED BY <2>1, <2>2
<1>2. QED BY <1>1, SegmentInvariant, PTL
=============================================================================
