----------------------------- MODULE BindingsProofs -----------------------------
(***************************************************************************)
(* The objects of the two bindings, for every set of trackers, lengths and *)
(* buffers, every size of the ring and every number of messages; and the   *)
(* options that pass through them, for all that scripts, builders and      *)
(* earlier creators may have asked for.                                    *)
(***************************************************************************)
EXTENDS Bindings, Options, FiniteSetTheorems, TLAPS

Inside == {"sending", "copying", "peeking"}
Waits == {"entering", "waiting", "waited", "failed"}
Pcs == {"idle"} \cup Inside \cup Waits \cup Errors

\* The script refers to open objects only.  The observer of Node knows how many trackers
\* are open, and is open while there is one; Python has none.
ObjectsInv ==
  /\ host \in {"node", "python"}
  /\ live \subseteq Classes /\ refs \subseteq live
  /\ IsFiniteSet(live \cap Trackers) /\ trackers = Cardinality(live \cap Trackers)
  /\ live \cap Trackers # {} => host = "node" /\ "observer" \in live

\* A message retained by the handle was the last one released.
ChannelInv ==
  /\ lens \in Seq(Nat) /\ taken \in 0 .. Len(lens) /\ pending \in 0 .. taken

\* The last error of a thread whose call failed is that of the call.
OwnErrors ==
  \A t \in Threads : pc[t] \in Errors => err[t] = IF pc[t] = "again" THEN "empty" ELSE pc[t]

\* The native calls that scripts see as one run inside the interpreter.  A thread whose
\* call failed, the pool thread included, has the text of its own failure.
ThreadsInv ==
  /\ turn \in Threads \cup {"none"}
  /\ pc \in [Threads -> Pcs] /\ need \in [Threads -> Nat] /\ err \in [Threads -> Errors \cup {"empty"}]
  /\ \A t \in Threads : pc[t] \in Inside => turn = t
  /\ \A t \in Threads : pc[t] = "peeking" => "observer" \in live
  /\ ProbeStillValid
  /\ OwnErrors

\* In Node the pool thread does nothing but wait, active_waits_ says whether it does, and
\* the consumer is open as long as anyone waits; in Python close() may take it away.
WaitsInv ==
  /\ host = "node" =>
       /\ pc["aux"] \in {"idle"} \cup Waits
       /\ waits = IF pc["aux"] = "idle" THEN 0 ELSE 1
       /\ pc["main"] # "idle" => turn = "main"
       /\ \A t \in Threads : pc[t] \in Waits => "consumer" \in live
  /\ \A t \in Threads : pc[t] = "waiting" => "consumer" \in live \/ (host = "python" /\ orphaned)

\* The inductive invariant.
BindInv == ObjectsInv /\ ChannelInv /\ ThreadsInv /\ WaitsInv

-----------------------------------------------------------------------------
\* What Append does to the lengths of the messages.
LEMMA AppendLens ==
  ASSUME NEW s \in Seq(Nat), NEW n \in Nat
  PROVE  /\ Append(s, n) \in Seq(Nat)
         /\ Len(Append(s, n)) = Len(s) + 1
         /\ Len(s) \in Nat
         /\ \A i \in 1 .. Len(s) : Append(s, n)[i] = s[i]
  OBVIOUS

\* One thread moves on, inside the interpreter unless it leaves the message retained
\* and the interpreter alone: nothing changes for the other.
LEMMA ThreadStep ==
  ASSUME ThreadsInv, NEW t \in Threads, NEW x \in Pcs, NEW e \in Errors \cup {"empty"},
         pc' = [pc EXCEPT ![t] = x], err' = [err EXCEPT ![t] = e],
         need' \in [Threads -> Nat], \A u \in Threads \ {t} : need'[u] = need[u],
         turn' \in Threads \cup {"none"}, live' = live,
         turn \in {"none", t} \/ UNCHANGED <<turn, lens, pending>>,
         x \in Inside => turn' = t,
         x = "peeking" => "observer" \in live,
         x = "copying" => pending' # 0 /\ lens'[pending'] = need'[t],
         x \in Errors => e = IF x = "again" THEN "empty" ELSE x
  PROVE  ThreadsInv'
<1>1. pc \in [Threads -> Pcs] /\ err \in [Threads -> Errors \cup {"empty"}] BY Zenon DEF ThreadsInv
<1>2. pc' \in [Threads -> Pcs] /\ err' \in [Threads -> Errors \cup {"empty"}] BY Zenon, <1>1
<1>3. pc'[t] = x /\ err'[t] = e BY Zenon, <1>1
<1>4. \A u \in Threads \ {t} : pc'[u] = pc[u] /\ err'[u] = err[u] /\ need'[u] = need[u] BY Zenon, <1>1
<1>5. \A u \in Threads \ {t} : pc[u] \in Inside => turn' = u /\ UNCHANGED <<lens, pending>>
  <2>1. \A u \in Threads \ {t} : pc[u] \in Inside => turn = u /\ u # "none"
    BY Zenon DEF ThreadsInv, Threads
  <2>2. QED BY Zenon, <2>1
<1>6. \A u \in Threads : pc'[u] \in Inside => turn' = u BY Zenon, <1>3, <1>4, <1>5
<1>7. \A u \in Threads : pc'[u] = "peeking" => "observer" \in live' BY Zenon, <1>3, <1>4 DEF ThreadsInv
<1>8. ProbeStillValid'
  <2>1. "copying" \in Inside BY Zenon DEF Inside
  <2>2. ASSUME NEW u \in Threads, pc'[u] = "copying" PROVE pending' # 0 /\ lens'[pending'] = need'[u]
    <3>1. CASE u = t BY Zenon, <2>2, <3>1, <1>3
    <3>2. CASE u # t
      <4>1. pc[u] = "copying" /\ need'[u] = need[u] BY Zenon, <2>2, <3>2, <1>4
      <4>2. lens' = lens /\ pending' = pending BY Zenon, <4>1, <3>2, <2>1, <1>5
      <4>3. pending # 0 /\ lens[pending] = need[u] BY Zenon, <4>1 DEF ThreadsInv, ProbeStillValid
      <4>4. QED BY Zenon, <4>1, <4>2, <4>3
    <3>3. QED BY Zenon, <3>1, <3>2
  <2>3. QED BY Zenon, <2>2 DEF ProbeStillValid
<1>9. OwnErrors' BY Zenon, <1>3, <1>4 DEF ThreadsInv, OwnErrors
<1>10. QED BY Zenon, <1>2, <1>6, <1>7, <1>8, <1>9 DEF ThreadsInv

\* The same for all of the invariant, when the thread is in a call from a script or is
\* the pool thread in its wait, and no object comes or goes.
LEMMA CallStep ==
  ASSUME BindInv, NEW t \in Threads, NEW x \in Pcs, NEW e \in Errors \cup {"empty"},
         pc' = [pc EXCEPT ![t] = x], err' = [err EXCEPT ![t] = e],
         need' \in [Threads -> Nat], \A u \in Threads \ {t} : need'[u] = need[u],
         turn' \in Threads \cup {"none"}, ChannelInv',
         UNCHANGED <<host, live, refs, waits, trackers, orphaned>>,
         turn \in {"none", t} \/ UNCHANGED <<turn, lens, pending>>,
         x \in Inside => turn' = t,
         x = "peeking" => "observer" \in live,
         x = "copying" => pending' # 0 /\ lens'[pending'] = need'[t],
         x \in Errors => e = IF x = "again" THEN "empty" ELSE x,
         x \in Waits => "consumer" \in live \/ (host = "python" /\ x # "waiting"),
         host = "node" /\ t = "main" /\ x # "idle" => turn' = "main",
         host = "node" /\ t = "aux" => pc["aux"] # "idle" /\ x \in Waits /\ turn' = turn
  PROVE  BindInv'
<1>1. ThreadsInv' BY Zenon, ThreadStep DEF BindInv
<1>2. ObjectsInv' BY Zenon DEF BindInv, ObjectsInv
<1>3. WaitsInv'
  <2>1. pc \in [Threads -> Pcs] BY Zenon DEF BindInv, ThreadsInv
  <2>2. pc'[t] = x /\ \A u \in Threads \ {t} : pc'[u] = pc[u] BY Zenon, <2>1
  <2>3. \A u \in Threads : pc'[u] = "waiting" => "consumer" \in live' \/ (host' = "python" /\ orphaned')
    <3>1. "waiting" \in Waits BY Zenon DEF Waits
    <3>2. QED BY <2>2, <3>1 DEF BindInv, WaitsInv
  <2>4. SUFFICES ASSUME host = "node"
                 PROVE  /\ pc'["aux"] \in {"idle"} \cup Waits
                        /\ waits = IF pc'["aux"] = "idle" THEN 0 ELSE 1
                        /\ pc'["main"] # "idle" => turn' = "main"
                        /\ \A u \in Threads : pc'[u] \in Waits => "consumer" \in live
    BY Zenon, <2>3 DEF WaitsInv
  <2>5. "idle" \notin Waits BY Zenon DEF Waits
  <2>6. \A u \in Threads : pc'[u] \in Waits => "consumer" \in live
    BY Zenon, <2>2, <2>4 DEF BindInv, WaitsInv
  <2>7. CASE t = "main"
    <3>1. "aux" \in Threads \ {t} BY Zenon, <2>7 DEF Threads
    <3>2. pc'["aux"] = pc["aux"] BY Zenon, <2>2, <3>1
    <3>3. QED BY Zenon, <2>2, <2>4, <2>6, <2>7, <3>2 DEF BindInv, WaitsInv
  <2>8. CASE t = "aux"
    <3>1. "main" \in Threads \ {t} BY Zenon, <2>8 DEF Threads
    <3>2. pc'["main"] = pc["main"] BY Zenon, <2>2, <3>1
    <3>3. QED BY Zenon, <2>2, <2>4, <2>5, <2>6, <2>8, <3>2 DEF BindInv, WaitsInv
  <2>9. QED BY Zenon, <2>7, <2>8 DEF Threads
<1>4. QED BY Zenon, <1>1, <1>2, <1>3 DEF BindInv

-----------------------------------------------------------------------------
\* A call starts between calls, in Node on the JavaScript thread.
LEMMA Starting ==
  ASSUME BindInv, NEW t \in Threads, Calls(t)
  PROVE  /\ turn = "none" /\ pc[t] = "idle" /\ (host = "node" => t = "main")
         /\ pc = [pc EXCEPT ![t] = "idle"]
         /\ need \in [Threads -> Nat]
  BY Zenon DEF Calls, BindInv, ThreadsInv

\* What a poll leaves retained did not fit the buffer.
LEMMA PollFacts ==
  ASSUME ChannelInv, NEW cap \in Nat, Poll(cap), lens' = lens
  PROVE  /\ ChannelInv'
         /\ pending' # 0 => lens[pending'] \in Nat /\ lens[pending'] > cap
         /\ pending # 0 /\ lens[pending] <= cap => pending' = 0
  BY DEF ChannelInv, Poll, Front

\* send..., which may stay inside until there is room.
LEMMA SendKeeps == ASSUME BindInv, NEW t \in Threads, NEW n \in Lens, Send(t, n) PROVE BindInv'
<1>1. Calls(t) BY Zenon DEF Send, Method
<1>2. n \in Nat BY Zenon, BindingsAssumption
<1>3. UNCHANGED <<host, taken, pending, live, refs, waits, trackers, orphaned>> BY Zenon DEF Send, counts
<1>4. CASE Commit(n) /\ Returns(t) /\ UNCHANGED need
  <2>1. ChannelInv' BY <1>2, <1>3, <1>4, AppendLens DEF Commit, BindInv, ChannelInv
  <2>2. /\ err' = [err EXCEPT ![t] = "empty"] /\ turn' = "none"
        /\ pc' = [pc EXCEPT ![t] = "idle"] /\ need' \in [Threads -> Nat]
    BY Zenon, <1>1, <1>4, Starting DEF Returns, clear_last_error
  <2>3. QED BY Zenon, <1>1, <1>3, <1>4, <2>1, <2>2, Starting, CallStep DEF Pcs, Inside, Waits, Errors
<1>5. CASE Stays(t, "sending") /\ need' = [need EXCEPT ![t] = n] /\ UNCHANGED <<lens, err>>
  <2>1. ChannelInv' BY Zenon, <1>3, <1>5 DEF BindInv, ChannelInv
  <2>2. need' \in [Threads -> Nat] /\ \A u \in Threads \ {t} : need'[u] = need[u]
    BY Zenon, <1>1, <1>2, <1>5, Starting
  <2>3. err[t] \in Errors \cup {"empty"} /\ err' = [err EXCEPT ![t] = err[t]]
    BY Zenon, <1>5 DEF BindInv, ThreadsInv
  <2>4. pc' = [pc EXCEPT ![t] = "sending"] /\ turn' = t BY Zenon, <1>5 DEF Stays, Goto
  <2>5. QED BY Zenon, <1>1, <1>3, <2>1, <2>2, <2>3, <2>4, Starting, CallStep DEF Pcs, Inside, Waits, Errors
<1>6. CASE Fails(t, "refused") /\ UNCHANGED <<lens, need>>
  <2>1. ChannelInv' BY Zenon, <1>3, <1>6 DEF BindInv, ChannelInv
  <2>2. /\ err' = [err EXCEPT ![t] = "refused"] /\ turn' = t
        /\ pc' = [pc EXCEPT ![t] = "refused"] /\ need' \in [Threads -> Nat]
    BY Zenon, <1>1, <1>6, Starting DEF Fails, set_last_error, Goto
  <2>3. QED BY Zenon, <1>1, <1>3, <1>6, <2>1, <2>2, Starting, CallStep DEF Pcs, Inside, Waits, Errors
<1>7. QED BY Zenon, <1>4, <1>5, <1>6 DEF Send, SendC

\* There is room at last.
LEMMA SendDoneKeeps == ASSUME BindInv, NEW t \in Threads, SendDone(t) PROVE BindInv'
<1>1. /\ pc[t] = "sending" /\ need[t] \in Nat /\ turn = t
      /\ (host = "node" => t = "main")
  <2>1. pc[t] = "sending" BY Zenon DEF SendDone
  <2>2. need[t] \in Nat /\ turn = t BY Zenon, <2>1 DEF BindInv, ThreadsInv, Inside
  <2>3. host = "node" => t # "aux" BY Zenon, <2>1 DEF BindInv, WaitsInv, Waits
  <2>4. QED BY Zenon, <2>1, <2>2, <2>3 DEF Threads
<1>2. UNCHANGED <<host, taken, pending, live, refs, waits, trackers, orphaned>> BY Zenon DEF SendDone, counts
<1>3. ChannelInv' BY <1>1, <1>2, AppendLens DEF SendDone, Commit, BindInv, ChannelInv
<1>4. need' \in [Threads -> Nat] /\ \A u \in Threads \ {t} : need'[u] = need[u]
  BY Zenon DEF SendDone, BindInv, ThreadsInv
<1>5. pc' = [pc EXCEPT ![t] = "idle"] /\ err' = [err EXCEPT ![t] = "empty"] /\ turn' = "none"
  BY Zenon DEF SendDone, Ends, Goto, clear_last_error
<1>6. QED BY Zenon, <1>1, <1>2, <1>3, <1>4, <1>5, CallStep DEF Pcs, Inside, Waits, Errors

\* pollCopy: the length it has asked for is that of the message retained.
LEMMA PollCopyKeeps == ASSUME BindInv, NEW t \in Threads, PollCopy(t) PROVE BindInv'
<1>1. Calls(t) BY Zenon DEF PollCopy, Method
<1>2. UNCHANGED <<host, lens, live, refs, waits, trackers, orphaned>> BY Zenon DEF PollCopy, counts
<1>3. ChannelInv' /\ (pending' # 0 => lens[pending'] \in Nat)
  BY Zenon, <1>2, PollFacts DEF PollCopy, BindInv
<1>4. CASE pending' = 0
  <2>1. /\ err' = [err EXCEPT ![t] = "empty"] /\ turn' = "none"
        /\ pc' = [pc EXCEPT ![t] = "idle"] /\ need' = need
    BY Zenon, <1>1, <1>4, Starting DEF PollCopy, Returns, clear_last_error
  <2>2. QED BY Zenon, <1>1, <1>2, <1>3, <2>1, Starting, CallStep DEF Pcs, Inside, Waits, Errors
<1>5. CASE pending' # 0
  <2>1. /\ err' = [err EXCEPT ![t] = "too_small"] /\ turn' = t
        /\ pc' = [pc EXCEPT ![t] = "copying"]
        /\ need' = [need EXCEPT ![t] = lens[pending']]
    BY Zenon, <1>5 DEF PollCopy, set_last_error, Stays, Goto
  <2>2. /\ need' \in [Threads -> Nat] /\ need'[t] = lens'[pending']
        /\ \A u \in Threads \ {t} : need'[u] = need[u]
    BY Zenon, <1>1, <1>2, <1>3, <1>5, <2>1, Starting
  <2>3. QED BY Zenon, <1>1, <1>2, <1>3, <1>5, <2>1, <2>2, Starting, CallStep DEF Pcs, Inside, Waits, Errors
<1>6. QED BY Zenon, <1>4, <1>5

\* The copy fits.
LEMMA PollCopiedKeeps == ASSUME BindInv, NEW t \in Threads, PollCopied(t) PROVE BindInv'
<1>1. /\ pc[t] = "copying" /\ need[t] \in Nat /\ turn = t
      /\ (host = "node" => t = "main")
      /\ pending # 0 /\ lens[pending] = need[t]
  <2>1. pc[t] = "copying" BY Zenon DEF PollCopied
  <2>2. need[t] \in Nat /\ turn = t BY Zenon, <2>1 DEF BindInv, ThreadsInv, Inside
  <2>3. host = "node" => t # "aux" BY Zenon, <2>1 DEF BindInv, WaitsInv, Waits
  <2>4. pending # 0 /\ lens[pending] = need[t] BY Zenon, <2>1 DEF BindInv, ThreadsInv, ProbeStillValid
  <2>5. QED BY Zenon, <2>1, <2>2, <2>3, <2>4 DEF Threads
<1>2. UNCHANGED <<host, lens, live, refs, waits, trackers, orphaned>> BY Zenon DEF PollCopied, counts
<1>3. ChannelInv' /\ pending' = 0 BY <1>1, <1>2, PollFacts DEF PollCopied, BindInv
<1>4. need' \in [Threads -> Nat] /\ \A u \in Threads \ {t} : need'[u] = need[u]
  BY Zenon DEF PollCopied, BindInv, ThreadsInv
<1>5. pc' = [pc EXCEPT ![t] = "idle"] /\ err' = [err EXCEPT ![t] = "empty"] /\ turn' = "none"
  BY Zenon, <1>3 DEF PollCopied, Ends, Goto, clear_last_error
<1>6. QED BY Zenon, <1>1, <1>2, <1>3, <1>4, <1>5, CallStep DEF Pcs, Inside, Waits, Errors

\* pollCopyInto fails in the same call if the buffer is too small.
LEMMA PollIntoKeeps ==
  ASSUME BindInv, NEW t \in Threads, NEW cap \in Caps, PollCopyInto(t, cap) \/ PyPollCopyInto(t, cap)
  PROVE  BindInv'
<1>1. Calls(t) /\ Poll(cap) /\ cap \in Nat
  BY Zenon, BindingsAssumption DEF PollCopyInto, PyPollCopyInto, Method
<1>2. UNCHANGED <<host, lens, live, refs, waits, trackers, orphaned, need>>
  BY Zenon DEF PollCopyInto, PyPollCopyInto, counts
<1>3. ChannelInv' BY Zenon, <1>1, <1>2, PollFacts DEF BindInv
<1>4. CASE PollCopyInto(t, cap) /\ pending' # 0
  <2>1. /\ err' = [err EXCEPT ![t] = "too_small"] /\ turn' = t
        /\ pc' = [pc EXCEPT ![t] = "too_small"]
    BY Zenon, <1>4 DEF PollCopyInto, Fails, set_last_error, Goto
  <2>2. QED BY Zenon, <1>1, <1>2, <1>3, <2>1, Starting, CallStep DEF Pcs, Inside, Waits, Errors
<1>5. CASE ~(PollCopyInto(t, cap) /\ pending' # 0)
  <2>1. \E e \in Errors \cup {"empty"} : err' = [err EXCEPT ![t] = e]
    BY Zenon, <1>5 DEF PollCopyInto, PyPollCopyInto, Returns, clear_last_error, set_last_error, Errors
  <2>2. turn' = "none" /\ pc' = [pc EXCEPT ![t] = "idle"]
    BY Zenon, <1>1, <1>5, Starting DEF PollCopyInto, PyPollCopyInto, Returns
  <2>3. QED BY Zenon, <1>1, <1>2, <1>3, <2>1, <2>2, Starting, CallStep DEF Pcs, Inside, Waits, Errors
<1>6. QED BY Zenon, <1>4, <1>5

\* wait() is called on an open consumer.
LEMMA WaitKeeps == ASSUME BindInv, NEW t \in Threads, Wait(t) \/ PyWait(t) PROVE BindInv'
<1>1. Calls(t) /\ "consumer" \in live BY Zenon DEF Wait, PyWait, Method, BindInv, ObjectsInv
<1>2. UNCHANGED <<host, lens, taken, pending, live, refs, waits, trackers, orphaned, need, err>>
  BY Zenon DEF Wait, PyWait, counts, channel
<1>3. ChannelInv' BY Zenon, <1>2 DEF BindInv, ChannelInv
<1>4. /\ pc' = [pc EXCEPT ![t] = "entering"] /\ turn = "none" /\ need' \in [Threads -> Nat]
      /\ turn' \in Threads \cup {"none"} /\ (host = "node" => turn' = t /\ t = "main" /\ t # "aux")
  BY Zenon, <1>1, <1>2, Starting DEF Wait, PyWait, Stays, Goto
<1>5. err[t] \in Errors \cup {"empty"} /\ err' = [err EXCEPT ![t] = err[t]]
  BY Zenon, <1>2 DEF BindInv, ThreadsInv
<1>6. QED BY Zenon, <1>1, <1>2, <1>3, <1>4, <1>5, CallStep DEF Pcs, Inside, Waits, Errors

\* waitAsync() starts the pool thread, which is idle when active_waits_ is 0.
LEMMA WaitAsyncKeeps == ASSUME BindInv, WaitAsync PROVE BindInv'
<1>1. /\ host = "node" /\ turn = "none" /\ pc["main"] = "idle" /\ waits = 0 /\ "consumer" \in live
      /\ waits' = 1 /\ pc' = [pc EXCEPT !["aux"] = "entering"]
      /\ UNCHANGED <<host, lens, taken, pending, live, refs, trackers, turn, need, err, orphaned>>
  BY DEF WaitAsync, Method, Calls, BindInv, ObjectsInv, channel
<1>2. pc \in [Threads -> Pcs] /\ "aux" \in Threads /\ "main" \in Threads /\ "entering" \in Pcs \cap Waits
  BY Zenon DEF BindInv, ThreadsInv, Threads, Pcs, Waits
<1>3. /\ pc' \in [Threads -> Pcs] /\ pc'["aux"] = "entering" /\ pc'["main"] = "idle"
      /\ \A t \in Threads : pc'[t] \in {"entering", "idle"}
  BY Zenon, <1>1, <1>2 DEF Threads
<1>4. ThreadsInv'
  <2>1. \A t \in Threads : pc'[t] \notin Inside \cup Errors BY Zenon, <1>3 DEF Inside, Errors
  <2>2. "copying" \in Inside /\ "peeking" \in Inside BY Zenon DEF Inside
  <2>3. QED BY Zenon, <1>1, <1>3, <2>1, <2>2 DEF BindInv, ThreadsInv, ProbeStillValid, OwnErrors
<1>5. WaitsInv' BY Zenon, <1>1, <1>2, <1>3 DEF WaitsInv
<1>6. ObjectsInv' /\ ChannelInv' BY Zenon, <1>1 DEF BindInv, ObjectsInv, ChannelInv
<1>7. QED BY Zenon, <1>4, <1>5, <1>6 DEF BindInv

\* The native wait: the handle is there in Node; in Python close() may have come first.
LEMMA EnterWaitKeeps == ASSUME BindInv, NEW t \in Threads, EnterWait(t) PROVE BindInv'
<1>1. /\ pc[t] = "entering"
      /\ UNCHANGED <<host, lens, taken, pending, live, refs, waits, trackers, turn, need, orphaned>>
  BY Zenon DEF EnterWait, counts, channel
<1>2. /\ host = "node" => "consumer" \in live /\ (t = "main" => turn = "main")
      /\ need \in [Threads -> Nat] /\ turn \in Threads \cup {"none"}
      /\ err[t] \in Errors \cup {"empty"} /\ err = [err EXCEPT ![t] = err[t]]
  BY Zenon, <1>1 DEF BindInv, WaitsInv, ThreadsInv, Waits
<1>3. ChannelInv' BY Zenon, <1>1 DEF BindInv, ChannelInv
<1>4. CASE "consumer" \notin live
  <2>1. pc' = [pc EXCEPT ![t] = "failed"] /\ err' = [err EXCEPT ![t] = "failed"]
    BY Zenon, <1>4 DEF EnterWait, set_last_error, Goto
  <2>2. host = "python" /\ host # "node" BY Zenon, <1>2, <1>4 DEF BindInv, ObjectsInv
  <2>3. QED BY Zenon, <1>1, <1>2, <1>3, <2>1, <2>2, CallStep DEF Pcs, Inside, Waits, Errors
<1>5. CASE "consumer" \in live /\ pending # 0
  <2>1. pc' = [pc EXCEPT ![t] = "waited"] /\ err' = [err EXCEPT ![t] = "empty"]
    BY Zenon, <1>5 DEF EnterWait, clear_last_error, Goto
  <2>2. QED BY Zenon, <1>1, <1>2, <1>3, <1>5, <2>1, CallStep DEF Pcs, Inside, Waits, Errors
<1>6. CASE "consumer" \in live /\ pending = 0
  <2>1. pc' = [pc EXCEPT ![t] = "waiting"] /\ err' = [err EXCEPT ![t] = err[t]]
    BY Zenon, <1>2, <1>6 DEF EnterWait, Goto
  <2>2. QED BY Zenon, <1>1, <1>2, <1>3, <1>6, <2>1, CallStep DEF Pcs, Inside, Waits, Errors
<1>7. QED BY Zenon, <1>4, <1>5, <1>6

\* It ends with a commit, or is made to fail.
LEMMA WaitEndsKeeps == ASSUME BindInv, NEW t \in Threads, WaitEnds(t) \/ WaitThrows(t) PROVE BindInv'
<1>1. /\ pc[t] = "waiting"
      /\ \/ pc' = [pc EXCEPT ![t] = "waited"] /\ err' = [err EXCEPT ![t] = "empty"]
         \/ pc' = [pc EXCEPT ![t] = "failed"] /\ err' = [err EXCEPT ![t] = "failed"]
      /\ UNCHANGED <<host, lens, taken, pending, live, refs, waits, trackers, turn, need, orphaned>>
  BY Zenon DEF WaitEnds, WaitThrows, Goto, clear_last_error, set_last_error, counts, channel
<1>2. /\ host = "node" => "consumer" \in live /\ (t = "main" => turn = "main")
      /\ "consumer" \in live \/ host = "python"
      /\ need \in [Threads -> Nat] /\ turn \in Threads \cup {"none"}
  BY Zenon, <1>1 DEF BindInv, WaitsInv, ThreadsInv, Waits
<1>3. ChannelInv' BY Zenon, <1>1 DEF BindInv, ChannelInv
<1>4. QED BY Zenon, <1>1, <1>2, <1>3, CallStep DEF Pcs, Inside, Waits, Errors

\* A promise that is settled, either way, gives its count back.
LEMMA SettleKeeps ==
  ASSUME BindInv, host = "node", pc["aux"] \in Waits, turn \in {"none", "aux"}, turn' = "none",
         pc' = [pc EXCEPT !["aux"] = "idle"], waits' = IF waits > 0 THEN waits - 1 ELSE waits,
         UNCHANGED <<host, lens, taken, pending, live, refs, trackers, need, err, orphaned>>
  PROVE  BindInv'
<1>1. /\ need \in [Threads -> Nat] /\ pc \in [Threads -> Pcs] /\ "aux" \in Threads
      /\ err["aux"] \in Errors \cup {"empty"} /\ err' = [err EXCEPT !["aux"] = err["aux"]]
  BY Zenon DEF BindInv, ThreadsInv, Threads
<1>2. ThreadsInv' BY Zenon, <1>1, ThreadStep DEF BindInv, Pcs, Inside, Errors
<1>3. waits = 1 /\ pc["main"] = "idle"
  <2>1. "main" # "none" /\ "main" # "aux" OBVIOUS
  <2>2. QED BY Zenon, <1>1, <2>1 DEF BindInv, WaitsInv, Waits
<1>4. waits' = 0 /\ pc'["aux"] = "idle" /\ pc'["main"] = "idle" BY <1>1, <1>3 DEF Threads
<1>5. \A u \in Threads : pc'[u] = "idle" BY Zenon, <1>4 DEF Threads
<1>6. WaitsInv' BY Zenon, <1>4, <1>5 DEF WaitsInv, Waits
<1>7. ObjectsInv' /\ ChannelInv' BY Zenon DEF BindInv, ObjectsInv, ChannelInv
<1>8. QED BY Zenon, <1>2, <1>6, <1>7 DEF BindInv

\* Back in the interpreter after a wait.
LEMMA FinishKeeps == ASSUME BindInv, NEW t \in Threads, Finish(t) PROVE BindInv'
<1>1. /\ pc[t] = "waited" /\ turn \in {"none", t} /\ turn' = "none" /\ pc' = [pc EXCEPT ![t] = "idle"]
      /\ waits' = IF host = "node" /\ t = "aux" /\ waits > 0 THEN waits - 1 ELSE waits
      /\ UNCHANGED <<host, lens, taken, pending, live, refs, trackers, need, err, orphaned>>
  BY Zenon DEF Finish, Ends, Goto, channel
<1>2. CASE ~(host = "node" /\ t = "aux")
  <2>1. waits' = waits BY Zenon, <1>1, <1>2
  <2>2. /\ need \in [Threads -> Nat]
        /\ err[t] \in Errors \cup {"empty"} /\ err' = [err EXCEPT ![t] = err[t]]
    BY Zenon, <1>1 DEF BindInv, ThreadsInv
  <2>3. ChannelInv' BY Zenon, <1>1 DEF BindInv, ChannelInv
  <2>4. QED BY Zenon, <1>1, <1>2, <2>1, <2>2, <2>3, CallStep DEF Pcs, Inside, Waits, Errors
<1>3. CASE host = "node" /\ t = "aux"
  <2>1. turn \in {"none", "aux"} /\ pc["aux"] \in Waits BY Zenon, <1>1, <1>3 DEF Waits
  <2>2. QED BY Zenon, <1>1, <1>3, <2>1, SettleKeeps
<1>4. QED BY Zenon, <1>2, <1>3

\* A promise is rejected.
LEMMA OnErrorKeeps == ASSUME BindInv, OnError PROVE BindInv'
<1>1. pc["aux"] \in Waits
  <2>1. pc["aux"] \in {"idle"} \cup Waits /\ pc["aux"] # "idle"
    BY Zenon DEF OnError, BindInv, WaitsInv, Errors
  <2>2. QED BY Zenon, <2>1
<1>2. QED BY Zenon, <1>1, SettleKeeps DEF OnError, Ends, Goto, channel

\* The exception is made and thrown.
LEMMA ThrowKeeps == ASSUME BindInv, NEW t \in Threads, Throw(t) \/ PyThrow(t) PROVE BindInv'
<1>1. /\ turn \in {"none", t} /\ turn' = "none" /\ pc' = [pc EXCEPT ![t] = "idle"]
      /\ host = "node" => t # "aux"
      /\ UNCHANGED <<host, lens, taken, pending, live, refs, waits, trackers, need, err, orphaned>>
  BY Zenon DEF Throw, PyThrow, Ends, Goto, channel, counts
<1>2. /\ need \in [Threads -> Nat]
      /\ err[t] \in Errors \cup {"empty"} /\ err' = [err EXCEPT ![t] = err[t]]
  BY Zenon, <1>1 DEF BindInv, ThreadsInv
<1>3. ChannelInv' BY Zenon, <1>1 DEF BindInv, ChannelInv
<1>4. QED BY Zenon, <1>1, <1>2, <1>3, CallStep DEF Pcs, Inside, Waits, Errors

\* Calls that only read.
LEMMA ReadsKeep == ASSUME BindInv, NEW t \in Threads, Calls(t), Reads(t) PROVE BindInv'
<1>1. /\ err' = [err EXCEPT ![t] = "empty"] /\ turn' = "none" /\ pc' = [pc EXCEPT ![t] = "idle"]
      /\ UNCHANGED <<host, lens, taken, pending, live, refs, waits, trackers, need, orphaned>>
  BY Zenon, Starting DEF Reads, Returns, clear_last_error, channel, counts
<1>2. ChannelInv' BY Zenon, <1>1 DEF BindInv, ChannelInv
<1>3. QED BY Zenon, <1>1, <1>2, Starting, CallStep DEF Pcs, Inside, Waits, Errors

\* peekCopy: the observer stays open until the second call.
LEMMA PeekCopyKeeps == ASSUME BindInv, NEW t \in Threads, PeekCopy(t) PROVE BindInv'
<1>1. Calls(t) /\ "observer" \in live BY Zenon DEF PeekCopy, Method, BindInv, ObjectsInv
<1>2. UNCHANGED <<host, lens, taken, pending, live, refs, waits, trackers, orphaned>>
  BY Zenon DEF PeekCopy, counts, channel
<1>3. ChannelInv' BY Zenon, <1>2 DEF BindInv, ChannelInv
<1>4. PICK e \in Errors \cup {"empty"} : err' = [err EXCEPT ![t] = e]
  BY Zenon DEF PeekCopy, Peek, set_last_error, clear_last_error, Errors
<1>5. CASE Oldest = 0 \/ lens[Oldest] = 0
  <2>1. turn' = "none" /\ pc' = [pc EXCEPT ![t] = "idle"] /\ need' = need
    BY Zenon, <1>1, <1>5, Starting DEF PeekCopy
  <2>2. QED BY Zenon, <1>1, <1>2, <1>3, <1>4, <2>1, Starting, CallStep DEF Pcs, Inside, Waits, Errors
<1>6. CASE ~(Oldest = 0 \/ lens[Oldest] = 0)
  <2>1. lens[Oldest] \in Nat BY <1>6 DEF Oldest, BindInv, ChannelInv
  <2>2. turn' = t /\ pc' = [pc EXCEPT ![t] = "peeking"] /\ need' = [need EXCEPT ![t] = lens[Oldest]]
    BY Zenon, <1>6 DEF PeekCopy, Stays, Goto
  <2>3. need' \in [Threads -> Nat] /\ \A u \in Threads \ {t} : need'[u] = need[u]
    BY Zenon, <1>1, <2>1, <2>2, Starting
  <2>4. QED BY Zenon, <1>1, <1>2, <1>3, <1>4, <2>2, <2>3, Starting, CallStep DEF Pcs, Inside, Waits, Errors
<1>7. QED BY Zenon, <1>5, <1>6

\* Its second call, which may find another message or none.
LEMMA PeekedKeeps == ASSUME BindInv, NEW t \in Threads, Peeked(t) PROVE BindInv'
<1>1. pc[t] = "peeking" BY Zenon DEF Peeked
<1>2. UNCHANGED <<host, lens, taken, pending, live, refs, waits, trackers, orphaned>>
  BY Zenon DEF Peeked, counts, channel
<1>3. ChannelInv' BY Zenon, <1>2 DEF BindInv, ChannelInv
<1>4. turn = t /\ (host = "node" => t # "aux") BY Zenon, <1>1 DEF Peeked, BindInv, ThreadsInv, Inside, WaitsInv, Waits
<1>5. need' \in [Threads -> Nat] /\ \A u \in Threads \ {t} : need'[u] = need[u]
  BY Zenon DEF Peeked, BindInv, ThreadsInv
<1>6. CASE Oldest = 0
  <2>1. err' = [err EXCEPT ![t] = "empty"] BY Zenon, <1>6 DEF Peeked, Peek, clear_last_error
  <2>2. pc' = [pc EXCEPT ![t] = "again"] /\ turn' = turn BY Zenon, <1>6 DEF Peeked, Goto
  <2>3. QED BY Zenon, <1>2, <1>3, <1>4, <1>5, <2>1, <2>2, CallStep DEF Pcs, Inside, Waits, Errors
<1>7. CASE Oldest # 0 /\ lens[Oldest] > need[t]
  <2>1. err' = [err EXCEPT ![t] = "too_small"] BY Zenon, <1>7 DEF Peeked, Peek, set_last_error
  <2>2. pc' = [pc EXCEPT ![t] = "too_small"] /\ turn' = turn
    <3>1. ~(lens[Oldest] <= need[t])
      <4>1. lens[Oldest] \in Nat BY <1>7 DEF Oldest, BindInv, ChannelInv
      <4>2. need[t] \in Nat BY Zenon DEF BindInv, ThreadsInv
      <4>3. QED BY <4>1, <4>2, <1>7
    <3>2. QED BY Zenon, <1>7, <3>1 DEF Peeked, Goto
  <2>3. QED BY Zenon, <1>2, <1>3, <1>4, <1>5, <2>1, <2>2, CallStep DEF Pcs, Inside, Waits, Errors
<1>8. CASE Oldest # 0 /\ ~(lens[Oldest] > need[t])
  <2>1. err' = [err EXCEPT ![t] = "empty"] BY Zenon, <1>8 DEF Peeked, Peek, clear_last_error
  <2>2. pc' = [pc EXCEPT ![t] = "idle"] /\ turn' = "none" BY Zenon, <1>8 DEF Peeked, Ends, Goto
  <2>3. QED BY Zenon, <1>2, <1>3, <1>4, <1>5, <2>1, <2>2, CallStep DEF Pcs, Inside, Waits, Errors
<1>9. QED BY Zenon, <1>6, <1>7, <1>8

\* peekCopyInto: Node throws, Python has an error of its own.
LEMMA PeekIntoKeeps ==
  ASSUME BindInv, NEW t \in Threads, NEW cap \in Caps, PeekCopyInto(t, cap) PROVE BindInv'
<1>1. Calls(t) BY Zenon DEF PeekCopyInto, Method
<1>2. UNCHANGED <<host, lens, taken, pending, live, refs, waits, trackers, orphaned, need>>
  BY Zenon DEF PeekCopyInto, counts, channel
<1>3. ChannelInv' BY Zenon, <1>2 DEF BindInv, ChannelInv
<1>4. PICK e \in {"too_small", "empty"} : err' = [err EXCEPT ![t] = e]
  BY Zenon DEF PeekCopyInto, Peek, set_last_error, clear_last_error
<1>5. err'[t] = e BY Zenon, <1>4 DEF BindInv, ThreadsInv
<1>6. CASE e = "too_small" /\ host = "node"
  <2>1. pc' = [pc EXCEPT ![t] = "too_small"] /\ turn' = t BY Zenon, <1>5, <1>6 DEF PeekCopyInto, Stays, Goto
  <2>2. QED BY Zenon, <1>1, <1>2, <1>3, <1>4, <1>6, <2>1, Starting, CallStep DEF Pcs, Inside, Waits, Errors
<1>7. CASE ~(e = "too_small" /\ host = "node")
  <2>1. pc' = [pc EXCEPT ![t] = "idle"] /\ turn' = "none"
    BY Zenon, <1>1, <1>5, <1>7, Starting DEF PeekCopyInto
  <2>2. QED BY Zenon, <1>1, <1>2, <1>3, <1>4, <2>1, Starting, CallStep DEF Pcs, Inside, Waits, Errors
<1>8. QED BY Zenon, <1>6, <1>7

-----------------------------------------------------------------------------
\* Counting the trackers of a set of objects when one object comes or goes.
LEMMA TrackersAdd ==
  ASSUME NEW S, IsFiniteSet(S \cap Trackers), NEW c, c \notin S
  PROVE  /\ IsFiniteSet((S \cup {c}) \cap Trackers)
         /\ Cardinality((S \cup {c}) \cap Trackers)
              = IF c \in Trackers THEN Cardinality(S \cap Trackers) + 1 ELSE Cardinality(S \cap Trackers)
<1>1. CASE c \in Trackers
  <2>1. (S \cup {c}) \cap Trackers = (S \cap Trackers) \cup {c} /\ c \notin S \cap Trackers BY Zenon, <1>1
  <2>2. QED BY Zenon, <1>1, <2>1, FS_AddElement
<1>2. CASE c \notin Trackers
  <2>1. (S \cup {c}) \cap Trackers = S \cap Trackers BY Zenon, <1>2
  <2>2. QED BY Zenon, <1>2, <2>1
<1>3. QED BY Zenon, <1>1, <1>2

\* Taking one object away takes at most one tracker away, and release_tracker counts it.
LEMMA TrackersRemove ==
  ASSUME NEW S, IsFiniteSet(S \cap Trackers), NEW c, c \in S
  PROVE  /\ IsFiniteSet((S \ {c}) \cap Trackers)
         /\ Cardinality((S \ {c}) \cap Trackers)
              = IF c \in Trackers /\ Cardinality(S \cap Trackers) > 0
                THEN Cardinality(S \cap Trackers) - 1 ELSE Cardinality(S \cap Trackers)
<1>1. CASE c \in Trackers
  <2>1. (S \ {c}) \cap Trackers = (S \cap Trackers) \ {c} /\ c \in S \cap Trackers BY Zenon, <1>1
  <2>2. Cardinality(S \cap Trackers) > 0
    <3>1. Cardinality(S \cap Trackers) \in Nat /\ Cardinality(S \cap Trackers) # 0
      BY Zenon, <2>1, FS_CardinalityType, FS_EmptySet
    <3>2. QED BY <3>1
  <2>3. QED BY Zenon, <1>1, <2>1, <2>2, FS_RemoveElement
<1>2. CASE c \notin Trackers
  <2>1. (S \ {c}) \cap Trackers = S \cap Trackers BY Zenon, <1>2
  <2>2. QED BY Zenon, <1>2, <2>1
<1>3. QED BY Zenon, <1>1, <1>2

\* An object goes between two calls: not an observer with trackers, and a consumer that
\* someone waits on only in Python, which then remembers it.
LEMMA RemoveKeeps ==
  ASSUME BindInv, NEW c \in live, turn = "none", Reset(c), refs' \subseteq refs \ {c},
         c = "observer" => live \cap Trackers = {},
         \A t \in Threads : c = "consumer" /\ pc[t] \in Waits =>
           host = "python" /\ (pc[t] = "waiting" => orphaned'),
         orphaned => orphaned',
         UNCHANGED <<host, lens, taken, waits, turn, pc, need, err>>
  PROVE  BindInv'
<1>1. live' = live \ {c} BY Zenon DEF Reset
<1>2. \A t \in Threads : pc[t] \notin Inside
  BY Zenon DEF BindInv, ThreadsInv, Threads
<1>3. ObjectsInv'
  <2>1. IsFiniteSet(live' \cap Trackers) /\ trackers' = Cardinality(live' \cap Trackers)
    BY Zenon, <1>1, TrackersRemove DEF Reset, BindInv, ObjectsInv
  <2>2. live' \cap Trackers # {} => host' = "node" /\ "observer" \in live'
    BY Zenon, <1>1 DEF BindInv, ObjectsInv
  <2>3. live' \subseteq Classes /\ refs' \subseteq live' BY Zenon, <1>1 DEF BindInv, ObjectsInv
  <2>4. QED BY Zenon, <2>1, <2>2, <2>3 DEF BindInv, ObjectsInv
<1>4. ChannelInv' BY DEF Reset, BindInv, ChannelInv
<1>5. ThreadsInv'
  <2>1. ProbeStillValid' BY Zenon, <1>2 DEF ProbeStillValid, Inside
  <2>2. OwnErrors' BY Zenon DEF BindInv, ThreadsInv, OwnErrors
  <2>3. QED BY Zenon, <1>2, <2>1, <2>2 DEF BindInv, ThreadsInv, Inside
<1>6. WaitsInv'
  <2>1. host = "node" => \A t \in Threads : pc[t] \in Waits => "consumer" \in live'
    BY Zenon, <1>1 DEF BindInv, WaitsInv
  <2>2. \A t \in Threads : pc[t] = "waiting" => "consumer" \in live' \/ (host = "python" /\ orphaned')
    BY Zenon, <1>1 DEF BindInv, WaitsInv, Waits
  <2>3. QED BY Zenon, <2>1, <2>2 DEF BindInv, WaitsInv
<1>7. QED BY Zenon, <1>3, <1>4, <1>5, <1>6 DEF BindInv

\* close() of either binding.
LEMMA ClosedKeeps == ASSUME BindInv, NEW t \in Threads, NEW c \in Classes, Close(t, c) \/ PyClose(t, c)
                     PROVE  BindInv'
<1>1. Closed(t, c) /\ host \in {"node", "python"} BY Zenon DEF Close, PyClose
<1>2. /\ turn = "none" /\ c \in live /\ Reset(c) /\ refs' \subseteq refs \ {c} /\ (orphaned => orphaned')
      /\ UNCHANGED <<host, lens, taken, waits, turn, pc, need, err>>
  BY Zenon, <1>1 DEF Closed, Method, Calls, BindInv, ObjectsInv
<1>3. ASSUME c = "observer" PROVE live \cap Trackers = {}
  <2>1. CASE host = "node"
    <3>1. trackers = 0 BY Zenon, <1>3, <2>1 DEF Close, PyClose
    <3>2. QED BY Zenon, <3>1, FS_EmptySet DEF BindInv, ObjectsInv
  <2>2. CASE host = "python" BY Zenon, <2>2 DEF BindInv, ObjectsInv
  <2>3. QED BY Zenon, <1>1, <2>1, <2>2
<1>4. ASSUME NEW u \in Threads, c = "consumer", pc[u] \in Waits
      PROVE  host = "python" /\ (pc[u] = "waiting" => orphaned')
  <2>1. CASE host = "node"
    <3>1. waits = 0 BY Zenon, <1>4, <2>1 DEF Close, PyClose
    <3>2. pc["aux"] = "idle" /\ pc["main"] = "idle" BY <1>2, <2>1, <3>1 DEF BindInv, WaitsInv
    <3>3. QED BY Zenon, <1>4, <3>2 DEF Threads, Waits
  <2>2. CASE host = "python" BY Zenon, <1>1, <1>4, <2>2 DEF Closed
  <2>3. QED BY Zenon, <1>1, <2>1, <2>2
<1>5. QED BY Zenon, <1>2, <1>3, <1>4, RemoveKeeps

\* The destructor of an object that nothing refers to.
LEMMA FinalizeKeeps == ASSUME BindInv, NEW c \in Classes, Finalize(c) PROVE BindInv'
<1>1. /\ turn = "none" /\ c \in live /\ Reset(c) /\ refs' \subseteq refs \ {c} /\ (orphaned => orphaned')
      /\ UNCHANGED <<host, lens, taken, waits, turn, pc, need, err>>
  BY Zenon DEF Finalize
<1>2. c = "observer" => live \cap Trackers = {} BY Zenon DEF Finalize, Held
<1>3. \A u \in Threads : c = "consumer" => pc[u] \notin Waits BY Zenon DEF Finalize, Held, InWait, Waits
<1>4. QED BY Zenon, <1>1, <1>2, <1>3, RemoveKeeps

\* A script lets go of an object.
LEMMA DropKeeps == ASSUME BindInv, NEW t \in Threads, NEW c \in Classes, Drop(t, c) PROVE BindInv'
<1>1. /\ refs' \subseteq refs
      /\ UNCHANGED <<host, lens, taken, pending, live, waits, trackers, turn, pc, need, err, orphaned>>
  BY Zenon DEF Drop, channel, counts
<1>2. ObjectsInv' BY Zenon, <1>1 DEF BindInv, ObjectsInv
<1>3. ChannelInv' /\ WaitsInv' BY Zenon, <1>1 DEF BindInv, ChannelInv, WaitsInv
<1>4. ThreadsInv' BY Zenon, <1>1 DEF BindInv, ThreadsInv, ProbeStillValid, OwnErrors
<1>5. QED BY Zenon, <1>2, <1>3, <1>4 DEF BindInv

\* A constructor, of an endpoint or of a tracker, which needs the observer.
LEMMA OpenedKeeps ==
  ASSUME BindInv, NEW t \in Threads, NEW c \in Classes, Opened(t, c),
         c \in Trackers => host = "node" /\ "observer" \in live,
         trackers' = IF c \in live' /\ c \in Trackers THEN trackers + 1 ELSE trackers
  PROVE  BindInv'
<1>1. Calls(t) /\ c \notin live /\ UNCHANGED <<host, lens, taken, pending, waits, need, orphaned>>
  BY Zenon DEF Opened, channel
<1>2. CASE Fails(t, "refused") /\ UNCHANGED <<live, refs>>
  <2>1. /\ pc' = [pc EXCEPT ![t] = "refused"] /\ err' = [err EXCEPT ![t] = "refused"] /\ turn' = t
        /\ UNCHANGED <<host, live, refs, waits, trackers, need, orphaned>>
    BY Zenon, <1>1, <1>2 DEF Fails, Goto, set_last_error
  <2>2. ChannelInv' BY Zenon, <1>1 DEF BindInv, ChannelInv
  <2>3. QED BY Zenon, <1>1, <2>1, <2>2, Starting, CallStep DEF Pcs, Inside, Waits, Errors
<1>3. CASE live' = live \cup {c} /\ refs' = refs \cup {c} /\ Returns(t)
  <2>1. UNCHANGED <<turn, pc>> /\ err' = [err EXCEPT ![t] = "empty"] /\ pc[t] = "idle"
    BY Zenon, <1>1, <1>3 DEF Returns, clear_last_error, Calls
  <2>2. ObjectsInv'
    <3>1. IsFiniteSet(live' \cap Trackers) /\ trackers' = Cardinality(live' \cap Trackers)
      BY Zenon, <1>1, <1>3, TrackersAdd DEF BindInv, ObjectsInv
    <3>2. live' \cap Trackers # {} => host' = "node" /\ "observer" \in live'
      BY Zenon, <1>1, <1>3 DEF BindInv, ObjectsInv
    <3>3. QED BY Zenon, <1>1, <1>3, <3>1, <3>2 DEF BindInv, ObjectsInv
  <2>3. ChannelInv' BY Zenon, <1>1 DEF BindInv, ChannelInv
  <2>4. ThreadsInv'
    <3>1. err' \in [Threads -> Errors \cup {"empty"}] /\ \A u \in Threads \ {t} : err'[u] = err[u]
      BY Zenon, <2>1 DEF BindInv, ThreadsInv
    <3>2. ProbeStillValid' BY Zenon, <1>1, <2>1 DEF BindInv, ThreadsInv, ProbeStillValid
    <3>3. OwnErrors'
      <4>1. "idle" \notin Errors BY Zenon DEF Errors
      <4>2. QED BY Zenon, <2>1, <3>1, <4>1 DEF BindInv, ThreadsInv, OwnErrors
    <3>4. QED BY Zenon, <1>1, <1>3, <2>1, <3>1, <3>2, <3>3 DEF BindInv, ThreadsInv
  <2>5. WaitsInv' BY Zenon, <1>1, <1>3, <2>1 DEF BindInv, WaitsInv
  <2>6. QED BY Zenon, <2>2, <2>3, <2>4, <2>5 DEF BindInv
<1>4. QED BY Zenon, <1>2, <1>3 DEF Opened

\* The constructors, which take a handle or throw.
LEMMA OpenKeeps ==
  ASSUME BindInv, NEW t \in Threads,
         (\E c \in Classes \ Trackers : Open(t, c)) \/ (\E c \in Trackers : OpenTracker(t, c))
  PROVE  BindInv'
<1>1. ASSUME NEW c \in Classes \ Trackers, Open(t, c) PROVE BindInv'
  BY Zenon, <1>1, OpenedKeeps DEF Open
<1>2. ASSUME NEW c \in Trackers, OpenTracker(t, c) PROVE BindInv'
  <2>1. c \in Classes /\ "observer" \in live BY Zenon, <1>2 DEF Classes, OpenTracker, BindInv, ObjectsInv
  <2>2. QED BY Zenon, <1>2, <2>1, OpenedKeeps DEF OpenTracker
<1>3. QED BY Zenon, <1>1, <1>2

\* The other process sends or takes only at an end this one has not opened, so what is
\* retained stays what it was.
LEMMA OtherKeeps == ASSUME BindInv, Other PROVE BindInv'
<1>1. UNCHANGED <<host, pending, live, refs, waits, trackers, turn, pc, need, err, orphaned>>
  BY Zenon DEF Other, RemoteTake, RemoteSend, counts
<1>2. /\ lens' \in Seq(Nat) /\ taken' \in 0 .. Len(lens') /\ pending \in 0 .. taken'
      /\ pending # 0 => lens'[pending] = lens[pending]
  <2>1. lens \in Seq(Nat) /\ taken \in 0 .. Len(lens) /\ pending \in 0 .. taken BY Zenon DEF BindInv, ChannelInv
  <2>2. CASE RemoteTake BY <2>1, <2>2 DEF RemoteTake
  <2>3. ASSUME NEW n \in Lens, RemoteSend(n)
        PROVE  /\ lens' \in Seq(Nat) /\ taken' \in 0 .. Len(lens') /\ pending \in 0 .. taken'
               /\ pending # 0 => lens'[pending] = lens[pending]
    BY <2>1, <2>3, AppendLens, BindingsAssumption DEF RemoteSend, Commit
  <2>4. QED BY Zenon, <2>2, <2>3 DEF Other
<1>3. ChannelInv' BY Zenon, <1>1, <1>2 DEF ChannelInv
<1>4. ThreadsInv'
  <2>1. ProbeStillValid' BY Zenon, <1>1, <1>2 DEF BindInv, ThreadsInv, ProbeStillValid
  <2>2. QED BY Zenon, <1>1, <2>1 DEF BindInv, ThreadsInv, OwnErrors
<1>5. ObjectsInv' /\ WaitsInv' BY Zenon, <1>1 DEF BindInv, ObjectsInv, WaitsInv
<1>6. QED BY Zenon, <1>3, <1>4, <1>5 DEF BindInv

\* Before the first call nothing is open and no thread is inside a call.
LEMMA BindInit == ASSUME Init PROVE BindInv
<1>1. ObjectsInv
  <2>1. live \cap Trackers = {} BY Zenon DEF Init
  <2>2. QED BY Zenon, <2>1, FS_EmptySet, BindingsAssumption DEF Init, ObjectsInv
<1>2. ChannelInv BY DEF Init, ChannelInv
<1>3. ThreadsInv
  BY Zenon DEF Init, ThreadsInv, Pcs, Inside, Waits, Errors, Threads, ProbeStillValid, OwnErrors
<1>4. WaitsInv BY Zenon DEF Init, WaitsInv, Waits, Threads
<1>5. QED BY Zenon, <1>1, <1>2, <1>3, <1>4 DEF BindInv

\* Every step of a call, of an object or of the other process keeps the invariant.
LEMMA BindNext == ASSUME BindInv, [Next]_vars PROVE BindInv'
<1>1. CASE UNCHANGED vars
  BY Zenon, <1>1 DEF vars, channel, counts, BindInv, ObjectsInv, ChannelInv, ThreadsInv, WaitsInv,
              ProbeStillValid, OwnErrors
<1>2. CASE Objects
  <2>1. ASSUME NEW t \in Threads, NEW c \in Trackers, InspectTracker(t, c) PROVE BindInv'
    BY Zenon, <2>1, ReadsKeep DEF InspectTracker, Method
  <2>2. ASSUME NEW t \in Threads, InspectProducer(t) \/ InspectConsumer(t) \/ InspectObserver(t)
        PROVE BindInv'
    BY Zenon, <2>2, ReadsKeep DEF InspectProducer, InspectConsumer, InspectObserver, Method
  <2>3. QED
    BY Zenon, <1>2, <2>1, <2>2, OpenKeeps, ClosedKeeps, DropKeeps, FinalizeKeeps DEF Objects
<1>3. CASE Other BY Zenon, <1>3, OtherKeeps
<1>4. CASE WaitAsync BY Zenon, <1>4, WaitAsyncKeeps
<1>5. ASSUME NEW t \in Threads, Starts(t) PROVE BindInv'
  BY Zenon, <1>5, SendKeeps, PollIntoKeeps, PeekIntoKeeps, PollCopyKeeps, WaitKeeps, PeekCopyKeeps DEF Starts
<1>6. ASSUME NEW t \in Threads, Goes(t) \/ WaitThrows(t) PROVE BindInv'
  BY Zenon, <1>6, ThrowKeeps, SendDoneKeeps, PollCopiedKeeps, PeekedKeeps, EnterWaitKeeps, WaitEndsKeeps,
     FinishKeeps, OnErrorKeeps DEF Goes
<1>7. QED BY Zenon, <1>1, <1>2, <1>3, <1>4, <1>5, <1>6 DEF Next

-----------------------------------------------------------------------------
\* BindInv is an invariant of the objects of both bindings.
THEOREM BindInvariant == Spec => []BindInv
BY BindInit, BindNext, PTL DEF Spec

\* Through any order of close(), dropped references and collection, no thread is inside
\* a native handle that has been deleted and no tracker outlives its observer, but for a
\* Python script that closes a consumer another of its threads waits on.
THEOREM HandlesOutliveUseAlways == Spec => []HandlesOutliveUse
<1>1. BindInv => HandlesOutliveUse BY Zenon DEF BindInv, ObjectsInv, ThreadsInv, WaitsInv, HandlesOutliveUse
<1>2. QED BY BindInvariant, <1>1, PTL

\* The length pollCopy's probe reported is that of the message its copy returns.
THEOREM ProbeStillValidAlways == Spec => []ProbeStillValid
<1>1. BindInv => ProbeStillValid BY Zenon DEF BindInv, ThreadsInv
<1>2. QED BY BindInvariant, <1>1, PTL

\* An exception says what made its call fail, whatever the other thread does; the promise
\* of a waitAsync, which is rejected with the error of another thread, is not meant.
THEOREM ErrorsNameTheirCauseAlways == Spec => []ErrorsNameTheirCause
<1>1. BindInv => ErrorsNameTheirCause
  <2>1. SUFFICES ASSUME BindInv, NEW t \in Threads, pc[t] \in Errors, ~(host = "node" /\ t = "aux")
                 PROVE  Says(t) = Cause(t)
    BY Zenon DEF ErrorsNameTheirCause
  <2>2. Reader(t) = t BY Zenon, <2>1 DEF Reader, Threads
  <2>3. err[t] = IF pc[t] = "again" THEN "empty" ELSE pc[t] BY Zenon, <2>1 DEF BindInv, ThreadsInv, OwnErrors
  <2>4. "empty" \notin Errors BY Zenon DEF Errors
  <2>5. QED BY Zenon, <2>1, <2>2, <2>3, <2>4 DEF Says, Cause
<1>2. QED BY BindInvariant, <1>1, PTL

-----------------------------------------------------------------------------
(* Options (module Options).                                               *)

\* What the manifest of a formatted segment says.
Manifest(h) ==
  /\ h \in [type : Enums["channel_type"], align : 4 .. U32, item : 0 .. U32, schema : 0 .. U64,
            flags : 0 .. U64, capacity : 0 .. (U64 - MinShm)]
  /\ PowerOfTwo(h.align)
  /\ h.type = "fixed" <=> h.item # 0
  /\ h.item # 0 => h.capacity % h.item = 0

\* Options o would attach to the segment.
Attaches(o) == Formatted /\ validate_detailed(header, o)

\* Options o would attach if their schema were the segment's.
BySchema(o) == Formatted /\ (validate_detailed(header, o) <=> o.schema_id = header.schema)

\* An open endpoint's options were checked for its kind, name the size of the segment and
\* match its manifest; so do those taken from an endpoint or read from the segment, but for
\* a schema of the caller's; and what was given out suits every kind it is meant for.
GivenOk(from, o) ==
  /\ validate_transport_options(o)
  /\ ~SizeWrapped(from, o) => \A k \in Offered(o) : validate_for(k, o)
OptionsInv ==
  /\ TypedOptions(opts)
  /\ header \in {NoSegment, Blank} \/ Manifest(header)
  /\ stage = "open" =>
       /\ kind \in Kinds /\ validate_for(kind, opts)
       /\ opts.backend = "shared_memory" => Attaches(opts) /\ opts.shm_size # 0
  /\ stage = "ready" /\ origin # "script" => GivenOk(origin, opts)
  /\ stage = "ready" /\ origin \in {"handle", "segment"} /\ opts.backend = "shared_memory" => Attaches(opts)
  /\ stage = "ready" /\ origin = "attach" => BySchema(opts)
  /\ origin = "handle" /\ stage = "refused" => kind \notin Offered(opts)

\* The fields, by type.
FieldNames ==
  {"path", "win32_object_namespace", "socket_host", "create_if_missing", "socket_listen",
   "backend", "channel_type", "socket_connect_retries", "socket_connect_retry_ms",
   "shm_size", "item_size", "data_align", "schema_id", "creator_flags", "socket_port"}

\* The fields of the options, and those that are enumerations and unsigned integers.
LEMMA FieldSets ==
  /\ Fields = FieldNames
  /\ DOMAIN Enums = {"backend", "channel_type"}
  /\ DOMAIN Limit = {"shm_size", "item_size", "data_align", "schema_id", "creator_flags", "socket_port"}
<1>1. DOMAIN Enums = {"backend", "channel_type"}
  BY Zenon DEF Enums
<1>2. DOMAIN Limit = {"shm_size", "item_size", "data_align", "schema_id", "creator_flags", "socket_port"}
  BY Zenon DEF Limit
<1> QED BY Zenon, <1>1, <1>2 DEF Fields, FieldNames, Strings, Flags, Ints

\* The limit of each unsigned field.
LEMMA LimitIs ==
  /\ Limit["shm_size"] = U64 /\ Limit["item_size"] = U32 /\ Limit["data_align"] = U32
  /\ Limit["schema_id"] = U64 /\ Limit["creator_flags"] = U64 /\ Limit["socket_port"] = U16
BY Zenon DEF Limit

\* The enumerators of the two enumerations.
LEMMA EnumsAre ==
  /\ Enums["backend"] = {"shared_memory", "socket"} /\ Enums["channel_type"] = {"fixed", "varlen"}
BY Zenon DEF Enums

\* TypedOptions, field by field.
LEMMA TypedIs ==
  ASSUME NEW o
  PROVE  TypedOptions(o) <=>
           /\ o = [f \in FieldNames |-> o[f]]
           /\ o["path"] # Null /\ o["win32_object_namespace"] # Null /\ o["socket_host"] # Null
           /\ o["create_if_missing"] \in BOOLEAN /\ o["socket_listen"] \in BOOLEAN
           /\ o["backend"] \in {"shared_memory", "socket"} /\ o["channel_type"] \in {"fixed", "varlen"}
           /\ o["socket_connect_retries"] \in CInt /\ o["socket_connect_retry_ms"] \in CInt
           /\ o["shm_size"] \in 0 .. U64 /\ o["item_size"] \in 0 .. U32 /\ o["data_align"] \in 0 .. U32
           /\ o["schema_id"] \in 0 .. U64 /\ o["creator_flags"] \in 0 .. U64 /\ o["socket_port"] \in 0 .. U16
BY FieldSets, LimitIs, EnumsAre, Zenon DEF TypedOptions, Strings, Flags, Ints

\* The defaults.
LEMMA InitIs ==
  /\ options_init = [f \in FieldNames |-> options_init[f]]
  /\ options_init["path"] = Null /\ options_init["win32_object_namespace"] = "Local"
  /\ options_init["socket_host"] = "127.0.0.1"
  /\ options_init["create_if_missing"] = TRUE /\ options_init["socket_listen"] = FALSE
  /\ options_init["backend"] = "shared_memory" /\ options_init["channel_type"] = "fixed"
  /\ options_init["socket_connect_retries"] = 200 /\ options_init["socket_connect_retry_ms"] = 10
  /\ options_init["shm_size"] = 0 /\ options_init["item_size"] = 0 /\ options_init["data_align"] = 0
  /\ options_init["schema_id"] = 0 /\ options_init["creator_flags"] = 0 /\ options_init["socket_port"] = 0
<1>1. options_init = [f \in DOMAIN options_init |-> options_init[f]]
  BY Zenon DEF options_init
<1>2. DOMAIN options_init = FieldNames
  BY Zenon DEF options_init, FieldNames
<1>3. options_init = [f \in FieldNames |-> options_init[f]]
  BY <1>1, <1>2, Zenon
<1> QED BY <1>3, Zenon DEF options_init

\* The defaults of transport_options are those of xproc_c_options_init but for the path.
LEMMA CppDefaultsAre ==
  /\ cpp_defaults = [f \in FieldNames |-> cpp_defaults[f]]
  /\ cpp_defaults["path"] = Empty
  /\ \A f \in FieldNames \ {"path"} : cpp_defaults[f] = options_init[f]
<1>1. "path" \in FieldNames
  BY Zenon DEF FieldNames
<1> QED BY <1>1, InitIs, Zenon DEF cpp_defaults

\* An xproc_c_options: its strings may be null.
COptions(c) ==
  /\ c = [f \in Fields |-> c[f]]
  /\ \A f \in Flags : c[f] \in BOOLEAN
  /\ \A f \in DOMAIN Enums : c[f] \in Enums[f]
  /\ \A f \in Ints : c[f] \in CInt
  /\ \A f \in DOMAIN Limit : c[f] \in 0 .. Limit[f]

\* A transport_options is an xproc_c_options without null strings.
LEMMA TypedIsC ==
  ASSUME NEW o
  PROVE  TypedOptions(o) <=> COptions(o) /\ \A f \in Strings : o[f] # Null
BY Zenon DEF TypedOptions, COptions

\* 0 is a value of every unsigned type.
LEMMA ZeroFits ==
  /\ 0 \in 0 .. U16 /\ 0 \in 0 .. U32 /\ 0 \in 0 .. U64
BY OptionsAssumption

\* The default number of retries and their distance are ints, and an int is a number.
LEMMA DefaultInts == 200 \in CInt /\ 10 \in CInt /\ 0 \in CInt /\ CInt \subseteq Int
BY OptionsAssumption DEF CInt

\* xproc_c_options_init gives every field a value of its type.
LEMMA InitTyped == COptions(options_init)
<1>1. options_init = [f \in Fields |-> options_init[f]]
  BY InitIs, FieldSets, Zenon
<1>2. \A f \in Flags : options_init[f] \in BOOLEAN
  BY InitIs, Zenon DEF Flags
<1>3. \A f \in DOMAIN Enums : options_init[f] \in Enums[f]
  BY InitIs, FieldSets, EnumsAre, Zenon
<1>4. \A f \in Ints : options_init[f] \in CInt
  <2>1. options_init["socket_connect_retries"] = 200 /\ options_init["socket_connect_retry_ms"] = 10
    BY InitIs, Zenon
  <2>2. options_init["socket_connect_retries"] \in CInt /\ options_init["socket_connect_retry_ms"] \in CInt
    BY <2>1, DefaultInts
  <2> QED BY <2>2, Zenon DEF Ints
<1>5. \A f \in DOMAIN Limit : options_init[f] \in 0 .. Limit[f]
  <2>1. \A f \in DOMAIN Limit : options_init[f] = 0
    <3>1. /\ options_init["shm_size"] = 0 /\ options_init["item_size"] = 0 /\ options_init["data_align"] = 0
          /\ options_init["schema_id"] = 0 /\ options_init["creator_flags"] = 0
          /\ options_init["socket_port"] = 0
      BY InitIs, Zenon
    <3>2. DOMAIN Limit = {"shm_size", "item_size", "data_align", "schema_id", "creator_flags", "socket_port"}
      BY FieldSets, Zenon
    <3> QED BY <3>1, <3>2, Zenon
  <2>2. \A f \in DOMAIN Limit : 0 \in 0 .. Limit[f]
    BY FieldSets, LimitIs, ZeroFits, Zenon
  <2> QED BY <2>1, <2>2, Zenon
<1> QED BY <1>1, <1>2, <1>3, <1>4, <1>5, Zenon DEF COptions

\* The default strings, none of which is null.
LEMMA DefaultStrings ==
  /\ cpp_defaults["path"] = Empty /\ cpp_defaults["win32_object_namespace"] = "Local"
  /\ cpp_defaults["socket_host"] = "127.0.0.1"
  /\ Empty # Null /\ "Local" # Null /\ "127.0.0.1" # Null
<1>1. Empty # Null /\ "Local" # Null /\ "127.0.0.1" # Null
  BY Zenon DEF Empty, Null
<1> QED BY <1>1, Zenon DEF cpp_defaults, options_init

\* The defaults of transport_options have their types.
LEMMA DefaultsTyped == TypedOptions(cpp_defaults)
<1>1. /\ "create_if_missing" \in FieldNames \ {"path"} /\ "socket_listen" \in FieldNames \ {"path"}
      /\ \A f \in DOMAIN Enums \cup Ints \cup DOMAIN Limit : f \in FieldNames \ {"path"}
  BY Zenon, FieldSets DEF FieldNames, Ints
<1>2. COptions(cpp_defaults)
  BY <1>1, CppDefaultsAre, InitTyped, FieldSets, Zenon DEF COptions, Flags
<1>3. \A f \in Strings : cpp_defaults[f] # Null
  BY DefaultStrings, Zenon DEF Strings
<1> QED BY <1>2, <1>3, TypedIsC, Zenon

\* The classes of fields do not overlap.
LEMMA FieldClasses ==
  /\ \A f \in Flags : f \notin Strings
  /\ \A f \in DOMAIN Enums : f \notin Strings /\ f \notin Flags
  /\ \A f \in Ints : f \notin Strings /\ f \notin Flags /\ f \notin DOMAIN Enums
  /\ \A f \in DOMAIN Limit : f \notin Strings /\ f \notin Flags /\ f \notin DOMAIN Enums /\ f \notin Ints
  /\ \A f \in Strings \cup Flags \cup DOMAIN Enums \cup Ints \cup DOMAIN Limit : f \in Fields /\ f # "type"
<1>1. \A f \in Fields : f # "type"
  BY Zenon, FieldSets DEF FieldNames
<1>2. \A f \in Strings \cup Flags \cup DOMAIN Enums \cup Ints \cup DOMAIN Limit : f \in Fields
  BY Zenon DEF Fields
<1> QED BY Zenon, <1>1, <1>2, FieldSets DEF Strings, Flags, Ints

\* to_cpp_options: a string that is not there gets its default, nothing else changes.
LEMMA ToCppIs ==
  ASSUME NEW c, COptions(c)
  PROVE  /\ \A f \in Fields :
              to_cpp_options(c)[f] = IF f \in Strings /\ c[f] = Null THEN cpp_defaults[f] ELSE c[f]
         /\ TypedOptions(to_cpp_options(c))
<1> DEFINE o == to_cpp_options(c)
<1>1. c = [f \in Fields |-> c[f]]
  BY Zenon DEF COptions
<1>2. o = [f \in Fields |-> o[f]]
  BY <1>1, Zenon DEF to_cpp_options
<1>3. Strings \subseteq Fields
  BY Zenon DEF Fields
<1>4. \A f \in Fields \ Strings : o[f] = c[f]
  BY <1>1, Zenon DEF to_cpp_options, Strings
<1>5. \A f \in Strings : o[f] = IF c[f] = Null THEN cpp_defaults[f] ELSE c[f]
  <2>1. /\ cpp_defaults["path"] = Empty /\ cpp_defaults["win32_object_namespace"] = "Local"
        /\ cpp_defaults["socket_host"] = "127.0.0.1"
    BY DefaultStrings, Zenon
  <2>2. {"path", "win32_object_namespace", "socket_host"} \subseteq Fields
    BY <1>3, Zenon DEF Strings
  <2>3. /\ o["path"] = IF c["path"] = Null THEN Empty ELSE c["path"]
        /\ o["win32_object_namespace"] = IF c["win32_object_namespace"] = Null THEN "Local" ELSE c["win32_object_namespace"]
        /\ o["socket_host"] = IF c["socket_host"] = Null THEN "127.0.0.1" ELSE c["socket_host"]
    BY <1>1, <2>2, Zenon DEF to_cpp_options
  <2> QED BY <2>1, <2>3, Zenon DEF Strings
<1>6. \A f \in Strings : o[f] # Null
  BY <1>5, DefaultsTyped, Zenon DEF TypedOptions
<1>7. COptions(o)
  <2>1. \A f \in Flags \cup DOMAIN Enums \cup Ints \cup DOMAIN Limit : f \in Fields \ Strings
    BY FieldClasses, Zenon
  <2> QED BY <1>2, <1>4, <2>1, Zenon DEF COptions
<1>8. TypedOptions(o)
  BY <1>6, <1>7, TypedIsC, Zenon
<1>9. \A f \in Fields : o[f] = IF f \in Strings /\ c[f] = Null THEN cpp_defaults[f] ELSE c[f]
  BY <1>4, <1>5, Zenon
<1> HIDE DEF o
<1> QED BY <1>8, <1>9, Zenon DEF o

\* What the addon takes for a field of each class.
LEMMA ParsesJsIs ==
  ASSUME NEW f, NEW x
  PROVE  /\ f \in Strings => (ParsesJs(f, x) <=> assign_optional_string(x))
         /\ f \in Flags => (ParsesJs(f, x) <=> parse_bool(x))
         /\ f \in DOMAIN Enums => (ParsesJs(f, x) <=> parse_enum(f, x))
         /\ f \in Ints => (ParsesJs(f, x) <=> parse_int(x))
         /\ f \in DOMAIN Limit => (ParsesJs(f, x) <=> parse_uint(x, Limit[f]))
BY FieldClasses, Zenon DEF ParsesJs

\* What the Python attributes take, by the type of the field.
LEMMA ParsesPyIs ==
  ASSUME NEW f, NEW x
  PROVE  /\ f \in Strings => (ParsesPy(f, x) <=> x.ty \in {"string", "null"})
         /\ f \in Flags => (ParsesPy(f, x) <=> x.ty = "boolean")
         /\ f \in DOMAIN Enums => (ParsesPy(f, x) <=> x.ty = "number" /\ x.v \in Enums[f])
         /\ f \in Ints => (ParsesPy(f, x) <=> x.ty = "number" /\ x.v \in CInt)
         /\ f \in DOMAIN Limit => (ParsesPy(f, x) <=> x.ty = "number" /\ 0 <= x.v /\ x.v <= Limit[f])
BY FieldClasses, Zenon DEF ParsesPy

\* A setting that either binding may store in field f.
Storable(f, x) ==
  /\ f \notin Strings => x.ty # "null"
  /\ f \in DOMAIN Enums => x.v \in Enums[f]
  /\ f \in Ints => x.v \in CInt
  /\ f \in DOMAIN Limit => x.v \in 0 .. Limit[f]

\* Every limit is a natural number.
LEMMA LimitNat == \A f \in DOMAIN Limit : Limit[f] \in Nat
BY Zenon, FieldSets, LimitIs, OptionsAssumption

\* The range check of the parsers is membership in the type's range.
LEMMA InRange ==
  \A v \in Int, n \in Nat : 0 <= v /\ v <= n <=> v \in 0 .. n
OBVIOUS

\* The dynamic type of null is no other.
LEMMA TypesDiffer == "number" # "null" /\ "bigint" # "null" /\ "boolean" # "null" /\ "string" # "null"
BY Zenon

\* What the addon takes for a field can be stored in it.
LEMMA StorableJs ==
  ASSUME NEW f \in Fields, NEW x, ParsesJs(f, x),
         f \in Ints \cup DOMAIN Limit /\ x.ty \in {"number", "bigint"} => x.v \in Int
  PROVE  Storable(f, x)
<1>1. f \in Strings \/ f \in Flags \/ f \in DOMAIN Enums \/ f \in Ints \/ f \in DOMAIN Limit
  BY Zenon DEF Fields
<1>2. CASE f \in Strings
  BY <1>2, FieldClasses, Zenon DEF Storable
<1>3. CASE f \in Flags
  BY <1>3, ParsesJsIs, FieldClasses, TypesDiffer, Zenon DEF Storable, parse_bool
<1>4. CASE f \in DOMAIN Enums
  BY <1>4, ParsesJsIs, FieldClasses, TypesDiffer, Zenon DEF Storable, parse_enum
<1>5. CASE f \in Ints
  BY <1>5, ParsesJsIs, FieldClasses, TypesDiffer, Zenon DEF Storable, parse_int
<1>6. CASE f \in DOMAIN Limit
  BY <1>6, ParsesJsIs, FieldClasses, TypesDiffer, LimitNat, InRange, Zenon DEF Storable, parse_uint
<1> QED BY <1>1, <1>2, <1>3, <1>4, <1>5, <1>6, Zenon

\* What a Python attribute takes for a field can be stored in it.
LEMMA StorablePy ==
  ASSUME NEW f \in Fields, NEW x, ParsesPy(f, x),
         f \in Ints \cup DOMAIN Limit /\ x.ty \in {"number", "bigint"} => x.v \in Int
  PROVE  Storable(f, x)
<1>1. f \in Strings \/ f \in Flags \/ f \in DOMAIN Enums \/ f \in Ints \/ f \in DOMAIN Limit
  BY Zenon DEF Fields
<1>2. CASE f \in Strings
  BY <1>2, FieldClasses, Zenon DEF Storable
<1>3. CASE f \in Flags
  BY <1>3, ParsesPyIs, FieldClasses, TypesDiffer, Zenon DEF Storable
<1>4. CASE f \in DOMAIN Enums
  BY <1>4, ParsesPyIs, FieldClasses, TypesDiffer, Zenon DEF Storable
<1>5. CASE f \in Ints
  BY <1>5, ParsesPyIs, FieldClasses, TypesDiffer, Zenon DEF Storable
<1>6. CASE f \in DOMAIN Limit
  BY <1>6, ParsesPyIs, FieldClasses, TypesDiffer, LimitNat, InRange, Zenon DEF Storable
<1> QED BY <1>1, <1>2, <1>3, <1>4, <1>5, <1>6, Zenon

\* options_from_js and marshalled_options make an xproc_c_options of what was accepted.
LEMMA FromJsTyped ==
  ASSUME NEW js, \A f \in DOMAIN js \cap Fields : Storable(f, js[f])
  PROVE  COptions(options_from_js(js)) /\ COptions(marshalled_options(js))
<1> DEFINE c == options_from_js(js)
<1>1. c = [f \in Fields |-> c[f]] /\ marshalled_options(js) = c
  BY Zenon DEF options_from_js, marshalled_options
<1>2. ASSUME NEW f \in Fields, f \notin DOMAIN js
      PROVE  c[f] = options_init[f]
  BY <1>2, Zenon DEF options_from_js
<1>3. ASSUME NEW f \in Fields, f \in DOMAIN js, f \notin Strings
      PROVE  c[f] = IF f \in Flags THEN js[f].v = 1 ELSE js[f].v
  BY <1>3, Zenon DEF options_from_js, Storable
<1>4. \A f \in Flags : c[f] \in BOOLEAN
  BY <1>2, <1>3, FieldClasses, InitTyped, Zenon DEF COptions
<1>5. \A f \in DOMAIN Enums : c[f] \in Enums[f]
  BY <1>2, <1>3, FieldClasses, InitTyped, Zenon DEF COptions, Storable
<1>6. \A f \in Ints : c[f] \in CInt
  BY <1>2, <1>3, FieldClasses, InitTyped, Zenon DEF COptions, Storable
<1>7. \A f \in DOMAIN Limit : c[f] \in 0 .. Limit[f]
  BY <1>2, <1>3, FieldClasses, InitTyped, Zenon DEF COptions, Storable
<1> HIDE DEF c
<1>8. COptions(c)
  BY <1>1, <1>4, <1>5, <1>6, <1>7, Zenon DEF COptions
<1> QED BY <1>1, <1>8, Zenon DEF c

\* normalizeOptions renames the channel type and leaves every other entry alone.
LEMMA NormalizeIs ==
  ASSUME NEW js
  PROVE  /\ DOMAIN normalizeOptions(js) = (DOMAIN js \ {"type"}) \cup {"channel_type"}
         /\ \A f \in DOMAIN js \ {"type", "channel_type"} : normalizeOptions(js)[f] = js[f]
         /\ "channel_type" \in DOMAIN js => normalizeOptions(js)["channel_type"] = js["channel_type"]
BY Zenon DEF normalizeOptions

\* A script's settings that either binding accepts make well-typed transport_options.
LEMMA ScriptTyped ==
  ASSUME NEW given \in Givens
  PROVE  /\ options_from_js_ok(normalizeOptions(given)) =>
              TypedOptions(to_cpp_options(options_from_js(normalizeOptions(given))))
         /\ transport_options_ok(given) => TypedOptions(to_cpp_options(marshalled_options(given)))
<1> DEFINE js == normalizeOptions(given)
<1>1. ASSUME options_from_js_ok(js)
      PROVE  TypedOptions(to_cpp_options(options_from_js(js)))
  <2>1. ASSUME NEW f \in DOMAIN js \cap Fields
        PROVE  Storable(f, js[f])
    <3>1. ParsesJs(f, js[f])
      BY <1>1, Zenon DEF options_from_js_ok
    <3>2. ASSUME f \in Ints \cup DOMAIN Limit, js[f].ty \in {"number", "bigint"}
          PROVE  js[f].v \in Int
      <4>1. f # "type" /\ f # "channel_type"
        BY <3>2, FieldClasses, FieldSets, Zenon
      <4>2. f \in DOMAIN given /\ js[f] = given[f]
        BY <4>1, NormalizeIs, Zenon
      <4> QED BY <3>2, <4>2, ScriptAssumption, Zenon
    <3> QED BY <3>1, <3>2, StorableJs, Zenon
  <2>2. COptions(options_from_js(js))
    BY <2>1, FromJsTyped, Zenon
  <2> QED BY <2>2, ToCppIs, Zenon
<1>2. ASSUME transport_options_ok(given)
      PROVE  TypedOptions(to_cpp_options(marshalled_options(given)))
  <2>1. ASSUME NEW f \in DOMAIN given \cap Fields
        PROVE  Storable(f, given[f])
    <3>1. ParsesPy(f, given[f])
      BY <1>2, Zenon DEF transport_options_ok
    <3>2. f \in Ints \cup DOMAIN Limit /\ given[f].ty \in {"number", "bigint"} => given[f].v \in Int
      BY ScriptAssumption, Zenon
    <3> QED BY <3>1, <3>2, StorablePy, Zenon
  <2>2. COptions(marshalled_options(given))
    BY <2>1, FromJsTyped, Zenon
  <2> QED BY <2>2, ToCppIs, Zenon
<1> QED BY <1>1, <1>2, Zenon

\* What an open handle gives out: an empty string has become null.
LEMMA FillIs ==
  ASSUME NEW o, TypedOptions(o)
  PROVE  /\ COptions(fill_borrowed_options(o))
         /\ \A f \in Fields \ Strings : fill_borrowed_options(o)[f] = o[f]
         /\ \A f \in Strings :
              fill_borrowed_options(o)[f] = IF o[f] = Empty THEN Null ELSE o[f]
<1>1. \A f \in Fields \ Strings : fill_borrowed_options(o)[f] = o[f]
  BY Zenon DEF fill_borrowed_options
<1>2. \A f \in Strings : fill_borrowed_options(o)[f] = IF o[f] = Empty THEN Null ELSE o[f]
  BY FieldClasses, Zenon DEF fill_borrowed_options
<1>3. \A f \in Flags \cup DOMAIN Enums \cup Ints \cup DOMAIN Limit : f \in Fields \ Strings
  BY FieldClasses, Zenon
<1>4. fill_borrowed_options(o) = [f \in Fields |-> fill_borrowed_options(o)[f]]
  BY Zenon DEF fill_borrowed_options
<1>5. COptions(fill_borrowed_options(o))
  BY <1>1, <1>3, <1>4, Zenon DEF COptions, TypedOptions
<1> QED BY <1>1, <1>2, <1>5, Zenon

\* Converted back, the C options are what they were, so that the transport_options are as
\* before but for the defaults that stand for empty strings.
LEMMA BackIs ==
  ASSUME NEW o, TypedOptions(o), NEW c, COptions(c),
         \A f \in Fields \ Strings : c[f] = o[f],
         \A f \in Strings : o[f] # Empty => c[f] = o[f],
         \A f \in Strings : o[f] = Empty => c[f] \in {Null, options_init[f]}
  PROVE  TypedOptions(to_cpp_options(c)) /\ Kept(o, to_cpp_options(c))
<1>1. TypedOptions(to_cpp_options(c))
  BY ToCppIs, Zenon
<1>2. ASSUME NEW f \in Fields \ Strings
      PROVE  to_cpp_options(c)[f] = o[f]
  BY ToCppIs, Zenon
<1>3. ASSUME NEW f \in Strings, o[f] # Empty
      PROVE  to_cpp_options(c)[f] = o[f]
  <2>1. f \in Fields /\ c[f] = o[f] /\ o[f] # Null
    BY <1>3, FieldClasses, Zenon DEF TypedOptions
  <2>2. to_cpp_options(c)[f] = IF f \in Strings /\ c[f] = Null THEN cpp_defaults[f] ELSE c[f]
    BY <2>1, ToCppIs, Zenon
  <2> QED BY <2>1, <2>2, Zenon
<1>4. ASSUME NEW f \in Strings, o[f] = Empty
      PROVE  to_cpp_options(c)[f] \in {o[f], options_init[f]}
  <2>1. CASE c[f] = Null
    <3>1. to_cpp_options(c)[f] = cpp_defaults[f]
      BY <1>4, <2>1, ToCppIs, FieldClasses, Zenon
    <3>2. f \in FieldNames
      BY FieldClasses, FieldSets, Zenon
    <3> QED BY <1>4, <3>1, <3>2, CppDefaultsAre, Zenon
  <2>2. CASE c[f] # Null
    BY <1>4, <2>2, ToCppIs, FieldClasses, Zenon
  <2> QED BY <2>1, <2>2, Zenon
<1> QED BY <1>1, <1>2, <1>3, <1>4, FieldClasses, Zenon DEF Kept

\* options() of an open handle out of the C API and in again.
LEMMA RoundTripC ==
  ASSUME NEW o, TypedOptions(o)
  PROVE  LET back == to_cpp_options(fill_borrowed_options(o))
         IN  TypedOptions(back) /\ Kept(o, back)
BY FillIs, BackIs, Zenon

\* The two parts of a setting.
LEMMA SettingIs ==
  ASSUME NEW x, NEW a, NEW b, x = [ty |-> a, v |-> b]
  PROVE  x.ty = a /\ x.v = b
BY Zenon

\* options() of an open handle through the addon and in again.
LEMMA RoundTripJs ==
  ASSUME NEW o, TypedOptions(o)
  PROVE  LET js == normalizeOptions(options_to_js(fill_borrowed_options(o)))
         IN  /\ options_from_js_ok(js)
             /\ TypedOptions(to_cpp_options(options_from_js(js)))
             /\ Kept(o, to_cpp_options(options_from_js(js)))
<1> DEFINE c == fill_borrowed_options(o)
           out == options_to_js(c)
           js == normalizeOptions(out)
           back == options_from_js(js)
<1>1. /\ COptions(c) /\ \A f \in Fields \ Strings : c[f] = o[f]
      /\ \A f \in Strings : c[f] = IF o[f] = Empty THEN Null ELSE o[f]
  BY FillIs, Zenon
<1> HIDE DEF c
<1>2. DOMAIN out = {g \in Fields : g \in Strings => c[g] # Null} \cup {"type"}
  BY Zenon DEF options_to_js
<1>3. ASSUME NEW f \in Fields, f \notin Strings
      PROVE  f \in DOMAIN out
  BY <1>2, <1>3, Zenon
<1>4. ASSUME NEW f \in Strings, c[f] # Null
      PROVE  f \in DOMAIN out /\ out[f].ty = "string" /\ out[f].v = c[f]
  <2>1. f \in DOMAIN out /\ out[f] = [ty |-> "string", v |-> c[f]]
    BY <1>2, <1>4, FieldClasses, Zenon DEF options_to_js
  <2> QED BY <2>1, SettingIs, Zenon
<1>5. ASSUME NEW f \in Flags
      PROVE  out[f].ty = "boolean" /\ out[f].v = IF c[f] THEN 1 ELSE 0
  <2>1. out[f] = [ty |-> "boolean", v |-> IF c[f] THEN 1 ELSE 0]
    BY <1>2, FieldClasses, Zenon DEF options_to_js
  <2> QED BY <2>1
<1>6. ASSUME NEW f \in DOMAIN Enums \cup Ints \cup DOMAIN Limit
      PROVE  /\ out[f].ty = IF f \in {"shm_size", "schema_id", "creator_flags"} THEN "bigint" ELSE "number"
             /\ out[f].v = c[f]
  <2>1. f \in Fields /\ f \notin Strings /\ f \notin Flags /\ f # "type"
    BY FieldClasses, Zenon
  <2>2. CASE f \in {"shm_size", "schema_id", "creator_flags"}
    <3>1. out[f] = [ty |-> "bigint", v |-> c[f]]
      BY <1>2, <2>1, <2>2, Zenon DEF options_to_js
    <3> QED BY <2>2, <3>1, SettingIs, Zenon
  <2>3. CASE f \notin {"shm_size", "schema_id", "creator_flags"}
    <3>1. out[f] = [ty |-> "number", v |-> c[f]]
      BY <1>2, <2>1, <2>3, Zenon DEF options_to_js
    <3> QED BY <2>3, <3>1, SettingIs, Zenon
  <2> QED BY <2>2, <2>3, Zenon
<1> HIDE DEF out
<1>7. DOMAIN js = {g \in Fields : g \in Strings => c[g] # Null}
  <2>1. "channel_type" \in Fields /\ "channel_type" \notin Strings
    BY FieldSets, FieldClasses, Zenon
  <2>2. "type" \notin Fields
    BY FieldClasses, Zenon DEF Fields
  <2>3. DOMAIN js = (DOMAIN out \ {"type"}) \cup {"channel_type"}
    BY NormalizeIs, Zenon
  <2> QED BY Zenon, <1>2, <2>1, <2>2, <2>3
<1>8. ASSUME NEW f \in DOMAIN js
      PROVE  f \in Fields /\ js[f] = out[f]
  <2>1. f \in Fields /\ f \in DOMAIN out
    BY <1>2, <1>7, Zenon
  <2>2. f # "type"
    BY <2>1, FieldClasses, Zenon DEF Fields
  <2> QED BY <2>1, <2>2, NormalizeIs, Zenon
<1> HIDE DEF js
<1>9. ASSUME NEW f \in DOMAIN js
      PROVE  ParsesJs(f, js[f])
  <2>1. CASE f \in Strings
    <3>1. js[f].ty = "string"
      BY <1>4, <1>7, <1>8, <2>1, Zenon
    <3> QED BY <2>1, <3>1, ParsesJsIs, Zenon DEF assign_optional_string
  <2>2. CASE f \in Flags
    <3>1. js[f].ty = "boolean"
      BY <1>5, <1>8, <2>2, Zenon
    <3> QED BY <2>2, <3>1, ParsesJsIs, Zenon DEF parse_bool
  <2>3. CASE f \in DOMAIN Enums
    <3>1. f \notin {"shm_size", "schema_id", "creator_flags"}
      BY <2>3, FieldSets, Zenon
    <3>2. js[f].ty = "number" /\ js[f].v = c[f]
      BY <1>6, <1>8, <2>3, <3>1, Zenon
    <3> QED BY <1>1, <2>3, <3>2, ParsesJsIs, Zenon DEF parse_enum, COptions
  <2>4. CASE f \in Ints
    <3>1. f \notin {"shm_size", "schema_id", "creator_flags"}
      BY <2>4, Zenon DEF Ints
    <3>2. js[f].ty = "number" /\ js[f].v = c[f]
      BY <1>6, <1>8, <2>4, <3>1, Zenon
    <3> QED BY <1>1, <2>4, <3>2, ParsesJsIs, Zenon DEF parse_int, COptions
  <2>5. CASE f \in DOMAIN Limit
    <3>1. js[f].v = c[f] /\ js[f].ty = IF f \in {"shm_size", "schema_id", "creator_flags"} THEN "bigint" ELSE "number"
      BY <1>6, <1>8, <2>5, Zenon
    <3>2. c[f] \in 0 .. Limit[f] /\ Limit[f] \in Nat
      BY <1>1, <2>5, LimitNat, Zenon DEF COptions
    <3>3. f \notin {"shm_size", "schema_id", "creator_flags"} => Limit[f] <= Safe
      BY <2>5, FieldSets, LimitIs, OptionsAssumption
    <3>4. 0 <= c[f] /\ c[f] <= Limit[f] /\ (Limit[f] <= Safe => c[f] <= Safe)
      BY <3>2, OptionsAssumption
    <3>5. parse_uint(js[f], Limit[f])
      BY <3>1, <3>3, <3>4, Zenon DEF parse_uint
    <3> QED BY <2>5, <3>5, ParsesJsIs, Zenon
  <2> QED BY <1>8, <2>1, <2>2, <2>3, <2>4, <2>5, Zenon DEF Fields
<1>10. options_from_js_ok(js)
  <2>1. "type" \notin DOMAIN js
    BY <1>7, FieldClasses, Zenon DEF Fields
  <2> QED BY <1>9, <2>1, Zenon DEF options_from_js_ok
<1>11. ASSUME NEW f \in DOMAIN js \cap Fields
       PROVE  Storable(f, js[f])
  <2>1. f \in Ints \cup DOMAIN Limit => js[f].v \in Int
    <3>1. f \in Ints \cup DOMAIN Limit => js[f].v = c[f]
      BY <1>6, <1>8, Zenon
    <3>2. f \in Ints => c[f] \in Int
      BY <1>1, DefaultInts, Zenon DEF COptions
    <3>3. f \in DOMAIN Limit => c[f] \in Int
      <4>1. f \in DOMAIN Limit => c[f] \in 0 .. Limit[f] /\ Limit[f] \in Nat
        BY <1>1, LimitNat, Zenon DEF COptions
      <4> QED BY <4>1
    <3> QED BY <3>1, <3>2, <3>3, Zenon
  <2> QED BY <1>9, <2>1, StorableJs, Zenon
<1>12. COptions(back)
  BY <1>11, FromJsTyped, Zenon
<1>13. ASSUME NEW f \in Fields \ Strings
       PROVE  back[f] = o[f]
  <2>1. f \in DOMAIN js
    BY <1>7, Zenon
  <2>2. CASE f \in Flags
    <3>1. js[f].ty = "boolean" /\ js[f].v = IF c[f] THEN 1 ELSE 0
      BY <1>5, <1>8, <2>1, <2>2, Zenon
    <3>2. back[f] = (js[f].v = 1)
      BY <2>1, <2>2, <3>1, TypesDiffer, Zenon DEF options_from_js
    <3>3. c[f] \in BOOLEAN
      BY <1>1, <2>2, Zenon DEF COptions
    <3>4. (js[f].v = 1) = c[f]
      BY <3>1, <3>3
    <3> QED BY <1>1, <3>2, <3>4, Zenon
  <2>3. CASE f \notin Flags
    <3>1. js[f].v = c[f] /\ js[f].ty \in {"bigint", "number"}
      BY <1>6, <1>8, <2>1, <2>3, Zenon DEF Fields
    <3>2. back[f] = js[f].v
      BY <2>1, <2>3, <3>1, TypesDiffer, Zenon DEF options_from_js
    <3> QED BY <1>1, <3>1, <3>2, Zenon
  <2> QED BY <2>2, <2>3, Zenon
<1>14. ASSUME NEW f \in Strings
       PROVE  /\ o[f] # Empty => back[f] = o[f]
              /\ o[f] = Empty => back[f] = options_init[f]
  <2>1. CASE c[f] # Null
    <3>1. f \in Fields /\ f \in DOMAIN js
      BY <1>7, <2>1, FieldClasses, Zenon
    <3>2. js[f].ty = "string" /\ js[f].v = c[f]
      BY <1>4, <1>8, <2>1, <3>1, Zenon
    <3>3. back[f] = c[f]
      BY <3>1, <3>2, FieldClasses, TypesDiffer, Zenon DEF options_from_js
    <3> QED BY <1>1, <2>1, <3>3, Zenon
  <2>2. CASE c[f] = Null
    <3>1. f \in Fields /\ f \notin DOMAIN js
      BY <1>7, <2>2, FieldClasses, Zenon
    <3>2. back[f] = options_init[f]
      BY <3>1, Zenon DEF options_from_js
    <3>3. o[f] = Empty
      BY <1>1, <2>2, Zenon DEF TypedOptions
    <3> QED BY <3>2, <3>3, Zenon
  <2> QED BY <2>1, <2>2, Zenon
<1> HIDE DEF back
<1>15. TypedOptions(to_cpp_options(back)) /\ Kept(o, to_cpp_options(back))
  BY <1>12, <1>13, <1>14, BackIs, Zenon
<1> QED BY <1>10, <1>15, Zenon DEF back, js, out, c

\* And through the Python module.
LEMMA RoundTripPy ==
  ASSUME NEW o, TypedOptions(o)
  PROVE  LET py == make_transport_options(fill_borrowed_options(o))
         IN  /\ transport_options_ok(py)
             /\ TypedOptions(to_cpp_options(marshalled_options(py)))
             /\ Kept(o, to_cpp_options(marshalled_options(py)))
<1> DEFINE c == fill_borrowed_options(o)
           py == make_transport_options(c)
           back == marshalled_options(py)
<1>1. /\ COptions(c) /\ \A f \in Fields \ Strings : c[f] = o[f]
      /\ \A f \in Strings : c[f] = IF o[f] = Empty THEN Null ELSE o[f]
  BY FillIs, Zenon
<1> HIDE DEF c
<1>2. DOMAIN py = Fields
  BY Zenon DEF make_transport_options
<1>3. ASSUME NEW f \in Strings
      PROVE  py[f].ty = (IF c[f] = Null THEN "null" ELSE "string") /\ py[f].v = c[f]
  <2>1. CASE c[f] = Null
    <3>1. py[f] = [ty |-> "null", v |-> c[f]]
      BY <2>1, FieldClasses, Zenon DEF make_transport_options
    <3> QED BY <2>1, <3>1, SettingIs, Zenon
  <2>2. CASE c[f] # Null
    <3>1. py[f] = [ty |-> "string", v |-> c[f]]
      BY <2>2, FieldClasses, Zenon DEF make_transport_options
    <3> QED BY <2>2, <3>1, SettingIs, Zenon
  <2> QED BY <2>1, <2>2, Zenon
<1>4. ASSUME NEW f \in Flags
      PROVE  py[f].ty = "boolean" /\ py[f].v = IF c[f] THEN 1 ELSE 0
  <2>1. py[f] = [ty |-> "boolean", v |-> IF c[f] THEN 1 ELSE 0]
    BY FieldClasses, Zenon DEF make_transport_options
  <2> QED BY <2>1
<1>5. ASSUME NEW f \in DOMAIN Enums \cup Ints \cup DOMAIN Limit
      PROVE  py[f].ty = "number" /\ py[f].v = c[f]
  <2>1. py[f] = [ty |-> "number", v |-> c[f]]
    BY FieldClasses, Zenon DEF make_transport_options
  <2> QED BY <2>1, SettingIs, Zenon
<1> HIDE DEF py
<1>6. ASSUME NEW f \in Fields
      PROVE  ParsesPy(f, py[f])
  <2>1. CASE f \in Strings
    BY <1>3, <2>1, ParsesPyIs, Zenon
  <2>2. CASE f \in Flags
    BY <1>4, <2>2, ParsesPyIs, Zenon
  <2>3. CASE f \in DOMAIN Enums
    BY <1>1, <1>5, <2>3, ParsesPyIs, Zenon DEF COptions
  <2>4. CASE f \in Ints
    BY <1>1, <1>5, <2>4, ParsesPyIs, Zenon DEF COptions
  <2>5. CASE f \in DOMAIN Limit
    <3>1. c[f] \in 0 .. Limit[f] /\ Limit[f] \in Nat
      BY <1>1, <2>5, LimitNat, Zenon DEF COptions
    <3>2. 0 <= c[f] /\ c[f] <= Limit[f]
      BY <3>1
    <3>3. py[f].ty = "number" /\ py[f].v = c[f]
      BY <1>5, <2>5, Zenon
    <3>4. py[f].ty = "number" /\ 0 <= py[f].v /\ py[f].v <= Limit[f]
      BY <3>2, <3>3, Zenon
    <3> QED BY <2>5, <3>4, ParsesPyIs, Zenon
  <2> QED BY <2>1, <2>2, <2>3, <2>4, <2>5, Zenon DEF Fields
<1>7. transport_options_ok(py)
  BY <1>2, <1>6, Zenon DEF transport_options_ok
<1>8. ASSUME NEW f \in DOMAIN py \cap Fields
      PROVE  Storable(f, py[f])
  <2>1. f \in Ints \cup DOMAIN Limit => py[f].v \in Int
    <3>1. f \in Ints \cup DOMAIN Limit => py[f].v = c[f]
      BY <1>5, Zenon
    <3>2. f \in Ints => c[f] \in Int
      BY <1>1, DefaultInts, Zenon DEF COptions
    <3>3. f \in DOMAIN Limit => c[f] \in Int
      <4>1. f \in DOMAIN Limit => c[f] \in 0 .. Limit[f] /\ Limit[f] \in Nat
        BY <1>1, LimitNat, Zenon DEF COptions
      <4> QED BY <4>1
    <3> QED BY <3>1, <3>2, <3>3, Zenon
  <2> QED BY <1>6, <2>1, StorablePy, Zenon
<1>9. COptions(back)
  BY <1>8, FromJsTyped, Zenon
<1>10. ASSUME NEW f \in Fields \ Strings
       PROVE  back[f] = o[f]
  <2>1. CASE f \in Flags
    <3>1. back[f] = (py[f].v = 1)
      BY <1>2, <1>4, <2>1, TypesDiffer, Zenon DEF marshalled_options
    <3>2. c[f] \in BOOLEAN /\ py[f].v = IF c[f] THEN 1 ELSE 0
      BY <1>1, <1>4, <2>1, Zenon DEF COptions
    <3>3. (py[f].v = 1) = c[f]
      BY <3>2
    <3> QED BY <1>1, <3>1, <3>3, Zenon
  <2>2. CASE f \notin Flags
    <3>1. py[f].v = c[f] /\ py[f].ty = "number"
      BY <1>5, <2>2, Zenon DEF Fields
    <3>2. back[f] = py[f].v
      BY <1>2, <2>2, <3>1, TypesDiffer, Zenon DEF marshalled_options
    <3> QED BY <1>1, <3>1, <3>2, Zenon
  <2> QED BY <2>1, <2>2, Zenon
<1>11. ASSUME NEW f \in Strings
       PROVE  back[f] = c[f]
  <2>1. f \in Fields /\ f \notin Flags
    BY FieldClasses, Zenon
  <2>2. CASE c[f] = Null
    <3>1. py[f].ty = "null"
      BY <1>3, <2>2, Zenon
    <3> QED BY <1>2, <2>1, <2>2, <3>1, Zenon DEF marshalled_options
  <2>3. CASE c[f] # Null
    <3>1. py[f].ty = "string" /\ py[f].v = c[f]
      BY <1>3, <2>3, Zenon
    <3> QED BY <1>2, <2>1, <3>1, TypesDiffer, Zenon DEF marshalled_options
  <2> QED BY <2>2, <2>3, Zenon
<1> HIDE DEF back
<1>12. /\ \A f \in Strings : o[f] # Empty => back[f] = o[f]
       /\ \A f \in Strings : o[f] = Empty => back[f] \in {Null, options_init[f]}
  BY <1>1, <1>11, Zenon
<1>13. TypedOptions(to_cpp_options(back)) /\ Kept(o, to_cpp_options(back))
  BY <1>9, <1>10, <1>12, BackIs, Zenon
<1> QED BY <1>7, <1>13, Zenon DEF back, py, c

\* What a round trip keeps, field by field.
LEMMA KeptIs ==
  ASSUME NEW o, NEW p, Kept(o, p)
  PROVE  /\ p.create_if_missing = o.create_if_missing /\ p.socket_listen = o.socket_listen
         /\ p.backend = o.backend /\ p.channel_type = o.channel_type
         /\ p.socket_connect_retries = o.socket_connect_retries
         /\ p.socket_connect_retry_ms = o.socket_connect_retry_ms
         /\ p.shm_size = o.shm_size /\ p.item_size = o.item_size /\ p.data_align = o.data_align
         /\ p.schema_id = o.schema_id /\ p.socket_port = o.socket_port
         /\ o.path # Empty => p.path = o.path
         /\ o.socket_host # Empty => p.socket_host = o.socket_host
         /\ o.win32_object_namespace # Empty => p.win32_object_namespace = o.win32_object_namespace
<1>1. \A f \in FieldNames : f \notin Strings => p[f] = o[f]
  BY FieldSets, Zenon DEF Kept
<1>2. \A f \in FieldNames : o[f] # Empty => p[f] = o[f]
  BY FieldSets, Zenon DEF Kept
<1>3. /\ {"create_if_missing", "socket_listen", "backend", "channel_type", "socket_connect_retries",
          "socket_connect_retry_ms", "shm_size", "item_size", "data_align", "schema_id", "socket_port",
          "path", "socket_host", "win32_object_namespace"} \subseteq FieldNames
      /\ \A f \in {"create_if_missing", "socket_listen", "backend", "channel_type", "socket_connect_retries",
          "socket_connect_retry_ms", "shm_size", "item_size", "data_align", "schema_id", "socket_port"} : f \notin Strings
  BY Zenon DEF FieldNames, Strings
<1> QED BY Zenon, <1>1, <1>2, <1>3

\* The checks do not tell options from what comes back of them.
LEMMA KeptValid ==
  ASSUME NEW o, NEW p, Kept(o, p)
  PROVE  /\ Offered(p) = Offered(o)
         /\ \A k : validate_for(k, o) => validate_for(k, p)
         /\ \A h : validate_detailed(h, o) => validate_detailed(h, p)
<1>1. Offered(p) = Offered(o)
  BY KeptIs DEF Offered
<1>2. ItemSize(p) = ItemSize(o) /\ Align(p) = Align(o)
  BY KeptIs DEF ItemSize, Align
<1>3. \A h : validate_detailed(h, o) => validate_detailed(h, p)
  BY <1>2, KeptIs DEF validate_detailed
<1>4. validate_transport_options(o) => validate_transport_options(p)
  <2>1. "Local" # Empty /\ "Global" # Empty
    BY Zenon DEF Empty
  <2> QED BY <2>1, KeptIs DEF validate_transport_options
<1>5. \A k : validate_for(k, o) => validate_for(k, p)
  BY <1>4, KeptIs DEF validate_for
<1> QED BY <1>1, <1>3, <1>5, Zenon

\* Options good for one kind of endpoint are good for every kind they can be meant for,
\* once the size is known.
LEMMA ValidForOffered ==
  ASSUME NEW o, TypedOptions(o), NEW k \in Kinds, validate_for(k, o),
         o.backend = "shared_memory" => o.shm_size # 0
  PROVE  k \in Offered(o) /\ \A other \in Offered(o) : validate_for(other, o)
<1>1. o.backend \in {"shared_memory", "socket"} /\ o.socket_listen \in BOOLEAN
  BY TypedIs, Zenon
<1>2. validate_transport_options(o)
  BY Zenon DEF validate_for
<1>3. CASE o.backend = "shared_memory"
  BY Zenon, <1>2, <1>3 DEF validate_for, Offered, Kinds
<1>4. CASE o.backend = "socket"
  BY Zenon, <1>1, <1>2, <1>4 DEF validate_for, Offered, Kinds
<1> QED BY <1>1, <1>3, <1>4, Zenon

-----------------------------------------------------------------------------
\* A segment's size and its capacity.
LEMMA SizeOfCapacity ==
  ASSUME NEW n \in 0 .. (U64 - MinShm)
  PROVE  /\ shm_size_for_data_capacity(n) = MinShm + n
         /\ MinShm + n \in 0 .. U64 /\ MinShm + n >= MinShm /\ MinShm + n # 0
         /\ shm_data_capacity_for_size(MinShm + n) = n
<1>1. MinShm \in Nat /\ MinShm > 0 /\ U64 \in Nat /\ n \in Nat /\ MinShm + n <= U64
  BY OptionsAssumption
<1>2. (MinShm + n) % (U64 + 1) = MinShm + n
  BY <1>1
<1> QED BY <1>1, <1>2 DEF shm_size_for_data_capacity, shm_data_capacity_for_size

\* The capacity of a size that has room for the control block.
LEMMA CapacityOfSize ==
  ASSUME NEW n \in 0 .. U64, n >= MinShm
  PROVE  /\ shm_data_capacity_for_size(n) \in 0 .. (U64 - MinShm)
         /\ shm_data_capacity_for_size(n) = n - MinShm
BY OptionsAssumption DEF shm_data_capacity_for_size

\* The default alignment is a power of two.
LEMMA EightIsPower == PowerOfTwo(8)
<1>1. 2 ^ 3 = 8
  BY SMT
<1> QED BY <1>1 DEF PowerOfTwo

\* What the checks say of a shared-memory endpoint's options.
LEMMA ValidIs ==
  ASSUME NEW o, TypedOptions(o), NEW k, validate_for(k, o), o.backend = "shared_memory"
  PROVE  /\ o.path # Empty
         /\ o.shm_size # 0 => o.shm_size >= MinShm
         /\ o.channel_type = "fixed" => o.item_size # 0
         /\ Align(o) \in 4 .. U32 /\ PowerOfTwo(Align(o))
<1>1. /\ o.path # Empty /\ (o.shm_size # 0 => o.shm_size >= MinShm)
      /\ o.channel_type = "fixed" => o.item_size # 0
      /\ o.data_align # 0 => o.data_align >= 4 /\ PowerOfTwo(o.data_align)
  BY Zenon DEF validate_for, validate_transport_options
<1>2. o.data_align \in 0 .. U32
  BY TypedIs, Zenon
<1>3. Align(o) \in 4 .. U32
  BY <1>1, <1>2, OptionsAssumption DEF Align
<1>4. PowerOfTwo(Align(o))
  BY <1>1, EightIsPower, Zenon DEF Align
<1> QED BY <1>1, <1>3, <1>4, Zenon

\* The manifest a creator writes, which its own options match.
LEMMA InitHeaderOk ==
  ASSUME NEW o, TypedOptions(o), NEW k, validate_for(k, o), o.backend = "shared_memory",
         o.shm_size # 0, CanInit(o)
  PROVE  Manifest(init_header(o)) /\ validate_detailed(init_header(o), o)
<1> DEFINE h == init_header(o)
<1>1. /\ h.type = o.channel_type /\ h.align = Align(o) /\ h.item = ItemSize(o) /\ h.schema = o.schema_id
      /\ h.flags = o.creator_flags /\ h.capacity = shm_data_capacity_for_size(o.shm_size)
  BY Zenon DEF init_header
<1>2. /\ o.channel_type \in {"fixed", "varlen"} /\ o.item_size \in 0 .. U32
      /\ o.shm_size \in 0 .. U64 /\ o.schema_id \in 0 .. U64 /\ o.creator_flags \in 0 .. U64
  BY TypedIs, Zenon
<1>3. h.capacity \in 0 .. (U64 - MinShm)
  BY <1>1, <1>2, ValidIs, CapacityOfSize, Zenon
<1>4. h.item \in 0 .. U32 /\ (h.type = "fixed" <=> h.item # 0)
  BY <1>1, <1>2, ValidIs, OptionsAssumption DEF ItemSize
<1>5. h.item # 0 => h.capacity % h.item = 0
  BY <1>1, Zenon DEF CanInit
<1>6. h \in [type : Enums["channel_type"], align : 4 .. U32, item : 0 .. U32, schema : 0 .. U64,
             flags : 0 .. U64, capacity : 0 .. (U64 - MinShm)]
  <2>1. /\ o.channel_type \in Enums["channel_type"] /\ Align(o) \in 4 .. U32 /\ ItemSize(o) \in 0 .. U32
        /\ shm_data_capacity_for_size(o.shm_size) \in 0 .. (U64 - MinShm)
    BY <1>1, <1>2, <1>3, <1>4, ValidIs, EnumsAre, Zenon
  <2> QED BY Zenon, <1>2, <2>1 DEF init_header
<1>7. Manifest(h)
  BY <1>1, <1>4, <1>5, <1>6, ValidIs, Zenon DEF Manifest
<1>8. h.capacity >= shm_data_capacity_for_size(o.shm_size)
  BY <1>1, <1>3, OptionsAssumption
<1>9. validate_detailed(h, o)
  BY <1>1, <1>5, <1>8, Zenon DEF validate_detailed
<1> QED BY <1>7, <1>9, Zenon

\* A manifest, field by field; it is neither of the two states without one.
LEMMA ManifestIs ==
  ASSUME NEW h, Manifest(h)
  PROVE  /\ h.type \in {"fixed", "varlen"} /\ h.align \in 4 .. U32 /\ h.item \in 0 .. U32
         /\ h.schema \in 0 .. U64 /\ h.flags \in 0 .. U64 /\ h.capacity \in 0 .. (U64 - MinShm)
         /\ PowerOfTwo(h.align) /\ (h.type = "fixed" <=> h.item # 0)
         /\ h.item # 0 => h.capacity % h.item = 0
         /\ h \notin {NoSegment, Blank}
<1>1. h \in [type : Enums["channel_type"], align : 4 .. U32, item : 0 .. U32, schema : 0 .. U64,
             flags : 0 .. U64, capacity : 0 .. (U64 - MinShm)]
  BY Zenon DEF Manifest
<1>2. /\ h.type \in {"fixed", "varlen"} /\ h.align \in 4 .. U32 /\ h.item \in 0 .. U32
      /\ h.schema \in 0 .. U64 /\ h.flags \in 0 .. U64 /\ h.capacity \in 0 .. (U64 - MinShm)
  BY Zenon, <1>1, EnumsAre
<1>3. NoSegment.type = "none" /\ Blank.type = "blank"
  BY Zenon DEF NoSegment, Blank
<1>4. h \notin {NoSegment, Blank}
  BY Zenon, <1>2, <1>3
<1> QED BY <1>2, <1>4, Zenon DEF Manifest

\* The size and the flags an endpoint takes over from the manifest.
LEMMA AttachedKeeps ==
  ASSUME NEW o, TypedOptions(o), NEW k, validate_for(k, o), o.backend = "shared_memory",
         NEW h, Manifest(h), validate_detailed(h, o), NEW p,
         p = [o EXCEPT !.shm_size = shm_size_for_data_capacity(h.capacity), !.creator_flags = h.flags]
  PROVE  /\ TypedOptions(p) /\ validate_for(k, p) /\ validate_detailed(h, p)
         /\ p.backend = "shared_memory" /\ p.shm_size # 0
<1>1. o = [f \in FieldNames |-> o[f]]
  BY TypedIs, Zenon
<1>2. {"shm_size", "creator_flags"} \subseteq FieldNames
  BY Zenon DEF FieldNames
<1>3. /\ p = [f \in FieldNames |-> p[f]]
      /\ p["shm_size"] = shm_size_for_data_capacity(h.capacity) /\ p["creator_flags"] = h.flags
  BY <1>1, <1>2, Zenon
<1>4. \A f \in FieldNames \ {"shm_size", "creator_flags"} : p[f] = o[f]
  BY <1>1, Zenon
<1>5. /\ p["shm_size"] = MinShm + h.capacity /\ p["shm_size"] \in 0 .. U64
      /\ p["shm_size"] >= MinShm /\ p["shm_size"] # 0
      /\ shm_data_capacity_for_size(p["shm_size"]) = h.capacity
  <2>1. h.capacity \in 0 .. (U64 - MinShm)
    BY ManifestIs, Zenon
  <2>2. p["shm_size"] = MinShm + h.capacity
    BY <1>3, <2>1, SizeOfCapacity, Zenon
  <2>3. /\ MinShm + h.capacity \in 0 .. U64 /\ MinShm + h.capacity >= MinShm /\ MinShm + h.capacity # 0
        /\ shm_data_capacity_for_size(MinShm + h.capacity) = h.capacity
    BY <2>1, SizeOfCapacity, Zenon
  <2> QED BY <2>2, <2>3, Zenon
<1>6. /\ p.create_if_missing = o.create_if_missing /\ p.socket_listen = o.socket_listen
      /\ p.backend = o.backend /\ p.channel_type = o.channel_type
      /\ p.socket_connect_retries = o.socket_connect_retries
      /\ p.socket_connect_retry_ms = o.socket_connect_retry_ms
      /\ p.item_size = o.item_size /\ p.data_align = o.data_align
      /\ p.schema_id = o.schema_id /\ p.socket_port = o.socket_port
      /\ p.path = o.path /\ p.socket_host = o.socket_host
      /\ p.win32_object_namespace = o.win32_object_namespace
  <2>1. {"create_if_missing", "socket_listen", "backend", "channel_type", "socket_connect_retries",
         "socket_connect_retry_ms", "item_size", "data_align", "schema_id", "socket_port", "path",
         "socket_host", "win32_object_namespace"} \subseteq FieldNames \ {"shm_size", "creator_flags"}
    BY Zenon DEF FieldNames
  <2> QED BY <1>4, <2>1, Zenon
<1>7. TypedOptions(p)
  <2>1. /\ p["path"] # Null /\ p["win32_object_namespace"] # Null /\ p["socket_host"] # Null
        /\ p["create_if_missing"] \in BOOLEAN /\ p["socket_listen"] \in BOOLEAN
        /\ p["backend"] \in {"shared_memory", "socket"} /\ p["channel_type"] \in {"fixed", "varlen"}
        /\ p["socket_connect_retries"] \in CInt /\ p["socket_connect_retry_ms"] \in CInt
        /\ p["item_size"] \in 0 .. U32 /\ p["data_align"] \in 0 .. U32
        /\ p["schema_id"] \in 0 .. U64 /\ p["socket_port"] \in 0 .. U16
    BY <1>6, TypedIs, Zenon
  <2>2. p["creator_flags"] \in 0 .. U64
    BY <1>3, ManifestIs, Zenon
  <2> QED BY <1>3, <1>5, <2>1, <2>2, TypedIs, Zenon
<1>8. validate_transport_options(o)
  BY Zenon DEF validate_for
<1>9. validate_transport_options(p)
  BY Zenon, <1>5, <1>6, <1>8 DEF validate_transport_options
<1>10. validate_for(k, p)
  BY Zenon, <1>5, <1>6, <1>9 DEF validate_for
<1>11. ItemSize(p) = ItemSize(o) /\ Align(p) = Align(o)
  BY <1>6, Zenon DEF ItemSize, Align
<1>12. h.capacity >= shm_data_capacity_for_size(p.shm_size)
  BY <1>5, ManifestIs, OptionsAssumption
<1>13. validate_detailed(h, p)
  BY <1>6, <1>11, <1>12, Zenon DEF validate_detailed
<1> QED BY <1>5, <1>6, <1>7, <1>10, <1>13, Zenon

\* Options read from the segment: valid for every kind of endpoint, and they attach.
LEMMA ReadExistingOk ==
  ASSUME NEW h, Manifest(h), NEW o, o = read_existing_shm_options(h)
  PROVE  /\ TypedOptions(o) /\ o.backend = "shared_memory" /\ validate_transport_options(o)
         /\ validate_detailed(h, o) /\ \A k \in Kinds : validate_for(k, o)
<1>1. h.capacity \in 0 .. (U64 - MinShm)
  BY ManifestIs, Zenon
<1>2. /\ o.path = "/p" /\ o.shm_size = shm_size_for_data_capacity(h.capacity) /\ o.item_size = h.item
      /\ o.data_align = h.align /\ o.schema_id = h.schema /\ o.creator_flags = h.flags
      /\ o.create_if_missing = FALSE /\ o.channel_type = h.type /\ o.backend = "shared_memory"
      /\ o.win32_object_namespace = "Local" /\ o.socket_host = "127.0.0.1" /\ o.socket_port = 0
      /\ o.socket_listen = FALSE /\ o.socket_connect_retries = 200 /\ o.socket_connect_retry_ms = 10
  BY Zenon DEF read_existing_shm_options, cpp_defaults, options_init
<1>3. o = [f \in FieldNames |-> o[f]]
  <2>1. PICK d : d = cpp_defaults
    BY Zenon
  <2>2. d = [f \in FieldNames |-> d[f]]
    BY <2>1, CppDefaultsAre, Zenon
  <2> QED BY <2>1, <2>2, Zenon DEF read_existing_shm_options
<1>4. /\ o.shm_size = MinShm + h.capacity /\ o.shm_size \in 0 .. U64
      /\ o.shm_size >= MinShm /\ o.shm_size # 0
      /\ shm_data_capacity_for_size(o.shm_size) = h.capacity
  <2>1. o.shm_size = MinShm + h.capacity
    BY <1>1, <1>2, SizeOfCapacity, Zenon
  <2>2. /\ MinShm + h.capacity \in 0 .. U64 /\ MinShm + h.capacity >= MinShm /\ MinShm + h.capacity # 0
        /\ shm_data_capacity_for_size(MinShm + h.capacity) = h.capacity
    BY <1>1, SizeOfCapacity, Zenon
  <2> QED BY <2>1, <2>2, Zenon
<1>5. TypedOptions(o)
  <2>1. "/p" # Null /\ "Local" # Null /\ "127.0.0.1" # Null
    BY Zenon DEF Null
  <2>2. o.data_align \in 0 .. U32 /\ o.socket_port \in 0 .. U16
    BY <1>2, ManifestIs, OptionsAssumption
  <2>3. o.socket_connect_retries \in CInt /\ o.socket_connect_retry_ms \in CInt
    BY <1>2, DefaultInts, Zenon
  <2>4. /\ o.channel_type \in {"fixed", "varlen"} /\ o.item_size \in 0 .. U32
        /\ o.schema_id \in 0 .. U64 /\ o.creator_flags \in 0 .. U64
    BY <1>2, ManifestIs
  <2>5. /\ o.path # Null /\ o.win32_object_namespace # Null /\ o.socket_host # Null
        /\ o.backend \in {"shared_memory", "socket"}
    BY <1>2, <2>1
  <2>6. o.create_if_missing = FALSE /\ o.socket_listen = FALSE
    BY <1>2, Zenon
  <2>7. o.create_if_missing \in BOOLEAN /\ o.socket_listen \in BOOLEAN
    BY <2>6, Zenon
  <2> QED BY <1>3, <1>4, <2>2, <2>3, <2>4, <2>5, <2>7, TypedIs, Zenon
<1>6. h.align >= 4 /\ h.align # 0 /\ PowerOfTwo(h.align) /\ (h.type = "fixed" => h.item # 0)
  BY ManifestIs
<1>7. o.path # Empty
  BY Zenon, <1>2 DEF Empty
<1>8. validate_transport_options(o)
  BY <1>2, <1>4, <1>6, <1>7 DEF validate_transport_options
<1>9. \A k \in Kinds : validate_for(k, o)
  BY Zenon, <1>2, <1>8 DEF validate_for, Kinds
<1>10. ItemSize(o) = h.item /\ Align(o) = h.align
  BY <1>2, <1>6, ManifestIs DEF ItemSize, Align
<1>11. h.capacity >= shm_data_capacity_for_size(o.shm_size)
  BY <1>1, <1>4, OptionsAssumption
<1>12. validate_detailed(h, o)
  BY <1>2, <1>10, <1>11, ManifestIs DEF validate_detailed
<1> QED BY <1>2, <1>5, <1>8, <1>9, <1>12, Zenon

\* With another schema the options attach exactly if it is the segment's.
LEMMA OtherSchema ==
  ASSUME NEW o, TypedOptions(o), o.backend = "shared_memory", NEW h, validate_detailed(h, o),
         NEW s \in 0 .. U64, NEW p, p = [o EXCEPT !.schema_id = s]
  PROVE  /\ TypedOptions(p) /\ p.backend = "shared_memory"
         /\ validate_detailed(h, p) <=> p.schema_id = h.schema
<1>1. o = [f \in FieldNames |-> o[f]]
  BY TypedIs, Zenon
<1>2. "schema_id" \in FieldNames
  BY Zenon DEF FieldNames
<1>3. p = [f \in FieldNames |-> p[f]] /\ p["schema_id"] = s
  BY <1>1, <1>2, Zenon
<1>4. \A f \in FieldNames \ {"schema_id"} : p[f] = o[f]
  BY <1>1, Zenon
<1>5. {"create_if_missing", "socket_listen", "backend", "channel_type", "socket_connect_retries",
       "socket_connect_retry_ms", "shm_size", "item_size", "data_align", "creator_flags", "socket_port",
       "path", "socket_host", "win32_object_namespace"} \subseteq FieldNames \ {"schema_id"}
  BY Zenon DEF FieldNames
<1>6. TypedOptions(p)
  BY <1>3, <1>4, <1>5, TypedIs, Zenon
<1>7. /\ p.backend = o.backend /\ p.channel_type = o.channel_type /\ p.item_size = o.item_size
      /\ p.data_align = o.data_align /\ p.shm_size = o.shm_size
  BY <1>4, <1>5, Zenon
<1>8. ItemSize(p) = ItemSize(o) /\ Align(p) = Align(o)
  BY <1>7, Zenon DEF ItemSize, Align
<1> QED BY <1>6, <1>7, <1>8, Zenon DEF validate_detailed

\* The options of a shared-memory builder that passes its own check suit every endpoint
\* unless the size wrapped to 0; one that passes the checks of both ends did not.
LEMMA ChannelBuilderOk ==
  ASSUME NEW type \in {"fixed", "varlen"}, NEW item \in Items, NEW align \in Aligns,
         NEW schema \in Schemas, NEW flags \in CreatorFlags, NEW capacity \in Capacities,
         NEW o, o = channel_builder_options(type, item, align, schema, flags, capacity)
  PROVE  /\ TypedOptions(o)
         /\ validate_transport_options(o) => GivenOk("builder", o)
         /\ validate_for("producer", o) => GivenOk("factory", o)
<1>1. /\ o.path = "/p" /\ o.shm_size = shm_size_for_data_capacity(capacity)
      /\ o.item_size = (IF type = "fixed" THEN item ELSE 0)
      /\ o.data_align = align /\ o.schema_id = schema /\ o.creator_flags = flags
      /\ o.create_if_missing = TRUE /\ o.channel_type = type /\ o.backend = "shared_memory"
      /\ o.win32_object_namespace = "Local" /\ o.socket_host = "127.0.0.1" /\ o.socket_port = 0
      /\ o.socket_listen = FALSE /\ o.socket_connect_retries = 200 /\ o.socket_connect_retry_ms = 10
  BY Zenon DEF channel_builder_options, cpp_defaults, options_init
<1>2. o = [f \in FieldNames |-> o[f]]
  <2>1. PICK d : d = cpp_defaults
    BY Zenon
  <2>2. d = [f \in FieldNames |-> d[f]]
    BY <2>1, CppDefaultsAre, Zenon
  <2> QED BY <2>1, <2>2, Zenon DEF channel_builder_options
<1>3. o.shm_size \in 0 .. U64
  <2>1. capacity \in 0 .. U64 /\ MinShm \in Nat /\ U64 \in Nat
    BY BuilderAssumption, OptionsAssumption
  <2>2. (MinShm + capacity) % (U64 + 1) \in 0 .. U64
    BY <2>1
  <2> QED BY <1>1, <2>2 DEF shm_size_for_data_capacity
<1>4. TypedOptions(o)
  <2>1. /\ o.item_size \in 0 .. U32 /\ o.data_align \in 0 .. U32 /\ o.schema_id \in 0 .. U64
        /\ o.creator_flags \in 0 .. U64 /\ o.socket_port \in 0 .. U16
    BY <1>1, BuilderAssumption, OptionsAssumption
  <2>2. o.socket_connect_retries \in CInt /\ o.socket_connect_retry_ms \in CInt
    BY <1>1, DefaultInts, Zenon
  <2>3. /\ o.path # Null /\ o.win32_object_namespace # Null /\ o.socket_host # Null
        /\ o.backend \in {"shared_memory", "socket"} /\ o.channel_type \in {"fixed", "varlen"}
    BY Zenon, <1>1 DEF Null
  <2>4. o.create_if_missing = TRUE /\ o.socket_listen = FALSE
    BY <1>1, Zenon
  <2>5. o.create_if_missing \in BOOLEAN /\ o.socket_listen \in BOOLEAN
    BY <2>4, Zenon
  <2> QED BY <1>2, <1>3, <2>1, <2>2, <2>3, <2>5, TypedIs, Zenon
<1>5. ASSUME validate_transport_options(o), o.shm_size # 0
      PROVE  \A k \in Offered(o) : validate_for(k, o)
  BY Zenon, <1>1, <1>5 DEF Offered, validate_for, Kinds
<1>6. validate_for("producer", o) => validate_transport_options(o) /\ o.shm_size # 0
  BY Zenon, <1>1 DEF validate_for
<1>7. validate_transport_options(o) => GivenOk("builder", o)
  BY <1>1, <1>5, Zenon DEF GivenOk, SizeWrapped
<1> QED BY <1>4, <1>5, <1>6, <1>7, Zenon DEF GivenOk

\* The builders of the two ends of a socket check for the only kind that fits.
LEMMA SocketBuildersOk ==
  ASSUME NEW type \in {"fixed", "varlen"}, NEW item \in Items, NEW port \in Ports, NEW retries \in CInt,
         NEW o, NEW k,
         \/ o = socket_listener_options(type, item, port) /\ k = "consumer"
         \/ o = socket_connector_options(type, item, port, retries) /\ k = "producer"
  PROVE  TypedOptions(o) /\ (validate_for(k, o) => GivenOk("builder", o))
<1>1. /\ o.path = Empty /\ o.shm_size = 0 /\ o.item_size = item
      /\ o.data_align = 0 /\ o.schema_id = 0 /\ o.creator_flags = 0
      /\ o.create_if_missing = TRUE /\ o.channel_type = type /\ o.backend = "socket"
      /\ o.win32_object_namespace = "Local" /\ o.socket_host \in {Empty, "127.0.0.1"} /\ o.socket_port = port
      /\ o.socket_connect_retries \in {200, retries} /\ o.socket_connect_retry_ms = 10
  <2>1. CASE o = socket_listener_options(type, item, port)
    BY <2>1, Zenon DEF socket_listener_options, cpp_defaults, options_init
  <2>2. CASE o = socket_connector_options(type, item, port, retries)
    BY <2>2, Zenon DEF socket_connector_options, cpp_defaults, options_init
  <2> QED BY <2>1, <2>2, Zenon
<1>2. o.socket_listen = (k = "consumer")
  <2>1. CASE o = socket_listener_options(type, item, port) /\ k = "consumer"
    BY <2>1, Zenon DEF socket_listener_options, cpp_defaults, options_init
  <2>2. CASE o = socket_connector_options(type, item, port, retries) /\ k = "producer"
    <3>1. o.socket_listen = FALSE
      BY <2>2, Zenon DEF socket_connector_options, cpp_defaults, options_init
    <3>2. k # "consumer"
      BY Zenon, <2>2
    <3> QED BY <3>1, <3>2, Zenon
  <2> QED BY <2>1, <2>2, Zenon
<1>3. o = [f \in FieldNames |-> o[f]]
  <2>1. PICK d : d = cpp_defaults
    BY Zenon
  <2>2. d = [f \in FieldNames |-> d[f]]
    BY <2>1, CppDefaultsAre, Zenon
  <2> QED BY <2>1, <2>2, Zenon DEF socket_listener_options, socket_connector_options
<1>4. TypedOptions(o)
  <2>1. /\ o.item_size \in 0 .. U32 /\ o.data_align \in 0 .. U32 /\ o.schema_id \in 0 .. U64
        /\ o.creator_flags \in 0 .. U64 /\ o.socket_port \in 0 .. U16 /\ o.shm_size \in 0 .. U64
    BY <1>1, BuilderAssumption, OptionsAssumption
  <2>2. o.socket_connect_retries \in CInt /\ o.socket_connect_retry_ms \in CInt
    BY <1>1, DefaultInts, Zenon
  <2>3. /\ o.path # Null /\ o.win32_object_namespace # Null /\ o.socket_host # Null
        /\ o.backend \in {"shared_memory", "socket"} /\ o.channel_type \in {"fixed", "varlen"}
    BY Zenon, <1>1 DEF Null, Empty
  <2>4. o.create_if_missing = TRUE
    BY <1>1, Zenon
  <2>5. o.create_if_missing \in BOOLEAN /\ o.socket_listen \in BOOLEAN
    BY <1>2, <2>4, Zenon
  <2> QED BY <1>3, <2>1, <2>2, <2>3, <2>5, TypedIs, Zenon
<1>5. ASSUME validate_for(k, o)
      PROVE  GivenOk("builder", o)
  <2>1. k \in Kinds
    BY Zenon DEF Kinds
  <2>2. o.backend # "shared_memory"
    BY Zenon, <1>1
  <2>3. validate_transport_options(o)
    BY <1>5, Zenon DEF validate_for
  <2> QED BY <1>4, <1>5, <2>1, <2>2, <2>3, ValidForOffered, Zenon DEF GivenOk
<1> QED BY <1>4, <1>5, Zenon

-----------------------------------------------------------------------------
\* The invariant holds before the first options are made, whatever segment is there.
LEMMA OptionsInitInv == OptionsInit => OptionsInv
<1> SUFFICES ASSUME OptionsInit PROVE OptionsInv
  BY Zenon
<1>1. TypedOptions(opts)
  BY DefaultsTyped, Zenon DEF OptionsInit
<1>2. header \in {NoSegment, Blank} \/ Manifest(header)
  <2>1. ASSUME NEW o \in Creators
        PROVE  Manifest(init_header(o))
    <3>1. /\ TypedOptions(o) /\ CanInit(o) /\ validate_for("producer", o)
          /\ o.backend = "shared_memory" /\ o.create_if_missing
      BY CreatorAssumption, Zenon
    <3>2. o.shm_size # 0
      BY Zenon, <3>1 DEF validate_for
    <3> QED BY <3>1, <3>2, InitHeaderOk, Zenon
  <2> QED BY <2>1, Zenon DEF OptionsInit
<1>3. stage = "start"
  BY Zenon DEF OptionsInit
<1> QED BY Zenon, <1>1, <1>2, <1>3 DEF OptionsInv

\* Options come in hand: what they must satisfy, by where they come from.
LEMMA ArriveInv ==
  ASSUME OptionsInv, NEW o, NEW ok, NEW from, Arrive(o, ok, from),
         ok => TypedOptions(o),
         ok /\ from # "script" => GivenOk(from, o),
         ok /\ from \in {"handle", "segment"} /\ o.backend = "shared_memory" => Attaches(o),
         ok /\ from = "attach" => BySchema(o),
         from = "handle" => ok
  PROVE  OptionsInv'
<1>1. header' = header /\ kind' = kind /\ origin' = from
  BY Zenon DEF Arrive
<1>2. header \in {NoSegment, Blank} \/ Manifest(header)
  BY Zenon DEF OptionsInv
<1>3. CASE ok
  <2>1. stage' = "ready" /\ opts' = o
    BY <1>3, Zenon DEF Arrive
  <2>2. stage' # "open" /\ stage' # "refused"
    BY Zenon, <2>1
  <2>3. origin' \in {"handle", "segment"} /\ opts'.backend = "shared_memory" => Attaches(opts)'
    <3>1. ASSUME from \in {"handle", "segment"}, o.backend = "shared_memory" PROVE Attaches(opts)'
      BY <1>1, <1>3, <2>1, <3>1, Zenon DEF Attaches, Formatted
    <3> QED BY <1>1, <2>1, <3>1, Zenon
  <2>4. TypedOptions(opts') /\ (origin' # "script" => GivenOk(origin', opts'))
    BY <1>1, <1>3, <2>1, Zenon
  <2>5. origin' = "attach" => BySchema(opts)'
    BY <1>1, <1>3, <2>1, Zenon DEF BySchema, Formatted
  <2> QED BY <1>1, <1>2, <2>2, <2>3, <2>4, <2>5, Zenon DEF OptionsInv
<1>4. CASE ~ok
  <2>1. stage' = "refused" /\ opts' = cpp_defaults /\ origin' # "handle"
    BY <1>1, <1>4, Zenon DEF Arrive
  <2>2. stage' # "open" /\ stage' # "ready"
    BY Zenon, <2>1
  <2>3. TypedOptions(opts')
    BY <2>1, DefaultsTyped, Zenon
  <2> QED BY <1>1, <1>2, <2>1, <2>2, <2>3, Zenon DEF OptionsInv
<1> QED BY <1>3, <1>4, Zenon

\* The sources of options differ.
LEMMA SourcesDiffer ==
  /\ "script" # "handle" /\ "script" # "segment" /\ "script" # "attach" /\ "script" # "factory"
  /\ "builder" # "handle" /\ "builder" # "segment" /\ "builder" # "attach" /\ "builder" # "factory"
  /\ "segment" # "handle" /\ "segment" # "attach" /\ "segment" # "factory"
  /\ "handle" # "attach" /\ "handle" # "factory" /\ "attach" # "factory"
BY Zenon

\* Options from a script, through either binding.
LEMMA ScriptInv ==
  ASSUME OptionsInv, NEW given \in Givens, Script(given)
  PROVE  OptionsInv'
<1> DEFINE js == normalizeOptions(given)
<1>1. CASE Arrive(to_cpp_options(options_from_js(js)), options_from_js_ok(js), "script")
  BY <1>1, ScriptTyped, ArriveInv, SourcesDiffer, Zenon
<1>2. CASE Arrive(to_cpp_options(marshalled_options(given)), transport_options_ok(given), "script")
  BY <1>2, ScriptTyped, ArriveInv, SourcesDiffer, Zenon
<1> QED BY <1>1, <1>2, Zenon DEF Script

\* Options from a builder, which passed its checks.
LEMMA BuildInv ==
  ASSUME OptionsInv, Build
  PROVE  OptionsInv'
<1>1. PICK type \in Enums["channel_type"], item \in Items :
        \/ \E align \in Aligns, schema \in Schemas, flags \in CreatorFlags, capacity \in Capacities :
             LET o == channel_builder_options(type, item, align, schema, flags, capacity)
             IN Arrive(o, validate_transport_options(o), "builder")
        \/ \E port \in Ports :
             LET o == socket_listener_options(type, item, port)
             IN Arrive(o, validate_for("consumer", o), "builder")
        \/ \E port \in Ports, retries \in Retries :
             LET o == socket_connector_options(type, item, port, retries)
             IN Arrive(o, validate_for("producer", o), "builder")
  BY Zenon DEF Build
<1>2. type \in {"fixed", "varlen"}
  BY EnumsAre, Zenon
<1>3. ASSUME NEW align \in Aligns, NEW schema \in Schemas, NEW flags \in CreatorFlags,
             NEW capacity \in Capacities,
             LET o == channel_builder_options(type, item, align, schema, flags, capacity)
             IN Arrive(o, validate_transport_options(o), "builder")
      PROVE  OptionsInv'
  BY <1>2, <1>3, ChannelBuilderOk, ArriveInv, SourcesDiffer, Zenon
<1>4. ASSUME NEW port \in Ports,
             LET o == socket_listener_options(type, item, port)
             IN Arrive(o, validate_for("consumer", o), "builder")
      PROVE  OptionsInv'
  <2>1. 0 \in CInt
    BY DefaultInts, Zenon
  <2> QED BY <1>2, <1>4, <2>1, SocketBuildersOk, ArriveInv, SourcesDiffer, Zenon
<1>5. ASSUME NEW port \in Ports, NEW retries \in Retries,
             LET o == socket_connector_options(type, item, port, retries)
             IN Arrive(o, validate_for("producer", o), "builder")
      PROVE  OptionsInv'
  <2>1. retries \in CInt
    BY BuilderAssumption, Zenon
  <2> QED BY <1>2, <1>5, <2>1, SocketBuildersOk, ArriveInv, SourcesDiffer, Zenon
<1> QED BY <1>1, <1>3, <1>4, <1>5, Zenon

\* Options from a factory of Node, which passed the checks of both ends.
LEMMA CreateChannelInv ==
  ASSUME OptionsInv, createChannel
  PROVE  OptionsInv'
<1>1. PICK type \in Enums["channel_type"], item \in Items, align \in Aligns, schema \in Schemas,
           flags \in CreatorFlags, capacity \in Capacities :
        LET o == channel_builder_options(type, item, align, schema, flags, capacity)
        IN Arrive(o, validate_for("producer", o) /\ validate_for("consumer", o), "factory")
  BY Zenon DEF createChannel
<1>2. type \in {"fixed", "varlen"}
  BY EnumsAre, Zenon
<1> QED BY <1>1, <1>2, ChannelBuilderOk, ArriveInv, SourcesDiffer, Zenon

\* The options for an observer, which create nothing, suit every endpoint.
LEMMA ObserverOptionsInv ==
  ASSUME OptionsInv, observer_options
  PROVE  OptionsInv'
<1>1. /\ TypedOptions(opts) /\ stage = "ready" /\ origin \in {"builder", "factory"}
      /\ opts.backend = "shared_memory" /\ header' = header /\ stage' = stage /\ origin' = origin
      /\ opts' = [opts EXCEPT !.create_if_missing = FALSE]
      /\ header \in {NoSegment, Blank} \/ Manifest(header)
  BY Zenon DEF OptionsInv, observer_options
<1>2. validate_transport_options(opts)
  BY <1>1, SourcesDiffer, Zenon DEF OptionsInv, GivenOk
<1>3. PICK p : p = opts'
  BY Zenon
<1>4. opts = [f \in FieldNames |-> opts[f]]
  BY <1>1, TypedIs, Zenon
<1>5. "create_if_missing" \in FieldNames
  BY Zenon DEF FieldNames
<1>6. p = [f \in FieldNames |-> p[f]] /\ p["create_if_missing"] = FALSE
  BY <1>1, <1>3, <1>4, <1>5, Zenon
<1>7. \A f \in FieldNames \ {"create_if_missing"} : p[f] = opts[f]
  BY <1>1, <1>3, <1>4, Zenon
<1>8. /\ p.socket_listen = opts.socket_listen /\ p.backend = opts.backend
      /\ p.channel_type = opts.channel_type /\ p.socket_connect_retries = opts.socket_connect_retries
      /\ p.socket_connect_retry_ms = opts.socket_connect_retry_ms /\ p.shm_size = opts.shm_size
      /\ p.item_size = opts.item_size /\ p.data_align = opts.data_align
      /\ p.schema_id = opts.schema_id /\ p.creator_flags = opts.creator_flags
      /\ p.socket_port = opts.socket_port /\ p.path = opts.path /\ p.socket_host = opts.socket_host
      /\ p.win32_object_namespace = opts.win32_object_namespace
  <2>1. {"socket_listen", "backend", "channel_type", "socket_connect_retries", "socket_connect_retry_ms",
         "shm_size", "item_size", "data_align", "schema_id", "creator_flags", "socket_port", "path",
         "socket_host", "win32_object_namespace"} \subseteq FieldNames \ {"create_if_missing"}
    BY Zenon DEF FieldNames
  <2> QED BY <1>7, <2>1, Zenon
<1>9. TypedOptions(p)
  BY <1>1, <1>6, <1>8, TypedIs, Zenon
<1>10. validate_transport_options(p)
  BY Zenon, <1>2, <1>8 DEF validate_transport_options
<1>11. GivenOk(origin, p)
  BY Zenon, <1>1, <1>6, <1>8, <1>10 DEF GivenOk, Offered, validate_for, Kinds
<1>12. stage # "open" /\ stage # "refused"
  BY Zenon, <1>1
<1> QED BY <1>1, <1>3, <1>9, <1>11, <1>12, SourcesDiffer, Zenon DEF OptionsInv

\* Options taken from an open endpoint pass the same checks and match the same manifest.
LEMMA CopyInv ==
  ASSUME OptionsInv, Copy
  PROVE  OptionsInv'
<1> DEFINE c == fill_borrowed_options(opts)
           js == normalizeOptions(options_to_js(c))
           py == make_transport_options(c)
<1>1. TypedOptions(opts) /\ stage = "open"
  BY Zenon DEF OptionsInv, Copy
<1>2. /\ kind \in Kinds /\ validate_for(kind, opts)
      /\ opts.backend = "shared_memory" => Attaches(opts) /\ opts.shm_size # 0
  BY <1>1, Zenon DEF OptionsInv
<1>3. \A k \in Offered(opts) : validate_for(k, opts)
  BY <1>1, <1>2, ValidForOffered, Zenon
<1>4. ASSUME NEW p, TypedOptions(p), Kept(opts, p)
      PROVE  /\ GivenOk("handle", p)
             /\ p.backend = "shared_memory" => Attaches(p)
  <2>1. p.backend = opts.backend
    BY <1>4, KeptIs, Zenon
  <2>2. \A k \in Offered(p) : validate_for(k, p)
    BY <1>3, <1>4, KeptValid, Zenon
  <2>3. validate_transport_options(p)
    BY <1>2, <1>4, KeptValid, Zenon DEF validate_for
  <2> QED BY <1>2, <1>4, <2>1, <2>2, <2>3, KeptValid, Zenon DEF Attaches, GivenOk
<1>5. ASSUME NEW p, NEW ok, ok, TypedOptions(p), Kept(opts, p), Arrive(p, ok, "handle")
      PROVE  OptionsInv'
  BY <1>4, <1>5, ArriveInv, SourcesDiffer, Zenon
<1>6. CASE Arrive(to_cpp_options(c), TRUE, "handle")
  BY <1>1, <1>5, <1>6, RoundTripC, Zenon
<1>7. CASE Arrive(to_cpp_options(options_from_js(js)), options_from_js_ok(js), "handle")
  <2>1. /\ options_from_js_ok(js) /\ TypedOptions(to_cpp_options(options_from_js(js)))
        /\ Kept(opts, to_cpp_options(options_from_js(js)))
    BY <1>1, RoundTripJs, Zenon
  <2> QED BY <1>5, <1>7, <2>1, Zenon
<1>8. CASE Arrive(to_cpp_options(marshalled_options(py)), transport_options_ok(py), "handle")
  <2>1. /\ transport_options_ok(py) /\ TypedOptions(to_cpp_options(marshalled_options(py)))
        /\ Kept(opts, to_cpp_options(marshalled_options(py)))
    BY <1>1, RoundTripPy, Zenon
  <2> QED BY <1>5, <1>8, <2>1, Zenon
<1> QED BY <1>6, <1>7, <1>8, Zenon DEF Copy

\* Options read from the segment pass the checks and match its manifest.
LEMMA ReadExistingInv ==
  ASSUME OptionsInv, ReadExisting
  PROVE  OptionsInv'
<1>1. Formatted /\ Manifest(header)
  BY Zenon DEF OptionsInv, ReadExisting, Formatted
<1>2. PICK o : o = read_existing_shm_options(header)
  BY Zenon
<1>3. /\ TypedOptions(o) /\ o.backend = "shared_memory" /\ validate_detailed(header, o)
      /\ \A k \in Kinds : validate_for(k, o)
  BY <1>1, <1>2, ReadExistingOk, Zenon
<1>4. Attaches(o) /\ \A k \in Offered(o) : validate_for(k, o)
  BY <1>1, <1>3, Zenon DEF Attaches, Offered
<1>5. ASSUME NEW p, p = o \/ (TypedOptions(p) /\ Kept(o, p)), NEW ok, Arrive(p, ok, "segment")
      PROVE  OptionsInv'
  <2>1. TypedOptions(p) /\ Attaches(p) /\ \A k \in Offered(p) : validate_for(k, p)
    <3>1. CASE p = o
      BY <1>3, <1>4, <3>1, Zenon
    <3>2. CASE TypedOptions(p) /\ Kept(o, p)
      BY <1>4, <3>2, KeptValid, Zenon DEF Attaches
    <3> QED BY <1>5, <3>1, <3>2, Zenon
  <2>2. validate_transport_options(p)
    <3>1. PICK k : k \in Offered(p)
      BY Zenon DEF Offered, Kinds
    <3> QED BY <2>1, <3>1, Zenon DEF validate_for
  <2>3. GivenOk("segment", p)
    BY <2>1, <2>2, Zenon DEF GivenOk
  <2> QED BY <1>5, <2>1, <2>3, ArriveInv, SourcesDiffer, Zenon
<1>6. TypedOptions(to_cpp_options(fill_borrowed_options(o))) /\ Kept(o, to_cpp_options(fill_borrowed_options(o)))
  BY <1>3, RoundTripC, Zenon
<1>7. \/ Arrive(to_cpp_options(fill_borrowed_options(o)), validate_transport_options(o), "segment")
      \/ \E type \in Enums["channel_type"], schema \in {-1} \cup Schemas :
           Arrive(o, validate_transport_options(o) /\ attacher_accepts(o, type, schema), "segment")
  BY <1>2, Zenon DEF ReadExisting
<1> QED BY <1>5, <1>6, <1>7, Zenon

\* Options read by Node's attach pass the checks of both ends, and match the manifest but
\* for the schema the caller asked for.
LEMMA AttachChannelInv ==
  ASSUME OptionsInv, attachChannel
  PROVE  OptionsInv'
<1>1. Formatted /\ Manifest(header)
  BY Zenon DEF OptionsInv, attachChannel, Formatted
<1>2. PICK type \in Enums["channel_type"], schema \in {-1} \cup Schemas :
        LET o == read_existing_shm_options(header)
            p == IF schema = -1 THEN o ELSE [o EXCEPT !.schema_id = schema]
            js == normalizeOptions(options_to_js(fill_borrowed_options(p)))
            b == to_cpp_options(options_from_js(js))
        IN Arrive(b, /\ validate_transport_options(o) /\ o.channel_type = type
                     /\ options_from_js_ok(js) /\ validate_for("producer", b) /\ validate_for("consumer", b),
                  IF schema = -1 THEN "segment" ELSE "attach")
  BY Zenon DEF attachChannel
<1>3. PICK o : o = read_existing_shm_options(header)
  BY Zenon
<1>4. PICK p : p = IF schema = -1 THEN o ELSE [o EXCEPT !.schema_id = schema]
  BY Zenon
<1>5. PICK b : b = to_cpp_options(options_from_js(normalizeOptions(options_to_js(fill_borrowed_options(p)))))
  BY Zenon
<1>6. PICK ok : /\ Arrive(b, ok, IF schema = -1 THEN "segment" ELSE "attach")
                /\ ok => validate_for("producer", b) /\ validate_for("consumer", b)
  BY <1>2, <1>3, <1>4, <1>5, Zenon
<1>7. /\ TypedOptions(o) /\ o.backend = "shared_memory" /\ validate_detailed(header, o)
      /\ o.schema_id = header.schema
  <2>1. o.schema_id = header.schema
    BY <1>3, Zenon DEF read_existing_shm_options, cpp_defaults, options_init
  <2> QED BY <1>1, <1>3, <2>1, ReadExistingOk, Zenon
<1>8. /\ TypedOptions(p) /\ p.backend = "shared_memory"
      /\ schema = -1 => validate_detailed(header, p)
      /\ validate_detailed(header, p) <=> p.schema_id = header.schema
  <2>1. CASE schema = -1
    BY <1>4, <1>7, <2>1, Zenon
  <2>2. CASE schema # -1
    <3>1. schema \in 0 .. U64
      BY <2>2, BuilderAssumption, Zenon
    <3>2. p = [o EXCEPT !.schema_id = schema]
      BY <1>4, <2>2, Zenon
    <3> QED BY <1>7, <2>2, <3>1, <3>2, OtherSchema, Zenon
  <2> QED BY <2>1, <2>2, Zenon
<1>9. TypedOptions(b) /\ Kept(p, b)
  BY <1>5, <1>8, RoundTripJs, Zenon
<1>10. /\ b.backend = "shared_memory" /\ b.schema_id = p.schema_id
       /\ validate_detailed(header, b) <=> validate_detailed(header, p)
  <2>1. b.backend = p.backend /\ b.schema_id = p.schema_id
    BY <1>9, KeptIs, Zenon
  <2>2. validate_detailed(header, p) => validate_detailed(header, b)
    BY <1>9, KeptValid, Zenon
  <2>3. validate_detailed(header, b) => b.schema_id = header.schema
    BY Zenon DEF validate_detailed
  <2> QED BY <1>8, <2>1, <2>2, <2>3, Zenon
<1>11. ASSUME ok
       PROVE  validate_transport_options(b) /\ \A k \in Offered(b) : validate_for(k, b)
  <2>1. validate_for("producer", b) /\ validate_transport_options(b)
    BY <1>6, <1>11, Zenon DEF validate_for
  <2> QED BY Zenon, <1>6, <1>10, <1>11, <2>1 DEF validate_for, Offered, Kinds
<1>12. CASE schema = -1
  <2>1. Arrive(b, ok, "segment")
    BY <1>6, <1>12, Zenon
  <2>2. Attaches(b)
    BY <1>1, <1>8, <1>10, <1>12, Zenon DEF Attaches
  <2> QED BY <1>9, <1>11, <2>1, <2>2, ArriveInv, SourcesDiffer, Zenon DEF GivenOk
<1>13. CASE schema # -1
  <2>1. Arrive(b, ok, "attach")
    BY <1>6, <1>13, Zenon
  <2>2. BySchema(b)
    BY <1>1, <1>8, <1>10, Zenon DEF BySchema
  <2> QED BY <1>9, <1>11, <2>1, <2>2, ArriveInv, SourcesDiffer, Zenon DEF GivenOk
<1> QED BY <1>12, <1>13, Zenon

\* A listening consumer keeps the port it got, and its options stay valid.
LEMMA BoundKeeps ==
  ASSUME NEW o, TypedOptions(o), validate_for("consumer", o), o.backend = "socket",
         NEW bound \in 1 .. U16, NEW p, p = [o EXCEPT !.socket_port = bound]
  PROVE  TypedOptions(p) /\ validate_for("consumer", p) /\ p.backend = "socket"
<1>1. o = [f \in FieldNames |-> o[f]]
  BY TypedIs, Zenon
<1>2. "socket_port" \in FieldNames
  BY Zenon DEF FieldNames
<1>3. p = [f \in FieldNames |-> p[f]] /\ p["socket_port"] = bound
  BY <1>1, <1>2, Zenon
<1>4. \A f \in FieldNames \ {"socket_port"} : p[f] = o[f]
  BY <1>1, Zenon
<1>5. /\ p.create_if_missing = o.create_if_missing /\ p.socket_listen = o.socket_listen
      /\ p.backend = o.backend /\ p.channel_type = o.channel_type
      /\ p.socket_connect_retries = o.socket_connect_retries
      /\ p.socket_connect_retry_ms = o.socket_connect_retry_ms /\ p.shm_size = o.shm_size
      /\ p.item_size = o.item_size /\ p.data_align = o.data_align /\ p.schema_id = o.schema_id
      /\ p.creator_flags = o.creator_flags /\ p.path = o.path /\ p.socket_host = o.socket_host
      /\ p.win32_object_namespace = o.win32_object_namespace
  <2>1. {"create_if_missing", "socket_listen", "backend", "channel_type", "socket_connect_retries",
         "socket_connect_retry_ms", "shm_size", "item_size", "data_align", "schema_id", "creator_flags",
         "path", "socket_host", "win32_object_namespace"} \subseteq FieldNames \ {"socket_port"}
    BY Zenon DEF FieldNames
  <2> QED BY <1>4, <2>1, Zenon
<1>6. bound \in 0 .. U16 /\ bound # 0
  BY OptionsAssumption
<1>7. TypedOptions(p)
  BY <1>3, <1>5, <1>6, TypedIs, Zenon
<1>8. validate_transport_options(p)
  BY Zenon, <1>3, <1>5, <1>6 DEF validate_for, validate_transport_options
<1>9. validate_for("consumer", p)
  BY Zenon, <1>5, <1>8 DEF validate_for
<1> QED BY <1>5, <1>7, <1>9, Zenon

\* The constructor of an endpoint, accepted or refused.
LEMMA EstablishInv ==
  ASSUME OptionsInv, NEW k \in Kinds, establish_connection(k)
  PROVE  OptionsInv'
<1>1. /\ TypedOptions(opts) /\ stage = "ready" /\ kind' = k /\ origin' = origin
      /\ header \in {NoSegment, Blank} \/ Manifest(header)
      /\ origin = "handle" => \A other \in Offered(opts) : validate_for(other, opts)
      /\ origin \in {"handle", "segment"} /\ opts.backend = "shared_memory" => Attaches(opts)
  BY SourcesDiffer, Zenon DEF OptionsInv, establish_connection, GivenOk, SizeWrapped
<1>2. opts.backend \in {"shared_memory", "socket"} /\ opts.socket_listen \in BOOLEAN
  BY <1>1, TypedIs, Zenon
<1>3. ASSUME stage' = "refused", opts' = opts, header' \in {NoSegment, Blank} \/ Manifest(header'),
             origin = "handle" => k \notin Offered(opts)
      PROVE  OptionsInv'
  <2>1. stage' # "open" /\ stage' # "ready"
    BY Zenon, <1>3
  <2>2. TypedOptions(opts') /\ (origin' = "handle" => kind' \notin Offered(opts'))
    BY <1>1, <1>3, Zenon
  <2> QED BY <1>3, <2>1, <2>2, Zenon DEF OptionsInv
<1>4. ASSUME stage' = "open", TypedOptions(opts'), header' \in {NoSegment, Blank} \/ Manifest(header'),
             validate_for(k, opts'), opts'.backend = "shared_memory" => Attaches(opts)' /\ opts'.shm_size # 0
      PROVE  OptionsInv'
  <2>1. stage' # "refused" /\ stage' # "ready"
    BY Zenon, <1>4
  <2> QED BY <1>1, <1>4, <2>1, Zenon DEF OptionsInv
<1>5. CASE ~validate_for(k, opts)
  <2>1. stage' = "refused" /\ opts' = opts /\ header' = header
    BY <1>5, Zenon DEF establish_connection
  <2>2. origin = "handle" => k \notin Offered(opts)
    BY <1>1, <1>5, SourcesDiffer, Zenon
  <2> QED BY <1>1, <1>3, <2>1, <2>2, Zenon
<1>6. CASE validate_for(k, opts) /\ opts.backend = "socket"
  <2>1. opts.backend # "shared_memory"
    BY Zenon, <1>6
  <2>2. OpenSocket(k)
    BY <1>6, <2>1, Zenon DEF establish_connection
  <2>3. CASE stage' = "failed" /\ UNCHANGED opts
    <3>1. stage' # "refused" /\ stage' # "ready" /\ stage' # "open" /\ header' = header
      BY Zenon, <2>2, <2>3 DEF OpenSocket
    <3> QED BY <1>1, <2>3, <3>1, Zenon DEF OptionsInv
  <2>4. CASE stage' = "open"
    <3>1. PICK bound \in 1 .. U16 :
            opts' = IF k = "consumer" THEN [opts EXCEPT !.socket_port = bound] ELSE opts
      BY Zenon, <2>2, <2>4 DEF OpenSocket
    <3>2. header' = header
      BY <2>2, Zenon DEF OpenSocket
    <3>3. CASE k # "consumer"
      BY <1>1, <1>4, <1>6, <2>1, <2>4, <3>1, <3>2, <3>3, Zenon
    <3>4. CASE k = "consumer"
      <4>1. PICK p : p = opts'
        BY Zenon
      <4>2. p = [opts EXCEPT !.socket_port = bound]
        BY <3>1, <3>4, <4>1, Zenon
      <4>3. TypedOptions(p) /\ validate_for(k, p) /\ p.backend = "socket"
        BY <1>1, <1>6, <3>4, <4>2, BoundKeeps, Zenon
      <4>4. p.backend # "shared_memory"
        BY Zenon, <4>3
      <4> QED BY <1>1, <1>4, <2>4, <3>2, <4>1, <4>3, <4>4, Zenon
    <3> QED BY <3>3, <3>4, Zenon
  <2> QED BY <2>2, <2>3, <2>4, Zenon DEF OpenSocket
<1>7. CASE validate_for(k, opts) /\ opts.backend = "shared_memory"
  <2>1. opts.backend # "socket"
    BY Zenon, <1>7
  <2>2. \/ /\ header = NoSegment /\ (k = "observer" \/ ~opts.create_if_missing)
           /\ stage' = "refused" /\ UNCHANGED <<header, opts>>
        \/ /\ header = NoSegment /\ k # "observer" /\ opts.create_if_missing
           /\ header' = IF CanInit(opts) THEN init_header(opts) ELSE Blank
           /\ stage' = IF CanInit(opts) THEN "open" ELSE "refused"
           /\ IF CanInit(opts) THEN Attached(init_header(opts)) ELSE UNCHANGED opts
        \/ /\ Formatted /\ validate_detailed(header, opts)
           /\ stage' = "open" /\ Attached(header) /\ UNCHANGED header
        \/ /\ header # NoSegment /\ ~(Formatted /\ validate_detailed(header, opts))
           /\ stage' = "refused" /\ UNCHANGED <<header, opts>>
    BY <1>7, <2>1, Zenon DEF establish_connection
  <2>3. origin = "handle" => Formatted /\ validate_detailed(header, opts)
    BY <1>1, <1>7, Zenon DEF Attaches
  <2>4. ASSUME header = NoSegment, stage' = "refused", UNCHANGED <<header, opts>>
        PROVE  OptionsInv'
    <3>1. origin # "handle"
      BY <2>3, <2>4, Zenon DEF Formatted
    <3> QED BY <1>1, <1>3, <2>4, <3>1, Zenon
  <2>5. ASSUME header = NoSegment, k # "observer", opts.create_if_missing, CanInit(opts),
               header' = init_header(opts), stage' = "open", Attached(init_header(opts))
        PROVE  OptionsInv'
    <3>1. opts.shm_size # 0
      BY Zenon, <1>7, <2>5 DEF validate_for
    <3>2. PICK h : h = init_header(opts)
      BY Zenon
    <3>3. Manifest(h) /\ validate_detailed(h, opts) /\ header' = h
      BY <1>1, <1>7, <2>5, <3>1, <3>2, InitHeaderOk, Zenon
    <3>4. opts' = [opts EXCEPT !.shm_size = shm_size_for_data_capacity(h.capacity), !.creator_flags = h.flags]
      BY <2>5, <3>2, Zenon DEF Attached
    <3>5. /\ TypedOptions(opts') /\ validate_for(k, opts') /\ validate_detailed(h, opts')
          /\ opts'.backend = "shared_memory" /\ opts'.shm_size # 0
      BY <1>1, <1>7, <3>3, <3>4, AttachedKeeps, Zenon
    <3>6. Attaches(opts)'
      BY <3>3, <3>5, ManifestIs, Zenon DEF Attaches, Formatted
    <3> QED BY <1>4, <2>5, <3>3, <3>5, <3>6, Zenon
  <2>6. ASSUME header = NoSegment, header' = Blank, stage' = "refused", opts' = opts
        PROVE  OptionsInv'
    <3>1. origin # "handle"
      BY <2>3, <2>6, Zenon DEF Formatted
    <3> QED BY <1>3, <2>6, <3>1, Zenon
  <2>7. ASSUME Formatted, validate_detailed(header, opts), stage' = "open", Attached(header), UNCHANGED header
        PROVE  OptionsInv'
    <3>1. Manifest(header)
      BY <1>1, <2>7, Zenon DEF Formatted
    <3>2. /\ TypedOptions(opts') /\ validate_for(k, opts') /\ validate_detailed(header, opts')
          /\ opts'.backend = "shared_memory" /\ opts'.shm_size # 0
      BY <1>1, <1>7, <2>7, <3>1, AttachedKeeps, Zenon DEF Attached
    <3>3. Attaches(opts)'
      BY <2>7, <3>2, Zenon DEF Attaches, Formatted
    <3> QED BY <1>4, <2>7, <3>1, <3>2, <3>3, Zenon
  <2>8. ASSUME ~(Formatted /\ validate_detailed(header, opts)), stage' = "refused", UNCHANGED <<header, opts>>
        PROVE  OptionsInv'
    <3>1. origin # "handle"
      BY <2>3, <2>8, Zenon
    <3> QED BY <1>1, <1>3, <2>8, <3>1, Zenon
  <2> QED BY <2>2, <2>4, <2>5, <2>6, <2>7, <2>8, Zenon
<1> QED BY <1>2, <1>5, <1>6, <1>7, Zenon

\* What an open endpoint's options, a builder's and a segment's satisfy holds on every
\* path of the options, for every script, every builder and every earlier creator.
THEOREM OptionsInvariant == OptionsSpec => []OptionsInv
<1>1. OptionsInv /\ [OptionsNext]_optionVars => OptionsInv'
  <2> SUFFICES ASSUME OptionsInv, [OptionsNext]_optionVars PROVE OptionsInv'
    BY Zenon
  <2>1. CASE \E given \in Givens : Script(given)
    BY <2>1, ScriptInv, Zenon
  <2>2. CASE Build
    BY <2>2, BuildInv, Zenon
  <2>3. CASE Copy
    BY <2>3, CopyInv, Zenon
  <2>4. CASE ReadExisting
    BY <2>4, ReadExistingInv, Zenon
  <2>5. CASE \E k \in Kinds : establish_connection(k)
    BY <2>5, EstablishInv, Zenon
  <2>6. CASE createChannel
    BY <2>6, CreateChannelInv, Zenon
  <2>7. CASE observer_options
    BY <2>7, ObserverOptionsInv, Zenon
  <2>8. CASE attachChannel
    BY <2>8, AttachChannelInv, Zenon
  <2>9. CASE UNCHANGED optionVars
    <3>1. header' = header /\ opts' = opts /\ kind' = kind /\ stage' = stage /\ origin' = origin
      BY <2>9, Zenon DEF optionVars
    <3> QED BY <3>1, Zenon DEF OptionsInv, Attaches, BySchema, Formatted
  <2> QED BY <2>1, <2>2, <2>3, <2>4, <2>5, <2>6, <2>7, <2>8, <2>9, Zenon DEF OptionsNext
<1> QED BY <1>1, OptionsInitInv, PTL DEF OptionsSpec

\* GivenOutIsAccepted: what an open endpoint gives out is refused by no endpoint of a kind
\* it is meant for, and what builders, factories, attachers and segments give out passes the
\* option checks of every such kind unless a builder's size wrapped to 0.  That _init_header
\* or the manifest of another channel refuses a builder's options is not excluded.
THEOREM GivenOutIsAcceptedAlways == OptionsSpec => []GivenOutIsAccepted
<1>1. OptionsInv => GivenOutIsAccepted
  BY Zenon DEF OptionsInv, GivenOutIsAccepted, GivenOk
<1> QED BY <1>1, OptionsInvariant, PTL

\* CopyAttaches: options taken from an endpoint or read from the segment's manifest match
\* that manifest; with a schema of the caller's they do exactly if it is the segment's.
THEOREM CopyAttachesAlways == OptionsSpec => []CopyAttaches
<1>1. OptionsInv => CopyAttaches
  BY Zenon DEF OptionsInv, CopyAttaches, Attaches, BySchema
<1> QED BY <1>1, OptionsInvariant, PTL

\* CopyKeepsSettings: no setting of an open endpoint is lost on the way out of C or of a
\* binding and in again through the same one.
THEOREM CopyKeepsSettingsAlways == OptionsSpec => CopyKeepsSettings
<1>1. ASSUME OptionsInv, [OptionsNext]_optionVars
      PROVE  [stage = "open" /\ origin' = "handle" /\ stage' = "ready" => Kept(opts, opts')]_optionVars
  <2> SUFFICES ASSUME OptionsNext, stage = "open", origin' = "handle", stage' = "ready"
               PROVE  Kept(opts, opts')
    BY <1>1, Zenon
  <2>1. stage # "start" /\ stage # "ready" /\ TypedOptions(opts)
    BY Zenon, <1>1 DEF OptionsInv
  <2>2. /\ ~Build /\ ~createChannel /\ ~observer_options
        /\ ~(\E given \in Givens : Script(given)) /\ ~(\E k \in Kinds : establish_connection(k))
    BY <2>1, Zenon DEF Build, createChannel, observer_options, Script, establish_connection
  <2>3. ~ReadExisting /\ ~attachChannel
    BY SourcesDiffer, Zenon DEF ReadExisting, attachChannel, Arrive
  <2>4. Copy
    BY <2>2, <2>3, Zenon DEF OptionsNext
  <2>5. ASSUME NEW o, NEW ok, Arrive(o, ok, "handle")
        PROVE  opts' = o
    <3>1. stage' # "refused"
      BY Zenon
    <3> QED BY <2>5, <3>1, Zenon DEF Arrive
  <2> QED BY <2>1, <2>4, <2>5, RoundTripC, RoundTripJs, RoundTripPy, Zenon DEF Copy
<1> QED BY <1>1, OptionsInvariant, PTL DEF OptionsSpec, CopyKeepsSettings
=================================================================================
