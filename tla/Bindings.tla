-------------------------------- MODULE Bindings --------------------------------
(***************************************************************************)
(* The objects of the Node addon (node/src/node_binding.cpp) and of the    *)
(* Python module (Python/src/python_binding.cpp) over the C API: opening,  *)
(* closing and garbage collection of handles, sends, polls and peeks that  *)
(* ask for the length first, waits that leave the interpreter, and the     *)
(* per-thread last error.                                                  *)
(*                                                                         *)
(* `turn' is the interpreter: the JavaScript thread, or the holder of the  *)
(* GIL.  In Node "main" runs scripts and "aux" is the pool thread that     *)
(* runs waitAsync; in Python both run scripts.  A process has at most one  *)
(* producer, consumer and observer at a time, on one shared-memory         *)
(* channel; an end it has not opened belongs to another process.  A native *)
(* call is one step unless it blocks.                                      *)
(***************************************************************************)
EXTENDS Integers, Sequences

CONSTANTS
  Hosts,       \* the bindings considered: "node", "python"
  Trackers,    \* diagnostics trackers a Node script may create
  Lens, Caps,  \* lengths of messages, sizes of the buffers scripts pass
  RingSlots,   \* messages the ring holds
  MaxMsgs      \* bound: messages sent

ASSUME BindingsAssumption ==
  /\ Hosts \subseteq {"node", "python"}
  /\ Trackers \cap {"producer", "consumer", "observer"} = {}
  /\ Lens \subseteq Nat /\ Caps \subseteq Nat /\ RingSlots \in Nat \ {0} /\ MaxMsgs \in Nat

Threads == {"main", "aux"}
Classes == {"producer", "consumer", "observer"} \cup Trackers

VARIABLES
  host,        \* which binding it is
  lens,        \* lengths of the messages sent, by number
  taken,       \* messages the consumer has released
  pending,     \* consumer->pending: a message's number, 0 for none
  live,        \* objects whose handle_ is not null
  refs,        \* open objects the script refers to
  waits,       \* active_waits_ of the consumer
  trackers,    \* active_trackers_ of the observer
  turn,        \* the thread inside a call from a script, "none" between calls
  pc,          \* what each thread is doing
  need,        \* required_len of its pollCopy or peekCopy, length of its send
  seen,        \* messages sent when its wait loaded commit_seq
  err,         \* g_last_error of each thread, "empty" at first
  orphaned     \* Python: close() was called on a consumer inside wait() (history)

channel == <<lens, taken, pending>>
counts == <<waits, trackers>>
vars == <<host, channel, live, refs, counts, turn, pc, need, seen, err, orphaned>>

Init ==
  /\ host \in Hosts
  /\ lens = << >> /\ taken = 0 /\ pending = 0
  /\ live = {} /\ refs = {} /\ waits = 0 /\ trackers = 0
  /\ turn = "none" /\ pc = [t \in Threads |-> "idle"]
  /\ need = [t \in Threads |-> 0] /\ seen = [t \in Threads |-> 0]
  /\ err = [t \in Threads |-> "empty"]
  /\ orphaned = FALSE

-----------------------------------------------------------------------------
(* Calls, and the error of the thread                                      *)

\* t may start a call: it runs scripts, and no thread is inside one.
Calls(t) == turn = "none" /\ pc[t] = "idle" /\ (host = "node" => t = "main")

\* A method of an object that is open: ensure_open, require_open.
Method(t, c) == Calls(t) /\ c \in refs

Goto(t, next) == pc' = [pc EXCEPT ![t] = next]

\* Fault: one last error for the whole process.
clear_all_errors(t) == err' = [u \in Threads |-> "empty"]

clear_last_error(t) == err' = [err EXCEPT ![t] = "empty"]
set_last_error(t, text) == err' = [err EXCEPT ![t] = text]

\* The call succeeds at once.
Returns(t) == clear_last_error(t) /\ UNCHANGED <<turn, pc>>

\* The call fails; making the exception of it is the next step.
Errors == {"refused", "too_small", "failed", "again"}
Fails(t, text) == set_last_error(t, text) /\ Goto(t, text) /\ turn' = t

\* The call goes on inside the interpreter, or ends.
Stays(t, next) == Goto(t, next) /\ turn' = t
Ends(t) == Goto(t, "idle") /\ turn' = "none"

\* The thread in which last_error_message is read for a call that failed in t: its own,
\* but make_xproc_error runs on the JavaScript thread whoever failed.
Reader(t) == IF host = "node" THEN "main" ELSE t

\* What the exception says: last_error_message, or the name of the status if that is
\* empty.  An AGAIN sets no text of its own.
Says(t) == IF err[Reader(t)] = "empty" THEN "status" ELSE err[Reader(t)]
Cause(t) == IF pc[t] = "again" THEN "status" ELSE pc[t]

\* throw_xproc_status: the exception is thrown where the call failed.
Throw(t) ==
  /\ host = "node" /\ t = "main" /\ pc[t] \in Errors /\ turn = t
  /\ Ends(t)
  /\ UNCHANGED <<host, channel, live, refs, counts, need, seen, err, orphaned>>

\* throw_status; a failed wait() takes the GIL back first.
PyThrow(t) ==
  /\ host = "python" /\ pc[t] \in Errors /\ turn \in {"none", t}
  /\ Ends(t)
  /\ UNCHANGED <<host, channel, live, refs, counts, need, seen, err, orphaned>>

-----------------------------------------------------------------------------
(* Life of the objects                                                     *)

\* Some thread is in wait() or runs waitAsync.
InWait == \E t \in Threads : pc[t] \in {"entering", "waiting", "waited", "failed"}

\* Objects kept alive from inside: self_ of the worker, observer_ of a tracker, and in
\* Python the object whose method runs.
Held == (IF InWait THEN {"consumer"} ELSE {})
          \cup (IF live \cap Trackers # {} THEN {"observer"} ELSE {})

\* xproc_c_producer_open and its like: a handle, or an error.
Opened(t, c) ==
  /\ Calls(t) /\ c \notin live \cup Held
  /\ \/ live' = live \cup {c} /\ refs' = refs \cup {c} /\ Returns(t)
     \/ Fails(t, "refused") /\ UNCHANGED <<live, refs>>
  /\ UNCHANGED <<host, channel, waits, need, seen, orphaned>>

\* The constructors of endpoints.
Open(t, c) == Opened(t, c) /\ UNCHANGED trackers

\* A tracker is made from an open observer and counts itself there (retain_tracker);
\* only Node has trackers.
OpenTracker(t, c) ==
  /\ host = "node" /\ "observer" \in refs
  /\ Opened(t, c)
  /\ trackers' = IF c \in live' THEN trackers + 1 ELSE trackers

\* Fault: the observer forgets all its trackers when one goes.
ResetForgets(c) ==
  /\ live' = live \ {c}
  /\ pending' = IF c = "consumer" THEN 0 ELSE pending
  /\ trackers' = IF c \in Trackers THEN 0 ELSE trackers

\* reset(): a consumer takes the message it retained with it, a tracker gives its
\* count back (release_tracker).
Reset(c) ==
  /\ live' = live \ {c}
  /\ pending' = IF c = "consumer" THEN 0 ELSE pending
  /\ trackers' = IF c \in Trackers /\ trackers > 0 THEN trackers - 1 ELSE trackers

\* All a closed object does is throw, so it counts as one the script does not refer to.
Closed(t, c) ==
  /\ Method(t, c)
  /\ Reset(c)
  /\ refs' = refs \ {c}
  /\ orphaned' = (orphaned \/ (c = "consumer" /\ \E u \in Threads : pc[u] = "waiting"))
  /\ UNCHANGED <<host, lens, taken, waits, turn, pc, need, seen, err>>

\* close() in Node: not for a consumer with a waitAsync pending, nor for an observer
\* with trackers.
Close(t, c) ==
  /\ host = "node"
  /\ c = "consumer" => waits = 0
  /\ c = "observer" => trackers = 0
  /\ Closed(t, c)

\* close() in Python refuses nothing.
PyClose(t, c) == host = "python" /\ Closed(t, c)

\* The script lets go of an object.
Drop(t, c) ==
  /\ Method(t, c)
  /\ refs' = refs \ {c}
  /\ UNCHANGED <<host, channel, live, counts, turn, pc, need, seen, err, orphaned>>

\* The destructor of an object that nothing refers to, run between calls.
Finalize(c) ==
  /\ turn = "none"
  /\ c \in live /\ c \notin refs \cup Held
  /\ Reset(c)
  /\ UNCHANGED <<host, lens, taken, refs, waits, turn, pc, need, seen, err, orphaned>>

-----------------------------------------------------------------------------
(* Producer                                                                *)

Full == Len(lens) - taken >= RingSlots
Commit(n) == lens' = Append(lens, n)

\* xproc_c_producer_send_...: the transport refuses what does not fit the channel; a
\* full ring keeps the caller, and with it the interpreter, until there is room.
SendC(t, n) ==
  \/ ~Full /\ Commit(n) /\ Returns(t) /\ UNCHANGED need
  \/ Full /\ Stays(t, "sending") /\ need' = [need EXCEPT ![t] = n] /\ UNCHANGED <<lens, err>>
  \/ Fails(t, "refused") /\ UNCHANGED <<lens, need>>

\* sendFixedBytes, sendFixedSized, sendVarlen and their forms with metadata.
Send(t, n) ==
  /\ Method(t, "producer") /\ Len(lens) < MaxMsgs
  /\ SendC(t, n)
  /\ UNCHANGED <<host, taken, pending, live, refs, counts, seen, orphaned>>

SendDone(t) ==
  /\ pc[t] = "sending" /\ ~Full
  /\ Commit(need[t])
  /\ Ends(t) /\ clear_last_error(t)
  /\ need' = [need EXCEPT ![t] = 0]
  /\ UNCHANGED <<host, taken, pending, live, refs, counts, seen, orphaned>>

\* The other process, at the ends this one has not opened.
RemoteSend(n) ==
  /\ "producer" \notin live /\ ~Full /\ Len(lens) < MaxMsgs
  /\ Commit(n)
  /\ UNCHANGED <<host, taken, pending, live, refs, counts, turn, pc, need, seen, err, orphaned>>

RemoteTake ==
  /\ "consumer" \notin live /\ taken < Len(lens)
  /\ taken' = taken + 1
  /\ UNCHANGED <<host, lens, pending, live, refs, counts, turn, pc, need, seen, err, orphaned>>

-----------------------------------------------------------------------------
(* Consumer                                                                *)

\* The message xproc_c_consumer_poll_copy is about, 0 for AGAIN: the retained one, else
\* the next of the ring.
Front == IF pending # 0 THEN pending ELSE IF taken < Len(lens) THEN taken + 1 ELSE 0

\* It leaves the ring in either case, and is retained if the buffer is too small.
Poll(cap) ==
  /\ taken' = IF Front > taken THEN Front ELSE taken
  /\ pending' = IF Front # 0 /\ lens[Front] > cap THEN Front ELSE 0

\* Fault: the GIL is given up between the probe and the copy.
PollCopyYields(t) ==
  /\ Method(t, "consumer") /\ Poll(0)
  /\ IF pending' = 0
     THEN Returns(t) /\ UNCHANGED need
     ELSE /\ set_last_error(t, "too_small")
          /\ need' = [need EXCEPT ![t] = lens[pending']]
          /\ Goto(t, "copying") /\ UNCHANGED turn
  /\ UNCHANGED <<host, lens, live, refs, counts, seen, orphaned>>

\* pollCopy(): asks with no buffer; there is no message, or an empty one, or a length.
PollCopy(t) ==
  /\ Method(t, "consumer") /\ Poll(0)
  /\ IF pending' = 0
     THEN Returns(t) /\ UNCHANGED need
     ELSE /\ set_last_error(t, "too_small")
          /\ need' = [need EXCEPT ![t] = lens[pending']]
          /\ Stays(t, "copying")
  /\ UNCHANGED <<host, lens, live, refs, counts, seen, orphaned>>

\* Its second call, with a buffer of that length.
PollCopied(t) ==
  /\ pc[t] = "copying" /\ Poll(need[t])
  /\ IF pending' = 0
     THEN Ends(t) /\ clear_last_error(t)
     ELSE Fails(t, "too_small")
  /\ need' = [need EXCEPT ![t] = 0]
  /\ UNCHANGED <<host, lens, live, refs, counts, seen, orphaned>>

\* pollCopyInto(buffer), in Node and in Python, which raises a ValueError of its own.
PollCopyInto(t, cap) ==
  /\ host = "node" /\ Method(t, "consumer") /\ Poll(cap)
  /\ IF pending' = 0 THEN Returns(t) ELSE Fails(t, "too_small")
  /\ UNCHANGED <<host, lens, live, refs, counts, need, seen, orphaned>>

PyPollCopyInto(t, cap) ==
  /\ host = "python" /\ Method(t, "consumer") /\ Poll(cap)
  /\ IF pending' = 0 THEN clear_last_error(t) ELSE set_last_error(t, "too_small")
  /\ UNCHANGED <<host, lens, live, refs, counts, turn, pc, need, seen, orphaned>>

\* wait() blocks the JavaScript thread, but releases the GIL.
Wait(t) ==
  /\ host = "node" /\ Method(t, "consumer")
  /\ Stays(t, "entering")
  /\ UNCHANGED <<host, channel, live, refs, counts, need, seen, err, orphaned>>

PyWait(t) ==
  /\ host = "python" /\ Method(t, "consumer")
  /\ Goto(t, "entering")
  /\ UNCHANGED <<host, channel, live, refs, counts, turn, need, seen, err, orphaned>>

\* waitAsync(): one at a time.
WaitAsync ==
  /\ host = "node" /\ Method("main", "consumer")
  /\ waits = 0
  /\ waits' = waits + 1
  /\ pc' = [pc EXCEPT !["aux"] = "entering"]
  /\ UNCHANGED <<host, channel, live, refs, trackers, turn, need, seen, err, orphaned>>

\* xproc_c_consumer_wait, in whichever thread: Python reads handle_ without the GIL.
EnterWait(t) ==
  /\ pc[t] = "entering"
  /\ \/ "consumer" \notin live
        /\ set_last_error(t, "failed") /\ Goto(t, "failed") /\ UNCHANGED seen
     \/ "consumer" \in live /\ pending # 0
        /\ clear_last_error(t) /\ Goto(t, "waited") /\ UNCHANGED seen
     \/ "consumer" \in live /\ pending = 0
        /\ seen' = [seen EXCEPT ![t] = Len(lens)] /\ Goto(t, "waiting") /\ UNCHANGED err
  /\ UNCHANGED <<host, channel, live, refs, counts, turn, need, orphaned>>

\* shm_consumer::wait ends with a commit later than its start.
WaitEnds(t) ==
  /\ pc[t] = "waiting" /\ seen[t] # Len(lens)
  /\ Goto(t, "waited") /\ clear_last_error(t)
  /\ seen' = [seen EXCEPT ![t] = 0]
  /\ UNCHANGED <<host, channel, live, refs, counts, turn, need, orphaned>>

\* The wait of the transport throws, which xproc_c_consumer_wait catches.
WaitThrows(t) ==
  /\ pc[t] = "waiting"
  /\ Goto(t, "failed") /\ set_last_error(t, "failed")
  /\ seen' = [seen EXCEPT ![t] = 0]
  /\ UNCHANGED <<host, channel, live, refs, counts, turn, need, orphaned>>

\* Fault: the promise is settled but the wait still counts as pending.
FinishKeepsCount(t) ==
  /\ pc[t] = "waited" /\ turn \in {"none", t}
  /\ Ends(t)
  /\ UNCHANGED <<host, channel, live, refs, counts, need, seen, err, orphaned>>

\* Back in the interpreter: wait() returns, or OnOK settles the promise (complete_wait).
Finish(t) ==
  /\ pc[t] = "waited" /\ turn \in {"none", t}
  /\ Ends(t)
  /\ waits' = IF host = "node" /\ t = "aux" /\ waits > 0 THEN waits - 1 ELSE waits
  /\ UNCHANGED <<host, channel, live, refs, trackers, need, seen, err, orphaned>>

\* OnError, on the JavaScript thread: the promise is rejected with what Says("aux").
OnError ==
  /\ host = "node" /\ pc["aux"] \in Errors /\ turn = "none"
  /\ Ends("aux")
  /\ waits' = IF waits > 0 THEN waits - 1 ELSE waits
  /\ UNCHANGED <<host, channel, live, refs, trackers, need, seen, err, orphaned>>

-----------------------------------------------------------------------------
(* Observer and trackers                                                   *)

\* The oldest message of the ring, 0 for none.
Oldest == IF taken < Len(lens) THEN taken + 1 ELSE 0

\* xproc_c_observer_peek_copy with a buffer of this size.
Peek(t, cap) ==
  IF Oldest # 0 /\ lens[Oldest] > cap THEN set_last_error(t, "too_small") ELSE clear_last_error(t)

\* peekCopy(), peekCopyWithMeta(): the same two calls as pollCopy, but nothing is
\* retained in between.
PeekCopy(t) ==
  /\ Method(t, "observer") /\ Peek(t, 0)
  /\ IF Oldest = 0 \/ lens[Oldest] = 0
     THEN UNCHANGED <<turn, pc, need>>
     ELSE need' = [need EXCEPT ![t] = lens[Oldest]] /\ Stays(t, "peeking")
  /\ UNCHANGED <<host, channel, live, refs, counts, seen, orphaned>>

\* The second call: the message may be gone, longer or shorter.  Node returns the
\* buffer it allocated, Python cuts it to the length copied.
Peeked(t) ==
  /\ pc[t] = "peeking" /\ Peek(t, need[t])
  /\ \/ Oldest = 0 /\ Goto(t, "again") /\ UNCHANGED turn
     \/ Oldest # 0 /\ lens[Oldest] > need[t] /\ Goto(t, "too_small") /\ UNCHANGED turn
     \/ Oldest # 0 /\ lens[Oldest] <= need[t] /\ Ends(t)
  /\ need' = [need EXCEPT ![t] = 0]
  /\ UNCHANGED <<host, channel, live, refs, counts, seen, orphaned>>

\* Calls that only read.
Reads(t) ==
  /\ Returns(t)
  /\ UNCHANGED <<host, channel, live, refs, counts, need, seen, orphaned>>

\* options and socketPort; options and pendingLen.
InspectProducer(t) == Method(t, "producer") /\ Reads(t)
InspectConsumer(t) == Method(t, "consumer") /\ Reads(t)

\* options, snapshot and the metrics.
InspectObserver(t) == Method(t, "observer") /\ Reads(t)

\* peekCopyInto(buffer); Python raises a ValueError of its own.
PeekCopyInto(t, cap) ==
  /\ Method(t, "observer") /\ Peek(t, cap)
  /\ IF err'[t] # "empty" /\ host = "node" THEN Stays(t, "too_small") ELSE UNCHANGED <<turn, pc>>
  /\ UNCHANGED <<host, channel, live, refs, counts, need, seen, orphaned>>

\* update, producerAlive and idleMs read the observer of the tracker.
InspectTracker(t, c) == Method(t, c) /\ Reads(t)

-----------------------------------------------------------------------------
Objects ==
  \/ \E t \in Threads, c \in Classes \ Trackers : Open(t, c)
  \/ \E t \in Threads, c \in Trackers : OpenTracker(t, c) \/ InspectTracker(t, c)
  \/ \E t \in Threads, c \in Classes : Close(t, c) \/ PyClose(t, c) \/ Drop(t, c)
  \/ \E t \in Threads : InspectProducer(t) \/ InspectConsumer(t) \/ InspectObserver(t)
  \/ \E c \in Classes : Finalize(c)

Other == RemoteTake \/ \E n \in Lens : RemoteSend(n)

\* The steps of a call under way.
Goes(t) ==
  \/ Throw(t) \/ PyThrow(t) \/ SendDone(t) \/ PollCopied(t) \/ Peeked(t)
  \/ EnterWait(t) \/ WaitEnds(t) \/ Finish(t) \/ (t = "aux" /\ OnError)

Starts(t) ==
  \/ \E n \in Lens : Send(t, n)
  \/ \E cap \in Caps : PollCopyInto(t, cap) \/ PyPollCopyInto(t, cap) \/ PeekCopyInto(t, cap)
  \/ PollCopy(t) \/ Wait(t) \/ PyWait(t) \/ PeekCopy(t)

Next ==
  \/ Objects \/ Other \/ WaitAsync
  \/ \E t \in Threads : Starts(t) \/ Goes(t) \/ WaitThrows(t)

Spec == Init /\ [][Next]_vars

\* Threads run, and the event loop comes round to a worker that has ended.
FairSpec == Spec /\ WF_vars(Goes("main")) /\ SF_vars(Goes("aux"))

-----------------------------------------------------------------------------
(* Properties                                                              *)

\* No thread is inside a native handle that has been deleted, and no tracker outlives
\* its observer, through any order of close(), dropped references and collection.  The
\* one exception is a Python script that calls close() on a consumer that another of
\* its threads is waiting on.
HandlesOutliveUse ==
  /\ \A t \in Threads :
       /\ pc[t] = "waiting" => "consumer" \in live \/ (host = "python" /\ orphaned)
       /\ pc[t] = "peeking" => "observer" \in live
  /\ live \cap Trackers # {} => "observer" \in live

\* The length that pollCopy's probe reported is still that of the retained message when
\* the copy is made, so pollCopy never fails for want of room and never returns bytes
\* that no message has.
ProbeStillValid ==
  \A t \in Threads : pc[t] = "copying" => pending # 0 /\ lens[pending] = need[t]

\* An exception says what made its call fail, whatever the other thread does with its own
\* last error between the failure and the throw: the status is named only where the call
\* set no text.  A promise of waitAsync is the exception: it failed in the pool thread,
\* but is rejected with the last error of the JavaScript thread, which is that of an
\* earlier call of the script or none (node_binding.cpp:832, xproc_c.cpp:44).
ErrorsNameTheirCause ==
  \A t \in Threads : pc[t] \in Errors /\ ~(host = "node" /\ t = "aux") => Says(t) = Cause(t)

\* A waitAsync that a later commit reaches is settled, resolved or rejected, and the
\* consumer may be closed or waited on again, unless the script in the end blocks its
\* thread for good, in a send or a wait.
WaitSettles ==
  \/ <>[](pc["main"] \in {"sending", "waiting"})
  \/ (waits > 0 /\ pc["aux"] = "waiting" /\ seen["aux"] # Len(lens)) ~> (waits = 0)
================================================================================
