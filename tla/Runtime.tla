-------------------------------- MODULE Runtime --------------------------------
(***************************************************************************)
(* The consumer loop of include/xproc/ipc/runtime.hpp over a shared-memory *)
(* channel: run(), run() with a backpressure callback and run_batched(),   *)
(* the three copy policies, an executor that runs tasks at once or posts   *)
(* them to a pool, the wait on commit_seq, and stop() from another thread. *)
(*                                                                         *)
(* The ring is the queue that ShmChannel implements, kept here as slots    *)
(* and two counters.  Message n is the n-th one published.  The notify     *)
(* word is spscring's and external: a sequence number and a waiter flag.   *)
(***************************************************************************)
EXTENDS Integers, Sequences

CONSTANTS
  Modes,       \* of "plain", "backpressure", "batched": the overloads of run() the application calls
  Policy,      \* "reuse_buffer", "zero_copy" or "sbo"
  Executor,    \* "inline", "posted", or "mixed": the executor decides per task
  BatchSize,   \* max_batch_size of run_batched
  RingSlots,   \* messages the ring holds
  MaxMsgs,     \* bound: messages published
  MaxStops,    \* bound: calls of stop()
  MaxRuns      \* bound: calls of run()

ASSUME ModeAssumption ==
  /\ Modes \subseteq {"plain", "backpressure", "batched"}
  /\ Policy \in {"reuse_buffer", "zero_copy", "sbo"}
  /\ Executor \in {"inline", "posted", "mixed"}

ASSUME RuntimeBounds ==
  /\ BatchSize \in Nat \ {0} /\ RingSlots \in Nat \ {0}
  /\ MaxMsgs \in Nat /\ MaxStops \in Nat /\ MaxRuns \in Nat

VARIABLES
  slots, written, read,   \* the ring: payload slots, messages published, messages released
  commitSeq, waiter,      \* the notify word
  ppc,                    \* the producer inside commit()
  spc, stops,             \* the thread that calls stop()
  running,                \* running_
  mode,                   \* the overload of run() last called, "none" before the first call
  rpc,                    \* where run() is
  last,                   \* last_commit of wait_for_shared_header
  batch, queued,          \* batch_count, queued
  reuseBuf,               \* reuse_buf_
  tasks,                  \* tasks the executor has posted and not yet run
  seen,                   \* <<message, payload its handler saw>> (history)
  dispatched, reported,   \* messages handed to the executor in this run, and reported to backpressure
  late,                   \* messages handed to it since running_ became false
  runs

ring == <<slots, written, read>>
word == <<commitSeq, waiter>>
stopper == <<spc, stops>>
others == <<ring, word, ppc, stopper>>
acct == <<queued, dispatched, reported, late>>
ctl == <<running, mode, last, runs>>
loop == <<ctl, rpc, batch, acct, reuseBuf>>
handler == <<tasks, seen>>
vars == <<others, loop, handler>>

Slot(n) == n % RingSlots

Init ==
  /\ slots = [i \in 0 .. RingSlots - 1 |-> 0] /\ written = 0 /\ read = 0
  /\ commitSeq = 0 /\ waiter = FALSE
  /\ ppc = "idle" /\ spc = "idle" /\ stops = 0
  /\ running = FALSE /\ mode = "none" /\ rpc = "idle" /\ last = 0 /\ batch = 0 /\ queued = 0
  /\ reuseBuf = 0 /\ tasks = << >> /\ seen = {}
  /\ dispatched = 0 /\ reported = 0 /\ late = 0 /\ runs = 0

-----------------------------------------------------------------------------
(* The notify word.                                                        *)

\* bump_notify_word, and whether the caller must make the wake call.
Bump(next) ==
  /\ commitSeq' = commitSeq + 1
  /\ waiter' = FALSE
  /\ next = IF waiter THEN "notify" ELSE "idle"

\* atomic_notify_all: a blocked waiter looks at the word again.
Wake == rpc' = IF rpc = "blocked" THEN "register" ELSE rpc

-----------------------------------------------------------------------------
(* Producer: commit() publishes the slot, then bumps commit_seq.            *)

Publish ==
  /\ ppc = "idle"
  /\ written < MaxMsgs
  /\ written - read < RingSlots
  /\ slots' = [slots EXCEPT ![Slot(written)] = written + 1]
  /\ written' = written + 1
  /\ ppc' = "bump"
  /\ UNCHANGED <<read, word, stopper, loop, handler>>

ProducerBump ==
  /\ ppc = "bump"
  /\ Bump(ppc')
  /\ UNCHANGED <<ring, stopper, loop, handler>>

ProducerNotify ==
  /\ ppc = "notify"
  /\ ppc' = "idle"
  /\ Wake
  /\ UNCHANGED <<ring, word, stopper, ctl, batch, acct, reuseBuf, handler>>

-----------------------------------------------------------------------------
(* stop(), called by some other thread or from inside the handler.         *)

Stop ==
  /\ spc = "idle"
  /\ stops < MaxStops
  /\ stops' = stops + 1
  /\ running' = FALSE
  /\ spc' = "bump"
  /\ UNCHANGED <<ring, word, ppc, rpc, mode, last, runs, batch, acct, reuseBuf, handler>>

\* Fault: the wake call without the bump.
StopBumpOnlyWakes ==
  /\ spc = "bump"
  /\ spc' = (IF waiter THEN "notify" ELSE "idle")
  /\ UNCHANGED <<ring, word, ppc, stops, loop, handler>>

StopBump ==
  /\ spc = "bump"
  /\ Bump(spc')
  /\ UNCHANGED <<ring, ppc, stops, loop, handler>>

StopNotify ==
  /\ spc = "notify"
  /\ spc' = "idle"
  /\ Wake
  /\ UNCHANGED <<ring, word, ppc, stops, ctl, batch, acct, reuseBuf, handler>>

-----------------------------------------------------------------------------
(* run().                                                                  *)

RunStart ==
  /\ rpc \in {"idle", "returned", "threw"}
  /\ runs < MaxRuns
  /\ runs' = runs + 1
  /\ running' = TRUE
  /\ mode' \in Modes
  /\ rpc' = "loop"
  /\ queued' = 0 /\ dispatched' = 0 /\ reported' = 0 /\ late' = 0
  /\ UNCHANGED <<others, last, batch, reuseBuf, handler>>

LoopTest ==
  /\ rpc = "loop"
  /\ rpc' = IF running THEN "poll" ELSE "exit"
  /\ batch' = 0
  /\ UNCHANGED <<others, ctl, acct, reuseBuf, handler>>

\* poll() found message read + 1; reuse_buffer copies it before the executor is called.
PollMessage ==
  /\ rpc = "poll"
  /\ read < written
  /\ reuseBuf' = IF Policy = "reuse_buffer" THEN slots[Slot(read)] ELSE reuseBuf
  /\ rpc' = "exec"
  /\ UNCHANGED <<others, ctl, batch, acct, handler>>

\* Fault: the small-buffer task captures the pointer instead of the bytes.
TaskBorrows == [msg |-> read + 1, at |-> "ring", slot |-> Slot(read), bytes |-> 0]

\* What a task has captured: a pointer to the buffer, a pointer into the ring, or the bytes.
Task ==
  CASE Policy = "reuse_buffer" -> [msg |-> read + 1, at |-> "buffer", slot |-> 0, bytes |-> 0]
    [] Policy = "zero_copy" -> [msg |-> read + 1, at |-> "ring", slot |-> Slot(read), bytes |-> 0]
    [] Policy = "sbo" -> [msg |-> read + 1, at |-> "value", slot |-> 0, bytes |-> slots[Slot(read)]]

\* What the handler reads through it when the task runs.
Payload(task) ==
  CASE task.at = "buffer" -> reuseBuf
    [] task.at = "ring" -> slots[task.slot]
    [] task.at = "value" -> task.bytes

Exec ==
  /\ rpc = "exec"
  /\ \/ Executor # "posted" /\ seen' = seen \cup {<<read + 1, Payload(Task)>>} /\ UNCHANGED tasks
     \/ Executor # "inline" /\ tasks' = Append(tasks, Task) /\ UNCHANGED seen
  /\ dispatched' = dispatched + 1
  /\ late' = IF running THEN late ELSE late + 1
  /\ rpc' = "advance"
  /\ UNCHANGED <<others, ctl, batch, queued, reuseBuf, reported>>

\* A handler that throws inside the executor: the exception leaves poll() and run().
ExecThrows ==
  /\ rpc = "exec"
  /\ Executor # "posted"
  /\ rpc' = "threw"
  /\ UNCHANGED <<others, ctl, batch, acct, reuseBuf, handler>>

\* Fault: a batch goes on for as long as there are messages.
AdvanceUnbounded ==
  /\ rpc = "advance"
  /\ read' = read + 1
  /\ batch' = batch + 1
  /\ queued' = IF mode = "backpressure" THEN queued + 1 ELSE queued
  /\ rpc' = IF mode = "batched" THEN "poll" ELSE "loop"
  /\ UNCHANGED <<slots, written, word, ppc, stopper, ctl, reuseBuf, dispatched, reported, late, handler>>

\* read_advance, then the bookkeeping of the three loops.
Advance ==
  /\ rpc = "advance"
  /\ read' = read + 1
  /\ batch' = batch + 1
  /\ queued' = IF mode = "backpressure" THEN queued + 1 ELSE queued
  /\ rpc' = IF mode = "batched" /\ batch' < BatchSize THEN "poll" ELSE "loop"
  /\ UNCHANGED <<slots, written, word, ppc, stopper, ctl, reuseBuf, dispatched, reported, late, handler>>

\* bp(queued), when there is anything to report.
Report == reported' = reported + queued /\ queued' = 0

PollEmpty ==
  /\ rpc = "poll"
  /\ read = written
  /\ Report
  /\ rpc' = IF mode = "batched" /\ batch > 0 THEN "loop" ELSE "wait"
  /\ UNCHANGED <<others, ctl, batch, reuseBuf, dispatched, late, handler>>

\* wait_for_shared_header: load commit_seq, test running_, then wait_for_seq_change.
LoadSeq ==
  /\ rpc = "wait"
  /\ last' = commitSeq
  /\ rpc' = "check"
  /\ UNCHANGED <<others, running, mode, runs, batch, acct, reuseBuf, handler>>

\* Fault: running_ is not tested again between the load and the wait.
CheckRunningSkipped ==
  /\ rpc = "check"
  /\ rpc' = "register"
  /\ UNCHANGED <<others, ctl, batch, acct, reuseBuf, handler>>

CheckRunning ==
  /\ rpc = "check"
  /\ rpc' = IF running THEN "register" ELSE "loop"
  /\ UNCHANGED <<others, ctl, batch, acct, reuseBuf, handler>>

\* wait_for_seq_change: block only while the word still holds the value loaded.
Register ==
  /\ rpc = "register"
  /\ waiter' = (commitSeq = last)
  /\ rpc' = IF commitSeq = last THEN "blocked" ELSE "loop"
  /\ UNCHANGED <<ring, commitSeq, ppc, stopper, ctl, batch, acct, reuseBuf, handler>>

\* Fault: run() returns without the final report.
RunReturnsSilently ==
  /\ rpc = "exit"
  /\ rpc' = "returned"
  /\ UNCHANGED <<others, ctl, batch, acct, reuseBuf, handler>>

RunReturns ==
  /\ rpc = "exit"
  /\ Report
  /\ rpc' = "returned"
  /\ UNCHANGED <<others, ctl, batch, reuseBuf, dispatched, late, handler>>

\* A pool thread runs the oldest posted task.
RunTask ==
  /\ tasks # << >>
  /\ seen' = seen \cup {<<Head(tasks).msg, Payload(Head(tasks))>>}
  /\ tasks' = Tail(tasks)
  /\ UNCHANGED <<others, loop>>

-----------------------------------------------------------------------------
RunStep ==
  \/ LoopTest \/ PollMessage \/ PollEmpty \/ Exec \/ Advance
  \/ LoadSeq \/ CheckRunning \/ Register \/ RunReturns

Next ==
  \/ Publish \/ ProducerBump \/ ProducerNotify
  \/ Stop \/ StopBump \/ StopNotify
  \/ RunStart \/ RunStep \/ ExecThrows
  \/ RunTask

\* Threads inside a call are scheduled; nobody is obliged to call anything.
Fairness ==
  /\ WF_vars(ProducerBump) /\ WF_vars(ProducerNotify)
  /\ WF_vars(StopBump) /\ WF_vars(StopNotify)
  /\ WF_vars(RunStep) /\ WF_vars(RunTask)

Spec == Init /\ [][Next]_vars

FairSpec == Spec /\ Fairness

-----------------------------------------------------------------------------
(* Properties.                                                             *)

Returned == {"idle", "returned", "threw"}
LoopPcs == {"loop", "poll", "exec", "advance", "wait", "check", "register", "blocked", "exit"}

\* Type invariant.
TypeOK ==
  /\ slots \in [0 .. RingSlots - 1 -> Nat] /\ written \in Nat /\ read \in Nat
  /\ commitSeq \in Nat /\ waiter \in BOOLEAN
  /\ ppc \in {"idle", "bump", "notify"} /\ spc \in {"idle", "bump", "notify"} /\ stops \in Nat
  /\ running \in BOOLEAN /\ mode \in Modes \cup {"none"} /\ rpc \in Returned \cup LoopPcs /\ last \in Nat /\ runs \in Nat
  /\ batch \in 0 .. MaxMsgs /\ reuseBuf \in Nat
  /\ queued \in Nat /\ dispatched \in Nat /\ reported \in Nat /\ late \in Nat

\* A handler reads the payload of the message it was called for, at the moment it
\* is called.
HandlerSeesItsMessage == \A s \in seen : s[1] = s[2]

\* The cases in which what a task captured lasts until the task runs.
CopyOutlivesTask == Executor = "inline" \/ Policy = "sbo"

\* stop() is never missed by a waiting loop: a loop blocked on commit_seq after
\* running_ became false still has a bump or a wake call on its way.
StopNotMissed ==
  rpc = "blocked" /\ ~running =>
    spc = "bump" \/ (commitSeq # last /\ (spc = "notify" \/ ppc = "notify"))

Limit == IF mode = "batched" THEN BatchSize ELSE 1

\* After stop() the loop hands over at most the message it is working on, or the
\* rest of one batch: run_batched does not test running_ inside a batch.
StopOverrunBounded == late <= Limit

\* Every dispatched message is reported to the backpressure callback exactly once,
\* and the report is never left behind when the loop blocks or returns.
BackpressureAccounts ==
  mode = "backpressure" /\ rpc \in {"wait", "check", "register", "blocked", "returned"} =>
    reported = dispatched

\* Once stop() was called on a started loop, run() returns, or leaves by an exception.
StopEndsRun == (rpc \in LoopPcs /\ ~running) ~> (rpc \in Returned)

\* wait() blocks until new data: a loop that waits while the ring holds a message
\* is woken.
WaitEndsWithData == (rpc = "blocked" /\ read < written) ~> (rpc # "blocked")
================================================================================
