----------------------------- MODULE RuntimeProofs -----------------------------
(***************************************************************************)
(* Proofs about Runtime for every mode, copy policy, executor, ring size   *)
(* and batch size: no stop() is missed, the backpressure reports add up,   *)
(* the overrun after stop() is bounded, each message is handled once and   *)
(* in order, and handlers see their messages wherever the captured bytes   *)
(* outlive the task.                                                       *)
(***************************************************************************)
EXTENDS Runtime, SequenceTheorems, TLAPS

\* The notify word and the waiting loop: a loop that waits either is registered on
\* the word it loaded or has a wake call on its way, and a loop that passed the
\* test of running_ before stop() will find the word changed.
WordInv ==
  /\ last <= commitSeq
  /\ rpc = "blocked" =>
       \/ waiter /\ commitSeq = last
       \/ ~waiter /\ commitSeq # last /\ (spc = "notify" \/ ppc = "notify")
  /\ rpc \in {"register", "blocked"} /\ ~running => spc = "bump" \/ commitSeq # last

\* Messages handed over are reported, waiting to be reported, or being released.
Pending == IF rpc = "advance" THEN 1 ELSE 0

AcctInv ==
  mode = "backpressure" =>
    /\ reported + queued + Pending = dispatched
    /\ rpc \in {"wait", "check", "register", "blocked", "returned"} => queued = 0

\* The messages handed over since stop() are those of the current batch.
LateInv ==
  /\ running => late = 0
  /\ late <= Limit
  /\ rpc \in {"poll", "exec", "advance"} => batch < Limit /\ late <= batch + Pending

\* The unread part of the ring holds its messages.
SlotInv ==
  /\ read <= written /\ written <= read + RingSlots /\ written <= MaxMsgs
  /\ batch <= read
  /\ rpc \in {"exec", "advance"} => read < written
  /\ \A n \in read .. written - 1 : slots[Slot(n)] = n + 1

\* What tasks captured.
TaskInv ==
  /\ Policy = "reuse_buffer" /\ rpc = "exec" => reuseBuf = read + 1
  /\ tasks \in Seq([msg : Nat, at : {"buffer", "ring", "value"}, slot : Nat, bytes : Nat])
  /\ Executor = "inline" => tasks = << >>
  /\ Policy = "sbo" => \A i \in 1 .. Len(tasks) : tasks[i].at = "value" /\ tasks[i].bytes = tasks[i].msg

SeenInv == CopyOutlivesTask => HandlerSeesItsMessage

\* The messages handed to the executor: those released and the one being released.
Given == read + Pending

\* Message n has reached its handler, or a task that the executor will run.
Handled(n) == \E s \in seen : s[1] = n
Posted(n) == \E i \in 1 .. Len(tasks) : tasks[i].msg = n

\* A message leaves the ring only when its handler has run or its task is posted, never
\* both, and a pool gets the tasks in the order of the messages: stop(), an exception
\* that leaves run() and a second run() lose no message, and a message whose handler
\* returned is not handed over again.
HandledOnceInOrder ==
  /\ \A n \in 1 .. read : Handled(n) \/ Posted(n)
  /\ \A i \in 1 .. Len(tasks) : ~Handled(tasks[i].msg)
  /\ \A i, j \in 1 .. Len(tasks) : i < j => tasks[i].msg < tasks[j].msg

\* The same of the message between the executor and read_advance.
DispatchInv ==
  /\ \A s \in seen : s[1] \in 1 .. Given
  /\ \A i \in 1 .. Len(tasks) : tasks[i].msg \in 1 .. Given
  /\ \A n \in 1 .. Given : Handled(n) \/ Posted(n)
  /\ \A i \in 1 .. Len(tasks) : \A s \in seen : s[1] # tasks[i].msg
  /\ \A i, j \in 1 .. Len(tasks) : i < j => tasks[i].msg < tasks[j].msg

RuntimeInv == TypeOK /\ WordInv /\ AcctInv /\ LateInv /\ SlotInv /\ TaskInv /\ SeenInv /\ DispatchInv

-----------------------------------------------------------------------------
\* The notify word protocol: every step of the producer, of stop() and of the loop
\* keeps the waiting loop either registered or about to be woken.
LEMMA WordPreserved ==
  ASSUME TypeOK, WordInv, [Next]_vars
  PROVE  WordInv'
<1> USE DEF TypeOK, WordInv, Returned, LoopPcs, vars, others, ring, word, stopper, acct, ctl, loop, handler
<1>1. CASE Publish
  BY <1>1 DEF Publish
<1>2. CASE ProducerBump
  BY <1>2 DEF ProducerBump, Bump
<1>3. CASE ProducerNotify
  BY <1>3 DEF ProducerNotify, Wake
<1>4. CASE Stop
  BY <1>4 DEF Stop
<1>5. CASE StopBump
  BY <1>5 DEF StopBump, Bump
<1>6. CASE StopNotify
  BY <1>6 DEF StopNotify, Wake
<1>7. CASE RunStart
  BY <1>7 DEF RunStart
<1>8. CASE LoopTest
  BY <1>8 DEF LoopTest
<1>9. CASE PollMessage
  BY <1>9 DEF PollMessage
<1>10. CASE PollEmpty
  BY <1>10 DEF PollEmpty, Report
<1>11. CASE Exec
  BY <1>11 DEF Exec
<1>12. CASE Advance
  BY <1>12 DEF Advance
<1>13. CASE LoadSeq
  BY <1>13 DEF LoadSeq
<1>14. CASE CheckRunning
  BY <1>14 DEF CheckRunning
<1>15. CASE Register
  BY Zenon, <1>15 DEF Register
<1>16. CASE RunReturns
  BY <1>16 DEF RunReturns, Report
<1>17. CASE ExecThrows
  BY <1>17 DEF ExecThrows
<1>18. CASE RunTask
  BY <1>18 DEF RunTask
<1>19. CASE UNCHANGED vars
  BY <1>19
<1> QED
  BY <1>1, <1>2, <1>3, <1>4, <1>5, <1>6, <1>7, <1>8, <1>9, <1>10,
     <1>11, <1>12, <1>13, <1>14, <1>15, <1>16, <1>17, <1>18, <1>19 DEF Next, RunStep

\* The bookkeeping of run() with backpressure: every step keeps reported, queued
\* and pending messages adding up to the dispatched ones.
LEMMA AcctPreserved ==
  ASSUME TypeOK, AcctInv, [Next]_vars
  PROVE  AcctInv'
<1> USE DEF TypeOK, AcctInv, Pending, Returned, LoopPcs, vars, others, ring, word, stopper, acct, ctl, loop, handler
<1>1. CASE Publish
  BY <1>1 DEF Publish
<1>2. CASE ProducerBump
  BY <1>2 DEF ProducerBump, Bump
<1>3. CASE ProducerNotify
  BY <1>3 DEF ProducerNotify, Wake
<1>4. CASE Stop
  BY <1>4 DEF Stop
<1>5. CASE StopBump
  BY <1>5 DEF StopBump, Bump
<1>6. CASE StopNotify
  BY <1>6 DEF StopNotify, Wake
<1>7. CASE RunStart
  BY <1>7 DEF RunStart
<1>8. CASE LoopTest
  BY <1>8 DEF LoopTest
<1>9. CASE PollMessage
  BY <1>9 DEF PollMessage
<1>10. CASE PollEmpty
  BY <1>10 DEF PollEmpty, Report
<1>11. CASE Exec
  BY <1>11 DEF Exec
<1>12. CASE Advance
  BY <1>12 DEF Advance
<1>13. CASE LoadSeq
  BY <1>13 DEF LoadSeq
<1>14. CASE CheckRunning
  BY <1>14 DEF CheckRunning
<1>15. CASE Register
  BY <1>15 DEF Register
<1>16. CASE RunReturns
  BY <1>16 DEF RunReturns, Report
<1>17. CASE ExecThrows
  BY <1>17 DEF ExecThrows
<1>18. CASE RunTask
  BY <1>18 DEF RunTask
<1>19. CASE UNCHANGED vars
  BY <1>19
<1> QED
  BY <1>1, <1>2, <1>3, <1>4, <1>5, <1>6, <1>7, <1>8, <1>9, <1>10,
     <1>11, <1>12, <1>13, <1>14, <1>15, <1>16, <1>17, <1>18, <1>19 DEF Next, RunStep

\* The overrun: a message handed over after stop() belongs to the batch that was
\* running.
LEMMA LatePreserved ==
  ASSUME TypeOK, LateInv, [Next]_vars
  PROVE  LateInv'
<1> USE RuntimeBounds, ModeAssumption DEF TypeOK, LateInv, Pending, Limit, Returned, LoopPcs, vars, others, ring, word, stopper, acct, ctl, loop, handler
<1>1. CASE Publish
  BY <1>1 DEF Publish
<1>2. CASE ProducerBump
  BY <1>2 DEF ProducerBump, Bump
<1>3. CASE ProducerNotify
  BY <1>3 DEF ProducerNotify, Wake
<1>4. CASE Stop
  BY <1>4 DEF Stop
<1>5. CASE StopBump
  BY <1>5 DEF StopBump, Bump
<1>6. CASE StopNotify
  BY <1>6 DEF StopNotify, Wake
<1>7. CASE RunStart
  BY <1>7 DEF RunStart
<1>8. CASE LoopTest
  BY <1>8 DEF LoopTest
<1>9. CASE PollMessage
  BY <1>9 DEF PollMessage
<1>10. CASE PollEmpty
  BY <1>10 DEF PollEmpty, Report
<1>11. CASE Exec
  BY <1>11 DEF Exec
<1>12. CASE Advance
  BY <1>12 DEF Advance
<1>13. CASE LoadSeq
  BY <1>13 DEF LoadSeq
<1>14. CASE CheckRunning
  BY <1>14 DEF CheckRunning
<1>15. CASE Register
  BY <1>15 DEF Register
<1>16. CASE RunReturns
  BY <1>16 DEF RunReturns, Report
<1>17. CASE ExecThrows
  BY <1>17 DEF ExecThrows
<1>18. CASE RunTask
  BY <1>18 DEF RunTask
<1>19. CASE UNCHANGED vars
  BY <1>19
<1> QED
  BY <1>1, <1>2, <1>3, <1>4, <1>5, <1>6, <1>7, <1>8, <1>9, <1>10,
     <1>11, <1>12, <1>13, <1>14, <1>15, <1>16, <1>17, <1>18, <1>19 DEF Next, RunStep

\* A message number selects a slot of the ring.
LEMMA SlotRange == ASSUME NEW n \in Nat PROVE Slot(n) \in 0 .. RingSlots - 1
  BY RuntimeBounds DEF Slot

\* Publishing into a ring that is not full leaves the unread slots alone.
LEMMA SlotDistinct ==
  ASSUME NEW n \in Nat, NEW w \in Nat, n < w, w - n < RingSlots
  PROVE  Slot(n) # Slot(w)
<1> DEFINE qx == n \div RingSlots
           qy == w \div RingSlots
<1>1. /\ RingSlots \in Nat \ {0} /\ qx \in Nat /\ qy \in Nat
      /\ Slot(n) \in Nat /\ Slot(w) \in Nat
      /\ n = RingSlots * qx + Slot(n) /\ w = RingSlots * qy + Slot(w)
  BY RuntimeBounds, SMT DEF Slot
<1> HIDE DEF qx, qy
<1>2. SUFFICES ASSUME Slot(n) = Slot(w) PROVE FALSE
  OBVIOUS
<1>3. w - n = RingSlots * qy - RingSlots * qx BY <1>1, <1>2, SMT
<1>4. CASE qy <= qx
  <2>1. RingSlots * qy <= RingSlots * qx BY <1>1, <1>4, SMT
  <2>2. QED BY <2>1, <1>1, <1>3, SMT
<1>5. CASE qy >= qx + 1
  <2>1. RingSlots * qy >= RingSlots * qx + RingSlots BY <1>1, <1>5, SMT
  <2>2. QED BY <2>1, <1>1, <1>3, SMT
<1>6. QED BY <1>1, <1>4, <1>5, SMT

\* The ring: publishing never overwrites an unread message and releasing never
\* passes the last published one.
LEMMA SlotsPreserved ==
  ASSUME TypeOK, SlotInv, [Next]_vars
  PROVE  SlotInv'
<1> USE RuntimeBounds DEF TypeOK, SlotInv, Returned, LoopPcs, vars, others, ring, word, stopper, acct, ctl, loop, handler
<1>1. CASE Publish
  <2> USE <1>1 DEF Publish
  <2>1. Slot(written) \in 0 .. RingSlots - 1 BY Zenon, SlotRange
  <2>2. ASSUME NEW n \in read' .. written' - 1 PROVE slots'[Slot(n)] = n + 1
    <3>1. CASE n = written BY <3>1, <2>1
    <3>2. CASE n < written
      <4>1. n \in Nat /\ written - n < RingSlots BY <3>2, <2>2
      <4>2. Slot(n) # Slot(written) /\ Slot(n) \in 0 .. RingSlots - 1
        BY Zenon, <4>1, <3>2, SlotDistinct, SlotRange
      <4>3. slots[Slot(n)] = n + 1 BY <3>2, <2>2
      <4> QED BY <4>2, <4>3
    <3> QED BY <3>1, <3>2, <2>2
  <2>3. read' <= written' /\ written' <= read' + RingSlots /\ written' <= MaxMsgs OBVIOUS
  <2> QED BY <2>2, <2>3
<1>2. CASE ProducerBump
  BY <1>2 DEF ProducerBump, Bump
<1>3. CASE ProducerNotify
  BY <1>3 DEF ProducerNotify, Wake
<1>4. CASE Stop
  BY <1>4 DEF Stop
<1>5. CASE StopBump
  BY <1>5 DEF StopBump, Bump
<1>6. CASE StopNotify
  BY <1>6 DEF StopNotify, Wake
<1>7. CASE RunStart
  BY <1>7 DEF RunStart
<1>8. CASE LoopTest
  BY <1>8 DEF LoopTest
<1>9. CASE PollMessage
  BY <1>9 DEF PollMessage
<1>10. CASE PollEmpty
  BY <1>10 DEF PollEmpty, Report
<1>11. CASE Exec
  BY <1>11 DEF Exec
<1>12. CASE Advance
  BY <1>12 DEF Advance
<1>13. CASE LoadSeq
  BY <1>13 DEF LoadSeq
<1>14. CASE CheckRunning
  BY <1>14 DEF CheckRunning
<1>15. CASE Register
  BY <1>15 DEF Register
<1>16. CASE RunReturns
  BY <1>16 DEF RunReturns, Report
<1>17. CASE ExecThrows
  BY <1>17 DEF ExecThrows
<1>18. CASE RunTask
  BY <1>18 DEF RunTask
<1>19. CASE UNCHANGED vars
  BY <1>19
<1> QED
  BY <1>1, <1>2, <1>3, <1>4, <1>5, <1>6, <1>7, <1>8, <1>9, <1>10,
     <1>11, <1>12, <1>13, <1>14, <1>15, <1>16, <1>17, <1>18, <1>19 DEF Next, RunStep

\* Type correctness of one step; the batch counter is bounded by the messages read.
LEMMA TypePreserved ==
  ASSUME TypeOK, SlotInv, SlotInv', [Next]_vars
  PROVE  TypeOK'
<1> USE RuntimeBounds DEF TypeOK, Returned, LoopPcs, vars, others, ring, word, stopper, acct, ctl, loop, handler
<1>1. CASE Publish
  <2>1. slots' = [slots EXCEPT ![Slot(written)] = written + 1] BY <1>1 DEF Publish
  <2>4. written \in Nat OBVIOUS
  <2>2. Slot(written) \in 0 .. RingSlots - 1 /\ written + 1 \in Nat
    <3> HIDE DEF TypeOK
    <3> QED BY <2>4, SlotRange
  <2>3. slots' \in [0 .. RingSlots - 1 -> Nat] BY <2>1, <2>2
  <2> QED BY <1>1, <2>3 DEF Publish
<1>2. CASE ProducerBump
  <2>1. waiter' \in BOOLEAN BY Zenon, <1>2 DEF ProducerBump, Bump
  <2>4. commitSeq' \in Nat BY <1>2 DEF ProducerBump, Bump
  <2>2. ppc' \in {"idle", "bump", "notify"} BY <1>2 DEF ProducerBump, Bump
  <2>3. UNCHANGED <<ring, stopper, loop, handler>> BY <1>2 DEF ProducerBump
  <2> QED BY <2>1, <2>2, <2>3, <2>4
<1>3. CASE ProducerNotify
  BY <1>3 DEF ProducerNotify, Wake
<1>4. CASE Stop
  <2>1. running' \in BOOLEAN BY Zenon, <1>4 DEF Stop
  <2>3. stops' \in Nat /\ spc' = "bump" BY <1>4 DEF Stop
  <2>2. UNCHANGED <<ring, word, ppc, rpc, mode, last, runs, batch, acct, reuseBuf, handler>> BY <1>4 DEF Stop
  <2> QED BY <2>1, <2>2, <2>3
<1>5. CASE StopBump
  <2>1. waiter' \in BOOLEAN BY Zenon, <1>5 DEF StopBump, Bump
  <2>4. commitSeq' \in Nat BY <1>5 DEF StopBump, Bump
  <2>2. spc' \in {"idle", "bump", "notify"} BY <1>5 DEF StopBump, Bump
  <2>3. UNCHANGED <<ring, ppc, stops, loop, handler>> BY <1>5 DEF StopBump
  <2> QED BY <2>1, <2>2, <2>3, <2>4
<1>6. CASE StopNotify
  BY <1>6 DEF StopNotify, Wake
<1>7. CASE RunStart
  BY <1>7 DEF RunStart
<1>8. CASE LoopTest
  BY <1>8 DEF LoopTest
<1>9. CASE PollMessage
  <2>1. slots[Slot(read)] \in Nat BY Zenon, SlotRange
  <2> QED BY <1>9, <2>1 DEF PollMessage
<1>10. CASE PollEmpty
  BY <1>10 DEF PollEmpty, Report
<1>11. CASE Exec
  BY <1>11 DEF Exec
<1>12. CASE Advance
  <2>1. batch' \in 0 .. MaxMsgs BY <1>12 DEF Advance, SlotInv
  <2> QED BY <1>12, <2>1 DEF Advance
<1>13. CASE LoadSeq
  BY <1>13 DEF LoadSeq
<1>14. CASE CheckRunning
  BY <1>14 DEF CheckRunning
<1>15. CASE Register
  BY <1>15 DEF Register
<1>16. CASE RunReturns
  BY <1>16 DEF RunReturns, Report
<1>17. CASE ExecThrows
  BY <1>17 DEF ExecThrows
<1>18. CASE RunTask
  BY <1>18 DEF RunTask
<1>19. CASE UNCHANGED vars
  BY <1>19
<1> QED
  BY Zenon, <1>1, <1>2, <1>3, <1>4, <1>5, <1>6, <1>7, <1>8, <1>9, <1>10,
     <1>11, <1>12, <1>13, <1>14, <1>15, <1>16, <1>17, <1>18, <1>19 DEF Next, RunStep

\* The task made for the message at the read position, and what its handler reads.
LEMMA TaskFacts ==
  ASSUME TypeOK, SlotInv, TaskInv, rpc = "exec"
  PROVE  /\ Task \in [msg : Nat, at : {"buffer", "ring", "value"}, slot : Nat, bytes : Nat]
         /\ Policy = "sbo" => Task.at = "value" /\ Task.bytes = Task.msg
         /\ Payload(Task) = read + 1
<1>1. Slot(read) \in 0 .. RingSlots - 1 BY Zenon, SlotRange DEF TypeOK
<1>2. slots[Slot(read)] = read + 1 /\ read \in Nat BY DEF TypeOK, SlotInv
<1>3. CASE Policy = "reuse_buffer" BY <1>1, <1>2, <1>3 DEF Task, Payload, TaskInv
<1>4. CASE Policy = "zero_copy" BY <1>1, <1>2, <1>4, RuntimeBounds DEF Task, Payload
<1>5. CASE Policy = "sbo" BY <1>1, <1>2, <1>5 DEF Task, Payload
<1> QED BY <1>3, <1>4, <1>5, ModeAssumption

\* Captured bytes: a posted task keeps what it captured, and a buffered copy is the
\* message at the read position while its task is being made.
LEMMA TasksPreserved ==
  ASSUME TypeOK, SlotInv, TaskInv, [Next]_vars
  PROVE  TaskInv'
<1> USE DEF TypeOK, TaskInv, Returned, LoopPcs, vars, others, ring, word, stopper, acct, ctl, loop, handler
<1>1. CASE Publish
  BY <1>1 DEF Publish
<1>2. CASE ProducerBump
  BY <1>2 DEF ProducerBump, Bump
<1>3. CASE ProducerNotify
  BY <1>3 DEF ProducerNotify, Wake
<1>4. CASE Stop
  BY <1>4 DEF Stop
<1>5. CASE StopBump
  BY <1>5 DEF StopBump, Bump
<1>6. CASE StopNotify
  BY <1>6 DEF StopNotify, Wake
<1>7. CASE RunStart
  BY <1>7 DEF RunStart
<1>8. CASE LoopTest
  BY <1>8 DEF LoopTest
<1>9. CASE PollMessage
  <2>1. slots[Slot(read)] = read + 1 BY <1>9 DEF PollMessage, SlotInv
  <2> QED BY <1>9, <2>1 DEF PollMessage
<1>10. CASE PollEmpty
  BY <1>10 DEF PollEmpty, Report
<1>11. CASE Exec
  <2> DEFINE T == Task
             Tasks == [msg : Nat, at : {"buffer", "ring", "value"}, slot : Nat, bytes : Nat]
  <2>1. T \in Tasks /\ (Policy = "sbo" => T.at = "value" /\ T.bytes = T.msg)
    BY <1>11, TaskFacts DEF Exec
  <2>2. rpc' = "advance" BY <1>11 DEF Exec
  <2>3. CASE UNCHANGED tasks BY <2>2, <2>3
  <2>4. CASE Executor # "inline" /\ tasks' = Append(tasks, T)
    <3> HIDE DEF T
    <3>1. tasks \in Seq(Tasks) BY DEF TaskInv
    <3> HIDE DEF Tasks, TaskInv
    <3>2. tasks' \in Seq(Tasks) /\ Len(tasks') = Len(tasks) + 1 /\ Len(tasks) \in Nat
      BY <2>1, <2>4, <3>1
    <3>3. ASSUME Policy = "sbo", NEW i \in 1 .. Len(tasks')
          PROVE  tasks'[i].at = "value" /\ tasks'[i].bytes = tasks'[i].msg
      <4>1. CASE i = Len(tasks) + 1
        <5>1. tasks'[i] = T BY <4>1, <2>4, <3>1, <3>2
        <5> QED BY <5>1, <2>1, <3>3
      <4>2. CASE i \in 1 .. Len(tasks)
        <5>1. tasks'[i] = tasks[i] BY <4>2, <2>4, <3>1, <3>2
        <5> QED BY <5>1, <3>3, <4>2 DEF TaskInv
      <4> QED BY <4>1, <4>2, <3>2
    <3> QED BY <2>2, <2>4, <3>2, <3>3 DEF TaskInv, Tasks
  <2> QED BY <1>11, <2>3, <2>4 DEF Exec
<1>12. CASE Advance
  BY <1>12 DEF Advance
<1>13. CASE LoadSeq
  BY <1>13 DEF LoadSeq
<1>14. CASE CheckRunning
  BY <1>14 DEF CheckRunning
<1>15. CASE Register
  BY <1>15 DEF Register
<1>16. CASE RunReturns
  BY <1>16 DEF RunReturns, Report
<1>17. CASE ExecThrows
  BY <1>17 DEF ExecThrows
<1>18. CASE RunTask
  <2>1. Executor # "inline" /\ UNCHANGED <<rpc, reuseBuf, read>> BY <1>18 DEF RunTask
  <2>2. tasks # << >> /\ tasks' = Tail(tasks) BY <1>18 DEF RunTask
  <2>5. tasks \in Seq([msg : Nat, at : {"buffer", "ring", "value"}, slot : Nat, bytes : Nat]) OBVIOUS
  <2>3. /\ tasks' \in Seq([msg : Nat, at : {"buffer", "ring", "value"}, slot : Nat, bytes : Nat])
        /\ Len(tasks') = Len(tasks) - 1 /\ Len(tasks) \in Nat
    BY <2>2
  <2>4. ASSUME Policy = "sbo", NEW i \in 1 .. Len(tasks')
        PROVE  tasks'[i].at = "value" /\ tasks'[i].bytes = tasks'[i].msg
    <3>1. i + 1 \in 1 .. Len(tasks) BY <2>3
    <3>2. tasks'[i] = tasks[i + 1]
      <4> HIDE DEF TaskInv, TypeOK
      <4> QED BY <2>2, <2>5, HeadTailProperties
    <3> QED BY <3>1, <3>2, <2>4
  <2> QED BY <2>1, <2>3, <2>4
<1>19. CASE UNCHANGED vars
  BY <1>19
<1> QED
  BY <1>1, <1>2, <1>3, <1>4, <1>5, <1>6, <1>7, <1>8, <1>9, <1>10,
     <1>11, <1>12, <1>13, <1>14, <1>15, <1>16, <1>17, <1>18, <1>19 DEF Next, RunStep

\* Handlers: an inline handler reads the message at the read position, and a posted
\* one the bytes its task carries.
LEMMA SeenPreserved ==
  ASSUME TypeOK, SlotInv, TaskInv, SeenInv, [Next]_vars
  PROVE  SeenInv'
<1> USE DEF SeenInv, HandlerSeesItsMessage, CopyOutlivesTask, vars, others, ring, word, stopper, acct, ctl, loop, handler
<1>1. CASE Publish
  BY <1>1 DEF Publish
<1>2. CASE ProducerBump
  BY <1>2 DEF ProducerBump, Bump
<1>3. CASE ProducerNotify
  BY <1>3 DEF ProducerNotify, Wake
<1>4. CASE Stop
  BY <1>4 DEF Stop
<1>5. CASE StopBump
  BY <1>5 DEF StopBump, Bump
<1>6. CASE StopNotify
  BY <1>6 DEF StopNotify, Wake
<1>7. CASE RunStart
  BY <1>7 DEF RunStart
<1>8. CASE LoopTest
  BY <1>8 DEF LoopTest
<1>9. CASE PollMessage
  BY <1>9 DEF PollMessage
<1>10. CASE PollEmpty
  BY <1>10 DEF PollEmpty, Report
<1>11. CASE Exec
  <2>1. Payload(Task) = read + 1 BY <1>11, TaskFacts DEF Exec
  <2> QED BY <1>11, <2>1 DEF Exec
<1>12. CASE Advance
  BY <1>12 DEF Advance
<1>13. CASE LoadSeq
  BY <1>13 DEF LoadSeq
<1>14. CASE CheckRunning
  BY <1>14 DEF CheckRunning
<1>15. CASE Register
  BY <1>15 DEF Register
<1>16. CASE RunReturns
  BY <1>16 DEF RunReturns, Report
<1>17. CASE ExecThrows
  BY <1>17 DEF ExecThrows
<1>18. CASE RunTask
  <2> SUFFICES ASSUME CopyOutlivesTask PROVE HandlerSeesItsMessage' OBVIOUS
  <2>1. Policy = "sbo" BY <1>18 DEF RunTask, TaskInv
  <2>2. 1 \in 1 .. Len(tasks) /\ Head(tasks) = tasks[1] BY <1>18 DEF RunTask, TaskInv
  <2>3. Payload(Head(tasks)) = Head(tasks).msg BY <2>1, <2>2 DEF TaskInv, Payload
  <2> QED BY <1>18, <2>3 DEF RunTask
<1>19. CASE UNCHANGED vars
  BY <1>19
<1> QED
  BY <1>1, <1>2, <1>3, <1>4, <1>5, <1>6, <1>7, <1>8, <1>9, <1>10,
     <1>11, <1>12, <1>13, <1>14, <1>15, <1>16, <1>17, <1>18, <1>19 DEF Next, RunStep

\* Steps that hand nothing to the executor and run no task.
LEMMA DispatchQuiet ==
  ASSUME DispatchInv, seen' = seen, tasks' = tasks, Given' = Given
  PROVE  DispatchInv'
  BY Zenon DEF DispatchInv, Handled, Posted

\* Such are all steps but the executor's; read_advance moves the message from being
\* released to released.
LEMMA GivenKept ==
  ASSUME TypeOK, [Next]_vars, ~Exec, ~RunTask
  PROVE  seen' = seen /\ tasks' = tasks /\ Given' = Given
<1> USE DEF TypeOK, Given, Pending, vars, others, ring, word, stopper, acct, ctl, loop, handler
<1>1. CASE Publish
  BY <1>1 DEF Publish
<1>2. CASE ProducerBump
  BY <1>2 DEF ProducerBump
<1>3. CASE ProducerNotify
  BY <1>3 DEF ProducerNotify, Wake
<1>4. CASE Stop
  BY <1>4 DEF Stop
<1>5. CASE StopBump
  BY <1>5 DEF StopBump
<1>6. CASE StopNotify
  BY <1>6 DEF StopNotify, Wake
<1>7. CASE RunStart
  BY <1>7 DEF RunStart
<1>8. CASE LoopTest
  BY <1>8 DEF LoopTest
<1>9. CASE PollMessage
  BY <1>9 DEF PollMessage
<1>10. CASE PollEmpty
  BY <1>10 DEF PollEmpty
<1>11. CASE Advance
  BY <1>11 DEF Advance
<1>12. CASE LoadSeq
  BY <1>12 DEF LoadSeq
<1>13. CASE CheckRunning
  BY <1>13 DEF CheckRunning
<1>14. CASE Register
  BY <1>14 DEF Register
<1>15. CASE RunReturns
  BY <1>15 DEF RunReturns
<1>16. CASE ExecThrows
  BY <1>16 DEF ExecThrows
<1>17. CASE UNCHANGED vars
  BY <1>17
<1> QED
  BY Zenon, <1>1, <1>2, <1>3, <1>4, <1>5, <1>6, <1>7, <1>8, <1>9, <1>10,
     <1>11, <1>12, <1>13, <1>14, <1>15, <1>16, <1>17 DEF Next, RunStep

\* The executor gets the message after those it has had: the handler runs at once, or
\* its task is posted behind the others.
LEMMA DispatchExec ==
  ASSUME TypeOK, TaskInv, DispatchInv, Exec
  PROVE  DispatchInv'
<1> DEFINE Tasks == [msg : Nat, at : {"buffer", "ring", "value"}, slot : Nat, bytes : Nat]
<1>1. /\ read \in Nat /\ Given = read /\ Given' = read + 1
  BY DEF TypeOK, Exec, Given, Pending, others, ring
<1>2. tasks \in Seq(Tasks) BY DEF TaskInv
<1>3. 1 .. Given' = (1 .. Given) \cup {read + 1} /\ read + 1 \notin 1 .. Given BY <1>1
<1>4. CASE seen' = seen \cup {<<read + 1, Payload(Task)>>} /\ tasks' = tasks
  <2>1. PICK e : e = <<read + 1, Payload(Task)>> BY Zenon
  <2>2. seen' = seen \cup {e} /\ e[1] = read + 1 BY <1>4, <2>1
  <2>3. \A n : Handled(n)' <=> Handled(n) \/ n = read + 1 BY Zenon, <2>2 DEF Handled
  <2>4. \A n : Posted(n)' <=> Posted(n) BY Zenon, <1>4 DEF Posted
  <2>5. \A s \in seen' : s[1] \in 1 .. Given'
    BY Zenon, <1>3, <2>2 DEF DispatchInv
  <2>6. \A i \in 1 .. Len(tasks) : tasks[i].msg \in 1 .. Given' /\ \A s \in seen' : s[1] # tasks[i].msg
    BY Zenon, <1>3, <2>2 DEF DispatchInv
  <2>7. \A n \in 1 .. Given' : Handled(n)' \/ Posted(n)' BY Zenon, <1>3, <2>3, <2>4 DEF DispatchInv
  <2>8. \A i, j \in 1 .. Len(tasks') : i < j => tasks'[i].msg < tasks'[j].msg
    BY Zenon, <1>4 DEF DispatchInv
  <2> QED BY Zenon, <1>4, <2>5, <2>6, <2>7, <2>8 DEF DispatchInv
<1>5. CASE tasks' = Append(tasks, Task) /\ seen' = seen
  <2>1. Task.msg = read + 1 BY ModeAssumption DEF Task
  <2>2. PICK T : T = Task BY Zenon
  <2>3. T.msg = read + 1 /\ tasks' = Append(tasks, T) BY Zenon, <2>1, <2>2, <1>5
  <2>4. Len(tasks) \in Nat /\ Len(tasks') = Len(tasks) + 1 BY <1>2, <2>3
  <2>5. /\ tasks'[Len(tasks) + 1] = T
        /\ \A i \in 1 .. Len(tasks) : tasks'[i] = tasks[i]
    BY <1>2, <2>3, <2>4
  <2>6. 1 .. Len(tasks') = (1 .. Len(tasks)) \cup {Len(tasks) + 1} BY <2>4
  <2>7. \A n : Handled(n)' <=> Handled(n) BY Zenon, <1>5 DEF Handled
  <2>8. \A n : Posted(n)' <=> Posted(n) \/ n = read + 1 BY Zenon, <2>3, <2>5, <2>6 DEF Posted
  <2>9. ~Handled(read + 1) BY Zenon, <1>3 DEF Handled, DispatchInv
  <2>10. \A s \in seen' : s[1] \in 1 .. Given' BY Zenon, <1>3, <1>5 DEF DispatchInv
  <2>11. \A i \in 1 .. Len(tasks') : tasks'[i].msg \in 1 .. Given' /\ \A s \in seen' : s[1] # tasks'[i].msg
    BY Zenon, <1>3, <1>5, <2>3, <2>5, <2>6, <2>9 DEF DispatchInv, Handled
  <2>12. \A n \in 1 .. Given' : Handled(n)' \/ Posted(n)' BY Zenon, <1>3, <2>7, <2>8 DEF DispatchInv
  <2>13. ASSUME NEW i \in 1 .. Len(tasks'), NEW j \in 1 .. Len(tasks'), i < j
         PROVE  tasks'[i].msg < tasks'[j].msg
    <3>1. i \in 1 .. Len(tasks) BY <2>13, <2>4
    <3>2. tasks'[i].msg = tasks[i].msg /\ tasks[i].msg \in 1 .. Given
      BY Zenon, <3>1, <2>5 DEF DispatchInv
    <3>3. CASE j \in 1 .. Len(tasks) BY Zenon, <3>1, <3>3, <2>5, <2>13 DEF DispatchInv
    <3>4. CASE j = Len(tasks) + 1
      <4>1. tasks'[j].msg = read + 1 BY Zenon, <3>4, <2>5, <2>3
      <4> QED BY <4>1, <3>2, <1>1
    <3> QED BY Zenon, <3>3, <3>4, <2>6, <2>13
  <2> QED BY Zenon, <2>10, <2>11, <2>12, <2>13 DEF DispatchInv
<1> QED BY Zenon, <1>4, <1>5 DEF Exec

\* A pool thread takes the oldest task: its message is handled, and is no longer posted
\* because the others come after it.
LEMMA DispatchRunTask ==
  ASSUME TypeOK, TaskInv, DispatchInv, RunTask
  PROVE  DispatchInv'
<1> DEFINE Tasks == [msg : Nat, at : {"buffer", "ring", "value"}, slot : Nat, bytes : Nat]
<1>1. Given' = Given BY DEF RunTask, Given, Pending, others, ring, loop
<1>2. tasks \in Seq(Tasks) /\ tasks # << >> /\ tasks' = Tail(tasks) BY DEF TaskInv, RunTask
<1>3. /\ Head(tasks) = tasks[1] /\ Len(tasks) \in Nat \ {0} /\ Len(tasks') = Len(tasks) - 1
      /\ \A i \in 1 .. Len(tasks') : i + 1 \in 1 .. Len(tasks) /\ 1 < i + 1
    BY <1>2
<1>4. \A i \in 1 .. Len(tasks') : tasks'[i] = tasks[i + 1] BY <1>2, HeadTailProperties
<1>5. PICK h : h = tasks[1].msg BY Zenon
<1>6. seen' = seen \cup {<<h, Payload(Head(tasks))>>} BY Zenon, <1>3, <1>5 DEF RunTask
<1>7. PICK e : e = <<h, Payload(Head(tasks))>> BY Zenon
<1>8. seen' = seen \cup {e} /\ e[1] = h BY <1>6, <1>7
<1>9. \A n : Handled(n)' <=> Handled(n) \/ n = h BY Zenon, <1>8 DEF Handled
<1>10. 1 \in 1 .. Len(tasks) BY <1>3
<1>11. h \in 1 .. Given BY Zenon, <1>5, <1>10 DEF DispatchInv
<1>12. \A i \in 1 .. Len(tasks') : tasks[i + 1].msg # h
  <2> SUFFICES ASSUME NEW i \in 1 .. Len(tasks') PROVE tasks[i + 1].msg # h OBVIOUS
  <2>1. i + 1 \in 1 .. Len(tasks) /\ 1 < i + 1 BY Zenon, <1>3
  <2>2. h < tasks[i + 1].msg BY Zenon, <2>1, <1>5, <1>10 DEF DispatchInv
  <2> QED BY <2>2, <1>11
<1>13. \A s \in seen' : s[1] \in 1 .. Given' BY Zenon, <1>1, <1>8, <1>11 DEF DispatchInv
<1>14. \A i \in 1 .. Len(tasks') : tasks'[i].msg \in 1 .. Given' /\ \A s \in seen' : s[1] # tasks'[i].msg
  BY Zenon, <1>1, <1>3, <1>4, <1>8, <1>12 DEF DispatchInv
<1>15. ASSUME NEW n \in 1 .. Given' PROVE Handled(n)' \/ Posted(n)'
  <2>1. CASE Handled(n) \/ n = h BY Zenon, <2>1, <1>9
  <2>2. CASE Posted(n) /\ n # h
    <3>1. PICK i \in 1 .. Len(tasks) : tasks[i].msg = n BY Zenon, <2>2 DEF Posted
    <3>2. i # 1 BY Zenon, <3>1, <2>2, <1>5
    <3>3. i - 1 \in 1 .. Len(tasks') /\ (i - 1) + 1 = i BY <3>1, <3>2, <1>3
    <3>4. tasks'[i - 1].msg = n BY Zenon, <3>1, <3>3, <1>4
    <3> QED BY Zenon, <3>3, <3>4 DEF Posted
  <2> QED BY Zenon, <2>1, <2>2, <1>1, <1>15 DEF DispatchInv
<1>16. ASSUME NEW i \in 1 .. Len(tasks'), NEW j \in 1 .. Len(tasks'), i < j
       PROVE  tasks'[i].msg < tasks'[j].msg
  <2>1. i + 1 < j + 1 BY <1>16
  <2> QED BY Zenon, <2>1, <1>3, <1>4, <1>16 DEF DispatchInv
<1> QED BY Zenon, <1>13, <1>14, <1>15, <1>16 DEF DispatchInv

\* Every step keeps it.
LEMMA DispatchPreserved ==
  ASSUME TypeOK, TaskInv, DispatchInv, [Next]_vars
  PROVE  DispatchInv'
  BY Zenon, DispatchQuiet, GivenKept, DispatchExec, DispatchRunTask

-----------------------------------------------------------------------------
\* The state before the first run() satisfies the invariant.
LEMMA InitEstablishes == Init => RuntimeInv
<1> SUFFICES ASSUME Init PROVE RuntimeInv
  OBVIOUS
<1> USE RuntimeBounds DEF Init
<1>1. TypeOK
  <2>1. slots \in [0 .. RingSlots - 1 -> Nat] OBVIOUS
  <2>2. waiter = FALSE /\ running = FALSE /\ batch \in 0 .. MaxMsgs OBVIOUS
  <2> QED BY Zenon, <2>1, <2>2 DEF TypeOK, Returned
<1>2. WordInv /\ AcctInv /\ LateInv BY DEF WordInv, AcctInv, Pending, LateInv, Limit
<1>3. SlotInv BY DEF SlotInv
<1>4. TaskInv BY DEF TaskInv
<1>5. SeenInv BY DEF SeenInv, HandlerSeesItsMessage
<1>6. DispatchInv
  <2>1. 1 .. Given = {} /\ Len(tasks) = 0 BY DEF Given, Pending
  <2>2. 1 .. Len(tasks) = {} BY <2>1
  <2> QED BY Zenon, <2>1, <2>2 DEF DispatchInv
<1> QED BY <1>1, <1>2, <1>3, <1>4, <1>5, <1>6 DEF RuntimeInv

\* Every reachable state of the loop, the producer, the stopping thread and the
\* pool satisfies the inductive invariant.
THEOREM RuntimeInvariant == Spec => []RuntimeInv
<1>1. RuntimeInv /\ [Next]_vars => RuntimeInv'
  <2> SUFFICES ASSUME RuntimeInv, [Next]_vars PROVE RuntimeInv'
    OBVIOUS
  <2>1. TypeOK /\ WordInv /\ AcctInv /\ LateInv /\ SlotInv /\ TaskInv /\ SeenInv /\ DispatchInv BY DEF RuntimeInv
  <2>2. SlotInv' BY <2>1, SlotsPreserved
  <2>3. TypeOK' BY <2>1, <2>2, TypePreserved
  <2>4. WordInv' /\ AcctInv' /\ LateInv' BY <2>1, WordPreserved, AcctPreserved, LatePreserved
  <2>5. TaskInv' /\ SeenInv' BY <2>1, TasksPreserved, SeenPreserved
  <2>6. DispatchInv' BY <2>1, DispatchPreserved
  <2> QED BY <2>2, <2>3, <2>4, <2>5, <2>6 DEF RuntimeInv
<1> QED BY InitEstablishes, <1>1, PTL DEF Spec

\* No stop() is missed: a loop blocked on commit_seq after running_ became false
\* has a bump or a wake call on its way, whatever the producer does meanwhile.
THEOREM NoStopMissed == Spec => []StopNotMissed
<1>1. RuntimeInv => StopNotMissed BY DEF RuntimeInv, WordInv, StopNotMissed
<1> QED BY <1>1, RuntimeInvariant, PTL

\* run() with backpressure has reported every dispatched message whenever it waits
\* or has returned.
THEOREM ReportsAddUp == Spec => []BackpressureAccounts
<1>1. RuntimeInv => BackpressureAccounts
  BY DEF RuntimeInv, AcctInv, Pending, BackpressureAccounts, TypeOK
<1> QED BY <1>1, RuntimeInvariant, PTL

\* After stop() at most one message, or one batch, is still handed over.
THEOREM OverrunBounded == Spec => []StopOverrunBounded
<1>1. RuntimeInv => StopOverrunBounded BY DEF RuntimeInv, LateInv, StopOverrunBounded
<1> QED BY <1>1, RuntimeInvariant, PTL

\* With an inline executor, or with the sbo policy, every handler reads the bytes of
\* the message it is called for; with a posted task that borrows it need not.
THEOREM HandlersSeeTheirMessages == Spec => [](CopyOutlivesTask => HandlerSeesItsMessage)
<1>1. RuntimeInv => (CopyOutlivesTask => HandlerSeesItsMessage) BY DEF RuntimeInv, SeenInv
<1> QED BY <1>1, RuntimeInvariant, PTL

\* Every message that left the ring was handled or is posted to the pool, not both, and
\* tasks are posted in the order of the messages, whatever stop(), exceptions and later
\* calls of run() come between.
THEOREM MessagesHandledOnce == Spec => []HandledOnceInOrder
<1>1. RuntimeInv => HandledOnceInOrder
  <2> SUFFICES ASSUME TypeOK, DispatchInv PROVE HandledOnceInOrder BY DEF RuntimeInv
  <2>1. \A n \in 1 .. read : n \in 1 .. Given BY DEF TypeOK, Given, Pending
  <2> QED BY Zenon, <2>1 DEF DispatchInv, HandledOnceInOrder, Posted, Handled
<1> QED BY <1>1, RuntimeInvariant, PTL
================================================================================
