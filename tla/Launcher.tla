-------------------------------- MODULE Launcher --------------------------------
(***************************************************************************)
(* A parent that starts a child, shakes hands with it and follows its      *)
(* messages until it exits, over the process class of Subprocess:          *)
(*   "progress"  examples/cpp_python_handshake_progress.cpp and its        *)
(*               worker: hello and ack on two channels, then progress,     *)
(*               then done;                                                *)
(*   "monitor"   examples/handshake_launcher_demo.cpp: a shared region     *)
(*               with a flag and the child's number, then telemetry;       *)
(*   "api"       any calls on process objects.                             *)
(* The examples have a process class of their own (examples/process.hpp)   *)
(* with the same poll_exit, wait and terminate.  Channels are lists of     *)
(* messages: they deliver once and in order (ShmChannel) and are never     *)
(* full here.                                                              *)
(***************************************************************************)
EXTENDS Subprocess

CONSTANTS
  Programs,   \* the programs considered
  Child,      \* the object of Objects the two examples use
  Steps       \* messages the child sends as it works

ASSUME LauncherAssumption ==
  Programs \subseteq {"progress", "monitor", "api"} /\ Child \in Objects /\ Steps \in Nat

VARIABLES
  program,
  ppc, cpc,   \* where the parent and the child are
  direct,     \* the child is the process spawned, not one that a launcher stub started
  region,     \* handshake_region: used and b_pid
  up, down,   \* messages on their way to the parent, and to the child
  sent,       \* messages the child has sent
  handled,    \* messages the parent has handled
  result      \* what the parent's main returns

talk == <<region, up, down, sent, handled>>
vars == <<pvars, program, ppc, cpc, direct, talk, result>>

Init ==
  /\ ProcessInit
  /\ program \in Programs
  /\ ppc = IF program = "api" THEN "api" ELSE "spawn"
  /\ cpc = "none" /\ direct \in IF program = "progress" THEN BOOLEAN ELSE {TRUE}
  /\ region = [used |-> 0, b_pid |-> 0]
  /\ up = << >> /\ down = << >> /\ sent = << >> /\ handled = << >>
  /\ result = "none"

-----------------------------------------------------------------------------
(* The child                                                               *)

ChildRuns == \E s \in Serials : Started(s) /\ code[s] = Alive
current_pid == CHOOSE p \in Pids : owner[p] > 0

SendUp(m) == up' = Append(up, m) /\ sent' = Append(sent, m)

\* The worker attaches to both channels and says hello, with the number of its own process.
Hello ==
  /\ program = "progress" /\ ChildRuns /\ cpc = "none"
  /\ SendUp(IF direct THEN "hello" ELSE "stranger")
  /\ cpc' = "ack"
  /\ UNCHANGED <<pvars, program, ppc, direct, region, down, handled, result>>

\* wait_for_ack: the ack, or an error message when the deadline passes.
GetAck ==
  /\ program = "progress" /\ ChildRuns /\ cpc = "ack"
  /\ \/ down # << >> /\ down' = Tail(down) /\ cpc' = "work" /\ UNCHANGED <<up, sent>>
     \/ SendUp("error") /\ cpc' = "failed" /\ UNCHANGED down
  /\ UNCHANGED <<pvars, program, ppc, direct, region, handled, result>>

\* fused_child_main: the region is valid, unused and has the token; b_pid, then used.
Report ==
  /\ program = "monitor" /\ ChildRuns
  /\ \/ /\ cpc = "none" /\ region.used = 0
        /\ region' = [region EXCEPT !.b_pid = current_pid]
        /\ cpc' = "pid"
     \/ cpc = "pid" /\ region' = [region EXCEPT !.used = 1] /\ cpc' = "work"
  /\ UNCHANGED <<pvars, program, ppc, direct, up, down, sent, handled, result>>

\* run_workflow, run_child_data_writer: the messages, and for the worker "done" at the end.
Worked == Len(SelectSeq(sent, LAMBDA m : m = "step"))
Work ==
  /\ ChildRuns /\ cpc = "work"
  /\ \/ Worked < Steps /\ SendUp("step") /\ UNCHANGED cpc
     \/ Worked = Steps /\ program = "progress" /\ SendUp("done") /\ cpc' = "worked"
     \/ Worked = Steps /\ program = "monitor" /\ cpc' = "worked" /\ UNCHANGED <<up, sent>>
  /\ UNCHANGED <<pvars, program, ppc, direct, region, down, handled, result>>

\* main returns 0, or the exception leaves it.
Return ==
  /\ program # "api" /\ cpc \in {"worked", "failed"}
  /\ \E s \in Serials : ChildExits(s, IF cpc = "worked" THEN 0 ELSE 1)
  /\ UNCHANGED <<program, ppc, cpc, direct, talk, result>>

\* It fails anywhere else without a message: no module, no channel, killed.
Crash ==
  /\ program # "api"
  /\ \E s \in Serials : ChildExits(s, 1)
  /\ UNCHANGED <<program, ppc, cpc, direct, talk, result>>

-----------------------------------------------------------------------------
(* The parent                                                              *)

At(where, next) == program # "api" /\ ppc = where /\ ppc' = next
Quiet == UNCHANGED <<program, cpc, direct, result>>

\* process::spawn without redirected streams; it throws if there is no child.
Launch ==
  /\ At("spawn", "spawning") /\ Spawn(Child, {}, FALSE)
  /\ Quiet /\ UNCHANGED talk

Launched ==
  /\ At("spawning", IF obj[Child].pid = 0 THEN "failing"
                     ELSE IF program = "progress" THEN "hello" ELSE "region")
  /\ Idle
  /\ Quiet /\ UNCHANGED <<pvars, talk>>

\* validate_hello: the type, the session, and the number of the child that was spawned.
validate_hello(m) == m = "hello"

\* wait_for_hello: take a message, and throw if it is not a hello of this child; look
\* whether the child is gone only when there is none.
WaitHello ==
  /\ \/ up # << >> /\ At("hello", IF validate_hello(Head(up)) THEN "ack" ELSE "failing") /\ up' = Tail(up)
     \/ up = << >> /\ At("hello", "hello_exit") /\ UNCHANGED up
  /\ handled' = handled \o SubSeq(up, 1, Len(up) - Len(up'))
  /\ Quiet /\ UNCHANGED <<pvars, region, down, sent>>

\* Fault: the demo waits for the flag for ever.
TimeoutHelloOnly ==
  /\ At("hello", "failing")
  /\ Quiet /\ UNCHANGED <<pvars, talk>>

\* A deadline passes: kHandshakeTimeout, kParentTimeout.
Timeout ==
  /\ At("hello", "failing") \/ At("region", "failing")
  /\ Quiet /\ UNCHANGED <<pvars, talk>>

\* child.poll_exit() at this place.
ExitAt(where, gone, still) ==
  /\ \/ At(where, gone) /\ poll_exit(Child)
     \/ At(where, still) /\ Running(obj[Child]) /\ UNCHANGED pvars
  /\ Quiet /\ UNCHANGED talk

WaitHelloExit == ExitAt("hello_exit", "failing", "hello")

SendAck ==
  /\ At("ack", "consume") /\ down' = Append(down, "ack")
  /\ Quiet /\ UNCHANGED <<pvars, region, up, sent, handled>>

\* poll_message and handle_upstream_message, until there is no message.
Drain(where, next) ==
  /\ \/ up # << >> /\ At(where, where) /\ up' = Tail(up) /\ handled' = Append(handled, Head(up))
     \/ up = << >> /\ At(where, next) /\ UNCHANGED <<up, handled>>
  /\ Quiet /\ UNCHANGED <<pvars, region, down, sent>>

Consume == Drain("consume", "consume_exit")

\* Fault: the messages of the child's last moments are not looked at.
ConsumeExitStops == ExitAt("consume_exit", "wait", "consume")

ConsumeExit == ExitAt("consume_exit", "drain", "consume")
ConsumeRest == Drain("drain", "wait")

\* main of the launcher demo: the flag is up, and the number is that of the child.
WaitRegion ==
  /\ region.used = 1
  /\ At("region", IF region.b_pid = obj[Child].pid THEN "monitor" ELSE "failing")
  /\ Quiet /\ UNCHANGED <<pvars, talk>>

\* parent_consume_until_child_done: one message a round, and none after the exit.
Monitor ==
  /\ At("monitor", "monitor_exit")
  /\ IF up = << >> THEN UNCHANGED <<up, handled>>
     ELSE up' = Tail(up) /\ handled' = Append(handled, Head(up))
  /\ Quiet /\ UNCHANGED <<pvars, region, down, sent>>

MonitorExit == ExitAt("monitor_exit", "wait", "monitor")

\* child.wait() on a child known to be gone, and what main makes of it.
Saw(m) == \E i \in 1 .. Len(handled) : handled[i] = m
Conclude ==
  /\ At("wait", "ended")
  /\ result' = IF ExitCode(obj[Child]) # 0 \/ (program = "progress" /\ (Saw("error") \/ ~Saw("done")))
               THEN "failure" ELSE "success"
  /\ UNCHANGED <<pvars, program, cpc, direct, talk>>

\* catch (...): child.terminate(); likewise in the demo when the handshake fails.
Fail ==
  /\ At("failing", "ended") /\ result' = "failure"
  /\ IF Unfinished(obj[Child]) THEN terminate(Child) ELSE UNCHANGED pvars
  /\ UNCHANGED <<program, cpc, direct, talk>>

-----------------------------------------------------------------------------
ChildStep == Hello \/ GetAck \/ Report \/ Work \/ Return

ParentStep ==
  \/ program # "api" /\ SpawnSteps /\ UNCHANGED <<ppc, talk>> /\ Quiet
  \/ Launch \/ Launched \/ WaitHello \/ WaitHelloExit \/ SendAck
  \/ Consume \/ ConsumeExit \/ ConsumeRest
  \/ WaitRegion \/ Monitor \/ MonitorExit \/ Conclude \/ Fail

Next ==
  \/ ParentStep \/ Timeout \/ ChildStep \/ Crash
  \/ program = "api" /\ ProcessNext /\ UNCHANGED <<program, ppc, cpc, direct, talk, result>>

\* The parent runs and its deadlines pass; the child, which has deadlines too, does not stop.
Spec == Init /\ [][Next]_vars
FairSpec == Spec /\ WF_vars(ParentStep) /\ SF_vars(Timeout) /\ WF_vars(ChildStep)

-----------------------------------------------------------------------------
(* Properties                                                              *)

\* The parent reports success only for a child that exited with 0.  The progress demo
\* reports it for every such child, having handled each message it sent, those of its
\* last moments included.  The handshake of the launcher demo never fails on the number
\* of a child that has raised its flag.
ResultTrue ==
  /\ result = "success" => code[obj[Child].serial] = 0
  /\ program = "progress" /\ result # "none" /\ obj[Child].pid # 0 /\ code[obj[Child].serial] = 0 =>
       result = "success" /\ handled = sent
  /\ ppc = "region" /\ region.used = 1 => region.b_pid = obj[Child].pid

\* The parent ends, and leaves no child behind unless a signal cut its wait short.
LaunchEnds ==
  program # "api" => <>[](ppc = "ended" /\ (interrupted \/ ~ChildRuns))
================================================================================
