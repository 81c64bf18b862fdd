------------------------------- MODULE Subprocess -------------------------------
(***************************************************************************)
(* xproc::platform::process (include/xproc/platform/subprocess.hpp and its *)
(* POSIX and Windows sources): spawn with redirected streams, poll_exit,   *)
(* wait, terminate, send_signal, moves and reset, against a system that    *)
(* gives the number of a process that is gone to another one.              *)
(*                                                                         *)
(* A child is a serial number; code[s] is its exit code, Alive or          *)
(* Signalled.  owner[p] is the process that has number p: a serial, 0 for  *)
(* none, -1 for one that has nothing to do with us.  A POSIX number is     *)
(* free once the child is reaped, a Windows one once it is gone and its    *)
(* handle is closed.  A handle is named after what it was opened for; one  *)
(* that is closed again may by then have been given out anew.              *)
(***************************************************************************)
EXTENDS Integers, Sequences, FiniteSets

CONSTANTS
  Platforms,   \* builds considered: "posix", "win32"
  Objects,     \* process objects of the parent
  Pids,        \* process numbers of the system, positive
  Streams,     \* standard streams that may be redirected
  Codes,       \* exit codes
  MaxSpawns    \* bound: children started

ASSUME SubprocessAssumption ==
  /\ Platforms \subseteq {"posix", "win32"}
  /\ Pids \subseteq Nat \ {0} /\ Codes \subseteq Nat /\ {0, 1} \subseteq Codes /\ MaxSpawns \in Nat
  /\ "process" \notin Streams /\ "none" \notin Objects

Serials == 1 .. MaxSpawns
Alive == -1
Signalled == -2

VARIABLES
  platform,
  owner,       \* who has each number
  code,        \* how each child ended
  obj,         \* the process objects
  open,        \* handles of the parent: pipe ends, "null", and hProcess
  job,         \* the spawn under way
  spawned,     \* children started so far
  interrupted, \* a blocking waitpid was interrupted by a signal (history)
  misclosed,   \* handles closed that were not open (history)
  struck       \* handles that such a close hit instead (history)

processes == <<owner, code, spawned>>
pvars == <<platform, processes, obj, open, job, interrupted, misclosed, struck>>

\* A default-constructed process; serial is the child it stands for, and thread is
\* whether hThread is set.
NoProcess == [pid |-> 0, serial |-> 0, finished |-> FALSE, thread |-> FALSE,
              status |-> IF platform = "posix" THEN 0 ELSE 1, pipes |-> {}]

NoJob == [into |-> "none", todo |-> {}, pipes |-> {}, null |-> FALSE, child |-> NoProcess]

ProcessInit ==
  /\ platform \in Platforms
  /\ owner = [p \in Pids |-> 0] /\ code = [s \in Serials |-> Alive] /\ spawned = 0
  /\ obj = [o \in Objects |-> NoProcess]
  /\ open = {} /\ job = NoJob
  /\ interrupted = FALSE /\ misclosed = {} /\ struck = {}

-----------------------------------------------------------------------------
(* The system                                                              *)

Started(s) == s <= spawned /\ \E p \in Pids : owner[p] = s

\* Windows frees the numbers of the children that are gone and have no handle.
hProcess(s) == <<s, "process", "parent">>
Released ==
  owner' = [p \in Pids |-> IF owner[p] > 0 /\ code'[owner[p]] # Alive /\ hProcess(owner[p]) \notin open'
                           THEN 0 ELSE owner[p]]

\* A child ends by itself, exec or chdir having failed included.
ChildExits(s, c) ==
  /\ Started(s) /\ code[s] = Alive
  /\ code' = [code EXCEPT ![s] = c]
  /\ UNCHANGED <<platform, spawned, obj, open, job, interrupted, misclosed, struck>>
  /\ IF platform = "posix" THEN UNCHANGED owner ELSE Released

\* Processes of others take free numbers and give them back.
Foreign(p) ==
  /\ owner[p] \in {0, -1}
  /\ owner' = [owner EXCEPT ![p] = -1 - @]
  /\ UNCHANGED <<platform, code, spawned, obj, open, job, interrupted, misclosed, struck>>

-----------------------------------------------------------------------------
(* spawn                                                                   *)

Idle == job = NoJob
Next1 == spawned + 1

\* The handles of a spawn: both ends of each pipe, and the null device.
Ends(S, sides) == {<<Next1, s, side>> : s \in S, side \in sides}
Sides == {"child", "parent"}
Null == {<<Next1, "null", "child">>}

\* spawn(argv, opts); the result goes to `o'.
Spawn(o, pipes, null) ==
  /\ Idle /\ spawned < MaxSpawns
  /\ job' = [into |-> o, todo |-> pipes, pipes |-> pipes, null |-> null, child |-> NoProcess]
  /\ UNCHANGED <<platform, processes, obj, open, interrupted, misclosed, struck>>

\* Fault: a failure leaves the pipes made before it.
CleanupNothing == job' = NoJob /\ UNCHANGED open

\* cleanup_pipes: closes whatever this spawn has opened, and throws.
Cleanup ==
  /\ open' = {h \in open : h[1] # Next1}
  /\ job' = NoJob

\* pipe() for each stream asked for, in order.
MakePipe ==
  /\ job.todo # {}
  /\ \/ \E s \in job.todo :
          /\ open' = open \cup Ends({s}, Sides)
          /\ job' = [job EXCEPT !.todo = @ \ {s}]
     \/ Cleanup
  /\ UNCHANGED <<platform, processes, obj, interrupted, misclosed, struck>>

OpenNull ==
  /\ ~Idle /\ job.todo = {} /\ job.null
  /\ \/ open' = open \cup Null /\ job' = [job EXCEPT !.null = FALSE]
     \/ Cleanup
  /\ UNCHANGED <<platform, processes, obj, interrupted, misclosed, struck>>

\* Everything is ready.
Ready == ~Idle /\ job.todo = {} /\ ~job.null /\ job.child = NoProcess

\* The child runs as number p, and the new object x stands for it.
Starts(p, x) ==
  /\ owner[p] = 0
  /\ owner' = [owner EXCEPT ![p] = Next1]
  /\ spawned' = Next1
  /\ job' = [job EXCEPT !.child = x]

NewProcess(p) == [NoProcess EXCEPT !.pid = p, !.serial = Next1, !.pipes = job.pipes]

\* fork.  The parent closes the ends of the child and the null device.
Fork ==
  /\ platform = "posix" /\ Ready
  /\ \/ /\ \E p \in Pids : Starts(p, NewProcess(p))
        /\ open' = open \ (Ends(job.pipes, {"child"}) \cup Null)
     \/ Cleanup /\ UNCHANGED <<owner, spawned>>
  /\ UNCHANGED <<platform, code, obj, interrupted, misclosed, struck>>

\* CreateProcess.  hThread is closed here, but the object has a copy of it.
CreateProcess ==
  /\ platform = "win32" /\ Ready
  /\ \/ /\ \E p \in Pids : Starts(p, [NewProcess(p) EXCEPT !.thread = TRUE])
        /\ open' = (open \ (Ends(job.pipes, {"child"}) \cup Null)) \cup {<<Next1, "process", "parent">>}
     \/ Cleanup /\ UNCHANGED <<owner, spawned>>
  /\ UNCHANGED <<platform, code, obj, interrupted, misclosed, struck>>

-----------------------------------------------------------------------------
(* poll_exit, wait, terminate, send_signal                                 *)

\* valid() and not finished().
Unfinished(x) == x.pid # 0 /\ ~x.finished
Running(x) == code[x.serial] = Alive
Free(p) == owner' = [owner EXCEPT ![p] = 0]

\* The calls on hProcess work: it has not been closed under the object.
Usable(x) == platform = "win32" => hProcess(x.serial) \in open

\* Fault: the exit is reported but not remembered.
CollectForgets(o) ==
  /\ obj' = [obj EXCEPT ![o].status = code'[obj[o].serial]]
  /\ IF platform = "posix" THEN Free(obj[o].pid) ELSE UNCHANGED owner
  /\ UNCHANGED interrupted

\* waitpid returns the child, or the handle is signalled: finished_ and the status.
Collect(o) ==
  /\ obj' = [obj EXCEPT ![o].finished = TRUE, ![o].status = code'[obj[o].serial]]
  /\ IF platform = "posix" THEN Free(obj[o].pid) ELSE UNCHANGED owner
  /\ UNCHANGED interrupted

\* A blocking waitpid fails with EINTR, or the wait for a handle that is not open fails;
\* nobody looks at the result.
Interrupt(o) ==
  /\ \/ platform = "posix" /\ interrupted' = TRUE
     \/ ~Usable(obj[o]) /\ UNCHANGED interrupted
  /\ obj' = [obj EXCEPT ![o].finished = TRUE]
  /\ UNCHANGED owner

\* poll_exit(): only the call that finds the child gone changes anything.
poll_exit(o) ==
  /\ Idle /\ Unfinished(obj[o]) /\ ~Running(obj[o]) /\ Usable(obj[o])
  /\ UNCHANGED code
  /\ Collect(o)
  /\ UNCHANGED <<platform, spawned, open, job, misclosed, struck>>

\* wait() blocks until the child is gone.
wait(o) ==
  /\ Idle /\ Unfinished(obj[o])
  /\ UNCHANGED code
  /\ \/ ~Running(obj[o]) /\ Usable(obj[o]) /\ Collect(o)
     \/ (Running(obj[o]) \/ ~Usable(obj[o])) /\ Interrupt(o)
  /\ UNCHANGED <<platform, spawned, open, job, misclosed, struck>>

\* What wait() returns for a status.
ExitCode(x) == IF x.pid = 0 \/ x.status = Signalled THEN 1 ELSE x.status

\* SIGKILL, or TerminateProcess(.., 1), unless it is gone already.
Dies(x) == code' = [code EXCEPT ![x.serial] = IF platform = "posix" THEN Signalled ELSE 1]
Kill(x) == IF Running(x) /\ Usable(x) THEN Dies(x) ELSE UNCHANGED code

\* terminate(): poll_exit, kill, and a blocking wait.
terminate(o) ==
  /\ Idle /\ Unfinished(obj[o])
  /\ Kill(obj[o])
  /\ \/ Usable(obj[o]) /\ Collect(o)
     \/ (Running(obj[o]) \/ ~Usable(obj[o])) /\ Interrupt(o)
  /\ UNCHANGED <<platform, spawned, open, job, misclosed, struck>>

\* send_signal(): the child may die of it.  Windows has only the console event, which
\* goes by the number, and terminates for any other signal.
send_signal(o) ==
  \/ /\ Idle /\ Unfinished(obj[o]) /\ Running(obj[o])
     /\ Dies(obj[o])
     /\ UNCHANGED <<platform, spawned, obj, open, job, interrupted, misclosed, struck>>
     /\ IF platform = "posix" THEN UNCHANGED owner ELSE Released
  \/ platform = "win32" /\ terminate(o)

-----------------------------------------------------------------------------
(* Moves and destruction                                                   *)

\* The handles an object closes: its pipes, and on Windows hThread and hProcess.
Held(x) ==
  {<<x.serial, s, "parent">> : s \in x.pipes}
    \cup (IF platform = "win32" /\ x.pid # 0 THEN {hProcess(x.serial)} ELSE {})
Closes(x) == Held(x) \cup (IF x.thread THEN {<<x.serial, "thread", "parent">>} ELSE {})

\* CloseHandle for each handle of H, all of child s.  One that is not open any more may by
\* now be the name of one opened later, which is closed in its place.
Nothing == <<0, "nothing", "parent">>
Close(H, s) ==
  /\ \E hit \in [H \ open -> {h \in open : h[1] > s} \cup {Nothing}] :
       LET S == {hit[h] : h \in H \ open} \ {Nothing}
       IN  open' = open \ (H \cup S) /\ struck' = struck \cup S
  /\ misclosed' = misclosed \cup (H \ open)

\* reset(): terminates the child if it is not finished, and closes every handle.
Reset(x) ==
  /\ IF Unfinished(x) THEN Kill(x) ELSE UNCHANGED code
  /\ Close(Closes(x), x.serial)
  /\ \/ platform = "win32" /\ Released /\ UNCHANGED interrupted
     \/ platform = "posix" /\ Unfinished(x) /\ Free(x.pid) /\ UNCHANGED interrupted
     \/ platform = "posix" /\ Unfinished(x) /\ interrupted' = TRUE /\ UNCHANGED owner
     \/ platform = "posix" /\ ~Unfinished(x) /\ UNCHANGED <<owner, interrupted>>

\* The result of spawn is moved into the object, which lets go of what it had.
Assign ==
  /\ job.child # NoProcess
  /\ Reset(obj[job.into])
  /\ obj' = [obj EXCEPT ![job.into] = job.child]
  /\ job' = NoJob
  /\ UNCHANGED <<platform, spawned>>

\* operator=(process&&) between two objects.
Move(o, from) ==
  /\ Idle /\ o # from /\ obj[from] # NoProcess
  /\ Reset(obj[o])
  /\ obj' = [obj EXCEPT ![o] = obj[from], ![from] = NoProcess]
  /\ UNCHANGED <<platform, spawned, job>>

\* ~process.
Destroy(o) ==
  /\ Idle /\ obj[o] # NoProcess
  /\ Reset(obj[o])
  /\ obj' = [obj EXCEPT ![o] = NoProcess]
  /\ UNCHANGED <<platform, spawned, job>>

\* pipe_handle::close on one of its streams.
ClosePipe(o, s) ==
  /\ Idle /\ s \in obj[o].pipes
  /\ obj' = [obj EXCEPT ![o].pipes = @ \ {s}]
  /\ Close({<<obj[o].serial, s, "parent">>}, obj[o].serial)
  /\ UNCHANGED <<platform, code, spawned, job, interrupted>>
  /\ IF platform = "posix" THEN UNCHANGED owner ELSE Released

-----------------------------------------------------------------------------
System ==
  \/ \E s \in Serials, c \in Codes : ChildExits(s, c)
  \/ \E p \in Pids : Foreign(p)

SpawnSteps == MakePipe \/ OpenNull \/ Fork \/ CreateProcess \/ Assign

Calls ==
  \E o \in Objects :
    \/ \E pipes \in SUBSET Streams, null \in BOOLEAN : Spawn(o, pipes, null)
    \/ poll_exit(o) \/ wait(o) \/ terminate(o) \/ send_signal(o) \/ Destroy(o)
    \/ \E from \in Objects : Move(o, from)
    \/ \E s \in Streams : ClosePipe(o, s)

ProcessNext == System \/ SpawnSteps \/ Calls

-----------------------------------------------------------------------------
(* Properties                                                              *)

\* The close of hThread in reset() has hit the hProcess of child s.
Lost(s) == hProcess(s) \in struck

\* Every number an object may still signal or wait for is that of its own child and
\* of no other process.  Unless a signal cut a waitpid short, every child that has not
\* been reaped belongs to an object that will do so, and the exit code a finished
\* object reports is the one its child ended with: never 0 for one that failed.  All
\* this holds for the children whose hProcess was not closed in place of an hThread.
ChildrenAccounted ==
  /\ \A o \in Objects : Unfinished(obj[o]) /\ ~Lost(obj[o].serial) => owner[obj[o].pid] = obj[o].serial
  /\ interrupted \/
       /\ \A p \in Pids :
            owner[p] > 0 /\ ~Lost(owner[p]) => \E x \in {obj[o] : o \in Objects} \cup {job.child} :
                              x.serial = owner[p] /\ x.pid = p
       /\ \A o \in Objects : obj[o].finished /\ ~Lost(obj[o].serial) =>
            ExitCode(obj[o]) = IF code[obj[o].serial] = Signalled THEN 1 ELSE code[obj[o].serial]

\* Between spawns the parent has open exactly the handles its objects hold, and no handle
\* has two holders.  On POSIX none is closed that is not open.  On Windows reset() closes
\* hThread a second time (subprocess_win32.cpp:215, 289), which may hit the handle of a
\* later child: those handles, and no others, are held but not open, and are themselves
\* closed again.
HandlesOwned ==
  /\ Idle => open = (UNION {Held(obj[o]) : o \in Objects}) \ struck
  /\ \A o, q \in Objects : o # q => Held(obj[o]) \cap Held(obj[q]) = {}
  /\ \A h \in misclosed : h[2] = "thread" \/ h \in struck
  /\ platform = "posix" => misclosed = {} /\ struck = {}
================================================================================
