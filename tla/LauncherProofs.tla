------------------------------ MODULE LauncherProofs ------------------------------
(***************************************************************************)
(* Proofs about Subprocess and Launcher: whatever is called on process     *)
(* objects and however the children end, every child is accounted for and  *)
(* every handle has one holder; and the two examples report what their     *)
(* child did.                                                              *)
(*                                                                         *)
(* ProcInv is the inductive invariant of the process class.  Every step of *)
(* the examples is a step of the class as far as the processes are         *)
(* concerned, so it holds there too, and LaunchInv adds what the examples  *)
(* know about their one child and its messages.                            *)
(***************************************************************************)
EXTENDS Launcher, TLAPS

-----------------------------------------------------------------------------
(* The inductive invariant of the process class                            *)

Procs == [pid : Pids \cup {0}, serial : Serials \cup {0}, finished : BOOLEAN, thread : BOOLEAN,
          status : Codes \cup {Alive, Signalled}, pipes : SUBSET Streams]

\* A record that is empty or stands for a child.
Proc(x) ==
  /\ x \in Procs
  /\ x.serial = 0 <=> x.pid = 0
  /\ x.serial = 0 => x = NoProcess
  /\ platform = "posix" => ~x.thread

\* Unless its hProcess was closed under it, the number of x is its child's as long as x
\* may use it, and what x says of the exit is how the child ended.  own, cd, cut and str
\* are owner, code, interrupted and struck.
Stands(x, own, cd, cut, str) ==
  /\ Proc(x)
  /\ hProcess(x.serial) \notin str =>
       /\ Unfinished(x) \/ (platform = "win32" /\ x.pid # 0) => own[x.pid] = x.serial
       /\ ~cut /\ x.finished =>
            /\ x.status = cd[x.serial] /\ cd[x.serial] # Alive
            /\ platform = "posix" => \A p \in Pids : own[p] # x.serial

\* Types, and no child has two numbers.
SystemInv ==
  /\ platform \in {"posix", "win32"} /\ spawned \in 0 .. MaxSpawns
  /\ interrupted \in BOOLEAN /\ (platform = "win32" => interrupted = FALSE)
  /\ owner \in [Pids -> -1 .. spawned]
  /\ code \in [Serials -> Codes \cup {Alive, Signalled}]
  /\ \A p, q \in Pids : owner[p] > 0 /\ owner[p] = owner[q] => p = q

\* A spawn under way.
Jobs == [into : Objects, todo : SUBSET Streams, pipes : SUBSET Streams, null : BOOLEAN, child : Procs]
JobInv ==
  job # NoJob =>
    /\ job \in Jobs /\ job.todo \subseteq job.pipes
    /\ job.child = NoProcess => spawned < MaxSpawns
    /\ job.child # NoProcess =>
         job.todo = {} /\ ~job.null /\ job.child.serial = spawned /\ job.child.pid # 0 /\ ~job.child.finished

\* Every record stands for its child, and no child has two records.
ObjectsInv ==
  /\ obj \in [Objects -> Procs]
  /\ \A o \in Objects : Stands(obj[o], owner, code, interrupted, struck) /\ obj[o].serial <= spawned
  /\ Stands(job.child, owner, code, interrupted, struck) /\ job.child.serial <= spawned
  /\ \A o, q \in Objects : o # q /\ obj[o].serial = obj[q].serial => obj[o].serial = 0
  /\ \A o \in Objects : obj[o].serial = job.child.serial => obj[o].serial = 0

\* Every child that has a number has a record, unless its hProcess was closed early.
Kept(p, s) ==
  \/ \E o \in Objects : obj[o].serial = s /\ obj[o].pid = p
  \/ job.child.serial = s /\ job.child.pid = p
ReapInv == ~interrupted => \A p \in Pids : owner[p] > 0 /\ ~Lost(owner[p]) => Kept(p, owner[p])

\* The handles of the objects and of the spawn, and nothing else, are open, but for those
\* that were closed in place of an hThread on Windows.
JobHolds == IF job.child # NoProcess THEN Held(job.child)
            ELSE IF Idle THEN {} ELSE Ends(job.pipes \ job.todo, Sides)
HasHolder(h) == (\E o \in Objects : h \in Held(obj[o])) \/ h \in JobHolds
\* What was struck was a handle of a child that had been started.
StruckInv ==
  /\ \A h \in misclosed : h[2] = "thread" \/ h \in struck
  /\ platform = "posix" => misclosed = {} /\ struck = {}
  /\ \A h \in struck : h[1] \in 0 .. spawned

NullHeld == IF Idle \/ job.child # NoProcess THEN {} ELSE Null
OpenInv ==
  /\ \A h : HasHolder(h) /\ h \notin struck => h \in open
  /\ \A h \in open : (HasHolder(h) \/ h \in NullHeld) /\ h \notin struck
  /\ StruckInv

ProcInv == SystemInv /\ JobInv /\ ObjectsInv /\ ReapInv /\ OpenInv

-----------------------------------------------------------------------------
(* Records                                                                 *)

\* The empty record stands for no child and holds nothing.
LEMMA NoProcessFacts ==
  ASSUME platform \in {"posix", "win32"}
  PROVE  /\ NoProcess \in Procs /\ NoProcess.pid = 0 /\ NoProcess.serial = 0
         /\ NoProcess.finished = FALSE /\ NoProcess.thread = FALSE /\ NoProcess.pipes = {}
         /\ Proc(NoProcess) /\ NoJob.child = NoProcess
         /\ Held(NoProcess) = {} /\ Closes(NoProcess) = {}
<1>1. 0 \in Codes /\ 1 \in Codes
  BY Zenon, SubprocessAssumption
<1>2. /\ NoProcess.pid = 0 /\ NoProcess.serial = 0
      /\ NoProcess.finished = FALSE /\ NoProcess.thread = FALSE /\ NoProcess.pipes = {}
  BY Zenon DEF NoProcess
<1>3. NoProcess \in Procs
  BY Zenon, <1>1 DEF NoProcess, Procs
<1>4. Held(NoProcess) = {} /\ Closes(NoProcess) = {}
  BY Zenon, <1>2 DEF Held, Closes
<1> QED
  BY Zenon, <1>2, <1>3, <1>4 DEF Proc, NoJob

\* A fresh system stands for an empty record.
LEMMA NoProcessStands ==
  ASSUME platform \in {"posix", "win32"}, NEW own, NEW cd, NEW cut, NEW str
  PROVE  Stands(NoProcess, own, cd, cut, str)
BY Zenon, NoProcessFacts DEF Stands, Unfinished

\* What a record says stays true when the numbers of its child stay and an exit code,
\* once there, stays.
LEMMA StandsKept ==
  ASSUME NEW x, NEW own, NEW own2, NEW cd, NEW cd2, NEW cut, NEW cut2, NEW str, NEW str2,
         Stands(x, own, cd, cut, str), cut => cut2, str \subseteq str2, platform \in {"posix", "win32"},
         x.serial # 0 /\ hProcess(x.serial) \notin str2 =>
           \A p \in Pids : own2[p] = x.serial <=> own[p] = x.serial,
         \A s \in Serials : cd[s] # Alive => cd2[s] = cd[s]
  PROVE  Stands(x, own2, cd2, cut2, str2)
<1>1. Proc(x)
  BY Zenon DEF Stands
<1>2. x \in Procs
  BY Zenon, <1>1 DEF Proc
<1>3. x.pid \in Pids \cup {0} /\ x.serial \in Serials \cup {0} /\ x.finished \in BOOLEAN
  BY Zenon, <1>2 DEF Procs
<1>4. CASE x.serial = 0
  <2>1. x = NoProcess
    BY Zenon, <1>1, <1>4 DEF Proc
  <2> QED
    BY Zenon, <2>1, NoProcessStands
<1>5. CASE hProcess(x.serial) \in str2
  BY Zenon, <1>1, <1>5 DEF Stands
<1>6. CASE x.serial # 0 /\ hProcess(x.serial) \notin str2
  <2>1. x.pid \in Pids /\ x.serial \in Serials /\ hProcess(x.serial) \notin str
    BY Zenon, <1>1, <1>3, <1>6 DEF Proc
  <2>2. Unfinished(x) \/ (platform = "win32" /\ x.pid # 0) => own2[x.pid] = x.serial
    BY Zenon, <1>6, <2>1 DEF Stands
  <2>3. ~cut2 /\ x.finished => x.status = cd2[x.serial] /\ cd2[x.serial] # Alive
    BY Zenon, <2>1 DEF Stands
  <2>4. ~cut2 /\ x.finished /\ platform = "posix" => \A p \in Pids : own2[p] # x.serial
    BY Zenon, <1>6, <2>1 DEF Stands
  <2> QED
    BY Zenon, <1>1, <2>2, <2>3, <2>4 DEF Stands
<1> QED
  BY Zenon, <1>4, <1>5, <1>6

\* The handles of a record carry its serial.
LEMMA HeldSerial ==
  ASSUME NEW x, NEW h
  PROVE  /\ h \in Closes(x) => h[1] = x.serial
         /\ h \in Held(x) => h[1] = x.serial /\ h \in Closes(x)
         /\ h \in Closes(x) /\ h \notin Held(x) => h[2] = "thread"
BY DEF Held, Closes, hProcess

\* Two records of different children hold different handles.
LEMMA HeldApart ==
  ASSUME NEW x, NEW y, Proc(x), Proc(y), x.serial = y.serial => x.serial = 0,
         NEW h \in Held(x), platform \in {"posix", "win32"}
  PROVE  h \notin Closes(y)
<1>1. h[1] = x.serial
  BY Zenon, HeldSerial
<1>2. ASSUME h \in Closes(y) PROVE FALSE
  <2>1. h[1] = y.serial
    BY Zenon, <1>2, HeldSerial
  <2>2. y = NoProcess
    BY Zenon, <1>1, <2>1 DEF Proc
  <2> QED
    BY Zenon, <1>2, <2>2, NoProcessFacts
<1> QED
  BY Zenon, <1>2

-----------------------------------------------------------------------------
(* Steps of the system                                                     *)

\* An exit code, an interruption and a handle lost, once there, stay.
Lasting ==
  /\ platform' = platform /\ struck \subseteq struck'
  /\ interrupted' \in BOOLEAN /\ (interrupted => interrupted') /\ (platform = "win32" => interrupted' = FALSE)
  /\ code' \in [Serials -> Codes \cup {Alive, Signalled}]
  /\ \A s \in Serials : code[s] # Alive => code'[s] = code[s]

\* No child but d and those whose handle is lost loses its number, and none gets one.
OnlyFrees(d) ==
  /\ owner' \in [Pids -> -1 .. spawned]
  /\ \A p \in Pids : \/ owner'[p] = owner[p]
                     \/ owner'[p] <= 0 /\ owner[p] <= 0
                     \/ owner'[p] = 0 /\ owner[p] = d
                     \/ owner'[p] = 0 /\ hProcess(owner[p]) \in struck'

\* The parts of ProcInv about one object, in the form the steps use.
LEMMA ObjectFacts ==
  ASSUME ProcInv, NEW o \in Objects
  PROVE  /\ obj[o] \in Procs /\ Proc(obj[o]) /\ Stands(obj[o], owner, code, interrupted, struck)
         /\ obj[o].pid \in Pids \cup {0} /\ obj[o].serial \in Serials \cup {0}
         /\ obj[o].finished \in BOOLEAN /\ obj[o].thread \in BOOLEAN /\ obj[o].pipes \in SUBSET Streams
         /\ obj[o].serial <= spawned
<1>1. Stands(obj[o], owner, code, interrupted, struck) /\ obj[o].serial <= spawned
  BY Zenon DEF ProcInv, ObjectsInv
<1>2. obj[o] \in Procs /\ Proc(obj[o])
  BY Zenon, <1>1 DEF Stands, Proc
<1> QED
  BY Zenon, <1>1, <1>2 DEF Procs

\* The record that a spawn under way is making has its types and stands for its child.
LEMMA JobFacts ==
  ASSUME ProcInv
  PROVE  /\ job.child \in Procs /\ Proc(job.child) /\ Stands(job.child, owner, code, interrupted, struck)
         /\ job.child.pid \in Pids \cup {0} /\ job.child.serial \in Serials \cup {0}
         /\ job.child.serial <= spawned /\ platform \in {"posix", "win32"}
<1>1. Stands(job.child, owner, code, interrupted, struck) /\ job.child.serial <= spawned
      /\ platform \in {"posix", "win32"}
  BY Zenon DEF ProcInv, ObjectsInv, SystemInv
<1>2. job.child \in Procs /\ Proc(job.child)
  BY Zenon, <1>1 DEF Stands, Proc
<1> QED
  BY Zenon, <1>1, <1>2 DEF Procs

\* A record goes on standing for its child if no child but another one loses its number.
LEMMA StandsStep ==
  ASSUME ProcInv, Lasting, NEW d, OnlyFrees(d),
         NEW x, Stands(x, owner, code, interrupted, struck), x.serial = 0 \/ x.serial # d
  PROVE  Stands(x, owner', code', interrupted', struck')
<1>1. x.serial \in Serials \cup {0}
  BY Zenon DEF Stands, Proc, Procs
<1>2. owner \in [Pids -> -1 .. spawned] /\ spawned \in Nat /\ platform \in {"posix", "win32"}
  BY DEF ProcInv, SystemInv
<1>3. ASSUME x.serial # 0, hProcess(x.serial) \notin struck', NEW p \in Pids
      PROVE  owner'[p] = x.serial <=> owner[p] = x.serial
  <2>1. x.serial > 0
    BY <1>1, <1>3, SubprocessAssumption DEF Serials
  <2>2. owner[p] \in -1 .. spawned /\ owner'[p] \in -1 .. spawned
    BY Zenon, <1>2 DEF OnlyFrees
  <2> QED
    BY <1>1, <1>2, <1>3, <2>1, <2>2 DEF OnlyFrees, Serials
<1> QED
  BY <1>2, <1>3, StandsKept DEF Lasting

\* The numbers stay in order when at most one is freed.
LEMMA SystemStep ==
  ASSUME ProcInv, Lasting, NEW d, OnlyFrees(d), spawned' = spawned
  PROVE  SystemInv'
<1>1. owner \in [Pids -> -1 .. spawned] /\ spawned \in Nat /\ spawned \in 0 .. MaxSpawns
      /\ platform \in {"posix", "win32"}
  BY DEF ProcInv, SystemInv
<1>2. ASSUME NEW p \in Pids, NEW q \in Pids, owner'[p] > 0, owner'[p] = owner'[q] PROVE p = q
  <2>1. /\ owner[p] \in -1 .. spawned /\ owner'[p] \in -1 .. spawned
        /\ owner[q] \in -1 .. spawned /\ owner'[q] \in -1 .. spawned
    BY Zenon, <1>1 DEF OnlyFrees
  <2>2. owner'[p] = owner[p] /\ owner'[q] = owner[q]
    BY <1>1, <1>2, <2>1 DEF OnlyFrees
  <2> QED
    BY Zenon, <1>2, <2>2 DEF ProcInv, SystemInv
<1> QED
  BY Zenon, <1>1, <1>2 DEF SystemInv, Lasting, OnlyFrees

\* ObjectsInv of the next state, record by record.
LEMMA ObjectsNext ==
  ASSUME platform' = platform, obj' \in [Objects -> Procs],
         \A o \in Objects : Stands(obj'[o], owner', code', interrupted', struck') /\ obj'[o].serial <= spawned',
         Stands(job'.child, owner', code', interrupted', struck'), job'.child.serial <= spawned',
         \A o, q \in Objects : o # q /\ obj'[o].serial = obj'[q].serial => obj'[o].serial = 0,
         \A o \in Objects : obj'[o].serial = job'.child.serial => obj'[o].serial = 0
  PROVE  ObjectsInv'
<1>1. ASSUME NEW o \in Objects PROVE Stands(obj[o], owner, code, interrupted, struck)'
  <2>1. Stands(obj'[o], owner', code', interrupted', struck')
    BY Zenon
  <2> QED
    BY Zenon, <2>1 DEF Stands, Proc, NoProcess, Procs, Unfinished
<1>2. Stands(job.child, owner, code, interrupted, struck)'
  BY Zenon DEF Stands, Proc, NoProcess, Procs, Unfinished
<1>3. (obj \in [Objects -> Procs])'
  BY Zenon DEF Procs
<1> QED
  BY Zenon, <1>1, <1>2, <1>3 DEF ObjectsInv

\* Nothing but the numbers and the exit codes changes.
LEMMA QuietStep ==
  ASSUME ProcInv, Lasting, OnlyFrees(0),
         UNCHANGED <<spawned, obj, open, job, interrupted, misclosed, struck>>
  PROVE  ProcInv'
<1>1. SystemInv'
  BY Zenon, SystemStep
<1>2. UNCHANGED NoProcess /\ UNCHANGED NoJob
  BY Zenon DEF Lasting, NoProcess, NoJob
<1>3. JobInv'
  <2>1. JobInv
    BY Zenon DEF ProcInv
  <2> QED
    BY Zenon, <1>2, <2>1 DEF JobInv, Jobs, Procs
<1>4. ObjectsInv'
  <2>1. \A o \in Objects : Stands(obj'[o], owner', code', interrupted', struck') /\ obj'[o].serial <= spawned'
    BY Zenon, ObjectFacts, StandsStep
  <2>2. Stands(job'.child, owner', code', interrupted', struck') /\ job'.child.serial <= spawned'
    BY Zenon, JobFacts, StandsStep
  <2>3. /\ obj' \in [Objects -> Procs] /\ platform' = platform
        /\ \A o, q \in Objects : o # q /\ obj'[o].serial = obj'[q].serial => obj'[o].serial = 0
        /\ \A o \in Objects : obj'[o].serial = job'.child.serial => obj'[o].serial = 0
    BY Zenon DEF ProcInv, ObjectsInv, Lasting
  <2> QED
    BY Zenon, <2>1, <2>2, <2>3, ObjectsNext
<1>5. ReapInv'
  <2>1. SUFFICES ASSUME ~interrupted', NEW p \in Pids, owner'[p] > 0, ~Lost(owner[p])'
                 PROVE  Kept(p, owner[p])'
    BY Zenon DEF ReapInv
  <2>2. owner[p] \in -1 .. spawned /\ owner'[p] \in -1 .. spawned /\ spawned \in Nat
    BY DEF ProcInv, SystemInv, OnlyFrees
  <2>3. owner'[p] = owner[p] /\ owner[p] > 0
    BY <2>1, <2>2 DEF OnlyFrees
  <2>4. Kept(p, owner[p])
    BY Zenon, <2>1, <2>3 DEF ProcInv, ReapInv, Lost, hProcess
  <2> QED
    BY Zenon, <2>3, <2>4 DEF Kept
<1>6. OpenInv'
  <2>1. OpenInv
    BY Zenon DEF ProcInv
  <2>2. \A h : HasHolder(h)' <=> HasHolder(h)
    BY <1>2 DEF HasHolder, Held, JobHolds, Idle, Ends, Sides, Next1, Lasting
  <2>3. NullHeld' = NullHeld
    BY Zenon, <1>2 DEF NullHeld, Idle, Null, Next1
  <2>4. StruckInv'
    BY Zenon, <2>1 DEF OpenInv, StruckInv, Lasting
  <2> QED
    BY Zenon, <2>1, <2>2, <2>3, <2>4 DEF OpenInv
<1> QED
  BY Zenon, <1>1, <1>3, <1>4, <1>5, <1>6 DEF ProcInv

\* A record that is not finished can be used unless its hProcess was closed under it, and
\* then its number is its child's.
LEMMA UsableFacts ==
  ASSUME ProcInv, NEW o \in Objects, Unfinished(obj[o])
  PROVE  /\ obj[o].serial \in Serials /\ obj[o].pid \in Pids
         /\ Usable(obj[o]) <=> hProcess(obj[o].serial) \notin struck
         /\ Usable(obj[o]) => owner[obj[o].pid] = obj[o].serial
<1>1. obj[o].serial \in Serials /\ obj[o].pid \in Pids /\ obj[o].pid # 0 /\ platform \in {"posix", "win32"}
  BY Zenon, ObjectFacts, JobFacts DEF Stands, Unfinished, Proc
<1>2. hProcess(obj[o].serial) \notin struck => owner[obj[o].pid] = obj[o].serial
  BY Zenon, ObjectFacts DEF Stands
<1>3. platform = "posix" => struck = {}
  BY Zenon DEF ProcInv, OpenInv, StruckInv
<1>4. platform = "win32" => (hProcess(obj[o].serial) \in open <=> hProcess(obj[o].serial) \notin struck)
  <2>1. platform = "win32" => hProcess(obj[o].serial) \in Held(obj[o])
    BY Zenon, <1>1 DEF Held
  <2> QED
    BY Zenon, <2>1 DEF ProcInv, OpenInv, HasHolder
<1> QED
  BY Zenon, <1>1, <1>2, <1>3, <1>4 DEF Usable

\* A signal goes to the object's own child, which it ends; it changes no exit code there is.
LEMMA KillLasts ==
  ASSUME ProcInv, NEW o \in Objects, Unfinished(obj[o]),
         Kill(obj[o]) \/ (Running(obj[o]) /\ Dies(obj[o]))
  PROVE  /\ code' \in [Serials -> Codes \cup {Alive, Signalled}]
         /\ \A s \in Serials : code[s] # Alive => code'[s] = code[s]
         /\ Usable(obj[o]) => code'[obj[o].serial] # Alive
<1>1. code \in [Serials -> Codes \cup {Alive, Signalled}]
  BY Zenon DEF ProcInv, SystemInv
<1>2. obj[o].serial \in Serials
  BY Zenon, UsableFacts
<1>3. Codes \subseteq Nat /\ 1 \in Codes
  BY Zenon, SubprocessAssumption
<1> QED
  BY <1>1, <1>2, <1>3 DEF Kill, Dies, Running, Alive, Signalled

\* Windows frees only the numbers of children whose handle was open before and is not now.
LEMMA ReleasedFrees ==
  ASSUME ProcInv, platform = "win32", Released, struck \subseteq struck', NEW d,
         \A n : hProcess(n) \in open /\ hProcess(n) \notin open' => n = d \/ hProcess(n) \in struck'
  PROVE  OnlyFrees(d)
<1>1. owner \in [Pids -> -1 .. spawned] /\ spawned \in Nat /\ ~interrupted
  BY DEF ProcInv, SystemInv
<1>2. ASSUME NEW p \in Pids, owner[p] > 0, hProcess(owner[p]) \notin open'
      PROVE  owner[p] = d \/ hProcess(owner[p]) \in struck'
  <2>1. CASE Lost(owner[p])
    BY Zenon, <2>1 DEF Lost
  <2>2. CASE ~Lost(owner[p])
    <3>1. Kept(p, owner[p])
      BY Zenon, <1>1, <1>2, <2>2 DEF ProcInv, ReapInv
    <3>2. p # 0
      BY SubprocessAssumption
    <3>3. HasHolder(hProcess(owner[p]))
      <4>1. CASE \E o \in Objects : obj[o].serial = owner[p] /\ obj[o].pid = p
        BY Zenon, <3>2, <4>1 DEF HasHolder, Held
      <4>2. CASE job.child.serial = owner[p] /\ job.child.pid = p
        <5>1. job.child # NoProcess
          BY Zenon, <3>2, <4>2, NoProcessFacts
        <5> QED
          BY Zenon, <3>2, <4>2, <5>1 DEF HasHolder, JobHolds, Held
      <4> QED
        BY Zenon, <3>1, <4>1, <4>2 DEF Kept
    <3>4. hProcess(owner[p]) \in open
      BY Zenon, <2>2, <3>3 DEF ProcInv, OpenInv, Lost
    <3> QED
      BY Zenon, <1>2, <3>4
  <2> QED
    BY Zenon, <2>1, <2>2
<1>3. owner' \in [Pids -> -1 .. spawned]
  BY <1>1 DEF Released
<1>4. ASSUME NEW p \in Pids
      PROVE  \/ owner'[p] = owner[p]
             \/ owner'[p] = 0 /\ owner[p] > 0 /\ hProcess(owner[p]) \notin open'
  BY Zenon DEF Released
<1> QED
  BY Zenon, <1>2, <1>3, <1>4 DEF OnlyFrees

\* Numbers, when nothing but exit codes has changed.
LEMMA ExitFrees ==
  ASSUME ProcInv, IF platform = "posix" THEN UNCHANGED owner ELSE Released, UNCHANGED <<open, struck>>
  PROVE  OnlyFrees(0)
<1>1. platform \in {"posix", "win32"} /\ owner \in [Pids -> -1 .. spawned]
  BY Zenon DEF ProcInv, SystemInv
<1>2. CASE platform = "posix"
  BY Zenon, <1>1, <1>2 DEF OnlyFrees
<1>3. CASE platform = "win32"
  <2>1. Released
    BY Zenon, <1>3
  <2> QED
    BY Zenon, <1>3, <2>1, ReleasedFrees
<1> QED
  BY Zenon, <1>1, <1>2, <1>3

\* A child exits.
LEMMA ChildExitsStep ==
  ASSUME ProcInv, NEW s \in Serials, NEW c \in Codes, ChildExits(s, c)
  PROVE  ProcInv'
<1>1. code \in [Serials -> Codes \cup {Alive, Signalled}] /\ interrupted \in BOOLEAN
      /\ (platform = "win32" => interrupted = FALSE)
  BY Zenon DEF ProcInv, SystemInv
<1>2. Lasting
  BY Zenon, <1>1 DEF Lasting, ChildExits
<1>3. OnlyFrees(0)
  BY Zenon, ExitFrees DEF ChildExits
<1> QED
  BY Zenon, <1>2, <1>3, QuietStep DEF ChildExits

\* A free number is given to a process that is not ours, or taken back.
LEMMA ForeignStep ==
  ASSUME ProcInv, NEW p \in Pids, Foreign(p)
  PROVE  ProcInv'
<1>1. code \in [Serials -> Codes \cup {Alive, Signalled}] /\ interrupted \in BOOLEAN
      /\ owner \in [Pids -> -1 .. spawned] /\ spawned \in Nat /\ (platform = "win32" => interrupted = FALSE)
  BY DEF ProcInv, SystemInv
<1>2. Lasting
  BY Zenon, <1>1 DEF Lasting, Foreign
<1>3. OnlyFrees(0)
  <2>1. -1 - owner[p] \in -1 .. spawned /\ -1 - owner[p] <= 0 /\ owner[p] <= 0
    BY <1>1 DEF Foreign
  <2>2. owner' \in [Pids -> -1 .. spawned]
    BY Zenon, <1>1, <2>1 DEF Foreign
  <2> QED
    BY Zenon, <1>1, <2>1, <2>2 DEF OnlyFrees, Foreign
<1> QED
  BY Zenon, <1>2, <1>3, QuietStep DEF Foreign

\* A signal of send_signal ends a child that has not been waited for.
LEMMA SignalStep ==
  ASSUME ProcInv, NEW o \in Objects, Unfinished(obj[o]), Running(obj[o]), Dies(obj[o]),
         UNCHANGED <<platform, spawned, obj, open, job, interrupted, misclosed, struck>>,
         IF platform = "posix" THEN UNCHANGED owner ELSE Released
  PROVE  ProcInv'
<1>1. interrupted \in BOOLEAN /\ (platform = "win32" => interrupted = FALSE)
  BY Zenon DEF ProcInv, SystemInv
<1>2. Lasting
  BY Zenon, <1>1, KillLasts DEF Lasting
<1>3. OnlyFrees(0)
  BY Zenon, ExitFrees
<1> QED
  BY Zenon, <1>2, <1>3, QuietStep

-----------------------------------------------------------------------------
(* poll_exit, wait, terminate                                              *)

\* obj[o] becomes finished, its pipes and its child being the same.  Its child is
\* gone: its number is free, kept by the handle, or the wait for it was cut short.
LEMMA FinishStep ==
  ASSUME ProcInv, Lasting, NEW o \in Objects, Idle, Unfinished(obj[o]), NEW c \in Codes \cup {Alive, Signalled},
         obj' = [obj EXCEPT ![o] = [obj[o] EXCEPT !.finished = TRUE, !.status = c]],
         OnlyFrees(obj[o].serial),
         platform = "win32" => owner' = owner,
         ~interrupted' /\ Usable(obj[o]) => c = code'[obj[o].serial] /\ c # Alive,
         ~interrupted' /\ platform = "posix" => owner'[obj[o].pid] = 0,
         UNCHANGED <<spawned, open, job, misclosed, struck>>
  PROVE  ProcInv'
<1>1. SystemInv'
  BY Zenon, SystemStep
<1>2. UNCHANGED NoProcess /\ UNCHANGED NoJob
  BY Zenon DEF Lasting, NoProcess, NoJob
<1>3. JobInv'
  <2>1. JobInv
    BY Zenon DEF ProcInv
  <2> QED
    BY Zenon, <1>2, <2>1 DEF JobInv, Jobs, Procs
<1>4. obj \in [Objects -> Procs] /\ owner \in [Pids -> -1 .. spawned] /\ spawned \in Nat
      /\ \A p, q \in Pids : owner[p] > 0 /\ owner[p] = owner[q] => p = q
  BY DEF ProcInv, ObjectsInv, SystemInv
<1>5. PICK x : x = obj[o]
  BY Zenon
<1>6. PICK y : y = [x EXCEPT !.finished = TRUE, !.status = c]
  BY Zenon
<1>7. x \in Procs /\ Proc(x) /\ Stands(x, owner, code, interrupted, struck) /\ x.serial <= spawned
      /\ x.pid \in Pids /\ x.serial \in Serials /\ x.serial # 0 /\ Unfinished(x)
      /\ (hProcess(x.serial) \notin struck => owner[x.pid] = x.serial /\ Usable(x))
  BY Zenon, <1>5, ObjectFacts, UsableFacts DEF Proc, Unfinished
<1>8. y \in Procs /\ y.pid = x.pid /\ y.serial = x.serial /\ y.pipes = x.pipes /\ y.finished /\ y.status = c
      /\ y.thread = x.thread
  BY Zenon, <1>6, <1>7 DEF Procs
<1>9. /\ obj'[o] = y /\ obj' \in [Objects -> Procs]
      /\ \A q \in Objects : q # o => obj'[q] = obj[q]
  <2>1. obj' = [obj EXCEPT ![o] = y]
    BY Zenon, <1>5, <1>6
  <2> QED
    BY Zenon, <1>4, <1>8, <2>1
<1>10. \A q \in Objects : obj'[q].serial = obj[q].serial /\ obj'[q].pid = obj[q].pid /\ obj'[q].pipes = obj[q].pipes
  BY Zenon, <1>5, <1>8, <1>9
<1>11. Stands(y, owner', code', interrupted', struck')
  <2>1. Proc(y)
    BY Zenon, <1>7, <1>8 DEF Proc
  <2>2. ~Unfinished(y)
    BY Zenon, <1>8 DEF Unfinished
  <2> SUFFICES ASSUME hProcess(x.serial) \notin struck PROVE Stands(y, owner', code', interrupted', struck')
    BY Zenon, <1>8, <2>1 DEF Stands
  <2>3. platform = "win32" => owner'[y.pid] = y.serial
    BY Zenon, <1>7, <1>8
  <2>4. ~interrupted' => y.status = code'[y.serial] /\ code'[y.serial] # Alive
    BY Zenon, <1>5, <1>7, <1>8
  <2>5. ASSUME ~interrupted', platform = "posix", NEW p \in Pids PROVE owner'[p] # y.serial
    <3>1. owner'[x.pid] = 0
      BY Zenon, <1>5, <2>5
    <3>2. x.serial > 0
      BY <1>7, SubprocessAssumption DEF Serials
    <3>3. owner[p] = x.serial => p = x.pid
      BY Zenon, <1>4, <1>7, <3>2
    <3>4. owner'[p] \in -1 .. spawned /\ owner[p] \in -1 .. spawned
      BY Zenon, <1>4 DEF OnlyFrees
    <3>5. owner'[p] = owner[p] \/ owner'[p] <= 0
      BY <3>4 DEF OnlyFrees
    <3> QED
      BY <1>4, <1>7, <1>8, <3>1, <3>2, <3>3, <3>4, <3>5
  <2> QED
    BY Zenon, <2>1, <2>2, <2>3, <2>4, <2>5 DEF Stands
<1>12. ObjectsInv'
  <2>1. ASSUME NEW q \in Objects, q # o
        PROVE  Stands(obj'[q], owner', code', interrupted', struck') /\ obj'[q].serial <= spawned'
    <3>1. obj[q].serial = 0 \/ obj[q].serial # x.serial
      BY Zenon, <1>5, <1>7, <2>1 DEF ProcInv, ObjectsInv
    <3>2. Stands(obj[q], owner', code', interrupted', struck')
      BY Zenon, <1>5, <3>1, StandsStep, ObjectFacts
    <3> QED
      BY Zenon, <1>9, <2>1, <3>2, ObjectFacts
  <2>2. Stands(obj'[o], owner', code', interrupted', struck') /\ obj'[o].serial <= spawned'
    <3>1. y.serial <= spawned'
      BY Zenon, <1>7, <1>8
    <3> QED
      BY Zenon, <1>9, <1>11, <3>1
  <2>3. job'.child = NoProcess /\ job.child = NoProcess
    BY Zenon, JobFacts, NoProcessFacts DEF Idle
  <2>4. Stands(job'.child, owner', code', interrupted', struck') /\ job'.child.serial <= spawned'
    BY <1>4, <2>3, NoProcessStands, NoProcessFacts, JobFacts
  <2>5. \A r, q \in Objects : r # q /\ obj'[r].serial = obj'[q].serial => obj'[r].serial = 0
    BY <1>10 DEF ProcInv, ObjectsInv
  <2>6. \A q \in Objects : obj'[q].serial = job'.child.serial => obj'[q].serial = 0
    BY Zenon, <1>10, <2>3 DEF ProcInv, ObjectsInv
  <2>7. \A q \in Objects : Stands(obj'[q], owner', code', interrupted', struck') /\ obj'[q].serial <= spawned'
    BY Zenon, <2>1, <2>2
  <2>8. platform' = platform
    BY Zenon DEF Lasting
  <2> QED
    BY Zenon, <1>9, <2>4, <2>5, <2>6, <2>7, <2>8, ObjectsNext
<1>13. ReapInv'
  <2>1. SUFFICES ASSUME ~interrupted', NEW p \in Pids, owner'[p] > 0, ~Lost(owner[p])'
                 PROVE  Kept(p, owner[p])'
    BY Zenon DEF ReapInv
  <2>2. owner[p] \in -1 .. spawned /\ owner'[p] \in -1 .. spawned
    BY Zenon, <1>4 DEF OnlyFrees
  <2>3. owner'[p] = owner[p] /\ owner[p] > 0
    BY <1>4, <2>1, <2>2 DEF OnlyFrees
  <2>4. Kept(p, owner[p])
    BY Zenon, <2>1, <2>3 DEF ProcInv, ReapInv, Lasting, Lost, hProcess
  <2> QED
    BY Zenon, <1>10, <2>3, <2>4 DEF Kept
<1>14. OpenInv'
  <2>1. OpenInv
    BY Zenon DEF ProcInv
  <2>2. \A q \in Objects : Held(obj[q])' = Held(obj[q])
    BY <1>10 DEF Held, Lasting
  <2>3. JobHolds' = {} /\ JobHolds = {} /\ NullHeld' = {} /\ NullHeld = {}
    <3>1. job.child = NoProcess /\ job'.child = NoProcess
      BY Zenon, JobFacts, NoProcessFacts DEF Idle
    <3> QED
      BY Zenon, <1>2, <3>1 DEF JobHolds, NullHeld, Idle
  <2>4. \A h : HasHolder(h)' <=> HasHolder(h)
    BY Zenon, <2>2, <2>3 DEF HasHolder
  <2>5. StruckInv'
    BY Zenon, <2>1 DEF OpenInv, StruckInv, Lasting
  <2> QED
    BY Zenon, <2>1, <2>3, <2>4, <2>5 DEF OpenInv
<1> QED
  BY Zenon, <1>1, <1>3, <1>12, <1>13, <1>14 DEF ProcInv

\* Collect and Interrupt are both such steps.
LEMMA EndStep ==
  ASSUME ProcInv, NEW o \in Objects, Idle, Unfinished(obj[o]),
         code' \in [Serials -> Codes \cup {Alive, Signalled}],
         \A s \in Serials : code[s] # Alive => code'[s] = code[s],
         (code'[obj[o].serial] # Alive /\ Usable(obj[o]) /\ Collect(o)) \/ Interrupt(o),
         UNCHANGED <<platform, spawned, open, job, misclosed, struck>>
  PROVE  ProcInv'
<1>1. /\ owner \in [Pids -> -1 .. spawned] /\ spawned \in Nat /\ obj \in [Objects -> Procs]
      /\ interrupted \in BOOLEAN /\ platform \in {"posix", "win32"} /\ (platform = "win32" => interrupted = FALSE)
  BY DEF ProcInv, SystemInv, ObjectsInv
<1>2. /\ obj[o] \in Procs /\ obj[o].pid \in Pids /\ obj[o].serial \in Serials
      /\ (Usable(obj[o]) => owner[obj[o].pid] = obj[o].serial)
  BY Zenon, ObjectFacts, UsableFacts
<1>3. Lasting
  <2>1. interrupted' \in BOOLEAN /\ (interrupted => interrupted') /\ (platform = "win32" => interrupted' = FALSE)
    <3>1. interrupted' = interrupted \/ (platform = "posix" /\ interrupted' = TRUE)
      BY Zenon DEF Collect, Interrupt
    <3> QED
      BY Zenon, <1>1, <3>1
  <2> QED
    BY Zenon, <1>1, <2>1 DEF Lasting
<1>4. CASE code'[obj[o].serial] # Alive /\ Usable(obj[o]) /\ Collect(o)
  <2>1. PICK c \in Codes \cup {Alive, Signalled} : c = code'[obj[o].serial]
    BY Zenon, <1>2
  <2>2. obj' = [obj EXCEPT ![o] = [obj[o] EXCEPT !.finished = TRUE, !.status = c]]
    BY Zenon, <1>1, <1>2, <1>4, <2>1 DEF Collect, Procs
  <2>3. /\ platform = "win32" => owner' = owner
        /\ platform = "posix" => owner' = [owner EXCEPT ![obj[o].pid] = 0]
    BY Zenon, <1>4 DEF Collect, Free
  <2>4. OnlyFrees(obj[o].serial)
    BY <1>1, <1>2, <1>4, <2>3 DEF OnlyFrees
  <2>5. platform = "posix" => owner'[obj[o].pid] = 0
    BY Zenon, <1>1, <1>2, <2>3
  <2> QED
    BY Zenon, <1>3, <1>4, <2>1, <2>2, <2>3, <2>4, <2>5, FinishStep
<1>5. CASE Interrupt(o)
  <2>1. PICK c \in Codes \cup {Alive, Signalled} : c = obj[o].status
    BY Zenon, <1>2 DEF Procs
  <2>2. obj' = [obj EXCEPT ![o] = [obj[o] EXCEPT !.finished = TRUE, !.status = c]]
    BY Zenon, <1>1, <1>2, <1>5, <2>1 DEF Interrupt, Procs
  <2>3. OnlyFrees(obj[o].serial) /\ owner' = owner /\ (platform = "posix" => interrupted')
    BY Zenon, <1>1, <1>5 DEF OnlyFrees, Interrupt, Usable
  <2>4. ~interrupted' => ~Usable(obj[o])
    BY Zenon, <1>5 DEF Interrupt
  <2> QED
    BY Zenon, <1>3, <2>2, <2>3, <2>4, FinishStep
<1> QED
  BY Zenon, <1>4, <1>5

\* poll_exit and wait.
LEMMA WaitStep ==
  ASSUME ProcInv, NEW o \in Objects, poll_exit(o) \/ wait(o)
  PROVE  ProcInv'
<1>1. code \in [Serials -> Codes \cup {Alive, Signalled}] /\ code' = code
  BY Zenon DEF ProcInv, SystemInv, poll_exit, wait
<1>2. Idle /\ Unfinished(obj[o]) /\ UNCHANGED <<platform, spawned, open, job, misclosed, struck>>
  BY Zenon DEF poll_exit, wait
<1>3. (code'[obj[o].serial] # Alive /\ Usable(obj[o]) /\ Collect(o)) \/ Interrupt(o)
  BY Zenon, <1>1 DEF poll_exit, wait, Running
<1> QED
  BY Zenon, <1>1, <1>2, <1>3, EndStep

\* terminate.
LEMMA TerminateStep ==
  ASSUME ProcInv, NEW o \in Objects, terminate(o)
  PROVE  ProcInv'
<1>1. /\ Idle /\ Unfinished(obj[o]) /\ Kill(obj[o]) /\ ((Usable(obj[o]) /\ Collect(o)) \/ Interrupt(o))
      /\ UNCHANGED <<platform, spawned, open, job, misclosed, struck>>
  BY Zenon DEF terminate
<1> QED
  BY Zenon, <1>1, KillLasts, EndStep

-----------------------------------------------------------------------------
(* reset, moves and destruction                                            *)

\* A close of H takes S with it: only a handle that is not open hits another.
Takes(H, S) ==
  /\ open' = open \ (H \cup S) /\ struck' = struck \cup S /\ misclosed' = misclosed \cup (H \ open)
  /\ S \subseteq open /\ (H \subseteq open => S = {})

\* Every close is one.
LEMMA CloseFacts ==
  ASSUME NEW H, NEW s, Close(H, s)
  PROVE  \E S : Takes(H, S)
<1>1. PICK hit \in [H \ open -> {h \in open : h[1] > s} \cup {Nothing}] :
        LET S == {hit[h] : h \in H \ open} \ {Nothing}
        IN  open' = open \ (H \cup S) /\ struck' = struck \cup S
  BY Zenon DEF Close
<1>2. PICK S : S = {hit[h] : h \in H \ open} \ {Nothing}
  BY Zenon
<1>3. S \in SUBSET open /\ (H \subseteq open => S = {})
  BY Zenon, <1>2
<1>4. open' = open \ (H \cup S) /\ struck' = struck \cup S
  BY Zenon, <1>1, <1>2
<1> QED
  BY Zenon, <1>3, <1>4 DEF Close, Takes

\* The handles of a record that were not struck are open.
LEMMA HeldOpen ==
  ASSUME ProcInv, NEW o \in Objects
  PROVE  /\ \A h \in Held(obj[o]) : h \notin struck => h \in open
         /\ \A h \in Closes(obj[o]) : h \notin open => h[2] = "thread" \/ h \in struck
         /\ platform = "posix" => Closes(obj[o]) \subseteq open
<1>1. \A h \in Held(obj[o]) : h \notin struck => h \in open
  BY Zenon DEF ProcInv, OpenInv, HasHolder
<1>2. platform = "posix" => struck = {} /\ ~obj[o].thread
  BY Zenon, ObjectFacts DEF ProcInv, OpenInv, StruckInv, Proc
<1>3. \A h \in Closes(obj[o]) : h \notin open => h[2] = "thread" \/ h \in struck
  BY Zenon, <1>1, HeldSerial
<1>4. platform = "posix" => Closes(obj[o]) = Held(obj[o])
  BY Zenon, <1>2 DEF Closes
<1> QED
  BY Zenon, <1>1, <1>2, <1>3, <1>4

\* When no spawn is making its pipes, what is open belongs to a child that was started.
LEMMA OpenStarted ==
  ASSUME ProcInv, NullHeld = {}, NEW h \in open
  PROVE  h[1] \in 0 .. spawned
<1>1. HasHolder(h)
  BY Zenon DEF ProcInv, OpenInv
<1>2. PICK x : h \in Held(x) /\ x.serial <= spawned /\ x.serial \in Serials \cup {0}
  <2>1. CASE \E r \in Objects : h \in Held(obj[r])
    BY Zenon, <2>1, ObjectFacts
  <2>2. CASE h \in JobHolds
    <3>1. Idle \/ job.child # NoProcess
      BY DEF NullHeld, Null
    <3>2. h \in Held(job.child)
      BY Zenon, <2>2, <3>1 DEF JobHolds
    <3> QED
      BY Zenon, <3>2, JobFacts
  <2> QED
    BY Zenon, <1>1, <2>1, <2>2 DEF HasHolder
<1>3. h[1] = x.serial
  BY Zenon, <1>2, HeldSerial
<1>4. spawned \in Nat
  BY DEF ProcInv, SystemInv
<1> QED
  BY <1>2, <1>3, <1>4, SubprocessAssumption DEF Serials

\* reset() lets go of the child of one object and of no other but those it takes the
\* handle of, and closes its handles.
LEMMA ResetFacts ==
  ASSUME ProcInv, NEW o \in Objects, Reset(obj[o]), platform' = platform
  PROVE  /\ Lasting /\ OnlyFrees(obj[o].serial)
         /\ ~interrupted' => \A p \in Pids : owner'[p] > 0 /\ hProcess(owner'[p]) \notin struck' =>
                                              owner'[p] # obj[o].serial
<1>1. /\ owner \in [Pids -> -1 .. spawned] /\ spawned \in Nat /\ interrupted \in BOOLEAN
      /\ code \in [Serials -> Codes \cup {Alive, Signalled}] /\ platform \in {"posix", "win32"}
      /\ (platform = "win32" => interrupted = FALSE)
      /\ \A p, q \in Pids : owner[p] > 0 /\ owner[p] = owner[q] => p = q
  BY DEF ProcInv, SystemInv
<1>2. PICK x : x = obj[o]
  BY Zenon
<1>3. /\ x \in Procs /\ Proc(x) /\ Stands(x, owner, code, interrupted, struck)
      /\ x.pid \in Pids \cup {0} /\ x.serial \in Serials \cup {0} /\ x.finished \in BOOLEAN
  BY Zenon, <1>2, ObjectFacts
<1>4. PICK S : Takes(Closes(x), S)
  <2>1. Close(Closes(x), x.serial)
    BY Zenon, <1>2 DEF Reset
  <2> QED
    BY Zenon, <2>1, CloseFacts
<1>5. Lasting
  <2>1. interrupted' \in BOOLEAN /\ (interrupted => interrupted') /\ (platform = "win32" => interrupted' = FALSE)
    <3>1. interrupted' = interrupted \/ (platform = "posix" /\ interrupted' = TRUE)
      BY Zenon DEF Reset
    <3> QED
      BY Zenon, <1>1, <3>1
  <2>2. /\ code' \in [Serials -> Codes \cup {Alive, Signalled}]
        /\ \A s \in Serials : code[s] # Alive => code'[s] = code[s]
    BY Zenon, <1>1, KillLasts DEF Reset
  <2> QED
    BY Zenon, <1>4, <2>1, <2>2 DEF Lasting, Takes
<1>6. Unfinished(x) => /\ x.pid \in Pids /\ x.serial \in Serials
                       /\ Usable(x) <=> hProcess(x.serial) \notin struck
                       /\ Usable(x) => owner[x.pid] = x.serial
  BY Zenon, <1>2, UsableFacts
<1>7. CASE platform = "posix"
  <2>1. struck = {} /\ (Unfinished(x) => Usable(x))
    BY Zenon, <1>7 DEF ProcInv, OpenInv, StruckInv, Usable
  <2>2. \/ owner' = owner
        \/ x.pid \in Pids /\ owner[x.pid] = x.serial /\ owner' = [owner EXCEPT ![x.pid] = 0]
    BY Zenon, <1>2, <1>6, <1>7, <2>1 DEF Reset, Free
  <2>3. OnlyFrees(x.serial)
    BY <1>1, <2>2 DEF OnlyFrees
  <2>4. ASSUME ~interrupted', NEW p \in Pids, owner'[p] > 0, owner'[p] = x.serial PROVE FALSE
    <3>1. x.serial > 0 /\ x.pid \in Pids /\ x.pid # 0 /\ x.serial \in Serials
      BY <1>3, <2>4, SubprocessAssumption DEF Proc
    <3>2. CASE Unfinished(x)
      <4>1. owner' = [owner EXCEPT ![x.pid] = 0]
        BY Zenon, <1>2, <1>7, <2>4, <3>2 DEF Reset, Free
      <4>2. owner[x.pid] = x.serial
        BY Zenon, <1>6, <2>1, <3>2
      <4>3. p # x.pid /\ owner[p] = x.serial
        BY <1>1, <2>4, <3>1, <4>1
      <4> QED
        BY Zenon, <1>1, <3>1, <4>2, <4>3
    <3>3. CASE ~Unfinished(x)
      <4>1. x.finished
        BY Zenon, <3>1, <3>3 DEF Unfinished
      <4>2. owner' = owner /\ interrupted' = interrupted
        BY Zenon, <1>2, <1>7, <3>3 DEF Reset
      <4>3. ~interrupted
        BY <2>4, <4>2
      <4> QED
        BY Zenon, <1>3, <1>7, <2>1, <2>4, <4>1, <4>2, <4>3 DEF Stands
    <3> QED
      BY Zenon, <3>2, <3>3
  <2> QED
    BY Zenon, <1>2, <1>5, <2>3, <2>4
<1>8. CASE platform = "win32"
  <2>1. Released /\ ~interrupted
    BY Zenon, <1>1, <1>8 DEF Reset
  <2>2. ASSUME NEW n, hProcess(n) \in open, hProcess(n) \notin open'
        PROVE  n = x.serial \/ hProcess(n) \in struck'
    <3>1. hProcess(n) \in Closes(x) \/ hProcess(n) \in struck'
      BY Zenon, <1>4, <2>2 DEF Takes
    <3>2. hProcess(n) \in Closes(x) => hProcess(n)[1] = x.serial
      BY Zenon, HeldSerial
    <3>3. hProcess(n)[1] = n
      BY DEF hProcess
    <3> QED
      BY Zenon, <3>1, <3>2, <3>3
  <2>3. OnlyFrees(x.serial)
    BY Zenon, <1>4, <1>8, <2>1, <2>2, ReleasedFrees DEF Takes
  <2>4. ASSUME NEW p \in Pids, owner'[p] > 0, hProcess(owner'[p]) \notin struck', owner'[p] = x.serial
        PROVE  FALSE
    <3>1. x.serial > 0 /\ x.pid \in Pids /\ x.pid # 0 /\ x.serial \in Serials
      BY <1>3, <2>4, SubprocessAssumption DEF Proc
    <3>2. hProcess(x.serial) \notin open' /\ hProcess(x.serial) \notin struck
      BY Zenon, <1>4, <1>8, <2>4, <3>1 DEF Closes, Held, Takes
    <3>3. code'[x.serial] # Alive
      <4>1. CASE Unfinished(x)
        <5>1. Kill(obj[o]) /\ Unfinished(obj[o]) /\ Usable(obj[o])
          BY Zenon, <1>2, <1>6, <3>2, <4>1 DEF Reset
        <5> QED
          BY Zenon, <1>2, <5>1, KillLasts
      <4>2. CASE ~Unfinished(x)
        <5>1. x.finished /\ code[x.serial] # Alive
          BY Zenon, <1>3, <2>1, <3>1, <3>2, <4>2 DEF Unfinished, Stands
        <5> QED
          BY Zenon, <1>5, <3>1, <5>1 DEF Lasting
      <4> QED
        BY Zenon, <4>1, <4>2
    <3>4. owner'[p] = 0 \/ (owner'[p] = owner[p] /\ ~(owner[p] > 0 /\ code'[owner[p]] # Alive
                                                     /\ hProcess(owner[p]) \notin open'))
      BY Zenon, <2>1 DEF Released
    <3>5. owner'[p] # 0
      BY <2>4
    <3> QED
      BY Zenon, <2>4, <3>1, <3>2, <3>3, <3>4, <3>5
  <2> QED
    BY Zenon, <1>2, <1>5, <2>3, <2>4
<1> QED
  BY Zenon, <1>1, <1>7, <1>8

\* A record of another child than that of obj[o].
Other(o, x) == x = job.child \/ \E r \in Objects : r # o /\ x = obj[r]

\* An object lets go of its child, and every other record is in one object afterwards.
LEMMA DropStep ==
  ASSUME ProcInv, NEW o \in Objects, Reset(obj[o]), UNCHANGED <<platform, spawned>>,
         Idle \/ job.child # NoProcess, job' = NoJob, obj' \in [Objects -> Procs],
         \A q \in Objects : obj'[q] = NoProcess \/ Other(o, obj'[q]),
         \A x : Other(o, x) /\ x.serial # 0 => \E q \in Objects : obj'[q] = x,
         \A q, r \in Objects : q # r /\ obj'[q].serial = obj'[r].serial => obj'[q].serial = 0
  PROVE  ProcInv'
<1>1. /\ Lasting /\ OnlyFrees(obj[o].serial)
      /\ ~interrupted' => \A p \in Pids : owner'[p] > 0 /\ hProcess(owner'[p]) \notin struck' =>
                                           owner'[p] # obj[o].serial
  BY Zenon, ResetFacts
<1>2. SystemInv'
  BY Zenon, <1>1, SystemStep
<1>3. UNCHANGED NoProcess /\ UNCHANGED NoJob
  BY Zenon DEF NoProcess, NoJob
<1>4. JobInv'
  BY Zenon, <1>3 DEF JobInv
<1>5. /\ owner \in [Pids -> -1 .. spawned] /\ spawned \in Nat /\ platform \in {"posix", "win32"}
  BY DEF ProcInv, SystemInv
<1>6. job'.child = NoProcess
  BY Zenon, <1>5, NoProcessFacts
<1>7. ASSUME NEW x, Other(o, x)
      PROVE  /\ Stands(x, owner, code, interrupted, struck) /\ Proc(x) /\ x.serial <= spawned
             /\ x.serial = obj[o].serial => x.serial = 0
             /\ \A h \in Held(x) : h \notin struck => h \in open
  <2>1. CASE x = job.child
    <3>1. obj[o].serial = job.child.serial => obj[o].serial = 0
      BY Zenon DEF ProcInv, ObjectsInv
    <3>2. \A h \in Held(job.child) : h \notin struck => h \in open
      <4>1. CASE job.child = NoProcess
        BY Zenon, <1>5, <4>1, NoProcessFacts
      <4>2. CASE job.child # NoProcess
        <5>1. JobHolds = Held(job.child)
          BY Zenon, <4>2 DEF JobHolds
        <5> QED
          BY Zenon, <5>1 DEF ProcInv, OpenInv, HasHolder
      <4> QED
        BY Zenon, <4>1, <4>2
    <3> QED
      BY Zenon, <2>1, <3>1, <3>2, JobFacts
  <2>2. CASE \E r \in Objects : r # o /\ x = obj[r]
    <3>1. PICK r \in Objects : r # o /\ x = obj[r]
      BY Zenon, <2>2
    <3>2. obj[r].serial = obj[o].serial => obj[r].serial = 0
      BY Zenon, <3>1 DEF ProcInv, ObjectsInv
    <3>3. \A h \in Held(obj[r]) : h \notin struck => h \in open
      BY Zenon, HeldOpen
    <3> QED
      BY Zenon, <3>1, <3>2, <3>3, ObjectFacts
  <2> QED
    BY Zenon, <1>7, <2>1, <2>2 DEF Other
<1>8. ObjectsInv'
  <2>1. ASSUME NEW q \in Objects
        PROVE  Stands(obj'[q], owner', code', interrupted', struck') /\ obj'[q].serial <= spawned'
    <3>1. CASE obj'[q] = NoProcess
      <4>1. Stands(NoProcess, owner', code', interrupted', struck')
        BY Zenon, <1>5, NoProcessStands
      <4>2. NoProcess.serial = 0
        BY Zenon, <1>5, NoProcessFacts
      <4> QED
        BY <1>5, <3>1, <4>1, <4>2
    <3>2. CASE Other(o, obj'[q])
      <4>1. PICK x : x = obj'[q]
        BY Zenon
      <4>2. Stands(x, owner, code, interrupted, struck) /\ x.serial <= spawned /\ (x.serial = 0 \/ x.serial # obj[o].serial)
        BY Zenon, <1>7, <3>2, <4>1
      <4>3. Stands(x, owner', code', interrupted', struck')
        BY Zenon, <1>1, <4>2, StandsStep
      <4> QED
        BY Zenon, <4>1, <4>2, <4>3
    <3> QED
      BY Zenon, <3>1, <3>2
  <2>2. Stands(job'.child, owner', code', interrupted', struck')
    BY Zenon, <1>5, <1>6, NoProcessStands
  <2>3. job'.child.serial = 0
    BY Zenon, <1>5, <1>6, NoProcessFacts
  <2>4. job'.child.serial <= spawned'
    BY <1>5, <2>3
  <2>5. \A q \in Objects : obj'[q].serial = job'.child.serial => obj'[q].serial = 0
    BY Zenon, <2>3
  <2> QED
    BY Zenon, <2>1, <2>2, <2>4, <2>5, ObjectsNext
<1>9. ReapInv'
  <2>1. SUFFICES ASSUME ~interrupted', NEW p \in Pids, owner'[p] > 0, hProcess(owner'[p]) \notin struck'
                 PROVE  Kept(p, owner[p])'
    BY Zenon DEF ReapInv, Lost, hProcess
  <2>2. owner[p] \in -1 .. spawned /\ owner'[p] \in -1 .. spawned
    BY Zenon, <1>1, <1>5 DEF OnlyFrees
  <2>3. owner'[p] = owner[p] /\ owner[p] > 0 /\ owner[p] # obj[o].serial
    BY <1>1, <1>5, <2>1, <2>2 DEF OnlyFrees
  <2>4. Kept(p, owner[p])
    BY Zenon, <1>1, <2>1, <2>3 DEF ProcInv, ReapInv, Lasting, Lost
  <2>5. PICK x : Other(o, x) /\ x.serial = owner[p] /\ x.pid = p
    BY Zenon, <2>3, <2>4 DEF Kept, Other
  <2>6. PICK q \in Objects : obj'[q] = x
    BY <2>3, <2>5
  <2> QED
    BY Zenon, <2>3, <2>5, <2>6 DEF Kept
<1>10. OpenInv'
  <2>1. JobHolds' = {} /\ NullHeld' = {} /\ NullHeld = {}
    BY Zenon, <1>3, <1>6 DEF JobHolds, NullHeld, Idle
  <2>2. \A q \in Objects : Held(obj[q])' = Held(obj'[q])
    BY Zenon DEF Held
  <2>3. PICK S : Takes(Closes(obj[o]), S)
    BY Zenon, CloseFacts DEF Reset
  <2>4. ASSUME NEW q \in Objects, NEW h \in Held(obj'[q]), h \notin struck' PROVE h \in open'
    <3>1. PICK x : x = obj'[q]
      BY Zenon
    <3>2. x # NoProcess
      BY Zenon, <1>5, <2>4, <3>1, NoProcessFacts
    <3>3. Other(o, x)
      BY Zenon, <3>1, <3>2
    <3>4. h \in open /\ Proc(x) /\ (x.serial = obj[o].serial => x.serial = 0)
      BY Zenon, <1>1, <1>7, <2>4, <3>1, <3>3 DEF Lasting
    <3>5. h \in Held(x) /\ Proc(obj[o])
      BY Zenon, <2>4, <3>1, ObjectFacts
    <3>6. h \notin Closes(obj[o])
      BY Zenon, <1>5, <3>4, <3>5, HeldApart
    <3> QED
      BY Zenon, <2>3, <2>4, <3>4, <3>6 DEF Takes
  <2>5. ASSUME NEW h \in open' PROVE (\E q \in Objects : h \in Held(obj'[q])) /\ h \notin struck'
    <3>1. h \in open /\ h \notin Closes(obj[o]) /\ h \notin S
      BY Zenon, <2>3, <2>5 DEF Takes
    <3>2. HasHolder(h) /\ h \notin struck
      BY Zenon, <2>1, <3>1 DEF ProcInv, OpenInv
    <3>3. PICK x : Other(o, x) /\ h \in Held(x)
      <4>1. CASE h \in JobHolds
        <5>1. h \in Held(job.child)
          BY Zenon, <4>1 DEF JobHolds
        <5> QED
          BY Zenon, <5>1 DEF Other
      <4>2. CASE \E r \in Objects : h \in Held(obj[r])
        <5>1. PICK r \in Objects : h \in Held(obj[r])
          BY Zenon, <4>2
        <5>2. r # o
          BY Zenon, <3>1, <5>1, HeldSerial
        <5> QED
          BY Zenon, <5>1, <5>2 DEF Other
      <4> QED
        BY Zenon, <3>2, <4>1, <4>2 DEF HasHolder
    <3>4. x.serial # 0
      BY Zenon, <1>5, <1>7, <3>3, NoProcessFacts DEF Proc
    <3>5. PICK q \in Objects : obj'[q] = x
      BY Zenon, <3>3, <3>4
    <3> QED
      BY Zenon, <2>3, <3>1, <3>2, <3>3, <3>5 DEF Takes
  <2>6. ASSUME NEW h \in misclosed' PROVE h[2] = "thread" \/ h \in struck'
    <3>1. CASE h \in misclosed
      BY Zenon, <1>1, <3>1 DEF ProcInv, OpenInv, StruckInv, Lasting
    <3>2. CASE h \in Closes(obj[o]) /\ h \notin open
      BY Zenon, <1>1, <3>2, HeldOpen DEF Lasting
    <3> QED
      BY Zenon, <2>3, <2>6, <3>1, <3>2 DEF Takes
  <2>7. platform = "posix" => misclosed' = {} /\ struck' = {}
    <3>1. platform = "posix" => Closes(obj[o]) \subseteq open /\ misclosed = {} /\ struck = {}
      BY Zenon, HeldOpen DEF ProcInv, OpenInv, StruckInv
    <3> QED
      BY Zenon, <2>3, <3>1 DEF Takes
  <2>8. ASSUME NEW h \in struck' PROVE h[1] \in 0 .. spawned
    <3>1. CASE h \in struck
      BY Zenon, <3>1 DEF ProcInv, OpenInv, StruckInv
    <3>2. CASE h \in S
      <4>1. h \in open
        BY Zenon, <2>3, <3>2 DEF Takes
      <4> QED
        BY Zenon, <2>1, <4>1, OpenStarted
    <3> QED
      BY Zenon, <2>3, <2>8, <3>1, <3>2 DEF Takes
  <2>9. StruckInv'
    BY Zenon, <2>6, <2>7, <2>8 DEF StruckInv
  <2> QED
    BY <2>1, <2>2, <2>4, <2>5, <2>9 DEF OpenInv, HasHolder
<1> QED
  BY Zenon, <1>2, <1>4, <1>8, <1>9, <1>10 DEF ProcInv

\* The destructor.
LEMMA DestroyStep ==
  ASSUME ProcInv, NEW o \in Objects, Destroy(o)
  PROVE  ProcInv'
<1>1. /\ Idle /\ Reset(obj[o]) /\ UNCHANGED <<platform, spawned>> /\ job' = NoJob
      /\ obj' = [obj EXCEPT ![o] = NoProcess]
  BY Zenon DEF Destroy, Idle
<1>2. obj \in [Objects -> Procs] /\ NoProcess \in Procs /\ NoProcess.serial = 0 /\ job.child = NoProcess
  BY Zenon, <1>1, JobFacts, NoProcessFacts DEF ProcInv, ObjectsInv, Idle
<1>3. obj' \in [Objects -> Procs] /\ obj'[o] = NoProcess /\ \A q \in Objects : q # o => obj'[q] = obj[q]
  BY Zenon, <1>1, <1>2
<1>4. \A q \in Objects : obj'[q] = NoProcess \/ Other(o, obj'[q])
  BY Zenon, <1>3 DEF Other
<1>5. \A x : Other(o, x) /\ x.serial # 0 => \E q \in Objects : obj'[q] = x
  BY Zenon, <1>2, <1>3 DEF Other
<1>6. \A q, r \in Objects : q # r /\ obj'[q].serial = obj'[r].serial => obj'[q].serial = 0
  BY <1>2, <1>3 DEF ProcInv, ObjectsInv
<1> QED
  BY Zenon, <1>1, <1>3, <1>4, <1>5, <1>6, DropStep

\* Moves from one process object to another.
LEMMA MoveStep ==
  ASSUME ProcInv, NEW o \in Objects, NEW from \in Objects, Move(o, from)
  PROVE  ProcInv'
<1>1. /\ Idle /\ Reset(obj[o]) /\ UNCHANGED <<platform, spawned>> /\ job' = NoJob /\ o # from
      /\ obj' = [obj EXCEPT ![o] = obj[from], ![from] = NoProcess]
  BY Zenon DEF Move, Idle
<1>2. obj \in [Objects -> Procs] /\ NoProcess \in Procs /\ NoProcess.serial = 0 /\ job.child = NoProcess
  BY Zenon, <1>1, JobFacts, NoProcessFacts DEF ProcInv, ObjectsInv, Idle
<1>3. /\ obj' \in [Objects -> Procs] /\ obj'[o] = obj[from] /\ obj'[from] = NoProcess
      /\ \A q \in Objects : q # o /\ q # from => obj'[q] = obj[q]
  BY Zenon, <1>1, <1>2
<1>4. \A q \in Objects : obj'[q] = NoProcess \/ Other(o, obj'[q])
  BY Zenon, <1>1, <1>3 DEF Other
<1>5. \A x : Other(o, x) /\ x.serial # 0 => \E q \in Objects : obj'[q] = x
  BY Zenon, <1>2, <1>3 DEF Other
<1>6. \A q, r \in Objects : q # r /\ obj'[q].serial = obj'[r].serial => obj'[q].serial = 0
  <2>1. \A q, r \in Objects : q # r /\ obj[q].serial = obj[r].serial => obj[q].serial = 0
    BY Zenon DEF ProcInv, ObjectsInv
  <2> QED
    BY Zenon, <1>1, <1>2, <1>3, <2>1
<1> QED
  BY Zenon, <1>1, <1>3, <1>4, <1>5, <1>6, DropStep

\* The result of spawn is moved into its object.
LEMMA AssignStep ==
  ASSUME ProcInv, Assign
  PROVE  ProcInv'
<1>1. PICK o : o = job.into
  BY Zenon
<1>2. /\ Reset(obj[o]) /\ UNCHANGED <<platform, spawned>> /\ job' = NoJob /\ job.child # NoProcess
      /\ obj' = [obj EXCEPT ![o] = job.child]
  BY Zenon, <1>1 DEF Assign
<1>3. o \in Objects
  <2>1. job # NoJob
    BY Zenon, <1>2, JobFacts, NoProcessFacts
  <2> QED
    BY Zenon, <1>1, <2>1 DEF ProcInv, JobInv, Jobs
<1>4. obj \in [Objects -> Procs] /\ job.child \in Procs
  BY Zenon, JobFacts DEF ProcInv, ObjectsInv
<1>5. obj' \in [Objects -> Procs] /\ obj'[o] = job.child /\ \A q \in Objects : q # o => obj'[q] = obj[q]
  BY Zenon, <1>2, <1>3, <1>4
<1>6. \A q \in Objects : obj'[q] = NoProcess \/ Other(o, obj'[q])
  BY Zenon, <1>5 DEF Other
<1>7. \A x : Other(o, x) /\ x.serial # 0 => \E q \in Objects : obj'[q] = x
  BY Zenon, <1>3, <1>5 DEF Other
<1>8. \A q, r \in Objects : q # r /\ obj'[q].serial = obj'[r].serial => obj'[q].serial = 0
  <2>1. /\ \A q, r \in Objects : q # r /\ obj[q].serial = obj[r].serial => obj[q].serial = 0
        /\ \A q \in Objects : obj[q].serial = job.child.serial => obj[q].serial = 0
    BY Zenon DEF ProcInv, ObjectsInv
  <2> QED
    BY <1>3, <1>5, <2>1
<1> QED
  BY Zenon, <1>2, <1>3, <1>5, <1>6, <1>7, <1>8, DropStep

\* A step of the spawn before there is a child, or of a stream of an object.
LEMMA JobStep ==
  ASSUME ProcInv, Lasting, OnlyFrees(0), spawned' = spawned, job'.child = job.child,
         obj' \in [Objects -> Procs],
         \A o \in Objects : /\ obj'[o].pid = obj[o].pid /\ obj'[o].serial = obj[o].serial
                            /\ Stands(obj'[o], owner, code, interrupted, struck),
         JobInv', OpenInv'
  PROVE  ProcInv'
<1>1. SystemInv'
  BY Zenon, SystemStep
<1>2. ObjectsInv'
  <2>1. \A q \in Objects : Stands(obj'[q], owner', code', interrupted', struck') /\ obj'[q].serial <= spawned'
    BY Zenon, ObjectFacts, StandsStep
  <2>2. Stands(job'.child, owner', code', interrupted', struck') /\ job'.child.serial <= spawned'
    BY Zenon, JobFacts, StandsStep
  <2>3. /\ \A r, q \in Objects : r # q /\ obj'[r].serial = obj'[q].serial => obj'[r].serial = 0
        /\ \A q \in Objects : obj'[q].serial = job'.child.serial => obj'[q].serial = 0
    BY DEF ProcInv, ObjectsInv
  <2>4. platform' = platform
    BY Zenon DEF Lasting
  <2> QED
    BY Zenon, <2>1, <2>2, <2>3, <2>4, ObjectsNext
<1>3. ReapInv'
  <2>1. SUFFICES ASSUME ~interrupted', NEW p \in Pids, owner'[p] > 0, hProcess(owner'[p]) \notin struck'
                 PROVE  Kept(p, owner[p])'
    BY Zenon DEF ReapInv, Lost, hProcess
  <2>2. owner[p] \in -1 .. spawned /\ owner'[p] \in -1 .. spawned /\ spawned \in Nat
    BY DEF ProcInv, SystemInv, OnlyFrees
  <2>3. owner'[p] = owner[p] /\ owner[p] > 0
    BY <2>1, <2>2 DEF OnlyFrees
  <2>4. Kept(p, owner[p])
    BY Zenon, <2>1, <2>3 DEF ProcInv, ReapInv, Lasting, Lost
  <2> QED
    BY Zenon, <2>3, <2>4 DEF Kept
<1> QED
  BY Zenon, <1>1, <1>2, <1>3 DEF ProcInv

\* A pipe of the object is closed.
LEMMA ClosePipeStep ==
  ASSUME ProcInv, NEW o \in Objects, NEW s \in Streams, ClosePipe(o, s)
  PROVE  ProcInv'
<1>1. /\ Idle /\ s \in obj[o].pipes /\ UNCHANGED <<platform, code, spawned, job, interrupted>>
      /\ obj' = [obj EXCEPT ![o].pipes = @ \ {s}]
  BY Zenon DEF ClosePipe
<1>2. PICK x : x = obj[o]
  BY Zenon
<1>3. PICK y : y = [x EXCEPT !.pipes = @ \ {s}]
  BY Zenon
<1>4. /\ x \in Procs /\ Proc(x) /\ Stands(x, owner, code, interrupted, struck) /\ obj \in [Objects -> Procs]
      /\ platform \in {"posix", "win32"}
  BY Zenon, <1>2, ObjectFacts, JobFacts DEF ProcInv, ObjectsInv
<1>5. /\ y \in Procs /\ y.pid = x.pid /\ y.serial = x.serial /\ y.finished = x.finished
      /\ y.status = x.status /\ y.thread = x.thread /\ y.pipes = x.pipes \ {s}
  BY Zenon, <1>3, <1>4 DEF Procs
<1>6. obj' \in [Objects -> Procs] /\ obj'[o] = y /\ \A q \in Objects : q # o => obj'[q] = obj[q]
  <2>1. obj' = [obj EXCEPT ![o] = y]
    BY Zenon, <1>1, <1>2, <1>3
  <2> QED
    BY Zenon, <1>4, <1>5, <2>1
<1>7. Stands(y, owner, code, interrupted, struck)
  <2>1. x # NoProcess
    BY Zenon, <1>1, <1>2, <1>4, NoProcessFacts
  <2>2. Proc(y)
    BY Zenon, <1>4, <1>5, <2>1 DEF Proc
  <2> QED
    BY Zenon, <1>4, <1>5, <2>2 DEF Stands, Unfinished
<1>8. UNCHANGED NoProcess /\ UNCHANGED NoJob
  BY Zenon, <1>1 DEF NoProcess, NoJob
<1>9. job.child = NoProcess /\ job' = NoJob /\ job'.child = NoProcess
  BY Zenon, <1>1, <1>4, NoProcessFacts DEF Idle
<1>10. JobInv'
  BY Zenon, <1>8, <1>9 DEF JobInv
<1>11. PICK c : c = <<x.serial, s, "parent">>
  BY Zenon
<1>12. c \in Held(x) /\ Held(y) = Held(x) \ {c} /\ \A n : hProcess(n) # c
  <2>1. s # "process"
    BY Zenon, SubprocessAssumption
  <2> QED
    BY <1>1, <1>2, <1>5, <1>11, <2>1 DEF Held, hProcess
<1>13. PICK S : Takes({c}, S)
  <2>1. Close({c}, x.serial)
    BY Zenon, <1>2, <1>11 DEF ClosePipe
  <2> QED
    BY Zenon, <2>1, CloseFacts
<1>14. Lasting
  BY Zenon, <1>1, <1>13 DEF Lasting, Takes, ProcInv, SystemInv
<1>15. OnlyFrees(0)
  <2>1. CASE platform = "posix"
    <3>1. owner' = owner /\ owner \in [Pids -> -1 .. spawned]
      BY Zenon, <2>1 DEF ClosePipe, ProcInv, SystemInv
    <3> QED
      BY Zenon, <3>1 DEF OnlyFrees
  <2>2. CASE platform = "win32"
    <3>1. Released
      BY Zenon, <2>2 DEF ClosePipe
    <3>2. \A n : hProcess(n) \in open /\ hProcess(n) \notin open' => hProcess(n) \in struck'
      BY Zenon, <1>12, <1>13 DEF Takes
    <3> QED
      BY Zenon, <1>14, <2>2, <3>1, <3>2, ReleasedFrees DEF Lasting
  <2> QED
    BY Zenon, <1>4, <2>1, <2>2
<1>16. OpenInv'
  <2>1. JobHolds' = {} /\ NullHeld' = {} /\ JobHolds = {} /\ NullHeld = {}
    BY Zenon, <1>1, <1>8, <1>9 DEF JobHolds, NullHeld, Idle
  <2>2. \A q \in Objects : Held(obj[q])' = Held(obj'[q])
    BY Zenon, <1>1 DEF Held
  <2>3. ASSUME NEW q \in Objects, q # o PROVE c \notin Held(obj[q])
    <3>1. Proc(obj[q]) /\ (obj[q].serial = x.serial => obj[q].serial = 0)
      BY Zenon, <1>2, <2>3, ObjectFacts DEF ProcInv, ObjectsInv
    <3>2. c \in Closes(x)
      BY Zenon, <1>12, HeldSerial
    <3> QED
      BY Zenon, <1>4, <3>1, <3>2, HeldApart
  <2>4. \A h : (\E q \in Objects : h \in Held(obj'[q])) <=> (\E q \in Objects : h \in Held(obj[q])) /\ h # c
    BY Zenon, <1>2, <1>6, <1>12, <2>3
  <2>5. \A h : h \in open <=> (\E q \in Objects : h \in Held(obj[q])) /\ h \notin struck
    BY Zenon, <2>1 DEF ProcInv, OpenInv, HasHolder
  <2>6. \A h : h \in open' <=> (\E q \in Objects : h \in Held(obj'[q])) /\ h \notin struck'
    BY Zenon, <1>13, <2>4, <2>5 DEF Takes
  <2>7. StruckInv'
    <3>1. StruckInv
      BY Zenon DEF ProcInv, OpenInv
    <3>2. c \notin open => c \in struck
      BY Zenon, <1>2, <1>12, <2>5
    <3>3. \A h \in misclosed' : h[2] = "thread" \/ h \in struck'
      BY Zenon, <1>13, <3>1, <3>2 DEF Takes, StruckInv
    <3>4. platform = "posix" => misclosed' = {} /\ struck' = {}
      BY Zenon, <1>13, <3>1, <3>2 DEF Takes, StruckInv
    <3>5. \A h \in struck' : h[1] \in 0 .. spawned
      BY Zenon, <1>13, <2>1, <3>1, OpenStarted DEF Takes, StruckInv
    <3> QED
      BY Zenon, <1>1, <3>3, <3>4, <3>5 DEF StruckInv
  <2> QED
    BY Zenon, <2>1, <2>2, <2>6, <2>7 DEF OpenInv, HasHolder
<1>17. \A q \in Objects : /\ obj'[q].pid = obj[q].pid /\ obj'[q].serial = obj[q].serial
                          /\ Stands(obj'[q], owner, code, interrupted, struck)
  BY Zenon, <1>2, <1>5, <1>6, <1>7, ObjectFacts
<1> QED
  BY Zenon, <1>1, <1>6, <1>9, <1>10, <1>14, <1>15, <1>16, <1>17, JobStep

-----------------------------------------------------------------------------
(* spawn                                                                   *)

\* The handles of the objects are older than those of the spawn.
LEMMA HeldOlder ==
  ASSUME ProcInv, NEW o \in Objects, NEW h \in Held(obj[o])
  PROVE  h[1] # Next1
<1>1. h[1] = obj[o].serial
  BY Zenon, HeldSerial
<1>2. obj[o].serial <= spawned /\ obj[o].serial \in Serials \cup {0}
  BY Zenon, ObjectFacts
<1>3. spawned \in Nat
  BY DEF ProcInv, SystemInv
<1> QED
  BY <1>1, <1>2, <1>3, SubprocessAssumption DEF Next1, Serials

\* No handle of the spawn under way has been struck.
LEMMA SpawnsFresh ==
  ASSUME ProcInv, NEW h, h[1] = Next1
  PROVE  h \notin struck
<1>1. h \in struck => h[1] \in 0 .. spawned
  BY Zenon DEF ProcInv, OpenInv, StruckInv
<1>2. spawned \in Nat
  BY DEF ProcInv, SystemInv
<1> QED
  BY <1>1, <1>2 DEF Next1

\* A step of spawn that leaves the processes and the objects alone.
LEMMA SpawnStep ==
  ASSUME ProcInv, UNCHANGED <<platform, processes, obj, interrupted, misclosed, struck>>,
         job.child = NoProcess, job'.child = NoProcess, JobInv',
         \A h : (\E o \in Objects : h \in Held(obj[o])) \/ h \in JobHolds' => h \in open' \/ h \in struck,
         \A h \in open' : /\ (\E o \in Objects : h \in Held(obj[o])) \/ h \in JobHolds' \/ h \in NullHeld'
                          /\ h \notin struck
  PROVE  ProcInv'
<1>1. OpenInv'
  <2>1. \A o \in Objects : Held(obj[o])' = Held(obj[o])
    BY Zenon DEF Held
  <2>2. StruckInv'
    BY Zenon DEF ProcInv, OpenInv, StruckInv, processes
  <2>3. \A h : HasHolder(h)' <=> (\E o \in Objects : h \in Held(obj[o])) \/ h \in JobHolds'
    BY Zenon, <2>1 DEF HasHolder
  <2> QED
    BY Zenon, <2>2, <2>3 DEF OpenInv
<1>2. obj' \in [Objects -> Procs]
  BY Zenon DEF ProcInv, ObjectsInv
<1>3. \A o \in Objects : /\ obj'[o].pid = obj[o].pid /\ obj'[o].serial = obj[o].serial
                         /\ Stands(obj'[o], owner, code, interrupted, struck)
  BY Zenon, ObjectFacts
<1>4. Lasting /\ OnlyFrees(0) /\ spawned' = spawned
  BY Zenon DEF ProcInv, SystemInv, Lasting, OnlyFrees, processes
<1> QED
  BY Zenon, <1>1, <1>2, <1>3, <1>4, JobStep

\* The failure of a spawn.
LEMMA CleanupStep ==
  ASSUME ProcInv, ~Idle, job.child = NoProcess, Cleanup,
         UNCHANGED <<platform, processes, obj, interrupted, misclosed, struck>>
  PROVE  ProcInv'
<1>1. UNCHANGED NoProcess /\ UNCHANGED NoJob
  BY Zenon DEF NoProcess, NoJob
<1>2. job' = NoJob /\ job'.child = NoProcess
  BY Zenon, JobFacts, NoProcessFacts DEF Cleanup
<1>3. JobInv' /\ JobHolds' = {} /\ NullHeld' = {}
  BY Zenon, <1>1, <1>2 DEF JobInv, JobHolds, NullHeld, Idle
<1>4. open' = {h \in open : h[1] # Next1}
  BY Zenon DEF Cleanup
<1>5. \A h : (\E o \in Objects : h \in Held(obj[o])) => h \in open' \/ h \in struck
  BY Zenon, <1>4, HeldOlder DEF ProcInv, OpenInv, HasHolder
<1>6. ASSUME NEW h \in open' PROVE (\E o \in Objects : h \in Held(obj[o])) /\ h \notin struck
  <2>1. h \in open /\ h[1] # Next1
    BY Zenon, <1>4, <1>6
  <2>2. h \notin JobHolds /\ h \notin NullHeld
    BY <2>1 DEF JobHolds, NullHeld, Ends, Null
  <2> QED
    BY Zenon, <2>1, <2>2 DEF ProcInv, OpenInv, HasHolder
<1> QED
  BY Zenon, <1>2, <1>3, <1>5, <1>6, SpawnStep

\* A call of spawn begins.
LEMMA SpawnCallStep ==
  ASSUME ProcInv, NEW o \in Objects, NEW pipes \in SUBSET Streams, NEW null \in BOOLEAN, Spawn(o, pipes, null)
  PROVE  ProcInv'
<1>1. /\ Idle /\ spawned < MaxSpawns /\ UNCHANGED <<platform, processes, obj, open, interrupted, misclosed, struck>>
      /\ job' = [into |-> o, todo |-> pipes, pipes |-> pipes, null |-> null, child |-> NoProcess]
  BY Zenon DEF Spawn
<1>2. UNCHANGED NoProcess /\ UNCHANGED NoJob /\ spawned' = spawned
  BY Zenon, <1>1 DEF NoProcess, NoJob, processes
<1>3. job.child = NoProcess /\ NoProcess \in Procs
  BY Zenon, <1>1, JobFacts, NoProcessFacts DEF Idle
<1>4. job'.into = o /\ job'.todo = pipes /\ job'.pipes = pipes /\ job'.child = NoProcess
  BY Zenon, <1>1
<1>5. job' \in Jobs
  BY Zenon, <1>1, <1>3 DEF Jobs
<1>6. JobInv'
  BY Zenon, <1>1, <1>2, <1>4, <1>5 DEF JobInv, Jobs, Procs
<1>7. JobHolds = {} /\ NullHeld = {}
  BY Zenon, <1>1, <1>3 DEF JobHolds, NullHeld
<1>8. JobHolds' = {}
  BY <1>2, <1>4 DEF JobHolds, Ends, Idle
<1>9. \A h : h \in open <=> (\E q \in Objects : h \in Held(obj[q])) /\ h \notin struck
  BY Zenon, <1>7 DEF ProcInv, OpenInv, HasHolder
<1>10. open' = open
  BY Zenon, <1>1
<1> QED
  BY Zenon, <1>1, <1>3, <1>4, <1>6, <1>8, <1>9, <1>10, SpawnStep

\* A spawn that has not got its child yet.
LEMMA UnderWay ==
  ASSUME ProcInv, ~Idle, job.child = NoProcess
  PROVE  /\ job \in Jobs /\ job.todo \subseteq job.pipes /\ spawned < MaxSpawns /\ spawned \in Nat
         /\ job.into # "none" /\ job.into \in Objects
         /\ job.pipes \in SUBSET Streams /\ job.todo \in SUBSET Streams
         /\ JobHolds = Ends(job.pipes \ job.todo, Sides) /\ NullHeld = Null
         /\ \A h : h \in JobHolds \/ (\E q \in Objects : h \in Held(obj[q])) => h \in open \/ h \in struck
         /\ \A h \in open : /\ (\E q \in Objects : h \in Held(obj[q])) \/ h \in JobHolds \/ h \in Null
                           /\ h \notin struck
<1>1. job \in Jobs /\ job.todo \subseteq job.pipes /\ spawned < MaxSpawns /\ spawned \in Nat
  BY DEF ProcInv, JobInv, SystemInv, Idle
<1>2. /\ job.into # "none" /\ job.into \in Objects
      /\ job.pipes \in SUBSET Streams /\ job.todo \in SUBSET Streams
  BY Zenon, <1>1, SubprocessAssumption DEF Jobs
<1>3. JobHolds = Ends(job.pipes \ job.todo, Sides) /\ NullHeld = Null
  BY Zenon DEF JobHolds, NullHeld
<1> QED
  BY Zenon, <1>1, <1>2, <1>3 DEF ProcInv, OpenInv, HasHolder

\* spawn makes a pipe, or fails and closes those it has.
LEMMA MakePipeStep ==
  ASSUME ProcInv, MakePipe
  PROVE  ProcInv'
<1>1. job.todo # {} /\ UNCHANGED <<platform, processes, obj, interrupted, misclosed, struck>>
  BY Zenon DEF MakePipe
<1>2. ~Idle
  BY <1>1 DEF Idle, NoJob
<1>3. job.child = NoProcess
  BY Zenon, <1>1, <1>2 DEF ProcInv, JobInv, Idle
<1>4. CASE Cleanup
  BY Zenon, <1>1, <1>2, <1>3, <1>4, CleanupStep
<1>5. CASE ~Cleanup
  <2>1. PICK s \in job.todo : /\ open' = open \cup Ends({s}, Sides)
                              /\ job' = [job EXCEPT !.todo = @ \ {s}]
    BY Zenon, <1>5 DEF MakePipe
  <2>2. UNCHANGED NoProcess /\ UNCHANGED NoJob /\ spawned' = spawned
    BY Zenon, <1>1 DEF NoProcess, NoJob, processes
  <2>3. job \in Jobs /\ job.todo \subseteq job.pipes /\ job.into # "none"
    BY Zenon, <1>2, <1>3, UnderWay
  <2>4. /\ job' \in Jobs /\ job'.todo = job.todo \ {s} /\ job'.pipes = job.pipes /\ job'.child = job.child
        /\ job'.into = job.into
    BY Zenon, <2>1, <2>3 DEF Jobs
  <2>5. job' # NoJob
    BY <2>3, <2>4 DEF NoJob
  <2>6. JobInv'
    <3>1. job'.todo \subseteq job'.pipes /\ spawned < MaxSpawns /\ job'.child = NoProcess
      BY Zenon, <1>2, <1>3, <2>4, UnderWay
    <3> QED
      BY Zenon, <2>2, <2>4, <3>1 DEF JobInv, Jobs, Procs
  <2>7. JobHolds = Ends(job.pipes \ job.todo, Sides) /\ NullHeld = Null
    BY Zenon, <1>2, <1>3, UnderWay
  <2>8. JobHolds' = JobHolds \cup Ends({s}, Sides) /\ NullHeld' = Null
    <3>1. JobHolds' = Ends(job.pipes \ (job.todo \ {s}), Sides)
      BY <1>3, <2>2, <2>4, <2>5 DEF JobHolds, Idle, Ends, Next1, Sides
    <3>2. job.pipes \ (job.todo \ {s}) = (job.pipes \ job.todo) \cup {s}
      BY Zenon, <2>3
    <3>3. Ends((job.pipes \ job.todo) \cup {s}, Sides) = Ends(job.pipes \ job.todo, Sides) \cup Ends({s}, Sides)
      BY DEF Ends
    <3>4. NullHeld' = Null
      BY Zenon, <1>3, <2>2, <2>4, <2>5 DEF NullHeld, Idle, Null, Next1
    <3> QED
      BY Zenon, <2>7, <3>1, <3>2, <3>3, <3>4
  <2>9. \A h : (\E q \in Objects : h \in Held(obj[q])) \/ h \in JobHolds' => h \in open' \/ h \in struck
    BY Zenon, <1>2, <1>3, <2>1, <2>8, UnderWay
  <2>10. \A h \in open' : /\ (\E q \in Objects : h \in Held(obj[q])) \/ h \in JobHolds' \/ h \in NullHeld'
                          /\ h \notin struck
    <3>1. \A h \in Ends({s}, Sides) : h \notin struck
      BY SpawnsFresh DEF Ends
    <3> QED
      BY Zenon, <1>2, <1>3, <2>1, <2>8, <3>1, UnderWay
  <2>11. job'.child = NoProcess
    BY Zenon, <1>3, <2>4
  <2> QED
    BY Zenon, <1>1, <1>3, <2>6, <2>9, <2>10, <2>11, SpawnStep
<1> QED
  BY Zenon, <1>4, <1>5

\* spawn opens the null device, or fails and closes its pipes.
LEMMA OpenNullStep ==
  ASSUME ProcInv, OpenNull
  PROVE  ProcInv'
<1>1. ~Idle /\ job.null /\ UNCHANGED <<platform, processes, obj, interrupted, misclosed, struck>>
  BY Zenon DEF OpenNull
<1>2. job.child = NoProcess
  BY Zenon, <1>1 DEF ProcInv, JobInv, Idle
<1>3. CASE Cleanup
  BY Zenon, <1>1, <1>2, <1>3, CleanupStep
<1>4. CASE ~Cleanup
  <2>1. open' = open \cup Null /\ job' = [job EXCEPT !.null = FALSE]
    BY Zenon, <1>4 DEF OpenNull
  <2>2. UNCHANGED NoProcess /\ UNCHANGED NoJob /\ spawned' = spawned
    BY Zenon, <1>1 DEF NoProcess, NoJob, processes
  <2>3. job \in Jobs /\ job.todo \subseteq job.pipes /\ job.into # "none" /\ spawned < MaxSpawns
    BY Zenon, <1>1, <1>2, UnderWay
  <2>4. /\ job' \in Jobs /\ job'.todo = job.todo /\ job'.pipes = job.pipes /\ job'.child = job.child
        /\ job'.into = job.into
    BY Zenon, <2>1, <2>3 DEF Jobs
  <2>5. job' # NoJob
    BY <2>3, <2>4 DEF NoJob
  <2>6. JobInv'
    BY Zenon, <1>2, <2>2, <2>3, <2>4 DEF JobInv, Jobs, Procs
  <2>7. JobHolds' = JobHolds /\ NullHeld' = Null
    <3>1. JobHolds' = Ends(job.pipes \ job.todo, Sides)
      BY <1>2, <2>2, <2>4, <2>5 DEF JobHolds, Idle, Ends, Next1, Sides
    <3>2. NullHeld' = Null
      BY Zenon, <1>2, <2>2, <2>4, <2>5 DEF NullHeld, Idle, Null, Next1
    <3> QED
      BY Zenon, <1>1, <1>2, <3>1, <3>2, UnderWay
  <2>8. \A h : (\E q \in Objects : h \in Held(obj[q])) \/ h \in JobHolds' => h \in open' \/ h \in struck
    BY Zenon, <1>1, <1>2, <2>1, <2>7, UnderWay
  <2>9. \A h \in open' : /\ (\E q \in Objects : h \in Held(obj[q])) \/ h \in JobHolds' \/ h \in NullHeld'
                         /\ h \notin struck
    <3>1. \A h \in Null : h \notin struck
      BY SpawnsFresh DEF Null
    <3> QED
      BY Zenon, <1>1, <1>2, <2>1, <2>7, <3>1, UnderWay
  <2>10. job'.child = NoProcess
    BY Zenon, <1>2, <2>4
  <2> QED
    BY Zenon, <1>1, <1>2, <2>6, <2>8, <2>9, <2>10, SpawnStep
<1> QED
  BY Zenon, <1>3, <1>4

\* What the parent has open once the child runs.
OpenAfterStart ==
  open' = (open \ (Ends(job.pipes, {"child"}) \cup Null))
            \cup (IF platform = "win32" THEN {<<Next1, "process", "parent">>} ELSE {})

\* The child runs.
LEMMA StartStep ==
  ASSUME ProcInv, Ready, NEW p \in Pids, NEW x \in Procs, Starts(p, x), OpenAfterStart,
         x.pid = p, x.serial = Next1, ~x.finished, x.pipes = job.pipes, platform = "posix" => ~x.thread,
         UNCHANGED <<platform, code, obj, interrupted, misclosed, struck>>
  PROVE  ProcInv'
<1>1. /\ owner \in [Pids -> -1 .. spawned] /\ spawned \in Nat /\ platform \in {"posix", "win32"}
      /\ \A q, r \in Pids : owner[q] > 0 /\ owner[q] = owner[r] => q = r
      /\ code \in [Serials -> Codes \cup {Alive, Signalled}] /\ interrupted \in BOOLEAN
      /\ (platform = "win32" => interrupted = FALSE)
      /\ obj \in [Objects -> Procs] /\ MaxSpawns \in Nat
  BY SubprocessAssumption DEF ProcInv, SystemInv, ObjectsInv
<1>2. ~Idle /\ job.child = NoProcess /\ job.todo = {} /\ ~job.null
  BY Zenon DEF Ready
<1>3. /\ job \in Jobs /\ job.todo \subseteq job.pipes /\ spawned < MaxSpawns
      /\ job.into # "none" /\ job.pipes \in SUBSET Streams
  BY Zenon, <1>2, UnderWay
<1>4. PICK n : n = spawned + 1
  BY Zenon
<1>5. n \in Serials /\ n = Next1 /\ n > 0 /\ n \in Nat
  BY <1>1, <1>3, <1>4 DEF Serials, Next1
<1>6. owner[p] = 0 /\ owner' = [owner EXCEPT ![p] = n] /\ spawned' = n /\ job' = [job EXCEPT !.child = x]
  BY Zenon, <1>5 DEF Starts
<1>7. UNCHANGED NoProcess /\ UNCHANGED NoJob
  BY Zenon DEF NoProcess, NoJob
<1>8. /\ job' \in Jobs /\ job'.todo = job.todo /\ job'.pipes = job.pipes /\ job'.child = x
      /\ job'.into = job.into /\ job'.null = job.null
  BY Zenon, <1>3, <1>6 DEF Jobs
<1>9. x # NoProcess /\ p # 0 /\ job' # NoJob
  <2>1. p # 0
    BY Zenon, SubprocessAssumption
  <2>2. NoProcess.pid = 0
    BY Zenon, <1>1, NoProcessFacts
  <2>3. job' # NoJob
    BY <1>3, <1>8 DEF NoJob
  <2> QED
    BY Zenon, <2>1, <2>2, <2>3
<1>10. /\ owner'[p] = n /\ \A q \in Pids : q # p => owner'[q] = owner[q]
       /\ \A q \in Pids : owner[q] \in -1 .. spawned /\ owner[q] # n
  BY <1>1, <1>4, <1>6
<1>11. SystemInv'
  <2>1. owner' \in [Pids -> -1 .. n]
    BY <1>1, <1>4, <1>5, <1>6
  <2>2. n \in 0 .. MaxSpawns
    BY <1>1, <1>5 DEF Serials
  <2>3. ASSUME NEW q \in Pids, NEW r \in Pids, owner'[q] > 0, owner'[q] = owner'[r] PROVE q = r
    BY Zenon, <1>1, <1>10, <2>3
  <2> QED
    BY Zenon, <1>1, <1>6, <2>1, <2>2, <2>3 DEF SystemInv
<1>12. JobInv'
  BY Zenon, <1>2, <1>3, <1>5, <1>6, <1>7, <1>8, <1>9 DEF JobInv, Jobs, Procs
<1>13. ObjectsInv'
  <2>1. ASSUME NEW o \in Objects
        PROVE  /\ Stands(obj'[o], owner', code', interrupted', struck') /\ obj'[o].serial <= spawned'
               /\ obj'[o].serial # n
    <3>1. PICK y : y = obj[o]
      BY Zenon
    <3>2. /\ Stands(y, owner, code, interrupted, struck) /\ y.serial <= spawned /\ y.serial \in Serials \cup {0}
      BY Zenon, <3>1, ObjectFacts
    <3>3. y.serial \in Nat /\ y.serial # n /\ y.serial <= n
      BY <1>1, <1>4, <3>2 DEF Serials
    <3>4. y.serial # 0 => \A q \in Pids : owner'[q] = y.serial <=> owner[q] = y.serial
      BY Zenon, <1>6, <1>10, <3>3
    <3>5. Stands(y, owner', code', interrupted', struck')
      <4>1. (interrupted => interrupted') /\ \A s \in Serials : code[s] # Alive => code'[s] = code[s]
        BY Zenon
      <4>2. platform \in {"posix", "win32"}
        BY Zenon, <1>1
      <4> QED
        BY <3>2, <3>4, <4>1, <4>2, StandsKept
    <3> QED
      BY Zenon, <1>6, <3>1, <3>3, <3>5
  <2>2. Stands(job'.child, owner', code', interrupted', struck') /\ job'.child.serial <= spawned'
    <3>1. Proc(x)
      BY <1>5, <1>9 DEF Proc
    <3>2. Stands(x, owner', code', interrupted', struck')
      BY Zenon, <1>5, <1>10, <3>1 DEF Stands
    <3> QED
      BY <1>5, <1>6, <1>8, <3>2
  <2>3. \A o, q \in Objects : o # q /\ obj'[o].serial = obj'[q].serial => obj'[o].serial = 0
    BY Zenon DEF ProcInv, ObjectsInv
  <2>4. \A o \in Objects : obj'[o].serial = job'.child.serial => obj'[o].serial = 0
    BY Zenon, <1>5, <1>8, <2>1
  <2>5. obj' \in [Objects -> Procs]
    BY Zenon, <1>1
  <2> QED
    BY Zenon, <2>1, <2>2, <2>3, <2>4, <2>5, ObjectsNext
<1>14. ReapInv'
  <2>1. SUFFICES ASSUME ~interrupted', NEW q \in Pids, owner'[q] > 0, hProcess(owner'[q]) \notin struck
                 PROVE  Kept(q, owner[q])'
    BY Zenon DEF ReapInv, Lost, hProcess
  <2>2. CASE q = p
    BY Zenon, <1>5, <1>8, <1>10, <2>2 DEF Kept
  <2>3. CASE q # p
    <3>1. owner'[q] = owner[q] /\ owner[q] > 0
      BY Zenon, <1>10, <2>1, <2>3
    <3>2. Kept(q, owner[q])
      BY Zenon, <2>1, <3>1 DEF ProcInv, ReapInv, Lost
    <3>3. job.child.serial = 0
      BY Zenon, <1>1, <1>2, NoProcessFacts
    <3> QED
      BY <3>1, <3>2, <3>3 DEF Kept
  <2> QED
    BY Zenon, <2>2, <2>3
<1>15. OpenInv'
  <2>1. JobHolds' = Held(x) /\ NullHeld' = {}
    BY Zenon, <1>7, <1>8, <1>9 DEF JobHolds, NullHeld, Held
  <2>2. \A o \in Objects : Held(obj[o])' = Held(obj[o])
    BY Zenon DEF Held
  <2>3. /\ JobHolds = Ends(job.pipes, Sides)
        /\ \A h : h \in JobHolds \/ (\E q \in Objects : h \in Held(obj[q])) => h \in open \/ h \in struck
        /\ \A h \in open : /\ (\E q \in Objects : h \in Held(obj[q])) \/ h \in JobHolds \/ h \in Null
                          /\ h \notin struck
    <3>1. job.pipes \ job.todo = job.pipes
      BY Zenon, <1>2
    <3> QED
      BY Zenon, <1>2, <3>1, UnderWay
  <2>4. \A h \in Ends(job.pipes, {"child"}) \cup Null : h[1] = Next1 /\ h[3] = "child"
    BY DEF Ends, Null
  <2>5. \A h \in Held(x) : h[3] = "parent" /\ (h \in Ends(job.pipes, Sides) \/ (platform = "win32" /\ h = <<Next1, "process", "parent">>))
    BY DEF Held, Ends, Sides, hProcess
  <2>6. \A h \in Held(x) : h \in open' \/ h \in struck
    BY Zenon, <2>3, <2>4, <2>5 DEF OpenAfterStart
  <2>7. ASSUME NEW o \in Objects, NEW h \in Held(obj[o]), h \notin struck PROVE h \in open'
    <3>1. h \in open /\ h[1] # Next1
      BY Zenon, <2>3, <2>7, HeldOlder
    <3> QED
      BY Zenon, <2>4, <3>1 DEF OpenAfterStart
  <2>8. ASSUME NEW h \in open' PROVE ((\E o \in Objects : h \in Held(obj[o])) \/ h \in Held(x)) /\ h \notin struck
    <3>1. CASE platform = "win32" /\ h = <<Next1, "process", "parent">>
      <4>1. h[1] = Next1
        BY <3>1
      <4>2. h \in Held(x)
        BY Zenon, <1>9, <3>1 DEF Held, hProcess
      <4> QED
        BY Zenon, <4>1, <4>2, SpawnsFresh
    <3>2. CASE h \in open /\ h \notin Ends(job.pipes, {"child"}) /\ h \notin Null
      <4>1. h \in Ends(job.pipes, Sides) => h \in Held(x)
        BY <3>2 DEF Ends, Sides, Held
      <4> QED
        BY Zenon, <2>3, <3>2, <4>1
    <3> QED
      BY Zenon, <2>8, <3>1, <3>2 DEF OpenAfterStart
  <2>9. StruckInv'
    <3>1. StruckInv
      BY Zenon DEF ProcInv, OpenInv
    <3>2. 0 .. spawned \subseteq 0 .. n
      BY <1>1, <1>4
    <3> QED
      BY Zenon, <1>6, <3>1, <3>2 DEF StruckInv
  <2>10. \A h : HasHolder(h)' <=> (\E o \in Objects : h \in Held(obj[o])) \/ h \in Held(x)
    BY Zenon, <2>1, <2>2 DEF HasHolder
  <2> QED
    BY Zenon, <2>6, <2>7, <2>8, <2>9, <2>10 DEF OpenInv
<1> QED
  BY Zenon, <1>11, <1>12, <1>13, <1>14, <1>15 DEF ProcInv

\* fork or CreateProcess, and their failure.
LEMMA ForkStep ==
  ASSUME ProcInv, Fork \/ CreateProcess
  PROVE  ProcInv'
<1>1. /\ Ready /\ ~Idle /\ job.child = NoProcess /\ platform \in {"posix", "win32"}
      /\ UNCHANGED <<platform, code, obj, interrupted, misclosed, struck>>
  BY Zenon, JobFacts DEF Fork, CreateProcess, Ready
<1>2. /\ NoProcess \in Procs /\ NoProcess.finished = FALSE /\ NoProcess.thread = FALSE /\ job.pipes \in SUBSET Streams
      /\ spawned < MaxSpawns /\ spawned \in Nat
  BY Zenon, <1>1, NoProcessFacts, UnderWay
<1>3. Next1 \in Serials
  BY <1>2, SubprocessAssumption DEF Next1, Serials
<1>4. ASSUME NEW p \in Pids
      PROVE  \A x \in {NewProcess(p), [NewProcess(p) EXCEPT !.thread = TRUE]} :
               /\ x \in Procs /\ x.pid = p /\ x.serial = Next1 /\ ~x.finished /\ x.pipes = job.pipes
               /\ x = NewProcess(p) => ~x.thread
  BY Zenon, <1>2, <1>3 DEF NewProcess, Procs
<1>5. CASE Cleanup /\ UNCHANGED <<owner, spawned>>
  <2>1. UNCHANGED <<platform, processes, obj, interrupted, misclosed, struck>>
    BY Zenon, <1>1, <1>5 DEF processes
  <2> QED
    BY Zenon, <1>1, <1>5, <2>1, CleanupStep
<1>6. CASE Fork /\ ~(Cleanup /\ UNCHANGED <<owner, spawned>>)
  <2>1. PICK p \in Pids : Starts(p, NewProcess(p))
    BY Zenon, <1>6 DEF Fork
  <2>2. OpenAfterStart /\ platform = "posix"
    BY Zenon, <1>6 DEF Fork, OpenAfterStart
  <2> QED
    BY Zenon, <1>1, <1>4, <2>1, <2>2, StartStep
<1>7. CASE CreateProcess /\ ~(Cleanup /\ UNCHANGED <<owner, spawned>>)
  <2>1. PICK p \in Pids : Starts(p, [NewProcess(p) EXCEPT !.thread = TRUE])
    BY Zenon, <1>7 DEF CreateProcess
  <2>2. OpenAfterStart /\ platform = "win32"
    BY Zenon, <1>7 DEF CreateProcess, OpenAfterStart
  <2> QED
    BY Zenon, <1>1, <1>4, <2>1, <2>2, StartStep
<1> QED
  BY Zenon, <1>5, <1>6, <1>7

\* Every step of the process class keeps its invariant.
LEMMA ProcessStep ==
  ASSUME ProcInv, [ProcessNext]_pvars
  PROVE  ProcInv'
<1>1. CASE System
  BY Zenon, <1>1, ChildExitsStep, ForeignStep DEF System
<1>2. CASE SpawnSteps
  BY Zenon, <1>2, MakePipeStep, OpenNullStep, ForkStep, AssignStep DEF SpawnSteps
<1>3. CASE Calls
  <2>1. PICK o \in Objects :
           \/ \E pipes \in SUBSET Streams, null \in BOOLEAN : Spawn(o, pipes, null)
           \/ poll_exit(o) \/ wait(o) \/ terminate(o) \/ send_signal(o) \/ Destroy(o)
           \/ \E from \in Objects : Move(o, from)
           \/ \E s \in Streams : ClosePipe(o, s)
    BY Zenon, <1>3 DEF Calls
  <2>2. CASE send_signal(o)
    BY Zenon, <2>2, SignalStep, TerminateStep DEF send_signal
  <2> QED
    BY Zenon, <2>1, <2>2, SpawnCallStep, WaitStep, TerminateStep, DestroyStep, MoveStep, ClosePipeStep
<1>4. CASE UNCHANGED pvars
  <2>1. UNCHANGED <<spawned, obj, open, job, interrupted, misclosed, struck, platform, owner, code>>
    BY Zenon, <1>4 DEF pvars, processes
  <2>2. interrupted \in BOOLEAN /\ owner \in [Pids -> -1 .. spawned]
        /\ code \in [Serials -> Codes \cup {Alive, Signalled}] /\ (platform = "win32" => interrupted = FALSE)
    BY Zenon DEF ProcInv, SystemInv
  <2>3. Lasting /\ OnlyFrees(0)
    BY Zenon, <2>1, <2>2 DEF Lasting, OnlyFrees
  <2> QED
    BY Zenon, <2>1, <2>3, QuietStep
<1> QED
  BY Zenon, <1>1, <1>2, <1>3, <1>4 DEF ProcessNext

\* At the start there is no child.
LEMMA ProcessStart ==
  ASSUME ProcessInit
  PROVE  ProcInv
<1>1. /\ platform \in {"posix", "win32"} /\ spawned = 0 /\ interrupted = FALSE
      /\ misclosed = {} /\ struck = {} /\ open = {}
      /\ owner = [p \in Pids |-> 0] /\ code = [s \in Serials |-> Alive] /\ job = NoJob
      /\ obj = [o \in Objects |-> NoProcess] /\ MaxSpawns \in Nat
  BY Zenon, SubprocessAssumption DEF ProcessInit
<1>2. /\ NoProcess \in Procs /\ NoProcess.serial = 0 /\ job.child = NoProcess /\ Held(NoProcess) = {}
      /\ Stands(NoProcess, owner, code, interrupted, struck)
  BY Zenon, <1>1, NoProcessFacts, NoProcessStands
<1>3. \A o \in Objects : obj[o] = NoProcess
  BY Zenon, <1>1
<1>4. SystemInv
  <2>1. \A p \in Pids : owner[p] = 0
    BY Zenon, <1>1
  <2>2. owner \in [Pids -> -1 .. spawned] /\ spawned \in 0 .. MaxSpawns
    BY <1>1
  <2>3. code \in [Serials -> Codes \cup {Alive, Signalled}]
    BY Zenon, <1>1
  <2>4. \A p \in Pids : ~(owner[p] > 0)
    BY <2>1
  <2>5. interrupted \in BOOLEAN
    BY Zenon, <1>1
  <2> QED
    BY Zenon, <1>1, <2>2, <2>3, <2>4, <2>5 DEF SystemInv
<1>5. JobInv
  BY Zenon, <1>1 DEF JobInv
<1>6. ObjectsInv
  <2>1. obj \in [Objects -> Procs] /\ NoProcess.serial <= spawned
    BY <1>1, <1>2
  <2> QED
    BY Zenon, <1>2, <1>3, <2>1 DEF ObjectsInv
<1>7. ReapInv
  BY <1>1 DEF ReapInv
<1>8. OpenInv
  <2>1. JobHolds = {} /\ NullHeld = {}
    BY Zenon, <1>1, <1>2 DEF JobHolds, NullHeld, Idle
  <2>2. \A o \in Objects : Held(obj[o]) = {}
    BY Zenon, <1>2, <1>3
  <2> QED
    BY Zenon, <1>1, <2>1, <2>2 DEF OpenInv, StruckInv, HasHolder
<1> QED
  BY Zenon, <1>4, <1>5, <1>6, <1>7, <1>8 DEF ProcInv

\* The invariant says what the runs check of the class.
LEMMA ProcessSafe ==
  ASSUME ProcInv
  PROVE  ChildrenAccounted /\ HandlesOwned
<1>1. ASSUME NEW o \in Objects
      PROVE  /\ Unfinished(obj[o]) /\ ~Lost(obj[o].serial) => owner[obj[o].pid] = obj[o].serial
             /\ ~interrupted /\ obj[o].finished /\ ~Lost(obj[o].serial) =>
                  /\ obj[o].pid # 0
                  /\ obj[o].status = code[obj[o].serial]
  <2>1. obj[o].finished => obj[o] # NoProcess
    BY Zenon, JobFacts, NoProcessFacts
  <2> QED
    BY Zenon, <2>1, ObjectFacts DEF Stands, Proc, Lost
<1>2. ASSUME ~interrupted, NEW p \in Pids, owner[p] > 0, ~Lost(owner[p])
      PROVE  \E x \in {obj[o] : o \in Objects} \cup {job.child} : x.serial = owner[p] /\ x.pid = p
  <2>1. Kept(p, owner[p])
    BY Zenon, <1>2 DEF ProcInv, ReapInv
  <2> QED
    BY Zenon, <2>1 DEF Kept
<1>3. \A o \in Objects : ~interrupted /\ obj[o].finished /\ ~Lost(obj[o].serial) =>
        ExitCode(obj[o]) = IF code[obj[o].serial] = Signalled THEN 1 ELSE code[obj[o].serial]
  BY Zenon, <1>1 DEF ExitCode
<1>4. ChildrenAccounted
  BY Zenon, <1>1, <1>2, <1>3 DEF ChildrenAccounted
<1>5. ASSUME Idle PROVE open = (UNION {Held(obj[o]) : o \in Objects}) \ struck
  <2>1. job.child = NoProcess
    BY Zenon, <1>5, JobFacts, NoProcessFacts DEF Idle
  <2>2. JobHolds = {} /\ NullHeld = {}
    BY Zenon, <1>5, <2>1 DEF JobHolds, NullHeld
  <2>3. \A h : h \in open <=> (\E o \in Objects : h \in Held(obj[o])) /\ h \notin struck
    BY Zenon, <2>2 DEF ProcInv, OpenInv, HasHolder
  <2> QED
    BY Zenon, <2>3
<1>6. ASSUME NEW o \in Objects, NEW q \in Objects, o # q, NEW h \in Held(obj[o]) PROVE h \notin Held(obj[q])
  <2>1. obj[o].serial = obj[q].serial => obj[o].serial = 0
    BY Zenon, <1>6 DEF ProcInv, ObjectsInv
  <2>2. h \notin Closes(obj[q])
    BY Zenon, <2>1, ObjectFacts, JobFacts, HeldApart
  <2> QED
    BY Zenon, <2>2, HeldSerial
<1>7. HandlesOwned
  <2>1. \A o, q \in Objects : o # q => Held(obj[o]) \cap Held(obj[q]) = {}
    BY Zenon, <1>6
  <2>2. StruckInv
    BY Zenon DEF ProcInv, OpenInv
  <2> QED
    BY Zenon, <1>5, <2>1, <2>2 DEF HandlesOwned, StruckInv
<1> QED
  BY Zenon, <1>4, <1>7

-----------------------------------------------------------------------------
(* The inductive invariant of the two examples                             *)

Msgs == {"hello", "stranger", "error", "step", "done"}
In(m, s) == \E i \in 1 .. Len(s) : s[i] = m

TalkType ==
  /\ program \in {"progress", "monitor", "api"}
  /\ ppc \in {"api", "spawn", "spawning", "failing", "hello", "hello_exit", "ack", "consume", "consume_exit",
              "drain", "region", "monitor", "monitor_exit", "wait", "ended"}
  /\ cpc \in {"none", "ack", "pid", "work", "worked", "failed"}
  /\ result \in {"none", "success", "failure"}
  /\ region \in [used : {0, 1}, b_pid : Pids \cup {0}]
  /\ up \in Seq(Msgs) /\ sent \in Seq(Msgs) /\ handled \in Seq(Msgs)
  /\ program = "api" <=> ppc = "api"
  /\ program = "api" => cpc = "none"
  /\ result # "none" <=> ppc = "ended"
  /\ ppc \in {"region", "monitor", "monitor_exit"} => program = "monitor"

\* What was sent has been handled or is on its way, in order.
PipeInv ==
  /\ Len(sent) = Len(handled) + Len(up)
  /\ \A i \in 1 .. Len(handled) : sent[i] = handled[i]
  /\ \A i \in 1 .. Len(up) : sent[Len(handled) + i] = up[i]

\* The examples have one child, which their object stands for once spawn has returned;
\* no object goes before it whose hThread could hit its handle.  Only a child that has
\* done its work exits with 0.
ChildInv ==
  program # "api" =>
    /\ \A o \in Objects : o # Child => obj[o] = NoProcess
    /\ ppc # "spawning" => Idle
    /\ ppc = "spawn" => obj[Child] = NoProcess /\ spawned = 0
    /\ ~Idle => job.into = Child /\ obj[Child] = NoProcess
    /\ ppc # "ended" => ~interrupted
    /\ struck = {}
    /\ ppc \notin {"spawn", "spawning", "failing", "ended"} => obj[Child].pid # 0
    /\ ppc \in {"drain", "wait"} => obj[Child].finished
    /\ \A s \in Serials : code[s] = 0 => cpc = "worked"

\* Once the child has its ack the parent follows it to the end, and concludes from
\* every message and from the exit code.
Followed == program = "progress" /\ (down # << >> \/ cpc \in {"work", "worked"})
Concluded ==
   /\ ~interrupted /\ obj[Child].finished /\ up = << >>
   /\ result = "success" <=> ExitCode(obj[Child]) = 0 /\ ~Saw("error") /\ Saw("done")
ProgressInv ==
  /\ Followed => ppc \in {"consume", "consume_exit", "drain", "wait"} \/ (ppc = "ended" /\ Concluded)
  /\ program = "progress" /\ ppc = "wait" => up = << >>
  /\ program # "api" /\ cpc # "failed" => ~In("error", sent)
  /\ program = "progress" /\ cpc = "worked" => In("done", sent)
  /\ result = "success" => obj[Child].pid # 0 /\ code[obj[Child].serial] = 0

\* The number in the region is that of the child, whoever holds its record.
HolderPid == IF job.child # NoProcess THEN job.child.pid ELSE obj[Child].pid
MonitorInv ==
  /\ region.used = 1 => cpc # "none"
  /\ program = "monitor" /\ ppc = "spawn" => cpc = "none"
  /\ program = "monitor" /\ ppc \in {"spawning", "region"} /\ cpc # "none" =>
       region.b_pid # 0 /\ region.b_pid = HolderPid

LaunchInv == TalkType /\ PipeInv /\ ChildInv /\ ProgressInv /\ MonitorInv

-----------------------------------------------------------------------------
(* The steps of the examples                                               *)

rest == <<program, ppc, cpc, direct, talk, result>>

\* What a step of the examples does to the processes.
Kinds ==
  \/ UNCHANGED pvars
  \/ /\ \E s \in Serials, c \in {0, 1} : ChildExits(s, c) /\ (c = 0 => cpc = "worked")
     /\ UNCHANGED rest
  \/ SpawnSteps /\ UNCHANGED rest
  \/ Launch
  \/ /\ poll_exit(Child) /\ UNCHANGED <<program, cpc, direct, talk, result>>
     /\ \/ ppc = "hello_exit" /\ ppc' = "failing"
        \/ ppc = "consume_exit" /\ ppc' = "drain"
        \/ ppc = "monitor_exit" /\ ppc' = "wait"
  \/ /\ ppc = "failing" /\ ppc' = "ended" /\ result' = "failure" /\ terminate(Child)
     /\ UNCHANGED <<program, cpc, direct, talk>>

\* Every step of the examples is one of a few kinds for the process class.
LEMMA StepKinds ==
  ASSUME Next, program # "api"
  PROVE  Kinds
<1>1. CASE Hello \/ GetAck \/ Report \/ Work \/ Launched \/ WaitHello \/ SendAck \/ Consume \/ ConsumeRest
           \/ WaitRegion \/ Monitor \/ Conclude \/ Timeout
  <2>1. UNCHANGED pvars
    BY Zenon, <1>1 DEF Hello, GetAck, Report, Work, Launched, WaitHello, SendAck, Consume, ConsumeRest,
       Drain, WaitRegion, Monitor, Conclude, Timeout
  <2> QED
    BY Zenon, <2>1 DEF Kinds
<1>2. CASE Return
  <2>1. PICK c \in {0, 1} : c = (IF cpc = "worked" THEN 0 ELSE 1) /\ (c = 0 => cpc = "worked")
    OBVIOUS
  <2>2. PICK s \in Serials : ChildExits(s, c)
    BY Zenon, <1>2, <2>1 DEF Return
  <2>3. UNCHANGED rest
    BY Zenon, <1>2 DEF Return, rest
  <2> QED
    BY Zenon, <2>1, <2>2, <2>3 DEF Kinds
<1>3. CASE Crash
  <2>1. PICK s \in Serials : ChildExits(s, 1)
    BY Zenon, <1>3 DEF Crash
  <2>2. UNCHANGED rest
    BY Zenon, <1>3 DEF Crash, rest
  <2>3. ~(1 = 0) /\ 1 \in {0, 1}
    OBVIOUS
  <2> QED
    BY Zenon, <2>1, <2>2, <2>3 DEF Kinds
<1>4. CASE SpawnSteps /\ UNCHANGED <<ppc, talk>> /\ Quiet
  BY Zenon, <1>4 DEF Kinds, rest, Quiet
<1>5. CASE Launch
  BY Zenon, <1>5 DEF Kinds
<1>6. CASE WaitHelloExit \/ ConsumeExit \/ MonitorExit
  BY Zenon, <1>6 DEF WaitHelloExit, ConsumeExit, MonitorExit, ExitAt, At, Quiet, Kinds
<1>7. CASE Fail
  BY Zenon, <1>7 DEF Fail, At, Kinds
<1> QED
  BY Zenon, <1>1, <1>2, <1>3, <1>4, <1>5, <1>6, <1>7 DEF Next, ParentStep, ChildStep

\* With arbitrary calls, every step is the process class's or the child's.
LEMMA ApiSteps ==
  ASSUME Next, program = "api"
  PROVE  Work \/ (ProcessNext /\ UNCHANGED rest)
<1>1. ~Timeout /\ ~Crash /\ ~Hello /\ ~GetAck /\ ~Report /\ ~Return
  BY Zenon DEF Timeout, Crash, Hello, GetAck, Report, Return, At
<1>2. ~Launch /\ ~Launched /\ ~WaitHello /\ ~SendAck /\ ~WaitRegion /\ ~Monitor /\ ~Conclude /\ ~Fail
  BY Zenon DEF Launch, Launched, WaitHello, SendAck, WaitRegion, Monitor, Conclude, Fail, At
<1>3. ~Consume /\ ~ConsumeRest /\ ~WaitHelloExit /\ ~ConsumeExit /\ ~MonitorExit
  BY Zenon DEF Consume, ConsumeRest, WaitHelloExit, ConsumeExit, MonitorExit, Drain, ExitAt, At
<1> QED
  BY Zenon, <1>1, <1>2, <1>3 DEF Next, ParentStep, ChildStep, rest

\* Every step of the examples is a step of the process class.
LEMMA LaunchProcess ==
  ASSUME [Next]_vars
  PROVE  [ProcessNext]_pvars
<1>0. Child \in Objects /\ {0, 1} \subseteq Codes
  BY Zenon, LauncherAssumption, SubprocessAssumption
<1>1. CASE UNCHANGED vars
  BY Zenon, <1>1 DEF vars
<1>2. CASE Next /\ program # "api"
  <2>1. Kinds
    BY Zenon, <1>2, StepKinds
  <2>2. CASE UNCHANGED pvars
    BY Zenon, <2>2
  <2>3. CASE \E s \in Serials, c \in {0, 1} : ChildExits(s, c)
    <3>1. \E s \in Serials, c \in Codes : ChildExits(s, c)
      BY Zenon, <1>0, <2>3
    <3> QED
      BY Zenon, <3>1 DEF ProcessNext, System
  <2>4. CASE SpawnSteps
    BY Zenon, <2>4 DEF ProcessNext
  <2>5. CASE Launch
    <3>1. Spawn(Child, {}, FALSE)
      BY Zenon, <2>5 DEF Launch
    <3>2. {} \in SUBSET Streams /\ FALSE \in BOOLEAN
      BY Zenon
    <3> QED
      BY Zenon, <1>0, <3>1, <3>2 DEF ProcessNext, Calls
  <2>6. CASE poll_exit(Child) \/ terminate(Child)
    BY Zenon, <1>0, <2>6 DEF ProcessNext, Calls
  <2> QED
    BY Zenon, <2>1, <2>2, <2>3, <2>4, <2>5, <2>6 DEF Kinds
<1>3. CASE Next /\ program = "api"
  <2>1. CASE Work
    BY Zenon, <2>1 DEF Work
  <2> QED
    BY Zenon, <1>3, <2>1, ApiSteps
<1> QED
  BY Zenon, <1>1, <1>2, <1>3

\* A child that runs is the one the examples have a record of.
LEMMA ChildKnown ==
  ASSUME ProcInv, ChildInv, program # "api", ~interrupted, NEW p \in Pids, owner[p] > 0
  PROVE  /\ p = HolderPid
         /\ Idle => obj[Child].serial = owner[p]
<1>1. Kept(p, owner[p])
  BY Zenon DEF ProcInv, ReapInv, ChildInv, Lost
<1>2. NoProcess.serial = 0 /\ NoProcess.pid = 0 /\ NoJob.child = NoProcess
  BY Zenon, JobFacts, NoProcessFacts
<1>3. /\ \A o \in Objects : o # Child => obj[o] = NoProcess
      /\ ~Idle => obj[Child] = NoProcess
  BY Zenon DEF ChildInv
<1>4. CASE job.child.serial = owner[p] /\ job.child.pid = p
  <2>1. job.child # NoProcess
    BY <1>2, <1>4
  <2>2. ~Idle
    BY Zenon, <1>2, <2>1 DEF Idle
  <2> QED
    BY Zenon, <1>4, <2>1, <2>2 DEF HolderPid
<1>5. CASE \E o \in Objects : obj[o].serial = owner[p] /\ obj[o].pid = p
  <2>1. obj[Child].serial = owner[p] /\ obj[Child].pid = p
    BY <1>2, <1>3, <1>5
  <2>2. Idle
    BY <1>2, <1>3, <2>1
  <2>3. job.child = NoProcess
    BY Zenon, <1>2, <2>2 DEF Idle
  <2> QED
    BY Zenon, <2>1, <2>3 DEF HolderPid
<1> QED
  BY Zenon, <1>1, <1>4, <1>5 DEF Kept

\* A child that runs has its number.
LEMMA RunsFacts ==
  ASSUME ProcInv, ChildRuns
  PROVE  /\ spawned # 0 /\ current_pid \in Pids /\ owner[current_pid] > 0
         /\ \E s \in Serials, p \in Pids : owner[p] = s /\ code[s] = Alive /\ owner[p] > 0
<1>1. PICK s \in Serials : Started(s) /\ code[s] = Alive
  BY Zenon DEF ChildRuns
<1>2. PICK p \in Pids : owner[p] = s
  BY Zenon, <1>1 DEF Started
<1>3. s > 0 /\ s <= spawned /\ spawned \in Nat
  BY <1>1, SubprocessAssumption DEF Started, Serials, ProcInv, SystemInv
<1>4. spawned # 0 /\ owner[p] > 0
  BY <1>2, <1>3 DEF Serials
<1>5. current_pid \in Pids /\ owner[current_pid] > 0
  BY Zenon, <1>4 DEF current_pid
<1> QED
  BY Zenon, <1>1, <1>2, <1>4, <1>5

\* No child runs any more once its object has seen the exit.
LEMMA NoneRuns ==
  ASSUME ProcInv, ChildInv, program # "api", ~interrupted, ChildRuns, Idle
  PROVE  ~obj[Child].finished
<1>1. PICK s \in Serials, p \in Pids : owner[p] = s /\ code[s] = Alive /\ owner[p] > 0
  BY Zenon, RunsFacts
<1>2. obj[Child].serial = s
  BY Zenon, <1>1, ChildKnown
<1>3. Child \in Objects
  BY Zenon, LauncherAssumption
<1> QED
  BY Zenon, <1>1, <1>2, <1>3, ObjectFacts DEF Stands, ChildInv

\* poll_exit and terminate on the child.
LEMMA FinishEffects ==
  ASSUME ProcInv, poll_exit(Child) \/ terminate(Child)
  PROVE  /\ Idle /\ job' = job /\ spawned' = spawned /\ platform' = platform /\ struck' = struck
         /\ obj'[Child].finished /\ obj'[Child].pid = obj[Child].pid
         /\ \A o \in Objects : o # Child => obj'[o] = obj[o]
         /\ \A s \in Serials : code'[s] = 0 => code[s] = 0
         /\ poll_exit(Child) => interrupted' = interrupted
<1>1. Child \in Objects
  BY Zenon, LauncherAssumption
<1>2. obj \in [Objects -> Procs] /\ obj[Child] \in Procs /\ code \in [Serials -> Codes \cup {Alive, Signalled}]
  BY Zenon, <1>1, ObjectFacts DEF ProcInv, SystemInv, ObjectsInv
<1>3. Collect(Child) \/ Interrupt(Child)
  BY Zenon DEF poll_exit, terminate
<1>4. obj'[Child].finished /\ obj'[Child].pid = obj[Child].pid
  BY <1>1, <1>2, <1>3 DEF Collect, Interrupt, Procs
<1>5. \A o \in Objects : o # Child => obj'[o] = obj[o]
  BY Zenon, <1>1, <1>2, <1>3 DEF Collect, Interrupt
<1>6. \A s \in Serials : code'[s] = 0 => code[s] = 0
  <2>1. CASE poll_exit(Child)
    BY Zenon, <2>1 DEF poll_exit
  <2>2. CASE terminate(Child)
    <3>1. Kill(obj[Child])
      BY Zenon, <2>2 DEF terminate
    <3> QED
      BY <1>2, <3>1 DEF Kill, Dies, Signalled
  <2> QED
    BY Zenon, <2>1, <2>2
<1> QED
  BY Zenon, <1>4, <1>5, <1>6 DEF poll_exit, terminate, Collect

\* The steps of spawn when its result goes to an empty object.
LEMMA SpawnEffects ==
  ASSUME ProcInv, SpawnSteps, job.into = Child, obj[Child] = NoProcess
  PROVE  /\ ~Idle /\ code' = code /\ interrupted' = interrupted /\ platform' = platform /\ struck' = struck
         /\ \A o \in Objects : o # Child => obj'[o] = obj[o]
         /\ job' = NoJob \/ (job'.into = Child /\ obj' = obj)
         /\ job.child # NoProcess => job' = NoJob /\ obj'[Child] = job.child
<1>1. Child \in Objects /\ obj \in [Objects -> Procs] /\ platform \in {"posix", "win32"}
  BY Zenon, LauncherAssumption, JobFacts DEF ProcInv, ObjectsInv
<1>2. NoProcess.pid = 0 /\ NoJob.child = NoProcess
  BY Zenon, <1>1, NoProcessFacts
<1>3. CASE Assign
  <2>1. job.child # NoProcess /\ Reset(NoProcess) /\ obj' = [obj EXCEPT ![Child] = job.child] /\ job' = NoJob
        /\ platform' = platform
    BY Zenon, <1>3 DEF Assign
  <2>2. code' = code /\ interrupted' = interrupted /\ struck' = struck
    <3>1. ~Unfinished(NoProcess) /\ Closes(NoProcess) = {}
      BY Zenon, <1>1, NoProcessFacts DEF Unfinished
    <3>2. Close({}, NoProcess.serial)
      BY Zenon, <2>1, <3>1 DEF Reset
    <3>3. PICK S : Takes({}, S)
      BY Zenon, <3>2, CloseFacts
    <3> QED
      BY Zenon, <2>1, <3>1, <3>3 DEF Reset, Takes
  <2>3. obj'[Child] = job.child /\ \A o \in Objects : o # Child => obj'[o] = obj[o]
    BY Zenon, <1>1, <2>1
  <2> QED
    BY Zenon, <1>2, <2>1, <2>2, <2>3 DEF Idle
<1>4. CASE MakePipe \/ OpenNull \/ Fork \/ CreateProcess
  <2>1. ~Idle
    BY <1>4 DEF MakePipe, OpenNull, Fork, CreateProcess, Ready, Idle, NoJob
  <2>2. job.child = NoProcess
    <3>1. CASE Fork \/ CreateProcess
      BY Zenon, <3>1 DEF Fork, CreateProcess, Ready
    <3>2. CASE MakePipe \/ OpenNull
      <4>1. job.todo # {} \/ job.null
        BY Zenon, <3>2 DEF MakePipe, OpenNull
      <4> QED
        BY Zenon, <2>1, <4>1 DEF ProcInv, JobInv, Idle
    <3> QED
      BY Zenon, <1>4, <3>1, <3>2
  <2>3. UNCHANGED <<platform, code, obj, interrupted, struck>>
    BY Zenon, <1>4 DEF MakePipe, OpenNull, Fork, CreateProcess, processes
  <2>4. job \in Jobs
    BY Zenon, <2>1, <2>2, UnderWay
  <2>5. \/ job' = NoJob
        \/ \E t : job' = [job EXCEPT !.todo = t]
        \/ \E t : job' = [job EXCEPT !.null = t]
        \/ \E t : job' = [job EXCEPT !.child = t]
    BY Zenon, <1>4 DEF MakePipe, OpenNull, Fork, CreateProcess, Cleanup, Starts
  <2>6. job' = NoJob \/ job'.into = Child
    BY Zenon, <2>4, <2>5 DEF Jobs
  <2> QED
    BY Zenon, <2>1, <2>2, <2>3, <2>6
<1> QED
  BY Zenon, <1>3, <1>4 DEF SpawnSteps

\* What a step of the examples does to the messages: the child sends one, the parent
\* takes one, or neither.
Take ==
  /\ up # << >> /\ up' = Tail(up) /\ sent' = sent /\ handled' \in Seq(Msgs)
  /\ Len(handled') = Len(handled) + 1 /\ handled'[Len(handled) + 1] = Head(up)
  /\ \A i \in 1 .. Len(handled) : handled'[i] = handled[i]
MsgKinds ==
  \/ \E m \in Msgs : SendUp(m) /\ handled' = handled
  \/ Take
  \/ up' = up /\ sent' = sent /\ handled' = handled

\* A message is taken from the channel and handled.
LEMMA TakeOne ==
  ASSUME TalkType, up # << >>, up' = Tail(up), sent' = sent,
         handled' = Append(handled, Head(up)) \/ handled' = handled \o SubSeq(up, 1, Len(up) - Len(up'))
  PROVE  Take
<1>1. up \in Seq(Msgs) /\ handled \in Seq(Msgs) /\ Len(up) \in Nat /\ Len(up) >= 1 /\ Head(up) = up[1] /\ up[1] \in Msgs
  BY DEF TalkType
<1>2. CASE handled' = Append(handled, Head(up))
  BY <1>1, <1>2 DEF Take
<1>3. CASE handled' = handled \o SubSeq(up, 1, Len(up) - Len(up'))
  <2>1. Len(up) - Len(up') = 1
    BY <1>1
  <2>2. PICK q : q = SubSeq(up, 1, 1)
    BY Zenon
  <2>3. q \in Seq(Msgs) /\ Len(q) = 1 /\ q[1] = Head(up)
    BY <1>1, <2>2
  <2>4. handled' = handled \o q
    BY Zenon, <1>3, <2>1, <2>2
  <2> QED
    BY <1>1, <2>3, <2>4 DEF Take
<1> QED
  BY Zenon, <1>2, <1>3

\* Every step sends a message, takes one, or leaves the channel alone.
LEMMA MsgStep ==
  ASSUME TalkType, Next
  PROVE  MsgKinds
<1>1. CASE Hello \/ GetAck \/ Work
  BY Zenon, <1>1 DEF Hello, GetAck, Work, MsgKinds, SendUp, Msgs
<1>2. CASE Report \/ Return \/ Crash \/ Launch \/ Launched \/ Timeout \/ SendAck \/ WaitRegion \/ Conclude \/ Fail
  BY Zenon, <1>2 DEF Report, Return, Crash, Launch, Launched, Timeout, SendAck, WaitRegion, Conclude, Fail, talk, MsgKinds
<1>3. CASE WaitHelloExit \/ ConsumeExit \/ MonitorExit
  BY Zenon, <1>3 DEF WaitHelloExit, ConsumeExit, MonitorExit, ExitAt, talk, MsgKinds
<1>4. CASE Consume \/ ConsumeRest \/ Monitor
  <2>1. sent' = sent
    BY Zenon, <1>4 DEF Consume, ConsumeRest, Drain, Monitor
  <2>2. \/ up # << >> /\ up' = Tail(up) /\ handled' = Append(handled, Head(up))
        \/ up' = up /\ handled' = handled
    BY Zenon, <1>4 DEF Consume, ConsumeRest, Drain, Monitor
  <2> QED
    BY Zenon, <2>1, <2>2, TakeOne DEF MsgKinds
<1>5. CASE WaitHello
  <2>1. sent' = sent /\ handled' = handled \o SubSeq(up, 1, Len(up) - Len(up'))
    BY Zenon, <1>5 DEF WaitHello
  <2>2. CASE up # << >> /\ up' = Tail(up)
    BY Zenon, <2>1, <2>2, TakeOne DEF MsgKinds
  <2>3. CASE up' = up
    <3>1. up \in Seq(Msgs) /\ handled \in Seq(Msgs) /\ Len(up) - Len(up') = 0
      BY <2>3 DEF TalkType
    <3>2. SubSeq(up, 1, 0) = << >> /\ handled \o << >> = handled
      BY <3>1
    <3> QED
      BY Zenon, <2>1, <2>3, <3>1, <3>2 DEF MsgKinds
  <2> QED
    BY Zenon, <1>5, <2>2, <2>3 DEF WaitHello
<1>6. CASE UNCHANGED rest \/ UNCHANGED talk
  BY Zenon, <1>6 DEF rest, talk, MsgKinds
<1> QED
  BY Zenon, <1>1, <1>2, <1>3, <1>4, <1>5, <1>6 DEF Next, ParentStep, ChildStep, rest, talk

\* What was sent stays handled or on its way, in order.
LEMMA PipeStep ==
  ASSUME TalkType, PipeInv, MsgKinds
  PROVE  /\ PipeInv'
         /\ up' \in Seq(Msgs) /\ sent' \in Seq(Msgs) /\ handled' \in Seq(Msgs)
         /\ \A m : In(m, sent) => In(m, sent)'
<1>1. up \in Seq(Msgs) /\ sent \in Seq(Msgs) /\ handled \in Seq(Msgs)
      /\ Len(up) \in Nat /\ Len(sent) \in Nat /\ Len(handled) \in Nat
  BY DEF TalkType
<1>2. CASE \E m \in Msgs : SendUp(m) /\ handled' = handled
  <2>1. PICK m \in Msgs : up' = Append(up, m) /\ sent' = Append(sent, m) /\ handled' = handled
    BY Zenon, <1>2 DEF SendUp
  <2>2. /\ up' \in Seq(Msgs) /\ Len(up') = Len(up) + 1 /\ up'[Len(up) + 1] = m
        /\ \A i \in 1 .. Len(up) : up'[i] = up[i]
    BY <1>1, <2>1
  <2>3. /\ sent' \in Seq(Msgs) /\ Len(sent') = Len(sent) + 1 /\ sent'[Len(sent) + 1] = m
        /\ \A i \in 1 .. Len(sent) : sent'[i] = sent[i]
    BY <1>1, <2>1
  <2>4. PipeInv'
    <3>1. Len(sent') = Len(handled') + Len(up')
      BY <1>1, <2>1, <2>2, <2>3 DEF PipeInv
    <3>2. \A i \in 1 .. Len(handled') : sent'[i] = handled'[i]
      BY <1>1, <2>1, <2>3 DEF PipeInv
    <3>3. ASSUME NEW i \in 1 .. Len(up') PROVE sent'[Len(handled') + i] = up'[i]
      <4>1. CASE i = Len(up) + 1
        BY <1>1, <2>1, <2>2, <2>3, <4>1 DEF PipeInv
      <4>2. CASE i \in 1 .. Len(up)
        <5>1. Len(handled) + i \in 1 .. Len(sent)
          BY <1>1, <4>2 DEF PipeInv
        <5> QED
          BY Zenon, <1>1, <2>1, <2>2, <2>3, <4>2, <5>1 DEF PipeInv
      <4> QED
        BY <1>1, <2>2, <3>3, <4>1, <4>2
    <3> QED
      BY Zenon, <3>1, <3>2, <3>3 DEF PipeInv
  <2>5. \A n : In(n, sent) => In(n, sent)'
    BY <1>1, <2>3 DEF In
  <2> QED
    BY Zenon, <1>1, <2>1, <2>2, <2>3, <2>4, <2>5
<1>3. CASE Take
  <2>1. up # << >> /\ up' = Tail(up) /\ sent' = sent /\ handled' \in Seq(Msgs)
        /\ Len(handled') = Len(handled) + 1 /\ handled'[Len(handled) + 1] = Head(up)
        /\ \A i \in 1 .. Len(handled) : handled'[i] = handled[i]
    BY Zenon, <1>3 DEF Take
  <2>2. /\ up' \in Seq(Msgs) /\ Len(up') = Len(up) - 1 /\ Len(up) > 0 /\ Head(up) = up[1]
        /\ \A i \in 1 .. Len(up') : up'[i] = up[i + 1]
    BY <1>1, <2>1
  <2>3. Len(sent') = Len(handled') + Len(up')
    <3>1. Len(sent) = Len(handled) + Len(up) /\ Len(sent') = Len(sent)
      BY Zenon, <2>1 DEF PipeInv
    <3> QED
      BY <1>1, <2>1, <2>2, <3>1
  <2>4. sent[Len(handled) + 1] = up[1]
    <3>1. 1 \in 1 .. Len(up)
      BY <1>1, <2>2
    <3> QED
      BY Zenon, <3>1 DEF PipeInv
  <2>5. ASSUME NEW i \in 1 .. Len(handled') PROVE sent'[i] = handled'[i]
    <3>1. i = Len(handled) + 1 \/ i \in 1 .. Len(handled)
      BY <1>1, <2>1, <2>5
    <3> QED
      BY Zenon, <2>1, <2>2, <2>4, <3>1 DEF PipeInv
  <2>6. ASSUME NEW i \in 1 .. Len(up') PROVE sent'[Len(handled') + i] = up'[i]
    <3>1. i + 1 \in 1 .. Len(up) /\ Len(handled') + i = Len(handled) + (i + 1)
      <4>1. PICK a, b, c, d : a = Len(up) /\ b = Len(handled) /\ c = Len(up') /\ d = Len(handled')
        BY Zenon
      <4>2. a \in Nat /\ b \in Nat /\ c = a - 1 /\ d = b + 1 /\ i \in 1 .. c
        BY Zenon, <1>1, <2>1, <2>2, <2>6, <4>1
      <4>3. i + 1 \in 1 .. a /\ d + i = b + (i + 1)
        BY <4>2
      <4> QED
        BY Zenon, <4>1, <4>3
    <3> QED
      BY Zenon, <2>1, <2>2, <2>6, <3>1 DEF PipeInv
  <2>7. PipeInv'
    BY Zenon, <2>3, <2>5, <2>6 DEF PipeInv
  <2> QED
    BY Zenon, <1>1, <2>1, <2>2, <2>7 DEF In
<1>4. CASE up' = up /\ sent' = sent /\ handled' = handled
  BY Zenon, <1>1, <1>4 DEF PipeInv, In
<1> QED
  BY Zenon, <1>2, <1>3, <1>4 DEF MsgKinds

\* What a step of the examples does to the places of the two and to the result.
ControlType ==
  /\ program \in {"progress", "monitor", "api"}
  /\ ppc \in {"api", "spawn", "spawning", "failing", "hello", "hello_exit", "ack", "consume", "consume_exit",
              "drain", "region", "monitor", "monitor_exit", "wait", "ended"}
  /\ cpc \in {"none", "ack", "pid", "work", "worked", "failed"}
  /\ result \in {"none", "success", "failure"}
  /\ program = "api" <=> ppc = "api"
  /\ program = "api" => cpc = "none"
  /\ result # "none" <=> ppc = "ended"
  /\ ppc \in {"region", "monitor", "monitor_exit"} => program = "monitor"

\* Parent and child stay at places of their code, and the program is the same.
LEMMA ControlStep ==
  ASSUME TalkType, Next
  PROVE  ControlType' /\ program' = program
<1>0. ControlType
  BY Zenon DEF TalkType, ControlType
<1>1. CASE Hello \/ GetAck \/ Report \/ Work
  BY Zenon, <1>0, <1>1 DEF Hello, GetAck, Report, Work, ControlType
<1>2. CASE Launch \/ Launched \/ WaitHello \/ Timeout \/ SendAck
  BY Zenon, <1>0, <1>2 DEF Launch, Launched, WaitHello, Timeout, SendAck, At, Quiet, ControlType
<1>3. CASE WaitHelloExit \/ ConsumeExit \/ MonitorExit
  BY Zenon, <1>0, <1>3 DEF WaitHelloExit, ConsumeExit, MonitorExit, ExitAt, At, Quiet, ControlType
<1>4. CASE Consume \/ ConsumeRest \/ Monitor \/ WaitRegion
  BY Zenon, <1>0, <1>4 DEF Consume, ConsumeRest, Drain, Monitor, WaitRegion, At, Quiet, ControlType
<1>5. CASE Conclude \/ Fail
  <2>1. ppc \in {"wait", "failing"} /\ ppc' = "ended" /\ result' \in {"success", "failure"} /\ program' = program
        /\ cpc' = cpc /\ program # "api"
    BY Zenon, <1>5 DEF Conclude, Fail, At
  <2> QED
    BY Zenon, <1>0, <2>1 DEF ControlType
<1>6. CASE UNCHANGED rest
  BY Zenon, <1>0, <1>6 DEF rest, ControlType
<1> QED
  BY Zenon, <1>1, <1>2, <1>3, <1>4, <1>5, <1>6
     DEF Next, ParentStep, ChildStep, Return, Crash, Quiet, rest

\* Only the child's report changes the region.
LEMMA RegionStep ==
  ASSUME TalkType, Next
  PROVE  region' = region \/ Report
<1>1. CASE Hello \/ GetAck \/ Work \/ WaitHello \/ SendAck \/ Consume \/ ConsumeRest \/ Monitor
  BY Zenon, <1>1 DEF Hello, GetAck, Work, WaitHello, SendAck, Consume, ConsumeRest, Drain, Monitor
<1>2. CASE UNCHANGED rest \/ UNCHANGED talk
  BY Zenon, <1>2 DEF rest, talk
<1>3. CASE Launch \/ Launched \/ Timeout \/ WaitRegion \/ Conclude \/ Fail \/ WaitHelloExit \/ ConsumeExit \/ MonitorExit
  BY Zenon, <1>2, <1>3 DEF Launch, Launched, Timeout, WaitRegion, Conclude, Fail, WaitHelloExit, ConsumeExit,
     MonitorExit, ExitAt, talk
<1> QED
  BY Zenon, <1>1, <1>2, <1>3 DEF Next, ParentStep, ChildStep, Return, Crash, rest, talk

\* The types of all that the examples add to the process class.
LEMMA TalkStep ==
  ASSUME ProcInv, TalkType, PipeInv, Next
  PROVE  TalkType'
<1>1. ControlType'
  BY Zenon, ControlStep
<1>2. up' \in Seq(Msgs) /\ sent' \in Seq(Msgs) /\ handled' \in Seq(Msgs)
  BY Zenon, MsgStep, PipeStep
<1>3. region' \in [used : {0, 1}, b_pid : Pids \cup {0}]
  <2>1. CASE Report
    <3>1. current_pid \in Pids
      BY Zenon, <2>1, RunsFacts DEF Report
    <3>2. region \in [used : {0, 1}, b_pid : Pids \cup {0}]
      BY Zenon DEF TalkType
    <3> QED
      BY Zenon, <2>1, <3>1, <3>2 DEF Report
  <2> QED
    BY Zenon, <2>1, RegionStep DEF TalkType
<1> QED
  BY Zenon, <1>1, <1>2, <1>3 DEF TalkType, ControlType, Msgs

\* Where the parent goes when it leaves the processes alone.
LEMMA PlaceStep ==
  ASSUME ProcInv, TalkType, ChildInv, Next, UNCHANGED pvars, program # "api"
  PROVE  \/ ppc' = ppc
         \/ /\ Idle /\ ~interrupted /\ ppc \notin {"spawn", "ended"} /\ ppc' \notin {"spawn", "spawning"}
            /\ ppc' \notin {"failing", "ended"} => obj[Child].pid # 0
            /\ ppc' \in {"drain", "wait"} => obj[Child].finished
<1>1. /\ ppc # "spawning" => Idle
      /\ ppc # "ended" => ~interrupted
      /\ ppc \notin {"spawn", "spawning", "failing", "ended"} => obj[Child].pid # 0
      /\ ppc \in {"drain", "wait"} => obj[Child].finished
  BY Zenon DEF ChildInv
<1>2. CASE UNCHANGED ppc
  BY Zenon, <1>2
<1>3. CASE Launch
  <2>1. Idle /\ job' = job /\ job'.into = Child
    BY <1>3 DEF Launch, Spawn, pvars
  <2>2. Child \in Objects
    BY Zenon, LauncherAssumption
  <2> QED
    BY Zenon, <2>1, <2>2, SubprocessAssumption DEF Idle, NoJob
<1>4. CASE Launched
  BY Zenon, <1>1, <1>4 DEF Launched, At
<1>5. CASE WaitHello \/ Timeout \/ SendAck
  BY Zenon, <1>1, <1>5 DEF WaitHello, Timeout, SendAck, At
<1>6. CASE Consume \/ ConsumeRest \/ Monitor \/ WaitRegion
  BY Zenon, <1>1, <1>6 DEF Consume, ConsumeRest, Drain, Monitor, WaitRegion, At
<1>7. CASE Conclude \/ Fail
  <2>1. ppc \in {"wait", "failing"} /\ ppc' = "ended"
    BY Zenon, <1>7 DEF Conclude, Fail, At
  <2> QED
    BY Zenon, <1>1, <2>1
<1>8. CASE WaitHelloExit \/ ConsumeExit \/ MonitorExit
  <2>1. ~poll_exit(Child)
    <3>1. ASSUME poll_exit(Child) PROVE FALSE
      <4>1. Unfinished(obj[Child]) /\ obj'[Child].finished
        BY Zenon, <3>1, FinishEffects DEF poll_exit
      <4>2. obj' = obj
        BY Zenon DEF pvars
      <4> QED
        BY Zenon, <4>1, <4>2 DEF Unfinished
    <3> QED
      BY Zenon, <3>1
  <2> QED
    BY Zenon, <1>1, <1>8, <2>1 DEF WaitHelloExit, ConsumeExit, MonitorExit, ExitAt, At
<1> QED
  BY Zenon, <1>2, <1>3, <1>4, <1>5, <1>6, <1>7, <1>8
     DEF Next, ParentStep, ChildStep, Hello, GetAck, Report, Work, Return, Crash

\* A child that has done its work has done it for ever.
LEMMA WorkedStays ==
  ASSUME TalkType, Next, cpc = "worked"
  PROVE  cpc' = "worked"
<1>1. CASE UNCHANGED cpc
  BY Zenon, <1>1
<1>2. ~Hello /\ ~GetAck /\ ~Report /\ ~Work
  BY Zenon DEF Hello, GetAck, Report, Work
<1>3. CASE Launch \/ Launched \/ WaitHello \/ Timeout \/ SendAck \/ Monitor \/ WaitRegion \/ Conclude \/ Fail
  BY Zenon, <1>1, <1>3 DEF Launch, Launched, WaitHello, Timeout, SendAck, Monitor, WaitRegion, Conclude, Fail, Quiet
<1>4. CASE WaitHelloExit \/ ConsumeExit \/ MonitorExit \/ Consume \/ ConsumeRest
  BY Zenon, <1>1, <1>4 DEF WaitHelloExit, ConsumeExit, MonitorExit, ExitAt, Consume, ConsumeRest, Drain, Quiet
<1> QED
  BY Zenon, <1>1, <1>2, <1>3, <1>4 DEF Next, ParentStep, ChildStep, Return, Crash, Quiet

\* Every step keeps what the invariant says of the examples' one child.
LEMMA ChildStepKeeps ==
  ASSUME ProcInv, TalkType, ChildInv, Next, program # "api"
  PROVE  ChildInv'
<1>0. /\ \A o \in Objects : o # Child => obj[o] = NoProcess
      /\ ppc # "spawning" => Idle
      /\ ppc = "spawn" => obj[Child] = NoProcess /\ spawned = 0
      /\ ~Idle => job.into = Child /\ obj[Child] = NoProcess
      /\ ppc # "ended" => ~interrupted
      /\ ppc \notin {"spawn", "spawning", "failing", "ended"} => obj[Child].pid # 0
      /\ ppc \in {"drain", "wait"} => obj[Child].finished
      /\ \A s \in Serials : code[s] = 0 => cpc = "worked"
      /\ struck = {}
  BY Zenon DEF ChildInv
<1>1. Kinds /\ (cpc = "worked" => cpc' = "worked")
  BY Zenon, StepKinds, WorkedStays
<1>2. CASE UNCHANGED pvars
  <2>1. UNCHANGED <<platform, obj, job, spawned, interrupted, code, struck>>
    BY Zenon, <1>2 DEF pvars, processes
  <2>2. UNCHANGED NoProcess /\ (Idle' <=> Idle)
    BY Zenon, <2>1 DEF NoProcess, NoJob, Idle
  <2>3. \/ ppc' = ppc
        \/ /\ Idle /\ ~interrupted /\ ppc \notin {"spawn", "ended"} /\ ppc' \notin {"spawn", "spawning"}
           /\ ppc' \notin {"failing", "ended"} => obj[Child].pid # 0
           /\ ppc' \in {"drain", "wait"} => obj[Child].finished
    BY Zenon, <1>2, PlaceStep
  <2> QED
    BY Zenon, <1>0, <1>1, <2>1, <2>2, <2>3 DEF ChildInv
<1>3. CASE /\ \E s \in Serials, c \in {0, 1} : ChildExits(s, c) /\ (c = 0 => cpc = "worked")
           /\ UNCHANGED rest
  <2>1. PICK s \in Serials, c \in {0, 1} : ChildExits(s, c) /\ (c = 0 => cpc = "worked")
    BY Zenon, <1>3
  <2>2. UNCHANGED <<platform, obj, job, spawned, interrupted, struck>> /\ code' = [code EXCEPT ![s] = c]
    BY Zenon, <2>1 DEF ChildExits
  <2>3. UNCHANGED NoProcess /\ (Idle' <=> Idle)
    BY Zenon, <2>2 DEF NoProcess, NoJob, Idle
  <2>4. \A t \in Serials : code'[t] = 0 => cpc = "worked"
    <3>1. code \in [Serials -> Codes \cup {Alive, Signalled}]
      BY Zenon DEF ProcInv, SystemInv
    <3> QED
      BY Zenon, <1>0, <2>1, <2>2, <3>1
  <2>5. UNCHANGED <<program, ppc, cpc>>
    BY Zenon, <1>3 DEF rest
  <2> QED
    BY Zenon, <1>0, <2>2, <2>3, <2>4, <2>5 DEF ChildInv
<1>4. CASE SpawnSteps /\ UNCHANGED rest
  <2>1. ~Idle
    BY <1>4, NoProcessFacts, JobFacts
       DEF SpawnSteps, MakePipe, OpenNull, Fork, CreateProcess, Assign, Ready, Idle, NoJob
  <2>2. job.into = Child /\ obj[Child] = NoProcess /\ ppc = "spawning"
    BY Zenon, <1>0, <2>1
  <2>3. /\ code' = code /\ interrupted' = interrupted /\ platform' = platform /\ struck' = struck
        /\ \A o \in Objects : o # Child => obj'[o] = obj[o]
        /\ job' = NoJob \/ (job'.into = Child /\ obj' = obj)
    BY Zenon, <1>4, <2>2, SpawnEffects
  <2>4. UNCHANGED NoProcess /\ UNCHANGED NoJob
    BY Zenon, <2>3 DEF NoProcess, NoJob
  <2>5. UNCHANGED <<program, ppc, cpc>>
    BY Zenon, <1>4 DEF rest
  <2> QED
    BY Zenon, <1>0, <2>2, <2>3, <2>4, <2>5 DEF ChildInv, Idle
<1>5. CASE Launch
  <2>1. /\ ppc = "spawn" /\ ppc' = "spawning" /\ job'.into = Child /\ UNCHANGED <<program, cpc>>
        /\ UNCHANGED <<platform, obj, spawned, interrupted, code, struck>>
    BY Zenon, <1>5 DEF Launch, At, Quiet, Spawn, processes
  <2>2. UNCHANGED NoProcess
    BY Zenon, <2>1 DEF NoProcess
  <2> QED
    BY Zenon, <1>0, <2>1, <2>2 DEF ChildInv
<1>6. CASE /\ poll_exit(Child) \/ terminate(Child)
           /\ UNCHANGED <<program, cpc>>
           /\ (ppc' \in {"failing", "drain", "wait"} /\ poll_exit(Child)) \/ ppc' = "ended"
           /\ ppc \notin {"failing", "spawn", "spawning", "ended"} \/ ppc' = "ended"
  <2>1. /\ Idle /\ job' = job /\ platform' = platform /\ struck' = struck
        /\ obj'[Child].finished /\ obj'[Child].pid = obj[Child].pid
        /\ \A o \in Objects : o # Child => obj'[o] = obj[o]
        /\ \A s \in Serials : code'[s] = 0 => code[s] = 0
        /\ poll_exit(Child) => interrupted' = interrupted
    BY Zenon, <1>6, FinishEffects
  <2>2. UNCHANGED NoProcess /\ Idle'
    BY Zenon, <2>1 DEF NoProcess, NoJob, Idle
  <2> QED
    BY Zenon, <1>0, <1>6, <2>1, <2>2 DEF ChildInv
<1> QED
  <2>1. CASE /\ poll_exit(Child) /\ UNCHANGED <<program, cpc, direct, talk, result>>
             /\ \/ ppc = "hello_exit" /\ ppc' = "failing"
                \/ ppc = "consume_exit" /\ ppc' = "drain"
                \/ ppc = "monitor_exit" /\ ppc' = "wait"
    <3>1. ppc' \in {"failing", "drain", "wait"} /\ ppc \notin {"failing", "spawn", "spawning", "ended"}
      BY Zenon, <2>1
    <3>2. UNCHANGED <<program, cpc>>
      BY Zenon, <2>1
    <3> QED
      BY Zenon, <1>6, <2>1, <3>1, <3>2
  <2>2. CASE /\ ppc = "failing" /\ ppc' = "ended" /\ result' = "failure" /\ terminate(Child)
             /\ UNCHANGED <<program, cpc, direct, talk>>
    <3>1. UNCHANGED <<program, cpc>>
      BY Zenon, <2>2
    <3> QED
      BY Zenon, <1>6, <2>2, <3>1
  <2> QED
    BY Zenon, <1>1, <1>2, <1>3, <1>4, <1>5, <2>1, <2>2 DEF Kinds

\* While the child runs its exit has not been seen.
LEMMA Unseen ==
  ASSUME ProcInv, LaunchInv, program # "api", ChildRuns
  PROVE  ppc \notin {"spawn", "drain", "wait"} /\ ~(ppc = "ended" /\ Concluded)
<1>1. ChildInv
  BY Zenon DEF LaunchInv
<1>2. /\ ppc # "spawning" => Idle
      /\ ppc = "spawn" => spawned = 0
      /\ ppc # "ended" => ~interrupted
      /\ ppc \in {"drain", "wait"} => obj[Child].finished
  BY Zenon, <1>1 DEF ChildInv
<1>3. Idle /\ ~interrupted => ~obj[Child].finished
  BY Zenon, <1>1, NoneRuns
<1>4. spawned # 0
  BY Zenon, RunsFacts
<1> QED
  BY Zenon, <1>2, <1>3, <1>4 DEF Concluded

\* The messages "error" and "done" come from a child that has failed, or has worked.
LEMMA LastWords ==
  ASSUME LaunchInv, Next, program # "api"
  PROVE  /\ cpc' # "failed" => ~In("error", sent)'
         /\ program = "progress" /\ cpc' = "worked" => In("done", sent)'
<1>1. /\ TalkType /\ PipeInv /\ sent \in Seq(Msgs)
      /\ cpc # "failed" => ~In("error", sent)
      /\ program = "progress" /\ cpc = "worked" => In("done", sent)
  BY Zenon DEF LaunchInv, TalkType, ProgressInv
<1>2. \A m : In(m, sent) => In(m, sent)'
  BY Zenon, <1>1, MsgStep, PipeStep
<1>3. ASSUME NEW m \in Msgs, SendUp(m)
      PROVE  /\ In(m, sent)'
             /\ \A n : In(n, sent)' => n = m \/ In(n, sent)
  <2>1. Len(sent) \in Nat /\ Len(sent') = Len(sent) + 1 /\ sent'[Len(sent) + 1] = m
    BY <1>1, <1>3 DEF SendUp
  <2>2. \A i \in 1 .. Len(sent) : sent'[i] = sent[i]
    BY <1>1, <1>3 DEF SendUp
  <2> QED
    BY <2>1, <2>2 DEF In
<1>4. CASE Hello
  <2>1. PICK m \in {"hello", "stranger"} : SendUp(m)
    BY Zenon, <1>4 DEF Hello
  <2>2. cpc = "none" /\ cpc' = "ack" /\ m \in Msgs /\ m # "error"
    BY Zenon, <1>4, <2>1 DEF Hello, Msgs
  <2> QED
    BY Zenon, <1>1, <1>3, <2>1, <2>2
<1>5. CASE GetAck
  <2>1. cpc = "ack" /\ ((cpc' = "work" /\ sent' = sent) \/ cpc' = "failed")
    BY Zenon, <1>5 DEF GetAck
  <2> QED
    BY Zenon, <1>1, <2>1 DEF In
<1>6. CASE Report
  <2>1. cpc \in {"none", "pid"} /\ cpc' \in {"pid", "work"} /\ sent' = sent
    BY Zenon, <1>6 DEF Report
  <2> QED
    BY Zenon, <1>1, <2>1 DEF In
<1>7. CASE Work
  <2>1. cpc = "work" /\ \/ SendUp("step") /\ cpc' = cpc
                        \/ SendUp("done") /\ cpc' = "worked"
                        \/ program # "progress" /\ sent' = sent /\ cpc' = "worked"
    BY Zenon, <1>7 DEF Work
  <2>2. "step" \in Msgs /\ "done" \in Msgs
    BY Zenon DEF Msgs
  <2> QED
    BY Zenon, <1>1, <1>3, <2>1, <2>2 DEF In
<1>8. CASE sent' = sent /\ cpc' = cpc
  BY Zenon, <1>1, <1>8 DEF In
<1>9. CASE Launch \/ Launched \/ Timeout \/ SendAck \/ WaitRegion \/ Conclude \/ Fail \/ WaitHello \/ Monitor
  BY Zenon, <1>8, <1>9 DEF Launch, Launched, Timeout, SendAck, WaitRegion, Conclude, Fail, WaitHello, Monitor, talk, Quiet
<1>10. CASE WaitHelloExit \/ ConsumeExit \/ MonitorExit \/ Consume \/ ConsumeRest
  BY Zenon, <1>8, <1>10 DEF WaitHelloExit, ConsumeExit, MonitorExit, ExitAt, Consume, ConsumeRest, Drain, talk, Quiet
<1>11. CASE UNCHANGED talk /\ UNCHANGED cpc
  BY Zenon, <1>8, <1>11 DEF talk
<1> QED
  BY Zenon, <1>4, <1>5, <1>6, <1>7, <1>9, <1>10, <1>11
     DEF Next, ParentStep, ChildStep, Return, Crash, Quiet

\* The result is success only when the exit code was 0.
LEMMA ConcludeTrue ==
  ASSUME ProcInv, LaunchInv, Conclude, result' = "success"
  PROVE  obj[Child].pid # 0 /\ code[obj[Child].serial] = 0
<1>1. /\ program # "api" /\ ppc = "wait" /\ ExitCode(obj[Child]) = 0
  BY Zenon DEF Conclude, At
<1>2. ~interrupted /\ obj[Child].finished /\ obj[Child].pid # 0 /\ struck = {}
  BY Zenon, <1>1 DEF LaunchInv, ChildInv
<1>3. Child \in Objects
  BY Zenon, LauncherAssumption
<1>4. obj[Child].status = code[obj[Child].serial]
  BY Zenon, <1>2, <1>3, ObjectFacts DEF Stands
<1> QED
  BY <1>1, <1>2, <1>4 DEF ExitCode

\* Every step keeps what the invariant says of the progress demo.
LEMMA ProgressStep ==
  ASSUME ProcInv, LaunchInv, Next, program # "api"
  PROVE  ProgressInv'
<1>0. /\ Followed => ppc \in {"consume", "consume_exit", "drain", "wait"} \/ (ppc = "ended" /\ Concluded)
      /\ program = "progress" /\ ppc = "wait" => up = << >>
      /\ result = "success" => obj[Child].pid # 0 /\ code[obj[Child].serial] = 0
      /\ result # "none" <=> ppc = "ended"
      /\ ppc \in {"region", "monitor", "monitor_exit"} => program = "monitor"
  BY Zenon DEF LaunchInv, ProgressInv, TalkType
<1>1. TalkType /\ ChildInv /\ PipeInv
  BY Zenon DEF LaunchInv
<1>2. program' = program /\ (cpc' # "failed" => ~In("error", sent)')
      /\ (program = "progress" /\ cpc' = "worked" => In("done", sent)')
  BY Zenon, <1>1, ControlStep, LastWords
<1>3. SUFFICES /\ Followed' => ppc' \in {"consume", "consume_exit", "drain", "wait"} \/ (ppc' = "ended" /\ Concluded')
               /\ program = "progress" /\ ppc' = "wait" => up' = << >>
               /\ result' = "success" => obj'[Child].pid # 0 /\ code'[obj'[Child].serial] = 0
  BY Zenon, <1>2 DEF ProgressInv
<1>4. CASE Hello \/ GetAck \/ Report \/ Work
  <2>1. ChildRuns /\ ppc' = ppc /\ result' = result /\ UNCHANGED pvars
    BY Zenon, <1>4 DEF Hello, GetAck, Report, Work
  <2>2. ppc \notin {"drain", "wait"} /\ ~(ppc = "ended" /\ Concluded)
    BY Zenon, <2>1, Unseen
  <2>3. Followed' => Followed
    BY Zenon, <1>2, <1>4 DEF Followed, Hello, GetAck, Report, Work
  <2>4. code' = code /\ obj' = obj
    BY Zenon, <2>1 DEF pvars, processes
  <2> QED
    BY Zenon, <1>0, <2>1, <2>2, <2>3, <2>4
<1>5. CASE /\ UNCHANGED <<down, cpc, result>>
           /\ ppc \in {"spawn", "spawning", "failing", "hello", "hello_exit", "region", "monitor", "monitor_exit"}
           /\ ppc' # "wait" \/ program = "monitor"
  <2>1. ~Followed /\ result # "success"
    BY Zenon, <1>0, <1>5
  <2>2. ~Followed'
    BY Zenon, <1>2, <1>5, <2>1 DEF Followed
  <2> QED
    BY Zenon, <1>5, <2>1, <2>2
<1>6. CASE Launch \/ Launched \/ Timeout \/ WaitRegion \/ WaitHello \/ Monitor
  <2>1. /\ ppc \in {"spawn", "spawning", "hello", "region", "monitor"} /\ ppc' # "wait"
        /\ UNCHANGED <<down, cpc, result>>
    BY Zenon, <1>6 DEF Launch, Launched, Timeout, WaitRegion, WaitHello, Monitor, At, Quiet, talk
  <2> QED
    BY Zenon, <1>5, <2>1
<1>7. CASE WaitHelloExit \/ MonitorExit
  <2>1. /\ ppc = "hello_exit" \/ (ppc = "monitor_exit" /\ program = "monitor")
        /\ ppc' # "wait" \/ program = "monitor"
        /\ UNCHANGED <<down, cpc, result>>
    BY Zenon, <1>0, <1>7 DEF WaitHelloExit, MonitorExit, ExitAt, At, Quiet, talk
  <2> QED
    BY Zenon, <1>5, <2>1
<1>8. CASE SendAck \/ Consume \/ ConsumeExit \/ ConsumeRest
  <2>1. /\ ppc' \in {"consume", "consume_exit", "drain", "wait"} /\ ppc # "ended" /\ result' = result
        /\ ppc' = "wait" => up' = << >>
    BY Zenon, <1>8 DEF SendAck, Consume, ConsumeRest, Drain, ConsumeExit, ExitAt, At, Quiet
  <2> QED
    BY Zenon, <1>0, <2>1
<1>9. CASE Fail
  <2>1. ppc = "failing" /\ ppc' = "ended" /\ result' = "failure" /\ UNCHANGED <<down, cpc>>
    BY Zenon, <1>9 DEF Fail, At, talk
  <2>2. ~Followed'
    BY Zenon, <1>0, <1>2, <2>1 DEF Followed
  <2> QED
    BY Zenon, <2>1, <2>2
<1>10. CASE Conclude
  <2>1. ppc = "wait" /\ ppc' = "ended" /\ UNCHANGED pvars /\ UNCHANGED <<up, down, handled, cpc>>
    BY Zenon, <1>10 DEF Conclude, At, talk
  <2>2. code' = code /\ obj' = obj /\ interrupted' = interrupted
    BY Zenon, <2>1 DEF pvars, processes
  <2>3. result' = "success" => obj'[Child].pid # 0 /\ code'[obj'[Child].serial] = 0
    BY Zenon, <1>10, <2>2, ConcludeTrue
  <2>4. ASSUME Followed' PROVE Concluded'
    <3>1. program = "progress" /\ up = << >>
      BY Zenon, <1>0, <1>2, <2>1, <2>4 DEF Followed
    <3>2. ~interrupted /\ obj[Child].finished
      BY Zenon, <1>1, <2>1 DEF ChildInv
    <3>3. result' = "success" <=> ExitCode(obj[Child]) = 0 /\ ~Saw("error") /\ Saw("done")
      BY Zenon, <1>10, <3>1 DEF Conclude
    <3>4. (ExitCode(obj[Child])' = ExitCode(obj[Child])) /\ (Saw("error")' <=> Saw("error")) /\ (Saw("done")' <=> Saw("done"))
      BY Zenon, <2>1, <2>2 DEF ExitCode, Saw
    <3> QED
      BY Zenon, <2>1, <2>2, <3>1, <3>2, <3>3, <3>4 DEF Concluded
  <2> QED
    BY Zenon, <2>1, <2>3, <2>4
<1>11. CASE SpawnSteps /\ UNCHANGED <<ppc, talk>> /\ Quiet
  <2>1. ~Idle
    BY <1>11, NoProcessFacts, JobFacts
       DEF SpawnSteps, MakePipe, OpenNull, Fork, CreateProcess, Assign, Ready, Idle, NoJob
  <2>2. ppc = "spawning" /\ ppc' = ppc /\ UNCHANGED <<down, cpc, result>>
    BY Zenon, <1>1, <1>11, <2>1 DEF ChildInv, Quiet, talk
  <2> QED
    BY Zenon, <1>5, <2>2
<1>12. CASE Return \/ Crash
  <2>1. PICK s \in Serials : \E c : ChildExits(s, c)
    BY Zenon, <1>12 DEF Return, Crash
  <2>2. UNCHANGED <<obj, interrupted>> /\ \A t \in Serials : code[t] = 0 => code'[t] = code[t]
    <3>1. code \in [Serials -> Codes \cup {Alive, Signalled}]
      BY Zenon DEF ProcInv, SystemInv
    <3> QED
      BY <2>1, <3>1 DEF ChildExits, Alive
  <2>3. UNCHANGED <<program, ppc, cpc, up, down, sent, handled, result>>
    BY Zenon, <1>12 DEF Return, Crash, talk
  <2>4. result = "success" => obj'[Child].pid # 0 /\ code'[obj'[Child].serial] = 0
    <3>1. ASSUME result = "success" PROVE obj[Child].serial \in Serials
      <4>1. obj[Child].pid # 0 /\ Child \in Objects
        BY Zenon, <1>0, <3>1, LauncherAssumption
      <4>2. Proc(obj[Child]) /\ obj[Child].serial \in Serials \cup {0}
        BY Zenon, <4>1, ObjectFacts
      <4> QED
        BY Zenon, <4>1, <4>2 DEF Proc
    <3> QED
      BY Zenon, <1>0, <2>2, <3>1
  <2>5. (Followed' <=> Followed) /\ (Concluded' <=> Concluded)
    BY Zenon, <2>2, <2>3 DEF Followed, Concluded, ExitCode, Saw
  <2> QED
    BY Zenon, <1>0, <2>3, <2>4, <2>5
<1> QED
  BY Zenon, <1>4, <1>6, <1>7, <1>8, <1>9, <1>10, <1>11, <1>12 DEF Next, ParentStep, ChildStep

\* Every step keeps what the invariant says of the monitor demo.
LEMMA MonitorStep ==
  ASSUME ProcInv, LaunchInv, Next, program # "api"
  PROVE  MonitorInv'
<1>0. /\ region.used = 1 => cpc # "none"
      /\ program = "monitor" /\ ppc = "spawn" => cpc = "none"
      /\ program = "monitor" /\ ppc \in {"spawning", "region"} /\ cpc # "none" =>
           region.b_pid # 0 /\ region.b_pid = HolderPid
      /\ ppc # "ended" => ~interrupted
      /\ ~Idle => job.into = Child /\ obj[Child] = NoProcess
      /\ region \in [used : {0, 1}, b_pid : Pids \cup {0}]
      /\ TalkType /\ ChildInv
  BY Zenon DEF LaunchInv, MonitorInv, ChildInv, TalkType
<1>1. program' = program
  BY Zenon, <1>0, ControlStep
<1>2. CASE Report
  <2>1. ChildRuns /\ ppc' = ppc /\ UNCHANGED pvars /\ cpc' # "none"
    BY Zenon, <1>2 DEF Report
  <2>2. ppc # "spawn" /\ current_pid \in Pids /\ owner[current_pid] > 0
    BY Zenon, <2>1, Unseen, RunsFacts
  <2>3. ~interrupted => current_pid = HolderPid
    BY Zenon, <1>0, <2>2, ChildKnown
  <2>4. HolderPid' = HolderPid
    BY Zenon, <2>1 DEF HolderPid, pvars, NoProcess
  <2>5. current_pid # 0
    BY Zenon, <2>2, SubprocessAssumption
  <2>6. CASE cpc = "none" /\ region' = [region EXCEPT !.b_pid = current_pid]
    <3>1. region'.b_pid = current_pid /\ region'.used = region.used
      BY Zenon, <1>0, <2>6
    <3> QED
      BY Zenon, <1>0, <2>1, <2>2, <2>3, <2>4, <2>5, <3>1 DEF MonitorInv
  <2>7. CASE cpc = "pid" /\ region' = [region EXCEPT !.used = 1]
    <3>1. region'.b_pid = region.b_pid
      BY Zenon, <1>0, <2>7
    <3> QED
      BY Zenon, <1>0, <1>1, <2>1, <2>2, <2>4, <2>7, <3>1 DEF MonitorInv
  <2> QED
    BY Zenon, <1>2, <2>6, <2>7 DEF Report
<1>3. CASE Hello \/ GetAck \/ Work
  <2>1. ChildRuns /\ ppc' = ppc /\ UNCHANGED pvars /\ cpc' # "none" /\ region' = region
        /\ (program = "monitor" => cpc # "none")
    BY Zenon, <1>3 DEF Hello, GetAck, Work
  <2>2. ppc # "spawn"
    BY Zenon, <2>1, Unseen
  <2>3. HolderPid' = HolderPid
    BY Zenon, <2>1 DEF HolderPid, pvars, NoProcess
  <2> QED
    BY Zenon, <1>0, <1>1, <2>1, <2>2, <2>3 DEF MonitorInv
<1>4. CASE /\ region' = region /\ cpc' = cpc
           /\ ppc' = ppc \/ ppc' \notin {"spawn", "spawning", "region"} \/ (ppc = "spawning" /\ ppc' = "region")
                \/ (ppc = "spawn" /\ ppc' = "spawning")
           /\ (ppc' \in {"spawning", "region"} /\ cpc # "none" => HolderPid' = HolderPid)
  BY Zenon, <1>0, <1>1, <1>4 DEF MonitorInv
<1>5. CASE Launched \/ Timeout \/ WaitRegion \/ WaitHello \/ Monitor \/ SendAck \/ Consume \/ ConsumeRest \/ Conclude
  <2>1. /\ region' = region /\ cpc' = cpc /\ UNCHANGED pvars
        /\ ppc' = ppc \/ ppc' \notin {"spawn", "spawning", "region"} \/ (ppc = "spawning" /\ ppc' = "region")
    BY Zenon, <1>5 DEF Launched, Timeout, WaitRegion, WaitHello, Monitor, SendAck, Consume, ConsumeRest, Drain, Conclude,
       At, Quiet, talk
  <2>2. HolderPid' = HolderPid
    BY Zenon, <2>1 DEF HolderPid, pvars, NoProcess
  <2> QED
    BY Zenon, <1>4, <2>1, <2>2
<1>6. CASE WaitHelloExit \/ ConsumeExit \/ MonitorExit \/ Fail
  <2>1. region' = region /\ cpc' = cpc /\ ppc' \notin {"spawn", "spawning", "region"}
    BY Zenon, <1>6 DEF WaitHelloExit, ConsumeExit, MonitorExit, Fail, ExitAt, At, Quiet, talk
  <2> QED
    BY Zenon, <1>4, <2>1
<1>7. CASE Launch
  <2>1. region' = region /\ cpc' = cpc /\ ppc = "spawn" /\ ppc' = "spawning"
    BY Zenon, <1>7 DEF Launch, At, Quiet, talk
  <2> QED
    BY Zenon, <1>0, <1>1, <2>1 DEF MonitorInv
<1>8. CASE SpawnSteps /\ UNCHANGED <<ppc, talk>> /\ Quiet
  <2>1. ~Idle
    BY <1>8, NoProcessFacts, JobFacts
       DEF SpawnSteps, MakePipe, OpenNull, Fork, CreateProcess, Assign, Ready, Idle, NoJob
  <2>2. region' = region /\ cpc' = cpc /\ ppc' = ppc
    BY Zenon, <1>8 DEF Quiet, talk
  <2>3. ppc = "spawning"
    BY Zenon, <1>0, <2>1 DEF ChildInv
  <2>4. obj[Child].pid = 0 /\ NoJob.child = NoProcess
    BY Zenon, <1>0, <2>1, JobFacts, NoProcessFacts
  <2>5. ASSUME program = "monitor", cpc # "none" PROVE region'.b_pid # 0 /\ region'.b_pid = HolderPid'
    <3>1. region.b_pid # 0 /\ region.b_pid = HolderPid
      BY Zenon, <1>0, <2>3, <2>5
    <3>2. job.child # NoProcess
      BY Zenon, <2>4, <3>1 DEF HolderPid
    <3>3. job' = NoJob /\ obj'[Child] = job.child /\ platform' = platform
      BY Zenon, <1>0, <1>8, <2>1, <3>2, SpawnEffects
    <3>4. job'.child = NoProcess /\ NoProcess' = NoProcess
      BY Zenon, <2>4, <3>3 DEF NoProcess
    <3>5. HolderPid' = HolderPid
      BY Zenon, <3>2, <3>3, <3>4 DEF HolderPid
    <3> QED
      BY Zenon, <2>2, <3>1, <3>5
  <2> QED
    BY Zenon, <1>0, <1>1, <2>2, <2>3, <2>5 DEF MonitorInv
<1>9. CASE Return \/ Crash
  <2>1. region' = region /\ cpc' = cpc /\ ppc' = ppc /\ UNCHANGED <<platform, obj, job>>
    BY Zenon, <1>9 DEF Return, Crash, ChildExits, talk
  <2>2. HolderPid' = HolderPid
    BY Zenon, <2>1 DEF HolderPid, NoProcess
  <2> QED
    BY Zenon, <1>4, <2>1, <2>2
<1> QED
  BY Zenon, <1>2, <1>3, <1>5, <1>6, <1>7, <1>8, <1>9 DEF Next, ParentStep, ChildStep

\* Calls on process objects, without an example.
LEMMA ApiStep ==
  ASSUME LaunchInv, Next, program = "api"
  PROVE  LaunchInv'
<1>1. UNCHANGED rest
  BY Zenon, ApiSteps DEF Work, LaunchInv, TalkType
<1>2. UNCHANGED <<program, ppc, cpc, up, down, sent, handled, result, region>>
  BY Zenon, <1>1 DEF rest, talk
<1>3. result = "none" /\ cpc = "none" /\ ppc = "api" /\ TalkType /\ PipeInv /\ MonitorInv
  BY Zenon DEF LaunchInv, TalkType
<1>4. TalkType' /\ PipeInv'
  BY Zenon, <1>2, <1>3 DEF TalkType, PipeInv, Msgs
<1>5. ChildInv' /\ ProgressInv'
  BY Zenon, <1>2, <1>3 DEF ChildInv, ProgressInv, Followed
<1>6. MonitorInv'
  BY Zenon, <1>2, <1>3 DEF MonitorInv
<1> QED
  BY Zenon, <1>4, <1>5, <1>6 DEF LaunchInv

-----------------------------------------------------------------------------
(* The results                                                             *)

\* Before the spawn both invariants hold.
LEMMA LaunchStart ==
  ASSUME Init
  PROVE  ProcInv /\ LaunchInv
<1>1. ProcInv
  BY Zenon, ProcessStart DEF Init
<1>2. /\ program \in {"progress", "monitor", "api"} /\ ppc = IF program = "api" THEN "api" ELSE "spawn"
      /\ cpc = "none" /\ region = [used |-> 0, b_pid |-> 0]
      /\ up = << >> /\ down = << >> /\ sent = << >> /\ handled = << >> /\ result = "none"
  BY Zenon, LauncherAssumption DEF Init
<1>3. /\ \A o \in Objects : obj[o] = NoProcess
      /\ job = NoJob /\ interrupted = FALSE /\ spawned = 0 /\ code = [s \in Serials |-> Alive]
      /\ Child \in Objects
  BY Zenon, LauncherAssumption DEF Init, ProcessInit
<1>4. TalkType
  <2>1. << >> \in Seq(Msgs)
    OBVIOUS
  <2>2. region \in [used : {0, 1}, b_pid : Pids \cup {0}]
    BY Zenon, <1>2
  <2> QED
    BY Zenon, <1>2, <2>1, <2>2 DEF TalkType
<1>5. PipeInv
  BY <1>2 DEF PipeInv
<1>6. ChildInv
  <2>1. \A s \in Serials : code[s] # 0
    BY <1>3 DEF Alive
  <2> QED
    BY Zenon, <1>2, <1>3, <2>1 DEF ChildInv, Idle, Init, ProcessInit
<1>7. ProgressInv
  <2>1. ~In("error", sent)
    BY <1>2 DEF In
  <2> QED
    BY Zenon, <1>2, <2>1 DEF ProgressInv, Followed
<1>8. MonitorInv
  BY <1>2 DEF MonitorInv
<1> QED
  BY Zenon, <1>1, <1>4, <1>5, <1>6, <1>7, <1>8 DEF LaunchInv

\* Every step keeps both invariants.
LEMMA LaunchStep ==
  ASSUME ProcInv, LaunchInv, [Next]_vars
  PROVE  ProcInv' /\ LaunchInv'
<1>1. ProcInv'
  BY Zenon, LaunchProcess, ProcessStep
<1>2. CASE UNCHANGED vars
  <2>1. UNCHANGED <<program, ppc, cpc, up, down, sent, handled, result, region>>
        /\ UNCHANGED <<platform, obj, job, spawned, interrupted, code, struck>>
    BY Zenon, <1>2 DEF vars, talk, pvars, processes
  <2>2. TalkType' /\ PipeInv'
    BY <2>1 DEF LaunchInv, TalkType, PipeInv, Msgs
  <2>3. ChildInv'
    BY Zenon, <2>1 DEF LaunchInv, ChildInv, Idle, NoJob, NoProcess
  <2>4. ProgressInv'
    BY Zenon, <2>1 DEF LaunchInv, ProgressInv, Followed, Concluded, ExitCode, Saw, In
  <2>5. MonitorInv'
    BY Zenon, <2>1 DEF LaunchInv, MonitorInv, HolderPid, NoProcess
  <2> QED
    BY Zenon, <1>1, <2>2, <2>3, <2>4, <2>5 DEF LaunchInv
<1>3. CASE Next /\ program = "api"
  BY Zenon, <1>1, <1>3, ApiStep
<1>4. CASE Next /\ program # "api"
  <2>1. TalkType /\ PipeInv /\ ChildInv
    BY Zenon DEF LaunchInv
  <2>2. TalkType' /\ PipeInv'
    BY Zenon, <1>4, <2>1, TalkStep, MsgStep, PipeStep
  <2>3. ChildInv' /\ ProgressInv' /\ MonitorInv'
    BY Zenon, <1>4, <2>1, ChildStepKeeps, ProgressStep, MonitorStep
  <2> QED
    BY Zenon, <1>1, <2>2, <2>3 DEF LaunchInv
<1> QED
  BY Zenon, <1>2, <1>3, <1>4

\* LaunchInv says what the runs check of the examples.
LEMMA ResultSafe ==
  ASSUME ProcInv, LaunchInv
  PROVE  ResultTrue
<1>1. TalkType /\ PipeInv /\ ChildInv /\ ProgressInv /\ MonitorInv /\ Child \in Objects
  BY Zenon, LauncherAssumption DEF LaunchInv
<1>2. result = "success" => code[obj[Child].serial] = 0
  BY Zenon, <1>1 DEF ProgressInv
<1>3. ASSUME program = "progress", result # "none", obj[Child].pid # 0, code[obj[Child].serial] = 0
      PROVE  result = "success" /\ handled = sent
  <2>1. obj[Child].serial \in Serials
    BY Zenon, <1>1, <1>3, ObjectFacts DEF Proc
  <2>2. cpc = "worked" /\ ppc = "ended"
    BY Zenon, <1>1, <1>3, <2>1 DEF ChildInv, TalkType
  <2>3. Concluded
    BY Zenon, <1>1, <1>3, <2>2 DEF ProgressInv, Followed
  <2>4. ~In("error", sent) /\ In("done", sent)
    BY Zenon, <1>1, <1>3, <2>2 DEF ProgressInv
  <2>5. up = << >> /\ ~interrupted /\ obj[Child].finished
    BY Zenon, <2>3 DEF Concluded
  <2>6. handled \in Seq(Msgs) /\ sent \in Seq(Msgs) /\ Len(handled) = Len(sent)
        /\ \A i \in 1 .. Len(handled) : sent[i] = handled[i]
    BY <1>1, <2>5 DEF TalkType, PipeInv
  <2>7. handled = sent
    BY <2>6
  <2>8. ~Saw("error") /\ Saw("done")
    BY Zenon, <2>4, <2>7 DEF Saw, In
  <2>9. obj[Child].status = code[obj[Child].serial]
    BY Zenon, <1>1, <1>3, <2>5, ObjectFacts DEF Stands, ChildInv
  <2>10. ExitCode(obj[Child]) = 0
    BY <1>3, <2>9 DEF ExitCode, Signalled
  <2> QED
    BY Zenon, <2>3, <2>7, <2>8, <2>10 DEF Concluded
<1>4. ASSUME ppc = "region", region.used = 1 PROVE region.b_pid = obj[Child].pid
  <2>1. program = "monitor" /\ cpc # "none" /\ region.b_pid = HolderPid
    BY Zenon, <1>1, <1>4 DEF TalkType, MonitorInv
  <2>2. Idle
    BY Zenon, <1>1, <1>4, <2>1 DEF ChildInv
  <2>3. job.child = NoProcess
    BY Zenon, <2>2, JobFacts, NoProcessFacts DEF Idle
  <2> QED
    BY Zenon, <2>1, <2>3 DEF HolderPid
<1> QED
  BY Zenon, <1>2, <1>3, <1>4 DEF ResultTrue

\* ProcInv and LaunchInv hold of every behaviour: of any calls on process objects, and
\* of the two examples, however their children end.
THEOREM LaunchInvariant == Spec => [](ProcInv /\ LaunchInv)
<1>1. Init => ProcInv /\ LaunchInv
  BY Zenon, LaunchStart
<1>2. (ProcInv /\ LaunchInv) /\ [Next]_vars => (ProcInv /\ LaunchInv)'
  BY Zenon, LaunchStep
<1> QED
  BY <1>1, <1>2, PTL DEF Spec

\* Every number an object may signal or wait for is its own child's; unless a signal cut
\* a waitpid short, every child that has not been reaped has an object, and a finished
\* object reports the exit code its child ended with.  On Windows this leaves out the
\* children whose hProcess a second close of an hThread has hit.
THEOREM ChildrenAccountedAlways == Spec => []ChildrenAccounted
<1>1. ProcInv => ChildrenAccounted
  BY Zenon, ProcessSafe
<1> QED
  BY <1>1, LaunchInvariant, PTL

\* Between spawns exactly the handles of the objects are open, each with one holder, but
\* for the handles that reset() has hit by closing hThread a second time on Windows; on
\* POSIX there are none, and nothing is closed that is not open.
THEOREM HandlesOwnedAlways == Spec => []HandlesOwned
<1>1. ProcInv => HandlesOwned
  BY Zenon, ProcessSafe
<1> QED
  BY <1>1, LaunchInvariant, PTL

\* The examples report success only for a child that exited with 0, the progress demo for
\* every such child and with every message handled; the number in the demo's region is
\* that of its child.
THEOREM ResultTrueAlways == Spec => []ResultTrue
<1>1. ProcInv /\ LaunchInv => ResultTrue
  BY Zenon, ResultSafe
<1> QED
  BY <1>1, LaunchInvariant, PTL
================================================================================
