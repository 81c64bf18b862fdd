------------------------------- MODULE Win32Shm -------------------------------
(***************************************************************************)
(* Shared memory on Windows (src/core/shm_win32.cpp): the shm objects of   *)
(* one process, used by several threads, over named sections.  The process *)
(* keeps two tables behind g_win32_shm_mutex: one mapped view per name,    *)
(* access and size with a reference count, and per name the handle that    *)
(* later opens duplicate.                                                  *)
(*                                                                         *)
(* Each system call and each block that holds the mutex is one step.  The  *)
(* kernel may give a closed handle's value to any later handle.            *)
(***************************************************************************)
EXTENDS Integers, Sequences, FiniteSets

CONSTANTS
  Objects,    \* shm objects, each used by a thread of its own
  Names,      \* object names (mapping_name_from_path)
  Sizes,      \* sizes asked for, in pages; 0 is infer_existing_shm_size
  Handles,    \* handle values of the process
  MaxSects,   \* bound: sections created
  MaxOpens    \* bound: calls of open()

ASSUME Win32Assumption ==
  /\ Sizes \subseteq Nat /\ 0 \notin Handles
  /\ MaxSects \in Nat /\ MaxOpens \in Nat

Modes == {"open", "read", "open_create", "create"}
Creating == {"open_create", "create"}
Access(mode) == IF mode = "read" THEN "read" ELSE "write"
Sections == 1 .. MaxSects

\* view_registry_key: one entry per name, access and size.
Key(r) == [name |-> r.name, access |-> Access(r.mode), size |-> r.size]
Keys == [name : Names, access : {"read", "write"}, size : Sizes]

VARIABLES
  sects,      \* sections created: name and size
  handles,    \* the process's handle table: a section, or 0 for a free value
  peers,      \* sections that another process holds a handle of
  maps,       \* MapViewOfFile calls not undone yet, per section
  views,      \* g_process_views: addr, section_handle, refcount (0: no entry)
  canonical,  \* g_canonical_shm_handle, 0 for none
  pc,         \* where each object is: "closed", a step of open(), or "open"
  req,        \* name_, mode and size_ of its open(); Key(req) is win32_view_key_ once open
  src,        \* dup_src
  hnd,        \* h, the handle open() holds, 0 for none
  addr,       \* section it mapped, or whose view it shares; 0 for none
  opens,      \* open() calls so far
  raced       \* some dup_src was closed before it was duplicated (history)

kernel == <<sects, handles, peers, maps>>
tables == <<views, canonical>>
vars == <<kernel, tables, pc, req, src, hnd, addr, opens, raced>>

NoReq == [name |-> 0, mode |-> "none", size |-> 0]
NoView == [addr |-> 0, handle |-> 0, ref |-> 0]

Init ==
  /\ sects = << >> /\ peers = {}
  /\ handles = [h \in Handles |-> 0] /\ maps = [s \in Sections |-> 0]
  /\ views = [k \in Keys |-> NoView] /\ canonical = [n \in Names |-> 0]
  /\ pc = [o \in Objects |-> "closed"] /\ req = [o \in Objects |-> NoReq]
  /\ src = [o \in Objects |-> 0] /\ hnd = [o \in Objects |-> 0] /\ addr = [o \in Objects |-> 0]
  /\ opens = 0 /\ raced = FALSE

-----------------------------------------------------------------------------
(* The kernel (external): a name is bound while some process has a handle. *)

Bound(n) ==
  {s \in DOMAIN sects : sects[s].name = n /\ (s \in peers \/ \E h \in Handles : handles[h] = s)}

\* A free handle value now refers to section s, and object o holds it.
NewHandle(o, s) ==
  \E h \in Handles :
    /\ handles[h] = 0
    /\ handles' = [handles EXCEPT ![h] = s]
    /\ hnd' = [hnd EXCEPT ![o] = h]

Close(h) == handles' = [handles EXCEPT ![h] = 0]

\* Another process opens or creates the section of a name, or closes its handle.
PeerOpens ==
  /\ \E n \in Names, z \in Sizes \ {0} :
       \/ /\ Bound(n) # {}
          /\ peers' = peers \cup Bound(n)
          /\ UNCHANGED sects
       \/ /\ Bound(n) = {} /\ Len(sects) < MaxSects
          /\ sects' = Append(sects, [name |-> n, size |-> z])
          /\ peers' = peers \cup {Len(sects) + 1}
  /\ UNCHANGED <<handles, maps, tables, pc, req, src, hnd, addr, opens, raced>>

PeerCloses ==
  /\ \E s \in peers : peers' = peers \ {s}
  /\ UNCHANGED <<sects, handles, maps, tables, pc, req, src, hnd, addr, opens, raced>>

-----------------------------------------------------------------------------
(* open()                                                                  *)

Goto(o, next) == pc' = [pc EXCEPT ![o] = next]

\* return false: the object keeps nothing.
Fail(o) ==
  /\ Goto(o, "closed")
  /\ req' = [req EXCEPT ![o] = NoReq]

\* The arguments, and for open and read the look at the canonical handle under the lock.
Open(o, r) ==
  /\ pc[o] = "closed"
  /\ opens < MaxOpens
  /\ opens' = opens + 1
  /\ r.mode = "create" => r.size # 0
  /\ req' = [req EXCEPT ![o] = r]
  /\ LET c == IF r.mode \in Creating THEN 0 ELSE canonical[r.name]
     IN /\ src' = [src EXCEPT ![o] = c]
        /\ Goto(o, IF c # 0 THEN "duplicate" ELSE IF r.mode = "create" THEN "create" ELSE "openmap")
  /\ UNCHANGED <<kernel, tables, hnd, addr, raced>>

\* DuplicateHandle fails, or acts on whatever the value refers to now.
Duplicate(o) ==
  /\ pc[o] = "duplicate"
  /\ src' = [src EXCEPT ![o] = 0]
  /\ \/ /\ handles[src[o]] # 0
        /\ NewHandle(o, handles[src[o]])
        /\ Goto(o, "reuse")
        /\ UNCHANGED req
     \/ /\ Fail(o)
        /\ UNCHANGED <<handles, hnd>>
  /\ UNCHANGED <<sects, peers, maps, tables, addr, opens, raced>>

\* OpenFileMapping; when it fails, open_create goes on to create.
OpenMapping(o) ==
  /\ pc[o] = "openmap"
  /\ \/ /\ \E s \in Bound(req[o].name) : NewHandle(o, s)
        /\ Goto(o, "reuse")
        /\ UNCHANGED req
     \/ /\ \/ /\ req[o].mode = "open_create" /\ req[o].size # 0
              /\ Goto(o, "create")
              /\ UNCHANGED req
           \/ /\ req[o].mode # "open_create" \/ req[o].size = 0
              /\ Fail(o)
        /\ UNCHANGED <<handles, hnd>>
  /\ UNCHANGED <<sects, peers, maps, tables, src, addr, opens, raced>>

\* CreateFileMapping: a new section, or the one the name is bound to by now.
CreateMapping(o) ==
  /\ pc[o] = "create"
  /\ \/ /\ \E s \in Bound(req[o].name) : NewHandle(o, s)
        /\ UNCHANGED sects
     \/ /\ Bound(req[o].name) = {} /\ Len(sects) < MaxSects
        /\ sects' = Append(sects, [name |-> req[o].name, size |-> req[o].size])
        /\ NewHandle(o, Len(sects) + 1)
  /\ Goto(o, "reuse")
  /\ UNCHANGED <<peers, maps, tables, req, src, addr, opens, raced>>

CreateFails(o) ==
  /\ pc[o] = "create"
  /\ Fail(o)
  /\ UNCHANGED <<kernel, tables, src, hnd, addr, opens, raced>>

\* A creating open leaves a canonical handle behind unless the name has one.
SetCanonical(r, h) ==
  canonical' = IF r.mode \in Creating /\ canonical[r.name] = 0
                 THEN [canonical EXCEPT ![r.name] = h] ELSE canonical

\* Fault: the handle of the open that lost stays open.
ShareKeepsHandle(o, k) ==
  /\ views' = [views EXCEPT ![k].ref = @ + 1]
  /\ SetCanonical(req[o], views[k].handle)
  /\ addr' = [addr EXCEPT ![o] = views[k].addr]
  /\ hnd' = [hnd EXCEPT ![o] = 0]
  /\ Goto(o, "open")
  /\ UNCHANGED handles

\* The object shares the view already registered under its key and closes its own handle.
Share(o, k) ==
  /\ views' = [views EXCEPT ![k].ref = @ + 1]
  /\ SetCanonical(req[o], views[k].handle)
  /\ addr' = [addr EXCEPT ![o] = views[k].addr]
  /\ Close(hnd[o])
  /\ hnd' = [hnd EXCEPT ![o] = 0]
  /\ Goto(o, "open")

\* Under the lock, when a size was given: a view of that key is shared.
ReuseView(o) ==
  /\ pc[o] = "reuse"
  /\ \/ /\ req[o].size # 0 /\ views[Key(req[o])].ref # 0
        /\ Share(o, Key(req[o]))
     \/ /\ req[o].size = 0 \/ views[Key(req[o])].ref = 0
        /\ Goto(o, "map")
        /\ UNCHANGED <<handles, tables, hnd, addr>>
  /\ UNCHANGED <<sects, peers, maps, req, src, opens, raced>>

\* Fault: the region's size is not compared with the size asked for.
MapViewUnchecked(o) ==
  LET s == handles[hnd[o]]
  IN /\ pc[o] = "map"
     /\ maps' = [maps EXCEPT ![s] = @ + 1]
     /\ addr' = [addr EXCEPT ![o] = s]
     /\ req' = [req EXCEPT ![o].size = IF @ = 0 THEN sects[s].size ELSE @]
     /\ Goto(o, "register")
     /\ UNCHANGED <<sects, handles, peers, tables, src, hnd, opens, raced>>

\* map_and_verify_size fails, or the region holds the size asked for; size 0 takes the
\* section's size.
MapView(o) ==
  LET s == handles[hnd[o]]
  IN /\ pc[o] = "map"
     /\ \/ /\ sects[s].size >= req[o].size
           /\ maps' = [maps EXCEPT ![s] = @ + 1]
           /\ addr' = [addr EXCEPT ![o] = s]
           /\ req' = [req EXCEPT ![o].size = IF @ = 0 THEN sects[s].size ELSE @]
           /\ Goto(o, "register")
           /\ UNCHANGED <<handles, hnd>>
        \/ /\ Close(hnd[o])
           /\ hnd' = [hnd EXCEPT ![o] = 0]
           /\ Fail(o)
           /\ UNCHANGED <<maps, addr>>
     /\ UNCHANGED <<sects, peers, tables, src, opens, raced>>

\* Fault: the key is not looked up again, and the other thread's entry is overwritten.
RegisterBlindly(o) ==
  /\ pc[o] = "register"
  /\ views' = [views EXCEPT ![Key(req[o])] = [addr |-> addr[o], handle |-> hnd[o], ref |-> 1]]
  /\ SetCanonical(req[o], hnd[o])
  /\ hnd' = [hnd EXCEPT ![o] = 0]
  /\ Goto(o, "open")
  /\ UNCHANGED <<kernel, req, src, addr, opens, raced>>

\* Under the lock again: another thread may have registered the key in between.
Register(o) ==
  LET k == Key(req[o])
  IN /\ pc[o] = "register"
     /\ \/ /\ views[k].ref # 0
           /\ Share(o, k)
           /\ maps' = [maps EXCEPT ![addr[o]] = @ - 1]
        \/ /\ views[k].ref = 0
           /\ views' = [views EXCEPT ![k] = [addr |-> addr[o], handle |-> hnd[o], ref |-> 1]]
           /\ SetCanonical(req[o], hnd[o])
           /\ hnd' = [hnd EXCEPT ![o] = 0]
           /\ Goto(o, "open")
           /\ UNCHANGED <<handles, maps, addr>>
     /\ UNCHANGED <<sects, peers, req, src, opens, raced>>

-----------------------------------------------------------------------------
(* detach() and the move                                                   *)

\* Under the lock: the last reference erases the view and, if it is this view's, the
\* canonical handle, unmaps the view and closes the handle.
Detach(o) ==
  LET k == Key(req[o])
      v == views[k]
  IN /\ pc[o] = "open"
     /\ \/ /\ v.ref = 1
           /\ views' = [views EXCEPT ![k] = NoView]
           /\ canonical' = IF canonical[k.name] = v.handle
                             THEN [canonical EXCEPT ![k.name] = 0] ELSE canonical
           /\ maps' = [maps EXCEPT ![v.addr] = @ - 1]
           /\ Close(v.handle)
           /\ raced' = (raced \/ \E p \in Objects : src[p] = v.handle)
        \/ /\ v.ref # 1
           /\ views' = [views EXCEPT ![k].ref = @ - 1]
           /\ UNCHANGED <<handles, maps, canonical, raced>>
     /\ addr' = [addr EXCEPT ![o] = 0]
     /\ Fail(o)
     /\ UNCHANGED <<sects, peers, src, hnd, opens>>

\* Move into an object that is closed: the view key goes along, the source keeps nothing.
Move(o, p) ==
  /\ pc[o] = "open" /\ pc[p] = "closed"
  /\ pc' = [pc EXCEPT ![o] = "closed", ![p] = "open"]
  /\ req' = [req EXCEPT ![o] = NoReq, ![p] = req[o]]
  /\ addr' = [addr EXCEPT ![o] = 0, ![p] = addr[o]]
  /\ UNCHANGED <<kernel, tables, src, hnd, opens, raced>>

-----------------------------------------------------------------------------
Request == [name : Names, mode : Modes, size : Sizes]

Step(o) ==
  \/ Duplicate(o) \/ OpenMapping(o) \/ CreateMapping(o) \/ CreateFails(o)
  \/ ReuseView(o) \/ MapView(o) \/ Register(o)

Next ==
  \/ \E o \in Objects : \/ \E r \in Request : Open(o, r)
                       \/ Step(o) \/ Detach(o)
                       \/ \E p \in Objects : Move(o, p)
  \/ PeerOpens \/ PeerCloses

Spec == Init /\ [][Next]_vars

-----------------------------------------------------------------------------
(* Properties.                                                             *)

Using(k) == {o \in Objects : pc[o] = "open" /\ Key(req[o]) = k}

\* The tables are exact.  A view's count is the number of objects that use it, each of
\* them at the view's address, and the section stays mapped: no detach() unmaps what
\* another object uses.  The handle a later open duplicates is always the open handle
\* of a view still registered under the same name: no thread can find a closed one.
TablesExact ==
  /\ \A k \in Keys : /\ views[k].ref = Cardinality(Using(k))
                    /\ \A o \in Using(k) : addr[o] = views[k].addr /\ maps[addr[o]] > 0
  /\ \A n \in Names : canonical[n] # 0 =>
       \E k \in Keys : /\ k.name = n /\ views[k].ref # 0
                      /\ views[k].handle = canonical[n] /\ handles[canonical[n]] # 0

\* When every object of the process is closed, no handle, mapped view or canonical
\* entry is left, whatever opens failed or lost a race on the way.
NothingLeaks ==
  (\A o \in Objects : pc[o] = "closed") =>
    /\ \A h \in Handles : handles[h] = 0
    /\ \A s \in Sections : maps[s] = 0
    /\ \A n \in Names : canonical[n] = 0

\* An object opened by name uses a section of that name, at least as large as asked
\* for, unless some open's dup_src was closed between the lookup and DuplicateHandle.
OpenedByName ==
  ~raced => \A o \in Objects : pc[o] = "open" =>
    sects[addr[o]].name = req[o].name /\ sects[addr[o]].size >= req[o].size
================================================================================
