------------------------------ MODULE Win32Proofs ------------------------------
(***************************************************************************)
(* Shared memory on Windows, for every number of objects, names, sizes,    *)
(* handle values, sections and opens.                                      *)
(***************************************************************************)
EXTENDS Win32Shm, FiniteSetTheorems, TLAPS

Holding == {"reuse", "map", "register"}
Pcs == {"closed", "duplicate", "openmap", "create", "open"} \cup Holding

Section == [name : Names, size : Sizes \ {0}]
View == [addr : Nat, handle : Handles \cup {0}, ref : Nat]

KernelType ==
  /\ sects \in Seq(Section) /\ Len(sects) <= MaxSects /\ peers \subseteq 1 .. Len(sects)
  /\ handles \in [Handles -> 0 .. Len(sects)] /\ maps \in [Sections -> Nat]

TablesType == views \in [Keys -> View] /\ canonical \in [Names -> Handles \cup {0}]

ObjectsType ==
  /\ pc \in [Objects -> Pcs] /\ req \in [Objects -> Request \cup {NoReq}]
  /\ src \in [Objects -> Handles \cup {0}] /\ hnd \in [Objects -> Handles \cup {0}]
  /\ addr \in [Objects -> Nat] /\ raced \in BOOLEAN

\* What an object has, by where it is.
HasInv ==
  \A o \in Objects : /\ pc[o] # "closed" => req[o] \in Request
                     /\ pc[o] = "create" => req[o].size # 0
                     /\ src[o] # 0 <=> pc[o] = "duplicate"
                     /\ hnd[o] # 0 <=> pc[o] \in Holding

Live(k) == views[k].ref # 0

\* Every open handle has one owner, an open() under way or a registered view, and what
\* they own is open.
OwnerInv ==
  /\ \A o \in Objects : hnd[o] # 0 => handles[hnd[o]] # 0
  /\ \A k \in Keys : Live(k) => /\ views[k].handle # 0
                                /\ handles[views[k].handle] = views[k].addr
                                /\ views[k].addr \in 1 .. Len(sects)
  /\ \A o, p \in Objects : hnd[o] # 0 /\ hnd[o] = hnd[p] => o = p
  /\ \A o \in Objects, k \in Keys : hnd[o] # 0 /\ Live(k) => hnd[o] # views[k].handle
  /\ \A k, l \in Keys : Live(k) /\ Live(l) /\ views[k].handle = views[l].handle => k = l
  /\ \A h \in Handles : handles[h] # 0 =>
       (\E o \in Objects : hnd[o] = h) \/ (\E k \in Keys : Live(k) /\ views[k].handle = h)

\* A view is counted once per object that uses it.
UsersInv ==
  /\ \A k \in Keys : IsFiniteSet(Using(k)) /\ views[k].ref = Cardinality(Using(k))
  /\ \A o \in Objects : pc[o] = "open" => addr[o] = views[Key(req[o])].addr

\* A section is mapped once per registered view of it and once per open() that has
\* mapped it and not registered it yet.
Mapping(s) == {o \in Objects : pc[o] = "register" /\ addr[o] = s}
Viewing(s) == {k \in Keys : Live(k) /\ views[k].addr = s}

MapsInv ==
  /\ \A s \in Sections : /\ IsFiniteSet(Mapping(s)) /\ IsFiniteSet(Viewing(s))
                         /\ maps[s] = Cardinality(Mapping(s)) + Cardinality(Viewing(s))
  /\ \A o \in Objects : pc[o] = "register" => addr[o] = handles[hnd[o]]

\* A canonical handle is that of a registered view of its name.
Registered(n, h) == \E k \in Keys : k.name = n /\ Live(k) /\ views[k].handle = h

CanonicalInv == \A n \in Names : canonical[n] # 0 => Registered(n, canonical[n])

\* What is known of the sections in use.  Sizes hold always, names while no dup_src was
\* closed under an open().
SizesInv ==
  /\ \A k \in Keys : Live(k) => sects[views[k].addr].size >= k.size
  /\ \A o \in Objects : pc[o] = "register" => sects[addr[o]].size >= req[o].size

NamesInv ==
  ~raced =>
    /\ \A o \in Objects : src[o] # 0 => Registered(req[o].name, src[o])
    /\ \A o \in Objects : hnd[o] # 0 => sects[handles[hnd[o]]].name = req[o].name
    /\ \A k \in Keys : Live(k) => sects[views[k].addr].name = k.name

\* The inductive invariant.
Win32Inv ==
  /\ KernelType /\ TablesType /\ ObjectsType /\ HasInv
  /\ OwnerInv /\ UsersInv /\ MapsInv /\ CanonicalInv /\ SizesInv /\ NamesInv

-----------------------------------------------------------------------------
\* The key of a request.
LEMMA KeyType == ASSUME NEW r \in Request PROVE Key(r) \in Keys /\ Key(r).name = r.name /\ Key(r).size = r.size
BY Zenon DEF Request, Key, Keys, Access, Modes

\* Counting one more and one less.
LEMMA OneMoved == \A a, b \in Nat : a + b = (a - 1) + (b + 1)
OBVIOUS

\* 0 is in every range from 0.
LEMMA ZeroBelow == \A n \in Nat : 0 \in 0 .. n
OBVIOUS

\* Arithmetic of the counts.
LEMMA OneLess == 1 - 1 = 0 /\ \A a, b \in Nat : (a + b) - 1 = a + (b - 1) /\ a + b \in Nat
OBVIOUS

\* A section in use is one of those that may be created.
LEMMA SectsInBounds == ASSUME KernelType PROVE Len(sects) \in Nat /\ \A s \in 1 .. Len(sects) : s \in Sections
BY Win32Assumption DEF KernelType, Sections

\* The sections created so far keep their name and size.
Grows ==
  /\ sects' \in Seq(Section) /\ Len(sects) <= Len(sects') /\ Len(sects') <= MaxSects
  /\ \A s \in 1 .. Len(sects) : sects'[s] = sects[s]

\* A step that makes no section keeps those there are.
LEMMA SameSects == ASSUME KernelType, sects' = sects PROVE Grows
BY DEF Grows, KernelType

\* A step that makes one section puts it after those there are.
LEMMA NewSect ==
  ASSUME KernelType, NEW z \in Section, Len(sects) < MaxSects, sects' = Append(sects, z)
  PROVE  Grows /\ Len(sects') = Len(sects) + 1 /\ sects'[Len(sects) + 1] = z /\ Len(sects) \in Nat
BY Win32Assumption DEF KernelType, Grows

\* What the invariant says of the sections in use holds of them for good.
LEMMA SectionsKept ==
  ASSUME Win32Inv, Grows
  PROVE  /\ Len(sects) \in Nat /\ Len(sects') \in Nat
         /\ \A k \in Keys : Live(k) => sects'[views[k].addr] = sects[views[k].addr]
         /\ \A o \in Objects : hnd[o] # 0 => /\ handles[hnd[o]] \in 1 .. Len(sects)
                                            /\ sects'[handles[hnd[o]]] = sects[handles[hnd[o]]]
<1>1. \A k \in Keys : Live(k) => views[k].addr \in 1 .. Len(sects) BY Zenon DEF Win32Inv, OwnerInv
<1>2. \A o \in Objects : hnd[o] # 0 => handles[hnd[o]] \in 1 .. Len(sects)
  <2>1. \A o \in Objects : hnd[o] # 0 => hnd[o] \in Handles /\ handles[hnd[o]] # 0
    BY Zenon DEF Win32Inv, ObjectsType, OwnerInv
  <2>2. handles \in [Handles -> 0 .. Len(sects)] /\ Len(sects) \in Nat BY DEF Win32Inv, KernelType
  <2>3. QED BY <2>1, <2>2
<1>3. Len(sects) \in Nat /\ Len(sects') \in Nat BY DEF Win32Inv, KernelType, Grows
<1>4. QED BY Zenon, <1>1, <1>2, <1>3 DEF Grows

\* Objects that neither become users of a view nor cease to be.
LEMMA SameUsers ==
  ASSUME NEW o \in Objects, pc \in [Objects -> Pcs], pc[o] # "open", NEW x, x # "open",
         pc' = [pc EXCEPT ![o] = x], \A p \in Objects \ {o} : req'[p] = req[p], NEW k \in Keys
  PROVE  Using(k)' = Using(k)
BY Zenon DEF Using

\* Object o becomes a user of the view of its key.
LEMMA NewUser ==
  ASSUME NEW o \in Objects, pc \in [Objects -> Pcs], pc[o] # "open", pc' = [pc EXCEPT ![o] = "open"],
         req' = req, NEW k \in Keys
  PROVE  /\ o \notin Using(k)
         /\ Using(k)' = IF k = Key(req[o]) THEN Using(k) \cup {o} ELSE Using(k)
BY Zenon DEF Using

\* Objects that neither start nor end between their mapping and its registration.
LEMMA SameMapping ==
  ASSUME NEW o \in Objects, pc \in [Objects -> Pcs], pc[o] # "register", NEW x, x # "register",
         pc' = [pc EXCEPT ![o] = x], \A p \in Objects \ {o} : addr'[p] = addr[p], NEW s
  PROVE  Mapping(s)' = Mapping(s)
BY Zenon DEF Mapping

-----------------------------------------------------------------------------
\* The other processes.
LEMMA PeersGrow == ASSUME KernelType, PeerOpens \/ PeerCloses PROVE Grows /\ peers' \subseteq 1 .. Len(sects')
<1>1. peers \subseteq 1 .. Len(sects) /\ Len(sects) \in Nat BY DEF KernelType
<1>2. CASE PeerCloses BY Zenon, <1>1, <1>2, SameSects DEF PeerCloses
<1>3. ASSUME NEW n \in Names, peers' = peers \cup Bound(n), UNCHANGED sects
      PROVE  Grows /\ peers' \subseteq 1 .. Len(sects')
  <2>1. Bound(n) \subseteq 1 .. Len(sects) BY DEF Bound, KernelType
  <2>2. QED BY Zenon, <1>1, <1>3, <2>1, SameSects
<1>4. ASSUME NEW n \in Names, NEW z \in Sizes \ {0}, Len(sects) < MaxSects,
             sects' = Append(sects, [name |-> n, size |-> z]), peers' = peers \cup {Len(sects) + 1}
      PROVE  Grows /\ peers' \subseteq 1 .. Len(sects')
  <2>1. [name |-> n, size |-> z] \in Section BY Zenon DEF Section
  <2>2. Grows /\ Len(sects') = Len(sects) + 1 BY Zenon, <1>4, <2>1, NewSect
  <2>3. peers' = peers \cup {Len(sects) + 1} BY Zenon, <1>4
  <2>4. \A s \in peers' : s \in 1 .. Len(sects) + 1 BY <1>1, <2>3
  <2>5. QED BY Zenon, <2>2, <2>4
<1>5. QED BY Zenon, <1>2, <1>3, <1>4 DEF PeerOpens

\* Other processes open and close sections.
LEMMA PeersKeep == ASSUME Win32Inv, PeerOpens \/ PeerCloses PROVE Win32Inv'
<1>1. UNCHANGED <<handles, maps, views, canonical, pc, req, src, hnd, addr, raced>>
  BY Zenon DEF PeerOpens, PeerCloses, tables
<1>2. Grows /\ peers' \subseteq 1 .. Len(sects') BY Zenon, PeersGrow DEF Win32Inv
<1>3. KernelType' BY <1>1, <1>2 DEF Win32Inv, KernelType, Grows
<1>4. TablesType' /\ ObjectsType' /\ HasInv' BY Zenon, <1>1 DEF Win32Inv, TablesType, ObjectsType, HasInv
<1>5. OwnerInv'
  <2>1. Len(sects) \in Nat /\ Len(sects') \in Nat /\ Len(sects) <= Len(sects') BY Zenon, <1>2, SectionsKept DEF Grows
  <2>2. QED BY <1>1, <2>1 DEF Win32Inv, OwnerInv, Live
<1>6. UsersInv' BY Zenon, <1>1 DEF Win32Inv, UsersInv, Using
<1>7. MapsInv' BY Zenon, <1>1 DEF Win32Inv, MapsInv, Mapping, Viewing, Live
<1>8. CanonicalInv' BY Zenon, <1>1 DEF Win32Inv, CanonicalInv, Registered, Live
<1>9. SizesInv'
  <2>1. \A o \in Objects : pc[o] = "register" => hnd[o] # 0 /\ addr[o] = handles[hnd[o]]
    BY Zenon DEF Win32Inv, HasInv, MapsInv, Holding
  <2>2. QED BY Zenon, <1>1, <1>2, <2>1, SectionsKept DEF Win32Inv, SizesInv, Live
<1>10. NamesInv' BY Zenon, <1>1, <1>2, SectionsKept DEF Win32Inv, NamesInv, Registered, Live
<1>11. QED BY Zenon, <1>3, <1>4, <1>5, <1>6, <1>7, <1>8, <1>9, <1>10 DEF Win32Inv

\* An open() goes on, or fails, while it holds nothing.
Empty == {"closed", "duplicate", "openmap", "create"}

\* A step of open that only moves on in the code, with its request and the handle it looked up.
LEMMA QuietKeeps ==
  ASSUME Win32Inv, NEW o \in Objects, NEW x \in Empty, NEW r \in Request \cup {NoReq}, NEW c \in Handles \cup {0},
         pc[o] \in Empty, pc' = [pc EXCEPT ![o] = x], req' = [req EXCEPT ![o] = r], src' = [src EXCEPT ![o] = c],
         UNCHANGED <<sects, handles, peers, maps, views, canonical, hnd, addr, raced>>,
         x # "closed" => r \in Request, x = "create" => r.size # 0,
         c # 0 <=> x = "duplicate", c # 0 => Registered(r.name, c)
  PROVE  Win32Inv'
<1>1. /\ pc \in [Objects -> Pcs] /\ pc[o] \notin Holding \cup {"open"} /\ x \notin Holding \cup {"open"}
      /\ "register" \in Holding
  BY Zenon DEF Win32Inv, ObjectsType, Empty, Holding
<1>2. /\ pc'[o] = x /\ req'[o] = r /\ src'[o] = c
      /\ \A p \in Objects \ {o} : pc'[p] = pc[p] /\ req'[p] = req[p] /\ src'[p] = src[p]
  BY Zenon DEF Win32Inv, ObjectsType
<1>3. KernelType' /\ TablesType' BY Zenon DEF Win32Inv, KernelType, TablesType
<1>4. ObjectsType'
  <2>1. x \in Pcs BY Zenon DEF Empty, Pcs
  <2>2. QED BY Zenon, <2>1 DEF Win32Inv, ObjectsType
<1>5. HasInv' BY <1>1, <1>2 DEF Win32Inv, HasInv
<1>6. OwnerInv' BY Zenon DEF Win32Inv, OwnerInv, Live
<1>7. UsersInv'
  <2>1. \A k \in Keys : Using(k)' = Using(k) BY Zenon, <1>1, <1>2, SameUsers
  <2>2. QED BY <1>1, <1>2, <2>1 DEF Win32Inv, UsersInv
<1>8. MapsInv'
  <2>1. \A s : Mapping(s)' = Mapping(s) /\ Viewing(s)' = Viewing(s)
    BY Zenon, <1>1, <1>2, SameMapping DEF Viewing, Live
  <2>2. QED BY Zenon, <1>1, <1>2, <2>1 DEF Win32Inv, MapsInv
<1>9. CanonicalInv' BY Zenon DEF Win32Inv, CanonicalInv, Registered, Live
<1>10. SizesInv' BY Zenon, <1>1, <1>2 DEF Win32Inv, SizesInv, Live
<1>11. NamesInv'
  <2>1. \A n, h : Registered(n, h)' = Registered(n, h) BY Zenon DEF Registered, Live
  <2>2. hnd[o] = 0 BY Zenon, <1>1 DEF Win32Inv, HasInv
  <2>3. QED BY <1>2, <2>1, <2>2 DEF Win32Inv, NamesInv, Live
<1>12. QED BY Zenon, <1>3, <1>4, <1>5, <1>6, <1>7, <1>8, <1>9, <1>10, <1>11 DEF Win32Inv

\* An open() gets its handle, a value that nothing owned.
LEMMA HandleKeeps ==
  ASSUME Win32Inv, NEW o \in Objects, NEW s \in 1 .. Len(sects'), Grows, NewHandle(o, s),
         pc[o] \in Empty, pc[o] # "closed", pc' = [pc EXCEPT ![o] = "reuse"], src' = [src EXCEPT ![o] = 0],
         ~raced => sects'[s].name = req[o].name,
         UNCHANGED <<peers, maps, views, canonical, req, addr, raced>>
  PROVE  Win32Inv'
<1>1. /\ pc \in [Objects -> Pcs] /\ pc[o] \notin Holding \cup {"open"} /\ "reuse" \in Holding \ {"open", "register"}
      /\ "register" \in Holding
  BY Zenon DEF Win32Inv, ObjectsType, Empty, Holding
<1>2. PICK h \in Handles : /\ handles[h] = 0 /\ handles' = [handles EXCEPT ![h] = s]
                           /\ hnd' = [hnd EXCEPT ![o] = h]
  BY Zenon DEF NewHandle
<1>3. /\ pc'[o] = "reuse" /\ src'[o] = 0 /\ hnd'[o] = h /\ hnd[o] = 0 /\ h # 0 /\ handles'[h] = s
      /\ \A p \in Objects \ {o} : pc'[p] = pc[p] /\ src'[p] = src[p] /\ hnd'[p] = hnd[p]
      /\ \A g \in Handles \ {h} : handles'[g] = handles[g]
  BY Zenon, <1>1, <1>2, Win32Assumption DEF Win32Inv, ObjectsType, KernelType, HasInv
<1>4. Len(sects) \in Nat /\ Len(sects') \in Nat /\ Len(sects) <= Len(sects') /\ Len(sects') <= MaxSects
  BY Zenon, SectionsKept DEF Grows
<1>5. /\ \A p \in Objects : hnd[p] # 0 => hnd[p] \in Handles \ {h}
      /\ \A k \in Keys : Live(k) => views[k].handle \in Handles \ {h}
  <2>1. \A k \in Keys : views[k].handle \in Handles \cup {0} BY Zenon DEF Win32Inv, TablesType, View
  <2>2. \A k \in Keys : Live(k) => views[k].handle # 0 /\ handles[views[k].handle] # 0
    BY <1>4 DEF Win32Inv, OwnerInv
  <2>3. \A p \in Objects : hnd[p] # 0 => hnd[p] \in Handles /\ handles[hnd[p]] # 0
    BY Zenon DEF Win32Inv, ObjectsType, OwnerInv
  <2>4. QED BY Zenon, <1>2, <2>1, <2>2, <2>3
<1>6. KernelType'
  <2>1. peers' \subseteq 1 .. Len(sects')
    <3>1. \A t \in peers : t \in 1 .. Len(sects) BY Zenon DEF Win32Inv, KernelType
    <3>2. \A t \in peers' : t \in 1 .. Len(sects') BY <1>4, <3>1
    <3>3. QED BY Zenon, <3>2
  <2>2. handles' \in [Handles -> 0 .. Len(sects')]
    <3>1. \A g \in Handles : handles[g] \in 0 .. Len(sects') BY <1>4 DEF Win32Inv, KernelType
    <3>2. QED BY <1>2, <1>4, <3>1 DEF Win32Inv, KernelType
  <2>3. QED BY Zenon, <2>1, <2>2 DEF Win32Inv, KernelType, Grows
<1>7. TablesType' BY Zenon DEF Win32Inv, TablesType
<1>8. ObjectsType'
  <2>1. "reuse" \in Pcs BY Zenon DEF Pcs, Holding
  <2>2. QED BY Zenon, <1>2, <2>1 DEF Win32Inv, ObjectsType
<1>9. HasInv' BY <1>1, <1>3 DEF Win32Inv, HasInv, Empty
<1>10. OwnerInv'
  <2>1. \A p \in Objects : hnd'[p] # 0 => handles'[hnd'[p]] # 0
    BY <1>3, <1>5 DEF Win32Inv, OwnerInv
  <2>2. \A k \in Keys : Live(k) => /\ views[k].handle # 0
                                   /\ handles'[views[k].handle] = views[k].addr
                                   /\ views[k].addr \in 1 .. Len(sects')
    BY <1>3, <1>4, <1>5 DEF Win32Inv, OwnerInv
  <2>3. \A p, q \in Objects : hnd'[p] # 0 /\ hnd'[p] = hnd'[q] => p = q
    BY <1>3, <1>5 DEF Win32Inv, OwnerInv
  <2>4. \A p \in Objects, k \in Keys : hnd'[p] # 0 /\ Live(k) => hnd'[p] # views[k].handle
    BY <1>3, <1>5 DEF Win32Inv, OwnerInv
  <2>5. \A g \in Handles : handles'[g] # 0 =>
          (\E p \in Objects : hnd'[p] = g) \/ (\E k \in Keys : Live(k) /\ views[k].handle = g)
    <3>1. SUFFICES ASSUME NEW g \in Handles \ {h}, handles[g] # 0
                   PROVE  (\E p \in Objects : hnd'[p] = g) \/ (\E k \in Keys : Live(k) /\ views[k].handle = g)
      BY Zenon, <1>3
    <3>2. \A p \in Objects : hnd[p] = g => p # o BY Zenon, <1>3, Win32Assumption
    <3>3. QED BY <1>3, <3>1, <3>2 DEF Win32Inv, OwnerInv
  <2>6. QED BY <2>1, <2>2, <2>3, <2>4, <2>5 DEF Win32Inv, OwnerInv, Live
<1>11. UsersInv'
  <2>1. \A k \in Keys : Using(k)' = Using(k) BY Zenon, <1>1, SameUsers
  <2>2. QED BY <1>1, <1>3, <2>1 DEF Win32Inv, UsersInv
<1>12. MapsInv'
  <2>1. \A t : Mapping(t)' = Mapping(t) /\ Viewing(t)' = Viewing(t)
    BY Zenon, <1>1, SameMapping DEF Viewing, Live
  <2>2. \A p \in Objects : pc'[p] = "register" => addr[p] = handles'[hnd'[p]]
    BY <1>1, <1>3, <1>5 DEF Win32Inv, MapsInv, HasInv
  <2>3. QED BY Zenon, <2>1, <2>2 DEF Win32Inv, MapsInv
<1>13. CanonicalInv' BY Zenon DEF Win32Inv, CanonicalInv, Registered, Live
<1>14. SizesInv'
  <2>1. \A p \in Objects : pc'[p] = "register" => sects'[addr[p]].size >= req[p].size
    BY <1>1, <1>3, SectionsKept DEF Win32Inv, SizesInv, MapsInv, HasInv
  <2>2. QED BY Zenon, <2>1, SectionsKept DEF Win32Inv, SizesInv, Live
<1>15. NamesInv'
  <2>1. \A n, g : Registered(n, g)' = Registered(n, g) BY Zenon DEF Registered, Live
  <2>2. ASSUME ~raced, NEW p \in Objects, hnd'[p] # 0 PROVE sects'[handles'[hnd'[p]]].name = req[p].name
    <3>1. CASE p = o BY Zenon, <1>3, <2>2, <3>1
    <3>2. CASE p # o
      <4>1. hnd'[p] = hnd[p] /\ hnd[p] # 0 /\ handles'[hnd[p]] = handles[hnd[p]] BY Zenon, <1>3, <1>5, <2>2, <3>2
      <4>2. sects[handles[hnd[p]]].name = req[p].name BY Zenon, <2>2, <4>1 DEF Win32Inv, NamesInv
      <4>3. sects'[handles[hnd[p]]] = sects[handles[hnd[p]]] BY Zenon, <4>1, SectionsKept DEF Win32Inv
      <4>4. QED BY Zenon, <4>1, <4>2, <4>3
    <3>3. QED BY Zenon, <3>1, <3>2
  <2>3. QED BY Zenon, <1>3, <2>1, <2>2, SectionsKept DEF Win32Inv, NamesInv, Live
<1>16. QED
  BY Zenon, <1>6, <1>7, <1>8, <1>9, <1>10, <1>11, <1>12, <1>13, <1>14, <1>15 DEF Win32Inv

\* The steps of open() up to its handle.
LEMMA OpenKeeps == ASSUME Win32Inv, NEW o \in Objects, NEW r \in Request, Open(o, r) PROVE Win32Inv'
<1>1. UNCHANGED <<sects, handles, peers, maps, views, canonical, hnd, addr, raced>> BY Zenon DEF Open, kernel, tables
<1>2. PICK c : /\ c = IF r.mode \in Creating THEN 0 ELSE canonical[r.name]
               /\ src' = [src EXCEPT ![o] = c]
               /\ Goto(o, IF c # 0 THEN "duplicate" ELSE IF r.mode = "create" THEN "create" ELSE "openmap")
  BY Zenon DEF Open
<1>3. r.name \in Names /\ (r.mode = "create" => r.size # 0) BY Zenon DEF Request, Open
<1>4. c \in Handles \cup {0} /\ (c # 0 => Registered(r.name, c))
  BY Zenon, <1>2, <1>3 DEF Win32Inv, TablesType, CanonicalInv
<1>5. PICK x \in Empty \ {"closed"} : /\ pc' = [pc EXCEPT ![o] = x]
                                      /\ x = "create" => r.size # 0
                                      /\ c # 0 <=> x = "duplicate"
  <2>1. CASE c # 0
    <3>1. pc' = [pc EXCEPT ![o] = "duplicate"] BY Zenon, <1>2, <2>1 DEF Goto
    <3>2. QED BY Zenon, <2>1, <3>1 DEF Empty
  <2>2. CASE c = 0 /\ r.mode = "create"
    <3>1. pc' = [pc EXCEPT ![o] = "create"] BY Zenon, <1>2, <2>2 DEF Goto
    <3>2. QED BY Zenon, <1>3, <2>2, <3>1 DEF Empty
  <2>3. CASE c = 0 /\ r.mode # "create"
    <3>1. pc' = [pc EXCEPT ![o] = "openmap"] BY Zenon, <1>2, <2>3 DEF Goto
    <3>2. "openmap" \in Empty \ {"closed"} /\ "openmap" \notin {"create", "duplicate"} BY Zenon DEF Empty
    <3>3. QED BY Zenon, <2>3, <3>1, <3>2
  <2>4. QED BY Zenon, <2>1, <2>2, <2>3
<1>6. pc[o] \in Empty /\ req' = [req EXCEPT ![o] = r] BY Zenon DEF Open, Empty
<1>7. QED BY Zenon, <1>1, <1>2, <1>4, <1>5, <1>6, QuietKeeps

\* return false, before there is a handle.
LEMMA FailKeeps ==
  ASSUME Win32Inv, NEW o \in Objects, pc[o] \in Empty, Fail(o), src' = [src EXCEPT ![o] = 0],
         UNCHANGED <<sects, handles, peers, maps, views, canonical, hnd, addr, raced>>
  PROVE  Win32Inv'
<1>1. pc' = [pc EXCEPT ![o] = "closed"] /\ req' = [req EXCEPT ![o] = NoReq] BY Zenon DEF Fail, Goto
<1>2. QED BY Zenon, <1>1, QuietKeeps DEF Empty

\* DuplicateHandle of the canonical handle, or of what its value has become.
LEMMA DuplicateKeeps == ASSUME Win32Inv, NEW o \in Objects, Duplicate(o) PROVE Win32Inv'
<1>1. /\ pc[o] = "duplicate" /\ src' = [src EXCEPT ![o] = 0]
      /\ UNCHANGED <<sects, peers, maps, views, canonical, addr, raced>>
  BY Zenon DEF Duplicate, tables
<1>2. pc[o] \in Empty /\ pc[o] # "closed" BY Zenon, <1>1 DEF Empty
<1>3. CASE Fail(o) /\ UNCHANGED <<handles, hnd>> BY Zenon, <1>1, <1>2, <1>3, FailKeeps
<1>4. CASE /\ handles[src[o]] # 0 /\ NewHandle(o, handles[src[o]])
           /\ Goto(o, "reuse") /\ UNCHANGED req
  <2>1. Grows BY Zenon, <1>1, SameSects DEF Win32Inv
  <2>2. src[o] \in Handles BY Zenon, <1>1 DEF Win32Inv, HasInv, ObjectsType
  <2>3. handles[src[o]] \in 1 .. Len(sects')
    BY <1>1, <1>4, <2>2 DEF Win32Inv, KernelType
  <2>4. ~raced => sects'[handles[src[o]]].name = req[o].name
    <3>1. src[o] # 0 BY Zenon, <1>1 DEF Win32Inv, HasInv
    <3>2. SUFFICES ASSUME ~raced PROVE sects[handles[src[o]]].name = req[o].name BY Zenon, <1>1
    <3>3. PICK k \in Keys : k.name = req[o].name /\ Live(k) /\ views[k].handle = src[o]
      BY Zenon, <3>1, <3>2 DEF Win32Inv, NamesInv, Registered
    <3>4. QED BY <3>2, <3>3 DEF Win32Inv, NamesInv, OwnerInv
  <2>5. pc' = [pc EXCEPT ![o] = "reuse"] BY Zenon, <1>4 DEF Goto
  <2>6. QED BY Zenon, <1>1, <1>2, <1>4, <2>1, <2>3, <2>4, <2>5, HandleKeeps
<1>5. QED BY Zenon, <1>3, <1>4 DEF Duplicate

\* A handle of the section that the name is bound to.
LEMMA BoundFacts ==
  ASSUME KernelType, NEW n, NEW s \in Bound(n)
  PROVE  s \in 1 .. Len(sects) /\ sects[s].name = n
BY DEF KernelType, Bound

\* An open elsewhere in the code has no handle looked up.
LEMMA NoSource == ASSUME Win32Inv, NEW o \in Objects, pc[o] # "duplicate", src' = src
                  PROVE  src' = [src EXCEPT ![o] = 0]
BY Zenon DEF Win32Inv, HasInv, ObjectsType

\* OpenFileMapping, by name.
LEMMA OpenMappingKeeps == ASSUME Win32Inv, NEW o \in Objects, OpenMapping(o) PROVE Win32Inv'
<1>1. pc[o] = "openmap" /\ UNCHANGED <<sects, peers, maps, views, canonical, src, addr, raced>>
  BY Zenon DEF OpenMapping, tables
<1>2. pc[o] \in Empty /\ pc[o] # "closed" /\ src' = [src EXCEPT ![o] = 0] BY Zenon, <1>1, NoSource DEF Empty
<1>3. req \in [Objects -> Request \cup {NoReq}] /\ req[o] \in Request
  BY Zenon, <1>1 DEF Win32Inv, ObjectsType, HasInv
<1>4. CASE (\E s \in Bound(req[o].name) : NewHandle(o, s)) /\ Goto(o, "reuse") /\ UNCHANGED req
  <2>1. PICK s \in Bound(req[o].name) : NewHandle(o, s) BY Zenon, <1>4
  <2>2. s \in 1 .. Len(sects') /\ sects'[s].name = req[o].name BY Zenon, <1>1, BoundFacts DEF Win32Inv
  <2>3. Grows BY Zenon, <1>1, SameSects DEF Win32Inv
  <2>4. pc' = [pc EXCEPT ![o] = "reuse"] BY Zenon, <1>4 DEF Goto
  <2>5. QED BY Zenon, <1>1, <1>2, <1>4, <2>1, <2>2, <2>3, <2>4, HandleKeeps
<1>5. CASE Fail(o) /\ UNCHANGED <<handles, hnd>> BY Zenon, <1>1, <1>2, <1>5, FailKeeps
<1>6. CASE req[o].size # 0 /\ Goto(o, "create") /\ UNCHANGED req /\ UNCHANGED <<handles, hnd>>
  <2>1. pc' = [pc EXCEPT ![o] = "create"] /\ req' = [req EXCEPT ![o] = req[o]] BY Zenon, <1>3, <1>6 DEF Goto
  <2>2. QED BY Zenon, <1>1, <1>2, <1>3, <1>6, <2>1, QuietKeeps DEF Empty
<1>7. QED BY Zenon, <1>4, <1>5, <1>6 DEF OpenMapping

\* CreateFileMapping, and its failure.
LEMMA CreateKeeps == ASSUME Win32Inv, NEW o \in Objects, CreateMapping(o) \/ CreateFails(o) PROVE Win32Inv'
<1>1. pc[o] = "create" /\ UNCHANGED <<peers, maps, views, canonical, src, addr, raced>>
  BY Zenon DEF CreateMapping, CreateFails, tables, kernel
<1>2. pc[o] \in Empty /\ pc[o] # "closed" /\ src' = [src EXCEPT ![o] = 0] BY Zenon, <1>1, NoSource DEF Empty
<1>3. CASE CreateFails(o)
  <2>1. Fail(o) /\ UNCHANGED <<sects, handles, hnd>> BY Zenon, <1>3 DEF CreateFails, kernel
  <2>2. QED BY Zenon, <1>1, <1>2, <2>1, FailKeeps
<1>4. CASE CreateMapping(o)
  <2>1. pc' = [pc EXCEPT ![o] = "reuse"] /\ UNCHANGED req BY Zenon, <1>4 DEF CreateMapping, Goto
  <2>2. ASSUME NEW s \in Bound(req[o].name), NewHandle(o, s), UNCHANGED sects PROVE Win32Inv'
    <3>1. s \in 1 .. Len(sects') /\ sects'[s].name = req[o].name BY Zenon, <2>2, BoundFacts DEF Win32Inv
    <3>2. Grows BY Zenon, <2>2, SameSects DEF Win32Inv
    <3>3. QED BY Zenon, <1>1, <1>2, <2>1, <2>2, <3>1, <3>2, HandleKeeps
  <2>3. ASSUME Len(sects) < MaxSects, sects' = Append(sects, [name |-> req[o].name, size |-> req[o].size]),
               NewHandle(o, Len(sects) + 1)
        PROVE  Win32Inv'
    <3>1. req[o] \in Request /\ req[o].size # 0 BY Zenon, <1>1 DEF Win32Inv, HasInv
    <3>2. [name |-> req[o].name, size |-> req[o].size] \in Section BY Zenon, <3>1 DEF Request, Section
    <3>3. /\ Grows /\ Len(sects') = Len(sects) + 1 /\ Len(sects) \in Nat
          /\ sects'[Len(sects) + 1] = [name |-> req[o].name, size |-> req[o].size]
      BY Zenon, <2>3, <3>2, NewSect DEF Win32Inv
    <3>4. Len(sects) + 1 \in 1 .. Len(sects') /\ sects'[Len(sects) + 1].name = req[o].name BY <3>3
    <3>5. QED BY Zenon, <1>1, <1>2, <2>1, <2>3, <3>3, <3>4, HandleKeeps
  <2>4. QED BY Zenon, <1>4, <2>2, <2>3 DEF CreateMapping
<1>5. QED BY Zenon, <1>3, <1>4

-----------------------------------------------------------------------------
\* There is no view to share.
LEMMA ToMapKeeps ==
  ASSUME Win32Inv, NEW o \in Objects, pc[o] = "reuse", pc' = [pc EXCEPT ![o] = "map"],
         UNCHANGED <<sects, handles, peers, maps, views, canonical, req, src, hnd, addr, raced>>
  PROVE  Win32Inv'
<1>1. pc \in [Objects -> Pcs] /\ "map" \in Pcs BY Zenon DEF Win32Inv, ObjectsType, Pcs, Holding
<1>2. pc'[o] = "map" /\ \A p \in Objects \ {o} : pc'[p] = pc[p] BY Zenon, <1>1
<1>3. KernelType' /\ TablesType' BY Zenon DEF Win32Inv, KernelType, TablesType
<1>4. ObjectsType' BY Zenon, <1>1 DEF Win32Inv, ObjectsType
<1>5. HasInv' BY Zenon, <1>2 DEF Win32Inv, HasInv, Holding
<1>6. OwnerInv' BY DEF Win32Inv, OwnerInv, Live
<1>7. UsersInv'
  <2>1. \A k \in Keys : Using(k)' = Using(k) BY Zenon, <1>1, SameUsers
  <2>2. QED BY Zenon, <1>2, <2>1 DEF Win32Inv, UsersInv
<1>8. MapsInv'
  <2>1. \A s : Mapping(s)' = Mapping(s) /\ Viewing(s)' = Viewing(s)
    BY Zenon, <1>1, SameMapping DEF Viewing, Live
  <2>2. QED BY Zenon, <1>2, <2>1 DEF Win32Inv, MapsInv
<1>9. CanonicalInv' BY Zenon DEF Win32Inv, CanonicalInv, Registered, Live
<1>10. SizesInv' BY Zenon, <1>2 DEF Win32Inv, SizesInv, Live
<1>11. NamesInv' BY Zenon DEF Win32Inv, NamesInv, Registered, Live
<1>12. QED BY Zenon, <1>3, <1>4, <1>5, <1>6, <1>7, <1>8, <1>9, <1>10, <1>11 DEF Win32Inv

\* map_and_verify_size succeeds: the section is mapped once more.
LEMMA MappedKeeps ==
  ASSUME Win32Inv, NEW o \in Objects, pc[o] = "map", NEW s, s = handles[hnd[o]],
         sects[s].size >= req[o].size,
         maps' = [maps EXCEPT ![s] = @ + 1], addr' = [addr EXCEPT ![o] = s],
         req' = [req EXCEPT ![o].size = IF @ = 0 THEN sects[s].size ELSE @],
         pc' = [pc EXCEPT ![o] = "register"],
         UNCHANGED <<sects, handles, peers, views, canonical, src, hnd, raced>>
  PROVE  Win32Inv'
<1>1. pc \in [Objects -> Pcs] /\ "register" \in Pcs /\ req[o] \in Request /\ hnd[o] # 0
  BY Zenon DEF Win32Inv, ObjectsType, Pcs, Holding, HasInv
<1>2. s \in 1 .. Len(sects) /\ s \in Sections /\ sects[s] \in Section /\ s \in Nat
  <2>1. s \in 1 .. Len(sects) /\ Len(sects) \in Nat /\ Len(sects) <= MaxSects
    BY Zenon, <1>1, SameSects, SectionsKept DEF Win32Inv, KernelType
  <2>2. QED BY <2>1, Win32Assumption DEF Win32Inv, KernelType, Sections
<1>3. PICK r \in Request : /\ req' = [req EXCEPT ![o] = r] /\ r.name = req[o].name
                           /\ sects[s].size >= r.size
  <2>1. PICK r : r = [req[o] EXCEPT !.size = IF @ = 0 THEN sects[s].size ELSE @]
    BY Zenon
  <2>2. r \in Request /\ r.name = req[o].name /\ sects[s].size >= r.size
    BY <1>1, <1>2, <2>1, Win32Assumption DEF Request, Section
  <2>3. req' = [req EXCEPT ![o] = r] BY Zenon, <2>1 DEF Win32Inv, ObjectsType
  <2>4. QED BY Zenon, <2>2, <2>3
<1>4. /\ pc'[o] = "register" /\ addr'[o] = s /\ req'[o] = r
      /\ \A p \in Objects \ {o} : pc'[p] = pc[p] /\ addr'[p] = addr[p] /\ req'[p] = req[p]
  BY Zenon, <1>1, <1>3 DEF Win32Inv, ObjectsType
<1>5. maps \in [Sections -> Nat] BY Zenon DEF Win32Inv, KernelType
<1>6. KernelType' /\ TablesType'
  <2>1. maps' \in [Sections -> Nat] BY <1>2, <1>5
  <2>2. QED BY Zenon, <2>1 DEF Win32Inv, KernelType, TablesType
<1>7. ObjectsType' BY ZenonT(30), <1>1, <1>2, <1>3 DEF Win32Inv, ObjectsType
<1>8. HasInv' BY <1>4 DEF Win32Inv, HasInv, Holding
<1>9. OwnerInv' BY DEF Win32Inv, OwnerInv, Live
<1>10. UsersInv'
  <2>1. \A k \in Keys : Using(k)' = Using(k) BY Zenon, <1>1, <1>4, SameUsers
  <2>2. QED BY Zenon, <1>4, <2>1 DEF Win32Inv, UsersInv
<1>11. MapsInv'
  <2>1. \A t : Viewing(t)' = Viewing(t) BY Zenon DEF Viewing, Live
  <2>2. \A t : o \notin Mapping(t) /\ Mapping(t)' = IF t = s THEN Mapping(t) \cup {o} ELSE Mapping(t)
    BY Zenon, <1>4 DEF Mapping
  <2>3. ASSUME NEW t \in Sections
        PROVE  /\ IsFiniteSet(Mapping(t)') /\ IsFiniteSet(Viewing(t)')
               /\ maps'[t] = Cardinality(Mapping(t)') + Cardinality(Viewing(t)')
    <3>1. /\ IsFiniteSet(Mapping(t)) /\ IsFiniteSet(Viewing(t))
          /\ maps[t] = Cardinality(Mapping(t)) + Cardinality(Viewing(t))
      BY Zenon DEF Win32Inv, MapsInv
    <3>2. Cardinality(Mapping(t)) \in Nat /\ Cardinality(Viewing(t)) \in Nat BY Zenon, <3>1, FS_CardinalityType
    <3>3. /\ IsFiniteSet(Mapping(t) \cup {o})
          /\ Cardinality(Mapping(t) \cup {o}) = Cardinality(Mapping(t)) + 1
      BY Zenon, <2>2, <3>1, FS_AddElement
    <3>4. CASE t = s
      <4>1. Mapping(t)' = Mapping(t) \cup {o} /\ maps'[t] = maps[t] + 1 BY Zenon, <1>2, <1>5, <2>2, <3>4
      <4>2. QED BY <2>1, <3>1, <3>2, <3>3, <4>1
    <3>5. CASE t # s
      <4>1. Mapping(t)' = Mapping(t) /\ maps'[t] = maps[t] BY Zenon, <1>5, <2>2, <3>5
      <4>2. QED BY Zenon, <2>1, <3>1, <4>1
    <3>6. QED BY Zenon, <3>4, <3>5
  <2>4. \A p \in Objects : pc'[p] = "register" => addr'[p] = handles[hnd[p]]
    BY Zenon, <1>4 DEF Win32Inv, MapsInv
  <2>5. QED BY Zenon, <2>3, <2>4 DEF MapsInv
<1>12. CanonicalInv' BY Zenon DEF Win32Inv, CanonicalInv, Registered, Live
<1>13. SizesInv' BY ZenonT(30), <1>3, <1>4 DEF Win32Inv, SizesInv, Live
<1>14. NamesInv'
  <2>1. \A n, h : Registered(n, h)' = Registered(n, h) BY Zenon DEF Registered, Live
  <2>2. \A p \in Objects : req'[p].name = req[p].name BY Zenon, <1>3, <1>4
  <2>3. QED BY Zenon, <2>1, <2>2 DEF Win32Inv, NamesInv, Live
<1>15. QED BY Zenon, <1>6, <1>7, <1>8, <1>9, <1>10, <1>11, <1>12, <1>13, <1>14 DEF Win32Inv

-----------------------------------------------------------------------------
\* An open() closes its handle: no view and no other open() had it.
LEMMA GiveUpHandle ==
  ASSUME Win32Inv, NEW o \in Objects, hnd[o] # 0, Close(hnd[o]), hnd' = [hnd EXCEPT ![o] = 0], sects' = sects,
         \A k \in Keys : /\ Live(k)' = Live(k)
                         /\ views'[k].handle = views[k].handle /\ views'[k].addr = views[k].addr
  PROVE  /\ OwnerInv'
         /\ handles' \in [Handles -> 0 .. Len(sects)]
         /\ hnd' \in [Objects -> Handles \cup {0}] /\ hnd'[o] = 0
         /\ \A p \in Objects \ {o} :
              hnd'[p] = hnd[p] /\ (hnd[p] # 0 => handles'[hnd[p]] = handles[hnd[p]])
<1>1. PICK h \in Handles : h = hnd[o] /\ h # 0 BY Zenon DEF Win32Inv, ObjectsType
<1>2. hnd \in [Objects -> Handles \cup {0}] /\ handles \in [Handles -> 0 .. Len(sects)] /\ Len(sects) \in Nat
  BY DEF Win32Inv, ObjectsType, KernelType
<1>3. /\ handles'[h] = 0 /\ hnd'[o] = 0
      /\ \A p \in Objects \ {o} : hnd'[p] = hnd[p]
      /\ \A g \in Handles \ {h} : handles'[g] = handles[g]
  BY Zenon, <1>1, <1>2 DEF Close
<1>4. handles' \in [Handles -> 0 .. Len(sects)] /\ hnd' \in [Objects -> Handles \cup {0}]
  BY <1>1, <1>2 DEF Close
<1>5. \A p \in Objects \ {o} : hnd[p] # 0 => hnd[p] \in Handles \ {h} BY <1>1, <1>2 DEF Win32Inv, OwnerInv
<1>6. \A k \in Keys : Live(k) => views[k].handle \in Handles \ {h}
  <2>1. \A k \in Keys : views[k].handle \in Handles \cup {0} BY Zenon DEF Win32Inv, TablesType, View
  <2>2. QED BY Zenon, <1>1, <2>1 DEF Win32Inv, OwnerInv
<1>7. OwnerInv'
  <2>1. \A p \in Objects : hnd'[p] # 0 => p # o /\ handles'[hnd'[p]] # 0
    BY <1>3, <1>5 DEF Win32Inv, OwnerInv
  <2>2. \A k \in Keys : Live(k)' => /\ views'[k].handle # 0
                                    /\ handles'[views'[k].handle] = views'[k].addr
                                    /\ views'[k].addr \in 1 .. Len(sects')
    BY <1>3, <1>6 DEF Win32Inv, OwnerInv
  <2>3. \A p, q \in Objects : hnd'[p] # 0 /\ hnd'[p] = hnd'[q] => p = q
    BY <1>3 DEF Win32Inv, OwnerInv
  <2>4. \A p \in Objects, k \in Keys : hnd'[p] # 0 /\ Live(k)' => hnd'[p] # views'[k].handle
    BY <1>3 DEF Win32Inv, OwnerInv
  <2>5. \A k, l \in Keys : Live(k)' /\ Live(l)' /\ views'[k].handle = views'[l].handle => k = l
    BY DEF Win32Inv, OwnerInv
  <2>6. \A g \in Handles : handles'[g] # 0 =>
          (\E p \in Objects : hnd'[p] = g) \/ (\E k \in Keys : Live(k)' /\ views'[k].handle = g)
    <3>1. SUFFICES ASSUME NEW g \in Handles \ {h}, handles[g] # 0
                   PROVE  (\E p \in Objects : hnd'[p] = g) \/ (\E k \in Keys : Live(k)' /\ views'[k].handle = g)
      BY Zenon, <1>3
    <3>2. (\E p \in Objects : hnd[p] = g) \/ (\E k \in Keys : Live(k) /\ views[k].handle = g)
      BY Zenon, <3>1 DEF Win32Inv, OwnerInv
    <3>3. QED BY Zenon, <1>1, <1>3, <3>1, <3>2
  <2>7. QED BY Zenon, <2>1, <2>2, <2>3, <2>4, <2>5, <2>6 DEF OwnerInv, Live
<1>8. QED BY Zenon, <1>3, <1>4, <1>5, <1>7

\* map_and_verify_size fails.
LEMMA UnmappedKeeps ==
  ASSUME Win32Inv, NEW o \in Objects, pc[o] = "map", Close(hnd[o]), hnd' = [hnd EXCEPT ![o] = 0], Fail(o),
         UNCHANGED <<sects, peers, maps, views, canonical, src, addr, raced>>
  PROVE  Win32Inv'
<1>1. /\ pc \in [Objects -> Pcs] /\ req \in [Objects -> Request \cup {NoReq}] /\ hnd[o] # 0
      /\ "closed" \in Pcs /\ src[o] = 0 /\ "register" \in Holding /\ "closed" \notin Holding
  BY Zenon DEF Win32Inv, ObjectsType, Pcs, Holding, HasInv
<1>2. pc' = [pc EXCEPT ![o] = "closed"] /\ req' = [req EXCEPT ![o] = NoReq] BY Zenon DEF Fail, Goto
<1>3. /\ pc'[o] = "closed" /\ req'[o] = NoReq
      /\ \A p \in Objects \ {o} : pc'[p] = pc[p] /\ req'[p] = req[p]
  BY Zenon, <1>1, <1>2
<1>4. /\ OwnerInv'
      /\ handles' \in [Handles -> 0 .. Len(sects)] /\ hnd' \in [Objects -> Handles \cup {0}] /\ hnd'[o] = 0
      /\ \A p \in Objects \ {o} :
           hnd'[p] = hnd[p] /\ (hnd[p] # 0 => handles'[hnd[p]] = handles[hnd[p]])
  BY Zenon, <1>1, GiveUpHandle DEF Live
<1>5. KernelType' /\ TablesType' BY Zenon, <1>4 DEF Win32Inv, KernelType, TablesType
<1>6. ObjectsType' BY Zenon, <1>1, <1>2, <1>4 DEF Win32Inv, ObjectsType
<1>7. HasInv' BY <1>1, <1>3, <1>4 DEF Win32Inv, HasInv
<1>8. UsersInv'
  <2>1. \A k \in Keys : Using(k)' = Using(k) BY Zenon, <1>1, <1>2, <1>3, SameUsers
  <2>2. QED BY Zenon, <1>3, <2>1 DEF Win32Inv, UsersInv
<1>9. MapsInv'
  <2>1. \A s : Mapping(s)' = Mapping(s) /\ Viewing(s)' = Viewing(s)
    BY Zenon, <1>1, <1>2, SameMapping DEF Viewing, Live
  <2>2. \A p \in Objects : pc'[p] = "register" => addr[p] = handles'[hnd'[p]]
    BY <1>1, <1>3, <1>4 DEF Win32Inv, MapsInv, HasInv
  <2>3. QED BY Zenon, <2>1, <2>2 DEF Win32Inv, MapsInv
<1>10. CanonicalInv' BY Zenon DEF Win32Inv, CanonicalInv, Registered, Live
<1>11. SizesInv' BY Zenon, <1>3 DEF Win32Inv, SizesInv, Live
<1>12. NamesInv'
  <2>1. \A n, g : Registered(n, g)' = Registered(n, g) BY Zenon DEF Registered, Live
  <2>2. \A p \in Objects : src[p] # 0 => req'[p].name = req[p].name BY Zenon, <1>1, <1>3
  <2>3. ~raced => \A p \in Objects : hnd'[p] # 0 => sects[handles'[hnd'[p]]].name = req'[p].name
    BY <1>3, <1>4 DEF Win32Inv, NamesInv
  <2>4. QED BY Zenon, <2>1, <2>2, <2>3 DEF Win32Inv, NamesInv, Live
<1>13. QED BY Zenon, <1>4, <1>5, <1>6, <1>7, <1>8, <1>9, <1>10, <1>11, <1>12 DEF Win32Inv

\* MapViewOfFile, and its failure.
LEMMA MapViewKeeps == ASSUME Win32Inv, NEW o \in Objects, MapView(o) PROVE Win32Inv'
<1>1. pc[o] = "map" /\ UNCHANGED <<sects, peers, views, canonical, src, raced>> BY Zenon DEF MapView, tables
<1>2. CASE Close(hnd[o]) /\ hnd' = [hnd EXCEPT ![o] = 0] /\ Fail(o) /\ UNCHANGED <<maps, addr>>
  BY Zenon, <1>1, <1>2, UnmappedKeeps
<1>3. CASE ~(Close(hnd[o]) /\ hnd' = [hnd EXCEPT ![o] = 0] /\ Fail(o) /\ UNCHANGED <<maps, addr>>)
  <2>1. PICK s : s = handles[hnd[o]] BY Zenon
  <2>2. /\ sects[s].size >= req[o].size
        /\ maps' = [maps EXCEPT ![s] = @ + 1] /\ addr' = [addr EXCEPT ![o] = s]
        /\ req' = [req EXCEPT ![o].size = IF @ = 0 THEN sects[s].size ELSE @]
        /\ pc' = [pc EXCEPT ![o] = "register"]
        /\ UNCHANGED <<handles, hnd>>
    BY Zenon, <1>3, <2>1 DEF MapView, Goto
  <2>3. QED BY Zenon, <1>1, <2>1, <2>2, MappedKeeps
<1>4. QED BY Zenon, <1>2, <1>3

-----------------------------------------------------------------------------
\* A creating open leaves a canonical handle behind: that of a view of its name.
LEMMA CanonicalSet ==
  ASSUME Win32Inv, NEW r \in Request, NEW h \in Handles \cup {0}, SetCanonical(r, h), Registered(r.name, h)',
         \A n, g : Registered(n, g) => Registered(n, g)'
  PROVE  CanonicalInv' /\ canonical' \in [Names -> Handles \cup {0}]
<1>1. r.name \in Names /\ canonical \in [Names -> Handles \cup {0}] BY Zenon DEF Request, Win32Inv, TablesType
<1>2. \A g : \A n \in Names : canonical[n] # 0 /\ canonical[n] = g => Registered(n, g)'
  <2>1. \A g : \A n \in Names : canonical[n] # 0 /\ canonical[n] = g => Registered(n, g)
    BY Zenon DEF Win32Inv, CanonicalInv
  <2>2. QED BY Zenon, <2>1
<1>3. canonical' = canonical \/ canonical' = [canonical EXCEPT ![r.name] = h] BY Zenon DEF SetCanonical
<1>4. canonical' \in [Names -> Handles \cup {0}] BY Zenon, <1>1, <1>3
<1>5. ASSUME NEW n \in Names, canonical'[n] # 0 PROVE \E k \in Keys : k.name = n /\ Live(k)' /\ views'[k].handle = canonical'[n]
  <2>1. canonical'[n] = canonical[n] \/ (n = r.name /\ canonical'[n] = h) BY Zenon, <1>1, <1>3
  <2>2. PICK g : g = canonical'[n] BY Zenon
  <2>3. Registered(n, g)'
    <3>1. CASE canonical'[n] = canonical[n] BY Zenon, <1>2, <1>5, <2>2, <3>1
    <3>2. CASE n = r.name /\ canonical'[n] = h
      <4>1. n = r.name /\ g = h BY Zenon, <2>2, <3>2
      <4>2. QED BY Zenon, <4>1 DEF Registered
    <3>3. QED BY Zenon, <2>1, <3>1, <3>2
  <2>4. QED BY Zenon, <2>2, <2>3 DEF Registered, Live
<1>6. CanonicalInv' BY Zenon, <1>5 DEF CanonicalInv, Registered, Live
<1>7. QED BY Zenon, <1>4, <1>6

\* Object o is done with the section it mapped for itself.
LEMMA MappingLess ==
  ASSUME MapsInv, maps \in [Sections -> Nat], NEW o \in Objects, pc \in [Objects -> Pcs],
         pc' = [pc EXCEPT ![o] = "open"], \A p \in Objects \ {o} : addr'[p] = addr[p],
         maps' = IF pc[o] = "register" THEN [maps EXCEPT ![addr[o]] = @ - 1] ELSE maps,
         pc[o] = "register" => addr[o] \in Sections, \A s : Viewing(s)' = Viewing(s)
  PROVE  /\ maps' \in [Sections -> Nat]
         /\ \A s \in Sections : /\ IsFiniteSet(Mapping(s)') /\ IsFiniteSet(Viewing(s)')
                                /\ maps'[s] = Cardinality(Mapping(s)') + Cardinality(Viewing(s)')
<1>1. \A s : Mapping(s)' = Mapping(s) \ {o} BY Zenon DEF Mapping
<1>2. ASSUME NEW s \in Sections
      PROVE  /\ IsFiniteSet(Mapping(s)') /\ IsFiniteSet(Viewing(s)')
             /\ maps'[s] = Cardinality(Mapping(s)') + Cardinality(Viewing(s)') /\ maps'[s] \in Nat
  <2>1. /\ IsFiniteSet(Mapping(s)) /\ IsFiniteSet(Viewing(s))
        /\ maps[s] = Cardinality(Mapping(s)) + Cardinality(Viewing(s)) /\ maps[s] \in Nat
    BY Zenon DEF MapsInv
  <2>2. Cardinality(Mapping(s)) \in Nat /\ Cardinality(Viewing(s)) \in Nat BY Zenon, <2>1, FS_CardinalityType
  <2>3. CASE o \in Mapping(s)
    <3>1. /\ IsFiniteSet(Mapping(s) \ {o}) /\ Cardinality(Mapping(s) \ {o}) = Cardinality(Mapping(s)) - 1
          /\ Cardinality(Mapping(s) \ {o}) \in Nat
      BY Zenon, <2>1, <2>3, FS_RemoveElement, FS_CardinalityType
    <3>2. maps'[s] = maps[s] - 1 BY Zenon, <2>3 DEF Mapping
    <3>3. maps'[s] = Cardinality(Mapping(s) \ {o}) + Cardinality(Viewing(s)) /\ maps'[s] \in Nat
      BY <2>1, <2>2, <3>1, <3>2
    <3>4. QED BY Zenon, <1>1, <2>1, <3>1, <3>3
  <2>4. CASE o \notin Mapping(s)
    <3>1. Mapping(s) \ {o} = Mapping(s) BY Zenon, <2>4
    <3>2. maps'[s] = maps[s] BY Zenon, <2>4 DEF Mapping
    <3>3. QED BY Zenon, <1>1, <2>1, <3>1, <3>2
  <2>5. QED BY Zenon, <2>3, <2>4
<1>3. maps' \in [Sections -> Nat]
  <2>1. DOMAIN maps' = Sections /\ maps' = [s \in Sections |-> maps'[s]] BY Zenon
  <2>2. QED BY Zenon, <1>2, <2>1
<1>4. QED BY Zenon, <1>2, <1>3

\* The view of the key is there: one more object uses it.
LEMMA ShareKeeps ==
  ASSUME Win32Inv, NEW o \in Objects, pc[o] \in {"reuse", "register"}, NEW k, k = Key(req[o]), Live(k), Share(o, k),
         maps' = IF pc[o] = "register" THEN [maps EXCEPT ![addr[o]] = @ - 1] ELSE maps,
         UNCHANGED <<sects, peers, req, src, raced>>
  PROVE  Win32Inv'
<1>1. /\ pc \in [Objects -> Pcs] /\ "open" \in Pcs /\ pc[o] \notin {"open", "closed", "create", "duplicate"}
      /\ hnd[o] # 0 /\ src[o] = 0 /\ req[o] \in Request /\ "register" \in Holding /\ "open" \notin Holding
      /\ addr \in [Objects -> Nat]
  BY Zenon DEF Win32Inv, ObjectsType, Pcs, Holding, HasInv
<1>2. k \in Keys /\ k.name = req[o].name BY Zenon, <1>1, KeyType
<1>3. /\ views' = [views EXCEPT ![k].ref = @ + 1] /\ SetCanonical(req[o], views[k].handle)
      /\ addr' = [addr EXCEPT ![o] = views[k].addr] /\ Close(hnd[o]) /\ hnd' = [hnd EXCEPT ![o] = 0]
      /\ pc' = [pc EXCEPT ![o] = "open"]
  BY Zenon DEF Share, Goto
<1>4. views \in [Keys -> View] /\ views[k] \in View BY Zenon, <1>2 DEF Win32Inv, TablesType
<1>5. /\ views' \in [Keys -> View] /\ views'[k].ref = views[k].ref + 1
      /\ \A l \in Keys : views'[l].handle = views[l].handle /\ views'[l].addr = views[l].addr
      /\ \A l \in Keys \ {k} : views'[l].ref = views[l].ref
  BY <1>2, <1>3, <1>4 DEF View
<1>6. \A l \in Keys : Live(l)' = Live(l)
  <2>1. Live(k)' BY <1>4, <1>5 DEF View, Live
  <2>2. QED BY Zenon, <1>5, <2>1 DEF Live
<1>7. /\ pc'[o] = "open" /\ addr'[o] = views[k].addr
      /\ \A p \in Objects \ {o} : pc'[p] = pc[p] /\ addr'[p] = addr[p]
  BY Zenon, <1>1, <1>3
<1>8. /\ OwnerInv'
      /\ handles' \in [Handles -> 0 .. Len(sects)] /\ hnd' \in [Objects -> Handles \cup {0}] /\ hnd'[o] = 0
      /\ \A p \in Objects \ {o} :
           hnd'[p] = hnd[p] /\ (hnd[p] # 0 => handles'[hnd[p]] = handles[hnd[p]])
  BY Zenon, <1>1, <1>3, <1>5, <1>6, GiveUpHandle
<1>9. \A n, g : Registered(n, g)' = Registered(n, g)
  BY Zenon, <1>5, <1>6 DEF Registered, Live
<1>10. CanonicalInv' /\ canonical' \in [Names -> Handles \cup {0}]
  <2>1. Registered(req[o].name, views[k].handle) BY Zenon, <1>2 DEF Registered
  <2>2. views[k].handle \in Handles \cup {0} BY Zenon, <1>4 DEF View
  <2>3. QED BY Zenon, <1>1, <1>3, <1>9, <2>1, <2>2, CanonicalSet
<1>11. /\ maps' \in [Sections -> Nat]
       /\ \A s \in Sections : /\ IsFiniteSet(Mapping(s)') /\ IsFiniteSet(Viewing(s)')
                              /\ maps'[s] = Cardinality(Mapping(s)') + Cardinality(Viewing(s)')
  <2>1. \A s : Viewing(s)' = Viewing(s) BY Zenon, <1>5, <1>6 DEF Viewing, Live
  <2>2. pc[o] = "register" => addr[o] \in Sections
    <3>1. handles[hnd[o]] \in 1 .. Len(sects) /\ Len(sects) \in Nat /\ Len(sects) <= MaxSects
      BY Zenon, <1>1, SameSects, SectionsKept DEF Win32Inv, KernelType
    <3>2. QED BY <3>1, Win32Assumption DEF Win32Inv, MapsInv, Sections
  <2>3. MapsInv /\ maps \in [Sections -> Nat] BY Zenon DEF Win32Inv, KernelType
  <2>4. QED BY Zenon, <1>1, <1>3, <1>7, <2>1, <2>2, <2>3, MappingLess
<1>12. KernelType' BY Zenon, <1>8, <1>11 DEF Win32Inv, KernelType
<1>13. TablesType' BY Zenon, <1>5, <1>10 DEF TablesType
<1>14. ObjectsType'
  <2>1. views[k].addr \in Nat BY Zenon, <1>4 DEF View
  <2>2. QED BY Zenon, <1>1, <1>3, <1>8, <2>1 DEF Win32Inv, ObjectsType
<1>15. HasInv' BY <1>1, <1>7, <1>8 DEF Win32Inv, HasInv
<1>16. UsersInv'
  <2>1. \A l \in Keys : o \notin Using(l) /\ Using(l)' = IF l = k THEN Using(l) \cup {o} ELSE Using(l)
    BY Zenon, <1>1, <1>3, NewUser
  <2>2. \A l \in Keys : IsFiniteSet(Using(l)) /\ views[l].ref = Cardinality(Using(l))
    BY Zenon DEF Win32Inv, UsersInv
  <2>3. /\ IsFiniteSet(Using(k) \cup {o}) /\ Cardinality(Using(k) \cup {o}) = Cardinality(Using(k)) + 1
    BY Zenon, <1>2, <2>1, <2>2, FS_AddElement
  <2>4. \A l \in Keys : IsFiniteSet(Using(l)') /\ views'[l].ref = Cardinality(Using(l)')
    BY Zenon, <1>2, <1>5, <2>1, <2>2, <2>3
  <2>5. \A p \in Objects : pc'[p] = "open" => addr'[p] = views'[Key(req[p])].addr
    <3>1. \A p \in Objects \ {o} : pc[p] = "open" => Key(req[p]) \in Keys
      BY Zenon, KeyType DEF Win32Inv, HasInv
    <3>2. QED BY <1>2, <1>5, <1>7, <3>1 DEF Win32Inv, UsersInv
  <2>6. QED BY Zenon, <2>4, <2>5 DEF UsersInv
<1>17. MapsInv'
  <2>1. ASSUME NEW p \in Objects, pc'[p] = "register" PROVE addr'[p] = handles'[hnd'[p]]
    <3>1. p # o /\ pc[p] = "register" /\ addr'[p] = addr[p]
      <4>1. "open" # "register" BY Zenon
      <4>2. QED BY Zenon, <1>7, <2>1, <4>1
    <3>2. hnd[p] # 0 /\ addr[p] = handles[hnd[p]] BY Zenon, <1>1, <3>1 DEF Win32Inv, MapsInv, HasInv
    <3>3. QED BY Zenon, <1>8, <3>1, <3>2
  <2>2. QED BY Zenon, <1>11, <2>1 DEF MapsInv
<1>18. SizesInv' BY Zenon, <1>5, <1>6, <1>7 DEF Win32Inv, SizesInv
<1>19. NamesInv'
  <2>1. ~raced => \A p \in Objects : hnd'[p] # 0 => sects[handles'[hnd'[p]]].name = req[p].name
    BY <1>8 DEF Win32Inv, NamesInv
  <2>2. QED BY Zenon, <1>5, <1>6, <1>9, <2>1 DEF Win32Inv, NamesInv
<1>20. QED
  BY Zenon, <1>8, <1>10, <1>12, <1>13, <1>14, <1>15, <1>16, <1>17, <1>18, <1>19 DEF Win32Inv

\* A key without objects has no view.
LEMMA NoUsers == ASSUME UsersInv, NEW k \in Keys, ~Live(k) PROVE Using(k) = {}
BY Zenon, FS_EmptySet DEF UsersInv, Live

\* Every object that is open uses a registered view.
LEMMA OpenHasView ==
  ASSUME Win32Inv, NEW o \in Objects, pc[o] = "open"
  PROVE  LET k == Key(req[o]) IN /\ k \in Keys /\ o \in Using(k) /\ Live(k) /\ IsFiniteSet(Using(k))
                                 /\ views[k].ref = Cardinality(Using(k)) /\ views[k].ref \in Nat
<1>1. PICK k : k = Key(req[o]) BY Zenon
<1>2. k \in Keys BY Zenon, <1>1, KeyType DEF Win32Inv, HasInv
<1>3. o \in Using(k) BY Zenon, <1>1 DEF Using
<1>4. IsFiniteSet(Using(k)) /\ views[k].ref = Cardinality(Using(k)) BY Zenon, <1>2 DEF Win32Inv, UsersInv
<1>5. views[k].ref \in Nat /\ views[k].ref # 0 BY Zenon, <1>3, <1>4, FS_EmptySet, FS_CardinalityType
<1>6. QED BY Zenon, <1>1, <1>2, <1>3, <1>4, <1>5 DEF Live

\* No handle has two owners.
LEMMA HandlesApart ==
  ASSUME OwnerInv, NEW o \in Objects, hnd[o] # 0
  PROVE  /\ \A p \in Objects : hnd[p] = hnd[o] => p = o
         /\ \A k \in Keys : Live(k) => hnd[o] # views[k].handle
BY Zenon DEF OwnerInv

\* The open() registers the section it mapped, and its handle, under its key.
LEMMA RegisteredKeeps ==
  ASSUME Win32Inv, NEW o \in Objects, pc[o] = "register", NEW k, k = Key(req[o]), ~Live(k),
         views' = [views EXCEPT ![k] = [addr |-> addr[o], handle |-> hnd[o], ref |-> 1]],
         SetCanonical(req[o], hnd[o]), hnd' = [hnd EXCEPT ![o] = 0], pc' = [pc EXCEPT ![o] = "open"],
         UNCHANGED <<sects, handles, peers, maps, req, src, addr, raced>>
  PROVE  Win32Inv'
<1>1. /\ pc \in [Objects -> Pcs] /\ "open" \in Pcs /\ src[o] = 0 /\ req[o] \in Request /\ "open" \notin Holding
      /\ "register" \in Holding /\ hnd \in [Objects -> Handles \cup {0}] /\ hnd[o] \in Handles /\ hnd[o] # 0
      /\ addr[o] \in Nat /\ addr[o] = handles[hnd[o]]
  BY Zenon DEF Win32Inv, ObjectsType, Pcs, Holding, HasInv, MapsInv
<1>2. k \in Keys /\ k.name = req[o].name /\ k.size = req[o].size BY Zenon, <1>1, KeyType
<1>3. addr[o] \in 1 .. Len(sects) /\ addr[o] \in Sections
  <2>1. addr[o] \in 1 .. Len(sects) /\ Len(sects) \in Nat /\ Len(sects) <= MaxSects
    BY Zenon, <1>1, SameSects, SectionsKept DEF Win32Inv, KernelType
  <2>2. QED BY <2>1, Win32Assumption DEF Sections
<1>4. /\ views' \in [Keys -> View] /\ views'[k].addr = addr[o] /\ views'[k].handle = hnd[o] /\ views'[k].ref = 1
      /\ \A l \in Keys \ {k} : views'[l] = views[l]
  BY Zenon, <1>1, <1>2 DEF Win32Inv, TablesType, View
<1>5. Live(k)' /\ \A l \in Keys \ {k} : Live(l)' = Live(l) BY <1>4 DEF Live
<1>6. /\ pc'[o] = "open" /\ hnd'[o] = 0
      /\ \A p \in Objects \ {o} : pc'[p] = pc[p] /\ hnd'[p] = hnd[p]
  BY Zenon, <1>1
<1>7. \A n, g : Registered(n, g) => Registered(n, g)' BY Zenon, <1>4, <1>5 DEF Registered, Live
<1>8. CanonicalInv' /\ canonical' \in [Names -> Handles \cup {0}]
  <2>1. PICK h \in Handles : h = hnd[o] BY Zenon, <1>1
  <2>2. Registered(req[o].name, h)' BY Zenon, <1>2, <1>4, <1>5, <2>1 DEF Registered, Live
  <2>3. PICK r \in Request : r = req[o] BY Zenon, <1>1
  <2>4. Registered(r.name, h)' BY Zenon, <2>2, <2>3 DEF Registered
  <2>5. SetCanonical(r, h) BY Zenon, <2>1, <2>3
  <2>6. QED BY Zenon, <1>7, <2>1, <2>4, <2>5, CanonicalSet
<1>9. KernelType' /\ TablesType' BY Zenon, <1>4, <1>8 DEF Win32Inv, KernelType, TablesType
<1>10. ObjectsType' BY Zenon, <1>1 DEF Win32Inv, ObjectsType
<1>11. HasInv' BY Zenon, <1>1, <1>6 DEF Win32Inv, HasInv
<1>12. OwnerInv'
  <2>1. \A p \in Objects : hnd'[p] # 0 => p # o /\ handles[hnd'[p]] # 0 BY <1>6 DEF Win32Inv, OwnerInv
  <2>2. \A l \in Keys : Live(l)' => /\ views'[l].handle # 0
                                    /\ handles[views'[l].handle] = views'[l].addr
                                    /\ views'[l].addr \in 1 .. Len(sects)
    <3>1. SUFFICES ASSUME NEW l \in Keys, Live(l)'
                   PROVE  /\ views'[l].handle # 0
                          /\ handles[views'[l].handle] = views'[l].addr
                          /\ views'[l].addr \in 1 .. Len(sects)
      BY Zenon
    <3>2. CASE l = k BY Zenon, <1>1, <1>3, <1>4, <3>2
    <3>3. CASE l # k
      <4>1. views'[l] = views[l] /\ Live(l) BY Zenon, <1>4, <1>5, <3>1, <3>3
      <4>2. QED BY Zenon, <4>1 DEF Win32Inv, OwnerInv
    <3>4. QED BY Zenon, <3>2, <3>3
  <2>3. \A p, q \in Objects : hnd'[p] # 0 /\ hnd'[p] = hnd'[q] => p = q
    <3>1. SUFFICES ASSUME NEW p \in Objects, NEW q \in Objects, hnd'[p] # 0, hnd'[p] = hnd'[q] PROVE p = q
      BY Zenon
    <3>2. p # o /\ q # o BY Zenon, <1>6, <3>1
    <3>3. hnd[p] # 0 /\ hnd[p] = hnd[q] BY Zenon, <1>6, <3>1, <3>2
    <3>4. QED BY Zenon, <3>3 DEF Win32Inv, OwnerInv
  <2>4. \A p \in Objects, l \in Keys : hnd'[p] # 0 /\ Live(l)' => hnd'[p] # views'[l].handle
    <3>1. SUFFICES ASSUME NEW p \in Objects, NEW l \in Keys, hnd'[p] # 0, Live(l)'
                   PROVE  hnd'[p] # views'[l].handle
      BY Zenon
    <3>2. p # o /\ hnd'[p] = hnd[p] /\ hnd[p] # 0 BY Zenon, <1>6, <3>1
    <3>3. CASE l = k
      <4>1. views'[l].handle = hnd[o] BY Zenon, <1>4, <3>3
      <4>2. hnd[p] # hnd[o] BY Zenon, <3>2, HandlesApart DEF Win32Inv
      <4>3. QED BY Zenon, <3>2, <4>1, <4>2
    <3>4. CASE l # k
      <4>1. views'[l] = views[l] /\ Live(l) BY Zenon, <1>4, <1>5, <3>1, <3>4
      <4>2. hnd[p] # views[l].handle BY Zenon, <3>2, <4>1, HandlesApart DEF Win32Inv
      <4>3. QED BY Zenon, <3>2, <4>1, <4>2
    <3>5. QED BY Zenon, <3>3, <3>4
  <2>5. \A l, m \in Keys : Live(l)' /\ Live(m)' /\ views'[l].handle = views'[m].handle => l = m
    <3>1. SUFFICES ASSUME NEW l \in Keys, NEW m \in Keys, Live(l)', Live(m)', views'[l].handle = views'[m].handle
                   PROVE  l = m
      BY Zenon
    <3>2. \A n \in Keys \ {k} : Live(n)' => views'[n] = views[n] /\ Live(n) /\ views[n].handle # hnd[o]
      BY Zenon, <1>1, <1>4, <1>5 DEF Win32Inv, OwnerInv
    <3>3. CASE l = k \/ m = k BY Zenon, <1>4, <3>1, <3>2, <3>3
    <3>4. CASE l # k /\ m # k
      <4>1. Live(l) /\ Live(m) /\ views[l].handle = views[m].handle BY Zenon, <3>1, <3>2, <3>4
      <4>2. QED BY Zenon, <4>1 DEF Win32Inv, OwnerInv
    <3>5. QED BY Zenon, <3>3, <3>4
  <2>6. \A g \in Handles : handles[g] # 0 =>
          (\E p \in Objects : hnd'[p] = g) \/ (\E l \in Keys : Live(l)' /\ views'[l].handle = g)
    <3>1. SUFFICES ASSUME NEW g \in Handles, handles[g] # 0
                   PROVE  (\E p \in Objects : hnd'[p] = g) \/ (\E l \in Keys : Live(l)' /\ views'[l].handle = g)
      BY Zenon
    <3>2. (\E p \in Objects : hnd[p] = g) \/ (\E l \in Keys : Live(l) /\ views[l].handle = g)
      BY Zenon, <3>1 DEF Win32Inv, OwnerInv
    <3>3. QED BY Zenon, <1>2, <1>4, <1>5, <1>6, <3>2
  <2>7. QED BY Zenon, <2>1, <2>2, <2>3, <2>4, <2>5, <2>6 DEF OwnerInv, Live
<1>13. UsersInv'
  <2>1. \A l \in Keys : o \notin Using(l) /\ Using(l)' = IF l = k THEN Using(l) \cup {o} ELSE Using(l)
    BY Zenon, <1>1, NewUser
  <2>2. Using(k)' = {o} BY Zenon, <1>2, <2>1, NoUsers DEF Win32Inv
  <2>3. IsFiniteSet({o}) /\ Cardinality({o}) = 1 BY Zenon, FS_Singleton
  <2>4. \A l \in Keys : IsFiniteSet(Using(l)) /\ views[l].ref = Cardinality(Using(l))
    BY Zenon DEF Win32Inv, UsersInv
  <2>5. \A l \in Keys : IsFiniteSet(Using(l)') /\ views'[l].ref = Cardinality(Using(l)')
    BY Zenon, <1>4, <2>1, <2>2, <2>3, <2>4
  <2>6. \A p \in Objects : pc'[p] = "open" => addr[p] = views'[Key(req[p])].addr
    <3>1. \A p \in Objects \ {o} : pc[p] = "open" => Key(req[p]) \in Keys \ {k}
      BY Zenon, OpenHasView
    <3>2. ASSUME NEW p \in Objects, p # o, pc[p] = "open" PROVE addr[p] = views'[Key(req[p])].addr
      <4>1. views'[Key(req[p])] = views[Key(req[p])] BY Zenon, <1>4, <3>1, <3>2
      <4>2. addr[p] = views[Key(req[p])].addr BY Zenon, <3>2 DEF Win32Inv, UsersInv
      <4>3. QED BY Zenon, <4>1, <4>2
    <3>3. QED BY Zenon, <1>2, <1>4, <1>6, <3>2
  <2>7. QED BY Zenon, <2>5, <2>6 DEF UsersInv
<1>14. MapsInv'
  <2>1. \A s : /\ Mapping(s)' = IF s = addr[o] THEN Mapping(s) \ {o} ELSE Mapping(s)
               /\ s = addr[o] => o \in Mapping(s)
    BY Zenon, <1>6 DEF Mapping
  <2>2. \A s : /\ Viewing(s)' = IF s = addr[o] THEN Viewing(s) \cup {k} ELSE Viewing(s)
               /\ k \notin Viewing(s)
    BY Zenon, <1>2, <1>4, <1>5 DEF Viewing
  <2>3. ASSUME NEW s \in Sections
        PROVE  /\ IsFiniteSet(Mapping(s)') /\ IsFiniteSet(Viewing(s)')
               /\ maps[s] = Cardinality(Mapping(s)') + Cardinality(Viewing(s)')
    <3>1. /\ IsFiniteSet(Mapping(s)) /\ IsFiniteSet(Viewing(s))
          /\ maps[s] = Cardinality(Mapping(s)) + Cardinality(Viewing(s))
      BY Zenon DEF Win32Inv, MapsInv
    <3>2. Cardinality(Mapping(s)) \in Nat /\ Cardinality(Viewing(s)) \in Nat BY Zenon, <3>1, FS_CardinalityType
    <3>3. CASE s = addr[o]
      <4>1. o \in Mapping(s) /\ k \notin Viewing(s) BY Zenon, <2>1, <2>2, <3>3
      <4>2. IsFiniteSet(Mapping(s) \ {o}) /\ Cardinality(Mapping(s) \ {o}) = Cardinality(Mapping(s)) - 1
        BY Zenon, <3>1, <4>1, FS_RemoveElement
      <4>3. IsFiniteSet(Viewing(s) \cup {k}) /\ Cardinality(Viewing(s) \cup {k}) = Cardinality(Viewing(s)) + 1
        BY Zenon, <3>1, <4>1, FS_AddElement
      <4>4. maps[s] = Cardinality(Mapping(s) \ {o}) + Cardinality(Viewing(s) \cup {k})
        BY Zenon, <3>1, <3>2, <4>2, <4>3, OneMoved
      <4>5. Mapping(s)' = Mapping(s) \ {o} /\ Viewing(s)' = Viewing(s) \cup {k} BY Zenon, <2>1, <2>2, <3>3
      <4>6. QED BY Zenon, <4>2, <4>3, <4>4, <4>5
    <3>4. CASE s # addr[o]
      <4>1. Mapping(s)' = Mapping(s) /\ Viewing(s)' = Viewing(s) BY Zenon, <2>1, <2>2, <3>4
      <4>2. QED BY Zenon, <3>1, <4>1
    <3>5. QED BY Zenon, <3>3, <3>4
  <2>4. \A p \in Objects : pc'[p] = "register" => addr[p] = handles[hnd'[p]]
    BY Zenon, <1>6 DEF Win32Inv, MapsInv
  <2>5. QED BY Zenon, <2>3, <2>4 DEF MapsInv
<1>15. SizesInv'
  <2>1. ASSUME NEW l \in Keys, Live(l)' PROVE sects[views'[l].addr].size >= l.size
    <3>1. CASE l = k BY Zenon, <1>2, <1>4, <3>1 DEF Win32Inv, SizesInv
    <3>2. CASE l # k
      <4>1. views'[l] = views[l] /\ Live(l) BY Zenon, <1>4, <1>5, <2>1, <3>2
      <4>2. QED BY Zenon, <4>1 DEF Win32Inv, SizesInv
    <3>3. QED BY Zenon, <3>1, <3>2
  <2>2. "open" # "register" BY Zenon
  <2>3. \A p \in Objects : pc'[p] = "register" => sects[addr[p]].size >= req[p].size
    BY Zenon, <1>6, <2>2 DEF Win32Inv, SizesInv
  <2>4. QED BY Zenon, <2>1, <2>3 DEF SizesInv
<1>16. NamesInv'
  <2>1. ASSUME ~raced PROVE \A p \in Objects : src[p] # 0 => Registered(req[p].name, src[p])'
    <3>1. \A p \in Objects : src[p] # 0 => Registered(req[p].name, src[p])
      BY Zenon, <2>1 DEF Win32Inv, NamesInv
    <3>2. ASSUME NEW p \in Objects, src[p] # 0
          PROVE  \E l \in Keys : l.name = req[p].name /\ Live(l)' /\ views'[l].handle = src[p]
      <4>1. PICK l \in Keys : l.name = req[p].name /\ Live(l) /\ views[l].handle = src[p]
        BY Zenon, <3>1, <3>2 DEF Registered
      <4>2. l # k BY Zenon, <4>1
      <4>3. QED BY Zenon, <1>4, <1>5, <4>1, <4>2
    <3>3. QED BY Zenon, <3>2 DEF Registered, Live
  <2>2. ASSUME ~raced, NEW l \in Keys, Live(l)' PROVE sects[views'[l].addr].name = l.name
    <3>1. CASE l = k
      <4>1. sects[handles[hnd[o]]].name = req[o].name BY Zenon, <1>1, <2>2 DEF Win32Inv, NamesInv
      <4>2. QED BY Zenon, <1>1, <1>2, <1>4, <3>1, <4>1
    <3>2. CASE l # k
      <4>1. Live(l) /\ views'[l] = views[l] BY Zenon, <1>4, <1>5, <2>2, <3>2
      <4>2. sects[views[l].addr].name = l.name BY Zenon, <2>2, <4>1 DEF Win32Inv, NamesInv
      <4>3. QED BY Zenon, <4>1, <4>2
    <3>3. QED BY Zenon, <3>1, <3>2
  <2>3. ~raced => \A p \in Objects : hnd'[p] # 0 => sects[handles[hnd'[p]]].name = req[p].name
    BY Zenon, <1>6 DEF Win32Inv, NamesInv
  <2>4. QED BY Zenon, <2>1, <2>2, <2>3 DEF NamesInv
<1>17. QED
  BY Zenon, <1>8, <1>9, <1>10, <1>11, <1>12, <1>13, <1>14, <1>15, <1>16 DEF Win32Inv

-----------------------------------------------------------------------------
\* The same views, with other counts.
LEMMA TablesSame ==
  ASSUME OwnerInv, CanonicalInv, UNCHANGED <<sects, handles, hnd, canonical>>,
         \A l \in Keys : /\ Live(l)' <=> Live(l)
                         /\ views'[l].handle = views[l].handle /\ views'[l].addr = views[l].addr
  PROVE  OwnerInv' /\ CanonicalInv'
<1>2. CanonicalInv'
  <2>1. ASSUME NEW n \in Names, canonical[n] # 0
        PROVE  \E l \in Keys : l.name = n /\ Live(l)' /\ views'[l].handle = canonical[n]
    <3>1. PICK l \in Keys : l.name = n /\ Live(l) /\ views[l].handle = canonical[n]
      BY Zenon, <2>1 DEF CanonicalInv, Registered
    <3>2. Live(l)' /\ views'[l].handle = canonical[n] BY Zenon, <3>1
    <3>3. QED BY Zenon, <3>1, <3>2
  <2>2. QED BY Zenon, <2>1 DEF CanonicalInv, Registered, Live
<1>3. OwnerInv'
  <2>1. \A k \in Keys : Live(k)' => /\ views'[k].handle # 0
                                    /\ handles'[views'[k].handle] = views'[k].addr
                                    /\ views'[k].addr \in 1 .. Len(sects')
    BY Zenon DEF OwnerInv
  <2>2. \A o \in Objects, k \in Keys : hnd'[o] # 0 /\ Live(k)' => hnd'[o] # views'[k].handle BY DEF OwnerInv
  <2>3. \A k, l \in Keys : Live(k)' /\ Live(l)' /\ views'[k].handle = views'[l].handle => k = l BY DEF OwnerInv
  <2>4. \A h \in Handles : handles'[h] # 0 =>
          (\E o \in Objects : hnd'[o] = h) \/ (\E k \in Keys : Live(k)' /\ views'[k].handle = h)
    BY DEF OwnerInv
  <2>5. /\ \A o \in Objects : hnd'[o] # 0 => handles'[hnd'[o]] # 0
        /\ \A o, p \in Objects : hnd'[o] # 0 /\ hnd'[o] = hnd'[p] => o = p
    BY Zenon DEF OwnerInv
  <2>6. QED BY Zenon, <2>1, <2>2, <2>3, <2>4, <2>5 DEF OwnerInv
<1>4. QED BY Zenon, <1>2, <1>3

\* Object o ceases to use the view of its key.
LEMMA UserLess ==
  ASSUME NEW o \in Objects, pc \in [Objects -> Pcs], req \in [Objects -> Request \cup {NoReq}],
         pc' = [pc EXCEPT ![o] = "closed"], req' = [req EXCEPT ![o] = NoReq], NEW k \in Keys
  PROVE  Using(k)' = Using(k) \ {o}
BY Zenon DEF Using

\* detach() of an object that shares its view: the view stays.
LEMMA DetachSharedKeeps ==
  ASSUME Win32Inv, NEW o \in Objects, pc[o] = "open", NEW k, k = Key(req[o]), views[k].ref # 1,
         views' = [views EXCEPT ![k].ref = @ - 1], addr' = [addr EXCEPT ![o] = 0], Fail(o),
         UNCHANGED <<sects, handles, peers, maps, canonical, src, hnd, raced>>
  PROVE  Win32Inv'
<1>1. /\ pc \in [Objects -> Pcs] /\ "closed" \in Pcs /\ src[o] = 0 /\ hnd[o] = 0 /\ "open" \notin Holding
      /\ "closed" \notin Holding /\ req \in [Objects -> Request \cup {NoReq}] /\ addr \in [Objects -> Nat]
  BY Zenon DEF Win32Inv, ObjectsType, Pcs, Holding, HasInv
<1>2. /\ k \in Keys /\ o \in Using(k) /\ Live(k) /\ IsFiniteSet(Using(k))
      /\ views[k].ref = Cardinality(Using(k)) /\ views[k].ref \in Nat
  BY Zenon, OpenHasView
<1>3. pc' = [pc EXCEPT ![o] = "closed"] /\ req' = [req EXCEPT ![o] = NoReq] BY Zenon DEF Fail, Goto
<1>4. views \in [Keys -> View] /\ views[k] \in View /\ views[k].ref - 1 \in Nat /\ views[k].ref - 1 # 0
  BY <1>2 DEF Win32Inv, TablesType, Live
<1>5. /\ views' \in [Keys -> View] /\ views'[k].ref = views[k].ref - 1
      /\ \A l \in Keys : views'[l].handle = views[l].handle /\ views'[l].addr = views[l].addr
      /\ \A l \in Keys \ {k} : views'[l].ref = views[l].ref
  BY Zenon, <1>2, <1>4 DEF View
<1>6. \A l \in Keys : Live(l)' = Live(l)
  <2>1. Live(k)' BY Zenon, <1>4, <1>5 DEF Live
  <2>2. QED BY Zenon, <1>2, <1>5, <2>1 DEF Live
<1>7. /\ pc'[o] = "closed"
      /\ \A p \in Objects \ {o} : pc'[p] = pc[p] /\ req'[p] = req[p] /\ addr'[p] = addr[p]
  BY Zenon, <1>1, <1>3
<1>9. KernelType' /\ TablesType' BY Zenon, <1>5 DEF Win32Inv, KernelType, TablesType
<1>10. ObjectsType' BY Zenon, <1>1, <1>3 DEF Win32Inv, ObjectsType
<1>11. HasInv' BY <1>1, <1>7 DEF Win32Inv, HasInv
<1>12. OwnerInv' /\ CanonicalInv'
  BY Zenon, <1>5, <1>6, TablesSame DEF Win32Inv
<1>13. UsersInv'
  <2>1. \A l \in Keys : Using(l)' = Using(l) \ {o} BY Zenon, <1>1, <1>3, UserLess
  <2>2. \A l \in Keys \ {k} : Using(l) \ {o} = Using(l) BY Zenon DEF Using
  <2>3. \A l \in Keys : IsFiniteSet(Using(l)) /\ views[l].ref = Cardinality(Using(l))
    BY Zenon DEF Win32Inv, UsersInv
  <2>4. IsFiniteSet(Using(k) \ {o}) /\ Cardinality(Using(k) \ {o}) = Cardinality(Using(k)) - 1
    BY Zenon, <1>2, FS_RemoveElement
  <2>5. \A l \in Keys : IsFiniteSet(Using(l)') /\ views'[l].ref = Cardinality(Using(l)')
    <3>1. IsFiniteSet(Using(k)') /\ views'[k].ref = Cardinality(Using(k)')
      <4>1. Using(k)' = Using(k) \ {o} BY Zenon, <1>2, <2>1
      <4>2. views'[k].ref = Cardinality(Using(k) \ {o}) BY Zenon, <1>2, <1>5, <2>4
      <4>3. QED BY Zenon, <2>4, <4>1, <4>2
    <3>2. ASSUME NEW l \in Keys \ {k} PROVE IsFiniteSet(Using(l)') /\ views'[l].ref = Cardinality(Using(l)')
      <4>1. Using(l)' = Using(l) BY Zenon, <2>1, <2>2, <3>2
      <4>2. IsFiniteSet(Using(l)) /\ views'[l].ref = Cardinality(Using(l)) BY Zenon, <1>5, <2>3, <3>2
      <4>3. QED BY Zenon, <4>1, <4>2
    <3>3. QED BY Zenon, <3>1, <3>2
  <2>6. \A p \in Objects \ {o} : pc[p] = "open" => Key(req[p]) \in Keys BY Zenon, OpenHasView
  <2>7. \A p \in Objects : pc'[p] = "open" => addr'[p] = views'[Key(req'[p])].addr
    BY <1>5, <1>7, <2>6 DEF Win32Inv, UsersInv
  <2>8. QED BY Zenon, <2>5, <2>7 DEF UsersInv, Key
<1>14. MapsInv'
  <2>1. \A s : Mapping(s)' = Mapping(s) BY Zenon, <1>1, <1>3, <1>7, SameMapping
  <2>2. \A s : Viewing(s)' = Viewing(s) BY Zenon, <1>5, <1>6 DEF Viewing, Live
  <2>3. QED BY Zenon, <1>7, <2>1, <2>2 DEF Win32Inv, MapsInv
<1>15. SizesInv' BY Zenon, <1>5, <1>6, <1>7 DEF Win32Inv, SizesInv
<1>16. NamesInv'
  <2>1. \A p \in Objects : src[p] # 0 \/ hnd[p] # 0 => req'[p] = req[p] BY Zenon, <1>1, <1>7
  <2>2. ASSUME ~raced PROVE \A p \in Objects : src[p] # 0 => Registered(req[p].name, src[p])
    BY Zenon, <2>2 DEF Win32Inv, NamesInv
  <2>3. ASSUME ~raced, NEW p \in Objects, src[p] # 0
        PROVE  \E l \in Keys : l.name = req'[p].name /\ Live(l)' /\ views'[l].handle = src[p]
    <3>1. req'[p] = req[p] BY Zenon, <2>1, <2>3
    <3>2. PICK l \in Keys : l.name = req[p].name /\ Live(l) /\ views[l].handle = src[p]
      BY Zenon, <2>2, <2>3 DEF Registered
    <3>3. Live(l)' /\ views'[l].handle = src[p] BY Zenon, <1>5, <1>6, <3>2
    <3>4. QED BY Zenon, <3>1, <3>2, <3>3
  <2>4. ~raced => /\ \A p \in Objects : hnd[p] # 0 => sects[handles[hnd[p]]].name = req'[p].name
                  /\ \A l \in Keys : Live(l)' => sects[views'[l].addr].name = l.name
    BY <1>5, <1>6, <2>1 DEF Win32Inv, NamesInv
  <2>5. QED BY Zenon, <2>3, <2>4 DEF NamesInv, Registered, Live
<1>17. QED BY Zenon, <1>9, <1>10, <1>11, <1>12, <1>13, <1>14, <1>15, <1>16 DEF Win32Inv

\* Move: the user of the view is another object.
LEMMA MoveKeeps == ASSUME Win32Inv, NEW o \in Objects, NEW q \in Objects, Move(o, q) PROVE Win32Inv'
<1>1. /\ pc[o] = "open" /\ pc[q] = "closed"
      /\ UNCHANGED <<sects, handles, peers, maps, views, canonical, src, hnd, raced>>
  BY Zenon DEF Move, kernel, tables
<1>2. /\ pc \in [Objects -> Pcs] /\ {"open", "closed"} \subseteq Pcs \ Holding
      /\ src[o] = 0 /\ hnd[o] = 0 /\ src[q] = 0 /\ hnd[q] = 0 /\ req[o] \in Request
      /\ req \in [Objects -> Request \cup {NoReq}] /\ addr \in [Objects -> Nat]
  BY Zenon, <1>1 DEF Win32Inv, ObjectsType, Pcs, Holding, HasInv
<1>3. /\ o # q /\ pc'[o] = "closed" /\ pc'[q] = "open" /\ req'[q] = req[o] /\ addr'[q] = addr[o]
      /\ \A p \in Objects \ {o, q} : pc'[p] = pc[p] /\ req'[p] = req[p] /\ addr'[p] = addr[p]
  BY Zenon, <1>1, <1>2 DEF Move
<1>4. KernelType' /\ TablesType' BY Zenon, <1>1 DEF Win32Inv, KernelType, TablesType
<1>5. ObjectsType'
  <2>1. pc' \in [Objects -> Pcs] /\ req' \in [Objects -> Request \cup {NoReq}] /\ addr' \in [Objects -> Nat]
    BY Zenon, <1>2 DEF Move
  <2>2. QED BY Zenon, <1>1, <2>1 DEF Win32Inv, ObjectsType
<1>6. HasInv' BY Zenon, <1>1, <1>2, <1>3 DEF Win32Inv, HasInv
<1>7. OwnerInv' BY <1>1 DEF Win32Inv, OwnerInv, Live
<1>8. UsersInv'
  <2>1. PICK k : k = Key(req[o]) BY Zenon
  <2>2. k \in Keys /\ o \in Using(k) /\ IsFiniteSet(Using(k)) /\ views[k].ref = Cardinality(Using(k))
    BY Zenon, <1>1, <2>1, OpenHasView
  <2>3. q \notin Using(k) BY Zenon, <1>1 DEF Using
  <2>4. \A p \in Objects : Key(req[p])' = Key(req'[p]) BY Zenon DEF Key
  <2>5. \A l \in Keys : Using(l)' = IF l = k THEN (Using(l) \ {o}) \cup {q} ELSE Using(l)
    BY Zenon, <1>1, <1>3, <2>1, <2>4 DEF Using
  <2>6. /\ IsFiniteSet((Using(k) \ {o}) \cup {q})
        /\ Cardinality((Using(k) \ {o}) \cup {q}) = Cardinality(Using(k))
    <3>1. IsFiniteSet(Using(k) \ {o}) /\ Cardinality(Using(k) \ {o}) = Cardinality(Using(k)) - 1
      BY Zenon, <2>2, FS_RemoveElement
    <3>2. q \notin Using(k) \ {o} /\ Cardinality(Using(k)) \in Nat BY Zenon, <2>2, <2>3, FS_CardinalityType
    <3>3. /\ IsFiniteSet((Using(k) \ {o}) \cup {q})
          /\ Cardinality((Using(k) \ {o}) \cup {q}) = Cardinality(Using(k) \ {o}) + 1
      BY Zenon, <3>1, <3>2, FS_AddElement
    <3>4. QED BY <3>1, <3>2, <3>3
  <2>7. \A l \in Keys : IsFiniteSet(Using(l)) /\ views[l].ref = Cardinality(Using(l))
    BY Zenon DEF Win32Inv, UsersInv
  <2>8. \A l \in Keys : IsFiniteSet(Using(l)') /\ views'[l].ref = Cardinality(Using(l)')
    BY Zenon, <1>1, <2>2, <2>5, <2>6, <2>7
  <2>9. \A p \in Objects : pc'[p] = "open" => addr'[p] = views'[Key(req'[p])].addr
    BY Zenon, <1>1, <1>3 DEF Win32Inv, UsersInv
  <2>10. QED BY Zenon, <2>4, <2>8, <2>9 DEF UsersInv
<1>9. MapsInv'
  <2>1. \A s : Mapping(s)' = Mapping(s) BY Zenon, <1>1, <1>3 DEF Mapping
  <2>2. \A s : Viewing(s)' = Viewing(s) BY Zenon, <1>1 DEF Viewing, Live
  <2>3. QED BY Zenon, <1>1, <1>3, <2>1, <2>2 DEF Win32Inv, MapsInv
<1>10. CanonicalInv' BY Zenon, <1>1 DEF Win32Inv, CanonicalInv, Registered, Live
<1>11. SizesInv' BY Zenon, <1>1, <1>3 DEF Win32Inv, SizesInv, Live
<1>12. NamesInv'
  <2>1. \A p \in Objects : src[p] # 0 \/ hnd[p] # 0 => req'[p] = req[p] BY Zenon, <1>2, <1>3
  <2>2. QED BY <1>1, <2>1 DEF Win32Inv, NamesInv, Registered, Live
<1>13. QED BY Zenon, <1>4, <1>5, <1>6, <1>7, <1>8, <1>9, <1>10, <1>11, <1>12 DEF Win32Inv

\* detach() of the last object of a view: what is closed and unmapped is in no other
\* object's or view's hands.
LEMMA DetachLastKeeps ==
  ASSUME Win32Inv, NEW o \in Objects, pc[o] = "open", NEW k, k = Key(req[o]), NEW v, v = views[k], v.ref = 1,
         views' = [views EXCEPT ![k] = NoView],
         canonical' = IF canonical[k.name] = v.handle THEN [canonical EXCEPT ![k.name] = 0] ELSE canonical,
         maps' = [maps EXCEPT ![v.addr] = @ - 1], Close(v.handle),
         raced' = (raced \/ \E p \in Objects : src[p] = v.handle),
         addr' = [addr EXCEPT ![o] = 0], Fail(o),
         UNCHANGED <<sects, peers, src, hnd>>
  PROVE  Win32Inv'
<1>1. /\ pc \in [Objects -> Pcs] /\ "closed" \in Pcs /\ src[o] = 0 /\ hnd[o] = 0 /\ "open" \notin Holding
      /\ "closed" \notin Holding /\ req \in [Objects -> Request \cup {NoReq}] /\ addr \in [Objects -> Nat]
      /\ "register" \in Holding
  BY Zenon DEF Win32Inv, ObjectsType, Pcs, Holding, HasInv
<1>2. /\ k \in Keys /\ o \in Using(k) /\ Live(k) /\ IsFiniteSet(Using(k)) /\ Cardinality(Using(k)) = 1
  BY Zenon, OpenHasView
<1>3. pc' = [pc EXCEPT ![o] = "closed"] /\ req' = [req EXCEPT ![o] = NoReq] BY Zenon DEF Fail, Goto
<1>4. /\ pc'[o] = "closed"
      /\ \A p \in Objects \ {o} : pc'[p] = pc[p] /\ req'[p] = req[p] /\ addr'[p] = addr[p]
  BY Zenon, <1>1, <1>3
<1>5. /\ views' \in [Keys -> View] /\ views'[k].ref = 0 /\ \A l \in Keys \ {k} : views'[l] = views[l]
  BY Zenon, <1>2 DEF Win32Inv, TablesType, View, NoView
<1>6. \A l \in Keys : Live(l)' <=> l # k /\ Live(l) BY Zenon, <1>2, <1>5 DEF Live
<1>7. PICK h \in Handles : h = v.handle /\ h # 0 /\ handles[h] = v.addr /\ v.addr \in 1 .. Len(sects)
  <2>1. v.handle \in Handles \cup {0} BY Zenon, <1>2 DEF Win32Inv, TablesType, View
  <2>2. QED BY Zenon, <1>2, <2>1 DEF Win32Inv, OwnerInv
<1>8. Len(sects) \in Nat /\ v.addr \in Sections
  BY Zenon, <1>7, SectsInBounds DEF Win32Inv
<1>9. /\ handles \in [Handles -> 0 .. Len(sects)] /\ handles' = [handles EXCEPT ![h] = 0]
      /\ handles'[h] = 0 /\ \A g \in Handles \ {h} : handles'[g] = handles[g]
  BY Zenon, <1>7 DEF Win32Inv, KernelType, Close
<1>10. /\ \A p \in Objects : hnd[p] # 0 => hnd[p] \in Handles \ {h}
       /\ \A l \in Keys \ {k} : Live(l) => views[l].handle \in Handles \ {h}
  <2>1. ASSUME NEW p \in Objects, hnd[p] # 0 PROVE hnd[p] \in Handles /\ hnd[p] # h
    <3>1. hnd[p] \in Handles \cup {0} BY Zenon DEF Win32Inv, ObjectsType
    <3>2. hnd[p] # views[k].handle BY Zenon, <1>2, <2>1 DEF Win32Inv, OwnerInv
    <3>3. QED BY Zenon, <1>7, <2>1, <3>1, <3>2
  <2>2. \A l \in Keys \ {k} : Live(l) => views[l].handle # 0 /\ views[l].handle # h
    BY Zenon, <1>2, <1>7 DEF Win32Inv, OwnerInv
  <2>3. \A l \in Keys : views[l].handle \in Handles \cup {0} BY Zenon DEF Win32Inv, TablesType, View
  <2>4. QED BY Zenon, <2>1, <2>2, <2>3
<1>11. canonical' \in [Names -> Handles \cup {0}] /\ CanonicalInv'
  <2>1. canonical \in [Names -> Handles \cup {0}] BY Zenon DEF Win32Inv, TablesType
  <2>2. canonical' \in [Names -> Handles \cup {0}] BY Zenon, <2>1
  <2>3. ASSUME NEW n \in Names, canonical'[n] # 0
        PROVE  \E l \in Keys : l.name = n /\ Live(l)' /\ views'[l].handle = canonical'[n]
    <3>1. canonical'[n] = canonical[n] /\ (n = k.name => canonical[n] # h) BY Zenon, <1>7, <2>1, <2>3
    <3>2. PICK l \in Keys : l.name = n /\ Live(l) /\ views[l].handle = canonical[n]
      BY Zenon, <2>3, <3>1 DEF Win32Inv, CanonicalInv, Registered
    <3>3. l # k BY Zenon, <1>7, <3>1, <3>2
    <3>4. Live(l)' /\ views'[l] = views[l] BY Zenon, <1>5, <1>6, <3>2, <3>3
    <3>5. QED BY Zenon, <3>1, <3>2, <3>4
  <2>4. CanonicalInv' BY Zenon, <2>3 DEF CanonicalInv, Registered, Live
  <2>5. QED BY Zenon, <2>2, <2>4
<1>12. OwnerInv'
  <2>1. \A p \in Objects : hnd[p] # 0 => handles'[hnd[p]] # 0 BY Zenon, <1>9, <1>10 DEF Win32Inv, OwnerInv
  <2>2. \A l \in Keys : Live(l)' => /\ views'[l].handle # 0
                                    /\ handles'[views'[l].handle] = views'[l].addr
                                    /\ views'[l].addr \in 1 .. Len(sects)
    <3>1. SUFFICES ASSUME NEW l \in Keys, l # k, Live(l), views'[l] = views[l]
                   PROVE  /\ views[l].handle # 0
                          /\ handles'[views[l].handle] = views[l].addr
                          /\ views[l].addr \in 1 .. Len(sects)
      BY Zenon, <1>5, <1>6
    <3>2. handles'[views[l].handle] = handles[views[l].handle] BY Zenon, <1>9, <1>10, <3>1
    <3>3. QED BY Zenon, <3>1, <3>2 DEF Win32Inv, OwnerInv
  <2>3. \A p \in Objects, l \in Keys : hnd[p] # 0 /\ Live(l)' => hnd[p] # views'[l].handle
    <3>1. SUFFICES ASSUME NEW p \in Objects, NEW l \in Keys, hnd[p] # 0, Live(l), views'[l] = views[l]
                   PROVE  hnd[p] # views[l].handle
      BY Zenon, <1>5, <1>6
    <3>2. QED BY Zenon, <3>1 DEF Win32Inv, OwnerInv
  <2>4. \A l, m \in Keys : Live(l)' /\ Live(m)' /\ views'[l].handle = views'[m].handle => l = m
    BY Zenon, <1>5, <1>6 DEF Win32Inv, OwnerInv
  <2>5. ASSUME NEW g \in Handles, handles'[g] # 0
        PROVE  (\E p \in Objects : hnd[p] = g) \/ (\E l \in Keys : Live(l)' /\ views'[l].handle = g)
    <3>1. g # h /\ handles[g] # 0 BY Zenon, <1>9, <2>5
    <3>2. (\E p \in Objects : hnd[p] = g) \/ (\E l \in Keys : Live(l) /\ views[l].handle = g)
      BY Zenon, <3>1 DEF Win32Inv, OwnerInv
    <3>3. ASSUME NEW l \in Keys, Live(l), views[l].handle = g PROVE Live(l)' /\ views'[l].handle = g
      BY Zenon, <1>5, <1>6, <1>7, <3>1, <3>3
    <3>4. QED BY Zenon, <3>2, <3>3
  <2>6. \A p, q \in Objects : hnd[p] # 0 /\ hnd[p] = hnd[q] => p = q BY Zenon DEF Win32Inv, OwnerInv
  <2>7. QED BY ZenonT(30), <2>1, <2>2, <2>3, <2>4, <2>5, <2>6 DEF OwnerInv, Live
<1>13. UsersInv'
  <2>1. \A l \in Keys : Using(l)' = Using(l) \ {o} BY Zenon, <1>1, <1>3, UserLess
  <2>2. \A l \in Keys \ {k} : Using(l) \ {o} = Using(l) BY Zenon DEF Using
  <2>3. Using(k) \ {o} = {}
    <3>1. IsFiniteSet(Using(k) \ {o}) /\ Cardinality(Using(k) \ {o}) = Cardinality(Using(k)) - 1
      BY Zenon, <1>2, FS_RemoveElement
    <3>2. Cardinality(Using(k) \ {o}) = 0 BY Zenon, <1>2, <3>1, OneLess
    <3>3. QED BY Zenon, <3>1, <3>2, FS_EmptySet
  <2>4. ASSUME NEW l \in Keys PROVE IsFiniteSet(Using(l)') /\ views'[l].ref = Cardinality(Using(l)')
    <3>1. CASE l = k
      <4>1. Using(l)' = {} BY Zenon, <2>1, <2>3, <3>1
      <4>2. QED BY Zenon, <1>5, <3>1, <4>1, FS_EmptySet
    <3>2. CASE l # k
      <4>1. Using(l)' = Using(l) /\ views'[l] = views[l] BY Zenon, <1>5, <2>1, <2>2, <3>2
      <4>2. QED BY Zenon, <4>1 DEF Win32Inv, UsersInv
    <3>3. QED BY Zenon, <3>1, <3>2
  <2>5. ASSUME NEW p \in Objects, pc'[p] = "open" PROVE addr'[p] = views'[Key(req'[p])].addr
    <3>1. p # o /\ pc[p] = "open" /\ req'[p] = req[p] /\ addr'[p] = addr[p] BY Zenon, <1>4, <2>5
    <3>2. Key(req[p]) \in Keys /\ Key(req[p]) # k
      <4>1. Key(req[p]) \in Keys BY Zenon, <3>1, OpenHasView
      <4>2. p \notin Using(k) BY Zenon, <2>3, <3>1
      <4>3. QED BY Zenon, <3>1, <4>1, <4>2 DEF Using
    <3>3. addr[p] = views[Key(req[p])].addr BY Zenon, <3>1 DEF Win32Inv, UsersInv
    <3>4. views'[Key(req[p])] = views[Key(req[p])] BY Zenon, <1>5, <3>2
    <3>5. QED BY Zenon, <3>1, <3>3, <3>4
  <2>6. QED BY Zenon, <2>4, <2>5 DEF UsersInv, Key
<1>14. maps' \in [Sections -> Nat] /\ MapsInv'
  <2>1. \A s : Mapping(s)' = Mapping(s) BY Zenon, <1>1, <1>3, <1>4, SameMapping
  <2>2. \A s : /\ Viewing(s)' = IF s = v.addr THEN Viewing(s) \ {k} ELSE Viewing(s)
               /\ s = v.addr => k \in Viewing(s)
    BY Zenon, <1>2, <1>5, <1>6 DEF Viewing
  <2>3. maps \in [Sections -> Nat] BY Zenon DEF Win32Inv, KernelType
  <2>4. ASSUME NEW s \in Sections
        PROVE  /\ IsFiniteSet(Mapping(s)') /\ IsFiniteSet(Viewing(s)') /\ maps'[s] \in Nat
               /\ maps'[s] = Cardinality(Mapping(s)') + Cardinality(Viewing(s)')
    <3>1. /\ IsFiniteSet(Mapping(s)) /\ IsFiniteSet(Viewing(s))
          /\ maps[s] = Cardinality(Mapping(s)) + Cardinality(Viewing(s))
      BY Zenon DEF Win32Inv, MapsInv
    <3>2. Cardinality(Mapping(s)) \in Nat /\ Cardinality(Viewing(s)) \in Nat BY Zenon, <3>1, FS_CardinalityType
    <3>3. CASE s = v.addr
      <4>1. k \in Viewing(s) /\ Viewing(s)' = Viewing(s) \ {k} /\ maps'[s] = maps[s] - 1
        BY Zenon, <2>2, <2>3, <3>3
      <4>2. IsFiniteSet(Viewing(s) \ {k}) /\ Cardinality(Viewing(s) \ {k}) = Cardinality(Viewing(s)) - 1
        BY Zenon, <3>1, <4>1, FS_RemoveElement
      <4>3. Cardinality(Viewing(s) \ {k}) \in Nat BY Zenon, <4>2, FS_CardinalityType
      <4>4. maps'[s] = Cardinality(Mapping(s)) + Cardinality(Viewing(s) \ {k}) /\ maps'[s] \in Nat
        <5>1. (Cardinality(Mapping(s)) + Cardinality(Viewing(s))) - 1 = Cardinality(Mapping(s)) + (Cardinality(Viewing(s)) - 1)
          BY Zenon, <3>2, OneLess
        <5>2. Cardinality(Mapping(s)) + Cardinality(Viewing(s) \ {k}) \in Nat BY Zenon, <3>2, <4>3, OneLess
        <5>3. QED BY Zenon, <3>1, <4>1, <4>2, <5>1, <5>2
      <4>5. QED BY Zenon, <2>1, <3>1, <4>1, <4>2, <4>4
    <3>4. CASE s # v.addr
      <4>1. Viewing(s)' = Viewing(s) /\ maps'[s] = maps[s] /\ maps[s] \in Nat BY Zenon, <2>2, <2>3, <3>4
      <4>2. QED BY Zenon, <2>1, <3>1, <4>1
    <3>5. QED BY Zenon, <3>3, <3>4
  <2>5. ASSUME NEW p \in Objects, pc'[p] = "register" PROVE addr'[p] = handles'[hnd[p]]
    <3>1. p # o /\ pc[p] = "register" /\ addr'[p] = addr[p]
      <4>1. "closed" # "register" BY Zenon
      <4>2. QED BY Zenon, <1>4, <2>5, <4>1
    <3>2. hnd[p] # 0 /\ addr[p] = handles[hnd[p]] BY Zenon, <1>1, <3>1 DEF Win32Inv, MapsInv, HasInv
    <3>3. QED BY Zenon, <1>9, <1>10, <3>1, <3>2
  <2>6. maps' \in [Sections -> Nat]
    <3>1. maps' = [s \in Sections |-> maps'[s]] BY Zenon, <2>3
    <3>2. QED BY Zenon, <2>4, <3>1
  <2>7. QED BY Zenon, <2>4, <2>5, <2>6 DEF MapsInv
<1>15. KernelType'
  <2>1. handles' \in [Handles -> 0 .. Len(sects)]
    <3>1. handles \in [Handles -> 0 .. Len(sects)] BY Zenon DEF Win32Inv, KernelType
    <3>2. handles' = [handles EXCEPT ![h] = 0] BY Zenon, <1>7 DEF Close
    <3>3. 0 \in 0 .. Len(sects) BY Zenon, <1>8, ZeroBelow
    <3>4. QED BY Zenon, <3>1, <3>2, <3>3
  <2>2. QED BY Zenon, <1>14, <2>1 DEF Win32Inv, KernelType
<1>16. TablesType' BY Zenon, <1>5, <1>11 DEF TablesType
<1>17. ObjectsType'
  <2>1. raced' \in BOOLEAN BY Zenon DEF Win32Inv, ObjectsType
  <2>2. QED BY Zenon, <1>1, <1>3, <2>1 DEF Win32Inv, ObjectsType
<1>18. HasInv'
  <2>1. ASSUME NEW p \in Objects, p # o
        PROVE  pc'[p] = pc[p] /\ req'[p] = req[p] /\ src'[p] = src[p] /\ hnd'[p] = hnd[p]
    BY Zenon, <1>4, <2>1
  <2>2. src'[o] = 0 /\ hnd'[o] = 0 /\ pc'[o] = "closed" BY Zenon, <1>1, <1>4
  <2>3. "closed" # "create" /\ "closed" # "duplicate" BY Zenon
  <2>4. ASSUME NEW p \in Objects
        PROVE  /\ pc'[p] # "closed" => req'[p] \in Request
               /\ pc'[p] = "create" => req'[p].size # 0
               /\ src'[p] # 0 <=> pc'[p] = "duplicate"
               /\ hnd'[p] # 0 <=> pc'[p] \in Holding
    <3>1. CASE p = o BY Zenon, <1>1, <2>2, <2>3, <3>1
    <3>2. CASE p # o
      <4>1. /\ pc[p] # "closed" => req[p] \in Request
            /\ pc[p] = "create" => req[p].size # 0
            /\ src[p] # 0 <=> pc[p] = "duplicate"
            /\ hnd[p] # 0 <=> pc[p] \in Holding
        BY Zenon DEF Win32Inv, HasInv
      <4>2. QED BY Zenon, <2>1, <3>2, <4>1
    <3>3. QED BY Zenon, <3>1, <3>2
  <2>5. QED BY Zenon, <2>4 DEF HasInv
<1>19. SizesInv' BY Zenon, <1>4, <1>5, <1>6 DEF Win32Inv, SizesInv
<1>20. NamesInv'
  <2>1. SUFFICES ASSUME ~raced, \A p \in Objects : src[p] # h
                 PROVE  NamesInv'
    BY Zenon, <1>7 DEF NamesInv
  <2>2. \A p \in Objects : src[p] # 0 \/ hnd[p] # 0 => p # o /\ req'[p] = req[p] BY Zenon, <1>1, <1>4
  <2>3. ASSUME NEW p \in Objects, src[p] # 0
        PROVE  \E l \in Keys : l.name = req'[p].name /\ Live(l)' /\ views'[l].handle = src[p]
    <3>1. PICK l \in Keys : l.name = req[p].name /\ Live(l) /\ views[l].handle = src[p]
      BY Zenon, <2>1, <2>3 DEF Win32Inv, NamesInv, Registered
    <3>2. l # k BY Zenon, <1>7, <2>1, <3>1
    <3>3. Live(l)' /\ views'[l] = views[l] /\ req'[p] = req[p] BY Zenon, <1>5, <1>6, <2>2, <2>3, <3>1, <3>2
    <3>4. QED BY Zenon, <3>1, <3>3
  <2>4. ASSUME NEW p \in Objects, hnd[p] # 0 PROVE sects[handles'[hnd[p]]].name = req'[p].name
    <3>1. sects[handles[hnd[p]]].name = req[p].name BY Zenon, <2>1, <2>4 DEF Win32Inv, NamesInv
    <3>2. handles'[hnd[p]] = handles[hnd[p]] /\ req'[p] = req[p] BY Zenon, <1>9, <1>10, <2>2, <2>4
    <3>3. QED BY Zenon, <3>1, <3>2
  <2>5. ASSUME NEW l \in Keys, Live(l)' PROVE sects[views'[l].addr].name = l.name
    <3>1. Live(l) /\ views'[l] = views[l] BY Zenon, <1>5, <1>6, <2>5
    <3>2. sects[views[l].addr].name = l.name BY Zenon, <2>1, <3>1 DEF Win32Inv, NamesInv
    <3>3. QED BY Zenon, <3>1, <3>2
  <2>6. src' = src /\ hnd' = hnd /\ sects' = sects BY Zenon
  <2>7. \A p \in Objects : src'[p] # 0 => Registered(req[p].name, src[p])' BY ZenonT(30), <2>3, <2>6 DEF Registered
  <2>8. \A p \in Objects : hnd'[p] # 0 => sects'[handles'[hnd'[p]]].name = req'[p].name BY Zenon, <2>4, <2>6
  <2>9. \A l \in Keys : Live(l)' => sects'[views'[l].addr].name = l.name BY Zenon, <2>5, <2>6
  <2>10. QED BY Zenon, <2>7, <2>8, <2>9 DEF NamesInv
<1>21. QED
  BY Zenon, <1>11, <1>12, <1>13, <1>14, <1>15, <1>16, <1>17, <1>18, <1>19, <1>20 DEF Win32Inv

-----------------------------------------------------------------------------
\* At the start every object is closed and the tables are empty.
LEMMA Win32Init == ASSUME Init PROVE Win32Inv
<1>1. KernelType /\ TablesType
  BY Win32Assumption DEF Init, KernelType, TablesType, View, NoView
<1>2. ObjectsType BY Zenon DEF Init, ObjectsType, Pcs
<1>3. HasInv BY Zenon DEF Init, HasInv, Holding
<1>4. \A k \in Keys : ~Live(k) /\ Using(k) = {} /\ views[k].ref = 0 BY Zenon DEF Init, NoView, Live, Using
<1>5. \A s : Mapping(s) = {} /\ Viewing(s) = {} BY Zenon, <1>4 DEF Init, Mapping, Viewing
<1>6. OwnerInv BY Zenon, <1>4 DEF Init, OwnerInv
<1>7. UsersInv
  <2>1. \A k \in Keys : IsFiniteSet(Using(k)) /\ views[k].ref = Cardinality(Using(k))
    BY Zenon, <1>4, FS_EmptySet
  <2>2. QED BY Zenon, <2>1 DEF Init, UsersInv
<1>8. MapsInv
  <2>1. \A s : /\ IsFiniteSet(Mapping(s)) /\ IsFiniteSet(Viewing(s))
               /\ Cardinality(Mapping(s)) + Cardinality(Viewing(s)) = 0
    BY <1>5, FS_EmptySet
  <2>2. QED BY Zenon, <2>1 DEF Init, MapsInv
<1>9. CanonicalInv /\ SizesInv /\ NamesInv BY Zenon, <1>4 DEF Init, CanonicalInv, SizesInv, NamesInv
<1>10. QED BY Zenon, <1>1, <1>2, <1>3, <1>6, <1>7, <1>8, <1>9 DEF Win32Inv

\* Under the lock: sharing or registering, and detaching.
LEMMA ReuseViewKeeps == ASSUME Win32Inv, NEW o \in Objects, ReuseView(o) PROVE Win32Inv'
<1>1. pc[o] = "reuse" /\ UNCHANGED <<sects, peers, maps, req, src, raced>> BY Zenon DEF ReuseView
<1>2. CASE Goto(o, "map") /\ UNCHANGED <<handles, tables, hnd, addr>>
  BY Zenon, <1>1, <1>2, ToMapKeeps DEF Goto, tables
<1>3. CASE views[Key(req[o])].ref # 0 /\ Share(o, Key(req[o]))
  <2>1. PICK k : k = Key(req[o]) BY Zenon
  <2>2. Live(k) /\ Share(o, k) BY Zenon, <1>3, <2>1 DEF Live
  <2>3. maps' = IF pc[o] = "register" THEN [maps EXCEPT ![addr[o]] = @ - 1] ELSE maps BY Zenon, <1>1
  <2>4. pc[o] \in {"reuse", "register"} BY Zenon, <1>1
  <2>5. QED BY Zenon, <1>1, <2>1, <2>2, <2>3, <2>4, ShareKeeps
<1>4. QED BY Zenon, <1>2, <1>3 DEF ReuseView

\* An open registers its view, or takes over the one that was registered meanwhile.
LEMMA RegisterKeeps == ASSUME Win32Inv, NEW o \in Objects, Register(o) PROVE Win32Inv'
<1>1. pc[o] = "register" /\ UNCHANGED <<sects, peers, req, src, raced>> BY Zenon DEF Register
<1>2. PICK k : k = Key(req[o]) BY Zenon
<1>3. CASE Live(k)
  <2>1. Share(o, k) /\ maps' = [maps EXCEPT ![addr[o]] = @ - 1] BY Zenon, <1>2, <1>3 DEF Register, Live
  <2>2. maps' = IF pc[o] = "register" THEN [maps EXCEPT ![addr[o]] = @ - 1] ELSE maps BY Zenon, <1>1, <2>1
  <2>3. QED BY Zenon, <1>1, <1>2, <1>3, <2>1, <2>2, ShareKeeps
<1>4. CASE ~Live(k)
  <2>1. /\ views' = [views EXCEPT ![k] = [addr |-> addr[o], handle |-> hnd[o], ref |-> 1]]
        /\ SetCanonical(req[o], hnd[o]) /\ hnd' = [hnd EXCEPT ![o] = 0] /\ pc' = [pc EXCEPT ![o] = "open"]
        /\ UNCHANGED <<handles, maps, addr>>
    BY Zenon, <1>2, <1>4 DEF Register, Live, Goto
  <2>2. QED BY Zenon, <1>1, <1>2, <1>4, <2>1, RegisteredKeeps
<1>5. QED BY Zenon, <1>3, <1>4

\* detach: the last user of a view unmaps it and closes its handle.
LEMMA DetachKeeps == ASSUME Win32Inv, NEW o \in Objects, Detach(o) PROVE Win32Inv'
<1>1. /\ pc[o] = "open" /\ addr' = [addr EXCEPT ![o] = 0] /\ Fail(o) /\ UNCHANGED <<sects, peers, src, hnd>>
  BY Zenon DEF Detach
<1>2. PICK k : k = Key(req[o]) BY Zenon
<1>3. PICK v : v = views[k] BY Zenon
<1>4. CASE v.ref # 1
  <2>1. views' = [views EXCEPT ![k].ref = @ - 1] /\ UNCHANGED <<handles, maps, canonical, raced>>
    BY Zenon, <1>2, <1>3, <1>4 DEF Detach
  <2>2. views[k].ref # 1 BY Zenon, <1>3, <1>4
  <2>3. QED BY Zenon, <1>1, <1>2, <2>1, <2>2, DetachSharedKeeps
<1>5. CASE v.ref = 1
  <2>1. /\ views' = [views EXCEPT ![k] = NoView]
        /\ canonical' = IF canonical[k.name] = v.handle THEN [canonical EXCEPT ![k.name] = 0] ELSE canonical
        /\ maps' = [maps EXCEPT ![v.addr] = @ - 1] /\ Close(v.handle)
        /\ raced' = (raced \/ \E p \in Objects : src[p] = v.handle)
    BY Zenon, <1>2, <1>3, <1>5 DEF Detach
  <2>2. QED BY Zenon, <1>1, <1>2, <1>3, <1>5, <2>1, DetachLastKeeps
<1>6. QED BY Zenon, <1>4, <1>5

\* Every step of every thread and of the other processes keeps the invariant.
LEMMA Win32Next == ASSUME Win32Inv, [Next]_vars PROVE Win32Inv'
<1>1. CASE UNCHANGED vars
  <2>1. UNCHANGED <<sects, handles, peers, maps, views, canonical, pc, req, src, hnd, addr, raced>>
    BY Zenon, <1>1 DEF vars, kernel, tables
  <2>2. KernelType' /\ TablesType' /\ ObjectsType' /\ HasInv'
    BY Zenon, <2>1 DEF Win32Inv, KernelType, TablesType, ObjectsType, HasInv
  <2>3. OwnerInv' BY Zenon, <2>1 DEF Win32Inv, OwnerInv, Live
  <2>4. UsersInv' BY Zenon, <2>1 DEF Win32Inv, UsersInv, Using
  <2>5. MapsInv' /\ CanonicalInv'
    BY ZenonT(30), <2>1 DEF Win32Inv, MapsInv, CanonicalInv, Mapping, Viewing, Live, Registered
  <2>6. SizesInv' BY Zenon, <2>1 DEF Win32Inv, SizesInv, Live
  <2>7. NamesInv' BY Zenon, <2>1 DEF Win32Inv, NamesInv, Live, Registered
  <2>8. QED BY Zenon, <2>2, <2>3, <2>4, <2>5, <2>6, <2>7 DEF Win32Inv
<1>2. ASSUME NEW o \in Objects, Step(o) PROVE Win32Inv'
  BY Zenon, <1>2, DuplicateKeeps, OpenMappingKeeps, CreateKeeps, ReuseViewKeeps, MapViewKeeps, RegisterKeeps DEF Step
<1>3. QED BY Zenon, <1>1, <1>2, OpenKeeps, DetachKeeps, MoveKeeps, PeersKeep DEF Next

-----------------------------------------------------------------------------
\* Win32Inv is an invariant of the process's tables and of the kernel's.
THEOREM Win32Invariant == Spec => []Win32Inv
BY Win32Init, Win32Next, PTL DEF Spec

\* Each view is counted once per object that uses it, all of them at its address in a
\* section that is mapped, and a canonical handle is the open handle of such a view.
THEOREM TablesExactAlways == Spec => []TablesExact
<1>1. ASSUME Win32Inv PROVE TablesExact
  <2>1. ASSUME NEW k \in Keys
        PROVE  /\ views[k].ref = Cardinality(Using(k))
               /\ \A o \in Using(k) : addr[o] = views[k].addr /\ maps[addr[o]] > 0
    <3>1. views[k].ref = Cardinality(Using(k)) BY Zenon, <1>1, <2>1 DEF Win32Inv, UsersInv
    <3>2. ASSUME NEW o \in Using(k) PROVE addr[o] = views[k].addr /\ maps[addr[o]] > 0
      <4>1. o \in Objects /\ pc[o] = "open" /\ Key(req[o]) = k BY Zenon DEF Using
      <4>2. Live(k) BY Zenon, <1>1, <4>1, OpenHasView
      <4>3. addr[o] = views[k].addr BY Zenon, <1>1, <4>1 DEF Win32Inv, UsersInv
      <4>4. views[k].addr \in Sections
        <5>1. views[k].addr \in 1 .. Len(sects) BY Zenon, <1>1, <2>1, <4>2 DEF Win32Inv, OwnerInv
        <5>2. QED BY <1>1, <5>1, Win32Assumption DEF Win32Inv, KernelType, Sections
      <4>5. PICK s \in Sections : s = views[k].addr BY Zenon, <4>4
      <4>6. k \in Viewing(s) BY Zenon, <2>1, <4>2, <4>5 DEF Viewing
      <4>7. /\ IsFiniteSet(Mapping(s)) /\ IsFiniteSet(Viewing(s))
            /\ maps[s] = Cardinality(Mapping(s)) + Cardinality(Viewing(s))
        BY Zenon, <1>1 DEF Win32Inv, MapsInv
      <4>8. Cardinality(Mapping(s)) \in Nat /\ Cardinality(Viewing(s)) \in Nat /\ Cardinality(Viewing(s)) # 0
        BY Zenon, <4>6, <4>7, FS_CardinalityType, FS_EmptySet
      <4>9. maps[s] > 0 BY <4>7, <4>8
      <4>10. QED BY Zenon, <4>3, <4>5, <4>9
    <3>3. QED BY Zenon, <3>1, <3>2
  <2>2. ASSUME NEW n \in Names, canonical[n] # 0
        PROVE  \E k \in Keys : /\ k.name = n /\ views[k].ref # 0
                               /\ views[k].handle = canonical[n] /\ handles[canonical[n]] # 0
    <3>1. PICK k \in Keys : k.name = n /\ Live(k) /\ views[k].handle = canonical[n]
      BY Zenon, <1>1, <2>2 DEF Win32Inv, CanonicalInv, Registered
    <3>2. handles[canonical[n]] = views[k].addr /\ views[k].addr \in 1 .. Len(sects)
      BY Zenon, <1>1, <3>1 DEF Win32Inv, OwnerInv
    <3>3. handles[canonical[n]] # 0 BY <1>1, <3>2 DEF Win32Inv, KernelType
    <3>4. QED BY Zenon, <3>1, <3>3 DEF Live
  <2>3. QED BY Zenon, <2>1, <2>2 DEF TablesExact
<1>2. QED BY Win32Invariant, <1>1, PTL

\* Nothing is left of a process whose objects are all closed.
THEOREM NothingLeaksAlways == Spec => []NothingLeaks
<1>1. ASSUME Win32Inv PROVE NothingLeaks
  <2>1. SUFFICES ASSUME \A o \in Objects : pc[o] = "closed"
                 PROVE  /\ \A h \in Handles : handles[h] = 0
                        /\ \A s \in Sections : maps[s] = 0
                        /\ \A n \in Names : canonical[n] = 0
    BY Zenon DEF NothingLeaks
  <2>2. \A k \in Keys : Using(k) = {} BY Zenon, <2>1 DEF Using
  <2>3. \A k \in Keys : ~Live(k) BY Zenon, <1>1, <2>2, FS_EmptySet DEF Win32Inv, UsersInv, Live
  <2>4. \A o \in Objects : hnd[o] = 0 BY Zenon, <1>1, <2>1 DEF Win32Inv, HasInv, Holding
  <2>5. \A h \in Handles : handles[h] = 0 BY <1>1, <2>3, <2>4, Win32Assumption DEF Win32Inv, OwnerInv
  <2>6. \A s : Mapping(s) = {} /\ Viewing(s) = {} BY Zenon, <2>1, <2>3 DEF Mapping, Viewing
  <2>7. \A s \in Sections : maps[s] = 0 BY <1>1, <2>6, FS_EmptySet DEF Win32Inv, MapsInv
  <2>8. \A n \in Names : canonical[n] = 0 BY Zenon, <1>1, <2>3 DEF Win32Inv, CanonicalInv, Registered
  <2>9. QED BY Zenon, <2>5, <2>7, <2>8
<1>2. QED BY Win32Invariant, <1>1, PTL

\* An object opened by name uses a section of that name, large enough, unless a dup_src
\* was closed under an open().
THEOREM OpenedByNameAlways == Spec => []OpenedByName
<1>1. ASSUME Win32Inv PROVE OpenedByName
  <2>1. SUFFICES ASSUME ~raced, NEW o \in Objects, pc[o] = "open"
                 PROVE  sects[addr[o]].name = req[o].name /\ sects[addr[o]].size >= req[o].size
    BY Zenon DEF OpenedByName
  <2>2. PICK k : k = Key(req[o]) BY Zenon
  <2>3. k \in Keys /\ Live(k) BY Zenon, <1>1, <2>1, <2>2, OpenHasView
  <2>4. k.name = req[o].name /\ k.size = req[o].size BY Zenon, <1>1, <2>1, <2>2, KeyType DEF Win32Inv, HasInv
  <2>5. addr[o] = views[k].addr BY Zenon, <1>1, <2>1, <2>2 DEF Win32Inv, UsersInv
  <2>6. QED BY Zenon, <1>1, <2>1, <2>3, <2>4, <2>5 DEF Win32Inv, SizesInv, NamesInv
<1>2. QED BY Win32Invariant, <1>1, PTL
================================================================================
