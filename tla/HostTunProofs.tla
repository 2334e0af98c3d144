----------------------------- MODULE HostTunProofs -----------------------------
(***************************************************************************)
(* Proofs about HostTun for any names, variables, descriptors and links.   *)
(***************************************************************************)
EXTENDS HostTun, OperatorProofs

\* What the kernel keeps of an interface.
Links == [name : Names, up : BOOLEAN, mtu : Mtus]

\* The kernel's tables: every open file is attached to a link, and the
\* indices of links are not used twice.
Kernel ==
    /\ IsTable(files, 1 .. MaxLinks) /\ DOMAIN files \subseteq 1 .. MaxFiles
    /\ IsTable(links, Links) /\ DOMAIN links \subseteq 1 .. created
    /\ created \in 0 .. MaxLinks
    /\ \A f \in DOMAIN files : files[f] \in DOMAIN links

\* The program's tables.
Program ==
    /\ IsTable(devices, Handles) /\ DOMAIN devices \subseteq Names
    /\ IsTable(locals, Handles) /\ DOMAIN locals \subseteq Vars

\* Handle o is open, in the tables fs and ls, on the link of its name.
OpenOn(fs, ls, o) == o.fd \in DOMAIN fs /\ fs[o.fd] \in DOMAIN ls /\ ls[fs[o.fd]].name = o.name

\* The registry's handles are open and named by their keys; the program's own
\* are open or moved from.
Opened ==
    /\ \A n \in DOMAIN devices : devices[n].name = n /\ OpenOn(files, links, devices[n])
    /\ \A v \in DOMAIN locals : locals[v].fd # -1 => OpenOn(files, links, locals[v])

\* No two handles own a descriptor.
Distinct ==
    /\ \A m, n \in DOMAIN devices : m # n => devices[m].fd # devices[n].fd
    /\ \A n \in DOMAIN devices, v \in DOMAIN locals : devices[n].fd # locals[v].fd
    /\ \A v, w \in DOMAIN locals : v # w /\ locals[v].fd # -1 => locals[v].fd # locals[w].fd

\* Every open file has its handle.
Owned ==
    \A f \in DOMAIN files :
        \/ \E n \in DOMAIN devices : devices[n].fd = f
        \/ \E v \in DOMAIN locals : locals[v].fd = f

\* Until a handle is move-assigned, handles know the index of their link.
Indexed ==
    ~assigned =>
        /\ \A n \in DOMAIN devices : files[devices[n].fd] = devices[n].ifIndex
        /\ \A v \in DOMAIN locals : locals[v].fd # -1 => files[locals[v].fd] = locals[v].ifIndex

\* The history variable is a Boolean.
Flag == assigned \in BOOLEAN

\* The inductive invariant.
IInv == Kernel /\ Program /\ Opened /\ Distinct /\ Owned /\ Indexed /\ Flag /\ AdminActsUnlessAssigned

-----------------------------------------------------------------------------
(* The kernel. *)

\* The descriptor that the kernel gives out.
LEMMA FreeFd ==
    ASSUME FreeFds # {}
    PROVE  Min(FreeFds) \in 1 .. MaxFiles /\ Min(FreeFds) \notin DOMAIN files
<1>1. FreeFds \in SUBSET Nat
  BY LimitsAssumption DEF FreeFds
<1>2. Min(FreeFds) \in FreeFds
  BY <1>1, MinIsLeast
<1> QED
  BY <1>2 DEF FreeFds

\* A descriptor has a number that -1 is not.
LEMMA NotClosed == -1 \notin 1 .. MaxFiles
  BY LimitsAssumption

\* What is left of the links.
LEMMA AttachedEntry ==
    ASSUME NEW fs, NEW ls
    PROVE  /\ \A i : i \in DOMAIN Attached(fs, ls) <=> i \in DOMAIN ls /\ \E f \in DOMAIN fs : fs[f] = i
           /\ \A i \in DOMAIN Attached(fs, ls) : Attached(fs, ls)[i] = ls[i]
           /\ \A S : IsTable(ls, S) => IsTable(Attached(fs, ls), S)
<1>1. DOMAIN ls \cap Range(fs) \subseteq DOMAIN ls
  OBVIOUS
<1>2. /\ DOMAIN Attached(fs, ls) = DOMAIN ls \cap Range(fs)
      /\ \A i \in DOMAIN ls \cap Range(fs) : Attached(fs, ls)[i] = ls[i]
      /\ \A S : IsTable(ls, S) => IsTable(Attached(fs, ls), S)
  BY <1>1, RestrictEntry DEF Attached
<1> QED
  BY <1>2 DEF Range

\* close() of a descriptor deletes the links that no file is attached to any
\* more and leaves the others alone.
LEMMA CloseKernel ==
    ASSUME Kernel, NEW o \in Handles, files' = Closed(o), links' = Attached(files', links), created' = created
    PROVE  /\ Kernel'
           /\ DOMAIN files' = (DOMAIN files) \ {o.fd}
           /\ \A f \in DOMAIN files' : files'[f] = files[f]
           /\ \A f \in DOMAIN files' : links'[files[f]] = links[files[f]]
<1>1. /\ DOMAIN files' = (DOMAIN files) \ {o.fd}
      /\ \A f \in DOMAIN files' : files'[f] = files[f]
      /\ IsTable(files', 1 .. MaxLinks)
  <2>1. CASE o.fd >= 0
    <3>1. files' = Without(files, o.fd)
      BY <2>1 DEF Closed
    <3> QED
      BY <3>1 DEF Without, Restrict, IsTable, Kernel
  <2>2. CASE ~(o.fd >= 0)
    <3>1. o.fd = -1 /\ files' = files
      BY <2>2, LimitsAssumption DEF Closed, Handles
    <3> QED
      BY <3>1, NotClosed DEF Kernel
  <2> QED
    BY <2>1, <2>2
<1>2. /\ \A i : i \in DOMAIN links' <=> i \in DOMAIN links /\ \E f \in DOMAIN files' : files'[f] = i
      /\ \A i \in DOMAIN links' : links'[i] = links[i]
      /\ IsTable(links', Links)
  BY AttachedEntry DEF Kernel
<1>3. \A f \in DOMAIN files' : files'[f] \in DOMAIN links' /\ links'[files[f]] = links[files[f]]
  BY <1>1, <1>2 DEF Kernel
<1>4. Kernel'
  BY <1>1, <1>2, <1>3 DEF Kernel
<1> QED
  BY <1>1, <1>3, <1>4

\* No admin call was made.
LEMMA NoAdmin ==
    ASSUME Kernel', admin' = NoCall
    PROVE  AdminActsUnlessAssigned'
<1>1. admin'.fd = -1
  BY DEF NoCall
<1> QED
  BY <1>1, NotClosed DEF AdminActsUnlessAssigned, AdminActsOnHandle, Kernel

-----------------------------------------------------------------------------

\* A program without devices satisfies it.
LEMMA IInvInit == Init => IInv
<1> SUFFICES ASSUME Init PROVE IInv
  OBVIOUS
<1>0. 0 \in 0 .. MaxLinks
  BY LimitsAssumption
<1>1. DOMAIN Nothing = {} /\ \A S : IsTable(Nothing, S)
  BY DEF Nothing, IsTable
<1>2. Kernel /\ Program
  BY <1>0, <1>1 DEF Init, Kernel, Program
<1>3. Opened /\ Distinct /\ Owned
  BY <1>1 DEF Init, Opened, Distinct, Owned
<1>4. Indexed /\ Flag
  BY <1>1 DEF Init, Indexed, Flag
<1>5. AdminActsUnlessAssigned
  <2>1. DOMAIN files = {}
    BY <1>1 DEF Init
  <2> QED
    BY <2>1 DEF AdminActsUnlessAssigned, AdminActsOnHandle
<1> QED
  BY <1>2, <1>3, <1>4, <1>5 DEF IInv

\* dup()
LEMMA DupStep ==
    ASSUME IInv, NEW h \in Homes, NEW v \in Vars, Dup(h, v)
    PROVE  IInv'
<1> USE DEF IInv
<1> DEFINE o == Handle(h)
           f == Min(FreeFds)
<1>0. /\ v \notin DOMAIN locals /\ o.fd \in DOMAIN files /\ FreeFds # {}
      /\ files' = With(files, f, files[o.fd]) /\ locals' = With(locals, v, DupOf(o, f))
      /\ devices' = devices /\ links' = links /\ created' = created /\ assigned' = assigned
      /\ admin' = NoCall
  BY DEF Dup
<1>1. /\ o \in Handles /\ o.fd # -1 /\ OpenOn(files, links, o)
      /\ ~assigned => files[o.fd] = o.ifIndex
  <2>1. o.fd # -1
    BY <1>0, NotClosed DEF Kernel
  <2>2. \/ \E n \in DOMAIN devices : o = devices[n]
        \/ \E w \in DOMAIN locals : o = locals[w]
    BY DEF Homes, Handle
  <2> QED
    BY <2>1, <2>2 DEF Program, IsTable, Opened, Indexed
<1>2. f \in 1 .. MaxFiles /\ f \notin DOMAIN files /\ f # -1
  BY <1>0, FreeFd, NotClosed
<1>3. DupOf(o, f) \in Handles /\ DupOf(o, f).fd = f /\ DupOf(o, f).ifIndex = o.ifIndex /\ DupOf(o, f).name = o.name
  BY <1>1, <1>2 DEF DupOf, Handles
<1> DEFINE d == DupOf(o, f)
<1> HIDE DEF o, f, d
<1>4. /\ DOMAIN files' = DOMAIN files \cup {f} /\ files'[f] = files[o.fd]
      /\ \A x \in DOMAIN files : files'[x] = files[x]
      /\ IsTable(files', 1 .. MaxLinks)
  BY <1>0, <1>2 DEF With, IsTable, Kernel
<1>5. /\ DOMAIN locals' = DOMAIN locals \cup {v} /\ locals'[v] = d
      /\ \A x \in DOMAIN locals : locals'[x] = locals[x]
      /\ IsTable(locals', Handles)
  BY <1>0, <1>3 DEF With, IsTable, Program, d
<1>6. Kernel'
  BY <1>0, <1>2, <1>4 DEF Kernel
<1>7. Program'
  BY <1>0, <1>5 DEF Program
<1>8. Opened'
  BY <1>0, <1>1, <1>3, <1>4, <1>5 DEF Opened, OpenOn, d
<1>9. Distinct'
  <2>1. \A n \in DOMAIN devices : devices[n].fd # f
    BY <1>2 DEF Opened, OpenOn
  <2>2. \A w \in DOMAIN locals : locals[w].fd # f
    BY <1>2 DEF Opened, OpenOn
  <2> QED
    BY <1>0, <1>2, <1>3, <1>5, <2>1, <2>2 DEF Distinct, d
<1>10. Owned'
  BY <1>0, <1>3, <1>4, <1>5 DEF Owned, d
<1>11. Indexed'
  BY <1>0, <1>1, <1>3, <1>4, <1>5 DEF Indexed, Opened, OpenOn, d
<1>12. Flag' /\ AdminActsUnlessAssigned'
  BY <1>0, <1>6, NoAdmin DEF Flag
<1> QED
  BY <1>6, <1>7, <1>8, <1>9, <1>10, <1>11, <1>12

\* The move constructor.
LEMMA MoveConstructStep ==
    ASSUME IInv, NEW v \in Vars, NEW w, MoveConstruct(v, w)
    PROVE  IInv'
<1> USE DEF IInv
<1> DEFINE moved == [locals EXCEPT ![w] = MovedFrom(@)]
           e == MovedFrom(locals[w])
<1>0. /\ v \notin DOMAIN locals /\ w \in DOMAIN locals
      /\ locals' = With(moved, v, locals[w])
      /\ devices' = devices /\ files' = files /\ links' = links /\ created' = created /\ assigned' = assigned
      /\ admin' = NoCall
  BY DEF MoveConstruct
<1>1. e \in Handles /\ e.fd = -1
  BY DEF MovedFrom, Handles
<1>2. /\ DOMAIN moved = DOMAIN locals /\ moved[w] = e
      /\ \A x \in DOMAIN locals : x # w => moved[x] = locals[x]
      /\ IsTable(moved, Handles)
  BY <1>0, <1>1 DEF Program, IsTable
<1> HIDE DEF moved, e
<1>3. /\ DOMAIN locals' = DOMAIN locals \cup {v} /\ locals'[v] = locals[w] /\ locals'[w] = e
      /\ \A x \in DOMAIN locals : x # w => locals'[x] = locals[x]
      /\ IsTable(locals', Handles)
  <2>1. locals[w] \in Handles
    BY <1>0 DEF Program, IsTable
  <2> QED
    BY <1>0, <1>2, <2>1 DEF With, IsTable
<1>4. Kernel' /\ Program'
  BY <1>0, <1>3 DEF Kernel, Program
<1>5. Opened'
  BY <1>0, <1>1, <1>3 DEF Opened, OpenOn
<1>6. Distinct'
  <2>1. \A n \in DOMAIN devices : devices[n].fd # -1
    BY NotClosed DEF Opened, OpenOn, Kernel
  <2> QED
    BY <1>0, <1>1, <1>3, <2>1 DEF Distinct
<1>7. Owned'
  <2> SUFFICES ASSUME NEW f \in DOMAIN files
               PROVE  \/ \E n \in DOMAIN devices : devices[n].fd = f
                      \/ \E x \in DOMAIN locals' : locals'[x].fd = f
    BY <1>0 DEF Owned
  <2>1. ASSUME NEW x \in DOMAIN locals, locals[x].fd = f
        PROVE  \E y \in DOMAIN locals' : locals'[y].fd = f
    BY <1>3, <2>1
  <2> QED
    BY <2>1 DEF Owned
<1>8. Indexed'
  BY <1>0, <1>1, <1>3 DEF Indexed
<1>9. Flag' /\ AdminActsUnlessAssigned'
  BY <1>0, <1>4, NoAdmin DEF Flag
<1> QED
  BY <1>4, <1>5, <1>6, <1>7, <1>8, <1>9

\* The move assignment.
LEMMA MoveAssignStep ==
    ASSUME IInv, NEW v, NEW w, MoveAssign(v, w)
    PROVE  IInv'
<1> USE DEF IInv
<1> DEFINE e == MovedFrom(locals[w])
<1>0. /\ v \in DOMAIN locals /\ w \in DOMAIN locals
      /\ files' = Closed(locals[v]) /\ links' = Attached(files', links)
      /\ locals' = [locals EXCEPT ![v].fd = locals[w].fd, ![v].name = locals[w].name, ![w] = e]
      /\ devices' = devices /\ created' = created /\ assigned' = TRUE
      /\ admin' = NoCall
  BY DEF MoveAssign
<1>1. e \in Handles /\ e.fd = -1
  BY DEF MovedFrom, Handles
<1>h. locals[v] \in Handles /\ locals[w] \in Handles
  BY <1>0 DEF Program, IsTable
<1>2. /\ DOMAIN locals' = DOMAIN locals /\ locals'[w] = e
      /\ v # w => locals'[v] \in Handles /\ locals'[v].fd = locals[w].fd /\ locals'[v].name = locals[w].name
      /\ \A x \in DOMAIN locals : x # w /\ x # v => locals'[x] = locals[x]
      /\ IsTable(locals', Handles)
  <2> HIDE DEF e
  <2> QED
    BY <1>0, <1>1, <1>h DEF Program, IsTable, Handles
<1> HIDE DEF e
<1>3. /\ Kernel'
      /\ DOMAIN files' = (DOMAIN files) \ {locals[v].fd}
      /\ \A f \in DOMAIN files' : files'[f] = files[f] /\ links'[files[f]] = links[files[f]]
  BY <1>0, <1>h, CloseKernel
<1>4. \A f \in DOMAIN files' : files'[f] \in DOMAIN links'
  BY <1>3 DEF Kernel
<1>5. Program'
  BY <1>0, <1>2 DEF Program
<1>6. Opened'
  <2>1. \A n \in DOMAIN devices : devices[n].fd # locals[v].fd
    BY <1>0 DEF Distinct
  <2>2. \A n \in DOMAIN devices : OpenOn(files', links', devices[n])
    BY <1>3, <1>4, <2>1 DEF Opened, OpenOn
  <2>3. \A x \in DOMAIN locals : x # v /\ locals[x].fd # -1 => OpenOn(files', links', locals[x])
    BY <1>0, <1>3, <1>4 DEF Opened, OpenOn, Distinct
  <2>4. v # w /\ locals'[v].fd # -1 => OpenOn(files', links', locals'[v])
    BY <1>0, <1>2, <2>3 DEF OpenOn
  <2> QED
    BY <1>0, <1>1, <1>2, <2>2, <2>3, <2>4 DEF Opened
<1>7. Distinct'
  <2>1. \A n \in DOMAIN devices : devices[n].fd # -1
    BY NotClosed DEF Opened, OpenOn, Kernel
  <2> QED
    BY <1>0, <1>1, <1>2, <2>1 DEF Distinct
<1>8. Owned'
  <2> SUFFICES ASSUME NEW f \in DOMAIN files'
               PROVE  \/ \E n \in DOMAIN devices : devices[n].fd = f
                      \/ \E x \in DOMAIN locals' : locals'[x].fd = f
    BY <1>0 DEF Owned
  <2>1. ASSUME NEW x \in DOMAIN locals, locals[x].fd = f
        PROVE  \E y \in DOMAIN locals' : locals'[y].fd = f
    <3>1. x # v
      BY <1>3, <2>1
    <3>2. CASE x = w
      BY <1>0, <1>2, <2>1, <3>1, <3>2
    <3>3. CASE x # w
      BY <1>2, <2>1, <3>1, <3>3
    <3> QED
      BY <3>2, <3>3
  <2> QED
    BY <1>3, <2>1 DEF Owned
<1>9. Flag' /\ Indexed'
  BY <1>0 DEF Flag, Indexed
<1>10. AdminActsUnlessAssigned'
  BY <1>0, <1>3, NoAdmin
<1> QED
  BY <1>3, <1>5, <1>6, <1>7, <1>8, <1>9, <1>10

\* The destructor of a variable.
LEMMA DestroyStep ==
    ASSUME IInv, NEW v, Destroy(v)
    PROVE  IInv'
<1> USE DEF IInv
<1>0. /\ v \in DOMAIN locals
      /\ files' = Closed(locals[v]) /\ links' = Attached(files', links)
      /\ locals' = Without(locals, v)
      /\ devices' = devices /\ created' = created /\ assigned' = assigned
      /\ admin' = NoCall
  BY DEF Destroy
<1>1. locals[v] \in Handles
  BY <1>0 DEF Program, IsTable
<1>2. /\ DOMAIN locals' = (DOMAIN locals) \ {v}
      /\ \A x \in DOMAIN locals' : locals'[x] = locals[x]
      /\ IsTable(locals', Handles)
  BY <1>0 DEF Program, IsTable, Without, Restrict
<1>3. /\ Kernel'
      /\ DOMAIN files' = (DOMAIN files) \ {locals[v].fd}
      /\ \A f \in DOMAIN files' : files'[f] = files[f] /\ links'[files[f]] = links[files[f]]
  BY <1>0, <1>1, CloseKernel
<1>4. \A f \in DOMAIN files' : files'[f] \in DOMAIN links'
  BY <1>3 DEF Kernel
<1>5. Program'
  BY <1>0, <1>2 DEF Program
<1>6. /\ \A n \in DOMAIN devices : OpenOn(files', links', devices[n])
      /\ \A x \in DOMAIN locals' : locals[x].fd # -1 => OpenOn(files', links', locals[x])
  BY <1>0, <1>2, <1>3, <1>4 DEF Opened, OpenOn, Distinct
<1>7. Opened'
  BY <1>0, <1>2, <1>6 DEF Opened
<1>8. Distinct'
  BY <1>0, <1>2 DEF Distinct
<1>9. Owned'
  BY <1>0, <1>2, <1>3 DEF Owned
<1>10. Indexed'
  BY <1>0, <1>2, <1>3, <1>6 DEF Indexed, OpenOn
<1>11. Flag' /\ AdminActsUnlessAssigned'
  BY <1>0, <1>3, NoAdmin DEF Flag
<1> QED
  BY <1>3, <1>5, <1>7, <1>8, <1>9, <1>10, <1>11

\* closeDevice()
LEMMA CloseDeviceStep ==
    ASSUME IInv, NEW n, CloseDevice(n)
    PROVE  IInv'
<1> USE DEF IInv
<1>0. /\ n \in DOMAIN devices
      /\ files' = Closed(devices[n]) /\ links' = Attached(files', links)
      /\ devices' = Without(devices, n)
      /\ locals' = locals /\ created' = created /\ assigned' = assigned
      /\ admin' = NoCall
  BY DEF CloseDevice
<1>1. devices[n] \in Handles
  BY <1>0 DEF Program, IsTable
<1>2. /\ DOMAIN devices' = (DOMAIN devices) \ {n}
      /\ \A x \in DOMAIN devices' : devices'[x] = devices[x]
      /\ IsTable(devices', Handles)
  BY <1>0 DEF Program, IsTable, Without, Restrict
<1>3. /\ Kernel'
      /\ DOMAIN files' = (DOMAIN files) \ {devices[n].fd}
      /\ \A f \in DOMAIN files' : files'[f] = files[f] /\ links'[files[f]] = links[files[f]]
  BY <1>0, <1>1, CloseKernel
<1>4. \A f \in DOMAIN files' : files'[f] \in DOMAIN links'
  BY <1>3 DEF Kernel
<1>5. Program'
  BY <1>0, <1>2 DEF Program
<1>6. /\ \A x \in DOMAIN devices' : OpenOn(files', links', devices[x])
      /\ \A x \in DOMAIN locals : locals[x].fd # -1 => OpenOn(files', links', locals[x])
  BY <1>0, <1>2, <1>3, <1>4 DEF Opened, OpenOn, Distinct
<1>7. Opened'
  BY <1>0, <1>2, <1>6 DEF Opened
<1>8. Distinct'
  BY <1>0, <1>2 DEF Distinct
<1>9. Owned'
  BY <1>0, <1>2, <1>3 DEF Owned
<1>10. Indexed'
  BY <1>0, <1>2, <1>3, <1>6 DEF Indexed, OpenOn
<1>11. Flag' /\ AdminActsUnlessAssigned'
  BY <1>0, <1>3, NoAdmin DEF Flag
<1> QED
  BY <1>3, <1>5, <1>7, <1>8, <1>9, <1>10, <1>11

\* A name that no link has is not in the registry, whose handles are open.
LEMMA FreeName ==
    ASSUME IInv, NEW n, ~NameTaken(n)
    PROVE  n \notin DOMAIN devices
  BY DEF IInv, Opened, OpenOn, NameTaken

\* createDevice()
LEMMA CreateDeviceStep ==
    ASSUME IInv, NEW n \in Names, CreateDevice(n)
    PROVE  IInv'
<1> USE DEF IInv
<1> DEFINE f == Min(FreeFds)
           i == created + 1
           d == [fd |-> f, ifIndex |-> i, name |-> n]
<1>0. FreeFds # {} /\ admin' = NoCall /\ locals' = locals /\ assigned' = assigned
  BY DEF CreateDevice
<1>1. CASE files' = files /\ UNCHANGED <<devices, links, created>>
  <2>1. Kernel' /\ Program' /\ Opened' /\ Distinct' /\ Owned'
    BY <1>0, <1>1 DEF Kernel, Program, Opened, Distinct, Owned
  <2>2. Indexed' /\ Flag'
    BY <1>0, <1>1 DEF Indexed, Flag
  <2> QED
    BY <1>0, <2>1, <2>2, NoAdmin
<1>2. CASE /\ ~NameTaken(n)
           /\ created < MaxLinks
           /\ created' = i
           /\ devices' = With(devices, n, d)
           /\ files' = IF n \in DOMAIN devices THEN Without(With(files, f, i), devices[n].fd) ELSE With(files, f, i)
           /\ links' = Attached(files', With(links, i, NewLink(n)))
  <2>0. f \in 1 .. MaxFiles /\ f \notin DOMAIN files /\ f # -1 /\ n \notin DOMAIN devices
    BY <1>0, <1>2, FreeFd, FreeName, NotClosed
  <2>1. created \in Nat /\ i \in 1 .. i /\ i \notin 1 .. created /\ i \in 0 .. MaxLinks /\ i \in 1 .. MaxLinks /\ 1 .. created \subseteq 1 .. i
    BY <1>2, LimitsAssumption DEF Kernel
  <2>2. d \in Handles /\ d.fd = f /\ d.ifIndex = i /\ d.name = n
    BY <2>0, <2>1 DEF Handles
  <2>3. NewLink(n) \in Links /\ NewLink(n).name = n
    <3>1. Min(Mtus) \in Mtus
      BY MtusAssumption, MinIsLeast
    <3> QED
      BY <3>1 DEF NewLink, Links
  <2> HIDE DEF f, i, d
  <2>4. /\ DOMAIN files' = DOMAIN files \cup {f} /\ files'[f] = i
        /\ \A x \in DOMAIN files : files'[x] = files[x]
        /\ IsTable(files', 1 .. MaxLinks)
    BY <1>2, <2>0, <2>1 DEF With, IsTable, Kernel
  <2> DEFINE more == With(links, i, NewLink(n))
  <2>5. /\ DOMAIN more = DOMAIN links \cup {i} /\ more[i] = NewLink(n)
        /\ \A x \in DOMAIN links : x # i => more[x] = links[x]
        /\ IsTable(more, Links)
    BY <2>3 DEF With, IsTable, Kernel
  <2> HIDE DEF more
  <2>6. /\ \A x : x \in DOMAIN links' <=> x \in DOMAIN more /\ \E y \in DOMAIN files' : files'[y] = x
        /\ \A x \in DOMAIN links' : links'[x] = more[x]
        /\ IsTable(links', Links)
    BY <1>2, <2>5, AttachedEntry DEF more
  <2>7. /\ \A y \in DOMAIN files : files'[y] \in DOMAIN links' /\ links'[files[y]] = links[files[y]]
        /\ i \in DOMAIN links' /\ links'[i] = NewLink(n)
    BY <2>1, <2>4, <2>5, <2>6 DEF Kernel
  <2>8. Kernel'
    <3>1. DOMAIN links' \subseteq 1 .. i
      BY <2>1, <2>5, <2>6 DEF Kernel
    <3>2. \A y \in DOMAIN files' : files'[y] \in DOMAIN links'
      BY <2>4, <2>7
    <3> QED
      BY <1>2, <2>0, <2>1, <2>4, <2>6, <3>1, <3>2 DEF Kernel
  <2>9. /\ DOMAIN devices' = DOMAIN devices \cup {n} /\ devices'[n] = d
        /\ \A x \in DOMAIN devices : devices'[x] = devices[x]
        /\ IsTable(devices', Handles)
    BY <1>2, <2>0, <2>2 DEF With, IsTable, Program
  <2>10. Program'
    BY <1>0, <2>9 DEF Program
  <2>11. Opened'
    <3>1. OpenOn(files', links', d)
      BY <2>2, <2>3, <2>4, <2>7 DEF OpenOn
    <3>2. /\ \A x \in DOMAIN devices : OpenOn(files', links', devices[x])
          /\ \A x \in DOMAIN locals : locals[x].fd # -1 => OpenOn(files', links', locals[x])
      BY <2>4, <2>7 DEF Opened, OpenOn
    <3> QED
      BY <1>0, <2>2, <2>9, <3>1, <3>2 DEF Opened
  <2>12. Distinct'
    <3>1. \A x \in DOMAIN devices : devices[x].fd # f
      BY <2>0 DEF Opened, OpenOn
    <3>2. \A w \in DOMAIN locals : locals[w].fd # f
      BY <2>0 DEF Opened, OpenOn
    <3> QED
      BY <1>0, <2>2, <2>9, <3>1, <3>2 DEF Distinct
  <2>13. Owned'
    BY <1>0, <2>2, <2>4, <2>9 DEF Owned
  <2>14. Indexed'
    BY <1>0, <2>2, <2>4, <2>9 DEF Indexed, Opened, OpenOn
  <2>15. Flag' /\ AdminActsUnlessAssigned'
    BY <1>0, <2>8, NoAdmin DEF Flag
  <2> QED
    BY <2>8, <2>10, <2>11, <2>12, <2>13, <2>14, <2>15
<1> QED
  BY <1>1, <1>2 DEF CreateDevice, AfterBusy

\* setLinkState() and setLinkMtu()
LEMMA ChangeLinkStep ==
    ASSUME IInv, NEW h \in Homes, NEW field, NEW value,
           (field = "up" /\ value \in BOOLEAN) \/ (field = "mtu" /\ value \in Mtus),
           ChangeLink(Handle(h), field, value)
    PROVE  IInv'
<1> USE DEF IInv
<1> DEFINE o == Handle(h)
<1>0. /\ o.ifIndex \in DOMAIN links
      /\ links' = [links EXCEPT ![o.ifIndex][field] = value]
      /\ admin' = [fd |-> o.fd, field |-> field, value |-> value]
      /\ devices' = devices /\ locals' = locals /\ files' = files /\ created' = created /\ assigned' = assigned
  BY DEF ChangeLink
<1>1. ~assigned /\ o.fd \in DOMAIN files => files[o.fd] = o.ifIndex
  <2>1. o.fd \in DOMAIN files => o.fd # -1
    BY NotClosed DEF Kernel
  <2>2. \/ \E n \in DOMAIN devices : o = devices[n]
        \/ \E w \in DOMAIN locals : o = locals[w]
    BY DEF Homes, Handle
  <2> QED
    BY <2>1, <2>2 DEF Indexed
<1> HIDE DEF o
<1>2. /\ DOMAIN links' = DOMAIN links
      /\ \A x \in DOMAIN links : links'[x].name = links[x].name
      /\ IsTable(links', Links)
      /\ links'[o.ifIndex][field] = value
  <2>1. CASE field = "up" /\ value \in BOOLEAN
    BY <1>0, <2>1 DEF Kernel, IsTable, Links
  <2>2. CASE field = "mtu" /\ value \in Mtus
    BY <1>0, <2>2 DEF Kernel, IsTable, Links
  <2> QED
    BY <2>1, <2>2
<1>3. Kernel' /\ Program'
  BY <1>0, <1>2 DEF Kernel, Program
<1>4. Opened' /\ Distinct' /\ Owned'
  BY <1>0, <1>2 DEF Opened, OpenOn, Distinct, Owned
<1>5. Indexed' /\ Flag'
  BY <1>0 DEF Indexed, Flag
<1>6. AdminActsUnlessAssigned'
  BY <1>0, <1>1, <1>2 DEF AdminActsUnlessAssigned, AdminActsOnHandle
<1> QED
  BY <1>3, <1>4, <1>5, <1>6

\* Every operation on handles, on the registry and on links keeps the invariant.
LEMMA IInvNext == IInv /\ [Next]_vars => IInv'
<1> SUFFICES ASSUME IInv, [Next]_vars PROVE IInv'
  OBVIOUS
<1>1. CASE UNCHANGED vars
  <2>1. /\ devices' = devices /\ locals' = locals /\ files' = files /\ links' = links
        /\ created' = created /\ assigned' = assigned /\ admin' = admin
    BY <1>1 DEF vars
  <2>2. Kernel' /\ Program' /\ Opened' /\ Distinct' /\ Owned'
    BY <2>1 DEF IInv, Kernel, Program, Opened, Distinct, Owned
  <2>3. Indexed' /\ Flag' /\ AdminActsUnlessAssigned'
    BY <2>1 DEF IInv, Indexed, Flag, AdminActsUnlessAssigned, AdminActsOnHandle
  <2> QED
    BY <2>2, <2>3 DEF IInv
<1>2. CASE \E n \in Names : CreateDevice(n) \/ CloseDevice(n)
  BY <1>2, CreateDeviceStep, CloseDeviceStep
<1>3. CASE \E v \in Vars :
             \/ Destroy(v)
             \/ \E h \in Homes : Dup(h, v)
             \/ \E w \in Vars : MoveConstruct(v, w) \/ MoveAssign(v, w)
  BY <1>3, DestroyStep, DupStep, MoveConstructStep, MoveAssignStep
<1>4. ASSUME NEW h \in Homes, NEW up \in BOOLEAN, SetLinkState(h, up)
      PROVE  IInv'
  BY <1>4, ChangeLinkStep DEF SetLinkState
<1>5. ASSUME NEW h \in Homes, NEW mtu \in Mtus, SetLinkMtu(h, mtu)
      PROVE  IInv'
  BY <1>5, ChangeLinkStep DEF SetLinkMtu
<1> QED
  BY <1>1, <1>2, <1>3, <1>4, <1>5 DEF Next

\* Every behaviour keeps the invariant.
LEMMA Invariant == Spec => []IInv
  BY IInvInit, IInvNext, PTL DEF Spec

\* What is true of every handle, in the registry and in a variable.
LEMMA EveryHandle ==
    ASSUME IInv, NEW h \in Homes
    PROVE  /\ Handle(h) \in Handles
           /\ Handle(h).fd >= 0 => OpenOn(files, links, Handle(h))
           /\ \/ h[2] = "registry" /\ h[1] \in DOMAIN devices /\ Handle(h) = devices[h[1]]
              \/ h[2] = "local" /\ h[1] \in DOMAIN locals /\ Handle(h) = locals[h[1]]
           /\ h = <<h[1], h[2]>>
<1>1. /\ \/ h[2] = "registry" /\ h[1] \in DOMAIN devices /\ Handle(h) = devices[h[1]]
         \/ h[2] = "local" /\ h[1] \in DOMAIN locals /\ Handle(h) = locals[h[1]]
      /\ h = <<h[1], h[2]>>
  BY DEF Homes, Handle
<1>2. Handle(h) \in Handles
  BY <1>1 DEF IInv, Program, IsTable
<1>3. Handle(h).fd >= 0 => Handle(h).fd # -1
  OBVIOUS
<1>4. Handle(h).fd >= 0 => OpenOn(files, links, Handle(h))
  BY <1>1, <1>3 DEF IInv, Opened
<1> QED
  BY <1>1, <1>2, <1>4

-----------------------------------------------------------------------------

\* Handles, files and links keep their types, and every open file its link.
THEOREM TypeCorrect == Spec => []TypeOK
<1>1. ASSUME IInv PROVE TypeOK
  <2>1. \A h \in Homes : Handle(h) \in Handles
    BY <1>1, EveryHandle
  <2>2. DOMAIN links \subseteq 1 .. MaxLinks
    BY <1>1, LimitsAssumption DEF IInv, Kernel
  <2>3. Range(files) \subseteq DOMAIN links
    BY <1>1 DEF IInv, Kernel, Range
  <2>4. Range(links) \subseteq [name : Names, up : BOOLEAN, mtu : Mtus]
    BY <1>1 DEF IInv, Kernel, IsTable, Links, Range
  <2> QED
    BY <1>1, <2>1, <2>2, <2>3, <2>4 DEF IInv, Kernel, Program, Flag, TypeOK
<1> QED
  BY <1>1, Invariant, PTL

\* Two handles never own the same descriptor, through any sequence of dup(),
\* moves, assignments, closes and creations.
THEOREM OneOwner == Spec => []SoleOwner
<1>1. ASSUME IInv PROVE SoleOwner
  <2> SUFFICES ASSUME NEW g \in Homes, NEW h \in Homes, g # h, Handle(g).fd >= 0
               PROVE  Handle(g).fd # Handle(h).fd
    BY DEF SoleOwner
  <2>0. Handle(g).fd # -1
    OBVIOUS
  <2>1. /\ \/ g[2] = "registry" /\ g[1] \in DOMAIN devices /\ Handle(g) = devices[g[1]]
           \/ g[2] = "local" /\ g[1] \in DOMAIN locals /\ Handle(g) = locals[g[1]]
        /\ \/ h[2] = "registry" /\ h[1] \in DOMAIN devices /\ Handle(h) = devices[h[1]]
           \/ h[2] = "local" /\ h[1] \in DOMAIN locals /\ Handle(h) = locals[h[1]]
        /\ g[1] # h[1] \/ g[2] # h[2]
    BY <1>1, EveryHandle
  <2> QED
    BY <1>1, <2>0, <2>1 DEF IInv, Distinct
<1> QED
  BY <1>1, Invariant, PTL

\* A handle's descriptor is open and attached to the link of its name.
THEOREM HandlesOpen == Spec => []HandleNamesLink
<1>1. ASSUME IInv PROVE HandleNamesLink
  BY <1>1, EveryHandle DEF HandleNamesLink, OpenOn
<1> QED
  BY <1>1, Invariant, PTL

\* Every open tun file has a handle that will close it.
THEOREM NothingLeaks == Spec => []NoLeak
<1>1. ASSUME IInv PROVE NoLeak
  <2> SUFFICES ASSUME NEW f \in DOMAIN files
               PROVE  \E h \in Homes : Handle(h).fd = f
    BY DEF NoLeak
  <2>1. ASSUME NEW n \in DOMAIN devices, devices[n].fd = f
        PROVE  \E h \in Homes : Handle(h).fd = f
    <3>1. <<n, "registry">> \in Homes /\ Handle(<<n, "registry">>) = devices[n]
      BY DEF Homes, Handle
    <3> QED
      BY <2>1, <3>1
  <2>2. ASSUME NEW v \in DOMAIN locals, locals[v].fd = f
        PROVE  \E h \in Homes : Handle(h).fd = f
    <3>1. <<v, "local">> \in Homes /\ Handle(<<v, "local">>) = locals[v]
      BY DEF Homes, Handle
    <3> QED
      BY <2>2, <3>1
  <2> QED
    BY <1>1, <2>1, <2>2 DEF IInv, Owned
<1> QED
  BY <1>1, Invariant, PTL

\* setLinkState() and setLinkMtu() change the link that their handle is open
\* on, in a program that has not move-assigned a handle.
THEOREM AdminActs == Spec => []AdminActsUnlessAssigned
<1>1. IInv => AdminActsUnlessAssigned
  BY DEF IInv
<1> QED
  BY <1>1, Invariant, PTL

\* The reference that createDevice() returned stays valid until closeDevice():
\* the kernel refuses a name that is in use, and the names in the map are.
THEOREM RegistryStable == Spec => ReferencesStay
<1> DEFINE Stays == \A n \in DOMAIN devices \cap DOMAIN devices' : devices'[n] = devices[n]
<1>1. ASSUME IInv, Next PROVE Stays
  <2>1. ASSUME NEW n \in Names, CreateDevice(n)
        PROVE  Stays
    <3>1. CASE devices' = devices
      BY <3>1
    <3>2. CASE ~NameTaken(n) /\ \E d : devices' = With(devices, n, d)
      <4>1. n \notin DOMAIN devices
        BY <1>1, <3>2, FreeName
      <4> QED
        BY <3>2, <4>1 DEF With
    <3> QED
      BY <2>1, <3>1, <3>2 DEF CreateDevice
  <2>2. ASSUME NEW n \in Names, CloseDevice(n)
        PROVE  Stays
    <3>1. devices' = Without(devices, n)
      BY <2>2 DEF CloseDevice
    <3>2. \A m \in DOMAIN devices' : devices'[m] = devices[m]
      BY <3>1 DEF Without, Restrict
    <3> QED
      BY <3>2
  <2>3. CASE devices' = devices
    BY <2>3
  <2>4. \/ devices' = devices
        \/ \E n \in Names : CreateDevice(n) \/ CloseDevice(n)
    BY <1>1 DEF Next, Destroy, Dup, MoveConstruct, MoveAssign, SetLinkState, SetLinkMtu, ChangeLink
  <2> QED
    BY <2>1, <2>2, <2>3, <2>4
<1>2. UNCHANGED vars => Stays
  BY DEF vars
<1>3. IInv /\ [Next]_vars => [\A n \in DOMAIN devices \cap DOMAIN devices' : devices'[n] = devices[n]]_vars
  BY <1>1, <1>2
<1> QED
  BY <1>3, Invariant, PTL DEF Spec, ReferencesStay

=============================================================================
