------------------------------- MODULE HostTun -------------------------------
(***************************************************************************)
(* The tunnel devices of the host side: host::TunDevice, a handle that     *)
(* owns a file descriptor, host::TunRegistry, which creates devices and    *)
(* keeps a handle of each, and host::TunAdminContext, which changes a      *)
(* link's state and MTU through netlink.                                   *)
(*                                                                         *)
(* The kernel is external: a table of open tun files, each attached to a   *)
(* link, and the links by interface index.  A link lives as long as a file *)
(* is attached to it; indices are not used twice; descriptors are, lowest  *)
(* first.                                                                  *)
(***************************************************************************)
EXTENDS Integers, Tables

CONSTANTS
    Names,       \* interface names
    Vars,        \* the program's own TunDevice variables
    MaxFiles,    \* the process's limit of open files
    MaxLinks,    \* bound: how many links are created
    Mtus         \* MTUs the program sets

ASSUME LimitsAssumption == MaxFiles \in Nat /\ MaxLinks \in Nat
ASSUME MtusAssumption == Mtus \subseteq Nat /\ Mtus # {}

VARIABLES
    devices,  \* TunRegistry::devices: name -> handle
    locals,   \* handles in the program's variables
    files,    \* kernel: open descriptor -> interface index
    links,    \* kernel: interface index -> link
    created,  \* kernel: links created so far
    assigned, \* history: whether a handle was ever move-assigned
    admin     \* history: what the last admin call promised, if the last step was one

vars == <<devices, locals, files, links, created, assigned, admin>>

NoName == "no name"
Nothing == [x \in {} |-> x]
NoCall == [fd |-> -1, field |-> "up", value |-> FALSE]

Init ==
    /\ devices = Nothing
    /\ locals = Nothing
    /\ files = Nothing
    /\ links = Nothing
    /\ created = 0
    /\ assigned = FALSE
    /\ admin = NoCall

\* Every TunDevice object there is, by where it lives.
Homes == ((DOMAIN devices) \X {"registry"}) \cup ((DOMAIN locals) \X {"local"})
Handle(h) == IF h[2] = "registry" THEN devices[h[1]] ELSE locals[h[1]]

-----------------------------------------------------------------------------
(* The kernel. *)

FreeFds == (1 .. MaxFiles) \ DOMAIN files

\* The links that the files fs keep alive.
Attached(fs, ls) == Restrict(ls, DOMAIN ls \cap Range(fs))

NewLink(n) == [name |-> n, up |-> FALSE, mtu |-> Min(Mtus)]

-----------------------------------------------------------------------------
(* TunDevice. *)

\* Mutant: the moved-from object keeps its descriptor.
KeepsFd(o) == [o EXCEPT !.ifIndex = -1]

\* What a move leaves behind.
MovedFrom(o) == [fd |-> -1, ifIndex |-> -1, name |-> NoName]

\* Mutant: the constructor's two int arguments swapped.
DupSwapped(o, fd) == [o EXCEPT !.fd = o.ifIndex, !.ifIndex = fd]

\* The object dup() returns.
DupOf(o, fd) == [o EXCEPT !.fd = fd]

\* Mutant: operator= does not close what it held.
KeepOpen(o) == files

\* close(): the files left when handle o is closed.
Closed(o) == IF o.fd >= 0 THEN Without(files, o.fd) ELSE files

\* TunDevice v = registry or variable h .dup(); ::dup fails for a moved-from
\* handle and when no descriptor is free.
Dup(h, v) ==
    LET o == Handle(h)
        fd == Min(FreeFds)
    IN  /\ v \notin DOMAIN locals
        /\ o.fd \in DOMAIN files
        /\ FreeFds # {}
        /\ files' = With(files, fd, files[o.fd])
        /\ locals' = With(locals, v, DupOf(o, fd))
        /\ admin' = NoCall
        /\ UNCHANGED <<devices, links, created, assigned>>

\* TunDevice v(std::move(w)).
MoveConstruct(v, w) ==
    /\ v \notin DOMAIN locals
    /\ w \in DOMAIN locals
    /\ locals' = With([locals EXCEPT ![w] = MovedFrom(@)], v, locals[w])
    /\ admin' = NoCall
    /\ UNCHANGED <<devices, files, links, created, assigned>>

\* v = std::move(w).  The handle's ifIndex_ is not assigned.  When v is w, the
\* last assignments to rhs win.
MoveAssign(v, w) ==
    /\ {v, w} \subseteq DOMAIN locals
    /\ files' = Closed(locals[v])
    /\ links' = Attached(files', links)
    /\ locals' = [locals EXCEPT ![v].fd = locals[w].fd, ![v].name = locals[w].name,
                                ![w] = MovedFrom(locals[w])]
    /\ assigned' = TRUE
    /\ admin' = NoCall
    /\ UNCHANGED <<devices, created>>

\* The variable goes out of scope.
Destroy(v) ==
    /\ v \in DOMAIN locals
    /\ files' = Closed(locals[v])
    /\ links' = Attached(files', links)
    /\ locals' = Without(locals, v)
    /\ admin' = NoCall
    /\ UNCHANGED <<devices, created, assigned>>

-----------------------------------------------------------------------------
(* TunRegistry. *)

NameTaken(n) == \E i \in DOMAIN links : links[i].name = n

\* Mutant: the descriptor is not closed when TUNSETIFF fails.
LeakFile(fd) == With(files, fd, 0)

\* close(fd) after a failed TUNSETIFF.
AfterBusy(fd) == files

\* createDevice for a template that names n, or of whose %d the kernel makes n.
\* The new handle replaces, and so destroys, one of that name in the map.
CreateDevice(n) ==
    /\ FreeFds # {}
    /\ LET fd == Min(FreeFds)
           i == created + 1
           opened == With(files, fd, i)
       IN  \/ /\ NameTaken(n)
              /\ files' = AfterBusy(fd)
              /\ UNCHANGED <<devices, links, created>>
           \/ /\ ~NameTaken(n)
              /\ created < MaxLinks
              /\ created' = i
              /\ devices' = With(devices, n, [fd |-> fd, ifIndex |-> i, name |-> n])
              /\ files' = IF n \in DOMAIN devices THEN Without(opened, devices[n].fd) ELSE opened
              /\ links' = Attached(files', With(links, i, NewLink(n)))
    /\ admin' = NoCall
    /\ UNCHANGED <<locals, assigned>>

CloseDevice(n) ==
    /\ n \in DOMAIN devices
    /\ devices' = Without(devices, n)
    /\ files' = Closed(devices[n])
    /\ links' = Attached(files', links)
    /\ admin' = NoCall
    /\ UNCHANGED <<locals, created, assigned>>

-----------------------------------------------------------------------------
(* TunAdminContext. *)

\* Both calls look the link up by the handle's ifIndex and throw if there is none.
ChangeLink(o, field, value) ==
    /\ o.ifIndex \in DOMAIN links
    /\ links' = [links EXCEPT ![o.ifIndex][field] = value]
    /\ admin' = [fd |-> o.fd, field |-> field, value |-> value]
    /\ UNCHANGED <<devices, locals, files, created, assigned>>

SetLinkState(h, up) == ChangeLink(Handle(h), "up", up)

SetLinkMtu(h, mtu) == ChangeLink(Handle(h), "mtu", mtu)

-----------------------------------------------------------------------------

Next ==
    \/ \E n \in Names : CreateDevice(n) \/ CloseDevice(n)
    \/ \E v \in Vars :
         \/ Destroy(v)
         \/ \E h \in Homes : Dup(h, v)
         \/ \E w \in Vars : MoveConstruct(v, w) \/ MoveAssign(v, w)
    \/ \E h \in Homes :
         \/ \E up \in BOOLEAN : SetLinkState(h, up)
         \/ \E mtu \in Mtus : SetLinkMtu(h, mtu)

Spec == Init /\ [][Next]_vars

-----------------------------------------------------------------------------
(* Properties. *)

Handles ==
    [fd : {-1} \cup 1 .. MaxFiles, ifIndex : {-1} \cup 1 .. MaxLinks, name : Names \cup {NoName}]

\* Handles, files and links have their types; every open file is attached.
TypeOK ==
    /\ DOMAIN devices \subseteq Names
    /\ DOMAIN locals \subseteq Vars
    /\ \A h \in Homes : Handle(h) \in Handles
    /\ DOMAIN files \subseteq 1 .. MaxFiles
    /\ DOMAIN links \subseteq 1 .. MaxLinks
    /\ Range(files) \subseteq DOMAIN links
    /\ Range(links) \subseteq [name : Names, up : BOOLEAN, mtu : Mtus]
    /\ created \in 0 .. MaxLinks
    /\ assigned \in BOOLEAN

\* Two handles never own the same descriptor, through any sequence of dup(),
\* moves, assignments and closes: none is closed twice, and none closes a
\* descriptor the kernel has since given to another.
SoleOwner ==
    \A g, h \in Homes :
        g # h /\ Handle(g).fd >= 0 => Handle(g).fd # Handle(h).fd

\* A handle's descriptor is open and attached to the link of its name.
HandleNamesLink ==
    \A h \in Homes :
        LET o == Handle(h)
        IN  o.fd >= 0 => o.fd \in DOMAIN files /\ links[files[o.fd]].name = o.name

\* Every open tun file belongs to a handle, so that a device is deleted once
\* its handles are destroyed (include/host/TunDevice.hpp).
NoLeak == \A fd \in DOMAIN files : \E h \in Homes : Handle(h).fd = fd

\* The reference createDevice returned stays valid until closeDevice: another
\* createDevice never replaces the handle in the map.
ReferencesStay ==
    [][\A n \in DOMAIN devices \cap DOMAIN devices' : devices'[n] = devices[n]]_vars

\* setLinkState and setLinkMtu, when they return, have changed the link that
\* the handle they were given is open on: their documented postcondition.
AdminActsOnHandle ==
    admin.fd \in DOMAIN files => links[files[admin.fd]][admin.field] = admin.value

\* The same in a program that has not move-assigned a handle, through any
\* sequence of dup(), move construction, closing and creating again.
AdminActsUnlessAssigned == ~assigned => AdminActsOnHandle

=============================================================================
