---------------------------- MODULE UdpSocketProofs ----------------------------
(***************************************************************************)
(* Proofs about UdpSocket for any peers and any number of links and of     *)
(* descriptors.                                                            *)
(***************************************************************************)
EXTENDS UdpSocket, OperatorProofs

\* All links there can be.
Links == [peer : Peers, state : {"Open", "Closed"}, fd : 1 .. MaxFiles]

\* TypeOK, with the tables as functions and the ids of links never used twice.
Types ==
    /\ fd \in {NoFd} \cup 1 .. MaxFiles
    /\ IsTable(links, Links) /\ DOMAIN links \subseteq 1 .. created
    /\ {root, left} \subseteq {None} \cup DOMAIN links
    /\ created \in 0 .. MaxLinks
    /\ held \subseteq 1 .. created
    /\ IsTable(files, {"socket"} \cup Peers) /\ DOMAIN files \subseteq 1 .. MaxFiles

\* The flags are Booleans.
Flags == corrupt \in BOOLEAN /\ again \in BOOLEAN

\* A program that has not connected to a peer it had a link of holds the
\* tree's root and nothing else: every other link was lost in the left child.
HoldsRoot == ~again => ~corrupt /\ held = {root} \ {None}

\* The links are gone with their socket, and the number of a link's descriptor
\* is free or that of a socket left behind.
Strays ==
    /\ fd = NoFd => DOMAIN links = {}
    /\ \A l \in DOMAIN links :
          links[l].fd \in DOMAIN files => files[links[l].fd] \in Unreachable

\* What the last step read and wrote.
Events == HandedToSender /\ HeldHears /\ SendsByStray

\* The inductive invariant.
IInv == Types /\ Flags /\ HoldsRoot /\ Strays /\ Events

-----------------------------------------------------------------------------

\* The descriptor that the kernel gives out.
LEMMA FreeFd ==
    ASSUME Types, FreeFds # {}
    PROVE  Min(FreeFds) \in 1 .. MaxFiles /\ Min(FreeFds) \notin DOMAIN files
<1>1. FreeFds \in SUBSET Nat
  BY BoundsAssumption DEF FreeFds
<1>2. Min(FreeFds) \in FreeFds
  BY <1>1, MinIsLeast
<1> QED
  BY <1>2 DEF FreeFds

\* No datagram was read or written.
LEMMA NoEvent ==
    ASSUME event' = NoDatagram
    PROVE  Events'
<1>1. ~event'.read /\ ~event'.wrote
  BY DEF NoDatagram
<1> QED
  BY <1>1 DEF Events, HandedToSender, HeldHears, SendsByStray

\* A program without a socket satisfies it.
LEMMA IInvInit == Init => IInv
<1> SUFFICES ASSUME Init PROVE IInv
  OBVIOUS
<1>0. 0 \in 0 .. MaxLinks
  BY BoundsAssumption
<1>1. DOMAIN Nothing = {} /\ \A S : IsTable(Nothing, S)
  BY DEF Nothing, IsTable
<1>2. Types
  BY <1>0, <1>1 DEF Init, Types
<1>3. Flags
  BY DEF Init, Flags
<1>4. HoldsRoot
  BY DEF Init, HoldsRoot
<1>5. Strays
  BY <1>1 DEF Init, Strays
<1>6. Events
  <2>1. ~event.read /\ ~event.wrote
    BY DEF Init, NoDatagram
  <2> QED
    BY <2>1 DEF Events, HandedToSender, HeldHears, SendsByStray
<1> QED
  BY <1>2, <1>3, <1>4, <1>5, <1>6 DEF IInv

\* create()
LEMMA CreateStep ==
    ASSUME IInv, Create
    PROVE  IInv'
<1> USE DEF IInv
<1>0. /\ fd = NoFd /\ FreeFds # {}
      /\ root' = root /\ left' = left /\ links' = links /\ created' = created /\ held' = held
      /\ corrupt' = corrupt /\ again' = again
  BY DEF Create
<1>1. Events'
  BY NoEvent DEF Create
<1>2. Types'
  <2>1. CASE fd' = Min(FreeFds) /\ files' = With(files, fd', "socket")
    <3>1. fd' \in 1 .. MaxFiles /\ fd' \notin DOMAIN files
      BY <1>0, <2>1, FreeFd
    <3>2. IsTable(files', {"socket"} \cup Peers) /\ DOMAIN files' = DOMAIN files \cup {fd'}
      BY <2>1, WithEntry DEF Types
    <3> QED
      BY <1>0, <3>1, <3>2 DEF Types
  <2>2. CASE UNCHANGED <<fd, files>>
    BY <1>0, <2>2 DEF Types
  <2> QED
    BY <2>1, <2>2 DEF Create
<1>3. Flags' /\ HoldsRoot'
  BY <1>0 DEF Flags, HoldsRoot
<1>4. Strays'
  BY <1>0 DEF Strays
<1> QED
  BY <1>1, <1>2, <1>3, <1>4

\* ~UdpSocket()
LEMMA DestroyStep ==
    ASSUME IInv, Destroy
    PROVE  IInv'
<1> USE DEF IInv
<1>0. /\ fd' = NoFd /\ root' = None /\ left' = None /\ links' = Nothing /\ held' = {}
      /\ created' = created /\ files' = files /\ corrupt' = corrupt /\ again' = again
  BY DEF Destroy
<1>1. DOMAIN Nothing = {} /\ \A S : IsTable(Nothing, S)
  BY DEF Nothing, IsTable
<1>2. Events'
  BY NoEvent DEF Destroy
<1>3. Types'
  BY <1>0, <1>1 DEF Types
<1>4. Flags' /\ HoldsRoot'
  BY <1>0 DEF Flags, HoldsRoot
<1>5. Strays'
  BY <1>0, <1>1 DEF Strays
<1> QED
  BY <1>2, <1>3, <1>4, <1>5

\* connect() for a peer that ::connect fails for.
LEMMA UnreachableStep ==
    ASSUME IInv, NEW p \in Unreachable, FreeFds # {}, Running,
           files' = With(files, Min(FreeFds), p),
           UNCHANGED <<fd, root, left, links, created, held, corrupt>>,
           event' = NoDatagram,
           again' = (again \/ \E l \in held \cap DOMAIN links : links[l].peer = p)
    PROVE  IInv'
<1> USE DEF IInv
<1> DEFINE f == Min(FreeFds)
<1>0. f \in 1 .. MaxFiles /\ f \notin DOMAIN files
  BY FreeFd
<1>1. p \in Peers
  BY UnreachableAssumption
<1> HIDE DEF f
<1>2. /\ IsTable(files', {"socket"} \cup Peers) /\ DOMAIN files' = DOMAIN files \cup {f}
      /\ files'[f] = p /\ \A z \in DOMAIN files : z # f => files'[z] = files[z]
  <2>1. files' = With(files, f, p) /\ IsTable(files, {"socket"} \cup Peers) /\ p \in {"socket"} \cup Peers
    BY <1>1 DEF f, Types
  <2>2. IsTable(files', {"socket"} \cup Peers)
    BY <2>1 DEF With, IsTable
  <2>3. /\ DOMAIN files' = DOMAIN files \cup {f}
        /\ files'[f] = p /\ \A z \in DOMAIN files : z # f => files'[z] = files[z]
    BY <2>1 DEF With, IsTable
  <2> QED
    BY <2>2, <2>3
<1>3. Types'
  BY <1>0, <1>2 DEF Types
<1>4. Flags' /\ HoldsRoot'
  BY DEF Flags, HoldsRoot
<1>5. Strays'
  BY <1>2 DEF Strays
<1>6. Events'
  BY NoEvent
<1> QED
  BY <1>3, <1>4, <1>5, <1>6

\* connect() for a peer that the map has no link of.
LEMMA InsertStep ==
    ASSUME IInv, NEW p \in Peers, FreeFds # {}, Running, Lookup(p) = None,
           created + 1 <= MaxLinks, created' = created + 1,
           Insert(created + 1, p, Min(FreeFds)),
           held' = held \cup Returned(created + 1, p),
           files' = ClosedAgain(Min(FreeFds), p),
           fd' = fd, event' = NoDatagram,
           again' = (again \/ \E l \in held \cap DOMAIN links : links[l].peer = p)
    PROVE  IInv'
<1> USE DEF IInv
<1> DEFINE f == Min(FreeFds)
           n == created + 1
           kept == Restrict(links, {root} \cap DOMAIN links)
<1>0. f \in 1 .. MaxFiles /\ f \notin DOMAIN files /\ files' = files
  BY FreeFd DEF ClosedAgain
<1>1. created \in Nat /\ n \in 1 .. n /\ n \notin 1 .. created /\ n \in 0 .. MaxLinks /\ 1 .. created \subseteq 1 .. n /\ n # None
  BY BoundsAssumption DEF Types, None
<1>2. /\ DOMAIN kept = {root} \cap DOMAIN links
      /\ \A z \in {root} \cap DOMAIN links : kept[z] = links[z]
      /\ IsTable(kept, Links)
  <2>1. {root} \cap DOMAIN links \subseteq DOMAIN links
    OBVIOUS
  <2> QED
    BY <2>1, RestrictEntry DEF Types
<1>3. /\ root' = IF root = None THEN n ELSE root
      /\ left' = IF root = None THEN None ELSE n
      /\ links' = With(kept, n, NewLink(p, f))
      /\ corrupt' = corrupt
  BY DEF Insert
<1>4. NewLink(p, f) \in Links /\ NewLink(p, f).fd = f /\ NewLink(p, f).peer = p
  BY <1>0 DEF NewLink, Links
<1> HIDE DEF f, n, kept
<1>5. /\ DOMAIN links' = ({root} \cap DOMAIN links) \cup {n}
      /\ links'[n] = NewLink(p, f)
      /\ \A z \in {root} \cap DOMAIN links : z # n => links'[z] = links[z]
      /\ IsTable(links', Links)
  <2>1. /\ DOMAIN links' = (DOMAIN kept) \cup {n}
        /\ links'[n] = NewLink(p, f)
        /\ \A z \in DOMAIN kept : z # n => links'[z] = kept[z]
    BY <1>3 DEF With
  <2>2. IsTable(links', Links)
    BY <1>2, <1>3, <1>4, WithEntry
  <2> QED
    BY <1>2, <2>1, <2>2
<1>6. held' = held \cup (IF root' = n THEN {n} ELSE {})
  BY DEF Returned, n
<1>7. created' = n
  BY DEF n
<1>8. root # n
  BY <1>1 DEF Types
<1>9. Types'
  <2>1. DOMAIN links' \subseteq 1 .. n /\ {root', left'} \subseteq {None} \cup DOMAIN links'
    BY <1>1, <1>3, <1>5 DEF Types
  <2>2. held' \subseteq 1 .. n
    BY <1>1, <1>6 DEF Types
  <2> QED
    BY <1>0, <1>1, <1>5, <1>7, <2>1, <2>2 DEF Types
<1>10. Flags' /\ HoldsRoot'
  <2>1. Flags'
    BY <1>3 DEF Flags
  <2>2. ~again' => ~again
    OBVIOUS
  <2>3. ~again => held' = {root'} \ {None}
    BY <1>1, <1>3, <1>6, <1>8 DEF HoldsRoot
  <2> QED
    BY <1>3, <2>1, <2>2, <2>3 DEF HoldsRoot
<1>11. Strays'
  <2>1. fd' # NoFd
    BY DEF Running
  <2>2. \A l \in DOMAIN links' : links'[l].fd \in DOMAIN files => files[links'[l].fd] \in Unreachable
    BY <1>0, <1>4, <1>5 DEF Strays
  <2> QED
    BY <1>0, <2>1, <2>2 DEF Strays
<1>12. Events'
  BY NoEvent
<1> QED
  BY <1>9, <1>10, <1>11, <1>12

\* connect() for a peer that the map has a link of.
LEMMA ReplaceStep ==
    ASSUME IInv, NEW p \in Peers, FreeFds # {}, Running, Lookup(p) # None,
           created + 1 <= MaxLinks, created' = created + 1,
           Replace,
           held' = held \cup Returned(created + 1, p),
           files' = ClosedAgain(Min(FreeFds), p),
           fd' = fd, event' = NoDatagram,
           again' = (again \/ \E l \in held \cap DOMAIN links : links[l].peer = p)
    PROVE  IInv'
<1> USE DEF IInv
<1> DEFINE n == created + 1
           kept == Restrict(links, {left} \cap DOMAIN links)
<1>1. created \in Nat /\ n \in 1 .. n /\ n \notin 1 .. created /\ n \in 0 .. MaxLinks /\ 1 .. created \subseteq 1 .. n /\ n # None
  BY BoundsAssumption DEF Types, None
<1>2. /\ DOMAIN kept = {left} \cap DOMAIN links
      /\ \A z \in {left} \cap DOMAIN links : kept[z] = links[z]
      /\ IsTable(kept, Links)
  <2>1. {left} \cap DOMAIN links \subseteq DOMAIN links
    OBVIOUS
  <2> QED
    BY <2>1, RestrictEntry DEF Types
<1>3. root' = left /\ left' = None /\ links' = kept
  BY DEF Replace
<1>4. corrupt' \in BOOLEAN
  BY Zenon DEF Replace
<1>5. files' = files /\ created' = n
  BY DEF ClosedAgain
<1> HIDE DEF n, kept
<1>6. held' \subseteq held \cup {n}
  BY DEF Returned, n
<1>7. Types'
  <2>1. DOMAIN links' \subseteq 1 .. n /\ {root', left'} \subseteq {None} \cup DOMAIN links'
    BY <1>1, <1>2, <1>3 DEF Types
  <2>2. held' \subseteq 1 .. n
    BY <1>1, <1>6 DEF Types
  <2> QED
    BY <1>1, <1>2, <1>3, <1>5, <2>1, <2>2 DEF Types
<1>8. again'
  <2>1. root # None /\ links[root].peer = p /\ root \in DOMAIN links
    BY DEF Lookup, Less, Types
  <2>2. CASE again
    BY <2>2
  <2>3. CASE ~again
    BY <2>1, <2>3 DEF HoldsRoot
  <2> QED
    BY <2>2, <2>3
<1>9. Flags' /\ HoldsRoot'
  BY <1>4, <1>8 DEF Flags, HoldsRoot
<1>10. Strays'
  <2>1. fd' # NoFd
    BY DEF Running
  <2> QED
    BY <1>2, <1>3, <1>5, <2>1 DEF Strays
<1>11. Events'
  BY NoEvent
<1> QED
  BY <1>7, <1>9, <1>10, <1>11

\* connect()
LEMMA ConnectStep ==
    ASSUME IInv, NEW p \in Peers, Connect(p)
    PROVE  IInv'
<1>1. CASE p \in Unreachable
  BY <1>1, UnreachableStep DEF Connect
<1>2. CASE p \notin Unreachable /\ Lookup(p) = None
  BY <1>2, InsertStep DEF Connect
<1>3. CASE p \notin Unreachable /\ Lookup(p) # None
  BY <1>3, ReplaceStep DEF Connect
<1> QED
  BY <1>1, <1>2, <1>3

\* onPacketArrived()
LEMMA PacketArrivedStep ==
    ASSUME IInv, NEW p \in Peers, PacketArrived(p)
    PROVE  IInv'
<1> USE DEF IInv
<1> DEFINE to == IF HandsOn(Lookup(p)) THEN Lookup(p) ELSE None
<1>0. UNCHANGED <<fd, root, left, links, created, held, files, corrupt, again>>
  BY DEF PacketArrived
<1>1. Types' /\ HoldsRoot' /\ Strays'
  BY <1>0 DEF Types, HoldsRoot, Strays
<1>2. Flags'
  BY <1>0 DEF Flags
<1>3. event'.from = p /\ event'.to = to /\ event' = [read |-> TRUE, wrote |-> FALSE, from |-> p, to |-> to]
  BY DEF PacketArrived
<1>4. ~event'.wrote
  BY <1>3
<1> HIDE DEF to
<1>5. HandedToSender'
  <2>1. to # None => to = root /\ root # None /\ links[root].peer = p /\ links[root].state # "Closed"
    BY DEF to, HandsOn, Lookup, Less
  <2>2. to # None => to \in DOMAIN links /\ links[to].peer = p /\ links[to].state = "Open"
    BY <2>1 DEF Types, IsTable, Links
  <2> QED
    BY <1>0, <1>3, <2>2 DEF HandedToSender
<1>6. HeldHears'
  <2>1. ASSUME ~again, NEW l \in held, links[l].peer = p, links[l].state = "Open"
        PROVE  to = l
    <3>1. l = root /\ root # None
      BY <2>1 DEF HoldsRoot
    <3> QED
      BY <2>1, <3>1 DEF to, HandsOn, Lookup, Less
  <2> QED
    BY <1>0, <1>3, <2>1 DEF HeldHears
<1>7. SendsByStray'
  BY <1>4 DEF SendsByStray
<1> QED
  BY <1>1, <1>2, <1>5, <1>6, <1>7 DEF Events

\* UdpLink::write()
LEMMA WriteStep ==
    ASSUME IInv, NEW l, Write(l)
    PROVE  IInv'
<1> USE DEF IInv
<1> DEFINE f == links[l].fd
           via == IF f \in DOMAIN files THEN files[f] ELSE "nothing"
<1>0. UNCHANGED <<fd, root, left, links, created, held, files, corrupt, again>> /\ l \in DOMAIN links
  BY DEF Write
<1>1. Types' /\ HoldsRoot' /\ Strays'
  BY <1>0 DEF Types, HoldsRoot, Strays
<1>2. Flags'
  BY <1>0 DEF Flags
<1>3. event' = [read |-> FALSE, wrote |-> TRUE, via |-> via]
  BY DEF Write
<1>4. ~event'.read /\ event'.via = via
  BY <1>3
<1>5. via \in {"nothing"} \cup Unreachable
  BY <1>0 DEF Strays
<1> QED
  BY <1>1, <1>2, <1>4, <1>5 DEF Events, HandedToSender, HeldHears, SendsByStray

\* UdpLink::close()
LEMMA CloseStep ==
    ASSUME IInv, NEW l, Close(l)
    PROVE  IInv'
<1> USE DEF IInv
<1>0. /\ UNCHANGED <<fd, root, left, created, held, files, corrupt, again>> /\ l \in DOMAIN links
      /\ links' = [links EXCEPT ![l].state = "Closed"]
  BY DEF Close
<1>1. /\ IsTable(links', Links) /\ DOMAIN links' = DOMAIN links
      /\ \A z \in DOMAIN links : links'[z].fd = links[z].fd
  BY <1>0 DEF Types, IsTable, Links
<1>2. Types'
  BY <1>0, <1>1 DEF Types
<1>3. HoldsRoot' /\ Flags'
  BY <1>0 DEF HoldsRoot, Flags
<1>4. Strays'
  BY <1>0, <1>1 DEF Strays
<1>5. Events'
  BY NoEvent DEF Close
<1> QED
  BY <1>2, <1>3, <1>4, <1>5

\* Every operation of the socket and of its links keeps the invariant.
LEMMA IInvNext == IInv /\ [Next]_vars => IInv'
<1> SUFFICES ASSUME IInv, [Next]_vars PROVE IInv'
  OBVIOUS
<1>1. CASE UNCHANGED vars
  <2>1. /\ fd' = fd /\ root' = root /\ left' = left /\ links' = links /\ created' = created
        /\ held' = held /\ files' = files /\ corrupt' = corrupt /\ again' = again /\ event' = event
    BY <1>1 DEF vars
  <2> QED
    BY <2>1 DEF IInv, Types, Flags, HoldsRoot, Strays, Events, HandedToSender, HeldHears, SendsByStray
<1> QED
  BY <1>1, CreateStep, DestroyStep, ConnectStep, PacketArrivedStep, WriteStep, CloseStep DEF Next

\* Every behaviour of the socket keeps the invariant.
LEMMA Invariant == Spec => []IInv
  BY IInvInit, IInvNext, PTL DEF Spec

-----------------------------------------------------------------------------

\* The socket, its map, its links and its descriptors keep their types.
THEOREM TypeCorrect == Spec => []TypeOK
<1>1. ASSUME IInv PROVE TypeOK
  <2>1. DOMAIN links \subseteq 1 .. MaxLinks /\ held \subseteq 1 .. MaxLinks
    BY <1>1, BoundsAssumption DEF IInv, Types
  <2>2. /\ Range(links) \subseteq [peer : Peers, state : {"Open", "Closed"}, fd : 1 .. MaxFiles]
        /\ Range(files) \subseteq {"socket"} \cup Peers
    BY <1>1 DEF IInv, Types, IsTable, Links, Range
  <2> QED
    BY <1>1, <2>1, <2>2 DEF IInv, Types, Flags, TypeOK
<1> QED
  BY <1>1, Invariant, PTL

\* onPacketArrived() hands a datagram to no link but an open one of its
\* sender, whatever the address order does to the map.
THEOREM OnlyToSender == Spec => []HandedToSender
<1>1. IInv => HandedToSender
  BY DEF IInv, Events
<1> QED
  BY <1>1, Invariant, PTL

\* A program that connects to no peer twice keeps every link that connect()
\* returned to it for as long as the socket exists.
THEOREM ReferencesLive == Spec => []HeldIsLive
<1>1. IInv => HeldIsLive
  BY DEF IInv, HoldsRoot, Types, HeldIsLive
<1> QED
  BY <1>1, Invariant, PTL

\* In such a program an open link that connect() returned gets every datagram
\* of its peer.
THEOREM ReferencesHear == Spec => []HeldHears
<1>1. IInv => HeldHears
  BY DEF IInv, Events
<1> QED
  BY <1>1, Invariant, PTL

\* write() of a link sends through no socket but one that a failing connect()
\* left behind.
THEOREM OnlyByStray == Spec => []SendsByStray
<1>1. IInv => SendsByStray
  BY DEF IInv, Events
<1> QED
  BY <1>1, Invariant, PTL

=============================================================================
