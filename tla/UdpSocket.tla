------------------------------ MODULE UdpSocket ------------------------------
(***************************************************************************)
(* A UdpSocket and the UdpLinks it keeps in std::map<SocketAddress,        *)
(* unique_ptr<UdpLink>>, in a program that creates and destroys the        *)
(* socket, connects it to peers and closes links.                          *)
(*                                                                         *)
(* The map orders addresses by SocketAddress::operator<, which is true of  *)
(* any two different addresses.  That is undefined for std::map; here is   *)
(* what libstdc++ makes of it.  A search compares with the root, goes      *)
(* right when the root is "less" and finds nothing there, since insertion  *)
(* found the new key "less" too and put it on the left.  So the tree is a  *)
(* root and one left child; the next insertion overwrites the child, whose *)
(* node is lost.  The tree's pointer to its leftmost node, which is then   *)
(* stale, is not modelled.  It matters only in programs that have connected*)
(* again to a peer they held a link of: a later erase of the only node is  *)
(* corrupt here, and in libstdc++ takes the node out of a broken tree.     *)
(***************************************************************************)
EXTENDS Integers, Tables

CONSTANTS
    Peers,       \* addresses of the socket's family
    MaxLinks,    \* bound: how many links are constructed
    MaxFiles,    \* the process's limit of open files
    Unreachable  \* peers that ::connect fails for

ASSUME BoundsAssumption == MaxLinks \in Nat /\ MaxFiles \in Nat
ASSUME UnreachableAssumption == Unreachable \subseteq Peers

VARIABLES
    fd,          \* UdpSocket::fd, or NoFd when there is no socket
    root, left,  \* UdpSocket::peers: the links in the two nodes of the tree
    links,       \* links the map owns: id -> [peer, state, fd]
    created,     \* links constructed so far
    held,        \* ids of the links that connect() returned references to
    files,       \* kernel: open descriptor -> "socket", or the peer of a connect()
    corrupt,     \* whether a link was destroyed twice
    again,       \* history: the program connected to a peer it held a link of
    event        \* history: the datagram the last step read or wrote, if it did

vars == <<fd, root, left, links, created, held, files, corrupt, again, event>>

NoFd == -1
None == 0
Nothing == [x \in {} |-> x]
NoDatagram == [read |-> FALSE, wrote |-> FALSE]

Init ==
    /\ fd = NoFd
    /\ root = None
    /\ left = None
    /\ links = Nothing
    /\ created = 0
    /\ held = {}
    /\ files = Nothing
    /\ corrupt = FALSE
    /\ again = FALSE
    /\ event = NoDatagram

FreeFds == (1 .. MaxFiles) \ DOMAIN files

Running == fd # NoFd /\ ~corrupt

-----------------------------------------------------------------------------
(* The map. *)

\* Mutant: memcmp over the address family only.
LessByFamily(a, b) == FALSE

\* operator<: the result of memcmp, as a bool.
Less(a, b) == a # b

\* count(), at() and the search of operator[]; left never has the root's key.
Lookup(p) ==
    IF root # None /\ ~Less(links[root].peer, p) THEN root ELSE None

-----------------------------------------------------------------------------

\* create(): bind() may fail, and the descriptor is closed then.
Create ==
    /\ fd = NoFd /\ ~corrupt
    /\ FreeFds # {}
    /\ \/ /\ fd' = Min(FreeFds)
          /\ files' = With(files, fd', "socket")
       \/ UNCHANGED <<fd, files>>
    /\ event' = NoDatagram
    /\ UNCHANGED <<root, left, links, created, held, corrupt, again>>

\* ~UdpSocket(): the links are destroyed with the map moved away, so that none
\* finds itself in removeLink().  The descriptor stays open.
Destroy ==
    /\ Running
    /\ fd' = NoFd
    /\ root' = None
    /\ left' = None
    /\ links' = Nothing
    /\ held' = {}
    /\ event' = NoDatagram
    /\ UNCHANGED <<created, files, corrupt, again>>

\* Mutant: the link is given the descriptor of its socket.
LinkOnSocket(p, f) == [peer |-> p, state |-> "Open", fd |-> fd]

\* UdpLink(*this, f, p)
NewLink(p, f) == [peer |-> p, state |-> "Open", fd |-> f]

\* operator[] inserts: the new link n to p becomes the root or the left child.
Insert(n, p, f) ==
    LET new == NewLink(p, f)
    IN  /\ root' = IF root = None THEN n ELSE root
        /\ left' = IF root = None THEN None ELSE n
        /\ links' = With(Restrict(links, {root} \cap DOMAIN links), n, new)
        /\ UNCHANGED corrupt

\* Mutant: the erased node stays in the tree.
ReplaceInPlace ==
    /\ corrupt' = (left = None)
    /\ links' = Restrict(links, {left} \cap DOMAIN links)
    /\ UNCHANGED <<root, left>>

\* Assigning over the root destroys the old link, whose removeLink() erases the
\* node that now holds the new one and so destroys that too.  Erasing the only
\* node is clear(), which finds the node still linked and destroys it again.
Replace ==
    /\ corrupt' = (left = None)
    /\ root' = left
    /\ left' = None
    /\ links' = Restrict(links, {left} \cap DOMAIN links)

\* The descriptors after connect() closed f, which it opened for p.
ClosedAgain(f, p) == files

\* The link n that peers.at(p) finds after the assignment, which it returns.
Returned(n, p) == IF root' = n THEN {n} ELSE {}

\* connect(): a failing ::connect throws and leaves the new descriptor open.
\* Otherwise it is closed before the link is constructed with its number.
Connect(p) ==
    LET f == Min(FreeFds)
        n == created + 1
    IN  /\ Running
        /\ FreeFds # {}
        /\ again' = (again \/ \E l \in held \cap DOMAIN links : links[l].peer = p)
        /\ \/ /\ p \in Unreachable
              /\ files' = With(files, f, p)
              /\ UNCHANGED <<root, left, links, created, held, corrupt>>
           \/ /\ p \notin Unreachable
              /\ n <= MaxLinks
              /\ created' = n
              /\ IF Lookup(p) = None THEN Insert(n, p, f) ELSE Replace
              /\ held' = held \cup Returned(n, p)
              /\ files' = ClosedAgain(f, p)
        /\ event' = NoDatagram
        /\ UNCHANGED fd

\* Mutant: a closed link hands packets on.
HandsOnAlways(l) == l # None

\* Mutant: the test of propagate() the wrong way round.
HandsOnClosed(l) == l # None /\ links[l].state = "Closed"

\* UdpLink::propagate() drops the packet when the link is closed.
HandsOn(l) == l # None /\ links[l].state # "Closed"

\* onPacketArrived() for a datagram from p.
PacketArrived(p) ==
    /\ Running
    /\ event' = [read |-> TRUE, wrote |-> FALSE, from |-> p, to |-> IF HandsOn(Lookup(p)) THEN Lookup(p) ELSE None]
    /\ UNCHANGED <<fd, root, left, links, created, held, files, corrupt, again>>

\* UdpLink::write(), of an open or a closed link: sendto() with whatever file
\* now has the number of the descriptor that connect() closed.
Write(l) ==
    /\ Running
    /\ l \in held \cap DOMAIN links
    /\ LET f == links[l].fd
       IN  event' = [read |-> FALSE, wrote |-> TRUE,
                     via |-> IF f \in DOMAIN files THEN files[f] ELSE "nothing"]
    /\ UNCHANGED <<fd, root, left, links, created, held, files, corrupt, again>>

\* UdpLink::close().
Close(l) ==
    /\ Running
    /\ l \in held \cap DOMAIN links
    /\ links' = [links EXCEPT ![l].state = "Closed"]
    /\ event' = NoDatagram
    /\ UNCHANGED <<fd, root, left, created, held, files, corrupt, again>>

Next ==
    \/ Create
    \/ Destroy
    \/ \E p \in Peers : Connect(p) \/ PacketArrived(p)
    \/ \E l \in held : Write(l) \/ Close(l)

Spec == Init /\ [][Next]_vars

-----------------------------------------------------------------------------
(* Properties. *)

\* The map's nodes, links, descriptors and the program's references have their
\* types, and every node's link is one the map owns.
TypeOK ==
    /\ fd \in {NoFd} \cup 1 .. MaxFiles
    /\ DOMAIN links \subseteq 1 .. MaxLinks
    /\ Range(links) \subseteq [peer : Peers, state : {"Open", "Closed"}, fd : 1 .. MaxFiles]
    /\ {root, left} \subseteq {None} \cup DOMAIN links
    /\ created \in 0 .. MaxLinks
    /\ held \subseteq 1 .. MaxLinks
    /\ DOMAIN files \subseteq 1 .. MaxFiles
    /\ Range(files) \subseteq {"socket"} \cup Peers
    /\ {corrupt, again} \subseteq BOOLEAN

\* Whatever the order of addresses does to the map, and whatever links were
\* destroyed, replaced or lost on the way, onPacketArrived() hands a datagram
\* to no link but one of its sender, and to none that was closed.
HandedToSender ==
    event.read /\ event.to # None =>
        /\ event.to \in DOMAIN links
        /\ links[event.to].peer = event.from
        /\ links[event.to].state = "Open"

\* A program that has not connected to a peer it already had a link of keeps
\* every link connect() returned to it: none is destroyed by the removeLink()
\* of another while the socket exists, and none is destroyed twice.
HeldIsLive == ~again => ~corrupt /\ held \subseteq DOMAIN links

\* In such a program a datagram is handed to the link connect() returned for
\* its sender, if that is open, however many more peers were tried in between.
HeldHears ==
    event.read /\ ~again =>
        \A l \in held :
            links[l].peer = event.from /\ links[l].state = "Open" => event.to = l

\* A link never sends through its socket, nor through the socket of another
\* link: its write() throws, unless the number of its descriptor was taken by
\* a socket that a failing connect() left behind, through which it then sends.
\* (Of the files this socket opens; others of the program are not modelled.)
SendsByStray == event.wrote => event.via \in {"nothing"} \cup Unreachable

\* A key in peers is found by count() and at(), as it is under a less-than
\* order, which operator< of SocketAddress is documented to be.
KeysAreFound ==
    \A l \in {root, left} \ {None} : Lookup(links[l].peer) = l

=============================================================================
