----------------------------- MODULE PacketBuffers -----------------------------
(***************************************************************************)
(* Who owns the memory of packets on their way through a peer: the blocks  *)
(* that handlers allocate, the Packets that share them, the Packets that   *)
(* outlive a handler (currentPacket of a CryptoSession, inFlightPacket of  *)
(* a ReliableChannel) and the raw pointers that own a block as well.       *)
(*                                                                         *)
(* Handlers nest: a datagram arrives, gnutls decrypts it and handleData    *)
(* propagates the data, whose reader writes it to another session, which   *)
(* has gnutls push records into a link.  Each runs in a frame.  A handler  *)
(* that throws leaves its frame like one that returns.                     *)
(***************************************************************************)
EXTENDS Packet, FiniteSets

CONSTANTS
    Blocks,   \* bound: the memory
    Sizes,    \* lengths of what arrives
    Keepers   \* handlers that wrap a pointer they do not give up.  The code has
              \* handleData (a unique_ptr) and vec_push (gnutls' own memory)

ASSUME BlocksAssumption == IsFiniteSet(Blocks)
ASSUME SizesAssumption == Sizes \subseteq Nat
ASSUME KeepersAssumption == Keepers \subseteq {"handleData", "vec_push"}

VARIABLES
    live,     \* blocks allocated
    size,     \* their sizes
    frames,   \* handlers running, innermost last: the Packet each hands on, the
              \* Packets it holds besides and the blocks it will free itself
    kept,     \* currentPacket and inFlightPacket
    twice     \* was a block freed that was not allocated?

vars == <<live, size, frames, kept, twice>>

Nothing == [data |-> "nothing", offset |-> 0, length |-> 0, captures |-> FALSE]
Slots == {"currentPacket", "inFlightPacket"}

Frame(handler, packet, held, own) ==
    [handler |-> handler, packet |-> packet, held |-> held, own |-> own]

Init ==
    /\ live = {}
    /\ size = [b \in Blocks |-> 0]
    /\ frames = <<>>
    /\ kept = [s \in Slots |-> Nothing]
    /\ twice = FALSE

Top == frames[Len(frames)]
Running == IF frames = <<>> THEN "event loop" ELSE Top.handler

-----------------------------------------------------------------------------
(* shared_ptr. *)

\* All packets there are.
PacketsOf(fs, ks) ==
    ({fs[i].packet : i \in 1 .. Len(fs)} \cup (UNION {fs[i].held : i \in 1 .. Len(fs)})
        \cup {ks[s] : s \in Slots}) \ {Nothing}

\* Blocks that the packets share.
Captured(fs, ks) == {p.data : p \in {q \in PacketsOf(fs, ks) : q.captures}}

\* The packets become those of fs and ks.  ArrayDelete frees the blocks that
\* were shared and no longer are; after that own is freed.
Release(fs, ks, own) ==
    LET dropped == Captured(frames, kept) \ Captured(fs, ks)
    IN  /\ frames' = fs
        /\ kept' = ks
        /\ live' = live \ (dropped \cup own)
        /\ size' = [b \in Blocks |-> IF b \in dropped \cup own THEN 0 ELSE size[b]]
        /\ twice' = (twice \/ ~(dropped \cup own \subseteq live) \/ dropped \cap own # {})

\* A handler allocates b and runs with a packet of n bytes on it.
Enter(handler, b, n, packet, held, own) ==
    /\ b \in Blocks \ live
    /\ live' = live \cup {b}
    /\ size' = [size EXCEPT ![b] = n]
    /\ frames' = Append(frames, Frame(handler, packet, held, own))
    /\ UNCHANGED <<kept, twice>>

-----------------------------------------------------------------------------
(* The handlers that make packets. *)

\* Mutant: get() in place of release().
Unreleased(b) == {b}

\* What a unique_ptr still owns after release().
Released(b) == {}

\* UdpSocket::onPacketArrived with a datagram of a peer it knows (one of a
\* stranger is allocated and freed at once) and TunDevice::watcherEvent when
\* read() succeeds (TunnelPath has the other case).
Receive(handler, b, n) ==
    /\ Running = "event loop"
    /\ Enter(handler, b, n, MakePacket(b, 0, n), {}, Released(b))

\* handleData, called while a datagram is being read.
HandleData(b, n) ==
    /\ Running = "onPacketArrived"
    /\ kept["currentPacket"] = Nothing
    /\ n > 0
    /\ Enter("handleData", b, n, MakePacket(b, 0, n), {},
             IF "handleData" \in Keepers THEN {b} ELSE {})

\* gnutls sends a record, in a handshake or in the write() of a session.  push
\* copies it; vec_push wraps gnutls' memory, which gnutls frees.
SendsRecord == Running \in {"onPacketArrived", "send"}

\* Mutant: push() wraps its copy in a Packet that does not own it.
Borrowed(b, n) == NoCapture(MakePacket(b, 0, n))

\* The Packet that push() makes of its copy.
Wrapped(b, n) == MakePacket(b, 0, n)

Push(b, n) ==
    /\ SendsRecord
    /\ Enter("push", b, n, Wrapped(b, n), {}, {})

VecPush(b, n) ==
    /\ SendsRecord
    /\ LET p == MakePacket(b, 0, n)
       IN  Enter("vec_push", b, n, IF "vec_push" \in Keepers THEN p ELSE NoCapture(p), {}, {b})

\* Stream::write of several packets copies them into one.  Its array of parts
\* holds p, and a header that is not captured, until it returns.
Gather(handler, b, header, p) ==
    Enter(handler, b, header + p.length, MakePacket(b, 0, header + p.length), {p}, {})

HeaderSize == 1

\* A channel writes the packet it was given, or the one in flight, behind its
\* header; the next stream is a session.
ChannelWrite(b, p) ==
    /\ \/ Running \in {"watcherEvent", "handleData"} /\ p = Top.packet
       \/ Running = "event loop" /\ p = kept["inFlightPacket"]
    /\ p # Nothing
    /\ Gather("send", b, HeaderSize, p)

\* vec_push writes the parts it was given; the next stream is a link.
PushGathered(b) ==
    /\ Running = "vec_push"
    /\ Gather("gather", b, 0, Top.packet)

-----------------------------------------------------------------------------
(* What is done with a packet. *)

\* A reader of the session's data hands on a narrower window, as
\* Tunnel::propagate and readPacket of a channel do with packet.skip().
Narrow(p) ==
    /\ Running = "handleData"
    /\ frames' = [frames EXCEPT ![Len(frames)].packet = p,
                                ![Len(frames)].held = @ \cup {Top.packet}]
    /\ UNCHANGED <<live, size, kept, twice>>

\* Mutant: the packet kept does not share the block.
KeepUnshared(p) == NoCapture(p)

\* new Packet(packet)
Copied(p) == p

\* CryptoSession::readPacket; the packet it kept before is dropped.
ReadPacket ==
    /\ Running = "onPacketArrived"
    /\ Release(frames, [kept EXCEPT !["currentPacket"] = Copied(Top.packet)], {})

\* ReliableChannel::writePacket, of a packet from a device or a session.
WritePacket ==
    /\ Running \in {"watcherEvent", "handleData"}
    /\ kept["inFlightPacket"] = Nothing
    /\ Release(frames, [kept EXCEPT !["inFlightPacket"] = Copied(Top.packet)], {})

\* CryptoSession::pull copies currentPacket out; readPacket of an
\* acknowledgement drops inFlightPacket.
Drop(s) ==
    /\ Running \in (IF s = "currentPacket" THEN {"event loop", "onPacketArrived"} ELSE {"handleData"})
    /\ kept[s] # Nothing
    /\ Release(frames, [kept EXCEPT ![s] = Nothing], {})

\* A handler returns: its packets go first, then what it still owns itself, the
\* block of handleData's unique_ptr or, after vec_push, the one that gnutls frees.
Return ==
    /\ frames # <<>>
    /\ Release(SubSeq(frames, 1, Len(frames) - 1), kept, Top.own)

Next ==
    \/ \E b \in Blocks, n \in Sizes :
          \/ Receive("onPacketArrived", b, n)
          \/ Receive("watcherEvent", b, n)
          \/ HandleData(b, n)
          \/ Push(b, n)
          \/ VecPush(b, n)
    \/ \E b \in Blocks : \E p \in PacketsOf(frames, kept) : ChannelWrite(b, p)
    \/ \E b \in Blocks : PushGathered(b)
    \/ \E n \in Sizes : frames # <<>> /\ (Narrow(Skip(Top.packet, n)) \/ Narrow(Truncate(Top.packet, n)))
    \/ ReadPacket
    \/ WritePacket
    \/ \E s \in Slots : Drop(s)
    \/ Return

Spec == Init /\ [][Next]_vars

-----------------------------------------------------------------------------
(* Properties. *)

\* No packet reaches outside its block, whatever skip(), truncate() and the
\* gathering write() made of it, and none outlives its block: not the copy
\* that readPacket or writePacket keeps after the handler has returned.
PacketsInMemory ==
    \A p \in PacketsOf(frames, kept) : p.data \in live /\ p.offset + p.length <= size[p.data]

\* Every block that is allocated has a packet that will delete it or a
\* handler that will free it: nobody but its Packet frees the copy that push()
\* makes of a record, or a buffer that was released from its unique_ptr.
NoLeak ==
    live \subseteq Captured(frames, kept) \cup UNION {frames[i].own : i \in 1 .. Len(frames)}

\* A block has one owner: "When all Packet instances referencing data are
\* destroyed, data is delete[]ed" (Packet.hpp), and by nobody else.
FreedOnce == ~twice

=============================================================================
