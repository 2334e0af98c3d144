------------------------------ MODULE TunnelPath ------------------------------
(***************************************************************************)
(* The path of a packet between the tun devices of two hosts: TunDevice    *)
(* (src/net/TunDevice.cpp), Tunnel with its data channel                   *)
(* (src/net/Tunnel.cpp, src/net/Tunnel.UnreliableChannel.cpp) and a pair   *)
(* of sessions, of which only the promise is used: SessionStream, which    *)
(* CryptoSession implements.                                               *)
(*                                                                         *)
(* The code as it stands carries nothing.  The constructor of Tunnel uses  *)
(* its parameter tun after moving it away, and connects no one's read      *)
(* signal to propagate().  Repairs names which of the two are mended; the  *)
(* properties are about the rest of the code, and take it that a session   *)
(* moved into a tunnel and a device's watcher work.                        *)
(***************************************************************************)
EXTENDS Packet

CONSTANTS
    Hosts,          \* two of them, with a tunnel between
    Payloads,       \* what a device may read: sequences of bytes
    SizeMod,        \* number of values of a size_t: 2^64 in the code
    Ordered,        \* does the link below the sessions keep order?
    Repairs,        \* the empty set is the repository as it stands
    ReadMayFail,    \* may read() of the device fail?
    MaxReads        \* bound: packets each device reads

ASSUME HostsAssumption == \E a, b \in Hosts : a # b /\ Hosts = {a, b}
ASSUME SizeModAssumption == SizeMod \in Nat /\ SizeMod > 1
ASSUME PayloadsAssumption == \A p \in Payloads : p \in Seq(0 .. 255) /\ Len(p) + 1 < SizeMod
ASSUME FlagsAssumption == Ordered \in BOOLEAN /\ ReadMayFail \in BOOLEAN
ASSUME RepairsAssumption == Repairs \subseteq {"tun", "propagate"}
ASSUME MaxReadsAssumption == MaxReads \in Nat

VARIABLES
    phase, sent, got, asked,  \* the sessions: see SessionStream
    tunnel,                   \* each host's Tunnel: none, up, gone; or how its program died
    reads,                    \* history: events of the device
    taken,                    \* history: payloads the session accepted
    toDevice,                 \* history: packets written to the device, with their
                              \* position in the peer's sent
    rejected,                 \* history: did propagate() throw?
    failed                    \* history: did read() fail?

sessionVars == <<phase, sent, got, asked>>
tunnelVars == <<tunnel, reads, taken, toDevice, rejected, failed>>
vars == <<sessionVars, tunnelVars>>

DataChannelId == 0

\* The session as its users see it.
Link == INSTANCE SessionStream
    WITH Ends <- Hosts, Packets <- {<<DataChannelId>> \o p : p \in Payloads}

Peer(h) == Link!Peer(h)

Init ==
    /\ Link!StreamInit
    /\ tunnel = [h \in Hosts |-> "none"]
    /\ reads = [h \in Hosts |-> 0]
    /\ taken = [h \in Hosts |-> <<>>]
    /\ toDevice = [h \in Hosts |-> <<>>]
    /\ rejected = [h \in Hosts |-> FALSE]
    /\ failed = [h \in Hosts |-> FALSE]

Alive(h) == tunnel[h] \in {"none", "up"}

-----------------------------------------------------------------------------
(* Lifetime. *)

\* The constructor, given a session in whatever state.
Construct(h) ==
    /\ tunnel[h] = "none"
    /\ tunnel' = [tunnel EXCEPT ![h] = IF "tun" \in Repairs THEN "up" ELSE "crashed"]
    /\ UNCHANGED <<sessionVars, reads, taken, toDevice, rejected, failed>>

\* Mutant: close() of a session that is not Open throws.
ThrowsUnlessOpen(h) == phase[h] # "open"

\* CryptoSession::close() throws.
CloseThrows(h) == phase[h] \in {"fresh", "closed", "aborted"}

\* The destructor closes the session; what close() throws ends the program.
Destroy(h) ==
    /\ tunnel[h] = "up"
    /\ \/ /\ CloseThrows(h)
          /\ tunnel' = [tunnel EXCEPT ![h] = "terminated"]
          /\ UNCHANGED sessionVars
       \/ /\ ~CloseThrows(h)
          /\ tunnel' = [tunnel EXCEPT ![h] = "gone"]
          /\ Link!Close(h)
    /\ UNCHANGED <<reads, taken, toDevice, rejected, failed>>

\* What happens below: handshakes, the peer's close, failures.  Only the
\* owner of a session that has no tunnel yet can call open().
SessionStep(h) ==
    /\ Alive(h)
    /\ \/ Link!Begin(h) /\ tunnel[h] = "none"
       \/ Link!Establish(h)
       \/ Link!Reshake(h)
       \/ Link!HearClose(h)
       \/ Link!Fail(h)
    /\ UNCHANGED tunnelVars

-----------------------------------------------------------------------------
(* From the device to the session. *)

\* Mutant: the header is not counted.
PayloadSize(header, p) == p.length

\* Stream::write adds up the lengths of the parts in a size_t.
GatherSize(header, p) == (header.length + p.length) % SizeMod

\* Mutant: the parts in the wrong order.
Reversed(header, p) == Bytes(p) \o Bytes(header)

\* Stream::write copies the parts one after the other.
GatherBytes(header, p) == Bytes(header) \o Bytes(p)

\* UnreliablePacketHeader
Header == MakePacket(<<DataChannelId>>, 0, 1)

\* tunRead and UnreliableChannel::writePacket with the packet a device read:
\* copying past the end of the buffer ends the program.  The packet is lost if
\* the session is not open, or is and its write() returns false or throws.
TunRead(h, p) ==
    \/ /\ GatherSize(Header, p) < Header.length + p.length
       /\ tunnel' = [tunnel EXCEPT ![h] = "crashed"]
       /\ UNCHANGED <<sessionVars, taken>>
    \/ /\ GatherSize(Header, p) = Header.length + p.length
       /\ Link!Write(h, GatherBytes(Header, p))
       /\ taken' = [taken EXCEPT ![h] = Append(@, Bytes(p))]
       /\ UNCHANGED tunnel
    \/ /\ GatherSize(Header, p) = Header.length + p.length
       /\ UNCHANGED <<sessionVars, tunnel, taken>>

Watch(h) ==
    /\ tunnel[h] = "up"
    /\ reads[h] < MaxReads
    /\ reads' = [reads EXCEPT ![h] = @ + 1]
    /\ UNCHANGED <<toDevice, rejected>>

\* TunDevice::watcherEvent
WatcherEvent(h, payload) ==
    /\ Watch(h)
    /\ TunRead(h, MakePacket(payload, 0, Len(payload)))
    /\ UNCHANGED failed

\* watcherEvent when read() returns -1, which becomes a size_t.
WatcherEventFailing(h) ==
    /\ ReadMayFail
    /\ Watch(h)
    /\ TunRead(h, MakePacket(<<>>, 0, SizeMod - 1))
    /\ failed' = [failed EXCEPT ![h] = TRUE]

-----------------------------------------------------------------------------
(* From the session to the device. *)

\* getChannel finds the data channel and throws for any other.
IsDataChannel(byte) == byte = DataChannelId

\* Mutant: the header is skipped in one place more.
SkipThrice(p) == Skip(Skip(Skip(p, 1), 1), 1)

\* propagate() skips the byte it has looked at, and readPacket of the channel
\* skips a header that begins with the same byte.
Payload(p) == Skip(Skip(p, 1), 1)

\* Is propagate() called with what the session reads?
Listens(h) == tunnel[h] = "up" /\ "propagate" \in Repairs

\* The session hands on the packet at position i of what the peer sent:
\* propagate, UnreliableChannel::readPacket, dataRead and TunDevice::write.
Arrive(h, i) ==
    LET bytes == sent[Peer(h)][i]
        p == MakePacket(bytes, 0, Len(bytes))
    IN  /\ Alive(h)
        /\ Link!Deliver(h, i)
        /\ \/ /\ ~Listens(h)
              /\ UNCHANGED <<toDevice, rejected>>
           \/ /\ Listens(h)
              /\ p.length > 0 /\ IsDataChannel(Bytes(p)[1])
              /\ toDevice' = [toDevice EXCEPT ![h] = Append(@, [at |-> i, bytes |-> Bytes(Payload(p))])]
              /\ UNCHANGED rejected
           \/ /\ Listens(h)
              /\ ~(p.length > 0 /\ IsDataChannel(Bytes(p)[1]))
              /\ rejected' = [rejected EXCEPT ![h] = TRUE]
              /\ UNCHANGED toDevice
        /\ UNCHANGED <<tunnel, reads, taken, failed>>

Next ==
    \E h \in Hosts :
        \/ Construct(h)
        \/ Destroy(h)
        \/ SessionStep(h)
        \/ \E payload \in Payloads : WatcherEvent(h, payload)
        \/ WatcherEventFailing(h)
        \/ \E i \in Link!Arriving(h) : Arrive(h, i)

Spec == Init /\ [][Next]_vars

-----------------------------------------------------------------------------
(* Properties. *)

\* A device is written what the peer's device read, packet by packet and in
\* order, less its first byte, which the path takes for a second header.  No
\* packet is joined to another, cut elsewhere or taken from another place.
DeviceGetsPayload ==
    \A h \in Hosts : \A k \in 1 .. Len(toDevice[h]) :
        LET e == toDevice[h][k]
        IN  /\ e.bytes = SubSeq(taken[Peer(h)][e.at], 2, Len(taken[Peer(h)][e.at]))
            /\ Ordered /\ k > 1 => e.at = toDevice[h][k - 1].at + 1

\* Between two hosts that run this code propagate() never throws: no packet is
\* too short, none is of a channel that getChannel does not know.
NeverRejects == \A h \in Hosts : ~rejected[h]

\* The destructor of a tunnel ends the program only if its session was never
\* opened, has failed, or was closed by the peer, whose tunnel was destroyed
\* first: of two tunnels that are up, the first one to go always goes cleanly.
TerminatedByPeer ==
    \A h \in Hosts :
        tunnel[h] = "terminated" =>
            phase[h] \in {"fresh", "aborted"} \/ tunnel[Peer(h)] = "gone"

\* Gathering overruns its buffer only for the length that a failed read()
\* leaves: for every other, up to the largest, the sum of the parts fits.
CrashedByRead == \A h \in Hosts : tunnel[h] = "crashed" => failed[h]

=============================================================================
