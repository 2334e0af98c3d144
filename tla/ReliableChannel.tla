--------------------------- MODULE ReliableChannel ---------------------------
(***************************************************************************)
(* Tunnel::ReliableChannel (src/net/Tunnel.ReliableChannel.cpp): a         *)
(* stop-and-wait channel that numbers its packets with a uint32_t, keeps   *)
(* one packet in flight, retransmits it from a one-shot libev timer and    *)
(* acknowledges every data packet it reads.                                *)
(*                                                                         *)
(* Two ends of a channel are composed with the datagram service below      *)
(* them, which loses, duplicates and reorders packets.  A payload is named *)
(* by its position in the order in which writePacket accepted it.          *)
(***************************************************************************)
EXTENDS Integers, Sequences

CONSTANTS
    Peers,        \* the two ends of the channel
    SeqMod,       \* number of sequence numbers: 2^32 in the code
    MaxPackets,   \* bound: how many packets each end accepts
    MaxConfirms,  \* bound: how many acknowledgements each end takes (numbers wrap,
                  \* so old acknowledgements could match again and again)
    NextMayThrow, \* whether next.write() may throw (a session that is not Open does)
    OwnerTransmits \* whether the owner of a channel gets a stored packet transmitted:
                  \* FALSE is the repository as it stands, where transmitQueue is
                  \* private and only onTimeout calls it

ASSUME PeersAssumption == \E a, b \in Peers : a # b /\ Peers = {a, b}
ASSUME SeqModAssumption == SeqMod \in Nat /\ SeqMod > 1
ASSUME MaxPacketsAssumption == MaxPackets \in [Peers -> Nat]
ASSUME MaxConfirmsAssumption == MaxConfirms \in Nat
ASSUME NextMayThrowAssumption == NextMayThrow \in BOOLEAN
ASSUME OwnerTransmitsAssumption == OwnerTransmits \in BOOLEAN

VARIABLES
    localSeq,   \* number of the packet in flight, or of the next one
    peerSeq,    \* highest number delivered from the peer
    inFlight,   \* inFlightPacket: a payload or NoPacket
    timer,      \* is the libev timer `timeout' active?
    net,        \* datagrams written to `next' and not yet gone
    written,    \* history: payloads accepted by writePacket
    confirmed,  \* history: canSend signals raised
    delivered,  \* history: payloads handed to the receive signal
    started,    \* history: was transmitQueue called for the packet in flight?
    threw       \* history: did next.write() throw out of transmitQueue?

vars == <<localSeq, peerSeq, inFlight, timer, net,
          written, confirmed, delivered, started, threw>>

NoPacket == 0

Other(e) == CHOOSE p \in Peers : p # e

SeqNumbers == 0 .. SeqMod - 1
Packets == [type : {"data"}, to : Peers, seq : SeqNumbers, payload : Nat]
Acks == [type : {"ack"}, to : Peers, seq : SeqNumbers]

Init ==
    /\ localSeq = [e \in Peers |-> 0]
    /\ peerSeq = [e \in Peers |-> 0]
    /\ inFlight = [e \in Peers |-> NoPacket]
    /\ timer = [e \in Peers |-> FALSE]
    /\ net = {}
    /\ written = [e \in Peers |-> 0]
    /\ confirmed = [e \in Peers |-> 0]
    /\ delivered = [e \in Peers |-> <<>>]
    /\ started = [e \in Peers |-> FALSE]
    /\ threw = [e \in Peers |-> FALSE]

-----------------------------------------------------------------------------
(* Sending. *)

\* Mutant: writePacket without its test of inFlightPacket.
AlwaysAccept(e) == e \in Peers

\* A second packet is refused while one is in flight.
CanAccept(e) == inFlight[e] = NoPacket

\* writePacket stores the packet; it neither transmits it nor starts the timer.
WritePacket(e) ==
    /\ written[e] < MaxPackets[e]
    /\ CanAccept(e)
    /\ written' = [written EXCEPT ![e] = @ + 1]
    /\ inFlight' = [inFlight EXCEPT ![e] = written[e] + 1]
    /\ started' = [started EXCEPT ![e] = FALSE]
    /\ UNCHANGED <<localSeq, peerSeq, timer, net, confirmed, delivered, threw>>

\* transmitPacket: the datagrams transmitQueue writes, the packet in flight if any.
Queue(e) ==
    {[type |-> "data", to |-> Other(e), seq |-> localSeq[e], payload |-> p] :
        p \in {inFlight[e]} \ {NoPacket}}

\* Mutant: the one-shot timer is not started again.
TransmitOnce(e, running) ==
    /\ net' = net \cup Queue(e)
    /\ timer' = [timer EXCEPT ![e] = running]
    /\ UNCHANGED threw

\* transmitQueue, entered with the timer running or not.  When next.write()
\* throws, the exception leaves before timeout.start().
TransmitQueue(e, running) ==
    \/ /\ net' = net \cup Queue(e)
       /\ timer' = [timer EXCEPT ![e] = running \/ Queue(e) # {}]
       /\ UNCHANGED threw
    \/ /\ NextMayThrow
       /\ Queue(e) # {}
       /\ timer' = [timer EXCEPT ![e] = running]
       /\ threw' = [threw EXCEPT ![e] = TRUE]
       /\ UNCHANGED net

\* The event loop fires the timer, which is one-shot: it is inactive when
\* onTimeout runs.
OnTimeout(e) ==
    /\ timer[e]
    /\ TransmitQueue(e, FALSE)
    /\ UNCHANGED <<localSeq, peerSeq, inFlight, written, confirmed, delivered, started>>

\* The first transmission of a stored packet: the call of transmitQueue that
\* writePacket lacks.  The code as it stands never takes this step.
StartTransmission(e) ==
    /\ OwnerTransmits
    /\ inFlight[e] # NoPacket
    /\ ~started[e]
    /\ TransmitQueue(e, timer[e])
    /\ started' = [started EXCEPT ![e] = TRUE]
    /\ UNCHANGED <<localSeq, peerSeq, inFlight, written, confirmed, delivered>>

-----------------------------------------------------------------------------
(* Receiving: the branches of readPacket.  Reading may leave a duplicate of *)
(* the datagram in the network.                                            *)

\* A datagram that is read is gone, or a copy of it is still to come.
Reading(m) == {net, net \ {m}}

\* Mutant: any acknowledgement confirms the packet in flight.
AnyAckMatches(e, m) == m.seq \in SeqNumbers

AckMatches(e, m) == m.seq = localSeq[e]

\* Mutant: a counter that does not wrap.
UnboundedSuccessor(s) == s + 1

\* localSeq++ on a uint32_t.
Successor(s) == (s + 1) % SeqMod

\* Mutant: timeout.stop() forgotten, so the timer of a confirmed packet runs on.
StillArmed(e) == [timer EXCEPT ![e] = @]

\* timeout.stop()
Disarmed(e) == [timer EXCEPT ![e] = FALSE]

ReadAck(e, m) ==
    /\ m.type = "ack"
    /\ AckMatches(e, m)
    /\ confirmed[e] < MaxConfirms
    /\ localSeq' = [localSeq EXCEPT ![e] = Successor(@)]
    /\ inFlight' = [inFlight EXCEPT ![e] = NoPacket]
    /\ timer' = Disarmed(e)
    /\ confirmed' = [confirmed EXCEPT ![e] = @ + 1]
    /\ net' \in Reading(m)
    /\ UNCHANGED <<peerSeq, written, delivered, started, threw>>

\* An acknowledgement of another number takes neither branch.
ReadStaleAck(e, m) ==
    /\ m.type = "ack"
    /\ ~AckMatches(e, m)
    /\ net' \in Reading(m)
    /\ UNCHANGED <<localSeq, peerSeq, inFlight, timer,
                   written, confirmed, delivered, started, threw>>

\* Mutant: peerSeq <= header.seq().
IsNewOrEqual(e, m) == peerSeq[e] <= m.seq

IsNew(e, m) == peerSeq[e] < m.seq

\* Mutant: only a packet that is delivered is acknowledged.
AckForNew(e, m) ==
    IF IsNew(e, m) THEN {[type |-> "ack", to |-> Other(e), seq |-> m.seq]} ELSE {}

\* The acknowledgement is written for old packets too.
AckFor(e, m) == {[type |-> "ack", to |-> Other(e), seq |-> m.seq]}

ReadData(e, m) ==
    /\ m.type = "data"
    /\ \/ /\ IsNew(e, m)
          /\ peerSeq' = [peerSeq EXCEPT ![e] = m.seq]
          /\ delivered' = [delivered EXCEPT ![e] = Append(@, m.payload)]
       \/ /\ ~IsNew(e, m)
          /\ UNCHANGED <<peerSeq, delivered>>
    /\ \E rest \in Reading(m) : net' = rest \cup AckFor(e, m)
    /\ UNCHANGED <<localSeq, inFlight, timer, written, confirmed, started, threw>>

ReadPacket(e, m) == ReadAck(e, m) \/ ReadStaleAck(e, m) \/ ReadData(e, m)

\* The datagram service drops a datagram; a next.write() that returns false,
\* whose result the channel ignores, is a datagram dropped at once.
Lose(m) ==
    /\ net' = net \ {m}
    /\ UNCHANGED <<localSeq, peerSeq, inFlight, timer,
                   written, confirmed, delivered, started, threw>>

-----------------------------------------------------------------------------

Next ==
    \/ \E e \in Peers : WritePacket(e) \/ StartTransmission(e) \/ OnTimeout(e)
    \/ \E m \in net : ReadPacket(m.to, m) \/ Lose(m)

Spec == Init /\ [][Next]_vars

\* A packet that is sent again for as long as it is in flight, and an
\* acknowledgement of it, are eventually read.
ReadsPacketInFlight(e) ==
    \E m \in net :
        m.to = e /\ m.type = "data" /\ m.payload = inFlight[Other(e)] /\ ReadData(e, m)

ReadsItsAck(e) == \E m \in net : m.to = e /\ ReadAck(e, m)

Fairness ==
    \A e \in Peers :
        /\ WF_vars(OnTimeout(e))
        /\ WF_vars(StartTransmission(e))
        /\ SF_vars(ReadsPacketInFlight(e))
        /\ SF_vars(ReadsItsAck(e))

FairSpec == Spec /\ Fairness

-----------------------------------------------------------------------------
(* Properties. *)

\* Every variable of ReliableChannel, and every datagram, has its type.
TypeOK ==
    /\ localSeq \in [Peers -> SeqNumbers]
    /\ peerSeq \in [Peers -> SeqNumbers]
    /\ inFlight \in [Peers -> Nat]
    /\ timer \in [Peers -> BOOLEAN]
    /\ net \subseteq Packets \cup Acks
    /\ written \in [Peers -> Nat]
    /\ confirmed \in [Peers -> Nat]
    /\ delivered \in [Peers -> Seq(Nat)]
    /\ started \in [Peers -> BOOLEAN]
    /\ threw \in [Peers -> BOOLEAN]

\* readPacket hands the receive signal the peer's packets 2, 3, 4, ... in
\* order, without a gap and each once, whatever the network loses, repeats or
\* reorders.  Packet 1, numbered 0, is acknowledged and never delivered
\* (peerSeq starts at 0 and the test is peerSeq < seq), and nothing follows
\* number SeqMod - 1.
DeliveredInOrder ==
    \A e \in Peers : delivered[e] = [i \in 1 .. peerSeq[e] |-> i + 1]

\* The canSend signal for packet n >= 2 of the first SeqMod packets is raised
\* only after the peer delivered packet n.
ConfirmedDelivered ==
    \A e \in Peers :
        \A n \in 2 .. SeqMod :
            confirmed[e] >= n => Len(delivered[Other(e)]) >= n - 1

\* Until the numbers wrap, at most one accepted packet is unconfirmed, and it
\* is the one in flight under the current number.
WindowOfOne ==
    \A e \in Peers :
        confirmed[e] < SeqMod =>
            /\ localSeq[e] = confirmed[e]
            /\ IF inFlight[e] = NoPacket
               THEN written[e] = confirmed[e]
               ELSE inFlight[e] = written[e] /\ written[e] = confirmed[e] + 1

\* A packet is on the wire or under a running timer only if the owner started
\* its transmission: writePacket alone never sends anything, and an
\* acknowledgement disarms the timer before the next packet is stored.
OnlyStartedOnWire ==
    \A e \in Peers :
        (inFlight[e] # NoPacket /\ ~started[e]) =>
            /\ ~timer[e]
            /\ \A m \in net : m.type = "data" /\ m.to # e => m.payload # inFlight[e]

\* Once started, the packet in flight keeps its retransmission timer until it
\* is acknowledged; the only way to lose the timer is a next.write() that
\* throws out of transmitQueue, after which nothing rearms it.
KeepsRetrying ==
    \A e \in Peers :
        inFlight[e] # NoPacket /\ started[e] => timer[e] \/ threw[e]

Promise == INSTANCE OrderedDelivery
    WITH First <- 2, Last <- SeqMod,
         sent <- written, got <- delivered, acked <- confirmed

\* The channel implements OrderedDelivery for the packets 2 .. SeqMod: each
\* step of writePacket, readPacket, the timer and the network is a step of
\* that specification or changes nothing its users see.
ImplementsPromise == Promise!AbsSpec

\* Every accepted packet is eventually confirmed, over a network that loses,
\* repeats and reorders but lets a packet through when it is repeated for ever,
\* unless next.write() threw out of transmitQueue and with it the timer.
EventuallyConfirmed ==
    \A e \in Peers :
        \A n \in 1 .. MaxPackets[e] : written[e] >= n ~> confirmed[e] >= n \/ threw[e]

=============================================================================
