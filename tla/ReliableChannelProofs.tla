------------------------ MODULE ReliableChannelProofs ------------------------
(***************************************************************************)
(* Proofs about ReliableChannel for every number of sequence numbers and   *)
(* every bound.                                                            *)
(***************************************************************************)
EXTENDS ReliableChannel, TLAPS

\* The direction from sender s to receiver r.  Until the numbers of s wrap,
\* every datagram of s carries its payload's position less one, nothing runs
\* ahead of written[s], and r has delivered all that was acknowledged.  When
\* they wrap, r has reached the last number and delivers no more.
Direction(s, r) ==
    /\ confirmed[s] < SeqMod =>
        /\ localSeq[s] = confirmed[s]
        /\ inFlight[s] = NoPacket => written[s] = confirmed[s]
        /\ inFlight[s] # NoPacket => inFlight[s] = written[s] /\ written[s] = confirmed[s] + 1
        /\ \A m \in net :
             m.type = "data" /\ m.to = r => m.seq + 1 = m.payload /\ m.payload <= written[s]
        /\ \A m \in net :
             m.type = "ack" /\ m.to = s => m.seq <= peerSeq[r] /\ m.seq < written[s]
        /\ confirmed[s] <= peerSeq[r] + 1
        /\ peerSeq[r] = 0 \/ peerSeq[r] < written[s]
    /\ confirmed[s] >= SeqMod => peerSeq[r] = SeqMod - 1

\* Both directions.
DirectionsOK == \A s, r \in Peers : s # r => Direction(s, r)

\* The inductive invariant.
IInv == TypeOK /\ DirectionsOK /\ DeliveredInOrder

-----------------------------------------------------------------------------

\* Of two peers, each is the other's Other.
LEMMA OtherPeer ==
    ASSUME NEW e \in Peers
    PROVE  /\ Other(e) \in Peers
           /\ Other(e) # e
           /\ \A p \in Peers : p # e => p = Other(e)
  BY PeersAssumption DEF Other

\* Appending the next number to an initial run of the naturals from 2.
LEMMA AppendRun ==
    ASSUME NEW k \in Nat
    PROVE  Append([i \in 1 .. k |-> i + 1], k + 2) = [i \in 1 .. k + 1 |-> i + 1]
  OBVIOUS

\* Sequence numbers are the naturals below SeqMod.
LEMMA SeqNumberRange == SeqMod \in Nat /\ \A k \in SeqNumbers : k \in Nat /\ k < SeqMod
  BY SeqModAssumption DEF SeqNumbers

\* The counters of one end, as the arithmetic below needs them.
LEMMA Counters ==
    ASSUME TypeOK, NEW e \in Peers
    PROVE  /\ written[e] \in Nat /\ confirmed[e] \in Nat
           /\ peerSeq[e] \in Nat /\ peerSeq[e] < SeqMod /\ SeqMod \in Nat
  BY SeqNumberRange DEF TypeOK

\* Every step of ReliableChannel keeps its variables well typed: a sequence
\* number stays below SeqMod because localSeq++ wraps.
LEMMA TypeStep == TypeOK /\ [Next]_vars => TypeOK'
<1> SUFFICES ASSUME TypeOK, [Next]_vars
             PROVE  TypeOK'
  OBVIOUS
<1> USE DEF TypeOK
<1>1. ASSUME NEW e \in Peers, WritePacket(e)
      PROVE  TypeOK'
  BY <1>1 DEF WritePacket
<1>2. ASSUME NEW e \in Peers, NEW running \in BOOLEAN, TransmitQueue(e, running)
      PROVE  /\ net' \subseteq Packets \cup Acks
             /\ timer' \in [Peers -> BOOLEAN]
             /\ threw' \in [Peers -> BOOLEAN]
  <2>1. Queue(e) \subseteq Packets
    BY OtherPeer DEF Queue, Packets
  <2>2. QED
    BY <1>2, <2>1 DEF TransmitQueue
<1>3. ASSUME NEW e \in Peers, StartTransmission(e)
      PROVE  TypeOK'
  BY <1>2, <1>3 DEF StartTransmission
<1>4. ASSUME NEW e \in Peers, OnTimeout(e)
      PROVE  TypeOK'
  BY <1>2, <1>4 DEF OnTimeout
<1>5. ASSUME NEW m \in net, ReadAck(m.to, m)
      PROVE  TypeOK'
  <2>1. m.to \in Peers
    BY DEF Packets, Acks
  <2>2. \A s \in SeqNumbers : Successor(s) \in SeqNumbers
    BY SeqModAssumption DEF Successor, SeqNumbers
  <2>3. net' \subseteq net
    BY <1>5 DEF ReadAck, Reading
  <2>4. QED
    BY <1>5, <2>1, <2>2, <2>3 DEF ReadAck, Disarmed, NoPacket
<1>6. ASSUME NEW m \in net, ReadStaleAck(m.to, m)
      PROVE  TypeOK'
  BY <1>6 DEF ReadStaleAck, Reading
<1>7. ASSUME NEW m \in net, ReadData(m.to, m)
      PROVE  TypeOK'
  <2>1. m \in Packets
    BY <1>7 DEF ReadData, Packets, Acks
  <2>2. m.to \in Peers /\ m.seq \in SeqNumbers /\ m.payload \in Nat
    BY <2>1 DEF Packets
  <2>3. AckFor(m.to, m) \subseteq Acks
    BY <2>2, OtherPeer DEF AckFor, Acks
  <2>4. net' \subseteq Packets \cup Acks
    BY <1>7, <2>3 DEF ReadData, Reading
  <2>5. peerSeq' \in [Peers -> SeqNumbers]
    BY <1>7, <2>2 DEF ReadData
  <2>6. delivered' \in [Peers -> Seq(Nat)]
    <3>1. Append(delivered[m.to], m.payload) \in Seq(Nat)
      BY <2>2
    <3>2. QED
      BY <1>7, <2>2, <3>1 DEF ReadData
  <2>7. QED
    BY <1>7, <2>4, <2>5, <2>6 DEF ReadData
<1>8. ASSUME NEW m \in net, Lose(m)
      PROVE  TypeOK'
  BY <1>8 DEF Lose
<1>9. CASE UNCHANGED vars
  BY <1>9 DEF vars
<1>10. QED
  BY <1>1, <1>3, <1>4, <1>5, <1>6, <1>7, <1>8, <1>9 DEF Next, ReadPacket

\* Two new ends have their types.
LEMMA TypeInit == Init => TypeOK
  BY SeqModAssumption DEF Init, TypeOK, NoPacket, SeqNumbers

\* Sequence numbers, counters and datagrams stay within their types in every
\* execution of two channel ends.
THEOREM TypeCorrect == Spec => []TypeOK
  BY TypeInit, TypeStep, PTL DEF Spec

-----------------------------------------------------------------------------
(* The inductive invariant. *)

\* Two new ends satisfy the inductive invariant.
LEMMA IInvInit == Init => IInv
<1> SUFFICES ASSUME Init
             PROVE  IInv
  OBVIOUS
<1>1. DirectionsOK
  BY SeqModAssumption DEF Init, DirectionsOK, Direction, NoPacket
<1>2. DeliveredInOrder
  <2>1. <<>> = [i \in 1 .. 0 |-> i + 1]
    OBVIOUS
  <2>2. QED
    BY <2>1 DEF Init, DeliveredInOrder
<1>3. QED
  BY <1>1, <1>2, TypeInit DEF IInv

\* What a writer of the packets of s, transmitQueue, puts on the wire.
LEMMA TransmitDirections ==
    ASSUME IInv, NEW e \in Peers, NEW running \in BOOLEAN, TransmitQueue(e, running),
           UNCHANGED <<localSeq, peerSeq, inFlight, written, confirmed>>
    PROVE  DirectionsOK'
<1> SUFFICES ASSUME NEW s \in Peers, NEW r \in Peers, s # r
             PROVE  Direction(s, r)'
  BY DEF DirectionsOK
<1>1. Direction(s, r)
  BY DEF IInv, DirectionsOK
<1>2. r = Other(s)
  BY OtherPeer
<1>3. ASSUME confirmed[s] < SeqMod, NEW m \in Queue(e), m.to = r
      PROVE  m.type = "data" /\ m.seq + 1 = m.payload /\ m.payload <= written[s]
  <2>1. e = s
    BY <1>3, <1>2, OtherPeer DEF Queue
  <2>2. PICK p \in {inFlight[s]} \ {NoPacket} :
            m = [type |-> "data", to |-> Other(s), seq |-> localSeq[s], payload |-> p]
    BY <1>3, <2>1 DEF Queue
  <2>3. m.type = "data" /\ m.seq = localSeq[s] /\ m.payload = inFlight[s]
        /\ inFlight[s] # NoPacket
    BY <2>2
  <2>4. QED
    BY <1>1, <1>3, <2>3 DEF Direction, IInv, TypeOK
<1>4. \A m \in Queue(e) : m.type = "data"
  BY DEF Queue
<1>5. net' \subseteq net \cup Queue(e)
  BY DEF TransmitQueue
<1>6. QED
  BY <1>1, <1>3, <1>4, <1>5 DEF Direction

\* readPacket taking an acknowledgement: its number is the one in flight, so
\* the peer has delivered the packet, and the window moves by one.
LEMMA AckDirections ==
    ASSUME IInv, NEW m \in net, ReadAck(m.to, m)
    PROVE  DirectionsOK'
<1> SUFFICES ASSUME NEW s \in Peers, NEW r \in Peers, s # r
             PROVE  Direction(s, r)'
  BY DEF DirectionsOK
<1> USE SeqModAssumption
<1>1. Direction(s, r)
  BY DEF IInv, DirectionsOK
<1>2. net' \subseteq net /\ m.to \in Peers /\ m.seq \in SeqNumbers
  BY DEF ReadAck, Reading, IInv, TypeOK, Packets, Acks
<1>3. CASE m.to # s
  <2>1. /\ localSeq'[s] = localSeq[s] /\ confirmed'[s] = confirmed[s]
        /\ inFlight'[s] = inFlight[s] /\ written'[s] = written[s]
        /\ peerSeq'[r] = peerSeq[r]
    BY <1>2, <1>3 DEF ReadAck, IInv, TypeOK
  <2>2. QED
    BY <1>1, <1>2, <2>1 DEF Direction
<1>4. CASE m.to = s
  <2>1. /\ confirmed[s] \in Nat /\ written[s] \in Nat /\ peerSeq[r] \in Nat
        /\ peerSeq[r] < SeqMod /\ localSeq[s] \in Nat
    BY DEF IInv, TypeOK, SeqNumbers
  <2>2. /\ localSeq'[s] = Successor(localSeq[s]) /\ confirmed'[s] = confirmed[s] + 1
        /\ inFlight'[s] = NoPacket /\ written'[s] = written[s]
        /\ peerSeq'[r] = peerSeq[r]
    BY <1>2, <1>4 DEF ReadAck, IInv, TypeOK
  <2>3. CASE confirmed[s] >= SeqMod
    BY <1>1, <2>1, <2>2, <2>3 DEF Direction
  <2>4. CASE confirmed[s] < SeqMod
    <3>1. m.seq = confirmed[s] /\ m.seq <= peerSeq[r] /\ m.seq < written[s]
      BY <1>1, <1>4, <2>4 DEF ReadAck, AckMatches, Direction
    <3>2. written[s] = confirmed[s] + 1
      BY <1>1, <2>1, <2>4, <3>1 DEF Direction
    <3>3. CASE confirmed[s] + 1 = SeqMod
      BY <2>1, <2>2, <3>1, <3>3 DEF Direction
    <3>4. CASE confirmed[s] + 1 < SeqMod
      <4>1. localSeq'[s] = confirmed[s] + 1
        BY <1>1, <2>1, <2>2, <2>4, <3>4 DEF Direction, Successor
      <4>2. QED
        BY <1>1, <1>2, <2>1, <2>2, <2>4, <3>1, <3>2, <3>4, <4>1 DEF Direction
    <3>5. QED
      BY <2>1, <2>4, <3>3, <3>4
  <2>5. QED
    BY <2>1, <2>3, <2>4
<1>5. QED
  BY <1>3, <1>4

\* What readPacket knows of a data packet that is new to r: it is the next one,
\* and its payload is the next of the order in which s accepted packets.
LEMMA NewIsNext ==
    ASSUME IInv, NEW s \in Peers, NEW r \in Peers, s # r,
           NEW m \in net, m.type = "data", m.to = r, IsNew(r, m)
    PROVE  /\ confirmed[s] < SeqMod
           /\ m.seq = peerSeq[r] + 1
           /\ m.payload = peerSeq[r] + 2
           /\ m.seq < written[s]
<1>1. Direction(s, r)
  BY DEF IInv, DirectionsOK
<1>2. /\ m \in Packets /\ m.seq \in Nat /\ m.seq < SeqMod /\ m.payload \in Nat
      /\ confirmed[s] \in Nat /\ written[s] \in Nat
      /\ peerSeq[r] \in Nat /\ SeqMod \in Nat
  BY SeqModAssumption DEF IInv, TypeOK, SeqNumbers, Packets, Acks
<1>3. confirmed[s] < SeqMod
  BY <1>1, <1>2 DEF Direction, IsNew
<1>4. /\ m.seq + 1 = m.payload /\ m.payload <= written[s]
      /\ confirmed[s] <= peerSeq[r] + 1
      /\ written[s] <= confirmed[s] + 1
  BY <1>1, <1>2, <1>3 DEF Direction
<1>5. QED
  BY <1>2, <1>3, <1>4 DEF IsNew

\* readPacket taking data keeps both directions: the acknowledgement it writes
\* is of a number it has delivered.
LEMMA DataDirections ==
    ASSUME IInv, NEW m \in net, ReadData(m.to, m)
    PROVE  DirectionsOK'
<1> SUFFICES ASSUME NEW s \in Peers, NEW r \in Peers, s # r
             PROVE  Direction(s, r)'
  BY DEF DirectionsOK
<1> USE SeqModAssumption
<1>1. Direction(s, r)
  BY DEF IInv, DirectionsOK
<1>2. /\ m.to \in Peers /\ m.seq \in Nat /\ m.seq < SeqMod /\ m.payload \in Nat
      /\ confirmed[s] \in Nat /\ written[s] \in Nat
      /\ peerSeq[r] \in Nat /\ peerSeq[r] < SeqMod
  <2>1. m \in Packets
    BY DEF ReadData, IInv, TypeOK, Packets, Acks
  <2>2. m.to \in Peers /\ m.seq \in SeqNumbers /\ m.payload \in Nat
    BY <2>1 DEF Packets
  <2>3. QED
    BY <2>2, Counters, SeqNumberRange DEF IInv
<1>3. net' \subseteq net \cup AckFor(m.to, m)
  BY DEF ReadData, Reading
<1>4. /\ localSeq'[s] = localSeq[s] /\ confirmed'[s] = confirmed[s]
      /\ inFlight'[s] = inFlight[s] /\ written'[s] = written[s]
  BY DEF ReadData
<1>5. \A a \in AckFor(m.to, m) : a.type = "ack" /\ a.to = Other(m.to) /\ a.seq = m.seq
  BY DEF AckFor
<1>6. CASE m.to # r
  <2>1. m.to = s /\ \A a \in AckFor(m.to, m) : a.to = r
    BY <1>2, <1>5, <1>6, OtherPeer
  <2>2. peerSeq'[r] = peerSeq[r]
    BY <1>2, <1>6 DEF ReadData, IInv, TypeOK
  <2>3. QED
    BY <1>1, <1>3, <1>4, <1>5, <2>1, <2>2 DEF Direction
<1>7. CASE m.to = r
  <2>1. CASE IsNew(r, m)
    <3>1. /\ confirmed[s] < SeqMod /\ m.seq = peerSeq[r] + 1
          /\ m.seq < written[s]
      BY <1>7, <2>1, NewIsNext DEF ReadData
    <3>2. peerSeq'[r] = m.seq
      BY <1>7, <2>1 DEF ReadData, IInv, TypeOK
    <3>3. \A a \in net : a.type = "ack" /\ a.to = s => a.seq \in Nat
      BY DEF IInv, TypeOK, Packets, Acks, SeqNumbers
    <3>4. QED
      BY <1>1, <1>2, <1>3, <1>4, <1>5, <3>1, <3>2, <3>3 DEF Direction
  <2>2. CASE ~IsNew(r, m)
    <3>1. peerSeq'[r] = peerSeq[r]
      BY <1>7, <2>2 DEF ReadData
    <3>2. m.seq <= peerSeq[r]
      BY <1>2, <2>2 DEF IsNew
    <3>3. confirmed[s] < SeqMod => m.seq < written[s]
      BY <1>1, <1>2, <1>7 DEF Direction, ReadData
    <3>4. QED
      BY <1>1, <1>2, <1>3, <1>4, <1>5, <3>1, <3>2, <3>3 DEF Direction
  <2>3. QED
    BY <2>1, <2>2
<1>8. QED
  BY <1>6, <1>7

\* readPacket taking data extends what was delivered by exactly the next packet.
LEMMA DataInOrder ==
    ASSUME IInv, NEW m \in net, ReadData(m.to, m)
    PROVE  DeliveredInOrder'
<1> SUFFICES ASSUME NEW e \in Peers
             PROVE  (delivered[e] = [i \in 1 .. peerSeq[e] |-> i + 1])'
  BY DEF DeliveredInOrder
<1>1. m.to \in Peers /\ peerSeq[e] \in Nat
  BY DEF IInv, TypeOK, Packets, Acks, SeqNumbers
<1>2. delivered[e] = [i \in 1 .. peerSeq[e] |-> i + 1]
  BY DEF IInv, DeliveredInOrder
<1>3. CASE e = m.to /\ IsNew(e, m)
  <2>1. /\ peerSeq'[e] = m.seq
        /\ delivered'[e] = Append(delivered[e], m.payload)
    BY <1>1, <1>3 DEF ReadData, IInv, TypeOK
  <2>2. m.seq = peerSeq[e] + 1 /\ m.payload = peerSeq[e] + 2
    BY <1>3, NewIsNext, OtherPeer DEF ReadData
  <2>3. QED
    BY <1>1, <1>2, <2>1, <2>2, AppendRun
<1>4. CASE ~(e = m.to /\ IsNew(e, m))
  <2>1. peerSeq'[e] = peerSeq[e] /\ delivered'[e] = delivered[e]
    BY <1>1, <1>4 DEF ReadData, IInv, TypeOK
  <2>2. QED
    BY <1>2, <2>1
<1>5. QED
  BY <1>3, <1>4

\* Every step preserves the inductive invariant.
LEMMA IInvStep == IInv /\ [Next]_vars => IInv'
<1> SUFFICES ASSUME IInv, [Next]_vars
             PROVE  DirectionsOK' /\ DeliveredInOrder'
  BY TypeStep DEF IInv
<1>1. ASSUME NEW e \in Peers, WritePacket(e)
      PROVE  DirectionsOK' /\ DeliveredInOrder'
  <2> SUFFICES ASSUME NEW s \in Peers, NEW r \in Peers, s # r
               PROVE  Direction(s, r)'
    BY <1>1 DEF DirectionsOK, DeliveredInOrder, IInv, WritePacket
  <2>1. Direction(s, r)
    BY DEF IInv, DirectionsOK
  <2>2. CASE e = s
    <3>1. /\ inFlight[s] = NoPacket /\ inFlight'[s] = written[s] + 1
          /\ written'[s] = written[s] + 1 /\ written[s] \in Nat
      BY <1>1, <2>2 DEF WritePacket, CanAccept, IInv, TypeOK
    <3>2. \A m \in net : m.type = "data" /\ m.to = r => m.payload \in Nat
      BY DEF IInv, TypeOK, Packets, Acks
    <3>3. \A m \in net : m.type = "ack" /\ m.to = s => m.seq \in Nat
      BY DEF IInv, TypeOK, Packets, Acks, SeqNumbers
    <3>4. peerSeq[r] \in Nat
      BY DEF IInv, TypeOK, SeqNumbers
    <3>5. QED
      BY <1>1, <2>1, <3>1, <3>2, <3>3, <3>4 DEF WritePacket, Direction, NoPacket
  <2>3. CASE e # s
    <3>1. inFlight'[s] = inFlight[s] /\ written'[s] = written[s]
      BY <1>1, <2>3 DEF WritePacket, IInv, TypeOK
    <3>2. QED
      BY <1>1, <2>1, <3>1 DEF WritePacket, Direction
  <2>4. QED
    BY <2>2, <2>3
<1>2. ASSUME NEW e \in Peers, StartTransmission(e)
      PROVE  DirectionsOK' /\ DeliveredInOrder'
  <2>1. timer[e] \in BOOLEAN
    BY DEF IInv, TypeOK
  <2>2. DirectionsOK'
    BY <1>2, <2>1, TransmitDirections DEF StartTransmission
  <2>3. QED
    BY <1>2, <2>2 DEF StartTransmission, DeliveredInOrder, IInv
<1>3. ASSUME NEW e \in Peers, OnTimeout(e)
      PROVE  DirectionsOK' /\ DeliveredInOrder'
  <2>1. DirectionsOK'
    BY <1>3, TransmitDirections DEF OnTimeout
  <2>2. QED
    BY <1>3, <2>1 DEF OnTimeout, DeliveredInOrder, IInv
<1>4. ASSUME NEW m \in net, ReadAck(m.to, m)
      PROVE  DirectionsOK' /\ DeliveredInOrder'
  BY <1>4, AckDirections DEF ReadAck, DeliveredInOrder, IInv
<1>5. ASSUME NEW m \in net, ReadStaleAck(m.to, m) \/ Lose(m)
      PROVE  DirectionsOK' /\ DeliveredInOrder'
  <2>1. /\ net' \subseteq net
        /\ UNCHANGED <<localSeq, peerSeq, inFlight, written, confirmed, delivered>>
    BY <1>5 DEF ReadStaleAck, Reading, Lose
  <2>2. QED
    BY <2>1 DEF IInv, DirectionsOK, Direction, DeliveredInOrder
<1>6. ASSUME NEW m \in net, ReadData(m.to, m)
      PROVE  DirectionsOK' /\ DeliveredInOrder'
  BY <1>6, DataDirections, DataInOrder
<1>7. CASE UNCHANGED vars
  BY <1>7 DEF vars, IInv, DirectionsOK, Direction, DeliveredInOrder
<1>8. QED
  BY <1>1, <1>2, <1>3, <1>4, <1>5, <1>6, <1>7 DEF Next, ReadPacket

\* The inductive invariant always holds.
LEMMA IInvAlways == Spec => []IInv
  BY IInvInit, IInvStep, PTL DEF Spec

-----------------------------------------------------------------------------
(* What the invariant gives. *)

\* The receive signal of readPacket hands over the packets 2, 3, 4, ... of the
\* peer, in order and once each, for any number of sequence numbers.
THEOREM InOrder == Spec => []DeliveredInOrder
<1>1. IInv => DeliveredInOrder
  BY DEF IInv
<1>2. QED
  BY <1>1, IInvAlways, PTL

\* The length of what was delivered is the highest number delivered.
LEMMA DeliveredLength ==
    ASSUME IInv, NEW e \in Peers
    PROVE  Len(delivered[e]) = peerSeq[e]
  BY DEF IInv, TypeOK, DeliveredInOrder, SeqNumbers

\* The canSend signal for one of the first SeqMod packets, other than the very
\* first, comes after the peer's receive signal for it.
THEOREM ConfirmationSound == Spec => []ConfirmedDelivered
<1>1. IInv => ConfirmedDelivered
  <2> SUFFICES ASSUME IInv, NEW e \in Peers, NEW n \in 2 .. SeqMod, confirmed[e] >= n
               PROVE  Len(delivered[Other(e)]) >= n - 1
    BY DEF ConfirmedDelivered
  <2>1. Other(e) \in Peers /\ Other(e) # e
    BY OtherPeer
  <2>2. Direction(e, Other(e))
    BY <2>1 DEF IInv, DirectionsOK
  <2>3. confirmed[e] \in Nat /\ peerSeq[Other(e)] \in Nat /\ SeqMod \in Nat
    BY <2>1, SeqModAssumption DEF IInv, TypeOK, SeqNumbers
  <2>4. peerSeq[Other(e)] >= n - 1
    BY <2>2, <2>3 DEF Direction
  <2>5. QED
    BY <2>1, <2>4, DeliveredLength
<1>2. QED
  BY <1>1, IInvAlways, PTL

\* writePacket and readPacket keep at most one packet unconfirmed, sent under
\* the number localSeq, until the numbers wrap.
THEOREM Window == Spec => []WindowOfOne
<1>1. IInv => WindowOfOne
  BY OtherPeer DEF IInv, DirectionsOK, Direction, WindowOfOne
<1>2. QED
  BY <1>1, IInvAlways, PTL

\* Two channel ends implement OrderedDelivery for the packets 2 .. SeqMod.
THEOREM Implementation == Spec => ImplementsPromise
<1>1. Init => Promise!AbsInit
  BY DEF Init, Promise!AbsInit
<1>2. IInv /\ [Next]_vars => [Promise!AbsNext]_(Promise!absVars)
  <2> SUFFICES ASSUME IInv, [Next]_vars
               PROVE  Promise!AbsNext \/ UNCHANGED <<written, delivered, confirmed>>
    BY DEF Promise!absVars
  <2>1. ASSUME NEW e \in Peers, WritePacket(e)
        PROVE  Promise!AbsNext
    <3>1. confirmed[e] < SeqMod => written[e] = confirmed[e]
      BY <2>1, OtherPeer DEF WritePacket, CanAccept, IInv, DirectionsOK, Direction
    <3>2. Promise!Send(e)
      BY <2>1, <3>1 DEF WritePacket, Promise!Send
    <3>3. QED
      BY <3>2 DEF Promise!AbsNext
  <2>2. ASSUME NEW e \in Peers, StartTransmission(e) \/ OnTimeout(e)
        PROVE  UNCHANGED <<written, delivered, confirmed>>
    BY <2>2 DEF StartTransmission, OnTimeout
  <2>3. ASSUME NEW m \in net, ReadAck(m.to, m)
        PROVE  Promise!AbsNext
    <3> DEFINE s == m.to
               r == Other(m.to)
    <3>1. s \in Peers /\ m.seq \in SeqNumbers
      BY <2>3 DEF ReadAck, IInv, TypeOK, Packets, Acks
    <3>2. r \in Peers /\ r # s
      BY <3>1, OtherPeer
    <3>3. Direction(s, r)
      BY <3>1, <3>2 DEF IInv, DirectionsOK
    <3>4. /\ confirmed[s] \in Nat /\ written[s] \in Nat /\ peerSeq[r] \in Nat
          /\ SeqMod \in Nat /\ Len(delivered[r]) = peerSeq[r]
      BY <3>1, <3>2, Counters, DeliveredLength DEF IInv
    <3>5. ASSUME confirmed[s] < SeqMod
          PROVE  confirmed[s] <= peerSeq[r] /\ confirmed[s] < written[s]
      BY <2>3, <3>3, <3>5 DEF ReadAck, AckMatches, Direction
    <3>6. /\ confirmed' = [confirmed EXCEPT ![s] = confirmed[s] + 1]
          /\ UNCHANGED <<written, delivered>>
      BY <2>3 DEF ReadAck
    <3>7. Promise!Confirm(s, r)
      BY <3>4, <3>5, <3>6 DEF Promise!Confirm
    <3>8. QED
      BY <3>1, <3>2, <3>7 DEF Promise!AbsNext
  <2>4. ASSUME NEW m \in net, ReadStaleAck(m.to, m) \/ Lose(m)
        PROVE  UNCHANGED <<written, delivered, confirmed>>
    BY <2>4 DEF ReadStaleAck, Lose
  <2>5. ASSUME NEW m \in net, ReadData(m.to, m)
        PROVE  Promise!AbsNext \/ UNCHANGED <<written, delivered, confirmed>>
    <3> DEFINE r == m.to
               s == Other(m.to)
    <3>1. m \in Packets
      BY <2>5 DEF ReadData, IInv, TypeOK, Packets, Acks
    <3>2. r \in Peers /\ m.seq \in Nat /\ m.seq < SeqMod
      BY <3>1, SeqModAssumption DEF Packets, SeqNumbers
    <3>3. s \in Peers /\ s # r
      BY <3>2, OtherPeer
    <3>4. CASE IsNew(r, m)
      <4>1. /\ m.seq = peerSeq[r] + 1 /\ m.payload = peerSeq[r] + 2
            /\ m.seq < written[s]
        BY <2>5, <3>2, <3>3, <3>4, NewIsNext DEF ReadData
      <4>2. /\ written[s] \in Nat /\ peerSeq[r] \in Nat /\ SeqMod \in Nat
            /\ Len(delivered[r]) = peerSeq[r]
        BY <3>2, <3>3, Counters, DeliveredLength DEF IInv
      <4>3. /\ delivered' = [delivered EXCEPT ![r] = Append(delivered[r], m.payload)]
            /\ UNCHANGED <<written, confirmed>>
        BY <2>5, <3>4 DEF ReadData
      <4>4. Promise!Deliver(r, s)
        <5>1. 2 + Len(delivered[r]) = m.payload
          BY <4>1, <4>2
        <5>2. m.payload <= written[s] /\ m.payload <= SeqMod
          BY <3>2, <4>1, <4>2
        <5>3. QED
          BY <4>3, <5>1, <5>2 DEF Promise!Deliver
      <4>5. QED
        BY <3>2, <3>3, <4>4 DEF Promise!AbsNext
    <3>5. CASE ~IsNew(r, m)
      BY <2>5, <3>5 DEF ReadData
    <3>6. QED
      BY <3>4, <3>5
  <2>6. CASE UNCHANGED vars
    BY <2>6 DEF vars
  <2>7. QED
    BY <2>1, <2>2, <2>3, <2>4, <2>5, <2>6 DEF Next, ReadPacket
<1>3. QED
  BY <1>1, <1>2, IInvAlways, PTL DEF Spec, ImplementsPromise, Promise!AbsSpec

-----------------------------------------------------------------------------
(* The timer and what is on the wire. *)

\* KeepsRetrying is inductive: readPacket drops the packet together with its
\* timer, and transmitQueue starts the timer again unless next.write() throws.
LEMMA RetryStep == TypeOK /\ KeepsRetrying /\ [Next]_vars => KeepsRetrying'
<1> SUFFICES ASSUME TypeOK, KeepsRetrying, [Next]_vars, NEW e \in Peers,
                    inFlight'[e] # NoPacket, started'[e]
             PROVE  timer'[e] \/ threw'[e]
  BY DEF KeepsRetrying
<1>kept. inFlight[e] # NoPacket /\ started[e] => timer[e] \/ threw[e]
  BY DEF KeepsRetrying
<1>1. ASSUME NEW p \in Peers, NEW running \in BOOLEAN, TransmitQueue(p, running),
             UNCHANGED inFlight, p # e => started[e]
      PROVE  timer'[e] \/ threw'[e]
  <2>1. CASE p = e
    <3>1. Queue(e) # {}
      BY <1>1 DEF Queue
    <3>2. QED
      BY <1>1, <2>1, <3>1 DEF TransmitQueue, TypeOK
  <2>2. CASE p # e
    <3>1. timer'[e] = timer[e] /\ threw'[e] = threw[e]
      BY <1>1, <2>2 DEF TransmitQueue, TypeOK
    <3>2. QED
      BY <1>1, <2>2, <3>1, <1>kept
  <2>3. QED
    BY <2>1, <2>2
<1>2. ASSUME NEW p \in Peers, WritePacket(p)
      PROVE  timer'[e] \/ threw'[e]
  BY <1>2, <1>kept DEF WritePacket, TypeOK
<1>3. ASSUME NEW p \in Peers, StartTransmission(p)
      PROVE  timer'[e] \/ threw'[e]
  <2>1. timer[p] \in BOOLEAN
    BY DEF TypeOK
  <2>2. p # e => started[e]
    BY <1>3 DEF StartTransmission, TypeOK
  <2>3. QED
    BY <1>1, <1>3, <2>1, <2>2 DEF StartTransmission
<1>4. ASSUME NEW p \in Peers, OnTimeout(p)
      PROVE  timer'[e] \/ threw'[e]
  BY <1>1, <1>4 DEF OnTimeout
<1>5. ASSUME NEW m \in net, ReadAck(m.to, m)
      PROVE  timer'[e] \/ threw'[e]
  <2>1. m.to \in Peers
    BY DEF TypeOK, Packets, Acks
  <2>2. m.to # e /\ timer'[e] = timer[e] /\ inFlight'[e] = inFlight[e]
    BY <1>5, <2>1 DEF ReadAck, Disarmed, TypeOK
  <2>3. QED
    BY <1>5, <2>2, <1>kept DEF ReadAck
<1>6. ASSUME NEW m \in net, ReadStaleAck(m.to, m) \/ ReadData(m.to, m) \/ Lose(m)
      PROVE  timer'[e] \/ threw'[e]
  BY <1>6, <1>kept DEF ReadStaleAck, ReadData, Lose
<1>7. CASE UNCHANGED vars
  BY <1>7, <1>kept DEF vars
<1>8. QED
  BY <1>2, <1>3, <1>4, <1>5, <1>6, <1>7 DEF Next, ReadPacket

\* From its first transmission to its acknowledgement a packet has a running
\* timer, unless next.write() threw out of transmitQueue.
THEOREM RetriedUntilConfirmed == Spec => []KeepsRetrying
<1>1. Init => KeepsRetrying
  BY DEF Init, KeepsRetrying
<1>2. QED
  BY <1>1, RetryStep, TypeCorrect, PTL DEF Spec

\* What makes OnlyStartedOnWire inductive: a timer runs only for a packet whose
\* transmission was started, and no datagram carries a payload that writePacket
\* has not yet accepted, so that the next one is on no wire.
WireInv ==
    \A e \in Peers :
        /\ inFlight[e] <= written[e]
        /\ timer[e] => inFlight[e] # NoPacket /\ started[e]
        /\ \A m \in net :
              m.type = "data" /\ m.to # e =>
                  /\ m.payload <= written[e]
                  /\ inFlight[e] # NoPacket /\ m.payload = inFlight[e] => started[e]

\* transmitQueue puts only the packet in flight on the wire, to the peer.
LEMMA QueueWire ==
    ASSUME TypeOK, WireInv, NEW p \in Peers, NEW running \in BOOLEAN,
           TransmitQueue(p, running), running => timer[p],
           inFlight[p] # NoPacket, started'[p],
           \A e \in Peers : e # p => started'[e] = started[e],
           UNCHANGED <<inFlight, written>>
    PROVE  WireInv'
<1> SUFFICES ASSUME NEW e \in Peers
             PROVE  /\ inFlight'[e] <= written'[e]
                    /\ timer'[e] => inFlight'[e] # NoPacket /\ started'[e]
                    /\ \A m \in net' :
                          m.type = "data" /\ m.to # e =>
                              /\ m.payload <= written'[e]
                              /\ inFlight'[e] # NoPacket /\ m.payload = inFlight'[e] => started'[e]
  BY DEF WireInv
<1>1. timer'[e] => inFlight[e] # NoPacket /\ started'[e]
  BY DEF TransmitQueue, TypeOK, WireInv
<1>2. net' \subseteq net \cup Queue(p)
  BY DEF TransmitQueue
<1>3. ASSUME NEW m \in Queue(p), m.to # e
      PROVE  m.payload <= written[e] /\ (m.payload = inFlight[e] => started'[e])
  <2>1. m.to = Other(p) /\ m.payload = inFlight[p]
    BY DEF Queue
  <2>2. p = e
    BY <1>3, <2>1, OtherPeer
  <2>3. QED
    BY <2>1, <2>2 DEF WireInv
<1>4. started[e] => started'[e]
  OBVIOUS
<1>5. QED
  BY <1>1, <1>2, <1>3, <1>4 DEF WireInv

\* Every step preserves what is known of the wire.
LEMMA WireStep == TypeOK /\ WireInv /\ [Next]_vars => WireInv'
<1> SUFFICES ASSUME TypeOK, WireInv, [Next]_vars
             PROVE  WireInv'
  OBVIOUS
<1>1. ASSUME NEW p \in Peers, WritePacket(p)
      PROVE  WireInv'
  <2> SUFFICES ASSUME NEW e \in Peers
               PROVE  /\ inFlight'[e] <= written'[e]
                      /\ timer'[e] => inFlight'[e] # NoPacket /\ started'[e]
                      /\ \A m \in net' :
                            m.type = "data" /\ m.to # e =>
                                /\ m.payload <= written'[e]
                                /\ inFlight'[e] # NoPacket /\ m.payload = inFlight'[e] => started'[e]
    BY DEF WireInv
  <2>1. \A m \in net : m.type = "data" => m.payload \in Nat
    BY DEF TypeOK, Packets, Acks
  <2>2. CASE e = p
    <3>1. /\ written[e] \in Nat /\ written'[e] = written[e] + 1 /\ inFlight'[e] = written[e] + 1
          /\ net' = net /\ timer' = timer /\ inFlight[e] = NoPacket
      BY <1>1, <2>2 DEF WritePacket, CanAccept, TypeOK
    <3>2. QED
      BY <2>1, <3>1 DEF WireInv
  <2>3. CASE e # p
    <3>1. /\ written'[e] = written[e] /\ inFlight'[e] = inFlight[e] /\ started'[e] = started[e]
          /\ net' = net /\ timer' = timer
      BY <1>1, <2>3 DEF WritePacket, TypeOK
    <3>2. QED
      BY <3>1 DEF WireInv
  <2>4. QED
    BY <2>2, <2>3
<1>2. ASSUME NEW p \in Peers, StartTransmission(p)
      PROVE  WireInv'
  <2>1. timer[p] \in BOOLEAN /\ started'[p] /\ \A e \in Peers : e # p => started'[e] = started[e]
    BY <1>2 DEF StartTransmission, TypeOK
  <2>2. QED
    BY <1>2, <2>1, QueueWire DEF StartTransmission
<1>3. ASSUME NEW p \in Peers, OnTimeout(p)
      PROVE  WireInv'
  <2>1. inFlight[p] # NoPacket /\ started[p] /\ started' = started
    BY <1>3 DEF OnTimeout, WireInv
  <2>2. QED
    BY <1>3, <2>1, QueueWire DEF OnTimeout
<1>4. ASSUME NEW m \in net, ReadAck(m.to, m)
      PROVE  WireInv'
  <2>1. m.to \in Peers /\ net' \subseteq net
    BY <1>4 DEF ReadAck, Reading, TypeOK, Packets, Acks
  <2>2. \A e \in Peers : written[e] \in Nat /\ 0 <= written[e]
    BY DEF TypeOK
  <2>3. \A e \in Peers :
           IF e = m.to THEN ~timer'[e] /\ inFlight'[e] = NoPacket
                       ELSE timer'[e] = timer[e] /\ inFlight'[e] = inFlight[e]
    BY <1>4, <2>1 DEF ReadAck, Disarmed, TypeOK
  <2>4. UNCHANGED <<written, started>>
    BY <1>4 DEF ReadAck
  <2>5. QED
    BY <2>1, <2>2, <2>3, <2>4 DEF WireInv, NoPacket
<1>5. ASSUME NEW m \in net, ReadStaleAck(m.to, m) \/ Lose(m)
      PROVE  WireInv'
  <2>1. net' \subseteq net /\ UNCHANGED <<inFlight, timer, written, started>>
    BY <1>5 DEF ReadStaleAck, Reading, Lose
  <2>2. QED
    BY <2>1 DEF WireInv
<1>6. ASSUME NEW m \in net, ReadData(m.to, m)
      PROVE  WireInv'
  <2>1. net' \subseteq net \cup AckFor(m.to, m) /\ UNCHANGED <<inFlight, timer, written, started>>
    BY <1>6 DEF ReadData, Reading
  <2>2. \A a \in AckFor(m.to, m) : a.type = "ack"
    BY DEF AckFor
  <2>3. QED
    BY <2>1, <2>2 DEF WireInv
<1>7. CASE UNCHANGED vars
  BY <1>7 DEF vars, WireInv
<1>8. QED
  BY <1>1, <1>2, <1>3, <1>4, <1>5, <1>6, <1>7 DEF Next, ReadPacket

\* No packet is on the wire or under a running timer before its transmission
\* was started: readPacket stops the timer of the packet before it.
THEOREM StartedFirst == Spec => []OnlyStartedOnWire
<1>1. Init => WireInv
  <2> SUFFICES ASSUME Init PROVE WireInv
    OBVIOUS
  <2>1. \A e \in Peers : inFlight[e] <= written[e]
    <3>1. \A e \in Peers : inFlight[e] = 0 /\ written[e] = 0
      BY Zenon DEF Init, NoPacket
    <3>2. 0 <= 0
      OBVIOUS
    <3>3. QED
      BY <3>1, <3>2, Zenon
  <2>2. net = {} /\ \A e \in Peers : ~timer[e]
    BY Zenon DEF Init
  <2>3. QED
    BY <2>1, <2>2, Zenon DEF WireInv
<1>2. WireInv => OnlyStartedOnWire
  BY DEF WireInv, OnlyStartedOnWire
<1>3. QED
  BY <1>1, <1>2, WireStep, TypeCorrect, PTL DEF Spec

-----------------------------------------------------------------------------

\* The code as it stands: no end has its first transmission started, so no
\* timer ever runs and no datagram is ever written, whatever writePacket
\* accepts.
THEOREM NothingSentAsWritten ==
    ASSUME ~OwnerTransmits
    PROVE  Spec => [](net = {} /\ \A e \in Peers : ~timer[e])
<1> DEFINE Silent == net = {} /\ \A e \in Peers : ~timer[e]
<1>1. Init => Silent
  BY DEF Init
<1>2. Silent /\ [Next]_vars => Silent'
  BY DEF Next, WritePacket, StartTransmission, OnTimeout, vars
<1>3. QED
  BY <1>1, <1>2, PTL DEF Spec

=============================================================================
