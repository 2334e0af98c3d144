--------------------------- MODULE TunnelPathProofs ---------------------------
(***************************************************************************)
(* Proofs about TunnelPath for every set of payloads, every width of a     *)
(* size_t and both kinds of link.                                          *)
(***************************************************************************)
EXTENDS TunnelPath, OperatorProofs, SequenceTheorems

\* The stages of a tunnel.
Tunnels == {"none", "up", "gone", "terminated", "crashed"}

\* TerminatedByPeer with what makes it inductive: close() is called by the
\* destructor alone, and a session is closed only by one end's close().
Lifetime ==
    /\ tunnel \in [Hosts -> Tunnels]
    /\ phase \in [Hosts -> Link!Phases]
    /\ asked \subseteq Hosts
    /\ \A h \in asked : tunnel[h] = "gone"
    /\ \A h \in Hosts : phase[h] = "closed" => h \in asked \/ Peer(h) \in asked
    /\ TerminatedByPeer

\* The other host is one.
LEMMA PeerIsHost ==
    ASSUME NEW h \in Hosts
    PROVE  Peer(h) \in Hosts /\ Peer(h) # h
  BY HostsAssumption DEF Peer, Link!Peer

\* No tunnel and no session exists at the start.
LEMMA LifetimeInit == Init => Lifetime
  BY DEF Init, Link!StreamInit, Link!Phases, Lifetime, Tunnels, TerminatedByPeer

\* Every step of a host keeps Lifetime.
LEMMA LifetimeNext == Lifetime /\ [Next]_vars => Lifetime'
<1> SUFFICES ASSUME Lifetime, [Next]_vars
             PROVE  Lifetime'
  OBVIOUS
<1> USE DEF Lifetime, Tunnels
<1>peers. \A h \in Hosts : Peer(h) \in Hosts /\ Peer(h) # h
  BY PeerIsHost
<1>peerPrime. \A h \in Hosts : Peer(h)' = Peer(h)
  BY DEF Peer, Link!Peer
<1>1. ASSUME NEW h \in Hosts, Construct(h)
      PROVE  Lifetime'
  BY <1>1, <1>peers DEF Construct, sessionVars, TerminatedByPeer, Peer, Link!Peer
<1>2. ASSUME NEW h \in Hosts, Destroy(h)
      PROVE  Lifetime'
  <2>1. CASE CloseThrows(h) /\ tunnel' = [tunnel EXCEPT ![h] = "terminated"] /\ UNCHANGED sessionVars
    BY <1>2, <2>1, <1>peers, <1>peerPrime
       DEF Destroy, CloseThrows, sessionVars, TerminatedByPeer
  <2>2. CASE tunnel' = [tunnel EXCEPT ![h] = "gone"] /\ Link!Close(h)
    BY <1>2, <2>2, <1>peers, <1>peerPrime
       DEF Destroy, Link!Close, Link!Phases, TerminatedByPeer
  <2> QED
    BY <1>2, <2>1, <2>2 DEF Destroy
<1>3. ASSUME NEW h \in Hosts, SessionStep(h)
      PROVE  Lifetime'
  <2>1. tunnel' = tunnel /\ tunnel[h] \in {"none", "up"} /\ asked' = asked
    BY <1>3 DEF SessionStep, tunnelVars, Alive, Link!Begin, Link!Establish, Link!Reshake,
                Link!HearClose, Link!Fail
  <2>2. PICK s \in Link!Phases :
           /\ phase' = [phase EXCEPT ![h] = s]
           /\ s = "closed" => Peer(h) \in asked
    BY <1>3 DEF SessionStep, Link!Begin, Link!Establish, Link!Reshake,
                Link!HearClose, Link!Fail, Link!Phases, Peer
  <2> QED
    BY <2>1, <2>2, <1>peers, <1>peerPrime DEF TerminatedByPeer
<1>4. ASSUME NEW h \in Hosts, NEW p, TunRead(h, p), tunnel[h] = "up"
      PROVE  Lifetime'
  <2>1. UNCHANGED <<phase, asked>> /\ (UNCHANGED tunnel \/ tunnel' = [tunnel EXCEPT ![h] = "crashed"])
    BY <1>4 DEF TunRead, sessionVars, Link!Write
  <2> QED
    BY <1>4, <2>1, <1>peers, <1>peerPrime DEF TerminatedByPeer
<1>5. ASSUME NEW h \in Hosts, NEW i, Arrive(h, i)
      PROVE  Lifetime'
  <2>1. UNCHANGED <<phase, asked, tunnel>>
    BY <1>5 DEF Arrive, Link!Deliver
  <2> QED
    BY <2>1, <1>peerPrime DEF TerminatedByPeer
<1>6. CASE UNCHANGED vars
  BY <1>6, <1>peerPrime DEF vars, sessionVars, tunnelVars, TerminatedByPeer
<1> QED
  BY <1>1, <1>2, <1>3, <1>4, <1>5, <1>6 DEF Next, WatcherEvent, WatcherEventFailing, Watch

\* ~Tunnel ends the program only if the session was never opened or failed,
\* or the peer's tunnel was destroyed first.
THEOREM CleanDestruction == Spec => []TerminatedByPeer
<1>1. Lifetime => TerminatedByPeer
  BY DEF Lifetime
<1> QED
  BY <1>1, LifetimeInit, LifetimeNext, PTL DEF Spec

-----------------------------------------------------------------------------

\* No packet was written to a device.
Silent == \A h \in Hosts : toDevice[h] = <<>>

\* Silent with what makes it inductive: without the repair of the constructor
\* no tunnel comes up.
NeverUp ==
    /\ tunnel \in [Hosts -> Tunnels]
    /\ "tun" \notin Repairs => \A h \in Hosts : tunnel[h] # "up"
    /\ Silent

\* A step that is not repaired in both places writes nothing to a device.
LEMMA NeverUpNext ==
    ASSUME {"tun", "propagate"} # Repairs, NeverUp, [Next]_vars
    PROVE  NeverUp'
<1> USE DEF NeverUp, Tunnels, Silent
<1>1. ASSUME NEW h \in Hosts, Construct(h)
      PROVE  NeverUp'
  BY <1>1 DEF Construct
<1>2. ASSUME NEW h \in Hosts, Destroy(h)
      PROVE  NeverUp'
  <2>1. UNCHANGED toDevice /\ \E t \in {"gone", "terminated"} : tunnel' = [tunnel EXCEPT ![h] = t]
    BY <1>2 DEF Destroy
  <2> QED
    BY <2>1
<1>3. ASSUME NEW h \in Hosts, SessionStep(h)
      PROVE  NeverUp'
  BY <1>3 DEF SessionStep, tunnelVars
<1>4. ASSUME NEW h \in Hosts, NEW p, TunRead(h, p), UNCHANGED toDevice
      PROVE  NeverUp'
  <2>1. UNCHANGED tunnel \/ tunnel' = [tunnel EXCEPT ![h] = "crashed"]
    BY <1>4 DEF TunRead
  <2> QED
    BY <1>4, <2>1
<1>5. ASSUME NEW h \in Hosts, NEW i, Arrive(h, i)
      PROVE  NeverUp'
  <2>1. ~Listens(h)
    BY RepairsAssumption DEF Listens
  <2>2. UNCHANGED <<tunnel, toDevice>>
    BY <1>5, <2>1 DEF Arrive
  <2> QED
    BY <2>2
<1>6. CASE UNCHANGED vars
  BY <1>6 DEF vars, tunnelVars
<1> QED
  BY <1>1, <1>2, <1>3, <1>4, <1>5, <1>6 DEF Next, WatcherEvent, WatcherEventFailing, Watch

\* The repository as it stands, and with either of the two repairs alone,
\* writes no packet to any device: the constructor dereferences the pointer
\* it has moved away, and nothing calls propagate().
THEOREM NothingCarriedAsWritten ==
    ASSUME {"tun", "propagate"} # Repairs
    PROVE  Spec => []Silent
<1>1. Init => NeverUp
  BY DEF Init, NeverUp, Tunnels, Silent
<1>2. NeverUp /\ [Next]_vars => NeverUp'
  BY NeverUpNext
<1>3. NeverUp => Silent
  BY DEF NeverUp
<1> QED
  BY <1>1, <1>2, <1>3, PTL DEF Spec

-----------------------------------------------------------------------------
(* What a packet carries from device to device. *)

\* Block b is payload s behind the header of the data channel.
Framed(b, s) ==
    /\ b \in Seq(Nat)
    /\ Len(b) = Len(s) + 1
    /\ b[1] = DataChannelId
    /\ \A i \in 1 .. Len(s) : b[i + 1] = s[i]

\* DeviceGetsPayload and NeverRejects with what makes them inductive: the
\* sessions carry what was taken from the devices, each packet behind its
\* header; a device is written nothing before its tunnel is up, and from then
\* on everything its session hands on.
Carried ==
    /\ tunnel \in [Hosts -> Tunnels]
    /\ sent \in [Hosts -> Seq(Seq(Nat))]
    /\ taken \in [Hosts -> Seq(Seq(Nat))]
    /\ got \in [Hosts -> Seq(Nat)]
    /\ toDevice \in [Hosts -> Seq([at : Nat, bytes : Seq(Nat)])]
    /\ \A h \in Hosts :
        /\ Len(sent[h]) = Len(taken[h])
        /\ \A i \in 1 .. Len(taken[h]) : Framed(sent[h][i], taken[h][i])
        /\ \A k \in 1 .. Len(toDevice[h]) : toDevice[h][k].at \in 1 .. Len(taken[Peer(h)])
        /\ Len(toDevice[h]) > 0 => tunnel[h] # "none" /\ "propagate" \in Repairs
        /\ Ordered /\ Len(toDevice[h]) > 0 => toDevice[h][Len(toDevice[h])].at = Len(got[h])
    /\ DeviceGetsPayload
    /\ NeverRejects

\* The header an UnreliableChannel writes is the byte of the data channel.
LEMMA HeaderBytes == Header.length = 1 /\ Bytes(Header) = <<DataChannelId>>
<1> DEFINE s == <<DataChannelId>>
<1>1. s \in Seq(Nat) /\ Len(s) = 1
  BY DEF DataChannelId
<1>2. Header = MakePacket(s, 0, Len(s))
  BY <1>1 DEF Header
<1> HIDE DEF s
<1>3. Header.length = 1
  BY <1>1, <1>2, MakePacketFields
<1>4. Bytes(Header) = s
  BY <1>1, <1>2, WholeBlock
<1> QED
  BY <1>3, <1>4 DEF s

\* What a device reads is a sequence of bytes.
LEMMA PayloadIsSeq ==
    ASSUME NEW s \in Payloads
    PROVE  s \in Seq(Nat)
<1> DEFINE Byte == 0 .. 255
<1>1. Byte \subseteq Nat /\ s \in Seq(Byte)
  BY PayloadsAssumption
<1> HIDE DEF Byte
<1> QED
  BY <1>1, SeqMonotonic

\* The sum of the parts of a packet that was read fits a size_t; with the
\* length that a failed read() leaves it does not.
LEMMA SumOfParts ==
    /\ \A s \in Payloads :
          LET p == MakePacket(s, 0, Len(s))
          IN  ~(GatherSize(Header, p) < Header.length + p.length)
    /\ LET p == MakePacket(<<>>, 0, SizeMod - 1)
       IN  GatherSize(Header, p) # Header.length + p.length
<1>1. ASSUME NEW s \in Payloads, NEW p, p = MakePacket(s, 0, Len(s))
      PROVE  ~(GatherSize(Header, p) < Header.length + p.length)
  <2>1. Len(s) \in Nat /\ 1 + Len(s) < SizeMod
    BY PayloadsAssumption
  <2>2. (1 + Len(s)) % SizeMod = 1 + Len(s)
    BY <2>1, SizeModAssumption
  <2>3. p.length = Len(s)
    BY <1>1, <2>1, MakePacketFields
  <2> QED
    BY <2>1, <2>2, <2>3, HeaderBytes DEF GatherSize
<1>2. ASSUME NEW p, p = MakePacket(<<>>, 0, SizeMod - 1)
      PROVE  GatherSize(Header, p) # Header.length + p.length
  <2>1. SizeMod - 1 \in Nat /\ 1 + (SizeMod - 1) = SizeMod /\ SizeMod % SizeMod = 0 /\ 0 # SizeMod
    BY SizeModAssumption
  <2>2. p.length = SizeMod - 1
    BY <1>2, <2>1, MakePacketFields
  <2> QED
    BY <2>1, <2>2, HeaderBytes DEF GatherSize
<1> QED
  BY <1>1, <1>2

\* What Stream::write gathers is framed.
LEMMA GatheredIsFramed ==
    ASSUME NEW s \in Seq(Nat)
    PROVE  Framed(GatherBytes(Header, MakePacket(s, 0, Len(s))), s)
<1>1. GatherBytes(Header, MakePacket(s, 0, Len(s))) = <<DataChannelId>> \o s
  BY HeaderBytes, WholeBlock DEF GatherBytes
<1>2. Framed(<<DataChannelId>> \o s, s)
  BY DEF Framed, DataChannelId
<1> QED
  BY <1>1, <1>2

\* The two skips of propagate() and readPacket take the header and the first
\* byte of the payload, or all there is.
LEMMA PayloadOfFramed ==
    ASSUME NEW s \in Seq(Nat), NEW b, Framed(b, s)
    PROVE  Bytes(Payload(MakePacket(b, 0, Len(b)))) = SubSeq(s, 2, Len(s))
<1> DEFINE p == MakePacket(b, 0, Len(b))
           q == Skip(p, 1)
           r == Skip(q, 1)
<1>0. /\ Len(s) \in Nat /\ b \in Seq(Nat) /\ Len(b) = Len(s) + 1
      /\ \A i \in 1 .. Len(s) : b[i + 1] = s[i]
  BY DEF Framed
<1>1. IsPacket(p) /\ p.data = b /\ p.offset = 0 /\ p.length = Len(s) + 1
  BY <1>0, MakePacketFields
<1> HIDE DEF p
<1>2. IsPacket(q) /\ q.data = b /\ q.offset + q.length = Len(s) + 1 /\ q.length = Len(s)
  <2>1. IsPacket(q) /\ q.data = p.data /\ q.offset + q.length = p.offset + p.length
    BY <1>1, SkipFields
  <2>2. 1 <= p.length => q.length = p.length - 1
    BY <1>1, SkipFields
  <2> QED
    BY <1>0, <1>1, <2>1, <2>2
<1> HIDE DEF q
<1>3. r.data = b /\ r.offset + r.length = Len(s) + 1 /\ r.offset \in Nat /\ r.length \in Nat
  <2>1. IsPacket(r) /\ r.data = b /\ r.offset + r.length = q.offset + q.length
    BY <1>2, SkipFields
  <2> QED
    BY <1>2, <2>1 DEF IsPacket
<1>4. r.length = IF Len(s) = 0 THEN 0 ELSE Len(s) - 1
  <2>1. (1 <= q.length => r.length = q.length - 1) /\ (1 > q.length => r.length = 0)
    BY <1>2, SkipFields
  <2> QED
    BY <1>0, <1>2, <2>1
<1>5. Bytes(r) = SubSeq(b, r.offset + 1, Len(s) + 1)
  BY <1>3 DEF Bytes
<1> HIDE DEF r
<1>6. r.offset = IF Len(s) = 0 THEN 1 ELSE 2
  BY <1>0, <1>3, <1>4
<1>7. SubSeq(b, r.offset + 1, Len(s) + 1) = SubSeq(s, 2, Len(s))
  <2>1. CASE Len(s) = 0
    BY <1>6, <2>1, SubSeqEmpty
  <2>2. CASE Len(s) > 0
    <3>1. SubSeq(b, 3, Len(s) + 1) = [i \in 1 .. Len(s) - 1 |-> b[i + 2]]
      BY <1>0
    <3>2. SubSeq(s, 2, Len(s)) = [i \in 1 .. Len(s) - 1 |-> s[i + 1]]
      BY <1>0
    <3>3. \A i \in 1 .. Len(s) - 1 : b[i + 2] = s[i + 1]
      <4> SUFFICES ASSUME NEW i \in 1 .. Len(s) - 1
                   PROVE  b[i + 2] = s[i + 1]
        OBVIOUS
      <4>1. i + 1 \in 1 .. Len(s) /\ (i + 1) + 1 = i + 2
        BY <1>0
      <4> QED
        BY <1>0, <4>1
    <3>4. [i \in 1 .. Len(s) - 1 |-> b[i + 2]] = [i \in 1 .. Len(s) - 1 |-> s[i + 1]]
      BY <3>3
    <3>5. r.offset + 1 = 3
      BY <1>6, <2>2
    <3> QED
      BY <3>1, <3>2, <3>4, <3>5, Zenon
  <2>3. Len(s) = 0 \/ Len(s) > 0
    BY <1>0
  <2> QED
    BY <2>1, <2>2, <2>3, Zenon
<1> QED
  BY <1>5, <1>7 DEF p, q, r, Payload

\* Nothing has been carried at the start.
LEMMA CarriedInit == Init => Carried
<1> SUFFICES ASSUME Init PROVE Carried
  OBVIOUS
<1>1. NeverRejects
  BY Zenon DEF Init, NeverRejects
<1>2. /\ tunnel \in [Hosts -> Tunnels] /\ sent \in [Hosts -> Seq(Seq(Nat))]
      /\ taken \in [Hosts -> Seq(Seq(Nat))] /\ got \in [Hosts -> Seq(Nat)]
      /\ toDevice \in [Hosts -> Seq([at : Nat, bytes : Seq(Nat)])]
  BY DEF Init, Link!StreamInit, Tunnels
<1>3. \A h \in Hosts : Len(sent[h]) = 0 /\ Len(taken[h]) = 0 /\ Len(toDevice[h]) = 0
  BY DEF Init, Link!StreamInit
<1>4. DeviceGetsPayload
  BY <1>3 DEF DeviceGetsPayload
<1> QED
  BY <1>1, <1>2, <1>3, <1>4 DEF Carried

\* A step that touches neither what the sessions carry nor the device keeps
\* Carried, if it constructs no tunnel a second time.
LEMMA CarriedUnchanged ==
    ASSUME Carried, UNCHANGED <<sent, got, taken, toDevice, rejected>>,
           tunnel' \in [Hosts -> Tunnels],
           \A h \in Hosts : tunnel'[h] = "none" => tunnel[h] = "none"
    PROVE  Carried'
<1>1. \A h \in Hosts : Peer(h)' = Peer(h)
  BY DEF Peer, Link!Peer
<1>2. DeviceGetsPayload' /\ NeverRejects'
  BY <1>1 DEF Carried, DeviceGetsPayload, NeverRejects
<1> QED
  BY <1>1, <1>2 DEF Carried

\* The device of h was read packet s and the session accepted it.
LEMMA CarriedWrite ==
    ASSUME Carried, NEW h \in Hosts, NEW s \in Seq(Nat), NEW b, Framed(b, s),
           sent' = [sent EXCEPT ![h] = Append(@, b)],
           taken' = [taken EXCEPT ![h] = Append(@, s)],
           UNCHANGED <<got, toDevice, rejected, tunnel>>
    PROVE  Carried'
<1> USE DEF Carried
<1>1. \A g \in Hosts : Peer(g) \in Hosts /\ Peer(g)' = Peer(g)
  BY PeerIsHost DEF Peer, Link!Peer
<1>2. b \in Seq(Nat)
  BY DEF Framed
<1>3. sent' \in [Hosts -> Seq(Seq(Nat))] /\ taken' \in [Hosts -> Seq(Seq(Nat))]
  BY <1>2
<1>4. \A g \in Hosts :
         /\ Len(taken'[g]) >= Len(taken[g])
         /\ \A i \in 1 .. Len(taken[g]) : taken'[g][i] = taken[g][i]
  BY <1>2
<1>5. ASSUME NEW g \in Hosts
      PROVE  Len(sent'[g]) = Len(taken'[g]) /\ \A i \in 1 .. Len(taken'[g]) : Framed(sent'[g][i], taken'[g][i])
  <2>1. CASE g = h
    <3>1. /\ Len(taken'[g]) = Len(taken[g]) + 1 /\ Len(sent'[g]) = Len(sent[g]) + 1
          /\ taken'[g][Len(taken[g]) + 1] = s /\ sent'[g][Len(taken[g]) + 1] = b
          /\ \A i \in 1 .. Len(taken[g]) : taken'[g][i] = taken[g][i] /\ sent'[g][i] = sent[g][i]
      BY <1>2, <2>1
    <3> QED
      BY <3>1
  <2>2. CASE g # h
    BY <2>2
  <2> QED
    BY <2>1, <2>2
<1>6. \A g \in Hosts : \A k \in 1 .. Len(toDevice[g]) : toDevice[g][k].at \in 1 .. Len(taken'[Peer(g)])
  <2>1. \A g \in Hosts : Len(taken[Peer(g)]) \in Nat /\ Len(taken'[Peer(g)]) \in Nat
    BY <1>1, <1>3
  <2>2. ASSUME NEW g \in Hosts, NEW k \in 1 .. Len(toDevice[g])
        PROVE  toDevice[g][k].at \in 1 .. Len(taken'[Peer(g)])
    <3>1. toDevice[g][k].at \in 1 .. Len(taken[Peer(g)])
      OBVIOUS
    <3>2. Len(taken'[Peer(g)]) >= Len(taken[Peer(g)])
      BY <1>1, <1>4
    <3> HIDE DEF Carried
    <3> QED
      BY <2>1, <3>1, <3>2
  <2> HIDE DEF Carried
  <2> QED
    BY <2>2
<1>7. DeviceGetsPayload' /\ NeverRejects'
  <2>1. \A g \in Hosts : \A k \in 1 .. Len(toDevice[g]) :
           taken'[Peer(g)][toDevice[g][k].at] = taken[Peer(g)][toDevice[g][k].at]
    BY <1>1, <1>4
  <2>2. NeverRejects'
    BY DEF NeverRejects
  <2>3. DeviceGetsPayload'
    <3>1. ASSUME NEW g \in Hosts, NEW k \in 1 .. Len(toDevice[g])
          PROVE  /\ toDevice[g][k].bytes = SubSeq(taken'[Peer(g)][toDevice[g][k].at], 2, Len(taken'[Peer(g)][toDevice[g][k].at]))
                 /\ Ordered /\ k > 1 => toDevice[g][k].at = toDevice[g][k - 1].at + 1
      <4> DEFINE t == taken[Peer(g)][toDevice[g][k].at]
      <4>1. taken'[Peer(g)][toDevice[g][k].at] = t
        BY <2>1
      <4>2. /\ toDevice[g][k].bytes = SubSeq(t, 2, Len(t))
            /\ Ordered /\ k > 1 => toDevice[g][k].at = toDevice[g][k - 1].at + 1
        BY DEF DeviceGetsPayload
      <4> QED
        BY <4>1, <4>2
    <3> HIDE DEF Carried
    <3>2. ASSUME NEW g \in Hosts, NEW k \in 1 .. Len(toDevice'[g])
          PROVE  /\ toDevice'[g][k].bytes = SubSeq(taken'[Peer(g)'][toDevice'[g][k].at], 2, Len(taken'[Peer(g)'][toDevice'[g][k].at]))
                 /\ Ordered /\ k > 1 => toDevice'[g][k].at = toDevice'[g][k - 1].at + 1
      BY <1>1, <3>1
    <3> QED
      BY <3>2, Zenon DEF DeviceGetsPayload
  <2> QED
    BY <2>2, <2>3
<1> QED
  BY <1>1, <1>3, <1>5, <1>6, <1>7

\* The session of h hands on the peer's packet i: its first byte names the
\* data channel, and what is written to the device is its payload.
LEMMA CarriedArrive ==
    ASSUME Carried, NEW h \in Hosts, NEW i \in Link!Arriving(h), Arrive(h, i)
    PROVE  Carried'
<1> USE DEF Carried
<1> DEFINE s == taken[Peer(h)][i]
           b == sent[Peer(h)][i]
           p == MakePacket(b, 0, Len(b))
<1>1. \A g \in Hosts : Peer(g) \in Hosts /\ Peer(g)' = Peer(g)
  BY PeerIsHost DEF Peer, Link!Peer
<1>2. /\ i \in 1 .. Len(taken[Peer(h)]) /\ i \in Nat
      /\ Ordered => i = Len(got[h]) + 1
      /\ UNCHANGED <<tunnel, sent, taken>>
      /\ got' = [got EXCEPT ![h] = Append(@, i)]
  BY <1>1 DEF Arrive, Link!Arriving, Link!Deliver, Peer
<1>3. s \in Seq(Nat) /\ Framed(b, s)
  BY <1>1, <1>2
<1> HIDE DEF s
<1>4. p.length > 0 /\ IsDataChannel(Bytes(p)[1])
  <2>1. b \in Seq(Nat) /\ Len(b) = Len(s) + 1 /\ b[1] = DataChannelId /\ Len(s) \in Nat
    BY <1>3 DEF Framed
  <2> HIDE DEF b
  <2>2. Len(b) \in Nat /\ Len(b) > 0
    BY <2>1
  <2>3. p.length = Len(b) /\ Bytes(p) = b
    BY <2>1, <2>2, MakePacketFields, WholeBlock
  <2> QED
    BY <2>1, <2>2, <2>3 DEF IsDataChannel
<1>5. Bytes(Payload(p)) = SubSeq(s, 2, Len(s))
  BY <1>3, PayloadOfFramed
<1>6. UNCHANGED rejected
  BY <1>4 DEF Arrive
<1>7. CASE ~Listens(h)
  <2>1. UNCHANGED toDevice
    BY <1>7 DEF Arrive
  <2>2. tunnel[h] = "none" \/ "propagate" \notin Repairs
    BY <1>7 DEF Listens, Arrive, Alive
  <2>3. DeviceGetsPayload' /\ NeverRejects'
    BY <1>1, <1>2, <1>6, <2>1 DEF DeviceGetsPayload, NeverRejects
  <2>4. got' \in [Hosts -> Seq(Nat)] /\ \A g \in Hosts : g # h => got'[g] = got[g]
    BY <1>2
  <2>5. \A g \in Hosts :
           Ordered /\ Len(toDevice[g]) > 0 => toDevice[g][Len(toDevice[g])].at = Len(got'[g])
    BY <2>2, <2>4
  <2> QED
    BY <1>1, <1>2, <2>1, <2>3, <2>4, <2>5
<1>8. CASE Listens(h)
  <2> DEFINE e == [at |-> i, bytes |-> SubSeq(s, 2, Len(s))]
  <2>1. toDevice' = [toDevice EXCEPT ![h] = Append(@, e)]
    BY <1>4, <1>5, <1>8 DEF Arrive
  <2>2. e \in [at : Nat, bytes : Seq(Nat)] /\ e.at = i /\ e.bytes = SubSeq(s, 2, Len(s))
    <3> HIDE DEF Carried
    <3>1. Len(s) \in Int /\ \A j \in 2 .. Len(s) : s[j] \in Nat
      BY <1>3
    <3>2. SubSeq(s, 2, Len(s)) \in Seq(Nat)
      BY <3>1, SubSeqProperties
    <3> QED
      BY <1>2, <3>2
  <2>3. tunnel[h] = "up" /\ "propagate" \in Repairs
    BY <1>8 DEF Listens
  <2> HIDE DEF e
  <2>4. /\ toDevice' \in [Hosts -> Seq([at : Nat, bytes : Seq(Nat)])]
        /\ got' \in [Hosts -> Seq(Nat)]
    <3> DEFINE R == [at : Nat, bytes : Seq(Nat)]
    <3>1. toDevice \in [Hosts -> Seq(R)] /\ e \in R /\ got \in [Hosts -> Seq(Nat)]
      BY <2>2
    <3> HIDE DEF R, Carried
    <3>2. toDevice' \in [Hosts -> Seq(R)]
      BY <2>1, <3>1
    <3>3. got' \in [Hosts -> Seq(Nat)]
      BY <1>2, <3>1
    <3> QED
      BY <3>2, <3>3 DEF R
  <2>5. /\ Len(toDevice'[h]) = Len(toDevice[h]) + 1
        /\ toDevice'[h][Len(toDevice[h]) + 1] = e
        /\ \A k \in 1 .. Len(toDevice[h]) : toDevice'[h][k] = toDevice[h][k]
        /\ \A g \in Hosts : g # h => toDevice'[g] = toDevice[g]
    BY <2>1, <2>2
  <2>6. Len(got'[h]) = Len(got[h]) + 1 /\ \A g \in Hosts : g # h => got'[g] = got[g]
    BY <1>2
  <2>7. ASSUME NEW g \in Hosts, NEW k \in 1 .. Len(toDevice'[g])
        PROVE  /\ toDevice'[g][k].at \in 1 .. Len(taken[Peer(g)])
               /\ toDevice'[g][k].bytes = SubSeq(taken[Peer(g)][toDevice'[g][k].at], 2, Len(taken[Peer(g)][toDevice'[g][k].at]))
               /\ Ordered /\ k > 1 => toDevice'[g][k].at = toDevice'[g][k - 1].at + 1
    <3>1. CASE g = h /\ k = Len(toDevice[h]) + 1
      <4>1. toDevice'[g][k] = e
        BY <2>5, <3>1
      <4>2. k > 1 => toDevice'[g][k - 1] = toDevice[h][Len(toDevice[h])] /\ Len(toDevice[h]) > 0
        <5>1. Len(toDevice[h]) \in Nat
          OBVIOUS
        <5>2. k > 1 => k - 1 = Len(toDevice[h]) /\ Len(toDevice[h]) \in 1 .. Len(toDevice[h])
          BY <3>1, <5>1
        <5>3. k > 1 => toDevice'[h][Len(toDevice[h])] = toDevice[h][Len(toDevice[h])]
          BY <2>5, <5>2
        <5>4. k > 1 => Len(toDevice[h]) > 0
          BY <5>1, <5>2
        <5> QED
          BY <3>1, <5>2, <5>3, <5>4
      <4>3. Ordered /\ k > 1 => toDevice[h][Len(toDevice[h])].at = Len(got[h])
        BY <4>2
      <4> QED
        BY <1>2, <2>2, <3>1, <4>1, <4>2, <4>3 DEF s
    <3>2. CASE ~(g = h /\ k = Len(toDevice[h]) + 1)
      <4>1. k \in 1 .. Len(toDevice[g]) /\ toDevice'[g][k] = toDevice[g][k]
        <5>1. Len(toDevice[g]) \in Nat
          OBVIOUS
        <5> HIDE DEF Carried
        <5>2. CASE g = h
          BY <2>5, <3>2, <5>1, <5>2
        <5>3. CASE g # h
          BY <2>5, <5>3
        <5> QED
          BY <5>2, <5>3
      <4>2. k > 1 => toDevice'[g][k - 1] = toDevice[g][k - 1]
        <5>1. k > 1 => k - 1 \in 1 .. Len(toDevice[g])
          BY <4>1
        <5> QED
          BY <2>5, <5>1
      <4> QED
        BY <4>1, <4>2 DEF DeviceGetsPayload
    <3> QED
      BY <3>1, <3>2
  <2>8. DeviceGetsPayload' /\ NeverRejects'
    BY <1>1, <1>2, <1>6, <2>7 DEF DeviceGetsPayload, NeverRejects
  <2>9. \A g \in Hosts :
           /\ Len(toDevice'[g]) > 0 => tunnel[g] # "none" /\ "propagate" \in Repairs
           /\ Ordered /\ Len(toDevice'[g]) > 0 => toDevice'[g][Len(toDevice'[g])].at = Len(got'[g])
    BY <1>2, <2>2, <2>3, <2>5, <2>6
  <2> QED
    BY <1>1, <1>2, <2>4, <2>7, <2>8, <2>9
<1> QED
  BY <1>7, <1>8

\* Every step of a host keeps Carried.
LEMMA CarriedNext == Carried /\ [Next]_vars => Carried'
<1> SUFFICES ASSUME Carried, [Next]_vars
             PROVE  Carried'
  OBVIOUS
<1>1. ASSUME NEW h \in Hosts, Construct(h) \/ Destroy(h) \/ SessionStep(h)
      PROVE  Carried'
  <2>1. UNCHANGED <<sent, got, taken, toDevice, rejected>>
    BY <1>1 DEF Construct, Destroy, SessionStep, sessionVars, tunnelVars, Link!Close, Link!Begin,
                Link!Establish, Link!Reshake, Link!HearClose, Link!Fail
  <2>2. tunnel' = tunnel \/ \E t \in Tunnels \ {"none"} : tunnel' = [tunnel EXCEPT ![h] = t]
    BY <1>1 DEF Construct, Destroy, SessionStep, tunnelVars, Tunnels
  <2> QED
    BY <2>1, <2>2, CarriedUnchanged DEF Carried
<1>2. ASSUME NEW h \in Hosts, NEW s \in Payloads, WatcherEvent(h, s)
      PROVE  Carried'
  <2> DEFINE p == MakePacket(s, 0, Len(s))
  <2>1. s \in Seq(Nat)
    BY PayloadIsSeq
  <2>2. /\ UNCHANGED <<got, toDevice, rejected, tunnel>>
        /\ \/ UNCHANGED <<sent, taken>>
           \/ /\ sent' = [sent EXCEPT ![h] = Append(@, GatherBytes(Header, p))]
              /\ taken' = [taken EXCEPT ![h] = Append(@, Bytes(p))]
    BY <1>2, SumOfParts DEF WatcherEvent, Watch, TunRead, sessionVars, Link!Write
  <2>3. Bytes(p) = s /\ Framed(GatherBytes(Header, p), s)
    BY <2>1, WholeBlock, GatheredIsFramed
  <2> QED
    BY <2>1, <2>2, <2>3, CarriedUnchanged, CarriedWrite DEF Carried
<1>3. ASSUME NEW h \in Hosts, WatcherEventFailing(h)
      PROVE  Carried'
  <2>1. UNCHANGED <<sent, got, taken, toDevice, rejected>> /\ tunnel' = [tunnel EXCEPT ![h] = "crashed"]
    BY <1>3, SumOfParts DEF WatcherEventFailing, Watch, TunRead, sessionVars
  <2> QED
    BY <2>1, CarriedUnchanged DEF Carried, Tunnels
<1>4. ASSUME NEW h \in Hosts, NEW i \in Link!Arriving(h), Arrive(h, i)
      PROVE  Carried'
  BY <1>4, CarriedArrive
<1>5. CASE UNCHANGED vars
  BY <1>5, CarriedUnchanged DEF vars, sessionVars, tunnelVars, Carried
<1> QED
  BY <1>1, <1>2, <1>3, <1>4, <1>5 DEF Next

\* A device is written what the peer's device read, less its first byte, and
\* over an ordered link packet by packet from the first on: for payloads of
\* any length that a size_t can count.
THEOREM PayloadsReachDevice == Spec => []DeviceGetsPayload
<1>1. Carried => DeviceGetsPayload
  BY DEF Carried
<1> QED
  BY <1>1, CarriedInit, CarriedNext, PTL DEF Spec

\* getChannel never throws for a packet of a peer that runs this code.
THEOREM NothingRejected == Spec => []NeverRejects
<1>1. Carried => NeverRejects
  BY DEF Carried
<1> QED
  BY <1>1, CarriedInit, CarriedNext, PTL DEF Spec

-----------------------------------------------------------------------------

\* CrashedByRead with the types it needs.
CrashInv ==
    /\ tunnel \in [Hosts -> Tunnels]
    /\ failed \in [Hosts -> BOOLEAN]
    /\ CrashedByRead

\* With a constructor that works, the program of a host dies of an overrun in
\* Stream::write only after a read() of its device has failed: the sum of the
\* parts fits a size_t for every packet that was read.
THEOREM OverrunOnlyByRead ==
    ASSUME "tun" \in Repairs
    PROVE  Spec => []CrashedByRead
<1> USE DEF CrashInv, CrashedByRead, Tunnels
<1>1. Init => CrashInv
  BY DEF Init
<1>2. CrashInv /\ [Next]_vars => CrashInv'
  <2> SUFFICES ASSUME CrashInv, [Next]_vars
               PROVE  CrashInv'
    OBVIOUS
  <2>1. ASSUME NEW h \in Hosts, Construct(h) \/ Destroy(h) \/ SessionStep(h)
        PROVE  CrashInv'
    <3>1. UNCHANGED failed
      BY <2>1 DEF Construct, Destroy, SessionStep, tunnelVars
    <3>2. tunnel' = tunnel \/ \E t \in Tunnels \ {"crashed"} : tunnel' = [tunnel EXCEPT ![h] = t]
      BY <2>1 DEF Construct, Destroy, SessionStep, tunnelVars
    <3> QED
      BY <3>1, <3>2
  <2>2. ASSUME NEW h \in Hosts, NEW s \in Payloads, WatcherEvent(h, s)
        PROVE  CrashInv'
    <3>1. UNCHANGED <<tunnel, failed>>
      BY <2>2, SumOfParts DEF WatcherEvent, TunRead
    <3> QED
      BY <3>1
  <2>3. ASSUME NEW h \in Hosts, WatcherEventFailing(h)
        PROVE  CrashInv'
    <3>1. /\ failed' = [failed EXCEPT ![h] = TRUE]
          /\ UNCHANGED tunnel \/ tunnel' = [tunnel EXCEPT ![h] = "crashed"]
      BY <2>3 DEF WatcherEventFailing, TunRead
    <3> QED
      BY <3>1
  <2>4. ASSUME NEW h \in Hosts, NEW i, Arrive(h, i)
        PROVE  CrashInv'
    <3>1. UNCHANGED <<tunnel, failed>>
      BY <2>4 DEF Arrive
    <3> QED
      BY <3>1
  <2>5. CASE UNCHANGED vars
    BY <2>5 DEF vars, tunnelVars
  <2> QED
    BY <2>1, <2>2, <2>3, <2>4, <2>5 DEF Next
<1>3. CrashInv => CrashedByRead
  OBVIOUS
<1> QED
  BY <1>1, <1>2, <1>3, PTL DEF Spec

=============================================================================
