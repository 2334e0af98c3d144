-------------------------- MODULE CryptoSessionProofs --------------------------
(***************************************************************************)
(* Proofs about CryptoSession for every number of key epochs and packets,  *)
(* over both kinds of link: one that loses, repeats and reorders datagrams *)
(* and one that does not.                                                  *)
(***************************************************************************)
EXTENDS CryptoSession, TLAPS

\* The members of a sequence.
Elems(s) == {s[i] : i \in 1 .. Len(s)}

\* A record that a session sends: a flight belongs to an epoch there will be,
\* a request for a new handshake to one that has a next, and data was written
\* under keys.
Sound(m) ==
    /\ m \in Messages /\ m.type # "junk"
    /\ m.type \in Flights => m.gen \in 1 .. MaxGen
    /\ m.type = "HelloRequest" => m.gen < MaxGen
    /\ m.type = "data" => m.n \in 1 .. MaxData /\ m.gen > 0

\* The repaired code; TypeOK with the domains of the functions.
Types ==
    /\ repaired
    /\ state \in [Ends -> States]
    /\ pending \in [Ends -> BOOLEAN]
    /\ current \in [Ends -> Messages \cup {NoPacket}]
    /\ permitted \in [Ends -> BOOLEAN]
    /\ gen \in [Ends -> 0 .. MaxGen]
    /\ seen \in [Ends -> SUBSET Messages]
    /\ held \in [Ends -> Messages \cup {NoPacket}]
    /\ net \in [Ends -> Seq(Messages)]
    /\ sent \in [Ends -> 0 .. MaxData]
    /\ delivered \in [Ends -> Seq(1 .. MaxData)]
    /\ asked \subseteq Ends
    /\ admitted \in [Ends -> 0 .. MaxGen]
    /\ cause \in [Ends -> Errors]

\* Every record on the way or put aside is sound.
RecordsSound ==
    \A e \in Ends :
        /\ \A m \in Elems(net[e]) : Sound(m)
        /\ held[e] = NoPacket \/ Sound(held[e])
        /\ current[e] = NoPacket \/ Sound(current[e])

\* What an end that is in no handshake waits for.
Rest(e) == IF e = Client THEN "nothing" ELSE "ClientHello"

\* What an end ever waits for.
Waits(e) == IF e = Client THEN {"nothing", "ServerHello", "ServerFinished"} ELSE {"ClientHello", "ClientFinished"}

\* The state that the program sees agrees with gnutls'.  When open() or
\* handleData() goes on after a listener, gnutls is still at rest.
Handshakes ==
    /\ awaits \in [Ends -> Flights \cup {"nothing"}]
    /\ \A e \in Ends :
        /\ awaits[e] \in Waits(e)
        /\ state[e] \in {"Invalid", "Open"} \/ pending[e] => awaits[e] = Rest(e)
        /\ pending[e] => state[e] \notin {"Invalid", "Open"}
        /\ state[e] \in {"Opening", "Renegotiating"} \/ pending[e] => gen[e] < MaxGen
        /\ state[e] = "Invalid" => gen[e] = 0
        /\ awaits[e] = "ServerFinished" => admitted[e] = gen[e] + 1

\* The keys of the two ends: the server changes them first, on the client's
\* Finished, and the client, which waits for it, on the server's.
Keys ==
    /\ gen[Client] <= gen[Server]
    /\ gen[Server] <= gen[Client] + 1
    /\ gen[Server] # gen[Client] => awaits[Client] = "ServerFinished"
    /\ \A m \in Elems(net[Client]) : m.type = "ServerFinished" => m.gen <= gen[Server]
    /\ \A m \in Elems(net[Server]) : m.type = "ClientFinished" =>
          /\ m.gen <= gen[Client] + 1
          /\ m.gen = gen[Client] + 1 => awaits[Client] = "ServerFinished"

\* The inductive invariant.
IInv == Types /\ RecordsSound /\ Handshakes /\ OpenIsAdmitted /\ Keys

-----------------------------------------------------------------------------
(* gnutls. *)

\* No record is taken for the lack of one.
LEMMA NoPacketApart == NoPacket \notin Messages
  BY DEF NoPacket, Message, Messages, Flights

\* Each end's Other is the other end.
LEMMA OtherEnd ==
    ASSUME NEW e \in Ends
    PROVE  Other(e) \in Ends /\ Other(e) # e /\ Other(Other(e)) = e
  BY EndsAssumption DEF Ends, Other

\* The records in what two ends write, and in what is left of it.
LEMMA ElemsOf ==
    ASSUME NEW S, NEW s \in Seq(S), NEW t \in Seq(S)
    PROVE  /\ Elems(s) \subseteq S
           /\ s \o t \in Seq(S)
           /\ \A m : m \in Elems(s \o t) <=> m \in Elems(s) \/ m \in Elems(t)
<1>1. Elems(s) \subseteq S
  BY DEF Elems
<1>2. s \o t \in Seq(S) /\ Len(s \o t) = Len(s) + Len(t) /\ Len(s) \in Nat /\ Len(t) \in Nat
  OBVIOUS
<1>3. \A i \in 1 .. Len(s) : (s \o t)[i] = s[i]
  OBVIOUS
<1>4. \A i \in 1 .. Len(t) : (s \o t)[Len(s) + i] = t[i]
  OBVIOUS
<1>5. ASSUME NEW m, m \in Elems(s \o t)
      PROVE  m \in Elems(s) \/ m \in Elems(t)
  <2>1. PICK i \in 1 .. Len(s) + Len(t) : m = (s \o t)[i]
    BY <1>2, <1>5 DEF Elems
  <2>2. CASE i \in 1 .. Len(s)
    BY <1>3, <2>1, <2>2 DEF Elems
  <2>3. CASE i \notin 1 .. Len(s)
    <3>1. i - Len(s) \in 1 .. Len(t) /\ Len(s) + (i - Len(s)) = i
      BY <1>2, <2>3
    <3> QED
      BY <1>4, <2>1, <3>1 DEF Elems
  <2> QED
    BY <2>2, <2>3
<1>6. ASSUME NEW m, m \in Elems(s) \/ m \in Elems(t)
      PROVE  m \in Elems(s \o t)
  <2>1. CASE m \in Elems(s)
    <3>1. PICK i \in 1 .. Len(s) : m = s[i]
      BY <2>1 DEF Elems
    <3>2. i \in 1 .. Len(s \o t) /\ m = (s \o t)[i]
      BY <1>2, <1>3, <3>1
    <3> QED
      BY <3>2 DEF Elems
  <2>2. CASE m \in Elems(t)
    <3>1. PICK i \in 1 .. Len(t) : m = t[i]
      BY <2>2 DEF Elems
    <3>2. Len(s) + i \in 1 .. Len(s \o t) /\ m = (s \o t)[Len(s) + i]
      BY <1>2, <1>4, <3>1
    <3> QED
      BY <3>2 DEF Elems
  <2> QED
    BY <1>6, <2>1, <2>2
<1> QED
  BY <1>1, <1>2, <1>5, <1>6

\* In the repaired code nothing is left unsent: a close_notify goes out at once.
LEMMA ByeSent ==
    ASSUME repaired, NEW e
    PROVE  Bye(e) = <<Message("bye", WriteEpoch(e))>>
  BY DEF Bye, Resent, Stalls

\* What a call of gnutls_handshake waits for.
Waiting(e) == IF awaits[e] = "nothing" THEN "ServerHello" ELSE awaits[e]

\* The flight with which a client begins a handshake.
Hello(e) == IF awaits[e] = "nothing" THEN <<Message("ClientHello", gen[e] + 1)>> ELSE <<>>

\* A call of gnutls_handshake that takes nothing in.
Idles(e, m, r) ==
    /\ r.ret \in {"AGAIN", "GOT_APPLICATION_DATA", "SESSION_EOF", "CERTIFICATE_ERROR"}
    /\ r.ret = "GOT_APPLICATION_DATA" => Accepts(e, m) /\ m.type = "data"
    /\ r.out = Hello(e) \o <<>>
    /\ r.awaits = Waiting(e)
    /\ r.gen = gen[e]

\* A call that takes in the flight it waits for, and answers.
Advances(e, m, r, type, ret, answer, next) ==
    /\ Accepts(e, m) /\ m.type = type /\ Waiting(e) = type
    /\ r.ret = ret
    /\ r.out = Hello(e) \o answer
    /\ r.awaits = next
    /\ r.gen = gen[e] + (IF ret = "SUCCESS" THEN 1 ELSE 0)

\* gnutls_handshake as five outcomes: nothing new; the server answers a
\* ClientHello; the client answers a ServerHello, and the server completes on
\* the client's Finished, of a peer that is permitted; the client completes.
Outcomes(e, m, r) ==
    LET g == gen[e] + 1
    IN  \/ Idles(e, m, r)
        \/ Advances(e, m, r, "ClientHello", "AGAIN", <<Message("ServerHello", g)>>, "ClientFinished")
        \/ Advances(e, m, r, "ServerHello", "AGAIN", <<Message("ClientFinished", g)>>, "ServerFinished") /\ permitted[e]
        \/ Advances(e, m, r, "ClientFinished", "SUCCESS", <<Message("ServerFinished", g)>>, "ClientHello") /\ permitted[e]
        \/ Advances(e, m, r, "ServerFinished", "SUCCESS", <<>>, "nothing")

\* gnutls_handshake ends in one of the outcomes.
LEMMA HandshakeOutcomes ==
    ASSUME Types, Handshakes, NEW e \in Ends, NEW m
    PROVE  Outcomes(e, m, GnutlsHandshake(e, m))
<1> DEFINE g == gen[e] + 1
           r == GnutlsHandshake(e, m)
           Answer(ret, out, next, epoch) == [ret |-> ret, out |-> Resent(e) \o Hello(e) \o out, awaits |-> next, gen |-> epoch]
<1>0. gen[e] + 0 = gen[e]
  BY DEF Types
<1>s. ~Stalls(e) /\ Resent(e) \o Hello(e) = Hello(e)
  BY DEF Stalls, Resent, Types, Hello
<1>1. CASE ~Accepts(e, m)
  <2>1. r = Answer("AGAIN", <<>>, Waiting(e), gen[e])
    BY <1>s, <1>1 DEF GnutlsHandshake, Hello, Waiting
  <2> QED
    BY <1>s, <2>1 DEF Outcomes, Idles
<1>2. CASE Accepts(e, m)
  <2>1. \/ r = Answer("GOT_APPLICATION_DATA", <<>>, Waiting(e), gen[e]) /\ m.type = "data"
        \/ r = Answer("SESSION_EOF", <<>>, Waiting(e), gen[e])
        \/ r = Answer("CERTIFICATE_ERROR", <<>>, Waiting(e), gen[e])
        \/ r = Answer("AGAIN", <<>>, Waiting(e), gen[e])
        \/ /\ r = Answer("AGAIN", <<Message("ServerHello", g)>>, "ClientFinished", gen[e])
           /\ m.type = "ClientHello" /\ Waiting(e) = "ClientHello"
        \/ /\ r = Answer("AGAIN", <<Message("ClientFinished", g)>>, "ServerFinished", gen[e])
           /\ m.type = "ServerHello" /\ Waiting(e) = "ServerHello" /\ permitted[e]
        \/ /\ r = Answer("SUCCESS", <<Message("ServerFinished", g)>>, "ClientHello", g)
           /\ m.type = "ClientFinished" /\ Waiting(e) = "ClientFinished" /\ permitted[e]
        \/ /\ r = Answer("SUCCESS", <<>>, "nothing", g)
           /\ m.type = "ServerFinished" /\ Waiting(e) = "ServerFinished"
    BY <1>s, <1>2 DEF GnutlsHandshake, Hello, Waiting, CertificateVerify
  <2> HIDE DEF r
  <2> QED
    BY <1>0, <1>s, <1>2, <2>1 DEF Outcomes, Idles, Advances, r
<1> QED
  BY <1>1, <1>2

\* A flight of the handshake under way is a sound record.
LEMMA FlightSound ==
    ASSUME Types, NEW e \in Ends, gen[e] < MaxGen, NEW type \in Flights
    PROVE  /\ Sound(Message(type, gen[e] + 1))
           /\ Message(type, gen[e] + 1).type = type
           /\ Message(type, gen[e] + 1).gen = gen[e] + 1
  BY BoundsAssumption DEF Types, Sound, Message, Messages, Flights

\* What gnutls_handshake sends.
LEMMA SentByHandshake ==
    ASSUME Types, Handshakes, NEW e \in Ends, NEW m, gen[e] < MaxGen
    PROVE  LET r == GnutlsHandshake(e, m)
           IN  /\ r.out \in Seq(Messages)
               /\ \A x \in Elems(r.out) :
                    /\ Sound(x) /\ x.gen = gen[e] + 1
                    /\ x.type \in Flights
                    /\ x.type = "ServerFinished" => e = Server /\ r.ret = "SUCCESS"
                    /\ x.type = "ClientFinished" => e = Client /\ r.awaits = "ServerFinished"
<1> DEFINE r == GnutlsHandshake(e, m)
           g == gen[e] + 1
<1>1. \A type \in Flights : /\ Sound(Message(type, g)) /\ Message(type, g) \in Messages
                            /\ Message(type, g).type = type /\ Message(type, g).gen = g
  BY FlightSound DEF Sound
<1>2. Hello(e) \in Seq(Messages) /\ \A x \in Elems(Hello(e)) : x = Message("ClientHello", g)
  BY <1>1 DEF Hello, Elems, Flights
<1>3. ASSUME NEW answer \in Seq(Messages), r.out = Hello(e) \o answer
      PROVE  r.out \in Seq(Messages) /\ \A x \in Elems(r.out) : x = Message("ClientHello", g) \/ x \in Elems(answer)
  BY <1>2, <1>3, ElemsOf
<1>4. ASSUME NEW x
      PROVE  <<x>> \in Seq({x}) /\ Elems(<<x>>) = {x} /\ (x \in Messages => <<x>> \in Seq(Messages))
  BY DEF Elems
<1>5. <<>> \in Seq(Messages) /\ Elems(<<>>) = {}
  BY DEF Elems
<1>6. awaits[e] \in Waits(e) /\ Client # Server /\ e \in {Client, Server}
  BY EndsAssumption DEF Handshakes, Ends
<1>7. CASE Idles(e, m, r)
  <2>1. r.out \in Seq(Messages) /\ \A x \in Elems(r.out) : x = Message("ClientHello", g)
    BY <1>3, <1>5, <1>7 DEF Idles
  <2> QED
    BY <1>1, <2>1 DEF Flights
<1>8. CASE Advances(e, m, r, "ClientHello", "AGAIN", <<Message("ServerHello", g)>>, "ClientFinished")
  <2>0. <<Message("ServerHello", g)>> \in Seq(Messages) /\ Elems(<<Message("ServerHello", g)>>) = {Message("ServerHello", g)}
    BY <1>1, <1>4 DEF Flights
  <2>1. r.out \in Seq(Messages) /\ \A x \in Elems(r.out) : x = Message("ClientHello", g) \/ x = Message("ServerHello", g)
    BY <1>3, <1>8, <2>0 DEF Advances
  <2> QED
    BY <1>1, <2>1 DEF Flights
<1>9. CASE Advances(e, m, r, "ServerHello", "AGAIN", <<Message("ClientFinished", g)>>, "ServerFinished")
  <2>0. <<Message("ClientFinished", g)>> \in Seq(Messages) /\ Elems(<<Message("ClientFinished", g)>>) = {Message("ClientFinished", g)}
    BY <1>1, <1>4 DEF Flights
  <2>1. r.out \in Seq(Messages) /\ \A x \in Elems(r.out) : x = Message("ClientHello", g) \/ x = Message("ClientFinished", g)
    BY <1>3, <1>9, <2>0 DEF Advances
  <2>2. e = Client /\ r.awaits = "ServerFinished"
    BY <1>6, <1>9 DEF Advances, Waiting, Waits
  <2> QED
    BY <1>1, <2>1, <2>2 DEF Flights
<1>10. CASE Advances(e, m, r, "ClientFinished", "SUCCESS", <<Message("ServerFinished", g)>>, "ClientHello")
  <2>0. <<Message("ServerFinished", g)>> \in Seq(Messages) /\ Elems(<<Message("ServerFinished", g)>>) = {Message("ServerFinished", g)}
    BY <1>1, <1>4 DEF Flights
  <2>1. r.out \in Seq(Messages) /\ \A x \in Elems(r.out) : x = Message("ClientHello", g) \/ x = Message("ServerFinished", g)
    BY <1>3, <1>10, <2>0 DEF Advances
  <2>2. e = Server /\ r.ret = "SUCCESS"
    BY <1>6, <1>10 DEF Advances, Waiting, Waits
  <2> QED
    BY <1>1, <2>1, <2>2 DEF Flights
<1>11. CASE Advances(e, m, r, "ServerFinished", "SUCCESS", <<>>, "nothing")
  <2>1. r.out \in Seq(Messages) /\ \A x \in Elems(r.out) : x = Message("ClientHello", g)
    BY <1>3, <1>5, <1>11 DEF Advances
  <2> QED
    BY <1>1, <2>1 DEF Flights
<1> QED
  BY <1>7, <1>8, <1>9, <1>10, <1>11, HandshakeOutcomes DEF Outcomes

\* Records pushed by e reach the other end, after what was there.
LEMMA ExchangeNet ==
    ASSUME Types, NEW e \in Ends, NEW rest \in Seq(Messages), NEW out \in Seq(Messages),
           Exchange(e, rest, out)
    PROVE  /\ net' \in [Ends -> Seq(Messages)]
           /\ net'[e] = rest
           /\ \A x : x \in Elems(net'[Other(e)]) <=> x \in Elems(net[Other(e)]) \/ x \in Elems(out)
<1>1. net[Other(e)] \in Seq(Messages) /\ net[Other(e)] \o out \in Seq(Messages)
  BY OtherEnd, ElemsOf DEF Types
<1>2. /\ net' \in [Ends -> Seq(Messages)]
      /\ net'[e] = rest
      /\ net'[Other(e)] = net[Other(e)] \o out
  BY <1>1, OtherEnd DEF Types, Exchange
<1> QED
  BY <1>1, <1>2, ElemsOf

-----------------------------------------------------------------------------
(* The session's handlers. *)

\* What handleHandshake leaves of the session and of gnutls, by the outcome.
LEMMA HandshakeEffect ==
    ASSUME Types, Handshakes, NEW e \in Ends, NEW m, m = NoPacket \/ Sound(m),
           NEW rest, HandleHandshake(e, m, rest),
           gen[e] < MaxGen, state[e] \notin {"Invalid", "Open"}
    PROVE  \/ /\ state'[e] \in {state[e], "Aborted"}
              /\ gen'[e] = gen[e]
              /\ awaits'[e] = Waiting(e)
              /\ awaits'[e] = "ServerFinished" => admitted'[e] = admitted[e]
           \/ /\ e = Server /\ state'[e] = state[e] /\ gen'[e] = gen[e]
              /\ awaits'[e] = "ClientFinished"
           \/ /\ e = Client /\ state'[e] = state[e] /\ gen'[e] = gen[e]
              /\ Waiting(e) = "ServerHello" /\ awaits'[e] = "ServerFinished"
              /\ admitted'[e] = gen[e] + 1
           \/ /\ e = Server /\ state'[e] = "Open" /\ gen'[e] = gen[e] + 1
              /\ m.type = "ClientFinished" /\ m.gen = gen[e] + 1
              /\ awaits[e] = "ClientFinished" /\ awaits'[e] = "ClientHello"
              /\ admitted'[e] = gen[e] + 1
           \/ /\ e = Client /\ state'[e] = "Open" /\ gen'[e] = gen[e] + 1
              /\ m.type = "ServerFinished" /\ m.gen = gen[e] + 1
              /\ awaits[e] = "ServerFinished" /\ awaits'[e] = "nothing"
              /\ admitted'[e] = admitted[e]
<1> DEFINE r == GnutlsHandshake(e, m)
<1>1. /\ state'[e] = AfterHandshake(e, r.ret)
      /\ awaits'[e] = r.awaits
      /\ gen'[e] = r.gen
      /\ admitted'[e] = IF /\ m # NoPacket /\ m.type \in {"ServerHello", "ClientFinished"}
                           /\ permitted[e] /\ r.awaits # awaits[e]
                        THEN m.gen ELSE admitted[e]
  BY DEF HandleHandshake, Types, Handshakes
<1>2. /\ r.ret \in {"AGAIN", "GOT_APPLICATION_DATA"} => state'[e] = state[e]
      /\ r.ret = "SUCCESS" => state'[e] = "Open"
      /\ r.ret \in {"SESSION_EOF", "CERTIFICATE_ERROR"} => state'[e] = "Aborted"
  BY <1>1 DEF AfterHandshake
<1>3. Outcomes(e, m, r)
  BY HandshakeOutcomes
<1>4. awaits[e] \in Waits(e) /\ Client # Server /\ e \in {Client, Server} /\ gen[e] \in Nat
  BY EndsAssumption DEF Handshakes, Ends, Types
<1>5. Accepts(e, m) /\ m.type \in Flights => m # NoPacket /\ m.gen = gen[e] + 1
  BY <1>4 DEF Accepts, Epoch, Sound, Messages
<1> HIDE DEF r
<1>6. CASE Idles(e, m, r)
  BY <1>1, <1>2, <1>4, <1>6 DEF Idles, Waiting
<1>7. CASE Advances(e, m, r, "ClientHello", "AGAIN", <<Message("ServerHello", gen[e] + 1)>>, "ClientFinished")
  BY <1>1, <1>2, <1>4, <1>7 DEF Advances, Waiting, Waits
<1>8. CASE /\ Advances(e, m, r, "ServerHello", "AGAIN", <<Message("ClientFinished", gen[e] + 1)>>, "ServerFinished")
           /\ permitted[e]
  BY <1>1, <1>2, <1>4, <1>5, <1>8 DEF Advances, Waiting, Waits, Flights
<1>9. CASE /\ Advances(e, m, r, "ClientFinished", "SUCCESS", <<Message("ServerFinished", gen[e] + 1)>>, "ClientHello")
           /\ permitted[e]
  BY <1>1, <1>2, <1>4, <1>5, <1>9 DEF Advances, Waiting, Waits, Flights
<1>10. CASE Advances(e, m, r, "ServerFinished", "SUCCESS", <<>>, "nothing")
  BY <1>1, <1>2, <1>4, <1>5, <1>10 DEF Advances, Waiting, Waits, Flights
<1> QED
  BY <1>3, <1>6, <1>7, <1>8, <1>9, <1>10 DEF Outcomes

\* A call of handleHandshake: by handlePacket with the datagram just read, or
\* by open() or handleData() after their listener, when gnutls is at rest.
Shaking(e, m, rest) ==
    /\ HandleHandshake(e, m, rest)
    /\ m = NoPacket \/ Sound(m)
    /\ rest \in Seq(Messages) /\ Elems(rest) \subseteq Elems(net[e])
    /\ gen[e] < MaxGen /\ state[e] \notin {"Invalid", "Open"}
    /\ m \in Elems(net[e]) \/ awaits[e] = Rest(e)
    /\ pending' = [pending EXCEPT ![e] = FALSE]
    /\ held' \in [Ends -> Messages \cup {NoPacket}]
    /\ current' \in [Ends -> Messages \cup {NoPacket}]
    /\ \A x \in Ends : held'[x] \in {held[x], NoPacket} /\ current'[x] \in {current[x], NoPacket}

\* handleHandshake keeps every variable in its type.
LEMMA HandshakeTypes ==
    ASSUME Types, Handshakes, NEW e \in Ends, NEW m, NEW rest, Shaking(e, m, rest)
    PROVE  Types'
<1> DEFINE r == GnutlsHandshake(e, m)
<1>0. HandleHandshake(e, m, rest) /\ (m = NoPacket \/ Sound(m)) /\ rest \in Seq(Messages) /\ gen[e] < MaxGen
  BY DEF Shaking
<1>1. Outcomes(e, m, r)
  BY HandshakeOutcomes
<1>2. /\ r.ret \in {"AGAIN", "GOT_APPLICATION_DATA", "SESSION_EOF", "CERTIFICATE_ERROR", "SUCCESS"}
      /\ r.ret = "GOT_APPLICATION_DATA" => Accepts(e, m) /\ m.type = "data"
  BY <1>1 DEF Outcomes, Idles, Advances
<1>3. gen'[e] \in 0 .. MaxGen
  <2>1. gen'[e] = gen[e] \/ gen'[e] = gen[e] + 1
    BY <1>0, HandshakeEffect DEF Shaking
  <2> QED
    BY <1>0, <2>1, BoundsAssumption DEF Types
<1>4. r.out \in Seq(Messages)
  BY <1>0, SentByHandshake
<1>5. net' \in [Ends -> Seq(Messages)]
  BY <1>0, <1>4, ExchangeNet DEF HandleHandshake
<1> HIDE DEF r
<1>6. state' \in [Ends -> States]
  BY <1>0, <1>2 DEF HandleHandshake, Types, AfterHandshake, States, r
<1>7. gen' \in [Ends -> 0 .. MaxGen]
  BY <1>0, <1>3 DEF HandleHandshake, Types
<1>8. seen' \in [Ends -> SUBSET Messages]
  BY <1>0 DEF HandleHandshake, Types, Sound
<1>9. delivered' \in [Ends -> Seq(1 .. MaxData)]
  <2>1. CASE r.ret = "GOT_APPLICATION_DATA"
    <3>1. m.n \in 1 .. MaxData
      BY <1>0, <1>2, <2>1 DEF Accepts, Sound
    <3>2. delivered' = [delivered EXCEPT ![e] = Append(delivered[e], m.n)]
      BY <1>0, <2>1 DEF HandleHandshake, HandshakeData, r
    <3>3. delivered[e] \in Seq(1 .. MaxData) /\ delivered \in [Ends -> Seq(1 .. MaxData)]
      BY DEF Types
    <3>4. Append(delivered[e], m.n) \in Seq(1 .. MaxData)
      BY <3>1, <3>3
    <3> QED
      BY <3>2, <3>3, <3>4
  <2>2. CASE r.ret # "GOT_APPLICATION_DATA"
    BY <1>0, <2>2 DEF HandleHandshake, HandshakeData, r, Types
  <2> QED
    BY <2>1, <2>2
<1>10. admitted' \in [Ends -> 0 .. MaxGen]
  <2>1. m # NoPacket /\ m.type \in {"ServerHello", "ClientFinished"} => m.gen \in 0 .. MaxGen
    BY <1>0 DEF Sound, Flights
  <2>2. admitted'[e] \in 0 .. MaxGen
    BY <1>0, <2>1 DEF HandleHandshake, Types
  <2> QED
    BY <1>0, <2>2 DEF HandleHandshake, Types
<1>11. cause' \in [Ends -> Errors]
  <2>1. AfterHandshake(e, r.ret) = "Aborted" /\ state[e] # "Aborted" => r.ret \in Errors
    BY <1>2 DEF AfterHandshake, Errors
  <2> QED
    BY <1>0, <2>1 DEF HandleHandshake, Types, r
<1>12. /\ sent' \in [Ends -> 0 .. MaxData] /\ asked' \subseteq Ends
       /\ held' \in [Ends -> Messages \cup {NoPacket}] /\ current' \in [Ends -> Messages \cup {NoPacket}]
  BY <1>0 DEF HandleHandshake, Types, Shaking
<1>13. pending' \in [Ends -> BOOLEAN] /\ permitted' \in [Ends -> BOOLEAN]
  BY <1>0, Zenon DEF HandleHandshake, Types, Shaking
<1>14. repaired' = repaired
  BY <1>0 DEF HandleHandshake, program
<1> QED
  BY <1>5, <1>6, <1>7, <1>8, <1>9, <1>10, <1>11, <1>12, <1>13, <1>14 DEF Types

\* handleHandshake keeps the program's state and gnutls' in step, changes to
\* keys only with a peer that was admitted, and in the order of Keys.
LEMMA HandshakeStep ==
    ASSUME IInv, NEW e \in Ends, NEW m, NEW rest, Shaking(e, m, rest)
    PROVE  IInv'
<1> DEFINE r == GnutlsHandshake(e, m)
<1> USE DEF IInv
<1>0. /\ HandleHandshake(e, m, rest) /\ (m = NoPacket \/ Sound(m)) /\ rest \in Seq(Messages) /\ gen[e] < MaxGen
      /\ Elems(rest) \subseteq Elems(net[e]) /\ state[e] \notin {"Invalid", "Open"}
      /\ m \in Elems(net[e]) \/ awaits[e] = Rest(e)
  BY DEF Shaking
<1>types. Types'
  BY HandshakeTypes
<1>1. /\ \A x \in Ends \ {e} : /\ state'[x] = state[x] /\ awaits'[x] = awaits[x]
                               /\ gen'[x] = gen[x] /\ admitted'[x] = admitted[x]
      /\ awaits' \in [Ends -> Flights \cup {"nothing"}]
  <2>0. Outcomes(e, m, r) /\ awaits[e] \in Flights \cup {"nothing"}
    BY HandshakeOutcomes DEF Handshakes
  <2> HIDE DEF r
  <2>1. r.awaits \in Flights \cup {"nothing"}
    BY <2>0 DEF Outcomes, Idles, Advances, Waiting, Flights
  <2> QED
    BY <1>0, <2>1 DEF HandleHandshake, Types, Handshakes, r
<1>2. /\ ~pending'[e]
      /\ \A x \in Ends \ {e} : pending'[x] <=> pending[x]
  BY Zenon DEF Shaking, Types
<1>3. /\ net'[e] = rest
      /\ \A x : x \in Elems(net'[Other(e)]) <=> x \in Elems(net[Other(e)]) \/ x \in Elems(r.out)
  BY <1>0, ExchangeNet, SentByHandshake DEF HandleHandshake
<1>4. \A x \in Elems(r.out) :
          /\ Sound(x) /\ x.gen = gen[e] + 1
          /\ x.type \in Flights
          /\ x.type = "ServerFinished" => e = Server /\ state'[e] = "Open"
          /\ x.type = "ClientFinished" => e = Client /\ awaits'[e] = "ServerFinished"
  <2>1. /\ r.ret = "SUCCESS" => state'[e] = "Open"
        /\ awaits'[e] = r.awaits
    BY <1>0 DEF HandleHandshake, Types, Handshakes, AfterHandshake
  <2> QED
    BY <1>0, <2>1, SentByHandshake
<1>5. \A x \in Ends : x = e \/ x = Other(e)
  BY EndsAssumption DEF Ends, Other
<1> DEFINE Effect ==
       \/ /\ state'[e] \in {state[e], "Aborted"}
          /\ gen'[e] = gen[e]
          /\ awaits'[e] = Waiting(e)
          /\ awaits'[e] = "ServerFinished" => admitted'[e] = admitted[e]
       \/ /\ e = Server /\ state'[e] = state[e] /\ gen'[e] = gen[e]
          /\ awaits'[e] = "ClientFinished"
       \/ /\ e = Client /\ state'[e] = state[e] /\ gen'[e] = gen[e]
          /\ Waiting(e) = "ServerHello" /\ awaits'[e] = "ServerFinished"
          /\ admitted'[e] = gen[e] + 1
       \/ /\ e = Server /\ state'[e] = "Open" /\ gen'[e] = gen[e] + 1
          /\ m.type = "ClientFinished" /\ m.gen = gen[e] + 1
          /\ awaits[e] = "ClientFinished" /\ awaits'[e] = "ClientHello"
          /\ admitted'[e] = gen[e] + 1
       \/ /\ e = Client /\ state'[e] = "Open" /\ gen'[e] = gen[e] + 1
          /\ m.type = "ServerFinished" /\ m.gen = gen[e] + 1
          /\ awaits[e] = "ServerFinished" /\ awaits'[e] = "nothing"
          /\ admitted'[e] = admitted[e]
<1>6. Effect
  BY <1>0, HandshakeEffect
<1>7. /\ awaits[e] \in Waits(e) /\ Client # Server /\ e \in {Client, Server} /\ Client \in Ends /\ Server \in Ends
      /\ \A x \in Ends : gen[x] \in Nat /\ gen'[x] \in Nat
      /\ awaits[e] = "ServerFinished" => admitted[e] = gen[e] + 1
  <2>1. \A x \in Ends : gen[x] \in Nat /\ gen'[x] \in Nat
    BY <1>types, BoundsAssumption DEF Types
  <2> QED
    BY <2>1, EndsAssumption DEF Handshakes, Ends
<1> HIDE DEF r
<1>records. RecordsSound'
  <2> SUFFICES ASSUME NEW x \in Ends
               PROVE  /\ \A y \in Elems(net'[x]) : Sound(y)
                      /\ held'[x] = NoPacket \/ Sound(held'[x])
                      /\ current'[x] = NoPacket \/ Sound(current'[x])
    BY DEF RecordsSound
  <2>1. (held'[x] = NoPacket \/ Sound(held'[x])) /\ (current'[x] = NoPacket \/ Sound(current'[x]))
    BY DEF RecordsSound, Shaking
  <2>2. \A y \in Elems(net'[x]) : Sound(y)
    BY <1>0, <1>3, <1>4, <1>5, OtherEnd DEF RecordsSound
  <2> QED
    BY <2>1, <2>2
<1>shakes. Handshakes'
  <2>1. \A x \in Ends \ {e} :
            /\ awaits'[x] \in Waits(x)
            /\ state'[x] \in {"Invalid", "Open"} \/ pending'[x] => awaits'[x] = Rest(x)
            /\ pending'[x] => state'[x] \notin {"Invalid", "Open"}
            /\ state'[x] \in {"Opening", "Renegotiating"} \/ pending'[x] => gen'[x] < MaxGen
            /\ state'[x] = "Invalid" => gen'[x] = 0
            /\ awaits'[x] = "ServerFinished" => admitted'[x] = gen'[x] + 1
    BY <1>1, <1>2 DEF Handshakes
  <2>2. /\ awaits'[e] \in Waits(e)
        /\ state'[e] \in {"Invalid", "Open"} => awaits'[e] = Rest(e)
        /\ state'[e] # "Invalid"
    BY <1>0, <1>6, <1>7 DEF Waits, Rest, Waiting
  <2>3. state'[e] \in {"Opening", "Renegotiating"} => gen'[e] < MaxGen
    BY <1>0, <1>6
  <2>4. awaits'[e] = "ServerFinished" => admitted'[e] = gen'[e] + 1
    BY <1>6, <1>7 DEF Waiting
  <2> QED
    BY <1>1, <1>2, <2>1, <2>2, <2>3, <2>4 DEF Handshakes, Waits, Rest
<1>admits. OpenIsAdmitted'
  <2>1. state'[e] = "Open" => gen'[e] > 0 /\ admitted'[e] = gen'[e]
    BY <1>0, <1>6, <1>7
  <2> QED
    BY <1>1, <2>1 DEF OpenIsAdmitted
<1>keys. Keys'
  <2>0. /\ gen[Client] <= gen[Server] /\ gen[Server] <= gen[Client] + 1
        /\ gen[Server] # gen[Client] => awaits[Client] = "ServerFinished"
        /\ \A x \in Elems(net[Client]) : x.type = "ServerFinished" => x.gen <= gen[Server]
        /\ \A x \in Elems(net[Server]) : x.type = "ClientFinished" =>
              /\ x.gen <= gen[Client] + 1
              /\ x.gen = gen[Client] + 1 => awaits[Client] = "ServerFinished"
    BY DEF Keys
  <2>n. \A x \in Ends : \A y \in Elems(net[x]) : y.gen \in Nat
    BY DEF RecordsSound, Sound, Messages
  <2>1. CASE e = Server
    <3>1. /\ gen'[Client] = gen[Client] /\ awaits'[Client] = awaits[Client]
          /\ Elems(net'[Server]) \subseteq Elems(net[Server])
          /\ \A x : x \in Elems(net'[Client]) => x \in Elems(net[Client]) \/ x \in Elems(r.out)
      BY <1>0, <1>1, <1>3, <1>7, <2>1 DEF Other
    <3>2. CASE gen'[e] = gen[e] /\ state'[e] # "Open"
      <4>1. \A x \in Elems(r.out) : x.type # "ServerFinished"
        BY <1>4, <3>2
      <4> QED
        BY <2>0, <2>1, <3>1, <3>2, <4>1 DEF Keys
    <3>3. CASE /\ gen'[e] = gen[e] + 1 /\ m.type = "ClientFinished" /\ m.gen = gen[e] + 1
               /\ awaits[e] = "ClientFinished"
      <4>1. m \in Elems(net[Server])
        BY <1>0, <1>7, <2>1, <3>3 DEF Rest
      <4>2. gen[Server] = gen[Client] /\ awaits[Client] = "ServerFinished"
        BY <1>7, <2>0, <2>1, <3>3, <4>1
      <4>3. gen'[Server] = gen[Client] + 1
        BY <2>1, <3>3, <4>2
      <4>4. \A x \in Elems(net'[Client]) : x.type = "ServerFinished" => x.gen <= gen'[Server]
        <5>1. \A x \in Elems(r.out) : x.gen <= gen'[Server]
          BY <1>4, <1>7, <2>1, <3>3
        <5>2. \A x \in Elems(net[Client]) : x.type = "ServerFinished" => x.gen <= gen'[Server]
          BY <1>7, <2>0, <2>1, <2>n, <3>3
        <5> QED
          BY <3>1, <5>1, <5>2
      <4>5. gen'[Client] <= gen'[Server] /\ gen'[Server] <= gen'[Client] + 1
        BY <1>7, <3>1, <4>3
      <4>6. \A x \in Elems(net'[Server]) : x.type = "ClientFinished" =>
              /\ x.gen <= gen'[Client] + 1
              /\ x.gen = gen'[Client] + 1 => awaits'[Client] = "ServerFinished"
        BY <2>0, <3>1
      <4> QED
        BY <3>1, <4>2, <4>4, <4>5, <4>6 DEF Keys
    <3> QED
      BY <1>0, <1>6, <1>7, <2>1, <3>2, <3>3
  <2>2. CASE e = Client
    <3>1. /\ gen'[Server] = gen[Server]
          /\ Elems(net'[Client]) \subseteq Elems(net[Client])
          /\ \A x : x \in Elems(net'[Server]) => x \in Elems(net[Server]) \/ x \in Elems(r.out)
      BY <1>0, <1>1, <1>3, <1>7, <2>2 DEF Other
    <3>2. CASE gen'[e] = gen[e] /\ (awaits[e] = "ServerFinished" => awaits'[e] = "ServerFinished")
      <4>1. \A x \in Elems(r.out) : x.type = "ClientFinished" =>
                x.gen <= gen'[Client] + 1 /\ awaits'[Client] = "ServerFinished"
        BY <1>4, <1>7, <2>2, <3>2
      <4> QED
        BY <2>0, <2>2, <3>1, <3>2, <4>1 DEF Keys
    <3>3. CASE /\ gen'[e] = gen[e] + 1 /\ m.type = "ServerFinished" /\ m.gen = gen[e] + 1
               /\ awaits[e] = "ServerFinished" /\ awaits'[e] = "nothing"
      <4>1. m \in Elems(net[Client])
        BY <1>0, <1>7, <2>2, <3>3 DEF Rest
      <4>2. gen[Server] = gen[Client] + 1
        BY <1>7, <2>0, <2>2, <3>3, <4>1
      <4>3. gen'[Client] = gen[Server]
        BY <2>2, <3>3, <4>2
      <4>4. \A x \in Elems(net[Server]) : x.type = "ClientFinished" => x.gen <= gen'[Client] /\ x.gen # gen'[Client] + 1
        <5>1. \A x \in Elems(net[Server]) : x.type = "ClientFinished" => x.gen <= gen'[Client]
          BY <2>0, <2>2, <3>3
        <5> QED
          BY <1>7, <2>n, <5>1
      <4>5. \A x \in Elems(r.out) : x.type # "ClientFinished"
        BY <1>4, <3>3
      <4>6. \A x \in Elems(net'[Server]) : x.type = "ClientFinished" => x.gen <= gen'[Client] + 1 /\ x.gen # gen'[Client] + 1
        <5>1. \A x \in Elems(net'[Server]) : x.type = "ClientFinished" => x \in Elems(net[Server])
          BY <3>1, <4>5
        <5>2. \A x \in Elems(net[Server]) : x.type = "ClientFinished" => x.gen <= gen'[Client] + 1 /\ x.gen # gen'[Client] + 1
          BY <1>7, <2>n, <4>4
        <5> QED
          BY <5>1, <5>2
      <4>7. gen'[Client] <= gen'[Server] /\ gen'[Server] <= gen'[Client] + 1 /\ gen'[Server] = gen'[Client]
        BY <1>7, <3>1, <4>3
      <4>8. \A x \in Elems(net'[Client]) : x.type = "ServerFinished" => x.gen <= gen'[Server]
        BY <2>0, <3>1
      <4> QED
        BY <4>6, <4>7, <4>8 DEF Keys
    <3> QED
      BY <1>0, <1>6, <1>7, <2>2, <3>2, <3>3 DEF Waiting
  <2> QED
    BY <1>7, <2>1, <2>2
<1> QED
  BY <1>types, <1>records, <1>shakes, <1>admits, <1>keys

\* A step outside the handshake: it sends no Finished and leaves gnutls'
\* handshake alone.
Quiet(e) ==
    /\ UNCHANGED <<awaits, gen, admitted>>
    /\ \A x \in Ends : \A y \in Elems(net'[x]) :
          y \in Elems(net[x]) \/ (Sound(y) /\ y.type \notin {"ServerFinished", "ClientFinished"})
    /\ \A x \in Ends : /\ held'[x] \in {held[x], NoPacket} \cup Elems(net[x])
                       /\ current'[x] \in {current[x], NoPacket} \cup Elems(net[x])
    /\ \A x \in Ends \ {e} : state'[x] = state[x] /\ (pending'[x] <=> pending[x])
    /\ state'[e] \in {"Invalid", "Open"} => state'[e] = state[e]
    /\ pending'[e] => state'[e] \notin {"Invalid", "Open"} /\ (pending[e] \/ state[e] \in {"Invalid", "Open"})
    /\ state'[e] \in {"Opening", "Renegotiating"} \/ pending'[e] => gen[e] < MaxGen

\* Such a step keeps the invariant.
LEMMA QuietStep ==
    ASSUME IInv, Types', NEW e \in Ends, Quiet(e)
    PROVE  IInv'
<1> USE DEF IInv
<1>1. RecordsSound'
  BY DEF RecordsSound, Quiet
<1>2. Handshakes'
  <2> SUFFICES ASSUME NEW x \in Ends
               PROVE  /\ awaits'[x] \in Waits(x)
                      /\ state'[x] \in {"Invalid", "Open"} \/ pending'[x] => awaits'[x] = Rest(x)
                      /\ pending'[x] => state'[x] \notin {"Invalid", "Open"}
                      /\ state'[x] \in {"Opening", "Renegotiating"} \/ pending'[x] => gen'[x] < MaxGen
                      /\ state'[x] = "Invalid" => gen'[x] = 0
                      /\ awaits'[x] = "ServerFinished" => admitted'[x] = gen'[x] + 1
    BY DEF Handshakes, Quiet, Waits, Rest
  <2>1. awaits'[x] = awaits[x] /\ gen'[x] = gen[x] /\ admitted'[x] = admitted[x]
    BY DEF Quiet
  <2>2. CASE x = e
    BY <2>1, <2>2 DEF Handshakes, Quiet
  <2>3. CASE x # e
    BY <2>1, <2>3 DEF Handshakes, Quiet
  <2> QED
    BY <2>2, <2>3
<1>3. OpenIsAdmitted'
  <2> SUFFICES ASSUME NEW x \in Ends, state'[x] = "Open"
               PROVE  gen'[x] > 0 /\ admitted'[x] = gen'[x]
    BY DEF OpenIsAdmitted
  <2>1. state[x] = "Open" /\ gen'[x] = gen[x] /\ admitted'[x] = admitted[x]
    BY DEF Quiet
  <2> QED
    BY <2>1 DEF OpenIsAdmitted
<1>4. Keys'
  <2>1. Client \in Ends /\ Server \in Ends
    BY DEF Ends
  <2>2. awaits' = awaits /\ gen' = gen
    BY DEF Quiet
  <2>3. /\ \A y \in Elems(net'[Client]) : y.type = "ServerFinished" => y \in Elems(net[Client])
        /\ \A y \in Elems(net'[Server]) : y.type = "ClientFinished" => y \in Elems(net[Server])
    BY <2>1 DEF Quiet
  <2> QED
    BY <2>2, <2>3 DEF Keys
<1> QED
  BY <1>1, <1>2, <1>3, <1>4

\* A datagram written to the link is all that comes to it.
LEMMA SendNet ==
    ASSUME Types, NEW e \in Ends, NEW rest \in Seq(Messages), Elems(rest) \subseteq Elems(net[e]),
           NEW x \in Messages, Sound(x), x.type \notin {"ServerFinished", "ClientFinished"},
           Exchange(e, rest, <<x>>) \/ Exchange(e, rest, <<>>)
    PROVE  /\ net' \in [Ends -> Seq(Messages)]
           /\ \A z \in Ends : \A y \in Elems(net'[z]) :
                y \in Elems(net[z]) \/ (Sound(y) /\ y.type \notin {"ServerFinished", "ClientFinished"})
<1>1. PICK out \in {<<x>>, <<>>} : Exchange(e, rest, out)
  OBVIOUS
<1>2. out \in Seq(Messages) /\ \A y \in Elems(out) : y = x
  <2>1. CASE out = <<x>>
    BY <2>1 DEF Elems
  <2>2. CASE out = <<>>
    BY <2>2 DEF Elems
  <2> QED
    BY <1>1, <2>1, <2>2
<1>3. /\ net' \in [Ends -> Seq(Messages)]
      /\ net'[e] = rest
      /\ \A y : y \in Elems(net'[Other(e)]) <=> y \in Elems(net[Other(e)]) \/ y \in Elems(out)
  BY <1>1, <1>2, ExchangeNet
<1>4. \A z \in Ends : z = e \/ z = Other(e)
  BY EndsAssumption DEF Ends, Other
<1> QED
  BY <1>2, <1>3, <1>4

\* Records other than a handshake's flights are sound.
LEMMA OtherRecords ==
    ASSUME IInv, NEW e \in Ends
    PROVE  /\ Sound(Message("bye", WriteEpoch(e)))
           /\ gen[e] < MaxGen => Sound(Message("HelloRequest", gen[e]))
           /\ state[e] = "Open" /\ sent[e] < MaxData => Sound(Data(WriteEpoch(e), sent[e] + 1))
<1>1. gen[e] \in 0 .. MaxGen /\ sent[e] \in 0 .. MaxData /\ MaxGen \in Nat /\ MaxData \in Nat
  BY BoundsAssumption DEF IInv, Types
<1>2. WriteEpoch(e) \in 0 .. MaxGen + 1
  BY <1>1 DEF WriteEpoch
<1>3. state[e] = "Open" => WriteEpoch(e) > 0
  BY <1>1 DEF IInv, OpenIsAdmitted, WriteEpoch
<1>4. Sound(Message("bye", WriteEpoch(e)))
  BY <1>1, <1>2 DEF Sound, Message, Messages, Flights
<1>5. gen[e] < MaxGen => Sound(Message("HelloRequest", gen[e]))
  BY <1>1 DEF Sound, Message, Messages, Flights
<1>6. state[e] = "Open" /\ sent[e] < MaxData => Sound(Data(WriteEpoch(e), sent[e] + 1))
  BY <1>1, <1>2, <1>3 DEF Sound, Data, Messages, Flights
<1> QED
  BY <1>4, <1>5, <1>6

\* open()
LEMMA OpenStep ==
    ASSUME IInv, NEW e \in Ends, Open(e)
    PROVE  IInv'
<1> USE DEF IInv
<1>1. /\ state' \in [Ends -> States] /\ current' = current /\ gen' = gen /\ seen' = seen
      /\ held' = held /\ net' = net /\ sent' = sent /\ delivered' = delivered /\ asked' = asked
      /\ admitted' = admitted /\ cause' = cause /\ permitted' = permitted /\ awaits' = awaits
  BY DEF Open, Types, States, gnutlsVars, history
<1>2. pending' \in [Ends -> BOOLEAN] /\ repaired' /\ \A x \in Ends \ {e} : pending'[x] <=> pending[x]
  BY Zenon DEF Open, Types, program
<1>3. Types'
  BY <1>1, <1>2 DEF Types
<1>4. gen[e] < MaxGen /\ state[e] = "Invalid" /\ state'[e] = "Opening"
  BY BoundsAssumption DEF Open, Handshakes, Types
<1>5. \A x \in Ends \ {e} : state'[x] = state[x]
  BY DEF Open, Types
<1>6. Quiet(e)
  BY <1>1, <1>2, <1>4, <1>5 DEF Quiet
<1> QED
  BY <1>3, <1>6, QuietStep

\* permissiblePeers()
LEMMA PermissiblePeersStep ==
    ASSUME IInv, NEW e \in Ends, PermissiblePeers(e)
    PROVE  IInv'
<1> USE DEF IInv
<1>1. /\ state' = state /\ current' = current /\ gen' = gen /\ seen' = seen /\ pending' = pending
      /\ held' = held /\ net' = net /\ sent' = sent /\ delivered' = delivered /\ asked' = asked
      /\ admitted' = admitted /\ cause' = cause /\ awaits' = awaits
  BY DEF PermissiblePeers, gnutlsVars, history
<1>2. permitted' \in [Ends -> BOOLEAN] /\ repaired'
  BY Zenon DEF PermissiblePeers, Types, program
<1>3. Types'
  BY <1>1, <1>2 DEF Types
<1>4. Quiet(e)
  BY <1>1 DEF Quiet, Handshakes
<1> QED
  BY <1>3, <1>4, QuietStep

\* renegotiate()
LEMMA RenegotiateStep ==
    ASSUME IInv, NEW e \in Ends, Renegotiate(e)
    PROVE  IInv'
<1> USE DEF IInv
<1>1. /\ state' \in [Ends -> States] /\ current' = current /\ gen' = gen /\ seen' = seen /\ pending' = pending
      /\ held' = held /\ sent' = sent /\ delivered' = delivered /\ asked' = asked
      /\ admitted' = admitted /\ cause' = cause /\ permitted' = permitted /\ awaits' = awaits
      /\ gen[e] < MaxGen /\ state[e] = "Open" /\ state'[e] = "Renegotiating"
      /\ \A x \in Ends \ {e} : state'[x] = state[x]
  BY DEF Renegotiate, Types, States, gnutlsVars, history
<1>2. /\ Exchange(e, net[e], <<Message("HelloRequest", gen[e])>>) \/ Exchange(e, net[e], <<>>)
      /\ Sound(Message("HelloRequest", gen[e]))
      /\ Message("HelloRequest", gen[e]).type = "HelloRequest"
      /\ net[e] \in Seq(Messages)
  BY <1>1, OtherRecords DEF Renegotiate, Message, Types
<1>3. /\ net' \in [Ends -> Seq(Messages)]
      /\ \A z \in Ends : \A y \in Elems(net'[z]) :
            y \in Elems(net[z]) \/ (Sound(y) /\ y.type \notin {"ServerFinished", "ClientFinished"})
  BY <1>2, SendNet DEF Sound
<1>4. Types'
  BY <1>1, <1>3 DEF Types, Renegotiate, program
<1>5. Quiet(e)
  BY <1>1, <1>3 DEF Quiet, Handshakes
<1> QED
  BY <1>4, <1>5, QuietStep

\* close()
LEMMA CloseStep ==
    ASSUME IInv, NEW e \in Ends, Close(e)
    PROVE  IInv'
<1> USE DEF IInv
<1>1. /\ state' \in [Ends -> States] /\ current' = current /\ gen' = gen /\ seen' = seen /\ pending' = pending
      /\ held' = held /\ sent' = sent /\ delivered' = delivered /\ asked' \subseteq Ends
      /\ admitted' = admitted /\ cause' = cause /\ permitted' = permitted /\ awaits' = awaits
      /\ state[e] # "Invalid" /\ state'[e] = "Closed"
      /\ \A x \in Ends \ {e} : state'[x] = state[x]
  BY DEF Close, Types, States, gnutlsVars
<1>2. /\ Exchange(e, net[e], <<Message("bye", WriteEpoch(e))>>)
      /\ Sound(Message("bye", WriteEpoch(e)))
      /\ Message("bye", WriteEpoch(e)).type = "bye"
      /\ net[e] \in Seq(Messages)
  BY OtherRecords, ByeSent DEF Close, Message, Types
<1>3. /\ net' \in [Ends -> Seq(Messages)]
      /\ \A z \in Ends : \A y \in Elems(net'[z]) :
            y \in Elems(net[z]) \/ (Sound(y) /\ y.type \notin {"ServerFinished", "ClientFinished"})
  BY <1>2, SendNet DEF Sound
<1>4. Types'
  BY <1>1, <1>3 DEF Types, Close, program
<1>5. Quiet(e)
  BY <1>1, <1>3 DEF Quiet, Handshakes
<1> QED
  BY <1>4, <1>5, QuietStep

\* write()
LEMMA WriteStep ==
    ASSUME IInv, NEW e \in Ends, Write(e)
    PROVE  IInv'
<1> USE DEF IInv
<1>1. /\ state' = state /\ current' = current /\ gen' = gen /\ seen' = seen /\ pending' = pending
      /\ held' = held /\ delivered' = delivered /\ asked' = asked
      /\ admitted' = admitted /\ cause' = cause /\ permitted' = permitted /\ awaits' = awaits
      /\ state[e] = "Open" /\ sent[e] < MaxData
  BY DEF Write, gnutlsVars, appVars
<1>2. /\ Exchange(e, net[e], <<Data(WriteEpoch(e), sent[e] + 1)>>)
      /\ Sound(Data(WriteEpoch(e), sent[e] + 1))
      /\ Data(WriteEpoch(e), sent[e] + 1).type = "data"
      /\ net[e] \in Seq(Messages)
  BY <1>1, OtherRecords DEF Write, Data, Types
<1>3. /\ net' \in [Ends -> Seq(Messages)]
      /\ \A z \in Ends : \A y \in Elems(net'[z]) :
            y \in Elems(net[z]) \/ (Sound(y) /\ y.type \notin {"ServerFinished", "ClientFinished"})
  BY <1>2, SendNet DEF Sound
<1>4. sent' \in [Ends -> 0 .. MaxData]
  <2>1. sent' = [sent EXCEPT ![e] = sent[e] + 1]
    BY DEF Write
  <2>2. sent[e] + 1 \in 0 .. MaxData
    BY <1>1, BoundsAssumption DEF Types
  <2> QED
    BY <2>1, <2>2 DEF Types
<1>5. Types'
  BY <1>1, <1>3, <1>4 DEF Types, Write, program
<1>6. Quiet(e)
  BY <1>1, <1>3 DEF Quiet, Handshakes
<1> QED
  BY <1>5, <1>6, QuietStep

\* The repaired code does not stop short of reading a packet, nor crash.
LEMMA RepairedContinue ==
    ASSUME repaired, NEW e, Continue(e)
    PROVE  /\ pending[e] /\ pending' = [pending EXCEPT ![e] = FALSE]
           /\ HandleHandshake(e, IF held[e] # NoPacket THEN held[e] ELSE current[e], net[e])
           /\ held' = [held EXCEPT ![e] = NoPacket]
           /\ current' = IF held[e] # NoPacket THEN current ELSE [current EXCEPT ![e] = NoPacket]
  BY DEF Continue, Receives, Crash, Crashes

LEMMA RepairedRead ==
    ASSUME repaired, NEW e, NEW i, ReadPacket(e, i)
    PROVE  LET m == net[e][i]
               rest == IF Datagrams THEN net[e] ELSE Tail(net[e])
           IN  /\ ~pending[e]
               /\ \/ /\ Shakes(e)
                     /\ HandleHandshake(e, m, rest)
                     /\ current' = [current EXCEPT ![e] = NoPacket]
                     /\ UNCHANGED <<pending, held>>
                  \/ state[e] = "Open" /\ HandleData(e, m, rest)
                  \/ /\ ~Shakes(e) /\ state[e] # "Open"
                     /\ current' = KeepEarly(e, m)
                     /\ Exchange(e, rest, <<>>)
                     /\ UNCHANGED <<state, pending, permitted, gnutlsVars, history, repaired>>
  BY DEF ReadPacket, Receives, Crash, Crashes, program

\* open() or handleData() goes on after its listener: gnutls is at rest, so
\* handleHandshake cannot complete a handshake, whatever the listener did.
LEMMA ContinueShakes ==
    ASSUME IInv, NEW e \in Ends, Continue(e)
    PROVE  Shaking(e, IF held[e] # NoPacket THEN held[e] ELSE current[e], net[e]) /\ awaits[e] = Rest(e)
<1> USE DEF IInv
<1> DEFINE m == IF held[e] # NoPacket THEN held[e] ELSE current[e]
<1>0. repaired
  BY DEF Types
<1>1. HandleHandshake(e, m, net[e]) /\ pending[e]
  BY <1>0, RepairedContinue
<1>2. m = NoPacket \/ Sound(m)
  BY DEF RecordsSound
<1>3. net[e] \in Seq(Messages)
  BY DEF Types
<1>4. gen[e] < MaxGen /\ state[e] \notin {"Invalid", "Open"} /\ awaits[e] = Rest(e)
  BY <1>1 DEF Handshakes
<1>5. pending' = [pending EXCEPT ![e] = FALSE]
  <2> HIDE DEF IInv
  <2> QED
    BY <1>0, RepairedContinue, Zenon
<1>6. /\ held' \in [Ends -> Messages \cup {NoPacket}]
      /\ current' \in [Ends -> Messages \cup {NoPacket}]
      /\ \A x \in Ends : held'[x] \in {held[x], NoPacket} /\ current'[x] \in {current[x], NoPacket}
  BY RepairedContinue DEF Types
<1> QED
  BY <1>1, <1>2, <1>3, <1>4, <1>5, <1>6 DEF Shaking

\* The datagram a link reads was on its way, and the rest of them still are.
LEMMA Comes ==
    ASSUME IInv, NEW e \in Ends, NEW i \in Arriving(e)
    PROVE  LET rest == IF Datagrams THEN net[e] ELSE Tail(net[e])
           IN  /\ net[e][i] \in Elems(net[e]) /\ Sound(net[e][i])
               /\ rest \in Seq(Messages) /\ Elems(rest) \subseteq Elems(net[e])
<1>1. net[e] \in Seq(Messages) /\ i \in 1 .. Len(net[e])
  BY DEF IInv, Types, Arriving
<1>2. net[e][i] \in Elems(net[e])
  BY <1>1 DEF Elems
<1>3. Sound(net[e][i])
  BY <1>2 DEF IInv, RecordsSound
<1>4. Tail(net[e]) \in Seq(Messages) /\ Elems(Tail(net[e])) \subseteq Elems(net[e])
  <2>1. net[e] # <<>> /\ Len(net[e]) \in Nat /\ Len(net[e]) > 0
    BY <1>1
  <2>2. /\ Tail(net[e]) \in Seq(Messages) /\ Len(Tail(net[e])) = Len(net[e]) - 1
        /\ \A k \in 1 .. Len(net[e]) - 1 : Tail(net[e])[k] = net[e][k + 1]
    BY <1>1, <2>1
  <2>3. \A k \in 1 .. Len(net[e]) - 1 : k + 1 \in 1 .. Len(net[e])
    BY <2>1
  <2> QED
    BY <2>2, <2>3 DEF Elems
<1> QED
  BY <1>1, <1>2, <1>3, <1>4

\* handlePacket in a handshake.
LEMMA ReadShakes ==
    ASSUME IInv, NEW e \in Ends, NEW i \in Arriving(e), ~pending[e], Shakes(e), NEW rest,
           rest = IF Datagrams THEN net[e] ELSE Tail(net[e]),
           HandleHandshake(e, net[e][i], rest),
           current' = [current EXCEPT ![e] = NoPacket],
           UNCHANGED <<pending, held>>
    PROVE  Shaking(e, net[e][i], rest)
<1> USE DEF IInv
<1>1. /\ net[e][i] \in Elems(net[e]) /\ Sound(net[e][i])
      /\ rest \in Seq(Messages) /\ Elems(rest) \subseteq Elems(net[e])
  BY Comes
<1>2. gen[e] < MaxGen /\ state[e] \notin {"Invalid", "Open"}
  BY DEF Handshakes, Shakes
<1>3. pending' = [pending EXCEPT ![e] = FALSE]
  BY Zenon DEF Types
<1>4. /\ held' \in [Ends -> Messages \cup {NoPacket}]
      /\ current' \in [Ends -> Messages \cup {NoPacket}]
      /\ \A x \in Ends : held'[x] \in {held[x], NoPacket} /\ current'[x] \in {current[x], NoPacket}
  BY DEF Types
<1> QED
  BY <1>1, <1>2, <1>3, <1>4 DEF Shaking

\* handlePacket in an open session.
LEMMA HandleDataStep ==
    ASSUME IInv, NEW e \in Ends, NEW i \in Arriving(e), ~pending[e], state[e] = "Open", NEW rest,
           rest = IF Datagrams THEN net[e] ELSE Tail(net[e]),
           HandleData(e, net[e][i], rest)
    PROVE  IInv' /\ (state'[e] = "Renegotiating" => gen[e] < MaxGen)
<1> USE DEF IInv
<1> DEFINE m == net[e][i]
           ret == GnutlsRecordRecv(e, m)
<1>1. /\ m \in Elems(net[e]) /\ Sound(m)
      /\ rest \in Seq(Messages) /\ Elems(rest) \subseteq Elems(net[e])
  BY Comes
<1>2. /\ current' = current /\ permitted' = permitted /\ awaits' = awaits /\ gen' = gen
      /\ sent' = sent /\ asked' = asked /\ admitted' = admitted
      /\ seen' \in [Ends -> SUBSET Messages] /\ repaired'
  <2>1. seen' = [seen EXCEPT ![e] = IF held'[e] = m THEN seen[e] ELSE seen[e] \cup {m}]
    BY DEF HandleData
  <2>2. m \in Messages
    BY <1>1 DEF Sound
  <2> QED
    BY <2>1, <2>2 DEF HandleData, Types, program
<1>3. /\ ret = "DATA" => m.type = "data"
      /\ ret = "REHANDSHAKE" => gen[e] < MaxGen
  <2>0. gen[e] \in Nat /\ m.gen \in Nat
    BY <1>1, BoundsAssumption DEF Types, Sound, Messages
  <2>1. ret = "DATA" => m.type = "data"
    BY DEF GnutlsRecordRecv
  <2>2. ret = "REHANDSHAKE" => Accepts(e, m) /\ m.type \in {"HelloRequest", "ClientHello"}
    BY DEF GnutlsRecordRecv
  <2>3. Accepts(e, m) /\ m.type = "HelloRequest" => gen[e] < MaxGen
    BY <1>1 DEF Accepts, Epoch, Sound, Flights
  <2>4. Accepts(e, m) /\ m.type = "ClientHello" => gen[e] < MaxGen
    BY <1>1, <2>0, BoundsAssumption DEF Accepts, Epoch, Sound, Flights
  <2> QED
    BY <2>1, <2>2, <2>3, <2>4
<1> HIDE DEF m
<1>net. /\ net' \in [Ends -> Seq(Messages)]
        /\ \A z \in Ends : \A y \in Elems(net'[z]) :
            y \in Elems(net[z]) \/ (Sound(y) /\ y.type \notin {"ServerFinished", "ClientFinished"})
  <2>1. Exchange(e, rest, <<Message("bye", WriteEpoch(e))>>) \/ Exchange(e, rest, <<>>)
    BY ByeSent DEF HandleData, Types
  <2>2. Sound(Message("bye", WriteEpoch(e))) /\ Message("bye", WriteEpoch(e)).type = "bye"
    BY OtherRecords DEF Message
  <2> QED
    BY <1>1, <2>1, <2>2, SendNet DEF Sound
<1> HIDE DEF ret
<1>4. CASE /\ ret = "DATA"
           /\ delivered' = [delivered EXCEPT ![e] = Append(@, m.n)]
           /\ UNCHANGED <<state, pending, held, cause>>
  <2>1. delivered' \in [Ends -> Seq(1 .. MaxData)]
    <3>1. m.n \in 1 .. MaxData
      BY <1>1, <1>3, <1>4 DEF Sound
    <3>2. delivered[e] \in Seq(1 .. MaxData) /\ delivered \in [Ends -> Seq(1 .. MaxData)]
      BY DEF Types
    <3>3. Append(delivered[e], m.n) \in Seq(1 .. MaxData)
      BY <3>1, <3>2
    <3>4. delivered' = [delivered EXCEPT ![e] = Append(delivered[e], m.n)]
      BY <1>4
    <3> QED
      BY <3>2, <3>3, <3>4
  <2>2. Types'
    BY <1>2, <1>4, <1>net, <2>1 DEF Types
  <2>3. Quiet(e)
    BY <1>2, <1>4, <1>net DEF Quiet, Handshakes
  <2> QED
    BY <1>4, <2>2, <2>3, QuietStep
<1>5. CASE /\ state' = [state EXCEPT ![e] = "Closed"]
           /\ UNCHANGED <<pending, held, delivered, cause>>
  <2>1. Types'
    BY <1>2, <1>5, <1>net DEF Types, States
  <2>2. state'[e] = "Closed" /\ \A x \in Ends \ {e} : state'[x] = state[x]
    BY <1>5 DEF Types
  <2>3. Quiet(e)
    BY <1>2, <1>5, <1>net, <2>2 DEF Quiet, Handshakes
  <2> QED
    BY <2>1, <2>2, <2>3, QuietStep
<1>6. CASE /\ ret = "REHANDSHAKE"
           /\ state' = [state EXCEPT ![e] = "Renegotiating"]
           /\ pending' = [pending EXCEPT ![e] = TRUE]
           /\ held' = [held EXCEPT ![e] = IF e = Server THEN m ELSE NoPacket]
           /\ UNCHANGED <<delivered, cause>>
  <2>1. state' \in [Ends -> States] /\ state'[e] = "Renegotiating" /\ \A x \in Ends \ {e} : state'[x] = state[x]
    BY <1>6 DEF Types, States
  <2>2. pending' \in [Ends -> BOOLEAN] /\ \A x \in Ends \ {e} : pending'[x] <=> pending[x]
    BY <1>6, Zenon DEF Types
  <2>3. /\ held' \in [Ends -> Messages \cup {NoPacket}]
        /\ \A x \in Ends : held'[x] \in {held[x], NoPacket} \cup Elems(net[x])
    BY <1>1, <1>6 DEF Types, Sound
  <2>4. Types'
    BY <1>2, <1>6, <1>net, <2>1, <2>2, <2>3 DEF Types
  <2>5. Quiet(e)
    BY <1>2, <1>3, <1>6, <1>net, <2>1, <2>2, <2>3 DEF Quiet
  <2> QED
    BY <1>3, <1>6, <2>4, <2>5, QuietStep
<1>7. CASE /\ ret = "AGAIN"
           /\ state' = [state EXCEPT ![e] = "Aborted"]
           /\ cause' = [cause EXCEPT ![e] = ret]
           /\ UNCHANGED <<pending, held, delivered>>
  <2>1. Types'
    BY <1>2, <1>7, <1>net DEF Types, States, Errors
  <2>2. state'[e] = "Aborted" /\ \A x \in Ends \ {e} : state'[x] = state[x]
    BY <1>7 DEF Types
  <2>3. Quiet(e)
    BY <1>2, <1>7, <1>net, <2>2 DEF Quiet, Handshakes
  <2> QED
    BY <2>1, <2>2, <2>3, QuietStep
<1> QED
  BY <1>4, <1>5, <1>6, <1>7 DEF HandleData, ret, m

\* readPacket()
LEMMA ReadPacketStep ==
    ASSUME IInv, NEW e \in Ends, NEW i \in Arriving(e), ReadPacket(e, i)
    PROVE  IInv'
<1> USE DEF IInv
<1> DEFINE m == net[e][i]
           rest == IF Datagrams THEN net[e] ELSE Tail(net[e])
<1>0. ~pending[e]
  BY RepairedRead DEF Types
<1>1. CASE /\ Shakes(e)
           /\ HandleHandshake(e, m, rest)
           /\ current' = [current EXCEPT ![e] = NoPacket]
           /\ UNCHANGED <<pending, held>>
  <2>1. Shaking(e, m, rest)
    BY <1>0, <1>1, ReadShakes
  <2> QED
    BY <2>1, HandshakeStep
<1>2. CASE state[e] = "Open" /\ HandleData(e, m, rest)
  BY <1>0, <1>2, HandleDataStep
<1>3. CASE /\ current' = KeepEarly(e, m)
           /\ Exchange(e, rest, <<>>)
           /\ UNCHANGED <<state, pending, permitted, gnutlsVars, history, repaired>>
  <2>1. /\ m \in Elems(net[e]) /\ Sound(m)
        /\ rest \in Seq(Messages) /\ Elems(rest) \subseteq Elems(net[e])
    BY Comes
  <2>2. /\ current' \in [Ends -> Messages \cup {NoPacket}]
        /\ \A x \in Ends : current'[x] \in {current[x], NoPacket} \cup Elems(net[x])
    <3> HIDE DEF m
    <3> QED
      BY <1>3, <2>1 DEF KeepEarly, Types, Sound
  <2>3. /\ net' \in [Ends -> Seq(Messages)]
        /\ \A z \in Ends : \A y \in Elems(net'[z]) :
            y \in Elems(net[z]) \/ (Sound(y) /\ y.type \notin {"ServerFinished", "ClientFinished"})
    <3>1. Sound(Message("bye", WriteEpoch(e))) /\ Message("bye", WriteEpoch(e)).type = "bye"
      BY OtherRecords DEF Message
    <3> QED
      BY <1>3, <2>1, <3>1, SendNet DEF Sound
  <2>4. /\ state' = state /\ pending' = pending /\ permitted' = permitted /\ awaits' = awaits
        /\ gen' = gen /\ seen' = seen /\ held' = held /\ sent' = sent /\ delivered' = delivered
        /\ asked' = asked /\ admitted' = admitted /\ cause' = cause
    BY <1>3 DEF gnutlsVars, history
  <2>5. Types'
    BY <1>3, <2>2, <2>3, <2>4 DEF Types
  <2>6. Quiet(e)
    BY <2>2, <2>3, <2>4 DEF Quiet, Handshakes
  <2> QED
    BY <2>5, <2>6, QuietStep
<1> QED
  BY <1>1, <1>2, <1>3, RepairedRead DEF Types

-----------------------------------------------------------------------------
(* The code as it stands. *)

\* What is pushed before the first certificate comes.
Plain == {Message("ClientHello", 1), Message("ServerHello", 1), Message("bye", 0), Junk}

\* No session gets past its first handshake: the client never sends its
\* Finished, for the certificate that it should answer brings it down.
AInv ==
    /\ ~repaired
    /\ crashed \subseteq Ends
    /\ state \in [Ends -> {"Invalid", "Opening", "Closed", "Aborted"}]
    /\ pending \in [Ends -> BOOLEAN]
    /\ current \in [Ends -> Plain \cup {NoPacket}]
    /\ permitted \in [Ends -> BOOLEAN]
    /\ awaits \in [Ends -> {"nothing", "ServerHello", "ClientHello", "ClientFinished"}]
    /\ gen = [e \in Ends |-> 0]
    /\ seen \in [Ends -> SUBSET Plain]
    /\ held = [e \in Ends |-> NoPacket]
    /\ unsent \in [Ends -> 0 .. RecordSize - 1]
    /\ net \in [Ends -> Seq(Plain)]
    /\ sent = [e \in Ends |-> 0]
    /\ delivered = [e \in Ends |-> <<>>]
    /\ asked \subseteq Ends
    /\ admitted = [e \in Ends |-> 0]
    /\ cause \in [Ends -> Errors]
    /\ \A e \in Ends : pending[e] => state[e] # "Invalid"

\* Members of Plain.
LEMMA PlainRecords ==
    /\ Plain \subseteq Messages /\ NoPacket \notin Plain
    /\ \A m \in Plain : /\ m.type \in {"ClientHello", "ServerHello", "bye", "junk"}
                        /\ m.type = "junk" <=> m = Junk
    /\ Message("ClientHello", 1) # Junk /\ Message("ServerHello", 1) # Junk /\ Message("bye", 0) # Junk
  BY BoundsAssumption DEF Plain, Messages, Message, Junk, NoPacket, Flights

\* What gnutls pushes, and what it then takes for unsent.
Pushes(e, out) ==
    /\ out \in Seq(Plain)
    /\ out # <<>> => out[Len(out)] \in Plain /\ (out[Len(out)] = Junk => unsent[e] > 0)

LEMMA Pushed ==
    ASSUME AInv, NEW e \in Ends, NEW x \in Plain, x # Junk
    PROVE  /\ Pushes(e, <<>>) /\ Pushes(e, Resent(e)) /\ Pushes(e, Resent(e) \o <<>>)
           /\ Pushes(e, Resent(e) \o <<x>>) /\ Pushes(e, Resent(e) \o <<x>> \o <<>>)
           /\ Pushes(e, Resent(e) \o <<>> \o <<x>>) /\ Pushes(e, Resent(e) \o <<>> \o <<>>)
<1>1. unsent[e] \in Nat /\ Junk \in Plain
  BY RecordAssumption DEF AInv, Plain
<1>2. CASE unsent[e] = 0
  <2>1. Resent(e) = <<>>
    BY <1>2 DEF Resent
  <2>2. /\ Resent(e) \o <<>> = <<>> /\ Resent(e) \o <<x>> = <<x>> /\ Resent(e) \o <<x>> \o <<>> = <<x>>
        /\ Resent(e) \o <<>> \o <<x>> = <<x>> /\ Resent(e) \o <<>> \o <<>> = <<>>
    BY <2>1
  <2>3. Pushes(e, <<>>) /\ Pushes(e, <<x>>)
    BY DEF Pushes
  <2> QED
    BY <2>1, <2>2, <2>3
<1>3. CASE unsent[e] # 0
  <2>1. Resent(e) = <<Junk>> /\ unsent[e] > 0
    BY <1>1, <1>3 DEF Resent, AInv
  <2>2. PICK t : t = <<Junk>> \o <<x>>
    OBVIOUS
  <2>3. t \in Seq(Plain) /\ Len(t) = 2 /\ t[2] = x
    BY <1>1, <2>2
  <2>4. t \o <<>> = t /\ <<Junk>> \o <<>> = <<Junk>>
    BY <1>1, <2>3
  <2>5. /\ Resent(e) \o <<>> = <<Junk>> /\ Resent(e) \o <<x>> = t /\ Resent(e) \o <<x>> \o <<>> = t
        /\ Resent(e) \o <<>> \o <<x>> = t /\ Resent(e) \o <<>> \o <<>> = <<Junk>>
    BY <2>1, <2>2, <2>4
  <2>6. Pushes(e, <<>>) /\ Pushes(e, <<Junk>>) /\ Pushes(e, t)
    BY <1>1, <2>1, <2>3 DEF Pushes
  <2> QED
    BY <2>1, <2>5, <2>6
<1> QED
  BY <1>2, <1>3

LEMMA ExchangePlain ==
    ASSUME AInv, NEW e \in Ends, NEW rest \in Seq(Plain), NEW out, Pushes(e, out), Exchange(e, rest, out)
    PROVE  net' \in [Ends -> Seq(Plain)] /\ unsent' \in [Ends -> 0 .. RecordSize - 1]
<1>1. net[Other(e)] \in Seq(Plain) /\ out \in Seq(Plain) /\ Other(e) \in Ends
  BY OtherEnd DEF AInv, Pushes
<1>2. net[Other(e)] \o out \in Seq(Plain)
  BY <1>1
<1>3. net' \in [Ends -> Seq(Plain)]
  BY <1>1, <1>2 DEF Exchange, AInv
<1>4. unsent[e] \in 0 .. RecordSize - 1 /\ RecordSize \in Nat /\ RecordSize > 1
  BY RecordAssumption DEF AInv
<1>5. ASSUME NEW u, u = IF out = <<>> THEN unsent[e] ELSE IF out[Len(out)] = Junk THEN unsent[e] - 1 ELSE RecordSize - 1
      PROVE  u \in 0 .. RecordSize - 1
  BY <1>4, <1>5 DEF Pushes
<1> QED
  BY <1>3, <1>5 DEF Exchange, AInv

\* gnutls_handshake finds no Finished and no data, and a certificate it does not
\* survive: it completes nothing.
LEMMA PlainOutcomes ==
    ASSUME AInv, NEW e \in Ends, NEW m \in Plain \cup {NoPacket}, m # NoPacket => Receives(e), ~Crashes(e, m),
           NEW r, r = GnutlsHandshake(e, m)
    PROVE  /\ r.ret \in {"AGAIN", "SESSION_EOF"}
           /\ r.gen = 0
           /\ r.awaits \in {"nothing", "ServerHello", "ClientHello", "ClientFinished"}
           /\ Pushes(e, r.out)
           /\ m # NoPacket /\ m.type \in {"ServerHello", "ClientFinished"} => r.awaits = awaits[e]
<1> DEFINE x == Message("ClientHello", 1)
           y == Message("ServerHello", 1)
           Answer(ret, out, next) == [ret |-> ret, out |-> out, awaits |-> next, gen |-> 0]
           waiting == IF awaits[e] = "nothing" THEN "ServerHello" ELSE awaits[e]
<1>0. /\ gen[e] = 0 /\ gen[e] + 1 = 1 /\ ~repaired
      /\ awaits[e] \in {"nothing", "ServerHello", "ClientHello", "ClientFinished"}
      /\ m = NoPacket \/ (m.type \in {"ClientHello", "ServerHello", "bye", "junk"} /\ (m.type = "junk" => m = Junk))
  BY PlainRecords DEF AInv
<1>p. x \in Plain /\ y \in Plain /\ x # Junk /\ y # Junk
  BY PlainRecords DEF Plain
<1>q. /\ Pushes(e, Resent(e)) /\ Pushes(e, Resent(e) \o <<x>> \o <<>>)
      /\ Pushes(e, Resent(e) \o <<>> \o <<y>>) /\ Pushes(e, Resent(e) \o <<>> \o <<>>)
  BY <1>p, Pushed
<1> HIDE DEF x, y
<1>1. CASE Stalls(e)
  <2>1. r = Answer("AGAIN", Resent(e), awaits[e])
    BY <1>0, <1>1 DEF GnutlsHandshake
  <2> QED
    BY <1>0, <1>q, <2>1
<1>2. CASE ~Stalls(e) /\ ~Accepts(e, m)
  <2>1. /\ awaits[e] = "nothing" => r = Answer("AGAIN", Resent(e) \o <<x>> \o <<>>, "ServerHello")
        /\ awaits[e] # "nothing" => r = Answer("AGAIN", Resent(e) \o <<>> \o <<>>, awaits[e])
    BY <1>0, <1>2 DEF GnutlsHandshake, x
  <2>2. awaits[e] = "nothing" => m = NoPacket
    BY <1>0 DEF Receives
  <2>3. \/ r.out = Resent(e) \o <<x>> \o <<>> /\ r.awaits = "ServerHello" /\ m = NoPacket
        \/ r.out = Resent(e) \o <<>> \o <<>> /\ r.awaits = awaits[e]
    BY <2>1, <2>2
  <2>4. r.ret = "AGAIN" /\ r.gen = 0
    BY <2>1
  <2>5. Pushes(e, r.out)
    BY <1>q, <2>3, Zenon
  <2> QED
    BY <1>0, <2>3, <2>4, <2>5
<1>3. CASE ~Stalls(e) /\ Accepts(e, m)
  <2>0. m \notin {NoPacket, Junk} /\ awaits[e] # "nothing" /\ m.type \in {"ClientHello", "ServerHello", "bye"}
    BY <1>0, <1>3 DEF Accepts, Receives
  <2>1. ~(m.type = "ServerHello" /\ awaits[e] = "ServerHello")
    BY <1>0, <1>3 DEF Crashes
  <2>2. \/ r = Answer("SESSION_EOF", Resent(e) \o <<>> \o <<>>, awaits[e])
        \/ r = Answer("AGAIN", Resent(e) \o <<>> \o <<y>>, "ClientFinished") /\ m.type = "ClientHello"
        \/ r = Answer("AGAIN", Resent(e) \o <<>> \o <<>>, awaits[e])
    BY <1>0, <1>3, <2>0, <2>1 DEF GnutlsHandshake, y
  <2>3. \/ r.out = Resent(e) \o <<>> \o <<>> /\ r.awaits = awaits[e]
        \/ r.out = Resent(e) \o <<>> \o <<y>> /\ r.awaits = "ClientFinished" /\ m.type = "ClientHello"
    BY <2>2
  <2>4. r.ret \in {"AGAIN", "SESSION_EOF"} /\ r.gen = 0
    BY <2>2
  <2>5. Pushes(e, r.out)
    BY <1>q, <2>3, Zenon
  <2> QED
    BY <1>0, <2>3, <2>4, <2>5
<1> QED
  BY <1>1, <1>2, <1>3

\* What a step of the code as it stands does to what its owners see.
Moves ==
    /\ sent' = sent /\ delivered' = delivered
    /\ \/ state' = state /\ asked' = asked
       \/ \E e \in Ends :
             \/ state[e] = "Invalid" /\ state' = [state EXCEPT ![e] = "Opening"] /\ asked' = asked
             \/ state[e] # "Invalid" /\ state' = [state EXCEPT ![e] = "Aborted"] /\ asked' = asked
             \/ state[e] = "Opening" /\ state' = [state EXCEPT ![e] = "Closed"] /\ asked' = asked \cup {e}

\* handleHandshake
LEMMA PlainShake ==
    ASSUME AInv, NEW e \in Ends, NEW m \in Plain \cup {NoPacket}, m # NoPacket => Receives(e),
           NEW rest \in Seq(Plain), HandleHandshake(e, m, rest), state[e] # "Invalid",
           pending' \in [Ends -> BOOLEAN], \A x \in Ends : pending'[x] => pending[x],
           held' = held, current' \in [Ends -> Plain \cup {NoPacket}]
    PROVE  AInv' /\ Moves
<1> DEFINE r == GnutlsHandshake(e, m)
<1>1. /\ r.ret \in {"AGAIN", "SESSION_EOF"}
      /\ r.gen = 0
      /\ r.awaits \in {"nothing", "ServerHello", "ClientHello", "ClientFinished"}
      /\ Pushes(e, r.out)
      /\ m # NoPacket /\ m.type \in {"ServerHello", "ClientFinished"} => r.awaits = awaits[e]
  BY PlainOutcomes DEF HandleHandshake
<1>2. /\ Exchange(e, rest, r.out)
      /\ state' = [state EXCEPT ![e] = AfterHandshake(e, r.ret)]
      /\ delivered' = HandshakeData(e, r.ret, m)
      /\ awaits' = [awaits EXCEPT ![e] = r.awaits]
      /\ gen' = [gen EXCEPT ![e] = r.gen]
      /\ seen' = [seen EXCEPT ![e] = @ \cup ({m} \ {NoPacket})]
      /\ admitted' = [admitted EXCEPT ![e] =
                         IF /\ m # NoPacket /\ m.type \in {"ServerHello", "ClientFinished"}
                            /\ permitted[e] /\ r.awaits # awaits[e]
                         THEN m.gen ELSE admitted[e]]
      /\ cause' = [cause EXCEPT ![e] =
                     IF AfterHandshake(e, r.ret) = "Aborted" /\ state[e] # AfterHandshake(e, r.ret) THEN r.ret ELSE @]
      /\ permitted' = permitted /\ sent' = sent /\ asked' = asked /\ repaired' = repaired /\ crashed' = crashed
  BY DEF HandleHandshake, program
<1> HIDE DEF r
<1>3. net' \in [Ends -> Seq(Plain)] /\ unsent' \in [Ends -> 0 .. RecordSize - 1]
  BY <1>1, <1>2, ExchangePlain
<1>4. /\ AfterHandshake(e, r.ret) \in {state[e], "Aborted"}
      /\ state' = state \/ state' = [state EXCEPT ![e] = "Aborted"]
  BY <1>1, <1>2 DEF AfterHandshake, AInv
<1>5. delivered' = delivered
  BY <1>1, <1>2 DEF HandshakeData
<1>6. gen' = gen /\ admitted' = admitted
  BY <1>1, <1>2 DEF AInv
<1>7. /\ awaits' \in [Ends -> {"nothing", "ServerHello", "ClientHello", "ClientFinished"}]
      /\ seen' \in [Ends -> SUBSET Plain]
      /\ cause' \in [Ends -> Errors]
  BY <1>1, <1>2 DEF AInv, Errors
<1>8. state' \in [Ends -> {"Invalid", "Opening", "Closed", "Aborted"}] /\ \A x \in Ends : state[x] # "Invalid" => state'[x] # "Invalid"
  BY <1>4 DEF AInv
<1>9. Moves
  BY <1>2, <1>4, <1>5 DEF Moves
<1>10. permitted' \in [Ends -> BOOLEAN]
  BY <1>2, Zenon DEF AInv
<1>11. \A x \in Ends : pending'[x] => state'[x] # "Invalid"
  BY <1>8 DEF AInv
<1>12. /\ ~repaired' /\ crashed' \subseteq Ends /\ gen' = [x \in Ends |-> 0] /\ held' = [x \in Ends |-> NoPacket]
       /\ sent' = [x \in Ends |-> 0] /\ delivered' = [x \in Ends |-> <<>>] /\ asked' \subseteq Ends
       /\ admitted' = [x \in Ends |-> 0]
  BY <1>2, <1>5, <1>6 DEF AInv
<1>13. AInv'
  BY <1>3, <1>7, <1>8, <1>10, <1>11, <1>12 DEF AInv
<1> QED
  BY <1>9, <1>13

\* A step that leaves gnutls' handshake alone.
LEMMA PlainQuiet ==
    ASSUME AInv, NEW e \in Ends, UNCHANGED <<repaired, permitted, gnutlsVars, sent, delivered, admitted, cause>>,
           crashed' \subseteq Ends, asked' \subseteq Ends,
           state' \in [Ends -> {"Invalid", "Opening", "Closed", "Aborted"}],
           pending' \in [Ends -> BOOLEAN], \A x \in Ends : pending'[x] => state'[x] # "Invalid",
           current' \in [Ends -> Plain \cup {NoPacket}],
           net' \in [Ends -> Seq(Plain)], unsent' \in [Ends -> 0 .. RecordSize - 1]
    PROVE  AInv'
<1>1. /\ ~repaired' /\ awaits' = awaits /\ gen' = gen /\ seen' = seen /\ held' = held
      /\ sent' = sent /\ delivered' = delivered /\ admitted' = admitted /\ cause' = cause
  BY DEF AInv, gnutlsVars
<1>2. permitted' \in [Ends -> BOOLEAN]
  BY Zenon DEF AInv
<1> QED
  BY <1>1, <1>2 DEF AInv

\* The callback crashes.
LEMMA PlainCrash ==
    ASSUME AInv, NEW e \in Ends, NEW m, NEW rest \in Seq(Plain), Crash(e, m, rest)
    PROVE  AInv' /\ Moves
<1>1. /\ state' = state /\ pending' = pending /\ current' = current /\ permitted' = permitted
      /\ UNCHANGED gnutlsVars /\ asked' = asked /\ sent' = sent /\ delivered' = delivered
      /\ admitted' = admitted /\ cause' = cause /\ repaired' = repaired /\ crashed' = crashed \cup {e}
  BY DEF Crash, appVars, history
<1>2. Pushes(e, Resent(e))
  <2>1. Message("bye", 0) \in Plain /\ Message("bye", 0) # Junk
    BY PlainRecords DEF Plain
  <2> QED
    BY <2>1, Pushed
<1>3. net' \in [Ends -> Seq(Plain)] /\ unsent' \in [Ends -> 0 .. RecordSize - 1]
  BY <1>2, ExchangePlain DEF Crash
<1>4. crashed' \subseteq Ends /\ asked' \subseteq Ends /\ state' \in [Ends -> {"Invalid", "Opening", "Closed", "Aborted"}]
      /\ current' \in [Ends -> Plain \cup {NoPacket}]
  BY <1>1 DEF AInv
<1>5. pending' \in [Ends -> BOOLEAN] /\ \A x \in Ends : pending'[x] => state'[x] # "Invalid"
  BY <1>1, Zenon DEF AInv
<1>6. AInv'
  BY <1>1, <1>3, <1>4, <1>5, PlainQuiet
<1> QED
  BY <1>1, <1>6 DEF Moves

\* open(), close() and permissiblePeers(); the others find no open session.
LEMMA PlainOwner ==
    ASSUME AInv, NEW e \in Ends, Open(e) \/ Renegotiate(e) \/ Close(e) \/ Write(e) \/ PermissiblePeers(e)
    PROVE  AInv' /\ Moves
<1>0. /\ state \in [Ends -> {"Invalid", "Opening", "Closed", "Aborted"}]
      /\ \A x \in Ends : state[x] # "Open"
  BY DEF AInv
<1>1. CASE Open(e)
  <2>1. /\ state[e] = "Invalid" /\ state' = [state EXCEPT ![e] = "Opening"]
        /\ current' = current /\ permitted' = permitted /\ UNCHANGED gnutlsVars /\ unsent' = unsent /\ net' = net
        /\ asked' = asked /\ sent' = sent /\ delivered' = delivered
        /\ admitted' = admitted /\ cause' = cause /\ repaired' = repaired /\ crashed' = crashed
    BY <1>1 DEF Open, history, program
  <2>2. /\ crashed' \subseteq Ends /\ asked' \subseteq Ends
        /\ state' \in [Ends -> {"Invalid", "Opening", "Closed", "Aborted"}]
        /\ current' \in [Ends -> Plain \cup {NoPacket}]
        /\ net' \in [Ends -> Seq(Plain)] /\ unsent' \in [Ends -> 0 .. RecordSize - 1]
        /\ state'[e] = "Opening" /\ \A x \in Ends \ {e} : state'[x] = state[x]
    BY <1>0, <2>1 DEF AInv
  <2>3. pending' \in [Ends -> BOOLEAN] /\ \A x \in Ends \ {e} : pending'[x] = pending[x]
    BY <1>1, Zenon DEF Open, AInv
  <2>4. \A x \in Ends : pending'[x] => state'[x] # "Invalid"
    BY <2>2, <2>3 DEF AInv
  <2>5. AInv'
    BY <2>1, <2>2, <2>3, <2>4, PlainQuiet
  <2> QED
    BY <2>1, <2>5 DEF Moves
<1>2. CASE Close(e)
  <2>1. /\ state[e] = "Opening" /\ state' = [state EXCEPT ![e] = "Closed"]
        /\ pending' = pending /\ current' = current /\ permitted' = permitted /\ UNCHANGED gnutlsVars
        /\ asked' = asked \cup {e} /\ sent' = sent /\ delivered' = delivered
        /\ admitted' = admitted /\ cause' = cause /\ repaired' = repaired /\ crashed' = crashed
        /\ Exchange(e, net[e], Bye(e))
    BY <1>0, <1>2 DEF Close, program
  <2>2. Pushes(e, Bye(e))
    <3>1. WriteEpoch(e) = 0
      <4>1. gen[e] = 0 /\ awaits[e] # "ServerFinished"
        BY DEF AInv
      <4> QED
        BY <4>1 DEF WriteEpoch
    <3>2. Message("bye", 0) \in Plain /\ Message("bye", 0) # Junk
      BY PlainRecords DEF Plain
    <3>3. Bye(e) = Resent(e) \o <<>> \/ Bye(e) = Resent(e) \o <<Message("bye", 0)>>
      BY <3>1 DEF Bye
    <3> QED
      BY <3>2, <3>3, Pushed
  <2>3. net' \in [Ends -> Seq(Plain)] /\ unsent' \in [Ends -> 0 .. RecordSize - 1]
    BY <2>1, <2>2, ExchangePlain DEF AInv
  <2>4. /\ crashed' \subseteq Ends /\ asked' \subseteq Ends
        /\ state' \in [Ends -> {"Invalid", "Opening", "Closed", "Aborted"}]
        /\ current' \in [Ends -> Plain \cup {NoPacket}]
        /\ state'[e] = "Closed" /\ \A x \in Ends \ {e} : state'[x] = state[x]
    BY <1>0, <2>1 DEF AInv
  <2>5. pending' \in [Ends -> BOOLEAN] /\ \A x \in Ends : pending'[x] => state'[x] # "Invalid"
    BY <2>1, <2>4, Zenon DEF AInv
  <2>6. AInv'
    BY <2>1, <2>3, <2>4, <2>5, PlainQuiet
  <2> QED
    BY <2>1, <2>6 DEF Moves
<1>3. CASE PermissiblePeers(e)
  <2>1. /\ state' = state /\ pending' = pending /\ current' = current /\ awaits' = awaits /\ gen' = gen
        /\ seen' = seen /\ held' = held /\ unsent' = unsent /\ net' = net
        /\ asked' = asked /\ sent' = sent /\ delivered' = delivered
        /\ admitted' = admitted /\ cause' = cause /\ repaired' = repaired /\ crashed' = crashed
    BY <1>3 DEF PermissiblePeers, gnutlsVars, history, program
  <2>2. permitted' \in [Ends -> BOOLEAN]
    BY <1>3, Zenon DEF PermissiblePeers, AInv
  <2>3. AInv'
    BY <2>1, <2>2 DEF AInv
  <2> QED
    BY <2>1, <2>3 DEF Moves
<1> QED
  BY <1>0, <1>1, <1>2, <1>3 DEF Renegotiate, Write

\* open() after its listener.
LEMMA PlainContinue ==
    ASSUME AInv, NEW e \in Ends, Continue(e)
    PROVE  AInv' /\ Moves
<1> DEFINE m == IF held[e] # NoPacket THEN held[e] ELSE current[e]
<1>0. /\ net[e] \in Seq(Plain) /\ state[e] # "Invalid" /\ m = current[e] /\ m \in Plain \cup {NoPacket}
      /\ current \in [Ends -> Plain \cup {NoPacket}] /\ held = [x \in Ends |-> NoPacket]
  BY DEF AInv, Continue
<1>1. ASSUME pending' = [pending EXCEPT ![e] = FALSE]
      PROVE  pending' \in [Ends -> BOOLEAN] /\ \A x \in Ends : pending'[x] => pending[x]
  BY <1>1, Zenon DEF AInv
<1>2. CASE /\ Receives(e)
           /\ HandleHandshake(e, m, net[e])
           /\ pending' = [pending EXCEPT ![e] = FALSE]
           /\ held' = [held EXCEPT ![e] = NoPacket]
           /\ current' = IF held[e] # NoPacket THEN current ELSE [current EXCEPT ![e] = NoPacket]
  <2>1. held' = held /\ current' \in [Ends -> Plain \cup {NoPacket}]
    BY <1>0, <1>2
  <2> HIDE DEF m
  <2> QED
    BY <1>0, <1>1, <1>2, <2>1, PlainShake
<1>3. CASE Crash(e, m, net[e])
  BY <1>0, <1>3, PlainCrash
<1>4. CASE /\ HandleHandshake(e, NoPacket, net[e])
           /\ pending' = [pending EXCEPT ![e] = FALSE]
           /\ UNCHANGED <<held, current>>
  BY <1>0, <1>1, <1>4, PlainShake
<1> QED
  BY <1>2, <1>3, <1>4 DEF Continue

\* readPacket()
LEMMA PlainRead ==
    ASSUME AInv, NEW e \in Ends, NEW i \in Arriving(e), ReadPacket(e, i)
    PROVE  AInv' /\ Moves
<1> DEFINE m == net[e][i]
           rest == IF Datagrams THEN net[e] ELSE Tail(net[e])
<1>0. net[e] \in Seq(Plain) /\ i \in 1 .. Len(net[e])
  BY DEF AInv, Arriving
<1>1. m \in Plain /\ rest \in Seq(Plain)
  <2>1. net[e] # <<>>
    BY <1>0
  <2> QED
    BY <1>0, <2>1
<1>2. /\ current \in [Ends -> Plain \cup {NoPacket}] /\ state[e] # "Open" /\ (Shakes(e) => state[e] # "Invalid")
      /\ state \in [Ends -> {"Invalid", "Opening", "Closed", "Aborted"}]
  BY DEF AInv, Shakes
<1>3. pending' = pending => pending' \in [Ends -> BOOLEAN] /\ (\A x \in Ends : pending'[x] => pending[x])
                            /\ (state' = state => \A x \in Ends : pending'[x] => state'[x] # "Invalid")
  BY Zenon DEF AInv
<1>4. current' = KeepEarly(e, m) \/ current' = [current EXCEPT ![e] = NoPacket] => current' \in [Ends -> Plain \cup {NoPacket}]
  <2> HIDE DEF m
  <2> QED
    BY <1>1, <1>2 DEF KeepEarly
<1>5. ASSUME Shakes(e), NEW x \in {m, NoPacket}, x = m => Receives(e), HandleHandshake(e, x, rest),
             current' = KeepEarly(e, m) \/ current' = [current EXCEPT ![e] = NoPacket],
             UNCHANGED <<pending, held>>
      PROVE  AInv' /\ Moves
  <2>1. x \in Plain \cup {NoPacket} /\ (x # NoPacket => Receives(e))
    BY <1>1, <1>5
  <2> HIDE DEF m, rest
  <2> QED
    BY <1>1, <1>2, <1>3, <1>4, <1>5, <2>1, PlainShake
<1>6. CASE Crash(e, m, rest)
  <2> HIDE DEF m, rest
  <2> QED
    BY <1>1, <1>6, PlainCrash
<1>7. CASE /\ current' = KeepEarly(e, m)
           /\ Exchange(e, rest, <<>>)
           /\ UNCHANGED <<state, pending, permitted, gnutlsVars, history, program>>
  <2> HIDE DEF m, rest
  <2>1. Pushes(e, <<>>)
    BY DEF Pushes
  <2>2. net' \in [Ends -> Seq(Plain)] /\ unsent' \in [Ends -> 0 .. RecordSize - 1]
    BY <1>1, <1>7, <2>1, ExchangePlain
  <2>3. /\ state' = state /\ permitted' = permitted /\ UNCHANGED gnutlsVars
        /\ asked' = asked /\ sent' = sent /\ delivered' = delivered
        /\ admitted' = admitted /\ cause' = cause /\ repaired' = repaired /\ crashed' = crashed /\ pending' = pending
    BY <1>7 DEF history, program
  <2>4. /\ crashed' \subseteq Ends /\ asked' \subseteq Ends
        /\ state' \in [Ends -> {"Invalid", "Opening", "Closed", "Aborted"}]
    BY <2>3 DEF AInv
  <2>5. AInv'
    BY <1>3, <1>4, <1>7, <2>2, <2>3, <2>4, PlainQuiet
  <2> QED
    BY <2>3, <2>5 DEF Moves
<1> QED
  <2>1. \/ Shakes(e) /\ Receives(e) /\ HandleHandshake(e, m, rest) /\ current' = [current EXCEPT ![e] = NoPacket]
              /\ UNCHANGED <<pending, held>>
        \/ Crash(e, m, rest)
        \/ Shakes(e) /\ HandleHandshake(e, NoPacket, rest) /\ current' = KeepEarly(e, m) /\ UNCHANGED <<pending, held>>
        \/ /\ current' = KeepEarly(e, m)
           /\ Exchange(e, rest, <<>>)
           /\ UNCHANGED <<state, pending, permitted, gnutlsVars, history, program>>
    BY <1>2 DEF ReadPacket
  <2>2. m # NoPacket
    BY <1>1, PlainRecords
  <2> QED
    BY <1>5, <1>6, <1>7, <2>1, <2>2

\* Whatever comes, the code as it stands opens no session.
LEMMA AInvNext ==
    ASSUME AInv, [Next]_vars
    PROVE  AInv' /\ Moves
<1>1. CASE UNCHANGED vars
  <2>1. /\ state' = state /\ pending' = pending /\ current' = current /\ permitted' = permitted
        /\ awaits' = awaits /\ gen' = gen /\ seen' = seen /\ held' = held /\ net' = net /\ unsent' = unsent
        /\ sent' = sent /\ delivered' = delivered /\ asked' = asked /\ admitted' = admitted /\ cause' = cause
        /\ repaired' = repaired /\ crashed' = crashed
    BY <1>1 DEF vars, appVars, gnutlsVars, history, program
  <2>2. pending' \in [Ends -> BOOLEAN] /\ permitted' \in [Ends -> BOOLEAN]
    BY <2>1, Zenon DEF AInv
  <2>3. AInv'
    BY <2>1, <2>2 DEF AInv
  <2> QED
    BY <2>1, <2>3 DEF Moves
<1>2. CASE Next
  BY <1>2, PlainOwner, PlainContinue, PlainRead DEF Next
<1> QED
  BY <1>1, <1>2

LEMMA AInvInit == Init /\ ~repaired => AInv
<1> SUFFICES ASSUME Init, ~repaired PROVE AInv
  OBVIOUS
<1>1. 0 \in 0 .. RecordSize - 1 /\ <<>> \in Seq(Plain)
  BY RecordAssumption
<1>2. permitted \in [Ends -> BOOLEAN] /\ pending \in [Ends -> BOOLEAN]
  BY PermitsAssumption DEF Init
<1> QED
  BY <1>1, <1>2 DEF Init, AInv, Errors

-----------------------------------------------------------------------------
(* The theorems. *)

\* Sessions that nobody has opened satisfy it.
LEMMA IInvInit == Init /\ repaired => IInv
<1> SUFFICES ASSUME Init, repaired PROVE IInv
  OBVIOUS
<1>0. 0 \in 0 .. MaxGen /\ 0 \in 0 .. MaxData /\ 0 < MaxGen
  BY BoundsAssumption
<1>1. Types
  BY <1>0, PermitsAssumption DEF Init, Types, States, Errors
<1>2. RecordsSound
  BY DEF Init, RecordsSound, Elems
<1>3. Handshakes
  BY <1>0 DEF Init, Handshakes, Waits, Rest, Flights
<1>4. OpenIsAdmitted
  BY DEF Init, OpenIsAdmitted
<1>5. Keys
  <2>1. Client \in Ends /\ Server \in Ends
    BY DEF Ends
  <2>2. gen[Client] = 0 /\ gen[Server] = 0 /\ net[Client] = <<>> /\ net[Server] = <<>>
    BY <2>1 DEF Init
  <2> QED
    BY <2>2 DEF Keys, Elems
<1> QED
  BY <1>1, <1>2, <1>3, <1>4, <1>5 DEF IInv

\* Every handler, with whatever packet comes, keeps it.
LEMMA IInvNext == IInv /\ [Next]_vars => IInv'
<1> SUFFICES ASSUME IInv, [Next]_vars PROVE IInv'
  OBVIOUS
<1>1. CASE UNCHANGED vars
  <2>1. /\ state' = state /\ pending' = pending /\ current' = current /\ permitted' = permitted
        /\ awaits' = awaits /\ gen' = gen /\ seen' = seen /\ held' = held /\ net' = net
        /\ sent' = sent /\ delivered' = delivered /\ asked' = asked /\ admitted' = admitted /\ cause' = cause
        /\ repaired' = repaired
    BY <1>1 DEF vars, appVars, gnutlsVars, history, program
  <2> QED
    BY <2>1 DEF IInv, Types, RecordsSound, Handshakes, OpenIsAdmitted, Keys, Waits, Rest
<1>2. ASSUME NEW e \in Ends, Continue(e)
      PROVE  IInv'
  BY <1>2, ContinueShakes, HandshakeStep
<1>3. ASSUME NEW e \in Ends, NEW i \in Arriving(e), ReadPacket(e, i)
      PROVE  IInv'
  BY <1>3, ReadPacketStep
<1> QED
  BY <1>1, <1>2, <1>3, OpenStep, RenegotiateStep, CloseStep, WriteStep, PermissiblePeersStep DEF Next

\* A program is repaired or not, and does not change.
LEMMA BuildStays == [Next]_vars => repaired' = repaired
<1> SUFFICES ASSUME [Next]_vars PROVE repaired' = repaired
  OBVIOUS
<1>1. ASSUME NEW e, NEW m, NEW rest, HandleHandshake(e, m, rest) \/ HandleData(e, m, rest) \/ Crash(e, m, rest)
      PROVE  repaired' = repaired
  BY <1>1 DEF HandleHandshake, HandleData, Crash, program
<1>2. CASE UNCHANGED vars
  BY <1>2 DEF vars, program
<1>3. ASSUME NEW e \in Ends, Open(e) \/ Renegotiate(e) \/ Close(e) \/ Write(e) \/ PermissiblePeers(e)
      PROVE  repaired' = repaired
  BY <1>3 DEF Open, Renegotiate, Close, Write, PermissiblePeers, program
<1>4. ASSUME NEW e \in Ends, Continue(e)
      PROVE  repaired' = repaired
  BY <1>1, <1>4 DEF Continue
<1>5. ASSUME NEW e \in Ends, NEW i \in Arriving(e), ReadPacket(e, i)
      PROVE  repaired' = repaired
  BY <1>1, <1>5 DEF ReadPacket, program
<1> QED
  BY <1>2, <1>3, <1>4, <1>5 DEF Next

\* Every behaviour of the two sessions keeps the invariant of its program.
LEMMA Invariant == Spec => [](repaired => IInv)
<1>1. Init => (repaired => IInv)
  BY IInvInit
<1>2. (repaired => IInv) /\ [Next]_vars => (repaired => IInv)'
  BY IInvNext, BuildStays
<1> QED
  BY <1>1, <1>2, PTL DEF Spec

LEMMA AsItStands == Spec => [](~repaired => AInv)
<1>1. Init => (~repaired => AInv)
  BY AInvInit
<1>2. (~repaired => AInv) /\ [Next]_vars => (~repaired => AInv)'
  BY AInvNext, BuildStays
<1> QED
  BY <1>1, <1>2, PTL DEF Spec

\* The repaired code leaves nothing unsent and does not crash.
Unharmed == repaired => unsent = [e \in Ends |-> 0] /\ crashed = {}

LEMMA Unharmedness == Spec => [](repaired \in Builds /\ Unharmed)
<1>1. Init => repaired \in Builds /\ Unharmed
  BY DEF Init, Unharmed
<1>2. ASSUME repaired \in Builds, Unharmed, [Next]_vars
      PROVE  (repaired \in Builds)' /\ Unharmed'
  <2>0. repaired' = repaired
    BY <1>2, BuildStays
  <2> SUFFICES ASSUME repaired
               PROVE  unsent' = unsent /\ crashed' = crashed
    BY <1>2, <2>0 DEF Unharmed
  <2>e. ASSUME NEW e \in Ends, NEW rest, NEW out, Exchange(e, rest, out)
        PROVE  unsent' = unsent
    BY <1>2, <2>e DEF Exchange, Unharmed
  <2>1. ASSUME NEW e \in Ends, NEW m, NEW rest, HandleHandshake(e, m, rest) \/ HandleData(e, m, rest)
        PROVE  unsent' = unsent /\ crashed' = crashed
    BY <2>e, <2>1 DEF HandleHandshake, HandleData, program
  <2>2. CASE UNCHANGED vars
    BY <2>2 DEF vars, program
  <2>3. ASSUME NEW e \in Ends, Open(e) \/ Renegotiate(e) \/ Close(e) \/ Write(e) \/ PermissiblePeers(e)
        PROVE  unsent' = unsent /\ crashed' = crashed
    BY <2>e, <2>3 DEF Open, Renegotiate, Close, Write, PermissiblePeers, program
  <2>4. ASSUME NEW e \in Ends, Continue(e)
        PROVE  unsent' = unsent /\ crashed' = crashed
    BY <2>1, <2>4, RepairedContinue
  <2>5. ASSUME NEW e \in Ends, NEW i \in Arriving(e), ReadPacket(e, i)
        PROVE  unsent' = unsent /\ crashed' = crashed
    BY <2>e, <2>1, <2>5 DEF ReadPacket, Receives, Crash, Crashes, program
  <2> QED
    BY <1>2, <2>2, <2>3, <2>4, <2>5 DEF Next
<1> QED
  BY <1>1, <1>2, PTL DEF Spec

\* TypeOK holds of every state the two sessions reach.
THEOREM TypeCorrect == Spec => []TypeOK
<1>1. ASSUME IInv, repaired \in Builds, Unharmed PROVE TypeOK
  <2>0. crashed \subseteq Ends /\ unsent \in [Ends -> 0 .. RecordSize - 1]
    BY <1>1, RecordAssumption DEF IInv, Types, Unharmed
  <2>1. /\ \A e \in Ends : current[e] \in Messages \cup {NoPacket} /\ held[e] \in Messages \cup {NoPacket}
        /\ \A e \in Ends : seen[e] \subseteq Messages
    BY <1>1 DEF IInv, Types
  <2>2. /\ \A e \in Ends : \A i \in 1 .. Len(net[e]) : net[e][i] \in Messages
        /\ \A e \in Ends : \A i \in 1 .. Len(delivered[e]) : delivered[e][i] \in 1 .. MaxData
    <3>1. net \in [Ends -> Seq(Messages)] /\ delivered \in [Ends -> Seq(1 .. MaxData)]
      BY <1>1 DEF IInv, Types
    <3>2. \A e \in Ends : net[e] \in Seq(Messages) /\ delivered[e] \in Seq(1 .. MaxData)
      BY <3>1
    <3>3. ASSUME NEW S, NEW s \in Seq(S)
          PROVE  \A i \in 1 .. Len(s) : s[i] \in S
      OBVIOUS
    <3> QED
      BY <3>2, <3>3
  <2>3. awaits \in [Ends -> Flights \cup {"nothing"}]
    BY <1>1 DEF IInv, Handshakes
  <2>4. /\ state \in [Ends -> States] /\ pending \in [Ends -> BOOLEAN] /\ permitted \in [Ends -> BOOLEAN]
        /\ gen \in [Ends -> 0 .. MaxGen] /\ sent \in [Ends -> 0 .. MaxData] /\ asked \subseteq Ends
        /\ admitted \in [Ends -> 0 .. MaxGen] /\ cause \in [Ends -> Errors]
    BY <1>1 DEF IInv, Types
  <2> QED
    BY <1>1, <2>0, <2>1, <2>2, <2>3, <2>4 DEF TypeOK
<1>2. ASSUME AInv, repaired \in Builds PROVE TypeOK
  <2>1. /\ \A e \in Ends : current[e] \in Messages \cup {NoPacket} /\ held[e] \in Messages \cup {NoPacket}
        /\ \A e \in Ends : seen[e] \subseteq Messages
    BY <1>2, PlainRecords DEF AInv
  <2>2. \A e \in Ends : \A i \in 1 .. Len(net[e]) : net[e][i] \in Messages
    <3>1. \A e \in Ends : net[e] \in Seq(Plain)
      BY <1>2 DEF AInv
    <3> QED
      BY <3>1, PlainRecords
  <2>3. \A e \in Ends : \A i \in 1 .. Len(delivered[e]) : delivered[e][i] \in 1 .. MaxData
    BY <1>2 DEF AInv
  <2>4. pending \in [Ends -> BOOLEAN] /\ permitted \in [Ends -> BOOLEAN]
    BY <1>2, Zenon DEF AInv
  <2>5. /\ state \in [Ends -> States] /\ awaits \in [Ends -> Flights \cup {"nothing"}]
        /\ gen \in [Ends -> 0 .. MaxGen] /\ sent \in [Ends -> 0 .. MaxData] /\ asked \subseteq Ends
        /\ admitted \in [Ends -> 0 .. MaxGen] /\ cause \in [Ends -> Errors]
        /\ crashed \subseteq Ends /\ unsent \in [Ends -> 0 .. RecordSize - 1]
    BY <1>2, BoundsAssumption DEF AInv, States, Flights
  <2> QED
    BY <1>2, <2>1, <2>2, <2>3, <2>4, <2>5 DEF TypeOK
<1> QED
  BY <1>1, <1>2, Invariant, AsItStands, Unharmedness, PTL

\* As the code stands no session becomes Open, and nothing is written or
\* propagated, over either kind of link and for records of any size.
THEOREM NothingOpensAsWritten == Spec => []OpensOnlyRepaired
<1>1. repaired \/ AInv => OpensOnlyRepaired
  <2>1. ASSUME AInv, NEW e \in Ends
        PROVE  state[e] # "Open" /\ sent[e] = 0 /\ delivered[e] = <<>>
    BY <2>1 DEF AInv
  <2>2. ~(0 > 0)
    OBVIOUS
  <2> QED
    BY <2>1, <2>2 DEF OpensOnlyRepaired
<1> QED
  BY <1>1, AsItStands, PTL

\* A session is Open only under keys of a handshake in which the peer's
\* certificate was verified while its fingerprint was permitted.
THEOREM OpenOnlyIfAdmitted == Spec => []OpenIsAdmitted
<1>1. IInv \/ AInv => OpenIsAdmitted
  BY DEF IInv, AInv, OpenIsAdmitted
<1> QED
  BY <1>1, Invariant, AsItStands, PTL

\* Two sessions that are Open at the same time use the same keys, for any
\* number of renegotiations and whatever the link does to the flights.
THEOREM KeysAgree == Spec => []EpochsAgree
<1>1. IInv => EpochsAgree
  <2>1. Client \in Ends /\ Rest(Client) = "nothing"
    BY DEF Ends, Rest
  <2> QED
    BY <2>1 DEF IInv, Handshakes, Keys, EpochsAgree
<1>2. AInv => EpochsAgree
  BY DEF AInv, EpochsAgree, Ends
<1> QED
  BY <1>1, <1>2, Invariant, AsItStands, PTL

\* A session that is Closed or Aborted stays so: handlePacket takes no packet
\* for it, and the handleHandshake that follows a listener which closed the
\* session finds gnutls at rest and completes nothing.
THEOREM EndedStays == Spec => EndsForGood
<1> DEFINE Stays(e) == state[e] \in {"Closed", "Aborted"} => state'[e] \in {"Closed", "Aborted"}
<1>1. ASSUME IInv, Next, NEW x \in Ends
      PROVE  Stays(x)
  <2>0. state \in [Ends -> States] /\ Client # Server /\ repaired
    BY <1>1, EndsAssumption DEF IInv, Types
  <2>1. PICK e \in Ends : \/ Open(e) \/ Continue(e) \/ Renegotiate(e) \/ Close(e) \/ Write(e)
                          \/ PermissiblePeers(e) \/ \E i \in Arriving(e) : ReadPacket(e, i)
    BY <1>1 DEF Next
  <2>2. CASE Open(e)
    BY <2>0, <2>2 DEF Open
  <2>3. CASE Renegotiate(e)
    BY <2>0, <2>3 DEF Renegotiate
  <2>4. CASE Close(e)
    BY <2>0, <2>4 DEF Close
  <2>5. CASE Write(e)
    BY <2>0, <2>5 DEF Write, appVars
  <2>6. CASE PermissiblePeers(e)
    BY <2>0, <2>6 DEF PermissiblePeers
  <2>7. CASE Continue(e)
    <3> DEFINE m == IF held[e] # NoPacket THEN held[e] ELSE current[e]
    <3>1. Shaking(e, m, net[e]) /\ awaits[e] = Rest(e)
      BY <1>1, <2>7, ContinueShakes
    <3>2. state'[e] \in {state[e], "Aborted"} \/ awaits[e] \in {"ClientFinished", "ServerFinished"}
      BY <1>1, <3>1, HandshakeEffect DEF IInv, Shaking
    <3>3. state'[e] \in {state[e], "Aborted"}
      BY <3>1, <3>2 DEF Rest
    <3>4. \A y \in Ends \ {e} : state'[y] = state[y]
      BY <2>0, <3>1 DEF Shaking, HandleHandshake
    <3> QED
      BY <3>3, <3>4
  <2>8. ASSUME NEW i \in Arriving(e), ReadPacket(e, i)
        PROVE  Stays(x)
    <3> DEFINE m == net[e][i]
               rest == IF Datagrams THEN net[e] ELSE Tail(net[e])
    <3>0. HandleHandshake(e, m, rest) \/ HandleData(e, m, rest) \/ state' = state
      BY <2>0, <2>8, RepairedRead
    <3>1. \A y \in Ends \ {e} : state'[y] = state[y]
      <4> HIDE DEF m, rest
      <4>1. CASE HandleHandshake(e, m, rest)
        BY <2>0, <4>1 DEF HandleHandshake
      <4>2. CASE HandleData(e, m, rest)
        BY <2>0, <4>2 DEF HandleData
      <4> QED
        BY <3>0, <4>1, <4>2
    <3>2. state[e] \in {"Closed", "Aborted"} => state'[e] = state[e]
      BY <2>0, <2>8, RepairedRead DEF Shakes
    <3> QED
      BY <3>1, <3>2
  <2> QED
    BY <2>1, <2>2, <2>3, <2>4, <2>5, <2>6, <2>7, <2>8
<1>2. UNCHANGED vars => \A x \in Ends : Stays(x)
  BY DEF vars, appVars
<1>3. ASSUME AInv, [Next]_vars, NEW x \in Ends
      PROVE  Stays(x)
  BY <1>3, AInvNext DEF Moves, AInv
<1>4. (repaired => IInv) /\ (~repaired => AInv) /\ [Next]_vars
          => [\A e \in Ends : state[e] \in {"Closed", "Aborted"} => state'[e] \in {"Closed", "Aborted"}]_vars
  BY <1>1, <1>2, <1>3
<1> QED
  BY <1>4, Invariant, AsItStands, PTL DEF Spec, EndsForGood

-----------------------------------------------------------------------------
(* The abstract specification: what both kinds of link need. *)

\* The records on their way to e and those it has met.
Met(e) == Elems(net[e]) \cup seen[e] \cup ({held[e], current[e]} \ {NoPacket})

\* A link that repeats has all that was ever written to it.
Came == Datagrams => \A e \in Ends : Met(e) \subseteq Elems(net[e])

\* Nobody writes before open().
Begun == \A e \in Ends : \A m \in Elems(net[e]) : state[Other(e)] # "Invalid"

\* A packet's number tells which write() it is of.
Numbered ==
    \A e \in Ends :
        /\ \A m \in Elems(net[e]) : m.type = "data" => m.n <= sent[Other(e)]
        /\ \A a, b \in Elems(net[e]) : a.type = "data" /\ b.type = "data" /\ a.n = b.n => a = b

\* gnutls has seen the record of every packet that was propagated.
Taken ==
    \A e \in Ends : \A k \in 1 .. Len(delivered[e]) :
        \E m \in seen[e] : m.type = "data" /\ m.n = delivered[e][k]

\* A close_notify on its way to a session that is not over is of a close().
Closing ==
    \A e \in Ends :
        /\ \A m \in Elems(net[e]) : m.type = "bye" => Other(e) \in asked \/ state[e] \in {"Closed", "Aborted"}
        /\ e \in asked => state[e] \in {"Closed", "Aborted"}

\* A packet kept in currentPacket came before open(), or after the end.
Early ==
    \A e \in Ends :
        current[e] # NoPacket /\ (pending[e] \/ state[e] \notin {"Closed", "Aborted"}) => gen[e] = 0

\* The record that gnutls keeps for the next handshake is no data.
Kept == \A e \in Ends : held[e].type # "data"

\* What the refinement needs besides IInv.
RInv == Came /\ Begun /\ Numbered /\ Taken /\ Closing /\ Early /\ Kept

\* The states that are final.
Over(s) == s \in {"Closed", "Aborted"}

\* s has come far enough to have written m: the next flight of its kind is not
\* of the same epoch again.
Issued(s, m) ==
    /\ state[s] # "Invalid"
    /\ m.type = "ClientHello" =>
          s = Client /\ m.gen <= gen[s] + 1 /\ (m.gen = gen[s] + 1 => awaits[s] # "nothing")
    /\ m.type = "ServerHello" =>
          s = Server /\ m.gen <= gen[s] + 1 /\ (m.gen = gen[s] + 1 => awaits[s] = "ClientFinished")
    /\ m.type = "ClientFinished" =>
          s = Client /\ m.gen <= gen[s] + 1 /\ (m.gen = gen[s] + 1 => awaits[s] = "ServerFinished")
    /\ m.type = "ServerFinished" => s = Server /\ m.gen <= gen[s]
    /\ m.type = "HelloRequest" => s = Server /\ m.gen <= gen[s] /\ (m.gen = gen[s] => state[s] # "Open")
    /\ m.type = "bye" => Over(state[s])
    /\ m.type = "data" => m.n <= sent[s]

\* Nobody has met a record that was not written.
Issues == \A e \in Ends : \A m \in Met(e) : Issued(Other(e), m)

\* How far the two ends are into a handshake: each waits only for a flight that
\* the other has sent or still will.
Halves ==
    /\ awaits[Server] = "ClientFinished" => gen[Server] = gen[Client] /\ awaits[Client] # "nothing"
    /\ awaits[Client] = "ServerFinished" /\ gen[Server] = gen[Client] => awaits[Server] = "ClientFinished"

\* No record of q is there twice, or among those in S.
Distinct(q, S) ==
    \A i \in 1 .. Len(q) : q[i] \notin S /\ \A j \in 1 .. Len(q) : q[i] = q[j] => i = j

\* An ordered link repeats nothing.
Fresh == \A e \in Ends : Distinct(net[e], seen[e] \cup {held[e], current[e]})

\* The flight after which its sender s writes under new keys.
Finished(s) == IF s = Client THEN "ClientFinished" ELSE "ServerFinished"

\* The flight of that type with which a receiver leaves epoch g.
Switches(m, g, type) == m.type = type /\ m.gen = g + 1

\* The records of q are of epoch g up to such a flight and of the next behind
\* it, and there is one when the sender has come to write under epoch w > g.
InEpochs(q, g, w, type) ==
    /\ \A i \in 1 .. Len(q) :
        /\ \/ Epoch(q[i]) = g
           \/ Epoch(q[i]) = g + 1 /\ \E j \in 1 .. i - 1 : Switches(q[j], g, type)
        /\ Switches(q[i], g, type) => \A j \in i + 1 .. Len(q) : Epoch(q[j]) = g + 1
    /\ w > g => \E i \in 1 .. Len(q) : Switches(q[i], g, type)

\* The epochs of the records on their way to a session that is not over.
Fifo ==
    \A e \in Ends :
        ~Over(state[e]) => InEpochs(net[e], gen[e], WriteEpoch(Other(e)), Finished(Other(e)))

\* The packets in q are those numbered d + 1 to k, in this order.
Queued(q, d, k) ==
    /\ d <= k
    /\ \A i \in 1 .. Len(q) : q[i].type = "data" =>
        q[i].n \in d + 1 .. k /\ \A j \in 1 .. i - 1 : q[j].type = "data" => q[j].n < q[i].n
    /\ \A n \in d + 1 .. k : \E i \in 1 .. Len(q) : q[i].type = "data" /\ q[i].n = n

\* A session has propagated the packets in order, and until it is over all the
\* others are on their way.
InTurn ==
    \A e \in Ends :
        /\ \A k \in 1 .. Len(delivered[e]) : delivered[e][k] = k
        /\ ~Over(state[e]) => Queued(net[e], Len(delivered[e]), sent[Other(e)])

\* What a link that keeps order adds.
Ordered == Issues /\ Halves /\ Fresh /\ Fifo /\ InTurn
OInv == ~Datagrams => Ordered

\* What an end has met is still met when it keeps it.
LEMMA MetKept ==
    ASSUME IInv, NEW x \in Ends
    PROVE  seen[x] \cup {held[x], current[x]} \subseteq Met(x) \cup {NoPacket} /\ NoPacket \notin seen[x]
  BY NoPacketApart DEF Met, IInv, Types

\* What a step of end e, which writes the records New, may do to the session.
Growth(e, New) ==
    /\ Elems(net'[e]) \subseteq Elems(net[e]) /\ (Datagrams => net'[e] = net[e])
    /\ \A x : x \in Elems(net'[Other(e)]) <=> x \in Elems(net[Other(e)]) \/ x \in New
    /\ New # {} => state[e] # "Invalid"
    /\ \A x \in Ends : state[x] # "Invalid" => state'[x] # "Invalid"
    /\ \A x \in Ends : Over(state[x]) => Over(state'[x])
    /\ \A d \in New : d.type = "data" => New = {d} /\ d.n = sent[e] + 1 /\ sent'[e] = sent[e] + 1
    /\ \A x \in Ends : sent[x] <= sent'[x]
    /\ \A d \in New : d.type = "bye" => e \in asked' \/ Other(e) \in asked
    /\ asked \subseteq asked'
    /\ \A x \in asked' : x \in asked \/ Over(state'[x])
    /\ \A x \in Ends :
        /\ seen[x] \subseteq seen'[x]
        /\ seen'[x] \cup {held'[x], current'[x]} \subseteq Met(x) \cup {NoPacket}
        /\ NoPacket \notin seen'[x]
        /\ held'[x] = held[x] \/ held'[x].type # "data"
        /\ \/ delivered'[x] = delivered[x]
           \/ \E m \in seen'[x] : m.type = "data" /\ delivered'[x] = Append(delivered[x], m.n)

\* Such a step keeps the invariant.
LEMMA GrowthStep ==
    ASSUME IInv, IInv', RInv, NEW e \in Ends, NEW New, Growth(e, New), Early'
    PROVE  RInv'
<1> USE DEF RInv
<1>0. \A x \in Ends : x = e \/ x = Other(e)
  BY EndsAssumption DEF Ends, Other
<1>1. Other(e) \in Ends /\ Other(e) # e /\ Other(Other(e)) = e
  BY OtherEnd
<1>3. Came'
  <2> SUFFICES ASSUME Datagrams, NEW x \in Ends
               PROVE  Met(x)' \subseteq Elems(net'[x])
    BY DEF Came
  <2>1. Elems(net[x]) \subseteq Elems(net'[x])
    BY <1>0 DEF Growth
  <2>2. seen'[x] \cup {held'[x], current'[x]} \subseteq Met(x) \cup {NoPacket} /\ NoPacket \notin seen'[x]
    BY DEF Growth
  <2>3. Met(x) \subseteq Elems(net[x])
    BY DEF Came
  <2> QED
    BY <2>1, <2>2, <2>3 DEF Met
<1>4. Begun'
  <2>1. \A m \in Elems(net'[e]) : state'[Other(e)] # "Invalid"
    BY <1>1 DEF Growth, Begun
  <2>2. \A m \in Elems(net'[Other(e)]) : state'[e] # "Invalid"
    BY <1>1 DEF Growth, Begun
  <2>3. \A x \in Ends : \A m \in Elems(net'[x]) : state'[Other(x)] # "Invalid"
    BY <1>0, <1>1, <2>1, <2>2
  <2>4. \A x \in Ends : Other(x)' = Other(x)
    BY DEF Other
  <2> QED
    BY <2>3, <2>4 DEF Begun
<1>5. Numbered'
  <2>0. /\ \A x \in Ends : sent[x] \in Nat /\ sent'[x] \in Nat /\ sent[x] <= sent'[x]
        /\ \A x \in Ends : \A m \in Elems(net[x]) : m.n \in Nat
        /\ \A x \in Ends : \A m \in Elems(net'[x]) : m.n \in Nat
    <3>1. \A x \in Ends : sent[x] \in Nat /\ sent'[x] \in Nat
      BY BoundsAssumption DEF IInv, Types
    <3>2. \A x \in Ends : \A m \in Elems(net[x]) : m.n \in Nat
      BY BoundsAssumption DEF IInv, RecordsSound, Sound, Messages
    <3>3. \A x \in Ends : \A m \in Elems(net'[x]) : m.n \in Nat
      BY BoundsAssumption DEF IInv, RecordsSound, Sound, Messages
    <3> QED
      BY <3>1, <3>2, <3>3 DEF Growth
  <2>1. \A x \in Ends : \A m \in Elems(net[x]) : m.type = "data" => m.n <= sent'[Other(x)]
    <3> SUFFICES ASSUME NEW x \in Ends, NEW m \in Elems(net[x]), m.type = "data"
                 PROVE  m.n <= sent'[Other(x)]
      OBVIOUS
    <3>1. m.n <= sent[Other(x)] /\ Other(x) \in Ends
      BY OtherEnd DEF Numbered
    <3> QED
      BY <2>0, <3>1
  <2>2. \A x \in Ends : \A m \in Elems(net'[x]) : m.type = "data" => m.n <= sent'[Other(x)]
    <3>1. \A m \in New : m.type = "data" => m.n <= sent'[e]
      BY <2>0 DEF Growth
    <3>2. \A m \in Elems(net'[e]) : m.type = "data" => m.n <= sent'[Other(e)]
      BY <2>1 DEF Growth
    <3>3. \A m \in Elems(net'[Other(e)]) : m.type = "data" => m.n <= sent'[e]
      BY <1>1, <2>1, <3>1 DEF Growth
    <3> QED
      BY <1>0, <1>1, <3>2, <3>3
  <2>3. \A x \in Ends : \A a, b \in Elems(net'[x]) : a.type = "data" /\ b.type = "data" /\ a.n = b.n => a = b
    <3> SUFFICES ASSUME NEW x \in Ends, NEW a \in Elems(net'[x]), NEW b \in Elems(net'[x]),
                        a.type = "data", b.type = "data", a.n = b.n
                 PROVE  a = b
      OBVIOUS
    <3>1. CASE a \in Elems(net[x]) /\ b \in Elems(net[x])
      BY <3>1 DEF Numbered
    <3>2. ASSUME x = Other(e), NEW c \in Elems(net[x]), NEW d \in New, c.type = "data", d.type = "data"
          PROVE  c.n # d.n
      <4>1. c.n <= sent[e] /\ d.n = sent[e] + 1
        BY <1>1, <3>2 DEF Numbered, Growth
      <4> QED
        BY <1>1, <2>0, <4>1
    <3>3. ASSUME x = Other(e), a \in New, b \in New
          PROVE  a = b
      BY <3>3 DEF Growth
    <3> QED
      BY <1>0, <3>1, <3>2, <3>3 DEF Growth
  <2>4. \A x \in Ends : Other(x)' = Other(x)
    BY DEF Other
  <2> QED
    BY <2>2, <2>3, <2>4 DEF Numbered
<1>6. Taken'
  <2> SUFFICES ASSUME NEW x \in Ends, NEW k \in 1 .. Len(delivered'[x])
               PROVE  \E m \in seen'[x] : m.type = "data" /\ m.n = delivered'[x][k]
    BY DEF Taken
  <2>1. seen[x] \subseteq seen'[x]
    BY DEF Growth
  <2>2. CASE delivered'[x] = delivered[x]
    BY <2>1, <2>2 DEF Taken
  <2>3. ASSUME NEW m \in seen'[x], m.type = "data", delivered'[x] = Append(delivered[x], m.n)
        PROVE  \E y \in seen'[x] : y.type = "data" /\ y.n = delivered'[x][k]
    <3>1. delivered[x] \in Seq(1 .. MaxData)
      BY DEF IInv, Types
    <3>2. /\ Len(delivered'[x]) = Len(delivered[x]) + 1
          /\ delivered'[x][Len(delivered[x]) + 1] = m.n
          /\ \A j \in 1 .. Len(delivered[x]) : delivered'[x][j] = delivered[x][j]
          /\ Len(delivered[x]) \in Nat
      BY <2>3, <3>1
    <3>3. k \in 1 .. Len(delivered[x]) \/ k = Len(delivered[x]) + 1
      BY <3>2
    <3> QED
      BY <2>1, <2>3, <3>2, <3>3 DEF Taken
  <2> QED
    BY <2>2, <2>3 DEF Growth
<1>7. Closing'
  <2>1. \A x \in Ends : x \in asked' => Over(state'[x])
    BY DEF Growth, Closing, Over
  <2>2. \A m \in Elems(net'[e]) : m.type = "bye" => Other(e) \in asked' \/ Over(state'[e])
    BY DEF Growth, Closing, Over
  <2>3. \A m \in Elems(net'[Other(e)]) : m.type = "bye" => e \in asked' \/ Over(state'[Other(e)])
    <3>1. \A m \in Elems(net[Other(e)]) : m.type = "bye" => e \in asked' \/ Over(state'[Other(e)])
      BY <1>1 DEF Growth, Closing, Over
    <3>2. \A m \in New : m.type = "bye" => e \in asked' \/ Over(state'[Other(e)])
      BY <1>1, <2>1 DEF Growth
    <3> QED
      BY <3>1, <3>2 DEF Growth
  <2>4. \A x \in Ends : Other(x)' = Other(x)
    BY DEF Other
  <2> QED
    BY <1>0, <1>1, <2>1, <2>2, <2>3, <2>4 DEF Closing, Over
<1>8. Kept'
  BY DEF Growth, Kept
<1> QED
  BY <1>3, <1>4, <1>5, <1>6, <1>7, <1>8

\* What the code above sees of handleHandshake.
LEMMA HandshakeResult ==
    ASSUME IInv, NEW e \in Ends, NEW m, NEW rest, Shaking(e, m, rest)
    PROVE  \/ state' = state /\ delivered' = delivered /\ gen'[e] = gen[e]
           \/ state' = [state EXCEPT ![e] = "Aborted"] /\ delivered' = delivered
           \/ state' = [state EXCEPT ![e] = "Open"] /\ delivered' = delivered /\ awaits[e] # Rest(e)
           \/ /\ state' = state /\ gen'[e] = gen[e]
              /\ Accepts(e, m) /\ m.type = "data"
              /\ delivered' = [delivered EXCEPT ![e] = Append(delivered[e], m.n)]
<1> DEFINE r == GnutlsHandshake(e, m)
<1>0. HandleHandshake(e, m, rest) /\ state[e] \notin {"Invalid", "Open"}
  BY DEF Shaking
<1>1. Outcomes(e, m, r)
  BY HandshakeOutcomes DEF IInv
<1>2. /\ state' = [state EXCEPT ![e] = AfterHandshake(e, r.ret)]
      /\ delivered' = HandshakeData(e, r.ret, m)
      /\ gen'[e] = r.gen
  BY <1>0 DEF HandleHandshake, IInv, Types
<1>3. awaits[e] \in Waits(e) /\ Client # Server /\ e \in {Client, Server}
  BY EndsAssumption DEF IInv, Handshakes, Ends
<1>t. state \in [Ends -> States] /\ gen[e] + 0 = gen[e]
  BY DEF IInv, Types
<1> HIDE DEF r
<1>4. CASE Idles(e, m, r)
  <2>1. CASE r.ret = "AGAIN"
    BY <1>2, <1>4, <1>t, <2>1 DEF Idles, AfterHandshake, HandshakeData
  <2>2. CASE r.ret = "GOT_APPLICATION_DATA"
    BY <1>2, <1>4, <1>t, <2>2 DEF Idles, AfterHandshake, HandshakeData
  <2>3. CASE r.ret \in {"SESSION_EOF", "CERTIFICATE_ERROR"}
    BY <1>2, <2>3 DEF AfterHandshake, HandshakeData
  <2> QED
    BY <1>4, <2>1, <2>2, <2>3 DEF Idles
<1>5. CASE r.ret = "AGAIN" /\ r.gen = gen[e]
  BY <1>2, <1>5, <1>t DEF AfterHandshake, HandshakeData
<1>6. CASE r.ret = "SUCCESS" /\ awaits[e] # Rest(e)
  BY <1>2, <1>6 DEF AfterHandshake, HandshakeData
<1>7. \/ r.ret = "AGAIN" /\ r.gen = gen[e]
      \/ r.ret = "SUCCESS" /\ awaits[e] # Rest(e)
      \/ Idles(e, m, r)
  BY <1>1, <1>3, <1>t DEF Outcomes, Advances, Waiting, Waits, Rest
<1> QED
  BY <1>4, <1>5, <1>6, <1>7

\* handleHandshake with a datagram that has come, or with none.
LEMMA HandshakeGrowth ==
    ASSUME IInv, RInv, NEW e \in Ends, NEW m, NEW rest, Shaking(e, m, rest), Datagrams => rest = net[e],
           m \in Met(e) \cup {NoPacket},
           current'[e] # NoPacket => awaits[e] = Rest(e) /\ pending[e],
           \A x \in Ends \ {e} : current'[x] = current[x],
           ~Over(state[e]) \/ awaits[e] = Rest(e)
    PROVE  RInv'
<1> DEFINE r == GnutlsHandshake(e, m)
           New == Elems(r.out)
<1>0. /\ HandleHandshake(e, m, rest) /\ gen[e] < MaxGen /\ state[e] \notin {"Invalid", "Open"}
      /\ rest \in Seq(Messages) /\ Elems(rest) \subseteq Elems(net[e])
  BY DEF Shaking
<1>inv. IInv'
  BY HandshakeStep
<1>t. Types /\ Handshakes /\ state \in [Ends -> States]
  BY DEF IInv, Types
<1>1. /\ r.out \in Seq(Messages)
      /\ \A x \in Elems(r.out) : x.type \in Flights
  BY <1>0, <1>t, SentByHandshake
<1>2. /\ net'[e] = rest
      /\ \A x : x \in Elems(net'[Other(e)]) <=> x \in Elems(net[Other(e)]) \/ x \in New
  BY <1>0, <1>1, <1>t, ExchangeNet DEF HandleHandshake
<1>3. \/ state' = state /\ delivered' = delivered /\ gen'[e] = gen[e]
      \/ state' = [state EXCEPT ![e] = "Aborted"] /\ delivered' = delivered
      \/ state' = [state EXCEPT ![e] = "Open"] /\ delivered' = delivered /\ awaits[e] # Rest(e)
      \/ /\ state' = state /\ gen'[e] = gen[e]
         /\ Accepts(e, m) /\ m.type = "data"
         /\ delivered' = [delivered EXCEPT ![e] = Append(delivered[e], m.n)]
  BY HandshakeResult
<1>4. /\ seen' = [seen EXCEPT ![e] = seen[e] \cup ({m} \ {NoPacket})]
      /\ sent' = sent /\ asked' = asked
      /\ \A x \in Ends \ {e} : gen'[x] = gen[x]
  BY <1>0, <1>t DEF HandleHandshake, Types
<1>5. \A x \in Ends : held'[x] \in {held[x], NoPacket} /\ current'[x] \in {current[x], NoPacket}
  BY DEF Shaking
<1>6. seen \in [Ends -> SUBSET Messages] /\ delivered \in [Ends -> Seq(1 .. MaxData)] /\ \A x \in Ends : sent[x] \in Nat
  BY <1>t, BoundsAssumption DEF Types
<1> HIDE DEF r
<1>7. Growth(e, New)
  <2>1. \A x \in Ends : state[x] # "Invalid" => state'[x] # "Invalid"
    BY <1>3, <1>t
  <2>2. \A x \in Ends : Over(state[x]) => Over(state'[x])
    BY <1>3, <1>t DEF Over
  <2>3. \A d \in New : d.type \notin {"data", "bye"}
    BY <1>1 DEF Flights
  <2>4. \A x \in Ends : /\ seen[x] \subseteq seen'[x]
                        /\ seen'[x] \cup {held'[x], current'[x]} \subseteq Met(x) \cup {NoPacket}
                        /\ NoPacket \notin seen'[x]
    BY <1>4, <1>5, <1>6, NoPacketApart DEF Met
  <2>5. \A x \in Ends : \/ delivered'[x] = delivered[x]
                        \/ \E y \in seen'[x] : y.type = "data" /\ delivered'[x] = Append(delivered[x], y.n)
    <3>1. CASE delivered' = delivered
      BY <3>1
    <3>2. CASE /\ Accepts(e, m) /\ m.type = "data"
               /\ delivered' = [delivered EXCEPT ![e] = Append(delivered[e], m.n)]
      <4>1. m \in seen'[e]
        BY <1>4, <1>6, <3>2 DEF Accepts
      <4>2. /\ delivered'[e] = Append(delivered[e], m.n)
            /\ \A x \in Ends \ {e} : delivered'[x] = delivered[x]
        BY <1>6, <3>2
      <4> QED
        BY <3>2, <4>1, <4>2
    <3> QED
      BY <1>3, <3>1, <3>2
  <2>6. \A x \in Ends : sent[x] <= sent'[x]
    BY <1>4, <1>6
  <2>7. \A x \in Ends : held'[x] = held[x] \/ held'[x].type # "data"
    BY <1>5 DEF NoPacket, Message
  <2> QED
    BY <1>0, <1>2, <1>4, <2>1, <2>2, <2>3, <2>4, <2>5, <2>6, <2>7 DEF Growth
<1>8. Early'
  <2> SUFFICES ASSUME NEW x \in Ends, current'[x] # NoPacket, pending'[x] \/ state'[x] \notin {"Closed", "Aborted"}
               PROVE  gen'[x] = 0
    BY DEF Early
  <2>1. CASE x # e
    <3>1. /\ state'[x] = state[x] /\ current'[x] = current[x] /\ gen'[x] = gen[x]
      BY <1>3, <1>4, <1>t, <2>1
    <3>2. pending'[x] <=> pending[x]
      BY <1>t, <2>1, Zenon DEF Shaking, Types
    <3> QED
      BY <3>1, <3>2 DEF RInv, Early
  <2>2. CASE x = e
    <3>1. ~pending'[e]
      BY <1>t, Zenon DEF Shaking, Types
    <3>2. current[e] # NoPacket /\ pending[e] /\ awaits[e] = Rest(e)
      BY <1>5, <2>2
    <3>3. gen'[e] = gen[e]
      BY <1>3, <1>t, <2>2, <3>1, <3>2
    <3> QED
      BY <2>2, <3>2, <3>3 DEF RInv, Early
  <2> QED
    BY <2>1, <2>2
<1> QED
  BY <1>inv, <1>7, <1>8, GrowthStep

-----------------------------------------------------------------------------
(* A queue of records: what reading its first and writing behind its last do
   to its epochs, to the packets in it and to their being fresh. *)

\* The rest of a queue.
LEMMA TailOf ==
    ASSUME NEW S, NEW q \in Seq(S), q # <<>>
    PROVE  /\ Len(q) \in Nat /\ Len(q) >= 1 /\ Tail(q) \in Seq(S) /\ Len(Tail(q)) = Len(q) - 1
           /\ \A i \in 1 .. Len(q) - 1 : Tail(q)[i] = q[i + 1] /\ i + 1 \in 2 .. Len(q)
           /\ \A i \in 2 .. Len(q) : q[i] = Tail(q)[i - 1] /\ i - 1 \in 1 .. Len(q) - 1
<1>1. Len(q) \in Nat /\ Len(q) >= 1
  OBVIOUS
<1>2. Tail(q) \in Seq(S) /\ Len(Tail(q)) = Len(q) - 1 /\ \A i \in 1 .. Len(q) - 1 : Tail(q)[i] = q[i + 1]
  BY <1>1
<1>3. \A i \in 2 .. Len(q) : q[i] = Tail(q)[i - 1] /\ i - 1 \in 1 .. Len(q) - 1
  BY <1>1, <1>2
<1> QED
  BY <1>1, <1>2, <1>3

\* A longer queue.
LEMMA AppendTo ==
    ASSUME NEW S, NEW q \in Seq(S), NEW x \in S
    PROVE  /\ Len(q) \in Nat /\ q \o <<x>> \in Seq(S) /\ Len(q \o <<x>>) = Len(q) + 1
           /\ \A i \in 1 .. Len(q) : (q \o <<x>>)[i] = q[i]
           /\ (q \o <<x>>)[Len(q) + 1] = x
  OBVIOUS

\* A record that was not there before is written.
LEMMA DistinctAppend ==
    ASSUME NEW S, NEW q \in Seq(S), NEW x \in S, NEW T, Distinct(q, T),
           x \notin T, \A i \in 1 .. Len(q) : q[i] # x
    PROVE  Distinct(q \o <<x>>, T)
  BY AppendTo DEF Distinct

\* The first record is read.
LEMMA DistinctTail ==
    ASSUME NEW S, NEW q \in Seq(S), q # <<>>, NEW T, Distinct(q, T), NEW U, U \subseteq T \cup {q[1]}
    PROVE  Distinct(Tail(q), U)
<1>1. \A i \in 1 .. Len(q) - 1 : q[i + 1] # q[1] /\ q[i + 1] \notin T
  BY TailOf DEF Distinct
<1>2. \A i, j \in 1 .. Len(q) - 1 : q[i + 1] = q[j + 1] => i = j
  BY TailOf DEF Distinct
<1> QED
  BY <1>1, <1>2, TailOf DEF Distinct

\* The sender writes a record of its epoch.
LEMMA EpochsAppend ==
    ASSUME NEW S, NEW q \in Seq(S), NEW x \in S, NEW g \in Nat, NEW w \in {g, g + 1}, NEW type \in Flights,
           NEW v \in Nat, InEpochs(q, g, w, type), Epoch(x) = w, x.gen \in Nat,
           \A i \in 1 .. Len(q) : Switches(q[i], g, type) => w > g,
           x.type = type => w = g /\ v = g + 1,
           x.type # type => v = w
    PROVE  InEpochs(q \o <<x>>, g, v, type)
<1> DEFINE p == q \o <<x>>
           n == Len(q)
<1>1. /\ n \in Nat /\ Len(p) = n + 1 /\ p[n + 1] = x
      /\ \A i \in 1 .. n : p[i] = q[i]
  BY AppendTo
<1>2. x.type = type => x.gen = g + 1
  BY DEF Epoch
<1> HIDE DEF p, n
<1>3. CASE w = g
  <2>1. \A i \in 1 .. n : Epoch(q[i]) = g /\ ~Switches(q[i], g, type)
    BY <1>1, <1>3 DEF InEpochs, n
  <2>2. \A i \in 1 .. n + 1 : Epoch(p[i]) = g /\ (Switches(p[i], g, type) => i = n + 1)
    BY <1>1, <1>3, <2>1
  <2>3. v > g => Switches(p[n + 1], g, type)
    BY <1>1, <1>2, <1>3 DEF Switches
  <2>4. InEpochs(p, g, v, type)
    BY <1>1, <2>2, <2>3 DEF InEpochs
  <2> QED
    BY <2>4 DEF p
<1>4. CASE w = g + 1
  <2>1. v = g + 1 /\ x.type # type
    BY <1>4
  <2>2. PICK k \in 1 .. n : Switches(q[k], g, type)
    BY <1>4 DEF InEpochs, n
  <2>3. ASSUME NEW i \in 1 .. n
        PROVE  /\ \/ Epoch(p[i]) = g
                  \/ Epoch(p[i]) = g + 1 /\ \E j \in 1 .. i - 1 : Switches(p[j], g, type)
               /\ Switches(p[i], g, type) => \A j \in i + 1 .. n + 1 : Epoch(p[j]) = g + 1
    <3>1. \A j \in 1 .. i - 1 : j \in 1 .. n
      BY <1>1
    <3>2. \A j \in i + 1 .. n + 1 : j \in i + 1 .. n \/ j = n + 1
      BY <1>1
    <3>3. \A j \in i + 1 .. n : j \in 1 .. n
      BY <1>1
    <3> QED
      BY <1>1, <1>4, <3>1, <3>2, <3>3 DEF InEpochs, n
  <2>4. Epoch(p[n + 1]) = g + 1 /\ k \in 1 .. (n + 1) - 1 /\ Switches(p[k], g, type) /\ ~Switches(p[n + 1], g, type)
    BY <1>1, <1>4, <2>1, <2>2 DEF Switches
  <2>5. \A i \in 1 .. n + 1 : i \in 1 .. n \/ i = n + 1
    BY <1>1
  <2>6. ASSUME NEW i \in 1 .. n + 1
        PROVE  /\ \/ Epoch(p[i]) = g
                  \/ Epoch(p[i]) = g + 1 /\ \E j \in 1 .. i - 1 : Switches(p[j], g, type)
               /\ Switches(p[i], g, type) => \A j \in i + 1 .. n + 1 : Epoch(p[j]) = g + 1
    <3>1. CASE i \in 1 .. n
      BY <2>3, <3>1
    <3>2. CASE i = n + 1
      BY <2>4, <3>2
    <3> QED
      BY <2>5, <3>1, <3>2
  <2>7. \E i \in 1 .. n + 1 : Switches(p[i], g, type)
    BY <1>1, <2>4
  <2>8. InEpochs(p, g, v, type)
    BY <1>1, <2>6, <2>7 DEF InEpochs
  <2> QED
    BY <2>8 DEF p
<1> QED
  BY <1>3, <1>4

\* The receiver reads a record and stays in its epoch.
LEMMA EpochsTail ==
    ASSUME NEW S, NEW q \in Seq(S), q # <<>>, NEW g \in Nat, NEW w \in Nat, NEW type,
           InEpochs(q, g, w, type), ~Switches(q[1], g, type)
    PROVE  InEpochs(Tail(q), g, w, type)
<1> DEFINE p == Tail(q)
           n == Len(q) - 1
<1>1. /\ n \in Nat /\ Len(q) = n + 1 /\ Len(p) = n
      /\ \A i \in 1 .. n : p[i] = q[i + 1] /\ i + 1 \in 1 .. Len(q)
      /\ \A i \in 2 .. Len(q) : q[i] = p[i - 1] /\ i - 1 \in 1 .. n
  BY TailOf
<1> HIDE DEF p, n
<1>2. ASSUME NEW i \in 1 .. n
      PROVE  /\ \/ Epoch(p[i]) = g
                \/ Epoch(p[i]) = g + 1 /\ \E j \in 1 .. i - 1 : Switches(p[j], g, type)
             /\ Switches(p[i], g, type) => \A j \in i + 1 .. n : Epoch(p[j]) = g + 1
  <2>1. ASSUME Epoch(q[i + 1]) # g
        PROVE  Epoch(q[i + 1]) = g + 1 /\ \E j \in 1 .. i - 1 : Switches(p[j], g, type)
    <3>1. PICK j \in 1 .. (i + 1) - 1 : Switches(q[j], g, type)
      BY <1>1, <2>1 DEF InEpochs
    <3>2. j \in 2 .. Len(q) /\ j - 1 \in 1 .. i - 1
      BY <1>1, <3>1
    <3>3. Switches(p[j - 1], g, type)
      BY <1>1, <3>1, <3>2
    <3> QED
      BY <1>1, <2>1, <3>2, <3>3 DEF InEpochs
  <2>2. ASSUME Switches(q[i + 1], g, type)
        PROVE  \A j \in i + 1 .. n : Epoch(p[j]) = g + 1
    <3>1. \A j \in i + 1 .. n : j + 1 \in (i + 1) + 1 .. Len(q) /\ j \in 1 .. n
      BY <1>1
    <3> QED
      BY <1>1, <2>2, <3>1 DEF InEpochs
  <2>3. /\ \/ Epoch(p[i]) = g
           \/ Epoch(p[i]) = g + 1 /\ \E j \in 1 .. i - 1 : Switches(p[j], g, type)
    BY <1>1, <2>1
  <2>4. Switches(p[i], g, type) => \A j \in i + 1 .. n : Epoch(p[j]) = g + 1
    BY <1>1, <2>2
  <2> QED
    BY <2>3, <2>4
<1>3. w > g => \E i \in 1 .. n : Switches(p[i], g, type)
  <2> SUFFICES ASSUME w > g PROVE \E i \in 1 .. n : Switches(p[i], g, type)
    OBVIOUS
  <2>1. PICK i \in 1 .. Len(q) : Switches(q[i], g, type)
    BY DEF InEpochs
  <2>2. i \in 2 .. Len(q)
    BY <1>1, <2>1
  <2> QED
    BY <1>1, <2>1, <2>2
<1>4. InEpochs(p, g, w, type)
  BY <1>1, <1>2, <1>3 DEF InEpochs
<1> QED
  BY <1>4 DEF p

\* The receiver reads the flight with which it leaves its epoch.
LEMMA EpochsSwitch ==
    ASSUME NEW S, NEW q \in Seq(S), q # <<>>, NEW g \in Nat, NEW type,
           InEpochs(q, g, g + 1, type), Switches(q[1], g, type),
           \A i \in 1 .. Len(q) : ~Switches(q[i], g + 1, type)
    PROVE  InEpochs(Tail(q), g + 1, g + 1, type)
<1> DEFINE p == Tail(q)
           n == Len(q) - 1
<1>1. /\ n \in Nat /\ Len(q) = n + 1 /\ Len(p) = n
      /\ \A i \in 1 .. n : p[i] = q[i + 1] /\ i + 1 \in 2 .. Len(q) /\ i + 1 \in 1 .. Len(q)
  BY TailOf
<1> HIDE DEF p, n
<1>2. \A j \in 1 + 1 .. Len(q) : Epoch(q[j]) = g + 1
  BY <1>1 DEF InEpochs
<1>3. \A i \in 1 .. n : Epoch(p[i]) = g + 1 /\ ~Switches(p[i], g + 1, type)
  BY <1>1, <1>2
<1>4. InEpochs(p, g + 1, g + 1, type)
  BY <1>1, <1>3 DEF InEpochs
<1> QED
  BY <1>4 DEF p

\* The first packet in a queue is the one whose turn it is.
LEMMA FirstQueued ==
    ASSUME NEW S, NEW q \in Seq(S), q # <<>>, NEW d \in Nat, NEW k \in Nat, Queued(q, d, k), q[1].type = "data"
    PROVE  q[1].n = d + 1
<1>1. Len(q) \in Nat /\ 1 \in 1 .. Len(q)
  OBVIOUS
<1>2. q[1].n \in d + 1 .. k
  BY <1>1 DEF Queued
<1>3. d + 1 \in d + 1 .. k
  BY <1>2
<1>4. PICK i \in 1 .. Len(q) : q[i].type = "data" /\ q[i].n = d + 1
  BY <1>3 DEF Queued
<1>5. CASE i # 1
  <2>1. q[1].n < q[i].n
    BY <1>1, <1>4, <1>5 DEF Queued
  <2> QED
    BY <1>2, <1>4, <2>1
<1> QED
  BY <1>4, <1>5

\* A record is written, a packet or another.
LEMMA QueuedAppend ==
    ASSUME NEW S, NEW q \in Seq(S), NEW x \in S, NEW d \in Nat, NEW k \in Nat, NEW l \in Nat, Queued(q, d, k),
           x.type = "data" => x.n = k + 1 /\ l = k + 1,
           x.type # "data" => l = k
    PROVE  Queued(q \o <<x>>, d, l)
<1> DEFINE p == q \o <<x>>
           m == Len(q)
<1>1. /\ m \in Nat /\ Len(p) = m + 1 /\ p[m + 1] = x
      /\ \A i \in 1 .. m : p[i] = q[i]
      /\ \A i \in 1 .. m + 1 : i \in 1 .. m \/ i = m + 1
  BY AppendTo
<1>2. d <= l /\ d <= k
  BY DEF Queued
<1>q. /\ \A i \in 1 .. m : q[i].type = "data" =>
          q[i].n \in d + 1 .. k /\ \A j \in 1 .. i - 1 : q[j].type = "data" => q[j].n < q[i].n
      /\ \A n \in d + 1 .. k : \E i \in 1 .. m : q[i].type = "data" /\ q[i].n = n
  BY DEF Queued
<1> HIDE DEF p, m
<1>3. ASSUME NEW i \in 1 .. m, p[i].type = "data"
      PROVE  p[i].n \in d + 1 .. l /\ \A j \in 1 .. i - 1 : p[j].type = "data" => p[j].n < p[i].n
  <2>1. \A j \in 1 .. i - 1 : j \in 1 .. m
    BY <1>1
  <2>2. q[i].n \in d + 1 .. l
    BY <1>1, <1>2, <1>3, <1>q
  <2> QED
    BY <1>1, <1>3, <1>q, <2>1, <2>2
<1>4. ASSUME x.type = "data"
      PROVE  x.n \in d + 1 .. l /\ \A j \in 1 .. (m + 1) - 1 : p[j].type = "data" => p[j].n < x.n
  <2>1. \A j \in 1 .. (m + 1) - 1 : j \in 1 .. m
    BY <1>1
  <2>2. x.n \in d + 1 .. l /\ x.n = k + 1
    BY <1>2, <1>4
  <2>3. \A j \in 1 .. m : p[j].type = "data" => p[j].n \in d + 1 .. k
    BY <1>1, <1>q
  <2> QED
    BY <2>1, <2>2, <2>3
<1>5. ASSUME NEW n \in d + 1 .. l
      PROVE  \E i \in 1 .. m + 1 : p[i].type = "data" /\ p[i].n = n
  <2>1. CASE n \in d + 1 .. k
    <3>1. PICK i \in 1 .. m : q[i].type = "data" /\ q[i].n = n
      BY <1>q, <2>1
    <3>2. i \in 1 .. m + 1 /\ p[i] = q[i]
      BY <1>1
    <3> QED
      BY <3>1, <3>2
  <2>2. CASE n \notin d + 1 .. k
    <3>1. x.type = "data" /\ n = k + 1 /\ m + 1 \in 1 .. m + 1
      BY <1>1, <1>2, <2>2
    <3> QED
      BY <1>1, <3>1
  <2> QED
    BY <2>1, <2>2
<1>6. Queued(p, d, l)
  BY <1>1, <1>2, <1>3, <1>4, <1>5 DEF Queued
<1> QED
  BY <1>6 DEF p

\* The first record is read, a packet or another.
LEMMA QueuedTail ==
    ASSUME NEW S, NEW q \in Seq(S), q # <<>>, NEW d \in Nat, NEW k \in Nat, NEW c \in Nat, Queued(q, d, k),
           c = IF q[1].type = "data" THEN d + 1 ELSE d
    PROVE  Queued(Tail(q), c, k)
<1> DEFINE p == Tail(q)
           m == Len(q) - 1
<1>1. /\ m \in Nat /\ Len(q) = m + 1 /\ Len(p) = m
      /\ \A i \in 1 .. m : p[i] = q[i + 1] /\ i + 1 \in 1 .. Len(q)
      /\ \A i \in 2 .. Len(q) : q[i] = p[i - 1] /\ i - 1 \in 1 .. m
  BY TailOf
<1>q. /\ \A i \in 1 .. Len(q) : q[i].type = "data" =>
          q[i].n \in d + 1 .. k /\ \A j \in 1 .. i - 1 : q[j].type = "data" => q[j].n < q[i].n
      /\ \A n \in d + 1 .. k : \E i \in 1 .. Len(q) : q[i].type = "data" /\ q[i].n = n
      /\ d <= k
  BY DEF Queued
<1>f. q[1].type = "data" => q[1].n = d + 1
  BY FirstQueued
<1> HIDE DEF p, m
<1>2. c <= k
  <2>1. 1 \in 1 .. Len(q)
    BY <1>1
  <2> QED
    BY <1>q, <1>f, <2>1
<1>3. ASSUME NEW i \in 1 .. m, p[i].type = "data"
      PROVE  p[i].n \in c + 1 .. k /\ \A j \in 1 .. i - 1 : p[j].type = "data" => p[j].n < p[i].n
  <2>1. \A j \in 1 .. i - 1 : j \in 1 .. m /\ j + 1 \in 1 .. (i + 1) - 1
    BY <1>1
  <2>2. q[i + 1].n \in d + 1 .. k /\ 1 \in 1 .. (i + 1) - 1
    BY <1>1, <1>3, <1>q
  <2>3. q[1].type = "data" => d + 1 < q[i + 1].n
    BY <1>1, <1>3, <1>q, <1>f, <2>2
  <2>4. q[i + 1].n \in c + 1 .. k
    BY <2>2, <2>3
  <2>5. \A j \in 1 .. (i + 1) - 1 : q[j].type = "data" => q[j].n < q[i + 1].n
    BY <1>1, <1>3, <1>q
  <2>6. p[i] = q[i + 1] /\ \A j \in 1 .. i - 1 : p[j] = q[j + 1]
    BY <1>1, <2>1
  <2> QED
    BY <2>1, <2>4, <2>5, <2>6
<1>4. ASSUME NEW n \in c + 1 .. k
      PROVE  \E i \in 1 .. m : p[i].type = "data" /\ p[i].n = n
  <2>1. n \in d + 1 .. k /\ (q[1].type = "data" => n # d + 1)
    OBVIOUS
  <2>2. PICK i \in 1 .. Len(q) : q[i].type = "data" /\ q[i].n = n
    BY <1>q, <2>1
  <2>3. i \in 2 .. Len(q)
    BY <1>1, <1>f, <2>1, <2>2
  <2> QED
    BY <1>1, <2>2, <2>3
<1>5. Queued(p, c, k)
  BY <1>1, <1>2, <1>3, <1>4 DEF Queued
<1> QED
  BY <1>5 DEF p

-----------------------------------------------------------------------------
(* An ordered link: steps of one end. *)

\* gnutls goes on from flight to flight, sessions from state to state.
Onward ==
    \A x \in Ends :
        /\ \/ gen'[x] = gen[x] + 1
           \/ /\ gen'[x] = gen[x]
              /\ awaits[x] # "nothing" => awaits'[x] # "nothing"
              /\ awaits[x] \in {"ClientFinished", "ServerFinished"} => awaits'[x] = awaits[x]
              /\ state'[x] = "Open" => state[x] = "Open"
        /\ state[x] # "Invalid" => state'[x] # "Invalid"
        /\ Over(state[x]) => Over(state'[x])
        /\ sent[x] <= sent'[x]

\* e reads no datagram.
Keeps(e) ==
    /\ net'[e] = net[e] /\ gen'[e] = gen[e] /\ delivered'[e] = delivered[e]
    /\ seen'[e] \cup {held'[e], current'[e]} \subseteq seen[e] \cup {held[e], current[e], NoPacket}

\* e reads the first datagram.  Unless its session is over then, it takes in the
\* peer's Finished and propagates a packet.
Reads(e) ==
    /\ net[e] # <<>> /\ net'[e] = Tail(net[e])
    /\ seen'[e] \cup {held'[e], current'[e]} \subseteq seen[e] \cup {held[e], current[e], NoPacket, net[e][1]}
    /\ ~Over(state'[e]) =>
          gen'[e] = IF Switches(net[e][1], gen[e], Finished(Other(e))) THEN gen[e] + 1 ELSE gen[e]
    /\ delivered'[e] = IF ~Over(state'[e]) /\ net[e][1].type = "data"
                       THEN Append(delivered[e], net[e][1].n)
                       ELSE delivered[e]

\* e writes nothing.
Silent(e) ==
    net'[Other(e)] = net[Other(e)] /\ WriteEpoch(e)' = WriteEpoch(e) /\ sent'[e] = sent[e]

\* e writes the record x, which it has not written before.
Writes(e, x) ==
    /\ net'[Other(e)] = net[Other(e)] \o <<x>>
    /\ ~Issued(e, x) /\ Issued(e, x)'
    /\ Epoch(x) = WriteEpoch(e)
    /\ WriteEpoch(e)' = WriteEpoch(e) + (IF x.type = Finished(e) THEN 1 ELSE 0)
    /\ x.type = Finished(e) => gen[Other(e)] = WriteEpoch(e)
    /\ sent'[e] = sent[e] + (IF x.type = "data" THEN 1 ELSE 0)
    /\ x.type = "data" => x.n = sent[e] + 1

\* The other end's session stays as it is.
Stands(x) ==
    /\ state'[x] = state[x] /\ awaits'[x] = awaits[x] /\ gen'[x] = gen[x] /\ seen'[x] = seen[x]
    /\ held'[x] = held[x] /\ current'[x] = current[x] /\ sent'[x] = sent[x] /\ delivered'[x] = delivered[x]

\* A step of e.
Step(e) ==
    Onward /\ Stands(Other(e)) /\ (Keeps(e) \/ Reads(e)) /\ (Silent(e) \/ \E x \in Messages : Writes(e, x))

\* What was written has been written.
LEMMA IssuedStays ==
    ASSUME IInv, IInv', Onward, NEW s \in Ends, NEW m \in Messages, Issued(s, m)
    PROVE  Issued(s, m)'
<1>1. /\ gen[s] \in Nat /\ gen'[s] \in Nat /\ sent[s] \in Nat /\ sent'[s] \in Nat
      /\ m.gen \in Nat /\ m.n \in Nat
  BY BoundsAssumption DEF IInv, Types, Messages
<1>2. CASE gen'[s] = gen[s] + 1
  BY <1>1, <1>2 DEF Onward, Issued
<1>3. CASE gen'[s] = gen[s]
  BY <1>1, <1>3 DEF Onward, Issued
<1> QED
  BY <1>2, <1>3 DEF Onward

\* The peer writes under the keys in use or the next.
LEMMA WriteEpochs ==
    ASSUME IInv, NEW e \in Ends
    PROVE  /\ gen[e] \in Nat /\ WriteEpoch(Other(e)) \in {gen[e], gen[e] + 1}
           /\ \A m \in Met(e) : Issued(Other(e), m) /\ m.type = Finished(Other(e)) =>
                 m.gen \in Nat /\ m.gen <= WriteEpoch(Other(e))
<1>1. /\ gen[Client] \in Nat /\ gen[Server] \in Nat /\ Client # Server
      /\ e \in {Client, Server} /\ Other(Client) = Server /\ Other(Server) = Client
      /\ awaits[Server] # "ServerFinished"
  BY BoundsAssumption, EndsAssumption DEF IInv, Types, Ends, Other, Handshakes, Waits
<1>2. WriteEpoch(Server) = gen[Server]
  BY <1>1 DEF WriteEpoch
<1>3. WriteEpoch(Client) = IF awaits[Client] = "ServerFinished" THEN gen[Client] + 1 ELSE gen[Client]
  BY <1>1 DEF WriteEpoch
<1>4. WriteEpoch(Other(e)) \in {gen[e], gen[e] + 1}
  BY <1>1, <1>2, <1>3 DEF IInv, Keys
<1>5. \A m \in Met(e) : m.gen \in Nat
  BY BoundsAssumption DEF Met, IInv, RecordsSound, Sound, Types, Messages
<1>6. \A m \in Met(e) : Issued(Other(e), m) /\ m.type = Finished(Other(e)) => m.gen <= WriteEpoch(Other(e))
  BY <1>1, <1>2, <1>3, <1>5 DEF Issued, Finished
<1> QED
  BY <1>1, <1>4, <1>5, <1>6

\* A step of e leaves the records in the order and number that Ordered says.
LEMMA StepOrdered ==
    ASSUME IInv, IInv', Ordered, NEW e \in Ends, Step(e), Halves'
    PROVE  Ordered'
<1> DEFINE o == Other(e)
           S(x) == seen[x] \cup {held[x], current[x]}
<1>0. /\ o \in Ends /\ o # e /\ Other(o) = e /\ \A x \in Ends : x = e \/ x = o
  BY EndsAssumption, OtherEnd DEF Ends, Other
<1>t. /\ net[e] \in Seq(Messages) /\ net[o] \in Seq(Messages)
      /\ delivered[e] \in Seq(1 .. MaxData) /\ delivered[o] \in Seq(1 .. MaxData)
      /\ gen[e] \in Nat /\ gen[o] \in Nat /\ sent[e] \in Nat /\ sent[o] \in Nat
      /\ NoPacket \notin Messages
  BY <1>0, BoundsAssumption, NoPacketApart DEF IInv, Types
<1>s. Onward /\ Stands(o) /\ (Keeps(e) \/ Reads(e)) /\ (Silent(e) \/ \E x \in Messages : Writes(e, x))
  BY DEF Step
<1>p. \A x : Other(x)' = Other(x)
  BY DEF Other
<1>m. \A x \in Ends : Met(x) \subseteq Messages
  <2> SUFFICES ASSUME NEW x \in Ends PROVE Met(x) \subseteq Messages
    OBVIOUS
  <2>1. net[x] \in Seq(Messages)
    BY DEF IInv, Types
  <2>2. Elems(net[x]) \subseteq Messages
    BY <2>1, ElemsOf
  <2> QED
    BY <2>2 DEF Met, IInv, Types
<1>n. \A x \in Ends : \A i \in 1 .. Len(net[x]) : net[x][i] \in Met(x) /\ net[x][i] \in Elems(net[x])
  BY DEF Met, Elems
<1>w. ASSUME NEW x \in Messages, Writes(e, x)
      PROVE  x \notin Met(o)
  BY <1>0, <1>w DEF Writes, Ordered, Issues
<1> HIDE DEF o
<1>1. Issues'
  <2>1. ASSUME NEW m \in Met(e)'
        PROVE  m \in Met(e)
    <3>0. NoPacket \notin seen'[e] /\ NoPacket \notin Elems(net'[e])
      <4>1. seen'[e] \subseteq Messages /\ net'[e] \in Seq(Messages)
        BY DEF IInv, Types
      <4> QED
        BY <1>t, <4>1, ElemsOf
    <3>1. CASE Keeps(e)
      BY <2>1, <3>0, <3>1 DEF Keeps, Met
    <3>2. CASE Reads(e)
      <4>1. Elems(Tail(net[e])) \subseteq Elems(net[e]) /\ net[e][1] \in Elems(net[e])
        <5>1. net[e] # <<>>
          BY <3>2 DEF Reads
        <5> QED
          BY <1>t, <5>1, TailOf DEF Elems
      <4> QED
        BY <2>1, <3>0, <3>2, <4>1 DEF Reads, Met
    <3> QED
      BY <1>s, <3>1, <3>2
  <2>2. ASSUME NEW m \in Met(o)'
        PROVE  m \in Met(o) \/ (m \in Messages /\ Writes(e, m))
    <3>1. CASE Silent(e)
      BY <1>s, <2>2, <3>1 DEF Silent, Stands, Met, o
    <3>2. ASSUME NEW x \in Messages, Writes(e, x)
          PROVE  m \in Met(o) \/ m = x
      <4>1. <<x>> \in Seq(Messages) /\ Elems(<<x>>) = {x}
        BY DEF Elems
      <4>2. net'[o] = net[o] \o <<x>>
        BY <3>2 DEF Writes, o
      <4>3. \A y : y \in Elems(net'[o]) <=> y \in Elems(net[o]) \/ y \in {x}
        BY <1>t, <4>1, <4>2, ElemsOf
      <4> QED
        BY <1>s, <2>2, <4>3 DEF Stands, Met
    <3> QED
      BY <1>s, <3>1, <3>2
  <2>3. ASSUME NEW x \in Ends, NEW m \in Met(x)'
        PROVE  Issued(Other(x), m)'
    <3>1. ASSUME m \in Met(x) PROVE Issued(Other(x), m)'
      BY <1>m, <1>s, <3>1, IssuedStays, OtherEnd DEF Ordered, Issues
    <3>2. ASSUME x = o, Writes(e, m) PROVE Issued(Other(x), m)'
      BY <1>0, <3>2 DEF Writes
    <3> QED
      BY <1>0, <2>1, <2>2, <2>3, <3>1, <3>2
  <2> QED
    BY <1>p, <2>3 DEF Issues
<1>2. Fresh'
  <2>1. Distinct(net'[e], S(e)')
    <3>1. Distinct(net[e], S(e) \cup {NoPacket})
      BY <1>t DEF Ordered, Fresh, Distinct
    <3>2. CASE Keeps(e)
      BY <3>1, <3>2 DEF Keeps, Distinct
    <3>3. CASE Reads(e)
      <4>1. net[e] # <<>> /\ net'[e] = Tail(net[e]) /\ S(e)' \subseteq (S(e) \cup {NoPacket}) \cup {net[e][1]}
        BY <3>3 DEF Reads
      <4>2. PICK U : U = S(e)'
        OBVIOUS
      <4>3. PICK T : T = S(e) \cup {NoPacket}
        OBVIOUS
      <4> HIDE DEF S
      <4> QED
        BY <1>t, <3>1, <4>1, <4>2, <4>3, DistinctTail
    <3> QED
      BY <1>s, <3>2, <3>3
  <2>2. Distinct(net'[o], S(o)')
    <3>1. Distinct(net[o], S(o)) /\ S(o)' = S(o)
      BY <1>0, <1>s DEF Ordered, Fresh, Stands
    <3>2. CASE Silent(e)
      BY <3>1, <3>2 DEF Silent, o
    <3>3. ASSUME NEW x \in Messages, Writes(e, x)
          PROVE  Distinct(net'[o], S(o)')
      <4>1. net'[o] = net[o] \o <<x>> /\ x \notin Met(o)
        BY <1>w, <3>3 DEF Writes, o
      <4>2. x \notin S(o) /\ \A i \in 1 .. Len(net[o]) : net[o][i] # x
        BY <1>0, <1>n, <1>t, <4>1 DEF Met
      <4> HIDE DEF S
      <4> QED
        BY <1>t, <3>1, <4>1, <4>2, DistinctAppend
    <3> QED
      BY <1>s, <3>2, <3>3
  <2>3. \A x \in Ends : Distinct(net'[x], S(x)')
    BY <1>0, <2>1, <2>2
  <2> QED
    BY <2>3 DEF Fresh
<1>3. Fifo'
  <2>1. ASSUME ~Over(state'[e])
        PROVE  InEpochs(net'[e], gen'[e], WriteEpoch(o)', Finished(o))
    <3> DEFINE w == WriteEpoch(o)
               type == Finished(o)
    <3>1. ~Over(state[e]) /\ WriteEpoch(o)' = w
      BY <1>s, <2>1 DEF Onward, Stands, WriteEpoch
    <3>2. InEpochs(net[e], gen[e], w, type) /\ w \in {gen[e], gen[e] + 1}
      BY <3>1, WriteEpochs DEF Ordered, Fifo, o
    <3>3. \A i \in 1 .. Len(net[e]) : net[e][i].type = type => net[e][i].gen \in Nat /\ net[e][i].gen <= w
      BY <1>n, WriteEpochs DEF Ordered, Issues, o
    <3> HIDE DEF w, type
    <3>4. CASE Keeps(e)
      BY <3>1, <3>2, <3>4 DEF Keeps, type
    <3>5. CASE Reads(e)
      <4>1. /\ net[e] # <<>> /\ net'[e] = Tail(net[e])
            /\ gen'[e] = IF Switches(net[e][1], gen[e], type) THEN gen[e] + 1 ELSE gen[e]
            /\ Len(net[e]) \in Nat /\ Len(net[e]) >= 1
        BY <1>t, <2>1, <3>5 DEF Reads, o, type
      <4>2. CASE Switches(net[e][1], gen[e], type)
        <5>1. w = gen[e] + 1
          BY <1>t, <3>2, <3>3, <4>1, <4>2 DEF Switches
        <5>2. \A i \in 1 .. Len(net[e]) : ~Switches(net[e][i], gen[e] + 1, type)
          BY <1>t, <3>3, <5>1 DEF Switches
        <5>3. InEpochs(Tail(net[e]), gen[e] + 1, gen[e] + 1, type)
          BY <1>t, <3>2, <4>1, <4>2, <5>1, <5>2, EpochsSwitch
        <5> QED
          BY <3>1, <4>1, <4>2, <5>1, <5>3 DEF type
      <4>3. CASE ~Switches(net[e][1], gen[e], type)
        <5>1. w \in Nat
          BY <1>t, <3>2
        <5>2. InEpochs(Tail(net[e]), gen[e], w, type)
          BY <1>t, <3>2, <4>1, <4>3, <5>1, EpochsTail
        <5> QED
          BY <3>1, <4>1, <4>3, <5>2 DEF type
      <4> QED
        BY <4>2, <4>3
    <3> QED
      BY <1>s, <3>4, <3>5
  <2>2. ASSUME ~Over(state'[o])
        PROVE  InEpochs(net'[o], gen'[o], WriteEpoch(e)', Finished(e))
    <3>1. /\ ~Over(state[o]) /\ gen'[o] = gen[o]
          /\ InEpochs(net[o], gen[o], WriteEpoch(e), Finished(e))
      BY <1>0, <1>s, <2>2 DEF Stands, Ordered, Fifo
    <3>2. CASE Silent(e)
      BY <3>1, <3>2 DEF Silent, o
    <3>3. ASSUME NEW x \in Messages, Writes(e, x)
          PROVE  InEpochs(net'[o], gen'[o], WriteEpoch(e)', Finished(e))
      <4> DEFINE w == WriteEpoch(e)
                 v == w + (IF x.type = Finished(e) THEN 1 ELSE 0)
                 type == Finished(e)
      <4>1. w \in {gen[o], gen[o] + 1}
        BY <1>0, WriteEpochs
      <4>2. /\ net'[o] = net[o] \o <<x>> /\ Epoch(x) = w /\ WriteEpoch(e)' = v
            /\ x.type = type => gen[o] = w
        BY <3>3 DEF Writes, o
      <4>3. \A i \in 1 .. Len(net[o]) : Switches(net[o][i], gen[o], type) => w > gen[o]
        <5> SUFFICES ASSUME NEW i \in 1 .. Len(net[o]), Switches(net[o][i], gen[o], type) PROVE w > gen[o]
          OBVIOUS
        <5>1. net[o][i].gen = gen[o] + 1 /\ net[o][i].gen <= w
          BY <1>0, <1>n, WriteEpochs DEF Switches, Ordered, Issues
        <5> QED
          BY <1>t, <4>1, <5>1
      <4>4. type \in Flights /\ x.gen \in Nat
        BY BoundsAssumption DEF Finished, Flights, Messages
      <4>5. InEpochs(net[o], gen[o], w, type)
        BY <3>1
      <4> HIDE DEF w, type
      <4>6. v \in Nat /\ (x.type = type => w = gen[o] /\ v = gen[o] + 1) /\ (x.type # type => v = w)
        <5>1. w \in Nat /\ gen[o] \in Nat
          BY <1>t, <4>1
        <5> QED
          BY <4>2, <5>1 DEF type
      <4> HIDE DEF v
      <4>7. InEpochs(net[o] \o <<x>>, gen[o], v, type)
        BY <1>t, <4>1, <4>2, <4>3, <4>4, <4>5, <4>6, EpochsAppend
      <4> QED
        BY <3>1, <4>2, <4>7 DEF type
    <3> QED
      BY <1>s, <3>2, <3>3
  <2>3. ASSUME NEW x \in Ends, ~Over(state'[x])
        PROVE  InEpochs(net'[x], gen'[x], WriteEpoch(Other(x))', Finished(Other(x)))
    BY <1>0, <2>1, <2>2, <2>3 DEF o
  <2>4. \A x \in Ends : (WriteEpoch(Other(x)))' = WriteEpoch(Other(x))' /\ Finished(Other(x))' = Finished(Other(x))
    BY <1>p DEF Finished
  <2> QED
    BY <2>3, <2>4 DEF Fifo
<1>4. InTurn'
  <2>1. /\ \A k \in 1 .. Len(delivered'[e]) : delivered'[e][k] = k
        /\ ~Over(state'[e]) => Queued(net'[e], Len(delivered'[e]), sent'[o])
    <3>1. /\ \A k \in 1 .. Len(delivered[e]) : delivered[e][k] = k
          /\ ~Over(state[e]) => Queued(net[e], Len(delivered[e]), sent[o])
          /\ sent'[o] = sent[o] /\ Len(delivered[e]) \in Nat
          /\ ~Over(state'[e]) => ~Over(state[e])
      BY <1>s, <1>t DEF Ordered, InTurn, Stands, Onward, o
    <3>2. CASE Keeps(e)
      BY <3>1, <3>2 DEF Keeps
    <3>3. CASE Reads(e)
      <4>1. net[e] # <<>> /\ net'[e] = Tail(net[e])
        BY <3>3 DEF Reads
      <4>2. CASE ~Over(state'[e]) /\ net[e][1].type = "data"
        <5>1. delivered'[e] = Append(delivered[e], net[e][1].n)
          BY <3>3, <4>2 DEF Reads
        <5>2. net[e][1].n = Len(delivered[e]) + 1
          BY <1>t, <3>1, <4>1, <4>2, FirstQueued
        <5>3. /\ Len(delivered'[e]) = Len(delivered[e]) + 1
              /\ delivered'[e][Len(delivered[e]) + 1] = net[e][1].n
              /\ \A k \in 1 .. Len(delivered[e]) : delivered'[e][k] = delivered[e][k]
          <6>1. net[e][1].n \in 1 .. MaxData
            <7>1. net[e][1] \in Elems(net[e])
              BY <1>n, <1>t, <4>1
            <7> QED
              BY <4>2, <7>1 DEF IInv, RecordsSound, Sound
          <6> QED
            BY <1>t, <5>1, <6>1
        <5>4. \A k \in 1 .. Len(delivered'[e]) : k \in 1 .. Len(delivered[e]) \/ k = Len(delivered[e]) + 1
          BY <3>1, <5>3
        <5>5. Queued(Tail(net[e]), Len(delivered[e]) + 1, sent[o])
          <6>1. PICK c \in Nat : c = Len(delivered[e]) + 1
            BY <3>1
          <6> QED
            BY <1>t, <3>1, <4>1, <4>2, <6>1, QueuedTail
        <5> QED
          BY <3>1, <4>1, <5>2, <5>3, <5>4, <5>5
      <4>3. CASE ~(~Over(state'[e]) /\ net[e][1].type = "data")
        <5>1. delivered'[e] = delivered[e]
          BY <3>3, <4>3 DEF Reads
        <5>2. ~Over(state'[e]) => Queued(Tail(net[e]), Len(delivered[e]), sent[o])
          BY <1>t, <3>1, <4>1, <4>3, QueuedTail
        <5> QED
          BY <3>1, <4>1, <5>1, <5>2
      <4> QED
        BY <4>2, <4>3
    <3> QED
      BY <1>s, <3>2, <3>3
  <2>2. /\ \A k \in 1 .. Len(delivered'[o]) : delivered'[o][k] = k
        /\ ~Over(state'[o]) => Queued(net'[o], Len(delivered'[o]), sent'[e])
    <3>1. /\ \A k \in 1 .. Len(delivered[o]) : delivered[o][k] = k
          /\ ~Over(state[o]) => Queued(net[o], Len(delivered[o]), sent[e])
          /\ state'[o] = state[o] /\ delivered'[o] = delivered[o] /\ Len(delivered[o]) \in Nat
      BY <1>0, <1>s, <1>t DEF Ordered, InTurn, Stands
    <3>2. CASE Silent(e)
      BY <3>1, <3>2 DEF Silent, o
    <3>3. ASSUME NEW x \in Messages, Writes(e, x), ~Over(state[o])
          PROVE  Queued(net'[o], Len(delivered[o]), sent'[e])
      <4>1. /\ net'[o] = net[o] \o <<x>> /\ sent'[e] = sent[e] + (IF x.type = "data" THEN 1 ELSE 0)
            /\ x.type = "data" => x.n = sent[e] + 1
        BY <3>3 DEF Writes, o
      <4>2. /\ sent'[e] \in Nat /\ (x.type = "data" => x.n = sent[e] + 1 /\ sent'[e] = sent[e] + 1)
            /\ x.type # "data" => sent'[e] = sent[e]
        BY <1>t, <4>1
      <4>3. PICK l : l = sent'[e]
        OBVIOUS
      <4>4. Queued(net[o] \o <<x>>, Len(delivered[o]), l)
        BY <1>t, <3>1, <3>3, <4>2, <4>3, QueuedAppend
      <4> QED
        BY <4>1, <4>3, <4>4
    <3> QED
      BY <1>s, <3>1, <3>2, <3>3
  <2>3. \A x \in Ends : /\ \A k \in 1 .. Len(delivered'[x]) : delivered'[x][k] = k
                        /\ ~Over(state'[x]) => Queued(net'[x], Len(delivered'[x]), sent'[Other(x)])
    BY <1>0, <2>1, <2>2 DEF o
  <2> QED
    BY <1>p, <2>3 DEF InTurn
<1> QED
  BY <1>1, <1>2, <1>3, <1>4 DEF Ordered

\* The queues after an exchange.
LEMMA ExchangeQueues ==
    ASSUME Types, NEW e \in Ends, NEW rest \in Seq(Messages), NEW out \in Seq(Messages), Exchange(e, rest, out)
    PROVE  /\ net'[e] = rest /\ net'[Other(e)] = net[Other(e)] \o out
           /\ out = <<>> => net'[Other(e)] = net[Other(e)]
<1>1. net[Other(e)] \in Seq(Messages) /\ Other(e) \in Ends /\ Other(e) # e
  BY OtherEnd DEF Types
<1>2. net'[e] = rest /\ net'[Other(e)] = net[Other(e)] \o out
  BY <1>1 DEF Types, Exchange
<1>3. net[Other(e)] \o <<>> = net[Other(e)]
  BY <1>1
<1> QED
  BY <1>2, <1>3

\* A step outside the handshake.
LEMMA QuietOrdered ==
    ASSUME IInv, IInv', Ordered, NEW e \in Ends, UNCHANGED <<awaits, gen>>, Stands(Other(e)),
           state'[e] = "Open" => state[e] = "Open",
           state[e] # "Invalid" => state'[e] # "Invalid",
           Over(state[e]) => Over(state'[e]),
           Keeps(e) \/ Reads(e),
           Silent(e) \/ \E x \in Messages : Writes(e, x)
    PROVE  Ordered'
<1>1. Halves'
  BY DEF Ordered, Halves
<1>2. \A x \in Ends : x = e \/ x = Other(e)
  BY EndsAssumption DEF Ends, Other
<1>3. \A x \in Ends : sent[x] \in Nat
  BY BoundsAssumption DEF IInv, Types
<1>4. sent[e] <= sent'[e] /\ sent[Other(e)] <= sent'[Other(e)]
  <2>1. sent[e] \in Nat /\ sent[Other(e)] \in Nat
    BY <1>3, OtherEnd
  <2>2. sent'[Other(e)] = sent[Other(e)]
    BY DEF Stands
  <2>3. sent'[e] \in {sent[e], sent[e] + 0, sent[e] + 1}
    BY DEF Silent, Writes
  <2> QED
    BY <2>1, <2>2, <2>3
<1>5. Onward
  BY <1>2, <1>4 DEF Onward, Stands
<1> QED
  BY <1>1, <1>5, StepOrdered DEF Step

\* Records other than a handshake's flights are written under the keys in use
\* for writing.
LEMMA WritesOther ==
    ASSUME IInv, NEW e \in Ends, UNCHANGED <<awaits, gen>>, NEW x \in Messages,
           net'[Other(e)] = net[Other(e)] \o <<x>>,
           x.type \in {"HelloRequest", "bye", "data"}, x.gen = WriteEpoch(e),
           ~Issued(e, x), Issued(e, x)',
           sent'[e] = sent[e] + (IF x.type = "data" THEN 1 ELSE 0),
           x.type = "data" => x.n = sent[e] + 1
    PROVE  Writes(e, x)
<1>1. WriteEpoch(e)' = WriteEpoch(e) /\ WriteEpoch(e) + 0 = WriteEpoch(e)
  <2>1. gen[e] \in Nat
    BY BoundsAssumption DEF IInv, Types
  <2> QED
    BY <2>1 DEF WriteEpoch
<1>2. Epoch(x) = WriteEpoch(e) /\ x.type # Finished(e)
  BY DEF Epoch, Flights, Finished
<1> QED
  BY <1>1, <1>2 DEF Writes

\* open()
LEMMA OpenOrdered ==
    ASSUME IInv, Ordered, NEW e \in Ends, Open(e)
    PROVE  Ordered'
<1>1. IInv'
  BY OpenStep
<1>2. /\ UNCHANGED <<awaits, gen, current, seen, held, net, sent, delivered>>
      /\ state'[e] = "Opening" /\ state[e] = "Invalid" /\ \A x \in Ends \ {e} : state'[x] = state[x]
  BY DEF Open, gnutlsVars, history, IInv, Types
<1>3. Keeps(e) /\ Silent(e) /\ Stands(Other(e))
  BY <1>2, OtherEnd DEF Keeps, Silent, Stands, WriteEpoch
<1> QED
  BY <1>1, <1>2, <1>3, QuietOrdered DEF Over

\* permissiblePeers()
LEMMA PermissiblePeersOrdered ==
    ASSUME IInv, Ordered, NEW e \in Ends, PermissiblePeers(e)
    PROVE  Ordered'
<1>1. IInv'
  BY PermissiblePeersStep
<1>2. UNCHANGED <<state, awaits, gen, current, seen, held, net, sent, delivered>>
  BY DEF PermissiblePeers, gnutlsVars, history
<1>3. Keeps(e) /\ Silent(e) /\ Stands(Other(e))
  BY <1>2, OtherEnd DEF Keeps, Silent, Stands, WriteEpoch
<1> QED
  BY <1>1, <1>2, <1>3, QuietOrdered

\* renegotiate()
LEMMA RenegotiateOrdered ==
    ASSUME IInv, Ordered, NEW e \in Ends, Renegotiate(e)
    PROVE  Ordered'
<1>b. PICK b : b = Message("HelloRequest", gen[e])
  OBVIOUS
<1>1. IInv'
  BY RenegotiateStep
<1>2. /\ UNCHANGED <<awaits, gen, current, seen, held, sent, delivered>>
      /\ state'[e] = "Renegotiating" /\ state[e] = "Open" /\ \A x \in Ends \ {e} : state'[x] = state[x]
      /\ Exchange(e, net[e], IF e = Server THEN <<b>> ELSE <<>>) /\ gen[e] < MaxGen
  BY <1>b DEF Renegotiate, gnutlsVars, history, IInv, Types
<1>3. /\ Types /\ net[e] \in Seq(Messages) /\ b \in Messages /\ <<>> \in Seq(Messages) /\ sent[e] + 0 = sent[e]
      /\ b.type = "HelloRequest" /\ b.gen = gen[e] /\ gen[e] \in Nat
  <2>1. Sound(b)
    BY <1>2, <1>b, OtherRecords
  <2>2. Types /\ net[e] \in Seq(Messages) /\ sent[e] \in Nat /\ gen[e] \in Nat
    BY BoundsAssumption DEF IInv, Types
  <2> QED
    BY <1>b, <2>1, <2>2 DEF Sound, Message
<1>4. CASE e = Server
  <2>1. <<b>> \in Seq(Messages) /\ Exchange(e, net[e], <<b>>)
    BY <1>2, <1>3, <1>4
  <2>2. net'[e] = net[e] /\ net'[Other(e)] = net[Other(e)] \o <<b>>
    BY <1>3, <2>1, ExchangeQueues
  <2>3. Keeps(e) /\ Stands(Other(e))
    BY <1>2, <2>2, OtherEnd DEF Keeps, Stands
  <2>4. ~Issued(e, b) /\ Issued(e, b)'
    BY <1>2, <1>3, <1>4 DEF Issued
  <2>5. WriteEpoch(e) = gen[e]
    BY <1>2, <1>3, <1>4, EndsAssumption DEF WriteEpoch, IInv, Handshakes, Rest
  <2>6. Writes(e, b)
    BY <1>2, <1>3, <2>2, <2>4, <2>5, WritesOther
  <2> QED
    BY <1>1, <1>2, <1>3, <2>3, <2>6, QuietOrdered DEF Over
<1>5. CASE e # Server
  <2>1. net'[e] = net[e] /\ net'[Other(e)] = net[Other(e)]
    BY <1>2, <1>3, <1>5, ExchangeQueues
  <2>2. Keeps(e) /\ Stands(Other(e)) /\ Silent(e)
    BY <1>2, <2>1, OtherEnd DEF Keeps, Stands, Silent, WriteEpoch
  <2> QED
    BY <1>1, <1>2, <2>2, QuietOrdered DEF Over
<1> QED
  BY <1>4, <1>5

\* close()
LEMMA CloseOrdered ==
    ASSUME IInv, Ordered, NEW e \in Ends, Close(e)
    PROVE  Ordered'
<1>b. PICK b : b = Message("bye", WriteEpoch(e))
  OBVIOUS
<1>1. IInv'
  BY CloseStep
<1>2. /\ UNCHANGED <<awaits, gen, current, seen, held, sent, delivered>>
      /\ state'[e] = "Closed" /\ state[e] \notin {"Invalid", "Closed", "Aborted"}
      /\ \A x \in Ends \ {e} : state'[x] = state[x]
      /\ Exchange(e, net[e], <<b>>)
  BY <1>b, ByeSent DEF Close, gnutlsVars, IInv, Types
<1>3. /\ Types /\ net[e] \in Seq(Messages) /\ b \in Messages /\ sent[e] + 0 = sent[e]
      /\ b.type = "bye" /\ b.gen = WriteEpoch(e)
  <2>1. Sound(b)
    BY <1>b, OtherRecords
  <2>2. Types /\ net[e] \in Seq(Messages) /\ sent[e] \in Nat
    BY BoundsAssumption DEF IInv, Types
  <2> QED
    BY <1>b, <2>1, <2>2 DEF Sound, Message
<1>4. net'[e] = net[e] /\ net'[Other(e)] = net[Other(e)] \o <<b>>
  <2>1. <<b>> \in Seq(Messages)
    BY <1>3
  <2> QED
    BY <1>2, <1>3, <2>1, ExchangeQueues
<1>5. Keeps(e) /\ Stands(Other(e))
  BY <1>2, <1>4, OtherEnd DEF Keeps, Stands
<1>6. ~Issued(e, b) /\ Issued(e, b)'
  BY <1>2, <1>3 DEF Issued, Over
<1>7. Writes(e, b)
  BY <1>2, <1>3, <1>4, <1>6, WritesOther
<1> QED
  BY <1>1, <1>2, <1>3, <1>5, <1>7, QuietOrdered DEF Over

\* write()
LEMMA WriteOrdered ==
    ASSUME IInv, Ordered, NEW e \in Ends, Write(e)
    PROVE  Ordered'
<1>b. PICK b : b = Data(WriteEpoch(e), sent[e] + 1)
  OBVIOUS
<1>1. IInv'
  BY WriteStep
<1>2. /\ UNCHANGED <<state, awaits, gen, current, seen, held, delivered>>
      /\ state[e] = "Open" /\ sent[e] < MaxData
      /\ sent' = [sent EXCEPT ![e] = sent[e] + 1]
      /\ Exchange(e, net[e], <<b>>)
  BY <1>b DEF Write, appVars, gnutlsVars
<1>3. /\ Types /\ net[e] \in Seq(Messages) /\ b \in Messages /\ sent[e] \in Nat
      /\ b.type = "data" /\ b.gen = WriteEpoch(e) /\ b.n = sent[e] + 1
      /\ sent'[e] = sent[e] + 1 /\ \A x \in Ends \ {e} : sent'[x] = sent[x]
  <2>1. Sound(b)
    BY <1>2, <1>b, OtherRecords
  <2>2. Types /\ net[e] \in Seq(Messages) /\ sent[e] \in Nat /\ sent \in [Ends -> 0 .. MaxData]
    BY BoundsAssumption DEF IInv, Types
  <2> QED
    BY <1>2, <1>b, <2>1, <2>2 DEF Sound, Data
<1>4. net'[e] = net[e] /\ net'[Other(e)] = net[Other(e)] \o <<b>>
  <2>1. <<b>> \in Seq(Messages)
    BY <1>3
  <2> QED
    BY <1>2, <1>3, <2>1, ExchangeQueues
<1>5. Keeps(e) /\ Stands(Other(e))
  BY <1>2, <1>3, <1>4, OtherEnd DEF Keeps, Stands
<1>6. ~Issued(e, b) /\ Issued(e, b)'
  BY <1>2, <1>3 DEF Issued
<1>7. Writes(e, b)
  BY <1>2, <1>3, <1>4, <1>6, WritesOther
<1> QED
  BY <1>1, <1>2, <1>3, <1>5, <1>7, QuietOrdered

\* gnutls accepts the first record on the link, unless the session is over.
LEMMA FirstAccepted ==
    ASSUME IInv, Ordered, NEW e \in Ends, net[e] # <<>>
    PROVE  /\ net[e][1] \in Elems(net[e]) /\ net[e][1] \in Met(e) /\ Sound(net[e][1])
           /\ ~Over(state[e]) => Accepts(e, net[e][1])
<1>1. net[e] \in Seq(Messages) /\ Len(net[e]) \in Nat /\ 1 \in 1 .. Len(net[e])
  BY DEF IInv, Types
<1>2. net[e][1] \in Elems(net[e]) /\ Sound(net[e][1]) /\ net[e][1] # NoPacket
  BY <1>1, NoPacketApart DEF Elems, IInv, RecordsSound, Sound
<1>3. net[e][1] \notin seen[e]
  BY <1>1 DEF Ordered, Fresh, Distinct
<1>4. ~Over(state[e]) => Epoch(net[e][1]) = gen[e]
  BY <1>1 DEF Ordered, Fifo, InEpochs
<1> QED
  BY <1>2, <1>3, <1>4 DEF Accepts, Met, Junk, Message, Sound

\* The peer's Finished finds the end that waits for it.
LEMMA FinishedAwaited ==
    ASSUME IInv, Ordered, NEW e \in Ends, NEW m \in Met(e), Switches(m, gen[e], Finished(Other(e)))
    PROVE  awaits[e] = m.type /\ awaits[e] # Rest(e)
<1>1. /\ gen[Client] \in Nat /\ gen[Server] \in Nat /\ Client # Server
      /\ e \in {Client, Server} /\ Other(Client) = Server /\ Other(Server) = Client
  BY BoundsAssumption, EndsAssumption DEF IInv, Types, Ends, Other
<1>2. Issued(Other(e), m)
  BY DEF Ordered, Issues
<1>3. CASE e = Server
  <2>1. m.type = "ClientFinished" /\ m.gen = gen[Server] + 1
    BY <1>1, <1>3 DEF Switches, Finished
  <2>2. m.gen <= gen[Client] + 1 /\ (m.gen = gen[Client] + 1 => awaits[Client] = "ServerFinished")
    BY <1>1, <1>2, <1>3, <2>1 DEF Issued
  <2>3. gen[Server] = gen[Client] /\ awaits[Client] = "ServerFinished"
    BY <1>1, <2>1, <2>2 DEF IInv, Keys
  <2> QED
    BY <1>1, <1>3, <2>1, <2>3 DEF Ordered, Halves, Rest
<1>4. CASE e = Client
  <2>1. m.type = "ServerFinished" /\ m.gen = gen[Client] + 1
    BY <1>1, <1>4 DEF Switches, Finished
  <2>2. m.gen <= gen[Server]
    BY <1>1, <1>2, <1>4, <2>1 DEF Issued
  <2>3. awaits[Client] = "ServerFinished"
    BY <1>1, <2>1, <2>2 DEF IInv, Keys
  <2> QED
    BY <1>1, <1>4, <2>1, <2>3 DEF Rest
<1> QED
  BY <1>1, <1>3, <1>4

\* A ServerHello finds a client that has asked for it, and a server that waits
\* for the answer unless it has had it.
LEMMA ServerHelloAwaited ==
    ASSUME IInv, Ordered, NEW m \in Met(Client), m.type = "ServerHello", m.gen = gen[Client] + 1
    PROVE  /\ awaits[Client] # "nothing"
           /\ awaits[Client] # "ServerFinished" => gen[Server] = gen[Client] /\ awaits[Server] = "ClientFinished"
<1>1. /\ gen[Client] \in Nat /\ gen[Server] \in Nat /\ Client # Server /\ Client \in Ends /\ Other(Client) = Server
  BY BoundsAssumption, EndsAssumption DEF IInv, Types, Ends, Other
<1>2. m.gen <= gen[Server] + 1 /\ (m.gen = gen[Server] + 1 => awaits[Server] = "ClientFinished")
  BY <1>1 DEF Ordered, Issues, Issued
<1> QED
  BY <1>1, <1>2 DEF IInv, Keys, Ordered, Halves

\* A ClientHello finds a server with the client's keys.
LEMMA ClientHelloAwaited ==
    ASSUME IInv, Ordered, NEW m \in Met(Server), m.type = "ClientHello", m.gen = gen[Server] + 1
    PROVE  gen[Server] = gen[Client] /\ awaits[Client] # "nothing"
<1>1. /\ gen[Client] \in Nat /\ gen[Server] \in Nat /\ Client # Server /\ Server \in Ends /\ Other(Server) = Client
  BY BoundsAssumption, EndsAssumption DEF IInv, Types, Ends, Other
<1>2. m.gen <= gen[Client] + 1 /\ (m.gen = gen[Client] + 1 => awaits[Client] # "nothing")
  BY <1>1 DEF Ordered, Issues, Issued
<1> QED
  BY <1>1, <1>2 DEF IInv, Keys

\* A flight of a handshake is written.
LEMMA WritesFlight ==
    ASSUME IInv, NEW e \in Ends, NEW type \in Flights, gen[e] < MaxGen, sent' = sent,
           net'[Other(e)] = net[Other(e)] \o <<Message(type, gen[e] + 1)>>,
           awaits[e] # "ServerFinished",
           ~Issued(e, Message(type, gen[e] + 1)),
           \A x \in Messages : x.type = type /\ x.gen = gen[e] + 1 => Issued(e, x)',
           WriteEpoch(e)' = gen[e] + (IF type = Finished(e) THEN 1 ELSE 0),
           type = Finished(e) => gen[Other(e)] = gen[e]
    PROVE  \E x \in Messages : Writes(e, x)
<1>1. PICK x : x = Message(type, gen[e] + 1)
  OBVIOUS
<1>2. x \in Messages /\ x.type = type /\ x.gen = gen[e] + 1 /\ gen[e] \in Nat /\ sent[e] \in Nat
  <2>1. gen[e] \in Nat /\ sent[e] \in Nat
    BY BoundsAssumption DEF IInv, Types
  <2> QED
    BY <1>1, <2>1, FlightSound DEF Sound, IInv
<1>3. Epoch(x) = gen[e] /\ WriteEpoch(e) = gen[e] /\ x.type # "data" /\ sent'[e] = sent[e] + 0
  BY <1>2 DEF Epoch, WriteEpoch, Flights
<1>4. Issued(e, x)'
  BY <1>2
<1> QED
  BY <1>1, <1>2, <1>3, <1>4 DEF Writes

\* handleHandshake, with a record that has come or without one.
LEMMA ShakeOrdered ==
    ASSUME IInv, Ordered, NEW e \in Ends, NEW m, NEW rest, Shaking(e, m, rest), m \in Met(e) \cup {NoPacket},
           \A x \in Ends \ {e} : held'[x] = held[x] /\ current'[x] = current[x],
           ~Over(state[e]) \/ awaits[e] = Rest(e),
           Keeps(e) \/ Reads(e)
    PROVE  Ordered'
<1> DEFINE r == GnutlsHandshake(e, m)
<1>0. /\ HandleHandshake(e, m, rest) /\ rest \in Seq(Messages) /\ gen[e] < MaxGen
      /\ state[e] \notin {"Invalid", "Open"} /\ (m = NoPacket \/ Sound(m)) /\ Types /\ Handshakes
  BY DEF Shaking, IInv
<1>inv. IInv'
  BY HandshakeStep
<1>1. net'[Other(e)] = net[Other(e)] \o r.out /\ (r.out = <<>> => net'[Other(e)] = net[Other(e)])
  <2>1. r.out \in Seq(Messages)
    BY <1>0, SentByHandshake
  <2>2. Exchange(e, rest, r.out)
    BY <1>0 DEF HandleHandshake
  <2>3. Types /\ rest \in Seq(Messages)
    BY <1>0
  <2> HIDE DEF r
  <2> QED
    BY <2>1, <2>2, <2>3, ExchangeQueues
<1>2. /\ state'[e] = AfterHandshake(e, r.ret) /\ awaits'[e] = r.awaits /\ gen'[e] = r.gen /\ sent' = sent
      /\ \A x \in Ends \ {e} : /\ state'[x] = state[x] /\ awaits'[x] = awaits[x] /\ gen'[x] = gen[x]
                               /\ seen'[x] = seen[x] /\ delivered'[x] = delivered[x]
  BY <1>0 DEF HandleHandshake, HandshakeData, Types, Handshakes
<1>3. /\ r.ret \in {"AGAIN", "GOT_APPLICATION_DATA"} => state'[e] = state[e]
      /\ r.ret = "SUCCESS" => state'[e] = "Open"
      /\ r.ret \in {"SESSION_EOF", "CERTIFICATE_ERROR"} => state'[e] = "Aborted"
  BY <1>2 DEF AfterHandshake
<1>4. Stands(Other(e))
  BY <1>2, OtherEnd DEF Stands
<1>5. /\ awaits[e] \in Waits(e) /\ e \in {Client, Server} /\ Client # Server
      /\ Other(Client) = Server /\ Other(Server) = Client /\ \A x \in Ends : x = e \/ x = Other(e)
      /\ gen[e] \in Nat /\ gen[Other(e)] \in Nat /\ sent[e] \in Nat /\ sent[Other(e)] \in Nat
  BY <1>0, EndsAssumption, BoundsAssumption DEF Handshakes, Types, Ends, Other
<1>6. Accepts(e, m) /\ m.type \in Flights => m \in Met(e) /\ m.gen = gen[e] + 1
  BY <1>0, <1>5 DEF Accepts, Epoch, Sound, Messages
<1>7. Outcomes(e, m, r)
  BY <1>0, HandshakeOutcomes
<1> HIDE DEF r
<1>8. /\ WriteEpoch(e)' = r.gen + (IF r.awaits = "ServerFinished" THEN 1 ELSE 0)
      /\ WriteEpoch(e) = gen[e] + (IF awaits[e] = "ServerFinished" THEN 1 ELSE 0)
  BY <1>2 DEF WriteEpoch
<1>9. ASSUME \/ gen'[e] = gen[e] + 1
             \/ /\ gen'[e] = gen[e] /\ state'[e] # "Open"
                /\ awaits[e] # "nothing" => awaits'[e] # "nothing"
                /\ awaits[e] \in {"ClientFinished", "ServerFinished"} => awaits'[e] = awaits[e],
             state'[e] # "Invalid", Over(state[e]) => Over(state'[e]),
             Halves', Silent(e) \/ \E x \in Messages : Writes(e, x)
      PROVE  Ordered'
  <2>1. \A x \in Ends : sent[x] <= sent'[x]
    BY <1>2, <1>5
  <2>2. Onward
    BY <1>2, <1>4, <1>5, <1>9, <2>1 DEF Onward, Stands
  <2> QED
    BY <1>inv, <1>4, <1>9, <2>2, StepOrdered DEF Step
<1>10. CASE Idles(e, m, r)
  <2>1. /\ gen'[e] = gen[e] /\ state'[e] \in {state[e], "Aborted"} /\ awaits'[e] = Waiting(e)
        /\ r.out = Hello(e) \o <<>>
    BY <1>2, <1>3, <1>10 DEF Idles
  <2>2. CASE awaits[e] = "nothing"
    <3>1. e = Client /\ awaits'[e] = "ServerHello"
      BY <1>5, <2>1, <2>2 DEF Waiting, Waits
    <3>2. r.out = <<Message("ClientHello", gen[e] + 1)>>
      BY <2>1, <2>2 DEF Hello
    <3>3. Halves'
      BY <1>2, <1>4, <1>5, <2>1, <3>1 DEF Ordered, Halves, Stands
    <3>4. \E x \in Messages : Writes(e, x)
      <4>1. ~Issued(e, Message("ClientHello", gen[e] + 1))
        BY <2>2 DEF Issued, Message
      <4>2. ASSUME NEW x \in Messages, x.type = "ClientHello", x.gen = gen[e] + 1 PROVE Issued(e, x)'
        BY <1>0, <1>5, <2>1, <3>1, <4>2 DEF Issued
      <4>3. "ClientHello" \in Flights /\ "ClientHello" # Finished(e)
        BY DEF Flights, Finished
      <4>4. WriteEpoch(e)' = gen[e] + 0
        BY <1>2, <1>5, <1>8, <2>1, <3>1
      <4> QED
        BY <1>0, <1>1, <1>2, <2>2, <3>2, <4>1, <4>2, <4>3, <4>4, WritesFlight
    <3> QED
      BY <1>0, <1>9, <2>1, <2>2, <3>3, <3>4 DEF Over
  <2>3. CASE awaits[e] # "nothing"
    <3>1. awaits'[e] = awaits[e] /\ r.out = <<>>
      BY <2>1, <2>3 DEF Waiting, Hello
    <3>2. Halves'
      BY <1>4, <1>5, <2>1, <3>1 DEF Ordered, Halves, Stands
    <3>3. Silent(e)
      BY <1>1, <1>2, <1>8, <2>1, <3>1 DEF Silent
    <3> QED
      BY <1>0, <1>9, <2>1, <3>1, <3>2, <3>3 DEF Over
  <2> QED
    BY <2>2, <2>3
<1>11. CASE Advances(e, m, r, "ClientHello", "AGAIN", <<Message("ServerHello", gen[e] + 1)>>, "ClientFinished")
  <2>0. /\ e = Server /\ awaits[e] = "ClientHello" /\ awaits'[e] = "ClientFinished"
        /\ gen'[e] = gen[e] /\ state'[e] = state[e] /\ r.out = Hello(e) \o <<Message("ServerHello", gen[e] + 1)>>
    BY <1>2, <1>3, <1>5, <1>11 DEF Advances, Waiting, Waits
  <2>1. r.out = <<Message("ServerHello", gen[e] + 1)>>
    BY <2>0 DEF Hello
  <2>2. gen[Server] = gen[Client] /\ awaits[Client] # "nothing"
    BY <1>6, <1>11, <2>0, ClientHelloAwaited DEF Advances, Flights
  <2>3. Halves'
    BY <1>4, <1>5, <2>0, <2>2 DEF Halves, Stands
  <2>4. \E x \in Messages : Writes(e, x)
    <3>1. ~Issued(e, Message("ServerHello", gen[e] + 1))
      BY <2>0 DEF Issued, Message
    <3>2. ASSUME NEW x \in Messages, x.type = "ServerHello", x.gen = gen[e] + 1 PROVE Issued(e, x)'
      BY <1>0, <1>5, <2>0, <3>2 DEF Issued
    <3>3. "ServerHello" \in Flights /\ "ServerHello" # Finished(e)
      BY DEF Flights, Finished
    <3>4. WriteEpoch(e)' = gen[e] + 0
      BY <1>2, <1>5, <1>8, <2>0
    <3>5. /\ net'[Other(e)] = net[Other(e)] \o <<Message("ServerHello", gen[e] + 1)>>
          /\ gen[e] < MaxGen /\ sent' = sent /\ awaits[e] # "ServerFinished"
      BY <1>0, <1>1, <1>2, <2>0, <2>1
    <3> QED
      BY <3>1, <3>2, <3>3, <3>4, <3>5, WritesFlight
  <2> QED
    BY <1>0, <1>9, <2>0, <2>3, <2>4
<1>12. CASE Advances(e, m, r, "ServerHello", "AGAIN", <<Message("ClientFinished", gen[e] + 1)>>, "ServerFinished")
  <2>1. /\ e = Client /\ awaits[e] \in {"nothing", "ServerHello"} /\ awaits'[e] = "ServerFinished"
        /\ gen'[e] = gen[e] /\ state'[e] = state[e] /\ r.out = Hello(e) \o <<Message("ClientFinished", gen[e] + 1)>>
    BY <1>2, <1>3, <1>5, <1>12 DEF Advances, Waiting, Waits
  <2>2. awaits[Client] # "nothing" /\ gen[Server] = gen[Client] /\ awaits[Server] = "ClientFinished"
    BY <1>6, <1>12, <2>1, ServerHelloAwaited DEF Advances, Flights
  <2>3. r.out = <<Message("ClientFinished", gen[e] + 1)>>
    BY <2>1, <2>2 DEF Hello
  <2>4. Halves'
    BY <1>4, <1>5, <2>1, <2>2 DEF Halves, Stands
  <2>5. \E x \in Messages : Writes(e, x)
    <3>1. ~Issued(e, Message("ClientFinished", gen[e] + 1))
      BY <2>1 DEF Issued, Message
    <3>2. ASSUME NEW x \in Messages, x.type = "ClientFinished", x.gen = gen[e] + 1 PROVE Issued(e, x)'
      BY <1>0, <1>5, <2>1, <3>2 DEF Issued
    <3>3. "ClientFinished" \in Flights /\ "ClientFinished" = Finished(e)
      BY <2>1 DEF Flights, Finished
    <3>4. WriteEpoch(e)' = gen[e] + 1
      BY <1>2, <1>5, <1>8, <2>1
    <3>5. gen[Other(e)] = gen[e] /\ awaits[e] # "ServerFinished"
      BY <1>5, <2>1, <2>2
    <3> QED
      BY <1>0, <1>1, <1>2, <2>3, <3>1, <3>2, <3>3, <3>4, <3>5, WritesFlight
  <2> QED
    BY <1>0, <1>9, <2>1, <2>2, <2>4, <2>5
<1>13. CASE Advances(e, m, r, "ClientFinished", "SUCCESS", <<Message("ServerFinished", gen[e] + 1)>>, "ClientHello")
  <2>0. /\ e = Server /\ awaits[e] = "ClientFinished" /\ awaits'[e] = "ClientHello"
        /\ gen'[e] = gen[e] + 1 /\ state'[e] = "Open" /\ r.out = Hello(e) \o <<Message("ServerFinished", gen[e] + 1)>>
    BY <1>2, <1>3, <1>5, <1>13 DEF Advances, Waiting, Waits
  <2>1. r.out = <<Message("ServerFinished", gen[e] + 1)>>
    BY <2>0 DEF Hello
  <2>2. gen[Server] = gen[Client] /\ ~Over(state[e])
    BY <1>5, <2>0 DEF Ordered, Halves, Rest
  <2>3. Halves'
    BY <1>4, <1>5, <2>0, <2>2 DEF Halves, Stands
  <2>4. \E x \in Messages : Writes(e, x)
    <3>1. ~Issued(e, Message("ServerFinished", gen[e] + 1))
      BY <1>5 DEF Issued, Message
    <3>2. ASSUME NEW x \in Messages, x.type = "ServerFinished", x.gen = gen[e] + 1 PROVE Issued(e, x)'
      BY <1>0, <1>5, <2>0, <3>2 DEF Issued
    <3>3. "ServerFinished" \in Flights /\ "ServerFinished" = Finished(e)
      BY <1>5, <2>0 DEF Flights, Finished
    <3>4. WriteEpoch(e)' = gen[e] + 1
      BY <1>2, <1>5, <1>8, <2>0
    <3>5. gen[Other(e)] = gen[e] /\ awaits[e] # "ServerFinished"
      BY <1>5, <2>0, <2>2
    <3>6. /\ net'[Other(e)] = net[Other(e)] \o <<Message("ServerFinished", gen[e] + 1)>>
          /\ gen[e] < MaxGen /\ sent' = sent /\ awaits[e] # "ServerFinished"
      BY <1>0, <1>1, <1>2, <2>0, <2>1
    <3> QED
      BY <3>1, <3>2, <3>3, <3>4, <3>5, <3>6, WritesFlight
  <2> QED
    BY <1>0, <1>9, <2>0, <2>2, <2>3, <2>4
<1>14. CASE Advances(e, m, r, "ServerFinished", "SUCCESS", <<>>, "nothing")
  <2>1. /\ e = Client /\ awaits[e] = "ServerFinished" /\ awaits'[e] = "nothing"
        /\ gen'[e] = gen[e] + 1 /\ state'[e] = "Open" /\ r.out = <<>>
    BY <1>2, <1>3, <1>5, <1>14 DEF Advances, Waiting, Waits, Hello
  <2>2. m \in Met(Client) /\ m.type = "ServerFinished" /\ m.gen = gen[Client] + 1
    BY <1>6, <1>14, <2>1 DEF Advances, Flights
  <2>3. m.gen <= gen[Server] /\ ~Over(state[e])
    BY <1>5, <2>1, <2>2 DEF Ordered, Issues, Issued, Rest
  <2>4. gen[Server] # gen[Client]
    BY <1>5, <2>1, <2>2, <2>3
  <2>5. Halves'
    BY <1>4, <1>5, <2>1, <2>4 DEF Ordered, Halves, Stands
  <2>6. Silent(e)
    BY <1>1, <1>2, <1>5, <1>8, <2>1 DEF Silent
  <2> QED
    BY <1>0, <1>9, <2>1, <2>3, <2>5, <2>6
<1> QED
  BY <1>7, <1>10, <1>11, <1>12, <1>13, <1>14 DEF Outcomes

\* The record with which open() and handleData() go on is no packet: gnutls
\* keeps none for a handshake, and what came before open() came without keys.
LEMMA ContinueNoData ==
    ASSUME IInv, RInv, NEW e \in Ends, pending[e], NEW m, m = IF held[e] # NoPacket THEN held[e] ELSE current[e]
    PROVE  ~(Accepts(e, m) /\ m.type = "data")
<1>1. CASE held[e] # NoPacket
  BY <1>1 DEF RInv, Kept
<1>2. CASE held[e] = NoPacket /\ current[e] # NoPacket
  <2>1. m = current[e] /\ Sound(m) /\ gen[e] = 0
    BY <1>2 DEF RInv, Early, IInv, RecordsSound
  <2>2. m.type = "data" => m.gen # gen[e]
    BY <2>1 DEF Sound
  <2> QED
    BY <2>2 DEF Accepts, Epoch, Flights
<1>3. CASE m = NoPacket
  BY <1>3 DEF Accepts
<1> QED
  BY <1>1, <1>2, <1>3

\* open() and handleData() after their listener.
LEMMA ContinueOrdered ==
    ASSUME IInv, RInv, Ordered, NEW e \in Ends, Continue(e)
    PROVE  Ordered'
<1>m. PICK m : m = IF held[e] # NoPacket THEN held[e] ELSE current[e]
  OBVIOUS
<1>0. /\ Shaking(e, m, net[e]) /\ awaits[e] = Rest(e) /\ pending[e] /\ HandleHandshake(e, m, net[e])
      /\ Types /\ Handshakes
  BY <1>m, ContinueShakes, RepairedContinue DEF IInv, Types
<1>1. m \in Met(e) \cup {NoPacket}
  BY <1>m DEF Met
<1>2. /\ held'[e] = NoPacket /\ current'[e] \in {current[e], NoPacket}
      /\ \A x \in Ends \ {e} : held'[x] = held[x] /\ current'[x] = current[x]
  BY RepairedContinue DEF IInv, Types
<1>3. ~(Accepts(e, m) /\ m.type = "data")
  BY <1>m, <1>0, ContinueNoData
<1>4. delivered'[e] = delivered[e]
  BY <1>0, <1>3, HandshakeResult
<1>5. gen'[e] = gen[e]
  <2>1. (m = NoPacket \/ Sound(m)) /\ gen[e] < MaxGen /\ state[e] \notin {"Invalid", "Open"}
    BY <1>0 DEF Shaking
  <2>2. awaits[e] \notin {"ClientFinished", "ServerFinished"}
    BY <1>0 DEF Rest
  <2> QED
    BY <1>0, <2>1, <2>2, HandshakeEffect
<1>6. seen'[e] = seen[e] \cup ({m} \ {NoPacket})
  BY <1>0 DEF HandleHandshake, Types
<1>7. net'[e] = net[e]
  <2>1. GnutlsHandshake(e, m).out \in Seq(Messages) /\ net[e] \in Seq(Messages)
    BY <1>0, SentByHandshake DEF Shaking
  <2> QED
    BY <1>0, <2>1, ExchangeQueues DEF HandleHandshake
<1>8. Keeps(e)
  BY <1>m, <1>2, <1>4, <1>5, <1>6, <1>7 DEF Keeps
<1> QED
  BY <1>0, <1>1, <1>2, <1>8, ShakeOrdered

\* gnutls_handshake takes in the Finished that it waits for, and returns to the
\* caller for a packet.
LEMMA RecordTaken ==
    ASSUME repaired, NEW e \in Ends, NEW m, Accepts(e, m)
    PROVE  LET r == GnutlsHandshake(e, m)
           IN  /\ m.type = awaits[e] /\ m.type \in {"ClientFinished", "ServerFinished"} =>
                      (r.ret = "SUCCESS" /\ r.gen = gen[e] + 1) \/ r.ret = "CERTIFICATE_ERROR"
               /\ m.type = "data" => r.ret = "GOT_APPLICATION_DATA"
  BY DEF GnutlsHandshake, CertificateVerify, Stalls

\* handlePacket in a handshake.
LEMMA ShakeReads ==
    ASSUME IInv, Ordered, NEW e \in Ends, net[e] # <<>>, NEW m, m = net[e][1], Shakes(e),
           Shaking(e, m, Tail(net[e])), held'[e] = held[e], current'[e] = NoPacket
    PROVE  Reads(e)
<1> DEFINE r == GnutlsHandshake(e, m)
           F == Finished(Other(e))
<1>0. /\ HandleHandshake(e, m, Tail(net[e])) /\ Tail(net[e]) \in Seq(Messages) /\ gen[e] < MaxGen
      /\ state[e] \notin {"Invalid", "Open"} /\ Sound(m) /\ Types /\ Handshakes /\ ~Over(state[e])
      /\ Accepts(e, m) /\ m \in Met(e)
  BY FirstAccepted DEF Shaking, IInv, Shakes, Over
<1>1. net'[e] = Tail(net[e])
  <2>1. r.out \in Seq(Messages)
    BY <1>0, SentByHandshake
  <2> QED
    BY <1>0, <2>1, ExchangeQueues DEF HandleHandshake
<1>2. /\ seen'[e] = seen[e] \cup ({m} \ {NoPacket}) /\ gen'[e] = r.gen /\ state'[e] = AfterHandshake(e, r.ret)
      /\ delivered' = HandshakeData(e, r.ret, m)
  BY <1>0 DEF HandleHandshake, Types
<1>3. /\ m.type = awaits[e] /\ m.type \in {"ClientFinished", "ServerFinished"} =>
             (r.ret = "SUCCESS" /\ r.gen = gen[e] + 1) \/ r.ret = "CERTIFICATE_ERROR"
      /\ m.type = "data" => r.ret = "GOT_APPLICATION_DATA"
  BY <1>0, RecordTaken DEF Types
<1>4. CASE Switches(m, gen[e], F)
  <2>1. m.type = awaits[e] /\ m.type \in {"ClientFinished", "ServerFinished"} /\ m.type # "data"
    BY <1>0, <1>4, FinishedAwaited DEF Switches, Finished
  <2>2. gen'[e] = gen[e] + 1 \/ state'[e] = "Aborted"
    BY <1>2, <1>3, <2>1 DEF AfterHandshake
  <2>3. delivered' = delivered
    BY <1>2, <1>3, <2>1 DEF HandshakeData
  <2> QED
    BY <1>1, <1>2, <1>4, <2>1, <2>2, <2>3 DEF Reads, Over
<1>5. CASE ~Switches(m, gen[e], F)
  <2>1. gen'[e] = gen[e]
    <3>1. e = Server => F = "ClientFinished"
      BY EndsAssumption DEF Other, Finished
    <3>2. e = Client => F = "ServerFinished"
      BY EndsAssumption DEF Other, Finished
    <3> QED
      BY <1>0, <1>5, <3>1, <3>2, HandshakeEffect DEF Switches
  <2>2. CASE m.type = "data"
    <3>1. delivered'[e] = Append(delivered[e], m.n) /\ state'[e] = state[e]
      BY <1>0, <1>2, <1>3, <2>2 DEF HandshakeData, AfterHandshake, Types
    <3> QED
      BY <1>0, <1>1, <1>2, <1>5, <2>1, <2>2, <3>1 DEF Reads
  <2>3. CASE m.type # "data"
    <3>1. delivered'[e] = delivered[e]
      BY <2>3, HandshakeResult
    <3> QED
      BY <1>1, <1>2, <1>5, <2>1, <2>3, <3>1 DEF Reads
  <2> QED
    BY <2>2, <2>3
<1> QED
  BY <1>4, <1>5

\* An open session has something to do with every record that comes: the flights
\* of a handshake that it does not wait for are not on the way.
LEMMA NeverAgain ==
    ASSUME IInv, Ordered, NEW e \in Ends, net[e] # <<>>, state[e] = "Open"
    PROVE  GnutlsRecordRecv(e, net[e][1]) # "AGAIN"
<1>m. PICK m : m = net[e][1]
  OBVIOUS
<1>1. m \in Met(e) /\ Sound(m) /\ Accepts(e, m)
  BY <1>m, FirstAccepted DEF Over
<1>2. /\ gen[e] \in Nat /\ Client # Server /\ e \in {Client, Server} /\ Other(Client) = Server /\ Other(Server) = Client
      /\ awaits[e] = Rest(e)
  BY BoundsAssumption, EndsAssumption DEF IInv, Types, Handshakes, Ends, Other
<1>3. Issued(Other(e), m)
  BY <1>1 DEF Ordered, Issues
<1>4. m.type \in Flights => m.gen = gen[e] + 1
  BY <1>1, <1>2 DEF Accepts, Epoch, Sound, Messages
<1>5. m.type # Finished(Other(e))
  <2>1. Finished(Other(e)) \in Flights
    BY DEF Finished, Flights
  <2> QED
    BY <1>1, <1>2, <1>4, <2>1, FinishedAwaited DEF Switches
<1>6. CASE e = Client
  <2>1. m.type \in {"ServerHello", "ServerFinished", "HelloRequest", "data", "bye"}
    BY <1>1, <1>2, <1>3, <1>6 DEF Issued, Sound, Messages, Flights
  <2>2. m.type # "ServerHello"
    BY <1>1, <1>2, <1>4, <1>6, ServerHelloAwaited DEF Rest, Flights
  <2>3. m.type \in {"HelloRequest", "data", "bye"}
    BY <1>2, <1>5, <1>6, <2>1, <2>2 DEF Finished
  <2> QED
    BY <1>m, <1>1, <1>6, <2>3 DEF GnutlsRecordRecv
<1>7. CASE e = Server
  <2>1. m.type \in {"ClientHello", "ClientFinished", "data", "bye"}
    BY <1>1, <1>2, <1>3, <1>7 DEF Issued, Sound, Messages, Flights
  <2>2. m.type \in {"ClientHello", "data", "bye"}
    BY <1>2, <1>5, <1>7, <2>1 DEF Finished
  <2> QED
    BY <1>m, <1>1, <1>2, <1>7, <2>2 DEF GnutlsRecordRecv
<1> QED
  BY <1>2, <1>6, <1>7

\* handlePacket in an open session.
LEMMA HandleDataOrdered ==
    ASSUME IInv, IInv', Ordered, NEW e \in Ends, net[e] # <<>>, state[e] = "Open",
           HandleData(e, net[e][1], Tail(net[e]))
    PROVE  Ordered'
<1>m. PICK m : m = net[e][1]
  OBVIOUS
<1>b. PICK b : b = Message("bye", WriteEpoch(e))
  OBVIOUS
<1> DEFINE ret == GnutlsRecordRecv(e, m)
<1>0. /\ Types /\ net[e] \in Seq(Messages) /\ Tail(net[e]) \in Seq(Messages) /\ <<>> \in Seq(Messages)
      /\ b \in Messages /\ <<b>> \in Seq(Messages) /\ b.type = "bye" /\ b.gen = WriteEpoch(e)
      /\ sent[e] + 0 = sent[e]
  <2>1. Types /\ net[e] \in Seq(Messages) /\ sent[e] \in Nat
    <3>1. Types
      BY DEF IInv
    <3> QED
      BY <3>1, BoundsAssumption DEF Types
  <2>2. Sound(b)
    BY <1>b, OtherRecords
  <2>3. b \in Messages /\ b.type = "bye" /\ b.gen = WriteEpoch(e)
    BY <1>b, <2>2 DEF Sound, Message
  <2> QED
    BY <2>1, <2>3, TailOf
<1>1. /\ UNCHANGED <<awaits, gen, current, sent>>
      /\ seen'[e] \subseteq seen[e] \cup {m}
      /\ \A x \in Ends \ {e} : seen'[x] = seen[x]
  BY <1>m, <1>0 DEF HandleData, Types
<1>2. ~Switches(m, gen[e], Finished(Other(e)))
  <2>1. m \in Met(e) /\ awaits[e] = Rest(e)
    BY <1>m, FirstAccepted DEF IInv, Handshakes
  <2> QED
    BY <2>1, FinishedAwaited
<1>3. /\ ret = "DATA" => m.type = "data"
      /\ ret = "REHANDSHAKE" => m.type # "data"
  BY DEF GnutlsRecordRecv
<1>w. WriteEpoch(e)' = WriteEpoch(e)
  BY <1>1 DEF WriteEpoch
<1> HIDE DEF ret
<1>4. ASSUME held'[e] \in {held[e], NoPacket, m}, net'[e] = Tail(net[e]),
             delivered'[e] = IF ~Over(state'[e]) /\ m.type = "data" THEN Append(delivered[e], m.n) ELSE delivered[e],
             \A x \in Ends \ {e} : state'[x] = state[x] /\ held'[x] = held[x] /\ delivered'[x] = delivered[x],
             state'[e] # "Invalid",
             Silent(e) \/ \E x \in Messages : Writes(e, x)
      PROVE  Ordered'
  <2>1. Reads(e)
    BY <1>m, <1>1, <1>2, <1>4 DEF Reads
  <2>2. Stands(Other(e))
    BY <1>1, <1>4, OtherEnd DEF Stands
  <2> QED
    BY <1>1, <1>4, <2>1, <2>2, QuietOrdered DEF Over
<1>5. ASSUME Exchange(e, Tail(net[e]), <<>>)
      PROVE  net'[e] = Tail(net[e]) /\ Silent(e)
  BY <1>0, <1>1, <1>5, <1>w, ExchangeQueues DEF Silent
<1>6. CASE /\ ret = "DATA"
           /\ delivered' = [delivered EXCEPT ![e] = Append(delivered[e], m.n)]
           /\ Exchange(e, Tail(net[e]), <<>>)
           /\ UNCHANGED <<state, pending, held, cause>>
  BY <1>0, <1>3, <1>4, <1>5, <1>6 DEF Over, Types
<1>7. CASE /\ ret = "EOF"
           /\ Exchange(e, Tail(net[e]), <<b>>)
           /\ state' = [state EXCEPT ![e] = "Closed"]
           /\ UNCHANGED <<pending, held, delivered, cause>>
  <2>1. net'[e] = Tail(net[e]) /\ net'[Other(e)] = net[Other(e)] \o <<b>>
    BY <1>0, <1>7, ExchangeQueues
  <2>2. state'[e] = "Closed" /\ \A x \in Ends \ {e} : state'[x] = state[x]
    BY <1>0, <1>7 DEF Types
  <2>3. ~Issued(e, b) /\ Issued(e, b)'
    BY <1>0, <2>2 DEF Issued, Over
  <2>4. Writes(e, b)
    BY <1>0, <1>1, <2>1, <2>3, WritesOther
  <2> QED
    BY <1>0, <1>4, <1>7, <2>1, <2>2, <2>4 DEF Over
<1>8. CASE /\ ret = "REHANDSHAKE"
           /\ state' = [state EXCEPT ![e] = "Renegotiating"]
           /\ held' = [held EXCEPT ![e] = IF e = Server THEN m ELSE NoPacket]
           /\ Exchange(e, Tail(net[e]), <<>>)
           /\ UNCHANGED <<delivered, cause>>
  <2>1. /\ state'[e] = "Renegotiating" /\ held'[e] \in {NoPacket, m}
        /\ \A x \in Ends \ {e} : state'[x] = state[x] /\ held'[x] = held[x]
    BY <1>0, <1>8 DEF Types
  <2> QED
    BY <1>3, <1>4, <1>5, <1>8, <2>1
<1>9. CASE /\ ret = "AGAIN"
           /\ state' = [state EXCEPT ![e] = "Aborted"]
           /\ Exchange(e, Tail(net[e]), <<>>)
           /\ UNCHANGED <<pending, held, delivered>>
  BY <1>m, <1>9, NeverAgain DEF ret
<1> QED
  <2>1. Bye(e) = <<Message("bye", WriteEpoch(e))>>
    BY ByeSent DEF IInv, Types
  <2> QED
    BY <1>m, <1>b, <1>6, <1>7, <1>8, <1>9, <2>1 DEF HandleData, ret

\* readPacket()
LEMMA ReadPacketOrdered ==
    ASSUME IInv, Ordered, ~Datagrams, NEW e \in Ends, NEW i \in Arriving(e), ReadPacket(e, i)
    PROVE  Ordered'
<1>m. PICK m : m = net[e][1]
  OBVIOUS
<1>0. /\ i = 1 /\ ~pending[e] /\ Types /\ Handshakes /\ net[e] # <<>> /\ net[e] \in Seq(Messages)
      /\ Tail(net[e]) \in Seq(Messages) /\ m \in Met(e) /\ Sound(m) /\ (~Over(state[e]) => Accepts(e, m))
  <2>1. i = 1 /\ net[e] \in Seq(Messages) /\ net[e] # <<>>
    BY DEF Arriving, IInv, Types
  <2> QED
    BY <1>m, <2>1, FirstAccepted, TailOf, RepairedRead DEF IInv, Types
<1>inv. IInv'
  BY ReadPacketStep
<1>1. CASE /\ Shakes(e)
           /\ HandleHandshake(e, m, Tail(net[e]))
           /\ current' = [current EXCEPT ![e] = NoPacket]
           /\ UNCHANGED <<pending, held>>
  <2>1. Shaking(e, m, Tail(net[e])) /\ ~Over(state[e])
    BY <1>m, <1>0, <1>1, ReadShakes DEF Shakes, Over
  <2>2. current'[e] = NoPacket /\ \A x \in Ends \ {e} : current'[x] = current[x]
    BY <1>0, <1>1 DEF Types
  <2>3. Reads(e)
    BY <1>m, <1>0, <1>1, <2>1, <2>2, ShakeReads
  <2> QED
    BY <1>0, <1>1, <2>1, <2>2, <2>3, ShakeOrdered
<1>2. CASE state[e] = "Open" /\ HandleData(e, m, Tail(net[e]))
  BY <1>m, <1>0, <1>inv, <1>2, HandleDataOrdered
<1>3. CASE /\ ~Shakes(e) /\ state[e] # "Open"
           /\ current' = KeepEarly(e, m)
           /\ Exchange(e, Tail(net[e]), <<>>)
           /\ UNCHANGED <<state, pending, permitted, gnutlsVars, history, repaired>>
  <2>1. UNCHANGED <<state, awaits, gen, seen, held, sent, delivered>>
    BY <1>3 DEF gnutlsVars, history
  <2>2. current'[e] = m /\ \A x \in Ends \ {e} : current'[x] = current[x]
    BY <1>0, <1>3 DEF KeepEarly, Types
  <2>3. net'[e] = Tail(net[e]) /\ net'[Other(e)] = net[Other(e)]
    <3>1. <<>> \in Seq(Messages)
      OBVIOUS
    <3> QED
      BY <1>0, <1>3, <3>1, ExchangeQueues
  <2>4. ~Over(state[e]) => state[e] = "Invalid" /\ gen[e] = 0 /\ awaits[e] = Rest(e)
    BY <1>0, <1>3 DEF Shakes, Over, Types, States, Handshakes
  <2>5. ~Over(state[e]) => ~Switches(m, gen[e], Finished(Other(e))) /\ m.type # "data"
    <3>1. m.type = "data" => m.gen > 0 /\ Epoch(m) = m.gen
      BY <1>0 DEF Sound, Epoch, Flights
    <3> QED
      BY <1>0, <2>4, <3>1, FinishedAwaited DEF Accepts
  <2>6. Reads(e)
    BY <1>m, <1>0, <2>1, <2>2, <2>3, <2>5 DEF Reads
  <2>7. Stands(Other(e)) /\ Silent(e)
    BY <2>1, <2>2, <2>3, OtherEnd DEF Stands, Silent, WriteEpoch
  <2> QED
    BY <1>inv, <2>1, <2>6, <2>7, QuietOrdered
<1> QED
  BY <1>m, <1>0, <1>1, <1>2, <1>3, RepairedRead DEF Types

\* Nothing has been written yet.
LEMMA OrderedInit == Init => OInv
<1> SUFFICES ASSUME Init PROVE Ordered
  BY DEF OInv
<1>1. Elems(<<>>) = {} /\ Len(<<>>) = 0
  BY DEF Elems
<1>2. /\ \A e \in Ends : /\ net[e] = <<>> /\ seen[e] = {} /\ held[e] = NoPacket /\ current[e] = NoPacket
                         /\ gen[e] = 0 /\ sent[e] = 0 /\ delivered[e] = <<>>
                         /\ awaits[e] \notin {"ClientFinished", "ServerFinished"}
      /\ Client \in Ends /\ Server \in Ends
  BY DEF Init, Ends
<1>3. Issues /\ Halves /\ Fresh
  BY <1>1, <1>2 DEF Issues, Met, Halves, Fresh, Distinct
<1>4. Fifo
  <2> SUFFICES ASSUME NEW e \in Ends
               PROVE  InEpochs(net[e], gen[e], WriteEpoch(Other(e)), Finished(Other(e)))
    BY DEF Fifo
  <2>1. WriteEpoch(Other(e)) = 0
    BY <1>2, OtherEnd DEF WriteEpoch
  <2> QED
    BY <1>1, <1>2, <2>1 DEF InEpochs
<1>5. InTurn
  BY <1>1, <1>2, OtherEnd DEF InTurn, Queued
<1> QED
  BY <1>3, <1>4, <1>5 DEF Ordered

\* Every step keeps the link's order.
LEMMA OrderedNext ==
    ASSUME IInv, RInv, OInv, [Next]_vars
    PROVE  OInv'
<1> SUFFICES ASSUME ~Datagrams PROVE Ordered'
  BY DEF OInv
<1>0. Ordered
  BY DEF OInv
<1>1. CASE UNCHANGED vars
  <2>1. UNCHANGED <<state, current, awaits, gen, seen, held, net, sent, delivered>>
    BY <1>1 DEF vars, appVars, gnutlsVars, history
  <2>2. UNCHANGED <<Issues, Halves>>
    BY <2>1 DEF Issues, Issued, Met, Halves, Other
  <2>3. UNCHANGED <<Fresh, Fifo, InTurn>>
    BY <2>1 DEF Fresh, Fifo, InTurn, WriteEpoch, Other
  <2> QED
    BY <1>0, <2>2, <2>3 DEF Ordered
<1>2. ASSUME NEW e \in Ends, Open(e) \/ Continue(e) \/ Renegotiate(e)
      PROVE  Ordered'
  BY <1>0, <1>2, OpenOrdered, ContinueOrdered, RenegotiateOrdered
<1>3. ASSUME NEW e \in Ends, Close(e) \/ Write(e) \/ PermissiblePeers(e)
      PROVE  Ordered'
  BY <1>0, <1>3, CloseOrdered, WriteOrdered, PermissiblePeersOrdered
<1>4. ASSUME NEW e \in Ends, NEW i \in Arriving(e), ReadPacket(e, i)
      PROVE  Ordered'
  BY <1>0, <1>4, ReadPacketOrdered
<1> QED
  BY <1>1, <1>2, <1>3, <1>4 DEF Next

-----------------------------------------------------------------------------
(* Each action is one of the abstract specification. *)

\* The abstract state, and a step of it.
PhaseMap == [e \in Ends |-> Phase(state[e])]
SentMap == [e \in Ends |-> [i \in 1 .. sent[e] |-> i]]
StreamStep == Stream!StreamNext \/ UNCHANGED Stream!streamVars

\* The phases.
LEMMA Phases ==
    /\ Phase("Invalid") = "fresh" /\ Phase("Opening") = "shaking" /\ Phase("Renegotiating") = "shaking"
    /\ Phase("Open") = "open" /\ Phase("Closed") = "closed" /\ Phase("Aborted") = "aborted"
  BY DEF Phase

\* A change of _state is a change of phase.
LEMMA PhaseMapChange ==
    ASSUME IInv \/ AInv, NEW e \in Ends, NEW s, state' = [state EXCEPT ![e] = s]
    PROVE  PhaseMap' = [PhaseMap EXCEPT ![e] = Phase(s)]
<1>1. state \in [Ends -> States]
  BY DEF IInv, Types, AInv, States
<1>2. \A x \in Ends : state'[x] = IF x = e THEN s ELSE state[x]
  BY <1>1
<1>3. PhaseMap' = [x \in Ends |-> Phase(state'[x])]
  BY DEF PhaseMap, Phase
<1>4. \A x \in Ends : Phase(state'[x]) = IF x = e THEN Phase(s) ELSE Phase(state[x])
  BY <1>2
<1>5. PhaseMap' = [x \in Ends |-> IF x = e THEN Phase(s) ELSE Phase(state[x])]
  BY <1>3, <1>4
<1> QED
  BY <1>5 DEF PhaseMap

\* The changes that happen, one by one.
LEMMA PhaseChange ==
    ASSUME IInv \/ AInv, NEW e \in Ends
    PROVE  /\ state' = [state EXCEPT ![e] = "Opening"] => PhaseMap' = [PhaseMap EXCEPT ![e] = "shaking"]
           /\ state' = [state EXCEPT ![e] = "Renegotiating"] => PhaseMap' = [PhaseMap EXCEPT ![e] = "shaking"]
           /\ state' = [state EXCEPT ![e] = "Open"] => PhaseMap' = [PhaseMap EXCEPT ![e] = "open"]
           /\ state' = [state EXCEPT ![e] = "Closed"] => PhaseMap' = [PhaseMap EXCEPT ![e] = "closed"]
           /\ state' = [state EXCEPT ![e] = "Aborted"] => PhaseMap' = [PhaseMap EXCEPT ![e] = "aborted"]
<1>1. ASSUME state' = [state EXCEPT ![e] = "Opening"]
      PROVE  PhaseMap' = [PhaseMap EXCEPT ![e] = "shaking"]
  <2>1. PhaseMap' = [PhaseMap EXCEPT ![e] = Phase("Opening")]
    BY <1>1, PhaseMapChange
  <2> QED
    BY <2>1, Phases
<1>2. ASSUME state' = [state EXCEPT ![e] = "Renegotiating"]
      PROVE  PhaseMap' = [PhaseMap EXCEPT ![e] = "shaking"]
  <2>1. PhaseMap' = [PhaseMap EXCEPT ![e] = Phase("Renegotiating")]
    BY <1>2, PhaseMapChange
  <2> QED
    BY <2>1, Phases
<1>3. ASSUME state' = [state EXCEPT ![e] = "Open"]
      PROVE  PhaseMap' = [PhaseMap EXCEPT ![e] = "open"]
  <2>1. PhaseMap' = [PhaseMap EXCEPT ![e] = Phase("Open")]
    BY <1>3, PhaseMapChange
  <2> QED
    BY <2>1, Phases
<1>4. ASSUME state' = [state EXCEPT ![e] = "Closed"]
      PROVE  PhaseMap' = [PhaseMap EXCEPT ![e] = "closed"]
  <2>1. PhaseMap' = [PhaseMap EXCEPT ![e] = Phase("Closed")]
    BY <1>4, PhaseMapChange
  <2> QED
    BY <2>1, Phases
<1>5. ASSUME state' = [state EXCEPT ![e] = "Aborted"]
      PROVE  PhaseMap' = [PhaseMap EXCEPT ![e] = "aborted"]
  <2>1. PhaseMap' = [PhaseMap EXCEPT ![e] = Phase("Aborted")]
    BY <1>5, PhaseMapChange
  <2> QED
    BY <2>1, Phases
<1> QED
  BY <1>1, <1>2, <1>3, <1>4, <1>5

\* The abstract peer is the other end.
LEMMA StreamPeer ==
    ASSUME NEW e \in Ends
    PROVE  Stream!Peer(e) = Other(e)
<1>1. Other(e) \in Ends /\ Other(e) # e /\ \A x \in Ends : x # e => x = Other(e)
  BY EndsAssumption DEF Ends, Other
<1> QED
  BY <1>1 DEF Stream!Peer

\* open()
LEMMA OpenRefines ==
    ASSUME IInv, RInv, NEW e \in Ends, Open(e)
    PROVE  RInv' /\ StreamStep
<1>0. /\ state[e] = "Invalid" /\ state' = [state EXCEPT ![e] = "Opening"]
      /\ UNCHANGED <<current, gen, seen, held, net, sent, delivered, asked>>
  BY DEF Open, gnutlsVars, history
<1>t. /\ state \in [Ends -> States] /\ gen[e] = 0 /\ \A x \in Ends : sent[x] \in Nat
      /\ state'[e] = "Opening" /\ \A x \in Ends \ {e} : state'[x] = state[x]
  BY <1>0, BoundsAssumption DEF IInv, Types, Handshakes
<1>1. IInv'
  BY OpenStep
<1>2. Growth(e, {})
  <2>1. \A x \in Ends : sent[x] <= sent'[x]
    BY <1>0, <1>t
  <2> QED
    BY <1>0, <1>t, <2>1, OtherEnd, MetKept DEF Growth, Over
<1>3. Early'
  <2> SUFFICES ASSUME NEW x \in Ends, current'[x] # NoPacket, pending'[x] \/ state'[x] \notin {"Closed", "Aborted"}
               PROVE  gen'[x] = 0
    BY DEF Early
  <2>1. CASE x = e
    BY <1>0, <1>t, <2>1
  <2>2. CASE x # e
    <3>1. pending'[x] <=> pending[x]
      BY <2>2, Zenon DEF Open, IInv, Types
    <3> QED
      BY <1>0, <1>t, <2>2, <3>1 DEF RInv, Early
  <2> QED
    BY <2>1, <2>2
<1>4. Stream!Begin(e)
  <2>0. PhaseMap[e] = "fresh"
    BY <1>0, Phases DEF PhaseMap
  <2>1. PhaseMap' = [PhaseMap EXCEPT ![e] = "shaking"]
    BY <1>0, PhaseChange
  <2>2. SentMap' = SentMap
    BY <1>0 DEF SentMap
  <2> QED
    BY <1>0, <2>0, <2>1, <2>2 DEF Stream!Begin, PhaseMap, SentMap
<1> QED
  BY <1>1, <1>2, <1>3, <1>4, GrowthStep DEF StreamStep, Stream!StreamNext

\* renegotiate()
LEMMA RenegotiateRefines ==
    ASSUME IInv, RInv, NEW e \in Ends, Renegotiate(e)
    PROVE  RInv' /\ StreamStep
<1> DEFINE out == IF e = Server THEN <<Message("HelloRequest", gen[e])>> ELSE <<>>
<1>0. /\ state[e] = "Open" /\ state' = [state EXCEPT ![e] = "Renegotiating"]
      /\ UNCHANGED <<pending, current, gen, seen, held, sent, delivered, asked>>
      /\ Exchange(e, net[e], out) /\ gen[e] < MaxGen
  BY DEF Renegotiate, gnutlsVars, history
<1>t. /\ Types /\ state \in [Ends -> States] /\ \A x \in Ends : sent[x] \in Nat
      /\ state'[e] = "Renegotiating" /\ \A x \in Ends \ {e} : state'[x] = state[x]
  BY <1>0, BoundsAssumption DEF IInv, Types
<1>1. IInv'
  BY RenegotiateStep
<1>n. /\ net'[e] = net[e]
      /\ \A x : x \in Elems(net'[Other(e)]) <=> x \in Elems(net[Other(e)]) \/ x \in Elems(out)
      /\ \A x \in Elems(out) : x.type = "HelloRequest"
  <2>1. Message("HelloRequest", gen[e]) \in Messages /\ Message("HelloRequest", gen[e]).type = "HelloRequest"
    BY <1>0, OtherRecords DEF Sound, Message
  <2>2. out \in Seq(Messages) /\ \A x \in Elems(out) : x.type = "HelloRequest"
    BY <2>1 DEF Elems
  <2>3. net[e] \in Seq(Messages)
    BY <1>t DEF Types
  <2> HIDE DEF out
  <2> QED
    BY <1>0, <1>t, <2>2, <2>3, ExchangeNet
<1> HIDE DEF out
<1>2. Growth(e, Elems(out))
  <2>1. \A x \in Ends : sent[x] <= sent'[x]
    BY <1>0, <1>t
  <2> QED
    BY <1>0, <1>t, <1>n, <2>1, MetKept DEF Growth, Over
<1>3. Early'
  BY <1>0, <1>t DEF RInv, Early
<1>4. Stream!Reshake(e)
  <2>0. PhaseMap[e] = "open"
    BY <1>0, Phases DEF PhaseMap
  <2>1. PhaseMap' = [PhaseMap EXCEPT ![e] = "shaking"]
    BY <1>0, PhaseChange
  <2>2. SentMap' = SentMap
    BY <1>0 DEF SentMap
  <2> QED
    BY <1>0, <2>0, <2>1, <2>2 DEF Stream!Reshake, PhaseMap, SentMap
<1> QED
  BY <1>1, <1>2, <1>3, <1>4, GrowthStep DEF StreamStep, Stream!StreamNext

\* close()
LEMMA CloseRefines ==
    ASSUME IInv, RInv, NEW e \in Ends, Close(e)
    PROVE  RInv' /\ StreamStep
<1> DEFINE b == Message("bye", WriteEpoch(e))
<1>0. /\ state[e] \notin {"Invalid", "Closed", "Aborted"} /\ state' = [state EXCEPT ![e] = "Closed"]
      /\ asked' = asked \cup {e}
      /\ UNCHANGED <<pending, current, gen, seen, held, sent, delivered>>
      /\ Exchange(e, net[e], <<b>>)
  BY ByeSent DEF Close, gnutlsVars, IInv, Types
<1>t. /\ Types /\ state \in [Ends -> States] /\ \A x \in Ends : sent[x] \in Nat
      /\ state'[e] = "Closed" /\ \A x \in Ends \ {e} : state'[x] = state[x]
  BY <1>0, BoundsAssumption DEF IInv, Types
<1>1. IInv'
  BY CloseStep
<1>n. /\ net'[e] = net[e]
      /\ \A x : x \in Elems(net'[Other(e)]) <=> x \in Elems(net[Other(e)]) \/ x \in {b}
      /\ b.type = "bye"
  <2>1. b \in Messages /\ b.type = "bye"
    BY <1>0, OtherRecords DEF Sound, Message
  <2> HIDE DEF b
  <2>2. <<b>> \in Seq(Messages) /\ Elems(<<b>>) = {b}
    BY <2>1 DEF Elems
  <2>3. net[e] \in Seq(Messages)
    BY <1>t DEF Types
  <2> QED
    BY <1>0, <1>t, <2>1, <2>2, <2>3, ExchangeNet
<1> HIDE DEF b
<1>2. Growth(e, {b})
  <2>1. \A x \in Ends : sent[x] <= sent'[x]
    BY <1>0, <1>t
  <2> QED
    BY <1>0, <1>t, <1>n, <2>1, MetKept DEF Growth, Over
<1>3. Early'
  BY <1>0, <1>t DEF RInv, Early
<1>4. Stream!Close(e)
  <2>1. PhaseMap[e] \in {"shaking", "open"} /\ PhaseMap' = [PhaseMap EXCEPT ![e] = "closed"]
    BY <1>0, <1>t, PhaseChange, Phases DEF PhaseMap, States
  <2>2. SentMap' = SentMap
    BY <1>0 DEF SentMap
  <2> QED
    BY <1>0, <2>1, <2>2 DEF Stream!Close, PhaseMap, SentMap
<1> QED
  BY <1>1, <1>2, <1>3, <1>4, GrowthStep DEF StreamStep, Stream!StreamNext

\* write()
LEMMA WriteRefines ==
    ASSUME IInv, RInv, NEW e \in Ends, Write(e)
    PROVE  RInv' /\ StreamStep
<1> DEFINE b == Data(WriteEpoch(e), sent[e] + 1)
<1>0. /\ state[e] = "Open" /\ sent[e] < MaxData /\ sent' = [sent EXCEPT ![e] = sent[e] + 1]
      /\ UNCHANGED <<state, pending, current, gen, seen, held, delivered, asked>>
      /\ Exchange(e, net[e], <<b>>)
  BY DEF Write, gnutlsVars, appVars
<1>t. /\ Types /\ sent \in [Ends -> 0 .. MaxData] /\ \A x \in Ends : sent[x] \in Nat
      /\ MaxData \in Nat /\ state \in [Ends -> States]
  BY <1>0, BoundsAssumption DEF IInv, Types
<1>1. IInv'
  BY WriteStep
<1>n. /\ net'[e] = net[e]
      /\ \A x : x \in Elems(net'[Other(e)]) <=> x \in Elems(net[Other(e)]) \/ x \in {b}
      /\ b.type = "data" /\ b.n = sent[e] + 1
  <2>1. b \in Messages /\ b.type = "data" /\ b.n = sent[e] + 1
    BY <1>0, OtherRecords DEF Sound, Data
  <2> HIDE DEF b
  <2>2. <<b>> \in Seq(Messages) /\ Elems(<<b>>) = {b}
    BY <2>1 DEF Elems
  <2>3. net[e] \in Seq(Messages)
    BY <1>t DEF Types
  <2> QED
    BY <1>0, <1>t, <2>1, <2>2, <2>3, ExchangeNet
<1> HIDE DEF b
<1>2. sent'[e] = sent[e] + 1 /\ \A x \in Ends : sent[x] <= sent'[x]
  BY <1>0, <1>t
<1>3. Growth(e, {b})
  BY <1>0, <1>n, <1>2, MetKept DEF Growth, Over
<1>4. Early'
  BY <1>0 DEF RInv, Early
<1>5. \E p \in 1 .. MaxData : Stream!Write(e, p)
  <2>1. PhaseMap[e] = "open" /\ PhaseMap' = PhaseMap
    BY <1>0, Phases DEF PhaseMap
  <2>2. SentMap' = [SentMap EXCEPT ![e] = Append(SentMap[e], sent[e] + 1)]
    <3>1. ASSUME NEW k \in Nat
          PROVE  [i \in 1 .. k + 1 |-> i] = Append([i \in 1 .. k |-> i], k + 1)
      OBVIOUS
    <3>2. [i \in 1 .. sent'[e] |-> i] = Append(SentMap[e], sent[e] + 1)
      BY <1>t, <1>2, <3>1 DEF SentMap
    <3>3. \A x \in Ends \ {e} : sent'[x] = sent[x]
      BY <1>0, <1>t
    <3>4. SentMap' = [x \in Ends |-> IF x = e THEN Append(SentMap[e], sent[e] + 1) ELSE SentMap[x]]
      BY <3>2, <3>3 DEF SentMap
    <3> QED
      BY <3>4 DEF SentMap
  <2>3. PICK p \in 1 .. MaxData : p = sent[e] + 1
    BY <1>0, <1>t
  <2>4. Stream!Write(e, p)
    BY <1>0, <2>1, <2>2, <2>3 DEF Stream!Write, PhaseMap, SentMap
  <2> QED
    BY <2>4
<1> QED
  <2>1. RInv'
    BY <1>1, <1>3, <1>4, GrowthStep
  <2>2. Stream!StreamNext
    BY <1>5 DEF Stream!StreamNext
  <2> QED
    BY <2>1, <2>2 DEF StreamStep

\* permissiblePeers(), which nobody above sees.
LEMMA PermissiblePeersRefines ==
    ASSUME IInv, RInv, NEW e \in Ends, PermissiblePeers(e)
    PROVE  RInv' /\ StreamStep
<1>0. UNCHANGED <<state, pending, current, gen, seen, held, net, sent, delivered, asked>>
  BY DEF PermissiblePeers, gnutlsVars, history
<1>1. RInv'
  <2>0. \A x : Other(x)' = Other(x)
    BY DEF Other
  <2>1. Came' /\ Begun' /\ Taken'
    BY <1>0 DEF RInv, Came, Met, Begun, Taken
  <2>2. Numbered'
    BY <1>0, <2>0 DEF RInv, Numbered
  <2>3. Closing' /\ Early' /\ Kept'
    BY <1>0, <2>0 DEF RInv, Closing, Early, Kept
  <2> QED
    BY <2>1, <2>2, <2>3 DEF RInv
<1>2. UNCHANGED Stream!streamVars
  BY <1>0 DEF Stream!streamVars
<1> QED
  BY <1>1, <1>2 DEF StreamStep

\* A packet whose record gnutls accepts may be delivered.
LEMMA DeliverRefines ==
    ASSUME IInv, RInv, OInv, NEW e \in Ends, NEW m \in Elems(net[e]), Accepts(e, m), m.type = "data",
           ~Datagrams => net[e] # <<>> /\ m = net[e][1],
           state[e] \in {"Opening", "Renegotiating", "Open"},
           delivered' = [delivered EXCEPT ![e] = Append(delivered[e], m.n)],
           UNCHANGED <<state, sent, asked>>
    PROVE  StreamStep
<1> DEFINE i == m.n
<1>1. Other(e) \in Ends /\ Stream!Peer(e) = Other(e)
  BY OtherEnd, StreamPeer
<1>2. sent[Other(e)] \in Nat /\ i \in Nat /\ i \in 1 .. sent[Other(e)]
  <2>1. Sound(m)
    BY DEF IInv, RecordsSound
  <2>2. sent[Other(e)] \in Nat /\ i \in Nat /\ i >= 1
    BY <1>1, <2>1, BoundsAssumption DEF Sound, IInv, Types
  <2>3. i <= sent[Other(e)]
    BY DEF RInv, Numbered
  <2> QED
    BY <2>2, <2>3
<1>o. ~Datagrams => i = Len(delivered[e]) + 1 /\ \A k \in 1 .. Len(delivered[e]) : delivered[e][k] # i
  <2> SUFFICES ASSUME ~Datagrams
               PROVE  i = Len(delivered[e]) + 1 /\ \A k \in 1 .. Len(delivered[e]) : delivered[e][k] # i
    OBVIOUS
  <2>1. i = Len(delivered[e]) + 1
    <3>1. Queued(net[e], Len(delivered[e]), sent[Other(e)])
      BY DEF OInv, Ordered, InTurn, Over
    <3> QED
      BY <1>2, <3>1, FirstQueued DEF IInv, Types
  <2>2. \A k \in 1 .. Len(delivered[e]) : delivered[e][k] = k
    BY DEF OInv, Ordered, InTurn
  <2>3. Len(delivered[e]) \in Nat
    BY DEF IInv, Types
  <2> HIDE DEF i
  <2> QED
    BY <2>1, <2>2, <2>3
<1>3. \A k \in 1 .. Len(delivered[e]) : delivered[e][k] # i
  <2> SUFFICES ASSUME Datagrams, NEW k \in 1 .. Len(delivered[e]), delivered[e][k] = i
               PROVE  FALSE
    BY <1>o
  <2>1. PICK y \in seen[e] : y.type = "data" /\ y.n = i
    BY DEF RInv, Taken
  <2>2. y \in Elems(net[e])
    BY <2>1 DEF RInv, Came, Met
  <2>3. y = m
    BY <2>1, <2>2 DEF RInv, Numbered
  <2> QED
    BY <2>1, <2>3 DEF Accepts
<1>4. SentMap[Other(e)] = [j \in 1 .. sent[Other(e)] |-> j]
  BY <1>1 DEF SentMap
<1>5. Len(SentMap[Other(e)]) = sent[Other(e)]
  BY <1>2, <1>4
<1> HIDE DEF i
<1>6. i \in Stream!Arriving(e)
  BY <1>1, <1>2, <1>3, <1>5, <1>o DEF Stream!Arriving, SentMap
<1>7. PhaseMap[e] \in {"shaking", "open"} /\ PhaseMap' = PhaseMap /\ SentMap' = SentMap
  BY Phases DEF PhaseMap, SentMap
<1>8. Stream!Deliver(e, i)
  BY <1>6, <1>7 DEF Stream!Deliver, PhaseMap, SentMap, i
<1> QED
  BY <1>6, <1>8 DEF StreamStep, Stream!StreamNext

\* handleHandshake, seen from above.
LEMMA HandshakeRefines ==
    ASSUME IInv, RInv, OInv, NEW e \in Ends, NEW m, NEW rest, Shaking(e, m, rest),
           Accepts(e, m) /\ m.type = "data" =>
               Shakes(e) /\ m \in Elems(net[e]) /\ (~Datagrams => net[e] # <<>> /\ m = net[e][1]),
           awaits[e] # Rest(e) => Shakes(e) /\ m \in Elems(net[e])
    PROVE  StreamStep
<1>0. /\ state[e] \notin {"Invalid", "Open"} /\ sent' = sent /\ asked' = asked
      /\ state \in [Ends -> States]
  BY DEF Shaking, HandleHandshake, IInv, Types
<1>s. SentMap' = SentMap
  BY <1>0 DEF SentMap
<1>1. CASE state' = state /\ delivered' = delivered
  BY <1>0, <1>1 DEF StreamStep, Stream!streamVars
<1>2. CASE state' = [state EXCEPT ![e] = "Aborted"] /\ delivered' = delivered
  <2>1. PhaseMap[e] # "fresh"
    BY <1>0, Phases DEF PhaseMap, States
  <2>2. PhaseMap' = [PhaseMap EXCEPT ![e] = "aborted"]
    BY <1>2, PhaseChange
  <2>3. Stream!Fail(e)
    BY <1>0, <1>2, <1>s, <2>1, <2>2 DEF Stream!Fail, PhaseMap, SentMap
  <2> QED
    BY <2>3 DEF StreamStep, Stream!StreamNext
<1>3. CASE state' = [state EXCEPT ![e] = "Open"] /\ delivered' = delivered /\ awaits[e] # Rest(e)
  <2>1. PhaseMap[e] = "shaking"
    BY <1>3, Phases DEF PhaseMap, Shakes
  <2>2. PhaseMap' = [PhaseMap EXCEPT ![e] = "open"]
    BY <1>3, PhaseChange
  <2>3. Other(e) \in Ends /\ Stream!Peer(e) = Other(e)
    BY OtherEnd, StreamPeer
  <2>4. state[Other(e)] # "Invalid"
    BY <1>3 DEF RInv, Begun
  <2>5. PhaseMap[Other(e)] # "fresh"
    BY <1>0, <2>3, <2>4, Phases DEF PhaseMap, States
  <2>6. Stream!Establish(e)
    BY <1>0, <1>3, <1>s, <2>1, <2>2, <2>3, <2>5 DEF Stream!Establish, PhaseMap, SentMap
  <2> QED
    BY <2>6 DEF StreamStep, Stream!StreamNext
<1>4. CASE /\ state' = state
           /\ Accepts(e, m) /\ m.type = "data"
           /\ delivered' = [delivered EXCEPT ![e] = Append(delivered[e], m.n)]
  <2>1. m \in Elems(net[e]) /\ state[e] \in {"Opening", "Renegotiating"}
    BY <1>4 DEF Accepts, Shakes
  <2> QED
    BY <1>0, <1>4, <2>1, DeliverRefines
<1> QED
  BY <1>1, <1>2, <1>3, <1>4, HandshakeResult

\* open() and handleData() after their listener.
LEMMA ContinueRefines ==
    ASSUME IInv, RInv, OInv, NEW e \in Ends, Continue(e)
    PROVE  RInv' /\ StreamStep
<1> DEFINE m == IF held[e] # NoPacket THEN held[e] ELSE current[e]
<1>0. Shaking(e, m, net[e]) /\ awaits[e] = Rest(e) /\ pending[e]
  BY ContinueShakes, RepairedContinue DEF IInv, Types
<1>1. m \in Met(e) \cup {NoPacket}
  BY DEF Met
<1>2. \A x \in Ends \ {e} : current'[x] = current[x]
  <2>1. repaired /\ current \in [Ends -> Messages \cup {NoPacket}]
    BY DEF IInv, Types
  <2>2. current' = current \/ current' = [current EXCEPT ![e] = NoPacket]
    BY <2>1, RepairedContinue
  <2> QED
    BY <2>1, <2>2
<1>3. ~(Accepts(e, m) /\ m.type = "data")
  <2> HIDE DEF m
  <2> QED
    BY <1>0, ContinueNoData DEF m
<1>4. RInv'
  <2> HIDE DEF m
  <2> QED
    BY <1>0, <1>1, <1>2, HandshakeGrowth
<1>5. StreamStep
  <2> HIDE DEF m
  <2> QED
    BY <1>0, <1>3, HandshakeRefines
<1> QED
  BY <1>4, <1>5

\* The steps of readPacket that leave the handshake alone.
LEMMA HandleDataRefines ==
    ASSUME IInv, RInv, OInv, NEW e \in Ends, NEW i \in Arriving(e), ~pending[e], state[e] = "Open", NEW rest,
           rest = IF Datagrams THEN net[e] ELSE Tail(net[e]),
           HandleData(e, net[e][i], rest)
    PROVE  RInv' /\ StreamStep
<1> DEFINE m == net[e][i]
           ret == GnutlsRecordRecv(e, m)
           b == Message("bye", WriteEpoch(e))
<1>0. /\ m \in Elems(net[e]) /\ rest \in Seq(Messages) /\ Elems(rest) \subseteq Elems(net[e])
      /\ Datagrams => rest = net[e]
      /\ ~Datagrams => net[e] # <<>> /\ m = net[e][1]
  BY Comes DEF IInv, Types, Arriving
<1>inv. IInv'
  BY HandleDataStep
<1>t. /\ Types /\ state \in [Ends -> States] /\ \A x \in Ends : sent[x] \in Nat
      /\ held \in [Ends -> Messages \cup {NoPacket}] /\ delivered \in [Ends -> Seq(1 .. MaxData)]
      /\ seen \in [Ends -> SUBSET Messages]
  BY BoundsAssumption DEF IInv, Types
<1>1. /\ current' = current /\ gen' = gen /\ sent' = sent /\ asked' = asked
      /\ seen' = [seen EXCEPT ![e] = IF held'[e] = m THEN seen[e] ELSE seen[e] \cup {m}]
  BY DEF HandleData
<1>s. SentMap' = SentMap /\ \A x \in Ends : sent[x] <= sent'[x]
  BY <1>1, <1>t DEF SentMap
<1>p. PhaseMap[e] = "open"
  BY Phases DEF PhaseMap
<1>2. \A x \in Ends : seen[x] \subseteq seen'[x] /\ seen'[x] \subseteq Met(x) /\ NoPacket \notin seen'[x]
  <2>1. m # NoPacket
    BY <1>0, <1>t, NoPacketApart, ElemsOf DEF Types
  <2> QED
    BY <1>0, <1>1, <1>t, <2>1, MetKept DEF Met
<1>h. ASSUME NEW x \in Ends, held'[x] \in {held[x], NoPacket} \cup Elems(net[x])
      PROVE  {held'[x], current'[x]} \subseteq Met(x) \cup {NoPacket}
  BY <1>1, <1>h DEF Met
<1>3. /\ ret \in {"DATA", "EOF"} => Accepts(e, m)
      /\ ret = "DATA" => m.type = "data"
      /\ ret = "EOF" => m.type = "bye"
      /\ ret = "REHANDSHAKE" => m.type # "data"
  BY DEF GnutlsRecordRecv
<1>n. ASSUME NEW out \in {<<>>, <<b>>}, Exchange(e, rest, out)
      PROVE  /\ net'[e] = rest
             /\ \A x : x \in Elems(net'[Other(e)]) <=> x \in Elems(net[Other(e)]) \/ x \in Elems(out)
             /\ \A x \in Elems(out) : x.type = "bye"
             /\ out = <<>> => Elems(out) = {}
  <2>1. b \in Messages /\ b.type = "bye"
    BY OtherRecords DEF Sound, Message
  <2> HIDE DEF b
  <2>2. out \in Seq(Messages) /\ (\A x \in Elems(out) : x.type = "bye") /\ (out = <<>> => Elems(out) = {})
    <3>1. CASE out = <<>>
      BY <3>1 DEF Elems
    <3>2. CASE out = <<b>>
      BY <2>1, <3>2 DEF Elems
    <3> QED
      BY <1>n, <3>1, <3>2
  <2> QED
    BY <1>0, <1>t, <1>n, <2>2, ExchangeNet
<1>e. Early'
  <2> SUFFICES ASSUME NEW x \in Ends, current'[x] # NoPacket, pending'[x] \/ state'[x] \notin {"Closed", "Aborted"}
               PROVE  gen'[x] = 0
    BY DEF Early
  <2>1. CASE x = e
    BY <1>1, <2>1 DEF RInv, Early
  <2>2. CASE x # e
    <3>1. state'[x] = state[x]
      BY <1>t, <2>2 DEF HandleData
    <3>2. pending'[x] <=> pending[x]
      BY <2>2, Zenon DEF HandleData, IInv, Types
    <3> QED
      BY <1>1, <2>2, <3>1, <3>2 DEF RInv, Early
  <2> QED
    BY <2>1, <2>2
<1> HIDE DEF m, ret, b
<1>4. CASE /\ ret = "DATA"
           /\ delivered' = [delivered EXCEPT ![e] = Append(delivered[e], m.n)]
           /\ Exchange(e, rest, <<>>)
           /\ UNCHANGED <<state, pending, held, cause>>
  <2>1. StreamStep
    BY <1>0, <1>1, <1>3, <1>4, DeliverRefines
  <2>2. m \in seen'[e]
    <3>1. held[e] # m
      BY <1>3, <1>4 DEF RInv, Kept
    <3> QED
      BY <1>1, <1>4, <1>t, <3>1
  <2>3. \A x \in Ends : \/ delivered'[x] = delivered[x]
                        \/ \E y \in seen'[x] : y.type = "data" /\ delivered'[x] = Append(delivered[x], y.n)
    <3>1. delivered'[e] = Append(delivered[e], m.n) /\ \A x \in Ends \ {e} : delivered'[x] = delivered[x]
      BY <1>4, <1>t
    <3> QED
      BY <1>3, <1>4, <2>2, <3>1
  <2>4. Growth(e, {})
    BY <1>0, <1>1, <1>2, <1>4, <1>h, <1>n, <1>s, <2>3 DEF Growth
  <2> QED
    BY <1>inv, <1>e, <2>1, <2>4, GrowthStep
<1>5. CASE /\ ret = "EOF"
           /\ Exchange(e, rest, <<b>>)
           /\ state' = [state EXCEPT ![e] = "Closed"]
           /\ UNCHANGED <<pending, held, delivered, cause>>
  <2>1. Other(e) \in asked
    BY <1>0, <1>3, <1>5 DEF RInv, Closing
  <2>2. PhaseMap' = [PhaseMap EXCEPT ![e] = "closed"]
    BY <1>5, PhaseChange
  <2>3. Stream!HearClose(e)
    BY <1>1, <1>5, <1>p, <1>s, <2>1, <2>2, StreamPeer DEF Stream!HearClose, PhaseMap, SentMap
  <2>4. state'[e] = "Closed" /\ \A x \in Ends \ {e} : state'[x] = state[x]
    BY <1>5, <1>t
  <2>5. Growth(e, Elems(<<b>>))
    BY <1>0, <1>1, <1>2, <1>5, <1>h, <1>n, <1>s, <2>1, <2>4 DEF Growth, Over
  <2>6. RInv'
    BY <1>inv, <1>e, <2>5, GrowthStep
  <2> QED
    BY <2>3, <2>6 DEF StreamStep, Stream!StreamNext
<1>6. CASE /\ ret = "REHANDSHAKE"
           /\ state' = [state EXCEPT ![e] = "Renegotiating"]
           /\ held' = [held EXCEPT ![e] = IF e = Server THEN m ELSE NoPacket]
           /\ Exchange(e, rest, <<>>)
           /\ UNCHANGED <<delivered, cause>>
  <2>1. PhaseMap' = [PhaseMap EXCEPT ![e] = "shaking"]
    BY <1>6, PhaseChange
  <2>2. Stream!Reshake(e)
    BY <1>1, <1>6, <1>p, <1>s, <2>1 DEF Stream!Reshake, PhaseMap, SentMap
  <2>3. state'[e] = "Renegotiating" /\ \A x \in Ends \ {e} : state'[x] = state[x]
    BY <1>6, <1>t
  <2>4. \A x \in Ends : /\ held'[x] \in {held[x], NoPacket} \cup Elems(net[x])
                        /\ held'[x] = held[x] \/ held'[x].type # "data"
    BY <1>0, <1>3, <1>6, <1>t DEF NoPacket, Message
  <2>5. Growth(e, {})
    BY <1>0, <1>1, <1>2, <1>6, <1>h, <1>n, <1>s, <2>3, <2>4 DEF Growth, Over
  <2>6. RInv'
    BY <1>inv, <1>e, <2>5, GrowthStep
  <2> QED
    BY <2>2, <2>6 DEF StreamStep, Stream!StreamNext
<1>7. CASE /\ ret = "AGAIN"
           /\ state' = [state EXCEPT ![e] = "Aborted"]
           /\ Exchange(e, rest, <<>>)
           /\ UNCHANGED <<pending, held, delivered>>
  <2>1. PhaseMap' = [PhaseMap EXCEPT ![e] = "aborted"]
    BY <1>7, PhaseChange
  <2>2. Stream!Fail(e)
    BY <1>1, <1>7, <1>p, <1>s, <2>1 DEF Stream!Fail, PhaseMap, SentMap
  <2>3. state'[e] = "Aborted" /\ \A x \in Ends \ {e} : state'[x] = state[x]
    BY <1>7, <1>t
  <2>4. Growth(e, {})
    BY <1>0, <1>1, <1>2, <1>7, <1>h, <1>n, <1>s, <2>3 DEF Growth, Over
  <2>5. RInv'
    BY <1>inv, <1>e, <2>4, GrowthStep
  <2> QED
    BY <2>2, <2>5 DEF StreamStep, Stream!StreamNext
<1> QED
  BY <1>t, <1>4, <1>5, <1>6, <1>7, ByeSent DEF HandleData, Types, ret, m, b

\* readPacket()
LEMMA ReadPacketRefines ==
    ASSUME IInv, RInv, OInv, NEW e \in Ends, NEW i \in Arriving(e), ReadPacket(e, i)
    PROVE  RInv' /\ StreamStep
<1> DEFINE m == net[e][i]
           rest == IF Datagrams THEN net[e] ELSE Tail(net[e])
<1>0. /\ ~pending[e] /\ m \in Elems(net[e]) /\ Types /\ state \in [Ends -> States]
      /\ rest \in Seq(Messages) /\ Elems(rest) \subseteq Elems(net[e])
      /\ ~Datagrams => net[e] # <<>> /\ m = net[e][1]
  <2>1. repaired
    BY DEF IInv, Types
  <2>2. ~pending[e]
    BY <2>1, RepairedRead
  <2> QED
    BY <2>2, Comes DEF IInv, Types, Arriving
<1>d. Datagrams => rest = net[e]
  OBVIOUS
<1>1. CASE /\ Shakes(e)
           /\ HandleHandshake(e, m, rest)
           /\ current' = [current EXCEPT ![e] = NoPacket]
           /\ UNCHANGED <<pending, held>>
  <2>1. Shaking(e, m, rest)
    BY <1>0, <1>1, ReadShakes
  <2>2. current'[e] = NoPacket /\ \A x \in Ends \ {e} : current'[x] = current[x]
    BY <1>0, <1>1 DEF Types
  <2>3. ~Over(state[e])
    BY <1>1 DEF Shakes, Over
  <2>4. m \in Met(e)
    BY <1>0 DEF Met
  <2> HIDE DEF m, rest
  <2>5. RInv'
    BY <1>0, <1>d, <2>1, <2>2, <2>3, <2>4, HandshakeGrowth
  <2>6. StreamStep
    BY <1>0, <1>1, <2>1, HandshakeRefines
  <2> QED
    BY <2>5, <2>6
<1>2. CASE state[e] = "Open" /\ HandleData(e, m, rest)
  BY <1>0, <1>2, HandleDataRefines
<1>3. CASE /\ ~Shakes(e) /\ state[e] # "Open"
           /\ current' = KeepEarly(e, m)
           /\ Exchange(e, rest, <<>>)
           /\ UNCHANGED <<state, pending, permitted, gnutlsVars, history, repaired>>
  <2>1. IInv'
    BY ReadPacketStep
  <2>2. UNCHANGED <<state, pending, gen, seen, held, sent, delivered, asked>>
    BY <1>3 DEF gnutlsVars, history
  <2>3. current'[e] = m /\ \A x \in Ends \ {e} : current'[x] = current[x]
    BY <1>0, <1>3 DEF KeepEarly, Types
  <2>4. net'[e] = rest /\ \A y : y \in Elems(net'[Other(e)]) <=> y \in Elems(net[Other(e)])
    <3>1. <<>> \in Seq(Messages) /\ Elems(<<>>) = {}
      BY DEF Elems
    <3> HIDE DEF rest
    <3> QED
      BY <1>0, <1>3, <3>1, ExchangeNet
  <2>5. \A x \in Ends : sent[x] <= sent'[x]
    BY <2>2, <1>0, BoundsAssumption DEF Types
  <2>m. \A x \in Ends : seen'[x] \cup {held'[x], current'[x]} \subseteq Met(x) \cup {NoPacket} /\ NoPacket \notin seen'[x]
    BY <1>0, <2>2, <2>3, MetKept DEF Met
  <2> HIDE DEF m, rest
  <2>6. Growth(e, {})
    BY <1>0, <1>d, <2>2, <2>4, <2>5, <2>m, OtherEnd DEF Growth
  <2>7. Early'
    <3>1. state[e] \in {"Invalid", "Closed", "Aborted"} /\ (state[e] = "Invalid" => gen[e] = 0)
      BY <1>0, <1>3 DEF Shakes, States, IInv, Handshakes
    <3> QED
      BY <1>0, <2>2, <2>3, <3>1 DEF RInv, Early
  <2>8. StreamStep
    BY <2>2 DEF StreamStep, Stream!streamVars
  <2> QED
    BY <2>1, <2>6, <2>7, <2>8, GrowthStep
<1> QED
  BY <1>0, <1>1, <1>2, <1>3, RepairedRead DEF Types

\* Before the first step.
LEMMA InitRefines == Init => RInv /\ Stream!StreamInit
<1> SUFFICES ASSUME Init PROVE RInv /\ Stream!StreamInit
  OBVIOUS
<1>1. Elems(<<>>) = {} /\ NoPacket.type = "none" /\ Len(<<>>) = 0
  BY DEF Elems, NoPacket, Message
<1>2. RInv
  BY <1>1 DEF Init, RInv, Came, Met, Begun, Numbered, Taken, Closing, Early, Kept
<1>3. PhaseMap = [e \in Ends |-> "fresh"]
  BY Phases DEF Init, PhaseMap
<1>4. SentMap = [e \in Ends |-> <<>>]
  <2>1. [i \in 1 .. 0 |-> i] = <<>>
    OBVIOUS
  <2> QED
    BY <2>1 DEF Init, SentMap
<1> QED
  BY <1>2, <1>3, <1>4 DEF Init, Stream!StreamInit, PhaseMap, SentMap

\* Every step is one of the abstract specification, or none to its eye.
LEMMA NextRefines ==
    ASSUME IInv, RInv, OInv, [Next]_vars
    PROVE  RInv' /\ StreamStep
<1>1. CASE UNCHANGED vars
  <2>1. UNCHANGED <<state, pending, current, gen, seen, held, net, sent, delivered, asked>>
    BY <1>1 DEF vars, appVars, gnutlsVars, history
  <2>2. RInv'
    BY <2>1 DEF RInv, Came, Met, Begun, Numbered, Taken, Closing, Early, Kept, Other
  <2>3. UNCHANGED Stream!streamVars
    BY <2>1 DEF Stream!streamVars
  <2> QED
    BY <2>2, <2>3 DEF StreamStep
<1>2. ASSUME NEW e \in Ends, Open(e) \/ Continue(e) \/ Renegotiate(e)
      PROVE  RInv' /\ StreamStep
  BY <1>2, OpenRefines, ContinueRefines, RenegotiateRefines
<1>3. ASSUME NEW e \in Ends, Close(e) \/ Write(e) \/ PermissiblePeers(e)
      PROVE  RInv' /\ StreamStep
  BY <1>3, CloseRefines, WriteRefines, PermissiblePeersRefines
<1>4. ASSUME NEW e \in Ends, NEW i \in Arriving(e), ReadPacket(e, i)
      PROVE  RInv' /\ StreamStep
  BY <1>4, ReadPacketRefines
<1> QED
  BY <1>1, <1>2, <1>3, <1>4 DEF Next

\* What holds besides IInv on a link that repeats and on one that keeps order.
LEMMA LinkInvariant == Spec => [](repaired => RInv /\ OInv)
<1>1. Init => (repaired => RInv /\ OInv)
  BY InitRefines, OrderedInit
<1>2. (repaired => IInv) /\ (repaired => RInv /\ OInv) /\ [Next]_vars => (repaired => RInv /\ OInv)'
  BY NextRefines, OrderedNext, BuildStays
<1> QED
  BY <1>1, <1>2, Invariant, PTL DEF Spec

\* The code as it stands: sessions begin, fail and are closed.
LEMMA MovesRefine ==
    ASSUME AInv, [Next]_vars
    PROVE  StreamStep
<1>0. Moves /\ state \in [Ends -> {"Invalid", "Opening", "Closed", "Aborted"}]
  BY AInvNext DEF AInv
<1>1. SentMap' = SentMap /\ delivered' = delivered
  BY <1>0 DEF Moves, SentMap
<1>2. CASE state' = state /\ asked' = asked
  BY <1>0, <1>2 DEF Moves, StreamStep, Stream!streamVars
<1>3. ASSUME NEW e \in Ends, state[e] = "Invalid", state' = [state EXCEPT ![e] = "Opening"], asked' = asked
      PROVE  Stream!Begin(e)
  <2>1. PhaseMap[e] = "fresh" /\ PhaseMap' = [PhaseMap EXCEPT ![e] = "shaking"]
    BY <1>3, PhaseChange, Phases DEF PhaseMap
  <2> QED
    BY <1>1, <1>3, <2>1 DEF Stream!Begin, PhaseMap, SentMap
<1>4. ASSUME NEW e \in Ends, state[e] # "Invalid", state' = [state EXCEPT ![e] = "Aborted"], asked' = asked
      PROVE  Stream!Fail(e)
  <2>1. PhaseMap[e] # "fresh" /\ PhaseMap' = [PhaseMap EXCEPT ![e] = "aborted"]
    BY <1>0, <1>4, PhaseChange, Phases DEF PhaseMap
  <2> QED
    BY <1>1, <1>4, <2>1 DEF Stream!Fail, PhaseMap, SentMap
<1>5. ASSUME NEW e \in Ends, state[e] = "Opening", state' = [state EXCEPT ![e] = "Closed"], asked' = asked \cup {e}
      PROVE  Stream!Close(e)
  <2>1. PhaseMap[e] = "shaking" /\ PhaseMap' = [PhaseMap EXCEPT ![e] = "closed"]
    BY <1>5, PhaseChange, Phases DEF PhaseMap
  <2> QED
    BY <1>1, <1>5, <2>1 DEF Stream!Close, PhaseMap, SentMap
<1> QED
  BY <1>0, <1>2, <1>3, <1>4, <1>5 DEF Moves, StreamStep, Stream!StreamNext

\* Two sessions implement SessionStream: each packet is propagated at most once,
\* only in a session that runs, and a session is Closed only by a close(),
\* whatever the link loses, repeats and reorders; over a link that keeps order
\* the packets are propagated in the order of their write() and without a gap,
\* those that meet a handshake included.
THEOREM Implementation == Spec => ImplementsStream
<1>1. Init => Stream!StreamInit
  BY InitRefines
<1>2. (repaired => IInv) /\ (repaired => RInv /\ OInv) /\ (~repaired => AInv) /\ [Next]_vars
          => [Stream!StreamNext]_(Stream!streamVars)
  <2> SUFFICES ASSUME repaired => IInv, repaired => RInv /\ OInv, ~repaired => AInv, [Next]_vars
               PROVE  StreamStep
    BY DEF StreamStep
  <2>1. CASE repaired
    BY <2>1, NextRefines
  <2>2. CASE ~repaired
    BY <2>2, MovesRefine
  <2> QED
    BY <2>1, <2>2
<1> QED
  BY <1>1, <1>2, Invariant, LinkInvariant, AsItStands, PTL DEF Spec, ImplementsStream, Stream!StreamSpec

\* Over a link that keeps order no session is aborted for GNUTLS_E_AGAIN: every
\* record that reaches gnutls_record_recv in handleData() is under the keys in
\* use, new to it and, in an open session, no flight of a handshake but the one
\* that asks for a new one, so the error that crypto.hpp calls non-fatal, and
\* that handleData() fails on, does not come up.  This is of the repaired code:
\* with push() as it stands the rest of a record comes after it as a datagram
\* that is none.
THEOREM AgainHarmless ==
    ASSUME ~Datagrams, Builds = {TRUE}
    PROVE  Spec => []AgainIsNonFatal
<1>0. repaired \in Builds => repaired
  OBVIOUS
<1>1. Init => AgainIsNonFatal
  BY DEF Init, AgainIsNonFatal
<1>2. IInv /\ (RInv /\ OInv) /\ AgainIsNonFatal /\ [Next]_vars => AgainIsNonFatal'
  <2> SUFFICES ASSUME IInv, OInv, AgainIsNonFatal, [Next]_vars
               PROVE  AgainIsNonFatal'
    OBVIOUS
  <2>0. Ordered /\ Types /\ Handshakes /\ cause \in [Ends -> Errors]
    BY DEF OInv, IInv, Types
  <2>1. CASE cause' = cause
    BY <2>1 DEF AgainIsNonFatal
  <2>2. ASSUME NEW e \in Ends, NEW m, NEW rest, HandleHandshake(e, m, rest)
        PROVE  AgainIsNonFatal'
    <3> DEFINE r == GnutlsHandshake(e, m)
    <3>1. /\ cause'[e] \in {cause[e], r.ret} /\ \A x \in Ends \ {e} : cause'[x] = cause[x]
          /\ r.ret = "AGAIN" => cause'[e] = cause[e]
      BY <2>0, <2>2 DEF HandleHandshake, AfterHandshake
    <3> HIDE DEF r
    <3> QED
      BY <3>1 DEF AgainIsNonFatal
  <2>3. ASSUME NEW e \in Ends, NEW i \in Arriving(e), state[e] = "Open",
               HandleData(e, net[e][i], IF Datagrams THEN net[e] ELSE Tail(net[e]))
        PROVE  AgainIsNonFatal'
    <3>1. net[e] # <<>> /\ i = 1
      BY <2>0 DEF Arriving, Types
    <3>2. GnutlsRecordRecv(e, net[e][i]) # "AGAIN"
      BY <2>0, <2>3, <3>1, NeverAgain
    <3>3. cause' = cause
      BY <2>3, <3>2 DEF HandleData
    <3> QED
      BY <2>1, <3>3
  <2>4. CASE UNCHANGED vars
    BY <2>1, <2>4 DEF vars, history
  <2>5. ASSUME NEW e \in Ends,
               Open(e) \/ Continue(e) \/ Renegotiate(e) \/ Close(e) \/ Write(e) \/ PermissiblePeers(e)
        PROVE  AgainIsNonFatal'
    BY <2>0, <2>1, <2>2, <2>5, RepairedContinue DEF Types, Open, Renegotiate, Close, Write, PermissiblePeers, history
  <2>6. ASSUME NEW e \in Ends, NEW i \in Arriving(e), ReadPacket(e, i)
        PROVE  AgainIsNonFatal'
    BY <2>0, <2>1, <2>2, <2>3, <2>6, RepairedRead DEF Types, history
  <2> QED
    BY <2>4, <2>5, <2>6 DEF Next
<1> QED
  BY <1>0, <1>1, <1>2, Invariant, LinkInvariant, Unharmedness, PTL DEF Spec

=============================================================================
