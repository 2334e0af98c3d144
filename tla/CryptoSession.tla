----------------------------- MODULE CryptoSession -----------------------------
(***************************************************************************)
(* CryptoSession (src/net/CryptoSession.cpp): a DTLS session driven by the *)
(* datagrams its link reads.  A client and a server session, each on its   *)
(* own host, talk over that link.                                          *)
(*                                                                         *)
(* gnutls is external and modelled by its contract: a handshake of four    *)
(* flights, each one datagram; records numbered by key epoch, of which a   *)
(* replay or a record of another epoch is discarded without a word to the  *)
(* caller but GNUTLS_E_AGAIN; a close_notify.  Epoch 0 has no keys.        *)
(*                                                                         *)
(* The code as it stands opens no session.  push() and vec_push() return   *)
(* the bool of next.write() as the number of bytes sent, so gnutls takes   *)
(* all of a record but its first byte for unsent and pushes the rest again *)
(* before whatever the next call does; and the certificate callback        *)
(* dereferences gnutls_session_get_ptr(), which nobody sets.  `repaired'   *)
(* tells this code from one in which push() returns the size and the       *)
(* session pointer is set; everything else is the same in both.            *)
(***************************************************************************)
EXTENDS Naturals, Sequences

CONSTANTS
    Client, Server,
    Datagrams,      \* TRUE: the link loses, repeats and reorders; FALSE: it does not
    Renegotiators,  \* the ends whose owner calls renegotiate()
    Closers,        \* the ends whose owner, or state listener, calls close()
    Permits,        \* the verdicts on the peers' keys that sessions may start with
    Revocable,      \* whether permissiblePeers() changes while sessions run
    Builds,         \* the programs that run: repaired (TRUE), as the code stands (FALSE)
    RecordSize,     \* bytes in a record
    MaxGen,         \* bound: key epochs
    MaxData         \* bound: packets written by each end

Ends == {Client, Server}

ASSUME EndsAssumption ==
    Client # Server /\ Renegotiators \subseteq Ends /\ Closers \subseteq Ends
ASSUME PermitsAssumption == Permits \subseteq [Ends -> BOOLEAN]
ASSUME FlagsAssumption == Datagrams \in BOOLEAN /\ Revocable \in BOOLEAN
ASSUME BuildsAssumption == Builds \subseteq BOOLEAN
ASSUME RecordAssumption == RecordSize \in Nat /\ RecordSize > 1
ASSUME BoundsAssumption == MaxGen \in Nat \ {0} /\ MaxData \in Nat

VARIABLES
    repaired,   \* do push() and vec_push() return the size, and is the session pointer set?
    crashed,    \* the ends whose program the certificate callback has brought down
    state,      \* _state
    pending,    \* is a listener of stateChanged running, with handleHandshake() to follow?
    current,    \* currentPacket
    permitted,  \* is the peer's fingerprint in the context's _permissiblePeers?
    awaits,     \* gnutls: the flight the handshake waits for
    gen,        \* gnutls: key epoch in use
    seen,       \* gnutls: records accepted, for replay detection
    held,       \* gnutls: a handshake record kept for the next gnutls_handshake
    unsent,     \* gnutls: bytes of the last record that it takes for unsent
    net,        \* datagrams written to each end's link; when the link repeats and
                \* loses, all of them: each may come any number of times, or never
    sent,       \* history: packets written
    delivered,  \* history: packets propagated, named by their position
    asked,      \* history: the ends whose owner called close()
    admitted,   \* history: last epoch whose peer certificate was a permissible one
    cause       \* history: the error fail() was called with

appVars == <<state, pending, current, permitted>>
gnutlsVars == <<awaits, gen, seen, held>>
history == <<sent, delivered, asked, admitted, cause>>
program == <<repaired, crashed>>
vars == <<appVars, gnutlsVars, unsent, net, history, program>>

Other(e) == IF e = Client THEN Server ELSE Client

Flights == {"ClientHello", "ServerHello", "ClientFinished", "ServerFinished"}
States == {"Invalid", "Opening", "Open", "Renegotiating", "Closed", "Aborted"}
Errors == {"none", "AGAIN", "SESSION_EOF", "CERTIFICATE_ERROR"}

Message(type, g) == [type |-> type, gen |-> g, n |-> 0]
NoPacket == Message("none", 0)
Data(g, k) == [type |-> "data", gen |-> g, n |-> k]
Junk == Message("junk", 0)  \* a datagram that is no record
Messages ==
    [type : Flights \cup {"HelloRequest", "data", "bye", "junk"},
     gen : 0 .. MaxGen + 1, n : 0 .. MaxData]

Init ==
    /\ repaired \in Builds
    /\ crashed = {}
    /\ state = [e \in Ends |-> "Invalid"]
    /\ pending = [e \in Ends |-> FALSE]
    /\ current = [e \in Ends |-> NoPacket]
    /\ permitted \in Permits
    /\ awaits = [e \in Ends |-> IF e = Client THEN "nothing" ELSE "ClientHello"]
    /\ gen = [e \in Ends |-> 0]
    /\ seen = [e \in Ends |-> {}]
    /\ held = [e \in Ends |-> NoPacket]
    /\ unsent = [e \in Ends |-> 0]
    /\ net = [e \in Ends |-> <<>>]
    /\ sent = [e \in Ends |-> 0]
    /\ delivered = [e \in Ends |-> <<>>]
    /\ asked = {}
    /\ admitted = [e \in Ends |-> 0]
    /\ cause = [e \in Ends |-> "none"]

-----------------------------------------------------------------------------
(* gnutls. *)

\* A flight of the handshake for epoch g travels under the keys of g - 1.
Epoch(m) == IF m.type \in Flights THEN m.gen - 1 ELSE m.gen

\* Is there a record that passes the epoch and replay tests?
Accepts(e, m) == m \notin {NoPacket, Junk} /\ m \notin seen[e] /\ Epoch(m) = gen[e]

\* A client that has sent its Finished writes under the new keys already.
WriteEpoch(e) == gen[e] + (IF awaits[e] = "ServerFinished" THEN 1 ELSE 0)

\* Before anything else, a call that sends pushes what it takes for unsent.
Resent(e) == IF repaired \/ unsent[e] = 0 THEN <<>> ELSE <<Junk>>

\* push() reports one byte of it: the call gets no further than AGAIN.
Stalls(e) == ~repaired /\ unsent[e] > 1

\* gnutls_handshake gets as far as reading, not stopped by a push of its own.
Receives(e) == repaired \/ (unsent[e] <= 1 /\ awaits[e] # "nothing")

\* Mutant: the result of _permissiblePeers.count() the wrong way round.
InvertedVerify(e) == ~permitted[e]

\* gnutls_certificate_verify accepts the peer's certificate.
CertificateVerify(e) == permitted[e]

\* gnutls_handshake comes upon the peer's certificate and calls
\* gnutls_certificate_verify, which follows a null pointer.
Crashes(e, m) ==
    /\ ~repaired
    /\ Accepts(e, m)
    /\ m.type = awaits[e] /\ m.type \in {"ServerHello", "ClientFinished"}

\* gnutls_handshake, reading record m if there is one: its result, what it
\* sends, the flight it then waits for, and the epoch.
GnutlsHandshake(e, m) ==
    LET g == gen[e] + 1
        waiting == IF awaits[e] = "nothing" THEN "ServerHello" ELSE awaits[e]
        hello == IF awaits[e] = "nothing" THEN <<Message("ClientHello", g)>> ELSE <<>>
        Result(ret, out, next, epoch) ==
            [ret |-> ret, out |-> Resent(e) \o hello \o out, awaits |-> next, gen |-> epoch]
        Gets(type) == m.type = type /\ type = waiting
    IN  IF Stalls(e)
        THEN [ret |-> "AGAIN", out |-> Resent(e), awaits |-> awaits[e], gen |-> gen[e]] ELSE
        IF ~Accepts(e, m) THEN Result("AGAIN", <<>>, waiting, gen[e]) ELSE
        CASE m.type = "data"     -> Result("GOT_APPLICATION_DATA", <<>>, waiting, gen[e])
          [] m.type = "bye"      -> Result("SESSION_EOF", <<>>, waiting, gen[e])
          [] Gets("ClientHello") ->
               Result("AGAIN", <<Message("ServerHello", g)>>, "ClientFinished", gen[e])
          [] (Gets("ServerHello") \/ Gets("ClientFinished")) /\ ~CertificateVerify(e) ->
               Result("CERTIFICATE_ERROR", <<>>, waiting, gen[e])
          [] Gets("ServerHello") /\ CertificateVerify(e) ->
               Result("AGAIN", <<Message("ClientFinished", g)>>, "ServerFinished", gen[e])
          [] Gets("ClientFinished") /\ CertificateVerify(e) ->
               Result("SUCCESS", <<Message("ServerFinished", g)>>, "ClientHello", g)
          [] Gets("ServerFinished") -> Result("SUCCESS", <<>>, "nothing", g)
          [] OTHER                  -> Result("AGAIN", <<>>, waiting, gen[e])

\* gnutls_record_recv: a hello in an open session asks for a new handshake.
GnutlsRecordRecv(e, m) ==
    IF ~Accepts(e, m) THEN "AGAIN" ELSE
    CASE m.type = "data"                                   -> "DATA"
      [] m.type = "bye"                                    -> "EOF"
      [] m.type = IF e = Client THEN "HelloRequest" ELSE "ClientHello" -> "REHANDSHAKE"
      [] OTHER                                             -> "AGAIN"

\* The datagrams one end's gnutls pushes, of which push() reports a byte of the
\* last, and the one it has read.
Exchange(e, rest, out) ==
    /\ net' = [net EXCEPT ![e] = rest, ![Other(e)] = @ \o out]
    /\ unsent' = [unsent EXCEPT ![e] =
                     IF repaired \/ out = <<>> THEN @
                     ELSE IF out[Len(out)] = Junk THEN @ - 1 ELSE RecordSize - 1]

\* Mutant: gnutls_bye forgotten.
NoBye(e) == <<>>

\* gnutls_bye(session, GNUTLS_SHUT_WR)
Bye(e) == Resent(e) \o (IF Stalls(e) THEN <<>> ELSE <<Message("bye", WriteEpoch(e))>>)

-----------------------------------------------------------------------------
(* The session's handlers. *)

\* Mutant: handleHandshake without the break of case GNUTLS_E_AGAIN.
FallThrough(e, ret) ==
    CASE ret = "GOT_APPLICATION_DATA"  -> state[e]
      [] ret \in {"AGAIN", "SUCCESS"}  -> "Open"
      [] OTHER                         -> "Aborted"

\* Mutant: handleHandshake without case GNUTLS_E_GOT_APPLICATION_DATA.
DataIsFatal(e, ret) ==
    CASE ret = "AGAIN"   -> state[e]
      [] ret = "SUCCESS" -> "Open"
      [] OTHER           -> "Aborted"

\* The switch of handleHandshake: AGAIN and application data leave _state alone.
AfterHandshake(e, ret) ==
    CASE ret \in {"AGAIN", "GOT_APPLICATION_DATA"} -> state[e]
      [] ret = "SUCCESS"                           -> "Open"
      [] OTHER                                     -> "Aborted"

\* Mutant: application data during a handshake is ignored.
IgnoreData(e, ret, m) == delivered

\* handleData called for GOT_APPLICATION_DATA: gnutls_record_recv returns the
\* data that the handshake came upon, and propagate() raises the read signal.
HandshakeData(e, ret, m) ==
    IF ret = "GOT_APPLICATION_DATA"
    THEN [delivered EXCEPT ![e] = Append(@, m.n)]
    ELSE delivered

\* handleHandshake() with record m to read, rest being the datagrams still on
\* their way.
HandleHandshake(e, m, rest) ==
    LET r == GnutlsHandshake(e, m)
        next == AfterHandshake(e, r.ret)
        certified == m # NoPacket /\ m.type \in {"ServerHello", "ClientFinished"}
    IN  /\ ~Crashes(e, m)
        /\ Exchange(e, rest, r.out)
        /\ state' = [state EXCEPT ![e] = next]
        /\ delivered' = HandshakeData(e, r.ret, m)
        /\ awaits' = [awaits EXCEPT ![e] = r.awaits]
        /\ gen' = [gen EXCEPT ![e] = r.gen]
        /\ seen' = [seen EXCEPT ![e] = @ \cup ({m} \ {NoPacket})]
        /\ admitted' = [admitted EXCEPT ![e] =
                           IF certified /\ permitted[e] /\ r.awaits # awaits[e]
                           THEN m.gen ELSE @]
        /\ cause' = [cause EXCEPT ![e] = IF next = "Aborted" /\ state[e] # next THEN r.ret ELSE @]
        /\ UNCHANGED <<permitted, sent, asked, program>>

\* handleHandshake() does not return.
Crash(e, m, rest) ==
    /\ Crashes(e, m)
    /\ crashed' = crashed \cup {e}
    /\ Exchange(e, rest, Resent(e))
    /\ UNCHANGED <<appVars, gnutlsVars, history, repaired>>

\* handleData() with record m to read.
HandleData(e, m, rest) ==
    LET ret == GnutlsRecordRecv(e, m)
    IN  /\ \/ /\ ret = "DATA"
              /\ delivered' = [delivered EXCEPT ![e] = Append(@, m.n)]
              /\ Exchange(e, rest, <<>>)
              /\ UNCHANGED <<state, pending, held, cause>>
           \/ /\ ret = "EOF"
              /\ Exchange(e, rest, Bye(e))
              /\ state' = [state EXCEPT ![e] = "Closed"]
              /\ UNCHANGED <<pending, held, delivered, cause>>
           \/ /\ ret = "REHANDSHAKE"
              /\ state' = [state EXCEPT ![e] = "Renegotiating"]
              /\ pending' = [pending EXCEPT ![e] = TRUE]
              /\ held' = [held EXCEPT ![e] = IF e = Server THEN m ELSE NoPacket]
              /\ Exchange(e, rest, <<>>)
              /\ UNCHANGED <<delivered, cause>>
           \/ /\ ret = "AGAIN"
              /\ state' = [state EXCEPT ![e] = "Aborted"]
              /\ cause' = [cause EXCEPT ![e] = ret]
              /\ Exchange(e, rest, <<>>)
              /\ UNCHANGED <<pending, held, delivered>>
        /\ seen' = [seen EXCEPT ![e] = IF held'[e] = m THEN @ ELSE @ \cup {m}]
        /\ UNCHANGED <<current, permitted, awaits, gen, sent, asked, admitted, program>>

\* Mutant: every state but Open and Invalid takes packets for the handshake.
NotOpenShakes(e) == state[e] \notin {"Open", "Invalid"}

\* Mutant: a session that renegotiates takes no packets.
OnlyOpeningShakes(e) == state[e] = "Opening"

\* handlePacket's first test.
Shakes(e) == state[e] \in {"Opening", "Renegotiating"}

\* Mutant: a packet that comes before open() is dropped when handlePacket throws.
DropEarly(e, m) == [current EXCEPT ![e] = NoPacket]

\* handlePacket throws, or gnutls does not come to pull: the packet stays in
\* currentPacket.
KeepEarly(e, m) == [current EXCEPT ![e] = m]

\* readPacket: the packet replaces currentPacket, and gnutls pulls it at once
\* unless handlePacket throws.
ReadPacket(e, i) ==
    /\ ~pending[e]
    /\ LET m == net[e][i]
           rest == IF Datagrams THEN net[e] ELSE Tail(net[e])
       IN  \/ /\ Shakes(e) /\ Receives(e)
              /\ HandleHandshake(e, m, rest)
              /\ current' = [current EXCEPT ![e] = NoPacket]
              /\ UNCHANGED <<pending, held>>
           \/ /\ Shakes(e) /\ Receives(e)
              /\ Crash(e, m, rest)
           \/ /\ Shakes(e) /\ ~Receives(e)
              /\ HandleHandshake(e, NoPacket, rest)
              /\ current' = KeepEarly(e, m)
              /\ UNCHANGED <<pending, held>>
           \/ /\ ~Shakes(e)
              /\ state[e] = "Open"
              /\ HandleData(e, m, rest)
           \/ /\ ~Shakes(e)
              /\ state[e] # "Open"
              /\ current' = KeepEarly(e, m)
              /\ Exchange(e, rest, <<>>)
              /\ UNCHANGED <<state, pending, permitted, gnutlsVars, history, program>>

\* A listener of stateChanged has returned to open() or handleData(), which
\* go on to handleHandshake() whatever the listener did to the session.
Continue(e) ==
    /\ pending[e]
    /\ LET m == IF held[e] # NoPacket THEN held[e] ELSE current[e]
       IN  \/ /\ Receives(e)
              /\ HandleHandshake(e, m, net[e])
              /\ pending' = [pending EXCEPT ![e] = FALSE]
              /\ held' = [held EXCEPT ![e] = NoPacket]
              /\ current' = IF held[e] # NoPacket THEN current ELSE [current EXCEPT ![e] = NoPacket]
           \/ /\ Receives(e)
              /\ Crash(e, m, net[e])
           \/ /\ ~Receives(e)
              /\ HandleHandshake(e, NoPacket, net[e])
              /\ pending' = [pending EXCEPT ![e] = FALSE]
              /\ UNCHANGED <<held, current>>

Open(e) ==
    /\ state[e] = "Invalid"
    /\ state' = [state EXCEPT ![e] = "Opening"]
    /\ pending' = [pending EXCEPT ![e] = TRUE]
    /\ UNCHANGED <<current, permitted, gnutlsVars, unsent, net, history, program>>

\* gnutls_rehandshake sends a HelloRequest for a server and refuses a client,
\* which renegotiate() does not notice.
Renegotiate(e) ==
    /\ e \in Renegotiators
    /\ gen[e] < MaxGen
    /\ state[e] = "Open"
    /\ Exchange(e, net[e], IF e = Server THEN <<Message("HelloRequest", gen[e])>> ELSE <<>>)
    /\ state' = [state EXCEPT ![e] = "Renegotiating"]
    /\ UNCHANGED <<pending, current, permitted, gnutlsVars, history, program>>

\* close(), from the owner or from inside a stateChanged listener.
Close(e) ==
    /\ e \in Closers
    /\ state[e] \notin {"Invalid", "Closed", "Aborted"}
    /\ Exchange(e, net[e], Bye(e))
    /\ state' = [state EXCEPT ![e] = "Closed"]
    /\ asked' = asked \cup {e}
    /\ UNCHANGED <<pending, current, permitted, gnutlsVars, sent, delivered, admitted, cause, program>>

\* In an open session gnutls_record_send is not stopped by push() and takes the
\* packet; another error would be thrown at the caller and leave no trace here.
Write(e) ==
    /\ state[e] = "Open"
    /\ sent[e] < MaxData
    /\ sent' = [sent EXCEPT ![e] = @ + 1]
    /\ Exchange(e, net[e], <<Data(WriteEpoch(e), sent[e] + 1)>>)
    /\ UNCHANGED <<appVars, gnutlsVars, delivered, asked, admitted, cause, program>>

\* CryptoContext::permissiblePeers(set).
PermissiblePeers(e) ==
    /\ Revocable
    /\ permitted' = [permitted EXCEPT ![e] = ~@]
    /\ UNCHANGED <<state, pending, current, gnutlsVars, unsent, net, history, program>>

\* The datagrams that may come next.
Arriving(e) == {i \in 1 .. Len(net[e]) : Datagrams \/ i = 1}

Next ==
    \E e \in Ends \ crashed :
        \/ Open(e)
        \/ Continue(e)
        \/ Renegotiate(e)
        \/ Close(e)
        \/ Write(e)
        \/ PermissiblePeers(e)
        \/ \E i \in Arriving(e) : ReadPacket(e, i)

Spec == Init /\ [][Next]_vars

\* A listener returns, and the link hands on what it has.
Fairness ==
    \A e \in Ends :
        /\ WF_vars(e \notin crashed /\ Continue(e))
        /\ WF_vars(e \notin crashed /\ \E i \in Arriving(e) : ReadPacket(e, i))

FairSpec == Spec /\ Fairness

-----------------------------------------------------------------------------
(* Properties. *)

\* Every variable of the two sessions has its type.
TypeOK ==
    /\ repaired \in Builds
    /\ crashed \subseteq Ends
    /\ unsent \in [Ends -> 0 .. RecordSize - 1]
    /\ state \in [Ends -> States]
    /\ pending \in [Ends -> BOOLEAN]
    /\ \A e \in Ends : current[e] \in Messages \cup {NoPacket}
    /\ permitted \in [Ends -> BOOLEAN]
    /\ awaits \in [Ends -> Flights \cup {"nothing"}]
    /\ gen \in [Ends -> 0 .. MaxGen]
    /\ \A e \in Ends : seen[e] \subseteq Messages
    /\ \A e \in Ends : held[e] \in Messages \cup {NoPacket}
    /\ \A e \in Ends : \A i \in 1 .. Len(net[e]) : net[e][i] \in Messages
    /\ sent \in [Ends -> 0 .. MaxData]
    /\ \A e \in Ends : \A i \in 1 .. Len(delivered[e]) : delivered[e][i] \in 1 .. MaxData
    /\ asked \subseteq Ends
    /\ admitted \in [Ends -> 0 .. MaxGen]
    /\ cause \in [Ends -> Errors]

\* A session that is Open runs under keys of a handshake in which the peer's
\* certificate was verified while its fingerprint was in _permissiblePeers:
\* a peer removed from the set does not survive a renegotiation.
OpenIsAdmitted ==
    \A e \in Ends : state[e] = "Open" => gen[e] > 0 /\ admitted[e] = gen[e]

\* Two sessions that are Open at the same time use the same keys, whatever
\* handshake flights were lost, repeated or reordered on the way.
EpochsAgree ==
    state[Client] = "Open" /\ state[Server] = "Open" => gen[Client] = gen[Server]

\* A session that is Closed or Aborted never becomes usable again: not by a
\* late packet, and not when close() was called from a listener of the very
\* state change after which open() or handleData() goes on to shake hands.
EndsForGood ==
    [][\A e \in Ends : state[e] \in {"Closed", "Aborted"} => state'[e] \in {"Closed", "Aborted"}]_vars

\* GNUTLS_E_AGAIN is not fatal: crypto.hpp lists it first of the "non-fatal
\* errors" of a session.
AgainIsNonFatal == \A e \in Ends : cause[e] # "AGAIN"

\* As the code stands no session becomes Open, nothing is written and nothing
\* propagated, whatever the link does and however often the flights come: the
\* callback brings the client's program down on the first certificate.
OpensOnlyRepaired ==
    \A e \in Ends : state[e] = "Open" \/ sent[e] > 0 \/ delivered[e] # <<>> => repaired

\* Closed or Aborted.
Ended == \E e \in Ends : state[e] \in {"Closed", "Aborted"}

\* A client that has called renegotiate() on its own: gnutls_rehandshake did
\* nothing for it, and no packet has come to make handlePacket shake hands.
ClientWaits == state[Client] = "Renegotiating" /\ awaits[Client] = "nothing" /\ net[Client] = <<>>

\* Once both ends have called open(), both sessions become Open, the packets
\* that came before open() included, unless one ends or the client waits for
\* an answer to a request that renegotiate() never sent.
OpeningCompletes ==
    (\A e \in Ends : state[e] # "Invalid")
        ~> (\A e \in Ends : state[e] = "Open") \/ Ended \/ ClientWaits

\* A client whose renegotiate() gnutls refused is not stuck for good: whatever
\* packet comes next makes handlePacket shake hands, and the handshake that it
\* starts completes.
ClientRecovers ==
    (state[Client] = "Renegotiating" /\ net[Client] # <<>>)
        ~> state[Client] # "Renegotiating" \/ Ended

\* A packet that write() accepted is propagated by the peer, in a handshake or
\* out of one, unless a session ends first.
DataArrives ==
    \A e \in Ends :
        \A k \in 1 .. MaxData : sent[e] >= k ~> Len(delivered[Other(e)]) >= k \/ Ended

\* A session that was closed with keys in use does not leave its peer's
\* running: the close_notify ends it too, in whatever stage of a handshake it
\* finds it.  (Closed during its first handshake, before the peer has called
\* open(), a session does leave the peer in Opening: currentPacket keeps only
\* the last of the packets that come too early.)
CloseReachesPeer ==
    \A e \in Ends :
        state[e] = "Closed" /\ gen[e] > 0 ~> state[Other(e)] \in {"Closed", "Aborted"}

\* What the code above sees of a session's state.
Phase(s) ==
    CASE s = "Invalid"                         -> "fresh"
      [] s \in {"Opening", "Renegotiating"}    -> "shaking"
      [] s = "Open"                            -> "open"
      [] s = "Closed"                          -> "closed"
      [] s = "Aborted"                         -> "aborted"

Stream == INSTANCE SessionStream
    WITH Packets <- 1 .. MaxData, Ordered <- ~Datagrams,
         phase <- [e \in Ends |-> Phase(state[e])],
         sent <- [e \in Ends |-> [i \in 1 .. sent[e] |-> i]],
         got <- delivered

\* The pair of sessions implements SessionStream: what is propagated was
\* written by the peer while it was Open, each packet once and, over a link
\* that keeps order, without a gap also across renegotiations; nothing is
\* propagated outside a running session; and a session is Closed only by its
\* owner's close() or by the peer's.
ImplementsStream == Stream!StreamSpec

=============================================================================
