----------------------------- MODULE SessionStream -----------------------------
(***************************************************************************)
(* What a pair of CryptoSessions promises the code above them, whatever    *)
(* handshakes run below: packets are written only while a session is open, *)
(* each is handed to the peer at most once, in order if the link keeps     *)
(* order, none before the session began or after it ended, and a session   *)
(* ends for good: by close(), by the peer's close() or by a failure.       *)
(***************************************************************************)
EXTENDS Naturals, Sequences

CONSTANTS
    Ends,     \* the two sessions
    Packets,  \* what may be written
    Ordered   \* does the link below keep order?

VARIABLES
    phase,  \* what each session's owner sees of its state
    sent,   \* packets written by each end
    got,    \* positions, in the peer's sent, of the packets handed to each end's reader
    asked   \* the ends whose owner called close()

streamVars == <<phase, sent, got, asked>>

Phases == {"fresh", "shaking", "open", "closed", "aborted"}

Peer(e) == CHOOSE p \in Ends : p # e

StreamInit ==
    /\ phase = [e \in Ends |-> "fresh"]
    /\ sent = [e \in Ends |-> <<>>]
    /\ got = [e \in Ends |-> <<>>]
    /\ asked = {}

\* open()
Begin(e) ==
    /\ phase[e] = "fresh"
    /\ phase' = [phase EXCEPT ![e] = "shaking"]
    /\ UNCHANGED <<sent, got, asked>>

\* A handshake completes: it takes two.
Establish(e) ==
    /\ phase[e] = "shaking"
    /\ phase[Peer(e)] # "fresh"
    /\ phase' = [phase EXCEPT ![e] = "open"]
    /\ UNCHANGED <<sent, got, asked>>

\* renegotiate(), or the peer's wish to do so.
Reshake(e) ==
    /\ phase[e] = "open"
    /\ phase' = [phase EXCEPT ![e] = "shaking"]
    /\ UNCHANGED <<sent, got, asked>>

Write(e, p) ==
    /\ phase[e] = "open"
    /\ sent' = [sent EXCEPT ![e] = Append(@, p)]
    /\ UNCHANGED <<phase, got, asked>>

\* Positions of the peer's packets that may come next.
Arriving(e) ==
    {i \in 1 .. Len(sent[Peer(e)]) :
        /\ \A k \in 1 .. Len(got[e]) : got[e][k] # i
        /\ Ordered => i = Len(got[e]) + 1}

Deliver(e, i) ==
    /\ phase[e] \in {"shaking", "open"}
    /\ i \in Arriving(e)
    /\ got' = [got EXCEPT ![e] = Append(@, i)]
    /\ UNCHANGED <<phase, sent, asked>>

\* close()
Close(e) ==
    /\ phase[e] \in {"shaking", "open"}
    /\ phase' = [phase EXCEPT ![e] = "closed"]
    /\ asked' = asked \cup {e}
    /\ UNCHANGED <<sent, got>>

HearClose(e) ==
    /\ phase[e] = "open"
    /\ Peer(e) \in asked
    /\ phase' = [phase EXCEPT ![e] = "closed"]
    /\ UNCHANGED <<sent, got, asked>>

\* fail(), also on the way out of an open() whose listener closed the session.
Fail(e) ==
    /\ phase[e] # "fresh"
    /\ phase' = [phase EXCEPT ![e] = "aborted"]
    /\ UNCHANGED <<sent, got, asked>>

StreamNext ==
    \E e \in Ends :
        \/ Begin(e) \/ Establish(e) \/ Reshake(e)
        \/ Close(e) \/ HearClose(e) \/ Fail(e)
        \/ \E p \in Packets : Write(e, p)
        \/ \E i \in Arriving(e) : Deliver(e, i)

StreamSpec == StreamInit /\ [][StreamNext]_streamVars

=============================================================================
