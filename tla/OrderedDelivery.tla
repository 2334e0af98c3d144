--------------------------- MODULE OrderedDelivery ---------------------------
(***************************************************************************)
(* What a pair of reliable channel ends promises its users, without        *)
(* sequence numbers, timers or a network: of the packets sent by one end,  *)
(* numbers First to Last reach the other end in order and once each, and a *)
(* packet is confirmed to its sender only after that.  A channel without   *)
(* defects has First = 1 and no Last.                                      *)
(***************************************************************************)
EXTENDS Naturals, Sequences

CONSTANTS Peers, First, Last

VARIABLES
    sent,   \* how many packets each end has sent
    got,    \* the packets each end has received, named by their position
    acked   \* how many of its packets have been confirmed to each end

absVars == <<sent, got, acked>>

AbsInit ==
    /\ sent = [e \in Peers |-> 0]
    /\ got = [e \in Peers |-> <<>>]
    /\ acked = [e \in Peers |-> 0]

\* One packet at a time, as long as the packets are still delivered.
Send(e) ==
    /\ acked[e] < Last => sent[e] = acked[e]
    /\ sent' = [sent EXCEPT ![e] = @ + 1]
    /\ UNCHANGED <<got, acked>>

Deliver(e, from) ==
    LET n == First + Len(got[e])
    IN  /\ n <= sent[from]
        /\ n <= Last
        /\ got' = [got EXCEPT ![e] = Append(@, n)]
        /\ UNCHANGED <<sent, acked>>

Confirm(e, to) ==
    LET n == acked[e] + 1
    IN  /\ n <= Last => n <= sent[e]
        /\ n \in First .. Last => n < First + Len(got[to])
        /\ acked' = [acked EXCEPT ![e] = n]
        /\ UNCHANGED <<sent, got>>

AbsNext ==
    \E e \in Peers :
        \/ Send(e)
        \/ \E p \in Peers : p # e /\ (Deliver(e, p) \/ Confirm(e, p))

AbsSpec == AbsInit /\ [][AbsNext]_absVars

=============================================================================
