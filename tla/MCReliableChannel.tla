-------------------------- MODULE MCReliableChannel --------------------------
(* Small instances of ReliableChannel. *)
EXTENDS ReliableChannel

CONSTANTS a, b

MCPeers == {a, b}

\* One direction long enough for the sequence numbers to wrap, one packet the
\* other way.
MCWrap == [e \in {a, b} |-> IF e = a THEN 4 ELSE 1]

=============================================================================
