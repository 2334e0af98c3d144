----------------------------- MODULE MCTunnelPath -----------------------------
(* Small instances of TunnelPath. *)
EXTENDS TunnelPath

CONSTANTS a, b

MCHosts == {a, b}

\* A packet of one byte, and one that begins like a header and is as long as
\* the sizes allow.
MCPayloads == {<<7>>, <<0, 130>>}

MCAllRepairs == {"tun", "propagate"}

=============================================================================
