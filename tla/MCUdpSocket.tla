----------------------------- MODULE MCUdpSocket -----------------------------
(* Small instances of UdpSocket. *)
EXTENDS UdpSocket

CONSTANTS p1, p2, p3, p4

MCPeers == {p1, p2, p3, p4}
MCUnreachable == {p4}

=============================================================================
