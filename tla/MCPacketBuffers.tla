--------------------------- MODULE MCPacketBuffers ---------------------------
(* Small instances of PacketBuffers. *)
EXTENDS PacketBuffers, TLC

CONSTANTS b1, b2, b3, b4, b5, b6

MCBlocks == {b1, b2, b3, b4, b5, b6}

\* Blocks are alike.
MCSymmetry == Permutations(MCBlocks)

\* Every handler gives up the pointer it wraps; handleData as it stands.
MCNobody == {}
MCHandleData == {"handleData"}

=============================================================================
