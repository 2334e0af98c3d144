-------------------------------- MODULE Packet --------------------------------
(***************************************************************************)
(* Packet (src/include/Packet.hpp, src/common/Packet.cpp): a window,       *)
(* offset and length, on a block of memory that packets may share.         *)
(***************************************************************************)
EXTENDS Naturals, Sequences

\* The constructors: whether the packet captures the block (ArrayDelete) or
\* not (NullDelete, the tag NoCapture) is what its last owner will do with it.
MakePacket(data, offset, length) ==
    [data |-> data, offset |-> offset, length |-> length, captures |-> TRUE]

NoCapture(packet) == [packet EXCEPT !.captures = FALSE]

\* Mutant: skip() without its test of the length.
SkipPast(packet, bytes) ==
    [packet EXCEPT !.offset = @ + bytes,
                   !.length = IF bytes > @ THEN 0 ELSE @ - bytes]

\* The two methods clamp their argument to the length.
Skip(packet, bytes) ==
    LET n == IF bytes > packet.length THEN packet.length ELSE bytes
    IN  [packet EXCEPT !.offset = @ + n, !.length = @ - n]

Truncate(packet, length) ==
    [packet EXCEPT !.length = IF length > @ THEN @ ELSE length]

\* The bytes from data() on, for a block that is a sequence of bytes.
Bytes(packet) == SubSeq(packet.data, packet.offset + 1, packet.offset + packet.length)

=============================================================================
