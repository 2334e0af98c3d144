---------------------------- MODULE Serialization ----------------------------
(***************************************************************************)
(* ipc::serialize and ipc::deserialize.  Serializer::run walks the object  *)
(* tree twice, first to measure it and then to fill a buffer of that size; *)
(* Deserializer walks the same tree over the Archive.                      *)
(*                                                                         *)
(* A tree is the sequence of its leaves in the order the two walks visit   *)
(* them: the overloads of push and pop for PODs, classes and arrays only   *)
(* concatenate (that of pop for an array of objects cannot be              *)
(* instantiated).  A leaf is a POD, an IPAddress or a file descriptor.     *)
(* Bytes are counted in cells, the size of the smallest POD.  The second   *)
(* of two walks over one tree visits the same leaves.                      *)
(***************************************************************************)
EXTENDS Integers, Sequences, SequencesExt

CONSTANTS
    Words,       \* values of a POD
    Addresses4,  \* in_addr values, as sequences of cells
    Addresses6,  \* in6_addr values, longer ones
    Fds,         \* file descriptors
    MaxLeaves,   \* bound: leaves in a tree
    StackValues  \* what Deserializer's offsets may hold before any assignment

ASSUME SizesAssumption ==
    \A A \in {Addresses4, Addresses6} : A # {} /\ \A a, b \in A : Len(a) = Len(b)
ASSUME ValuesAssumption ==
    Words \subseteq Nat /\ Addresses4 \cup Addresses6 \subseteq Seq(Nat) /\ MaxLeaves \in Nat
ASSUME StackAssumption == StackValues \subseteq Nat /\ StackValues # {}

VARIABLES
    item,        \* the tree
    phase,       \* which walk is under way
    next,        \* the leaf the walk visits next
    buffer,      \* Serializer::buffer_, then Archive::data_
    offset,      \* Serializer::offset_, then Archive::length_
    fds,         \* Serializer::fds_, then Archive::fds_
    byteOffset,  \* Deserializer::byteOffset_
    fdOffset,    \* Deserializer::fdOffset_
    result,      \* the leaves deserialized
    zeroed       \* history: did the reader's offsets happen to start at 0?

vars == <<item, phase, next, buffer, offset, fds, byteOffset, fdOffset, result, zeroed>>

IPv4 == 2    \* AF_INET
IPv6 == 10   \* AF_INET6
Unset == -1  \* a cell of new uint8_t[], or one outside the buffer

Pod(v) == [type |-> "pod", value |-> v]
IPAddress(f, a) == [type |-> "ip", family |-> f, addr |-> a]
Fd(d) == [type |-> "fd", fd |-> d]

Leaves ==
    {Pod(v) : v \in Words} \cup {Fd(d) : d \in Fds}
    \cup {IPAddress(IPv4, a) : a \in Addresses4}
    \cup {IPAddress(IPv6, a) : a \in Addresses6}

\* Serializer() and the start of run(): buffer_ is null, offset_ is 0.
Init ==
    /\ item \in SeqOf(Leaves, MaxLeaves)
    /\ phase = "measure"
    /\ next = 1
    /\ buffer = <<>>
    /\ offset = 0
    /\ fds = <<>>
    /\ byteOffset = 0
    /\ fdOffset = 0
    /\ result = <<>>
    /\ zeroed = TRUE

-----------------------------------------------------------------------------
(* Serializer. *)

\* What the writes of a leaf copy: an IPAddress is its family and its address.
Cells(leaf) ==
    CASE leaf.type = "pod" -> <<leaf.value>>
      [] leaf.type = "ip" -> <<leaf.family>> \o leaf.addr
      [] leaf.type = "fd" -> <<>>

\* The buffer after memcpy(buffer + at, cells).
Copied(cells, at) ==
    [i \in DOMAIN buffer \cup (at + 1 .. at + Len(cells)) |->
        IF i > at /\ i <= at + Len(cells) THEN cells[i - at] ELSE buffer[i]]

PushRaw(cells) ==
    /\ buffer' = IF phase = "fill" THEN Copied(cells, offset) ELSE buffer
    /\ offset' = offset + Len(cells)

\* write() or, for a descriptor, writeFd() of the next leaf, on either pass.
Write ==
    LET leaf == item[next]
    IN  /\ phase \in {"measure", "fill"}
        /\ next <= Len(item)
        /\ PushRaw(Cells(leaf))
        /\ fds' = IF leaf.type = "fd" THEN Append(fds, leaf.fd) ELSE fds
        /\ next' = next + 1
        /\ UNCHANGED <<item, phase, byteOffset, fdOffset, result, zeroed>>

\* Mutant: offset_ is not reset between the passes.
KeepOffset == offset

\* offset_ = 0.
ResetOffset == 0

\* run() between the passes: a buffer of the measured size.
StartFill ==
    /\ phase = "measure"
    /\ next > Len(item)
    /\ phase' = "fill"
    /\ next' = 1
    /\ buffer' = [i \in 1 .. offset |-> Unset]
    /\ offset' = ResetOffset
    /\ UNCHANGED <<item, fds, byteOffset, fdOffset, result, zeroed>>

-----------------------------------------------------------------------------
(* Deserializer. *)

\* run() has returned the Archive and a Deserializer is constructed on it,
\* whose constructor sets neither offset.
StartRead ==
    /\ phase = "fill"
    /\ next > Len(item)
    /\ phase' = "read"
    /\ next' = 1
    /\ byteOffset' \in StackValues
    /\ fdOffset' \in StackValues
    /\ zeroed' = (byteOffset' = 0 /\ fdOffset' = 0)
    /\ UNCHANGED <<item, buffer, offset, fds, result>>

\* The n cells that pop_raw copies; it checks no length.
Peek(at, n) == [i \in 1 .. n |-> IF at + i <= Len(buffer) THEN buffer[at + i] ELSE Unset]

\* Mutant: every address is read as an in_addr.
SizeOf4(family) == Len(CHOOSE a \in Addresses4 : TRUE)

\* How many cells of address follow a family; none if it is neither.
AddressSize(family) ==
    CASE family = IPv4 -> Len(CHOOSE a \in Addresses4 : TRUE)
      [] family = IPv6 -> Len(CHOOSE a \in Addresses6 : TRUE)
      [] OTHER -> 0

\* read() of a leaf of the tree's type.
ReadPod ==
    /\ result' = Append(result, Pod(Peek(byteOffset, 1)[1]))
    /\ byteOffset' = byteOffset + 1
    /\ UNCHANGED <<fdOffset, phase>>

ReadIPAddress ==
    LET family == Peek(byteOffset, 1)[1]
        size == AddressSize(family)
    IN  /\ result' = Append(result, IPAddress(family, Peek(byteOffset + 1, size)))
        /\ byteOffset' = byteOffset + 1 + size
        /\ UNCHANGED <<fdOffset, phase>>

\* readFd(): fds().at() throws when the offset is outside.
ReadFd ==
    /\ fdOffset' = fdOffset + 1
    /\ IF fdOffset < Len(fds)
       THEN result' = Append(result, Fd(fds[fdOffset + 1])) /\ UNCHANGED phase
       ELSE phase' = "threw" /\ UNCHANGED result
    /\ UNCHANGED byteOffset

Read ==
    /\ phase = "read"
    /\ next <= Len(item)
    /\ CASE item[next].type = "pod" -> ReadPod
         [] item[next].type = "ip" -> ReadIPAddress
         [] item[next].type = "fd" -> ReadFd
    /\ next' = next + 1
    /\ UNCHANGED <<item, buffer, offset, fds, zeroed>>

Next == Write \/ StartFill \/ StartRead \/ Read

Spec == Init /\ [][Next]_vars

-----------------------------------------------------------------------------
(* Properties. *)

\* The second pass writes exactly the buffer the first one measured, whatever
\* the tree: never past its end, and no cell of the archive is left unset.
ArchiveFilled ==
    /\ phase = "fill" => offset <= Len(buffer)
    /\ phase = "read" => offset = Len(buffer) /\ \A i \in DOMAIN buffer : buffer[i] # Unset

\* The tree comes back from the archive leaf by leaf, the address family read
\* first deciding what is read next, and nothing throws, if the offsets that
\* the constructor of Deserializer leaves unset happened to be 0.
ReadBack == zeroed => phase # "threw" /\ result = SubSeq(item, 1, Len(result))

=============================================================================
