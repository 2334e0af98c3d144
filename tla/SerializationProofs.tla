-------------------------- MODULE SerializationProofs --------------------------
(***************************************************************************)
(* Proofs about Serialization for object trees of any size, any values and *)
(* any lengths of addresses.                                               *)
(*                                                                         *)
(* Where a leaf lies in the buffer is a sum over the leaves before it.     *)
(* The invariant says that there is a function at that has these sums as   *)
(* its values for the leaves the first pass has measured; each step of     *)
(* that pass extends it, and the later passes follow it.                   *)
(***************************************************************************)
EXTENDS Serialization, TLAPS

\* Every variable has its type.
Types ==
    /\ item \in Seq(Leaves)
    /\ phase \in {"measure", "fill", "read", "threw"}
    /\ next \in 1 .. Len(item) + 1
    /\ buffer \in Seq(Int)
    /\ offset \in Nat
    /\ fds \in Seq(Fds)
    /\ zeroed \in BOOLEAN

\* How many descriptors a leaf stands for.
FdCount(leaf) == IF leaf.type = "fd" THEN 1 ELSE 0

\* The leaves before the k-th, laid one behind the other: leaf i begins behind
\* cell at[i] and, if it is a descriptor, is number num[i] + 1 of these.
Layout(at, num, k) ==
    /\ at \in [1 .. k -> Nat] /\ num \in [1 .. k -> Nat]
    /\ at[1] = 0 /\ num[1] = 0
    /\ \A i \in 1 .. k - 1 :
        /\ at[i + 1] = at[i] + Len(Cells(item[i]))
        /\ num[i + 1] = num[i] + FdCount(item[i])
    /\ \A i, j \in 1 .. k : i <= j => at[i] <= at[j] /\ num[i] <= num[j]

\* How many leaves the first pass has measured, plus one.
Measured == IF phase = "measure" THEN next ELSE Len(item) + 1

\* The descriptors of the leaves measured are found by their numbers.
Stored(num) ==
    \A i \in 1 .. Measured - 1 :
        item[i].type = "fd" => num[i] + 1 <= Len(fds) /\ fds[num[i] + 1] = item[i].fd

\* The buffer holds the cells of leaf i.
Holds(at, i) == \A j \in 1 .. Len(Cells(item[i])) : buffer[at[i] + j] = Cells(item[i])[j]

\* The first pass has come to leaf next and written nothing.
Measuring(at, num) ==
    phase = "measure" => buffer = <<>> /\ offset = at[next] /\ Len(fds) = num[next] /\ result = <<>> /\ zeroed

\* The second pass has written the leaves before next and left no hole.
Filling(at) ==
    phase = "fill" =>
        /\ Len(buffer) = at[Len(item) + 1]
        /\ offset = at[next]
        /\ \A i \in 1 .. next - 1 : Holds(at, i)
        /\ \A c \in 1 .. offset : buffer[c] # Unset
        /\ result = <<>> /\ zeroed

\* The reader has restored the leaves before next from a buffer that is full,
\* unless the offsets it started with were not zeroed.
Reading(at, num) ==
    phase \in {"read", "threw"} =>
        /\ offset = Len(buffer) /\ Len(buffer) = at[Len(item) + 1]
        /\ \A i \in 1 .. Len(item) : Holds(at, i)
        /\ \A c \in 1 .. Len(buffer) : buffer[c] # Unset
        /\ zeroed => /\ phase # "threw"
                     /\ byteOffset = at[next] /\ fdOffset = num[next]
                     /\ result = SubSeq(item, 1, next - 1)

\* Each pass has come as far as next along the layout.
Laid(at, num) ==
    Layout(at, num, Measured) /\ Stored(num) /\ Measuring(at, num) /\ Filling(at) /\ Reading(at, num)

\* The inductive invariant.
IInv == Types /\ \E at, num : Laid(at, num)

-----------------------------------------------------------------------------
(* Leaves. *)

\* The three kinds of leaves.
LEMMA LeafKinds ==
    ASSUME NEW leaf \in Leaves
    PROVE  \/ leaf.type = "pod" /\ leaf = Pod(leaf.value) /\ leaf.value \in Nat
           \/ leaf.type = "fd" /\ leaf = Fd(leaf.fd) /\ leaf.fd \in Fds
           \/ /\ leaf.type = "ip" /\ leaf = IPAddress(leaf.family, leaf.addr)
              /\ leaf.family \in Nat /\ leaf.addr \in Seq(Nat)
              /\ AddressSize(leaf.family) = Len(leaf.addr)
<1>1. CASE \E v \in Words : leaf = Pod(v)
  BY <1>1, ValuesAssumption DEF Pod
<1>2. CASE \E d \in Fds : leaf = Fd(d)
  BY <1>2 DEF Fd
<1>3. ASSUME NEW A \in {Addresses4, Addresses6}, NEW a \in A
      PROVE  a \in Seq(Nat) /\ Len(a) = Len(CHOOSE x \in A : TRUE)
  <2>1. (CHOOSE x \in A : TRUE) \in A
    OBVIOUS
  <2> QED
    BY <2>1, SizesAssumption, ValuesAssumption
<1>4. CASE \E a \in Addresses4 : leaf = IPAddress(IPv4, a)
  <2>1. PICK a \in Addresses4 : leaf = IPAddress(IPv4, a)
    BY <1>4
  <2>2. leaf.type = "ip" /\ leaf.family = IPv4 /\ leaf.addr = a
    BY <2>1 DEF IPAddress
  <2>3. AddressSize(IPv4) = Len(CHOOSE x \in Addresses4 : TRUE)
    BY DEF AddressSize, IPv4, IPv6
  <2> QED
    <3>1. a \in Seq(Nat) /\ Len(a) = AddressSize(IPv4)
      BY <1>3, <2>3
    <3> QED
      BY <2>1, <2>2, <3>1 DEF IPv4
<1>5. CASE \E a \in Addresses6 : leaf = IPAddress(IPv6, a)
  <2>1. PICK a \in Addresses6 : leaf = IPAddress(IPv6, a)
    BY <1>5
  <2>2. leaf.type = "ip" /\ leaf.family = IPv6 /\ leaf.addr = a
    BY <2>1 DEF IPAddress
  <2>3. AddressSize(IPv6) = Len(CHOOSE x \in Addresses6 : TRUE)
    BY DEF AddressSize, IPv4, IPv6
  <2> QED
    <3>1. a \in Seq(Nat) /\ Len(a) = AddressSize(IPv6)
      BY <1>3, <2>3
    <3> QED
      BY <2>1, <2>2, <3>1 DEF IPv6
<1> QED
  BY <1>1, <1>2, <1>4, <1>5 DEF Leaves

\* The cells a leaf is written as, none of which is taken for an unset one.
LEMMA CellsOfLeaf ==
    ASSUME NEW leaf \in Leaves
    PROVE  /\ Cells(leaf) \in Seq(Nat) /\ Len(Cells(leaf)) \in Nat
           /\ leaf.type = "pod" => Cells(leaf) = <<leaf.value>> /\ Len(Cells(leaf)) = 1
           /\ leaf.type = "fd" => Cells(leaf) = <<>>
           /\ leaf.type = "ip" => /\ Cells(leaf) = <<leaf.family>> \o leaf.addr
                                  /\ Len(Cells(leaf)) = 1 + Len(leaf.addr)
<1>1. CASE leaf.type = "pod" /\ leaf.value \in Nat
  BY <1>1 DEF Cells
<1>2. CASE leaf.type = "fd"
  BY <1>2 DEF Cells
<1>3. CASE leaf.type = "ip" /\ leaf.family \in Nat /\ leaf.addr \in Seq(Nat)
  BY <1>3 DEF Cells
<1> QED
  BY <1>1, <1>2, <1>3, LeafKinds

\* A leaf's share of the descriptors.
LEMMA FdCountRange ==
    ASSUME NEW leaf
    PROVE  FdCount(leaf) \in {0, 1}
  BY DEF FdCount

-----------------------------------------------------------------------------
(* The passes. *)

\* A new Serializer has measured nothing.
LEMMA LaidInit == Init => IInv
<1> SUFFICES ASSUME Init
             PROVE  IInv
  OBVIOUS
<1>1. item \in Seq(Leaves)
  BY ValuesAssumption DEF Init, SeqOf
<1>2. Types
  BY <1>1 DEF Init, Types
<1> DEFINE zero == [i \in 1 .. 1 |-> 0]
<1>3. Layout(zero, zero, Measured)
  BY DEF Init, Layout, Measured
<1>4. Stored(zero) /\ Measuring(zero, zero) /\ Filling(zero) /\ Reading(zero, zero)
  BY DEF Init, Stored, Measuring, Filling, Reading, Measured
<1> QED
  BY <1>2, <1>3, <1>4 DEF IInv, Laid

\* The first pass: offset_ runs ahead as if leaves were written, and the
\* descriptors are stored.
LEMMA MeasureStep ==
    ASSUME IInv, Write, phase = "measure"
    PROVE  IInv'
<1> PICK at, num : Laid(at, num)
  BY DEF IInv
<1> DEFINE leaf == item[next]
<1> PICK n : n = next + 1
  OBVIOUS
<1> PICK at2 : at2 = [i \in 1 .. n |-> IF i <= next THEN at[i] ELSE at[next] + Len(Cells(leaf))]
  OBVIOUS
<1> PICK num2 : num2 = [i \in 1 .. n |-> IF i <= next THEN num[i] ELSE num[next] + FdCount(leaf)]
  OBVIOUS
<1>1. /\ item \in Seq(Leaves) /\ next \in 1 .. Len(item) /\ offset \in Nat /\ fds \in Seq(Fds)
      /\ Layout(at, num, next) /\ offset = at[next] /\ Len(fds) = num[next] /\ buffer = <<>>
      /\ result = <<>> /\ zeroed /\ Measured = next
  BY DEF IInv, Types, Write, Laid, Measured, Measuring
<1>2. /\ UNCHANGED <<item, phase, buffer, result, zeroed>> /\ next' = n
      /\ offset' = offset + Len(Cells(leaf))
      /\ fds' = IF leaf.type = "fd" THEN Append(fds, leaf.fd) ELSE fds
  BY DEF Write, PushRaw
<1>3. /\ leaf \in Leaves /\ Len(Cells(leaf)) \in Nat /\ FdCount(leaf) \in {0, 1}
      /\ leaf.type = "fd" => leaf.fd \in Fds
  BY <1>1, CellsOfLeaf, FdCountRange, LeafKinds
<1>4. Measured' = n
  BY <1>2 DEF Measured
<1>5. /\ at2[n] = at[next] + Len(Cells(leaf)) /\ num2[n] = num[next] + FdCount(leaf)
      /\ \A i \in 1 .. next : at2[i] = at[i] /\ num2[i] = num[i]
      /\ DOMAIN at2 = 1 .. n /\ DOMAIN num2 = 1 .. n /\ n \in Nat /\ n - 1 = next /\ next \in Nat /\ next >= 1
  BY <1>1
<1>6. /\ \A i \in 1 .. next : at[i] \in Nat /\ num[i] \in Nat /\ at[i] <= at[next] /\ num[i] <= num[next]
      /\ \A i, j \in 1 .. next : i <= j => at[i] <= at[j] /\ num[i] <= num[j]
      /\ \A i \in 1 .. next - 1 : at[i + 1] = at[i] + Len(Cells(item[i])) /\ num[i + 1] = num[i] + FdCount(item[i])
      /\ at[1] = 0 /\ num[1] = 0
  BY <1>1 DEF Layout
<1>7. at2 \in [1 .. n -> Nat] /\ num2 \in [1 .. n -> Nat]
  BY <1>3, <1>5, <1>6
<1> HIDE DEF leaf
<1>8. Layout(at2, num2, n)'
  <2>1. at2[1] = 0 /\ num2[1] = 0
    BY <1>5, <1>6
  <2>2. ASSUME NEW i \in 1 .. n - 1
        PROVE  at2[i + 1] = at2[i] + Len(Cells(item[i])) /\ num2[i + 1] = num2[i] + FdCount(item[i])
    <3>1. CASE i = next
      BY <1>5, <3>1 DEF leaf
    <3>2. CASE i # next
      <4>1. i \in 1 .. next - 1 /\ i + 1 \in 1 .. next /\ i \in 1 .. next
        BY <1>5, <3>2
      <4> QED
        BY <1>5, <1>6, <4>1
    <3> QED
      BY <3>1, <3>2
  <2>3. ASSUME NEW i \in 1 .. n, NEW j \in 1 .. n, i <= j
        PROVE  at2[i] <= at2[j] /\ num2[i] <= num2[j]
    <3>1. CASE j \in 1 .. next
      <4>1. i \in 1 .. next
        BY <1>5, <2>3, <3>1
      <4> QED
        BY <1>5, <1>6, <2>3, <3>1, <4>1
    <3>2. CASE j = n /\ i \in 1 .. next
      <4>1. at2[i] <= at[next] /\ num2[i] <= num[next] /\ at2[i] \in Nat /\ num2[i] \in Nat
        BY <1>5, <1>6, <3>2
      <4>2. at[next] \in Nat /\ num[next] \in Nat
        BY <1>5, <1>6
      <4> QED
        BY <1>3, <1>5, <3>2, <4>1, <4>2
    <3>3. CASE j = n /\ i = n
      BY <1>5, <1>7, <3>3
    <3>4. (j \in 1 .. next \/ j = n) /\ (i \in 1 .. next \/ i = n)
      BY <1>5
    <3>5. j \in 1 .. next \/ (j = n /\ i \in 1 .. next) \/ (j = n /\ i = n)
      BY <3>4
    <3> QED
      BY <3>1, <3>2, <3>3, <3>5
  <2>4. \A i : Cells(item[i])' = Cells(item[i]) /\ FdCount(item[i])' = FdCount(item[i])
    BY <1>2 DEF Cells, FdCount
  <2> QED
    BY <1>7, <2>1, <2>2, <2>3, <2>4 DEF Layout
<1>9. Stored(num2)'
  <2> SUFFICES ASSUME NEW i \in 1 .. n - 1, item[i].type = "fd"
               PROVE  num2[i] + 1 <= Len(fds') /\ fds'[num2[i] + 1] = item[i].fd
    BY <1>2, <1>4 DEF Stored
  <2>1. CASE i = next
    <3>1. fds' = Append(fds, leaf.fd) /\ num2[i] = Len(fds) /\ item[i].fd = leaf.fd
      BY <1>1, <1>2, <1>5, <2>1 DEF leaf
    <3>2. leaf.fd \in Fds
      BY <1>3, <2>1 DEF leaf
    <3> QED
      BY <1>1, <3>1, <3>2
  <2>2. CASE i # next
    <3>1. i \in 1 .. next - 1 /\ num2[i] = num[i] /\ num[i] \in Nat
      BY <1>5, <1>6, <2>2
    <3>2. num[i] + 1 <= Len(fds) /\ fds[num[i] + 1] = item[i].fd
      BY <1>1, <3>1 DEF Laid, Stored
    <3>3. Len(fds) <= Len(fds') /\ \A k \in 1 .. Len(fds) : fds'[k] = fds[k]
      BY <1>1, <1>2, <1>3
    <3>4. num[i] + 1 \in 1 .. Len(fds) /\ Len(fds') \in Nat
      <4>1. fds \in Seq(Fds) /\ fds' \in Seq(Fds)
        BY <1>1, <1>2, <1>3
      <4> QED
        BY <3>1, <3>2, <4>1
    <3> QED
      BY <3>1, <3>2, <3>3, <3>4
  <2> QED
    BY <2>1, <2>2
<1>10. Measuring(at2, num2)'
  <2>1. offset' = at2[n]
    BY <1>1, <1>2, <1>5
  <2>2. Len(fds') = num2[n]
    <3>1. CASE leaf.type = "fd"
      <4>1. Len(fds') = Len(fds) + 1
        <5>1. fds \in Seq(Fds) /\ leaf.fd \in Fds /\ fds' = Append(fds, leaf.fd)
          BY <1>1, <1>2, <1>3, <3>1
        <5> QED
          BY <5>1
      <4>2. FdCount(leaf) = 1
        BY <3>1 DEF FdCount
      <4> QED
        BY <1>1, <1>5, <4>1, <4>2
    <3>2. CASE leaf.type # "fd"
      BY <1>1, <1>2, <1>5, <1>6, <3>2 DEF FdCount
    <3> QED
      BY <3>1, <3>2
  <2> QED
    BY <1>1, <1>2, <2>1, <2>2 DEF Measuring
<1>11. Filling(at2)' /\ Reading(at2, num2)'
  BY <1>2 DEF Filling, Reading
<1>12. Types'
  <2>1. offset' \in Nat /\ fds' \in Seq(Fds) /\ next' \in 1 .. Len(item) + 1
    BY <1>1, <1>2, <1>3
  <2> QED
    BY <1>2, <2>1 DEF IInv, Types
<1>13. Laid(at2, num2)'
  BY <1>4, <1>8, <1>9, <1>10, <1>11 DEF Laid
<1> QED
  BY <1>12, <1>13 DEF IInv

\* Between the passes: the buffer is as long as all leaves together.
LEMMA StartFillStep ==
    ASSUME IInv, StartFill
    PROVE  IInv'
<1> PICK at, num : Laid(at, num)
  BY DEF IInv
<1>1. /\ item \in Seq(Leaves) /\ next = Len(item) + 1 /\ offset \in Nat /\ fds \in Seq(Fds)
      /\ Measured = Len(item) + 1 /\ Layout(at, num, Len(item) + 1) /\ Stored(num)
      /\ offset = at[Len(item) + 1] /\ result = <<>> /\ zeroed
  BY DEF IInv, Types, StartFill, Laid, Measured, Measuring
<1>2. /\ phase' = "fill" /\ next' = 1 /\ buffer' = [i \in 1 .. offset |-> Unset] /\ offset' = 0
      /\ UNCHANGED <<item, fds, result, zeroed>>
  BY DEF StartFill, ResetOffset
<1>3. buffer' \in Seq(Int) /\ Len(buffer') = offset
  BY <1>1, <1>2 DEF Unset
<1>4. Types'
  BY <1>1, <1>2, <1>3 DEF Types
<1>5. Measured' = Len(item) + 1
  BY <1>2 DEF Measured
<1>6. Layout(at, num, Len(item) + 1)'
  <2>1. \A i : Cells(item[i])' = Cells(item[i]) /\ FdCount(item[i])' = FdCount(item[i])
    BY <1>2 DEF Cells, FdCount
  <2> QED
    BY <1>1, <1>2, <2>1 DEF Layout
<1>7. Stored(num)'
  BY <1>1, <1>2, <1>5 DEF Stored
<1>8. Filling(at)'
  BY <1>1, <1>2, <1>3 DEF Filling, Layout
<1>9. Measuring(at, num)' /\ Reading(at, num)'
  BY <1>2 DEF Measuring, Reading
<1> QED
  BY <1>2, <1>4, <1>5, <1>6, <1>7, <1>8, <1>9 DEF IInv, Laid

\* memcpy into a buffer that has the room: the cells are there, and nothing
\* else has changed.
LEMMA CopiedCells ==
    ASSUME buffer \in Seq(Int), NEW cells \in Seq(Nat), NEW o \in Nat, o + Len(cells) <= Len(buffer)
    PROVE  /\ Copied(cells, o) \in Seq(Int) /\ Len(Copied(cells, o)) = Len(buffer)
           /\ \A j \in 1 .. Len(cells) : Copied(cells, o)[o + j] = cells[j]
           /\ \A c \in 1 .. o : Copied(cells, o)[c] = buffer[c]
<1> DEFINE new == Copied(cells, o)
<1>1. DOMAIN buffer = 1 .. Len(buffer) /\ Len(buffer) \in Nat /\ Len(cells) \in Nat
  OBVIOUS
<1>2. (DOMAIN buffer) \cup (o + 1 .. o + Len(cells)) = 1 .. Len(buffer)
  BY <1>1
<1>3. new = [i \in 1 .. Len(buffer) |-> IF i > o /\ i <= o + Len(cells) THEN cells[i - o] ELSE buffer[i]]
  BY <1>2 DEF Copied
<1>4. ASSUME NEW i \in 1 .. Len(buffer)
      PROVE  new[i] \in Int
  <2>1. CASE i > o /\ i <= o + Len(cells)
    <3>1. i - o \in 1 .. Len(cells)
      BY <1>1, <2>1
    <3> QED
      BY <1>3, <2>1, <3>1
  <2>2. CASE ~(i > o /\ i <= o + Len(cells))
    BY <1>3, <2>2
  <2> QED
    BY <2>1, <2>2
<1>5. new \in Seq(Int) /\ Len(new) = Len(buffer)
  BY <1>1, <1>3, <1>4
<1>6. ASSUME NEW j \in 1 .. Len(cells)
      PROVE  new[o + j] = cells[j]
  <2>1. o + j \in 1 .. Len(buffer) /\ o + j > o /\ o + j <= o + Len(cells) /\ (o + j) - o = j
    BY <1>1
  <2> QED
    BY <1>3, <2>1
<1>7. ASSUME NEW c \in 1 .. o
      PROVE  new[c] = buffer[c]
  <2>1. c \in 1 .. Len(buffer) /\ ~(c > o)
    BY <1>1
  <2> QED
    BY <1>3, <2>1
<1> QED
  BY <1>5, <1>6, <1>7

\* The second pass: each leaf is copied to its place, behind the ones before.
LEMMA FillStep ==
    ASSUME IInv, Write, phase = "fill"
    PROVE  IInv'
<1> PICK at, num : Laid(at, num)
  BY DEF IInv
<1> DEFINE leaf == item[next]
           cells == Cells(leaf)
<1>1. /\ item \in Seq(Leaves) /\ next \in 1 .. Len(item) /\ offset \in Nat /\ fds \in Seq(Fds)
      /\ buffer \in Seq(Int) /\ Len(buffer) = at[Len(item) + 1] /\ offset = at[next]
      /\ Measured = Len(item) + 1 /\ Layout(at, num, Len(item) + 1) /\ Stored(num)
      /\ \A i \in 1 .. next - 1 : Holds(at, i)
      /\ \A c \in 1 .. offset : buffer[c] # Unset
      /\ result = <<>> /\ zeroed
  BY DEF IInv, Types, Write, Laid, Measured, Filling
<1>2. /\ UNCHANGED <<item, phase, result, zeroed>> /\ next' = next + 1
      /\ offset' = offset + Len(cells) /\ buffer' = Copied(cells, offset)
      /\ fds' = IF leaf.type = "fd" THEN Append(fds, leaf.fd) ELSE fds
  BY DEF Write, PushRaw
<1>3. /\ leaf \in Leaves /\ cells \in Seq(Nat) /\ Len(cells) \in Nat
      /\ leaf.type = "fd" => leaf.fd \in Fds
  <2>1. leaf \in Leaves
    BY <1>1
  <2> HIDE DEF leaf
  <2>2. cells \in Seq(Nat) /\ Len(cells) \in Nat
    BY <2>1, CellsOfLeaf
  <2>3. leaf.type = "fd" => leaf.fd \in Fds
    BY <2>1, LeafKinds
  <2> QED
    BY <2>1, <2>2, <2>3
<1>n. /\ Len(item) \in Nat /\ Len(fds) \in Nat /\ next \in Nat /\ next >= 1 /\ next <= Len(item)
      /\ next + 1 \in 1 .. Len(item) + 1 /\ Len(item) + 1 \in 1 .. Len(item) + 1
  BY <1>1
<1>a. /\ \A i \in 1 .. Len(item) : at[i + 1] = at[i] + Len(Cells(item[i]))
      /\ \A i \in 1 .. Len(item) + 1 : at[i] \in Nat /\ num[i] \in Nat
      /\ \A i, j \in 1 .. Len(item) + 1 : i <= j => at[i] <= at[j]
  <2>1. Layout(at, num, Len(item) + 1)
    BY <1>1
  <2>2. (Len(item) + 1) - 1 = Len(item)
    BY <1>n
  <2> QED
    BY <2>1, <2>2 DEF Layout
<1>4. at[next + 1] = offset + Len(cells) /\ next + 1 \in 1 .. Len(item) + 1
  BY <1>1, <1>a, <1>n
<1>5. offset + Len(cells) <= Len(buffer)
  <2>1. at[next + 1] <= at[Len(item) + 1]
    BY <1>a, <1>n
  <2> QED
    BY <1>1, <1>4, <2>1
<1> HIDE DEF cells
<1>6. /\ buffer' \in Seq(Int) /\ Len(buffer') = Len(buffer)
      /\ \A j \in 1 .. Len(cells) : buffer'[offset + j] = cells[j]
      /\ \A c \in 1 .. offset : buffer'[c] = buffer[c]
  BY <1>1, <1>2, <1>3, <1>5, CopiedCells
<1>7. fds' \in Seq(Fds) /\ Len(fds) <= Len(fds') /\ \A k \in 1 .. Len(fds) : fds'[k] = fds[k]
  BY <1>1, <1>2, <1>3
<1>8. Types'
  <2>1. offset' \in Nat
    BY <1>1, <1>2, <1>3
  <2>2. next' \in 1 .. Len(item') + 1
    BY <1>2, <1>4
  <2> QED
    BY <1>2, <1>6, <1>7, <2>1, <2>2 DEF IInv, Types
<1>9. \A i : Cells(item[i])' = Cells(item[i]) /\ FdCount(item[i])' = FdCount(item[i])
  BY <1>2 DEF Cells, FdCount
<1>10. Measured' = Len(item) + 1 /\ Layout(at, num, Len(item) + 1)'
  <2>1. Measured' = Len(item) + 1
    BY <1>2 DEF Measured
  <2> QED
    BY <1>1, <1>2, <1>9, <2>1 DEF Layout
<1>11. Stored(num)'
  <2> SUFFICES ASSUME NEW i \in 1 .. Len(item), item[i].type = "fd"
               PROVE  num[i] + 1 <= Len(fds') /\ fds'[num[i] + 1] = item[i].fd
    <3>1. Measured' - 1 = Len(item) /\ item' = item
      BY <1>2, <1>10, <1>n
    <3> QED
      BY <3>1 DEF Stored
  <2>1. num[i] + 1 <= Len(fds) /\ fds[num[i] + 1] = item[i].fd
    <3>1. Stored(num) /\ Measured - 1 = Len(item)
      BY <1>1, <1>n
    <3> QED
      BY <3>1 DEF Stored
  <2>2. num[i] + 1 \in 1 .. Len(fds) /\ Len(fds') \in Nat /\ Len(fds) \in Nat
    <3>1. num[i] \in Nat
      BY <1>a, <1>n
    <3> QED
      BY <1>7, <1>n, <2>1, <3>1
  <2> QED
    BY <1>7, <2>1, <2>2
<1>12. \A c \in 1 .. offset' : buffer'[c] # Unset
  <2> SUFFICES ASSUME NEW c \in 1 .. offset + Len(cells)
               PROVE  buffer'[c] # Unset
    BY <1>2
  <2>1. CASE c \in 1 .. offset
    BY <1>1, <1>6, <2>1
  <2>2. CASE c \notin 1 .. offset
    <3>0. offset \in Nat /\ Len(cells) \in Nat
      BY <1>1, <1>3
    <3>1. c - offset \in 1 .. Len(cells) /\ offset + (c - offset) = c
      BY <2>2, <3>0
    <3>2. buffer'[c] = cells[c - offset] /\ cells[c - offset] \in Nat
      BY <1>3, <1>6, <3>1
    <3> QED
      BY <3>2 DEF Unset
  <2> QED
    BY <2>1, <2>2
<1>13. ASSUME NEW i \in 1 .. next
       PROVE  Holds(at, i)'
  <2> SUFFICES ASSUME NEW j \in 1 .. Len(Cells(item[i]))
               PROVE  buffer'[at[i] + j] = Cells(item[i])[j]
    BY <1>2, <1>9 DEF Holds
  <2>1. CASE i = next
    BY <1>1, <1>6, <2>1 DEF cells
  <2>2. CASE i # next
    <3>1. /\ i \in 1 .. next - 1 /\ i + 1 \in 1 .. Len(item) + 1 /\ i + 1 <= next
          /\ next \in 1 .. Len(item) + 1 /\ i \in 1 .. Len(item) /\ i \in 1 .. Len(item) + 1
      BY <1>n, <2>2
    <3>2. at[i + 1] = at[i] + Len(Cells(item[i])) /\ at[i + 1] <= at[next] /\ at[i] \in Nat
      BY <1>a, <1>n, <3>1
    <3>3. Len(Cells(item[i])) \in Nat
      BY <1>1, <3>1, CellsOfLeaf
    <3>4. at[i] + j \in 1 .. offset
      <4>1. offset = at[next] /\ offset \in Nat
        BY <1>1
      <4> QED
        BY <3>2, <3>3, <4>1
    <3>5. buffer[at[i] + j] = Cells(item[i])[j]
      BY <1>1, <3>1 DEF Holds
    <3> QED
      BY <1>6, <3>4, <3>5
  <2> QED
    BY <2>1, <2>2
<1>14. Filling(at)'
  <2>1. Len(buffer') = at[Len(item') + 1] /\ offset' = at[next'] /\ result' = <<>> /\ zeroed'
    BY <1>1, <1>2, <1>4, <1>6
  <2>2. \A i \in 1 .. next' - 1 : Holds(at, i)'
    BY <1>1, <1>2, <1>13
  <2> QED
    BY <1>12, <2>1, <2>2 DEF Filling
<1>15. Measuring(at, num)' /\ Reading(at, num)'
  BY <1>2 DEF Measuring, Reading
<1> QED
  BY <1>2, <1>8, <1>10, <1>11, <1>14, <1>15 DEF IInv, Laid

\* What a step that leaves the archive alone keeps of the layout.
LEMMA ArchiveKept ==
    ASSUME NEW at, NEW num, Laid(at, num), phase # "measure", phase' # "measure", item \in Seq(Leaves),
           UNCHANGED <<item, fds>>
    PROVE  Measured' = Len(item) + 1 /\ Layout(at, num, Measured)' /\ Stored(num)'
<1>1. Measured = Len(item) + 1 /\ Measured' = Len(item) + 1 /\ item' = item /\ fds' = fds
  BY DEF Measured
<1>2. \A i : Cells(item[i])' = Cells(item[i]) /\ FdCount(item[i])' = FdCount(item[i])
  BY <1>1 DEF Cells, FdCount
<1>3. Layout(at, num, Measured)'
  BY <1>1, <1>2 DEF Laid, Layout
<1>4. Stored(num)'
  BY <1>1 DEF Laid, Stored
<1> QED
  BY <1>1, <1>3, <1>4

\* A Deserializer is constructed: the buffer is full.
LEMMA StartReadStep ==
    ASSUME IInv, StartRead
    PROVE  IInv'
<1> PICK at, num : Laid(at, num)
  BY DEF IInv
<1>1. /\ item \in Seq(Leaves) /\ next = Len(item) + 1 /\ buffer \in Seq(Int) /\ offset \in Nat
      /\ fds \in Seq(Fds) /\ phase = "fill"
  BY DEF IInv, Types, StartRead
<1>2. /\ Len(buffer) = at[Len(item) + 1] /\ offset = Len(buffer)
      /\ \A i \in 1 .. Len(item) : Holds(at, i)
      /\ \A c \in 1 .. Len(buffer) : buffer[c] # Unset
      /\ result = <<>>
  <2>1. (Len(item) + 1) - 1 = Len(item)
    BY <1>1
  <2> QED
    BY <1>1, <2>1 DEF Laid, Filling
<1>3. /\ phase' = "read" /\ next' = 1 /\ UNCHANGED <<item, buffer, offset, fds, result>>
      /\ zeroed' = (byteOffset' = 0 /\ fdOffset' = 0)
  BY DEF StartRead
<1>4. Types'
  BY <1>1, <1>3 DEF Types
<1>5. Layout(at, num, Measured)' /\ Stored(num)'
  BY <1>1, <1>3, ArchiveKept
<1>6. at[1] = 0 /\ num[1] = 0
  BY DEF Laid, Layout
<1>7. \A i \in 1 .. Len(item) : Holds(at, i)'
  <2>1. \A i : Cells(item[i])' = Cells(item[i])
    BY <1>3 DEF Cells
  <2> QED
    BY <1>2, <1>3, <2>1 DEF Holds
<1>8. Reading(at, num)'
  <2>1. zeroed' => byteOffset' = at[next'] /\ fdOffset' = num[next']
    BY <1>3, <1>6
  <2>2. result' = SubSeq(item', 1, next' - 1)
    BY <1>1, <1>2, <1>3
  <2> QED
    BY <1>2, <1>3, <1>7, <2>1, <2>2 DEF Reading
<1>9. Measuring(at, num)' /\ Filling(at)'
  BY <1>3 DEF Measuring, Filling
<1> QED
  BY <1>4, <1>5, <1>8, <1>9 DEF IInv, Laid

\* A leaf is read back from its cells in the buffer, an address by the size
\* that its family stands for.
LEMMA ReadLeaf ==
    ASSUME NEW leaf \in Leaves, buffer \in Seq(Int), NEW o \in Nat, o + Len(Cells(leaf)) <= Len(buffer),
           \A j \in 1 .. Len(Cells(leaf)) : buffer[o + j] = Cells(leaf)[j]
    PROVE  /\ leaf.type = "pod" => Pod(Peek(o, 1)[1]) = leaf /\ Len(Cells(leaf)) = 1
           /\ leaf.type = "ip" =>
                LET size == AddressSize(Peek(o, 1)[1])
                IN  IPAddress(Peek(o, 1)[1], Peek(o + 1, size)) = leaf /\ Len(Cells(leaf)) = 1 + size
<1>0. Len(buffer) \in Nat /\ Len(Cells(leaf)) \in Nat
  BY CellsOfLeaf
<1>1. ASSUME leaf.type \in {"pod", "ip"}
      PROVE  Peek(o, 1)[1] = Cells(leaf)[1]
  <2>1. Len(Cells(leaf)) >= 1
    <3>1. leaf.type = "ip" => leaf.addr \in Seq(Nat)
      BY LeafKinds
    <3>2. leaf.type = "ip" => Len(leaf.addr) \in Nat
      BY <3>1
    <3>3. CASE leaf.type = "pod"
      <4>1. Len(Cells(leaf)) = 1
        BY <3>3, CellsOfLeaf
      <4> QED
        BY <4>1
    <3>4. CASE leaf.type = "ip"
      <4>1. Len(Cells(leaf)) = 1 + Len(leaf.addr)
        BY <3>4, CellsOfLeaf
      <4> QED
        BY <3>2, <3>4, <4>1
    <3> QED
      BY <1>1, <3>3, <3>4
  <2>2. o + 1 <= Len(buffer) /\ 1 \in 1 .. Len(Cells(leaf))
    BY <1>0, <2>1
  <2> QED
    BY <2>2 DEF Peek
<1>2. ASSUME leaf.type = "pod"
      PROVE  Pod(Peek(o, 1)[1]) = leaf /\ Len(Cells(leaf)) = 1
  <2>1. leaf = Pod(leaf.value)
    BY <1>2, LeafKinds
  <2>2. Cells(leaf) = <<leaf.value>> /\ Len(Cells(leaf)) = 1
    BY <1>2, CellsOfLeaf
  <2>3. Peek(o, 1)[1] = leaf.value
    BY <1>1, <1>2, <2>2
  <2> QED
    BY <2>1, <2>2, <2>3
<1>3. ASSUME leaf.type = "ip"
      PROVE  LET size == AddressSize(Peek(o, 1)[1])
             IN  IPAddress(Peek(o, 1)[1], Peek(o + 1, size)) = leaf /\ Len(Cells(leaf)) = 1 + size
  <2>1. /\ leaf = IPAddress(leaf.family, leaf.addr) /\ leaf.family \in Nat /\ leaf.addr \in Seq(Nat)
        /\ AddressSize(leaf.family) = Len(leaf.addr)
    BY <1>3, LeafKinds
  <2>2. Cells(leaf) = <<leaf.family>> \o leaf.addr /\ Len(Cells(leaf)) = 1 + Len(leaf.addr)
    BY <1>3, CellsOfLeaf
  <2>3. Peek(o, 1)[1] = leaf.family
    <3>1. (<<leaf.family>> \o leaf.addr)[1] = leaf.family
      BY <2>1
    <3> QED
      BY <1>1, <1>3, <2>2, <3>1
  <2> DEFINE a == leaf.addr
  <2>4. Peek(o + 1, Len(a)) = a
    <3>1. Len(a) \in Nat /\ a = [i \in 1 .. Len(a) |-> a[i]]
      BY <2>1
    <3>2. ASSUME NEW i \in 1 .. Len(a)
          PROVE  (o + 1) + i <= Len(buffer) /\ buffer[(o + 1) + i] = a[i]
      <4>0. Len(Cells(leaf)) = 1 + Len(a)
        BY <2>2
      <4>1. i + 1 \in 1 .. Len(Cells(leaf)) /\ (o + 1) + i = o + (i + 1)
        BY <3>1, <4>0
      <4>2. (<<leaf.family>> \o a)[i + 1] = a[i]
        BY <2>1
      <4>3. buffer[o + (i + 1)] = a[i]
        BY <2>2, <4>1, <4>2
      <4> QED
        BY <1>0, <4>1, <4>3
    <3>3. Peek(o + 1, Len(a)) = [i \in 1 .. Len(a) |-> a[i]]
      BY <3>2 DEF Peek
    <3> QED
      BY <3>1, <3>3
  <2> QED
    BY <2>1, <2>2, <2>3, <2>4
<1> QED
  BY <1>2, <1>3

\* The reader, if its offsets were 0 by chance: it is always at the place of
\* the leaf it reads.
LEMMA ReadStep ==
    ASSUME IInv, Read
    PROVE  IInv'
<1> PICK at, num : Laid(at, num)
  BY DEF IInv
<1> DEFINE leaf == item[next]
<1>1. /\ item \in Seq(Leaves) /\ next \in 1 .. Len(item) /\ buffer \in Seq(Int) /\ offset \in Nat
      /\ fds \in Seq(Fds) /\ phase = "read"
  BY DEF IInv, Types, Read
<1>n. /\ Len(item) \in Nat /\ Len(fds) \in Nat /\ next \in Nat /\ next >= 1 /\ next <= Len(item)
      /\ next \in 1 .. Len(item) + 1 /\ next + 1 \in 1 .. Len(item) + 1
      /\ Len(item) + 1 \in 1 .. Len(item) + 1 /\ (Len(item) + 1) - 1 = Len(item)
  BY <1>1
<1>2. /\ UNCHANGED <<item, buffer, offset, fds, zeroed>> /\ next' = next + 1
      /\ phase' \in {"read", "threw"}
  <2>1. item[next].type \in {"pod", "ip", "fd"}
    <3>1. item[next] \in Leaves
      BY <1>1
    <3> QED
      BY <3>1, LeafKinds
  <2>2. ReadPod \/ ReadIPAddress \/ ReadFd
    BY <2>1 DEF Read
  <2>3. phase' \in {phase, "threw"}
    BY <2>2 DEF ReadPod, ReadIPAddress, ReadFd
  <2> QED
    BY <1>1, <2>3 DEF Read
<1>3. Types'
  BY <1>1, <1>2, <1>n DEF IInv, Types
<1>4. Layout(at, num, Measured)' /\ Stored(num)'
  BY <1>1, <1>2, ArchiveKept
<1>5. /\ offset = Len(buffer) /\ Len(buffer) = at[Len(item) + 1]
      /\ \A i \in 1 .. Len(item) : Holds(at, i)
      /\ \A c \in 1 .. Len(buffer) : buffer[c] # Unset
  BY <1>1 DEF Laid, Reading
<1>6. \A i \in 1 .. Len(item) : Holds(at, i)'
  <2>1. \A i : Cells(item[i])' = Cells(item[i])
    BY <1>2 DEF Cells
  <2> QED
    BY <1>2, <1>5, <2>1 DEF Holds
<1>7. ASSUME zeroed
      PROVE  /\ phase' = "read" /\ byteOffset' = at[next + 1] /\ fdOffset' = num[next + 1]
             /\ result' = Append(result, leaf)
  <2>1. byteOffset = at[next] /\ fdOffset = num[next]
    BY <1>1, <1>7 DEF Laid, Reading
  <2>2. /\ at[next + 1] = at[next] + Len(Cells(leaf)) /\ num[next + 1] = num[next] + FdCount(leaf)
        /\ at[next] \in Nat /\ num[next] \in Nat
        /\ at[next + 1] <= at[Len(item) + 1]
    <3>1. Layout(at, num, Len(item) + 1)
      BY <1>1 DEF Laid, Measured
    <3> QED
      BY <1>n, <3>1 DEF Layout
  <2>3. leaf \in Leaves
    BY <1>1
  <2>4. at[next] + Len(Cells(leaf)) <= Len(buffer)
    BY <1>5, <2>2
  <2>5. \A j \in 1 .. Len(Cells(leaf)) : buffer[at[next] + j] = Cells(leaf)[j]
    BY <1>1, <1>5 DEF Holds
  <2>6. leaf.type = "fd" => num[next] < Len(fds) /\ fds[num[next] + 1] = leaf.fd
    <3>1. Stored(num) /\ Measured - 1 = Len(item)
      BY <1>1, <1>n DEF Laid, Measured
    <3>2. leaf.type = "fd" => num[next] + 1 <= Len(fds) /\ fds[num[next] + 1] = leaf.fd
      BY <1>1, <3>1 DEF Stored
    <3> QED
      BY <1>n, <2>2, <3>2
  <2>7. CASE leaf.type = "pod"
    <3>1. ReadPod
      BY <2>7 DEF Read
    <3>2. Pod(Peek(at[next], 1)[1]) = leaf /\ Len(Cells(leaf)) = 1 /\ FdCount(leaf) = 0
      BY <1>1, <2>2, <2>3, <2>4, <2>5, <2>7, ReadLeaf DEF FdCount
    <3> HIDE DEF leaf
    <3> QED
      BY <1>1, <2>1, <2>2, <3>1, <3>2 DEF ReadPod
  <2>8. CASE leaf.type = "ip"
    <3> DEFINE size == AddressSize(Peek(at[next], 1)[1])
    <3>1. ReadIPAddress
      BY <2>8 DEF Read
    <3>2. /\ IPAddress(Peek(at[next], 1)[1], Peek(at[next] + 1, size)) = leaf
          /\ Len(Cells(leaf)) = 1 + size
      BY <1>1, <2>2, <2>3, <2>4, <2>5, <2>8, ReadLeaf
    <3>3. FdCount(leaf) = 0
      BY <2>8 DEF FdCount
    <3>4. Len(Cells(leaf)) \in Nat /\ AddressSize(leaf.family) \in Nat /\ leaf.family = Peek(at[next], 1)[1]
      <4>1. leaf.addr \in Seq(Nat) /\ AddressSize(leaf.family) = Len(leaf.addr)
        BY <2>3, <2>8, LeafKinds
      <4>2. leaf.family = Peek(at[next], 1)[1]
        BY <3>2 DEF IPAddress
      <4> QED
        BY <2>3, <4>1, <4>2, CellsOfLeaf
    <3>5. size \in Nat
      BY <3>4
    <3>6. result' = Append(result, leaf) /\ byteOffset' = at[next] + 1 + size /\ UNCHANGED <<fdOffset, phase>>
      BY <2>1, <3>1, <3>2 DEF ReadIPAddress
    <3>7. Len(Cells(leaf)) = 1 + size
      BY <3>2
    <3> HIDE DEF leaf, size
    <3>8. byteOffset' = at[next + 1]
      BY <2>2, <3>5, <3>6, <3>7
    <3>9. fdOffset' = num[next + 1]
      BY <2>1, <2>2, <3>3, <3>6
    <3> QED
      BY <1>1, <3>6, <3>8, <3>9
  <2>9. CASE leaf.type = "fd"
    <3>1. ReadFd
      BY <2>9 DEF Read
    <3>2. Fd(leaf.fd) = leaf
      BY <2>3, <2>9, LeafKinds
    <3>3. FdCount(leaf) = 1 /\ Len(Cells(leaf)) = 0
      <4>1. Cells(leaf) = <<>>
        BY <2>3, <2>9, CellsOfLeaf
      <4>2. FdCount(leaf) = 1
        BY <2>9 DEF FdCount
      <4> QED
        BY <4>1, <4>2
    <3>4. result' = Append(result, leaf) /\ UNCHANGED <<phase, byteOffset>> /\ fdOffset' = num[next] + 1
      BY <2>1, <2>6, <2>9, <3>1, <3>2 DEF ReadFd
    <3> HIDE DEF leaf
    <3> QED
      BY <1>1, <2>1, <2>2, <3>3, <3>4
  <2> QED
    BY <2>3, <2>7, <2>8, <2>9, LeafKinds
<1>8. zeroed => result' = SubSeq(item, 1, next)
  <2>1. zeroed => result = SubSeq(item, 1, next - 1)
    BY <1>1 DEF Laid, Reading
  <2>2. Append(SubSeq(item, 1, next - 1), item[next]) = SubSeq(item, 1, next)
    BY <1>1
  <2> QED
    BY <1>7, <2>1, <2>2
<1>9. Reading(at, num)'
  <2>1. zeroed' => /\ phase' # "threw" /\ byteOffset' = at[next'] /\ fdOffset' = num[next']
                   /\ result' = SubSeq(item', 1, next' - 1)
    <3>1. next' - 1 = next /\ item' = item /\ zeroed' = zeroed
      BY <1>2, <1>n
    <3> QED
      BY <1>2, <1>7, <1>8, <3>1
  <2> QED
    BY <1>2, <1>5, <1>6, <2>1 DEF Reading
<1>10. Measuring(at, num)' /\ Filling(at)'
  BY <1>2 DEF Measuring, Filling
<1> QED
  BY <1>3, <1>4, <1>9, <1>10 DEF IInv, Laid

\* The invariant always holds.
LEMMA Invariant == Spec => []IInv
<1>1. IInv /\ [Next]_vars => IInv'
  <2> SUFFICES ASSUME IInv, [Next]_vars
               PROVE  IInv'
    OBVIOUS
  <2>1. CASE Write
    BY <2>1, MeasureStep, FillStep DEF Write
  <2>2. CASE StartFill
    BY <2>2, StartFillStep
  <2>3. CASE StartRead
    BY <2>3, StartReadStep
  <2>4. CASE Read
    BY <2>4, ReadStep
  <2>5. CASE UNCHANGED vars
    <3>1. PICK at, num : Laid(at, num)
      BY DEF IInv
    <3>2. Laid(at, num)'
      <4>1. \A i : Cells(item[i])' = Cells(item[i]) /\ FdCount(item[i])' = FdCount(item[i])
        BY <2>5 DEF vars, Cells, FdCount
      <4>2. Measured' = Measured
        BY <2>5 DEF vars, Measured
      <4>3. Layout(at, num, Measured)' /\ Stored(num)'
        BY <2>5, <3>1, <4>1, <4>2 DEF vars, Laid, Layout, Stored
      <4>4. \A i : Holds(at, i)' <=> Holds(at, i)
        BY <2>5, <4>1 DEF vars, Holds
      <4>5. Measuring(at, num)' /\ Filling(at)' /\ Reading(at, num)'
        BY <2>5, <3>1, <4>4 DEF vars, Laid, Measuring, Filling, Reading
      <4> QED
        BY <4>3, <4>5 DEF Laid
    <3>3. Types'
      BY <2>5 DEF vars, IInv, Types
    <3> QED
      BY <3>2, <3>3 DEF IInv
  <2> QED
    BY <2>1, <2>2, <2>3, <2>4, <2>5 DEF Next
<1> QED
  BY <1>1, LaidInit, PTL DEF Spec

\* The second pass writes exactly the buffer that the first one measured,
\* for trees of any size and shape.
THEOREM SecondPassFits == Spec => []ArchiveFilled
<1>1. IInv => ArchiveFilled
  <2> SUFFICES ASSUME IInv
               PROVE  ArchiveFilled
    OBVIOUS
  <2>1. PICK at, num : Laid(at, num)
    BY DEF IInv
  <2>2. ASSUME phase = "fill"
        PROVE  offset <= Len(buffer)
    <3>1. next \in 1 .. Len(item) + 1 /\ Len(item) + 1 \in 1 .. Len(item) + 1 /\ next <= Len(item) + 1
      BY DEF IInv, Types
    <3>2. Layout(at, num, Len(item) + 1) /\ offset = at[next] /\ Len(buffer) = at[Len(item) + 1]
      BY <2>1, <2>2 DEF Laid, Filling, Measured
    <3>3. at[next] <= at[Len(item) + 1]
      BY <3>1, <3>2 DEF Layout
    <3> QED
      BY <3>2, <3>3
  <2>3. ASSUME phase = "read"
        PROVE  offset = Len(buffer) /\ \A i \in DOMAIN buffer : buffer[i] # Unset
    <3>1. DOMAIN buffer = 1 .. Len(buffer)
      BY DEF IInv, Types
    <3> QED
      BY <2>1, <2>3, <3>1 DEF Laid, Reading
  <2> QED
    BY <2>2, <2>3 DEF ArchiveFilled
<1> QED
  BY <1>1, Invariant, PTL

\* Whatever tree was serialized is read back, leaf by leaf and without an
\* exception, if the offsets that the Deserializer leaves unset were 0.
THEOREM RoundTrip == Spec => []ReadBack
<1>1. IInv => ReadBack
  <2> SUFFICES ASSUME IInv, zeroed
               PROVE  phase # "threw" /\ result = SubSeq(item, 1, Len(result))
    BY DEF ReadBack
  <2>1. PICK at, num : Laid(at, num)
    BY DEF IInv
  <2>2. item \in Seq(Leaves) /\ next \in 1 .. Len(item) + 1 /\ phase \in {"measure", "fill", "read", "threw"}
    BY DEF IInv, Types
  <2>3. CASE phase \in {"measure", "fill"}
    <3>1. result = <<>>
      BY <2>1, <2>3 DEF Laid, Measuring, Filling
    <3>2. SubSeq(item, 1, 0) = <<>> /\ Len(<<>>) = 0
      BY <2>2
    <3> QED
      BY <2>3, <3>1, <3>2
  <2>4. CASE phase \in {"read", "threw"}
    <3>1. phase # "threw" /\ result = SubSeq(item, 1, next - 1)
      BY <2>1, <2>4 DEF Laid, Reading
    <3>2. Len(SubSeq(item, 1, next - 1)) = next - 1
      BY <2>2
    <3> QED
      BY <3>1, <3>2
  <2> QED
    BY <2>2, <2>3, <2>4
<1> QED
  BY <1>1, Invariant, PTL

=============================================================================
