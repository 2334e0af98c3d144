---------------------------- MODULE OperatorProofs ----------------------------
(***************************************************************************)
(* Lemmas on the operators that several modules use: what the constructors *)
(* and methods of Packet do to a window, for every block, offset and       *)
(* length, and what changes of a table leave of its entries.               *)
(***************************************************************************)
EXTENDS Integers, Packet, Tables, WellFoundedInduction, TLAPS

(* Packets.  Who deletes the block, the field captures, is stated apart from
   the arithmetic. *)

\* A Packet object.
IsPacket(p) == p \in [data : {p.data}, offset : Nat, length : Nat, captures : BOOLEAN]

\* The constructors make a packet on the window they are given.
LEMMA MakePacketFields ==
    ASSUME NEW d, NEW o \in Nat, NEW n \in Nat
    PROVE  /\ IsPacket(MakePacket(d, o, n))
           /\ MakePacket(d, o, n).data = d
           /\ MakePacket(d, o, n).offset = o
           /\ MakePacket(d, o, n).length = n
  BY DEF MakePacket, IsPacket

\* A packet made of a block captures it.
LEMMA MakePacketCaptures ==
    ASSUME NEW d, NEW o, NEW n
    PROVE  MakePacket(d, o, n).captures
  BY DEF MakePacket

\* The tag NoCapture leaves the window alone.
LEMMA NoCaptureFields ==
    ASSUME NEW p, IsPacket(p)
    PROVE  /\ IsPacket(NoCapture(p))
           /\ NoCapture(p).data = p.data
           /\ NoCapture(p).offset = p.offset
           /\ NoCapture(p).length = p.length
  BY DEF NoCapture, IsPacket

\* A packet that borrows its memory captures nothing.
LEMMA NoCaptureCaptures ==
    ASSUME NEW p, IsPacket(p)
    PROVE  ~NoCapture(p).captures
  BY DEF NoCapture, IsPacket

\* skip(), whatever its argument, moves the front of the window by as much as
\* there is and leaves its end where it was.
LEMMA SkipFields ==
    ASSUME NEW p, IsPacket(p), NEW n \in Nat
    PROVE  /\ IsPacket(Skip(p, n))
           /\ Skip(p, n).data = p.data
           /\ Skip(p, n).offset + Skip(p, n).length = p.offset + p.length
           /\ n <= p.length => Skip(p, n).length = p.length - n
           /\ n > p.length => Skip(p, n).length = 0
<1> DEFINE k == IF n > p.length THEN p.length ELSE n
<1>1. k \in Nat /\ k <= p.length /\ p.offset \in Nat /\ p.length \in Nat
  BY DEF IsPacket
<1>2. Skip(p, n) = [p EXCEPT !.offset = @ + k, !.length = @ - k]
  BY DEF Skip
<1> HIDE DEF k
<1>3. Skip(p, n).offset = p.offset + k /\ Skip(p, n).length = p.length - k
  BY <1>2 DEF IsPacket
<1>4. Skip(p, n).data = p.data
  BY <1>2 DEF IsPacket
<1>5. IsPacket(Skip(p, n))
  <2>1. p.offset + k \in Nat /\ p.length - k \in Nat
    BY <1>1
  <2> QED
    BY <1>2, <1>4, <2>1 DEF IsPacket
<1> QED
  BY <1>1, <1>3, <1>4, <1>5 DEF k

\* skip() captures what the packet it starts from captures.
LEMMA SkipCaptures ==
    ASSUME NEW p, IsPacket(p), NEW n \in Nat
    PROVE  Skip(p, n).captures <=> p.captures
  BY DEF Skip, IsPacket

\* truncate() never moves the end of the window outwards.
LEMMA TruncateFields ==
    ASSUME NEW p, IsPacket(p), NEW n \in Nat
    PROVE  /\ IsPacket(Truncate(p, n))
           /\ Truncate(p, n).data = p.data
           /\ Truncate(p, n).offset = p.offset
           /\ Truncate(p, n).length <= p.length
  BY DEF Truncate, IsPacket

\* So does truncate().
LEMMA TruncateCaptures ==
    ASSUME NEW p, IsPacket(p), NEW n \in Nat
    PROVE  Truncate(p, n).captures <=> p.captures
  BY DEF Truncate, IsPacket

\* The bytes of a packet on a whole block are the block's.
LEMMA WholeBlock ==
    ASSUME NEW s \in Seq(Nat)
    PROVE  Bytes(MakePacket(s, 0, Len(s))) = s
  BY DEF Bytes, MakePacket

-----------------------------------------------------------------------------
(* Tables. *)

\* A table that has its entries in S.
IsTable(f, S) == f \in [DOMAIN f -> S]

\* The entries of a table with one more.
LEMMA WithEntry ==
    ASSUME NEW f, NEW x, NEW y
    PROVE  /\ DOMAIN With(f, x, y) = (DOMAIN f) \cup {x}
           /\ With(f, x, y)[x] = y
           /\ \A z \in DOMAIN f : z # x => With(f, x, y)[z] = f[z]
           /\ \A S : IsTable(f, S) /\ y \in S => IsTable(With(f, x, y), S)
  BY DEF With, IsTable

\* The entries of a part of a table.
LEMMA RestrictEntry ==
    ASSUME NEW f, NEW D, D \subseteq DOMAIN f
    PROVE  /\ DOMAIN Restrict(f, D) = D
           /\ \A z \in D : Restrict(f, D)[z] = f[z]
           /\ \A S : IsTable(f, S) => IsTable(Restrict(f, D), S)
  BY DEF Restrict, IsTable

\* The entries of a table with one less.
LEMMA WithoutEntry ==
    ASSUME NEW f, NEW x
    PROVE  /\ DOMAIN Without(f, x) = (DOMAIN f) \ {x}
           /\ \A z \in DOMAIN f : z # x => Without(f, x)[z] = f[z]
           /\ \A S : IsTable(f, S) => IsTable(Without(f, x), S)
<1>1. (DOMAIN f) \ {x} \subseteq DOMAIN f
  OBVIOUS
<1> QED
  BY <1>1, RestrictEntry DEF Without

\* The order of the natural numbers, as a relation.
Before == {ss \in Nat \X Nat : ss[1] < ss[2]}

\* Natural numbers are well-ordered.
LEMMA BeforeIsWellFounded == IsWellFoundedOn(Before, Nat)
  BY NatLessThanWellFounded DEF OpToRel, Before

\* The lowest free descriptor is one of the free descriptors.
LEMMA MinIsLeast ==
    ASSUME NEW S \in SUBSET Nat, S # {}
    PROVE  Min(S) \in S /\ \A y \in S : Min(S) <= y
<1>1. PICK x \in S : \A y \in S : ~(<<y, x>> \in Before)
  BY BeforeIsWellFounded, WFMin
<1>2. ASSUME NEW y \in S PROVE x <= y
  <2>1. <<y, x>> \in Nat \X Nat /\ <<y, x>>[1] = y /\ <<y, x>>[2] = x
    OBVIOUS
  <2>2. ~(y < x)
    BY <1>1, <2>1 DEF Before
  <2> QED
    BY <2>2
<1>3. \E z \in S : \A y \in S : z <= y
  BY <1>2
<1> QED
  BY <1>3 DEF Min

=============================================================================
