-------------------------- MODULE PacketBuffersProofs --------------------------
(***************************************************************************)
(* Proofs about PacketBuffers for every set of blocks, every length and    *)
(* every depth of nested handlers, when each handler gives up the pointer  *)
(* it wraps (Keepers is empty).                                            *)
(***************************************************************************)
EXTENDS PacketBuffers, OperatorProofs

\* The handlers that can be on the stack.
Handlers == {"onPacketArrived", "watcherEvent", "handleData", "push", "vec_push", "send", "gather"}

\* All packets there can be.
PacketObjects ==
    [data : Blocks \cup {"nothing"}, offset : Nat, length : Nat, captures : BOOLEAN]

\* All frames there can be.
FrameObjects ==
    [handler : Handlers, packet : PacketObjects, held : SUBSET PacketObjects, own : SUBSET Blocks]

\* Every variable of the memory model has its type.
TypeOK ==
    /\ live \subseteq Blocks
    /\ size \in [Blocks -> Nat]
    /\ frames \in Seq(FrameObjects)
    /\ kept \in [Slots -> PacketObjects]
    /\ twice \in BOOLEAN

\* The packets of frame i.
InFrame(fs, i) == ({fs[i].packet} \cup fs[i].held) \ {Nothing}

\* The blocks that the frames free themselves.
Own(fs) == UNION {fs[i].own : i \in 1 .. Len(fs)}

\* Only vec_push frees a block itself: gnutls' memory.  A packet that does not
\* share its block lies in the frame that frees it or in one called from
\* there, so that it is gone before the block is.  No such block is shared,
\* and no two frames free the same one.
Owners ==
    /\ \A i \in 1 .. Len(frames) :
        /\ frames[i].handler # "vec_push" => frames[i].own = {} /\ frames[i].packet.captures
        /\ \A p \in InFrame(frames, i) : p.captures \/ \E j \in 1 .. i : p.data \in frames[j].own
        /\ frames[i].own \subseteq live
        /\ frames[i].own \cap Captured(frames, kept) = {}
        /\ \A j \in 1 .. Len(frames) : i # j => frames[i].own \cap frames[j].own = {}
    /\ \A s \in Slots : kept[s] = Nothing \/ kept[s].captures

\* The inductive invariant.
MemoryInv == TypeOK /\ Owners /\ PacketsInMemory /\ NoLeak /\ FreedOnce

-----------------------------------------------------------------------------

\* A packet is in a frame or kept.
LEMMA WhereIsPacket ==
    ASSUME NEW fs, NEW ks, NEW p
    PROVE  p \in PacketsOf(fs, ks) <=>
               /\ p # Nothing
               /\ (\E i \in 1 .. Len(fs) : p \in InFrame(fs, i)) \/ (\E s \in Slots : p = ks[s])
<1> DEFINE A == {fs[i].packet : i \in 1 .. Len(fs)}
           B == UNION {fs[i].held : i \in 1 .. Len(fs)}
           C == {ks[s] : s \in Slots}
<1>1. p \in A <=> \E i \in 1 .. Len(fs) : p = fs[i].packet
  OBVIOUS
<1>2. p \in B <=> \E i \in 1 .. Len(fs) : p \in fs[i].held
  OBVIOUS
<1>3. p \in C <=> \E s \in Slots : p = ks[s]
  OBVIOUS
<1>4. PacketsOf(fs, ks) = (A \cup B \cup C) \ {Nothing}
  BY DEF PacketsOf
<1> HIDE DEF A, B, C
<1> QED
  BY <1>1, <1>2, <1>3, <1>4 DEF InFrame

\* A captured block is shared by one of the packets.
LEMMA WhoCaptures ==
    ASSUME NEW fs, NEW ks, NEW b
    PROVE  b \in Captured(fs, ks) <=> \E p \in PacketsOf(fs, ks) : p.captures /\ p.data = b
  BY DEF Captured

\* A block in Own is freed by one of the frames.
LEMMA WhoOwns ==
    ASSUME NEW fs, NEW b
    PROVE  b \in Own(fs) <=> \E i \in 1 .. Len(fs) : b \in fs[i].own
  BY DEF Own

\* NoLeak, in terms of Own.
LEMMA NoLeakOwn == NoLeak <=> live \subseteq Captured(frames, kept) \cup Own(frames)
  BY DEF NoLeak, Own

\* Packets go and blocks are freed.  If the blocks a handler frees are shared
\* by no packet, and each packet left that does not share its block has one
\* that stays, memory stays in order: nothing is freed twice or used after.
LEMMA ReleaseInOrder ==
    ASSUME TypeOK, PacketsInMemory, NoLeak, FreedOnce,
           NEW fs, NEW ks, NEW own, Release(fs, ks, own),
           PacketsOf(fs, ks) \subseteq PacketsOf(frames, kept),
           own \subseteq live,
           own \cap Captured(frames, kept) = {},
           \A p \in PacketsOf(fs, ks) : p.data \notin own,
           \A p \in PacketsOf(fs, ks) : p.captures \/ p.data \notin Captured(frames, kept),
           Own(frames) \subseteq Own(fs) \cup own
    PROVE  PacketsInMemory' /\ NoLeak' /\ FreedOnce'
<1> DEFINE freed == (Captured(frames, kept) \ Captured(fs, ks)) \cup own
<1>1. frames' = fs /\ kept' = ks /\ live' = live \ freed
  BY DEF Release
<1>2. size' = [b \in Blocks |-> IF b \in freed THEN 0 ELSE size[b]]
  BY DEF Release
<1>3. Captured(frames, kept) \subseteq live
  BY WhoCaptures DEF PacketsInMemory
<1>4. FreedOnce'
  BY <1>3 DEF Release, FreedOnce
<1>5. NoLeak'
  <2>1. live' \subseteq Captured(fs, ks) \cup Own(fs)
    BY <1>1, NoLeakOwn
  <2> QED
    BY <1>1, <2>1 DEF NoLeak, Own
<1>6. ASSUME NEW p \in PacketsOf(fs, ks)
      PROVE  p.data \in live' /\ p.offset + p.length <= size'[p.data]
  <2>1. p.data \in live /\ p.offset + p.length <= size[p.data]
    BY DEF PacketsInMemory
  <2>2. p.data \notin freed
    BY WhoCaptures
  <2>3. p.data \in Blocks
    BY <2>1 DEF TypeOK
  <2> HIDE DEF freed
  <2> QED
    BY <1>1, <1>2, <2>1, <2>2, <2>3
<1> QED
  BY <1>1, <1>4, <1>5, <1>6 DEF PacketsInMemory

\* The packet that stands for none shares nothing.
LEMMA NothingFields == Nothing \in PacketObjects /\ ~Nothing.captures
  BY DEF Nothing, PacketObjects

\* A packet that does not share its block is owed to a frame, and nobody else
\* shares that block.
LEMMA Owed ==
    ASSUME Owners, NEW p \in PacketsOf(frames, kept)
    PROVE  p.captures \/ (p.data \notin Captured(frames, kept)
                          /\ \E j \in 1 .. Len(frames) : p.data \in frames[j].own)
<1>1. CASE \E s \in Slots : p = kept[s]
  BY <1>1, WhereIsPacket DEF Owners
<1>2. ASSUME NEW i \in 1 .. Len(frames), p \in InFrame(frames, i)
      PROVE  p.captures \/ (p.data \notin Captured(frames, kept)
                            /\ \E j \in 1 .. Len(frames) : p.data \in frames[j].own)
  <2>1. p.captures \/ \E j \in 1 .. Len(frames) : p.data \in frames[j].own
    BY <1>2 DEF Owners
  <2> QED
    BY <2>1 DEF Owners
<1> QED
  BY <1>1, <1>2, WhereIsPacket

\* The frames left when the innermost is gone.
LEMMA AllButLast ==
    ASSUME NEW S, NEW s \in Seq(S), NEW n \in Nat, n = Len(s), n > 0
    PROVE  /\ SubSeq(s, 1, n - 1) \in Seq(S)
           /\ Len(SubSeq(s, 1, n - 1)) = n - 1
           /\ \A i \in 1 .. n - 1 : SubSeq(s, 1, n - 1)[i] = s[i]
<1>1. Len(SubSeq(s, 1, n - 1)) = n - 1
  OBVIOUS
<1>2. SubSeq(s, 1, n - 1) \in Seq(S)
  OBVIOUS
<1>3. \A i \in 1 .. n - 1 : SubSeq(s, 1, n - 1)[i] = s[i]
  OBVIOUS
<1> QED
  BY <1>1, <1>2, <1>3

\* A handler returns, or throws.
LEMMA ReturnStep ==
    ASSUME MemoryInv, Return
    PROVE  MemoryInv'
<1> DEFINE n == Len(frames)
           fs == SubSeq(frames, 1, n - 1)
           own == frames[n].own
<1> USE DEF MemoryInv
<1>1. frames # <<>> /\ Release(fs, kept, own)
  BY DEF Return, Top
<1>2. n \in Nat /\ n > 0
  BY <1>1 DEF TypeOK
<1>3. /\ Len(fs) = n - 1 /\ \A i \in 1 .. n - 1 : fs[i] = frames[i]
      /\ fs \in Seq(FrameObjects)
  <2>1. frames \in Seq(FrameObjects)
    BY DEF TypeOK
  <2> QED
    BY <1>2, <2>1, AllButLast
<1>4. frames' = fs /\ kept' = kept
  BY <1>1 DEF Release
<1> HIDE DEF n, fs, own
<1>5. \A i \in 1 .. Len(fs) : i \in 1 .. n - 1 /\ i \in 1 .. n /\ i # n /\ InFrame(fs, i) = InFrame(frames, i)
  BY <1>2, <1>3 DEF InFrame
<1>6. PacketsOf(fs, kept) \subseteq PacketsOf(frames, kept)
  BY <1>5, WhereIsPacket DEF n
<1>7. Captured(fs, kept) \subseteq Captured(frames, kept)
  BY <1>6, WhoCaptures
<1>8. own \subseteq live /\ own \cap Captured(frames, kept) = {}
  BY <1>2 DEF Owners, n, own
<1>9. ASSUME NEW p \in PacketsOf(fs, kept)
      PROVE  p.data \notin own
  <2>1. CASE p.captures
    BY <1>6, <1>8, <2>1, WhoCaptures
  <2>2. CASE ~p.captures
    <3>1. PICK i \in 1 .. Len(fs) : p \in InFrame(frames, i)
      BY <1>5, <2>2, WhereIsPacket DEF Owners
    <3>2. PICK j \in 1 .. i : p.data \in frames[j].own
      BY <1>5, <2>2, <3>1 DEF Owners, n
    <3>3. j \in 1 .. Len(frames) /\ j # n /\ n \in 1 .. Len(frames)
      BY <1>2, <1>3 DEF n
    <3> QED
      BY <3>2, <3>3 DEF Owners, own
  <2> QED
    BY <2>1, <2>2
<1>10. \A p \in PacketsOf(fs, kept) : p.captures \/ p.data \notin Captured(frames, kept)
  BY <1>6, Owed
<1>11. Own(frames) \subseteq Own(fs) \cup own
  <2> SUFFICES ASSUME NEW b \in Own(frames) PROVE b \in Own(fs) \cup own
    OBVIOUS
  <2>1. PICK i \in 1 .. Len(frames) : b \in frames[i].own
    BY WhoOwns
  <2>2. CASE i = n
    BY <2>1, <2>2 DEF own
  <2>3. CASE i # n
    <3>1. i \in 1 .. Len(fs) /\ i \in 1 .. n - 1
      BY <1>2, <1>3, <2>3 DEF n
    <3> QED
      BY <1>3, <2>1, <3>1, WhoOwns
  <2> QED
    BY <2>2, <2>3
<1>12. PacketsInMemory' /\ NoLeak' /\ FreedOnce'
  BY <1>1, <1>6, <1>8, <1>9, <1>10, <1>11, ReleaseInOrder
<1>13. TypeOK'
  BY <1>1, <1>3 DEF TypeOK, Release
<1>14. Owners'
  <2>1. live' = live \ ((Captured(frames, kept) \ Captured(fs, kept)) \cup own)
    BY <1>1 DEF Release
  <2>2. ASSUME NEW i \in 1 .. Len(fs)
        PROVE  /\ fs[i].handler # "vec_push" => fs[i].own = {} /\ fs[i].packet.captures
               /\ fs[i].own \subseteq live'
               /\ fs[i].own \cap Captured(fs, kept) = {}
               /\ \A j \in 1 .. Len(fs) : i # j => fs[i].own \cap fs[j].own = {}
    <3>1. i \in 1 .. Len(frames) /\ n \in 1 .. Len(frames) /\ i # n /\ fs[i] = frames[i]
      BY <1>2, <1>3, <1>5 DEF n
    <3>2. fs[i].own \cap own = {}
      BY <3>1 DEF Owners, own
    <3>3. fs[i].own \subseteq live /\ fs[i].own \cap Captured(frames, kept) = {}
      BY <3>1 DEF Owners
    <3>4. \A j \in 1 .. Len(fs) : i # j => fs[i].own \cap fs[j].own = {}
      BY <1>3, <1>5, <3>1 DEF Owners, n
    <3>5. fs[i].handler # "vec_push" => fs[i].own = {} /\ fs[i].packet.captures
      BY <3>1 DEF Owners
    <3> QED
      BY <1>7, <2>1, <3>2, <3>3, <3>4, <3>5
  <2>3. ASSUME NEW i \in 1 .. Len(fs), NEW p \in InFrame(fs, i)
        PROVE  p.captures \/ \E j \in 1 .. i : p.data \in fs[j].own
    <3>1. i \in 1 .. Len(frames) /\ p \in InFrame(frames, i)
      BY <1>5, <2>3 DEF n
    <3>2. p.captures \/ \E j \in 1 .. i : p.data \in frames[j].own
      BY <3>1 DEF Owners
    <3>3. \A j \in 1 .. i : fs[j] = frames[j]
      BY <1>2, <1>3
    <3> QED
      BY <3>2, <3>3
  <2>4. \A s \in Slots : kept[s] = Nothing \/ kept[s].captures
    BY DEF Owners
  <2> QED
    BY <1>4, <2>2, <2>3, <2>4 DEF Owners, InFrame, Captured
<1> QED
  BY <1>12, <1>13, <1>14

\* A packet is kept, or no longer.  One that is kept is the one a running
\* handler was given, and shares its block.
LEMMA KeepStep ==
    ASSUME MemoryInv, NEW s \in Slots, NEW q,
           Release(frames, [kept EXCEPT ![s] = q], {}),
           q = Nothing \/ (frames # <<>> /\ q = Top.packet /\ Top.handler # "vec_push")
    PROVE  MemoryInv'
<1> DEFINE ks == [kept EXCEPT ![s] = q]
<1> USE DEF MemoryInv
<1>1. frames' = frames /\ kept' = ks
  BY DEF Release
<1>2. q # Nothing => q \in PacketObjects /\ q.captures /\ \E i \in 1 .. Len(frames) : q \in InFrame(frames, i)
  <2> SUFFICES ASSUME q # Nothing PROVE q \in PacketObjects /\ q.captures /\ \E i \in 1 .. Len(frames) : q \in InFrame(frames, i)
    OBVIOUS
  <2>1. Len(frames) \in 1 .. Len(frames) /\ q = frames[Len(frames)].packet /\ frames[Len(frames)].handler # "vec_push"
    BY DEF TypeOK, Top
  <2>2. frames[Len(frames)] \in FrameObjects
    BY <2>1 DEF TypeOK
  <2> QED
    BY <2>1, <2>2 DEF FrameObjects, InFrame, Owners
<1>3. ks \in [Slots -> PacketObjects] /\ ks[s] = q /\ \A t \in Slots : t # s => ks[t] = kept[t]
  BY <1>2, NothingFields DEF TypeOK
<1> HIDE DEF ks
<1>4. PacketsOf(frames, ks) \subseteq PacketsOf(frames, kept)
  BY <1>2, <1>3, WhereIsPacket
<1>5. Captured(frames, ks) \subseteq Captured(frames, kept)
  BY <1>4, WhoCaptures
<1>6. \A p \in PacketsOf(frames, ks) : p.captures \/ p.data \notin Captured(frames, kept)
  BY <1>4, Owed
<1>7. Release(frames, ks, {})
  BY DEF ks
<1>8. PacketsInMemory' /\ NoLeak' /\ FreedOnce'
  BY <1>4, <1>6, <1>7, ReleaseInOrder
<1>9. TypeOK'
  BY <1>1, <1>3, <1>7 DEF TypeOK, Release
<1>10. Owners'
  <2>1. live' = live \ (Captured(frames, kept) \ Captured(frames, ks))
    BY <1>7 DEF Release
  <2>2. \A i \in 1 .. Len(frames) :
          frames[i].own \subseteq live' /\ frames[i].own \cap Captured(frames, ks) = {}
    BY <1>5, <2>1 DEF Owners
  <2>3. \A t \in Slots : ks[t] = Nothing \/ ks[t].captures
    BY <1>2, <1>3 DEF Owners
  <2> QED
    BY <1>1, <2>2, <2>3 DEF Owners, InFrame, Captured
<1> QED
  BY <1>8, <1>9, <1>10

\* A handler is entered with a packet on a block it has allocated.  It holds
\* other packets only of those there are already, and either its packet shares
\* the block or it is vec_push, which holds no other and frees the block.
LEMMA EnterStep ==
    ASSUME MemoryInv, NEW handler \in Handlers, NEW b, NEW n \in Nat, NEW packet \in PacketObjects,
           NEW held, NEW own, Enter(handler, b, n, packet, held, own),
           packet.data = b, packet.offset + packet.length <= n,
           held \subseteq PacketObjects, held \ {Nothing} \subseteq PacketsOf(frames, kept),
           \/ own = {} /\ packet.captures
           \/ own = {b} /\ ~packet.captures /\ handler = "vec_push" /\ held = {}
    PROVE  MemoryInv'
<1> DEFINE f == Frame(handler, packet, held, own)
           fs == Append(frames, f)
           m == Len(frames) + 1
<1> USE DEF MemoryInv
<1>1. b \in Blocks /\ b \notin live /\ live' = live \cup {b} /\ size' = [size EXCEPT ![b] = n]
  BY DEF Enter
<1>2. frames' = fs /\ kept' = kept /\ twice' = twice
  BY DEF Enter
<1>3. f \in FrameObjects
  BY <1>1 DEF Frame, FrameObjects
<1>4. f.handler = handler /\ f.packet = packet /\ f.held = held /\ f.own = own
  BY DEF Frame
<1> HIDE DEF f
<1>5. /\ fs \in Seq(FrameObjects) /\ Len(fs) = m /\ m \in Nat /\ fs[m] = f
      /\ \A i \in 1 .. Len(frames) : fs[i] = frames[i]
      /\ \A i \in 1 .. m : i = m \/ i \in 1 .. Len(frames)
      /\ \A i \in 1 .. Len(frames) : i \in 1 .. m
      /\ m \in 1 .. m
  BY <1>3 DEF TypeOK
<1> HIDE DEF fs, m
<1>6. TypeOK'
  BY <1>1, <1>2, <1>5 DEF TypeOK
<1>7. \A i \in 1 .. Len(frames) : InFrame(fs, i) = InFrame(frames, i)
  BY <1>5 DEF InFrame
<1>8. InFrame(fs, m) = ({packet} \cup held) \ {Nothing}
  BY <1>4, <1>5 DEF InFrame
<1>9. \A p : p \in PacketsOf(fs, kept) <=> p \in PacketsOf(frames, kept) \/ (p = packet /\ p # Nothing)
  <2> TAKE p
  <2>1. p \in PacketsOf(fs, kept) => p \in PacketsOf(frames, kept) \/ (p = packet /\ p # Nothing)
    BY <1>5, <1>7, <1>8, WhereIsPacket
  <2>2. p \in PacketsOf(frames, kept) \/ (p = packet /\ p # Nothing) => p \in PacketsOf(fs, kept)
    BY <1>5, <1>7, <1>8, WhereIsPacket
  <2> QED
    BY <2>1, <2>2
<1>10. \A c : c \in Captured(fs, kept) <=> c \in Captured(frames, kept) \/ (c = b /\ packet.captures)
  BY <1>9, WhoCaptures, NothingFields
<1>11. PacketsInMemory'
  <2>1. ASSUME NEW p \in PacketsOf(frames, kept)
        PROVE  p.data \in live' /\ p.offset + p.length <= size'[p.data]
    <3>1. p.data \in live /\ p.offset + p.length <= size[p.data]
      BY DEF PacketsInMemory
    <3>2. size'[p.data] = size[p.data]
      BY <1>1, <3>1 DEF TypeOK
    <3> QED
      BY <1>1, <3>1, <3>2
  <2>2. packet.data \in live' /\ packet.offset + packet.length <= size'[packet.data]
    BY <1>1 DEF TypeOK
  <2> QED
    BY <1>2, <1>9, <2>1, <2>2 DEF PacketsInMemory
<1>12. NoLeak'
  <2>1. \A c : c \in Own(frames) => c \in Own(fs)
    BY <1>5, WhoOwns
  <2>2. own = {b} => b \in Own(fs)
    BY <1>4, <1>5, WhoOwns
  <2>3. live' \subseteq Captured(fs, kept) \cup Own(fs)
    BY <1>1, <1>10, <2>1, <2>2, NoLeakOwn
  <2> QED
    BY <1>2, <2>3 DEF NoLeak, Own
<1>13. FreedOnce'
  BY <1>2 DEF FreedOnce
<1>14. Owners'
  <2>1. Captured(frames, kept) \subseteq live
    BY WhoCaptures DEF PacketsInMemory
  <2>2. own \subseteq {b} /\ own \cap Captured(fs, kept) = {}
    BY <1>1, <1>10, <2>1
  <2>3. \A i \in 1 .. Len(frames) : b \notin frames[i].own
    BY <1>1 DEF Owners
  <2>4. ASSUME NEW i \in 1 .. Len(fs)
        PROVE  /\ fs[i].handler # "vec_push" => fs[i].own = {} /\ fs[i].packet.captures
               /\ fs[i].own \subseteq live'
               /\ fs[i].own \cap Captured(fs, kept) = {}
               /\ \A j \in 1 .. Len(fs) : i # j => fs[i].own \cap fs[j].own = {}
    <3>1. CASE i = m
      <4>1. \A j \in 1 .. Len(fs) : i # j => fs[i].own \cap fs[j].own = {}
        BY <1>4, <1>5, <2>2, <2>3, <3>1
      <4>2. fs[i].handler # "vec_push" => fs[i].own = {} /\ fs[i].packet.captures
        BY <1>4, <1>5, <3>1
      <4> QED
        BY <1>1, <1>4, <1>5, <2>2, <3>1, <4>1, <4>2
    <3>2. CASE i \in 1 .. Len(frames)
      <4>1. \A j \in 1 .. Len(fs) : i # j => fs[i].own \cap fs[j].own = {}
        BY <1>4, <1>5, <2>2, <2>3, <3>2 DEF Owners
      <4>2. fs[i].own \cap Captured(fs, kept) = {}
        BY <1>5, <1>10, <2>3, <3>2 DEF Owners
      <4>3. fs[i].handler # "vec_push" => fs[i].own = {} /\ fs[i].packet.captures
        BY <1>5, <3>2 DEF Owners
      <4> QED
        BY <1>1, <1>5, <3>2, <4>1, <4>2, <4>3 DEF Owners
    <3> QED
      BY <1>5, <3>1, <3>2
  <2>5. ASSUME NEW i \in 1 .. Len(fs), NEW p \in InFrame(fs, i)
        PROVE  p.captures \/ \E j \in 1 .. i : p.data \in fs[j].own
    <3>1. CASE p \in PacketsOf(frames, kept) /\ i = m
      <4>1. p.captures \/ \E j \in 1 .. Len(frames) : p.data \in frames[j].own
        BY <3>1, Owed
      <4> QED
        BY <1>5, <3>1, <4>1
    <3>2. CASE p = packet /\ i = m
      BY <1>4, <1>5, <3>2
    <3>3. CASE i \in 1 .. Len(frames)
      <4>1. p.captures \/ \E j \in 1 .. i : p.data \in frames[j].own
        BY <1>7, <2>5, <3>3 DEF Owners
      <4>2. \A j \in 1 .. i : fs[j] = frames[j]
        BY <1>5, <3>3
      <4> QED
        BY <4>1, <4>2
    <3> QED
      BY <1>5, <1>8, <2>5, <3>1, <3>2, <3>3
  <2>6. \A s \in Slots : kept[s] = Nothing \/ kept[s].captures
    BY DEF Owners
  <2> QED
    BY <1>2, <2>4, <2>5, <2>6 DEF Owners, InFrame, Captured
<1> QED
  BY <1>6, <1>11, <1>12, <1>13, <1>14

\* A reader's narrower window ends inside the one it was given, which the
\* frame goes on holding.
LEMMA NarrowStep ==
    ASSUME MemoryInv, NEW p, Narrow(p), IsPacket(p),
           p.data = Top.packet.data, p.captures <=> Top.packet.captures,
           p.offset + p.length <= Top.packet.offset + Top.packet.length
    PROVE  MemoryInv'
<1> DEFINE n == Len(frames)
           q == frames[n].packet
<1> USE DEF MemoryInv
<1>1. n \in Nat /\ n > 0 /\ n \in 1 .. n /\ frames[n].handler = "handleData"
  BY DEF Narrow, Running, Top, TypeOK
<1>2. /\ frames' = [frames EXCEPT ![n].packet = p, ![n].held = @ \cup {q}]
      /\ UNCHANGED <<live, size, kept, twice>>
  BY DEF Narrow, Top
<1>3. frames[n] \in FrameObjects /\ q \in PacketObjects /\ q.captures /\ frames[n].own = {}
  <2>1. frames[n] \in FrameObjects
    BY <1>1 DEF TypeOK
  <2> QED
    BY <1>1, <2>1 DEF FrameObjects, Owners
<1>4. q \in InFrame(frames, n) /\ q # Nothing /\ q \in PacketsOf(frames, kept)
  BY <1>1, <1>3, WhereIsPacket, NothingFields DEF InFrame
<1>5. p.data \in live /\ p.offset + p.length <= size[p.data]
  <2>1. q.data \in live /\ q.offset + q.length <= size[q.data]
    BY <1>4 DEF PacketsInMemory
  <2>2. size[q.data] \in Nat /\ q.offset \in Nat /\ q.length \in Nat /\ p.offset \in Nat /\ p.length \in Nat
    BY <1>3, <2>1 DEF TypeOK, PacketObjects, IsPacket
  <2>3. p.data = q.data /\ p.offset + p.length <= q.offset + q.length
    BY DEF Top
  <2> HIDE DEF q, MemoryInv
  <2> QED
    BY <2>1, <2>2, <2>3
<1>6. p \in PacketObjects /\ p.captures
  <2>1. p.data \in Blocks /\ p.captures
    BY <1>3, <1>5 DEF TypeOK, Top
  <2> QED
    BY <2>1 DEF IsPacket, PacketObjects
<1>7. p # Nothing
  BY <1>6, NothingFields
<1>8. /\ frames' \in Seq(FrameObjects) /\ Len(frames') = n
      /\ \A i \in 1 .. n : i # n => frames'[i] = frames[i]
  <2> DEFINE f == [frames[n] EXCEPT !.packet = p, !.held = @ \cup {q}]
  <2>1. f \in FrameObjects
    BY <1>3, <1>6 DEF FrameObjects
  <2>2. frames' = [frames EXCEPT ![n] = f]
    BY <1>2
  <2>3. frames \in Seq(FrameObjects)
    BY DEF TypeOK
  <2> HIDE DEF f, MemoryInv
  <2> QED
    BY <1>1, <2>1, <2>2, <2>3
<1>9. /\ frames'[n].packet = p /\ frames'[n].held = frames[n].held \cup {q}
      /\ frames'[n].own = frames[n].own /\ frames'[n].handler = "handleData"
  BY <1>1, <1>2, <1>3 DEF TypeOK, FrameObjects
<1> HIDE DEF n, q
<1>10. \A i \in 1 .. n : i # n => InFrame(frames', i) = InFrame(frames, i)
  BY <1>8 DEF InFrame
<1>11. InFrame(frames', n) = InFrame(frames, n) \cup {p}
  BY <1>4, <1>7, <1>9 DEF InFrame, q
<1>12. \A x : x \in PacketsOf(frames', kept) <=> x \in PacketsOf(frames, kept) \/ x = p
  <2> TAKE x
  <2>1. x \in PacketsOf(frames', kept) => x \in PacketsOf(frames, kept) \/ x = p
    BY <1>8, <1>10, <1>11, WhereIsPacket DEF n
  <2>2. x \in PacketsOf(frames, kept) \/ x = p => x \in PacketsOf(frames', kept)
    BY <1>1, <1>7, <1>8, <1>10, <1>11, WhereIsPacket DEF n
  <2> QED
    BY <2>1, <2>2
<1>13. Captured(frames', kept) = Captured(frames, kept)
  <2>1. p.data \in Captured(frames, kept)
    BY <1>3, <1>4, WhoCaptures DEF Top, n, q
  <2>2. \A b : b \in Captured(frames', kept) <=> b \in Captured(frames, kept)
    BY <1>12, <2>1, WhoCaptures
  <2> QED
    BY <2>2
<1>14. TypeOK'
  BY <1>2, <1>8 DEF TypeOK
<1>15. PacketsInMemory' /\ FreedOnce'
  BY <1>2, <1>5, <1>12 DEF PacketsInMemory, FreedOnce
<1>16. \A i \in 1 .. n : frames'[i].own = frames[i].own
  BY <1>8, <1>9
<1>17. NoLeak'
  <2>1. \A b : b \in Own(frames) => b \in Own(frames')
    BY <1>8, <1>16, WhoOwns DEF n
  <2>2. live \subseteq Captured(frames', kept) \cup Own(frames')
    BY <1>13, <2>1, NoLeakOwn
  <2> QED
    BY <1>2, <2>2 DEF NoLeak, Own
<1>18. Owners'
  <2>1. ASSUME NEW i \in 1 .. Len(frames')
        PROVE  /\ frames'[i].handler # "vec_push" => frames'[i].own = {} /\ frames'[i].packet.captures
               /\ frames'[i].own \subseteq live
               /\ frames'[i].own \cap Captured(frames', kept) = {}
               /\ \A j \in 1 .. Len(frames') : i # j => frames'[i].own \cap frames'[j].own = {}
    <3>1. i \in 1 .. Len(frames)
      BY <1>8 DEF n
    <3>2. /\ frames'[i].own \subseteq live
          /\ frames'[i].own \cap Captured(frames', kept) = {}
          /\ \A j \in 1 .. Len(frames') : i # j => frames'[i].own \cap frames'[j].own = {}
      BY <1>8, <1>13, <1>16, <3>1 DEF Owners, n
    <3>3. frames'[i].handler # "vec_push" => frames'[i].own = {} /\ frames'[i].packet.captures
      BY <1>3, <1>6, <1>8, <1>9, <3>1 DEF Owners, n
    <3> QED
      BY <3>2, <3>3
  <2>2. ASSUME NEW i \in 1 .. Len(frames'), NEW x \in InFrame(frames', i)
        PROVE  x.captures \/ \E j \in 1 .. i : x.data \in frames'[j].own
    <3>1. CASE x = p
      BY <1>6, <3>1
    <3>2. CASE x # p
      <4>1. i \in 1 .. Len(frames) /\ x \in InFrame(frames, i)
        BY <1>8, <1>10, <1>11, <2>2, <3>2 DEF n
      <4>2. x.captures \/ \E j \in 1 .. i : x.data \in frames[j].own
        BY <4>1 DEF Owners
      <4>3. \A j \in 1 .. i : frames'[j].own = frames[j].own
        BY <1>1, <1>16, <4>1 DEF n
      <4> QED
        BY <4>2, <4>3
    <3> QED
      BY <3>1, <3>2
  <2>3. \A s \in Slots : kept[s] = Nothing \/ kept[s].captures
    BY DEF Owners
  <2> QED
    BY <1>2, <2>1, <2>2, <2>3 DEF Owners, InFrame, Captured
<1> QED
  BY <1>14, <1>15, <1>17, <1>18

\* Every packet there is is a Packet object.
LEMMA PacketsTyped ==
    ASSUME TypeOK
    PROVE  PacketsOf(frames, kept) \subseteq PacketObjects
<1>1. \A i \in 1 .. Len(frames) : frames[i] \in FrameObjects
  BY DEF TypeOK
<1>2. \A i \in 1 .. Len(frames) : InFrame(frames, i) \subseteq PacketObjects
  BY <1>1 DEF InFrame, FrameObjects
<1> QED
  BY <1>2, WhereIsPacket DEF TypeOK

\* A new packet on the whole of a new block that shares it.
LEMMA EnterSharing ==
    ASSUME MemoryInv, NEW handler \in Handlers, NEW b \in Blocks, NEW n \in Nat, NEW held,
           Enter(handler, b, n, MakePacket(b, 0, n), held, {}),
           held \subseteq PacketObjects, held \ {Nothing} \subseteq PacketsOf(frames, kept)
    PROVE  MemoryInv'
<1> DEFINE p == MakePacket(b, 0, n)
<1>1. IsPacket(p) /\ p.data = b /\ p.offset = 0 /\ p.length = n
  BY MakePacketFields
<1>2. p.captures
  BY MakePacketCaptures
<1> HIDE DEF p
<1>3. p \in PacketObjects /\ p.offset + p.length <= n
  BY <1>1 DEF IsPacket, PacketObjects
<1> QED
  BY <1>1, <1>2, <1>3, EnterStep DEF p

\* Stream::write of several packets.
LEMMA GatherStep ==
    ASSUME MemoryInv, NEW handler \in Handlers, NEW b \in Blocks, NEW header \in Nat,
           NEW p \in PacketObjects, p = Nothing \/ p \in PacketsOf(frames, kept),
           Gather(handler, b, header, p)
    PROVE  MemoryInv'
<1>1. header + p.length \in Nat
  BY DEF PacketObjects
<1> QED
  BY <1>1, EnterSharing DEF Gather

\* Every step of every handler keeps memory in order.
LEMMA MemoryStep ==
    ASSUME Keepers = {}, MemoryInv, [Next]_vars
    PROVE  MemoryInv'
<1>sizes. \A n \in Sizes : n \in Nat
  BY SizesAssumption
<1>top. /\ Running # "event loop" => frames # <<>> /\ Running = Top.handler
        /\ frames # <<>> => Top \in FrameObjects /\ Top.packet \in PacketObjects
                            /\ (Top.packet = Nothing \/ Top.packet \in PacketsOf(frames, kept))
  <2>1. Running # "event loop" => frames # <<>> /\ Running = Top.handler
    BY DEF Running
  <2>2. ASSUME frames # <<>>
        PROVE  Top \in FrameObjects /\ Top.packet \in PacketObjects
               /\ (Top.packet = Nothing \/ Top.packet \in PacketsOf(frames, kept))
    <3>1. Len(frames) \in 1 .. Len(frames) /\ Top \in FrameObjects
      BY <2>2 DEF Top, MemoryInv, TypeOK
    <3> QED
      BY <3>1, WhereIsPacket DEF Top, FrameObjects, InFrame
  <2> QED
    BY <2>1, <2>2
<1>1. ASSUME NEW b \in Blocks, NEW n \in Sizes,
             Receive("onPacketArrived", b, n) \/ Receive("watcherEvent", b, n)
      PROVE  MemoryInv'
  <2>1. PICK handler \in Handlers : Enter(handler, b, n, MakePacket(b, 0, n), {}, {})
    BY <1>1 DEF Receive, Released, Handlers
  <2> QED
    BY <2>1, <1>sizes, EnterSharing
<1>2. ASSUME NEW b \in Blocks, NEW n \in Sizes, HandleData(b, n) \/ Push(b, n)
      PROVE  MemoryInv'
  BY <1>2, <1>sizes, EnterSharing DEF HandleData, Push, Wrapped, Handlers
<1>3. ASSUME NEW b \in Blocks, NEW n \in Sizes, VecPush(b, n)
      PROVE  MemoryInv'
  <2> DEFINE q == NoCapture(MakePacket(b, 0, n))
  <2>1. IsPacket(q) /\ q.data = b /\ q.offset = 0 /\ q.length = n
    BY <1>sizes, MakePacketFields, NoCaptureFields
  <2>2. ~q.captures
    BY <1>sizes, MakePacketFields, NoCaptureCaptures
  <2>3. Enter("vec_push", b, n, q, {}, {b})
    BY <1>3 DEF VecPush
  <2> HIDE DEF q
  <2>4. q \in PacketObjects /\ q.offset + q.length <= n
    BY <2>1, <1>sizes DEF IsPacket, PacketObjects
  <2> QED
    BY <2>1, <2>2, <2>3, <2>4, <1>sizes, EnterStep DEF Handlers
<1>4. ASSUME NEW b \in Blocks, NEW p \in PacketsOf(frames, kept), ChannelWrite(b, p)
      PROVE  MemoryInv'
  <2>1. p \in PacketObjects
    BY PacketsTyped DEF MemoryInv
  <2> QED
    BY <1>4, <2>1, GatherStep DEF ChannelWrite, HeaderSize, Handlers
<1>5. ASSUME NEW b \in Blocks, PushGathered(b)
      PROVE  MemoryInv'
  BY <1>5, <1>top, GatherStep DEF PushGathered, Handlers
<1>6. ASSUME NEW n \in Sizes, frames # <<>>, Narrow(Skip(Top.packet, n)) \/ Narrow(Truncate(Top.packet, n))
      PROVE  MemoryInv'
  <2> DEFINE q == Top.packet
  <2>1. IsPacket(q) /\ q.offset \in Nat /\ q.length \in Nat
    BY <1>6, <1>top DEF IsPacket, PacketObjects
  <2> HIDE DEF q
  <2>2. /\ IsPacket(Skip(q, n)) /\ Skip(q, n).data = q.data
        /\ Skip(q, n).offset + Skip(q, n).length <= q.offset + q.length
    <3>1. /\ IsPacket(Skip(q, n)) /\ Skip(q, n).data = q.data
          /\ Skip(q, n).offset + Skip(q, n).length = q.offset + q.length
      BY <2>1, <1>sizes, SkipFields
    <3> QED
      BY <2>1, <3>1
  <2>3. Skip(q, n).captures <=> q.captures
    BY <2>1, <1>sizes, SkipCaptures
  <2>4. /\ IsPacket(Truncate(q, n)) /\ Truncate(q, n).data = q.data
        /\ Truncate(q, n).offset = q.offset /\ Truncate(q, n).length <= q.length
    BY <2>1, <1>sizes, TruncateFields
  <2>5. Truncate(q, n).offset + Truncate(q, n).length <= q.offset + q.length
    BY <2>1, <2>4 DEF IsPacket
  <2>6. Truncate(q, n).captures <=> q.captures
    BY <2>1, <1>sizes, TruncateCaptures
  <2> QED
    BY <1>6, <2>2, <2>3, <2>4, <2>5, <2>6, NarrowStep DEF q
<1>7. ASSUME ReadPacket
      PROVE  MemoryInv'
  BY <1>7, <1>top, KeepStep DEF ReadPacket, Copied, Slots
<1>8. ASSUME WritePacket
      PROVE  MemoryInv'
  BY <1>8, <1>top, KeepStep DEF WritePacket, Copied, Slots
<1>9. ASSUME NEW s \in Slots, Drop(s)
      PROVE  MemoryInv'
  BY <1>9, KeepStep DEF Drop
<1>10. ASSUME Return
       PROVE  MemoryInv'
  BY <1>10, ReturnStep
<1>11. CASE UNCHANGED vars
  BY <1>11 DEF vars, MemoryInv, TypeOK, Owners, InFrame, Captured, PacketsOf, PacketsInMemory, NoLeak, FreedOnce
<1> QED
  BY <1>1, <1>2, <1>3, <1>4, <1>5, <1>6, <1>7, <1>8, <1>9, <1>10, <1>11 DEF Next

\* At the start there is no frame and no packet.
LEMMA MemoryInit == Init => MemoryInv
<1> SUFFICES ASSUME Init PROVE MemoryInv
  OBVIOUS
<1>1. TypeOK
  <2>1. twice \in BOOLEAN
    BY Zenon DEF Init
  <2>2. live \subseteq Blocks /\ size \in [Blocks -> Nat] /\ frames \in Seq(FrameObjects)
    BY DEF Init
  <2>3. kept \in [Slots -> PacketObjects]
    BY NothingFields DEF Init
  <2> QED
    BY <2>1, <2>2, <2>3 DEF TypeOK
<1>2. Len(frames) = 0 /\ \A s \in Slots : kept[s] = Nothing
  BY DEF Init
<1>3. PacketsOf(frames, kept) = {}
  BY <1>2, WhereIsPacket
<1>4. Owners
  BY <1>2 DEF Owners
<1>5. PacketsInMemory
  BY <1>3 DEF PacketsInMemory
<1>6. NoLeak /\ FreedOnce
  BY DEF Init, NoLeak, FreedOnce
<1> QED
  BY <1>1, <1>4, <1>5, <1>6 DEF MemoryInv

\* When every handler gives up the pointer it wraps, MemoryInv holds always.
LEMMA MemoryAlways ==
    ASSUME Keepers = {}
    PROVE  Spec => []MemoryInv
<1>1. MemoryInv /\ [Next]_vars => MemoryInv'
  BY MemoryStep
<1> QED
  BY <1>1, MemoryInit, PTL DEF Spec

\* No block is deleted twice, however deep handlers nest and whichever packets
\* readPacket and writePacket keep beyond them: ArrayDelete is the one owner.
THEOREM OneOwner ==
    ASSUME Keepers = {}
    PROVE  Spec => []FreedOnce
<1>1. MemoryInv => FreedOnce
  BY DEF MemoryInv
<1> QED
  BY <1>1, MemoryAlways, PTL

\* No packet reaches outside its block or outlives it: skip() and truncate()
\* clamp, and a packet on gnutls' memory is gone before vec_push returns.
THEOREM MemoryInBounds ==
    ASSUME Keepers = {}
    PROVE  Spec => []PacketsInMemory
<1>1. MemoryInv => PacketsInMemory
  BY DEF MemoryInv
<1> QED
  BY <1>1, MemoryAlways, PTL

\* Every block has a packet that will delete it or a handler that will free it.
THEOREM NothingLeaks ==
    ASSUME Keepers = {}
    PROVE  Spec => []NoLeak
<1>1. MemoryInv => NoLeak
  BY DEF MemoryInv
<1> QED
  BY <1>1, MemoryAlways, PTL

=============================================================================
