# Verification of wetnork

wetnork is a peer-to-peer VPN: tunnel devices on the host, UDP links between
peers, a DTLS session over each link and channels multiplexed over the session.
This directory holds TLA+ models of the parts with the hardest behaviour, the
TLC configurations that check them, and TLAPS proofs. Paths below are relative
to the repository.

## Inventory

| Part | State | Operations | Interacts with | Must hold |
|---|---|---|---|---|
| `Tunnel::ReliableChannel` (`net/Tunnel.ReliableChannel.cpp`) | `localSeq`, `peerSeq`, `inFlightPacket`, a one-shot timer | `writePacket`, `transmitQueue` (on timeout), `readPacket` | writes to and is fed from a `Stream`; raises `receive` and `canSend` | in order, once, confirmed only when delivered, retried until then |
| `CryptoSession` (`net/CryptoSession.cpp`) | `_state`, `currentPacket`, the gnutls session | `open`, `renegotiate`, `close`, `write`, `readPacket` | gnutls calls back into `pull`/`push`; listeners of `stateChanged` may call the session again | open only with a verified peer and agreed keys; ended for good; opening completes |
| `CryptoContext` (`net/CryptoContext.cpp`) | credentials, `_permissiblePeers` | `openSession`, `permissiblePeers`, certificate callback | used by every session's handshake | the set in force at the handshake decides |
| `host::TunDevice`, `TunRegistry`, `TunAdminContext` (`host/`) | descriptors and interface indices; map of devices | create, find, close, `dup`, moves, link state and MTU | kernel: tun driver, netlink | one owner per descriptor, no leak, admin calls reach the handle's device |
| `UdpSocket`, `UdpLink`, `Link`, `Socket` (`net/`) | map from peer address to link, descriptors, link state | `create`, `connect`, `onPacketArrived`, `write`, `close` | kernel sockets, libev | a datagram reaches the link of its peer; a live link has a live descriptor |
| `Tunnel`, `UnreliableChannel`, `net/TunDevice` | a session, a tun device, a data channel | `propagate`, `tunRead`, `dataRead`, destructor | joins device and session | what one device reads the other writes; a tunnel goes away cleanly |
| `Packet`, `Stream` (`include/`, `common/`) | shared buffer, offset, length | `skip`, `truncate`, `write` of several packets | everywhere | ranges stay inside the buffer; one owner frees it, once |
| `IPAddress`, `SocketAddress` | value classes | order, equality, conversion | keys of maps | a strict order |
| `ipc::Serializer`, `Deserializer`, `Archive` | buffer, offsets, descriptors | `run`, `read*`, `write*` | address classes | what is written is read back |

Hard behaviour: the network loses, repeats and reorders datagrams; timers race
late acknowledgements; callbacks re-enter the object that raised them; a
write may throw half way through a step; sequence numbers wrap; handles that own
descriptors are moved about. `PROJECT.json` lists these hazards at their lines,
with the properties that cover them or the reason why none does.

## Modules

| Module | Models |
|---|---|
| `ReliableChannel` | both ends of a reliable channel and the datagram service below |
| `OrderedDelivery` | what such a pair promises, abstractly |
| `ReliableChannelProofs` | the inductive invariant, the theorems and their proofs |
| `CryptoSession` | a client and a server session, the context's permissible peers, gnutls by its contract |
| `CryptoSessionProofs` | theorems about sessions, and that they implement `SessionStream` |
| `SessionStream` | what a pair of sessions promises the code above it, abstractly |
| `TunnelPath` | two tunnels with their devices and data channels, over `SessionStream` |
| `TunnelPathProofs` | theorems about the lifetime of a tunnel, what it carries, and the repository as it stands |
| `Packet` | the constructors of a packet, `skip`, `truncate` |
| `PacketBuffers` | who owns the memory of packets on their way through a peer |
| `PacketBuffersProofs` | theorems about that memory |
| `Tables` | functions with a changing domain, for the kernel's tables and the program's maps |
| `OperatorProofs` | lemmas on the operators of `Packet` and `Tables` |
| `HostTun` | handles, registry, admin calls, the kernel's files and links |
| `HostTunProofs` | theorems about them |
| `UdpSocket` | a socket, its links and the map it keeps them in |
| `UdpSocketProofs` | theorems about them |
| `Serialization` | the two passes of the serializer, the archive, the reader |
| `SerializationProofs` | theorems about what is written and read back |
| `MC*` | small instances for TLC |

Definitions named "Mutant" are deliberate faults, used to confirm that each
property can fail; no specification uses them.

### ReliableChannel

Per end: `localSeq`, `peerSeq`, `inFlight` (the packet, named by its place in the
order `writePacket` accepted it) and `timer`. `net` is the set of datagrams on
their way; reading one may leave a copy, `Lose` removes one. One action per
handler: `WritePacket`, `OnTimeout` (which runs `TransmitQueue`), and
`ReadAck`/`ReadStaleAck`/`ReadData` for the branches of `readPacket`. A
`next.write()` that throws is the second disjunct of `TransmitQueue`; one that
throws while acknowledging is a lost acknowledgement. `SeqMod` stands for 2^32.

**The code as it stands sends nothing.** `writePacket` stores the packet;
`transmitQueue` is private, only `onTimeout` calls it, and only `transmitQueue`
starts the timer. (`Tunnel::getChannel` does not create a reliable channel
either.) `StartTransmission` supplies the missing first call and is enabled only
when the constant `OwnerTransmits` is TRUE. With FALSE the model is the
repository, and theorem `NothingSentAsWritten` states the consequence. All the
other results are about the rest of the code, given that call.

Two more facts are built into the properties because they are what the code
does: packet 1, number 0, is acknowledged and never delivered (`peerSeq` starts
at 0, the test is `peerSeq < seq`), and after number `SeqMod - 1` nothing is
delivered, though everything is acknowledged. Hence `First <- 2, Last <- SeqMod`
in the refinement of `OrderedDelivery`.

### CryptoSession

Two ends, each with `state`, `currentPacket` and its context's verdict on the
peer's key (`permitted`, changed by `PermissiblePeers`). The handlers are whole:
`ReadPacket` is `readPacket` with `handlePacket`, `handleHandshake` and
`handleData` behind it. The two places where the code goes on after a
`stateChanged` signal (in `open()`, and in `handleData()` on
`GNUTLS_E_REHANDSHAKE`) are split by `pending`: while the listener runs it may
`Close` the session, and the other end runs freely; `Continue` is the rest.

gnutls is external. Its contract here: four handshake flights of one datagram
each; records belong to a key epoch, and a replayed record or one of another
epoch is discarded with `GNUTLS_E_AGAIN`; data of the current epoch met in a
handshake gives `GNUTLS_E_GOT_APPLICATION_DATA`; a client's ClientHello or a
server's HelloRequest met in an open session gives `GNUTLS_E_REHANDSHAKE`;
`gnutls_rehandshake` does nothing for a client; close_notify ends reading, and
ends a handshake with an error. Resending by gnutls' own timer is left out:
no code of the session calls gnutls when time passes. A session is taken to have
cipher priorities, which `openSession` does not set: some versions of gnutls supply a
default, the others fail the first handshake.

**The code as it stands opens no session**, for two reasons on the way to and from gnutls.
`push()` and `vec_push()` return the bool of `next.write()` where gnutls expects the
number of bytes sent. So gnutls takes all of a record but its first byte for unsent
(`unsent`, with `RecordSize` bytes to a record), pushes the rest before it does anything
else in the next call, as a datagram that is no record (`Resent`, `Junk`), and returns
`GNUTLS_E_AGAIN` as long as something is left (`Stalls`); until then it does not read, and
a packet that comes waits in `currentPacket` (`Receives`). And the certificate callback
dereferences `gnutls_session_get_ptr()`, which nobody sets, so that the first certificate
to be verified brings the program down (`Crash`, `crashed`). The constant `Builds` says
which programs run: `repaired` is TRUE where `push()` returns the size and the pointer is
set, FALSE for the repository, and everything else is the same in both. `cs_datagrams`
has both builds, and `OpensOnlyRepaired` with theorem `NothingOpensAsWritten` states the
consequence. The safety properties hold of both. What is said of opening, of data
that arrives, of closing, of a client that recovers and of `GNUTLS_E_AGAIN` over an ordered link
(`cs_ordered`, `cs_again`, `AgainHarmless`) is about the repaired program.

An open session's `write()` is modelled when it accepts the packet; one that returns
false or throws changes nothing.

The link is either `Datagrams` (everything ever written may come at any time, any
number of times, or never) or an ordered link that loses nothing.

`ImplementsStream` says that the pair implements `SessionStream` over both kinds of
link: what an owner sees is five phases, packets written only in one of them, each
handed over at most once (in order and without a gap if the link keeps order), and
an end that is final and has a cause. `TunnelPath` uses that promise and nothing else
of a session.

Two weak points are built into the liveness properties. A client's `renegotiate()`
sends nothing and leaves it in `Renegotiating`, where `write()` throws, until some
packet comes: `ClientWaits` is excepted from `OpeningCompletes`, and `ClientRecovers`
says that any packet ends the wait. And a session closed in its first handshake,
before the peer has called `open()`, leaves the peer in `Opening`, since
`currentPacket` keeps only the last of the packets that come too early;
`CloseReachesPeer` is about sessions that have keys.

### TunnelPath

Per host a `Tunnel` (`none`, `up`, `gone`, or how its program died), and the variables
of `SessionStream`, whose actions are conjoined with those of the tunnel. From the
device: `WatcherEvent` is `watcherEvent`, `tunRead`, `writePacket` and the gathering
`Stream::write`. To the device: `Arrive` is `propagate`, `getChannel`, `readPacket`,
`dataRead` and the device's `write`. A session may refuse a packet whether it is open or
not; the packet is then lost. `Destroy` is the destructor, out of which
whatever `close()` throws ends the program.

**The code as it stands carries nothing.** The constructor dereferences the parameter
`tun` after moving it into the member of the same name, and nobody connects the
session's read signal to `propagate()`. `Repairs` names which of the two is mended;
`{}` is the repository, and theorem `NothingCarriedAsWritten` states the
consequence. The run mends both. It also takes for granted that a session survives
the defaulted move into the tunnel (its gnutls transport pointer and its read
connection refer to the old object) and that the device's watcher, which is started
without a descriptor, reports events.

What remains has one more fault, which `DeviceGetsPayload` states as what the code
does: `propagate()` skips the channel byte and the channel skips its header, which is
the same byte, so every packet loses its first byte. A `read()` that fails gives a
length of `SizeMod - 1`; with the header's byte the `size_t` sum wraps to 0 and the
copy overruns, which `CrashedByRead` shows to be the only way to do so.
Destroying a tunnel after the peer destroyed its own terminates the program;
`TerminatedByPeer` shows that apart from sessions that were never opened or have
failed this is the only way.

### PacketBuffers

Handlers nest: a datagram is read, gnutls decrypts it, `handleData` propagates the
data, a channel writes it to another session, gnutls pushes a record into a link.
Each is a frame with the packet it hands on, the packets it holds besides and the
blocks it frees itself when it returns. `kept` has the two packets that outlive
handlers, `currentPacket` and `inFlightPacket`. A block is freed when the last packet
that captures it goes, and by the handlers in `Keepers`, which wrap a pointer that
somebody else also owns. In the repository these are `handleData` (a `unique_ptr`) and
`vec_push` (memory of gnutls). With either in `Keepers` `FreedOnce` fails at once;
with none, all of the rest of the code is right. The only blocks a handler then frees
itself are those behind `vec_push`, which gnutls frees when the push function returns.

`include/Packet.hpp:86` says of `truncate` that the result is 0 bytes long if the
argument is larger than `length()`. The code clamps, and so does the model; nothing
in the repository calls it.

### HostTun

`devices` and `locals` map names and program variables to handles
`[fd, ifIndex, name]`. The kernel part has `files` (descriptor to interface index)
and `links`; closing the last file of a link removes it, and descriptors are reused
lowest first, which is what makes a double close dangerous. `MoveAssign`
leaves `ifIndex` alone, as `operator=` does. Calls that throw without changing
anything are guards. `CreateDevice(n)` stands for a template that is `n` and for
one whose `%d` the kernel turns into `n`. Deletion of a device by another process
is not modelled.

### UdpSocket

`peers` is a `std::map` ordered by `SocketAddress::operator<`, which is `memcmp(...)`
taken as a bool: true of any two different addresses. The standard leaves
`std::map` undefined under such an order; the model is what libstdc++ does, which
was compared with the container over random sequences of `connect`. The first peer
is the root of the tree and is found. Any other is inserted to the left of the
root and looked for to the right, so that `peers.at(peer)` throws out of `connect()`,
and the next insertion overwrites it. Hence the variables `root` and `left`, and the
fact that a socket serves one peer. Connecting again to that peer destroys the
old link, whose destructor erases the node that already holds the new one
(`Replace`); with no second entry the erase is a `clear()` that finds the node
again, and `corrupt` is set, after which nothing is modelled. Here the model is not exact:
an overwritten child leaves the tree's pointer to its leftmost node stale, and libstdc++
then does not see that it erases the only node (peers 1, 2, 3, 1, 3). That takes a program
that has connected again to a peer it held a link of, of which no property but the types
and `SendsByStray` says anything. `again` remembers
that the program connected to a peer it held a link of; links only die that way or
with the socket. `UdpLink::write` sends through whatever file has the number of the
descriptor that `connect()` closed before the link got it: none, when it throws, or a
socket that a failing `connect()` left behind. A later `connect()` reuses the number
only to close it again, so that no link ever sends through another's socket or the
listening one (`SendsByStray`). Files that other parts of the program open are not
modelled; one of those may of course get the number too.

### Serialization

An object tree is the sequence of its leaves in the order of the walk. `Write` is
one `write()` or `writeFd()`, the same on both passes except that `buffer_` is
null on the first. The reader walks the same types; of an `IPAddress` it reads the
family, which decides how much follows. The constructor of `Deserializer` leaves both
offsets unset, so `StartRead` chooses them from `StackValues`, and `zeroed` remembers
whether both were 0 by chance. `ReadBack` claims nothing otherwise: the first read is
then from a wrong place, against `include/ipc/Deserializer.hpp:124` ("Deserializes an
object tree from it's representation"). (`deserialize<IPAddress>` itself does not compile: the
union in `pop` needs a default constructor. An address is read by a class whose own
`deserialize` calls that of its members.)

## Runs

| Run | Instance | Shows |
|---|---|---|
| `rc_channel` | 3 sequence numbers, 4 and 1 packets, at most 5 confirmations, `next` may throw | `DeliveredInOrder`, `ConfirmedDelivered`, `WindowOfOne`, `OnlyStartedOnWire`, `KeepsRetrying`, `ImplementsPromise`, `EventuallyConfirmed` |
| `cs_datagrams` | both builds, records of 3 bytes, unreliable link, 2 key epochs, 1 packet each way, both ends renegotiate and close, keys revoked and restored | `OpenIsAdmitted`, `EpochsAgree`, `EndsForGood`, `OpensOnlyRepaired`, `ImplementsStream` |
| `cs_ordered` | repaired, ordered link, 3 epochs, 2 packets each way, both ends renegotiate and close, keys revoked and restored | `AgainIsNonFatal`, `ImplementsStream`, `OpeningCompletes`, `ClientRecovers`, `DataArrives`, `CloseReachesPeer` |
| `cs_again` | repaired, unreliable link, 1 epoch | **violated**: `AgainIsNonFatal` |
| `tun_handles` | 2 names, 2 variables, 4 descriptors, 3 links, 2 MTUs, moves and assignments; variables are symmetric | `SoleOwner`, `HandleNamesLink`, `NoLeak`, `ReferencesStay`, `AdminActsUnlessAssigned` |
| `tun_assign` | the same | **violated**: `AdminActsOnHandle` |
| `udp_links` | 4 peers, one unreachable, 5 links, 3 descriptors | `HandedToSender`, `HeldIsLive`, `HeldHears`, `SendsByStray` |
| `udp_keys` | 3 links, 2 descriptors | **violated**: `KeysAreFound` |
| `ser_roundtrip` | all trees of up to 3 leaves, offsets start at 0 or 1 | `ArchiveFilled`, `ReadBack` |
| `pkt_buffers` | 6 blocks, packets of 0 and 2 bytes, no keepers; blocks are symmetric | `PacketsInMemory`, `NoLeak`, `FreedOnce` |
| `pkt_owner` | the same with `handleData` as it stands | **violated**: `FreedOnce` |
| `tunnel_path` | 2 packets each way of 1 or 2 bytes, sizes below 4, `read()` may fail, ordered link, both repairs | `DeviceGetsPayload`, `NeverRejects`, `TerminatedByPeer`, `CrashedByRead` |

Bounds. Four packets over three numbers wrap once, which is where the channel
changes behaviour, and a fifth confirmation lets an old acknowledgement match a
wrapped number. A record of three bytes is pushed again twice, once by a call that gets no
further and once by one that does. Two epochs give one renegotiation, three give two. Three
handles at most share four descriptors, so one is reused; three links let a
name come back under a new index. Three reachable peers fill the two nodes of the map and
overwrite one. Three leaves put a leaf of each kind before and after another, and
address cells take values that are also families. Six blocks are enough for the
deepest nesting (datagram, decrypted data, gathered write, record) with both kept
packets. Payloads of one byte and of two, the second beginning like a header, show an
empty remainder and a byte mistaken for a header; sizes below 4 make the longest
of them with its header just fit. Deadlock is not checked: an idle channel, a
closed session, a finished walk and a program that holds no more handles may stop.

The violations are findings. `handleData()` treats `GNUTLS_E_AGAIN` as fatal
against the comment in `net/crypto.hpp:69`; one repeated datagram aborts an open
session, given the two repairs without which none opens. Without loss, repetition or
reordering that cannot happen, as `cs_ordered` shows and theorem `AgainHarmless` proves. `TunDevice::operator=` does not move `ifIndex_`, so `setLinkState` on a
move-assigned handle changes another device; `AdminActsUnlessAssigned` shows that
this is the only way. `udp_keys` connects to two peers and finds one, against "less-than" in
`include/SocketAddress.hpp:83`. `pkt_owner` returns from `handleData()` and deletes a
buffer twice, against the ownership rule in `include/Packet.hpp:32`; `pkt_buffers` shows
that with that and `vec_push` mended nothing leaks and nothing dangles. `ser_roundtrip`
also covers that `writeFd` stores each descriptor on both passes, so that the
archive holds it twice: the reader takes them from the front and gets the right
ones.

## Fairness

`rc_channel`: libev fires an active timer (`WF` on `OnTimeout`); the owner starts
transmission (`WF` on `StartTransmission`); an end to which the packet in flight, or
the acknowledgement of its own, is sent again and again eventually reads it (`SF`), the
usual assumption on a lossy network, and none on how often it loses. If `next.write()`
threw, the packet is without a timer and nothing is promised.
`cs_ordered`: a listener returns (`WF` on `Continue`) and the ordered link hands
on what it has (`WF` on reading). Nothing forces `open()`: the property starts
when both ends have called it.

## Proofs

TLC checks every property on a small instance; the theorems below hold for every
value of the constants that satisfies the assumptions named in the modules. Every
inductive invariant was first checked by TLC as an invariant of the run of its
module.

### ReliableChannelProofs

For every `SeqMod > 1`, every bound and both values of the flags:

- `TypeCorrect`, `InOrder`, `ConfirmationSound`, `Window`: the invariants `TypeOK`,
  `DeliveredInOrder`, `ConfirmedDelivered`, `WindowOfOne`;
- `RetriedUntilConfirmed`, `StartedFirst`: `KeepsRetrying` and `OnlyStartedOnWire`;
- `Implementation`: the specification implements `OrderedDelivery`;
- `NothingSentAsWritten`: see above.

`DeliveredInOrder` is not inductive: a data packet numbered two ahead of
`peerSeq` would break it. `IInv` rules that out with `Direction(s, r)`, about the
sender `s` and receiver `r` of a direction. Until `s` has seen `SeqMod`
confirmations, a data packet on the wire numbered `q` carries payload `q + 1`, which is
at most `written[s]`; an acknowledgement is of a number `r` has delivered;
and `written[s] <= confirmed[s] + 1 <= peerSeq[r] + 2`. So a number above
`peerSeq[r]` is the next one (`NewIsNext`), and an acknowledgement that matches
`localSeq[s]` is of the packet in flight (`AckDirections`). Once `s` has wrapped,
`peerSeq[r]` is at its maximum and nothing is new any more. The refinement's
steps follow from the same invariant.

`KeepsRetrying` needs nothing but types. `OnlyStartedOnWire` needs `WireInv`: a running
timer is of a packet that was started, and no datagram carries a payload that
`writePacket` has not accepted yet. The assumptions are those named in
`ReliableChannel`: two peers, more than one sequence number, and the types of the
bounds.

### CryptoSessionProofs

For any number of key epochs and packets, records of any size, any set of ends that
renegotiate or close, any sets of peers that are permitted, and, but for the last, both
builds and both kinds of link:

- `TypeCorrect`: `TypeOK`;
- `OpenOnlyIfAdmitted`: `OpenIsAdmitted`;
- `KeysAgree`: `EpochsAgree`;
- `EndedStays`: the action property `EndsForGood`;
- `Implementation`: the sessions implement `SessionStream` (`ImplementsStream`);
- `NothingOpensAsWritten`: `OpensOnlyRepaired`;
- `AgainHarmless`: of the repaired program over an ordered link, `AgainIsNonFatal` (over the
  other one `cs_again` shows it false).

The two builds have an invariant each. As the code stands it is `AInv`: nothing but first
hellos, close_notifies and remains of records is ever on the link (`Plain`), no key is
agreed, and no client comes to wait for a Finished, since that takes a certificate
(`PlainOutcomes`). A step then does no more than open, close or abort a session (`Moves`),
which is all the refinement needs to know. The rest of this section is about the
repaired program, whose invariant is `IInv`.

`OpenIsAdmitted` is about the moment a handshake completes, but a client verifies its
peer two flights earlier; `Handshakes` says that a client that waits for the server's
Finished has admitted the epoch it is about to enter, and relates `_state` to what
gnutls waits for. `EndsForGood` rests on it too: in the two places where a handler goes
on after its listener, gnutls is at rest, and the first call of a handshake never
completes one. `EpochsAgree` needs `Keys`: the server changes keys first, and from then
until the client follows the client waits for the server's Finished; no Finished on
the link is of a later epoch than that allows, however often it is repeated.

The refinement maps `_state` to a phase and the n-th packet of an end to the number n.
`RInv` says what of the link's history matters: a link that repeats still has every
record an end has met (`Came`), which was written by an end that has been opened (`Begun`); packet numbers are unique and
a packet that was propagated has been seen by gnutls, so that it is not accepted again
(`Numbered`, `Taken`); a close_notify on its way to a session that is not over follows
from a `close()` (`Closing`); `currentPacket` is taken out again only by the first
handshake, and what gnutls keeps for the next handshake is never data (`Early`, `Kept`).
Each action is shown to be an action of `SessionStream` or to change nothing of it.

Over a link that repeats, that is all there is to say; over one that keeps order,
`SessionStream` promises order and completeness, and these rest on every record
between the two ends. `OInv` says of an ordered link:

- `Issues`: every record an end has met is one its peer has come far enough to have
  written, and the peer will not write the same record again;
- `Halves`: a server that waits for the client's Finished, and a client that has sent it,
  are in the same handshake;
- `Fresh`: no record on its way is there twice or has been met before. With `Issues` it
  gives that gnutls never takes a record for a replay;
- `Fifo`: the records on their way to a session that is not over are, from front to
  back, of the receiver's epoch up to the peer's Finished and of the next epoch behind
  it, and there is a Finished if the peer writes under the next epoch already;
- `InTurn`: the packets on their way carry exactly the numbers that follow those
  propagated, in order.

So the first record on the link is always accepted (`FirstAccepted`), a Finished always
finds an end that waits for it (`FinishedAwaited`), the first packet is the next one, and an
open session never meets a flight that it can only answer with `GNUTLS_E_AGAIN`
(`NeverAgain`). Lemma `StepOrdered` reduces a step to what it reads from the front of one
queue and writes behind the other; each handler is then shown to be such a step.

### TunnelPathProofs

For every set of payloads that fit a `size_t` with their header, every width of a
`size_t`, both kinds of link and, but for `OverrunOnlyByRead`, every choice of `Repairs`:

- `CleanDestruction`: the invariant `TerminatedByPeer`. It is not inductive by itself:
  nothing in it says why a session is closed. `Lifetime` adds that only a destroyed tunnel
  has asked its session to close, and that a closed session was closed by one end's
  request;
- `PayloadsReachDevice`, `NothingRejected`: `DeviceGetsPayload` and `NeverRejects`. `Carried`
  adds that every packet given to a session is the channel's byte and what the device
  read, and that over an ordered link the last packet written to the device is the last
  one handed over. Lemma `PayloadOfFramed` is the arithmetic of the two `skip`s;
- `OverrunOnlyByRead`: `CrashedByRead`, for a constructor that works (`"tun"` in
  `Repairs`; without it the constructor itself ends the program);
- `NothingCarriedAsWritten`: unless both repairs are made, no packet is ever written
  to a device (`NeverUp`).

### PacketBuffersProofs

For every set of blocks, every length and every depth of nested handlers, if each
handler gives up the pointer it wraps (`Keepers = {}`; with `handleData` as it stands,
`pkt_owner` shows the first of these false):

- `OneOwner`, `MemoryInBounds`, `NothingLeaks`: `FreedOnce`, `PacketsInMemory`, `NoLeak`.

A packet that shares its block keeps it alive. One that does not, gnutls' memory
behind a `NoCapture` packet of `vec_push`, is the hard case: `Owners` says that it is only
in the frame of the `vec_push` that frees the block or in one called from there, and
that no packet that shares the block exists, so that it is gone when the frame
returns. `OperatorProofs` has the facts about `skip` and `truncate`.

### HostTunProofs

For any names, variables, MTUs and numbers of descriptors and links:

- `TypeCorrect`, `OneOwner`, `HandlesOpen`, `NothingLeaks`, `AdminActs`: `TypeOK`, `SoleOwner`,
  `HandleNamesLink`, `NoLeak`, `AdminActsUnlessAssigned`;
- `RegistryStable`: the action property `ReferencesStay`.

These lean on each other: a close leaves the other handles open because none has the
same descriptor (`Distinct`); a new descriptor is nobody's because every handle's is open
(`Opened`) and the kernel gives out one that is not; a link stays while a file is attached
to it (`Kernel`). `Indexed` adds, until the first move assignment, that a handle knows
the index of its link, from which `AdminActsUnlessAssigned` follows.

### UdpSocketProofs

For any peers, reachable or not, and any number of links and descriptors:

- `TypeCorrect`, `OnlyToSender`, `ReferencesLive`, `ReferencesHear`, `OnlyByStray`: `TypeOK`,
  `HandedToSender`, `HeldIsLive`, `HeldHears`, `SendsByStray`.

`HeldIsLive` follows from a sharper fact, `HoldsRoot`: a program that never connects
twice to a peer holds exactly the link at the root of the tree, since `connect()`
throws for every other. `SendsByStray` follows from `Strays`: the number of a link's
descriptor is free or belongs to a socket that a failing `connect()` left behind.

### SerializationProofs

For trees of any number of leaves, any values, addresses of any two lengths, and whatever
the reader's offsets held before:

- `SecondPassFits`, `RoundTrip`: the invariants `ArchiveFilled` and `ReadBack`.

Where a leaf lies in the buffer is the sum of the sizes of the leaves before it, and facts
about such sums would need induction over data. The invariant avoids it by saying that
functions `at` and `num` exist that give every leaf measured so far its place and its
descriptor's number (`Layout`). The first pass extends them by one leaf in each step, so
the induction is that over steps; the second pass and the reader follow them. The
second pass stores each descriptor again behind those of the first, which leaves the
numbers of the first in place (`Stored`). Assumed are that the values of a cell are
unsigned and that the addresses of one family have one length.

### Only model-checked

Liveness, and everything else under fairness: `EventuallyConfirmed`,
`OpeningCompletes`, `ClientRecovers`, `DataArrives`, `CloseReachesPeer`. The
prover has no rules for fairness.

## Not modelled

`wetnork.cpp` (a driver that returns after one call), exceptions, the signal
library, `is_serializable` (compile time), parsing and formatting of addresses,
loading of keys, memory management inside gnutls, the moves of a
`TunAdminContext` (a pointer that is passed on and set to null; it would multiply
the states of `HostTun` without touching a device), and the moves of a `CryptoSession`.

## Plan

The model covers the parts with logic of their own, and every safety property that a
passing run checks is proved, for every value of the constants that its theorem allows.
What is left to TLC alone is liveness.
