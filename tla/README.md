# Verification of MiepMiep

TLA+ models of the MiepMiep networking library (`src/MiepMiep/`), TLC runs on
small instances, and TLAPS proofs for instances of every size. `PROJECT.json`
maps every definition to the source lines it models and lists the runs, the
slips each property notices, the hazards and the theorems.

## 1. The system

MiepMiep sends remote procedure calls over UDP. A `Network` owns some threads
and the parts below; a `Link` is one peer seen through one socket, and has up to
eight channels.

| Part | State | Operations | What is hard about it |
|---|---|---|---|
| `JobSystem` | job queue, `m_Closing`, hand-kept `m_NumThreadsSleeping`, worker threads | `addJob`, worker loop (`extractJob`, `suspend`), `stop` | lost wake-ups, jobs added during or after `stop`, the join |
| `ReliableSend` | `m_SendSequence`, `m_SendQueue` | `enqueue`, `resend`, `ackList` | resend against acks, u32 sequence numbers |
| `ReliableRecv` | `m_RecvSequence`, `m_OrderedPackets`, `m_OrderedFragments` | `receive`, `proceedRecvQueue` | lost, repeated, reordered packets; reassembly; receive and hand-over on two threads |
| `ReliableAckSend`, `ReliableAckRecv` | `m_ReceivedPackets` | `addAck`, `resend`, `receive` | acks are sent once; an ack precedes the decision to keep the packet |
| `PacketHelper` | none | `createNormalPacket`, `tryReassembleBigPacket`, `isSeqNewer`, flags byte | loop edges, header and flag bits, wrap-around |
| `SendThread` | `m_Closing` | every 4 ms: dispatch of `resend` on all links | eventual resend; iterates links while others are added |
| `Link` | session pointer, components | `receive`, `send`, `disconnect` | called by the reception thread, workers and the application |
| `LinkState` | `m_State`, `m_WasAccepted`, `m_RemoteConnectReceived` | `connect`, `accept`, `disconnect` and their RPCs | simultaneous connects, late accept, duplicate connection messages |
| `Session`, `SessionBase` | links, buffered messages, listeners | `addLink`, `removeLink`, `bufferMsg`, `disconnect` | buffer replay against sending, erase while iterating |
| `NetworkEvents`, `EventListener` | event queue, listeners | `pushEvent`, `processQueuedEvents`, `removeListener` | queued events that refer to links already gone |
| `MasterSession`, `MasterSessionManager`, `MatchMakerData` | sessions, their links and host | `registerSession`, `findServerFromFilter`, `addLink`, `removeLink`, the RPCs | host migration, joins against leaves, no locks |
| `Network` | session ids, components | `registerServer`, `joinServer`, `sendReliable`, destructor | order of shutdown |
| `LinkManager`, `SocketSetManager`, `Listener` | link map, socket sets, reception threads | `getOrAdd`, `addSocket`, `removeSocket`, `stop` | first packet of a link, socket closed during `select` |
| `GroupCollection`, `Group`, `NetVariable` | variables waiting for a group by thread, groups | constructors, destructors, `createGroup`, `changeOwner`, `markChanged` | pointers both ways between objects that the user destroys in any order |
| `BinSerializer`, `Rpc` | a serializer per thread, which owns or borrows a buffer | `write`, `read`, `resetTo`, `MM_RPC` | limits of the encoding, buffers handed from call to call |
| `Platform`, `Socket`, `Endpoint` | count of users of Winsock, socket handles | `initialize`, `shutdown`, `open`, `bind`, `recv`, `send` | the last user, on any thread, shuts Winsock down |
| `Component`, `Memory` | components of a Network or a Link, allocated buffers | `getOrAdd`, `reserveN`, `releaseN` | look-up and creation without a lock |

Threads: the application's; one `SendThread`; reception threads that run
`Link::receive`; workers that run jobs, among them `proceedRecvQueue`. A message
passes `Network::sendReliable` → `createNormalPacket` → `ReliableSend::enqueue`
→ (SendThread) `resend` → UDP → (reception thread) `Link::receive`, which records
an ack and calls `ReliableRecv::receive` → (worker) `proceedRecvQueue` →
`handleRpc` → `NetworkEvents`. Acks go back by the SendThread and
`ReliableAckRecv`.

## 2. The modules

| Module | Models |
|---|---|
| `JobSystem` | the thread pool; `MCJobSystem` instantiates it, `JobSystemProofs` proves it |
| `ReliableChannel` | one direction of one reliable channel, both ends, all threads and the network |
| `OrderedChannel` | what that channel promises its user |
| `ReliableChannelProofs` | the invariants of `ReliableChannel` and that it implements `OrderedChannel` |
| `PacketHelper` | cutting a payload into fragments and reading them back; `PacketHelperProofs` proves the cutting |
| `Serializer` | `BinSerializer`: what each type is written as and read from |
| `Rpc` | a remote call from `callRpc` to the handler, on top of the two; `MCRpc` instantiates it, `RpcProofs` proves who owns its buffers |
| `MasterSession` | the matchmaking server; `MCMasterSession` instantiates it, its theorems are in `LinkStateProofs` |
| `LinkState` | the peers of the sessions of `MasterSession`, and the state of every link between them; `MCLinkState`; `LinkStateProofs` has the theorems about the links, those about the master, and the one about the host, which needs both |
| `Session` | a session at one peer: links, buffered messages, the user's calls, events and listeners; `MCSession`, `SessionProofs` |
| `Network` | the life of a `Network`: sockets, reception threads, links, `SendThread`, destructor; `NetworkProofs` |
| `Groups` | network variables and their groups; `MCGroups`, `GroupsProofs` |

An operator named `X_Something` is a slip: the form `X` would have had with a
plausible mistake in the code. No specification uses one.

### JobSystem

A critical section of `m_JobsMutex` is one action. `wait()` gives the mutex up,
so a worker's iteration is split there: `WorkerTop` is the loop up to the wait,
`WorkerWoken` the part from the moment the thread has the mutex back.
`pc[w]` is where a worker is. `AddJob` is `addJob`, from any thread at any time,
after `stop()` too. `NotifyOne` chooses any blocked thread; `SpuriousWakeup` is
what the standard allows. `stop()` is `StopBegin` (set the flag, notify all),
`StopJoin` and `StopDrain`, and may be called twice, as `~Network` and then
`~JobSystem` do. `added`, `started`, `discarded` and `late` are history.

### ReliableChannel

A packet is identified by its place 0, 1, 2, ... among the packets enqueued; the
program sees only `SeqOf(i)`, the number modulo 2^32, so every comparison in the
model is one of sequence numbers, and two packets a lap apart are told apart by
the properties and not by the code. The two maps of `ReliableRecv` are sets of
packets with `SeqOf` as their key. `net` and `ackNet` are the datagrams in
flight: a receive may leave a copy behind (duplication), any datagram may be
taken next (reordering), `Resend` and `FlushAcks` put only some datagrams there
(loss).

`Link::receive` is two actions, `ReceiveAddAck` and `Receive`, because the two
calls take different mutexes. `Receive` is a disjunction over the branches of
`ReliableRecv::receive`. `proceedRecvQueue` holds `m_RecvMutex` across callbacks
to the user and is one action per iteration. `FlushAcks` cuts the acks into any
datagrams of at most `AcksPerPacket` acks: the code takes them in order, the
model also has other cuts.

`Horizon` bounds how far the sender is ahead of the receiver and of any copy of a
packet or ack that still exists somewhere. The code has no such bound: it stands
for the life time of a datagram in the network and for the application's
restraint.

### PacketHelper, Serializer and Rpc

`PacketHelper` has one action per iteration of the two loops of
`createNormalPacket`. A payload byte is its place in the message, the data id is
0, so that loss, repetition and exchange of bytes are visible. The serializers are
given by where each one ends in the payload (`ends`); the sum of their lengths,
which the code computes, is then the last of these places, and a length is the
difference of two. `Create` is a call that begins. `Receive` is the
reading of fragments that all arrived: `ReliableRecv::receive` takes a `packId`
from each of them, and `reAssembleBigPacket` concatenates the rest. The flags byte
keeps the bits of the channel and of relay as numbers, since they overlap.

`Serializer` is made of operators: a serializer is a record of its bytes, cursors,
capacity and whether it owns its buffer. Every type is written as the code writes
it, with byte order (`SwapBytes`), length limits, counters and the early returns;
`MasterSessionData` and `SearchFilter` are lists of fields. `Rpc` follows one call
after the other: `CallRpc`, `WriteNext` for an argument, `LocalCall`, `SendRpc`,
the actions of `PacketHelper`, `HandleRpc` on a worker, `ProcessEvent` on the
thread that processes events, `ReadNext`, `Handler`, `Release`. Buffers are
numbered when they are allocated, `live` are those not yet released. The stage
`"down"` is a thrown error or a null pointer. `RInit` also starts with a message
of the user's own serializers, of any lengths, which is cut and received.

### MasterSession

An RPC that a client sends to the master is one action, since by default RPCs are
queued events processed one after the other: `RegisterServer`, `JoinServer` and
`JoinNothing` (the two outcomes of `masterLinkRpcJoinServer`), `StartSession`,
`RemoveLink`. `ms` are the sessions, `lists` the lists of `MasterSessionManager`
they are found in, `out[l]` everything the master told client `l`, in order.
`JoinServer` follows the code in ignoring what `addLink` returns. Name, type,
password and rating of a session are one value, the kind; private sessions are
left out, because `joinServer` never looks for them. All links have the same
`hostScore()` (a constant in the code), so the first one left becomes host.
Nothing in the library sends `StartSession`, or calls `removeLink` on a master,
yet; they are modelled as the operations of the class that they are.
`emptied` is history: the sessions whose last link left.
`m_MaxClients` is compared with the search but no code limits the number of links
to it, so no property does either.

### LinkState

Composes the master with its clients: `LinkState` extends `MasterSession`, and a
peer `p` processes `out[p]` in order, `read[p]` being the place it got to
(`MasterNewHost`, and `MasterConnectTo` with `getOrAdd` and `connect`; the results,
which change no link, are passed over here and are in `Session`). `link[p][q]` is
what `p` has for the address `q`, `ls[p][q]` its `LinkState`, `chan[p][q]` the reliable ordered stream from `p` to `q`, that is the
promise of `OrderedChannel`. The reception thread makes a link when the first
packet comes in (`Arrive`), before the RPC in it is processed; a link so made has
no session, and an RPC on it dereferences a null pointer (`OnOrphan`, after which
the peer is in `down`). `OnConnect`, `OnAccepted`, `OnDisconnect` and `OnRelay`
are the four RPCs, `Disconnect` is the user's call. In client-server sessions only
the joiner is told to connect (the line for the host is commented out), so a host
always meets `OnOrphan` there. `log` is what the listeners hear, from the peer's own
link and by relay; the two kinds reach the same `onConnect` and `onDisconnect` and
are told apart by the properties only. `ImBoss` is `imBoss()`, which decides who
relays.

### Session

One peer's session, from the moment `registerServer` or `joinServer` made it.
`mLinks`, `manager`, `st`, `buffered`, `queue`, `listeners` and `events` are the
fields of the code. `call[t]` is what thread `t` is in the middle of: `addLink`
(one step per channel), `forLink` of `sendReliable` or of `Session::disconnect`,
`forEachLink` of `disconnectAll`, `forListeners`, or the callback of
`registerServer`. `Word` is a worker that got an RPC: it pushes an event, or with
asynchronous callbacks runs the handler. `ProcessEvents`, `ProcessFront`,
`PopFront` and `ProcessEnd` are `processQueuedEvents`, which holds
`m_EventsMutex` from its beginning to its end, so that workers wait while the
handlers on its own thread go on pushing. In the callback of a listener the user
may disconnect a link and add or remove listeners; calls that go through all links
are begun outside, or last in the callback of `registerServer`. `DisconnectSession` keeps the iterator of the code as
a place in the list, with what that means when `removeLink` erases (`down` when it
is past the end); the vector of listeners keeps what `std::remove` leaves behind.
`Arrive` is the reception thread, which makes a link without a session (`orphans`)
for the first packet of a peer; `connectTo` takes such a link as it is and starts it,
outside `m_Links`, and an RPC on it goes through a null pointer (`NoSession`, `down`).
Messages sent on one link only, and the host, are in `LinkState`.

### Network

`Create` to `Clear` is the life of a `Network`; `phase` is the step of the
destructor. A reception thread is a record of `sets` with a place in its loop:
`Rebuild`, `Select`, `Each`, `Recv`, `GetManager`, `MakeManager`, `Find`,
`Insert`, `Receive`, `Check`. The array that `select` rewrites (`low`) and the
list under the mutex (`high`) are apart, and `StopSet` closes the sockets of the
first, as the code does. `arr` is `m_LinksAsArray`, with the keys of the map
`m_Links` as its range; a key is looked up by the comparison of the code
(`PairLess`). A data race that may bring the process down sets `down` or not:
making `LinkManager` twice, and growing a list that another thread is looking
into. A null pointer sets it always (`Insert`, when the new link's socket was closed). Platform's count, and the socket objects that count in it, are kept with
their owners (`Held`): the thread that lets the last one go calls
`Platform::shutdown` (`LetGo`). The `SendThread` is `Wake`, `ForEachLink`,
`SendLink`. Winsock and the sockets of the system (`os`) are external.

### Groups

`Construct` and `Destruct` are constructor and destructor of a variable on a
thread, `CreateGroup` takes all variables in the list of its thread. Since
`m_IdPool` is filled nowhere, a group stays pending for ever
(`TryProcessPendingGroups` changes nothing) and `ChangeOwner` is the only thing
that is ever sent of it. `Dangling` is a variable whose group went with the
Network; to use it sets `down`.

## 3. The runs

| Run | Checks | Bounds | Result |
|---|---|---|---|
| `job_pool` | no lost wake-up (`WorkConserving`), FIFO (`JobsInOrder`), clean stop, `EveryJobStarts`, `StopReturns` | 3 workers, 3 jobs, 1 spurious wake-up, 2 stops | holds |
| `channel_safety` | `InOrderDelivery`, `AckedIsHeld`, `HeadHasJob` | 3 packets in messages of 1 to 3 fragments, one ack per datagram | holds |
| `channel_wrap` | refinement of `OrderedChannel` | 14 packets, 6 sequence numbers, unfragmented | holds |
| `channel_live` | every message delivered, send queue drains | 2 packets | holds |
| `rpc_arguments` | bytes, sizes, marks and termination of fragmentation; `ArgumentsKept`, `BuffersOwned` | user messages of up to 3 serializers of 0, 1, 33, 34, 35, 69 bytes with 34 to a fragment; 2 calls with arguments of every type and at the limits, local or not, whose handlers call an RPC or not | holds |
| `rpc_big` | handlers get the arguments passed, whatever their size | the same | **violated** |
| `master_session` | `HostIsMember`, `HostKnown`, `PeersIntroduced`, `SuccessMeansSession` | 4 symmetric clients, lists of 2 sessions, p2p and client-server, with and without late join | holds |
| `link_handshake` | `BossIsHost`, `Agreement`, `ConnectOnce`, `DisconnectIsLast`, `RelaysInOrder`, `CloseIsHeard` | 3 symmetric peers, both architectures, 4 calls: three peers and a disconnect, or two peers and two | holds |
| `session_queued` | `MembersCaughtUp`, `MembersAreOpen`, `EventsInOrder`, `ListenersHear`, `AllClosed` | 2 links besides the master's, 2 channels, 2 listeners, 1 worker, 5 calls, new peers or RPCs | holds |
| `session_async` | buffering and adding a link are atomic | the same links and threads with asynchronous callbacks, no listeners, 3 calls, new peers or RPCs | **violated** |
| `network` | `WinsockWhileUsed`, `ListenersRead`, `OneLinkPerPair`, `StopOrder`, `DestructorEnds` | 2 ports, 2 sockets, sets of 1 socket, a peer and the matchmaker | holds |
| `groups` | `IndexNamesVariable`, `WaitingOnce` | 2 threads, 3 variables, symmetric | holds |

Why the bounds suffice. Three workers and three jobs let one worker be woken,
another overtake it and a third sleep while two jobs are queued. Three packets
allow a message of three fragments as well as three messages of one, each
reassembled in every order of arrival; the proofs cover every other size. With
14 packets and 6 sequence numbers the numbers come round twice. The lengths of
`rpc_arguments` are the edges of the arithmetic: nothing, one byte, a fragment
less one, a fragment, a fragment and one, two fragments and one; strings, counters
and buffers are as small as lets each limit be met and passed, and a second call
meets what the first one left in the serializers. With four clients a session can
lose two hosts in a row and still have two members, or three sessions can fill one
list and start another; the proofs cover other numbers. The handshake is between
two peers; the third one is there for relays and for a join that crosses another
handshake, and each end may close the link; the proofs cover other numbers. Two links and two channels let a link
join between two messages, leave, and the other be skipped; two listeners let one
remove the other. Sets of one socket make two reception threads out of two ports,
so that they meet in `LinkManager`; one port and `registerServer` use the two
sockets as well. With three variables a group can be dissolved while another one
waits on each thread. The proofs of `Session`, `Network` and `Groups` cover other
numbers.

Deadlock is checked for the channel, in which a sender with unacked packets or a
network with datagrams can always do something. The other systems may rest: the
pool after `stop()`, calls and RPCs when the bound on them is used up, a Network
when its process is down, variables when all are destroyed.

Fairness. Threads are scheduled and jobs return (weak fairness of each worker, of
`Receive` and of the hand-over). The SendThread calls `resend` on every link at
every interval for ever; of infinitely many copies of one packet one arrives
(strong fairness of `ReceiveAddAck`), and of infinitely many acks of one packet
one arrives. `select` and the sleep of the SendThread have a time limit, so both
loops of `Network` go on, and so does the destructor once it has begun. The loops
of `createNormalPacket` go on. Nothing obliges anybody to add a job, to call
`stop()`, to send, or to destroy the Network.

### What the violated runs show

* `rpc_big`: `createNormalPacket` writes the data id into the first fragment only,
  `ReliableRecv::receive` reads one from each. Every fragment but the first loses a
  byte, and the handler of a call with two fragments reads arguments that were not
  passed. The test that would show it, `RPCBigTest`, returns at its first line.
* `session_async`: with asynchronous callbacks a worker runs `addLink` while the
  user is in `sendReliable`. Between the buffering of a message and the loop over
  the links, or between the copying of the buffer and the appending of the link,
  the new link gets the message twice or not at all. The comment in `addLink` asks
  for the lock that is missing. With queued events, the default, the two run on one
  thread (`MembersCaughtUp`).

### What else modelling showed

These have no run of their own.

The channel and the wire:

* A copy of a fragment that arrives when its message has been reassembled but not
  yet handed on is newer than `m_RecvSequence`, is put into `m_OrderedFragments`,
  and nothing removes it. A lap of sequence numbers later the fragment that
  rightfully has its number is dropped as known, and the old one becomes part of a
  new message. `InOrderDelivery` fails so with `SeqMod = 6`, `NewerRange = 1`,
  `MaxFragments = 2`, `MaxPackets = 8`, `Horizon = 2`, `AcksPerPacket = 1`; in
  practice it takes 2^32 packets on one channel. Without fragments wrap-around is
  harmless (`channel_wrap`).
* `MM_RELAY_BIT` (4) lies inside `MM_CHANNEL_MASK` (7). A relayed message on
  channel 0 to 3 is received, ordered and acked on channel 4 to 7, so that the
  sender's queue for its own channel is never acked (`MakeChannel`, `ReadChannel`).
* A string that is too long is left out of the message without an error that
  anybody looks at, and the reader takes the next argument for it. The counter of
  `MetaData` is a `u16`. `read` of a `BinSerializer` takes the whole rest of the
  message. `read` of an address list dereferences a null pointer
  (`ReadAddressList`). `ArgumentsKept` excepts these (`Sound`).
* A handler that is called locally and calls an RPC itself resets the serializer in
  which the outer arguments wait; what is sent are those of the inner call
  (`LocalCall`).
* The second overload of `beginUnfragmented` fails on the buffer it has just reset.
  Nothing calls it.
* The public `sendReliable` takes a number of serializers and passes an array of
  one (`Network.cpp`).

Links and sessions:

* `accept` would pass a link that was accepted before, whatever its state
  (`LinkState.cpp:211`), which the message at line 213 does not say. It does not come
  to that: `linkStateConnect` asks `canReceiveConnect` first, which turns down a link
  that is Disconnected or was asked before, and an answer with an address list brings
  the peer down before its handler runs (`ReadAddressList`).
* `linkStateConnect` locks `normalSession().dataMutex()` (`LinkState.cpp:143`), a
  function that is defined nowhere under `src/`. The models take the handler for
  what it does besides, under a lock that keeps nothing else out.
* The packet of a peer that was introduced earlier may overtake the master's
  introduction. The link made for it has no session (`SocketSetManager.cpp:167`);
  `connectTo` then finds it and does not give it one, against the assertion at
  `MasterSession.cpp:61`: the link is Connecting and not in `m_Links`, so that
  `sendReliable` and `Session::disconnect` pass it over, and the next RPC on it
  brings the peer down (`ConnectTo`, `NoSession`).
* `sendConnectRequests` iterates over the links when the new one is already among
  them, so it is told, twice, to connect to its own address, and makes a link to
  itself (`Introductions`).
* When the last link leaves a master's session, `m_Host` keeps pointing to it, and
  still locks, since `LinkManager` keeps every link. So `removeSelf` is not called:
  the leaver is told that it is host, and searches go on finding the session. A
  client that joins it is led to a host that has gone, hence the `emptied` in
  `HostIsMember`. A debug build stops at the assertion just before.
* No code sets the session data of a client, so `m_IsP2p` is false everywhere and
  the boss of a p2p session relays as a server would; peers hear of each other both
  directly and through the boss (`OnConnect`).
* A peer that disconnects while it is still connecting sends nothing, and the other
  end, which accepts the request, stays Connected to nobody. `Agreement` is
  therefore checked without disconnects, and `CloseIsHeard` for links that had been
  accepted.
* `Session::disconnect` erases links of the list it goes through: it skips every
  second one, and with the right number of links its iterator ends up behind the
  end (`SessionOne`). `disconnectAll` goes by index through another list and closes
  all.
* `removeListener` of the last listener leaves it in the vector, and it is still
  called; a removal in a callback can hide another listener from the event, and an
  addition in a callback may move the vector under the loop (`AddListener`).
* A callback that calls `processEvents` would process the front event again, as it
  is popped only afterwards and the mutex is recursive. The model leaves that call
  out.

Network and groups:

* Only `startListen` gives a socket to `SocketSetManager`. The sockets of
  `registerServer` and `joinServer` are in no set (`Register`), so nothing reads
  the matchmaker's answer.
* `stopListen` does not close the socket, and `BSDSocket` has no destructor: the
  port stays taken, and `startListen` on it fails (`CanBind`).
* When the first `Platform::initialize` fails it is counted all the same, and the
  next call takes Winsock for started (`failed`).
* A reception thread that was reading a packet when `stop()` closes its socket can
  find no address for it. `Link::create` then destroys the link before it has a
  socket, and `~Link` hands the null pointer to `removeSocket`, which goes through it
  (`SocketSetManager.cpp:44`): the process goes down in the destructor of the Network,
  in a release build too (`Insert`). `DestructorEnds` excepts that.
* `LinkManager` made by two reception threads at once fails an assertion, and a
  link that is added while the SendThread copies from the list is a data race. The
  comment at `LinkManager.cpp:138` speaks of a lock that does not exist.
* `~Group` does not reset the variables that point to it: a variable that outlives
  the Network uses a group that is gone (`Dangling`). A variable in no group that is
  destroyed on another thread than the one that constructed it stays in a list; the
  model takes this for a precondition of the destructor.
* No group ever gets an id, so no group is sent to anybody. `createGroup` always
  returns `Fine`, where `VariableTests.h:52` expects `NoLinksInNetwork`.

## 4. The proofs

All for every value of the constants allowed by the named assumptions.

**JobSystemProofs** (`WorkersAssumption`: finitely many workers, at least one;
`BoundsAssumption`). `Invariant` proves the inductive invariant `IInv`;
`NoLostWakeup`, `FifoJobs`, `CleanStop` and `FewLateJobs` follow. `WorkConserving`
alone is not inductive: `addJob` preserves it only if the count is positive whenever somebody
is blocked (`SleepersCounted`), and a worker that goes to sleep only because it
saw an empty queue under the mutex. The argument counts: a worker leaves
{top, woken} only with a job in hand, to block on an empty queue, or for good
when closing; `addJob` adds one job and one woken worker, as long as there is one
to wake.

**ReliableChannelProofs** (`ChannelConstants`; `NoWrap`: fewer packets than the
sequence numbers minus the newer range). `IInv` is the conjunction of
`Messages` (what was sent is cut from 0, 1, 2, ... without gaps), `Known` (only
packets that were enqueued are anywhere), `Delivery` (what was delivered is a
prefix, and `consumed` is the number of its packets), `StoredIsSent` (an entry of
`m_OrderedPackets` is a whole message, a fragment belongs to one), `HeadHasJob`
and `Control`. `StoredIsSent` is what makes `InOrderDelivery` inductive: when the
head of the queue is handed on, it is a sent message and starts at `consumed`, so
it is the next one. Reassembly needs its own lemmas: the first fragment going back
from a fragment and the last going forward are those of one and the same message.
`Refinement` shows that every step is a `Send`, a `Deliver` or a stutter.
`NoPacketForgotten` additionally assumes `SmallBacklog` (the sender at most
2^30 packets ahead): `addAck` precedes the test of `receive()`, so a packet
further ahead would be acked and dropped. Its invariant `AckInv` says that
everything acked, recorded or in flight, is held by the receiver.

**LinkStateProofs**, the master (`MasterConstants`; any sets of links, session data and
searches). The inductive invariant is `Typed`: the types, and that lists hold
places of sessions that exist. It is what the searches rest on: a place that is
found is a session, and `Matches` includes `CanJoin`, so `addLink` takes the link.
`HostAlwaysMember` needs that `erase` keeps every link but one, so the old host or
the first link left is a member. `AllPeersIntroduced` is about all that were ever let
into a session, and needs that what was told is never untold, that a joiner is told of
all members and they of the joiner, and `Whole`: as long as nobody left a p2p session,
those let in are its members. Once somebody left, `CanJoin` lets nobody in.
`SuccessIsTrue` follows from what a step appends to `out`. `AllKnowHost` is about the
last message of a kind, and needs `Belongs`: a member of a session has it as its only
one, so that no other session's host is named to it.

**LinkStateProofs**, the links (`MasterConstants`, `CallBound`; any number of peers, sessions
and calls). The properties speak of one end of a link each, and none is inductive:
`PInv` relates a `LinkState`, the stream to the other end and the `LinkState` there.
`Asks`: a peer asks once, when its `LinkState` leaves Unknown, and a request under
way finds the other end not asked before. `Hears`: a link that was accepted had been
asked for and is Connected or Disconnected, and what the listeners heard last says
the same. `Closes`: a link that was accepted and is Disconnected has told the other
end, and the word stays in the stream until that end closed too. `Agrees`: as long as
nobody called disconnect, whoever made a `LinkState` asked, and whoever was asked is
Connected. `ConnectsOnce`, `DisconnectsLast`, `ClosesAreHeard` and `PeersAgree`
follow. `BossIsTheHost` needs `HostWord` (what the master tells a link first is its
host, and it names a host to it once) with `Typed` and `Belongs` of the master.
`MasterIsKept` shows that the composition is a behaviour of `MasterSession`, so that
the theorems about the master hold among its peers too.

**PacketHelperProofs** (`FragmentRoom`, which the code tests; `HeaderSize`: the
header that is counted has at least component, flags and data id; `PayloadsAssumption`:
the places at which serializers end do not go down). Any number of serializers of any
lengths, any fragment size. `Cutting` says of every iteration of both loops that what
is written, what is to be copied into this fragment and what is left add up to the
payload (`Counts`), that each finished fragment goes on where the one before ended
and is not empty (`Finished`), and that the one being written does so, has room for
what it is to get, and will be the last exactly if nothing is left (`Current`). The
inner loop may run out of serializers only when nothing is left to copy; that is what
`Counts` is for. `CutsEverything`, `FragmentsAlwaysFit` and `EndsAreMarked` follow.
They are about `Spec`, one call of `createNormalPacket` after the other; that `Rpc`
makes such calls only is seen from `SendRpc`, but not proved, since the length of what
`Serializer` wrote is the result of a fold.

**RpcProofs** (the assumptions of `PacketHelper` alone, none of them used: any calls
with any arguments, any names, handlers that call an RPC or not, events processed by
the worker or by the application). `BuffersOwned` is not inductive: it does not say
that the buffer a step takes is new, nor which of the five owners has one. `Owning`
adds that buffers are numbered below `next`, that the caller's serializer owns what it
points to (so that `growTo` releases its own buffer and nobody else's), that there is
a packet only from its arrival to its release and an event only from `handleRpc` to
its release, and that what is being read is the event's buffer. Who has which buffer
is a function of the owners, and every step is made of `Takes` (an owner gives up its
buffer for a new one: `growTo`, the packet that arrives, the copy for an event) and
`Drops` (`reset`, `resetTo`, the release of packet and event). What the arguments
look like in the buffer does not matter, so that the folds of `Serializer` need not be
expanded; `BuffersAlwaysOwned` follows.

**SessionProofs** (no assumption for `QueueInOrder`; the others `SessionAssumption`,
the master's link is none of the links to peers, and `~Async`, queued events: with
asynchronous callbacks `session_async` shows the contrary). `QueueInOrder` is proved
with `InOrder`: the numbers of the events done are 1, 2, ..., those of the events that
wait go on from there, and an event in process is still in the list, so that what
`PopFront` takes is what was processed. `DisconnectAllCloses` uses `Passing`: only the
user's thread is in a call, the links before the place of the loop are not connected,
and a link that may be connected is in `LinkManager`. It rests on `Closed`, which
changes `m_Links` and never the list the loop goes through. The other three are proved
with `Steady`, which adds to these two `Calling` (types of the call in progress),
`Members` (`m_Links` has no link twice, and of the links to peers exactly those of the
session that are Connecting or Connected; in `LinkManager` only links without a session
are Unknown, so that the only links which `connectTo` can start outside `m_Links` are
these; a link being added is new to `LinkManager`), `Hearing`
(a listener that is to hear of an event was called or lies between the place of the
loop and its end) and `Filled`. `Filled` is what makes `MembersCaughtUp` inductive: it
says what a link was given in the middle of a call as well, all messages but the last
behind the place of `forLink`, and what is buffered on the channels that `addLink` is
through with. Steps are first sorted into a dozen kinds by what they change
(`StepKind`), and each part is shown of the kinds. `MembersStayOpen`,
`MembersMissNothing` and `ListenersAllHear` follow.

**NetworkProofs** (`NetworkAssumption`: finitely many sockets; a set holds at least
one; addresses are numbers, and the matchmaker sends nothing to a socket that is
listened on).
`WinsockCounted` needs `Counted`: `m_NumInitialized` is the number of socket
objects plus one for the Network. `LinksUnique` needs `Apart`: no socket is with
two reception threads and none of a matchmaker's link is with any, so the pair
that a thread has not found is inserted by nobody else before it does so; that is
what stands in for the lock that `LinkManager` has not. `find` finds a pair
exactly when it is there because the order of the keys is total (`HasIsMember`).
`StoppedInOrder` needs `Ordered`: sets exist only until their threads were joined,
the JobSystem is stopped after that, and the SendThread has ended before the first
socket is closed. `AllListenersRead` needs `Reads`: each listener has a socket of its
own, in the set of some thread as long as the Network is up, no set is larger than
`FD_SETSIZE`, and no thread is told to end before the destructor comes to it.

**GroupsProofs** (no assumption on the constants). `IInv` is the types together
with both properties: that `createGroup` takes only variables that are alive and
in no group is `WaitingOnce`, and it is what keeps `IndexNamesVariable`.

Only model-checked: liveness (out of the prover's reach); wrap-around
(`channel_wrap`); `RelaysInOrder`, which needs that a peer is relayed to by one boss
only, an invariant over three peers and the master; and `ArgumentsKept` of `Rpc`, because what `Serializer` writes and
reads is defined by folds over arguments and fields, of which the prover can show
nothing without induction. Every other safety property that a run finds to hold is a
theorem.

## 5. Not modelled

* The unreliable and newest streams, whose bodies are empty, `RemoteServerInfo`,
  which is a record, and `deprecated/`, which is not built.
* `NetworkActions`: nothing makes one, and its actions do nothing. Its loop tests
  `m_Closing` outside the lock, so that a destructor could wait for ever.
* What a group does once it has an id: no id is ever given out. That includes the
  loop of `tryProcessPendingGroups`, `Link::createGroup`, `createRemoteGroup` and
  the receiving end of `changeOwner`.
* `MasterSession::removeSelf` and `updateHost`, which are never reached, and
  asynchronous callbacks on a master: RPCs that race on its lists can do anything.
* Calls of several threads of the user at once. The API is marked `MM_TS`,
  `src/README.md:9` lists "almost all functions thread-safe" among its features, and `VariableTests.h:42-71` calls
  `registerServer` from ten threads; `Network` and `Session` have one thread of the
  user, and what two could do to the lists that have no lock (`LinkManager`,
  `m_Links`, the listeners) is not in them. `Groups` and `JobSystem` have several.
* Resolving of names, formatting of addresses, time, logging: wrappers of the
  system.
* `BitField`, `Util::cluster` and `ComponentCollection::forAll`, which nothing calls.
* The Chat and Game programs and the tests, which use the library.
