--------------------------- MODULE ReliableChannel ---------------------------
(***************************************************************************)
(* One direction of one reliable ordered channel of one Link: ReliableSend *)
(* at the sending end, ReliableRecv and ReliableAckSend at the receiving   *)
(* end, ReliableAckRecv back at the sender, and the UDP network between    *)
(* them, which loses, duplicates and reorders datagrams.                   *)
(*                                                                         *)
(* Threads: the application enqueues; the SendThread resends and flushes   *)
(* acks; the reception thread runs Link::receive; a worker of the          *)
(* JobSystem runs proceedRecvQueue.  A critical section of a mutex is one  *)
(* action, except that proceedRecvQueue, which holds m_RecvMutex over a    *)
(* loop of callbacks, is one action per iteration.                         *)
(*                                                                         *)
(* Data.  A packet is identified by its place 0, 1, 2, ... in the order in *)
(* which it was enqueued; the program sees only SeqOf(i), the u32 on the   *)
(* wire, and its payload, which stands for the identity i.  The maps keyed *)
(* by sequence number are sets of packets whose key is SeqOf: an insertion *)
(* looks for an equal key, as try_emplace does.  A message is the sequence *)
(* of the packets (fragments) it was cut into.                             *)
(***************************************************************************)
EXTENDS Integers, Sequences, FiniteSets, Functions

CONSTANTS
    SeqMod,         \* number of u32 values, 2^32
    NewerRange,     \* MM_NEWER_SEQ_RANGE, 2^30 - 1
    MaxFragments,   \* bound: packets in a message
    MaxPackets,     \* bound: packets enqueued in all
    Horizon,        \* bound: how far the sender gets ahead of the oldest
                    \* packet, copy of a packet or ack that is still around
    AcksPerPacket   \* acks in a datagram, from LinkStats::mtuAdjusted

ASSUME ChannelConstants ==
    /\ SeqMod \in Nat \ {0}
    /\ NewerRange \in Nat \ {0}
    /\ MaxFragments \in Nat \ {0}
    /\ MaxPackets \in Nat
    /\ Horizon \in Nat
    /\ AcksPerPacket \in Nat \ {0}

\* A channel on which the sequence numbers do not come round: at most 2^32 - 2^30
\* packets in all, and at most 2^30 of them ahead of the receiver.
NoWrap == MaxPackets < SeqMod - NewerRange
SmallBacklog == Horizon <= NewerRange + 1

VARIABLES
    sent,       \* history: the messages enqueued, in order
    total,      \* packets enqueued; m_SendSequence is SeqOf(total)
    sendQueue,  \* ReliableSend::m_SendQueue
    net,        \* datagrams carrying a packet
    rx,         \* packet in Link::receive between addAck and receive, or Idle
    acks,       \* ReliableAckSend::m_ReceivedPackets
    ackNet,     \* datagrams carrying acks
    packets,    \* ReliableRecv::m_OrderedPackets
    fragments,  \* ReliableRecv::m_OrderedFragments
    consumed,   \* packets handed on; m_RecvSequence is SeqOf(consumed)
    recvMutex,  \* m_RecvMutex: "free", or "proceed" during proceedRecvQueue
    jobQueued,  \* a proceedRecvQueue job waits in the JobSystem
    delivered   \* history: the messages given to handlePacket, in order

vars == <<sent, total, sendQueue, net, rx, acks, ackNet, packets, fragments,
          consumed, recvMutex, jobQueued, delivered>>

Idle == -1
Indices == 0 .. MaxPackets - 1

SeqOf(i) == i % SeqMod

\* Slips for the runs to catch, named after the operator they replace: here a
\* comparison that was left out.
IsSeqNewer_Always(incoming, having) == TRUE

\* PacketHelper::isSeqNewer: the u32 difference is at most the newer range.
IsSeqNewer(incoming, having) == (incoming - having) % SeqMod <= NewerRange

\* MM_FRAGMENT_FIRST_BIT and MM_FRAGMENT_LAST_BIT of packet i.
First(i) == \E m \in Range(sent) : m[1] = i
Last(i)  == \E m \in Range(sent) : m[Len(m)] = i

Init ==
    /\ sent = <<>>
    /\ total = 0
    /\ sendQueue = {}
    /\ net = {}
    /\ rx = Idle
    /\ acks = {}
    /\ ackNet = {}
    /\ packets = {}
    /\ fragments = {}
    /\ consumed = 0
    /\ recvMutex = "free"
    /\ jobQueued = FALSE
    /\ delivered = <<>>
----------------------------------------------------------------------------
\* Every packet of which a trace is left somewhere: unacked, in flight, being
\* received or acked.
Around == sendQueue \cup net \cup acks \cup UNION ackNet \cup ({rx} \ {Idle})

\* ReliableSend::enqueue of a message of n fragments.  The bounds stand for the
\* application and the network: the code has no send window.
Enqueue(n) ==
    LET m == [j \in 1 .. n |-> total + j - 1] IN
    /\ total + n <= MaxPackets
    /\ total + n - consumed <= Horizon
    /\ \A i \in Around : total + n - i <= Horizon
    /\ sent' = Append(sent, m)
    /\ total' = total + n
    /\ sendQueue' = {i \in sendQueue : \A k \in 1 .. n : SeqOf(i) # SeqOf(m[k])} \cup Range(m)
    /\ UNCHANGED <<net, rx, acks, ackNet, packets, fragments, consumed, recvMutex, jobQueued, delivered>>

\* ReliableSend::resend: every queued packet is sent; some survive.
Resend ==
    /\ \E survivors \in SUBSET sendQueue : net' = net \cup survivors
    /\ UNCHANGED <<sent, total, sendQueue, rx, acks, ackNet, packets, fragments, consumed, recvMutex,
                   jobQueued, delivered>>

\* A datagram leaves the network, or another copy of it stays behind.
Taken(datagrams, d, rest) == rest \in {datagrams, datagrams \ {d}}

\* Slip: ack only what receive() will store.
ReceiveAddAck_NewerOnly(i) ==
    /\ rx = Idle
    /\ i \in net
    /\ Taken(net, i, net')
    /\ acks' = IF IsSeqNewer(SeqOf(i), SeqOf(consumed)) THEN acks \cup {i} ELSE acks
    /\ rx' = i
    /\ UNCHANGED <<sent, total, sendQueue, ackNet, packets, fragments, consumed, recvMutex, jobQueued, delivered>>

\* Link::receive of a reliable packet: addAck comes first, whatever receive does.
ReceiveAddAck(i) ==
    /\ rx = Idle
    /\ i \in net
    /\ Taken(net, i, net')
    /\ acks' = acks \cup {i}
    /\ rx' = i
    /\ UNCHANGED <<sent, total, sendQueue, ackNet, packets, fragments, consumed, recvMutex, jobQueued, delivered>>

\* map::try_emplace into m_OrderedPackets.
EmplacePacket(m) ==
    packets' = IF \E p \in packets : SeqOf(p[1]) = SeqOf(m[1]) THEN packets ELSE packets \cup {m}

\* tryReassembleBigPacket: from seq back to a first fragment over back packets,
\* and on to a last fragment over fwd packets, with no gap.
HasFragment(frags, s) == \E f \in frags : SeqOf(f) = s
FragmentAt(frags, s) == CHOOSE f \in frags : SeqOf(f) = s

Complete(frags, seq, back, fwd) ==
    /\ \A k \in 0 .. back : HasFragment(frags, SeqOf(seq - k))
    /\ \A k \in 0 .. fwd  : HasFragment(frags, SeqOf(seq + k))
    /\ \A k \in 0 .. back : First(FragmentAt(frags, SeqOf(seq - k))) <=> k = back
    /\ \A k \in 0 .. fwd  : Last(FragmentAt(frags, SeqOf(seq + k))) <=> k = fwd

\* reAssembleBigPacket: the fragments from seqBegin on, in order.
Reassembled(frags, begin, n) == [k \in 1 .. n |-> FragmentAt(frags, SeqOf(begin + k - 1))]

\* ReliableRecv::receive, by the branch it takes.
StoreOutdated ==
    /\ ~IsSeqNewer(SeqOf(rx), SeqOf(consumed))
    /\ UNCHANGED <<packets, fragments, jobQueued>>

\* Slip: a job only for the first packet that is stored.
StoreWhole_OneJob ==
    /\ IsSeqNewer(SeqOf(rx), SeqOf(consumed))
    /\ First(rx) /\ Last(rx)
    /\ EmplacePacket(<<rx>>)
    /\ jobQueued' = (jobQueued \/ packets = {})
    /\ UNCHANGED fragments

StoreWhole ==
    /\ IsSeqNewer(SeqOf(rx), SeqOf(consumed))
    /\ First(rx) /\ Last(rx)
    /\ EmplacePacket(<<rx>>)
    /\ jobQueued' = TRUE
    /\ UNCHANGED fragments

StoreKnownFragment ==
    /\ IsSeqNewer(SeqOf(rx), SeqOf(consumed))
    /\ ~(First(rx) /\ Last(rx))
    /\ HasFragment(fragments, SeqOf(rx))
    /\ UNCHANGED <<packets, fragments, jobQueued>>

StoreFragment ==
    LET frags == fragments \cup {rx} IN
    /\ IsSeqNewer(SeqOf(rx), SeqOf(consumed))
    /\ ~(First(rx) /\ Last(rx))
    /\ ~HasFragment(fragments, SeqOf(rx))
    /\ \/ /\ ~\E back, fwd \in 0 .. SeqMod - 1 : Complete(frags, SeqOf(rx), back, fwd)
          /\ fragments' = frags
          /\ UNCHANGED packets
       \/ \E back, fwd \in 0 .. SeqMod - 1 :
             /\ Complete(frags, SeqOf(rx), back, fwd)
             /\ LET m == Reassembled(frags, SeqOf(rx) - back, back + fwd + 1)
                IN  EmplacePacket(m) /\ fragments' = frags \ Range(m)
    /\ jobQueued' = TRUE

Receive ==
    /\ rx # Idle
    /\ recvMutex = "free"
    /\ StoreOutdated \/ StoreWhole \/ StoreKnownFragment \/ StoreFragment
    /\ rx' = Idle
    /\ UNCHANGED <<sent, total, sendQueue, net, acks, ackNet, consumed, recvMutex, delivered>>

\* proceedRecvQueue: a worker takes the job and m_RecvMutex.  Jobs that queue up
\* count as one: a second run finds what the first one left, which is nothing.
ProceedBegin ==
    /\ jobQueued
    /\ recvMutex = "free"
    /\ jobQueued' = FALSE
    /\ recvMutex' = "proceed"
    /\ UNCHANGED <<sent, total, sendQueue, net, rx, acks, ackNet, packets, fragments, consumed, delivered>>

\* Slip: hand on what is there although something before it is missing.
AtHead_Gap(p) == IsSeqNewer(SeqOf(p[1]), SeqOf(consumed))

AtHead(p) == SeqOf(p[1]) = SeqOf(consumed)

\* One iteration: handlePacket, erase, m_RecvSequence += numFragments.
ProceedDeliver ==
    /\ recvMutex = "proceed"
    /\ \E p \in packets :
          /\ AtHead(p)
          /\ delivered' = Append(delivered, p)
          /\ packets' = packets \ {p}
          /\ consumed' = consumed + Len(p)
    /\ UNCHANGED <<sent, total, sendQueue, net, rx, acks, ackNet, fragments, recvMutex, jobQueued>>

ProceedEnd ==
    /\ recvMutex = "proceed"
    /\ ~\E p \in packets : AtHead(p)
    /\ recvMutex' = "free"
    /\ UNCHANGED <<sent, total, sendQueue, net, rx, acks, ackNet, packets, fragments, consumed, jobQueued,
                   delivered>>

\* ReliableAckSend::resend: all acks go out once, cut into datagrams of which
\* some survive, and are forgotten.
AckDatagrams == {c \in SUBSET acks : c # {} /\ Cardinality(c) <= AcksPerPacket}

FlushAcks ==
    /\ acks # {}
    /\ \E survivors \in SUBSET AckDatagrams : ackNet' = ackNet \cup survivors
    /\ acks' = {}
    /\ UNCHANGED <<sent, total, sendQueue, net, rx, packets, fragments, consumed, recvMutex, jobQueued,
                   delivered>>

\* ReliableSend::ackList.  Slip: take an ack for an ack of all that came before.
Acked_Cumulative(c) == {i \in sendQueue : \A a \in c : SeqOf(i) > SeqOf(a)}
Acked(c) == {i \in sendQueue : \A a \in c : SeqOf(i) # SeqOf(a)}

\* ReliableAckRecv::receive
AckList(c) ==
    /\ c \in ackNet
    /\ Taken(ackNet, c, ackNet')
    /\ sendQueue' = Acked(c)
    /\ UNCHANGED <<sent, total, net, rx, acks, packets, fragments, consumed, recvMutex, jobQueued, delivered>>

Next ==
    \/ \E n \in 1 .. MaxFragments : Enqueue(n)
    \/ Resend
    \/ \E i \in net : ReceiveAddAck(i)
    \/ Receive
    \/ ProceedBegin
    \/ ProceedDeliver
    \/ ProceedEnd
    \/ FlushAcks
    \/ \E c \in ackNet : AckList(c)

Spec == Init /\ [][Next]_vars

\* intervalDispatch of ReliableSend and of ReliableAckSend: all that waits goes out again and
\* again, and neither every copy of one packet nor every ack of it is lost for ever.
ResendFair(i)  == WF_vars(Resend /\ i \in net') /\ SF_vars(ReceiveAddAck(i))
AckSendFair(i) == SF_vars(FlushAcks /\ i \in acks /\ \E c \in ackNet' : i \in c)

\* The threads are scheduled.  Nobody is obliged to enqueue.
Fairness ==
    /\ WF_vars(Receive)
    /\ WF_vars(ProceedBegin)
    /\ WF_vars(ProceedDeliver \/ ProceedEnd)
    /\ \A i \in Indices : ResendFair(i) /\ AckSendFair(i)
    /\ \A c \in SUBSET Indices : WF_vars(AckList(c))

FairSpec == Spec /\ Fairness
----------------------------------------------------------------------------
\* Type correctness of the channel's state.
TypeOK ==
    /\ sent \in Seq(Seq(Nat))
    /\ total \in 0 .. MaxPackets
    /\ sendQueue \subseteq Indices
    /\ net \subseteq Indices
    /\ rx \in Indices \cup {Idle}
    /\ acks \subseteq Indices
    /\ ackNet \subseteq SUBSET Indices
    /\ packets \subseteq Seq(Nat)
    /\ fragments \subseteq Indices
    /\ consumed \in 0 .. MaxPackets
    /\ recvMutex \in {"free", "proceed"}
    /\ jobQueued \in BOOLEAN
    /\ delivered \in Seq(Seq(Nat))

\* What proceedRecvQueue hands on is what was enqueued, whole, in order, nothing
\* twice and nothing left out: the delivered messages are the first ones sent.
InOrderDelivery ==
    /\ Len(delivered) <= Len(sent)
    /\ \A k \in 1 .. Len(delivered) : delivered[k] = sent[k]

\* The receiver has packet i: handed on, stored, or inside Link::receive.
Held(i) ==
    \/ i < consumed
    \/ i \in fragments
    \/ \E p \in packets : i \in Range(p)
    \/ i = rx

\* addAck precedes the tests of receive(), and an ack is sent only once; still a
\* packet that left m_SendQueue, and is never resent, is one the receiver has.
AckedIsHeld == \A i \in 0 .. total - 1 : i \in sendQueue \/ Held(i)

\* When nobody holds m_RecvMutex, a packet that is next in order has a job coming
\* to proceed it: the early returns of receive() leave no such packet unattended.
HeadHasJob == (recvMutex = "free" /\ \E p \in packets : AtHead(p)) => jobQueued

\* The channel implements the ordered channel of its user: safety, ...
Message == {[j \in 1 .. n |-> b + j - 1] : b \in Indices, n \in 1 .. MaxFragments}
Ordered == INSTANCE OrderedChannel WITH Message <- Message, sent <- sent, delivered <- delivered
ImplementsOrdered == Ordered!Spec

\* ... and liveness: every message enqueued is eventually handed on, however many
\* of its packets and acks are lost on the way.
EveryMessageDelivered == Ordered!FairSpec

\* m_SendQueue drains: a packet is not resent for ever, since a packet that comes
\* in again is acked again although receive() drops it.
EveryPacketAcked == \A i \in Indices : i \in sendQueue ~> i \notin sendQueue
=============================================================================
