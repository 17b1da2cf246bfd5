----------------------- MODULE ReliableChannelProofs -----------------------
(***************************************************************************)
(* Proofs about the reliable channel, for every sequence number space,     *)
(* newer range, message length and network behaviour, as long as the       *)
(* sequence numbers do not come round (NoWrap).                            *)
(***************************************************************************)
EXTENDS ReliableChannel, SequenceTheorems, TLAPS

Start(k) == sent[k][1]
Stop(k)  == sent[k][1] + Len(sent[k])

\* The messages cut 0 .. total - 1 into consecutive intervals.
MessageShape ==
    \A k \in 1 .. Len(sent) :
        /\ Len(sent[k]) \in Nat \ {0}
        /\ Start(k) \in Nat
        /\ sent[k] = [j \in 1 .. Len(sent[k]) |-> Start(k) + j - 1]
        /\ Stop(k) <= total
MessageOrder ==
    /\ \A k, l \in 1 .. Len(sent) : k < l => Stop(k) <= Start(l)
    /\ \A k \in 1 .. Len(sent) : k + 1 <= Len(sent) => Start(k + 1) = Stop(k)
    /\ \A k \in 1 .. Len(sent) : k = Len(sent) => Stop(k) = total
    /\ Len(sent) = 0 => total = 0
    /\ Len(sent) > 0 => Start(1) = 0

Messages ==
    /\ sent \in Seq(Seq(Nat))
    /\ total \in 0 .. MaxPackets
    /\ MessageShape
    /\ MessageOrder

\* Only packets that were enqueued are anywhere.
Known ==
    /\ sendQueue \subseteq 0 .. total - 1
    /\ net \subseteq 0 .. total - 1
    /\ rx \in (0 .. total - 1) \cup {Idle}
    /\ acks \subseteq 0 .. total - 1
    /\ \A c \in ackNet : c \subseteq 0 .. total - 1
    /\ fragments \subseteq 0 .. total - 1

\* m_RecvSequence stands at the beginning of the first message not delivered.
RecvSequence ==
    IF Len(delivered) < Len(sent) THEN consumed = Start(Len(delivered) + 1) ELSE consumed = total

\* m_OrderedPackets holds whole messages that are still to be delivered.
StoredIsSent == \A p \in packets : \E k \in Len(delivered) + 1 .. Len(sent) : p = sent[k]
----------------------------------------------------------------------------
\* Arithmetic modulo 2^32 on one lap.
LEMMA Modulo ==
    ASSUME NEW M \in Nat \ {0}, NEW n \in Int
    PROVE  /\ 0 <= n /\ n < M => n % M = n
           /\ 0 <= n + M /\ n < 0 => n % M = n + M
  OBVIOUS

\* Without wrap-around SeqOf is the identity and isSeqNewer is comparison.
LEMMA SeqIsIndex ==
    ASSUME NoWrap, NEW i \in 0 .. MaxPackets
    PROVE  SeqOf(i) = i /\ i < SeqMod
  <1>1. MaxPackets < SeqMod
    BY ChannelConstants DEF NoWrap
  <1> QED
    BY <1>1, Modulo, ChannelConstants DEF SeqOf

LEMMA NewerIsAhead ==
    ASSUME NoWrap, NEW i \in 0 .. MaxPackets - 1, NEW c \in 0 .. MaxPackets
    PROVE  IsSeqNewer(i, c) <=> c <= i /\ i - c <= NewerRange
  <1>1. CASE c <= i
    <2>1. i - c \in 0 .. MaxPackets
      BY <1>1, ChannelConstants
    <2>2. (i - c) % SeqMod = i - c
      BY <2>1, SeqIsIndex DEF SeqOf
    <2> QED
      BY <1>1, <2>2, ChannelConstants DEF IsSeqNewer
  <1>2. CASE i < c
    <2>1. i - c \in Int /\ 0 <= (i - c) + SeqMod /\ i - c < 0 /\ (i - c) + SeqMod > NewerRange
      BY <1>2, ChannelConstants DEF NoWrap
    <2>2. (i - c) % SeqMod = (i - c) + SeqMod
      BY <2>1, Modulo, ChannelConstants
    <2> QED
      BY <1>2, <2>1, <2>2, ChannelConstants DEF IsSeqNewer
  <1> QED
    BY <1>1, <1>2, ChannelConstants

\* Looking a fragment up by its sequence number finds that fragment.
LEMMA FragmentByIndex ==
    ASSUME NoWrap, NEW frags, frags \subseteq 0 .. MaxPackets - 1, NEW s \in 0 .. SeqMod - 1
    PROVE  /\ HasFragment(frags, s) <=> s \in frags
           /\ s \in frags => FragmentAt(frags, s) = s
  <1>1. \A f \in frags : SeqOf(f) = f
    BY SeqIsIndex, ChannelConstants
  <1> QED
    BY <1>1 DEF HasFragment, FragmentAt

\* First and last fragments, by position in the history.
LEMMA FirstLast ==
    ASSUME Messages, NEW i \in Int
    PROVE  /\ First(i) <=> \E k \in 1 .. Len(sent) : Start(k) = i
           /\ Last(i) <=> \E k \in 1 .. Len(sent) : Stop(k) - 1 = i
  <1>1. DOMAIN sent = 1 .. Len(sent)
    BY LenProperties DEF Messages
  <1>2. \A k \in 1 .. Len(sent) : sent[k][Len(sent[k])] = Stop(k) - 1
    <2> TAKE k \in 1 .. Len(sent)
    <2>1. PICK n \in Nat \ {0}, b \in Nat : Len(sent[k]) = n /\ sent[k][1] = b
      BY Zenon DEF Messages, MessageShape, Start
    <2>2. sent[k] = [j \in 1 .. n |-> b + j - 1]
      BY Zenon, <2>1 DEF Messages, MessageShape, Start
    <2>3. sent[k][n] = b + n - 1
      BY <2>2
    <2> QED
      BY <2>1, <2>3 DEF Stop
  <1> QED
    BY <1>1, <1>2 DEF First, Last, Range, Start

\* What the history says of one message, without its sequences.
LEMMA OneMessage ==
    ASSUME Messages, NEW k \in 1 .. Len(sent)
    PROVE  /\ Start(k) \in Nat /\ Stop(k) \in Nat /\ Start(k) < Stop(k) /\ Stop(k) <= total
           /\ Len(sent[k]) \in Nat /\ Len(sent[k]) = Stop(k) - Start(k)
           /\ sent[k] = [j \in 1 .. Len(sent[k]) |-> Start(k) + j - 1]
  <1>1. total \in Nat
    BY ChannelConstants DEF Messages
  <1>2. /\ Len(sent[k]) \in Nat \ {0} /\ Start(k) \in Nat /\ Stop(k) <= total
        /\ sent[k] = [j \in 1 .. Len(sent[k]) |-> Start(k) + j - 1]
    BY Zenon DEF Messages, MessageShape
  <1>3. Stop(k) = Start(k) + Len(sent[k])
    BY DEF Start, Stop
  <1> QED
    BY <1>1, <1>2, <1>3

LEMMA HistoryTypes ==
    ASSUME Messages
    PROVE  Len(sent) \in Nat /\ total \in Nat /\ total <= MaxPackets
  BY ChannelConstants, LenProperties DEF Messages

\* When tryReassembleBigPacket finds its first and last fragment, what it puts
\* together is exactly the message the fragment belongs to.  Its walks stay on
\* the numbers in use, ...
Walks(frags, s, back, fwd) ==
    /\ \A k \in 0 .. back : s - k \in frags /\ FragmentAt(frags, SeqOf(s - k)) = s - k
    /\ \A k \in 0 .. fwd  : s + k \in frags /\ FragmentAt(frags, SeqOf(s + k)) = s + k
    /\ \A k \in 0 .. back : First(s - k) <=> k = back
    /\ \A k \in 0 .. fwd  : Last(s + k) <=> k = fwd

LEMMA WalksStayInUse ==
    ASSUME NoWrap, Messages,
           NEW frags, frags \subseteq 0 .. total - 1, NEW s \in frags,
           NEW back \in 0 .. SeqMod - 1, NEW fwd \in 0 .. SeqMod - 1,
           Complete(frags, s, back, fwd)
    PROVE  Walks(frags, s, back, fwd)
  <1>0. /\ s \in Nat /\ s < MaxPackets /\ MaxPackets \in Nat
        /\ SeqMod \in Nat \ {0} /\ MaxPackets < SeqMod - 1 /\ back \in Nat /\ fwd \in Nat
    BY ChannelConstants, HistoryTypes DEF NoWrap
  <1>1. frags \subseteq 0 .. MaxPackets - 1
    BY <1>0, HistoryTypes
  <1>2. ~HasFragment(frags, SeqMod - 1)
    <2>1. SeqMod - 1 \in 0 .. SeqMod - 1 /\ SeqMod - 1 \notin 0 .. MaxPackets - 1
      BY <1>0
    <2> QED
      BY Zenon, <1>1, <2>1, FragmentByIndex
  <1>3. \A n \in Nat : n < SeqMod => SeqOf(n) = n
    BY <1>0, Modulo DEF SeqOf
  <1>4. back <= s
    <2> SUFFICES ASSUME back > s PROVE FALSE
      BY <1>0
    <2>1. PICK k \in 0 .. back : k = s + 1
      BY <1>0
    <2>2. s - k = -1
      BY <1>0, <2>1
    <2>3. SeqOf(s - k) = SeqMod - 1
      <3>1. s - k \in Int /\ 0 <= (s - k) + SeqMod /\ s - k < 0 /\ (s - k) + SeqMod = SeqMod - 1
        BY <1>0, <2>1, <2>2
      <3>2. (s - k) % SeqMod = (s - k) + SeqMod
        BY <1>0, <3>1, Modulo
      <3> QED
        BY <3>1, <3>2 DEF SeqOf
    <2> QED
      BY <1>2, <2>3 DEF Complete
  <1>5. s + fwd < SeqMod
    <2> SUFFICES ASSUME s + fwd >= SeqMod PROVE FALSE
      BY <1>0
    <2>1. PICK k \in 0 .. fwd : k = (SeqMod - 1) - s
      BY <1>0
    <2>2. s + k = SeqMod - 1
      BY <1>0, <2>1
    <2>3. SeqOf(s + k) = SeqMod - 1
      BY <1>0, <1>3, <2>2
    <2> QED
      BY <1>2, <2>3 DEF Complete
  <1>6. ASSUME NEW n \in 0 .. SeqMod - 1, HasFragment(frags, SeqOf(n))
        PROVE  n \in frags /\ FragmentAt(frags, SeqOf(n)) = n
    <2>1. SeqOf(n) = n
      BY <1>0, <1>3
    <2> QED
      BY Zenon, <1>1, <1>6, <2>1, FragmentByIndex
  <1>7. \A k \in 0 .. back : s - k \in frags /\ FragmentAt(frags, SeqOf(s - k)) = s - k
    <2> TAKE k \in 0 .. back
    <2>1. s - k \in 0 .. SeqMod - 1
      BY <1>0, <1>4
    <2>2. HasFragment(frags, SeqOf(s - k))
      BY DEF Complete
    <2> QED
      BY <1>6, <2>1, <2>2
  <1>8. \A k \in 0 .. fwd : s + k \in frags /\ FragmentAt(frags, SeqOf(s + k)) = s + k
    <2> TAKE k \in 0 .. fwd
    <2>1. s + k \in 0 .. SeqMod - 1
      BY <1>0, <1>5
    <2>2. HasFragment(frags, SeqOf(s + k))
      BY DEF Complete
    <2> QED
      BY <1>6, <2>1, <2>2
  <1> QED
    BY <1>7, <1>8 DEF Complete, Walks

\* ... and end where the message does.
Puzzle(frags, s, back, fwd) ==
    /\ frags \subseteq 0 .. total - 1
    /\ s \in frags
    /\ back \in 0 .. SeqMod - 1
    /\ fwd \in 0 .. SeqMod - 1
    /\ Complete(frags, s, back, fwd)

LEMMA ReassembledIsSent ==
    ASSUME NoWrap, Messages,
           NEW frags, NEW s, NEW back, NEW fwd, Puzzle(frags, s, back, fwd)
    PROVE  \E k \in 1 .. Len(sent) :
              /\ Reassembled(frags, s - back, back + fwd + 1) = sent[k]
              /\ Start(k) = s - back /\ Start(k) <= s /\ s < Stop(k)
  <1>0. /\ s \in Nat /\ s < total /\ total \in Nat /\ back \in Nat /\ fwd \in Nat /\ Len(sent) \in Nat
        /\ SeqMod \in Nat
    BY ChannelConstants, HistoryTypes DEF Puzzle
  <1>w. Walks(frags, s, back, fwd)
    BY Zenon, WalksStayInUse DEF Puzzle
  <1>1. /\ \A k \in 0 .. back : s - k \in frags /\ FragmentAt(frags, SeqOf(s - k)) = s - k
        /\ \A k \in 0 .. fwd  : s + k \in frags /\ FragmentAt(frags, SeqOf(s + k)) = s + k
    BY <1>w DEF Walks
  <1>2. /\ \A k \in 0 .. back : First(s - k) <=> k = back
        /\ \A k \in 0 .. fwd  : Last(s + k) <=> k = fwd
    BY <1>w DEF Walks
  <1>3. PICK m \in 1 .. Len(sent) : Start(m) = s - back
    <2>1. First(s - back) /\ s - back \in Int
      BY <1>0, <1>2
    <2> QED
      BY <2>1, FirstLast
  <1>4. PICK b \in Nat, e \in Nat : /\ b = Start(m) /\ e = Stop(m) /\ b < e /\ e <= total
                                    /\ b = s - back
    BY Zenon, <1>3, OneMessage
  <1>5. s < e
    <2> SUFFICES ASSUME e <= s PROVE FALSE
      BY <1>0
    <2>1. m # Len(sent)
      BY <1>0, <1>4 DEF Messages, MessageOrder
    <2>2. m + 1 \in 1 .. Len(sent) /\ m + 1 <= Len(sent)
      BY <1>0, <2>1
    <2>3. Start(m + 1) = e
      BY <1>4, <2>2 DEF Messages, MessageOrder
    <2>4. First(e)
      BY <2>2, <2>3, FirstLast
    <2>5. PICK k \in 0 .. back : k = s - e /\ k # back /\ s - k = e
      BY <1>0, <1>4
    <2> QED
      BY <1>2, <2>4, <2>5
  <1>6. s + fwd = e - 1
    <2>1. CASE e - 1 <= s + fwd
      <3>1. Last(e - 1)
        BY <1>4, FirstLast
      <3>2. PICK k \in 0 .. fwd : s + k = e - 1
        BY <1>0, <1>5, <2>1
      <3> QED
        BY Zenon, <1>0, <1>2, <3>1, <3>2
    <2>2. CASE s + fwd < e - 1
      <3>1. Last(s + fwd) /\ s + fwd \in Int
        BY <1>0, <1>2
      <3>2. PICK l \in 1 .. Len(sent) : Stop(l) - 1 = s + fwd
        BY <3>1, FirstLast
      <3>3. PICK x \in Nat, y \in Nat : x = Start(l) /\ y = Stop(l) /\ x < y
        BY Zenon, OneMessage
      <3>4. l # m
        BY <1>0, <1>4, <2>2, <3>2
      <3>5. Stop(l) <= Start(m) \/ Stop(m) <= Start(l)
        BY <1>0, <3>4 DEF Messages, MessageOrder
      <3>6. y <= b \/ e <= x
        BY <1>4, <3>3, <3>5
      <3>7. y - 1 = s + fwd /\ b <= s
        BY <1>0, <1>4, <3>2, <3>3
      <3> QED
        BY <1>0, <2>2, <3>3, <3>6, <3>7
    <2> QED
      BY <1>0, <2>1, <2>2
  <1>7. back + fwd + 1 = e - b /\ s - back = b
    BY <1>0, <1>4, <1>6
  <1>8. ASSUME NEW k \in 1 .. e - b PROVE FragmentAt(frags, SeqOf(b + k - 1)) = b + k - 1
    <2>1. CASE k - 1 <= back
      <3>1. PICK j \in 0 .. back : s - j = b + k - 1
        BY <1>0, <1>4, <2>1
      <3> QED
        BY <1>1, <3>1
    <2>2. CASE k - 1 > back
      <3>1. PICK j \in 0 .. fwd : s + j = b + k - 1
        BY <1>0, <1>4, <1>6, <2>2
      <3> QED
        BY <1>1, <3>1
    <2> QED
      BY <1>0, <2>1, <2>2
  <1>9. sent[m] = [j \in 1 .. e - b |-> b + j - 1]
    <2>1. Len(sent[m]) = e - b /\ sent[m] = [j \in 1 .. Len(sent[m]) |-> Start(m) + j - 1]
      BY Zenon, <1>4, OneMessage
    <2> QED
      BY <1>4, <2>1
  <1>10. Reassembled(frags, s - back, back + fwd + 1) = sent[m]
    BY Zenon, <1>7, <1>8, <1>9 DEF Reassembled
  <1>11. Start(m) = s - back /\ Start(m) <= s /\ s < Stop(m)
    BY <1>0, <1>4, <1>5
  <1> QED
    BY <1>10, <1>11
----------------------------------------------------------------------------
\* The receiver's position: what it has handed on, and where m_RecvSequence stands.
Delivery ==
    /\ delivered \in Seq(Seq(Nat))
    /\ consumed \in Nat
    /\ InOrderDelivery
    /\ RecvSequence

Control ==
    /\ recvMutex \in {"free", "proceed"}
    /\ jobQueued \in BOOLEAN

\* The inductive invariant of the receiver.
IInv ==
    /\ Messages
    /\ Known
    /\ Delivery
    /\ StoredIsSent
    /\ HeadHasJob
    /\ Control

\* m_RecvSequence separates the messages delivered from the others.
LEMMA Frontier ==
    ASSUME Messages, Delivery
    PROVE  /\ Len(delivered) \in Nat /\ Len(delivered) <= Len(sent)
           /\ consumed \in Nat /\ consumed <= total
           /\ \A k \in 1 .. Len(sent) : k <= Len(delivered) => Stop(k) <= consumed
           /\ \A k \in 1 .. Len(sent) : k > Len(delivered) => consumed <= Start(k)
  <1>0. Len(sent) \in Nat /\ total \in Nat
    BY HistoryTypes
  <1>1. Len(delivered) \in Nat /\ Len(delivered) <= Len(sent) /\ consumed \in Nat
    BY LenProperties DEF Delivery, InOrderDelivery
  <1>2. CASE Len(delivered) = Len(sent)
    <2>1. consumed = total
      BY <1>0, <1>2 DEF Delivery, RecvSequence
    <2>2. \A k \in 1 .. Len(sent) : Stop(k) <= consumed
      BY Zenon, <2>1, OneMessage
    <2> QED
      BY <1>0, <1>1, <1>2, <2>1, <2>2
  <1>3. CASE Len(delivered) < Len(sent)
    <2>1. PICK d \in 1 .. Len(sent) : d = Len(delivered) + 1
      BY <1>0, <1>1, <1>3
    <2>2. consumed = Start(d)
      BY <1>3, <2>1 DEF Delivery, RecvSequence
    <2>3. Start(d) \in Nat /\ Stop(d) \in Nat /\ Start(d) < Stop(d) /\ Stop(d) <= total
      BY Zenon, OneMessage
    <2>4. \A k \in 1 .. Len(sent) : k < d => Stop(k) <= Start(d)
      BY DEF Messages, MessageOrder
    <2>5. \A k \in 1 .. Len(sent) : d < k => Stop(d) <= Start(k)
      BY DEF Messages, MessageOrder
    <2>6. \A k \in 1 .. Len(sent) : Start(k) \in Nat
      BY Zenon, OneMessage
    <2> QED
      <3>1. consumed \in Nat /\ consumed <= total
        BY <1>0, <2>2, <2>3
      <3>2. \A k \in 1 .. Len(sent) : k <= Len(delivered) => Stop(k) <= consumed
        BY <1>0, <1>1, <2>1, <2>2, <2>4
      <3>3. \A k \in 1 .. Len(sent) : k > Len(delivered) => consumed <= Start(k)
        <4> SUFFICES ASSUME NEW k \in 1 .. Len(sent), k > Len(delivered) PROVE consumed <= Start(k)
          OBVIOUS
        <4>1. CASE k = d
          BY <2>2, <2>3, <4>1
        <4>2. CASE d < k
          <5>1. Stop(d) <= Start(k)
            BY <2>5, <4>2
          <5>2. PICK x \in Nat, y \in Nat, z \in Nat : x = Start(d) /\ y = Stop(d) /\ z = Start(k) /\ x < y /\ y <= z
            BY <2>3, <2>6, <5>1
          <5> QED
            BY <2>2, <5>2
        <4> QED
          BY <1>0, <1>1, <2>1, <4>1, <4>2
      <3> QED
        BY <1>1, <3>1, <3>2, <3>3
  <1> QED
    BY <1>0, <1>1, <1>2, <1>3

\* ReliableSend::enqueue appends one message to the history.
Extended(n) ==
    /\ Len(sent') = Len(sent) + 1
    /\ \A k \in 1 .. Len(sent) : sent'[k] = sent[k]
    /\ sent'[Len(sent) + 1] = [j \in 1 .. n |-> total + j - 1]
    /\ total' = total + n

LEMMA EnqueueHistory ==
    ASSUME Messages, NEW n \in 1 .. MaxFragments, Enqueue(n)
    PROVE  Messages' /\ Extended(n)
  <1> DEFINE m == [j \in 1 .. n |-> total + j - 1]
  <1>L. PICK L \in Nat : L = Len(sent)
    BY HistoryTypes
  <1>0. L \in Nat /\ total \in Nat /\ n \in Nat \ {0} /\ MaxPackets \in Nat /\ total + n <= MaxPackets
    BY HistoryTypes, ChannelConstants DEF Enqueue
  <1>1. m \in Seq(Nat) /\ Len(m) = n /\ m[1] = total
    <2>1. \A j \in 1 .. n : total + j - 1 \in Nat
      BY <1>0
    <2> QED
      BY <1>0, <2>1
  <1>2. sent \in Seq(Seq(Nat)) /\ sent' = Append(sent, m)
    BY DEF Messages, Enqueue
  <1> HIDE DEF m
  <1>3. /\ sent' \in Seq(Seq(Nat))
        /\ Len(sent') = L + 1
        /\ \A k \in 1 .. L : sent'[k] = sent[k]
        /\ sent'[L + 1] = m
    BY <1>L, <1>1, <1>2, AppendProperties
  <1>4. total' = total + n
    BY DEF Enqueue
  <1>5. Extended(n)
    BY <1>L, <1>3, <1>4 DEF Extended, m
  <1>6. Start(L + 1)' = total /\ Stop(L + 1)' = total + n
    BY <1>1, <1>3 DEF Start, Stop
  <1>7. \A k \in 1 .. L : Start(k)' = Start(k) /\ Stop(k)' = Stop(k)
    BY <1>3 DEF Start, Stop
  <1>8. MessageShape'
    <2> SUFFICES ASSUME NEW k \in 1 .. L + 1
                 PROVE  /\ Len(sent'[k]) \in Nat \ {0}
                        /\ Start(k)' \in Nat
                        /\ sent'[k] = [j \in 1 .. Len(sent'[k]) |-> Start(k)' + j - 1]
                        /\ Stop(k)' <= total'
      BY <1>3 DEF MessageShape
    <2>1. CASE k \in 1 .. L
      <3>1. Stop(k) \in Nat /\ Stop(k) <= total
        BY Zenon, <1>L, <2>1, OneMessage
      <3>2. Stop(k)' <= total'
        BY <1>0, <1>4, <1>7, <2>1, <3>1
      <3>3. /\ Len(sent[k]) \in Nat \ {0} /\ Start(k) \in Nat
            /\ sent[k] = [j \in 1 .. Len(sent[k]) |-> Start(k) + j - 1]
        BY Zenon, <1>L, <2>1 DEF Messages, MessageShape
      <3> QED
        BY <1>3, <1>7, <2>1, <3>2, <3>3
    <2>2. CASE k = L + 1
      <3>1. m = [j \in 1 .. n |-> total + j - 1]
        BY DEF m
      <3>2. sent'[k] = m /\ Len(sent'[k]) = n /\ Start(k)' = total /\ Stop(k)' = total + n
        BY <1>1, <1>3, <1>6, <2>2
      <3>3. sent'[k] = [j \in 1 .. Len(sent'[k]) |-> Start(k)' + j - 1]
        BY <3>1, <3>2
      <3>4. Len(sent'[k]) \in Nat \ {0} /\ Start(k)' \in Nat /\ Stop(k)' <= total'
        BY <1>0, <1>4, <3>2
      <3> QED
        BY <3>3, <3>4
    <2> QED
      BY <1>0, <2>1, <2>2
  <1>9. MessageOrder'
    <2>0. \A k \in 1 .. L : Start(k) \in Nat /\ Stop(k) \in Nat /\ Stop(k) <= total
      BY Zenon, <1>L, OneMessage
    <2>1. \A k, l \in 1 .. L + 1 : k < l => Stop(k)' <= Start(l)'
      <3> SUFFICES ASSUME NEW k \in 1 .. L + 1, NEW l \in 1 .. L + 1, k < l
                   PROVE  Stop(k)' <= Start(l)'
        OBVIOUS
      <3>1. k \in 1 .. L
        BY <1>0
      <3>2. CASE l = L + 1
        BY <1>6, <1>7, <2>0, <3>1, <3>2
      <3>3. CASE l \in 1 .. L
        BY <1>L, <1>7, <3>1, <3>3 DEF Messages, MessageOrder
      <3> QED
        BY <1>0, <3>2, <3>3
    <2>2. \A k \in 1 .. L + 1 : k + 1 <= L + 1 => Start(k + 1)' = Stop(k)'
      <3> SUFFICES ASSUME NEW k \in 1 .. L PROVE Start(k + 1)' = Stop(k)'
        BY <1>0
      <3>1. CASE k = L
        BY <1>L, <1>6, <1>7, <3>1 DEF Messages, MessageOrder
      <3>2. CASE k + 1 \in 1 .. L
        BY <1>L, <1>0, <1>7, <3>2 DEF Messages, MessageOrder
      <3> QED
        BY <1>0, <3>1, <3>2
    <2>3. \A k \in 1 .. L + 1 : k = L + 1 => Stop(k)' = total'
      BY <1>4, <1>6
    <2>4. Start(1)' = 0
      <3>1. CASE L = 0
        BY <1>L, <1>6, <3>1 DEF Messages, MessageOrder
      <3>2. CASE L > 0
        <4>1. 1 \in 1 .. L
          BY <1>0, <3>2
        <4> QED
          BY <1>L, <1>7, <3>2, <4>1 DEF Messages, MessageOrder
      <3> QED
        BY <1>0, <3>1, <3>2
    <2> QED
      BY <1>0, <1>3, <2>1, <2>2, <2>3, <2>4 DEF MessageOrder
  <1>10. total' \in 0 .. MaxPackets
    BY <1>0, <1>4
  <1> QED
    BY <1>3, <1>5, <1>8, <1>9, <1>10 DEF Messages
----------------------------------------------------------------------------
\* What ReliableRecv::receive stores is a message still to be delivered.
LEMMA Accepted ==
    ASSUME NoWrap, Messages, Known, Delivery, rx # Idle
    PROVE  /\ rx \in Nat /\ rx < total /\ SeqOf(rx) = rx
           /\ IsSeqNewer(SeqOf(rx), SeqOf(consumed)) <=> consumed <= rx /\ rx - consumed <= NewerRange
  <1>1. total \in Nat /\ total <= MaxPackets /\ consumed \in Nat /\ consumed <= total /\ MaxPackets \in Nat
    BY Frontier, HistoryTypes, ChannelConstants
  <1>2. rx \in 0 .. total - 1
    BY DEF Known
  <1>3. rx \in 0 .. MaxPackets - 1 /\ rx \in 0 .. MaxPackets /\ consumed \in 0 .. MaxPackets
    BY <1>1, <1>2
  <1>4. SeqOf(rx) = rx /\ SeqOf(consumed) = consumed
    BY <1>3, SeqIsIndex
  <1> QED
    BY <1>1, <1>2, <1>3, <1>4, NewerIsAhead

LEMMA AheadIsToCome ==
    ASSUME Messages, Delivery, NEW k \in 1 .. Len(sent), NEW i \in Nat, consumed <= i, i < Stop(k)
    PROVE  k \in Len(delivered) + 1 .. Len(sent)
  <1>1. PICK y \in Nat, c \in Nat : y = Stop(k) /\ c = consumed /\ c <= i /\ i < y
    BY Zenon, OneMessage, Frontier
  <1>2. k <= Len(delivered) => y <= c
    BY <1>1, Frontier
  <1>3. ~(k <= Len(delivered))
    BY <1>1, <1>2
  <1> QED
    BY <1>3, Frontier, HistoryTypes

LEMMA WholeIsSent ==
    ASSUME Messages, Delivery, NEW i \in Nat, consumed <= i, First(i), Last(i)
    PROVE  \E k \in Len(delivered) + 1 .. Len(sent) : <<i>> = sent[k] /\ Start(k) = i
  <1>1. PICK k \in 1 .. Len(sent), l \in 1 .. Len(sent) : Start(k) = i /\ Stop(l) - 1 = i
    BY FirstLast
  <1>2. PICK b \in Nat, e \in Nat, x \in Nat, y \in Nat :
             b = Start(k) /\ e = Stop(k) /\ x = Start(l) /\ y = Stop(l) /\ b < e /\ x < y
    BY Zenon, OneMessage
  <1>3. k = l
    <2> SUFFICES ASSUME k # l PROVE FALSE
      OBVIOUS
    <2>1. Len(sent) \in Nat /\ (k < l \/ l < k)
      BY HistoryTypes
    <2>2. Stop(k) <= Start(l) \/ Stop(l) <= Start(k)
      BY <2>1 DEF Messages, MessageOrder
    <2>3. e <= x \/ y <= b
      BY <1>2, <2>2
    <2>4. b = i /\ y - 1 = i
      BY <1>1, <1>2
    <2> QED
      BY <1>2, <2>3, <2>4
  <1>4. b = i /\ e = i + 1
    BY <1>1, <1>2, <1>3
  <1>5. Len(sent[k]) = 1 /\ sent[k] = [j \in 1 .. Len(sent[k]) |-> Start(k) + j - 1]
    <2>1. Len(sent[k]) = Stop(k) - Start(k)
      BY Zenon, OneMessage
    <2>2. Stop(k) - Start(k) = 1
      BY <1>2, <1>4
    <2> QED
      BY <2>1, <2>2, OneMessage
  <1>6. sent[k] = [j \in 1 .. 1 |-> i + j - 1]
    BY <1>1, <1>5
  <1>7. <<i>> = sent[k]
    <2>1. <<i>> = [j \in 1 .. 1 |-> i + j - 1]
      OBVIOUS
    <2> QED
      BY <1>6, <2>1
  <1>8. i < Stop(k)
    BY <1>2, <1>4
  <1>9. k \in Len(delivered) + 1 .. Len(sent)
    BY <1>8, AheadIsToCome
  <1> QED
    BY <1>1, <1>7, <1>9

LEMMA FragmentIsSent ==
    ASSUME NoWrap, Messages, Known, Delivery, rx # Idle, consumed <= rx,
           NEW back \in 0 .. SeqMod - 1, NEW fwd \in 0 .. SeqMod - 1,
           Complete(fragments \cup {rx}, SeqOf(rx), back, fwd)
    PROVE  \E k \in Len(delivered) + 1 .. Len(sent) :
              /\ Reassembled(fragments \cup {rx}, SeqOf(rx) - back, back + fwd + 1) = sent[k]
              /\ Start(k) <= rx /\ rx < Stop(k)
  <1> DEFINE frags == fragments \cup {rx}
  <1>1. rx \in Nat /\ SeqOf(rx) = rx
    BY Accepted
  <1>2. Puzzle(frags, rx, back, fwd)
    <2>1. frags \subseteq 0 .. total - 1 /\ rx \in frags
      BY DEF Known
    <2>2. Complete(frags, rx, back, fwd)
      BY <1>1
    <2> QED
      BY <2>1, <2>2 DEF Puzzle
  <1> HIDE DEF frags
  <1>3. PICK k \in 1 .. Len(sent) : /\ Reassembled(frags, rx - back, back + fwd + 1) = sent[k]
                                    /\ Start(k) <= rx /\ rx < Stop(k)
    BY <1>2, ReassembledIsSent
  <1>4. k \in Len(delivered) + 1 .. Len(sent)
    BY <1>1, <1>3, AheadIsToCome
  <1> QED
    BY <1>1, <1>3, <1>4 DEF frags
----------------------------------------------------------------------------
\* The steps that keep the history, the receiver's position and what it stores.
LEMMA SameHistory ==
    ASSUME Messages, UNCHANGED <<sent, total>>
    PROVE  Messages'
  BY DEF Messages, MessageShape, MessageOrder, Start, Stop

LEMMA SamePosition ==
    ASSUME Delivery, UNCHANGED <<sent, total, consumed, delivered>>
    PROVE  Delivery'
  BY DEF Delivery, InOrderDelivery, RecvSequence, Start

LEMMA EnqueueStep ==
    ASSUME IInv, NEW n \in 1 .. MaxFragments, Enqueue(n)
    PROVE  IInv'
  <1>1. Messages' /\ Extended(n)
    BY EnqueueHistory DEF IInv
  <1>2. UNCHANGED <<net, rx, acks, ackNet, packets, fragments, consumed, recvMutex, jobQueued, delivered>>
    BY DEF Enqueue
  <1>3. /\ Len(sent) \in Nat /\ Len(delivered) \in Nat /\ Len(delivered) <= Len(sent)
        /\ total \in Nat /\ n \in Nat \ {0}
    BY HistoryTypes, Frontier, ChannelConstants DEF IInv
  <1>4. total' = total + n /\ Len(sent') = Len(sent) + 1 /\ \A k \in 1 .. Len(sent) : sent'[k] = sent[k]
    BY <1>1 DEF Extended
  <1>5. Known'
    <2>1. sendQueue' \subseteq 0 .. total' - 1
      <3>1. sendQueue' \subseteq sendQueue \cup Range([j \in 1 .. n |-> total + j - 1])
        BY DEF Enqueue
      <3>2. Range([j \in 1 .. n |-> total + j - 1]) \subseteq 0 .. total' - 1
        BY <1>3, <1>4 DEF Range
      <3>3. sendQueue \subseteq 0 .. total' - 1
        BY <1>3, <1>4 DEF IInv, Known
      <3> QED
        BY Zenon, <3>1, <3>2, <3>3
    <2>2. 0 .. total - 1 \subseteq 0 .. total' - 1
      BY <1>3, <1>4
    <2> QED
      BY <1>2, <2>1, <2>2 DEF IInv, Known
  <1>6. Delivery'
    <2>1. InOrderDelivery'
      <3>1. \A k \in 1 .. Len(delivered) : k \in 1 .. Len(sent) /\ delivered[k] = sent[k]
        BY <1>3 DEF IInv, Delivery, InOrderDelivery
      <3>2. \A k \in 1 .. Len(delivered) : delivered[k] = sent'[k]
        BY <1>4, <3>1
      <3>3. Len(delivered) <= Len(sent')
        BY <1>3, <1>4
      <3> QED
        BY <1>2, <3>2, <3>3 DEF InOrderDelivery
    <2>2. RecvSequence'
      <3>1. Len(delivered)' < Len(sent)' /\ Len(delivered)' = Len(delivered)
        BY <1>2, <1>3, <1>4
      <3>2. CASE Len(delivered) < Len(sent)
        <4>1. consumed = Start(Len(delivered) + 1) /\ Len(delivered) + 1 \in 1 .. Len(sent)
          BY <1>3, <3>2 DEF IInv, Delivery, RecvSequence
        <4>2. sent'[Len(delivered) + 1] = sent[Len(delivered) + 1]
          BY <1>4, <4>1
        <4> QED
          BY <1>2, <3>1, <4>1, <4>2 DEF RecvSequence, Start
      <3>3. CASE Len(delivered) = Len(sent)
        <4>1. consumed = total
          BY <1>3, <3>3 DEF IInv, Delivery, RecvSequence
        <4>2. sent'[Len(delivered) + 1][1] = total
          <5>1. sent'[Len(sent) + 1] = [j \in 1 .. n |-> total + j - 1]
            BY <1>1 DEF Extended
          <5>2. sent'[Len(sent) + 1][1] = total + 1 - 1
            BY <1>3, <5>1
          <5> QED
            BY <1>3, <3>3, <5>2
        <4> QED
          BY <1>2, <3>1, <4>1, <4>2 DEF RecvSequence, Start
      <3> QED
        BY <1>3, <3>2, <3>3
    <2> QED
      BY <1>2, <2>1, <2>2 DEF IInv, Delivery
  <1>7. StoredIsSent'
    <2> SUFFICES ASSUME NEW p \in packets
                 PROVE  \E k \in Len(delivered) + 1 .. Len(sent') : p = sent'[k]
      BY <1>2 DEF StoredIsSent
    <2>1. PICK k \in Len(delivered) + 1 .. Len(sent) : p = sent[k]
      BY DEF IInv, StoredIsSent
    <2>2. k \in 1 .. Len(sent) /\ k \in Len(delivered) + 1 .. Len(sent')
      BY <1>3, <1>4
    <2> QED
      BY <1>4, <2>1, <2>2
  <1>8. HeadHasJob' /\ Control'
    BY <1>2 DEF IInv, HeadHasJob, AtHead, Control
  <1> QED
    BY <1>1, <1>5, <1>6, <1>7, <1>8 DEF IInv

\* The packet proceedRecvQueue finds at m_RecvSequence is the next message.
LEMMA HeadIsNext ==
    ASSUME NoWrap, IInv, NEW p \in packets, AtHead(p)
    PROVE  Len(delivered) + 1 \in 1 .. Len(sent) /\ p = sent[Len(delivered) + 1]
  <1>1. /\ Len(sent) \in Nat /\ Len(delivered) \in Nat /\ total \in Nat /\ total <= MaxPackets
        /\ consumed \in Nat /\ consumed <= total /\ MaxPackets \in Nat
    BY HistoryTypes, Frontier, ChannelConstants DEF IInv
  <1>2. PICK k \in Len(delivered) + 1 .. Len(sent) : p = sent[k]
    BY DEF IInv, StoredIsSent
  <1>3. k \in 1 .. Len(sent)
    BY <1>1
  <1>4. PICK b \in Nat, e \in Nat : b = Start(k) /\ e = Stop(k) /\ b < e /\ e <= total
    BY Zenon, <1>3, OneMessage DEF IInv
  <1>5. SeqOf(b) = SeqOf(consumed)
    BY <1>2, <1>4 DEF AtHead, Start
  <1>6. b = consumed
    <2>1. b \in 0 .. MaxPackets /\ consumed \in 0 .. MaxPackets
      BY <1>1, <1>4
    <2> QED
      BY <1>5, <2>1, SeqIsIndex
  <1>7. PICK d \in 1 .. Len(sent) : d = Len(delivered) + 1
    BY <1>1
  <1>8. consumed = Start(d)
    BY <1>1, <1>7 DEF IInv, Delivery, RecvSequence
  <1>9. k = d
    <2> SUFFICES ASSUME d < k PROVE FALSE
      BY <1>1, <1>7
    <2>1. Stop(d) <= Start(k)
      BY <1>3 DEF IInv, Messages, MessageOrder
    <2>2. PICK x \in Nat, y \in Nat : x = Start(d) /\ y = Stop(d) /\ x < y
      BY Zenon, OneMessage DEF IInv
    <2>3. y <= b /\ x = b
      BY <1>4, <1>6, <1>8, <2>1, <2>2
    <2> QED
      BY <2>2, <2>3
  <1> QED
    BY <1>2, <1>7, <1>9

LEMMA DeliverStep ==
    ASSUME NoWrap, IInv, ProceedDeliver
    PROVE  IInv'
  <1>1. PICK p \in packets : /\ AtHead(p)
                             /\ delivered' = Append(delivered, p)
                             /\ packets' = packets \ {p}
                             /\ consumed' = consumed + Len(p)
    BY DEF ProceedDeliver
  <1>2. /\ UNCHANGED <<sent, total, sendQueue, net, rx, acks, ackNet, fragments, recvMutex, jobQueued>>
        /\ recvMutex = "proceed"
    BY DEF ProceedDeliver
  <1>3. PICK d \in 1 .. Len(sent) : d = Len(delivered) + 1 /\ p = sent[d]
    BY <1>1, HeadIsNext
  <1>4. Len(sent) \in Nat /\ Len(delivered) \in Nat /\ delivered \in Seq(Seq(Nat)) /\ total \in Nat
    BY HistoryTypes, Frontier DEF IInv, Delivery
  <1>5. p \in Seq(Nat)
    BY <1>3, ElementOfSeq DEF IInv, Messages
  <1>6. /\ delivered' \in Seq(Seq(Nat)) /\ Len(delivered') = d
        /\ \A k \in 1 .. Len(delivered) : delivered'[k] = delivered[k]
        /\ delivered'[d] = p
    BY <1>1, <1>3, <1>4, <1>5, AppendProperties
  <1>7. PICK x \in Nat, y \in Nat : x = Start(d) /\ y = Stop(d) /\ y = x + Len(p)
    <2>1. Start(d) \in Nat /\ Stop(d) \in Nat
      BY Zenon, OneMessage DEF IInv
    <2>2. Stop(d) = Start(d) + Len(p)
      BY <1>3 DEF Start, Stop
    <2> QED
      BY <2>1, <2>2
  <1>8. consumed' = Stop(d) /\ consumed' \in Nat
    <2>1. consumed = Start(d)
      BY <1>3, <1>4 DEF IInv, Delivery, RecvSequence
    <2> QED
      BY <1>1, <1>7, <2>1
  <1>9. InOrderDelivery'
    <2>1. \A k \in 1 .. Len(delivered) : delivered[k] = sent[k]
      BY DEF IInv, Delivery, InOrderDelivery
    <2>2. \A k \in 1 .. d : k \in 1 .. Len(delivered) \/ k = d
      BY <1>3, <1>4
    <2>3. \A k \in 1 .. d : delivered'[k] = sent[k]
      BY <1>3, <1>6, <2>1, <2>2
    <2> QED
      BY <1>2, <1>4, <1>6, <2>3 DEF InOrderDelivery
  <1>10. RecvSequence'
    <2>1. CASE d < Len(sent)
      <3>1. Start(d + 1) = Stop(d)
        BY <1>4, <2>1 DEF IInv, Messages, MessageOrder
      <3> QED
        BY <1>2, <1>6, <1>8, <2>1, <3>1 DEF RecvSequence, Start
    <2>2. CASE d = Len(sent)
      <3>1. Stop(d) = total
        BY <2>2 DEF IInv, Messages, MessageOrder
      <3> QED
        BY <1>2, <1>4, <1>6, <1>8, <2>2, <3>1 DEF RecvSequence
    <2> QED
      BY <1>4, <2>1, <2>2
  <1>11. StoredIsSent'
    <2> SUFFICES ASSUME NEW q \in packets, q # p PROVE \E k \in d + 1 .. Len(sent) : q = sent[k]
      BY <1>1, <1>2, <1>6 DEF StoredIsSent
    <2>1. PICK k \in Len(delivered) + 1 .. Len(sent) : q = sent[k]
      BY DEF IInv, StoredIsSent
    <2>2. k # d
      BY <1>3, <2>1
    <2> QED
      BY <1>3, <1>4, <2>1, <2>2
  <1>12. Messages' /\ Known'
    BY <1>2, SameHistory DEF IInv, Known
  <1>13. HeadHasJob' /\ Control'
    BY <1>2 DEF IInv, HeadHasJob, Control
  <1> QED
    BY <1>6, <1>8, <1>9, <1>10, <1>11, <1>12, <1>13 DEF IInv, Delivery

\* What receive() does to the two maps: nothing, or it files the fragment, or it
\* emplaces a message that is still to come and takes its fragments away.
Emplaces(k, frags) ==
    /\ k \in Len(delivered) + 1 .. Len(sent)
    /\ Start(k) <= rx /\ rx < Stop(k)
    /\ EmplacePacket(sent[k])
    /\ frags \ Range(sent[k]) \subseteq fragments'
    /\ fragments' \subseteq frags
    /\ jobQueued'

LEMMA ReceiveEffect ==
    ASSUME NoWrap, Messages, Known, Delivery, Receive
    PROVE  \/ /\ UNCHANGED <<packets, fragments, jobQueued>>
              /\ \/ rx < consumed
                 \/ rx - consumed > NewerRange
                 \/ rx \in fragments
           \/ /\ UNCHANGED packets
              /\ fragments' = fragments \cup {rx}
              /\ jobQueued'
           \/ \E k : Emplaces(k, fragments \cup {rx})
  <1>0. rx # Idle /\ UNCHANGED <<sent, consumed, delivered>>
    BY DEF Receive
  <1>1. /\ rx \in Nat /\ rx < total /\ SeqOf(rx) = rx
        /\ IsSeqNewer(SeqOf(rx), SeqOf(consumed)) <=> consumed <= rx /\ rx - consumed <= NewerRange
    BY <1>0, Accepted
  <1>2. CASE StoreOutdated
    <2>1. consumed \in Nat /\ NewerRange \in Nat
      BY Frontier, ChannelConstants
    <2>2. rx < consumed \/ rx - consumed > NewerRange
      BY <1>1, <1>2, <2>1 DEF StoreOutdated
    <2> QED
      BY <1>2, <2>2 DEF StoreOutdated
  <1>3. CASE StoreWhole
    <2>1. PICK k \in Len(delivered) + 1 .. Len(sent) : <<rx>> = sent[k] /\ Start(k) = rx
      BY Zenon, <1>1, <1>3, WholeIsSent DEF StoreWhole
    <2>2. k \in 1 .. Len(sent)
      BY Frontier, HistoryTypes
    <2>3. Start(k) <= rx /\ rx < Stop(k)
      <3>1. PICK e \in Nat : e = Stop(k) /\ rx < e
        BY Zenon, <2>1, <2>2, OneMessage
      <3> QED
        BY <1>1, <2>1, <3>1
    <2>4. EmplacePacket(sent[k]) /\ jobQueued' /\ fragments' = fragments
      BY <1>3, <2>1 DEF StoreWhole
    <2>5. Range(sent[k]) = {rx}
      BY <2>1 DEF Range
    <2>6. /\ (fragments \cup {rx}) \ Range(sent[k]) \subseteq fragments'
          /\ fragments' \subseteq fragments \cup {rx}
      BY <2>4, <2>5
    <2>7. Emplaces(k, fragments \cup {rx})
      BY <2>3, <2>4, <2>6 DEF Emplaces
    <2> QED
      BY <2>7
  <1>4. CASE StoreKnownFragment
    <2>1. HasFragment(fragments, rx)
      BY <1>1, <1>4 DEF StoreKnownFragment
    <2>2. fragments \subseteq 0 .. MaxPackets - 1 /\ rx \in 0 .. SeqMod - 1
      <3>1. MaxPackets < SeqMod /\ MaxPackets \in Nat /\ SeqMod \in Nat /\ total \in Nat /\ total <= MaxPackets
        BY ChannelConstants, HistoryTypes DEF NoWrap
      <3>2. fragments \subseteq 0 .. total - 1
        BY DEF Known
      <3> QED
        BY <1>1, <3>1, <3>2
    <2>3. rx \in fragments
      BY Zenon, <2>1, <2>2, FragmentByIndex
    <2> QED
      BY <1>4, <2>3 DEF StoreKnownFragment
  <1>5. CASE StoreFragment
    <2>1. consumed <= rx
      BY <1>1, <1>5 DEF StoreFragment
    <2>2. jobQueued'
      BY <1>5 DEF StoreFragment
    <2>3. CASE fragments' = fragments \cup {rx} /\ UNCHANGED packets
      BY <2>2, <2>3
    <2>4. ASSUME NEW back \in 0 .. SeqMod - 1, NEW fwd \in 0 .. SeqMod - 1, NEW m,
                 Complete(fragments \cup {rx}, SeqOf(rx), back, fwd),
                 m = Reassembled(fragments \cup {rx}, SeqOf(rx) - back, back + fwd + 1),
                 EmplacePacket(m), fragments' = (fragments \cup {rx}) \ Range(m)
          PROVE  \E k : Emplaces(k, fragments \cup {rx})
      <3>1. PICK k \in Len(delivered) + 1 .. Len(sent) : m = sent[k] /\ Start(k) <= rx /\ rx < Stop(k)
        BY Zenon, <1>0, <2>1, <2>4, FragmentIsSent
      <3>2. Emplaces(k, fragments \cup {rx})
        BY <2>2, <2>4, <3>1 DEF Emplaces
      <3> QED
        BY <3>2
    <2>5. \/ fragments' = fragments \cup {rx} /\ UNCHANGED packets
          \/ \E back, fwd \in 0 .. SeqMod - 1 :
                /\ Complete(fragments \cup {rx}, SeqOf(rx), back, fwd)
                /\ \E m : /\ m = Reassembled(fragments \cup {rx}, SeqOf(rx) - back, back + fwd + 1)
                          /\ EmplacePacket(m)
                          /\ fragments' = (fragments \cup {rx}) \ Range(m)
      BY Zenon, <1>5 DEF StoreFragment
    <2>6. CASE \E k : Emplaces(k, fragments \cup {rx})
      BY <2>6
    <2> QED
      BY Zenon, <2>3, <2>4, <2>5, <2>6
  <1> QED
    BY <1>2, <1>3, <1>4, <1>5 DEF Receive

LEMMA ReceiveStep ==
    ASSUME NoWrap, IInv, Receive
    PROVE  IInv'
  <1>1. /\ UNCHANGED <<sent, total, sendQueue, net, acks, ackNet, consumed, recvMutex, delivered>>
        /\ rx' = Idle
    BY DEF Receive
  <1>2. rx \in 0 .. total - 1 /\ fragments \cup {rx} \subseteq 0 .. total - 1
    BY DEF IInv, Known, Receive
  <1>3. \/ UNCHANGED <<packets, fragments, jobQueued>>
        \/ UNCHANGED packets /\ fragments' = fragments \cup {rx} /\ jobQueued'
        \/ \E k : Emplaces(k, fragments \cup {rx})
    BY ReceiveEffect DEF IInv
  <1>4. fragments' \subseteq 0 .. total - 1
    BY <1>2, <1>3 DEF Emplaces
  <1>5. Known'
    BY <1>1, <1>4 DEF IInv, Known
  <1>6. StoredIsSent'
    <2>1. packets' = packets \/ \E k \in Len(delivered) + 1 .. Len(sent) : packets' \subseteq packets \cup {sent[k]}
      BY <1>3 DEF Emplaces, EmplacePacket
    <2> QED
      BY <1>1, <2>1 DEF IInv, StoredIsSent
  <1>7. UNCHANGED <<packets, jobQueued>> \/ jobQueued'
    BY <1>3 DEF Emplaces
  <1>8. HeadHasJob'
    BY <1>1, <1>7 DEF IInv, HeadHasJob, AtHead
  <1>9. jobQueued' \in BOOLEAN
    BY Zenon DEF IInv, Control, Receive, StoreOutdated, StoreWhole, StoreKnownFragment, StoreFragment
  <1>10. Messages' /\ Delivery'
    BY <1>1, SameHistory, SamePosition DEF IInv
  <1> QED
    BY <1>1, <1>5, <1>6, <1>8, <1>9, <1>10 DEF IInv, Control

\* The other steps leave the receiver's maps alone.
LEMMA OtherSteps ==
    ASSUME IInv,
           \/ Resend
           \/ \E i \in net : ReceiveAddAck(i)
           \/ ProceedBegin
           \/ ProceedEnd
           \/ FlushAcks
           \/ \E c \in ackNet : AckList(c)
           \/ UNCHANGED vars
    PROVE  IInv'
  <1>1. UNCHANGED <<sent, total, packets, fragments, consumed, delivered>>
    BY DEF Resend, ReceiveAddAck, ProceedBegin, ProceedEnd, FlushAcks, AckList, Acked, vars
  <1>2. Messages' /\ Delivery' /\ StoredIsSent'
    BY <1>1, SameHistory, SamePosition DEF IInv, StoredIsSent
  <1>3. Known'
    <2>1. sendQueue' \subseteq sendQueue /\ net' \subseteq net \cup sendQueue /\ acks' \subseteq acks \cup net
      BY DEF Resend, ReceiveAddAck, ProceedBegin, ProceedEnd, FlushAcks, AckList, Acked, Taken, vars
    <2>2. rx' \in net \cup {rx}
      BY DEF Resend, ReceiveAddAck, ProceedBegin, ProceedEnd, FlushAcks, AckList, Acked, vars
    <2>3. \A c \in ackNet' : c \in ackNet \/ c \subseteq acks
      BY DEF Resend, ReceiveAddAck, ProceedBegin, ProceedEnd, FlushAcks, AckList, Acked, AckDatagrams, Taken, vars
    <2> QED
      BY Zenon, <1>1, <2>1, <2>2, <2>3 DEF IInv, Known
  <1>4. HeadHasJob'
    BY <1>1 DEF IInv, HeadHasJob, AtHead, Resend, ReceiveAddAck, ProceedBegin, ProceedEnd, FlushAcks, AckList, Acked, vars
  <1>5. Control'
    BY Zenon DEF IInv, Control, Resend, ReceiveAddAck, ProceedBegin, ProceedEnd, FlushAcks, AckList, Acked, vars
  <1> QED
    BY <1>2, <1>3, <1>4, <1>5 DEF IInv

LEMMA InitReceiver ==
    ASSUME Init
    PROVE  IInv
  <1>1. Messages
    BY ChannelConstants, EmptySeq DEF Init, Messages, MessageShape, MessageOrder
  <1>2. Delivery
    BY EmptySeq DEF Init, Delivery, InOrderDelivery, RecvSequence
  <1>3. Known /\ StoredIsSent /\ HeadHasJob /\ Control
    BY Zenon DEF Init, Known, StoredIsSent, HeadHasJob, Control
  <1> QED
    BY <1>1, <1>2, <1>3 DEF IInv

LEMMA StepReceiver ==
    ASSUME NoWrap, IInv, [Next]_vars
    PROVE  IInv'
  BY EnqueueStep, DeliverStep, ReceiveStep, OtherSteps DEF Next

\* The receiver's invariant holds in every reachable state, for any loss,
\* duplication and reordering of datagrams.
THEOREM Invariant ==
    ASSUME NoWrap
    PROVE  Spec => []IInv
  <1>1. Init => IInv
    BY InitReceiver
  <1>2. IInv /\ [Next]_vars => IInv'
    BY StepReceiver
  <1> QED
    BY <1>1, <1>2, PTL DEF Spec

\* The state of the channel keeps its type.
THEOREM TypeCorrect ==
    ASSUME NoWrap
    PROVE  Spec => []TypeOK
  <1>1. IInv => TypeOK
    <2> SUFFICES ASSUME IInv PROVE TypeOK
      OBVIOUS
    <2>1. total \in Nat /\ total <= MaxPackets /\ MaxPackets \in Nat
      BY HistoryTypes, ChannelConstants DEF IInv
    <2>2. 0 .. total - 1 \subseteq Indices
      BY <2>1 DEF Indices
    <2>3. /\ sendQueue \subseteq Indices /\ net \subseteq Indices /\ rx \in Indices \cup {Idle}
          /\ acks \subseteq Indices /\ ackNet \subseteq SUBSET Indices /\ fragments \subseteq Indices
      BY <2>2 DEF IInv, Known
    <2>4. packets \subseteq Seq(Nat)
      <3> SUFFICES ASSUME NEW p \in packets PROVE p \in Seq(Nat)
        OBVIOUS
      <3>1. PICK k \in Len(delivered) + 1 .. Len(sent) : p = sent[k]
        BY DEF IInv, StoredIsSent
      <3>2. k \in 1 .. Len(sent) /\ sent \in Seq(Seq(Nat))
        BY Frontier, HistoryTypes DEF IInv, Messages
      <3> QED
        BY <3>1, <3>2, ElementOfSeq
    <2>5. sent \in Seq(Seq(Nat)) /\ total \in 0 .. MaxPackets
      BY DEF IInv, Messages
    <2>6. consumed \in 0 .. MaxPackets /\ delivered \in Seq(Seq(Nat))
      BY <2>1, Frontier DEF IInv, Delivery
    <2>7. recvMutex \in {"free", "proceed"} /\ jobQueued \in BOOLEAN
      BY DEF IInv, Control
    <2> QED
      BY <2>3, <2>4, <2>5, <2>6, <2>7 DEF TypeOK
  <1> QED
    BY <1>1, Invariant, PTL

\* ReliableRecv hands on the messages that were enqueued, whole, in the order of
\* enqueue, none twice and none left out.
THEOREM InOrder ==
    ASSUME NoWrap
    PROVE  Spec => []InOrderDelivery
  <1>1. IInv => InOrderDelivery
    BY DEF IInv, Delivery
  <1> QED
    BY <1>1, Invariant, PTL

\* No packet that is next in order waits without a proceedRecvQueue job.
THEOREM HeadAttended ==
    ASSUME NoWrap
    PROVE  Spec => []HeadHasJob
  <1>1. IInv => HeadHasJob
    BY DEF IInv
  <1> QED
    BY <1>1, Invariant, PTL

\* The channel implements the abstract ordered channel: enqueue is its Send, one
\* iteration of proceedRecvQueue is its Deliver, and every other step stutters.
THEOREM Refinement ==
    ASSUME NoWrap
    PROVE  Spec => ImplementsOrdered
  <1>1. Init => Ordered!Init
    BY DEF Init, Ordered!Init
  <1>2. IInv /\ [Next]_vars => [Ordered!Next]_(Ordered!vars)
    <2> SUFFICES ASSUME IInv, [Next]_vars PROVE Ordered!Next \/ UNCHANGED <<sent, delivered>>
      BY DEF Ordered!vars
    <2>1. ASSUME NEW n \in 1 .. MaxFragments, Enqueue(n) PROVE Ordered!Next
      <3>1. total \in Indices
        <4>1. total \in Nat /\ n \in Nat \ {0} /\ MaxPackets \in Nat /\ total + n <= MaxPackets
          BY <2>1, HistoryTypes, ChannelConstants DEF IInv, Enqueue
        <4> QED
          BY <4>1 DEF Indices
      <3>2. [j \in 1 .. n |-> total + j - 1] \in Message
        BY <3>1 DEF Message
      <3>3. sent' = Append(sent, [j \in 1 .. n |-> total + j - 1]) /\ UNCHANGED delivered
        BY <2>1 DEF Enqueue
      <3> QED
        BY <3>2, <3>3 DEF Ordered!Next, Ordered!Send
    <2>2. CASE ProceedDeliver
      <3>1. PICK p \in packets : AtHead(p) /\ delivered' = Append(delivered, p)
        BY <2>2 DEF ProceedDeliver
      <3>2. Len(delivered) + 1 \in 1 .. Len(sent) /\ p = sent[Len(delivered) + 1]
        BY <3>1, HeadIsNext
      <3>3. Len(delivered) < Len(sent)
        BY <3>2, Frontier, HistoryTypes DEF IInv
      <3>4. UNCHANGED sent
        BY <2>2 DEF ProceedDeliver
      <3> QED
        BY <3>1, <3>2, <3>3, <3>4 DEF Ordered!Next, Ordered!Deliver
    <2>3. CASE \/ Resend
               \/ \E i \in net : ReceiveAddAck(i)
               \/ Receive
               \/ ProceedBegin
               \/ ProceedEnd
               \/ FlushAcks
               \/ \E c \in ackNet : AckList(c)
               \/ UNCHANGED vars
      BY <2>3 DEF Resend, ReceiveAddAck, Receive, ProceedBegin, ProceedEnd, FlushAcks, AckList, Acked, vars
    <2> QED
      BY <2>1, <2>2, <2>3 DEF Next
  <1> QED
    BY <1>1, <1>2, Invariant, PTL DEF Spec, ImplementsOrdered, Ordered!Spec
----------------------------------------------------------------------------
\* The sender's side of the argument: every ack under way is for a packet the
\* receiver has, and the receiver is at most Horizon behind.
AcksAreHeld == \A i \in acks \cup UNION ackNet : Held(i)
Backlog == total - consumed <= Horizon

AckInv ==
    /\ AcksAreHeld
    /\ AckedIsHeld
    /\ Backlog

LEMMA RangeOfMessage ==
    ASSUME Messages, NEW k \in 1 .. Len(sent), NEW i \in Nat
    PROVE  i \in Range(sent[k]) <=> Start(k) <= i /\ i < Stop(k)
  <1>1. PICK b \in Nat, e \in Nat : b = Start(k) /\ e = Stop(k) /\ b < e
    BY Zenon, OneMessage
  <1>2. sent[k] = [j \in 1 .. e - b |-> b + j - 1]
    <2>1. Len(sent[k]) = e - b /\ sent[k] = [j \in 1 .. Len(sent[k]) |-> Start(k) + j - 1]
      BY <1>1, OneMessage
    <2> QED
      BY <1>1, <2>1
  <1>3. i \in Range(sent[k]) <=> \E j \in 1 .. e - b : b + j - 1 = i
    BY Zenon, <1>2 DEF Range
  <1>4. (\E j \in 1 .. e - b : b + j - 1 = i) <=> b <= i /\ i < e
    <2>1. ASSUME b <= i, i < e PROVE \E j \in 1 .. e - b : b + j - 1 = i
      <3>1. i - b + 1 \in 1 .. e - b /\ b + (i - b + 1) - 1 = i
        BY <1>1, <2>1
      <3> QED
        BY <3>1
    <2> QED
      BY <1>1, <2>1
  <1> QED
    BY <1>1, <1>3, <1>4

\* try_emplace ends with the message stored: an equal key is the same message.
LEMMA EmplaceHolds ==
    ASSUME NoWrap, IInv, NEW k, NEW frags, Emplaces(k, frags)
    PROVE  packets \subseteq packets' /\ sent[k] \in packets'
  <1>1. /\ Len(sent) \in Nat /\ Len(delivered) \in Nat /\ total \in Nat /\ total <= MaxPackets
        /\ MaxPackets \in Nat
    BY HistoryTypes, Frontier, ChannelConstants DEF IInv
  <1>2. k \in 1 .. Len(sent) /\ EmplacePacket(sent[k])
    BY <1>1 DEF Emplaces
  <1>3. ASSUME NEW q \in packets, SeqOf(q[1]) = SeqOf(sent[k][1]) PROVE q = sent[k]
    <2>1. PICK l \in Len(delivered) + 1 .. Len(sent) : q = sent[l]
      BY DEF IInv, StoredIsSent
    <2>2. l \in 1 .. Len(sent)
      BY <1>1
    <2>3. PICK b \in Nat, e \in Nat, x \in Nat, y \in Nat :
               /\ b = Start(k) /\ e = Stop(k) /\ x = Start(l) /\ y = Stop(l) /\ b < e /\ x < y
               /\ e <= total /\ y <= total
      BY Zenon, <1>2, <2>2, OneMessage DEF IInv
    <2>4. b = x
      <3>1. b \in 0 .. MaxPackets /\ x \in 0 .. MaxPackets
        BY <1>1, <2>3
      <3>2. SeqOf(x) = SeqOf(b)
        BY <1>3, <2>1, <2>3 DEF Start
      <3> QED
        BY <3>1, <3>2, SeqIsIndex
    <2>5. l = k
      <3> SUFFICES ASSUME l # k PROVE FALSE
        OBVIOUS
      <3>1. k < l \/ l < k
        BY <1>1, <1>2, <2>2
      <3>2. Stop(k) <= Start(l) \/ Stop(l) <= Start(k)
        BY <1>2, <2>2, <3>1 DEF IInv, Messages, MessageOrder
      <3>3. e <= x \/ y <= b
        BY <2>3, <3>2
      <3> QED
        BY <2>3, <2>4, <3>3
    <2> QED
      BY <2>1, <2>5
  <1> QED
    BY <1>2, <1>3 DEF EmplacePacket

\* What the receiver has it keeps, or has handed on.
LEMMA HeldByReceive ==
    ASSUME NoWrap, SmallBacklog, IInv, Backlog, Receive, NEW i \in 0 .. total - 1, Held(i)
    PROVE  Held(i)'
  <1>1. UNCHANGED <<total, consumed, delivered, sent>> /\ rx # Idle
    BY DEF Receive
  <1>2. /\ total \in Nat /\ consumed \in Nat /\ i \in Nat /\ i < total
        /\ Horizon \in Nat /\ NewerRange \in Nat
    BY HistoryTypes, Frontier, ChannelConstants DEF IInv
  <1>3. ~(i - consumed > NewerRange)
    BY <1>2 DEF Backlog, SmallBacklog
  <1>4. CASE /\ UNCHANGED <<packets, fragments, jobQueued>>
             /\ rx < consumed \/ rx - consumed > NewerRange \/ rx \in fragments
    BY <1>1, <1>3, <1>4 DEF Held
  <1>5. CASE UNCHANGED packets /\ fragments' = fragments \cup {rx}
    BY <1>1, <1>5 DEF Held
  <1>6. ASSUME NEW k, Emplaces(k, fragments \cup {rx}) PROVE Held(i)'
    <2>1. packets \subseteq packets' /\ sent[k] \in packets'
      BY <1>6, EmplaceHolds
    <2>2. k \in 1 .. Len(sent)
      BY <1>6, HistoryTypes, Frontier DEF IInv, Emplaces
    <2>3. rx \in Range(sent[k])
      <3>1. Start(k) <= rx /\ rx < Stop(k)
        BY <1>6 DEF Emplaces
      <3>2. rx \in Nat
        BY <1>1, Accepted DEF IInv
      <3> QED
        BY <2>2, <3>1, <3>2, RangeOfMessage DEF IInv
    <2>4. i \in fragments => i \in fragments' \/ i \in Range(sent[k])
      BY <1>6 DEF Emplaces
    <2> QED
      BY <1>1, <2>1, <2>3, <2>4 DEF Held
  <1> QED
    BY <1>4, <1>5, <1>6, ReceiveEffect DEF IInv

LEMMA HeldByDeliver ==
    ASSUME NoWrap, IInv, ProceedDeliver, NEW i \in 0 .. total - 1, Held(i)
    PROVE  Held(i)' /\ consumed <= consumed'
  <1>1. PICK p \in packets : AtHead(p) /\ packets' = packets \ {p} /\ consumed' = consumed + Len(p)
    BY DEF ProceedDeliver
  <1>2. UNCHANGED <<fragments, rx>>
    BY DEF ProceedDeliver
  <1>3. PICK d \in 1 .. Len(sent) : d = Len(delivered) + 1 /\ p = sent[d]
    BY <1>1, HeadIsNext
  <1>4. total \in Nat /\ consumed \in Nat /\ i \in Nat /\ Len(sent) \in Nat /\ Len(delivered) \in Nat
    BY HistoryTypes, Frontier DEF IInv
  <1>5. PICK x \in Nat, y \in Nat : x = Start(d) /\ y = Stop(d) /\ x < y /\ y = x + Len(p)
    <2>1. Start(d) \in Nat /\ Stop(d) \in Nat /\ Start(d) < Stop(d)
      BY Zenon, OneMessage DEF IInv
    <2>2. Stop(d) = Start(d) + Len(p)
      BY <1>3 DEF Start, Stop
    <2> QED
      BY <2>1, <2>2
  <1>6. consumed = x /\ consumed' = y
    <2>1. consumed = Start(d)
      BY <1>3, <1>4 DEF IInv, Delivery, RecvSequence
    <2> QED
      BY <1>1, <1>5, <2>1
  <1>7. i \in Range(p) => i < consumed'
    BY <1>3, <1>4, <1>5, <1>6, RangeOfMessage DEF IInv
  <1>8. i < consumed => i < consumed'
    BY <1>4, <1>5, <1>6
  <1>9. Held(i)'
    BY <1>1, <1>2, <1>7, <1>8 DEF Held
  <1> QED
    BY <1>5, <1>6, <1>9

LEMMA HeldKept ==
    ASSUME NoWrap, SmallBacklog, IInv, Backlog, [Next]_vars, NEW i \in 0 .. total - 1, Held(i)
    PROVE  Held(i)'
  <1>1. CASE Receive
    BY <1>1, HeldByReceive
  <1>2. CASE ProceedDeliver
    BY <1>2, HeldByDeliver
  <1>3. ASSUME NEW j \in net, ReceiveAddAck(j) PROVE Held(i)'
    <2>1. i # rx /\ UNCHANGED <<packets, fragments, consumed>>
      BY <1>3 DEF ReceiveAddAck, Idle
    <2> QED
      BY <2>1 DEF Held
  <1>4. CASE UNCHANGED <<packets, fragments, consumed, rx>>
    BY <1>4 DEF Held
  <1> QED
    BY Zenon, <1>1, <1>2, <1>3, <1>4 DEF Next, Enqueue, Resend, ProceedBegin, ProceedEnd, FlushAcks, AckList, Acked, vars

LEMMA BacklogStep ==
    ASSUME NoWrap, IInv, Backlog, [Next]_vars
    PROVE  Backlog'
  <1>1. total \in Nat /\ consumed \in Nat /\ Horizon \in Nat
    BY HistoryTypes, Frontier, ChannelConstants DEF IInv
  <1>2. ASSUME NEW n \in 1 .. MaxFragments, Enqueue(n) PROVE Backlog'
    <2>1. total + n - consumed <= Horizon /\ total' = total + n /\ consumed' = consumed
      BY <1>2 DEF Enqueue
    <2> QED
      BY <1>1, <2>1, ChannelConstants DEF Backlog
  <1>3. CASE ProceedDeliver
    <2>1. PICK p \in packets : AtHead(p) /\ consumed' = consumed + Len(p) /\ total' = total
      BY <1>3 DEF ProceedDeliver
    <2>2. Len(p) \in Nat
      BY <2>1, HeadIsNext, OneMessage DEF IInv
    <2> QED
      BY <1>1, <2>1, <2>2 DEF Backlog
  <1>4. CASE UNCHANGED <<total, consumed>>
    BY <1>4 DEF Backlog
  <1> QED
    BY <1>2, <1>3, <1>4 DEF Next, Receive, Resend, ReceiveAddAck, ProceedBegin, ProceedEnd, FlushAcks, AckList, Acked, vars

LEMMA AcksStep ==
    ASSUME NoWrap, SmallBacklog, IInv, AckInv, [Next]_vars
    PROVE  AcksAreHeld'
  <1>1. ASSUME NEW i \in acks \cup UNION ackNet PROVE Held(i)'
    <2>1. i \in 0 .. total - 1 /\ Held(i)
      BY DEF IInv, Known, AckInv, AcksAreHeld
    <2> QED
      BY <2>1, HeldKept DEF AckInv
  <1>2. ASSUME NEW j \in net, ReceiveAddAck(j) PROVE AcksAreHeld'
    <2>1. Held(j)'
      BY <1>2 DEF ReceiveAddAck, Held
    <2>2. acks' = acks \cup {j} /\ UNCHANGED ackNet
      BY <1>2 DEF ReceiveAddAck
    <2> QED
      BY <1>1, <2>1, <2>2 DEF AcksAreHeld
  <1>3. CASE FlushAcks
    <2>1. acks' = {} /\ \A c \in ackNet' : c \in ackNet \/ c \subseteq acks
      BY <1>3 DEF FlushAcks, AckDatagrams
    <2>2. acks' \cup UNION ackNet' \subseteq acks \cup UNION ackNet
      BY <2>1
    <2> QED
      BY <1>1, <2>2 DEF AcksAreHeld
  <1>4. CASE UNCHANGED acks /\ ackNet' \subseteq ackNet
    <2>1. acks' \cup UNION ackNet' \subseteq acks \cup UNION ackNet
      BY <1>4
    <2> QED
      BY <1>1, <2>1 DEF AcksAreHeld
  <1>5. \/ \E j \in net : ReceiveAddAck(j)
        \/ FlushAcks
        \/ UNCHANGED acks /\ ackNet' \subseteq ackNet
    BY Zenon DEF Next, Enqueue, Receive, Resend, ProceedBegin, ProceedDeliver, ProceedEnd, AckList, Acked, Taken, vars
  <1> QED
    BY <1>2, <1>3, <1>4, <1>5

LEMMA AckedStep ==
    ASSUME NoWrap, SmallBacklog, IInv, AckInv, [Next]_vars
    PROVE  AckedIsHeld'
  <1>0. total \in Nat /\ total <= MaxPackets /\ MaxPackets \in Nat /\ MaxFragments \in Nat
    BY HistoryTypes, ChannelConstants DEF IInv
  <1>1. ASSUME NEW i \in 0 .. total - 1, i \notin sendQueue PROVE Held(i)'
    <2>1. Held(i)
      BY <1>1 DEF AckInv, AckedIsHeld
    <2> QED
      BY <2>1, HeldKept DEF AckInv
  <1>2. ASSUME NEW n \in 1 .. MaxFragments, Enqueue(n) PROVE AckedIsHeld'
    <2> DEFINE m == [j \in 1 .. n |-> total + j - 1]
    <2>1. /\ total' = total + n
          /\ sendQueue' = {i \in sendQueue : \A k \in 1 .. n : SeqOf(i) # SeqOf(m[k])} \cup Range(m)
      BY <1>2 DEF Enqueue
    <2>2. n \in Nat /\ total + n <= MaxPackets
      BY <1>0, <1>2 DEF Enqueue
    <2>3. ASSUME NEW i \in 0 .. total - 1, i \in sendQueue PROVE i \in sendQueue'
      <3>1. ASSUME NEW k \in 1 .. n PROVE SeqOf(i) # SeqOf(m[k])
        <4>1. m[k] = total + k - 1
          OBVIOUS
        <4>2. i \in 0 .. MaxPackets /\ total + k - 1 \in 0 .. MaxPackets /\ i # total + k - 1
          BY <1>0, <2>2
        <4> QED
          BY <4>1, <4>2, SeqIsIndex
      <3> QED
        BY <2>1, <2>3, <3>1
    <2>4. ASSUME NEW i \in total .. total + n - 1 PROVE i \in sendQueue'
      <3>1. PICK j \in 1 .. n : total + j - 1 = i
        BY <1>0, <2>2
      <3>2. i \in Range(m)
        BY <3>1 DEF Range
      <3> QED
        BY <2>1, <3>2
    <2>5. \A i \in 0 .. total' - 1 : i \in 0 .. total - 1 \/ i \in total .. total + n - 1
      BY <1>0, <2>1, <2>2
    <2> QED
      BY <1>1, <2>3, <2>4, <2>5 DEF AckedIsHeld
  <1>3. ASSUME NEW c \in ackNet, AckList(c) PROVE AckedIsHeld'
    <2>1. total' = total /\ sendQueue' = {i \in sendQueue : \A a \in c : SeqOf(i) # SeqOf(a)}
      BY <1>3 DEF AckList, Acked
    <2>2. ASSUME NEW i \in 0 .. total - 1, i \in sendQueue, i \notin sendQueue' PROVE Held(i)'
      <3>1. PICK a \in c : SeqOf(i) = SeqOf(a)
        BY <2>1, <2>2
      <3>2. a \in 0 .. total - 1
        BY DEF IInv, Known
      <3>3. i \in 0 .. MaxPackets /\ a \in 0 .. MaxPackets
        BY <1>0, <3>2
      <3>4. i = a
        BY <3>1, <3>3, SeqIsIndex
      <3>5. Held(i)
        BY <3>4 DEF AckInv, AcksAreHeld
      <3> QED
        BY <3>5, HeldKept DEF AckInv
    <2> QED
      BY <1>1, <2>1, <2>2 DEF AckedIsHeld
  <1>4. CASE UNCHANGED <<total, sendQueue>>
    BY <1>1, <1>4 DEF AckedIsHeld
  <1>5. \/ \E n \in 1 .. MaxFragments : Enqueue(n)
        \/ \E c \in ackNet : AckList(c)
        \/ UNCHANGED <<total, sendQueue>>
    BY DEF Next, Receive, Resend, ReceiveAddAck, ProceedBegin, ProceedDeliver, ProceedEnd, FlushAcks, vars
  <1> QED
    BY <1>2, <1>3, <1>4, <1>5

\* A packet that is no longer resent is one the receiver has, although addAck
\* runs before receive() decides what to do with the packet.
THEOREM NoPacketForgotten ==
    ASSUME NoWrap, SmallBacklog
    PROVE  Spec => []AckedIsHeld
  <1>1. Init => AckInv
    BY ChannelConstants DEF Init, AckInv, AcksAreHeld, AckedIsHeld, Backlog
  <1>2. IInv /\ AckInv /\ [Next]_vars => AckInv'
    BY AcksStep, AckedStep, BacklogStep DEF AckInv
  <1>3. AckInv => AckedIsHeld
    BY DEF AckInv
  <1> QED
    BY <1>1, <1>2, <1>3, Invariant, PTL DEF Spec
=============================================================================
