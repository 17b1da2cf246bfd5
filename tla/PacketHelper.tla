---------------------------- MODULE PacketHelper ----------------------------
(***************************************************************************)
(* PacketHelper::createNormalPacket: the payload of a message, given as a  *)
(* list of serializers, is cut into fragments with a small header; and     *)
(* what Link::receive, ReliableRecv::receive and reAssembleBigPacket make  *)
(* of those fragments at the other end, when all of them arrive.           *)
(*                                                                         *)
(* One action per iteration of the two nested loops.  A payload byte is    *)
(* identified by its place 1, 2, 3, ... in the whole message, the data id  *)
(* byte is 0.  The flags byte keeps its bits.  Rpc puts the actions        *)
(* between its own.                                                        *)
(***************************************************************************)
EXTENDS Integers, Sequences, SequencesExt, FiniteSetsExt

CONSTANTS
    Payloads,           \* serializers to be sent: where each of them ends in the whole payload
    Channels,           \* channel arguments, at most MM_CHANNEL_MASK
    MaxFragmentSize,    \* MM_MAX_FRAGMENTSIZE
    MinHdrSize          \* MM_MIN_HDR_SIZE

ChannelMask == 7
RelayBit == 4
DataId == 0

\* createNormalPacket throws unless there is room for data.
ASSUME FragmentRoom == MaxFragmentSize - MinHdrSize > MinHdrSize * 2

\* The header that is counted has room for component, flags and data id at least.
ASSUME HeaderSize == MinHdrSize \in Nat /\ MinHdrSize >= 3 /\ MaxFragmentSize \in Nat

ASSUME ChannelsAssumption == Channels \subseteq 0 .. ChannelMask

ASSUME PayloadsAssumption ==
    \A e \in Payloads : e \in Seq(Nat) /\ \A i, j \in DOMAIN e : i <= j => e[i] <= e[j]

VARIABLES
    ends,           \* the serializers: the i-th holds the bytes of the payload from Start(i) to ends[i]
    channel, relay, \* arguments
    pc,             \* "fragment", "copy", "sent", "received"
    totalLength, offset, srIdx, writeLen,
    isFirst,        \* isFirstFragment, and MM_FRAGMENT_FIRST_BIT in channelAndFlags
    quit,           \* quit, and MM_FRAGMENT_LAST_BIT in channelAndFlags
    fragment,       \* sp->m_PayLoad: [first, last, channel, data]
    fragments,      \* framgentsOut
    payload,        \* the bytes handlePacket is given
    onChannel       \* the channel they were handed on

vars == <<ends, channel, relay, pc, totalLength, offset, srIdx, writeLen,
          isFirst, quit, fragment, fragments, payload, onChannel>>

\* The lengths of all serializers, and of one.
Total(e) == IF e = <<>> THEN 0 ELSE Last(e)
Start(i) == IF i = 1 THEN 0 ELSE ends[i - 1]
Length(i) == ends[i] - Start(i)

\* Bytes of serializer i, by their place in the payload, counting from 1.
Bytes(i, from, n) == [k \in 1 .. n |-> Start(i) + from + k]

\* (channel & MM_CHANNEL_MASK) | (relay ? MM_RELAY_BIT : 0), the low bits of the
\* flags byte, and what Link::receive masks out of it again.
MakeChannel(ch, rl) ==
    LET c == ch % (ChannelMask + 1)
    IN  IF rl /\ (c \div RelayBit) % 2 = 0 THEN c + RelayBit ELSE c
ReadChannel(flags) == flags % (ChannelMask + 1)

NoFragment == [first |-> FALSE, last |-> FALSE, channel |-> 0, data |-> <<>>]

Init ==
    /\ ends \in Payloads
    /\ channel \in Channels
    /\ relay \in BOOLEAN
    /\ pc = "fragment"
    /\ totalLength = Total(ends)
    /\ offset = 0
    /\ srIdx = 1
    /\ writeLen = 0
    /\ isFirst = TRUE
    /\ quit = FALSE
    /\ fragment = NoFragment
    /\ fragments = <<>>
    /\ payload = <<>>
    /\ onChannel = channel

\* createNormalPacket begins.
Create(e) ==
    /\ ends' = e /\ totalLength' = Total(e)
    /\ pc' = "fragment" /\ offset' = 0 /\ srIdx' = 1 /\ writeLen' = 0
    /\ isFirst' = TRUE /\ quit' = FALSE /\ fragment' = NoFragment /\ fragments' = <<>>
    /\ payload' = <<>>
    /\ UNCHANGED <<channel, relay, onChannel>>
----------------------------------------------------------------------------
\* The slips after an operator's name are what the runs must notice.

\* The payload bytes that fit a fragment.
Room_NoHeader == MaxFragmentSize
Room == MaxFragmentSize - MinHdrSize

\* The header of a fragment; only the first one has the first bit and the data id.
NewFragment_KeepsFirst(isLast) ==
    [first |-> TRUE, last |-> isLast, channel |-> MakeChannel(channel, relay),
     data |-> IF isFirst THEN <<DataId>> ELSE <<>>]
NewFragment(isLast) ==
    [first |-> isFirst, last |-> isLast, channel |-> MakeChannel(channel, relay),
     data |-> IF isFirst THEN <<DataId>> ELSE <<>>]

\* The outer loop up to the inner one.  A payload of no bytes is one fragment.
BeginFragment ==
    LET n == Min({totalLength, Room}) IN
    /\ pc = "fragment"
    /\ writeLen' = n
    /\ totalLength' = totalLength - n
    /\ quit' = (totalLength' = 0)
    /\ fragment' = NewFragment(quit')
    /\ isFirst' = FALSE
    /\ pc' = "copy"
    /\ UNCHANGED <<ends, channel, relay, offset, srIdx, fragments, payload, onChannel>>

\* The inner loop: the rest of a serializer and on to the next one, ...
CopyRest_WaitsForEmpty ==
    LET left == Length(srIdx) - offset IN
    /\ pc = "copy" /\ srIdx <= Len(ends) /\ writeLen > 0
    /\ left > 0 /\ writeLen >= left
    /\ fragment' = [fragment EXCEPT !.data = @ \o Bytes(srIdx, offset, left)]
    /\ writeLen' = writeLen - left
    /\ offset' = 0
    /\ srIdx' = srIdx + 1
    /\ UNCHANGED <<ends, channel, relay, pc, totalLength, isFirst, quit, fragments, payload, onChannel>>
CopyRest ==
    LET left == Length(srIdx) - offset IN
    /\ pc = "copy" /\ srIdx <= Len(ends) /\ writeLen > 0
    /\ writeLen >= left
    /\ fragment' = [fragment EXCEPT !.data = @ \o Bytes(srIdx, offset, left)]
    /\ writeLen' = writeLen - left
    /\ offset' = 0
    /\ srIdx' = srIdx + 1
    /\ UNCHANGED <<ends, channel, relay, pc, totalLength, isFirst, quit, fragments, payload, onChannel>>

\* ... or a part of it, which fills the fragment ...
CopyPart_Restarts ==
    /\ pc = "copy" /\ srIdx <= Len(ends) /\ writeLen > 0
    /\ writeLen < Length(srIdx) - offset
    /\ fragments' = Append(fragments, [fragment EXCEPT !.data = @ \o Bytes(srIdx, offset, writeLen)])
    /\ offset' = writeLen
    /\ pc' = IF quit THEN "sent" ELSE "fragment"
    /\ UNCHANGED <<ends, channel, relay, totalLength, srIdx, writeLen, isFirst, quit, fragment, payload, onChannel>>
CopyPart ==
    /\ pc = "copy" /\ srIdx <= Len(ends) /\ writeLen > 0
    /\ writeLen < Length(srIdx) - offset
    /\ fragments' = Append(fragments, [fragment EXCEPT !.data = @ \o Bytes(srIdx, offset, writeLen)])
    /\ offset' = offset + writeLen
    /\ pc' = IF quit THEN "sent" ELSE "fragment"
    /\ UNCHANGED <<ends, channel, relay, totalLength, srIdx, writeLen, isFirst, quit, fragment, payload, onChannel>>

\* ... or nothing more.
EndFragment ==
    /\ pc = "copy" /\ ~(srIdx <= Len(ends) /\ writeLen > 0)
    /\ fragments' = Append(fragments, fragment)
    /\ pc' = IF quit THEN "sent" ELSE "fragment"
    /\ UNCHANGED <<ends, channel, relay, totalLength, offset, srIdx, writeLen, isFirst, quit, fragment, payload, onChannel>>

\* The receiver: every fragment gives its first byte to packId, and the rest of
\* all fragments is the message.
Receive ==
    /\ pc = "sent"
    /\ payload' = FlattenSeq([k \in DOMAIN fragments |-> Tail(fragments[k].data)])
    /\ onChannel' = ReadChannel(fragments[1].channel)
    /\ pc' = "received"
    /\ UNCHANGED <<ends, channel, relay, totalLength, offset, srIdx, writeLen, isFirst, quit, fragment, fragments>>

\* One message after the other.
Next == (\E e \in Payloads : Create(e)) \/ BeginFragment \/ CopyRest \/ CopyPart \/ EndFragment \/ Receive
Spec == Init /\ [][Next]_vars
----------------------------------------------------------------------------
\* createNormalPacket writes the data id and then every byte of every serializer, in order and
\* once, whatever the serializers' lengths are, zero included: each fragment goes on where the
\* one before it ends, from place 0 to the last.
NothingLost ==
    LET Data(k) == fragments[k].data IN
    pc \in {"sent", "received"} =>
        /\ \A k \in DOMAIN fragments : /\ Data(k) # <<>>
                                       /\ \A i \in DOMAIN Data(k) : Data(k)[i] = i - 1 + IF k = 1 THEN 0 ELSE Last(Data(k - 1)) + 1
        /\ fragments # <<>> /\ Last(Last(fragments).data) = Total(ends)

\* The assertion of ReliableSend::enqueue on every fragment: component, flags, id
\* and data fit MM_MAX_FRAGMENTSIZE.
FragmentsFit == \A k \in DOMAIN fragments : 2 + Len(fragments[k].data) <= MaxFragmentSize

\* tryReassembleBigPacket can tell where the message begins and ends: the first
\* fragment and no other has the first bit, likewise the last, and a message in
\* one fragment has both and is taken for unfragmented.
EndsMarked ==
    pc \in {"sent", "received"} =>
        \A k \in DOMAIN fragments : /\ fragments[k].first <=> k = 1
                                    /\ fragments[k].last <=> k = Len(fragments)
=============================================================================
