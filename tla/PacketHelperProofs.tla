------------------------- MODULE PacketHelperProofs -------------------------
(***************************************************************************)
(* What createNormalPacket makes of serializers of any number and lengths, *)
(* with any fragment size that it accepts.                                 *)
(***************************************************************************)
EXTENDS PacketHelper, TLAPS

IsLayout(e) == e \in Seq(Nat) /\ \A i, j \in DOMAIN e : i <= j => e[i] <= e[j]

Fragment == [first : BOOLEAN, last : BOOLEAN, channel : Int, data : Seq(Nat)]

\* The bytes of the payload that are written.
Written == IF srIdx <= Len(ends) THEN Start(srIdx) + offset ELSE Total(ends)

\* The place the next fragment begins at.
Reach(fs) == IF fs = <<>> THEN 0 ELSE fs[Len(fs)].data[1] + Len(fs[Len(fs)].data)

\* The types of the locals of createNormalPacket.
Locals ==
    /\ IsLayout(ends)
    /\ pc \in {"fragment", "copy", "sent", "received"}
    /\ channel \in Int /\ relay \in BOOLEAN
    /\ totalLength \in Nat /\ offset \in Nat /\ writeLen \in Nat
    /\ srIdx \in 1 .. Len(ends) + 1
    /\ isFirst \in BOOLEAN /\ quit \in BOOLEAN
    /\ fragment \in Fragment /\ fragments \in Seq(Fragment)

\* What is written, what is to be copied and what is left make up the payload.
Counts ==
    /\ IF srIdx <= Len(ends) THEN offset <= Length(srIdx) ELSE offset = 0
    /\ pc = "fragment" => Written + totalLength = Total(ends)
    /\ pc = "copy" => Written + writeLen + totalLength = Total(ends)
    /\ pc \in {"sent", "received"} => Written = Total(ends)

\* The fragments that are finished: all of them or not yet.
Finished(fs, all) ==
    \A k \in DOMAIN fs :
        /\ fs[k].data # <<>>
        /\ Len(fs[k].data) <= 1 + Room
        /\ \A i \in DOMAIN fs[k].data : fs[k].data[i] = fs[k].data[1] + i - 1
        /\ fs[k].data[1] = IF k = 1 THEN 0 ELSE fs[k - 1].data[1] + Len(fs[k - 1].data)
        /\ fs[k].first <=> k = 1
        /\ fs[k].last <=> k = Len(fs) /\ all

\* The fragment that is being written, and where it goes on.
Current ==
    /\ isFirst <=> pc = "fragment" /\ fragments = <<>>
    /\ pc = "fragment" => IF isFirst THEN Written = 0 ELSE Reach(fragments) = Written + 1 /\ totalLength > 0
    /\ pc = "copy" =>
        /\ quit <=> totalLength = 0
        /\ fragment.first <=> fragments = <<>>
        /\ fragment.last = quit
        /\ \A i \in DOMAIN fragment.data : fragment.data[i] = Reach(fragments) + i - 1
        /\ Reach(fragments) + Len(fragment.data) = Written + 1
        /\ fragment.data # <<>> \/ writeLen > 0
        /\ Len(fragment.data) + writeLen <= 1 + Room
    /\ pc \in {"sent", "received"} => fragments # <<>> /\ Reach(fragments) = Written + 1

Over == pc \in {"sent", "received"}

Cutting == Locals /\ Counts /\ Finished(fragments, Over) /\ Current
----------------------------------------------------------------------------
\* There is room for data in a fragment.
LEMMA RoomLeft == Room \in Nat \ {0}
BY FragmentRoom, HeaderSize DEF Room

\* Bytes that go on where a run of places ends make it longer.
LEMMA Joined ==
    ASSUME NEW d \in Seq(Nat), NEW from \in Nat, NEW w \in Nat, NEW n \in Nat,
           \A i \in DOMAIN d : d[i] = from + i - 1,
           from + Len(d) = w + 1
    PROVE  LET b == [k \in 1 .. n |-> w + k] IN
           /\ d \o b \in Seq(Nat)
           /\ Len(d \o b) = Len(d) + n
           /\ \A i \in DOMAIN (d \o b) : (d \o b)[i] = from + i - 1
<1> DEFINE b == [k \in 1 .. n |-> w + k]
<1>1. b \in Seq(Nat) /\ Len(b) = n
  OBVIOUS
<1>2. d \o b \in Seq(Nat) /\ Len(d \o b) = Len(d) + n
  BY <1>1
<1>3. ASSUME NEW i \in DOMAIN (d \o b) PROVE (d \o b)[i] = from + i - 1
  <2>1. i \in 1 .. Len(d) + n
    BY <1>1, <1>2
  <2>2. CASE i <= Len(d)
    BY <2>1, <2>2, <1>1
  <2>3. CASE i > Len(d)
    <3>1. (d \o b)[i] = b[i - Len(d)] /\ i - Len(d) \in 1 .. n
      BY <2>1, <2>3, <1>1
    <3>2. b[i - Len(d)] = w + (i - Len(d))
      BY Zenon, <3>1
    <3>3. Len(d) \in Nat /\ i \in Int
      BY <2>1
    <3>4. w + (i - Len(d)) = from + i - 1
      BY <3>3
    <3> QED
      BY <3>1, <3>2, <3>4, Zenon
  <2> QED
    BY <2>1, <2>2, <2>3
<1> QED
  BY Zenon, <1>2, <1>3

\* The next fragment begins somewhere.
LEMMA ReachIsPlace ==
    ASSUME NEW fs \in Seq(Fragment), NEW all, Finished(fs, all)
    PROVE  Reach(fs) \in Nat
<1>1. CASE fs = <<>>
  BY Zenon, <1>1 DEF Reach
<1>2. CASE fs # <<>>
  <2>1. fs[Len(fs)] \in Fragment /\ Len(fs) \in DOMAIN fs
    BY <1>2
  <2>2. fs[Len(fs)].data \in Seq(Nat) /\ fs[Len(fs)].data # <<>>
    BY Zenon, <2>1 DEF Fragment, Finished
  <2> QED
    BY <1>2, <2>2 DEF Reach
<1> QED
  BY <1>1, <1>2

\* A fragment that is finished goes behind those before it.
LEMMA OneMore ==
    ASSUME NEW fs \in Seq(Fragment), NEW f \in Fragment, NEW q \in BOOLEAN,
           Finished(fs, FALSE),
           f.data # <<>>, Len(f.data) <= 1 + Room,
           \A i \in DOMAIN f.data : f.data[i] = Reach(fs) + i - 1,
           f.first <=> fs = <<>>,
           f.last = q
    PROVE  /\ Append(fs, f) \in Seq(Fragment) /\ Append(fs, f) # <<>>
           /\ Finished(Append(fs, f), q)
           /\ Reach(Append(fs, f)) = Reach(fs) + Len(f.data)
<1> DEFINE gs == Append(fs, f)
<1> DEFINE n == Len(fs)
<1>1. /\ gs \in Seq(Fragment) /\ gs # <<>> /\ Len(gs) = n + 1 /\ n \in Nat
      /\ gs[n + 1] = f /\ \A k \in 1 .. n : gs[k] = fs[k]
  OBVIOUS
<1>2. f.data \in Seq(Nat) /\ Len(f.data) \in Nat \ {0}
  BY DEF Fragment
<1>3. f.data[1] = Reach(fs) /\ Reach(fs) \in Nat
  <2>1. f.data[1] = Reach(fs) + 1 - 1 /\ f.data[1] \in Nat
    BY <1>2
  <2>2. Reach(fs) \in Nat
    BY Zenon, ReachIsPlace
  <2> QED
    BY <2>1, <2>2
<1>4. Reach(gs) = Reach(fs) + Len(f.data)
  BY Zenon, <1>1, <1>3 DEF Reach
<1>5. ASSUME NEW k \in 1 .. n
      PROVE  /\ gs[k].data # <<>>
             /\ Len(gs[k].data) <= 1 + Room
             /\ \A i \in DOMAIN gs[k].data : gs[k].data[i] = gs[k].data[1] + i - 1
             /\ gs[k].data[1] = IF k = 1 THEN 0 ELSE gs[k - 1].data[1] + Len(gs[k - 1].data)
             /\ gs[k].first <=> k = 1
             /\ gs[k].last = FALSE
  <2>1. gs[k] = fs[k] /\ (k # 1 => gs[k - 1] = fs[k - 1]) /\ k \in DOMAIN fs
    BY <1>1
  <2>2. fs[k] \in Fragment
    BY <2>1
  <2>3. /\ fs[k].data # <<>>
        /\ Len(fs[k].data) <= 1 + Room
        /\ \A i \in DOMAIN fs[k].data : fs[k].data[i] = fs[k].data[1] + i - 1
        /\ fs[k].data[1] = IF k = 1 THEN 0 ELSE fs[k - 1].data[1] + Len(fs[k - 1].data)
        /\ fs[k].first <=> k = 1
    BY <2>1, Zenon DEF Finished
  <2>4. fs[k].last = FALSE
    BY Zenon, <2>1, <2>2 DEF Finished, Fragment
  <2> HIDE DEF gs, n
  <2> QED
    BY <2>1, <2>3, <2>4
<1>6. /\ \A i \in DOMAIN f.data : f.data[i] = f.data[1] + i - 1
      /\ f.data[1] = IF n + 1 = 1 THEN 0 ELSE gs[n].data[1] + Len(gs[n].data)
      /\ f.first <=> n + 1 = 1
  <2>1. \A i \in DOMAIN f.data : f.data[i] = f.data[1] + i - 1
    BY Zenon, <1>3
  <2>2. fs = <<>> <=> n + 1 = 1
    OBVIOUS
  <2>3. n + 1 # 1 => gs[n] = fs[n]
    BY <1>1
  <2>4. f.data[1] = IF n + 1 = 1 THEN 0 ELSE gs[n].data[1] + Len(gs[n].data)
    BY <1>3, <2>2, <2>3 DEF Reach
  <2> QED
    BY <2>1, <2>2, <2>4
<1>7. ASSUME NEW k \in DOMAIN gs
      PROVE  /\ gs[k].data # <<>>
             /\ Len(gs[k].data) <= 1 + Room
             /\ \A i \in DOMAIN gs[k].data : gs[k].data[i] = gs[k].data[1] + i - 1
             /\ gs[k].data[1] = IF k = 1 THEN 0 ELSE gs[k - 1].data[1] + Len(gs[k - 1].data)
             /\ gs[k].first <=> k = 1
             /\ gs[k].last <=> k = Len(gs) /\ q
  <2>1. k \in 1 .. n \/ k = n + 1
    BY <1>1
  <2> HIDE DEF gs, n
  <2>2. CASE k \in 1 .. n
    <3>1. k # Len(gs)
      BY <2>2, <1>1
    <3> QED
      BY Zenon, <2>2, <3>1, <1>5
  <2>3. CASE k = n + 1
    <3>1. gs[k] = f /\ k = Len(gs) /\ k - 1 = n
      BY <2>3, <1>1
    <3> QED
      BY Zenon, <2>3, <3>1, <1>6
  <2> QED
    BY Zenon, <2>1, <2>2, <2>3
<1>8. Finished(gs, q)
  <2> HIDE DEF gs
  <2> QED
    BY <1>7 DEF Finished
<1> QED
  BY Zenon, <1>1, <1>4, <1>8
----------------------------------------------------------------------------
\* A call begins with nothing written.
Fresh ==
    /\ IsLayout(ends) /\ channel \in Int /\ relay \in BOOLEAN
    /\ pc = "fragment" /\ totalLength = Total(ends) /\ offset = 0 /\ srIdx = 1 /\ writeLen = 0
    /\ isFirst = TRUE /\ quit = FALSE /\ fragment = NoFragment /\ fragments = <<>>

\* So the invariant holds when a call begins.
LEMMA Begun == Fresh => Cutting
<1> SUFFICES ASSUME Fresh PROVE Cutting
  OBVIOUS
<1> USE DEF Fresh
<1>1. NoFragment \in Fragment
  BY DEF NoFragment, Fragment
<1>2. ends \in Seq(Nat) /\ Len(ends) \in Nat
  BY DEF IsLayout
<1>3. Total(ends) \in Nat
  BY <1>2 DEF Total, Last
<1>4. Locals
  <2>1. fragments \in Seq(Fragment) /\ fragment \in Fragment
    BY <1>1
  <2>2. srIdx \in 1 .. Len(ends) + 1
    BY <1>2
  <2> QED
    BY Zenon, <2>1, <2>2, <1>3 DEF Locals
<1>5. Written = 0
  BY <1>2 DEF Written, Start, Total
<1>6. Counts
  <2>1. 1 <= Len(ends) => ends[1] \in Nat
    BY <1>2
  <2> QED
    BY SMTT(30), <1>2, <1>3, <1>5, <2>1 DEF Counts, Length, Start
<1>7. Finished(fragments, Over)
  BY DEF Finished
<1>8. Current
  BY Zenon, <1>5 DEF Current
<1> QED
  BY Zenon, <1>4, <1>6, <1>7, <1>8 DEF Cutting

\* Initially nothing is written.
LEMMA CuttingInit == Init => Cutting
<1> SUFFICES ASSUME Init PROVE Cutting
  OBVIOUS
<1>1. IsLayout(ends)
  BY PayloadsAssumption DEF Init, IsLayout
<1>2. channel \in Int
  BY ChannelsAssumption DEF Init, ChannelMask
<1>3. Fresh
  BY Zenon, <1>1, <1>2 DEF Init, Fresh
<1> QED
  BY <1>3, Begun

\* The next call begins the same way.
LEMMA CreateStep == ASSUME Cutting, NEW e \in Payloads, Create(e) PROVE Cutting'
<1>1. IsLayout(ends)'
  BY PayloadsAssumption DEF Create, IsLayout
<1>2. (channel \in Int)' /\ (relay \in BOOLEAN)'
  BY Zenon DEF Create, Cutting, Locals
<1>3. (pc = "fragment" /\ totalLength = Total(ends) /\ offset = 0 /\ srIdx = 1 /\ writeLen = 0)'
  BY Zenon DEF Create
<1>4. (isFirst = TRUE /\ quit = FALSE /\ fragment = NoFragment /\ fragments = <<>>)'
  BY DEF Create
<1>5. Fresh'
  BY SMTT(30), <1>1, <1>2, <1>3, <1>4 DEF Fresh
<1> QED
  BY <1>5, Begun, PTL

\* What is written depends on three variables.
LEMMA SameWritten == ASSUME ends' = ends, srIdx' = srIdx, offset' = offset PROVE Written' = Written
BY DEF Written, Start, Total

\* Numbers that the steps reckon with.
LEMMA Numbers ==
    ASSUME Locals
    PROVE  /\ Len(ends) \in Nat /\ Total(ends) \in Nat /\ Written \in Nat
           /\ srIdx \in Nat /\ srIdx >= 1 /\ srIdx <= Len(ends) + 1
           /\ srIdx <= Len(ends) => ends[srIdx] \in Nat /\ Start(srIdx) \in Nat /\ Length(srIdx) \in Nat
<1>1. ends \in Seq(Nat) /\ Len(ends) \in Nat /\ srIdx \in 1 .. Len(ends) + 1 /\ offset \in Nat
  BY DEF Locals, IsLayout
<1>2. Total(ends) \in Nat
  BY <1>1 DEF Total, Last
<1>3. ASSUME srIdx <= Len(ends) PROVE ends[srIdx] \in Nat /\ Start(srIdx) \in Nat /\ Length(srIdx) \in Nat
  <2>1. ends[srIdx] \in Nat /\ Start(srIdx) \in Nat
    BY <1>1, <1>3 DEF Start
  <2>2. Start(srIdx) <= ends[srIdx]
    <3>1. CASE srIdx = 1
      BY <3>1, <2>1 DEF Start
    <3>2. CASE srIdx # 1
      <4>1. srIdx - 1 \in DOMAIN ends /\ srIdx \in DOMAIN ends /\ srIdx - 1 <= srIdx
        BY <1>1, <1>3, <3>2
      <4>2. ends[srIdx - 1] <= ends[srIdx]
        BY Zenon, <4>1 DEF Locals, IsLayout
      <4> QED
        BY Zenon, <4>2, <3>2 DEF Start
    <3> QED
      BY <3>1, <3>2
  <2> QED
    BY <2>1, <2>2 DEF Length
<1>4. Written \in Nat
  BY <1>1, <1>2, <1>3 DEF Written
<1> QED
  BY SMTT(30), <1>1, <1>2, <1>3, <1>4

\* A fragment begins: it takes what it has room for, at least a byte unless all is written.
LEMMA BeginStep == ASSUME Cutting, BeginFragment PROVE Cutting'
<1> DEFINE n == Min({totalLength, Room})
<1>0. Locals /\ Counts /\ Finished(fragments, Over) /\ Current
  BY DEF Cutting
<1>1. totalLength \in Nat /\ Room \in Nat \ {0}
  BY <1>0, RoomLeft DEF Locals
<1>2. n \in Nat /\ n <= totalLength /\ n <= Room /\ (n = totalLength \/ n = Room)
  <2>1. \E x \in {totalLength, Room} : \A y \in {totalLength, Room} : x <= y
    BY <1>1
  <2>2. n \in {totalLength, Room} /\ \A y \in {totalLength, Room} : n <= y
    BY <2>1 DEF Min
  <2> HIDE DEF n
  <2> QED
    BY Zenon, <2>2, <1>1
<1>3. /\ pc = "fragment" /\ pc' = "copy" /\ writeLen' = n /\ totalLength' = totalLength - n
      /\ quit' = (totalLength' = 0) /\ fragment' = NewFragment(quit') /\ isFirst' = FALSE
  BY Zenon DEF BeginFragment
<1>4. /\ ends' = ends /\ channel' = channel /\ relay' = relay /\ offset' = offset /\ srIdx' = srIdx
      /\ fragments' = fragments
  BY DEF BeginFragment
<1> HIDE DEF n
<1>5. MakeChannel(channel, relay) \in Int
  BY <1>0 DEF Locals, MakeChannel, ChannelMask, RelayBit
<1>6. /\ fragment'.first = isFirst /\ fragment'.last = quit'
      /\ fragment'.data = IF isFirst THEN <<0>> ELSE <<>>
      /\ fragment' \in Fragment
  <2>1. quit' \in BOOLEAN /\ isFirst \in BOOLEAN
    BY <1>0, <1>3 DEF Locals
  <2>2. fragment' = [first |-> isFirst, last |-> quit', channel |-> MakeChannel(channel, relay),
                     data |-> IF isFirst THEN <<0>> ELSE <<>>]
    BY <1>3 DEF NewFragment, DataId
  <2>3. (IF isFirst THEN <<0>> ELSE <<>>) \in Seq(Nat)
    OBVIOUS
  <2> QED
    BY SMTT(30), <1>5, <2>1, <2>2, <2>3 DEF Fragment
<1>7. Written' = Written /\ Written \in Nat /\ Written + totalLength = Total(ends) /\ Total(ends') = Total(ends)
  BY SMTT(30), <1>0, <1>3, <1>4, SameWritten, Numbers DEF Counts
<1>8. Locals'
  <2>1. totalLength' \in Nat /\ writeLen' \in Nat /\ quit' \in BOOLEAN
    BY SMTT(30), <1>1, <1>2, <1>3
  <2> QED
    BY Zenon, <2>1, <1>0, <1>3, <1>4, <1>6 DEF Locals
<1>9. Counts'
  <2>1. (IF srIdx <= Len(ends) THEN offset <= Length(srIdx) ELSE offset = 0)'
    BY <1>0, <1>4 DEF Counts, Length, Start
  <2>2. Written' + writeLen' + totalLength' = Total(ends')
    BY SMTT(30), <1>1, <1>2, <1>3, <1>7
  <2> QED
    BY Zenon, <2>1, <2>2, <1>3 DEF Counts
<1>10. Finished(fragments, Over)'
  <2>1. Over = FALSE /\ Over' = FALSE
    BY <1>3 DEF Over
  <2> QED
    BY SMTT(30), <1>0, <1>4, <2>1 DEF Finished
<1>11. Current'
  <2>1. isFirst <=> fragments = <<>>
    BY Zenon, <1>0, <1>3 DEF Current
  <2>2. Reach(fragments') = Reach(fragments)
    BY <1>4
  <2>3. CASE isFirst
    <3>1. fragments = <<>> /\ Reach(fragments) = 0 /\ Written = 0 /\ fragment'.data = <<0>>
      BY SMTT(30), <2>1, <2>3, <1>0, <1>3, <1>6 DEF Reach, Current
    <3>2. \A i \in DOMAIN fragment'.data : fragment'.data[i] = Reach(fragments') + i - 1
      BY <3>1, <2>2
    <3>3. Len(fragment'.data) = 1 /\ fragment'.data # <<>>
      BY <3>1
    <3>4. Reach(fragments') + Len(fragment'.data) = Written' + 1
      BY Zenon, <3>1, <3>3, <2>2, <1>7
    <3>5. Len(fragment'.data) + writeLen' <= 1 + Room
      BY SMTT(30), <3>3, <1>1, <1>2, <1>3
    <3>6. (fragment'.first <=> fragments' = <<>>) /\ (isFirst' <=> pc' = "fragment" /\ fragments' = <<>>)
      BY Zenon, <3>1, <2>3, <1>3, <1>4, <1>6
    <3> QED
      BY Zenon, <3>2, <3>3, <3>4, <3>5, <3>6, <1>3, <1>6 DEF Current
  <2>4. CASE ~isFirst
    <3>1. fragments # <<>> /\ Reach(fragments) = Written + 1 /\ totalLength > 0 /\ fragment'.data = <<>>
      BY SMTT(30), <2>1, <2>4, <1>0, <1>3, <1>6 DEF Current
    <3>2. n > 0
      BY <3>1, <1>1, <1>2
    <3>3. \A i \in DOMAIN fragment'.data : fragment'.data[i] = Reach(fragments') + i - 1
      BY <3>1
    <3>4. Len(fragment'.data) = 0
      BY <3>1
    <3>5. Reach(fragments') + Len(fragment'.data) = Written' + 1
      BY SMTT(30), <3>1, <3>4, <2>2, <1>7
    <3>6. Len(fragment'.data) + writeLen' <= 1 + Room /\ writeLen' > 0
      BY SMTT(30), <3>2, <3>4, <1>1, <1>2, <1>3
    <3>7. (fragment'.first <=> fragments' = <<>>) /\ (isFirst' <=> pc' = "fragment" /\ fragments' = <<>>)
      BY SMTT(30), <3>1, <2>4, <1>3, <1>4, <1>6
    <3> QED
      BY Zenon, <3>3, <3>5, <3>6, <3>7, <1>3, <1>6 DEF Current
  <2> QED
    BY <2>3, <2>4
<1> QED
  BY Zenon, <1>8, <1>9, <1>10, <1>11 DEF Cutting
\* Copying n bytes from where the serializer is read goes on where the fragment ends.
LEMMA Copied ==
    ASSUME Cutting, pc = "copy", srIdx <= Len(ends), NEW n \in Nat
    PROVE  LET d == fragment.data \o Bytes(srIdx, offset, n)
               f == [fragment EXCEPT !.data = fragment.data \o Bytes(srIdx, offset, n)] IN
           /\ f \in Fragment /\ f.first = fragment.first /\ f.last = fragment.last /\ f.data = d
           /\ Len(d) = Len(fragment.data) + n
           /\ \A i \in DOMAIN d : d[i] = Reach(fragments) + i - 1
<1> DEFINE d == fragment.data \o Bytes(srIdx, offset, n)
<1> DEFINE f == [fragment EXCEPT !.data = d]
<1>1. fragment \in Fragment /\ fragment.data \in Seq(Nat)
  BY DEF Cutting, Locals, Fragment
<1>2. Written \in Nat /\ Written = Start(srIdx) + offset /\ Start(srIdx) \in Nat /\ offset \in Nat
  BY Numbers DEF Cutting, Locals, Written
<1>3. Bytes(srIdx, offset, n) = [k \in 1 .. n |-> Written + k]
  BY Zenon, <1>2 DEF Bytes
<1>4. /\ \A i \in DOMAIN fragment.data : fragment.data[i] = Reach(fragments) + i - 1
      /\ Reach(fragments) + Len(fragment.data) = Written + 1
  BY DEF Cutting, Current
<1>5. Reach(fragments) \in Nat
  BY ReachIsPlace DEF Cutting, Locals
<1>6. d \in Seq(Nat) /\ Len(d) = Len(fragment.data) + n /\ \A i \in DOMAIN d : d[i] = Reach(fragments) + i - 1
  <2> DEFINE b == [k \in 1 .. n |-> Written + k]
  <2>1. /\ fragment.data \o b \in Seq(Nat)
        /\ Len(fragment.data \o b) = Len(fragment.data) + n
        /\ \A i \in DOMAIN (fragment.data \o b) : (fragment.data \o b)[i] = Reach(fragments) + i - 1
    <3> SUFFICES LET c == [k \in 1 .. n |-> Written + k] IN
                 /\ fragment.data \o c \in Seq(Nat)
                 /\ Len(fragment.data \o c) = Len(fragment.data) + n
                 /\ \A i \in DOMAIN (fragment.data \o c) : (fragment.data \o c)[i] = Reach(fragments) + i - 1
      BY SMTT(30)
    <3>1. Written \in Nat /\ n \in Nat
      BY Zenon, <1>2
    <3> QED
      BY <3>1, <1>1, <1>4, <1>5, Joined, Zenon
  <2>2. d = fragment.data \o b
    BY <1>3
  <2> HIDE DEF b, d
  <2> QED
    BY <2>1, <2>2, Zenon
<1> HIDE DEF d
<1>7. f \in Fragment /\ f.first = fragment.first /\ f.last = fragment.last /\ f.data = d
  BY Zenon, <1>1, <1>6 DEF Fragment
<1> QED
  BY Zenon, <1>6, <1>7 DEF d
\* The rest of a serializer is copied, and the next one is read from its beginning.
LEMMA RestStep == ASSUME Cutting, CopyRest PROVE Cutting'
<1> DEFINE left == Length(srIdx) - offset
<1> DEFINE d == fragment.data \o Bytes(srIdx, offset, left)
<1>0. Locals /\ Counts /\ Finished(fragments, Over) /\ Current
  BY DEF Cutting
<1>1. /\ pc = "copy" /\ pc' = "copy" /\ srIdx <= Len(ends) /\ writeLen > 0 /\ writeLen >= left
      /\ fragment' = [fragment EXCEPT !.data = d]
      /\ writeLen' = writeLen - left /\ offset' = 0 /\ srIdx' = srIdx + 1
  BY DEF CopyRest
<1>2. /\ ends' = ends /\ channel' = channel /\ relay' = relay /\ totalLength' = totalLength
      /\ isFirst' = isFirst /\ quit' = quit /\ fragments' = fragments
  BY DEF CopyRest
<1>3. left \in Nat /\ writeLen \in Nat /\ offset \in Nat /\ Start(srIdx) \in Nat /\ totalLength \in Nat
  <2>1. offset <= Length(srIdx)
    BY Zenon, <1>0, <1>1 DEF Counts
  <2>2. writeLen \in Nat /\ offset \in Nat /\ Start(srIdx) \in Nat /\ totalLength \in Nat /\ Length(srIdx) \in Nat
    BY SMTT(30), <1>0, <1>1, Numbers DEF Locals
  <2> QED
    BY <2>1, <2>2
<1>4. /\ fragment' \in Fragment /\ fragment'.first = fragment.first /\ fragment'.last = fragment.last
      /\ fragment'.data = d
      /\ Len(d) = Len(fragment.data) + left
      /\ \A i \in DOMAIN d : d[i] = Reach(fragments) + i - 1
  BY <1>1, <1>3, Copied, Zenon
<1>5. /\ Written' = Written + left /\ Written \in Nat /\ Len(ends) \in Nat
      /\ srIdx \in Nat /\ srIdx >= 1 /\ ends \in Seq(Nat) /\ ends[srIdx] \in Nat
  <2>1. /\ Written \in Nat /\ Len(ends) \in Nat /\ srIdx \in Nat /\ srIdx >= 1
        /\ ends[srIdx] \in Nat /\ ends \in Seq(Nat)
    BY Zenon, <1>0, <1>1, Numbers DEF Locals, IsLayout
  <2>2. Written + left = ends[srIdx]
    BY SMTT(30), <1>1, <1>3, <2>1 DEF Written, Length
  <2>3. CASE srIdx + 1 <= Len(ends)
    BY <2>1, <2>2, <2>3, <1>1, <1>2 DEF Written, Start
  <2>4. CASE ~(srIdx + 1 <= Len(ends))
    <3>1. srIdx = Len(ends) /\ ends # <<>>
      BY <2>1, <2>4, <1>1
    <3>2. Total(ends) = ends[srIdx]
      BY Zenon, <3>1 DEF Total, Last
    <3>3. Written' = Total(ends)
      BY SMTT(30), <2>1, <2>4, <1>1, <1>2 DEF Written, Total
    <3> QED
      BY SMTT(30), <3>2, <3>3, <2>1, <2>2
  <2> QED
    BY SMTT(30), <2>1, <2>3, <2>4
<1> HIDE DEF left, d
<1>6. Locals'
  <2>1. writeLen' \in Nat /\ offset' \in Nat /\ srIdx' \in 1 .. Len(ends) + 1
    <3>1. writeLen - left \in Nat
      BY SMTT(30), <1>3, <1>1
    <3>2. srIdx + 1 \in 1 .. Len(ends) + 1
      BY <1>5, <1>1
    <3> QED
      BY Zenon, <3>1, <3>2, <1>1
  <2> QED
    BY SMTT(30), <2>1, <1>0, <1>1, <1>2, <1>4 DEF Locals
<1>7. Counts'
  <2>1. (IF srIdx <= Len(ends) THEN offset <= Length(srIdx) ELSE offset = 0)'
    <3>1. Locals' => (srIdx <= Len(ends) => Length(srIdx) \in Nat)'
      BY Numbers, PTL
    <3> QED
      BY SMTT(30), <3>1, <1>1, <1>6
  <2>2. Written + writeLen + totalLength = Total(ends) /\ Total(ends) \in Nat
    BY <1>0, <1>1, Numbers DEF Counts
  <2>3. Written' + writeLen' + totalLength' = Total(ends')
    BY SMTT(30), <2>2, <1>1, <1>2, <1>3, <1>5
  <2> QED
    BY SMTT(30), <2>1, <2>3, <1>1 DEF Counts
<1>8. Finished(fragments, Over)'
  <2>1. Over = FALSE /\ Over' = FALSE
    BY <1>1 DEF Over
  <2> QED
    BY <1>0, <1>2, <2>1 DEF Finished
<1>9. Current'
  <2>1. /\ Reach(fragments) + Len(fragment.data) = Written + 1
        /\ fragment.data # <<>> \/ writeLen > 0
        /\ Len(fragment.data) + writeLen <= 1 + Room
        /\ fragment.first <=> fragments = <<>>
        /\ fragment.last = quit
        /\ quit <=> totalLength = 0
        /\ isFirst = FALSE
    BY <1>0, <1>1 DEF Current, Locals
  <2>2. Len(fragment.data) \in Nat /\ Room \in Nat /\ Reach(fragments) \in Nat
    <3>1. fragment.data \in Seq(Nat)
      BY <1>0 DEF Locals, Fragment
    <3> QED
      BY <3>1, <1>0, ReachIsPlace, RoomLeft DEF Locals
  <2>3. Reach(fragments') + Len(fragment'.data) = Written' + 1
    <3>1. Reach(fragments) + (Len(fragment.data) + left) = (Written + left) + 1
      <4>1. Written \in Nat /\ left \in Nat /\ Reach(fragments) + Len(fragment.data) = Written + 1
        BY Zenon, <2>1, <1>3, <1>5
      <4> QED
        BY <4>1, <2>2
    <3> QED
      BY <3>1, <1>2, <1>4, <1>5, Zenon
  <2>4. Len(fragment'.data) + writeLen' <= 1 + Room
    <3>1. (Len(fragment.data) + left) + (writeLen - left) <= 1 + Room
      BY <2>1, <2>2, <1>3
    <3> QED
      BY <3>1, <1>1, <1>4, Zenon
  <2>5. fragment'.data # <<>> \/ writeLen' > 0
    <3>1. Len(fragment'.data) # 0 \/ writeLen' > 0
      BY SMTT(30), <2>2, <1>1, <1>3, <1>4
    <3> QED
      BY Zenon, <3>1
  <2> QED
    BY SMTT(30), <2>1, <2>3, <2>4, <2>5, <1>1, <1>2, <1>4 DEF Current
<1> QED
  BY SMTT(30), <1>6, <1>7, <1>8, <1>9 DEF Cutting

\* A fragment that is full, or has all that is left, is handed over; the last one ends the loop.
LEMMA HandOver ==
    ASSUME Cutting, pc = "copy", NEW f \in Fragment,
           fragments' = Append(fragments, f),
           f.first = fragment.first, f.last = fragment.last,
           f.data # <<>>, Len(f.data) <= 1 + Room,
           \A i \in DOMAIN f.data : f.data[i] = Reach(fragments) + i - 1,
           Reach(fragments) + Len(f.data) = Written' + 1,
           Written' + totalLength = Total(ends),
           pc' = IF quit THEN "sent" ELSE "fragment",
           offset' \in Nat,
           (IF srIdx <= Len(ends) THEN offset <= Length(srIdx) ELSE offset = 0)',
           UNCHANGED <<ends, channel, relay, totalLength, srIdx, writeLen, isFirst, quit, fragment>>
    PROVE  Cutting'
<1>0. Locals /\ Counts /\ Finished(fragments, Over) /\ Current
  BY DEF Cutting
<1>1. /\ fragments \in Seq(Fragment) /\ Finished(fragments, FALSE) /\ quit \in BOOLEAN
      /\ f.first <=> fragments = <<>>
      /\ f.last = quit
      /\ quit <=> totalLength = 0
      /\ isFirst = FALSE /\ totalLength \in Nat
  <2>1. Over = FALSE
    BY DEF Over
  <2> QED
    BY Zenon, <2>1, <1>0 DEF Locals, Current
<1>2. /\ Append(fragments, f) \in Seq(Fragment) /\ Append(fragments, f) # <<>>
      /\ Finished(Append(fragments, f), quit)
      /\ Reach(Append(fragments, f)) = Reach(fragments) + Len(f.data)
  BY <1>1, OneMore, Zenon
<1>3. Over' = quit /\ pc' \in {"sent", "fragment"}
  BY <1>1 DEF Over
<1>4. Locals'
  BY Zenon, <1>0, <1>2, <1>3 DEF Locals
<1>5. Total(ends') = Total(ends) /\ Total(ends) \in Nat /\ Written' \in Nat
  <2>1. Locals' => (Written \in Nat)'
    BY Numbers, PTL
  <2> QED
    BY SMTT(30), <2>1, <1>0, <1>4, Numbers
<1>6. Counts'
  <2>1. pc' = "fragment" => Written' + totalLength' = Total(ends')
    BY <1>5
  <2>2. pc' \in {"sent", "received"} => Written' = Total(ends')
    BY <1>1, <1>3, <1>5
  <2> QED
    BY SMTT(30), <2>1, <2>2, <1>3 DEF Counts
<1>7. Finished(fragments, Over)'
  BY Zenon, <1>2, <1>3 DEF Finished
<1>8. Current'
  <2>1. fragments' # <<>> /\ Reach(fragments') = Written' + 1
    BY Zenon, <1>2
  <2>2. pc' = "fragment" => totalLength' > 0
    BY <1>1
  <2> QED
    BY <2>1, <2>2, <1>1, <1>3 DEF Current
<1> QED
  BY Zenon, <1>4, <1>6, <1>7, <1>8 DEF Cutting

\* A part of a serializer fills the fragment.
LEMMA PartStep == ASSUME Cutting, CopyPart PROVE Cutting'
<1> DEFINE d == fragment.data \o Bytes(srIdx, offset, writeLen)
<1> DEFINE f == [fragment EXCEPT !.data = d]
<1>0. Locals /\ Counts /\ Finished(fragments, Over) /\ Current
  BY DEF Cutting
<1>1. /\ pc = "copy" /\ srIdx <= Len(ends) /\ writeLen > 0 /\ writeLen < Length(srIdx) - offset
      /\ fragments' = Append(fragments, f) /\ offset' = offset + writeLen
      /\ pc' = IF quit THEN "sent" ELSE "fragment"
      /\ UNCHANGED <<ends, channel, relay, totalLength, srIdx, writeLen, isFirst, quit, fragment>>
  BY DEF CopyPart
<1>2. writeLen \in Nat /\ offset \in Nat /\ Start(srIdx) \in Nat /\ totalLength \in Nat /\ Length(srIdx) \in Nat
  BY SMTT(30), <1>0, <1>1, Numbers DEF Locals
<1>3. /\ f \in Fragment /\ f.first = fragment.first /\ f.last = fragment.last
      /\ f.data = d
      /\ Len(d) = Len(fragment.data) + writeLen
      /\ \A i \in DOMAIN d : d[i] = Reach(fragments) + i - 1
  BY <1>1, <1>2, Copied, Zenon
<1> HIDE DEF f, d
<1>4. Written' = Written + writeLen /\ Written \in Nat
  <2>1. Written \in Nat
    BY Zenon, <1>0, Numbers
  <2> QED
    BY <2>1, <1>1, <1>2 DEF Written, Start
<1>5. /\ Reach(fragments) + Len(fragment.data) = Written + 1
      /\ Len(fragment.data) + writeLen <= 1 + Room
      /\ Written + writeLen + totalLength = Total(ends)
  BY <1>0, <1>1 DEF Current, Counts
<1>6. Len(fragment.data) \in Nat /\ Reach(fragments) \in Nat
  <2>1. fragment.data \in Seq(Nat)
    BY <1>0 DEF Locals, Fragment
  <2> QED
    BY SMTT(30), <2>1, <1>0, ReachIsPlace DEF Locals
<1>7. f.data # <<>> /\ Len(f.data) <= 1 + Room
  <2>1. Len(f.data) # 0 /\ Len(f.data) <= 1 + Room
    BY SMTT(30), <1>1, <1>2, <1>3, <1>5, <1>6
  <2> QED
    BY <2>1
<1>8. Reach(fragments) + Len(f.data) = Written' + 1 /\ Written' + totalLength = Total(ends)
  <2>1. /\ Reach(fragments) + (Len(fragment.data) + writeLen) = (Written + writeLen) + 1
        /\ (Written + writeLen) + totalLength = Total(ends)
    BY SMTT(30), <1>2, <1>4, <1>5, <1>6
  <2> QED
    BY <2>1, <1>3, <1>4, Zenon
<1>9. (IF srIdx <= Len(ends) THEN offset <= Length(srIdx) ELSE offset = 0)'
  <2>1. offset + writeLen <= Length(srIdx)
    BY <1>1, <1>2
  <2> QED
    BY SMTT(30), <2>1, <1>1 DEF Length, Start
<1>10. offset' \in Nat
  BY <1>1, <1>2
<1>11. \A i \in DOMAIN f.data : f.data[i] = Reach(fragments) + i - 1
  BY Zenon, <1>3
<1> QED
  BY SMTT(30), <1>1, <1>3, <1>7, <1>8, <1>9, <1>10, <1>11, HandOver

\* There is nothing more to copy.
LEMMA EndStep == ASSUME Cutting, EndFragment PROVE Cutting'
<1>0. Locals /\ Counts /\ Finished(fragments, Over) /\ Current
  BY DEF Cutting
<1>1. /\ pc = "copy" /\ ~(srIdx <= Len(ends) /\ writeLen > 0)
      /\ fragments' = Append(fragments, fragment)
      /\ pc' = IF quit THEN "sent" ELSE "fragment"
      /\ offset' = offset
      /\ UNCHANGED <<ends, channel, relay, totalLength, srIdx, writeLen, isFirst, quit, fragment>>
  BY DEF EndFragment
<1>2. Written' = Written /\ Written \in Nat /\ totalLength \in Nat /\ writeLen \in Nat
  BY SMTT(30), <1>0, <1>1, SameWritten, Numbers DEF Locals
<1>3. Written + writeLen + totalLength = Total(ends)
  BY <1>0, <1>1 DEF Counts
<1>4. writeLen = 0
  <2>1. CASE srIdx <= Len(ends)
    BY <2>1, <1>1, <1>2
  <2>2. CASE ~(srIdx <= Len(ends))
    <3>1. Written = Total(ends)
      BY <2>2 DEF Written
    <3> QED
      BY <3>1, <1>2, <1>3
  <2> QED
    BY Zenon, <2>1, <2>2
<1>5. /\ fragment \in Fragment
      /\ fragment.data # <<>>
      /\ Len(fragment.data) + writeLen <= 1 + Room
      /\ \A i \in DOMAIN fragment.data : fragment.data[i] = Reach(fragments) + i - 1
      /\ Reach(fragments) + Len(fragment.data) = Written + 1
  BY SMTT(30), <1>0, <1>1, <1>4 DEF Current, Locals
<1>6. Len(fragment.data) <= 1 + Room
  <2>1. Len(fragment.data) \in Nat
    BY <1>5 DEF Fragment
  <2> QED
    BY <2>1, <1>4, <1>5
<1>7. Written' + totalLength = Total(ends)
  BY SMTT(30), <1>2, <1>3, <1>4
<1>8. (IF srIdx <= Len(ends) THEN offset <= Length(srIdx) ELSE offset = 0)'
  BY <1>0, <1>1 DEF Counts, Length, Start
<1>9. offset' \in Nat
  BY Zenon, <1>0, <1>1 DEF Locals
<1> QED
  BY SMTT(30), <1>1, <1>2, <1>5, <1>6, <1>7, <1>8, <1>9, HandOver

\* Receiving, and what is no step, leaves what was cut alone.
LEMMA SameCut ==
    ASSUME Cutting,
           pc' = pc \/ (pc = "sent" /\ pc' = "received"),
           UNCHANGED <<ends, channel, relay, totalLength, offset, srIdx, writeLen, isFirst, quit, fragment, fragments>>
    PROVE  Cutting'
<1>0. Locals /\ Counts /\ Finished(fragments, Over) /\ Current
  BY DEF Cutting
<1>1. Written' = Written
  BY SameWritten
<1>2. Over' = Over
  BY DEF Over
<1>3. Locals'
  BY <1>0 DEF Locals
<1>4. Counts'
  <2>1. (IF srIdx <= Len(ends) THEN offset <= Length(srIdx) ELSE offset = 0)'
    BY SMTT(30), <1>0 DEF Counts, Length, Start
  <2> QED
    BY Zenon, <2>1, <1>0, <1>1 DEF Counts, Total
<1>5. Finished(fragments, Over)'
  BY <1>0, <1>2 DEF Finished
<1>6. Current'
  BY Zenon, <1>0, <1>1 DEF Current, Reach
<1> QED
  BY SMTT(30), <1>3, <1>4, <1>5, <1>6 DEF Cutting

\* Every step keeps the invariant.
LEMMA CuttingStep == Cutting /\ [Next]_vars => Cutting'
<1> SUFFICES ASSUME Cutting, [Next]_vars PROVE Cutting'
  OBVIOUS
<1>1. ASSUME NEW e \in Payloads, Create(e) PROVE Cutting'
  BY <1>1, CreateStep
<1>2. CASE BeginFragment
  BY Zenon, <1>2, BeginStep
<1>3. CASE CopyRest
  BY <1>3, RestStep
<1>4. CASE CopyPart
  BY SMTT(30), <1>4, PartStep
<1>5. CASE EndFragment
  BY <1>5, EndStep
<1>6. CASE Receive
  BY <1>6, SameCut DEF Receive
<1>7. CASE UNCHANGED vars
  BY <1>7, SameCut DEF vars
<1> QED
  BY SMTT(30), <1>1, <1>2, <1>3, <1>4, <1>5, <1>6, <1>7 DEF Next

\* What is cut is always right so far.
THEOREM CuttingInvariant == Spec => []Cutting
BY CuttingInit, CuttingStep, PTL DEF Spec
----------------------------------------------------------------------------
\* Whatever the serializers' number and lengths and whatever the fragment size, the fragments
\* hold the data id and every byte, in order and once.
THEOREM CutsEverything == Spec => []NothingLost
<1>1. Cutting => NothingLost
  <2> DEFINE Data(k) == fragments[k].data
  <2> SUFFICES ASSUME Cutting, pc \in {"sent", "received"}
               PROVE  /\ \A k \in DOMAIN fragments :
                            /\ Data(k) # <<>>
                            /\ \A i \in DOMAIN Data(k) : Data(k)[i] = i - 1 + IF k = 1 THEN 0 ELSE Last(Data(k - 1)) + 1
                      /\ fragments # <<>> /\ Last(Last(fragments).data) = Total(ends)
    BY DEF NothingLost
  <2>1. /\ fragments \in Seq(Fragment) /\ Finished(fragments, TRUE) /\ fragments # <<>>
        /\ Reach(fragments) = Total(ends) + 1 /\ Total(ends) \in Nat
    BY Zenon, Numbers DEF Cutting, Locals, Counts, Current, Over
  <2>2. ASSUME NEW k \in DOMAIN fragments
        PROVE  /\ Data(k) \in Seq(Nat) /\ Data(k) # <<>> /\ Len(Data(k)) \in Nat \ {0} /\ Data(k)[1] \in Nat
               /\ \A i \in DOMAIN Data(k) : Data(k)[i] = Data(k)[1] + i - 1
               /\ Data(k)[1] = IF k = 1 THEN 0 ELSE Data(k - 1)[1] + Len(Data(k - 1))
               /\ Last(Data(k)) = Data(k)[1] + Len(Data(k)) - 1
    <3>1. fragments[k] \in Fragment
      BY <2>1
    <3>2. Data(k) \in Seq(Nat)
      BY <3>1 DEF Fragment
    <3>3. /\ Data(k) # <<>>
          /\ \A i \in DOMAIN Data(k) : Data(k)[i] = Data(k)[1] + i - 1
          /\ Data(k)[1] = IF k = 1 THEN 0 ELSE Data(k - 1)[1] + Len(Data(k - 1))
      BY <2>1, Zenon DEF Finished
    <3>4. Len(Data(k)) \in Nat \ {0} /\ Len(Data(k)) \in DOMAIN Data(k) /\ Data(k)[1] \in Nat
      <4>1. ASSUME NEW d \in Seq(Nat), d # <<>>
            PROVE  Len(d) \in Nat \ {0} /\ Len(d) \in DOMAIN d /\ d[1] \in Nat
        BY <4>1
      <4> QED
        BY <3>2, <3>3, <4>1, Zenon
    <3> HIDE DEF Data
    <3> QED
      BY ZenonT(30), <3>2, <3>3, <3>4 DEF Last
  <2>3. ASSUME NEW k \in DOMAIN fragments, NEW i \in DOMAIN Data(k)
        PROVE  Data(k)[i] = i - 1 + IF k = 1 THEN 0 ELSE Last(Data(k - 1)) + 1
    <3>1. i \in Nat
      BY SMTT(30), <2>2
    <3>2. Data(k)[i] = Data(k)[1] + i - 1 /\ Data(k)[1] \in Nat
      BY <2>2
    <3>3. CASE k = 1
      <4>1. Data(k)[1] = 0
        BY <3>3, <2>2
      <4> HIDE DEF Data
      <4> QED
        BY SMTT(30), <4>1, <3>1, <3>2, <3>3
    <3>4. CASE k # 1
      <4>1. k - 1 \in DOMAIN fragments
        BY SMTT(30), <3>4, <2>1
      <4>2. Data(k)[1] = Data(k - 1)[1] + Len(Data(k - 1))
        BY <3>4, <2>2
      <4>3. /\ Last(Data(k - 1)) = Data(k - 1)[1] + Len(Data(k - 1)) - 1
            /\ Data(k - 1)[1] \in Nat /\ Len(Data(k - 1)) \in Nat
        BY Zenon, <4>1, <2>2
      <4>4. Data(k)[1] + i - 1 = i - 1 + (Last(Data(k - 1)) + 1)
        <5> HIDE DEF Data
        <5> QED
          BY SMTT(30), <4>2, <4>3, <3>1
      <4> QED
        BY <4>4, <3>2, <3>4, Zenon
    <3> QED
      BY SMTT(30), <3>3, <3>4
  <2>4. Last(Last(fragments).data) = Total(ends)
    <3> DEFINE n == Len(fragments)
    <3>1. n \in DOMAIN fragments
      BY <2>1
    <3>2. /\ Last(Data(n)) = Data(n)[1] + Len(Data(n)) - 1
          /\ Data(n)[1] \in Nat /\ Len(Data(n)) \in Nat
      BY SMTT(30), <3>1, <2>2
    <3>3. Data(n)[1] + Len(Data(n)) = Total(ends) + 1
      BY <2>1 DEF Reach
    <3>4. Last(fragments).data = Data(n)
      BY SMTT(30) DEF Last
    <3> HIDE DEF Data, n
    <3> QED
      BY SMTT(30), <3>2, <3>3, <3>4, <2>1
  <2>5. \A k \in DOMAIN fragments : Data(k) # <<>>
    BY Zenon, <2>2
  <2> HIDE DEF Data
  <2> QED
    BY Zenon, <2>1, <2>3, <2>4, <2>5
<1> QED
  BY <1>1, CuttingInvariant, PTL

\* No fragment is larger than MM_MAX_FRAGMENTSIZE, which ReliableSend::enqueue asserts.
THEOREM FragmentsAlwaysFit == Spec => []FragmentsFit
<1>1. Cutting => FragmentsFit
  <2> SUFFICES ASSUME Cutting, NEW k \in DOMAIN fragments
               PROVE  2 + Len(fragments[k].data) <= MaxFragmentSize
    BY Zenon DEF FragmentsFit
  <2>1. Len(fragments[k].data) <= 1 + Room
    BY Zenon DEF Cutting, Finished
  <2>2. fragments[k] \in Fragment
    BY DEF Cutting, Locals
  <2>3. Len(fragments[k].data) \in Nat
    BY SMTT(30), <2>2 DEF Fragment
  <2> QED
    BY <2>1, <2>3, HeaderSize DEF Room
<1> QED
  BY <1>1, CuttingInvariant, PTL

\* The first fragment and no other has the first bit, the last and no other the last bit.
THEOREM EndsAreMarked == Spec => []EndsMarked
<1>1. Cutting => EndsMarked
  <2> SUFFICES ASSUME Cutting, pc \in {"sent", "received"}, NEW k \in DOMAIN fragments
               PROVE  /\ fragments[k].first <=> k = 1
                      /\ fragments[k].last <=> k = Len(fragments)
    BY Zenon DEF EndsMarked
  <2>1. Finished(fragments, TRUE)
    BY Zenon DEF Cutting, Over
  <2> QED
    BY <2>1, Zenon DEF Finished
<1> QED
  BY <1>1, CuttingInvariant, PTL
=============================================================================
