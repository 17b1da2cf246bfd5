--------------------------- MODULE NetworkProofs ---------------------------
(***************************************************************************)
(* Proofs about the life of a Network, for any ports, peers, size of the   *)
(* sets and number of sockets.                                             *)
(***************************************************************************)
EXTENDS Network, FiniteSetTheorems, TLAPS

Running == phase \notin {"none", "gone"}
Users   == IF Running THEN 1 ELSE 0

\* Platform::m_NumInitialized counts the socket objects and the Network.
Counted ==
    /\ live \subseteq Sockets /\ count \in Nat /\ failed \in BOOLEAN /\ wsa \in BOOLEAN
    /\ os \in [Sockets -> [state : {"unused", "open", "closed"}, port : Ports \cup {AnyPort}]]
    /\ \A s \in live : os[s].state # "unused"
    /\ ~failed => count = Cardinality(live) + Users /\ (wsa <=> count > 0)
----------------------------------------------------------------------------
\* The socket objects are finitely many.
LEMMA LiveFinite == ASSUME NEW S \in SUBSET Sockets PROVE IsFiniteSet(S) /\ Cardinality(S) \in Nat
  <1>1. IsFiniteSet(Sockets)
    BY NetworkAssumption, FS_Interval DEF Sockets
  <1>2. IsFiniteSet(S)
    BY Zenon, <1>1, FS_Subset
  <1>. QED
    BY Zenon, <1>2, FS_CardinalityType

\* Platform::shutdown keeps the count, if the Network goes as often as it says.
LEMMA ShutdownCounts ==
    ASSUME Counted, NEW u \in 0 .. 1, Shutdown(u), failed' = failed, u = 1 => Running,
           Users' = Users - u,
           os' \in [Sockets -> [state : {"unused", "open", "closed"}, port : Ports \cup {AnyPort}]],
           \A s \in Sockets : os'[s].state = "unused" => os[s].state = "unused"
    PROVE  Counted'
  <1>. DEFINE H == Held'  gone == Cardinality(live \ H)  left == Cardinality(live \cap H)  all == Cardinality(live)
  <1>1. /\ live' = live \cap H
        /\ count' = (IF count >= gone + u THEN count - gone - u ELSE 0)
        /\ wsa' = (wsa /\ count' > 0)
    BY Zenon DEF Shutdown
  <1>2. gone \in Nat /\ left \in Nat /\ all \in Nat /\ gone = all - left
    <2>1. IsFiniteSet(live) /\ all \in Nat /\ gone \in Nat /\ left \in Nat
      BY Zenon, LiveFinite DEF Counted
    <2>. QED
      BY Zenon, <2>1, FS_Difference
  <1>3. /\ live' \subseteq Sockets /\ wsa' \in BOOLEAN
        /\ \A s \in live' : os'[s].state # "unused"
    BY Zenon, <1>1 DEF Counted
  <1>4. Cardinality(live') = left
    BY Zenon, <1>1
  <1>. HIDE DEF gone, left, all
  <1>5. count' \in Nat
    BY <1>1, <1>2 DEF Counted
  <1>6. ~failed => count' = left + Users' /\ (wsa' <=> count' > 0)
    <2>. SUFFICES ASSUME ~failed PROVE count' = left + Users' /\ (wsa' <=> count' > 0)
      OBVIOUS
    <2>1. count = all + Users /\ (wsa <=> count > 0) /\ Users \in 0 .. 1 /\ u <= Users
      BY DEF Counted, Users, all
    <2>2. count >= gone + u /\ count' = left + (Users - u)
      BY <1>1, <1>2, <2>1
    <2>3. count' > 0 => count > 0
      BY <1>1, <1>2, <2>1, <2>2
    <2>. QED
      BY Zenon, <1>1, <2>1, <2>2, <2>3
  <1>. QED
    BY Zenon, <1>3, <1>4, <1>5, <1>6 DEF Counted

\* A step that lets sockets go, or none.
LEMMA LetGoCounts ==
    ASSUME Counted, LetGo \/ UNCHANGED platform, os' = os \/ \E S : os' = [s \in Sockets |-> IF s \in S THEN [os[s] EXCEPT !.state = "closed"] ELSE os[s]],
           Users' = Users
    PROVE  Counted'
  <1>. DEFINE O == [state : {"unused", "open", "closed"}, port : Ports \cup {AnyPort}]
  <1>1. os' \in [Sockets -> O] /\ \A s \in Sockets : os'[s].state = "unused" => os[s].state = "unused"
    <2>1. CASE os' = os
      BY Zenon, <2>1 DEF Counted
    <2>2. ASSUME NEW S, os' = [s \in Sockets |-> IF s \in S THEN [os[s] EXCEPT !.state = "closed"] ELSE os[s]]
          PROVE  os' \in [Sockets -> O] /\ \A s \in Sockets : os'[s].state = "unused" => os[s].state = "unused"
      <3>1. ASSUME NEW o \in O PROVE [o EXCEPT !.state = "closed"] \in O /\ [o EXCEPT !.state = "closed"].state = "closed"
        OBVIOUS
      <3>2. \A s \in Sockets : os[s] \in O
        BY Zenon DEF Counted
      <3>3. \A s \in Sockets : os'[s] \in O /\ (os'[s].state = "unused" => os[s].state = "unused")
        BY Zenon, <2>2, <3>1, <3>2
      <3>. QED
        BY Zenon, <2>2, <3>3
    <2>. QED
      BY Zenon, <2>1, <2>2
  <1>2. CASE LetGo
    <2>1. Shutdown(0) /\ failed' = failed /\ 0 \in 0 .. 1 /\ Users' = Users - 0
      BY <1>2 DEF LetGo, Users
    <2>. QED
      BY <1>1, <2>1, ShutdownCounts
  <1>3. CASE UNCHANGED platform
    BY Zenon, <1>1, <1>3 DEF Counted, platform
  <1>. QED
    BY Zenon, <1>2, <1>3

\* A socket that is created and opened.
LEMMA CreatedCounts ==
    ASSUME Counted, Running, NEW s \in Sockets, NEW p \in Ports \cup {AnyPort}, Created(s), Open(s, p), Running'
    PROVE  Counted'
  <1>1. /\ live' = live \cup {s} /\ count' = count + 1
        /\ wsa' = (IF count = 0 THEN TRUE ELSE wsa) /\ failed' = failed
        /\ os' = [os EXCEPT ![s] = [state |-> "open", port |-> p]] /\ s \notin live
    BY Zenon DEF Created, Initialize, Open, Counted
  <1>2. Cardinality(live') = Cardinality(live) + 1 /\ Cardinality(live) \in Nat
    BY Zenon, <1>1, LiveFinite, FS_AddElement DEF Counted
  <1>3. /\ os' \in [Sockets -> [state : {"unused", "open", "closed"}, port : Ports \cup {AnyPort}]]
        /\ \A t \in live' : os'[t].state # "unused"
    BY Zenon, <1>1 DEF Counted
  <1>4. Users = 1 /\ Users' = 1
    BY Zenon DEF Users
  <1>5. ~failed => count' = Cardinality(live') + Users' /\ (wsa' <=> count' > 0)
    BY <1>1, <1>2, <1>4 DEF Counted
  <1>6. live' \subseteq Sockets /\ count' \in Nat
    BY <1>1 DEF Counted
  <1>7. wsa' \in BOOLEAN /\ failed' \in BOOLEAN
    BY Zenon, <1>1 DEF Counted
  <1>. QED
    BY Zenon, <1>1, <1>3, <1>5, <1>6, <1>7 DEF Counted

\* Every step keeps the count.
LEMMA CountStep == ASSUME Counted, [Next]_vars PROVE Counted'
  <1>1. CASE Create
    <2>1. /\ live' = live /\ os' = os /\ count' = count + 1 /\ Users = 0
          /\ \E ok \in BOOLEAN : /\ wsa' = (IF count = 0 THEN ok ELSE wsa)
                                 /\ failed' = (failed \/ (count = 0 /\ ~ok))
                                 /\ count # 0 \/ ok => phase' = "up"
      BY Zenon, <1>1 DEF Create, Initialize, Constructed, Users, Running
    <2>2. Cardinality(live) \in Nat
      BY Zenon, LiveFinite DEF Counted
    <2>3. phase' = "up" => Users' = 1
      BY Zenon DEF Users, Running
    <2>4. wsa' \in BOOLEAN /\ failed' \in BOOLEAN
      BY Zenon, <2>1 DEF Counted
    <2>5. count \in Nat /\ count' \in Nat
      BY <2>1 DEF Counted
    <2>6. ASSUME ~failed' PROVE count' = Cardinality(live') + Users' /\ (wsa' <=> count' > 0)
      <3>1. PICK ok \in BOOLEAN : /\ wsa' = (IF count = 0 THEN ok ELSE wsa)
                                  /\ failed' = (failed \/ (count = 0 /\ ~ok))
                                  /\ count # 0 \/ ok => phase' = "up"
        BY Zenon, <2>1
      <3>2. ~failed /\ (count # 0 \/ ok) /\ Users' = 1
        BY Zenon, <2>3, <2>6, <3>1
      <3>3. count = Cardinality(live) /\ (wsa <=> count > 0)
        BY <2>1, <2>2, <3>2 DEF Counted
      <3>4. wsa'
        BY <2>5, <3>1, <3>2, <3>3
      <3>5. count' > 0
        BY <2>1, <2>5
      <3>. QED
        BY Zenon, <2>1, <2>2, <3>2, <3>3, <3>4, <3>5
    <2>7. live' \subseteq Sockets /\ \A s \in live' : os'[s].state # "unused"
      BY Zenon, <2>1 DEF Counted
    <2>. QED
      BY Zenon, <2>1, <2>4, <2>5, <2>6, <2>7 DEF Counted
  <1>2. CASE Register
    <2>1. PICK s \in Sockets : Created(s) /\ Open(s, AnyPort)
      BY Zenon, <1>2 DEF Register
    <2>2. Running /\ Running'
      BY Zenon, <1>2 DEF Register, Up, Running
    <2>. QED
      BY Zenon, <2>1, <2>2, CreatedCounts
  <1>3. ASSUME NEW p \in Ports, StartListen(p) PROVE Counted'
    <2>1. PICK s \in Sockets : Created(s) /\ Open(s, p)
      BY Zenon, <1>3 DEF StartListen, StartListenIntern
    <2>2. Running /\ Running'
      BY Zenon, <1>3 DEF StartListen, Up, Running
    <2>. QED
      BY Zenon, <2>1, <2>2, CreatedCounts
  <1>4. ASSUME (LetGo \/ UNCHANGED platform) /\ os' = os /\ phase' = phase PROVE Counted'
    BY Zenon, <1>4, LetGoCounts DEF Users, Running
  <1>5. ASSUME NEW p \in Ports, StopListen(p) PROVE Counted'
    BY Zenon, <1>4, <1>5 DEF StopListen, StopSocket
  <1>6. ASSUME NEW q \in Peers, ConnectTo(q) PROVE Counted'
    BY Zenon, <1>4, <1>6 DEF ConnectTo
  <1>7. ASSUME NEW r \in DOMAIN sets, Reception(r) PROVE Counted'
    BY Zenon, <1>4, <1>7 DEF Reception, Rebuild, Select, Each, Recv, GetManager, MakeManager, Find, Insert, Receive, Check
  <1>8. CASE Wake \/ ForEachLink \/ SendLink
    BY Zenon, <1>4, <1>8 DEF Wake, ForEachLink, SendLink
  <1>9. CASE StopSend \/ JoinSend
    <2>1. UNCHANGED <<platform, os>> /\ Users' = Users
      BY Zenon, <1>9 DEF StopSend, JoinSend, Up, Users, Running
    <2>. QED
      BY Zenon, <2>1, LetGoCounts
  <1>10. ASSUME NEW r \in DOMAIN sets, StopSet(r) PROVE Counted'
    <2>1. /\ UNCHANGED platform /\ Users' = Users
          /\ os' = [s \in Sockets |-> IF s \in sets[r].low THEN [os[s] EXCEPT !.state = "closed"] ELSE os[s]]
      BY Zenon, <1>10 DEF StopSet, Users, Running
    <2>. QED
      BY Zenon, <2>1, LetGoCounts
  <1>11. CASE StopJobs
    <2>1. LetGo /\ os' = os /\ Users' = Users
      BY Zenon, <1>11 DEF StopJobs, Users, Running
    <2>. QED
      BY Zenon, <2>1, LetGoCounts
  <1>12. CASE Clear
    <2>. DEFINE O == [state : {"unused", "open", "closed"}, port : Ports \cup {AnyPort}]
    <2>1. /\ Shutdown(1) /\ failed' = failed /\ Running /\ Users' = Users - 1
          /\ os' = [s \in Sockets |-> IF os[s].state = "open" THEN [os[s] EXCEPT !.state = "closed"] ELSE os[s]]
      BY <1>12 DEF Clear, Users, Running
    <2>2. ASSUME NEW o \in O PROVE [o EXCEPT !.state = "closed"] \in O /\ [o EXCEPT !.state = "closed"].state = "closed"
      OBVIOUS
    <2>3. \A s \in Sockets : os[s] \in O
      BY Zenon DEF Counted
    <2>4. \A s \in Sockets : os'[s] \in O /\ (os'[s].state = "unused" => os[s].state = "unused")
      BY Zenon, <2>1, <2>2, <2>3
    <2>5. os' \in [Sockets -> O]
      BY Zenon, <2>1, <2>4
    <2>6. 1 \in 0 .. 1
      OBVIOUS
    <2>. QED
      BY Zenon, <2>1, <2>4, <2>5, <2>6, ShutdownCounts
  <1>13. CASE UNCHANGED vars
    BY Zenon, <1>4, <1>13 DEF vars
  <1>. QED
    BY Zenon, <1>1, <1>2, <1>3, <1>5, <1>6, <1>7, <1>8, <1>9, <1>10, <1>11, <1>12, <1>13 DEF Next, Destroy

\* It is right from the start.
LEMMA InitCounted == Init => Counted
  <1>. SUFFICES ASSUME Init PROVE Counted
    OBVIOUS
  <1>1. os \in [Sockets -> [state : {"unused", "open", "closed"}, port : Ports \cup {AnyPort}]]
    BY Zenon DEF Init
  <1>2. Users = 0 /\ Cardinality(live) = 0 /\ count = 0 /\ ~wsa /\ live = {}
    BY Zenon, FS_EmptySet DEF Init, Users, Running
  <1>3. wsa \in BOOLEAN /\ failed \in BOOLEAN
    BY Zenon DEF Init
  <1>. QED
    BY <1>1, <1>2, <1>3 DEF Counted

\* Winsock while it is used: it is started exactly as long as there is a Network or a socket
\* object, however often and on whatever thread sockets are made and let go.
THEOREM WinsockCounted == Spec => []WinsockWhileUsed
  <1>1. Counted => WinsockWhileUsed
    <2>. SUFFICES ASSUME Counted, ~failed PROVE wsa <=> (phase \notin {"none", "gone"} \/ live # {})
      BY Zenon DEF WinsockWhileUsed
    <2>1. IsFiniteSet(live) /\ Cardinality(live) \in Nat
      BY Zenon, LiveFinite DEF Counted
    <2>2. Cardinality(live) = 0 <=> live = {}
      BY Zenon, <2>1, FS_EmptySet
    <2>. QED
      BY <2>1, <2>2 DEF Counted, Users, Running
  <1>. QED
    BY <1>1, InitCounted, CountStep, PTL DEF Spec
----------------------------------------------------------------------------
PCs     == {"top", "select", "each", "recv", "get", "make", "find", "insert", "receive", "check", "ended"}
SetRecs == [high : SUBSET Sockets, low : SUBSET Sockets, pc : PCs, todo : SUBSET Sockets,
            sock : Sockets \cup {NoSocket}, peer : Peers \cup {None}, closing : BOOLEAN]
Pairs   == Sockets \X (Peers \cup {Master})

Owns(t, s) == s \in t.high \/ s = t.sock

\* What a reception thread knows of the links, A being those there are.
Local(t, A) ==
    /\ t.pc \in {"recv", "get", "make", "find", "insert", "receive"} => t.sock \in Sockets
    /\ t.pc \in {"get", "make", "find", "insert", "receive"} => t.peer \in Peers
    /\ t.pc = "insert" => <<t.sock, t.peer>> \notin A
    /\ t.pc = "receive" => <<t.sock, t.peer>> \in A

\* No socket is with two threads, and the sockets of links to the matchmaker are with none: the
\* pair that a thread is about to insert is inserted by nobody else.
Apart ==
    /\ sets \in Seq(SetRecs) /\ arr \in Seq(Pairs)
    /\ \A r \in DOMAIN sets : Local(sets[r], Range(arr))
    /\ \A r \in DOMAIN sets, s \in Sockets : Owns(sets[r], s) => os[s].state # "unused"
    /\ \A r, q \in DOMAIN sets, s \in Sockets : Owns(sets[r], s) /\ Owns(sets[q], s) => r = q
    /\ \A x \in Range(arr) : os[x[1]].state # "unused"
    /\ \A x \in Range(arr), r \in DOMAIN sets : x[2] = Master => ~Owns(sets[r], x[1])
    /\ IsInjective(arr)

\* A socket that was used stays so.
OsKeeps == \A s \in Sockets : os[s].state # "unused" => os'[s].state # "unused"
----------------------------------------------------------------------------
\* m_Links.find finds a pair exactly when it is there.
LEMMA HasIsMember == ASSUME NEW x \in Pairs, arr \in Seq(Pairs) PROVE Has(x) <=> x \in Range(arr)
  <1>1. \A y \in Pairs : (~PairLess(x, y) /\ ~PairLess(y, x)) <=> x = y
    <2>. SUFFICES ASSUME NEW y \in Pairs PROVE (~PairLess(x, y) /\ ~PairLess(y, x)) <=> x = y
      OBVIOUS
    <2>1. /\ x = <<x[1], x[2]>> /\ y = <<y[1], y[2]>>
          /\ x[1] \in Nat /\ x[2] \in Nat /\ y[1] \in Nat /\ y[2] \in Nat
      <3>1. /\ x = <<x[1], x[2]>> /\ y = <<y[1], y[2]>> /\ x[1] \in Sockets /\ y[1] \in Sockets
            /\ x[2] \in Peers \cup {Master} /\ y[2] \in Peers \cup {Master}
        BY DEF Pairs
      <3>2. Sockets \subseteq Nat /\ Peers \cup {Master} \subseteq Nat
        BY NetworkAssumption DEF Sockets
      <3>. QED
        BY Zenon, <3>1, <3>2
    <2>2. x = y <=> x[1] = y[1] /\ x[2] = y[2]
      BY Zenon, <2>1
    <2>. QED
      BY <2>1, <2>2 DEF PairLess, SockLess, AddrLess
  <1>2. \A i \in DOMAIN arr : arr[i] \in Pairs
    OBVIOUS
  <1>. QED
    BY Zenon, <1>1, <1>2 DEF Has, Range

\* The record of a reception thread.
LEMMA SetTyped == ASSUME Apart, NEW r \in DOMAIN sets PROVE sets[r] \in SetRecs /\ Local(sets[r], Range(arr))
  <1>1. sets \in Seq(SetRecs)
    BY Zenon DEF Apart
  <1>2. sets[r] \in SetRecs
    BY <1>1
  <1>. QED
    BY Zenon, <1>2 DEF Apart

\* The socket of a link is a socket.
LEMMA LinkSockets == ASSUME arr \in Seq(Pairs) PROVE \A x \in Range(arr) : x[1] \in Sockets
  <1>1. \A i \in DOMAIN arr : arr[i] \in Pairs
    OBVIOUS
  <1>2. \A x \in Pairs : x[1] \in Sockets
    BY Zenon DEF Pairs
  <1>. QED
    BY Zenon, <1>1, <1>2 DEF Range

\* A link more.
LEMMA ArrGrows ==
    ASSUME arr \in Seq(Pairs), IsInjective(arr), NEW x \in Pairs, x \notin Range(arr), arr' = Append(arr, x)
    PROVE  arr' \in Seq(Pairs) /\ Range(arr') = Range(arr) \cup {x} /\ IsInjective(arr')
  <1>. DEFINE n == Len(arr)
  <1>1. /\ n \in Nat /\ DOMAIN arr = 1 .. n /\ arr' \in Seq(Pairs) /\ DOMAIN arr' = 1 .. n + 1
        /\ arr'[n + 1] = x /\ \A i \in 1 .. n : arr'[i] = arr[i]
    OBVIOUS
  <1>. HIDE DEF n
  <1>2. \A i \in 1 .. n + 1 : i \in 1 .. n \/ i = n + 1
    BY <1>1
  <1>3. Range(arr') = Range(arr) \cup {x}
    <2>1. \A y \in Range(arr') : y \in Range(arr) \cup {x}
      BY Zenon, <1>1, <1>2 DEF Range
    <2>2. \A y \in Range(arr) : y \in Range(arr')
      BY <1>1 DEF Range
    <2>3. x \in Range(arr')
      BY <1>1 DEF Range
    <2>. QED
      BY Zenon, <2>1, <2>2, <2>3
  <1>4. ASSUME NEW i \in 1 .. n + 1, NEW j \in 1 .. n + 1, arr'[i] = arr'[j] PROVE i = j
    <2>1. \A k \in 1 .. n : arr[k] # x
      BY Zenon, <1>1 DEF Range
    <2>. QED
      BY Zenon, <1>1, <1>2, <1>4, <2>1 DEF IsInjective
  <1>. QED
    BY Zenon, <1>1, <1>3, <1>4 DEF IsInjective

\* What a thread may become without a link more: it gets no socket that it had not.
Follows(r, t) ==
    /\ t \in SetRecs /\ Local(t, Range(arr))
    /\ \A s \in Sockets : Owns(t, s) => Owns(sets[r], s)

\* A thread that keeps its set, and has no socket in hand but one of it or the one it had, follows.
LEMMA FollowsIf ==
    ASSUME NEW r, NEW t \in SetRecs, Local(t, Range(arr)), t.high = sets[r].high,
           t.sock = sets[r].sock \/ t.sock = NoSocket \/ t.sock \in sets[r].high
    PROVE  Follows(r, t)
  <1>1. NoSocket \notin Sockets
    BY DEF NoSocket, Sockets
  <1>. QED
    BY Zenon, <1>1 DEF Follows, Owns

\* Its record but for the place in the loop, for the packet, and when it is done with a packet.
LEMMA PlaceOnly ==
    ASSUME NEW o \in SetRecs, NEW pc \in PCs
    PROVE  LET t == [o EXCEPT !.pc = pc] IN
           t \in SetRecs /\ t.pc = pc /\ t.high = o.high /\ t.sock = o.sock /\ t.peer = o.peer
  BY Zenon DEF SetRecs

\* The same when a packet is in hand.
LEMMA PeerOnly ==
    ASSUME NEW o \in SetRecs, NEW q \in Peers
    PROVE  LET t == [o EXCEPT !.peer = q, !.pc = "get"] IN
           t \in SetRecs /\ t.pc = "get" /\ t.high = o.high /\ t.sock = o.sock /\ t.peer = q
  <1>1. "get" \in PCs
    BY Zenon DEF PCs
  <1>. HIDE DEF PCs
  <1>. QED
    BY Zenon, <1>1 DEF SetRecs

\* The same when the packet was handled.
LEMMA DoneRecord ==
    ASSUME NEW o \in SetRecs
    PROVE  LET t == [o EXCEPT !.sock = NoSocket, !.peer = None, !.pc = "each"] IN
           t \in SetRecs /\ t.pc = "each" /\ t.high = o.high /\ t.sock = NoSocket
  <1>1. "each" \in PCs
    BY Zenon DEF PCs
  <1>. QED
    BY Zenon, <1>1 DEF SetRecs

\* A thread that is done with a packet gets no socket.
LEMMA DoneFollows == ASSUME Apart, NEW r \in DOMAIN sets PROVE Follows(r, Done(r))
  <1>1. /\ Done(r) \in SetRecs /\ Done(r).pc = "each" /\ Done(r).high = sets[r].high /\ Done(r).sock = NoSocket
    BY Zenon, SetTyped, DoneRecord DEF Done
  <1>2. Local(Done(r), Range(arr))
    BY Zenon, <1>1 DEF Local
  <1>. QED
    BY Zenon, <1>1, <1>2, FollowsIf

\* A place in the loop at which a thread knows nothing of a packet, or which needs no more than
\* the place before it.
LEMMA PlaceFollows ==
    ASSUME Apart, NEW r \in DOMAIN sets, NEW pc \in PCs,
           \/ pc \in {"top", "check", "ended"}
           \/ sets[r].pc \in {"get", "make"} /\ pc \in {"make", "find"}
           \/ sets[r].pc = "find" /\ pc = "receive" /\ <<sets[r].sock, sets[r].peer>> \in Range(arr)
           \/ sets[r].pc = "find" /\ pc = "insert" /\ <<sets[r].sock, sets[r].peer>> \notin Range(arr)
    PROVE  Follows(r, [sets[r] EXCEPT !.pc = pc])
  <1>. DEFINE o == sets[r]  t == [o EXCEPT !.pc = pc]
  <1>1. o \in SetRecs /\ Local(o, Range(arr))
    BY SetTyped
  <1>2. t \in SetRecs /\ t.pc = pc /\ t.high = o.high /\ t.sock = o.sock /\ t.peer = o.peer
    BY Zenon, <1>1, PlaceOnly
  <1>. HIDE DEF t
  <1>3. Local(t, Range(arr))
    BY Zenon, <1>1, <1>2 DEF Local
  <1>4. Follows(r, t)
    BY <1>2, <1>3, FollowsIf
  <1>. QED
    BY Zenon, <1>4 DEF t

\* What a reception thread does but for the insertion.
LEMMA ReceptionEffect ==
    ASSUME Apart, NEW r \in DOMAIN sets, Reception(r), ~Insert(r)
    PROVE  UNCHANGED <<phase, os, arr, sender, jobs>> /\ \E t : Follows(r, t) /\ Becomes(r, t)
  <1>. DEFINE o == sets[r]
              U == UNCHANGED <<phase, os, arr, sender, jobs>>
              E == \E t : Follows(r, t) /\ Becomes(r, t)
  <1>0. o \in SetRecs /\ Local(o, Range(arr))
    BY Zenon, SetTyped
  <1>1. "check" \in PCs /\ "top" \in PCs /\ "ended" \in PCs /\ "select" \in PCs /\ "each" \in PCs /\ "recv" \in PCs
        /\ "make" \in PCs /\ "find" \in PCs /\ "insert" \in PCs /\ "receive" \in PCs
    BY DEF PCs
  <1>c. ASSUME Becomes(r, [sets[r] EXCEPT !.pc = "check"]) PROVE E
    <2>1. Follows(r, [sets[r] EXCEPT !.pc = "check"])
      BY Zenon, <1>1, PlaceFollows
    <2>. QED
      BY Zenon, <1>c, <2>1
  <1>d. ASSUME Becomes(r, Done(r)) PROVE E
    BY Zenon, <1>d, DoneFollows
  <1>2. CASE Rebuild(r)
    <2>. DEFINE pc == IF o.high = {} THEN "check" ELSE "select"
                t == [o EXCEPT !.low = o.high, !.pc = pc]
    <2>1. U
      BY Zenon, <1>2 DEF Rebuild
    <2>2. Becomes(r, t)
      BY Zenon, <1>2 DEF Rebuild
    <2>3. pc \in PCs /\ pc \in {"check", "select"}
      BY Zenon, <1>1
    <2>. HIDE DEF pc, o
    <2>4. t \in SetRecs /\ t.pc = pc /\ t.high = o.high /\ t.sock = o.sock
      BY Zenon, <1>0, <2>3 DEF SetRecs
    <2>. HIDE DEF t
    <2>5. Local(t, Range(arr))
      BY <2>3, <2>4 DEF Local
    <2>6. Follows(r, t)
      BY <2>4, <2>5, FollowsIf DEF o
    <2>. QED
      BY Zenon, <2>1, <2>2, <2>6
  <1>3. CASE Select(r)
    <2>1. U
      BY Zenon, <1>3 DEF Select
    <2>2. CASE \E s \in sets[r].low : os[s].state = "closed"
      BY Zenon, <1>3, <1>c, <2>1, <2>2 DEF Select
    <2>3. CASE ~\E s \in sets[r].low : os[s].state = "closed"
      <3>1. PICK S \in SUBSET o.low : Becomes(r, [o EXCEPT !.low = S, !.todo = S, !.pc = IF S = {} THEN "check" ELSE "each"])
        BY Zenon, <1>3, <2>3 DEF Select
      <3>. DEFINE pc == IF S = {} THEN "check" ELSE "each"
                  t == [o EXCEPT !.low = S, !.todo = S, !.pc = pc]
      <3>2. pc \in PCs /\ pc \in {"check", "each"}
        BY Zenon, <1>1
      <3>3. Becomes(r, t)
        BY Zenon, <3>1
      <3>. HIDE DEF pc, o
      <3>4. t \in SetRecs /\ t.pc = pc /\ t.high = o.high /\ t.sock = o.sock
        BY Zenon, <1>0, <3>2 DEF SetRecs
      <3>. HIDE DEF t
      <3>5. Local(t, Range(arr))
        BY Zenon, <3>2, <3>4 DEF Local
      <3>6. Follows(r, t)
        BY Zenon, <3>4, <3>5, FollowsIf DEF o
      <3>. QED
        BY Zenon, <2>1, <3>3, <3>6
    <2>. QED
      BY Zenon, <2>2, <2>3
  <1>4. CASE Each(r)
    <2>1. U
      BY Zenon, <1>4 DEF Each
    <2>2. CASE sets[r].todo = {}
      BY Zenon, <1>4, <1>c, <2>1, <2>2 DEF Each
    <2>3. CASE sets[r].todo # {}
      <3>1. PICK s \in o.todo : Becomes(r, [o EXCEPT !.todo = @ \ {s}, !.sock = IF s \in o.high THEN s ELSE NoSocket,
                                                     !.pc = IF s \in o.high THEN "recv" ELSE "each"])
        BY Zenon, <1>4, <2>3 DEF Each
      <3>. DEFINE pc == IF s \in o.high THEN "recv" ELSE "each"
                  k  == IF s \in o.high THEN s ELSE NoSocket
                  t  == [o EXCEPT !.todo = @ \ {s}, !.sock = k, !.pc = pc]
      <3>2. Becomes(r, t)
        BY Zenon, <3>1
      <3>3. pc \in PCs /\ k \in Sockets \cup {NoSocket} /\ (k = NoSocket \/ k \in o.high)
            /\ (pc = "each" \/ (pc = "recv" /\ k \in Sockets))
        <4>1. o.high \subseteq Sockets
          BY Zenon, <1>0 DEF SetRecs
        <4>. HIDE DEF o
        <4>2. CASE s \in o.high
          BY Zenon, <1>1, <4>1, <4>2
        <4>3. CASE s \notin o.high
          <5>1. pc = "each" /\ k = NoSocket
            BY Zenon, <4>3
          <5>. HIDE DEF pc, k
          <5>. QED
            BY <1>1, <5>1
        <4>. QED
          BY <4>2, <4>3
      <3>. HIDE DEF pc, k, o
      <3>4. t \in SetRecs /\ t.pc = pc /\ t.high = o.high /\ t.sock = k
        BY Zenon, <1>0, <3>3 DEF SetRecs
      <3>. HIDE DEF t
      <3>5. Local(t, Range(arr))
        BY <3>3, <3>4 DEF Local
      <3>6. Follows(r, t)
        BY <3>3, <3>4, <3>5, FollowsIf DEF o
      <3>. QED
        BY Zenon, <2>1, <3>2, <3>6
    <2>. QED
      BY <2>2, <2>3
  <1>6. CASE Recv(r)
    <2>1. U /\ o.pc = "recv"
      BY Zenon, <1>6 DEF Recv, At
    <2>2. ASSUME NEW q \in Peers, Becomes(r, [o EXCEPT !.peer = q, !.pc = "get"]) PROVE E
      <3>. DEFINE t == [o EXCEPT !.peer = q, !.pc = "get"]
      <3>1. t \in SetRecs /\ t.pc = "get" /\ t.high = o.high /\ t.sock = o.sock /\ t.peer = q
        BY Zenon, <1>0, PeerOnly
      <3>2. o.sock \in Sockets
        BY <1>0, <2>1 DEF Local
      <3>3. Becomes(r, t)
        BY Zenon, <2>2
      <3>. HIDE DEF t
      <3>4. Local(t, Range(arr))
        BY Zenon, <3>1, <3>2 DEF Local
      <3>5. Follows(r, t)
        BY <3>1, <3>4, FollowsIf
      <3>. QED
        BY Zenon, <3>3, <3>5
    <2>3. Becomes(r, Done(r)) \/ \E q \in Peers : Becomes(r, [o EXCEPT !.peer = q, !.pc = "get"])
      BY Zenon, <1>6 DEF Recv
    <2>. QED
      BY Zenon, <1>d, <2>1, <2>2, <2>3
  <1>7. CASE GetManager(r) \/ MakeManager(r)
    <2>1. U /\ o.pc \in {"get", "make"}
      BY <1>7 DEF GetManager, MakeManager, At
    <2>2. PICK pc \in {"find", "make"} : Becomes(r, [sets[r] EXCEPT !.pc = pc])
      BY Zenon, <1>7 DEF GetManager, MakeManager
    <2>3. Follows(r, [sets[r] EXCEPT !.pc = pc])
      BY Zenon, <1>1, <2>1, PlaceFollows
    <2>. QED
      BY Zenon, <2>1, <2>2, <2>3
  <1>8. CASE Find(r)
    <2>. DEFINE x == <<sets[r].sock, sets[r].peer>>
    <2>1. U /\ sets[r].pc = "find"
      BY Zenon, <1>8 DEF Find, At
    <2>2. Becomes(r, [sets[r] EXCEPT !.pc = IF Has(x) THEN "receive" ELSE "insert"])
      BY Zenon, <1>8 DEF Find
    <2>3. x \in Pairs
      BY <1>0, <2>1 DEF Local, Pairs
    <2>4. Has(x) <=> x \in Range(arr)
      BY Zenon, <2>3, HasIsMember DEF Apart
    <2>5. CASE Has(x)
      <3>1. Follows(r, [sets[r] EXCEPT !.pc = "receive"])
        BY <1>1, <2>1, <2>4, <2>5, PlaceFollows
      <3>2. Becomes(r, [sets[r] EXCEPT !.pc = "receive"])
        BY Zenon, <2>2, <2>5
      <3>. QED
        BY Zenon, <2>1, <3>1, <3>2
    <2>6. CASE ~Has(x)
      <3>1. Follows(r, [sets[r] EXCEPT !.pc = "insert"])
        BY <1>1, <2>1, <2>4, <2>6, PlaceFollows
      <3>2. Becomes(r, [sets[r] EXCEPT !.pc = "insert"])
        BY Zenon, <2>2, <2>6
      <3>. QED
        BY Zenon, <2>1, <3>1, <3>2
    <2>. QED
      BY <2>5, <2>6
  <1>9. CASE Receive(r)
    BY Zenon, <1>d, <1>9 DEF Receive
  <1>10. CASE Check(r)
    <2>1. U
      BY Zenon, <1>10 DEF Check
    <2>2. PICK pc \in {"ended", "top"} : Becomes(r, [sets[r] EXCEPT !.pc = pc])
      BY Zenon, <1>10 DEF Check
    <2>3. Follows(r, [sets[r] EXCEPT !.pc = pc])
      BY Zenon, <1>1, PlaceFollows
    <2>. QED
      BY Zenon, <2>1, <2>2, <2>3
  <1>. QED
    BY Zenon, <1>2, <1>3, <1>4, <1>6, <1>7, <1>8, <1>9, <1>10 DEF Reception

\* A step that leaves the sockets of the system alone keeps them used.
LEMMA SameOs == ASSUME os' = os PROVE OsKeeps
  BY Zenon DEF OsKeeps

\* A step of one thread that keeps the links.
LEMMA ThreadKeeps ==
    ASSUME Apart, OsKeeps, arr' = arr, NEW r \in DOMAIN sets, NEW t \in SetRecs, sets' = [sets EXCEPT ![r] = t],
           Follows(r, t)
    PROVE  Apart'
  <1>1. /\ sets' \in Seq(SetRecs) /\ DOMAIN sets' = DOMAIN sets /\ sets'[r] = t
        /\ \A q \in DOMAIN sets : q # r => sets'[q] = sets[q]
    BY DEF Apart
  <1>2. \A q \in DOMAIN sets, s \in Sockets : Owns(sets'[q], s) => Owns(sets[q], s)
    BY Zenon, <1>1 DEF Follows
  <1>3. \A q \in DOMAIN sets : Local(sets'[q], Range(arr))
    BY Zenon, <1>1 DEF Apart, Follows
  <1>4. \A x \in Range(arr), q \in DOMAIN sets : x[2] = Master => ~Owns(sets'[q], x[1])
    <2>1. \A x \in Range(arr) : x[1] \in Sockets
      BY Zenon, LinkSockets DEF Apart
    <2>. QED
      BY Zenon, <1>2, <2>1 DEF Apart
  <1>5. \A x \in Range(arr) : os'[x[1]].state # "unused"
    BY Zenon, LinkSockets DEF Apart, OsKeeps
  <1>6. /\ \A q \in DOMAIN sets, u \in Sockets : Owns(sets'[q], u) => os'[u].state # "unused"
        /\ \A p, q \in DOMAIN sets, u \in Sockets : Owns(sets'[p], u) /\ Owns(sets'[q], u) => p = q
    BY Zenon, <1>2 DEF Apart, OsKeeps
  <1>. QED
    BY Zenon, <1>1, <1>3, <1>4, <1>5, <1>6 DEF Apart

\* The insertion: the pair is new, though the thread looked for it a step before.
LEMMA InsertKeeps == ASSUME Apart, NEW r \in DOMAIN sets, Insert(r) PROVE Apart'
  <1>. DEFINE o == sets[r]  x == <<o.sock, o.peer>>  t == [o EXCEPT !.pc = "receive"]
  <1>0. o \in SetRecs /\ Local(o, Range(arr)) /\ o.pc = "insert"
    BY SetTyped DEF Insert, At
  <1>1. x \in Pairs /\ x \notin Range(arr) /\ o.sock \in Sockets /\ o.peer \in Peers /\ x[1] = o.sock /\ x[2] = o.peer
    BY Zenon, <1>0 DEF Local, Pairs
  <1>2. CASE ~CreateSource(o.sock)
    <2>1. UNCHANGED <<os, arr, sets>>
      BY Zenon, <1>2 DEF Insert
    <2>. QED
      BY <2>1 DEF Apart
  <1>3. CASE CreateSource(o.sock)
    <2>1. os' = os /\ arr' = Append(arr, x) /\ sets' = [sets EXCEPT ![r] = t]
      BY Zenon, <1>3 DEF Insert, Grow, Becomes
    <2>2. t \in SetRecs /\ t.high = o.high /\ t.sock = o.sock /\ t.peer = o.peer /\ t.pc = "receive"
      BY Zenon, <1>0 DEF SetRecs, PCs
    <2>. HIDE DEF t
    <2>3. arr' \in Seq(Pairs) /\ Range(arr') = Range(arr) \cup {x} /\ IsInjective(arr')
      BY Zenon, <1>1, <2>1, ArrGrows DEF Apart
    <2>4. /\ sets' \in Seq(SetRecs) /\ DOMAIN sets' = DOMAIN sets /\ sets'[r] = t
          /\ \A q \in DOMAIN sets : q # r => sets'[q] = sets[q]
      BY <2>1, <2>2 DEF Apart
    <2>5. \A q \in DOMAIN sets, s \in Sockets : Owns(sets'[q], s) <=> Owns(sets[q], s)
      BY Zenon, <2>2, <2>4 DEF Owns
    <2>6. ASSUME NEW q \in DOMAIN sets PROVE Local(sets'[q], Range(arr'))
      <3>1. CASE q = r
        BY Zenon, <1>1, <2>2, <2>3, <2>4, <3>1 DEF Local
      <3>2. CASE q # r
        <4>. DEFINE u == sets[q]
        <4>1. Local(u, Range(arr)) /\ sets'[q] = u
          BY Zenon, <2>4, <3>2 DEF Apart
        <4>2. ASSUME u.pc = "insert" PROVE <<u.sock, u.peer>> # x
          <5>1. u.sock \in Sockets /\ Owns(u, u.sock)
            BY <4>1, <4>2 DEF Local, Owns
          <5>2. u.sock # o.sock
            BY Zenon, <3>2, <5>1 DEF Apart, Owns
          <5>. QED
            BY Zenon, <5>2
        <4>. QED
          BY <2>3, <4>1, <4>2 DEF Local
      <3>. QED
        BY <3>1, <3>2
    <2>7. os[o.sock].state # "unused" /\ o.peer # Master
      BY Zenon, <1>1, NetworkAssumption DEF Apart, Owns
    <2>8. \A y \in Range(arr') : os'[y[1]].state # "unused"
      BY Zenon, <1>1, <2>1, <2>3, <2>7 DEF Apart
    <2>9. \A y \in Range(arr'), q \in DOMAIN sets : y[2] = Master => ~Owns(sets'[q], y[1])
      <3>1. \A y \in Range(arr) : y[1] \in Sockets
        BY Zenon, LinkSockets DEF Apart
      <3>. QED
        BY Zenon, <1>1, <2>3, <2>5, <2>7, <3>1 DEF Apart
    <2>10. /\ \A q \in DOMAIN sets, s \in Sockets : Owns(sets'[q], s) => os'[s].state # "unused"
           /\ \A p, q \in DOMAIN sets, s \in Sockets : Owns(sets'[p], s) /\ Owns(sets'[q], s) => p = q
      BY <2>1, <2>5 DEF Apart
    <2>. QED
      BY Zenon, <2>3, <2>4, <2>6, <2>8, <2>9, <2>10 DEF Apart
  <1>. QED
    BY Zenon, <1>2, <1>3

\* A link that the user's thread adds, on a socket that no reception thread has.
LEMMA UserGrows ==
    ASSUME Apart, sets' = sets, NEW x \in Pairs, x \notin Range(arr), arr' = Append(arr, x),
           \A r \in DOMAIN sets : ~Owns(sets[r], x[1]),
           OsKeeps, os'[x[1]].state # "unused"
    PROVE  Apart'
  <1>1. arr' \in Seq(Pairs) /\ Range(arr') = Range(arr) \cup {x} /\ IsInjective(arr')
    BY Zenon, ArrGrows DEF Apart
  <1>2. \A y \in Range(arr) : y[1] \in Sockets
    BY Zenon, LinkSockets DEF Apart
  <1>3. ASSUME NEW q \in DOMAIN sets PROVE Local(sets[q], Range(arr'))
    <2>. DEFINE u == sets[q]
    <2>1. Local(u, Range(arr))
      BY Zenon DEF Apart
    <2>2. <<u.sock, u.peer>> # x
      <3>1. x[1] # u.sock
        BY Zenon DEF Owns
      <3>. QED
        BY <3>1
    <2>. QED
      BY Zenon, <1>1, <2>1, <2>2 DEF Local
  <1>4. \A y \in Range(arr') : os'[y[1]].state # "unused"
    BY Zenon, <1>1, <1>2 DEF Apart, OsKeeps
  <1>5. \A y \in Range(arr'), q \in DOMAIN sets : y[2] = Master => ~Owns(sets[q], y[1])
    BY Zenon, <1>1 DEF Apart
  <1>. QED
    BY Zenon, <1>1, <1>3, <1>4, <1>5 DEF Apart, OsKeeps

\* Opening a socket that is new.
LEMMA OpenKeeps ==
    ASSUME Counted, NEW s \in Sockets, NEW p, Created(s), Open(s, p)
    PROVE  OsKeeps /\ os'[s].state = "open" /\ os[s].state = "unused"
  BY Zenon DEF Counted, Created, Open, OsKeeps

\* registerServer and joinServer.
LEMMA RegisterKeeps == ASSUME Apart, Counted, Register PROVE Apart'
  <1>1. PICK s \in Sockets : Created(s) /\ Open(s, AnyPort) /\ AddLink(s, Master)
    BY Zenon DEF Register
  <1>2. OsKeeps /\ os'[s].state = "open" /\ os[s].state = "unused"
    BY Zenon, <1>1, OpenKeeps
  <1>. DEFINE x == <<s, Master>>
  <1>3. x \in Pairs /\ x[1] = s /\ arr' = Append(arr, x) /\ sets' = sets
    BY <1>1 DEF Pairs, Register, AddLink, Grow
  <1>4. x \notin Range(arr) /\ \A r \in DOMAIN sets : ~Owns(sets[r], s)
    BY Zenon, <1>2, <1>3 DEF Apart
  <1>. QED
    BY Zenon, <1>2, <1>3, <1>4, UserGrows

\* masterSessionConnectTo, on the socket of the link to the matchmaker.
LEMMA ConnectKeeps == ASSUME Apart, NEW q \in Peers, ConnectTo(q) PROVE Apart'
  <1>1. PICK i \in DOMAIN arr : /\ arr[i][2] = Master /\ ~Has(<<arr[i][1], q>>)
                                /\ arr' = Append(arr, <<arr[i][1], q>>)
    BY Zenon DEF ConnectTo, Grow
  <1>. DEFINE c == arr[i][1]  x == <<c, q>>
  <1>2. arr[i] \in Range(arr) /\ c \in Sockets
    BY DEF Apart, Range, Pairs
  <1>3. x \in Pairs /\ x[1] = c /\ sets' = sets /\ os' = os
    BY Zenon, <1>2 DEF Pairs, ConnectTo
  <1>4. x \notin Range(arr)
    BY Zenon, <1>1, <1>3, HasIsMember DEF Apart
  <1>5. os[c].state # "unused" /\ \A r \in DOMAIN sets : ~Owns(sets[r], c)
    BY Zenon, <1>1, <1>2 DEF Apart
  <1>. QED
    BY Zenon, <1>1, <1>3, <1>4, <1>5, UserGrows DEF OsKeeps

\* startListen: the socket is new, and one set has it.
LEMMA ListenKeeps == ASSUME Apart, Counted, NEW p \in Ports, StartListen(p) PROVE Apart'
  <1>1. PICK s \in Sockets : Created(s) /\ Open(s, p) /\ AddSocket(s)
    BY Zenon DEF StartListen, StartListenIntern
  <1>2. OsKeeps /\ os'[s].state = "open" /\ os[s].state = "unused" /\ arr' = arr
    BY Zenon, <1>1, OpenKeeps DEF StartListen
  <1>3. /\ \A r \in DOMAIN sets : ~Owns(sets[r], s)
        /\ \A x \in Range(arr) : x[1] # s /\ x[1] \in Sockets
    <2>1. \A x \in Range(arr) : x[1] \in Sockets
      BY LinkSockets DEF Apart
    <2>. QED
      BY <1>2, <2>1 DEF Apart
  <1>4. ASSUME NEW k \in DOMAIN sets', sets' \in Seq(SetRecs), sets'[k] \in SetRecs,
               \A q \in DOMAIN sets' : q # k => q \in DOMAIN sets /\ sets'[q] = sets[q],
               Local(sets'[k], Range(arr)),
               \A u \in Sockets : Owns(sets'[k], u) => u = s \/ (k \in DOMAIN sets /\ Owns(sets[k], u))
        PROVE  Apart'
    <2>1. \A q \in DOMAIN sets' : Local(sets'[q], Range(arr))
      BY <1>4 DEF Apart
    <2>2. \A q \in DOMAIN sets', u \in Sockets :
            Owns(sets'[q], u) => (q = k /\ u = s) \/ (u # s /\ q \in DOMAIN sets /\ Owns(sets[q], u))
      BY Zenon, <1>3, <1>4
    <2>3. \A q \in DOMAIN sets', u \in Sockets : Owns(sets'[q], u) => os'[u].state # "unused"
      BY Zenon, <1>2, <2>2 DEF Apart, OsKeeps
    <2>4. \A q, r \in DOMAIN sets', u \in Sockets : Owns(sets'[q], u) /\ Owns(sets'[r], u) => q = r
      BY Zenon, <2>2 DEF Apart
    <2>5. \A x \in Range(arr) : os'[x[1]].state # "unused"
      BY Zenon, <1>2, <1>3 DEF Apart, OsKeeps
    <2>6. \A x \in Range(arr), q \in DOMAIN sets' : x[2] = Master => ~Owns(sets'[q], x[1])
      BY Zenon, <1>3, <2>2 DEF Apart
    <2>. QED
      BY Zenon, <1>2, <1>4, <2>1, <2>3, <2>4, <2>5, <2>6 DEF Apart
  <1>5. CASE sets' = Append(sets, NewSet(s))
    <2>. DEFINE n == Len(sets) + 1  z == NewSet(s)
    <2>1. z \in SetRecs /\ z.pc = "top" /\ z.high = {s} /\ z.sock = NoSocket
      BY Zenon DEF NewSet, SetRecs, PCs
    <2>. HIDE DEF z
    <2>2. /\ sets' \in Seq(SetRecs) /\ n \in DOMAIN sets' /\ sets'[n] = z
          /\ \A q \in DOMAIN sets' : q # n => q \in DOMAIN sets /\ sets'[q] = sets[q]
      BY <1>5, <2>1 DEF Apart, z
    <2>3. NoSocket \notin Sockets
      BY DEF NoSocket, Sockets
    <2>. HIDE DEF n
    <2>4. Local(z, Range(arr)) /\ \A u \in Sockets : Owns(z, u) => u = s
      BY Zenon, <2>1, <2>3 DEF Local, Owns
    <2>. QED
      BY Zenon, <1>4, <2>1, <2>2, <2>4
  <1>6. ASSUME NEW k \in DOMAIN sets, sets' = [sets EXCEPT ![k].high = @ \cup {s}] PROVE Apart'
    <2>. DEFINE o == sets[k]  z == [o EXCEPT !.high = @ \cup {s}]
    <2>1. o \in SetRecs /\ Local(o, Range(arr))
      BY Zenon, SetTyped
    <2>2. z \in SetRecs /\ z.pc = o.pc /\ z.high = o.high \cup {s} /\ z.sock = o.sock /\ z.peer = o.peer
      BY Zenon, <2>1 DEF SetRecs
    <2>3. sets' = [sets EXCEPT ![k] = z]
      BY Zenon, <1>6
    <2>. HIDE DEF z
    <2>4. /\ sets' \in Seq(SetRecs) /\ DOMAIN sets' = DOMAIN sets /\ sets'[k] = z
          /\ \A q \in DOMAIN sets : q # k => sets'[q] = sets[q]
      BY <2>2, <2>3 DEF Apart
    <2>5. Local(z, Range(arr)) /\ \A u \in Sockets : Owns(z, u) => u = s \/ Owns(o, u)
      BY Zenon, <2>1, <2>2 DEF Local, Owns
    <2>. QED
      BY Zenon, <1>4, <2>2, <2>4, <2>5
  <1>. QED
    BY Zenon, <1>1, <1>5, <1>6 DEF AddSocket

\* stopListen: a socket leaves its set.
LEMMA StopKeeps == ASSUME Apart, NEW p \in Ports, StopListen(p) PROVE Apart'
  <1>. DEFINE s == listeners[p]  z(q) == [sets[q] EXCEPT !.high = @ \ {s}]
  <1>1. sets' = [q \in DOMAIN sets |-> z(q)] /\ UNCHANGED <<os, arr>>
    BY Zenon DEF StopListen, StopSocket, RemoveSocket, Erased
  <1>2. ASSUME NEW q \in DOMAIN sets
        PROVE  /\ z(q) \in SetRecs /\ z(q).pc = sets[q].pc /\ z(q).high = sets[q].high \ {s}
               /\ z(q).sock = sets[q].sock /\ z(q).peer = sets[q].peer
    <2>1. sets[q] \in SetRecs
      BY Zenon, SetTyped
    <2>. HIDE DEF s
    <2>. QED
      BY Zenon, <2>1 DEF SetRecs
  <1>. HIDE DEF z
  <1>3. DOMAIN sets = 1 .. Len(sets) /\ Len(sets) \in Nat
    BY DEF Apart
  <1>4. sets' \in Seq(SetRecs) /\ DOMAIN sets' = DOMAIN sets /\ \A q \in DOMAIN sets : sets'[q] = z(q)
    BY <1>1, <1>2, <1>3
  <1>5. \A q \in DOMAIN sets, u \in Sockets : Owns(sets'[q], u) => Owns(sets[q], u)
    BY Zenon, <1>2, <1>4 DEF Owns
  <1>6. \A q \in DOMAIN sets : Local(sets'[q], Range(arr))
    BY <1>2, <1>4 DEF Apart, Local
  <1>7. \A x \in Range(arr), q \in DOMAIN sets : x[2] = Master => ~Owns(sets'[q], x[1])
    <2>1. \A x \in Range(arr) : x[1] \in Sockets
      BY Zenon, LinkSockets DEF Apart
    <2>. QED
      BY Zenon, <1>5, <2>1 DEF Apart
  <1>8. /\ \A q \in DOMAIN sets, u \in Sockets : Owns(sets'[q], u) => os'[u].state # "unused"
        /\ \A r, q \in DOMAIN sets, u \in Sockets : Owns(sets'[r], u) /\ Owns(sets'[q], u) => r = q
    BY Zenon, <1>1, <1>5 DEF Apart
  <1>. QED
    BY Zenon, <1>1, <1>4, <1>6, <1>7, <1>8 DEF Apart
----------------------------------------------------------------------------
\* The order of the destructor: sets there are only until their threads were joined, jobs are
\* taken as long, and the SendThread ends before a socket is closed.
Ordered ==
    /\ sets # <<>> => phase \in {"up", "send", "recv"}
    /\ phase \in {"up", "send", "recv"} => jobs
    /\ sender \in [pc : {"sleep", "size", "copy", "send", "ended"}, i : Nat, closing : BOOLEAN]
    /\ sender.pc # "ended" => phase \in {"up", "send"}
    /\ sender.pc \in {"copy", "send"} => sender.i \in 1 .. Len(arr)
    /\ sender.pc = "size" => sender.i > 0
    /\ phase \in {"up", "send"} => \A x \in Range(arr) : os[x[1]].state = "open"
    /\ phase \in {"none", "gone"} => arr = <<>>

Sound == Counted /\ Apart /\ Ordered

\* Nothing that Ordered looks at, or a thread of a set that is there already.
LEMMA OrderedSame ==
    ASSUME Ordered, UNCHANGED <<phase, os, arr, jobs, sender>>, sets' # <<>> => sets # <<>> \/ phase = "up"
    PROVE  Ordered'
  BY Zenon DEF Ordered

\* A link that is added on a socket that is open.
LEMMA OrderedGrows ==
    ASSUME Ordered, Apart, Apart', UNCHANGED <<phase, jobs, sender>>, NEW x \in Pairs, arr' = Append(arr, x),
           sets' # <<>> => sets # <<>>, phase \in {"up", "send", "recv"},
           \A s \in Sockets : os[s].state = "open" => os'[s].state = "open", os'[x[1]].state = "open"
    PROVE  Ordered'
  <1>1. Len(arr) \in Nat /\ Len(arr') = Len(arr) + 1
    BY DEF Apart
  <1>2. \A y \in Range(arr') : y \in Range(arr) \/ y = x
    <2>. SUFFICES ASSUME NEW i \in DOMAIN arr' PROVE arr'[i] \in Range(arr) \/ arr'[i] = x
      BY Zenon DEF Range
    <2>1. (i \in DOMAIN arr /\ arr'[i] = arr[i]) \/ arr'[i] = x
      BY DEF Apart
    <2>. QED
      BY Zenon, <2>1 DEF Range
  <1>3. \A y \in Range(arr) : y[1] \in Sockets
    BY Zenon, LinkSockets DEF Apart
  <1>4. phase \in {"up", "send"} => \A y \in Range(arr') : os'[y[1]].state = "open"
    BY Zenon, <1>2, <1>3 DEF Ordered
  <1>5. sender.pc \in {"copy", "send"} => sender.i \in 1 .. Len(arr')
    BY <1>1 DEF Ordered
  <1>. QED
    BY Zenon, <1>4, <1>5 DEF Ordered

\* A step of a reception thread.
LEMMA ReceptionSound == ASSUME Sound, NEW r \in DOMAIN sets, Reception(r) PROVE Apart' /\ Ordered'
  <1>0. Apart /\ Ordered /\ sets # <<>>
    BY DEF Sound
  <1>1. CASE ~Insert(r)
    <2>1. UNCHANGED <<phase, os, arr, sender, jobs>>
      BY Zenon, <1>0, <1>1, ReceptionEffect
    <2>2. PICK t : Follows(r, t) /\ Becomes(r, t)
      BY Zenon, <1>0, <1>1, ReceptionEffect
    <2>3. t \in SetRecs /\ sets' = [sets EXCEPT ![r] = t]
      BY Zenon, <2>2 DEF Follows, Becomes
    <2>4. OsKeeps
      BY Zenon, <2>1, SameOs
    <2>5. Apart'
      BY Zenon, <1>0, <2>1, <2>2, <2>3, <2>4, ThreadKeeps
    <2>. QED
      BY Zenon, <1>0, <2>1, <2>5, OrderedSame
  <1>2. CASE Insert(r)
    <2>1. Apart'
      BY Zenon, <1>0, <1>2, InsertKeeps
    <2>. DEFINE x == <<sets[r].sock, sets[r].peer>>
    <2>2. UNCHANGED <<phase, os, sender, jobs>>
      BY <1>2 DEF Insert
    <2>3. CASE arr' = arr
      BY <1>0, <2>1, <2>2, <2>3, OrderedSame
    <2>4. CASE CreateSource(sets[r].sock) /\ arr' = Append(arr, x)
      <3>1. Local(sets[r], Range(arr)) /\ sets[r].pc = "insert"
        BY <1>0, <1>2 DEF Apart, Insert, At
      <3>2. x \in Pairs /\ x[1] = sets[r].sock
        BY Zenon, <3>1 DEF Local, Pairs
      <3>3. os[x[1]].state = "open"
        BY Zenon, <2>4, <3>2 DEF CreateSource
      <3>4. phase \in {"up", "send", "recv"}
        BY <1>0 DEF Ordered
      <3>. QED
        BY Zenon, <1>0, <2>1, <2>2, <2>4, <3>2, <3>3, <3>4, OrderedGrows
    <2>. QED
      BY Zenon, <1>2, <2>3, <2>4 DEF Insert, Grow
  <1>. QED
    BY Zenon, <1>1, <1>2

\* A step of the SendThread.
LEMMA SenderSound == ASSUME Sound, Wake \/ ForEachLink \/ SendLink PROVE Apart' /\ Ordered'
  <1>0. UNCHANGED <<phase, os, sets, arr, jobs>>
    BY Zenon DEF Wake, ForEachLink, SendLink
  <1>1. Apart'
    BY <1>0 DEF Sound, Apart
  <1>. DEFINE S == [pc : {"sleep", "size", "copy", "send", "ended"}, i : Nat, closing : BOOLEAN]
  <1>2. sender \in S /\ Len(arr) \in Nat /\ sender.pc # "ended"
    BY DEF Sound, Ordered, Apart, Wake, ForEachLink, SendLink
  <1>3. /\ sender' \in S
        /\ sender'.pc # "ended" => sender.pc # "ended"
        /\ sender'.pc \in {"copy", "send"} => sender'.i \in 1 .. Len(arr)
        /\ sender'.pc = "size" => sender'.i > 0
    <2>1. CASE Wake
      <3>1. sender' = [sender EXCEPT !.pc = "ended"] \/ sender' = [sender EXCEPT !.pc = "size", !.i = 1]
        BY Zenon, <2>1 DEF Wake
      <3>2. CASE sender' = [sender EXCEPT !.pc = "ended"]
        BY Zenon, <1>2, <3>2
      <3>3. CASE sender' = [sender EXCEPT !.pc = "size", !.i = 1]
        <4>1. sender'.pc = "size" /\ sender'.i = 1
          BY Zenon, <1>2, <3>3
        <4>2. sender' \in S
          BY Zenon, <1>2, <3>3
        <4>. QED
          BY <1>2, <4>1, <4>2
      <3>. QED
        BY Zenon, <3>1, <3>2, <3>3
    <2>2. CASE ForEachLink /\ sender.pc = "size"
      <3>1. sender' = [sender EXCEPT !.pc = IF sender.i > Len(arr) THEN "sleep" ELSE "copy"]
        BY Zenon, <2>2 DEF ForEachLink
      <3>2. sender.i > 0
        BY Zenon, <2>2 DEF Sound, Ordered
      <3>. QED
        BY <1>2, <3>1, <3>2
    <2>3. CASE ForEachLink /\ sender.pc = "copy"
      <3>1. sender' = [sender EXCEPT !.pc = "send"] /\ sender.i \in 1 .. Len(arr)
        BY Zenon, <2>3 DEF ForEachLink, Sound, Ordered
      <3>. QED
        BY Zenon, <1>2, <3>1
    <2>4. CASE SendLink
      <3>1. sender' = [sender EXCEPT !.pc = "size", !.i = sender.i + 1] /\ sender.i + 1 \in Nat /\ sender.i + 1 > 0
        BY <1>2, <2>4 DEF SendLink
      <3>. QED
        BY Zenon, <1>2, <3>1
    <2>. QED
      BY Zenon, <2>1, <2>2, <2>3, <2>4 DEF ForEachLink
  <1>. QED
    BY Zenon, <1>0, <1>1, <1>2, <1>3 DEF Sound, Ordered

\* The calls of the user, and INetwork::create.
LEMMA UserSound ==
    ASSUME Sound, Create \/ Register \/ (\E p \in Ports : StartListen(p) \/ StopListen(p)) \/ (\E q \in Peers : ConnectTo(q))
    PROVE  Apart' /\ Ordered'
  <1>0. Apart /\ Ordered /\ Counted
    BY Zenon DEF Sound
  <1>1. CASE Create
    <2>1. phase \in {"none", "gone"} /\ UNCHANGED <<os, sets, arr>>
      BY Zenon, <1>1 DEF Create
    <2>2. Apart'
      BY <1>0, <2>1 DEF Apart
    <2>3. arr = <<>> /\ sets = <<>> /\ sender.pc = "ended"
      BY Zenon, <1>0, <2>1 DEF Ordered
    <2>4. CASE UNCHANGED <<phase, jobs, sender>>
      BY Zenon, <1>0, <2>1, <2>2, <2>4, OrderedSame
    <2>5. CASE Constructed
      <3>1. phase' = "up" /\ jobs' /\ sender' = NewSender
        BY Zenon, <2>5 DEF Constructed
      <3>2. /\ sender' \in [pc : {"sleep", "size", "copy", "send", "ended"}, i : Nat, closing : BOOLEAN]
            /\ sender'.pc = "sleep"
        BY Zenon, <3>1 DEF NewSender
      <3>3. Range(arr') = {}
        BY <2>1, <2>3 DEF Range
      <3>. QED
        BY <2>1, <2>2, <3>1, <3>2, <3>3 DEF Ordered
    <2>. QED
      BY Zenon, <1>1, <2>4, <2>5 DEF Create
  <1>2. CASE Register
    <2>1. Apart'
      BY Zenon, <1>0, <1>2, RegisterKeeps
    <2>2. PICK s \in Sockets : Created(s) /\ Open(s, AnyPort) /\ AddLink(s, Master)
      BY Zenon, <1>2 DEF Register
    <2>. DEFINE x == <<s, Master>>
    <2>3. x \in Pairs /\ x[1] = s /\ arr' = Append(arr, x) /\ phase = "up" /\ UNCHANGED <<phase, jobs, sender, sets>>
      BY Zenon, <1>2, <2>2 DEF Pairs, AddLink, Grow, Register, Up
    <2>4. os' = [os EXCEPT ![s] = [state |-> "open", port |-> AnyPort]]
      BY <2>2 DEF Open
    <2>5. os'[s].state = "open" /\ \A t \in Sockets : os[t].state = "open" => os'[t].state = "open"
      BY Zenon, <1>0, <2>4 DEF Counted
    <2>. QED
      BY <1>0, <2>1, <2>3, <2>5, OrderedGrows
  <1>3. ASSUME NEW p \in Ports, StartListen(p) PROVE Apart' /\ Ordered'
    <2>1. Apart'
      BY <1>0, <1>3, ListenKeeps
    <2>2. PICK s \in Sockets : Created(s) /\ Open(s, p)
      BY Zenon, <1>3 DEF StartListen, StartListenIntern
    <2>3. phase = "up" /\ UNCHANGED <<phase, arr, sender, jobs>> /\ os' = [os EXCEPT ![s] = [state |-> "open", port |-> p]]
      BY Zenon, <1>3, <2>2 DEF StartListen, Up, Open
    <2>4. \A t \in Sockets : os[t].state = "open" => os'[t].state = "open"
      BY <1>0, <2>3 DEF Counted
    <2>5. \A x \in Range(arr) : os'[x[1]].state = "open"
      <3>1. \A x \in Range(arr) : x[1] \in Sockets
        BY Zenon, <1>0, LinkSockets DEF Apart
      <3>. QED
        BY <1>0, <2>3, <2>4, <3>1 DEF Ordered
    <2>. QED
      BY Zenon, <1>0, <2>1, <2>3, <2>5 DEF Ordered
  <1>4. ASSUME NEW p \in Ports, StopListen(p) PROVE Apart' /\ Ordered'
    <2>1. Apart'
      BY Zenon, <1>0, <1>4, StopKeeps
    <2>2. UNCHANGED <<phase, os, arr, sender, jobs>> /\ phase = "up"
      BY Zenon, <1>4 DEF StopListen, Up
    <2>. QED
      BY <1>0, <2>1, <2>2, OrderedSame
  <1>5. ASSUME NEW q \in Peers, ConnectTo(q) PROVE Apart' /\ Ordered'
    <2>1. Apart'
      BY Zenon, <1>0, <1>5, ConnectKeeps
    <2>2. PICK i \in DOMAIN arr : arr' = Append(arr, <<arr[i][1], q>>)
      BY Zenon, <1>5 DEF ConnectTo, Grow
    <2>. DEFINE c == arr[i][1]  x == <<c, q>>
    <2>3. phase = "up" /\ UNCHANGED <<phase, os, sets, sender, jobs>>
      BY <1>5 DEF ConnectTo, Up
    <2>4. arr[i] \in Range(arr) /\ c \in Sockets
      BY <1>0 DEF Apart, Range, Pairs
    <2>5. x \in Pairs /\ x[1] = c /\ os[c].state = "open"
      BY Zenon, <1>0, <2>3, <2>4 DEF Pairs, Ordered
    <2>. QED
      BY <1>0, <2>1, <2>2, <2>3, <2>5, OrderedGrows
  <1>. QED
    BY <1>1, <1>2, <1>3, <1>4, <1>5

\* A step of ~Network.
LEMMA DestroySound == ASSUME Sound, Destroy PROVE Apart' /\ Ordered'
  <1>0. Apart /\ Ordered /\ Counted
    BY Zenon DEF Sound
  <1>1. CASE StopSend \/ JoinSend
    <2>1. UNCHANGED <<os, sets, arr, jobs>>
      BY Zenon, <1>1 DEF StopSend, JoinSend
    <2>2. Apart'
      BY Zenon, <1>0, <2>1 DEF Apart
    <2>3. CASE StopSend
      <3>1. phase = "up" /\ phase' = "send" /\ sender' = [sender EXCEPT !.closing = TRUE]
        BY Zenon, <2>3 DEF StopSend, Up
      <3>2. /\ sender' \in [pc : {"sleep", "size", "copy", "send", "ended"}, i : Nat, closing : BOOLEAN]
            /\ sender'.pc = sender.pc /\ sender'.i = sender.i
        BY Zenon, <1>0, <3>1 DEF Ordered
      <3>. QED
        BY <1>0, <2>1, <2>2, <3>1, <3>2 DEF Ordered
    <2>4. CASE JoinSend
      <3>1. phase = "send" /\ phase' = "recv" /\ sender' = sender /\ sender.pc = "ended"
        BY Zenon, <2>4 DEF JoinSend
      <3>. QED
        BY <1>0, <2>1, <2>2, <3>1 DEF Ordered
    <2>. QED
      BY Zenon, <1>1, <2>3, <2>4
  <1>2. ASSUME NEW r \in DOMAIN sets, StopSet(r) PROVE Apart' /\ Ordered'
    <2>. DEFINE o == sets[r]  t == [o EXCEPT !.closing = TRUE]
    <2>1. /\ sets' = [sets EXCEPT ![r] = t] /\ UNCHANGED <<phase, arr, sender, jobs>> /\ phase = "recv"
          /\ os' = [s \in Sockets |-> IF s \in sets[r].low THEN [os[s] EXCEPT !.state = "closed"] ELSE os[s]]
      BY <1>2 DEF StopSet, Current, Becomes
    <2>2. o \in SetRecs /\ Local(o, Range(arr))
      BY Zenon, <1>0, SetTyped
    <2>3. t \in SetRecs /\ t.pc = o.pc /\ t.high = o.high /\ t.sock = o.sock /\ t.peer = o.peer
      BY Zenon, <2>2 DEF SetRecs
    <2>. HIDE DEF t
    <2>4. Follows(r, t)
      BY <2>2, <2>3 DEF Follows, Local, Owns
    <2>5. OsKeeps
      BY <1>0, <2>1 DEF OsKeeps, Counted
    <2>6. Apart'
      BY Zenon, <1>0, <2>1, <2>3, <2>4, <2>5, ThreadKeeps
    <2>. QED
      BY Zenon, <1>0, <2>1, <2>6 DEF Ordered
  <1>3. CASE StopJobs
    <2>1. sets' = <<>> /\ UNCHANGED <<os, arr, sender>> /\ phase = "recv" /\ phase' = "clear"
      BY Zenon, <1>3 DEF StopJobs
    <2>2. sets' \in Seq(SetRecs) /\ DOMAIN sets' = {}
      BY <2>1
    <2>3. Apart'
      BY <1>0, <2>1, <2>2 DEF Apart
    <2>. QED
      BY <1>0, <2>1, <2>3 DEF Ordered
  <1>4. CASE Clear
    <2>1. /\ arr' = <<>> /\ UNCHANGED <<sets, sender, jobs>> /\ phase = "clear" /\ phase' = "gone"
      BY Zenon, <1>4 DEF Clear
    <2>2. sets = <<>> /\ DOMAIN sets = {}
      <3>1. sets = <<>>
        BY Zenon, <1>0, <2>1 DEF Ordered
      <3>. QED
        BY <3>1
    <2>3. Range(arr') = {} /\ arr' \in Seq(Pairs) /\ IsInjective(arr')
      BY <2>1 DEF Range, IsInjective
    <2>4. Apart'
      BY Zenon, <1>0, <2>1, <2>2, <2>3 DEF Apart
    <2>5. sender.pc = "ended"
      BY Zenon, <1>0, <2>1 DEF Ordered
    <2>. QED
      BY Zenon, <1>0, <2>1, <2>2, <2>4, <2>5 DEF Ordered
  <1>. QED
    BY Zenon, <1>1, <1>2, <1>3, <1>4 DEF Destroy

\* Sound holds always.
LEMMA Soundness == Spec => []Sound
  <1>1. Init => Sound
    <2>. SUFFICES ASSUME Init PROVE Sound
      OBVIOUS
    <2>1. Counted
      BY Zenon, InitCounted
    <2>2. sets = <<>> /\ arr = <<>> /\ DOMAIN sets = {} /\ Range(arr) = {} /\ sets \in Seq(SetRecs) /\ arr \in Seq(Pairs)
      BY DEF Init, Range
    <2>3. Apart
      BY Zenon, <2>2 DEF Apart, IsInjective
    <2>4. /\ sender \in [pc : {"sleep", "size", "copy", "send", "ended"}, i : Nat, closing : BOOLEAN]
          /\ sender.pc = "ended" /\ phase = "none"
      BY Zenon DEF Init
    <2>5. Ordered
      BY <2>2, <2>4 DEF Ordered
    <2>. QED
      BY Zenon, <2>1, <2>3, <2>5 DEF Sound
  <1>2. Sound /\ [Next]_vars => Sound'
    <2>. SUFFICES ASSUME Sound, [Next]_vars PROVE Apart' /\ Ordered'
      BY Zenon, CountStep DEF Sound
    <2>1. CASE UNCHANGED vars
      <3>1. UNCHANGED <<phase, os, sets, arr, sender, jobs>>
        BY Zenon, <2>1 DEF vars
      <3>. QED
        BY Zenon, <3>1 DEF Sound, Apart, Ordered
    <2>. QED
      BY Zenon, <2>1, UserSound, ReceptionSound, SenderSound, DestroySound DEF Next
  <1>. QED
    BY <1>1, <1>2, PTL DEF Spec

\* One link per pair: no two links have the same socket and address, though neither LinkManager
\* nor its lists have a lock, and a packet goes to the link of its own pair.
THEOREM LinksUnique == Spec => []OneLinkPerPair
  <1>1. Sound => OneLinkPerPair
    BY Zenon DEF Sound, Apart, Local, OneLinkPerPair
  <1>. QED
    BY <1>1, Soundness, PTL

\* Stopped in order: the SendThread sends on open sockets only, and a packet is handled only
\* while the JobSystem takes jobs, whenever the destructor runs.
THEOREM StoppedInOrder == Spec => []StopOrder
  <1>1. Sound => StopOrder
    <2>. SUFFICES ASSUME Sound PROVE StopOrder
      OBVIOUS
    <2>1. ASSUME sender.pc = "send" PROVE LinkSend(sender.i)
      <3>1. phase \in {"up", "send"} /\ sender.i \in DOMAIN arr
        BY <2>1 DEF Sound, Ordered, Apart
      <3>2. arr[sender.i] \in Range(arr)
        BY Zenon, <3>1 DEF Range
      <3>. QED
        BY Zenon, <3>1, <3>2 DEF Sound, Ordered, LinkSend, SendTo
    <2>2. ASSUME NEW r \in DOMAIN sets PROVE jobs
      BY DEF Sound, Ordered
    <2>. QED
      BY Zenon, <2>1, <2>2 DEF StopOrder
  <1>. QED
    BY <1>1, Soundness, PTL
----------------------------------------------------------------------------
\* Each listener has a socket of its own, which is in a set until the destructor stops the threads;
\* till then no thread was told to end.
Reads ==
    /\ listeners \in [Ports -> Sockets \cup {NoSocket}]
    /\ \A p, q \in Ports : listeners[p] # NoSocket /\ listeners[p] = listeners[q] => p = q
    /\ \A p \in Ports : listeners[p] # NoSocket => os[listeners[p]].state # "unused"
    /\ phase \in {"none", "gone"} => \A p \in Ports : listeners[p] = NoSocket
    /\ phase = "up" => \A p \in Ports : listeners[p] # NoSocket => \E r \in DOMAIN sets : listeners[p] \in sets[r].high
    /\ phase \in {"up", "send"} => \A r \in DOMAIN sets : ~sets[r].closing /\ sets[r].pc # "ended"
    /\ \A r \in DOMAIN sets : Cardinality(sets[r].high) <= SetSize

\* A reception thread keeps its sockets and ends only when told so.
LEMMA ReceptionHolds ==
    ASSUME Apart, NEW r \in DOMAIN sets, Reception(r)
    PROVE  /\ UNCHANGED <<phase, os, listeners>>
           /\ \E t : /\ sets' = [sets EXCEPT ![r] = t] /\ t.high = sets[r].high /\ t.closing = sets[r].closing
                     /\ t.pc = "ended" => sets[r].closing
  <1>. DEFINE o == sets[r]
              U == UNCHANGED <<phase, os, listeners>>
              E == \E t : /\ sets' = [sets EXCEPT ![r] = t] /\ t.high = o.high /\ t.closing = o.closing
                          /\ t.pc = "ended" => o.closing
  <1>0. o \in SetRecs
    BY Zenon, SetTyped
  <1>. SUFFICES U /\ E
    BY Zenon
  <1>. HIDE DEF o
  <1>p. ASSUME NEW pc, Becomes(r, [o EXCEPT !.pc = pc]), pc = "ended" => o.closing PROVE E
    <2>. DEFINE t == [o EXCEPT !.pc = pc]
    <2>1. t.pc = pc /\ t.high = o.high /\ t.closing = o.closing
      BY <1>0 DEF SetRecs
    <2>2. sets' = [sets EXCEPT ![r] = t]
      BY Zenon, <1>p DEF Becomes
    <2>. HIDE DEF t
    <2>. QED
      BY Zenon, <1>p, <2>1, <2>2
  <1>d. ASSUME Becomes(r, Done(r)) PROVE E
    <2>. DEFINE t == [o EXCEPT !.sock = NoSocket, !.peer = None, !.pc = "each"]
    <2>1. t.pc = "each" /\ t.high = o.high /\ t.closing = o.closing
      BY Zenon, <1>0 DEF SetRecs
    <2>2. sets' = [sets EXCEPT ![r] = t]
      BY Zenon, <1>d DEF Becomes, Done, o
    <2>. HIDE DEF t
    <2>. QED
      BY Zenon, <2>1, <2>2
  <1>2. CASE Rebuild(r)
    <2>. DEFINE pc == IF o.high = {} THEN "check" ELSE "select"
                t == [o EXCEPT !.low = o.high, !.pc = pc]
    <2>1. sets' = [sets EXCEPT ![r] = t] /\ U
      BY Zenon, <1>2 DEF Rebuild, Becomes, o
    <2>2. pc # "ended"
      OBVIOUS
    <2>. HIDE DEF pc
    <2>3. t.pc = pc /\ t.high = o.high /\ t.closing = o.closing
      BY Zenon, <1>0 DEF SetRecs
    <2>. HIDE DEF t
    <2>. QED
      BY Zenon, <2>1, <2>2, <2>3
  <1>3. CASE Select(r)
    <2>1. U
      BY Zenon, <1>3 DEF Select
    <2>2. CASE \E s \in sets[r].low : os[s].state = "closed"
      <3>1. Becomes(r, [o EXCEPT !.pc = "check"])
        BY Zenon, <1>3, <2>2 DEF Select, o
      <3>. QED
        BY Zenon, <1>p, <2>1, <3>1
    <2>3. CASE ~\E s \in sets[r].low : os[s].state = "closed"
      <3>1. PICK S : Becomes(r, [o EXCEPT !.low = S, !.todo = S, !.pc = IF S = {} THEN "check" ELSE "each"])
        BY Zenon, <1>3, <2>3 DEF Select, o
      <3>. DEFINE pc == IF S = {} THEN "check" ELSE "each"
                  t == [o EXCEPT !.low = S, !.todo = S, !.pc = pc]
      <3>2. sets' = [sets EXCEPT ![r] = t] /\ pc # "ended"
        BY <3>1 DEF Becomes
      <3>. HIDE DEF pc
      <3>3. t.pc = pc /\ t.high = o.high /\ t.closing = o.closing
        BY Zenon, <1>0 DEF SetRecs
      <3>. HIDE DEF t
      <3>. QED
        BY Zenon, <2>1, <3>2, <3>3
    <2>. QED
      BY <2>2, <2>3
  <1>4. CASE Each(r)
    <2>1. U
      BY Zenon, <1>4 DEF Each
    <2>2. CASE sets[r].todo = {}
      <3>1. Becomes(r, [o EXCEPT !.pc = "check"])
        BY Zenon, <1>4, <2>2 DEF Each, o
      <3>. QED
        BY <1>p, <2>1, <3>1
    <2>3. CASE sets[r].todo # {}
      <3>1. PICK s : Becomes(r, [o EXCEPT !.todo = @ \ {s}, !.sock = IF s \in o.high THEN s ELSE NoSocket,
                                          !.pc = IF s \in o.high THEN "recv" ELSE "each"])
        BY Zenon, <1>4, <2>3 DEF Each, o
      <3>. DEFINE pc == IF s \in o.high THEN "recv" ELSE "each"
                  k  == IF s \in o.high THEN s ELSE NoSocket
                  t  == [o EXCEPT !.todo = @ \ {s}, !.sock = k, !.pc = pc]
      <3>2. sets' = [sets EXCEPT ![r] = t] /\ pc # "ended"
        BY Zenon, <3>1 DEF Becomes
      <3>. HIDE DEF pc, k
      <3>3. t.pc = pc /\ t.high = o.high /\ t.closing = o.closing
        BY Zenon, <1>0 DEF SetRecs
      <3>. HIDE DEF t
      <3>. QED
        BY Zenon, <2>1, <3>2, <3>3
    <2>. QED
      BY Zenon, <2>2, <2>3
  <1>5. CASE Recv(r)
    <2>1. U
      BY Zenon, <1>5 DEF Recv
    <2>2. ASSUME NEW q, Becomes(r, [o EXCEPT !.peer = q, !.pc = "get"]) PROVE E
      <3>. DEFINE t == [o EXCEPT !.peer = q, !.pc = "get"]
      <3>1. t.pc = "get" /\ t.high = o.high /\ t.closing = o.closing
        BY Zenon, <1>0 DEF SetRecs
      <3>2. sets' = [sets EXCEPT ![r] = t]
        BY Zenon, <2>2 DEF Becomes
      <3>. HIDE DEF t
      <3>. QED
        BY Zenon, <3>1, <3>2
    <2>3. Becomes(r, Done(r)) \/ \E q \in Peers : Becomes(r, [o EXCEPT !.peer = q, !.pc = "get"])
      BY Zenon, <1>5 DEF Recv, o
    <2>. QED
      BY Zenon, <1>d, <2>1, <2>2, <2>3
  <1>6. CASE GetManager(r) \/ MakeManager(r) \/ Find(r)
    <2>1. U
      BY Zenon, <1>6 DEF GetManager, MakeManager, Find
    <2>2. PICK pc \in {"find", "make", "receive", "insert"} : Becomes(r, [o EXCEPT !.pc = pc])
      BY Zenon, <1>6 DEF GetManager, MakeManager, Find, o
    <2>3. pc # "ended"
      OBVIOUS
    <2>. QED
      BY Zenon, <1>p, <2>1, <2>2, <2>3
  <1>7. CASE Insert(r)
    <2>1. U
      BY Zenon, <1>7 DEF Insert
    <2>2. Becomes(r, [o EXCEPT !.pc = "receive"]) \/ sets' = sets
      BY Zenon, <1>7 DEF Insert, o
    <2>3. ASSUME sets' = sets PROVE E
      <3>1. o.pc = "insert" /\ sets = [sets EXCEPT ![r] = o]
        BY <1>7 DEF Insert, At, Apart, o
      <3>. QED
        BY Zenon, <2>3, <3>1
    <2>. QED
      BY <1>p, <2>1, <2>2, <2>3
  <1>8. CASE Receive(r)
    BY Zenon, <1>d, <1>8 DEF Receive
  <1>9. CASE Check(r)
    <2>1. U
      BY <1>9 DEF Check
    <2>2. PICK pc : Becomes(r, [o EXCEPT !.pc = pc]) /\ (pc = "ended" => o.closing)
      BY <1>9 DEF Check, o
    <2>. QED
      BY Zenon, <1>p, <2>1, <2>2
  <1>. QED
    BY Zenon, <1>2, <1>3, <1>4, <1>5, <1>6, <1>7, <1>8, <1>9 DEF Reception, o

\* A step of one thread, or of the destructor on it, that takes no socket.
LEMMA ThreadReads ==
    ASSUME Apart, Reads, OsKeeps, UNCHANGED <<phase, listeners>>, NEW r \in DOMAIN sets, NEW t,
           sets' = [sets EXCEPT ![r] = t], t.high = sets[r].high,
           phase \in {"up", "send"} => t.closing = sets[r].closing /\ (t.pc = "ended" => sets[r].closing)
    PROVE  Reads'
  <1>1. /\ DOMAIN sets' = DOMAIN sets /\ sets'[r] = t
        /\ \A q \in DOMAIN sets : q # r => sets'[q] = sets[q]
    BY Zenon DEF Apart
  <1>2. \A q \in DOMAIN sets : sets'[q].high = sets[q].high
    BY <1>1
  <1>3. \A p \in Ports : listeners[p] # NoSocket => listeners[p] \in Sockets
    BY Zenon DEF Reads
  <1>4. \A p \in Ports : listeners[p] # NoSocket => os'[listeners[p]].state # "unused"
    BY Zenon, <1>3 DEF Reads, OsKeeps
  <1>5. phase \in {"up", "send"} => \A q \in DOMAIN sets : ~sets'[q].closing /\ sets'[q].pc # "ended"
    BY <1>1 DEF Reads
  <1>6. phase = "up" => \A p \in Ports : listeners[p] # NoSocket => \E q \in DOMAIN sets : listeners[p] \in sets'[q].high
    BY Zenon, <1>2 DEF Reads
  <1>. QED
    BY <1>1, <1>2, <1>4, <1>5, <1>6 DEF Reads

\* A step that changes neither the listeners nor the sets, and no phase but to go on with stopping.
LEMMA SameReads ==
    ASSUME Reads, OsKeeps, UNCHANGED <<listeners, sets>>,
           phase' # phase => phase \notin {"none", "gone"} /\ phase' \notin {"none", "gone", "up"} /\ (phase' = "send" => phase = "up")
    PROVE  Reads'
  <1>1. \A p \in Ports : listeners[p] # NoSocket => os'[listeners[p]].state # "unused"
    BY DEF Reads, OsKeeps
  <1>. QED
    BY Zenon, <1>1 DEF Reads

\* startListen: the new socket is nobody's, and the set it is put in has room for it.
LEMMA ListenReads == ASSUME Sound, Reads, NEW p \in Ports, StartListen(p) PROVE Reads'
  <1>1. PICK s \in Sockets : Created(s) /\ Open(s, p) /\ AddSocket(s) /\ listeners' = [listeners EXCEPT ![p] = s]
    BY Zenon DEF StartListen, StartListenIntern
  <1>2. OsKeeps /\ os'[s].state = "open" /\ os[s].state = "unused" /\ phase' = phase /\ phase = "up"
    BY <1>1, OpenKeeps DEF StartListen, Sound, Up
  <1>3. NoSocket \notin Sockets
    BY DEF NoSocket, Sockets
  <1>4. /\ listeners \in [Ports -> Sockets \cup {NoSocket}]
        /\ listeners' \in [Ports -> Sockets \cup {NoSocket}]
        /\ listeners'[p] = s /\ \A q \in Ports : q # p => listeners'[q] = listeners[q]
    BY Zenon, <1>1 DEF Reads
  <1>5. \A q \in Ports : listeners[q] # s
    BY <1>2, <1>3 DEF Reads
  <1>6. \A a, b \in Ports : listeners'[a] # NoSocket /\ listeners'[a] = listeners'[b] => a = b
    BY <1>4, <1>5 DEF Reads
  <1>7. \A a \in Ports : listeners'[a] # NoSocket => os'[listeners'[a]].state # "unused"
    BY <1>2, <1>4 DEF Reads, OsKeeps
  <1>8. ASSUME NEW k \in DOMAIN sets', DOMAIN sets \subseteq DOMAIN sets',
               \A q \in DOMAIN sets' : q # k => q \in DOMAIN sets /\ sets'[q] = sets[q],
               s \in sets'[k].high, Cardinality(sets'[k].high) <= SetSize,
               ~sets'[k].closing, sets'[k].pc # "ended",
               k \in DOMAIN sets => sets[k].high \subseteq sets'[k].high
        PROVE  Reads'
    <2>1. \A q \in DOMAIN sets' : Cardinality(sets'[q].high) <= SetSize /\ ~sets'[q].closing /\ sets'[q].pc # "ended"
      BY <1>2, <1>8 DEF Reads
    <2>2. ASSUME NEW a \in Ports, listeners'[a] # NoSocket PROVE \E r \in DOMAIN sets' : listeners'[a] \in sets'[r].high
      <3>1. CASE a = p
        BY Zenon, <1>4, <1>8, <3>1
      <3>2. CASE a # p
        <4>1. PICK r \in DOMAIN sets : listeners[a] \in sets[r].high
          BY <1>2, <1>4, <2>2, <3>2 DEF Reads
        <4>2. r \in DOMAIN sets' /\ listeners[a] \in sets'[r].high
          BY Zenon, <1>8, <4>1
        <4>. QED
          BY SMTT(30), <1>4, <3>2, <4>2
      <3>. QED
        BY <3>1, <3>2
    <2>. QED
      BY Zenon, <1>2, <1>4, <1>6, <1>7, <2>1, <2>2 DEF Reads
  <1>9. CASE sets' = Append(sets, NewSet(s))
    <2>. DEFINE n == Len(sets) + 1  z == NewSet(s)
    <2>1. z \in SetRecs /\ z.pc = "top" /\ z.high = {s} /\ ~z.closing
      BY Zenon DEF NewSet, SetRecs, PCs
    <2>. HIDE DEF z
    <2>2. sets \in Seq(SetRecs)
      BY Zenon DEF Sound, Apart
    <2>3. /\ n \in DOMAIN sets' /\ sets'[n] = z /\ DOMAIN sets \subseteq DOMAIN sets' /\ n \notin DOMAIN sets
          /\ \A q \in DOMAIN sets' : q # n => q \in DOMAIN sets /\ sets'[q] = sets[q]
      BY <1>9, <2>1, <2>2 DEF z
    <2>4. Cardinality(z.high) <= SetSize
      <3>1. Cardinality({s}) = 1
        BY Zenon, FS_Singleton
      <3>. QED
        BY <2>1, <3>1, NetworkAssumption
    <2>. HIDE DEF n
    <2>. QED
      BY Zenon, <1>8, <2>1, <2>3, <2>4
  <1>10. ASSUME NEW k \in DOMAIN sets, HasRoom(sets[k]), sets' = [sets EXCEPT ![k].high = @ \cup {s}] PROVE Reads'
    <2>. DEFINE o == sets[k]  z == [o EXCEPT !.high = @ \cup {s}]
    <2>1. o \in SetRecs /\ sets \in Seq(SetRecs)
      BY SetTyped DEF Sound, Apart
    <2>2. z.pc = o.pc /\ z.high = o.high \cup {s} /\ z.closing = o.closing /\ o.high \subseteq Sockets
      BY <2>1 DEF SetRecs
    <2>3. sets' = [sets EXCEPT ![k] = z]
      BY Zenon, <1>10
    <2>. HIDE DEF z
    <2>4. /\ DOMAIN sets' = DOMAIN sets /\ sets'[k] = z
          /\ \A q \in DOMAIN sets : q # k => sets'[q] = sets[q]
      BY <2>1, <2>3
    <2>5. Cardinality(z.high) <= SetSize
      <3>1. IsFiniteSet(o.high) /\ Cardinality(o.high) \in Nat
        BY Zenon, <2>2, LiveFinite
      <3>2. Cardinality(o.high) < SetSize
        BY Zenon, <1>10 DEF HasRoom
      <3>. HIDE DEF o
      <3>s. Cardinality(o.high \cup {s}) = IF s \in o.high THEN Cardinality(o.high) ELSE Cardinality(o.high) + 1
        BY Zenon, <3>1, FS_AddElement
      <3>3. Cardinality(o.high \cup {s}) <= Cardinality(o.high) + 1
        BY <3>1, <3>s
      <3>4. IsFiniteSet(o.high \cup {s}) /\ Cardinality(o.high \cup {s}) \in Nat
        BY Zenon, <3>1, FS_AddElement, FS_CardinalityType
      <3>. QED
        BY <2>2, <3>1, <3>2, <3>3, <3>4, NetworkAssumption
    <2>6. ~o.closing /\ o.pc # "ended"
      BY Zenon, <1>2 DEF Reads
    <2>. QED
      BY Zenon, <1>8, <2>2, <2>4, <2>5, <2>6
  <1>. QED
    BY Zenon, <1>1, <1>9, <1>10 DEF AddSocket

\* stopListen takes the socket of one listener out of the sets, and no other.
LEMMA StopReads == ASSUME Sound, Reads, NEW p \in Ports, StopListen(p) PROVE Reads'
  <1>. DEFINE s == listeners[p]  z(q) == [sets[q] EXCEPT !.high = @ \ {s}]
  <1>1. /\ sets' = [q \in DOMAIN sets |-> z(q)] /\ UNCHANGED <<os, phase>>
        /\ listeners' = [listeners EXCEPT ![p] = NoSocket] /\ s # NoSocket /\ phase = "up"
    BY DEF StopListen, StopSocket, RemoveSocket, Erased, Up
  <1>2. ASSUME NEW q \in DOMAIN sets
        PROVE  /\ z(q).pc = sets[q].pc /\ z(q).high = sets[q].high \ {s} /\ z(q).closing = sets[q].closing
               /\ Cardinality(z(q).high) <= Cardinality(sets[q].high)
               /\ Cardinality(z(q).high) \in Nat /\ Cardinality(sets[q].high) \in Nat
    <2>1. sets[q] \in SetRecs
      BY Zenon, SetTyped DEF Sound
    <2>. HIDE DEF s
    <2>2. /\ z(q).pc = sets[q].pc /\ z(q).high = sets[q].high \ {s} /\ z(q).closing = sets[q].closing
          /\ sets[q].high \subseteq Sockets
      BY <2>1 DEF SetRecs
    <2>. HIDE DEF z
    <2>3. IsFiniteSet(sets[q].high) /\ Cardinality(sets[q].high) \in Nat
      BY Zenon, <2>2, LiveFinite
    <2>4. z(q).high \in SUBSET sets[q].high
      BY Zenon, <2>2
    <2>5. IsFiniteSet(z(q).high) /\ Cardinality(z(q).high) <= Cardinality(sets[q].high)
      BY <2>3, <2>4, FS_Subset
    <2>. QED
      BY Zenon, <2>2, <2>3, <2>5, FS_CardinalityType
  <1>. HIDE DEF z
  <1>3. DOMAIN sets' = DOMAIN sets /\ \A q \in DOMAIN sets : sets'[q] = z(q)
    BY Zenon, <1>1
  <1>4. /\ listeners \in [Ports -> Sockets \cup {NoSocket}]
        /\ listeners' \in [Ports -> Sockets \cup {NoSocket}]
        /\ listeners'[p] = NoSocket /\ \A q \in Ports : q # p => listeners'[q] = listeners[q]
    BY Zenon, <1>1 DEF Reads
  <1>5. \A q \in Ports : listeners'[q] # NoSocket => q # p /\ listeners'[q] = listeners[q] /\ listeners[q] # s
    BY <1>1, <1>4 DEF Reads
  <1>6. ASSUME NEW a \in Ports, listeners'[a] # NoSocket PROVE \E r \in DOMAIN sets' : listeners'[a] \in sets'[r].high
    <2>1. PICK r \in DOMAIN sets : listeners[a] \in sets[r].high
      BY Zenon, <1>1, <1>5, <1>6 DEF Reads
    <2>2. listeners'[a] \in sets'[r].high
      BY SMTT(30), <1>2, <1>3, <1>5, <1>6, <2>1
    <2>. QED
      BY <1>3, <2>1, <2>2
  <1>7. \A q \in DOMAIN sets' : ~sets'[q].closing /\ sets'[q].pc # "ended"
    BY SMTT(30), <1>1, <1>2, <1>3 DEF Reads
  <1>8. \A q \in DOMAIN sets' : Cardinality(sets'[q].high) <= SetSize
    BY <1>2, <1>3, NetworkAssumption DEF Reads
  <1>9. \A a, b \in Ports : listeners'[a] # NoSocket /\ listeners'[a] = listeners'[b] => a = b
    BY <1>5 DEF Reads
  <1>10. \A a \in Ports : listeners'[a] # NoSocket => os'[listeners'[a]].state # "unused"
    BY Zenon, <1>1, <1>5 DEF Reads
  <1>. QED
    BY Zenon, <1>1, <1>4, <1>6, <1>7, <1>8, <1>9, <1>10 DEF Reads

\* The destructor: no thread is told to end before the phase is past "send", and the listeners go last.
LEMMA DestroyReads == ASSUME Sound, Reads, Destroy PROVE Reads'
  <1>1. CASE StopSend \/ JoinSend
    BY <1>1, SameOs, SameReads DEF StopSend, JoinSend, Up
  <1>2. ASSUME NEW r \in DOMAIN sets, StopSet(r) PROVE Reads'
    <2>. DEFINE t == [sets[r] EXCEPT !.closing = TRUE]
    <2>1. /\ sets' = [sets EXCEPT ![r] = t] /\ UNCHANGED <<phase, listeners>> /\ phase = "recv"
          /\ os' = [s \in Sockets |-> IF s \in sets[r].low THEN [os[s] EXCEPT !.state = "closed"] ELSE os[s]]
      BY Zenon, <1>2 DEF StopSet, Current, Becomes
    <2>2. sets[r] \in SetRecs
      BY SetTyped DEF Sound
    <2>3. t.high = sets[r].high
      BY Zenon, <2>2 DEF SetRecs
    <2>. HIDE DEF t
    <2>4. OsKeeps
      BY Zenon, <2>1 DEF OsKeeps, Counted, Sound
    <2>. QED
      BY Zenon, <2>1, <2>3, <2>4, ThreadReads DEF Sound
  <1>3. CASE StopJobs
    <2>1. sets' = <<>> /\ UNCHANGED <<os, listeners>> /\ phase' = "clear" /\ DOMAIN sets' = {}
      BY <1>3 DEF StopJobs
    <2>. QED
      BY <2>1 DEF Reads
  <1>4. CASE Clear
    <2>1. listeners' = [a \in Ports |-> NoSocket] /\ UNCHANGED sets /\ phase = "clear" /\ phase' = "gone"
      BY Zenon, <1>4 DEF Clear, Empty
    <2>2. \A r \in DOMAIN sets' : Cardinality(sets'[r].high) <= SetSize
      BY Zenon, <2>1 DEF Reads
    <2>. QED
      BY Zenon, <2>1, <2>2 DEF Reads
  <1>. QED
    BY Zenon, <1>1, <1>2, <1>3, <1>4 DEF Destroy

\* Each step keeps a socket that listens in the set of a thread that reads it.
LEMMA ReadsStep == Sound /\ Reads /\ [Next]_vars => Reads'
  <1>. SUFFICES ASSUME Sound, Reads, [Next]_vars PROVE Reads'
    OBVIOUS
  <1>1. CASE UNCHANGED vars \/ Wake \/ ForEachLink \/ SendLink
    <2>1. UNCHANGED <<phase, os, listeners, sets>>
      BY <1>1 DEF vars, Wake, ForEachLink, SendLink
    <2>. QED
      BY Zenon, <2>1, SameOs, SameReads
  <1>2. CASE Create
    <2>1. UNCHANGED <<os, listeners, sets>> /\ phase \in {"none", "gone"} /\ phase' \in {phase, "up"}
      BY Zenon, <1>2 DEF Create, Constructed
    <2>2. sets = <<>> /\ DOMAIN sets = {}
      <3>1. sets = <<>>
        BY Zenon, <2>1 DEF Sound, Ordered
      <3>. QED
        BY <3>1
    <2>. QED
      BY Zenon, <2>1, <2>2 DEF Reads
  <1>3. CASE Register
    <2>1. PICK s \in Sockets : Created(s) /\ Open(s, AnyPort)
      BY Zenon, <1>3 DEF Register
    <2>2. OsKeeps
      BY Zenon, <2>1, OpenKeeps DEF Sound
    <2>3. UNCHANGED <<phase, listeners, sets>>
      BY <1>3 DEF Register
    <2>. QED
      BY Zenon, <2>2, <2>3, SameReads
  <1>4. ASSUME NEW q \in Peers, ConnectTo(q) PROVE Reads'
    <2>1. UNCHANGED <<phase, os, listeners, sets>>
      BY Zenon, <1>4 DEF ConnectTo
    <2>. QED
      BY Zenon, <2>1, SameOs, SameReads
  <1>5. ASSUME NEW r \in DOMAIN sets, Reception(r) PROVE Reads'
    <2>1. UNCHANGED <<phase, os, listeners>>
      BY Zenon, <1>5, ReceptionHolds DEF Sound
    <2>2. PICK t : /\ sets' = [sets EXCEPT ![r] = t] /\ t.high = sets[r].high /\ t.closing = sets[r].closing
                   /\ t.pc = "ended" => sets[r].closing
      BY Zenon, <1>5, ReceptionHolds DEF Sound
    <2>. QED
      BY Zenon, <2>1, <2>2, SameOs, ThreadReads DEF Sound
  <1>. QED
    BY <1>1, <1>2, <1>3, <1>4, <1>5, ListenReads, StopReads, DestroyReads DEF Next

\* While the Network is up, the socket of every listener is with exactly one reception thread, which
\* runs, and no thread has more sockets than select takes.
THEOREM AllListenersRead == Spec => []ListenersRead
  <1>1. Init => Reads
    BY DEF Init, Reads, Empty
  <1>2. Sound /\ Reads => ListenersRead
    <2>. SUFFICES ASSUME Sound, Reads, phase = "up", NEW p \in Ports, listeners[p] # NoSocket
                  PROVE  Cardinality({r \in DOMAIN sets : listeners[p] \in sets[r].high /\ sets[r].pc # "ended"}) = 1
      BY Zenon DEF ListenersRead, Reads, Up
    <2>. DEFINE s == listeners[p]  R == {r \in DOMAIN sets : s \in sets[r].high /\ sets[r].pc # "ended"}
    <2>1. PICK k \in DOMAIN sets : s \in sets[k].high
      BY Zenon DEF Reads
    <2>2. s \in Sockets
      BY Zenon DEF Reads
    <2>3. \A r \in DOMAIN sets : s \in sets[r].high => r = k
      BY Zenon, <2>1, <2>2 DEF Sound, Apart, Owns
    <2>4. sets[k].pc # "ended"
      BY Zenon DEF Reads
    <2>5. R = {k}
      BY Zenon, <2>1, <2>3, <2>4
    <2>. QED
      BY Zenon, <2>5, FS_Singleton
  <1>. QED
    BY <1>1, <1>2, ReadsStep, Soundness, PTL DEF Spec
=============================================================================
