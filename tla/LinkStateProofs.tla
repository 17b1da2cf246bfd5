-------------------------- MODULE LinkStateProofs --------------------------
(***************************************************************************)
(* Proofs about the links between peers, for any number of peers, sessions *)
(* and calls; about the matchmaking server, for every set of clients,      *)
(* sessions and searches; and about what the two have in common, the host. *)
(***************************************************************************)
EXTENDS LinkState, TLAPS

Msgs == [rpc : {"connect", "accepted", "disconnect", "newConnection", "disconnected"}, about : Links \cup {None}]
Events == {"connect", "disconnect", "newConnection", "disconnected"}
LinkStates ==
    [state : {"Absent", "Unknown", "Connecting", "Connected", "Disconnected"},
     accepted : BOOLEAN, received : BOOLEAN]

PTyped ==
    /\ link \in [Links -> [Links -> {"none", "orphan", "bound", "left"}]]
    /\ ls \in [Links -> [Links -> LinkStates]]
    /\ chan \in [Links -> [Links -> Seq(Msgs)]]
    /\ log \in [Links -> [Links -> Seq(Events)]]
    /\ quits \in Nat

\* What the channels and the logs are asked: whether an RPC or an event is among them, and
\* whether only one request to connect is.
Has(s, name)  == \E i \in DOMAIN s : s[i].rpc = name
One(s)        == \A i, j \in DOMAIN s : s[i].rpc = "connect" /\ s[j].rpc = "connect" => i = j
InLog(s, e)   == \E i \in DOMAIN s : s[i] = e
InOrder(s)    ==
    \A i \in DOMAIN s : s[i] = "disconnect" =>
        /\ \E j \in 1 .. i - 1 : s[j] = "connect"
        /\ \A j \in DOMAIN s : j > i => ~Direct(s[j])

\* p asks q to connect once, when its LinkState is made, and q remembers that it was asked.
Asks ==
    \A p, q \in Links :
        /\ One(chan[p][q])
        /\ Has(chan[p][q], "connect") => ~ls[q][p].received
        /\ Fresh(ls[p][q]) => ~Has(chan[p][q], "connect") /\ ~ls[q][p].received
        /\ link[p][q] \in {"bound", "left"} => ~Fresh(ls[p][q])

\* What a LinkState says of what the listeners heard.
Hears ==
    \A p, q \in Links :
        /\ ls[p][q].accepted => ls[p][q].received /\ ls[p][q].state \in {"Connected", "Disconnected"}
        /\ Connected(p, q) => ls[p][q].accepted /\ InLog(log[p][q], "connect")
        /\ InLog(log[p][q], "disconnect") => ls[p][q].state = "Disconnected"
        /\ InOrder(log[p][q])

\* p tells q of its disconnect of an accepted link; it stays under way until q closes the link too.
Closes ==
    \A p, q \in Links :
        /\ Has(chan[p][q], "disconnect") => ls[p][q].state = "Disconnected" /\ ls[p][q].accepted
        /\ ls[p][q].state = "Disconnected" /\ ls[p][q].accepted =>
             Has(chan[p][q], "disconnect") \/ ls[q][p].state = "Disconnected"

\* As long as nobody disconnects: whoever made its LinkState asked, and whoever was asked accepted.
Agrees ==
    quits = 0 => \A p, q \in Links :
        /\ ls[p][q].state # "Disconnected" /\ ~Has(chan[p][q], "disconnect")
        /\ ls[p][q].received => Connected(p, q)
        /\ ~Fresh(ls[p][q]) => Has(chan[p][q], "connect") \/ ls[q][p].received

PInv == PTyped /\ Asks /\ Hears /\ Closes /\ Agrees
-----------------------------------------------------------------------------
\* A message sent is in the channel, and nothing else is new there.
LEMMA SentHas ==
    ASSUME NEW s \in Seq(Msgs), NEW m \in Msgs
    PROVE  /\ Append(s, m) \in Seq(Msgs)
           /\ \A name : Has(Append(s, m), name) <=> Has(s, name) \/ m.rpc = name
           /\ One(s) /\ (m.rpc # "connect" \/ ~Has(s, "connect")) => One(Append(s, m))
<1> DEFINE t == Append(s, m)
<1>1. t \in Seq(Msgs) /\ Len(t) = Len(s) + 1 /\ t[Len(s) + 1] = m /\ \A i \in 1 .. Len(s) : t[i] = s[i]
  OBVIOUS
<1>2. DOMAIN t = 1 .. Len(s) + 1 /\ DOMAIN s = 1 .. Len(s) /\ Len(s) \in Nat
  BY <1>1
<1> HIDE DEF t
<1>3. \A name : Has(t, name) <=> Has(s, name) \/ m.rpc = name
  BY <1>1, <1>2 DEF Has
<1>4. One(s) /\ (m.rpc # "connect" \/ ~Has(s, "connect")) => One(t)
  BY <1>1, <1>2 DEF Has, One
<1> QED
  BY Zenon, <1>1, <1>3, <1>4 DEF t

\* A message processed was the first of the channel, and nothing else is gone.
LEMMA TakenHas ==
    ASSUME NEW s \in Seq(Msgs), s # <<>>
    PROVE  /\ Tail(s) \in Seq(Msgs) /\ Head(s) \in Msgs
           /\ Has(s, Head(s).rpc)
           /\ \A name : Has(Tail(s), name) => Has(s, name)
           /\ \A name : Has(s, name) /\ Head(s).rpc # name => Has(Tail(s), name)
           /\ One(s) => One(Tail(s))
           /\ One(s) /\ Head(s).rpc = "connect" => ~Has(Tail(s), "connect")
<1> DEFINE t == Tail(s)
<1>1. t \in Seq(Msgs) /\ Len(t) = Len(s) - 1 /\ \A i \in 1 .. Len(s) - 1 : t[i] = s[i + 1]
  OBVIOUS
<1>2. DOMAIN t = 1 .. Len(s) - 1 /\ DOMAIN s = 1 .. Len(s) /\ Len(s) \in Nat /\ Len(s) > 0 /\ Head(s) = s[1] /\ s[1] \in Msgs
  BY <1>1
<1> HIDE DEF t
<1>3. Has(s, Head(s).rpc)
  BY <1>2 DEF Has
<1>4. ASSUME NEW name, Has(t, name) PROVE Has(s, name)
  <2>1. PICK i \in DOMAIN t : t[i].rpc = name
    BY Zenon, <1>4 DEF Has
  <2>2. i + 1 \in DOMAIN s /\ t[i] = s[i + 1]
    BY <2>1, <1>1, <1>2
  <2> QED
    BY Zenon, <2>1, <2>2 DEF Has
<1>5. ASSUME NEW name, Has(s, name), Head(s).rpc # name PROVE Has(t, name)
  <2>1. PICK i \in DOMAIN s : s[i].rpc = name
    BY Zenon, <1>5 DEF Has
  <2>2. i # 1 /\ i - 1 \in DOMAIN t /\ t[i - 1] = s[i]
    BY <2>1, <1>5, <1>1, <1>2
  <2> QED
    BY Zenon, <2>1, <2>2 DEF Has
<1>6. One(s) => One(t)
  <2> SUFFICES ASSUME One(s), NEW i \in DOMAIN t, NEW j \in DOMAIN t, t[i].rpc = "connect", t[j].rpc = "connect"
               PROVE  i = j
    BY Zenon DEF One
  <2>1. i + 1 \in DOMAIN s /\ j + 1 \in DOMAIN s /\ t[i] = s[i + 1] /\ t[j] = s[j + 1] /\ i \in Int /\ j \in Int
    BY <1>1, <1>2
  <2>2. i + 1 = j + 1
    BY Zenon, <2>1 DEF One
  <2> QED
    BY <2>1, <2>2
<1>7. One(s) /\ Head(s).rpc = "connect" => ~Has(t, "connect")
  <2> SUFFICES ASSUME One(s), s[1].rpc = "connect", NEW i \in DOMAIN t, t[i].rpc = "connect"
               PROVE  FALSE
    BY Zenon, <1>2 DEF Has
  <2>1. i + 1 \in DOMAIN s /\ 1 \in DOMAIN s /\ t[i] = s[i + 1] /\ i \in 1 .. Len(s) - 1
    BY <1>1, <1>2
  <2>2. i + 1 = 1
    BY Zenon, <2>1 DEF One
  <2> QED
    BY <2>1, <2>2
<1> QED
  BY Zenon, <1>1, <1>2, <1>3, <1>4, <1>5, <1>6, <1>7 DEF t

\* The listeners' log stays in order when what is appended may follow.
LEMMA Logged ==
    ASSUME NEW s \in Seq(Events), NEW e \in Events
    PROVE  /\ Append(s, e) \in Seq(Events)
           /\ \A f : InLog(Append(s, e), f) <=> InLog(s, f) \/ e = f
           /\ InOrder(s) /\ (Direct(e) => ~InLog(s, "disconnect")) /\ (e = "disconnect" => InLog(s, "connect"))
                => InOrder(Append(s, e))
<1> DEFINE t == Append(s, e)
<1>1. t \in Seq(Events) /\ Len(t) = Len(s) + 1 /\ t[Len(s) + 1] = e /\ \A i \in 1 .. Len(s) : t[i] = s[i]
  OBVIOUS
<1>2. DOMAIN t = 1 .. Len(s) + 1 /\ DOMAIN s = 1 .. Len(s) /\ Len(s) \in Nat
  BY <1>1
<1> HIDE DEF t
<1>3. \A f : InLog(t, f) <=> InLog(s, f) \/ e = f
  BY <1>1, <1>2 DEF InLog
<1>4. ASSUME InOrder(s), Direct(e) => ~InLog(s, "disconnect"), e = "disconnect" => InLog(s, "connect")
      PROVE  InOrder(t)
  <2> SUFFICES ASSUME NEW i \in DOMAIN t, t[i] = "disconnect"
               PROVE  /\ \E j \in 1 .. i - 1 : t[j] = "connect"
                      /\ \A j \in DOMAIN t : j > i => ~Direct(t[j])
    BY Zenon DEF InOrder
  <2>1. CASE i = Len(s) + 1
    <3>1. PICK j \in DOMAIN s : s[j] = "connect"
      BY Zenon, <2>1, <1>1, <1>4 DEF InLog
    <3>2. j \in 1 .. i - 1 /\ t[j] = "connect"
      BY <3>1, <2>1, <1>1, <1>2
    <3>3. \A k \in DOMAIN t : ~(k > i)
      BY <2>1, <1>2
    <3> QED
      BY Zenon, <3>2, <3>3
  <2>2. CASE i \in DOMAIN s
    <3>1. s[i] = "disconnect" /\ InLog(s, "disconnect")
      BY Zenon, <2>2, <1>1, <1>2 DEF InLog
    <3>2. ~Direct(e)
      BY Zenon, <3>1, <1>4
    <3>3. PICK j \in 1 .. i - 1 : s[j] = "connect"
      BY Zenon, <3>1, <2>2, <1>4 DEF InOrder
    <3>4. j \in 1 .. i - 1 /\ t[j] = "connect"
      BY <3>3, <2>2, <1>1, <1>2
    <3>5. ASSUME NEW k \in DOMAIN t, k > i PROVE ~Direct(t[k])
      <4>1. CASE k \in DOMAIN s
        BY Zenon, <4>1, <3>1, <3>5, <2>2, <1>1, <1>2, <1>4 DEF InOrder
      <4>2. CASE k = Len(s) + 1
        BY Zenon, <4>2, <3>2, <1>1
      <4> QED
        BY <4>1, <4>2, <1>2
    <3> QED
      BY Zenon, <3>4, <3>5
  <2> QED
    BY <2>1, <2>2, <1>2
<1> QED
  BY Zenon, <1>1, <1>3, <1>4 DEF t
-----------------------------------------------------------------------------
Channels == [Links -> [Links -> Seq(Msgs)]]

\* t asks and closes as s does.
SameWords(s, t) ==
    /\ Has(t, "connect") <=> Has(s, "connect")
    /\ Has(t, "disconnect") <=> Has(s, "disconnect")
    /\ One(s) => One(t)

\* What p has yet to process of the RPCs from a to b, with the first one of q taken.
Left(p, q, a, b) == IF a = q /\ b = p THEN Tail(chan[a][b]) ELSE chan[a][b]

\* callRpc appends to one channel.
LEMMA SentAt ==
    ASSUME PTyped, NEW p \in Links, NEW q \in Links, NEW m \in Msgs
    PROVE  /\ Send(p, q, m) \in Channels
           /\ Send(p, q, m)[p][q] = Append(chan[p][q], m)
           /\ \A a, b \in Links : a # p \/ b # q => Send(p, q, m)[a][b] = chan[a][b]
<1>1. chan \in Channels /\ Append(chan[p][q], m) \in Seq(Msgs)
  BY SentHas DEF PTyped, Channels
<1> QED
  BY Zenon, <1>1 DEF Send, Channels

\* A relay neither asks nor closes.
LEMMA RelayedWords ==
    ASSUME NEW c \in Channels, NEW p \in Links, NEW q \in Links,
           NEW m \in Msgs, m.rpc \notin {"connect", "disconnect"}
    PROVE  /\ Relayed(c, p, q, m) \in Channels
           /\ \A a, b \in Links : SameWords(c[a][b], Relayed(c, p, q, m)[a][b])
<1> DEFINE d == Relayed(c, p, q, m)
<1>1. \A r \in Links : c[p][r] \in Seq(Msgs) /\ Append(c[p][r], m) \in Seq(Msgs)
  BY SentHas DEF Channels
<1>2. d \in Channels
  BY Zenon, <1>1 DEF Relayed, Channels
<1>3. ASSUME NEW a \in Links, NEW b \in Links PROVE SameWords(c[a][b], d[a][b])
  <2>1. d[a][b] = c[a][b] \/ d[a][b] = Append(c[a][b], m)
    BY Zenon DEF Relayed, Channels
  <2>2. c[a][b] \in Seq(Msgs)
    BY Zenon DEF Channels
  <2>3. SameWords(c[a][b], c[a][b])
    BY Zenon DEF SameWords
  <2>4. SameWords(c[a][b], Append(c[a][b], m))
    BY Zenon, <2>2, SentHas DEF SameWords
  <2> QED
    BY Zenon, <2>1, <2>3, <2>4
<1> QED
  BY Zenon, <1>2, <1>3

\* Taking the first RPC of q, and what handlers send on it.
LEMMA TakenAt ==
    ASSUME PTyped, NEW p \in Links, NEW q \in Links, chan[q][p] # <<>>
    PROVE  /\ Taken(p, q) \in Channels
           /\ \A a, b \in Links : Taken(p, q)[a][b] = Left(p, q, a, b)
           /\ Head(chan[q][p]) \in Msgs
<1>1. chan \in Channels /\ Tail(chan[q][p]) \in Seq(Msgs) /\ Head(chan[q][p]) \in Msgs
  BY Zenon, TakenHas DEF PTyped, Channels
<1> QED
  BY Zenon, <1>1 DEF Taken, Left, Channels

\* Handlers send nothing that asks or closes.
LEMMA Processed ==
    ASSUME PTyped, NEW p \in Links, NEW q \in Links,
           OnConnect(p, q) \/ OnAccepted(p, q) \/ OnDisconnect(p, q) \/ OnRelay(p, q)
    PROVE  /\ chan[q][p] # <<>> /\ Head(chan[q][p]) \in Msgs
           /\ chan' \in Channels
           /\ \A a, b \in Links : SameWords(Left(p, q, a, b), chan'[a][b])
<1> DEFINE c == Taken(p, q)
<1>1. chan[q][p] # <<>>
  BY Zenon DEF OnConnect, OnAccepted, OnDisconnect, OnRelay, Handling
<1>2. c \in Channels /\ (\A a, b \in Links : c[a][b] = Left(p, q, a, b)) /\ Head(chan[q][p]) \in Msgs
  BY Zenon, <1>1, TakenAt
<1>3. \A s : SameWords(s, s)
  BY Zenon DEF SameWords
<1>4. CASE chan' = c
  BY <1>1, <1>2, <1>3, <1>4
<1>5. RpcAbout("disconnected", q) \in Msgs /\ RpcAbout("newConnection", q) \in Msgs /\ Rpc("accepted") \in Msgs
  BY Zenon DEF Msgs, RpcAbout, Rpc
<1>6. CASE chan' = Relayed(c, p, q, RpcAbout("disconnected", q))
  <2>1. \A a, b \in Links : SameWords(c[a][b], chan'[a][b])
    BY Zenon, <1>2, <1>5, <1>6, RelayedWords DEF RpcAbout
  <2> QED
    BY Zenon, <1>1, <1>2, <1>5, <1>6, <2>1, RelayedWords DEF RpcAbout
<1>7. CASE chan' = Relayed([c EXCEPT ![p][q] = Append(@, Rpc("accepted"))], p, q, RpcAbout("newConnection", q))
  <2> DEFINE d == [c EXCEPT ![p][q] = Append(@, Rpc("accepted"))]
  <2>1. c[p][q] \in Seq(Msgs) /\ Append(c[p][q], Rpc("accepted")) \in Seq(Msgs)
    BY <1>2, <1>5, SentHas DEF Channels
  <2>2. d \in Channels
    BY ZenonT(30), <1>2, <2>1 DEF Channels
  <2>3. SameWords(c[p][q], Append(c[p][q], Rpc("accepted")))
    BY SMTT(30), <2>1, <1>5, SentHas DEF SameWords, Rpc
  <2>4. \A a, b \in Links : SameWords(c[a][b], d[a][b])
    BY Zenon, <2>3, <1>2, <1>3 DEF Channels
  <2> HIDE DEF d
  <2>5. chan' \in Channels /\ \A a, b \in Links : SameWords(d[a][b], chan'[a][b])
    BY Zenon, <1>5, <1>7, <2>2, RelayedWords DEF RpcAbout, d
  <2>6. \A a, b \in Links : SameWords(c[a][b], chan'[a][b])
    BY ZenonT(30), <2>4, <2>5 DEF SameWords
  <2> QED
    BY Zenon, <1>1, <1>2, <2>5, <2>6
<1> QED
  BY Zenon, <1>4, <1>6, <1>7 DEF OnConnect, OnAccepted, OnDisconnect, OnRelay

\* The first RPC is taken: what is left of its channel.
LEMMA ProcessedHas ==
    ASSUME PTyped, NEW p \in Links, NEW q \in Links,
           OnConnect(p, q) \/ OnAccepted(p, q) \/ OnDisconnect(p, q) \/ OnRelay(p, q)
    PROVE  /\ Has(chan[q][p], Head(chan[q][p]).rpc)
           /\ \A a, b \in Links :
                /\ One(chan[a][b]) => One(chan'[a][b])
                /\ Has(chan'[a][b], "connect") => Has(chan[a][b], "connect")
                /\ Has(chan'[a][b], "disconnect") => Has(chan[a][b], "disconnect")
                /\ a # q \/ b # p \/ Head(chan[q][p]).rpc # "connect" =>
                     (Has(chan[a][b], "connect") => Has(chan'[a][b], "connect"))
                /\ a # q \/ b # p \/ Head(chan[q][p]).rpc # "disconnect" =>
                     (Has(chan[a][b], "disconnect") => Has(chan'[a][b], "disconnect"))
           /\ One(chan[q][p]) /\ Head(chan[q][p]).rpc = "connect" => ~Has(chan'[q][p], "connect")
<1>1. chan[q][p] # <<>> /\ \A a, b \in Links : SameWords(Left(p, q, a, b), chan'[a][b])
  BY Zenon, Processed
<1>2. chan[q][p] \in Seq(Msgs)
  BY Zenon DEF PTyped
<1>3. ASSUME NEW a \in Links, NEW b \in Links, a # q \/ b # p PROVE SameWords(chan[a][b], chan'[a][b])
  BY Zenon, <1>1, <1>3 DEF Left
<1>4. SameWords(Tail(chan[q][p]), chan'[q][p])
  <2>1. SameWords(Left(p, q, q, p), chan'[q][p])
    BY Zenon, <1>1
  <2> QED
    BY Zenon, <2>1 DEF Left
<1>5. Has(chan[q][p], Head(chan[q][p]).rpc)
  BY Zenon, <1>1, <1>2, TakenHas
<1>6. /\ One(chan[q][p]) => One(chan'[q][p])
      /\ Has(chan'[q][p], "connect") => Has(chan[q][p], "connect")
      /\ Has(chan'[q][p], "disconnect") => Has(chan[q][p], "disconnect")
      /\ Head(chan[q][p]).rpc # "connect" => (Has(chan[q][p], "connect") => Has(chan'[q][p], "connect"))
      /\ Head(chan[q][p]).rpc # "disconnect" => (Has(chan[q][p], "disconnect") => Has(chan'[q][p], "disconnect"))
      /\ One(chan[q][p]) /\ Head(chan[q][p]).rpc = "connect" => ~Has(chan'[q][p], "connect")
  BY Zenon, <1>1, <1>2, <1>4, TakenHas DEF SameWords
<1> QED
  BY <1>3, <1>5, <1>6 DEF SameWords
-----------------------------------------------------------------------------
IsUp(s) == s \in LinkStates /\ s.state = "Connected" /\ s.accepted /\ s.received

\* linkStateConnect: the request finds a LinkState that asked itself, or one that is closed.
LEMMA ConnectEffect ==
    ASSUME PInv, NEW p \in Links, NEW q \in Links, OnConnect(p, q)
    PROVE  /\ Head(chan[q][p]).rpc = "connect"
           /\ ~ls[p][q].received /\ ~Fresh(ls[p][q]) /\ ~Fresh(ls[q][p])
           /\ \/ ls[p][q].state = "Disconnected" /\ ls' = ls /\ log' = log
              \/ /\ ls[p][q].state = "Connecting"
                 /\ IsUp(ls'[p][q]) /\ ls' \in [Links -> [Links -> LinkStates]]
                 /\ \A a, b \in Links : a # p \/ b # q => ls'[a][b] = ls[a][b]
                 /\ log' = [log EXCEPT ![p][q] = Append(@, "connect")]
<1> DEFINE s == [ls[p][q] EXCEPT !.state = IF @ = "Absent" THEN "Unknown" ELSE @]
<1>1. Head(chan[q][p]).rpc = "connect" /\ link[p][q] \in {"bound", "left"}
  BY Zenon DEF OnConnect, Handling
<1>2. Has(chan[q][p], "connect")
  BY SMTT(30), <1>1, ProcessedHas DEF PInv
<1>3. ~ls[p][q].received /\ ~Fresh(ls[p][q]) /\ ~Fresh(ls[q][p])
  BY Zenon, <1>1, <1>2 DEF PInv, Asks
<1>4. ls[p][q] \in LinkStates /\ ls \in [Links -> [Links -> LinkStates]]
  BY Zenon DEF PInv, PTyped
<1>5. s = ls[p][q]
  BY Zenon, <1>3, <1>4 DEF Fresh, LinkStates
<1>6. ls[p][q].state # "Connected"
  BY Zenon, <1>3 DEF PInv, Hears, Connected
<1>7. CASE ls[p][q].state = "Disconnected"
  <2>1. ~CanReceiveConnect(s)
    BY Zenon, <1>5, <1>7 DEF CanReceiveConnect
  <2>2. ls' = [ls EXCEPT ![p][q] = [s EXCEPT !.received = @ \/ CanReceiveConnect(s)]] /\ log' = log
    BY Zenon, <2>1 DEF OnConnect
  <2>3. [s EXCEPT !.received = @ \/ CanReceiveConnect(s)] = ls[p][q]
    BY Zenon, <2>1, <1>4, <1>5 DEF LinkStates
  <2> QED
    BY <1>1, <1>3, <1>4, <1>7, <2>2, <2>3
<1>8. CASE ls[p][q].state = "Connecting"
  <2>1. CanReceiveConnect(s) /\ MayAccept(s)
    BY Zenon, <1>3, <1>5, <1>8 DEF CanReceiveConnect, MayAccept
  <2>2. IsUp(Accepted([s EXCEPT !.received = TRUE]))
    <3> DEFINE t == [s EXCEPT !.received = TRUE]
    <3>1. t \in LinkStates /\ t.received
      BY Zenon, <1>4, <1>5 DEF LinkStates
    <3> HIDE DEF t
    <3>2. IsUp([t EXCEPT !.state = "Connected", !.accepted = TRUE])
      BY Zenon, <3>1 DEF IsUp, LinkStates
    <3> QED
      BY Zenon, <3>2 DEF Accepted, t
  <2>3. ls' = [ls EXCEPT ![p][q] = Accepted([s EXCEPT !.received = TRUE])]
    BY Zenon, <2>1 DEF OnConnect
  <2>4. ls'[p][q] = Accepted([s EXCEPT !.received = TRUE]) /\ \A a, b \in Links : a # p \/ b # q => ls'[a][b] = ls[a][b]
    BY Zenon, <2>3, <1>4
  <2>5. ls' \in [Links -> [Links -> LinkStates]]
    BY <2>2, <2>3, <1>4 DEF IsUp
  <2>6. log' = [log EXCEPT ![p][q] = Append(@, "connect")]
    BY Zenon, <2>1 DEF OnConnect
  <2> QED
    BY Zenon, <1>1, <1>3, <1>8, <2>2, <2>4, <2>5, <2>6
<1> QED
  BY SMTT(30), <1>3, <1>4, <1>6, <1>7, <1>8 DEF Fresh, LinkStates

\* linkStateConnect keeps the invariant.
LEMMA OnConnectStep ==
    ASSUME PInv, NEW p \in Links, NEW q \in Links, OnConnect(p, q)
    PROVE  PInv'
<1>1. /\ Head(chan[q][p]).rpc = "connect"
      /\ ~ls[p][q].received /\ ~Fresh(ls[p][q]) /\ ~Fresh(ls[q][p])
      /\ link' = link /\ quits' = quits /\ chan' \in Channels
      /\ link \in [Links -> [Links -> {"none", "orphan", "bound", "left"}]]
      /\ ls \in [Links -> [Links -> LinkStates]]
      /\ log \in [Links -> [Links -> Seq(Events)]]
      /\ quits \in Nat
      /\ One(chan[q][p]) /\ PTyped
  BY Zenon, ConnectEffect, Processed DEF PInv, PTyped, OnConnect, Asks
<1>2. /\ \A a, b \in Links :
           /\ One(chan[a][b]) => One(chan'[a][b])
           /\ Has(chan'[a][b], "connect") => Has(chan[a][b], "connect")
           /\ Has(chan'[a][b], "disconnect") <=> Has(chan[a][b], "disconnect")
           /\ a # q \/ b # p => (Has(chan'[a][b], "connect") <=> Has(chan[a][b], "connect"))
      /\ ~Has(chan'[q][p], "connect") /\ Has(chan[q][p], "connect")
  <2>1. /\ Has(chan[q][p], Head(chan[q][p]).rpc)
        /\ \A a, b \in Links :
             /\ One(chan[a][b]) => One(chan'[a][b])
             /\ Has(chan'[a][b], "connect") => Has(chan[a][b], "connect")
             /\ Has(chan'[a][b], "disconnect") => Has(chan[a][b], "disconnect")
             /\ a # q \/ b # p \/ Head(chan[q][p]).rpc # "connect" =>
                  (Has(chan[a][b], "connect") => Has(chan'[a][b], "connect"))
             /\ a # q \/ b # p \/ Head(chan[q][p]).rpc # "disconnect" =>
                  (Has(chan[a][b], "disconnect") => Has(chan'[a][b], "disconnect"))
        /\ One(chan[q][p]) /\ Head(chan[q][p]).rpc = "connect" => ~Has(chan'[q][p], "connect")
    BY Zenon, <1>1, ProcessedHas
  <2> QED
    BY Zenon, <1>1, <2>1
<1>3. CASE ls[p][q].state = "Disconnected" /\ ls' = ls /\ log' = log
  <2>1. PTyped'
    BY SMTT(30), <1>1, <1>3 DEF PTyped, Channels
  <2>2. Asks'
    BY Zenon, <1>1, <1>2, <1>3 DEF PInv, Asks
  <2>3. Hears'
    BY SMTT(30), <1>3 DEF PInv, Hears, Connected
  <2>4. Closes'
    BY SMTT(30), <1>2, <1>3 DEF PInv, Closes
  <2>5. Agrees'
    BY Zenon, <1>1, <1>3 DEF PInv, Agrees
  <2> QED
    BY Zenon, <2>1, <2>2, <2>3, <2>4, <2>5 DEF PInv
<1>4. CASE /\ ls[p][q].state = "Connecting"
           /\ IsUp(ls'[p][q]) /\ ls' \in [Links -> [Links -> LinkStates]]
           /\ \A a, b \in Links : a # p \/ b # q => ls'[a][b] = ls[a][b]
           /\ log' = [log EXCEPT ![p][q] = Append(@, "connect")]
  <2>1. IsUp(ls'[p][q]) /\ \A a, b \in Links : a # p \/ b # q => ls'[a][b] = ls[a][b]
    BY Zenon, <1>4
  <2>2. log[p][q] \in Seq(Events) /\ "connect" \in Events
    BY Zenon, <1>1 DEF Events
  <2>3. /\ log'[p][q] = Append(log[p][q], "connect")
        /\ \A a, b \in Links : a # p \/ b # q => log'[a][b] = log[a][b]
    BY Zenon, <1>1, <1>4
  <2>4. PTyped'
    <3>1. Append(log[p][q], "connect") \in Seq(Events)
      BY <2>2
    <3>2. log' \in [Links -> [Links -> Seq(Events)]]
      BY Zenon, <1>1, <1>4, <3>1
    <3> QED
      BY Zenon, <1>1, <1>4, <3>2 DEF PTyped, Channels
  <2>5. Asks'
    <3> SUFFICES ASSUME NEW a \in Links, NEW b \in Links
                 PROVE  (/\ One(chan[a][b])
                         /\ Has(chan[a][b], "connect") => ~ls[b][a].received
                         /\ Fresh(ls[a][b]) => ~Has(chan[a][b], "connect") /\ ~ls[b][a].received
                         /\ link[a][b] \in {"bound", "left"} => ~Fresh(ls[a][b]))'
      BY Zenon DEF Asks
    <3>1. /\ One(chan'[a][b])
          /\ Has(chan[a][b], "connect") => ~ls[b][a].received
          /\ Fresh(ls[a][b]) => ~Has(chan[a][b], "connect") /\ ~ls[b][a].received
          /\ link[a][b] \in {"bound", "left"} => ~Fresh(ls[a][b])
      BY Zenon, <1>2 DEF PInv, Asks
    <3>2. Fresh(ls'[a][b]) => Fresh(ls[a][b])
      BY <2>1 DEF Fresh, IsUp
    <3>3. CASE b # p \/ a # q
      <4>1. ls'[b][a] = ls[b][a]
        BY ZenonT(30), <3>3, <2>1
      <4> QED
        BY Zenon, <3>1, <3>2, <1>1, <1>2, <4>1 DEF Fresh
    <3>4. CASE b = p /\ a = q
      <4>1. ~Fresh(ls'[q][p])
        <5>1. CASE q = p
          BY Zenon, <5>1, <2>1 DEF Fresh, IsUp
        <5>2. CASE q # p
          BY Zenon, <5>2, <1>1, <2>1
        <5> QED
          BY Zenon, <5>1, <5>2
      <4> QED
        BY <3>1, <3>2, <3>4, <4>1, <1>1, <1>2 DEF Fresh
    <3> QED
      BY Zenon, <3>3, <3>4
  <2>6. Hears'
    <3> SUFFICES ASSUME NEW a \in Links, NEW b \in Links
                 PROVE  (/\ ls[a][b].accepted => ls[a][b].received /\ ls[a][b].state \in {"Connected", "Disconnected"}
                         /\ Connected(a, b) => ls[a][b].accepted /\ InLog(log[a][b], "connect")
                         /\ InLog(log[a][b], "disconnect") => ls[a][b].state = "Disconnected"
                         /\ InOrder(log[a][b]))'
      BY ZenonT(30) DEF Hears
    <3>1. CASE a # p \/ b # q
      BY <3>1, <2>1, <2>3 DEF PInv, Hears, Connected
    <3>2. CASE a = p /\ b = q
      <4>1. ~InLog(log[p][q], "disconnect") /\ InOrder(log[p][q])
        BY ZenonT(30), <1>4 DEF PInv, Hears
      <4>2. InLog(log'[p][q], "connect") /\ ~InLog(log'[p][q], "disconnect") /\ InOrder(log'[p][q])
        BY SMTT(30), <4>1, <2>2, <2>3, Logged
      <4> QED
        BY Zenon, <3>2, <4>2, <2>1 DEF IsUp
    <3> QED
      BY Zenon, <3>1, <3>2
  <2>7. Closes'
    <3> DEFINE Shut(r) == r.state = "Disconnected" /\ r.accepted
    <3>1. Closes /\ ls[p][q].state # "Disconnected" /\ ls'[p][q].state # "Disconnected"
      BY <1>4 DEF PInv, IsUp
    <3>2. ASSUME NEW a \in Links, NEW b \in Links
          PROVE  /\ Has(chan'[a][b], "disconnect") => Shut(ls'[a][b])
                 /\ Shut(ls'[a][b]) => Has(chan'[a][b], "disconnect") \/ ls'[b][a].state = "Disconnected"
      <4>1. /\ Has(chan[a][b], "disconnect") => Shut(ls[a][b])
            /\ Shut(ls[a][b]) => Has(chan[a][b], "disconnect") \/ ls[b][a].state = "Disconnected"
            /\ Has(chan'[a][b], "disconnect") <=> Has(chan[a][b], "disconnect")
        BY Zenon, <1>2, <3>1 DEF Closes
      <4>2. (ls'[a][b] = ls[a][b] \/ (a = p /\ b = q)) /\ (ls'[b][a] = ls[b][a] \/ (b = p /\ a = q))
        BY ZenonT(30), <2>1
      <4> QED
        BY Zenon, <3>1, <4>1, <4>2
    <3> QED
      BY Zenon, <3>2 DEF Closes
  <2>8. Agrees'
    <3> SUFFICES ASSUME quits' = 0, NEW a \in Links, NEW b \in Links
                 PROVE  (/\ ls[a][b].state # "Disconnected" /\ ~Has(chan[a][b], "disconnect")
                         /\ ls[a][b].received => Connected(a, b)
                         /\ ~Fresh(ls[a][b]) => Has(chan[a][b], "connect") \/ ls[b][a].received)'
      BY Zenon DEF Agrees
    <3>1. /\ ls[a][b].state # "Disconnected" /\ ~Has(chan[a][b], "disconnect")
          /\ ls[a][b].received => Connected(a, b)
          /\ ~Fresh(ls[a][b]) => Has(chan[a][b], "connect") \/ ls[b][a].received
      BY Zenon, <1>1 DEF PInv, Agrees
    <3>2. IsUp(ls'[a][b]) \/ ls'[a][b] = ls[a][b]
      BY ZenonT(30), <2>1
    <3>3. ls[b][a].received => ls'[b][a].received
      BY SMTT(30), <2>1 DEF IsUp
    <3>4. ~Fresh(ls[a][b]) => Has(chan'[a][b], "connect") \/ ls'[b][a].received
      BY <3>1, <3>3, <1>2, <2>1 DEF IsUp
    <3>5. ~Fresh(ls'[a][b]) => ~Fresh(ls[a][b])
      BY Zenon, <2>1, <1>1
    <3> QED
      BY SMTT(30), <3>1, <3>2, <3>4, <3>5, <1>2 DEF IsUp, Connected
  <2> QED
    BY <2>4, <2>5, <2>6, <2>7, <2>8 DEF PInv
<1> QED
  BY <1>3, <1>4, ConnectEffect

\* linkStateDisconnect of the link's own peer keeps the invariant: the link was asked for, so it is
\* closed here too.
LEMMA OnDisconnectStep ==
    ASSUME PInv, NEW p \in Links, NEW q \in Links, OnDisconnect(p, q)
    PROVE  PInv'
<1>1. /\ Head(chan[q][p]).rpc = "disconnect"
      /\ quits' = quits /\ chan' \in Channels
      /\ link \in [Links -> [Links -> {"none", "orphan", "bound", "left"}]]
      /\ ls \in [Links -> [Links -> LinkStates]]
      /\ log \in [Links -> [Links -> Seq(Events)]]
      /\ quits \in Nat /\ PTyped
  BY Zenon, Processed DEF PInv, PTyped, OnDisconnect, Handling
<1>2. /\ \A a, b \in Links :
           /\ One(chan[a][b]) => One(chan'[a][b])
           /\ Has(chan'[a][b], "connect") <=> Has(chan[a][b], "connect")
           /\ Has(chan'[a][b], "disconnect") => Has(chan[a][b], "disconnect")
           /\ a # q \/ b # p => (Has(chan'[a][b], "disconnect") <=> Has(chan[a][b], "disconnect"))
      /\ Has(chan[q][p], "disconnect")
  <2>1. /\ Has(chan[q][p], Head(chan[q][p]).rpc)
        /\ \A a, b \in Links :
             /\ One(chan[a][b]) => One(chan'[a][b])
             /\ Has(chan'[a][b], "connect") => Has(chan[a][b], "connect")
             /\ Has(chan'[a][b], "disconnect") => Has(chan[a][b], "disconnect")
             /\ a # q \/ b # p \/ Head(chan[q][p]).rpc # "connect" =>
                  (Has(chan[a][b], "connect") => Has(chan'[a][b], "connect"))
             /\ a # q \/ b # p \/ Head(chan[q][p]).rpc # "disconnect" =>
                  (Has(chan[a][b], "disconnect") => Has(chan'[a][b], "disconnect"))
        /\ One(chan[q][p]) /\ Head(chan[q][p]).rpc = "connect" => ~Has(chan'[q][p], "connect")
    BY Zenon, <1>1, ProcessedHas
  <2> QED
    BY Zenon, <1>1, <2>1
<1>3. ls[q][p].state = "Disconnected" /\ ls[q][p].accepted /\ ls[q][p].received /\ quits # 0
  BY Zenon, <1>2 DEF PInv, Closes, Hears, Agrees
<1>4. ~Fresh(ls[p][q])
  BY Zenon, <1>3 DEF PInv, Asks
<1>5. /\ ls' = [ls EXCEPT ![p][q].state = "Disconnected"]
      /\ link' = [link EXCEPT ![p][q] = "left"]
      /\ \/ Connected(p, q) /\ log' = [log EXCEPT ![p][q] = Append(@, "disconnect")]
         \/ ~Connected(p, q) /\ log' = log
  BY Zenon, <1>4 DEF OnDisconnect, Fresh, WasConnected, Connected
<1>6. /\ ls'[p][q] = [ls[p][q] EXCEPT !.state = "Disconnected"]
      /\ ls[p][q] \in LinkStates
      /\ \A a, b \in Links : a # p \/ b # q => ls'[a][b] = ls[a][b]
  BY Zenon, <1>1, <1>5
<1>7. /\ ls'[p][q].state = "Disconnected" /\ ls'[p][q].accepted = ls[p][q].accepted
      /\ ls'[p][q].received = ls[p][q].received
      /\ ls'[p][q] \in LinkStates
  BY Zenon, <1>6 DEF LinkStates
<1>8. log[p][q] \in Seq(Events) /\ "disconnect" \in Events
  BY <1>1 DEF Events
<1>9. PTyped'
  <2>1. Append(log[p][q], "disconnect") \in Seq(Events)
    BY <1>8
  <2>2. log' \in [Links -> [Links -> Seq(Events)]]
    <3>1. CASE log' = log
      BY Zenon, <3>1, <1>1
    <3>2. CASE log' = [log EXCEPT ![p][q] = Append(@, "disconnect")]
      BY <3>2, <1>1, <2>1
    <3> QED
      BY Zenon, <3>1, <3>2, <1>5
  <2>3. ls' \in [Links -> [Links -> LinkStates]]
    BY <1>1, <1>5, <1>6, <1>7
  <2>4. link' \in [Links -> [Links -> {"none", "orphan", "bound", "left"}]]
    BY ZenonT(30), <1>1, <1>5
  <2> QED
    BY Zenon, <1>1, <2>2, <2>3, <2>4 DEF PTyped, Channels
<1>10. Asks'
  <2>1. \A a, b \in Links : a # p \/ b # q => link'[a][b] = link[a][b]
    BY Zenon, <1>1, <1>5
  <2> SUFFICES ASSUME NEW a \in Links, NEW b \in Links
               PROVE  (/\ One(chan[a][b])
                       /\ Has(chan[a][b], "connect") => ~ls[b][a].received
                       /\ Fresh(ls[a][b]) => ~Has(chan[a][b], "connect") /\ ~ls[b][a].received
                       /\ link[a][b] \in {"bound", "left"} => ~Fresh(ls[a][b]))'
    BY SMTT(30) DEF Asks
  <2>2. /\ One(chan'[a][b])
        /\ Has(chan[a][b], "connect") => ~ls[b][a].received
        /\ Fresh(ls[a][b]) => ~Has(chan[a][b], "connect") /\ ~ls[b][a].received
        /\ link[a][b] \in {"bound", "left"} => ~Fresh(ls[a][b])
    BY <1>2 DEF PInv, Asks
  <2>3. ls'[b][a].received = ls[b][a].received
    BY ZenonT(30), <1>6, <1>7
  <2>4. Fresh(ls'[a][b]) => Fresh(ls[a][b]) /\ (a # p \/ b # q)
    BY Zenon, <1>6, <1>7 DEF Fresh
  <2> QED
    BY <1>2, <2>1, <2>2, <2>3, <2>4
<1>11. Hears'
  <2> SUFFICES ASSUME NEW a \in Links, NEW b \in Links
               PROVE  (/\ ls[a][b].accepted => ls[a][b].received /\ ls[a][b].state \in {"Connected", "Disconnected"}
                       /\ Connected(a, b) => ls[a][b].accepted /\ InLog(log[a][b], "connect")
                       /\ InLog(log[a][b], "disconnect") => ls[a][b].state = "Disconnected"
                       /\ InOrder(log[a][b]))'
    BY DEF Hears
  <2>1. CASE a # p \/ b # q
    <3>1. log'[a][b] = log[a][b]
      <4>1. CASE log' = log
        BY Zenon, <4>1
      <4>2. CASE log' = [log EXCEPT ![p][q] = Append(@, "disconnect")]
        BY Zenon, <4>2, <2>1, <1>1
      <4> QED
        BY Zenon, <4>1, <4>2, <1>5
    <3> QED
      BY <2>1, <3>1, <1>6 DEF PInv, Hears, Connected
  <2>2. CASE a = p /\ b = q
    <3>1. InOrder(log'[p][q])
      <4>1. CASE log' = log
        BY Zenon, <4>1 DEF PInv, Hears
      <4>2. CASE Connected(p, q) /\ log' = [log EXCEPT ![p][q] = Append(@, "disconnect")]
        <5>1. ~InLog(log[p][q], "disconnect") /\ InOrder(log[p][q]) /\ InLog(log[p][q], "connect")
          BY Zenon, <4>2 DEF PInv, Hears, Connected
        <5>2. log'[p][q] = Append(log[p][q], "disconnect")
          BY ZenonT(30), <4>2, <1>1
        <5> QED
          BY <5>1, <5>2, <1>8, Logged
      <4> QED
        BY <4>1, <4>2, <1>5
    <3> QED
      BY Zenon, <2>2, <3>1, <1>7 DEF PInv, Hears, Connected
  <2> QED
    BY <2>1, <2>2
<1>12. Closes'
  <2> SUFFICES ASSUME NEW a \in Links, NEW b \in Links
               PROVE  (/\ Has(chan[a][b], "disconnect") => ls[a][b].state = "Disconnected" /\ ls[a][b].accepted
                       /\ ls[a][b].state = "Disconnected" /\ ls[a][b].accepted =>
                            Has(chan[a][b], "disconnect") \/ ls[b][a].state = "Disconnected")'
    BY Zenon DEF Closes
  <2>1. /\ Has(chan[a][b], "disconnect") => ls[a][b].state = "Disconnected" /\ ls[a][b].accepted
        /\ ls[a][b].state = "Disconnected" /\ ls[a][b].accepted =>
             Has(chan[a][b], "disconnect") \/ ls[b][a].state = "Disconnected"
    BY Zenon DEF PInv, Closes
  <2>2. /\ ls'[a][b].accepted = ls[a][b].accepted
        /\ ls[a][b].state = "Disconnected" => ls'[a][b].state = "Disconnected"
        /\ ls[b][a].state = "Disconnected" => ls'[b][a].state = "Disconnected"
    BY ZenonT(40), <1>6, <1>7
  <2>3. CASE a = p /\ b = q
    BY SMTT(30), <2>1, <2>2, <2>3, <1>2, <1>3
  <2>4. CASE a = q /\ b = p
    BY <2>1, <2>2, <2>4, <1>2, <1>3, <1>7
  <2>5. CASE (a # p \/ b # q) /\ (a # q \/ b # p)
    BY <2>1, <2>2, <2>5, <1>2, <1>6
  <2> QED
    BY <2>3, <2>4, <2>5
<1>13. Agrees'
  BY Zenon, <1>1, <1>3 DEF Agrees
<1> QED
  BY <1>9, <1>10, <1>11, <1>12, <1>13 DEF PInv

\* Steps that touch no LinkState, channel or log keep the invariant.
LEMMA Untouched ==
    ASSUME PInv, UNCHANGED <<link, ls, chan, log, quits>>
    PROVE  PInv'
<1>1. PTyped'
  BY Zenon DEF PInv, PTyped
<1>2. Asks'
  BY ZenonT(30) DEF PInv, Asks
<1>3. Hears'
  BY DEF PInv, Hears, Connected
<1>4. Closes'
  BY Zenon DEF PInv, Closes
<1>5. Agrees'
  BY Zenon DEF PInv, Agrees, Connected
<1> QED
  BY Zenon, <1>1, <1>2, <1>3, <1>4, <1>5 DEF PInv

\* masterSessionConnectTo keeps the invariant: it asks only for a LinkState that asked nothing yet.
LEMMA ConnectToStep ==
    ASSUME PInv, NEW p \in Links, MasterConnectTo(p)
    PROVE  PInv'
<1>1. PICK q : link' = GetOrAdd(p, q) /\ Connect(p, q) /\ log' = log /\ quits' = quits
  BY Zenon DEF MasterConnectTo
<1>2. /\ link \in [Links -> [Links -> {"none", "orphan", "bound", "left"}]]
      /\ ls \in [Links -> [Links -> LinkStates]]
      /\ chan \in Channels /\ PTyped
  BY Zenon DEF PInv, PTyped, Channels
<1>3. link' \in [Links -> [Links -> {"none", "orphan", "bound", "left"}]]
  BY Zenon, <1>1, <1>2 DEF GetOrAdd
<1>4. CASE q \notin Links
  <2>1. ls' = ls /\ chan' = chan /\ link' = link
    BY <1>1, <1>2, <1>4 DEF Connect, Send, Channels, GetOrAdd
  <2> QED
    BY <1>1, <2>1, Untouched
<1>5. CASE q \in Links /\ ~Fresh(ls[p][q])
  <2>1. ls' = ls /\ chan' = chan
    BY Zenon, <1>1, <1>5 DEF Connect
  <2>2. \A a, b \in Links : a # p \/ b # q => link'[a][b] = link[a][b]
    BY Zenon, <1>1, <1>2, <1>5 DEF GetOrAdd
  <2>3. PTyped'
    BY Zenon, <1>1, <1>3, <2>1 DEF PInv, PTyped
  <2>4. Asks'
    BY <1>5, <2>1, <2>2 DEF PInv, Asks
  <2>5. Hears' /\ Closes' /\ Agrees'
    BY ZenonT(40), <1>1, <2>1 DEF PInv, Hears, Closes, Agrees, Connected
  <2> QED
    BY Zenon, <2>3, <2>4, <2>5 DEF PInv
<1>6. CASE q \in Links /\ Fresh(ls[p][q])
  <2>1. Rpc("connect") \in Msgs /\ Rpc("connect").rpc = "connect" /\ chan[p][q] \in Seq(Msgs)
    BY Zenon, <1>2, <1>6 DEF Rpc, Msgs, Channels
  <2>2. ls' = [ls EXCEPT ![p][q].state = "Connecting"] /\ chan' = Send(p, q, Rpc("connect"))
    BY Zenon, <1>1, <1>6 DEF Connect
  <2>3. /\ chan' \in Channels /\ chan'[p][q] = Append(chan[p][q], Rpc("connect"))
        /\ \A a, b \in Links : a # p \/ b # q => chan'[a][b] = chan[a][b]
    BY <1>2, <1>6, <2>1, <2>2, SentAt
  <2>4. /\ ls'[p][q] = [ls[p][q] EXCEPT !.state = "Connecting"]
        /\ ls[p][q] \in LinkStates
        /\ \A a, b \in Links : a # p \/ b # q => ls'[a][b] = ls[a][b]
    BY Zenon, <1>2, <1>6, <2>2
  <2>5. /\ ls'[p][q].state = "Connecting" /\ ls'[p][q].accepted = ls[p][q].accepted
        /\ ls'[p][q].received = ls[p][q].received
        /\ ls'[p][q] \in LinkStates
    BY Zenon, <2>4 DEF LinkStates
  <2>6. ~Has(chan[p][q], "connect") /\ ~ls[q][p].received /\ One(chan[p][q])
    BY Zenon, <1>6 DEF PInv, Asks
  <2>7. /\ Has(chan'[p][q], "connect") /\ One(chan'[p][q])
        /\ Has(chan'[p][q], "disconnect") <=> Has(chan[p][q], "disconnect")
    BY SMTT(30), <2>1, <2>3, <2>6, SentHas
  <2>8. ~Connected(p, q) /\ ls[p][q].state # "Disconnected"
    BY Zenon, <1>6 DEF Fresh, Connected
  <2>9. PTyped'
    <3>1. ls' \in [Links -> [Links -> LinkStates]]
      BY <1>2, <1>6, <2>2, <2>4, <2>5
    <3> QED
      BY Zenon, <1>1, <1>3, <2>3, <3>1 DEF PInv, PTyped, Channels
  <2>10. Asks'
    <3> SUFFICES ASSUME NEW a \in Links, NEW b \in Links
                 PROVE  (/\ One(chan[a][b])
                         /\ Has(chan[a][b], "connect") => ~ls[b][a].received
                         /\ Fresh(ls[a][b]) => ~Has(chan[a][b], "connect") /\ ~ls[b][a].received
                         /\ link[a][b] \in {"bound", "left"} => ~Fresh(ls[a][b]))'
      BY Zenon DEF Asks
    <3>1. ls'[b][a].received = ls[b][a].received
      BY Zenon, <2>4, <2>5
    <3>2. CASE a = p /\ b = q
      BY SMTT(30), <3>1, <3>2, <2>5, <2>6, <2>7 DEF Fresh
    <3>3. CASE a # p \/ b # q
      <4>1. link'[a][b] = link[a][b]
        BY <3>3, <1>1, <1>2, <1>6 DEF GetOrAdd
      <4> QED
        BY <3>1, <3>3, <4>1, <2>3, <2>4 DEF PInv, Asks
    <3> QED
      BY Zenon, <3>2, <3>3
  <2>11. Hears'
    <3> SUFFICES ASSUME NEW a \in Links, NEW b \in Links
                 PROVE  (/\ ls[a][b].accepted => ls[a][b].received /\ ls[a][b].state \in {"Connected", "Disconnected"}
                         /\ Connected(a, b) => ls[a][b].accepted /\ InLog(log[a][b], "connect")
                         /\ InLog(log[a][b], "disconnect") => ls[a][b].state = "Disconnected"
                         /\ InOrder(log[a][b]))'
      BY Zenon DEF Hears
    <3>1. CASE a # p \/ b # q
      BY <3>1, <1>1, <2>4 DEF PInv, Hears, Connected
    <3>2. CASE a = p /\ b = q
      <4>1. InOrder(log[p][q]) /\ ~InLog(log[p][q], "disconnect") /\ ~ls[p][q].accepted
        BY Zenon, <1>6, <2>8 DEF PInv, Hears, Fresh
      <4> QED
        BY Zenon, <3>2, <4>1, <1>1, <2>5 DEF Connected
    <3> QED
      BY Zenon, <3>1, <3>2
  <2>12. ~Has(chan[p][q], "disconnect")
    BY Zenon, <1>6, <2>8 DEF PInv, Closes
  <2>13. Closes'
    <3> SUFFICES ASSUME NEW a \in Links, NEW b \in Links
                 PROVE  (/\ Has(chan[a][b], "disconnect") => ls[a][b].state = "Disconnected" /\ ls[a][b].accepted
                         /\ ls[a][b].state = "Disconnected" /\ ls[a][b].accepted =>
                              Has(chan[a][b], "disconnect") \/ ls[b][a].state = "Disconnected")'
      BY Zenon DEF Closes
    <3>1. /\ Has(chan[a][b], "disconnect") => ls[a][b].state = "Disconnected" /\ ls[a][b].accepted
          /\ ls[a][b].state = "Disconnected" /\ ls[a][b].accepted =>
               Has(chan[a][b], "disconnect") \/ ls[b][a].state = "Disconnected"
      BY Zenon DEF PInv, Closes
    <3>2. ls[b][a].state = "Disconnected" => ls'[b][a].state = "Disconnected"
      BY <2>4, <2>8
    <3>3. CASE a # p \/ b # q
      BY <3>1, <3>2, <3>3, <2>3, <2>4
    <3>4. CASE a = p /\ b = q
      BY Zenon, <3>4, <2>5, <2>7, <2>12
    <3> QED
      BY Zenon, <3>3, <3>4
  <2>14. Agrees'
    <3> SUFFICES ASSUME quits' = 0, NEW a \in Links, NEW b \in Links
                 PROVE  (/\ ls[a][b].state # "Disconnected" /\ ~Has(chan[a][b], "disconnect")
                         /\ ls[a][b].received => Connected(a, b)
                         /\ ~Fresh(ls[a][b]) => Has(chan[a][b], "connect") \/ ls[b][a].received)'
      BY Zenon DEF Agrees
    <3>1. /\ ls[a][b].state # "Disconnected" /\ ~Has(chan[a][b], "disconnect")
          /\ ls[a][b].received => Connected(a, b)
          /\ ~Fresh(ls[a][b]) => Has(chan[a][b], "connect") \/ ls[b][a].received
      BY Zenon, <1>1 DEF PInv, Agrees
    <3>2. ls'[b][a].received = ls[b][a].received
      BY Zenon, <2>4, <2>5
    <3>3. CASE a # p \/ b # q
      BY SMTT(30), <3>1, <3>2, <3>3, <2>3, <2>4 DEF Connected
    <3>4. CASE a = p /\ b = q
      BY <3>1, <3>4, <2>5, <2>7, <2>8, <2>12
    <3> QED
      BY Zenon, <3>3, <3>4
  <2> QED
    BY Zenon, <2>9, <2>10, <2>11, <2>13, <2>14 DEF PInv
<1> QED
  BY Zenon, <1>4, <1>5, <1>6

\* disconnect or kick keeps the invariant: an accepted link is told, any other was never Connected.
LEMMA DisconnectStep ==
    ASSUME PInv, NEW p \in Links, NEW q \in Links, Disconnect(p, q)
    PROVE  PInv'
<1>1. /\ link \in [Links -> [Links -> {"none", "orphan", "bound", "left"}]]
      /\ ls \in [Links -> [Links -> LinkStates]]
      /\ chan \in Channels /\ PTyped /\ quits \in Nat
  BY Zenon DEF PInv, PTyped, Channels
<1>2. /\ ls[p][q].state # "Absent" /\ quits' = quits + 1 /\ log' = log
      /\ ls' = [ls EXCEPT ![p][q].state = "Disconnected"]
      /\ chan' = IF WasConnected(ls[p][q]) THEN Send(p, q, Rpc("disconnect")) ELSE chan
      /\ link' = [link EXCEPT ![p][q] = IF @ = "bound" THEN "left" ELSE @]
  BY Zenon DEF Disconnect
<1>3. /\ ls'[p][q] = [ls[p][q] EXCEPT !.state = "Disconnected"]
      /\ ls[p][q] \in LinkStates
      /\ \A a, b \in Links : a # p \/ b # q => ls'[a][b] = ls[a][b]
  BY Zenon, <1>1, <1>2
<1>4. /\ ls'[p][q].state = "Disconnected" /\ ls'[p][q].accepted = ls[p][q].accepted
      /\ ls'[p][q].received = ls[p][q].received
      /\ ls'[p][q] \in LinkStates
  BY <1>3 DEF LinkStates
<1>5. Rpc("disconnect") \in Msgs /\ Rpc("disconnect").rpc = "disconnect" /\ chan[p][q] \in Seq(Msgs)
  BY Zenon, <1>1 DEF Rpc, Msgs, Channels
<1>6. /\ chan' \in Channels
      /\ Has(chan'[p][q], "disconnect") <=> (Connected(p, q) \/ Has(chan[p][q], "disconnect"))
      /\ Has(chan'[p][q], "connect") <=> Has(chan[p][q], "connect")
      /\ One(chan[p][q]) => One(chan'[p][q])
      /\ \A a, b \in Links : a # p \/ b # q => chan'[a][b] = chan[a][b]
  <2>1. CASE Connected(p, q)
    <3>1. chan' = Send(p, q, Rpc("disconnect"))
      BY Zenon, <1>2, <2>1 DEF Connected, WasConnected
    <3>2. /\ chan' \in Channels /\ chan'[p][q] = Append(chan[p][q], Rpc("disconnect"))
          /\ \A a, b \in Links : a # p \/ b # q => chan'[a][b] = chan[a][b]
      BY SMTT(30), <1>1, <1>5, <3>1, SentAt
    <3>3. /\ Has(chan'[p][q], "disconnect")
          /\ Has(chan'[p][q], "connect") <=> Has(chan[p][q], "connect")
          /\ One(chan[p][q]) => One(chan'[p][q])
      BY SMTT(30), <1>5, <3>2, SentHas
    <3> QED
      BY <2>1, <3>2, <3>3
  <2>2. CASE ~Connected(p, q)
    <3>1. chan' = chan
      BY Zenon, <1>2, <2>2 DEF Connected, WasConnected
    <3> QED
      BY Zenon, <1>1, <2>2, <3>1
  <2> QED
    BY ZenonT(30), <2>1, <2>2
<1>7. PTyped'
  <2>1. ls' \in [Links -> [Links -> LinkStates]]
    BY <1>1, <1>2, <1>3, <1>4
  <2>2. link' \in [Links -> [Links -> {"none", "orphan", "bound", "left"}]]
    BY Zenon, <1>1, <1>2
  <2> QED
    BY SMTT(30), <1>1, <1>2, <1>6, <2>1, <2>2 DEF PTyped, Channels
<1>8. Asks'
  <2> SUFFICES ASSUME NEW a \in Links, NEW b \in Links
               PROVE  (/\ One(chan[a][b])
                       /\ Has(chan[a][b], "connect") => ~ls[b][a].received
                       /\ Fresh(ls[a][b]) => ~Has(chan[a][b], "connect") /\ ~ls[b][a].received
                       /\ link[a][b] \in {"bound", "left"} => ~Fresh(ls[a][b]))'
    BY DEF Asks
  <2>1. ls'[b][a].received = ls[b][a].received
    BY Zenon, <1>3, <1>4
  <2>2. One(chan'[a][b]) /\ (Has(chan'[a][b], "connect") <=> Has(chan[a][b], "connect"))
    BY SMTT(30), <1>6 DEF PInv, Asks
  <2>3. CASE a = p /\ b = q
    BY <2>1, <2>2, <2>3, <1>4 DEF PInv, Asks, Fresh
  <2>4. CASE a # p \/ b # q
    <3>1. link'[a][b] = link[a][b]
      BY Zenon, <2>4, <1>1, <1>2
    <3> QED
      BY <2>1, <2>2, <2>4, <3>1, <1>3 DEF PInv, Asks
  <2> QED
    BY ZenonT(30), <2>3, <2>4
<1>9. Hears'
  BY <1>2, <1>3, <1>4 DEF PInv, Hears, Connected
<1>10. Closes'
  <2> SUFFICES ASSUME NEW a \in Links, NEW b \in Links
               PROVE  (/\ Has(chan[a][b], "disconnect") => ls[a][b].state = "Disconnected" /\ ls[a][b].accepted
                       /\ ls[a][b].state = "Disconnected" /\ ls[a][b].accepted =>
                            Has(chan[a][b], "disconnect") \/ ls[b][a].state = "Disconnected")'
    BY DEF Closes
  <2>1. /\ Has(chan[a][b], "disconnect") => ls[a][b].state = "Disconnected" /\ ls[a][b].accepted
        /\ ls[a][b].state = "Disconnected" /\ ls[a][b].accepted =>
             Has(chan[a][b], "disconnect") \/ ls[b][a].state = "Disconnected"
        /\ Connected(a, b) => ls[a][b].accepted
        /\ ls[a][b].accepted => Connected(a, b) \/ ls[a][b].state = "Disconnected"
    BY Zenon DEF PInv, Closes, Hears, Connected
  <2>2. /\ ls'[a][b].accepted = ls[a][b].accepted
        /\ ls[b][a].state = "Disconnected" => ls'[b][a].state = "Disconnected"
    BY ZenonT(40), <1>3, <1>4
  <2>3. CASE a # p \/ b # q
    BY <2>1, <2>2, <2>3, <1>3, <1>6
  <2>4. CASE a = p /\ b = q
    BY Zenon, <2>1, <2>2, <2>4, <1>4, <1>6
  <2> QED
    BY Zenon, <2>3, <2>4
<1>11. Agrees'
  BY <1>1, <1>2 DEF Agrees
<1> QED
  BY <1>7, <1>8, <1>9, <1>10, <1>11 DEF PInv

\* linkStateAccepted and the relays keep the invariant: what they take neither asks nor closes.
LEMMA QuietStep ==
    ASSUME PInv, NEW p \in Links, NEW q \in Links, OnAccepted(p, q) \/ OnRelay(p, q)
    PROVE  PInv'
<1>1. /\ Head(chan[q][p]).rpc \in {"accepted", "newConnection", "disconnected"}
      /\ quits' = quits /\ link' = link /\ ls' = ls /\ chan' \in Channels
      /\ log \in [Links -> [Links -> Seq(Events)]] /\ PTyped
  BY Zenon, Processed DEF PInv, PTyped, OnAccepted, OnRelay, Handling
<1>2. \A a, b \in Links :
           /\ One(chan[a][b]) => One(chan'[a][b])
           /\ Has(chan'[a][b], "connect") <=> Has(chan[a][b], "connect")
           /\ Has(chan'[a][b], "disconnect") <=> Has(chan[a][b], "disconnect")
  <2>1. \A a, b \in Links :
             /\ One(chan[a][b]) => One(chan'[a][b])
             /\ Has(chan'[a][b], "connect") => Has(chan[a][b], "connect")
             /\ Has(chan'[a][b], "disconnect") => Has(chan[a][b], "disconnect")
             /\ a # q \/ b # p \/ Head(chan[q][p]).rpc # "connect" =>
                  (Has(chan[a][b], "connect") => Has(chan'[a][b], "connect"))
             /\ a # q \/ b # p \/ Head(chan[q][p]).rpc # "disconnect" =>
                  (Has(chan[a][b], "disconnect") => Has(chan'[a][b], "disconnect"))
    BY Zenon, <1>1, ProcessedHas
  <2>2. Head(chan[q][p]).rpc # "connect" /\ Head(chan[q][p]).rpc # "disconnect"
    BY Zenon, <1>1
  <2> QED
    BY Zenon, <2>1, <2>2
<1>3. \/ log' = log
      \/ \E r, e : e \in Events /\ ~Direct(e) /\ log' = [log EXCEPT ![p][r] = Append(@, e)]
  <2>1. CASE OnAccepted(p, q)
    BY Zenon, <2>1 DEF OnAccepted
  <2>2. CASE OnRelay(p, q)
    <3>1. /\ log' = [log EXCEPT ![p][Head(chan[q][p]).about] = Append(@, Head(chan[q][p]).rpc)]
          /\ Head(chan[q][p]).rpc \in {"newConnection", "disconnected"}
      BY Zenon, <2>2 DEF OnRelay, Handling
    <3>2. Head(chan[q][p]).rpc \in Events /\ ~Direct(Head(chan[q][p]).rpc)
      BY Zenon, <3>1 DEF Events, Direct
    <3> QED
      BY Zenon, <3>1, <3>2
  <2> QED
    BY Zenon, <2>1, <2>2
<1>4. /\ log' \in [Links -> [Links -> Seq(Events)]]
      /\ \A a, b \in Links :
           /\ InLog(log'[a][b], "connect") <=> InLog(log[a][b], "connect")
           /\ InLog(log'[a][b], "disconnect") <=> InLog(log[a][b], "disconnect")
           /\ InOrder(log[a][b]) => InOrder(log'[a][b])
  <2>1. CASE log' = log
    BY ZenonT(30), <1>1, <2>1
  <2>2. ASSUME NEW r, NEW e \in Events, ~Direct(e), log' = [log EXCEPT ![p][r] = Append(@, e)]
        PROVE  /\ log' \in [Links -> [Links -> Seq(Events)]]
               /\ \A a, b \in Links :
                    /\ InLog(log'[a][b], "connect") <=> InLog(log[a][b], "connect")
                    /\ InLog(log'[a][b], "disconnect") <=> InLog(log[a][b], "disconnect")
                    /\ InOrder(log[a][b]) => InOrder(log'[a][b])
    <3>1. CASE r \notin Links
      <4>1. log' = log
        BY <1>1, <2>2, <3>1
      <4> QED
        BY Zenon, <1>1, <4>1
    <3>2. CASE r \in Links
      <4>1. log[p][r] \in Seq(Events) /\ Append(log[p][r], e) \in Seq(Events)
        BY <1>1, <3>2
      <4>2. log' \in [Links -> [Links -> Seq(Events)]]
        BY Zenon, <1>1, <2>2, <3>2, <4>1
      <4>3. log'[p][r] = Append(log[p][r], e) /\ \A a, b \in Links : a # p \/ b # r => log'[a][b] = log[a][b]
        BY Zenon, <1>1, <2>2, <3>2
      <4>4. e # "connect" /\ e # "disconnect"
        BY Zenon, <2>2 DEF Direct
      <4>5. /\ InLog(log'[p][r], "connect") <=> InLog(log[p][r], "connect")
            /\ InLog(log'[p][r], "disconnect") <=> InLog(log[p][r], "disconnect")
            /\ InOrder(log[p][r]) => InOrder(log'[p][r])
        BY <2>2, <4>1, <4>3, <4>4, Logged
      <4> QED
        BY Zenon, <4>2, <4>3, <4>5
    <3> QED
      BY <3>1, <3>2
  <2> QED
    BY Zenon, <1>3, <2>1, <2>2
<1>5. PTyped'
  BY Zenon, <1>1, <1>4 DEF PTyped, Channels
<1>6. Asks'
  BY Zenon, <1>1, <1>2 DEF PInv, Asks
<1>7. Hears'
  BY Zenon, <1>1, <1>4 DEF PInv, Hears, Connected
<1>8. Closes'
  <2>1. Closes
    BY Zenon DEF PInv
  <2>2. ls' = ls /\ \A a, b \in Links : Has(chan'[a][b], "disconnect") <=> Has(chan[a][b], "disconnect")
    BY ZenonT(30), <1>1, <1>2
  <2> QED
    BY <2>1, <2>2 DEF Closes
<1>9. Agrees'
  BY <1>1, <1>2 DEF PInv, Agrees, Connected
<1> QED
  BY Zenon, <1>5, <1>6, <1>7, <1>8, <1>9 DEF PInv

\* The first packet of an address makes a link without a LinkState.
LEMMA ArriveStep ==
    ASSUME PInv, NEW p \in Links, NEW q \in Links, Arrive(p, q)
    PROVE  PInv'
<1>1. /\ link' = [link EXCEPT ![p][q] = "orphan"]
      /\ UNCHANGED <<ls, chan, log, quits>>
      /\ link \in [Links -> [Links -> {"none", "orphan", "bound", "left"}]]
  BY Zenon DEF Arrive, PInv, PTyped
<1>2. link' \in [Links -> [Links -> {"none", "orphan", "bound", "left"}]]
  BY Zenon, <1>1
<1>3. \A a, b \in Links : link'[a][b] \in {"bound", "left"} => link[a][b] \in {"bound", "left"}
  BY Zenon, <1>1
<1>4. PTyped'
  BY Zenon, <1>1, <1>2 DEF PInv, PTyped
<1>5. Asks'
  BY Zenon, <1>1, <1>3 DEF PInv, Asks
<1>6. Hears'
  BY Zenon, <1>1 DEF PInv, Hears, Connected
<1>7. Closes'
  BY Zenon, <1>1 DEF PInv, Closes
<1>8. Agrees'
  BY Zenon, <1>1 DEF PInv, Agrees, Connected
<1> QED
  BY <1>4, <1>5, <1>6, <1>7, <1>8 DEF PInv

\* No link is there at first.
LEMMA PInvInit == PInit => PInv
<1> SUFFICES ASSUME PInit PROVE PInv
  OBVIOUS
<1>1. PTyped
  BY DEF PInit, PTyped, LinkStates
<1>2. /\ \A p, q \in Links : chan[p][q] = <<>> /\ log[p][q] = <<>> /\ link[p][q] = "none"
      /\ \A p, q \in Links : ls[p][q].state = "Absent" /\ ~ls[p][q].accepted /\ ~ls[p][q].received
  BY Zenon DEF PInit
<1>3. \A name : ~Has(<<>>, name) /\ ~InLog(<<>>, name)
  BY DEF Has, InLog
<1>4. One(<<>>) /\ InOrder(<<>>)
  BY SMTT(30) DEF One, InOrder
<1>5. Asks
  BY <1>2, <1>3, <1>4 DEF Asks
<1>6. Hears
  BY <1>2, <1>3, <1>4 DEF Hears, Connected
<1>7. Closes
  BY SMTT(30), <1>2, <1>3 DEF Closes
<1>8. Agrees
  BY <1>2, <1>3 DEF Agrees, Fresh
<1> QED
  BY Zenon, <1>1, <1>5, <1>6, <1>7, <1>8 DEF PInv

\* Each step of the master, a peer or a user keeps what the handshake rests on.
LEMMA PInvStep == PInv /\ [PNext]_allVars => PInv'
<1> SUFFICES ASSUME PInv, [PNext]_allVars PROVE PInv'
  OBVIOUS
<1>1. CASE UNCHANGED allVars
  BY Zenon, <1>1, Untouched DEF allVars, peerVars
<1>2. CASE AskMaster
  BY Zenon, <1>2, Untouched DEF AskMaster, peerVars
<1>3. ASSUME NEW p \in Links, MasterNewHost(p) PROVE PInv'
  BY Zenon, <1>3, Untouched DEF MasterNewHost
<1>4. ASSUME NEW p \in Links, MasterConnectTo(p) PROVE PInv'
  BY Zenon, <1>4, ConnectToStep
<1>5. ASSUME NEW p \in Links, NEW q \in Links, Arrive(p, q) PROVE PInv'
  BY Zenon, <1>5, ArriveStep
<1>6. ASSUME NEW p \in Links, NEW q \in Links, OnConnect(p, q) PROVE PInv'
  BY <1>6, OnConnectStep
<1>7. ASSUME NEW p \in Links, NEW q \in Links, OnAccepted(p, q) \/ OnRelay(p, q) PROVE PInv'
  BY <1>7, QuietStep
<1>8. ASSUME NEW p \in Links, NEW q \in Links, OnDisconnect(p, q) PROVE PInv'
  BY <1>8, OnDisconnectStep
<1>9. ASSUME NEW p \in Links, NEW q \in Links, OnOrphan(p, q) PROVE PInv'
  BY Zenon, <1>9, Untouched DEF OnOrphan
<1>10. ASSUME NEW p \in Links, NEW q \in Links, Disconnect(p, q) PROVE PInv'
  BY <1>10, DisconnectStep
<1> QED
  BY Zenon, <1>1, <1>2, <1>3, <1>4, <1>5, <1>6, <1>7, <1>8, <1>9, <1>10 DEF PNext, FromMaster, FromPeer

\* In every behaviour of any number of peers the words, requests, events and closes of each pair
\* of peers fit together as PInv says.
THEOREM HandshakeInvariant == PSpec => []PInv
  BY PInvInit, PInvStep, PTL DEF PSpec

\* A connect request under way is the first of its link, whoever was told to connect to whom and
\* in whatever order.
THEOREM ConnectsOnce == PSpec => []ConnectOnce
<1>1. PInv => ConnectOnce
  <2> SUFFICES ASSUME PInv, NEW p \in Links, NEW q \in Links
               PROVE  /\ \A i, j \in Requests(p, q) : i = j
                      /\ Requests(p, q) # {} => ~ls[q][p].received
    BY Zenon DEF ConnectOnce
  <2>1. One(chan[p][q]) /\ (Has(chan[p][q], "connect") => ~ls[q][p].received)
    BY Zenon DEF PInv, Asks
  <2> QED
    BY Zenon, <2>1 DEF One, Has, Requests
<1> QED
  BY <1>1, HandshakeInvariant, PTL

\* The listeners hear of a disconnect after a connect, once, and as the last thing.
THEOREM DisconnectsLast == PSpec => []DisconnectIsLast
<1>1. PInv => DisconnectIsLast
  BY Zenon DEF PInv, Hears, InOrder, DisconnectIsLast
<1> QED
  BY <1>1, HandshakeInvariant, PTL

\* A close is heard once what was sent is processed.
THEOREM ClosesAreHeard == PSpec => []CloseIsHeard
<1>1. PInv => CloseIsHeard
  <2> SUFFICES ASSUME PInv, NEW p \in Links, NEW q \in Links,
                      ls[p][q].state = "Disconnected", ls[p][q].accepted, chan[p][q] = <<>>
               PROVE  ~Connected(q, p)
    BY Zenon DEF CloseIsHeard
  <2>1. ~Has(chan[p][q], "disconnect")
    BY DEF Has
  <2> QED
    BY <2>1 DEF PInv, Closes, Connected
<1> QED
  BY <1>1, HandshakeInvariant, PTL

\* If nobody disconnected, whoever processed all its peer sent takes the link for Connected as the
\* peer does.
THEOREM PeersAgree == PSpec => []Agreement
<1>1. PInv => Agreement
  <2> SUFFICES ASSUME PInv, quits = 0, NEW p \in Links, NEW q \in Links, Connected(p, q), chan[p][q] = <<>>
               PROVE  Connected(q, p)
    BY Zenon DEF Agreement
  <2>1. ~Has(chan[p][q], "connect") /\ ~Fresh(ls[p][q])
    BY DEF Has, Fresh, Connected
  <2> QED
    BY Zenon, <2>1 DEF PInv, Agrees
<1> QED
  BY <1>1, HandshakeInvariant, PTL
----------------------------------------------------------------------------
\* The part of the state the theorems are about has its type, and the lists hold places in ms.
Typed ==
    /\ ms \in Seq(Sessions)
    /\ lists \in Seq(Seq(Nat))
    /\ \A i \in DOMAIN lists : \A k \in DOMAIN lists[i] : lists[i][k] \in DOMAIN ms
    /\ sessionOf \in [Links -> 0 .. Len(ms)]
    /\ out \in [Links -> Seq(Rpcs)]
----------------------------------------------------------------------------
\* A list that is not empty has a first element.
LEMMA NotEmpty == ASSUME NEW S PROVE \A s \in Seq(S) : s # <<>> => Len(s) \in Nat \ {0}
  <1>. SUFFICES ASSUME NEW s \in Seq(S), Len(s) = 0 PROVE s = <<>>
    OBVIOUS
  <1>1. DOMAIN s = {} /\ s = [i \in DOMAIN s |-> s[i]]
    OBVIOUS
  <1>. QED
    BY <1>1

\* addLink adds at most the link, and nothing else of the session changes.
LEMMA AddLinkEffect ==
    ASSUME NEW s \in Sessions, NEW l \in Links
    PROVE  /\ AddLink(s, l) \in Sessions
           /\ AddLink(s, l).host = s.host
           /\ AddLink(s, l).data = s.data
           /\ Range(s.links) \subseteq Range(AddLink(s, l).links)
           /\ Range(AddLink(s, l).links) \subseteq Range(s.links) \cup {l}
           /\ CanJoin(s) => AddLink(s, l).links = Append(s.links, l) /\ l \in Range(AddLink(s, l).links)
  <1>1. s.links \in Seq(Links)
    BY Zenon DEF Sessions
  <1>2. Append(s.links, l) \in Seq(Links) /\ DOMAIN Append(s.links, l) = 1 .. Len(s.links) + 1
    BY <1>1
  <1>3. \A i \in 1 .. Len(s.links) : Append(s.links, l)[i] = s.links[i]
    BY <1>1
  <1>4. Append(s.links, l)[Len(s.links) + 1] = l
    BY <1>1
  <1>5. DOMAIN s.links = 1 .. Len(s.links) /\ Len(s.links) \in Nat
    BY <1>1
  <1>6. Range(Append(s.links, l)) = Range(s.links) \cup {l}
    <2>1. Range(s.links) \subseteq Range(Append(s.links, l))
      BY <1>2, <1>3, <1>5 DEF Range
    <2>2. l \in Range(Append(s.links, l))
      BY <1>2, <1>4, <1>5 DEF Range
    <2>3. ASSUME NEW x \in Range(Append(s.links, l)) PROVE x \in Range(s.links) \cup {l}
      <3>1. PICK i \in 1 .. Len(s.links) + 1 : x = Append(s.links, l)[i]
        BY Zenon, <1>2 DEF Range
      <3>2. i = Len(s.links) + 1 \/ i \in 1 .. Len(s.links)
        BY <1>5
      <3>. QED
        BY Zenon, <3>1, <3>2, <1>3, <1>4, <1>5 DEF Range
    <2>. QED
      BY Zenon, <2>1, <2>2, <2>3
  <1>7. CASE CanJoin(s)
    BY Zenon, <1>2, <1>6, <1>7 DEF AddLink, Sessions
  <1>8. CASE ~CanJoin(s)
    BY Zenon, <1>8 DEF AddLink
  <1>. QED
    BY Zenon, <1>7, <1>8

\* erase leaves only links that were there.
LEMMA EraseEffect ==
    ASSUME NEW s \in Seq(Links), s # <<>>, NEW i
    PROVE  /\ Erase(s, i) \in Seq(Links)
           /\ Range(Erase(s, i)) \subseteq Range(s)
  <1>. DEFINE n == Len(s) - 1
  <1>1. n \in Nat /\ DOMAIN s = 1 .. n + 1
    BY NotEmpty
  <1>2. \A j \in 1 .. n : j \in DOMAIN s /\ j + 1 \in DOMAIN s
    BY <1>1
  <1>3. \A j \in 1 .. n : Erase(s, i)[j] \in Range(s) /\ Erase(s, i)[j] \in Links
    BY <1>2 DEF Erase, Range
  <1>4. DOMAIN Erase(s, i) = 1 .. n
    BY Zenon DEF Erase
  <1>5. Erase(s, i) \in [1 .. n -> Links]
    BY Zenon, <1>3, <1>4 DEF Erase
  <1>. QED
    BY <1>1, <1>3, <1>4, <1>5 DEF Range

\* The RPCs in a concatenation are those of both parts.
LEMMA RangeConcat ==
    ASSUME NEW S, NEW s \in Seq(S), NEW t \in Seq(S)
    PROVE  s \o t \in Seq(S) /\ Range(s \o t) = Range(s) \cup Range(t)
  <1>. DEFINE m == Len(s)  n == Len(t)  c == s \o t
  <1>1. m \in Nat /\ n \in Nat /\ DOMAIN s = 1 .. m /\ DOMAIN t = 1 .. n
    OBVIOUS
  <1>2. c \in Seq(S) /\ DOMAIN c = 1 .. m + n
    OBVIOUS
  <1>3. \A i \in 1 .. m : i \in 1 .. m + n /\ c[i] = s[i]
    OBVIOUS
  <1>4. \A i \in 1 .. n : i + m \in 1 .. m + n /\ c[i + m] = t[i]
    OBVIOUS
  <1>5. \A i \in 1 .. m + n : i \in 1 .. m \/ (i - m \in 1 .. n /\ i = (i - m) + m)
    BY <1>1
  <1>. HIDE DEF m, n, c
  <1>6. Range(s) \cup Range(t) \subseteq Range(c)
    BY Zenon, <1>1, <1>2, <1>3, <1>4 DEF Range
  <1>7. ASSUME NEW x \in Range(c) PROVE x \in Range(s) \cup Range(t)
    <2>1. PICK i \in 1 .. m + n : x = c[i]
      BY Zenon, <1>2 DEF Range
    <2>2. CASE i \in 1 .. m
      BY Zenon, <2>1, <2>2, <1>1, <1>3 DEF Range
    <2>3. CASE i - m \in 1 .. n /\ i = (i - m) + m
      BY Zenon, <2>1, <2>3, <1>1, <1>4 DEF Range
    <2>. QED
      BY Zenon, <2>2, <2>3, <1>5
  <1>. QED
    BY Zenon, <1>2, <1>6, <1>7 DEF c

\* What joining sends to k: with p2p, k hears of the new link, and the new link of all.
LEMMA JoinNotesEffect ==
    ASSUME NEW s \in Sessions, NEW l \in Links, NEW k \in Links, NEW added \in BOOLEAN
    PROVE  /\ JoinNotes(s, l, added, k) \in Seq(Rpcs)
           /\ s.data.p2p /\ k \in Range(s.links) => ConnectTo(l) \in Range(JoinNotes(s, l, added, k))
           /\ s.data.p2p /\ k = l =>
                \A b \in Range(s.links) : ConnectTo(b) \in Range(JoinNotes(s, l, added, k))
  <1>. DEFINE A == IF k = l /\ added THEN <<HostNote(s, l)>> ELSE <<>>
              B == IF k = l THEN [j \in DOMAIN s.links |-> ConnectTo(s.links[j])] ELSE <<>>
              C == IF k \in Range(s.links) THEN <<ConnectTo(l)>> ELSE <<>>
              D == IF k = l THEN <<Result(TRUE)>> ELSE <<>>
              I == Introductions(s, l, k)
  <1>1. s.links \in Seq(Links) /\ s.host \in Links
    BY Zenon DEF Sessions
  <1>2. /\ \A x \in Links \cup {None} : ConnectTo(x) \in Rpcs /\ NewHost(x) \in Rpcs
        /\ Result(TRUE) \in Rpcs
    BY Zenon DEF ConnectTo, NewHost, Result, Rpcs
  <1>3. A \in Seq(Rpcs) /\ C \in Seq(Rpcs) /\ D \in Seq(Rpcs)
    <2>1. HostNote(s, l) \in Rpcs /\ ConnectTo(l) \in Rpcs
      BY Zenon, <1>1, <1>2 DEF HostNote
    <2>2. \A m \in Rpcs : <<m>> \in Seq(Rpcs)
      OBVIOUS
    <2>3. <<>> \in Seq(Rpcs)
      OBVIOUS
    <2>. QED
      BY Zenon, <2>1, <2>2, <2>3, <1>2
  <1>4. B \in Seq(Rpcs)
    <2>1. \A j \in 1 .. Len(s.links) : s.links[j] \in Links
      BY <1>1
    <2>2. [j \in 1 .. Len(s.links) |-> ConnectTo(s.links[j])] \in [1 .. Len(s.links) -> Rpcs]
      BY Zenon, <2>1, <1>2
    <2>. QED
      BY <2>2, <1>1
  <1>5. I = IF s.data.p2p THEN B \o C ELSE IF l = k THEN <<ConnectTo(s.host)>> ELSE <<>>
    BY Zenon DEF Introductions
  <1>6. I \in Seq(Rpcs) /\ (s.data.p2p => Range(I) = Range(B) \cup Range(C))
    <2>1. <<ConnectTo(s.host)>> \in Seq(Rpcs)
      BY <1>1, <1>2
    <2>. HIDE DEF B, C, I
    <2>. QED
      BY <2>1, <1>3, <1>4, <1>5, RangeConcat
  <1>7. JoinNotes(s, l, added, k) = (A \o I) \o D
    BY Zenon DEF JoinNotes
  <1>8. k \in Range(s.links) => ConnectTo(l) \in Range(C)
    BY DEF Range
  <1>9. k = l => \A b \in Range(s.links) : ConnectTo(b) \in Range(B)
    BY Zenon DEF Range
  <1>. HIDE DEF A, B, C, D, I
  <1>10. A \o I \in Seq(Rpcs) /\ Range(A \o I) = Range(A) \cup Range(I)
    BY <1>3, <1>6, RangeConcat
  <1>11. (A \o I) \o D \in Seq(Rpcs) /\ Range((A \o I) \o D) = Range(A \o I) \cup Range(D)
    <2>. DEFINE AI == A \o I
    <2>1. AI \in Seq(Rpcs)
      BY Zenon, <1>10
    <2>. HIDE DEF AI
    <2>2. AI \o D \in Seq(Rpcs) /\ Range(AI \o D) = Range(AI) \cup Range(D)
      BY <1>3, <2>1, RangeConcat
    <2>. QED
      BY Zenon, <2>2 DEF AI
  <1>. QED
    BY Zenon, <1>6, <1>7, <1>8, <1>9, <1>10, <1>11
----------------------------------------------------------------------------
\* A search leads to a session of ms that lets a link in.
LEMMA FoundIsOpen ==
    ASSUME Typed, NEW f \in Filters, NEW p \in FirstOf(Found(f))
    PROVE  lists[p[1]][p[2]] \in DOMAIN ms /\ CanJoin(ms[lists[p[1]][p[2]]])
  <1>1. p \in Found(f)
    BY Zenon DEF FirstOf
  <1>2. PICK i \in DOMAIN lists : p \in {i} \X DOMAIN lists[i]
    BY Zenon, <1>1 DEF Found
  <1>3. p[1] = i /\ p[2] \in DOMAIN lists[i]
    BY Zenon, <1>2
  <1>4. Matches(ms[lists[p[1]][p[2]]], f)
    BY Zenon, <1>1 DEF Found
  <1>. QED
    BY Zenon, <1>3, <1>4 DEF Typed, Matches

\* The session that l leaves, with l taken out and the next host.
Shrunk(id, l) ==
    LET left == Erase(ms[id].links, PlaceOf(ms[id].links, l))
    IN  [ms[id] EXCEPT !.links = left, !.someoneLeft = TRUE, !.host = HostAfter(ms[id], l, left)]

\* Leaving makes a session smaller, and its host is among the links left if there are any.
LEMMA ShrunkEffect ==
    ASSUME Typed, NEW l \in Links, NEW id \in DOMAIN ms, l \in Range(ms[id].links)
    PROVE  /\ Shrunk(id, l) \in Sessions
           /\ Shrunk(id, l).data = ms[id].data
           /\ Range(Shrunk(id, l).links) \subseteq Range(ms[id].links)
           /\ Shrunk(id, l).links = Erase(ms[id].links, PlaceOf(ms[id].links, l))
           /\ Shrunk(id, l).host = HostAfter(ms[id], l, Shrunk(id, l).links)
           /\ Shrunk(id, l).someoneLeft
  <1>. DEFINE s == ms[id]
              left == Erase(s.links, PlaceOf(s.links, l))
  <1>1. s \in Sessions
    BY DEF Typed
  <1>2. s.links \in Seq(Links) /\ s.host \in Links
    BY Zenon, <1>1 DEF Sessions
  <1>3. s.links # <<>>
    BY DEF Range
  <1>4. left \in Seq(Links) /\ Range(left) \subseteq Range(s.links)
    BY Zenon, <1>2, <1>3, EraseEffect
  <1>. HIDE DEF left, s
  <1>5. HostAfter(s, l, left) \in Links
    <2>1. left # <<>> => left[1] \in Links
      BY <1>4, NotEmpty
    <2>. QED
      BY Zenon, <1>2, <2>1 DEF HostAfter
  <1>6. Shrunk(id, l) = [s EXCEPT !.links = left, !.someoneLeft = TRUE, !.host = HostAfter(s, l, left)]
    BY Zenon DEF Shrunk, left, s
  <1>7. s = [data |-> s.data, links |-> s.links, host |-> s.host, started |-> s.started,
             someoneLeft |-> s.someoneLeft]
        /\ s.data \in Datas /\ s.started \in BOOLEAN
    BY Zenon, <1>1 DEF Sessions
  <1>8. Shrunk(id, l) = [data |-> s.data, links |-> left, host |-> HostAfter(s, l, left),
                         started |-> s.started, someoneLeft |-> TRUE]
    BY Zenon, <1>6, <1>7
  <1>9. Shrunk(id, l) \in Sessions
    BY <1>4, <1>5, <1>7, <1>8 DEF Sessions
  <1>10. /\ Shrunk(id, l).data = s.data
         /\ Shrunk(id, l).links = left
         /\ Shrunk(id, l).host = HostAfter(s, l, left)
         /\ Shrunk(id, l).someoneLeft
    BY <1>8
  <1>. QED
    BY Zenon, <1>4, <1>9, <1>10 DEF s, left

\* What each action does to the sessions and to the RPCs sent, under Typed.
LEMMA RegisterEffect ==
    ASSUME Typed, NEW l \in Links, NEW d \in Datas, RegisterServer(l, d)
    PROVE  \E s \in Sessions :
             /\ ms' = Append(ms, s)
             /\ s.links = <<l>> /\ s.host = l
             /\ sessionOf' = [sessionOf EXCEPT ![l] = Len(ms) + 1]
             /\ out' = [out EXCEPT ![l] = @ \o <<HostNote(s, l), Result(TRUE)>>]
             /\ \A k \in Links : Range(out[k]) \subseteq Range(out'[k])
             /\ out' \in [Links -> Seq(Rpcs)]
  <1>. DEFINE new == [data |-> d, links |-> <<>>, host |-> l, started |-> FALSE, someoneLeft |-> FALSE]
              s   == AddLink(new, l)
              n   == <<HostNote(s, l), Result(TRUE)>>
  <1>1. new \in Sessions /\ CanJoin(new)
    BY DEF Sessions, CanJoin
  <1>2. s \in Sessions /\ s.host = l /\ s.links = Append(<<>>, l)
    BY Zenon, <1>1, AddLinkEffect
  <1>3. s.links = <<l>>
    <2>1. Append(<<>>, l) = <<l>>
      OBVIOUS
    <2>. QED
      BY Zenon, <1>2, <2>1
  <1>4. n \in Seq(Rpcs)
    <2>. HIDE DEF s
    <2>1. HostNote(s, l) \in Rpcs
      BY Zenon, <1>2 DEF HostNote, NewHost, Rpcs
    <2>2. Result(TRUE) \in Rpcs
      BY Zenon DEF Result, Rpcs
    <2>3. \A a, b \in Rpcs : <<a, b>> \in Seq(Rpcs)
      OBVIOUS
    <2>. QED
      BY Zenon, <2>1, <2>2, <2>3
  <1>5. /\ ms' = Append(ms, s)
        /\ sessionOf' = [sessionOf EXCEPT ![l] = Len(ms) + 1]
        /\ out' = [out EXCEPT ![l] = @ \o n]
    BY Zenon DEF RegisterServer, AskOnce, NewSession, AddSession
  <1>. HIDE DEF new, s, n
  <1>6. out[l] \in Seq(Rpcs) /\ out[l] \o n \in Seq(Rpcs) /\ Range(out[l]) \subseteq Range(out[l] \o n)
    BY <1>4, RangeConcat DEF Typed
  <1>. QED
    BY Zenon, <1>2, <1>3, <1>5, <1>6 DEF Typed, n

\* Joining changes one session, which was open, and only adds to the RPCs sent.
LEMMA JoinEffect ==
    ASSUME Typed, NEW l \in Links, NEW f \in Filters, JoinServer(l, f)
    PROVE  \E id \in DOMAIN ms :
             LET s == AddLink(ms[id], l) IN
             /\ CanJoin(ms[id])
             /\ ms' = [ms EXCEPT ![id] = s]
             /\ sessionOf' = [sessionOf EXCEPT ![l] = id]
             /\ out' = [k \in Links |-> out[k] \o JoinNotes(s, l, TRUE, k)]
             /\ \A k \in Links : Range(out'[k]) = Range(out[k]) \cup Range(JoinNotes(s, l, TRUE, k))
             /\ out' \in [Links -> Seq(Rpcs)]
  <1>1. PICK p \in FirstOf(Found(f)) : JoinSession(l, lists[p[1]][p[2]])
    BY Zenon DEF JoinServer, AskOnce
  <1>. DEFINE id == lists[p[1]][p[2]]
              s  == AddLink(ms[id], l)
  <1>2. id \in DOMAIN ms /\ CanJoin(ms[id])
    BY Zenon, FoundIsOpen
  <1>3. s \in Sessions
    BY SMTT(30), <1>2, AddLinkEffect DEF Typed
  <1>4. /\ ms' = [ms EXCEPT ![id] = s]
        /\ sessionOf' = [sessionOf EXCEPT ![l] = id]
        /\ out' = [k \in Links |-> out[k] \o JoinNotes(s, l, CanJoin(ms[id]), k)]
    BY Zenon, <1>1, <1>2 DEF JoinSession
  <1>5. CanJoin(ms[id]) = TRUE
    BY Zenon, <1>2 DEF CanJoin
  <1>. HIDE DEF id, s
  <1>6. out' = [k \in Links |-> out[k] \o JoinNotes(s, l, TRUE, k)]
    BY Zenon, <1>4, <1>5
  <1>7. ASSUME NEW k \in Links
        PROVE  /\ out[k] \o JoinNotes(s, l, TRUE, k) \in Seq(Rpcs)
               /\ Range(out[k] \o JoinNotes(s, l, TRUE, k)) = Range(out[k]) \cup Range(JoinNotes(s, l, TRUE, k))
    <2>1. JoinNotes(s, l, TRUE, k) \in Seq(Rpcs)
      BY Zenon, <1>3, JoinNotesEffect
    <2>2. out[k] \in Seq(Rpcs)
      BY Zenon DEF Typed
    <2>. DEFINE notes == JoinNotes(s, l, TRUE, k)
                old   == out[k]
    <2>. HIDE DEF notes, old
    <2>3. notes \in Seq(Rpcs) /\ old \in Seq(Rpcs)
      BY Zenon, <2>1, <2>2 DEF notes, old
    <2>4. old \o notes \in Seq(Rpcs) /\ Range(old \o notes) = Range(old) \cup Range(notes)
      BY <2>3, RangeConcat
    <2>. QED
      BY Zenon, <2>4 DEF notes, old
  <1>. QED
    BY Zenon, <1>2, <1>4, <1>6, <1>7 DEF s

\* Leaving makes one session smaller and only adds to the RPCs sent.
LEMMA RemoveEffect ==
    ASSUME Typed, NEW l \in Links, RemoveLink(l)
    PROVE  \E id \in DOMAIN ms :
             /\ id = sessionOf[l]
             /\ l \in Range(ms[id].links)
             /\ out' = [k \in Links |-> IF l = ms[id].host /\ k \in Range(Shrunk(id, l).links) \cup {Shrunk(id, l).host}
                                          THEN Append(out[k], HostNote(Shrunk(id, l), k)) ELSE out[k]]
             /\ emptied' = IF Shrunk(id, l).links = <<>> THEN emptied \cup {id} ELSE emptied
             /\ ms' = [ms EXCEPT ![id] = Shrunk(id, l)]
             /\ \A k \in Links : Range(out[k]) \subseteq Range(out'[k])
             /\ out' \in [Links -> Seq(Rpcs)]
  <1>. DEFINE id == sessionOf[l]
              s  == Shrunk(id, l)
  <1>1. id \in DOMAIN ms /\ l \in Range(ms[id].links)
    BY DEF Typed, RemoveLink
  <1>2. /\ s \in Sessions
        /\ s.links = Erase(ms[id].links, PlaceOf(ms[id].links, l))
        /\ s.host = HostAfter(ms[id], l, s.links)
    BY Zenon, <1>1, ShrunkEffect
  <1>3. PICK T \in SUBSET Links :
          /\ emptied' = IF Erase(ms[id].links, PlaceOf(ms[id].links, l)) = <<>> THEN emptied \cup {id}
                                                                                 ELSE emptied
          /\ ms' = [ms EXCEPT ![id] = s]
          /\ out' = [k \in Links |-> IF l = ms[id].host /\ k \in Range(s.links) \cup {s.host}
                                       THEN Append(out[k], HostNote(s, k)) ELSE out[k]]
          /\ out' = [k \in Links |-> IF k \in T THEN Append(out[k], HostNote(s, k)) ELSE out[k]]
    <2>. DEFINE left == Erase(ms[id].links, PlaceOf(ms[id].links, l))
                U == {k \in Links : l = ms[id].host /\ k \in Range(left) \cup {HostAfter(ms[id], l, left)}}
    <2>1. /\ emptied' = IF left = <<>> THEN emptied \cup {id} ELSE emptied
          /\ ms' = [ms EXCEPT ![id] = s]
          /\ out' = [k \in Links |-> IF l = ms[id].host /\ k \in Range(left) \cup {HostAfter(ms[id], l, left)}
                                       THEN Append(out[k], HostNote(s, k)) ELSE out[k]]
      BY Zenon DEF RemoveLink, Shrunk
    <2>a. left = s.links /\ HostAfter(ms[id], l, left) = s.host
      BY Zenon, <1>2
    <2>. HIDE DEF left, s
    <2>2. out' = [k \in Links |-> IF k \in U THEN Append(out[k], HostNote(s, k)) ELSE out[k]]
      BY Zenon, <2>1
    <2>3. U \in SUBSET Links
      OBVIOUS
    <2>. QED
      BY Zenon, <2>1, <2>2, <2>3, <2>a DEF left
  <1>4. ASSUME NEW k \in Links
        PROVE  Append(out[k], HostNote(s, k)) \in Seq(Rpcs) /\ Range(out[k]) \subseteq Range(Append(out[k], HostNote(s, k)))
    <2>1. HostNote(s, k) \in Rpcs
      <3>1. s.host \in Links
        BY Zenon, <1>2 DEF Sessions
      <3>. QED
        BY Zenon, <3>1 DEF HostNote, NewHost, Rpcs
    <2>2. out[k] \in Seq(Rpcs)
      BY Zenon DEF Typed
    <2>. HIDE DEF s
    <2>. QED
      BY <2>1, <2>2 DEF Range
  <1>. HIDE DEF s, id
  <1>5. \A k \in Links : out'[k] \in Seq(Rpcs) /\ Range(out[k]) \subseteq Range(out'[k])
    BY <1>3, <1>4 DEF Typed
  <1>6. out' \in [Links -> Seq(Rpcs)]
    BY Zenon, <1>3, <1>5
  <1>. QED
    BY Zenon, <1>1, <1>2, <1>3, <1>5, <1>6 DEF s, id
----------------------------------------------------------------------------
\* The lists keep holding places in ms when a session is registered.
LEMMA ListsStep ==
    ASSUME Typed, NEW l \in Links, NEW d \in Datas, RegisterServer(l, d)
    PROVE  /\ lists' \in Seq(Seq(Nat))
           /\ \A i \in DOMAIN lists' : \A k \in DOMAIN lists'[i] : lists'[i][k] \in DOMAIN ms'
  <1>. DEFINE id == Len(ms) + 1  x == ListFor  c == x > Len(lists)
  <1>1. lists' = IF c THEN Append(lists, <<id>>) ELSE [lists EXCEPT ![x] = Append(@, id)]
    BY Zenon DEF RegisterServer, AskOnce, NewSession, AddSession
  <1>2. id \in Nat /\ id \in DOMAIN ms' /\ DOMAIN ms \subseteq DOMAIN ms'
    <2>1. PICK s \in Sessions : ms' = Append(ms, s)
      BY Zenon, RegisterEffect
    <2>. QED
      BY <2>1 DEF Typed
  <1>3. lists \in Seq(Seq(Nat)) /\ \A i \in DOMAIN lists : \A k \in DOMAIN lists[i] : lists[i][k] \in DOMAIN ms'
    BY Zenon, <1>2 DEF Typed
  <1>. HIDE DEF id, x, c
  <1>4. <<id>> \in Seq(Nat) /\ \A k \in DOMAIN <<id>> : <<id>>[k] \in DOMAIN ms'
    BY <1>2
  <1>5. ASSUME NEW i \in DOMAIN lists
        PROVE  Append(lists[i], id) \in Seq(Nat) /\ \A k \in DOMAIN Append(lists[i], id) : Append(lists[i], id)[k] \in DOMAIN ms'
    <2>1. lists[i] \in Seq(Nat)
      BY <1>3
    <2>. QED
      BY <2>1, <1>2, <1>3
  <1>6. CASE c
    <2>. DEFINE new == <<id>>
    <2>. HIDE DEF new
    <2>1. lists' = Append(lists, new) /\ new \in Seq(Nat)
      BY Zenon, <1>1, <1>4, <1>6 DEF new
    <2>2. lists' \in Seq(Seq(Nat)) /\ DOMAIN lists' = 1 .. Len(lists) + 1 /\ Len(lists) \in Nat
      BY <1>3, <2>1
    <2>3. \A i \in 1 .. Len(lists) + 1 : lists'[i] = IF i = Len(lists) + 1 THEN new ELSE lists[i]
      BY <1>3, <2>1
    <2>4. ASSUME NEW i \in DOMAIN lists' PROVE \A k \in DOMAIN lists'[i] : lists'[i][k] \in DOMAIN ms'
      <3>1. CASE i = Len(lists) + 1
        BY Zenon, <1>4, <2>2, <2>3, <3>1 DEF new
      <3>2. CASE i # Len(lists) + 1
        <4>1. i \in DOMAIN lists /\ lists'[i] = lists[i]
          BY <1>3, <2>2, <2>3, <3>2
        <4>. QED
          BY Zenon, <1>3, <4>1
      <3>. QED
        BY Zenon, <3>1, <3>2
    <2>. QED
      BY Zenon, <2>2, <2>4
  <1>7. CASE ~c
    <2>1. lists' = [lists EXCEPT ![x] = Append(@, id)]
      BY Zenon, <1>1, <1>7
    <2>2. DOMAIN lists' = DOMAIN lists
      BY Zenon, <2>1
    <2>3. ASSUME NEW i \in DOMAIN lists
          PROVE  lists'[i] \in Seq(Nat) /\ \A k \in DOMAIN lists'[i] : lists'[i][k] \in DOMAIN ms'
      <3>1. CASE i = x
        <4>1. lists'[i] = Append(lists[i], id)
          BY Zenon, <2>1, <3>1
        <4>. QED
          BY Zenon, <1>5, <4>1
      <3>2. CASE i # x
        <4>1. lists'[i] = lists[i]
          BY Zenon, <2>1, <3>2
        <4>. QED
          BY <1>3, <4>1
      <3>. QED
        BY Zenon, <3>1, <3>2
    <2>4. lists' \in [1 .. Len(lists) -> Seq(Nat)]
      <3>1. DOMAIN lists = 1 .. Len(lists)
        BY <1>3
      <3>2. lists' = [i \in DOMAIN lists |-> IF i = x THEN Append(lists[i], id) ELSE lists[i]]
        BY Zenon, <2>1
      <3>. QED
        BY Zenon, <2>3, <3>1, <3>2
    <2>5. lists' \in Seq(Seq(Nat))
      <3>1. Len(lists) \in Nat
        BY <1>3
      <3>2. \A n \in Nat : \A g \in [1 .. n -> Seq(Nat)] : g \in Seq(Seq(Nat))
        OBVIOUS
      <3>. QED
        BY Zenon, <2>4, <3>1, <3>2
    <2>. QED
      BY Zenon, <2>2, <2>3, <2>5
  <1>. QED
    BY Zenon, <1>6, <1>7

\* Every step keeps the types.
LEMMA TypedStep == Typed /\ [Next]_vars => Typed'
  <1>. SUFFICES ASSUME Typed, [Next]_vars PROVE Typed'
    OBVIOUS
  <1>1. ASSUME NEW l \in Links, NEW d \in Datas, RegisterServer(l, d) PROVE Typed'
    <2>1. PICK s \in Sessions :
             /\ ms' = Append(ms, s)
             /\ sessionOf' = [sessionOf EXCEPT ![l] = Len(ms) + 1]
             /\ out' \in [Links -> Seq(Rpcs)]
      BY Zenon, <1>1, RegisterEffect
    <2>2. ms' \in Seq(Sessions) /\ Len(ms') = Len(ms) + 1 /\ Len(ms) \in Nat
      BY <2>1 DEF Typed
    <2>3. sessionOf' \in [Links -> 0 .. Len(ms')]
      BY <2>1, <2>2 DEF Typed
    <2>. QED
      BY Zenon, <1>1, <2>1, <2>2, <2>3, ListsStep DEF Typed
  <1>2. ASSUME NEW l \in Links, NEW f \in Filters, JoinServer(l, f) PROVE Typed'
    <2>1. PICK id \in DOMAIN ms :
             /\ ms' = [ms EXCEPT ![id] = AddLink(ms[id], l)]
             /\ sessionOf' = [sessionOf EXCEPT ![l] = id]
             /\ out' \in [Links -> Seq(Rpcs)]
      BY Zenon, <1>2, JoinEffect
    <2>2. AddLink(ms[id], l) \in Sessions
      BY AddLinkEffect DEF Typed
    <2>3. ms' \in Seq(Sessions) /\ Len(ms') = Len(ms) /\ DOMAIN ms' = DOMAIN ms
      BY <2>1, <2>2 DEF Typed
    <2>4. lists' = lists
      BY Zenon, <1>2 DEF JoinServer, AskOnce, JoinSession
    <2>. QED
      BY <2>1, <2>3, <2>4 DEF Typed
  <1>3. ASSUME NEW l \in Links, NEW f \in Filters, JoinNothing(l, f) PROVE Typed'
    <2>1. Result(FALSE) \in Rpcs
      BY Zenon DEF Result, Rpcs
    <2>2. out' \in [Links -> Seq(Rpcs)]
      <3>1. out \in [Links -> Seq(Rpcs)] /\ out' = [out EXCEPT ![l] = Append(@, Result(FALSE))]
        BY Zenon, <1>3 DEF JoinNothing, AskOnce, Typed
      <3>2. out[l] \in Seq(Rpcs)
        BY Zenon, <3>1
      <3>3. Append(out[l], Result(FALSE)) \in Seq(Rpcs)
        <4>1. \A s \in Seq(Rpcs) : \A m \in Rpcs : Append(s, m) \in Seq(Rpcs)
          OBVIOUS
        <4>. QED
          BY Zenon, <2>1, <3>2, <4>1
      <3>. QED
        BY Zenon, <3>1, <3>3
    <2>. QED
      BY Zenon, <1>3, <2>2 DEF JoinNothing, AskOnce, Typed
  <1>4. ASSUME NEW l \in Links, StartSession(l) PROVE Typed'
    <2>1. sessionOf[l] \in DOMAIN ms
      BY <1>4 DEF StartSession, Start, Typed
    <2>2. ms' = [ms EXCEPT ![sessionOf[l]] = [@ EXCEPT !.started = TRUE]]
      BY Zenon, <1>4 DEF StartSession, Start
    <2>3. [ms[sessionOf[l]] EXCEPT !.started = TRUE] \in Sessions
      <3>. DEFINE s == ms[sessionOf[l]]
      <3>1. s \in Sessions
        BY <2>1 DEF Typed
      <3>. HIDE DEF s
      <3>2. [s EXCEPT !.started = TRUE] \in Sessions
        BY Zenon, <3>1 DEF Sessions
      <3>. QED
        BY Zenon, <3>2 DEF s
    <2>4. ms' \in Seq(Sessions) /\ Len(ms') = Len(ms) /\ DOMAIN ms' = DOMAIN ms
      BY <2>1, <2>2, <2>3 DEF Typed
    <2>. QED
      BY Zenon, <1>4, <2>4 DEF StartSession, Start, Typed
  <1>5. ASSUME NEW l \in Links, RemoveLink(l) PROVE Typed'
    <2>1. PICK id \in DOMAIN ms :
             /\ l \in Range(ms[id].links)
             /\ ms' = [ms EXCEPT ![id] = Shrunk(id, l)]
             /\ out' \in [Links -> Seq(Rpcs)]
      BY Zenon, <1>5, RemoveEffect
    <2>2. Shrunk(id, l) \in Sessions
      BY Zenon, <2>1, ShrunkEffect
    <2>3. ms' \in Seq(Sessions) /\ Len(ms') = Len(ms) /\ DOMAIN ms' = DOMAIN ms
      BY <2>1, <2>2 DEF Typed
    <2>4. UNCHANGED <<lists, sessionOf>>
      BY Zenon, <1>5 DEF RemoveLink
    <2>. QED
      BY Zenon, <2>1, <2>3, <2>4 DEF Typed
  <1>6. CASE UNCHANGED vars
    BY Zenon, <1>6 DEF vars, Typed
  <1>. QED
    BY Zenon, <1>1, <1>2, <1>3, <1>4, <1>5, <1>6 DEF Next
----------------------------------------------------------------------------
\* erase keeps every link but the one in the place erased.
LEMMA EraseKeeps ==
    ASSUME NEW s \in Seq(Links), NEW i \in DOMAIN s, NEW x \in Range(s), x # s[i]
    PROVE  x \in Range(Erase(s, i))
  <1>1. PICK j \in DOMAIN s : x = s[j]
    BY Zenon DEF Range
  <1>2. Len(s) \in Nat /\ i \in 1 .. Len(s) /\ j \in 1 .. Len(s) /\ j # i
    BY <1>1
  <1>3. DOMAIN Erase(s, i) = 1 .. Len(s) - 1
    BY Zenon DEF Erase
  <1>4. CASE j < i
    <2>1. j \in 1 .. Len(s) - 1 /\ Erase(s, i)[j] = s[j]
      BY <1>2, <1>4 DEF Erase
    <2>. QED
      BY Zenon, <1>1, <1>3, <2>1 DEF Range
  <1>5. CASE j > i
    <2>1. j - 1 \in 1 .. Len(s) - 1 /\ ~(j - 1 < i) /\ (j - 1) + 1 = j
      BY <1>2, <1>5
    <2>2. Erase(s, i)[j - 1] = s[j]
      BY Zenon, <2>1 DEF Erase
    <2>. QED
      BY Zenon, <1>1, <1>3, <2>1, <2>2 DEF Range
  <1>. QED
    BY <1>2, <1>4, <1>5

\* A session's host, or the next one, is among the links left.
LEMMA ShrunkHost ==
    ASSUME Typed, NEW l \in Links, NEW id \in DOMAIN ms, l \in Range(ms[id].links),
           ms[id].host \in Range(ms[id].links), Shrunk(id, l).links # <<>>
    PROVE  Shrunk(id, l).host \in Range(Shrunk(id, l).links)
  <1>. DEFINE links == ms[id].links
              left  == Shrunk(id, l).links
              i     == PlaceOf(links, l)
  <1>1. left = Erase(links, i) /\ Shrunk(id, l).host = HostAfter(ms[id], l, left)
    BY Zenon, ShrunkEffect
  <1>2. links \in Seq(Links)
    <2>1. ms[id] \in Sessions
      BY DEF Typed
    <2>. QED
      BY Zenon, <2>1 DEF Sessions
  <1>3. left \in Seq(Links)
    <2>1. Shrunk(id, l) \in Sessions
      BY Zenon, ShrunkEffect
    <2>. QED
      BY Zenon, <2>1 DEF Sessions
  <1>4. i \in DOMAIN links /\ links[i] = l
    <2>1. \E j \in DOMAIN links : links[j] = l
      BY Zenon DEF Range
    <2>. QED
      BY Zenon, <2>1 DEF PlaceOf
  <1>. HIDE DEF links, left, i
  <1>5. CASE l = ms[id].host
    <2>1. left # <<>>
      BY Zenon DEF left
    <2>2. 1 \in DOMAIN left
      BY <1>3, <2>1, NotEmpty
    <2>3. HostAfter(ms[id], l, left) = left[1]
      BY Zenon, <1>5, <2>1 DEF HostAfter
    <2>4. left[1] \in Range(left)
      BY Zenon, <2>2 DEF Range
    <2>. QED
      BY Zenon, <1>1, <2>3, <2>4 DEF left
  <1>6. CASE l # ms[id].host
    <2>1. HostAfter(ms[id], l, left) = ms[id].host
      BY Zenon, <1>6 DEF HostAfter
    <2>2. ms[id].host \in Range(links)
      BY Zenon DEF links
    <2>3. ms[id].host \in Range(Erase(links, i))
      BY Zenon, <1>2, <1>4, <1>6, <2>2, EraseKeeps
    <2>. QED
      BY Zenon, <1>1, <2>1, <2>3 DEF left
  <1>. QED
    BY Zenon, <1>5, <1>6

\* Every step keeps the host among the links, unless it takes the last of them.
LEMMA HostStep == Typed /\ HostIsMember /\ [Next]_vars => HostIsMember'
  <1>. SUFFICES ASSUME Typed, HostIsMember, [Next]_vars, NEW j \in DOMAIN ms', j \notin emptied'
                PROVE  ms'[j].host \in Range(ms'[j].links)
    BY Zenon DEF HostIsMember, Members
  <1>0. \A k \in DOMAIN ms : k \notin emptied => ms[k].host \in Range(ms[k].links)
    BY Zenon DEF HostIsMember, Members
  <1>1. ASSUME NEW l \in Links, NEW d \in Datas, RegisterServer(l, d)
        PROVE  ms'[j].host \in Range(ms'[j].links)
    <2>1. PICK s \in Sessions : ms' = Append(ms, s) /\ s.links = <<l>> /\ s.host = l
      BY Zenon, <1>1, RegisterEffect
    <2>2. s.host \in Range(s.links)
      BY <2>1 DEF Range
    <2>3. (j \in DOMAIN ms /\ ms'[j] = ms[j]) \/ ms'[j] = s
      BY <2>1 DEF Typed
    <2>4. j \notin emptied
      BY Zenon, <1>1 DEF RegisterServer, AskOnce, NewSession, AddSession
    <2>. QED
      BY Zenon, <1>0, <2>2, <2>3, <2>4
  <1>2. ASSUME NEW l \in Links, NEW f \in Filters, JoinServer(l, f)
        PROVE  ms'[j].host \in Range(ms'[j].links)
    <2>1. PICK id \in DOMAIN ms : ms' = [ms EXCEPT ![id] = AddLink(ms[id], l)]
      BY Zenon, <1>2, JoinEffect
    <2>2. ms[id] \in Sessions
      BY DEF Typed
    <2>3. j \in DOMAIN ms /\ j \notin emptied
      BY Zenon, <1>2, <2>1 DEF JoinServer, AskOnce, JoinSession
    <2>4. ms[j].host \in Range(ms[j].links)
      BY Zenon, <1>0, <2>3
    <2>5. CASE j = id
      <3>1. AddLink(ms[id], l).host \in Range(AddLink(ms[id], l).links)
        BY Zenon, <2>2, <2>4, <2>5, AddLinkEffect
      <3>2. ms'[j] = AddLink(ms[id], l)
        BY Zenon, <2>1, <2>5
      <3>. QED
        BY Zenon, <3>1, <3>2
    <2>6. CASE j # id
      BY Zenon, <2>1, <2>3, <2>4, <2>6
    <2>. QED
      BY Zenon, <2>5, <2>6
  <1>3. ASSUME NEW l \in Links, StartSession(l)
        PROVE  ms'[j].host \in Range(ms'[j].links)
    <2>1. ms' = [ms EXCEPT ![sessionOf[l]] = [@ EXCEPT !.started = TRUE]] /\ emptied' = emptied
      BY Zenon, <1>3 DEF StartSession, Start
    <2>2. j \in DOMAIN ms /\ ms[j] \in Sessions
      BY <2>1 DEF Typed
    <2>3. ms'[j].host = ms[j].host /\ ms'[j].links = ms[j].links
      BY Zenon, <2>1, <2>2 DEF Sessions
    <2>. QED
      BY Zenon, <1>0, <2>1, <2>2, <2>3
  <1>4. ASSUME NEW l \in Links, RemoveLink(l)
        PROVE  ms'[j].host \in Range(ms'[j].links)
    <2>1. PICK id \in DOMAIN ms :
             /\ l \in Range(ms[id].links)
             /\ emptied' = IF Shrunk(id, l).links = <<>> THEN emptied \cup {id} ELSE emptied
             /\ ms' = [ms EXCEPT ![id] = Shrunk(id, l)]
      BY Zenon, <1>4, RemoveEffect
    <2>2. j \in DOMAIN ms /\ j \notin emptied
      BY Zenon, <2>1
    <2>3. ms[j].host \in Range(ms[j].links)
      BY Zenon, <1>0, <2>2
    <2>4. CASE j = id
      <3>1. Shrunk(id, l).links # <<>>
        BY Zenon, <2>1, <2>4
      <3>2. Shrunk(id, l).host \in Range(Shrunk(id, l).links)
        BY <2>1, <2>3, <2>4, <3>1, ShrunkHost
      <3>3. ms'[j] = Shrunk(id, l)
        BY Zenon, <2>1, <2>4
      <3>. QED
        BY Zenon, <3>2, <3>3
    <2>5. CASE j # id
      BY Zenon, <2>1, <2>2, <2>3, <2>5
    <2>. QED
      BY Zenon, <2>4, <2>5
  <1>5. ASSUME UNCHANGED <<ms, emptied>>
        PROVE  ms'[j].host \in Range(ms'[j].links)
    BY Zenon, <1>0, <1>5
  <1>. QED
    BY Zenon, <1>1, <1>2, <1>3, <1>4, <1>5 DEF Next, vars, JoinNothing, AskOnce

\* The master starts with the types right.
LEMMA TypedInit == Init => Typed
  BY DEF Init, Typed

\* "A master session always has a host" (MatchMakerData.cpp:76): for any number of clients,
\* sessions and searches the host of a session is one of its links until the last of them
\* leaves.
THEOREM HostAlwaysMember == Spec => []HostIsMember
  <1>1. Init => HostIsMember
    BY DEF Init, HostIsMember
  <1>. QED
    BY <1>1, TypedInit, TypedStep, HostStep, PTL DEF Spec
----------------------------------------------------------------------------
\* The last RPC of its kind in a sequence: after what is of other kinds it still is, at the end
\* of a sequence it is, and what came before it does not matter.
LEMMA LastInConcat ==
    ASSUME NEW q \in Seq(Rpcs), NEW t \in Seq(Rpcs), NEW m \in Rpcs
    PROVE  /\ LastIn(q, m) /\ (\A x \in Range(t) : x.rpc # m.rpc) => LastIn(q \o t, m)
           /\ LastIn(t, m) => LastIn(q \o t, m)
  <1>. DEFINE n == Len(q)  k == Len(t)  c == q \o t
  <1>1. n \in Nat /\ k \in Nat /\ DOMAIN q = 1 .. n /\ DOMAIN t = 1 .. k
    OBVIOUS
  <1>2. DOMAIN c = 1 .. n + k
    OBVIOUS
  <1>3. \A i \in 1 .. n : c[i] = q[i]
    OBVIOUS
  <1>4. \A i \in 1 .. k : c[i + n] = t[i]
    OBVIOUS
  <1>. HIDE DEF n, k, c
  <1>5. ASSUME NEW j \in 1 .. n + k, j > n PROVE j - n \in 1 .. k /\ c[j] = t[j - n]
    <2>1. j - n \in 1 .. k /\ (j - n) + n = j
      BY <1>1, <1>5
    <2>. QED
      BY Zenon, <1>4, <2>1
  <1>6. ASSUME LastIn(q, m), \A x \in Range(t) : x.rpc # m.rpc PROVE LastIn(c, m)
    <2>1. PICK i \in 1 .. n : q[i] = m /\ \A j \in 1 .. n : j > i => q[j].rpc # m.rpc
      BY Zenon, <1>1, <1>6 DEF LastIn
    <2>2. i \in 1 .. n + k /\ c[i] = m
      BY <1>1, <1>3, <2>1
    <2>3. ASSUME NEW j \in 1 .. n + k, j > i PROVE c[j].rpc # m.rpc
      <3>1. CASE j > n
        <4>1. c[j] \in Range(t)
          BY Zenon, <1>1, <1>5, <3>1 DEF Range
        <4>. QED
          BY Zenon, <1>6, <4>1
      <3>2. CASE ~(j > n)
        <4>1. j \in 1 .. n
          BY <1>1, <3>2
        <4>. QED
          BY Zenon, <1>3, <2>1, <2>3, <4>1
      <3>. QED
        BY Zenon, <3>1, <3>2
    <2>. QED
      BY Zenon, <1>2, <2>2, <2>3 DEF LastIn
  <1>7. ASSUME LastIn(t, m) PROVE LastIn(c, m)
    <2>1. PICK i \in 1 .. k : t[i] = m /\ \A j \in 1 .. k : j > i => t[j].rpc # m.rpc
      BY Zenon, <1>1, <1>7 DEF LastIn
    <2>2. i + n \in 1 .. n + k /\ c[i + n] = m
      BY <1>1, <1>4, <2>1
    <2>3. ASSUME NEW j \in 1 .. n + k, j > i + n PROVE c[j].rpc # m.rpc
      <3>1. j > n /\ j - n > i
        BY <1>1, <2>3
      <3>. QED
        BY Zenon, <1>5, <2>1, <3>1
    <2>. QED
      BY Zenon, <1>2, <2>2, <2>3 DEF LastIn
  <1>. QED
    BY Zenon, <1>6, <1>7 DEF c

\* Introductions are requests to connect and nothing else.
LEMMA IntroductionsTold ==
    ASSUME NEW s \in Sessions, NEW l \in Links, NEW k \in Links
    PROVE  /\ Introductions(s, l, k) \in Seq(Rpcs)
           /\ \A m \in Range(Introductions(s, l, k)) : m.rpc = "connectTo"
  <1>. DEFINE B == IF k = l THEN [j \in DOMAIN s.links |-> ConnectTo(s.links[j])] ELSE <<>>
              C == IF k \in Range(s.links) THEN <<ConnectTo(l)>> ELSE <<>>
              I == Introductions(s, l, k)
  <1>1. s.links \in Seq(Links) /\ s.host \in Links
    BY Zenon DEF Sessions
  <1>2. /\ \A x \in Links \cup {None} : /\ ConnectTo(x) \in Rpcs /\ NewHost(x) \in Rpcs
                                        /\ ConnectTo(x).rpc = "connectTo" /\ NewHost(x).rpc = "newHost"
        /\ Result(TRUE) \in Rpcs /\ Result(TRUE).rpc = "success"
    BY Zenon DEF ConnectTo, NewHost, Result, Rpcs
  <1>4. \A x \in Rpcs : <<x>> \in Seq(Rpcs) /\ Range(<<x>>) = {x}
    BY DEF Range
  <1>5. <<>> \in Seq(Rpcs) /\ Range(<<>>) = {}
    BY DEF Range
  <1>6. B \in Seq(Rpcs) /\ \A m \in Range(B) : m.rpc = "connectTo"
    <2>1. \A j \in 1 .. Len(s.links) : s.links[j] \in Links
      BY <1>1
    <2>2. CASE k = l
      <3>1. B = [j \in 1 .. Len(s.links) |-> ConnectTo(s.links[j])]
        BY <1>1, <2>2
      <3>2. B \in [1 .. Len(s.links) -> Rpcs]
        BY <1>2, <2>1, <3>1
      <3>3. \A j \in 1 .. Len(s.links) : B[j].rpc = "connectTo"
        BY <1>2, <2>1, <3>1
      <3>4. Len(s.links) \in Nat
        BY <1>1
      <3>. HIDE DEF B
      <3>. QED
        BY <3>2, <3>3, <3>4 DEF Range
    <2>3. CASE k # l
      BY Zenon, <1>5, <2>3
    <2>. QED
      BY Zenon, <2>2, <2>3
  <1>a. \A x \in Links : <<ConnectTo(x)>> \in Seq(Rpcs) /\ \A m \in Range(<<ConnectTo(x)>>) : m.rpc = "connectTo"
    <2>. SUFFICES ASSUME NEW x \in Links
                  PROVE  <<ConnectTo(x)>> \in Seq(Rpcs) /\ \A m \in Range(<<ConnectTo(x)>>) : m.rpc = "connectTo"
      OBVIOUS
    <2>1. ConnectTo(x) \in Rpcs /\ ConnectTo(x).rpc = "connectTo"
      BY Zenon, <1>2
    <2>2. <<ConnectTo(x)>> \in Seq(Rpcs) /\ Range(<<ConnectTo(x)>>) = {ConnectTo(x)}
      BY Zenon, <1>4, <2>1
    <2>. QED
      BY Zenon, <2>1, <2>2
  <1>7. C \in Seq(Rpcs) /\ \A m \in Range(C) : m.rpc = "connectTo"
    BY Zenon, <1>5, <1>a
  <1>8. I = IF s.data.p2p THEN B \o C ELSE IF l = k THEN <<ConnectTo(s.host)>> ELSE <<>>
    BY Zenon DEF Introductions
  <1>. HIDE DEF B, C, I
  <1>9. B \o C \in Seq(Rpcs) /\ \A m \in Range(B \o C) : m.rpc = "connectTo"
    BY <1>6, <1>7, RangeConcat
  <1>10. I \in Seq(Rpcs) /\ \A m \in Range(I) : m.rpc = "connectTo"
    BY Zenon, <1>1, <1>5, <1>8, <1>9, <1>a
  <1>. QED
    BY Zenon, <1>10 DEF I

\* What joining sends: to others only introductions, to the new link its host, introductions
\* and success.
LEMMA JoinNotesTold ==
    ASSUME NEW s \in Sessions, NEW l \in Links, NEW k \in Links
    PROVE  /\ k # l => \A m \in Range(JoinNotes(s, l, TRUE, k)) : m.rpc = "connectTo"
           /\ k = l => /\ Result(TRUE) \in Range(JoinNotes(s, l, TRUE, k))
                       /\ LastIn(JoinNotes(s, l, TRUE, k), HostNote(s, l))
  <1>. DEFINE A == IF k = l THEN <<HostNote(s, l)>> ELSE <<>>
              D == IF k = l THEN <<Result(TRUE)>> ELSE <<>>
              I == Introductions(s, l, k)
  <1>1. s.links \in Seq(Links) /\ s.host \in Links
    BY DEF Sessions
  <1>2. /\ \A x \in Links \cup {None} : /\ ConnectTo(x) \in Rpcs /\ NewHost(x) \in Rpcs
                                        /\ ConnectTo(x).rpc = "connectTo" /\ NewHost(x).rpc = "newHost"
        /\ Result(TRUE) \in Rpcs /\ Result(TRUE).rpc = "success"
    BY DEF ConnectTo, NewHost, Result, Rpcs
  <1>3. HostNote(s, l) \in Rpcs /\ HostNote(s, l).rpc = "newHost"
    BY Zenon, <1>1, <1>2 DEF HostNote
  <1>4. \A x \in Rpcs : <<x>> \in Seq(Rpcs) /\ Range(<<x>>) = {x} /\ LastIn(<<x>>, x)
    BY DEF Range, LastIn
  <1>5. <<>> \in Seq(Rpcs) /\ Range(<<>>) = {}
    BY DEF Range
  <1>9. D \in Seq(Rpcs) /\ (k = l => Range(D) = {Result(TRUE)}) /\ (k # l => Range(D) = {})
    BY Zenon, <1>2, <1>4, <1>5
  <1>10. A \in Seq(Rpcs) /\ (k = l => LastIn(A, HostNote(s, l))) /\ (k # l => Range(A) = {})
    BY Zenon, <1>3, <1>4, <1>5
  <1>11. JoinNotes(s, l, TRUE, k) = (A \o I) \o D
    BY Zenon DEF JoinNotes
  <1>. HIDE DEF A, D
  <1>12. I \in Seq(Rpcs) /\ \A m \in Range(I) : m.rpc = "connectTo"
    BY Zenon, IntroductionsTold
  <1>. HIDE DEF I
  <1>. DEFINE AI == A \o I
  <1>13. /\ AI \in Seq(Rpcs) /\ Range(AI) = Range(A) \cup Range(I)
         /\ k = l => LastIn(AI, HostNote(s, l))
    BY <1>3, <1>10, <1>12, RangeConcat, LastInConcat
  <1>. HIDE DEF AI
  <1>14. Range(AI \o D) = Range(AI) \cup Range(D)
    BY <1>9, <1>13, RangeConcat
  <1>15. k = l => LastIn(AI \o D, HostNote(s, l))
    <2>1. \A m \in Range(D) : m.rpc # HostNote(s, l).rpc
      BY Zenon, <1>2, <1>3, <1>9
    <2>. QED
      BY Zenon, <1>3, <1>9, <1>13, <2>1, LastInConcat
  <1>. QED
    BY Zenon, <1>9, <1>10, <1>11, <1>12, <1>13, <1>14, <1>15 DEF AI

\* A member of a session has it as its session, and asked for it: a link is in one session at
\* most.
Belongs ==
    /\ \A l \in Links : sessionOf[l] # 0 => l \in asked
    /\ \A id \in DOMAIN ms : \A l \in Range(ms[id].links) : sessionOf[l] = id

\* Every step keeps links in their sessions.
LEMMA BelongsStep == Typed /\ Belongs /\ [Next]_vars => Belongs'
  <1>. SUFFICES ASSUME Typed, Belongs, [Next]_vars PROVE Belongs'
    OBVIOUS
  <1>a. Typed'
    BY Zenon, TypedStep
  <1>b. \A j \in DOMAIN ms : Range(ms[j].links) \subseteq Links
    <2>. SUFFICES ASSUME NEW j \in DOMAIN ms PROVE Range(ms[j].links) \subseteq Links
      OBVIOUS
    <2>1. ms[j] \in Sessions
      BY DEF Typed
    <2>2. ms[j].links \in Seq(Links)
      BY Zenon, <2>1 DEF Sessions
    <2>. QED
      BY <2>2 DEF Range
  <1>1. ASSUME NEW l \in Links, NEW d \in Datas, RegisterServer(l, d) PROVE Belongs'
    <2>1. PICK s \in Sessions : /\ ms' = Append(ms, s) /\ s.links = <<l>>
                                /\ sessionOf' = [sessionOf EXCEPT ![l] = Len(ms) + 1]
      BY Zenon, <1>1, RegisterEffect
    <2>2. l \notin asked /\ asked' = asked \cup {l}
      BY Zenon, <1>1 DEF RegisterServer, AskOnce
    <2>3. sessionOf[l] = 0
      BY Zenon, <2>2 DEF Belongs
    <2>4. ASSUME NEW j \in DOMAIN ms', NEW k \in Range(ms'[j].links) PROVE sessionOf'[k] = j
      <3>1. (j \in DOMAIN ms /\ ms'[j] = ms[j]) \/ (j = Len(ms) + 1 /\ ms'[j] = s)
        BY <2>1 DEF Typed
      <3>2. CASE j \in DOMAIN ms /\ ms'[j] = ms[j]
        <4>1. k \in Links /\ sessionOf[k] = j /\ j # 0
          BY <1>b, <3>2 DEF Belongs, Typed
        <4>. QED
          BY Zenon, <2>1, <2>3, <4>1 DEF Typed
      <3>3. CASE j = Len(ms) + 1 /\ ms'[j] = s
        <4>1. k = l
          BY <2>1, <3>3 DEF Range
        <4>. QED
          BY Zenon, <2>1, <3>3, <4>1 DEF Typed
      <3>. QED
        BY Zenon, <3>1, <3>2, <3>3
    <2>. QED
      BY Zenon, <2>1, <2>2, <2>4 DEF Belongs, Typed
  <1>2. ASSUME NEW l \in Links, NEW f \in Filters, JoinServer(l, f) PROVE Belongs'
    <2>1. PICK id \in DOMAIN ms : /\ ms' = [ms EXCEPT ![id] = AddLink(ms[id], l)]
                                  /\ sessionOf' = [sessionOf EXCEPT ![l] = id]
      BY Zenon, <1>2, JoinEffect
    <2>2. l \notin asked /\ asked' = asked \cup {l}
      BY Zenon, <1>2 DEF JoinServer, AskOnce
    <2>3. sessionOf[l] = 0
      BY Zenon, <2>2 DEF Belongs
    <2>4. Range(AddLink(ms[id], l).links) \subseteq Range(ms[id].links) \cup {l}
      <3>1. ms[id] \in Sessions
        BY DEF Typed
      <3>. QED
        BY Zenon, <3>1, AddLinkEffect
    <2>5. ASSUME NEW j \in DOMAIN ms', NEW k \in Range(ms'[j].links) PROVE sessionOf'[k] = j
      <3>1. j \in DOMAIN ms /\ j # 0 /\ (k \in Range(ms[j].links) \/ (j = id /\ k = l))
        BY <2>1, <2>4 DEF Typed
      <3>. QED
        BY Zenon, <1>b, <2>1, <2>3, <3>1 DEF Belongs, Typed
    <2>. QED
      BY <2>1, <2>2, <2>5 DEF Belongs, Typed
  <1>3. ASSUME NEW l \in Links, NEW f \in Filters, JoinNothing(l, f) PROVE Belongs'
    BY Zenon, <1>3 DEF JoinNothing, AskOnce, Belongs
  <1>4. ASSUME NEW l \in Links, StartSession(l) PROVE Belongs'
    <2>1. ms' = [ms EXCEPT ![sessionOf[l]] = [@ EXCEPT !.started = TRUE]] /\ UNCHANGED <<sessionOf, asked>>
      BY Zenon, <1>4 DEF StartSession, Start
    <2>2. ASSUME NEW j \in DOMAIN ms' PROVE j \in DOMAIN ms /\ ms'[j].links = ms[j].links
      <3>1. j \in DOMAIN ms /\ ms[j] \in Sessions
        BY SMTT(30), <2>1 DEF Typed
      <3>. QED
        BY Zenon, <2>1, <3>1 DEF Sessions
    <2>. QED
      BY <2>1, <2>2 DEF Belongs
  <1>5. ASSUME NEW l \in Links, RemoveLink(l) PROVE Belongs'
    <2>1. PICK id \in DOMAIN ms : l \in Range(ms[id].links) /\ ms' = [ms EXCEPT ![id] = Shrunk(id, l)]
      BY Zenon, <1>5, RemoveEffect
    <2>2. Range(Shrunk(id, l).links) \subseteq Range(ms[id].links)
      BY Zenon, <2>1, ShrunkEffect
    <2>3. UNCHANGED <<sessionOf, asked>>
      BY Zenon, <1>5 DEF RemoveLink
    <2>4. \A j \in DOMAIN ms' : j \in DOMAIN ms /\ Range(ms'[j].links) \subseteq Range(ms[j].links)
      BY Zenon, <2>1, <2>2
    <2>. QED
      BY Zenon, <2>3, <2>4 DEF Belongs
  <1>6. CASE UNCHANGED vars
    BY Zenon, <1>6 DEF vars, Belongs
  <1>. QED
    BY Zenon, <1>1, <1>2, <1>3, <1>4, <1>5, <1>6 DEF Next
----------------------------------------------------------------------------
\* As long as nobody left a p2p session, who was let in is still there.
Whole ==
    \A id \in DOMAIN ms : (ms[id].data.p2p /\ ~ms[id].someoneLeft) => LetIn(id) \subseteq Members(id)

\* A step that lets nobody in, and after which somebody left every session that lost a link.
LEMMA IntroSame ==
    ASSUME Whole, PeersIntroduced, sessionOf' = sessionOf, DOMAIN ms' = DOMAIN ms,
           \A j \in DOMAIN ms : /\ ms'[j].data = ms[j].data
                                /\ ms'[j].someoneLeft \/ (ms'[j].links = ms[j].links /\ ~ms[j].someoneLeft),
           \A k \in Links : Range(out[k]) \subseteq Range(out'[k])
    PROVE  Whole' /\ PeersIntroduced'
  <1>1. \A j : LetIn(j)' = LetIn(j)
    BY Zenon DEF LetIn
  <1>2. Whole'
    BY Zenon, <1>1 DEF Whole, Members
  <1>3. PeersIntroduced'
    <2>. SUFFICES ASSUME NEW j \in DOMAIN ms', ms'[j].data.p2p, NEW a \in LetIn(j)', NEW b \in LetIn(j)', a # b
                  PROVE  ConnectTo(b) \in Range(out'[a])
      BY Zenon DEF PeersIntroduced, ConnectTo
    <2>1. a \in LetIn(j) /\ b \in LetIn(j) /\ a \in Links
      BY Zenon, <1>1 DEF LetIn
    <2>. QED
      BY Zenon, <2>1 DEF PeersIntroduced
  <1>. QED
    BY Zenon, <1>2, <1>3

\* registerSession: the first one of a new session.
LEMMA IntroRegister ==
    ASSUME Typed, Belongs, Whole, PeersIntroduced, NEW l \in Links, NEW d \in Datas, RegisterServer(l, d)
    PROVE  Whole' /\ PeersIntroduced'
  <1>. DEFINE n == Len(ms) + 1
  <1>1. PICK s \in Sessions : /\ ms' = Append(ms, s) /\ s.links = <<l>>
                              /\ sessionOf' = [sessionOf EXCEPT ![l] = n]
                              /\ \A k \in Links : Range(out[k]) \subseteq Range(out'[k])
    BY Zenon, RegisterEffect
  <1>2. sessionOf[l] = 0
    BY Zenon DEF RegisterServer, AskOnce, Belongs
  <1>3. /\ \A j \in DOMAIN ms' : (j \in DOMAIN ms /\ ms'[j] = ms[j]) \/ (j = n /\ ms'[j] = s)
        /\ \A j \in DOMAIN ms : j # n /\ j # 0
        /\ \A k \in Links : sessionOf[k] # n
        /\ sessionOf \in [Links -> 0 .. Len(ms)]
        /\ l \in Range(s.links)
    BY <1>1 DEF Typed, Range
  <1>. HIDE DEF n
  <1>4. \A j \in DOMAIN ms : LetIn(j)' = LetIn(j)
    BY Zenon, <1>1, <1>2, <1>3 DEF LetIn
  <1>5. \A j : j = n => \A k \in LetIn(j)' : k = l
    BY Zenon, <1>1, <1>3 DEF LetIn
  <1>6. Whole'
    BY Zenon, <1>3, <1>4, <1>5 DEF Whole, Members
  <1>7. PeersIntroduced'
    <2>. SUFFICES ASSUME NEW j \in DOMAIN ms', ms'[j].data.p2p, NEW a \in LetIn(j)', NEW b \in LetIn(j)', a # b
                  PROVE  ConnectTo(b) \in Range(out'[a])
      BY Zenon DEF PeersIntroduced, ConnectTo
    <2>1. j \in DOMAIN ms /\ ms'[j] = ms[j]
      BY Zenon, <1>3, <1>5
    <2>2. a \in LetIn(j) /\ b \in LetIn(j) /\ a \in Links
      BY Zenon, <1>4, <2>1 DEF LetIn
    <2>. QED
      BY Zenon, <1>1, <2>1, <2>2 DEF PeersIntroduced
  <1>. QED
    BY Zenon, <1>6, <1>7

\* A link is led to a session: canJoin says that nobody left, so that all who were let in hear.
LEMMA IntroJoin ==
    ASSUME Typed, Belongs, Whole, PeersIntroduced, NEW l \in Links, NEW f \in Filters, JoinServer(l, f)
    PROVE  Whole' /\ PeersIntroduced'
  <1>1. PICK id \in DOMAIN ms :
           /\ CanJoin(ms[id])
           /\ ms' = [ms EXCEPT ![id] = AddLink(ms[id], l)]
           /\ sessionOf' = [sessionOf EXCEPT ![l] = id]
           /\ \A k \in Links : Range(out'[k]) = Range(out[k]) \cup Range(JoinNotes(AddLink(ms[id], l), l, TRUE, k))
    BY Zenon, JoinEffect
  <1>. DEFINE s == AddLink(ms[id], l)
  <1>2. ms[id] \in Sessions
    BY DEF Typed
  <1>3. s \in Sessions /\ s.data = ms[id].data /\ Range(ms[id].links) \subseteq Range(s.links)
    BY Zenon, <1>2, AddLinkEffect
  <1>4. l \in Range(s.links)
    BY Zenon, <1>1, <1>2, AddLinkEffect
  <1>. HIDE DEF s
  <1>5. sessionOf[l] = 0
    BY Zenon DEF JoinServer, AskOnce, Belongs
  <1>6. /\ DOMAIN ms' = DOMAIN ms /\ ms'[id] = s
        /\ \A j \in DOMAIN ms : j # id => ms'[j] = ms[j]
        /\ \A j \in DOMAIN ms : j # 0
        /\ sessionOf \in [Links -> 0 .. Len(ms)]
    BY <1>1 DEF Typed, s
  <1>7. \A j \in DOMAIN ms : j # id => LetIn(j)' = LetIn(j)
    BY Zenon, <1>1, <1>5, <1>6 DEF LetIn
  <1>8. LetIn(id)' \subseteq LetIn(id) \cup {l}
    BY Zenon, <1>1, <1>6 DEF LetIn
  <1>9. s.data.p2p => LetIn(id)' \subseteq Range(s.links)
    BY Zenon, <1>1, <1>3, <1>4, <1>8 DEF Whole, Members, CanJoin
  <1>10. Whole'
    BY Zenon, <1>6, <1>7, <1>9 DEF Whole, Members
  <1>11. PeersIntroduced'
    <2>. SUFFICES ASSUME NEW j \in DOMAIN ms', ms'[j].data.p2p, NEW a \in LetIn(j)', NEW b \in LetIn(j)', a # b
                  PROVE  ConnectTo(b) \in Range(out'[a])
      BY Zenon DEF PeersIntroduced, ConnectTo
    <2>0. a \in Links /\ b \in Links
      BY Zenon DEF LetIn
    <2>1. ASSUME a \in LetIn(j), b \in LetIn(j), ms[j].data.p2p, j \in DOMAIN ms PROVE ConnectTo(b) \in Range(out'[a])
      <3>1. ConnectTo(b) \in Range(out[a])
        BY Zenon, <2>1 DEF PeersIntroduced
      <3>. QED
        BY Zenon, <1>1, <2>0, <3>1
    <2>2. CASE j # id
      BY Zenon, <1>6, <1>7, <2>1, <2>2
    <2>3. CASE j = id
      <3>1. s.data.p2p /\ a \in Range(s.links) /\ b \in Range(s.links)
        BY Zenon, <1>6, <1>9, <2>3
      <3>2. CASE a = l
        BY Zenon, <1>1, <1>3, <2>0, <3>1, <3>2, JoinNotesEffect DEF s
      <3>3. CASE b = l
        BY Zenon, <1>1, <1>3, <2>0, <3>1, <3>3, JoinNotesEffect DEF s
      <3>4. CASE a # l /\ b # l
        BY Zenon, <1>3, <1>6, <1>8, <2>1, <2>3, <3>1, <3>4
      <3>. QED
        BY Zenon, <3>2, <3>3, <3>4
    <2>. QED
      BY Zenon, <2>2, <2>3
  <1>. QED
    BY Zenon, <1>10, <1>11

\* Every step keeps those that were let in to a p2p session introduced.
LEMMA IntroStep == Typed /\ Belongs /\ Whole /\ PeersIntroduced /\ [Next]_vars => Whole' /\ PeersIntroduced'
  <1>. SUFFICES ASSUME Typed, Belongs, Whole, PeersIntroduced, [Next]_vars PROVE Whole' /\ PeersIntroduced'
    OBVIOUS
  <1>0. \A j \in DOMAIN ms : ms[j] \in Sessions /\ ms[j].someoneLeft \in BOOLEAN
    <2>1. \A j \in DOMAIN ms : ms[j] \in Sessions
      BY DEF Typed
    <2>. QED
      BY Zenon, <2>1 DEF Sessions
  <1>1. ASSUME NEW l \in Links, NEW f \in Filters, JoinNothing(l, f) PROVE Whole' /\ PeersIntroduced'
    <2>1. ms' = ms /\ sessionOf' = sessionOf
      BY Zenon, <1>1 DEF JoinNothing, AskOnce
    <2>2. \A k \in Links : Range(out[k]) \subseteq Range(out'[k])
      <3>1. out[l] \in Seq(Rpcs)
        BY Zenon DEF Typed
      <3>2. \A s \in Seq(Rpcs) : \A m : Range(s) \subseteq Range(Append(s, m))
        BY DEF Range
      <3>3. \A k \in Links : out'[k] = out[k] \/ (k = l /\ out'[k] = Append(out[l], Result(FALSE)))
        BY Zenon, <1>1 DEF JoinNothing, AskOnce, Typed
      <3>. QED
        BY Zenon, <3>1, <3>2, <3>3
    <2>. QED
      BY Zenon, <2>1, <2>2, IntroSame
  <1>2. ASSUME NEW l \in Links, StartSession(l) PROVE Whole' /\ PeersIntroduced'
    <2>1. /\ ms' = [ms EXCEPT ![sessionOf[l]] = [@ EXCEPT !.started = TRUE]]
          /\ UNCHANGED <<out, sessionOf>>
      BY Zenon, <1>2 DEF StartSession, Start
    <2>2. \A j \in DOMAIN ms : /\ ms'[j].data = ms[j].data /\ ms'[j].links = ms[j].links
                               /\ ms'[j].someoneLeft = ms[j].someoneLeft
      BY Zenon, <1>0, <2>1 DEF Sessions
    <2>. QED
      BY Zenon, <2>1, <2>2, IntroSame
  <1>3. ASSUME NEW l \in Links, RemoveLink(l) PROVE Whole' /\ PeersIntroduced'
    <2>1. PICK id \in DOMAIN ms :
             /\ l \in Range(ms[id].links)
             /\ ms' = [ms EXCEPT ![id] = Shrunk(id, l)]
             /\ \A k \in Links : Range(out[k]) \subseteq Range(out'[k])
      BY Zenon, <1>3, RemoveEffect
    <2>2. Shrunk(id, l).data = ms[id].data /\ Shrunk(id, l).someoneLeft
      BY Zenon, <2>1, ShrunkEffect
    <2>3. sessionOf' = sessionOf
      BY Zenon, <1>3 DEF RemoveLink
    <2>4. DOMAIN ms' = DOMAIN ms /\ \A j \in DOMAIN ms : ms'[j] = ms[j] \/ (j = id /\ ms'[j] = Shrunk(id, l))
      BY Zenon, <2>1
    <2>. QED
      BY Zenon, <2>1, <2>2, <2>3, <2>4, IntroSame
  <1>4. CASE UNCHANGED vars
    BY Zenon, <1>4, IntroSame DEF vars
  <1>. QED
    BY Zenon, <1>1, <1>2, <1>3, <1>4, IntroRegister, IntroJoin DEF Next

\* sendConnectRequests reaches everybody, and canJoin keeps out whoever could not be introduced to
\* one that left: for any number of clients, any two that were ever let in to a p2p session were
\* each told to connect to the other.
THEOREM AllPeersIntroduced == Spec => []PeersIntroduced
  <1>1. Init => PeersIntroduced /\ Whole /\ Belongs
    BY DEF Init, PeersIntroduced, Whole, Belongs
  <1>. QED
    BY <1>1, TypedInit, TypedStep, BelongsStep, IntroStep, PTL DEF Spec

\* Every step keeps success and having a session the same.
LEMMA SuccessStep == Typed /\ SuccessMeansSession /\ [Next]_vars => SuccessMeansSession'
  <1>. SUFFICES ASSUME Typed, SuccessMeansSession, [Next]_vars, NEW k \in Links
                PROVE  sessionOf'[k] # 0 <=> Result(TRUE) \in Range(out'[k])
    BY Zenon DEF SuccessMeansSession, Result
  <1>0. sessionOf[k] # 0 <=> Result(TRUE) \in Range(out[k])
    BY Zenon DEF SuccessMeansSession
  <1>a. out[k] \in Seq(Rpcs)
    BY Zenon DEF Typed
  <1>b. /\ Result(TRUE) \in Rpcs /\ Result(FALSE) \in Rpcs /\ Result(FALSE) # Result(TRUE)
        /\ Result(TRUE).rpc = "success"
    BY Zenon DEF Result, Rpcs
  <1>c. \A s \in Sessions, m \in Links : HostNote(s, m) \in Rpcs /\ HostNote(s, m) # Result(TRUE)
    BY Zenon DEF HostNote, NewHost, Result, Rpcs, Sessions
  <1>d. \A q \in Seq(Rpcs), m \in Rpcs : Range(Append(q, m)) = Range(q) \cup {m}
    <2>. SUFFICES ASSUME NEW q \in Seq(Rpcs), NEW m \in Rpcs PROVE Range(Append(q, m)) = Range(q) \cup {m}
      OBVIOUS
    <2>. DEFINE t == <<m>>
    <2>1. t \in Seq(Rpcs) /\ Range(t) = {m}
      BY DEF Range
    <2>2. Append(q, m) = q \o t
      OBVIOUS
    <2>. HIDE DEF t
    <2>3. Range(q \o t) = Range(q) \cup Range(t)
      BY <2>1, RangeConcat
    <2>. QED
      BY Zenon, <2>1, <2>2, <2>3
  <1>1. ASSUME NEW l \in Links, NEW d \in Datas, RegisterServer(l, d)
        PROVE  sessionOf'[k] # 0 <=> Result(TRUE) \in Range(out'[k])
    <2>1. PICK s \in Sessions : /\ sessionOf' = [sessionOf EXCEPT ![l] = Len(ms) + 1]
                                /\ out' = [out EXCEPT ![l] = @ \o <<HostNote(s, l), Result(TRUE)>>]
      BY Zenon, <1>1, RegisterEffect
    <2>2. CASE k = l
      <3>. DEFINE n == <<HostNote(s, l), Result(TRUE)>>
      <3>1. n \in Seq(Rpcs) /\ Result(TRUE) \in Range(n)
        <4>1. HostNote(s, l) \in Rpcs
          BY Zenon, <1>c
        <4>2. \A a, b \in Rpcs : <<a, b>> \in Seq(Rpcs) /\ b \in Range(<<a, b>>)
          BY DEF Range
        <4>. QED
          BY Zenon, <1>b, <4>1, <4>2
      <3>2. out'[k] = out[k] \o n
        BY Zenon, <2>1, <2>2 DEF Typed
      <3>. DEFINE old == out[k]
      <3>a. old \in Seq(Rpcs)
        BY Zenon, <1>a
      <3>. HIDE DEF n, old
      <3>b. Range(old \o n) = Range(old) \cup Range(n)
        BY <3>1, <3>a, RangeConcat
      <3>3. Result(TRUE) \in Range(out'[k])
        BY Zenon, <3>1, <3>2, <3>b DEF old
      <3>4. sessionOf'[k] # 0
        BY <2>1, <2>2 DEF Typed
      <3>. QED
        BY Zenon, <3>3, <3>4
    <2>3. CASE k # l
      BY Zenon, <1>0, <2>1, <2>3 DEF Typed
    <2>. QED
      BY Zenon, <2>2, <2>3
  <1>2. ASSUME NEW l \in Links, NEW f \in Filters, JoinServer(l, f)
        PROVE  sessionOf'[k] # 0 <=> Result(TRUE) \in Range(out'[k])
    <2>1. PICK id \in DOMAIN ms :
            /\ sessionOf' = [sessionOf EXCEPT ![l] = id]
            /\ Range(out'[k]) = Range(out[k]) \cup Range(JoinNotes(AddLink(ms[id], l), l, TRUE, k))
      BY Zenon, <1>2, JoinEffect
    <2>2. AddLink(ms[id], l) \in Sessions
      BY AddLinkEffect DEF Typed
    <2>3. CASE k = l
      <3>1. Result(TRUE) \in Range(out'[k])
        BY ZenonT(30), <2>1, <2>2, <2>3, JoinNotesTold
      <3>2. sessionOf'[k] # 0
        BY <2>1, <2>3 DEF Typed
      <3>. QED
        BY Zenon, <3>1, <3>2
    <2>4. CASE k # l
      <3>1. \A m \in Range(JoinNotes(AddLink(ms[id], l), l, TRUE, k)) : m.rpc = "connectTo"
        BY Zenon, <2>2, <2>4, JoinNotesTold
      <3>2. Result(TRUE) \in Range(out'[k]) <=> Result(TRUE) \in Range(out[k])
        BY Zenon, <1>b, <2>1, <3>1
      <3>3. sessionOf'[k] = sessionOf[k]
        BY Zenon, <2>1, <2>4 DEF Typed
      <3>. QED
        BY Zenon, <1>0, <3>2, <3>3
    <2>. QED
      BY Zenon, <2>3, <2>4
  <1>3. ASSUME NEW l \in Links, NEW f \in Filters, JoinNothing(l, f)
        PROVE  sessionOf'[k] # 0 <=> Result(TRUE) \in Range(out'[k])
    <2>1. sessionOf' = sessionOf /\ (out'[k] = out[k] \/ out'[k] = Append(out[k], Result(FALSE)))
      BY Zenon, <1>3 DEF JoinNothing, Typed
    <2>2. Range(Append(out[k], Result(FALSE))) = Range(out[k]) \cup {Result(FALSE)}
      BY Zenon, <1>a, <1>b, <1>d
    <2>3. Range(out'[k]) = Range(out[k]) \/ Range(out'[k]) = Range(out[k]) \cup {Result(FALSE)}
      BY Zenon, <2>1, <2>2
    <2>. QED
      BY Zenon, <1>0, <1>b, <2>1, <2>3
  <1>4. ASSUME NEW l \in Links, RemoveLink(l)
        PROVE  sessionOf'[k] # 0 <=> Result(TRUE) \in Range(out'[k])
    <2>1. PICK id \in DOMAIN ms :
            /\ l \in Range(ms[id].links)
            /\ out' = [m \in Links |-> IF l = ms[id].host /\ m \in Range(Shrunk(id, l).links) \cup {Shrunk(id, l).host}
                                          THEN Append(out[m], HostNote(Shrunk(id, l), m)) ELSE out[m]]
      BY <1>4, RemoveEffect
    <2>2. out'[k] = out[k] \/ out'[k] = Append(out[k], HostNote(Shrunk(id, l), k))
      BY Zenon, <2>1
    <2>3. Shrunk(id, l) \in Sessions
      BY Zenon, <2>1, ShrunkEffect
    <2>4. HostNote(Shrunk(id, l), k) \in Rpcs /\ HostNote(Shrunk(id, l), k) # Result(TRUE)
      BY Zenon, <1>c, <2>3
    <2>5. sessionOf' = sessionOf
      BY Zenon, <1>4 DEF RemoveLink
    <2>6. Range(Append(out[k], HostNote(Shrunk(id, l), k))) = Range(out[k]) \cup {HostNote(Shrunk(id, l), k)}
      BY Zenon, <1>a, <1>d, <2>4
    <2>7. Range(out'[k]) = Range(out[k]) \/ Range(out'[k]) = Range(out[k]) \cup {HostNote(Shrunk(id, l), k)}
      BY Zenon, <2>2, <2>6
    <2>. QED
      BY Zenon, <1>0, <2>4, <2>5, <2>7
  <1>5. ASSUME UNCHANGED <<sessionOf, out>>
        PROVE  sessionOf'[k] # 0 <=> Result(TRUE) \in Range(out'[k])
    BY Zenon, <1>0, <1>5
  <1>. QED
    BY Zenon, <1>1, <1>2, <1>3, <1>4, <1>5 DEF Next, vars, StartSession

\* What masterLinkRpcRegisterServer and masterLinkRpcJoinServer report is true: a link was told
\* of success exactly if it has a session.
THEOREM SuccessIsTrue == Spec => []SuccessMeansSession
  <1>1. Init => SuccessMeansSession
    BY DEF Init, SuccessMeansSession, Range
  <1>. QED
    BY <1>1, TypedInit, TypedStep, SuccessStep, PTL DEF Spec

\* What the member l of the session s must have heard last.
Known(s, l, q) == LastIn(q, NewHost(IF l = s.host THEN None ELSE s.host))

\* Every step keeps the members told of their host.
LEMMA KnownStep == Typed /\ Belongs /\ HostKnown /\ [Next]_vars => HostKnown'
  <1>. SUFFICES ASSUME Typed, Belongs, HostKnown, [Next]_vars,
                       NEW j \in DOMAIN ms', NEW k \in Range(ms'[j].links)
                PROVE  Known(ms'[j], k, out'[k])
    BY Zenon DEF HostKnown, Members, Known, NewHost, LastIn
  <1>0. ASSUME NEW i \in DOMAIN ms, NEW m \in Range(ms[i].links) PROVE Known(ms[i], m, out[m])
    BY Zenon DEF HostKnown, Members, Known
  <1>a. Typed'
    BY Zenon, TypedStep
  <1>b. ms'[j] \in Sessions /\ k \in Links /\ out[k] \in Seq(Rpcs)
    <2>1. ms'[j] \in Sessions
      BY <1>a DEF Typed
    <2>2. ms'[j].links \in Seq(Links)
      BY Zenon, <2>1 DEF Sessions
    <2>3. k \in Links
      BY SMTT(30), <2>2 DEF Range
    <2>. QED
      BY Zenon, <2>1, <2>3 DEF Typed
  <1>c. \A s \in Sessions : /\ NewHost(IF k = s.host THEN None ELSE s.host) \in Rpcs
                            /\ NewHost(IF k = s.host THEN None ELSE s.host).rpc = "newHost"
    BY Zenon, <1>b DEF NewHost, Rpcs, Sessions
  <1>d. ASSUME NEW s \in Sessions, NEW t \in Seq(Rpcs), LastIn(t, HostNote(s, k))
        PROVE  Known(s, k, out[k] \o t)
    <2>. DEFINE q == out[k]  m == NewHost(IF k = s.host THEN None ELSE s.host)
    <2>1. q \in Seq(Rpcs) /\ m \in Rpcs /\ LastIn(t, m)
      BY Zenon, <1>b, <1>c, <1>d DEF HostNote
    <2>. HIDE DEF q, m
    <2>2. LastIn(q \o t, m)
      BY Zenon, <2>1, LastInConcat
    <2>. QED
      BY Zenon, <2>2 DEF q, m, Known
  <1>e. ASSUME NEW s \in Sessions, NEW t \in Seq(Rpcs), \A x \in Range(t) : x.rpc # "newHost", Known(s, k, out[k])
        PROVE  Known(s, k, out[k] \o t)
    <2>. DEFINE q == out[k]  m == NewHost(IF k = s.host THEN None ELSE s.host)
    <2>1. q \in Seq(Rpcs) /\ m \in Rpcs /\ LastIn(q, m) /\ \A x \in Range(t) : x.rpc # m.rpc
      BY Zenon, <1>b, <1>c, <1>e DEF Known
    <2>. HIDE DEF q, m
    <2>2. LastIn(q \o t, m)
      BY Zenon, <2>1, LastInConcat
    <2>. QED
      BY Zenon, <2>2 DEF q, m, Known
  <1>f. \A x \in Rpcs : <<x>> \in Seq(Rpcs) /\ LastIn(<<x>>, x) /\ Range(<<x>>) = {x}
    BY DEF LastIn, Range
  <1>1. ASSUME NEW l \in Links, NEW d \in Datas, RegisterServer(l, d)
        PROVE  Known(ms'[j], k, out'[k])
    <2>1. PICK s \in Sessions : /\ ms' = Append(ms, s) /\ s.links = <<l>>
                                /\ out' = [out EXCEPT ![l] = @ \o <<HostNote(s, l), Result(TRUE)>>]
      BY Zenon, <1>1, RegisterEffect
    <2>2. l \notin asked
      BY Zenon, <1>1 DEF RegisterServer, AskOnce
    <2>3. (j \in DOMAIN ms /\ ms'[j] = ms[j]) \/ ms'[j] = s
      BY <2>1 DEF Typed
    <2>4. CASE j \in DOMAIN ms /\ ms'[j] = ms[j]
      <3>1. sessionOf[k] = j /\ j # 0
        BY <2>4 DEF Belongs, Typed
      <3>2. k # l
        BY Zenon, <1>b, <2>2, <3>1 DEF Belongs
      <3>3. out'[k] = out[k]
        BY Zenon, <1>b, <2>1, <3>2 DEF Typed
      <3>4. Known(ms[j], k, out[k])
        BY Zenon, <1>0, <2>4
      <3>. QED
        BY Zenon, <2>4, <3>3, <3>4
    <2>5. CASE ms'[j] = s
      <3>1. k = l
        BY <2>1, <2>5 DEF Range
      <3>. DEFINE n == <<HostNote(s, k), Result(TRUE)>>
      <3>2. n \in Seq(Rpcs) /\ LastIn(n, HostNote(s, k))
        <4>1. HostNote(s, k) \in Rpcs /\ HostNote(s, k).rpc = "newHost"
          BY Zenon, <1>c DEF HostNote
        <4>2. Result(TRUE) \in Rpcs /\ Result(TRUE).rpc = "success"
          BY Zenon DEF Result, Rpcs
        <4>3. \A a, b \in Rpcs : <<a, b>> \in Seq(Rpcs) /\ (a.rpc # b.rpc => LastIn(<<a, b>>, a))
          BY DEF LastIn
        <4>4. HostNote(s, k).rpc # Result(TRUE).rpc
          BY Zenon, <4>1, <4>2
        <4>. QED
          BY Zenon, <4>1, <4>2, <4>3, <4>4
      <3>3. out'[k] = out[k] \o n
        BY Zenon, <1>b, <2>1, <3>1 DEF Typed
      <3>. HIDE DEF n
      <3>4. Known(s, k, out[k] \o n)
        BY Zenon, <1>d, <3>2
      <3>. QED
        BY Zenon, <2>5, <3>3, <3>4
    <2>. QED
      BY Zenon, <2>3, <2>4, <2>5
  <1>2. ASSUME NEW l \in Links, NEW f \in Filters, JoinServer(l, f)
        PROVE  Known(ms'[j], k, out'[k])
    <2>1. PICK id \in DOMAIN ms :
            /\ ms' = [ms EXCEPT ![id] = AddLink(ms[id], l)]
            /\ out' = [m \in Links |-> out[m] \o JoinNotes(AddLink(ms[id], l), l, TRUE, m)]
      BY Zenon, <1>2, JoinEffect
    <2>. DEFINE s == AddLink(ms[id], l)  n == JoinNotes(s, l, TRUE, k)
    <2>2. l \notin asked
      BY Zenon, <1>2 DEF JoinServer, AskOnce
    <2>3. s \in Sessions /\ s.host = ms[id].host /\ Range(s.links) \subseteq Range(ms[id].links) \cup {l}
      <3>1. ms[id] \in Sessions
        BY DEF Typed
      <3>. QED
        BY Zenon, <3>1, AddLinkEffect
    <2>4. /\ n \in Seq(Rpcs)
          /\ k # l => \A m \in Range(n) : m.rpc = "connectTo"
          /\ k = l => LastIn(n, HostNote(s, l))
      <3>. HIDE DEF s
      <3>. QED
        BY Zenon, <1>b, <2>3, JoinNotesTold, JoinNotesEffect
    <2>5. out'[k] = out[k] \o n
      BY Zenon, <1>b, <2>1
    <2>6. j \in DOMAIN ms /\ j # 0 /\ ms'[j] = IF j = id THEN s ELSE ms[j]
      BY <2>1 DEF Typed
    <2>. HIDE DEF s, n
    <2>7. CASE k # l
      <3>1. k \in Range(ms[j].links)
        BY Zenon, <2>3, <2>6, <2>7
      <3>2. Known(ms[j], k, out[k])
        BY Zenon, <1>0, <2>6, <3>1
      <3>3. Known(ms'[j], k, out[k])
        BY Zenon, <2>3, <2>6, <3>2 DEF Known
      <3>4. \A x \in Range(n) : x.rpc # "newHost"
        BY Zenon, <2>4, <2>7
      <3>5. Known(ms'[j], k, out[k] \o n)
        BY Zenon, <1>b, <1>e, <2>4, <3>3, <3>4
      <3>. QED
        BY ZenonT(30), <2>5, <3>5
    <2>8. CASE k = l
      <3>1. j = id
        <4>1. ASSUME j # id PROVE FALSE
          <5>1. sessionOf[k] = j
            BY <2>6, <4>1 DEF Belongs
          <5>. QED
            BY Zenon, <1>b, <2>2, <2>6, <2>8, <5>1 DEF Belongs
        <4>. QED
          BY Zenon, <4>1
      <3>2. Known(s, k, out[k] \o n)
        BY Zenon, <1>d, <2>3, <2>4, <2>8
      <3>3. ms'[j] = s
        BY Zenon, <2>6, <3>1
      <3>. QED
        BY Zenon, <2>5, <3>2, <3>3
    <2>. QED
      BY Zenon, <2>7, <2>8
  <1>3. ASSUME NEW l \in Links, NEW f \in Filters, JoinNothing(l, f)
        PROVE  Known(ms'[j], k, out'[k])
    <2>1. ms' = ms /\ (out'[k] = out[k] \/ out'[k] = Append(out[k], Result(FALSE)))
      BY ZenonT(30), <1>3, <1>b DEF JoinNothing, Typed
    <2>2. Known(ms[j], k, out[k]) /\ ms[j] \in Sessions
      BY Zenon, <1>0, <1>b, <2>1
    <2>. DEFINE t == <<Result(FALSE)>>
    <2>3. t \in Seq(Rpcs) /\ \A x \in Range(t) : x.rpc # "newHost"
      <3>1. Result(FALSE) \in Rpcs /\ Result(FALSE).rpc = "fail"
        BY Zenon DEF Result, Rpcs
      <3>2. t \in Seq(Rpcs) /\ Range(t) = {Result(FALSE)}
        BY Zenon, <1>f, <3>1
      <3>. QED
        BY Zenon, <3>1, <3>2
    <2>4. Append(out[k], Result(FALSE)) = out[k] \o t
      <3>1. \A q \in Seq(Rpcs), x \in Rpcs : Append(q, x) = q \o <<x>>
        OBVIOUS
      <3>2. Result(FALSE) \in Rpcs
        BY Zenon DEF Result, Rpcs
      <3>. QED
        BY Zenon, <1>b, <3>1, <3>2
    <2>. HIDE DEF t
    <2>5. Known(ms[j], k, out[k] \o t)
      BY Zenon, <1>e, <2>2, <2>3
    <2>. QED
      BY Zenon, <2>1, <2>2, <2>4, <2>5
  <1>4. ASSUME NEW l \in Links, StartSession(l)
        PROVE  Known(ms'[j], k, out'[k])
    <2>1. ms' = [ms EXCEPT ![sessionOf[l]] = [@ EXCEPT !.started = TRUE]] /\ out' = out
      BY Zenon, <1>4 DEF StartSession, Start
    <2>2. j \in DOMAIN ms /\ ms[j] \in Sessions
      BY <2>1 DEF Typed
    <2>3. ms'[j].host = ms[j].host /\ ms'[j].links = ms[j].links
      BY Zenon, <2>1, <2>2 DEF Sessions
    <2>4. Known(ms[j], k, out[k])
      BY Zenon, <1>0, <2>2, <2>3
    <2>. QED
      BY Zenon, <2>1, <2>3, <2>4 DEF Known
  <1>5. ASSUME NEW l \in Links, RemoveLink(l)
        PROVE  Known(ms'[j], k, out'[k])
    <2>1. PICK id \in DOMAIN ms :
            /\ id = sessionOf[l]
            /\ l \in Range(ms[id].links)
            /\ ms' = [ms EXCEPT ![id] = Shrunk(id, l)]
            /\ out' = [m \in Links |-> IF l = ms[id].host /\ m \in Range(Shrunk(id, l).links) \cup {Shrunk(id, l).host}
                                         THEN Append(out[m], HostNote(Shrunk(id, l), m)) ELSE out[m]]
      BY SMTT(30), <1>5, RemoveEffect
    <2>. DEFINE s == Shrunk(id, l)  T == Range(s.links) \cup {s.host}
    <2>2. /\ s \in Sessions /\ Range(s.links) \subseteq Range(ms[id].links)
          /\ s.host = HostAfter(ms[id], l, s.links)
      BY Zenon, <2>1, ShrunkEffect
    <2>3. \A m \in T : l = ms[id].host => sessionOf[m] = id
      <3>1. \A m \in Range(ms[id].links) : sessionOf[m] = id
        BY Zenon DEF Belongs
      <3>2. l = ms[id].host => s.host = l \/ s.host \in Range(s.links)
        <4>1. s.links \in Seq(Links)
          BY Zenon, <2>2 DEF Sessions
        <4>. DEFINE left == s.links
        <4>. HIDE DEF left
        <4>2. left \in Seq(Links)
          BY Zenon, <4>1 DEF left
        <4>3. left # <<>> => left[1] \in Range(left)
          BY SMTT(30), <4>2, NotEmpty DEF Range
        <4>4. s.host = HostAfter(ms[id], l, left)
          BY Zenon, <2>2 DEF left
        <4>. QED
          BY Zenon, <4>3, <4>4 DEF left, HostAfter
      <3>. QED
        BY Zenon, <2>1, <2>2, <3>1, <3>2
    <2>4. out'[k] = IF l = ms[id].host /\ k \in T THEN Append(out[k], HostNote(s, k)) ELSE out[k]
      BY Zenon, <1>b, <2>1
    <2>5. j \in DOMAIN ms /\ ms'[j] = IF j = id THEN s ELSE ms[j]
      BY Zenon, <2>1
    <2>6. k \in Range(ms[j].links)
      BY Zenon, <2>2, <2>5
    <2>7. Known(ms[j], k, out[k])
      BY Zenon, <1>0, <2>5, <2>6
    <2>. HIDE DEF s
    <2>8. CASE j = id /\ l = ms[id].host
      <3>1. k \in T
        BY Zenon, <2>5, <2>8
      <3>. DEFINE t == <<HostNote(s, k)>>
      <3>2. HostNote(s, k) \in Rpcs
        BY Zenon, <1>c, <2>2 DEF HostNote
      <3>3. t \in Seq(Rpcs) /\ LastIn(t, HostNote(s, k))
        BY Zenon, <1>f, <3>2
      <3>4. Append(out[k], HostNote(s, k)) = out[k] \o t
        BY <1>b, <3>2
      <3>. HIDE DEF t, T
      <3>5. Known(s, k, out[k] \o t)
        BY Zenon, <1>d, <2>2, <3>3
      <3>. QED
        BY Zenon, <2>4, <2>5, <2>8, <3>1, <3>4, <3>5
    <2>9. CASE j = id /\ l # ms[id].host
      <3>1. s.host = ms[id].host
        BY Zenon, <2>2, <2>9 DEF HostAfter
      <3>. HIDE DEF T
      <3>. QED
        BY Zenon, <2>4, <2>5, <2>7, <2>9, <3>1 DEF Known
    <2>10. CASE j # id
      <3>1. sessionOf[k] = j
        BY Zenon, <2>5, <2>6 DEF Belongs
      <3>2. ~(l = ms[id].host /\ k \in T)
        BY Zenon, <2>3, <2>10, <3>1
      <3>. HIDE DEF T
      <3>. QED
        BY Zenon, <2>4, <2>5, <2>7, <2>10, <3>2
    <2>. QED
      BY Zenon, <2>8, <2>9, <2>10
  <1>6. CASE UNCHANGED vars
    BY Zenon, <1>0, <1>6 DEF vars
  <1>. QED
    BY Zenon, <1>1, <1>2, <1>3, <1>4, <1>5, <1>6 DEF Next

\* addLink and removeLink leave nobody with an old host: for any number of clients the last
\* host that a member of a session was told of is the one the session has.
THEOREM AllKnowHost == Spec => []HostKnown
  <1>1. Init => HostKnown /\ Belongs
    BY DEF Init, HostKnown, Belongs
  <1>. QED
    BY <1>1, TypedInit, TypedStep, BelongsStep, KnownStep, PTL DEF Spec
-----------------------------------------------------------------------------
\* The first RPC of q is m, and no later one names a host.
HeadWord(q, m) == q # <<>> /\ q[1] = m /\ \A j \in DOMAIN q : j > 1 => q[j].rpc # "newHost"

\* What the master told its links: nothing before they asked, and their host first, once.
HostWord ==
    /\ \A p \in Links : p \notin asked => out[p] = <<>>
    /\ \A p \in Links : sessionOf[p] # 0 => HeadWord(out[p], HostNote(ms[sessionOf[p]], p))
    /\ read \in [Links -> Nat] /\ boss \in [Links -> BOOLEAN]
    /\ \A p \in Links : read[p] <= Len(out[p])

\* What names no host may follow.
LEMMA HeadWordConcat ==
    ASSUME NEW q \in Seq(Rpcs), NEW t \in Seq(Rpcs), NEW m,
           HeadWord(q, m), \A x \in Range(t) : x.rpc # "newHost"
    PROVE  HeadWord(q \o t, m)
<1> DEFINE n == Len(q)  k == Len(t)  c == q \o t
<1>1. n \in Nat /\ k \in Nat /\ DOMAIN q = 1 .. n /\ DOMAIN t = 1 .. k /\ n > 0
  BY DEF HeadWord
<1>2. c \in Seq(Rpcs) /\ Len(c) = n + k /\ DOMAIN c = 1 .. n + k
  OBVIOUS
<1>3. \A i \in 1 .. n : c[i] = q[i]
  OBVIOUS
<1>4. \A i \in 1 .. k : c[i + n] = t[i]
  OBVIOUS
<1> HIDE DEF n, k, c
<1>5. c # <<>> /\ c[1] = m
  BY SMTT(30), <1>1, <1>2, <1>3 DEF HeadWord
<1>6. ASSUME NEW j \in 1 .. n + k, j > 1 PROVE c[j].rpc # "newHost"
  <2>1. CASE j \in 1 .. n
    BY Zenon, <1>1, <1>3, <1>6, <2>1 DEF HeadWord
  <2>2. CASE j > n
    <3>1. j - n \in 1 .. k /\ (j - n) + n = j
      BY <1>1, <2>2
    <3>2. c[j] = t[j - n]
      BY Zenon, <1>4, <3>1
    <3>3. t[j - n] \in Range(t)
      BY Zenon, <1>1, <3>1 DEF Range
    <3> QED
      BY Zenon, <3>2, <3>3
  <2> QED
    BY <1>1, <2>1, <2>2
<1> QED
  BY Zenon, <1>2, <1>5, <1>6 DEF HeadWord, c

\* Joining tells the new link its host first, and says nothing to who is no member.
LEMMA NotesSent ==
    ASSUME NEW s \in Sessions, NEW l \in Links, NEW k \in Links
    PROVE  /\ k # l /\ k \notin Range(s.links) => JoinNotes(s, l, TRUE, k) = <<>>
           /\ k = l => HeadWord(JoinNotes(s, l, TRUE, k), HostNote(s, l))
<1>1. CASE k # l /\ k \notin Range(s.links)
  <2>1. Introductions(s, l, k) = <<>>
    BY <1>1 DEF Introductions
  <2> QED
    BY <1>1, <2>1 DEF JoinNotes
<1>2. CASE k = l
  <2> DEFINE h == HostNote(s, l)
             I == Introductions(s, l, l)
             D == <<Result(TRUE)>>
  <2>1. s.host \in Links
    BY Zenon DEF Sessions
  <2>2. h \in Rpcs /\ h.rpc = "newHost"
    BY Zenon, <2>1 DEF HostNote, NewHost, Rpcs
  <2>3. Result(TRUE) \in Rpcs /\ Result(TRUE).rpc = "success"
    BY Zenon DEF Result, Rpcs
  <2>4. I \in Seq(Rpcs) /\ \A m \in Range(I) : m.rpc = "connectTo"
    BY Zenon, IntroductionsTold
  <2>5. JoinNotes(s, l, TRUE, k) = (<<h>> \o I) \o D
    BY Zenon, <1>2 DEF JoinNotes
  <2> HIDE DEF h, I
  <2>6. <<h>> \in Seq(Rpcs) /\ HeadWord(<<h>>, h)
    BY <2>2 DEF HeadWord
  <2>7. <<h>> \o I \in Seq(Rpcs)
    BY <2>4, <2>6
  <2>8. \A m \in Range(I) : m.rpc # "newHost"
    BY Zenon, <2>4
  <2>9. HeadWord(<<h>> \o I, h)
    BY Zenon, <2>4, <2>6, <2>8, HeadWordConcat
  <2>10. D \in Seq(Rpcs) /\ \A m \in Range(D) : m.rpc # "newHost"
    <3>1. \A x \in Rpcs : <<x>> \in Seq(Rpcs) /\ Range(<<x>>) = {x}
      BY DEF Range
    <3>2. D \in Seq(Rpcs) /\ Range(D) = {Result(TRUE)}
      BY Zenon, <2>3, <3>1
    <3> QED
      BY Zenon, <2>3, <3>2
  <2> DEFINE hI == <<h>> \o I
  <2> HIDE DEF hI, D
  <2>11. HeadWord(hI \o D, h)
    BY Zenon, <2>7, <2>9, <2>10, HeadWordConcat DEF hI
  <2> QED
    BY Zenon, <2>5, <2>11, <1>2 DEF hI, D, h
<1> QED
  BY Zenon, <1>1, <1>2

\* The links that have a session keep it with its host while clients register and join.
LEMMA HostWordAsk ==
    ASSUME Typed, Belongs, HostWord, BossIsHost, AskMaster
    PROVE  HostWord' /\ BossIsHost'
<1>1. UNCHANGED <<read, boss>>
  BY Zenon DEF AskMaster, peerVars
<1>2. /\ ms \in Seq(Sessions) /\ out \in [Links -> Seq(Rpcs)] /\ sessionOf \in [Links -> 0 .. Len(ms)]
      /\ DOMAIN ms = 1 .. Len(ms) /\ Len(ms) \in Nat
  <2>1. ms \in Seq(Sessions) /\ out \in [Links -> Seq(Rpcs)] /\ sessionOf \in [Links -> 0 .. Len(ms)]
    BY Zenon DEF Typed
  <2> QED
    BY <2>1
<1>3. /\ \A k \in Links : k \notin asked => out[k] = <<>>
      /\ \A k \in Links : sessionOf[k] # 0 => HeadWord(out[k], HostNote(ms[sessionOf[k]], k))
      /\ read \in [Links -> Nat] /\ boss \in [Links -> BOOLEAN]
      /\ \A k \in Links : read[k] \in Nat /\ read[k] <= Len(out[k])
  BY Zenon DEF HostWord
<1>4. \A k \in Links : k \notin asked => sessionOf[k] = 0 /\ read[k] = 0 /\ out[k] = <<>>
  <2>1. \A k \in Links : k \notin asked => sessionOf[k] = 0
    BY Zenon DEF Belongs
  <2>2. \A k \in Links : k \notin asked => read[k] = 0
    BY <1>3
  <2> QED
    BY Zenon, <1>3, <2>1, <2>2
<1>5. ASSUME NEW l \in Links, l \notin asked, asked' = asked \cup {l}, out' \in [Links -> Seq(Rpcs)],
             sessionOf' \in [Links -> Nat],
             \A k \in Links \ {l} :
               /\ sessionOf'[k] = sessionOf[k]
               /\ k \notin asked => out'[k] = <<>>
               /\ sessionOf[k] # 0 => /\ HeadWord(out'[k], HostNote(ms[sessionOf[k]], k))
                                      /\ ms'[sessionOf[k]].host = ms[sessionOf[k]].host
               /\ Len(out[k]) <= Len(out'[k]),
             sessionOf'[l] # 0 => HeadWord(out'[l], HostNote(ms'[sessionOf'[l]], l))
      PROVE  HostWord' /\ BossIsHost'
  <2>1. \A k \in Links : k \notin asked' => out'[k] = <<>>
    BY Zenon, <1>5
  <2>2. ASSUME NEW k \in Links, sessionOf'[k] # 0 PROVE HeadWord(out'[k], HostNote(ms'[sessionOf'[k]], k))
    BY ZenonT(40), <1>5, <2>2 DEF HostNote
  <2>3. \A k \in Links : read'[k] <= Len(out'[k])
    <3>1. \A k \in Links : Len(out[k]) \in Nat /\ Len(out'[k]) \in Nat
      BY <1>2, <1>5
    <3>2. read[l] = 0
      BY Zenon, <1>4, <1>5
    <3>3. \A k \in Links : k # l => Len(out[k]) <= Len(out'[k])
      BY Zenon, <1>5
    <3>4. \A k \in Links : read[k] \in Nat /\ read[k] <= Len(out[k]) /\ read'[k] = read[k]
      BY ZenonT(30), <1>1, <1>3
    <3> QED
      BY <3>1, <3>2, <3>3, <3>4
  <2>4. BossIsHost'
    <3> SUFFICES ASSUME NEW k \in Links, sessionOf'[k] # 0, read'[k] > 0
                 PROVE  boss'[k] <=> k = ms'[sessionOf'[k]].host
      BY ZenonT(30) DEF BossIsHost
    <3>1. k # l
      <4>1. read[l] = 0 /\ read' = read
        BY Zenon, <1>1, <1>4, <1>5
      <4> QED
        BY <4>1
    <3>2. sessionOf[k] # 0 /\ sessionOf'[k] = sessionOf[k] /\ ms'[sessionOf[k]].host = ms[sessionOf[k]].host
      BY Zenon, <1>5, <3>1
    <3> QED
      BY Zenon, <1>1, <3>2 DEF BossIsHost
  <2> QED
    BY Zenon, <1>1, <1>3, <2>1, <2>2, <2>3, <2>4 DEF HostWord
<1>6. ASSUME NEW l \in Links, NEW d \in Datas, RegisterServer(l, d) PROVE HostWord' /\ BossIsHost'
  <2>1. l \notin asked /\ asked' = asked \cup {l}
    BY Zenon, <1>6 DEF RegisterServer, AskOnce
  <2>2. PICK s \in Sessions :
             /\ ms' = Append(ms, s)
             /\ s.links = <<l>> /\ s.host = l
             /\ sessionOf' = [sessionOf EXCEPT ![l] = Len(ms) + 1]
             /\ out' = [out EXCEPT ![l] = @ \o <<HostNote(s, l), Result(TRUE)>>]
             /\ out' \in [Links -> Seq(Rpcs)]
    BY Zenon, <1>6, RegisterEffect
  <2>3. \A k \in Links \ {l} : sessionOf'[k] = sessionOf[k] /\ out'[k] = out[k]
    BY ZenonT(30), <1>2, <2>2
  <2>4. \A id \in DOMAIN ms : ms'[id] = ms[id]
    BY SMTT(30), <1>2, <2>2
  <2>5. \A k \in Links : sessionOf[k] # 0 => sessionOf[k] \in DOMAIN ms
    BY SMTT(30), <1>2
  <2>6. sessionOf'[l] = Len(ms) + 1 /\ ms'[Len(ms) + 1] = s /\ sessionOf' \in [Links -> Nat]
    BY SMTT(30), <1>2, <2>2
  <2>7. HeadWord(out'[l], HostNote(s, l))
    <3>1. out'[l] = <<>> \o <<HostNote(s, l), Result(TRUE)>>
      BY Zenon, <1>2, <1>4, <2>1, <2>2
    <3>2. out'[l] = <<HostNote(s, l), Result(TRUE)>>
      BY <3>1
    <3>3. Result(TRUE).rpc # "newHost"
      BY Zenon DEF Result
    <3>4. \A a, b : b.rpc # "newHost" => HeadWord(<<a, b>>, a)
      BY DEF HeadWord
    <3> QED
      BY Zenon, <3>2, <3>3, <3>4
  <2>8. \A k \in Links : Len(out[k]) \in Nat
    BY SMTT(30), <1>2
  <2>9. \A k \in Links \ {l} :
               /\ sessionOf'[k] = sessionOf[k]
               /\ k \notin asked => out'[k] = <<>>
               /\ sessionOf[k] # 0 => /\ HeadWord(out'[k], HostNote(ms[sessionOf[k]], k))
                                      /\ ms'[sessionOf[k]].host = ms[sessionOf[k]].host
               /\ Len(out[k]) <= Len(out'[k])
    <3>1. \A k \in Links : Len(out[k]) <= Len(out[k])
      BY <2>8
    <3> QED
      BY ZenonT(30), <1>3, <2>3, <2>4, <2>5, <3>1
  <2>10. sessionOf'[l] # 0 => HeadWord(out'[l], HostNote(ms'[sessionOf'[l]], l))
    BY Zenon, <2>6, <2>7
  <2> QED
    BY Zenon, <1>5, <2>1, <2>2, <2>6, <2>9, <2>10
<1>7. ASSUME NEW l \in Links, NEW f \in Filters, JoinServer(l, f) PROVE HostWord' /\ BossIsHost'
  <2>1. l \notin asked /\ asked' = asked \cup {l}
    BY Zenon, <1>7 DEF JoinServer, AskOnce
  <2>2. PICK id \in DOMAIN ms :
             /\ CanJoin(ms[id])
             /\ ms' = [ms EXCEPT ![id] = AddLink(ms[id], l)]
             /\ sessionOf' = [sessionOf EXCEPT ![l] = id]
             /\ out' = [k \in Links |-> out[k] \o JoinNotes(AddLink(ms[id], l), l, TRUE, k)]
             /\ out' \in [Links -> Seq(Rpcs)]
    BY Zenon, <1>7, JoinEffect
  <2> DEFINE s == AddLink(ms[id], l)
  <2>3. s \in Sessions /\ s.host = ms[id].host /\ Range(s.links) \subseteq Range(ms[id].links) \cup {l}
    <3>1. ms[id] \in Sessions
      BY <1>2, <2>2
    <3> QED
      BY Zenon, <3>1, AddLinkEffect
  <2>4. \A i \in DOMAIN ms : ms'[i].host = ms[i].host
    BY Zenon, <1>2, <2>2, <2>3
  <2>5. sessionOf'[l] = id /\ ms'[id] = s /\ sessionOf' \in [Links -> Nat] /\ \A k \in Links \ {l} : sessionOf'[k] = sessionOf[k]
    BY <1>2, <2>2
  <2> HIDE DEF s
  <2>6. \A k \in Links : out'[k] = out[k] \o JoinNotes(s, l, TRUE, k) /\ JoinNotes(s, l, TRUE, k) \in Seq(Rpcs)
    BY Zenon, <2>2, <2>3, JoinNotesEffect DEF s
  <2>7. HeadWord(out'[l], HostNote(s, l))
    <3>1. out'[l] = <<>> \o JoinNotes(s, l, TRUE, l)
      BY ZenonT(30), <1>4, <2>1, <2>6
    <3>2. out'[l] = JoinNotes(s, l, TRUE, l)
      BY SMTT(30), <2>6, <3>1
    <3> QED
      BY Zenon, <2>3, <3>2, NotesSent
  <2>8. ASSUME NEW k \in Links \ {l}
        PROVE  /\ k \notin asked => out'[k] = <<>>
               /\ sessionOf[k] # 0 => HeadWord(out'[k], HostNote(ms[sessionOf[k]], k))
               /\ Len(out[k]) <= Len(out'[k])
    <3> DEFINE old == out[k]  notes == JoinNotes(s, l, TRUE, k)
    <3>1. old \in Seq(Rpcs) /\ notes \in Seq(Rpcs) /\ out'[k] = old \o notes
      BY Zenon, <1>2, <2>6
    <3>2. \A x \in Range(notes) : x.rpc # "newHost"
      BY Zenon, <2>3, JoinNotesTold
    <3>3. k \notin asked => old = <<>> /\ notes = <<>>
      <4>1. k \notin asked => k \notin Range(ms[id].links)
        BY SMTT(30), <1>4, <2>2, <1>2 DEF Belongs
      <4> QED
        BY Zenon, <1>4, <2>3, <4>1, NotesSent
    <3>4. sessionOf[k] # 0 => HeadWord(old, HostNote(ms[sessionOf[k]], k))
      BY Zenon, <1>3
    <3> HIDE DEF old, notes
    <3>5. k \notin asked => out'[k] = <<>>
      BY <3>1, <3>3
    <3>6. sessionOf[k] # 0 => HeadWord(out'[k], HostNote(ms[sessionOf[k]], k))
      BY Zenon, <3>1, <3>2, <3>4, HeadWordConcat
    <3>7. Len(old) <= Len(out'[k])
      BY <3>1
    <3> QED
      BY Zenon, <3>5, <3>6, <3>7 DEF old
  <2>9. \A k \in Links : sessionOf[k] # 0 => sessionOf[k] \in DOMAIN ms
    BY <1>2
  <2> QED
    BY ZenonT(30), <1>5, <2>1, <2>2, <2>4, <2>5, <2>7, <2>8, <2>9
<1>8. ASSUME NEW l \in Links, NEW f \in Filters, JoinNothing(l, f) PROVE HostWord' /\ BossIsHost'
  <2>1. /\ l \notin asked /\ asked' = asked \cup {l}
        /\ out' = [out EXCEPT ![l] = Append(@, Result(FALSE))]
        /\ UNCHANGED <<ms, sessionOf>>
    BY Zenon, <1>8 DEF JoinNothing, AskOnce
  <2>2. Result(FALSE) \in Rpcs
    BY Zenon DEF Result, Rpcs
  <2>3. out[l] \in Seq(Rpcs) /\ Append(out[l], Result(FALSE)) \in Seq(Rpcs)
    <3>1. \A q \in Seq(Rpcs), m \in Rpcs : Append(q, m) \in Seq(Rpcs)
      OBVIOUS
    <3>2. out[l] \in Seq(Rpcs)
      BY Zenon, <1>2
    <3> QED
      BY Zenon, <2>2, <3>1, <3>2
  <2>4. out' \in [Links -> Seq(Rpcs)] /\ \A k \in Links \ {l} : out'[k] = out[k]
    BY Zenon, <1>2, <2>1, <2>3
  <2>5. sessionOf'[l] = 0 /\ sessionOf' \in [Links -> Nat]
    BY <1>2, <1>4, <2>1
  <2>6. \A k \in Links : Len(out[k]) \in Nat
    BY SMTT(30), <1>2
  <2>7. \A k \in Links \ {l} :
               /\ sessionOf'[k] = sessionOf[k]
               /\ k \notin asked => out'[k] = <<>>
               /\ sessionOf[k] # 0 => /\ HeadWord(out'[k], HostNote(ms[sessionOf[k]], k))
                                      /\ ms'[sessionOf[k]].host = ms[sessionOf[k]].host
               /\ Len(out[k]) <= Len(out'[k])
    <3>1. \A k \in Links : Len(out[k]) <= Len(out[k])
      BY <2>6
    <3> QED
      BY ZenonT(30), <1>3, <2>1, <2>4, <3>1
  <2> QED
    BY Zenon, <1>5, <2>1, <2>4, <2>5, <2>7
<1> QED
  BY Zenon, <1>6, <1>7, <1>8 DEF AskMaster

\* What a peer makes of the master's RPCs: its host is the first, so it is read before any other.
LEMMA HostWordRead ==
    ASSUME Typed, HostWord, BossIsHost, NEW p \in Links, MasterNewHost(p) \/ MasterConnectTo(p)
    PROVE  HostWord' /\ BossIsHost'
<1>1. UNCHANGED <<ms, sessionOf, asked, out>>
  BY Zenon DEF MasterNewHost, MasterConnectTo, masterVars, vars
<1>2. PICK i \in DOMAIN out[p] :
          /\ NextWord(p, i) /\ read' = [read EXCEPT ![p] = i]
          /\ \/ out[p][i].rpc = "newHost" /\ boss' = UpdateHost(p, out[p][i].arg)
             \/ out[p][i].rpc = "connectTo" /\ boss' = boss
  BY ZenonT(30) DEF MasterNewHost, MasterConnectTo
<1>3. /\ out[p] \in Seq(Rpcs) /\ i \in Nat /\ 0 < i /\ i <= Len(out[p])
      /\ ms \in Seq(Sessions) /\ sessionOf \in [Links -> 0 .. Len(ms)]
      /\ DOMAIN ms = 1 .. Len(ms) /\ Len(ms) \in Nat
  <2>1. out[p] \in Seq(Rpcs) /\ ms \in Seq(Sessions) /\ sessionOf \in [Links -> 0 .. Len(ms)]
    BY Zenon DEF Typed
  <2> QED
    BY <1>2, <2>1
<1>4. /\ read \in [Links -> Nat] /\ boss \in [Links -> BOOLEAN]
      /\ read'[p] = i /\ read' \in [Links -> Nat]
      /\ \A k \in Links : k # p => read'[k] = read[k]
      /\ boss' \in [Links -> BOOLEAN]
      /\ \A k \in Links : k # p => boss'[k] = boss[k]
  BY Zenon, <1>2, <1>3 DEF HostWord, UpdateHost
<1>5. HostWord'
  BY Zenon, <1>1, <1>3, <1>4 DEF HostWord
<1>6. ASSUME sessionOf[p] # 0 PROVE boss'[p] <=> p = ms[sessionOf[p]].host
  <2> DEFINE h == ms[sessionOf[p]].host
  <2>1. h \in Links
    <3>1. sessionOf[p] \in DOMAIN ms
      BY <1>3, <1>6
    <3>2. ms[sessionOf[p]] \in Sessions
      BY <1>3, <3>1
    <3> QED
      BY Zenon, <3>2 DEF Sessions
  <2>2. /\ out[p][1] = HostNote(ms[sessionOf[p]], p)
        /\ \A j \in DOMAIN out[p] : j > 1 => out[p][j].rpc # "newHost"
    BY Zenon, <1>6 DEF HostWord, HeadWord
  <2>3. out[p][1].rpc = "newHost" /\ out[p][1].arg = IF p = h THEN None ELSE h
    BY <2>2 DEF HostNote, NewHost
  <2>4. CASE out[p][i].rpc = "newHost" /\ boss' = UpdateHost(p, out[p][i].arg)
    <3>1. i = 1
      BY SMTT(30), <1>2, <1>3, <2>2, <2>4
    <3>2. boss'[p] = (out[p][1].arg = None)
      BY Zenon, <1>4, <2>4, <3>1 DEF UpdateHost
    <3> QED
      BY ZenonT(30), <2>1, <2>3, <3>2, MasterConstants
  <2>5. CASE out[p][i].rpc = "connectTo" /\ boss' = boss
    <3>1. i # 1
      BY Zenon, <2>3, <2>5
    <3>2. read[p] > 0
      <4> SUFFICES ASSUME read[p] = 0 PROVE FALSE
        BY SMTT(30), <1>4
      <4>1. 1 \in read[p] + 1 .. i - 1
        BY <1>3, <3>1
      <4>2. ~IsWord(out[p][1])
        BY Zenon, <1>2, <4>1 DEF NextWord
      <4> QED
        BY Zenon, <4>2, <2>3 DEF IsWord
    <3> QED
      BY Zenon, <1>6, <2>5, <3>2 DEF BossIsHost
  <2> QED
    BY ZenonT(30), <1>2, <2>4, <2>5
<1>7. BossIsHost'
  BY Zenon, <1>1, <1>4, <1>6 DEF BossIsHost
<1> QED
  BY Zenon, <1>5, <1>7

\* The master does what MasterSession says, whatever the peers do.
LEMMA MasterStep == [PNext]_allVars => [Next]_vars
<1>1. UNCHANGED allVars => UNCHANGED vars
  BY Zenon DEF allVars, masterVars
<1>2. AskMaster => Next
  BY Zenon DEF AskMaster, Next
<1>3. ASSUME NEW p \in Links, FromMaster(p) PROVE UNCHANGED vars
  BY Zenon, <1>3 DEF FromMaster, MasterNewHost, MasterConnectTo, masterVars
<1>4. ASSUME NEW p \in Links, NEW q \in Links, Arrive(p, q) \/ FromPeer(p, q) \/ Disconnect(p, q)
      PROVE  UNCHANGED vars
  BY Zenon, <1>4 DEF Arrive, FromPeer, OnConnect, OnAccepted, OnDisconnect, OnRelay, OnOrphan, Disconnect, masterVars
<1> QED
  BY Zenon, <1>1, <1>2, <1>3, <1>4 DEF PNext

\* The host stays the first that the master tells a link and is told once, and a peer that has
\* read it goes on taking the right one for the boss.
LEMMA HostWordStep == Typed /\ Belongs /\ HostWord /\ BossIsHost /\ [PNext]_allVars => HostWord' /\ BossIsHost'
<1> SUFFICES ASSUME Typed, Belongs, HostWord, BossIsHost, [PNext]_allVars PROVE HostWord' /\ BossIsHost'
  OBVIOUS
<1>1. CASE AskMaster
  BY Zenon, <1>1, HostWordAsk
<1>2. ASSUME NEW p \in Links, FromMaster(p) PROVE HostWord' /\ BossIsHost'
  BY Zenon, <1>2, HostWordRead DEF FromMaster
<1>3. CASE UNCHANGED <<ms, sessionOf, asked, out, read, boss>>
  BY Zenon, <1>3 DEF HostWord, BossIsHost
<1>4. ASSUME NEW p \in Links, NEW q \in Links, Arrive(p, q) \/ FromPeer(p, q) \/ Disconnect(p, q)
      PROVE  UNCHANGED <<ms, sessionOf, asked, out, read, boss>>
  BY Zenon, <1>4 DEF Arrive, FromPeer, OnConnect, OnAccepted, OnDisconnect, OnRelay, OnOrphan, Disconnect, masterVars, vars
<1>5. CASE UNCHANGED allVars
  BY Zenon, <1>3, <1>5 DEF allVars, peerVars, masterVars, vars
<1> QED
  BY Zenon, <1>1, <1>2, <1>3, <1>4, <1>5 DEF PNext

\* The host of a session, and no other peer of it that heard from the master, takes itself for the boss.
THEOREM BossIsTheHost == PSpec => []BossIsHost
<1>1. PInit => Typed /\ Belongs /\ HostWord /\ BossIsHost
  <2> SUFFICES ASSUME PInit PROVE Typed /\ Belongs /\ HostWord /\ BossIsHost
    OBVIOUS
  <2>1. Typed
    BY Zenon, TypedInit DEF PInit
  <2>2. Belongs /\ HostWord /\ BossIsHost
    BY DEF PInit, Init, Belongs, HostWord, BossIsHost
  <2> QED
    BY Zenon, <2>1, <2>2
<1>2. Typed /\ [PNext]_allVars => Typed'
  BY Zenon, MasterStep, TypedStep
<1>3. Typed /\ Belongs /\ [PNext]_allVars => Belongs'
  BY Zenon, MasterStep, BelongsStep
<1> QED
  BY <1>1, <1>2, <1>3, HostWordStep, PTL DEF PSpec

\* The matchmaking server among its peers is the one of MasterSession, all of whose theorems hold here.
THEOREM MasterIsKept == PSpec => Spec
<1>1. PInit => Init
  BY Zenon DEF PInit
<1> QED
  BY <1>1, MasterStep, PTL DEF PSpec, Spec
=============================================================================
