----------------------------- MODULE LinkState -----------------------------
(***************************************************************************)
(* The peers of a session: how they link up on the master's word, and the  *)
(* LinkState of every link from connect to disconnect.  The master is      *)
(* MasterSession; a peer p reads the RPCs out[p] in order.                 *)
(*                                                                         *)
(* Peers talk over reliable ordered channels (see ReliableChannel).  A     *)
(* packet of an unknown address makes a link without a session as soon as  *)
(* it arrives, on the reception thread; its RPC runs later, when queued    *)
(* events are processed.  An RPC on a link without a session goes through  *)
(* a null pointer: that peer is down.  The relays of the boss also go to   *)
(* the master, where they change nothing.  Assertions are compiled out.    *)
(* That the packets are read at all is assumed: see Register in Network,   *)
(* whose socket is given to no reception thread.                           *)
(***************************************************************************)
EXTENDS MasterSession, FiniteSets

CONSTANT MaxCalls   \* bound on the users' calls: register, join, disconnect and kick

ASSUME CallBound == MaxCalls \in Nat

VARIABLES
    read,   \* the place in out[p] of the last RPC of the master that p processed
    boss,   \* imBoss() of each peer's session
    link,   \* link[p][q]: "none", "orphan" (no session), "bound" (in the session's
            \* m_Links) or "left" (taken out of them)
    ls,     \* LinkState of each link; "Absent" until it is made
    chan,   \* chan[p][q]: RPCs from p that q has yet to process
    log,    \* log[p][q]: events of p's listeners about the address q
    down,   \* peers that went through a null session
    quits   \* calls to disconnect or kick so far

peerVars   == <<read, boss, link, ls, chan, log, down, quits>>
masterVars == vars
allVars    == <<masterVars, peerVars>>

\* The RPCs of the master that change a client, and the place of the next one.  Its results only
\* reach the user's callback.
IsWord(m) == m.rpc \in {"newHost", "connectTo"}
NextWord(p, i) ==
    /\ i > read[p] /\ IsWord(out[p][i])
    /\ \A j \in read[p] + 1 .. i - 1 : ~IsWord(out[p][j])

Rpc(name)          == [rpc |-> name, about |-> None]
RpcAbout(name, who) == [rpc |-> name, about |-> who]

PInit ==
    /\ Init
    /\ read = [p \in Links |-> 0]
    /\ boss = [p \in Links |-> TRUE]
    /\ link = [p \in Links |-> [q \in Links |-> "none"]]
    /\ ls = [p \in Links |-> [q \in Links |-> [state |-> "Absent", accepted |-> FALSE, received |-> FALSE]]]
    /\ chan = [p \in Links |-> [q \in Links |-> <<>>]]
    /\ log = [p \in Links |-> [q \in Links |-> <<>>]]
    /\ down = {}
    /\ quits = 0
----------------------------------------------------------------------------
CallsLeft  == Cardinality(asked) + quits < MaxCalls
Fresh(s)   == s.state \in {"Absent", "Unknown"}

\* Link::callRpc, always on MM_RPC_CHANNEL.
Send(p, q, m) == [chan EXCEPT ![p][q] = Append(@, m)]

\* Session::updateHost: the empty address says that this peer is host.
UpdateHost(p, who) == [boss EXCEPT ![p] = who = None]

\* ISession::imBoss
ImBoss_Anyone(p) == TRUE
ImBoss(p) == boss[p]

\* masterSessionNewHost
MasterNewHost_ZeroKept(p) ==
    /\ p \notin down
    /\ \E i \in DOMAIN out[p] :
        /\ NextWord(p, i) /\ out[p][i].rpc = "newHost"
        /\ read' = [read EXCEPT ![p] = i]
    /\ boss' = [boss EXCEPT ![p] = FALSE]
    /\ UNCHANGED <<masterVars, link, ls, chan, log, down, quits>>
MasterNewHost(p) ==
    /\ p \notin down
    /\ \E i \in DOMAIN out[p] :
        /\ NextWord(p, i) /\ out[p][i].rpc = "newHost"
        /\ read' = [read EXCEPT ![p] = i]
        /\ boss' = UpdateHost(p, out[p][i].arg)
    /\ UNCHANGED <<masterVars, link, ls, chan, log, down, quits>>

\* getOrAdd binds a new link to the session but takes an old one as it is.
GetOrAdd(p, q) == [link EXCEPT ![p][q] = IF @ = "none" THEN "bound" ELSE @]

\* LinkState::connect starts only from Unknown.  Slips: from any state; of the boss alone.
Connect_Again(p, q) ==
    /\ ls' = [ls EXCEPT ![p][q].state = "Connecting"]
    /\ chan' = Send(p, q, Rpc("connect"))
Connect_BossOnly(p, q) ==
    IF Fresh(ls[p][q])
      THEN /\ ls' = [ls EXCEPT ![p][q].state = "Connecting"]
           /\ chan' = IF ImBoss(p) THEN Send(p, q, Rpc("connect")) ELSE chan
      ELSE UNCHANGED <<ls, chan>>
Connect(p, q) ==
    IF Fresh(ls[p][q])
      THEN /\ ls' = [ls EXCEPT ![p][q].state = "Connecting"]
           /\ chan' = Send(p, q, Rpc("connect"))
      ELSE UNCHANGED <<ls, chan>>

\* masterSessionConnectTo
MasterConnectTo(p) ==
    /\ p \notin down
    /\ \E i \in DOMAIN out[p] :
        /\ NextWord(p, i) /\ out[p][i].rpc = "connectTo"
        /\ read' = [read EXCEPT ![p] = i]
        /\ link' = GetOrAdd(p, out[p][i].arg)
        /\ Connect(p, out[p][i].arg)
    /\ UNCHANGED <<masterVars, boss, log, down, quits>>

\* handleReceivedPacket: the first packet of q makes the link.
Arrive(p, q) ==
    /\ p \notin down
    /\ chan[q][p] # <<>>
    /\ link[p][q] = "none"
    /\ link' = [link EXCEPT ![p][q] = "orphan"]
    /\ UNCHANGED <<masterVars, read, boss, ls, chan, log, down, quits>>
----------------------------------------------------------------------------
\* p processes an RPC of q on a link with a session.
Handling(p, q, name) ==
    /\ p \notin down
    /\ link[p][q] \in {"bound", "left"}
    /\ chan[q][p] # <<>>
    /\ Head(chan[q][p]).rpc = name

Taken(p, q) == [chan EXCEPT ![q][p] = Tail(@)]

\* forLink( &l, ... ): m is sent on all links of p's session but the one to q.
Relayed(c, p, q, m) ==
    [c EXCEPT ![p] = [r \in Links |-> IF r # q /\ link[p][r] = "bound" THEN Append(@[r], m) ELSE @[r]]]

\* LinkState::accept
MayAccept(s) == s.accepted \/ s.state \in {"Unknown", "Connecting"}
Accepted(s)  == [s EXCEPT !.state = "Connected", !.accepted = TRUE]

\* LinkState::canReceiveConnect
CanReceiveConnect(s) == s.state # "Disconnected" /\ ~s.received

\* linkStateConnect.  The session data of a client never says p2p, so only imBoss() counts.
OnConnect(p, q) ==
    LET s == [ls[p][q] EXCEPT !.state = IF @ = "Absent" THEN "Unknown" ELSE @]
        c == Taken(p, q)
    IN
    /\ Handling(p, q, "connect")
    /\ IF CanReceiveConnect(s) /\ MayAccept(s)
         THEN /\ ls' = [ls EXCEPT ![p][q] = Accepted([s EXCEPT !.received = TRUE])]
              /\ log' = [log EXCEPT ![p][q] = Append(@, "connect")]
              /\ chan' = IF ImBoss(p)
                           THEN Relayed([c EXCEPT ![p][q] = Append(@, Rpc("accepted"))], p, q,
                                        RpcAbout("newConnection", q))
                           ELSE c
         ELSE /\ ls' = [ls EXCEPT ![p][q] = [s EXCEPT !.received = @ \/ CanReceiveConnect(s)]]
              /\ chan' = c
              /\ UNCHANGED log
    /\ UNCHANGED <<masterVars, read, boss, link, down, quits>>

\* linkStateAccepted: its list of addresses is read through a null pointer before the handler runs.
OnAccepted(p, q) ==
    /\ Handling(p, q, "accepted")
    /\ chan' = Taken(p, q)
    /\ down' = down \cup {p}
    /\ UNCHANGED <<masterVars, read, boss, link, ls, log, quits>>

\* LinkState::disconnect: wasConnected
WasConnected_Ever(s) == s.state # "Absent"
WasConnected(s) == s.state = "Connected"

\* linkStateDisconnect of the link's own peer.
OnDisconnect(p, q) ==
    LET wasConnected == WasConnected(ls[p][q])
        c == Taken(p, q)
    IN
    /\ Handling(p, q, "disconnect")
    /\ IF ls[p][q].state = "Absent"
         THEN /\ chan' = c
              /\ UNCHANGED <<ls, log, link>>
         ELSE /\ ls' = [ls EXCEPT ![p][q].state = "Disconnected"]
              /\ log' = IF wasConnected THEN [log EXCEPT ![p][q] = Append(@, "disconnect")] ELSE log
              /\ link' = [link EXCEPT ![p][q] = "left"]
              /\ chan' = IF wasConnected /\ ImBoss(p) THEN Relayed(c, p, q, RpcAbout("disconnected", q)) ELSE c
    /\ UNCHANGED <<masterVars, read, boss, down, quits>>

\* linkStateNewConnection, and linkStateDisconnect of somebody else: an event, no more.
OnRelay(p, q) ==
    LET m == Head(chan[q][p]) IN
    /\ Handling(p, q, "newConnection") \/ Handling(p, q, "disconnected")
    /\ chan' = Taken(p, q)
    /\ log' = [log EXCEPT ![p][m.about] = Append(@, m.rpc)]
    /\ UNCHANGED <<masterVars, read, boss, link, ls, down, quits>>

\* RPC_BEGIN on a link without a session.
OnOrphan(p, q) ==
    /\ p \notin down
    /\ link[p][q] = "orphan"
    /\ chan[q][p] # <<>>
    /\ down' = down \cup {p}
    /\ UNCHANGED <<masterVars, read, boss, link, ls, chan, log, quits>>

\* Slip: the other end is not told.
Disconnect_Silent(p, q) ==
    /\ p \notin down
    /\ CallsLeft
    /\ link[p][q] # "none"
    /\ ls[p][q].state # "Absent"
    /\ quits' = quits + 1
    /\ ls' = [ls EXCEPT ![p][q].state = "Disconnected"]
    /\ link' = [link EXCEPT ![p][q] = IF @ = "bound" THEN "left" ELSE @]
    /\ UNCHANGED <<masterVars, read, boss, chan, log, down>>

\* Network::disconnect or kick of a link that has a LinkState.
Disconnect(p, q) ==
    /\ p \notin down
    /\ CallsLeft
    /\ link[p][q] # "none"
    /\ ls[p][q].state # "Absent"
    /\ quits' = quits + 1
    /\ ls' = [ls EXCEPT ![p][q].state = "Disconnected"]
    /\ chan' = IF WasConnected(ls[p][q]) THEN Send(p, q, Rpc("disconnect")) ELSE chan
    /\ link' = [link EXCEPT ![p][q] = IF @ = "bound" THEN "left" ELSE @]
    /\ UNCHANGED <<masterVars, read, boss, log, down>>
----------------------------------------------------------------------------
\* A client registers a session or joins one.
AskMaster ==
    /\ CallsLeft
    /\ \/ \E p \in Links, d \in Datas : RegisterServer(p, d)
       \/ \E p \in Links, f \in Filters : JoinServer(p, f) \/ JoinNothing(p, f)
    /\ UNCHANGED peerVars

FromMaster(p) == MasterNewHost(p) \/ MasterConnectTo(p)

FromPeer(p, q) ==
    OnConnect(p, q) \/ OnAccepted(p, q) \/ OnDisconnect(p, q) \/ OnRelay(p, q) \/ OnOrphan(p, q)

PNext ==
    \/ AskMaster
    \/ \E p \in Links : FromMaster(p)
    \/ \E p, q \in Links : Arrive(p, q) \/ FromPeer(p, q) \/ Disconnect(p, q)

PSpec == PInit /\ [][PNext]_allVars
----------------------------------------------------------------------------
Connected(p, q) == ls[p][q].state = "Connected"
Direct(e)       == e \in {"connect", "disconnect"}
Requests(p, q)  == {i \in DOMAIN chan[p][q] : chan[p][q][i].rpc = "connect"}

\* Of the peers that heard from the master, exactly the host of their session takes itself
\* for the boss: relays and accepts have one source.
BossIsHost ==
    \A p \in Links : (sessionOf[p] # 0 /\ read[p] > 0) => (boss[p] <=> p = ms[sessionOf[p]].host)

\* If nobody disconnected, a peer that takes a link for Connected is taken for Connected by the
\* other end as soon as that end processed what was sent to it, and the two agree once nothing
\* is under way.  Both may have asked the other at the same time.
Agreement ==
    quits = 0 => \A p, q \in Links : (Connected(p, q) /\ chan[p][q] = <<>>) => Connected(q, p)

\* A connect request under way is the first of its link: canReceiveConnect never finds one
\* that came before, though a peer may be told twice to connect.
ConnectOnce ==
    \A p, q \in Links :
        /\ \A i, j \in Requests(p, q) : i = j
        /\ Requests(p, q) # {} => ~ls[q][p].received

\* What the listeners hear from a peer's own link is a connect and at most one disconnect after
\* it, and then nothing more: no RPC that was under way, and no word of the master, brings back a
\* link that its peer closed.  What the boss relays about the same peer, with the same onConnect
\* and onDisconnect, comes besides: see RelaysInOrder.
DisconnectIsLast ==
    \A p, q \in Links : \A i \in DOMAIN log[p][q] :
        log[p][q][i] = "disconnect" =>
            /\ \E j \in 1 .. i - 1 : log[p][q][j] = "connect"
            /\ \A j \in DOMAIN log[p][q] : j > i => ~Direct(log[p][q][j])

\* What the listeners hear of a peer through relays is at most one connect and one disconnect, in
\* this order, whichever of the links to the boss and to that peer came first: all relays have one
\* source, which relays each of the two once.  The connect may be missing, to one that came later.
RelaysInOrder ==
    \A p, q \in Links : \A i, j \in DOMAIN log[p][q] :
        (i < j /\ ~Direct(log[p][q][i]) /\ ~Direct(log[p][q][j])) =>
            log[p][q][i] = "newConnection" /\ log[p][q][j] = "disconnected"

\* A close is heard: once the RPCs of a peer that disconnected a link it had accepted are
\* processed, the other end does not take the link for Connected, nor does it later.
CloseIsHeard ==
    \A p, q \in Links :
        (ls[p][q].state = "Disconnected" /\ ls[p][q].accepted /\ chan[p][q] = <<>>) => ~Connected(q, p)
=============================================================================
