--------------------------- MODULE MasterSession ---------------------------
(***************************************************************************)
(* The matchmaking server: the lists of MasterSessionManager, the sessions *)
(* with their links and host, and the RPCs of MatchMakerData that clients  *)
(* send it.                                                                *)
(*                                                                         *)
(* RPCs are queued events that one thread processes one by one             *)
(* (NetworkEvents without asynchronous callbacks), so an RPC is an action. *)
(* LinkManager never lets go of a link, so a weak pointer to one can       *)
(* always be locked.  Name, type, password and rating of a session and of  *)
(* a search are one value, the kind.  A client sends register or join once *)
(* on a link.  StartSession and RemoveLink are operations of the class     *)
(* that nothing in the library leads to yet: no caller sends the RPC, and  *)
(* removeLink is reached from LinkState, which a link of the master has    *)
(* not.                                                                    *)
(***************************************************************************)
EXTENDS Naturals, Sequences, Functions

CONSTANTS
    Links,          \* links to clients
    Datas,          \* MasterSessionData: [kind, p2p, lateJoin, maxClients]
    Filters,        \* SearchFilter: [kind, p2p, cs, minPlayers, maxPlayers]
    ListThreshold,  \* MM_NEW_SERVER_LIST_THRESHOLD
    None

ASSUME MasterConstants ==
    /\ ListThreshold \in Nat \ {0}
    /\ None \notin Links

VARIABLES
    ms,         \* the sessions made so far
    lists,      \* m_SessionLists, each the list m_MasterSessions of places in ms
    sessionOf,  \* m_Session of each link, a place in ms or 0
    asked,      \* links that sent their register or join RPC
    out,        \* the RPCs sent to each client, in order
    emptied     \* history: the sessions whose last link left

vars == <<ms, lists, sessionOf, asked, out, emptied>>

NewHost(who)   == [rpc |-> "newHost", arg |-> who]    \* None: the empty address
ConnectTo(who) == [rpc |-> "connectTo", arg |-> who]
Result(ok)     == [rpc |-> IF ok THEN "success" ELSE "fail", arg |-> None]

Init ==
    /\ ms = <<>>
    /\ lists = <<>>
    /\ sessionOf = [l \in Links |-> 0]
    /\ asked = {}
    /\ out = [l \in Links |-> <<>>]
    /\ emptied = {}
----------------------------------------------------------------------------
CanJoin_AfterLeave(s) == ~s.started \/ s.data.lateJoin
CanJoin(s) == (~s.data.p2p \/ ~s.someoneLeft) /\ (~s.started \/ s.data.lateJoin)

\* addLink, which refuses a link that may not join.
AddLink(s, l) == IF CanJoin(s) THEN [s EXCEPT !.links = Append(@, l)] ELSE s

\* What addLink tells the link it added.
HostNote(s, l) == NewHost(IF l = s.host THEN None ELSE s.host)

\* The list that registerSession chooses: the first one with room, or a new one.
WithRoom == {i \in DOMAIN lists : Len(lists[i]) < ListThreshold}
ListFor  == IF WithRoom = {} THEN Len(lists) + 1 ELSE CHOOSE i \in WithRoom : \A j \in WithRoom : i <= j

\* MasterSessionList::addSession
AddSession(id) ==
    lists' = IF ListFor > Len(lists) THEN Append(lists, <<id>>)
                                     ELSE [lists EXCEPT ![ListFor] = Append(@, id)]

\* The constructor of MasterSession.
NewSession(l, d) == [data |-> d, links |-> <<>>, host |-> l, started |-> FALSE, someoneLeft |-> FALSE]

\* registerServer and joinServer of MatchMakerData, at the client: once on a link.
AskOnce(l) == l \notin asked /\ asked' = asked \cup {l}

\* masterLinkRpcRegisterServer: the link is host of its new session at once.
RegisterServer(l, d) ==
    LET s  == AddLink(NewSession(l, d), l)
        id == Len(ms) + 1
    IN
    /\ AskOnce(l)
    /\ ms' = Append(ms, s)
    /\ AddSession(id)
    /\ sessionOf' = [sessionOf EXCEPT ![l] = id]
    /\ out' = [out EXCEPT ![l] = @ \o <<HostNote(s, l), Result(TRUE)>>]
    /\ UNCHANGED emptied

\* MasterSession::operator==, by which a search finds a session.
Matches_Closed(s, f) ==
    /\ s.data.kind = f.kind
    /\ (s.data.p2p /\ f.p2p) \/ (~s.data.p2p /\ f.cs)
    /\ Len(s.links) >= f.minPlayers
    /\ s.data.maxClients <= f.maxPlayers
Matches(s, f) ==
    /\ CanJoin(s)
    /\ s.data.kind = f.kind
    /\ (s.data.p2p /\ f.p2p) \/ (~s.data.p2p /\ f.cs)
    /\ Len(s.links) >= f.minPlayers
    /\ s.data.maxClients <= f.maxPlayers

\* The places (list, position) of matching sessions, and the first of them, as a set.
Found(f) == {p \in UNION {{i} \X DOMAIN lists[i] : i \in DOMAIN lists} : Matches(ms[lists[p[1]][p[2]]], f)}
FirstOf(places) == {p \in places : \A q \in places : p[1] < q[1] \/ (p[1] = q[1] /\ p[2] <= q[2])}

\* sendConnectRequests: in a p2p session every link, the new one included (addLink
\* comes first), is told of the new one and the new one of it.
Introductions(s, new, l) ==
    IF s.data.p2p
      THEN (IF l = new THEN [k \in DOMAIN s.links |-> ConnectTo(s.links[k])] ELSE <<>>)
             \o (IF l \in Range(s.links) THEN <<ConnectTo(new)>> ELSE <<>>)
      ELSE IF l = new THEN <<ConnectTo(s.host)>> ELSE <<>>

\* What the RPC sends to k when l was led to the session s; added: addLink took l.
JoinNotes(s, l, added, k) ==
    (IF k = l /\ added THEN <<HostNote(s, l)>> ELSE <<>>)
      \o Introductions(s, l, k)
      \o (IF k = l THEN <<Result(TRUE)>> ELSE <<>>)

\* masterLinkRpcJoinServer on session id (whether addLink took the link is ignored).
JoinSession(l, id) ==
    /\ ms' = [ms EXCEPT ![id] = AddLink(@, l)]
    /\ sessionOf' = IF CanJoin(ms[id]) THEN [sessionOf EXCEPT ![l] = id] ELSE sessionOf
    /\ out' = [k \in Links |-> out[k] \o JoinNotes(AddLink(ms[id], l), l, CanJoin(ms[id]), k)]
    /\ UNCHANGED <<lists, emptied>>

\* masterLinkRpcJoinServer, with a match ...
JoinServer(l, f) ==
    /\ AskOnce(l)
    /\ \E p \in FirstOf(Found(f)) : JoinSession(l, lists[p[1]][p[2]])

\* ... and without one.
JoinNothing(l, f) ==
    /\ Found(f) = {}
    /\ AskOnce(l)
    /\ out' = [out EXCEPT ![l] = Append(@, Result(FALSE))]
    /\ UNCHANGED <<ms, lists, sessionOf, emptied>>

\* SessionBase::start, and masterLinkRpcStartSession, which does nothing the second time.
Start(s) == [s EXCEPT !.started = TRUE]
StartSession(l) ==
    /\ sessionOf[l] # 0
    /\ ~ms[sessionOf[l]].started
    /\ ms' = [ms EXCEPT ![sessionOf[l]] = Start(@)]
    /\ UNCHANGED <<lists, sessionOf, asked, out, emptied>>
----------------------------------------------------------------------------
\* The find_if and the erase of removeLink; a link is in m_Links once.
PlaceOf(s, l) == CHOOSE i \in DOMAIN s : s[i] = l
Erase(s, i)   == [j \in 1 .. Len(s) - 1 |-> IF j < i THEN s[j] ELSE s[j + 1]]

\* The host after l left: the first of the links left when l was host (their scores are
\* equal).  With no link left m_Host stays as it was.
HostAfter_Same(s, l, left) == s.host
HostAfter(s, l, left) == IF l = s.host /\ left # <<>> THEN left[1] ELSE s.host

\* removeLink.  When the host leaves all links left are told.  If there is none, the pointer
\* to the one that left still locks: the session is not removed and that link is told it is
\* host.
RemoveLink_HostUntold(l) ==
    LET id   == sessionOf[l]
        left == Erase(ms[id].links, PlaceOf(ms[id].links, l))
        host == HostAfter(ms[id], l, left)
        s    == [ms[id] EXCEPT !.links = left, !.someoneLeft = TRUE, !.host = host]
    IN
    /\ id # 0
    /\ l \in Range(ms[id].links)
    /\ ms' = [ms EXCEPT ![id] = s]
    /\ out' = [k \in Links |-> IF l = ms[id].host /\ k \in Range(left) \ {host}
                                 THEN Append(out[k], HostNote(s, k)) ELSE out[k]]
    /\ emptied' = IF left = <<>> THEN emptied \cup {id} ELSE emptied
    /\ UNCHANGED <<lists, sessionOf, asked>>
RemoveLink(l) ==
    LET id   == sessionOf[l]
        left == Erase(ms[id].links, PlaceOf(ms[id].links, l))
        host == HostAfter(ms[id], l, left)
        s    == [ms[id] EXCEPT !.links = left, !.someoneLeft = TRUE, !.host = host]
    IN
    /\ id # 0
    /\ l \in Range(ms[id].links)
    /\ ms' = [ms EXCEPT ![id] = s]
    /\ out' = [k \in Links |-> IF l = ms[id].host /\ k \in Range(left) \cup {host}
                                 THEN Append(out[k], HostNote(s, k)) ELSE out[k]]
    /\ emptied' = IF left = <<>> THEN emptied \cup {id} ELSE emptied
    /\ UNCHANGED <<lists, sessionOf, asked>>

Next ==
    \/ \E l \in Links, d \in Datas : RegisterServer(l, d)
    \/ \E l \in Links, f \in Filters : JoinServer(l, f) \/ JoinNothing(l, f)
    \/ \E l \in Links : StartSession(l) \/ RemoveLink(l)

Spec == Init /\ [][Next]_vars
----------------------------------------------------------------------------
Members(id) == Range(ms[id].links)
LetIn(id)   == {l \in Links : sessionOf[l] = id}    \* removeLink leaves m_Session of the link
LastIn(q, m) == \E i \in DOMAIN q : q[i] = m /\ \A j \in DOMAIN q : j > i => q[j].rpc # m.rpc

Sessions == [data : Datas, links : Seq(Links), host : Links, started : BOOLEAN, someoneLeft : BOOLEAN]
Rpcs == [rpc : {"newHost", "connectTo", "success", "fail"}, arg : Links \cup {None}]

\* "A master session always has a host" (MatchMakerData.cpp:76): the host is one of the
\* session's own links, through every register, join, leave and choice of a new host, until the
\* last link leaves (removeLink then keeps a host that is gone).
HostIsMember == \A id \in DOMAIN ms \ emptied : ms[id].host \in Members(id)

\* The last host a member was told of is the host that the session has, and only the
\* host itself was told the empty address, by which a client takes itself to be host.
HostKnown ==
    \A id \in DOMAIN ms : \A l \in Members(id) :
        LastIn(out[l], NewHost(IF l = ms[id].host THEN None ELSE ms[id].host))

\* In a p2p session any two links that were ever let in, at the same time or not, were each told
\* to connect to the other: nobody joins when somebody has left, so no member was there without
\* hearing of all the others, those that are gone included.
PeersIntroduced ==
    \A id \in DOMAIN ms : ms[id].data.p2p =>
        \A a, b \in LetIn(id) : a # b => ConnectTo(b) \in Range(out[a])

\* Success means a session: a link that was told so has one, and a link has one only if told
\* so, though JoinServer does not look at what addLink returned.
SuccessMeansSession == \A l \in Links : sessionOf[l] # 0 <=> Result(TRUE) \in Range(out[l])
=============================================================================
