------------------------------ MODULE Session ------------------------------
(***************************************************************************)
(* A session at one of its peers: the list m_Links, the messages that are  *)
(* buffered for links to come, the calls of the user that go through all   *)
(* links, and the events that worker threads push and the user's thread    *)
(* processes, with the listeners that hear of them.                        *)
(*                                                                         *)
(* Without asynchronous callbacks one thread makes the calls and processes *)
(* the events; worker threads only push them, under m_EventsMutex, which   *)
(* processQueuedEvents holds to the end.  With asynchronous callbacks the  *)
(* workers run the handlers themselves, and nothing guards the session.    *)
(* The steps of the handshake are those of LinkState, and links live as    *)
(* long as the network (LinkManager).  Messages are numbered; what is sent *)
(* on one link only, RPCs of the handshake included, is left out.          *)
(***************************************************************************)
EXTENDS Naturals, Sequences, FiniteSets, Functions

CONSTANTS
    Links,              \* links to the other peers
    Master,             \* the link to the matchmaker; it has no LinkState
    App, Workers,       \* threads
    Async,              \* m_AllowAsyncCallbacks
    Listeners,          \* ISessionListener objects
    NumChannels,        \* MM_NUM_CHANNELS
    None,
    MaxCalls,           \* bound: calls of the user, new peers and RPCs that arrive, together
    MaxQueued           \* bound: RPCs arrive while fewer events wait

ASSUME SessionAssumption == Master \notin Links /\ NumChannels \in Nat

Threads  == {App} \cup Workers
Channels == 1 .. NumChannels

VARIABLES
    mLinks,     \* SessionBase::m_Links
    manager,    \* LinkManager::m_LinksAsArray
    orphans,    \* those links of it that have no session
    st,         \* LinkState::m_State of each link, "Unknown" if it has none
    buffered,   \* m_BufferedPackets
    queue,      \* messages enqueued in ReliableSend, by link and channel
    listeners,  \* m_Listeners
    answered,   \* the master's answer to registerServer or joinServer came
    events,     \* NetworkEvents::m_Events: [id, kind, link]
    drain,      \* processQueuedEvents: "out", "top" of the loop, or in "process"
    call,       \* what each thread is doing: [op, link, pos, end, msg, told]
    down,       \* the process went down: an iterator or a session that is not one
    log,        \* history: the messages sent, [channel, excl, buffer]
    joined,     \* history: how many of them when a link entered m_Links
    wanted,     \* history: the listeners added and not removed
    calls,      \* history: calls and RPCs so far
    pushed,     \* history: events pushed
    done        \* history: events processed and popped

links == <<mLinks, manager, orphans, st, buffered, queue, joined>>
ears  == <<listeners, wanted, answered>>
feed  == <<events, drain, pushed, done>>
vars  == <<links, ears, feed, call, down, log, calls>>

Idle == [op |-> "idle", link |-> None, pos |-> 0, end |-> 0, msg |-> 0, told |-> {}, must |-> {}]
Event(kind, l) == [id |-> pushed + 1, kind |-> kind, link |-> l]
AsSeq(n) == [i \in 1 .. n |-> i]

\* After registerServer or joinServer: the master link is the first one of the session.
Init ==
    /\ mLinks = <<Master>> /\ manager = <<Master>> /\ orphans = {}
    /\ st = [l \in Links \cup {Master} |-> "Unknown"]
    /\ buffered = [c \in Channels |-> <<>>]
    /\ queue = [l \in Links \cup {Master} |-> [c \in Channels |-> <<>>]]
    /\ listeners = <<>> /\ answered = FALSE /\ events = <<>> /\ drain = "out"
    /\ call = [t \in Threads |-> Idle]
    /\ down = FALSE
    /\ log = <<>> /\ joined = [l \in Links \cup {Master} |-> 0]
    /\ wanted = {} /\ calls = 0 /\ pushed = 0 /\ done = <<>>
----------------------------------------------------------------------------
At(t, op) == ~down /\ call[t].op = op
Doing(t, c) == call' = [call EXCEPT ![t] = c]
Enqueued(l, c, m) == [queue EXCEPT ![l][c] = Append(@, m)]

\* The user's thread is free, outside processEvents or in the callback of a listener.
Free(t) == t = App /\ At(t, "idle") /\ drain = "out"
InCallback(t) == (At(t, "note") /\ call[t].pos > 1) \/ At(t, "callback")
Counted == calls < MaxCalls /\ calls' = calls + 1

MayCall(t) == (Free(t) \/ InCallback(t)) /\ (t = App \/ Async)

\* What may take many steps is begun outside, or last in the callback of registerServer.
MayBegin == Free(App) \/ At(App, "callback")

\* Of an event the listeners hear one after the other (EventNewHost, and those of LinkState), or
\* the callback given to registerServer or joinServer (EventRegisterResult, EventJoinResult).
Note(l)  == [Idle EXCEPT !.op = "note", !.link = l, !.pos = 1, !.end = Len(listeners), !.must = wanted]
Callback == [Idle EXCEPT !.op = "callback", !.link = Master]
Process(e) == IF e.kind = "callback" THEN Callback ELSE Note(e.link)

\* Link::pushEvent: the event waits in the queue, or the thread processes it on the spot.
Post(t, e) ==
    /\ pushed' = pushed + 1
    /\ IF Async THEN Doing(t, Process(e)) /\ UNCHANGED events
       ELSE events' = Append(events, e) /\ UNCHANGED call

\* Session::removeLink, std::remove: the others, in their order.
Without_First(s, l) == IF s # <<>> /\ Head(s) = l THEN Tail(s) ELSE s
Without(s, l) ==
    LET kept == {i \in DOMAIN s : s[i] # l}
        place(i) == CHOOSE k \in kept : Cardinality({j \in kept : j <= k}) = i
    IN  [i \in 1 .. Cardinality(kept) |-> s[place(i)]]

\* Link::disconnect on this side.
Closed(l) ==
    IF st[l] = "Unknown" THEN UNCHANGED <<st, mLinks>>
    ELSE /\ st' = [st EXCEPT ![l] = "Disconnected"]
         /\ mLinks' = Without(mLinks, l)
----------------------------------------------------------------------------
\* handleReceivedPacket: the first packet of a peer makes a link without a session, on a reception
\* thread.  disconnectAll may be going through the array that grows.  What comes of two threads
\* that make the same link at once is in Network.
Arrive(l) ==
    /\ ~down /\ Counted /\ l \notin Range(manager)
    /\ \A t \in Threads : call[t].op = "add" => call[t].link # l
    /\ manager' = Append(manager, l) /\ orphans' = orphans \cup {l}
    /\ down' \in IF \E t \in Threads : call[t].op = "all" THEN BOOLEAN ELSE {FALSE}
    /\ UNCHANGED <<mLinks, st, buffered, queue, joined, ears, feed, call, log>>

\* masterSessionConnectTo: LinkManager::getOrAdd takes a link that is there as it is, without a
\* session too, and LinkState::connect starts it if it is Unknown; a link that is new is made, ...
ConnectTo(t, e) ==
    /\ e.kind = "connectTo"
    /\ IF e.link \in Range(manager)
         THEN /\ st' = IF st[e.link] = "Unknown" THEN [st EXCEPT ![e.link] = "Connecting"] ELSE st
              /\ UNCHANGED call
         ELSE Doing(t, [Idle EXCEPT !.op = "add", !.link = e.link, !.pos = 1]) /\ UNCHANGED st
    /\ UNCHANGED <<mLinks, manager, orphans, buffered, queue, joined, events, pushed, down>>

\* ... SessionBase::addLink gives it what is buffered, channel by channel, ...
AddLink_MissesLast(t) ==
    LET l == call[t].link
        c == call[t].pos
    IN
    /\ At(t, "add") /\ c <= NumChannels
    /\ queue' = IF c = NumChannels THEN queue ELSE [queue EXCEPT ![l][c] = @ \o buffered[c]]
    /\ Doing(t, [call[t] EXCEPT !.pos = c + 1])
    /\ UNCHANGED <<mLinks, manager, orphans, st, buffered, joined, ears, feed, down, log, calls>>
AddLink(t) ==
    LET l == call[t].link
        c == call[t].pos
    IN
    /\ At(t, "add") /\ c <= NumChannels
    /\ queue' = [queue EXCEPT ![l][c] = @ \o buffered[c]]
    /\ Doing(t, [call[t] EXCEPT !.pos = c + 1])
    /\ UNCHANGED <<mLinks, manager, orphans, st, buffered, joined, ears, feed, down, log, calls>>

\* ... and puts it in the list; then LinkState::connect.
AddLinkEnd(t) ==
    LET l == call[t].link IN
    /\ At(t, "add") /\ call[t].pos > NumChannels
    /\ mLinks' = Append(mLinks, l) /\ manager' = Append(manager, l)
    /\ joined' = [joined EXCEPT ![l] = Len(log)]
    /\ st' = [st EXCEPT ![l] = "Connecting"]
    /\ Doing(t, Idle)
    /\ UNCHANGED <<orphans, queue, buffered, ears, feed, down, log, calls>>

\* linkStateConnect on a link that waits for it.
Connect(t, e) ==
    /\ e.kind = "connect" /\ e.link \notin orphans
    /\ IF st[e.link] = "Connecting"
         THEN st' = [st EXCEPT ![e.link] = "Connected"] /\ Post(t, Event("note", e.link))
         ELSE UNCHANGED <<st, call, events, pushed>>
    /\ UNCHANGED <<mLinks, manager, orphans, buffered, queue, joined, down>>

\* linkStateDisconnect: LinkState::disconnect with isReceive.
Disconnected_Stays(t, e) ==
    /\ e.kind = "disconnect" /\ e.link \notin orphans
    /\ IF st[e.link] = "Connected" THEN Post(t, Event("note", e.link))
       ELSE UNCHANGED <<call, events, pushed>>
    /\ st' = [st EXCEPT ![e.link] = "Disconnected"]
    /\ mLinks' = Without_First(mLinks, e.link)
    /\ UNCHANGED <<manager, orphans, buffered, queue, joined, down>>
Disconnected(t, e) ==
    /\ e.kind = "disconnect" /\ e.link \notin orphans
    /\ IF st[e.link] = "Connected" THEN Post(t, Event("note", e.link))
       ELSE UNCHANGED <<call, events, pushed>>
    /\ st' = [st EXCEPT ![e.link] = "Disconnected"]
    /\ mLinks' = Without(mLinks, e.link)
    /\ UNCHANGED <<manager, orphans, buffered, queue, joined, down>>

\* masterSessionNewHost; what the session then takes for its host is in LinkState.
NewHost(t, e) ==
    /\ e.kind = "newHost"
    /\ Post(t, Event("note", Master))
    /\ UNCHANGED <<links, down>>

\* masterLinkRpcRegisterResult and masterLinkRpcJoinResult.
MasterResult(t, e) ==
    /\ e.kind = "result"
    /\ Post(t, Event("callback", Master))
    /\ UNCHANGED <<links, down>>

\* RPC_BEGIN goes through the session of the link.
NoSession(e) ==
    /\ e.kind \in {"connect", "disconnect"} /\ e.link \in orphans
    /\ down' = TRUE
    /\ UNCHANGED <<links, call, events, pushed>>

Handle(t, e) ==
    \/ ConnectTo(t, e) \/ Connect(t, e) \/ Disconnected(t, e) \/ NoSession(e)
    \/ NewHost(t, e) \/ MasterResult(t, e)

\* A worker hands on an RPC that arrived: connectTo for any peer, the others from peers that
\* have a link; of the master, which answers once, new hosts and the answer.
Arrived(l) ==
    IF l = Master THEN {"newHost"} \cup (IF answered THEN {} ELSE {"result"})
    ELSE {"connectTo"} \cup (IF l \in Range(manager) THEN {"connect", "disconnect"} ELSE {})
Word(w, l) ==
    /\ At(w, "idle") /\ Counted
    /\ \E k \in Arrived(l) :
         /\ answered' = (answered \/ k = "result")
         /\ IF Async THEN Handle(w, Event(k, l)) /\ UNCHANGED <<drain, done>>
            ELSE /\ drain = "out" /\ Len(events) < MaxQueued
                 /\ events' = Append(events, Event(k, l)) /\ pushed' = pushed + 1
                 /\ UNCHANGED <<call, drain, done, links, down>>
    /\ UNCHANGED <<listeners, wanted, log>>

\* forListeners, one listener: the end of the loop was taken when it began.
CallListener(t) ==
    /\ At(t, "note") /\ call[t].pos <= call[t].end
    /\ Doing(t, [call[t] EXCEPT !.pos = @ + 1, !.told = @ \cup {listeners[call[t].pos]}])
    /\ UNCHANGED <<links, ears, feed, down, log, calls>>
CallEnd(t) ==
    /\ At(t, "callback") \/ (At(t, "note") /\ call[t].pos > call[t].end)
    /\ Doing(t, Idle)
    /\ UNCHANGED <<links, ears, feed, down, log, calls>>
----------------------------------------------------------------------------
\* processQueuedEvents takes m_EventsMutex, ...
ProcessEvents ==
    /\ ~Async /\ Free(App)
    /\ drain' = "top"
    /\ UNCHANGED <<links, ears, events, pushed, done, call, down, log, calls>>

\* ... processes the front event, which stays in the list meanwhile, ...
ProcessFront ==
    /\ ~down /\ drain = "top" /\ events # <<>>
    /\ drain' = "process"
    /\ \/ Handle(App, Head(events))
       \/ /\ Head(events).kind \in {"note", "callback"}
          /\ Doing(App, Process(Head(events)))
          /\ UNCHANGED <<links, events, pushed, down>>
    /\ UNCHANGED <<done, ears, log, calls>>

\* ... pops it, ...
PopFront_Clears ==
    /\ At(App, "idle") /\ drain = "process"
    /\ events' = <<>>
    /\ done' = Append(done, Head(events).id)
    /\ drain' = "top"
    /\ UNCHANGED <<links, ears, pushed, call, down, log, calls>>
PopFront ==
    /\ At(App, "idle") /\ drain = "process"
    /\ events' = Tail(events)
    /\ done' = Append(done, Head(events).id)
    /\ drain' = "top"
    /\ UNCHANGED <<links, ears, pushed, call, down, log, calls>>

\* ... and goes on until there is none.
ProcessEnd ==
    /\ ~down /\ drain = "top" /\ events = <<>>
    /\ drain' = "out"
    /\ UNCHANGED <<links, ears, events, pushed, done, call, down, log, calls>>
----------------------------------------------------------------------------
\* SessionBase::bufferMsg
BufferMsg(m, c) == [buffered EXCEPT ![c] = Append(@, m)]

\* Network::sendReliable to a session: the message is buffered, ...
SendReliable(c, buffer, excl) ==
    LET m == Len(log) + 1 IN
    /\ MayBegin /\ Counted
    /\ log' = Append(log, [channel |-> c, excl |-> excl, buffer |-> buffer])
    /\ buffered' = IF buffer THEN BufferMsg(m, c) ELSE buffered
    /\ Doing(App, [Idle EXCEPT !.op = "send", !.msg = m, !.pos = 1])
    /\ UNCHANGED <<mLinks, manager, orphans, st, queue, joined, ears, feed, down>>

\* ... and enqueued by SessionBase::forLink.
SendOne(t) ==
    LET m == log[call[t].msg]
        l == mLinks[call[t].pos]
    IN
    /\ At(t, "send") /\ call[t].pos <= Len(mLinks)
    /\ queue' = IF l = m.excl THEN queue ELSE Enqueued(l, m.channel, call[t].msg)
    /\ Doing(t, [call[t] EXCEPT !.pos = @ + 1])
    /\ UNCHANGED <<mLinks, manager, orphans, st, buffered, joined, ears, feed, down, log, calls>>
SendEnd(t) ==
    /\ At(t, "send") /\ call[t].pos > Len(mLinks)
    /\ Doing(t, Idle)
    /\ UNCHANGED <<links, ears, feed, down, log, calls>>

\* Network::kick and disconnect of a link.
DisconnectLink(t, l) ==
    /\ MayCall(t) /\ Counted /\ l \in Range(manager)
    /\ Closed(l)
    /\ UNCHANGED <<manager, orphans, buffered, queue, joined, ears, feed, call, down, log>>

\* Session::disconnect: forLink has moved on to the next element when removeLink erases the one
\* it passed.  The next link is skipped; after the last one the iterator is behind the end.
DisconnectSession ==
    /\ MayBegin /\ Counted
    /\ Doing(App, [Idle EXCEPT !.op = "session", !.pos = 1])
    /\ UNCHANGED <<links, ears, feed, down, log>>
SessionOne(t) ==
    LET p == call[t].pos IN
    /\ At(t, "session") /\ p <= Len(mLinks)
    /\ Closed(mLinks[p])
    /\ down' = (p + 1 > Len(mLinks') + 1)
    /\ Doing(t, IF p + 1 > Len(mLinks') THEN Idle ELSE [call[t] EXCEPT !.pos = p + 1])
    /\ UNCHANGED <<manager, orphans, buffered, queue, joined, ears, feed, log, calls>>

\* Network::disconnectAll: LinkManager::forEachLink, by index.
AllOne_MLinks(t) ==
    LET p == call[t].pos IN
    /\ At(t, "all") /\ p <= Len(mLinks)
    /\ Closed(mLinks[p])
    /\ Doing(t, IF p + 1 > Len(mLinks') THEN Idle ELSE [call[t] EXCEPT !.pos = p + 1])
    /\ UNCHANGED <<manager, orphans, buffered, queue, joined, ears, feed, down, log, calls>>
DisconnectAll ==
    /\ MayBegin /\ Counted
    /\ Doing(App, [Idle EXCEPT !.op = "all", !.pos = 1])
    /\ UNCHANGED <<links, ears, feed, down, log>>
AllOne(t) ==
    LET p == call[t].pos IN
    /\ At(t, "all") /\ p <= Len(manager)
    /\ Closed(manager[p])
    /\ Doing(t, IF p + 1 > Len(manager) THEN Idle ELSE [call[t] EXCEPT !.pos = p + 1])
    /\ UNCHANGED <<manager, orphans, buffered, queue, joined, ears, feed, down, log, calls>>
----------------------------------------------------------------------------
\* addListener: in a callback the vector may move away under the loop of forListeners.
AddListener(t, x) ==
    /\ MayCall(t) /\ Counted /\ x \notin wanted
    /\ listeners' = Append(listeners, x) /\ wanted' = wanted \cup {x}
    /\ down' \in IF call[t].op = "note" THEN BOOLEAN ELSE {FALSE}
    /\ UNCHANGED <<links, answered, feed, call, log>>

\* removeListener: std::remove moves the others to the front and the vector keeps its length.
Removed_PopBack(s, x) == SubSeq(Without(s, x) \o s, 1, Len(s) - 1)
Removed(s, x) == Without(s, x) \o SubSeq(s, Len(Without(s, x)) + 1, Len(s))
RemoveListener(t, x) ==
    /\ MayCall(t) /\ Counted
    /\ listeners' = Removed(listeners, x) /\ wanted' = wanted \ {x}
    /\ Doing(t, [call[t] EXCEPT !.must = {}])
    /\ UNCHANGED <<links, answered, feed, down, log>>

Call ==
    \/ \E c \in Channels, b \in BOOLEAN, x \in (Links \cap Range(manager)) \cup {None} : SendReliable(c, b, x)
    \/ DisconnectSession \/ DisconnectAll \/ ProcessEvents

Step(t) ==
    \/ AddLink(t) \/ AddLinkEnd(t) \/ CallListener(t) \/ CallEnd(t)
    \/ SendOne(t) \/ SendEnd(t) \/ SessionOne(t) \/ AllOne(t)

Next ==
    \/ Call \/ ProcessFront \/ PopFront \/ ProcessEnd
    \/ \E l \in Links : Arrive(l)
    \/ \E w \in Workers, l \in Links \cup {Master} : Word(w, l)
    \/ \E t \in Threads : Step(t) \/ (\E l \in Links : DisconnectLink(t, l))
    \/ \E t \in Threads, x \in Listeners : AddListener(t, x) \/ RemoveListener(t, x)

Spec == Init /\ [][Next]_vars
----------------------------------------------------------------------------
Quiet == ~down /\ \A t \in Threads : call[t].op = "idle"

Due(l, c, i) == log[i].channel = c /\ IF i <= joined[l] THEN log[i].buffer ELSE log[i].excl # l
Rising(s) == \A i, j \in DOMAIN s : i < j => s[i] < s[j]

\* What the links of m_Links were given on a channel is every message buffered before they came
\* and every message sent since that did not exclude them, each once and in order: sendReliable
\* and addLink leave no gap and no overlap between them.
MembersCaughtUp ==
    Quiet => \A l \in Range(mLinks), c \in Channels :
        /\ Rising(queue[l][c])
        /\ Range(queue[l][c]) = {i \in DOMAIN log : Due(l, c, i)}

\* A link of the session is in m_Links, once, exactly as long as its LinkState is Connecting or
\* Connected, whichever end closes it and however many links removeLink erases while others are
\* visited.  A link that was made without a session is never in it, though it may be Connecting.
MembersAreOpen ==
    \A l \in Links :
        Cardinality({i \in DOMAIN mLinks : mLinks[i] = l}) =
            IF st[l] \in {"Connecting", "Connected"} /\ l \notin orphans THEN 1 ELSE 0

\* When disconnectAll returns no link is connected.
AllClosed ==
    [][\A t \in Threads : (call[t].op = "all" /\ call[t]' = Idle) => \A l \in Links : st'[l] # "Connected"]_vars

\* Events are processed once each, in the order of pushEvent, those that a handler or a listener
\* pushes in the middle of the loop included.
EventsInOrder ==
    ~Async => done \o [i \in DOMAIN events |-> events[i].id] = AsSeq(pushed)

\* A listener that was added and not removed hears of the event, unless the callback of another
\* one removes a listener: though removeListener leaves m_Listeners in disorder.
ListenersHear ==
    \A t \in Threads : (call[t].op = "note" /\ call[t].pos > call[t].end) => call[t].must \subseteq call[t].told

\* "Make buffering packets and adding the new link a single atomic process to ensure no
\* discrepanties arise between sending buffered packets to new and existing links and adding new
\* buffered packets." (SessionBase.cpp:67)
AddingIsAtomic ==
    Quiet => \A l \in Range(mLinks), i \in DOMAIN log :
        (log[i].buffer /\ log[i].excl = None) =>
            Cardinality({j \in DOMAIN queue[l][log[i].channel] : queue[l][log[i].channel][j] = i}) = 1
=============================================================================
