------------------------------ MODULE Network ------------------------------
(***************************************************************************)
(* The life of a Network: its construction, the sockets it listens on, the *)
(* reception threads that read them in sets of FD_SETSIZE, the links that  *)
(* these threads and the user's thread add to LinkManager, the SendThread  *)
(* that goes through the links, and the destructor, which stops the        *)
(* threads one after the other while they work.                            *)
(*                                                                         *)
(* One thread makes the user's calls.  Neither the components of the       *)
(* Network nor LinkManager have a lock: LinkManager made twice fails an    *)
(* assertion, and a link that is added while another thread reads the      *)
(* lists may bring the process down.  The worker threads are those of      *)
(* JobSystem and appear here as open or closed; what a packet does to a    *)
(* channel is in ReliableChannel.  Winsock is external.                    *)
(***************************************************************************)
EXTENDS Naturals, Sequences, FiniteSets, Functions

CONSTANTS
    Ports,              \* ports the user listens on
    Peers,              \* addresses packets come from, numbered in the order of their bytes
    Master,             \* the address given to registerServer and joinServer, a number too
    SetSize,            \* FD_SETSIZE
    None,
    MaxSockets          \* bound: sockets made in all

\* The matchmaker sends nothing to a socket that the user listens on.
ASSUME NetworkAssumption ==
    /\ MaxSockets \in Nat /\ SetSize \in Nat \ {0}
    /\ Peers \subseteq Nat /\ Master \in Nat \ Peers

Sockets == 1 .. MaxSockets

VARIABLES
    phase,      \* "none", "up", the step of ~Network, or "gone"
    count,      \* Platform::m_NumInitialized
    wsa,        \* Winsock is started
    failed,     \* WSAStartup failed once
    os,         \* the system's socket: "unused", "open" or "closed", and its port
    live,       \* the ISocket objects there are
    listeners,  \* ListenerManager::m_Listeners, the socket of each
    sets,       \* SocketSetManager::m_ReceptionThreads
    lm,         \* there is a LinkManager
    arr,        \* LinkManager::m_LinksAsArray; the keys of m_Links are its range
    sender,     \* the SendThread: [pc, i, closing]
    jobs,       \* JobSystem takes jobs
    down        \* the process died of a data race or of a null pointer

platform == <<count, wsa, failed, live>>
vars == <<phase, platform, os, listeners, sets, lm, arr, sender, jobs, down>>

NoSocket == 0
AnyPort  == 0
Empty    == [p \in Ports |-> NoSocket]

\* ReceptionThread::start: the thread of a set that holds s.
NewSet(s) == [high |-> {s}, low |-> {}, pc |-> "top", todo |-> {}, sock |-> NoSocket, peer |-> None, closing |-> FALSE]

\* SendThread::start
NewSender == [pc |-> "sleep", i |-> 0, closing |-> FALSE]

Init ==
    /\ phase = "none"
    /\ count = 0 /\ wsa = FALSE /\ failed = FALSE /\ live = {}
    /\ os = [s \in Sockets |-> [state |-> "unused", port |-> AnyPort]]
    /\ listeners = Empty /\ sets = <<>> /\ lm = FALSE /\ arr = <<>>
    /\ sender = [pc |-> "ended", i |-> 0, closing |-> FALSE]
    /\ jobs = FALSE /\ down = FALSE
----------------------------------------------------------------------------
\* An ISocket lives as long as a listener, a link, a set or a thread holds it.
Held == Range(listeners) \cup {arr[i][1] : i \in DOMAIN arr}
          \cup UNION {sets[r].high \cup {sets[r].sock} : r \in DOMAIN sets}

\* Platform::shutdown, for each ISocket that is let go and when ~Network says so.  The last one
\* cleans up Winsock.
Shutdown_Eager(users) ==
    LET gone == Cardinality(live \ Held') IN
    /\ live' = live \cap Held'
    /\ count' = IF count >= gone + users THEN count - gone - users ELSE 0
    /\ wsa' = (wsa /\ gone + users = 0)
Shutdown(users) ==
    LET gone == Cardinality(live \ Held') IN
    /\ live' = live \cap Held'
    /\ count' = IF count >= gone + users THEN count - gone - users ELSE 0
    /\ wsa' = (wsa /\ count' > 0)
LetGo == Shutdown(0) /\ UNCHANGED failed

\* Platform::initialize.  A first call that fails is counted as well: the next one takes
\* Winsock for started.
Initialize(ok) ==
    /\ count' = count + 1
    /\ wsa' = IF count = 0 THEN ok ELSE wsa
    /\ failed' = (failed \/ (count = 0 /\ ~ok))

\* The constructor starts the workers and the SendThread.
Constructed ==
    /\ phase' = "up" /\ jobs' = TRUE
    /\ sender' = NewSender

\* INetwork::create
Create ==
    /\ phase \in {"none", "gone"} /\ ~down
    /\ \E ok \in BOOLEAN :
         /\ Initialize(ok)
         /\ IF count # 0 \/ ok THEN Constructed ELSE UNCHANGED <<phase, jobs, sender>>
    /\ UNCHANGED <<live, os, listeners, sets, lm, arr, down>>
----------------------------------------------------------------------------
Up == phase = "up" /\ ~down

\* ISocket::create, which goes through Platform::initialize, ...
Created(s) ==
    /\ os[s].state = "unused" /\ \A t \in Sockets : os[t].state = "unused" => s <= t
    /\ live' = live \cup {s}
    /\ Initialize(TRUE)

\* ... open, and bind, which fails on a port that is taken; 0 stands for any free one.
Open(s, p) == wsa /\ os' = [os EXCEPT ![s] = [state |-> "open", port |-> p]]
CanBind(p) == p = AnyPort \/ ~\E s \in Sockets : os[s] = [state |-> "open", port |-> p]

\* ReceptionThread::addSocket takes a socket when select can take one more.
HasRoom_Over(t) == Cardinality(t.high) <= SetSize
HasRoom(t) == Cardinality(t.high) < SetSize

\* SocketSetManager::addSocket: the first set with room takes it, or a new one is started.
AddSocket(s) ==
    LET room == {r \in DOMAIN sets : HasRoom(sets[r])} IN
    \/ room = {} /\ sets' = Append(sets, NewSet(s))
    \/ \E r \in room : /\ \A q \in room : r <= q
                       /\ sets' = [sets EXCEPT ![r].high = @ \cup {s}]

\* Listener::startListenIntern
StartListenIntern(s, p) ==
    /\ Created(s) /\ CanBind(p) /\ Open(s, p)
    /\ AddSocket(s)

\* ListenerManager::startListen on a port without a listener.  When one of the calls fails, as
\* bind does on a port that a socket nobody closed still has, all is left as it was.
StartListen(p) ==
    /\ Up /\ listeners[p] = NoSocket
    /\ \E s \in Sockets : StartListenIntern(s, p) /\ listeners' = [listeners EXCEPT ![p] = s]
    /\ UNCHANGED <<phase, lm, arr, sender, jobs, down>>

\* ReceptionThread::removeSocket, and SocketSetManager::removeSocket, which calls it on all.
Erased(t, s)    == [t EXCEPT !.high = @ \ {s}]
RemoveSocket(s) == sets' = [r \in DOMAIN sets |-> Erased(sets[r], s)]

\* Listener::stopListen: the socket leaves the sets and is let go; nothing closes it.
StopSocket(p) ==
    /\ RemoveSocket(listeners[p])
    /\ listeners' = [listeners EXCEPT ![p] = NoSocket]
    /\ LetGo

\* ListenerManager::stopListen
StopListen(p) ==
    /\ Up /\ listeners[p] # NoSocket
    /\ UNCHANGED <<phase, os, lm, arr, sender, jobs, down>>
    /\ StopSocket(p)

\* m_Links is a map: SocketAddrPair::operator< compares the addresses (Endpoint::operator<, the
\* bytes of the address) and, when they are the same, the sockets (BSDSocket::less).  A pair is
\* found when neither is less.
AddrLess(a, b) == a < b
SockLess(s, t) == s < t
PairLess(x, y) == IF x[2] = y[2] THEN SockLess(x[1], y[1]) ELSE AddrLess(x[2], y[2])
Has(sap) == \E i \in DOMAIN arr : ~PairLess(sap, arr[i]) /\ ~PairLess(arr[i], sap)

\* getOrAdd<LinkManager> and the lists of LinkManager: r makes or adds while others do.
Within(pcs, r) == \E q \in DOMAIN sets \ {r} : sets[q].pc \in pcs
Grow(r, sap) ==
    /\ arr' = Append(arr, sap)
    /\ down' \in IF Within({"find", "insert"}, r) \/ sender.pc = "copy" THEN BOOLEAN ELSE {FALSE}

\* LinkManager::add
AddLink(s, q) == lm' = TRUE /\ Grow(0, <<s, q>>)

\* registerServer and joinServer: a socket of their own, which is given to no set, and a link
\* to the matchmaker.
Register ==
    /\ Up
    /\ \E s \in Sockets : Created(s) /\ Open(s, AnyPort) /\ AddLink(s, Master)
    /\ UNCHANGED <<phase, listeners, sets, sender, jobs>>

\* masterSessionConnectTo on the user's thread, to a peer that is new: on the same socket.
ConnectTo(q) ==
    /\ Up
    /\ \E i \in DOMAIN arr :
         /\ arr[i][2] = Master /\ ~Has(<<arr[i][1], q>>)
         /\ Grow(0, <<arr[i][1], q>>)
    /\ UNCHANGED <<phase, platform, os, listeners, sets, lm, sender, jobs>>
----------------------------------------------------------------------------
At(r, pc) == ~down /\ sets[r].pc = pc
Becomes(r, t) == sets' = [sets EXCEPT ![r] = t]

\* rebuildSocketArrayIfNecessary; an empty set is not waited on.
Rebuild(r) ==
    /\ At(r, "top")
    /\ Becomes(r, [sets[r] EXCEPT !.low = sets[r].high, !.pc = IF sets[r].high = {} THEN "check" ELSE "select"])
    /\ UNCHANGED <<phase, platform, os, listeners, lm, arr, sender, jobs, down>>

\* select: an error when a socket of the array is closed, else those that have data, or none
\* when the time is up.
Select(r) ==
    /\ At(r, "select")
    /\ IF \E s \in sets[r].low : os[s].state = "closed"
         THEN Becomes(r, [sets[r] EXCEPT !.pc = "check"])
         ELSE \E ready \in SUBSET sets[r].low :
                Becomes(r, [sets[r] EXCEPT !.low = ready, !.todo = ready, !.pc = IF ready = {} THEN "check" ELSE "each"])
    /\ UNCHANGED <<phase, platform, os, listeners, lm, arr, sender, jobs, down>>

\* The next ready socket, if it still is in the set.
Each(r) ==
    /\ At(r, "each")
    /\ IF sets[r].todo = {} THEN Becomes(r, [sets[r] EXCEPT !.pc = "check"])
       ELSE \E s \in sets[r].todo :
              Becomes(r, [sets[r] EXCEPT !.todo = @ \ {s},
                                         !.sock = IF s \in sets[r].high THEN s ELSE NoSocket,
                                         !.pc = IF s \in sets[r].high THEN "recv" ELSE "each"])
    /\ UNCHANGED <<phase, platform, os, listeners, lm, arr, sender, jobs, down>>

\* BSDSocket::recv and Endpoint::createSource fail on a socket that was closed.
RecvFrom(s)     == os[s].state = "open"
CreateSource(s) == os[s].state = "open"

\* handleReceivedPacket: there may be an error, or the packet is dropped on purpose or for its
\* size.
Done(r) == [sets[r] EXCEPT !.sock = NoSocket, !.peer = None, !.pc = "each"]
Recv(r) ==
    /\ At(r, "recv")
    /\ \/ Becomes(r, Done(r))
       \/ /\ RecvFrom(sets[r].sock)
          /\ \E q \in Peers : Becomes(r, [sets[r] EXCEPT !.peer = q, !.pc = "get"])
    /\ UNCHANGED <<phase, os, listeners, lm, arr, sender, jobs, down>>
    /\ LetGo

\* getOrAdd<LinkManager>: it is looked for, and made when it is not there.
GetManager(r) ==
    /\ At(r, "get")
    /\ Becomes(r, [sets[r] EXCEPT !.pc = IF lm THEN "find" ELSE "make"])
    /\ UNCHANGED <<phase, platform, os, listeners, lm, arr, sender, jobs, down>>
MakeManager(r) ==
    /\ At(r, "make")
    /\ lm' = TRUE /\ down' = lm
    /\ Becomes(r, [sets[r] EXCEPT !.pc = "find"])
    /\ UNCHANGED <<phase, platform, os, listeners, arr, sender, jobs>>

\* LinkManager::getOrAdd: m_Links.find ...
Find_None(r) ==
    /\ At(r, "find")
    /\ Becomes(r, [sets[r] EXCEPT !.pc = "insert"])
    /\ UNCHANGED <<phase, platform, os, listeners, lm, arr, sender, jobs, down>>
Find(r) ==
    /\ At(r, "find")
    /\ Becomes(r, [sets[r] EXCEPT !.pc = IF Has(<<sets[r].sock, sets[r].peer>>) THEN "receive" ELSE "insert"])
    /\ UNCHANGED <<phase, platform, os, listeners, lm, arr, sender, jobs, down>>

\* ... then Link::create, which asks for the address of the socket, and the insertion.  When
\* there is no address the link is destroyed before it has a socket, and ~Link gives the null
\* pointer to removeSocket, which goes through it.
Insert(r) ==
    /\ At(r, "insert")
    /\ IF CreateSource(sets[r].sock)
         THEN Grow(r, <<sets[r].sock, sets[r].peer>>) /\ Becomes(r, [sets[r] EXCEPT !.pc = "receive"])
         ELSE down' = TRUE /\ UNCHANGED <<arr, sets>>
    /\ UNCHANGED <<phase, os, listeners, lm, sender, jobs>>
    /\ LetGo

\* Link::receive, which may end in JobSystem::addJob.
Receive(r) ==
    /\ At(r, "receive")
    /\ Becomes(r, Done(r))
    /\ UNCHANGED <<phase, os, listeners, lm, arr, sender, jobs, down>>
    /\ LetGo

\* The end of the loop of receptionThread.
Check_Waits(r) ==
    /\ At(r, "check")
    /\ Becomes(r, [sets[r] EXCEPT !.pc = IF sets[r].closing /\ sets[r].high # {} THEN "ended" ELSE "top"])
    /\ UNCHANGED <<phase, platform, os, listeners, lm, arr, sender, jobs, down>>
Check(r) ==
    /\ At(r, "check")
    /\ Becomes(r, [sets[r] EXCEPT !.pc = IF sets[r].closing THEN "ended" ELSE "top"])
    /\ UNCHANGED <<phase, platform, os, listeners, lm, arr, sender, jobs, down>>

Reception(r) ==
    \/ Rebuild(r) \/ Select(r) \/ Each(r) \/ Recv(r) \/ GetManager(r) \/ MakeManager(r)
    \/ Find(r) \/ Insert(r) \/ Receive(r) \/ Check(r)
----------------------------------------------------------------------------
\* SendThread::resendThread: it wakes up, ...
Wake ==
    /\ ~down /\ sender.pc = "sleep"
    /\ \/ sender.closing /\ sender' = [sender EXCEPT !.pc = "ended"]
       \/ /\ ~sender.closing /\ lm
          /\ sender' = [sender EXCEPT !.pc = "size", !.i = 1]
    /\ UNCHANGED <<phase, platform, os, listeners, sets, lm, arr, jobs, down>>

\* ... LinkManager::forEachLink looks at the size and copies a link, ...
ForEachLink ==
    /\ ~down
    /\ \/ /\ sender.pc = "size"
          /\ sender' = [sender EXCEPT !.pc = IF sender.i > Len(arr) THEN "sleep" ELSE "copy"]
       \/ sender.pc = "copy" /\ sender' = [sender EXCEPT !.pc = "send"]
    /\ UNCHANGED <<phase, platform, os, listeners, sets, lm, arr, jobs, down>>

\* ... and intervalDispatchOnAllChannels sends on it: Link::send, BSDSocket::send.
SendTo(s)   == os[s].state = "open"
LinkSend(i) == i \in DOMAIN arr /\ SendTo(arr[i][1])
SendLink ==
    /\ ~down
    /\ sender.pc = "send" /\ sender' = [sender EXCEPT !.pc = "size", !.i = @ + 1]
    /\ UNCHANGED <<phase, platform, os, listeners, sets, lm, arr, jobs, down>>
----------------------------------------------------------------------------
\* ~Network.  SendThread::stop, ...
StopSend ==
    /\ Up
    /\ phase' = "send"
    /\ sender' = [sender EXCEPT !.closing = TRUE]
    /\ UNCHANGED <<platform, os, listeners, sets, lm, arr, jobs, down>>
JoinSend_Later ==
    /\ phase = "send"
    /\ phase' = "recv"
    /\ UNCHANGED <<platform, os, listeners, sets, lm, arr, sender, jobs, down>>
JoinSend ==
    /\ phase = "send" /\ sender.pc = "ended"
    /\ phase' = "recv"
    /\ UNCHANGED <<platform, os, listeners, sets, lm, arr, sender, jobs, down>>

\* ... SocketSetManager::stop: each thread in turn is told, what its array holds is closed, ...
Current(r) == phase = "recv" /\ \A q \in DOMAIN sets : q < r => sets[q].pc = "ended"
StopSet(r) ==
    /\ Current(r) /\ ~sets[r].closing
    /\ Becomes(r, [sets[r] EXCEPT !.closing = TRUE])
    /\ os' = [s \in Sockets |-> IF s \in sets[r].low THEN [os[s] EXCEPT !.state = "closed"] ELSE os[s]]
    /\ UNCHANGED <<phase, platform, listeners, lm, arr, sender, jobs, down>>

\* ... and when all were joined they are gone; JobSystem::stop.
StopJobs ==
    /\ phase = "recv" /\ \A r \in DOMAIN sets : sets[r].pc = "ended"
    /\ phase' = "clear"
    /\ sets' = <<>> /\ jobs' = FALSE
    /\ UNCHANGED <<os, listeners, lm, arr, sender, down>>
    /\ LetGo

\* Platform::shutdown; the components are cleared, the links before the listeners.  With the
\* last socket object Winsock goes and closes what is left open.
Clear ==
    /\ phase = "clear"
    /\ phase' = "gone"
    /\ lm' = FALSE /\ arr' = <<>> /\ listeners' = Empty
    /\ os' = [s \in Sockets |-> IF os[s].state = "open" THEN [os[s] EXCEPT !.state = "closed"] ELSE os[s]]
    /\ UNCHANGED <<failed, sets, sender, jobs, down>>
    /\ Shutdown(1)

Destroy == ~down /\ (StopSend \/ JoinSend \/ (\E r \in DOMAIN sets : StopSet(r)) \/ StopJobs \/ Clear)

Next ==
    \/ Create \/ Register
    \/ \E p \in Ports : StartListen(p) \/ StopListen(p)
    \/ \E q \in Peers : ConnectTo(q)
    \/ \E r \in DOMAIN sets : Reception(r)
    \/ Wake \/ ForEachLink \/ SendLink
    \/ Destroy

Spec == Init /\ [][Next]_vars

\* The threads run: select and sleep have a time limit, and ~Network goes on when a thread it
\* joins has ended.
FairSpec ==
    /\ Spec
    /\ \A r \in Sockets : WF_vars(r \in DOMAIN sets /\ Reception(r))
    /\ WF_vars(Wake) /\ WF_vars(ForEachLink) /\ WF_vars(SendLink)
    /\ WF_vars(phase # "up" /\ Destroy)
----------------------------------------------------------------------------
\* Winsock is up as long as there is a Network or a socket object, in whatever order and on
\* whatever thread the last of them goes, and no longer; unless WSAStartup failed once.
WinsockWhileUsed == ~failed => (wsa <=> (phase \notin {"none", "gone"} \/ live # {}))

\* A socket that is listened on is read by one reception thread that runs, and a thread has no
\* more sockets than select takes.
ListenersRead ==
    Up => /\ \A p \in Ports : listeners[p] # NoSocket =>
               Cardinality({r \in DOMAIN sets : listeners[p] \in sets[r].high /\ sets[r].pc # "ended"}) = 1
          /\ \A r \in DOMAIN sets : Cardinality(sets[r].high) <= SetSize

\* No two links for one socket and address, though find and insertion are not one step: the
\* threads never look for the same pair.  And a packet is given to the link of its own pair,
\* whichever of the two lists grew since.
OneLinkPerPair ==
    ~down => /\ IsInjective(arr)
             /\ \A r \in DOMAIN sets : sets[r].pc = "receive" => <<sets[r].sock, sets[r].peer>> \in Range(arr)

\* What a thread uses is still there: the SendThread sends on no socket that ~Network closed,
\* and no packet is handled when the JobSystem has stopped.
StopOrder ==
    /\ sender.pc = "send" => LinkSend(sender.i)
    /\ \A r \in DOMAIN sets : sets[r].pc = "receive" => jobs

\* ~Network waits for no thread for ever, whatever the threads were doing when it began: it
\* returns, or the process went down.  It may go down on the way: a reception thread that has
\* read a packet when StopSet closes its socket finds no address for the link (Insert).
DestructorEnds == (phase = "send") ~> (phase = "gone" \/ down)
=============================================================================
