--------------------------- MODULE SessionProofs ---------------------------
(***************************************************************************)
(* Proofs about the session without asynchronous callbacks, for any links, *)
(* listeners and channels, and without a bound on calls and events.        *)
(***************************************************************************)
EXTENDS Session, FiniteSetTheorems, TLAPS

Kinds  == {"newHost", "result", "connectTo", "connect", "disconnect", "note", "callback"}
Events == {e \in [id : Nat, kind : Kinds, link : Links \cup {Master}] : e.kind = "connectTo" => e.link \in Links}

\* The events, numbered: those that are done, then those that wait.  The one that is being
\* processed is still in the list.
InOrder ==
    /\ pushed \in Nat /\ done \in Seq(Nat) /\ events \in Seq(Events)
    /\ Len(done) + Len(events) = pushed
    /\ \A i \in 1 .. Len(done) : done[i] = i
    /\ \A i \in 1 .. Len(events) : events[i].id = Len(done) + i
    /\ drain = "process" => events # <<>>
----------------------------------------------------------------------------
\* What the places of a list are.
LEMMA Places ==
    ASSUME NEW S, NEW s \in Seq(S)
    PROVE  Len(s) \in Nat /\ DOMAIN s = 1 .. Len(s) /\ \A i \in DOMAIN s : s[i] \in S /\ i \in Nat /\ i >= 1 /\ i <= Len(s)
  OBVIOUS

\* What is at the places of two lists, one after the other.
LEMMA Concatenated ==
    ASSUME NEW S, NEW s \in Seq(S), NEW t \in Seq(S)
    PROVE  /\ s \o t \in Seq(S) /\ Len(s \o t) = Len(s) + Len(t)
           /\ \A i \in 1 .. Len(s) + Len(t) : (s \o t)[i] = IF i <= Len(s) THEN s[i] ELSE t[i - Len(s)]
  OBVIOUS

\* InOrder says what EventsInOrder says.
LEMMA InOrderEnough == ASSUME InOrder PROVE done \o [i \in DOMAIN events |-> events[i].id] = AsSeq(pushed)
  <1>. DEFINE ids == [i \in DOMAIN events |-> events[i].id]  n == Len(done)  m == Len(events)
  <1>1. n \in Nat /\ m \in Nat /\ n + m = pushed /\ DOMAIN events = 1 .. m /\ DOMAIN done = 1 .. n
    BY DEF InOrder
  <1>2. ids = [i \in 1 .. m |-> n + i]
    BY Zenon, <1>1 DEF InOrder
  <1>3. ids \in Seq(Nat) /\ Len(ids) = m
    BY <1>1, <1>2
  <1>. HIDE DEF ids
  <1>4. done \o ids = [i \in 1 .. n + m |-> IF i <= n THEN done[i] ELSE ids[i - n]]
    <2>1. done \in Seq(Nat)
      BY Zenon DEF InOrder
    <2>. DEFINE w == done \o ids
    <2>2. /\ w \in Seq(Nat) /\ Len(w) = Len(done) + Len(ids)
          /\ \A i \in 1 .. Len(done) + Len(ids) : w[i] = IF i <= Len(done) THEN done[i] ELSE ids[i - Len(done)]
      BY Zenon, <1>3, <2>1, Concatenated
    <2>. HIDE DEF w
    <2>3. DOMAIN w = 1 .. n + m /\ w = [i \in DOMAIN w |-> w[i]]
      BY <1>3, <2>2
    <2>4. w = [i \in 1 .. n + m |-> IF i <= n THEN done[i] ELSE ids[i - n]]
      BY Zenon, <1>3, <2>2, <2>3
    <2>. QED
      BY Zenon, <2>4 DEF w
  <1>5. \A i \in 1 .. n + m : (IF i <= n THEN done[i] ELSE ids[i - n]) = i
    <2>. SUFFICES ASSUME NEW i \in 1 .. n + m PROVE (IF i <= n THEN done[i] ELSE ids[i - n]) = i
      OBVIOUS
    <2>1. CASE i <= n
      BY <1>1, <2>1 DEF InOrder
    <2>2. CASE ~(i <= n)
      <3>1. i - n \in 1 .. m /\ n + (i - n) = i
        BY <1>1, <2>2
      <3>2. ids[i - n] = i
        BY Zenon, <1>2, <3>1
      <3>. QED
        BY Zenon, <2>2, <3>2
    <2>. QED
      BY Zenon, <2>1, <2>2
  <1>. QED
    BY Zenon, <1>1, <1>4, <1>5 DEF AsSeq, ids

\* pushEvent puts an event with the next number at the end.
LEMMA PushOne ==
    ASSUME InOrder, NEW k \in Kinds, NEW l \in Links \cup {Master}, k = "connectTo" => l \in Links,
           events' = Append(events, Event(k, l)), pushed' = pushed + 1, done' = done
    PROVE  InOrder'
  <1>. DEFINE e == Event(k, l)  m == Len(events)
  <1>1. e \in Events /\ e.id = pushed + 1
    BY DEF Event, Events, InOrder
  <1>. HIDE DEF e
  <1>2. events \in Seq(Events) /\ m \in Nat /\ events' = Append(events, e) /\ Len(done) \in Nat /\ Len(done) + m = pushed
    BY DEF InOrder, e
  <1>3. /\ events' \in Seq(Events) /\ Len(events') = m + 1 /\ events'[m + 1] = e
        /\ \A i \in 1 .. m : events'[i] = events[i]
    BY <1>1, <1>2
  <1>4. events' # <<>>
    BY <1>2, <1>3
  <1>5. ASSUME NEW i \in 1 .. m + 1 PROVE events'[i].id = Len(done) + i
    <2>1. CASE i \in 1 .. m
      BY Zenon, <1>3, <2>1 DEF InOrder
    <2>2. CASE i = m + 1
      BY <1>1, <1>2, <1>3, <2>2
    <2>. QED
      BY <1>2, <2>1, <2>2
  <1>6. pushed' \in Nat /\ done' \in Seq(Nat) /\ Len(done') + Len(events') = pushed'
    <2>1. pushed \in Nat /\ done' \in Seq(Nat) /\ Len(done') = Len(done)
      BY Zenon DEF InOrder
    <2>2. Len(events') = m + 1 /\ m \in Nat /\ Len(done) \in Nat /\ Len(done) + m = pushed
      BY Zenon, <1>2, <1>3
    <2>. QED
      <3>. DEFINE x == Len(events')  y == Len(done')  z == Len(done)
      <3>1. x = m + 1 /\ y = z /\ m \in Nat /\ z \in Nat /\ z + m = pushed
        BY Zenon, <2>1, <2>2
      <3>. HIDE DEF m, x, y, z
      <3>2. y + x = pushed + 1
        BY <3>1
      <3>. QED
        BY <2>1, <3>2 DEF x, y
  <1>7. \A i \in 1 .. Len(events') : events'[i].id = Len(done') + i
    BY Zenon, <1>3, <1>5
  <1>8. \A i \in 1 .. Len(done') : done'[i] = i
    BY Zenon DEF InOrder
  <1>. QED
    BY Zenon, <1>3, <1>4, <1>6, <1>7, <1>8 DEF InOrder

\* A handler that the user's thread runs pushes an event or none.
LEMMA HandleOrder ==
    ASSUME ~Async, NEW t, NEW e, Handle(t, e), e.link \in Links \cup {Master}
    PROVE  \/ UNCHANGED <<events, pushed>>
           \/ \E k \in {"note", "callback"}, l \in Links \cup {Master} : events' = Append(events, Event(k, l)) /\ pushed' = pushed + 1
  <1>. DEFINE P(k, l) == events' = Append(events, Event(k, l)) /\ pushed' = pushed + 1
  <1>1. ASSUME NEW l \in Links \cup {Master}, NEW k \in {"note", "callback"}, Post(t, Event(k, l))
        PROVE  P(k, l)
    BY Zenon, <1>1 DEF Post
  <1>0. "note" \in {"note", "callback"} /\ "callback" \in {"note", "callback"}
    OBVIOUS
  <1>. HIDE DEF P
  <1>7. Post(t, Event("note", e.link)) => P("note", e.link)
    BY Zenon, <1>0, <1>1
  <1>8. Post(t, Event("note", Master)) => P("note", Master)
    BY Zenon, <1>0, <1>1
  <1>9. Post(t, Event("callback", Master)) => P("callback", Master)
    BY Zenon, <1>0, <1>1
  <1>2. CASE ConnectTo(t, e)
    BY Zenon, <1>2 DEF ConnectTo
  <1>3. CASE Connect(t, e)
    BY Zenon, <1>0, <1>3, <1>7 DEF Connect, P
  <1>4. CASE Disconnected(t, e)
    BY Zenon, <1>0, <1>4, <1>7 DEF Disconnected, P
  <1>5. CASE NewHost(t, e)
    BY Zenon, <1>0, <1>5, <1>8 DEF NewHost, P
  <1>6. CASE MasterResult(t, e)
    BY Zenon, <1>0, <1>6, <1>9 DEF MasterResult, P
  <1>10. CASE NoSession(e)
    BY Zenon, <1>10 DEF NoSession
  <1>. QED
    BY Zenon, <1>2, <1>3, <1>4, <1>5, <1>6, <1>10 DEF Handle

\* PopFront takes the event that was processed.
LEMMA PopOrder == ASSUME InOrder, PopFront PROVE InOrder'
  <1>. DEFINE m == Len(events)  n == Len(done)  h == Head(events).id
  <1>1. /\ events \in Seq(Events) /\ events # <<>> /\ done \in Seq(Nat)
        /\ m \in Nat /\ n \in Nat /\ n + m = pushed /\ pushed \in Nat
        /\ \A i \in 1 .. m : events[i].id = n + i
    BY DEF InOrder, PopFront
  <1>2. /\ Tail(events) \in Seq(Events) /\ Len(Tail(events)) = m - 1 /\ m > 0
        /\ \A i \in 1 .. m - 1 : Tail(events)[i] = events[i + 1]
        /\ Head(events) = events[1]
    BY <1>1
  <1>3. h = n + 1
    BY <1>1, <1>2
  <1>. HIDE DEF h
  <1>4. /\ Append(done, h) \in Seq(Nat) /\ Len(Append(done, h)) = n + 1
        /\ Append(done, h)[n + 1] = h /\ \A i \in 1 .. n : Append(done, h)[i] = done[i]
    BY <1>1, <1>3
  <1>5. events' = Tail(events) /\ done' = Append(done, h) /\ pushed' = pushed /\ drain' = "top"
    BY Zenon DEF PopFront, h
  <1>6. ASSUME NEW i \in 1 .. n + 1 PROVE done'[i] = i
    <2>1. CASE i \in 1 .. n
      BY Zenon, <1>4, <1>5, <2>1 DEF InOrder
    <2>2. CASE i = n + 1
      BY Zenon, <1>3, <1>4, <1>5, <2>2
    <2>. QED
      BY <1>1, <2>1, <2>2
  <1>7. ASSUME NEW i \in 1 .. m - 1 PROVE events'[i].id = n + 1 + i
    <2>1. i + 1 \in 1 .. m /\ i \in Nat
      BY <1>1
    <2>. QED
      BY <1>1, <1>2, <1>5, <2>1
  <1>8. pushed' \in Nat /\ done' \in Seq(Nat) /\ events' \in Seq(Events) /\ Len(done') + Len(events') = pushed'
    <2>1. Len(events') = m - 1 /\ Len(done') = n + 1 /\ events' \in Seq(Events) /\ done' \in Seq(Nat)
      BY Zenon, <1>2, <1>4, <1>5
    <2>. DEFINE x == Len(events')  y == Len(done')
    <2>2. x = m - 1 /\ y = n + 1 /\ n \in Nat /\ m \in Nat /\ n + m = pushed /\ pushed \in Nat
      BY Zenon, <1>1, <2>1
    <2>. HIDE DEF m, n, x, y
    <2>3. y + x = pushed
      BY <2>2
    <2>. QED
      BY Zenon, <1>5, <2>1, <2>2, <2>3 DEF x, y
  <1>9. \A i \in 1 .. Len(events') : events'[i].id = Len(done') + i
    BY <1>2, <1>4, <1>5, <1>7
  <1>10. \A i \in 1 .. Len(done') : done'[i] = i
    BY <1>4, <1>5, <1>6
  <1>. QED
    BY Zenon, <1>5, <1>8, <1>9, <1>10 DEF InOrder

\* Every step keeps the order.
LEMMA OrderStep == ASSUME ~Async, InOrder, [Next]_vars PROVE InOrder'
  <1>1. ASSUME NEW w \in Workers, NEW l \in Links \cup {Master}, Word(w, l) PROVE InOrder'
    <2>1. PICK k \in Arrived(l) : events' = Append(events, Event(k, l)) /\ pushed' = pushed + 1 /\ done' = done
      BY Zenon, <1>1 DEF Word
    <2>2. k \in Kinds
      <3>1. k \in {"newHost", "result", "connectTo", "connect", "disconnect"}
        BY Zenon DEF Arrived
      <3>. QED
        BY Zenon, <3>1 DEF Kinds
    <2>3. k = "connectTo" => l \in Links
      BY Zenon, SessionAssumption DEF Arrived
    <2>. QED
      BY Zenon, <2>1, <2>2, <2>3, PushOne
  <1>2. CASE ProcessFront
    <2>1. events # <<>> /\ done' = done /\ events \in Seq(Events)
      BY Zenon, <1>2 DEF ProcessFront, InOrder
    <2>2. Head(events).link \in Links \cup {Master}
      <3>1. Head(events) \in Events
        BY <2>1
      <3>. QED
        BY Zenon, <3>1 DEF Events
    <2>3. \/ UNCHANGED <<events, pushed>>
          \/ \E k \in {"note", "callback"}, l \in Links \cup {Master} : events' = Append(events, Event(k, l)) /\ pushed' = pushed + 1
      BY Zenon, <1>2, <2>2, HandleOrder DEF ProcessFront
    <2>4. CASE UNCHANGED <<events, pushed>>
      BY Zenon, <2>1, <2>4 DEF InOrder
    <2>5. \A k \in {"note", "callback"} : k \in Kinds /\ k # "connectTo"
      BY Zenon DEF Kinds
    <2>. QED
      BY Zenon, <2>1, <2>3, <2>4, <2>5, PushOne
  <1>3. CASE PopFront
    BY Zenon, <1>3, PopOrder
  <1>4. CASE UNCHANGED <<events, pushed, done>> /\ drain' # "process"
    BY Zenon, <1>4 DEF InOrder
  <1>5. ProcessEvents \/ ProcessEnd => UNCHANGED <<events, pushed, done>> /\ drain' # "process"
    BY Zenon DEF ProcessEvents, ProcessEnd
  <1>6. CASE UNCHANGED feed
    BY Zenon, <1>6 DEF feed, InOrder
  <1>7. ASSUME NEW t \in Threads, Step(t) \/ \E l \in Links : DisconnectLink(t, l) PROVE UNCHANGED feed
    BY Zenon, <1>7 DEF Step, AddLink, AddLinkEnd, CallListener, CallEnd, SendOne, SendEnd, SessionOne, AllOne, DisconnectLink
  <1>8. ASSUME NEW t \in Threads, NEW x \in Listeners, AddListener(t, x) \/ RemoveListener(t, x) PROVE UNCHANGED feed
    BY Zenon, <1>8 DEF AddListener, RemoveListener
  <1>9. DisconnectSession \/ DisconnectAll \/ UNCHANGED vars => UNCHANGED feed
    BY Zenon DEF DisconnectSession, DisconnectAll, vars
  <1>10. ASSUME NEW c, NEW b, NEW x, SendReliable(c, b, x) PROVE UNCHANGED feed
    BY Zenon, <1>10 DEF SendReliable
  <1>11. ASSUME NEW l \in Links, Arrive(l) PROVE UNCHANGED feed
    BY Zenon, <1>11 DEF Arrive
  <1>. QED
    BY Zenon, <1>1, <1>2, <1>3, <1>4, <1>5, <1>6, <1>7, <1>8, <1>9, <1>10, <1>11 DEF Next, Call

\* The queue is a queue: without asynchronous callbacks each event is processed once and in the
\* order of pushEvent, the events pushed by a handler or a listener during the loop of
\* processQueuedEvents included.
THEOREM QueueInOrder == Spec => []EventsInOrder
  <1>. DEFINE I == ~Async => InOrder
  <1>1. Init => I
    <2>. SUFFICES ASSUME Init PROVE InOrder
      OBVIOUS
    <2>. QED
      BY DEF Init, InOrder
  <1>2. I /\ [Next]_vars => I'
    BY Zenon, OrderStep
  <1>3. I => EventsInOrder
    BY Zenon, InOrderEnough DEF EventsInOrder
  <1>. QED
    BY <1>1, <1>2, <1>3, PTL DEF Spec
----------------------------------------------------------------------------
\* While disconnectAll goes through the links: no other thread is in a call, the links that it
\* passed are not connected, and a link that is connected is one of those it goes through.
Passing ==
    /\ DOMAIN call = Threads /\ DOMAIN st = Links \cup {Master}
    /\ \A t \in Threads : {"op", "link", "pos"} \subseteq DOMAIN call[t]
    /\ \A t \in Threads : t # App => call[t].op = "idle"
    /\ drain = "top" => call[App].op = "idle"
    /\ call[App].op = "add" => call[App].link \in Links \cup {Master}
    /\ manager \in Seq(Links \cup {Master}) /\ Len(manager) > 0
    /\ \A l \in Links : st[l] \in {"Connecting", "Connected"} => l \in Range(manager)
    /\ call[App].op = "all" =>
         /\ call[App].pos \in 1 .. Len(manager)
         /\ \A i \in 1 .. call[App].pos - 1 : st[manager[i]] # "Connected"

\* What the steps that are not disconnectAll's do, as far as Passing is concerned: the thread of
\* the user goes on, or begins something, or the state of a link falls.
Falls == DOMAIN st' = DOMAIN st /\ \A l \in DOMAIN st : st'[l] \in {st[l], "Disconnected"}
Goes(c) ==
    /\ DOMAIN call' = Threads /\ call'[App] = c
    /\ \A t \in Threads : t # App => call'[t] = call[t]
    /\ {"op", "link", "pos"} \subseteq DOMAIN c

\* Doing, on the user's thread.
LEMMA DoingGoes ==
    ASSUME Passing, NEW c, {"op", "link", "pos"} \subseteq DOMAIN c, Doing(App, c)
    PROVE  Goes(c)
  BY Zenon DEF Passing, Doing, Goes, Threads

\* Closing a link on this side.
LEMMA ClosedFalls ==
    ASSUME Passing, NEW l \in Links \cup {Master}, Closed(l)
    PROVE  Falls /\ st'[l] # "Connected"
  BY Zenon DEF Passing, Closed, Falls

\* A step of the user's thread in another call keeps Passing.
LEMMA OtherCall ==
    ASSUME Passing, NEW c, Goes(c), Falls, manager' = manager,
           c.op \notin {"all", "add"},
           drain' = "top" => c.op = "idle"
    PROVE  Passing'
  <1>1. \A t \in Threads : {"op", "link", "pos"} \subseteq DOMAIN call'[t] /\ (t # App => call'[t].op = "idle")
    BY Zenon DEF Passing, Goes
  <1>2. \A l \in Links : st'[l] \in {"Connecting", "Connected"} => l \in Range(manager)
    BY Zenon DEF Passing, Falls
  <1>3. call'[App] = c /\ DOMAIN call' = Threads /\ DOMAIN st' = Links \cup {Master}
    BY Zenon DEF Passing, Falls, Goes
  <1>. QED
    BY Zenon, <1>1, <1>2, <1>3 DEF Passing

\* So does a step that leaves the calls alone, unless it runs a handler.
LEMMA NoCall ==
    ASSUME Passing, Falls, call' = call, manager' = manager, drain' = "top" => call[App].op = "idle"
    PROVE  Passing'
  <1>1. \A l \in Links : st'[l] \in {"Connecting", "Connected"} => l \in Range(manager)
    BY Zenon DEF Passing, Falls
  <1>2. ASSUME call[App].op = "all", NEW i \in 1 .. call[App].pos - 1 PROVE st'[manager[i]] # "Connected"
    <2>1. manager[i] \in DOMAIN st /\ st[manager[i]] # "Connected"
      BY <1>2 DEF Passing
    <2>. QED
      BY Zenon, <2>1 DEF Falls
  <1>3. DOMAIN st' = Links \cup {Master}
    BY Zenon DEF Passing, Falls
  <1>. QED
    BY Zenon, <1>1, <1>2, <1>3 DEF Passing

\* A handler, run in the loop of processQueuedEvents.
LEMMA HandlePasses ==
    ASSUME ~Async, Passing, NEW e, Handle(App, e), e.link \in Links \cup {Master},
           call[App].op = "idle", drain' = "process"
    PROVE  Passing'
  <1>1. CASE ConnectTo(App, e)
    <2>1. manager' = manager
      BY Zenon, <1>1 DEF ConnectTo
    <2>2. CASE e.link \in Range(manager)
      <3>1. call' = call /\ DOMAIN st' = DOMAIN st /\ \A l \in Links : l # e.link => st'[l] = st[l]
        BY Zenon, <1>1, <2>2 DEF ConnectTo, Passing
      <3>. QED
        BY Zenon, <2>1, <2>2, <3>1 DEF Passing
    <2>3. CASE st' = st /\ Doing(App, [Idle EXCEPT !.op = "add", !.link = e.link, !.pos = 1])
      <3>. DEFINE c == [Idle EXCEPT !.op = "add", !.link = e.link, !.pos = 1]
      <3>1. {"op", "link", "pos"} \subseteq DOMAIN c /\ c.op = "add" /\ c.link = e.link
        BY DEF Idle
      <3>. HIDE DEF c
      <3>2. Goes(c)
        BY Zenon, <2>3, <3>1, DoingGoes DEF c
      <3>3. \A t \in Threads : {"op", "link", "pos"} \subseteq DOMAIN call'[t] /\ (t # App => call'[t].op = "idle")
        BY Zenon, <3>2 DEF Passing, Goes
      <3>. QED
        BY Zenon, <2>1, <2>3, <3>1, <3>2, <3>3 DEF Passing, Goes
    <2>. QED
      BY Zenon, <1>1, <2>2, <2>3 DEF ConnectTo
  <1>2. CASE Connect(App, e)
    <2>1. manager' = manager /\ call' = call
      BY Zenon, <1>2 DEF Connect, Post
    <2>2. /\ DOMAIN st' = DOMAIN st
          /\ \A l \in Links : st'[l] \in {"Connecting", "Connected"} => st[l] \in {"Connecting", "Connected"}
      BY Zenon, <1>2 DEF Connect, Passing
    <2>. QED
      BY Zenon, <2>1, <2>2 DEF Passing
  <1>3. CASE Disconnected(App, e)
    <2>1. manager' = manager /\ call' = call /\ Falls
      BY Zenon, <1>3 DEF Disconnected, Post, Falls
    <2>. QED
      BY <2>1, NoCall
  <1>4. CASE NewHost(App, e) \/ MasterResult(App, e)
    <2>1. manager' = manager /\ call' = call /\ Falls
      BY <1>4 DEF NewHost, MasterResult, Post, Falls, links
    <2>. QED
      BY Zenon, <2>1, NoCall
  <1>5. CASE NoSession(e)
    BY Zenon, <1>5, NoCall DEF NoSession, Falls, links
  <1>. QED
    BY Zenon, <1>1, <1>2, <1>3, <1>4, <1>5 DEF Handle

\* LinkManager gets a link more, at the end.
LEMMA OneMore ==
    ASSUME manager \in Seq(Links \cup {Master}), NEW l \in Links \cup {Master}, manager' = Append(manager, l)
    PROVE  /\ manager' \in Seq(Links \cup {Master}) /\ Len(manager') = Len(manager) + 1 /\ Len(manager) \in Nat
           /\ \A i \in 1 .. Len(manager) : manager'[i] = manager[i]
           /\ Range(manager') = Range(manager) \cup {l}
  <1>1. /\ manager' \in Seq(Links \cup {Master}) /\ Len(manager') = Len(manager) + 1 /\ Len(manager) \in Nat
        /\ DOMAIN manager' = 1 .. Len(manager) + 1 /\ DOMAIN manager = 1 .. Len(manager)
        /\ manager'[Len(manager) + 1] = l /\ \A i \in 1 .. Len(manager) : manager'[i] = manager[i]
    OBVIOUS
  <1>. QED
    BY <1>1 DEF Range

\* A link that a reception thread makes comes behind those that disconnectAll goes through.
LEMMA ArrivePasses == ASSUME Passing, NEW l \in Links, Arrive(l) PROVE Passing'
  <1>1. manager' = Append(manager, l) /\ UNCHANGED <<st, call, drain>>
    BY Zenon DEF Arrive, feed
  <1>2. /\ manager' \in Seq(Links \cup {Master}) /\ Len(manager') = Len(manager) + 1 /\ Len(manager) \in Nat
        /\ \A i \in 1 .. Len(manager) : manager'[i] = manager[i]
        /\ Range(manager') = Range(manager) \cup {l}
    BY Zenon, <1>1, OneMore DEF Passing
  <1>3. Len(manager') > 0
    BY <1>2
  <1>4. ASSUME call[App].op = "all"
        PROVE  /\ call[App].pos \in 1 .. Len(manager')
               /\ \A i \in 1 .. call[App].pos - 1 : st[manager'[i]] # "Connected"
    <2>1. call[App].pos \in 1 .. Len(manager) /\ \A i \in 1 .. call[App].pos - 1 : st[manager[i]] # "Connected"
      BY Zenon, <1>4 DEF Passing
    <2>2. \A i \in 1 .. call[App].pos - 1 : i \in 1 .. Len(manager)
      BY <1>2, <2>1
    <2>3. call[App].pos \in 1 .. Len(manager')
      BY <1>2, <2>1
    <2>. QED
      BY Zenon, <1>2, <2>1, <2>2, <2>3
  <1>5. \A x \in Links : st[x] \in {"Connecting", "Connected"} => x \in Range(manager')
    BY Zenon, <1>2 DEF Passing
  <1>. QED
    BY Zenon, <1>1, <1>2, <1>3, <1>4, <1>5 DEF Passing

\* A link that is new enters LinkManager and is then connecting.
LEMMA AddPasses == ASSUME Passing, AddLinkEnd(App) PROVE Passing'
  <1>. DEFINE l == call[App].link
  <1>1. l \in Links \cup {Master} /\ manager' = Append(manager, l) /\ st' = [st EXCEPT ![l] = "Connecting"] /\ drain' = drain
    BY Zenon DEF AddLinkEnd, At, Passing, feed
  <1>2. Goes(Idle) /\ Idle.op = "idle"
    BY Zenon, DoingGoes DEF AddLinkEnd, Idle
  <1>. HIDE DEF l
  <1>3. /\ manager' \in Seq(Links \cup {Master}) /\ Len(manager') > 0
        /\ l \in Range(manager') /\ Range(manager) \subseteq Range(manager')
    <2>1. manager \in Seq(Links \cup {Master}) /\ Len(manager) \in Nat
      BY DEF Passing
    <2>2. /\ manager' \in Seq(Links \cup {Master}) /\ Len(manager') = Len(manager) + 1
          /\ manager'[Len(manager) + 1] = l /\ \A i \in 1 .. Len(manager) : manager'[i] = manager[i]
      BY <1>1, <2>1
    <2>. QED
      BY <2>1, <2>2 DEF Range
  <1>4. DOMAIN st' = Links \cup {Master} /\ \A x \in Links : x # l => st'[x] = st[x]
    BY Zenon, <1>1 DEF Passing
  <1>5. \A x \in Links : st'[x] \in {"Connecting", "Connected"} => x \in Range(manager')
    BY Zenon, <1>3, <1>4 DEF Passing
  <1>6. \A t \in Threads : {"op", "link", "pos"} \subseteq DOMAIN call'[t] /\ (t # App => call'[t].op = "idle")
    BY Zenon, <1>2 DEF Passing, Goes
  <1>. QED
    BY Zenon, <1>2, <1>3, <1>4, <1>5, <1>6 DEF Passing, Goes

\* disconnectAll closes the link at its place, and goes on or returns; then all are closed.
LEMMA AllPasses ==
    ASSUME Passing, AllOne(App)
    PROVE  Passing' /\ (call'[App] = Idle => \A l \in Links : st'[l] # "Connected")
  <1>. DEFINE p == call[App].pos  c == IF p + 1 > Len(manager) THEN Idle ELSE [call[App] EXCEPT !.pos = p + 1]
  <1>1. /\ p \in 1 .. Len(manager) /\ manager \in Seq(Links \cup {Master}) /\ Len(manager) \in Nat
        /\ \A i \in 1 .. p - 1 : st[manager[i]] # "Connected"
        /\ call[App].op = "all" /\ manager' = manager /\ drain' = drain
    BY DEF Passing, AllOne, At, feed
  <1>2. Falls /\ st'[manager[p]] # "Connected"
    BY <1>1, ClosedFalls DEF AllOne
  <1>3. \A i \in 1 .. p : st'[manager[i]] # "Connected"
    <2>. SUFFICES ASSUME NEW i \in 1 .. p PROVE st'[manager[i]] # "Connected"
      OBVIOUS
    <2>1. CASE i = p
      BY <1>2, <2>1
    <2>2. CASE i # p
      <3>1. i \in 1 .. p - 1 /\ manager[i] \in DOMAIN st
        BY <1>1, <2>2 DEF Passing
      <3>. QED
        BY <1>1, <1>2, <3>1 DEF Falls
    <2>. QED
      BY Zenon, <2>1, <2>2
  <1>4. \A l \in Links : st'[l] \in {"Connecting", "Connected"} => l \in Range(manager)
    BY Zenon, <1>2 DEF Passing, Falls
  <1>5. Doing(App, c)
    BY Zenon DEF AllOne
  <1>6. CASE p + 1 > Len(manager)
    <2>1. c = Idle /\ p = Len(manager)
      BY <1>1, <1>6
    <2>2. Goes(Idle)
      BY <1>5, <2>1, DoingGoes DEF Idle
    <2>3. Passing'
      BY <1>1, <1>2, <2>2, OtherCall DEF Idle
    <2>4. ASSUME NEW l \in Links PROVE st'[l] # "Connected"
      BY <1>1, <1>3, <1>4, <2>1 DEF Range
    <2>. QED
      BY Zenon, <2>3, <2>4
  <1>7. CASE ~(p + 1 > Len(manager))
    <2>1. {"op", "link", "pos"} \subseteq DOMAIN c /\ c.op = "all" /\ c.pos = p + 1
      <3>1. {"op", "link", "pos"} \subseteq DOMAIN call[App]
        BY DEF Passing, Threads
      <3>. QED
        BY Zenon, <1>1, <1>7, <3>1
    <2>. HIDE DEF c
    <2>2. Goes(c)
      BY Zenon, <1>5, <2>1, DoingGoes
    <2>3. c # Idle
      BY <2>1 DEF Idle
    <2>4. \A t \in Threads : {"op", "link", "pos"} \subseteq DOMAIN call'[t] /\ (t # App => call'[t].op = "idle")
      BY Zenon, <2>2 DEF Passing, Goes
    <2>5. c.pos \in 1 .. Len(manager) /\ \A i \in 1 .. c.pos - 1 : st'[manager[i]] # "Connected"
      BY <1>1, <1>3, <1>7, <2>1
    <2>6. drain' # "top"
      BY Zenon, <1>1 DEF Passing
    <2>7. DOMAIN st' = Links \cup {Master}
      BY Zenon, <1>2 DEF Falls, Passing
    <2>. QED
      BY <1>1, <1>4, <2>1, <2>2, <2>3, <2>4, <2>5, <2>6, <2>7 DEF Passing, Goes
  <1>. QED
    BY Zenon, <1>6, <1>7

\* The other steps of the user's thread through a call.
LEMMA StepPasses ==
    ASSUME Passing, Step(App), ~AllOne(App)
    PROVE  Passing' /\ call[App].op # "all"
  <1>. DEFINE o == call[App]  D == {"op", "link", "pos"}
  <1>0. D \subseteq DOMAIN o
    BY Zenon DEF Passing, Threads
  <1>1. CASE AddLink(App)
    <2>. DEFINE c == [o EXCEPT !.pos = o.pos + 1]
    <2>1. o.op = "add" /\ Doing(App, c) /\ UNCHANGED <<manager, st, drain>> /\ o.link \in Links \cup {Master}
      BY Zenon, <1>1 DEF AddLink, At, feed, Passing
    <2>2. D \subseteq DOMAIN c /\ c.op = "add" /\ c.link = o.link
      BY <1>0, <2>1
    <2>. HIDE DEF c
    <2>3. Goes(c)
      BY Zenon, <2>1, <2>2, DoingGoes
    <2>4. \A t \in Threads : D \subseteq DOMAIN call'[t] /\ (t # App => call'[t].op = "idle")
      BY <2>3 DEF Passing, Goes
    <2>5. drain' # "top"
      BY Zenon, <2>1 DEF Passing
    <2>. QED
      BY Zenon, <2>1, <2>2, <2>3, <2>4, <2>5 DEF Passing, Goes
  <1>2. CASE AddLinkEnd(App)
    BY Zenon, <1>2, AddPasses DEF AddLinkEnd, At
  <1>3. CASE CallListener(App)
    <2>. DEFINE c == [o EXCEPT !.pos = @ + 1, !.told = @ \cup {listeners[o.pos]}]
    <2>1. o.op = "note" /\ Doing(App, c) /\ UNCHANGED <<manager, st, drain>>
      BY Zenon, <1>3 DEF CallListener, At, feed, links
    <2>2. D \subseteq DOMAIN c /\ c.op = "note"
      BY Zenon, <1>0, <2>1
    <2>. HIDE DEF c
    <2>3. Goes(c) /\ Falls /\ drain' # "top"
      BY <2>1, <2>2, DoingGoes DEF Falls, Passing
    <2>. QED
      BY <2>1, <2>2, <2>3, OtherCall
  <1>4. CASE CallEnd(App) \/ SendEnd(App)
    <2>1. o.op \in {"note", "callback", "send"} /\ Doing(App, Idle) /\ UNCHANGED <<manager, st, drain>>
      BY Zenon, <1>4 DEF CallEnd, SendEnd, At, feed, links
    <2>2. D \subseteq DOMAIN Idle /\ Idle.op = "idle"
      BY DEF Idle
    <2>3. Goes(Idle) /\ Falls
      BY <2>1, <2>2, DoingGoes DEF Falls
    <2>. QED
      BY <2>1, <2>2, <2>3, OtherCall
  <1>5. CASE SendOne(App)
    <2>. DEFINE c == [o EXCEPT !.pos = @ + 1]
    <2>1. o.op = "send" /\ Doing(App, c) /\ UNCHANGED <<manager, st, drain>>
      BY <1>5 DEF SendOne, At, feed
    <2>2. D \subseteq DOMAIN c /\ c.op = "send"
      BY <1>0, <2>1
    <2>. HIDE DEF c
    <2>3. Goes(c) /\ Falls /\ drain' # "top"
      BY Zenon, <2>1, <2>2, DoingGoes DEF Falls, Passing
    <2>. QED
      BY Zenon, <2>1, <2>2, <2>3, OtherCall
  <1>6. CASE SessionOne(App)
    <2>. DEFINE c == IF o.pos + 1 > Len(mLinks') THEN Idle ELSE [o EXCEPT !.pos = o.pos + 1]
    <2>1. o.op = "session" /\ Doing(App, c) /\ UNCHANGED <<manager, drain>> /\ Closed(mLinks[o.pos])
      BY Zenon, <1>6 DEF SessionOne, At, feed
    <2>2. D \subseteq DOMAIN c /\ c.op \in {"session", "idle"}
      BY Zenon, <1>0, <2>1 DEF Idle
    <2>. HIDE DEF c
    <2>3. Goes(c) /\ drain' # "top"
      BY <2>1, <2>2, DoingGoes DEF Passing
    <2>4. Falls
      BY <2>1 DEF Closed, Falls
    <2>. QED
      BY <2>1, <2>2, <2>3, <2>4, OtherCall
  <1>. QED
    BY <1>1, <1>2, <1>3, <1>4, <1>5, <1>6 DEF Step

\* The calls of the user.
LEMMA CallPasses == ASSUME Passing, Call PROVE Passing' /\ call[App].op # "all"
  <1>. DEFINE D == {"op", "link", "pos"}
  <1>0. MayBegin => call[App].op \in {"idle", "callback"} /\ (drain = "top" => FALSE)
    BY DEF MayBegin, Free, At, Passing
  <1>1. ASSUME NEW c, NEW b, NEW x, SendReliable(c, b, x) PROVE Passing' /\ call[App].op # "all"
    <2>. DEFINE s == [Idle EXCEPT !.op = "send", !.msg = Len(log) + 1, !.pos = 1]
    <2>1. D \subseteq DOMAIN s /\ s.op = "send"
      BY Zenon DEF Idle
    <2>2. MayBegin /\ Doing(App, s) /\ UNCHANGED <<manager, st, drain>>
      BY <1>1 DEF SendReliable, feed
    <2>. HIDE DEF s
    <2>3. Goes(s) /\ Falls
      BY <2>1, <2>2, DoingGoes DEF Falls
    <2>. QED
      BY <1>0, <2>1, <2>2, <2>3, OtherCall
  <1>2. CASE DisconnectSession
    <2>. DEFINE s == [Idle EXCEPT !.op = "session", !.pos = 1]
    <2>1. D \subseteq DOMAIN s /\ s.op = "session"
      BY Zenon DEF Idle
    <2>2. MayBegin /\ Doing(App, s) /\ UNCHANGED <<manager, st, drain>>
      BY Zenon, <1>2 DEF DisconnectSession, feed, links
    <2>. HIDE DEF s
    <2>3. Goes(s) /\ Falls
      BY Zenon, <2>1, <2>2, DoingGoes DEF Falls
    <2>. QED
      BY Zenon, <1>0, <2>1, <2>2, <2>3, OtherCall
  <1>3. CASE DisconnectAll
    <2>. DEFINE s == [Idle EXCEPT !.op = "all", !.pos = 1]
    <2>1. D \subseteq DOMAIN s /\ s.op = "all" /\ s.pos = 1
      BY Zenon DEF Idle
    <2>2. MayBegin /\ Doing(App, s) /\ UNCHANGED <<manager, st, drain>>
      BY Zenon, <1>3 DEF DisconnectAll, feed, links
    <2>. HIDE DEF s
    <2>3. Goes(s)
      BY <2>1, <2>2, DoingGoes
    <2>4. \A t \in Threads : D \subseteq DOMAIN call'[t] /\ (t # App => call'[t].op = "idle")
      BY Zenon, <2>3 DEF Passing, Goes
    <2>5. s.pos \in 1 .. Len(manager) /\ 1 .. s.pos - 1 = {}
      BY <2>1 DEF Passing
    <2>. QED
      BY <1>0, <2>1, <2>2, <2>3, <2>4, <2>5 DEF Passing, Goes
  <1>4. CASE ProcessEvents
    <2>1. call[App].op = "idle" /\ UNCHANGED <<manager, st, call>>
      BY Zenon, <1>4 DEF ProcessEvents, Free, At, links
    <2>. QED
      BY Zenon, <2>1, NoCall DEF Falls
  <1>. QED
    BY Zenon, <1>1, <1>2, <1>3, <1>4 DEF Call

\* Every step: Passing is kept, and a thread that returns from disconnectAll leaves no link
\* connected.
LEMMA PassingStep ==
    ASSUME ~Async, InOrder, Passing, [Next]_vars
    PROVE  /\ Passing'
           /\ \A t \in Threads : call[t].op = "all" /\ call'[t] = Idle => \A l \in Links : st'[l] # "Connected"
  <1>. DEFINE Rest == call[App].op # "all" \/ call' = call \/ (call'[App] = Idle => \A l \in Links : st'[l] # "Connected")
  <1>0. Idle.op = "idle" /\ {"op", "link", "pos"} \subseteq DOMAIN Idle
    BY Zenon DEF Idle
  <1>. SUFFICES Passing' /\ Rest
    BY Zenon, <1>0 DEF Passing
  <1>1. CASE Call
    BY <1>1, CallPasses
  <1>2. CASE ProcessFront
    <2>1. drain = "top" /\ call[App].op = "idle" /\ drain' = "process"
      BY Zenon, <1>2 DEF ProcessFront, Passing
    <2>2. Head(events).link \in Links \cup {Master}
      <3>1. Head(events) \in Events
        BY <1>2 DEF ProcessFront, InOrder
      <3>. QED
        BY <3>1 DEF Events
    <2>3. CASE Handle(App, Head(events))
      BY Zenon, <2>1, <2>2, <2>3, HandlePasses
    <2>4. CASE Doing(App, Process(Head(events))) /\ UNCHANGED links
      <3>. DEFINE c == Process(Head(events))
      <3>1. {"op", "link", "pos"} \subseteq DOMAIN c /\ c.op \in {"note", "callback"}
        BY Zenon DEF Process, Callback, Note, Idle
      <3>. HIDE DEF c
      <3>2. Goes(c) /\ Falls /\ manager' = manager
        BY <2>4, <3>1, DoingGoes DEF Falls, links, c
      <3>. QED
        BY Zenon, <2>1, <3>1, <3>2, OtherCall
    <2>. QED
      BY Zenon, <1>2, <2>3, <2>4 DEF ProcessFront
  <1>3. CASE PopFront \/ ProcessEnd
    <2>1. UNCHANGED <<manager, st, call>> /\ (drain' = "top" => call[App].op = "idle")
      BY Zenon, <1>3 DEF PopFront, ProcessEnd, At, links
    <2>. QED
      BY Zenon, <2>1, NoCall DEF Falls
  <1>4. ASSUME NEW w \in Workers, NEW l \in Links \cup {Master}, Word(w, l) PROVE Passing' /\ Rest
    <2>1. UNCHANGED <<manager, st, call, drain>>
      BY Zenon, <1>4 DEF Word, links
    <2>. QED
      BY Zenon, <2>1, NoCall DEF Falls, Passing
  <1>5. ASSUME NEW t \in Threads, Step(t) PROVE Passing' /\ Rest
    <2>1. t = App
      BY Zenon, <1>5 DEF Passing, Step, AddLink, AddLinkEnd, CallListener, CallEnd, SendOne, SendEnd, SessionOne, AllOne, At
    <2>. QED
      BY Zenon, <1>5, <2>1, StepPasses, AllPasses
  <1>6. ASSUME NEW t \in Threads, NEW l \in Links, DisconnectLink(t, l) PROVE Passing' /\ Rest
    <2>1. UNCHANGED <<manager, call, drain>> /\ Falls
      BY Zenon, <1>6, ClosedFalls DEF DisconnectLink, feed
    <2>. QED
      BY Zenon, <2>1, NoCall DEF Passing
  <1>7. ASSUME NEW t \in Threads, NEW x \in Listeners, AddListener(t, x) PROVE Passing' /\ Rest
    <2>1. UNCHANGED <<manager, st, call, drain>>
      BY Zenon, <1>7 DEF AddListener, links, feed
    <2>. QED
      BY Zenon, <2>1, NoCall DEF Falls, Passing
  <1>8. ASSUME NEW t \in Threads, NEW x \in Listeners, RemoveListener(t, x) PROVE Passing' /\ Rest
    <2>. DEFINE c == [call[App] EXCEPT !.must = {}]
    <2>1. t = App /\ call[App].op \in {"idle", "note", "callback"} /\ UNCHANGED <<manager, st, drain>> /\ Doing(App, c)
      BY <1>8 DEF RemoveListener, MayCall, Free, InCallback, At, links, feed
    <2>2. {"op", "link", "pos"} \subseteq DOMAIN c /\ c.op = call[App].op
      <3>1. {"op", "link", "pos"} \subseteq DOMAIN call[App]
        BY Zenon DEF Passing, Threads
      <3>. QED
        BY Zenon, <3>1
    <2>. HIDE DEF c
    <2>3. Goes(c) /\ Falls
      BY <2>1, <2>2, DoingGoes DEF Falls
    <2>4. drain' = "top" => c.op = "idle"
      BY Zenon, <2>1, <2>2 DEF Passing
    <2>. QED
      BY Zenon, <2>1, <2>2, <2>3, <2>4, OtherCall
  <1>9. CASE UNCHANGED vars
    <2>1. UNCHANGED <<manager, st, call, drain>>
      BY <1>9 DEF vars, links, feed
    <2>. QED
      BY Zenon, <2>1, NoCall DEF Falls, Passing
  <1>10. ASSUME NEW l \in Links, Arrive(l) PROVE Passing' /\ Rest
    BY Zenon, <1>10, ArrivePasses DEF Arrive
  <1>. QED
    BY Zenon, <1>1, <1>2, <1>3, <1>4, <1>5, <1>6, <1>7, <1>8, <1>9, <1>10 DEF Next

\* disconnectAll closes every link: without asynchronous callbacks no link is connected when it
\* returns, though closing one erases it from the session's list.
THEOREM DisconnectAllCloses == ASSUME ~Async PROVE Spec => AllClosed
  <1>1. Init => InOrder /\ Passing
    <2>. SUFFICES ASSUME Init PROVE InOrder /\ Passing
      OBVIOUS
    <2>1. InOrder
      BY DEF Init, InOrder
    <2>2. \A t \in Threads : call[t] = Idle
      BY Zenon DEF Init
    <2>3. Idle.op = "idle" /\ {"op", "link", "pos"} \subseteq DOMAIN Idle
      BY Zenon DEF Idle
    <2>4. App \in Threads
      BY Zenon DEF Threads
    <2>5. manager \in Seq(Links \cup {Master}) /\ Len(manager) > 0
      BY DEF Init
    <2>. QED
      BY Zenon, <2>1, <2>2, <2>3, <2>4, <2>5 DEF Init, Passing
  <1>2. InOrder /\ Passing /\ [Next]_vars => InOrder' /\ Passing'
    BY Zenon, OrderStep, PassingStep
  <1>3. InOrder /\ Passing /\ [Next]_vars =>
          [\A t \in Threads : (call[t].op = "all" /\ call[t]' = Idle) => \A l \in Links : st'[l] # "Connected"]_vars
    BY Zenon, PassingStep
  <1>. QED
    BY <1>1, <1>2, <1>3, PTL DEF Spec, AllClosed
----------------------------------------------------------------------------
Ops   == {"idle", "note", "callback", "add", "send", "session", "all"}
Calls == [op : Ops, link : Links \cup {Master, None}, pos : Nat, end : Nat, msg : Nat,
          told : SUBSET Listeners, must : SUBSET Listeners]
me    == call[App]

\* The calls have their types, and those that count have begun.
Calling == call \in [Threads -> Calls] /\ (me.op \notin {"idle", "callback"} => me.pos > 0)

\* m_Links has no link twice, and of the links to peers those of the session that are open: the
\* others of LinkManager are orphans, and only of these connect() is still to be called.  A link
\* that is being added is new to LinkManager, and so in neither list.
Members ==
    /\ mLinks \in Seq(Links \cup {Master})
    /\ \A i, j \in DOMAIN mLinks : mLinks[i] = mLinks[j] => i = j
    /\ Range(mLinks) \subseteq Range(manager)
    /\ orphans \subseteq Range(manager)
    /\ \A l \in Links : l \in Range(mLinks) <=> st[l] \in {"Connecting", "Connected"} /\ l \notin orphans
    /\ \A l \in Links \cap Range(manager) : st[l] = "Unknown" => l \in orphans
    /\ me.op = "add" => me.link \in Links \ Range(manager)

\* The listeners that are to hear of the event were called, or are between the place of the loop
\* and its end.
Hearing ==
    /\ listeners \in Seq(Listeners) /\ wanted \subseteq Range(listeners)
    /\ me.op = "note" =>
         /\ me.end <= Len(listeners)
         /\ me.must \subseteq me.told \cup {listeners[i] : i \in me.pos .. me.end}

\* What is buffered, and what each link was given: the link at place k of m_Links all but the last
\* message while forLink has not come to it, a link that is new what is buffered on the channels
\* that addLink is through with.
Messages == [channel : Channels, excl : Links \cup {None}, buffer : BOOLEAN]
Holds(s, S) == Rising(s) /\ Range(s) = S
Waiting(g, c) == {i \in DOMAIN g : g[i].channel = c /\ g[i].buffer}
Share(g, j, l, c, n) == {i \in 1 .. n : g[i].channel = c /\ IF i <= j THEN g[i].buffer ELSE g[i].excl # l}
Given(o, g, k) == IF o.op = "send" /\ k >= o.pos THEN Len(g) - 1 ELSE Len(g)
Filled ==
    /\ log \in Seq(Messages)
    /\ buffered \in [Channels -> Seq(Nat)]
    /\ queue \in [Links \cup {Master} -> [Channels -> Seq(Nat)]]
    /\ joined \in [Links \cup {Master} -> Nat]
    /\ \A c \in Channels : Holds(buffered[c], Waiting(log, c))
    /\ \A k \in DOMAIN mLinks, c \in Channels :
         Holds(queue[mLinks[k]][c], Share(log, joined[mLinks[k]], mLinks[k], c, Given(me, log, k)))
    /\ \A k \in DOMAIN mLinks : joined[mLinks[k]] <= Given(me, log, k)
    /\ \A l \in Links \ Range(manager), c \in Channels :
         queue[l][c] = IF me.op = "add" /\ me.link = l /\ c < me.pos THEN buffered[c] ELSE <<>>
    /\ me.op = "send" => me.msg = Len(log) /\ Len(log) > 0

\* Without leaves out one element, wherever it is, and nothing else.
LEMMA WithoutOne ==
    ASSUME NEW S, NEW s \in Seq(S), NEW l
    PROVE  /\ Without(s, l) \in Seq(S) /\ Len(Without(s, l)) <= Len(s)
           /\ Range(Without(s, l)) = Range(s) \ {l}
           /\ (\A i, j \in DOMAIN s : s[i] = s[j] => i = j) =>
                 \A i, j \in DOMAIN Without(s, l) : Without(s, l)[i] = Without(s, l)[j] => i = j
  <1>. DEFINE kept == {i \in DOMAIN s : s[i] # l}
              upTo(k) == {j \in kept : j <= k}
              n == Cardinality(kept)
              rank == [k \in kept |-> Cardinality(upTo(k))]
              place(i) == CHOOSE k \in kept : Cardinality(upTo(k)) = i
              w == [i \in 1 .. n |-> s[place(i)]]
  <1>1. DOMAIN s = 1 .. Len(s) /\ Len(s) \in Nat
    OBVIOUS
  <1>2. IsFiniteSet(1 .. Len(s)) /\ Cardinality(1 .. Len(s)) = Len(s)
    BY SMTT(30), <1>1, FS_Interval
  <1>3. IsFiniteSet(kept) /\ n <= Len(s)
    BY <1>1, <1>2, FS_Subset
  <1>4. n \in Nat
    BY Zenon, <1>3, FS_CardinalityType
  <1>5. kept \subseteq Int
    BY <1>1
  <1>6. ASSUME NEW k \in kept PROVE IsFiniteSet(upTo(k)) /\ Cardinality(upTo(k)) \in 1 .. n
    <2>1. upTo(k) \in SUBSET kept /\ k \in upTo(k)
      BY <1>5
    <2>. HIDE DEF upTo, kept
    <2>2. IsFiniteSet(upTo(k)) /\ Cardinality(upTo(k)) <= n
      BY Zenon, <1>3, <2>1, FS_Subset
    <2>3. Cardinality(upTo(k)) \in Nat
      BY Zenon, <2>2, FS_CardinalityType
    <2>4. Cardinality(upTo(k)) # 0
      BY Zenon, <2>1, <2>2, FS_EmptySet
    <2>. QED
      BY <1>4, <2>2, <2>3, <2>4
  <1>7. ASSUME NEW a \in kept, NEW b \in kept, a < b PROVE Cardinality(upTo(a)) # Cardinality(upTo(b))
    <2>1. upTo(a) \in SUBSET upTo(b) /\ b \in upTo(b) /\ b \notin upTo(a)
      BY <1>5, <1>7
    <2>2. IsFiniteSet(upTo(b))
      BY Zenon, <1>6
    <2>. HIDE DEF upTo, kept
    <2>3. Cardinality(upTo(b)) = Cardinality(upTo(a)) => upTo(b) = upTo(a)
      BY Zenon, <2>1, <2>2, FS_Subset
    <2>. QED
      BY Zenon, <2>1, <2>3
  <1>. HIDE DEF upTo, kept
  <1>8. ASSUME NEW a \in kept, NEW b \in kept, Cardinality(upTo(a)) = Cardinality(upTo(b)) PROVE a = b
    BY <1>5, <1>7, <1>8
  <1>9. rank \in [kept -> 1 .. n]
    BY Zenon, <1>6
  <1>10. rank \in Injection(kept, 1 .. n)
    BY Zenon, <1>8, <1>9 DEF Injection, IsInjective
  <1>11. IsFiniteSet(1 .. n) /\ Cardinality(1 .. n) = n
    BY <1>4, FS_Interval
  <1>12. rank \in Surjection(kept, 1 .. n)
    BY Zenon, <1>10, <1>11, FS_Injection
  <1>13. \A i \in 1 .. n : \E k \in kept : Cardinality(upTo(k)) = i
    BY Zenon, <1>12 DEF Surjection
  <1>14. \A i \in 1 .. n : place(i) \in kept /\ Cardinality(upTo(place(i))) = i
    BY Zenon, <1>13
  <1>. HIDE DEF place
  <1>15. \A k \in kept : Cardinality(upTo(k)) \in 1 .. n /\ place(Cardinality(upTo(k))) = k
    BY Zenon, <1>6, <1>8, <1>14
  <1>16. \A k \in kept : k \in DOMAIN s /\ s[k] # l
    BY DEF kept
  <1>17. w \in Seq(S) /\ Len(w) = n /\ DOMAIN w = 1 .. n
    BY <1>4, <1>14, <1>16
  <1>18. Range(w) = Range(s) \ {l}
    <2>1. ASSUME NEW x \in Range(w) PROVE x \in Range(s) \ {l}
      BY Zenon, <1>14, <1>16, <2>1 DEF Range
    <2>2. ASSUME NEW x \in Range(s), x # l PROVE x \in Range(w)
      <3>1. PICK k \in DOMAIN s : s[k] = x
        BY Zenon DEF Range
      <3>2. k \in kept
        BY <2>2, <3>1 DEF kept
      <3>. DEFINE i == Cardinality(upTo(k))
      <3>3. i \in 1 .. n /\ place(i) = k
        BY <1>15, <3>2
      <3>. HIDE DEF i
      <3>4. w[i] = x
        BY Zenon, <3>1, <3>3
      <3>. QED
        BY Zenon, <1>17, <3>3, <3>4 DEF Range
    <2>. QED
      BY Zenon, <2>1, <2>2
  <1>19. ASSUME \A i, j \in DOMAIN s : s[i] = s[j] => i = j, NEW i \in DOMAIN w, NEW j \in DOMAIN w, w[i] = w[j]
         PROVE  i = j
    <2>1. i \in 1 .. n /\ j \in 1 .. n /\ place(i) \in kept /\ place(j) \in kept
      BY Zenon, <1>14
    <2>2. place(i) = place(j)
      BY Zenon, <1>16, <1>19, <2>1
    <2>. QED
      BY <1>14, <2>1, <2>2
  <1>20. Without(s, l) = w
    BY Zenon DEF Without, kept, upTo, place
  <1>. HIDE DEF w
  <1>. QED
    BY <1>3, <1>17, <1>18, <1>19, <1>20
----------------------------------------------------------------------------
\* What the steps do to the lists, the messages and the call of the user's thread, by kind.
Quietly == UNCHANGED <<links, listeners, wanted, log>>
Rests == Quietly /\ me' = me
Turns ==
    /\ Quietly /\ me'.op \in {"idle", "callback", "session", "all"}
    /\ me.op # "add" /\ (me.op = "send" => me.pos > Len(mLinks))
Notes == Quietly /\ me'.op = "note" /\ me'.pos = 1 /\ me'.end = Len(listeners) /\ me'.must = wanted /\ me.op = "idle"
Tells ==
    /\ Quietly /\ me.op = "note" /\ me.pos <= me.end
    /\ me'.op = "note" /\ me'.pos = me.pos + 1 /\ me'.end = me.end
    /\ me'.must = me.must /\ me'.told = me.told \cup {listeners[me.pos]}
Adds == Quietly /\ me.op = "idle" /\ me'.op = "add" /\ me'.pos = 1 /\ me'.link \in Links \ Range(manager)
Fills ==
    /\ me.op = "add" /\ me.pos \in Channels
    /\ queue' = [queue EXCEPT ![me.link][me.pos] = @ \o buffered[me.pos]]
    /\ me'.op = "add" /\ me'.link = me.link /\ me'.pos = me.pos + 1
    /\ UNCHANGED <<mLinks, manager, orphans, st, buffered, joined, log, listeners, wanted>>
Enters ==
    /\ me.op = "add" /\ me.pos > NumChannels /\ me'.op = "idle"
    /\ mLinks' = Append(mLinks, me.link) /\ manager' = Append(manager, me.link)
    /\ joined' = [joined EXCEPT ![me.link] = Len(log)]
    /\ st' = [st EXCEPT ![me.link] = "Connecting"]
    /\ UNCHANGED <<orphans, queue, buffered, log, listeners, wanted>>
Comes(l) ==
    /\ l \in Links \ Range(manager) /\ (me.op = "add" => me.link # l) /\ me' = me
    /\ manager' = Append(manager, l) /\ orphans' = orphans \cup {l}
    /\ UNCHANGED <<mLinks, st, buffered, queue, joined, log, listeners, wanted>>
Starts(l) ==
    /\ l \in Links \cap Range(manager) /\ st[l] = "Unknown" /\ me' = me
    /\ st' = [st EXCEPT ![l] = "Connecting"]
    /\ UNCHANGED <<mLinks, manager, orphans, buffered, queue, joined, log, listeners, wanted>>
Opens(l) ==
    /\ st[l] = "Connecting" /\ st' = [st EXCEPT ![l] = "Connected"] /\ me' = me
    /\ UNCHANGED <<mLinks, manager, orphans, buffered, queue, joined, log, listeners, wanted>>
Closes(l) ==
    /\ st' = [st EXCEPT ![l] = "Disconnected"] /\ mLinks' = Without(mLinks, l)
    /\ me.op \notin {"add", "send"} /\ (me' = me \/ me'.op \in {"idle", "session", "all"})
    /\ UNCHANGED <<manager, orphans, buffered, queue, joined, log, listeners, wanted>>
Sends(m) ==
    /\ me.op \in {"idle", "callback"} /\ me'.op = "send" /\ me'.pos = 1 /\ me'.msg = Len(log) + 1
    /\ log' = Append(log, m)
    /\ buffered' = IF m.buffer THEN [buffered EXCEPT ![m.channel] = Append(@, Len(log) + 1)] ELSE buffered
    /\ UNCHANGED <<mLinks, manager, orphans, st, queue, joined, listeners, wanted>>
Gives ==
    LET m == log[me.msg]
        l == mLinks[me.pos]
    IN
    /\ me.op = "send" /\ me.pos \in DOMAIN mLinks
    /\ me'.op = "send" /\ me'.pos = me.pos + 1 /\ me'.msg = me.msg
    /\ queue' = IF l = m.excl THEN queue ELSE [queue EXCEPT ![l][m.channel] = Append(@, me.msg)]
    /\ UNCHANGED <<mLinks, manager, orphans, st, buffered, joined, log, listeners, wanted>>
Listens(x) == listeners' = Append(listeners, x) /\ wanted' = wanted \cup {x} /\ me' = me /\ UNCHANGED <<links, log>>
Unlistens(x) ==
    /\ listeners' = Removed(listeners, x) /\ wanted' = wanted \ {x}
    /\ me.op \in {"idle", "note", "callback"} /\ me'.op = me.op /\ me'.pos = me.pos /\ me'.end = me.end
    /\ me'.must = {} /\ UNCHANGED <<links, log>>

Kind ==
    \/ Rests \/ Turns \/ Notes \/ Tells \/ Adds \/ Fills \/ Enters \/ Gives
    \/ \E l \in Links \cup {Master} : Comes(l) \/ Starts(l) \/ Opens(l) \/ Closes(l)
    \/ \E m \in Messages : Sends(m)
    \/ \E x \in Listeners : Listens(x) \/ Unlistens(x)

\* A thread that goes on with a call of the right type.
LEMMA Typed ==
    ASSUME Calling, NEW c \in Calls, Doing(App, c), c.op \notin {"idle", "callback"} => c.pos > 0
    PROVE  Calling' /\ me' = c
  <1>1. App \in Threads
    BY Zenon DEF Threads
  <1>2. call'[App] = c /\ call' \in [Threads -> Calls]
    BY <1>1 DEF Calling, Doing
  <1>. QED
    BY Zenon, <1>2 DEF Calling, me

\* A step that leaves the calls alone keeps what is said of them.
LEMMA Resting == ASSUME Calling, call' = call PROVE Calling' /\ me' = me
  BY Zenon DEF Calling, me

\* The calls of the user.
LEMMA CallKind == ASSUME Passing, Calling, Call PROVE Calling' /\ Kind
  <1>0. MayBegin => me.op \in {"idle", "callback"}
    BY DEF MayBegin, Free, At, me
  <1>1. ASSUME NEW c \in Channels, NEW b \in BOOLEAN, NEW x \in (Links \cap Range(manager)) \cup {None}, SendReliable(c, b, x)
        PROVE  Calling' /\ Kind
    <2>. DEFINE n == Len(log) + 1  s == [Idle EXCEPT !.op = "send", !.msg = n, !.pos = 1]
                m == [channel |-> c, excl |-> x, buffer |-> b]
    <2>0. n \in Nat
      OBVIOUS
    <2>1. s \in Calls /\ s.op = "send" /\ s.pos = 1 /\ s.msg = n
      BY Zenon, <2>0 DEF Idle, Calls, Ops
    <2>2. MayBegin /\ Doing(App, s) /\ UNCHANGED <<mLinks, manager, orphans, st, queue, joined, listeners, wanted>>
      BY Zenon, <1>1 DEF SendReliable, ears
    <2>3. m \in Messages /\ m.buffer = b /\ m.channel = c
      BY Zenon DEF Messages
    <2>4. log' = Append(log, m) /\ buffered' = IF b THEN [buffered EXCEPT ![c] = Append(@, n)] ELSE buffered
      BY <1>1 DEF SendReliable, BufferMsg
    <2>. HIDE DEF s, m
    <2>5. Calling' /\ me' = s
      BY <2>1, <2>2, Typed
    <2>6. Sends(m)
      BY Zenon, <1>0, <2>1, <2>2, <2>3, <2>4, <2>5 DEF Sends
    <2>. QED
      BY Zenon, <2>3, <2>5, <2>6 DEF Kind
  <1>2. CASE DisconnectSession \/ DisconnectAll
    <2>1. PICK o \in {"session", "all"} : Doing(App, [Idle EXCEPT !.op = o, !.pos = 1])
      BY Zenon, <1>2 DEF DisconnectSession, DisconnectAll
    <2>. DEFINE s == [Idle EXCEPT !.op = o, !.pos = 1]
    <2>2. s \in Calls /\ s.op = o /\ s.pos = 1
      BY Zenon DEF Idle, Calls, Ops
    <2>3. MayBegin /\ Quietly
      BY Zenon, <1>2 DEF DisconnectSession, DisconnectAll, Quietly, ears
    <2>. HIDE DEF s
    <2>4. Calling' /\ me' = s
      <3>1. s.pos > 0
        BY <2>2
      <3>. QED
        BY Zenon, <2>1, <2>2, <3>1, Typed DEF s
    <2>. QED
      BY Zenon, <1>0, <2>2, <2>3, <2>4 DEF Turns, Kind
  <1>3. CASE ProcessEvents
    BY Zenon, <1>3, Resting DEF ProcessEvents, Quietly, Rests, ears, Kind
  <1>. QED
    BY Zenon, <1>1, <1>2, <1>3 DEF Call

\* Closing a link on this side, as far as the link has a state.
LEMMA ClosedKind ==
    ASSUME NEW l \in Links \cup {Master}, Closed(l), me.op \notin {"add", "send"},
           UNCHANGED <<manager, orphans, buffered, queue, joined, log, listeners, wanted>>,
           me' = me \/ me'.op \in {"idle", "session", "all"}
    PROVE  Kind
  <1>1. CASE st[l] = "Unknown"
    BY Zenon, <1>1 DEF Closed, Kind, Turns, Rests, Quietly, links
  <1>2. CASE st[l] # "Unknown"
    BY <1>2 DEF Closed, Kind, Closes
  <1>. QED
    BY Zenon, <1>1, <1>2

\* The steps of the user's thread through a call.
LEMMA StepKind ==
    ASSUME Passing, Calling, Members, Hearing, Step(App)
    PROVE  Calling' /\ Kind
  <1>0. me \in Calls /\ (me.op \notin {"idle", "callback"} => me.pos > 0) /\ me = call[App]
    BY Zenon DEF Calling, Threads, me
  <1>1. Idle \in Calls /\ Idle.op = "idle"
    BY Zenon DEF Idle, Calls, Ops
  <1>a. me.pos \in Nat /\ me.pos + 1 \in Nat /\ me.pos + 1 > 0
    <2>1. me.pos \in Nat
      BY Zenon, <1>0 DEF Calls
    <2>. QED
      BY <2>1
  <1>b. ASSUME NEW p \in Nat
        PROVE  LET c == [me EXCEPT !.pos = p] IN
               c \in Calls /\ c.op = me.op /\ c.pos = p /\ c.link = me.link /\ c.msg = me.msg
    BY Zenon, <1>0 DEF Calls
  <1>2. CASE AddLink(App)
    <2>. DEFINE c == [me EXCEPT !.pos = me.pos + 1]
    <2>1. /\ me.op = "add" /\ me.pos <= NumChannels /\ Doing(App, c)
          /\ queue' = [queue EXCEPT ![me.link][me.pos] = @ \o buffered[me.pos]]
          /\ UNCHANGED <<mLinks, manager, orphans, st, buffered, joined, log, listeners, wanted>>
      BY Zenon, <1>0, <1>2 DEF AddLink, At, ears
    <2>2. c \in Calls /\ c.op = "add" /\ c.pos = me.pos + 1 /\ c.link = me.link /\ me.pos \in Nat
      BY Zenon, <1>a, <1>b, <2>1
    <2>. HIDE DEF c
    <2>3. me.pos \in Channels /\ c.pos > 0
      <3>1. me.pos \in Nat /\ me.pos > 0 /\ me.pos <= NumChannels /\ NumChannels \in Nat /\ c.pos = me.pos + 1
        BY Zenon, <1>0, <1>a, <2>1, <2>2, SessionAssumption
      <3>. QED
        BY <3>1 DEF Channels
    <2>4. Calling' /\ me' = c
      BY Zenon, <2>1, <2>2, <2>3, Typed
    <2>. QED
      BY Zenon, <2>1, <2>2, <2>3, <2>4 DEF Fills, Kind
  <1>3. CASE AddLinkEnd(App)
    <2>1. Calling' /\ me' = Idle
      BY Zenon, <1>1, <1>3, Typed DEF AddLinkEnd
    <2>. QED
      BY Zenon, <1>0, <1>1, <1>3, <2>1 DEF AddLinkEnd, At, Enters, Kind, ears
  <1>4. CASE CallListener(App)
    <2>. DEFINE c == [me EXCEPT !.pos = @ + 1, !.told = @ \cup {listeners[me.pos]}]
    <2>1. me.op = "note" /\ me.pos <= me.end /\ Doing(App, c) /\ Quietly
      BY <1>0, <1>4 DEF CallListener, At, Quietly, ears
    <2>2. listeners[me.pos] \in Listeners
      <3>1. me.pos \in Nat /\ me.end \in Nat /\ me.pos > 0 /\ me.end <= Len(listeners) /\ listeners \in Seq(Listeners)
        BY Zenon, <1>0, <2>1 DEF Calls, Hearing
      <3>. QED
        BY <2>1, <3>1
    <2>3. c \in Calls /\ c.op = "note" /\ c.pos = me.pos + 1 /\ c.end = me.end /\ c.must = me.must
          /\ c.told = me.told \cup {listeners[me.pos]} /\ me.pos \in Nat
      <3>1. me.told \cup {listeners[me.pos]} \in SUBSET Listeners
        BY Zenon, <1>0, <2>2 DEF Calls
      <3>. DEFINE p == me.pos + 1  T == me.told \cup {listeners[me.pos]}
                  d == [me EXCEPT !.pos = p, !.told = T]
      <3>2. c = d /\ p \in Nat /\ T \in SUBSET Listeners
        BY <1>a, <3>1
      <3>. HIDE DEF p, T
      <3>3. d \in Calls /\ d.op = "note" /\ d.pos = p /\ d.end = me.end /\ d.must = me.must /\ d.told = T
        BY Zenon, <1>0, <2>1, <3>2 DEF Calls
      <3>. HIDE DEF c, d
      <3>. QED
        BY <1>a, <3>2, <3>3 DEF p, T
    <2>. HIDE DEF c
    <2>4. Calling' /\ me' = c
      BY <2>1, <2>3, Typed
    <2>. QED
      BY Zenon, <2>1, <2>3, <2>4 DEF Tells, Kind
  <1>5. CASE CallEnd(App) \/ SendEnd(App)
    <2>1. /\ me.op \in {"note", "callback", "send"} /\ (me.op = "send" => me.pos > Len(mLinks))
          /\ Doing(App, Idle) /\ Quietly
      BY Zenon, <1>0, <1>5 DEF CallEnd, SendEnd, At, Quietly, ears
    <2>2. Calling' /\ me' = Idle
      BY Zenon, <1>1, <2>1, Typed
    <2>. QED
      BY <1>1, <2>1, <2>2 DEF Turns, Kind
  <1>6. CASE SendOne(App)
    <2>. DEFINE c == [me EXCEPT !.pos = @ + 1]
    <2>1. /\ me.op = "send" /\ me.pos <= Len(mLinks) /\ Doing(App, c)
          /\ UNCHANGED <<mLinks, manager, orphans, st, buffered, joined, log, listeners, wanted>>
          /\ queue' = IF mLinks[me.pos] = log[me.msg].excl THEN queue
                      ELSE [queue EXCEPT ![mLinks[me.pos]][log[me.msg].channel] = Append(@, me.msg)]
      BY Zenon, <1>0, <1>6 DEF SendOne, At, Enqueued, ears
    <2>2. c \in Calls /\ c.op = "send" /\ c.pos = me.pos + 1 /\ c.msg = me.msg /\ me.pos \in Nat
      BY Zenon, <1>a, <1>b, <2>1
    <2>. HIDE DEF c
    <2>3. me.pos \in DOMAIN mLinks /\ c.pos > 0
      <3>1. mLinks \in Seq(Links \cup {Master}) /\ me.pos > 0
        BY Zenon, <1>0, <2>1 DEF Members
      <3>2. me.pos <= Len(mLinks)
        BY Zenon, <2>1
      <3>. QED
        BY <1>a, <2>2, <3>1, <3>2
    <2>4. Calling' /\ me' = c
      BY Zenon, <2>1, <2>2, <2>3, Typed
    <2>. QED
      BY Zenon, <2>1, <2>2, <2>3, <2>4 DEF Gives, Kind
  <1>7. CASE SessionOne(App)
    <2>. DEFINE c == IF me.pos + 1 > Len(mLinks') THEN Idle ELSE [me EXCEPT !.pos = me.pos + 1]
    <2>1. /\ me.op = "session" /\ me.pos <= Len(mLinks) /\ Doing(App, c) /\ Closed(mLinks[me.pos])
          /\ UNCHANGED <<manager, orphans, buffered, queue, joined, log, listeners, wanted>>
      BY Zenon, <1>0, <1>7 DEF SessionOne, At, ears
    <2>2. c \in Calls /\ c.op \in {"session", "idle"} /\ (c.op # "idle" => c.pos > 0)
      <3>. DEFINE d == [me EXCEPT !.pos = me.pos + 1]
      <3>1. d \in Calls /\ d.op = "session" /\ d.pos > 0
        BY Zenon, <1>a, <1>b, <2>1
      <3>2. c \in {Idle, d}
        OBVIOUS
      <3>. HIDE DEF c, d
      <3>. QED
        BY Zenon, <1>1, <3>1, <3>2
    <2>3. mLinks[me.pos] \in Links \cup {Master}
      <3>1. me.pos \in Nat /\ me.pos > 0
        BY Zenon, <1>0, <2>1 DEF Calls
      <3>. QED
        BY <2>1, <3>1 DEF Members
    <2>. HIDE DEF c
    <2>4. Calling' /\ me' = c
      BY <2>1, <2>2, Typed
    <2>. QED
      BY Zenon, <2>1, <2>2, <2>3, <2>4, ClosedKind
  <1>8. CASE AllOne(App)
    <2>. DEFINE c == IF me.pos + 1 > Len(manager) THEN Idle ELSE [me EXCEPT !.pos = me.pos + 1]
    <2>1. /\ me.op = "all" /\ me.pos <= Len(manager) /\ Doing(App, c) /\ Closed(manager[me.pos])
          /\ UNCHANGED <<manager, orphans, buffered, queue, joined, log, listeners, wanted>>
      BY Zenon, <1>0, <1>8 DEF AllOne, At, ears
    <2>2. c \in Calls /\ c.op \in {"all", "idle"} /\ (c.op # "idle" => c.pos > 0)
      <3>. DEFINE d == [me EXCEPT !.pos = me.pos + 1]
      <3>1. d \in Calls /\ d.op = "all" /\ d.pos > 0
        BY Zenon, <1>a, <1>b, <2>1
      <3>2. c \in {Idle, d}
        OBVIOUS
      <3>. HIDE DEF c, d
      <3>. QED
        BY <1>1, <3>1, <3>2
    <2>3. manager[me.pos] \in Links \cup {Master}
      <3>1. me.pos \in Nat /\ me.pos > 0
        BY Zenon, <1>0, <2>1 DEF Calls
      <3>. QED
        BY <2>1, <3>1 DEF Passing
    <2>. HIDE DEF c
    <2>4. Calling' /\ me' = c
      BY <2>1, <2>2, Typed
    <2>. QED
      BY Zenon, <2>1, <2>2, <2>3, <2>4, ClosedKind
  <1>. QED
    BY <1>2, <1>3, <1>4, <1>5, <1>6, <1>7, <1>8 DEF Step

\* The front event, and every other step.
LEMMA StepOfAKind ==
    ASSUME ~Async, InOrder, Passing, Calling, Members, Hearing, [Next]_vars
    PROVE  Calling' /\ Kind
  <1>1. CASE Call
    BY <1>1, CallKind
  <1>2. CASE ProcessFront
    <2>. DEFINE e == Head(events)
    <2>1. me.op = "idle" /\ UNCHANGED <<listeners, wanted, log>>
      BY Zenon, <1>2 DEF ProcessFront, Passing, me, ears
    <2>2. e.link \in Links \cup {Master} /\ (e.kind = "connectTo" => e.link \in Links)
      <3>1. e \in Events
        BY <1>2 DEF ProcessFront, InOrder
      <3>. QED
        BY Zenon, <3>1 DEF Events
    <2>. HIDE DEF e
    <2>3. CASE ConnectTo(App, e)
      <3>0. UNCHANGED <<mLinks, manager, orphans, buffered, queue, joined>> /\ e.link \in Links
        BY Zenon, <2>2, <2>3 DEF ConnectTo
      <3>1. CASE e.link \in Range(manager)
        <4>1. call' = call /\ st' = IF st[e.link] = "Unknown" THEN [st EXCEPT ![e.link] = "Connecting"] ELSE st
          BY Zenon, <2>3, <3>1 DEF ConnectTo
        <4>2. CASE st[e.link] = "Unknown"
          BY Zenon, <2>1, <3>0, <3>1, <4>1, <4>2, Resting DEF Starts, Kind
        <4>3. CASE st[e.link] # "Unknown"
          BY Zenon, <2>1, <3>0, <4>1, <4>3, Resting DEF Rests, Quietly, links, Kind
        <4>. QED
          BY Zenon, <4>2, <4>3
      <3>2. CASE e.link \notin Range(manager)
        <4>. DEFINE c == [Idle EXCEPT !.op = "add", !.link = e.link, !.pos = 1]
        <4>1. c \in Calls /\ c.op = "add" /\ c.link = e.link /\ c.pos = 1
          BY Zenon, <2>2 DEF Idle, Calls, Ops
        <4>2. Doing(App, c) /\ UNCHANGED links /\ e.link \in Links
          BY Zenon, <2>3, <3>0, <3>2 DEF ConnectTo, links
        <4>. HIDE DEF c
        <4>3. Calling' /\ me' = c
          BY <4>1, <4>2, Typed
        <4>. QED
          BY Zenon, <2>1, <3>2, <4>1, <4>2, <4>3 DEF Adds, Quietly, Kind
      <3>. QED
        BY Zenon, <3>1, <3>2
    <2>4. CASE Connect(App, e)
      <3>1. call' = call /\ UNCHANGED <<mLinks, manager, orphans, buffered, queue, joined>>
        BY Zenon, <2>4 DEF Connect, Post
      <3>2. CASE st[e.link] = "Connecting"
        BY SMTT(30), <2>1, <2>2, <2>4, <3>1, <3>2, Resting DEF Connect, Opens, Kind
      <3>3. CASE st[e.link] # "Connecting"
        BY <2>1, <2>4, <3>1, <3>3, Resting DEF Connect, Rests, Quietly, links, Kind
      <3>. QED
        BY Zenon, <3>2, <3>3
    <2>5. CASE Disconnected(App, e)
      <3>1. call' = call
        BY Zenon, <2>5 DEF Disconnected, Post
      <3>2. Closes(e.link)
        BY Zenon, <2>1, <2>5, <3>1, Resting DEF Disconnected, Closes
      <3>. QED
        BY Zenon, <2>2, <3>1, <3>2, Resting DEF Kind
    <2>6. CASE NewHost(App, e) \/ MasterResult(App, e)
      <3>1. call' = call /\ UNCHANGED links
        BY Zenon, <2>6 DEF NewHost, MasterResult, Post
      <3>. QED
        BY Zenon, <2>1, <3>1, Resting DEF Rests, Quietly, Kind
    <2>7. CASE NoSession(e)
      BY Zenon, <2>1, <2>7, Resting DEF NoSession, Rests, Quietly, Kind
    <2>8. CASE Doing(App, Process(e)) /\ UNCHANGED links
      <3>1. CASE e.kind = "callback"
        <4>1. Callback \in Calls /\ Callback.op = "callback"
          BY Zenon DEF Callback, Idle, Calls, Ops
        <4>2. Calling' /\ me' = Callback
          BY <2>8, <3>1, <4>1, Typed DEF Process
        <4>. QED
          BY Zenon, <2>1, <2>8, <4>1, <4>2 DEF Turns, Quietly, Kind
      <3>2. CASE e.kind # "callback"
        <4>. DEFINE c == Note(e.link)
        <4>0. Len(listeners) \in Nat /\ wanted \subseteq Listeners
          BY DEF Hearing, Range
        <4>1. c \in Calls /\ c.op = "note" /\ c.pos = 1 /\ c.end = Len(listeners) /\ c.must = wanted
          BY Zenon, <2>2, <4>0 DEF Note, Idle, Calls, Ops
        <4>. HIDE DEF c
        <4>2. Calling' /\ me' = c
          BY <2>8, <3>2, <4>1, Typed DEF Process, c
        <4>. QED
          BY Zenon, <2>1, <2>8, <4>1, <4>2 DEF Notes, Quietly, Kind
      <3>. QED
        BY Zenon, <3>1, <3>2
    <2>. QED
      BY Zenon, <1>2, <2>3, <2>4, <2>5, <2>6, <2>7, <2>8 DEF ProcessFront, Handle, e
  <1>3. CASE PopFront \/ ProcessEnd \/ UNCHANGED vars
    BY Zenon, <1>3, Resting DEF PopFront, ProcessEnd, vars, ears, Rests, Quietly, Kind
  <1>4. ASSUME NEW w \in Workers, NEW l \in Links \cup {Master}, Word(w, l) PROVE Calling' /\ Kind
    BY <1>4, Resting DEF Word, Rests, Quietly, Kind
  <1>5. ASSUME NEW t \in Threads, Step(t) PROVE Calling' /\ Kind
    <2>1. t = App
      BY Zenon, <1>5 DEF Passing, Step, AddLink, AddLinkEnd, CallListener, CallEnd, SendOne, SendEnd, SessionOne, AllOne, At
    <2>. QED
      BY Zenon, <1>5, <2>1, StepKind
  <1>6. ASSUME NEW t \in Threads, NEW l \in Links, DisconnectLink(t, l) PROVE Calling' /\ Kind
    <2>1. me.op \in {"idle", "note", "callback"}
      BY Zenon, <1>6 DEF DisconnectLink, MayCall, Free, InCallback, At, me
    <2>2. Calling' /\ me' = me
      BY Zenon, <1>6, Resting DEF DisconnectLink
    <2>. QED
      BY <1>6, <2>1, <2>2, ClosedKind DEF DisconnectLink, ears
  <1>7. ASSUME NEW t \in Threads, NEW x \in Listeners, AddListener(t, x) PROVE Calling' /\ Kind
    <2>1. call' = call /\ listeners' = Append(listeners, x) /\ wanted' = wanted \cup {x} /\ UNCHANGED <<links, log>>
      BY Zenon, <1>7 DEF AddListener
    <2>. QED
      BY <2>1, Resting DEF Listens, Kind
  <1>8. ASSUME NEW t \in Threads, NEW x \in Listeners, RemoveListener(t, x) PROVE Calling' /\ Kind
    <2>. DEFINE c == [me EXCEPT !.must = {}]
    <2>0. me \in Calls /\ (me.op \notin {"idle", "callback"} => me.pos > 0) /\ me = call[App]
      BY Zenon DEF Calling, Threads, me
    <2>1. t = App /\ me.op \in {"idle", "note", "callback"} /\ Doing(App, c)
      BY Zenon, <1>8, <2>0 DEF RemoveListener, MayCall, Free, InCallback, At
    <2>2. c \in Calls /\ c.op = me.op /\ c.pos = me.pos /\ c.end = me.end /\ c.must = {}
      BY Zenon, <2>0 DEF Calls
    <2>. HIDE DEF c
    <2>3. Calling' /\ me' = c
      BY <2>0, <2>1, <2>2, Typed
    <2>4. Unlistens(x)
      BY Zenon, <1>8, <2>1, <2>2, <2>3 DEF RemoveListener, Unlistens
    <2>. QED
      BY Zenon, <2>3, <2>4 DEF Kind
  <1>9. ASSUME NEW l \in Links, Arrive(l) PROVE Calling' /\ Kind
    <2>1. Comes(l) /\ Calling'
      BY Zenon, <1>9, Resting DEF Arrive, Comes, ears, Threads, me
    <2>. QED
      BY Zenon, <2>1 DEF Kind
  <1>. QED
    BY Zenon, <1>1, <1>2, <1>3, <1>4, <1>5, <1>6, <1>7, <1>8, <1>9 DEF Next
----------------------------------------------------------------------------
\* A step that leaves the lists alone and adds no link.
LEMMA SameMembers ==
    ASSUME Members, UNCHANGED <<mLinks, manager, orphans>>,
           \A l \in Links : /\ st'[l] \in {"Connecting", "Connected"} <=> st[l] \in {"Connecting", "Connected"}
                            /\ st'[l] = "Unknown" => st[l] = "Unknown",
           me'.op = "add" => me'.link \in Links \ Range(manager)
    PROVE  Members'
  <1>1. \A l \in Links : l \in Range(mLinks) <=> st'[l] \in {"Connecting", "Connected"} /\ l \notin orphans
    BY Zenon DEF Members
  <1>2. \A l \in Links \cap Range(manager) : st'[l] = "Unknown" => l \in orphans
    BY Zenon DEF Members
  <1>. QED
    BY Zenon, <1>1, <1>2 DEF Members

\* removeLink takes the link out, and its state is closed.
LEMMA ClosedMembers ==
    ASSUME Passing, Members, NEW l \in Links \cup {Master}, Closes(l)
    PROVE  Members'
  <1>. DEFINE w == Without(mLinks, l)
  <1>1. /\ w \in Seq(Links \cup {Master}) /\ Range(w) = Range(mLinks) \ {l}
        /\ \A i, j \in DOMAIN w : w[i] = w[j] => i = j
    <2>1. mLinks \in Seq(Links \cup {Master}) /\ \A i, j \in DOMAIN mLinks : mLinks[i] = mLinks[j] => i = j
      BY Zenon DEF Members
    <2>. QED
      BY Zenon, <2>1, WithoutOne
  <1>. HIDE DEF w
  <1>2. /\ mLinks' = w /\ UNCHANGED <<manager, orphans>> /\ me'.op # "add"
        /\ st' = [st EXCEPT ![l] = "Disconnected"]
    BY Zenon DEF Closes, w
  <1>3. \A x \in Links : st'[x] = IF x = l THEN "Disconnected" ELSE st[x]
    BY Zenon, <1>2 DEF Passing
  <1>4. \A x \in Links : x \in Range(w) <=> st'[x] \in {"Connecting", "Connected"} /\ x \notin orphans
    BY SMTT(30), <1>1, <1>3 DEF Members
  <1>5. \A x \in Links \cap Range(manager) : st'[x] = "Unknown" => x \in orphans
    BY Zenon, <1>3 DEF Members
  <1>6. Range(w) \subseteq Range(manager)
    BY Zenon, <1>1 DEF Members
  <1>. QED
    BY Zenon, <1>1, <1>2, <1>4, <1>5, <1>6 DEF Members

\* A new link comes last.
LEMMA EntersMembers == ASSUME Passing, Members, Enters PROVE Members'
  <1>. DEFINE l == me.link  n == Len(mLinks)
  <1>1. /\ l \in Links \ Range(manager) /\ mLinks \in Seq(Links \cup {Master}) /\ n \in Nat
        /\ manager \in Seq(Links \cup {Master})
    <2>1. l \in Links \ Range(manager) /\ mLinks \in Seq(Links \cup {Master}) /\ manager \in Seq(Links \cup {Master})
      BY Zenon DEF Members, Enters, Passing
    <2>. QED
      BY Zenon, <2>1, Places
  <1>2. l \notin Range(mLinks)
    BY Zenon, <1>1 DEF Members
  <1>3. /\ mLinks' = Append(mLinks, l) /\ manager' = Append(manager, l) /\ me'.op = "idle"
        /\ st' = [st EXCEPT ![l] = "Connecting"] /\ orphans' = orphans
    BY Zenon DEF Enters
  <1>. HIDE DEF l
  <1>4. /\ mLinks' \in Seq(Links \cup {Master}) /\ DOMAIN mLinks' = 1 .. n + 1 /\ DOMAIN mLinks = 1 .. n
        /\ mLinks'[n + 1] = l /\ \A i \in 1 .. n : mLinks'[i] = mLinks[i]
    BY <1>1, <1>3
  <1>5. Range(manager') = Range(manager) \cup {l}
    BY Zenon, <1>1, <1>3, OneMore
  <1>6. Range(mLinks') = Range(mLinks) \cup {l}
    BY SMTT(30), <1>1, <1>4 DEF Range
  <1>7. ASSUME NEW i \in DOMAIN mLinks', NEW j \in DOMAIN mLinks', mLinks'[i] = mLinks'[j] PROVE i = j
    <2>1. \A k \in 1 .. n : mLinks[k] # l
      BY Zenon, <1>2, <1>4 DEF Range
    <2>2. \A k \in 1 .. n + 1 : k \in 1 .. n \/ k = n + 1
      BY <1>1
    <2>3. \A a, b \in 1 .. n : mLinks[a] = mLinks[b] => a = b
      BY Zenon, <1>4 DEF Members
    <2>. QED
      BY Zenon, <1>4, <1>7, <2>1, <2>2, <2>3
  <1>8. \A x \in Links : st'[x] = IF x = l THEN "Connecting" ELSE st[x]
    BY Zenon, <1>3 DEF Passing
  <1>9. \A x \in Links : x \in Range(mLinks') <=> st'[x] \in {"Connecting", "Connected"} /\ x \notin orphans
    BY Zenon, <1>1, <1>6, <1>8 DEF Members
  <1>10. \A x \in Links \cap Range(manager') : st'[x] = "Unknown" => x \in orphans
    BY Zenon, <1>5, <1>8 DEF Members
  <1>11. Range(mLinks') \subseteq Range(manager') /\ orphans \subseteq Range(manager')
    BY Zenon, <1>5, <1>6 DEF Members
  <1>. QED
    BY Zenon, <1>3, <1>4, <1>7, <1>9, <1>10, <1>11 DEF Members

\* A link without a session comes into LinkManager, ...
LEMMA ComesMembers == ASSUME Passing, Members, NEW l, Comes(l) PROVE Members'
  <1>1. /\ l \in Links \ Range(manager) /\ manager' = Append(manager, l) /\ orphans' = orphans \cup {l}
        /\ UNCHANGED <<mLinks, st, me>> /\ (me.op = "add" => me.link # l)
    BY Zenon DEF Comes
  <1>2. Range(manager') = Range(manager) \cup {l}
    BY Zenon, <1>1, OneMore DEF Passing
  <1>3. l \notin Range(mLinks) /\ st[l] \notin {"Connecting", "Connected"}
    BY Zenon, <1>1 DEF Members, Passing
  <1>4. \A x \in Links : x \in Range(mLinks) <=> st[x] \in {"Connecting", "Connected"} /\ x \notin orphans'
    BY Zenon, <1>1, <1>3 DEF Members
  <1>5. \A x \in Links \cap Range(manager') : st[x] = "Unknown" => x \in orphans'
    BY Zenon, <1>1, <1>2 DEF Members
  <1>6. Range(mLinks) \subseteq Range(manager') /\ orphans' \subseteq Range(manager')
    BY Zenon, <1>1, <1>2 DEF Members
  <1>7. me.op = "add" => me.link \in Links \ Range(manager')
    BY Zenon, <1>1, <1>2 DEF Members
  <1>. QED
    BY Zenon, <1>1, <1>4, <1>5, <1>6, <1>7 DEF Members

\* ... and connect() makes it Connecting, outside m_Links.
LEMMA StartsMembers == ASSUME Passing, Members, NEW l, Starts(l) PROVE Members'
  <1>1. l \in Links \cap Range(manager) /\ st[l] = "Unknown" /\ UNCHANGED <<mLinks, manager, orphans, me>>
    BY Zenon DEF Starts
  <1>2. \A x \in Links : st'[x] = IF x = l THEN "Connecting" ELSE st[x]
    BY Zenon DEF Starts, Passing
  <1>3. l \in orphans
    BY Zenon, <1>1 DEF Members
  <1>4. \A x \in Links : x \in Range(mLinks) <=> st'[x] \in {"Connecting", "Connected"} /\ x \notin orphans
    BY Zenon, <1>2, <1>3 DEF Members
  <1>5. \A x \in Links \cap Range(manager) : st'[x] = "Unknown" => x \in orphans
    BY Zenon, <1>2, <1>3 DEF Members
  <1>. QED
    BY Zenon, <1>1, <1>4, <1>5 DEF Members

\* Each kind of step keeps the members of a session open.
LEMMA MembersStep == ASSUME Passing, Members, Kind PROVE Members'
  <1>1. CASE Rests \/ Turns \/ Notes \/ Tells \/ Adds \/ Fills \/ Gives
    <2>1. UNCHANGED <<mLinks, manager, orphans, st>> /\ (me'.op = "add" => me'.link \in Links \ Range(manager))
      BY Zenon, <1>1 DEF Rests, Turns, Notes, Tells, Adds, Fills, Gives, Quietly, links, Members
    <2>. QED
      BY <2>1, SameMembers
  <1>2. CASE Enters
    BY Zenon, <1>2, EntersMembers
  <1>3. ASSUME NEW l \in Links \cup {Master}, Opens(l) PROVE Members'
    <2>1. \A x \in Links : st'[x] = IF x = l THEN "Connected" ELSE st[x]
      BY Zenon, <1>3 DEF Opens, Passing
    <2>2. st[l] = "Connecting" /\ UNCHANGED <<mLinks, manager, orphans, me>>
      BY Zenon, <1>3 DEF Opens
    <2>. QED
      BY Zenon, <2>1, <2>2, SameMembers DEF Members
  <1>4. ASSUME NEW l \in Links \cup {Master}, Closes(l) PROVE Members'
    BY <1>4, ClosedMembers
  <1>5. ASSUME NEW m, Sends(m) PROVE Members'
    <2>1. UNCHANGED <<mLinks, manager, orphans, st>> /\ me'.op # "add"
      BY Zenon, <1>5 DEF Sends
    <2>. QED
      BY <2>1, SameMembers
  <1>6. ASSUME NEW x, Listens(x) \/ Unlistens(x) PROVE Members'
    <2>1. UNCHANGED <<mLinks, manager, orphans, st>> /\ (me'.op = "add" => me'.link \in Links \ Range(manager))
      BY <1>6 DEF Listens, Unlistens, links, Members
    <2>. QED
      BY <2>1, SameMembers
  <1>7. ASSUME NEW l, Comes(l) \/ Starts(l) PROVE Members'
    BY Zenon, <1>7, ComesMembers, StartsMembers
  <1>. QED
    BY Zenon, <1>1, <1>2, <1>3, <1>4, <1>5, <1>6, <1>7 DEF Kind

\* removeListener keeps the length of the vector, and the other listeners in it.
LEMMA RemovedOne ==
    ASSUME NEW s \in Seq(Listeners), NEW x
    PROVE  Removed(s, x) \in Seq(Listeners) /\ Len(Removed(s, x)) = Len(s) /\ Range(s) \ {x} \subseteq Range(Removed(s, x))
  <1>. DEFINE w == Without(s, x)  n == Len(w)  t == SubSeq(s, n + 1, Len(s))
  <1>1. w \in Seq(Listeners) /\ n <= Len(s) /\ Range(w) = Range(s) \ {x}
    BY Zenon, WithoutOne
  <1>. HIDE DEF w
  <1>2. n \in Nat /\ Len(s) \in Nat /\ DOMAIN w = 1 .. n
    BY <1>1
  <1>3. t \in Seq(Listeners) /\ Len(t) = Len(s) - n
    BY <1>1, <1>2
  <1>. HIDE DEF t
  <1>. DEFINE v == w \o t
  <1>4. v \in Seq(Listeners) /\ Len(v) = n + Len(t) /\ \A i \in 1 .. n : v[i] = w[i]
    BY <1>1, <1>2, <1>3
  <1>. HIDE DEF v
  <1>5. Len(v) = Len(s) /\ DOMAIN v = 1 .. Len(s)
    BY <1>2, <1>3, <1>4
  <1>6. Range(w) \subseteq Range(v)
    BY <1>1, <1>2, <1>4, <1>5 DEF Range
  <1>7. Removed(s, x) = v
    BY Zenon DEF Removed, v, t, w
  <1>. QED
    BY <1>1, <1>4, <1>5, <1>6, <1>7

\* Each kind of step keeps the listeners that an event has yet to reach.
LEMMA HearingStep == ASSUME Calling, Hearing, Kind PROVE Hearing'
  <1>0. /\ me \in Calls /\ me.pos \in Nat /\ me.end \in Nat /\ (me.op = "note" => me.pos > 0)
        /\ listeners \in Seq(Listeners) /\ Len(listeners) \in Nat /\ DOMAIN listeners = 1 .. Len(listeners)
    BY DEF Calling, Threads, me, Calls, Hearing
  <1>1. ASSUME UNCHANGED <<listeners, wanted>>, me' = me \/ me'.op # "note" PROVE Hearing'
    BY <1>1 DEF Hearing
  <1>2. CASE Rests \/ Turns \/ Adds \/ Fills \/ Enters \/ Gives
    BY Zenon, <1>1, <1>2 DEF Rests, Turns, Adds, Fills, Enters, Gives, Quietly
  <1>3. ASSUME NEW l, Comes(l) \/ Starts(l) \/ Opens(l) \/ Closes(l) PROVE Hearing'
    BY Zenon, <1>1, <1>3 DEF Comes, Starts, Opens, Closes
  <1>4. ASSUME NEW m, Sends(m) PROVE Hearing'
    BY <1>1, <1>4 DEF Sends
  <1>5. CASE Notes
    <2>1. /\ UNCHANGED <<listeners, wanted>> /\ me'.pos = 1 /\ me'.end = Len(listeners) /\ me'.must = wanted
      BY Zenon, <1>5 DEF Notes, Quietly
    <2>2. wanted \subseteq {listeners[i] : i \in 1 .. Len(listeners)}
      BY <1>0 DEF Hearing, Range
    <2>. QED
      BY <1>0, <2>1, <2>2 DEF Hearing
  <1>6. CASE Tells
    <2>1. /\ UNCHANGED <<listeners, wanted>> /\ me'.pos = me.pos + 1 /\ me'.end = me.end /\ me'.must = me.must
          /\ me'.told = me.told \cup {listeners[me.pos]} /\ me.op = "note"
      BY Zenon, <1>6 DEF Tells, Quietly
    <2>2. \A i \in me.pos .. me.end : i = me.pos \/ i \in me.pos + 1 .. me.end
      BY <1>0
    <2>. QED
      BY <2>1, <2>2 DEF Hearing
  <1>7. ASSUME NEW x \in Listeners, Listens(x) PROVE Hearing'
    <2>1. listeners' = Append(listeners, x) /\ wanted' = wanted \cup {x} /\ me' = me
      BY <1>7 DEF Listens
    <2>. DEFINE n == Len(listeners)
    <2>2. /\ listeners' \in Seq(Listeners) /\ Len(listeners') = n + 1 /\ DOMAIN listeners' = 1 .. n + 1
          /\ listeners'[n + 1] = x /\ \A i \in 1 .. n : listeners'[i] = listeners[i]
      BY <1>0, <2>1
    <2>3. wanted' \subseteq Range(listeners')
      BY SMTT(30), <1>0, <2>1, <2>2 DEF Hearing, Range
    <2>4. CASE me.op = "note"
      <3>1. me.end <= n /\ me.pos > 0
        BY Zenon, <1>0, <2>4 DEF Hearing
      <3>2. \A i \in me.pos .. me.end : listeners'[i] = listeners[i]
        BY <1>0, <2>2, <3>1
      <3>3. me.must \subseteq me.told \cup {listeners'[i] : i \in me.pos .. me.end}
        BY <2>4, <3>2 DEF Hearing
      <3>. QED
        BY <1>0, <2>1, <2>2, <2>3, <3>1, <3>3 DEF Hearing
    <2>5. CASE me.op # "note"
      BY Zenon, <2>1, <2>2, <2>3, <2>5 DEF Hearing
    <2>. QED
      BY Zenon, <2>4, <2>5
  <1>8. ASSUME NEW x \in Listeners, Unlistens(x) PROVE Hearing'
    <2>1. /\ listeners' = Removed(listeners, x) /\ wanted' = wanted \ {x}
          /\ me'.op = me.op /\ me'.end = me.end /\ me'.must = {}
      BY <1>8 DEF Unlistens
    <2>2. listeners' \in Seq(Listeners) /\ Len(listeners') = Len(listeners) /\ Range(listeners) \ {x} \subseteq Range(listeners')
      BY Zenon, <1>0, <2>1, RemovedOne
    <2>3. wanted' \subseteq Range(listeners')
      BY <2>1, <2>2 DEF Hearing
    <2>. QED
      BY <2>1, <2>2, <2>3 DEF Hearing
  <1>. QED
    BY Zenon, <1>2, <1>3, <1>4, <1>5, <1>6, <1>7, <1>8 DEF Kind
----------------------------------------------------------------------------
\* A message with the next number, after the others.
LEMMA HoldsNext ==
    ASSUME NEW s \in Seq(Nat), NEW S, Holds(s, S), NEW n \in Nat, \A x \in S : x < n
    PROVE  Append(s, n) \in Seq(Nat) /\ Holds(Append(s, n), S \cup {n})
  <1>. DEFINE t == Append(s, n)  k == Len(s)
  <1>1. /\ t \in Seq(Nat) /\ k \in Nat /\ DOMAIN t = 1 .. k + 1 /\ DOMAIN s = 1 .. k
        /\ t[k + 1] = n /\ \A i \in 1 .. k : t[i] = s[i]
    OBVIOUS
  <1>. HIDE DEF t, k
  <1>2. \A i \in 1 .. k : s[i] \in S
    BY SMTT(30), <1>1 DEF Holds, Range
  <1>3. ASSUME NEW i \in DOMAIN t, NEW j \in DOMAIN t, i < j PROVE t[i] < t[j]
    <2>1. CASE j \in 1 .. k
      <3>1. i \in 1 .. k
        BY <1>1, <1>3, <2>1
      <3>. QED
        BY Zenon, <1>1, <1>3, <2>1, <3>1 DEF Holds, Rising
    <2>2. CASE j = k + 1
      <3>1. i \in 1 .. k
        BY <1>1, <1>3, <2>2
      <3>. QED
        BY SMTT(30), <1>1, <1>2, <2>2, <3>1
    <2>. QED
      BY <1>1, <2>1, <2>2
  <1>4. Range(t) = S \cup {n}
    <2>1. Range(s) = S
      BY Zenon DEF Holds
    <2>. QED
      BY SMTT(30), <1>1, <2>1 DEF Range
  <1>. QED
    BY Zenon, <1>1, <1>3, <1>4 DEF Holds, Rising, t

\* One queue of one link changes.
LEMMA OneQueue ==
    ASSUME queue \in [Links \cup {Master} -> [Channels -> Seq(Nat)]],
           NEW l \in Links \cup {Master}, NEW c \in Channels, NEW v \in Seq(Nat), queue' = [queue EXCEPT ![l][c] = v]
    PROVE  /\ queue' \in [Links \cup {Master} -> [Channels -> Seq(Nat)]]
           /\ queue'[l][c] = v
           /\ \A x \in Links \cup {Master}, d \in Channels : x # l \/ d # c => queue'[x][d] = queue[x][d]
  OBVIOUS

\* A step that leaves the messages and the lists alone.
LEMMA RestFilled ==
    ASSUME Calling, Members, Filled, UNCHANGED <<log, buffered, queue, joined, mLinks, manager>>,
           \/ me' = me
           \/ /\ me.op # "add" /\ (me.op = "send" => me.pos > Len(mLinks))
              /\ me'.op # "send" /\ (me'.op = "add" => me'.pos = 1)
    PROVE  Filled'
  <1>1. CASE me' = me
    BY Zenon, <1>1 DEF Filled
  <1>2. CASE /\ me.op # "add" /\ (me.op = "send" => me.pos > Len(mLinks))
             /\ me'.op # "send" /\ (me'.op = "add" => me'.pos = 1)
    <2>1. me.pos \in Nat /\ \A k \in DOMAIN mLinks : k \in Nat /\ k <= Len(mLinks)
      <3>1. me.pos \in Nat /\ mLinks \in Seq(Links \cup {Master})
        BY Zenon DEF Calling, Threads, Calls, Members, me
      <3>. QED
        BY Zenon, <3>1, Places
    <2>2. \A k \in DOMAIN mLinks : ~(me.op = "send" /\ k >= me.pos)
      BY <1>2, <2>1
    <2>3. \A k \in DOMAIN mLinks : Given(me', log, k) = Given(me, log, k)
      BY Zenon, <1>2, <2>2 DEF Given
    <2>4. \A k \in DOMAIN mLinks, c \in Channels :
            Holds(queue[mLinks[k]][c], Share(log, joined[mLinks[k]], mLinks[k], c, Given(me', log, k)))
      BY Zenon, <2>3 DEF Filled
    <2>5. \A k \in DOMAIN mLinks : joined[mLinks[k]] <= Given(me', log, k)
      BY Zenon, <2>3 DEF Filled
    <2>6. ASSUME NEW l \in Links \ Range(manager), NEW c \in Channels
          PROVE  queue[l][c] = IF me'.op = "add" /\ me'.link = l /\ c < me'.pos THEN buffered[c] ELSE <<>>
      <3>1. queue[l][c] = <<>>
        BY Zenon, <1>2 DEF Filled
      <3>2. ~(c < 1)
        BY DEF Channels
      <3>. QED
        BY Zenon, <1>2, <3>1, <3>2
    <2>. QED
      BY Zenon, <1>2, <2>4, <2>5, <2>6 DEF Filled
  <1>. QED
    BY Zenon, <1>1, <1>2

\* Links that leave take nothing from the others.
LEMMA ClosesFilled ==
    ASSUME Passing, Members, Members', Filled, NEW l \in Links \cup {Master}, Closes(l)
    PROVE  Filled'
  <1>1. me.op \notin {"add", "send"} /\ me'.op \notin {"add", "send"} /\ UNCHANGED <<log, buffered, queue, joined, manager>>
    BY Zenon DEF Closes
  <1>2. \A k : Given(me, log, k) = Len(log) /\ Given(me', log, k) = Len(log)
    BY <1>1 DEF Given
  <1>3. Range(mLinks') \subseteq Range(mLinks)
    <2>1. mLinks \in Seq(Links \cup {Master})
      BY Zenon DEF Members
    <2>2. Range(Without(mLinks, l)) = Range(mLinks) \ {l}
      BY <2>1, WithoutOne
    <2>. QED
      BY Zenon, <2>2 DEF Closes
  <1>4. \A k \in DOMAIN mLinks' : \E j \in DOMAIN mLinks : mLinks'[k] = mLinks[j]
    BY <1>3 DEF Range
  <1>5. ASSUME NEW k \in DOMAIN mLinks'
        PROVE  /\ joined[mLinks'[k]] <= Len(log)
               /\ \A c \in Channels : Holds(queue[mLinks'[k]][c], Share(log, joined[mLinks'[k]], mLinks'[k], c, Len(log)))
    <2>1. PICK j \in DOMAIN mLinks : mLinks'[k] = mLinks[j]
      BY <1>4
    <2>2. /\ joined[mLinks[j]] <= Len(log)
          /\ \A c \in Channels : Holds(queue[mLinks[j]][c], Share(log, joined[mLinks[j]], mLinks[j], c, Len(log)))
      BY Zenon, <1>2 DEF Filled
    <2>. QED
      BY Zenon, <2>1, <2>2
  <1>6. \A x \in Links \ Range(manager), c \in Channels : queue[x][c] = <<>>
    BY Zenon, <1>1 DEF Filled
  <1>. QED
    BY Zenon, <1>1, <1>2, <1>5, <1>6 DEF Filled

\* addLink, one channel.
LEMMA FillsFilled == ASSUME Calling, Members, Filled, Fills PROVE Filled'
  <1>. DEFINE l == me.link  p == me.pos
  <1>1. /\ me.op = "add" /\ p \in Channels /\ me'.op = "add" /\ me'.link = l /\ me'.pos = p + 1
        /\ queue' = [queue EXCEPT ![l][p] = @ \o buffered[p]]
        /\ UNCHANGED <<mLinks, manager, buffered, joined, log>> /\ l \in Links \ Range(manager) /\ p \in Nat
    BY Zenon DEF Fills, Members, Calling, Threads, Calls, me
  <1>2. queue[l][p] = <<>> /\ buffered[p] \in Seq(Nat) /\ queue \in [Links \cup {Master} -> [Channels -> Seq(Nat)]]
    <2>1. ~(p < p)
      <3>1. p \in Nat
        BY Zenon, <1>1
      <3>. QED
        BY <3>1
    <2>2. /\ buffered \in [Channels -> Seq(Nat)] /\ queue \in [Links \cup {Master} -> [Channels -> Seq(Nat)]]
          /\ queue[l][p] = IF me.op = "add" /\ me.link = l /\ p < p THEN buffered[p] ELSE <<>>
      BY Zenon, <1>1 DEF Filled
    <2>. QED
      BY Zenon, <1>1, <2>1, <2>2
  <1>3. queue' = [queue EXCEPT ![l][p] = buffered[p]]
    <2>1. <<>> \o buffered[p] = buffered[p]
      <3>1. buffered[p] \in Seq(Nat)
        BY Zenon, <1>2
      <3>. QED
        BY <3>1
    <2>2. queue[l][p] \o buffered[p] = buffered[p]
      BY Zenon, <1>2, <2>1
    <2>. QED
      BY Zenon, <1>1, <2>2
  <1>a. \A x \in Links \ Range(manager), c \in Channels : queue[x][c] = IF x = l /\ c < p THEN buffered[c] ELSE <<>>
    BY Zenon, <1>1 DEF Filled
  <1>. HIDE DEF l, p
  <1>4. /\ queue' \in [Links \cup {Master} -> [Channels -> Seq(Nat)]]
        /\ queue'[l][p] = buffered[p]
        /\ \A x \in Links \cup {Master}, d \in Channels : x # l \/ d # p => queue'[x][d] = queue[x][d]
    <2>1. l \in Links \cup {Master} /\ p \in Channels /\ buffered[p] \in Seq(Nat)
      BY Zenon, <1>1, <1>2
    <2>2. queue \in [Links \cup {Master} -> [Channels -> Seq(Nat)]]
      BY Zenon, <1>2
    <2>. QED
      BY <1>3, <2>1, <2>2, OneQueue
  <1>5. \A k \in DOMAIN mLinks : mLinks[k] \in Links \cup {Master} /\ mLinks[k] # l
    <2>1. mLinks \in Seq(Links \cup {Master}) /\ l \notin Range(mLinks)
      BY Zenon, <1>1 DEF Members
    <2>. QED
      BY Zenon, <2>1, Places DEF Range
  <1>6. \A k \in DOMAIN mLinks, c \in Channels : queue'[mLinks[k]][c] = queue[mLinks[k]][c]
    BY Zenon, <1>4, <1>5
  <1>7. \A k : Given(me, log, k) = Len(log) /\ Given(me', log, k) = Len(log)
    <2>1. me.op # "send" /\ me'.op # "send"
      BY <1>1
    <2>. QED
      BY Zenon, <2>1 DEF Given
  <1>8. ASSUME NEW x \in Links \ Range(manager), NEW c \in Channels
        PROVE  queue'[x][c] = IF me'.op = "add" /\ me'.link = x /\ c < me'.pos THEN buffered[c] ELSE <<>>
    <2>1. queue[x][c] = IF x = l /\ c < p THEN buffered[c] ELSE <<>>
      BY <1>a
    <2>a. me'.op = "add" /\ me'.link = l /\ me'.pos = p + 1 /\ p \in Channels /\ p \in Nat
      BY Zenon, <1>1
    <2>2. CASE x = l /\ c = p
      <3>1. p < p + 1
        BY <2>a
      <3>. QED
        BY Zenon, <1>4, <2>a, <2>2, <3>1
    <2>3. CASE ~(x = l /\ c = p)
      <3>1. queue'[x][c] = queue[x][c]
        BY Zenon, <1>4, <2>3
      <3>2. x = l => (c < p + 1 <=> c < p)
        BY <2>a, <2>3 DEF Channels
      <3>. QED
        BY Zenon, <2>a, <2>1, <3>1, <3>2
    <2>. QED
      BY Zenon, <2>2, <2>3
  <1>9. \A k \in DOMAIN mLinks, c \in Channels :
          Holds(queue'[mLinks[k]][c], Share(log, joined[mLinks[k]], mLinks[k], c, Given(me', log, k)))
    BY Zenon, <1>6, <1>7 DEF Filled
  <1>10. \A k \in DOMAIN mLinks : joined[mLinks[k]] <= Given(me', log, k)
    BY Zenon, <1>7 DEF Filled
  <1>11. /\ log' = log /\ buffered' = buffered /\ joined' = joined /\ mLinks' = mLinks /\ manager' = manager
         /\ me'.op # "send"
    BY <1>1
  <1>. QED
    BY Zenon, <1>4, <1>8, <1>9, <1>10, <1>11 DEF Filled

\* addLink, the end: the link was given what is buffered.
LEMMA EntersFilled == ASSUME Calling, Passing, Members, Filled, Enters PROVE Filled'
  <1>. DEFINE l == me.link  n == Len(mLinks)
  <1>1. /\ me.op = "add" /\ me.pos > NumChannels /\ me'.op = "idle" /\ l \in Links \ Range(manager) /\ me.pos \in Nat
        /\ mLinks' = Append(mLinks, l) /\ manager' = Append(manager, l) /\ joined' = [joined EXCEPT ![l] = Len(log)]
        /\ UNCHANGED <<queue, buffered, log>> /\ mLinks \in Seq(Links \cup {Master}) /\ n \in Nat
        /\ manager \in Seq(Links \cup {Master})
    <2>1. mLinks \in Seq(Links \cup {Master}) /\ manager \in Seq(Links \cup {Master}) /\ me \in Calls
      BY Zenon DEF Members, Passing, Calling, Threads, me
    <2>2. me.pos \in Nat
      BY Zenon, <2>1 DEF Calls
    <2>3. n \in Nat
      BY Zenon, <2>1, Places
    <2>. QED
      BY Zenon, <2>1, <2>2, <2>3 DEF Enters, Members
  <1>2. \A c \in Channels : queue[l][c] = buffered[c]
    <2>a. me.pos \in Nat /\ me.pos > NumChannels /\ NumChannels \in Nat
      BY Zenon, <1>1, SessionAssumption
    <2>1. \A c \in Channels : c < me.pos
      BY <2>a DEF Channels
    <2>. QED
      BY Zenon, <1>1, <2>1 DEF Filled
  <1>a. Len(log) \in Nat /\ DOMAIN log = 1 .. Len(log)
    <2>1. log \in Seq(Messages)
      BY Zenon DEF Filled
    <2>. QED
      BY Zenon, <2>1, Places
  <1>b. \A x \in Links \ Range(manager), c \in Channels : x # l => queue[x][c] = <<>>
    BY Zenon, <1>1 DEF Filled
  <1>. HIDE DEF l
  <1>3. /\ DOMAIN mLinks' = 1 .. n + 1 /\ DOMAIN mLinks = 1 .. n
        /\ mLinks'[n + 1] = l /\ \A i \in 1 .. n : mLinks'[i] = mLinks[i]
    <2>1. mLinks \in Seq(Links \cup {Master}) /\ mLinks' = Append(mLinks, l) /\ l \in Links \cup {Master}
      BY Zenon, <1>1
    <2>2. DOMAIN mLinks = 1 .. n
      BY Zenon, <2>1, Places
    <2>. QED
      BY <2>1, <2>2
  <1>4. /\ joined' \in [Links \cup {Master} -> Nat] /\ joined'[l] = Len(log)
        /\ \A x \in Links \cup {Master} : x # l => joined'[x] = joined[x]
    BY Zenon, <1>1, <1>a DEF Filled
  <1>5. \A k : Given(me, log, k) = Len(log) /\ Given(me', log, k) = Len(log)
    BY <1>1 DEF Given
  <1>6. ASSUME NEW k \in 1 .. n + 1
        PROVE  /\ joined'[mLinks'[k]] <= Len(log)
               /\ \A c \in Channels : Holds(queue[mLinks'[k]][c], Share(log, joined'[mLinks'[k]], mLinks'[k], c, Len(log)))
    <2>1. CASE k \in 1 .. n
      <3>a. mLinks[k] \in Range(mLinks) /\ mLinks[k] \in Links \cup {Master}
        <4>1. mLinks \in Seq(Links \cup {Master}) /\ k \in DOMAIN mLinks
          BY <1>1, <1>3, <2>1
        <4>. QED
          BY <4>1 DEF Range
      <3>1. mLinks[k] # l /\ mLinks'[k] = mLinks[k]
        BY Zenon, <1>1, <1>3, <2>1, <3>a DEF Members
      <3>2. joined'[mLinks[k]] = joined[mLinks[k]]
        BY Zenon, <1>4, <3>1, <3>a
      <3>4. /\ joined[mLinks[k]] <= Len(log)
            /\ \A c \in Channels : Holds(queue[mLinks[k]][c], Share(log, joined[mLinks[k]], mLinks[k], c, Len(log)))
        BY Zenon, <1>3, <1>5, <2>1 DEF Filled
      <3>. QED
        BY Zenon, <3>1, <3>2, <3>4
    <2>2. CASE k = n + 1
      <3>1. mLinks'[k] = l /\ joined'[l] = Len(log)
        BY Zenon, <1>3, <1>4, <2>2
      <3>2. ASSUME NEW c \in Channels PROVE Holds(queue[l][c], Share(log, Len(log), l, c, Len(log)))
        <4>1. Holds(buffered[c], Waiting(log, c))
          BY Zenon DEF Filled
        <4>2. Share(log, Len(log), l, c, Len(log)) = Waiting(log, c)
          BY <1>a DEF Share, Waiting
        <4>. QED
          BY <1>2, <4>1, <4>2
      <3>3. Len(log) <= Len(log)
        BY <1>a
      <3>. QED
        BY Zenon, <3>1, <3>2, <3>3
    <2>3. k \in 1 .. n \/ k = n + 1
      <3>1. n \in Nat
        BY Zenon, <1>1
      <3>. HIDE DEF n
      <3>. QED
        BY <3>1
    <2>. QED
      BY Zenon, <2>1, <2>2, <2>3
  <1>7. Range(manager') = Range(manager) \cup {l}
    <2>1. /\ DOMAIN manager' = 1 .. Len(manager) + 1 /\ DOMAIN manager = 1 .. Len(manager) /\ Len(manager) \in Nat
          /\ manager'[Len(manager) + 1] = l /\ \A i \in 1 .. Len(manager) : manager'[i] = manager[i]
      <3>1. manager \in Seq(Links \cup {Master}) /\ manager' = Append(manager, l) /\ l \in Links \cup {Master}
        BY Zenon, <1>1
      <3>2. DOMAIN manager = 1 .. Len(manager) /\ Len(manager) \in Nat
        BY Zenon, <3>1, Places
      <3>. QED
        BY <3>1, <3>2
    <2>. QED
      BY <2>1 DEF Range
  <1>8. \A x \in Links \ Range(manager'), c \in Channels : queue[x][c] = <<>>
    BY Zenon, <1>7, <1>b
  <1>. HIDE DEF n
  <1>9. \A k \in DOMAIN mLinks', c \in Channels :
          Holds(queue[mLinks'[k]][c], Share(log, joined'[mLinks'[k]], mLinks'[k], c, Given(me', log, k)))
    BY Zenon, <1>3, <1>5, <1>6
  <1>10. \A k \in DOMAIN mLinks' : joined'[mLinks'[k]] <= Given(me', log, k)
    BY Zenon, <1>3, <1>5, <1>6
  <1>11. /\ log' \in Seq(Messages) /\ buffered' \in [Channels -> Seq(Nat)]
         /\ queue' \in [Links \cup {Master} -> [Channels -> Seq(Nat)]]
         /\ \A c \in Channels : Holds(buffered'[c], Waiting(log', c))
    BY Zenon, <1>1 DEF Filled
  <1>12. UNCHANGED <<log, queue>> /\ me'.op = "idle"
    BY <1>1
  <1>. QED
    BY Zenon, <1>4, <1>8, <1>9, <1>10, <1>11, <1>12 DEF Filled

\* sendReliable: a new message, buffered or not, and given to no link yet.
LEMMA SendsFilled == ASSUME Members, Filled, NEW m \in Messages, Sends(m) PROVE Filled'
  <1>. DEFINE n == Len(log)
  <1>1. /\ me.op \in {"idle", "callback"} /\ me'.op = "send" /\ me'.pos = 1 /\ me'.msg = n + 1 /\ log' = Append(log, m)
        /\ buffered' = IF m.buffer THEN [buffered EXCEPT ![m.channel] = Append(@, n + 1)] ELSE buffered
        /\ UNCHANGED <<mLinks, manager, queue, joined>>
    BY Zenon DEF Sends
  <1>2. n \in Nat /\ DOMAIN log = 1 .. n /\ log \in Seq(Messages) /\ m.channel \in Channels /\ m.buffer \in BOOLEAN
    <2>1. log \in Seq(Messages)
      BY Zenon DEF Filled
    <2>2. m.channel \in Channels /\ m.buffer \in BOOLEAN
      BY Zenon DEF Messages
    <2>. QED
      BY Zenon, <2>1, <2>2, Places
  <1>3. /\ log' \in Seq(Messages) /\ Len(log') = n + 1 /\ DOMAIN log' = 1 .. n + 1
        /\ log'[n + 1] = m /\ \A i \in 1 .. n : log'[i] = log[i]
    <2>1. log \in Seq(Messages) /\ log' = Append(log, m)
      BY Zenon, <1>1, <1>2
    <2>. QED
      BY <2>1
  <1>. HIDE DEF n
  <1>4. \A k \in DOMAIN mLinks : Given(me, log, k) = n /\ Given(me', log', k) = n
    <2>1. \A k \in DOMAIN mLinks : k >= 1
      BY DEF Members
    <2>2. \A k : Given(me, log, k) = n
      BY <1>1 DEF Given, n
    <2>3. \A k \in DOMAIN mLinks : Given(me', log', k) = (n + 1) - 1
      BY <1>1, <1>3, <2>1 DEF Given
    <2>. QED
      BY SMTT(30), <1>2, <2>2, <2>3
  <1>5. \A j, l, c : Share(log', j, l, c, n) = Share(log, j, l, c, n)
    BY Zenon, <1>3 DEF Share
  <1>6. ASSUME NEW k \in DOMAIN mLinks
        PROVE  /\ joined[mLinks[k]] <= Given(me', log', k)
               /\ \A c \in Channels : Holds(queue[mLinks[k]][c], Share(log', joined[mLinks[k]], mLinks[k], c, Given(me', log', k)))
    <2>1. /\ joined[mLinks[k]] <= n
          /\ \A c \in Channels : Holds(queue[mLinks[k]][c], Share(log, joined[mLinks[k]], mLinks[k], c, n))
      BY Zenon, <1>4 DEF Filled
    <2>. QED
      BY Zenon, <1>4, <1>5, <2>1
  <1>7. /\ buffered' \in [Channels -> Seq(Nat)]
        /\ \A c \in Channels : Holds(buffered'[c], Waiting(log', c))
    <2>1. \A c \in Channels : buffered[c] \in Seq(Nat) /\ Holds(buffered[c], Waiting(log, c))
      BY Zenon DEF Filled
    <2>2. \A c : Waiting(log', c) = IF m.channel = c /\ m.buffer THEN Waiting(log, c) \cup {n + 1} ELSE Waiting(log, c)
      <3>1. \A i : i \in 1 .. n + 1 <=> i \in 1 .. n \/ i = n + 1
        BY <1>2
      <3>2. n + 1 \notin 1 .. n
        BY <1>2
      <3>3. \A c, i : i \in Waiting(log, c) <=> i \in 1 .. n /\ log[i].channel = c /\ log[i].buffer
        BY Zenon, <1>2 DEF Waiting
      <3>4. \A c, i : i \in Waiting(log', c) <=> i \in 1 .. n + 1 /\ log'[i].channel = c /\ log'[i].buffer
        BY <1>3 DEF Waiting
      <3>5. \A c, i : i \in Waiting(log', c) <=> i \in Waiting(log, c) \/ (i = n + 1 /\ m.channel = c /\ m.buffer)
        BY SMTT(30), <1>3, <3>1, <3>2, <3>3, <3>4
      <3>. QED
        BY <3>5
    <2>3. \A c : \A x \in Waiting(log, c) : x < n + 1
      BY <1>2 DEF Waiting
    <2>4. CASE m.buffer
      <3>. DEFINE d == m.channel  t == Append(buffered[d], n + 1)
      <3>1. t \in Seq(Nat) /\ Holds(t, Waiting(log, d) \cup {n + 1})
        <4>1. buffered[d] \in Seq(Nat) /\ Holds(buffered[d], Waiting(log, d)) /\ n + 1 \in Nat
          BY <1>2, <2>1
        <4>. QED
          BY Zenon, <2>3, <4>1, HoldsNext
      <3>2. buffered' = [buffered EXCEPT ![d] = t] /\ buffered \in [Channels -> Seq(Nat)] /\ d \in Channels
        BY Zenon, <1>1, <1>2, <2>4 DEF Filled
      <3>. HIDE DEF d, t
      <3>3. /\ buffered' \in [Channels -> Seq(Nat)] /\ buffered'[d] = t
            /\ \A c \in Channels : c # d => buffered'[c] = buffered[c]
        BY Zenon, <3>1, <3>2
      <3>4. \A c : Waiting(log', c) = IF c = d THEN Waiting(log, c) \cup {n + 1} ELSE Waiting(log, c)
        BY <2>2, <2>4 DEF d
      <3>. QED
        BY Zenon, <2>1, <3>1, <3>3, <3>4
    <2>5. CASE ~m.buffer
      <3>1. buffered' = buffered /\ \A c \in Channels : Waiting(log', c) = Waiting(log, c)
        BY Zenon, <1>1, <2>2, <2>5
      <3>. QED
        BY Zenon, <2>1, <3>1 DEF Filled
    <2>. QED
      BY <1>2, <2>4, <2>5
  <1>8. \A l \in Links \ Range(manager), c \in Channels : queue[l][c] = <<>>
    BY Zenon, <1>1 DEF Filled
  <1>9. me'.msg = Len(log') /\ Len(log') > 0
    <2>1. n \in Nat /\ Len(log') = n + 1 /\ me'.msg = n + 1
      BY Zenon, <1>1, <1>2, <1>3
    <2>. QED
      BY <2>1
  <1>10. UNCHANGED <<mLinks, manager, queue, joined>> /\ me'.op = "send"
    BY Zenon, <1>1
  <1>11. queue \in [Links \cup {Master} -> [Channels -> Seq(Nat)]] /\ joined \in [Links \cup {Master} -> Nat]
    BY Zenon DEF Filled
  <1>. QED
    BY Zenon, <1>3, <1>6, <1>7, <1>8, <1>9, <1>10, <1>11 DEF Filled

\* forLink: the link at the place of the loop is given the message, unless it is excluded.
LEMMA GivesFilled == ASSUME Calling, Members, Filled, Gives PROVE Filled'
  <1>. DEFINE n == Len(log)  p == me.pos  l == mLinks[p]  m == log[n]
  <1>1. /\ me.op = "send" /\ p \in DOMAIN mLinks /\ me'.op = "send" /\ me'.pos = p + 1 /\ me'.msg = n /\ me.msg = n /\ n > 0
        /\ queue' = IF l = m.excl THEN queue ELSE [queue EXCEPT ![l][m.channel] = Append(@, n)]
        /\ UNCHANGED <<mLinks, manager, buffered, joined, log>>
    BY Zenon DEF Gives, Filled
  <1>2. n \in Nat /\ DOMAIN log = 1 .. n /\ log \in Seq(Messages) /\ mLinks \in Seq(Links \cup {Master})
    <2>1. log \in Seq(Messages) /\ mLinks \in Seq(Links \cup {Master})
      BY Zenon DEF Filled, Members
    <2>. QED
      BY Zenon, <2>1, Places
  <1>3. n \in 1 .. n /\ m \in Messages /\ m.channel \in Channels /\ l \in Links \cup {Master} /\ p \in Nat
    <2>1. n > 0 /\ p \in DOMAIN mLinks
      BY Zenon, <1>1
    <2>2. n \in 1 .. n /\ m \in Messages
      <3>1. n \in Nat /\ n > 0 /\ log \in Seq(Messages)
        BY Zenon, <1>2, <2>1
      <3>. QED
        BY <3>1
    <2>3. l \in Links \cup {Master} /\ p \in Nat
      BY Zenon, <1>2, <2>1, Places
    <2>. HIDE DEF m
    <2>4. m.channel \in Channels
      BY Zenon, <2>2 DEF Messages
    <2>. QED
      BY Zenon, <2>2, <2>3, <2>4
  <1>4. \A k \in DOMAIN mLinks : k # p => mLinks[k] # l
    BY Zenon, <1>1 DEF Members
  <1>5. /\ Given(me, log, p) = n - 1 /\ Given(me', log, p) = n
        /\ \A k \in DOMAIN mLinks : k # p => Given(me', log, k) = Given(me, log, k)
    <2>1. \A k \in DOMAIN mLinks : k \in Nat
      BY Zenon, <1>2, Places
    <2>2. p >= p /\ ~(p >= p + 1)
      BY SMTT(30), <1>3
    <2>a. me.op = "send" /\ me'.op = "send" /\ me'.pos = p + 1
      BY <1>1
    <2>3. ASSUME NEW k \in DOMAIN mLinks, k # p PROVE Given(me', log, k) = Given(me, log, k)
      <3>1. k >= p + 1 <=> k >= p
        BY <1>3, <2>1, <2>3
      <3>. QED
        BY Zenon, <2>a, <3>1 DEF Given
    <2>. QED
      BY <2>2, <2>3, <2>a DEF Given
  <1>6. joined[l] <= n - 1 /\ joined[l] \in Nat
    <2>1. joined[l] <= Given(me, log, p) /\ joined \in [Links \cup {Master} -> Nat]
      BY Zenon, <1>1 DEF Filled
    <2>. QED
      BY <1>3, <1>5, <2>1
  <1>. DEFINE B(c) == Share(log, joined[l], l, c, n - 1)  C(c) == Share(log, joined[l], l, c, n)
  <1>8. \A c : C(c) = IF m.channel = c /\ m.excl # l THEN B(c) \cup {n} ELSE B(c)
    <2>1. \A i : i \in 1 .. n <=> i \in 1 .. n - 1 \/ i = n
      BY <1>2, <1>3
    <2>2. ~(n <= joined[l]) /\ n \notin 1 .. n - 1
      BY <1>2, <1>6
    <2>. HIDE DEF l
    <2>3. \A c, i : i \in B(c) <=> i \in 1 .. n - 1 /\ log[i].channel = c /\ IF i <= joined[l] THEN log[i].buffer ELSE log[i].excl # l
      BY Zenon DEF Share
    <2>4. \A c, i : i \in C(c) <=> i \in 1 .. n /\ log[i].channel = c /\ IF i <= joined[l] THEN log[i].buffer ELSE log[i].excl # l
      BY Zenon DEF Share
    <2>. HIDE DEF B, C, n
    <2>5. \A c, i : i \in C(c) <=> i \in B(c) \/ (i = n /\ m.channel = c /\ m.excl # l)
      BY <2>1, <2>2, <2>3, <2>4
    <2>. QED
      BY <2>5
  <1>9. \A c \in Channels : queue[l][c] \in Seq(Nat) /\ Holds(queue[l][c], B(c))
    <2>1. \A c \in Channels : Holds(queue[mLinks[p]][c], Share(log, joined[mLinks[p]], mLinks[p], c, Given(me, log, p)))
      BY Zenon, <1>1 DEF Filled
    <2>. QED
      BY Zenon, <1>3, <1>5, <2>1 DEF Filled
  <1>10. \A c : \A x \in B(c) : x < n
    BY <1>2 DEF Share
  <1>. HIDE DEF B, C
  <1>11. /\ queue' \in [Links \cup {Master} -> [Channels -> Seq(Nat)]]
         /\ \A c \in Channels : Holds(queue'[l][c], C(c))
         /\ \A x \in Links \cup {Master}, c \in Channels : x # l => queue'[x][c] = queue[x][c]
    <2>0. queue \in [Links \cup {Master} -> [Channels -> Seq(Nat)]]
      BY Zenon DEF Filled
    <2>1. CASE l = m.excl
      <3>1. queue' = queue /\ \A c : C(c) = B(c)
        BY SMTT(30), <1>1, <1>8, <2>1
      <3>. QED
        BY Zenon, <1>9, <2>0, <3>1
    <2>2. CASE l # m.excl
      <3>. DEFINE d == m.channel  t == Append(queue[l][d], n)
      <3>1. t \in Seq(Nat) /\ Holds(t, B(d) \cup {n})
        BY Zenon, <1>2, <1>3, <1>9, <1>10, HoldsNext
      <3>2. queue' = [queue EXCEPT ![l][d] = t] /\ d \in Channels
        BY Zenon, <1>1, <1>3, <2>2
      <3>3. \A c : C(c) = IF c = d THEN B(c) \cup {n} ELSE B(c)
        BY <1>8, <2>2
      <3>. HIDE DEF d, t, l
      <3>4. /\ queue' \in [Links \cup {Master} -> [Channels -> Seq(Nat)]]
            /\ queue'[l][d] = t
            /\ \A x \in Links \cup {Master}, c \in Channels : x # l \/ c # d => queue'[x][c] = queue[x][c]
        BY <1>3, <2>0, <3>1, <3>2, OneQueue
      <3>5. \A c \in Channels : Holds(queue'[l][c], C(c))
        BY Zenon, <1>3, <1>9, <3>1, <3>3, <3>4
      <3>. QED
        BY <3>4, <3>5
    <2>. QED
      BY Zenon, <2>1, <2>2
  <1>12. ASSUME NEW k \in DOMAIN mLinks
         PROVE  /\ joined[mLinks[k]] <= Given(me', log, k)
                /\ \A c \in Channels : Holds(queue'[mLinks[k]][c], Share(log, joined[mLinks[k]], mLinks[k], c, Given(me', log, k)))
    <2>1. CASE k = p
      <3>0. joined[l] \in Nat /\ n \in Nat /\ joined[l] <= n - 1
        BY Zenon, <1>2, <1>6
      <3>. HIDE DEF n, l
      <3>1. joined[l] <= n
        BY <3>0
      <3>. USE DEF n, l
      <3>2. \A c \in Channels : Holds(queue'[l][c], Share(log, joined[l], l, c, n))
        BY Zenon, <1>11 DEF C
      <3>3. mLinks[k] = l /\ Given(me', log, k) = n
        BY Zenon, <1>5, <2>1
      <3>. HIDE DEF l, n
      <3>. QED
        BY Zenon, <3>1, <3>2, <3>3
    <2>2. CASE k # p
      <3>1. mLinks[k] \in Links \cup {Master} /\ mLinks[k] # l
        BY Zenon, <1>2, <1>4, <2>2, Places
      <3>2. (\A c \in Channels : queue'[mLinks[k]][c] = queue[mLinks[k]][c]) /\ Given(me', log, k) = Given(me, log, k)
        BY Zenon, <1>5, <1>11, <2>2, <3>1
      <3>. QED
        BY Zenon, <3>2 DEF Filled
    <2>. QED
      BY Zenon, <2>1, <2>2
  <1>14. \A x \in Links \ Range(manager), c \in Channels : queue'[x][c] = <<>>
    <2>1. l \in Range(manager)
      BY Zenon, <1>1 DEF Members, Range
    <2>2. \A x \in Links \ Range(manager), c \in Channels : queue[x][c] = <<>>
      BY Zenon, <1>1 DEF Filled
    <2>. HIDE DEF l
    <2>. QED
      BY Zenon, <1>11, <2>1, <2>2
  <1>15. /\ log' \in Seq(Messages) /\ buffered' \in [Channels -> Seq(Nat)] /\ joined' \in [Links \cup {Master} -> Nat]
         /\ \A c \in Channels : Holds(buffered'[c], Waiting(log', c))
    BY ZenonT(30), <1>1 DEF Filled
  <1>16. UNCHANGED <<mLinks, manager, joined, log>> /\ me'.op = "send" /\ me'.msg = Len(log) /\ Len(log) > 0
    BY <1>1
  <1>17. queue' \in [Links \cup {Master} -> [Channels -> Seq(Nat)]]
    BY Zenon, <1>11
  <1>. QED
    BY Zenon, <1>12, <1>14, <1>15, <1>16, <1>17 DEF Filled

\* Each kind of step keeps the queues of the members filled with what they are due.
LEMMA FilledStep == ASSUME Calling, Passing, Members, Members', Filled, Kind PROVE Filled'
  <1>1. CASE Rests \/ Turns \/ Notes \/ Tells \/ Adds
    <2>1. UNCHANGED <<log, buffered, queue, joined, mLinks, manager>>
      BY Zenon, <1>1 DEF Rests, Turns, Notes, Tells, Adds, Quietly, links
    <2>2. \/ me' = me
          \/ /\ me.op # "add" /\ (me.op = "send" => me.pos > Len(mLinks))
             /\ me'.op # "send" /\ (me'.op = "add" => me'.pos = 1)
      BY <1>1 DEF Rests, Turns, Notes, Tells, Adds
    <2>. QED
      BY ZenonT(30), <2>1, <2>2, RestFilled
  <1>2. CASE Fills
    BY Zenon, <1>2, FillsFilled
  <1>3. CASE Enters
    BY <1>3, EntersFilled
  <1>4. CASE Gives
    BY <1>4, GivesFilled
  <1>5. ASSUME NEW l \in Links \cup {Master}, Starts(l) \/ Opens(l) PROVE Filled'
    BY Zenon, <1>5, RestFilled DEF Starts, Opens
  <1>6. ASSUME NEW l \in Links \cup {Master}, Closes(l) PROVE Filled'
    BY Zenon, <1>6, ClosesFilled
  <1>7. ASSUME NEW m \in Messages, Sends(m) PROVE Filled'
    BY SMTT(30), <1>7, SendsFilled
  <1>8. ASSUME NEW x \in Listeners, Listens(x) \/ Unlistens(x) PROVE Filled'
    BY <1>8, RestFilled DEF Listens, Unlistens, links
  <1>9. ASSUME NEW l, Comes(l) PROVE Filled'
    <2>1. /\ l \in Links \cup {Master} /\ manager' = Append(manager, l)
          /\ UNCHANGED <<mLinks, log, buffered, queue, joined, me>>
      BY Zenon, <1>9 DEF Comes
    <2>2. Range(manager') = Range(manager) \cup {l}
      BY Zenon, <2>1, OneMore DEF Passing
    <2>3. \A x \in Links \ Range(manager') : x \in Links \ Range(manager)
      BY Zenon, <2>2
    <2>. QED
      BY Zenon, <2>1, <2>3 DEF Filled
  <1>. QED
    BY Zenon, <1>1, <1>2, <1>3, <1>4, <1>5, <1>6, <1>7, <1>8, <1>9 DEF Kind
----------------------------------------------------------------------------
\* The invariants of the session together.
Steady == InOrder /\ Passing /\ Calling /\ Members /\ Hearing /\ Filled

\* Without asynchronous callbacks the session is steady from the start, ...
LEMMA SteadyInit == ASSUME Init PROVE Steady
  <1>1. InOrder
    BY DEF Init, InOrder
  <1>2. App \in Threads /\ \A t \in Threads : call[t] = Idle
    BY Zenon DEF Init, Threads
  <1>3. Idle \in Calls /\ Idle.op = "idle" /\ {"op", "link", "pos"} \subseteq DOMAIN Idle
    BY Zenon DEF Idle, Calls, Ops
  <1>4. me = Idle
    BY <1>2 DEF me
  <1>5. Calling
    BY Zenon, <1>2, <1>3, <1>4 DEF Init, Calling
  <1>6. manager \in Seq(Links \cup {Master}) /\ Len(manager) > 0 /\ mLinks = manager
    BY DEF Init
  <1>7. Passing
    BY SMTT(30), <1>2, <1>3, <1>6 DEF Init, Passing
  <1>8. mLinks = <<Master>> /\ DOMAIN mLinks = {1} /\ mLinks[1] = Master /\ Range(mLinks) = {Master}
    BY DEF Init, Range
  <1>9. Members
    BY Zenon, <1>3, <1>4, <1>6, <1>8, SessionAssumption DEF Init, Members
  <1>10. Hearing
    BY <1>3, <1>4 DEF Init, Hearing
  <1>11. /\ log = <<>> /\ log \in Seq(Messages) /\ Len(log) = 0 /\ DOMAIN log = {}
         /\ buffered = [c \in Channels |-> <<>>] /\ joined = [l \in Links \cup {Master} |-> 0]
         /\ queue = [l \in Links \cup {Master} |-> [c \in Channels |-> <<>>]]
    BY DEF Init
  <1>12. Holds(<<>>, {})
    BY DEF Holds, Rising, Range
  <1>13. \A c : Waiting(log, c) = {}
    BY <1>11 DEF Waiting
  <1>14. \A j, l, c : Share(log, j, l, c, 0) = {}
    BY DEF Share
  <1>15. \A k : Given(me, log, k) = 0
    BY Zenon, <1>3, <1>4, <1>11 DEF Given
  <1>16. Filled
    <2>1. /\ buffered \in [Channels -> Seq(Nat)] /\ joined \in [Links \cup {Master} -> Nat]
          /\ queue \in [Links \cup {Master} -> [Channels -> Seq(Nat)]]
      BY <1>11
    <2>2. \A l \in Links \cup {Master} : joined[l] = 0 /\ \A c \in Channels : queue[l][c] = <<>> /\ buffered[c] = <<>>
      BY <1>11
    <2>3. \A k \in DOMAIN mLinks : mLinks[k] = Master /\ joined[mLinks[k]] <= Given(me, log, k)
      <3>1. DOMAIN mLinks = {1} /\ mLinks[1] = Master /\ joined[Master] = 0 /\ \A k : Given(me, log, k) = 0
        BY Zenon, <1>8, <1>15, <2>2
      <3>2. 0 <= 0
        OBVIOUS
      <3>. QED
        BY Zenon, <3>1, <3>2
    <2>4. \A k \in DOMAIN mLinks, c \in Channels :
            Holds(queue[mLinks[k]][c], Share(log, joined[mLinks[k]], mLinks[k], c, Given(me, log, k)))
      BY Zenon, <1>12, <1>14, <1>15, <2>2, <2>3
    <2>5. \A c \in Channels : Holds(buffered[c], Waiting(log, c))
      BY Zenon, <1>12, <1>13, <2>2
    <2>. QED
      BY Zenon, <1>3, <1>4, <1>11, <2>1, <2>2, <2>3, <2>4, <2>5 DEF Filled
  <1>. QED
    BY Zenon, <1>1, <1>5, <1>7, <1>9, <1>10, <1>16 DEF Steady

\* ... and stays so.
LEMMA SteadyStep == ASSUME ~Async, Steady, [Next]_vars PROVE Steady'
  <1>1. Calling' /\ Kind
    BY StepOfAKind DEF Steady
  <1>2. InOrder' /\ Passing'
    BY Zenon, OrderStep, PassingStep DEF Steady
  <1>3. Members'
    BY <1>1, MembersStep DEF Steady
  <1>. QED
    BY <1>1, <1>2, <1>3, HearingStep, FilledStep DEF Steady

\* Without asynchronous callbacks a link of the session is in m_Links, once, exactly as long as it
\* is connecting or connected, in the middle of every loop through the links too; a link that a
\* reception thread made has no session and never comes into m_Links, whatever becomes of it.
THEOREM MembersStayOpen == ASSUME ~Async PROVE Spec => []MembersAreOpen
  <1>1. Steady => MembersAreOpen
    <2>. SUFFICES ASSUME Steady, NEW l \in Links
                  PROVE  Cardinality({i \in DOMAIN mLinks : mLinks[i] = l}) =
                           IF st[l] \in {"Connecting", "Connected"} /\ l \notin orphans THEN 1 ELSE 0
      BY DEF MembersAreOpen
    <2>. DEFINE P == {i \in DOMAIN mLinks : mLinks[i] = l}
    <2>1. CASE st[l] \in {"Connecting", "Connected"} /\ l \notin orphans
      <3>1. PICK k \in DOMAIN mLinks : mLinks[k] = l
        BY <2>1 DEF Steady, Members, Range
      <3>2. P = {k}
        BY Zenon, <3>1 DEF Steady, Members
      <3>. QED
        BY Zenon, <2>1, <3>2, FS_Singleton
    <2>2. CASE ~(st[l] \in {"Connecting", "Connected"} /\ l \notin orphans)
      <3>1. P = {}
        BY SMTT(30), <2>2 DEF Steady, Members, Range
      <3>. QED
        BY Zenon, <2>2, <3>1, FS_EmptySet
    <2>. QED
      BY Zenon, <2>1, <2>2
  <1>. QED
    BY <1>1, SteadyInit, SteadyStep, PTL DEF Spec

\* Without asynchronous callbacks every member was given what was buffered before it came and
\* what was sent since: each once, in order, and nothing else.
THEOREM MembersMissNothing == ASSUME ~Async PROVE Spec => []MembersCaughtUp
  <1>1. Steady => MembersCaughtUp
    <2>. SUFFICES ASSUME Steady, me.op = "idle", NEW l \in Range(mLinks), NEW c \in Channels
                  PROVE  Rising(queue[l][c]) /\ Range(queue[l][c]) = {i \in DOMAIN log : Due(l, c, i)}
      BY Zenon DEF MembersCaughtUp, Quiet, Threads, me
    <2>1. PICK k \in DOMAIN mLinks : mLinks[k] = l
      BY Zenon DEF Range
    <2>2. Given(me, log, k) = Len(log) /\ DOMAIN log = 1 .. Len(log)
      <3>1. log \in Seq(Messages)
        BY Zenon DEF Steady, Filled
      <3>2. Given(me, log, k) = Len(log)
        BY Zenon DEF Given
      <3>. QED
        BY Zenon, <3>1, <3>2, Places
    <2>3. Holds(queue[l][c], Share(log, joined[l], l, c, Len(log)))
      <3>1. \A i \in DOMAIN mLinks, d \in Channels :
              Holds(queue[mLinks[i]][d], Share(log, joined[mLinks[i]], mLinks[i], d, Given(me, log, i)))
        BY Zenon DEF Steady, Filled
      <3>. QED
        BY Zenon, <2>1, <2>2, <3>1
    <2>4. Share(log, joined[l], l, c, Len(log)) = {i \in DOMAIN log : Due(l, c, i)}
      <3>1. DOMAIN log = 1 .. Len(log)
        BY Zenon, <2>2
      <3>. QED
        BY SMTT(30), <3>1 DEF Share, Due
    <2>. QED
      BY Zenon, <2>3, <2>4 DEF Holds
  <1>. QED
    BY <1>1, SteadyInit, SteadyStep, PTL DEF Spec

\* Without asynchronous callbacks a listener that was there when an event came up hears of it,
\* whatever is added meanwhile, unless one is removed in the middle of the event.
THEOREM ListenersAllHear == ASSUME ~Async PROVE Spec => []ListenersHear
  <1>1. Steady => ListenersHear
    <2>. SUFFICES ASSUME Steady, NEW t \in Threads, call[t].op = "note", call[t].pos > call[t].end
                  PROVE  call[t].must \subseteq call[t].told
      BY DEF ListenersHear
    <2>1. t = App
      BY Zenon DEF Steady, Passing
    <2>2. me.op = "note" /\ me.pos > me.end /\ me.pos \in Nat /\ me.end \in Nat
      BY Zenon, <2>1 DEF me, Steady, Calling, Calls
    <2>3. me.pos .. me.end = {}
      BY <2>2
    <2>4. me.must \subseteq me.told
      BY Zenon, <2>2, <2>3 DEF Steady, Hearing
    <2>. QED
      BY Zenon, <2>1, <2>4 DEF me
  <1>. QED
    BY <1>1, SteadyInit, SteadyStep, PTL DEF Spec
=============================================================================
