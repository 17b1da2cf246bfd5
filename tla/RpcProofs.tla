----------------------------- MODULE RpcProofs -----------------------------
(***************************************************************************)
(* Who owns the buffers of a remote procedure call, for any calls with any *)
(* arguments one after the other.                                          *)
(***************************************************************************)
EXTENDS Rpc, TLAPS

\* The buffer of each owner.
Buffers == [o \in Owners |-> Buffer(o)]

\* With buffers numbered below n: those that somebody owns are the live ones, each owned once.
Held(B, mem, n) ==
    /\ n \in Nat /\ n > 0 /\ B \in [Owners -> Nat]
    /\ \A o \in Owners : B[o] < n
    /\ mem = {B[o] : o \in Owners} \ {0}
    /\ \A o1, o2 \in Owners : (B[o1] = B[o2] /\ B[o1] # 0) => o1 = o2

\* What is owned, with what packet and event have at each stage of a call, and what is read.
Owning ==
    /\ Held(Buffers, live, next)
    /\ DOMAIN ser = Threads /\ (\A t \in Threads : ser[t].owns \in BOOLEAN) /\ ser["caller"].owns
    /\ stage \in {"idle", "write", "send", "wire"} => pack.buf = 0
    /\ stage \in {"idle", "write", "send", "wire", "handle"} => event.buf = 0
    /\ stage \in {"process", "read", "release"} => event.buf # 0
    /\ stage = "read" => ser[Processor].buf = event.buf
----------------------------------------------------------------------------
\* reserveN: an owner takes the next buffer and gives up its own, if it has one.
LEMMA Takes ==
    ASSUME NEW B, NEW mem, NEW n, Held(B, mem, n), NEW o \in Owners
    PROVE  Held([B EXCEPT ![o] = n], (mem \ {B[o]}) \cup {n}, n + 1)
<1> DEFINE C == [B EXCEPT ![o] = n]
<1>1. n \in Nat /\ n > 0 /\ B \in [Owners -> Nat] /\ \A p \in Owners : B[p] < n /\ B[p] \in Nat
  BY DEF Held
<1>2. C \in [Owners -> Nat] /\ C[o] = n /\ \A p \in Owners : p # o => C[p] = B[p]
  BY <1>1
<1> HIDE DEF C
<1>3. n + 1 \in Nat /\ n + 1 > 0 /\ n < n + 1 /\ n # 0 /\ \A p \in Owners : B[p] < n + 1 /\ B[p] # n
  BY <1>1
<1>4. \A p \in Owners : C[p] < n + 1
  BY Zenon, <1>2, <1>3
<1>5. (mem \ {B[o]}) \cup {n} = {C[p] : p \in Owners} \ {0}
  <2>1. mem = {B[p] : p \in Owners} \ {0} /\ \A p, q \in Owners : (B[p] = B[q] /\ B[p] # 0) => p = q
    BY Zenon DEF Held
  <2>2. ASSUME NEW x \in (mem \ {B[o]}) \cup {n} PROVE x \in {C[p] : p \in Owners} \ {0}
    <3>1. CASE x = n
      BY Zenon, <1>2, <1>3, <3>1
    <3>2. CASE x # n
      <4>1. PICK p \in Owners : x = B[p] /\ x # 0 /\ p # o
        BY Zenon, <2>1, <2>2, <3>2
      <4> QED
        BY Zenon, <1>2, <4>1
    <3> QED
      BY Zenon, <3>1, <3>2
  <2>3. ASSUME NEW x \in {C[p] : p \in Owners} \ {0} PROVE x \in (mem \ {B[o]}) \cup {n}
    <3>1. PICK p \in Owners : x = C[p] /\ x # 0
      BY Zenon, <2>3
    <3>2. CASE p = o
      BY Zenon, <1>2, <3>1, <3>2
    <3>3. CASE p # o
      <4>1. x = B[p] /\ x # 0
        BY Zenon, <1>2, <3>1, <3>3
      <4>2. B[p] # B[o]
        BY Zenon, <2>1, <3>3, <4>1
      <4> QED
        BY Zenon, <2>1, <4>1, <4>2
    <3> QED
      BY Zenon, <3>2, <3>3
  <2> QED
    BY Zenon, <2>2, <2>3
<1>6. ASSUME NEW p \in Owners, NEW q \in Owners, C[p] = C[q], C[p] # 0 PROVE p = q
  <2>1. (p # o => C[p] = B[p]) /\ (q # o => C[q] = B[q]) /\ C[o] = n
    BY Zenon, <1>2
  <2>2. (B[p] = B[q] /\ B[p] # 0 => p = q) /\ B[p] # n /\ B[q] # n
    BY Zenon, <1>3 DEF Held
  <2> QED
    BY Zenon, <1>6, <2>1, <2>2
<1> QED
  BY Zenon, <1>2, <1>3, <1>4, <1>5, <1>6 DEF Held, C

\* releaseN: an owner gives up its buffer.
LEMMA Drops ==
    ASSUME NEW B, NEW mem, NEW n, Held(B, mem, n), NEW o \in Owners
    PROVE  Held([B EXCEPT ![o] = 0], mem \ {B[o]}, n)
<1> DEFINE C == [B EXCEPT ![o] = 0]
<1>1. n \in Nat /\ n > 0 /\ B \in [Owners -> Nat] /\ \A p \in Owners : B[p] < n
  BY Zenon DEF Held
<1>2. C \in [Owners -> Nat] /\ C[o] = 0 /\ \A p \in Owners : p # o => C[p] = B[p]
  BY <1>1
<1> HIDE DEF C
<1>3. 0 < n
  BY <1>1
<1>4. \A p \in Owners : C[p] < n
  BY Zenon, <1>1, <1>2, <1>3
<1>5. mem \ {B[o]} = {C[p] : p \in Owners} \ {0}
  <2>1. mem = {B[p] : p \in Owners} \ {0} /\ \A p, q \in Owners : (B[p] = B[q] /\ B[p] # 0) => p = q
    BY Zenon DEF Held
  <2>2. ASSUME NEW x \in mem \ {B[o]} PROVE x \in {C[p] : p \in Owners} \ {0}
    <3>1. PICK p \in Owners : x = B[p] /\ x # 0 /\ p # o
      BY Zenon, <2>1, <2>2
    <3> QED
      BY Zenon, <1>2, <3>1
  <2>3. ASSUME NEW x \in {C[p] : p \in Owners} \ {0} PROVE x \in mem \ {B[o]}
    <3>1. PICK p \in Owners : x = C[p] /\ x # 0
      BY Zenon, <2>3
    <3>2. p # o /\ x = B[p]
      BY Zenon, <1>2, <3>1
    <3>3. B[p] # B[o]
      BY Zenon, <2>1, <3>1, <3>2
    <3> QED
      BY Zenon, <2>1, <3>1, <3>2, <3>3
  <2> QED
    BY Zenon, <2>2, <2>3
<1>6. ASSUME NEW p \in Owners, NEW q \in Owners, C[p] = C[q], C[p] # 0 PROVE p = q
  <2>1. (p # o => C[p] = B[p]) /\ (q # o => C[q] = B[q]) /\ C[o] = 0
    BY Zenon, <1>2
  <2>2. B[p] = B[q] /\ B[p] # 0 => p = q
    BY Zenon DEF Held
  <2> QED
    BY Zenon, <1>6, <2>1, <2>2
<1> QED
  BY Zenon, <1>1, <1>2, <1>4, <1>5, <1>6 DEF Held, C

\* What each owner has.
LEMMA BuffersAre ==
    /\ Buffers["packet"] = pack.buf /\ Buffers["event"] = event.buf /\ DOMAIN Buffers = Owners
    /\ \A t \in Threads : t \in Owners /\ Buffers[t] = IF ser[t].owns THEN ser[t].buf ELSE 0
    /\ "packet" \in Owners /\ "event" \in Owners
BY DEF Buffers, Buffer, Owners, Threads

\* What they have after a step, if none but owner o changes.
LEMMA BuffersThen ==
    ASSUME NEW o \in Owners, NEW b, Buffers'[o] = b, \A p \in Owners : p # o => Buffers'[p] = Buffers[p]
    PROVE  Buffers' = [Buffers EXCEPT ![o] = b]
BY DEF Buffers

\* The serializer of one thread changes, the buffer of one owner.
SetSerializer(t, s) == ser' = [ser EXCEPT ![t] = s]
SetBuffer(o, b)     == Buffers' = [Buffers EXCEPT ![o] = b]

\* If the one changes and neither packet nor event, so does the other.
LEMMA OneSerializer ==
    ASSUME DOMAIN ser = Threads, NEW t \in Threads, NEW s, SetSerializer(t, s), pack' = pack, event' = event
    PROVE  /\ DOMAIN ser' = Threads /\ ser'[t] = s /\ \A u \in Threads : u # t => ser'[u] = ser[u]
           /\ \A b : b = (IF s.owns THEN s.buf ELSE 0) => SetBuffer(t, b)
<1>1. DOMAIN ser' = Threads /\ ser'[t] = s /\ \A u \in Threads : u # t => ser'[u] = ser[u]
  BY Zenon DEF SetSerializer
<1>2. ASSUME NEW b, b = IF s.owns THEN s.buf ELSE 0 PROVE SetBuffer(t, b)
  <2>1. /\ Buffers'["packet"] = pack.buf /\ Buffers'["event"] = event.buf
        /\ \A u \in Threads : u \in Owners /\ Buffers'[u] = IF ser'[u].owns THEN ser'[u].buf ELSE 0
    <3>1. /\ Buffers'["packet"] = pack'.buf /\ Buffers'["event"] = event'.buf
          /\ \A u \in Threads : u \in Owners /\ Buffers'[u] = IF ser'[u].owns THEN ser'[u].buf ELSE 0
      BY DEF Buffers, Buffer, Owners, Threads
    <3> QED
      BY Zenon, <3>1
  <2>2. \A p \in Owners : p \in Threads \/ p = "packet" \/ p = "event"
    BY Zenon DEF Owners
  <2>3. \A p \in Owners : p # t => Buffers'[p] = Buffers[p]
    BY Zenon, <1>1, <2>1, <2>2, BuffersAre
  <2>4. Buffers'[t] = b /\ t \in Owners
    BY Zenon, <1>1, <1>2, <2>1
  <2> QED
    BY Zenon, <2>3, <2>4, BuffersThen DEF SetBuffer
<1> QED
  BY Zenon, <1>1, <1>2

\* reset: the buffer the serializer owned, if it owned one, is no longer live.
LEMMA Resets ==
    ASSUME Held(Buffers, live, next), NEW t \in Threads, ser[t].owns \in BOOLEAN
    PROVE  WithoutOwn(t) = live \ {Buffers[t]} /\ 0 \notin live
<1>1. 0 \notin live
  BY Zenon DEF Held
<1>2. Buffers[t] = IF ser[t].owns THEN ser[t].buf ELSE 0
  BY Zenon, BuffersAre
<1>3. CASE ser[t].owns
  BY Zenon, <1>1, <1>2, <1>3 DEF WithoutOwn, ReleaseN
<1>4. CASE ~ser[t].owns
  BY Zenon, <1>1, <1>2, <1>4 DEF WithoutOwn, ReleaseN
<1> QED
  BY Zenon, <1>1, <1>3, <1>4

\* reset and resetTo keep the buffers in order, if the new contents bring none of their own.
LEMMA ReplacedHeld ==
    ASSUME Owning, NEW t \in Threads, NEW s, s.owns \in BOOLEAN, s.owns => s.buf = 0,
           Replaced(t, s), UNCHANGED <<next, pack, event>>
    PROVE  /\ Held(Buffers', live', next')
           /\ DOMAIN ser' = Threads /\ ser'[t] = s /\ \A u \in Threads : ser'[u].owns \in BOOLEAN /\ (u # t => ser'[u] = ser[u])
<1>1. /\ Held(Buffers, live, next) /\ DOMAIN ser = Threads /\ \A u \in Threads : ser[u].owns \in BOOLEAN
      /\ SetSerializer(t, s) /\ live' = WithoutOwn(t)
  BY Zenon DEF Owning, Replaced, SetSerializer
<1>2. /\ DOMAIN ser' = Threads /\ ser'[t] = s /\ \A u \in Threads : ser'[u].owns \in BOOLEAN /\ (u # t => ser'[u] = ser[u])
      /\ SetBuffer(t, 0)
  <2>1. pack' = pack /\ event' = event
    OBVIOUS
  <2>2. /\ DOMAIN ser' = Threads /\ ser'[t] = s /\ \A u \in Threads : u # t => ser'[u] = ser[u]
        /\ \A b : b = (IF s.owns THEN s.buf ELSE 0) => SetBuffer(t, b)
    BY Zenon, <1>1, <2>1, OneSerializer
  <2>3. 0 = IF s.owns THEN s.buf ELSE 0
    BY Zenon
  <2> QED
    BY Zenon, <1>1, <2>2, <2>3
<1>4. Held([Buffers EXCEPT ![t] = 0], live \ {Buffers[t]}, next)
  BY Zenon, <1>1, Drops, BuffersAre
<1>5. live' = live \ {Buffers[t]}
  BY Zenon, <1>1, Resets
<1> QED
  BY Zenon, <1>2, <1>4, <1>5 DEF SetBuffer

\* growTo keeps them in order: the serializer that is written to is the thread's own or was reset.
LEMMA StoredHeld ==
    ASSUME Owning, NEW t \in Threads, NEW bs, NEW mem, NEW new, bs.owns, bs.owns \in BOOLEAN,
           \/ bs = ser[t] /\ mem = live
           \/ bs.buf = 0 /\ mem = WithoutOwn(t),
           Stored(t, bs, mem, new), UNCHANGED <<pack, event>>
    PROVE  /\ Held(Buffers', live', next')
           /\ DOMAIN ser' = Threads /\ ser'[t].owns /\ \A u \in Threads : ser'[u].owns \in BOOLEAN /\ (u # t => ser'[u] = ser[u])
<1> DEFINE b == IF new.max # bs.max THEN next ELSE bs.buf
           s == WithBytes(bs, new, b)
<1>1. /\ Held(Buffers, live, next) /\ DOMAIN ser = Threads /\ (\A u \in Threads : ser[u].owns \in BOOLEAN)
      /\ SetSerializer(t, s)
  BY Zenon DEF Owning, Stored, SetSerializer
<1>2. s.owns = bs.owns /\ s.buf = b
  BY DEF WithBytes
<1> HIDE DEF s
<1>3. /\ DOMAIN ser' = Threads /\ ser'[t] = s /\ \A u \in Threads : ser'[u].owns \in BOOLEAN /\ (u # t => ser'[u] = ser[u])
      /\ SetBuffer(t, b)
  <2> HIDE DEF b
  <2>1. pack' = pack /\ event' = event
    OBVIOUS
  <2>2. /\ DOMAIN ser' = Threads /\ ser'[t] = s /\ \A u \in Threads : u # t => ser'[u] = ser[u]
        /\ \A x : x = (IF s.owns THEN s.buf ELSE 0) => SetBuffer(t, x)
    BY Zenon, <1>1, <2>1, OneSerializer
  <2>3. b = (IF s.owns THEN s.buf ELSE 0) /\ s.owns \in BOOLEAN
    BY Zenon, <1>2
  <2> QED
    BY Zenon, <1>1, <2>2, <2>3
<1>4. 0 \notin live /\ WithoutOwn(t) = live \ {Buffers[t]} /\ t \in Owners
  BY Zenon, <1>1, Resets, BuffersAre
<1>5. CASE new.max # bs.max
  <2>1. live' = (mem \ {bs.buf}) \cup {next} /\ next' = next + 1 /\ b = next
    BY Zenon, <1>5 DEF Stored, ReserveN, ReleaseN
  <2>2. mem \ {bs.buf} = live \ {Buffers[t]}
    <3>1. CASE bs = ser[t] /\ mem = live
      <4>1. Buffers[t] = bs.buf
        BY Zenon, <3>1, BuffersAre
      <4> QED
        BY Zenon, <3>1, <4>1
    <3>2. CASE bs.buf = 0 /\ mem = WithoutOwn(t)
      BY Zenon, <1>4, <3>2
    <3> QED
      BY Zenon, <3>1, <3>2
  <2>3. Held([Buffers EXCEPT ![t] = next], (live \ {Buffers[t]}) \cup {next}, next + 1)
    BY Zenon, <1>1, <1>4, Takes
  <2> QED
    BY Zenon, <1>2, <1>3, <2>1, <2>2, <2>3 DEF SetBuffer
<1>6. CASE ~(new.max # bs.max)
  <2>1. live' = mem /\ next' = next /\ b = bs.buf
    BY Zenon, <1>6 DEF Stored
  <2>2. CASE bs = ser[t] /\ mem = live
    <3>1. Buffers[t] = bs.buf
      BY Zenon, <2>2, BuffersAre
    <3>2. [Buffers EXCEPT ![t] = Buffers[t]] = Buffers
      BY DEF Buffers
    <3>3. Buffers' = Buffers /\ live' = live
      BY Zenon, <1>3, <2>1, <2>2, <3>1, <3>2 DEF SetBuffer
    <3> QED
      BY Zenon, <1>1, <1>2, <1>3, <2>1, <3>3
  <2>3. CASE bs.buf = 0 /\ mem = WithoutOwn(t)
    <3>1. Held([Buffers EXCEPT ![t] = 0], live \ {Buffers[t]}, next)
      BY Zenon, <1>1, <1>4, Drops
    <3> QED
      BY Zenon, <1>2, <1>3, <1>4, <2>1, <2>3, <3>1 DEF SetBuffer
  <2> QED
    BY Zenon, <2>2, <2>3
<1> QED
  BY Zenon, <1>5, <1>6
\* Steps that touch no memory, neither packet nor event.
LEMMA SameHeld ==
    ASSUME Owning, UNCHANGED <<memory, pack, event>>
    PROVE  /\ Held(Buffers', live', next')
           /\ DOMAIN ser' = Threads /\ \A u \in Threads : ser'[u].owns \in BOOLEAN /\ ser'[u] = ser[u]
<1>1. ser' = ser /\ live' = live /\ next' = next /\ pack' = pack /\ event' = event
  BY Zenon DEF memory
<1>2. Buffers' = Buffers
  BY Zenon, <1>1 DEF Buffers, Buffer
<1> QED
  BY Zenon, <1>1, <1>2 DEF Owning

\* The invariant after a step, from what each lemma above says of the memory.
LEMMA OwningThen ==
    ASSUME Held(Buffers', live', next'), DOMAIN ser' = Threads, \A u \in Threads : ser'[u].owns \in BOOLEAN,
           ser'["caller"].owns,
           stage' \in {"idle", "write", "send", "wire"} => pack'.buf = 0,
           stage' \in {"idle", "write", "send", "wire", "handle"} => event'.buf = 0,
           stage' \in {"process", "read", "release"} => event'.buf # 0,
           stage' = "read" => ser'[Processor'].buf = event'.buf
    PROVE  Owning'
<1>1. Held(Buffers, live, next)'
  BY Zenon DEF Held
<1> QED
  BY Zenon, <1>1 DEF Owning

\* A handler's own call, if it makes one.
LEMMA InnerHeld ==
    ASSUME Owning, NEW t \in Threads, NEW c,
           IF c THEN InnerCall(t) ELSE UNCHANGED memory, UNCHANGED <<pack, event>>
    PROVE  /\ Held(Buffers', live', next')
           /\ DOMAIN ser' = Threads /\ \A u \in Threads : ser'[u].owns \in BOOLEAN /\ (u # t => ser'[u] = ser[u])
           /\ ser[t].owns => ser'[t].owns
<1>1. CASE c
  <2>1. Blank.owns /\ Blank.owns \in BOOLEAN /\ Blank.buf = 0
    BY DEF Blank
  <2>2. Stored(t, Blank, WithoutOwn(t), InnerWritten)
    BY Zenon, <1>1 DEF InnerCall
  <2>3. pack' = pack /\ event' = event
    OBVIOUS
  <2> QED
    BY Zenon, <2>1, <2>2, <2>3, StoredHeld
<1>2. CASE ~c
  <2>1. UNCHANGED <<memory, pack, event>>
    BY Zenon, <1>2
  <2> QED
    BY Zenon, <2>1, SameHeld
<1> QED
  BY Zenon, <1>1, <1>2
----------------------------------------------------------------------------
\* In the beginning nobody owns anything.
LEMMA OwningInit == RInit => Owning
<1> SUFFICES ASSUME RInit PROVE Owning
  OBVIOUS
<1>1. /\ ser = [t \in Threads |-> Blank] /\ live = {} /\ next = 1 /\ pack = NoPack /\ event = NoEvent
      /\ stage \in {"wire", "idle"}
  BY Zenon DEF RInit
<1>2. DOMAIN ser = Threads /\ \A t \in Threads : ser[t] = Blank
  BY Zenon, <1>1
<1>3. Blank.owns = TRUE /\ Blank.buf = 0 /\ pack.buf = 0 /\ event.buf = 0
  BY <1>1 DEF Blank, NoPack, NoEvent
<1>4. \A o \in Owners : Buffer(o) = 0
  <2>1. \A o \in Owners : o \in Threads \/ o = "packet" \/ o = "event"
    BY Zenon DEF Owners
  <2>2. \A t \in Threads : ser[t].buf = 0
    BY Zenon, <1>2, <1>3
  <2> QED
    BY Zenon, <1>3, <2>1, <2>2 DEF Buffer
<1>5. Held(Buffers, live, next)
  <2>1. \A o \in Owners : Buffers[o] = 0
    BY Zenon, <1>4 DEF Buffers
  <2>2. Buffers \in [Owners -> Nat]
    BY <1>4 DEF Buffers
  <2>3. 0 < 1 /\ 1 \in Nat /\ 1 > 0
    OBVIOUS
  <2>4. {} = {Buffers[o] : o \in Owners} \ {0}
    BY Zenon, <2>1
  <2> QED
    BY Zenon, <1>1, <2>1, <2>2, <2>3, <2>4 DEF Held
<1>6. stage # "process" /\ stage # "read" /\ stage # "release" /\ "caller" \in Threads
  BY <1>1 DEF Threads
<1> QED
  BY Zenon, <1>2, <1>3, <1>5, <1>6 DEF Owning

\* callRpc resets the serializer of the calling thread.
LEMMA CallOwning == ASSUME Owning, NEW c, CallRpc(c) PROVE Owning'
<1>1. /\ stage = "idle" /\ stage' = "write" /\ pack' = pack /\ event' = event /\ next' = next
      /\ Replaced("caller", Blank)
  BY Zenon DEF CallRpc
<1>2. Blank.owns /\ Blank.owns \in BOOLEAN /\ Blank.buf = 0 /\ "caller" \in Threads
  BY DEF Blank, Threads
<1>3. /\ Held(Buffers', live', next') /\ DOMAIN ser' = Threads /\ ser'["caller"].owns
      /\ \A u \in Threads : ser'[u].owns \in BOOLEAN
  <2>1. UNCHANGED <<next, pack, event>>
    BY Zenon, <1>1
  <2>2. /\ Held(Buffers', live', next')
        /\ DOMAIN ser' = Threads /\ ser'["caller"] = Blank
        /\ \A u \in Threads : ser'[u].owns \in BOOLEAN /\ (u # "caller" => ser'[u] = ser[u])
    <3>1. Blank.owns \in BOOLEAN /\ (Blank.owns => Blank.buf = 0) /\ "caller" \in Threads
      BY Zenon, <1>2
    <3> QED
      BY SMTT(30), <1>1, <3>1, ReplacedHeld
  <2> QED
    BY Zenon, <1>2, <2>2
<1>4. pack'.buf = 0 /\ event'.buf = 0
  BY Zenon, <1>1 DEF Owning
<1>5. stage' \notin {"process", "read", "release"} /\ stage' # "read"
  BY <1>1
<1> QED
  BY Zenon, <1>3, <1>4, <1>5, OwningThen

\* An argument is written, with growTo if there is no room.
LEMMA WriteOwning == ASSUME Owning, WriteNext PROVE Owning'
<1>1. PICK new : Stored("caller", ser["caller"], live, new)
  BY Zenon DEF WriteNext
<1>2. stage = "write" /\ pack' = pack /\ event' = event /\ stage' \in {"down", "write"}
  BY Zenon DEF WriteNext
<1>3. "caller" \in Threads /\ ser["caller"].owns /\ ser["caller"].owns \in BOOLEAN
  BY Zenon DEF Owning, Threads
<1>4. /\ Held(Buffers', live', next') /\ DOMAIN ser' = Threads /\ ser'["caller"].owns
      /\ \A u \in Threads : ser'[u].owns \in BOOLEAN
  BY Zenon, <1>1, <1>2, <1>3, StoredHeld
<1>5. pack'.buf = 0 /\ event'.buf = 0
  BY Zenon, <1>2 DEF Owning
<1>6. stage' \notin {"process", "read", "release"} /\ stage' # "read"
  BY <1>2
<1> QED
  BY Zenon, <1>4, <1>5, <1>6, OwningThen

\* A handler that is called on the spot may take the serializer of the caller for its own call.
LEMMA LocalOwning == ASSUME Owning, LocalCall PROVE Owning'
<1>1. /\ stage = "write" /\ stage' = "send" /\ pack' = pack /\ event' = event
      /\ IF call.nested THEN InnerCall("caller") ELSE UNCHANGED memory
  BY Zenon DEF LocalCall
<1>2. "caller" \in Threads /\ ser["caller"].owns
  BY Zenon DEF Owning, Threads
<1>3. /\ Held(Buffers', live', next') /\ DOMAIN ser' = Threads /\ ser'["caller"].owns
      /\ \A u \in Threads : ser'[u].owns \in BOOLEAN
  BY Zenon, <1>1, <1>2, InnerHeld
<1>4. pack'.buf = 0 /\ event'.buf = 0
  BY Zenon, <1>1 DEF Owning
<1>5. stage' \notin {"process", "read", "release"} /\ stage' # "read"
  BY <1>1
<1> QED
  BY Zenon, <1>3, <1>4, <1>5, OwningThen

\* priv_send_rpc, the loops of createNormalPacket and a packet without a handler.
LEMMA WireOwning ==
    ASSUME Owning, UNCHANGED <<memory, pack, event>>,
           stage \in {"write", "send", "wire"}, stage' \in {"wire", "idle"}
    PROVE  Owning'
<1>1. "caller" \in Threads /\ ser["caller"].owns
  BY Zenon DEF Owning, Threads
<1>2. /\ Held(Buffers', live', next') /\ DOMAIN ser' = Threads /\ ser'["caller"].owns
      /\ \A u \in Threads : ser'[u].owns \in BOOLEAN
  BY Zenon, <1>1, SameHeld
<1>3. pack'.buf = 0 /\ event'.buf = 0
  BY Zenon DEF Owning
<1>4. stage' \notin {"process", "read", "release"} /\ stage' # "read"
  OBVIOUS
<1> QED
  BY Zenon, <1>2, <1>3, <1>4, OwningThen

\* priv_send_rpc and createNormalPacket copy from the serializer and leave it as it is.
LEMMA SendOwning == ASSUME Owning, SendRpc \/ Cut PROVE Owning'
<1>1. UNCHANGED <<memory, pack, event>> /\ stage \in {"write", "send", "wire"} /\ stage' \in {"wire", "idle"}
  <2>1. CASE SendRpc
    BY Zenon, <2>1 DEF SendRpc
  <2>2. CASE Cut
    BY Zenon, <2>2 DEF Cut, rpcVars
  <2> QED
    BY Zenon, <2>1, <2>2
<1> QED
  BY Zenon, <1>1, WireOwning

\* Functions on the owners are told apart by what they give them.
LEMMA BuffersEqual ==
    ASSUME NEW B, B \in [Owners -> Nat], \A o \in Owners : Buffers'[o] = B[o]
    PROVE  Buffers' = B
BY DEF Buffers

\* What each owner has after a step.
LEMMA BuffersNext ==
    /\ Buffers'["packet"] = pack'.buf /\ Buffers'["event"] = event'.buf
    /\ \A t \in Threads : Buffers'[t] = IF ser'[t].owns THEN ser'[t].buf ELSE 0
BY DEF Buffers, Buffer, Owners, Threads

\* The packet that arrives has a new buffer.
LEMMA ArrivedOwning == ASSUME Owning, Arrived PROVE Owning'
<1>1. CASE call = NoCall
  <2>1. UNCHANGED <<memory, pack, event>> /\ stage = "wire" /\ stage' = "idle"
    BY Zenon, <1>1 DEF Arrived
  <2> QED
    BY Zenon, <2>1, WireOwning
<1>2. CASE call # NoCall
  <2>1. /\ stage = "wire" /\ stage' = "handle" /\ ser' = ser /\ event' = event
        /\ live' = live \cup {next} /\ next' = next + 1
    BY Zenon, <1>2 DEF Arrived, ReserveN
  <2>2. pack'.buf = next
    <3>1. PICK d : pack' = [buf |-> next, data |-> d]
      BY Zenon, <1>2 DEF Arrived
    <3> QED
      BY <3>1
  <2>3. /\ Held(Buffers, live, next) /\ pack.buf = 0 /\ event.buf = 0 /\ DOMAIN ser = Threads
        /\ (\A u \in Threads : ser[u].owns \in BOOLEAN) /\ ser["caller"].owns
    BY Zenon, <2>1 DEF Owning
  <2>4. Buffers["packet"] = 0 /\ "packet" \in Owners
    BY Zenon, <2>3, BuffersAre
  <2>5. (live \ {0}) = live
    BY Zenon, <2>3 DEF Held
  <2>6. Held([Buffers EXCEPT !["packet"] = next], (live \ {Buffers["packet"]}) \cup {next}, next + 1)
    BY Zenon, <2>3, <2>4, Takes
  <2>7. Buffers' = [Buffers EXCEPT !["packet"] = next]
    <3>1. Buffers'["packet"] = next
      BY Zenon, <2>2, BuffersNext
    <3>2. \A o \in Owners : o \in Threads \/ o = "packet" \/ o = "event"
      BY Zenon DEF Owners
    <3>3. \A o \in Owners : o # "packet" => Buffers'[o] = Buffers[o]
      BY Zenon, <2>1, <3>2, BuffersNext, BuffersAre
    <3> QED
      BY Zenon, <2>4, <3>1, <3>3, BuffersThen
  <2>8. Held(Buffers', live', next')
    BY Zenon, <2>1, <2>4, <2>5, <2>6, <2>7
  <2>9. stage' \notin {"idle", "write", "send", "wire"} /\ stage' \notin {"process", "read", "release"} /\ stage' # "read"
    BY <2>1
  <2> QED
    BY Zenon, <2>1, <2>3, <2>8, <2>9, OwningThen
<1> QED
  BY Zenon, <1>1, <1>2

\* handleRpc: the worker's serializer gives up its buffer and looks at the packet's, a known function
\* gets an event with a copy, and the packet goes unless the event is processed at once.
LEMMA HandleOwning == ASSUME Owning, HandleRpc PROVE Owning'
<1> DEFINE r     == ReadString(ResetTo(pack.data, pack.buf))
           known == r.ok /\ GetRpcFunc(r.val)
           keeps == known /\ async
           held  == IF keeps THEN WithoutOwn("worker") ELSE ReleaseN(WithoutOwn("worker"), pack.buf)
           s     == WithBytes(ResetTo(pack.data, pack.buf), r.bs, pack.buf)
<1>1. /\ stage = "handle" /\ ser' = [ser EXCEPT !["worker"] = s]
      /\ event' = IF known THEN [buf |-> next, data |-> pack.data, readPos |-> r.bs.read] ELSE NoEvent
      /\ live' = IF known THEN ReserveN(held, next) ELSE held
      /\ next' = IF known THEN next + 1 ELSE next
      /\ pack' = IF keeps THEN pack ELSE NoPack
      /\ stage' = IF ~r.ok THEN "down" ELSE IF known THEN "process" ELSE "idle"
  BY Zenon DEF HandleRpc
<1>2. s.owns = FALSE
  BY DEF WithBytes, ResetTo
<1> HIDE DEF s
<1>3. /\ Held(Buffers, live, next) /\ event.buf = 0 /\ DOMAIN ser = Threads
      /\ (\A u \in Threads : ser[u].owns \in BOOLEAN) /\ ser["caller"].owns
  BY Zenon, <1>1 DEF Owning
<1>4. "worker" \in Threads /\ "caller" \in Threads /\ "caller" # "worker" /\ "worker" \notin {"packet", "event"} /\ "packet" # "event"
  BY DEF Threads
<1>5. /\ DOMAIN ser' = Threads /\ ser'["worker"].owns = FALSE /\ \A u \in Threads : u # "worker" => ser'[u] = ser[u]
      /\ \A u \in Threads : ser'[u].owns \in BOOLEAN
  BY Zenon, <1>1, <1>2, <1>3, <1>4
<1>6. WithoutOwn("worker") = live \ {Buffers["worker"]} /\ 0 \notin live
  BY Zenon, <1>3, <1>4, Resets
<1> DEFINE B1 == [Buffers EXCEPT !["worker"] = 0]
           B2 == [B1 EXCEPT !["packet"] = 0]
           B3 == IF keeps THEN B1 ELSE B2
<1>7. DOMAIN Buffers = Owners /\ "worker" \in Owners /\ "packet" \in Owners /\ "event" \in Owners
  BY Zenon, <1>4, BuffersAre
<1>8. Held(B1, WithoutOwn("worker"), next)
  <2>1. Held([Buffers EXCEPT !["worker"] = 0], live \ {Buffers["worker"]}, next)
    BY Zenon, <1>3, <1>7, Drops
  <2> QED
    BY Zenon, <1>6, <2>1
<1>9. B1["packet"] = pack.buf /\ B1["event"] = 0 /\ B1["worker"] = 0 /\ DOMAIN B1 = Owners
      /\ \A u \in Threads : u # "worker" => B1[u] = Buffers[u]
  <2>1. Buffers["packet"] = pack.buf /\ Buffers["event"] = 0 /\ \A u \in Threads : u \in Owners
    BY Zenon, <1>3, BuffersAre
  <2> QED
    BY Zenon, <1>4, <1>7, <2>1
<1> HIDE DEF B1
<1>10. Held(B2, WithoutOwn("worker") \ {pack.buf}, next)
  BY Zenon, <1>7, <1>8, <1>9, Drops
<1>11. B2["packet"] = 0 /\ B2["event"] = 0 /\ B2["worker"] = 0 /\ DOMAIN B2 = Owners
       /\ \A u \in Threads : u # "worker" => B2[u] = Buffers[u]
  <2>1. \A u \in Threads : u # "packet" /\ u \in Owners
    BY DEF Threads, Owners
  <2> QED
    BY Zenon, <1>4, <1>7, <1>9, <2>1
<1> HIDE DEF B2
<1>12. pack'.buf = IF keeps THEN pack.buf ELSE 0
  <2>1. NoPack.buf = 0
    BY DEF NoPack
  <2>2. pack' = IF keeps THEN pack ELSE NoPack
    BY Zenon, <1>1
  <2> HIDE DEF keeps
  <2> QED
    BY Zenon, <2>1, <2>2
<1>13. /\ Held(B3, held, next) /\ B3["packet"] = pack'.buf /\ B3["event"] = 0 /\ B3["worker"] = 0 /\ DOMAIN B3 = Owners
       /\ \A u \in Threads : u # "worker" => B3[u] = Buffers[u]
  <2> HIDE DEF keeps
  <2>1. CASE keeps
    BY Zenon, <1>8, <1>9, <1>12, <2>1
  <2>2. CASE ~keeps
    BY Zenon, <1>10, <1>11, <1>12, <2>2 DEF ReleaseN
  <2> QED
    BY Zenon, <2>1, <2>2
<1>14. /\ Buffers'["packet"] = pack'.buf /\ Buffers'["event"] = event'.buf /\ Buffers'["worker"] = 0
       /\ \A u \in Threads : u # "worker" => Buffers'[u] = Buffers[u]
  BY Zenon, <1>4, <1>5, BuffersNext, BuffersAre
<1> HIDE DEF B3, held
<1>15. \A o \in Owners : o \in Threads \/ o = "packet" \/ o = "event"
  BY Zenon DEF Owners
<1>16. CASE known
  <2> HIDE DEF known
  <2>1. event' = [buf |-> next, data |-> pack.data, readPos |-> r.bs.read] /\ live' = held \cup {next} /\ next' = next + 1
    BY Zenon, <1>1, <1>16 DEF ReserveN
  <2>2. event'.buf = next
    BY <2>1
  <2>3. held \ {0} = held /\ next # 0 /\ B3 \in [Owners -> Nat]
    <3>1. next \in Nat /\ next > 0
      BY Zenon, <1>13 DEF Held
    <3>2. next # 0
      BY <3>1
    <3> QED
      BY Zenon, <1>13, <3>2 DEF Held
  <2>4. Held([B3 EXCEPT !["event"] = next], (held \ {B3["event"]}) \cup {next}, next + 1)
    BY Zenon, <1>7, <1>13, Takes
  <2> DEFINE B4 == [B3 EXCEPT !["event"] = next]
  <2>5. B4["event"] = next /\ \A o \in Owners : o # "event" => B4[o] = B3[o]
    BY Zenon, <1>7, <1>13
  <2>6. B4 \in [Owners -> Nat]
    BY Zenon, <2>4 DEF Held
  <2> HIDE DEF B4
  <2>7. \A o \in Owners : Buffers'[o] = B4[o]
    BY Zenon, <1>4, <1>7, <1>13, <1>14, <1>15, <2>2, <2>5
  <2>8. Buffers' = B4
    BY Zenon, <2>6, <2>7, BuffersEqual
  <2>9. Held(Buffers', live', next')
    BY Zenon, <1>13, <2>1, <2>3, <2>4, <2>8 DEF B4
  <2>10. stage' = "down" \/ stage' = "process"
    BY Zenon, <1>1, <1>16
  <2>11. /\ stage' \notin {"idle", "write", "send", "wire"} /\ stage' \notin {"idle", "write", "send", "wire", "handle"}
         /\ stage' # "read"
    BY <2>10
  <2> QED
    BY Zenon, <1>3, <1>4, <1>5, <2>2, <2>3, <2>9, <2>11, OwningThen
<1>17. CASE ~known
  <2>1. ~keeps
    BY Zenon, <1>17
  <2> HIDE DEF known, keeps
  <2>2. event' = NoEvent /\ live' = held /\ next' = next /\ pack'.buf = 0
    BY Zenon, <1>1, <1>12, <1>17, <2>1
  <2>3. event'.buf = 0
    BY <2>2 DEF NoEvent
  <2>4. \A o \in Owners : Buffers'[o] = B3[o]
    BY Zenon, <1>4, <1>13, <1>14, <1>15, <2>3
  <2>5. B3 \in [Owners -> Nat]
    BY Zenon, <1>13 DEF Held
  <2>6. Buffers' = B3
    BY Zenon, <2>4, <2>5, BuffersEqual
  <2>7. stage' = "down" \/ stage' = "idle"
    BY Zenon, <1>1, <1>17
  <2>8. stage' \notin {"process", "read", "release"} /\ stage' # "read"
    BY <2>7
  <2> QED
    BY Zenon, <1>3, <1>4, <1>5, <1>13, <2>2, <2>3, <2>6, <2>8, OwningThen
<1> QED
  BY Zenon, <1>16, <1>17

\* The thread that processes an event is never the caller.
LEMMA Processes == Processor \in Threads /\ Processor # "caller" /\ "caller" \in Threads
BY DEF Processor, Threads

\* EventRpc::process: the serializer looks at the event's buffer.
LEMMA ProcessOwning == ASSUME Owning, ProcessEvent PROVE Owning'
<1> DEFINE s == SetRead(ResetTo(event.data, event.buf), event.readPos)
<1>1. /\ stage = "process" /\ stage' = "read" /\ pack' = pack /\ event' = event /\ next' = next /\ async' = async
      /\ Replaced(Processor, s)
  BY Zenon DEF ProcessEvent
<1>2. s.owns = FALSE /\ s.buf = event.buf
  BY DEF SetRead, ResetTo
<1> HIDE DEF s
<1>3. /\ Held(Buffers', live', next')
      /\ DOMAIN ser' = Threads /\ ser'[Processor] = s
      /\ \A u \in Threads : ser'[u].owns \in BOOLEAN /\ (u # Processor => ser'[u] = ser[u])
  <2>1. s.owns \in BOOLEAN /\ (s.owns => s.buf = 0) /\ Processor \in Threads
    BY Zenon, <1>2, Processes
  <2> QED
    BY SMTT(30), <1>1, <2>1, ReplacedHeld
<1>4. event'.buf # 0 /\ ser["caller"].owns
  BY Zenon, <1>1 DEF Owning
<1>5. Processor' = Processor
  BY Zenon, <1>1 DEF Processor
<1>6. ser'["caller"].owns /\ ser'[Processor'].buf = event'.buf
  BY Zenon, <1>1, <1>2, <1>3, <1>4, <1>5, Processes
<1>7. stage' \notin {"idle", "write", "send", "wire"} /\ stage' \notin {"idle", "write", "send", "wire", "handle"}
  BY <1>1
<1> QED
  BY Zenon, <1>3, <1>4, <1>6, <1>7, OwningThen

\* Reading moves a cursor.
LEMMA ReadOwning == ASSUME Owning, ReadNext PROVE Owning'
<1> DEFINE r == ReadArg(ser[Processor], call.args[arg].type)
           s == WithBytes(ser[Processor], r.bs, ser[Processor].buf)
<1>1. /\ stage = "read" /\ stage' \in {"down", "read"} /\ pack' = pack /\ event' = event /\ async' = async
      /\ live' = live /\ next' = next /\ ser' = [ser EXCEPT ![Processor] = s]
  BY Zenon DEF ReadNext
<1>2. s.owns = ser[Processor].owns /\ s.buf = ser[Processor].buf
  BY DEF WithBytes
<1> HIDE DEF s
<1>3. /\ Held(Buffers, live, next) /\ event.buf # 0 /\ DOMAIN ser = Threads /\ ser[Processor].buf = event.buf
      /\ (\A u \in Threads : ser[u].owns \in BOOLEAN) /\ ser["caller"].owns
  BY Zenon, <1>1 DEF Owning
<1>4. /\ DOMAIN ser' = Threads /\ ser'[Processor] = s
      /\ \A u \in Threads : ser'[u].owns = ser[u].owns /\ ser'[u].buf = ser[u].buf
  BY Zenon, <1>1, <1>2, <1>3, Processes
<1>5. Buffers' = Buffers
  <2>1. \A o \in Owners : o \in Threads \/ o = "packet" \/ o = "event"
    BY Zenon DEF Owners
  <2>2. \A o \in Owners : Buffers'[o] = Buffers[o]
    <3>1. ASSUME NEW t \in Threads PROVE Buffers'[t] = Buffers[t]
      <4>1. ser'[t].owns = ser[t].owns /\ ser'[t].buf = ser[t].buf
        BY Zenon, <1>4
      <4>2. Buffers'[t] = (IF ser'[t].owns THEN ser'[t].buf ELSE 0) /\ Buffers[t] = IF ser[t].owns THEN ser[t].buf ELSE 0
        BY Zenon, BuffersNext, BuffersAre
      <4> QED
        BY SMT, <4>1, <4>2
    <3> QED
      BY Zenon, <1>1, <2>1, <3>1, BuffersNext, BuffersAre
  <2>3. Buffers \in [Owners -> Nat]
    BY Zenon, <1>3 DEF Held
  <2> QED
    BY Zenon, <2>2, <2>3, BuffersEqual
<1>6. Held(Buffers', live', next')
  BY Zenon, <1>1, <1>3, <1>5
<1>7. Processor' = Processor
  BY Zenon, <1>1 DEF Processor
<1>8. /\ ser'["caller"].owns /\ ser'[Processor'].buf = event'.buf /\ event'.buf # 0
      /\ \A u \in Threads : ser'[u].owns \in BOOLEAN
  BY Zenon, <1>1, <1>3, <1>4, <1>7, Processes
<1>9. stage' \notin {"idle", "write", "send", "wire"} /\ stage' \notin {"idle", "write", "send", "wire", "handle"}
  BY <1>1
<1> QED
  BY Zenon, <1>4, <1>6, <1>8, <1>9, OwningThen

\* A handler's own call takes the serializer of the thread that processes the event.
LEMMA HandlerOwning == ASSUME Owning, Handler PROVE Owning'
<1>1. /\ stage = "read" /\ stage' = "release" /\ pack' = pack /\ event' = event
      /\ IF call.nested THEN InnerCall(Processor) ELSE UNCHANGED memory
  BY Zenon DEF Handler
<1>2. /\ Held(Buffers', live', next')
      /\ DOMAIN ser' = Threads /\ \A u \in Threads : ser'[u].owns \in BOOLEAN /\ (u # Processor => ser'[u] = ser[u])
  BY Zenon, <1>1, Processes, InnerHeld
<1>3. event'.buf # 0 /\ ser["caller"].owns
  BY Zenon, <1>1 DEF Owning
<1>4. ser'["caller"].owns
  BY Zenon, <1>2, <1>3, Processes
<1>5. /\ stage' \notin {"idle", "write", "send", "wire"} /\ stage' \notin {"idle", "write", "send", "wire", "handle"}
      /\ stage' # "read"
  BY <1>1
<1> QED
  BY Zenon, <1>2, <1>3, <1>4, <1>5, OwningThen

\* Event and packet release their buffers, which are two.
LEMMA ReleaseOwning == ASSUME Owning, Release PROVE Owning'
<1>1. /\ stage = "release" /\ stage' = "idle" /\ event' = NoEvent /\ pack' = NoPack /\ ser' = ser /\ next' = next
      /\ live' = (live \ {event.buf}) \ {pack.buf}
  BY Zenon DEF Release, ReleaseN
<1>2. pack'.buf = 0 /\ event'.buf = 0
  BY <1>1 DEF NoPack, NoEvent
<1>3. /\ Held(Buffers, live, next) /\ DOMAIN ser = Threads
      /\ (\A u \in Threads : ser[u].owns \in BOOLEAN) /\ ser["caller"].owns
  BY Zenon DEF Owning
<1>4. /\ Buffers["packet"] = pack.buf /\ Buffers["event"] = event.buf /\ DOMAIN Buffers = Owners
      /\ "packet" \in Owners /\ "event" \in Owners /\ "packet" # "event"
  BY Zenon, BuffersAre
<1> DEFINE B1 == [Buffers EXCEPT !["event"] = 0]
           B2 == [B1 EXCEPT !["packet"] = 0]
<1>5. Held(B1, live \ {event.buf}, next)
  <2>1. Held([Buffers EXCEPT !["event"] = 0], live \ {Buffers["event"]}, next)
    BY Zenon, <1>3, <1>4, Drops
  <2> QED
    BY Zenon, <1>4, <2>1
<1>6. B1["packet"] = pack.buf /\ B1["event"] = 0 /\ DOMAIN B1 = Owners /\ \A o \in Owners : o # "event" => B1[o] = Buffers[o]
  BY Zenon, <1>4
<1> HIDE DEF B1
<1>7. Held(B2, live', next')
  <2>1. Held([B1 EXCEPT !["packet"] = 0], (live \ {event.buf}) \ {B1["packet"]}, next)
    BY Zenon, <1>4, <1>5, Drops
  <2> QED
    BY Zenon, <1>1, <1>6, <2>1
<1>8. B2["packet"] = 0 /\ B2["event"] = 0 /\ \A o \in Owners : (o # "event" /\ o # "packet") => B2[o] = Buffers[o]
  BY Zenon, <1>4, <1>6
<1> HIDE DEF B2
<1>9. \A o \in Owners : Buffers'[o] = B2[o]
  <2>1. \A o \in Owners : o \in Threads \/ o = "packet" \/ o = "event"
    BY Zenon DEF Owners
  <2>2. Buffers'["packet"] = 0 /\ Buffers'["event"] = 0 /\ \A t \in Threads : Buffers'[t] = Buffers[t]
    BY Zenon, <1>1, <1>2, BuffersNext, BuffersAre
  <2>3. ASSUME NEW o \in Owners, o # "packet", o # "event" PROVE Buffers'[o] = B2[o]
    BY Zenon, <1>8, <2>1, <2>2, <2>3
  <2> QED
    BY Zenon, <1>8, <2>2, <2>3
<1>10. Buffers' = B2
  <2>1. B2 \in [Owners -> Nat]
    BY Zenon, <1>7 DEF Held
  <2> QED
    BY Zenon, <1>9, <2>1, BuffersEqual
<1>11. stage' \notin {"process", "read", "release"} /\ stage' # "read"
  BY <1>1
<1> QED
  BY Zenon, <1>1, <1>2, <1>3, <1>7, <1>10, <1>11, OwningThen

\* Every step, and a step of somebody else.
LEMMA OwningNext == Owning /\ [RNext]_allVars => Owning'
<1> SUFFICES ASSUME Owning, [RNext]_allVars PROVE Owning'
  OBVIOUS
<1>1. CASE \E c \in Calls : CallRpc(c)
  BY Zenon, <1>1, CallOwning
<1>2. CASE WriteNext \/ LocalCall
  BY Zenon, <1>2, WriteOwning, LocalOwning
<1>3. CASE SendRpc \/ Cut
  BY Zenon, <1>3, SendOwning
<1>4. CASE Arrived \/ HandleRpc
  BY Zenon, <1>4, ArrivedOwning, HandleOwning
<1>5. CASE ProcessEvent \/ ReadNext
  BY Zenon, <1>5, ProcessOwning, ReadOwning
<1>6. CASE Handler \/ Release
  BY Zenon, <1>6, HandlerOwning, ReleaseOwning
<1>7. CASE UNCHANGED allVars
  <2>1. UNCHANGED <<memory, pack, event>> /\ stage' = stage /\ async' = async
    BY Zenon, <1>7 DEF allVars, rpcVars
  <2>2. /\ Held(Buffers', live', next')
        /\ DOMAIN ser' = Threads /\ \A u \in Threads : ser'[u].owns \in BOOLEAN /\ ser'[u] = ser[u]
    BY Zenon, <2>1, SameHeld
  <2>3. Processor' = Processor
    BY Zenon, <2>1 DEF Processor
  <2>4. ser'["caller"].owns /\ ser'[Processor'] = ser[Processor]
    BY Zenon, <2>2, <2>3, Processes DEF Owning
  <2> QED
    BY Zenon, <2>1, <2>2, <2>4, OwningThen DEF Owning
<1> QED
  BY Zenon, <1>1, <1>2, <1>3, <1>4, <1>5, <1>6, <1>7 DEF RNext

\* Owned as the invariant says.
LEMMA OwningBuffers == Owning => BuffersOwned
<1> SUFFICES ASSUME Owning PROVE BuffersOwned
  OBVIOUS
<1>1. \A o \in Owners : Buffers[o] = Buffer(o)
  BY Zenon DEF Buffers
<1>2. live = {Buffers[o] : o \in Owners} \ {0} /\ \A p, q \in Owners : (Buffers[p] = Buffers[q] /\ Buffers[p] # 0) => p = q
  BY Zenon DEF Owning, Held
<1>3. {Buffers[o] : o \in Owners} = {Buffer(o) : o \in Owners}
  BY Zenon, <1>1
<1>4. ASSUME stage = "read" PROVE ser[Processor].buf \in live
  <2>1. event.buf # 0 /\ ser[Processor].buf = event.buf /\ Buffers["event"] = event.buf /\ "event" \in Owners
    BY Zenon, <1>4, BuffersAre DEF Owning
  <2> QED
    BY Zenon, <1>2, <2>1
<1> QED
  BY Zenon, <1>1, <1>2, <1>3, <1>4 DEF BuffersOwned

\* From callRpc to the release of packet and event, over any calls with any arguments, on one worker
\* or with a thread of the application: every buffer has one owner and everything owned is alive, so
\* that nothing leaks and nothing is released twice, and what a handler's arguments are read from is
\* alive (BinSerializer's reset and growTo, the copy made for an event, handlePacket).
THEOREM BuffersAlwaysOwned == RSpec => []BuffersOwned
<1>1. RSpec => []Owning
  BY OwningInit, OwningNext, PTL DEF RSpec
<1> QED
  BY <1>1, OwningBuffers, PTL
=============================================================================
