-------------------------------- MODULE Rpc --------------------------------
(***************************************************************************)
(* A remote procedure call from callRpc to the handler: arguments are      *)
(* written to the serializer of the calling thread, name and arguments cut *)
(* into fragments (PacketHelper), reassembled, copied into an event by a   *)
(* worker and read by the thread that processes it.                        *)
(*                                                                         *)
(* The serializer of a thread lives as long as the thread and is shared by *)
(* all that this thread does: what it owns, and what it still points to,   *)
(* is followed from call to call.  Buffers are numbered, 0 is null.        *)
(***************************************************************************)
EXTENDS PacketHelper, Serializer

CONSTANTS
    Calls,      \* [name, args, local, nested]; nested: the handler calls an RPC itself
    Names,      \* the functions that priv_get_rpc_func finds
    InnerArgs,  \* arguments of the RPC that a handler calls
    MaxCalls    \* bound on the calls made one after the other

Threads == {"caller", "worker", "app"}

VARIABLES
    async,      \* whether events are processed by the worker that pushes them
    call,       \* the call under way
    calls,      \* how many calls were made
    stage,      \* "idle", "write", "send", "wire", "handle", "process", "read", "release", "down"
    arg,        \* index of the next argument
    ser,        \* the serializer of each thread
    live,       \* buffers allocated and not released
    next,       \* number of the next buffer
    message,    \* the bytes given to createNormalPacket
    pack,       \* the RecvPacket: [buf, data]
    event,      \* the EventRpc: [buf, data, readPos]
    got         \* the arguments read

memory  == <<ser, live, next>>
rpcVars == <<async, call, calls, stage, arg, memory, message, pack, event, got>>
allVars == <<vars, rpcVars>>

NoCall  == [name |-> <<>>, args |-> <<>>, local |-> FALSE, nested |-> FALSE]
NoPack  == [buf |-> 0, data |-> <<>>]
NoEvent == [buf |-> 0, data |-> <<>>, readPos |-> 0]

\* Either sendReliable of the user's own serializers, or threads that call RPCs.
RInit ==
    /\ Init
    /\ async \in BOOLEAN
    /\ call = NoCall /\ arg = 0
    /\ \/ stage = "wire" /\ calls = MaxCalls
       \/ stage = "idle" /\ calls = 0 /\ ends = <<0>> /\ channel = 0 /\ ~relay
    /\ ser = [t \in Threads |-> Blank]
    /\ live = {} /\ next = 1
    /\ message = <<>> /\ pack = NoPack /\ event = NoEvent /\ got = <<>>
----------------------------------------------------------------------------
\* reserveN and releaseN, with the map in which Memory traces what is allocated.
ReserveN(mem, b) == mem \cup {b}
ReleaseN(mem, b) == mem \ {b}

\* reset() and resetTo() release what the serializer owned.
WithoutOwn(t) == IF ser[t].owns THEN ReleaseN(live, ser[t].buf) ELSE live
Replaced(t, new) == ser' = [ser EXCEPT ![t] = new] /\ live' = WithoutOwn(t)

\* Serializer bs with the bytes and cursors of new, in buffer b: whose buffer it is stays as it was.
WithBytes(bs, new, b) ==
    [data |-> new.data, read |-> new.read, write |-> new.write, max |-> new.max, owns |-> bs.owns, buf |-> b]

\* growTo, where t's serializer, bs, becomes new: if it is too small it moves to a larger buffer.
Stored(t, bs, mem, new) ==
    LET grown == new.max # bs.max
    IN  /\ ser' = [ser EXCEPT ![t] = WithBytes(bs, new, IF grown THEN next ELSE bs.buf)]
        /\ live' = IF grown THEN ReserveN(ReleaseN(mem, bs.buf), next) ELSE mem
        /\ next' = IF grown THEN next + 1 ELSE next

\* priv_get_thread_serializer in a handler's own callRpc, and its arguments.
InnerWritten == Each(WriteArg, Blank, InnerArgs).bs
InnerCall(t) == Stored(t, Blank, WithoutOwn(t), InnerWritten)

\* callRpc
CallRpc(c) ==
    /\ stage = "idle" /\ calls < MaxCalls
    /\ call' = c /\ calls' = calls + 1 /\ arg' = 1
    /\ Replaced("caller", Blank)
    /\ stage' = "write"
    /\ UNCHANGED <<vars, async, next, message, pack, event, got>>

\* serialize, one argument: that it could not be written is not looked at.
WriteNext ==
    LET w == WriteArg(ser["caller"], call.args[arg]) IN
    /\ stage = "write" /\ arg <= Len(call.args)
    /\ Stored("caller", ser["caller"], live, w.bs)
    /\ arg' = arg + 1
    /\ stage' = IF w.crash THEN "down" ELSE "write"
    /\ UNCHANGED <<vars, async, call, calls, message, pack, event, got>>

\* The handler is called on the spot, while the arguments wait in the serializer.
LocalCall ==
    /\ stage = "write" /\ arg > Len(call.args) /\ call.local
    /\ IF call.nested THEN InnerCall("caller") ELSE UNCHANGED memory
    /\ stage' = "send"
    /\ UNCHANGED <<vars, async, call, calls, arg, message, pack, event, got>>

\* priv_send_rpc: a serializer with the name, and that of the thread.
SendRpc ==
    LET name == Append(call.name, 0) IN
    /\ stage = "send" \/ (stage = "write" /\ arg > Len(call.args) /\ ~call.local)
    /\ message' = name \o ser["caller"].data
    /\ Create(<<Len(name), Len(name) + ser["caller"].write>>)
    /\ stage' = "wire"
    /\ UNCHANGED <<async, call, calls, arg, memory, pack, event, got>>

Cut ==
    /\ stage = "wire"
    /\ BeginFragment \/ CopyRest \/ CopyPart \/ EndFragment
    /\ UNCHANGED rpcVars

\* The fragments arrive and become a RecvPacket; one with user data has no handler.
Arrived ==
    /\ stage = "wire"
    /\ Receive
    /\ IF call = NoCall
         THEN /\ stage' = "idle"
              /\ UNCHANGED <<async, call, calls, arg, memory, message, pack, event, got>>
         ELSE /\ pack' = [buf |-> next, data |-> [k \in DOMAIN payload' |-> message[payload'[k]]]]
              /\ live' = ReserveN(live, next) /\ next' = next + 1
              /\ stage' = "handle"
              /\ UNCHANGED <<async, call, calls, arg, ser, message, event, got>>

\* priv_get_rpc_func: the function of that name, whether or not m_Name2Func has it already.
GetRpcFunc(name) == name \in Names

\* handleRpc on the worker: the event gets a copy of the packet, the queue drops the packet when
\* handlePacket returns; if events are processed at once, that is after the handler.
HandleRpc ==
    LET r     == ReadString(ResetTo(pack.data, pack.buf))
        known == r.ok /\ GetRpcFunc(r.val)
        keeps == known /\ async
        held  == IF keeps THEN WithoutOwn("worker") ELSE ReleaseN(WithoutOwn("worker"), pack.buf)
    IN
    /\ stage = "handle"
    /\ ser' = [ser EXCEPT !["worker"] = WithBytes(ResetTo(pack.data, pack.buf), r.bs, pack.buf)]
    /\ event' = IF known THEN [buf |-> next, data |-> pack.data, readPos |-> r.bs.read] ELSE NoEvent
    /\ live' = IF known THEN ReserveN(held, next) ELSE held
    /\ next' = IF known THEN next + 1 ELSE next
    /\ pack' = IF keeps THEN pack ELSE NoPack
    /\ stage' = IF ~r.ok THEN "down" ELSE IF known THEN "process" ELSE "idle"
    /\ UNCHANGED <<vars, async, call, calls, arg, message, got>>

Processor == IF async THEN "worker" ELSE "app"

\* EventRpc::process
ProcessEvent ==
    /\ stage = "process"
    /\ Replaced(Processor, SetRead(ResetTo(event.data, event.buf), event.readPos))
    /\ arg' = 1 /\ got' = <<>>
    /\ stage' = "read"
    /\ UNCHANGED <<vars, async, call, calls, next, message, pack, event>>

ReadNext ==
    LET r == ReadArg(ser[Processor], call.args[arg].type) IN
    /\ stage = "read" /\ arg <= Len(call.args)
    /\ ser' = [ser EXCEPT ![Processor] = WithBytes(@, r.bs, @.buf)]
    /\ got' = Append(got, r.val)
    /\ arg' = arg + 1
    /\ stage' = IF r.crash THEN "down" ELSE "read"
    /\ UNCHANGED <<vars, async, call, calls, live, next, message, pack, event>>

\* The handler, which may call an RPC on this thread; then event and packet are released.
Handler ==
    /\ stage = "read" /\ arg > Len(call.args)
    /\ IF call.nested THEN InnerCall(Processor) ELSE UNCHANGED memory
    /\ stage' = "release"
    /\ UNCHANGED <<vars, async, call, calls, arg, message, pack, event, got>>

Release ==
    /\ stage = "release"
    /\ live' = ReleaseN(ReleaseN(live, event.buf), pack.buf)
    /\ event' = NoEvent /\ pack' = NoPack
    /\ stage' = "idle"
    /\ UNCHANGED <<vars, async, call, calls, arg, ser, next, message, got>>

RNext ==
    \/ \E c \in Calls : CallRpc(c)
    \/ WriteNext \/ LocalCall \/ SendRpc \/ Cut \/ Arrived
    \/ HandleRpc \/ ProcessEvent \/ ReadNext \/ Handler \/ Release

RSpec == RInit /\ [][RNext]_allVars

\* The loops of createNormalPacket run on.
RFairSpec == RSpec /\ WF_allVars(Cut)
----------------------------------------------------------------------------
\* Arguments within the limits of the encoding; an address list or another serializer is none
\* that can be read back (ReadAddressList, ReadNested).
SoundPlain(a) ==
    CASE a.type = "string" -> Writable(a.val)
      [] a.type = "MetaData" -> Len(a.val) < CounterLimit /\ \A kv \in Range(a.val) : Writable(kv[1]) /\ Writable(kv[2])
      [] OTHER -> a.type \notin {"addressList", "BinSerializer"}
Sound(a) ==
    IF a.type \in Structs
    THEN \A i \in DOMAIN a.val : SoundPlain([type |-> Fields(a.type)[i], val |-> a.val[i]])
    ELSE SoundPlain(a)

\* What a handler that is called locally does to the arguments (LocalCall) is left out.
Careful(c) == (\A a \in Range(c.args) : Sound(a)) /\ ~(c.local /\ c.nested)

\* A handler gets the arguments the caller passed, of every type and at every limit, if the call
\* fits one fragment: over three serializers, two byte orders and two copies of the packet.
ArgumentsKept ==
    (Careful(call) /\ Len(fragments) = 1) =>
        /\ stage # "down"
        /\ stage = "release" => got = [i \in DOMAIN call.args |-> call.args[i].val]

\* Who may own a buffer, and the one it owns (0: none).
Owners == Threads \cup {"packet", "event"}
Buffer(o) ==
    CASE o = "packet" -> pack.buf
      [] o = "event" -> event.buf
      [] OTHER -> IF ser[o].owns THEN ser[o].buf ELSE 0

\* Every buffer has one owner, a serializer, a packet or an event, and nobody owns one that was
\* released: nothing leaks, nothing is freed twice.  An event reads only memory that is alive.
BuffersOwned ==
    /\ live = {Buffer(o) : o \in Owners} \ {0}
    /\ \A o1, o2 \in Owners : (Buffer(o1) = Buffer(o2) /\ Buffer(o1) # 0) => o1 = o2
    /\ stage = "read" => ser[Processor].buf \in live

\* The two nested loops end, whatever the lengths.
CuttingEnds == (stage = "wire") ~> (pc = "sent")

\* "assert( md == g_md )" in the handler of a call with many fragments (MyTests.h:358).
BigCallKept ==
    (Careful(call) /\ stage = "release") => got = [i \in DOMAIN call.args |-> call.args[i].val]
=============================================================================
