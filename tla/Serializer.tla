----------------------------- MODULE Serializer -----------------------------
(***************************************************************************)
(* BinSerializer: the buffer with its two cursors, and how every type of   *)
(* RPC argument is written to it and read back.                            *)
(*                                                                         *)
(* A byte is a number.  A fixed-size value is the tuple of its bytes as    *)
(* they lie in memory; the machine is little-endian, the wire is not.  A   *)
(* string is a tuple of bytes without 0, a MetaData the sequence of its    *)
(* pairs in the order of the map, an address <<>> (null) or the bytes of   *)
(* its SOCKADDR_INET.  Operations return [ok, bs, val], or crash = TRUE    *)
(* where the code throws without an exception to rethrow.                  *)
(***************************************************************************)
EXTENDS Integers, Sequences, SequencesExt, FiniteSetsExt

CONSTANTS
    TempBuffSize,   \* buffer for the characters of a string, with its 0
    CounterLimit,   \* 2^16: the pairs of a MetaData are counted with an u16
    AddrSize        \* sizeof(SOCKADDR_INET)

\* Util::htons, htonl, htonll and their inverses.
SwapBytes(v) == Reverse(v)

Width(type) ==
    CASE type \in {"bool", "byte", "char"} -> 1
      [] type \in {"u16", "i16"}           -> 2
      [] type \in {"u32", "i32", "float"}  -> 4
      [] type \in {"u64", "i64", "double"} -> 8

\* The order in which the fields of the two structures are written and read.
MasterSessionDataFields == <<"bool", "bool", "bool", "bool", "float", "u32", "string", "string", "string">>
SearchFilterFields == <<"string", "string", "float", "u32", "float", "u32", "bool", "bool", "bool", "MetaData">>
Fields(type) == IF type = "SearchFilter" THEN SearchFilterFields ELSE MasterSessionDataFields
Structs == {"MasterSessionData", "SearchFilter"}

\* A null pointer, no bytes: what the constructor and reset() leave.
Blank == [data |-> <<>>, read |-> 0, write |-> 0, max |-> 0, owns |-> TRUE, buf |-> 0]

\* resetTo without copying: the memory of a packet, buffer b, is looked at and not owned.
ResetTo_Owning(bytes, b) ==
    [data |-> bytes, read |-> 0, write |-> Len(bytes), max |-> Len(bytes), owns |-> TRUE, buf |-> b]
ResetTo(bytes, b) ==
    [data |-> bytes, read |-> 0, write |-> Len(bytes), max |-> Len(bytes), owns |-> FALSE, buf |-> b]

\* A position behind what was written is refused.
SetRead(bs, r) == IF r > bs.write THEN bs ELSE [bs EXCEPT !.read = r]

Failed(bs)    == [ok |-> FALSE, crash |-> FALSE, bs |-> bs, val |-> <<>>]
Thrown(bs)    == [Failed(bs) EXCEPT !.crash = TRUE]
Done(bs, val) == [ok |-> TRUE, crash |-> FALSE, bs |-> bs, val |-> val]

\* growTo: a fifth more than required, and 16.
GrowTo(bs, n) == IF ~bs.owns \/ n <= bs.max THEN bs ELSE [bs EXCEPT !.max = n + n \div 5 + 16]

\* write8 to write64 and write(const byte*, u32).
WriteRaw(bs, bytes) ==
    LET w == bs.write + Len(bytes)
        g == GrowTo(bs, w)
    IN  IF w > g.max THEN Failed(g)
        ELSE Done([g EXCEPT !.data = SubSeq(@, 1, bs.write) \o bytes, !.write = w], <<>>)

\* read8 to read64 and read(byte*, u32).
ReadRaw(bs, n) ==
    LET r == bs.read + n
    IN  IF r > bs.write THEN Failed(bs)
        ELSE Done([bs EXCEPT !.read = r], SubSeq(bs.data, bs.read + 1, r))

WriteFixed(bs, v) == WriteRaw(bs, SwapBytes(v))
ReadFixed(bs, w)  == LET r == ReadRaw(bs, w) IN [r EXCEPT !.val = SwapBytes(@)]

\* An u32 and its bytes in memory.
BytesOf(n)  == <<n % 256, n \div 256, 0, 0>>
NumberOf(b) == b[1] + 256 * b[2]

\* Strings carry their 0; one that would not fit the reader's buffer is not written.
Writable(s) == Len(s) <= TempBuffSize - 1
WriteString(bs, s) == IF Writable(s) THEN WriteRaw(bs, Append(s, 0)) ELSE Failed(bs)

\* Characters are read up to a 0, the end of the data or the end of the buffer.
ReadString_Short(bs) ==
    LET zeros == {k \in bs.read + 1 .. Min({bs.write, bs.read + TempBuffSize - 1}) : bs.data[k] = 0}
    IN  IF zeros = {} THEN Failed([bs EXCEPT !.read = Min({bs.write, @ + TempBuffSize - 1})])
        ELSE Done([bs EXCEPT !.read = Min(zeros)], SubSeq(bs.data, bs.read + 1, Min(zeros) - 1))
ReadString(bs) ==
    LET zeros == {k \in bs.read + 1 .. Min({bs.write, bs.read + TempBuffSize}) : bs.data[k] = 0}
    IN  IF zeros = {} THEN Failed([bs EXCEPT !.read = Min({bs.write, @ + TempBuffSize})])
        ELSE Done([bs EXCEPT !.read = Min(zeros)], SubSeq(bs.data, bs.read + 1, Min(zeros) - 1))
----------------------------------------------------------------------------
\* Steps one after the other, given up at the first that fails.
Each(Op(_, _), bs, items) ==
    LET Then(acc, x) == IF ~acc.ok THEN acc
                        ELSE LET r == Op(acc.bs, x) IN [r EXCEPT !.val = Append(acc.val, @)]
    IN  FoldLeft(Then, Done(bs, <<>>), items)

WritePair(bs, kv) == Each(WriteString, bs, kv)
WriteMetaData(bs, md) ==
    LET n == WriteFixed(bs, BytesOf(Len(md))) IN IF n.ok THEN Each(WritePair, n.bs, md) ELSE n

\* The counter of the loop wraps before it reaches CounterLimit: with that many pairs the loop
\* goes on until a read fails, at the end of the data if not before.
ReadPair(bs, i) == LET Item(b, k) == ReadString(b) IN Each(Item, bs, <<1, 2>>)
ReadMetaData(bs) ==
    LET n == ReadFixed(bs, 4)
        len == NumberOf(n.val)
    IN  IF ~n.ok THEN n
        ELSE Each(ReadPair, n.bs, [i \in 1 .. IF len < CounterLimit THEN len ELSE bs.write |-> i])

\* sptr<IAddress>: a byte that says whether there is one, and the whole SOCKADDR_INET.
WriteAddress(bs, a) ==
    LET p == WriteRaw(bs, <<IF a = <<>> THEN 0 ELSE 1>>)
    IN  IF p.ok /\ a # <<>> THEN WriteRaw(p.bs, a) ELSE p
ReadAddress(bs) ==
    LET p == ReadRaw(bs, 1)
    IN  IF ~p.ok \/ p.val = <<0>> THEN [p EXCEPT !.val = <<>>] ELSE ReadRaw(p.bs, AddrSize)

\* AddressList: addresses with their meta data and nothing that says how many.  To read one
\* readOrWrite calls a method of the list, and the argument is a null pointer then.
WriteEntry(bs, e) ==
    LET a == WriteAddress(bs, e.addr) IN IF a.ok THEN WriteMetaData(a.bs, e.md) ELSE a
WriteAddressList(bs, list) ==
    LET l == Each(WriteEntry, bs, list) IN [l EXCEPT !.crash = ~l.ok]
ReadAddressList(bs) == Thrown(bs)

\* Another serializer is appended without its length; reading one takes everything from the
\* beginning of the data and moves no cursor.
WriteNested(bs, data) == WriteRaw(bs, data)
ReadNested(bs) == Done(bs, SubSeq(bs.data, 1, bs.write))

WritePlain(bs, arg) ==
    CASE arg.type = "string"   -> WriteString(bs, arg.val)
      [] arg.type = "MetaData" -> WriteMetaData(bs, arg.val)
      [] arg.type = "address"  -> WriteAddress(bs, arg.val)
      [] arg.type = "addressList" -> WriteAddressList(bs, arg.val)
      [] arg.type = "BinSerializer" -> WriteNested(bs, arg.val)
      [] OTHER -> WriteFixed(bs, arg.val)

ReadPlain(bs, type) ==
    CASE type = "string"   -> ReadString(bs)
      [] type = "MetaData" -> ReadMetaData(bs)
      [] type = "address"  -> ReadAddress(bs)
      [] type = "addressList" -> ReadAddressList(bs)
      [] type = "BinSerializer" -> ReadNested(bs)
      [] OTHER -> ReadFixed(bs, Width(type))

\* readOrWrite: the fields of a structure are checked and a failure throws, a plain argument's
\* result is left to the caller.
WriteArg(bs, arg) ==
    IF arg.type \notin Structs THEN WritePlain(bs, arg)
    ELSE LET fs == Fields(arg.type)
             r == Each(WritePlain, bs, [i \in DOMAIN fs |-> [type |-> fs[i], val |-> arg.val[i]]])
         IN  [r EXCEPT !.crash = ~r.ok]
ReadArg(bs, type) ==
    IF type \notin Structs THEN ReadPlain(bs, type)
    ELSE LET r == Each(ReadPlain, bs, Fields(type)) IN [r EXCEPT !.crash = ~r.ok]
=============================================================================
