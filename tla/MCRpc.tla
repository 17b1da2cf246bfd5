------------------------------- MODULE MCRpc -------------------------------
(* Rpc for TLC: user messages of up to three serializers, and two calls,   *)
(* one after the other, with arguments of every type and at the limits.    *)
EXTENDS Rpc

\* With room for 34 bytes in a fragment: nothing, one byte, one less than a
\* fragment, a fragment, one more, and two fragments and a bit.
EdgeLengths == {0, 1, 33, 34, 35, 69}
MCPayloads ==
    LET L == EdgeLengths IN
    {<<a>> : a \in L} \cup {<<a, a + b>> : a, b \in L} \cup {<<a, a + b, a + b + c>> : a, b, c \in L}

A(type, val) == [type |-> type, val |-> val]

Longest  == <<5, 6, 7>>
TooLong  == <<5, 6, 7, 8>>
Md(n)    == SubSeq(<< <<<<1>>, <<>>>>, <<<<2>>, Longest>>, <<<<3>>, <<1>>>> >>, 1, n)
Session  == <<<<1>>, <<1>>, <<0>>, <<0>>, <<1, 2, 3, 4>>, <<8, 0, 0, 0>>, Longest, <<>>, <<>>>>
Search   == <<<<>>, <<9>>, <<1, 2, 3, 4>>, <<0, 0, 0, 0>>, <<4, 3, 2, 1>>, <<8, 0, 0, 0>>, <<0>>, <<1>>, <<1>>, <<>>>>

\* Arguments that occur in the library's own RPCs and in the tests, with the limits.
MCArgs == {
    <<>>,
    <<A("bool", <<1>>), A("address", <<1, 2>>)>>,
    <<A("bool", <<0>>), A("address", <<>>)>>,
    <<A("u16", <<1, 2>>), A("i32", <<1, 2, 3, 4>>), A("u64", <<1, 2, 3, 4, 5, 6, 7, 8>>)>>,
    <<A("string", Longest), A("byte", <<1>>)>>,
    <<A("string", TooLong), A("byte", <<1>>)>>,
    <<A("string", <<>>), A("MetaData", Md(2))>>,
    <<A("MetaData", Md(3)), A("u32", <<1, 0, 0, 0>>)>>,
    <<A("MetaData", Md(2)), A("addressList", <<[addr |-> <<1, 2>>, md |-> Md(1)]>>)>>,
    <<A("MasterSessionData", Session), A("MetaData", Md(0))>>,
    <<A("SearchFilter", Search)>>,
    <<A("MetaData", Md(2)), A("MasterSessionData", Session), A("double", <<1, 2, 3, 4, 5, 6, 7, 8>>)>>,
    <<A("BinSerializer", <<1, 2>>)>> }

MCNames == {<<1>>}
MCInnerArgs == <<A("u16", <<3, 4>>)>>
MCCalls ==
    [name : MCNames, args : MCArgs, local : BOOLEAN, nested : BOOLEAN]
      \cup [name : {<<2>>}, args : {<<>>}, local : {FALSE}, nested : {FALSE}]
=============================================================================
