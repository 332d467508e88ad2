------------------------------ MODULE MCStream ------------------------------
(***************************************************************************)
(* Words of 6 bits, ids of 4 bits, nodes of 59 bits; doubles of 4 bits.    *)
(***************************************************************************)
EXTENDS Stream

MCStreams == UNION {[1..n -> {0, 1}] : n \in 0..10}
MCRecordHeader == <<1, 0>>
MCImageHeader == <<1, 1, 0>>
MCExternal == {0, -5 * One, 15 * 2^Scales}

Item(kind, contents) == {[kind |-> kind, value |-> v] : v \in contents}

Name == <<1>>
Local0 == [class |-> Local, name |-> <<>>]
Global1 == [class |-> Global, name |-> Name]
Code == [class |-> Procedure, name |-> <<>>]
Somewhere == [selector |-> Global1, offset |-> 8]
InCode == [selector |-> Code, offset |-> 0]
MCReferences == {Immediate(0), Immediate(9), Indirect(Somewhere), Direct(InCode),
               Foreign(2, 1, <<>>, 7), Foreign(0, 0, Name, 0)}
Source(r) == [reference |-> r, count |-> IF r.mode = 0 THEN 0 ELSE 8, immediate |-> r.mode = 0]

FirstHandle == Handle(Global, 0)
LastHandle == Handle(Global, 2^IdBits - 1)
Refs == {Null, At(FirstHandle, NodeBits), At(LastHandle, MaxOffset), At(LastHandle, 0)}
Entry == At(FirstHandle, 0)
MCNode == Builtin(4, Null, Null, Null)
MCCall == Call(FirstHandle, Entry, At(Handle(Local, 1), NodeBits), At(LastHandle, 0), Null)
Record(prefix) ==
    [procedure |-> FirstHandle, position |-> 5, network |-> At(LastHandle, 3), local |-> At(FirstHandle, NodeBits),
     previous |-> Null, result |-> LastHandle, prefix |-> prefix]
Image(contents, node) ==
    [procedure |-> FirstHandle, entry |-> At(Handle(Global, 2), 0),
     registers |-> <<[id |-> 0, flags |-> 1, name |-> <<>>, contents |-> contents],
                     [id |-> 2, flags |-> 2, name |-> Name, contents |-> EncodeNode(node)]>>]

MCValues == {Uint(n) : n \in {0, 1, 3, 31, 32, 63}}
            \union {Float(1, 0), Float(-3, -1), Float(3, Highest), Float(5, -10), Float(0, 2), Float(6, 1)}

TwoSources == <<5, Source(Immediate(9)), Source(Indirect(Somewhere)), Direct(InCode), 1>>
OneSource == <<22, Source(Foreign(0, 0, Name, 0)), Direct(Somewhere), 0>>

MCItems ==
    Item("size", {0, 7, 8, 63}) \union Item("bit_string", {<<>>, <<1, 0, 1>>})
    \union Item("var_uint", {0, 1, 63}) \union Item("var_int", {0, -1, 1, -2, Lowest, Highest})
    \union Item("value", MCValues) \union Item("selector", {Local0, Global1, Code})
    \union Item("reference", MCReferences) \union Item("source", {Source(r) : r \in MCReferences})
    \union Item("destination", {r \in MCReferences : r.mode # 0})
    \union Item("runtime_reference", Refs) \union Item("node", {MCNode, MCCall})
    \union Item("activation", {Record(Prefix(0, 0, FALSE)), Record(Prefix(1, 2, FALSE)),
                               Record(Prefix(3, 0, TRUE))})
    \union Item("procedure", {[name |-> Name, contents |-> <<1, 1>>], [name |-> <<>>, contents |-> <<>>]})
    \union Item("program", {Image(<<0, 1>>, MCNode), Image(<<>>, Call(FirstHandle, At(Handle(Global, 2), 0), Null, Null, Null))})
    \union Item("compute", {TwoSources, OneSource})
    \union Item("copy", {<<Source(Direct(InCode)), Foreign(2, 1, <<>>, 7), 1>>})
    \union Item("resize_register", {<<Global1, Source(Immediate(0)), 0>>})
    \union Item("get_register_size", {<<Code, Direct(Somewhere), 1>>})
    \union Item("resolve_return", {<<Source(Immediate(9)), Source(Immediate(0))>>})
    \union Item("finish_call", {<<>>}) \union Item("modify_prefix", {<<7, 1>>})
=============================================================================
