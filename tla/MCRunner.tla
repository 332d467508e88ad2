------------------------------ MODULE MCRunner -------------------------------
(***************************************************************************)
(* Ids of 4 bits, nodes of 59.  An image has a root procedure and a network*)
(* of one or two nodes, or one register that is both.  Images that do not  *)
(* validate are among them.                                                *)
(***************************************************************************)
EXTENDS Runner

MCRecordHeader == <<1, 0>>
MCImageHeader == <<1, 1, 0>>

Name == <<1>>
Node0(id) == At(Handle(Global, id), 0)
Node1(id) == At(Handle(Global, id), NodeBits)

\* The nodes a register with this id may hold, of an image with a root at
\* `root` and a network at `net`.
Nodes(root, net) ==
    {EncodeNode(n) : n \in {Builtin(4, Null, Null, Null), Builtin(4, Null, Node1(net), Null),
                            Call(Handle(Global, root), Node0(net), Node0(net), Null, Null)}}
Bodies(root, net) == Nodes(root, net) \cup {a \o b : a, b \in Nodes(root, net)}

Image(root, net, entry, registers) ==
    [procedure |-> Handle(Global, root), entry |-> entry, registers |-> registers]
Register(id, flags, name, contents) ==
    [id |-> id, flags |-> flags, name |-> name, contents |-> contents]

Pairs(root, net) ==
    {Image(root, net, entry, <<Register(root, flags, <<>>, <<0, 1>>), Register(net, 2, name, body)>>) :
        entry \in {Node0(net), Node1(net)}, flags \in {0, 1}, name \in {<<>>, Name},
        body \in Bodies(root, net)}
Singles(id) ==
    {Image(id, id, Node0(id), <<Register(id, flags, Name, body)>>) :
        flags \in {2, 3}, body \in Bodies(id, id)}

MCImages ==
    Pairs(0, 1) \cup Pairs(12, 3) \cup Pairs(2, 13) \cup Pairs(5, 5) \cup Singles(0) \cup Singles(15)
MCFiles ==
    {[name |-> name, contents |-> contents] :
        name \in {<<>>, Name},
        contents \in {<<1>>, EncodeNode(Builtin(4, Node0(9), Null, Null)),
                      EncodeNode(Call(Handle(Global, 0), Node0(0), Null, Null, Null))}}
MCResolverRefs == {Null, Node1(1), Node0(4)}
=============================================================================
