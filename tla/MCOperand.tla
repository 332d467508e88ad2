----------------------------- MODULE MCOperand ------------------------------
(***************************************************************************)
(* Two activations that know the same name as different places, registers *)
(* of three units, addresses to 3 and two levels of indirection.           *)
(***************************************************************************)
EXTENDS Operand

MCSizes == [code |-> 1, x |-> 3, y |-> 2]
MCReadOnly == {"code"}
MCBase ==
    << [code |-> Place("code", 0), a |-> Place("x", 0), result |-> Place("y", 0), far |-> Place("x", 3)],
       [code |-> Place("code", 0), a |-> Place("y", 0), result |-> Place("x", 0)] >>
MCLocalNames == {"a", "result", "far"}

Immediate(n) == [mode |-> "immediate", n |-> n]
Direct(name, offset) == [mode |-> "direct", name |-> name, offset |-> offset]
Indirect(name, offset) == [mode |-> "indirect", name |-> name, offset |-> offset]
Foreign(d, indirect, name, offset) ==
    [mode |-> "foreign", depth |-> d, indirect |-> indirect, name |-> name, offset |-> offset]

MCOperands ==
    {Immediate(0), Immediate(1), Direct("a", 0), Direct("a", 1), Direct("far", 1), Direct("code", 0),
     Indirect("a", 0), Indirect("a", 1), Indirect("code", 0),
     Foreign(1, FALSE, "a", 1), Foreign(1, TRUE, "a", 0), Foreign(0, TRUE, "result", 1)}

Code == <<Indirect("a", 0)>>
MCMemories ==
    { [code |-> Code, x |-> <<Direct("a", 1), Bit(1), Bit(1)>>, y |-> <<Indirect("a", 0), Bit(1)>>],
      [code |-> Code, x |-> <<Indirect("a", 1), Foreign(1, TRUE, "a", 1), Direct("a", 0)>>,
       y |-> <<Indirect("a", 1), Direct("result", 0)>>] }
=============================================================================
