------------------------------ MODULE CallStack ------------------------------
(***************************************************************************)
(* What a program may rely on about calls, with the machine left out: a    *)
(* call brings registers of its own that nobody had, the matching return   *)
(* takes exactly those away again, calls return in the opposite order, and *)
(* whatever a command does in between, it neither adds to nor takes from   *)
(* the registers of any call.  Vm implements this (VmProperties).          *)
(***************************************************************************)
EXTENDS Naturals, Sequences

CONSTANT Ids  \* the register ids

VARIABLES
    stack,  \* the registers of each call in progress, root first
    shared  \* the registers that belong to no call

vars == <<stack, shared>>

OfCalls == UNION {stack[i] : i \in DOMAIN stack}

Init ==
    /\ stack \in Seq(SUBSET Ids) \ {<<>>}
    /\ shared \in SUBSET (Ids \ OfCalls)

Call ==
    /\ stack # <<>>
    /\ \E own \in (SUBSET (Ids \ (OfCalls \cup shared))) \ {{}} :
          stack' = Append(stack, own)
    /\ UNCHANGED shared

Return ==
    /\ stack # <<>>
    /\ stack' = SubSeq(stack, 1, Len(stack) - 1)
    /\ UNCHANGED shared

Work ==
    /\ stack # <<>>
    /\ shared' \in SUBSET (Ids \ OfCalls)
    /\ UNCHANGED stack

Next == Call \/ Return \/ Work

Spec == Init /\ [][Next]_vars
=============================================================================
