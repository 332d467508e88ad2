----------------------------- MODULE AtomicStep -----------------------------
(***************************************************************************)
(* What a host may rely on (docs/specification-v2.md: the checks of a      *)
(* command end before state changes): a step of the machine either takes   *)
(* place as a whole or not at all, whatever goes wrong in it.              *)
(*                                                                         *)
(* A machine is its parts; Coherent are the machines whose parts belong    *)
(* together, those a complete step leaves behind.                          *)
(***************************************************************************)
EXTENDS Naturals

CONSTANTS
    Parts,    \* registers, activations, ...
    Values,   \* of a part
    Coherent, \* the machines whose parts belong together
    CountOf,  \* the activations in a value of the part "activations"
    Null,     \* the value of the part "current_storage" of a halted machine
    Limits    \* the depths a host allows

VARIABLES machine, limit

vars == <<machine, limit>>

Init == machine \in Coherent /\ limit \in Limits

\* A host starts a run.
Run == limit' \in Limits /\ UNCHANGED machine

Step ==
    /\ machine["current_storage"] # Null
    /\ machine' \in Coherent
    /\ CountOf[machine'["activations"]] <= limit
    /\ UNCHANGED limit

Next == Run \/ Step

Spec == Init /\ [][Next]_vars
=============================================================================
