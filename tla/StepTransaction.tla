-------------------------- MODULE StepTransaction ---------------------------
(***************************************************************************)
(* VirtualMachine::run and VirtualMachine::step (src/src/vm.cpp): a step   *)
(* works on copies of the registers and of the machine, in many small      *)
(* changes any of which may fail or throw, and only then swaps the parts   *)
(* of the copies with the parts of the machine, one after the other.       *)
(*                                                                         *)
(* What the commands do to the parts is the subject of Vm; here they do    *)
(* anything, and all that is known of them is that a complete one leaves a *)
(* coherent machine.                                                       *)
(***************************************************************************)
EXTENDS Naturals, Sequences

CONSTANTS
    Values,   \* of a part of the machine
    Coherent, \* the machines whose parts belong together
    CountOf,  \* the activations in a value of activations_
    Null,     \* the value of current_storage_ in a machine that has halted
    Limits,   \* bound: the depths a host allows
    Budgets,  \* bound: the steps a host allows
    MaxWork   \* bound: the changes one step makes

SwapsButResolvers ==  \* Mutated: a part is not swapped
    <<"registers", "activations", "owned", "current_storage", "resolved_address">>

\* The order of the swaps.
Swaps == <<"registers", "activations", "resolvers", "owned", "current_storage", "resolved_address">>

Parts == {"registers", "activations", "resolvers", "owned", "current_storage", "resolved_address"}

\* These two are assigned, the other parts swapped.
Assigned == {"current_storage", "resolved_address"}

ASSUME StepAssumption ==
    /\ Coherent \subseteq [Parts -> Values]
    /\ CountOf \in [Values -> Nat]
    /\ Limits \subseteq Nat /\ Budgets \subseteq Nat /\ MaxWork \in Nat

VARIABLES
    machine, \* what the host's references and getters show
    staged,  \* staged_registers and staged_vm
    phase,   \* "host", "run", "step_impl" or "swap"
    left,    \* the parts still to be swapped
    work,    \* the changes made so far
    limit,   \* max_activation_depth
    budget,  \* max_steps
    steps

vars == <<machine, staged, phase, left, work, limit, budget, steps>>

Init ==
    /\ machine \in Coherent
    /\ staged = machine
    /\ phase = "host"
    /\ left = {} /\ work = 0 /\ steps = 0
    /\ limit \in Limits /\ budget \in Budgets

Halted == machine["current_storage"] = Null

-----------------------------------------------------------------------------

Run(depth, count) ==
    /\ phase = "host"
    /\ phase' = "run"
    /\ limit' = depth /\ budget' = count /\ steps' = 0
    /\ UNCHANGED <<machine, staged, left, work>>

ReturnResult ==
    /\ phase = "run"
    /\ Halted \/ steps >= budget
    /\ phase' = "host"
    /\ UNCHANGED <<machine, staged, left, work, limit, budget, steps>>

BeginStep ==
    /\ phase = "run"
    /\ ~Halted /\ steps < budget
    /\ phase' = "step_impl"
    /\ staged' = machine
    /\ work' = 0
    /\ UNCHANGED <<machine, left, limit, budget, steps>>

Change(part, value) ==
    /\ phase = "step_impl"
    /\ work < MaxWork
    /\ staged' = [staged EXCEPT ![part] = value]
    /\ work' = work + 1
    /\ UNCHANGED <<machine, phase, left, limit, budget, steps>>

\* An error of step_impl, one of the exceptions that step catches, or
\* "activation depth limit exceeded".  The run ends with the error.
FailStep ==
    /\ phase = "step_impl"
    /\ phase' = "host"
    /\ UNCHANGED <<machine, staged, left, work, limit, budget, steps>>

WithinAnyDepth == TRUE  \* Mutated: the depth is not checked

WithinDepth == CountOf[staged["activations"]] <= limit

EndStepImpl ==
    /\ phase = "step_impl"
    /\ staged \in Coherent
    /\ WithinDepth
    /\ phase' = "swap"
    /\ left' = {Swaps[i] : i \in DOMAIN Swaps}
    /\ UNCHANGED <<machine, staged, work, limit, budget, steps>>

\* The next part in the order of Swaps.
Swap(i) ==
    /\ phase = "swap"
    /\ Swaps[i] \in left
    /\ \A j \in 1..(i - 1) : Swaps[j] \notin left
    /\ machine' = [machine EXCEPT ![Swaps[i]] = staged[Swaps[i]]]
    /\ staged' = IF Swaps[i] \in Assigned THEN staged
                 ELSE [staged EXCEPT ![Swaps[i]] = machine[Swaps[i]]]
    /\ left' = left \ {Swaps[i]}
    /\ UNCHANGED <<phase, work, limit, budget, steps>>

CountedNever == steps  \* Mutated: the loop does not count

Counted == steps + 1

EndStep ==
    /\ phase = "swap"
    /\ left = {}
    /\ phase' = "run"
    /\ steps' = Counted
    /\ UNCHANGED <<machine, staged, left, work, limit, budget>>

Proceed ==
    \/ ReturnResult
    \/ BeginStep
    \/ \E part \in Parts, value \in Values : Change(part, value)
    \/ FailStep
    \/ EndStepImpl
    \/ \E i \in DOMAIN Swaps : Swap(i)
    \/ EndStep

Next == Proceed \/ \E depth \in Limits, count \in Budgets : Run(depth, count)

\* run is a loop that nothing outside it stops.
Fairness == WF_vars(Proceed)

Spec == Init /\ [][Next]_vars /\ Fairness

-----------------------------------------------------------------------------

\* The machine a host would find if the step that is being swapped in were
\* complete: nobody looks between two swaps.
Published == [part \in Parts |-> IF part \in left THEN staged[part] ELSE machine[part]]

Atomic == INSTANCE AtomicStep WITH machine <- Published

(* A step is atomic: wherever step_impl stops, whatever it has changed by  *)
(* then, and whether or not the depth limit is met only after the call was *)
(* made, the machine is the one before the step or the complete one after  *)
(* it, with no more activations than the run allows.                       *)
ImplementsAtomicStep == Atomic!Spec

(* What the refinement rests on: outside the swaps the machine is a        *)
(* coherent one, and during them its parts and the staged ones still to    *)
(* come make up a coherent one.                                            *)
AlwaysCoherent ==
    /\ Published \in Coherent
    /\ phase # "swap" => left = {} /\ machine \in Coherent

(* A run ends, with its steps, a halted machine or an error.               *)
RunReturns == phase # "host" ~> phase = "host"
=============================================================================
