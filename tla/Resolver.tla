------------------------------ MODULE Resolver ------------------------------
(***************************************************************************)
(* A query of src/src/resolver.cpp: a name is resolved by a network of the *)
(* program that runs, with the bits of the name as its procedure, in a     *)
(* copy of the machine that asked.  The resolver's operands may be names   *)
(* too, so queries nest.                                                   *)
(*                                                                         *)
(* The variables of Vm are those of the innermost machine; the machines    *)
(* that wait for an answer are on a stack, the host's own machine first.   *)
(* A step of a resolver can ask queries before it ends, so it is not one   *)
(* action here: it begins, asks, and ends with one of the commands of Vm.  *)
(* The host's machine does not move while it asks.                         *)
(***************************************************************************)
EXTENDS VmProperties

CONSTANTS
    MaxSteps,   \* steps of a query and all queries it nests: 10000
    MaxLevels,  \* nested queries: 32
    MaxCalls    \* activations above the one that asked: 256

ASSUME ResolverAssumption ==
    /\ MaxSteps \in Nat /\ MaxLevels \in Nat
    /\ MaxCalls \in Nat \ {0}

VARIABLES
    waiting,  \* the machines that asked, the host's first
    base,     \* activations the innermost query was asked with: index + 1
    busy,     \* the innermost resolver is inside a step
    steps     \* *resolver_steps_: what is left for the host's query

machine == <<bank, current, activations, owned>>
query == <<waiting, base, busy, steps>>

Level == Len(waiting)  \* resolver_depth_

Machine == [bank |-> bank, current |-> current, activations |-> activations,
            owned |-> owned, base |-> base, busy |-> busy]

ResolverTypeOK ==
    /\ TypeOK
    /\ Level \in 0..MaxLevels
    /\ base \in 0..Len(activations)
    /\ busy \in BOOLEAN
    /\ steps \in 0..MaxSteps
    /\ Level > 0 => Len(activations) <= base + MaxCalls

ResolverInit ==
    /\ Init
    /\ waiting = <<>> /\ base = 0 /\ busy = FALSE /\ steps = 0

-----------------------------------------------------------------------------
(* resolve_register chooses the network, run_resolver starts it.           *)

\* The activation's own network for a local name, the node's for a super-
\* local one, the host's for a global one.  Without a network a table of the
\* host answers, and no query runs.
Networks(m, i) == NodeRefs \cup ({Record(m, i).localResolver} \ {Null})

NestedPastLimit == Level <= MaxLevels  \* Mutated

\* "resolver nesting limit exceeded"
CanNest == Level < MaxLevels

StepsForEach == MaxSteps  \* Mutated: every query has a budget of its own

\* A nested query goes on with what the host's query has left.
StepsFor == IF Level = 0 THEN MaxSteps ELSE steps

Ask ==
    \E m \in Loaded : \E i \in 1..m.top : \E entry \in Networks(m, i), size \in Sizes :
    LET copy == ProtectExisting(bank)
        name == [size |-> size, val |-> Code]
    IN  /\ Level > 0 => busy /\ CanStep(m) /\ CanDecode(m)
        /\ CanNest
        /\ CanCreate(copy)
        /\ EnterCall(Create(copy, name, TRUE), SubSeq(m.frames, 1, i),
                     copy.next, entry, TRUE)
        /\ waiting' = Append(waiting, Machine)
        /\ base' = i
        /\ busy' = FALSE
        /\ steps' = StepsFor

\* The budget is charged before the step, and a step that fails is charged.
BeginStep ==
    /\ Level > 0 /\ ~busy
    /\ steps > 0
    /\ steps' = steps - 1
    /\ busy' = TRUE
    /\ UNCHANGED <<machine, waiting, base>>

\* A suppressed RESOLVE_RETURN goes past its operands; the node stays.
SuppressedReturn(m) ==
    LET frames == Advanced(m, NoPosition, NoPrefix)
    IN  /\ CanStep(m) /\ CanDecode(m) /\ Suppressed(m)
        /\ CanPersist(m, bank)
        /\ activations' = frames
        /\ bank' = Persisted(m, bank, frames)
        /\ UNCHANGED <<current, owned>>

\* "resolver cannot write global registers": COMPUTE, COPY, 1100, GET_SIZE and
\* RETURN_RESULT are only met suppressed.
Command(m) ==
    \/ CallNode(m)
    \/ SwitchProcedure(m)
    \/ SwitchNetwork(m)
    \/ SwitchProcedureAndNetwork(m)
    \/ FinishCall(m)
    \/ SuppressedFinish(m)
    \/ SuppressedCommand(m)
    \/ SuppressedReturn(m)
    \/ ReadPrefix(m)
    \/ ModifyPrefix(m)
    \/ ConditionPrefix(m)
    \/ Branch(m)
    \/ SetProcedurePosition(m)

\* Mutated: a resolver may return into the activation that asked.
ResolvingBelow == Len(activations') \in base..(base + MaxCalls)

\* step's depth limit, and "resolver ended without RESOLVE_RETURN".
StillResolving == Len(activations') \in (base + 1)..(base + MaxCalls)

EndStep ==
    /\ Level > 0 /\ busy
    /\ \E m \in Loaded : Command(m)
    /\ StillResolving
    /\ busy' = FALSE
    /\ UNCHANGED <<waiting, base, steps>>

\* The machine at level k goes on; the ones above it are gone.
Resume(k) ==
    LET asker == waiting[k]
    IN  /\ bank' = asker.bank
        /\ current' = asker.current
        /\ activations' = asker.activations
        /\ owned' = asker.owned
        /\ base' = asker.base
        /\ busy' = asker.busy
        /\ waiting' = SubSeq(waiting, 1, k - 1)
        /\ UNCHANGED steps

\* RESOLVE_RETURN ends the query, whatever calls are still open in it.
ResolveReturn ==
    /\ Level > 0 /\ busy
    /\ \E m \in Loaded : CanStep(m) /\ CanDecode(m) /\ ~Suppressed(m)
    /\ Resume(Level)

\* An error in a query is an error of the step that asked, and so on out to
\* the host's: a step may fail at any of its operands.
Fail ==
    /\ Level > 0
    /\ busy \/ steps = 0
    /\ Resume(1)

ResolverNext == BeginStep \/ Fail \/ Ask \/ EndStep \/ ResolveReturn

\* The loop of run_resolver goes on until there is an answer or an error.
Running == Level > 0 /\ ResolverNext

ResolverSpec ==
    /\ ResolverInit /\ [][ResolverNext]_<<machine, query>>
    /\ WF_<<machine, query>>(Running)

-----------------------------------------------------------------------------
(* What a query must keep. *)

Inner(k) == IF k = Level THEN Machine ELSE waiting[k + 1]

(* A query reads the machine that asked and never changes it, not even in  *)
(* the copy the query runs on: no prefix moves a cursor or a state cell of *)
(* the asker, no return deletes one of its registers.  What a resolver     *)
(* reads is what the asker has, at every level of nesting.                 *)
AskerProtected ==
    \A k \in 1..Level :
        LET asker == waiting[k].bank
            copy == Inner(k).bank
        IN  \A h \in DOMAIN asker.entries :
                /\ Exists(copy, h)
                /\ Contents(copy, h) = Contents(asker, h)
                /\ IsImmutable(copy, h) = IsImmutable(asker, h)

(* A query runs above the activation it was asked for and never returns    *)
(* into it: foreign depths keep naming the asker's own activations.        *)
AskerContext ==
    \A k \in 1..Level :
        LET n == Inner(k).base
        IN  /\ n < Len(Inner(k).activations)
            /\ \A i \in 1..n : Inner(k).activations[i] = waiting[k].activations[i]

(* The queries of one command share one budget, so that every query ends,  *)
(* however its resolvers nest, loop and ask again.                         *)
QueryEnds == Level > 0 ~> Level = 0
=============================================================================
