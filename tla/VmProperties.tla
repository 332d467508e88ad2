---------------------------- MODULE VmProperties ----------------------------
(***************************************************************************)
(* What must be true of the virtual machine, whatever program it runs.     *)
(***************************************************************************)
EXTENDS Vm

Depth == Len(activations)
ActiveRecord(i) == activations[i].record

-----------------------------------------------------------------------------
(* What the host must hand to the constructor, which looks at none of it:  *)
(* each activation runs a read-only procedure, from a position inside it,  *)
(* on a state cell it may write to, and its network and its resolver stand *)
(* at nodes.  load_program and the runner see to it (Runner).              *)

HostBank ==
    [entries |-> [h \in 0..(FirstId - 1) |-> HostRegisters[h + 1]], next |-> FirstId]

HostOK ==
    \A i \in 1..Len(HostFrames) :
        LET frame == HostFrames[i]
        IN  /\ Exists(HostBank, frame.procedure)
            /\ IsImmutable(HostBank, frame.procedure)
            /\ frame.position <= Size(HostBank, frame.procedure)
            /\ CellOK(HostBank, frame) /\ CellWritable(HostBank, frame)
            /\ NodeOK(HostBank, NodeOf(HostBank, frame))
            /\ frame.localResolver # Null => NodeOK(HostBank, frame.localResolver)

-----------------------------------------------------------------------------
(* Invariants. *)

(* The snapshot that the accessors show the host is the chain stored in    *)
(* the registers: a step that changed a record wrote it back, whichever    *)
(* activation a prefix made it change, and no data a program stores or     *)
(* resizes on the way breaks the stored chain.                             *)
SnapshotStored ==
    {FramesOf(bank, s) : s \in Chains(bank, current)} = {activations}

(* Nothing an active activation refers to disappears under it, whoever     *)
(* resizes, returns or calls: its record, its result, its state cell and   *)
(* its procedure, which is still read-only.                                *)
ActiveReferencesLive ==
    \A i \in 1..Depth :
        LET record == ActiveRecord(i)
            storage == activations[i].storage
        IN  /\ CanChange(bank, storage) /\ ActSize <= Size(bank, storage)
            /\ CanChange(bank, record.result)
            /\ CellOK(bank, record) /\ CellWritable(bank, record)
            /\ Exists(bank, record.procedure) /\ IsImmutable(bank, record.procedure)

(* The node an active network stands at, and the node of its resolver,     *)
(* stay inside their register.  The one exception is a network a program   *)
(* keeps in a result register: RETURN_RESULT replaces the contents of one  *)
(* whatever points into it.                                                *)
ActiveNodesInBounds ==
    LET results == {ActiveRecord(i).result : i \in 1..Depth}
        safe(ref) == NodeOK(bank, ref) \/ ref.id \in results
    IN  \A i \in 1..Depth :
            /\ safe(NodeOf(bank, ActiveRecord(i)))
            /\ ActiveRecord(i).localResolver # Null => safe(ActiveRecord(i).localResolver)

(* Every register that a call made belongs to that call alone, from the    *)
(* call to its return: no two calls would delete the same register, none   *)
(* would find one of its own already gone, and only active calls own any.  *)
(* A state cell a call did not make is the one its caller runs on.         *)
OwnershipPartition ==
    LET own(i) == owned[activations[i].storage]
    IN  /\ \A i \in 1..Depth :
              /\ {activations[i].storage, ActiveRecord(i).result} \subseteq own(i)
              /\ own(i) \subseteq DOMAIN bank.entries
              /\ \A j \in 1..Depth : i # j => own(i) \cap own(j) = {}
              /\ i > Len(HostFrames) /\ ActiveRecord(i).cell \notin own(i) =>
                     ActiveRecord(i).cell = ActiveRecord(i - 1).cell
        /\ \A h \in Id : owned[h] # {} => \E i \in 1..Depth : activations[i].storage = h

(* Every position is inside its own procedure, also when an instruction of *)
(* one activation was read in, or its continuation was moved to, another.  *)
PositionsInRange ==
    \A i \in 1..Depth : ActiveRecord(i).position <= Size(bank, ActiveRecord(i).procedure)

(* A pending prefix names an activation that exists, also while its owner  *)
(* waits for a call that a call node made in between.                      *)
PrefixTargetsExist ==
    \A i \in 1..Depth :
        ActiveRecord(i).prefix.kind \in {"read", "modify"} => ActiveRecord(i).prefix.depth < i

(* No register lies at or past the next id, although a program creates     *)
(* registers at ids of its choice: the ids of a call are new.              *)
NextIdFresh == \A h \in DOMAIN bank.entries \cap Id : h < bank.next

-----------------------------------------------------------------------------
(* Action properties. *)

(* Only the running activation changes, with one exception: a read or a    *)
(* modify prefix lets it move the position of the one activation that its  *)
(* depth names.  What an activation is bound to (procedure, cell, result,  *)
(* resolver, caller) never changes.                                        *)
PrefixReach ==
    LET p == ActiveRecord(Depth).prefix
    IN  \A i \in 1..Depth :
            i <= Len(activations') /\ activations'[i] # activations[i] =>
                /\ i = Depth \/ (p.kind \in {"read", "modify"} /\ i = Depth - p.depth)
                /\ activations'[i].storage = activations[i].storage
                /\ activations'[i].record =
                       [ActiveRecord(i) EXCEPT
                           !.position = activations'[i].record.position,
                           !.prefix = IF i = Depth THEN activations'[i].record.prefix ELSE @]
SuspendedActivationsStable == [][PrefixReach]_vars

(* A prefix acts on exactly one builtin: it is gone after it, it is not    *)
(* combined with another, and the only step that leaves it pending is the  *)
(* call node, which leaves all of the caller's record as it is.            *)
PrefixSpent ==
    ActiveRecord(Depth).prefix.kind # "none" /\ Depth <= Len(activations') =>
        \/ activations'[Depth].record.prefix = NoPrefix
        \/ Len(activations') = Depth + 1 /\ activations'[Depth] = activations[Depth]
PrefixConsumedOnce == [][PrefixSpent]_vars

(* A read-only register keeps its contents until the call that made it     *)
(* returns: the code that is running cannot be changed or deleted.         *)
ProceduresKept ==
    [][\A h \in DOMAIN bank.entries :
          IsImmutable(bank, h) =>
              IF Exists(bank', h) THEN bank'.entries[h] = bank.entries[h]
              ELSE h \in owned[current] /\ Len(activations') < Depth]_vars

-----------------------------------------------------------------------------
(* The machine implements CallStack: the registers of a call are the ones  *)
(* the machine has noted as owned by its activation.                       *)

Calls == INSTANCE CallStack WITH
    Ids <- Handle,
    stack <- [i \in 1..Depth |-> owned[activations[i].storage]],
    shared <- DOMAIN bank.entries \ UNION {owned[activations[i].storage] : i \in 1..Depth}

(* Calls and returns keep strictly to the stack, and a return takes away   *)
(* every register of its call and no other.                                *)
ImplementsCallStack == Calls!Spec
=============================================================================
