--------------------------------- MODULE Vm ---------------------------------
(***************************************************************************)
(* The virtual machine of src/src/vm.cpp: the chain of activations, the    *)
(* registers each call owns, the prefix commands and the calls.            *)
(*                                                                         *)
(* A machine step works on a copy of the machine and of its register bank  *)
(* and publishes the copy only when the whole step succeeds, so a step is  *)
(* one action here and a failing step is a stuttering step.                *)
(*                                                                         *)
(* The program is the most general one: which command a node holds, where  *)
(* its branches lead, which registers its operands name and which sizes it *)
(* asks for are chosen by the action from small sets.  What is kept of a   *)
(* register is its size and what the machine itself reads back from it: an *)
(* activation record, a node reference (the state cell of a network), the  *)
(* Code of a procedure, or Data.  Sizes are bit counts in the code; here   *)
(* only their order counts.  A position in a procedure counts the          *)
(* instructions before it.                                                 *)
(***************************************************************************)
EXTENDS Registers, Sequences, FiniteSets

CONSTANTS
    Null,           \* a null runtime reference
    Data,           \* contents the machine does not interpret
    Code,           \* the body of a procedure
    RefSize,        \* runtime_reference_bit_size
    NodeSize,       \* node_bit_size
    ActSize,        \* activation_bit_size
    MaxDepth,       \* max_activation_depth, the argument of step
    HostRegisters,  \* the registers the host made: a sequence of entries,
                    \* the register at index i having id i - 1
    HostFrames,     \* the activations the host passes to the constructor
    NodeRefs,       \* bound: the node references a program uses
    Targets,        \* bound: the registers a program resizes or overwrites
    Sizes,          \* bound: the sizes a program asks for
    Disciplined     \* TRUE: no data command writes over a live activation
                    \* record or over the state cell of a live activation

NodeRef == [id: Id, off: Nat]
Prefix == [kind: {"none", "read", "modify", "condition"},
           depth: Nat, condition: BOOLEAN]
NoPrefix == [kind |-> "none", depth |-> 0, condition |-> FALSE]

ActivationRecord ==
    [procedure: Id, position: Nat, cell: Id, localResolver: NodeRef \cup {Null},
     previous: Id \cup {Null}, result: Id, prefix: Prefix]

Frame == [record: ActivationRecord, storage: Id]

Value == ActivationRecord \cup NodeRef \cup {Code, Data}
RegisterContents == [size: Nat, val: Value]

HostFrame ==
    [procedure: Id, position: Nat, cell: Id, localResolver: NodeRef \cup {Null}]

ASSUME VmAssumption ==
    /\ RefSize \in Nat \ {0} /\ NodeSize \in Nat \ {0} /\ ActSize \in Nat \ {0}
    /\ HostRegisters \in Seq(EntryOf(RegisterContents))
    /\ HostFrames \in Seq(HostFrame) \ {<<>>}
    /\ Len(HostRegisters) + 2 * Len(HostFrames) <= MaxId + 1
    /\ Len(HostFrames) <= MaxDepth /\ MaxDepth \in Nat
    /\ NodeRefs \subseteq NodeRef /\ Targets \subseteq Id /\ Sizes \subseteq Nat
    /\ Disciplined \in BOOLEAN
    /\ Null \notin Nat \cup NodeRef

VARIABLES
    bank,         \* *registers_
    current,      \* current_storage_: the register of the running activation
    activations,  \* activations_: the snapshot of the chain, root first
    owned         \* owned_: the registers each call deletes when it ends

vars == <<bank, current, activations, owned>>

TypeOK ==
    /\ IsBank(bank, RegisterContents)
    /\ current \in Id \cup {Null}
    /\ activations \in Seq(Frame)
    /\ owned \in [Id -> SUBSET Id]


-----------------------------------------------------------------------------
(* Registers as the machine sees them. *)

Empty == [size |-> 0, val |-> Data]
Cell(ref) == [size |-> RefSize, val |-> ref]
Stored(record) == [size |-> ActSize, val |-> record]

Size(b, h) == Contents(b, h).size
Val(b, h) == Contents(b, h).val
Fits(b, h, off, n) == Exists(b, h) /\ off + n <= Size(b, h)

Need(v) ==
    IF v \in ActivationRecord THEN ActSize ELSE IF v \in NodeRef THEN RefSize ELSE 0
Resized(c, n) == [size |-> n, val |-> IF Need(c.val) <= n THEN c.val ELSE Data]
ResizedTo(b, h, n) ==
    ResizeOrCreate(b, h, n, IF Exists(b, h) THEN Resized(Contents(b, h), n) ELSE Empty,
                   [size |-> n, val |-> Data])
SetVal(b, h, v) == SetContents(b, h, [size |-> Size(b, h), val |-> v])

\* read_node, validate_node_target: whether the bits decode is up to the
\* program, whether they are there is not.
NodeOK(b, ref) == ref # Null /\ ref.off % NodeSize = 0 /\ Fits(b, ref.id, ref.off, NodeSize)

\* read_network_state
CellOK(b, record) == Fits(b, record.cell, 0, RefSize) /\ Val(b, record.cell) \in NodeRef
NodeOf(b, record) == Val(b, record.cell)

\* validate_network_state_write
CellWritable(b, record) == CanChange(b, record.cell) /\ RefSize <= Size(b, record.cell)

-----------------------------------------------------------------------------
(* reload_activations: the chain as it is stored, found from current back  *)
(* to a null reference.  A missing register, a register that holds no      *)
(* record and a cycle all leave no chain, and the step fails.              *)

StoredRecords(b) == {h \in Id : Fits(b, h, 0, ActSize) /\ Val(b, h) \in ActivationRecord}

\* The storages s, root first, of a chain that ends in c.
IsChain(b, c, s) ==
    /\ c = IF s = <<>> THEN Null ELSE s[Len(s)]
    /\ \A i \in 1..Len(s) :
          Val(b, s[i]).previous = IF i = 1 THEN Null ELSE s[i - 1]

\* The chain that ends in c, if there is one: it meets no register twice, so
\* it is empty, c alone, or a root, other records and c.
Chains(b, c) ==
    LET R == StoredRecords(b)
        roots == {h \in R : Val(b, h).previous = Null}
        others == R \ (roots \cup {c})
        between == UNION {[1..n -> others] : n \in 0..Cardinality(others)}
        candidates == {<<>>, <<c>>} \cup {<<r>> \o t \o <<c>> : r \in roots, t \in between}
    IN  {s \in candidates : s \in Seq(R) /\ IsChain(b, c, s)}

FramesOf(b, s) == [i \in 1..Len(s) |-> [record |-> Val(b, s[i]), storage |-> s[i]]]

-----------------------------------------------------------------------------
(* The constructor: each host activation gets an empty result register and *)
(* a register for its record, linked to the one before it.                 *)

FirstId == Len(HostRegisters)
HostStorage(i) == FirstId + 2 * i - 1
HostRecord(i) ==
    [procedure |-> HostFrames[i].procedure, position |-> HostFrames[i].position,
     cell |-> HostFrames[i].cell, localResolver |-> HostFrames[i].localResolver,
     previous |-> IF i = 1 THEN Null ELSE HostStorage(i - 1),
     result |-> HostStorage(i) - 1, prefix |-> NoPrefix]

Init ==
    LET n == Len(HostFrames)
        frame(h) == (h - FirstId) \div 2 + 1
        made(h) == IF h = HostStorage(frame(h)) THEN Stored(HostRecord(frame(h))) ELSE Empty
    IN  /\ bank = [entries |-> [h \in 0..(FirstId + 2 * n - 1) |->
                       IF h < FirstId THEN HostRegisters[h + 1]
                       ELSE [contents |-> made(h), immutable |-> FALSE,
                             protected |-> FALSE]],
                   next |-> FirstId + 2 * n]
        /\ current = HostStorage(n)
        /\ activations =
               [i \in 1..n |-> [record |-> HostRecord(i), storage |-> HostStorage(i)]]
        /\ owned = [h \in Id |->
               IF \E i \in 1..n : h = HostStorage(i) THEN {h - 1, h} ELSE {}]

-----------------------------------------------------------------------------
(* The step.  The running activation is the owner of the prefix; a read    *)
(* prefix moves the reading of the instruction to the activation `depth`   *)
(* calls below, a modify prefix what the instruction changes.              *)

\* Mutated: the depth is counted from the root.
LocalsFromRoot(frames) ==
    LET top == Len(frames)
        prefix == frames[top].record.prefix
        index(kind) == IF prefix.kind = kind THEN prefix.depth + 1 ELSE top
    IN  [frames |-> frames, top |-> top, prefix |-> prefix,
         read |-> index("read"), modify |-> index("modify")]

Locals(frames) ==
    LET top == Len(frames)
        prefix == frames[top].record.prefix
        index(kind) == IF prefix.kind = kind THEN top - prefix.depth ELSE top
    IN  [frames |-> frames, top |-> top, prefix |-> prefix,
         read |-> index("read"), modify |-> index("modify")]

\* The local variables of step_impl once the chain is reloaded and the
\* prefix is resolved; none when that fails and the step with it.
Loaded ==
    {m \in {Locals(FramesOf(bank, s)) : s \in Chains(bank, current) \ {<<>>}} :
        m.prefix.kind \in {"read", "modify"} => m.prefix.depth < m.top}

Record(m, i) == m.frames[i].record
Owner(m) == Record(m, m.top)
Reader(m) == Record(m, m.read)
Modified(m) == Record(m, m.modify)

Suppressed(m) == m.prefix.kind = "condition" /\ ~m.prefix.condition

\* The current node can be read.
CanStep(m) == CellOK(bank, Owner(m)) /\ NodeOK(bank, NodeOf(bank, Owner(m)))

\* decode_builtin on the reader's procedure; an instruction is one unit.
Decoded(m) == Reader(m).position + 1
CanDecode(m) ==
    Exists(bank, Reader(m).procedure) /\ Decoded(m) <= Size(bank, Reader(m).procedure)

\* Every builtin but FINISH_CALL moves a network on to `next`, which must
\* be a node and must fit into the state cell of the modified activation.
CanBranch(m, next) ==
    /\ CanStep(m)
    /\ CanDecode(m)
    /\ NodeOK(bank, next)
    /\ CellWritable(bank, Modified(m))
    /\ Exists(bank, Modified(m).procedure)

NoPosition == Null

\* The records after the command: the position moves in the reader under a
\* read prefix (an explicit position still goes to the modified activation)
\* and in the modified activation otherwise; the owner's prefix is replaced.
Advanced(m, explicit, prefix) ==
    LET position(i) ==
            IF i = m.modify /\ explicit # NoPosition THEN explicit
            ELSE IF i = (IF m.prefix.kind = "read" THEN m.read ELSE m.modify)
                 THEN Decoded(m)
            ELSE m.frames[i].record.position
    IN  [i \in 1..m.top |->
            [m.frames[i] EXCEPT !.record.position = position(i),
                              !.record.prefix = IF i = m.top THEN prefix ELSE @]]

\* Mutated: the new position is held against the procedure it was read in.
PositionOKInReader(m, explicit) ==
    m.prefix.kind = "read" \/
    (IF explicit = NoPosition THEN Decoded(m) ELSE explicit) <= Size(bank, Reader(m).procedure)

\* "new procedure position is out of range"
PositionOK(m, explicit) ==
    m.prefix.kind = "read" \/
    (IF explicit = NoPosition THEN Decoded(m) ELSE explicit) <= Size(bank, Modified(m).procedure)

\* Mutated: one record is not written back.
TouchedWithoutReader(m) == {m.modify, m.top}
TouchedWithoutModified(m) == {m.read, m.top}

\* persist_activation for each activation the command may have changed.
Touched(m) == {m.read, m.modify, m.top}
CanPersist(m, b) ==
    \A i \in Touched(m) :
        CanChange(b, m.frames[i].storage) /\ ActSize <= Size(b, m.frames[i].storage)
Persisted(m, b, frames) ==
    [b EXCEPT !.entries = [h \in DOMAIN b.entries |->
        IF \E i \in Touched(m) : frames[i].storage = h
        THEN [b.entries[h] EXCEPT !.contents.val =
                 frames[CHOOSE i \in Touched(m) : frames[i].storage = h].record]
        ELSE b.entries[h]]]

\* The end of a builtin whose effect made the bank `b`: the state cell of
\* the modified activation moves on, then the records are written.
Finished(m, b, next, frames) == Persisted(m, SetVal(b, Modified(m).cell, next), frames)
CanFinish(m, b, explicit) ==
    PositionOK(m, explicit) /\ CellWritable(b, Modified(m)) /\ CanPersist(m, b)

Complete(m, b, next, explicit, prefix) ==
    /\ CanFinish(m, b, explicit)
    /\ activations' = Advanced(m, explicit, prefix)
    /\ bank' = Finished(m, b, next, activations')
    /\ UNCHANGED <<current, owned>>

-----------------------------------------------------------------------------
(* enter_call: the new activation runs `procedure` from position 0, in the *)
(* network at `entry`, or in the caller's own state cell when there is no  *)
(* entry.  `b` and `frames` are what the caller's command left; the        *)
(* caller's record, current_storage_, is the last of them.                 *)

NoEntry == Null

CallableWhenMutable(b, procedure) == Exists(b, procedure)  \* Mutated

\* "called procedure must be immutable"
Callable(b, procedure) == Exists(b, procedure) /\ IsImmutable(b, procedure)

\* Mutated: the cell is always noted as the call's own, or never.
OwnedWithSharedCell(storage, record, newCell, ownsProcedure) ==
    {storage, record.result, record.cell}
        \cup (IF ownsProcedure THEN {record.procedure} ELSE {})
OwnedWithoutCell(storage, record, newCell, ownsProcedure) ==
    {storage, record.result} \cup (IF ownsProcedure THEN {record.procedure} ELSE {})

\* What the call made: a state cell or a procedure it shares is not its own.
Owned(storage, record, newCell, ownsProcedure) ==
    {storage, record.result} \cup (IF newCell THEN {record.cell} ELSE {})
                             \cup (IF ownsProcedure THEN {record.procedure} ELSE {})

EnterCall(b, frames, procedure, entry, ownsProcedure) ==
    LET caller == frames[Len(frames)].record
        newCell == entry # NoEntry
        b1 == IF newCell THEN Create(b, Cell(entry), FALSE) ELSE b
        result == b1.next
        b2 == Create(b1, Empty, FALSE)
        storage == b2.next
        record == [procedure |-> procedure, position |-> 0,
                   cell |-> IF newCell THEN b.next ELSE caller.cell,
                   localResolver |-> caller.localResolver,
                   previous |-> frames[Len(frames)].storage, result |-> result,
                   prefix |-> NoPrefix]
    IN  /\ Callable(b, procedure)
        /\ newCell => NodeOK(b, entry) /\ CanCreate(b)
        /\ CanCreate(b1)
        /\ CanCreate(b2)
        /\ bank' = Create(b2, Stored(record), FALSE)
        /\ current' = storage
        /\ activations' = Append(frames, [record |-> record, storage |-> storage])
        /\ owned' = [owned EXCEPT ![storage] = Owned(storage, record, newCell, ownsProcedure)]

\* A node of the other type calls ACTION in a network of its own.  The
\* caller's cell already stands at next0; its prefix stays pending.
CallNode(m) ==
    \E next \in NodeRefs, entry \in NodeRefs, procedure \in Id :
        /\ CanStep(m)
        /\ NodeOK(bank, next)
        /\ CanChange(bank, Owner(m).cell)
        /\ EnterCall(SetVal(bank, Owner(m).cell, next), m.frames, procedure, entry, FALSE)

\* A call command completes for the caller, then enters.
CallControlOK(m) == m.prefix.kind = "modify" => m.prefix.depth = 0

CompleteAndCall(m, b, next, procedure, entry, ownsProcedure) ==
    LET frames == Advanced(m, NoPosition, NoPrefix)
    IN  /\ CallControlOK(m)
        /\ CanFinish(m, b, NoPosition)
        /\ EnterCall(Finished(m, b, next, frames), frames, procedure, entry, ownsProcedure)

SwitchProcedure(m) ==
    \E next \in NodeRefs, procedure \in Id :
        /\ CanBranch(m, next) /\ ~Suppressed(m)
        /\ CompleteAndCall(m, bank, next, procedure, NoEntry, FALSE)

SwitchNetwork(m) ==
    \E next \in NodeRefs, entry \in NodeRefs :
        /\ CanBranch(m, next) /\ ~Suppressed(m)
        /\ CompleteAndCall(m, bank, next, Reader(m).procedure, entry, FALSE)

\* 1000 copies the body of the procedure into a register of the call's own.
SwitchProcedureAndNetwork(m) ==
    \E next \in NodeRefs, entry \in NodeRefs, size \in Sizes :
        /\ CanBranch(m, next) /\ ~Suppressed(m)
        /\ CanCreate(bank)
        /\ CompleteAndCall(m, Create(bank, [size |-> size, val |-> Code], TRUE),
                           next, bank.next, entry, TRUE)

-----------------------------------------------------------------------------
(* finish_call deletes what the call owns, unless a surviving activation   *)
(* still uses some of it; the caller goes on where its cell stands.        *)

\* Mutated: the node the caller's network stands at is not looked at.
UsesButNode(b, frame, h) ==
    \/ h \in {frame.storage, frame.record.procedure, frame.record.result, frame.record.cell}
    \/ frame.record.localResolver # Null /\ h = frame.record.localResolver.id

Uses(b, frame, h) ==
    \/ h \in {frame.storage, frame.record.procedure, frame.record.result,
              frame.record.cell, NodeOf(b, frame.record).id}
    \/ frame.record.localResolver # Null /\ h = frame.record.localResolver.id

CanDecodeFinish(m) ==
    /\ CanStep(m)
    /\ Exists(bank, Reader(m).procedure)
    /\ Reader(m).position <= Size(bank, Reader(m).procedure)

DiscardedNone(b, own) == b  \* Mutated

Discarded(b, own) ==
    [b EXCEPT !.entries = [h \in DOMAIN b.entries \ own |-> b.entries[h]]]

FinishCall(m) ==
    LET callers == SubSeq(m.frames, 1, m.top - 1)
        own == owned[current]
    IN  /\ CanDecodeFinish(m) /\ ~Suppressed(m)
        /\ CallControlOK(m)
        /\ m.top > 1 =>
              /\ CellOK(bank, callers[m.top - 1].record)
              /\ NodeOK(bank, NodeOf(bank, callers[m.top - 1].record))
              /\ own # {} => \A i \in 1..(m.top - 1) :
                    /\ CellOK(bank, callers[i].record)
                    /\ \A h \in own : ~Uses(bank, callers[i], h)
        /\ \A h \in own : CanErase(bank, h)
        /\ bank' = Discarded(bank, own)
        /\ activations' = callers
        /\ owned' = [owned EXCEPT ![current] = {}]
        /\ current' = Owner(m).previous

\* A suppressed FINISH_CALL only drops the prefix: it is met again.
SuppressedFinish(m) ==
    LET frames == [m.frames EXCEPT ![m.top].record.prefix = NoPrefix]
    IN  /\ CanDecodeFinish(m) /\ Suppressed(m)
        /\ CanChange(bank, current) /\ ActSize <= Size(bank, current)
        /\ activations' = frames
        /\ bank' = SetVal(bank, current, frames[m.top].record)
        /\ UNCHANGED <<current, owned>>

-----------------------------------------------------------------------------
(* The other commands. *)

\* A false condition takes away the effect and nothing else; suppressed
\* prefix commands are still "cannot combine active prefixes".
SuppressedCommand(m) ==
    \E next \in NodeRefs :
        /\ CanBranch(m, next) /\ Suppressed(m)
        /\ Complete(m, bank, next, NoPosition, NoPrefix)

\* Mutated: prefixes combine.
SetPrefixOverPrefix(m, next, prefix) ==
    CanBranch(m, next) /\ Complete(m, bank, next, NoPosition, prefix)

SetPrefix(m, next, prefix) ==
    /\ CanBranch(m, next)
    /\ m.prefix.kind = "none"
    /\ Complete(m, bank, next, NoPosition, prefix)

DepthsPastRoot(m) == 0..m.top  \* Mutated

\* activation_index finds the activation at every depth below the count.
Depths(m) == 0..(m.top - 1)

ReadPrefix(m) ==
    \E next \in NodeRefs : \E depth \in Depths(m) :
        SetPrefix(m, next, [kind |-> "read", depth |-> depth, condition |-> FALSE])

ModifyPrefix(m) ==
    \E next \in NodeRefs : \E depth \in Depths(m) :
        SetPrefix(m, next, [kind |-> "modify", depth |-> depth, condition |-> FALSE])

ConditionPrefix(m) ==
    \E next \in NodeRefs, condition \in BOOLEAN :
        SetPrefix(m, next, [kind |-> "condition", depth |-> 0, condition |-> condition])

Branch(m) ==
    \E next \in NodeRefs :
        /\ CanBranch(m, next) /\ ~Suppressed(m)
        /\ Complete(m, bank, next, NoPosition, NoPrefix)

\* COMPUTE, COPY and GET_REGISTER_SIZE: the destination is filled to its
\* end, so its size stays and what it held may not.
Live(m) == UNION {{m.frames[i].storage, m.frames[i].record.cell} : i \in 1..m.top}
Values(m) ==
    IF Disciplined THEN {Data}
    ELSE {Data} \cup NodeRefs \cup {Record(m, i) : i \in 1..m.top}

\* validate_destination
DestinationOK(h, v) == CanChange(bank, h) /\ Need(v) <= Size(bank, h)

StoreData(m) ==
    \E next \in NodeRefs, h \in Targets : \E v \in Values(m) :
        /\ CanBranch(m, next) /\ ~Suppressed(m)
        /\ DestinationOK(h, v)
        /\ Disciplined => h \notin Live(m)
        /\ Complete(m, SetVal(bank, h, v), next, NoPosition, NoPrefix)

\* The result of a call goes to the register of the activation that is the
\* caller of the modified one, whatever its size was.
ReturnResult(m) ==
    \E next \in NodeRefs, size \in Sizes \cup {0} :
        /\ CanBranch(m, next) /\ ~Suppressed(m)
        /\ m.modify > 1
        /\ LET result == m.frames[m.modify - 1].record.result
           IN  /\ CanChange(bank, result)
               /\ Complete(m, SetContents(bank, result, [size |-> size, val |-> Data]),
                           next, NoPosition, NoPrefix)

SetProcedurePosition(m) ==
    \E next \in NodeRefs :
        /\ CanBranch(m, next) /\ ~Suppressed(m)
        /\ \E position \in 0..Size(bank, Modified(m).procedure) :
              Complete(m, bank, next, position, NoPrefix)

\* Mutated: a result register may be deleted.
InUseButResult(frame) ==
    {frame.storage, frame.record.procedure, frame.record.cell, frame.record.previous}

\* validate_resize_target: what an active activation refers to is neither
\* deleted nor cut short.
InUse(frame) ==
    {frame.storage, frame.record.procedure, frame.record.cell,
     frame.record.result, frame.record.previous}
        \cup {ref.id : ref \in {frame.record.localResolver} \ {Null}}

\* Mutated: only the length, or only the start, is held against the size.
StillFitsAtZero(h, size, id, off, n) == h = id => n <= size
StillFitsStart(h, size, id, off, n) == h = id => off <= size

\* n bits at off, if they lie in the resized register h, stay inside it.
StillFits(h, size, id, off, n) == h = id => off + n <= size

ResizeOK(m, h, size, next) ==
    LET node(ref) == StillFits(h, size, ref.id, ref.off, NodeSize)
    IN  /\ Exists(bank, h) => ~IsImmutable(bank, h)
        /\ \A i \in 1..m.top :
              LET record == Record(m, i)
              IN  /\ size = 0 => h \notin InUse(m.frames[i])
                  /\ StillFits(h, size, m.frames[i].storage, 0, ActSize)
                  /\ StillFits(h, size, record.cell, 0, RefSize)
                  /\ StillFits(h, size, record.previous, 0, ActSize)
                  /\ record.localResolver # Null => node(record.localResolver)
                  /\ CellOK(bank, record)
                  /\ node(NodeOf(bank, record))
        /\ node(NodeOf(bank, Owner(m)))
        /\ node(next)

ResizeRegister(m) ==
    \E next \in NodeRefs, h \in Targets, size \in Sizes \cup {0} :
        /\ CanBranch(m, next) /\ ~Suppressed(m)
        /\ ResizeOK(m, h, size, next)
        /\ CanResizeOrCreate(bank, h, size)
        /\ Complete(m, ResizedTo(bank, h, size), next, NoPosition, NoPrefix)

-----------------------------------------------------------------------------

\* step rejects "activation depth limit exceeded" once all else is done.
WithinDepth == Len(activations') <= MaxDepth

Next ==
    \/ \E m \in Loaded : CallNode(m) /\ WithinDepth
    \/ \E m \in Loaded : SwitchProcedure(m) /\ WithinDepth
    \/ \E m \in Loaded : SwitchNetwork(m) /\ WithinDepth
    \/ \E m \in Loaded : SwitchProcedureAndNetwork(m) /\ WithinDepth
    \/ \E m \in Loaded : FinishCall(m)
    \/ \E m \in Loaded : SuppressedFinish(m)
    \/ \E m \in Loaded : SuppressedCommand(m)
    \/ \E m \in Loaded : ReadPrefix(m)
    \/ \E m \in Loaded : ModifyPrefix(m)
    \/ \E m \in Loaded : ConditionPrefix(m)
    \/ \E m \in Loaded : Branch(m)
    \/ \E m \in Loaded : StoreData(m)
    \/ \E m \in Loaded : ReturnResult(m)
    \/ \E m \in Loaded : SetProcedurePosition(m)
    \/ \E m \in Loaded : ResizeRegister(m)

Spec == Init /\ [][Next]_vars
=============================================================================
