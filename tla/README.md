# A verification project for ubcm

ubcm is a virtual machine (C++23) that runs *networks*: graphs of nodes kept as
bits in registers. A node holds a builtin command or calls a procedure; a
procedure is a bit string that the commands read their arguments from. All of
the machine's own state (the position in a network, the position in a
procedure, the chain of calls) lives in registers too, where the program can
reach it. This directory holds TLA+ modules that model the machine, TLC
configurations that check them, and TLAPS proofs about them.

Paths below are relative to the repository; `vm.cpp` is `src/src/vm.cpp` and so on.

## 1. Inventory

| Component | State | Operations | Where it can go wrong |
|---|---|---|---|
| Register bank (`registers.cpp`) | `entries_` (handle → bits, immutable, protected), `next_id_` | create, insert, erase, resize, resize_or_create, write, replace, protect_existing | three ways for an id to come into use, two marks that operations check in different places, the end of the id space |
| Machine step (`vm.cpp` step, step_impl) | bank, `current_storage_`, `activations_` (a snapshot), `owned_`, `resolvers_` | 15 commands and the call node | several records change in one step; prefixes redirect what is read and what is changed to suspended activations |
| Calls (`vm.cpp` enter_call, finish_call) | the registers each call owns | call node, 0110, 0111, 1000, 1011 | shared cells and procedures, registers of a call that survivors still use, leaks, double deletion |
| Activation chain (`vm.cpp` reload_activations, persist_activation; `activation.cpp`) | records in registers | reload at each step, write back after each | snapshot and stored chain drift apart; a program forges records |
| Network resolvers (`resolver.cpp`) | a protected copy of bank and machine per query, the shared step budget, the level | resolve_name, resolve_register, run_resolver, RESOLVE_RETURN | runs in the middle of a step, nests, must end, must not touch the asker |
| Name tables (`registers.cpp` NameResolver) | name → address | bind, unbind, resolve | a name bound twice |
| Operands (`operand.cpp`) | none | selectors, references (direct, indirect, foreign), destinations | references stored in memory that lead in circles or into another activation, 64-bit offsets, short values in long registers |
| Bit vector (`bit_vector.cpp`) | `bytes_`, `bit_size_` | append, set, resize, slice, write, clear, bytes | padding bits of the last byte |
| Codecs (`addressing.cpp`, `builtin.cpp`, `bit_cursor.cpp`, `codec.cpp`, `node.cpp`, `runtime_reference.cpp`, `activation.cpp`) | a cursor | encoders and decoders | self-delimiting sizes, minimal encodings, edges of 64 bits, cursors after a failure |
| Arithmetic (`arithmetic.cpp`) | none | 32 operations on words and floats | wrap-around, zero, signs, rounding, infinities |
| Program container (`program.cpp`) | none | validate, encode, decode, load | an image whose parts do not fit |
| Runner (`apps/ubcm.cpp`) | bank, machine, resolvers | merge of a procedure file, registers of the host, root activation, global resolver | steps that fail one by one, ids at the end of the space |
| Demo (`examples/make_demo.cpp`) | none | I/O | – |

How they interact: the host loads a program into a bank, gives the constructor
one activation or more, and calls `run`, which calls `step`. A step copies bank
and machine, reloads the chain from the registers, resolves the prefix, decodes
a command, resolves operands (which may run resolvers on further copies, nested
inside the step), changes the copies and swaps them in if nothing failed. There
are no threads; what makes the system hard is reentrancy (a resolver inside a
step), aliasing (the program reaches the machine's own registers, and calls
share them), and partial failure inside a step.

PROJECT.json lists each hazard at its line with the properties that watch it.

What makes each component correct, in short: the bank never hands out an id
that is in use and never changes a locked register; an active activation keeps
everything it refers to; every register of a call goes away with it and no other
does; suspended activations stay as they were but for what a prefix names; the
snapshot is the stored chain; a query leaves its asker alone and ends; a step
takes place as a whole or not at all; a reference is chased in the context it
belongs to; a decoder accepts what its encoder writes and nothing else, and
leaves the cursor alone when it fails; a program that loads starts with nothing
dangling.

## 2. Modules

| Module | What it is |
|---|---|
| `Registers` | the bank as operators on a value `[entries, next]`: one `Can...` (when the code returns no error) and one result per operation |
| `RegisterBank` | the bank alone, on real bit strings: an action per public operation, any order |
| `Vm` | the machine: an action per command, the constructor as `Init` |
| `CallStack` | abstract specification of calls and returns: a stack of register sets |
| `VmProperties` | the properties of the machine, and its refinement mapping to `CallStack` |
| `VmReuse` | the machine with a history of deleted ids |
| `Resolver` | name queries over `VmProperties`: a stack of waiting machines |
| `AtomicStep` | abstract specification of a step: as a whole or not at all |
| `StepTransaction` | `run` and `step` with their copies, swaps, errors and limits; implements `AtomicStep` |
| `ActivationChain` | `Vm` with `reload_activations` as the loop it is, for programs that write over their own records |
| `Operand` | references chased through memory, sources and destinations |
| `BitString` | abstract specification of a bit vector: a string of bits |
| `BitVector` | the bit vector in bytes; implements `BitString` |
| `Codec` | cursor, sizes, bit strings, integers, floats, values |
| `Formats` | over `Codec`: operands, handles, runtime references, nodes, activation records |
| `Instruction` | over `Formats`: the arguments of the 15 commands |
| `Container` | over `Formats`: procedure files, images, what makes an image valid |
| `Arithmetic` | the 32 operations of COMPUTE |
| `Stream` | writers and readers of all of these, and COMPUTE on what was read |
| `Runner` | the command line program up to the first step, over `Container` and `Registers` |
| `MC...` | the instances TLC checks |
| `RegistersProofs` | lemmas about the operations of the bank |
| `BankAndStepProofs` | proofs about the bank, and about `StepTransaction` |
| `VmProofs` | proofs about the machine |
| `ContextProofs` | over `VmProofs`: proofs about name queries and about the reload |
| `BitVectorProofs`, `OperandProofs` | proofs about these components |
| `CodecProofs` | lemmas about all codecs, in both directions |
| `StreamProofs` | over `CodecProofs`: proofs about `Runner` and `Stream`, with images and arithmetic |

### How `Vm` corresponds to the code

* `bank` is `*registers_`, `current` is `current_storage_`, `activations` is
  `activations_`, `owned` is `owned_`. `resolvers_` holds the host's name tables
  and no machine state; it is left out.
* A **step is one action**. `step` works on copies and publishes them with swaps
  that cannot fail, so a failing step changes nothing: it is a stuttering step.
  That `step` really has this effect is the subject of `StepTransaction`.
* `Loaded` is `reload_activations` and the prefix: the local variables of
  `step_impl` (`owner`, `read_frame`, `modify_frame`). `Chains(b, c)` is the set
  of chains that lead from `c` back to a null reference through registers that
  hold records; it has at most one element and none where the code returns an
  error (a register without a record, a cycle).
* `CanStep`, `CanDecode`, `CanBranch` are the checks before the `switch` in
  the order of the code; each command is an action with its own checks;
  `Complete` is everything after the `switch` (position check, state cell,
  positions, prefix, records written back).
* `EnterCall`/`FinishCall` are `enter_call`/`finish_call` line for line.
* The **program** is nondeterministic. Which command the node holds, which
  branch is taken, what operands name and which sizes are asked for are chosen by
  the action from small sets (`NodeRefs`, `Targets`, `Sizes`): the most general
  program over those registers.
* The **contents** of a register are a size and a value: an activation record, a
  node reference, `Code` or `Data`. Sizes are bit counts of which only the order
  matters (`RefSize` 1, `NodeSize` 2, `ActSize` 3 stand for 128, 592, 744). A
  position counts instructions; decoding one moves it by one. A record that
  shrinks below its size, or that is written over, is `Data` from then on.
* Records and state cells are at offset 0 of their registers, where the machine
  puts them itself. A host that places a state cell at another offset, or runs an
  activation on the body handle of class `procedure`, is not modelled.
* `Disciplined = TRUE` keeps COMPUTE, COPY and GET_REGISTER_SIZE from writing
  over live records and cells: a program that does so writes its own machine
  state and gets what it wrote. Resizing, deleting and RETURN_RESULT are *not*
  restricted: against those the code defends itself.

### How `Resolver` corresponds to the code

`run_resolver` copies the machine, protects every register of the copy, creates
the name as a procedure, calls the network and steps the copy until
RESOLVE_RETURN. A step of the copy may ask again before it ends. So the variables
of `Vm` are the innermost machine, `waiting` is the stack of machines that asked,
`busy` says that the innermost machine is inside a step, and a step is split:
`BeginStep` (the budget is charged first), `Ask` any number of times, then
`EndStep` with a command of `Vm`, or `ResolveReturn`, or `Fail`. All operands of
a command are resolved before the command changes anything, so the machine that
asks is the one the step began with. An error goes all the way out to the
host's step (`Fail` drops every level). The host's own machine stands still
while it asks; `Ask` at level 0 is both the public `resolve_name` and an operand of
a host's step. Commands that write registers are banned in a resolver
(`vm.cpp:506`) and therefore absent from `Command`, except suppressed.
The answer, an address, is not kept: what it is used for is up to the operand.

### How `StepTransaction` corresponds to the code

`machine` maps each part of a `VirtualMachine` (registers, activations,
resolvers, ownership table, `current_storage_`, `resolved_address_`) to a value;
`staged` is the copy `step` makes. What the commands do to the parts is the
subject of `Vm`; here `Change` sets any part to anything, up to `MaxWork` times.
`FailStep` may stop it at any point: an error of `step_impl`, an exception, or the depth
limit. `EndStepImpl` is the return of a complete `step_impl`, of which only this
is known: the parts then belong together (`Coherent`); it includes the depth check,
which the code makes on the copy. Then one `Swap` per part, in the order of the code;
two of them are plain assignments. `Run`, `BeginStep`, `EndStep` and `ReturnResult`
are the loop of `run` with its counter. The refinement mapping is
`Published`, the machine a host would find if the swaps under way were done: no
code runs between two of them and none can fail.

### How `ActivationChain` corresponds to the code

It extends `Vm` with `Disciplined = FALSE`: data commands write any record
into any of `Targets`, forged ones of other activations among them. A step is
`Begin`, one `ReadRecord` per iteration of the loop (`visited` is the local set of
that name), then `ReloadEnds` and the rest of the step as an action of `Vm`
(`Execute`), or an error (`ReloadFails`, `Refuse`). `Vm` describes the same chain by
a definition (`Chains`); `ReloadFindsChain` says that the loop computes it.

### How `Operand` corresponds to the code

A register is a sequence of units, a unit being one encoded reference or one bit
(an immediate is 0 or 1, and its bits are none or one, since the code writes a number
without leading zeros); a place is a register and an offset, in words that end at `MaxOffset`. The arguments of
the recursion `resolve_reference_impl` (the reference, the activation whose names count,
the depth) are the variables `now`, `context` and `depth`; one call of it is one
`Follow`. COPY is a source chased and read (`ReadBits`, `ReadImmediate`), then a
destination chased and written (`Write`). What a name stands for is fixed per
activation (`Base`); names that run a network are the subject of `Resolver`. Since COPY
moves references like any other bits, the chains the second command meets can be
ones that the first has built; `trail` records the places on the way.

### How `BitVector`, `Codec`, `Formats`, `Instruction`, `Container` and `Arithmetic` correspond to the code

These are functions of the code and operators of the modules; a decoder gives a
value and a cursor, or a failure and a cursor, so that "errors consume nothing"
is something to check. Widths are constants: a size header of `HeaderBits`, bytes of
`ByteBits`, words of the resulting size, ids of `IdBits`; the code's values are
3, 8, 64 and 62. The formulas are those of the code with the widths in
place of the numbers. Fixed fields (magic, version, reserved flags) are constants
or zeros of the right length. `BitVector` keeps its bytes as bits, a multiple of eight,
so that padding exists; each call is an action and `called` records it, so
that `ImplementsBitString` compares call by call.

A double is an exact integer number of quanta: the formats differ from IEEE 754
only in size, have subnormals, infinities and rounding to even. Library functions
(`pow`, `sin`, ...) are external and give any of `External`. Words wrap.

`Stream` composes all of this: a writer appends items, a bit may flip, a
reader takes the stream for any kind, and `Compute` runs an operation on values that were
read, with the specification's own definition of each operation beside the code's.

### How `Runner` corresponds to the code

One action per part of the program that may fail: the last check of the decoder,
the procedure file put in place of the root's code, `load_program` (its validation, then
one register and its name at a time), the state cell, the local resolver, the
constructor with the result and record of the root, the global resolver. `why` is the
call that failed. Files are given decoded (the decoders are in `Stream`); the
bank is `Registers`, the name table a function.

## 3. Runs

| Run | Instance | Question |
|---|---|---|
| `register_bank` | ids 0..1, registers of up to 2 bits, all operations | Does the allocator stay ahead, and are locked registers kept? The two ids reach every case: below, at and past `next_id_`, and the exhausted space |
| `vm_calls` | one host activation, up to 3 activations, 11 ids, no data commands | Are records, prefixes and ownership right through every mix of calls, prefixes and returns? Three activations are the smallest chain where root, reader or modified, and owner all differ |
| `vm_networks` | two host activations, networks in registers 0 and 5 (the result register of the second host activation), 1100 on 5 | What of networks that live in registers of calls, with modify prefixes that move the caller's cursor into them? |
| `vm_storage` | one host activation with a resolver, data and resize commands on its own network, cell, record, result and on free ids | Can a program take a register away from an activation? |
| `vm_reuse` | as above, small | violation: see below |
| `resolver` | two host activations, the root with a local resolver; 4 steps, 2 levels, 2 calls | Is the asker untouched, at every level, and does the query end? Two levels are enough for a query of a query; 4 steps are enough for a prefix to reach the asker, a return past the query's base, and for a query after an answered one |
| `step` | three values per part, budgets 0 and 2, depths 1 and 2, up to 5 staged changes; the parts belong together when all but the returned address are of the same step | Does a step take place as a whole or not at all, and does a run give control back? Five changes move all parts that have to agree from one coherent machine to another, and fewer leave them torn |
| `activation_chain` | one host activation, up to 3 activations, 10 ids, data commands on four of them, not disciplined | Does the reload end, and with the chain that is stored; what can a return on a forged chain delete? Two records besides the root make every cycle length that matters: a record that names itself, and one that closes a longer circle |
| `operand` | two activations, a depth limit of 2, offsets to 3, memories that hold references, two commands | Is every reference resolved in its own activation, does the chase end, does a write fill its register? Two commands let the second follow what the first wrote |
| `bit_vector` | vectors of up to 9 bits | Is it a string of bits, call by call? Nine bits have a boundary of bytes with padding on either side |
| `stream` | words of 6 bits, ids of 4, every stream of up to 10 bits, all kinds of items written, pairs of them, one bit flipped | Are encoders and decoders inverse, inputs canonical, errors without effect, results those of the specification? Headers and bytes of these widths have every boundary of the real ones: longest size, full word, null reference, most negative number |
| `runner` | images of one or two registers at ids from the first to the last of 4 bits, their networks of one or two nodes of three kinds, flags right and wrong; procedure files that match or do not, of data or nodes; resolver addresses | Does the program fail only for a reason the user gave, and is what starts complete? Four bits of id leave room for the machine's registers or do not |

The ids are bounded by `MaxId`; where they run out, creating fails as it does
in the code at 2^62. `MaxDepth` is the argument of `step`. Deadlock is checked in
`register_bank`, `resolver`, `step` and `bit_vector`, which can always go on.
The machine halts when its root returns, and stops for good at a step that fails
(the code would fail the same step again), so `vm_*` and `activation_chain` do not
ask for it; neither do `stream` (a reader stops at its error), `operand`
(`MaxCommands`) and `runner` (the program ends).

What is checked:

* `SnapshotStored` (`vm_calls`, `vm_storage`): what the accessors show is the
  chain stored in the registers.
* `ActiveReferencesLive`, `ActiveNodesInBounds` (`vm_networks`, `vm_storage`):
  nothing an active activation refers to is deleted, cut short or made writable.
  `ActiveNodesInBounds` has one exception the code has too: RETURN_RESULT replaces
  a result register without a look at who stands in it (`vm.cpp:685`).
* `OwnershipPartition` and `ImplementsCallStack`, the refinement of `CallStack`
  (`vm_calls`): no leak, no double deletion, no register that a call takes from
  another.
* `PositionsInRange`, `PrefixTargetsExist`, `PrefixConsumedOnce`,
  `SuspendedActivationsStable` (`vm_calls`): what prefixes may do.
* `NextIdFresh`, `ProceduresKept` (`vm_storage`): ids of calls are new; running
  code stays.
* `AskerProtected`, `AskerContext`, `QueryEnds`, `ResolverTypeOK` (levels and
  depths of queries) (`resolver`).
* `ImplementsAtomicStep`, `RunReturns` (`step`): a failed step leaves every part
  of the machine; a successful one publishes parts that belong together; a run ends.
* `ReloadFindsChain`, `EachRecordOnce`, `ReturnsKeepHostRegisters`
  (`activation_chain`): the reload reads no record twice and finds the one chain there
  is or none; a return deletes registers of the call's own only, whatever chain a
  program forged, since ownership is kept outside the registers.
* `ResolvesInOwnContext`, `CommandEnds`, `WritesValueAndZeros` (`operand`): the
  chase agrees with a definition of the place a reference stands for, with
  unbounded offsets; it ends within the depth limit; a write leaves nothing of
  what was there before.
* `BytesCanonical`, `ImplementsBitString` (`bit_vector`).
* `CanonicalInput`: what a decoder accepts is what the encoder writes for the
  value. `FailedReadKeepsCursor`. `ReadsBackWhatWasWritten`, also with something
  behind it. `ComputesAsSpecified`: against the definitions of
  `docs/specification-v2.md` (`stream`).
* `FailsForAReason`: the program stops with an error only if the image, the file
  or the options are at fault. `StaticReferencesLand`: references the image
  makes lead to what it says. `MachineReady`: what the first step needs is
  there (`runner`).

**Fairness.** Three specifications have any, each weak fairness of one loop that the
code itself keeps going: `ResolverSpec` of `Running` (the loop in `run_resolver`),
`Operand` of `Proceed` (a command, once it has begun), `StepTransaction` of `Proceed`
(`run`, once a host has called it). Nothing is assumed of hosts and programs: a host
is free not to call `step`, so `Vm` has no fairness. In `StepTransaction` it is `MaxWork`
that ends a single step, standing for the loops of `step_impl` that the other
modules show to end.

**Finding** (`vm_reuse`). `docs/specification-v2.md:72` says that the id of a
deleted register is not used again before the machine ends. Command 1100 creates
a register under any free id (`registers.cpp:166`), so an id that a return or an
earlier 1100 has freed comes back, and a stale handle names a new register.
`create` itself never does so (`IdsBelowNext`).

Every property of a passing run has a mutant: an operator marked "Mutated" in the
module, beside the one it changes, under which TLC finds the property violated.

## 4. Proofs

All theorems hold for every value of the constants under the named assumptions
of each module (`RegistersAssumption`, `MaxSizeAssumption`, `VmAssumption`,
`ResolverAssumption`, `StepAssumption`, `BitVectorAssumption`, `OperandAssumption`,
`CodecAssumption`, `FormatsAssumption`, `InstructionAssumption`, `ContainerAssumption`,
`ArithmeticAssumption`, `ExternalAssumption`, `StreamAssumption`, `RunnerAssumption`),
which TLC evaluates on every run of the module. The assumptions on widths say what the
constants of the code satisfy: an id with its two class bits fits a word, a field holds
every command number, a program header is whole bytes.

### The bank: `RegistersProofs`, `BankAndStepProofs`

* `BankTypeCorrect`, `AllocatorAhead`: `TypeOK` and `IdsBelowNext`. The inductive
  invariant is their conjunction with "every live id is in the history", without
  which a create could not be shown to use an id that is not live.
* `ImmutableRegistersKept`, `ProtectedRegistersKept`: action properties. Each
  operation is first shown to keep locked entries (`Keeps`), from lemmas of
  `RegistersProofs` on what each bank operator does to the table.

### The machine: `VmProofs`

*For every host and every program, also undisciplined ones*:
`MachineTypeCorrect` (`TypeOK`) and `CallsGetFreshIds` (`NextIdFresh`), together
in one invariant `Inv`. A step builds several banks one after the other, and a call
succeeds in creating its registers only because each of those banks has its next id
above all its registers; `GoodBank` is that invariant of one bank, with a lemma for
each helper that makes a bank from another.

*For disciplined programs on a host that keeps its side*: all other safety
properties of `VmProperties`. The two hypotheses, and why they are there:

* `Disciplined`: data commands do not write over live records and cells. Without
  it a program may store any record it likes where its own is read from, and the
  activations are what it says (what still holds is in `ContextProofs`, under the reload).
  It does not restrict resizing, deleting and RETURN_RESULT.
* `HostOK`: the activations handed to the constructor run read-only procedures
  from positions inside them, on state cells that may be written and nodes that
  exist. The constructor looks at none of it (`vm.cpp`), so without it a host can
  start a machine whose first state breaks `ActiveReferencesLive`. The runner provides
  it, for every image it accepts: `MachineStartsReady` below. `HostAssumption` of
  `MCVm` has TLC confirm it for the hosts of every run of the machine, so the
  hypothesis is one the checked instances satisfy.

| Theorem | Property |
|---|---|
| `MachineInvariant` | `MachineOK`, the inductive invariant |
| `SnapshotIsStored` | `SnapshotStored` |
| `ReferencesStayLive`, `NodesStayInBounds` | `ActiveReferencesLive`, `ActiveNodesInBounds` |
| `OwnershipIsPartition` | `OwnershipPartition` |
| `PositionsStayInRange`, `PrefixTargetsStay` | `PositionsInRange`, `PrefixTargetsExist` |
| `SuspendedStable`, `PrefixActsOnce` | `SuspendedActivationsStable`, `PrefixConsumedOnce` |
| `ReadOnlyCodeKept` | `ProceduresKept` |
| `MachineImplementsCallStack` | `ImplementsCallStack`, the refinement |

`MachineOK` is `Inv` and `MachineKept`. None of the properties above is
inductive; the conjuncts of `MachineKept` are what each needs of the others:

* `Linked`: the frames of the snapshot are chained by their `previous` fields and lie
  in different registers. With "each register holds its record" (in `FrameKept`) the
  snapshot is a stored chain, and `ChainUnique` makes it *the* stored chain: two
  chains that end in the same register are equal. That is an argument by induction
  on length, made here with a least counterexample (`LeastNumber`, from the library's
  theorem on finite subsets): next to the position nearest to the end where the two
  differ is one where they agree, and the record there names the one before it. So what a step reads
  (`Loaded`, a definition over all chains) is what the snapshot says (`LoadedFrames`).
* `FrameKept`: record, result, cell and procedure of every activation exist, hold
  what they must and may be changed or not as they must. A step checks this of
  the activation that runs; it is needed of the suspended ones, on which a prefix
  acts and to which a call returns.
* `ResultsApart`: the result register of an activation is nobody's record and
  nobody's cell. Otherwise RETURN_RESULT, which looks at neither
  (`vm.cpp:685`), would overwrite one.
* `Safe`: a node is inside its register *or* stands in a result register: the
  exception the code has, as small as it can be stated.
* `OwnedOK`: a call owns its record and its result and at most its cell and
  procedure besides; owned sets are disjoint; a cell that a call does not own is that
  of the activation below. The last is what allows a return to delete what it
  owns: `Discarded` takes no register another frame still refers to.
* `PrefixesOK`: a pending prefix names an activation below its own, which therefore
  outlives the one that asked.

A step is one of three kinds, `Works`, `Enters` and `Returns`, and `MachineStep` shows
for each command which one it is (`StepKept`). The action properties and the
refinement of `CallStack` are consequences of the kind of step and `MachineOK` alone:
`Works` is `Work` or a stutter, `Enters` is `Call`, `Returns` is `Return`.

### Queries: `ContextProofs`

For every program, every network and every limit:

* `QueryTypeCorrect` (`ResolverTypeOK`) and `AskersProtected` (`AskerProtected`), for
  every host; `AskersKeepContext` (`AskerContext`) and `QuerySnapshotIsStored`
  (`SnapshotStored`) for hosts of `HostOK`.
* `QueriesAreBounded`: a variant. `Left` is a number that every step inside a query
  decreases and that the limits bound: the steps left of the budget, each weighed
  with `MaxLevels + 3`, and inside a step the levels still to come back from. This is the part of `QueryEnds` that needs no
  fairness: a query takes at most that many steps of the code. That it takes them is
  left to TLC.

`MachineOK` is *not* an invariant inside a query: every register of the copy
is protected, so that the cells of the asker can no longer be written to. `StackOK`
says of each machine on the stack that it is good in a weaker sense (`GoodMachine`,
`ChainKept`: snapshot, stored chain and readable cells agree), that each one
that answers has all registers of the one it answers, protected and unchanged, and
stands above its activations (`Answers`). Undisciplined writes are out of
the question there since resolvers may not write at all.

### The reload: `ContextProofs`

For every program, undisciplined ones above all:

* `ReloadIsExact` (`ReloadFindsChain`), `NoRecordTwice` (`EachRecordOnce`). `LoopOK`
  says that what the loop has read is a beginning, from the end backwards, of *any*
  chain that ends in the current register (`Follows`). If the loop fails there is
  therefore none: the next record of a chain would be one already read, but a chain
  meets no register twice (`ChainMeetsOnce`, from `ChainUnique`).
* `HostRegistersOutliveCalls` (`ReturnsKeepHostRegisters`). The invariant `OwnMade`:
  the allocator and all owned ids are at or above the first id the host left
  free. Ownership is kept outside the registers, so no forged record reaches it.

### A step: `BankAndStepProofs`

* `MachineCoherent`: `AlwaysCoherent`. Outside the swaps the machine is a coherent
  one and nothing is left to swap; during them the parts already swapped,
  together with the staged ones still to come, are.
* `StepIsAtomic`: `ImplementsAtomicStep`. The inductive invariant `IInv` adds to
  `AlwaysCoherent` the types and that a machine at work has not halted, which the
  abstract step asks for. `SwapInvisible` shows that no swap changes what is published,
  and `StepRefines` has one case per action.
* `RunsAreBounded`: the part of `RunReturns` that needs no fairness. A run takes at
  most `budget` steps, and `RunLeft` falls with each change, swap and step. The bound
  contains `MaxWork`, which stands for the loops of `step_impl` that end for
  reasons of their own (`NoRecordTwice`, `CommandsAreBounded`, `QueriesAreBounded`).

### The bit vector: `BitVectorProofs`

* `VectorCanonical`: `BytesCanonical`, which is inductive as it stands.
* `VectorIsString`: `ImplementsBitString`. `ResizedValue` says in one formula what
  resize leaves, out of the three cases of the code (old byte, new byte, cleared
  padding); it needs that the padding was clean before. From it and
  `OverwrittenBits` each call has one lemma for the invariant and the abstract call
  together.

### Operands: `OperandProofs`

For every memory, every set of activations and every limit of levels:

* `ChasesAreSound`: the inductive invariant `OperandInv`.
* `ChasesResolveInOwnContext` (`ResolvesInOwnContext`). The level counter is the
  number of *different* places gone through only while the chase has not come
  back to one it knows. `ChaseOK` therefore has the alternative `Trapped`, "the reference
  in hand has been followed before", and `ChaseKept` shows that a chase that meets a
  known place is trapped from then on, since memory does not change under it. A
  reference that was followed is not one a chase arrives at, so a chase that arrives
  was never trapped.
* `CommandsWriteValueAndZeros` (`WritesValueAndZeros`), from `WrittenRegister`, which
  says what stands at each position after a write.
* `CommandsAreBounded`: the part of `CommandEnds` that needs no fairness. `LevelsLeft`
  falls with each step that keeps a command going, from `2 * MaxDepth + 3` at most.

### The codecs: `CodecProofs`

Every codec is followed both ways. A *Taken* or *Back* lemma says that the bits an encoder
writes are read back as the value they were written from, to the last bit and whatever
follows; a *Met* lemma says that a decoder either fails and leaves the cursor alone, or
returns a value its encoder accepts and writes as exactly the bits that were read. The two
are different facts: the first could hold of a decoder that also takes other forms (a
size with leading zeros, a padding of ones, a reference of all ones), the second rules
that out.

* `Between(s, c, d, e)`, "the bits of `s` from `c` to `d` are `e`", is what the lemmas are
  about: spans are split where encodings are concatenated (`BetweenSplit`, `ChainSplit`),
  joined where decoders read one field after another (`BetweenJoined`), so that each codec
  is proved from those of its parts.
* Induction over data: the library's induction theorems take an operator, but induction
  over a *set* of numbers needs only the least element of its complement. `Induction`
  is proved from the theorems on finite sets, and the recursive functions and folds of
  `Codec` and `Formats` are first-order facts from there: what `UintBits` writes
  (`UintBack`), what a list of fields reads (`FieldsReadBack`, `FieldsRead`).
* Powers of two (`2^n` of the Integers module) have no theory in the provers. Their rules
  come from the same induction.

### Programs: `StreamProofs`

For every image, procedure file, resolver reference and width of the formats:

* `FailuresHaveAReason` (`FailsForAReason`): the loader stops with an error only
  where image, file or options are at fault. In particular no encoder fails on what
  was validated, and the allocator fails only when the ids run out.
* `ReferencesLand` (`StaticReferencesLand`): what `validate_program` checked of nodes it
  decoded from the image holds of the nodes in the registers afterwards.
* `MachineStartsReady` (`MachineReady`): the record in the root register decodes to
  the activation that was encoded, the state cell to the entry, and what they
  refer to exists. It is what `HostOK` asks of a host.

`RunnerInv` has a part for each stage of the loader: what the arguments were
(`ArgumentsInv`), what validation established (`ValidatedInv`), that the bank holds
the records imported so far at their ids and the allocator is ahead of them (`ImportInv`),
that the state cell and the root record are written (`CellInv`), that the checks of
the resolver are made (`CheckedInv`), and why it stopped (`ReasonInv`).

### Streams and arithmetic: `StreamProofs`

For every stream of bits and every item, of every kind:

| Theorem | Property |
|---|---|
| `StreamReached` | `StreamInv`, the inductive invariant |
| `ReadsAreCanonical` | `CanonicalInput` |
| `FailedReadsMoveNoCursor` | `FailedReadKeepsCursor` |
| `WrittenIsReadBack` | `ReadsBackWhatWasWritten` |
| `ComputationsAsSpecified` | `ComputesAsSpecified` |

None of the four properties is inductive: they speak of the last read and the last
result. `StreamInv` says that every item of `written` stands where it says, up to where
the next begins (`ItemsStand`), that the last result is what its decoder makes of
the stream (`ReadFrom`), that operands are values and the last result is a result of
them (`ComputedOf`). The properties then follow from `ItemBack`, "an item is read back",
and `ItemMet`, "what is read is written as it stood", which have one case per kind
of item.

`ItemBack` of a value that COMPUTE made rests on the arithmetic: `FromDouble` of a double
is a float with a mantissa and an exponent that fit their types, and `AsDouble` of it is
that double again (`DoubleBack`), because rounding leaves a number that is a double
alone (`RoundedIsNumber`). Sums, products, quotients and remainders are therefore values
that can be written. The modular power is computed by squaring; `PowerSteps` and
`ModularPowerIs` show that it is the product of its factors, one at a time, modulo the
word, for every base and exponent.

### Only model-checked

* Liveness: `QueryEnds`, `CommandEnds`, `RunReturns`. TLAPS proves nothing about
  ENABLED, which weak fairness is made of. The bounds are proved (`QueriesAreBounded`,
  `CommandsAreBounded`, `RunsAreBounded`); that the steps happen is left to TLC.

Every invariant and every action property of a passing run is stated by a theorem.

## 5. Not modelled

* Conversions to and from text (`from_bit_string`, `to_bit_string`, error
  messages, error codes, `StepResult`), argument parsing, file I/O and the final dump of
  the runner, and the demo generator: no state of the machine depends on them.
* `NameResolver::unbind` and `ubcm::resolve_selector` over a `ResolutionContext`:
  nothing in the program calls them.
* Decoders that demand an exact size: they are the modelled decoders and one comparison.
* Memory exhaustion: `std::bad_alloc` makes a step fail, which `StepTransaction`
  allows anywhere.
* In `Vm`: records and cells that a host places at offsets other than 0.
* In `Resolver`: the address a query answers with, and the host's machine beyond
  standing still.

Noted on the way, and within what the documentation allows: a word beside a float is
an unsigned number while two words compare as signed ones (`arithmetic.cpp:237`);
the node of the global resolver is checked when it is set and not protected
afterwards (`resolver.cpp:25`).

## 6. Plan

Done: all modules of section 2 and the proofs of section 4.

Left, in this order:

1. `Resolver` with the host's global resolver and the answer's address.
2. `Vm` with records and cells at offsets.
