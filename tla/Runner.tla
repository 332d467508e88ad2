------------------------------- MODULE Runner --------------------------------
(***************************************************************************)
(* The command line program of src/apps/ubcm.cpp from its decoded files to *)
(* the machine's first step, with load_program of src/src/program.cpp, the *)
(* name table of src/src/registers.cpp and the constructor and             *)
(* set_global_resolver of the machine.  The registers of the program are   *)
(* imported one by one at their own ids; the state cell and the machine's  *)
(* registers get the ids after them.  Every error ends the program.        *)
(***************************************************************************)
EXTENDS Container

CONSTANTS
    Images,          \* bound: the images a network file decodes to
    ProcedureFiles,  \* bound: the procedure files; NoFile when there is none
    NoFile,
    BodyHandle,      \* of the bank; also the register that is not there yet
    ResolverRefs     \* bound: the node addresses of the resolver options

\* What decode_program and decode_procedure give is made of what their fields
\* hold.  node_address: an id that fits and the offset of a node.  A node has an
\* even number of bits and the last offset is odd.
ASSUME RunnerAssumption ==
    /\ Images \subseteq
        [procedure : Handles, entry : References,
         registers : Seq([id : 0..MaxOffset, flags : 0..(2^FlagBits - 1),
                          name : Seq({0, 1}), contents : Seq({0, 1})])]
    /\ ProcedureFiles \subseteq [name : Seq({0, 1}), contents : Seq({0, 1})]
    /\ ResolverRefs \subseteq References
    /\ \A r \in ResolverRefs : ~r.null => r.handle.class = Global /\ Aligned(r)
    /\ MaxOffset % NodeBits # 0

Bank == INSTANCE Registers WITH MaxId <- 2^IdBits - 1, BodyHandle <- BodyHandle

VARIABLES
    phase,    \* what the program does next
    why,      \* the call whose error ended it
    program,  \* the image, after the procedure file has been put into it
    file, local, global,  \* the arguments
    loaded,   \* the records load_program has imported
    bank, names,          \* loaded->registers, loaded->names
    state,    \* the register of the state cell
    storage   \* the register of the root activation

options == <<file, local, global>>
vars == <<phase, why, program, options, loaded, bank, names, state, storage>>

Init ==
    /\ phase = "decode" /\ why = "nothing"
    /\ program \in Images
    /\ file \in ProcedureFiles \cup {NoFile}
    /\ local \in ResolverRefs /\ global \in ResolverRefs
    /\ loaded = 0
    /\ bank = Bank!EmptyBank
    /\ names = <<>>
    /\ state = BodyHandle /\ storage = BodyHandle

-----------------------------------------------------------------------------
(* NameResolver: a table from names to registers, by whole names.          *)

CanBind(table, name, id) == id \in Bank!Id /\ name \notin DOMAIN table
Bind(table, name, id) ==
    [n \in DOMAIN table \cup {name} |-> IF n = name THEN id ELSE table[n]]

-----------------------------------------------------------------------------

\* RegisterBank::read of a node, and decode_node
ReadNode(b, r) ==
    LET bits == Bank!Contents(b, r.handle.id)
    IN  IF Bank!Exists(b, r.handle.id) THEN DecodeNode(bits, r.offset) ELSE Failed(r.offset)

ResolverUnread(b, r) == TRUE  \* Mutated
ResolverOK(b, r) == ~r.null => ReadNode(b, r).ok

Fail(call) ==
    /\ phase' = "failed" /\ why' = call
    /\ UNCHANGED <<program, options, loaded, bank, names, state, storage>>

\* The last thing decode_program does.
DecodeImage ==
    /\ phase = "decode"
    /\ IF ~IsProgram(program) THEN Fail("decode_program")
       ELSE /\ phase' = "replace"
            /\ UNCHANGED <<why, program, options, loaded, bank, names, state, storage>>

\* The code of the root procedure, from a file of its own.
Replaced(image) ==
    [image EXCEPT !.registers = [i \in DOMAIN @ |->
        IF @[i].id = image.procedure.id THEN [@[i] EXCEPT !.contents = file.contents] ELSE @[i]]]

\* "procedure name does not match the network root"
NameMatches(image) ==
    \A i \in DOMAIN image.registers :
        image.registers[i].id = image.procedure.id => image.registers[i].name = file.name

Replace ==
    /\ phase = "replace"
    /\ IF file # NoFile /\ ~NameMatches(program) THEN Fail("procedure name")
       ELSE /\ phase' = "validate"
            /\ program' = IF file = NoFile THEN program ELSE Replaced(program)
            /\ UNCHANGED <<why, options, loaded, bank, names, state, storage>>

LoadableAsDecoded(image) == TRUE  \* Mutated: what decode_program checked is not checked again
Loadable(image) == IsProgram(image)

\* load_program
Validate ==
    /\ phase = "validate"
    /\ IF ~Loadable(program) THEN Fail("load_program")
       ELSE /\ phase' = "import"
            /\ UNCHANGED <<why, program, options, loaded, bank, names, state, storage>>

Import ==
    LET r == program.registers[loaded + 1]
    IN  /\ phase = "import" /\ loaded < Len(program.registers)
        /\ IF Bank!CanInsert(bank, r.id) /\ CanBind(names, r.name, r.id)
           THEN /\ bank' = Bank!Insert(bank, r.id, r.contents, IsProcedure(r))
                /\ names' = Bind(names, r.name, r.id)
                /\ loaded' = loaded + 1
                /\ UNCHANGED <<phase, why, program, options, state, storage>>
           ELSE Fail("import")

CreateState ==
    /\ phase = "import" /\ loaded = Len(program.registers)
    /\ IF ~Bank!CanCreate(bank) THEN Fail("create")
       ELSE /\ state' = bank.next
            /\ bank' = Bank!Create(bank, EncodeRuntimeReference(program.entry), FALSE)
            /\ phase' = "resolver"
            /\ UNCHANGED <<why, program, options, loaded, names, storage>>

CheckLocal ==
    /\ phase = "resolver"
    /\ IF ~ResolverOK(bank, local) THEN Fail("local resolver")
       ELSE /\ phase' = "construct"
            /\ UNCHANGED <<why, program, options, loaded, bank, names, state, storage>>

RootRecord(result) ==
    [procedure |-> program.procedure, position |-> 0,
     network |-> At(Handle(Global, state), 0), local |-> local, previous |-> Null,
     result |-> Handle(Global, result), prefix |-> Prefix(0, 0, FALSE)]

\* The constructor of the machine; an exception of it ends the program.
Construct ==
    LET record == RootRecord(bank.next)
        made == Bank!Create(bank, <<>>, FALSE)
    IN  /\ phase = "construct"
        /\ CASE ~Bank!CanCreate(bank) -> Fail("create")
             [] Bank!CanCreate(bank) /\ ~CanEncodeActivation(record) -> Fail("record")
             [] /\ Bank!CanCreate(bank)
                /\ CanEncodeActivation(record)
                /\ ~Bank!CanCreate(made) -> Fail("create")
             [] OTHER ->
                    /\ bank' = Bank!Create(made, EncodeActivation(record), FALSE)
                    /\ storage' = made.next
                    /\ phase' = "configure"
                    /\ UNCHANGED <<why, program, options, loaded, names, state>>

SetGlobalResolver ==
    /\ phase = "configure"
    /\ IF ~ResolverOK(bank, global) THEN Fail("global resolver")
       ELSE /\ phase' = "run"
            /\ UNCHANGED <<why, program, options, loaded, bank, names, state, storage>>

Next ==
    \/ DecodeImage
    \/ Replace
    \/ Validate
    \/ Import
    \/ CreateState
    \/ CheckLocal
    \/ Construct
    \/ SetGlobalResolver

Spec == Init /\ [][Next]_vars

-----------------------------------------------------------------------------

Imported == {program.registers[i] : i \in DOMAIN program.registers}

(* An image that validates loads completely, and its entry and its root    *)
(* activation can always be encoded (apps/ubcm.cpp:102 takes the encoded   *)
(* entry without a check): the program can only fail for what the user     *)
(* gave it, or because the image uses one of the last ids and leaves none  *)
(* for the state cell, the result and the record.  program.cpp:150-163.    *)
FailsForAReason ==
    /\ why \notin {"import", "record"}
    /\ phase = "import" => CanEncodeRuntimeReference(program.entry)
    /\ why = "create" => \E r \in Imported : r.id + 3 > 2^IdBits - 1

(* When the machine starts, every reference that a network of the image    *)
(* holds leads to a whole node of a network of the image, and every        *)
(* procedure a node calls is read-only, although the code of one register  *)
(* came from another file after the image was validated, and the register  *)
(* may hold code and nodes at once.                                        *)
StaticReferencesLand ==
    phase = "run" =>
        \A r \in Imported : IsNetwork(r) =>
            \A n \in NodesIn(Bank!Contents(bank, r.id)) :
                /\ n.ok
                /\ \A x \in {n.value.next0, n.value.next1, n.value.resolver} :
                        ~x.null => ReadNode(bank, x).ok
                /\ n.value.call => /\ ReadNode(bank, n.value.entry).ok
                                   /\ Bank!IsImmutable(bank, n.value.procedure.id)

(* The machine that starts can take its first step, which is what the      *)
(* initial state of Vm assumes of its host: the record the registers hold  *)
(* is the one of the root, its state cell stands at a node of the image,   *)
(* its resolvers are nodes, and no register of the machine lies over one   *)
(* of the image, each of which is found under its name.                    *)
MachineReady ==
    phase = "run" =>
        LET record == DecodeActivation(Bank!Contents(bank, storage), 0)
            at == DecodeRuntimeReference(Bank!Contents(bank, state), 0)
        IN  /\ record.ok
            /\ record.value.network = At(Handle(Global, state), 0)
            /\ at.ok /\ at.value = program.entry
            /\ ReadNode(bank, at.value).ok
            /\ \A r \in {local, global, record.value.local} : ~r.null => ReadNode(bank, r).ok
            /\ Bank!IsImmutable(bank, record.value.procedure.id)
            /\ Bank!CanChange(bank, state)
            /\ \A r \in Imported :
                /\ Bank!Contents(bank, names[r.name]) = r.contents
                /\ r.id \notin {state, storage, record.value.result.id}
=============================================================================
