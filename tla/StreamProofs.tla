----------------------------- MODULE StreamProofs -----------------------------
(***************************************************************************)
(* What a runner starts a machine with, and what a stream of items holds.  *)
(* First the runner: the registers of an image become a bank, and the      *)
(* machine it starts is ready.  Then the lemmas of CodecProofs carried on  *)
(* to instructions, padded files and whole program images, and the double  *)
(* arithmetic of COMPUTE.  The theorems on Stream come last.               *)
(***************************************************************************)
EXTENDS CodecProofs, Runner, Stream

(* The runner                                                              *)

Names == Seq({0, 1})
ImageRegisters == [id : 0..MaxOffset, flags : 0..(2^FlagBits - 1), name : Names, contents : Names]
ProgramImages == [procedure : Handles, entry : References, registers : Seq(ImageRegisters)]

Records == program.registers
LastId == 2^IdBits - 1

(* The arguments have their types, and so has the image, whose code may    *)
(* have been replaced.                                                     *)
ArgumentsInv ==
    /\ program \in ProgramImages
    /\ file \in [name : Names, contents : Names] \cup {NoFile}
    /\ local \in ResolverRefs /\ global \in ResolverRefs
    /\ phase \in {"decode", "replace", "validate", "import", "resolver", "construct",
                  "configure", "run", "failed"}
    /\ loaded \in 0..Len(Records)
    /\ bank = [entries |-> bank.entries, next |-> bank.next]

(* Nothing is imported before the image that is imported has validated.    *)
ValidatedInv ==
    /\ phase \in {"decode", "replace", "validate"} =>
           loaded = 0 /\ bank = Bank!EmptyBank /\ names = <<>>
    /\ phase \in {"import", "resolver", "construct", "configure", "run"} => IsProgram(program)

(* The first records of the image are in the bank at their own ids, below  *)
(* the next id, and in the name table.                                     *)
Holds(b, count) ==
    \A i \in 1..count :
        /\ Records[i].id \in DOMAIN b.entries
        /\ b.entries[Records[i].id] = [contents |-> Records[i].contents,
                                       immutable |-> IsProcedure(Records[i]), protected |-> FALSE]
Named(count) ==
    /\ DOMAIN names = {Records[i].name : i \in 1..count}
    /\ \A i \in 1..count : names[Records[i].name] = Records[i].id
AllBelow(count, id) == \A i \in 1..count : Records[i].id < id
AfterOne(count, id) == \E i \in 1..count : id = Records[i].id + 1

ImportInv ==
    phase = "import" =>
        /\ Holds(bank, loaded) /\ Named(loaded)
        /\ DOMAIN bank.entries = {Records[i].id : i \in 1..loaded}
        /\ AllBelow(loaded, bank.next) /\ bank.next \in Nat
        /\ IF loaded = 0 THEN bank.next = 0 ELSE AfterOne(loaded, bank.next)

(* The state cell has the id after those of the image, the machine's two   *)
(* registers the ids after it.                                             *)
Cell(contents) == [contents |-> contents, immutable |-> FALSE, protected |-> FALSE]
CellInv ==
    phase \in {"resolver", "construct", "configure", "run"} =>
        /\ loaded = Len(Records) /\ Holds(bank, loaded) /\ Named(loaded)
        /\ AllBelow(loaded, state) /\ AfterOne(loaded, state) /\ state \in 0..LastId
        /\ state \in DOMAIN bank.entries
        /\ bank.entries[state] = Cell(EncodeRuntimeReference(program.entry))
        /\ phase \in {"resolver", "construct"} =>
               /\ DOMAIN bank.entries = {Records[i].id : i \in 1..loaded} \cup {state}
               /\ bank.next = state + 1
        /\ phase \in {"configure", "run"} =>
               /\ storage = state + 2 /\ state + 2 \in 0..LastId /\ storage \in DOMAIN bank.entries
               /\ bank.entries[storage] = Cell(EncodeActivation(RootRecord(state + 1)))

(* The resolvers that have been checked are still nodes.                   *)
CheckedInv ==
    /\ phase \in {"construct", "configure", "run"} => ResolverOK(bank, local)
    /\ phase = "run" => ResolverOK(bank, global)

(* Why the program has ended.                                              *)
ReasonInv ==
    /\ why \notin {"import", "record"}
    /\ why = "create" => \E i \in DOMAIN Records : Records[i].id + 3 > LastId

RunnerInv ==
    /\ ArgumentsInv
    /\ ValidatedInv
    /\ ImportInv
    /\ CellInv
    /\ CheckedInv
    /\ ReasonInv

LEMMA RecordTypes ==
    ASSUME program \in ProgramImages
    PROVE  /\ Len(Records) \in Nat /\ DOMAIN Records = 1..Len(Records)
           /\ \A i \in DOMAIN Records :
                  /\ Records[i].id \in Nat /\ Records[i].flags \in Nat
                  /\ Records[i].name \in Bits /\ Records[i].contents \in Bits
           /\ program.procedure \in Handles /\ program.entry \in References
<1>1. /\ Records \in Seq(ImageRegisters)
      /\ program.procedure \in Handles /\ program.entry \in References
  BY DEF ProgramImages, Records
<1>2. /\ Len(Records) \in Nat /\ DOMAIN Records = 1..Len(Records)
      /\ \A i \in DOMAIN Records : Records[i] \in ImageRegisters
  BY <1>1
<1>3. \A r \in ImageRegisters : /\ r.id \in Nat /\ r.flags \in Nat
                                /\ r.name \in Bits /\ r.contents \in Bits
  BY HandleNumbers DEF ImageRegisters, Names, Bits
<1> QED
  BY <1>1, <1>2, <1>3

LEMMA LastIdIsNat == LastId \in Nat /\ LastId + 1 = 2^IdBits
BY HandleNumbers DEF LastId

(* What validate_program says of an image.                                 *)
NodeAt(x) ==
    /\ x.handle.class = Global /\ x.offset % NodeBits = 0
    /\ \E i \in DOMAIN Records : /\ Records[i].id = x.handle.id /\ IsNetwork(Records[i])
                                 /\ x.offset < Len(Records[i].contents)
CodeAt(h) ==
    h.class = Global /\ \E i \in DOMAIN Records : Records[i].id = h.id /\ IsProcedure(Records[i])

LEMMA ProgramFacts ==
    ASSUME program \in ProgramImages, IsProgram(program)
    PROVE  /\ \A i, j \in DOMAIN Records :
                  i # j => Records[i].id # Records[j].id /\ Records[i].name # Records[j].name
           /\ \A i \in DOMAIN Records : Records[i].id \in 0..LastId
           /\ CodeAt(program.procedure)
           /\ ~program.entry.null /\ NodeAt(program.entry)
           /\ \A i \in DOMAIN Records : IsNetwork(Records[i]) =>
                  \A n \in NodesIn(Records[i].contents) :
                      /\ n.ok
                      /\ \A x \in {n.value.next0, n.value.next1, n.value.resolver} :
                             ~x.null => NodeAt(x)
                      /\ n.value.call => /\ CodeAt(n.value.procedure)
                                         /\ ~n.value.entry.null => NodeAt(n.value.entry)
<1> DEFINE R == {Records[i] : i \in DOMAIN Records}
           P(h) == h.class = Global /\ \E r \in R : r.id = h.id /\ IsProcedure(r)
           N(x) == ~x.null => /\ x.handle.class = Global /\ x.offset % NodeBits = 0
                              /\ \E r \in R : /\ r.id = x.handle.id /\ IsNetwork(r)
                                              /\ x.offset < Len(r.contents)
<1>1. /\ Distinct(Records)
      /\ \A r \in R : r.id < 2^IdBits /\ r.flags <= 3
      /\ P(program.procedure) /\ ~program.entry.null /\ N(program.entry)
      /\ \A r \in R : IsNetwork(r) =>
             \A n \in NodesIn(r.contents) :
                 /\ n.ok
                 /\ \A x \in {n.value.next0, n.value.next1, n.value.resolver} : N(x)
                 /\ n.value.call => P(n.value.procedure) /\ N(n.value.entry)
  BY DEF IsProgram, Records
<1>2. \A h : P(h) => CodeAt(h)
  BY DEF CodeAt
<1>3. \A x : N(x) /\ ~x.null => NodeAt(x)
  BY DEF NodeAt
<1>4. \A i \in DOMAIN Records : Records[i].id \in 0..LastId
  BY <1>1, RecordTypes, LastIdIsNat
<1>5. \A i, j \in DOMAIN Records :
          i # j => Records[i].id # Records[j].id /\ Records[i].name # Records[j].name
  BY <1>1 DEF Distinct
<1> HIDE DEF P, N
<1>6. ASSUME NEW i \in DOMAIN Records, IsNetwork(Records[i]),
             NEW n \in NodesIn(Records[i].contents)
      PROVE  /\ n.ok
             /\ \A x \in {n.value.next0, n.value.next1, n.value.resolver} : ~x.null => NodeAt(x)
             /\ n.value.call => /\ CodeAt(n.value.procedure)
                                /\ ~n.value.entry.null => NodeAt(n.value.entry)
  <2>1. Records[i] \in R
    OBVIOUS
  <2>2. /\ n.ok
        /\ \A x \in {n.value.next0, n.value.next1, n.value.resolver} : N(x)
        /\ n.value.call => P(n.value.procedure) /\ N(n.value.entry)
    BY <1>1, <1>6, <2>1
  <2> QED
    BY <1>2, <1>3, <2>2
<1> QED
  BY <1>1, <1>2, <1>3, <1>4, <1>5, <1>6

(* A node's address can be written.                                        *)
LEMMA NodeAddressWritten ==
    ASSUME NEW x \in References, ~x.null, x.handle.class = Global, x.offset % NodeBits = 0
    PROVE  CanEncodeRuntimeReference(x) /\ Aligned(x)
<1>1. x.offset # MaxOffset
  BY RunnerAssumption
<1>2. EncodeRuntimeReference(x) # Ones(2 * HandleBits)
  BY <1>1, NotAllOnes
<1>3. x.handle \in Handles
  <2>1. x # Null
    BY DEF Null
  <2> QED
    BY <2>1 DEF References
<1>4. CanEncodeHandle(x.handle)
  <2>1. x.handle.id < 2^IdBits
    BY <1>3, HandleNumbers DEF Handles
  <2> QED
    BY <2>1 DEF CanEncodeHandle, Global, Procedure
<1> QED
  BY <1>2, <1>4 DEF CanEncodeRuntimeReference, Aligned

LEMMA EntryWritten ==
    ASSUME program \in ProgramImages, IsProgram(program)
    PROVE  CanEncodeRuntimeReference(program.entry)
BY RecordTypes, ProgramFacts, NodeAddressWritten DEF NodeAt

LEMMA RunnerInvInit == Init => RunnerInv
<1> SUFFICES ASSUME Init
             PROVE  RunnerInv
  OBVIOUS
<1>1. program \in ProgramImages
  BY RunnerAssumption DEF Init, ProgramImages, ImageRegisters, Names
<1>2. ArgumentsInv
  BY <1>1, RecordTypes, RunnerAssumption DEF Init, ArgumentsInv, Names, Bank!EmptyBank
<1>3. ValidatedInv /\ ImportInv /\ CellInv /\ CheckedInv /\ ReasonInv
  BY DEF Init, ValidatedInv, ImportInv, CellInv, CheckedInv, ReasonInv
<1> QED
  BY <1>2, <1>3 DEF RunnerInv

(* The program ends for a reason.                                          *)
LEMMA FailKeeps ==
    ASSUME RunnerInv, NEW call, Fail(call), call \notin {"import", "record"},
           call = "create" => \E i \in DOMAIN Records : Records[i].id + 3 > LastId
    PROVE  RunnerInv'
<1>1. /\ phase' = "failed" /\ why' = call /\ program' = program /\ file' = file
      /\ local' = local /\ global' = global /\ loaded' = loaded /\ bank' = bank
  BY DEF Fail, options
<1>2. Records' = Records /\ LastId' = LastId
  BY <1>1 DEF Records, LastId
<1>3. ArgumentsInv'
  BY <1>1, <1>2 DEF RunnerInv, ArgumentsInv
<1>4. ValidatedInv' /\ ImportInv' /\ CellInv' /\ CheckedInv'
  BY <1>1 DEF ValidatedInv, ImportInv, CellInv, CheckedInv
<1>5. ReasonInv'
  BY <1>1, <1>2 DEF ReasonInv
<1> QED
  BY <1>3, <1>4, <1>5 DEF RunnerInv

(* A step that goes on to another phase and leaves the registers.          *)
LEMMA PhaseKeeps ==
    ASSUME RunnerInv, NEW next,
           phase' = next, UNCHANGED <<why, program, options, loaded, bank, names, state, storage>>,
           <<phase, next>> \in {<<"decode", "replace">>, <<"validate", "import">>,
                                <<"resolver", "construct">>, <<"configure", "run">>},
           next = "import" => IsProgram(program),
           next = "construct" => ResolverOK(bank, local),
           next = "run" => ResolverOK(bank, global)
    PROVE  RunnerInv'
<1>1. /\ program' = program /\ file' = file /\ local' = local /\ global' = global
      /\ loaded' = loaded /\ why' = why /\ bank' = bank /\ names' = names /\ state' = state
      /\ storage' = storage
  BY DEF options
<1>2. \/ phase = "decode" /\ phase' = "replace"
      \/ phase = "validate" /\ phase' = "import" /\ IsProgram(program)
      \/ phase = "resolver" /\ phase' = "construct" /\ ResolverOK(bank, local)
      \/ phase = "configure" /\ phase' = "run" /\ ResolverOK(bank, global)
  OBVIOUS
<1>3. Records' = Records /\ LastId' = LastId
  BY <1>1 DEF Records, LastId
<1>4. ArgumentsInv'
  BY <1>1, <1>2, <1>3 DEF RunnerInv, ArgumentsInv
<1>5. ValidatedInv'
  BY <1>1, <1>2 DEF RunnerInv, ValidatedInv
<1>6. ImportInv'
  <2>1. CASE phase' = "import"
    <3>1. loaded = 0 /\ bank = Bank!EmptyBank /\ names = <<>>
      BY <1>2, <2>1 DEF RunnerInv, ValidatedInv
    <3>2. DOMAIN bank.entries = {} /\ bank.next = 0 /\ DOMAIN names = {}
      BY <3>1 DEF Bank!EmptyBank
    <3> QED
      BY <1>1, <3>1, <3>2 DEF ImportInv, Holds, Named, AllBelow
  <2>2. CASE phase' # "import"
    BY <2>2 DEF ImportInv
  <2> QED
    BY <2>1, <2>2
<1>7. CellInv'
  <2>1. CASE phase' \in {"construct", "run"}
    <3>1. CellInv
      BY DEF RunnerInv
    <3>2. RootRecord(state + 1)' = RootRecord(state + 1)
      BY <1>1 DEF RootRecord
    <3>3. \A n : /\ Holds(bank, n)' <=> Holds(bank, n)
                 /\ Named(n)' <=> Named(n)
      BY <1>1, <1>3 DEF Holds, Named
    <3>4. \A n, i : (AllBelow(n, i)' <=> AllBelow(n, i)) /\ (AfterOne(n, i)' <=> AfterOne(n, i))
      BY <1>3 DEF AllBelow, AfterOne
    <3> QED
      BY <1>1, <1>2, <1>3, <2>1, <3>1, <3>2, <3>3, <3>4 DEF CellInv
  <2>2. CASE phase' \notin {"construct", "run"}
    BY <1>2, <2>2 DEF CellInv
  <2> QED
    BY <2>1, <2>2
<1>8. CheckedInv'
  BY <1>1, <1>2 DEF RunnerInv, CheckedInv, ResolverOK, ReadNode
<1>9. ReasonInv'
  BY <1>1, <1>3 DEF RunnerInv, ReasonInv
<1> QED
  BY <1>4, <1>5, <1>6, <1>7, <1>8, <1>9 DEF RunnerInv

LEMMA ReplaceKeeps ==
    ASSUME RunnerInv, Replace
    PROVE  RunnerInv'
<1>1. CASE file # NoFile /\ ~NameMatches(program)
  BY <1>1, FailKeeps DEF Replace
<1>2. CASE ~(file # NoFile /\ ~NameMatches(program))
  <2>1. /\ phase = "replace" /\ phase' = "validate" /\ why' = why /\ file' = file
        /\ local' = local /\ global' = global /\ loaded' = loaded /\ bank' = bank
        /\ names' = names
        /\ program' = IF file = NoFile THEN program ELSE Replaced(program)
    BY <1>2 DEF Replace, options
  <2>2. /\ program \in ProgramImages /\ loaded = 0 /\ bank = Bank!EmptyBank /\ names = <<>>
        /\ file \in [name : Names, contents : Names] \cup {NoFile}
        /\ local \in ResolverRefs /\ global \in ResolverRefs
        /\ why \notin {"import", "record"}
        /\ why = "create" => \E i \in DOMAIN Records : Records[i].id + 3 > LastId
        /\ bank = [entries |-> bank.entries, next |-> bank.next]
    BY <2>1 DEF RunnerInv, ArgumentsInv, ValidatedInv, ReasonInv
  <2>3. /\ program' \in ProgramImages /\ DOMAIN Records' = DOMAIN Records
        /\ \A i \in DOMAIN Records : Records'[i].id = Records[i].id
    <3>1. CASE file = NoFile
      BY <2>1, <2>2, <3>1 DEF Records
    <3>2. CASE file # NoFile
      <4> DEFINE regs == program.registers
                 PutIn(i) == IF regs[i].id = program.procedure.id
                           THEN [regs[i] EXCEPT !.contents = file.contents] ELSE regs[i]
                 new == [i \in DOMAIN regs |-> PutIn(i)]
      <4>1. program' = [program EXCEPT !.registers = new]
        BY <2>1, <3>2 DEF Replaced
      <4>2. /\ regs \in Seq(ImageRegisters) /\ Len(regs) \in Nat /\ DOMAIN regs = 1..Len(regs)
            /\ \A i \in DOMAIN regs : regs[i] \in ImageRegisters
            /\ program = [procedure |-> program.procedure, entry |-> program.entry,
                          registers |-> regs]
            /\ program.procedure \in Handles /\ program.entry \in References
        <5>1. regs \in Seq(ImageRegisters)
          BY <2>2 DEF ProgramImages
        <5> QED
          BY <2>2, <5>1 DEF ProgramImages
      <4>3. file.contents \in Names
        BY <2>2, <3>2
      <4>4. \A i \in DOMAIN regs : PutIn(i) \in ImageRegisters /\ PutIn(i).id = regs[i].id
        BY <4>2, <4>3 DEF ImageRegisters
      <4> HIDE DEF regs, PutIn
      <4>5. /\ new \in Seq(ImageRegisters) /\ DOMAIN new = DOMAIN regs
            /\ \A i \in DOMAIN regs : new[i].id = regs[i].id
        BY <4>2, <4>4
      <4> HIDE DEF new
      <4>6. program' = [procedure |-> program.procedure, entry |-> program.entry,
                        registers |-> new]
        BY <4>1, <4>2
      <4>7. program' \in ProgramImages /\ program'.registers = new
        BY <4>2, <4>5, <4>6 DEF ProgramImages
      <4> QED
        BY <4>5, <4>7 DEF Records, regs
    <3> QED
      BY <3>1, <3>2
  <2>4. ArgumentsInv'
    <3>1. Len(Records') \in Nat
      <4>1. Records' \in Seq(ImageRegisters)
        BY <2>3 DEF ProgramImages, Records
      <4> QED
        BY <4>1
    <3>2. 0 \in 0..Len(Records')
      BY <3>1
    <3> QED
      BY <2>1, <2>2, <2>3, <3>2 DEF ArgumentsInv
  <2>5. ValidatedInv' /\ ImportInv' /\ CellInv' /\ CheckedInv'
    BY <2>1, <2>2 DEF ValidatedInv, ImportInv, CellInv, CheckedInv
  <2>6. ReasonInv'
    BY <2>1, <2>2, <2>3 DEF ReasonInv, LastId
  <2> QED
    BY <2>4, <2>5, <2>6 DEF RunnerInv
<1> QED
  BY <1>1, <1>2

LEMMA ImportKeeps ==
    ASSUME RunnerInv, Import
    PROVE  RunnerInv'
<1>1. /\ phase = "import" /\ loaded < Len(Records) /\ program \in ProgramImages
      /\ IsProgram(program) /\ loaded \in Nat
      /\ Holds(bank, loaded) /\ Named(loaded)
      /\ DOMAIN bank.entries = {Records[k].id : k \in 1..loaded}
      /\ AllBelow(loaded, bank.next) /\ bank.next \in Nat
      /\ bank = [entries |-> bank.entries, next |-> bank.next]
  BY DEF RunnerInv, ArgumentsInv, ValidatedInv, ImportInv, Import, Records
<1>0. PICK i \in Nat : i = loaded + 1
  BY <1>1
<1> DEFINE r == Records[i]
<1>2. /\ Len(Records) \in Nat /\ DOMAIN Records = 1..Len(Records) /\ i \in DOMAIN Records
      /\ i \in 1..Len(Records) /\ i \in Nat /\ 1..i = (1..loaded) \cup {i}
      /\ \A k \in 1..loaded : k \in DOMAIN Records /\ k # i
  BY <1>0, <1>1, RecordTypes
<1>3. /\ r.id \in 0..LastId
      /\ \A k \in 1..loaded : Records[k].id # r.id /\ Records[k].name # r.name
  BY <1>1, <1>2, ProgramFacts
<1>4. Bank!CanInsert(bank, r.id)
  BY <1>1, <1>3 DEF Bank!CanInsert, Bank!Exists, Bank!Id, LastId
<1>5. CanBind(names, r.name, r.id)
  BY <1>1, <1>3 DEF CanBind, Bank!Id, LastId, Named
<1>6. /\ bank' = Bank!Insert(bank, r.id, r.contents, IsProcedure(r))
      /\ names' = Bind(names, r.name, r.id)
      /\ loaded' = i /\ phase' = phase /\ why' = why /\ program' = program
      /\ file' = file /\ local' = local /\ global' = global /\ state' = state
      /\ storage' = storage
  <2>1. r = program.registers[loaded + 1]
    BY <1>0 DEF Records
  <2> HIDE DEF r
  <2> QED
    BY <1>0, <1>4, <1>5, <2>1 DEF Import, options
<1>7. Records' = Records /\ LastId' = LastId
  BY <1>6 DEF Records, LastId
<1>8. ArgumentsInv'
  <2>1. bank' = [entries |-> bank'.entries, next |-> bank'.next]
    BY <1>1, <1>6 DEF Bank!Insert, Bank!Put
  <2> QED
    BY <1>2, <1>6, <1>7, <2>1 DEF RunnerInv, ArgumentsInv
<1>9. ValidatedInv' /\ CellInv' /\ CheckedInv'
  BY <1>1, <1>6 DEF ValidatedInv, CellInv, CheckedInv
<1>10. ReasonInv'
  BY <1>6, <1>7 DEF RunnerInv, ReasonInv
<1>11. ImportInv'
  <2> DEFINE e == [contents |-> r.contents, immutable |-> IsProcedure(r), protected |-> FALSE]
  <2>0. PICK next : next = IF r.id >= bank.next THEN r.id + 1 ELSE bank.next
    OBVIOUS
  <2>1. /\ DOMAIN bank'.entries = DOMAIN bank.entries \cup {r.id}
        /\ \A k \in DOMAIN bank'.entries :
               bank'.entries[k] = IF k = r.id THEN e ELSE bank.entries[k]
        /\ bank'.next = next
    <3>1. bank' = [bank EXCEPT !.entries = [k \in DOMAIN bank.entries \cup {r.id} |->
                                                IF k = r.id THEN e ELSE bank.entries[k]],
                               !.next = next]
      BY <1>6, <2>0 DEF Bank!Insert, Bank!Put
    <3>2. bank = [entries |-> bank.entries, next |-> bank.next]
      BY <1>1
    <3> QED
      BY <3>1, <3>2
  <2>2. next \in Nat /\ r.id < next /\ bank.next <= next /\ (next = r.id + 1 \/ next = bank.next)
    BY <1>1, <1>3, <2>0, LastIdIsNat, SMTT(20)
  <2> HIDE DEF e
  <2>3. \A k \in 1..i : k = i \/ k \in 1..loaded
    BY <1>2
  <2>4. Holds(bank, i)'
    <3> SUFFICES ASSUME NEW k \in 1..i
                 PROVE  /\ Records[k].id \in DOMAIN bank'.entries
                        /\ bank'.entries[Records[k].id] =
                               [contents |-> Records[k].contents,
                                immutable |-> IsProcedure(Records[k]), protected |-> FALSE]
      BY <1>7 DEF Holds
    <3>1. CASE k = i
      BY <2>1, <3>1 DEF e
    <3>2. CASE k \in 1..loaded
      BY <1>1, <1>3, <2>1, <3>2 DEF Holds
    <3> QED
      BY <2>3, <3>1, <3>2
  <2>5. Named(i)'
    <3>1. /\ DOMAIN names' = DOMAIN names \cup {r.name}
          /\ \A n \in DOMAIN names' : names'[n] = IF n = r.name THEN r.id ELSE names[n]
      BY <1>6 DEF Bind
    <3>2. DOMAIN names' = {Records[k].name : k \in 1..i}
      BY <1>1, <1>2, <3>1 DEF Named
    <3>3. \A k \in 1..i : names'[Records[k].name] = Records[k].id
      BY <1>1, <1>3, <2>3, <3>1, <3>2 DEF Named
    <3> QED
      BY <1>7, <3>2, <3>3 DEF Named
  <2>6. DOMAIN bank'.entries = {Records[k].id : k \in 1..i}
    BY <1>1, <1>2, <2>1
  <2>7. AllBelow(i, next)
    BY <1>1, <1>2, <1>3, <2>2, <2>3, RecordTypes, LastIdIsNat DEF AllBelow
  <2>8. AfterOne(i, next)
    <3>1. CASE next = r.id + 1
      BY <1>2, <3>1 DEF AfterOne
    <3>2. CASE next = bank.next
      <4>1. loaded # 0
        <5>1. loaded = 0 => bank.next = 0
          BY <1>1 DEF RunnerInv, ImportInv
        <5> QED
          BY <1>1, <1>3, <2>2, <3>2, <5>1, LastIdIsNat
      <4>2. AfterOne(loaded, bank.next)
        BY <1>1, <4>1 DEF RunnerInv, ImportInv
      <4> QED
        BY <1>2, <3>2, <4>2 DEF AfterOne
    <3> QED
      BY <2>2, <3>1, <3>2
  <2>9. /\ loaded' = i /\ i # 0 /\ bank'.next = next
        /\ DOMAIN bank'.entries = {Records'[k].id : k \in 1..i}
        /\ AllBelow(i, next)' /\ AfterOne(i, next)'
    <3> HIDE DEF r
    <3> QED
      BY <1>2, <1>6, <1>7, <2>1, <2>6, <2>7, <2>8 DEF AllBelow, AfterOne
  <2> QED
    BY <2>2, <2>4, <2>5, <2>9 DEF ImportInv
<1> QED
  BY <1>8, <1>9, <1>10, <1>11 DEF RunnerInv

(* Every record has been imported: there is one, and the next id follows   *)
(* the id of one.                                                          *)
LEMMA AllImported ==
    ASSUME RunnerInv, phase = "import", loaded = Len(Records)
    PROVE  /\ program \in ProgramImages /\ IsProgram(program)
           /\ loaded \in Nat /\ loaded # 0 /\ DOMAIN Records = 1..loaded
           /\ Holds(bank, loaded) /\ Named(loaded)
           /\ DOMAIN bank.entries = {Records[k].id : k \in 1..loaded}
           /\ AllBelow(loaded, bank.next) /\ bank.next \in Nat /\ AfterOne(loaded, bank.next)
           /\ bank = [entries |-> bank.entries, next |-> bank.next]
           /\ bank.next \notin DOMAIN bank.entries
<1>1. program \in ProgramImages /\ IsProgram(program)
  BY DEF RunnerInv, ArgumentsInv, ValidatedInv
<1>2. loaded \in Nat /\ DOMAIN Records = 1..loaded
  BY <1>1, RecordTypes
<1>3. loaded # 0
  <2>1. DOMAIN Records # {}
    BY <1>1, ProgramFacts DEF CodeAt
  <2> QED
    BY <1>2, <2>1
<1>4. /\ Holds(bank, loaded) /\ Named(loaded)
      /\ DOMAIN bank.entries = {Records[k].id : k \in 1..loaded}
      /\ AllBelow(loaded, bank.next) /\ bank.next \in Nat /\ AfterOne(loaded, bank.next)
  BY <1>3 DEF RunnerInv, ImportInv
<1>5. bank = [entries |-> bank.entries, next |-> bank.next]
  BY DEF RunnerInv, ArgumentsInv
<1>6. bank.next \notin DOMAIN bank.entries
  <2>1. \A k \in 1..loaded : Records[k].id < bank.next
    BY <1>4 DEF AllBelow
  <2> QED
    BY <1>4, <2>1
<1> QED
  BY <1>1, <1>2, <1>3, <1>4, <1>5, <1>6

LEMMA CreateStateKeeps ==
    ASSUME RunnerInv, CreateState
    PROVE  RunnerInv'
<1>1. phase = "import" /\ loaded = Len(Records)
  BY DEF CreateState, Records
<1>2. CASE ~Bank!CanCreate(bank)
  <2>1. bank.next > LastId
    BY <1>1, <1>2, AllImported, LastIdIsNat DEF Bank!CanCreate, Bank!Exists, LastId
  <2>2. PICK i \in 1..loaded : bank.next = Records[i].id + 1
    BY <1>1, AllImported DEF AfterOne
  <2>3. i \in DOMAIN Records /\ Records[i].id \in Nat
    BY <1>1, AllImported, RecordTypes
  <2>4. Records[i].id + 3 > LastId
    BY <2>1, <2>2, <2>3, LastIdIsNat
  <2>5. Fail("create")
    BY <1>2 DEF CreateState
  <2> QED
    BY <2>3, <2>4, <2>5, FailKeeps
<1>3. CASE Bank!CanCreate(bank)
  <2>1. PICK id : id = bank.next
    OBVIOUS
  <2>2. /\ state' = id /\ phase' = "resolver" /\ why' = why /\ program' = program
        /\ file' = file /\ local' = local /\ global' = global /\ loaded' = loaded
        /\ names' = names
        /\ bank' = Bank!Create(bank, EncodeRuntimeReference(program.entry), FALSE)
    BY <1>3, <2>1 DEF CreateState, options
  <2>3. id \in 0..LastId /\ id \in Nat
    BY <1>1, <1>3, <2>1, AllImported, LastIdIsNat DEF Bank!CanCreate, LastId
  <2>4. Records' = Records /\ LastId' = LastId
    BY <2>2 DEF Records, LastId
  <2> DEFINE e == Cell(EncodeRuntimeReference(program.entry))
  <2>5. /\ DOMAIN bank'.entries = DOMAIN bank.entries \cup {id}
        /\ bank'.entries[id] = e
        /\ \A k \in DOMAIN bank.entries : bank'.entries[k] = bank.entries[k]
        /\ bank'.next = id + 1
        /\ bank' = [entries |-> bank'.entries, next |-> bank'.next]
    <3>1. bank' = [[bank EXCEPT !.entries = [k \in DOMAIN bank.entries \cup {id} |->
                                                IF k = id THEN e ELSE bank.entries[k]]]
                       EXCEPT !.next = id + 1]
      BY <2>1, <2>2 DEF Bank!Create, Bank!Put, Cell
    <3>2. bank = [entries |-> bank.entries, next |-> bank.next] /\ id \notin DOMAIN bank.entries
      BY <1>1, <2>1, AllImported
    <3> HIDE DEF e
    <3> QED
      BY <3>1, <3>2
  <2>6. ArgumentsInv'
    BY <2>2, <2>4, <2>5 DEF RunnerInv, ArgumentsInv
  <2>7. ValidatedInv' /\ ImportInv' /\ CheckedInv'
    BY <1>1, <2>2, AllImported DEF ValidatedInv, ImportInv, CheckedInv
  <2>8. ReasonInv'
    BY <2>2, <2>4 DEF RunnerInv, ReasonInv
  <2>9. PICK count : count = loaded /\ count \in Nat
    BY <1>1, AllImported
  <2>10. Holds(bank, count) /\ Named(count) /\ AllBelow(count, id) /\ AfterOne(count, id)
    BY <1>1, <2>1, <2>9, AllImported
  <2>11. Holds(bank, count)'
    BY <2>4, <2>5, <2>10 DEF Holds
  <2>12. Named(count)' /\ AllBelow(count, id)' /\ AfterOne(count, id)'
    BY <2>2, <2>4, <2>10 DEF Named, AllBelow, AfterOne
  <2>13. DOMAIN bank'.entries = {Records'[i].id : i \in 1..count} \cup {id}
    BY <1>1, <2>4, <2>5, <2>9, AllImported
  <2>14. bank'.entries[id] = Cell(EncodeRuntimeReference(program.entry))'
    BY <2>2, <2>5 DEF Cell
  <2>15. CellInv'
    <3>1. loaded' = count /\ loaded' = Len(Records')
      BY <1>1, <2>2, <2>4, <2>9
    <3> HIDE DEF e
    <3> QED
      BY <2>2, <2>3, <2>4, <2>5, <2>11, <2>12, <2>13, <2>14, <3>1 DEF CellInv
  <2> QED
    BY <2>6, <2>7, <2>8, <2>15 DEF RunnerInv
<1> QED
  BY <1>2, <1>3

(* The root activation can be written.                                     *)
LEMMA RootRecordWritten ==
    ASSUME program \in ProgramImages, IsProgram(program), local \in ResolverRefs,
           state \in 0..LastId, NEW id \in 0..LastId
    PROVE  RootRecord(id) \in Activations /\ CanEncodeActivation(RootRecord(id))
<1> DEFINE a == RootRecord(id)
           network == At(Handle(Global, state), 0)
           result == Handle(Global, id)
<1>1. program.procedure \in Handles /\ program.procedure.class = Global
  BY RecordTypes, ProgramFacts DEF CodeAt
<1>2. \A i \in 0..LastId : Handle(Global, i) \in Handles /\ CanEncodeHandle(Handle(Global, i))
  BY HandleNumbers DEF LastId, Handle, Handles, Global, CanEncodeHandle, Procedure
<1>3. CanEncodeHandle(program.procedure)
  <2>1. program.procedure.id < 2^IdBits
    BY <1>1, HandleNumbers DEF Handles
  <2> QED
    BY <1>1, <2>1 DEF CanEncodeHandle, Global, Procedure
<1>4. network \in References /\ CanEncodeRuntimeReference(network)
  <2>1. Handle(Global, state) \in Handles /\ 0 \in 0..MaxOffset
    BY <1>2, HandleNumbers
  <2>2. network = [null |-> FALSE, handle |-> Handle(Global, state), offset |-> 0]
    BY DEF At
  <2>3. network \in References /\ ~network.null /\ network.handle.class = Global
    <3> DEFINE h == Handle(Global, state)
    <3>1. h.class = Global
      BY DEF Handle
    <3>2. h \in Handles /\ network = [null |-> FALSE, handle |-> h, offset |-> 0]
      BY <2>1, <2>2
    <3> HIDE DEF h, network
    <3>3. network \in [null : {FALSE}, handle : Handles, offset : 0..MaxOffset]
      BY <2>1, <3>2
    <3> QED
      BY <3>1, <3>2, <3>3 DEF References
  <2>4. network.offset % NodeBits = 0
    BY <2>2, NodeNumbers
  <2> HIDE DEF network
  <2> QED
    BY <2>3, <2>4, NodeAddressWritten
<1>5. local \in References /\ CanEncodeRuntimeReference(local) /\ Aligned(local)
  <2>1. local \in References /\ (~local.null => local.handle.class = Global /\ Aligned(local))
    BY RunnerAssumption
  <2>2. CASE local.null
    BY <2>1, <2>2 DEF CanEncodeRuntimeReference, Aligned
  <2>3. CASE ~local.null
    BY <2>1, <2>3, NodeAddressWritten DEF Aligned
  <2> QED
    BY <2>2, <2>3
<1>6. Null \in References /\ CanEncodeRuntimeReference(Null)
  BY DEF References, Null, CanEncodeRuntimeReference
<1>7. Prefix(0, 0, FALSE) \in RecordPrefixes /\ CanEncodePrefix(Prefix(0, 0, FALSE))
  BY HandleNumbers DEF RecordPrefixes, Prefix, CanEncodePrefix
<1>8. result \in Handles /\ CanEncodeHandle(result) /\ result.class = Global
  BY <1>2 DEF Handle
<1>9. a = [procedure |-> program.procedure, position |-> 0, network |-> network, local |-> local,
           previous |-> Null, result |-> result, prefix |-> Prefix(0, 0, FALSE)]
  BY DEF RootRecord
<1> HIDE DEF a, network, result
<1>10. a \in Activations
  <2> DEFINE p == Prefix(0, 0, FALSE)
  <2>1. p \in RecordPrefixes
    BY <1>7
  <2>3. 0 \in 0..MaxOffset
    BY HandleNumbers
  <2>2. a = [procedure |-> program.procedure, position |-> 0, network |-> network,
             local |-> local, previous |-> Null, result |-> result, prefix |-> p]
    BY <1>9
  <2> HIDE DEF p
  <2> QED
    BY <1>1, <1>4, <1>5, <1>6, <1>8, <2>1, <2>2, <2>3 DEF Activations
<1>11. CanEncodeActivation(a)
  BY <1>3, <1>4, <1>5, <1>6, <1>7, <1>8, <1>9 DEF CanEncodeActivation
<1> QED
  BY <1>10, <1>11 DEF a

LEMMA CellFacts ==
    ASSUME RunnerInv, phase \in {"resolver", "construct", "configure", "run"}
    PROVE  /\ program \in ProgramImages /\ IsProgram(program) /\ local \in ResolverRefs
           /\ global \in ResolverRefs
           /\ loaded = Len(Records) /\ loaded \in Nat /\ DOMAIN Records = 1..loaded
           /\ Holds(bank, loaded) /\ Named(loaded) /\ AllBelow(loaded, state)
           /\ AfterOne(loaded, state) /\ state \in 0..LastId /\ state \in Nat
           /\ state \in DOMAIN bank.entries
           /\ bank.entries[state] = Cell(EncodeRuntimeReference(program.entry))
           /\ bank = [entries |-> bank.entries, next |-> bank.next]
<1>1. program \in ProgramImages /\ IsProgram(program)
  BY DEF RunnerInv, ArgumentsInv, ValidatedInv
<1>2. local \in ResolverRefs /\ global \in ResolverRefs
      /\ bank = [entries |-> bank.entries, next |-> bank.next]
  BY DEF RunnerInv, ArgumentsInv
<1>3. CellInv
  BY DEF RunnerInv
<1>4. /\ loaded = Len(Records) /\ Holds(bank, loaded) /\ Named(loaded)
      /\ AllBelow(loaded, state) /\ AfterOne(loaded, state) /\ state \in 0..LastId
      /\ state \in DOMAIN bank.entries
      /\ bank.entries[state] = Cell(EncodeRuntimeReference(program.entry))
  BY <1>3 DEF CellInv
<1>5. loaded \in Nat /\ DOMAIN Records = 1..loaded
  BY <1>1, <1>4, RecordTypes
<1> QED
  BY <1>1, <1>2, <1>4, <1>5, LastIdIsNat

LEMMA ConstructKeeps ==
    ASSUME RunnerInv, Construct
    PROVE  RunnerInv'
<1> DEFINE record == RootRecord(bank.next)
           made == Bank!Create(bank, <<>>, FALSE)
<1>1. /\ phase = "construct" /\ bank.next = state + 1 /\ state \in Nat /\ state \in 0..LastId
      /\ DOMAIN bank.entries = {Records[i].id : i \in 1..loaded} \cup {state}
  <2>1. phase = "construct"
    BY DEF Construct
  <2>2. CellInv
    BY DEF RunnerInv
  <2> QED
    BY <2>1, <2>2, CellFacts DEF CellInv
<1>2. PICK i \in 1..loaded : state = Records[i].id + 1
  BY <1>1, CellFacts DEF AfterOne
<1>3. i \in DOMAIN Records /\ Records[i].id \in Nat
  BY <1>1, CellFacts, RecordTypes
<1>4. \A k \in DOMAIN bank.entries : k \in Nat /\ k <= state
  <2>1. \A k \in 1..loaded : Records[k].id \in Nat /\ Records[k].id < state
    BY <1>1, CellFacts, RecordTypes DEF AllBelow
  <2> QED
    BY <1>1, <2>1
<1>5. Bank!CanCreate(bank) <=> state + 1 <= LastId
  BY <1>1, <1>4, SMTT(20) DEF Bank!CanCreate, Bank!Exists, LastId
<1>6. Bank!CanCreate(bank) => CanEncodeActivation(record)
  <2>1. ASSUME Bank!CanCreate(bank)
        PROVE  CanEncodeActivation(record)
    <3>1. bank.next \in 0..LastId
      BY <1>1, <1>5, <2>1, LastIdIsNat
    <3> QED
      BY <1>1, <3>1, CellFacts, RootRecordWritten
  <2> QED
    BY <2>1
<1>7. PICK m : m = made
  OBVIOUS
<1>8. /\ DOMAIN m.entries = DOMAIN bank.entries \cup {state + 1} /\ m.next = state + 2
      /\ \A k \in DOMAIN bank.entries : m.entries[k] = bank.entries[k]
      /\ m = [entries |-> m.entries, next |-> m.next]
  <2>1. m = [[bank EXCEPT !.entries = [k \in DOMAIN bank.entries \cup {bank.next} |->
                                          IF k = bank.next THEN Cell(<<>>) ELSE bank.entries[k]]]
                 EXCEPT !.next = bank.next + 1]
    BY <1>7 DEF Bank!Create, Bank!Put, Cell
  <2>2. bank = [entries |-> bank.entries, next |-> bank.next]
    BY <1>1, CellFacts
  <2>3. bank.next + 1 = state + 2 /\ bank.next \notin DOMAIN bank.entries
    BY <1>1, <1>4
  <2> QED
    BY <1>1, <2>1, <2>2, <2>3
<1>9. Bank!CanCreate(m) <=> state + 2 <= LastId
  <2>1. state + 2 \notin DOMAIN m.entries
    BY <1>1, <1>4, <1>8
  <2> QED
    BY <1>8, <2>1 DEF Bank!CanCreate, Bank!Exists, LastId
<1>10. CASE ~(state + 2 <= LastId)
  <2>1. Fail("create")
    <3>1. ~Bank!CanCreate(bank) \/ (/\ Bank!CanCreate(bank) /\ CanEncodeActivation(record)
                                    /\ ~Bank!CanCreate(made))
      BY <1>6, <1>7, <1>9, <1>10
    <3> HIDE DEF record, made
    <3>2. CASE ~Bank!CanCreate(bank)
      BY <3>2 DEF Construct, record, made
    <3>3. CASE /\ Bank!CanCreate(bank) /\ CanEncodeActivation(record) /\ ~Bank!CanCreate(made)
      BY <3>3 DEF Construct, record, made
    <3> QED
      BY <3>1, <3>2, <3>3
  <2>2. Records[i].id + 3 > LastId
    BY <1>2, <1>3, <1>10, LastIdIsNat
  <2> QED
    BY <1>3, <2>1, <2>2, FailKeeps
<1>11. CASE state + 2 <= LastId
  <2>0. state + 1 <= LastId
    BY <1>1, <1>11, LastIdIsNat
  <2>1. Bank!CanCreate(bank) /\ CanEncodeActivation(record) /\ Bank!CanCreate(made)
    BY <1>5, <1>6, <1>7, <1>9, <1>11, <2>0
  <2>2. /\ bank' = Bank!Create(made, EncodeActivation(record), FALSE) /\ storage' = made.next
        /\ phase' = "configure" /\ why' = why /\ program' = program /\ file' = file
        /\ local' = local /\ global' = global /\ loaded' = loaded /\ names' = names
        /\ state' = state
    <3> HIDE DEF record, made
    <3> QED
      BY <2>1 DEF Construct, options, record, made
  <2>3. PICK e : e = Cell(EncodeActivation(record))
    OBVIOUS
  <2>4. /\ DOMAIN bank'.entries = DOMAIN m.entries \cup {state + 2}
        /\ bank'.entries[state + 2] = e
        /\ \A k \in DOMAIN m.entries : bank'.entries[k] = m.entries[k]
        /\ bank' = [entries |-> bank'.entries, next |-> bank'.next]
    <3>1. bank' = [[m EXCEPT !.entries = [k \in DOMAIN m.entries \cup {state + 2} |->
                                             IF k = state + 2 THEN e ELSE m.entries[k]]]
                      EXCEPT !.next = state + 2 + 1]
      <4>1. bank' = Bank!Create(m, EncodeActivation(record), FALSE)
        BY <1>7, <2>2
      <4> HIDE DEF record, made
      <4> QED
        BY <1>8, <2>3, <4>1 DEF Bank!Create, Bank!Put, Cell
    <3>2. state + 2 \notin DOMAIN m.entries
      BY <1>1, <1>4, <1>8
    <3> QED
      BY <1>8, <3>1, <3>2
  <2>5. /\ DOMAIN bank.entries \subseteq DOMAIN bank'.entries
        /\ \A k \in DOMAIN bank.entries : bank'.entries[k] = bank.entries[k]
    BY <1>8, <2>4
  <2>6. Records' = Records /\ LastId' = LastId
    BY <2>2 DEF Records, LastId
  <2>7. ArgumentsInv'
    BY <2>2, <2>4, <2>6 DEF RunnerInv, ArgumentsInv
  <2>8. ValidatedInv' /\ ImportInv'
    <3>1. IsProgram(program)
      BY <1>1, CellFacts
    <3> QED
      BY <2>2, <3>1 DEF ValidatedInv, ImportInv
  <2>9. ReasonInv'
    BY <2>2, <2>6 DEF RunnerInv, ReasonInv
  <2>10. CheckedInv'
    <3>1. ResolverOK(bank, local)
      BY <1>1 DEF RunnerInv, CheckedInv
    <3>2. ResolverOK(bank', local)
      BY <2>5, <3>1 DEF ResolverOK, ReadNode, Bank!Exists, Bank!Contents, Failed
    <3> QED
      BY <2>2, <3>2 DEF CheckedInv
  <2>11. CellInv'
    <3>1. PICK count : count = loaded /\ count \in Nat
      BY <1>1, CellFacts
    <3>2. PICK id : id = state /\ id \in Nat /\ id \in 0..LastId
      BY <1>1
    <3>3. /\ Holds(bank, count) /\ Named(count) /\ AllBelow(count, id) /\ AfterOne(count, id)
          /\ count = Len(Records) /\ id \in DOMAIN bank.entries
          /\ bank.entries[id] = Cell(EncodeRuntimeReference(program.entry))
      BY <1>1, <3>1, <3>2, CellFacts
    <3>4. Holds(bank, count)'
      BY <2>5, <2>6, <3>3 DEF Holds
    <3>5. Named(count)' /\ AllBelow(count, id)' /\ AfterOne(count, id)'
      BY <2>2, <2>6, <3>3 DEF Named, AllBelow, AfterOne
    <3>6. /\ id \in DOMAIN bank'.entries
          /\ bank'.entries[id] = Cell(EncodeRuntimeReference(program.entry))'
      BY <2>2, <2>5, <3>3 DEF Cell
    <3>7. /\ storage' = id + 2 /\ id + 2 \in 0..LastId /\ storage' \in DOMAIN bank'.entries
          /\ bank'.entries[storage'] = e
      <4>1. storage' = m.next
        <5> HIDE DEF record, made
        <5> QED
          BY <1>7, <2>2
      <4>2. storage' = state + 2
        BY <1>8, <4>1
      <4> HIDE DEF record, made
      <4> QED
        BY <1>11, <2>4, <3>2, <4>2, LastIdIsNat
    <3>8. e = Cell(EncodeActivation(RootRecord(id + 1)))'
      BY <1>1, <2>2, <2>3, <3>2 DEF Cell, RootRecord
    <3>9. loaded' = count /\ state' = id /\ phase' = "configure"
      BY <2>2, <3>1, <3>2
    <3> QED
      BY <2>6, <3>2, <3>3, <3>4, <3>5, <3>6, <3>7, <3>8, <3>9 DEF CellInv
  <2> QED
    BY <2>7, <2>8, <2>9, <2>10, <2>11 DEF RunnerInv
<1> QED
  BY <1>10, <1>11

LEMMA StutterKeeps ==
    ASSUME RunnerInv, UNCHANGED vars
    PROVE  RunnerInv'
<1>1. /\ phase' = phase /\ why' = why /\ program' = program /\ file' = file /\ local' = local
      /\ global' = global /\ loaded' = loaded /\ bank' = bank /\ names' = names
      /\ state' = state /\ storage' = storage
  BY DEF vars, options
<1>2. Records' = Records /\ LastId' = LastId
  BY <1>1 DEF Records, LastId
<1>3. \A n : (Holds(bank, n)' <=> Holds(bank, n)) /\ (Named(n)' <=> Named(n))
  BY <1>1, <1>2 DEF Holds, Named
<1>4. \A n, i : (AllBelow(n, i)' <=> AllBelow(n, i)) /\ (AfterOne(n, i)' <=> AfterOne(n, i))
  BY <1>2 DEF AllBelow, AfterOne
<1>5. RootRecord(state + 1)' = RootRecord(state + 1)
  BY <1>1 DEF RootRecord
<1>6. ArgumentsInv' /\ ReasonInv'
  BY <1>1, <1>2 DEF RunnerInv, ArgumentsInv, ReasonInv
<1>7. ValidatedInv' /\ CheckedInv'
  BY <1>1 DEF RunnerInv, ValidatedInv, CheckedInv, ResolverOK, ReadNode
<1>8. ImportInv'
  <2>1. ImportInv
    BY DEF RunnerInv
  <2> QED
    BY <1>1, <1>2, <1>3, <1>4, <2>1 DEF ImportInv
<1>9. CellInv'
  <2>1. CellInv
    BY DEF RunnerInv
  <2> QED
    BY <1>1, <1>2, <1>3, <1>4, <1>5, <2>1 DEF CellInv
<1> QED
  BY <1>6, <1>7, <1>8, <1>9 DEF RunnerInv

LEMMA RunnerInvStep == RunnerInv /\ [Next]_vars => RunnerInv'
<1> SUFFICES ASSUME RunnerInv, [Next]_vars
             PROVE  RunnerInv'
  OBVIOUS
<1>1. CASE DecodeImage
  BY <1>1, FailKeeps, PhaseKeeps DEF DecodeImage
<1>2. CASE Replace
  BY <1>2, ReplaceKeeps
<1>3. CASE Validate
  BY <1>3, FailKeeps, PhaseKeeps DEF Validate, Loadable
<1>4. CASE Import
  BY <1>4, ImportKeeps
<1>5. CASE CreateState
  BY <1>5, CreateStateKeeps
<1>6. CASE CheckLocal
  BY <1>6, FailKeeps, PhaseKeeps DEF CheckLocal
<1>7. CASE Construct
  BY <1>7, ConstructKeeps
<1>8. CASE SetGlobalResolver
  BY <1>8, FailKeeps, PhaseKeeps DEF SetGlobalResolver
<1>9. CASE UNCHANGED vars
  BY <1>9, StutterKeeps
<1> QED
  BY <1>1, <1>2, <1>3, <1>4, <1>5, <1>6, <1>7, <1>8, <1>9 DEF Next

LEMMA RunnerInvHolds == Spec => []RunnerInv
BY RunnerInvInit, RunnerInvStep, PTL DEF Spec

-----------------------------------------------------------------------------

LEMMA FailsForAReasonFollows == RunnerInv => FailsForAReason
<1> SUFFICES ASSUME RunnerInv
             PROVE  FailsForAReason
  OBVIOUS
<1>1. why \notin {"import", "record"}
  BY DEF RunnerInv, ReasonInv
<1>2. phase = "import" => CanEncodeRuntimeReference(program.entry)
  BY EntryWritten DEF RunnerInv, ArgumentsInv, ValidatedInv
<1>3. why = "create" => \E r \in Imported : r.id + 3 > 2^IdBits - 1
  BY DEF RunnerInv, ReasonInv, Imported, Records, LastId
<1> QED
  BY <1>1, <1>2, <1>3 DEF FailsForAReason

THEOREM FailuresHaveAReason == Spec => []FailsForAReason
BY RunnerInvHolds, FailsForAReasonFollows, PTL

(* When the machine runs, the registers hold what was imported.            *)
LEMMA RunFacts ==
    ASSUME RunnerInv, phase = "run"
    PROVE  \A i \in DOMAIN Records :
               /\ Bank!Exists(bank, Records[i].id)
               /\ Bank!Contents(bank, Records[i].id) = Records[i].contents
               /\ Bank!IsImmutable(bank, Records[i].id) = IsProcedure(Records[i])
               /\ names[Records[i].name] = Records[i].id
<1> SUFFICES ASSUME NEW i \in DOMAIN Records
             PROVE  /\ Bank!Exists(bank, Records[i].id)
                    /\ Bank!Contents(bank, Records[i].id) = Records[i].contents
                    /\ Bank!IsImmutable(bank, Records[i].id) = IsProcedure(Records[i])
                    /\ names[Records[i].name] = Records[i].id
  OBVIOUS
<1> DEFINE p == IsProcedure(Records[i])
<1>1. i \in 1..loaded /\ Holds(bank, loaded) /\ Named(loaded)
  BY CellFacts
<1> HIDE DEF p
<1>2. /\ Records[i].id \in DOMAIN bank.entries
      /\ bank.entries[Records[i].id] =
             [contents |-> Records[i].contents, immutable |-> p, protected |-> FALSE]
      /\ names[Records[i].name] = Records[i].id
  BY <1>1 DEF Holds, Named, p
<1>3. /\ bank.entries[Records[i].id].contents = Records[i].contents
      /\ bank.entries[Records[i].id].immutable = p
  BY <1>2
<1> QED
  BY <1>2, <1>3 DEF Bank!Exists, Bank!Contents, Bank!IsImmutable, p

(* A node address of the image is one of a whole node.                     *)
LEMMA NodeAtReads ==
    ASSUME RunnerInv, phase = "run", NEW x \in References, ~x.null, NodeAt(x)
    PROVE  ReadNode(bank, x).ok
<1>1. PICK i \in DOMAIN Records : /\ Records[i].id = x.handle.id /\ IsNetwork(Records[i])
                                  /\ x.offset < Len(Records[i].contents)
  BY DEF NodeAt
<1>2. x.offset \in Nat /\ x.offset % NodeBits = 0
  <2>1. x # Null
    BY DEF Null
  <2>2. x.offset \in 0..MaxOffset
    BY <2>1 DEF References
  <2> QED
    BY <2>2 DEF NodeAt
<1>3. program \in ProgramImages /\ IsProgram(program)
  BY CellFacts
<1>4. Len(Records[i].contents) \in Nat
  BY <1>3, RecordTypes, BitsParts
<1>5. x.offset \in 0..(Len(Records[i].contents) - 1)
  BY <1>1, <1>2, <1>4
<1>6. DecodeNode(Records[i].contents, x.offset) \in NodesIn(Records[i].contents)
  BY <1>2, <1>5 DEF NodesIn
<1>7. DecodeNode(Records[i].contents, x.offset).ok
  BY <1>1, <1>3, <1>6, ProgramFacts
<1> QED
  BY <1>1, <1>7, RunFacts DEF ReadNode

LEMMA CodeAtImmutable ==
    ASSUME RunnerInv, phase = "run", NEW h, CodeAt(h)
    PROVE  Bank!IsImmutable(bank, h.id)
BY RunFacts DEF CodeAt

LEMMA StaticReferencesFollow == RunnerInv => StaticReferencesLand
<1> SUFFICES ASSUME RunnerInv, phase = "run", NEW r \in Imported, IsNetwork(r),
                    NEW n \in NodesIn(Bank!Contents(bank, r.id))
             PROVE  /\ n.ok
                    /\ \A x \in {n.value.next0, n.value.next1, n.value.resolver} :
                            ~x.null => ReadNode(bank, x).ok
                    /\ n.value.call => /\ ReadNode(bank, n.value.entry).ok
                                       /\ Bank!IsImmutable(bank, n.value.procedure.id)
  BY DEF StaticReferencesLand
<1>1. PICK i \in DOMAIN Records : r = Records[i]
  BY DEF Imported, Records
<1>2. program \in ProgramImages /\ IsProgram(program)
  BY CellFacts
<1>3. n \in NodesIn(Records[i].contents) /\ IsNetwork(Records[i])
  BY <1>1, RunFacts
<1>4. /\ n.ok
      /\ \A x \in {n.value.next0, n.value.next1, n.value.resolver} : ~x.null => NodeAt(x)
      /\ n.value.call => /\ CodeAt(n.value.procedure)
                         /\ ~n.value.entry.null => NodeAt(n.value.entry)
  BY <1>2, <1>3, ProgramFacts
<1>5. n.value \in NetworkNodes /\ CanEncodeNode(n.value)
  <2> DEFINE s == Records[i].contents
  <2>1. s \in Bits /\ Len(s) \in Nat
    BY <1>2, RecordTypes, BitsParts
  <2>2. PICK c \in 0..(Len(s) - 1) : n = DecodeNode(s, c)
    BY <1>3 DEF NodesIn
  <2> HIDE DEF s
  <2>3. c \in 0..Len(s)
    BY <2>1, <2>2
  <2>4. n # Failed(c)
    BY <1>4 DEF Failed
  <2>5. PICK d, v : v \in NetworkNodes /\ CanEncodeNode(v) /\ n = Got(v, d)
    BY <2>1, <2>2, <2>3, <2>4, NodeMet
  <2> QED
    BY <2>5 DEF Got
<1>6. \A x \in {n.value.next0, n.value.next1, n.value.resolver} : x \in References
  BY <1>5 DEF NetworkNodes
<1>7. n.value.call => n.value.entry \in References /\ ~n.value.entry.null
  BY <1>5 DEF NetworkNodes, CanEncodeNode
<1> QED
  BY <1>4, <1>6, <1>7, NodeAtReads, CodeAtImmutable

THEOREM ReferencesLand == Spec => []StaticReferencesLand
BY RunnerInvHolds, StaticReferencesFollow, PTL

LEMMA WholeStream ==
    ASSUME NEW e \in Bits
    PROVE  Between(e, 0, Len(e), e)
BY BitsParts DEF Between, Stands

LEMMA MachineReadyFollows == RunnerInv => MachineReady
<1> SUFFICES ASSUME RunnerInv, phase = "run"
             PROVE  MachineReady
  BY DEF MachineReady
<1> DEFINE record == DecodeActivation(Bank!Contents(bank, storage), 0)
           cell == DecodeRuntimeReference(Bank!Contents(bank, state), 0)
           root == RootRecord(state + 1)
<1>1. /\ storage = state + 2 /\ state + 2 \in 0..LastId /\ storage \in DOMAIN bank.entries
      /\ bank.entries[storage] = Cell(EncodeActivation(root))
  <2>1. CellInv
    BY DEF RunnerInv
  <2> QED
    BY <2>1 DEF CellInv
<1>2. /\ program \in ProgramImages /\ IsProgram(program) /\ local \in ResolverRefs
      /\ global \in ResolverRefs /\ state \in 0..LastId /\ state \in Nat
      /\ state \in DOMAIN bank.entries
      /\ bank.entries[state] = Cell(EncodeRuntimeReference(program.entry))
  BY CellFacts
<1>3. root \in Activations /\ CanEncodeActivation(root)
  <2>1. state + 1 \in 0..LastId
    BY <1>1, <1>2, LastIdIsNat
  <2> QED
    BY <1>2, <2>1, RootRecordWritten
<1>4. record = Got(root, Len(EncodeActivation(root)))
  <2>1. Bank!Contents(bank, storage) = EncodeActivation(root)
    BY <1>1 DEF Bank!Contents, Cell
  <2>2. EncodeActivation(root) \in Bits
    BY <1>3, ActivationWritten
  <2> HIDE DEF root
  <2> QED
    BY <1>3, <2>1, <2>2, WholeStream, ActivationBack
<1>5. cell = Got(program.entry, Len(EncodeRuntimeReference(program.entry)))
  <2>1. Bank!Contents(bank, state) = EncodeRuntimeReference(program.entry)
    BY <1>2 DEF Bank!Contents, Cell
  <2>2. program.entry \in References /\ CanEncodeRuntimeReference(program.entry)
    BY <1>2, RecordTypes, EntryWritten
  <2>3. EncodeRuntimeReference(program.entry) \in Bits
    BY <2>2, ReferenceWritten
  <2> QED
    BY <2>1, <2>2, <2>3, WholeStream, ReferenceBack
<1> HIDE DEF record, cell
<1>6. /\ record.ok /\ record.value = root /\ cell.ok /\ cell.value = program.entry
  BY <1>4, <1>5, Results2
<1>7. /\ root.network = At(Handle(Global, state), 0) /\ root.local = local
      /\ root.procedure = program.procedure /\ root.result.id = state + 1
  BY DEF RootRecord, Handle
<1> HIDE DEF root
<1>8. ReadNode(bank, program.entry).ok
  BY <1>2, RecordTypes, ProgramFacts, NodeAtReads
<1>9. \A r \in {local, global} : ~r.null => ReadNode(bank, r).ok
  BY DEF RunnerInv, CheckedInv, ResolverOK
<1>10. Bank!IsImmutable(bank, program.procedure.id)
  BY <1>2, ProgramFacts, CodeAtImmutable
<1>11. Bank!CanChange(bank, state)
  BY <1>2 DEF Bank!CanChange, Bank!Exists, Bank!Locked, Cell
<1>12. ASSUME NEW r \in Imported
       PROVE  /\ Bank!Contents(bank, names[r.name]) = r.contents
              /\ r.id \notin {state, storage, state + 1}
  <2>1. PICK i \in DOMAIN Records : r = Records[i]
    BY DEF Imported, Records
  <2>2. Bank!Contents(bank, names[r.name]) = r.contents
    BY <2>1, RunFacts
  <2>3. r.id \in Nat /\ r.id < state
    BY <2>1, CellFacts, RecordTypes DEF AllBelow
  <2> QED
    BY <1>1, <1>2, <2>2, <2>3
<1>13. /\ record.ok
       /\ record.value.network = At(Handle(Global, state), 0)
       /\ cell.ok /\ cell.value = program.entry
       /\ ReadNode(bank, cell.value).ok
       /\ \A r \in {local, global, record.value.local} : ~r.null => ReadNode(bank, r).ok
       /\ Bank!IsImmutable(bank, record.value.procedure.id)
       /\ Bank!CanChange(bank, state)
       /\ \A r \in Imported :
           /\ Bank!Contents(bank, names[r.name]) = r.contents
           /\ r.id \notin {state, storage, record.value.result.id}
  BY <1>6, <1>7, <1>8, <1>9, <1>10, <1>11, <1>12
<1> QED
  BY <1>13 DEF MachineReady, record, cell

THEOREM MachineStartsReady == Spec => []MachineReady
BY RunnerInvHolds, MachineReadyFollows, PTL

-----------------------------------------------------------------------------
(* Any number of parts, one after the other.                               *)

\* What has been joined after each of n parts that follow b.
Chain(h, b, p, n) == h[0] = b /\ \A i \in 1..n : h[i] = h[i - 1] \o p[i]

LEMMA ChainMade ==
    ASSUME NEW b, NEW p, NEW n \in Nat
    PROVE  \E h : Chain(h, b, p, n)
<1> DEFINE S == {k \in Nat : \E h : Chain(h, b, p, k)}
<1>1. 0 \in S
  <2> DEFINE h == [i \in {0} |-> b]
  <2>1. Chain(h, b, p, 0)
    BY DEF Chain
  <2> HIDE DEF h
  <2> QED
    BY <2>1
<1>2. ASSUME NEW k \in Nat, k \in S
      PROVE  k + 1 \in S
  <2>1. PICK h : Chain(h, b, p, k)
    BY <1>2
  <2> DEFINE g == [i \in 0..(k + 1) |-> IF i = k + 1 THEN h[k] \o p[k + 1] ELSE h[i]]
  <2>2. \A i \in 0..k : g[i] = h[i]
    OBVIOUS
  <2>3. g[k + 1] = h[k] \o p[k + 1]
    <3>1. k + 1 \in 0..(k + 1)
      OBVIOUS
    <3> QED
      BY <3>1
  <2> HIDE DEF g
  <2>4. \A i \in 1..(k + 1) : g[i] = g[i - 1] \o p[i]
    <3> SUFFICES ASSUME NEW i \in 1..(k + 1)
                 PROVE  g[i] = g[i - 1] \o p[i]
      OBVIOUS
    <3>1. CASE i = k + 1
      <4>1. i - 1 = k /\ k \in 0..k
        BY <3>1
      <4> QED
        BY <2>2, <2>3, <3>1, <4>1
    <3>2. CASE i # k + 1
      <4>1. i \in 1..k /\ i \in 0..k /\ i - 1 \in 0..k
        BY <3>2
      <4> QED
        BY <2>1, <2>2, <4>1 DEF Chain
    <3> QED
      BY <3>1, <3>2
  <2>5. Chain(g, b, p, k + 1)
    <3>1. g[0] = b
      BY <2>1, <2>2 DEF Chain
    <3> QED
      BY <2>4, <3>1 DEF Chain
  <2> QED
    BY <2>5
<1> HIDE DEF S
<1>3. n \in S
  BY <1>1, <1>2, Induction
<1> QED
  BY <1>3 DEF S

LEMMA ChainBits ==
    ASSUME NEW b \in Bits, NEW p, NEW n \in Nat, \A i \in 1..n : p[i] \in Bits,
           NEW h, Chain(h, b, p, n)
    PROVE  \A i \in 0..n : h[i] \in Bits
<1> DEFINE S == {k \in Nat : k <= n => h[k] \in Bits}
<1>1. 0 \in S
  BY DEF Chain
<1>2. ASSUME NEW k \in Nat, k \in S
      PROVE  k + 1 \in S
  <2> SUFFICES ASSUME k + 1 <= n
               PROVE  h[k + 1] \in Bits
    OBVIOUS
  <2>1. k + 1 \in 1..n /\ (k + 1) - 1 = k /\ h[k] \in Bits
    BY <1>2
  <2>2. h[k + 1] = h[k] \o p[k + 1] /\ p[k + 1] \in Bits
    BY <2>1 DEF Chain
  <2> QED
    BY <2>1, <2>2, Joined
<1>3. \A k \in Nat : k \in S
  <2> HIDE DEF S
  <2> QED
    BY <1>1, <1>2, Induction
<1> QED
  BY <1>3

\* The parts p stand one after the other, each where m says.
Apart(s, m, p, n) == \A k \in 1..n : Between(s, m[k - 1], m[k], p[k])

LEMMA ChainJoined ==
    ASSUME NEW s, NEW c, NEW b, NEW p, NEW n \in Nat, NEW h, Chain(h, b, p, n),
           NEW m, Between(s, c, m[0], b), Apart(s, m, p, n)
    PROVE  Between(s, c, m[n], h[n])
<1> DEFINE S == {k \in Nat : k <= n => Between(s, c, m[k], h[k])}
<1>1. 0 \in S
  BY DEF Chain
<1>2. ASSUME NEW k \in Nat, k \in S
      PROVE  k + 1 \in S
  <2> SUFFICES ASSUME k + 1 <= n
               PROVE  Between(s, c, m[k + 1], h[k + 1])
    OBVIOUS
  <2>1. k + 1 \in 1..n /\ (k + 1) - 1 = k /\ Between(s, c, m[k], h[k])
    BY <1>2
  <2>2. h[k + 1] = h[k] \o p[k + 1] /\ Between(s, m[k], m[k + 1], p[k + 1])
    BY <2>1 DEF Chain, Apart
  <2> QED
    BY <2>1, <2>2, BetweenJoined
<1>3. \A k \in Nat : k \in S
  <2> HIDE DEF S
  <2> QED
    BY <1>1, <1>2, Induction
<1> QED
  BY <1>3

LEMMA ChainSplit ==
    ASSUME NEW s, NEW c, NEW d, NEW b \in Bits, NEW p, NEW n \in Nat,
           \A i \in 1..n : p[i] \in Bits, NEW h, Chain(h, b, p, n), Between(s, c, d, h[n])
    PROVE  \E m : Between(s, c, m[0], b) /\ m[n] = d /\ Apart(s, m, p, n)
<1> DEFINE Splits(k, e) ==
               \E m : Between(s, c, m[0], b) /\ m[k] = e /\ Apart(s, m, p, k)
           S == {k \in Nat : k <= n => \A e : Between(s, c, e, h[k]) => Splits(k, e)}
<1>1. 0 \in S
  <2> SUFFICES ASSUME NEW e, Between(s, c, e, h[0])
               PROVE  Splits(0, e)
    OBVIOUS
  <2>1. PICK m : m = [i \in {0} |-> e]
    OBVIOUS
  <2>2. Between(s, c, m[0], b) /\ m[0] = e
    BY <2>1 DEF Chain
  <2>3. Apart(s, m, p, 0)
    BY DEF Apart
  <2> QED
    BY <2>2, <2>3
<1>2. ASSUME NEW k \in Nat, k \in S
      PROVE  k + 1 \in S
  <2> SUFFICES ASSUME k + 1 <= n, NEW e, Between(s, c, e, h[k + 1])
               PROVE  Splits(k + 1, e)
    OBVIOUS
  <2>1. /\ k + 1 \in 1..n /\ (k + 1) - 1 = k /\ k \in 0..n
        /\ \A d1 : Between(s, c, d1, h[k]) => Splits(k, d1)
    BY <1>2
  <2> HIDE DEF S, Splits
  <2>2. h[k + 1] = h[k] \o p[k + 1] /\ p[k + 1] \in Bits /\ h[k] \in Bits
    BY <2>1, ChainBits DEF Chain
  <2>3. PICK d1 : Between(s, c, d1, h[k]) /\ Between(s, d1, e, p[k + 1])
    BY <2>2, BetweenSplit
  <2>4. PICK m : Between(s, c, m[0], b) /\ m[k] = d1 /\ Apart(s, m, p, k)
    BY <2>1, <2>3 DEF Splits
  <2>5. PICK g : g = [i \in 0..(k + 1) |-> IF i = k + 1 THEN e ELSE m[i]]
    OBVIOUS
  <2>6. g[k + 1] = e /\ \A i \in 0..k : g[i] = m[i]
    BY <2>5
  <2>7. Between(s, c, g[0], b)
    BY <2>4, <2>6
  <2>8. Apart(s, g, p, k + 1)
    <3> SUFFICES ASSUME NEW i \in 1..(k + 1)
                 PROVE  Between(s, g[i - 1], g[i], p[i])
      BY DEF Apart
    <3>1. CASE i = k + 1
      <4>1. i - 1 = k /\ k \in 0..k
        BY <3>1
      <4> QED
        BY <2>3, <2>4, <2>6, <3>1, <4>1
    <3>2. CASE i # k + 1
      <4>1. i \in 1..k /\ i \in 0..k /\ i - 1 \in 0..k
        BY <3>2
      <4> QED
        BY <2>4, <2>6, <4>1 DEF Apart
    <3> QED
      BY <3>1, <3>2
  <2> QED
    BY <2>6, <2>7, <2>8 DEF Splits
<1>3. n \in S
  <2> HIDE DEF S
  <2> QED
    BY <1>1, <1>2, Induction
<1> QED
  BY <1>3

(* The parts flattened are the parts joined.                               *)
LEMMA Flattened ==
    ASSUME NEW p, NEW n \in Nat, Len(p) = n, n = 0 => p = <<>>, \A i \in 1..n : p[i] \in Bits,
           NEW h, Chain(h, <<>>, p, n)
    PROVE  FlattenSeq(p) = h[n]
<1>1. CASE n = 0
  BY <1>1 DEF FlattenSeq, Chain
<1>2. CASE n # 0
  <2> DEFINE R(g) == g = [i \in 1..n |-> IF i = 1 THEN p[i] ELSE g[i - 1] \o p[i]]
             g0 == [i \in 1..n |-> h[i]]
             f == CHOOSE g : R(g)
  <2>0. 1 \in 1..n /\ h[1] = <<>> \o p[1] /\ p[1] \in Bits
    <3>1. 1 \in 1..n /\ 1 - 1 = 0
      BY <1>2
    <3>2. h[1] = h[1 - 1] \o p[1]
      BY <3>1 DEF Chain
    <3> QED
      BY <3>1, <3>2 DEF Chain
  <2>2. \A i \in 1..n : h[i] = IF i = 1 THEN p[i] ELSE g0[i - 1] \o p[i]
    <3> SUFFICES ASSUME NEW i \in 1..n
                 PROVE  h[i] = IF i = 1 THEN p[i] ELSE g0[i - 1] \o p[i]
      OBVIOUS
    <3>1. CASE i = 1
      <4> HIDE DEF g0
      <4> QED
        BY <2>0, <3>1 DEF Bits
    <3>2. CASE i # 1
      <4>1. i - 1 \in 1..n
        BY <3>2
      <4>2. g0[i - 1] = h[i - 1]
        BY <4>1
      <4> HIDE DEF g0
      <4> QED
        BY <3>2, <4>2 DEF Chain
    <3> QED
      BY <3>1, <3>2
  <2>3. R(g0)
    <3>1. g0 = [i \in 1..n |-> IF i = 1 THEN p[i] ELSE g0[i - 1] \o p[i]]
      BY <2>2
    <3> QED
      BY <3>1
  <2>4. R(f)
    <3> HIDE DEF R, g0
    <3> QED
      BY <2>3
  <2>5. FlattenSeq(p) = f[n]
    BY <1>2 DEF FlattenSeq
  <2> HIDE DEF f, g0
  <2>6. \A i \in 1..n : f[i] = IF i = 1 THEN p[i] ELSE f[i - 1] \o p[i]
    BY <2>4
  <2> HIDE DEF R
  <2> DEFINE S == {k \in Nat : k \in 1..n => f[k] = h[k]}
  <2>7. 0 \in S
    OBVIOUS
  <2>8. ASSUME NEW k \in Nat, k \in S
        PROVE  k + 1 \in S
    <3> SUFFICES ASSUME k + 1 \in 1..n
                 PROVE  f[k + 1] = h[k + 1]
      OBVIOUS
    <3>1. CASE k = 0
      <4>1. f[1] = p[1]
        BY <2>0, <2>6
      <4> QED
        BY <2>0, <3>1, <4>1 DEF Bits
    <3>2. CASE k # 0
      <4>1. k \in 1..n /\ k + 1 # 1 /\ (k + 1) - 1 = k
        BY <3>2
      <4>2. f[k] = h[k]
        BY <2>8, <4>1
      <4>3. f[k + 1] = f[k] \o p[k + 1]
        BY <2>6, <4>1
      <4>4. h[k + 1] = h[k] \o p[k + 1]
        BY <4>1 DEF Chain
      <4> QED
        BY <4>2, <4>3, <4>4
    <3> QED
      BY <3>1, <3>2
  <2>9. n \in S
    <3> HIDE DEF S
    <3> QED
      BY <2>7, <2>8, Induction
  <2> QED
    BY <1>2, <2>5, <2>9
<1> QED
  BY <1>1, <1>2

-----------------------------------------------------------------------------
(* Arguments and instructions                                              *)

ArgumentFields ==
    {SelectorField, SourceField, DestinationField, SizeField, UintField(5), UintField(1)}

LEMMA ArgumentKinds ==
    /\ \A f \in ArgumentFields : \/ f = SelectorField \/ f = SourceField \/ f = DestinationField
                                 \/ f = SizeField \/ \E w \in {1, 5} : f = UintField(w)
    /\ ArgumentValues(SelectorField) = Selectors
    /\ ArgumentValues(SourceField) = Sources
    /\ ArgumentValues(DestinationField) = {r \in OperandReferences : CanEncodeDestination(r)}
    /\ ArgumentValues(SizeField) = Words
    /\ \A w : ArgumentValues(UintField(w)) = 0..(2^w - 1)
    /\ \A v : /\ EncodeArgument(SelectorField, v) = EncodeSelector(v)
              /\ EncodeArgument(SourceField, v) = EncodeSource(v)
              /\ EncodeArgument(DestinationField, v) = EncodeReference(v)
              /\ EncodeArgument(SizeField, v) = EncodeSize(v)
              /\ \A w : EncodeArgument(UintField(w), v) = UintBits(v, w)
    /\ \A s, c : /\ ReadAny(s, c, SelectorField) = DecodeSelector(s, c)
                 /\ ReadAny(s, c, SourceField) = DecodeSource(s, c)
                 /\ ReadAny(s, c, DestinationField) = DecodeDestination(s, c)
                 /\ ReadAny(s, c, SizeField) = DecodeSize(s, c)
                 /\ \A w : ReadAny(s, c, UintField(w)) = ReadUint(s, c, w)
<1>1. \A f \in ArgumentFields : \/ f = SelectorField \/ f = SourceField \/ f = DestinationField
                                \/ f = SizeField \/ \E w \in {1, 5} : f = UintField(w)
  BY DEF ArgumentFields
<1>2. /\ SelectorField.type = "selector" /\ SourceField.type = "source"
      /\ DestinationField.type = "destination" /\ SizeField.type = "size"
      /\ \A w : UintField(w).type = "uint" /\ UintField(w).width = w
  BY DEF SelectorField, SourceField, DestinationField, SizeField, UintField
<1>3. /\ ArgumentValues(SelectorField) = Selectors
      /\ ArgumentValues(SourceField) = Sources
      /\ ArgumentValues(DestinationField) = {r \in OperandReferences : CanEncodeDestination(r)}
      /\ ArgumentValues(SizeField) = Words
      /\ \A w : ArgumentValues(UintField(w)) = 0..(2^w - 1)
  BY <1>2 DEF ArgumentValues
<1>4. \A v : /\ EncodeArgument(SelectorField, v) = EncodeSelector(v)
             /\ EncodeArgument(SourceField, v) = EncodeSource(v)
             /\ EncodeArgument(DestinationField, v) = EncodeReference(v)
             /\ EncodeArgument(SizeField, v) = EncodeSize(v)
             /\ \A w : EncodeArgument(UintField(w), v) = UintBits(v, w)
  BY <1>2 DEF EncodeArgument
<1>5. \A s, c : /\ ReadAny(s, c, SelectorField) = DecodeSelector(s, c)
                /\ ReadAny(s, c, SourceField) = DecodeSource(s, c)
                /\ ReadAny(s, c, DestinationField) = DecodeDestination(s, c)
  BY <1>2 DEF ReadAny, ReadArgument
<1>6. \A s, c : /\ ReadAny(s, c, SizeField) = DecodeSize(s, c)
                /\ \A w : ReadAny(s, c, UintField(w)) = ReadUint(s, c, w)
  BY PlainKinds, PlainField, NamedFieldReads, FieldReads
<1> QED
  BY <1>1, <1>3, <1>4, <1>5, <1>6

LEMMA ArgumentWritten ==
    ASSUME NEW f \in ArgumentFields, NEW v \in ArgumentValues(f)
    PROVE  EncodeArgument(f, v) \in Bits
<1>1. CASE f = SelectorField
  BY <1>1, ArgumentKinds, SelectorWritten
<1>2. CASE f = SourceField
  BY <1>2, ArgumentKinds, SourceWritten
<1>3. CASE f = DestinationField
  <2>1. v \in OperandReferences
    BY <1>3, ArgumentKinds
  <2> QED
    BY <1>3, <2>1, ArgumentKinds, OperandWritten
<1>4. CASE f = SizeField
  BY <1>4, ArgumentKinds, SizeWritten
<1>5. ASSUME NEW w \in {1, 5}, f = UintField(w)
      PROVE  EncodeArgument(f, v) \in Bits
  <2>1. v \in 0..(2^w - 1) /\ w \in Nat
    BY <1>5, ArgumentKinds
  <2>2. v \in Nat
    BY <2>1
  <2> QED
    BY <1>5, <2>1, <2>2, ArgumentKinds, UintBitsAreBits
<1> QED
  BY <1>1, <1>2, <1>3, <1>4, <1>5, ArgumentKinds

LEMMA ArgumentBack ==
    ASSUME 5 <= Word, NEW s, NEW c, NEW d, NEW f \in ArgumentFields, NEW v \in ArgumentValues(f),
           Between(s, c, d, EncodeArgument(f, v))
    PROVE  ReadAny(s, c, f) = Got(v, d)
<1>1. CASE f = SelectorField
  BY <1>1, ArgumentKinds, SelectorBack
<1>2. CASE f = SourceField
  BY <1>2, ArgumentKinds, SourceBack
<1>3. CASE f = DestinationField
  <2>1. v \in OperandReferences /\ CanEncodeDestination(v)
    BY <1>3, ArgumentKinds
  <2>2. Between(s, c, d, EncodeReference(v))
    BY <1>3, ArgumentKinds
  <2> QED
    BY <1>3, <2>1, <2>2, ArgumentKinds, DestinationBack
<1>4. CASE f = SizeField
  BY <1>4, ArgumentKinds, SizeBack
<1>5. ASSUME NEW w \in {1, 5}, f = UintField(w)
      PROVE  ReadAny(s, c, f) = Got(v, d)
  <2>1. v \in 0..(2^w - 1) /\ w \in 0..Word
    <3>1. w \in 0..Word
      BY WordIsNat
    <3> QED
      BY <1>5, <3>1, ArgumentKinds
  <2>2. Between(s, c, d, UintBits(v, w))
    BY <1>5, ArgumentKinds
  <2> QED
    BY <1>5, <2>1, <2>2, ArgumentKinds, UintBack
<1> QED
  BY <1>1, <1>2, <1>3, <1>4, <1>5, ArgumentKinds

LEMMA ArgumentMet ==
    ASSUME NEW s \in Bits, NEW c \in 0..Len(s), NEW f \in ArgumentFields
    PROVE  \/ ReadAny(s, c, f) = Failed(c)
           \/ \E d : \E v \in ArgumentValues(f) : /\ Between(s, c, d, EncodeArgument(f, v))
                                                  /\ ReadAny(s, c, f) = Got(v, d)
<1> SUFFICES ASSUME ReadAny(s, c, f) # Failed(c)
             PROVE  \E d : \E v \in ArgumentValues(f) : /\ Between(s, c, d, EncodeArgument(f, v))
                                                        /\ ReadAny(s, c, f) = Got(v, d)
  OBVIOUS
<1>1. CASE f = SelectorField
  BY <1>1, ArgumentKinds, SelectorMet
<1>2. CASE f = SourceField
  BY <1>2, ArgumentKinds, SourceMet
<1>3. CASE f = DestinationField
  <2>1. PICK d : \E r \in OperandReferences : /\ CanEncodeDestination(r)
                                              /\ Between(s, c, d, EncodeReference(r))
                                              /\ DecodeDestination(s, c) = Got(r, d)
    BY <1>3, ArgumentKinds, DestinationMet
  <2>2. PICK r \in OperandReferences : /\ CanEncodeDestination(r)
                                       /\ Between(s, c, d, EncodeReference(r))
                                       /\ DecodeDestination(s, c) = Got(r, d)
    BY <2>1
  <2> QED
    BY <1>3, <2>2, ArgumentKinds
<1>4. CASE f = SizeField
  BY <1>4, ArgumentKinds, SizeMet
<1>5. ASSUME NEW w \in {1, 5}, f = UintField(w)
      PROVE  \E d : \E v \in ArgumentValues(f) : /\ Between(s, c, d, EncodeArgument(f, v))
                                                 /\ ReadAny(s, c, f) = Got(v, d)
  <2>1. w \in Nat /\ ReadUint(s, c, w) # Failed(c)
    BY <1>5, ArgumentKinds
  <2>2. PICK d : \E x \in 0..(2^w - 1) : /\ w <= Word
                                         /\ Between(s, c, d, UintBits(x, w))
                                         /\ ReadUint(s, c, w) = Got(x, d)
    BY <2>1, UintMet
  <2> QED
    BY <1>5, <2>2, ArgumentKinds
<1> QED
  BY <1>1, <1>2, <1>3, <1>4, <1>5, ArgumentKinds

(* The arguments of a command are of these kinds, and what its first one   *)
(* is tells which follow.                                                  *)
LEMMA RestIsFields ==
    ASSUME NEW command \in Commands, NEW v
    PROVE  /\ ArgumentsOf[command] \in Seq(ArgumentFields)
           /\ Rest(command, v) \in Seq(ArgumentFields)
           /\ \A w : (1 \in 1..Len(ArgumentsOf[command]) => v[1] = w[1])
                         => Rest(command, v) = Rest(command, w)
<1>1. ArgumentsOf[command] \in Seq(ArgumentFields)
  <2>1. /\ SizeField \in ArgumentFields /\ DestinationField \in ArgumentFields
        /\ SourceField \in ArgumentFields /\ SelectorField \in ArgumentFields
        /\ UintField(5) \in ArgumentFields
    BY DEF ArgumentFields
  <2>2. \A f, g \in ArgumentFields : /\ <<>> \in Seq(ArgumentFields)
                                    /\ <<f>> \in Seq(ArgumentFields)
                                    /\ <<f, g>> \in Seq(ArgumentFields)
    OBVIOUS
  <2>3. /\ ArgumentsOf["read_prefix"] = <<SizeField>>
        /\ ArgumentsOf["modify_prefix"] = <<SizeField>>
        /\ ArgumentsOf["condition_prefix"] = <<DestinationField>>
        /\ ArgumentsOf["branch"] = <<>>
        /\ ArgumentsOf["compute"] = <<UintField(5)>>
        /\ ArgumentsOf["copy"] = <<SourceField, DestinationField>>
        /\ ArgumentsOf["switch_procedure"] = <<SourceField>>
        /\ ArgumentsOf["switch_network"] = <<SourceField>>
        /\ ArgumentsOf["switch_procedure_and_network"] = <<SourceField, SourceField>>
        /\ ArgumentsOf["return_result"] = <<SourceField>>
        /\ ArgumentsOf["set_procedure_position"] = <<SourceField>>
        /\ ArgumentsOf["finish_call"] = <<>>
        /\ ArgumentsOf["resize_register"] = <<SelectorField, SourceField>>
        /\ ArgumentsOf["get_register_size"] = <<SelectorField, DestinationField>>
        /\ ArgumentsOf["resolve_return"] = <<SourceField, SourceField>>
    BY DEF ArgumentsOf
  <2>4. command \in {"read_prefix", "modify_prefix", "condition_prefix", "branch",
                     "compute", "copy", "switch_procedure", "switch_network",
                     "switch_procedure_and_network", "return_result",
                     "set_procedure_position", "finish_call",
                     "resize_register", "get_register_size", "resolve_return"}
    BY DEF Commands, ArgumentsOf
  <2> QED
    BY <2>1, <2>2, <2>3, <2>4
<1>2. BranchField \in ArgumentFields /\ SourceField \in ArgumentFields
      /\ DestinationField \in ArgumentFields
  BY DEF ArgumentFields, BranchField
<1>3. MoreArguments(command, v) \in Seq(ArgumentFields)
  BY <1>2 DEF MoreArguments
<1>4. (IF Branching(command) THEN <<BranchField>> ELSE <<>>) \in Seq(ArgumentFields)
  BY <1>2
<1>5. Rest(command, v) \in Seq(ArgumentFields)
  BY <1>3, <1>4 DEF Rest
<1>6. ASSUME NEW w, 1 \in 1..Len(ArgumentsOf[command]) => v[1] = w[1]
      PROVE  Rest(command, v) = Rest(command, w)
  <2>1. CASE command = "compute"
    <3>1. 1 \in 1..Len(ArgumentsOf[command])
      BY <2>1 DEF ArgumentsOf
    <3> QED
      BY <1>6, <3>1 DEF Rest, MoreArguments
  <2>2. CASE command # "compute"
    BY <2>2 DEF Rest, MoreArguments
  <2> QED
    BY <2>1, <2>2
<1> QED
  BY <1>1, <1>5, <1>6

LEMMA ArgumentField ==
    ASSUME NEW s, NEW c, NEW f \in ArgumentFields
    PROVE  ReadAny(s, c, f) = ReadArgument(s, c, f)
<1>1. f.type # "record"
  BY DEF ArgumentFields, SelectorField, SourceField, DestinationField, SizeField, UintField
<1> QED
  BY <1>1 DEF ReadAny

LEMMA ArgumentsReading ==
    ASSUME NEW s, NEW a, NEW fields \in Seq(ArgumentFields)
    PROVE  ReadAll(ReadArgument, s, a, fields) = ReadAnything(s, a, fields)
<1> DEFINE n == Len(fields)
           Step(read, field) ==
               Then(read, a, LAMBDA values, from :
                   Then(ReadArgument(s, from, field), from,
                        LAMBDA v, end : Got(Append(values, v), end)))
           Arguments(g) == g = [t \in SUBSET DOMAIN fields |->
               IF t = {} THEN Got(<<>>, a) ELSE Step(g[t \ {Max(t)}], fields[Max(t)])]
           Whatever(g) == g = [t \in SUBSET DOMAIN fields |->
               IF t = {} THEN Got(<<>>, a)
               ELSE FieldStep(s, a, g[t \ {Max(t)}], fields[Max(t)])]
<1>1. ReadAll(ReadArgument, s, a, fields) = (CHOOSE g : Arguments(g))[DOMAIN fields]
  BY DEF ReadAll, FoldLeft, MapThenFoldSet
<1>2. ReadAnything(s, a, fields) = (CHOOSE g : Whatever(g))[DOMAIN fields]
  BY ReadingFolds
<1>3. n \in Nat /\ DOMAIN fields = 1..n /\ \A k \in 1..n : fields[k] \in ArgumentFields
  OBVIOUS
<1> HIDE DEF n
<1>4. ASSUME NEW t \in SUBSET DOMAIN fields, t # {}, NEW read
      PROVE  Step(read, fields[Max(t)]) = FieldStep(s, a, read, fields[Max(t)])
  <2>1. t \in SUBSET (0..n)
    BY <1>3
  <2>2. Max(t) \in 1..n
    BY <1>3, <1>4, <2>1, MaxOfNumbers
  <2>3. \A c : ReadAny(s, c, fields[Max(t)]) = ReadArgument(s, c, fields[Max(t)])
    BY <1>3, <2>2, ArgumentField
  <2> QED
    BY <2>3 DEF FieldStep, Then
<1>5. \A g : Arguments(g) <=> Whatever(g)
  <2> HIDE DEF Step
  <2> QED
    BY <1>4
<1> HIDE DEF Arguments, Whatever
<1>6. (CHOOSE g : Arguments(g)) = (CHOOSE g : Whatever(g))
  BY <1>5
<1> QED
  BY <1>1, <1>2, <1>6

LEMMA InstructionSteps ==
    ASSUME NEW command \in Commands, NEW s, NEW c
    PROVE  LET A == ArgumentsOf[command]
           IN  /\ ReadAnything(s, c, A) = Failed(c) => DecodeInstruction(command, s, c) = Failed(c)
               /\ \A v, k : ReadAnything(s, c, A) = Got(v, k) =>
                      /\ ReadAnything(s, k, Rest(command, v)) = Failed(k) =>
                             DecodeInstruction(command, s, c) = Failed(c)
                      /\ \A w, d : ReadAnything(s, k, Rest(command, v)) = Got(w, d) =>
                             DecodeInstruction(command, s, c) = Got(v \o w, d)
<1> DEFINE A == ArgumentsOf[command]
           Whole(v, k) == Then(ReadAll(ReadArgument, s, k, Rest(command, v)), k,
                               LAMBDA w, end : Got(v \o w, end))
<1>1. DecodeInstruction(command, s, c) = Then(ReadAll(ReadArgument, s, c, A), c, Whole)
  BY DEF DecodeInstruction
<1>2. ReadAll(ReadArgument, s, c, A) = ReadAnything(s, c, A)
  <2>1. A \in Seq(ArgumentFields)
    BY RestIsFields
  <2> QED
    BY <2>1, ArgumentsReading
<1>3. ASSUME NEW v, NEW k
      PROVE  Whole(v, k) = Then(ReadAnything(s, k, Rest(command, v)), k,
                                LAMBDA w, end : Got(v \o w, end))
  <2>1. Rest(command, v) \in Seq(ArgumentFields)
    BY RestIsFields
  <2>2. ReadAll(ReadArgument, s, k, Rest(command, v)) = ReadAnything(s, k, Rest(command, v))
    BY <2>1, ArgumentsReading
  <2> QED
    BY <2>2
<1>4. ASSUME NEW v, NEW k
      PROVE  /\ ReadAnything(s, k, Rest(command, v)) = Failed(k) => Whole(v, k) = Failed(k)
             /\ \A w, d : ReadAnything(s, k, Rest(command, v)) = Got(w, d) =>
                    Whole(v, k) = Got(v \o w, d)
  <2> HIDE DEF Whole
  <2> QED
    BY <1>3, Results2 DEF Then, Kept
<1> HIDE DEF A, Whole
<1>5. ReadAnything(s, c, A) = Failed(c) => DecodeInstruction(command, s, c) = Failed(c)
  BY <1>1, <1>2, Results2 DEF Then, Kept
<1>6. ASSUME NEW v, NEW k, ReadAnything(s, c, A) = Got(v, k)
      PROVE  /\ ReadAnything(s, k, Rest(command, v)) = Failed(k) =>
                    DecodeInstruction(command, s, c) = Failed(c)
             /\ \A w, d : ReadAnything(s, k, Rest(command, v)) = Got(w, d) =>
                    DecodeInstruction(command, s, c) = Got(v \o w, d)
  <2>1. DecodeInstruction(command, s, c) = Kept(Whole(v, k), c)
    BY <1>1, <1>2, <1>6, Results2 DEF Then
  <2> QED
    BY <1>4, <2>1, Results2 DEF Kept
<1>7. /\ ReadAnything(s, c, A) = Failed(c) => DecodeInstruction(command, s, c) = Failed(c)
      /\ \A v, k : ReadAnything(s, c, A) = Got(v, k) =>
             /\ ReadAnything(s, k, Rest(command, v)) = Failed(k) =>
                    DecodeInstruction(command, s, c) = Failed(c)
             /\ \A w, d : ReadAnything(s, k, Rest(command, v)) = Got(w, d) =>
                    DecodeInstruction(command, s, c) = Got(v \o w, d)
  BY <1>5, <1>6
<1> QED
  BY <1>7 DEF A

\* What the arguments are when they are read: as many as there are fields,
\* each what its field may be, written as the bits from m[k - 1] to m[k].
ArgumentsAt(s, fields, v, m) ==
    /\ v = [k \in 1..Len(fields) |-> v[k]]
    /\ \A k \in 1..Len(fields) :
          /\ v[k] \in ArgumentValues(fields[k])
          /\ Between(s, m[k - 1], m[k], EncodeArgument(fields[k], v[k]))

LEMMA ArgumentsMet ==
    ASSUME NEW s \in Bits, NEW c \in 0..Len(s), NEW fields \in Seq(ArgumentFields)
    PROVE  \/ ReadAnything(s, c, fields) = Failed(c)
           \/ \E v, m : /\ m[0] = c /\ \A k \in 0..Len(fields) : m[k] \in 0..Len(s)
                        /\ ArgumentsAt(s, fields, v, m)
                        /\ ReadAnything(s, c, fields) = Got(v, m[Len(fields)])
<1> DEFINE n == Len(fields)
<1>1. n \in Nat /\ DOMAIN fields = 1..n /\ \A k \in 1..n : fields[k] \in ArgumentFields
  OBVIOUS
<1>2. ASSUME NEW k \in 1..n, NEW d \in 0..Len(s)
      PROVE  ReadComes(s, d, fields[k])
  <2>1. SUFFICES ASSUME ReadAny(s, d, fields[k]) # Failed(d)
                 PROVE  \E v : \E e \in 0..Len(s) : ReadAny(s, d, fields[k]) = Got(v, e)
    BY DEF ReadComes
  <2>2. PICK e : \E v \in ArgumentValues(fields[k]) :
                     /\ Between(s, d, e, EncodeArgument(fields[k], v))
                     /\ ReadAny(s, d, fields[k]) = Got(v, e)
    BY <1>1, <2>1, ArgumentMet
  <2>3. PICK v \in ArgumentValues(fields[k]) : /\ Between(s, d, e, EncodeArgument(fields[k], v))
                                               /\ ReadAny(s, d, fields[k]) = Got(v, e)
    BY <2>2
  <2>4. e \in 0..Len(s)
    BY <2>3, BetweenIn
  <2> QED
    BY <2>3, <2>4
<1>3. ReadsHere(s, c, fields, n)
  <2>1. \A k \in 1..n : \A d \in 0..Len(s) : ReadComes(s, d, fields[k])
    BY <1>2
  <2> QED
    BY <1>1, <2>1, AllRead
<1> SUFFICES ASSUME ReadAnything(s, c, fields) # Failed(c)
             PROVE  \E v, m : /\ m[0] = c /\ \A k \in 0..n : m[k] \in 0..Len(s)
                              /\ ArgumentsAt(s, fields, v, m)
                              /\ ReadAnything(s, c, fields) = Got(v, m[n])
  OBVIOUS
<1>4. PICK v, m : /\ m[0] = c /\ \A k \in 0..n : m[k] \in 0..Len(s)
                  /\ \A k \in 1..n : ReadAny(s, m[k - 1], fields[k]) = Got(v[k], m[k])
                  /\ ReadAnything(s, c, fields) = Got([k \in 1..n |-> v[k]], m[n])
  BY <1>3 DEF ReadsHere
<1>5. PICK w : w = [k \in 1..n |-> v[k]]
  OBVIOUS
<1> HIDE DEF n
<1>6. \A k \in 1..n : w[k] = v[k]
  BY <1>5
<1>7. w = [k \in 1..n |-> w[k]]
  BY <1>5, <1>6
<1>8. ASSUME NEW k \in 1..n
      PROVE  /\ w[k] \in ArgumentValues(fields[k])
             /\ Between(s, m[k - 1], m[k], EncodeArgument(fields[k], w[k]))
  <2>1. m[k - 1] \in 0..Len(s) /\ fields[k] \in ArgumentFields
    <3>1. k - 1 \in 0..n
      BY <1>1
    <3> QED
      BY <1>1, <1>4, <3>1
  <2>2. ReadAny(s, m[k - 1], fields[k]) = Got(w[k], m[k])
    BY <1>4, <1>6
  <2>3. PICK d : \E x \in ArgumentValues(fields[k]) :
                     /\ Between(s, m[k - 1], d, EncodeArgument(fields[k], x))
                     /\ ReadAny(s, m[k - 1], fields[k]) = Got(x, d)
    BY <2>1, <2>2, GotNotFailed, ArgumentMet
  <2>4. PICK x \in ArgumentValues(fields[k]) :
                     /\ Between(s, m[k - 1], d, EncodeArgument(fields[k], x))
                     /\ ReadAny(s, m[k - 1], fields[k]) = Got(x, d)
    BY <2>3
  <2>5. x = w[k] /\ d = m[k]
    <3>1. Got(x, d) = Got(w[k], m[k])
      BY <2>2, <2>4
    <3> QED
      BY ONLY <3>1, GotParts
  <2> QED
    BY <2>4, <2>5
<1>9. ArgumentsAt(s, fields, w, m)
  BY <1>7, <1>8 DEF ArgumentsAt, n
<1> QED
  BY <1>4, <1>5, <1>9
LEMMA SequenceMade ==
    ASSUME NEW n \in Nat, NEW v, NEW S, \A k \in 1..n : v[k] \in S
    PROVE  [k \in 1..n |-> v[k]] \in Seq(S) /\ Len([k \in 1..n |-> v[k]]) = n
OBVIOUS

LEMMA SequenceIs ==
    ASSUME NEW S, NEW x \in Seq(S)
    PROVE  x = [k \in 1..Len(x) |-> x[k]] /\ Len(x) \in Nat
OBVIOUS

(* Two sequences of known lengths joined.                                  *)
LEMMA SequencesJoined ==
    ASSUME NEW a \in Nat, NEW b \in Nat, NEW v, NEW w,
           v = [k \in 1..a |-> v[k]], w = [k \in 1..b |-> w[k]], NEW x, x = v \o w
    PROVE  /\ x = [k \in 1..(a + b) |-> x[k]]
           /\ \A k \in 1..a : x[k] = v[k]
           /\ \A k \in 1..b : x[a + k] = w[k]
<1> DEFINE S == {v[k] : k \in 1..a} \union {w[k] : k \in 1..b}
<1>1. (\A k \in 1..a : v[k] \in S) /\ (\A k \in 1..b : w[k] \in S)
  OBVIOUS
<1> HIDE DEF S
<1>2. v \in Seq(S) /\ Len(v) = a
  <2>1. [k \in 1..a |-> v[k]] \in Seq(S) /\ Len([k \in 1..a |-> v[k]]) = a
    BY ONLY a \in Nat, <1>1, SequenceMade
  <2> QED
    BY ONLY v = [k \in 1..a |-> v[k]], <2>1, Zenon
<1>3. w \in Seq(S) /\ Len(w) = b
  <2>1. [k \in 1..b |-> w[k]] \in Seq(S) /\ Len([k \in 1..b |-> w[k]]) = b
    BY ONLY b \in Nat, <1>1, SequenceMade
  <2> QED
    BY ONLY w = [k \in 1..b |-> w[k]], <2>1, Zenon
<1>4. x \in Seq(S) /\ Len(x) = a + b
  <2>1. v \o w \in Seq(S)
    BY ONLY <1>2, <1>3
  <2>2. Len(v \o w) = Len(v) + Len(w)
    BY ONLY <1>2, <1>3
  <2> QED
    BY ONLY x = v \o w, <1>2, <1>3, <2>1, <2>2
<1>5. x = [k \in 1..(a + b) |-> x[k]]
  BY ONLY <1>4, SequenceIs
<1>6. \A k \in 1..a : x[k] = v[k]
  BY ONLY a \in Nat, b \in Nat, x = v \o w, <1>2, <1>3
<1>7. \A k \in 1..b : x[a + k] = w[k]
  BY ONLY a \in Nat, b \in Nat, x = v \o w, <1>2, <1>3
<1> QED
  BY <1>5, <1>6, <1>7

LEMMA NothingBetween ==
    ASSUME NEW s \in Bits, NEW c, NEW d, Between(s, c, d, <<>>) \/ (c \in 0..Len(s) /\ d = c)
    PROVE  Between(s, c, d, <<>>) /\ c = d
<1>1. CASE Between(s, c, d, <<>>)
  BY <1>1, BetweenIn, EmptyBits
<1>2. CASE c \in 0..Len(s) /\ d = c
  BY <1>2, EmptyBits DEF Between, Stands
<1> QED
  BY <1>1, <1>2

\* p are the arguments x written each by itself, h what of them has been joined.
WrittenParts(command, x, F, n, p, h) ==
    /\ Chain(h, <<>>, p, n)
    /\ \A k \in 1..n : p[k] = EncodeArgument(F[k], x[k]) /\ p[k] \in Bits
    /\ EncodeInstruction(command, x) = h[n]

(* An instruction is written argument after argument.                      *)
LEMMA InstructionParts ==
    ASSUME NEW command \in Commands, NEW x, IsInstruction(command, x),
           NEW F, F = Fields(command, x), NEW n, n = Len(F)
    PROVE  /\ n \in Nat /\ F \in Seq(ArgumentFields)
           /\ \A k \in 1..n : F[k] \in ArgumentFields
           /\ \E p, h : WrittenParts(command, x, F, n, p, h)
<1>1. ArgumentsOf[command] \in Seq(ArgumentFields) /\ Rest(command, x) \in Seq(ArgumentFields)
  BY RestIsFields
<1>2. F \in Seq(ArgumentFields)
  BY <1>1 DEF Fields
<1>3. n \in Nat /\ DOMAIN F = 1..n /\ \A k \in 1..n : F[k] \in ArgumentFields
  BY <1>2
<1>4. \A k \in 1..n : EncodeArgument(F[k], x[k]) \in Bits
  BY <1>3, ArgumentWritten DEF IsInstruction
<1>5. PICK p : p = [k \in 1..n |-> EncodeArgument(F[k], x[k])]
  OBVIOUS
<1>6. \A k \in 1..n : p[k] = EncodeArgument(F[k], x[k]) /\ p[k] \in Bits
  BY <1>4, <1>5
<1>7. Len(p) = n /\ (n = 0 => p = <<>>)
  <2>1. Len(p) = n
    BY <1>3, <1>4, <1>5, SequenceMade
  <2>2. n = 0 => p = <<>>
    BY <1>5
  <2> QED
    BY <2>1, <2>2
<1>8. EncodeInstruction(command, x) = FlattenSeq(p)
  BY <1>3, <1>5 DEF EncodeInstruction, Fields
<1>9. PICK h : Chain(h, <<>>, p, n)
  BY <1>3, ChainMade
<1>10. FlattenSeq(p) = h[n]
  BY <1>3, <1>6, <1>7, <1>9, Flattened
<1>11. WrittenParts(command, x, F, n, p, h)
  BY <1>6, <1>8, <1>9, <1>10 DEF WrittenParts
<1> QED
  BY <1>2, <1>3, <1>11

LEMMA InstructionMet ==
    ASSUME NEW command \in Commands, NEW s \in Bits, NEW c \in 0..Len(s)
    PROVE  \/ DecodeInstruction(command, s, c) = Failed(c)
           \/ \E d, v : /\ IsInstruction(command, v)
                       /\ Between(s, c, d, EncodeInstruction(command, v))
                       /\ DecodeInstruction(command, s, c) = Got(v, d)
<1> SUFFICES ASSUME DecodeInstruction(command, s, c) # Failed(c)
             PROVE  \E d, v : /\ IsInstruction(command, v)
                              /\ Between(s, c, d, EncodeInstruction(command, v))
                              /\ DecodeInstruction(command, s, c) = Got(v, d)
  OBVIOUS
<1> DEFINE A == ArgumentsOf[command]
           a == Len(A)
<1>1. A \in Seq(ArgumentFields) /\ a \in Nat
  BY RestIsFields
<1>2. ReadAnything(s, c, A) # Failed(c)
  BY InstructionSteps
<1>3. PICK v, m : /\ m[0] = c /\ \A k \in 0..a : m[k] \in 0..Len(s)
                  /\ ArgumentsAt(s, A, v, m)
                  /\ ReadAnything(s, c, A) = Got(v, m[a])
  BY <1>1, <1>2, ArgumentsMet
<1> DEFINE R == Rest(command, v)
           b == Len(R)
<1>4. R \in Seq(ArgumentFields) /\ b \in Nat
  BY RestIsFields
<1>5. ReadAnything(s, m[a], R) # Failed(m[a])
  BY <1>3, InstructionSteps
<1>6. PICK w, l : /\ l[0] = m[a] /\ \A k \in 0..b : l[k] \in 0..Len(s)
                  /\ ArgumentsAt(s, R, w, l)
                  /\ ReadAnything(s, m[a], R) = Got(w, l[b])
  <2>1. m[a] \in 0..Len(s)
    BY <1>1, <1>3
  <2> QED
    BY <1>4, <1>5, <2>1, ArgumentsMet
<1>7. DecodeInstruction(command, s, c) = Got(v \o w, l[b])
  BY <1>3, <1>6, InstructionSteps
<1>8. v = [k \in 1..a |-> v[k]] /\ w = [k \in 1..b |-> w[k]]
  BY <1>3, <1>6 DEF ArgumentsAt
<1>9. /\ \A k \in 1..a : /\ v[k] \in ArgumentValues(A[k])
                         /\ Between(s, m[k - 1], m[k], EncodeArgument(A[k], v[k]))
      /\ \A k \in 1..b : /\ w[k] \in ArgumentValues(R[k])
                         /\ Between(s, l[k - 1], l[k], EncodeArgument(R[k], w[k]))
  BY <1>3, <1>6 DEF ArgumentsAt
<1>24. PICK n : n = a + b
  OBVIOUS
<1>10. PICK x : x = v \o w
  OBVIOUS
<1>11. PICK F : F = A \o R
  OBVIOUS
<1>12. /\ F \in Seq(ArgumentFields) /\ Len(F) = n
       /\ \A k \in 1..a : F[k] = A[k]
       /\ \A k \in 1..b : F[a + k] = R[k]
  <2>1. A \in Seq(ArgumentFields) /\ R \in Seq(ArgumentFields) /\ Len(A) = a /\ Len(R) = b
    BY <1>1, <1>4
  <2> HIDE DEF A, R, a, b
  <2>2. A \o R \in Seq(ArgumentFields) /\ Len(A \o R) = a + b
    BY ONLY <2>1
  <2>3. \A k \in 1..a : (A \o R)[k] = A[k]
    BY ONLY <2>1
  <2>4. \A k \in 1..b : (A \o R)[a + k] = R[k]
    BY ONLY <2>1
  <2> QED
    BY <1>11, <1>24, <2>2, <2>3, <2>4
<1> HIDE DEF A, R, a, b
<1>13. /\ x = [k \in 1..n |-> x[k]]
       /\ \A k \in 1..a : x[k] = v[k]
       /\ \A k \in 1..b : x[a + k] = w[k]
  <2>1. a \in Nat /\ b \in Nat
    BY <1>1, <1>4
  <2>2. /\ x = [k \in 1..(a + b) |-> x[k]]
        /\ \A k \in 1..a : x[k] = v[k]
        /\ \A k \in 1..b : x[a + k] = w[k]
    BY ONLY <1>8, <1>10, <2>1, SequencesJoined
  <2> QED
    BY <1>24, <2>2
<1>14. F = Fields(command, x)
  <2>1. 1 \in 1..a => v[1] = x[1]
    BY <1>13
  <2>2. Rest(command, x) = R
    BY <2>1, RestIsFields DEF R, a, A
  <2> QED
    BY <1>11, <2>2 DEF Fields, A
<1>15. PICK M : M = [k \in 0..n |-> IF k <= a THEN m[k] ELSE l[k - a]]
  OBVIOUS
<1>16. /\ a \in Nat /\ b \in Nat /\ n \in Nat /\ n = a + b
       /\ \A k \in 0..a : M[k] = m[k]
       /\ \A k \in 0..b : M[a + k] = l[k]
  <2>1. a \in Nat /\ b \in Nat /\ n \in Nat /\ n = a + b
    BY <1>1, <1>4, <1>24
  <2>2. \A k \in 0..a : k \in 0..n /\ k <= a
    BY <2>1
  <2>3. \A k \in 0..a : M[k] = m[k]
    BY <1>15, <2>2
  <2>4. ASSUME NEW k \in 0..b
        PROVE  M[a + k] = l[k]
    <3>1. CASE k = 0
      BY <1>6, <2>1, <2>3, <3>1
    <3>2. CASE k # 0
      <4>1. a + k \in 0..n /\ ~(a + k <= a) /\ (a + k) - a = k
        BY <2>1, <3>2
      <4> QED
        BY <1>15, <4>1
    <3> QED
      BY <3>1, <3>2
  <2> QED
    BY <2>1, <2>3, <2>4
<1>17. ASSUME NEW k \in 1..n
       PROVE  /\ x[k] \in ArgumentValues(F[k])
              /\ Between(s, M[k - 1], M[k], EncodeArgument(F[k], x[k]))
  <2>1. CASE k <= a
    <3>1. k \in 1..a /\ k \in 0..a /\ k - 1 \in 0..a
      BY <1>16, <2>1
    <3>2. x[k] = v[k] /\ F[k] = A[k] /\ M[k] = m[k] /\ M[k - 1] = m[k - 1]
      BY <1>12, <1>13, <1>16, <3>1
    <3> QED
      BY <1>9, <3>1, <3>2
  <2>2. CASE ~(k <= a)
    <3>1. PICK j : j = k - a
      OBVIOUS
    <3>2. j \in 1..b /\ j \in 0..b /\ j - 1 \in 0..b /\ k = a + j /\ k - 1 = a + (j - 1)
      BY <1>16, <2>2, <3>1
    <3>3. x[k] = w[j] /\ F[k] = R[j] /\ M[k] = l[j] /\ M[k - 1] = l[j - 1]
      BY <1>12, <1>13, <1>16, <3>2
    <3> QED
      BY <1>9, <3>2, <3>3
  <2> QED
    BY <2>1, <2>2
<1>18. IsInstruction(command, x)
  <2>1. /\ x = [k \in 1..Len(F) |-> x[k]]
        /\ \A k \in 1..Len(F) : x[k] \in ArgumentValues(F[k])
    BY <1>12, <1>13, <1>17
  <2> QED
    BY ONLY <1>14, <2>1 DEF IsInstruction
<1>19. PICK p, h : WrittenParts(command, x, F, n, p, h)
  <2>1. n = Len(F)
    BY <1>12
  <2> QED
    <3>1. /\ n \in Nat /\ F \in Seq(ArgumentFields)
          /\ \A k \in 1..n : F[k] \in ArgumentFields
          /\ \E p, h : WrittenParts(command, x, F, n, p, h)
      BY <1>14, <1>18, <2>1, InstructionParts
    <3> QED
      BY <3>1
<1>20. Between(s, c, M[0], <<>>)
  <2>1. M[0] = c
    BY <1>3, <1>16
  <2> QED
    BY <2>1, NothingBetween
<1>21. Apart(s, M, p, n)
  BY <1>17, <1>19 DEF Apart, WrittenParts
<1>22. Between(s, c, M[n], EncodeInstruction(command, x))
  <2>1. Chain(h, <<>>, p, n) /\ n \in Nat
    BY <1>16, <1>19 DEF WrittenParts
  <2>2. Between(s, c, M[n], h[n])
    BY ONLY <1>20, <1>21, <2>1, ChainJoined
  <2> QED
    BY <1>19, <2>2 DEF WrittenParts
<1>23. M[n] = l[b]
  BY <1>16
<1> QED
  BY <1>7, <1>10, <1>18, <1>22, <1>23

LEMMA InstructionWritten ==
    ASSUME NEW command \in Commands, NEW x, IsInstruction(command, x)
    PROVE  EncodeInstruction(command, x) \in Bits
<1>1. PICK F, n : F = Fields(command, x) /\ n = Len(F)
  OBVIOUS
<1>2. /\ n \in Nat /\ F \in Seq(ArgumentFields)
      /\ \A k \in 1..n : F[k] \in ArgumentFields
      /\ \E p, h : WrittenParts(command, x, F, n, p, h)
  BY <1>1, InstructionParts
<1>3. PICK p, h : WrittenParts(command, x, F, n, p, h)
  BY <1>2
<1>4. \A k \in 0..n : h[k] \in Bits
  BY <1>2, <1>3, EmptyBits, ChainBits DEF WrittenParts
<1> QED
  BY <1>2, <1>3, <1>4 DEF WrittenParts

LEMMA InstructionBack ==
    ASSUME 5 <= Word, NEW command \in Commands, NEW s, NEW c, NEW d, NEW x,
           IsInstruction(command, x), Between(s, c, d, EncodeInstruction(command, x))
    PROVE  DecodeInstruction(command, s, c) = Got(x, d)
<1>1. PICK F, n : F = Fields(command, x) /\ n = Len(F)
  OBVIOUS
<1>2. /\ n \in Nat /\ F \in Seq(ArgumentFields)
      /\ \A k \in 1..n : F[k] \in ArgumentFields
      /\ \E p, h : WrittenParts(command, x, F, n, p, h)
  BY <1>1, InstructionParts
<1>3. PICK p, h : WrittenParts(command, x, F, n, p, h)
  BY <1>2
<1>4. s \in Bits
  BY BetweenIn
<1>5. PICK m : Between(s, c, m[0], <<>>) /\ m[n] = d /\ Apart(s, m, p, n)
  <2>1. \A k \in 1..n : p[k] \in Bits
    BY <1>3 DEF WrittenParts
  <2>2. Between(s, c, d, h[n]) /\ Chain(h, <<>>, p, n) /\ n \in Nat /\ <<>> \in Bits
    BY <1>2, <1>3, EmptyBits DEF WrittenParts
  <2> QED
    BY ONLY <2>1, <2>2, ChainSplit, ZenonT(30)
<1>6. m[0] = c
  BY <1>4, <1>5, NothingBetween
<1>7. /\ x = [k \in 1..n |-> x[k]]
      /\ \A k \in 1..n : x[k] \in ArgumentValues(F[k])
  BY <1>1 DEF IsInstruction
<1>8. \A k \in 1..n : ReadAny(s, m[k - 1], F[k]) = Got(x[k], m[k])
  <2> SUFFICES ASSUME NEW k \in 1..n
               PROVE  ReadAny(s, m[k - 1], F[k]) = Got(x[k], m[k])
    OBVIOUS
  <2>1. Between(s, m[k - 1], m[k], EncodeArgument(F[k], x[k]))
    BY <1>3, <1>5 DEF Apart, WrittenParts
  <2>2. F[k] \in ArgumentFields /\ x[k] \in ArgumentValues(F[k])
    BY <1>2, <1>7
  <2> QED
    BY <2>1, <2>2, ArgumentBack
<1> DEFINE A == ArgumentsOf[command]
           a == Len(A)
           R == Rest(command, x)
           b == Len(R)
<1>9. /\ A \in Seq(ArgumentFields) /\ a \in Nat /\ DOMAIN A = 1..a
      /\ R \in Seq(ArgumentFields) /\ b \in Nat /\ DOMAIN R = 1..b
  BY RestIsFields
<1>10. n = a + b /\ (\A k \in 1..a : F[k] = A[k]) /\ (\A k \in 1..b : F[a + k] = R[k])
  <2>1. F = A \o R /\ Len(A) = a /\ Len(R) = b
    BY <1>1 DEF Fields
  <2> HIDE DEF A, R, a, b
  <2>2. Len(A \o R) = a + b
    BY ONLY <1>9, <2>1
  <2>3. \A k \in 1..a : (A \o R)[k] = A[k]
    BY ONLY <1>9, <2>1
  <2>4. \A k \in 1..b : (A \o R)[a + k] = R[k]
    BY ONLY <1>9, <2>1
  <2> QED
    BY <1>1, <2>1, <2>2, <2>3, <2>4
<1>11. Len(A) = a /\ Len(R) = b
  OBVIOUS
<1>12. PICK v : v = [k \in 1..a |-> x[k]]
  OBVIOUS
<1>13. PICK w, l : w = [k \in 1..b |-> x[a + k]] /\ l = [k \in 0..b |-> m[a + k]]
  OBVIOUS
<1>14. Rest(command, v) = R
  <2>1. 1 \in 1..a => x[1] = v[1]
    BY <1>12
  <2> QED
    BY <2>1, RestIsFields
<1> HIDE DEF A, R, a, b
<1>15. ReadAnything(s, c, A) = Got(v, m[a])
  <2>1. \A k \in 1..a : ReadAny(s, m[k - 1], A[k]) = Got(x[k], m[k])
    <3>1. \A k \in 1..a : k \in 1..n
      BY <1>9, <1>10
    <3> QED
      BY <1>8, <1>10, <3>1
  <2>2. ReadAnything(s, c, A) = Got([k \in 1..a |-> x[k]], m[a])
    <3>1. /\ Len(A) \in Nat /\ DOMAIN A = 1..Len(A)
          /\ \A k \in 1..Len(A) : ReadAny(s, m[k - 1], A[k]) = Got(x[k], m[k])
      BY <1>9, <1>11, <2>1
    <3>2. ReadAnything(s, c, A) = Got([k \in 1..Len(A) |-> x[k]], m[Len(A)])
      BY ONLY <1>6, <3>1, AllReadBack, SMTT(60)
    <3> QED
      BY <1>11, <3>2
  <2> QED
    BY <1>12, <2>2
<1>16. ReadAnything(s, m[a], R) = Got(w, d)
  <2>1. \A k \in 1..b : ReadAny(s, l[k - 1], R[k]) = Got(x[a + k], l[k])
    <3> SUFFICES ASSUME NEW k \in 1..b
                 PROVE  ReadAny(s, l[k - 1], R[k]) = Got(x[a + k], l[k])
      OBVIOUS
    <3>1. PICK j : j = a + k
      OBVIOUS
    <3>2. j \in 1..n /\ k \in 0..b /\ k - 1 \in 0..b /\ j - 1 = a + (k - 1)
      BY <1>9, <1>10, <3>1
    <3>3. ReadAny(s, m[j - 1], F[j]) = Got(x[j], m[j])
      BY <1>8, <3>2
    <3>4. F[j] = R[k] /\ l[k] = m[j] /\ l[k - 1] = m[j - 1]
      BY <1>10, <1>13, <3>1, <3>2
    <3> QED
      BY <3>1, <3>3, <3>4
  <2>2. w = [k \in 1..b |-> w[k]] /\ \A k \in 1..b : w[k] = x[a + k]
    BY <1>13
  <2>3. l[0] = m[a] /\ l[b] = d
    <3>1. 0 \in 0..b /\ b \in 0..b /\ a + 0 = a
      BY <1>9
    <3> QED
      BY <1>5, <1>10, <1>13, <3>1
  <2>4. /\ Len(R) \in Nat /\ DOMAIN R = 1..Len(R)
        /\ \A k \in 1..Len(R) : ReadAny(s, l[k - 1], R[k]) = Got(w[k], l[k])
    BY <1>9, <1>11, <2>1, <2>2
  <2>5. ReadAnything(s, m[a], R) = Got([k \in 1..Len(R) |-> w[k]], l[Len(R)])
    BY ONLY <2>3, <2>4, AllReadBack, SMTT(60)
  <2> QED
    BY <1>11, <2>2, <2>3, <2>5
<1>17. DecodeInstruction(command, s, c) = Got(v \o w, d)
  <2>1. ReadAnything(s, c, ArgumentsOf[command]) = Got(v, m[a])
    BY <1>15 DEF A
  <2>2. ReadAnything(s, m[a], Rest(command, v)) = Got(w, d)
    BY <1>14, <1>16
  <2> QED
    BY <2>1, <2>2, InstructionSteps
<1>18. v \o w = x
  <2>1. /\ v = [k \in 1..a |-> v[k]] /\ \A k \in 1..a : v[k] = x[k]
    BY <1>12
  <2>2. w = [k \in 1..b |-> w[k]] /\ \A k \in 1..b : w[k] = x[a + k]
    BY <1>13
  <2>3. PICK y : y = v \o w
    OBVIOUS
  <2>4. /\ y = [k \in 1..(a + b) |-> y[k]]
        /\ \A k \in 1..a : y[k] = v[k]
        /\ \A k \in 1..b : y[a + k] = w[k]
    <3>1. a \in Nat /\ b \in Nat /\ v = [k \in 1..a |-> v[k]] /\ w = [k \in 1..b |-> w[k]]
      BY <1>9, <2>1, <2>2
    <3> QED
      BY ONLY <2>3, <3>1, SequencesJoined, SMTT(30)
  <2>5. ASSUME NEW k \in 1..n PROVE y[k] = x[k]
    <3>1. CASE k <= a
      <4>1. k \in 1..a
        BY <1>9, <1>10, <3>1
      <4> QED
        BY <2>1, <2>4, <4>1
    <3>2. CASE ~(k <= a)
      <4>1. PICK j : j = k - a
        OBVIOUS
      <4>2. j \in 1..b /\ k = a + j
        BY <1>9, <1>10, <3>2, <4>1
      <4> QED
        BY <2>2, <2>4, <4>2
    <3> QED
      BY <3>1, <3>2
  <2>6. y = x
    BY <1>7, <1>10, <2>4, <2>5
  <2> QED
    BY <2>3, <2>6
<1> QED
  BY <1>17, <1>18

-----------------------------------------------------------------------------
(* Padding to whole bytes                                                  *)

LEMMA Remainder ==
    ASSUME NEW b \in Nat, b > 0, NEW n \in Int
    PROVE  n % b \in 0..(b - 1) /\ n \div b \in Int /\ n = b * (n \div b) + (n % b)
OBVIOUS

LEMMA RemainderIs ==
    ASSUME NEW b \in Nat, b > 0, NEW q \in Int, NEW r \in 0..(b - 1), NEW n \in Int, n = b * q + r
    PROVE  n % b = r
OBVIOUS

LEMMA PadIs ==
    ASSUME NEW b \in Nat, b > 0, NEW n \in Nat
    PROVE  /\ (-n) % b \in 0..(b - 1) /\ (n + ((-n) % b)) % b = 0
           /\ \A k \in 0..(b - 1) : (n + k) % b = 0 => k = (-n) % b
           /\ n % b = 0 => (-n) % b = 0
<1>1. PICK r : r = (-n) % b
  OBVIOUS
<1>2. PICK q \in Int : -n = b * q + r
  <2>1. -n \in Int
    OBVIOUS
  <2> QED
    BY <1>1, <2>1, Remainder
<1>3. r \in 0..(b - 1)
  BY <1>1, Remainder
<1>4. (n + r) % b = 0
  <2>1. n + r = b * (-q) + 0 /\ -q \in Int /\ n + r \in Int /\ 0 \in 0..(b - 1)
    BY <1>2, <1>3
  <2> QED
    BY ONLY <2>1, RemainderIs, SMTT(20)
<1>5. ASSUME NEW k \in 0..(b - 1), (n + k) % b = 0
      PROVE  k = r
  <2>1. PICK p \in Int : n + k = b * p + 0
    <3>1. n + k \in Int
      OBVIOUS
    <3> QED
      BY <1>5, <3>1, Remainder
  <2>2. -n = b * (-p) + k /\ -p \in Int /\ -n \in Int
    BY <2>1
  <2> QED
    BY <1>1, <2>2, RemainderIs
<1>6. n % b = 0 => r = 0
  <2>1. 0 \in 0..(b - 1) /\ n + 0 = n
    OBVIOUS
  <2> QED
    BY <1>5, <2>1
<1> QED
  BY <1>1, <1>3, <1>4, <1>5, <1>6

(* Two positions at whole bytes are a byte apart.                          *)
LEMMA ByteApart ==
    ASSUME NEW b \in Nat, b > 0, NEW n \in Nat, NEW d \in Nat, n % b = 0, d % b = 0, d < n
    PROVE  n - d >= b
<1>1. PICK p \in Int : n = b * p
  <2>1. n \in Int /\ n \div b \in Int /\ n = b * (n \div b) + (n % b)
    BY Remainder
  <2> QED
    BY <2>1
<1>2. PICK q \in Int : d = b * q
  <2>1. d \in Int /\ d \div b \in Int /\ d = b * (d \div b) + (d % b)
    BY Remainder
  <2> QED
    BY <2>1
<1>3. p - q >= 1
  BY <1>1, <1>2
<1>4. n - d = b * (p - q)
  BY <1>1, <1>2
<1> QED
  BY <1>3, <1>4

LEMMA PaddedBits ==
    ASSUME NEW e \in Bits
    PROVE  /\ ByteBits \in Nat /\ ByteBits > 0 /\ Len(e) \in Nat
           /\ (-Len(e)) % ByteBits \in Nat /\ (-Len(e)) % ByteBits < ByteBits
           /\ Zeros((-Len(e)) % ByteBits) \in Bits
           /\ Padded(e) = e \o Zeros((-Len(e)) % ByteBits)
           /\ Padded(e) \in Bits /\ Len(Padded(e)) = Len(e) + ((-Len(e)) % ByteBits)
           /\ Len(Padded(e)) % ByteBits = 0
<1>1. ByteBits \in Nat /\ ByteBits > 0 /\ Len(e) \in Nat
  BY CodecAssumption, BitsParts
<1>2. PICK k : k = (-Len(e)) % ByteBits
  OBVIOUS
<1>3. k \in 0..(ByteBits - 1) /\ (Len(e) + k) % ByteBits = 0
  BY <1>1, <1>2, PadIs
<1>4. k \in Nat /\ k < ByteBits /\ Zeros(k) \in Bits /\ Len(Zeros(k)) = k
  BY <1>1, <1>3, ZerosAreBits
<1>5. e \o Zeros(k) \in Bits /\ Len(e \o Zeros(k)) = Len(e) + k
  BY <1>4, Joined
<1> QED
  BY <1>1, <1>2, <1>3, <1>4, <1>5 DEF Padded

(* Zeros between two positions are the bits of a padding.                  *)
LEMMA ZerosBetween ==
    ASSUME NEW s \in Bits, NEW c \in 0..Len(s), NEW d \in 0..Len(s), c <= d
    PROVE  ZeroBetween(s, c, d) <=> Between(s, c, d, Zeros(d - c))
<1>1. Len(s) \in Nat /\ d - c \in Nat
  BY BitsParts
<1>2. /\ Zeros(d - c) \in Bits /\ Len(Zeros(d - c)) = d - c
      /\ \A i \in 1..(d - c) : Zeros(d - c)[i] = 0
  BY <1>1, ZerosAreBits
<1>3. ASSUME ZeroBetween(s, c, d)
      PROVE  Between(s, c, d, Zeros(d - c))
  <2>1. \A i \in 1..(d - c) : s[c + i] = Zeros(d - c)[i]
    <3>1. \A i \in 1..(d - c) : c + i \in (c + 1)..d
      BY <1>1
    <3> QED
      BY <1>2, <1>3, <3>1 DEF ZeroBetween
  <2> QED
    BY <1>1, <1>2, <2>1 DEF Between, Stands
<1>4. ASSUME Between(s, c, d, Zeros(d - c))
      PROVE  ZeroBetween(s, c, d)
  <2>1. \A i \in 1..(d - c) : s[c + i] = Zeros(d - c)[i]
    BY <1>2, <1>4 DEF Between, Stands
  <2>2. ASSUME NEW i \in (c + 1)..d
        PROVE  s[i] = 0
    <3>1. i - c \in 1..(d - c) /\ c + (i - c) = i
      BY <1>1
    <3> QED
      BY <1>2, <2>1, <3>1
  <2> QED
    BY <2>2 DEF ZeroBetween
<1> QED
  BY <1>3, <1>4

-----------------------------------------------------------------------------
(* Records of any fields                                                   *)

\* A field, with a value it may have, and the bits that are written of it.
FieldWritten(f, v, e) ==
    \/ \E w \in Nat : f = BitsField(w) /\ v \in Bits /\ Len(v) = w /\ e = v
    \/ \E w \in 0..Word : f = UintField(w) /\ v \in 0..(2^w - 1) /\ e = UintBits(v, w)
    \/ f = SizeField /\ v \in Words /\ e = EncodeSize(v)
    \/ f = NameField /\ v \in BitStrings /\ e = EncodeBitString(v)
    \/ f = HandleField /\ v \in Handles /\ CanEncodeHandle(v) /\ e = EncodeHandle(v)
    \/ /\ f = ReferenceField /\ v \in References /\ CanEncodeRuntimeReference(v)
       /\ e = EncodeRuntimeReference(v)

LEMMA FieldBack ==
    ASSUME NEW f, NEW v, NEW e, FieldWritten(f, v, e)
    PROVE  /\ e \in Bits
           /\ \A s, c, d : Between(s, c, d, e) => ReadField(s, c, f) = Got(v, d)
<1>1. ASSUME NEW w \in Nat, f = BitsField(w), v \in Bits, Len(v) = w, e = v
      PROVE  /\ e \in Bits
             /\ \A s, c, d : Between(s, c, d, e) => ReadField(s, c, f) = Got(v, d)
  BY <1>1, FieldReads, BitsBack
<1>2. ASSUME NEW w \in 0..Word, f = UintField(w), v \in 0..(2^w - 1), e = UintBits(v, w)
      PROVE  /\ e \in Bits
             /\ \A s, c, d : Between(s, c, d, e) => ReadField(s, c, f) = Got(v, d)
  <2>1. v \in Nat /\ w \in Nat
    BY <1>2
  <2>2. e \in Bits
    BY <1>2, <2>1, UintBitsAreBits
  <2>3. ASSUME NEW s, NEW c, NEW d, Between(s, c, d, e)
        PROVE  ReadField(s, c, f) = Got(v, d)
    <3>1. ReadUint(s, c, w) = Got(v, d)
      BY <1>2, <2>3, UintBack
    <3> QED
      BY <1>2, <3>1, FieldReads
  <2> QED
    BY <2>2, <2>3
<1>3. CASE f = SizeField /\ v \in Words /\ e = EncodeSize(v)
  BY <1>3, SizeWritten, SizeBack, NamedFieldReads
<1>4. CASE f = NameField /\ v \in BitStrings /\ e = EncodeBitString(v)
  BY <1>4, BitStringWritten, BitStringBack, NamedFieldReads
<1>5. CASE f = HandleField /\ v \in Handles /\ CanEncodeHandle(v) /\ e = EncodeHandle(v)
  BY <1>5, HandleWritten, HandleBack, NamedFieldReads
<1>6. CASE /\ f = ReferenceField /\ v \in References /\ CanEncodeRuntimeReference(v)
           /\ e = EncodeRuntimeReference(v)
  BY <1>6, ReferenceWritten, ReferenceBack, NamedFieldReads
<1> QED
  BY <1>1, <1>2, <1>3, <1>4, <1>5, <1>6 DEF FieldWritten

LEMMA FieldGot ==
    ASSUME NEW s \in Bits, NEW c \in 0..Len(s), NEW f, IsField(f), NEW v, NEW d,
           ReadField(s, c, f) = Got(v, d)
    PROVE  \E e : FieldWritten(f, v, e) /\ Between(s, c, d, e)
<1>1. CASE f = SizeField
  BY <1>1, SizeGot DEF FieldWritten
<1>2. CASE f = NameField
  BY <1>2, NameGot DEF FieldWritten
<1>3. CASE f = HandleField
  BY <1>3, HandleGot DEF FieldWritten
<1>4. CASE f = ReferenceField
  BY <1>4, ReferenceGot DEF FieldWritten
<1>5. ASSUME NEW w \in Nat, f = BitsField(w)
      PROVE  \E e : FieldWritten(f, v, e) /\ Between(s, c, d, e)
  BY <1>5, BitsGot DEF FieldWritten
<1>6. ASSUME NEW w \in Nat, f = UintField(w)
      PROVE  \E e : FieldWritten(f, v, e) /\ Between(s, c, d, e)
  <2>1. v \in 0..(2^w - 1) /\ w <= Word /\ Between(s, c, d, UintBits(v, w))
    BY <1>6, UintGot
  <2>2. w \in 0..Word
    BY <2>1, WordIsNat
  <2> QED
    BY <1>6, <2>1, <2>2 DEF FieldWritten
<1> QED
  BY <1>1, <1>2, <1>3, <1>4, <1>5, <1>6 DEF IsField

\* v are values of n fields, written p.
FieldsWritten(fields, n, v, p) == \A k \in 1..n : FieldWritten(fields[k], v[k], p[k])

\* The fields that were read stand where they were read.
RecordHere(s, c, fields, n) ==
    \E v, p, m : /\ FieldsWritten(fields, n, v, p) /\ Apart(s, m, p, n) /\ m[0] = c
                 /\ m[n] \in 0..Len(s)
                 /\ ReadFields(s, c, fields) = Got([k \in 1..n |-> v[k]], m[n])

LEMMA RecordMet ==
    ASSUME NEW n \in Nat, NEW fields, Len(fields) = n, DOMAIN fields = 1..n,
           \A k \in 1..n : IsField(fields[k]),
           NEW s \in Bits, NEW c \in 0..Len(s), ReadFields(s, c, fields) # Failed(c)
    PROVE  RecordHere(s, c, fields, n)
<1>1. FieldsHere(s, c, fields, n)
  BY FieldsMet
<1>2. PICK v, m : /\ m[0] = c /\ \A k \in 0..n : m[k] \in 0..Len(s)
                  /\ \A k \in 1..n : ReadField(s, m[k - 1], fields[k]) = Got(v[k], m[k])
                  /\ ReadFields(s, c, fields) = Got([k \in 1..n |-> v[k]], m[n])
  BY <1>1 DEF FieldsHere
<1>3. ASSUME NEW k \in 1..n
      PROVE  \E e : FieldWritten(fields[k], v[k], e) /\ Between(s, m[k - 1], m[k], e)
  <2>1. k - 1 \in 0..n
    OBVIOUS
  <2>2. m[k - 1] \in 0..Len(s) /\ ReadField(s, m[k - 1], fields[k]) = Got(v[k], m[k])
    BY <1>2, <2>1
  <2> QED
    BY <2>2, FieldGot
<1>4. PICK p : p = [k \in 1..n |-> CHOOSE e : /\ FieldWritten(fields[k], v[k], e)
                                            /\ Between(s, m[k - 1], m[k], e)]
  OBVIOUS
<1>5. ASSUME NEW k \in 1..n
      PROVE  FieldWritten(fields[k], v[k], p[k]) /\ Between(s, m[k - 1], m[k], p[k])
  <2> DEFINE Here(e) == FieldWritten(fields[k], v[k], e) /\ Between(s, m[k - 1], m[k], e)
  <2>1. p[k] = CHOOSE e : Here(e)
    BY <1>4
  <2>2. \E e : Here(e)
    BY <1>3
  <2> HIDE DEF Here
  <2>3. Here(p[k])
    BY <2>1, <2>2
  <2> QED
    BY <2>3 DEF Here
<1>6. FieldsWritten(fields, n, v, p) /\ Apart(s, m, p, n)
  BY <1>5 DEF FieldsWritten, Apart
<1>7. m[n] \in 0..Len(s)
  BY <1>2
<1> QED
  BY <1>2, <1>6, <1>7 DEF RecordHere

-----------------------------------------------------------------------------
(* Procedure files                                                         *)

ProcedureFields == <<NameField, NameField>>
PaddingIs(s, from) ==
    Len(s) % ByteBits = 0 /\ Len(s) - from < ByteBits /\ ZeroBetween(s, from, Len(s))

LEMMA ProcedureNumbers ==
    /\ Len(ProcedureFields) = 2 /\ DOMAIN ProcedureFields = 1..2
    /\ ProcedureFields[1] = NameField /\ ProcedureFields[2] = NameField
    /\ \A k \in 1..2 : ProcedureFields[k] = NameField /\ IsField(ProcedureFields[k])
                       /\ IsPlain(ProcedureFields[k])
<1>1. /\ Len(ProcedureFields) = 2 /\ DOMAIN ProcedureFields = 1..2
      /\ ProcedureFields[1] = NameField /\ ProcedureFields[2] = NameField
  BY DEF ProcedureFields
<1>2. IsField(NameField) /\ IsPlain(NameField)
  BY FieldIsPlain DEF IsField
<1>3. \A k \in 1..2 : k \in {1, 2}
  OBVIOUS
<1> QED
  BY <1>1, <1>2, <1>3

LEMMA ProcedureSteps ==
    ASSUME NEW s
    PROVE  /\ ReadFields(s, 0, ProcedureFields) = Failed(0) => DecodeProcedure(s) = Failed(0)
           /\ \A v, k : ReadFields(s, 0, ProcedureFields) = Got(v, k) =>
                  DecodeProcedure(s) = IF PaddingIs(s, k)
                                       THEN Got([name |-> v[1], contents |-> v[2]], Len(s))
                                       ELSE Failed(0)
<1> DEFINE Image(v, from) == GotIf(PaddingIs(s, from), [name |-> v[1], contents |-> v[2]], Len(s))
<1>1. DecodeProcedure(s) = Then(ReadFields(s, 0, ProcedureFields), 0, Image)
  BY DEF DecodeProcedure, ProcedureFields, PaddingIs
<1>2. \A x : Then(x, 0, Image) = Kept(IF x.ok THEN Image(x.value, x.at) ELSE x, 0)
  BY DEF Then
<1>3. DecodeProcedure(s) = LET x == ReadFields(s, 0, ProcedureFields)
                           IN  Kept(IF x.ok THEN Image(x.value, x.at) ELSE x, 0)
  BY <1>1, <1>2
<1>4. ASSUME ReadFields(s, 0, ProcedureFields) = Failed(0)
      PROVE  DecodeProcedure(s) = Failed(0)
  BY <1>3, <1>4, Results2 DEF Kept
<1>5. ASSUME NEW v, NEW k, ReadFields(s, 0, ProcedureFields) = Got(v, k)
      PROVE  DecodeProcedure(s) = IF PaddingIs(s, k)
                                  THEN Got([name |-> v[1], contents |-> v[2]], Len(s))
                                  ELSE Failed(0)
  <2>1. DecodeProcedure(s) = Kept(Image(v, k), 0)
    <3> HIDE DEF Image
    <3> QED
      BY <1>3, <1>5, Results2
  <2>2. CASE PaddingIs(s, k)
    <3>1. Image(v, k) = Got([name |-> v[1], contents |-> v[2]], Len(s))
      BY <2>2 DEF GotIf
    <3> HIDE DEF Image
    <3>2. DecodeProcedure(s) = Kept(Got([name |-> v[1], contents |-> v[2]], Len(s)), 0)
      BY <2>1, <3>1
    <3> QED
      BY <2>2, <3>2, KeptGot
  <2>3. CASE ~PaddingIs(s, k)
    <3>1. Image(v, k) = Failed(Len(s))
      BY <2>3 DEF GotIf
    <3> HIDE DEF Image
    <3> QED
      BY <2>1, <2>3, <3>1, KeptResults
  <2> QED
    BY <2>2, <2>3
<1> QED
  BY <1>4, <1>5

\* The two names of a procedure file, as they are written.
ProcedureBits(x) == EncodeBitString(x.name) \o EncodeBitString(x.contents)

LEMMA ProcedureForm ==
    ASSUME NEW x \in NamedProcedures
    PROVE  /\ x = [name |-> x.name, contents |-> x.contents]
           /\ x.name \in BitStrings /\ x.contents \in BitStrings
           /\ EncodeBitString(x.name) \in Bits /\ EncodeBitString(x.contents) \in Bits
           /\ ProcedureBits(x) \in Bits
           /\ EncodeProcedure(x) = Padded(ProcedureBits(x)) /\ EncodeProcedure(x) \in Bits
           /\ Len(EncodeProcedure(x)) % ByteBits = 0
<1>1. /\ x = [name |-> x.name, contents |-> x.contents]
      /\ x.name \in BitStrings /\ x.contents \in BitStrings
  BY DEF NamedProcedures
<1>2. EncodeBitString(x.name) \in Bits /\ EncodeBitString(x.contents) \in Bits
  BY <1>1, BitStringWritten
<1>3. ProcedureBits(x) \in Bits
  BY <1>2, Joined DEF ProcedureBits
<1>4. EncodeProcedure(x) = Padded(ProcedureBits(x))
  BY DEF EncodeProcedure, ProcedureBits
<1> QED
  BY <1>1, <1>2, <1>3, <1>4, PaddedBits

LEMMA ProcedureHead ==
    ASSUME NEW s, NEW k, NEW x \in NamedProcedures, Between(s, 0, k, ProcedureBits(x))
    PROVE  \E v : /\ ReadFields(s, 0, ProcedureFields) = Got(v, k)
                  /\ v[1] = x.name /\ v[2] = x.contents
<1>1. PICK m : Between(s, 0, m, EncodeBitString(x.name))
               /\ Between(s, m, k, EncodeBitString(x.contents))
  BY ProcedureForm, BetweenSplit DEF ProcedureBits
<1>2. ReadField(s, 0, NameField) = Got(x.name, m) /\ ReadField(s, m, NameField) = Got(x.contents, k)
  BY <1>1, ProcedureForm, BitStringBack, NamedFieldReads
<1>3. PICK v : v = <<x.name, x.contents>>
  OBVIOUS
<1>4. PICK c : c = [i \in 0..2 |-> IF i = 0 THEN 0 ELSE IF i = 1 THEN m ELSE k]
  OBVIOUS
<1>5. c[0] = 0 /\ c[1] = m /\ c[2] = k /\ v[1] = x.name /\ v[2] = x.contents
  BY <1>3, <1>4
<1>6. \A i \in 1..2 : IsPlain(ProcedureFields[i])
                      /\ ReadField(s, c[i - 1], ProcedureFields[i]) = Got(v[i], c[i])
  <2>1. ReadField(s, c[0], NameField) = Got(v[1], c[1])
        /\ ReadField(s, c[1], NameField) = Got(v[2], c[2])
    BY <1>2, <1>5
  <2>2. \A i \in 1..2 : (i = 1 /\ i - 1 = 0) \/ (i = 2 /\ i - 1 = 1)
    OBVIOUS
  <2> QED
    BY <2>1, <2>2, ProcedureNumbers
<1>7. Len(ProcedureFields) \in Nat /\ DOMAIN ProcedureFields = 1..Len(ProcedureFields)
      /\ \A i \in 1..Len(ProcedureFields) :
             IsPlain(ProcedureFields[i])
             /\ ReadField(s, c[i - 1], ProcedureFields[i]) = Got(v[i], c[i])
  BY <1>6, ProcedureNumbers
<1>8. ReadFields(s, 0, ProcedureFields)
      = Got([i \in 1..Len(ProcedureFields) |-> v[i]], c[Len(ProcedureFields)])
  BY ONLY <1>5, <1>7, FieldsReadBack, SMTT(60)
<1>9. PICK w : w = [i \in 1..2 |-> v[i]]
  OBVIOUS
<1>10. ReadFields(s, 0, ProcedureFields) = Got(w, k) /\ w[1] = x.name /\ w[2] = x.contents
  BY <1>5, <1>8, <1>9, ProcedureNumbers
<1> QED
  BY <1>10

LEMMA ProcedureBack ==
    ASSUME NEW s, NEW d, NEW x \in NamedProcedures, Between(s, 0, d, EncodeProcedure(x))
    PROVE  DecodeProcedure(s) = IF d = Len(s) THEN Got(x, d) ELSE Failed(0)
<1> DEFINE e == ProcedureBits(x)
<1>1. e \in Bits /\ EncodeProcedure(x) = Padded(e)
  BY ProcedureForm
<1>2. PICK z : z = (-Len(e)) % ByteBits
  OBVIOUS
<1>3. /\ ByteBits \in Nat /\ ByteBits > 0 /\ z \in Nat /\ z < ByteBits /\ Zeros(z) \in Bits
      /\ Padded(e) = e \o Zeros(z) /\ Len(Padded(e)) % ByteBits = 0
  <2> HIDE DEF e
  <2> QED
    BY <1>1, <1>2, PaddedBits
<1>4. PICK k : Between(s, 0, k, e) /\ Between(s, k, d, Zeros(z))
  <2> HIDE DEF e
  <2>1. Between(s, 0, d, e \o Zeros(z))
    BY <1>1, <1>3
  <2> QED
    BY <1>1, <1>3, <2>1, BetweenSplit
<1>5. PICK v : ReadFields(s, 0, ProcedureFields) = Got(v, k) /\ v[1] = x.name /\ v[2] = x.contents
  BY <1>4, ProcedureHead
<1>6. DecodeProcedure(s) = IF PaddingIs(s, k) THEN Got(x, Len(s)) ELSE Failed(0)
  <2>1. [name |-> v[1], contents |-> v[2]] = x
    BY <1>5, ProcedureForm
  <2> QED
    BY <1>5, <2>1, ProcedureSteps
<1>7. /\ s \in Bits /\ k \in 0..Len(s) /\ d \in 0..Len(s) /\ Len(s) \in Nat /\ d = k + z
      /\ d % ByteBits = 0
  <2> HIDE DEF e
  <2>1. Len(Zeros(z)) = z
    BY <1>3, ZerosAreBits
  <2>2. d = 0 + Len(EncodeProcedure(x)) /\ Len(EncodeProcedure(x)) \in Nat
    BY BetweenIn
  <2>3. Len(EncodeProcedure(x)) % ByteBits = 0
    BY <1>1, <1>3
  <2> QED
    BY <1>4, <2>1, <2>2, <2>3, BetweenIn
<1>8. CASE d = Len(s)
  <2>1. ZeroBetween(s, k, Len(s))
    <3>1. z = Len(s) - k /\ k <= d
      BY <1>3, <1>7, <1>8
    <3>2. Between(s, k, d, Zeros(d - k))
      BY <1>4, <1>8, <3>1
    <3> QED
      BY <1>7, <1>8, <3>1, <3>2, ZerosBetween
  <2>2. PaddingIs(s, k)
    BY <1>3, <1>7, <1>8, <2>1 DEF PaddingIs
  <2> QED
    BY <1>6, <1>8, <2>2
<1>9. CASE d # Len(s)
  <2>1. ~PaddingIs(s, k)
    <3>1. SUFFICES ASSUME Len(s) % ByteBits = 0, Len(s) - k < ByteBits
                   PROVE  FALSE
      BY DEF PaddingIs
    <3>2. d < Len(s) /\ d \in Nat
      BY <1>7, <1>9
    <3>3. Len(s) - d >= ByteBits
      BY <1>3, <1>7, <3>1, <3>2, ByteApart
    <3> QED
      BY <1>3, <1>7, <3>1, <3>3
  <2> QED
    BY <1>6, <1>9, <2>1
<1> QED
  BY <1>8, <1>9

LEMMA ProcedureMet ==
    ASSUME NEW s \in Bits
    PROVE  \/ DecodeProcedure(s) = Failed(0)
           \/ \E x \in NamedProcedures : /\ Between(s, 0, Len(s), EncodeProcedure(x))
                                        /\ DecodeProcedure(s) = Got(x, Len(s))
<1>1. Len(s) \in Nat /\ 0 \in 0..Len(s)
  BY BitsParts
<1>2. FieldsHere(s, 0, ProcedureFields, 2)
  BY <1>1, ProcedureNumbers, FieldsMet
<1>3. CASE ReadFields(s, 0, ProcedureFields) = Failed(0)
  BY <1>3, ProcedureSteps
<1>4. CASE ReadFields(s, 0, ProcedureFields) # Failed(0)
  <2>1. PICK v, c : /\ c[0] = 0 /\ \A k \in 0..2 : c[k] \in 0..Len(s)
                    /\ \A k \in 1..2 : ReadField(s, c[k - 1], ProcedureFields[k]) = Got(v[k], c[k])
                    /\ ReadFields(s, 0, ProcedureFields) = Got([k \in 1..2 |-> v[k]], c[2])
    BY <1>2, <1>4 DEF FieldsHere
  <2>2. c[1] \in 0..Len(s) /\ c[2] \in 0..Len(s)
    BY <2>1
  <2>3. /\ ReadField(s, 0, NameField) = Got(v[1], c[1])
        /\ ReadField(s, c[1], NameField) = Got(v[2], c[2])
    <3>1. 1 \in 1..2 /\ 2 \in 1..2 /\ 1 - 1 = 0 /\ 2 - 1 = 1
      OBVIOUS
    <3>2. /\ ReadField(s, c[1 - 1], ProcedureFields[1]) = Got(v[1], c[1])
          /\ ReadField(s, c[2 - 1], ProcedureFields[2]) = Got(v[2], c[2])
      BY <2>1, <3>1
    <3> QED
      BY <2>1, <3>1, <3>2, ProcedureNumbers
  <2>4. /\ v[1] \in BitStrings /\ Between(s, 0, c[1], EncodeBitString(v[1]))
        /\ v[2] \in BitStrings /\ Between(s, c[1], c[2], EncodeBitString(v[2]))
    BY <1>1, <2>2, <2>3, NameGot
  <2>5. PICK x : x = [name |-> v[1], contents |-> v[2]]
    OBVIOUS
  <2>6. x \in NamedProcedures /\ x.name = v[1] /\ x.contents = v[2]
    BY <2>4, <2>5 DEF NamedProcedures
  <2>7. Between(s, 0, c[2], ProcedureBits(x))
    BY <2>4, <2>6, BetweenJoined DEF ProcedureBits
  <2>8. DecodeProcedure(s) = IF PaddingIs(s, c[2]) THEN Got(x, Len(s)) ELSE Failed(0)
    <3>1. PICK w : w = [k \in 1..2 |-> v[k]]
      OBVIOUS
    <3>2. w[1] = v[1] /\ w[2] = v[2] /\ ReadFields(s, 0, ProcedureFields) = Got(w, c[2])
      BY <2>1, <3>1
    <3> QED
      BY <2>5, <3>2, ProcedureSteps
  <2>9. CASE ~PaddingIs(s, c[2])
    BY <2>8, <2>9
  <2>10. CASE PaddingIs(s, c[2])
    <3>1. PICK e : e = ProcedureBits(x)
      OBVIOUS
    <3>2. PICK z : z = (-Len(e)) % ByteBits
      OBVIOUS
    <3>3. /\ e \in Bits /\ EncodeProcedure(x) = e \o Zeros(z) /\ c[2] = 0 + Len(e)
          /\ Len(e) \in Nat /\ ByteBits \in Nat /\ ByteBits > 0
      <4>1. EncodeProcedure(x) = Padded(e) /\ e \in Bits /\ Between(s, 0, c[2], e)
        BY <2>6, <2>7, <3>1, ProcedureForm
      <4>2. Padded(e) = e \o Zeros(z) /\ ByteBits \in Nat /\ ByteBits > 0 /\ Len(e) \in Nat
        BY <3>2, <4>1, PaddedBits
      <4> QED
        BY <4>1, <4>2, BetweenIn
    <3>4. Len(s) - c[2] = z
      <4>1. Len(s) - c[2] \in 0..(ByteBits - 1) /\ Len(e) + (Len(s) - c[2]) = Len(s)
        BY <1>1, <2>2, <2>10, <3>3 DEF PaddingIs
      <4>2. (Len(e) + (Len(s) - c[2])) % ByteBits = 0
        BY <2>10, <4>1 DEF PaddingIs
      <4> QED
        BY <3>2, <3>3, <4>1, <4>2, PadIs
    <3>5. Between(s, c[2], Len(s), Zeros(z))
      <4>1. ZeroBetween(s, c[2], Len(s)) /\ c[2] <= Len(s) /\ Len(s) \in 0..Len(s)
        BY <1>1, <2>2, <2>10 DEF PaddingIs
      <4> QED
        BY <2>2, <3>4, <4>1, ZerosBetween
    <3>6. Between(s, 0, Len(s), EncodeProcedure(x))
      BY <2>7, <3>1, <3>3, <3>5, BetweenJoined
    <3> QED
      BY <2>6, <2>8, <2>10, <3>6
  <2> QED
    BY <2>9, <2>10
<1> QED
  BY <1>3, <1>4

-----------------------------------------------------------------------------
(* The records of a program image, each padded to whole bytes              *)

ImageFields == <<UintField(HandleBits), UintField(FlagBits), NameField, NameField>>
RecordOfFields(v) == [id |-> v[1], flags |-> v[2], name |-> v[3], contents |-> v[4]]
RecordParts(r) ==
    <<UintBits(r.id, HandleBits), UintBits(r.flags, FlagBits),
      EncodeBitString(r.name), EncodeBitString(r.contents)>>
FourParts(p) == p[1] \o (p[2] \o (p[3] \o p[4]))
RecordBits(r) == FourParts(RecordParts(r))

LEMMA FourSplit ==
    ASSUME NEW s, NEW c, NEW d, NEW p, \A k \in 1..4 : p[k] \in Bits,
           Between(s, c, d, FourParts(p))
    PROVE  \E m : m[0] = c /\ m[4] = d /\ \A k \in 1..4 : Between(s, m[k - 1], m[k], p[k])
<1>1. p[1] \in Bits /\ p[2] \in Bits /\ p[3] \in Bits /\ p[4] \in Bits
  OBVIOUS
<1>2. p[3] \o p[4] \in Bits /\ p[2] \o (p[3] \o p[4]) \in Bits
  BY <1>1, Joined
<1>3. PICK a : Between(s, c, a, p[1]) /\ Between(s, a, d, p[2] \o (p[3] \o p[4]))
  BY <1>1, <1>2, BetweenSplit DEF FourParts
<1>4. PICK b : Between(s, a, b, p[2]) /\ Between(s, b, d, p[3] \o p[4])
  BY <1>1, <1>2, <1>3, BetweenSplit
<1>5. PICK e : Between(s, b, e, p[3]) /\ Between(s, e, d, p[4])
  BY <1>1, <1>4, BetweenSplit
<1>6. PICK m : m = [i \in 0..4 |-> IF i = 0 THEN c ELSE IF i = 1 THEN a
                                   ELSE IF i = 2 THEN b ELSE IF i = 3 THEN e ELSE d]
  OBVIOUS
<1>7. m[0] = c /\ m[1] = a /\ m[2] = b /\ m[3] = e /\ m[4] = d
  BY <1>6
<1>8. ASSUME NEW k \in 1..4
      PROVE  Between(s, m[k - 1], m[k], p[k])
  <2>1. \/ k = 1 /\ k - 1 = 0
        \/ k = 2 /\ k - 1 = 1
        \/ k = 3 /\ k - 1 = 2
        \/ k = 4 /\ k - 1 = 3
    OBVIOUS
  <2> QED
    BY <1>3, <1>4, <1>5, <1>7, <2>1
<1> QED
  BY <1>7, <1>8

LEMMA FourJoined ==
    ASSUME NEW s, NEW p, NEW m, \A k \in 1..4 : Between(s, m[k - 1], m[k], p[k])
    PROVE  Between(s, m[0], m[4], FourParts(p))
<1>1. 1 \in 1..4 /\ 2 \in 1..4 /\ 3 \in 1..4 /\ 4 \in 1..4
      /\ 1 - 1 = 0 /\ 2 - 1 = 1 /\ 3 - 1 = 2 /\ 4 - 1 = 3
  OBVIOUS
<1>2. /\ Between(s, m[0], m[1], p[1]) /\ Between(s, m[1], m[2], p[2])
      /\ Between(s, m[2], m[3], p[3]) /\ Between(s, m[3], m[4], p[4])
  BY <1>1
<1>3. Between(s, m[2], m[4], p[3] \o p[4])
  BY <1>2, BetweenJoined
<1>4. Between(s, m[1], m[4], p[2] \o (p[3] \o p[4]))
  BY <1>2, <1>3, BetweenJoined
<1> QED
  BY <1>2, <1>4, BetweenJoined DEF FourParts

LEMMA ImageNumbers ==
    /\ Len(ImageFields) = 4 /\ DOMAIN ImageFields = 1..4
    /\ ImageFields[1] = UintField(HandleBits) /\ ImageFields[2] = UintField(FlagBits)
    /\ ImageFields[3] = NameField /\ ImageFields[4] = NameField
    /\ \A k \in 1..4 : IsField(ImageFields[k]) /\ IsPlain(ImageFields[k])
    /\ HandleBits \in 0..Word /\ FlagBits \in 0..Word /\ HandleBits \in Nat /\ FlagBits \in Nat
    /\ MaxOffset = 2^HandleBits - 1
<1>1. /\ Len(ImageFields) = 4 /\ DOMAIN ImageFields = 1..4
      /\ ImageFields[1] = UintField(HandleBits) /\ ImageFields[2] = UintField(FlagBits)
      /\ ImageFields[3] = NameField /\ ImageFields[4] = NameField
  BY DEF ImageFields
<1>2. HandleBits \in 0..Word /\ FlagBits \in 0..Word /\ HandleBits \in Nat /\ FlagBits \in Nat
      /\ MaxOffset = 2^HandleBits - 1
  <2>1. FlagBits \in 0..Word /\ FlagBits \in Nat
    BY ContainerAssumption, WordIsNat
  <2> QED
    BY <2>1, HandleNumbers DEF MaxOffset
<1>3. IsField(NameField) /\ IsField(UintField(HandleBits)) /\ IsField(UintField(FlagBits))
  BY <1>2 DEF IsField
<1>4. \A k \in 1..4 : k \in {1, 2, 3, 4}
  OBVIOUS
<1>5. \A k \in 1..4 : IsField(ImageFields[k])
  BY <1>1, <1>3, <1>4
<1> QED
  BY <1>1, <1>2, <1>5, FieldIsPlain

LEMMA RecordForm ==
    ASSUME NEW r \in ImageRecords
    PROVE  /\ r = [id |-> r.id, flags |-> r.flags, name |-> r.name, contents |-> r.contents]
           /\ r.id \in 0..(2^HandleBits - 1) /\ r.flags \in 0..(2^FlagBits - 1)
           /\ r.name \in BitStrings /\ r.contents \in BitStrings
           /\ \A k \in 1..4 : RecordParts(r)[k] \in Bits
           /\ RecordBits(r) \in Bits
<1>1. /\ r = [id |-> r.id, flags |-> r.flags, name |-> r.name, contents |-> r.contents]
      /\ r.id \in 0..(2^HandleBits - 1) /\ r.flags \in 0..(2^FlagBits - 1)
      /\ r.name \in BitStrings /\ r.contents \in BitStrings
  BY ImageNumbers DEF ImageRecords
<1>2. /\ UintBits(r.id, HandleBits) \in Bits /\ UintBits(r.flags, FlagBits) \in Bits
      /\ EncodeBitString(r.name) \in Bits /\ EncodeBitString(r.contents) \in Bits
  <2>1. r.id \in Nat /\ r.flags \in Nat
    BY <1>1
  <2> QED
    BY <1>1, <2>1, ImageNumbers, UintBitsAreBits, BitStringWritten
<1>3. PICK p : p = RecordParts(r)
  OBVIOUS
<1>4. p[1] \in Bits /\ p[2] \in Bits /\ p[3] \in Bits /\ p[4] \in Bits
  BY <1>2, <1>3 DEF RecordParts
<1>5. \A k \in 1..4 : p[k] \in Bits
  <2>1. \A k \in 1..4 : k \in {1, 2, 3, 4}
    OBVIOUS
  <2> QED
    BY <1>4, <2>1
<1>6. FourParts(p) \in Bits
  <2>1. p[3] \o p[4] \in Bits
    BY <1>4, Joined
  <2>2. p[2] \o (p[3] \o p[4]) \in Bits
    BY <1>4, <2>1, Joined
  <2> QED
    BY <1>4, <2>2, Joined DEF FourParts
<1> QED
  BY <1>1, <1>3, <1>5, <1>6 DEF RecordBits

LEMMA RecordFieldsRead ==
    ASSUME NEW s, NEW c, NEW k, NEW r \in ImageRecords, Between(s, c, k, RecordBits(r))
    PROVE  \E v : ReadFields(s, c, ImageFields) = Got(v, k) /\ RecordOfFields(v) = r
<1>1. PICK p, v : p = RecordParts(r) /\ v = <<r.id, r.flags, r.name, r.contents>>
  OBVIOUS
<1>2. /\ p[1] = UintBits(r.id, HandleBits) /\ p[2] = UintBits(r.flags, FlagBits)
      /\ p[3] = EncodeBitString(r.name) /\ p[4] = EncodeBitString(r.contents)
      /\ v[1] = r.id /\ v[2] = r.flags /\ v[3] = r.name /\ v[4] = r.contents
  BY <1>1 DEF RecordParts
<1>3. PICK m : m[0] = c /\ m[4] = k /\ \A i \in 1..4 : Between(s, m[i - 1], m[i], p[i])
  BY <1>1, RecordForm, FourSplit DEF RecordBits
<1>4. /\ FieldWritten(ImageFields[1], v[1], p[1]) /\ FieldWritten(ImageFields[2], v[2], p[2])
      /\ FieldWritten(ImageFields[3], v[3], p[3]) /\ FieldWritten(ImageFields[4], v[4], p[4])
  BY <1>2, RecordForm, ImageNumbers DEF FieldWritten
<1>5. \A i \in 1..4 : FieldWritten(ImageFields[i], v[i], p[i])
  <2>1. \A i \in 1..4 : i \in {1, 2, 3, 4}
    OBVIOUS
  <2> QED
    BY <1>4, <2>1
<1>6. Len(ImageFields) \in Nat /\ DOMAIN ImageFields = 1..Len(ImageFields)
      /\ \A i \in 1..Len(ImageFields) :
             IsPlain(ImageFields[i])
             /\ ReadField(s, m[i - 1], ImageFields[i]) = Got(v[i], m[i])
  BY <1>3, <1>5, ImageNumbers, FieldBack
<1>7. ReadFields(s, c, ImageFields)
      = Got([i \in 1..Len(ImageFields) |-> v[i]], m[Len(ImageFields)])
  BY ONLY <1>3, <1>6, FieldsReadBack, SMTT(60)
<1>8. PICK w : w = [i \in 1..4 |-> v[i]]
  OBVIOUS
<1>9. w[1] = v[1] /\ w[2] = v[2] /\ w[3] = v[3] /\ w[4] = v[4]
  BY <1>8
<1>10. ReadFields(s, c, ImageFields) = Got(w, k)
  BY <1>3, <1>7, <1>8, ImageNumbers
<1>11. RecordOfFields(w) = r
  BY <1>2, <1>9, RecordForm DEF RecordOfFields
<1> QED
  BY <1>10, <1>11

LEMMA RecordSteps ==
    ASSUME NEW s, NEW c
    PROVE  /\ ReadFields(s, c, ImageFields) = Failed(c) => DecodeRecord(s, c) = Failed(c)
           /\ \A v, k : ReadFields(s, c, ImageFields) = Got(v, k) =>
                  DecodeRecord(s, c) =
                      IF PaddedAt(k) <= Len(s) /\ ZeroBetween(s, k, PaddedAt(k))
                      THEN Got(RecordOfFields(v), PaddedAt(k)) ELSE Failed(c)
<1> DEFINE Padding(k) == PaddedAt(k) <= Len(s) /\ ZeroBetween(s, k, PaddedAt(k))
           Checked(v, k) == GotIf(Padding(k), RecordOfFields(v), PaddedAt(k))
<1>1. DecodeRecord(s, c) = Then(ReadFields(s, c, ImageFields), c, Checked)
  BY DEF DecodeRecord, ImageFields, RecordOfFields
<1>2. DecodeRecord(s, c) = LET x == ReadFields(s, c, ImageFields)
                           IN  Kept(IF x.ok THEN Checked(x.value, x.at) ELSE x, c)
  BY <1>1 DEF Then
<1>3. ASSUME ReadFields(s, c, ImageFields) = Failed(c)
      PROVE  DecodeRecord(s, c) = Failed(c)
  BY <1>2, <1>3, Results2 DEF Kept
<1>4. ASSUME NEW v, NEW k, ReadFields(s, c, ImageFields) = Got(v, k)
      PROVE  DecodeRecord(s, c) = IF Padding(k) THEN Got(RecordOfFields(v), PaddedAt(k))
                                  ELSE Failed(c)
  <2>1. DecodeRecord(s, c) = Kept(Checked(v, k), c)
    <3> HIDE DEF Checked
    <3> QED
      BY <1>2, <1>4, Results2
  <2>2. CASE Padding(k)
    <3>1. Checked(v, k) = Got(RecordOfFields(v), PaddedAt(k))
      BY <2>2 DEF GotIf
    <3> HIDE DEF Checked, Padding
    <3> QED
      BY <2>1, <2>2, <3>1, KeptGot
  <2>3. CASE ~Padding(k)
    <3>1. Checked(v, k) = Failed(PaddedAt(k))
      BY <2>3 DEF GotIf
    <3> HIDE DEF Checked, Padding
    <3> QED
      BY <2>1, <2>3, <3>1, KeptResults
  <2> QED
    BY <2>2, <2>3
<1> QED
  BY <1>3, <1>4

(* From a whole byte, what is padded ends at a whole byte.                 *)
LEMMA PadSame ==
    ASSUME NEW b \in Nat, b > 0, NEW c \in Nat, c % b = 0, NEW n \in Nat
    PROVE  (-(c + n)) % b = (-n) % b /\ (c + n + ((-n) % b)) % b = 0
<1>1. PICK k : k = (-n) % b
  OBVIOUS
<1>2. k \in 0..(b - 1) /\ (n + k) % b = 0
  BY <1>1, PadIs
<1>3. PICK q \in Int : c = b * q
  <2>1. c \in Int
    OBVIOUS
  <2>2. c \div b \in Int /\ c = b * (c \div b) + (c % b)
    BY <2>1, Remainder
  <2> QED
    BY <2>2
<1>4. PICK p \in Int : n + k = b * p
  <2>1. n + k \in Int
    BY <1>2
  <2>2. (n + k) \div b \in Int /\ n + k = b * ((n + k) \div b) + 0
    BY <1>2, <2>1, Remainder
  <2>3. PICK p : p = (n + k) \div b
    OBVIOUS
  <2>4. p \in Int /\ n + k = b * p + 0
    BY <2>2, <2>3
  <2>5. n + k = b * p
    BY <2>4
  <2> QED
    BY <2>4, <2>5
<1>5. (c + n + k) % b = 0
  <2>1. c + n + k = b * (q + p) + 0
    <3>1. b * q + b * p = b * (q + p)
      OBVIOUS
    <3> QED
      BY <1>2, <1>3, <1>4, <3>1
  <2>2. c + n + k \in Int /\ q + p \in Int /\ 0 \in 0..(b - 1)
    BY <1>2
  <2> QED
    <3>1. PICK N, Q : N = c + n + k /\ Q = q + p
      OBVIOUS
    <3>2. N = b * Q + 0 /\ N \in Int /\ Q \in Int /\ 0 \in 0..(b - 1) /\ b \in Nat /\ b > 0
      BY <2>1, <2>2, <3>1
    <3>3. N % b = 0
      BY ONLY <3>2, RemainderIs
    <3> QED
      BY <3>1, <3>3
<1>6. k = (-(c + n)) % b
  <2>1. c + n \in Nat
    OBVIOUS
  <2> QED
    BY <1>2, <1>5, <2>1, PadIs
<1> QED
  BY <1>1, <1>5, <1>6

LEMMA ImageRecordBack ==
    ASSUME NEW s, NEW c, NEW d, NEW r \in ImageRecords, c % ByteBits = 0,
           Between(s, c, d, Padded(RecordBits(r)))
    PROVE  DecodeRecord(s, c) = Got(r, d) /\ d % ByteBits = 0
<1>1. PICK e : e = RecordBits(r)
  OBVIOUS
<1>2. PICK z : z = (-Len(e)) % ByteBits
  OBVIOUS
<1>3. /\ e \in Bits /\ ByteBits \in Nat /\ ByteBits > 0 /\ Len(e) \in Nat /\ z \in Nat
      /\ Zeros(z) \in Bits /\ Padded(e) = e \o Zeros(z)
  BY <1>1, <1>2, RecordForm, PaddedBits
<1>4. PICK k : Between(s, c, k, e) /\ Between(s, k, d, Zeros(z))
  BY <1>1, <1>3, BetweenSplit
<1>5. PICK v : ReadFields(s, c, ImageFields) = Got(v, k) /\ RecordOfFields(v) = r
  BY <1>1, <1>4, RecordFieldsRead
<1>6. /\ s \in Bits /\ c \in Nat /\ k \in 0..Len(s) /\ d \in 0..Len(s) /\ Len(s) \in Nat
      /\ k = c + Len(e) /\ d = k + z
  <2>1. Len(Zeros(z)) = z
    BY <1>3, ZerosAreBits
  <2> QED
    BY <1>4, <2>1, BetweenIn
<1>7. PaddedAt(k) = d /\ d % ByteBits = 0
  <2>1. (-k) % ByteBits = z /\ (c + Len(e) + z) % ByteBits = 0
    BY <1>2, <1>3, <1>6, PadSame
  <2> QED
    BY <1>6, <2>1 DEF PaddedAt
<1>8. ZeroBetween(s, k, d) /\ d <= Len(s)
  <2>1. d - k = z /\ k <= d /\ d <= Len(s)
    BY <1>3, <1>6
  <2> QED
    BY <1>4, <1>6, <2>1, ZerosBetween
<1> QED
  BY <1>5, <1>7, <1>8, RecordSteps

LEMMA ImageRecordMet ==
    ASSUME NEW s \in Bits, NEW c \in 0..Len(s)
    PROVE  \/ DecodeRecord(s, c) = Failed(c)
           \/ \E r \in ImageRecords : \E d \in 0..Len(s) :
                  /\ DecodeRecord(s, c) = Got(r, d)
                  /\ c % ByteBits = 0 => /\ Between(s, c, d, Padded(RecordBits(r)))
                                         /\ d % ByteBits = 0
<1> SUFFICES ASSUME DecodeRecord(s, c) # Failed(c)
             PROVE  \E r \in ImageRecords : \E d \in 0..Len(s) :
                        /\ DecodeRecord(s, c) = Got(r, d)
                        /\ c % ByteBits = 0 => /\ Between(s, c, d, Padded(RecordBits(r)))
                                               /\ d % ByteBits = 0
  OBVIOUS
<1>1. ReadFields(s, c, ImageFields) # Failed(c)
  BY RecordSteps
<1>2. PICK v, p, m : /\ FieldsWritten(ImageFields, 4, v, p) /\ Apart(s, m, p, 4) /\ m[0] = c
                     /\ m[4] \in 0..Len(s)
                     /\ ReadFields(s, c, ImageFields) = Got([k \in 1..4 |-> v[k]], m[4])
  <2>1. 4 \in Nat /\ Len(ImageFields) = 4 /\ DOMAIN ImageFields = 1..4
        /\ \A k \in 1..4 : IsField(ImageFields[k])
    BY ImageNumbers
  <2>2. s \in Bits /\ c \in 0..Len(s)
    OBVIOUS
  <2>3. RecordHere(s, c, ImageFields, 4)
    BY ONLY <1>1, <2>1, <2>2, RecordMet
  <2> QED
    BY <2>3 DEF RecordHere
<1>3. PICK w, k : w = [i \in 1..4 |-> v[i]] /\ k = m[4]
  OBVIOUS
<1>4. /\ v[1] \in 0..MaxOffset /\ p[1] = UintBits(v[1], HandleBits)
      /\ v[2] \in 0..(2^FlagBits - 1) /\ p[2] = UintBits(v[2], FlagBits)
      /\ v[3] \in BitStrings /\ p[3] = EncodeBitString(v[3])
      /\ v[4] \in BitStrings /\ p[4] = EncodeBitString(v[4])
  <2>1. /\ FieldWritten(UintField(HandleBits), v[1], p[1])
        /\ FieldWritten(UintField(FlagBits), v[2], p[2])
        /\ FieldWritten(NameField, v[3], p[3]) /\ FieldWritten(NameField, v[4], p[4])
    <3>1. 1 \in 1..4 /\ 2 \in 1..4 /\ 3 \in 1..4 /\ 4 \in 1..4
      OBVIOUS
    <3> QED
      BY <1>2, <3>1, ImageNumbers DEF FieldsWritten
  <2>2. ASSUME NEW w1, NEW x, NEW e, FieldWritten(UintField(w1), x, e)
        PROVE  x \in 0..(2^w1 - 1) /\ e = UintBits(x, w1)
    BY <2>2 DEF FieldWritten, BitsField, UintField, SizeField, NameField, HandleField,
                ReferenceField
  <2>3. ASSUME NEW x, NEW e, FieldWritten(NameField, x, e)
        PROVE  x \in BitStrings /\ e = EncodeBitString(x)
    BY <2>3 DEF FieldWritten, BitsField, UintField, SizeField, NameField, HandleField,
                ReferenceField
  <2> QED
    BY <2>1, <2>2, <2>3, ImageNumbers
<1>5. PICK r : r = RecordOfFields(w)
  OBVIOUS
<1>6. /\ r \in ImageRecords /\ r.id = v[1] /\ r.flags = v[2] /\ r.name = v[3]
      /\ r.contents = v[4]
  <2>1. w[1] = v[1] /\ w[2] = v[2] /\ w[3] = v[3] /\ w[4] = v[4]
    BY <1>3
  <2> QED
    BY <1>4, <1>5, <2>1 DEF RecordOfFields, ImageRecords
<1>7. Between(s, c, k, RecordBits(r))
  <2>1. PICK q : q = RecordParts(r)
    OBVIOUS
  <2>2. q[1] = p[1] /\ q[2] = p[2] /\ q[3] = p[3] /\ q[4] = p[4]
    BY <1>4, <1>6, <2>1 DEF RecordParts
  <2>3. \A i \in 1..4 : Between(s, m[i - 1], m[i], q[i])
    <3>1. \A i \in 1..4 : i \in {1, 2, 3, 4}
      OBVIOUS
    <3>2. \A i \in 1..4 : q[i] = p[i]
      BY <2>2, <3>1
    <3> QED
      BY <1>2, <3>2 DEF Apart
  <2>4. Between(s, m[0], m[4], FourParts(q))
    BY <2>3, FourJoined
  <2> QED
    BY <1>2, <1>3, <2>1, <2>4 DEF RecordBits
<1>8. /\ DecodeRecord(s, c) = Got(r, PaddedAt(k))
      /\ PaddedAt(k) <= Len(s) /\ ZeroBetween(s, k, PaddedAt(k))
  <2>1. ReadFields(s, c, ImageFields) = Got(w, k)
    BY <1>2, <1>3
  <2>2. DecodeRecord(s, c) = IF PaddedAt(k) <= Len(s) /\ ZeroBetween(s, k, PaddedAt(k))
                             THEN Got(r, PaddedAt(k)) ELSE Failed(c)
    BY <1>5, <2>1, RecordSteps
  <2> QED
    BY <2>2
<1>9. PICK e, z : e = RecordBits(r) /\ z = (-Len(e)) % ByteBits
  OBVIOUS
<1>10. /\ e \in Bits /\ ByteBits \in Nat /\ ByteBits > 0 /\ Len(e) \in Nat /\ z \in Nat
       /\ Padded(e) = e \o Zeros(z) /\ Len(s) \in Nat /\ c \in Nat /\ k \in Nat
       /\ k \in 0..Len(s) /\ k = c + Len(e)
  <2>1. e \in Bits
    BY <1>6, <1>9, RecordForm
  <2>2. /\ ByteBits \in Nat /\ ByteBits > 0 /\ Len(e) \in Nat /\ z \in Nat
        /\ Padded(e) = e \o Zeros(z)
    BY <1>9, <2>1, PaddedBits
  <2>3. Between(s, c, k, e)
    BY <1>7, <1>9
  <2>4. Len(s) \in Nat /\ k \in 0..Len(s) /\ k = c + Len(e) /\ c \in 0..Len(s)
    BY <2>3, BetweenIn
  <2> QED
    BY <2>1, <2>2, <2>4
<1>11. PICK d : d = PaddedAt(k)
  OBVIOUS
<1>12. d \in Nat /\ k <= d
  BY <1>10, <1>11, PadIs DEF PaddedAt
<1>13. d \in 0..Len(s)
  BY <1>8, <1>10, <1>11, <1>12
<1>14. ASSUME c % ByteBits = 0
       PROVE  Between(s, c, d, Padded(RecordBits(r))) /\ d % ByteBits = 0
  <2>1. (-k) % ByteBits = z /\ (c + Len(e) + z) % ByteBits = 0
    <3>1. (-(c + Len(e))) % ByteBits = z /\ (c + Len(e) + z) % ByteBits = 0
      <4>1. Len(e) \in Nat /\ c \in Nat /\ ByteBits \in Nat /\ ByteBits > 0 /\ c % ByteBits = 0
            /\ z = (-Len(e)) % ByteBits
        BY <1>9, <1>10, <1>14
      <4> QED
        BY ONLY <4>1, PadSame
    <3> QED
      BY <1>10, <3>1
  <2>2. d - k = z /\ d % ByteBits = 0
    <3>1. d = k + z
      BY <1>11, <2>1 DEF PaddedAt
    <3>2. z \in Nat
      BY <1>10
    <3> QED
      BY ONLY <1>10, <2>1, <3>1, <3>2
  <2>3. Between(s, k, d, Zeros(z))
    BY <1>8, <1>10, <1>11, <1>12, <1>13, <2>2, ZerosBetween
  <2> QED
    BY <1>7, <1>9, <1>10, <2>2, <2>3, BetweenJoined
<1> QED
  BY <1>6, <1>8, <1>11, <1>13, <1>14

(* No record is shorter than the least.                                    *)
LEMMA LeastIsNat ==
    /\ LeastRecord \in Nat /\ LeastRecord > 0
    /\ \A r \in ImageRecords : Len(Padded(RecordBits(r))) >= LeastRecord
<1>1. PICK x : x = HandleBits + FlagBits + 2 * (HeaderBits + ByteBits)
  OBVIOUS
<1>2. /\ HandleBits \in Nat /\ FlagBits \in Nat /\ HeaderBits \in Nat /\ ByteBits \in Nat
      /\ ByteBits > 0 /\ x \in Nat /\ x > 0
  BY <1>1, ImageNumbers, CodecAssumption
<1>3. PICK y : y = x + ((-x) % ByteBits)
  OBVIOUS
<1>4. (-x) % ByteBits \in 0..(ByteBits - 1) /\ y % ByteBits = 0 /\ y \in Nat /\ y >= x
      /\ y < x + ByteBits
  BY <1>2, <1>3, PadIs
<1>5. LeastRecord = y
  BY <1>1, <1>3 DEF LeastRecord, PaddedAt
<1>6. ASSUME NEW r \in ImageRecords
      PROVE  Len(Padded(RecordBits(r))) >= y
  <2>1. PICK e, n : e = RecordBits(r) /\ n = Len(Padded(e))
    OBVIOUS
  <2>2. e \in Bits /\ Len(e) \in Nat /\ n >= Len(e) /\ n \in Nat /\ n % ByteBits = 0
    <3>1. e \in Bits
      BY <2>1, RecordForm
    <3>2. /\ Len(e) \in Nat /\ (-Len(e)) % ByteBits \in Nat
          /\ Len(Padded(e)) = Len(e) + ((-Len(e)) % ByteBits)
          /\ Len(Padded(e)) % ByteBits = 0
      BY <3>1, PaddedBits
    <3> QED
      BY <2>1, <3>1, <3>2
  <2>3. Len(e) >= x
    <3>1. PICK p : p = RecordParts(r)
      OBVIOUS
    <3>2. /\ p[1] = UintBits(r.id, HandleBits) /\ p[2] = UintBits(r.flags, FlagBits)
          /\ p[3] = EncodeBitString(r.name) /\ p[4] = EncodeBitString(r.contents)
      BY <3>1 DEF RecordParts
    <3>3. /\ p[1] \in Bits /\ p[2] \in Bits /\ p[3] \in Bits /\ p[4] \in Bits
      <4>1. 1 \in 1..4 /\ 2 \in 1..4 /\ 3 \in 1..4 /\ 4 \in 1..4
        OBVIOUS
      <4>2. \A k \in 1..4 : p[k] \in Bits
        BY <3>1, RecordForm
      <4> QED
        BY <4>1, <4>2
    <3>4. Len(p[1]) = HandleBits /\ Len(p[2]) = FlagBits
      <4>1. r.id \in Nat /\ r.flags \in Nat
        BY RecordForm
      <4> QED
        BY <1>2, <3>2, <4>1, UintBitsAreBits
    <3>5. ASSUME NEW t \in BitStrings
          PROVE  Len(EncodeBitString(t)) >= HeaderBits + ByteBits
      <4>1. /\ EncodeSize(Len(t)) \in Bits /\ t \in Bits
            /\ EncodeBitString(t) = EncodeSize(Len(t)) \o t /\ Len(t) \in Words
        BY BitStringWritten DEF BitStrings
      <4>2. PICK q : q = SizeBytes(Len(t))
        OBVIOUS
      <4>3. /\ Len(EncodeSize(Len(t))) = HeaderBits + q * ByteBits
            /\ q \in 1..2^HeaderBits
        BY <4>1, <4>2, SizeWritten, SizeBytesLeast
      <4>4. q \in Nat /\ q >= 1 /\ 1 * ByteBits <= q * ByteBits /\ 1 * ByteBits = ByteBits
            /\ q * ByteBits \in Nat
        BY <1>2, <4>3, BytesInBits
      <4>5. Len(EncodeBitString(t)) = HeaderBits + q * ByteBits + Len(t) /\ Len(t) \in Nat
        BY <4>1, <4>3, Joined, BitsParts
      <4> QED
        BY <1>2, <4>4, <4>5
    <3>6. Len(p[3]) >= HeaderBits + ByteBits /\ Len(p[4]) >= HeaderBits + ByteBits
      BY <3>2, <3>5, RecordForm
    <3>7. p[3] \o p[4] \in Bits /\ Len(p[3] \o p[4]) = Len(p[3]) + Len(p[4])
      BY <3>3, Joined
    <3>8. PICK f : f = p[3] \o p[4]
      OBVIOUS
    <3>9. PICK g : g = p[2] \o f
      OBVIOUS
    <3>10. g \in Bits /\ Len(g) = Len(p[2]) + Len(f) /\ f \in Bits
      BY <3>3, <3>7, <3>8, <3>9, Joined
    <3>11. e = p[1] \o g
      BY <2>1, <3>1, <3>8, <3>9 DEF RecordBits, FourParts
    <3>12. Len(e) = Len(p[1]) + Len(g)
      BY <3>3, <3>10, <3>11, Joined
    <3>13. Len(p[3]) \in Nat /\ Len(p[4]) \in Nat
      BY <3>3, BitsParts
    <3> QED
      <4>1. Len(e) = HandleBits + (FlagBits + (Len(p[3]) + Len(p[4])))
        BY <3>4, <3>7, <3>8, <3>10, <3>12
      <4>2. \A a, b \in Nat : a >= HeaderBits + ByteBits /\ b >= HeaderBits + ByteBits
                => HandleBits + (FlagBits + (a + b))
                       >= HandleBits + FlagBits + 2 * (HeaderBits + ByteBits)
        BY <1>2
      <4> QED
        BY <1>1, <3>6, <3>13, <4>1, <4>2
  <2>4. n >= y
    <3>1. SUFFICES ASSUME n < y
                   PROVE  FALSE
      BY <1>4, <2>2
    <3>2. y - n >= ByteBits
      BY <1>2, <1>4, <2>2, <3>1, ByteApart
    <3> QED
      BY <1>2, <1>4, <2>2, <2>3, <3>2
  <2> QED
    BY <2>1, <2>4
<1> QED
  BY <1>2, <1>4, <1>5, <1>6

-----------------------------------------------------------------------------
(* Program images                                                          *)

RecordField == [type |-> "record"]
ReadRecords(s, a, n) ==
    LET Record(bits, from, i) == DecodeRecord(bits, from)
    IN  ReadAll(Record, s, a, [i \in 1..n |-> i])

LEMMA RecordsReading ==
    ASSUME NEW s, NEW a, NEW n \in Nat
    PROVE  ReadRecords(s, a, n) = ReadAnything(s, a, [i \in 1..n |-> RecordField])
<1> DEFINE numbers == [i \in 1..n |-> i]
           fields == [i \in 1..n |-> RecordField]
           Step(read, field) ==
               Then(read, a, LAMBDA values, from :
                   Then(DecodeRecord(s, from), from,
                        LAMBDA v, end : Got(Append(values, v), end)))
           Indexed(g) == g = [t \in SUBSET DOMAIN numbers |->
               IF t = {} THEN Got(<<>>, a) ELSE Step(g[t \ {Max(t)}], numbers[Max(t)])]
           Whatever(g) == g = [t \in SUBSET DOMAIN fields |->
               IF t = {} THEN Got(<<>>, a)
               ELSE FieldStep(s, a, g[t \ {Max(t)}], fields[Max(t)])]
<1>1. ReadRecords(s, a, n) = (CHOOSE g : Indexed(g))[DOMAIN numbers]
  BY DEF ReadRecords, ReadAll, FoldLeft, MapThenFoldSet
<1>2. ReadAnything(s, a, fields) = (CHOOSE g : Whatever(g))[DOMAIN fields]
  BY ReadingFolds
<1>3. DOMAIN numbers = 1..n /\ DOMAIN fields = 1..n /\ \A k \in 1..n : fields[k] = RecordField
  OBVIOUS
<1>4. ASSUME NEW t \in SUBSET (1..n), t # {}, NEW read
      PROVE  Step(read, numbers[Max(t)]) = FieldStep(s, a, read, fields[Max(t)])
  <2>1. t \in SUBSET (0..n)
    OBVIOUS
  <2>2. Max(t) \in 1..n
    BY <1>4, <2>1, MaxOfNumbers
  <2>3. fields[Max(t)] = RecordField
    BY <1>3, <2>2
  <2>4. \A c : ReadAny(s, c, fields[Max(t)]) = DecodeRecord(s, c)
    BY <2>3 DEF ReadAny, RecordField
  <2> HIDE DEF fields, numbers
  <2> QED
    BY <2>4 DEF FieldStep, Then
<1>5. \A g : Indexed(g) <=> Whatever(g)
  <2> HIDE DEF Step, numbers, fields
  <2> QED
    BY <1>3, <1>4
<1> HIDE DEF Indexed, Whatever
<1>6. (CHOOSE g : Indexed(g)) = (CHOOSE g : Whatever(g))
  BY <1>5
<1> HIDE DEF numbers, fields
<1>7. ReadRecords(s, a, n) = ReadAnything(s, a, fields)
  BY <1>1, <1>2, <1>3, <1>6
<1> QED
  BY <1>7 DEF fields

LEMMA RecordsBack ==
    ASSUME NEW s, NEW a, NEW n \in Nat, NEW v, NEW m, m[0] = a,
           \A k \in 1..n : DecodeRecord(s, m[k - 1]) = Got(v[k], m[k])
    PROVE  ReadRecords(s, a, n) = Got([k \in 1..n |-> v[k]], m[n])
<1>1. PICK fields : fields = [i \in 1..n |-> RecordField]
  OBVIOUS
<1>2. Len(fields) = n /\ DOMAIN fields = 1..n /\ \A k \in 1..n : fields[k] = RecordField
  BY <1>1
<1>3. /\ Len(fields) \in Nat /\ DOMAIN fields = 1..Len(fields)
      /\ \A k \in 1..Len(fields) : ReadAny(s, m[k - 1], fields[k]) = Got(v[k], m[k])
  BY <1>2 DEF ReadAny, RecordField
<1>4. m[0] = a
  OBVIOUS
<1>5. ReadAnything(s, a, fields) = Got([k \in 1..Len(fields) |-> v[k]], m[Len(fields)])
  BY ONLY <1>3, <1>4, AllReadBack, SMTT(60)
<1> QED
  BY <1>1, <1>2, <1>5, RecordsReading

RecordsHere(s, a, n) ==
    \E v, m : /\ m[0] = a /\ \A k \in 0..n : m[k] \in 0..Len(s)
              /\ \A k \in 1..n : DecodeRecord(s, m[k - 1]) = Got(v[k], m[k])
              /\ ReadRecords(s, a, n) = Got([k \in 1..n |-> v[k]], m[n])

LEMMA RecordsMet ==
    ASSUME NEW s \in Bits, NEW a \in 0..Len(s), NEW n \in Nat, ReadRecords(s, a, n) # Failed(a)
    PROVE  RecordsHere(s, a, n)
<1>1. PICK fields : fields = [i \in 1..n |-> RecordField]
  OBVIOUS
<1>2. Len(fields) = n /\ DOMAIN fields = 1..n /\ \A k \in 1..n : fields[k] = RecordField
  BY <1>1
<1>3. \A k \in 1..n : \A c : ReadAny(s, c, fields[k]) = DecodeRecord(s, c)
  BY <1>2 DEF ReadAny, RecordField
<1>4. \A k \in 1..n : \A d \in 0..Len(s) : ReadComes(s, d, fields[k])
  <2> SUFFICES ASSUME NEW k \in 1..n, NEW d \in 0..Len(s)
               PROVE  ReadComes(s, d, fields[k])
    OBVIOUS
  <2>1. DecodeRecord(s, d) = Failed(d)
        \/ \E v : \E e \in 0..Len(s) : DecodeRecord(s, d) = Got(v, e)
    BY ImageRecordMet
  <2> QED
    BY <1>3, <2>1 DEF ReadComes
<1>5. ReadsHere(s, a, fields, n)
  BY <1>2, <1>4, AllRead
<1>6. ReadAnything(s, a, fields) = ReadRecords(s, a, n)
  BY <1>1, RecordsReading
<1>7. PICK v, m : /\ m[0] = a /\ \A k \in 0..n : m[k] \in 0..Len(s)
                  /\ \A k \in 1..n : ReadAny(s, m[k - 1], fields[k]) = Got(v[k], m[k])
                  /\ ReadAnything(s, a, fields) = Got([k \in 1..n |-> v[k]], m[n])
  BY <1>5, <1>6 DEF ReadsHere
<1>8. \A k \in 1..n : DecodeRecord(s, m[k - 1]) = Got(v[k], m[k])
  BY <1>3, <1>7
<1> QED
  BY <1>6, <1>7, <1>8 DEF RecordsHere

HeadFields ==
    <<BitsField(Len(ImageHeader)), UintField(HandleBits), HandleField, ReferenceField>>
HeadOK(s, v, from) ==
    /\ v[1] = ImageHeader
    /\ Len(s) % ByteBits = 0
    /\ v[2] <= (Len(s) - from) \div LeastRecord
ImageOf(v, records) == [procedure |-> v[3], entry |-> v[4], registers |-> records]

LEMMA ProgramSteps ==
    ASSUME NEW s
    PROVE  /\ ReadFields(s, 0, HeadFields) = Failed(0) => DecodeProgram(s) = Failed(0)
           /\ \A v, k : ReadFields(s, 0, HeadFields) = Got(v, k) =>
                  /\ ~HeadOK(s, v, k) => DecodeProgram(s) = Failed(0)
                  /\ HeadOK(s, v, k) =>
                         /\ ReadRecords(s, k, v[2]) = Failed(k) => DecodeProgram(s) = Failed(0)
                         /\ \A records, d : ReadRecords(s, k, v[2]) = Got(records, d) =>
                                DecodeProgram(s) =
                                    IF d = Len(s) /\ IsProgram(ImageOf(v, records))
                                    THEN Got(ImageOf(v, records), d) ELSE Failed(0)
<1> DEFINE Whole(image, end) == GotIf(end = Len(s) /\ IsProgram(image), image, end)
           Rest0(v, from) ==
               Then(ReadRecords(s, from, v[2]), from,
                    LAMBDA records, end : Whole(ImageOf(v, records), end))
           Begun(v, from) == IF HeadOK(s, v, from) THEN Rest0(v, from) ELSE Failed(from)
<1>1. DecodeProgram(s) = Then(ReadFields(s, 0, HeadFields), 0, Begun)
  BY DEF DecodeProgram, HeadFields, HeadOK, ImageOf, ReadRecords
<1>2. DecodeProgram(s) = LET x == ReadFields(s, 0, HeadFields)
                         IN  Kept(IF x.ok THEN Begun(x.value, x.at) ELSE x, 0)
  BY <1>1 DEF Then
<1>3. \A v, k : Rest0(v, k) = LET x == ReadRecords(s, k, v[2])
                              IN  Kept(IF x.ok THEN Whole(ImageOf(v, x.value), x.at) ELSE x, k)
  BY DEF Then
<1>4. ASSUME ReadFields(s, 0, HeadFields) = Failed(0)
      PROVE  DecodeProgram(s) = Failed(0)
  <2> HIDE DEF Begun
  <2> QED
    BY <1>2, <1>4, Results2 DEF Kept
<1>5. ASSUME NEW v, NEW k, ReadFields(s, 0, HeadFields) = Got(v, k)
      PROVE  DecodeProgram(s) = Kept(Begun(v, k), 0)
  <2> HIDE DEF Begun
  <2> QED
    BY <1>2, <1>5, Results2
<1>6. ASSUME NEW v, NEW k, ReadFields(s, 0, HeadFields) = Got(v, k), ~HeadOK(s, v, k)
      PROVE  DecodeProgram(s) = Failed(0)
  <2>1. Begun(v, k) = Failed(k)
    BY <1>6
  <2> HIDE DEF Begun
  <2> QED
    <3>1. DecodeProgram(s) = Kept(Failed(k), 0)
      BY <1>5, <1>6, <2>1
    <3> QED
      BY <3>1, KeptResults
<1>7. ASSUME NEW v, NEW k, ReadFields(s, 0, HeadFields) = Got(v, k), HeadOK(s, v, k)
      PROVE  DecodeProgram(s) = Kept(Rest0(v, k), 0)
  <2>1. Begun(v, k) = Rest0(v, k)
    <3> HIDE DEF Rest0
    <3> QED
      BY <1>7
  <2> HIDE DEF Begun, Rest0
  <2> QED
    BY <1>5, <1>7, <2>1
<1>8. ASSUME NEW v, NEW k, ReadFields(s, 0, HeadFields) = Got(v, k), HeadOK(s, v, k),
             ReadRecords(s, k, v[2]) = Failed(k)
      PROVE  DecodeProgram(s) = Failed(0)
  <2>1. Rest0(v, k) = Kept(Failed(k), k)
    <3> HIDE DEF Rest0, Whole
    <3> QED
      BY <1>3, <1>8, Results2
  <2> HIDE DEF Rest0
  <2>2. Rest0(v, k) = Failed(k)
    BY <2>1, KeptResults
  <2> QED
    <3>1. DecodeProgram(s) = Kept(Failed(k), 0)
      BY <1>7, <1>8, <2>2
    <3> QED
      BY <3>1, KeptResults
<1>9. ASSUME NEW v, NEW k, ReadFields(s, 0, HeadFields) = Got(v, k), HeadOK(s, v, k),
             NEW records, NEW d, ReadRecords(s, k, v[2]) = Got(records, d)
      PROVE  DecodeProgram(s) = IF d = Len(s) /\ IsProgram(ImageOf(v, records))
                                THEN Got(ImageOf(v, records), d) ELSE Failed(0)
  <2>1. Rest0(v, k) = Kept(Whole(ImageOf(v, records), d), k)
    <3> HIDE DEF Rest0, Whole
    <3> QED
      BY <1>3, <1>9, Results2
  <2>2. DecodeProgram(s) = Kept(Rest0(v, k), 0)
    <3> HIDE DEF Rest0
    <3> QED
      BY <1>7, <1>9
  <2> HIDE DEF Rest0
  <2>3. CASE d = Len(s) /\ IsProgram(ImageOf(v, records))
    <3>1. Whole(ImageOf(v, records), d) = Got(ImageOf(v, records), d)
      BY <2>3 DEF GotIf
    <3> HIDE DEF Whole
    <3>2. Rest0(v, k) = Got(ImageOf(v, records), d)
      BY <2>1, <3>1, KeptGot
    <3> QED
      BY <2>2, <2>3, <3>2, KeptGot
  <2>4. CASE ~(d = Len(s) /\ IsProgram(ImageOf(v, records)))
    <3>1. Whole(ImageOf(v, records), d) = Failed(d)
      BY <2>4 DEF GotIf
    <3> HIDE DEF Whole
    <3>2. Rest0(v, k) = Failed(k)
      BY <2>1, <3>1, KeptResults
    <3> QED
      BY <2>2, <2>4, <3>2, KeptResults
  <2> QED
    BY <2>3, <2>4
<1> HIDE DEF Begun, Rest0, Whole
<1> QED
  BY <1>4, <1>6, <1>8, <1>9

-----------------------------------------------------------------------------
(* Images back and met                                                     *)

Join(e, f) == e \o f

LEMMA Associates ==
    ASSUME NEW e \in Bits, NEW f \in Bits, NEW g \in Bits
    PROVE  Join(Join(e, f), g) = Join(e, Join(f, g))
<1>1. PICK x, y : x = e \o f /\ y = f \o g
  OBVIOUS
<1>2. /\ x \in Bits /\ Len(x) = Len(e) + Len(f) /\ \A i \in 1..Len(e) : x[i] = e[i]
      /\ \A i \in 1..Len(f) : x[Len(e) + i] = f[i]
  BY <1>1, Joined
<1>3. /\ y \in Bits /\ Len(y) = Len(f) + Len(g) /\ \A i \in 1..Len(f) : y[i] = f[i]
      /\ \A i \in 1..Len(g) : y[Len(f) + i] = g[i]
  BY <1>1, Joined
<1>4. PICK z : z = x \o g
  OBVIOUS
<1>5. /\ z \in Bits /\ Len(z) = Len(x) + Len(g) /\ \A i \in 1..Len(x) : z[i] = x[i]
      /\ \A i \in 1..Len(g) : z[Len(x) + i] = g[i]
  BY <1>2, <1>4, Joined, ZenonT(30)
<1>6. PICK a, b, c : a = Len(e) /\ b = Len(f) /\ c = Len(g)
  OBVIOUS
<1>7. a \in Nat /\ b \in Nat /\ c \in Nat /\ Len(x) = a + b /\ Len(y) = b + c /\ Len(z) = a + b + c
  BY <1>2, <1>3, <1>5, <1>6, BitsParts
<1>8. \A i \in 1..a : z[i] = e[i]
  <2>1. \A i \in 1..a : i \in 1..Len(x)
    BY <1>7
  <2> QED
    BY <1>2, <1>5, <1>6, <2>1
<1>9. ASSUME NEW i \in 1..(b + c)
      PROVE  z[a + i] = y[i]
  <2>1. CASE i <= b
    <3>1. i \in 1..b /\ a + i \in 1..Len(x)
      BY <1>7, <2>1
    <3> QED
      BY <1>2, <1>3, <1>5, <1>6, <3>1
  <2>2. CASE ~(i <= b)
    <3>1. PICK j : j = i - b
      OBVIOUS
    <3>2. j \in 1..c /\ i = b + j /\ a + i = Len(x) + j
      BY <1>7, <2>2, <3>1
    <3> QED
      BY <1>3, <1>5, <1>6, <3>2
  <2> QED
    BY <2>1, <2>2
<1>10. e \o y = z
  <2>1. /\ e \in Seq({0, 1}) /\ y \in Seq({0, 1}) /\ z \in Seq({0, 1})
        /\ Len(z) = Len(e) + Len(y) /\ \A i \in 1..Len(e) : z[i] = e[i]
        /\ \A i \in 1..Len(y) : z[Len(e) + i] = y[i]
    BY <1>3, <1>5, <1>6, <1>7, <1>8, <1>9 DEF Bits
  <2> QED
    BY ONLY <2>1, Concatenated
<1> QED
  BY <1>1, <1>4, <1>10 DEF Join

LEMMA JoinBits ==
    ASSUME NEW e \in Bits, NEW f \in Bits
    PROVE  Join(e, f) \in Bits
BY Joined DEF Join

JoinsFive(b, e, f, g, i) == b \o e \o f \o g \o i = b \o (e \o (f \o (g \o i)))

LEMMA FiveJoined ==
    ASSUME NEW b \in Bits, NEW e \in Bits, NEW f \in Bits, NEW g \in Bits, NEW i \in Bits
    PROVE  JoinsFive(b, e, f, g, i)
<1>1. Join(g, i) \in Bits /\ Join(b, e) \in Bits
  BY JoinBits
<1>2. Join(f, Join(g, i)) \in Bits /\ Join(Join(b, e), f) \in Bits
  BY <1>1, JoinBits
<1>3. Join(Join(Join(Join(b, e), f), g), i) = Join(Join(Join(b, e), f), Join(g, i))
  BY <1>2, Associates
<1>4. Join(Join(Join(b, e), f), Join(g, i)) = Join(Join(b, e), Join(f, Join(g, i)))
  BY <1>1, Associates
<1>5. Join(Join(b, e), Join(f, Join(g, i))) = Join(b, Join(e, Join(f, Join(g, i))))
  BY <1>2, Associates
<1>6. Join(Join(Join(Join(b, e), f), g), i) = Join(b, Join(e, Join(f, Join(g, i))))
  BY <1>3, <1>4, <1>5
<1> QED
  BY ONLY <1>6 DEF Join, JoinsFive

LEMMA PaddedJoined ==
    ASSUME NEW b \in Bits, Len(b) % ByteBits = 0, NEW e \in Bits
    PROVE  /\ Padded(b \o e) = b \o Padded(e) /\ b \o Padded(e) \in Bits
           /\ Len(b \o Padded(e)) % ByteBits = 0
<1>1. PICK x, z : x = b \o e /\ z = (-Len(e)) % ByteBits
  OBVIOUS
<1>2. x \in Bits /\ Len(x) = Len(b) + Len(e) /\ Len(b) \in Nat /\ Len(e) \in Nat
  BY <1>1, Joined, BitsParts
<1>3. /\ Padded(x) = x \o Zeros((-Len(x)) % ByteBits) /\ Padded(x) \in Bits
      /\ Len(Padded(x)) % ByteBits = 0 /\ ByteBits \in Nat /\ ByteBits > 0
      /\ Padded(e) = e \o Zeros(z) /\ Zeros(z) \in Bits
  BY <1>1, <1>2, PaddedBits
<1>4. (-Len(x)) % ByteBits = z
  <2>1. (-(Len(b) + Len(e))) % ByteBits = (-Len(e)) % ByteBits
    BY ONLY <1>2, <1>3, Len(b) % ByteBits = 0, PadSame
  <2> QED
    BY <1>1, <1>2, <2>1
<1>5. x \o Zeros(z) = b \o (e \o Zeros(z))
  <2>1. Join(Join(b, e), Zeros(z)) = Join(b, Join(e, Zeros(z)))
    BY <1>3, Associates
  <2>2. (b \o e) \o Zeros(z) = b \o (e \o Zeros(z))
    BY ONLY <2>1 DEF Join
  <2> QED
    BY ONLY <1>1, <2>2
<1> QED
  BY <1>1, <1>3, <1>4, <1>5

\* What comes before the records.
HeadParts(image) ==
    <<ImageHeader, UintBits(Len(image.registers), HandleBits),
      EncodeHandle(image.procedure), EncodeRuntimeReference(image.entry)>>
HeadBits(image) ==
    ImageHeader \o UintBits(Len(image.registers), HandleBits) \o EncodeHandle(image.procedure)
    \o EncodeRuntimeReference(image.entry)

LEMMA ImageForm ==
    ASSUME NEW x \in WrittenImages
    PROVE  /\ x = [procedure |-> x.procedure, entry |-> x.entry, registers |-> x.registers]
           /\ x.procedure \in Handles /\ x.entry \in References
           /\ x.registers \in Seq(ImageRecords) /\ Len(x.registers) \in Nat
           /\ Len(x.registers) \in 0..(2^HandleBits - 1)
           /\ DOMAIN x.registers = 1..Len(x.registers)
           /\ \A k \in 1..Len(x.registers) : x.registers[k] \in ImageRecords
<1>1. x \in [procedure : Handles, entry : References, registers : Seq(ImageRecords)]
      /\ Len(x.registers) <= MaxOffset
  BY DEF WrittenImages
<1>2. /\ x = [procedure |-> x.procedure, entry |-> x.entry, registers |-> x.registers]
      /\ x.procedure \in Handles /\ x.entry \in References
      /\ x.registers \in Seq(ImageRecords)
  BY <1>1
<1>3. PICK r : r = x.registers
  OBVIOUS
<1>4. r \in Seq(ImageRecords)
  BY <1>2, <1>3
<1>5. Len(r) \in Nat /\ DOMAIN r = 1..Len(r) /\ \A k \in 1..Len(r) : r[k] \in ImageRecords
  BY <1>4
<1>6. Len(r) \in 0..(2^HandleBits - 1)
  BY <1>1, <1>3, <1>5, ImageNumbers
<1> QED
  BY <1>2, <1>3, <1>5, <1>6

LEMMA HeadForm ==
    ASSUME NEW x \in WrittenImages
    PROVE  /\ \A k \in 1..4 : HeadParts(x)[k] \in Bits
           /\ HeadBits(x) = FourParts(HeadParts(x))
           /\ HeadBits(x) \in Bits /\ Len(HeadBits(x)) % ByteBits = 0
<1>1. PICK p : p = HeadParts(x)
  OBVIOUS
<1>2. /\ p[1] = ImageHeader /\ p[2] = UintBits(Len(x.registers), HandleBits)
      /\ p[3] = EncodeHandle(x.procedure) /\ p[4] = EncodeRuntimeReference(x.entry)
  BY <1>1 DEF HeadParts
<1>3. /\ p[1] \in Bits
      /\ p[2] \in Bits /\ Len(p[2]) = HandleBits
      /\ p[3] \in Bits /\ Len(p[3]) = HandleBits
      /\ p[4] \in Bits /\ Len(p[4]) = 2 * HandleBits
  <2>1. ImageHeader \in Bits
    BY ContainerAssumption DEF Bits
  <2>2. Len(x.registers) \in Nat /\ HandleBits \in Nat
    BY ImageForm, ImageNumbers
  <2>3. UintBits(Len(x.registers), HandleBits) \in Bits
        /\ Len(UintBits(Len(x.registers), HandleBits)) = HandleBits
    BY <2>2, UintBitsAreBits
  <2> QED
    BY <1>2, <2>1, <2>3, ImageForm, HandleWritten, ReferenceWritten
<1>4. \A k \in 1..4 : p[k] \in Bits
  <2>1. \A k \in 1..4 : k \in {1, 2, 3, 4}
    OBVIOUS
  <2> QED
    BY <1>3, <2>1
<1>5. HeadBits(x) = FourParts(p) /\ FourParts(p) \in Bits
      /\ Len(FourParts(p)) = Len(p[1]) + 4 * HandleBits
  <2>1. PICK a, b : a = p[3] \o p[4] /\ b = p[2] \o a
    OBVIOUS
  <2>2. a \in Bits /\ Len(a) = Len(p[3]) + Len(p[4])
    BY <1>3, <2>1, Joined
  <2>3. b \in Bits /\ Len(b) = Len(p[2]) + Len(a)
    BY <1>3, <2>1, <2>2, Joined
  <2>4. p[1] \o b \in Bits /\ Len(p[1] \o b) = Len(p[1]) + Len(b)
    BY <1>3, <2>3, Joined
  <2>5. FourParts(p) = p[1] \o b
    BY <2>1 DEF FourParts
  <2>6. PICK e : e = p[1] \o p[2]
    OBVIOUS
  <2>7. e \in Bits
    BY <1>3, <2>6, Joined
  <2>8. HeadBits(x) = (e \o p[3]) \o p[4]
    BY <1>2, <2>6 DEF HeadBits
  <2>9. (e \o p[3]) \o p[4] = e \o a
    <3>1. Join(Join(e, p[3]), p[4]) = Join(e, Join(p[3], p[4]))
      BY <1>3, <2>7, Associates
    <3>2. (e \o p[3]) \o p[4] = e \o (p[3] \o p[4])
      BY ONLY <3>1 DEF Join
    <3> QED
      BY ONLY <2>1, <3>2
  <2>10. e \o a = p[1] \o b
    <3>1. Join(Join(p[1], p[2]), a) = Join(p[1], Join(p[2], a))
      BY <1>3, <2>2, Associates
    <3>2. (p[1] \o p[2]) \o a = p[1] \o (p[2] \o a)
      BY ONLY <3>1 DEF Join
    <3> QED
      BY ONLY <2>1, <2>6, <3>2
  <2>11. HandleBits \in Nat /\ Len(p[1]) \in Nat
    BY <1>3, ImageNumbers, BitsParts
  <2> QED
    BY <1>3, <2>2, <2>3, <2>4, <2>5, <2>8, <2>9, <2>10, <2>11
<1>6. Len(FourParts(p)) % ByteBits = 0
  BY <1>2, <1>5, ContainerAssumption
<1> QED
  BY <1>1, <1>4, <1>5, <1>6

ImageParts(x, n, p, h) ==
    /\ \A k \in 1..n : p[k] = Padded(RecordBits(x.registers[k])) /\ p[k] \in Bits
    /\ Chain(h, HeadBits(x), p, n)
    /\ EncodeProgram(x) = h[n]
    /\ \A k \in 0..n : h[k] \in Bits

LEMMA ImageWrittenInParts ==
    ASSUME NEW x \in WrittenImages, NEW n, n = Len(x.registers)
    PROVE  \E p, h : ImageParts(x, n, p, h)
<1>1. n \in Nat /\ \A k \in 1..n : x.registers[k] \in ImageRecords
  BY ImageForm
<1>2. PICK p : p = [k \in 1..n |-> Padded(RecordBits(x.registers[k]))]
  OBVIOUS
<1>3. \A k \in 1..n : p[k] = Padded(RecordBits(x.registers[k]))
  BY <1>2
<1>4. \A k \in 1..n : RecordBits(x.registers[k]) \in Bits /\ p[k] \in Bits
                      /\ Len(p[k]) % ByteBits = 0
  <2> SUFFICES ASSUME NEW k \in 1..n
               PROVE  RecordBits(x.registers[k]) \in Bits /\ p[k] \in Bits
                      /\ Len(p[k]) % ByteBits = 0
    OBVIOUS
  <2>1. PICK e : e = RecordBits(x.registers[k])
    OBVIOUS
  <2>2. e \in Bits
    BY <1>1, <2>1, RecordForm
  <2>3. Padded(e) \in Bits /\ Len(Padded(e)) % ByteBits = 0
    BY <2>2, PaddedBits
  <2> QED
    BY <1>3, <2>1, <2>2, <2>3
<1>5. PICK h : Chain(h, HeadBits(x), p, n)
  BY <1>1, ChainMade
<1>6. HeadBits(x) \in Bits /\ Len(HeadBits(x)) % ByteBits = 0
  BY HeadForm
<1>7. \A k \in 0..n : h[k] \in Bits
  BY <1>1, <1>4, <1>5, <1>6, ChainBits
<1> DEFINE S == {k \in Nat : k <= n => Len(h[k]) % ByteBits = 0}
<1>8. 0 \in S
  BY <1>5, <1>6 DEF Chain
<1>9. ASSUME NEW k \in Nat, k \in S
      PROVE  k + 1 \in S
  <2> SUFFICES ASSUME k + 1 <= n
               PROVE  Len(h[k + 1]) % ByteBits = 0
    OBVIOUS
  <2>1. k + 1 \in 1..n /\ (k + 1) - 1 = k /\ k \in 0..n /\ Len(h[k]) % ByteBits = 0
    BY <1>1, <1>9
  <2>2. PICK e : e = RecordBits(x.registers[k + 1])
    OBVIOUS
  <2>3. h[k + 1] = h[k] \o Padded(e) /\ e \in Bits /\ h[k] \in Bits
    BY <1>3, <1>4, <1>5, <1>7, <2>1, <2>2 DEF Chain
  <2> QED
    BY <2>1, <2>3, PaddedJoined
<1>10. \A k \in 0..n : Len(h[k]) % ByteBits = 0
  <2>1. \A k \in Nat : k \in S
    <3> HIDE DEF S
    <3> QED
      BY <1>8, <1>9, Induction
  <2>2. \A k \in 0..n : k \in Nat /\ k <= n
    BY <1>1
  <2> QED
    BY <2>1, <2>2
<1> HIDE DEF S
<1> DEFINE regs == x.registers
           After(b, i) == Padded(b \o UintBits(regs[i].id, HandleBits)
                                 \o UintBits(regs[i].flags, FlagBits)
                                 \o EncodeBitString(regs[i].name)
                                 \o EncodeBitString(regs[i].contents))
           R(g) == g = [i \in 0..Len(regs) |->
                           IF i = 0 THEN HeadBits(x) ELSE After(g[i - 1], i)]
           f == CHOOSE g : R(g)
           g0 == [i \in 0..n |-> h[i]]
<1>11. EncodeProgram(x) = f[Len(regs)]
  BY DEF EncodeProgram, HeadBits
<1>12. ASSUME NEW k \in 1..n
       PROVE  After(h[k - 1], k) = h[k]
  <2>1. k - 1 \in 0..n
    BY <1>1
  <2>2. PICK b, r : b = h[k - 1] /\ r = regs[k]
    OBVIOUS
  <2>3. PICK q : q = RecordParts(r)
    OBVIOUS
  <2>4. /\ q[1] = UintBits(r.id, HandleBits) /\ q[2] = UintBits(r.flags, FlagBits)
        /\ q[3] = EncodeBitString(r.name) /\ q[4] = EncodeBitString(r.contents)
        /\ RecordBits(r) = FourParts(q)
    BY <2>3 DEF RecordParts, RecordBits
  <2>5. q[1] \in Bits /\ q[2] \in Bits /\ q[3] \in Bits /\ q[4] \in Bits /\ b \in Bits
        /\ Len(b) % ByteBits = 0 /\ FourParts(q) \in Bits
    <3>1. 1 \in 1..4 /\ 2 \in 1..4 /\ 3 \in 1..4 /\ 4 \in 1..4
      OBVIOUS
    <3>2. \A i \in 1..4 : q[i] \in Bits
      BY <1>1, <2>2, <2>3, RecordForm
    <3> QED
      BY <1>1, <1>7, <1>10, <2>1, <2>2, <2>4, <3>1, <3>2, RecordForm
  <2>6. b \o q[1] \o q[2] \o q[3] \o q[4] = b \o FourParts(q)
    <3>1. PICK e, t, g, i : e = q[1] /\ t = q[2] /\ g = q[3] /\ i = q[4]
      OBVIOUS
    <3>2. e \in Bits /\ t \in Bits /\ g \in Bits /\ i \in Bits /\ b \in Bits
      BY <2>5, <3>1
    <3>4. JoinsFive(b, e, t, g, i)
      BY ONLY <3>2, FiveJoined
    <3>3. b \o e \o t \o g \o i = b \o (e \o (t \o (g \o i)))
      BY ONLY <3>4 DEF JoinsFive
    <3> QED
      BY ONLY <3>1, <3>3 DEF FourParts
  <2>7. After(h[k - 1], k) = Padded(b \o FourParts(q))
    <3>1. After(h[k - 1], k) = Padded(b \o q[1] \o q[2] \o q[3] \o q[4])
      BY <2>2, <2>4
    <3> HIDE DEF After
    <3> QED
      BY <2>6, <3>1
  <2> HIDE DEF After
  <2>8. Padded(b \o FourParts(q)) = b \o Padded(FourParts(q))
    BY <2>5, PaddedJoined
  <2>9. h[k] = b \o p[k] /\ p[k] = Padded(FourParts(q))
    BY <1>3, <1>5, <2>2, <2>4 DEF Chain
  <2> QED
    BY <2>7, <2>8, <2>9
<1> HIDE DEF After
<1>13. R(g0)
  <2>1. Len(regs) = n
    OBVIOUS
  <2>2. ASSUME NEW i \in 0..n
        PROVE  h[i] = IF i = 0 THEN HeadBits(x) ELSE After(g0[i - 1], i)
    <3>1. CASE i = 0
      BY <1>5, <3>1 DEF Chain
    <3>2. CASE i # 0
      <4>1. i \in 1..n /\ i - 1 \in 0..n
        BY <1>1, <3>2
      <4>2. g0[i - 1] = h[i - 1]
        BY <4>1
      <4> HIDE DEF g0
      <4> QED
        BY <1>12, <3>2, <4>1, <4>2
    <3> QED
      BY <3>1, <3>2
  <2>3. g0 = [i \in 0..n |-> IF i = 0 THEN HeadBits(x) ELSE After(g0[i - 1], i)]
    BY <2>2
  <2> HIDE DEF g0
  <2> QED
    BY <2>1, <2>3
<1>14. R(f)
  <2> HIDE DEF R, g0
  <2> QED
    BY <1>13
<1>15. \A i \in 0..n : f[i] = IF i = 0 THEN HeadBits(x) ELSE After(f[i - 1], i)
  <2> HIDE DEF f
  <2> QED
    BY <1>14
<1> HIDE DEF f, g0, R
<1> DEFINE T == {k \in Nat : k <= n => f[k] = h[k]}
<1>16. 0 \in T
  <2>1. 0 \in 0..n
    BY <1>1
  <2> QED
    BY <1>5, <1>15, <2>1 DEF Chain
<1>17. ASSUME NEW k \in Nat, k \in T
       PROVE  k + 1 \in T
  <2> SUFFICES ASSUME k + 1 <= n
               PROVE  f[k + 1] = h[k + 1]
    OBVIOUS
  <2>1. k + 1 \in 1..n /\ k + 1 \in 0..n /\ (k + 1) - 1 = k /\ k + 1 # 0 /\ f[k] = h[k]
    BY <1>1, <1>17
  <2>2. f[k + 1] = After(f[k], k + 1)
    BY <1>15, <2>1
  <2>3. After(h[k], k + 1) = h[k + 1]
    BY <1>12, <2>1
  <2> QED
    BY <2>1, <2>2, <2>3
<1>18. f[n] = h[n]
  <2>1. n \in T
    <3> HIDE DEF T
    <3> QED
      BY <1>1, <1>16, <1>17, Induction
  <2> QED
    BY <1>1, <2>1
<1>19. EncodeProgram(x) = h[n]
  BY <1>11, <1>18
<1> QED
  BY <1>3, <1>4, <1>5, <1>7, <1>19 DEF ImageParts

LEMMA HeadNumbers ==
    /\ Len(HeadFields) = 4 /\ DOMAIN HeadFields = 1..4
    /\ HeadFields[1] = BitsField(Len(ImageHeader)) /\ HeadFields[2] = UintField(HandleBits)
    /\ HeadFields[3] = HandleField /\ HeadFields[4] = ReferenceField
    /\ \A k \in 1..4 : IsField(HeadFields[k]) /\ IsPlain(HeadFields[k])
    /\ ImageHeader \in Bits /\ Len(ImageHeader) \in Nat
<1>1. /\ Len(HeadFields) = 4 /\ DOMAIN HeadFields = 1..4
      /\ HeadFields[1] = BitsField(Len(ImageHeader)) /\ HeadFields[2] = UintField(HandleBits)
      /\ HeadFields[3] = HandleField /\ HeadFields[4] = ReferenceField
  BY DEF HeadFields
<1>2. ImageHeader \in Bits /\ Len(ImageHeader) \in Nat
  BY ContainerAssumption DEF Bits
<1>3. /\ IsField(BitsField(Len(ImageHeader))) /\ IsPlain(BitsField(Len(ImageHeader)))
      /\ IsField(UintField(HandleBits)) /\ IsPlain(UintField(HandleBits))
  BY <1>2, ImageNumbers DEF IsField, IsPlain, BitsField, UintField, SizeField, NameField,
     HandleField, ReferenceField
<1>4. /\ IsField(HandleField) /\ IsPlain(HandleField)
      /\ IsField(ReferenceField) /\ IsPlain(ReferenceField)
  BY DEF IsField, IsPlain, BitsField, UintField, SizeField, NameField, HandleField,
     ReferenceField
<1>5. \A k \in 1..4 : k \in {1, 2, 3, 4}
  OBVIOUS
<1>6. \A k \in 1..4 : IsField(HeadFields[k]) /\ IsPlain(HeadFields[k])
  BY <1>1, <1>3, <1>4, <1>5
<1> QED
  BY <1>1, <1>2, <1>6

LEMMA HeadRead ==
    ASSUME NEW s, NEW k, NEW x \in WrittenImages, CanEncodeHandle(x.procedure),
           CanEncodeRuntimeReference(x.entry), Between(s, 0, k, HeadBits(x))
    PROVE  \E v : /\ ReadFields(s, 0, HeadFields) = Got(v, k) /\ v[1] = ImageHeader
                  /\ v[2] = Len(x.registers) /\ v[3] = x.procedure /\ v[4] = x.entry
<1>1. PICK p, v, n : /\ p = HeadParts(x) /\ n = Len(x.registers)
                     /\ v = <<ImageHeader, n, x.procedure, x.entry>>
  OBVIOUS
<1>2. /\ p[1] = ImageHeader /\ p[2] = UintBits(n, HandleBits)
      /\ p[3] = EncodeHandle(x.procedure) /\ p[4] = EncodeRuntimeReference(x.entry)
      /\ v[1] = ImageHeader /\ v[2] = n /\ v[3] = x.procedure /\ v[4] = x.entry
  BY <1>1 DEF HeadParts
<1>3. PICK m : m[0] = 0 /\ m[4] = k /\ \A i \in 1..4 : Between(s, m[i - 1], m[i], p[i])
  BY <1>1, HeadForm, FourSplit
<1>4. /\ FieldWritten(HeadFields[1], v[1], p[1]) /\ FieldWritten(HeadFields[2], v[2], p[2])
      /\ FieldWritten(HeadFields[3], v[3], p[3]) /\ FieldWritten(HeadFields[4], v[4], p[4])
  <2>1. /\ x.procedure \in Handles /\ x.entry \in References /\ n \in 0..(2^HandleBits - 1)
    BY <1>1, ImageForm
  <2>2. FieldWritten(HeadFields[1], v[1], p[1])
    BY <1>2, HeadNumbers DEF FieldWritten
  <2>3. FieldWritten(HeadFields[2], v[2], p[2])
    BY <1>2, <2>1, HeadNumbers, ImageNumbers DEF FieldWritten
  <2>4. FieldWritten(HeadFields[3], v[3], p[3])
    BY <1>2, <2>1, HeadNumbers DEF FieldWritten
  <2>5. FieldWritten(HeadFields[4], v[4], p[4])
    BY <1>2, <2>1, HeadNumbers DEF FieldWritten
  <2> QED
    BY <2>2, <2>3, <2>4, <2>5
<1>5. \A i \in 1..4 : FieldWritten(HeadFields[i], v[i], p[i])
  <2>1. \A i \in 1..4 : i \in {1, 2, 3, 4}
    OBVIOUS
  <2> QED
    BY <1>4, <2>1
<1>6. Len(HeadFields) \in Nat /\ DOMAIN HeadFields = 1..Len(HeadFields)
      /\ \A i \in 1..Len(HeadFields) :
             IsPlain(HeadFields[i])
             /\ ReadField(s, m[i - 1], HeadFields[i]) = Got(v[i], m[i])
  BY <1>3, <1>5, HeadNumbers, FieldBack
<1>7. ReadFields(s, 0, HeadFields)
      = Got([i \in 1..Len(HeadFields) |-> v[i]], m[Len(HeadFields)])
  BY ONLY <1>3, <1>6, FieldsReadBack, SMTT(60)
<1>8. PICK w : w = [i \in 1..4 |-> v[i]]
  OBVIOUS
<1>9. w[1] = v[1] /\ w[2] = v[2] /\ w[3] = v[3] /\ w[4] = v[4]
  BY <1>8
<1>10. ReadFields(s, 0, HeadFields) = Got(w, k)
  BY <1>3, <1>7, <1>8, HeadNumbers
<1> QED
  BY <1>1, <1>2, <1>9, <1>10

LEMMA DivAtLeast ==
    ASSUME NEW b \in Nat, b > 0, NEW n \in Nat, NEW k \in Nat, n * b <= k
    PROVE  n <= k \div b
<1>1. PICK q, r : q = k \div b /\ r = k % b
  OBVIOUS
<1>2. q \in Int /\ r \in 0..(b - 1) /\ k = b * q + r
  BY <1>1, Remainder
<1>3. CASE q < n
  <2>1. PICK j, t : j = n - q - 1 /\ t = j * b
    OBVIOUS
  <2>2. j \in Nat /\ n = q + 1 + j
    BY <1>2, <1>3, <2>1
  <2>3. t \in Nat
    BY <2>1, <2>2
  <2>4. n * b = b * q + b + t
    BY <1>2, <2>1, <2>2
  <2> QED
    BY <1>2, <2>3, <2>4
<1> QED
  BY <1>1, <1>2, <1>3

\* The records are read one after the other, each with its length in whole bytes.
RecordsInPlace(s, n, regs, m) ==
    /\ \A k \in 1..n : DecodeRecord(s, m[k - 1]) = Got(regs[k], m[k])
    /\ m[n] \in Nat /\ m[n] % ByteBits = 0 /\ n * LeastRecord <= m[n] - m[0]

LEMMA RecordsInBytes ==
    ASSUME NEW s, NEW n \in Nat, NEW regs, \A k \in 1..n : regs[k] \in ImageRecords,
           NEW m, m[0] \in Nat, m[0] % ByteBits = 0,
           \A k \in 1..n : Between(s, m[k - 1], m[k], Padded(RecordBits(regs[k])))
    PROVE  RecordsInPlace(s, n, regs, m)
<1>1. PICK b : b = LeastRecord
  OBVIOUS
<1>2. b \in Nat /\ b > 0 /\ \A r \in ImageRecords : Len(Padded(RecordBits(r))) >= b
  BY <1>1, LeastIsNat
<1> DEFINE S == {k \in Nat : k <= n =>
                     m[k] \in Nat /\ m[k] % ByteBits = 0 /\ k * b <= m[k] - m[0]}
<1>3. 0 \in S
  <2>1. 0 * b = 0
    BY <1>2
  <2> QED
    BY <2>1
<1>4. ASSUME NEW k \in 1..n, m[k - 1] \in Nat, m[k - 1] % ByteBits = 0
      PROVE  /\ DecodeRecord(s, m[k - 1]) = Got(regs[k], m[k]) /\ m[k] % ByteBits = 0
             /\ m[k] \in Nat /\ m[k] >= m[k - 1] + b
  <2>1. PICK r, c, d : r = regs[k] /\ c = m[k - 1] /\ d = m[k]
    OBVIOUS
  <2>2. r \in ImageRecords /\ Between(s, c, d, Padded(RecordBits(r))) /\ c % ByteBits = 0
    BY <1>4, <2>1
  <2>3. DecodeRecord(s, c) = Got(r, d) /\ d % ByteBits = 0
    BY <2>2, ImageRecordBack
  <2>4. Len(Padded(RecordBits(r))) \in Nat /\ d = c + Len(Padded(RecordBits(r)))
    BY <2>2, BetweenIn
  <2>5. Len(Padded(RecordBits(r))) >= b
    BY <1>2, <2>2
  <2> QED
    BY <1>2, <1>4, <2>1, <2>3, <2>4, <2>5
<1>5. ASSUME NEW k \in Nat, k \in S
      PROVE  k + 1 \in S
  <2> SUFFICES ASSUME k + 1 <= n
               PROVE  /\ m[k + 1] \in Nat /\ m[k + 1] % ByteBits = 0
                      /\ (k + 1) * b <= m[k + 1] - m[0]
    OBVIOUS
  <2>1. /\ k + 1 \in 1..n /\ (k + 1) - 1 = k
        /\ m[k] \in Nat /\ m[k] % ByteBits = 0 /\ k * b <= m[k] - m[0]
    BY <1>5
  <2>2. m[k + 1] \in Nat /\ m[k + 1] % ByteBits = 0 /\ m[k + 1] >= m[k] + b
    BY <1>4, <2>1
  <2>3. (k + 1) * b = k * b + b /\ k * b \in Nat
    BY <1>2
  <2> QED
    BY <1>2, <2>1, <2>2, <2>3
<1>6. \A k \in Nat : k \in S
  <2> HIDE DEF S
  <2> QED
    BY <1>3, <1>5, Induction
<1>7. \A k \in 0..n : m[k] \in Nat /\ m[k] % ByteBits = 0 /\ k * b <= m[k] - m[0]
  <2>1. \A k \in 0..n : k \in Nat /\ k <= n
    OBVIOUS
  <2> QED
    BY <1>6, <2>1
<1>8. \A k \in 1..n : k - 1 \in 0..n
  OBVIOUS
<1>9. n \in 0..n
  OBVIOUS
<1> HIDE DEF S
<1> QED
  BY <1>1, <1>4, <1>7, <1>8, <1>9 DEF RecordsInPlace

LEMMA ProgramBack ==
    ASSUME NEW s, NEW d, NEW x \in WrittenImages, CanEncodeProgram(x),
           Between(s, 0, d, EncodeProgram(x))
    PROVE  DecodeProgram(s) = IF d = Len(s) THEN Got(x, d) ELSE Failed(0)
<1>1. PICK n, regs : n = Len(x.registers) /\ regs = x.registers
  OBVIOUS
<1>2. /\ x = [procedure |-> x.procedure, entry |-> x.entry, registers |-> regs]
      /\ n \in Nat /\ regs \in Seq(ImageRecords) /\ \A k \in 1..n : regs[k] \in ImageRecords
      /\ n = Len(regs)
  BY <1>1, ImageForm
<1>3. PICK p, h : ImageParts(x, n, p, h)
  BY <1>1, ImageWrittenInParts
<1>4. /\ \A k \in 1..n : p[k] = Padded(RecordBits(regs[k])) /\ p[k] \in Bits
      /\ Chain(h, HeadBits(x), p, n) /\ EncodeProgram(x) = h[n]
  BY <1>1, <1>3 DEF ImageParts
<1>5. HeadBits(x) \in Bits /\ Len(HeadBits(x)) % ByteBits = 0
  BY HeadForm
<1>6. PICK m : Between(s, 0, m[0], HeadBits(x)) /\ m[n] = d /\ Apart(s, m, p, n)
  <2>1. \A k \in 1..n : p[k] \in Bits
    BY <1>4
  <2>2. PICK b : b = HeadBits(x)
    OBVIOUS
  <2>3. n \in Nat /\ b \in Bits /\ Chain(h, b, p, n) /\ Between(s, 0, d, h[n])
    BY <1>2, <1>4, <1>5, <2>2
  <2>4. \E m : Between(s, 0, m[0], b) /\ m[n] = d /\ Apart(s, m, p, n)
    BY ONLY <2>1, <2>3, ChainSplit, ZenonT(30)
  <2> QED
    BY <2>2, <2>4
<1>7. \A k \in 1..n : Between(s, m[k - 1], m[k], Padded(RecordBits(regs[k])))
  BY <1>4, <1>6 DEF Apart
<1>8. m[0] \in Nat /\ m[0] % ByteBits = 0
  <2>1. m[0] = 0 + Len(HeadBits(x)) /\ Len(HeadBits(x)) \in Nat
    BY <1>6, BetweenIn
  <2> QED
    BY <1>5, <2>1
<1>9. /\ \A k \in 1..n : DecodeRecord(s, m[k - 1]) = Got(regs[k], m[k])
      /\ d \in Nat /\ d % ByteBits = 0 /\ n * LeastRecord <= d - m[0]
  <2>1. /\ \A k \in 1..n : DecodeRecord(s, m[k - 1]) = Got(regs[k], m[k])
        /\ m[n] \in Nat /\ m[n] % ByteBits = 0 /\ n * LeastRecord <= m[n] - m[0]
    <3>1. n \in Nat /\ \A k \in 1..n : regs[k] \in ImageRecords
      BY <1>2
    <3>2. RecordsInPlace(s, n, regs, m)
      BY ONLY <1>7, <1>8, <3>1, RecordsInBytes, SMTT(20)
    <3> QED
      BY <3>2 DEF RecordsInPlace
  <2> QED
    BY <1>6, <2>1
<1>10. s \in Bits /\ Len(s) \in Nat /\ d \in 0..Len(s) /\ m[0] \in 0..Len(s)
  BY <1>6, BetweenIn
<1>11. /\ CanEncodeHandle(x.procedure) /\ CanEncodeRuntimeReference(x.entry) /\ IsProgram(x)
  <2>1. IsProgram(x) /\ CanEncodeRuntimeReference(x.entry)
    BY DEF CanEncodeProgram
  <2> DEFINE R == {x.registers[i] : i \in DOMAIN x.registers}
  <2>2. /\ x.procedure.class = Global /\ \E r \in R : r.id = x.procedure.id
        /\ \A r \in R : r.id < 2^IdBits
    BY ONLY <2>1 DEF IsProgram
  <2> HIDE DEF R
  <2> QED
    BY <2>1, <2>2 DEF CanEncodeHandle, Global, Procedure
<1>12. PICK v : /\ ReadFields(s, 0, HeadFields) = Got(v, m[0]) /\ v[1] = ImageHeader
                /\ v[2] = n /\ v[3] = x.procedure /\ v[4] = x.entry
  BY <1>1, <1>6, <1>11, HeadRead
<1>13. n <= (Len(s) - m[0]) \div LeastRecord
  <2>1. PICK a : a = Len(s) - m[0]
    OBVIOUS
  <2>2. PICK b, t : b = LeastRecord /\ t = n * b
    OBVIOUS
  <2>3. b \in Nat /\ b > 0
    BY <2>2, LeastIsNat
  <2>4. t \in Nat /\ t <= d - m[0]
    BY <1>2, <1>9, <2>2, <2>3
  <2>5. a \in Nat /\ t <= a
    BY <1>8, <1>10, <2>1, <2>4
  <2>6. n <= a \div b
    BY <1>2, <2>2, <2>3, <2>5, DivAtLeast
  <2> QED
    BY <2>1, <2>2, <2>6
<1>14. ReadRecords(s, m[0], n) = Got(regs, d)
  <2>1. ReadRecords(s, m[0], n) = Got([k \in 1..n |-> regs[k]], m[n])
    BY <1>2, <1>9, RecordsBack
  <2>2. regs = [k \in 1..n |-> regs[k]]
    BY <1>2
  <2> QED
    BY ONLY <1>6, <2>1, <2>2
<1>15. ImageOf(v, regs) = x
  BY ONLY <1>2, <1>12 DEF ImageOf
<1>16. HeadOK(s, v, m[0]) <=> Len(s) % ByteBits = 0
  BY <1>12, <1>13 DEF HeadOK
<1>17. HeadOK(s, v, m[0]) =>
           DecodeProgram(s) = IF d = Len(s) /\ IsProgram(x) THEN Got(x, d) ELSE Failed(0)
  BY <1>12, <1>14, <1>15, ProgramSteps
<1>18. ~HeadOK(s, v, m[0]) => DecodeProgram(s) = Failed(0)
  BY <1>12, ProgramSteps
<1> QED
  BY <1>9, <1>11, <1>16, <1>17, <1>18

\* The records met one after the other, from a whole number of bytes on.
RecordsDecoded(s, n, v, m) ==
    /\ \A k \in 0..n : m[k] \in 0..Len(s)
    /\ \A k \in 1..n : DecodeRecord(s, m[k - 1]) = Got(v[k], m[k])

LEMMA RecordsMetInBytes ==
    ASSUME NEW s \in Bits, NEW n \in Nat, NEW v, NEW m, RecordsDecoded(s, n, v, m)
    PROVE  /\ \A k \in 1..n : v[k] \in ImageRecords
           /\ m[0] % ByteBits = 0 =>
                  \A k \in 1..n : Between(s, m[k - 1], m[k], Padded(RecordBits(v[k])))
<1>1. ASSUME NEW k \in 1..n
      PROVE  /\ v[k] \in ImageRecords
             /\ m[k - 1] % ByteBits = 0 =>
                    /\ Between(s, m[k - 1], m[k], Padded(RecordBits(v[k])))
                    /\ m[k] % ByteBits = 0
  <2>1. PICK c, y, e : c = m[k - 1] /\ y = v[k] /\ e = m[k]
    OBVIOUS
  <2>2. k - 1 \in 0..n
    OBVIOUS
  <2>3. c \in 0..Len(s) /\ DecodeRecord(s, c) = Got(y, e)
    BY <2>1, <2>2 DEF RecordsDecoded
  <2>4. DecodeRecord(s, c) # Failed(c)
    BY <2>3, Results2
  <2>5. PICK r \in ImageRecords : \E d \in 0..Len(s) :
            /\ DecodeRecord(s, c) = Got(r, d)
            /\ c % ByteBits = 0 => /\ Between(s, c, d, Padded(RecordBits(r)))
                                   /\ d % ByteBits = 0
    BY ONLY <2>3, <2>4, s \in Bits, ImageRecordMet
  <2>6. PICK d \in 0..Len(s) :
            /\ DecodeRecord(s, c) = Got(r, d)
            /\ c % ByteBits = 0 => /\ Between(s, c, d, Padded(RecordBits(r)))
                                   /\ d % ByteBits = 0
    BY <2>5
  <2>7. Got(r, d) = Got(y, e)
    BY <2>3, <2>6
  <2>8. r = y /\ d = e
    BY ONLY <2>7, GotParts
  <2> QED
    BY <2>1, <2>5, <2>6, <2>8
<1> DEFINE S == {k \in Nat : k <= n => m[k] % ByteBits = 0}
<1>2. ASSUME m[0] % ByteBits = 0
      PROVE  \A k \in 1..n : m[k - 1] % ByteBits = 0
  <2>1. 0 \in S
    BY <1>2
  <2>2. ASSUME NEW k \in Nat, k \in S
        PROVE  k + 1 \in S
    <3> SUFFICES ASSUME k + 1 <= n
                 PROVE  m[k + 1] % ByteBits = 0
      OBVIOUS
    <3>1. k + 1 \in 1..n /\ (k + 1) - 1 = k /\ m[k] % ByteBits = 0
      BY <2>2
    <3> QED
      BY <1>1, <3>1
  <2>3. \A k \in Nat : k \in S
    <3> HIDE DEF S
    <3> QED
      BY <2>1, <2>2, Induction
  <2>4. \A k \in 1..n : k - 1 \in Nat /\ k - 1 <= n
    OBVIOUS
  <2> QED
    BY <2>3, <2>4
<1> HIDE DEF S
<1> QED
  BY <1>1, <1>2

LEMMA HeadMet ==
    ASSUME NEW s \in Bits, ReadFields(s, 0, HeadFields) # Failed(0)
    PROVE  \E v, p, m : /\ ReadFields(s, 0, HeadFields) = Got(v, m[4]) /\ m[0] = 0
                        /\ m[4] \in 0..Len(s)
                        /\ \A k \in 1..4 : Between(s, m[k - 1], m[k], p[k])
                        /\ p[1] = v[1]
                        /\ v[2] \in 0..(2^HandleBits - 1) /\ p[2] = UintBits(v[2], HandleBits)
                        /\ v[3] \in Handles /\ p[3] = EncodeHandle(v[3])
                        /\ v[4] \in References /\ CanEncodeRuntimeReference(v[4])
                        /\ p[4] = EncodeRuntimeReference(v[4])
<1>1. PICK v, p, m : /\ FieldsWritten(HeadFields, 4, v, p) /\ Apart(s, m, p, 4) /\ m[0] = 0
                     /\ m[4] \in 0..Len(s)
                     /\ ReadFields(s, 0, HeadFields) = Got([k \in 1..4 |-> v[k]], m[4])
  <2>1. 4 \in Nat /\ Len(HeadFields) = 4 /\ DOMAIN HeadFields = 1..4
        /\ \A k \in 1..4 : IsField(HeadFields[k])
    BY HeadNumbers
  <2>2. s \in Bits /\ 0 \in 0..Len(s) /\ ReadFields(s, 0, HeadFields) # Failed(0)
    BY BitsParts
  <2>3. RecordHere(s, 0, HeadFields, 4)
    BY ONLY <2>1, <2>2, RecordMet
  <2> QED
    BY <2>3 DEF RecordHere
<1>2. PICK w : w = [i \in 1..4 |-> v[i]]
  OBVIOUS
<1>3. w[1] = v[1] /\ w[2] = v[2] /\ w[3] = v[3] /\ w[4] = v[4]
  BY <1>2
<1>4. /\ FieldWritten(BitsField(Len(ImageHeader)), v[1], p[1])
      /\ FieldWritten(UintField(HandleBits), v[2], p[2])
      /\ FieldWritten(HandleField, v[3], p[3]) /\ FieldWritten(ReferenceField, v[4], p[4])
  <2>1. 1 \in 1..4 /\ 2 \in 1..4 /\ 3 \in 1..4 /\ 4 \in 1..4
    OBVIOUS
  <2> QED
    BY <1>1, <2>1, HeadNumbers DEF FieldsWritten
<1>5. p[1] = v[1]
  BY <1>4 DEF FieldWritten, BitsField, UintField, SizeField, NameField, HandleField,
              ReferenceField
<1>6. v[2] \in 0..(2^HandleBits - 1) /\ p[2] = UintBits(v[2], HandleBits)
  BY <1>4 DEF FieldWritten, BitsField, UintField, SizeField, NameField, HandleField,
              ReferenceField
<1>7. v[3] \in Handles /\ p[3] = EncodeHandle(v[3])
  BY <1>4 DEF FieldWritten, BitsField, UintField, SizeField, NameField, HandleField,
              ReferenceField
<1>8. /\ v[4] \in References /\ CanEncodeRuntimeReference(v[4])
      /\ p[4] = EncodeRuntimeReference(v[4])
  BY <1>4 DEF FieldWritten, BitsField, UintField, SizeField, NameField, HandleField,
              ReferenceField
<1>9. \A k \in 1..4 : Between(s, m[k - 1], m[k], p[k])
  BY <1>1 DEF Apart
<1>10. ReadFields(s, 0, HeadFields) = Got(w, m[4])
  BY <1>1, <1>2
<1>11. /\ ReadFields(s, 0, HeadFields) = Got(w, m[4]) /\ m[0] = 0
       /\ m[4] \in 0..Len(s)
       /\ \A k \in 1..4 : Between(s, m[k - 1], m[k], p[k])
       /\ p[1] = w[1]
       /\ w[2] \in 0..(2^HandleBits - 1) /\ p[2] = UintBits(w[2], HandleBits)
       /\ w[3] \in Handles /\ p[3] = EncodeHandle(w[3])
       /\ w[4] \in References /\ CanEncodeRuntimeReference(w[4])
       /\ p[4] = EncodeRuntimeReference(w[4])
  BY <1>1, <1>3, <1>5, <1>6, <1>7, <1>8, <1>9, <1>10
<1> QED
  BY ONLY <1>11

LEMMA ProgramMet ==
    ASSUME NEW s \in Bits
    PROVE  \/ DecodeProgram(s) = Failed(0)
           \/ \E x \in WrittenImages : /\ CanEncodeProgram(x)
                                       /\ Between(s, 0, Len(s), EncodeProgram(x))
                                       /\ DecodeProgram(s) = Got(x, Len(s))
<1> SUFFICES ASSUME DecodeProgram(s) # Failed(0)
             PROVE  \E x \in WrittenImages : /\ CanEncodeProgram(x)
                                             /\ Between(s, 0, Len(s), EncodeProgram(x))
                                             /\ DecodeProgram(s) = Got(x, Len(s))
  OBVIOUS
<1>1. ReadFields(s, 0, HeadFields) # Failed(0)
  BY ProgramSteps
<1>2. PICK v, p, m : /\ ReadFields(s, 0, HeadFields) = Got(v, m[4]) /\ m[0] = 0
                     /\ m[4] \in 0..Len(s)
                     /\ \A k \in 1..4 : Between(s, m[k - 1], m[k], p[k])
                     /\ p[1] = v[1]
                     /\ v[2] \in 0..(2^HandleBits - 1) /\ p[2] = UintBits(v[2], HandleBits)
                     /\ v[3] \in Handles /\ p[3] = EncodeHandle(v[3])
                     /\ v[4] \in References /\ CanEncodeRuntimeReference(v[4])
                     /\ p[4] = EncodeRuntimeReference(v[4])
  BY <1>1, HeadMet
<1>3. PICK k, n : k = m[4] /\ n = v[2]
  OBVIOUS
<1>4. n \in Nat /\ n <= MaxOffset /\ k \in 0..Len(s)
  BY <1>2, <1>3, ImageNumbers
<1>5. HeadOK(s, v, k)
  BY <1>2, <1>3, ProgramSteps
<1>6. ReadRecords(s, k, n) # Failed(k)
  BY <1>2, <1>3, <1>5, ProgramSteps
<1>7. PICK y, q : /\ q[0] = k /\ \A i \in 0..n : q[i] \in 0..Len(s)
                  /\ \A i \in 1..n : DecodeRecord(s, q[i - 1]) = Got(y[i], q[i])
                  /\ ReadRecords(s, k, n) = Got([i \in 1..n |-> y[i]], q[n])
  <2>1. RecordsHere(s, k, n)
    BY <1>4, <1>6, RecordsMet
  <2> QED
    BY <2>1 DEF RecordsHere
<1>8. /\ \A i \in 1..n : y[i] \in ImageRecords
      /\ q[0] % ByteBits = 0 =>
             \A i \in 1..n : Between(s, q[i - 1], q[i], Padded(RecordBits(y[i])))
  <2>1. s \in Bits /\ n \in Nat
    BY <1>4
  <2>2. RecordsDecoded(s, n, y, q)
    BY <1>7 DEF RecordsDecoded
  <2> QED
    BY ONLY <2>1, <2>2, RecordsMetInBytes
<1>9. PICK regs : regs = [i \in 1..n |-> y[i]]
  OBVIOUS
<1>10. regs \in Seq(ImageRecords) /\ Len(regs) = n /\ \A i \in 1..n : regs[i] = y[i]
  BY <1>4, <1>8, <1>9
<1>11. PICK x : x = ImageOf(v, regs)
  OBVIOUS
<1>12. /\ x.procedure = v[3] /\ x.entry = v[4] /\ x.registers = regs
  BY <1>11 DEF ImageOf
<1>13. x \in WrittenImages
  BY <1>2, <1>4, <1>10, <1>11 DEF ImageOf, WrittenImages
<1>14. q[n] = Len(s) /\ IsProgram(x) /\ DecodeProgram(s) = Got(x, Len(s))
  <2>1. ReadRecords(s, k, n) = Got(regs, q[n])
    BY <1>7, <1>9
  <2>2. DecodeProgram(s) = IF q[n] = Len(s) /\ IsProgram(x) THEN Got(x, q[n]) ELSE Failed(0)
    BY <1>2, <1>3, <1>5, <1>11, <2>1, ProgramSteps
  <2> QED
    BY <2>2
<1>15. CanEncodeProgram(x)
  BY <1>2, <1>12, <1>14 DEF CanEncodeProgram
<1>16. Between(s, 0, k, HeadBits(x))
  <2>1. PICK t : t = HeadParts(x)
    OBVIOUS
  <2>2. /\ t[1] = ImageHeader /\ t[2] = UintBits(n, HandleBits)
        /\ t[3] = EncodeHandle(v[3]) /\ t[4] = EncodeRuntimeReference(v[4])
    BY <1>10, <1>12, <2>1 DEF HeadParts
  <2>3. v[1] = ImageHeader
    BY <1>5 DEF HeadOK
  <2>4. t[1] = p[1] /\ t[2] = p[2] /\ t[3] = p[3] /\ t[4] = p[4]
    BY <1>2, <1>3, <2>2, <2>3
  <2>5. \A i \in 1..4 : Between(s, m[i - 1], m[i], t[i])
    <3>1. \A i \in 1..4 : i \in {1, 2, 3, 4}
      OBVIOUS
    <3>2. \A i \in 1..4 : t[i] = p[i]
      BY <2>4, <3>1
    <3> QED
      BY <1>2, <3>2
  <2>6. Between(s, m[0], m[4], FourParts(t))
    BY <2>5, FourJoined
  <2>7. HeadBits(x) = FourParts(t)
    BY <1>13, <2>1, HeadForm
  <2> QED
    BY ONLY <1>2, <1>3, <2>6, <2>7
<1>17. k % ByteBits = 0
  <2>1. Len(HeadBits(x)) % ByteBits = 0
    BY <1>13, HeadForm
  <2>2. k = 0 + Len(HeadBits(x)) /\ Len(HeadBits(x)) \in Nat
    BY <1>16, BetweenIn
  <2> QED
    BY <2>1, <2>2
<1>18. PICK e, h : ImageParts(x, n, e, h)
  <2>1. n = Len(x.registers)
    BY <1>10, <1>12
  <2> QED
    BY <1>13, <2>1, ImageWrittenInParts
<1>19. /\ \A i \in 1..n : e[i] = Padded(RecordBits(y[i]))
       /\ Chain(h, HeadBits(x), e, n) /\ EncodeProgram(x) = h[n]
  BY <1>10, <1>12, <1>18 DEF ImageParts
<1>20. Apart(s, q, e, n)
  BY <1>7, <1>8, <1>17, <1>19 DEF Apart
<1>21. Between(s, 0, q[n], h[n])
  <2>1. PICK b : b = HeadBits(x)
    OBVIOUS
  <2>2. n \in Nat /\ Chain(h, b, e, n) /\ Between(s, 0, q[0], b)
    BY <1>4, <1>7, <1>16, <1>19, <2>1
  <2> QED
    BY ONLY <1>20, <2>2, ChainJoined
<1> QED
  BY <1>13, <1>14, <1>15, <1>19, <1>21

-----------------------------------------------------------------------------
(* The items of a stream                                                   *)

LEMMA CommandNames ==
    /\ Commands = {"read_prefix", "modify_prefix", "condition_prefix", "branch", "compute",
                   "copy", "switch_procedure", "switch_network", "switch_procedure_and_network",
                   "return_result", "set_procedure_position", "finish_call", "resize_register",
                   "get_register_size", "resolve_return"}
BY DEF Commands, ArgumentsOf

LEMMA KindNames ==
    ASSUME NEW kind \in Kinds \union Files
    PROVE  \/ kind \in Commands
           \/ kind \in {"size", "bit_string", "var_uint", "var_int", "value", "selector",
                        "reference", "source", "destination", "runtime_reference", "node",
                        "activation", "procedure", "program"}
BY DEF Kinds, Files

LEMMA KindsDiffer ==
    \A kind \in Commands :
        kind \notin {"size", "bit_string", "var_uint", "var_int", "value", "selector", "reference",
                     "source", "destination", "runtime_reference", "node", "activation",
                     "procedure", "program"}
BY CommandNames

LEMMA EncodeOf ==
    ASSUME NEW v
    PROVE  /\ Encode("size", v) = EncodeSize(v)
           /\ Encode("bit_string", v) = EncodeBitString(v)
           /\ Encode("var_uint", v) = EncodeVarUint(v)
           /\ Encode("var_int", v) = EncodeVarInt(v)
           /\ Encode("value", v) = EncodeValue(v)
           /\ Encode("selector", v) = EncodeSelector(v)
           /\ Encode("reference", v) = EncodeReference(v)
           /\ Encode("source", v) = EncodeSource(v)
           /\ Encode("destination", v) = EncodeReference(v)
           /\ Encode("runtime_reference", v) = EncodeRuntimeReference(v)
           /\ Encode("node", v) = EncodeNode(v)
           /\ Encode("activation", v) = EncodeActivation(v)
           /\ Encode("procedure", v) = EncodeProcedure(v)
           /\ Encode("program", v) = EncodeProgram(v)
           /\ \A kind \in Commands : Encode(kind, v) = EncodeInstruction(kind, v)
<1>1. \A kind \in Commands : kind \notin {"size", "bit_string", "var_uint", "var_int", "value",
        "selector", "reference", "source", "destination", "runtime_reference", "node",
        "activation", "procedure", "program"}
  BY KindsDiffer
<1>2. Encode("size", v) = EncodeSize(v)
  BY <1>1 DEF Encode
<1>3. Encode("bit_string", v) = EncodeBitString(v)
  BY <1>1 DEF Encode
<1>4. Encode("var_uint", v) = EncodeVarUint(v)
  BY <1>1 DEF Encode
<1>5. Encode("var_int", v) = EncodeVarInt(v)
  BY <1>1 DEF Encode
<1>6. Encode("value", v) = EncodeValue(v)
  BY <1>1 DEF Encode
<1>7. Encode("selector", v) = EncodeSelector(v)
  BY <1>1 DEF Encode
<1>8. Encode("reference", v) = EncodeReference(v)
  BY <1>1 DEF Encode
<1>9. Encode("source", v) = EncodeSource(v)
  BY <1>1 DEF Encode
<1>10. Encode("destination", v) = EncodeReference(v)
  BY <1>1 DEF Encode
<1>11. Encode("runtime_reference", v) = EncodeRuntimeReference(v)
  BY <1>1 DEF Encode
<1>12. Encode("node", v) = EncodeNode(v)
  BY <1>1 DEF Encode
<1>13. Encode("activation", v) = EncodeActivation(v)
  BY <1>1 DEF Encode
<1>14. Encode("procedure", v) = EncodeProcedure(v)
  BY <1>1 DEF Encode
<1>15. Encode("program", v) = EncodeProgram(v)
  BY <1>1 DEF Encode
<1>16. \A kind \in Commands : Encode(kind, v) = EncodeInstruction(kind, v)
  BY <1>1 DEF Encode
<1> QED
  BY <1>2, <1>3, <1>4, <1>5, <1>6, <1>7, <1>8, <1>9, <1>10, <1>11, <1>12, <1>13, <1>14, <1>15,
     <1>16

LEMMA DecodeOf ==
    ASSUME NEW s, NEW c
    PROVE  /\ Decode("size", s, c) = DecodeSize(s, c)
           /\ Decode("bit_string", s, c) = DecodeBitString(s, c)
           /\ Decode("var_uint", s, c) = DecodeVarUint(s, c)
           /\ Decode("var_int", s, c) = DecodeVarInt(s, c)
           /\ Decode("value", s, c) = DecodeValue(s, c)
           /\ Decode("selector", s, c) = DecodeSelector(s, c)
           /\ Decode("reference", s, c) = DecodeReference(s, c)
           /\ Decode("source", s, c) = DecodeSource(s, c)
           /\ Decode("destination", s, c) = DecodeDestination(s, c)
           /\ Decode("runtime_reference", s, c) = DecodeRuntimeReference(s, c)
           /\ Decode("node", s, c) = DecodeNode(s, c)
           /\ Decode("activation", s, c) = DecodeActivation(s, c)
           /\ Decode("procedure", s, c) = DecodeProcedure(s)
           /\ Decode("program", s, c) = DecodeProgram(s)
           /\ \A kind \in Commands : Decode(kind, s, c) = DecodeInstruction(kind, s, c)
<1>1. \A kind \in Commands : kind \notin {"size", "bit_string", "var_uint", "var_int", "value",
        "selector", "reference", "source", "destination", "runtime_reference", "node",
        "activation", "procedure", "program"}
  BY KindsDiffer
<1>2. Decode("size", s, c) = DecodeSize(s, c)
  BY <1>1 DEF Decode
<1>3. Decode("bit_string", s, c) = DecodeBitString(s, c)
  BY <1>1 DEF Decode
<1>4. Decode("var_uint", s, c) = DecodeVarUint(s, c)
  BY <1>1 DEF Decode
<1>5. Decode("var_int", s, c) = DecodeVarInt(s, c)
  BY <1>1 DEF Decode
<1>6. Decode("value", s, c) = DecodeValue(s, c)
  BY <1>1 DEF Decode
<1>7. Decode("selector", s, c) = DecodeSelector(s, c)
  BY <1>1 DEF Decode
<1>8. Decode("reference", s, c) = DecodeReference(s, c)
  BY <1>1 DEF Decode
<1>9. Decode("source", s, c) = DecodeSource(s, c)
  BY <1>1 DEF Decode
<1>10. Decode("destination", s, c) = DecodeDestination(s, c)
  BY <1>1 DEF Decode
<1>11. Decode("runtime_reference", s, c) = DecodeRuntimeReference(s, c)
  BY <1>1 DEF Decode
<1>12. Decode("node", s, c) = DecodeNode(s, c)
  BY <1>1 DEF Decode
<1>13. Decode("activation", s, c) = DecodeActivation(s, c)
  BY <1>1 DEF Decode
<1>14. Decode("procedure", s, c) = DecodeProcedure(s)
  BY <1>1 DEF Decode
<1>15. Decode("program", s, c) = DecodeProgram(s)
  BY <1>1 DEF Decode
<1>16. \A kind \in Commands : Decode(kind, s, c) = DecodeInstruction(kind, s, c)
  BY <1>1 DEF Decode
<1> QED
  BY <1>2, <1>3, <1>4, <1>5, <1>6, <1>7, <1>8, <1>9, <1>10, <1>11, <1>12, <1>13, <1>14, <1>15,
     <1>16

LEMMA ItemOf ==
    ASSUME NEW v
    PROVE  /\ (IsItem("size", v) <=> v \in Words)
           /\ (IsItem("bit_string", v) <=> v \in BitStrings)
           /\ (IsItem("var_uint", v) <=> v \in Words)
           /\ (IsItem("var_int", v) <=> v \in Ints)
           /\ (IsItem("value", v) <=> v \in Values)
           /\ (IsItem("selector", v) <=> v \in Selectors)
           /\ (IsItem("reference", v) <=> v \in OperandReferences)
           /\ (IsItem("source", v) <=> v \in Sources)
           /\ (IsItem("destination", v) <=> v \in OperandReferences)
           /\ (IsItem("runtime_reference", v) <=> v \in References)
           /\ (IsItem("node", v) <=> v \in NetworkNodes)
           /\ (IsItem("activation", v) <=> v \in Activations)
           /\ (IsItem("procedure", v) <=> v \in NamedProcedures)
           /\ (IsItem("program", v) <=> v \in WrittenImages)
           /\ \A kind \in Commands : IsItem(kind, v) <=> IsInstruction(kind, v)
<1>1. \A kind \in Commands : kind \notin {"size", "bit_string", "var_uint", "var_int", "value",
        "selector", "reference", "source", "destination", "runtime_reference", "node",
        "activation", "procedure", "program"}
  BY KindsDiffer
<1>2. (IsItem("size", v) <=> v \in Words)
  BY <1>1 DEF IsItem
<1>3. (IsItem("bit_string", v) <=> v \in BitStrings)
  BY <1>1 DEF IsItem
<1>4. (IsItem("var_uint", v) <=> v \in Words)
  BY <1>1 DEF IsItem
<1>5. (IsItem("var_int", v) <=> v \in Ints)
  BY <1>1 DEF IsItem
<1>6. (IsItem("value", v) <=> v \in Values)
  BY <1>1 DEF IsItem
<1>7. (IsItem("selector", v) <=> v \in Selectors)
  BY <1>1 DEF IsItem
<1>8. (IsItem("reference", v) <=> v \in OperandReferences)
  BY <1>1 DEF IsItem
<1>9. (IsItem("source", v) <=> v \in Sources)
  BY <1>1 DEF IsItem
<1>10. (IsItem("destination", v) <=> v \in OperandReferences)
  BY <1>1 DEF IsItem
<1>11. (IsItem("runtime_reference", v) <=> v \in References)
  BY <1>1 DEF IsItem
<1>12. (IsItem("node", v) <=> v \in NetworkNodes)
  BY <1>1 DEF IsItem
<1>13. (IsItem("activation", v) <=> v \in Activations)
  BY <1>1 DEF IsItem
<1>14. (IsItem("procedure", v) <=> v \in NamedProcedures)
  BY <1>1 DEF IsItem
<1>15. (IsItem("program", v) <=> v \in WrittenImages)
  BY <1>1 DEF IsItem
<1>16. \A kind \in Commands : IsItem(kind, v) <=> IsInstruction(kind, v)
  BY <1>1 DEF IsItem
<1> QED
  BY <1>2, <1>3, <1>4, <1>5, <1>6, <1>7, <1>8, <1>9, <1>10, <1>11, <1>12, <1>13, <1>14, <1>15,
     <1>16

LEMMA CanEncodeOf ==
    ASSUME NEW v
    PROVE  /\ (CanEncode("size", v) <=> TRUE)
           /\ (CanEncode("bit_string", v) <=> TRUE)
           /\ (CanEncode("var_uint", v) <=> TRUE)
           /\ (CanEncode("var_int", v) <=> TRUE)
           /\ (CanEncode("value", v) <=> CanEncodeValue(v))
           /\ (CanEncode("selector", v) <=> TRUE)
           /\ (CanEncode("reference", v) <=> TRUE)
           /\ (CanEncode("source", v) <=> TRUE)
           /\ (CanEncode("destination", v) <=> CanEncodeDestination(v))
           /\ (CanEncode("runtime_reference", v) <=> CanEncodeRuntimeReference(v))
           /\ (CanEncode("node", v) <=> CanEncodeNode(v))
           /\ (CanEncode("activation", v) <=> CanEncodeActivation(v))
           /\ (CanEncode("procedure", v) <=> TRUE)
           /\ (CanEncode("program", v) <=> CanEncodeProgram(v))
           /\ \A kind \in Commands : CanEncode(kind, v)
<1>1. \A kind \in Commands : kind \notin {"size", "bit_string", "var_uint", "var_int", "value",
        "selector", "reference", "source", "destination", "runtime_reference", "node",
        "activation", "procedure", "program"}
  BY KindsDiffer
<1>2. (CanEncode("size", v) <=> TRUE)
  BY <1>1 DEF CanEncode
<1>3. (CanEncode("bit_string", v) <=> TRUE)
  BY <1>1 DEF CanEncode
<1>4. (CanEncode("var_uint", v) <=> TRUE)
  BY <1>1 DEF CanEncode
<1>5. (CanEncode("var_int", v) <=> TRUE)
  BY <1>1 DEF CanEncode
<1>6. (CanEncode("value", v) <=> CanEncodeValue(v))
  BY <1>1 DEF CanEncode
<1>7. (CanEncode("selector", v) <=> TRUE)
  BY <1>1 DEF CanEncode
<1>8. (CanEncode("reference", v) <=> TRUE)
  BY <1>1 DEF CanEncode
<1>9. (CanEncode("source", v) <=> TRUE)
  BY <1>1 DEF CanEncode
<1>10. (CanEncode("destination", v) <=> CanEncodeDestination(v))
  BY <1>1 DEF CanEncode
<1>11. (CanEncode("runtime_reference", v) <=> CanEncodeRuntimeReference(v))
  BY <1>1 DEF CanEncode
<1>12. (CanEncode("node", v) <=> CanEncodeNode(v))
  BY <1>1 DEF CanEncode
<1>13. (CanEncode("activation", v) <=> CanEncodeActivation(v))
  BY <1>1 DEF CanEncode
<1>14. (CanEncode("procedure", v) <=> TRUE)
  BY <1>1 DEF CanEncode
<1>15. (CanEncode("program", v) <=> CanEncodeProgram(v))
  BY <1>1 DEF CanEncode
<1>16. \A kind \in Commands : CanEncode(kind, v)
  BY <1>1 DEF CanEncode
<1> QED
  BY <1>2, <1>3, <1>4, <1>5, <1>6, <1>7, <1>8, <1>9, <1>10, <1>11, <1>12, <1>13, <1>14, <1>15,
     <1>16

MeetsItem(kind, s, c, v, d) ==
    /\ IsItem(kind, v) /\ CanEncode(kind, v) /\ Between(s, c, d, Encode(kind, v))
    /\ Decode(kind, s, c) = Got(v, d)
Meets(kind, s, c) == Decode(kind, s, c) = Failed(c) \/ \E v, d : MeetsItem(kind, s, c, v, d)

\* Whatever bits a reader takes for an item, they are those of an item of the
\* kind, or the reader fails.
LEMMA ItemMet ==
    ASSUME NEW kind \in Kinds \union Files, NEW s \in Bits, NEW c \in 0..Len(s),
           kind \in Files => c = 0
    PROVE  Meets(kind, s, c)
<1>1. Meets("size", s, c)
  BY SizeMet, DecodeOf, EncodeOf, ItemOf, CanEncodeOf DEF Meets, MeetsItem
<1>2. Meets("bit_string", s, c)
  BY BitStringMet, DecodeOf, EncodeOf, ItemOf, CanEncodeOf DEF Meets, MeetsItem
<1>3. Meets("var_uint", s, c)
  BY VarUintMet, DecodeOf, EncodeOf, ItemOf, CanEncodeOf DEF Meets, MeetsItem
<1>4. Meets("var_int", s, c)
  BY VarIntMet, DecodeOf, EncodeOf, ItemOf, CanEncodeOf DEF Meets, MeetsItem
<1>5. Meets("value", s, c)
  BY ValueMet, DecodeOf, EncodeOf, ItemOf, CanEncodeOf DEF Meets, MeetsItem
<1>6. Meets("selector", s, c)
  BY SelectorMet, DecodeOf, EncodeOf, ItemOf, CanEncodeOf DEF Meets, MeetsItem
<1>7. Meets("reference", s, c)
  BY OperandMet, DecodeOf, EncodeOf, ItemOf, CanEncodeOf DEF Meets, MeetsItem
<1>8. Meets("source", s, c)
  BY SourceMet, DecodeOf, EncodeOf, ItemOf, CanEncodeOf DEF Meets, MeetsItem
<1>9. Meets("destination", s, c)
  BY DestinationMet, DecodeOf, EncodeOf, ItemOf, CanEncodeOf DEF Meets, MeetsItem
<1>10. Meets("runtime_reference", s, c)
  BY ReferenceMet, DecodeOf, EncodeOf, ItemOf, CanEncodeOf DEF Meets, MeetsItem
<1>11. Meets("node", s, c)
  BY NodeMet, DecodeOf, EncodeOf, ItemOf, CanEncodeOf DEF Meets, MeetsItem
<1>12. Meets("activation", s, c)
  BY ActivationMet, DecodeOf, EncodeOf, ItemOf, CanEncodeOf DEF Meets, MeetsItem
<1>13. c = 0 => Meets("procedure", s, c)
  BY ProcedureMet, DecodeOf, EncodeOf, ItemOf, CanEncodeOf DEF Meets, MeetsItem
<1>14. c = 0 => Meets("program", s, c)
  BY ProgramMet, DecodeOf, EncodeOf, ItemOf, CanEncodeOf DEF Meets, MeetsItem
<1>15. ASSUME NEW command \in Commands
       PROVE  Meets(command, s, c)
  <2>1. /\ Decode(command, s, c) = DecodeInstruction(command, s, c)
        /\ \A v : /\ Encode(command, v) = EncodeInstruction(command, v)
                  /\ IsItem(command, v) <=> IsInstruction(command, v)
                  /\ CanEncode(command, v)
    BY DecodeOf, EncodeOf, ItemOf, CanEncodeOf
  <2>2. \/ DecodeInstruction(command, s, c) = Failed(c)
        \/ \E d, v : /\ IsInstruction(command, v)
                     /\ Between(s, c, d, EncodeInstruction(command, v))
                     /\ DecodeInstruction(command, s, c) = Got(v, d)
    BY InstructionMet
  <2> QED
    BY <2>1, <2>2 DEF Meets, MeetsItem
<1> QED
  BY <1>1, <1>2, <1>3, <1>4, <1>5, <1>6, <1>7, <1>8, <1>9, <1>10, <1>11, <1>12, <1>13, <1>14,
     <1>15, KindNames DEF Files

LEMMA NodeWritten ==
    ASSUME NEW n \in NetworkNodes
    PROVE  EncodeNode(n) \in Bits
<1>1. /\ EncodeNode(n) = NodeLinks(NodeHead(n), n) /\ NodeHead(n) \in Bits
      /\ EncodeRuntimeReference(n.next0) \in Bits /\ EncodeRuntimeReference(n.next1) \in Bits
      /\ EncodeRuntimeReference(n.resolver) \in Bits
  BY NodeParts
<1> QED
  BY <1>1, Joined DEF NodeLinks

LEMMA ProgramWritten ==
    ASSUME NEW x \in WrittenImages
    PROVE  EncodeProgram(x) \in Bits
<1>1. PICK n : n = Len(x.registers)
  OBVIOUS
<1>2. PICK p, h : ImageParts(x, n, p, h)
  BY <1>1, ImageWrittenInParts
<1>3. n \in 0..n
  BY <1>1, ImageForm
<1> QED
  BY <1>2, <1>3 DEF ImageParts

LEMMA ItemWritten ==
    ASSUME NEW kind \in Kinds \union Files, NEW v, IsItem(kind, v), CanEncode(kind, v)
    PROVE  Encode(kind, v) \in Bits
<1>1. CASE kind = "size"
  BY <1>1, SizeWritten, EncodeOf, ItemOf, CanEncodeOf
<1>2. CASE kind = "bit_string"
  BY <1>2, BitStringWritten, EncodeOf, ItemOf, CanEncodeOf
<1>3. CASE kind = "var_uint"
  BY <1>3, VarUintWritten, EncodeOf, ItemOf, CanEncodeOf
<1>4. CASE kind = "var_int"
  BY <1>4, VarIntWritten, EncodeOf, ItemOf, CanEncodeOf
<1>5. CASE kind = "value"
  BY <1>5, ValueWritten, EncodeOf, ItemOf, CanEncodeOf
<1>6. CASE kind = "selector"
  BY <1>6, SelectorWritten, EncodeOf, ItemOf, CanEncodeOf
<1>7. CASE kind = "reference"
  BY <1>7, OperandWritten, EncodeOf, ItemOf, CanEncodeOf
<1>8. CASE kind = "source"
  BY <1>8, SourceWritten, EncodeOf, ItemOf, CanEncodeOf
<1>9. CASE kind = "destination"
  BY <1>9, OperandWritten, EncodeOf, ItemOf, CanEncodeOf
<1>10. CASE kind = "runtime_reference"
  BY <1>10, ReferenceWritten, EncodeOf, ItemOf, CanEncodeOf
<1>11. CASE kind = "node"
  BY <1>11, NodeWritten, EncodeOf, ItemOf, CanEncodeOf
<1>12. CASE kind = "activation"
  BY <1>12, ActivationWritten, EncodeOf, ItemOf, CanEncodeOf
<1>13. CASE kind = "procedure"
  BY <1>13, ProcedureForm, EncodeOf, ItemOf, CanEncodeOf
<1>14. CASE kind = "program"
  BY <1>14, ProgramWritten, EncodeOf, ItemOf, CanEncodeOf
<1>15. CASE kind \in Commands
  BY <1>15, InstructionWritten, EncodeOf, ItemOf, CanEncodeOf
<1> QED
  BY <1>1, <1>2, <1>3, <1>4, <1>5, <1>6, <1>7, <1>8, <1>9, <1>10, <1>11, <1>12, <1>13, <1>14,
     <1>15, KindNames

ReadsBack(kind, s, c, v, d) ==
    Decode(kind, s, c) = IF kind \in Files /\ d # Len(s) THEN Failed(0)
                         ELSE Got(Normal(kind, v), d)

\* An item read where it was written is the item that was written.
LEMMA ItemBack ==
    ASSUME NEW kind \in Kinds \union Files, NEW v, IsItem(kind, v), CanEncode(kind, v),
           NEW s, NEW c, NEW d, Between(s, c, d, Encode(kind, v)), kind \in Files => c = 0
    PROVE  ReadsBack(kind, s, c, v, d)
<1>0. /\ \A k \in Kinds : k \notin Files
      /\ \A k : k # "value" => Normal(k, v) = v
  BY CommandNames DEF Kinds, Files, Normal
<1>1. CASE kind = "size"
  BY <1>0, <1>1, SizeBack, DecodeOf, EncodeOf, ItemOf, CanEncodeOf DEF ReadsBack, Files
<1>2. CASE kind = "bit_string"
  BY <1>0, <1>2, BitStringBack, DecodeOf, EncodeOf, ItemOf, CanEncodeOf DEF ReadsBack, Files
<1>3. CASE kind = "var_uint"
  BY <1>0, <1>3, VarUintBack, DecodeOf, EncodeOf, ItemOf, CanEncodeOf DEF ReadsBack, Files
<1>4. CASE kind = "var_int"
  BY <1>0, <1>4, VarIntBack, DecodeOf, EncodeOf, ItemOf, CanEncodeOf DEF ReadsBack, Files
<1>5. CASE kind = "value"
  BY <1>0, <1>5, ValueBack, DecodeOf, EncodeOf, ItemOf, CanEncodeOf DEF ReadsBack, Files, Normal
<1>6. CASE kind = "selector"
  BY <1>0, <1>6, SelectorBack, DecodeOf, EncodeOf, ItemOf, CanEncodeOf DEF ReadsBack, Files
<1>7. CASE kind = "reference"
  BY <1>0, <1>7, OperandBack, DecodeOf, EncodeOf, ItemOf, CanEncodeOf DEF ReadsBack, Files
<1>8. CASE kind = "source"
  BY <1>0, <1>8, SourceBack, DecodeOf, EncodeOf, ItemOf, CanEncodeOf DEF ReadsBack, Files
<1>9. CASE kind = "destination"
  BY <1>0, <1>9, DestinationBack, DecodeOf, EncodeOf, ItemOf, CanEncodeOf DEF ReadsBack, Files
<1>10. CASE kind = "runtime_reference"
  BY <1>0, <1>10, ReferenceBack, DecodeOf, EncodeOf, ItemOf, CanEncodeOf DEF ReadsBack, Files
<1>11. CASE kind = "node"
  BY <1>0, <1>11, NodeBack, DecodeOf, EncodeOf, ItemOf, CanEncodeOf DEF ReadsBack, Files
<1>12. CASE kind = "activation"
  BY <1>0, <1>12, ActivationBack, DecodeOf, EncodeOf, ItemOf, CanEncodeOf DEF ReadsBack, Files
<1>13. CASE kind = "procedure"
  BY <1>0, <1>13, ProcedureBack, DecodeOf, EncodeOf, ItemOf, CanEncodeOf DEF ReadsBack, Files
<1>14. CASE kind = "program"
  BY <1>0, <1>14, ProgramBack, DecodeOf, EncodeOf, ItemOf, CanEncodeOf DEF ReadsBack, Files
<1>15. CASE kind \in Commands
  BY <1>0, <1>15, InstructionBack, InstructionAssumption, DecodeOf, EncodeOf, ItemOf,
     CanEncodeOf, CommandNames DEF ReadsBack, Files
<1> QED
  BY <1>1, <1>2, <1>3, <1>4, <1>5, <1>6, <1>7, <1>8, <1>9, <1>10, <1>11, <1>12, <1>13, <1>14,
     <1>15, KindNames

-----------------------------------------------------------------------------
(* Doubles                                                                 *)

LEMMA PowersAdd ==
    ASSUME NEW m \in Nat, NEW n \in Nat
    PROVE  2^(m + n) = 2^m * 2^n /\ 2^m \in Nat /\ 2^n \in Nat /\ 2^m > 0 /\ 2^n > 0
<1> DEFINE S == {k \in Nat : 2^(m + k) = 2^m * 2^k}
<1>1. 0 \in S
  BY PowerDoubles, PowerOfZero
<1>2. ASSUME NEW k \in Nat, k \in S
      PROVE  k + 1 \in S
  <2>1. 2^(m + k) = 2^m * 2^k
    BY <1>2
  <2>2. 2^((m + k) + 1) = 2 * 2^(m + k) /\ 2^(k + 1) = 2 * 2^k
    BY PowerDoubles
  <2>3. PICK a, b, c : a = 2^m /\ b = 2^k /\ c = 2^(m + k)
    OBVIOUS
  <2>4. a \in Nat /\ b \in Nat /\ c \in Nat
    BY <2>3, PowerDoubles
  <2>5. 2 * c = a * (2 * b)
    BY <2>1, <2>3, <2>4
  <2>6. (m + k) + 1 = m + (k + 1)
    OBVIOUS
  <2>7. 2^(m + (k + 1)) = 2^m * 2^(k + 1)
    BY <2>2, <2>3, <2>5, <2>6
  <2> QED
    BY <2>7
<1>3. n \in S
  <2> HIDE DEF S
  <2> QED
    BY <1>1, <1>2, Induction
<1> QED
  BY <1>3, PowerDoubles

LEMMA ArithmeticNumbers ==
    /\ Precision \in Nat /\ Precision > 0 /\ Quantum \in Nat /\ Quantum > 0 /\ Scales \in Nat
    /\ Scales > 0 /\ Quantum <= Scales /\ Precision < Word
    /\ IntLimit \in Nat /\ IntLimit < 2^(Word - 1)
    /\ IntLimit >= Precision + Scales - Quantum /\ IntLimit >= Word + Quantum + 1
    /\ 2^Precision \in Nat /\ 2^Precision > 0 /\ Infinity \in Nat /\ Infinity > 0
    /\ 2^Quantum \in Nat /\ 2^Quantum > 0
<1>1. Precision \in Nat \ {0} /\ Quantum \in Nat \ {0} /\ Scales \in Nat \ {0}
  BY ArithmeticAssumption
<1>2. /\ 2^Precision \in Nat /\ 2^Precision > 0 /\ Infinity \in Nat /\ Infinity > 0
      /\ 2^Quantum \in Nat /\ 2^Quantum > 0
  BY <1>1, PowerDoubles DEF Infinity
<1> QED
  BY <1>1, <1>2, ArithmeticAssumption

Fractions == -(2^Precision - 1)..(2^Precision - 1)

LEMMA DoubleForms ==
    /\ \A d \in Doubles : \E m \in Fractions, k \in 0..Scales : d = m * 2^k
    /\ \A m \in Fractions, k \in 0..Scales : m * 2^k \in Doubles
<1>1. 2^Precision \in Nat /\ 2^Precision > 0 /\ \A k \in 0..Scales : 2^k \in Nat
  BY ArithmeticNumbers, PowerDoubles
<1>2. ASSUME NEW d \in Doubles
      PROVE  \E m \in Fractions, k \in 0..Scales : d = m * 2^k
  <2>1. CASE d \in Magnitudes
    BY <1>1, <2>1 DEF Magnitudes, Fractions
  <2>2. CASE d \notin Magnitudes
    <3>1. PICK e \in Magnitudes : d = -e
      BY <2>2 DEF Doubles
    <3>2. PICK m \in 0..(2^Precision - 1), k \in 0..Scales : e = m * 2^k
      BY DEF Magnitudes
    <3>3. -m \in Fractions
      BY <1>1, <3>2 DEF Fractions
    <3>4. PICK p : p = 2^k
      OBVIOUS
    <3>5. p \in Nat
      BY <1>1, <3>4
    <3>6. d = (-m) * p
      BY <3>1, <3>2, <3>4, <3>5
    <3> QED
      BY <3>3, <3>4, <3>6
  <2> QED
    BY <2>1, <2>2
<1>3. ASSUME NEW m \in Fractions, NEW k \in 0..Scales
      PROVE  m * 2^k \in Doubles
  <2>1. CASE m >= 0
    BY <1>1, <2>1 DEF Doubles, Magnitudes, Fractions
  <2>2. CASE ~(m >= 0)
    <3>1. PICK p, j : p = 2^k /\ j = -m
      OBVIOUS
    <3>2. p \in Nat /\ j \in 0..(2^Precision - 1) /\ m \in Int
      BY <1>1, <2>2, <3>1 DEF Fractions
    <3>3. j * p \in Magnitudes
      BY <3>1, <3>2 DEF Magnitudes
    <3>4. m * p = -(j * p)
      BY <3>1, <3>2
    <3> QED
      BY <3>1, <3>3, <3>4 DEF Doubles
  <2> QED
    BY <2>1, <2>2
<1> QED
  BY <1>2, <1>3

LEMMA TimesAtMost ==
    ASSUME NEW a \in Nat, NEW b \in Nat, NEW p \in Nat, a <= b
    PROVE  a * p <= b * p
<1>1. PICK j, t : j = b - a /\ t = j * p
  OBVIOUS
<1>2. j \in Nat /\ b = a + j
  BY <1>1
<1>3. t \in Nat
  BY <1>1, <1>2
<1>4. b * p = a * p + t
  BY <1>1, <1>2
<1>5. a * p \in Nat
  OBVIOUS
<1> QED
  BY <1>3, <1>4, <1>5

LEMMA FiniteNumbers ==
    /\ \A d \in Numbers : d \in Int /\ -Infinity <= d /\ d <= Infinity
    /\ \A d \in Doubles : d \in Numbers /\ d \in Int /\ IsFinite(d)
    /\ \A d \in Numbers : IsFinite(d) => d \in Doubles
    /\ 0 \in Doubles /\ Infinity \in Numbers /\ -Infinity \in Numbers
<1>1. ASSUME NEW d \in Doubles
      PROVE  d \in Int /\ -Infinity < d /\ d < Infinity
  <2>1. PICK m \in Fractions, k \in 0..Scales : d = m * 2^k
    BY DoubleForms
  <2>2. PICK p, q, r : p = 2^k /\ q = 2^Precision /\ r = 2^Scales
    OBVIOUS
  <2>3. p \in Nat /\ p > 0 /\ q \in Nat /\ q > 0 /\ r \in Nat /\ p <= r /\ Infinity = q * r
        /\ Infinity \in Nat
    <3>1. Precision \in Nat /\ Scales \in Nat /\ k \in Nat /\ k <= Scales /\ Infinity \in Nat
      BY ArithmeticNumbers
    <3>2. p \in Nat /\ p > 0 /\ r \in Nat /\ p <= r
      BY <2>2, <3>1, PowerDoubles, PowerGrows
    <3>3. 2^(Precision + Scales) = 2^Precision * 2^Scales /\ q \in Nat /\ q > 0
      BY <2>2, <3>1, PowersAdd
    <3> QED
      BY <2>2, <3>1, <3>2, <3>3 DEF Infinity
  <2>4. m \in Int /\ m < q /\ -m < q
    BY <2>1, <2>2, <2>3 DEF Fractions
  <2>5. q * p <= q * r
    <3>1. p * q <= r * q
      BY <2>3, TimesAtMost
    <3> QED
      BY <2>3, <3>1
  <2>6. m * p < q * p /\ -(m * p) < q * p
    <3>1. m + 1 <= q /\ -m + 1 <= q
      BY <2>3, <2>4
    <3>2. PICK a, b : a = q - m /\ b = q + m
      OBVIOUS
    <3>3. a \in Nat /\ a >= 1 /\ b \in Nat /\ b >= 1
      BY <2>3, <2>4, <3>1, <3>2
    <3>4. 1 * p <= a * p /\ 1 * p <= b * p
      BY <2>3, <3>3, TimesAtMost
    <3>5. a * p = q * p - m * p /\ b * p = q * p + m * p
      BY <2>3, <2>4, <3>2
    <3>6. q * p \in Int /\ m * p \in Int
      BY <2>3, <2>4
    <3> QED
      BY <2>3, <3>4, <3>5, <3>6
  <2>7. d = m * p /\ m * p \in Int /\ q * p \in Int
    BY <2>1, <2>2, <2>3, <2>4
  <2> QED
    BY <2>3, <2>5, <2>6, <2>7
<1>2. 0 \in Doubles
  <2>1. 0 \in Fractions /\ 0 \in 0..Scales
    BY ArithmeticNumbers DEF Fractions
  <2>2. 0 * 2^0 = 0
    BY PowerOfZero
  <2> QED
    BY <2>1, <2>2, DoubleForms
<1>3. Infinity \in Nat /\ Infinity > 0
  BY ArithmeticNumbers
<1> QED
  BY <1>1, <1>2, <1>3 DEF Numbers, IsFinite, Abs

-----------------------------------------------------------------------------
(* Rounding gives a number                                                 *)

LEMMA BoundedInts ==
    ASSUME NEW n \in Nat, NEW S \in SUBSET (-n..n), S # {}
    PROVE  Min(S) \in S /\ Max(S) \in S /\ \A j \in S : Min(S) <= j /\ j <= Max(S)
<1>1. PICK i \in S : TRUE
  OBVIOUS
<1> DEFINE L == {j \in Nat : j - n \in S}
           U == {j \in Nat : n - j \in S}
<1>2. L \in SUBSET Nat /\ i + n \in L
  BY <1>1
<1>3. U \in SUBSET Nat /\ n - i \in U
  BY <1>1
<1>4. PICK a \in L : \A j \in L : ~(j < a)
  <2> HIDE DEF L
  <2> QED
    BY <1>2, LeastNumber
<1>5. PICK b \in U : \A j \in U : ~(j < b)
  <2> HIDE DEF U
  <2> QED
    BY <1>3, LeastNumber
<1>6. ASSUME NEW j \in S
      PROVE  a - n <= j /\ j <= n - b
  <2>1. j \in Int /\ j + n \in L /\ n - j \in U
    OBVIOUS
  <2>2. ~(j + n < a) /\ ~(n - j < b)
    BY <1>4, <1>5, <2>1
  <2>3. a \in Nat /\ b \in Nat
    OBVIOUS
  <2> HIDE DEF L, U
  <2> QED
    BY <2>1, <2>2, <2>3
<1>7. a - n \in S /\ n - b \in S
  BY <1>4, <1>5
<1> HIDE DEF L, U
<1>8. PICK x, y : x = a - n /\ y = n - b
  OBVIOUS
<1>9. x \in S /\ y \in S /\ \A j \in S : x <= j /\ j <= y
  BY <1>6, <1>7, <1>8
<1>10. (CHOOSE z \in S : \A j \in S : z <= j) \in S
       /\ \A j \in S : (CHOOSE z \in S : \A k \in S : z <= k) <= j
  BY <1>9
<1>11. (CHOOSE z \in S : \A j \in S : z >= j) \in S
       /\ \A j \in S : (CHOOSE z \in S : \A k \in S : z >= k) >= j
  <2>1. \A j \in S : y >= j
    BY <1>9
  <2> QED
    BY <1>9, <2>1
<1>12. \A j \in S : j \in Int
  OBVIOUS
<1>13. Min(S) \in S /\ \A j \in S : Min(S) <= j
  BY <1>10 DEF Min
<1>14. Max(S) \in S /\ \A j \in S : Max(S) >= j
  BY <1>11 DEF Max
<1> QED
  BY <1>12, <1>13, <1>14

LEMMA RoundedIsNumber ==
    ASSUME NEW numerator \in Int, NEW denominator \in Nat, denominator > 0
    PROVE  Rounded(numerator, denominator) \in Numbers
<1> DEFINE quotient == numerator \div denominator
           Distance(d) == Abs(d * denominator - numerator)
           all == {Distance(d) : d \in Numbers}
           least == Min(all)
           Nearest == {d \in Numbers : Distance(d) = least}
           below == Min(Nearest)
           above == Max(Nearest)
<1>1. \A d \in Numbers : Distance(d) \in Nat
  <2> SUFFICES ASSUME NEW d \in Numbers
               PROVE  Distance(d) \in Nat
    OBVIOUS
  <2>1. d \in Int
    BY FiniteNumbers
  <2>2. d * denominator - numerator \in Int
    BY <2>1
  <2> QED
    BY <2>2 DEF Abs
<1>2. all \in SUBSET Nat /\ all # {}
  <2>1. 0 \in Numbers
    BY FiniteNumbers
  <2> HIDE DEF Distance
  <2> QED
    BY <1>1, <2>1
<1>3. least \in all
  <2> HIDE DEF all
  <2> QED
    BY <1>2, MinOfNumbers
<1>4. Nearest # {}
  <2> HIDE DEF Distance, least
  <2> QED
    BY <1>3
<1>5. Nearest \in SUBSET Numbers /\ Infinity \in Nat
  BY ArithmeticNumbers
<1>6. Nearest \in SUBSET (-Infinity..Infinity)
  <2> HIDE DEF Nearest
  <2>1. \A d \in Numbers : d \in -Infinity..Infinity
    BY <1>5, FiniteNumbers
  <2> QED
    BY <1>5, <2>1
<1>7. below \in Numbers /\ above \in Numbers
  <2> HIDE DEF Nearest
  <2> QED
    BY <1>4, <1>5, <1>6, BoundedInts
<1>8. Rounded(numerator, denominator) =
          IF quotient \in Doubles /\ quotient * denominator = numerator THEN quotient
          ELSE IF below = above \/ (below \div (above - below)) % 2 = 0 THEN below
          ELSE above
  BY DEF Rounded
<1> HIDE DEF below, above, quotient
<1> QED
  BY <1>7, <1>8, FiniteNumbers

LEMMA RoundedExactly ==
    ASSUME NEW d \in Doubles, NEW b \in Nat, b > 0, NEW n, n = d * b
    PROVE  Rounded(n, b) = d
<1>1. d \in Int
  BY FiniteNumbers
<1>2. n \in Int /\ n = b * d + 0
  BY <1>1
<1>3. n \div b = d
  BY <1>1, <1>2, Quotient
<1>4. (n \div b) \in Doubles /\ (n \div b) * b = n
  BY <1>1, <1>2, <1>3
<1>5. Rounded(n, b) = n \div b
  BY <1>4 DEF Rounded
<1> QED
  BY <1>3, <1>5

-----------------------------------------------------------------------------
(* A float made of a double reads back as that double                      *)

LEMMA Cancel ==
    ASSUME NEW a \in Nat, a > 0, NEW x \in Int, NEW y \in Int, a * x = a * y
    PROVE  x = y
<1>1. a * x = a * y + 0 /\ a * x \in Int
  OBVIOUS
<1>2. (a * x) \div a = y
  BY <1>1, Quotient
<1>3. a * x = a * x + 0
  OBVIOUS
<1>4. (a * x) \div a = x
  BY <1>1, <1>3, Quotient
<1> QED
  BY <1>2, <1>4

\* A product is at least as large as a factor.
LEMMA FactorAtMost ==
    ASSUME NEW b \in Nat, b > 0, NEW q \in Int
    PROVE  /\ q >= 0 => q <= b * q
           /\ q <= 0 => b * q <= q
<1>1. PICK j, t : j = b - 1 /\ t = j * q
  OBVIOUS
<1>2. j \in Nat /\ b = j + 1
  BY <1>1
<1>3. b * q = t + q /\ t \in Int
  BY <1>1, <1>2
<1>4. (q >= 0 => t >= 0) /\ (q <= 0 => t <= 0)
  BY <1>1, <1>2
<1> QED
  BY <1>3, <1>4

LEMMA FromDoubleForm ==
    ASSUME NEW d \in Doubles, d # 0
    PROVE  \E q \in Fractions, t \in 0..(Precision + Scales - 1) :
               d = q * 2^t /\ q # 0 /\ FromDouble(d) = Float(q, t - Quantum)
<1>1. PICK m \in Fractions, k \in 0..Scales : d = m * 2^k
  BY DoubleForms
<1>2. PICK w : w = Precision + Scales
  OBVIOUS
<1>3. w \in Nat /\ k \in 0..w /\ k < w /\ d \in Int /\ m \in Int /\ Infinity = 2^w
      /\ -Infinity < d /\ d < Infinity
  <2>1. Precision \in Nat /\ Scales \in Nat /\ Precision > 0 /\ 2^Precision \in Nat
        /\ Infinity \in Nat
    BY ArithmeticNumbers
  <2>2. IsFinite(d) /\ d \in Int
    BY FiniteNumbers
  <2>3. m \in Int
    BY <2>1 DEF Fractions
  <2> QED
    BY <1>2, <2>1, <2>2, <2>3 DEF IsFinite, Abs, Infinity
<1> DEFINE S == {j \in 0..w : d % 2^j = 0}
<1>4. \A j \in 0..w : 2^j \in Nat /\ 2^j > 0
  BY <1>3, PowerDoubles
<1>5. k \in S
  <2>1. PICK p : p = 2^k
    OBVIOUS
  <2>2. p \in Nat /\ p > 0 /\ d = p * m
    BY <1>1, <1>3, <1>4, <2>1
  <2>3. d % p = 0
    BY <1>3, <2>2, Multiple
  <2> QED
    BY <1>3, <2>1, <2>3
<1>6. PICK t : t = Max(S)
  OBVIOUS
<1>7. t \in S /\ k <= t
  <2>1. S \in SUBSET (0..w) /\ S # {}
    BY <1>5
  <2>2. k \in S
    BY <1>5
  <2> HIDE DEF S
  <2> QED
    BY <1>3, <1>6, <2>1, <2>2, MaxOfNumbers
<1>8. t \in 0..w /\ d % 2^t = 0
  BY <1>7
<1>9. PICK q \in Int : d = 2^t * q
  BY <1>3, <1>4, <1>8, Multiple
<1>10. q # 0
  <2>1. 2^t * 0 = 0
    BY <1>4, <1>8
  <2> QED
    BY <1>9, <2>1
<1>11. q \in Fractions
  <2>1. PICK j, a, b : j = t - k /\ a = 2^k /\ b = 2^j
    OBVIOUS
  <2>2. j \in Nat /\ t = k + j /\ k \in Nat
    BY <1>3, <1>7, <1>8, <2>1
  <2>3. 2^t = a * b /\ a \in Nat /\ a > 0 /\ b \in Nat /\ b > 0
    BY <2>1, <2>2, PowersAdd
  <2>4. PICK x : x = b * q
    OBVIOUS
  <2>5. x \in Int /\ a * m = a * x
    <3>1. (a * b) * q = a * x /\ x \in Int
      BY <2>3, <2>4
    <3> QED
      BY <1>1, <1>3, <1>9, <2>1, <2>3, <3>1
  <2>6. m = x
    BY <1>3, <2>3, <2>5, Cancel
  <2>7. (q >= 0 => q <= m) /\ (q <= 0 => m <= q)
    BY <2>3, <2>4, <2>6, FactorAtMost
  <2>8. 2^Precision \in Nat
    BY ArithmeticNumbers
  <2> QED
    BY <2>7, <2>8 DEF Fractions
<1>12. t < w
  <2> SUFFICES ASSUME t = w
               PROVE  FALSE
    BY <1>3, <1>8
  <2>1. PICK b : b = 2^w
    OBVIOUS
  <2>2. b \in Nat /\ b > 0 /\ d = b * q
    BY <1>3, <1>4, <1>9, <2>1
  <2>3. PICK j : j = IF q > 0 THEN q - 1 ELSE -q - 1
    OBVIOUS
  <2>4. j \in Nat /\ (q = j + 1 \/ q = -(j + 1))
    BY <1>10, <2>3
  <2>5. b * j \in Nat
    BY <2>2, <2>4
  <2>6. d = b * j + b \/ d = -(b * j + b)
    BY <2>2, <2>4
  <2> QED
    BY <1>3, <2>1, <2>2, <2>5, <2>6
<1>13. FromDouble(d) = Float(q, t - Quantum)
  <2>1. FromDouble(d) = Float(d \div 2^t, t - Quantum)
    BY <1>2, <1>6 DEF FromDouble
  <2>2. PICK b : b = 2^t
    OBVIOUS
  <2>3. b \in Nat /\ b > 0 /\ d = b * q + 0
    BY <1>3, <1>4, <1>8, <1>9, <2>2
  <2>4. d \div b = q
    BY <1>3, <2>3, Quotient
  <2> QED
    BY <2>1, <2>2, <2>4
<1>14. d = q * 2^t /\ t \in 0..(w - 1)
  <2>1. 2^t \in Nat
    BY <1>4, <1>8
  <2> QED
    BY <1>3, <1>8, <1>9, <1>12, <2>1
<1>15. t \in 0..(Precision + Scales - 1)
  <2>1. Precision \in Nat /\ Scales \in Nat
    BY ArithmeticNumbers
  <2> QED
    BY ONLY <1>2, <1>3, <1>14, <2>1
<1> QED
  BY ONLY <1>10, <1>11, <1>13, <1>14, <1>15

-----------------------------------------------------------------------------
(* What COMPUTE gives.                                                     *)

(* frexp and ldexp are each other's inverse: from_double loses nothing of  *)
(* a double, and the float it makes fits its fields.                       *)
LEMMA DoubleBack ==
    ASSUME NEW d \in Doubles
    PROVE  FromDouble(d) \in Floats /\ AsDouble(FromDouble(d)) = d
<1>1. /\ Quantum \in Nat /\ IntLimit \in Nat /\ IntLimit >= Precision + Scales - Quantum
      /\ IntLimit >= Word + Quantum + 1 /\ IntLimit < 2^(Word - 1) /\ Precision \in Nat
      /\ Scales \in Nat /\ Precision < Word /\ Quantum <= Scales /\ Word \in Nat /\ Word > 0
      /\ 2^Quantum \in Nat /\ 2^Quantum > 0
  BY ArithmeticNumbers, WordIsNat
<1>2. PICK h : h = 2^(Word - 1)
  OBVIOUS
<1>3. h \in Nat /\ h > 0 /\ Ints = -h..(h - 1) /\ IntLimit < h
  BY <1>1, <1>2, HalfWords
<1>4. CASE d = 0
  <2>1. FromDouble(d) = Float(0, 0)
    BY <1>4 DEF FromDouble
  <2>2. 0 \in Ints
    BY <1>3
  <2>3. Float(0, 0) \in Floats
    BY <2>2 DEF Float, Floats
  <2>4. PICK p : p = 2^Quantum
    OBVIOUS
  <2>5. 0 * p = 0 /\ 0 * 2^0 = 0 /\ 0 = 0 * 1
    BY <1>1, <2>4, PowerOfZero
  <2>6. 0 \in Doubles
    BY FiniteNumbers
  <2>7. Rounded(0, 1) = 0
    BY <2>5, <2>6, RoundedExactly
  <2>8. AsDouble(Float(0, 0)) = Rounded(Rounded(0 * p, 1) * 2^0, 1)
    BY <1>1, <2>4 DEF AsDouble, Float
  <2> QED
    BY <1>4, <2>1, <2>3, <2>5, <2>7, <2>8
<1>5. CASE d # 0
  <2>1. PICK q \in Fractions, t \in 0..(Precision + Scales - 1) :
            d = q * 2^t /\ q # 0 /\ FromDouble(d) = Float(q, t - Quantum)
    BY <1>5, FromDoubleForm
  <2>2. PICK f, e : f = Float(q, e) /\ e = t - Quantum
    OBVIOUS
  <2>3. t \in Nat /\ e \in Int /\ e < IntLimit /\ e >= -Quantum /\ -IntLimit <= e
    BY <1>1, <2>1, <2>2
  <2>4. q \in Ints /\ q \in Int
    <3>1. 2^Precision \in Nat /\ 2^Precision <= h
      BY <1>1, <1>2, PowerGrows
    <3> QED
      BY <1>3, <2>1, <3>1 DEF Fractions
  <2>5. e \in Ints
    BY <1>3, <1>1, <2>3
  <2>6. f \in Floats
    BY <2>2, <2>4, <2>5 DEF Float, Floats
  <2>7. f.float /\ f.m = q /\ f.e = e
    BY <2>2 DEF Float
  <2>8. PICK p, x : p = 2^Quantum /\ x = q * p
    OBVIOUS
  <2>9. p \in Nat /\ p > 0 /\ x \in Int /\ x = x * 1
    BY <1>1, <2>4, <2>8
  <2>10. x \in Doubles
    <3>1. Quantum \in 0..Scales
      BY <1>1
    <3> QED
      BY <2>1, <2>8, <3>1, DoubleForms
  <2>11. Rounded(x, 1) = x
    BY <2>9, <2>10, RoundedExactly
  <2>12. CASE e >= 0
    <3>1. AsDouble(f) = Rounded(Rounded(q * 2^Quantum, 1) * 2^e, 1)
      BY <1>1, <2>3, <2>7, <2>12 DEF AsDouble
    <3>2. PICK r : r = 2^e
      OBVIOUS
    <3>3. e \in Nat /\ t = Quantum + e
      BY <1>1, <2>2, <2>3, <2>12
    <3>4. 2^t = p * r /\ r \in Nat
      BY <1>1, <2>8, <3>2, <3>3, PowersAdd
    <3>5. x * r = q * (p * r)
      BY <2>4, <2>8, <2>9, <3>4
    <3>6. d = x * r /\ d \in Int
      BY <2>1, <3>4, <3>5, FiniteNumbers
    <3>7. d = d * 1
      BY <3>6
    <3>8. Rounded(d, 1) = d
      BY <3>7, RoundedExactly
    <3> QED
      BY <2>1, <2>2, <2>6, <2>8, <2>11, <3>1, <3>2, <3>6, <3>8
  <2>13. CASE e < 0
    <3>1. AsDouble(f) = Rounded(Rounded(q * 2^Quantum, 1), 2^(-e))
      BY <1>1, <2>3, <2>7, <2>13 DEF AsDouble
    <3>2. PICK j, r, u : j = -e /\ r = 2^j /\ u = 2^t
      OBVIOUS
    <3>3. j \in Nat /\ Quantum = t + j
      BY <1>1, <2>2, <2>3, <2>13, <3>2
    <3>4. p = u * r /\ r \in Nat /\ r > 0 /\ u \in Nat
      BY <2>3, <2>8, <3>2, <3>3, PowersAdd
    <3>5. q * (u * r) = (q * u) * r
      BY <2>4, <3>4
    <3>6. x = d * r
      BY <2>1, <2>8, <3>2, <3>4, <3>5
    <3>7. Rounded(x, r) = d
      BY <3>4, <3>6, RoundedExactly
    <3> QED
      BY <2>1, <2>2, <2>6, <2>8, <2>11, <3>1, <3>2, <3>7
  <2> QED
    BY <2>3, <2>12, <2>13
<1> QED
  BY <1>4, <1>5

(* Whatever a value is, as_double makes a double of it, or infinity. *)
LEMMA AsDoubleIn ==
    ASSUME NEW v \in Values
    PROVE  AsDouble(v) \in Numbers
<1>1. /\ IntLimit \in Nat /\ 2^Quantum \in Nat /\ Infinity \in Nat
  BY ArithmeticNumbers
<1>2. PICK p : p = 2^Quantum
  OBVIOUS
<1>3. CASE v \in WordValues
  <2>1. ~v.float /\ v.n \in Words
    BY <1>3 DEF WordValues
  <2>2. PICK n : n = v.n * p
    OBVIOUS
  <2>3. n \in Int
    <3>1. v.n \in Int
      BY <2>1, WordIsNat, PowerDoubles DEF Words
    <3> QED
      BY <1>1, <1>2, <2>2, <3>1
  <2>4. AsDouble(v) = Rounded(n, 1)
    BY <1>2, <2>1, <2>2 DEF AsDouble
  <2> QED
    BY <2>3, <2>4, RoundedIsNumber
<1>4. CASE v \in Floats
  <2>1. v.float /\ v.m \in Int /\ v.e \in Int
    BY <1>4, HalfWords DEF Floats
  <2>2. PICK n, x, e : n = v.m * p /\ x = Rounded(n, 1) /\ e = v.e
    OBVIOUS
  <2>3. n \in Int /\ x \in Int
    <3>1. n \in Int
      BY <1>1, <1>2, <2>1, <2>2
    <3> QED
      BY <2>2, <3>1, RoundedIsNumber, FiniteNumbers
  <2>4. CASE e >= IntLimit
    <3>1. AsDouble(v) = Sign(v.m) * Infinity
      BY <1>1, <2>1, <2>2, <2>4 DEF AsDouble
    <3>2. AsDouble(v) \in {Infinity, -Infinity}
      BY <1>1, <3>1 DEF Sign
    <3> QED
      BY <3>2 DEF Numbers
  <2>5. CASE e < -IntLimit
    <3>1. AsDouble(v) = 0
      BY <1>1, <2>1, <2>2, <2>5 DEF AsDouble
    <3> QED
      BY <3>1, FiniteNumbers
  <2>6. CASE e \in 0..(IntLimit - 1)
    <3>1. AsDouble(v) = Rounded(x * 2^e, 1)
      BY <1>1, <1>2, <2>1, <2>2, <2>6 DEF AsDouble
    <3>2. PICK r, y : r = 2^e /\ y = x * r
      OBVIOUS
    <3>3. r \in Nat
      BY <1>1, <2>6, <3>2, PowerDoubles
    <3>4. y \in Int
      BY <2>3, <3>2, <3>3
    <3> QED
      BY <3>1, <3>2, <3>4, RoundedIsNumber
  <2>7. CASE e \in -IntLimit..-1
    <3>1. AsDouble(v) = Rounded(x, 2^(-e))
      BY <1>1, <1>2, <2>1, <2>2, <2>7 DEF AsDouble
    <3>2. PICK j : j = -e
      OBVIOUS
    <3>3. j \in Nat
      BY <1>1, <2>7, <3>2
    <3>4. 2^j \in Nat /\ 2^j > 0
      BY <3>3, PowerDoubles
    <3> QED
      BY <2>3, <3>1, <3>2, <3>4, RoundedIsNumber
  <2> QED
    BY <1>1, <2>1, <2>2, <2>4, <2>5, <2>6, <2>7
<1> QED
  BY <1>3, <1>4 DEF Values

RemainderScales(c, x, y) == (c * x) % (c * y) = c * (x % y)

LEMMA ScaledRemainder ==
    ASSUME NEW c \in Nat, c > 0, NEW x \in Nat, NEW y \in Nat, y > 0
    PROVE  RemainderScales(c, x, y)
<1>1. PICK q, r : q = x \div y /\ r = x % y
  OBVIOUS
<1>2. q \in Int /\ r \in 0..(y - 1) /\ x = y * q + r
  BY <1>1, DividedInt
<1>3. PICK b, t, j : b = c * y /\ t = c * r /\ j = y - 1 - r
  OBVIOUS
<1>4. j \in Nat /\ c * j \in Nat /\ t \in Nat /\ b = t + c * j + c
  BY <1>2, <1>3
<1>5. b \in Nat /\ b > 0 /\ t \in 0..(b - 1)
  BY <1>4
<1>6. c * x = b * q + t
  <2>1. c * (y * q + r) = (c * y) * q + c * r
    BY <1>2
  <2> QED
    BY <1>2, <1>3, <2>1
<1>7. c * x \in Int
  OBVIOUS
<1>8. (c * x) % b = t
  BY <1>2, <1>5, <1>6, <1>7, RemainderIs
<1> QED
  BY ONLY <1>1, <1>3, <1>8 DEF RemainderScales

(* The magnitude of a double is the magnitude of its fraction, shifted. *)
LEMMA MagnitudeOf ==
    ASSUME NEW d \in Doubles
    PROVE  \E m \in 0..(2^Precision - 1), k \in 0..Scales : Abs(d) = m * 2^k
<1>1. PICK q \in Fractions, k \in 0..Scales : d = q * 2^k
  BY DoubleForms
<1>2. 2^k \in Nat /\ 2^Precision \in Nat
  BY ArithmeticNumbers, PowerDoubles
<1>3. PICK p, m : p = 2^k /\ m = IF q < 0 THEN -q ELSE q
  OBVIOUS
<1>4. q \in Int /\ m \in 0..(2^Precision - 1) /\ p \in Nat
  BY <1>2, <1>3 DEF Fractions
<1>5. m * p \in Nat /\ (d = m * p \/ d = -(m * p))
  BY <1>1, <1>3, <1>4
<1>6. Abs(d) = m * p
  BY <1>5 DEF Abs
<1> QED
  BY <1>3, <1>4, <1>6

(* fmod: the remainder of two doubles is a double. *)
LEMMA RemainderIsDouble ==
    ASSUME NEW a \in Doubles, NEW b \in Doubles, b # 0
    PROVE  Sign(a) * (Abs(a) % Abs(b)) \in Doubles
<1> DEFINE F == 0..(2^Precision - 1)
<1>1. PICK m \in F, k \in 0..Scales : Abs(a) = m * 2^k
  BY MagnitudeOf
<1>2. PICK n \in F, j \in 0..Scales : Abs(b) = n * 2^j
  BY MagnitudeOf
<1>3. F \subseteq Nat /\ \A x \in F : x \in Fractions /\ -x \in Fractions
  BY ArithmeticNumbers DEF Fractions
<1>4. \A x \in F : \A y \in Nat : y <= x => y \in F
  BY ArithmeticNumbers
<1> HIDE DEF F
<1>5. m \in Nat /\ n \in Nat /\ k \in Nat /\ j \in Nat
  BY <1>3, ArithmeticNumbers
<1>6. b \in Int /\ Abs(b) # 0
  BY FiniteNumbers DEF Abs
<1>7. n > 0
  <2> SUFFICES ASSUME n = 0
               PROVE  FALSE
    BY <1>5
  <2>1. 2^j \in Nat
    BY <1>5, PowerDoubles
  <2> QED
    BY <1>2, <1>6, <2>1
<1>8. PICK r, e : r \in F /\ e \in 0..Scales /\ Abs(a) % Abs(b) = r * 2^e
  <2>1. CASE k >= j
    <3>1. PICK g, u, c : g = k - j /\ u = 2^g /\ c = 2^j
      OBVIOUS
    <3>2. g \in Nat /\ k = j + g
      BY <1>5, <2>1, <3>1
    <3>3. 2^k = c * u /\ c \in Nat /\ c > 0 /\ u \in Nat
      BY <1>5, <3>1, <3>2, PowersAdd
    <3>4. PICK x : x = m * u
      OBVIOUS
    <3>5. x \in Nat /\ m * (c * u) = c * x /\ n * c = c * n
      BY <1>5, <3>3, <3>4
    <3>6. RemainderScales(c, x, n)
      BY ONLY <1>5, <1>7, <3>3, <3>5, ScaledRemainder
    <3>7. PICK y : y = x % n
      OBVIOUS
    <3>8. y \in Nat /\ y <= n
      BY <1>5, <1>7, <3>5, <3>7, DividedInt
    <3>9. y \in F /\ c * y = y * c
      BY <1>4, <3>3, <3>8
    <3>10. Abs(a) % Abs(b) = y * 2^j
      BY ONLY <1>1, <1>2, <3>1, <3>3, <3>5, <3>6, <3>7, <3>9 DEF RemainderScales
    <3> QED
      BY <3>9, <3>10
  <2>2. CASE ~(k >= j)
    <3>1. PICK g, u, c : g = j - k /\ u = 2^g /\ c = 2^k
      OBVIOUS
    <3>2. g \in Nat /\ j = k + g
      BY <1>5, <2>2, <3>1
    <3>3. 2^j = c * u /\ c \in Nat /\ c > 0 /\ u \in Nat /\ u > 0
      BY <1>5, <3>1, <3>2, PowersAdd
    <3>4. PICK x : x = n * u
      OBVIOUS
    <3>5. x \in Nat /\ n * (c * u) = c * x /\ m * c = c * m
      BY <1>5, <3>3, <3>4
    <3>6. x > 0
      BY <1>5, <1>7, <3>3, <3>4
    <3>7. RemainderScales(c, m, x)
      BY ONLY <1>5, <3>3, <3>5, <3>6, ScaledRemainder
    <3>8. PICK y, q : y = m % x /\ q = m \div x
      OBVIOUS
    <3>9. y \in Nat /\ y <= m
      <4>1. y \in 0..(x - 1) /\ q \in Nat /\ m = x * q + y
        BY <1>5, <3>5, <3>6, <3>8, Divided
      <4>2. x * q \in Nat
        BY <3>5, <4>1
      <4> QED
        BY <3>5, <4>1, <4>2
    <3>10. y \in F /\ c * y = y * c
      BY <1>4, <3>3, <3>9
    <3>11. Abs(a) % Abs(b) = y * 2^k
      BY ONLY <1>1, <1>2, <3>1, <3>3, <3>5, <3>7, <3>8, <3>10 DEF RemainderScales
    <3> QED
      BY <3>10, <3>11
  <2> QED
    BY <2>1, <2>2
<1>9. PICK p : p = 2^e
  OBVIOUS
<1>10. r \in Nat /\ p \in Nat /\ r \in Fractions /\ -r \in Fractions
  BY <1>3, <1>8, <1>9, ArithmeticNumbers, PowerDoubles
<1>11. 1 * (r * p) = r * p /\ (-1) * (r * p) = (-r) * p
  BY <1>10
<1>12. r * p \in Doubles /\ (-r) * p \in Doubles
  BY <1>8, <1>9, <1>10, DoubleForms
<1>13. Sign(a) \in {1, -1}
  BY DEF Sign
<1> QED
  BY <1>8, <1>9, <1>11, <1>12, <1>13

-----------------------------------------------------------------------------
(* Powers modulo a word.                                                   *)

(* h is n rounds of F, from x on. *)
Rounds(h, X, x, F, n) ==
    h \in [0..n -> X] /\ h[0] = x /\ \A i \in 1..n : h[i] = F[h[i - 1]]

LEMMA RoundsExist ==
    ASSUME NEW X, NEW x \in X, NEW F \in [X -> X], NEW n \in Nat
    PROVE  \E h : Rounds(h, X, x, F, n)
<1> DEFINE S == {k \in Nat : \E h : Rounds(h, X, x, F, k)}
<1>1. 0 \in S
  <2>1. Rounds([i \in 0..0 |-> x], X, x, F, 0)
    BY DEF Rounds
  <2> QED
    BY <2>1
<1>2. ASSUME NEW k \in Nat, k \in S
      PROVE  k + 1 \in S
  <2>1. PICK h : Rounds(h, X, x, F, k)
    BY <1>2
  <2>2. h \in [0..k -> X] /\ h[0] = x /\ \A i \in 1..k : h[i] = F[h[i - 1]]
    BY <2>1 DEF Rounds
  <2> DEFINE g == [i \in 0..(k + 1) |-> IF i = k + 1 THEN F[h[k]] ELSE h[i]]
  <2>3. h[k] \in X /\ F[h[k]] \in X
    BY <2>2
  <2>4. \A i \in 0..k : g[i] = h[i] /\ h[i] \in X
    BY <2>2
  <2>5. g[k + 1] = F[h[k]]
    OBVIOUS
  <2>6. \A i \in 0..(k + 1) : i \in 0..k \/ i = k + 1
    OBVIOUS
  <2>7. g \in [0..(k + 1) -> X]
    BY <2>2, <2>3
  <2> HIDE DEF g
  <2>8. ASSUME NEW i \in 1..(k + 1)
        PROVE  g[i] = F[g[i - 1]]
    <3>1. CASE i = k + 1
      <4>1. i - 1 = k /\ k \in 0..k
        BY <3>1
      <4>2. g[i - 1] = h[k]
        BY <2>4, <4>1
      <4> QED
        BY <2>5, <3>1, <4>2
    <3>2. CASE i # k + 1
      <4>1. i \in 1..k /\ i \in 0..k /\ i - 1 \in 0..k
        BY <3>2
      <4>2. g[i] = h[i] /\ g[i - 1] = h[i - 1]
        BY <2>4, <4>1
      <4> QED
        BY <2>2, <4>1, <4>2
    <3> QED
      BY <3>1, <3>2
  <2>9. g[0] = x
    BY <2>2, <2>4
  <2>10. Rounds(g, X, x, F, k + 1)
    BY <2>7, <2>8, <2>9 DEF Rounds
  <2> QED
    BY <2>10
<1>3. n \in S
  <2> HIDE DEF S
  <2> QED
    BY <1>1, <1>2, Induction
<1> QED
  BY <1>3

(* The rounds go one way. *)
LEMMA RoundsAgree ==
    ASSUME NEW X, NEW x, NEW F, NEW n \in Nat, NEW m \in Nat, n <= m,
           NEW g, NEW h, Rounds(g, X, x, F, n), Rounds(h, X, x, F, m)
    PROVE  g[n] = h[n]
<1> DEFINE S == {i \in Nat : i <= n => g[i] = h[i]}
<1>1. 0 \in S
  BY DEF Rounds
<1>2. ASSUME NEW i \in Nat, i \in S
      PROVE  i + 1 \in S
  <2> SUFFICES ASSUME i + 1 <= n
               PROVE  g[i + 1] = h[i + 1]
    OBVIOUS
  <2>1. i + 1 \in 1..n /\ i + 1 \in 1..m /\ (i + 1) - 1 = i /\ g[i] = h[i]
    BY <1>2
  <2>2. g[i + 1] = F[g[(i + 1) - 1]] /\ h[i + 1] = F[h[(i + 1) - 1]]
    BY <2>1 DEF Rounds
  <2> QED
    BY <2>1, <2>2
<1>3. n \in S
  <2> HIDE DEF S
  <2> QED
    BY <1>1, <1>2, Induction
<1> QED
  BY <1>3

LEMMA WordNumbers ==
    /\ 2^Word \in Nat /\ 2^Word > 0 /\ Words = 0..(2^Word - 1)
    /\ 0 \in Words /\ 1 \in Words /\ Words \subseteq Nat
<1>1. Word \in Nat /\ Word > 0
  BY WordIsNat
<1>2. 2^Word \in Nat /\ 2^Word >= 2
  BY <1>1, PowerDoubles, SmallPowers
<1> QED
  BY <1>2 DEF Words

(* What a word keeps of a number. *)
LEMMA UnsignedIn ==
    /\ \A n \in Int : Unsigned(n) \in Words
    /\ \A n \in Words : Unsigned(n) = n
<1>1. PICK b : b = 2^Word
  OBVIOUS
<1>2. b \in Nat /\ b > 0 /\ Words = 0..(b - 1)
  BY <1>1, WordNumbers
<1>3. ASSUME NEW n \in Int
      PROVE  n % b \in Words
  BY <1>2, <1>3, Remainder
<1>4. ASSUME NEW n \in Words
      PROVE  n % b = n
  <2>1. n \in 0..(b - 1) /\ n \in Int /\ n = b * 0 + n
    BY <1>2
  <2> QED
    BY <1>2, <2>1, RemainderIs
<1> QED
  BY <1>1, <1>3, <1>4 DEF Unsigned

(* A factor may be wrapped before the product is. *)
LEMMA WrappedFactor ==
    ASSUME NEW x \in Nat, NEW y \in Nat
    PROVE  Unsigned(Unsigned(x) * y) = Unsigned(x * y)
<1>1. PICK b, q, r : b = 2^Word /\ q = x \div b /\ r = x % b
  OBVIOUS
<1>2. b \in Nat /\ b > 0 /\ x \in Int
  BY <1>1, WordNumbers
<1>3. q \in Int /\ r \in 0..(b - 1) /\ x = b * q + r
  BY ONLY <1>1, <1>2, Remainder
<1>4. PICK n, t, s : n = r * y /\ t = n \div b /\ s = n % b
  OBVIOUS
<1>5. n \in Int
  BY <1>2, <1>3, <1>4
<1>6. t \in Int /\ s \in 0..(b - 1) /\ n = b * t + s
  BY <1>2, <1>4, <1>5, Remainder
<1>7. PICK u, z : u = q * y + t /\ z = x * y
  OBVIOUS
<1>8. u \in Int /\ z \in Int /\ z = b * u + s
  <2>1. (b * q + r) * y = b * (q * y) + r * y /\ b * (q * y + t) = b * (q * y) + b * t
    BY <1>2, <1>3, <1>6
  <2>2. u \in Int /\ z \in Int
    BY <1>3, <1>6, <1>7
  <2>3. b * (q * y) \in Int /\ b * t \in Int /\ r * y \in Int
    BY <1>2, <1>3, <1>6
  <2>4. PICK v, w : v = b * (q * y) /\ w = b * t
    OBVIOUS
  <2>5. z = v + n /\ n = w + s /\ b * u = v + w
    BY ONLY <1>3, <1>4, <1>6, <1>7, <2>1, <2>4
  <2>6. v \in Int /\ w \in Int /\ s \in Int
    BY <1>6, <2>3, <2>4
  <2> QED
    BY ONLY <2>2, <2>5, <2>6
<1>9. z % b = s
  BY <1>2, <1>6, <1>8, RemainderIs
<1> QED
  BY ONLY <1>1, <1>4, <1>7, <1>9 DEF Unsigned

PowerRound(base) == [x \in Words |-> Unsigned(x * base)]

LEMMA PowerIsRounds ==
    ASSUME NEW base \in Words, NEW n \in Nat
    PROVE  \E h : Rounds(h, Words, 1, PowerRound(base), n) /\ PowerOf(base, n) = h[n]
<1> DEFINE F == PowerRound(base)
           R(g) == g = [i \in 0..n |-> IF i = 0 THEN 1 ELSE Unsigned(g[i - 1] * base)]
           p == CHOOSE g : R(g)
<1>1. F \in [Words -> Words] /\ \A x \in Words : F[x] = Unsigned(x * base)
  <2>1. \A x \in Words : x * base \in Int
    BY WordNumbers
  <2> QED
    BY <2>1, UnsignedIn DEF PowerRound
<1>2. 1 \in Words
  BY WordNumbers
<1> HIDE DEF F
<1>3. PICK h : Rounds(h, Words, 1, F, n)
  BY <1>1, <1>2, RoundsExist
<1>4. h \in [0..n -> Words] /\ h[0] = 1 /\ \A i \in 1..n : h[i] = F[h[i - 1]]
  BY <1>3 DEF Rounds
<1>5. R(h)
  <2>1. \A i \in 0..n : h[i] = IF i = 0 THEN 1 ELSE Unsigned(h[i - 1] * base)
    <3> SUFFICES ASSUME NEW i \in 0..n, i # 0
                 PROVE  h[i] = Unsigned(h[i - 1] * base)
      BY <1>4
    <3>1. i \in 1..n /\ i - 1 \in 0..n
      OBVIOUS
    <3> QED
      BY <1>1, <1>4, <3>1
  <2> QED
    BY <1>4, <2>1
<1>6. R(p)
  <2> HIDE DEF R
  <2> QED
    BY <1>5
<1>7. PowerOf(base, n) = p[n]
  BY DEF PowerOf
<1> HIDE DEF p
<1>8. p[0] = 1 /\ \A i \in 1..n : p[i] = Unsigned(p[i - 1] * base)
  BY <1>6
<1> HIDE DEF R
<1> DEFINE S == {i \in Nat : i <= n => p[i] = h[i]}
<1>9. 0 \in S
  BY <1>4, <1>8
<1>10. ASSUME NEW i \in Nat, i \in S
       PROVE  i + 1 \in S
  <2> SUFFICES ASSUME i + 1 <= n
               PROVE  p[i + 1] = h[i + 1]
    OBVIOUS
  <2>1. i + 1 \in 1..n /\ (i + 1) - 1 = i /\ p[i] = h[i] /\ h[i] \in Words
    BY <1>4, <1>10
  <2> QED
    BY <1>1, <1>4, <1>8, <2>1
<1>11. n \in S
  <2> HIDE DEF S
  <2> QED
    BY <1>9, <1>10, Induction
<1>12. p[n] = h[n]
  BY <1>11
<1> QED
  BY <1>3, <1>7, <1>12 DEF F

LEMMA PowerSteps ==
    ASSUME NEW base \in Words
    PROVE  /\ PowerOf(base, 0) = 1
           /\ \A n \in Nat : /\ PowerOf(base, n) \in Words
                             /\ PowerOf(base, n + 1) = Unsigned(PowerOf(base, n) * base)
<1>1. PowerOf(base, 0) = 1
  <2>1. PICK h : Rounds(h, Words, 1, PowerRound(base), 0) /\ PowerOf(base, 0) = h[0]
    BY PowerIsRounds
  <2> QED
    BY <2>1 DEF Rounds
<1>2. ASSUME NEW n \in Nat
      PROVE  /\ PowerOf(base, n) \in Words
             /\ PowerOf(base, n + 1) = Unsigned(PowerOf(base, n) * base)
  <2>1. PICK h : Rounds(h, Words, 1, PowerRound(base), n) /\ PowerOf(base, n) = h[n]
    BY PowerIsRounds
  <2>2. n + 1 \in Nat /\ n <= n + 1 /\ n \in 0..n /\ n + 1 \in 1..(n + 1) /\ (n + 1) - 1 = n
    OBVIOUS
  <2>3. PICK g : /\ Rounds(g, Words, 1, PowerRound(base), n + 1)
                 /\ PowerOf(base, n + 1) = g[n + 1]
    BY <2>2, PowerIsRounds
  <2>4. h[n] = g[n]
    BY <2>1, <2>2, <2>3, RoundsAgree
  <2>5. h[n] \in Words
    BY <2>1, <2>2 DEF Rounds
  <2>6. g[n + 1] = PowerRound(base)[g[(n + 1) - 1]]
    BY <2>2, <2>3 DEF Rounds
  <2> QED
    BY <2>1, <2>2, <2>3, <2>4, <2>5, <2>6 DEF PowerRound
<1> QED
  BY <1>1, <1>2

(* Squaring the base halves the exponent. *)
LEMMA PowerTwice ==
    ASSUME NEW base \in Words, NEW B, B = Unsigned(base * base)
    PROVE  /\ B \in Words
           /\ \A k \in Nat : PowerOf(base, 2 * k) = PowerOf(B, k)
<1>1. base \in Nat /\ base * base \in Int
  BY WordNumbers
<1>2. B \in Words /\ B \in Nat
  BY <1>1, UnsignedIn, WordNumbers
<1> DEFINE S == {k \in Nat : PowerOf(base, 2 * k) = PowerOf(B, k)}
<1>3. 0 \in S
  <2>1. 2 * 0 = 0
    OBVIOUS
  <2> QED
    BY <1>2, <2>1, PowerSteps
<1>4. ASSUME NEW k \in Nat, k \in S
      PROVE  k + 1 \in S
  <2>1. PICK n : n = 2 * k
    OBVIOUS
  <2>2. n \in Nat /\ n + 1 \in Nat /\ 2 * (k + 1) = (n + 1) + 1
    BY <2>1
  <2>3. PICK x, y : x = PowerOf(base, n) /\ y = PowerOf(base, n + 1)
    OBVIOUS
  <2>4. x \in Nat /\ y = Unsigned(x * base) /\ PowerOf(base, (n + 1) + 1) = Unsigned(y * base)
    BY <2>2, <2>3, PowerSteps, WordNumbers
  <2>5. x * base \in Nat /\ base * base \in Nat
    BY <1>1, <2>4
  <2>6. Unsigned(y * base) = Unsigned((x * base) * base)
    BY <1>1, <2>4, <2>5, WrappedFactor
  <2>7. Unsigned(B * x) = Unsigned((base * base) * x)
    BY <1>1, <2>4, <2>5, WrappedFactor
  <2>8. (x * base) * base = (base * base) * x /\ B * x = x * B
    BY <1>1, <1>2, <2>4
  <2>9. PowerOf(B, k + 1) = Unsigned(PowerOf(B, k) * B)
    BY <1>2, PowerSteps
  <2>10. PowerOf(B, k) = x
    BY <1>4, <2>1, <2>3
  <2> QED
    BY <2>2, <2>4, <2>6, <2>7, <2>8, <2>9, <2>10
<1>5. \A k \in Nat : k \in S
  <2> HIDE DEF S
  <2> QED
    BY <1>3, <1>4, Induction
<1> QED
  BY <1>2, <1>5

(* One round of modular_power. *)
PowerLoops == [result : Words, base : Words, exponent : Nat]
PowerLoop(x) ==
    [result |-> IF x.exponent % 2 = 1 THEN Unsigned(x.result * x.base) ELSE x.result,
     base |-> Unsigned(x.base * x.base),
     exponent |-> x.exponent \div 2]
PowerToCome(x) == Unsigned(x.result * PowerOf(x.base, x.exponent))

(* A round leaves what the loop is to give. *)
LEMMA PowerLoopKeeps ==
    ASSUME NEW x \in PowerLoops
    PROVE  /\ PowerLoop(x) \in PowerLoops
           /\ PowerToCome(PowerLoop(x)) = PowerToCome(x)
           /\ x.exponent \in {2 * PowerLoop(x).exponent, 2 * PowerLoop(x).exponent + 1}
<1>1. PICK r, b, e : r = x.result /\ b = x.base /\ e = x.exponent
  OBVIOUS
<1>2. r \in Words /\ b \in Words /\ e \in Nat /\ r \in Nat /\ b \in Nat
  BY <1>1, WordNumbers DEF PowerLoops
<1>3. PICK k, z, B : k = e \div 2 /\ z = e % 2 /\ B = Unsigned(b * b)
  OBVIOUS
<1>4. k \in Nat /\ z \in {0, 1} /\ e = 2 * k + z
  BY <1>2, <1>3, Halves
<1>5. B \in Words /\ PowerOf(b, 2 * k) = PowerOf(B, k)
  BY <1>2, <1>3, <1>4, PowerTwice
<1>6. PICK p : p = PowerOf(B, k)
  OBVIOUS
<1>7. p \in Nat
  BY <1>4, <1>5, <1>6, PowerSteps, WordNumbers
<1>8. PICK rb, R : rb = r * b /\ R = IF z = 1 THEN Unsigned(rb) ELSE r
  OBVIOUS
<1>9. rb \in Nat /\ R \in Words /\ R \in Nat
  <2>1. rb \in Nat
    BY <1>2, <1>8
  <2> QED
    BY <1>2, <1>8, <2>1, UnsignedIn, WordNumbers
<1>10. PowerLoop(x) = [result |-> R, base |-> B, exponent |-> k]
  BY <1>1, <1>3, <1>8 DEF PowerLoop
<1>11. PowerToCome(PowerLoop(x)) = Unsigned(R * p)
  BY <1>6, <1>10 DEF PowerToCome
<1>12. PowerToCome(x) = Unsigned(r * PowerOf(b, e))
  BY <1>1 DEF PowerToCome
<1>13. Unsigned(R * p) = Unsigned(r * PowerOf(b, e))
  <2>1. CASE z = 0
    <3>1. e = 2 * k /\ R = r
      BY <1>4, <1>8, <2>1
    <3> QED
      BY <1>5, <1>6, <3>1
  <2>2. CASE z = 1
    <3>1. PICK n : n = 2 * k
      OBVIOUS
    <3>2. n \in Nat /\ e = n + 1 /\ R = Unsigned(rb)
      BY <1>4, <1>8, <2>2, <3>1
    <3>3. PowerOf(b, e) = Unsigned(p * b)
      BY <1>2, <1>5, <1>6, <3>1, <3>2, PowerSteps
    <3>4. PICK q, pb : q = PowerOf(b, e) /\ pb = p * b
      OBVIOUS
    <3>5. q = Unsigned(pb) /\ pb \in Nat /\ q \in Nat
      <4>1. pb \in Nat
        BY <1>2, <1>7, <3>4
      <4> QED
        BY <3>3, <3>4, <4>1, UnsignedIn, WordNumbers
    <3>6. Unsigned(q * r) = Unsigned(pb * r)
      BY <1>2, <3>5, WrappedFactor
    <3>7. Unsigned(R * p) = Unsigned(rb * p)
      BY <1>7, <1>9, <3>2, WrappedFactor
    <3>8. pb * r = rb * p /\ q * r = r * q
      BY <1>2, <1>7, <1>8, <3>4, <3>5
    <3> QED
      BY <3>4, <3>6, <3>7, <3>8
  <2> QED
    BY <1>4, <2>1, <2>2
<1>14. [result |-> R, base |-> B, exponent |-> k] \in PowerLoops
  BY <1>4, <1>5, <1>9 DEF PowerLoops
<1> QED
  BY <1>1, <1>4, <1>10, <1>11, <1>12, <1>13, <1>14

(* modular_power is the power of one factor at a time. *)
LEMMA ModularPowerIs ==
    ASSUME NEW a \in Words, NEW n \in Words
    PROVE  ModularPower(a, n) = PowerOf(a, n) /\ PowerOf(a, n) \in Words
<1> DEFINE x == [result |-> 1, base |-> a, exponent |-> n]
           F == [y \in PowerLoops |-> PowerLoop(y)]
           R(g) == g = [i \in 0..Word |-> IF i = 0 THEN x ELSE PowerLoop(g[i - 1])]
           p == CHOOSE g : R(g)
<1>1. Word \in Nat /\ n \in Nat /\ a \in Nat /\ 1 \in Words
  BY WordIsNat, WordNumbers
<1>2. x \in PowerLoops /\ F \in [PowerLoops -> PowerLoops]
      /\ \A y \in PowerLoops : F[y] = PowerLoop(y)
  BY <1>1, PowerLoopKeeps DEF PowerLoops
<1>3. ModularPower(a, n) = p[Word].result
  BY DEF ModularPower, PowerLoop
<1>4. PowerToCome(x) = PowerOf(a, n) /\ PowerOf(a, n) \in Words
  <2>1. PICK q : q = PowerOf(a, n)
    OBVIOUS
  <2>2. q \in Words
    BY <1>1, <2>1, PowerSteps
  <2>3. 1 * q = q
    BY <2>2, WordNumbers
  <2>4. PowerToCome(x) = Unsigned(1 * q)
    BY <2>1 DEF PowerToCome
  <2> QED
    BY <2>1, <2>2, <2>3, <2>4, UnsignedIn
<1>5. x.exponent = n
  OBVIOUS
<1> HIDE DEF x, F
<1>6. PICK h : Rounds(h, PowerLoops, x, F, Word)
  BY <1>1, <1>2, RoundsExist
<1>7. h \in [0..Word -> PowerLoops] /\ h[0] = x /\ \A i \in 1..Word : h[i] = F[h[i - 1]]
  BY <1>6 DEF Rounds
<1>8. R(h)
  <2>1. \A i \in 0..Word : h[i] = IF i = 0 THEN x ELSE PowerLoop(h[i - 1])
    <3> SUFFICES ASSUME NEW i \in 0..Word, i # 0
                 PROVE  h[i] = PowerLoop(h[i - 1])
      BY <1>7
    <3>1. i \in 1..Word /\ i - 1 \in 0..Word
      BY <1>1
    <3> QED
      BY <1>2, <1>7, <3>1
  <2> QED
    BY <1>7, <2>1
<1>9. R(p)
  <2> HIDE DEF R
  <2> QED
    BY <1>8
<1> HIDE DEF p
<1>10. p[0] = x /\ \A i \in 1..Word : p[i] = PowerLoop(p[i - 1])
  BY <1>1, <1>9
<1> HIDE DEF R
<1> DEFINE Good(i) == /\ p[i] \in PowerLoops
                      /\ PowerToCome(p[i]) = PowerOf(a, n)
                      /\ p[i].exponent < 2^(Word - i)
           S == {i \in Nat : i <= Word => Good(i)}
<1>11. 0 \in S
  <2>1. n < 2^Word
    BY <1>1, WordNumbers
  <2>2. Word - 0 = Word
    BY <1>1
  <2> QED
    BY <1>2, <1>4, <1>5, <1>10, <2>1, <2>2
<1>12. ASSUME NEW i \in Nat, i \in S
       PROVE  i + 1 \in S
  <2> SUFFICES ASSUME i + 1 <= Word
               PROVE  Good(i + 1)
    OBVIOUS
  <2>1. i + 1 \in 1..Word /\ (i + 1) - 1 = i /\ i <= Word
    BY <1>1
  <2>2. p[i] \in PowerLoops /\ PowerToCome(p[i]) = PowerOf(a, n) /\ p[i].exponent < 2^(Word - i)
    BY <1>12, <2>1
  <2>3. PICK y, z : y = p[i] /\ z = PowerLoop(y)
    OBVIOUS
  <2>4. p[i + 1] = z
    BY <1>10, <2>1, <2>3
  <2>5. /\ z \in PowerLoops /\ PowerToCome(z) = PowerToCome(y)
        /\ y.exponent \in {2 * z.exponent, 2 * z.exponent + 1}
    BY <2>2, <2>3, PowerLoopKeeps
  <2>6. PICK j, u : j = Word - (i + 1) /\ u = 2^j
    OBVIOUS
  <2>7. j \in Nat /\ Word - i = j + 1
    BY <1>1, <2>1, <2>6
  <2>8. u \in Nat /\ 2^(Word - i) = 2 * u
    BY <2>6, <2>7, PowerDoubles
  <2>9. z.exponent \in Nat
    BY <2>5 DEF PowerLoops
  <2>10. z.exponent < u
    BY <2>2, <2>3, <2>5, <2>8, <2>9
  <2> QED
    BY <2>2, <2>3, <2>4, <2>5, <2>6, <2>10
<1>13. Good(Word)
  <2>1. Word \in S
    <3> HIDE DEF S
    <3> QED
      BY <1>1, <1>11, <1>12, Induction
  <2> HIDE DEF Good
  <2>2. Word <= Word
    BY <1>1
  <2> QED
    BY <2>1, <2>2
<1>14. PICK y : y = p[Word]
  OBVIOUS
<1>15. y.result \in Words /\ y.base \in Words /\ y.exponent = 0
  <2>1. y \in PowerLoops /\ y.exponent < 2^(Word - Word)
    BY <1>13, <1>14
  <2>2. Word - Word = 0
    BY <1>1
  <2>3. y.exponent < 1
    BY ONLY <2>1, <2>2, PowerOfZero
  <2>4. y.result \in Words /\ y.base \in Words /\ y.exponent \in Nat
    BY ONLY <2>1 DEF PowerLoops
  <2> QED
    BY ONLY <2>3, <2>4
<1>16. PowerToCome(y) = y.result
  <2>1. PowerOf(y.base, 0) = 1
    BY <1>15, PowerSteps
  <2>2. y.result * 1 = y.result
    BY <1>15, WordNumbers
  <2> QED
    BY <1>15, <2>1, <2>2, UnsignedIn DEF PowerToCome
<1> QED
  BY <1>3, <1>4, <1>13, <1>14, <1>16

-----------------------------------------------------------------------------
(* The results of COMPUTE.                                                 *)

(* A word, or a float that stands for a double. *)
IsResult(v) == v \in WordValues \/ \E d \in Doubles : v = FromDouble(d)

LEMMA ResultIsValue ==
    ASSUME NEW v, IsResult(v)
    PROVE  /\ v \in Values
           /\ v.float => IsFinite(AsDouble(v)) /\ FromDouble(AsDouble(v)) = v
<1>1. CASE v \in WordValues
  BY <1>1 DEF WordValues, Values
<1>2. CASE v \notin WordValues
  <2>1. PICK d \in Doubles : v = FromDouble(d)
    BY <1>2 DEF IsResult
  <2>2. v \in Floats /\ AsDouble(v) = d /\ IsFinite(d)
    BY <2>1, DoubleBack, FiniteNumbers
  <2> QED
    BY <2>1, <2>2 DEF Values
<1> QED
  BY <1>1, <1>2

LEMMA WordResults ==
    /\ \A n \in Int : \A v \in Integer(n) : v \in WordValues /\ v.n = Unsigned(n)
    /\ \A b : \A v \in Truth(b) : v \in WordValues /\ v.n = IF b THEN 1 ELSE 0
<1>1. \A n \in Words : Uint(n) \in WordValues /\ Uint(n).n = n
  BY DEF Uint, WordValues
<1>2. \A n \in Int : Unsigned(n) \in Words
  BY UnsignedIn
<1>3. 0 \in Words /\ 1 \in Words
  BY WordNumbers
<1>4. ASSUME NEW n \in Int, NEW v \in Integer(n)
      PROVE  v \in WordValues /\ v.n = Unsigned(n)
  BY <1>1, <1>2 DEF Integer
<1>5. ASSUME NEW b, NEW v \in Truth(b)
      PROVE  v \in WordValues /\ v.n = IF b THEN 1 ELSE 0
  BY <1>1, <1>3 DEF Truth
<1> QED
  BY <1>4, <1>5

LEMMA DoubleResults ==
    /\ \A d \in Numbers : \A v \in Numeric(d) : IsResult(v)
    /\ \A v \in Library : IsResult(v)
<1>1. ASSUME NEW d \in Numbers, NEW v \in Numeric(d)
      PROVE  IsResult(v)
  <2>1. IsFinite(d) /\ v = FromDouble(d)
    BY DEF Numeric
  <2>2. d \in Doubles
    BY <2>1, FiniteNumbers
  <2> QED
    BY <2>1, <2>2 DEF IsResult
<1>2. \A v \in Library : IsResult(v)
  BY ExternalAssumption DEF Library, IsResult
<1> QED
  BY <1>1, <1>2

(* The bits of two words, taken together bit by bit, are those of a word. *)
LEMMA BitwiseIsWord ==
    ASSUME NEW a \in Words, NEW b \in Words
    PROVE  /\ Bitwise(LAMBDA x, y : x * y, a, b) \in Int
           /\ Bitwise(LAMBDA x, y : IF x + y > 0 THEN 1 ELSE 0, a, b) \in Int
<1>1. Word \in Nat /\ a \in Nat /\ b \in Nat
  BY WordIsNat, WordNumbers
<1>2. PICK x, y : x = UintBits(a, Word) /\ y = UintBits(b, Word)
  OBVIOUS
<1>3. \A i \in 1..Word : x[i] \in {0, 1} /\ y[i] \in {0, 1}
  BY <1>1, <1>2, UintBitsAreBits, BitsParts
<1>4. UintOf([i \in 1..Word |-> x[i] * y[i]]) \in Int
  <2> DEFINE f == [i \in 1..Word |-> x[i] * y[i]]
  <2>1. \A i \in 1..Word : f[i] \in {0, 1}
    BY <1>3
  <2>2. f = [i \in 1..Word |-> f[i]]
    OBVIOUS
  <2> HIDE DEF f
  <2>3. f \in Bits
    BY <1>1, <2>1, <2>2, BitsMade
  <2>4. Len(f) \in Nat /\ \A i \in 1..Len(f) : f[i] \in {0, 1}
    BY <2>3, BitsParts
  <2>5. UintOf(f) \in Nat
    BY <2>4, UintRange
  <2> QED
    BY <2>5 DEF f
<1>5. UintOf([i \in 1..Word |-> IF x[i] + y[i] > 0 THEN 1 ELSE 0]) \in Int
  <2> DEFINE f == [i \in 1..Word |-> IF x[i] + y[i] > 0 THEN 1 ELSE 0]
  <2>1. \A i \in 1..Word : f[i] \in {0, 1}
    OBVIOUS
  <2>2. f = [i \in 1..Word |-> f[i]]
    OBVIOUS
  <2> HIDE DEF f
  <2>3. f \in Bits
    BY <1>1, <2>1, <2>2, BitsMade
  <2>4. Len(f) \in Nat /\ \A i \in 1..Len(f) : f[i] \in {0, 1}
    BY <2>3, BitsParts
  <2>5. UintOf(f) \in Nat
    BY <2>4, UintRange
  <2> QED
    BY <2>5 DEF f
<1>6. Bitwise(LAMBDA c, d : c * d, a, b) \in Int
  BY <1>2, <1>4 DEF Bitwise
<1>7. Bitwise(LAMBDA c, d : IF c + d > 0 THEN 1 ELSE 0, a, b) \in Int
  BY <1>2, <1>5 DEF Bitwise
<1> QED
  BY <1>6, <1>7

LEMMA OfWordsAt ==
    ASSUME NEW a \in Words, NEW b \in Words
    PROVE  /\ OfWords(0, a, b) = Integer(a + b)
           /\ OfWords(1, a, b) = Integer(a - b)
           /\ OfWords(2, a, b) = Integer(a * b)
           /\ OfWords(3, a, b) = IF b = 0 THEN {} ELSE Integer(a \div b)
           /\ OfWords(4, a, b) = IF b = 0 THEN {} ELSE Integer(a % b)
           /\ OfWords(5, a, b) = Integer(ModularPower(a, b))
           /\ \A t \in 6..13 : OfWords(t, a, b) \in {{Uint(0)}, {Uint(1)}}
           /\ \A t \in {14, 15} : \E n \in Int : OfWords(t, a, b) = Integer(n)
<1>1. /\ OfWords(0, a, b) = Integer(a + b)
      /\ OfWords(1, a, b) = Integer(a - b)
      /\ OfWords(2, a, b) = Integer(a * b)
      /\ OfWords(5, a, b) = Integer(ModularPower(a, b))
  <2>1. OfWords(0, a, b) = Integer(a + b)
    BY DEF OfWords, Truth, Bitwise
  <2>2. OfWords(1, a, b) = Integer(a - b)
    BY DEF OfWords, Truth, Bitwise
  <2>3. OfWords(2, a, b) = Integer(a * b)
    BY DEF OfWords, Truth, Bitwise
  <2>4. OfWords(5, a, b) = Integer(ModularPower(a, b))
    BY DEF OfWords, Truth, Bitwise
  <2> QED
    BY ONLY <2>1, <2>2, <2>3, <2>4
<1>2. OfWords(3, a, b) = IF b = 0 THEN {} ELSE Integer(a \div b)
  BY DEF OfWords, Truth, Bitwise
<1>3. OfWords(4, a, b) = IF b = 0 THEN {} ELSE Integer(a % b)
  BY DEF OfWords, Truth, Bitwise
<1>4. /\ OfWords(6, a, b) = {Uint(IF a # 0 /\ b # 0 THEN 1 ELSE 0)}
      /\ OfWords(7, a, b) = {Uint(IF a # 0 \/ b # 0 THEN 1 ELSE 0)}
      /\ OfWords(8, a, b) = {Uint(IF a = b THEN 1 ELSE 0)}
      /\ OfWords(9, a, b) = {Uint(IF a # b THEN 1 ELSE 0)}
  <2>1. OfWords(6, a, b) = {Uint(IF a # 0 /\ b # 0 THEN 1 ELSE 0)}
    BY DEF OfWords, Truth, Bitwise
  <2>2. OfWords(7, a, b) = {Uint(IF a # 0 \/ b # 0 THEN 1 ELSE 0)}
    BY DEF OfWords, Truth, Bitwise
  <2>3. OfWords(8, a, b) = {Uint(IF a = b THEN 1 ELSE 0)}
    BY DEF OfWords, Truth, Bitwise
  <2>4. OfWords(9, a, b) = {Uint(IF a # b THEN 1 ELSE 0)}
    BY DEF OfWords, Truth, Bitwise
  <2> QED
    BY ONLY <2>1, <2>2, <2>3, <2>4
<1>5. /\ OfWords(10, a, b) = {Uint(IF Signed(a) > Signed(b) THEN 1 ELSE 0)}
      /\ OfWords(11, a, b) = {Uint(IF Signed(a) >= Signed(b) THEN 1 ELSE 0)}
      /\ OfWords(12, a, b) = {Uint(IF Signed(a) < Signed(b) THEN 1 ELSE 0)}
      /\ OfWords(13, a, b) = {Uint(IF Signed(a) <= Signed(b) THEN 1 ELSE 0)}
  <2>1. OfWords(10, a, b) = {Uint(IF Signed(a) > Signed(b) THEN 1 ELSE 0)}
    BY DEF OfWords, Truth, Bitwise
  <2>2. OfWords(11, a, b) = {Uint(IF Signed(a) >= Signed(b) THEN 1 ELSE 0)}
    BY DEF OfWords, Truth, Bitwise
  <2>3. OfWords(12, a, b) = {Uint(IF Signed(a) < Signed(b) THEN 1 ELSE 0)}
    BY DEF OfWords, Truth, Bitwise
  <2>4. OfWords(13, a, b) = {Uint(IF Signed(a) <= Signed(b) THEN 1 ELSE 0)}
    BY DEF OfWords, Truth, Bitwise
  <2> QED
    BY ONLY <2>1, <2>2, <2>3, <2>4
<1>6. \E n \in Int : OfWords(14, a, b) = Integer(n)
  <2>1. OfWords(14, a, b) = Integer(Bitwise(LAMBDA x, y : x * y, a, b))
    BY DEF OfWords, Truth, Bitwise
  <2> QED
    BY <2>1, BitwiseIsWord
<1>7. \E n \in Int : OfWords(15, a, b) = Integer(n)
  <2>1. OfWords(15, a, b) = Integer(Bitwise(LAMBDA x, y : IF x + y > 0 THEN 1 ELSE 0, a, b))
    BY DEF OfWords, Truth, Bitwise
  <2> QED
    BY <2>1, BitwiseIsWord
<1>8. \A t \in 6..13 : t \in {6, 7, 8, 9, 10, 11, 12, 13}
  OBVIOUS
<1>9. \A t \in {6, 7, 8, 9} : OfWords(t, a, b) \in {{Uint(0)}, {Uint(1)}}
  BY ONLY <1>4
<1>10. \A t \in {10, 11, 12, 13} : OfWords(t, a, b) \in {{Uint(0)}, {Uint(1)}}
  BY ONLY <1>5
<1>11. \A t \in {14, 15} : \E n \in Int : OfWords(t, a, b) = Integer(n)
  BY ONLY <1>6, <1>7
<1> QED
  BY ONLY <1>1, <1>2, <1>3, <1>8, <1>9, <1>10, <1>11

LEMMA OfWordsIn ==
    ASSUME NEW operation \in 0..15, NEW a \in Words, NEW b \in Words,
           NEW v \in OfWords(operation, a, b)
    PROVE  v \in WordValues
<1>1. a \in Int /\ b \in Int /\ a \in Nat /\ b \in Nat
  BY WordNumbers
<1>2. \A n \in Int : Integer(n) \subseteq WordValues
  BY WordResults
<1>3. Uint(0) \in WordValues /\ Uint(1) \in WordValues
  BY WordNumbers DEF Uint, WordValues
<1>4. operation \in {0, 1, 2, 3, 4, 5} \/ operation \in 6..13 \/ operation \in {14, 15}
  OBVIOUS
<1>5. CASE operation \in {0, 1, 2, 3, 4, 5}
  <2>1. PICK x, y, z, d, m, p : /\ x = a + b /\ y = a - b /\ z = a * b /\ d = a \div b
                                /\ m = a % b /\ p = ModularPower(a, b)
    OBVIOUS
  <2>2. x \in Int /\ y \in Int /\ z \in Int
    BY <1>1, <2>1
  <2>3. b # 0 => d \in Int /\ m \in Int
    BY <1>1, <2>1, DividedInt
  <2>4. p \in Int
    BY <2>1, ModularPowerIs, WordNumbers
  <2>5. \/ OfWords(operation, a, b) \in {Integer(x), Integer(y), Integer(z), Integer(p)}
        \/ b # 0 /\ OfWords(operation, a, b) \in {Integer(d), Integer(m)}
        \/ OfWords(operation, a, b) = {}
    BY <1>5, <2>1, OfWordsAt
  <2> QED
    BY ONLY <1>2, <2>2, <2>3, <2>4, <2>5, v \in OfWords(operation, a, b)
<1>6. CASE operation \in 6..13
  BY <1>3, <1>6, OfWordsAt
<1>7. CASE operation \in {14, 15}
  BY <1>2, <1>7, OfWordsAt
<1> QED
  BY <1>4, <1>5, <1>6, <1>7

LEMMA OfDoublesIn ==
    ASSUME NEW operation \in 0..15, NEW a \in Doubles, NEW b \in Doubles,
           NEW v \in OfDoubles(operation, a, b)
    PROVE  IsResult(v)
<1>1. a \in Int /\ b \in Int /\ 2^Quantum \in Nat /\ 2^Quantum > 0
  BY FiniteNumbers, ArithmeticNumbers
<1>2. Uint(0) \in WordValues /\ Uint(1) \in WordValues
  BY WordNumbers DEF Uint, WordValues
<1>3. \A d \in Numbers : \A w \in Numeric(d) : IsResult(w)
  BY DoubleResults
<1>4. \A w \in Library : IsResult(w)
  BY DoubleResults
<1>5. PICK c, s, m : c = 2^Quantum /\ s = Sign(b) /\ m = Abs(b)
  OBVIOUS
<1>6. c \in Nat /\ c > 0 /\ s \in Int /\ m \in Nat /\ (b # 0 => m > 0)
  BY <1>1, <1>5 DEF Sign, Abs
<1>7. CASE operation \in {0, 1, 2}
  <2>1. PICK x, y, z : x = a + b /\ y = a - b /\ z = a * b
    OBVIOUS
  <2>2. x \in Int /\ y \in Int /\ z \in Int /\ 1 \in Nat /\ 1 > 0
    BY <1>1, <2>1
  <2>3. Rounded(x, 1) \in Numbers /\ Rounded(y, 1) \in Numbers /\ Rounded(z, c) \in Numbers
    BY <1>6, <2>2, RoundedIsNumber
  <2>4. /\ OfDoubles(0, a, b) = Numeric(Rounded(x, 1))
        /\ OfDoubles(1, a, b) = Numeric(Rounded(y, 1))
        /\ OfDoubles(2, a, b) = Numeric(Rounded(z, c))
    BY <1>5, <2>1 DEF OfDoubles, Truth
  <2> QED
    BY <1>3, <1>7, <2>3, <2>4
<1>8. CASE operation = 3
  <2>1. OfDoubles(3, a, b) = IF b = 0 THEN {} ELSE Numeric(Rounded(a * s * c, m))
    BY <1>5 DEF OfDoubles, Truth
  <2>2. PICK x : x = a * s * c
    OBVIOUS
  <2>3. x \in Int
    <3>1. a * s \in Int
      BY <1>1, <1>6
    <3> QED
      BY <1>6, <2>2, <3>1
  <2>4. b # 0
    BY <1>8, <2>1
  <2>5. Rounded(x, m) \in Numbers
    BY <1>6, <2>3, <2>4, RoundedIsNumber
  <2> QED
    BY <1>3, <1>8, <2>1, <2>2, <2>4, <2>5
<1>9. CASE operation = 4
  <2>1. OfDoubles(4, a, b) = IF b = 0 THEN {} ELSE Numeric(Sign(a) * (Abs(a) % Abs(b)))
    BY DEF OfDoubles, Truth
  <2>2. b # 0
    BY <1>9, <2>1
  <2>3. PICK x : x = Sign(a) * (Abs(a) % Abs(b))
    OBVIOUS
  <2>4. x \in Numbers
    BY <2>2, <2>3, RemainderIsDouble, FiniteNumbers
  <2> QED
    BY <1>3, <1>9, <2>1, <2>2, <2>3, <2>4
<1>10. CASE operation = 5
  <2>1. OfDoubles(5, a, b) = Library
    BY DEF OfDoubles, Truth
  <2> QED
    BY <1>4, <1>10, <2>1
<1>11. ASSUME NEW t \in {6, 7, 8, 9, 10, 11, 12, 13}
       PROVE  OfDoubles(t, a, b) \in {{Uint(0)}, {Uint(1)}}
  BY DEF OfDoubles, Truth
<1>12. ASSUME NEW t \in {14, 15}
       PROVE  OfDoubles(t, a, b) = {}
  BY DEF OfDoubles, Truth
<1>13. operation \in {0, 1, 2, 3, 4, 5, 6, 7, 8, 9, 10, 11, 12, 13, 14, 15}
  OBVIOUS
<1>14. CASE operation \in {6, 7, 8, 9, 10, 11, 12, 13}
  BY <1>2, <1>11, <1>14 DEF IsResult
<1>15. CASE operation \in {14, 15}
  BY <1>12, <1>15
<1> QED
  BY <1>7, <1>8, <1>9, <1>10, <1>13, <1>14, <1>15

LEMMA OfOneIn ==
    ASSUME NEW operation \in 16..31, NEW x \in Values, NEW v \in OfOne(operation, x)
    PROVE  IsResult(v)
<1>1. Uint(0) \in WordValues /\ Uint(1) \in WordValues
  BY WordNumbers DEF Uint, WordValues
<1>2. CASE operation = 22
  <2>1. OfOne(22, x) \in {{Uint(0)}, {Uint(1)}}
    BY DEF OfOne, Truth
  <2> QED
    BY <1>1, <1>2, <2>1 DEF IsResult
<1>3. CASE operation = 23
  <2>1. OfOne(23, x) = IF x.float THEN {} ELSE Integer(-1 - x.n)
    BY DEF OfOne
  <2>2. ~x.float
    BY <1>3, <2>1
  <2>3. x.n \in Words
    BY <2>2 DEF Values, WordValues, Floats
  <2>4. -1 - x.n \in Int
    BY <2>3, WordNumbers
  <2>5. v \in WordValues
    BY <1>3, <2>1, <2>2, <2>4, WordResults
  <2> QED
    BY <2>5 DEF IsResult
<1>4. CASE operation \notin {22, 23}
  <2>1. v \in Library
    BY <1>4 DEF OfOne
  <2> QED
    BY <2>1, DoubleResults
<1> QED
  BY <1>2, <1>3, <1>4

(* What evaluate_operation has computed with. *)
LEMMA ResultsOf ==
    ASSUME NEW operation \in Operations, NEW x \in Seq(Values), NEW v \in Results(operation, x)
    PROVE  /\ IsResult(v)
           /\ Len(x) \in {1, 2}
           /\ operation < 16 /\ (\A i \in DOMAIN x : ~x[i].float) =>
                  /\ x[1].n \in Words /\ x[2].n \in Words
                  /\ v \in OfWords(operation, x[1].n, x[2].n)
<1>1. operation \in 0..31 /\ Len(x) \in Nat /\ DOMAIN x = 1..Len(x)
  BY DEF Operations
<1>2. Len(x) = OperandCount(operation) /\ \A i \in DOMAIN x : IsFinite(AsDouble(x[i]))
  BY DEF Results
<1>3. \A i \in DOMAIN x : x[i] \in Values /\ AsDouble(x[i]) \in Doubles
  <2>1. \A i \in DOMAIN x : x[i] \in Values
    BY <1>1
  <2>2. \A i \in DOMAIN x : AsDouble(x[i]) \in Numbers
    BY <2>1, AsDoubleIn
  <2> QED
    BY <1>2, <2>1, <2>2, FiniteNumbers
<1>4. \A y \in Values : ~y.float => y.n \in Words
  BY DEF Values, WordValues, Floats
<1>5. CASE operation >= 16
  <2>1. Len(x) = 1
    BY <1>1, <1>2, <1>5 DEF OperandCount
  <2>2. v \in OfOne(operation, x[1])
    BY <1>2, <2>1 DEF Results
  <2>3. operation \in 16..31 /\ 1 \in DOMAIN x /\ ~(operation < 16)
    BY <1>1, <1>5, <2>1
  <2>4. IsResult(v)
    BY <1>3, <2>2, <2>3, OfOneIn
  <2> QED
    BY <2>1, <2>2, <2>3, <2>4
<1>6. CASE operation < 16
  <2>1. Len(x) = 2 /\ operation \in 0..15
    BY <1>1, <1>2, <1>6 DEF OperandCount
  <2>2. DOMAIN x = {1, 2}
    BY <1>1, <2>1
  <2>3. CASE x[1].float \/ x[2].float
    <3>1. v \in OfDoubles(operation, AsDouble(x[1]), AsDouble(x[2]))
      BY <1>2, <2>1, <2>3 DEF Results
    <3>2. IsResult(v)
      BY <1>3, <2>1, <2>2, <3>1, OfDoublesIn
    <3> QED
      BY <2>1, <2>2, <2>3, <3>2
  <2>4. CASE ~(x[1].float \/ x[2].float)
    <3>1. v \in OfWords(operation, x[1].n, x[2].n)
      BY <1>2, <2>1, <2>4 DEF Results
    <3>2. x[1].n \in Words /\ x[2].n \in Words
      BY <1>3, <1>4, <2>2, <2>4
    <3>3. v \in WordValues
      BY <2>1, <3>1, <3>2, OfWordsIn
    <3>4. IsResult(v)
      BY <3>3 DEF IsResult
    <3> QED
      BY <2>1, <3>1, <3>2, <3>4
  <2> QED
    BY <2>3, <2>4
<1> QED
  BY <1>1, <1>5, <1>6

(* Adding half of the words turns the order of signed numbers into that of *)
(* words.                                                                  *)
LEMMA SignedOrder ==
    ASSUME NEW n \in Words
    PROVE  Signed(n) \in Int /\ Signed(n) + 2^(Word - 1) = (n + 2^(Word - 1)) % 2^Word
<1>1. PICK h, m : h = 2^(Word - 1) /\ m = 2^Word
  OBVIOUS
<1>2. h \in Nat /\ h > 0 /\ m = 2 * h /\ n \in 0..(m - 1) /\ m \in Nat /\ m > 0
  BY <1>1, HalfWords, WordNumbers
<1>3. Signed(n) = IF n > h - 1 THEN n - m ELSE n
  BY <1>1 DEF Signed, Highest
<1>4. PICK x : x = n + h
  OBVIOUS
<1>5. x \in Int
  BY <1>2, <1>4
<1>6. CASE n > h - 1
  <2>1. n - h \in 0..(m - 1) /\ x = m * 1 + (n - h) /\ 1 \in Int
    BY <1>2, <1>4, <1>6
  <2>2. x % m = n - h
    BY ONLY <1>2, <1>5, <2>1, RemainderIs
  <2>3. Signed(n) = n - m /\ (n - m) + h = n - h /\ n - m \in Int
    BY <1>2, <1>3, <1>6
  <2> QED
    BY ONLY <1>1, <1>4, <2>2, <2>3
<1>7. CASE ~(n > h - 1)
  <2>1. x \in 0..(m - 1) /\ x = m * 0 + x /\ 0 \in Int
    BY <1>2, <1>4, <1>7
  <2>2. x % m = x
    BY ONLY <1>2, <1>5, <2>1, RemainderIs
  <2>3. Signed(n) = n /\ n \in Int
    BY <1>2, <1>3, <1>7
  <2> QED
    BY ONLY <1>1, <1>4, <2>2, <2>3
<1> QED
  BY <1>6, <1>7

(* The words, in the order of the numbers they stand for. *)
Precedes(a, b) == (a + 2^(Word - 1)) % 2^Word > (b + 2^(Word - 1)) % 2^Word

LEMMA OrderOfWords ==
    ASSUME NEW a \in Words, NEW b \in Words
    PROVE  /\ \A v \in OfWords(10, a, b) : v.n = 1 <=> Precedes(a, b)
           /\ \A v \in OfWords(13, a, b) : v.n = 0 <=> Precedes(a, b)
<1>1. PICK h, x, y : h = 2^(Word - 1) /\ x = Signed(a) /\ y = Signed(b)
  OBVIOUS
<1>2. h \in Nat /\ x \in Int /\ y \in Int
  BY <1>1, HalfWords, SignedOrder
<1>3. Precedes(a, b) <=> x + h > y + h
  BY <1>1, SignedOrder DEF Precedes
<1>4. Precedes(a, b) <=> x > y
  BY <1>2, <1>3
<1>5. OfWords(10, a, b) = {Uint(IF Signed(a) > Signed(b) THEN 1 ELSE 0)}
  BY DEF OfWords, Truth, Bitwise
<1>6. OfWords(13, a, b) = {Uint(IF Signed(a) <= Signed(b) THEN 1 ELSE 0)}
  BY DEF OfWords, Truth, Bitwise
<1>7. Uint(0).n = 0 /\ Uint(1).n = 1
  BY DEF Uint
<1>8. \A v \in OfWords(10, a, b) : v.n = IF x > y THEN 1 ELSE 0
  BY ONLY <1>1, <1>5, <1>7
<1>9. \A v \in OfWords(13, a, b) : v.n = IF x <= y THEN 1 ELSE 0
  BY ONLY <1>1, <1>6, <1>7
<1> QED
  BY ONLY <1>2, <1>4, <1>8, <1>9

LEMMA DifferenceOfWords ==
    ASSUME NEW a \in Words, NEW b \in Words
    PROVE  Unsigned(Unsigned(a - b) + b) = a
<1>1. PICK m, n : m = 2^Word /\ n = a - b
  OBVIOUS
<1>2. m \in Nat /\ m > 0 /\ a \in 0..(m - 1) /\ b \in Nat /\ n \in Int
  BY <1>1, WordNumbers
<1>3. PICK q, r : q = n \div m /\ r = n % m
  OBVIOUS
<1>4. q \in Int /\ r \in 0..(m - 1) /\ n = m * q + r
  BY <1>2, <1>3, Remainder
<1>5. PICK p, t : p = m * q /\ t = m * (-q)
  OBVIOUS
<1>6. p \in Int /\ t = -p /\ -q \in Int
  BY <1>2, <1>4, <1>5
<1>7. PICK x : x = r + b
  OBVIOUS
<1>8. x \in Int /\ x = m * (-q) + a
  BY <1>1, <1>2, <1>4, <1>5, <1>6, <1>7
<1>9. x % m = a
  BY ONLY <1>2, <1>6, <1>8, RemainderIs
<1> QED
  BY ONLY <1>1, <1>3, <1>7, <1>9 DEF Unsigned

LEMMA QuotientOfWords ==
    ASSUME NEW a \in Words, NEW b \in Words, b # 0
    PROVE  /\ Unsigned(a \div b) = a \div b /\ Unsigned(a % b) = a % b
           /\ a % b \in 0..(b - 1) /\ a = (a \div b) * b + (a % b)
           /\ (a - (a % b)) % b = 0
<1>1. PICK m, q, r : m = 2^Word /\ q = a \div b /\ r = a % b
  OBVIOUS
<1>2. /\ m \in Nat /\ Words = 0..(m - 1) /\ a \in Nat /\ a < m /\ b \in Nat /\ b < m /\ b > 0
      /\ a \in Int
  BY <1>1, WordNumbers
<1>3. q \in Nat /\ r \in 0..(b - 1) /\ a = b * q + r
  BY ONLY <1>1, <1>2, Divided
<1>4. PICK p, j : p = b * q /\ j = b - 1
  OBVIOUS
<1>5. j * q \in Nat /\ p = j * q + q /\ p = q * b /\ p \in Nat
  BY <1>2, <1>3, <1>4
<1>6. q <= a /\ r < b /\ r \in Nat
  BY <1>2, <1>3, <1>4, <1>5
<1>7. q \in Words /\ r \in Words
  BY <1>2, <1>3, <1>6
<1>8. Unsigned(q) = q /\ Unsigned(r) = r
  BY <1>7, UnsignedIn
<1>9. PICK x : x = a - r
  OBVIOUS
<1>10. x \in Int /\ x = b * q + 0 /\ 0 \in 0..(b - 1) /\ q \in Int
  BY <1>2, <1>3, <1>4, <1>5, <1>9
<1>11. x % b = 0
  BY ONLY <1>2, <1>10, RemainderIs
<1>12. a = q * b + r
  BY ONLY <1>3, <1>4, <1>5
<1> QED
  BY ONLY <1>1, <1>3, <1>8, <1>9, <1>11, <1>12

(* What the specification says of the result v of an operation on x. *)
LEMMA ComputedRight ==
    ASSUME NEW operation \in Operations, NEW x \in Seq(Values), NEW v \in Results(operation, x),
           NEW a, a = x[1].n, NEW b, b = x[2].n
    PROVE  /\ v.float => IsFinite(AsDouble(v)) /\ FromDouble(AsDouble(v)) = v
           /\ (\A i \in DOMAIN x : ~x[i].float) =>
                  /\ operation = 1 => Unsigned(v.n + b) = a
                  /\ operation = 3 => \E r \in 0..(b - 1) : a = v.n * b + r
                  /\ operation = 4 => v.n < b /\ (a - v.n) % b = 0
                  /\ operation = 5 => v.n = PowerOf(a, b)
                  /\ operation = 10 => (v.n = 1 <=> Precedes(a, b))
                  /\ operation = 13 => (v.n = 0 <=> Precedes(a, b))
<1>1. v.float => IsFinite(AsDouble(v)) /\ FromDouble(AsDouble(v)) = v
  BY ResultsOf, ResultIsValue
<1> SUFFICES ASSUME \A i \in DOMAIN x : ~x[i].float
             PROVE  /\ operation = 1 => Unsigned(v.n + b) = a
                    /\ operation = 3 => \E r \in 0..(b - 1) : a = v.n * b + r
                    /\ operation = 4 => v.n < b /\ (a - v.n) % b = 0
                    /\ operation = 5 => v.n = PowerOf(a, b)
                    /\ operation = 10 => (v.n = 1 <=> Precedes(a, b))
                    /\ operation = 13 => (v.n = 0 <=> Precedes(a, b))
  BY <1>1
<1>2. operation < 16 => a \in Words /\ b \in Words /\ v \in OfWords(operation, a, b)
  BY ResultsOf
<1>3. \A n \in Int : \A w \in Integer(n) : w.n = Unsigned(n)
  BY WordResults
<1>4. ASSUME operation = 1
      PROVE  Unsigned(v.n + b) = a
  <2>1. a \in Words /\ b \in Words /\ v \in Integer(a - b)
    BY <1>2, <1>4, OfWordsAt
  <2>2. a - b \in Int
    BY <2>1, WordNumbers
  <2>3. v.n = Unsigned(a - b)
    BY ONLY <1>3, <2>1, <2>2
  <2>4. Unsigned(Unsigned(a - b) + b) = a
    BY ONLY <2>1, DifferenceOfWords
  <2> QED
    BY ONLY <2>3, <2>4
<1>5. ASSUME operation \in {3, 4}
      PROVE  /\ operation = 3 => \E r \in 0..(b - 1) : a = v.n * b + r
             /\ operation = 4 => v.n < b /\ (a - v.n) % b = 0
  <2>1. a \in Words /\ b \in Words /\ v \in OfWords(operation, a, b)
    BY <1>2, <1>5
  <2>2. PICK q, r : q = a \div b /\ r = a % b
    OBVIOUS
  <2>3. b # 0 /\ (operation = 3 => v \in Integer(q)) /\ (operation = 4 => v \in Integer(r))
    <3>1. /\ OfWords(3, a, b) = IF b = 0 THEN {} ELSE Integer(a \div b)
          /\ OfWords(4, a, b) = IF b = 0 THEN {} ELSE Integer(a % b)
      BY DEF OfWords, Truth, Bitwise
    <3> QED
      BY ONLY <1>5, <2>1, <2>2, <3>1
  <2>4. q \in Int /\ r \in Int /\ b \in Nat
    <3>1. a \in Int /\ b \in Nat /\ b > 0
      BY <2>1, <2>3, WordNumbers
    <3> QED
      BY ONLY <2>2, <3>1, DividedInt
  <2>5. Unsigned(q) = q /\ Unsigned(r) = r /\ r \in 0..(b - 1) /\ a = q * b + r /\ (a - r) % b = 0
    BY ONLY <2>1, <2>2, <2>3, QuotientOfWords
  <2>6. operation = 3 => v.n = q
    BY ONLY <1>3, <2>3, <2>4, <2>5
  <2>7. operation = 4 => v.n = r
    BY ONLY <1>3, <2>3, <2>4, <2>5
  <2>8. r < b
    BY ONLY <2>4, <2>5
  <2> QED
    BY ONLY <2>5, <2>6, <2>7, <2>8
<1>6. ASSUME operation = 5
      PROVE  v.n = PowerOf(a, b)
  <2>1. a \in Words /\ b \in Words /\ v \in Integer(ModularPower(a, b))
    BY <1>2, <1>6, OfWordsAt
  <2>2. PICK p : p = PowerOf(a, b)
    OBVIOUS
  <2>3. ModularPower(a, b) = p /\ p \in Words
    BY <2>1, <2>2, ModularPowerIs
  <2>4. p \in Int /\ Unsigned(p) = p
    BY <2>3, WordNumbers, UnsignedIn
  <2> QED
    BY ONLY <1>3, <2>1, <2>2, <2>3, <2>4
<1>7. ASSUME operation \in {10, 13}
      PROVE  /\ operation = 10 => (v.n = 1 <=> Precedes(a, b))
             /\ operation = 13 => (v.n = 0 <=> Precedes(a, b))
  <2>1. a \in Words /\ b \in Words /\ v \in OfWords(operation, a, b)
    BY <1>2, <1>7
  <2> QED
    BY <1>7, <2>1, OrderOfWords
<1> QED
  BY <1>4, <1>5, <1>6, <1>7

-----------------------------------------------------------------------------
(* The stream.  Its inductive invariant says where every item that was     *)
(* written stands, what the last read was of, and that operands and        *)
(* results are values.                                                     *)

IsSequence(w) == w \in Seq({w[i] : i \in DOMAIN w})

\* The i-th item ends where the next one begins.
EndOf(s, w, i) == IF i = Len(w) THEN Len(s) ELSE w[i + 1].from
ItemAt(s, item, end) ==
    /\ item.kind \in Kinds \union Files /\ IsItem(item.kind, item.value)
    /\ CanEncode(item.kind, item.value)
    /\ Between(s, item.from, end, Encode(item.kind, item.value))

StreamTyped(s, c, x) == s \in Bits /\ c \in 0..Len(s) /\ x \in Seq(Values)
ItemsStand(s, w) == IsSequence(w) /\ \A i \in DOMAIN w : ItemAt(s, w[i], EndOf(s, w, i))
ReadFrom(s, l) ==
    l.kind # "none" =>
        /\ l.kind \in Kinds \union Files /\ l.from \in 0..Len(s)
        /\ l.kind \in Files => l.from = 0
        /\ l.result = Decode(l.kind, s, l.from)
ComputedOf(c) ==
    c.kind # "none" =>
        /\ c.operation \in Operations /\ c.operands \in Seq(Values)
        /\ c.result \in Results(c.operation, c.operands)

StreamInv ==
    /\ StreamTyped(stream, at, operands)
    /\ ItemsStand(stream, written)
    /\ ReadFrom(stream, last)
    /\ ComputedOf(computed)

LEMMA BetweenMore ==
    ASSUME NEW s \in Bits, NEW f \in Bits
    PROVE  /\ s \o f \in Bits
           /\ Between(s \o f, Len(s), Len(s \o f), f)
           /\ \A c, d, e : Between(s, c, d, e) => Between(s \o f, c, d, e)
<1>1. /\ s \o f \in Bits /\ Len(s \o f) = Len(s) + Len(f) /\ Len(s) \in Nat /\ Len(f) \in Nat
      /\ \A i \in 1..Len(s) : (s \o f)[i] = s[i]
      /\ \A i \in 1..Len(f) : (s \o f)[Len(s) + i] = f[i]
  BY Joined, BitsParts
<1>2. PICK t : t = s \o f
  OBVIOUS
<1>3. Between(t, Len(s), Len(t), f)
  BY <1>1, <1>2 DEF Between, Stands
<1>4. ASSUME NEW c, NEW d, NEW e, Between(s, c, d, e)
      PROVE  Between(t, c, d, e)
  <2>1. Stands(s, c, e) /\ d = c + Len(e)
    BY <1>4 DEF Between
  <2>2. e \in Bits /\ Len(e) \in Nat /\ c \in Nat /\ c + Len(e) <= Len(s)
    BY <2>1, StandsIn
  <2>3. \A i \in 1..Len(e) : c + i \in 1..Len(s)
    BY <1>1, <2>2
  <2>4. Stands(t, c, e)
    BY <1>1, <1>2, <2>1, <2>2, <2>3 DEF Stands
  <2> QED
    BY <2>1, <2>4 DEF Between
<1> QED
  BY <1>1, <1>2, <1>3, <1>4

\* An item that is appended stands behind the others, which stay.
LEMMA ItemAppended ==
    ASSUME NEW s \in Bits, NEW w, ItemsStand(s, w), NEW kind \in Kinds \union Files, NEW v,
           IsItem(kind, v), CanEncode(kind, v), NEW e, e = Encode(kind, v),
           NEW item, item = [kind |-> kind, value |-> v, from |-> Len(s)]
    PROVE  s \o e \in Bits /\ ItemsStand(s \o e, Append(w, item))
<1>1. e \in Bits
  BY ItemWritten
<1>2. PICK t : t = s \o e
  OBVIOUS
<1>3. /\ t \in Bits /\ Between(t, Len(s), Len(t), e)
      /\ \A c, d, f : Between(s, c, d, f) => Between(t, c, d, f)
  BY <1>1, <1>2, BetweenMore
<1>4. PICK S : S = {w[i] : i \in DOMAIN w}
  OBVIOUS
<1>5. w \in Seq(S) /\ Len(w) \in Nat /\ DOMAIN w = 1..Len(w)
  BY <1>4 DEF ItemsStand, IsSequence
<1>6. PICK x, n : x = Append(w, item) /\ n = Len(w)
  OBVIOUS
<1>7. /\ x \in Seq(S \union {item}) /\ Len(x) = n + 1 /\ x[n + 1] = item /\ DOMAIN x = 1..(n + 1)
      /\ \A i \in 1..n : x[i] = w[i]
  BY <1>5, <1>6
<1>8. IsSequence(x)
  <2>1. \A i \in 1..(n + 1) : x[i] \in {x[j] : j \in DOMAIN x}
    BY <1>7
  <2>2. n + 1 \in Nat /\ x = [i \in 1..(n + 1) |-> x[i]]
    BY <1>5, <1>6, <1>7
  <2>3. PICK R : R = {x[j] : j \in DOMAIN x}
    OBVIOUS
  <2>4. x \in [1..(n + 1) -> R]
    BY <2>1, <2>2, <2>3
  <2> QED
    BY <2>2, <2>3, <2>4, SMTT(30) DEF IsSequence
<1>9. n \in Nat /\ \A i \in 1..(n + 1) : i = n + 1 \/ i \in 1..n
  BY <1>5, <1>6
<1>10. ItemAt(t, x[n + 1], EndOf(t, x, n + 1))
  <2>1. item.kind = kind /\ item.value = v /\ item.from = Len(s)
    OBVIOUS
  <2>2. EndOf(t, x, n + 1) = Len(t)
    BY <1>7 DEF EndOf
  <2> QED
    BY <1>3, <1>7, <2>1, <2>2 DEF ItemAt
<1>11. ASSUME NEW i \in 1..n
       PROVE  ItemAt(t, x[i], EndOf(t, x, i))
  <2>1. ItemAt(s, w[i], EndOf(s, w, i))
    BY <1>5, <1>6 DEF ItemsStand
  <2>2. EndOf(t, x, i) = EndOf(s, w, i)
    <3>1. CASE i = n
      <4>1. EndOf(s, w, i) = Len(s)
        BY <1>6, <3>1 DEF EndOf
      <4>2. EndOf(t, x, i) = x[n + 1].from
        BY <1>7, <1>9, <3>1 DEF EndOf
      <4> QED
        BY <1>7, <4>1, <4>2
    <3>2. CASE i # n
      <4>1. EndOf(s, w, i) = w[i + 1].from
        BY <1>6, <3>2 DEF EndOf
      <4>2. EndOf(t, x, i) = x[i + 1].from
        BY <1>7, <1>9 DEF EndOf
      <4>3. i + 1 \in 1..n
        BY <1>9, <3>2
      <4> QED
        BY <1>7, <4>1, <4>2, <4>3
    <3> QED
      BY <3>1, <3>2
  <2> QED
    BY <1>3, <1>7, <2>1, <2>2 DEF ItemAt
<1>12. \A i \in DOMAIN x : ItemAt(t, x[i], EndOf(t, x, i))
  BY <1>7, <1>9, <1>10, <1>11
<1> QED
  BY <1>2, <1>3, <1>6, <1>8, <1>12 DEF ItemsStand

\* What a reader makes of any bits.
LEMMA ReadResult ==
    ASSUME NEW kind \in Kinds \union Files, NEW s \in Bits, NEW c \in 0..Len(s),
           kind \in Files => c = 0, NEW r, r = Decode(kind, s, c)
    PROVE  /\ r.at \in 0..Len(s)
           /\ ~r.ok => r.at = c
           /\ r.ok => /\ IsItem(kind, r.value) /\ CanEncode(kind, r.value)
                      /\ Encode(kind, r.value) = SubSeq(s, c + 1, r.at)
<1>1. Meets(kind, s, c)
  BY ItemMet
<1>2. CASE r = Failed(c)
  BY <1>2, Results2
<1>3. CASE r # Failed(c)
  <2>1. PICK v, d : MeetsItem(kind, s, c, v, d)
    BY <1>1, <1>3 DEF Meets
  <2>2. IsItem(kind, v) /\ CanEncode(kind, v) /\ Between(s, c, d, Encode(kind, v)) /\ r = Got(v, d)
    BY <2>1 DEF MeetsItem
  <2>3. d \in 0..Len(s) /\ Encode(kind, v) = SubSeq(s, c + 1, d)
    <3>1. PICK e : e = Encode(kind, v)
      OBVIOUS
    <3>2. Between(s, c, d, e)
      BY <2>2, <3>1
    <3>3. Stands(s, c, e) /\ d = c + Len(e)
      BY <3>2 DEF Between
    <3>4. SubSeq(s, c + 1, c + Len(e)) = e
      BY <3>3, SliceIs
    <3>5. c + Len(e) \in 0..Len(s)
      BY <3>3, StandsIn
    <3> QED
      BY <3>1, <3>3, <3>4, <3>5
  <2>4. r.ok /\ r.value = v /\ r.at = d
    BY <2>2, Results2
  <2> QED
    BY <2>2, <2>3, <2>4
<1> QED
  BY <1>2, <1>3

LEMMA StreamStarts == StreamInit => StreamInv
<1> SUFFICES ASSUME StreamInit
             PROVE  StreamInv
  OBVIOUS
<1>1. stream \in Bits /\ Len(stream) \in Nat /\ 0 \in 0..Len(stream)
  BY StreamAssumption, BitsParts DEF StreamInit
<1>2. StreamTyped(stream, at, operands)
  BY <1>1 DEF StreamInit, StreamTyped
<1>3. ItemsStand(stream, written)
  BY DEF StreamInit, ItemsStand, IsSequence
<1>4. last.kind = "none" /\ computed.kind = "none"
  BY DEF StreamInit, Nothing
<1> QED
  BY <1>2, <1>3, <1>4 DEF StreamInv, ReadFrom, ComputedOf

LEMMA StreamStep == StreamInv /\ [StreamNext]_streamVars => StreamInv'
<1> SUFFICES ASSUME StreamInv, [StreamNext]_streamVars
             PROVE  StreamInv'
  OBVIOUS
<1>1. /\ StreamTyped(stream, at, operands) /\ ItemsStand(stream, written)
      /\ ReadFrom(stream, last) /\ ComputedOf(computed)
  BY DEF StreamInv
<1>2. stream \in Bits /\ at \in 0..Len(stream) /\ operands \in Seq(Values) /\ Len(stream) \in Nat
  BY <1>1, BitsParts DEF StreamTyped
<1>3. ASSUME NEW kind \in Kinds \union Files, NEW v, IsItem(kind, v), Appended(kind, v)
      PROVE  /\ stream' \in Bits /\ Len(stream') \in Nat /\ Len(stream) <= Len(stream')
             /\ ItemsStand(stream', written') /\ ReadFrom(stream', last')
  <2>1. PICK e, item : /\ e = Encode(kind, v)
                       /\ item = [kind |-> kind, value |-> v, from |-> Len(stream)]
    OBVIOUS
  <2>2. stream' = stream \o e /\ written' = Append(written, item) /\ CanEncode(kind, v)
        /\ last' = Nothing
    BY <1>3, <2>1 DEF Appended
  <2>3. stream \o e \in Bits /\ ItemsStand(stream \o e, Append(written, item))
    BY ONLY <1>1, <1>2, <1>3, <2>1, <2>2, ItemAppended
  <2>4. e \in Bits
    BY <1>3, <2>1, <2>2, ItemWritten
  <2>5. Len(stream \o e) = Len(stream) + Len(e) /\ Len(e) \in Nat
    BY <1>2, <2>4, Joined, BitsParts
  <2>6. last'.kind = "none"
    BY <2>2 DEF Nothing
  <2> QED
    BY <1>2, <2>2, <2>3, <2>5, <2>6 DEF ReadFrom
<1>4. ASSUME NEW item \in Items, Put(item)
      PROVE  StreamInv'
  <2>1. /\ at = 0 /\ Appended(item.kind, item.value) /\ at' = at /\ operands' = operands
        /\ computed' = computed
    BY <1>4 DEF Put
  <2>2. item.kind \in Kinds \union Files /\ IsItem(item.kind, item.value)
    BY StreamAssumption
  <2>3. /\ stream' \in Bits /\ Len(stream') \in Nat /\ Len(stream) <= Len(stream')
        /\ ItemsStand(stream', written') /\ ReadFrom(stream', last')
    BY <1>3, <2>1, <2>2
  <2>4. StreamTyped(stream', at', operands')
    BY <1>2, <2>1, <2>3 DEF StreamTyped
  <2>5. ComputedOf(computed')
    BY <1>1, <2>1
  <2> QED
    BY <2>3, <2>4, <2>5 DEF StreamInv
<1>5. ASSUME NEW i \in DOMAIN stream, Flip(i)
      PROVE  StreamInv'
  <2>1. /\ at = 0 /\ last = Nothing /\ stream' = [stream EXCEPT ![i] = 1 - stream[i]]
        /\ written' = <<>> /\ at' = at /\ last' = last /\ operands' = operands
        /\ computed' = computed
    BY <1>5 DEF Flip
  <2>2. stream \in Seq({0, 1})
    BY <1>2 DEF Bits
  <2>3. stream' \in Seq({0, 1})
    <3>1. 1 - stream[i] \in {0, 1}
      BY <2>2
    <3> QED
      BY <2>1, <2>2, <3>1
  <2>4. stream' \in Bits /\ Len(stream') \in Nat /\ 0 \in 0..Len(stream')
    BY <2>3, BitsParts DEF Bits
  <2>5. StreamTyped(stream', at', operands')
    BY <1>2, <2>1, <2>4 DEF StreamTyped
  <2>6. ItemsStand(stream', written')
    BY <2>1 DEF ItemsStand, IsSequence
  <2>7. ReadFrom(stream', last') /\ ComputedOf(computed')
    BY <1>1, <2>1 DEF ReadFrom, Nothing
  <2> QED
    BY <2>5, <2>6, <2>7 DEF StreamInv
<1>6. ASSUME NEW kind \in Kinds \union Files, Read(kind)
      PROVE  StreamInv'
  <2>1. PICK r : /\ r = Decode(kind, stream, at) /\ at' = r.at
                 /\ last' = [kind |-> kind, from |-> at, result |-> r]
                 /\ operands' = IF r.ok /\ kind = "value"
                                THEN (IF Len(operands) = 2 THEN Tail(operands) ELSE operands)
                                     \o <<r.value>>
                                ELSE operands
                 /\ stream' = stream /\ written' = written /\ computed' = computed
    BY <1>6 DEF Read
  <2>2. kind \in Files => at = 0
    BY <1>6 DEF Read
  <2>3. /\ r.at \in 0..Len(stream)
        /\ r.ok => IsItem(kind, r.value)
    BY <1>2, <2>1, <2>2, ReadResult
  <2>4. operands' \in Seq(Values)
    <3>1. CASE r.ok /\ kind = "value"
      <4>1. r.value \in Values
        BY <2>3, <3>1, ItemOf
      <4>2. PICK x, y : /\ x = IF Len(operands) = 2 THEN Tail(operands) ELSE operands
                        /\ y = r.value
        OBVIOUS
      <4>3. x \in Seq(Values)
        <5>1. Len(operands) = 2 => Tail(operands) \in Seq(Values)
          <6>1. Len(operands) = 2 => operands # <<>>
            OBVIOUS
          <6> QED
            BY <1>2, <6>1
        <5> QED
          BY <1>2, <4>2, <5>1
      <4>4. operands' = x \o <<y>> /\ y \in Values
        BY <2>1, <3>1, <4>1, <4>2
      <4> QED
        BY ONLY <4>3, <4>4
    <3>2. CASE ~(r.ok /\ kind = "value")
      BY <1>2, <2>1, <3>2
    <3> QED
      BY <3>1, <3>2
  <2>5. StreamTyped(stream', at', operands')
    BY <1>2, <2>1, <2>3, <2>4 DEF StreamTyped
  <2>6. ReadFrom(stream', last')
    <3>1. last'.kind = kind /\ last'.from = at /\ last'.result = r
      BY <2>1
    <3> QED
      BY <1>2, <2>1, <2>2, <3>1 DEF ReadFrom
  <2>7. ItemsStand(stream', written') /\ ComputedOf(computed')
    BY <1>1, <2>1
  <2> QED
    BY <2>5, <2>6, <2>7 DEF StreamInv
<1>7. ASSUME NEW operation \in Operations, Compute(operation)
      PROVE  StreamInv'
  <2>1. PICK v \in Results(operation, operands) :
            /\ Appended("value", v) /\ operands' = <<>> /\ at' = at
            /\ computed' = [kind |-> "computed", operation |-> operation,
                            operands |-> operands, result |-> v]
    BY <1>7 DEF Compute
  <2>2. v \in Values
    BY <1>2, ResultsOf, ResultIsValue
  <2>3. "value" \in Kinds \union Files /\ IsItem("value", v)
    BY <2>2, ItemOf DEF Kinds
  <2>4. /\ stream' \in Bits /\ Len(stream') \in Nat /\ Len(stream) <= Len(stream')
        /\ ItemsStand(stream', written') /\ ReadFrom(stream', last')
    BY <1>3, <2>1, <2>3
  <2>5. StreamTyped(stream', at', operands')
    BY <1>2, <2>1, <2>4 DEF StreamTyped
  <2>6. ComputedOf(computed')
    <3>1. computed'.operation = operation /\ computed'.operands = operands /\ computed'.result = v
      BY <2>1
    <3> QED
      BY <1>2, <2>1, <3>1 DEF ComputedOf
  <2> QED
    BY <2>4, <2>5, <2>6 DEF StreamInv
<1>8. CASE UNCHANGED streamVars
  BY <1>8 DEF streamVars, StreamInv
<1> QED
  BY <1>4, <1>5, <1>6, <1>7, <1>8 DEF StreamNext

\* The inductive invariant of a stream of items: src/src/codec.cpp writes one
\* item behind another and reads from where the last read stopped, and
\* src/src/arithmetic.cpp computes with values that were read.
THEOREM StreamReached == StreamSpec => []StreamInv
<1> QED
  BY StreamStarts, StreamStep, PTL DEF StreamSpec

\* There is one way to write an item: whatever bits a decoder accepts are the
\* bits its encoder gives for the value it made of them, for words, bytes, ids
\* and node fields of every width, every kind of item and all bits.
THEOREM ReadsAreCanonical == StreamSpec => []CanonicalInput
<1>1. StreamInv => CanonicalInput
  <2> SUFFICES ASSUME StreamInv, HasRead, last.result.ok
               PROVE  /\ CanEncode(last.kind, last.result.value)
                      /\ Encode(last.kind, last.result.value) =
                             SubSeq(stream, last.from + 1, last.result.at)
    BY DEF CanonicalInput
  <2>1. stream \in Bits /\ ReadFrom(stream, last)
    BY DEF StreamInv, StreamTyped
  <2>2. /\ last.kind \in Kinds \union Files /\ last.from \in 0..Len(stream)
        /\ last.kind \in Files => last.from = 0
        /\ last.result = Decode(last.kind, stream, last.from)
    BY <2>1 DEF ReadFrom, HasRead
  <2>3. PICK k, c, r : k = last.kind /\ c = last.from /\ r = last.result
    OBVIOUS
  <2>4. /\ k \in Kinds \union Files /\ stream \in Bits /\ c \in 0..Len(stream)
        /\ k \in Files => c = 0
        /\ r = Decode(k, stream, c)
    BY <2>1, <2>2, <2>3
  <2>5. /\ r.at \in 0..Len(stream)
        /\ ~r.ok => r.at = c
        /\ r.ok => /\ IsItem(k, r.value) /\ CanEncode(k, r.value)
                   /\ Encode(k, r.value) = SubSeq(stream, c + 1, r.at)
    BY ONLY <2>4, ReadResult
  <2> QED
    BY <2>3, <2>5
<1> QED
  BY <1>1, StreamReached, PTL

\* A decoder that fails, in whatever field of an item and of whatever bits,
\* leaves its caller's cursor where it was.
THEOREM FailedReadsMoveNoCursor == StreamSpec => []FailedReadKeepsCursor
<1>1. StreamInv => FailedReadKeepsCursor
  <2> SUFFICES ASSUME StreamInv, HasRead, ~last.result.ok
               PROVE  last.result.at = last.from
    BY DEF FailedReadKeepsCursor
  <2>1. stream \in Bits /\ ReadFrom(stream, last)
    BY DEF StreamInv, StreamTyped
  <2>2. /\ last.kind \in Kinds \union Files /\ last.from \in 0..Len(stream)
        /\ last.kind \in Files => last.from = 0
        /\ last.result = Decode(last.kind, stream, last.from)
    BY <2>1 DEF ReadFrom, HasRead
  <2> QED
    BY <2>1, <2>2, ReadResult
<1> QED
  BY <1>1, StreamReached, PTL

\* An item read where it was written, as the kind it was written as, is the
\* value that was written (a float normalized), and the cursor then stands at
\* the next item, whatever follows; a file is read when nothing follows.
THEOREM WrittenIsReadBack == StreamSpec => []ReadsBackWhatWasWritten
<1>1. StreamInv => ReadsBackWhatWasWritten
  <2> SUFFICES ASSUME StreamInv, NEW i \in DOMAIN written, NEW item, item = written[i],
                      NEW next, next = EndOf(stream, written, i),
                      last.kind = item.kind, last.from = item.from
               PROVE  last.result = IF item.kind \in Files /\ next # Len(stream) THEN Failed(0)
                                    ELSE Got(Normal(item.kind, item.value), next)
    BY DEF ReadsBackWhatWasWritten, EndOf
  <2>1. ReadFrom(stream, last) /\ ItemAt(stream, item, next)
    BY DEF StreamInv, ItemsStand
  <2>2. /\ item.kind \in Kinds \union Files /\ IsItem(item.kind, item.value)
        /\ CanEncode(item.kind, item.value)
        /\ Between(stream, item.from, next, Encode(item.kind, item.value))
    BY <2>1 DEF ItemAt
  <2>3. item.kind # "none"
    BY <2>2, CommandNames DEF Kinds, Files
  <2>4. /\ item.kind \in Files => item.from = 0
        /\ last.result = Decode(item.kind, stream, item.from)
    BY <2>1, <2>3 DEF ReadFrom
  <2>5. ReadsBack(item.kind, stream, item.from, item.value, next)
    BY <2>2, <2>4, ItemBack
  <2> QED
    BY <2>4, <2>5 DEF ReadsBack
<1> QED
  BY <1>1, StreamReached, PTL

\* COMPUTE gives what docs/specification-v2.md, section 8, says it gives.
THEOREM ComputationsAsSpecified == StreamSpec => []ComputesAsSpecified
<1>1. StreamInv => ComputesAsSpecified
  <2> SUFFICES ASSUME StreamInv, computed.kind # "none"
               PROVE  ComputesAsSpecified
    BY DEF ComputesAsSpecified
  <2>1. PICK operation, x, v, a, b :
            /\ operation = computed.operation /\ x = computed.operands /\ v = computed.result
            /\ a = x[1].n /\ b = x[2].n
    OBVIOUS
  <2>2. operation \in Operations /\ x \in Seq(Values) /\ v \in Results(operation, x)
    BY <2>1 DEF StreamInv, ComputedOf
  <2>3. /\ v.float => IsFinite(AsDouble(v)) /\ FromDouble(AsDouble(v)) = v
        /\ (\A i \in DOMAIN x : ~x[i].float) =>
               /\ operation = 1 => Unsigned(v.n + b) = a
               /\ operation = 3 => \E r \in 0..(b - 1) : a = v.n * b + r
               /\ operation = 4 => v.n < b /\ (a - v.n) % b = 0
               /\ operation = 5 => v.n = PowerOf(a, b)
               /\ operation = 10 => (v.n = 1 <=> Precedes(a, b))
               /\ operation = 13 => (v.n = 0 <=> Precedes(a, b))
    BY <2>1, <2>2, ComputedRight
  <2> QED
    BY <2>1, <2>3 DEF ComputesAsSpecified, Precedes
<1> QED
  BY <1>1, StreamReached, PTL
=============================================================================
