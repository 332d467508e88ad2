------------------------------ MODULE Formats -------------------------------
(***************************************************************************)
(* The records that commands, networks and the machine keep in registers:  *)
(* src/src/addressing.cpp (operands), src/src/runtime_reference.cpp,       *)
(* src/src/node.cpp and src/src/activation.cpp.                            *)
(*                                                                         *)
(* A decoder stops at the first field that is not there or not allowed and *)
(* then gives its caller the cursor it was called with.  Each Can... is    *)
(* the condition under which the encoder gives bits and not an error.      *)
(***************************************************************************)
EXTENDS Codec, SequencesExt

CONSTANTS
    IdBits,      \* of a register id: 62
    DataBits,    \* of a node's command: 15
    KindBits,    \* of an activation's prefix kind: 8
    RecordHeader \* magic, version and flags of an activation: 32 bits

ASSUME FormatsAssumption ==
    /\ IdBits \in Nat \ {0}
    /\ IdBits + 2 <= Word
    /\ DataBits \in 4..Word
    /\ KindBits \in 2..Word
    /\ RecordHeader \in Seq({0, 1})

Procedure == 0
Superlocal == 1
Local == 2
Global == 3

-----------------------------------------------------------------------------

(* Handles and runtime references                                          *)

HandleBits == IdBits + 2
MaxOffset == 2^HandleBits - 1
Handle(class, id) == [class |-> class, id |-> id]
Null == [null |-> TRUE]
Handles == [class : 0..3, id : 0..(2^IdBits - 1)]
References == {Null} \cup [null : {FALSE}, handle : Handles, offset : 0..MaxOffset]
At(handle, offset) == [null |-> FALSE, handle |-> handle, offset |-> offset]

CanEncodeHandle(h) == h.id < 2^IdBits /\ (h.class = Procedure => h.id = 0)
EncodeHandle(h) == UintBits(h.class * 2^IdBits + h.id, HandleBits)

HandleOf(raw) == Handle(raw \div 2^IdBits, raw % 2^IdBits)

DecodeHandle(s, at) ==
    Then(ReadUint(s, at, HandleBits), at,
         LAMBDA raw, end : GotIf(CanEncodeHandle(HandleOf(raw)), HandleOf(raw), end))

EncodeRuntimeReference(r) ==
    IF r.null THEN Ones(2 * HandleBits)
    ELSE EncodeHandle(r.handle) \o UintBits(r.offset, HandleBits)

CanEncodeAllOnes(r) == ~r.null => CanEncodeHandle(r.handle)  \* Mutated

\* "all-ones runtime reference is reserved for null"
CanEncodeRuntimeReference(r) ==
    ~r.null => CanEncodeHandle(r.handle) /\ EncodeRuntimeReference(r) # Ones(2 * HandleBits)

DecodeReferenceNoSeek(s, at) ==  \* Mutated: an error leaves the cursor behind the handle
    LET end == at + 2 * HandleBits
        Offset(handle, from) ==
            Then(ReadUint(s, from, HandleBits), from, LAMBDA n, to : Got(At(handle, n), to))
    IN  IF ReadBits(s, at, 2 * HandleBits) = Got(Ones(2 * HandleBits), end) THEN Got(Null, end)
        ELSE Then(DecodeHandle(s, at), at + HandleBits, Offset)

DecodeRuntimeReference(s, at) ==
    LET end == at + 2 * HandleBits
        Offset(handle, from) ==
            Then(ReadUint(s, from, HandleBits), from, LAMBDA n, to : Got(At(handle, n), to))
    IN  IF ReadBits(s, at, 2 * HandleBits) = Got(Ones(2 * HandleBits), end) THEN Got(Null, end)
        ELSE Then(DecodeHandle(s, at), at, Offset)

-----------------------------------------------------------------------------

(* A record of fields, read one after the other: their values, or a        *)
(* failure at the first field that is not there or not allowed.            *)

BitsField(width) == [type |-> "bits", width |-> width]
UintField(width) == [type |-> "uint", width |-> width]
SizeField == [type |-> "size"]
NameField == [type |-> "bit_string"]
HandleField == [type |-> "handle"]
ReferenceField == [type |-> "reference"]

ReadField(s, at, field) ==
    CASE field.type = "bits" -> ReadBits(s, at, field.width)
      [] field.type = "uint" -> ReadUint(s, at, field.width)
      [] field.type = "size" -> DecodeSize(s, at)
      [] field.type = "bit_string" -> DecodeBitString(s, at)
      [] field.type = "handle" -> DecodeHandle(s, at)
      [] field.type = "reference" -> DecodeRuntimeReference(s, at)

ReadAll(Field(_, _, _), s, at, fields) ==
    LET Next(read, field) ==
            Then(read, at, LAMBDA values, from :
                Then(Field(s, from, field), from,
                     LAMBDA v, end : Got(Append(values, v), end)))
    IN  FoldLeft(Next, Got(<<>>, at), fields)

ReadFields(s, at, fields) == ReadAll(ReadField, s, at, fields)

-----------------------------------------------------------------------------

(* Operands                                                                *)

EncodeSelector(x) ==
    UintBits(x.class, 2) \o (IF x.class = Procedure THEN <<>> ELSE EncodeBitString(x.name))

DecodeSelector(s, at) ==
    LET Named(class, from) ==
            IF class = Procedure THEN Got([class |-> Procedure, name |-> <<>>], from)
            ELSE Then(DecodeBitString(s, from), from,
                      LAMBDA name, end : Got([class |-> class, name |-> name], end))
    IN  Then(ReadUint(s, at, 2), at, Named)

EncodeAddress(a) == EncodeSelector(a.selector) \o EncodeSize(a.offset)

DecodeAddress(s, at) ==
    LET Offset(x, from) ==
            Then(DecodeSize(s, from), from,
                 LAMBDA n, end : Got([selector |-> x, offset |-> n], end))
    IN  Then(DecodeSelector(s, at), at, Offset)

\* A reference: an integer, an indirect or direct address, or a local
\* register of an activation `depth` calls further down.
Immediate(n) == [mode |-> 0, n |-> n]
Indirect(a) == [mode |-> 1, address |-> a]
Direct(a) == [mode |-> 2, address |-> a]
Foreign(depth, indirect, name, offset) ==
    [mode |-> 3, depth |-> depth, indirect |-> indirect, name |-> name, offset |-> offset]

\* What operands may be.
Selectors == {[class |-> Procedure, name |-> <<>>]} \union [class : 1..3, name : BitStrings]
Addresses == [selector : Selectors, offset : Words]
OperandReferences ==
    [mode : {0}, n : Words] \union [mode : {1, 2}, address : Addresses]
    \union [mode : {3}, depth : Words, indirect : {0, 1}, name : BitStrings, offset : Words]
Sources ==
    [reference : {r \in OperandReferences : r.mode = 0}, count : {0}, immediate : {TRUE}]
    \union [reference : {r \in OperandReferences : r.mode # 0}, count : Words,
            immediate : {FALSE}]

EncodeReference(r) ==
    UintBits(r.mode, 2) \o
        CASE r.mode = 0 -> EncodeVarUint(r.n)
          [] r.mode \in {1, 2} -> EncodeAddress(r.address)
          [] r.mode = 3 -> EncodeSize(r.depth) \o <<r.indirect>>
                           \o EncodeBitString(r.name) \o EncodeSize(r.offset)

DecodeReference(s, at) ==
    LET ForeignFields == <<SizeField, UintField(1), NameField, SizeField>>
        AddressOf(mode, a) == IF mode = 1 THEN Indirect(a) ELSE Direct(a)
        Typed(mode, from) ==
            CASE mode = 0 ->
                    Then(DecodeVarUint(s, from), from, LAMBDA n, end : Got(Immediate(n), end))
              [] mode \in {1, 2} ->
                    Then(DecodeAddress(s, from), from,
                         LAMBDA a, end : Got(AddressOf(mode, a), end))
              [] mode = 3 ->
                    Then(ReadFields(s, from, ForeignFields), from,
                         LAMBDA v, end : Got(Foreign(v[1], v[2], v[3], v[4]), end))
    IN  Then(ReadUint(s, at, 2), at, Typed)

\* An immediate source has no size; every other has one.
EncodeSource(x) ==
    EncodeReference(x.reference) \o (IF x.immediate THEN <<>> ELSE EncodeSize(x.count))

DecodeSource(s, at) ==
    LET Source(r, count, end) ==
            Got([reference |-> r, count |-> count, immediate |-> r.mode = 0], end)
        Count(r, from) ==
            IF r.mode = 0 THEN Source(r, 0, from)
            ELSE Then(DecodeSize(s, from), from, LAMBDA n, end : Source(r, n, end))
    IN  Then(DecodeReference(s, at), at, Count)

\* "destination cannot be immediate"
CanEncodeDestination(r) == r.mode # 0

DecodeDestination(s, at) ==
    Then(DecodeReference(s, at), at, LAMBDA r, end : GotIf(r.mode # 0, r, end))

-----------------------------------------------------------------------------

(* Nodes                                                                   *)

ActionBits == 3 * HandleBits
NodeBits == 1 + DataBits + ActionBits + 6 * HandleBits
Aligned(r) == ~r.null => r.offset % NodeBits = 0

Builtin(command, next0, next1, resolver) ==
    [call |-> FALSE, command |-> command, next0 |-> next0, next1 |-> next1, resolver |-> resolver]
Call(procedure, entry, next0, next1, resolver) ==
    [call |-> TRUE, procedure |-> procedure, entry |-> entry,
     next0 |-> next0, next1 |-> next1, resolver |-> resolver]
NetworkNodes ==
    [call : {FALSE}, command : 0..14, next0 : References, next1 : References, resolver : References]
    \union [call : {TRUE}, procedure : Handles, entry : References,
            next0 : References, next1 : References, resolver : References]

CanEncodeNode(n) ==
    /\ IF n.call
       THEN /\ CanEncodeHandle(n.procedure)
            /\ ~n.entry.null
            /\ CanEncodeRuntimeReference(n.entry)
            /\ Aligned(n.entry)
       ELSE n.command <= 14
    /\ \A r \in {n.next0, n.next1, n.resolver} : CanEncodeRuntimeReference(r) /\ Aligned(r)

EncodeNode(n) ==
    (IF n.call
     THEN <<1>> \o Zeros(DataBits) \o EncodeHandle(n.procedure) \o EncodeRuntimeReference(n.entry)
     ELSE <<0>> \o UintBits(n.command, DataBits) \o Zeros(ActionBits))
    \o EncodeRuntimeReference(n.next0) \o EncodeRuntimeReference(n.next1)
    \o EncodeRuntimeReference(n.resolver)

DecodeNode(s, at) ==
    LET links == <<ReferenceField, ReferenceField, ReferenceField>>
        action(type) == IF type = 0 THEN <<BitsField(ActionBits)>> ELSE <<HandleField, ReferenceField>>
        BuiltinOf(v, end) ==
            GotIf(/\ v[1] <= 14 /\ v[2] = Zeros(ActionBits)
                  /\ \A i \in 3..5 : Aligned(v[i]),
                  Builtin(v[1], v[3], v[4], v[5]), end)
        CallOf(v, end) ==
            GotIf(/\ v[1] = 0 /\ ~v[3].null
                  /\ \A i \in 3..6 : Aligned(v[i]),
                  Call(v[2], v[3], v[4], v[5], v[6]), end)
        Typed(type, from) ==
            Then(ReadFields(s, from, <<UintField(DataBits)>> \o action(type) \o links), from,
                 LAMBDA v, end : IF type = 0 THEN BuiltinOf(v, end) ELSE CallOf(v, end))
    IN  Then(ReadBit(s, at), at, Typed)

-----------------------------------------------------------------------------

(* Activation records.  A prefix is none (0), read (1) or modify (2) with  *)
(* a depth, or a condition (3).                                            *)

Prefix(kind, depth, condition) == [kind |-> kind, depth |-> depth, condition |-> condition]

RecordPrefixes == [kind : 0..3, depth : 0..MaxOffset, condition : BOOLEAN]
Activations ==
    [procedure : Handles, position : 0..MaxOffset, network : References, local : References,
     previous : References, result : Handles, prefix : RecordPrefixes]

CanEncodePrefix(p) ==
    /\ p.kind \in 0..3
    /\ p.kind \in {0, 3} => p.depth = 0
    /\ p.kind # 3 => ~p.condition

EncodePrefix(p) ==
    UintBits(p.kind, KindBits) \o Zeros(HandleBits)
    \o UintBits(IF p.kind = 3 THEN (IF p.condition THEN 1 ELSE 0) ELSE p.depth, HandleBits)

\* The kind and the two words that follow it.
PrefixOK(kind, high, low) ==
    /\ kind \in 0..3 /\ high = 0
    /\ kind = 0 => low = 0
    /\ kind = 3 => low <= 1

DecodedPrefix(kind, low) ==
    IF kind = 3 THEN Prefix(3, 0, low = 1) ELSE Prefix(kind, low, FALSE)

CanEncodeActivation(a) ==
    /\ Aligned(a.local)
    /\ a.result.class = Global
    /\ CanEncodeHandle(a.procedure) /\ CanEncodeHandle(a.result)
    /\ \A r \in {a.network, a.local, a.previous} : CanEncodeRuntimeReference(r)
    /\ CanEncodePrefix(a.prefix)

EncodeActivation(a) ==
    RecordHeader \o EncodeHandle(a.procedure) \o UintBits(a.position, HandleBits)
    \o EncodeRuntimeReference(a.network) \o EncodeRuntimeReference(a.local)
    \o EncodeRuntimeReference(a.previous) \o EncodeHandle(a.result) \o EncodePrefix(a.prefix)

DecodeActivation(s, at) ==
    LET fields ==
            <<BitsField(Len(RecordHeader)), HandleField, UintField(HandleBits),
              ReferenceField, ReferenceField, ReferenceField, HandleField,
              UintField(KindBits), UintField(HandleBits), UintField(HandleBits)>>
        Legal(v) ==
            /\ v[1] = RecordHeader
            /\ Aligned(v[5])
            /\ v[7].class = Global
            /\ PrefixOK(v[8], v[9], v[10])
        RecordOf(v) ==
            [procedure |-> v[2], position |-> v[3], network |-> v[4], local |-> v[5],
             previous |-> v[6], result |-> v[7], prefix |-> DecodedPrefix(v[8], v[10])]
    IN  Then(ReadFields(s, at, fields), at, LAMBDA v, end : GotIf(Legal(v), RecordOf(v), end))
=============================================================================
