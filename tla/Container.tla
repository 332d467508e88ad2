----------------------------- MODULE Container ------------------------------
(***************************************************************************)
(* src/src/program.cpp: procedure files and program images, and what has   *)
(* to hold of an image before it is written or loaded.                     *)
(*                                                                         *)
(* A register of an image has flags: 1 for a read-only procedure, 2 for a  *)
(* register of network nodes.                                              *)
(***************************************************************************)
EXTENDS Formats

CONSTANTS
    ImageHeader, \* magic, version and flags of an image: 64 bits
    FlagBits     \* of a register's flags: 8

ASSUME ContainerAssumption ==
    /\ FlagBits \in 2..Word
    /\ ImageHeader \in Seq({0, 1})
    /\ (Len(ImageHeader) + 4 * HandleBits) % ByteBits = 0

Padded(s) == s \o Zeros((-Len(s)) % ByteBits)
PaddedAt(at) == at + ((-at) % ByteBits)
ZeroBetween(s, at, end) == \A i \in (at + 1)..end : s[i] = 0

NamedProcedures == [name : BitStrings, contents : BitStrings]

EncodeProcedure(p) == Padded(EncodeBitString(p.name) \o EncodeBitString(p.contents))

\* "invalid procedure file length", "invalid procedure padding"
DecodeProcedure(s) ==
    LET Padding(from) ==
            Len(s) % ByteBits = 0 /\ Len(s) - from < ByteBits /\ ZeroBetween(s, from, Len(s))
        Image(v, from) == GotIf(Padding(from), [name |-> v[1], contents |-> v[2]], Len(s))
    IN  Then(ReadFields(s, 0, <<NameField, NameField>>), 0, Image)

-----------------------------------------------------------------------------

IsProcedure(r) == r.flags \in {1, 3}
IsNetwork(r) == r.flags \in {2, 3}

\* The nodes of a network register, one decode_node after the other.
NodesIn(contents) ==
    {DecodeNode(contents, at) : at \in {a \in 0..(Len(contents) - 1) : a % NodeBits = 0}}

\* Mutated: a name may be used twice.
DistinctIds(regs) == \A i, j \in DOMAIN regs : i # j => regs[i].id # regs[j].id

\* "invalid or duplicate register record"
Distinct(regs) ==
    \A i, j \in DOMAIN regs : i # j => regs[i].id # regs[j].id /\ regs[i].name # regs[j].name

\* validate_program
IsProgram(image) ==
    LET Registers == {image.registers[i] : i \in DOMAIN image.registers}
        ProcedureOK(h) ==
            h.class = Global /\ \E r \in Registers : r.id = h.id /\ IsProcedure(r)
        NodeRefOK(x) ==
            ~x.null =>
                /\ x.handle.class = Global
                /\ x.offset % NodeBits = 0
                /\ \E r \in Registers :
                    r.id = x.handle.id /\ IsNetwork(r) /\ x.offset < Len(r.contents)
    IN  /\ Distinct(image.registers)
        /\ \A r \in Registers : r.id < 2^IdBits /\ r.flags <= 3
        /\ \A r \in Registers : IsNetwork(r) => Len(r.contents) % NodeBits = 0
        /\ ProcedureOK(image.procedure)
        /\ ~image.entry.null
        /\ NodeRefOK(image.entry)
        /\ \A r \in Registers : IsNetwork(r) =>
            \A n \in NodesIn(r.contents) :
                /\ n.ok
                /\ \A x \in {n.value.next0, n.value.next1, n.value.resolver} : NodeRefOK(x)
                /\ n.value.call => ProcedureOK(n.value.procedure) /\ NodeRefOK(n.value.entry)

-----------------------------------------------------------------------------

ImageRecords ==
    [id : 0..MaxOffset, flags : 0..(2^FlagBits - 1), name : BitStrings, contents : BitStrings]
WrittenImages ==
    {x \in [procedure : Handles, entry : References, registers : Seq(ImageRecords)] :
        Len(x.registers) <= MaxOffset}

CanEncodeProgram(image) == IsProgram(image) /\ CanEncodeRuntimeReference(image.entry)

EncodeProgram(image) ==
    LET regs == image.registers
        bits[i \in 0..Len(regs)] ==
            IF i = 0
            THEN ImageHeader \o UintBits(Len(regs), HandleBits)
                 \o EncodeHandle(image.procedure) \o EncodeRuntimeReference(image.entry)
            ELSE Padded(bits[i - 1] \o UintBits(regs[i].id, HandleBits)
                        \o UintBits(regs[i].flags, FlagBits)
                        \o EncodeBitString(regs[i].name) \o EncodeBitString(regs[i].contents))
    IN  bits[Len(regs)]

DecodeRecord(s, at) ==
    LET fields == <<UintField(HandleBits), UintField(FlagBits), NameField, NameField>>
        Padding(from, end) == end <= Len(s) /\ ZeroBetween(s, from, end)
        RecordOf(v) == [id |-> v[1], flags |-> v[2], name |-> v[3], contents |-> v[4]]
    IN  Then(ReadFields(s, at, fields), at,
             LAMBDA v, end : GotIf(Padding(end, PaddedAt(end)), RecordOf(v), PaddedAt(end)))

\* The least a record can take, in whole bytes: 96 bits.
LeastRecord == PaddedAt(HandleBits + FlagBits + 2 * (HeaderBits + ByteBits))

\* decode_program.  The count is trusted only as far as the file can hold it.
DecodeProgram(s) ==
    LET header ==
            <<BitsField(Len(ImageHeader)), UintField(HandleBits), HandleField, ReferenceField>>
        HeaderOK(v, from) ==
            /\ v[1] = ImageHeader
            /\ Len(s) % ByteBits = 0
            /\ v[2] <= (Len(s) - from) \div LeastRecord
        Record(bits, from, i) == DecodeRecord(bits, from)
        ImageOf(v, records) == [procedure |-> v[3], entry |-> v[4], registers |-> records]
        Whole(image, end) == GotIf(end = Len(s) /\ IsProgram(image), image, end)
        Records(v, from) ==
            Then(ReadAll(Record, s, from, [i \in 1..v[2] |-> i]), from,
                 LAMBDA records, end : Whole(ImageOf(v, records), end))
    IN  Then(ReadFields(s, 0, header), 0,
             LAMBDA v, from : IF HeaderOK(v, from) THEN Records(v, from) ELSE Failed(from))
=============================================================================
