------------------------------- MODULE Stream -------------------------------
(***************************************************************************)
(* Bits as the machine meets them.  A stream is what a writer appended,    *)
(* item after item, one of its bits perhaps flipped, or any bits at all; a *)
(* reader decodes it from the start and may take it for any kind of item.  *)
(* Numbers that were read are operands of COMPUTE, whose result is written *)
(* to the stream as a value, as it is to a destination register.           *)
(***************************************************************************)
EXTENDS Container, Instruction, Arithmetic

CONSTANTS
    Streams,  \* bound: the bits a reader meets that no writer wrote
    Items,    \* bound: what a writer appends, [kind, value]
    MaxItems  \* bound: how many it appends before it computes

Kinds == {"size", "bit_string", "var_uint", "var_int", "value", "selector", "reference",
          "source", "destination", "runtime_reference", "node", "activation"} \union Commands
Files == {"procedure", "program"}

IsItem(kind, v) ==
    CASE kind \in {"size", "var_uint"} -> v \in Words
      [] kind = "bit_string" -> v \in BitStrings
      [] kind = "var_int" -> v \in Ints
      [] kind = "value" -> v \in Values
      [] kind = "selector" -> v \in Selectors
      [] kind \in {"reference", "destination"} -> v \in OperandReferences
      [] kind = "source" -> v \in Sources
      [] kind = "runtime_reference" -> v \in References
      [] kind = "node" -> v \in NetworkNodes
      [] kind = "activation" -> v \in Activations
      [] kind = "procedure" -> v \in NamedProcedures
      [] kind = "program" -> v \in WrittenImages
      [] kind \in Commands -> IsInstruction(kind, v)

ASSUME StreamAssumption ==
    /\ Streams \subseteq Bits
    /\ \A item \in Items : item.kind \in Kinds \union Files /\ IsItem(item.kind, item.value)

CanEncode(kind, v) ==
    CASE kind = "value" -> CanEncodeValue(v)
      [] kind = "destination" -> CanEncodeDestination(v)
      [] kind = "runtime_reference" -> CanEncodeRuntimeReference(v)
      [] kind = "node" -> CanEncodeNode(v)
      [] kind = "activation" -> CanEncodeActivation(v)
      [] kind = "program" -> CanEncodeProgram(v)
      [] OTHER -> TRUE

Encode(kind, v) ==
    CASE kind = "size" -> EncodeSize(v)
      [] kind = "bit_string" -> EncodeBitString(v)
      [] kind = "var_uint" -> EncodeVarUint(v)
      [] kind = "var_int" -> EncodeVarInt(v)
      [] kind = "value" -> EncodeValue(v)
      [] kind = "selector" -> EncodeSelector(v)
      [] kind \in {"reference", "destination"} -> EncodeReference(v)
      [] kind = "source" -> EncodeSource(v)
      [] kind = "runtime_reference" -> EncodeRuntimeReference(v)
      [] kind = "node" -> EncodeNode(v)
      [] kind = "activation" -> EncodeActivation(v)
      [] kind = "procedure" -> EncodeProcedure(v)
      [] kind = "program" -> EncodeProgram(v)
      [] kind \in Commands -> EncodeInstruction(kind, v)

Decode(kind, s, from) ==
    CASE kind = "size" -> DecodeSize(s, from)
      [] kind = "bit_string" -> DecodeBitString(s, from)
      [] kind = "var_uint" -> DecodeVarUint(s, from)
      [] kind = "var_int" -> DecodeVarInt(s, from)
      [] kind = "value" -> DecodeValue(s, from)
      [] kind = "selector" -> DecodeSelector(s, from)
      [] kind = "reference" -> DecodeReference(s, from)
      [] kind = "source" -> DecodeSource(s, from)
      [] kind = "destination" -> DecodeDestination(s, from)
      [] kind = "runtime_reference" -> DecodeRuntimeReference(s, from)
      [] kind = "node" -> DecodeNode(s, from)
      [] kind = "activation" -> DecodeActivation(s, from)
      [] kind = "procedure" -> DecodeProcedure(s)
      [] kind = "program" -> DecodeProgram(s)
      [] kind \in Commands -> DecodeInstruction(kind, s, from)

VARIABLES
    stream,
    at,       \* the reader's cursor
    written,  \* the items in the stream, [kind, value, from]
    last,     \* the last read: its kind, where it began, its result
    operands, \* the last values read, at most two
    computed  \* the last operation, its operands and its result

streamVars == <<stream, at, written, last, operands, computed>>

Nothing == [kind |-> "none"]
HasRead == last.kind # "none"

StreamInit ==
    /\ stream \in Streams
    /\ at = 0
    /\ written = <<>>
    /\ last = Nothing
    /\ operands = <<>>
    /\ computed = Nothing

-----------------------------------------------------------------------------

Appended(kind, v) ==
    /\ HasRead => last.result.ok
    /\ CanEncode(kind, v)
    /\ stream' = stream \o Encode(kind, v)
    /\ written' = Append(written, [kind |-> kind, value |-> v, from |-> Len(stream)])
    /\ last' = Nothing

\* The writer is done before the reader starts.
Put(item) ==
    /\ at = 0
    /\ Len(written) < MaxItems
    /\ written = <<>> => stream = <<>>
    /\ Appended(item.kind, item.value)
    /\ UNCHANGED <<at, operands, computed>>

\* Storage changes a bit of the first item.
Flip(i) ==
    /\ at = 0 /\ last = Nothing /\ Len(written) = 1
    /\ stream' = [stream EXCEPT ![i] = 1 - @]
    /\ written' = <<>>
    /\ UNCHANGED <<at, last, operands, computed>>

\* A reader of what a writer wrote reads it as what it is.  A reader of other
\* bits reads them as anything, one item: a second would be the first of a
\* shorter stream.  A file is read whole.  After an error nothing is read.
Read(kind) ==
    /\ HasRead => last.result.ok
    /\ kind \in Files \/ written = <<>> => at = 0
    /\ written # <<>> => \E i \in DOMAIN written : written[i].kind = kind /\ written[i].from = at
    /\ \E r \in {Decode(kind, stream, at)} :
        /\ at' = r.at
        /\ last' = [kind |-> kind, from |-> at, result |-> r]
        /\ operands' = IF r.ok /\ kind = "value"
                       THEN (IF Len(operands) = 2 THEN Tail(operands) ELSE operands) \o <<r.value>>
                       ELSE operands
        /\ UNCHANGED <<stream, written, computed>>

\* The reader computes when it has read everything.
Compute(operation) ==
    /\ at = Len(stream)
    /\ Len(written) <= MaxItems
    /\ \E v \in Results(operation, operands) :
        /\ Appended("value", v)
        /\ computed' = [kind |-> "computed", operation |-> operation, operands |-> operands, result |-> v]
        /\ operands' = <<>>
        /\ UNCHANGED at

StreamNext ==
    \/ \E item \in Items : Put(item)
    \/ \E i \in DOMAIN stream : Flip(i)
    \/ \E kind \in Kinds \union Files : Read(kind)
    \/ \E operation \in Operations : Compute(operation)

StreamSpec == StreamInit /\ [][StreamNext]_streamVars

-----------------------------------------------------------------------------

(* There is one way to write an item: whatever bits a decoder accepts are  *)
(* the bits its encoder gives for the value it made of them               *)
(* (tests/codec_fuzz_tests.cpp: "successful decoder did not reproduce      *)
(* canonical input").                                                      *)
CanonicalInput ==
    HasRead /\ last.result.ok =>
        /\ CanEncode(last.kind, last.result.value)
        /\ Encode(last.kind, last.result.value) = SubSeq(stream, last.from + 1, last.result.at)

(* A decoder that fails, in whatever field of an item, leaves its caller's *)
(* cursor where it was ("failed decoder consumed input"): the machine      *)
(* stores the cursor as the activation's position.                         *)
FailedReadKeepsCursor == HasRead /\ ~last.result.ok => last.result.at = last.from

Normal(kind, v) == IF kind = "value" /\ v.float THEN Normalized(v) ELSE v

(* An item read where it was written, as the kind it was written as, is    *)
(* the value that was written, and the cursor then stands at the next      *)
(* item, whatever follows.  In particular no reference an encoder accepts  *)
(* is taken for the null reference.                                        *)
ReadsBackWhatWasWritten ==
    \A i \in DOMAIN written :
        LET item == written[i]
            next == IF i = Len(written) THEN Len(stream) ELSE written[i + 1].from
        IN  last.kind = item.kind /\ last.from = item.from =>
                last.result = IF item.kind \in Files /\ next # Len(stream) THEN Failed(0)
                              ELSE Got(Normal(item.kind, item.value), next)

\* base to the power of an exponent, one factor at a time, modulo 2^Word
PowerOf(base, exponent) ==
    LET power[i \in 0..exponent] == IF i = 0 THEN 1 ELSE Unsigned(power[i - 1] * base)
    IN  power[exponent]

(* What docs/specification-v2.md, section 8, says of integers: power wraps *)
(* at a word like the sum, quotient and remainder are unsigned and belong  *)
(* together, order is that of the signed numbers.  A float result is one   *)
(* that reads back as the double it was made from.                         *)
ComputesAsSpecified ==
    computed.kind # "none" =>
        LET v == computed.result
            x == computed.operands
            OfWordsBy(operation) ==
                computed.operation = operation /\ \A i \in DOMAIN x : ~x[i].float
            a == x[1].n
            b == x[2].n
            Greater == (a + 2^(Word - 1)) % 2^Word > (b + 2^(Word - 1)) % 2^Word
        IN  /\ v.float => IsFinite(AsDouble(v)) /\ FromDouble(AsDouble(v)) = v
            /\ OfWordsBy(1) => Unsigned(v.n + b) = a
            /\ OfWordsBy(3) => \E r \in 0..(b - 1) : a = v.n * b + r
            /\ OfWordsBy(4) => v.n < b /\ (a - v.n) % b = 0
            /\ OfWordsBy(5) => v.n = PowerOf(a, b)
            /\ OfWordsBy(10) => (v.n = 1 <=> Greater)
            /\ OfWordsBy(13) => (v.n = 0 <=> Greater)
=============================================================================
