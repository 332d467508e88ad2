------------------------------- MODULE Codec --------------------------------
(***************************************************************************)
(* src/src/bit_cursor.cpp and src/src/codec.cpp: sizes, bit strings and    *)
(* numbers in a stream of bits.                                            *)
(*                                                                         *)
(* A stream is a sequence of bits, a cursor the number of bits before it.  *)
(* A decoder works on a copy of its caller's cursor and gives it back only *)
(* when it succeeds; its result is                                         *)
(*   [ok |-> TRUE, value, at]   the value and the cursor after it, or      *)
(*   [ok |-> FALSE, at]         the cursor after a failure.                *)
(* A size is a header of HeaderBits bits, one less than its bytes, and the *)
(* bytes of ByteBits bits each: 3 and 8 in the code, where the longest     *)
(* size therefore fills a word of 64 bits.                                 *)
(***************************************************************************)
EXTENDS Integers, Sequences, FiniteSetsExt

CONSTANTS HeaderBits, ByteBits

ASSUME CodecAssumption == HeaderBits \in Nat \ {0} /\ ByteBits \in Nat \ {0}

Word == 2^HeaderBits * ByteBits
Words == 0..(2^Word - 1)

Bits == Seq({0, 1})
BitStrings == {b \in Bits : Len(b) \in Words}

Failed(at) == [ok |-> FALSE, at |-> at]
Got(value, at) == [ok |-> TRUE, value |-> value, at |-> at]
GotIf(legal, value, at) == IF legal THEN Got(value, at) ELSE Failed(at)

\* After x, which was read from `at`, Next(value, cursor) is read.  Whichever
\* of them fails, the cursor goes back to `at`.
Kept(result, at) == IF result.ok THEN result ELSE Failed(at)
Then(x, at, Next(_, _)) == Kept(IF x.ok THEN Next(x.value, x.at) ELSE x, at)

\* append_uint: the highest bit first
UintBits(n, width) == [i \in 1..width |-> (n \div 2^(width - i)) % 2]

UintOf(b) == LET n[i \in 0..Len(b)] == IF i = 0 THEN 0 ELSE 2 * n[i - 1] + b[i] IN n[Len(b)]

Zeros(n) == [i \in 1..n |-> 0]
Ones(n) == [i \in 1..n |-> 1]

-----------------------------------------------------------------------------

(* The cursor: a read that does not succeed leaves it alone.               *)

ReadBits(s, at, count) ==
    IF count > Len(s) - at THEN Failed(at)
    ELSE Got(SubSeq(s, at + 1, at + count), at + count)

ReadBit(s, at) ==
    IF at >= Len(s) THEN Failed(at) ELSE Got(s[at + 1], at + 1)

ReadUint(s, at, width) ==
    IF width > Word \/ width > Len(s) - at THEN Failed(at)
    ELSE Got(UintOf(SubSeq(s, at + 1, at + width)), at + width)

-----------------------------------------------------------------------------

EncodeSize(n) ==
    LET bytes == Min({k \in 1..2^HeaderBits : n < 2^(k * ByteBits)})
    IN  UintBits(bytes - 1, HeaderBits) \o UintBits(n, bytes * ByteBits)

DecodeSizeLong(s, at) ==  \* Mutated: any number of bytes will do
    LET Bytes(header, from) == ReadUint(s, from, (header + 1) * ByteBits)
    IN  Then(ReadUint(s, at, HeaderBits), at, Bytes)

\* "size uses more bytes than necessary"
DecodeSize(s, at) ==
    LET Bytes(header, from) ==
            Then(ReadUint(s, from, (header + 1) * ByteBits), from,
                 LAMBDA n, end : GotIf(header > 0 => n >= 2^(header * ByteBits), n, end))
    IN  Then(ReadUint(s, at, HeaderBits), at, Bytes)

EncodeBitString(b) == EncodeSize(Len(b)) \o b

DecodeBitString(s, at) ==
    Then(DecodeSize(s, at), at, LAMBDA size, from : ReadBits(s, from, size))

EncodeVarUint(n) ==
    LET width == Min({w \in 0..Word : n < 2^w})
    IN  EncodeSize(width) \o UintBits(n, width)

\* "variable integer width exceeds 64 bits", "redundant leading zero"
DecodeVarUint(s, at) ==
    LET Sized(width, from) ==
            Then(ReadUint(s, from, width), from,
                 LAMBDA n, end : GotIf(width > 0 => n >= 2^(width - 1), n, end))
    IN  Then(DecodeSize(s, at), at, Sized)

-----------------------------------------------------------------------------

Lowest == -(2^(Word - 1))
Highest == 2^(Word - 1) - 1
Ints == Lowest..Highest
Signed(n) == IF n > Highest THEN n - 2^Word ELSE n
Unsigned(n) == n % 2^Word

\* The two's complement width; none for zero.
SignedWidth(n) ==
    IF n = 0 THEN 0 ELSE Min({w \in 1..Word : n \in -(2^(w - 1))..(2^(w - 1) - 1)})

EncodeVarInt(n) ==
    LET width == SignedWidth(n)
    IN  EncodeSize(width) \o UintBits(n % 2^width, width)

\* "signed integer has a redundant sign bit"
DecodeVarInt(s, at) ==
    LET Number(raw, width) ==
            IF width > 0 /\ raw >= 2^(width - 1) THEN raw - 2^width ELSE raw
        Minimal(n, width, end) == GotIf(SignedWidth(n) = width, n, end)
        Sized(width, from) ==
            Then(ReadUint(s, from, width), from,
                 LAMBDA raw, end : Minimal(Number(raw, width), width, end))
    IN  Then(DecodeSize(s, at), at, Sized)

\* A value is a word or a float m * 2^e.
Uint(n) == [float |-> FALSE, n |-> n]
Float(m, e) == [float |-> TRUE, m |-> m, e |-> e]
WordValues == [float : {FALSE}, n : Words]
Floats == [float : {TRUE}, m : Ints, e : Ints]
Values == WordValues \union Floats

\* normalize_variable_float: the powers of two of the mantissa go into the
\* exponent, which may not overflow.
Twos(m) == Max({k \in 0..(Word - 1) : m % 2^k = 0})
CanNormalize(f) == f.m = 0 \/ f.e + Twos(f.m) <= Highest
Normalized(f) ==
    IF f.m = 0 THEN [f EXCEPT !.e = 0]
    ELSE [f EXCEPT !.m = @ \div 2^Twos(f.m), !.e = @ + Twos(f.m)]

CanEncodeFloat(f) == CanNormalize(f)
EncodeVarFloat(f) ==
    EncodeVarInt(Normalized(f).m) \o EncodeVarInt(Normalized(f).e)

\* "floating mantissa is not normalized"
DecodeVarFloat(s, at) ==
    LET Normal(f, end) == GotIf(CanNormalize(f) /\ Normalized(f) = f, f, end)
        Exponent(m, from) ==
            Then(DecodeVarInt(s, from), from, LAMBDA e, end : Normal(Float(m, e), end))
    IN  Then(DecodeVarInt(s, at), at, Exponent)

CanEncodeValue(v) == v.float => CanEncodeFloat(v)
EncodeValue(v) == IF v.float THEN <<1>> \o EncodeVarFloat(v) ELSE <<0>> \o EncodeVarUint(v.n)

DecodeValue(s, at) ==
    LET AWord(from) ==
            Then(DecodeVarUint(s, from), from, LAMBDA n, end : Got(Uint(n), end))
        Typed(type, from) == IF type = 0 THEN AWord(from) ELSE DecodeVarFloat(s, from)
    IN  Then(ReadBit(s, at), at, Typed)
=============================================================================
