----------------------------- MODULE BitVector ------------------------------
(***************************************************************************)
(* src/src/bit_vector.cpp: a string of bits kept in whole bytes.  The last *)
(* byte may have more bits than the string; these padding bits decide      *)
(* whether two equal strings compare equal (operator== compares bytes) and *)
(* what a vector shows that shrinks and grows again.                       *)
(*                                                                         *)
(* `bytes` holds the bits of bytes_ one after the other, the highest of a  *)
(* byte first, so that its domain has eight times as many elements as      *)
(* bytes_ has.                                                             *)
(***************************************************************************)
EXTENDS Naturals

CONSTANTS
    MaxBits,  \* the longest vector: 2^64 - 1 in the code
    Sources,  \* bound: the strings a caller appends or writes
    Files     \* bound: the bytes a caller reads from a file

Bit == {0, 1}
Index(n) == {i \in 0..MaxBits : i < n}
IsString(s) == s.size \in 0..MaxBits /\ s \in [size: {s.size}, bit: [Index(s.size) -> Bit]]

VARIABLES
    bytes,  \* bytes_
    size,   \* bit_size_
    called  \* the call last made, with its arguments

vars == <<bytes, size, called>>

\* byte_count, in bits
Capacity(n) == 8 * (n \div 8 + (IF n % 8 # 0 THEN 1 ELSE 0))

IsBytes(b) == \E n \in 0..MaxBits : b \in [0..(Capacity(n) - 1) -> Bit]

ASSUME BitVectorAssumption ==
    /\ MaxBits \in Nat
    /\ \A s \in Sources : IsString(s)
    /\ \A b \in Files : IsBytes(b)

Cleared0(b, n) == b  \* Mutated: padding is left as it is

\* clear_padding_bits: only the last byte has any.
Cleared(b, n) == [i \in DOMAIN b |-> IF n % 8 # 0 /\ i >= n THEN 0 ELSE b[i]]

\* from_bytes: "byte count does not match", "non-zero padding bits"
Accepted(b, n) ==
    /\ DOMAIN b = 0..(Capacity(n) - 1)
    /\ \A i \in DOMAIN b : i >= n => b[i] = 0

Init ==
    /\ size \in 0..MaxBits
    /\ bytes \in Files
    /\ Accepted(bytes, size)
    /\ called = [name |-> "start"]

-----------------------------------------------------------------------------

\* The bytes of vector (b, n) after resize: a new byte is all `fill`, the
\* bits past the old end in the last old byte are set one by one, and only
\* if they are to be ones.
ResizedFirst(b, n, new, fill) ==  \* Mutated: the last old byte keeps its padding
    Cleared([i \in 0..(Capacity(new) - 1) |-> IF i \in DOMAIN b THEN b[i] ELSE fill], new)

Resized(b, n, new, fill) ==
    Cleared([i \in 0..(Capacity(new) - 1) |->
                IF i >= n /\ i < new /\ fill = 1 THEN 1
                ELSE IF i \in DOMAIN b THEN b[i] ELSE fill], new)

Call(c) == called' = c

Resize(n, fill) ==
    /\ bytes' = Resized(bytes, size, n, fill)
    /\ size' = n
    /\ Call([name |-> "resize", n |-> n, v |-> fill])

\* "bit vector size overflow"
PushBack(v) ==
    /\ size # MaxBits
    /\ bytes' = [Resized(bytes, size, size + 1, 0) EXCEPT ![size] = v]
    /\ size' = size + 1
    /\ Call([name |-> "push_back", v |-> v])

Set(i, v) ==
    /\ i < size
    /\ bytes' = [bytes EXCEPT ![i] = v]
    /\ Call([name |-> "set", i |-> i, v |-> v])
    /\ UNCHANGED size

\* What at() shows.
Content == [size |-> size, bit |-> [i \in Index(size) |-> bytes[i]]]

\* The bits of the argument are set one by one, from a copy of the argument:
\* it may be the vector itself.
Overwritten(b, at, s) ==
    [i \in DOMAIN b |-> IF at <= i /\ i < at + s.size THEN s.bit[i - at] ELSE b[i]]

Appended(s) ==
    /\ s.size <= MaxBits - size
    /\ bytes' = Overwritten(Resized(bytes, size, size + s.size, 0), size, s)
    /\ size' = size + s.size

Append(s) == Appended(s) /\ Call([name |-> "append", s |-> s])
AppendSelf == Appended(Content) /\ Call([name |-> "append_self"])

Written(at, s) ==
    /\ at <= size
    /\ s.size <= size - at
    /\ bytes' = Overwritten(bytes, at, s)
    /\ UNCHANGED size

Write(at, s) == Written(at, s) /\ Call([name |-> "write", at |-> at, s |-> s])
WriteSelf == Written(0, Content) /\ Call([name |-> "write_self"])

\* A vector of n zeros, then bit by bit.
Slice(at, n) ==
    /\ at <= size
    /\ n <= size - at
    /\ bytes' = [i \in 0..(Capacity(n) - 1) |-> IF i < n THEN bytes[at + i] ELSE 0]
    /\ size' = n
    /\ Call([name |-> "slice", at |-> at, n |-> n])

Next ==
    \/ \E n \in 0..MaxBits, fill \in Bit : Resize(n, fill)
    \/ \E v \in Bit : PushBack(v)
    \/ \E i \in 0..MaxBits, v \in Bit : Set(i, v)
    \/ \E s \in Sources : Append(s)
    \/ AppendSelf
    \/ \E at \in 0..MaxBits, s \in Sources : Write(at, s)
    \/ WriteSelf
    \/ \E at \in 0..MaxBits, n \in 0..MaxBits : Slice(at, n)

Spec == Init /\ [][Next]_vars

-----------------------------------------------------------------------------

(* The bytes are those of the bits and no others: there are as many as the *)
(* bits need, and every padding bit is zero.  operator==, which compares   *)
(* bytes and size, is therefore equality of the strings, and a file that   *)
(* bytes() is written to reads back.                                       *)
BytesCanonical ==
    /\ size \in 0..MaxBits
    /\ bytes \in [0..(Capacity(size) - 1) -> Bit]
    /\ \A i \in DOMAIN bytes : i >= size => bytes[i] = 0

Strings == INSTANCE BitString WITH bits <- Content

(* Nothing of the bytes shows: every call does to the bits what it does to *)
(* a plain string, also after the vector has shrunk into the middle of a   *)
(* byte, and when it is appended to itself or written over itself.         *)
ImplementsBitString == Strings!Spec
=============================================================================
