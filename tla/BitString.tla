----------------------------- MODULE BitString ------------------------------
(***************************************************************************)
(* What src/include/ubcm/bit_vector.hpp promises: a BitVector is a string  *)
(* of bits and nothing else.  A bit is 0 or 1 and bit 0 is the first.      *)
(* `called` is the call last made, so that an implementation has to give   *)
(* every call the result of that call.                                     *)
(***************************************************************************)
EXTENDS Naturals

CONSTANTS
    MaxBits,  \* the longest vector: 2^64 - 1 in the code
    Sources   \* bound: the strings a caller appends or writes

Bit == {0, 1}
Index(n) == {i \in 0..MaxBits : i < n}
String(n) == [size: {n}, bit: [Index(n) -> Bit]]
IsString(s) == s.size \in 0..MaxBits /\ s \in String(s.size)

VARIABLES
    bits,   \* [size, bit]
    called

vars == <<bits, called>>

Start == [name |-> "start"]

\* The default constructor, or what a file holds.
Init == IsString(bits) /\ called = Start

-----------------------------------------------------------------------------

Call(c) == called' = c

\* A new bit is `fill`, whatever the vector held before it shrank.
Resize(n, fill) ==
    /\ Call([name |-> "resize", n |-> n, v |-> fill])
    /\ bits' = [size |-> n,
                bit |-> [i \in Index(n) |-> IF i < bits.size THEN bits.bit[i] ELSE fill]]

PushBack(v) ==
    /\ Call([name |-> "push_back", v |-> v])
    /\ bits.size < MaxBits
    /\ bits' = [size |-> bits.size + 1,
                bit |-> [i \in Index(bits.size + 1) |->
                            IF i < bits.size THEN bits.bit[i] ELSE v]]

Set(i, v) ==
    /\ Call([name |-> "set", i |-> i, v |-> v])
    /\ i < bits.size
    /\ bits' = [bits EXCEPT !.bit[i] = v]

Appended(s) ==
    /\ s.size <= MaxBits - bits.size
    /\ bits' = [size |-> bits.size + s.size,
                bit |-> [i \in Index(bits.size + s.size) |->
                            IF i < bits.size THEN bits.bit[i] ELSE s.bit[i - bits.size]]]

Append(s) == Call([name |-> "append", s |-> s]) /\ Appended(s)
AppendSelf == Call([name |-> "append_self"]) /\ Appended(bits)

Written(at, s) ==
    /\ at <= bits.size
    /\ s.size <= bits.size - at
    /\ bits' = [size |-> bits.size,
                bit |-> [i \in Index(bits.size) |->
                            IF at <= i /\ i < at + s.size THEN s.bit[i - at]
                            ELSE bits.bit[i]]]

Write(at, s) == Call([name |-> "write", at |-> at, s |-> s]) /\ Written(at, s)
WriteSelf == Call([name |-> "write_self"]) /\ Written(0, bits)

Slice(at, n) ==
    /\ Call([name |-> "slice", at |-> at, n |-> n])
    /\ at <= bits.size
    /\ n <= bits.size - at
    /\ bits' = [size |-> n, bit |-> [i \in Index(n) |-> bits.bit[at + i]]]

Next ==
    \/ \E n \in 0..MaxBits, fill \in Bit : Resize(n, fill)
    \/ \E v \in Bit : PushBack(v)
    \/ \E i \in 0..MaxBits, v \in Bit : Set(i, v)
    \/ \E s \in Sources : Append(s)
    \/ AppendSelf
    \/ \E at \in 0..MaxBits, s \in Sources : Write(at, s)
    \/ WriteSelf
    \/ \E at \in 0..MaxBits, n \in 0..MaxBits : Slice(at, n)

Spec == Init /\ [][Next]_vars
=============================================================================
