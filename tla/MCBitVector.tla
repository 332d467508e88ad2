---------------------------- MODULE MCBitVector -----------------------------
(***************************************************************************)
(* Vectors that cross one byte boundary.                                   *)
(***************************************************************************)
EXTENDS BitVector

String(n, ones) == [size |-> n, bit |-> [i \in Index(n) |-> IF i \in ones THEN 1 ELSE 0]]
MCSources == {String(0, {}), String(1, {0}), String(3, {0, 2})}

Bytes(n, ones) == [i \in 0..(8 * n - 1) |-> IF i \in ones THEN 1 ELSE 0]
MCFiles == {Bytes(0, {}), Bytes(1, {0, 6}), Bytes(2, {3, 8})}
=============================================================================
