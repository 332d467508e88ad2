----------------------------- MODULE CodecProofs -----------------------------
(***************************************************************************)
(* The codecs of src/src/codec.cpp, followed both ways.  The module goes   *)
(* upwards: numbers and induction, powers of two, spans of bits; unsigned  *)
(* integers, sizes, bit strings, lists of fields, handles, references,     *)
(* nodes and activation records; then signed integers, floats, values and  *)
(* the operands of instructions.                                           *)
(*                                                                         *)
(* "Taken", "Back" and "Steps" lemmas say that the bits which were written *)
(* are read back as the value they were written from; "Met" lemmas say     *)
(* that a value which was read is written as the bits it was read from.    *)
(***************************************************************************)
EXTENDS Instruction, Container, FiniteSetTheorems, TLAPS

-----------------------------------------------------------------------------
(* Numbers: induction, powers of two, halves.                              *)

(* A set of numbers has a least one. *)
LEMMA LeastNumber ==
    ASSUME NEW S \in SUBSET Nat, S # {}
    PROVE  \E k \in S : \A j \in S : ~(j < k)
<1> DEFINE upto == {0..k : k \in S}
           R == StrictSubsetOrdering(Nat)
<1>1. IsWellFoundedOn(R, FiniteSubsetsOf(Nat))
  BY FS_StrictSubsetOrderingWellFounded
<1>2. upto \subseteq FiniteSubsetsOf(Nat) /\ upto # {}
  <2>1. \A k \in S : 0..k \in SUBSET Nat /\ IsFiniteSet(0..k)
    BY FS_Interval
  <2> QED
    BY <2>1 DEF FiniteSubsetsOf
<1> HIDE DEF R, upto
<1>3. PICK x \in upto : \A y \in upto : ~(<<y, x>> \in R)
  BY <1>1, <1>2, WFMin
<1>4. PICK k \in S : x = 0..k
  BY <1>3 DEF upto
<1>5. ASSUME NEW j \in S, j < k PROVE FALSE
  <2>1. 0..j \in SUBSET Nat /\ 0..k \in SUBSET Nat
    OBVIOUS
  <2>2. 0..j \subseteq 0..k /\ k \in 0..k /\ k \notin 0..j
    BY <1>5
  <2>3. <<0..j, 0..k>> \in StrictSubsetOrdering(Nat)
    BY <2>1, <2>2 DEF StrictSubsetOrdering
  <2>4. 0..j \in upto
    BY DEF upto
  <2> QED
    BY <1>3, <1>4, <2>3, <2>4 DEF R
<1> QED
  BY <1>4, <1>5

(* A set that holds zero, and with a number the next one, holds them all.  *)
LEMMA Induction ==
    ASSUME NEW S, 0 \in S, \A n \in Nat : n \in S => n + 1 \in S
    PROVE  \A n \in Nat : n \in S
<1> DEFINE rest == {n \in Nat : n \notin S}
<1>1. ASSUME rest # {} PROVE FALSE
  <2>1. PICK k \in rest : \A j \in rest : ~(j < k)
    <3>1. rest \in SUBSET Nat
      OBVIOUS
    <3> HIDE DEF rest
    <3> QED
      BY <1>1, <3>1, LeastNumber
  <2>2. k \in Nat /\ k # 0
    OBVIOUS
  <2>3. k - 1 \in Nat /\ k - 1 < k /\ k = (k - 1) + 1
    BY <2>2
  <2>4. k - 1 \in S
    BY <2>1, <2>3
  <2> QED
    BY <2>3, <2>4
<1> QED
  BY <1>1

LEMMA PowerOfZero == 2^0 = 1
OBVIOUS

(* A set of 2^n subsets: what the library knows of powers of two.          *)
LEMMA PowerCounts ==
    ASSUME NEW n \in Nat
    PROVE  IsFiniteSet(SUBSET (1..n)) /\ Cardinality(SUBSET (1..n)) = 2^n
<1>1. IsFiniteSet(1..n) /\ Cardinality(1..n) = n
  BY FS_Interval
<1> QED
  BY <1>1, FS_SUBSET

(* Each power of two is twice the one before it.                           *)
LEMMA PowerDoubles ==
    ASSUME NEW n \in Nat
    PROVE  /\ 2^n \in Nat /\ 2^n > 0
           /\ 2^(n + 1) = 2 * 2^n
<1> DEFINE T == SUBSET (1..n)
           f == [X \in T |-> X \cup {n + 1}]
           U == {X \cup {n + 1} : X \in T}
<1>1. IsFiniteSet(T) /\ Cardinality(T) = 2^n
  BY PowerCounts
<1>2. IsFiniteSet(SUBSET (1..(n + 1))) /\ Cardinality(SUBSET (1..(n + 1))) = 2^(n + 1)
  BY PowerCounts
<1>3. SUBSET (1..(n + 1)) = T \cup U
  <2>1. ASSUME NEW Y \in SUBSET (1..(n + 1)), n + 1 \in Y
        PROVE  Y \ {n + 1} \in T /\ Y = (Y \ {n + 1}) \cup {n + 1}
    BY <2>1
  <2>2. ASSUME NEW Y \in SUBSET (1..(n + 1)), n + 1 \notin Y
        PROVE  Y \in T
    BY <2>2
  <2>3. ASSUME NEW Y \in SUBSET (1..(n + 1))
        PROVE  Y \in T \cup U
    <3>1. CASE n + 1 \in Y
      <4> DEFINE X == Y \ {n + 1}
      <4>1. X \in T /\ Y = X \cup {n + 1}
        BY <2>1, <3>1
      <4> HIDE DEF T, X
      <4> QED
        BY <4>1
    <3>2. CASE n + 1 \notin Y
      BY <2>2, <3>2
    <3> QED
      BY <3>1, <3>2
  <2>4. T \subseteq SUBSET (1..(n + 1))
    OBVIOUS
  <2>5. \A X \in T : X \cup {n + 1} \in SUBSET (1..(n + 1))
    OBVIOUS
  <2> HIDE DEF T
  <2>6. U \subseteq SUBSET (1..(n + 1))
    BY <2>5
  <2> HIDE DEF U
  <2> QED
    BY <2>3, <2>4, <2>6
<1>4. T \cap U = {}
  <2>1. \A X \in T : n + 1 \notin X
    OBVIOUS
  <2> QED
    BY <2>1
<1>5. f \in Bijection(T, U)
  <2>1. \A X \in T : n + 1 \notin X
    OBVIOUS
  <2> HIDE DEF T
  <2>2. f \in [T -> U]
    OBVIOUS
  <2>3. \A X, Y \in T : f[X] = f[Y] => X = Y
    <3>1. \A X \in T : X = (X \cup {n + 1}) \ {n + 1}
      BY <2>1
    <3>2. \A X \in T : X = f[X] \ {n + 1}
      BY <3>1
    <3> QED
      BY <3>2
  <2>4. \A u \in U : \E X \in T : f[X] = u
    OBVIOUS
  <2> HIDE DEF f, U
  <2>5. f \in Injection(T, U)
    BY <2>2, <2>3 DEF Injection, IsInjective
  <2>6. f \in Surjection(T, U)
    BY <2>2, <2>4 DEF Surjection
  <2> QED
    BY <2>5, <2>6 DEF Bijection
<1> HIDE DEF T, U, f
<1>6. ExistsBijection(T, U)
  BY <1>5 DEF ExistsBijection
<1>7. IsFiniteSet(U) /\ Cardinality(U) = Cardinality(T)
  BY <1>1, <1>6, FS_Bijection
<1>8. Cardinality(T \cup U) = Cardinality(T) + Cardinality(U) - Cardinality({})
  BY <1>1, <1>4, <1>7, FS_Union
<1>9. Cardinality({}) = 0 /\ Cardinality(T) \in Nat
  BY <1>1, FS_EmptySet, FS_CardinalityType
<1>10. T # {}
  BY DEF T
<1>11. Cardinality(T) # 0
  BY <1>1, <1>10, FS_EmptySet
<1>12. /\ Cardinality(T) = 2^n /\ Cardinality(T \cup U) = 2^(n + 1)
       /\ Cardinality(T \cup U) = Cardinality(T) + Cardinality(T)
  <2>1. Cardinality(T \cup U) = 2^(n + 1)
    BY <1>2, <1>3
  <2>2. Cardinality(T \cup U) = Cardinality(T) + Cardinality(T) - 0
    BY <1>7, <1>8, <1>9
  <2> QED
    BY <1>1, <1>9, <2>1, <2>2
<1> QED
  BY <1>9, <1>11, <1>12

LEMMA HalfOf ==
    ASSUME NEW n \in Nat, NEW a \in Nat, a > 0
    PROVE  n \div (2 * a) = (n \div a) \div 2
OBVIOUS

LEMMA HalfOfSum ==
    ASSUME NEW n \in Nat, NEW z \in {0, 1}
    PROVE  (2 * n + z) \div 2 = n
OBVIOUS

LEMMA Halves ==
    ASSUME NEW x \in Nat
    PROVE  /\ x \div 2 \in Nat /\ x % 2 \in {0, 1}
           /\ x = 2 * (x \div 2) + (x % 2)
OBVIOUS

LEMMA Divided ==
    ASSUME NEW n \in Nat, NEW a \in Nat, a > 0
    PROVE  /\ n \div a \in Nat /\ n % a \in 0..(a - 1)
           /\ n = a * (n \div a) + (n % a)
           /\ n < a => n \div a = 0 /\ n % a = n
OBVIOUS

-----------------------------------------------------------------------------
(* append_uint and read_uint                                               *)

(* The number a loop over the bits makes is the only one it can make.      *)
LEMMA UintUnique ==
    ASSUME NEW b, Len(b) \in Nat, NEW h,
           h[0] = 0, \A i \in 1..Len(b) : h[i] = 2 * h[i - 1] + b[i]
    PROVE  UintOf(b) = h[Len(b)]
<1> DEFINE R(g) == g = [i \in 0..Len(b) |-> IF i = 0 THEN 0 ELSE 2 * g[i - 1] + b[i]]
           g0 == [i \in 0..Len(b) |-> h[i]]
           n == CHOOSE g : R(g)
<1>1. R(g0)
  <2>1. \A i \in 0..Len(b) : h[i] = IF i = 0 THEN 0 ELSE 2 * g0[i - 1] + b[i]
    <3>1. ASSUME NEW i \in 0..Len(b), i # 0
          PROVE  i \in 1..Len(b) /\ i - 1 \in 0..Len(b)
      BY <3>1
    <3> QED
      BY <3>1
  <2> QED
    BY <2>1
<1>2. R(n)
  <2> HIDE DEF R
  <2> QED
    BY <1>1
<1>3. UintOf(b) = n[Len(b)]
  BY DEF UintOf
<1> HIDE DEF n
<1> DEFINE S == {i \in Nat : i <= Len(b) => n[i] = h[i]}
<1>4. n[0] = 0 /\ \A i \in 1..Len(b) : n[i] = 2 * n[i - 1] + b[i]
  <2> HIDE DEF g0
  <2> QED
    BY <1>2
<1> HIDE DEF R
<1>5. 0 \in S
  BY <1>4
<1>6. \A i \in Nat : i \in S => i + 1 \in S
  <2> SUFFICES ASSUME NEW i \in Nat, i \in S, i + 1 <= Len(b)
               PROVE  n[i + 1] = h[i + 1]
    OBVIOUS
  <2>1. i + 1 \in 1..Len(b) /\ (i + 1) - 1 = i /\ n[i] = h[i]
    OBVIOUS
  <2> QED
    BY <1>4, <2>1
<1>7. Len(b) \in S
  <2> HIDE DEF S
  <2> QED
    BY <1>5, <1>6, Induction
<1> QED
  BY <1>3, <1>7

(* The bits of a number are those of the number.                           *)
LEMMA UintOfBits ==
    ASSUME NEW w \in Nat, NEW x \in 0..(2^w - 1)
    PROVE  UintOf(UintBits(x, w)) = x
<1> DEFINE b == UintBits(x, w)
           h == [i \in 0..w |-> x \div 2^(w - i)]
<1>1. Len(b) = w /\ \A i \in 1..w : b[i] = (x \div 2^(w - i)) % 2
  BY DEF UintBits
<1>2. x \in Nat /\ 2^w \in Nat /\ 2^w > 0
  BY PowerDoubles
<1>3. h[0] = 0
  <2>1. x \div 2^w = 0
    BY <1>2, Divided
  <2> QED
    BY <2>1
<1>4. h[w] = x
  <2>1. 2^(w - w) = 1
    BY PowerOfZero
  <2> QED
    BY <1>2, <2>1
<1>5. ASSUME NEW i \in 1..w
      PROVE  h[i] = 2 * h[i - 1] + b[i]
  <2> DEFINE a == 2^(w - i)
  <2>1. w - i \in Nat /\ w - (i - 1) = (w - i) + 1
    OBVIOUS
  <2>2. a \in Nat /\ a > 0 /\ 2^(w - (i - 1)) = 2 * a
    BY <2>1, PowerDoubles
  <2>3. b[i] = (x \div a) % 2
    BY <1>1
  <2> HIDE DEF b
  <2>4. i - 1 \in 0..w /\ i \in 0..w
    OBVIOUS
  <2>5. h[i] = x \div a /\ h[i - 1] = x \div 2^(w - (i - 1))
    BY <2>4
  <2> HIDE DEF a, h
  <2>6. h[i - 1] = x \div (2 * a)
    BY <2>2, <2>5
  <2>7. x \div a \in Nat /\ x \div (2 * a) = (x \div a) \div 2
    BY <1>2, <2>2, HalfOf, Divided
  <2> QED
    BY <2>3, <2>5, <2>6, <2>7, Halves
<1> HIDE DEF b, h
<1>6. Len(b) \in Nat /\ \A i \in 1..Len(b) : h[i] = 2 * h[i - 1] + b[i]
  BY <1>1, <1>5
<1>7. UintOf(b) = h[Len(b)]
  BY <1>3, <1>6, UintUnique
<1> QED
  BY <1>1, <1>4, <1>7 DEF b

(* A bit string: what a stream is and what an encoder gives.               *)

LEMMA BitsParts ==
    ASSUME NEW b \in Bits
    PROVE  /\ Len(b) \in Nat /\ b = [i \in 1..Len(b) |-> b[i]]
           /\ \A i \in 1..Len(b) : b[i] \in {0, 1}
BY DEF Bits

LEMMA BitsMade ==
    ASSUME NEW n \in Nat, NEW f, \A i \in 1..n : f[i] \in {0, 1}
    PROVE  [i \in 1..n |-> f[i]] \in Bits /\ Len([i \in 1..n |-> f[i]]) = n
BY DEF Bits

(* The numbers the loop passes through when it reads bits, each below the  *)
(* power of two that belongs to its bits.                                  *)
LEMMA UintSteps ==
    ASSUME NEW b, Len(b) \in Nat, \A i \in 1..Len(b) : b[i] \in {0, 1}
    PROVE  \E h \in [0..Len(b) -> Nat] :
               /\ h[0] = 0
               /\ \A i \in 1..Len(b) : h[i] = 2 * h[i - 1] + b[i]
               /\ \A i \in 0..Len(b) : h[i] < 2^i
<1> DEFINE OK(h, k) == /\ h \in [0..k -> Nat]
                       /\ h[0] = 0
                       /\ \A i \in 1..k : h[i] = 2 * h[i - 1] + b[i]
                       /\ \A i \in 0..k : h[i] < 2^i
           S == {k \in Nat : k <= Len(b) => \E h : OK(h, k)}
<1>1. 0 \in S
  <2>1. OK([i \in 0..0 |-> 0], 0)
    BY PowerOfZero
  <2> HIDE DEF OK
  <2> QED
    BY <2>1
<1>2. ASSUME NEW k \in Nat, k \in S, k + 1 <= Len(b)
      PROVE  \E h : OK(h, k + 1)
  <2>1. PICK h : OK(h, k)
    <3> HIDE DEF OK
    <3>1. k <= Len(b)
      BY <1>2
    <3> QED
      BY <1>2, <3>1
  <2> DEFINE g == [i \in 0..(k + 1) |-> IF i = k + 1 THEN 2 * h[k] + b[k + 1] ELSE h[i]]
  <2>2. k + 1 \in 1..Len(b) /\ b[k + 1] \in {0, 1} /\ h[k] \in Nat /\ h[k] < 2^k
    BY <1>2, <2>1
  <2>3. 2^k \in Nat /\ 2^(k + 1) = 2 * 2^k
    BY PowerDoubles
  <2>4. \A i \in 0..k : g[i] = h[i] /\ h[i] \in Nat /\ h[i] < 2^i
    BY <2>1
  <2>5. g[k + 1] = 2 * h[k] + b[k + 1]
    OBVIOUS
  <2>6. g[k + 1] \in Nat /\ g[k + 1] < 2^(k + 1)
    BY <2>2, <2>3, <2>5
  <2>7. \A i \in 0..(k + 1) : i \in 0..k \/ i = k + 1
    OBVIOUS
  <2>8. g = [i \in 0..(k + 1) |-> g[i]]
    OBVIOUS
  <2>9. \A i \in 1..k : h[i] = 2 * h[i - 1] + b[i]
    BY <2>1
  <2>10. h[0] = 0
    BY <2>1
  <2> HIDE DEF g, OK
  <2>11. \A i \in 0..(k + 1) : g[i] \in Nat /\ g[i] < 2^i
    BY <2>4, <2>6, <2>7
  <2>12. g \in [0..(k + 1) -> Nat]
    BY <2>8, <2>11
  <2>13. g[0] = 0
    BY <2>4, <2>10
  <2>14. ASSUME NEW i \in 1..(k + 1)
         PROVE  g[i] = 2 * g[i - 1] + b[i]
    <3>1. CASE i = k + 1
      <4>1. i - 1 = k /\ k \in 0..k
        BY <3>1
      <4>2. g[k] = h[k]
        BY <2>4, <4>1
      <4> QED
        BY <2>5, <3>1, <4>1, <4>2
    <3>2. CASE i # k + 1
      <4>1. i \in 1..k /\ i \in 0..k /\ i - 1 \in 0..k
        BY <3>2
      <4> QED
        BY <2>4, <2>9, <4>1
    <3> QED
      BY <3>1, <3>2
  <2>15. OK(g, k + 1)
    BY <2>11, <2>12, <2>13, <2>14 DEF OK
  <2> QED
    BY <2>15
<1>3. Len(b) \in S
  <2> HIDE DEF OK
  <2>1. \A k \in Nat : k \in S => k + 1 \in S
    <3> SUFFICES ASSUME NEW k \in Nat, k \in S, k + 1 <= Len(b)
                 PROVE  \E h : OK(h, k + 1)
      OBVIOUS
    <3> QED
      BY <1>2
  <2> HIDE DEF S
  <2> QED
    BY <1>1, <2>1, Induction
<1>4. \E h : OK(h, Len(b))
  <2> HIDE DEF OK
  <2> QED
    BY <1>3
<1> QED
  BY <1>4

LEMMA UintRange ==
    ASSUME NEW b, Len(b) \in Nat, \A i \in 1..Len(b) : b[i] \in {0, 1}
    PROVE  UintOf(b) \in Nat /\ UintOf(b) < 2^Len(b)
<1>1. PICK h \in [0..Len(b) -> Nat] :
         /\ h[0] = 0
         /\ \A i \in 1..Len(b) : h[i] = 2 * h[i - 1] + b[i]
         /\ \A i \in 0..Len(b) : h[i] < 2^i
  BY UintSteps
<1>2. UintOf(b) = h[Len(b)]
  BY <1>1, UintUnique
<1>3. Len(b) \in 0..Len(b)
  OBVIOUS
<1> QED
  BY <1>1, <1>2, <1>3

(* The number that was read is written with the bits it was read from.     *)
LEMMA BitsOfUint ==
    ASSUME NEW b \in Bits
    PROVE  UintBits(UintOf(b), Len(b)) = b
<1> DEFINE w == Len(b)
           x == UintOf(b)
<1>1. w \in Nat /\ b = [i \in 1..w |-> b[i]] /\ \A i \in 1..w : b[i] \in {0, 1}
  BY BitsParts
<1>2. PICK h \in [0..w -> Nat] :
         /\ h[0] = 0
         /\ \A i \in 1..w : h[i] = 2 * h[i - 1] + b[i]
         /\ \A i \in 0..w : h[i] < 2^i
  BY <1>1, UintSteps
<1>3. x = h[w]
  BY <1>1, <1>2, UintUnique
<1> DEFINE S == {k \in Nat : k <= w => x \div 2^k = h[w - k]}
<1> HIDE DEF w, x
<1>4. \A i \in 0..w : h[i] \in Nat
  BY <1>2
<1>5. x \in Nat
  BY <1>1, <1>3, <1>4
<1>6. 0 \in S
  BY <1>1, <1>3, <1>5, PowerOfZero
<1>7. ASSUME NEW k \in Nat, k \in S, k + 1 <= w
      PROVE  x \div 2^(k + 1) = h[w - (k + 1)]
  <2>1. k <= w /\ w - k \in 1..w /\ (w - k) - 1 = w - (k + 1) /\ w - (k + 1) \in 0..w
    BY <1>1, <1>7
  <2>2. x \div 2^k = h[w - k]
    BY <1>7, <2>1
  <2>3. 2^k \in Nat /\ 2^k > 0 /\ 2^(k + 1) = 2 * 2^k
    BY PowerDoubles
  <2>4. x \div 2^(k + 1) = h[w - k] \div 2
    <3> DEFINE p == 2^k
    <3>1. p \in Nat /\ p > 0 /\ 2^(k + 1) = 2 * p /\ x \div p = h[w - k]
      BY <2>2, <2>3
    <3> HIDE DEF p
    <3>2. (x \div p) \div 2 = x \div (2 * p)
      BY <1>5, <3>1, HalfOf
    <3> QED
      BY <3>1, <3>2
  <2>5. h[w - k] = 2 * h[w - (k + 1)] + b[w - k] /\ b[w - k] \in {0, 1}
    BY <1>1, <1>2, <2>1
  <2>6. h[w - (k + 1)] \in Nat
    BY <1>4, <2>1
  <2>7. (2 * h[w - (k + 1)] + b[w - k]) \div 2 = h[w - (k + 1)]
    BY ONLY <2>5, <2>6, HalfOfSum
  <2> QED
    BY ONLY <2>4, <2>5, <2>7
<1>8. \A k \in Nat : k \in S
  <2>1. \A k \in Nat : k \in S => k + 1 \in S
    BY <1>7
  <2> HIDE DEF S
  <2> QED
    BY <1>6, <2>1, Induction
<1>9. ASSUME NEW i \in 1..w
      PROVE  (x \div 2^(w - i)) % 2 = b[i]
  <2>1. w - i \in Nat /\ w - i <= w /\ w - (w - i) = i /\ i \in 0..w /\ i - 1 \in 0..w
    BY <1>1
  <2>2. x \div 2^(w - i) = h[i]
    BY <1>8, <2>1
  <2>3. h[i] = 2 * h[i - 1] + b[i] /\ b[i] \in {0, 1} /\ h[i - 1] \in Nat
    BY <1>1, <1>2, <1>4, <2>1
  <2> QED
    BY <2>2, <2>3
<1>10. UintBits(x, w) = [i \in 1..w |-> b[i]]
  BY <1>9 DEF UintBits
<1> QED
  BY <1>1, <1>10 DEF w, x

(* append_uint appends bits, as many as it is told to.                     *)
LEMMA UintBitsAreBits ==
    ASSUME NEW n \in Nat, NEW w \in Nat
    PROVE  UintBits(n, w) \in Bits /\ Len(UintBits(n, w)) = w
<1>1. ASSUME NEW i \in 1..w
      PROVE  (n \div 2^(w - i)) % 2 \in {0, 1}
  <2>1. w - i \in Nat
    OBVIOUS
  <2>2. 2^(w - i) \in Nat /\ 2^(w - i) > 0
    BY <2>1, PowerDoubles
  <2>3. n \div 2^(w - i) \in Nat
    BY <2>2, Divided
  <2> QED
    BY <2>3, Halves
<1> DEFINE f == [i \in 1..w |-> (n \div 2^(w - i)) % 2]
<1>2. \A i \in 1..w : f[i] \in {0, 1}
  BY <1>1
<1>3. UintBits(n, w) = f /\ f = [i \in 1..w |-> f[i]]
  BY DEF UintBits
<1> HIDE DEF f
<1> QED
  BY <1>2, <1>3, BitsMade

LEMMA EmptyBits == <<>> \in Bits /\ Len(<<>>) = 0
BY DEF Bits

LEMMA OneBit ==
    ASSUME NEW x \in {0, 1}
    PROVE  <<x>> \in Bits /\ Len(<<x>>) = 1 /\ <<x>>[1] = x
BY DEF Bits

LEMMA Joined ==
    ASSUME NEW e \in Bits, NEW f \in Bits
    PROVE  /\ e \o f \in Bits /\ Len(e \o f) = Len(e) + Len(f)
           /\ \A i \in 1..Len(e) : (e \o f)[i] = e[i]
           /\ \A i \in 1..Len(f) : (e \o f)[Len(e) + i] = f[i]
BY DEF Bits

-----------------------------------------------------------------------------
(* What stands in a stream at a cursor.                                    *)

Stands(s, c, e) ==
    /\ s \in Bits /\ e \in Bits
    /\ c \in Nat /\ c + Len(e) <= Len(s)
    /\ \A i \in 1..Len(e) : s[c + i] = e[i]

LEMMA StandsIn ==
    ASSUME NEW s, NEW c, NEW e, Stands(s, c, e)
    PROVE  /\ s \in Bits /\ e \in Bits /\ Len(e) \in Nat /\ Len(s) \in Nat
           /\ c \in 0..Len(s) /\ c + Len(e) \in 0..Len(s)
<1>1. Len(s) \in Nat /\ Len(e) \in Nat
  BY BitsParts DEF Stands
<1> QED
  BY <1>1 DEF Stands

LEMMA SliceStands ==
    ASSUME NEW s \in Bits, NEW c \in Nat, NEW n \in Nat, c + n <= Len(s)
    PROVE  /\ Stands(s, c, SubSeq(s, c + 1, c + n))
           /\ Len(SubSeq(s, c + 1, c + n)) = n
<1> DEFINE e == SubSeq(s, c + 1, c + n)
<1>1. e \in Bits /\ Len(e) = n /\ e = [i \in 1..n |-> s[c + i]]
  BY DEF Bits
<1> HIDE DEF e
<1>2. Stands(s, c, e)
  BY <1>1 DEF Stands
<1> QED
  BY <1>1, <1>2 DEF e

LEMMA SliceIs ==
    ASSUME NEW s, NEW c, NEW e, Stands(s, c, e)
    PROVE  SubSeq(s, c + 1, c + Len(e)) = e
<1>1. /\ s \in Bits /\ c \in Nat /\ Len(e) \in Nat /\ c + Len(e) <= Len(s)
      /\ e = [i \in 1..Len(e) |-> e[i]] /\ \A i \in 1..Len(e) : s[c + i] = e[i]
  BY BitsParts DEF Stands
<1>2. SubSeq(s, c + 1, c + Len(e)) = [i \in 1..Len(e) |-> s[c + i]]
  BY <1>1 DEF Bits
<1> QED
  BY <1>1, <1>2

LEMMA StandsParts ==
    ASSUME NEW s, NEW c, NEW e \in Bits, NEW f \in Bits
    PROVE  Stands(s, c, e \o f) <=> Stands(s, c, e) /\ Stands(s, c + Len(e), f)
<1> DEFINE g == e \o f
<1>1. /\ g \in Bits /\ Len(g) = Len(e) + Len(f)
      /\ \A i \in 1..Len(e) : g[i] = e[i]
      /\ \A i \in 1..Len(f) : g[Len(e) + i] = f[i]
  BY Joined
<1>2. Len(e) \in Nat /\ Len(f) \in Nat
  BY BitsParts
<1> HIDE DEF g
<1>3. ASSUME Stands(s, c, g)
      PROVE  Stands(s, c, e) /\ Stands(s, c + Len(e), f)
  <2>1. /\ s \in Bits /\ c \in Nat /\ c + Len(g) <= Len(s)
        /\ \A i \in 1..Len(g) : s[c + i] = g[i] /\ Len(s) \in Nat
    BY <1>3, BitsParts DEF Stands
  <2>2. \A i \in 1..Len(e) : i \in 1..Len(g)
    BY <1>1, <1>2
  <2>3. Stands(s, c, e)
    BY <1>1, <1>2, <2>1, <2>2 DEF Stands
  <2>4. \A i \in 1..Len(f) : Len(e) + i \in 1..Len(g) /\ c + (Len(e) + i) = (c + Len(e)) + i
    BY <1>1, <1>2, <2>1
  <2>5. \A i \in 1..Len(f) : s[(c + Len(e)) + i] = f[i]
    BY <1>1, <2>1, <2>4
  <2>6. Stands(s, c + Len(e), f)
    BY <1>1, <1>2, <2>1, <2>5 DEF Stands
  <2> QED
    BY <2>3, <2>6
<1>4. ASSUME Stands(s, c, e), Stands(s, c + Len(e), f)
      PROVE  Stands(s, c, g)
  <2>1. /\ s \in Bits /\ c \in Nat /\ (c + Len(e)) + Len(f) <= Len(s) /\ Len(s) \in Nat
        /\ \A i \in 1..Len(e) : s[c + i] = e[i]
        /\ \A i \in 1..Len(f) : s[(c + Len(e)) + i] = f[i]
    BY <1>4, BitsParts DEF Stands
  <2>2. ASSUME NEW i \in 1..Len(g)
        PROVE  s[c + i] = g[i]
    <3>1. CASE i <= Len(e)
      <4>1. i \in 1..Len(e)
        BY <1>2, <3>1
      <4> QED
        BY <1>1, <2>1, <4>1
    <3>2. CASE i > Len(e)
      <4>1. /\ i - Len(e) \in 1..Len(f) /\ Len(e) + (i - Len(e)) = i
            /\ (c + Len(e)) + (i - Len(e)) = c + i
        BY <1>1, <1>2, <2>1, <3>2
      <4>2. g[Len(e) + (i - Len(e))] = f[i - Len(e)]
        BY <1>1, <4>1
      <4>3. s[(c + Len(e)) + (i - Len(e))] = f[i - Len(e)]
        BY <2>1, <4>1
      <4> QED
        BY <4>1, <4>2, <4>3
    <3> QED
      BY <1>1, <1>2, <3>1, <3>2
  <2> QED
    BY <1>1, <1>2, <2>1, <2>2 DEF Stands
<1> QED
  BY <1>3, <1>4 DEF g

LEMMA WordIsNat == Word \in Nat /\ Word > 0
<1>1. HeaderBits \in Nat /\ ByteBits \in Nat /\ ByteBits > 0
  BY CodecAssumption
<1>2. 2^HeaderBits \in Nat /\ 2^HeaderBits > 0
  BY <1>1, PowerDoubles
<1>3. \A m, n \in Nat : m > 0 /\ n > 0 => m * n \in Nat /\ m * n > 0
  OBVIOUS
<1> QED
  BY <1>1, <1>2, <1>3 DEF Word

(* read_bits, read and read_uint read what stands at the cursor, or fail   *)
(* and leave it.                                                           *)
LEMMA BitsReadBack ==
    ASSUME NEW s, NEW c, NEW e, Stands(s, c, e)
    PROVE  ReadBits(s, c, Len(e)) = Got(e, c + Len(e))
<1>1. ~(Len(e) > Len(s) - c)
  BY BitsParts DEF Stands
<1>2. SubSeq(s, c + 1, c + Len(e)) = e
  BY SliceIs
<1> QED
  BY <1>1, <1>2 DEF ReadBits

LEMMA BitsRead ==
    ASSUME NEW s \in Bits, NEW c \in 0..Len(s), NEW n \in Nat
    PROVE  \/ ReadBits(s, c, n) = Failed(c)
           \/ \E e \in Bits : /\ Len(e) = n /\ Stands(s, c, e)
                              /\ ReadBits(s, c, n) = Got(e, c + n)
<1> DEFINE e == SubSeq(s, c + 1, c + n)
<1>1. Len(s) \in Nat /\ c \in Nat
  BY BitsParts
<1>2. CASE n > Len(s) - c
  BY <1>2 DEF ReadBits
<1>3. CASE ~(n > Len(s) - c)
  <2>1. c + n <= Len(s)
    BY <1>1, <1>3
  <2>2. Stands(s, c, e) /\ Len(e) = n
    BY <1>1, <2>1, SliceStands
  <2>3. ReadBits(s, c, n) = Got(e, c + n)
    BY <1>3 DEF ReadBits
  <2> HIDE DEF e
  <2> QED
    BY <2>2, <2>3 DEF Stands
<1> QED
  BY <1>2, <1>3

LEMMA BitReadBack ==
    ASSUME NEW s, NEW c, NEW x \in {0, 1}, Stands(s, c, <<x>>)
    PROVE  ReadBit(s, c) = Got(x, c + 1)
<1>1. Len(<<x>>) = 1 /\ <<x>>[1] = x /\ 1 \in 1..1
  BY OneBit
<1>2. c \in Nat /\ c + 1 <= Len(s) /\ s[c + 1] = x /\ Len(s) \in Nat
  BY <1>1, BitsParts DEF Stands
<1>3. ~(c >= Len(s))
  BY <1>2
<1> QED
  BY <1>2, <1>3 DEF ReadBit

LEMMA BitRead ==
    ASSUME NEW s \in Bits, NEW c \in 0..Len(s)
    PROVE  \/ ReadBit(s, c) = Failed(c)
           \/ \E x \in {0, 1} : Stands(s, c, <<x>>) /\ ReadBit(s, c) = Got(x, c + 1)
<1>1. Len(s) \in Nat /\ c \in Nat /\ \A i \in 1..Len(s) : s[i] \in {0, 1}
  BY BitsParts
<1>2. CASE c >= Len(s)
  BY <1>2 DEF ReadBit
<1>3. CASE ~(c >= Len(s))
  <2>1. c + 1 \in 1..Len(s) /\ c + 1 <= Len(s)
    BY <1>1, <1>3
  <2>2. PICK x \in {0, 1} : x = s[c + 1]
    BY <1>1, <2>1
  <2>3. <<x>> \in Bits /\ Len(<<x>>) = 1 /\ <<x>>[1] = x
    BY OneBit
  <2>4. Stands(s, c, <<x>>)
    BY <1>1, <2>1, <2>2, <2>3 DEF Stands
  <2>5. ReadBit(s, c) = Got(x, c + 1)
    BY <1>3, <2>2 DEF ReadBit
  <2> QED
    BY <2>4, <2>5
<1> QED
  BY <1>2, <1>3

LEMMA UintReadBack ==
    ASSUME NEW s, NEW c, NEW w \in 0..Word, NEW x \in 0..(2^w - 1), Stands(s, c, UintBits(x, w))
    PROVE  ReadUint(s, c, w) = Got(x, c + w)
<1>1. w \in Nat /\ w <= Word /\ x \in Nat
  BY WordIsNat
<1>2. UintBits(x, w) \in Bits /\ Len(UintBits(x, w)) = w
  BY <1>1, UintBitsAreBits
<1>3. c \in Nat /\ Len(s) \in Nat /\ c + w <= Len(s)
  BY <1>2, BitsParts DEF Stands
<1>4. SubSeq(s, c + 1, c + w) = UintBits(x, w)
  BY <1>2, SliceIs
<1>5. UintOf(UintBits(x, w)) = x
  BY <1>1, UintOfBits
<1>6. ~(w > Word \/ w > Len(s) - c)
  BY <1>1, <1>3, WordIsNat
<1> QED
  BY <1>4, <1>5, <1>6 DEF ReadUint

LEMMA UintRead ==
    ASSUME NEW s \in Bits, NEW c \in 0..Len(s), NEW w \in Nat
    PROVE  \/ ReadUint(s, c, w) = Failed(c)
           \/ /\ w <= Word
              /\ \E x \in 0..(2^w - 1) : /\ Stands(s, c, UintBits(x, w))
                                         /\ ReadUint(s, c, w) = Got(x, c + w)
<1> DEFINE e == SubSeq(s, c + 1, c + w)
           x == UintOf(e)
<1>1. Len(s) \in Nat /\ c \in Nat
  BY BitsParts
<1>2. CASE w > Word \/ w > Len(s) - c
  BY <1>2 DEF ReadUint
<1>3. CASE ~(w > Word \/ w > Len(s) - c)
  <2>1. c + w <= Len(s) /\ w <= Word
    BY <1>1, <1>3, WordIsNat
  <2>2. Stands(s, c, e) /\ Len(e) = w
    BY <1>1, <2>1, SliceStands
  <2>3. ReadUint(s, c, w) = Got(x, c + w)
    BY <1>3 DEF ReadUint
  <2>4. e \in Bits
    BY <2>2 DEF Stands
  <2> HIDE DEF e
  <2>5. x \in Nat /\ x < 2^w
    BY <2>2, <2>4, BitsParts, UintRange
  <2>6. UintBits(x, w) = e
    BY <2>2, <2>4, BitsOfUint
  <2>7. 2^w \in Nat
    BY PowerDoubles
  <2> HIDE DEF x
  <2>8. x \in 0..(2^w - 1)
    BY <2>5, <2>7
  <2> QED
    BY <2>1, <2>2, <2>3, <2>6, <2>8
<1> QED
  BY <1>2, <1>3

-----------------------------------------------------------------------------
(* A decoder of a record reads its fields one after the other.             *)

\* Every field a decoder knows, whatever kind of list it stands in.
ReadAny(s, c, f) == IF f.type = "record" THEN DecodeRecord(s, c) ELSE ReadArgument(s, c, f)
ReadAnything(s, a, fields) == ReadAll(ReadAny, s, a, fields)

FieldStep(s, a, read, field) ==
    Then(read, a, LAMBDA values, from :
        Then(ReadAny(s, from, field), from, LAMBDA v, end : Got(Append(values, v), end)))

LEMMA ReadingFolds ==
    ASSUME NEW s, NEW a, NEW fields
    PROVE  ReadAnything(s, a, fields) =
        (CHOOSE g : g = [t \in SUBSET DOMAIN fields |->
            IF t = {} THEN Got(<<>>, a)
            ELSE FieldStep(s, a, g[t \ {Max(t)}], fields[Max(t)])])[DOMAIN fields]
BY DEF ReadAnything, ReadAll, FoldLeft, MapThenFoldSet, FieldStep

(* A set of numbers up to n has a greatest one.                            *)
LEMMA MaxOfNumbers ==
    ASSUME NEW n \in Nat, NEW S \in SUBSET (0..n), S # {}
    PROVE  Max(S) \in S /\ \A j \in S : j <= Max(S)
<1> DEFINE R == {j \in Nat : n - j \in S}
<1>1. PICK i \in S : TRUE
  OBVIOUS
<1>2. n - i \in R /\ R \in SUBSET Nat
  BY <1>1
<1>3. PICK k \in R : \A j \in R : ~(j < k)
  <2> HIDE DEF R
  <2> QED
    BY <1>2, LeastNumber
<1>4. n - k \in S
  BY <1>3
<1>5. \A j \in S : j <= n - k
  <2> SUFFICES ASSUME NEW j \in S
               PROVE  j <= n - k
    OBVIOUS
  <2>1. n - j \in R /\ j \in Nat /\ n - j \in Nat /\ k \in Nat
    OBVIOUS
  <2>2. ~(n - j < k)
    BY <1>3, <2>1
  <2> HIDE DEF R
  <2> QED
    BY <2>1, <2>2
<1> QED
  BY <1>4, <1>5 DEF Max

LEMMA MaxOfInterval ==
    ASSUME NEW k \in Nat, NEW t \in SUBSET (1..(k + 1)), k + 1 \in t
    PROVE  Max(t) = k + 1 /\ t \ {Max(t)} \in SUBSET (1..k)
<1>1. \A x \in t : x \in Nat /\ k + 1 >= x
  OBVIOUS
<1>2. ASSUME NEW m \in t, \A x \in t : m >= x
      PROVE  m = k + 1
  BY <1>1, <1>2
<1>3. Max(t) = k + 1
  BY <1>1, <1>2 DEF Max
<1> QED
  BY <1>3

\* The fold that reads a record has an intermediate result before every field.
StepsOf(s, a, fields) ==
    \E F : /\ F[0] = Got(<<>>, a)
           /\ \A k \in 1..Len(fields) : F[k] = FieldStep(s, a, F[k - 1], fields[k])
           /\ ReadAnything(s, a, fields) = F[Len(fields)]

LEMMA ReadingSteps ==
    ASSUME NEW s, NEW a, NEW fields, Len(fields) \in Nat, DOMAIN fields = 1..Len(fields)
    PROVE  StepsOf(s, a, fields)
<1> DEFINE n == Len(fields)
           OK(g, k) == g = [t \in SUBSET (1..k) |->
               IF t = {} THEN Got(<<>>, a)
               ELSE FieldStep(s, a, g[t \ {Max(t)}], fields[Max(t)])]
           S == {k \in Nat : \E g : OK(g, k)}
<1>1. 0 \in S
  <2> DEFINE g0 == [t \in SUBSET (1..0) |-> Got(<<>>, a)]
  <2>1. \A t \in SUBSET (1..0) : t = {}
    OBVIOUS
  <2>2. OK(g0, 0)
    BY <2>1
  <2> HIDE DEF OK, g0
  <2> QED
    BY <2>2
<1>2. ASSUME NEW k \in Nat, k \in S
      PROVE  k + 1 \in S
  <2>1. PICK g : OK(g, k)
    <3> HIDE DEF OK
    <3> QED
      BY <1>2
  <2> DEFINE h == [t \in SUBSET (1..(k + 1)) |->
                    IF k + 1 \in t THEN FieldStep(s, a, g[t \ {k + 1}], fields[k + 1]) ELSE g[t]]
             Body(f, t) == IF t = {} THEN Got(<<>>, a)
                           ELSE FieldStep(s, a, f[t \ {Max(t)}], fields[Max(t)])
  <2>2. \A t \in SUBSET (1..k) : h[t] = g[t] /\ g[t] = Body(g, t)
    <3>1. \A t \in SUBSET (1..k) : t \in SUBSET (1..(k + 1)) /\ k + 1 \notin t
      OBVIOUS
    <3>2. \A t \in SUBSET (1..k) : h[t] = g[t]
      BY <3>1
    <3>3. \A t \in SUBSET (1..k) : g[t] = Body(g, t)
      BY <2>1
    <3> QED
      BY <3>2, <3>3
  <2>3. \A t \in SUBSET (1..k) : t # {} => t \ {Max(t)} \in SUBSET (1..k)
    OBVIOUS
  <2>4. ASSUME NEW t \in SUBSET (1..(k + 1))
        PROVE  h[t] = Body(h, t)
    <3>1. CASE k + 1 \in t
      <4>1. Max(t) = k + 1 /\ t \ {Max(t)} \in SUBSET (1..k)
        BY <3>1, MaxOfInterval
      <4>2. h[t] = FieldStep(s, a, g[t \ {k + 1}], fields[k + 1])
        BY <3>1
      <4>3. h[t \ {Max(t)}] = g[t \ {k + 1}]
        BY <2>2, <4>1
      <4>4. t # {}
        BY <3>1
      <4> HIDE DEF h
      <4> QED
        BY <4>1, <4>2, <4>3, <4>4
    <3>2. CASE k + 1 \notin t
      <4>1. t \in SUBSET (1..k)
        BY <3>2
      <4>2. h[t] = Body(g, t)
        BY <2>2, <4>1
      <4>3. t # {} => h[t \ {Max(t)}] = g[t \ {Max(t)}]
        BY <2>2, <2>3, <4>1
      <4> HIDE DEF h
      <4> QED
        BY <4>2, <4>3
    <3> QED
      BY <3>1, <3>2
  <2>5. OK(h, k + 1)
    <3>1. h = [t \in SUBSET (1..(k + 1)) |-> h[t]]
      OBVIOUS
    <3> HIDE DEF h
    <3> QED
      BY <2>4, <3>1
  <2> HIDE DEF OK, h
  <2> QED
    BY <2>5
<1>3. \E g : OK(g, n)
  <2> HIDE DEF OK
  <2>1. \A k \in Nat : k \in S => k + 1 \in S
    BY <1>2
  <2>2. \A k \in Nat : k \in S
    <3> HIDE DEF S
    <3> QED
      BY <1>1, <2>1, Induction
  <2> QED
    BY <2>2
<1>4. OK(CHOOSE g : OK(g, n), n)
  <2> HIDE DEF OK
  <2> QED
    BY <1>3
<1> DEFINE it == CHOOSE g : OK(g, n)
           F == [k \in 0..n |-> it[1..k]]
<1>5. ReadAnything(s, a, fields) = it[1..n]
  BY ReadingFolds
<1> HIDE DEF it
<1>6. OK(it, n)
  BY <1>4 DEF it
<1>7. F[0] = Got(<<>>, a)
  <2>1. 1..0 = {} /\ {} \in SUBSET (1..n) /\ 0 \in 0..n
    OBVIOUS
  <2>2. it[{}] = Got(<<>>, a)
    BY <1>6, <2>1
  <2> QED
    BY <2>1, <2>2
<1>8. ASSUME NEW k \in 1..n
      PROVE  F[k] = FieldStep(s, a, F[k - 1], fields[k])
  <2>1. k - 1 \in Nat /\ (k - 1) + 1 = k /\ k - 1 \in 0..n /\ k \in 0..n /\ k \in 1..k
    OBVIOUS
  <2>2. Max(1..k) = k
    BY <2>1, MaxOfInterval
  <2>3. (1..k) \ {k} = 1..(k - 1) /\ 1..k \in SUBSET (1..n) /\ 1..k # {}
    <3>1. \A x : x \in (1..k) \ {k} <=> x \in 1..(k - 1)
      OBVIOUS
    <3>2. \A x \in 1..k : x \in 1..n
      OBVIOUS
    <3> QED
      BY <2>1, <3>1, <3>2
  <2>4. it[1..k] = FieldStep(s, a, it[(1..k) \ {Max(1..k)}], fields[Max(1..k)])
    BY <1>6, <2>3
  <2>5. F[k] = it[1..k] /\ F[k - 1] = it[1..(k - 1)]
    BY <2>1
  <2> HIDE DEF F
  <2> QED
    BY <2>2, <2>3, <2>4, <2>5
<1>9. F[n] = it[1..n]
  OBVIOUS
<1> HIDE DEF F
<1> QED
  BY <1>5, <1>7, <1>8, <1>9 DEF StepsOf

LEMMA Results2 ==
    ASSUME NEW v, NEW c
    PROVE  /\ Got(v, c).ok /\ Got(v, c).value = v /\ Got(v, c).at = c
           /\ ~Failed(c).ok /\ Failed(c).at = c
BY DEF Got, Failed

LEMMA FieldStepFailed ==
    ASSUME NEW s, NEW a, NEW field
    PROVE  FieldStep(s, a, Failed(a), field) = Failed(a)
BY DEF FieldStep, Then, Kept, Got, Failed

LEMMA FieldStepResults ==
    ASSUME NEW s, NEW a, NEW c, NEW values, NEW field
    PROVE  /\ ReadAny(s, c, field) = Failed(c) =>
                  FieldStep(s, a, Got(values, c), field) = Failed(a)
           /\ \A v, d : ReadAny(s, c, field) = Got(v, d) =>
                  FieldStep(s, a, Got(values, c), field) = Got(Append(values, v), d)
<1>1. ASSUME ReadAny(s, c, field) = Failed(c)
      PROVE  FieldStep(s, a, Got(values, c), field) = Failed(a)
  BY <1>1 DEF FieldStep, Then, Kept, Got, Failed
<1>2. ASSUME NEW v, NEW d, ReadAny(s, c, field) = Got(v, d)
      PROVE  FieldStep(s, a, Got(values, c), field) = Got(Append(values, v), d)
  <2> DEFINE x == ReadAny(s, c, field)
             inner == Kept(IF x.ok THEN Got(Append(values, x.value), x.at) ELSE x, c)
  <2>1. x.ok /\ x.value = v /\ x.at = d
    BY <1>2, Results2
  <2>2. FieldStep(s, a, Got(values, c), field) = Kept(inner, a)
    <3>1. Got(values, c).ok /\ Got(values, c).value = values /\ Got(values, c).at = c
      BY Results2
    <3> QED
      BY <3>1 DEF FieldStep, Then
  <2> HIDE DEF x
  <2>3. inner = Got(Append(values, v), d)
    BY <2>1, Results2 DEF Kept
  <2> HIDE DEF inner
  <2> QED
    BY <2>2, <2>3, Results2 DEF Kept
<1> QED
  BY <1>1, <1>2

LEMMA AppendMade ==
    ASSUME NEW k \in Nat, NEW v
    PROVE  Append([i \in 1..k |-> v[i]], v[k + 1]) = [i \in 1..(k + 1) |-> v[i]]
<1> DEFINE T == {v[i] : i \in 1..(k + 1)}
           q == [i \in 1..k |-> v[i]]
<1>1. v[k + 1] \in T /\ \A i \in 1..k : v[i] \in T
  OBVIOUS
<1> HIDE DEF T
<1>2. q \in Seq(T) /\ Len(q) = k
  BY <1>1
<1>3. \A i \in 1..k : q[i] = v[i]
  OBVIOUS
<1> HIDE DEF q
<1>4. Append(q, v[k + 1]) = [i \in 1..(k + 1) |-> IF i <= k THEN q[i] ELSE v[k + 1]]
  BY <1>1, <1>2
<1>5. \A i \in 1..(k + 1) : (IF i <= k THEN q[i] ELSE v[k + 1]) = v[i]
  BY <1>3
<1> QED
  BY <1>4, <1>5 DEF q

(* When every field can be read, the record is the sequence of its values. *)
LEMMA AllReadBack ==
    ASSUME NEW s, NEW a, NEW fields, Len(fields) \in Nat, DOMAIN fields = 1..Len(fields),
           NEW v, NEW c, c[0] = a,
           \A k \in 1..Len(fields) : ReadAny(s, c[k - 1], fields[k]) = Got(v[k], c[k])
    PROVE  ReadAnything(s, a, fields) = Got([k \in 1..Len(fields) |-> v[k]], c[Len(fields)])
<1> DEFINE n == Len(fields)
<1>1. PICK F : /\ F[0] = Got(<<>>, a)
               /\ \A k \in 1..Len(fields) : F[k] = FieldStep(s, a, F[k - 1], fields[k])
               /\ ReadAnything(s, a, fields) = F[Len(fields)]
  <2>1. Len(fields) \in Nat /\ DOMAIN fields = 1..Len(fields)
    OBVIOUS
  <2>2. StepsOf(s, a, fields)
    BY <2>1, ReadingSteps
  <2> QED
    BY ONLY <2>2 DEF StepsOf
<1> DEFINE S == {k \in Nat : k <= n => F[k] = Got([i \in 1..k |-> v[i]], c[k])}
<1>2. 0 \in S
  <2>1. [i \in 1..0 |-> v[i]] = <<>>
    OBVIOUS
  <2> QED
    BY <1>1, <2>1
<1>3. ASSUME NEW k \in Nat, k \in S, k + 1 <= n
      PROVE  F[k + 1] = Got([i \in 1..(k + 1) |-> v[i]], c[k + 1])
  <2>1. k <= n /\ k + 1 \in 1..n /\ (k + 1) - 1 = k
    BY <1>3
  <2>2. F[k] = Got([i \in 1..k |-> v[i]], c[k])
    BY <1>3, <2>1
  <2>3. F[k + 1] = FieldStep(s, a, F[k], fields[k + 1])
    BY <1>1, <2>1
  <2>4. ReadAny(s, c[k], fields[k + 1]) = Got(v[k + 1], c[k + 1])
    BY <2>1
  <2>5. F[k + 1] = Got(Append([i \in 1..k |-> v[i]], v[k + 1]), c[k + 1])
    BY <2>2, <2>3, <2>4, FieldStepResults
  <2> QED
    BY <2>5, AppendMade
<1>4. n \in S
  <2>1. \A k \in Nat : k \in S => k + 1 \in S
    BY <1>3
  <2> HIDE DEF S
  <2> QED
    BY <1>2, <2>1, Induction
<1> QED
  BY <1>1, <1>4

\* What reading a field at d may come to.
ReadComes(s, d, field) ==
    \/ ReadAny(s, d, field) = Failed(d)
    \/ \E v : \E e \in 0..Len(s) : ReadAny(s, d, field) = Got(v, e)

\* Reading n fields one after the other from a fails there or reads them all.
ReadsHere(s, a, fields, n) ==
    \/ ReadAnything(s, a, fields) = Failed(a)
    \/ \E v, m : /\ m[0] = a /\ \A k \in 0..n : m[k] \in 0..Len(s)
                 /\ \A k \in 1..n : ReadAny(s, m[k - 1], fields[k]) = Got(v[k], m[k])
                 /\ ReadAnything(s, a, fields) = Got([k \in 1..n |-> v[k]], m[n])

(* Reading a record either fails at its start, or every field was read.    *)
LEMMA AllRead ==
    ASSUME NEW s \in Bits, NEW a \in 0..Len(s),
           NEW fields, Len(fields) \in Nat, DOMAIN fields = 1..Len(fields),
           \A k \in 1..Len(fields) : \A d \in 0..Len(s) : ReadComes(s, d, fields[k])
    PROVE  ReadsHere(s, a, fields, Len(fields))
<1> DEFINE n == Len(fields)
           Good(k, v, c) ==
               /\ c[0] = a /\ \A i \in 0..k : c[i] \in 0..Len(s)
               /\ \A i \in 1..k : ReadAny(s, c[i - 1], fields[i]) = Got(v[i], c[i])
<1>1. PICK F : /\ F[0] = Got(<<>>, a)
               /\ \A k \in 1..Len(fields) : F[k] = FieldStep(s, a, F[k - 1], fields[k])
               /\ ReadAnything(s, a, fields) = F[Len(fields)]
  <2>1. Len(fields) \in Nat /\ DOMAIN fields = 1..Len(fields)
    OBVIOUS
  <2>2. StepsOf(s, a, fields)
    BY <2>1, ReadingSteps
  <2> QED
    BY ONLY <2>2 DEF StepsOf
<1> DEFINE Is(k) == \E v, c : Good(k, v, c) /\ F[k] = Got([i \in 1..k |-> v[i]], c[k])
           S == {k \in Nat : k <= n => F[k] = Failed(a) \/ Is(k)}
<1>2. 0 \in S
  <2> DEFINE c0 == [i \in 0..0 |-> a]
  <2>1. Good(0, <<>>, c0)
    OBVIOUS
  <2>2. F[0] = Got([i \in 1..0 |-> <<>>[i]], c0[0])
    <3>1. [i \in 1..0 |-> <<>>[i]] = <<>>
      OBVIOUS
    <3> QED
      BY <1>1, <3>1
  <2> HIDE DEF Good, c0
  <2>3. Is(0)
    BY <2>1, <2>2
  <2> HIDE DEF Is
  <2> QED
    BY <2>3
<1>3. ASSUME NEW k \in Nat, k \in S, k + 1 <= n
      PROVE  F[k + 1] = Failed(a) \/ Is(k + 1)
  <2>1. k <= n /\ k + 1 \in 1..n /\ (k + 1) - 1 = k
    BY <1>3
  <2>2. F[k + 1] = FieldStep(s, a, F[k], fields[k + 1])
    BY <1>1, <2>1
  <2>3. F[k] = Failed(a) \/ Is(k)
    <3> HIDE DEF Is
    <3> QED
      BY <1>3, <2>1
  <2>4. CASE F[k] = Failed(a)
    <3>1. F[k + 1] = Failed(a)
      BY <2>2, <2>4, FieldStepFailed
    <3> HIDE DEF Is
    <3> QED
      BY <3>1
  <2>5. CASE Is(k)
    <3>1. PICK v, c : Good(k, v, c) /\ F[k] = Got([i \in 1..k |-> v[i]], c[k])
      <4> HIDE DEF Good
      <4> QED
        BY <2>5
    <3>2. c[k] \in 0..Len(s)
      BY <3>1
    <3>3. CASE ReadAny(s, c[k], fields[k + 1]) = Failed(c[k])
      BY <2>2, <3>1, <3>3, FieldStepResults
    <3>4. CASE \E w : \E e \in 0..Len(s) : ReadAny(s, c[k], fields[k + 1]) = Got(w, e)
      <4>0. PICK w : \E e \in 0..Len(s) : ReadAny(s, c[k], fields[k + 1]) = Got(w, e)
        BY <3>4
      <4>1. PICK e \in 0..Len(s) : ReadAny(s, c[k], fields[k + 1]) = Got(w, e)
        BY <4>0
      <4> DEFINE v2 == [i \in 1..(k + 1) |-> IF i = k + 1 THEN w ELSE v[i]]
                 c2 == [i \in 0..(k + 1) |-> IF i = k + 1 THEN e ELSE c[i]]
      <4>2. /\ \A i \in 1..k : v2[i] = v[i]
            /\ \A i \in 0..k : c2[i] = c[i]
            /\ v2[k + 1] = w /\ c2[k + 1] = e
        OBVIOUS
      <4> HIDE DEF v2, c2
      <4>3. F[k + 1] = Got(Append([i \in 1..k |-> v[i]], w), e)
        BY <2>2, <3>1, <4>1, FieldStepResults
      <4>4. [i \in 1..k |-> v[i]] = [i \in 1..k |-> v2[i]]
        BY <4>2
      <4>5. F[k + 1] = Got([i \in 1..(k + 1) |-> v2[i]], c2[k + 1])
        <5>1. Append([i \in 1..k |-> v2[i]], v2[k + 1]) = [i \in 1..(k + 1) |-> v2[i]]
          BY AppendMade
        <5>2. F[k + 1] = Got(Append([i \in 1..k |-> v2[i]], v2[k + 1]), c2[k + 1])
          BY <4>2, <4>3, <4>4
        <5> QED
          BY <5>1, <5>2
      <4>6. c2[0] = a
        BY <3>1, <4>2
      <4>7. ASSUME NEW i \in 0..(k + 1) PROVE c2[i] \in 0..Len(s)
        <5>1. CASE i \in 0..k
          BY <3>1, <4>2, <5>1
        <5>2. CASE i = k + 1
          BY <4>2, <5>2
        <5> QED
          BY <5>1, <5>2
      <4>8. ASSUME NEW i \in 1..(k + 1)
            PROVE  ReadAny(s, c2[i - 1], fields[i]) = Got(v2[i], c2[i])
        <5>1. CASE i \in 1..k
          <6>1. i - 1 \in 0..k /\ i \in 0..k
            BY <5>1
          <6>2. c2[i - 1] = c[i - 1] /\ c2[i] = c[i] /\ v2[i] = v[i]
            BY <4>2, <5>1, <6>1
          <6> QED
            BY <3>1, <5>1, <6>2
        <5>2. CASE i = k + 1
          <6>1. c2[i - 1] = c[k] /\ c2[i] = e /\ v2[i] = w
            BY <4>2, <5>2
          <6> QED
            BY <4>1, <5>2, <6>1
        <5> QED
          BY <5>1, <5>2
      <4>9. Good(k + 1, v2, c2)
        BY <4>6, <4>7, <4>8
      <4> HIDE DEF Good
      <4> QED
        BY <4>5, <4>9
    <3>5. ReadComes(s, c[k], fields[k + 1])
      BY <2>1, <3>2
    <3> QED
      BY <3>3, <3>4, <3>5 DEF ReadComes
  <2> HIDE DEF Is
  <2> QED
    BY <2>3, <2>4, <2>5
<1>4. n \in S
  <2>1. \A k \in Nat : k \in S => k + 1 \in S
    <3> SUFFICES ASSUME NEW k \in Nat, k \in S, k + 1 <= n
                 PROVE  F[k + 1] = Failed(a) \/ Is(k + 1)
      <4> HIDE DEF Is
      <4> QED
        OBVIOUS
    <3> HIDE DEF Is, S
    <3> QED
      BY <1>3
  <2> HIDE DEF S
  <2> QED
    BY <1>2, <2>1, Induction
<1>5. F[n] = Failed(a) \/ Is(n)
  <2> HIDE DEF Is
  <2> QED
    BY <1>4
<1>6. ASSUME Is(n)
      PROVE  \E v, c : /\ Good(n, v, c)
                       /\ ReadAnything(s, a, fields) = Got([k \in 1..n |-> v[k]], c[n])
  <2> HIDE DEF Good
  <2> QED
    BY <1>1, <1>6
<1>7. ReadAnything(s, a, fields) = Failed(a) \/ Is(n)
  <2> HIDE DEF Is
  <2> QED
    BY <1>1, <1>5
<1>8. CASE Is(n)
  <2>1. PICK v, c : /\ Good(n, v, c)
                    /\ ReadAnything(s, a, fields) = Got([k \in 1..n |-> v[k]], c[n])
    <3> HIDE DEF Is, Good
    <3> QED
      BY <1>6, <1>8
  <2> QED
    BY <2>1 DEF ReadsHere
<1>9. CASE ReadAnything(s, a, fields) = Failed(a)
  BY <1>9 DEF ReadsHere
<1> HIDE DEF Is
<1> QED
  BY <1>7, <1>8, <1>9

\* The fields of the machine's own records.
IsPlain(field) == field.type \notin {"selector", "source", "destination", "record"}

LEMMA PlainField ==
    ASSUME NEW s, NEW c, NEW field, IsPlain(field)
    PROVE  ReadAny(s, c, field) = ReadField(s, c, field)
BY DEF IsPlain, ReadAny, ReadArgument

LEMMA PlainFields ==
    ASSUME NEW s, NEW a, NEW fields, NEW n \in Nat, DOMAIN fields = 1..n,
           \A k \in 1..n : IsPlain(fields[k])
    PROVE  ReadFields(s, a, fields) = ReadAnything(s, a, fields)
<1> DEFINE Step(read, field) ==
               Then(read, a, LAMBDA values, from :
                   Then(ReadField(s, from, field), from,
                        LAMBDA v, end : Got(Append(values, v), end)))
           Plain(g) == g = [t \in SUBSET DOMAIN fields |->
               IF t = {} THEN Got(<<>>, a) ELSE Step(g[t \ {Max(t)}], fields[Max(t)])]
           Whatever(g) == g = [t \in SUBSET DOMAIN fields |->
               IF t = {} THEN Got(<<>>, a)
               ELSE FieldStep(s, a, g[t \ {Max(t)}], fields[Max(t)])]
<1>1. ReadFields(s, a, fields) = (CHOOSE g : Plain(g))[DOMAIN fields]
  BY DEF ReadFields, ReadAll, FoldLeft, MapThenFoldSet
<1>2. ReadAnything(s, a, fields) = (CHOOSE g : Whatever(g))[DOMAIN fields]
  BY ReadingFolds
<1>3. ASSUME NEW t \in SUBSET DOMAIN fields, t # {}, NEW read
      PROVE  Step(read, fields[Max(t)]) = FieldStep(s, a, read, fields[Max(t)])
  <2>1. t \in SUBSET (0..n)
    OBVIOUS
  <2>2. Max(t) \in 1..n
    BY <1>3, <2>1, MaxOfNumbers
  <2>3. \A c : ReadAny(s, c, fields[Max(t)]) = ReadField(s, c, fields[Max(t)])
    BY <2>2, PlainField
  <2> QED
    BY <2>3 DEF FieldStep, Then
<1>4. \A g : Plain(g) <=> Whatever(g)
  <2> HIDE DEF Step
  <2> QED
    BY <1>3
<1> HIDE DEF Plain, Whatever
<1>5. (CHOOSE g : Plain(g)) = (CHOOSE g : Whatever(g))
  BY <1>4
<1> QED
  BY <1>1, <1>2, <1>5

LEMMA FieldsReadBack ==
    ASSUME NEW s, NEW a, NEW fields, Len(fields) \in Nat, DOMAIN fields = 1..Len(fields),
           NEW v, NEW c, c[0] = a,
           \A k \in 1..Len(fields) :
               IsPlain(fields[k]) /\ ReadField(s, c[k - 1], fields[k]) = Got(v[k], c[k])
    PROVE  ReadFields(s, a, fields) = Got([k \in 1..Len(fields) |-> v[k]], c[Len(fields)])
<1>1. /\ Len(fields) \in Nat /\ DOMAIN fields = 1..Len(fields) /\ c[0] = a
      /\ \A k \in 1..Len(fields) : ReadAny(s, c[k - 1], fields[k]) = Got(v[k], c[k])
  BY PlainField
<1>2. ReadAnything(s, a, fields) = Got([k \in 1..Len(fields) |-> v[k]], c[Len(fields)])
  BY ONLY <1>1, AllReadBack, SMTT(60)
<1>3. ReadFields(s, a, fields) = ReadAnything(s, a, fields)
  BY PlainFields
<1> QED
  BY <1>2, <1>3

\* What reading a field at d may come to.
FieldComes(s, d, field) ==
    \/ ReadField(s, d, field) = Failed(d)
    \/ \E v : \E e \in 0..Len(s) : ReadField(s, d, field) = Got(v, e)

\* Reading n fields one after the other from a fails there or reads them all.
FieldsHere(s, a, fields, n) ==
    \/ ReadFields(s, a, fields) = Failed(a)
    \/ \E v, m : /\ m[0] = a /\ \A k \in 0..n : m[k] \in 0..Len(s)
                 /\ \A k \in 1..n : ReadField(s, m[k - 1], fields[k]) = Got(v[k], m[k])
                 /\ ReadFields(s, a, fields) = Got([k \in 1..n |-> v[k]], m[n])

LEMMA FieldsRead ==
    ASSUME NEW s \in Bits, NEW a \in 0..Len(s),
           NEW fields, Len(fields) \in Nat, DOMAIN fields = 1..Len(fields),
           \A k \in 1..Len(fields) :
               IsPlain(fields[k]) /\ \A d \in 0..Len(s) : FieldComes(s, d, fields[k])
    PROVE  FieldsHere(s, a, fields, Len(fields))
<1> DEFINE n == Len(fields)
<1>1. n \in Nat /\ DOMAIN fields = 1..n
  OBVIOUS
<1>2. \A k \in 1..n : \A d : ReadAny(s, d, fields[k]) = ReadField(s, d, fields[k])
  BY PlainField
<1>3. \A k \in 1..n : \A d \in 0..Len(s) : ReadComes(s, d, fields[k])
  BY <1>2 DEF FieldComes, ReadComes
<1>4. ReadsHere(s, a, fields, n)
  BY <1>1, <1>3, AllRead
<1>5. ReadFields(s, a, fields) = ReadAnything(s, a, fields)
  BY PlainFields
<1> HIDE DEF n
<1>6. CASE ReadAnything(s, a, fields) = Failed(a)
  BY <1>5, <1>6 DEF FieldsHere, n
<1>7. ASSUME NEW v, NEW m, m[0] = a, \A k \in 0..n : m[k] \in 0..Len(s),
             \A k \in 1..n : ReadAny(s, m[k - 1], fields[k]) = Got(v[k], m[k]),
             ReadAnything(s, a, fields) = Got([k \in 1..n |-> v[k]], m[n])
      PROVE  FieldsHere(s, a, fields, n)
  <2>1. \A k \in 1..n : ReadField(s, m[k - 1], fields[k]) = Got(v[k], m[k])
    BY <1>2, <1>7
  <2> QED
    BY <1>5, <1>7, <2>1 DEF FieldsHere
<1>8. FieldsHere(s, a, fields, n)
  BY <1>4, <1>6, <1>7 DEF ReadsHere, n
<1> QED
  BY <1>8 DEF n

-----------------------------------------------------------------------------
(* Handles and runtime references                                          *)

LEMMA HandleNumbers ==
    /\ IdBits \in Nat /\ HandleBits \in Nat /\ HandleBits \in 0..Word /\ 2 * HandleBits \in Nat
    /\ 2^IdBits \in Nat /\ 2^IdBits > 0 /\ 2^HandleBits = 4 * 2^IdBits
    /\ MaxOffset \in Nat /\ MaxOffset > 0
<1>1. IdBits \in Nat /\ IdBits + 1 \in Nat /\ (IdBits + 1) + 1 = HandleBits /\ HandleBits <= Word
  BY FormatsAssumption DEF HandleBits
<1>2. 2^IdBits \in Nat /\ 2^IdBits > 0 /\ 2^(IdBits + 1) = 2 * 2^IdBits
  BY <1>1, PowerDoubles
<1>3. 2^((IdBits + 1) + 1) = 2 * 2^(IdBits + 1)
  BY <1>1, PowerDoubles
<1>4. 2^HandleBits = 4 * 2^IdBits
  BY <1>1, <1>2, <1>3
<1> QED
  BY <1>1, <1>2, <1>4, WordIsNat DEF MaxOffset

LEMMA OnesAreBits ==
    ASSUME NEW n \in Nat
    PROVE  Ones(n) \in Bits /\ Len(Ones(n)) = n /\ \A i \in 1..n : Ones(n)[i] = 1
<1> DEFINE f == [i \in 1..n |-> 1]
<1>1. Ones(n) = f /\ f = [i \in 1..n |-> f[i]] /\ \A i \in 1..n : f[i] = 1
  BY DEF Ones
<1> HIDE DEF f
<1> QED
  BY <1>1, BitsMade

LEMMA ZerosAreBits ==
    ASSUME NEW n \in Nat
    PROVE  Zeros(n) \in Bits /\ Len(Zeros(n)) = n /\ \A i \in 1..n : Zeros(n)[i] = 0
<1> DEFINE f == [i \in 1..n |-> 0]
<1>1. Zeros(n) = f /\ f = [i \in 1..n |-> f[i]] /\ \A i \in 1..n : f[i] = 0
  BY DEF Zeros
<1> HIDE DEF f
<1> QED
  BY <1>1, BitsMade

LEMMA HandleAsNumber ==
    ASSUME NEW h \in Handles
    PROVE  /\ h.class * 2^IdBits + h.id \in 0..(2^HandleBits - 1)
           /\ HandleOf(h.class * 2^IdBits + h.id) = h
<1> DEFINE B == 2^IdBits
           raw == h.class * B + h.id
<1>1. B \in Nat /\ B > 0 /\ 2^HandleBits = 4 * B
  BY HandleNumbers
<1>2. h.class \in 0..3 /\ h.id \in 0..(B - 1) /\ h = [class |-> h.class, id |-> h.id]
  BY DEF Handles
<1>3. \A k \in 0..3 : k * B \in {0, B, 2 * B, 3 * B}
  BY <1>1
<1>4. raw \in 0..(4 * B - 1)
  <2> HIDE DEF B
  <2> QED
    BY <1>1, <1>2, <1>3
<1>5. raw \div B = h.class /\ raw % B = h.id
  <2> HIDE DEF B
  <2> QED
    BY <1>1, <1>2
<1> QED
  BY <1>1, <1>2, <1>4, <1>5 DEF HandleOf, Handle

LEMMA NumberAsHandle ==
    ASSUME NEW raw \in 0..(2^HandleBits - 1)
    PROVE  /\ HandleOf(raw) \in Handles
           /\ HandleOf(raw).class * 2^IdBits + HandleOf(raw).id = raw
<1> DEFINE B == 2^IdBits
<1>1. B \in Nat /\ B > 0 /\ 2^HandleBits = 4 * B
  BY HandleNumbers
<1> HIDE DEF B
<1>2. raw \in Nat /\ raw < 4 * B
  BY <1>1
<1>3. /\ raw \div B \in Nat /\ raw % B \in 0..(B - 1)
      /\ raw = B * (raw \div B) + (raw % B)
  BY <1>1, <1>2, Divided
<1>4. raw \div B \in 0..3
  BY <1>1, <1>2
<1>5. (raw \div B) * B = B * (raw \div B)
  BY <1>1, <1>3
<1>6. HandleOf(raw) = [class |-> raw \div B, id |-> raw % B]
  BY DEF HandleOf, Handle, B
<1>7. HandleOf(raw) \in Handles
  BY <1>3, <1>4, <1>6 DEF Handles, B
<1>8. HandleOf(raw).class = raw \div B /\ HandleOf(raw).id = raw % B
  BY <1>6
<1>9. HandleOf(raw).class * B + HandleOf(raw).id = raw
  BY <1>3, <1>5, <1>8
<1> QED
  BY <1>7, <1>9 DEF B

LEMMA HandleWritten ==
    ASSUME NEW h \in Handles
    PROVE  EncodeHandle(h) \in Bits /\ Len(EncodeHandle(h)) = HandleBits
<1>1. h.class * 2^IdBits + h.id \in Nat
  BY HandleAsNumber
<1> QED
  BY <1>1, HandleNumbers, UintBitsAreBits DEF EncodeHandle

LEMMA HandleReadBack ==
    ASSUME NEW s, NEW c, NEW h \in Handles, CanEncodeHandle(h), Stands(s, c, EncodeHandle(h))
    PROVE  DecodeHandle(s, c) = Got(h, c + HandleBits)
<1> DEFINE raw == h.class * 2^IdBits + h.id
<1>1. raw \in 0..(2^HandleBits - 1) /\ HandleOf(raw) = h
  BY HandleAsNumber
<1>2. Stands(s, c, UintBits(raw, HandleBits))
  BY DEF EncodeHandle
<1> HIDE DEF raw
<1>3. ReadUint(s, c, HandleBits) = Got(raw, c + HandleBits)
  BY <1>1, <1>2, HandleNumbers, UintReadBack
<1>4. GotIf(CanEncodeHandle(HandleOf(raw)), HandleOf(raw), c + HandleBits) = Got(h, c + HandleBits)
  BY <1>1 DEF GotIf
<1> QED
  BY <1>3, <1>4, Results2 DEF DecodeHandle, Then, Kept

LEMMA HandleRead ==
    ASSUME NEW s \in Bits, NEW c \in 0..Len(s)
    PROVE  \/ DecodeHandle(s, c) = Failed(c)
           \/ \E h \in Handles : /\ CanEncodeHandle(h)
                                 /\ Stands(s, c, EncodeHandle(h))
                                 /\ DecodeHandle(s, c) = Got(h, c + HandleBits)
<1> DEFINE x == ReadUint(s, c, HandleBits)
<1>1. \/ x = Failed(c)
      \/ \E raw \in 0..(2^HandleBits - 1) : /\ Stands(s, c, UintBits(raw, HandleBits))
                                            /\ x = Got(raw, c + HandleBits)
  BY HandleNumbers, UintRead
<1>2. DecodeHandle(s, c) =
          Kept(IF x.ok THEN GotIf(CanEncodeHandle(HandleOf(x.value)), HandleOf(x.value), x.at)
               ELSE x, c)
  BY DEF DecodeHandle, Then
<1> HIDE DEF x
<1>3. CASE x = Failed(c)
  BY <1>2, <1>3, Results2 DEF Kept
<1>4. ASSUME NEW raw \in 0..(2^HandleBits - 1), Stands(s, c, UintBits(raw, HandleBits)),
             x = Got(raw, c + HandleBits)
      PROVE  \/ DecodeHandle(s, c) = Failed(c)
             \/ \E h \in Handles : /\ CanEncodeHandle(h)
                                   /\ Stands(s, c, EncodeHandle(h))
                                   /\ DecodeHandle(s, c) = Got(h, c + HandleBits)
  <2> DEFINE h == HandleOf(raw)
  <2>1. h \in Handles /\ h.class * 2^IdBits + h.id = raw
    BY NumberAsHandle
  <2>2. x.ok /\ x.value = raw /\ x.at = c + HandleBits
    BY <1>4, Results2
  <2>3. DecodeHandle(s, c) = Kept(GotIf(CanEncodeHandle(h), h, c + HandleBits), c)
    BY <1>2, <2>2
  <2>4. EncodeHandle(h) = UintBits(raw, HandleBits)
    BY <2>1 DEF EncodeHandle
  <2> HIDE DEF h
  <2>5. CASE CanEncodeHandle(h)
    <3>1. DecodeHandle(s, c) = Got(h, c + HandleBits)
      BY <2>3, <2>5, Results2 DEF GotIf, Kept
    <3> QED
      BY <1>4, <2>1, <2>4, <2>5, <3>1
  <2>6. CASE ~CanEncodeHandle(h)
    BY <2>3, <2>6, Results2 DEF GotIf, Kept
  <2> QED
    BY <2>5, <2>6
<1> QED
  BY <1>1, <1>3, <1>4

LEMMA ReferenceWritten ==
    ASSUME NEW r \in References
    PROVE  EncodeRuntimeReference(r) \in Bits /\ Len(EncodeRuntimeReference(r)) = 2 * HandleBits
<1>1. CASE r = Null
  <2>1. EncodeRuntimeReference(r) = Ones(2 * HandleBits)
    BY <1>1 DEF EncodeRuntimeReference, Null
  <2> QED
    BY <2>1, HandleNumbers, OnesAreBits
<1>2. CASE r \in [null : {FALSE}, handle : Handles, offset : 0..MaxOffset]
  <2>1. ~r.null /\ r.handle \in Handles /\ r.offset \in Nat
    <3>1. ~r.null /\ r.handle \in Handles /\ r.offset \in 0..MaxOffset
      BY <1>2
    <3> QED
      BY <3>1, HandleNumbers
  <2>2. EncodeRuntimeReference(r) = EncodeHandle(r.handle) \o UintBits(r.offset, HandleBits)
    BY <2>1 DEF EncodeRuntimeReference
  <2>3. EncodeHandle(r.handle) \in Bits /\ Len(EncodeHandle(r.handle)) = HandleBits
    BY <2>1, HandleWritten
  <2>4. UintBits(r.offset, HandleBits) \in Bits /\ Len(UintBits(r.offset, HandleBits)) = HandleBits
    BY <2>1, HandleNumbers, UintBitsAreBits
  <2>5. /\ EncodeRuntimeReference(r) \in Bits
        /\ Len(EncodeRuntimeReference(r)) = HandleBits + HandleBits
    <3> DEFINE h == EncodeHandle(r.handle)
               o == UintBits(r.offset, HandleBits)
    <3>1. /\ EncodeRuntimeReference(r) = h \o o
          /\ h \in Bits /\ o \in Bits /\ Len(h) = HandleBits /\ Len(o) = HandleBits
      BY <2>2, <2>3, <2>4
    <3> HIDE DEF h, o
    <3>2. h \o o \in Bits /\ Len(h \o o) = Len(h) + Len(o)
      BY <3>1, Joined
    <3> QED
      BY <3>1, <3>2
  <2>6. HandleBits + HandleBits = 2 * HandleBits
    BY HandleNumbers
  <2> QED
    BY <2>5, <2>6
<1> QED
  BY <1>1, <1>2 DEF References

LEMMA ReferenceReadBack ==
    ASSUME NEW s, NEW c, NEW r \in References, CanEncodeRuntimeReference(r),
           Stands(s, c, EncodeRuntimeReference(r))
    PROVE  DecodeRuntimeReference(s, c) = Got(r, c + 2 * HandleBits)
<1> DEFINE e == EncodeRuntimeReference(r)
           end == c + 2 * HandleBits
<1>1. e \in Bits /\ Len(e) = 2 * HandleBits
  BY ReferenceWritten
<1>2. ReadBits(s, c, 2 * HandleBits) = Got(e, end)
  <2> HIDE DEF e
  <2>1. ReadBits(s, c, Len(e)) = Got(e, c + Len(e))
    BY BitsReadBack DEF e
  <2> QED
    BY <1>1, <2>1
<1>3. CASE r = Null
  <2>1. e = Ones(2 * HandleBits)
    BY <1>3 DEF EncodeRuntimeReference, Null
  <2> HIDE DEF e
  <2> QED
    BY <1>2, <1>3, <2>1 DEF DecodeRuntimeReference
<1>4. CASE r \in [null : {FALSE}, handle : Handles, offset : 0..MaxOffset]
  <2>1. /\ ~r.null /\ r.handle \in Handles /\ r.offset \in 0..MaxOffset
        /\ r = At(r.handle, r.offset)
    BY <1>4 DEF At
  <2>2. CanEncodeHandle(r.handle) /\ e # Ones(2 * HandleBits)
    BY <2>1 DEF CanEncodeRuntimeReference
  <2>3. e = EncodeHandle(r.handle) \o UintBits(r.offset, HandleBits)
    BY <2>1 DEF EncodeRuntimeReference
  <2>4. EncodeHandle(r.handle) \in Bits /\ Len(EncodeHandle(r.handle)) = HandleBits
    BY <2>1, HandleWritten
  <2>5. UintBits(r.offset, HandleBits) \in Bits
    BY <2>1, HandleNumbers, UintBitsAreBits
  <2>6. /\ Stands(s, c, EncodeHandle(r.handle))
        /\ Stands(s, c + HandleBits, UintBits(r.offset, HandleBits))
    BY <2>3, <2>4, <2>5, StandsParts
  <2>7. DecodeHandle(s, c) = Got(r.handle, c + HandleBits)
    BY <2>1, <2>2, <2>6, HandleReadBack
  <2>8. r.offset \in 0..(2^HandleBits - 1)
    BY <2>1 DEF MaxOffset
  <2>9. ReadUint(s, c + HandleBits, HandleBits) = Got(r.offset, (c + HandleBits) + HandleBits)
    BY <2>6, <2>8, HandleNumbers, UintReadBack
  <2>10. (c + HandleBits) + HandleBits = end
    BY HandleNumbers DEF Stands
  <2>11. Got(e, end) # Got(Ones(2 * HandleBits), end)
    <3> HIDE DEF e, end
    <3> QED
      BY <2>2, Results2
  <2> HIDE DEF e, end
  <2>12. DecodeRuntimeReference(s, c) =
            Then(DecodeHandle(s, c), c, LAMBDA handle, from :
                Then(ReadUint(s, from, HandleBits), from,
                     LAMBDA n, to : Got(At(handle, n), to)))
    BY <1>2, <2>11 DEF DecodeRuntimeReference, end
  <2>13. DecodeRuntimeReference(s, c) = Got(At(r.handle, r.offset), end)
    BY <2>7, <2>9, <2>10, <2>12, Results2 DEF Then, Kept
  <2> QED
    BY <2>1, <2>13 DEF end
<1> QED
  BY <1>3, <1>4 DEF References

LEMMA ReferenceRead ==
    ASSUME NEW s \in Bits, NEW c \in 0..Len(s)
    PROVE  \/ DecodeRuntimeReference(s, c) = Failed(c)
           \/ \E r \in References : /\ CanEncodeRuntimeReference(r)
                                    /\ Stands(s, c, EncodeRuntimeReference(r))
                                    /\ DecodeRuntimeReference(s, c) = Got(r, c + 2 * HandleBits)
<1> DEFINE ones == Ones(2 * HandleBits)
           end == c + 2 * HandleBits
           x == DecodeHandle(s, c)
           Goal == \/ DecodeRuntimeReference(s, c) = Failed(c)
                   \/ \E r \in References : /\ CanEncodeRuntimeReference(r)
                                            /\ Stands(s, c, EncodeRuntimeReference(r))
                                            /\ DecodeRuntimeReference(s, c) = Got(r, end)
<1>1. CASE ReadBits(s, c, 2 * HandleBits) = Got(ones, end)
  <2>1. DecodeRuntimeReference(s, c) = Got(Null, end)
    BY <1>1 DEF DecodeRuntimeReference
  <2>2. EncodeRuntimeReference(Null) = ones /\ CanEncodeRuntimeReference(Null)
    BY DEF EncodeRuntimeReference, CanEncodeRuntimeReference, Null
  <2>3. ReadBits(s, c, 2 * HandleBits) # Failed(c)
    BY <1>1, Results2
  <2>4. \/ ReadBits(s, c, 2 * HandleBits) = Failed(c)
        \/ \E e \in Bits : /\ Len(e) = 2 * HandleBits /\ Stands(s, c, e)
                           /\ ReadBits(s, c, 2 * HandleBits) = Got(e, end)
    BY HandleNumbers, BitsRead
  <2>5. PICK e \in Bits : Stands(s, c, e) /\ ReadBits(s, c, 2 * HandleBits) = Got(e, end)
    BY <2>3, <2>4
  <2> HIDE DEF ones, end
  <2>6. e = ones
    BY <1>1, <2>5, Results2
  <2>7. Null \in References
    BY DEF References
  <2>8. Stands(s, c, EncodeRuntimeReference(Null))
    BY <2>2, <2>5, <2>6
  <2> QED
    BY <2>1, <2>2, <2>7, <2>8 DEF end
<1>2. CASE ReadBits(s, c, 2 * HandleBits) # Got(ones, end)
  <2>1. DecodeRuntimeReference(s, c) =
            Then(x, c, LAMBDA handle, from :
                Then(ReadUint(s, from, HandleBits), from,
                     LAMBDA n, to : Got(At(handle, n), to)))
    BY <1>2 DEF DecodeRuntimeReference
  <2>2. \/ x = Failed(c)
        \/ \E h \in Handles : /\ CanEncodeHandle(h)
                              /\ Stands(s, c, EncodeHandle(h))
                              /\ x = Got(h, c + HandleBits)
    BY HandleRead
  <2> HIDE DEF x
  <2>3. ASSUME x = Failed(c)
        PROVE  Goal
    BY <2>1, <2>3, Results2 DEF Then, Kept
  <2>4. ASSUME NEW h \in Handles, CanEncodeHandle(h), Stands(s, c, EncodeHandle(h)),
               x = Got(h, c + HandleBits)
        PROVE  Goal
    <3> DEFINE d == c + HandleBits
               y == ReadUint(s, d, HandleBits)
    <3>1. EncodeHandle(h) \in Bits /\ Len(EncodeHandle(h)) = HandleBits
      BY HandleWritten
    <3>2. d \in 0..Len(s) /\ d + HandleBits = end
      BY <2>4, <3>1, HandleNumbers, StandsIn
    <3>3. \/ y = Failed(d)
          \/ \E n \in 0..(2^HandleBits - 1) : /\ Stands(s, d, UintBits(n, HandleBits))
                                              /\ y = Got(n, end)
      <4> HIDE DEF d
      <4> QED
        BY <3>2, HandleNumbers, UintRead
    <3>4. DecodeRuntimeReference(s, c) =
              Kept(Kept(IF y.ok THEN Got(At(h, y.value), y.at) ELSE y, d), c)
      BY <2>1, <2>4, Results2 DEF Then, Kept
    <3> HIDE DEF y
    <3>5. ASSUME y = Failed(d)
          PROVE  Goal
      BY <3>4, <3>5, Results2 DEF Kept
    <3>6. ASSUME NEW n \in 0..(2^HandleBits - 1), Stands(s, d, UintBits(n, HandleBits)),
                 y = Got(n, end)
          PROVE  Goal
      <4> DEFINE r == At(h, n)
      <4>1. r = [null |-> FALSE, handle |-> h, offset |-> n] /\ n \in 0..MaxOffset
        BY DEF At, MaxOffset
      <4>2. r \in References /\ ~r.null /\ r.handle = h /\ r.offset = n
        BY <4>1 DEF References
      <4>3. DecodeRuntimeReference(s, c) = Got(r, end)
        BY <3>4, <3>6, Results2 DEF Kept
      <4> HIDE DEF r
      <4>4. EncodeRuntimeReference(r) = EncodeHandle(h) \o UintBits(n, HandleBits)
        BY <4>2 DEF EncodeRuntimeReference
      <4>5. UintBits(n, HandleBits) \in Bits
        BY <3>6 DEF Stands
      <4>6. Stands(s, c, EncodeRuntimeReference(r))
        BY <2>4, <3>1, <3>6, <4>4, <4>5, StandsParts
      <4>7. ReadBits(s, c, 2 * HandleBits) = Got(EncodeRuntimeReference(r), end)
        <5>1. Len(EncodeRuntimeReference(r)) = 2 * HandleBits
          BY <4>2, ReferenceWritten
        <5>2. ReadBits(s, c, Len(EncodeRuntimeReference(r)))
                = Got(EncodeRuntimeReference(r), c + Len(EncodeRuntimeReference(r)))
          BY <4>6, BitsReadBack
        <5> QED
          BY <5>1, <5>2
      <4>8. CanEncodeRuntimeReference(r)
        BY <1>2, <2>4, <4>2, <4>7 DEF CanEncodeRuntimeReference
      <4> QED
        BY <4>2, <4>3, <4>6, <4>8
    <3> HIDE DEF Goal
    <3> QED
      BY <3>3, <3>5, <3>6
  <2>5. Goal
    <3> HIDE DEF Goal
    <3> QED
      BY <2>2, <2>3, <2>4
  <2> QED
    BY <2>5
<1> QED
  BY <1>1, <1>2

(* A reference is all ones when its handle is the last one and its offset  *)
(* the last number; no node stands there.                                  *)
LEMMA LastNumber ==
    ASSUME NEW w \in Nat
    PROVE  UintOf(Ones(w)) = 2^w - 1
<1> DEFINE h == [i \in 0..w |-> 2^i - 1]
<1>1. Len(Ones(w)) = w /\ \A i \in 1..w : Ones(w)[i] = 1
  BY OnesAreBits
<1>2. h[0] = 0 /\ h[w] = 2^w - 1
  BY PowerOfZero
<1>3. ASSUME NEW i \in 1..w
      PROVE  h[i] = 2 * h[i - 1] + Ones(w)[i]
  <2>1. i - 1 \in Nat /\ (i - 1) + 1 = i /\ i - 1 \in 0..w /\ i \in 0..w
    OBVIOUS
  <2>2. 2^(i - 1) \in Nat /\ 2^i = 2 * 2^(i - 1)
    BY <2>1, PowerDoubles
  <2>3. h[i] = 2^i - 1 /\ h[i - 1] = 2^(i - 1) - 1
    BY <2>1
  <2> HIDE DEF h
  <2> QED
    BY <1>1, <2>2, <2>3
<1> HIDE DEF h
<1>4. Len(Ones(w)) \in Nat /\ \A i \in 1..Len(Ones(w)) : h[i] = 2 * h[i - 1] + Ones(w)[i]
  BY <1>1, <1>3
<1>5. UintOf(Ones(w)) = h[Len(Ones(w))]
  BY <1>2, <1>4, UintUnique
<1> QED
  BY <1>1, <1>2, <1>5

LEMMA NotAllOnes ==
    ASSUME NEW r \in References, ~r.null, r.offset # MaxOffset
    PROVE  EncodeRuntimeReference(r) # Ones(2 * HandleBits)
<1> SUFFICES ASSUME EncodeRuntimeReference(r) = Ones(2 * HandleBits)
             PROVE  FALSE
  OBVIOUS
<1> DEFINE o == UintBits(r.offset, HandleBits)
<1>1. r.handle \in Handles /\ r.offset \in 0..MaxOffset
  <2>1. Null.null
    BY DEF Null
  <2>2. r \in [null : {FALSE}, handle : Handles, offset : 0..MaxOffset]
    BY <2>1 DEF References
  <2> QED
    BY <2>2
<1>2. r.offset \in Nat /\ r.offset \in 0..(2^HandleBits - 1)
  BY <1>1, HandleNumbers DEF MaxOffset
<1>3. o \in Bits /\ Len(o) = HandleBits
  BY <1>2, HandleNumbers, UintBitsAreBits
<1>4. EncodeHandle(r.handle) \in Bits /\ Len(EncodeHandle(r.handle)) = HandleBits
  BY <1>1, HandleWritten
<1>5. UintOf(o) = r.offset
  BY <1>2, HandleNumbers, UintOfBits
<1>6. Ones(2 * HandleBits) = EncodeHandle(r.handle) \o o
  BY DEF EncodeRuntimeReference
<1> HIDE DEF o
<1>7. \A i \in 1..HandleBits : o[i] = Ones(2 * HandleBits)[HandleBits + i]
  BY <1>3, <1>4, <1>6, Joined
<1>8. \A i \in 1..HandleBits : HandleBits + i \in 1..(2 * HandleBits)
  BY HandleNumbers
<1>9. \A i \in 1..HandleBits : o[i] = 1
  BY <1>7, <1>8, HandleNumbers, OnesAreBits
<1>10. o = Ones(HandleBits)
  <2>1. o = [i \in 1..HandleBits |-> o[i]]
    BY <1>3, BitsParts
  <2> QED
    BY <1>9, <2>1 DEF Ones
<1>11. UintOf(o) = MaxOffset
  BY <1>10, HandleNumbers, LastNumber DEF MaxOffset
<1> QED
  BY <1>5, <1>11

-----------------------------------------------------------------------------
(* Activation records                                                      *)

(* What read_bits, read_uint, decode_handle and the others are to a field. *)
LEMMA FieldReads ==
    ASSUME NEW s, NEW c, NEW w
    PROVE  /\ ReadField(s, c, BitsField(w)) = ReadBits(s, c, w)
           /\ ReadField(s, c, UintField(w)) = ReadUint(s, c, w)
<1>1. /\ BitsField(w).type = "bits" /\ BitsField(w).width = w
      /\ UintField(w).type = "uint" /\ UintField(w).width = w
  BY DEF BitsField, UintField
<1>2. ReadField(s, c, BitsField(w)) = ReadBits(s, c, w)
  BY <1>1 DEF ReadField
<1>3. ReadField(s, c, UintField(w)) = ReadUint(s, c, w)
  BY <1>1 DEF ReadField
<1> QED
  BY <1>2, <1>3

LEMMA NamedFieldReads ==
    ASSUME NEW s, NEW c
    PROVE  /\ ReadField(s, c, SizeField) = DecodeSize(s, c)
           /\ ReadField(s, c, NameField) = DecodeBitString(s, c)
           /\ ReadField(s, c, HandleField) = DecodeHandle(s, c)
           /\ ReadField(s, c, ReferenceField) = DecodeRuntimeReference(s, c)
<1>1. /\ SizeField.type = "size" /\ NameField.type = "bit_string"
      /\ HandleField.type = "handle" /\ ReferenceField.type = "reference"
  BY DEF SizeField, NameField, HandleField, ReferenceField
<1>2. ReadField(s, c, SizeField) = DecodeSize(s, c)
  BY <1>1 DEF ReadField
<1>3. ReadField(s, c, NameField) = DecodeBitString(s, c)
  BY <1>1 DEF ReadField
<1>4. ReadField(s, c, HandleField) = DecodeHandle(s, c)
  BY <1>1 DEF ReadField
<1>5. ReadField(s, c, ReferenceField) = DecodeRuntimeReference(s, c)
  BY <1>1 DEF ReadField
<1> QED
  BY <1>2, <1>3, <1>4, <1>5

(* The number that a prefix keeps in its last word.                        *)
PrefixWord(p) == IF p.kind = 3 THEN (IF p.condition THEN 1 ELSE 0) ELSE p.depth

LEMMA PowerGrows ==
    ASSUME NEW m \in Nat, NEW n \in Nat, m <= n
    PROVE  2^m \in Nat /\ 2^n \in Nat /\ 2^m <= 2^n
<1> DEFINE S == {k \in Nat : 2^m <= 2^(m + k)}
<1>1. 0 \in S
  BY PowerDoubles
<1>2. ASSUME NEW k \in Nat, k \in S
      PROVE  k + 1 \in S
  <2>1. m + k \in Nat /\ (m + k) + 1 = m + (k + 1)
    OBVIOUS
  <2>2. 2^(m + k) \in Nat /\ 2^((m + k) + 1) = 2 * 2^(m + k) /\ 2^m \in Nat
    BY <2>1, PowerDoubles
  <2>3. 2^m <= 2^(m + k)
    BY <1>2
  <2>4. 2^m <= 2^(m + (k + 1))
    BY <2>1, <2>2, <2>3
  <2> QED
    BY <2>4
<1>3. \A k \in Nat : k \in S
  <2> HIDE DEF S
  <2> QED
    BY <1>1, <1>2, Induction
<1>4. n - m \in Nat /\ m + (n - m) = n
  OBVIOUS
<1>5. 2^m <= 2^n
  BY <1>3, <1>4
<1> QED
  BY <1>5, PowerDoubles

LEMMA SmallPowers ==
    /\ 2^1 = 2 /\ 2^2 = 4
    /\ \A n \in Nat : n >= 1 => 2^n >= 2
    /\ \A n \in Nat : n >= 2 => 2^n >= 4
<1>1. 2^(0 + 1) = 2 * 2^0 /\ 2^(1 + 1) = 2 * 2^1
  BY PowerDoubles
<1>2. 2^1 = 2 /\ 2^2 = 4
  BY <1>1, PowerOfZero
<1> QED
  BY <1>2, PowerGrows

LEMMA PrefixAsWord ==
    ASSUME NEW p \in RecordPrefixes, CanEncodePrefix(p)
    PROVE  /\ p.kind \in 0..(2^KindBits - 1)
           /\ PrefixWord(p) \in 0..(2^HandleBits - 1)
           /\ PrefixOK(p.kind, 0, PrefixWord(p))
           /\ DecodedPrefix(p.kind, PrefixWord(p)) = p
<1>1. /\ p = [kind |-> p.kind, depth |-> p.depth, condition |-> p.condition]
      /\ p.kind \in 0..3 /\ p.depth \in 0..MaxOffset /\ p.condition \in BOOLEAN
  BY DEF RecordPrefixes
<1>2. KindBits \in Nat /\ KindBits >= 2 /\ 2^KindBits >= 4 /\ 2^KindBits \in Nat
  BY FormatsAssumption, WordIsNat, SmallPowers, PowerDoubles
<1>3. p.kind \in 0..(2^KindBits - 1)
  BY <1>1, <1>2
<1>4. 0..(2^HandleBits - 1) = 0..MaxOffset /\ 0 \in 0..MaxOffset /\ 1 \in 0..MaxOffset
  BY HandleNumbers DEF MaxOffset
<1>5. PrefixWord(p) \in 0..MaxOffset
  BY <1>1, <1>4 DEF PrefixWord
<1>6. PrefixOK(p.kind, 0, PrefixWord(p))
  BY <1>1 DEF PrefixOK, PrefixWord, CanEncodePrefix
<1>7. CASE p.kind = 3
  <2>1. p.depth = 0
    BY <1>7 DEF CanEncodePrefix
  <2>2. (PrefixWord(p) = 1) = p.condition
    BY <1>1, <1>7 DEF PrefixWord
  <2>3. DecodedPrefix(p.kind, PrefixWord(p)) = Prefix(3, 0, p.condition)
    BY <1>7, <2>2 DEF DecodedPrefix
  <2> QED
    BY <1>1, <1>3, <1>4, <1>5, <1>6, <1>7, <2>1, <2>3 DEF Prefix
<1>8. CASE p.kind # 3
  <2>1. p.condition = FALSE
    BY <1>1, <1>8 DEF CanEncodePrefix
  <2>2. DecodedPrefix(p.kind, PrefixWord(p)) = Prefix(p.kind, p.depth, FALSE)
    BY <1>8 DEF DecodedPrefix, PrefixWord
  <2>3. DecodedPrefix(p.kind, PrefixWord(p)) = p
    BY <1>1, <2>1, <2>2 DEF Prefix
  <2> QED
    BY <1>3, <1>4, <1>5, <1>6, <2>3
<1> QED
  BY <1>7, <1>8

(* And back: every kind and word that a decoder lets pass is a prefix.     *)
LEMMA WordAsPrefix ==
    ASSUME NEW kind \in Nat, NEW high, NEW low \in 0..(2^HandleBits - 1), PrefixOK(kind, high, low)
    PROVE  /\ DecodedPrefix(kind, low) \in RecordPrefixes
           /\ CanEncodePrefix(DecodedPrefix(kind, low))
           /\ DecodedPrefix(kind, low).kind = kind
           /\ PrefixWord(DecodedPrefix(kind, low)) = low
           /\ high = 0
<1>1. kind \in 0..3 /\ high = 0 /\ (kind = 0 => low = 0) /\ (kind = 3 => low <= 1)
  BY DEF PrefixOK
<1>2. low \in 0..MaxOffset /\ 0 \in 0..MaxOffset
  BY HandleNumbers DEF MaxOffset
<1>3. CASE kind = 3
  <2>1. DecodedPrefix(kind, low) = [kind |-> 3, depth |-> 0, condition |-> low = 1]
    BY <1>3 DEF DecodedPrefix, Prefix
  <2>2. low = 0 \/ low = 1
    BY <1>1, <1>2, <1>3
  <2> DEFINE p == DecodedPrefix(kind, low)
  <2>3. p.kind = 3 /\ p.depth = 0 /\ p.condition = (low = 1) /\ p \in RecordPrefixes
    BY <1>2, <2>1 DEF RecordPrefixes
  <2> HIDE DEF p
  <2>4. CanEncodePrefix(p)
    BY <2>3 DEF CanEncodePrefix
  <2>5. CASE low = 0
    <3>1. (low = 1) = FALSE
      BY <2>5
    <3>2. p.condition = FALSE
      BY <2>3, <3>1, Zenon
    <3> QED
      BY <1>1, <1>3, <2>3, <2>4, <2>5, <3>2 DEF PrefixWord, p
  <2>6. CASE low = 1
    <3>1. (low = 1) = TRUE
      BY <2>6
    <3>2. p.condition = TRUE
      BY <2>3, <3>1, Zenon
    <3> QED
      BY <1>1, <1>3, <2>3, <2>4, <2>6, <3>2 DEF PrefixWord, p
  <2> QED
    BY <2>2, <2>5, <2>6
<1>4. CASE kind # 3
  <2>1. DecodedPrefix(kind, low) = [kind |-> kind, depth |-> low, condition |-> FALSE]
    BY <1>4 DEF DecodedPrefix, Prefix
  <2> DEFINE p == DecodedPrefix(kind, low)
  <2>2. p.kind = kind /\ p.depth = low /\ p.condition = FALSE /\ p \in RecordPrefixes
    BY <1>1, <1>2, <2>1 DEF RecordPrefixes
  <2> HIDE DEF p
  <2>3. CanEncodePrefix(p) /\ PrefixWord(p) = low
    BY <1>1, <1>4, <2>2 DEF CanEncodePrefix, PrefixWord
  <2> QED
    BY <1>1, <2>2, <2>3 DEF p
<1> QED
  BY <1>3, <1>4

(* The bits e stand in the stream s between two cursors.  Items of a       *)
(* record follow each other, each from where the one before it ended.      *)
Between(s, c, d, e) == Stands(s, c, e) /\ d = c + Len(e)

LEMMA BetweenIn ==
    ASSUME NEW s, NEW c, NEW d, NEW e, Between(s, c, d, e)
    PROVE  /\ s \in Bits /\ e \in Bits /\ c \in 0..Len(s) /\ d \in 0..Len(s)
           /\ Len(s) \in Nat /\ Len(e) \in Nat /\ d = c + Len(e)
           /\ Stands(s, c, e) /\ e = SubSeq(s, c + 1, d)
BY StandsIn, SliceIs DEF Between

LEMMA BetweenJoined ==
    ASSUME NEW s, NEW c, NEW m, NEW d, NEW e, NEW f, Between(s, c, m, e), Between(s, m, d, f)
    PROVE  Between(s, c, d, e \o f)
<1>1. e \in Bits /\ f \in Bits /\ Len(e) \in Nat /\ Len(f) \in Nat /\ c \in Nat
  BY BetweenIn
<1>2. Stands(s, c, e) /\ Stands(s, c + Len(e), f) /\ d = (c + Len(e)) + Len(f)
  BY DEF Between
<1>3. Stands(s, c, e \o f) /\ Len(e \o f) = Len(e) + Len(f)
  BY <1>1, <1>2, StandsParts, Joined
<1> QED
  BY <1>1, <1>2, <1>3 DEF Between

LEMMA BetweenSplit ==
    ASSUME NEW s, NEW c, NEW d, NEW e \in Bits, NEW f \in Bits, Between(s, c, d, e \o f)
    PROVE  \E m : Between(s, c, m, e) /\ Between(s, m, d, f)
<1>1. Len(e) \in Nat /\ Len(f) \in Nat
  BY BitsParts
<1>2. c \in Nat /\ Stands(s, c, e \o f) /\ d = c + Len(e \o f)
  BY DEF Between, Stands
<1>3. Stands(s, c, e) /\ Stands(s, c + Len(e), f) /\ Len(e \o f) = Len(e) + Len(f)
  BY <1>2, StandsParts, Joined
<1>4. d = (c + Len(e)) + Len(f)
  BY <1>1, <1>2, <1>3
<1>5. Between(s, c, c + Len(e), e) /\ Between(s, c + Len(e), d, f)
  BY <1>3, <1>4 DEF Between
<1> QED
  BY <1>5

(* The readers of the cursor, of handles and of references, in these terms. *)
LEMMA BitsBack ==
    ASSUME NEW s, NEW c, NEW d, NEW e, Between(s, c, d, e)
    PROVE  ReadBits(s, c, Len(e)) = Got(e, d)
BY BitsReadBack DEF Between

LEMMA BitsMet ==
    ASSUME NEW s \in Bits, NEW c \in 0..Len(s), NEW n \in Nat
    PROVE  \/ ReadBits(s, c, n) = Failed(c)
           \/ \E d : \E e \in Bits : /\ Len(e) = n /\ Between(s, c, d, e)
                                 /\ ReadBits(s, c, n) = Got(e, d)
<1>1. CASE ReadBits(s, c, n) = Failed(c)
  BY <1>1
<1>2. ASSUME NEW e \in Bits, Len(e) = n, Stands(s, c, e), ReadBits(s, c, n) = Got(e, c + n)
      PROVE  Between(s, c, c + n, e)
  BY <1>2 DEF Between
<1> QED
  BY <1>1, <1>2, BitsRead

LEMMA BitBack ==
    ASSUME NEW s, NEW c, NEW d, NEW x \in {0, 1}, Between(s, c, d, <<x>>)
    PROVE  ReadBit(s, c) = Got(x, d)
<1>1. d = c + 1 /\ Stands(s, c, <<x>>)
  BY OneBit DEF Between
<1> QED
  BY <1>1, BitReadBack

LEMMA BitMet ==
    ASSUME NEW s \in Bits, NEW c \in 0..Len(s)
    PROVE  \/ ReadBit(s, c) = Failed(c)
           \/ \E d : \E x \in {0, 1} : Between(s, c, d, <<x>>) /\ ReadBit(s, c) = Got(x, d)
<1>1. \A x \in {0, 1} : Len(<<x>>) = 1
  BY OneBit
<1> QED
  BY <1>1, BitRead DEF Between

LEMMA UintBack ==
    ASSUME NEW s, NEW c, NEW d, NEW w \in 0..Word, NEW x \in 0..(2^w - 1),
           Between(s, c, d, UintBits(x, w))
    PROVE  ReadUint(s, c, w) = Got(x, d)
<1>1. w \in Nat /\ 2^w \in Nat
  BY WordIsNat, PowerDoubles
<1>2. Len(UintBits(x, w)) = w
  BY <1>1, UintBitsAreBits
<1>3. d = c + w /\ Stands(s, c, UintBits(x, w))
  BY <1>2 DEF Between
<1> QED
  BY <1>3, UintReadBack

LEMMA UintMet ==
    ASSUME NEW s \in Bits, NEW c \in 0..Len(s), NEW w \in Nat
    PROVE  \/ ReadUint(s, c, w) = Failed(c)
           \/ \E d : \E x \in 0..(2^w - 1) : /\ w <= Word
                                         /\ Between(s, c, d, UintBits(x, w))
                                         /\ ReadUint(s, c, w) = Got(x, d)
<1>1. \A x \in 0..(2^w - 1) : Len(UintBits(x, w)) = w
  BY PowerDoubles, UintBitsAreBits
<1> QED
  BY <1>1, UintRead DEF Between

LEMMA HandleBack ==
    ASSUME NEW s, NEW c, NEW d, NEW h \in Handles, CanEncodeHandle(h),
           Between(s, c, d, EncodeHandle(h))
    PROVE  DecodeHandle(s, c) = Got(h, d)
<1>1. d = c + HandleBits /\ Stands(s, c, EncodeHandle(h))
  BY HandleWritten DEF Between
<1> QED
  BY <1>1, HandleReadBack

LEMMA HandleMet ==
    ASSUME NEW s \in Bits, NEW c \in 0..Len(s)
    PROVE  \/ DecodeHandle(s, c) = Failed(c)
           \/ \E d : \E h \in Handles : /\ CanEncodeHandle(h)
                                    /\ Between(s, c, d, EncodeHandle(h))
                                    /\ DecodeHandle(s, c) = Got(h, d)
BY HandleRead, HandleWritten DEF Between

LEMMA ReferenceBack ==
    ASSUME NEW s, NEW c, NEW d, NEW r \in References, CanEncodeRuntimeReference(r),
           Between(s, c, d, EncodeRuntimeReference(r))
    PROVE  DecodeRuntimeReference(s, c) = Got(r, d)
<1>1. d = c + 2 * HandleBits /\ Stands(s, c, EncodeRuntimeReference(r))
  BY ReferenceWritten DEF Between
<1> QED
  BY <1>1, ReferenceReadBack

LEMMA ReferenceMet ==
    ASSUME NEW s \in Bits, NEW c \in 0..Len(s)
    PROVE  \/ DecodeRuntimeReference(s, c) = Failed(c)
           \/ \E d : \E r \in References : /\ CanEncodeRuntimeReference(r)
                                       /\ Between(s, c, d, EncodeRuntimeReference(r))
                                       /\ DecodeRuntimeReference(s, c) = Got(r, d)
BY ReferenceRead, ReferenceWritten DEF Between

-----------------------------------------------------------------------------
(* Sizes                                                                   *)

LEMMA KeptResults ==
    ASSUME NEW v, NEW m, NEW c
    PROVE  /\ Kept(Got(v, m), c) = Got(v, m) /\ Kept(Failed(m), c) = Failed(c)
           /\ GotIf(TRUE, v, m) = Got(v, m) /\ GotIf(FALSE, v, m) = Failed(m)
           /\ Got(v, m) # Failed(c)
BY DEF Kept, Got, Failed, GotIf

LEMMA KeptGot ==
    ASSUME NEW v, NEW m, NEW c
    PROVE  Kept(Got(v, m), c) = Got(v, m)
BY DEF Kept, Got

LEMMA GotParts ==
    ASSUME NEW v, NEW m, NEW w, NEW d, Got(v, m) = Got(w, d)
    PROVE  v = w /\ m = d
<1>1. Got(v, m).value = v /\ Got(v, m).at = m /\ Got(w, d).value = w /\ Got(w, d).at = d
  BY Results2
<1> QED
  BY <1>1

(* The least number of a set, which the code finds by counting up.         *)
LEMMA MinOfNumbers ==
    ASSUME NEW S \in SUBSET Nat, S # {}
    PROVE  Min(S) \in S /\ \A j \in S : Min(S) <= j
<1>1. PICK k \in S : \A j \in S : ~(j < k)
  BY LeastNumber
<1>2. \A j \in S : k <= j
  BY <1>1
<1> QED
  BY <1>2 DEF Min

LEMMA BytesInBits ==
    /\ HeaderBits \in Nat /\ HeaderBits \in 0..Word /\ ByteBits \in Nat /\ ByteBits > 0
    /\ 2^HeaderBits \in Nat /\ 2^HeaderBits >= 2
    /\ \A k \in Nat : k * ByteBits \in Nat
    /\ \A k \in Nat : (k + 1) * ByteBits = k * ByteBits + ByteBits
    /\ \A j, k \in Nat : j <= k => j * ByteBits <= k * ByteBits
    /\ 2^HeaderBits * ByteBits = Word
<1>1. HeaderBits \in Nat /\ HeaderBits >= 1 /\ ByteBits \in Nat /\ ByteBits > 0
  BY CodecAssumption
<1>2. 2^HeaderBits \in Nat /\ 2^HeaderBits >= 2
  BY <1>1, SmallPowers, PowerDoubles
<1>3. \A k \in Nat : k * ByteBits \in Nat
  BY <1>1
<1>4. \A k \in Nat : (k + 1) * ByteBits = k * ByteBits + ByteBits
  BY <1>1
<1>5. \A j, k \in Nat : j <= k => j * ByteBits <= k * ByteBits
  BY <1>1
<1>6. HeaderBits <= 2^HeaderBits
  <2> DEFINE S == {k \in Nat : k <= 2^k}
  <2>1. 0 \in S
    BY PowerOfZero
  <2>2. \A k \in Nat : k \in S => k + 1 \in S
    BY PowerDoubles
  <2>3. \A k \in Nat : k \in S
    <3> HIDE DEF S
    <3> QED
      BY <2>1, <2>2, Induction
  <2> QED
    BY <1>1, <2>3
<1>7. \A k \in Nat : k <= k * ByteBits
  BY <1>1
<1>8. 2^HeaderBits * ByteBits = Word
  BY DEF Word
<1>9. HeaderBits \in 0..Word
  BY <1>1, <1>2, <1>6, <1>7, <1>8, WordIsNat
<1> QED
  BY <1>1, <1>2, <1>3, <1>4, <1>5, <1>8, <1>9

SizeBytes(n) == Min({k \in 1..2^HeaderBits : n < 2^(k * ByteBits)})

LEMMA SizeBytesLeast ==
    ASSUME NEW n \in Words
    PROVE  /\ SizeBytes(n) \in 1..2^HeaderBits
           /\ n < 2^(SizeBytes(n) * ByteBits)
           /\ \A k \in 1..2^HeaderBits : n < 2^(k * ByteBits) => SizeBytes(n) <= k
<1> DEFINE S == {k \in 1..2^HeaderBits : n < 2^(k * ByteBits)}
<1>1. 2^HeaderBits \in Nat /\ 2^HeaderBits >= 2 /\ 2^HeaderBits * ByteBits = Word
  BY BytesInBits
<1>2. n < 2^Word
  BY WordIsNat, PowerDoubles DEF Words
<1>3. 2^HeaderBits \in S /\ S \in SUBSET Nat
  BY <1>1, <1>2
<1>4. Min(S) \in S /\ \A j \in S : Min(S) <= j
  <2> HIDE DEF S
  <2> QED
    BY <1>3, MinOfNumbers
<1> QED
  BY <1>4 DEF SizeBytes

LEMMA SizeWritten ==
    ASSUME NEW n \in Words
    PROVE  /\ EncodeSize(n) \in Bits
           /\ UintBits(SizeBytes(n) - 1, HeaderBits) \in Bits
           /\ UintBits(n, SizeBytes(n) * ByteBits) \in Bits
           /\ EncodeSize(n) =
                  UintBits(SizeBytes(n) - 1, HeaderBits) \o UintBits(n, SizeBytes(n) * ByteBits)
           /\ Len(EncodeSize(n)) = HeaderBits + SizeBytes(n) * ByteBits
<1>1. SizeBytes(n) \in 1..2^HeaderBits /\ n \in Nat
  BY SizeBytesLeast DEF Words
<1>2. SizeBytes(n) - 1 \in Nat /\ SizeBytes(n) * ByteBits \in Nat /\ HeaderBits \in Nat
  BY <1>1, BytesInBits
<1>3. /\ UintBits(SizeBytes(n) - 1, HeaderBits) \in Bits
      /\ Len(UintBits(SizeBytes(n) - 1, HeaderBits)) = HeaderBits
  BY <1>2, UintBitsAreBits
<1>4. /\ UintBits(n, SizeBytes(n) * ByteBits) \in Bits
      /\ Len(UintBits(n, SizeBytes(n) * ByteBits)) = SizeBytes(n) * ByteBits
  BY <1>1, <1>2, UintBitsAreBits
<1>5. EncodeSize(n) =
          UintBits(SizeBytes(n) - 1, HeaderBits) \o UintBits(n, SizeBytes(n) * ByteBits)
  BY DEF EncodeSize, SizeBytes
<1> QED
  BY <1>3, <1>4, <1>5, Joined

(* decode_size, one read after the other.                                  *)
LEMMA SizeSteps ==
    ASSUME NEW s, NEW c
    PROVE  /\ ReadUint(s, c, HeaderBits) = Failed(c) => DecodeSize(s, c) = Failed(c)
           /\ \A h, m : ReadUint(s, c, HeaderBits) = Got(h, m) =>
                  /\ ReadUint(s, m, (h + 1) * ByteBits) = Failed(m) => DecodeSize(s, c) = Failed(c)
                  /\ \A n, d : ReadUint(s, m, (h + 1) * ByteBits) = Got(n, d) =>
                         DecodeSize(s, c) =
                             IF h > 0 => n >= 2^(h * ByteBits) THEN Got(n, d) ELSE Failed(c)
<1> DEFINE x == ReadUint(s, c, HeaderBits)
           Bytes(h, m) == Kept(IF ReadUint(s, m, (h + 1) * ByteBits).ok
                               THEN GotIf(h > 0 => ReadUint(s, m, (h + 1) * ByteBits).value
                                                     >= 2^(h * ByteBits),
                                          ReadUint(s, m, (h + 1) * ByteBits).value,
                                          ReadUint(s, m, (h + 1) * ByteBits).at)
                               ELSE ReadUint(s, m, (h + 1) * ByteBits), m)
<1>1. DecodeSize(s, c) = Kept(IF x.ok THEN Bytes(x.value, x.at) ELSE x, c)
  BY DEF DecodeSize, Then
<1>2. ASSUME x = Failed(c)
      PROVE  DecodeSize(s, c) = Failed(c)
  <2> HIDE DEF x, Bytes
  <2> QED
    BY <1>1, <1>2, Results2, KeptResults
<1>3. ASSUME NEW h, NEW m, x = Got(h, m)
      PROVE  /\ ReadUint(s, m, (h + 1) * ByteBits) = Failed(m) => DecodeSize(s, c) = Failed(c)
             /\ \A n, d : ReadUint(s, m, (h + 1) * ByteBits) = Got(n, d) =>
                    DecodeSize(s, c) =
                        IF h > 0 => n >= 2^(h * ByteBits) THEN Got(n, d) ELSE Failed(c)
  <2>1. x.ok /\ x.value = h /\ x.at = m
    BY <1>3, Results2
  <2>2. DecodeSize(s, c) = Kept(Bytes(h, m), c)
    <3> HIDE DEF Bytes, x
    <3> QED
      BY <1>1, <2>1
  <2> DEFINE y == ReadUint(s, m, (h + 1) * ByteBits)
  <2>3. Bytes(h, m) = Kept(IF y.ok THEN GotIf(h > 0 => y.value >= 2^(h * ByteBits), y.value, y.at)
                           ELSE y, m)
    OBVIOUS
  <2> HIDE DEF x, y, Bytes
  <2>4. ASSUME y = Failed(m)
        PROVE  DecodeSize(s, c) = Failed(c)
    <3>1. Bytes(h, m) = Failed(m)
      BY <2>3, <2>4, Results2, KeptResults
    <3> QED
      BY <2>2, <3>1, KeptResults
  <2>5. ASSUME NEW n, NEW d, y = Got(n, d)
        PROVE  DecodeSize(s, c) =
                   IF h > 0 => n >= 2^(h * ByteBits) THEN Got(n, d) ELSE Failed(c)
    <3>1. y.ok /\ y.value = n /\ y.at = d
      BY <2>5, Results2
    <3>2. Bytes(h, m) = Kept(GotIf(h > 0 => n >= 2^(h * ByteBits), n, d), m)
      BY <2>3, <3>1
    <3>3. CASE h > 0 => n >= 2^(h * ByteBits)
      <4>1. Bytes(h, m) = Got(n, d)
        BY <3>2, <3>3, KeptResults DEF GotIf
      <4>2. DecodeSize(s, c) = Got(n, d)
        BY <2>2, <4>1, Results2 DEF Kept
      <4> QED
        BY <3>3, <4>2
    <3>4. CASE ~(h > 0 => n >= 2^(h * ByteBits))
      <4>1. Bytes(h, m) = Failed(m)
        BY <3>2, <3>4, KeptResults DEF GotIf
      <4>2. DecodeSize(s, c) = Failed(c)
        BY <2>2, <4>1, KeptResults
      <4> QED
        BY <3>4, <4>2
    <3> QED
      BY <3>3, <3>4
  <2> QED
    BY <2>4, <2>5 DEF y
<1> QED
  BY <1>2, <1>3

LEMMA SizeBack ==
    ASSUME NEW s, NEW c, NEW d, NEW n \in Words, Between(s, c, d, EncodeSize(n))
    PROVE  DecodeSize(s, c) = Got(n, d)
<1> DEFINE b == SizeBytes(n)
           e == UintBits(b - 1, HeaderBits)
           f == UintBits(n, b * ByteBits)
<1>1. e \in Bits /\ f \in Bits /\ EncodeSize(n) = e \o f
  BY SizeWritten
<1>2. PICK m : Between(s, c, m, e) /\ Between(s, m, d, f)
  <2> HIDE DEF e, f
  <2> QED
    BY <1>1, BetweenSplit
<1>3. /\ b \in 1..2^HeaderBits /\ n < 2^(b * ByteBits)
      /\ \A k \in 1..2^HeaderBits : n < 2^(k * ByteBits) => b <= k
  BY SizeBytesLeast
<1> HIDE DEF b
<1>4. /\ HeaderBits \in 0..Word /\ b - 1 \in 0..(2^HeaderBits - 1)
      /\ b * ByteBits \in Nat /\ b * ByteBits <= Word /\ (b - 1) + 1 = b
  <2>1. 2^HeaderBits \in Nat /\ b \in Nat /\ b <= 2^HeaderBits
    BY <1>3, BytesInBits
  <2>2. b * ByteBits <= 2^HeaderBits * ByteBits
    BY <2>1, BytesInBits
  <2> QED
    BY <1>3, <2>1, <2>2, BytesInBits
<1>5. ReadUint(s, c, HeaderBits) = Got(b - 1, m)
  BY <1>2, <1>4, UintBack
<1>6. n \in 0..(2^(b * ByteBits) - 1) /\ b * ByteBits \in 0..Word
  BY <1>3, <1>4, WordIsNat, PowerDoubles DEF Words
<1>7. ReadUint(s, m, ((b - 1) + 1) * ByteBits) = Got(n, d)
  BY <1>2, <1>4, <1>6, UintBack
<1>8. b - 1 > 0 => n >= 2^((b - 1) * ByteBits)
  <2> SUFFICES ASSUME b - 1 > 0, ~(n >= 2^((b - 1) * ByteBits))
               PROVE  FALSE
    OBVIOUS
  <2>1. b - 1 \in 1..2^HeaderBits /\ 2^((b - 1) * ByteBits) \in Nat /\ n \in Nat
    BY <1>3, <1>4, BytesInBits, PowerDoubles DEF Words
  <2>2. b <= b - 1
    BY <1>3, <2>1
  <2> QED
    BY <1>3, <2>2
<1> QED
  BY <1>5, <1>7, <1>8, SizeSteps

LEMMA SizeMet ==
    ASSUME NEW s \in Bits, NEW c \in 0..Len(s)
    PROVE  \/ DecodeSize(s, c) = Failed(c)
           \/ \E d : \E n \in Words : /\ Between(s, c, d, EncodeSize(n))
                                      /\ DecodeSize(s, c) = Got(n, d)
<1> DEFINE Goal == \/ DecodeSize(s, c) = Failed(c)
                   \/ \E d : \E n \in Words : /\ Between(s, c, d, EncodeSize(n))
                                              /\ DecodeSize(s, c) = Got(n, d)
<1>1. \/ ReadUint(s, c, HeaderBits) = Failed(c)
      \/ \E m : \E h \in 0..(2^HeaderBits - 1) :
             /\ HeaderBits <= Word
             /\ Between(s, c, m, UintBits(h, HeaderBits))
             /\ ReadUint(s, c, HeaderBits) = Got(h, m)
  BY BytesInBits, UintMet
<1>2. CASE ReadUint(s, c, HeaderBits) = Failed(c)
  BY <1>2, SizeSteps
<1>3. ASSUME NEW m, NEW h \in 0..(2^HeaderBits - 1), Between(s, c, m, UintBits(h, HeaderBits)),
             ReadUint(s, c, HeaderBits) = Got(h, m)
      PROVE  Goal
  <2> DEFINE w == (h + 1) * ByteBits
  <2>1. h \in Nat /\ h + 1 \in Nat /\ w \in Nat /\ m \in 0..Len(s) /\ h + 1 \in 1..2^HeaderBits
    BY <1>3, BytesInBits, BetweenIn
  <2>2. \/ ReadUint(s, m, w) = Failed(m)
        \/ \E d : \E n \in 0..(2^w - 1) :
               /\ w <= Word
               /\ Between(s, m, d, UintBits(n, w))
               /\ ReadUint(s, m, w) = Got(n, d)
    <3> HIDE DEF w
    <3> QED
      BY <2>1, UintMet
  <2>3. CASE ReadUint(s, m, w) = Failed(m)
    BY <1>3, <2>3, SizeSteps
  <2>4. ASSUME NEW d, NEW n \in 0..(2^w - 1), w <= Word, Between(s, m, d, UintBits(n, w)),
               ReadUint(s, m, w) = Got(n, d)
        PROVE  Goal
    <3>1. DecodeSize(s, c) = IF h > 0 => n >= 2^(h * ByteBits) THEN Got(n, d) ELSE Failed(c)
      BY <1>3, <2>4, SizeSteps
    <3>2. CASE h > 0 => n >= 2^(h * ByteBits)
      <4>1. n \in Words /\ n \in Nat /\ n < 2^w
        <5> HIDE DEF w
        <5>1. 2^w \in Nat /\ 2^Word \in Nat /\ 2^w <= 2^Word
          BY <2>1, <2>4, WordIsNat, PowerGrows
        <5> QED
          BY <5>1 DEF Words
      <4>2. SizeBytes(n) = h + 1
        <5>1. /\ SizeBytes(n) \in 1..2^HeaderBits
              /\ n < 2^(SizeBytes(n) * ByteBits)
              /\ \A k \in 1..2^HeaderBits : n < 2^(k * ByteBits) => SizeBytes(n) <= k
          BY <4>1, SizeBytesLeast
        <5>2. SizeBytes(n) <= h + 1
          BY <2>1, <4>1, <5>1
        <5>3. CASE SizeBytes(n) <= h
          <6> DEFINE b == SizeBytes(n)
          <6>1. b \in Nat /\ b <= h /\ h > 0
            BY <2>1, <5>1, <5>3, BytesInBits
          <6>2. b * ByteBits \in Nat /\ h * ByteBits \in Nat /\ b * ByteBits <= h * ByteBits
            <7> HIDE DEF b
            <7> QED
              BY <2>1, <6>1, BytesInBits
          <6>3. 2^(b * ByteBits) <= 2^(h * ByteBits) /\ 2^(b * ByteBits) \in Nat
                /\ 2^(h * ByteBits) \in Nat
            BY <6>2, PowerGrows
          <6> QED
            BY <3>2, <4>1, <5>1, <6>1, <6>3
        <5>4. SizeBytes(n) \in Nat
          BY <5>1, BytesInBits
        <5> QED
          BY <2>1, <5>2, <5>3, <5>4
      <4>3. EncodeSize(n) = UintBits(h, HeaderBits) \o UintBits(n, w)
        <5>1. (h + 1) - 1 = h
          BY <2>1
        <5> QED
          BY <4>1, <4>2, <5>1, SizeWritten
      <4>4. Between(s, c, d, EncodeSize(n))
        BY <1>3, <2>4, <4>3, BetweenJoined
      <4> QED
        BY <3>1, <3>2, <4>1, <4>4
    <3>3. CASE ~(h > 0 => n >= 2^(h * ByteBits))
      BY <3>1, <3>3
    <3> QED
      BY <3>2, <3>3
  <2> HIDE DEF Goal
  <2>5. CASE DecodeSize(s, c) = Failed(c)
    BY <2>5 DEF Goal
  <2>6. ReadUint(s, m, w) = Failed(m) => Goal
    BY <2>3
  <2> QED
    BY <2>2, <2>4, <2>6
<1>4. ReadUint(s, c, HeaderBits) = Failed(c) => Goal
  BY <1>2
<1> HIDE DEF Goal
<1>5. Goal
  BY <1>1, <1>3, <1>4
<1> QED
  BY <1>5 DEF Goal

-----------------------------------------------------------------------------
(* Bit strings                                                             *)

LEMMA BitStringWritten ==
    ASSUME NEW b \in BitStrings
    PROVE  /\ EncodeBitString(b) \in Bits /\ EncodeSize(Len(b)) \in Bits /\ b \in Bits
           /\ EncodeBitString(b) = EncodeSize(Len(b)) \o b
<1>1. b \in Bits /\ Len(b) \in Words
  BY DEF BitStrings
<1>2. EncodeSize(Len(b)) \in Bits
  BY <1>1, SizeWritten
<1> QED
  BY <1>1, <1>2, Joined DEF EncodeBitString

LEMMA BitStringSteps ==
    ASSUME NEW s, NEW c
    PROVE  /\ DecodeSize(s, c) = Failed(c) => DecodeBitString(s, c) = Failed(c)
           /\ \A n, m : DecodeSize(s, c) = Got(n, m) =>
                  DecodeBitString(s, c) = Kept(ReadBits(s, m, n), c)
<1> DEFINE x == DecodeSize(s, c)
<1>1. DecodeBitString(s, c) = Kept(IF x.ok THEN ReadBits(s, x.at, x.value) ELSE x, c)
  BY DEF DecodeBitString, Then
<1> HIDE DEF x
<1>2. x = Failed(c) => DecodeBitString(s, c) = Failed(c)
  BY <1>1, Results2 DEF Kept
<1>3. ASSUME NEW n, NEW m, x = Got(n, m)
      PROVE  DecodeBitString(s, c) = Kept(ReadBits(s, m, n), c)
  <2>1. x.ok /\ x.value = n /\ x.at = m
    BY <1>3, Results2
  <2> QED
    BY <1>1, <2>1
<1> QED
  BY <1>2, <1>3 DEF x

LEMMA BitStringBack ==
    ASSUME NEW s, NEW c, NEW d, NEW b \in BitStrings, Between(s, c, d, EncodeBitString(b))
    PROVE  DecodeBitString(s, c) = Got(b, d)
<1>1. /\ EncodeSize(Len(b)) \in Bits /\ b \in Bits
      /\ EncodeBitString(b) = EncodeSize(Len(b)) \o b
  BY BitStringWritten
<1>2. PICK m : Between(s, c, m, EncodeSize(Len(b))) /\ Between(s, m, d, b)
  BY <1>1, BetweenSplit
<1>3. DecodeSize(s, c) = Got(Len(b), m)
  BY <1>2, SizeBack DEF BitStrings
<1>4. ReadBits(s, m, Len(b)) = Got(b, d)
  BY <1>2, BitsBack
<1> QED
  BY <1>3, <1>4, BitStringSteps, KeptGot

LEMMA BitStringMet ==
    ASSUME NEW s \in Bits, NEW c \in 0..Len(s)
    PROVE  \/ DecodeBitString(s, c) = Failed(c)
           \/ \E d : \E b \in BitStrings : /\ Between(s, c, d, EncodeBitString(b))
                                           /\ DecodeBitString(s, c) = Got(b, d)
<1> DEFINE Goal == \/ DecodeBitString(s, c) = Failed(c)
                   \/ \E d : \E b \in BitStrings : /\ Between(s, c, d, EncodeBitString(b))
                                                   /\ DecodeBitString(s, c) = Got(b, d)
<1>1. DecodeSize(s, c) = Failed(c) => Goal
  BY BitStringSteps
<1>2. ASSUME NEW m, NEW n \in Words, Between(s, c, m, EncodeSize(n)), DecodeSize(s, c) = Got(n, m)
      PROVE  Goal
  <2>1. n \in Nat /\ m \in 0..Len(s) /\ DecodeBitString(s, c) = Kept(ReadBits(s, m, n), c)
    BY <1>2, BetweenIn, BitStringSteps DEF Words
  <2>2. \/ ReadBits(s, m, n) = Failed(m)
        \/ \E d : \E b \in Bits : /\ Len(b) = n /\ Between(s, m, d, b)
                                  /\ ReadBits(s, m, n) = Got(b, d)
    BY <2>1, BitsMet
  <2>3. ReadBits(s, m, n) = Failed(m) => Goal
    BY <2>1, KeptResults
  <2>4. ASSUME NEW d, NEW b \in Bits, Len(b) = n, Between(s, m, d, b), ReadBits(s, m, n) = Got(b, d)
        PROVE  Goal
    <3>1. b \in BitStrings /\ EncodeBitString(b) = EncodeSize(n) \o b
      BY <2>4 DEF BitStrings, EncodeBitString
    <3>2. Between(s, c, d, EncodeBitString(b))
      BY <1>2, <2>4, <3>1, BetweenJoined
    <3>3. DecodeBitString(s, c) = Got(b, d)
      BY <2>1, <2>4, KeptGot
    <3> QED
      BY <3>1, <3>2, <3>3
  <2> HIDE DEF Goal
  <2> QED
    BY <2>2, <2>3, <2>4
<1> HIDE DEF Goal
<1>3. Goal
  BY <1>1, <1>2, SizeMet
<1> QED
  BY <1>3 DEF Goal

-----------------------------------------------------------------------------
(* Variable integers without a sign                                        *)

LEMMA WidthsAreWords == 0..Word \subseteq Words /\ Word \in Nat /\ 2^Word \in Nat
<1> DEFINE S == {k \in Nat : k + 1 <= 2^k}
<1>1. 0 \in S
  BY PowerOfZero
<1>2. \A k \in Nat : k \in S => k + 1 \in S
  BY PowerDoubles
<1>3. \A k \in Nat : k \in S
  <2> HIDE DEF S
  <2> QED
    BY <1>1, <1>2, Induction
<1>4. Word + 1 <= 2^Word /\ 2^Word \in Nat /\ Word \in Nat
  BY <1>3, WordIsNat, PowerDoubles
<1> QED
  BY <1>4 DEF Words

UintWidth(n) == Min({w \in 0..Word : n < 2^w})

LEMMA UintWidthLeast ==
    ASSUME NEW n \in Words
    PROVE  /\ UintWidth(n) \in 0..Word /\ n < 2^UintWidth(n)
           /\ \A w \in 0..Word : n < 2^w => UintWidth(n) <= w
<1> DEFINE S == {w \in 0..Word : n < 2^w}
<1>1. Word \in S /\ S \in SUBSET Nat
  BY WidthsAreWords DEF Words
<1>2. Min(S) \in S /\ \A j \in S : Min(S) <= j
  <2> HIDE DEF S
  <2> QED
    BY <1>1, MinOfNumbers
<1> QED
  BY <1>2 DEF UintWidth

(* The width a decoder accepts is the one an encoder takes.                *)
LEMMA UintWidthIs ==
    ASSUME NEW w \in 0..Word, NEW n \in 0..(2^w - 1), w > 0 => n >= 2^(w - 1)
    PROVE  n \in Words /\ UintWidth(n) = w
<1>1. w \in Nat /\ 2^w \in Nat /\ 2^w <= 2^Word /\ 2^Word \in Nat
  BY WidthsAreWords, PowerGrows
<1>2. n \in Words /\ n \in Nat /\ n < 2^w
  BY <1>1 DEF Words
<1>3. /\ UintWidth(n) \in 0..Word /\ n < 2^UintWidth(n)
      /\ \A k \in 0..Word : n < 2^k => UintWidth(n) <= k
  BY <1>2, UintWidthLeast
<1>4. UintWidth(n) <= w /\ UintWidth(n) \in Nat
  BY <1>2, <1>3, WidthsAreWords
<1>5. ASSUME UintWidth(n) < w
      PROVE  FALSE
  <2>1. w - 1 \in Nat /\ UintWidth(n) <= w - 1 /\ w > 0
    BY <1>1, <1>4, <1>5
  <2>2. 2^UintWidth(n) <= 2^(w - 1) /\ 2^UintWidth(n) \in Nat /\ 2^(w - 1) \in Nat
    BY <1>4, <2>1, PowerGrows
  <2> QED
    BY <1>2, <1>3, <2>1, <2>2
<1> QED
  BY <1>1, <1>2, <1>4, <1>5

LEMMA VarUintWritten ==
    ASSUME NEW n \in Words
    PROVE  /\ EncodeVarUint(n) \in Bits
           /\ EncodeSize(UintWidth(n)) \in Bits /\ UintBits(n, UintWidth(n)) \in Bits
           /\ EncodeVarUint(n) = EncodeSize(UintWidth(n)) \o UintBits(n, UintWidth(n))
<1>1. UintWidth(n) \in Words /\ UintWidth(n) \in Nat /\ n \in Nat
  BY UintWidthLeast, WidthsAreWords DEF Words
<1>2. EncodeSize(UintWidth(n)) \in Bits /\ UintBits(n, UintWidth(n)) \in Bits
  BY <1>1, SizeWritten, UintBitsAreBits
<1>3. EncodeVarUint(n) = EncodeSize(UintWidth(n)) \o UintBits(n, UintWidth(n))
  BY DEF EncodeVarUint, UintWidth
<1> QED
  BY <1>2, <1>3, Joined

LEMMA VarUintSteps ==
    ASSUME NEW s, NEW c
    PROVE  /\ DecodeSize(s, c) = Failed(c) => DecodeVarUint(s, c) = Failed(c)
           /\ \A w, m : DecodeSize(s, c) = Got(w, m) =>
                  /\ ReadUint(s, m, w) = Failed(m) => DecodeVarUint(s, c) = Failed(c)
                  /\ \A n, d : ReadUint(s, m, w) = Got(n, d) =>
                         DecodeVarUint(s, c) =
                             IF w > 0 => n >= 2^(w - 1) THEN Got(n, d) ELSE Failed(c)
<1> DEFINE x == DecodeSize(s, c)
           Sized(w, m) == Kept(IF ReadUint(s, m, w).ok
                               THEN GotIf(w > 0 => ReadUint(s, m, w).value >= 2^(w - 1),
                                          ReadUint(s, m, w).value, ReadUint(s, m, w).at)
                               ELSE ReadUint(s, m, w), m)
<1>1. DecodeVarUint(s, c) = Kept(IF x.ok THEN Sized(x.value, x.at) ELSE x, c)
  BY DEF DecodeVarUint, Then
<1> HIDE DEF x
<1>2. x = Failed(c) => DecodeVarUint(s, c) = Failed(c)
  <2> HIDE DEF Sized
  <2> QED
    BY <1>1, Results2 DEF Kept
<1>3. ASSUME NEW w, NEW m, x = Got(w, m)
      PROVE  /\ ReadUint(s, m, w) = Failed(m) => DecodeVarUint(s, c) = Failed(c)
             /\ \A n, d : ReadUint(s, m, w) = Got(n, d) =>
                    DecodeVarUint(s, c) =
                        IF w > 0 => n >= 2^(w - 1) THEN Got(n, d) ELSE Failed(c)
  <2>1. x.ok /\ x.value = w /\ x.at = m
    BY <1>3, Results2
  <2>2. DecodeVarUint(s, c) = Kept(Sized(w, m), c)
    <3> HIDE DEF Sized
    <3> QED
      BY <1>1, <2>1
  <2> DEFINE y == ReadUint(s, m, w)
  <2>3. Sized(w, m) = Kept(IF y.ok THEN GotIf(w > 0 => y.value >= 2^(w - 1), y.value, y.at)
                           ELSE y, m)
    OBVIOUS
  <2> HIDE DEF y, Sized
  <2>4. y = Failed(m) => DecodeVarUint(s, c) = Failed(c)
    BY <2>2, <2>3, Results2 DEF Kept
  <2>5. ASSUME NEW n, NEW d, y = Got(n, d)
        PROVE  DecodeVarUint(s, c) = IF w > 0 => n >= 2^(w - 1) THEN Got(n, d) ELSE Failed(c)
    <3>1. y.ok /\ y.value = n /\ y.at = d
      BY <2>5, Results2
    <3>2. Sized(w, m) = Kept(GotIf(w > 0 => n >= 2^(w - 1), n, d), m)
      BY <2>3, <3>1
    <3> QED
      BY <2>2, <3>2, Results2 DEF Kept, GotIf
  <2> QED
    BY <2>4, <2>5 DEF y
<1> QED
  BY <1>2, <1>3 DEF x

LEMMA VarUintBack ==
    ASSUME NEW s, NEW c, NEW d, NEW n \in Words, Between(s, c, d, EncodeVarUint(n))
    PROVE  DecodeVarUint(s, c) = Got(n, d)
<1> DEFINE w == UintWidth(n)
<1>1. /\ EncodeSize(w) \in Bits /\ UintBits(n, w) \in Bits
      /\ EncodeVarUint(n) = EncodeSize(w) \o UintBits(n, w)
  BY VarUintWritten
<1>2. w \in 0..Word /\ n < 2^w /\ \A k \in 0..Word : n < 2^k => w <= k
  BY UintWidthLeast
<1> HIDE DEF w
<1>3. PICK m : Between(s, c, m, EncodeSize(w)) /\ Between(s, m, d, UintBits(n, w))
  BY <1>1, BetweenSplit
<1>4. n \in 0..(2^w - 1) /\ w \in Words /\ w \in Nat /\ n \in Nat
  BY <1>2, WidthsAreWords, PowerDoubles DEF Words
<1>5. DecodeSize(s, c) = Got(w, m)
  BY <1>3, <1>4, SizeBack
<1>6. ReadUint(s, m, w) = Got(n, d)
  BY <1>2, <1>3, <1>4, UintBack
<1>7. w > 0 => n >= 2^(w - 1)
  <2> SUFFICES ASSUME w > 0, ~(n >= 2^(w - 1))
               PROVE  FALSE
    OBVIOUS
  <2>1. w - 1 \in 0..Word /\ 2^(w - 1) \in Nat
    BY <1>2, <1>4, WidthsAreWords, PowerDoubles
  <2>2. w <= w - 1
    BY <1>2, <1>4, <2>1
  <2> QED
    BY <1>4, <2>2
<1> QED
  BY <1>5, <1>6, <1>7, VarUintSteps

LEMMA VarUintMet ==
    ASSUME NEW s \in Bits, NEW c \in 0..Len(s)
    PROVE  \/ DecodeVarUint(s, c) = Failed(c)
           \/ \E d : \E n \in Words : /\ Between(s, c, d, EncodeVarUint(n))
                                      /\ DecodeVarUint(s, c) = Got(n, d)
<1> DEFINE Goal == \/ DecodeVarUint(s, c) = Failed(c)
                   \/ \E d : \E n \in Words : /\ Between(s, c, d, EncodeVarUint(n))
                                              /\ DecodeVarUint(s, c) = Got(n, d)
<1>1. DecodeSize(s, c) = Failed(c) => Goal
  BY VarUintSteps
<1>2. ASSUME NEW m, NEW w \in Words, Between(s, c, m, EncodeSize(w)), DecodeSize(s, c) = Got(w, m)
      PROVE  Goal
  <2>1. w \in Nat /\ m \in 0..Len(s)
    BY <1>2, BetweenIn DEF Words
  <2>2. \/ ReadUint(s, m, w) = Failed(m)
        \/ \E d : \E n \in 0..(2^w - 1) : /\ w <= Word
                                          /\ Between(s, m, d, UintBits(n, w))
                                          /\ ReadUint(s, m, w) = Got(n, d)
    BY <2>1, UintMet
  <2>3. ReadUint(s, m, w) = Failed(m) => Goal
    BY <1>2, VarUintSteps
  <2>4. ASSUME NEW d, NEW n \in 0..(2^w - 1), w <= Word, Between(s, m, d, UintBits(n, w)),
               ReadUint(s, m, w) = Got(n, d)
        PROVE  Goal
    <3>1. DecodeVarUint(s, c) = IF w > 0 => n >= 2^(w - 1) THEN Got(n, d) ELSE Failed(c)
      BY <1>2, <2>4, VarUintSteps
    <3>2. CASE w > 0 => n >= 2^(w - 1)
      <4>1. w \in 0..Word
        BY <2>1, <2>4, WidthsAreWords
      <4>2. n \in Words /\ UintWidth(n) = w
        BY <3>2, <4>1, UintWidthIs
      <4>3. EncodeVarUint(n) = EncodeSize(w) \o UintBits(n, w)
        BY <4>2, VarUintWritten
      <4>4. Between(s, c, d, EncodeVarUint(n))
        BY <1>2, <2>4, <4>3, BetweenJoined
      <4> QED
        BY <3>1, <3>2, <4>2, <4>4
    <3>3. CASE ~(w > 0 => n >= 2^(w - 1))
      BY <3>1, <3>3
    <3> QED
      BY <3>2, <3>3
  <2> HIDE DEF Goal
  <2> QED
    BY <2>2, <2>3, <2>4
<1> HIDE DEF Goal
<1>3. Goal
  BY <1>1, <1>2, SizeMet
<1> QED
  BY <1>3 DEF Goal

-----------------------------------------------------------------------------
(* Fields: what a decoder can meet where a field of a record should be.    *)

(* A read that gives a value has not failed, and gives no other value.     *)
LEMMA GotNotFailed ==
    ASSUME NEW v, NEW d, NEW c
    PROVE  Got(v, d) # Failed(c)
BY Results2

IsField(field) ==
    \/ field \in {SizeField, NameField, HandleField, ReferenceField}
    \/ \E w \in Nat : field \in {BitsField(w), UintField(w)}

LEMMA FieldIsPlain ==
    ASSUME NEW field, IsField(field)
    PROVE  IsPlain(field)
BY DEF IsField, IsPlain, SizeField, NameField, HandleField, ReferenceField, BitsField, UintField

LEMMA PlainKinds ==
    /\ IsPlain(SizeField) /\ IsPlain(NameField) /\ IsPlain(HandleField)
    /\ IsPlain(ReferenceField)
    /\ \A w : IsPlain(BitsField(w)) /\ IsPlain(UintField(w))
BY DEF IsPlain, SizeField, NameField, HandleField, ReferenceField, BitsField, UintField

LEMMA FieldMet ==
    ASSUME NEW s \in Bits, NEW c \in 0..Len(s), NEW field, IsField(field)
    PROVE  \/ ReadField(s, c, field) = Failed(c)
           \/ \E v : \E d \in 0..Len(s) : ReadField(s, c, field) = Got(v, d)
<1>1. CASE field = SizeField
  BY <1>1, NamedFieldReads, SizeMet, BetweenIn
<1>2. CASE field = NameField
  BY <1>2, NamedFieldReads, BitStringMet, BetweenIn
<1>3. CASE field = HandleField
  BY <1>3, NamedFieldReads, HandleMet, BetweenIn
<1>4. CASE field = ReferenceField
  BY <1>4, NamedFieldReads, ReferenceMet, BetweenIn
<1>5. ASSUME NEW w \in Nat, field = BitsField(w)
      PROVE  \/ ReadField(s, c, field) = Failed(c)
             \/ \E v : \E d \in 0..Len(s) : ReadField(s, c, field) = Got(v, d)
  BY <1>5, FieldReads, BitsMet, BetweenIn
<1>6. ASSUME NEW w \in Nat, field = UintField(w)
      PROVE  \/ ReadField(s, c, field) = Failed(c)
             \/ \E v : \E d \in 0..Len(s) : ReadField(s, c, field) = Got(v, d)
  BY <1>6, FieldReads, UintMet, BetweenIn
<1> QED
  BY <1>1, <1>2, <1>3, <1>4, <1>5, <1>6 DEF IsField

\* A record of fields of the types the machine uses.
LEMMA FieldsMet ==
    ASSUME NEW s \in Bits, NEW a \in 0..Len(s), NEW n \in Nat,
           NEW fields, Len(fields) = n, DOMAIN fields = 1..n,
           \A k \in 1..n : IsField(fields[k])
    PROVE  FieldsHere(s, a, fields, n)
<1>1. Len(fields) \in Nat /\ DOMAIN fields = 1..Len(fields)
  OBVIOUS
<1>2. \A k \in 1..Len(fields) :
          IsPlain(fields[k]) /\ \A d \in 0..Len(s) : FieldComes(s, d, fields[k])
  BY FieldMet, FieldIsPlain DEF FieldComes
<1>3. FieldsHere(s, a, fields, Len(fields))
  BY <1>1, <1>2, FieldsRead
<1> QED
  BY <1>3

LEMMA BitsGot ==
    ASSUME NEW s \in Bits, NEW c \in 0..Len(s), NEW w \in Nat, NEW v, NEW d,
           ReadField(s, c, BitsField(w)) = Got(v, d)
    PROVE  v \in Bits /\ Len(v) = w /\ Between(s, c, d, v)
<1>1. ReadBits(s, c, w) = Got(v, d) /\ ReadBits(s, c, w) # Failed(c)
  BY FieldReads, GotNotFailed
<1>2. PICK d1, e : /\ e \in Bits /\ Len(e) = w /\ Between(s, c, d1, e)
                   /\ ReadBits(s, c, w) = Got(e, d1)
  BY <1>1, BitsMet
<1>3. Got(v, d) = Got(e, d1)
  BY <1>1, <1>2
<1>4. e = v /\ d1 = d
  BY <1>3, GotParts
<1> QED
  BY <1>2, <1>4

LEMMA UintGot ==
    ASSUME NEW s \in Bits, NEW c \in 0..Len(s), NEW w \in Nat, NEW v, NEW d,
           ReadField(s, c, UintField(w)) = Got(v, d)
    PROVE  v \in 0..(2^w - 1) /\ w <= Word /\ Between(s, c, d, UintBits(v, w))
<1>1. ReadUint(s, c, w) = Got(v, d) /\ ReadUint(s, c, w) # Failed(c)
  BY FieldReads, GotNotFailed
<1>2. PICK d1, x : /\ x \in 0..(2^w - 1) /\ w <= Word
                   /\ Between(s, c, d1, UintBits(x, w)) /\ ReadUint(s, c, w) = Got(x, d1)
  BY <1>1, UintMet
<1>3. Got(v, d) = Got(x, d1)
  BY <1>1, <1>2
<1>4. x = v /\ d1 = d
  BY <1>3, GotParts
<1> QED
  BY <1>2, <1>4

LEMMA SizeGot ==
    ASSUME NEW s \in Bits, NEW c \in 0..Len(s), NEW v, NEW d,
           ReadField(s, c, SizeField) = Got(v, d)
    PROVE  v \in Words /\ Between(s, c, d, EncodeSize(v))
<1>1. DecodeSize(s, c) = Got(v, d) /\ DecodeSize(s, c) # Failed(c)
  BY NamedFieldReads, GotNotFailed
<1>2. PICK d1, x : x \in Words /\ Between(s, c, d1, EncodeSize(x)) /\ DecodeSize(s, c) = Got(x, d1)
  BY <1>1, SizeMet
<1>3. Got(v, d) = Got(x, d1)
  BY <1>1, <1>2
<1>4. x = v /\ d1 = d
  BY <1>3, GotParts
<1> QED
  BY <1>2, <1>4

LEMMA NameGot ==
    ASSUME NEW s \in Bits, NEW c \in 0..Len(s), NEW v, NEW d,
           ReadField(s, c, NameField) = Got(v, d)
    PROVE  v \in BitStrings /\ Between(s, c, d, EncodeBitString(v))
<1>1. DecodeBitString(s, c) = Got(v, d) /\ DecodeBitString(s, c) # Failed(c)
  BY NamedFieldReads, GotNotFailed
<1>2. PICK d1, x : /\ x \in BitStrings /\ Between(s, c, d1, EncodeBitString(x))
                   /\ DecodeBitString(s, c) = Got(x, d1)
  BY <1>1, BitStringMet
<1>3. Got(v, d) = Got(x, d1)
  BY <1>1, <1>2
<1>4. x = v /\ d1 = d
  BY <1>3, GotParts
<1> QED
  BY <1>2, <1>4

LEMMA HandleGot ==
    ASSUME NEW s \in Bits, NEW c \in 0..Len(s), NEW v, NEW d,
           ReadField(s, c, HandleField) = Got(v, d)
    PROVE  v \in Handles /\ CanEncodeHandle(v) /\ Between(s, c, d, EncodeHandle(v))
<1>1. DecodeHandle(s, c) = Got(v, d) /\ DecodeHandle(s, c) # Failed(c)
  BY NamedFieldReads, GotNotFailed
<1>2. PICK d1, x : /\ x \in Handles /\ CanEncodeHandle(x) /\ Between(s, c, d1, EncodeHandle(x))
                   /\ DecodeHandle(s, c) = Got(x, d1)
  BY <1>1, HandleMet
<1>3. Got(v, d) = Got(x, d1)
  BY <1>1, <1>2
<1>4. x = v /\ d1 = d
  BY <1>3, GotParts
<1> QED
  BY <1>2, <1>4

LEMMA ReferenceGot ==
    ASSUME NEW s \in Bits, NEW c \in 0..Len(s), NEW v, NEW d,
           ReadField(s, c, ReferenceField) = Got(v, d)
    PROVE  v \in References /\ CanEncodeRuntimeReference(v)
           /\ Between(s, c, d, EncodeRuntimeReference(v))
<1>1. DecodeRuntimeReference(s, c) = Got(v, d) /\ DecodeRuntimeReference(s, c) # Failed(c)
  BY NamedFieldReads, GotNotFailed
<1>2. PICK d1, x : /\ x \in References /\ CanEncodeRuntimeReference(x)
                   /\ Between(s, c, d1, EncodeRuntimeReference(x))
                   /\ DecodeRuntimeReference(s, c) = Got(x, d1)
  BY <1>1, ReferenceMet
<1>3. Got(v, d) = Got(x, d1)
  BY <1>1, <1>2
<1>4. x = v /\ d1 = d
  BY <1>3, GotParts
<1> QED
  BY <1>2, <1>4

-----------------------------------------------------------------------------
(* Activation records                                                      *)

ActivationFields ==
    <<BitsField(Len(RecordHeader)), HandleField, UintField(HandleBits),
      ReferenceField, ReferenceField, ReferenceField, HandleField,
      UintField(KindBits), UintField(HandleBits), UintField(HandleBits)>>
LegalActivation(v) ==
    v[1] = RecordHeader /\ Aligned(v[5]) /\ v[7].class = Global /\ PrefixOK(v[8], v[9], v[10])
ActivationOf(v) ==
    [procedure |-> v[2], position |-> v[3], network |-> v[4], local |-> v[5],
     previous |-> v[6], result |-> v[7], prefix |-> DecodedPrefix(v[8], v[10])]

LEMMA ActivationSteps ==
    ASSUME NEW s, NEW c
    PROVE  /\ ReadFields(s, c, ActivationFields) = Failed(c) => DecodeActivation(s, c) = Failed(c)
           /\ \A v, d : ReadFields(s, c, ActivationFields) = Got(v, d) =>
                  DecodeActivation(s, c) =
                      IF LegalActivation(v) THEN Got(ActivationOf(v), d) ELSE Failed(c)
<1> DEFINE x == ReadFields(s, c, ActivationFields)
<1>1. DecodeActivation(s, c) =
          Kept(IF x.ok THEN GotIf(LegalActivation(x.value), ActivationOf(x.value), x.at) ELSE x, c)
  BY DEF DecodeActivation, Then, ActivationFields, LegalActivation, ActivationOf
<1> HIDE DEF x
<1>2. x = Failed(c) => DecodeActivation(s, c) = Failed(c)
  BY <1>1, Results2 DEF Kept
<1>3. ASSUME NEW v, NEW d, x = Got(v, d)
      PROVE  DecodeActivation(s, c) =
                 IF LegalActivation(v) THEN Got(ActivationOf(v), d) ELSE Failed(c)
  <2>1. x.ok /\ x.value = v /\ x.at = d
    BY <1>3, Results2
  <2>2. DecodeActivation(s, c) = Kept(GotIf(LegalActivation(v), ActivationOf(v), d), c)
    BY <1>1, <2>1
  <2> QED
    BY <2>2, Results2 DEF Kept, GotIf
<1> QED
  BY <1>2, <1>3 DEF x

LEMMA ZeroIsZeros ==
    ASSUME NEW w \in Nat
    PROVE  UintBits(0, w) = Zeros(w)
<1>1. \A i \in 1..w : (0 \div 2^(w - i)) % 2 = 0
  <2> SUFFICES ASSUME NEW i \in 1..w
               PROVE  (0 \div 2^(w - i)) % 2 = 0
    OBVIOUS
  <2>1. w - i \in Nat
    OBVIOUS
  <2>2. 2^(w - i) \in Nat /\ 2^(w - i) > 0
    BY <2>1, PowerDoubles
  <2>3. 0 \div 2^(w - i) = 0
    BY <2>2, Divided
  <2>4. 0 % 2 = 0
    OBVIOUS
  <2> QED
    BY <2>3, <2>4
<1> QED
  BY <1>1 DEF UintBits, Zeros

(* The parts of a record, in the order the encoder appends them.           *)
ActivationParts(a) ==
    <<RecordHeader, EncodeHandle(a.procedure), UintBits(a.position, HandleBits),
      EncodeRuntimeReference(a.network), EncodeRuntimeReference(a.local),
      EncodeRuntimeReference(a.previous), EncodeHandle(a.result),
      UintBits(a.prefix.kind, KindBits), Zeros(HandleBits),
      UintBits(PrefixWord(a.prefix), HandleBits)>>

Joined10(p) == p[1] \o p[2] \o p[3] \o p[4] \o p[5] \o p[6] \o p[7] \o (p[8] \o p[9] \o p[10])

LEMMA Joined10Bits ==
    ASSUME NEW p, \A k \in 1..10 : p[k] \in Bits
    PROVE  /\ p[1] \o p[2] \in Bits
           /\ p[1] \o p[2] \o p[3] \in Bits
           /\ p[1] \o p[2] \o p[3] \o p[4] \in Bits
           /\ p[1] \o p[2] \o p[3] \o p[4] \o p[5] \in Bits
           /\ p[1] \o p[2] \o p[3] \o p[4] \o p[5] \o p[6] \in Bits
           /\ p[1] \o p[2] \o p[3] \o p[4] \o p[5] \o p[6] \o p[7] \in Bits
           /\ p[8] \o p[9] \in Bits /\ p[8] \o p[9] \o p[10] \in Bits
           /\ Joined10(p) \in Bits
<1>1. \A e, f \in Bits : e \o f \in Bits
  BY Joined
<1>2. /\ p[1] \in Bits /\ p[2] \in Bits /\ p[3] \in Bits /\ p[4] \in Bits /\ p[5] \in Bits
      /\ p[6] \in Bits /\ p[7] \in Bits /\ p[8] \in Bits /\ p[9] \in Bits /\ p[10] \in Bits
  OBVIOUS
<1>3. p[1] \o p[2] \in Bits /\ p[8] \o p[9] \in Bits
  BY <1>1, <1>2
<1>4. p[1] \o p[2] \o p[3] \in Bits /\ p[8] \o p[9] \o p[10] \in Bits
  BY <1>1, <1>2, <1>3
<1>5. p[1] \o p[2] \o p[3] \o p[4] \in Bits
  BY <1>1, <1>2, <1>4
<1>6. p[1] \o p[2] \o p[3] \o p[4] \o p[5] \in Bits
  BY <1>1, <1>2, <1>5
<1>7. p[1] \o p[2] \o p[3] \o p[4] \o p[5] \o p[6] \in Bits
  BY <1>1, <1>2, <1>6
<1>8. p[1] \o p[2] \o p[3] \o p[4] \o p[5] \o p[6] \o p[7] \in Bits
  BY <1>1, <1>2, <1>7
<1> QED
  BY <1>1, <1>3, <1>4, <1>5, <1>6, <1>7, <1>8 DEF Joined10

LEMMA Joined10Stands ==
    ASSUME NEW s, NEW c, NEW d, NEW p, \A k \in 1..10 : p[k] \in Bits
    PROVE  /\ Between(s, c, d, Joined10(p)) =>
                  \E m : m[0] = c /\ m[10] = d /\ \A k \in 1..10 : Between(s, m[k - 1], m[k], p[k])
           /\ \A m : m[0] = c /\ m[10] = d /\ (\A k \in 1..10 : Between(s, m[k - 1], m[k], p[k]))
                         => Between(s, c, d, Joined10(p))
<1>1. /\ p[1] \in Bits /\ p[2] \in Bits /\ p[3] \in Bits /\ p[4] \in Bits /\ p[5] \in Bits
      /\ p[6] \in Bits /\ p[7] \in Bits /\ p[8] \in Bits /\ p[9] \in Bits /\ p[10] \in Bits
  OBVIOUS
<1>2. /\ p[1] \o p[2] \in Bits
      /\ p[1] \o p[2] \o p[3] \in Bits
      /\ p[1] \o p[2] \o p[3] \o p[4] \in Bits
      /\ p[1] \o p[2] \o p[3] \o p[4] \o p[5] \in Bits
      /\ p[1] \o p[2] \o p[3] \o p[4] \o p[5] \o p[6] \in Bits
      /\ p[1] \o p[2] \o p[3] \o p[4] \o p[5] \o p[6] \o p[7] \in Bits
      /\ p[8] \o p[9] \in Bits /\ p[8] \o p[9] \o p[10] \in Bits
  BY Joined10Bits
<1>3. ASSUME Between(s, c, d, Joined10(p))
      PROVE  \E m : m[0] = c /\ m[10] = d /\ \A k \in 1..10 : Between(s, m[k - 1], m[k], p[k])
  <2>1. Between(s, c, d, (p[1] \o p[2] \o p[3] \o p[4] \o p[5] \o p[6] \o p[7])
                         \o (p[8] \o p[9] \o p[10]))
    BY <1>3 DEF Joined10
  <2>7. PICK m7 : /\ Between(s, c, m7, p[1] \o p[2] \o p[3] \o p[4] \o p[5] \o p[6] \o p[7])
                  /\ Between(s, m7, d, p[8] \o p[9] \o p[10])
    BY <1>2, <2>1, BetweenSplit
  <2>6. PICK m6 : /\ Between(s, c, m6, p[1] \o p[2] \o p[3] \o p[4] \o p[5] \o p[6])
                  /\ Between(s, m6, m7, p[7])
    BY <1>1, <1>2, <2>7, BetweenSplit
  <2>5. PICK m5 : /\ Between(s, c, m5, p[1] \o p[2] \o p[3] \o p[4] \o p[5])
                  /\ Between(s, m5, m6, p[6])
    BY <1>1, <1>2, <2>6, BetweenSplit
  <2>4. PICK m4 : Between(s, c, m4, p[1] \o p[2] \o p[3] \o p[4]) /\ Between(s, m4, m5, p[5])
    BY <1>1, <1>2, <2>5, BetweenSplit
  <2>3. PICK m3 : Between(s, c, m3, p[1] \o p[2] \o p[3]) /\ Between(s, m3, m4, p[4])
    BY <1>1, <1>2, <2>4, BetweenSplit
  <2>2. PICK m2 : Between(s, c, m2, p[1] \o p[2]) /\ Between(s, m2, m3, p[3])
    BY <1>1, <1>2, <2>3, BetweenSplit
  <2>8. PICK m1 : Between(s, c, m1, p[1]) /\ Between(s, m1, m2, p[2])
    BY <1>1, <2>2, BetweenSplit
  <2>9. PICK m9 : Between(s, m7, m9, p[8] \o p[9]) /\ Between(s, m9, d, p[10])
    BY <1>1, <1>2, <2>7, BetweenSplit
  <2>10. PICK m8 : Between(s, m7, m8, p[8]) /\ Between(s, m8, m9, p[9])
    BY <1>1, <2>9, BetweenSplit
  <2> DEFINE m == [k \in 0..10 |-> IF k = 0 THEN c
                                   ELSE <<m1, m2, m3, m4, m5, m6, m7, m8, m9, d>>[k]]
  <2>11. /\ m[0] = c /\ m[1] = m1 /\ m[2] = m2 /\ m[3] = m3 /\ m[4] = m4 /\ m[5] = m5
         /\ m[6] = m6 /\ m[7] = m7 /\ m[8] = m8 /\ m[9] = m9 /\ m[10] = d
    OBVIOUS
  <2> HIDE DEF m
  <2>12. \A k \in 1..10 : Between(s, m[k - 1], m[k], p[k])
    <3>1. /\ Between(s, m[1 - 1], m[1], p[1]) /\ Between(s, m[2 - 1], m[2], p[2])
          /\ Between(s, m[3 - 1], m[3], p[3]) /\ Between(s, m[4 - 1], m[4], p[4])
          /\ Between(s, m[5 - 1], m[5], p[5]) /\ Between(s, m[6 - 1], m[6], p[6])
          /\ Between(s, m[7 - 1], m[7], p[7]) /\ Between(s, m[8 - 1], m[8], p[8])
          /\ Between(s, m[9 - 1], m[9], p[9]) /\ Between(s, m[10 - 1], m[10], p[10])
      BY <2>2, <2>3, <2>4, <2>5, <2>6, <2>7, <2>8, <2>9, <2>10, <2>11
    <3>2. \A k \in 1..10 : k \in {1, 2, 3, 4, 5, 6, 7, 8, 9, 10}
      OBVIOUS
    <3> QED
      BY <3>1, <3>2
  <2> QED
    BY <2>11, <2>12
<1>4. ASSUME NEW m, m[0] = c, m[10] = d, \A k \in 1..10 : Between(s, m[k - 1], m[k], p[k])
      PROVE  Between(s, c, d, Joined10(p))
  <2>1. /\ Between(s, c, m[1], p[1]) /\ Between(s, m[1], m[2], p[2])
        /\ Between(s, m[2], m[3], p[3]) /\ Between(s, m[3], m[4], p[4])
        /\ Between(s, m[4], m[5], p[5]) /\ Between(s, m[5], m[6], p[6])
        /\ Between(s, m[6], m[7], p[7]) /\ Between(s, m[7], m[8], p[8])
        /\ Between(s, m[8], m[9], p[9]) /\ Between(s, m[9], d, p[10])
    <3>1. /\ Between(s, m[1 - 1], m[1], p[1]) /\ Between(s, m[2 - 1], m[2], p[2])
          /\ Between(s, m[3 - 1], m[3], p[3]) /\ Between(s, m[4 - 1], m[4], p[4])
          /\ Between(s, m[5 - 1], m[5], p[5]) /\ Between(s, m[6 - 1], m[6], p[6])
          /\ Between(s, m[7 - 1], m[7], p[7]) /\ Between(s, m[8 - 1], m[8], p[8])
          /\ Between(s, m[9 - 1], m[9], p[9]) /\ Between(s, m[10 - 1], m[10], p[10])
      BY <1>4
    <3> QED
      BY <1>4, <3>1
  <2>2. Between(s, c, m[2], p[1] \o p[2]) /\ Between(s, m[7], m[9], p[8] \o p[9])
    BY <2>1, BetweenJoined
  <2>3. /\ Between(s, c, m[3], p[1] \o p[2] \o p[3])
        /\ Between(s, m[7], d, p[8] \o p[9] \o p[10])
    BY <2>1, <2>2, BetweenJoined
  <2>4. Between(s, c, m[4], p[1] \o p[2] \o p[3] \o p[4])
    BY <2>1, <2>3, BetweenJoined
  <2>5. Between(s, c, m[5], p[1] \o p[2] \o p[3] \o p[4] \o p[5])
    BY <2>1, <2>4, BetweenJoined
  <2>6. Between(s, c, m[6], p[1] \o p[2] \o p[3] \o p[4] \o p[5] \o p[6])
    BY <2>1, <2>5, BetweenJoined
  <2>7. Between(s, c, m[7], p[1] \o p[2] \o p[3] \o p[4] \o p[5] \o p[6] \o p[7])
    BY <2>1, <2>6, BetweenJoined
  <2> QED
    BY <2>3, <2>7, BetweenJoined DEF Joined10
<1> QED
  BY <1>3, <1>4

LEMMA Joined10Made ==
    ASSUME NEW s, NEW p, \A k \in 1..10 : p[k] \in Bits,
           NEW m, \A k \in 1..10 : Between(s, m[k - 1], m[k], p[k])
    PROVE  Between(s, m[0], m[10], Joined10(p))
<1> DEFINE a == m[0]
           z == m[10]
<1>1. m[0] = a /\ m[10] = z
  OBVIOUS
<1> HIDE DEF a, z
<1> QED
  BY <1>1, Joined10Stands

LEMMA PartsOfActivation ==
    ASSUME NEW a \in Activations
    PROVE  /\ EncodeActivation(a) = Joined10(ActivationParts(a))
           /\ \A k \in 1..10 : ActivationParts(a)[k] \in Bits
<1> DEFINE p == ActivationParts(a)
<1>1. /\ a.procedure \in Handles /\ a.position \in 0..MaxOffset /\ a.network \in References
      /\ a.local \in References /\ a.previous \in References /\ a.result \in Handles
      /\ a.prefix.kind \in Nat /\ PrefixWord(a.prefix) \in Nat
  <2>1. a.prefix.kind \in 0..3 /\ a.prefix.depth \in 0..MaxOffset /\ a.prefix.condition \in BOOLEAN
    BY DEF Activations, RecordPrefixes
  <2>2. PrefixWord(a.prefix) \in Nat
    BY <2>1, HandleNumbers DEF PrefixWord
  <2> QED
    BY <2>1, <2>2 DEF Activations
<1>2. HandleBits \in Nat /\ KindBits \in Nat /\ a.position \in Nat
  BY <1>1, HandleNumbers, FormatsAssumption
<1>3. RecordHeader \in Bits
  BY FormatsAssumption DEF Bits
<1>4. /\ EncodeHandle(a.procedure) \in Bits /\ EncodeHandle(a.result) \in Bits
      /\ UintBits(a.position, HandleBits) \in Bits
      /\ UintBits(a.prefix.kind, KindBits) \in Bits
      /\ UintBits(PrefixWord(a.prefix), HandleBits) \in Bits
      /\ Zeros(HandleBits) \in Bits
  BY <1>1, <1>2, HandleWritten, UintBitsAreBits, ZerosAreBits
<1>5. /\ EncodeRuntimeReference(a.network) \in Bits /\ EncodeRuntimeReference(a.local) \in Bits
      /\ EncodeRuntimeReference(a.previous) \in Bits
  BY <1>1, ReferenceWritten
<1>6. \A k \in 1..10 : p[k] \in Bits
  <2>1. /\ p[1] \in Bits /\ p[2] \in Bits /\ p[3] \in Bits /\ p[4] \in Bits /\ p[5] \in Bits
        /\ p[6] \in Bits /\ p[7] \in Bits /\ p[8] \in Bits /\ p[9] \in Bits /\ p[10] \in Bits
    BY <1>3, <1>4, <1>5 DEF ActivationParts
  <2>2. \A k \in 1..10 : k \in {1, 2, 3, 4, 5, 6, 7, 8, 9, 10}
    OBVIOUS
  <2> HIDE DEF p
  <2> QED
    BY <2>1, <2>2
<1>7. EncodeActivation(a) = Joined10(p)
  BY DEF EncodeActivation, EncodePrefix, PrefixWord, Joined10, ActivationParts
<1> QED
  BY <1>6, <1>7

LEMMA ActivationWritten ==
    ASSUME NEW a \in Activations
    PROVE  EncodeActivation(a) \in Bits
BY PartsOfActivation, Joined10Bits

(* What the fields of a record hold.                                       *)
ActivationValues(a) ==
    <<RecordHeader, a.procedure, a.position, a.network, a.local, a.previous, a.result,
      a.prefix.kind, 0, PrefixWord(a.prefix)>>

(* decode_activation gives back the record that encode_activation wrote.   *)
LEMMA ActivationBack ==
    ASSUME NEW s, NEW c, NEW d, NEW a \in Activations, CanEncodeActivation(a),
           Between(s, c, d, EncodeActivation(a))
    PROVE  DecodeActivation(s, c) = Got(a, d)
<1> DEFINE p == ActivationParts(a)
           v == ActivationValues(a)
<1>1. PICK m : /\ m[0] = c /\ m[10] = d
               /\ \A k \in 1..10 : Between(s, m[k - 1], m[k], p[k])
  <2> HIDE DEF p
  <2>1. EncodeActivation(a) = Joined10(p) /\ \A k \in 1..10 : p[k] \in Bits
    BY PartsOfActivation DEF p
  <2> QED
    BY <2>1, Joined10Stands
<1>2. /\ Between(s, m[0], m[1], RecordHeader)
      /\ Between(s, m[1], m[2], EncodeHandle(a.procedure))
      /\ Between(s, m[2], m[3], UintBits(a.position, HandleBits))
      /\ Between(s, m[3], m[4], EncodeRuntimeReference(a.network))
      /\ Between(s, m[4], m[5], EncodeRuntimeReference(a.local))
      /\ Between(s, m[5], m[6], EncodeRuntimeReference(a.previous))
      /\ Between(s, m[6], m[7], EncodeHandle(a.result))
      /\ Between(s, m[7], m[8], UintBits(a.prefix.kind, KindBits))
      /\ Between(s, m[8], m[9], UintBits(0, HandleBits))
      /\ Between(s, m[9], m[10], UintBits(PrefixWord(a.prefix), HandleBits))
  <2>1. /\ p[1] = RecordHeader /\ p[2] = EncodeHandle(a.procedure)
        /\ p[3] = UintBits(a.position, HandleBits)
        /\ p[4] = EncodeRuntimeReference(a.network) /\ p[5] = EncodeRuntimeReference(a.local)
        /\ p[6] = EncodeRuntimeReference(a.previous) /\ p[7] = EncodeHandle(a.result)
        /\ p[8] = UintBits(a.prefix.kind, KindBits) /\ p[9] = UintBits(0, HandleBits)
        /\ p[10] = UintBits(PrefixWord(a.prefix), HandleBits)
    BY HandleNumbers, ZeroIsZeros DEF ActivationParts
  <2> HIDE DEF p
  <2>2. /\ Between(s, m[1 - 1], m[1], p[1]) /\ Between(s, m[2 - 1], m[2], p[2])
        /\ Between(s, m[3 - 1], m[3], p[3]) /\ Between(s, m[4 - 1], m[4], p[4])
        /\ Between(s, m[5 - 1], m[5], p[5]) /\ Between(s, m[6 - 1], m[6], p[6])
        /\ Between(s, m[7 - 1], m[7], p[7]) /\ Between(s, m[8 - 1], m[8], p[8])
        /\ Between(s, m[9 - 1], m[9], p[9]) /\ Between(s, m[10 - 1], m[10], p[10])
    BY <1>1
  <2> QED
    BY <2>1, <2>2
<1>3. /\ a.procedure \in Handles /\ a.position \in 0..(2^HandleBits - 1)
      /\ a.network \in References /\ a.local \in References /\ a.previous \in References
      /\ a.result \in Handles /\ a.prefix \in RecordPrefixes
      /\ a = [procedure |-> a.procedure, position |-> a.position, network |-> a.network,
              local |-> a.local, previous |-> a.previous, result |-> a.result,
              prefix |-> a.prefix]
  BY DEF Activations, MaxOffset
<1>4. /\ CanEncodeHandle(a.procedure) /\ CanEncodeHandle(a.result)
      /\ CanEncodeRuntimeReference(a.network) /\ CanEncodeRuntimeReference(a.local)
      /\ CanEncodeRuntimeReference(a.previous) /\ CanEncodePrefix(a.prefix)
      /\ Aligned(a.local) /\ a.result.class = Global
  BY DEF CanEncodeActivation
<1>5. /\ a.prefix.kind \in 0..(2^KindBits - 1)
      /\ PrefixWord(a.prefix) \in 0..(2^HandleBits - 1)
      /\ PrefixOK(a.prefix.kind, 0, PrefixWord(a.prefix))
      /\ DecodedPrefix(a.prefix.kind, PrefixWord(a.prefix)) = a.prefix
  BY <1>3, <1>4, PrefixAsWord
<1>6. /\ HandleBits \in 0..Word /\ KindBits \in 0..Word
      /\ 0 \in 0..(2^HandleBits - 1)
  BY HandleNumbers, FormatsAssumption, WordIsNat
<1>7. /\ v[1] = RecordHeader /\ v[2] = a.procedure /\ v[3] = a.position /\ v[4] = a.network
      /\ v[5] = a.local /\ v[6] = a.previous /\ v[7] = a.result /\ v[8] = a.prefix.kind
      /\ v[9] = 0 /\ v[10] = PrefixWord(a.prefix)
  BY DEF ActivationValues
<1> HIDE DEF v, p
<1>8. \A k \in 1..10 : ReadField(s, m[k - 1], ActivationFields[k]) = Got(v[k], m[k])
  <2> DEFINE F == ActivationFields
  <2>1. /\ F[1] = BitsField(Len(RecordHeader)) /\ F[2] = HandleField /\ F[3] = UintField(HandleBits)
        /\ F[4] = ReferenceField /\ F[5] = ReferenceField /\ F[6] = ReferenceField
        /\ F[7] = HandleField /\ F[8] = UintField(KindBits) /\ F[9] = UintField(HandleBits)
        /\ F[10] = UintField(HandleBits)
    BY DEF ActivationFields
  <2> HIDE DEF F
  <2>2. /\ 1 - 1 = 0 /\ 2 - 1 = 1 /\ 3 - 1 = 2 /\ 4 - 1 = 3 /\ 5 - 1 = 4
        /\ 6 - 1 = 5 /\ 7 - 1 = 6 /\ 8 - 1 = 7 /\ 9 - 1 = 8 /\ 10 - 1 = 9
    OBVIOUS
  <2>3. ReadField(s, m[1 - 1], F[1]) = Got(v[1], m[1])
    BY <1>2, <1>7, <2>1, <2>2, FieldReads, BitsBack
  <2>4. ReadField(s, m[2 - 1], F[2]) = Got(v[2], m[2])
    BY <1>2, <1>3, <1>4, <1>7, <2>1, <2>2, NamedFieldReads, HandleBack
  <2>5. ReadField(s, m[3 - 1], F[3]) = Got(v[3], m[3])
    BY <1>2, <1>3, <1>6, <1>7, <2>1, <2>2, FieldReads, UintBack
  <2>6. ReadField(s, m[4 - 1], F[4]) = Got(v[4], m[4])
    BY <1>2, <1>3, <1>4, <1>7, <2>1, <2>2, NamedFieldReads, ReferenceBack
  <2>7. ReadField(s, m[5 - 1], F[5]) = Got(v[5], m[5])
    BY <1>2, <1>3, <1>4, <1>7, <2>1, <2>2, NamedFieldReads, ReferenceBack
  <2>8. ReadField(s, m[6 - 1], F[6]) = Got(v[6], m[6])
    BY <1>2, <1>3, <1>4, <1>7, <2>1, <2>2, NamedFieldReads, ReferenceBack
  <2>9. ReadField(s, m[7 - 1], F[7]) = Got(v[7], m[7])
    BY <1>2, <1>3, <1>4, <1>7, <2>1, <2>2, NamedFieldReads, HandleBack
  <2>10. ReadField(s, m[8 - 1], F[8]) = Got(v[8], m[8])
    BY <1>2, <1>5, <1>6, <1>7, <2>1, <2>2, FieldReads, UintBack, SMTT(20)
  <2>11. ReadField(s, m[9 - 1], F[9]) = Got(v[9], m[9])
    BY <1>2, <1>6, <1>7, <2>1, <2>2, FieldReads, UintBack
  <2>12. ReadField(s, m[10 - 1], F[10]) = Got(v[10], m[10])
    BY <1>2, <1>5, <1>6, <1>7, <2>1, <2>2, FieldReads, UintBack
  <2>13. \A k \in 1..10 : k \in {1, 2, 3, 4, 5, 6, 7, 8, 9, 10}
    OBVIOUS
  <2> QED
    BY <2>3, <2>4, <2>5, <2>6, <2>7, <2>8, <2>9, <2>10, <2>11, <2>12, <2>13 DEF F
<1>9. Len(ActivationFields) = 10 /\ DOMAIN ActivationFields = 1..10
  BY DEF ActivationFields
<1>10. ReadFields(s, c, ActivationFields) = Got([k \in 1..10 |-> v[k]], m[10])
  <2> DEFINE F == ActivationFields
  <2>0. m[0] = c
    BY <1>1
  <2>1. /\ Len(F) \in Nat /\ DOMAIN F = 1..Len(F)
        /\ \A k \in 1..Len(F) :
               IsPlain(F[k]) /\ ReadField(s, m[k - 1], F[k]) = Got(v[k], m[k])
    <3>1. \A k \in 1..10 : k \in {1, 2, 3, 4, 5, 6, 7, 8, 9, 10}
      OBVIOUS
    <3>2. \A k \in 1..10 : IsPlain(F[k])
      BY <3>1, PlainKinds DEF ActivationFields
    <3> HIDE DEF F
    <3> QED
      BY <1>8, <1>9, <3>2 DEF F
  <2> HIDE DEF F
  <2>2. ReadFields(s, c, F) = Got([k \in 1..Len(F) |-> v[k]], m[Len(F)])
    BY ONLY <2>0, <2>1, FieldsReadBack, SMTT(60)
  <2> QED
    BY <1>9, <2>2 DEF F
<1> DEFINE w == [k \in 1..10 |-> v[k]]
<1>11. /\ w[1] = v[1] /\ w[2] = v[2] /\ w[3] = v[3] /\ w[4] = v[4] /\ w[5] = v[5] /\ w[6] = v[6]
       /\ w[7] = v[7] /\ w[8] = v[8] /\ w[9] = v[9] /\ w[10] = v[10]
  OBVIOUS
<1>12. ReadFields(s, c, ActivationFields) = Got(w, d)
  BY <1>1, <1>10
<1> HIDE DEF w
<1>13. LegalActivation(w)
  BY <1>4, <1>5, <1>7, <1>11 DEF LegalActivation
<1>14. ActivationOf(w) = a
  BY <1>3, <1>5, <1>7, <1>11 DEF ActivationOf
<1> QED
  BY <1>12, <1>13, <1>14, ActivationSteps

(* Whatever decode_activation accepts is the encoding of the record it     *)
(* gives; a failure leaves the cursor.                                     *)
LEMMA ActivationMet ==
    ASSUME NEW s \in Bits, NEW c \in 0..Len(s)
    PROVE  \/ DecodeActivation(s, c) = Failed(c)
           \/ \E d : \E a \in Activations : /\ CanEncodeActivation(a)
                                            /\ Between(s, c, d, EncodeActivation(a))
                                            /\ DecodeActivation(s, c) = Got(a, d)
<1> DEFINE F == ActivationFields
           Goal == \/ DecodeActivation(s, c) = Failed(c)
                   \/ \E d : \E a \in Activations : /\ CanEncodeActivation(a)
                                                    /\ Between(s, c, d, EncodeActivation(a))
                                                    /\ DecodeActivation(s, c) = Got(a, d)
<1>1. /\ F[1] = BitsField(Len(RecordHeader)) /\ F[2] = HandleField /\ F[3] = UintField(HandleBits)
      /\ F[4] = ReferenceField /\ F[5] = ReferenceField /\ F[6] = ReferenceField
      /\ F[7] = HandleField /\ F[8] = UintField(KindBits) /\ F[9] = UintField(HandleBits)
      /\ F[10] = UintField(HandleBits)
  BY DEF ActivationFields
<1>2. Len(F) = 10 /\ DOMAIN F = 1..10
  BY DEF ActivationFields
<1>3. HandleBits \in Nat /\ KindBits \in Nat /\ Len(RecordHeader) \in Nat /\ RecordHeader \in Bits
  BY HandleNumbers, FormatsAssumption DEF Bits
<1>4. \A k \in 1..10 : IsField(F[k])
  <2>1. /\ IsField(F[1]) /\ IsField(F[2]) /\ IsField(F[3]) /\ IsField(F[4]) /\ IsField(F[5])
        /\ IsField(F[6]) /\ IsField(F[7]) /\ IsField(F[8]) /\ IsField(F[9]) /\ IsField(F[10])
    <3> HIDE DEF F
    <3> QED
      BY <1>1, <1>3 DEF IsField
  <2>2. \A k \in 1..10 : k \in {1, 2, 3, 4, 5, 6, 7, 8, 9, 10}
    OBVIOUS
  <2> HIDE DEF F
  <2> QED
    BY <2>1, <2>2
<1> HIDE DEF F
<1>5. \/ ReadFields(s, c, F) = Failed(c)
      \/ \E v, m : /\ m[0] = c /\ \A k \in 0..10 : m[k] \in 0..Len(s)
                   /\ \A k \in 1..10 : ReadField(s, m[k - 1], F[k]) = Got(v[k], m[k])
                   /\ ReadFields(s, c, F) = Got([k \in 1..10 |-> v[k]], m[10])
  <2>1. FieldsHere(s, c, F, 10)
    BY <1>2, <1>4, FieldsMet
  <2> QED
    BY <2>1 DEF FieldsHere
<1>6. ReadFields(s, c, F) = Failed(c) => Goal
  BY ActivationSteps DEF F
<1>7. ASSUME NEW v, NEW m, m[0] = c, \A k \in 0..10 : m[k] \in 0..Len(s),
             \A k \in 1..10 : ReadField(s, m[k - 1], F[k]) = Got(v[k], m[k]),
             ReadFields(s, c, F) = Got([k \in 1..10 |-> v[k]], m[10])
      PROVE  Goal
  <2> DEFINE w == [k \in 1..10 |-> v[k]]
  <2>1. /\ w[1] = v[1] /\ w[2] = v[2] /\ w[3] = v[3] /\ w[4] = v[4] /\ w[5] = v[5] /\ w[6] = v[6]
        /\ w[7] = v[7] /\ w[8] = v[8] /\ w[9] = v[9] /\ w[10] = v[10]
    OBVIOUS
  <2>2. DecodeActivation(s, c) =
            IF LegalActivation(w) THEN Got(ActivationOf(w), m[10]) ELSE Failed(c)
    <3>1. ReadFields(s, c, ActivationFields) = Got(w, m[10])
      BY <1>7 DEF F
    <3> HIDE DEF w
    <3> QED
      BY <3>1, ActivationSteps
  <2> HIDE DEF w
  <2>3. CASE ~LegalActivation(w)
    BY <2>2, <2>3
  <2>4. CASE LegalActivation(w)
    <3> DEFINE a == ActivationOf(w)
               p == ActivationParts(a)
    <3>1. /\ m[0] \in 0..Len(s) /\ m[1] \in 0..Len(s) /\ m[2] \in 0..Len(s) /\ m[3] \in 0..Len(s)
          /\ m[4] \in 0..Len(s) /\ m[5] \in 0..Len(s) /\ m[6] \in 0..Len(s)
          /\ m[7] \in 0..Len(s) /\ m[8] \in 0..Len(s) /\ m[9] \in 0..Len(s)
      BY <1>7
    <3>2. /\ ReadField(s, m[0], F[1]) = Got(v[1], m[1])
          /\ ReadField(s, m[1], F[2]) = Got(v[2], m[2])
          /\ ReadField(s, m[2], F[3]) = Got(v[3], m[3])
          /\ ReadField(s, m[3], F[4]) = Got(v[4], m[4])
          /\ ReadField(s, m[4], F[5]) = Got(v[5], m[5])
          /\ ReadField(s, m[5], F[6]) = Got(v[6], m[6])
          /\ ReadField(s, m[6], F[7]) = Got(v[7], m[7])
          /\ ReadField(s, m[7], F[8]) = Got(v[8], m[8])
          /\ ReadField(s, m[8], F[9]) = Got(v[9], m[9])
          /\ ReadField(s, m[9], F[10]) = Got(v[10], m[10])
      <4>1. /\ ReadField(s, m[1 - 1], F[1]) = Got(v[1], m[1])
            /\ ReadField(s, m[2 - 1], F[2]) = Got(v[2], m[2])
            /\ ReadField(s, m[3 - 1], F[3]) = Got(v[3], m[3])
            /\ ReadField(s, m[4 - 1], F[4]) = Got(v[4], m[4])
            /\ ReadField(s, m[5 - 1], F[5]) = Got(v[5], m[5])
            /\ ReadField(s, m[6 - 1], F[6]) = Got(v[6], m[6])
            /\ ReadField(s, m[7 - 1], F[7]) = Got(v[7], m[7])
            /\ ReadField(s, m[8 - 1], F[8]) = Got(v[8], m[8])
            /\ ReadField(s, m[9 - 1], F[9]) = Got(v[9], m[9])
            /\ ReadField(s, m[10 - 1], F[10]) = Got(v[10], m[10])
        BY <1>7
      <4> QED
        BY <4>1
    <3>3. Between(s, m[0], m[1], v[1]) /\ v[1] \in Bits
      <4>1. ReadField(s, m[0], BitsField(Len(RecordHeader))) = Got(v[1], m[1])
        BY <1>1, <3>2
      <4> QED
        BY <1>3, <3>1, <4>1, BitsGot
    <3>4. /\ v[2] \in Handles /\ CanEncodeHandle(v[2]) /\ Between(s, m[1], m[2], EncodeHandle(v[2]))
          /\ v[7] \in Handles /\ CanEncodeHandle(v[7]) /\ Between(s, m[6], m[7], EncodeHandle(v[7]))
      BY <1>1, <3>1, <3>2, HandleGot
    <3>5. v[3] \in 0..(2^HandleBits - 1) /\ Between(s, m[2], m[3], UintBits(v[3], HandleBits))
      BY <1>1, <1>3, <3>1, <3>2, UintGot
    <3>6. /\ v[4] \in References /\ CanEncodeRuntimeReference(v[4])
          /\ Between(s, m[3], m[4], EncodeRuntimeReference(v[4]))
      BY <1>1, <3>1, <3>2, ReferenceGot
    <3>7. /\ v[5] \in References /\ CanEncodeRuntimeReference(v[5])
          /\ Between(s, m[4], m[5], EncodeRuntimeReference(v[5]))
      BY <1>1, <3>1, <3>2, ReferenceGot
    <3>8. /\ v[6] \in References /\ CanEncodeRuntimeReference(v[6])
          /\ Between(s, m[5], m[6], EncodeRuntimeReference(v[6]))
      BY <1>1, <3>1, <3>2, ReferenceGot
    <3>9. v[8] \in 0..(2^KindBits - 1) /\ Between(s, m[7], m[8], UintBits(v[8], KindBits))
      BY <1>1, <1>3, <3>1, <3>2, UintGot
    <3>10. Between(s, m[8], m[9], UintBits(v[9], HandleBits))
      BY <1>1, <1>3, <3>1, <3>2, UintGot
    <3>11. v[10] \in 0..(2^HandleBits - 1) /\ Between(s, m[9], m[10], UintBits(v[10], HandleBits))
      BY <1>1, <1>3, <3>1, <3>2, UintGot
    <3>12. /\ v[1] = RecordHeader /\ Aligned(v[5]) /\ v[7].class = Global
           /\ PrefixOK(v[8], v[9], v[10])
      BY <2>1, <2>4 DEF LegalActivation
    <3>13. v[8] \in Nat
      BY <1>3, <3>9, PowerDoubles
    <3>14. /\ DecodedPrefix(v[8], v[10]) \in RecordPrefixes
           /\ CanEncodePrefix(DecodedPrefix(v[8], v[10]))
           /\ DecodedPrefix(v[8], v[10]).kind = v[8]
           /\ PrefixWord(DecodedPrefix(v[8], v[10])) = v[10] /\ v[9] = 0
      BY <3>11, <3>12, <3>13, WordAsPrefix
    <3>15. a = [procedure |-> v[2], position |-> v[3], network |-> v[4], local |-> v[5],
                previous |-> v[6], result |-> v[7], prefix |-> DecodedPrefix(v[8], v[10])]
      BY <2>1 DEF ActivationOf
    <3>16. v[3] \in 0..MaxOffset
      BY <3>5 DEF MaxOffset
    <3> HIDE DEF a
    <3>17. a \in Activations
      BY <3>4, <3>6, <3>7, <3>8, <3>14, <3>15, <3>16 DEF Activations
    <3>18. /\ a.procedure = v[2] /\ a.position = v[3] /\ a.network = v[4] /\ a.local = v[5]
           /\ a.previous = v[6] /\ a.result = v[7] /\ a.prefix = DecodedPrefix(v[8], v[10])
      BY <3>15
    <3>19. CanEncodeActivation(a)
      BY <3>4, <3>6, <3>7, <3>8, <3>12, <3>14, <3>18 DEF CanEncodeActivation
    <3>20. /\ p[1] = v[1] /\ p[2] = EncodeHandle(v[2]) /\ p[3] = UintBits(v[3], HandleBits)
           /\ p[4] = EncodeRuntimeReference(v[4]) /\ p[5] = EncodeRuntimeReference(v[5])
           /\ p[6] = EncodeRuntimeReference(v[6]) /\ p[7] = EncodeHandle(v[7])
           /\ p[8] = UintBits(v[8], KindBits) /\ p[9] = UintBits(v[9], HandleBits)
           /\ p[10] = UintBits(v[10], HandleBits)
      <4>1. Zeros(HandleBits) = UintBits(v[9], HandleBits)
        BY <1>3, <3>14, ZeroIsZeros
      <4> QED
        BY <3>12, <3>14, <3>18, <4>1 DEF ActivationParts
    <3> HIDE DEF p
    <3>21. \A k \in 1..10 : Between(s, m[k - 1], m[k], p[k])
      <4>1. /\ Between(s, m[1 - 1], m[1], p[1]) /\ Between(s, m[2 - 1], m[2], p[2])
            /\ Between(s, m[3 - 1], m[3], p[3]) /\ Between(s, m[4 - 1], m[4], p[4])
            /\ Between(s, m[5 - 1], m[5], p[5]) /\ Between(s, m[6 - 1], m[6], p[6])
            /\ Between(s, m[7 - 1], m[7], p[7]) /\ Between(s, m[8 - 1], m[8], p[8])
            /\ Between(s, m[9 - 1], m[9], p[9]) /\ Between(s, m[10 - 1], m[10], p[10])
        BY <3>3, <3>4, <3>5, <3>6, <3>7, <3>8, <3>9, <3>10, <3>11, <3>20
      <4>2. \A k \in 1..10 : k \in {1, 2, 3, 4, 5, 6, 7, 8, 9, 10}
        OBVIOUS
      <4> QED
        BY <4>1, <4>2
    <3>22. Between(s, c, m[10], EncodeActivation(a))
      <4>1. EncodeActivation(a) = Joined10(p) /\ \A k \in 1..10 : p[k] \in Bits
        BY <3>17, PartsOfActivation DEF p
      <4> QED
        BY <1>7, <3>21, <4>1, Joined10Made
    <3>23. DecodeActivation(s, c) = Got(a, m[10])
      BY <2>2, <2>4 DEF a
    <3> QED
      BY <3>17, <3>19, <3>22, <3>23
  <2> HIDE DEF Goal
  <2>5. ~LegalActivation(w) => Goal
    BY <2>3 DEF Goal
  <2>6. LegalActivation(w) => Goal
    BY <2>4 DEF Goal
  <2> QED
    BY <2>5, <2>6
<1> HIDE DEF Goal
<1>8. Goal
  BY <1>2, <1>5, <1>6, <1>7
<1> QED
  BY <1>8 DEF Goal

(* Tuples put together.                                                    *)
LEMMA Concatenated ==
    ASSUME NEW T, NEW e \in Seq(T), NEW f \in Seq(T), NEW g \in Seq(T),
           Len(g) = Len(e) + Len(f), \A i \in 1..Len(e) : g[i] = e[i],
           \A i \in 1..Len(f) : g[Len(e) + i] = f[i]
    PROVE  e \o f = g
<1> DEFINE h == e \o f
<1>1. /\ h \in Seq(T) /\ Len(h) = Len(e) + Len(f) /\ \A i \in 1..Len(e) : h[i] = e[i]
      /\ \A i \in 1..Len(f) : h[Len(e) + i] = f[i] /\ Len(e) \in Nat /\ Len(f) \in Nat
  OBVIOUS
<1> HIDE DEF h
<1>2. \A i \in 1..Len(h) : h[i] = g[i]
  <2> SUFFICES ASSUME NEW i \in 1..Len(h) PROVE h[i] = g[i]
    OBVIOUS
  <2>1. CASE i \in 1..Len(e)
    BY <1>1, <2>1
  <2>2. CASE i \notin 1..Len(e)
    <3>1. i - Len(e) \in 1..Len(f) /\ Len(e) + (i - Len(e)) = i
      BY <1>1, <2>2
    <3> QED
      BY <1>1, <3>1
  <2> QED
    BY <2>1, <2>2
<1>3. DOMAIN h = 1..Len(h) /\ DOMAIN g = 1..Len(h)
  BY <1>1
<1>4. h = [i \in 1..Len(h) |-> h[i]] /\ g = [i \in 1..Len(h) |-> g[i]]
  BY <1>1, <1>3
<1> QED
  BY <1>2, <1>4 DEF h

LEMMA Tuples ==
    ASSUME NEW a, NEW b, NEW c, NEW d, NEW e, NEW f
    PROVE  /\ <<a>> \o <<b>> \o <<c, d, e>> = <<a, b, c, d, e>>
           /\ <<a>> \o <<b, c>> \o <<d, e, f>> = <<a, b, c, d, e, f>>
<1> DEFINE T == {a, b, c, d, e, f}
           p1 == <<a>>
           p2 == <<b>>
           p3 == <<a, b>>
           p4 == <<b, c>>
           p5 == <<a, b, c>>
           p6 == <<c, d, e>>
           p7 == <<d, e, f>>
           p8 == <<a, b, c, d, e>>
           p9 == <<a, b, c, d, e, f>>
<1>1. /\ p1 \in Seq(T) /\ p2 \in Seq(T) /\ p3 \in Seq(T) /\ p4 \in Seq(T) /\ p5 \in Seq(T)
      /\ p6 \in Seq(T) /\ p7 \in Seq(T) /\ p8 \in Seq(T) /\ p9 \in Seq(T)
  OBVIOUS
<1>2. /\ Len(p1) = 1 /\ Len(p2) = 1 /\ Len(p3) = 2 /\ Len(p4) = 2 /\ Len(p5) = 3
      /\ Len(p6) = 3 /\ Len(p7) = 3 /\ Len(p8) = 5 /\ Len(p9) = 6
  OBVIOUS
<1>3. /\ p1[1] = a /\ p2[1] = b /\ p3[1] = a /\ p3[1 + 1] = b /\ p4[1] = b /\ p4[2] = c
      /\ p5[1] = a /\ p5[1 + 1] = b /\ p5[1 + 2] = c
      /\ p6[1] = c /\ p6[2] = d /\ p6[3] = e /\ p7[1] = d /\ p7[2] = e /\ p7[3] = f
      /\ p8[1] = a /\ p8[2] = b /\ p8[2 + 1] = c /\ p8[2 + 2] = d /\ p8[2 + 3] = e
      /\ p9[1] = a /\ p9[2] = b /\ p9[3] = c
      /\ p9[3 + 1] = d /\ p9[3 + 2] = e /\ p9[3 + 3] = f
  OBVIOUS
<1>4. /\ p3[2] = b /\ p5[2] = b /\ p5[3] = c
  OBVIOUS
<1>5. /\ \A i \in 1..1 : i = 1
      /\ \A i \in 1..2 : i = 1 \/ i = 2
      /\ \A i \in 1..3 : i = 1 \/ i = 2 \/ i = 3
  OBVIOUS
<1> HIDE DEF T, p1, p2, p3, p4, p5, p6, p7, p8, p9
<1>6. p1 \o p2 = p3
  <2>1. Len(p3) = Len(p1) + Len(p2) /\ \A i \in 1..Len(p1) : p3[i] = p1[i]
    BY <1>2, <1>3, <1>5
  <2>2. \A i \in 1..Len(p2) : p3[Len(p1) + i] = p2[i]
    BY <1>2, <1>3, <1>5
  <2> QED
    BY <1>1, <2>1, <2>2, Concatenated
<1>7. p1 \o p4 = p5
  <2>1. Len(p5) = Len(p1) + Len(p4) /\ \A i \in 1..Len(p1) : p5[i] = p1[i]
    BY <1>2, <1>3, <1>5
  <2>2. \A i \in 1..Len(p4) : p5[Len(p1) + i] = p4[i]
    BY <1>2, <1>3, <1>5
  <2> QED
    BY <1>1, <2>1, <2>2, Concatenated
<1>8. p3 \o p6 = p8
  <2>1. Len(p8) = Len(p3) + Len(p6) /\ \A i \in 1..Len(p3) : p8[i] = p3[i]
    BY <1>2, <1>3, <1>4, <1>5
  <2>2. /\ Len(p3) = 2 /\ Len(p6) = 3
        /\ p8[2 + 1] = p6[1] /\ p8[2 + 2] = p6[2] /\ p8[2 + 3] = p6[3]
    BY <1>2, <1>3
  <2>3. \A i \in 1..Len(p6) : p8[Len(p3) + i] = p6[i]
    BY <1>5, <2>2
  <2>4. p3 \in Seq(T) /\ p6 \in Seq(T) /\ p8 \in Seq(T)
    BY <1>1
  <2> QED
    BY ONLY <2>1, <2>3, <2>4, Concatenated
<1>9. p5 \o p7 = p9
  <2>1. Len(p9) = Len(p5) + Len(p7) /\ \A i \in 1..Len(p5) : p9[i] = p5[i]
    BY <1>2, <1>3, <1>4, <1>5
  <2>2. /\ Len(p5) = 3 /\ Len(p7) = 3
        /\ p9[3 + 1] = p7[1] /\ p9[3 + 2] = p7[2] /\ p9[3 + 3] = p7[3]
    BY <1>2, <1>3
  <2>3. \A i \in 1..Len(p7) : p9[Len(p5) + i] = p7[i]
    BY <1>5, <2>2
  <2>4. p5 \in Seq(T) /\ p7 \in Seq(T) /\ p9 \in Seq(T)
    BY <1>1
  <2> QED
    BY ONLY <2>1, <2>3, <2>4, Concatenated
<1> QED
  BY <1>6, <1>7, <1>8, <1>9 DEF p1, p2, p3, p4, p5, p6, p7, p8, p9

-----------------------------------------------------------------------------
(* Nodes                                                                   *)

NodeFields(type) ==
    IF type = 0
    THEN <<UintField(DataBits), BitsField(ActionBits),
           ReferenceField, ReferenceField, ReferenceField>>
    ELSE <<UintField(DataBits), HandleField,
           ReferenceField, ReferenceField, ReferenceField, ReferenceField>>
LegalNode(type, v) ==
    IF type = 0
    THEN v[1] <= 14 /\ v[2] = Zeros(ActionBits) /\ \A i \in 3..5 : Aligned(v[i])
    ELSE v[1] = 0 /\ ~v[3].null /\ \A i \in 3..6 : Aligned(v[i])
NodeOf(type, v) ==
    IF type = 0 THEN Builtin(v[1], v[3], v[4], v[5]) ELSE Call(v[2], v[3], v[4], v[5], v[6])

LEMMA NodeNumbers ==
    /\ ActionBits \in Nat /\ DataBits \in Nat /\ DataBits \in 0..Word
    /\ 2^DataBits \in Nat /\ 2^DataBits >= 16 /\ NodeBits \in Nat /\ NodeBits > 0
<1>1. DataBits \in Nat /\ DataBits >= 4 /\ DataBits <= Word /\ HandleBits \in Nat
  BY FormatsAssumption, WordIsNat, HandleNumbers
<1>2. 2^(2 + 1) = 2 * 2^2 /\ 2^(3 + 1) = 2 * 2^3
  BY PowerDoubles
<1>3. 2^4 = 16
  BY <1>2, SmallPowers
<1>4. 2^DataBits \in Nat /\ 2^DataBits >= 16
  BY <1>1, <1>3, PowerGrows
<1>5. ActionBits \in Nat
  BY <1>1 DEF ActionBits
<1>6. NodeBits \in Nat /\ NodeBits > 0
  BY <1>1, <1>5 DEF NodeBits
<1> QED
  BY <1>1, <1>4, <1>5, <1>6, WordIsNat

LEMMA NodeSteps ==
    ASSUME NEW s, NEW c
    PROVE  /\ ReadBit(s, c) = Failed(c) => DecodeNode(s, c) = Failed(c)
           /\ \A type \in {0, 1} : \A m : ReadBit(s, c) = Got(type, m) =>
                  /\ ReadFields(s, m, NodeFields(type)) = Failed(m) => DecodeNode(s, c) = Failed(c)
                  /\ \A v, d : ReadFields(s, m, NodeFields(type)) = Got(v, d) =>
                         DecodeNode(s, c) =
                             IF LegalNode(type, v) THEN Got(NodeOf(type, v), d) ELSE Failed(c)
<1> DEFINE x == ReadBit(s, c)
           links == <<ReferenceField, ReferenceField, ReferenceField>>
           action(type) == IF type = 0 THEN <<BitsField(ActionBits)>>
                           ELSE <<HandleField, ReferenceField>>
           fields(type) == <<UintField(DataBits)>> \o action(type) \o links
           Whole(type, v, d) ==
               IF type = 0
               THEN GotIf(v[1] <= 14 /\ v[2] = Zeros(ActionBits) /\ \A i \in 3..5 : Aligned(v[i]),
                          Builtin(v[1], v[3], v[4], v[5]), d)
               ELSE GotIf(v[1] = 0 /\ ~v[3].null /\ \A i \in 3..6 : Aligned(v[i]),
                          Call(v[2], v[3], v[4], v[5], v[6]), d)
           Typed(type, m) ==
               Kept(IF ReadFields(s, m, fields(type)).ok
                    THEN Whole(type, ReadFields(s, m, fields(type)).value,
                               ReadFields(s, m, fields(type)).at)
                    ELSE ReadFields(s, m, fields(type)), m)
<1>1. DecodeNode(s, c) = Kept(IF x.ok THEN Typed(x.value, x.at) ELSE x, c)
  BY DEF DecodeNode, Then
<1>2. \A type \in {0, 1} : fields(type) = NodeFields(type)
  <2> DEFINE a == UintField(DataBits)
             b == BitsField(ActionBits)
             h == HandleField
             r == ReferenceField
  <2>1. /\ fields(0) = <<a>> \o <<b>> \o <<r, r, r>> /\ NodeFields(0) = <<a, b, r, r, r>>
        /\ fields(1) = <<a>> \o <<h, r>> \o <<r, r, r>> /\ NodeFields(1) = <<a, h, r, r, r, r>>
    BY DEF NodeFields
  <2> HIDE DEF a, b, h, r, fields
  <2>2. fields(0) = NodeFields(0)
    BY <2>1, Tuples
  <2>3. fields(1) = NodeFields(1)
    BY <2>1, Tuples
  <2> QED
    BY <2>2, <2>3
<1>3. ASSUME NEW type \in {0, 1}, NEW v, NEW d
      PROVE  Whole(type, v, d) = GotIf(LegalNode(type, v), NodeOf(type, v), d)
  BY DEF LegalNode, NodeOf
<1> HIDE DEF x, fields, Whole
<1>4. x = Failed(c) => DecodeNode(s, c) = Failed(c)
  <2> HIDE DEF Typed
  <2> QED
    BY <1>1, Results2 DEF Kept
<1>5. ASSUME NEW type \in {0, 1}, NEW m, x = Got(type, m)
      PROVE  /\ ReadFields(s, m, NodeFields(type)) = Failed(m) => DecodeNode(s, c) = Failed(c)
             /\ \A v, d : ReadFields(s, m, NodeFields(type)) = Got(v, d) =>
                    DecodeNode(s, c) =
                        IF LegalNode(type, v) THEN Got(NodeOf(type, v), d) ELSE Failed(c)
  <2> DEFINE y == ReadFields(s, m, NodeFields(type))
  <2>1. x.ok /\ x.value = type /\ x.at = m
    BY <1>5, Results2
  <2>2. DecodeNode(s, c) = Kept(Typed(type, m), c)
    <3> HIDE DEF Typed
    <3> QED
      BY <1>1, <2>1
  <2>3. Typed(type, m) = Kept(IF y.ok THEN Whole(type, y.value, y.at) ELSE y, m)
    BY <1>2
  <2> HIDE DEF y, Typed
  <2>4. y = Failed(m) => DecodeNode(s, c) = Failed(c)
    BY <2>2, <2>3, Results2 DEF Kept
  <2>5. ASSUME NEW v, NEW d, y = Got(v, d)
        PROVE  DecodeNode(s, c) =
                   IF LegalNode(type, v) THEN Got(NodeOf(type, v), d) ELSE Failed(c)
    <3>1. y.ok /\ y.value = v /\ y.at = d
      BY <2>5, Results2
    <3>2. Typed(type, m) = Kept(GotIf(LegalNode(type, v), NodeOf(type, v), d), m)
      BY <1>3, <2>3, <3>1
    <3> QED
      BY <2>2, <3>2, Results2 DEF Kept, GotIf
  <2> QED
    BY <2>4, <2>5 DEF y
<1> QED
  BY <1>4, <1>5 DEF x

(* What a node is made of.                                                 *)
NodeHead(n) ==
    IF n.call
    THEN <<1>> \o Zeros(DataBits) \o EncodeHandle(n.procedure) \o EncodeRuntimeReference(n.entry)
    ELSE <<0>> \o UintBits(n.command, DataBits) \o Zeros(ActionBits)
NodeLinks(head, n) ==
    head \o EncodeRuntimeReference(n.next0) \o EncodeRuntimeReference(n.next1)
         \o EncodeRuntimeReference(n.resolver)

(* What follows a record's first part in a stream: its links.              *)
LEMMA NodeParts ==
    ASSUME NEW n \in NetworkNodes
    PROVE  /\ EncodeNode(n) = NodeLinks(NodeHead(n), n)
           /\ EncodeRuntimeReference(n.next0) \in Bits
           /\ EncodeRuntimeReference(n.next1) \in Bits
           /\ EncodeRuntimeReference(n.resolver) \in Bits
           /\ n.call => /\ NodeHead(n) = <<1>> \o Zeros(DataBits) \o EncodeHandle(n.procedure)
                                         \o EncodeRuntimeReference(n.entry)
                        /\ n.procedure \in Handles /\ n.entry \in References
                        /\ EncodeHandle(n.procedure) \in Bits
                        /\ EncodeRuntimeReference(n.entry) \in Bits
           /\ ~n.call => /\ NodeHead(n) = <<0>> \o UintBits(n.command, DataBits)
                                           \o Zeros(ActionBits)
                         /\ n.command \in 0..14 /\ n.command \in 0..(2^DataBits - 1)
                         /\ UintBits(n.command, DataBits) \in Bits
           /\ <<0>> \in Bits /\ <<1>> \in Bits
           /\ Zeros(DataBits) \in Bits /\ Zeros(ActionBits) \in Bits
           /\ Len(Zeros(ActionBits)) = ActionBits
           /\ NodeHead(n) \in Bits
<1>1. n.next0 \in References /\ n.next1 \in References /\ n.resolver \in References
  BY DEF NetworkNodes
<1>2. /\ EncodeRuntimeReference(n.next0) \in Bits
      /\ EncodeRuntimeReference(n.next1) \in Bits
      /\ EncodeRuntimeReference(n.resolver) \in Bits
  BY <1>1, ReferenceWritten
<1>3. /\ <<0>> \in Bits /\ <<1>> \in Bits
      /\ Zeros(DataBits) \in Bits /\ Zeros(ActionBits) \in Bits
      /\ Len(Zeros(ActionBits)) = ActionBits
  BY NodeNumbers, OneBit, ZerosAreBits
<1>4. EncodeNode(n) = NodeLinks(NodeHead(n), n)
  BY DEF EncodeNode, NodeLinks, NodeHead
<1>5. ASSUME n.call
      PROVE  /\ NodeHead(n) = <<1>> \o Zeros(DataBits) \o EncodeHandle(n.procedure)
                              \o EncodeRuntimeReference(n.entry)
             /\ n.procedure \in Handles /\ n.entry \in References
             /\ EncodeHandle(n.procedure) \in Bits
             /\ EncodeRuntimeReference(n.entry) \in Bits
             /\ NodeHead(n) \in Bits
  <2>1. n.procedure \in Handles /\ n.entry \in References
    BY <1>5 DEF NetworkNodes
  <2>2. EncodeHandle(n.procedure) \in Bits /\ EncodeRuntimeReference(n.entry) \in Bits
    BY <2>1, HandleWritten, ReferenceWritten
  <2>3. NodeHead(n) = <<1>> \o Zeros(DataBits) \o EncodeHandle(n.procedure)
                      \o EncodeRuntimeReference(n.entry)
    BY <1>5 DEF NodeHead
  <2>4. NodeHead(n) \in Bits
    BY <1>3, <2>2, <2>3, Joined
  <2> QED
    BY <2>1, <2>2, <2>3, <2>4
<1>6. ASSUME ~n.call
      PROVE  /\ NodeHead(n) = <<0>> \o UintBits(n.command, DataBits) \o Zeros(ActionBits)
             /\ n.command \in 0..14 /\ n.command \in 0..(2^DataBits - 1)
             /\ UintBits(n.command, DataBits) \in Bits
             /\ NodeHead(n) \in Bits
  <2>1. n.command \in 0..14
    BY <1>6 DEF NetworkNodes
  <2>2. n.command \in Nat /\ n.command \in 0..(2^DataBits - 1)
    BY <2>1, NodeNumbers
  <2>3. UintBits(n.command, DataBits) \in Bits
    BY <2>2, NodeNumbers, UintBitsAreBits
  <2>4. NodeHead(n) = <<0>> \o UintBits(n.command, DataBits) \o Zeros(ActionBits)
    BY <1>6 DEF NodeHead
  <2>5. NodeHead(n) \in Bits
    BY <1>3, <2>3, <2>4, Joined
  <2> QED
    BY <2>1, <2>2, <2>3, <2>4, <2>5
<1> QED
  BY <1>2, <1>3, <1>4, <1>5, <1>6

LEMMA LinksBetween ==
    ASSUME NEW s, NEW c, NEW m, NEW m1, NEW m2, NEW d, NEW head, NEW n,
           Between(s, c, m, head), Between(s, m, m1, EncodeRuntimeReference(n.next0)),
           Between(s, m1, m2, EncodeRuntimeReference(n.next1)),
           Between(s, m2, d, EncodeRuntimeReference(n.resolver))
    PROVE  Between(s, c, d, NodeLinks(head, n))
<1> DEFINE x == head \o EncodeRuntimeReference(n.next0)
           y == x \o EncodeRuntimeReference(n.next1)
<1>1. Between(s, c, m1, x)
  BY BetweenJoined
<1> HIDE DEF x
<1>2. Between(s, c, m2, y)
  BY <1>1, BetweenJoined
<1> HIDE DEF y
<1>3. Between(s, c, d, y \o EncodeRuntimeReference(n.resolver))
  BY <1>2, BetweenJoined
<1> QED
  BY <1>3 DEF NodeLinks, x, y

LEMMA LinksSplit ==
    ASSUME NEW s, NEW c, NEW d, NEW head \in Bits, NEW n,
           EncodeRuntimeReference(n.next0) \in Bits, EncodeRuntimeReference(n.next1) \in Bits,
           EncodeRuntimeReference(n.resolver) \in Bits,
           Between(s, c, d, NodeLinks(head, n))
    PROVE  \E m, m1, m2 : /\ Between(s, c, m, head)
                          /\ Between(s, m, m1, EncodeRuntimeReference(n.next0))
                          /\ Between(s, m1, m2, EncodeRuntimeReference(n.next1))
                          /\ Between(s, m2, d, EncodeRuntimeReference(n.resolver))
<1> DEFINE x == head \o EncodeRuntimeReference(n.next0)
           y == x \o EncodeRuntimeReference(n.next1)
<1>1. x \in Bits
  BY Joined
<1>2. y \in Bits
  BY <1>1, Joined
<1>3. Between(s, c, d, y \o EncodeRuntimeReference(n.resolver))
  BY DEF NodeLinks
<1> HIDE DEF y
<1>4. PICK m2 : Between(s, c, m2, y) /\ Between(s, m2, d, EncodeRuntimeReference(n.resolver))
  BY <1>2, <1>3, BetweenSplit
<1>5. Between(s, c, m2, x \o EncodeRuntimeReference(n.next1))
  BY <1>4 DEF y
<1> HIDE DEF x
<1>6. PICK m1 : Between(s, c, m1, x) /\ Between(s, m1, m2, EncodeRuntimeReference(n.next1))
  BY <1>1, <1>5, BetweenSplit
<1>7. Between(s, c, m1, head \o EncodeRuntimeReference(n.next0))
  BY <1>6 DEF x
<1>8. PICK m : Between(s, c, m, head) /\ Between(s, m, m1, EncodeRuntimeReference(n.next0))
  BY <1>7, BetweenSplit
<1> QED
  BY <1>4, <1>6, <1>8

LEMMA ThreeSplit ==
    ASSUME NEW s, NEW c, NEW d, NEW e \in Bits, NEW f \in Bits, NEW g \in Bits,
           Between(s, c, d, e \o f \o g)
    PROVE  \E m1, m2 : Between(s, c, m1, e) /\ Between(s, m1, m2, f) /\ Between(s, m2, d, g)
<1> DEFINE x == e \o f
<1>1. x \in Bits /\ Between(s, c, d, x \o g)
  BY Joined
<1> HIDE DEF x
<1>2. PICK m2 : Between(s, c, m2, x) /\ Between(s, m2, d, g)
  BY <1>1, BetweenSplit
<1>3. Between(s, c, m2, e \o f)
  BY <1>2 DEF x
<1>4. PICK m1 : Between(s, c, m1, e) /\ Between(s, m1, m2, f)
  BY <1>3, BetweenSplit
<1> QED
  BY <1>2, <1>4

LEMMA NodeBack ==
    ASSUME NEW s, NEW c, NEW d, NEW n \in NetworkNodes, CanEncodeNode(n),
           Between(s, c, d, EncodeNode(n))
    PROVE  DecodeNode(s, c) = Got(n, d)
<1>1. PICK m, m1, m2 : /\ Between(s, c, m, NodeHead(n))
                       /\ Between(s, m, m1, EncodeRuntimeReference(n.next0))
                       /\ Between(s, m1, m2, EncodeRuntimeReference(n.next1))
                       /\ Between(s, m2, d, EncodeRuntimeReference(n.resolver))
  BY NodeParts, LinksSplit
<1>2. /\ n.next0 \in References /\ n.next1 \in References /\ n.resolver \in References
      /\ CanEncodeRuntimeReference(n.next0) /\ CanEncodeRuntimeReference(n.next1)
      /\ CanEncodeRuntimeReference(n.resolver)
      /\ Aligned(n.next0) /\ Aligned(n.next1) /\ Aligned(n.resolver)
  BY DEF NetworkNodes, CanEncodeNode
<1>3. /\ ReadField(s, m, ReferenceField) = Got(n.next0, m1)
      /\ ReadField(s, m1, ReferenceField) = Got(n.next1, m2)
      /\ ReadField(s, m2, ReferenceField) = Got(n.resolver, d)
  BY <1>1, <1>2, NamedFieldReads, ReferenceBack
<1>4. DataBits \in 0..Word /\ 0 \in 0..(2^DataBits - 1) /\ DataBits \in Nat /\ ActionBits \in Nat
  BY NodeNumbers
<1>5. CASE n.call
  <2> DEFINE F == NodeFields(1)
             h == EncodeHandle(n.procedure)
             r == EncodeRuntimeReference(n.entry)
             b == <<1>> \o Zeros(DataBits) \o h
  <2>1. /\ NodeHead(n) = b \o r /\ n.procedure \in Handles /\ n.entry \in References
        /\ h \in Bits /\ r \in Bits /\ <<1>> \in Bits /\ Zeros(DataBits) \in Bits
    BY <1>5, NodeParts
  <2>2. b \in Bits
    BY <2>1, Joined
  <2>3. CanEncodeHandle(n.procedure) /\ ~n.entry.null /\ CanEncodeRuntimeReference(n.entry)
        /\ Aligned(n.entry)
    BY <1>5 DEF CanEncodeNode
  <2>4. n = Call(n.procedure, n.entry, n.next0, n.next1, n.resolver)
    BY <1>5 DEF NetworkNodes, Call
  <2>5. PICK k3 : Between(s, c, k3, b) /\ Between(s, k3, m, r)
    <3> HIDE DEF b, r
    <3> QED
      BY <1>1, <2>1, <2>2, BetweenSplit
  <2>6. PICK k1, k2 : /\ Between(s, c, k1, <<1>>) /\ Between(s, k1, k2, Zeros(DataBits))
                      /\ Between(s, k2, k3, h)
    <3> HIDE DEF h
    <3> QED
      BY <2>1, <2>5, ThreeSplit DEF b
  <2>7. ReadBit(s, c) = Got(1, k1)
    BY <2>6, BitBack
  <2>8. ReadField(s, k1, UintField(DataBits)) = Got(0, k2)
    BY <1>4, <2>6, ZeroIsZeros, FieldReads, UintBack
  <2>9. ReadField(s, k2, HandleField) = Got(n.procedure, k3)
    BY <2>1, <2>3, <2>6, NamedFieldReads, HandleBack
  <2>10. ReadField(s, k3, ReferenceField) = Got(n.entry, m)
    BY <2>1, <2>3, <2>5, NamedFieldReads, ReferenceBack
  <2>11. PICK p : /\ p[0] = k1 /\ p[1] = k2 /\ p[2] = k3 /\ p[3] = m /\ p[4] = m1 /\ p[5] = m2
                  /\ p[6] = d
    <3> DEFINE q == [k \in 0..6 |-> CASE k = 0 -> k1 [] k = 1 -> k2 [] k = 2 -> k3 [] k = 3 -> m
                                      [] k = 4 -> m1 [] k = 5 -> m2 [] k = 6 -> d]
    <3>1. /\ q[0] = k1 /\ q[1] = k2 /\ q[2] = k3 /\ q[3] = m /\ q[4] = m1 /\ q[5] = m2
          /\ q[6] = d
      OBVIOUS
    <3> HIDE DEF q
    <3> QED
      BY <3>1
  <2>12. PICK v : /\ v[1] = 0 /\ v[2] = n.procedure /\ v[3] = n.entry /\ v[4] = n.next0
                  /\ v[5] = n.next1 /\ v[6] = n.resolver
    <3> DEFINE q == <<0, n.procedure, n.entry, n.next0, n.next1, n.resolver>>
    <3>1. /\ q[1] = 0 /\ q[2] = n.procedure /\ q[3] = n.entry /\ q[4] = n.next0
          /\ q[5] = n.next1 /\ q[6] = n.resolver
      OBVIOUS
    <3> HIDE DEF q
    <3> QED
      BY <3>1
  <2>13. /\ F[1] = UintField(DataBits) /\ F[2] = HandleField /\ F[3] = ReferenceField
         /\ F[4] = ReferenceField /\ F[5] = ReferenceField /\ F[6] = ReferenceField
         /\ Len(F) = 6 /\ DOMAIN F = 1..6
    BY DEF NodeFields
  <2> HIDE DEF b, h, r, F
  <2>14. \A k \in 1..6 : ReadField(s, p[k - 1], F[k]) = Got(v[k], p[k])
    <3>1. /\ 1 - 1 = 0 /\ 2 - 1 = 1 /\ 3 - 1 = 2 /\ 4 - 1 = 3 /\ 5 - 1 = 4 /\ 6 - 1 = 5
          /\ \A k \in 1..6 : k \in {1, 2, 3, 4, 5, 6}
      OBVIOUS
    <3>2. /\ ReadField(s, p[1 - 1], F[1]) = Got(v[1], p[1])
          /\ ReadField(s, p[2 - 1], F[2]) = Got(v[2], p[2])
          /\ ReadField(s, p[3 - 1], F[3]) = Got(v[3], p[3])
          /\ ReadField(s, p[4 - 1], F[4]) = Got(v[4], p[4])
          /\ ReadField(s, p[5 - 1], F[5]) = Got(v[5], p[5])
          /\ ReadField(s, p[6 - 1], F[6]) = Got(v[6], p[6])
      BY <1>3, <2>8, <2>9, <2>10, <2>11, <2>12, <2>13, <3>1
    <3> QED
      BY <3>1, <3>2
  <2>14a. ReadFields(s, k1, F) = Got([k \in 1..6 |-> v[k]], p[6])
    <3>1. /\ Len(F) \in Nat /\ DOMAIN F = 1..Len(F)
          /\ \A k \in 1..Len(F) :
                 IsPlain(F[k]) /\ ReadField(s, p[k - 1], F[k]) = Got(v[k], p[k])
      <4>1. \A k \in 1..6 : k \in {1, 2, 3, 4, 5, 6}
        OBVIOUS
      <4>2. \A k \in 1..6 : IsPlain(F[k])
        BY <2>13, <4>1, PlainKinds
      <4> QED
        BY <2>13, <2>14, <4>2
    <3>2. p[0] = k1
      BY <2>11
    <3>3. ReadFields(s, k1, F) = Got([k \in 1..Len(F) |-> v[k]], p[Len(F)])
      BY ONLY <3>1, <3>2, FieldsReadBack, SMTT(60)
    <3> QED
      BY <2>13, <3>3
  <2> DEFINE w == [k \in 1..6 |-> v[k]]
  <2>15. /\ w[1] = v[1] /\ w[2] = v[2] /\ w[3] = v[3] /\ w[4] = v[4] /\ w[5] = v[5]
         /\ w[6] = v[6]
    OBVIOUS
  <2>16. ReadFields(s, k1, F) = Got(w, d)
    BY <2>11, <2>14a
  <2> HIDE DEF w
  <2>17. LegalNode(1, w)
    <3>1. \A i \in 3..6 : i \in {3, 4, 5, 6}
      OBVIOUS
    <3> QED
      BY <1>2, <2>3, <2>12, <2>15, <3>1 DEF LegalNode
  <2>18. NodeOf(1, w) = n
    BY <2>4, <2>12, <2>15 DEF NodeOf
  <2> QED
    BY <2>7, <2>16, <2>17, <2>18, NodeSteps DEF F
<1>6. CASE ~n.call
  <2> DEFINE F == NodeFields(0)
             u == UintBits(n.command, DataBits)
  <2>1. /\ NodeHead(n) = <<0>> \o u \o Zeros(ActionBits)
        /\ n.command \in 0..14 /\ n.command \in 0..(2^DataBits - 1)
        /\ u \in Bits /\ <<0>> \in Bits /\ Zeros(ActionBits) \in Bits
        /\ Len(Zeros(ActionBits)) = ActionBits
    BY <1>6, NodeParts
  <2>2. n = Builtin(n.command, n.next0, n.next1, n.resolver)
    BY <1>6 DEF NetworkNodes, Builtin
  <2>3. PICK k1, k2 : /\ Between(s, c, k1, <<0>>) /\ Between(s, k1, k2, u)
                      /\ Between(s, k2, m, Zeros(ActionBits))
    <3> HIDE DEF u
    <3> QED
      BY <1>1, <2>1, ThreeSplit
  <2>4. ReadBit(s, c) = Got(0, k1)
    BY <2>3, BitBack
  <2>5. ReadField(s, k1, UintField(DataBits)) = Got(n.command, k2)
    BY <1>4, <2>1, <2>3, FieldReads, UintBack
  <2>6. ReadField(s, k2, BitsField(ActionBits)) = Got(Zeros(ActionBits), m)
    BY <2>1, <2>3, FieldReads, BitsBack
  <2>7. PICK p : p[0] = k1 /\ p[1] = k2 /\ p[2] = m /\ p[3] = m1 /\ p[4] = m2 /\ p[5] = d
    <3> DEFINE q == [k \in 0..5 |-> CASE k = 0 -> k1 [] k = 1 -> k2 [] k = 2 -> m
                                      [] k = 3 -> m1 [] k = 4 -> m2 [] k = 5 -> d]
    <3>1. q[0] = k1 /\ q[1] = k2 /\ q[2] = m /\ q[3] = m1 /\ q[4] = m2 /\ q[5] = d
      OBVIOUS
    <3> HIDE DEF q
    <3> QED
      BY <3>1
  <2>8. PICK v : /\ v[1] = n.command /\ v[2] = Zeros(ActionBits) /\ v[3] = n.next0
                 /\ v[4] = n.next1 /\ v[5] = n.resolver
    <3> DEFINE q == <<n.command, Zeros(ActionBits), n.next0, n.next1, n.resolver>>
    <3>1. /\ q[1] = n.command /\ q[2] = Zeros(ActionBits) /\ q[3] = n.next0
          /\ q[4] = n.next1 /\ q[5] = n.resolver
      OBVIOUS
    <3> HIDE DEF q
    <3> QED
      BY <3>1
  <2>9. /\ F[1] = UintField(DataBits) /\ F[2] = BitsField(ActionBits) /\ F[3] = ReferenceField
        /\ F[4] = ReferenceField /\ F[5] = ReferenceField
        /\ Len(F) = 5 /\ DOMAIN F = 1..5
    BY DEF NodeFields
  <2> HIDE DEF u, F
  <2>10. \A k \in 1..5 : ReadField(s, p[k - 1], F[k]) = Got(v[k], p[k])
    <3>1. /\ 1 - 1 = 0 /\ 2 - 1 = 1 /\ 3 - 1 = 2 /\ 4 - 1 = 3 /\ 5 - 1 = 4
          /\ \A k \in 1..5 : k \in {1, 2, 3, 4, 5}
      OBVIOUS
    <3>2. /\ ReadField(s, p[1 - 1], F[1]) = Got(v[1], p[1])
          /\ ReadField(s, p[2 - 1], F[2]) = Got(v[2], p[2])
          /\ ReadField(s, p[3 - 1], F[3]) = Got(v[3], p[3])
          /\ ReadField(s, p[4 - 1], F[4]) = Got(v[4], p[4])
          /\ ReadField(s, p[5 - 1], F[5]) = Got(v[5], p[5])
      BY <1>3, <2>5, <2>6, <2>7, <2>8, <2>9, <3>1
    <3> QED
      BY <3>1, <3>2
  <2>10a. ReadFields(s, k1, F) = Got([k \in 1..5 |-> v[k]], p[5])
    <3>1. /\ Len(F) \in Nat /\ DOMAIN F = 1..Len(F)
          /\ \A k \in 1..Len(F) :
                 IsPlain(F[k]) /\ ReadField(s, p[k - 1], F[k]) = Got(v[k], p[k])
      <4>1. \A k \in 1..5 : k \in {1, 2, 3, 4, 5}
        OBVIOUS
      <4>2. \A k \in 1..5 : IsPlain(F[k])
        BY <2>9, <4>1, PlainKinds
      <4> QED
        BY <2>9, <2>10, <4>2
    <3>2. p[0] = k1
      BY <2>7
    <3>3. ReadFields(s, k1, F) = Got([k \in 1..Len(F) |-> v[k]], p[Len(F)])
      BY ONLY <3>1, <3>2, FieldsReadBack, SMTT(60)
    <3> QED
      BY <2>9, <3>3
  <2> DEFINE w == [k \in 1..5 |-> v[k]]
  <2>11. /\ w[1] = v[1] /\ w[2] = v[2] /\ w[3] = v[3] /\ w[4] = v[4] /\ w[5] = v[5]
    OBVIOUS
  <2>12. ReadFields(s, k1, F) = Got(w, d)
    BY <2>7, <2>10a
  <2> HIDE DEF w
  <2>13. LegalNode(0, w)
    <3>1. \A i \in 3..5 : i \in {3, 4, 5}
      OBVIOUS
    <3> QED
      BY <1>2, <2>1, <2>8, <2>11, <3>1 DEF LegalNode
  <2>14. NodeOf(0, w) = n
    BY <2>2, <2>8, <2>11 DEF NodeOf
  <2> QED
    BY <2>4, <2>12, <2>13, <2>14, NodeSteps DEF F
<1> QED
  BY <1>5, <1>6

(* Whatever decode_node accepts is the encoding of the node it gives; a    *)
(* failure leaves the cursor.                                              *)
LEMMA NodeMet ==
    ASSUME NEW s \in Bits, NEW c \in 0..Len(s)
    PROVE  \/ DecodeNode(s, c) = Failed(c)
           \/ \E d : \E n \in NetworkNodes : /\ CanEncodeNode(n)
                                             /\ Between(s, c, d, EncodeNode(n))
                                             /\ DecodeNode(s, c) = Got(n, d)
<1> DEFINE Goal == \/ DecodeNode(s, c) = Failed(c)
                   \/ \E d : \E n \in NetworkNodes : /\ CanEncodeNode(n)
                                                     /\ Between(s, c, d, EncodeNode(n))
                                                     /\ DecodeNode(s, c) = Got(n, d)
<1>1. ReadBit(s, c) = Failed(c) => Goal
  BY NodeSteps
<1>2. ASSUME NEW n \in NetworkNodes, NEW d, CanEncodeNode(n), Between(s, c, d, EncodeNode(n)),
             DecodeNode(s, c) = Got(n, d)
      PROVE  Goal
  BY <1>2
<1>3. DecodeNode(s, c) = Failed(c) => Goal
  OBVIOUS
<1> HIDE DEF Goal
<1>4. DataBits \in Nat /\ ActionBits \in Nat
  BY NodeNumbers
<1>5. ASSUME NEW k1, Between(s, c, k1, << 0 >>), ReadBit(s, c) = Got(0, k1)
      PROVE  Goal
  <2> DEFINE F == NodeFields(0)
  <2>1. /\ F[1] = UintField(DataBits) /\ F[2] = BitsField(ActionBits) /\ F[3] = ReferenceField
        /\ F[4] = ReferenceField /\ F[5] = ReferenceField
        /\ Len(F) = 5 /\ DOMAIN F = 1..5
    BY DEF NodeFields
  <2> HIDE DEF F
  <2>2. \A k \in 1..5 : IsField(F[k])
    <3>1. IsField(F[1]) /\ IsField(F[2]) /\ IsField(F[3]) /\ IsField(F[4]) /\ IsField(F[5])
      BY <1>4, <2>1 DEF IsField
    <3>2. \A k \in 1..5 : k \in {1, 2, 3, 4, 5}
      OBVIOUS
    <3> QED
      BY <3>1, <3>2
  <2>3. k1 \in 0..Len(s)
    BY <1>5, BetweenIn
  <2>4. ReadFields(s, k1, F) = Failed(k1) => Goal
    BY <1>3, <1>5, NodeSteps DEF F
  <2>5. ASSUME NEW v, NEW m, m[0] = k1, \A k \in 0..5 : m[k] \in 0..Len(s),
               \A k \in 1..5 : ReadField(s, m[k - 1], F[k]) = Got(v[k], m[k]),
               ReadFields(s, k1, F) = Got([k \in 1..5 |-> v[k]], m[5])
        PROVE  Goal
    <3> DEFINE w == [k \in 1..5 |-> v[k]]
    <3>1. /\ w[1] = v[1] /\ w[2] = v[2] /\ w[3] = v[3] /\ w[4] = v[4] /\ w[5] = v[5]
      OBVIOUS
    <3>2. DecodeNode(s, c) = IF LegalNode(0, w) THEN Got(NodeOf(0, w), m[5]) ELSE Failed(c)
      <4>1. ReadFields(s, k1, NodeFields(0)) = Got(w, m[5])
        BY <2>5 DEF F
      <4> HIDE DEF w
      <4> QED
        BY <1>5, <4>1, NodeSteps
    <3> HIDE DEF w
    <3>3. CASE ~LegalNode(0, w)
      BY <1>3, <3>2, <3>3
    <3>4. CASE LegalNode(0, w)
      <4> DEFINE n == NodeOf(0, w)
      <4>1. /\ m[0] \in 0..Len(s) /\ m[1] \in 0..Len(s) /\ m[2] \in 0..Len(s)
            /\ m[3] \in 0..Len(s) /\ m[4] \in 0..Len(s)
        BY <2>5
      <4>2. /\ ReadField(s, m[0], F[1]) = Got(v[1], m[1])
            /\ ReadField(s, m[1], F[2]) = Got(v[2], m[2])
            /\ ReadField(s, m[2], F[3]) = Got(v[3], m[3])
            /\ ReadField(s, m[3], F[4]) = Got(v[4], m[4])
            /\ ReadField(s, m[4], F[5]) = Got(v[5], m[5])
        <5>1. /\ ReadField(s, m[1 - 1], F[1]) = Got(v[1], m[1])
              /\ ReadField(s, m[2 - 1], F[2]) = Got(v[2], m[2])
              /\ ReadField(s, m[3 - 1], F[3]) = Got(v[3], m[3])
              /\ ReadField(s, m[4 - 1], F[4]) = Got(v[4], m[4])
              /\ ReadField(s, m[5 - 1], F[5]) = Got(v[5], m[5])
          BY <2>5
        <5> QED
          BY <5>1
      <4>3. v[1] \in 0..(2^DataBits - 1) /\ Between(s, m[0], m[1], UintBits(v[1], DataBits))
        BY <1>4, <2>1, <4>1, <4>2, UintGot
      <4>4. v[2] \in Bits /\ Between(s, m[1], m[2], v[2])
        BY <1>4, <2>1, <4>1, <4>2, BitsGot
      <4>5. /\ v[3] \in References /\ CanEncodeRuntimeReference(v[3])
            /\ Between(s, m[2], m[3], EncodeRuntimeReference(v[3]))
        BY <2>1, <4>1, <4>2, ReferenceGot
      <4>6. /\ v[4] \in References /\ CanEncodeRuntimeReference(v[4])
            /\ Between(s, m[3], m[4], EncodeRuntimeReference(v[4]))
        BY <2>1, <4>1, <4>2, ReferenceGot
      <4>7. /\ v[5] \in References /\ CanEncodeRuntimeReference(v[5])
            /\ Between(s, m[4], m[5], EncodeRuntimeReference(v[5]))
        BY <2>1, <4>1, <4>2, ReferenceGot
      <4>8. /\ v[1] <= 14 /\ v[2] = Zeros(ActionBits)
            /\ Aligned(v[3]) /\ Aligned(v[4]) /\ Aligned(v[5])
        <5>1. w[1] <= 14 /\ w[2] = Zeros(ActionBits) /\ \A i \in 3..5 : Aligned(w[i])
          BY <3>4 DEF LegalNode
        <5>2. 3 \in 3..5 /\ 4 \in 3..5 /\ 5 \in 3..5
          OBVIOUS
        <5> QED
          BY <3>1, <5>1, <5>2
      <4>9. v[1] \in 0..14
        <5>1. v[1] \in 0..(2^DataBits - 1) /\ v[1] <= 14 /\ 2^DataBits \in Nat
          BY <4>3, <4>8, NodeNumbers
        <5> DEFINE x == v[1]
                   q == 2^DataBits
        <5>2. x \in 0..(q - 1) /\ x <= 14 /\ q \in Nat
          BY <5>1
        <5> HIDE DEF x, q
        <5>3. x \in 0..14
          BY <5>2
        <5> QED
          BY <5>3 DEF x
      <4>10. n = [call |-> FALSE, command |-> v[1], next0 |-> v[3], next1 |-> v[4],
                  resolver |-> v[5]]
        BY <3>1 DEF NodeOf, Builtin
      <4> HIDE DEF n
      <4>11. n \in NetworkNodes
        BY <4>5, <4>6, <4>7, <4>9, <4>10 DEF NetworkNodes
      <4>12. /\ n.call = FALSE /\ n.command = v[1] /\ n.next0 = v[3] /\ n.next1 = v[4]
             /\ n.resolver = v[5]
        BY <4>10
      <4>13. CanEncodeNode(n)
        BY <4>5, <4>6, <4>7, <4>8, <4>12 DEF CanEncodeNode
      <4>14. Between(s, c, m[2], NodeHead(n))
        <5>1. NodeHead(n) = <<0>> \o UintBits(v[1], DataBits) \o Zeros(ActionBits)
          BY <4>12 DEF NodeHead
        <5>2. Between(s, c, m[1], <<0>> \o UintBits(v[1], DataBits))
          BY <1>5, <2>5, <4>3, BetweenJoined
        <5> DEFINE b == <<0>> \o UintBits(v[1], DataBits)
        <5> HIDE DEF b
        <5>3. Between(s, c, m[2], b \o Zeros(ActionBits))
          BY <4>4, <4>8, <5>2, BetweenJoined DEF b
        <5> QED
          BY <5>1, <5>3 DEF b
      <4>15. Between(s, c, m[5], EncodeNode(n))
        <5>1. Between(s, c, m[5], NodeLinks(NodeHead(n), n))
          BY <4>5, <4>6, <4>7, <4>12, <4>14, LinksBetween
        <5> QED
          BY <4>11, <5>1, NodeParts
      <4>16. DecodeNode(s, c) = Got(n, m[5])
        BY <3>2, <3>4 DEF n
      <4> QED
        BY <1>2, <4>11, <4>13, <4>15, <4>16
    <3> QED
      BY <3>3, <3>4
  <2>6. \/ ReadFields(s, k1, F) = Failed(k1)
        \/ \E v, m : /\ m[0] = k1 /\ \A k \in 0..5 : m[k] \in 0..Len(s)
                     /\ \A k \in 1..5 : ReadField(s, m[k - 1], F[k]) = Got(v[k], m[k])
                     /\ ReadFields(s, k1, F) = Got([k \in 1..5 |-> v[k]], m[5])
    <3>1. FieldsHere(s, k1, F, 5)
      BY <2>1, <2>2, <2>3, FieldsMet
    <3> QED
      BY <3>1 DEF FieldsHere
  <2> QED
    BY <2>4, <2>5, <2>6
<1>6. ASSUME NEW k1, Between(s, c, k1, << 1 >>), ReadBit(s, c) = Got(1, k1)
      PROVE  Goal
  <2> DEFINE F == NodeFields(1)
  <2>1. /\ F[1] = UintField(DataBits) /\ F[2] = HandleField /\ F[3] = ReferenceField
        /\ F[4] = ReferenceField /\ F[5] = ReferenceField /\ F[6] = ReferenceField
        /\ Len(F) = 6 /\ DOMAIN F = 1..6
    BY DEF NodeFields
  <2> HIDE DEF F
  <2>2. \A k \in 1..6 : IsField(F[k])
    <3>1. /\ IsField(F[1]) /\ IsField(F[2]) /\ IsField(F[3]) /\ IsField(F[4]) /\ IsField(F[5])
          /\ IsField(F[6])
      BY <1>4, <2>1 DEF IsField
    <3>2. \A k \in 1..6 : k \in {1, 2, 3, 4, 5, 6}
      OBVIOUS
    <3> QED
      BY <3>1, <3>2
  <2>3. k1 \in 0..Len(s)
    BY <1>6, BetweenIn
  <2>4. ReadFields(s, k1, F) = Failed(k1) => Goal
    BY <1>3, <1>6, NodeSteps DEF F
  <2>5. ASSUME NEW v, NEW m, m[0] = k1, \A k \in 0..6 : m[k] \in 0..Len(s),
               \A k \in 1..6 : ReadField(s, m[k - 1], F[k]) = Got(v[k], m[k]),
               ReadFields(s, k1, F) = Got([k \in 1..6 |-> v[k]], m[6])
        PROVE  Goal
    <3> DEFINE w == [k \in 1..6 |-> v[k]]
    <3>1. /\ w[1] = v[1] /\ w[2] = v[2] /\ w[3] = v[3] /\ w[4] = v[4] /\ w[5] = v[5]
          /\ w[6] = v[6]
      OBVIOUS
    <3>2. DecodeNode(s, c) = IF LegalNode(1, w) THEN Got(NodeOf(1, w), m[6]) ELSE Failed(c)
      <4>1. ReadFields(s, k1, NodeFields(1)) = Got(w, m[6])
        BY <2>5 DEF F
      <4> HIDE DEF w
      <4> QED
        BY <1>6, <4>1, NodeSteps
    <3> HIDE DEF w
    <3>3. CASE ~LegalNode(1, w)
      BY <1>3, <3>2, <3>3
    <3>4. CASE LegalNode(1, w)
      <4> DEFINE n == NodeOf(1, w)
      <4>1. /\ m[0] \in 0..Len(s) /\ m[1] \in 0..Len(s) /\ m[2] \in 0..Len(s)
            /\ m[3] \in 0..Len(s) /\ m[4] \in 0..Len(s) /\ m[5] \in 0..Len(s)
        BY <2>5
      <4>2. /\ ReadField(s, m[0], F[1]) = Got(v[1], m[1])
            /\ ReadField(s, m[1], F[2]) = Got(v[2], m[2])
            /\ ReadField(s, m[2], F[3]) = Got(v[3], m[3])
            /\ ReadField(s, m[3], F[4]) = Got(v[4], m[4])
            /\ ReadField(s, m[4], F[5]) = Got(v[5], m[5])
            /\ ReadField(s, m[5], F[6]) = Got(v[6], m[6])
        <5>1. /\ ReadField(s, m[1 - 1], F[1]) = Got(v[1], m[1])
              /\ ReadField(s, m[2 - 1], F[2]) = Got(v[2], m[2])
              /\ ReadField(s, m[3 - 1], F[3]) = Got(v[3], m[3])
              /\ ReadField(s, m[4 - 1], F[4]) = Got(v[4], m[4])
              /\ ReadField(s, m[5 - 1], F[5]) = Got(v[5], m[5])
              /\ ReadField(s, m[6 - 1], F[6]) = Got(v[6], m[6])
          BY <2>5
        <5> QED
          BY <5>1
      <4>3. v[1] \in 0..(2^DataBits - 1) /\ Between(s, m[0], m[1], UintBits(v[1], DataBits))
        BY <1>4, <2>1, <4>1, <4>2, UintGot
      <4>4. v[2] \in Handles /\ CanEncodeHandle(v[2]) /\ Between(s, m[1], m[2], EncodeHandle(v[2]))
        BY <2>1, <4>1, <4>2, HandleGot
      <4>5. /\ v[3] \in References /\ CanEncodeRuntimeReference(v[3])
            /\ Between(s, m[2], m[3], EncodeRuntimeReference(v[3]))
        BY <2>1, <4>1, <4>2, ReferenceGot
      <4>6. /\ v[4] \in References /\ CanEncodeRuntimeReference(v[4])
            /\ Between(s, m[3], m[4], EncodeRuntimeReference(v[4]))
        BY <2>1, <4>1, <4>2, ReferenceGot
      <4>7. /\ v[5] \in References /\ CanEncodeRuntimeReference(v[5])
            /\ Between(s, m[4], m[5], EncodeRuntimeReference(v[5]))
        BY <2>1, <4>1, <4>2, ReferenceGot
      <4>8. /\ v[6] \in References /\ CanEncodeRuntimeReference(v[6])
            /\ Between(s, m[5], m[6], EncodeRuntimeReference(v[6]))
        BY <2>1, <4>1, <4>2, ReferenceGot
      <4>9. /\ v[1] = 0 /\ ~v[3].null
            /\ Aligned(v[3]) /\ Aligned(v[4]) /\ Aligned(v[5]) /\ Aligned(v[6])
        <5>1. w[1] = 0 /\ ~w[3].null /\ \A i \in 3..6 : Aligned(w[i])
          BY <3>4 DEF LegalNode
        <5>2. 3 \in 3..6 /\ 4 \in 3..6 /\ 5 \in 3..6 /\ 6 \in 3..6
          OBVIOUS
        <5> QED
          BY <3>1, <5>1, <5>2
      <4>10. n = [call |-> TRUE, procedure |-> v[2], entry |-> v[3], next0 |-> v[4],
                  next1 |-> v[5], resolver |-> v[6]]
        BY <3>1 DEF NodeOf, Call
      <4> HIDE DEF n
      <4>11. n \in NetworkNodes
        BY <4>4, <4>5, <4>6, <4>7, <4>8, <4>10 DEF NetworkNodes
      <4>12. /\ n.call = TRUE /\ n.procedure = v[2] /\ n.entry = v[3] /\ n.next0 = v[4]
             /\ n.next1 = v[5] /\ n.resolver = v[6]
        BY <4>10
      <4>13. CanEncodeNode(n)
        BY <4>4, <4>5, <4>6, <4>7, <4>8, <4>9, <4>12 DEF CanEncodeNode
      <4>14. Between(s, c, m[3], NodeHead(n))
        <5> DEFINE z == <<1>> \o Zeros(DataBits)
                   b == z \o EncodeHandle(v[2])
        <5>1. NodeHead(n) = b \o EncodeRuntimeReference(v[3])
          BY <4>12 DEF NodeHead
        <5>2. Between(s, c, m[1], z)
          BY <1>4, <1>6, <2>5, <4>3, <4>9, ZeroIsZeros, BetweenJoined
        <5> HIDE DEF z
        <5>3. Between(s, c, m[2], b)
          BY <4>4, <5>2, BetweenJoined
        <5> HIDE DEF b
        <5>4. Between(s, c, m[3], b \o EncodeRuntimeReference(v[3]))
          BY <4>5, <5>3, BetweenJoined
        <5> QED
          BY <5>1, <5>4
      <4>15. Between(s, c, m[6], EncodeNode(n))
        <5>1. Between(s, c, m[6], NodeLinks(NodeHead(n), n))
          BY <4>6, <4>7, <4>8, <4>12, <4>14, LinksBetween
        <5> QED
          BY <4>11, <5>1, NodeParts
      <4>16. DecodeNode(s, c) = Got(n, m[6])
        BY <3>2, <3>4 DEF n
      <4> QED
        BY <1>2, <4>11, <4>13, <4>15, <4>16
    <3> QED
      BY <3>3, <3>4
  <2>6. \/ ReadFields(s, k1, F) = Failed(k1)
        \/ \E v, m : /\ m[0] = k1 /\ \A k \in 0..6 : m[k] \in 0..Len(s)
                     /\ \A k \in 1..6 : ReadField(s, m[k - 1], F[k]) = Got(v[k], m[k])
                     /\ ReadFields(s, k1, F) = Got([k \in 1..6 |-> v[k]], m[6])
    <3>1. FieldsHere(s, k1, F, 6)
      BY <2>1, <2>2, <2>3, FieldsMet
    <3> QED
      BY <3>1 DEF FieldsHere
  <2> QED
    BY <2>4, <2>5, <2>6
<1>7. \/ ReadBit(s, c) = Failed(c)
      \/ \E k1 : Between(s, c, k1, <<0>>) /\ ReadBit(s, c) = Got(0, k1)
      \/ \E k1 : Between(s, c, k1, <<1>>) /\ ReadBit(s, c) = Got(1, k1)
  <2>1. \A x \in {0, 1} : x = 0 \/ x = 1
    OBVIOUS
  <2> QED
    BY <2>1, BitMet
<1>8. Goal
  BY <1>1, <1>5, <1>6, <1>7
<1> QED
  BY <1>8 DEF Goal

-----------------------------------------------------------------------------
(* Signed integers                                                         *)

(* A two's complement of twice h numbers and back.                         *)
LEMMA Complement ==
    ASSUME NEW h \in Nat, h > 0, NEW n \in -h..(h - 1)
    PROVE  /\ n % (2 * h) = IF n >= 0 THEN n ELSE n + 2 * h
           /\ n % (2 * h) \in 0..(2 * h - 1)
           /\ (IF n % (2 * h) >= h THEN (n % (2 * h)) - 2 * h ELSE n % (2 * h)) = n
<1>1. CASE n >= 0
  <2>1. n \in Nat /\ n < 2 * h /\ 2 * h \in Nat /\ 2 * h > 0 /\ n < h
    BY <1>1
  <2>2. n % (2 * h) = n
    BY <2>1, Divided
  <2> QED
    BY <1>1, <2>1, <2>2
<1>2. CASE n < 0
  <2>1. n + 2 * h \in Nat /\ n + 2 * h < 2 * h /\ n + 2 * h >= h /\ 2 * h \in Nat /\ 2 * h > 0
    BY <1>2
  <2>2. n % (2 * h) = n + 2 * h
    BY <2>1
  <2> QED
    BY <1>2, <2>1, <2>2
<1> QED
  BY <1>1, <1>2

LEMMA ComplementOf ==
    ASSUME NEW h \in Nat, h > 0, NEW raw \in 0..(2 * h - 1),
           NEW n, n = IF raw >= h THEN raw - 2 * h ELSE raw
    PROVE  n \in -h..(h - 1) /\ n % (2 * h) = raw
<1>1. n \in -h..(h - 1)
  OBVIOUS
<1>2. n % (2 * h) = IF n >= 0 THEN n ELSE n + 2 * h
  BY <1>1, Complement
<1> QED
  BY <1>1, <1>2

\* The number a decoder makes of the w bits it read.
NumberOf(raw, w) == IF w > 0 /\ raw >= 2^(w - 1) THEN raw - 2^w ELSE raw
FitsInt(n, w) == n \in -(2^(w - 1))..(2^(w - 1) - 1)

LEMMA HalfWords ==
    /\ 2^(Word - 1) \in Nat /\ 2^(Word - 1) > 0 /\ 2^Word = 2 * 2^(Word - 1)
    /\ Ints = -(2^(Word - 1))..(2^(Word - 1) - 1) /\ Ints \subseteq Int
    /\ \A w \in 1..Word : /\ 2^(w - 1) \in Nat /\ 2^(w - 1) > 0 /\ 2^w = 2 * 2^(w - 1)
                          /\ 2^(w - 1) <= 2^(Word - 1)
<1>1. \A w \in 1..Word : /\ w - 1 \in Nat /\ Word - 1 \in Nat /\ w - 1 <= Word - 1
                         /\ (w - 1) + 1 = w
  BY WordIsNat
<1>2. \A w \in 1..Word : /\ 2^(w - 1) \in Nat /\ 2^(w - 1) > 0 /\ 2^w = 2 * 2^(w - 1)
                         /\ 2^(w - 1) <= 2^(Word - 1)
  <2> SUFFICES ASSUME NEW w \in 1..Word
               PROVE  /\ 2^(w - 1) \in Nat /\ 2^(w - 1) > 0 /\ 2^w = 2 * 2^(w - 1)
                      /\ 2^(w - 1) <= 2^(Word - 1)
    OBVIOUS
  <2>1. 2^(w - 1) \in Nat /\ 2^(w - 1) > 0 /\ 2^((w - 1) + 1) = 2 * 2^(w - 1)
    BY <1>1, PowerDoubles
  <2>2. 2^(w - 1) <= 2^(Word - 1)
    BY <1>1, PowerGrows
  <2> QED
    BY <1>1, <2>1, <2>2
<1>3. Word \in 1..Word
  BY WordIsNat
<1>4. Ints = -(2^(Word - 1))..(2^(Word - 1) - 1) /\ Ints \subseteq Int
  BY <1>2, <1>3 DEF Ints, Lowest, Highest
<1> QED
  BY <1>2, <1>3, <1>4

LEMMA SignedWidthLeast ==
    ASSUME NEW n \in Ints
    PROVE  /\ SignedWidth(n) \in 0..Word
           /\ n = 0 => SignedWidth(n) = 0
           /\ n # 0 => /\ SignedWidth(n) > 0 /\ FitsInt(n, SignedWidth(n))
                       /\ \A w \in 1..Word : FitsInt(n, w) => SignedWidth(n) <= w
<1>1. CASE n = 0
  BY <1>1, WordIsNat DEF SignedWidth
<1>2. CASE n # 0
  <2> DEFINE S == {w \in 1..Word : FitsInt(n, w)}
  <2>1. SignedWidth(n) = Min(S)
    BY <1>2 DEF SignedWidth, FitsInt
  <2>2. Word \in S /\ S \in SUBSET Nat
    BY HalfWords, WordIsNat DEF FitsInt
  <2>3. Min(S) \in S /\ \A j \in S : Min(S) <= j
    <3> HIDE DEF S
    <3> QED
      BY <2>2, MinOfNumbers
  <2>4. SignedWidth(n) \in 1..Word /\ FitsInt(n, SignedWidth(n))
    BY <2>1, <2>3
  <2>5. \A w \in 1..Word : FitsInt(n, w) => SignedWidth(n) <= w
    BY <2>1, <2>3
  <2> QED
    BY <1>2, <2>4, <2>5
<1> QED
  BY <1>1, <1>2

(* What is written of a number gives the number back.                      *)
LEMMA NumberOfRaw ==
    ASSUME NEW n \in Ints, NEW w, w = SignedWidth(n)
    PROVE  /\ w \in 0..Word /\ n % 2^w \in 0..(2^w - 1) /\ NumberOf(n % 2^w, w) = n
<1>1. w \in 0..Word
  BY SignedWidthLeast
<1>2. CASE n = 0
  <2>1. w = 0 /\ 2^w = 1
    BY <1>2, SignedWidthLeast, PowerOfZero
  <2>2. 0 % 1 = 0
    OBVIOUS
  <2> QED
    BY <1>1, <1>2, <2>1, <2>2 DEF NumberOf
<1>3. CASE n # 0
  <2>1. w \in 1..Word /\ FitsInt(n, w)
    BY <1>1, <1>3, SignedWidthLeast
  <2> DEFINE h == 2^(w - 1)
  <2>2. h \in Nat /\ h > 0 /\ 2^w = 2 * h /\ n \in -h..(h - 1)
    BY <2>1, HalfWords DEF FitsInt
  <2>3. NumberOf(n % 2^w, w) = IF n % 2^w >= h THEN (n % 2^w) - 2^w ELSE n % 2^w
    BY <2>1 DEF NumberOf
  <2> HIDE DEF h
  <2>4. /\ n % (2 * h) \in 0..(2 * h - 1)
        /\ (IF n % (2 * h) >= h THEN (n % (2 * h)) - 2 * h ELSE n % (2 * h)) = n
    BY <2>2, Complement
  <2> QED
    BY <1>1, <2>2, <2>3, <2>4
<1> QED
  BY <1>2, <1>3

(* What a decoder accepts is what is written of the number it makes of it. *)
LEMMA RawOfNumber ==
    ASSUME NEW w \in 0..Word, NEW raw \in 0..(2^w - 1), NEW n, n = NumberOf(raw, w)
    PROVE  n \in Ints /\ n % 2^w = raw
<1>1. CASE w = 0
  <2>1. 2^w = 1 /\ raw = 0 /\ n = 0
    BY <1>1, PowerOfZero DEF NumberOf
  <2>2. 0 % 1 = 0 /\ 0 \in Ints
    BY HalfWords
  <2> QED
    BY <2>1, <2>2
<1>2. CASE w # 0
  <2>1. w \in 1..Word
    BY <1>2
  <2> DEFINE h == 2^(w - 1)
  <2>2. h \in Nat /\ h > 0 /\ 2^w = 2 * h /\ h <= 2^(Word - 1)
    BY <2>1, HalfWords
  <2>3. n = IF raw >= h THEN raw - 2^w ELSE raw
    BY <2>1 DEF NumberOf
  <2> HIDE DEF h
  <2>4. n \in -h..(h - 1) /\ n % (2 * h) = raw
    BY <2>2, <2>3, ComplementOf
  <2>5. n \in Ints
    BY <2>2, <2>4, HalfWords
  <2> QED
    BY <2>2, <2>4, <2>5
<1> QED
  BY <1>1, <1>2

LEMMA VarIntWritten ==
    ASSUME NEW n \in Ints, NEW w, w = SignedWidth(n)
    PROVE  /\ EncodeVarInt(n) \in Bits
           /\ EncodeSize(w) \in Bits /\ UintBits(n % 2^w, w) \in Bits
           /\ EncodeVarInt(n) = EncodeSize(w) \o UintBits(n % 2^w, w)
<1>1. w \in Words /\ w \in Nat /\ n % 2^w \in Nat
  <2>1. w \in 0..Word /\ n % 2^w \in 0..(2^w - 1)
    BY NumberOfRaw
  <2>2. w \in Words /\ w \in Nat
    BY <2>1, WidthsAreWords
  <2>3. 2^w \in Nat
    BY <2>2, PowerDoubles
  <2> QED
    BY <2>1, <2>2, <2>3
<1>2. EncodeSize(w) \in Bits /\ UintBits(n % 2^w, w) \in Bits
  BY <1>1, SizeWritten, UintBitsAreBits
<1>3. EncodeVarInt(n) = EncodeSize(w) \o UintBits(n % 2^w, w)
  BY DEF EncodeVarInt
<1> QED
  BY <1>2, <1>3, Joined

LEMMA VarIntSteps ==
    ASSUME NEW s, NEW c
    PROVE  /\ DecodeSize(s, c) = Failed(c) => DecodeVarInt(s, c) = Failed(c)
           /\ \A w, m : DecodeSize(s, c) = Got(w, m) =>
                  /\ ReadUint(s, m, w) = Failed(m) => DecodeVarInt(s, c) = Failed(c)
                  /\ \A raw, d : ReadUint(s, m, w) = Got(raw, d) =>
                         DecodeVarInt(s, c) =
                             IF SignedWidth(NumberOf(raw, w)) = w THEN Got(NumberOf(raw, w), d)
                             ELSE Failed(c)
<1> DEFINE x == DecodeSize(s, c)
           Minimal(n, w, d) == GotIf(SignedWidth(n) = w, n, d)
           Sized(w, m) == Kept(IF ReadUint(s, m, w).ok
                               THEN Minimal(NumberOf(ReadUint(s, m, w).value, w), w,
                                            ReadUint(s, m, w).at)
                               ELSE ReadUint(s, m, w), m)
<1>1. DecodeVarInt(s, c) = Kept(IF x.ok THEN Sized(x.value, x.at) ELSE x, c)
  BY DEF DecodeVarInt, Then, NumberOf
<1> HIDE DEF x
<1>2. x = Failed(c) => DecodeVarInt(s, c) = Failed(c)
  <2> HIDE DEF Sized
  <2> QED
    BY <1>1, Results2 DEF Kept
<1>3. ASSUME NEW w, NEW m, x = Got(w, m)
      PROVE  /\ ReadUint(s, m, w) = Failed(m) => DecodeVarInt(s, c) = Failed(c)
             /\ \A raw, d : ReadUint(s, m, w) = Got(raw, d) =>
                    DecodeVarInt(s, c) =
                        IF SignedWidth(NumberOf(raw, w)) = w THEN Got(NumberOf(raw, w), d)
                        ELSE Failed(c)
  <2>1. x.ok /\ x.value = w /\ x.at = m
    BY <1>3, Results2
  <2>2. DecodeVarInt(s, c) = Kept(Sized(w, m), c)
    <3> HIDE DEF Sized
    <3> QED
      BY <1>1, <2>1
  <2> DEFINE y == ReadUint(s, m, w)
  <2>3. Sized(w, m) = Kept(IF y.ok THEN Minimal(NumberOf(y.value, w), w, y.at) ELSE y, m)
    OBVIOUS
  <2> HIDE DEF y, Sized
  <2>4. y = Failed(m) => DecodeVarInt(s, c) = Failed(c)
    BY <2>2, <2>3, Results2 DEF Kept
  <2>5. ASSUME NEW raw, NEW d, y = Got(raw, d)
        PROVE  DecodeVarInt(s, c) =
                   IF SignedWidth(NumberOf(raw, w)) = w THEN Got(NumberOf(raw, w), d)
                   ELSE Failed(c)
    <3>1. y.ok /\ y.value = raw /\ y.at = d
      BY <2>5, Results2
    <3> DEFINE n == NumberOf(raw, w)
    <3>2. Sized(w, m) = Kept(GotIf(SignedWidth(n) = w, n, d), m)
      BY <2>3, <3>1
    <3> HIDE DEF n
    <3>3. DecodeVarInt(s, c) = IF SignedWidth(n) = w THEN Got(n, d) ELSE Failed(c)
      BY <2>2, <3>2, Results2 DEF Kept, GotIf
    <3> QED
      BY <3>3 DEF n
  <2> QED
    BY <2>4, <2>5 DEF y
<1> QED
  BY <1>2, <1>3 DEF x

LEMMA VarIntBack ==
    ASSUME NEW s, NEW c, NEW d, NEW n \in Ints, Between(s, c, d, EncodeVarInt(n))
    PROVE  DecodeVarInt(s, c) = Got(n, d)
<1> DEFINE w == SignedWidth(n)
           raw == n % 2^w
<1>1. /\ EncodeSize(w) \in Bits /\ UintBits(raw, w) \in Bits
      /\ EncodeVarInt(n) = EncodeSize(w) \o UintBits(raw, w)
  BY VarIntWritten
<1>2. w \in 0..Word /\ raw \in 0..(2^w - 1) /\ NumberOf(raw, w) = n
  BY NumberOfRaw
<1>3. SignedWidth(NumberOf(raw, w)) = w
  BY <1>2
<1> HIDE DEF raw, w
<1>4. PICK m : Between(s, c, m, EncodeSize(w)) /\ Between(s, m, d, UintBits(raw, w))
  BY <1>1, BetweenSplit
<1>5. w \in Words /\ w \in Nat
  BY <1>2, WidthsAreWords
<1>6. DecodeSize(s, c) = Got(w, m)
  BY <1>4, <1>5, SizeBack
<1>7. ReadUint(s, m, w) = Got(raw, d)
  BY <1>2, <1>4, <1>5, UintBack
<1>8. DecodeVarInt(s, c) = Got(NumberOf(raw, w), d)
  BY <1>3, <1>6, <1>7, VarIntSteps
<1> QED
  BY <1>2, <1>8

LEMMA VarIntMet ==
    ASSUME NEW s \in Bits, NEW c \in 0..Len(s)
    PROVE  \/ DecodeVarInt(s, c) = Failed(c)
           \/ \E d : \E n \in Ints : /\ Between(s, c, d, EncodeVarInt(n))
                                     /\ DecodeVarInt(s, c) = Got(n, d)
<1> DEFINE Goal == \/ DecodeVarInt(s, c) = Failed(c)
                   \/ \E d : \E n \in Ints : /\ Between(s, c, d, EncodeVarInt(n))
                                             /\ DecodeVarInt(s, c) = Got(n, d)
<1>1. DecodeSize(s, c) = Failed(c) => Goal
  BY VarIntSteps
<1>2. ASSUME NEW m, NEW w \in Words, Between(s, c, m, EncodeSize(w)), DecodeSize(s, c) = Got(w, m)
      PROVE  Goal
  <2>1. w \in Nat /\ m \in 0..Len(s)
    BY <1>2, BetweenIn DEF Words
  <2>2. \/ ReadUint(s, m, w) = Failed(m)
        \/ \E d : \E raw \in 0..(2^w - 1) : /\ w <= Word
                                            /\ Between(s, m, d, UintBits(raw, w))
                                            /\ ReadUint(s, m, w) = Got(raw, d)
    BY <2>1, UintMet
  <2>3. ReadUint(s, m, w) = Failed(m) => Goal
    BY <1>2, VarIntSteps
  <2>4. ASSUME NEW d, NEW raw \in 0..(2^w - 1), w <= Word, Between(s, m, d, UintBits(raw, w)),
               ReadUint(s, m, w) = Got(raw, d)
        PROVE  Goal
    <3> DEFINE n == NumberOf(raw, w)
    <3>1. DecodeVarInt(s, c) = IF SignedWidth(n) = w THEN Got(n, d) ELSE Failed(c)
      BY <1>2, <2>4, VarIntSteps
    <3>2. w \in 0..Word
      BY <2>1, <2>4, WidthsAreWords
    <3>3. n \in Ints /\ n % 2^w = raw
      BY <3>2, RawOfNumber
    <3> HIDE DEF n
    <3>4. CASE SignedWidth(n) = w
      <4>1. EncodeVarInt(n) = EncodeSize(w) \o UintBits(raw, w)
        BY <3>3, <3>4, VarIntWritten
      <4>2. Between(s, c, d, EncodeVarInt(n))
        BY <1>2, <2>4, <4>1, BetweenJoined
      <4> QED
        BY <3>1, <3>3, <3>4, <4>2
    <3>5. CASE SignedWidth(n) # w
      BY <3>1, <3>5
    <3> QED
      BY <3>4, <3>5
  <2> HIDE DEF Goal
  <2> QED
    BY <2>2, <2>3, <2>4
<1> HIDE DEF Goal
<1>3. Goal
  BY <1>1, <1>2, SizeMet
<1> QED
  BY <1>3 DEF Goal

-----------------------------------------------------------------------------
(* Floats                                                                  *)

(* Division of integers by a positive number.                              *)
LEMMA DividedInt ==
    ASSUME NEW m \in Int, NEW p \in Nat, p > 0
    PROVE  m \div p \in Int /\ m % p \in 0..(p - 1) /\ m = p * (m \div p) + (m % p)
OBVIOUS

LEMMA Quotient ==
    ASSUME NEW m \in Int, NEW p \in Nat, p > 0, NEW q \in Int, NEW r \in 0..(p - 1),
           m = p * q + r
    PROVE  m \div p = q /\ m % p = r
<1> DEFINE x == m \div p
           y == m % p
<1>1. x \in Int /\ y \in 0..(p - 1) /\ m = p * x + y
  BY DividedInt
<1> HIDE DEF x, y
<1>2. p * (q - x) = y - r
  BY <1>1
<1>3. ASSUME q - x >= 1
      PROVE  FALSE
  <2>1. p * (q - x) >= p
    BY <1>1, <1>3
  <2> QED
    BY <1>1, <1>2, <2>1
<1>4. ASSUME q - x <= -1
      PROVE  FALSE
  <2>1. p * (q - x) <= -p
    BY <1>1, <1>4
  <2> QED
    BY <1>1, <1>2, <2>1
<1>5. q = x
  BY <1>1, <1>3, <1>4
<1>6. y = r
  BY <1>1, <1>5
<1> QED
  BY <1>5, <1>6 DEF x, y

LEMMA Multiple ==
    ASSUME NEW m \in Int, NEW p \in Nat, p > 0
    PROVE  m % p = 0 <=> \E q \in Int : m = p * q
<1>1. m \div p \in Int /\ m = p * (m \div p) + (m % p) /\ m % p \in 0..(p - 1)
  BY DividedInt
<1>2. ASSUME m % p = 0
      PROVE  \E q \in Int : m = p * q
  BY <1>1, <1>2
<1>3. ASSUME NEW q \in Int, m = p * q
      PROVE  m % p = 0
  BY <1>3, Quotient
<1> QED
  BY <1>2, <1>3

(* What is left of a mantissa without its powers of two is odd.            *)
LEMMA TwosOut ==
    ASSUME NEW m \in Ints, m # 0, NEW t, t = Twos(m), NEW q, q = m \div 2^t
    PROVE  /\ t \in 0..(Word - 1) /\ q \in Ints /\ q # 0 /\ q % 2 = 1
           /\ m = 2^t * q
<1> DEFINE S == {k \in 0..(Word - 1) : m % 2^k = 0}
<1>1. m \in Int /\ Word - 1 \in Nat
  BY HalfWords, WordIsNat
<1>2. 0 \in S
  <2>1. m % 1 = 0
    BY <1>1
  <2> QED
    BY <1>1, <2>1, PowerOfZero
<1>3. t \in S /\ \A k \in S : k <= t
  <2>1. S \in SUBSET (0..(Word - 1)) /\ S # {} /\ t = Max(S)
    BY <1>2 DEF Twos
  <2> HIDE DEF S
  <2> QED
    BY <1>1, <2>1, MaxOfNumbers
<1>4. t \in 0..(Word - 1) /\ t \in Nat /\ m % 2^t = 0
  BY <1>1, <1>3
<1> DEFINE p == 2^t
<1>5. p \in Nat /\ p > 0 /\ 2^(t + 1) = 2 * p
  BY <1>4, PowerDoubles
<1>6. q = m \div p /\ m % p = 0
  BY <1>4
<1> HIDE DEF p
<1>7. q \in Int /\ m = p * q
  BY <1>1, <1>5, <1>6, DividedInt
<1>8. q # 0
  BY <1>5, <1>7
<1> DEFINE h == 2^(Word - 1)
<1>9. h \in Nat /\ h > 0 /\ m \in -h..(h - 1)
  BY HalfWords
<1>10. q \in -h..(h - 1)
  <2> HIDE DEF h
  <2>1. CASE q > 0
    <3>1. p * q >= q
      BY <1>5, <1>7, <2>1
    <3> QED
      BY <1>7, <1>9, <2>1, <3>1
  <2>2. CASE q < 0
    <3>1. p * q <= q
      BY <1>5, <1>7, <2>2
    <3> QED
      BY <1>7, <1>9, <2>2, <3>1
  <2> QED
    BY <1>7, <1>8, <2>1, <2>2
<1>11. q \in Ints
  BY <1>10, HalfWords
<1>12. ASSUME q % 2 = 0
       PROVE  FALSE
  <2>1. PICK r \in Int : q = 2 * r
    BY <1>7, <1>12, Multiple
  <2>2. m = (2 * p) * r
    BY <1>5, <1>7, <2>1
  <2>3. m % (2 * p) = 0
    BY <1>1, <1>5, <2>2, Multiple
  <2>4. t + 1 \notin S
    BY <1>3, <1>4
  <2>5. t = Word - 1
    BY <1>1, <1>4, <1>5, <2>3, <2>4
  <2>6. h = p
    BY <2>5 DEF p
  <2> HIDE DEF h
  <2>7. r # 0
    BY <1>8, <2>1
  <2>8. CASE r >= 1
    <3>1. (2 * p) * r >= 2 * p
      BY <1>5, <2>8
    <3> QED
      BY <1>5, <1>9, <2>2, <2>6, <3>1
  <2>9. CASE r <= -1
    <3>1. (2 * p) * r <= -(2 * p)
      BY <1>5, <2>9
    <3> QED
      BY <1>5, <1>9, <2>2, <2>6, <3>1
  <2> QED
    BY <2>7, <2>8, <2>9
<1>13. q % 2 = 1
  <2>1. q % 2 \in 0..1
    BY <1>7
  <2> QED
    BY <1>12, <2>1
<1> QED
  BY <1>4, <1>7, <1>8, <1>11, <1>13 DEF p

LEMMA NoTwos ==
    ASSUME NEW q \in Int, q % 2 = 1
    PROVE  Twos(q) = 0
<1> DEFINE S == {k \in 0..(Word - 1) : q % 2^k = 0}
<1>1. Word - 1 \in Nat
  BY WordIsNat
<1>2. 0 \in S
  <2>1. q % 1 = 0
    OBVIOUS
  <2> QED
    BY <1>1, <2>1, PowerOfZero
<1>3. ASSUME NEW k \in S, k # 0
      PROVE  FALSE
  <2>1. k - 1 \in Nat /\ k = (k - 1) + 1 /\ q % 2^k = 0
    BY <1>1, <1>3
  <2>2. 2^(k - 1) \in Nat /\ 2^(k - 1) > 0 /\ 2^k = 2 * 2^(k - 1)
    BY <2>1, PowerDoubles
  <2>3. 2^k \in Nat /\ 2^k > 0
    BY <2>2
  <2>4. PICK r \in Int : q = 2^k * r
    BY <2>1, <2>3, Multiple
  <2> DEFINE p == 2^(k - 1)
  <2>5. p \in Nat /\ q = (2 * p) * r
    BY <2>2, <2>4
  <2> HIDE DEF p
  <2>6. q = 2 * (p * r) /\ p * r \in Int
    BY <2>5
  <2>7. q % 2 = 0
    BY <2>6, Multiple
  <2> QED
    BY <2>7
<1>4. Max(S) \in S
  <2>1. S \in SUBSET (0..(Word - 1)) /\ S # {}
    BY <1>2
  <2> HIDE DEF S
  <2> QED
    BY <1>1, <2>1, MaxOfNumbers
<1> QED
  BY <1>3, <1>4 DEF Twos

(* Normalizing is done once and for all.                                   *)
LEMMA NormalizedFloat ==
    ASSUME NEW f \in Floats, CanNormalize(f)
    PROVE  /\ Normalized(f) \in Floats
           /\ CanNormalize(Normalized(f)) /\ Normalized(Normalized(f)) = Normalized(f)
<1>1. PICK m \in Ints, e \in Ints : f = [float |-> TRUE, m |-> m, e |-> e]
  BY DEF Floats
<1> DEFINE t == Twos(m)
           q == m \div 2^t
           h == 2^(Word - 1)
<1>2. /\ h \in Nat /\ h > 0 /\ Ints = -h..(h - 1) /\ Highest = h - 1 /\ Word \in Nat
      /\ f.m = m /\ f.e = e
  BY <1>1, HalfWords, WordIsNat DEF Highest
<1>3. CASE m = 0
  <2>1. Normalized(f) = [float |-> TRUE, m |-> 0, e |-> 0]
    BY <1>1, <1>3 DEF Normalized
  <2>2. 0 \in Ints
    BY <1>2
  <2> QED
    BY <2>1, <2>2 DEF Floats, Normalized, CanNormalize
<1>4. CASE m # 0
  <2>1. Normalized(f) = [float |-> TRUE, m |-> q, e |-> e + t]
    BY <1>1, <1>4 DEF Normalized
  <2>2. e + t <= Highest
    BY <1>2, <1>4 DEF CanNormalize
  <2>3. t \in 0..(Word - 1) /\ q \in Ints /\ q # 0 /\ q % 2 = 1
    BY <1>4, TwosOut
  <2> HIDE DEF t, q, h
  <2>4. e + t \in Ints
    BY <1>2, <2>2, <2>3
  <2>5. Twos(q) = 0 /\ q \in Int
    BY <1>2, <2>3, NoTwos
  <2>6. q \div 2^0 = q /\ (e + t) + 0 = e + t
    BY <1>2, <2>4, <2>5, PowerOfZero
  <2> DEFINE g == [float |-> TRUE, m |-> q, e |-> e + t]
  <2>7. g \in Floats
    BY <2>3, <2>4 DEF Floats
  <2>8. CanNormalize(g)
    BY <2>2, <2>3, <2>5, <2>6 DEF CanNormalize
  <2>9. Normalized(g) = g
    BY <2>3, <2>5, <2>6 DEF Normalized
  <2> QED
    BY <2>1, <2>7, <2>8, <2>9
<1> QED
  BY <1>3, <1>4

IsNormal(f) == CanNormalize(f) /\ Normalized(f) = f

LEMMA VarFloatSteps ==
    ASSUME NEW s, NEW c
    PROVE  /\ DecodeVarInt(s, c) = Failed(c) => DecodeVarFloat(s, c) = Failed(c)
           /\ \A m, k : DecodeVarInt(s, c) = Got(m, k) =>
                  /\ DecodeVarInt(s, k) = Failed(k) => DecodeVarFloat(s, c) = Failed(c)
                  /\ \A e, d : DecodeVarInt(s, k) = Got(e, d) =>
                         DecodeVarFloat(s, c) =
                             IF IsNormal(Float(m, e)) THEN Got(Float(m, e), d) ELSE Failed(c)
<1>1. DecodeVarInt(s, c) = Failed(c) => DecodeVarFloat(s, c) = Failed(c)
  BY Results2 DEF DecodeVarFloat, Then, Kept
<1>2. ASSUME NEW m, NEW k, DecodeVarInt(s, c) = Got(m, k), DecodeVarInt(s, k) = Failed(k)
      PROVE  DecodeVarFloat(s, c) = Failed(c)
  BY <1>2, Results2 DEF DecodeVarFloat, Then, Kept
<1>3. ASSUME NEW m, NEW k, DecodeVarInt(s, c) = Got(m, k),
             NEW e, NEW d, DecodeVarInt(s, k) = Got(e, d)
      PROVE  DecodeVarFloat(s, c) =
                 IF IsNormal(Float(m, e)) THEN Got(Float(m, e), d) ELSE Failed(c)
  BY <1>3, Results2 DEF DecodeVarFloat, Then, Kept, GotIf, IsNormal
<1> QED
  BY <1>1, <1>2, <1>3

LEMMA VarFloatWritten ==
    ASSUME NEW f \in Floats, CanNormalize(f)
    PROVE  /\ EncodeVarFloat(f) \in Bits
           /\ Normalized(f).m \in Ints /\ Normalized(f).e \in Ints
           /\ Normalized(f) = Float(Normalized(f).m, Normalized(f).e)
           /\ EncodeVarInt(Normalized(f).m) \in Bits /\ EncodeVarInt(Normalized(f).e) \in Bits
<1> DEFINE g == Normalized(f)
<1>1. g \in Floats
  BY NormalizedFloat
<1>2. EncodeVarFloat(f) = EncodeVarInt(g.m) \o EncodeVarInt(g.e)
  BY DEF EncodeVarFloat
<1> HIDE DEF g
<1>3. g.m \in Ints /\ g.e \in Ints /\ g = Float(g.m, g.e)
  BY <1>1 DEF Floats, Float
<1>4. EncodeVarInt(g.m) \in Bits /\ EncodeVarInt(g.e) \in Bits
  BY <1>3, VarIntWritten
<1> QED
  BY <1>2, <1>3, <1>4, Joined DEF g

LEMMA VarFloatBack ==
    ASSUME NEW s, NEW c, NEW d, NEW f \in Floats, CanNormalize(f),
           Between(s, c, d, EncodeVarFloat(f))
    PROVE  DecodeVarFloat(s, c) = Got(Normalized(f), d)
<1> DEFINE g == Normalized(f)
<1>1. IsNormal(g)
  BY NormalizedFloat DEF IsNormal
<1>2. EncodeVarFloat(f) = EncodeVarInt(g.m) \o EncodeVarInt(g.e)
  BY DEF EncodeVarFloat
<1>3. /\ g.m \in Ints /\ g.e \in Ints /\ g = Float(g.m, g.e)
      /\ EncodeVarInt(g.m) \in Bits /\ EncodeVarInt(g.e) \in Bits
  BY VarFloatWritten
<1> HIDE DEF g
<1>4. PICK k : Between(s, c, k, EncodeVarInt(g.m)) /\ Between(s, k, d, EncodeVarInt(g.e))
  BY <1>2, <1>3, BetweenSplit
<1>5. DecodeVarInt(s, c) = Got(g.m, k) /\ DecodeVarInt(s, k) = Got(g.e, d)
  BY <1>3, <1>4, VarIntBack
<1>6. DecodeVarFloat(s, c) = Got(g, d)
  BY <1>1, <1>3, <1>5, VarFloatSteps
<1> QED
  BY <1>6 DEF g

LEMMA VarFloatMet ==
    ASSUME NEW s \in Bits, NEW c \in 0..Len(s)
    PROVE  \/ DecodeVarFloat(s, c) = Failed(c)
           \/ \E d : \E f \in Floats : /\ IsNormal(f) /\ Between(s, c, d, EncodeVarFloat(f))
                                       /\ DecodeVarFloat(s, c) = Got(f, d)
<1>1. SUFFICES ASSUME NEW k, NEW m \in Ints, Between(s, c, k, EncodeVarInt(m)),
                      DecodeVarInt(s, c) = Got(m, k), DecodeVarFloat(s, c) # Failed(c)
               PROVE  \E d : \E f \in Floats : /\ IsNormal(f)
                                               /\ Between(s, c, d, EncodeVarFloat(f))
                                               /\ DecodeVarFloat(s, c) = Got(f, d)
  BY VarIntMet, VarFloatSteps
<1>2. k \in 0..Len(s)
  BY <1>1, BetweenIn
<1>3. DecodeVarInt(s, k) # Failed(k)
  BY <1>1, VarFloatSteps
<1>4. PICK d, e : /\ e \in Ints /\ Between(s, k, d, EncodeVarInt(e))
                  /\ DecodeVarInt(s, k) = Got(e, d)
  BY <1>2, <1>3, VarIntMet
<1> DEFINE f == Float(m, e)
<1>5. IsNormal(f) /\ DecodeVarFloat(s, c) = Got(f, d)
  BY <1>1, <1>4, VarFloatSteps
<1>6. f \in Floats /\ EncodeVarFloat(f) = EncodeVarInt(m) \o EncodeVarInt(e)
  <2>1. f.m = m /\ f.e = e /\ f \in Floats
    BY <1>4 DEF Float, Floats
  <2> HIDE DEF f
  <2> QED
    BY <1>5, <2>1 DEF EncodeVarFloat, IsNormal
<1>7. Between(s, c, d, EncodeVarFloat(f))
  BY <1>1, <1>4, <1>6, BetweenJoined
<1> QED
  BY <1>5, <1>6, <1>7

-----------------------------------------------------------------------------
(* Values                                                                  *)

LEMMA ValueSteps ==
    ASSUME NEW s, NEW c
    PROVE  /\ ReadBit(s, c) = Failed(c) => DecodeValue(s, c) = Failed(c)
           /\ \A k : ReadBit(s, c) = Got(0, k) =>
                  /\ DecodeVarUint(s, k) = Failed(k) => DecodeValue(s, c) = Failed(c)
                  /\ \A n, d : DecodeVarUint(s, k) = Got(n, d) =>
                         DecodeValue(s, c) = Got(Uint(n), d)
           /\ \A k : ReadBit(s, c) = Got(1, k) =>
                  /\ DecodeVarFloat(s, k) = Failed(k) => DecodeValue(s, c) = Failed(c)
                  /\ \A f, d : DecodeVarFloat(s, k) = Got(f, d) => DecodeValue(s, c) = Got(f, d)
<1>1. ReadBit(s, c) = Failed(c) => DecodeValue(s, c) = Failed(c)
  BY Results2 DEF DecodeValue, Then, Kept
<1>2. ASSUME NEW k, ReadBit(s, c) = Got(0, k)
      PROVE  /\ DecodeVarUint(s, k) = Failed(k) => DecodeValue(s, c) = Failed(c)
             /\ \A n, d : DecodeVarUint(s, k) = Got(n, d) => DecodeValue(s, c) = Got(Uint(n), d)
  BY <1>2, Results2 DEF DecodeValue, Then, Kept
<1>3. ASSUME NEW k, ReadBit(s, c) = Got(1, k)
      PROVE  /\ DecodeVarFloat(s, k) = Failed(k) => DecodeValue(s, c) = Failed(c)
             /\ \A f, d : DecodeVarFloat(s, k) = Got(f, d) => DecodeValue(s, c) = Got(f, d)
  BY <1>3, Results2 DEF DecodeValue, Then, Kept
<1> QED
  BY <1>1, <1>2, <1>3

LEMMA ValueForms ==
    ASSUME NEW v \in Values
    PROVE  \/ \E n \in Words : v = Uint(n) /\ v.n = n /\ v.float = FALSE
           \/ v \in Floats /\ v.float = TRUE
BY DEF Values, WordValues, Floats, Uint

LEMMA ValueWritten ==
    ASSUME NEW v \in Values, CanEncodeValue(v)
    PROVE  EncodeValue(v) \in Bits
<1>1. <<0>> \in Bits /\ <<1>> \in Bits
  BY OneBit
<1>2. ASSUME NEW n \in Words, v = Uint(n)
      PROVE  EncodeValue(v) \in Bits
  <2>1. EncodeValue(v) = <<0>> \o EncodeVarUint(n)
    BY <1>2 DEF EncodeValue, Uint
  <2> QED
    BY <1>1, <2>1, VarUintWritten, Joined
<1>3. ASSUME v \in Floats, v.float = TRUE
      PROVE  EncodeValue(v) \in Bits
  <2>1. EncodeValue(v) = <<1>> \o EncodeVarFloat(v) /\ CanNormalize(v)
    BY <1>3 DEF EncodeValue, CanEncodeValue, CanEncodeFloat
  <2> QED
    BY <1>1, <1>3, <2>1, VarFloatWritten, Joined
<1> QED
  BY <1>2, <1>3, ValueForms

LEMMA ValueBack ==
    ASSUME NEW s, NEW c, NEW d, NEW v \in Values, CanEncodeValue(v),
           Between(s, c, d, EncodeValue(v))
    PROVE  DecodeValue(s, c) = Got(IF v.float THEN Normalized(v) ELSE v, d)
<1>1. <<0>> \in Bits /\ <<1>> \in Bits
  BY OneBit
<1>2. ASSUME NEW n \in Words, v = Uint(n)
      PROVE  DecodeValue(s, c) = Got(v, d) /\ ~v.float
  <2>1. EncodeValue(v) = <<0>> \o EncodeVarUint(n) /\ ~v.float
    BY <1>2 DEF EncodeValue, Uint
  <2>2. PICK k : Between(s, c, k, <<0>>) /\ Between(s, k, d, EncodeVarUint(n))
    BY <1>1, <2>1, VarUintWritten, BetweenSplit
  <2>3. ReadBit(s, c) = Got(0, k) /\ DecodeVarUint(s, k) = Got(n, d)
    BY <2>2, BitBack, VarUintBack
  <2> QED
    BY <1>2, <2>1, <2>3, ValueSteps
<1>3. ASSUME v \in Floats, v.float = TRUE
      PROVE  DecodeValue(s, c) = Got(Normalized(v), d)
  <2>1. EncodeValue(v) = <<1>> \o EncodeVarFloat(v) /\ CanNormalize(v)
    BY <1>3 DEF EncodeValue, CanEncodeValue, CanEncodeFloat
  <2>2. PICK k : Between(s, c, k, <<1>>) /\ Between(s, k, d, EncodeVarFloat(v))
    BY <1>1, <1>3, <2>1, VarFloatWritten, BetweenSplit
  <2>3. ReadBit(s, c) = Got(1, k) /\ DecodeVarFloat(s, k) = Got(Normalized(v), d)
    BY <1>3, <2>1, <2>2, BitBack, VarFloatBack
  <2> QED
    BY <2>3, ValueSteps
<1> QED
  BY <1>2, <1>3, ValueForms

LEMMA ValueMet ==
    ASSUME NEW s \in Bits, NEW c \in 0..Len(s)
    PROVE  \/ DecodeValue(s, c) = Failed(c)
           \/ \E d : \E v \in Values : /\ CanEncodeValue(v) /\ Between(s, c, d, EncodeValue(v))
                                       /\ DecodeValue(s, c) = Got(v, d)
<1>1. SUFFICES ASSUME NEW k, NEW x \in {0, 1}, Between(s, c, k, <<x>>),
                      ReadBit(s, c) = Got(x, k), DecodeValue(s, c) # Failed(c)
               PROVE  \E d : \E v \in Values : /\ CanEncodeValue(v)
                                               /\ Between(s, c, d, EncodeValue(v))
                                               /\ DecodeValue(s, c) = Got(v, d)
  BY BitMet, ValueSteps
<1>2. k \in 0..Len(s)
  BY <1>1, BetweenIn
<1>3. CASE x = 0
  <2>1. DecodeVarUint(s, k) # Failed(k)
    BY <1>1, <1>3, ValueSteps
  <2>2. PICK d, n : /\ n \in Words /\ Between(s, k, d, EncodeVarUint(n))
                    /\ DecodeVarUint(s, k) = Got(n, d)
    BY <1>2, <2>1, VarUintMet
  <2>3. /\ EncodeValue(Uint(n)) = <<0>> \o EncodeVarUint(n)
        /\ Uint(n) \in Values /\ CanEncodeValue(Uint(n))
    BY <2>2 DEF EncodeValue, Uint, Values, WordValues, CanEncodeValue
  <2>4. Between(s, c, d, EncodeValue(Uint(n)))
    BY <1>1, <1>3, <2>2, <2>3, BetweenJoined
  <2>5. DecodeValue(s, c) = Got(Uint(n), d)
    BY <1>1, <1>3, <2>2, ValueSteps
  <2> QED
    BY <2>3, <2>4, <2>5
<1>4. CASE x = 1
  <2>1. DecodeVarFloat(s, k) # Failed(k)
    BY <1>1, <1>4, ValueSteps
  <2>2. PICK d, f : /\ f \in Floats /\ IsNormal(f) /\ Between(s, k, d, EncodeVarFloat(f))
                    /\ DecodeVarFloat(s, k) = Got(f, d)
    BY <1>2, <2>1, VarFloatMet
  <2>3. /\ EncodeValue(f) = <<1>> \o EncodeVarFloat(f)
        /\ f \in Values /\ CanEncodeValue(f)
    <3>1. f.float = TRUE
      BY <2>2 DEF Floats
    <3> QED
      BY <2>2, <3>1 DEF EncodeValue, Values, CanEncodeValue, CanEncodeFloat, IsNormal
  <2>4. Between(s, c, d, EncodeValue(f))
    BY <1>1, <1>4, <2>2, <2>3, BetweenJoined
  <2>5. DecodeValue(s, c) = Got(f, d)
    BY <1>1, <1>4, <2>2, ValueSteps
  <2> QED
    BY <2>3, <2>4, <2>5
<1> QED
  BY <1>3, <1>4

-----------------------------------------------------------------------------
(* Operands                                                                *)

LEMMA TwoBits ==
    /\ 2 \in 0..Word /\ 1 \in 0..Word /\ 2 \in Nat /\ 2^2 - 1 = 3 /\ 2^1 - 1 = 1
    /\ \A n \in 0..3 : UintBits(n, 2) \in Bits
    /\ \A n \in 0..1 : UintBits(n, 1) \in Bits /\ UintBits(n, 1) = <<n>>
<1>1. 2 \in 0..Word /\ 1 \in 0..Word
  BY FormatsAssumption, WordIsNat
<1>2. 2^2 - 1 = 3 /\ 2^1 - 1 = 1
  BY SmallPowers
<1>3. \A n \in 0..3 : UintBits(n, 2) \in Bits /\ UintBits(n, 1) \in Bits
  BY UintBitsAreBits
<1>4. \A n \in 0..1 : UintBits(n, 1) = <<n>>
  <2> SUFFICES ASSUME NEW n \in 0..1
               PROVE  UintBits(n, 1) = <<n>>
    OBVIOUS
  <2>1. UintBits(n, 1) = [i \in 1..1 |-> (n \div 2^(1 - i)) % 2]
    BY DEF UintBits
  <2>2. (n \div 2^(1 - 1)) % 2 = n
    BY PowerOfZero
  <2>3. \A i \in 1..1 : (n \div 2^(1 - i)) % 2 = n
    BY <2>2
  <2> QED
    BY <2>1, <2>3
<1> QED
  BY <1>1, <1>2, <1>3, <1>4

LEMMA ClassMet ==
    ASSUME NEW s \in Bits, NEW c \in 0..Len(s)
    PROVE  \/ ReadUint(s, c, 2) = Failed(c)
           \/ \E d : \E n \in 0..3 :
                 Between(s, c, d, UintBits(n, 2)) /\ ReadUint(s, c, 2) = Got(n, d)
BY UintMet, TwoBits

LEMMA ClassBack ==
    ASSUME NEW s, NEW c, NEW d, NEW n \in 0..3, Between(s, c, d, UintBits(n, 2))
    PROVE  ReadUint(s, c, 2) = Got(n, d)
<1>1. 2 \in 0..Word /\ n \in 0..(2^2 - 1)
  BY TwoBits
<1> QED
  BY <1>1, UintBack

LEMMA SelectorSteps ==
    ASSUME NEW s, NEW c
    PROVE  /\ ReadUint(s, c, 2) = Failed(c) => DecodeSelector(s, c) = Failed(c)
           /\ \A k : ReadUint(s, c, 2) = Got(Procedure, k) =>
                  DecodeSelector(s, c) = Got([class |-> Procedure, name |-> <<>>], k)
           /\ \A x, k : ReadUint(s, c, 2) = Got(x, k) /\ x # Procedure =>
                  /\ DecodeBitString(s, k) = Failed(k) => DecodeSelector(s, c) = Failed(c)
                  /\ \A b, d : DecodeBitString(s, k) = Got(b, d) =>
                         DecodeSelector(s, c) = Got([class |-> x, name |-> b], d)
<1>1. ReadUint(s, c, 2) = Failed(c) => DecodeSelector(s, c) = Failed(c)
  BY Results2 DEF DecodeSelector, Then, Kept
<1>2. ASSUME NEW k, ReadUint(s, c, 2) = Got(Procedure, k)
      PROVE  DecodeSelector(s, c) = Got([class |-> Procedure, name |-> <<>>], k)
  BY <1>2, Results2 DEF DecodeSelector, Then, Kept
<1>3. ASSUME NEW x, NEW k, ReadUint(s, c, 2) = Got(x, k), x # Procedure
      PROVE  /\ DecodeBitString(s, k) = Failed(k) => DecodeSelector(s, c) = Failed(c)
             /\ \A b, d : DecodeBitString(s, k) = Got(b, d) =>
                    DecodeSelector(s, c) = Got([class |-> x, name |-> b], d)
  BY <1>3, Results2 DEF DecodeSelector, Then, Kept
<1> QED
  BY <1>1, <1>2, <1>3

LEMMA SelectorForms ==
    ASSUME NEW x \in Selectors
    PROVE  \/ /\ x = [class |-> Procedure, name |-> <<>>] /\ x.class = Procedure
              /\ EncodeSelector(x) = UintBits(0, 2)
           \/ /\ x.class \in 1..3 /\ x.class # Procedure /\ x.name \in BitStrings
              /\ x = [class |-> x.class, name |-> x.name]
              /\ EncodeSelector(x) = UintBits(x.class, 2) \o EncodeBitString(x.name)
<1>1. CASE x = [class |-> Procedure, name |-> <<>>]
  <2>1. x.class = Procedure
    BY <1>1
  <2>2. UintBits(0, 2) \in Bits
    BY TwoBits
  <2>3. UintBits(0, 2) \o <<>> = UintBits(0, 2)
    BY <2>2 DEF Bits
  <2> QED
    BY <1>1, <2>1, <2>3 DEF EncodeSelector, Procedure
<1>2. CASE x \in [class : 1..3, name : BitStrings]
  BY <1>2 DEF EncodeSelector, Procedure
<1> QED
  BY <1>1, <1>2 DEF Selectors

LEMMA SelectorWritten ==
    ASSUME NEW x \in Selectors
    PROVE  EncodeSelector(x) \in Bits
<1>1. CASE EncodeSelector(x) = UintBits(0, 2)
  BY <1>1, TwoBits
<1>2. CASE /\ x.class \in 1..3 /\ x.name \in BitStrings
           /\ EncodeSelector(x) = UintBits(x.class, 2) \o EncodeBitString(x.name)
  <2>1. x.class \in 0..3
    BY <1>2
  <2>2. UintBits(x.class, 2) \in Bits /\ EncodeBitString(x.name) \in Bits
    BY <1>2, <2>1, TwoBits, BitStringWritten
  <2> QED
    BY <1>2, <2>2, Joined
<1> QED
  BY <1>1, <1>2, SelectorForms

LEMMA SelectorBack ==
    ASSUME NEW s, NEW c, NEW d, NEW x \in Selectors, Between(s, c, d, EncodeSelector(x))
    PROVE  DecodeSelector(s, c) = Got(x, d)
<1>1. CASE /\ x = [class |-> Procedure, name |-> <<>>]
           /\ EncodeSelector(x) = UintBits(0, 2)
  <2>1. ReadUint(s, c, 2) = Got(Procedure, d)
    BY <1>1, ClassBack DEF Procedure
  <2> QED
    BY <1>1, <2>1, SelectorSteps
<1>2. CASE /\ x.class \in 1..3 /\ x.class # Procedure /\ x.name \in BitStrings
           /\ x = [class |-> x.class, name |-> x.name]
           /\ EncodeSelector(x) = UintBits(x.class, 2) \o EncodeBitString(x.name)
  <2>1. PICK k : Between(s, c, k, UintBits(x.class, 2)) /\ Between(s, k, d, EncodeBitString(x.name))
    BY <1>2, TwoBits, BitStringWritten, BetweenSplit
  <2>2. ReadUint(s, c, 2) = Got(x.class, k) /\ DecodeBitString(s, k) = Got(x.name, d)
    BY <1>2, <2>1, ClassBack, BitStringBack
  <2>3. DecodeSelector(s, c) = Got([class |-> x.class, name |-> x.name], d)
    BY <1>2, <2>2, SelectorSteps
  <2> QED
    BY <1>2, <2>3
<1> QED
  BY <1>1, <1>2, SelectorForms

LEMMA SelectorMet ==
    ASSUME NEW s \in Bits, NEW c \in 0..Len(s)
    PROVE  \/ DecodeSelector(s, c) = Failed(c)
           \/ \E d : \E x \in Selectors : /\ Between(s, c, d, EncodeSelector(x))
                                          /\ DecodeSelector(s, c) = Got(x, d)
<1>1. SUFFICES ASSUME NEW k, NEW n \in 0..3, Between(s, c, k, UintBits(n, 2)),
                      ReadUint(s, c, 2) = Got(n, k), DecodeSelector(s, c) # Failed(c)
               PROVE  \E d : \E x \in Selectors : /\ Between(s, c, d, EncodeSelector(x))
                                                  /\ DecodeSelector(s, c) = Got(x, d)
  BY ClassMet, SelectorSteps
<1>2. k \in 0..Len(s)
  BY <1>1, BetweenIn
<1>3. CASE n = Procedure
  <2> DEFINE x == [class |-> Procedure, name |-> <<>>]
  <2>1. x \in Selectors /\ x.class = Procedure
    BY DEF Selectors
  <2>2. DecodeSelector(s, c) = Got(x, k)
    BY <1>1, <1>3, SelectorSteps
  <2> HIDE DEF x
  <2>3. EncodeSelector(x) = UintBits(n, 2)
    BY <1>3, <2>1, SelectorForms DEF Procedure
  <2> QED
    BY <1>1, <2>1, <2>2, <2>3
<1>4. CASE n # Procedure
  <2>1. DecodeBitString(s, k) # Failed(k)
    BY <1>1, <1>4, SelectorSteps
  <2>2. PICK d, b : /\ b \in BitStrings /\ Between(s, k, d, EncodeBitString(b))
                    /\ DecodeBitString(s, k) = Got(b, d)
    BY <1>2, <2>1, BitStringMet
  <2> DEFINE x == [class |-> n, name |-> b]
  <2>3. x \in Selectors /\ EncodeSelector(x) = UintBits(n, 2) \o EncodeBitString(b)
    BY <1>4, <2>2 DEF Selectors, EncodeSelector, Procedure
  <2>4. DecodeSelector(s, c) = Got(x, d)
    BY <1>1, <1>4, <2>2, SelectorSteps
  <2> HIDE DEF x
  <2>5. Between(s, c, d, EncodeSelector(x))
    BY <1>1, <2>2, <2>3, BetweenJoined
  <2> QED
    BY <2>3, <2>4, <2>5
<1> QED
  BY <1>3, <1>4

LEMMA AddressSteps ==
    ASSUME NEW s, NEW c
    PROVE  /\ DecodeSelector(s, c) = Failed(c) => DecodeAddress(s, c) = Failed(c)
           /\ \A x, k : DecodeSelector(s, c) = Got(x, k) =>
                  /\ DecodeSize(s, k) = Failed(k) => DecodeAddress(s, c) = Failed(c)
                  /\ \A n, d : DecodeSize(s, k) = Got(n, d) =>
                         DecodeAddress(s, c) = Got([selector |-> x, offset |-> n], d)
<1>1. DecodeSelector(s, c) = Failed(c) => DecodeAddress(s, c) = Failed(c)
  BY Results2 DEF DecodeAddress, Then, Kept
<1>2. ASSUME NEW x, NEW k, DecodeSelector(s, c) = Got(x, k)
      PROVE  /\ DecodeSize(s, k) = Failed(k) => DecodeAddress(s, c) = Failed(c)
             /\ \A n, d : DecodeSize(s, k) = Got(n, d) =>
                    DecodeAddress(s, c) = Got([selector |-> x, offset |-> n], d)
  BY <1>2, Results2 DEF DecodeAddress, Then, Kept
<1> QED
  BY <1>1, <1>2

LEMMA AddressForm ==
    ASSUME NEW a \in Addresses
    PROVE  /\ a = [selector |-> a.selector, offset |-> a.offset]
           /\ a.selector \in Selectors /\ a.offset \in Words
           /\ EncodeAddress(a) = EncodeSelector(a.selector) \o EncodeSize(a.offset)
           /\ EncodeSelector(a.selector) \in Bits /\ EncodeSize(a.offset) \in Bits
           /\ EncodeAddress(a) \in Bits
<1>1. /\ a = [selector |-> a.selector, offset |-> a.offset]
      /\ a.selector \in Selectors /\ a.offset \in Words
  BY DEF Addresses
<1>2. EncodeSelector(a.selector) \in Bits /\ EncodeSize(a.offset) \in Bits
  BY <1>1, SelectorWritten, SizeWritten
<1> QED
  BY <1>1, <1>2, Joined DEF EncodeAddress

LEMMA AddressBack ==
    ASSUME NEW s, NEW c, NEW d, NEW a \in Addresses, Between(s, c, d, EncodeAddress(a))
    PROVE  DecodeAddress(s, c) = Got(a, d)
<1>1. PICK k : /\ Between(s, c, k, EncodeSelector(a.selector))
               /\ Between(s, k, d, EncodeSize(a.offset))
  BY AddressForm, BetweenSplit
<1>2. DecodeSelector(s, c) = Got(a.selector, k) /\ DecodeSize(s, k) = Got(a.offset, d)
  BY <1>1, AddressForm, SelectorBack, SizeBack
<1>3. DecodeAddress(s, c) = Got([selector |-> a.selector, offset |-> a.offset], d)
  BY <1>2, AddressSteps
<1> QED
  BY <1>3, AddressForm

LEMMA AddressMet ==
    ASSUME NEW s \in Bits, NEW c \in 0..Len(s)
    PROVE  \/ DecodeAddress(s, c) = Failed(c)
           \/ \E d : \E a \in Addresses : /\ Between(s, c, d, EncodeAddress(a))
                                          /\ DecodeAddress(s, c) = Got(a, d)
<1>1. SUFFICES ASSUME NEW k, NEW x \in Selectors, Between(s, c, k, EncodeSelector(x)),
                      DecodeSelector(s, c) = Got(x, k), DecodeAddress(s, c) # Failed(c)
               PROVE  \E d : \E a \in Addresses : /\ Between(s, c, d, EncodeAddress(a))
                                                  /\ DecodeAddress(s, c) = Got(a, d)
  BY SelectorMet, AddressSteps
<1>2. k \in 0..Len(s) /\ DecodeSize(s, k) # Failed(k)
  BY <1>1, BetweenIn, AddressSteps
<1>3. PICK d, n : n \in Words /\ Between(s, k, d, EncodeSize(n)) /\ DecodeSize(s, k) = Got(n, d)
  BY <1>2, SizeMet
<1> DEFINE a == [selector |-> x, offset |-> n]
<1>4. a \in Addresses /\ EncodeAddress(a) = EncodeSelector(x) \o EncodeSize(n)
  BY <1>3 DEF Addresses, EncodeAddress
<1>5. DecodeAddress(s, c) = Got(a, d)
  BY <1>1, <1>3, AddressSteps
<1> HIDE DEF a
<1>6. Between(s, c, d, EncodeAddress(a))
  BY <1>1, <1>3, <1>4, BetweenJoined
<1> QED
  BY <1>4, <1>5, <1>6

ForeignFields == <<SizeField, UintField(1), NameField, SizeField>>
ForeignOf(v) == Foreign(v[1], v[2], v[3], v[4])

LEMMA OperandSteps ==
    ASSUME NEW s, NEW c
    PROVE  /\ ReadUint(s, c, 2) = Failed(c) => DecodeReference(s, c) = Failed(c)
           /\ \A k : ReadUint(s, c, 2) = Got(0, k) =>
                  /\ DecodeVarUint(s, k) = Failed(k) => DecodeReference(s, c) = Failed(c)
                  /\ \A n, d : DecodeVarUint(s, k) = Got(n, d) =>
                         DecodeReference(s, c) = Got(Immediate(n), d)
           /\ \A k : \A x \in {1, 2} : ReadUint(s, c, 2) = Got(x, k) =>
                  /\ DecodeAddress(s, k) = Failed(k) => DecodeReference(s, c) = Failed(c)
                  /\ \A a, d : DecodeAddress(s, k) = Got(a, d) =>
                         DecodeReference(s, c) = Got([mode |-> x, address |-> a], d)
           /\ \A k : ReadUint(s, c, 2) = Got(3, k) =>
                  /\ ReadFields(s, k, ForeignFields) = Failed(k) =>
                         DecodeReference(s, c) = Failed(c)
                  /\ \A v, d : ReadFields(s, k, ForeignFields) = Got(v, d) =>
                         DecodeReference(s, c) = Got(ForeignOf(v), d)
<1>1. ReadUint(s, c, 2) = Failed(c) => DecodeReference(s, c) = Failed(c)
  BY Results2, SMTT(30) DEF DecodeReference, Then, Kept
<1> DEFINE AddressOf(x, a) == IF x = 1 THEN Indirect(a) ELSE Direct(a)
           Typed(x, k) ==
               CASE x = 0 ->
                      Then(DecodeVarUint(s, k), k, LAMBDA n, end : Got(Immediate(n), end))
                 [] x \in {1, 2} ->
                      Then(DecodeAddress(s, k), k, LAMBDA a, end : Got(AddressOf(x, a), end))
                 [] x = 3 ->
                      Then(ReadFields(s, k, ForeignFields), k,
                           LAMBDA v, end : Got(Foreign(v[1], v[2], v[3], v[4]), end))
<1>2. ASSUME NEW x, NEW k, ReadUint(s, c, 2) = Got(x, k)
      PROVE  DecodeReference(s, c) = Kept(Typed(x, k), c)
  <2>1. Got(x, k).ok /\ Got(x, k).value = x /\ Got(x, k).at = k
    BY Results2
  <2> QED
    BY ONLY <1>2, <2>1 DEF DecodeReference, Then, ForeignFields
<1>3. ASSUME NEW k
      PROVE  /\ DecodeVarUint(s, k) = Failed(k) => Typed(0, k) = Failed(k)
             /\ \A n, d : DecodeVarUint(s, k) = Got(n, d) => Typed(0, k) = Got(Immediate(n), d)
  <2>1. Typed(0, k) = Then(DecodeVarUint(s, k), k, LAMBDA n, end : Got(Immediate(n), end))
    OBVIOUS
  <2> QED
    BY <2>1, Results2 DEF Then, Kept
<1>4. ASSUME NEW k, NEW x \in {1, 2}
      PROVE  /\ DecodeAddress(s, k) = Failed(k) => Typed(x, k) = Failed(k)
             /\ \A a, d : DecodeAddress(s, k) = Got(a, d) =>
                    Typed(x, k) = Got([mode |-> x, address |-> a], d)
  <2>2. \A a : AddressOf(x, a) = [mode |-> x, address |-> a]
    BY DEF Indirect, Direct
  <2> HIDE DEF AddressOf
  <2>1. Typed(x, k) = Then(DecodeAddress(s, k), k, LAMBDA a, end : Got(AddressOf(x, a), end))
    BY x # 0 /\ x # 3
  <2> HIDE DEF Typed
  <2> QED
    BY <2>1, <2>2, Results2 DEF Then, Kept
<1>5. ASSUME NEW k
      PROVE  /\ ReadFields(s, k, ForeignFields) = Failed(k) => Typed(3, k) = Failed(k)
             /\ \A v, d : ReadFields(s, k, ForeignFields) = Got(v, d) =>
                    Typed(3, k) = Got(ForeignOf(v), d)
  <2>1. Typed(3, k) = Then(ReadFields(s, k, ForeignFields), k,
                           LAMBDA v, end : Got(ForeignOf(v), end))
    BY DEF ForeignOf
  <2> HIDE DEF Typed
  <2> QED
    BY <2>1, Results2 DEF Then, Kept
<1> HIDE DEF Typed
<1>6. ASSUME NEW x, NEW k, ReadUint(s, c, 2) = Got(x, k)
      PROVE  /\ Typed(x, k) = Failed(k) => DecodeReference(s, c) = Failed(c)
             /\ \A v, d : Typed(x, k) = Got(v, d) => DecodeReference(s, c) = Got(v, d)
  BY <1>2, <1>6, Results2 DEF Kept
<1>7. ASSUME NEW k, ReadUint(s, c, 2) = Got(0, k)
      PROVE  /\ DecodeVarUint(s, k) = Failed(k) => DecodeReference(s, c) = Failed(c)
             /\ \A n, d : DecodeVarUint(s, k) = Got(n, d) =>
                    DecodeReference(s, c) = Got(Immediate(n), d)
  BY <1>3, <1>6, <1>7
<1>8. ASSUME NEW k, NEW x \in {1, 2}, ReadUint(s, c, 2) = Got(x, k)
      PROVE  /\ DecodeAddress(s, k) = Failed(k) => DecodeReference(s, c) = Failed(c)
             /\ \A a, d : DecodeAddress(s, k) = Got(a, d) =>
                    DecodeReference(s, c) = Got([mode |-> x, address |-> a], d)
  BY <1>4, <1>6, <1>8
<1>9. ASSUME NEW k, ReadUint(s, c, 2) = Got(3, k)
      PROVE  /\ ReadFields(s, k, ForeignFields) = Failed(k) => DecodeReference(s, c) = Failed(c)
             /\ \A v, d : ReadFields(s, k, ForeignFields) = Got(v, d) =>
                    DecodeReference(s, c) = Got(ForeignOf(v), d)
  BY <1>5, <1>6, <1>9
<1> QED
  BY <1>1, <1>7, <1>8, <1>9

LEMMA ForeignNumbers ==
    /\ Len(ForeignFields) = 4 /\ DOMAIN ForeignFields = 1..4
    /\ ForeignFields[1] = SizeField /\ ForeignFields[2] = UintField(1)
    /\ ForeignFields[3] = NameField /\ ForeignFields[4] = SizeField
    /\ \A k \in 1..4 : IsField(ForeignFields[k]) /\ IsPlain(ForeignFields[k])
<1>1. \A k \in 1..4 : k \in {1, 2, 3, 4}
  OBVIOUS
<1>2. 1 \in Nat
  OBVIOUS
<1>3. \A k \in 1..4 : IsField(ForeignFields[k])
  BY <1>1, <1>2 DEF ForeignFields, IsField
<1> QED
  BY <1>3, FieldIsPlain DEF ForeignFields

\* The four forms of a reference, with what is written of each.
ForeignForm(r) ==
    /\ r = Foreign(r.depth, r.indirect, r.name, r.offset) /\ r.mode = 3
    /\ r.depth \in Words /\ r.indirect \in 0..1 /\ r.name \in BitStrings /\ r.offset \in Words
    /\ EncodeReference(r) =
           UintBits(3, 2) \o (EncodeSize(r.depth) \o <<r.indirect>> \o EncodeBitString(r.name)
                              \o EncodeSize(r.offset))

OperandForm(r) ==
    \/ /\ r = Immediate(r.n) /\ r.mode = 0 /\ r.n \in Words
       /\ EncodeReference(r) = UintBits(0, 2) \o EncodeVarUint(r.n)
    \/ /\ r = [mode |-> r.mode, address |-> r.address]
       /\ r.mode \in {1, 2} /\ r.address \in Addresses
       /\ EncodeReference(r) = UintBits(r.mode, 2) \o EncodeAddress(r.address)
    \/ ForeignForm(r)

LEMMA OperandForms ==
    ASSUME NEW r \in OperandReferences
    PROVE  OperandForm(r)
<1>1. CASE r \in [mode : {0}, n : Words]
  BY <1>1 DEF OperandForm, EncodeReference, Immediate
<1>2. CASE r \in [mode : {1, 2}, address : Addresses]
  BY <1>2 DEF OperandForm, EncodeReference
<1>3. CASE r \in [mode : {3}, depth : Words, indirect : {0, 1}, name : BitStrings, offset : Words]
  <2>1. /\ r.mode = 3 /\ r.depth \in Words /\ r.indirect \in {0, 1}
        /\ r.name \in BitStrings /\ r.offset \in Words
    BY <1>3
  <2>2. r = Foreign(r.depth, r.indirect, r.name, r.offset)
    BY <1>3, <2>1 DEF Foreign
  <2>3. r.indirect \in 0..1
    BY <2>1
  <2>4. EncodeReference(r) =
            UintBits(3, 2) \o (EncodeSize(r.depth) \o <<r.indirect>> \o EncodeBitString(r.name)
                               \o EncodeSize(r.offset))
    BY <2>1, SMTT(30) DEF EncodeReference
  <2>5. r.mode = 3
    BY <2>1
  <2> QED
    BY ONLY <2>1, <2>2, <2>3, <2>4, <2>5 DEF OperandForm, ForeignForm
<1> QED
  BY <1>1, <1>2, <1>3 DEF OperandReferences

LEMMA ForeignWritten ==
    ASSUME NEW r, r.depth \in Words, r.indirect \in 0..1, r.name \in BitStrings, r.offset \in Words
    PROVE  /\ EncodeSize(r.depth) \in Bits /\ << r.indirect >> \in Bits
           /\ EncodeSize(r.depth) \o << r.indirect >> \in Bits
           /\ EncodeBitString(r.name) \in Bits /\ EncodeSize(r.offset) \in Bits
           /\ EncodeSize(r.depth) \o << r.indirect >> \o EncodeBitString(r.name) \in Bits
           /\ EncodeSize(r.depth) \o << r.indirect >> \o EncodeBitString(r.name)
              \o EncodeSize(r.offset) \in Bits
<1>1. /\ EncodeSize(r.depth) \in Bits /\ << r.indirect >> \in Bits
      /\ EncodeBitString(r.name) \in Bits /\ EncodeSize(r.offset) \in Bits
  <2>1. r.indirect \in {0, 1}
    OBVIOUS
  <2> QED
    BY <2>1, SizeWritten, OneBit, BitStringWritten
<1>2. EncodeSize(r.depth) \o << r.indirect >> \in Bits
  BY <1>1, Joined
<1>3. EncodeSize(r.depth) \o << r.indirect >> \o EncodeBitString(r.name) \in Bits
  BY <1>1, <1>2, Joined
<1> QED
  BY <1>1, <1>2, <1>3, Joined

LEMMA OperandWritten ==
    ASSUME NEW r \in OperandReferences
    PROVE  EncodeReference(r) \in Bits
<1>1. CASE r.n \in Words /\ EncodeReference(r) = UintBits(0, 2) \o EncodeVarUint(r.n)
  BY <1>1, TwoBits, VarUintWritten, Joined
<1>2. CASE /\ r.mode \in {1, 2} /\ r.address \in Addresses
           /\ EncodeReference(r) = UintBits(r.mode, 2) \o EncodeAddress(r.address)
  <2>1. r.mode \in 0..3
    BY <1>2
  <2>2. UintBits(r.mode, 2) \in Bits /\ EncodeAddress(r.address) \in Bits
    BY <1>2, <2>1, TwoBits, AddressForm
  <2> QED
    BY <1>2, <2>2, Joined
<1>3. CASE /\ r.depth \in Words /\ r.indirect \in 0..1 /\ r.name \in BitStrings
           /\ r.offset \in Words
           /\ EncodeReference(r) =
                  UintBits(3, 2) \o (EncodeSize(r.depth) \o <<r.indirect>>
                                     \o EncodeBitString(r.name) \o EncodeSize(r.offset))
  BY <1>3, TwoBits, ForeignWritten, Joined
<1> QED
  BY <1>1, <1>2, <1>3, OperandForms DEF OperandForm, ForeignForm

LEMMA ForeignBack ==
    ASSUME NEW s, NEW c, NEW d, NEW r,
           r.depth \in Words, r.indirect \in 0..1, r.name \in BitStrings, r.offset \in Words,
           Between(s, c, d, EncodeSize(r.depth) \o << r.indirect >> \o EncodeBitString(r.name)
                            \o EncodeSize(r.offset))
    PROVE  \E v : /\ ReadFields(s, c, ForeignFields) = Got(v, d)
                  /\ ForeignOf(v) = Foreign(r.depth, r.indirect, r.name, r.offset)
<1> DEFINE F == ForeignFields
<1>1. PICK m3 : /\ Between(s, c, m3, EncodeSize(r.depth) \o << r.indirect >>
                                     \o EncodeBitString(r.name))
                /\ Between(s, m3, d, EncodeSize(r.offset))
  BY ForeignWritten, BetweenSplit
<1>2. PICK m2 : /\ Between(s, c, m2, EncodeSize(r.depth) \o << r.indirect >>)
                /\ Between(s, m2, m3, EncodeBitString(r.name))
  BY <1>1, ForeignWritten, BetweenSplit
<1>3. PICK m1 : /\ Between(s, c, m1, EncodeSize(r.depth))
                /\ Between(s, m1, m2, << r.indirect >>)
  BY <1>2, ForeignWritten, BetweenSplit
<1>4. UintBits(r.indirect, 1) = << r.indirect >> /\ 1 \in 0..Word /\ r.indirect \in 0..(2^1 - 1)
  BY TwoBits
<1> DEFINE p == [k \in 0..4 |-> CASE k = 0 -> c [] k = 1 -> m1 [] k = 2 -> m2
                                  [] k = 3 -> m3 [] k = 4 -> d]
           v == <<r.depth, r.indirect, r.name, r.offset>>
<1>5. /\ p[0] = c /\ p[1] = m1 /\ p[2] = m2 /\ p[3] = m3 /\ p[4] = d
      /\ v[1] = r.depth /\ v[2] = r.indirect /\ v[3] = r.name /\ v[4] = r.offset
  OBVIOUS
<1>6. v = [k \in 1..4 |-> v[k]]
  OBVIOUS
<1> HIDE DEF v, p, F
<1>7. /\ ReadField(s, p[0], F[1]) = Got(v[1], p[1])
      /\ ReadField(s, p[1], F[2]) = Got(v[2], p[2])
      /\ ReadField(s, p[2], F[3]) = Got(v[3], p[3])
      /\ ReadField(s, p[3], F[4]) = Got(v[4], p[4])
  <2>1. ReadField(s, p[0], F[1]) = Got(v[1], p[1])
    BY <1>3, <1>5, ForeignNumbers, NamedFieldReads, SizeBack DEF F
  <2>2. ReadField(s, p[1], F[2]) = Got(v[2], p[2])
    <3>1. ReadUint(s, m1, 1) = Got(r.indirect, m2)
      BY <1>3, <1>4, UintBack
    <3> QED
      BY <3>1, <1>5, ForeignNumbers, FieldReads DEF F
  <2>3. ReadField(s, p[2], F[3]) = Got(v[3], p[3])
    BY <1>2, <1>5, ForeignNumbers, NamedFieldReads, BitStringBack DEF F
  <2>4. ReadField(s, p[3], F[4]) = Got(v[4], p[4])
    BY <1>1, <1>5, ForeignNumbers, NamedFieldReads, SizeBack DEF F
  <2> QED
    BY <2>1, <2>2, <2>3, <2>4
<1>8. /\ Len(F) = 4 /\ DOMAIN F = 1..4
      /\ \A k \in 1..4 : IsPlain(F[k]) /\ ReadField(s, p[k - 1], F[k]) = Got(v[k], p[k])
  <2>1. \A k \in 1..4 : k \in {1, 2, 3, 4}
    OBVIOUS
  <2>2. 1 - 1 = 0 /\ 2 - 1 = 1 /\ 3 - 1 = 2 /\ 4 - 1 = 3
    OBVIOUS
  <2>3. \A k \in 1..4 : ReadField(s, p[k - 1], F[k]) = Got(v[k], p[k])
    BY <1>7, <2>1, <2>2
  <2> QED
    BY <2>3, ForeignNumbers DEF F
<1>9. ReadFields(s, c, F) = Got([k \in 1..Len(F) |-> v[k]], p[Len(F)])
  <2>1. p[0] = c /\ Len(F) \in Nat /\ DOMAIN F = 1..Len(F)
    BY <1>5, <1>8
  <2>2. \A k \in 1..Len(F) : IsPlain(F[k]) /\ ReadField(s, p[k - 1], F[k]) = Got(v[k], p[k])
    BY <1>8
  <2> QED
    BY ONLY <2>1, <2>2, FieldsReadBack, SMTT(60)
<1>10. ReadFields(s, c, F) = Got(v, d)
  BY <1>5, <1>6, <1>8, <1>9
<1> QED
  BY <1>5, <1>10 DEF ForeignOf, F

LEMMA OperandBack ==
    ASSUME NEW s, NEW c, NEW d, NEW r \in OperandReferences, Between(s, c, d, EncodeReference(r))
    PROVE  DecodeReference(s, c) = Got(r, d)
<1>1. CASE /\ r = Immediate(r.n) /\ r.mode = 0 /\ r.n \in Words
           /\ EncodeReference(r) = UintBits(0, 2) \o EncodeVarUint(r.n)
  <2>1. PICK m : Between(s, c, m, UintBits(0, 2)) /\ Between(s, m, d, EncodeVarUint(r.n))
    BY <1>1, TwoBits, VarUintWritten, BetweenSplit
  <2>2. ReadUint(s, c, 2) = Got(0, m)
    BY <2>1, ClassBack
  <2>3. DecodeVarUint(s, m) = Got(r.n, d)
    BY <1>1, <2>1, VarUintBack
  <2> QED
    BY <1>1, <2>2, <2>3, OperandSteps
<1>2. CASE /\ r = [mode |-> r.mode, address |-> r.address]
           /\ r.mode \in {1, 2} /\ r.address \in Addresses
           /\ EncodeReference(r) = UintBits(r.mode, 2) \o EncodeAddress(r.address)
  <2>1. r.mode \in 0..3
    BY <1>2
  <2>2. UintBits(r.mode, 2) \in Bits /\ EncodeAddress(r.address) \in Bits
    BY <1>2, <2>1, TwoBits, AddressForm
  <2>3. PICK m : Between(s, c, m, UintBits(r.mode, 2)) /\ Between(s, m, d, EncodeAddress(r.address))
    BY <1>2, <2>2, BetweenSplit
  <2>4. ReadUint(s, c, 2) = Got(r.mode, m)
    BY <2>1, <2>3, ClassBack
  <2>5. DecodeAddress(s, m) = Got(r.address, d)
    BY <1>2, <2>3, AddressBack
  <2> QED
    BY <1>2, <2>4, <2>5, OperandSteps
<1>3. CASE /\ r = Foreign(r.depth, r.indirect, r.name, r.offset)
           /\ r.depth \in Words /\ r.indirect \in 0..1 /\ r.name \in BitStrings
           /\ r.offset \in Words
           /\ EncodeReference(r) =
                  UintBits(3, 2) \o (EncodeSize(r.depth) \o <<r.indirect>>
                                     \o EncodeBitString(r.name) \o EncodeSize(r.offset))
  <2> DEFINE e == EncodeSize(r.depth) \o <<r.indirect>> \o EncodeBitString(r.name)
                  \o EncodeSize(r.offset)
  <2>1. e \in Bits /\ UintBits(3, 2) \in Bits /\ EncodeReference(r) = UintBits(3, 2) \o e
    BY <1>3, ForeignWritten, TwoBits
  <2> HIDE DEF e
  <2>2. PICK m : Between(s, c, m, UintBits(3, 2)) /\ Between(s, m, d, e)
    BY <2>1, BetweenSplit
  <2>3. ReadUint(s, c, 2) = Got(3, m)
    BY <2>2, ClassBack
  <2>4. \E v : ReadFields(s, m, ForeignFields) = Got(v, d) /\ ForeignOf(v) = r
    <3>1. Between(s, m, d, EncodeSize(r.depth) \o <<r.indirect>> \o EncodeBitString(r.name)
                           \o EncodeSize(r.offset))
      BY <2>2 DEF e
    <3>2. \E v : /\ ReadFields(s, m, ForeignFields) = Got(v, d)
                 /\ ForeignOf(v) = Foreign(r.depth, r.indirect, r.name, r.offset)
      <4>1. r.depth \in Words /\ r.indirect \in 0..1 /\ r.name \in BitStrings /\ r.offset \in Words
        BY <1>3
      <4> QED
        BY ONLY <3>1, <4>1, ForeignBack
    <3> QED
      BY <1>3, <3>2
  <2> QED
    BY <2>3, <2>4, OperandSteps
<1> QED
  BY <1>1, <1>2, <1>3, OperandForms DEF OperandForm, ForeignForm

LEMMA ForeignMet ==
    ASSUME NEW s \in Bits, NEW c \in 0..Len(s)
    PROVE  \/ ReadFields(s, c, ForeignFields) = Failed(c)
           \/ \E v, d :
                  /\ ReadFields(s, c, ForeignFields) = Got(v, d)
                  /\ v[1] \in Words /\ v[2] \in 0..1 /\ v[3] \in BitStrings /\ v[4] \in Words
                  /\ Between(s, c, d, EncodeSize(v[1]) \o <<v[2]>> \o EncodeBitString(v[3])
                                      \o EncodeSize(v[4]))
<1>1. FieldsHere(s, c, ForeignFields, 4)
  BY ForeignNumbers, FieldsMet
<1>2. SUFFICES ASSUME NEW v, NEW p, p[0] = c, \A k \in 0..4 : p[k] \in 0..Len(s),
                      \A k \in 1..4 : ReadField(s, p[k - 1], ForeignFields[k]) = Got(v[k], p[k]),
                      ReadFields(s, c, ForeignFields) = Got([k \in 1..4 |-> v[k]], p[4])
               PROVE  /\ v[1] \in Words /\ v[2] \in 0..1 /\ v[3] \in BitStrings /\ v[4] \in Words
                      /\ Between(s, c, p[4], EncodeSize(v[1]) \o <<v[2]>> \o EncodeBitString(v[3])
                                             \o EncodeSize(v[4]))
  <2>1. ASSUME NEW v, NEW w, w = [k \in 1..4 |-> v[k]]
        PROVE  w[1] = v[1] /\ w[2] = v[2] /\ w[3] = v[3] /\ w[4] = v[4]
    BY <2>1
  <2>2. SUFFICES ASSUME ReadFields(s, c, ForeignFields) # Failed(c)
                 PROVE  \E v, d :
                            /\ ReadFields(s, c, ForeignFields) = Got(v, d)
                            /\ v[1] \in Words /\ v[2] \in 0..1 /\ v[3] \in BitStrings
                            /\ v[4] \in Words
                            /\ Between(s, c, d, EncodeSize(v[1]) \o <<v[2]>>
                                                \o EncodeBitString(v[3]) \o EncodeSize(v[4]))
    OBVIOUS
  <2>3. PICK v, p : /\ p[0] = c /\ \A k \in 0..4 : p[k] \in 0..Len(s)
                    /\ \A k \in 1..4 : ReadField(s, p[k - 1], ForeignFields[k]) = Got(v[k], p[k])
                    /\ ReadFields(s, c, ForeignFields) = Got([k \in 1..4 |-> v[k]], p[4])
    BY <1>1, <2>2 DEF FieldsHere
  <2>4. PICK w : w = [k \in 1..4 |-> v[k]]
    OBVIOUS
  <2>5. w[1] = v[1] /\ w[2] = v[2] /\ w[3] = v[3] /\ w[4] = v[4]
    BY <2>1, <2>4
  <2>6. ReadFields(s, c, ForeignFields) = Got(w, p[4])
    BY <2>3, <2>4
  <2>7. /\ v[1] \in Words /\ v[2] \in 0..1 /\ v[3] \in BitStrings /\ v[4] \in Words
        /\ Between(s, c, p[4], EncodeSize(v[1]) \o <<v[2]>> \o EncodeBitString(v[3])
                               \o EncodeSize(v[4]))
    BY <1>2, <2>3
  <2> QED
    BY <2>5, <2>6, <2>7
<1>3. /\ p[0] \in 0..Len(s) /\ p[1] \in 0..Len(s) /\ p[2] \in 0..Len(s) /\ p[3] \in 0..Len(s)
      /\ 1 \in 1..4 /\ 2 \in 1..4 /\ 3 \in 1..4 /\ 4 \in 1..4
      /\ 1 - 1 = 0 /\ 2 - 1 = 1 /\ 3 - 1 = 2 /\ 4 - 1 = 3
  BY <1>2
<1>4. /\ ReadField(s, p[0], SizeField) = Got(v[1], p[1])
      /\ ReadField(s, p[1], UintField(1)) = Got(v[2], p[2])
      /\ ReadField(s, p[2], NameField) = Got(v[3], p[3])
      /\ ReadField(s, p[3], SizeField) = Got(v[4], p[4])
  <2>1. /\ ReadField(s, p[1 - 1], ForeignFields[1]) = Got(v[1], p[1])
        /\ ReadField(s, p[2 - 1], ForeignFields[2]) = Got(v[2], p[2])
        /\ ReadField(s, p[3 - 1], ForeignFields[3]) = Got(v[3], p[3])
        /\ ReadField(s, p[4 - 1], ForeignFields[4]) = Got(v[4], p[4])
    BY <1>2, <1>3
  <2> QED
    BY <1>3, <2>1, ForeignNumbers
<1>5. v[1] \in Words /\ Between(s, c, p[1], EncodeSize(v[1]))
  BY <1>2, <1>3, <1>4, SizeGot
<1>6. v[2] \in 0..1 /\ Between(s, p[1], p[2], <<v[2]>>)
  <2>1. 1 \in Nat
    OBVIOUS
  <2>2. v[2] \in 0..(2^1 - 1) /\ Between(s, p[1], p[2], UintBits(v[2], 1))
    BY <2>1, <1>3, <1>4, UintGot
  <2> QED
    BY <2>2, TwoBits
<1>7. v[3] \in BitStrings /\ Between(s, p[2], p[3], EncodeBitString(v[3]))
  BY <1>3, <1>4, NameGot
<1>8. v[4] \in Words /\ Between(s, p[3], p[4], EncodeSize(v[4]))
  BY <1>3, <1>4, SizeGot
<1>9. Between(s, c, p[2], EncodeSize(v[1]) \o <<v[2]>>)
  BY <1>5, <1>6, BetweenJoined
<1>10. Between(s, c, p[3], EncodeSize(v[1]) \o <<v[2]>> \o EncodeBitString(v[3]))
  BY <1>7, <1>9, BetweenJoined
<1> QED
  BY <1>5, <1>6, <1>7, <1>8, <1>10, BetweenJoined

LEMMA OperandMet ==
    ASSUME NEW s \in Bits, NEW c \in 0..Len(s)
    PROVE  \/ DecodeReference(s, c) = Failed(c)
           \/ \E d : \E r \in OperandReferences : /\ Between(s, c, d, EncodeReference(r))
                                                  /\ DecodeReference(s, c) = Got(r, d)
<1>1. SUFFICES ASSUME NEW k, NEW x \in 0..3, Between(s, c, k, UintBits(x, 2)),
                      ReadUint(s, c, 2) = Got(x, k), DecodeReference(s, c) # Failed(c)
               PROVE  \E d : \E r \in OperandReferences : /\ Between(s, c, d, EncodeReference(r))
                                                        /\ DecodeReference(s, c) = Got(r, d)
  BY ClassMet, OperandSteps
<1>2. k \in 0..Len(s)
  BY <1>1, BetweenIn
<1>3. CASE x = 0
  <2>1. PICK d : \E n \in Words : /\ Between(s, k, d, EncodeVarUint(n))
                                  /\ DecodeVarUint(s, k) = Got(n, d)
    BY <1>1, <1>2, <1>3, VarUintMet, OperandSteps
  <2>2. PICK n \in Words : /\ Between(s, k, d, EncodeVarUint(n))
                           /\ DecodeVarUint(s, k) = Got(n, d)
    BY <2>1
  <2>3. DecodeReference(s, c) = Got(Immediate(n), d)
    BY <1>1, <1>3, <2>2, OperandSteps
  <2>4. /\ Immediate(n) \in OperandReferences
        /\ EncodeReference(Immediate(n)) = UintBits(0, 2) \o EncodeVarUint(n)
    BY DEF Immediate, OperandReferences, EncodeReference
  <2>5. Between(s, c, d, EncodeReference(Immediate(n)))
    BY <1>1, <1>3, <2>2, <2>4, BetweenJoined
  <2> QED
    BY <2>3, <2>4, <2>5
<1>4. CASE x \in {1, 2}
  <2>1. PICK d : \E a \in Addresses : /\ Between(s, k, d, EncodeAddress(a))
                                      /\ DecodeAddress(s, k) = Got(a, d)
    BY <1>1, <1>2, <1>4, AddressMet, OperandSteps
  <2>2. PICK a \in Addresses : /\ Between(s, k, d, EncodeAddress(a))
                               /\ DecodeAddress(s, k) = Got(a, d)
    BY <2>1
  <2> DEFINE r == [mode |-> x, address |-> a]
  <2>3. DecodeReference(s, c) = Got(r, d)
    BY <1>1, <1>4, <2>2, OperandSteps
  <2>4. /\ r \in OperandReferences
        /\ EncodeReference(r) = UintBits(x, 2) \o EncodeAddress(a)
    BY <1>4 DEF OperandReferences, EncodeReference
  <2> HIDE DEF r
  <2>5. Between(s, c, d, EncodeReference(r))
    BY <1>1, <2>2, <2>4, BetweenJoined
  <2> QED
    BY <2>3, <2>4, <2>5
<1>5. CASE x = 3
  <2>1. PICK v, d :
            /\ ReadFields(s, k, ForeignFields) = Got(v, d)
            /\ v[1] \in Words /\ v[2] \in 0..1 /\ v[3] \in BitStrings /\ v[4] \in Words
            /\ Between(s, k, d, EncodeSize(v[1]) \o <<v[2]>> \o EncodeBitString(v[3])
                                \o EncodeSize(v[4]))
    BY <1>1, <1>2, <1>5, ForeignMet, OperandSteps
  <2> DEFINE r == ForeignOf(v)
             e == EncodeSize(v[1]) \o <<v[2]>> \o EncodeBitString(v[3]) \o EncodeSize(v[4])
  <2>2. DecodeReference(s, c) = Got(r, d)
    BY <1>1, <1>5, <2>1, OperandSteps
  <2>3. r \in OperandReferences
    BY <2>1 DEF OperandReferences, ForeignOf, Foreign
  <2>4. EncodeReference(r) = UintBits(3, 2) \o e
    <3>1. /\ r.mode = 3 /\ r.depth = v[1] /\ r.indirect = v[2]
          /\ r.name = v[3] /\ r.offset = v[4]
      BY DEF ForeignOf, Foreign
    <3> HIDE DEF r
    <3> QED
      BY <3>1, SMTT(30) DEF EncodeReference
  <2>5. Between(s, k, d, e)
    BY <2>1
  <2> HIDE DEF r, e
  <2>6. Between(s, c, d, EncodeReference(r))
    BY <1>1, <1>5, <2>4, <2>5, BetweenJoined
  <2> QED
    BY <2>2, <2>3, <2>6
<1> QED
  BY <1>3, <1>4, <1>5

-----------------------------------------------------------------------------
(* Sources and destinations: a source has its size unless it is immediate. *)

SourceOf(r, n) == [reference |-> r, count |-> n, immediate |-> r.mode = 0]

LEMMA SourceForms ==
    /\ \A x \in Sources :
          \/ \E r \in OperandReferences : /\ r.mode = 0 /\ x = SourceOf(r, 0)
          \/ \E r \in OperandReferences : \E n \in Words : r.mode # 0 /\ x = SourceOf(r, n)
    /\ \A r \in OperandReferences :
          r.mode = 0 => /\ SourceOf(r, 0) \in Sources
                        /\ EncodeSource(SourceOf(r, 0)) = EncodeReference(r) \o <<>>
    /\ \A r \in OperandReferences : \A n \in Words :
          r.mode # 0 => /\ SourceOf(r, n) \in Sources
                        /\ EncodeSource(SourceOf(r, n)) = EncodeReference(r) \o EncodeSize(n)
<1>1. ASSUME NEW x \in Sources
      PROVE  \/ \E r \in OperandReferences : r.mode = 0 /\ x = SourceOf(r, 0)
             \/ \E r \in OperandReferences : \E n \in Words : r.mode # 0 /\ x = SourceOf(r, n)
  <2>1. CASE x \in [reference : {r \in OperandReferences : r.mode = 0}, count : {0},
                    immediate : {TRUE}]
    <3>1. x.reference \in OperandReferences /\ x.reference.mode = 0
      BY <2>1
    <3>2. x = SourceOf(x.reference, 0)
      BY <2>1, <3>1 DEF SourceOf
    <3> QED
      BY <3>1, <3>2
  <2>2. CASE x \in [reference : {r \in OperandReferences : r.mode # 0}, count : Words,
                    immediate : {FALSE}]
    <3>1. x.reference \in OperandReferences /\ x.reference.mode # 0 /\ x.count \in Words
      BY <2>2
    <3>2. x = SourceOf(x.reference, x.count)
      BY <2>2, <3>1 DEF SourceOf
    <3> QED
      BY <3>1, <3>2
  <2> QED
    BY <2>1, <2>2 DEF Sources
<1>2. ASSUME NEW r \in OperandReferences, r.mode = 0
      PROVE  /\ SourceOf(r, 0) \in Sources
             /\ EncodeSource(SourceOf(r, 0)) = EncodeReference(r) \o <<>>
  BY <1>2 DEF SourceOf, Sources, EncodeSource
<1>3. ASSUME NEW r \in OperandReferences, NEW n \in Words, r.mode # 0
      PROVE  /\ SourceOf(r, n) \in Sources
             /\ EncodeSource(SourceOf(r, n)) = EncodeReference(r) \o EncodeSize(n)
  <2>1. SourceOf(r, n) = [reference |-> r, count |-> n, immediate |-> FALSE]
    BY <1>3 DEF SourceOf
  <2> QED
    BY <1>3, <2>1 DEF Sources, EncodeSource
<1> QED
  BY <1>1, <1>2, <1>3

LEMMA SourceSteps ==
    ASSUME NEW s, NEW c
    PROVE  /\ DecodeReference(s, c) = Failed(c) => DecodeSource(s, c) = Failed(c)
           /\ \A r, k : DecodeReference(s, c) = Got(r, k) /\ r.mode = 0 =>
                  DecodeSource(s, c) = Got(SourceOf(r, 0), k)
           /\ \A r, k : DecodeReference(s, c) = Got(r, k) /\ r.mode # 0 =>
                  /\ DecodeSize(s, k) = Failed(k) => DecodeSource(s, c) = Failed(c)
                  /\ \A n, d : DecodeSize(s, k) = Got(n, d) =>
                         DecodeSource(s, c) = Got(SourceOf(r, n), d)
<1>1. DecodeReference(s, c) = Failed(c) => DecodeSource(s, c) = Failed(c)
  BY Results2 DEF DecodeSource, Then, Kept
<1>2. ASSUME NEW r, NEW k, DecodeReference(s, c) = Got(r, k), r.mode = 0
      PROVE  DecodeSource(s, c) = Got(SourceOf(r, 0), k)
  BY <1>2, Results2 DEF DecodeSource, Then, Kept, SourceOf
<1>3. ASSUME NEW r, NEW k, DecodeReference(s, c) = Got(r, k), r.mode # 0,
             DecodeSize(s, k) = Failed(k)
      PROVE  DecodeSource(s, c) = Failed(c)
  BY <1>3, Results2 DEF DecodeSource, Then, Kept
<1>4. ASSUME NEW r, NEW k, DecodeReference(s, c) = Got(r, k), r.mode # 0,
             NEW n, NEW d, DecodeSize(s, k) = Got(n, d)
      PROVE  DecodeSource(s, c) = Got(SourceOf(r, n), d)
  BY <1>4, Results2 DEF DecodeSource, Then, Kept, SourceOf
<1> QED
  BY <1>1, <1>2, <1>3, <1>4

LEMMA NothingJoined ==
    ASSUME NEW e \in Bits
    PROVE  e \o <<>> = e
BY DEF Bits

LEMMA SourceWritten ==
    ASSUME NEW x \in Sources
    PROVE  EncodeSource(x) \in Bits
<1>1. \A r \in OperandReferences : EncodeReference(r) \in Bits
  BY OperandWritten
<1>2. \A n \in Words : EncodeSize(n) \in Bits
  BY SizeWritten
<1>3. CASE \E r \in OperandReferences : r.mode = 0 /\ x = SourceOf(r, 0)
  BY <1>1, <1>3, SourceForms, EmptyBits, Joined
<1>4. CASE \E r \in OperandReferences : \E n \in Words : r.mode # 0 /\ x = SourceOf(r, n)
  <2>1. PICK r \in OperandReferences, n \in Words : r.mode # 0 /\ x = SourceOf(r, n)
    BY <1>4
  <2>2. EncodeSource(x) = EncodeReference(r) \o EncodeSize(n)
    BY <2>1, SourceForms
  <2> QED
    BY <1>1, <1>2, <2>2, Joined
<1> QED
  BY <1>3, <1>4, SourceForms

LEMMA SourceBack ==
    ASSUME NEW s, NEW c, NEW d, NEW x \in Sources, Between(s, c, d, EncodeSource(x))
    PROVE  DecodeSource(s, c) = Got(x, d)
<1>1. CASE \E r \in OperandReferences : r.mode = 0 /\ x = SourceOf(r, 0)
  <2>1. PICK r \in OperandReferences : r.mode = 0 /\ x = SourceOf(r, 0)
    BY <1>1
  <2>2. Between(s, c, d, EncodeReference(r))
    BY <2>1, SourceForms, OperandWritten, NothingJoined
  <2> QED
    BY <2>1, <2>2, OperandBack, SourceSteps
<1>2. CASE \E r \in OperandReferences : \E n \in Words : r.mode # 0 /\ x = SourceOf(r, n)
  <2>1. PICK r \in OperandReferences, n \in Words : r.mode # 0 /\ x = SourceOf(r, n)
    BY <1>2
  <2>2. PICK k : Between(s, c, k, EncodeReference(r)) /\ Between(s, k, d, EncodeSize(n))
    BY <2>1, SourceForms, OperandWritten, SizeWritten, BetweenSplit
  <2> QED
    BY <2>1, <2>2, OperandBack, SizeBack, SourceSteps
<1> QED
  BY <1>1, <1>2, SourceForms

LEMMA SourceMet ==
    ASSUME NEW s \in Bits, NEW c \in 0..Len(s)
    PROVE  \/ DecodeSource(s, c) = Failed(c)
           \/ \E d : \E x \in Sources : /\ Between(s, c, d, EncodeSource(x))
                                        /\ DecodeSource(s, c) = Got(x, d)
<1>1. SUFFICES ASSUME NEW k, NEW r \in OperandReferences, Between(s, c, k, EncodeReference(r)),
                      DecodeReference(s, c) = Got(r, k), DecodeSource(s, c) # Failed(c)
               PROVE  \E d : \E x \in Sources : /\ Between(s, c, d, EncodeSource(x))
                                              /\ DecodeSource(s, c) = Got(x, d)
  BY OperandMet, SourceSteps
<1>2. k \in 0..Len(s)
  BY <1>1, BetweenIn
<1>3. CASE r.mode = 0
  BY <1>1, <1>3, SourceSteps, SourceForms, OperandWritten, NothingJoined
<1>4. CASE r.mode # 0
  <2>1. PICK d : \E n \in Words : Between(s, k, d, EncodeSize(n)) /\ DecodeSize(s, k) = Got(n, d)
    <3>1. DecodeSize(s, k) # Failed(k)
      <4>1. r.mode # 0 => (DecodeSize(s, k) = Failed(k) => DecodeSource(s, c) = Failed(c))
        BY <1>1, SourceSteps
      <4> QED
        BY <1>1, <1>4, <4>1
    <3> QED
      BY <1>2, <3>1, SizeMet
  <2>2. PICK n \in Words : Between(s, k, d, EncodeSize(n)) /\ DecodeSize(s, k) = Got(n, d)
    BY <2>1
  <2>3. SourceOf(r, n) \in Sources
        /\ EncodeSource(SourceOf(r, n)) = EncodeReference(r) \o EncodeSize(n)
    BY <1>4, SourceForms
  <2>4. Between(s, c, d, EncodeSource(SourceOf(r, n)))
    BY <1>1, <2>2, <2>3, BetweenJoined
  <2>5. DecodeSource(s, c) = Got(SourceOf(r, n), d)
    BY <1>1, <1>4, <2>2, SourceSteps
  <2> QED
    BY <2>3, <2>4, <2>5
<1> QED
  BY <1>3, <1>4

LEMMA DestinationSteps ==
    ASSUME NEW s, NEW c
    PROVE  /\ DecodeReference(s, c) = Failed(c) => DecodeDestination(s, c) = Failed(c)
           /\ \A r, d : DecodeReference(s, c) = Got(r, d) =>
                  DecodeDestination(s, c) = IF r.mode # 0 THEN Got(r, d) ELSE Failed(c)
<1>1. DecodeReference(s, c) = Failed(c) => DecodeDestination(s, c) = Failed(c)
  BY Results2 DEF DecodeDestination, Then, Kept
<1>2. ASSUME NEW r, NEW d, DecodeReference(s, c) = Got(r, d)
      PROVE  DecodeDestination(s, c) = IF r.mode # 0 THEN Got(r, d) ELSE Failed(c)
  BY <1>2, Results2 DEF DecodeDestination, Then, Kept, GotIf
<1> QED
  BY <1>1, <1>2

LEMMA DestinationBack ==
    ASSUME NEW s, NEW c, NEW d, NEW r \in OperandReferences, CanEncodeDestination(r),
           Between(s, c, d, EncodeReference(r))
    PROVE  DecodeDestination(s, c) = Got(r, d)
BY OperandBack, DestinationSteps DEF CanEncodeDestination

LEMMA DestinationMet ==
    ASSUME NEW s \in Bits, NEW c \in 0..Len(s)
    PROVE  \/ DecodeDestination(s, c) = Failed(c)
           \/ \E d : \E r \in OperandReferences : /\ CanEncodeDestination(r)
                                                  /\ Between(s, c, d, EncodeReference(r))
                                                  /\ DecodeDestination(s, c) = Got(r, d)
BY OperandMet, DestinationSteps DEF CanEncodeDestination
=============================================================================
