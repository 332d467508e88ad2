----------------------------- MODULE Arithmetic -----------------------------
(***************************************************************************)
(* src/src/arithmetic.cpp: the 32 operations of COMPUTE on words and       *)
(* floats.  Results(operation, operands) is the set of values the          *)
(* operation may give, empty when it gives an error.                       *)
(*                                                                         *)
(* A double is an integer number of quanta of 2^-Quantum: the doubles are  *)
(* the numbers of Precision bits shifted left by at most Scales bits, and  *)
(* the first number past them stands for infinity.  The library functions  *)
(* on them (pow, sin, ...) are external and give any of External.          *)
(***************************************************************************)
EXTENDS Codec

CONSTANTS
    Precision,  \* 53
    Quantum,    \* 1074
    Scales,     \* 2045
    IntLimit,   \* the exponents that fit an int are -IntLimit..(IntLimit - 1): 2^31
    External    \* bound: what pow, sin, ... give

ASSUME ArithmeticAssumption ==
    /\ {Precision, Quantum, Scales, IntLimit} \subseteq Nat \ {0}
    /\ Precision < Word
    \* A float whose exponent is no int is infinite or zero as a double.
    /\ IntLimit >= Precision + Scales - Quantum
    /\ IntLimit >= Word + Quantum + 1
    \* An int is narrower than a word.
    /\ IntLimit < 2^(Word - 1)
    \* One is a double, and a whole number of quanta.
    /\ Quantum <= Scales

Abs(n) == IF n < 0 THEN -n ELSE n
Sign(n) == IF n < 0 THEN -1 ELSE 1

Infinity == 2^(Precision + Scales)
Magnitudes == {m * 2^k : m \in 0..(2^Precision - 1), k \in 0..Scales}
Doubles == Magnitudes \union {-d : d \in Magnitudes}
Numbers == Doubles \union {Infinity, -Infinity}
IsFinite(d) == Abs(d) < Infinity

ASSUME ExternalAssumption == External \subseteq Doubles

\* The double nearest to numerator / denominator quanta; of two, the even one.
Rounded(numerator, denominator) ==
    LET quotient == numerator \div denominator
        Distance(d) == Abs(d * denominator - numerator)
        least == Min({Distance(d) : d \in Numbers})
        Nearest == {d \in Numbers : Distance(d) = least}
        below == Min(Nearest)
        above == Max(Nearest)
    IN  IF quotient \in Doubles /\ quotient * denominator = numerator THEN quotient
        ELSE IF below = above \/ (below \div (above - below)) % 2 = 0 THEN below
        ELSE above

-----------------------------------------------------------------------------

\* as_double.  ldexp rounds a second time when its result is tiny.
AsDouble(v) ==
    IF ~v.float THEN Rounded(v.n * 2^Quantum, 1)
    ELSE CASE v.e >= IntLimit -> Sign(v.m) * Infinity
           [] v.e < -IntLimit -> 0
           [] v.e \in 0..(IntLimit - 1) -> Rounded(Rounded(v.m * 2^Quantum, 1) * 2^v.e, 1)
           [] v.e \in -IntLimit..-1 -> Rounded(Rounded(v.m * 2^Quantum, 1), 2^(-v.e))

\* from_double: frexp, the fraction as a whole number, normalized.
FromDouble(d) ==
    LET twos == Max({k \in 0..(Precision + Scales) : d % 2^k = 0})
    IN  IF d = 0 THEN Float(0, 0) ELSE Float(d \div 2^twos, twos - Quantum)

\* "mathematical result is not finite"
Numeric(d) == IF IsFinite(d) THEN {FromDouble(d)} ELSE {}
Integer(n) == {Uint(Unsigned(n))}
Truth(b) == {Uint(IF b THEN 1 ELSE 0)}
Library == {FromDouble(d) : d \in External}

ModularPowerLinear(base, exponent) ==  \* Mutated: the base is not squared
    LET loop[i \in 0..Word] ==
            IF i = 0 THEN [result |-> 1, base |-> base, exponent |-> exponent]
            ELSE LET x == loop[i - 1]
                 IN  [result |-> IF x.exponent % 2 = 1 THEN Unsigned(x.result * x.base) ELSE x.result,
                      base |-> x.base,
                      exponent |-> x.exponent \div 2]
    IN  loop[Word].result

\* modular_power, one round of its loop per bit of a word; the rounds after
\* the exponent has become zero change nothing.
ModularPower(base, exponent) ==
    LET loop[i \in 0..Word] ==
            IF i = 0 THEN [result |-> 1, base |-> base, exponent |-> exponent]
            ELSE LET x == loop[i - 1]
                 IN  [result |-> IF x.exponent % 2 = 1 THEN Unsigned(x.result * x.base) ELSE x.result,
                      base |-> Unsigned(x.base * x.base),
                      exponent |-> x.exponent \div 2]
    IN  loop[Word].result

Bitwise(F(_, _), a, b) ==
    LET x == UintBits(a, Word)
        y == UintBits(b, Word)
    IN  UintOf([i \in 1..Word |-> F(x[i], y[i])])

-----------------------------------------------------------------------------

\* Both operands are words.
OfWords(operation, a, b) ==
    CASE operation = 0 -> Integer(a + b)
      [] operation = 1 -> Integer(a - b)
      [] operation = 2 -> Integer(a * b)
      [] operation = 3 -> IF b = 0 THEN {} ELSE Integer(a \div b)
      [] operation = 4 -> IF b = 0 THEN {} ELSE Integer(a % b)
      [] operation = 5 -> Integer(ModularPower(a, b))
      [] operation = 6 -> Truth(a # 0 /\ b # 0)
      [] operation = 7 -> Truth(a # 0 \/ b # 0)
      [] operation = 8 -> Truth(a = b)
      [] operation = 9 -> Truth(a # b)
      [] operation = 10 -> Truth(Signed(a) > Signed(b))
      [] operation = 11 -> Truth(Signed(a) >= Signed(b))
      [] operation = 12 -> Truth(Signed(a) < Signed(b))
      [] operation = 13 -> Truth(Signed(a) <= Signed(b))
      [] operation = 14 -> Integer(Bitwise(LAMBDA x, y : x * y, a, b))
      [] operation = 15 -> Integer(Bitwise(LAMBDA x, y : IF x + y > 0 THEN 1 ELSE 0, a, b))

\* One of them is a float; the other, if it is a word, is an unsigned one.
OfDoubles(operation, a, b) ==
    CASE operation = 0 -> Numeric(Rounded(a + b, 1))
      [] operation = 1 -> Numeric(Rounded(a - b, 1))
      [] operation = 2 -> Numeric(Rounded(a * b, 2^Quantum))
      [] operation = 3 -> IF b = 0 THEN {} ELSE Numeric(Rounded(a * Sign(b) * 2^Quantum, Abs(b)))
      [] operation = 4 -> IF b = 0 THEN {} ELSE Numeric(Sign(a) * (Abs(a) % Abs(b)))
      [] operation = 5 -> Library
      [] operation = 6 -> Truth(a # 0 /\ b # 0)
      [] operation = 7 -> Truth(a # 0 \/ b # 0)
      [] operation = 8 -> Truth(a = b)
      [] operation = 9 -> Truth(a # b)
      [] operation = 10 -> Truth(a > b)
      [] operation = 11 -> Truth(a >= b)
      [] operation = 12 -> Truth(a < b)
      [] operation = 13 -> Truth(a <= b)
      [] operation \in {14, 15} -> {}

One == 2^Quantum

\* The operands asin, acos, acosh, atanh, ln and lg have a result for.
InDomain(operation, a) ==
    CASE operation \in {17, 19} -> a \in -One..One
      [] operation = 27 -> a >= One
      [] operation = 29 -> -One < a /\ a < One
      [] operation \in {30, 31} -> a > 0
      [] OTHER -> TRUE

OfOne(operation, v) ==
    CASE operation = 22 -> Truth(AsDouble(v) = 0)
      [] operation = 23 -> IF v.float THEN {} ELSE Integer(-1 - v.n)
      [] OTHER -> IF InDomain(operation, AsDouble(v)) THEN Library ELSE {}

Operations == 0..31
OperandCount(operation) == IF operation < 16 THEN 2 ELSE 1

\* evaluate_operation
Results(operation, v) ==
    IF \/ Len(v) # OperandCount(operation)
       \/ \E i \in DOMAIN v : ~IsFinite(AsDouble(v[i]))
    THEN {}
    ELSE IF Len(v) = 1 THEN OfOne(operation, v[1])
    ELSE IF v[1].float \/ v[2].float
    THEN OfDoubles(operation, AsDouble(v[1]), AsDouble(v[2]))
    ELSE OfWords(operation, v[1].n, v[2].n)
=============================================================================
