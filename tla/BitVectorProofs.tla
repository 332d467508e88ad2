-------------------------- MODULE BitVectorProofs ---------------------------
(***************************************************************************)
(* A bit vector is a string of bits, for every longest size, every string  *)
(* that callers append or write and every file they read.                  *)
(***************************************************************************)
EXTENDS BitVector, TLAPS

\* What BytesCanonical says of the bytes and the size of the vector, said of
\* any bytes and size: the vectors that Resized and Overwritten make.
Canonical(b, n) ==
    /\ n \in 0..MaxBits
    /\ b \in [0..(Capacity(n) - 1) -> Bit]
    /\ \A i \in DOMAIN b : i >= n => b[i] = 0

\* The string that bytes b show at size n.
ContentOf(b, n) == [size |-> n, bit |-> [i \in Index(n) |-> b[i]]]

-----------------------------------------------------------------------------

(* Facts about sizes                                                       *)

\* The bits fit into the bytes, and whole bytes have no padding.
LEMMA CapacityFacts ==
    ASSUME NEW n \in Nat
    PROVE  /\ Capacity(n) \in Nat
           /\ n <= Capacity(n)
           /\ n % 8 = 0 => Capacity(n) = n
<1>1. /\ n \div 8 \in Nat /\ n % 8 \in 0..7
      /\ n = 8 * (n \div 8) + (n % 8)
    OBVIOUS
<1>2. CASE n % 8 = 0
    BY <1>1, <1>2 DEF Capacity
<1>3. CASE n % 8 # 0
    BY <1>1, <1>3 DEF Capacity
<1> QED BY <1>2, <1>3

\* A position below a size is one of its bytes'.
LEMMA IndexInBytes ==
    ASSUME NEW n \in 0..MaxBits, NEW i \in Index(n)
    PROVE  i \in Nat /\ i < n /\ i \in 0..(Capacity(n) - 1)
<1>1. n \in Nat /\ i \in 0..MaxBits /\ i < n
    BY BitVectorAssumption DEF Index
<1> QED BY <1>1, CapacityFacts, BitVectorAssumption

\* Canonical bytes show a string.
LEMMA ContentIsString ==
    ASSUME NEW b, NEW n, Canonical(b, n)
    PROVE  IsString(ContentOf(b, n))
<1>1. n \in 0..MaxBits /\ b \in [0..(Capacity(n) - 1) -> Bit]
    BY DEF Canonical
<1>2. [i \in Index(n) |-> b[i]] \in [Index(n) -> Bit]
    BY <1>1, IndexInBytes
<1> QED BY <1>1, <1>2 DEF IsString, ContentOf

\* A string has a size and that many bits.
LEMMA StringFacts ==
    ASSUME NEW s, IsString(s)
    PROVE  /\ s.size \in 0..MaxBits
           /\ s.bit \in [Index(s.size) -> Bit]
           /\ \A i \in Nat : i < s.size => i \in Index(s.size) /\ s.bit[i] \in Bit
<1>1. s.size \in 0..MaxBits /\ s.bit \in [Index(s.size) -> Bit]
    BY DEF IsString
<1>2. ASSUME NEW i \in Nat, i < s.size PROVE i \in Index(s.size)
    BY <1>1, <1>2, BitVectorAssumption DEF Index
<1> QED BY <1>1, <1>2

-----------------------------------------------------------------------------

(* What the helpers make of canonical bytes                                *)

\* resize keeps the old bits, fills the new ones, those in the last old byte
\* among them, and clears the padding.
LEMMA ResizedValue ==
    ASSUME NEW b, NEW n, Canonical(b, n), NEW new \in 0..MaxBits, NEW fill \in Bit
    PROVE  Resized(b, n, new, fill) =
               [i \in 0..(Capacity(new) - 1) |->
                   IF i >= new THEN 0 ELSE IF i < n THEN b[i] ELSE fill]
<1> DEFINE cap == Capacity(new)
           grown == [i \in 0..(cap - 1) |->
                        IF i >= n /\ i < new /\ fill = 1 THEN 1
                        ELSE IF i \in DOMAIN b THEN b[i] ELSE fill]
<1>1. /\ n \in Nat /\ new \in Nat
      /\ DOMAIN b = 0..(Capacity(n) - 1)
      /\ \A i \in DOMAIN b : i >= n => b[i] = 0
    BY BitVectorAssumption DEF Canonical
<1>2. /\ cap \in Nat /\ new <= cap /\ (new % 8 = 0 => cap = new)
      /\ Capacity(n) \in Nat /\ n <= Capacity(n)
    BY <1>1, CapacityFacts
<1>3. Resized(b, n, new, fill) =
          [i \in 0..(cap - 1) |-> IF new % 8 # 0 /\ i >= new THEN 0 ELSE grown[i]]
    BY DEF Resized, Cleared
<1>4. ASSUME NEW i \in 0..(cap - 1)
      PROVE  (IF new % 8 # 0 /\ i >= new THEN 0 ELSE grown[i])
             = (IF i >= new THEN 0 ELSE IF i < n THEN b[i] ELSE fill)
    <2>1. i \in Nat /\ grown[i] = IF i >= n /\ i < new /\ fill = 1 THEN 1
                                  ELSE IF i \in DOMAIN b THEN b[i] ELSE fill
        BY <1>2
    <2> HIDE DEF grown, cap
    <2>2. CASE i >= new
        BY <1>1, <1>2, <2>1, <2>2
    <2>3. CASE i < new /\ i < n
        <3>1. i \in DOMAIN b
            BY <1>1, <1>2, <2>1, <2>3
        <3> QED BY <1>1, <2>1, <2>3, <3>1
    <2>4. CASE i < new /\ i >= n
        BY <1>1, <2>1, <2>4 DEF Bit
    <2> QED BY <1>1, <2>1, <2>2, <2>3, <2>4
<1> HIDE DEF grown
<1> QED BY <1>3, <1>4

\* The bits of the string after resize.
LEMMA ResizedBits ==
    ASSUME NEW b, NEW n, Canonical(b, n), NEW new \in 0..MaxBits, NEW fill \in Bit,
           NEW i \in Index(new)
    PROVE  Resized(b, n, new, fill)[i] = IF i < n THEN b[i] ELSE fill
<1> DEFINE r == [j \in 0..(Capacity(new) - 1) |->
                    IF j >= new THEN 0 ELSE IF j < n THEN b[j] ELSE fill]
<1>1. Resized(b, n, new, fill) = r
    BY ResizedValue
<1>2. i \in 0..(Capacity(new) - 1) /\ ~(i >= new)
    BY IndexInBytes, BitVectorAssumption
<1>3. r[i] = IF i < n THEN b[i] ELSE fill
    BY <1>2
<1> QED BY <1>1, <1>3

\* What resize makes is canonical again.
LEMMA ResizedCanonical ==
    ASSUME NEW b, NEW n, Canonical(b, n), NEW new \in 0..MaxBits, NEW fill \in Bit
    PROVE  Canonical(Resized(b, n, new, fill), new)
<1> DEFINE r == [i \in 0..(Capacity(new) - 1) |->
                    IF i >= new THEN 0 ELSE IF i < n THEN b[i] ELSE fill]
<1>1. /\ n \in Nat /\ new \in Nat
      /\ b \in [0..(Capacity(n) - 1) -> Bit]
    BY BitVectorAssumption DEF Canonical
<1>2. Capacity(new) \in Nat /\ Capacity(n) \in Nat /\ n <= Capacity(n)
    BY <1>1, CapacityFacts
<1>3. ASSUME NEW i \in 0..(Capacity(new) - 1) PROVE r[i] \in Bit
    BY <1>1, <1>2 DEF Bit
<1>4. /\ DOMAIN r = 0..(Capacity(new) - 1)
      /\ \A i \in DOMAIN r : i >= new => r[i] = 0
    OBVIOUS
<1>5. Canonical(r, new)
    BY <1>3, <1>4 DEF Canonical
<1>6. Resized(b, n, new, fill) = r
    BY ResizedValue
<1> HIDE DEF r
<1> QED BY <1>5, <1>6

\* Bits set one by one below the size leave canonical bytes.
LEMMA OverwrittenCanonical ==
    ASSUME NEW b, NEW n, Canonical(b, n), NEW at \in 0..MaxBits,
           NEW s, IsString(s), at + s.size <= n
    PROVE  Canonical(Overwritten(b, at, s), n)
<1> DEFINE o == Overwritten(b, at, s)
<1>1. /\ n \in 0..MaxBits /\ b \in [0..(Capacity(n) - 1) -> Bit]
      /\ \A i \in DOMAIN b : i >= n => b[i] = 0
    BY DEF Canonical
<1>2. s.size \in Nat /\ n \in Nat /\ at \in Nat /\ Capacity(n) \in Nat
    BY <1>1, StringFacts, CapacityFacts, BitVectorAssumption
<1>3. ASSUME NEW i \in 0..(Capacity(n) - 1)
      PROVE  o[i] \in Bit /\ (i >= n => o[i] = 0)
    <2>1. i \in Nat /\ o[i] = IF at <= i /\ i < at + s.size THEN s.bit[i - at] ELSE b[i]
        BY <1>1, <1>2 DEF Overwritten
    <2>2. CASE at <= i /\ i < at + s.size
        <3>1. i - at \in Nat /\ i - at < s.size /\ i < n
            BY <1>2, <2>1, <2>2
        <3>2. s.bit[i - at] \in Bit
            BY <3>1, StringFacts
        <3> QED BY <1>2, <2>1, <2>2, <3>1, <3>2
    <2>3. CASE ~(at <= i /\ i < at + s.size)
        BY <1>1, <2>1, <2>3
    <2> QED BY <2>2, <2>3
<1>4. o = [i \in 0..(Capacity(n) - 1) |-> o[i]]
    BY <1>1 DEF Overwritten
<1> HIDE DEF o
<1>5. o \in [0..(Capacity(n) - 1) -> Bit] /\ DOMAIN o = 0..(Capacity(n) - 1)
    BY <1>3, <1>4
<1> QED BY <1>1, <1>3, <1>5 DEF Canonical, o
-----------------------------------------------------------------------------

(* One lemma per call: the bytes stay canonical, and the string changes as *)
(* the call promises.                                                      *)

\* The state in the terms of the lemmas above.
LEMMA Present ==
    ASSUME BytesCanonical
    PROVE  /\ Canonical(bytes, size)
           /\ Content = ContentOf(bytes, size)
           /\ Content.size = size
           /\ Content.bit = [i \in Index(size) |-> bytes[i]]
           /\ IsString(Content)
           /\ size \in Nat
<1>1. Canonical(bytes, size) /\ size \in Nat
    BY BitVectorAssumption DEF BytesCanonical, Canonical
<1>2. Content = ContentOf(bytes, size)
    BY DEF Content, ContentOf
<1> QED BY <1>1, <1>2, ContentIsString DEF Content

\* The next state, too.
LEMMA Afterwards ==
    ASSUME NEW b, NEW n, Canonical(b, n), bytes' = b, size' = n
    PROVE  BytesCanonical' /\ Content' = ContentOf(b, n)
BY DEF Canonical, BytesCanonical, Content, ContentOf

LEMMA ResizeStep ==
    ASSUME BytesCanonical, NEW n \in 0..MaxBits, NEW fill \in Bit, Resize(n, fill)
    PROVE  BytesCanonical' /\ Strings!Resize(n, fill)
<1> DEFINE b == Resized(bytes, size, n, fill)
<1>1. Canonical(b, n)
    BY Present, ResizedCanonical
<1>2. bytes' = b /\ size' = n
    BY DEF Resize
<1>3. \A i \in Index(n) : b[i] = IF i < size THEN bytes[i] ELSE fill
    BY Present, ResizedBits
<1> HIDE DEF b
<1>4. BytesCanonical' /\ Content' = ContentOf(b, n)
    BY <1>1, <1>2, Afterwards
<1>5. \A i \in Index(n) : i < size => i \in Index(size)
    BY DEF Index
<1>6. [i \in Index(n) |-> b[i]]
      = [i \in Index(n) |-> IF i < Content.size THEN Content.bit[i] ELSE fill]
    BY <1>3, <1>5, Present
<1> QED BY <1>4, <1>6 DEF ContentOf, Resize, Call, Strings!Resize, Strings!Call, Strings!Index, Index

LEMMA PushBackStep ==
    ASSUME BytesCanonical, NEW v \in Bit, PushBack(v)
    PROVE  BytesCanonical' /\ Strings!PushBack(v)
<1> DEFINE r == Resized(bytes, size, size + 1, 0)
           b == [r EXCEPT ![size] = v]
<1>1. size \in Nat /\ size < MaxBits /\ size + 1 \in 0..MaxBits /\ MaxBits \in Nat
    BY Present, BitVectorAssumption DEF PushBack, BytesCanonical
<1>2. Canonical(r, size + 1)
    BY <1>1, Present, ResizedCanonical DEF Bit
<1>3. \A i \in Index(size + 1) : r[i] = IF i < size THEN bytes[i] ELSE 0
    BY <1>1, Present, ResizedBits DEF Bit
<1>4. bytes' = b /\ size' = size + 1
    BY DEF PushBack
<1> HIDE DEF r
<1>5. size \in DOMAIN r
    BY <1>1, <1>2, CapacityFacts DEF Canonical
<1>6. Canonical(b, size + 1)
    BY <1>1, <1>2, <1>5 DEF Canonical
<1>7. \A i \in Index(size + 1) : b[i] = IF i < size THEN bytes[i] ELSE v
    <2>1. ASSUME NEW i \in Index(size + 1) PROVE i \in DOMAIN r /\ i \in Nat /\ i < size + 1
        BY <1>1, <1>2, IndexInBytes DEF Canonical
    <2> QED BY <1>1, <1>3, <1>5, <2>1
<1> HIDE DEF b
<1>8. BytesCanonical' /\ Content' = ContentOf(b, size + 1)
    BY <1>4, <1>6, Afterwards
<1>9. \A i \in Index(size + 1) : i < size => i \in Index(size)
    BY DEF Index
<1>10. [i \in Index(size + 1) |-> b[i]]
       = [i \in Index(size + 1) |-> IF i < Content.size THEN Content.bit[i] ELSE v]
    BY <1>7, <1>9, Present
<1> QED BY <1>1, <1>8, <1>10, Present
        DEF ContentOf, PushBack, Call, Strings!PushBack, Strings!Call, Strings!Index, Index

LEMMA SetStep ==
    ASSUME BytesCanonical, NEW k \in 0..MaxBits, NEW v \in Bit, Set(k, v)
    PROVE  BytesCanonical' /\ Strings!Set(k, v)
<1> DEFINE b == [bytes EXCEPT ![k] = v]
<1>1. k < size /\ size \in Nat /\ k \in Nat /\ k \in Index(size)
    BY Present, BitVectorAssumption DEF Set, Index
<1>2. Canonical(bytes, size) /\ k \in DOMAIN bytes
    BY <1>1, Present, IndexInBytes DEF Canonical
<1>3. Canonical(b, size)
    BY <1>1, <1>2 DEF Canonical
<1>4. bytes' = b /\ size' = size
    BY DEF Set
<1>5. \A i \in Index(size) : i \in DOMAIN bytes
    BY <1>2, IndexInBytes DEF Canonical
<1>6. \A i \in Index(size) : b[i] = IF i = k THEN v ELSE bytes[i]
    BY <1>5
<1> HIDE DEF b
<1>7. BytesCanonical' /\ Content' = ContentOf(b, size)
    BY <1>3, <1>4, Afterwards
<1>8. [i \in Index(size) |-> b[i]] = [Content.bit EXCEPT ![k] = v]
    BY <1>1, <1>6, Present
<1>9. Content = [size |-> size, bit |-> Content.bit]
    BY Present DEF Content
<1>10. [Content EXCEPT !.bit[k] = v] = [size |-> size, bit |-> [Content.bit EXCEPT ![k] = v]]
    BY <1>9
<1> QED BY <1>1, <1>7, <1>8, <1>10, Present DEF ContentOf, Set, Call, Strings!Set, Strings!Call
\* Bits set one by one over the bits [at, at + s.size).
LEMMA OverwrittenBits ==
    ASSUME NEW b, NEW n, Canonical(b, n), NEW at, NEW s, NEW i \in Index(n)
    PROVE  Overwritten(b, at, s)[i] =
               IF at <= i /\ i < at + s.size THEN s.bit[i - at] ELSE b[i]
<1>1. i \in DOMAIN b
    BY IndexInBytes DEF Canonical
<1> QED BY <1>1 DEF Overwritten

LEMMA AppendedStep ==
    ASSUME BytesCanonical, NEW s, IsString(s), Appended(s)
    PROVE  BytesCanonical' /\ Strings!Appended(s)
<1> DEFINE new == size + s.size
           r == Resized(bytes, size, new, 0)
           b == Overwritten(r, size, s)
<1>1. /\ size \in 0..MaxBits /\ size \in Nat /\ s.size \in Nat /\ MaxBits \in Nat
      /\ new \in 0..MaxBits
    BY Present, StringFacts, BitVectorAssumption DEF Appended, BytesCanonical
<1>2. bytes' = b /\ size' = new
    BY DEF Appended
<1> HIDE DEF new
<1>3. Canonical(r, new)
    BY <1>1, Present, ResizedCanonical DEF Bit
<1>4. \A i \in Index(new) : r[i] = IF i < size THEN bytes[i] ELSE 0
    BY <1>1, Present, ResizedBits DEF Bit
<1> HIDE DEF r
<1>5. Canonical(b, new)
    <2>1. size + s.size <= new
        BY <1>1 DEF new
    <2> QED BY <1>1, <1>3, <2>1, OverwrittenCanonical
<1>6. \A i \in Index(new) : b[i] = IF i < size THEN bytes[i] ELSE s.bit[i - size]
    <2> TAKE i \in Index(new)
    <2>1. i \in Nat /\ i < size + s.size
        BY <1>1, IndexInBytes DEF new
    <2>2. b[i] = IF size <= i /\ i < size + s.size THEN s.bit[i - size] ELSE r[i]
        BY <1>3, OverwrittenBits
    <2> QED BY <1>1, <1>4, <2>1, <2>2
<1> HIDE DEF b
<1>7. BytesCanonical' /\ Content' = ContentOf(b, new)
    BY <1>2, <1>5, Afterwards
<1>8. \A i \in Index(new) : i < size => i \in Index(size)
    BY DEF Index
<1>9. [i \in Index(new) |-> b[i]]
      = [i \in Index(new) |-> IF i < Content.size THEN Content.bit[i] ELSE s.bit[i - Content.size]]
    BY <1>6, <1>8, Present
<1> QED BY <1>7, <1>9, Present DEF ContentOf, Appended, Strings!Appended, Strings!Index, Index, new

LEMMA WrittenStep ==
    ASSUME BytesCanonical, NEW s, IsString(s), NEW at \in 0..MaxBits, Written(at, s)
    PROVE  BytesCanonical' /\ Strings!Written(at, s)
<1> DEFINE b == Overwritten(bytes, at, s)
<1>1. /\ size \in Nat /\ s.size \in Nat /\ at \in Nat
      /\ at <= size /\ s.size <= size - at /\ at + s.size <= size
    BY Present, StringFacts, BitVectorAssumption DEF Written
<1>2. bytes' = b /\ size' = size
    BY DEF Written
<1>3. Canonical(b, size)
    BY <1>1, Present, OverwrittenCanonical
<1>4. \A i \in Index(size) :
          b[i] = IF at <= i /\ i < at + s.size THEN s.bit[i - at] ELSE bytes[i]
    BY Present, OverwrittenBits
<1> HIDE DEF b
<1>5. BytesCanonical' /\ Content' = ContentOf(b, size)
    BY <1>2, <1>3, Afterwards
<1>6. [i \in Index(size) |-> b[i]]
      = [i \in Index(size) |->
            IF at <= i /\ i < at + s.size THEN s.bit[i - at] ELSE Content.bit[i]]
    BY <1>4, Present
<1> QED BY <1>1, <1>5, <1>6, Present DEF ContentOf, Strings!Written, Strings!Index, Index

LEMMA SliceStep ==
    ASSUME BytesCanonical, NEW at \in 0..MaxBits, NEW n \in 0..MaxBits, Slice(at, n)
    PROVE  BytesCanonical' /\ Strings!Slice(at, n)
<1> DEFINE b == [i \in 0..(Capacity(n) - 1) |-> IF i < n THEN bytes[at + i] ELSE 0]
<1>1. /\ size \in Nat /\ at \in Nat /\ n \in Nat /\ MaxBits \in Nat /\ size <= MaxBits
      /\ at <= size /\ n <= size - at /\ Capacity(n) \in Nat
    BY Present, CapacityFacts, BitVectorAssumption DEF Slice, BytesCanonical
<1>2. bytes' = b /\ size' = n
    BY DEF Slice
<1>3. ASSUME NEW i \in Nat, i < n PROVE at + i \in Index(size)
    BY <1>1, <1>3 DEF Index
<1>4. \A i \in Index(size) : bytes[i] \in Bit
    BY Present, IndexInBytes DEF Canonical
<1>5. Canonical(b, n)
    <2>1. ASSUME NEW i \in 0..(Capacity(n) - 1) PROVE b[i] \in Bit
        BY <1>1, <1>3, <1>4 DEF Bit
    <2>2. DOMAIN b = 0..(Capacity(n) - 1) /\ \A i \in DOMAIN b : i >= n => b[i] = 0
        BY <1>1
    <2> QED BY <2>1, <2>2 DEF Canonical
<1>6. \A i \in Index(n) : i \in Nat /\ i < n /\ b[i] = bytes[at + i]
    BY <1>1, IndexInBytes
<1> HIDE DEF b
<1>7. BytesCanonical' /\ Content' = ContentOf(b, n)
    BY <1>2, <1>5, Afterwards
<1>8. [i \in Index(n) |-> b[i]] = [i \in Index(n) |-> Content.bit[at + i]]
    BY <1>3, <1>6, Present
<1> QED BY <1>1, <1>7, <1>8, Present
        DEF ContentOf, Slice, Call, Strings!Slice, Strings!Call, Strings!Index, Index

-----------------------------------------------------------------------------

\* A vector that was read from a file, or an empty one.
LEMMA InitCanonical == Init => BytesCanonical /\ Strings!Init
<1> SUFFICES ASSUME Init PROVE BytesCanonical /\ Strings!Init
    OBVIOUS
<1>1. /\ size \in 0..MaxBits /\ size \in Nat /\ Capacity(size) \in Nat
      /\ DOMAIN bytes = 0..(Capacity(size) - 1)
      /\ \A i \in DOMAIN bytes : i >= size => bytes[i] = 0
    BY CapacityFacts, BitVectorAssumption DEF Init, Accepted
<1>2. PICK n \in 0..MaxBits : bytes \in [0..(Capacity(n) - 1) -> Bit]
    BY BitVectorAssumption DEF Init, IsBytes
<1>3. bytes \in [0..(Capacity(size) - 1) -> Bit]
    BY <1>1, <1>2
<1>4. BytesCanonical
    BY <1>1, <1>3 DEF BytesCanonical
<1>5. IsString(Content)
    BY <1>4, Present
<1> QED BY <1>4, <1>5
        DEF Init, IsString, Strings!Init, Strings!IsString, Strings!String, Strings!Index, Index,
            Strings!Bit, Bit, Strings!Start

\* Every call keeps the bytes canonical and does to the string what the
\* abstract call does.
LEMMA StepImplements ==
    BytesCanonical /\ [Next]_vars => BytesCanonical' /\ [Strings!Next]_(Strings!vars)
<1> SUFFICES ASSUME BytesCanonical, [Next]_vars
             PROVE  BytesCanonical' /\ [Strings!Next]_(Strings!vars)
    OBVIOUS
<1>1. ASSUME NEW n \in 0..MaxBits, NEW fill \in Bit, Resize(n, fill)
      PROVE  BytesCanonical' /\ Strings!Next
    BY <1>1, ResizeStep DEF Strings!Next, Strings!Bit, Bit
<1>2. ASSUME NEW v \in Bit, PushBack(v) PROVE BytesCanonical' /\ Strings!Next
    BY <1>2, PushBackStep DEF Strings!Next, Strings!Bit, Bit
<1>3. ASSUME NEW i \in 0..MaxBits, NEW v \in Bit, Set(i, v)
      PROVE  BytesCanonical' /\ Strings!Next
    BY <1>3, SetStep DEF Strings!Next, Strings!Bit, Bit
<1>4. ASSUME NEW s \in Sources, Append(s) PROVE BytesCanonical' /\ Strings!Next
    <2>1. BytesCanonical' /\ Strings!Append(s)
        BY <1>4, AppendedStep, BitVectorAssumption DEF Append, Call, Strings!Append, Strings!Call
    <2> QED BY <2>1 DEF Strings!Next
<1>5. ASSUME AppendSelf PROVE BytesCanonical' /\ Strings!Next
    <2>1. BytesCanonical' /\ Strings!AppendSelf
        BY <1>5, Present, AppendedStep DEF AppendSelf, Call, Strings!AppendSelf, Strings!Call
    <2> QED BY <2>1 DEF Strings!Next
<1>6. ASSUME NEW at \in 0..MaxBits, NEW s \in Sources, Write(at, s)
      PROVE  BytesCanonical' /\ Strings!Next
    <2>1. BytesCanonical' /\ Strings!Write(at, s)
        BY <1>6, WrittenStep, BitVectorAssumption DEF Write, Call, Strings!Write, Strings!Call
    <2> QED BY <2>1 DEF Strings!Next
<1>7. ASSUME WriteSelf PROVE BytesCanonical' /\ Strings!Next
    <2>1. 0 \in 0..MaxBits
        BY BitVectorAssumption
    <2>2. BytesCanonical' /\ Strings!WriteSelf
        BY <1>7, <2>1, Present, WrittenStep DEF WriteSelf, Call, Strings!WriteSelf, Strings!Call
    <2> QED BY <2>2 DEF Strings!Next
<1>8. ASSUME NEW at \in 0..MaxBits, NEW n \in 0..MaxBits, Slice(at, n)
      PROVE  BytesCanonical' /\ Strings!Next
    BY <1>8, SliceStep DEF Strings!Next
<1>9. CASE UNCHANGED vars
    BY <1>9 DEF vars, BytesCanonical, Content, Strings!vars
<1> QED BY <1>1, <1>2, <1>3, <1>4, <1>5, <1>6, <1>7, <1>8, <1>9 DEF Next

-----------------------------------------------------------------------------

(* There are always as many bytes as the bits need, with clean padding, so *)
(* that equality of the bytes is equality of the strings                   *)
(* (bit_vector.cpp, clear_padding_bits).                                   *)
THEOREM VectorCanonical == Spec => []BytesCanonical
<1>1. Init => BytesCanonical
    BY InitCanonical
<1>2. BytesCanonical /\ [Next]_vars => BytesCanonical'
    BY StepImplements
<1> QED BY <1>1, <1>2, PTL DEF Spec

(* Every sequence of calls does to the bytes what it does to a string of   *)
(* bits, also when a vector is appended to itself or written over itself.  *)
THEOREM VectorIsString == Spec => ImplementsBitString
<1>1. Init => Strings!Init
    BY InitCanonical
<1>2. BytesCanonical /\ [Next]_vars => [Strings!Next]_(Strings!vars)
    BY StepImplements
<1> QED BY <1>1, <1>2, VectorCanonical, PTL DEF Spec, ImplementsBitString, Strings!Spec
=============================================================================
