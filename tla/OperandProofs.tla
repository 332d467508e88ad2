--------------------------- MODULE OperandProofs ---------------------------
(***************************************************************************)
(* The two safety properties of Operand for every memory, every set of     *)
(* activations and every limit of indirections, and a bound on how long a  *)
(* command takes.                                                          *)
(*                                                                         *)
(* ResolvesInOwnContext is about circles.  A chase counts its levels; that *)
(* the count is also the number of different places it went through holds  *)
(* only as long as it has not come back to a place it knows.  Once it has, *)
(* it is trapped: the reference in hand is one it has already followed,    *)
(* and so are all those to come.  It can only end by the limit of depth    *)
(* then, never at a place (ChaseKept).                                     *)
(***************************************************************************)
EXTENDS Operand, TLAPS, FiniteSetTheorems

(* What a reference is made of, by its mode.                               *)
LEMMA ReferenceParts ==
    ASSUME NEW r \in Reference
    PROVE  /\ r.mode \in {"immediate", "direct", "indirect", "foreign"}
           /\ r.mode = "immediate" => r.n \in {0, 1}
           /\ r.mode \in {"direct", "indirect"} => r.name \in Names /\ r.offset \in Offset
           /\ r.mode = "foreign" =>
                /\ r.depth \in Nat /\ r.indirect \in BOOLEAN
                /\ r.name \in Names /\ r.offset \in Offset
BY DEF Reference, Names

(* A unit that decodes as a reference is one.                              *)
LEMMA UnitParts ==
    ASSUME NEW u \in Unit, IsReference(u)
    PROVE  u \in Reference
BY DEF Unit, IsReference, Bit

(* resolve_address adds exactly or not at all.                             *)
LEMMA AddressExact ==
    ASSUME NEW i \in Activations, NEW name, NEW offset \in Offset,
           NEW place \in Address(i, name, offset)
    PROVE  /\ name \in DOMAIN Base[i]
           /\ place = Place(Base[i][name].register, Base[i][name].offset + offset)
           /\ place.register \in Registers
           /\ place.offset = Base[i][name].offset + offset
           /\ place.offset \in Offset
<1>1. name \in DOMAIN Base[i]
    BY DEF Address
<1>2. /\ place = Place(Base[i][name].register, Base[i][name].offset + offset)
      /\ offset <= MaxOffset - Base[i][name].offset
    BY DEF Address
<1>3. Base[i][name].register \in Registers /\ Base[i][name].offset \in Offset /\ MaxOffset \in Nat
    BY <1>1, OperandAssumption
<1>4. place.register = Base[i][name].register /\ place.offset = Base[i][name].offset + offset
    BY <1>2 DEF Place
<1>5. \A a, b \in Offset : b <= MaxOffset - a => a + b \in Offset
    BY <1>3 DEF Offset
<1> QED
    BY <1>1, <1>2, <1>3, <1>4, <1>5

(* The place a reference names is exact, lies in a register there is, and  *)
(* is the only one.                                                        *)
LEMMA LocationExact ==
    ASSUME NEW i \in Activations, NEW r \in Reference, NEW place \in Location(i, r)
    PROVE  /\ IsExact(i, r, place)
           /\ place.register \in Registers /\ place.offset \in Offset
           /\ \A other \in Location(i, r) : other = place
<1> DEFINE j == IF r.mode = "foreign" THEN i - r.depth ELSE i
<1>1. r.mode \in {"direct", "indirect", "foreign"} /\ r.offset \in Offset
    BY ReferenceParts DEF Location
<1>2. j \in Activations /\ Location(i, r) = Address(j, r.name, r.offset)
    <2>1. CASE r.mode = "foreign"
        <3>1. /\ r.depth \in Nat /\ ~(r.depth >= i)
              /\ Location(i, r) = Address(i - r.depth, r.name, r.offset)
            BY <2>1, ReferenceParts DEF Location
        <3>2. i - r.depth \in 1..Len(Base)
            BY <3>1, OperandAssumption
        <3> QED
            BY <3>1, <3>2, <2>1, OperandAssumption
    <2>2. CASE r.mode # "foreign"
        BY <2>2, <1>1 DEF Location
    <2> QED
        BY <2>1, <2>2
<1> HIDE DEF j
<1>3. /\ place = Place(Base[j][r.name].register, Base[j][r.name].offset + r.offset)
      /\ place.register \in Registers
      /\ place.offset \in Offset
    BY <1>1, <1>2, AddressExact
<1>4. \A other \in Location(i, r) : other = place
    BY <1>1, <1>2, <1>3, AddressExact
<1>5. place.offset <= MaxOffset
    BY <1>3, OperandAssumption DEF Offset
<1>6. IsExact(i, r, place)
    BY <1>2, <1>3, <1>5 DEF IsExact, j
<1> QED
    BY <1>3, <1>4, <1>6

-----------------------------------------------------------------------------

Places == {t.place : t \in trail}

\* The reference in hand has already been followed.
Known(r, followed) == \E t \in followed : r = t.reference
Trapped == Known(now, trail)

\* What one step of the chase left behind.
StepOK(t) ==
    /\ t.reference \in Reference /\ Follows(t.reference)
    /\ t.place \in Location(context, t.reference)
    /\ t.place.offset < Sizes[t.place.register]
    /\ \A u \in Stored(t.place) : u = now \/ Known(u, trail)

ChaseOK ==
    /\ context \in Activations
    /\ now \in Reference
    /\ depth \in Nat
    /\ \A t \in trail : StepOK(t)
    /\ IsFiniteSet(Places)
    /\ ~Trapped => Cardinality(Places) = depth

OperandInv ==
    /\ IsMemory(memory)
    /\ bits \in Seq(Unit)
    /\ phase \in {"idle", "source", "destination", "error"}
    /\ Chasing => ChaseOK

(* The reference stored at a place is one, it is the only one there, and   *)
(* the place is inside its register.                                       *)
LEMMA StoredIsReference ==
    ASSUME IsMemory(memory), NEW place, place.register \in Registers,
           place.offset \in Offset, NEW r \in Stored(place)
    PROVE  /\ r \in Reference
           /\ \A u \in Stored(place) : u = r
           /\ place.offset < Sizes[place.register]
<1> DEFINE m == memory[place.register]
<1>1. m \in Seq(Unit) /\ Len(m) = Sizes[place.register]
    BY DEF IsMemory
<1>2. Stored(place) = {u \in {m[k] : k \in {place.offset + 1} \cap DOMAIN m} : IsReference(u)}
    BY DEF Stored
<1> HIDE DEF m
<1>3. place.offset + 1 \in DOMAIN m /\ r = m[place.offset + 1] /\ IsReference(r)
    BY <1>2
<1>4. DOMAIN m = 1..Len(m) /\ Len(m) \in Nat
    BY <1>1
<1>5. r \in Unit
    BY <1>1, <1>3, <1>4
<1>6. place.offset \in Nat
    BY OperandAssumption DEF Offset
<1>7. place.offset < Len(m)
    BY <1>3, <1>4, <1>6
<1> QED
    BY <1>1, <1>2, <1>3, <1>5, <1>7, UnitParts

(* A chase begins with nothing behind it.                                  *)
LEMMA BeginChase ==
    ASSUME NEW p, NEW i \in Activations, NEW r \in Operands, Begin(p, i, r)
    PROVE  ChaseOK'
<1>1. context' = i /\ now' = r /\ depth' = 0 /\ trail' = {}
    BY DEF Begin
<1>2. r \in Reference
    BY OperandAssumption
<1>3. Places' = {}
    BY <1>1 DEF Places
<1>4. IsFiniteSet(Places') /\ Cardinality(Places') = 0
    BY <1>3, FS_EmptySet
<1> QED
    BY <1>1, <1>2, <1>4 DEF ChaseOK

(* One level further: a place not met before counts one, and at a place    *)
(* met before the chase is trapped, now if it was not already.             *)
LEMMA ChaseKept ==
    ASSUME IsMemory(memory), ChaseOK, Follow
    PROVE  ChaseOK'
<1>1. PICK place \in Location(context, now) : \E r \in Stored(place) :
        /\ now' = r
        /\ trail' = trail \union {[reference |-> now, place |-> place]}
        /\ context' = context
        /\ depth' = depth + 1
    BY DEF Follow, ContextAfter, DepthAfter
<1> DEFINE s == [reference |-> now, place |-> place]
<1>2. /\ now' \in Stored(place)
      /\ trail' = trail \union {s}
      /\ context' = context
      /\ depth' = depth + 1
      /\ memory' = memory
    BY <1>1 DEF Follow
<1>3. s.reference = now /\ s.place = place
    OBVIOUS
<1> HIDE DEF s
<1>4. context \in Activations /\ now \in Reference /\ depth \in Nat /\ Follows(now)
    BY DEF ChaseOK, Follow
<1>5. /\ place.register \in Registers /\ place.offset \in Offset
      /\ \A other \in Location(context, now) : other = place
    BY <1>4, LocationExact
<1>6. /\ now' \in Reference
      /\ \A u \in Stored(place) : u = now'
      /\ place.offset < Sizes[place.register]
    BY <1>2, <1>5, StoredIsReference
<1>7. \A p : Stored(p)' = Stored(p)
    BY <1>2 DEF Stored
<1>8. \A u : Known(u, trail') <=> (Known(u, trail) \/ u = now)
    BY <1>2, <1>3 DEF Known
<1>9. \A t \in trail : StepOK(t)
    BY DEF ChaseOK
<1>10. \A t \in trail' : StepOK(t)'
    <2> SUFFICES ASSUME NEW t \in trail'
                 PROVE  StepOK(t)'
        OBVIOUS
    <2>1. CASE t \in trail
        <3>1. \A u \in Stored(t.place) : Known(u, trail')
            BY <2>1, <1>9, <1>8 DEF StepOK
        <3>2. /\ t.reference \in Reference /\ Follows(t.reference)
              /\ t.place \in Location(context, t.reference)
              /\ t.place.offset < Sizes[t.place.register]
            BY <2>1, <1>9 DEF StepOK
        <3>3. Location(context', t.reference) = Location(context, t.reference)
            BY <1>2
        <3> QED
            BY <3>1, <3>2, <3>3, <1>7 DEF StepOK
    <2>2. CASE t = s
        <3>1. /\ t.reference \in Reference /\ Follows(t.reference)
              /\ t.place \in Location(context', t.reference)
              /\ t.place.offset < Sizes[t.place.register]
            BY <2>2, <1>2, <1>3, <1>4, <1>6
        <3> QED
            BY <3>1, <2>2, <1>3, <1>6, <1>7 DEF StepOK
    <2> QED
        BY <2>1, <2>2, <1>2
<1>11. Places' = Places \union {place}
    BY <1>2, <1>3 DEF Places
<1>12. IsFiniteSet(Places)
    BY DEF ChaseOK
<1>13. /\ IsFiniteSet(Places')
       /\ place \notin Places => Cardinality(Places') = Cardinality(Places) + 1
    BY <1>11, <1>12, FS_AddElement
<1>14. Trapped => Trapped'
    <2> SUFFICES ASSUME NEW t \in trail, now = t.reference
                 PROVE  Known(now', trail')
        BY DEF Trapped, Known
    <2>1. t.place = place
        BY <1>5, <1>9 DEF StepOK
    <2>2. now' = now \/ Known(now', trail)
        BY <2>1, <1>2, <1>9 DEF StepOK
    <2> QED
        BY <2>2, <1>8
<1>15. place \in Places => Trapped'
    <2> SUFFICES ASSUME NEW t \in trail, place = t.place
                 PROVE  Known(now', trail')
        BY DEF Trapped, Places
    <2>1. now' = now \/ Known(now', trail)
        BY <1>2, <1>9 DEF StepOK
    <2> QED
        BY <2>1, <1>8
<1>16. ~Trapped' => Cardinality(Places') = depth'
    BY <1>2, <1>13, <1>14, <1>15 DEF ChaseOK
<1> QED
    BY <1>2, <1>4, <1>6, <1>10, <1>13, <1>16 DEF ChaseOK

-----------------------------------------------------------------------------

(* An immediate gives no bit or one.                                       *)
LEMMA ImmediateIsBits ==
    ASSUME NEW r \in Reference, r.mode = "immediate"
    PROVE  ImmediateBits(r.n) \in Seq(Unit)
<1>1. r.n \in {0, 1}
    BY ReferenceParts
<1>2. Bit(0) \in Unit /\ Bit(1) \in Unit
    BY DEF Unit
<1> HIDE DEF Unit
<1> QED
    BY <1>1, <1>2 DEF ImmediateBits

(* Reading a range that the register holds gives that many units.          *)
LEMMA RangeIsUnits ==
    ASSUME IsMemory(memory), NEW place, place.register \in Registers,
           place.offset \in Offset, NEW count \in Nat, Holds(place, count)
    PROVE  BitsAt(place, count) \in Seq(Unit)
<1> DEFINE m == memory[place.register]
<1>1. m \in Seq(Unit) /\ Len(m) = Sizes[place.register]
    BY DEF IsMemory
<1>2. place.offset \in Nat
    BY OperandAssumption DEF Offset
<1>3. place.offset <= Len(m) /\ count <= Len(m) - place.offset
    BY <1>1 DEF Holds
<1>4. BitsAt(place, count) = SubSeq(m, place.offset + 1, place.offset + count)
    BY DEF BitsAt
<1> HIDE DEF m, Unit
<1>5. Len(m) \in Nat
    BY <1>1
<1>6. place.offset + 1 \in 1..(Len(m) + 1) /\ place.offset + count \in 0..Len(m)
    BY <1>2, <1>3, <1>5
<1>7. \A k \in (place.offset + 1)..(place.offset + count) : m[k] \in Unit
    BY <1>1, <1>2, <1>3, <1>5
<1> QED
    BY <1>1, <1>2, <1>4, <1>6, <1>7

(* The elements of two sequences put together.                              *)
LEMMA Concatenation ==
    ASSUME NEW S, NEW a \in Seq(S), NEW b \in Seq(S)
    PROVE  /\ a \o b \in Seq(S) /\ Len(a \o b) = Len(a) + Len(b)
           /\ \A k \in 1..(Len(a) + Len(b)) :
                (a \o b)[k] = IF k <= Len(a) THEN a[k] ELSE b[k - Len(a)]
OBVIOUS

\* What stands at a position of the register after a write.
Written(place, value, k) ==
    CASE k <= place.offset -> memory[place.register][k]
      [] k > place.offset + Len(value) -> Zero
      [] OTHER -> value[k - place.offset]

(* What write_destination leaves in the register: the part before the      *)
(* destination, the value, and zeros to the end.                           *)
LEMMA WrittenRegister ==
    ASSUME IsMemory(memory), NEW place, place.register \in Registers,
           place.offset \in Offset, NEW value \in Seq(Unit), Holds(place, Len(value)),
           NEW m, m = SubSeq(memory[place.register], 1, place.offset) \o Filled(place, value)
    PROVE  /\ m \in Seq(Unit) /\ Len(m) = Sizes[place.register]
           /\ \A k \in 1..Len(m) : m[k] = Written(place, value, k)
<1> DEFINE old == memory[place.register]
           size == Sizes[place.register]
           offset == place.offset
           n == Len(value)
           zeros == [k \in 1..(size - offset - n) |-> Zero]
           head == SubSeq(old, 1, offset)
<1>1. old \in Seq(Unit) /\ Len(old) = size
    BY DEF IsMemory
<1>2. offset \in Nat
    BY OperandAssumption DEF Offset
<1>3. offset <= size /\ n <= size - offset
    BY DEF Holds
<1>4. m = head \o (value \o zeros)
    BY DEF Filled
<1>5. Zero \in Unit
    BY DEF Unit, Zero
<1>6. old = memory[place.register] /\ size = Sizes[place.register] /\ offset = place.offset
      /\ n = Len(value)
    OBVIOUS
<1>7. n \in Nat
    OBVIOUS
<1> HIDE DEF Unit, Zero, old, size, offset, n
<1>8. size \in Nat
    BY <1>1
<1>9. size - offset - n \in Nat
    BY <1>2, <1>3, <1>7, <1>8
<1>10. zeros \in Seq(Unit) /\ Len(zeros) = size - offset - n
       /\ \A k \in 1..(size - offset - n) : zeros[k] = Zero
    BY <1>5, <1>9
<1>11. head \in Seq(Unit) /\ Len(head) = offset /\ \A k \in 1..offset : head[k] = old[k]
    BY <1>1, <1>2, <1>3, <1>8
<1> HIDE DEF zeros, head
<1> DEFINE tail == value \o zeros
<1>12. /\ tail \in Seq(Unit) /\ Len(tail) = size - offset
       /\ \A k \in 1..(size - offset) : tail[k] = IF k <= n THEN value[k] ELSE zeros[k - n]
    <2>1. value \in Seq(Unit) /\ Len(value) = n
        BY <1>6
    <2>2. n + (size - offset - n) = size - offset
        BY <1>2, <1>7, <1>8
    <2>3. zeros \in Seq(Unit) /\ Len(zeros) = size - offset - n
        BY <1>10
    <2>4. /\ tail \in Seq(Unit) /\ Len(tail) = Len(value) + Len(zeros)
          /\ \A k \in 1..(Len(value) + Len(zeros)) :
                tail[k] = IF k <= Len(value) THEN value[k] ELSE zeros[k - Len(value)]
        BY <2>1, <2>3, Concatenation, Zenon
    <2> HIDE DEF tail
    <2> QED
        BY <2>1, <2>2, <2>3, <2>4
<1>13. m = head \o tail
    BY <1>4
<1> HIDE DEF tail
<1>14. /\ m \in Seq(Unit) /\ Len(m) = size
       /\ \A k \in 1..size : m[k] = IF k <= offset THEN head[k] ELSE tail[k - offset]
    <2>1. offset + (size - offset) = size
        BY <1>2, <1>8
    <2>2. /\ head \in Seq(Unit) /\ tail \in Seq(Unit)
          /\ Len(head) = offset /\ Len(tail) = size - offset
        BY <1>11, <1>12
    <2>3. /\ head \o tail \in Seq(Unit) /\ Len(head \o tail) = Len(head) + Len(tail)
          /\ \A k \in 1..(Len(head) + Len(tail)) :
                (head \o tail)[k] = IF k <= Len(head) THEN head[k] ELSE tail[k - Len(head)]
        BY <2>2, Concatenation, Zenon
    <2>4. /\ m \in Seq(Unit) /\ Len(m) = size
          /\ \A k \in 1..(Len(head) + Len(tail)) :
                m[k] = IF k <= Len(head) THEN head[k] ELSE tail[k - Len(head)]
        BY <1>13, <2>1, <2>2, <2>3
    <2> QED
        BY <2>1, <2>2, <2>4
<1>15. ASSUME NEW k \in 1..size
       PROVE  m[k] = CASE k <= offset -> old[k]
                       [] k > offset + n -> Zero
                       [] OTHER -> value[k - offset]
    <2>1. CASE k <= offset
        <3>1. k \in 1..offset /\ ~(k > offset + n)
            BY <2>1, <1>2, <1>7, <1>8
        <3>2. m[k] = head[k] /\ head[k] = old[k]
            BY <3>1, <2>1, <1>11, <1>14
        <3> QED
            BY <3>1, <3>2, <2>1, Zenon
    <2>2. CASE k > offset + n
        <3>1. ~(k <= offset) /\ k - offset \in 1..(size - offset) /\ ~(k - offset <= n)
              /\ k - offset - n \in 1..(size - offset - n)
            BY <2>2, <1>2, <1>3, <1>7, <1>8
        <3>2. m[k] = zeros[k - offset - n]
            BY <3>1, <1>12, <1>14
        <3> QED
            BY <3>1, <3>2, <2>2, <1>10
    <2>3. CASE ~(k <= offset) /\ ~(k > offset + n)
        <3>1. k - offset \in 1..(size - offset) /\ k - offset <= n
            BY <2>3, <1>2, <1>3, <1>7, <1>8
        <3> QED
            BY <3>1, <2>3, <1>12, <1>14
    <2> QED
        BY <2>1, <2>2, <2>3
<1> QED
    BY <1>6, <1>14, <1>15 DEF Written

-----------------------------------------------------------------------------

(* A write keeps what memory is and changes one register as WrittenRegister *)
(* says.                                                                   *)
LEMMA WriteMemory ==
    ASSUME OperandInv, Write
    PROVE  /\ IsMemory(memory')
           /\ \E place \in Location(context, now) :
                /\ place.register \in Registers \ ReadOnly /\ place.offset \in Offset
                /\ place = Place(place.register, place.offset)
                /\ \A q \in Registers \ {place.register} : memory'[q] = memory[q]
                /\ DOMAIN memory'[place.register] = DOMAIN memory[place.register]
                /\ \A k \in DOMAIN memory[place.register] :
                    memory'[place.register][k] = Written(place, bits, k)
<1>1. Chasing /\ ChaseOK /\ IsMemory(memory) /\ bits \in Seq(Unit)
    BY DEF OperandInv, Write, Chasing
<1>2. PICK place \in Arrived :
        /\ DestinationOK(place, bits)
        /\ memory' = [memory EXCEPT ![place.register] =
                        SubSeq(memory[place.register], 1, place.offset) \o Filled(place, bits)]
    BY DEF Write
<1>3. place \in Location(context, now) /\ context \in Activations /\ now \in Reference
    BY <1>1 DEF Arrived, ChaseOK
<1>4. /\ place.register \in Registers /\ place.offset \in Offset
      /\ IsExact(context, now, place)
    BY <1>3, LocationExact
<1>5. place = Place(place.register, place.offset)
    BY <1>4 DEF IsExact, Place
<1>6. place.register \notin ReadOnly /\ Holds(place, Len(bits))
    BY <1>2 DEF DestinationOK
<1> DEFINE m == SubSeq(memory[place.register], 1, place.offset) \o Filled(place, bits)
<1>7. /\ memory' = [memory EXCEPT ![place.register] = m]
      /\ m = SubSeq(memory[place.register], 1, place.offset) \o Filled(place, bits)
    BY <1>2
<1> HIDE DEF m, Unit
<1>8. /\ m \in Seq(Unit) /\ Len(m) = Sizes[place.register]
      /\ \A k \in 1..Len(m) : m[k] = Written(place, bits, k)
    BY <1>1, <1>4, <1>6, <1>7, WrittenRegister, Zenon
<1>9. memory \in [Registers -> Seq(Unit)] /\ \A r \in Registers : Len(memory[r]) = Sizes[r]
    BY <1>1 DEF IsMemory
<1>10. /\ memory' \in [Registers -> Seq(Unit)]
       /\ memory'[place.register] = m
       /\ \A q \in Registers \ {place.register} : memory'[q] = memory[q]
    BY <1>4, <1>7, <1>8, <1>9
<1>11. IsMemory(memory')
    BY <1>8, <1>9, <1>10 DEF IsMemory
<1>12. DOMAIN m = 1..Len(m) /\ DOMAIN memory[place.register] = 1..Len(m)
    BY <1>4, <1>8, <1>9
<1> QED
    BY <1>3, <1>4, <1>5, <1>6, <1>8, <1>10, <1>11, <1>12

(* Whatever a command does, what it holds stays of its kind.               *)
LEMMA OperandStep ==
    ASSUME OperandInv, [Next]_vars
    PROVE  OperandInv'
<1>1. IsMemory(memory) /\ bits \in Seq(Unit) /\ (Chasing => ChaseOK)
    BY DEF OperandInv
<1>2. <<>> \in Seq(Unit)
    OBVIOUS
<1> HIDE DEF Unit
<1>3. CASE Follow
    <2>1. UNCHANGED <<memory, phase, bits>> /\ Chasing
        BY <1>3 DEF Follow
    <2>2. ChaseOK'
        BY <1>1, <1>3, <2>1, ChaseKept
    <2> QED
        BY <2>1, <2>2 DEF OperandInv, Chasing
<1>4. ASSUME NEW i \in Activations, NEW r \in Operands, ReadImmediate(i, r)
      PROVE  OperandInv'
    <2>1. ChaseOK'
        BY <1>4, BeginChase DEF ReadImmediate
    <2>2. now \in Reference /\ now.mode = "immediate"
        BY <1>1, <1>4 DEF ReadImmediate, Chasing, ChaseOK
    <2>3. bits' \in Seq(Unit)
        BY <1>4, <2>2, ImmediateIsBits DEF ReadImmediate
    <2>4. memory' = memory /\ phase' = "destination"
        BY <1>4 DEF ReadImmediate, Begin
    <2> QED
        BY <1>1, <2>1, <2>3, <2>4 DEF OperandInv
<1>5. ASSUME NEW count \in Counts, NEW i \in Activations, NEW r \in Operands,
             ReadBits(count, i, r)
      PROVE  OperandInv'
    <2>1. ChaseOK'
        BY <1>5, BeginChase DEF ReadBits
    <2>2. PICK place \in Arrived : Holds(place, count) /\ bits' = BitsAt(place, count)
        BY <1>5 DEF ReadBits
    <2>3. place \in Location(context, now) /\ context \in Activations /\ now \in Reference
        BY <1>1, <1>5, <2>2 DEF ReadBits, Chasing, ChaseOK, Arrived
    <2>4. place.register \in Registers /\ place.offset \in Offset
        BY <2>3, LocationExact
    <2>5. count \in Nat
        BY DEF Counts
    <2>6. bits' \in Seq(Unit)
        BY <1>1, <2>2, <2>4, <2>5, RangeIsUnits
    <2>7. memory' = memory /\ phase' = "destination"
        BY <1>5 DEF ReadBits, Begin
    <2> QED
        BY <1>1, <2>1, <2>6, <2>7 DEF OperandInv
<1>6. CASE Write
    <2>1. IsMemory(memory')
        BY <1>6, WriteMemory
    <2>2. phase' = "idle" /\ bits' = <<>>
        BY <1>6 DEF Write
    <2> QED
        BY <1>2, <2>1, <2>2 DEF OperandInv, Chasing
<1>7. ASSUME NEW count \in Counts, Fail(count)
      PROVE  OperandInv'
    <2>1. phase' = "error" /\ bits' = <<>> /\ memory' = memory
        BY <1>7 DEF Fail
    <2> QED
        BY <1>1, <1>2, <2>1 DEF OperandInv, Chasing
<1>8. CASE Recover
    <2>1. phase' = "idle" /\ bits' = bits /\ memory' = memory
        BY <1>8 DEF Recover
    <2> QED
        BY <1>1, <2>1 DEF OperandInv, Chasing
<1>9. ASSUME NEW i \in Activations, NEW r \in Operands, BeginSource(i, r)
      PROVE  OperandInv'
    <2>1. ChaseOK'
        BY <1>9, BeginChase DEF BeginSource
    <2>2. bits' = bits /\ memory' = memory /\ phase' = "source"
        BY <1>9 DEF BeginSource, Begin
    <2> QED
        BY <1>1, <2>1, <2>2 DEF OperandInv
<1>10. CASE UNCHANGED vars
    <2>1. UNCHANGED <<memory, phase, context, now, depth, trail, bits>>
        BY <1>10 DEF vars
    <2> QED
        BY <2>1 DEF OperandInv, Chasing, ChaseOK, Trapped, Known, Places, StepOK, Stored
<1> QED
    BY <1>3, <1>4, <1>5, <1>6, <1>7, <1>8, <1>9, <1>10 DEF Next, Proceed

(* The units of every register keep their number and their kind, and a     *)
(* chase is what ChaseOK says.                                             *)
THEOREM ChasesAreSound == Spec => []OperandInv
<1>1. Init => OperandInv
    <2> SUFFICES ASSUME Init
                 PROVE  OperandInv
        OBVIOUS
    <2>1. IsMemory(memory)
        BY OperandAssumption DEF Init
    <2>2. bits \in Seq(Unit) /\ phase = "idle"
        BY DEF Init
    <2> QED
        BY <2>1, <2>2 DEF OperandInv, Chasing
<1> QED
    BY <1>1, OperandStep, PTL DEF Spec

(* A chase that has arrived has not been trapped, so that it counted each  *)
(* place it went through once.                                             *)
LEMMA ArrivedOnce ==
    ASSUME OperandInv
    PROVE  ResolvesInOwnContext
<1> SUFFICES ASSUME Chasing
             PROVE  /\ context \in Activations
                    /\ \A t \in trail :
                        /\ IsExact(context, t.reference, t.place)
                        /\ t.place.offset < Sizes[t.place.register]
                    /\ \A place \in Arrived :
                        /\ IsExact(context, now, place)
                        /\ Cardinality({t.place : t \in trail}) = depth
                        /\ depth <= MaxDepth
    BY DEF ResolvesInOwnContext
<1>1. ChaseOK
    BY DEF OperandInv
<1>2. context \in Activations /\ now \in Reference
    BY <1>1 DEF ChaseOK
<1>3. ASSUME NEW t \in trail
      PROVE  /\ IsExact(context, t.reference, t.place)
             /\ t.place.offset < Sizes[t.place.register]
    <2>1. StepOK(t)
        BY <1>1 DEF ChaseOK
    <2> QED
        BY <1>2, <2>1, LocationExact DEF StepOK
<1>4. ASSUME NEW place \in Arrived
      PROVE  /\ IsExact(context, now, place)
             /\ Cardinality({t.place : t \in trail}) = depth
             /\ depth <= MaxDepth
    <2>1. place \in Location(context, now) /\ WithinDepth /\ ~Follows(now)
        BY DEF Arrived
    <2>2. ~Trapped
        BY <1>1, <2>1 DEF Trapped, Known, ChaseOK, StepOK
    <2>3. Cardinality(Places) = depth
        BY <1>1, <2>2 DEF ChaseOK
    <2> QED
        BY <1>2, <2>1, <2>3, LocationExact DEF Places, WithinDepth
<1> QED
    BY <1>2, <1>3, <1>4

(* docs/specification-v2.md, sections 4 and 5: a chase that arrives went   *)
(* by exact sums through places inside their registers, none twice, each   *)
(* reference resolved in the operand's activation, in at most MaxDepth     *)
(* levels (resolve_reference_impl).                                        *)
THEOREM ChasesResolveInOwnContext == Spec => []ResolvesInOwnContext
BY ChasesAreSound, ArrivedOnce, PTL

(* COPY changes memory only when it has succeeded, in one register that    *)
(* may be written, to the bits of the source and zeros after them          *)
(* (write_destination).                                                    *)
THEOREM CommandsWriteValueAndZeros == Spec => WritesValueAndZeros
<1> DEFINE Changed ==
        memory' # memory =>
            /\ phase = "destination"
            /\ \E r \in Registers \ ReadOnly, offset \in 0..MaxOffset :
                /\ Place(r, offset) \in Location(context, now)
                /\ \A q \in Registers \ {r} : memory'[q] = memory[q]
                /\ DOMAIN memory'[r] = DOMAIN memory[r]
                /\ \A k \in DOMAIN memory[r] :
                    memory'[r][k] = CASE k <= offset -> memory[r][k]
                                      [] k > offset + Len(bits) -> Zero
                                      [] OTHER -> bits[k - offset]
<1>1. OperandInv /\ [Next]_vars => [Changed]_vars
    <2> SUFFICES ASSUME OperandInv, [Next]_vars, memory' # memory
                 PROVE  Changed
        OBVIOUS
    <2>1. Write
        <3>1. ~UNCHANGED vars
            BY DEF vars
        <3>2. ~Follow /\ ~Recover
            BY DEF Follow, Recover
        <3>3. \A i \in Activations, r \in Operands : ~ReadImmediate(i, r) /\ ~BeginSource(i, r)
            BY DEF ReadImmediate, BeginSource
        <3>4. \A count \in Counts, i \in Activations, r \in Operands : ~ReadBits(count, i, r)
            BY DEF ReadBits
        <3>5. \A count \in Counts : ~Fail(count)
            BY DEF Fail
        <3> QED
            BY <3>1, <3>2, <3>3, <3>4, <3>5 DEF Next, Proceed
    <2>2. phase = "destination"
        BY <2>1 DEF Write
    <2> QED
        BY <2>1, <2>2, WriteMemory DEF Offset, Written, Place
<1> QED
    BY <1>1, ChasesAreSound, PTL DEF Spec, WritesValueAndZeros

-----------------------------------------------------------------------------
(* A command ends because its chases are counted down, the one of the      *)
(* source and the one of the destination.  This is the part of CommandEnds *)
(* that needs no fairness.                                                 *)

LevelsLeft == (IF phase = "source" THEN MaxDepth + 2 ELSE 0) + (MaxDepth + 1 - depth)

DepthOK == Chasing => depth \in 0..(MaxDepth + 1)

CountsDown == Chasing /\ Chasing' => LevelsLeft' < LevelsLeft

(* The steps that keep a command going each use up a level, or go from the *)
(* source to the destination.                                              *)
LEMMA ChaseSteps ==
    ASSUME DepthOK, [Next]_vars, ~UNCHANGED vars, Chasing'
    PROVE  \/ Chasing /\ phase' = phase /\ depth <= MaxDepth /\ depth' = depth + 1
           \/ phase = "source" /\ phase' = "destination" /\ depth' = 0
           \/ ~Chasing /\ depth' = 0
<1>1. CASE Follow
    BY <1>1 DEF Follow, DepthAfter, WithinDepth
<1>2. ASSUME NEW i \in Activations, NEW r \in Operands, ReadImmediate(i, r)
      PROVE  phase = "source" /\ phase' = "destination" /\ depth' = 0
    BY <1>2 DEF ReadImmediate, Begin
<1>3. ASSUME NEW count \in Counts, NEW i \in Activations, NEW r \in Operands,
             ReadBits(count, i, r)
      PROVE  phase = "source" /\ phase' = "destination" /\ depth' = 0
    BY <1>3 DEF ReadBits, Begin
<1>4. ~Write /\ ~Recover /\ \A count \in Counts : ~Fail(count)
    BY DEF Write, Recover, Fail, Chasing
<1>5. ASSUME NEW i \in Activations, NEW r \in Operands, BeginSource(i, r)
      PROVE  ~Chasing /\ depth' = 0
    BY <1>5 DEF BeginSource, Begin, Chasing
<1> QED
    BY <1>1, <1>2, <1>3, <1>4, <1>5 DEF Next, Proceed

(* However references lead to each other, also in circles, a command goes  *)
(* on for at most 2 * MaxDepth + 3 steps before the one that ends it       *)
(* (resolve_reference_impl with its depth limit, once for the source and   *)
(* once for the destination).                                              *)
THEOREM CommandsAreBounded ==
    Spec => /\ [](Chasing => LevelsLeft \in 0..(2 * MaxDepth + 3))
            /\ [][CountsDown]_vars
<1>1. Init => DepthOK
    BY DEF Init, DepthOK, Chasing
<1>2. MaxDepth \in Nat
    BY OperandAssumption
<1>3. ASSUME DepthOK, [Next]_vars
      PROVE  DepthOK' /\ [CountsDown]_vars
    <2>1. CASE UNCHANGED vars
        BY <1>3, <2>1 DEF vars, DepthOK, Chasing
    <2>2. CASE ~UNCHANGED vars /\ ~Chasing'
        BY <2>2 DEF DepthOK, CountsDown
    <2>3. CASE ~UNCHANGED vars /\ Chasing'
        <3>1. CASE Chasing /\ phase' = phase /\ depth <= MaxDepth /\ depth' = depth + 1
            BY <1>2, <1>3, <3>1 DEF DepthOK, CountsDown, LevelsLeft
        <3>2. CASE phase = "source" /\ phase' = "destination" /\ depth' = 0
            <4>1. depth \in 0..(MaxDepth + 1)
                BY <1>3, <3>2 DEF DepthOK, Chasing
            <4> QED
                BY <1>2, <3>2, <4>1 DEF DepthOK, CountsDown, LevelsLeft
        <3>3. CASE ~Chasing /\ depth' = 0
            BY <1>2, <3>3 DEF DepthOK, CountsDown
        <3> QED
            BY <1>3, <2>3, <3>1, <3>2, <3>3, ChaseSteps
    <2> QED
        BY <2>1, <2>2, <2>3
<1>4. DepthOK => (Chasing => LevelsLeft \in 0..(2 * MaxDepth + 3))
    BY <1>2 DEF DepthOK, LevelsLeft
<1> QED
    BY <1>1, <1>3, <1>4, PTL DEF Spec
=============================================================================
