------------------------- MODULE BankAndStepProofs --------------------------
(***************************************************************************)
(* The two components a failing command relies on.                         *)
(*                                                                         *)
(* First the register bank, for id spaces and registers of every size.     *)
(* IdsBelowNext is not inductive: it speaks of the ids that were ever      *)
(* used, and a step adds the live ones, so the invariant must say that the *)
(* live ids are among the used ones.                                       *)
(*                                                                         *)
(* Then the step of the machine, which is atomic for every set of values,  *)
(* every notion of coherence, every limit and every number of changes a    *)
(* step makes; and a run is bounded by the steps its host allows.          *)
(***************************************************************************)
EXTENDS RegisterBank, StepTransaction, RegistersProofs, FiniteSetTheorems

BitStrings == Seq({0, 1})

BankInv == TypeOK /\ LiveIds(bank) \subseteq used /\ IdsBelowNext

\* What an operation makes of the bank.
StaysSafe(b) ==
    /\ IsBank(b, BitStrings)
    /\ b.next >= bank.next
    /\ \A id \in LiveIds(b) : id < b.next

Keeps(b) ==
    \A h \in DOMAIN bank.entries :
        /\ IsImmutable(bank, h) /\ Exists(b, h) =>
               IsImmutable(b, h) /\ Contents(b, h) = Contents(bank, h)
        /\ bank.entries[h].protected => Exists(b, h) /\ b.entries[h] = bank.entries[h]

-----------------------------------------------------------------------------
(* Bits. *)

LEMMA BitsAreBits == Bits \subseteq BitStrings
BY MaxSizeAssumption DEF Bits, BitStrings

(* BitVector::resize returns bits. *)
LEMMA ResizedBitsType ==
    ASSUME NEW s \in BitStrings, NEW n \in Nat, NEW fill \in {0, 1}
    PROVE  ResizedBits(s, n, fill) \in BitStrings
<1>1. \A i \in 1..n : (IF i <= Len(s) THEN s[i] ELSE fill) \in {0, 1}
  BY DEF BitStrings
<1>2. ResizedBits(s, n, fill) \in [1..n -> {0, 1}]
  BY <1>1 DEF ResizedBits
<1> QED
  BY <1>2 DEF BitStrings

(* BitVector::write returns bits, as many as there were. *)
LEMMA WrittenBitsType ==
    ASSUME NEW s \in BitStrings, NEW value \in BitStrings, NEW offset \in Nat
    PROVE  WrittenBits(s, offset, value) \in BitStrings
<1>1. \A i \in 1..Len(s) :
          (IF i > offset /\ i <= offset + Len(value)
           THEN value[i - offset] ELSE s[i]) \in {0, 1}
  BY DEF BitStrings
<1>2. WrittenBits(s, offset, value) \in [1..Len(s) -> {0, 1}]
  BY <1>1 DEF WrittenBits
<1>3. Len(s) \in Nat
  BY DEF BitStrings
<1> QED
  BY <1>2, <1>3 DEF BitStrings

LEMMA ContentsType ==
    ASSUME TypeOK, NEW h, Exists(bank, h)
    PROVE  Contents(bank, h) \in BitStrings /\ bank.entries[h] \in EntryOf(BitStrings)
BY DEF TypeOK, IsBank, EntryOf, Exists, Contents, BitStrings

-----------------------------------------------------------------------------
(* The operations. *)

(* What BankInv says of the bank itself. *)
LEMMA InvBank ==
    ASSUME BankInv
    PROVE  /\ IsBank(bank, BitStrings) /\ bank.next \in Nat
           /\ \A id \in LiveIds(bank) : id < bank.next /\ id \in Nat
           /\ DOMAIN bank.entries \subseteq Handle
BY RegistersAssumption
   DEF BankInv, TypeOK, IdsBelowNext, BitStrings, IsBank, LiveIds, Id

(* create: the new id is the old next, which no register had. *)
LEMMA CreateStep ==
    ASSUME BankInv, NEW c \in BitStrings, NEW immutable \in BOOLEAN, CanCreate(bank)
    PROVE  StaysSafe(Create(bank, c, immutable)) /\ Keeps(Create(bank, c, immutable))
<1> DEFINE b == Create(bank, c, immutable)
<1>1. IsBank(bank, BitStrings)
  BY InvBank
<1>2. /\ IsBank(Create(bank, c, immutable), BitStrings)
      /\ bank.next \in Id
      /\ Create(bank, c, immutable).next = bank.next + 1
      /\ DOMAIN Create(bank, c, immutable).entries = DOMAIN bank.entries \cup {bank.next}
      /\ Create(bank, c, immutable).entries[bank.next] =
             [contents |-> c, immutable |-> immutable, protected |-> FALSE]
      /\ \A k \in DOMAIN bank.entries :
             Create(bank, c, immutable).entries[k] = bank.entries[k]
  BY <1>1, CreateBank
<1> HIDE DEF b
<1>3. StaysSafe(b)
  BY <1>2, InvBank DEF StaysSafe, LiveIds, b
<1>4. Keeps(b)
  BY <1>2 DEF Keeps, Exists, IsImmutable, Contents, b
<1> QED
  BY <1>3, <1>4 DEF b

(* insert, and resize_or_create at a free id. *)
LEMMA InsertStep ==
    ASSUME BankInv, NEW c \in BitStrings, NEW immutable \in BOOLEAN,
           NEW id, CanInsert(bank, id)
    PROVE  StaysSafe(Insert(bank, id, c, immutable)) /\ Keeps(Insert(bank, id, c, immutable))
<1> DEFINE b == Insert(bank, id, c, immutable)
<1>1. IsBank(bank, BitStrings)
  BY InvBank
<1>2. /\ IsBank(Insert(bank, id, c, immutable), BitStrings)
      /\ Insert(bank, id, c, immutable).next > id
      /\ Insert(bank, id, c, immutable).next >= bank.next
      /\ DOMAIN Insert(bank, id, c, immutable).entries = DOMAIN bank.entries \cup {id}
      /\ \A k \in DOMAIN bank.entries :
             Insert(bank, id, c, immutable).entries[k] = bank.entries[k]
  BY <1>1, InsertBank
<1> HIDE DEF b
<1>3. id \in Nat
  BY RegistersAssumption DEF CanInsert, Id
<1>4. b.next \in Nat
  BY <1>2, RegistersAssumption DEF b, IsBank
<1>5. StaysSafe(b)
  BY <1>2, <1>3, <1>4, InvBank DEF StaysSafe, LiveIds, b
<1>6. Keeps(b)
  BY <1>2 DEF Keeps, Exists, IsImmutable, Contents, b
<1> QED
  BY <1>5, <1>6 DEF b

(* resize to a size, write and replace: only an unlocked register. *)
LEMMA ChangeStep ==
    ASSUME BankInv, NEW h, CanChange(bank, h), NEW c \in BitStrings
    PROVE  StaysSafe(SetContents(bank, h, c)) /\ Keeps(SetContents(bank, h, c))
<1> DEFINE b == SetContents(bank, h, c)
<1>1. IsBank(bank, BitStrings) /\ Exists(bank, h)
  BY InvBank DEF CanChange
<1>2. /\ IsBank(SetContents(bank, h, c), BitStrings)
      /\ SetContents(bank, h, c).next = bank.next
      /\ DOMAIN SetContents(bank, h, c).entries = DOMAIN bank.entries
      /\ SetContents(bank, h, c).entries[h] = [bank.entries[h] EXCEPT !.contents = c]
      /\ \A k \in DOMAIN bank.entries \ {h} :
             SetContents(bank, h, c).entries[k] = bank.entries[k]
  BY <1>1, SetContentsBank
<1> HIDE DEF b
<1>3. StaysSafe(b)
  BY <1>2, InvBank DEF StaysSafe, LiveIds, b
<1>4. ~bank.entries[h].immutable /\ ~bank.entries[h].protected
  BY DEF CanChange, Locked
<1>5. Keeps(b)
  BY <1>2, <1>4 DEF Keeps, Exists, IsImmutable, Contents, b
<1> QED
  BY <1>3, <1>5 DEF b

(* erase, and a resize to zero: never a protected register. *)
LEMMA WithoutStep ==
    ASSUME BankInv, NEW h, Exists(bank, h), ~bank.entries[h].protected
    PROVE  StaysSafe(Without(bank, h)) /\ Keeps(Without(bank, h))
<1> DEFINE b == Without(bank, h)
<1>1. IsBank(bank, BitStrings)
  BY InvBank
<1>2. /\ IsBank(Without(bank, h), BitStrings)
      /\ Without(bank, h).next = bank.next
      /\ DOMAIN Without(bank, h).entries = DOMAIN bank.entries \ {h}
      /\ \A k \in DOMAIN bank.entries \ {h} :
             Without(bank, h).entries[k] = bank.entries[k]
  BY <1>1, WithoutBank
<1> HIDE DEF b
<1>3. StaysSafe(b)
  BY <1>2, InvBank DEF StaysSafe, LiveIds, b
<1>4. Keeps(b)
  BY <1>2 DEF Keeps, Exists, IsImmutable, Contents, b
<1> QED
  BY <1>3, <1>4 DEF b

(* An operation that does nothing. *)
LEMMA NoStep == ASSUME BankInv PROVE StaysSafe(bank) /\ Keeps(bank)
BY InvBank DEF StaysSafe, Keeps, Exists

(* protect_existing sets one flag everywhere. *)
LEMMA ProtectStep ==
    ASSUME BankInv
    PROVE  StaysSafe(ProtectExisting(bank)) /\ Keeps(ProtectExisting(bank))
<1> DEFINE f == [h \in DOMAIN bank.entries |-> [bank.entries[h] EXCEPT !.protected = TRUE]]
           b == ProtectExisting(bank)
<1>1. /\ bank = [entries |-> bank.entries, next |-> bank.next]
      /\ DOMAIN bank.entries \subseteq Handle
      /\ \A h \in DOMAIN bank.entries : bank.entries[h] \in EntryOf(BitStrings)
      /\ bank.next \in 0..(MaxId + 1)
  BY InvBank, BankFields
<1>2. \A h \in DOMAIN bank.entries :
          /\ [bank.entries[h] EXCEPT !.protected = TRUE] \in EntryOf(BitStrings)
          /\ bank.entries[h].protected =>
                 [bank.entries[h] EXCEPT !.protected = TRUE] = bank.entries[h]
          /\ [bank.entries[h] EXCEPT !.protected = TRUE].immutable =
                 bank.entries[h].immutable
          /\ [bank.entries[h] EXCEPT !.protected = TRUE].contents =
                 bank.entries[h].contents
  BY <1>1 DEF EntryOf
<1>3. f \in [DOMAIN bank.entries -> EntryOf(BitStrings)] /\ DOMAIN f = DOMAIN bank.entries
  BY <1>2
<1>4. b = [entries |-> f, next |-> bank.next]
  <2>1. b = [bank EXCEPT !.entries = f]
    BY DEF ProtectExisting
  <2> HIDE DEF b, f
  <2> QED
    BY <1>1, <2>1, TableReplaced
<1>f. \A h \in DOMAIN bank.entries : f[h] = [bank.entries[h] EXCEPT !.protected = TRUE]
  OBVIOUS
<1> HIDE DEF f, b
<1>5. Keeps(b)
  <2>1. b.entries = f
    BY <1>4
  <2> QED
    BY <1>2, <1>3, <1>f, <2>1 DEF Keeps, Exists, IsImmutable, Contents
<1>6. IsBank(b, BitStrings)
  BY <1>1, <1>3, <1>4 DEF IsBank
<1>7. StaysSafe(b)
  BY <1>3, <1>4, <1>6, InvBank DEF StaysSafe, LiveIds
<1> QED
  BY <1>5, <1>7 DEF b
-----------------------------------------------------------------------------
(* Every step is one of those, and the history follows the bank. *)

LEMMA NextStep ==
    ASSUME BankInv, BankNext
    PROVE  \E b : Becomes(b) /\ StaysSafe(b) /\ Keeps(b)
<1>1. CASE CreateGlobal
  BY <1>1, CreateStep, BitsAreBits DEF CreateGlobal
<1>2. CASE CreateProcedure
  <2>1. PICK c \in Bits, immutable \in BOOLEAN :
            CanCreateBody(bank) /\ Becomes(CreateBody(bank, c, immutable))
    BY <1>2 DEF CreateProcedure
  <2>2. IsBank(bank, BitStrings) /\ c \in BitStrings /\ BodyHandle \in Handle
    BY InvBank, BitsAreBits DEF Handle
  <2>3. /\ IsBank(Put(bank, BodyHandle, c, immutable), BitStrings)
        /\ Put(bank, BodyHandle, c, immutable).next = bank.next
        /\ DOMAIN Put(bank, BodyHandle, c, immutable).entries =
               DOMAIN bank.entries \cup {BodyHandle}
        /\ Put(bank, BodyHandle, c, immutable).entries[BodyHandle] =
               [contents |-> c, immutable |-> immutable, protected |-> FALSE]
        /\ \A k \in DOMAIN bank.entries \ {BodyHandle} :
               Put(bank, BodyHandle, c, immutable).entries[k] = bank.entries[k]
    BY <2>2, PutBank
  <2> DEFINE b == CreateBody(bank, c, immutable)
  <2>4. b = Put(bank, BodyHandle, c, immutable)
    BY DEF CreateBody
  <2> HIDE DEF b
  <2>5. BodyHandle \notin Id /\ BodyHandle \notin DOMAIN bank.entries
    BY <2>1, RegistersAssumption DEF Id, CanCreateBody, Exists
  <2>6. StaysSafe(b)
    BY <2>3, <2>4, <2>5, InvBank DEF StaysSafe, LiveIds
  <2>7. Keeps(b)
    BY <2>3, <2>4, <2>5 DEF Keeps, Exists, IsImmutable, Contents
  <2> QED
    BY <2>1, <2>6, <2>7 DEF b
<1>3. CASE InsertRegister
  BY <1>3, InsertStep, BitsAreBits DEF InsertRegister
<1>4. CASE EraseRegister
  BY <1>4, WithoutStep DEF EraseRegister, CanErase, Erase
<1>5. CASE ResizeRegister
  <2>1. PICK h \in Handle, n \in 0..MaxSize, fill \in {0, 1} :
            /\ CanChange(bank, h)
            /\ Becomes(Resize(bank, h, n, ResizedBits(Contents(bank, h), n, fill)))
    BY <1>5 DEF ResizeRegister
  <2>2. Exists(bank, h) /\ ~bank.entries[h].protected /\ n \in Nat
    BY <2>1, MaxSizeAssumption DEF CanChange, Locked
  <2>3. ResizedBits(Contents(bank, h), n, fill) \in BitStrings
    BY <2>2, ContentsType, ResizedBitsType DEF BankInv
  <2>4. CASE n = 0
    BY <2>1, <2>2, <2>4, WithoutStep DEF Resize
  <2>5. CASE n # 0
    BY <2>1, <2>3, <2>5, ChangeStep DEF Resize
  <2> QED
    BY <2>4, <2>5
<1>6. CASE ResizeOrCreateRegister
  <2>1. PICK h \in Handle, n \in 0..MaxSize :
            /\ CanResizeOrCreate(bank, h, n)
            /\ Becomes(ResizeOrCreate(bank, h, n,
                           IF Exists(bank, h)
                           THEN ResizedBits(Contents(bank, h), n, 0) ELSE <<>>,
                           ResizedBits(<<>>, n, 0)))
    BY <1>6 DEF ResizeOrCreateRegister
  <2>2. n \in Nat
    BY MaxSizeAssumption
  <2>3. CASE Exists(bank, h)
    <3>1. Becomes(Resize(bank, h, n, ResizedBits(Contents(bank, h), n, 0)))
      BY <2>1, <2>3 DEF ResizeOrCreate
    <3>2. CanChange(bank, h) /\ ~bank.entries[h].protected
      BY <2>1, <2>3 DEF CanResizeOrCreate, CanChange, Locked
    <3>3. ResizedBits(Contents(bank, h), n, 0) \in BitStrings
      BY <2>2, <2>3, ContentsType, ResizedBitsType DEF BankInv
    <3>4. CASE n = 0
      BY <2>3, <3>1, <3>2, <3>4, WithoutStep DEF Resize
    <3>5. CASE n # 0
      BY <3>1, <3>2, <3>3, <3>5, ChangeStep DEF Resize
    <3> QED
      BY <3>4, <3>5
  <2>4. CASE ~Exists(bank, h) /\ n = 0
    BY <2>1, <2>4, NoStep DEF ResizeOrCreate
  <2>5. CASE ~Exists(bank, h) /\ n # 0
    <3>1. CanInsert(bank, h)
      BY <2>1, <2>5 DEF CanResizeOrCreate, CanInsert
    <3>2. Becomes(Insert(bank, h, ResizedBits(<<>>, n, 0), FALSE))
      BY <2>1, <2>5 DEF ResizeOrCreate
    <3>3. <<>> \in BitStrings
      BY DEF BitStrings
    <3>4. ResizedBits(<<>>, n, 0) \in BitStrings
      BY <2>2, <3>3, ResizedBitsType
    <3> QED
      BY <3>1, <3>2, <3>4, InsertStep
  <2> QED
    BY <2>3, <2>4, <2>5
<1>7. CASE WriteRegister
  <2>1. PICK h \in Handle, value \in Bits, offset \in 0..MaxSize :
            /\ CanChange(bank, h)
            /\ Becomes(SetContents(bank, h,
                           WrittenBits(Contents(bank, h), offset, value)))
    BY <1>7 DEF WriteRegister
  <2>2. WrittenBits(Contents(bank, h), offset, value) \in BitStrings
    BY <2>1, ContentsType, BitsAreBits, WrittenBitsType, MaxSizeAssumption
       DEF BankInv, CanChange
  <2> QED
    BY <2>1, <2>2, ChangeStep
<1>8. CASE ReplaceRegister
  BY <1>8, ChangeStep, BitsAreBits DEF ReplaceRegister
<1>9. CASE ProtectRegisters
  BY <1>9, ProtectStep DEF ProtectRegisters
<1> QED
  BY <1>1, <1>2, <1>3, <1>4, <1>5, <1>6, <1>7, <1>8, <1>9 DEF BankNext

LEMMA BankInvInit == BankInit => BankInv
BY RegistersAssumption
   DEF BankInit, BankInv, TypeOK, IdsBelowNext, IsBank, EmptyBank, LiveIds

LEMMA BankInvStep == BankInv /\ [BankNext]_bankVars => BankInv'
<1> SUFFICES ASSUME BankInv, [BankNext]_bankVars PROVE BankInv'
  OBVIOUS
<1>1. CASE BankNext
  <2>1. PICK b : Becomes(b) /\ StaysSafe(b)
    BY <1>1, NextStep
  <2>2. bank' = b /\ used' = used \cup LiveIds(b)
    BY <2>1 DEF Becomes
  <2>3. TypeOK'
    BY <2>1, <2>2 DEF TypeOK, StaysSafe, BitStrings, BankInv, LiveIds
  <2>4. \A id \in used' : id < bank'.next
    <3>1. \A id \in used : id < bank.next /\ id \in Nat
      BY RegistersAssumption DEF BankInv, IdsBelowNext, TypeOK, Id
    <3>2. b.next \in Nat /\ bank.next \in Nat
      BY <2>1, InvBank, RegistersAssumption DEF StaysSafe, IsBank
    <3> QED
      BY <2>1, <2>2, <3>1, <3>2 DEF StaysSafe
  <2> QED
    BY <2>2, <2>3, <2>4 DEF BankInv, IdsBelowNext, LiveIds
<1>2. CASE UNCHANGED bankVars
  BY <1>2 DEF bankVars, BankInv, TypeOK, IdsBelowNext, LiveIds
<1> QED
  BY <1>1, <1>2

-----------------------------------------------------------------------------

(* The bank of registers.cpp is well formed after any sequence of calls. *)
THEOREM BankTypeCorrect == BankSpec => []TypeOK
<1>1. BankInv => TypeOK
  BY DEF BankInv
<1> QED
  BY <1>1, BankInvInit, BankInvStep, PTL DEF BankSpec

(* registers.cpp:97, 125 and 171: whichever way an id comes into use,      *)
(* next_id_ is beyond it, so create hands out ids nobody has had.          *)
THEOREM AllocatorAhead == BankSpec => []IdsBelowNext
<1>1. BankInv => IdsBelowNext
  BY DEF BankInv
<1> QED
  BY <1>1, BankInvInit, BankInvStep, PTL DEF BankSpec

(* No sequence of calls changes a register marked immutable. *)
THEOREM ImmutableRegistersKept == BankSpec => ImmutableKept
<1> DEFINE A == \A h \in DOMAIN bank.entries :
                    IsImmutable(bank, h) /\ Exists(bank', h) =>
                        /\ IsImmutable(bank', h)
                        /\ Contents(bank', h) = Contents(bank, h)
<1>1. BankInv /\ [BankNext]_bankVars => [A]_bankVars
  <2> SUFFICES ASSUME BankInv, BankNext PROVE A
    OBVIOUS
  <2>1. PICK b : Becomes(b) /\ Keeps(b)
    BY NextStep
  <2> QED
    BY <2>1 DEF Becomes, Keeps
<1> QED
  BY <1>1, BankInvInit, BankInvStep, PTL DEF BankSpec, ImmutableKept

(* What protect_existing has locked stays as it is: the private bank of a  *)
(* resolver never changes a register of its caller.                        *)
THEOREM ProtectedRegistersKept == BankSpec => ProtectedKept
<1> DEFINE A == \A h \in DOMAIN bank.entries :
                    bank.entries[h].protected =>
                        Exists(bank', h) /\ bank'.entries[h] = bank.entries[h]
<1>1. BankInv /\ [BankNext]_bankVars => [A]_bankVars
  <2> SUFFICES ASSUME BankInv, BankNext PROVE A
    OBVIOUS
  <2>1. PICK b : Becomes(b) /\ Keeps(b)
    BY NextStep
  <2> QED
    BY <2>1 DEF Becomes, Keeps
<1> QED
  BY <1>1, BankInvInit, BankInvStep, PTL DEF BankSpec, ProtectedKept

-----------------------------------------------------------------------------
(* The step. *)

\* The invariant the refinement needs: types, what is left to swap, and that
\* a machine which is at work has not halted.
IInv ==
    /\ machine \in [Parts -> Values]
    /\ staged \in [Parts -> Values]
    /\ left \subseteq Parts
    /\ limit \in Limits
    /\ AlwaysCoherent
    /\ phase = "step_impl" => ~Halted

\* The machine a run starts with is coherent.
LEMMA InitInvariant == Init => IInv
<1> SUFFICES ASSUME Init PROVE IInv
    OBVIOUS
<1>1. machine \in [Parts -> Values] /\ staged = machine /\ left = {} /\ limit \in Limits
    BY StepAssumption DEF Init
<1>2. Published = machine
    BY <1>1 DEF Published
<1> QED BY <1>1, <1>2 DEF Init, IInv, AlwaysCoherent

\* Outside the swaps what is published is the machine itself.
LEMMA PublishedOutsideSwaps ==
    ASSUME IInv, phase # "swap"
    PROVE  Published = machine /\ left = {}
<1>1. left = {} /\ machine \in [Parts -> Values]
    BY DEF IInv, AlwaysCoherent
<1> QED BY <1>1 DEF Published

\* A swap moves a part from the copies to the machine, and nothing shows.
LEMMA SwapInvisible ==
    ASSUME IInv, NEW i \in DOMAIN Swaps, Swap(i)
    PROVE  Published' = Published
<1> DEFINE q == Swaps[i]
<1>1. /\ machine' = [machine EXCEPT ![q] = staged[q]]
      /\ staged' \in {staged, [staged EXCEPT ![q] = machine[q]]}
      /\ left' = left \ {q}
      /\ q \in left
    BY DEF Swap
<1>2. /\ machine \in [Parts -> Values] /\ staged \in [Parts -> Values]
      /\ q \in Parts
    BY <1>1 DEF IInv
<1> HIDE DEF q
<1>3. ASSUME NEW part \in Parts
      PROVE  (IF part \in left' THEN staged'[part] ELSE machine'[part])
             = (IF part \in left THEN staged[part] ELSE machine[part])
    BY <1>1, <1>2
<1> QED BY <1>3 DEF Published

\* Every step of the detailed specification keeps the invariant.
LEMMA StepInvariant == IInv /\ [Next]_vars => IInv'
<1> SUFFICES ASSUME IInv, [Next]_vars PROVE IInv'
    OBVIOUS
<1>1. CASE UNCHANGED vars
    BY <1>1 DEF vars, IInv, AlwaysCoherent, Published, Halted
<1>2. CASE ReturnResult
  <2>1. UNCHANGED <<machine, staged, left, limit>> /\ phase' = "host" /\ phase = "run"
      BY <1>2 DEF ReturnResult
  <2> QED BY <2>1 DEF IInv, AlwaysCoherent, Published, Halted
<1>3. CASE BeginStep
  <2>1. /\ UNCHANGED <<machine, left, limit>> /\ staged' = machine
        /\ phase' = "step_impl" /\ phase = "run" /\ ~Halted
      BY <1>3 DEF BeginStep
  <2>2. Published = machine /\ left = {}
      BY <2>1, PublishedOutsideSwaps
  <2>3. Published' = machine
      BY <2>1, <2>2 DEF Published, IInv
  <2> QED BY <2>1, <2>2, <2>3 DEF IInv, AlwaysCoherent, Halted
<1>4. ASSUME NEW part \in Parts, NEW value \in Values, Change(part, value) PROVE IInv'
  <2>1. /\ UNCHANGED <<machine, left, limit, phase>>
        /\ staged' = [staged EXCEPT ![part] = value]
        /\ phase = "step_impl"
      BY <1>4 DEF Change
  <2>2. Published = machine /\ left = {}
      BY <2>1, PublishedOutsideSwaps
  <2>3. Published' = machine
      BY <2>1, <2>2 DEF Published, IInv
  <2>4. staged' \in [Parts -> Values]
      BY <2>1 DEF IInv
  <2> QED BY <2>1, <2>2, <2>3, <2>4 DEF IInv, AlwaysCoherent, Halted
<1>5. CASE FailStep
  <2>1. UNCHANGED <<machine, staged, left, limit>> /\ phase' = "host" /\ phase = "step_impl"
      BY <1>5 DEF FailStep
  <2> QED BY <2>1 DEF IInv, AlwaysCoherent, Published, Halted
<1>6. CASE EndStepImpl
  <2>1. /\ UNCHANGED <<machine, staged, limit>>
        /\ phase' = "swap" /\ staged \in Coherent
        /\ left' = {Swaps[i] : i \in DOMAIN Swaps}
      BY <1>6 DEF EndStepImpl
  <2>2. left' = Parts
      BY <2>1 DEF Swaps, Parts
  <2>3. Published' = staged
      BY <2>1, <2>2 DEF Published, IInv
  <2> QED BY <2>1, <2>2, <2>3 DEF IInv, AlwaysCoherent
<1>7. ASSUME NEW i \in DOMAIN Swaps, Swap(i) PROVE IInv'
  <2>1. Published' = Published
      BY <1>7, SwapInvisible
  <2>2. /\ machine' = [machine EXCEPT ![Swaps[i]] = staged[Swaps[i]]]
        /\ staged' \in {staged, [staged EXCEPT ![Swaps[i]] = machine[Swaps[i]]]}
        /\ left' = left \ {Swaps[i]} /\ Swaps[i] \in left
        /\ phase = "swap" /\ phase' = "swap" /\ limit' = limit
      BY <1>7 DEF Swap
  <2>3. machine' \in [Parts -> Values] /\ staged' \in [Parts -> Values] /\ left' \subseteq Parts
      BY <2>2 DEF IInv
  <2> QED BY <2>1, <2>2, <2>3 DEF IInv, AlwaysCoherent
<1>8. CASE EndStep
  <2>1. /\ UNCHANGED <<machine, staged, left, limit>>
        /\ phase' = "run" /\ phase = "swap" /\ left = {}
      BY <1>8 DEF EndStep
  <2>2. Published = machine /\ Published' = machine
      BY <2>1 DEF Published, IInv
  <2> QED BY <2>1, <2>2 DEF IInv, AlwaysCoherent
<1>9. ASSUME NEW depth \in Limits, NEW count \in Budgets, Run(depth, count) PROVE IInv'
  <2>1. /\ UNCHANGED <<machine, staged, left>> /\ limit' = depth
        /\ phase = "host" /\ phase' = "run"
      BY <1>9 DEF Run
  <2> QED BY <2>1 DEF IInv, AlwaysCoherent, Published
<1> QED BY <1>1, <1>2, <1>3, <1>4, <1>5, <1>6, <1>7, <1>8, <1>9 DEF Next, Proceed

\* Every step is a step of AtomicStep or changes nothing that shows.
LEMMA StepRefines == IInv /\ [Next]_vars => [Atomic!Next]_(Atomic!vars)
<1> SUFFICES ASSUME IInv, [Next]_vars PROVE Atomic!Next \/ UNCHANGED <<Published, limit>>
    BY DEF Atomic!vars
<1>1. CASE UNCHANGED vars
    BY <1>1 DEF vars, Published
<1>2. CASE ReturnResult \/ FailStep
    BY <1>2 DEF ReturnResult, FailStep, Published
<1>3. CASE BeginStep
  <2>1. UNCHANGED <<machine, left, limit>> /\ phase = "run"
      BY <1>3 DEF BeginStep
  <2>2. Published = machine /\ left = {}
      BY <2>1, PublishedOutsideSwaps
  <2> QED BY <2>1, <2>2 DEF Published, IInv
<1>4. ASSUME NEW part \in Parts, NEW value \in Values, Change(part, value)
      PROVE  UNCHANGED <<Published, limit>>
  <2>1. UNCHANGED <<machine, left, limit>> /\ phase = "step_impl"
      BY <1>4 DEF Change
  <2>2. Published = machine /\ left = {}
      BY <2>1, PublishedOutsideSwaps
  <2> QED BY <2>1, <2>2 DEF Published, IInv
<1>5. CASE EndStepImpl
  <2>1. /\ UNCHANGED <<machine, staged, limit>>
        /\ phase = "step_impl" /\ staged \in Coherent
        /\ left' = {Swaps[i] : i \in DOMAIN Swaps}
        /\ CountOf[staged["activations"]] <= limit
      BY <1>5 DEF EndStepImpl, WithinDepth
  <2>2. Published = machine
      BY <2>1, PublishedOutsideSwaps
  <2>3. left' = Parts
      BY <2>1 DEF Swaps, Parts
  <2>4. Published' = staged
      BY <2>1, <2>3 DEF Published, IInv
  <2>5. machine["current_storage"] # Null
      BY <2>1 DEF IInv, Halted
  <2> QED BY <2>1, <2>2, <2>4, <2>5 DEF Atomic!Next, Atomic!Step
<1>6. ASSUME NEW i \in DOMAIN Swaps, Swap(i) PROVE UNCHANGED <<Published, limit>>
    BY <1>6, SwapInvisible DEF Swap
<1>7. CASE EndStep
    BY <1>7 DEF EndStep, Published
<1>8. ASSUME NEW depth \in Limits, NEW count \in Budgets, Run(depth, count) PROVE Atomic!Next
  <2>1. UNCHANGED <<machine, staged, left>> /\ limit' = depth
      BY <1>8 DEF Run
  <2> QED BY <2>1 DEF Atomic!Next, Atomic!Run, Published
<1> QED BY <1>1, <1>2, <1>3, <1>4, <1>5, <1>6, <1>7, <1>8 DEF Next, Proceed

\* The machine is coherent whenever the host can look at it, and during the
\* swaps what is swapped and what is still staged belong together.
THEOREM MachineCoherent == Spec => []AlwaysCoherent
<1>1. Init => IInv
    BY InitInvariant
<1>2. IInv /\ [Next]_vars => IInv'
    BY StepInvariant
<1>3. IInv => AlwaysCoherent
    BY DEF IInv
<1> QED BY <1>1, <1>2, <1>3, PTL DEF Spec

\* A step of VirtualMachine takes place as a whole or not at all.
THEOREM StepIsAtomic == Spec => ImplementsAtomicStep
<1>1. Init => IInv
    BY InitInvariant
<1>2. IInv /\ [Next]_vars => IInv'
    BY StepInvariant
<1>3. Init => Atomic!Init
  <2> SUFFICES ASSUME Init PROVE Atomic!Init
      OBVIOUS
  <2>1. IInv /\ phase # "swap"
      BY InitInvariant DEF Init
  <2>2. Published = machine
      BY <2>1, PublishedOutsideSwaps
  <2> QED BY <2>2 DEF Init, Atomic!Init
<1>4. IInv /\ [Next]_vars => [Atomic!Next]_(Atomic!vars)
    BY StepRefines
<1> QED BY <1>1, <1>2, <1>3, <1>4, PTL DEF Spec, ImplementsAtomicStep, Atomic!Spec

-----------------------------------------------------------------------------
(* A run ends because its steps are counted down from the budget, and what *)
(* is left of each of them, MaxWork standing for the loops of step_impl.   *)
(* This is the part of RunReturns that needs no fairness.                  *)

PartCount == Cardinality(Parts)
PerStep == MaxWork + PartCount + 3

InStep ==
    CASE phase = "run" -> PerStep
      [] phase = "step_impl" -> PartCount + 2 + (MaxWork - work)
      [] phase = "swap" -> 1 + Cardinality(left)
      [] OTHER -> 0

RunLeft == (budget - steps) * PerStep + InStep

RunOK ==
    /\ phase \in {"host", "run", "step_impl", "swap"}
    /\ budget \in Nat /\ steps \in Nat /\ work \in 0..MaxWork
    /\ left \subseteq Parts
    /\ phase # "host" => steps <= budget
    /\ phase \in {"step_impl", "swap"} => steps < budget

RunCountsDown == phase # "host" /\ phase' # "host" => RunLeft' < RunLeft

\* There are finitely many parts to swap.
LEMMA PartsFinite == IsFiniteSet(Parts) /\ PartCount \in Nat /\ PerStep \in Nat
<1>1. IsFiniteSet({"registers", "activations"})
  <2>1. /\ IsFiniteSet({"registers"})
        /\ {"registers", "activations"} = {"registers"} \cup {"activations"}
      BY FS_Singleton
  <2> QED BY <2>1, FS_AddElement
<1>2. IsFiniteSet({"registers", "activations", "resolvers"})
    BY <1>1, FS_AddElement
<1>3. IsFiniteSet({"registers", "activations", "resolvers", "owned"})
    BY <1>2, FS_AddElement
<1>4. IsFiniteSet({"registers", "activations", "resolvers", "owned", "current_storage"})
    BY <1>3, FS_AddElement
<1>5. IsFiniteSet(Parts)
    BY <1>4, FS_AddElement DEF Parts
<1>6. PartCount \in Nat
    BY <1>5, FS_CardinalityType DEF PartCount
<1> QED BY <1>5, <1>6, StepAssumption DEF PerStep

\* What is left of a step is bounded.
LEMMA InStepBounded ==
    ASSUME RunOK
    PROVE  /\ InStep \in 0..PerStep
           /\ IsFiniteSet(left) /\ Cardinality(left) \in 0..PartCount
<1>1. IsFiniteSet(left) /\ Cardinality(left) <= PartCount
    BY PartsFinite, FS_Subset DEF RunOK, PartCount
<1>2. Cardinality(left) \in Nat
    BY <1>1, FS_CardinalityType
<1>3. work \in 0..MaxWork /\ MaxWork \in Nat
    BY StepAssumption DEF RunOK
<1> QED BY <1>1, <1>2, <1>3, PartsFinite DEF RunOK, InStep, PerStep

\* Every step of a run uses up some of what is left of it.
LEMMA RunStep ==
    ASSUME RunOK, [Next]_vars
    PROVE  RunOK' /\ [RunCountsDown]_vars
<1> DEFINE n == budget - steps
<1>1. /\ MaxWork \in Nat /\ PartCount \in Nat /\ PerStep \in Nat
      /\ PerStep = MaxWork + PartCount + 3
    BY PartsFinite, StepAssumption DEF PerStep
<1>2. /\ InStep \in 0..PerStep
      /\ IsFiniteSet(left) /\ Cardinality(left) \in 0..PartCount
    BY InStepBounded
<1>3. \A x, k \in Nat : x * k \in Nat /\ (x + 1) * k = x * k + k
    OBVIOUS
<1>4. /\ budget \in Nat /\ steps \in Nat /\ work \in 0..MaxWork /\ left \subseteq Parts
      /\ phase # "host" => n \in Nat
    BY DEF RunOK
<1> HIDE DEF PerStep, PartCount
<1>5. CASE UNCHANGED vars
    BY <1>5 DEF vars, RunOK
<1>6. CASE ReturnResult
    BY <1>6 DEF ReturnResult, RunOK, RunCountsDown
<1>7. CASE BeginStep
  <2>1. /\ phase = "run" /\ phase' = "step_impl" /\ work' = 0 /\ steps < budget
        /\ UNCHANGED <<left, budget, steps>>
      BY <1>7 DEF BeginStep
  <2>2. InStep = PerStep /\ InStep' = PartCount + 2 + (MaxWork - 0)
      BY <2>1 DEF InStep
  <2>3. InStep' < InStep /\ InStep' \in Nat
      BY <1>1, <2>2
  <2>4. n * PerStep \in Nat
      BY <1>1, <1>3, <1>4, <2>1
  <2>5. RunLeft = n * PerStep + InStep /\ RunLeft' = n * PerStep + InStep'
      BY <2>1 DEF RunLeft
  <2>6. RunLeft' < RunLeft
      BY <1>2, <2>3, <2>4, <2>5
  <2> QED BY <1>1, <1>4, <2>1, <2>6 DEF RunOK, RunCountsDown
<1>8. ASSUME NEW part \in Parts, NEW value \in Values, Change(part, value)
      PROVE  RunOK' /\ RunCountsDown
  <2>1. /\ phase = "step_impl" /\ work < MaxWork /\ work' = work + 1
        /\ UNCHANGED <<phase, left, budget, steps>>
      BY <1>8 DEF Change
  <2>2. InStep = PartCount + 2 + (MaxWork - work) /\ InStep' = PartCount + 2 + (MaxWork - work')
      BY <2>1 DEF InStep
  <2>3. InStep' < InStep /\ InStep' \in Nat /\ work' \in 0..MaxWork
      BY <1>1, <1>4, <2>1, <2>2
  <2>4. n * PerStep \in Nat
      BY <1>1, <1>3, <1>4, <2>1
  <2>5. RunLeft = n * PerStep + InStep /\ RunLeft' = n * PerStep + InStep'
      BY <2>1 DEF RunLeft
  <2>6. RunLeft' < RunLeft
      BY <1>2, <2>3, <2>4, <2>5
  <2> QED BY <2>1, <2>3, <2>6 DEF RunOK, RunCountsDown
<1>9. CASE FailStep
    BY <1>9 DEF FailStep, RunOK, RunCountsDown
<1>10. CASE EndStepImpl
  <2>1. /\ phase = "step_impl" /\ phase' = "swap" /\ UNCHANGED <<work, budget, steps>>
        /\ left' = {Swaps[i] : i \in DOMAIN Swaps}
      BY <1>10 DEF EndStepImpl
  <2>2. left' \subseteq Parts
      BY <2>1 DEF Swaps, Parts
  <2>3. RunOK'
      BY <2>1, <2>2 DEF RunOK
  <2>4. IsFiniteSet(left') /\ Cardinality(left') <= PartCount
      BY <2>2, PartsFinite, FS_Subset DEF PartCount
  <2>5. Cardinality(left') \in Nat
      BY <2>4, FS_CardinalityType
  <2>6. InStep = PartCount + 2 + (MaxWork - work) /\ InStep' = 1 + Cardinality(left')
      BY <2>1 DEF InStep
  <2>7. InStep' < InStep /\ InStep' \in Nat
      BY <1>1, <1>4, <2>4, <2>5, <2>6
  <2>8. n * PerStep \in Nat
      BY <1>1, <1>3, <1>4, <2>1
  <2>9. RunLeft = n * PerStep + InStep /\ RunLeft' = n * PerStep + InStep'
      BY <2>1 DEF RunLeft
  <2>10. RunLeft' < RunLeft
      BY <1>2, <2>7, <2>8, <2>9
  <2> QED BY <2>3, <2>10 DEF RunCountsDown
<1>11. ASSUME NEW i \in DOMAIN Swaps, Swap(i)
       PROVE  RunOK' /\ RunCountsDown
  <2>1. /\ phase = "swap" /\ Swaps[i] \in left /\ left' = left \ {Swaps[i]}
        /\ UNCHANGED <<phase, work, budget, steps>>
      BY <1>11 DEF Swap
  <2>2. Cardinality(left') = Cardinality(left) - 1 /\ IsFiniteSet(left')
      BY <1>2, <2>1, FS_RemoveElement
  <2>3. Cardinality(left') \in Nat
      BY <2>2, FS_CardinalityType
  <2>4. InStep = 1 + Cardinality(left) /\ InStep' = 1 + Cardinality(left')
      BY <2>1 DEF InStep
  <2>5. InStep' < InStep /\ InStep' \in Nat
      BY <1>1, <1>2, <2>2, <2>3, <2>4
  <2>6. n * PerStep \in Nat
      BY <1>1, <1>3, <1>4, <2>1
  <2>7. RunLeft = n * PerStep + InStep /\ RunLeft' = n * PerStep + InStep'
      BY <2>1 DEF RunLeft
  <2>8. RunLeft' < RunLeft
      BY <1>2, <2>5, <2>6, <2>7
  <2> QED BY <2>1, <2>8 DEF RunOK, RunCountsDown
<1>12. CASE EndStep
  <2>1. /\ phase = "swap" /\ phase' = "run" /\ steps' = steps + 1 /\ steps < budget
        /\ UNCHANGED <<left, work, budget>>
      BY <1>12 DEF EndStep, Counted, RunOK
  <2>2. budget - steps' \in Nat /\ budget - steps = (budget - steps') + 1
      BY <1>4, <2>1
  <2>3. (budget - steps) * PerStep = (budget - steps') * PerStep + PerStep
      BY <1>1, <1>3, <2>2
  <2>4. InStep = 1 + Cardinality(left) /\ InStep' = PerStep
      BY <2>1 DEF InStep
  <2>5. (budget - steps') * PerStep \in Nat
      BY <1>1, <1>3, <2>2
  <2>6. /\ RunLeft = (budget - steps) * PerStep + InStep
        /\ RunLeft' = (budget - steps') * PerStep + InStep'
      BY <2>1 DEF RunLeft
  <2>7. RunLeft' < RunLeft
      BY <1>1, <1>2, <2>3, <2>4, <2>5, <2>6
  <2> QED BY <1>4, <2>1, <2>7 DEF RunOK, RunCountsDown
<1>13. ASSUME NEW depth \in Limits, NEW count \in Budgets, Run(depth, count)
       PROVE  RunOK' /\ RunCountsDown
  <2>1. /\ phase = "host" /\ phase' = "run" /\ budget' = count /\ steps' = 0
        /\ UNCHANGED <<left, work>>
      BY <1>13 DEF Run
  <2>2. count \in Nat
      BY StepAssumption
  <2> QED BY <2>1, <2>2 DEF RunOK, RunCountsDown
<1> QED BY <1>5, <1>6, <1>7, <1>8, <1>9, <1>10, <1>11, <1>12, <1>13 DEF Next, Proceed

\* A run of VirtualMachine takes no more steps than its host allows, and each
\* of those ends: what is left of a run falls with everything the run does,
\* from a bound that the budget sets.
THEOREM RunsAreBounded ==
    Spec => /\ [](phase # "host" => steps <= budget /\ RunLeft \in 0..((budget + 1) * PerStep))
            /\ [][RunCountsDown]_vars
<1>1. Init => RunOK
    BY StepAssumption DEF Init, RunOK
<1>2. RunOK /\ [Next]_vars => RunOK' /\ [RunCountsDown]_vars
    BY RunStep
<1>3. ASSUME RunOK, phase # "host"
      PROVE  steps <= budget /\ RunLeft \in 0..((budget + 1) * PerStep)
  <2>1. budget \in Nat /\ steps \in Nat /\ steps <= budget
      BY <1>3 DEF RunOK
  <2>2. InStep \in 0..PerStep /\ PerStep \in Nat
      BY <1>3, InStepBounded, PartsFinite
  <2> HIDE DEF InStep, PerStep
  <2>3. \A x, y, k \in Nat : /\ x * k \in Nat /\ (x + y) * k = x * k + y * k
                            /\ (x + 1) * k = x * k + k
      OBVIOUS
  <2>4. budget - steps \in Nat /\ (budget - steps) + steps = budget
      BY <2>1
  <2>5. budget * PerStep = (budget - steps) * PerStep + steps * PerStep
      BY <2>1, <2>2, <2>3, <2>4
  <2>6. /\ (budget - steps) * PerStep \in Nat /\ steps * PerStep \in Nat
        /\ (budget + 1) * PerStep = budget * PerStep + PerStep
      BY <2>1, <2>2, <2>3, <2>4
  <2> QED BY <2>1, <2>2, <2>5, <2>6 DEF RunLeft
<1> QED BY <1>1, <1>2, <1>3, PTL DEF Spec
=============================================================================
