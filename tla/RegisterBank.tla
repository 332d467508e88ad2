---------------------------- MODULE RegisterBank ----------------------------
(***************************************************************************)
(* The register bank as its users drive it: any sequence of the public     *)
(* operations of RegisterBank (src/src/registers.cpp), on registers that   *)
(* hold sequences of bits.  A call that returns an error changes nothing   *)
(* and is a stuttering step.                                               *)
(*                                                                         *)
(* `used` is history: the ids that have ever named a register.  No action  *)
(* reads it.                                                               *)
(***************************************************************************)
EXTENDS Registers, Sequences

CONSTANT MaxSize  \* bound on the length of a register

ASSUME MaxSizeAssumption == MaxSize \in Nat

VARIABLES
    bank,    \* the RegisterBank object
    used     \* history: ids that have named a register

bankVars == <<bank, used>>

Bits == UNION {[1..n -> {0, 1}] : n \in 0..MaxSize}

LiveIds(b) == DOMAIN b.entries \cap Id

TypeOK ==
    /\ IsBank(bank, Seq({0, 1}))
    /\ used \subseteq Id

-----------------------------------------------------------------------------
(* BitVector::resize and BitVector::write: a resize keeps the prefix and   *)
(* appends the fill bit; a write replaces the bits it covers.              *)
ResizedBits(s, n, fill) == [i \in 1..n |-> IF i <= Len(s) THEN s[i] ELSE fill]
WrittenBits(s, offset, value) ==
    [i \in 1..Len(s) |->
        IF i > offset /\ i <= offset + Len(value) THEN value[i - offset] ELSE s[i]]

\* Every operation moves the bank to `b` and brings the history up to date.
Becomes(b) ==
    /\ bank' = b
    /\ used' = used \cup LiveIds(b)

BankInit ==
    /\ bank = EmptyBank
    /\ used = {}

CreateGlobal ==
    \E c \in Bits, immutable \in BOOLEAN :
        CanCreate(bank) /\ Becomes(Create(bank, c, immutable))

CreateProcedure ==
    \E c \in Bits, immutable \in BOOLEAN :
        CanCreateBody(bank) /\ Becomes(CreateBody(bank, c, immutable))

InsertRegister ==
    \E id \in Id, c \in Bits, immutable \in BOOLEAN :
        CanInsert(bank, id) /\ Becomes(Insert(bank, id, c, immutable))

EraseRegister ==
    \E h \in Handle : CanErase(bank, h) /\ Becomes(Erase(bank, h))

ResizeRegister ==
    \E h \in Handle, n \in 0..MaxSize, fill \in {0, 1} :
        /\ CanChange(bank, h)
        /\ Becomes(Resize(bank, h, n, ResizedBits(Contents(bank, h), n, fill)))

ResizeOrCreateRegister ==
    \E h \in Handle, n \in 0..MaxSize :
        /\ CanResizeOrCreate(bank, h, n)
        /\ Becomes(ResizeOrCreate(bank, h, n,
                       IF Exists(bank, h)
                       THEN ResizedBits(Contents(bank, h), n, 0) ELSE <<>>,
                       ResizedBits(<<>>, n, 0)))

WriteRegister ==
    \E h \in Handle, value \in Bits, offset \in 0..MaxSize :
        /\ CanChange(bank, h)
        /\ offset + Len(value) <= Len(Contents(bank, h))
        /\ Becomes(SetContents(bank, h,
                       WrittenBits(Contents(bank, h), offset, value)))

ReplaceRegister ==
    \E h \in Handle, value \in Bits :
        CanChange(bank, h) /\ Becomes(SetContents(bank, h, value))

ProtectRegisters == Becomes(ProtectExisting(bank))

BankNext ==
    \/ CreateGlobal
    \/ CreateProcedure
    \/ InsertRegister
    \/ EraseRegister
    \/ ResizeRegister
    \/ ResizeOrCreateRegister
    \/ WriteRegister
    \/ ReplaceRegister
    \/ ProtectRegisters

BankSpec == BankInit /\ [][BankNext]_bankVars

-----------------------------------------------------------------------------
(* The allocator stays ahead of every id that was ever in use, however the *)
(* id came into use: create, an import at a chosen id, or command 1100 at  *)
(* a chosen id.  This is why create, which tests only the id it is about   *)
(* to hand out, never fails with a duplicate and never aliases a register. *)
IdsBelowNext == \A id \in used : id < bank.next

(* A register marked immutable keeps its contents and its mark for as long *)
(* as it exists, whatever sequence of calls is made; only erase ends it.   *)
ImmutableKept ==
    [][\A h \in DOMAIN bank.entries :
          IsImmutable(bank, h) /\ Exists(bank', h) =>
              /\ IsImmutable(bank', h)
              /\ Contents(bank', h) = Contents(bank, h)]_bankVars

(* Once protect_existing has run, as it does on the private bank of a      *)
(* resolver, no operation changes or deletes a register that was there:    *)
(* only registers created afterwards may change.                           *)
ProtectedKept ==
    [][\A h \in DOMAIN bank.entries :
          bank.entries[h].protected =>
              Exists(bank', h) /\ bank'.entries[h] = bank.entries[h]]_bankVars
=============================================================================
