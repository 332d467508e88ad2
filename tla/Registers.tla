------------------------------ MODULE Registers ------------------------------
(***************************************************************************)
(* The register bank of src/src/registers.cpp as operators on a value      *)
(* [entries, next], so that the bank on its own (RegisterBank) and the     *)
(* virtual machine that stages a copy of it on every step (Vm) share one   *)
(* translation.                                                            *)
(*                                                                         *)
(* entries is a function whose domain is the set of live handles, the      *)
(* unordered_map of the code; next is next_id_.  What a register holds is  *)
(* up to the caller: the operators never look inside contents, and the     *)
(* caller says what a resized register holds.                              *)
(***************************************************************************)
EXTENDS Naturals

CONSTANTS
    MaxId,      \* the last id a handle can name: 2^62 - 1 in the code
    BodyHandle  \* the one handle of class `procedure`, whose id is always 0

ASSUME RegistersAssumption == MaxId \in Nat /\ BodyHandle \notin 0..(MaxId + 1)

Id == 0..MaxId
Handle == Id \cup {BodyHandle}

EntryOf(C) == [contents: C, immutable: BOOLEAN, protected: BOOLEAN]

\* next reaches MaxId + 1 when the id space is exhausted.
IsBank(b, C) ==
    /\ b = [entries |-> b.entries, next |-> b.next]
    /\ DOMAIN b.entries \subseteq Handle
    /\ b.entries \in [DOMAIN b.entries -> EntryOf(C)]
    /\ b.next \in 0..(MaxId + 1)

EmptyBank == [entries |-> [h \in {} |-> Nat], next |-> 0]

-----------------------------------------------------------------------------
(* What the const member functions answer. *)

Exists(b, h) == h \in DOMAIN b.entries
Contents(b, h) == b.entries[h].contents
IsImmutable(b, h) == b.entries[h].immutable
Locked(b, h) == b.entries[h].immutable \/ b.entries[h].protected

-----------------------------------------------------------------------------
(* Operations: Can... is the condition under which the code does not       *)
(* return an error; an operation that fails leaves the bank as it was.     *)

Put(b, h, c, immutable) ==
    [b EXCEPT !.entries =
        [k \in DOMAIN b.entries \cup {h} |->
            IF k = h
            THEN [contents |-> c, immutable |-> immutable, protected |-> FALSE]
            ELSE b.entries[k]]]

Without(b, h) ==
    [b EXCEPT !.entries = [k \in DOMAIN b.entries \ {h} |-> b.entries[k]]]

CanCreatePastEnd(b) == ~Exists(b, b.next)  \* Mutated: no end of the id space

CanCreate(b) == b.next <= MaxId /\ ~Exists(b, b.next)
Create(b, c, immutable) ==
    [Put(b, b.next, c, immutable) EXCEPT !.next = b.next + 1]

\* A register of class `procedure` takes no id.
CanCreateBody(b) == ~Exists(b, BodyHandle)
CreateBody(b, c, immutable) == Put(b, BodyHandle, c, immutable)

CanInsert(b, id) == id \in Id /\ ~Exists(b, id)
\* Mutated: an import at next itself does not move it on.
InsertAtNext(b, id, c, immutable) ==
    [Put(b, id, c, immutable) EXCEPT !.next = IF id > b.next THEN id + 1 ELSE b.next]

Insert(b, id, c, immutable) ==
    [Put(b, id, c, immutable) EXCEPT
        !.next = IF id >= b.next THEN id + 1 ELSE b.next]

CanEraseProtected(b, h) == Exists(b, h)  \* Mutated
\* Protection, not immutability, is what stops an erase.
CanErase(b, h) == Exists(b, h) /\ ~b.entries[h].protected
Erase(b, h) == Without(b, h)

CanChangeImmutable(b, h) == Exists(b, h) /\ ~b.entries[h].protected  \* Mutated

CanChange(b, h) == Exists(b, h) /\ ~Locked(b, h)
SetContents(b, h, c) == [b EXCEPT !.entries[h].contents = c]

\* Size zero deletes the register; otherwise it holds `resized`.
Resize(b, h, size, resized) ==
    IF size = 0 THEN Without(b, h) ELSE SetContents(b, h, resized)

CanResizeOrCreate(b, h, size) ==
    IF Exists(b, h) THEN ~Locked(b, h) ELSE size = 0 \/ h \in Id
ResizeOrCreate(b, h, size, resized, zeros) ==
    IF Exists(b, h) THEN Resize(b, h, size, resized)
    ELSE IF size = 0 THEN b
    ELSE Insert(b, h, zeros, FALSE)

ProtectNone(b) == b  \* Mutated

ProtectExisting(b) ==
    [b EXCEPT !.entries =
        [h \in DOMAIN b.entries |-> [b.entries[h] EXCEPT !.protected = TRUE]]]
=============================================================================
