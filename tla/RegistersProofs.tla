--------------------------- MODULE RegistersProofs ---------------------------
(***************************************************************************)
(* What the operations of the register bank return: a bank, with the       *)
(* handles they were to add or to take away, and nothing else changed.     *)
(***************************************************************************)
EXTENDS Registers, TLAPS

(* A bank is made of its two fields. *)
LEMMA BankFields ==
    ASSUME NEW C, NEW b, IsBank(b, C)
    PROVE  /\ b = [entries |-> b.entries, next |-> b.next]
           /\ DOMAIN b.entries \subseteq Handle
           /\ \A h \in DOMAIN b.entries : b.entries[h] \in EntryOf(C)
           /\ b.next \in 0..(MaxId + 1)
BY DEF IsBank

(* Replacing the table leaves the next id. *)
LEMMA TableReplaced ==
    ASSUME NEW b, b = [entries |-> b.entries, next |-> b.next], NEW f
    PROVE  [b EXCEPT !.entries = f] = [entries |-> f, next |-> b.next]
OBVIOUS

(* The entry a Put makes. *)
LEMMA FreshEntry ==
    ASSUME NEW C, NEW c \in C, NEW immutable \in BOOLEAN
    PROVE  [contents |-> c, immutable |-> immutable, protected |-> FALSE] \in EntryOf(C)
BY DEF EntryOf

(* registers.cpp: the emplace of create, insert and resize_or_create adds  *)
(* one entry and touches no other.                                         *)
LEMMA PutBank ==
    ASSUME NEW C, NEW b, IsBank(b, C), NEW h \in Handle,
           NEW c \in C, NEW immutable \in BOOLEAN
    PROVE  /\ IsBank(Put(b, h, c, immutable), C)
           /\ Put(b, h, c, immutable).next = b.next
           /\ DOMAIN Put(b, h, c, immutable).entries = DOMAIN b.entries \cup {h}
           /\ Put(b, h, c, immutable).entries[h] =
                  [contents |-> c, immutable |-> immutable, protected |-> FALSE]
           /\ \A k \in DOMAIN b.entries \ {h} :
                  Put(b, h, c, immutable).entries[k] = b.entries[k]
<1> DEFINE e == [contents |-> c, immutable |-> immutable, protected |-> FALSE]
           f == [k \in DOMAIN b.entries \cup {h} |-> IF k = h THEN e ELSE b.entries[k]]
<1>1. Put(b, h, c, immutable) = [entries |-> f, next |-> b.next]
  <2>1. b = [entries |-> b.entries, next |-> b.next]
    BY BankFields
  <2>2. Put(b, h, c, immutable) = [b EXCEPT !.entries = f]
    BY DEF Put
  <2> HIDE DEF f
  <2> QED
    BY <2>1, <2>2, TableReplaced
<1>2. f \in [DOMAIN b.entries \cup {h} -> EntryOf(C)]
  BY FreshEntry, BankFields
<1>3. DOMAIN f = DOMAIN b.entries \cup {h}
  OBVIOUS
<1>4. DOMAIN f \subseteq Handle /\ b.next \in 0..(MaxId + 1)
  BY BankFields
<1> HIDE DEF f, e
<1>5. IsBank(Put(b, h, c, immutable), C)
  BY <1>1, <1>2, <1>3, <1>4 DEF IsBank
<1> QED
  BY <1>1, <1>5 DEF f, e

(* An erased register is gone and the others stay. *)
LEMMA WithoutBank ==
    ASSUME NEW C, NEW b, IsBank(b, C), NEW h
    PROVE  /\ IsBank(Without(b, h), C)
           /\ Without(b, h).next = b.next
           /\ DOMAIN Without(b, h).entries = DOMAIN b.entries \ {h}
           /\ \A k \in DOMAIN b.entries \ {h} : Without(b, h).entries[k] = b.entries[k]
<1> DEFINE f == [k \in DOMAIN b.entries \ {h} |-> b.entries[k]]
<1>1. Without(b, h) = [entries |-> f, next |-> b.next]
  BY BankFields DEF Without
<1>2. f \in [DOMAIN b.entries \ {h} -> EntryOf(C)] /\ DOMAIN f = DOMAIN b.entries \ {h}
  BY BankFields
<1>3. DOMAIN f \subseteq Handle /\ b.next \in 0..(MaxId + 1)
  BY BankFields
<1> HIDE DEF f
<1>4. IsBank(Without(b, h), C)
  BY <1>1, <1>2, <1>3 DEF IsBank
<1> QED
  BY <1>1, <1>4 DEF f

(* create and insert: the id is taken and next moves past it. *)
LEMMA CreateBank ==
    ASSUME NEW C, NEW b, IsBank(b, C), CanCreate(b),
           NEW c \in C, NEW immutable \in BOOLEAN
    PROVE  /\ IsBank(Create(b, c, immutable), C)
           /\ b.next \in Id
           /\ Create(b, c, immutable).next = b.next + 1
           /\ DOMAIN Create(b, c, immutable).entries = DOMAIN b.entries \cup {b.next}
           /\ Create(b, c, immutable).entries[b.next] =
                  [contents |-> c, immutable |-> immutable, protected |-> FALSE]
           /\ \A k \in DOMAIN b.entries :
                  Create(b, c, immutable).entries[k] = b.entries[k]
<1>1. b.next \in Id /\ b.next \in Handle /\ b.next \notin DOMAIN b.entries
  BY RegistersAssumption, BankFields DEF CanCreate, Exists, Id, Handle
<1> DEFINE p == Put(b, b.next, c, immutable)
<1>2. /\ IsBank(p, C) /\ p.next = b.next
      /\ DOMAIN p.entries = DOMAIN b.entries \cup {b.next}
      /\ p.entries[b.next] =
             [contents |-> c, immutable |-> immutable, protected |-> FALSE]
      /\ \A k \in DOMAIN b.entries : p.entries[k] = b.entries[k]
  BY <1>1, PutBank
<1> HIDE DEF p
<1>3. Create(b, c, immutable) = [entries |-> p.entries, next |-> b.next + 1]
  BY <1>2, BankFields DEF Create, p
<1>4. b.next + 1 \in 0..(MaxId + 1)
  BY <1>1, RegistersAssumption DEF Id
<1> QED
  BY <1>1, <1>2, <1>3, <1>4 DEF IsBank

LEMMA InsertBank ==
    ASSUME NEW C, NEW b, IsBank(b, C), NEW id, CanInsert(b, id),
           NEW c \in C, NEW immutable \in BOOLEAN
    PROVE  /\ IsBank(Insert(b, id, c, immutable), C)
           /\ Insert(b, id, c, immutable).next > id
           /\ Insert(b, id, c, immutable).next >= b.next
           /\ DOMAIN Insert(b, id, c, immutable).entries = DOMAIN b.entries \cup {id}
           /\ \A k \in DOMAIN b.entries :
                  Insert(b, id, c, immutable).entries[k] = b.entries[k]
<1>1. id \in Id /\ id \in Handle /\ id \notin DOMAIN b.entries
  BY DEF CanInsert, Exists, Handle
<1> DEFINE p == Put(b, id, c, immutable)
           n == IF id >= b.next THEN id + 1 ELSE b.next
<1>2. /\ IsBank(p, C) /\ p.next = b.next
      /\ DOMAIN p.entries = DOMAIN b.entries \cup {id}
      /\ \A k \in DOMAIN b.entries \ {id} : p.entries[k] = b.entries[k]
  <2> HIDE DEF n, p
  <2>1. /\ IsBank(Put(b, id, c, immutable), C)
        /\ Put(b, id, c, immutable).next = b.next
        /\ DOMAIN Put(b, id, c, immutable).entries = DOMAIN b.entries \cup {id}
        /\ Put(b, id, c, immutable).entries[id] =
               [contents |-> c, immutable |-> immutable, protected |-> FALSE]
        /\ \A k \in DOMAIN b.entries \ {id} :
               Put(b, id, c, immutable).entries[k] = b.entries[k]
    BY <1>1, PutBank
  <2> QED
    BY <2>1 DEF p
<1> HIDE DEF p
<1>3. Insert(b, id, c, immutable) = [entries |-> p.entries, next |-> n]
  BY <1>2, BankFields DEF Insert, p
<1>4. n \in 0..(MaxId + 1) /\ n > id /\ n >= b.next
  BY <1>1, RegistersAssumption, BankFields DEF Id
<1> HIDE DEF n
<1> QED
  BY <1>1, <1>2, <1>3, <1>4 DEF IsBank

(* write, replace and a resize to another size change one register. *)
LEMMA SetContentsBank ==
    ASSUME NEW C, NEW b, IsBank(b, C), NEW h, Exists(b, h), NEW c \in C
    PROVE  /\ IsBank(SetContents(b, h, c), C)
           /\ SetContents(b, h, c).next = b.next
           /\ DOMAIN SetContents(b, h, c).entries = DOMAIN b.entries
           /\ SetContents(b, h, c).entries[h] = [b.entries[h] EXCEPT !.contents = c]
           /\ \A k \in DOMAIN b.entries \ {h} :
                  SetContents(b, h, c).entries[k] = b.entries[k]
<1> DEFINE f == [b.entries EXCEPT ![h].contents = c]
<1>1. SetContents(b, h, c) = [entries |-> f, next |-> b.next]
  BY BankFields DEF SetContents
<1>2. h \in DOMAIN b.entries /\ b.entries[h] \in EntryOf(C)
  BY BankFields DEF Exists
<1>3. [b.entries[h] EXCEPT !.contents = c] \in EntryOf(C)
  BY <1>2 DEF EntryOf
<1>4. /\ b.entries \in [DOMAIN b.entries -> EntryOf(C)]
      /\ DOMAIN b.entries \subseteq Handle /\ b.next \in 0..(MaxId + 1)
  BY DEF IsBank
<1>5. /\ f \in [DOMAIN b.entries -> EntryOf(C)]
      /\ DOMAIN f = DOMAIN b.entries
      /\ f[h] = [b.entries[h] EXCEPT !.contents = c]
      /\ \A k \in DOMAIN b.entries \ {h} : f[k] = b.entries[k]
  BY <1>2, <1>3, <1>4
<1> HIDE DEF f
<1> QED
  BY <1>1, <1>4, <1>5 DEF IsBank
=============================================================================
