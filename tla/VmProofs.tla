------------------------------ MODULE VmProofs ------------------------------
(***************************************************************************)
(* What the machine keeps true.  In three parts:                           *)
(*                                                                         *)
(* For every bound, every host and every program, disciplined or not: the  *)
(* types of its state, and that its allocator stays ahead of every         *)
(* register.  The two go together, since both are facts about each bank a  *)
(* step builds on its way; GoodBank is that invariant of a bank, and each  *)
(* helper of a step is shown to keep it.                                   *)
(*                                                                         *)
(* The chain of activations as the registers hold it: there is one at most.*)
(*                                                                         *)
(* For every disciplined program and every host that keeps its side        *)
(* (HostOK): the activations, what they refer to and what their calls own. *)
(***************************************************************************)
EXTENDS VmProperties, RegistersProofs, FiniteSetTheorems

GoodBank(b) ==
    /\ IsBank(b, RegisterContents)
    /\ \A h \in DOMAIN b.entries \cap Id : h < b.next

Inv == TypeOK /\ NextIdFresh

-----------------------------------------------------------------------------
(* Contents. *)

LEMMA MadeContents ==
    /\ Empty \in RegisterContents
    /\ \A ref \in NodeRef : Cell(ref) \in RegisterContents
    /\ \A record \in ActivationRecord : Stored(record) \in RegisterContents
    /\ \A n \in Nat : /\ [size |-> n, val |-> Data] \in RegisterContents
                      /\ [size |-> n, val |-> Code] \in RegisterContents
BY VmAssumption DEF Empty, Cell, Stored, RegisterContents, Value

LEMMA ResizedContents ==
    ASSUME NEW c \in RegisterContents, NEW n \in Nat
    PROVE  Resized(c, n) \in RegisterContents
BY DEF Resized, RegisterContents, Value

LEMMA NoPrefixType == NoPrefix \in Prefix
BY DEF NoPrefix, Prefix

LEMMA RegisterContentsOf ==
    ASSUME NEW b, IsBank(b, RegisterContents), NEW h, Exists(b, h)
    PROVE  /\ Contents(b, h) \in RegisterContents
           /\ Size(b, h) \in Nat
           /\ Val(b, h) \in Value
           /\ b.entries[h] \in EntryOf(RegisterContents)
BY DEF IsBank, EntryOf, Exists, Contents, Size, Val, RegisterContents, Value

-----------------------------------------------------------------------------
(* Banks. *)

LEMMA GoodCreate ==
    ASSUME NEW b, GoodBank(b), CanCreate(b),
           NEW c \in RegisterContents, NEW immutable \in BOOLEAN
    PROVE  /\ GoodBank(Create(b, c, immutable))
           /\ b.next \in Id
<1>1. IsBank(b, RegisterContents)
  BY DEF GoodBank
<1>2. /\ IsBank(Create(b, c, immutable), RegisterContents)
      /\ b.next \in Id
      /\ Create(b, c, immutable).next = b.next + 1
      /\ DOMAIN Create(b, c, immutable).entries = DOMAIN b.entries \cup {b.next}
      /\ Create(b, c, immutable).entries[b.next] =
             [contents |-> c, immutable |-> immutable, protected |-> FALSE]
      /\ \A k \in DOMAIN b.entries :
             Create(b, c, immutable).entries[k] = b.entries[k]
  BY <1>1, CreateBank
<1> QED
  BY <1>2, RegistersAssumption DEF GoodBank, Id

LEMMA GoodInsert ==
    ASSUME NEW b, GoodBank(b), NEW id, CanInsert(b, id),
           NEW c \in RegisterContents, NEW immutable \in BOOLEAN
    PROVE  GoodBank(Insert(b, id, c, immutable))
<1>1. IsBank(b, RegisterContents)
  BY DEF GoodBank
<1>2. /\ IsBank(Insert(b, id, c, immutable), RegisterContents)
      /\ Insert(b, id, c, immutable).next > id
      /\ Insert(b, id, c, immutable).next >= b.next
      /\ DOMAIN Insert(b, id, c, immutable).entries = DOMAIN b.entries \cup {id}
      /\ \A k \in DOMAIN b.entries :
             Insert(b, id, c, immutable).entries[k] = b.entries[k]
  BY <1>1, InsertBank
<1>3. /\ b.next \in Nat /\ Insert(b, id, c, immutable).next \in Nat
      /\ \A h \in Id : h \in Nat
  BY <1>1, <1>2, RegistersAssumption DEF IsBank, Id
<1>4. \A h \in DOMAIN Insert(b, id, c, immutable).entries \cap Id :
          h < Insert(b, id, c, immutable).next
  <2> SUFFICES ASSUME NEW h \in DOMAIN Insert(b, id, c, immutable).entries \cap Id
               PROVE  h < Insert(b, id, c, immutable).next
    OBVIOUS
  <2>1. CASE h = id
    BY <1>2, <2>1
  <2>2. CASE h \in DOMAIN b.entries
    <3>1. h < b.next /\ h \in Nat
      BY <1>3, <2>2 DEF GoodBank
    <3> QED
      BY <1>2, <1>3, <3>1
  <2> QED
    BY <1>2, <2>1, <2>2
<1> QED
  BY <1>2, <1>4 DEF GoodBank

LEMMA GoodSetContents ==
    ASSUME NEW b, GoodBank(b), NEW h, Exists(b, h), NEW c \in RegisterContents
    PROVE  GoodBank(SetContents(b, h, c))
<1>1. IsBank(b, RegisterContents)
  BY DEF GoodBank
<1>2. /\ IsBank(SetContents(b, h, c), RegisterContents)
      /\ SetContents(b, h, c).next = b.next
      /\ DOMAIN SetContents(b, h, c).entries = DOMAIN b.entries
      /\ SetContents(b, h, c).entries[h] = [b.entries[h] EXCEPT !.contents = c]
      /\ \A k \in DOMAIN b.entries \ {h} :
             SetContents(b, h, c).entries[k] = b.entries[k]
  BY <1>1, SetContentsBank
<1> QED
  BY <1>2 DEF GoodBank

LEMMA GoodSetVal ==
    ASSUME NEW b, GoodBank(b), NEW h, Exists(b, h), NEW v \in Value
    PROVE  GoodBank(SetVal(b, h, v))
<1>1. [size |-> Size(b, h), val |-> v] \in RegisterContents
  BY RegisterContentsOf DEF GoodBank, RegisterContents, Value
<1> QED
  BY <1>1, GoodSetContents DEF SetVal

(* resize_or_create, whichever of its three outcomes it has. *)
LEMMA GoodResizedTo ==
    ASSUME NEW b, GoodBank(b), NEW h \in Id, NEW n \in Nat,
           CanResizeOrCreate(b, h, n)
    PROVE  GoodBank(ResizedTo(b, h, n))
<1>1. IsBank(b, RegisterContents)
  BY DEF GoodBank
<1>2. CASE Exists(b, h) /\ n = 0
  <2>1. ResizedTo(b, h, n) = Without(b, h)
    BY <1>2 DEF ResizedTo, ResizeOrCreate, Resize
  <2>2. /\ IsBank(Without(b, h), RegisterContents)
        /\ Without(b, h).next = b.next
        /\ DOMAIN Without(b, h).entries = DOMAIN b.entries \ {h}
        /\ \A k \in DOMAIN b.entries \ {h} : Without(b, h).entries[k] = b.entries[k]
    BY <1>1, WithoutBank
  <2> QED
    BY <2>1, <2>2 DEF GoodBank
<1>3. CASE Exists(b, h) /\ n # 0
  <2>1. ResizedTo(b, h, n) = SetContents(b, h, Resized(Contents(b, h), n))
    BY <1>3 DEF ResizedTo, ResizeOrCreate, Resize
  <2>2. Resized(Contents(b, h), n) \in RegisterContents
    BY <1>1, <1>3, RegisterContentsOf, ResizedContents
  <2> QED
    BY <1>3, <2>1, <2>2, GoodSetContents
<1>4. CASE ~Exists(b, h) /\ n = 0
  BY <1>4 DEF ResizedTo, ResizeOrCreate
<1>5. CASE ~Exists(b, h) /\ n # 0
  <2> DEFINE c == [size |-> n, val |-> Data]
  <2>1. ResizedTo(b, h, n) = Insert(b, h, c, FALSE)
    BY <1>5 DEF ResizedTo, ResizeOrCreate
  <2>2. CanInsert(b, h) /\ c \in RegisterContents /\ FALSE \in BOOLEAN
    BY <1>5, MadeContents DEF CanInsert
  <2> HIDE DEF c
  <2> QED
    BY <2>1, <2>2, GoodInsert
<1> QED
  BY <1>2, <1>3, <1>4, <1>5

-----------------------------------------------------------------------------
(* The local variables of a step. *)

LocalsOK(m) ==
    /\ m.frames \in Seq(Frame)
    /\ m.top = Len(m.frames) /\ m.top \in Nat \ {0}
    /\ m.read \in 1..m.top
    /\ m.modify \in 1..m.top

(* reload_activations and activation_index: what they leave is a chain of  *)
(* records, and the two indices point into it.                             *)
LEMMA LoadedType ==
    ASSUME TypeOK, NEW m \in Loaded
    PROVE  LocalsOK(m)
<1>1. PICK s \in Chains(bank, current) \ {<<>>} :
          /\ m = Locals(FramesOf(bank, s))
          /\ m.prefix.kind \in {"read", "modify"} => m.prefix.depth < m.top
  BY DEF Loaded
<1> DEFINE R == StoredRecords(bank)
           frames == FramesOf(bank, s)
<1>2. s \in Seq(R) /\ s # <<>>
  BY <1>1 DEF Chains
<1>3. \A h \in R : [record |-> Val(bank, h), storage |-> h] \in Frame
  BY DEF StoredRecords, Frame
<1> HIDE DEF R
<1>4. frames \in Seq(Frame) /\ Len(frames) = Len(s) /\ Len(s) \in Nat \ {0}
  BY <1>2, <1>3 DEF FramesOf
<1> HIDE DEF frames
<1>5. /\ m.frames = frames /\ m.top = Len(frames)
      /\ m.prefix = frames[Len(frames)].record.prefix
      /\ m.read = IF m.prefix.kind = "read" THEN m.top - m.prefix.depth ELSE m.top
      /\ m.modify = IF m.prefix.kind = "modify" THEN m.top - m.prefix.depth ELSE m.top
  BY <1>1 DEF Locals, frames
<1>6. frames[Len(frames)] \in Frame
  BY <1>4
<1>7. m.prefix \in Prefix
  BY <1>5, <1>6 DEF Frame, ActivationRecord
<1>8. m.prefix.depth \in Nat
  BY <1>7 DEF Prefix
<1> QED
  BY <1>1, <1>4, <1>5, <1>8 DEF LocalsOK

LEMMA RecordType ==
    ASSUME NEW m, LocalsOK(m), NEW i \in 1..m.top
    PROVE  m.frames[i] \in Frame /\ Record(m, i) \in ActivationRecord
<1>1. m.frames \in Seq(Frame) /\ i \in 1..Len(m.frames)
  BY DEF LocalsOK
<1>2. m.frames[i] \in Frame
  BY <1>1
<1> QED
  BY <1>2 DEF Record, Frame

LEMMA AdvancedType ==
    ASSUME NEW m, LocalsOK(m), NEW explicit \in Nat \cup {Null}, NEW prefix \in Prefix
    PROVE  /\ Advanced(m, explicit, prefix) \in Seq(Frame)
           /\ Len(Advanced(m, explicit, prefix)) = m.top
           /\ Advanced(m, explicit, prefix) # <<>>
<1>1. Decoded(m) \in Nat
  <2>1. Record(m, m.read) \in ActivationRecord
    BY RecordType DEF LocalsOK
  <2> QED
    BY <2>1 DEF Decoded, Reader, ActivationRecord
<1> DEFINE position(i) ==
               IF i = m.modify /\ explicit # NoPosition THEN explicit
               ELSE IF i = (IF m.prefix.kind = "read" THEN m.read ELSE m.modify)
                    THEN Decoded(m)
               ELSE m.frames[i].record.position
           frame(i) == [m.frames[i] EXCEPT
                            !.record.position = position(i),
                            !.record.prefix = IF i = m.top THEN prefix ELSE @]
<1>2. \A i \in 1..m.top : frame(i) \in Frame
  <2> SUFFICES ASSUME NEW i \in 1..m.top PROVE frame(i) \in Frame
    OBVIOUS
  <2>1. m.frames[i] \in Frame
    BY RecordType
  <2>2. m.frames[i].record \in ActivationRecord
    BY <2>1 DEF Frame
  <2>3. position(i) \in Nat
    BY <1>1, <2>2 DEF NoPosition, ActivationRecord
  <2>4. (IF i = m.top THEN prefix ELSE m.frames[i].record.prefix) \in Prefix
    BY <2>2 DEF ActivationRecord
  <2> HIDE DEF position
  <2> QED
    BY <2>1, <2>2, <2>3, <2>4 DEF Frame, ActivationRecord
<1>3. Advanced(m, explicit, prefix) = [i \in 1..m.top |-> frame(i)]
  BY DEF Advanced
<1> HIDE DEF frame
<1>4. m.top \in Nat \ {0}
  BY DEF LocalsOK
<1> QED
  BY <1>2, <1>3, <1>4

(* persist_activation writes records, and only into registers that exist.  *)
LEMMA GoodPersisted ==
    ASSUME NEW m, LocalsOK(m), NEW b, GoodBank(b),
           NEW frames \in Seq(Frame), Len(frames) = m.top
    PROVE  GoodBank(Persisted(m, b, frames))
<1> DEFINE touched(h) == \E i \in Touched(m) : frames[i].storage = h
           by(h) == CHOOSE i \in Touched(m) : frames[i].storage = h
           entry(h) == IF touched(h)
                       THEN [b.entries[h] EXCEPT !.contents.val = frames[by(h)].record]
                       ELSE b.entries[h]
           f == [h \in DOMAIN b.entries |-> entry(h)]
<1>1. /\ b = [entries |-> b.entries, next |-> b.next]
      /\ DOMAIN b.entries \subseteq Handle
      /\ \A h \in DOMAIN b.entries : b.entries[h] \in EntryOf(RegisterContents)
      /\ b.next \in 0..(MaxId + 1)
  BY BankFields DEF GoodBank
<1>2. \A h \in DOMAIN b.entries : entry(h) \in EntryOf(RegisterContents)
  <2> SUFFICES ASSUME NEW h \in DOMAIN b.entries
               PROVE  entry(h) \in EntryOf(RegisterContents)
    OBVIOUS
  <2>1. b.entries[h] \in EntryOf(RegisterContents)
    BY <1>1
  <2>2. CASE touched(h)
    <3>1. by(h) \in Touched(m)
      BY <2>2
    <3> HIDE DEF by
    <3>2. Touched(m) \subseteq 1..Len(frames)
      BY DEF Touched, LocalsOK
    <3>3. frames[by(h)].record \in ActivationRecord
      <4>1. by(h) \in 1..Len(frames)
        BY <3>1, <3>2
      <4>2. frames[by(h)] \in Frame
        BY <4>1
      <4> QED
        BY <4>2 DEF Frame
    <3>4. [b.entries[h] EXCEPT !.contents.val = frames[by(h)].record]
              \in EntryOf(RegisterContents)
      BY <2>1, <3>3 DEF EntryOf, RegisterContents, Value
    <3> HIDE DEF touched
    <3> QED
      BY <2>2, <3>4
  <2>3. CASE ~touched(h)
    BY <2>1, <2>3
  <2> QED
    BY <2>2, <2>3
<1>3. Persisted(m, b, frames) = [b EXCEPT !.entries = f]
  BY DEF Persisted
<1> HIDE DEF entry
<1>4. f \in [DOMAIN b.entries -> EntryOf(RegisterContents)] /\ DOMAIN f = DOMAIN b.entries
  BY <1>2
<1> HIDE DEF f
<1>5. Persisted(m, b, frames) = [entries |-> f, next |-> b.next]
  BY <1>1, <1>3, TableReplaced
<1> QED
  BY <1>1, <1>4, <1>5 DEF GoodBank, IsBank

LEMMA GoodFinished ==
    ASSUME NEW m, LocalsOK(m), NEW b, GoodBank(b), NEW next \in NodeRef,
           NEW frames \in Seq(Frame), Len(frames) = m.top,
           CellWritable(b, Modified(m))
    PROVE  GoodBank(Finished(m, b, next, frames))
<1>1. Exists(b, Modified(m).cell) /\ next \in Value
  BY DEF CellWritable, CanChange, Value
<1>2. GoodBank(SetVal(b, Modified(m).cell, next))
  BY <1>1, GoodSetVal
<1> QED
  BY <1>2, GoodPersisted DEF Finished

-----------------------------------------------------------------------------
(* The two ways a step ends. *)

LEMMA NextStateGood ==
    ASSUME GoodBank(bank'), current' \in Id \cup {Null}, activations' \in Seq(Frame),
           owned' \in [Id -> SUBSET Id]
    PROVE  Inv'
BY DEF Inv, TypeOK, NextIdFresh, GoodBank

LEMMA BankGood ==
    ASSUME Inv
    PROVE  GoodBank(bank)
BY DEF Inv, TypeOK, NextIdFresh, GoodBank

LEMMA NextNode == NodeRefs \subseteq NodeRef
BY VmAssumption

LEMMA CompleteType ==
    ASSUME Inv, NEW m \in Loaded, NEW b, GoodBank(b), NEW next \in NodeRefs,
           NEW explicit \in Nat \cup {Null}, NEW prefix \in Prefix,
           Complete(m, b, next, explicit, prefix)
    PROVE  Inv'
<1>1. LocalsOK(m) /\ next \in NodeRef
  BY LoadedType, NextNode DEF Inv
<1>2. /\ Advanced(m, explicit, prefix) \in Seq(Frame)
      /\ Len(Advanced(m, explicit, prefix)) = m.top
  BY <1>1, AdvancedType
<1>3. /\ activations' = Advanced(m, explicit, prefix)
      /\ bank' = Finished(m, b, next, activations')
      /\ CellWritable(b, Modified(m))
      /\ current' = current /\ owned' = owned
  BY DEF Complete, CanFinish
<1>4. GoodBank(bank')
  BY <1>1, <1>2, <1>3, GoodFinished
<1>5. current \in Id \cup {Null} /\ owned \in [Id -> SUBSET Id]
  BY DEF Inv, TypeOK
<1> QED
  BY <1>2, <1>3, <1>4, <1>5, NextStateGood

(* The ids of a new call come from the allocator, so that they are ids     *)
(* and the record that names them is a record.                             *)
LEMMA EnterCallType ==
    ASSUME Inv, NEW b, GoodBank(b), NEW frames \in Seq(Frame), frames # <<>>,
           NEW procedure \in Id, NEW entry \in NodeRef \cup {Null},
           NEW ownsProcedure \in BOOLEAN,
           EnterCall(b, frames, procedure, entry, ownsProcedure)
    PROVE  Inv'
<1> DEFINE caller == frames[Len(frames)].record
           newCell == entry # NoEntry
           b1 == IF newCell THEN Create(b, Cell(entry), FALSE) ELSE b
           b2 == Create(b1, Empty, FALSE)
           cell == IF newCell THEN b.next ELSE caller.cell
           record == [procedure |-> procedure, position |-> 0, cell |-> cell,
                      localResolver |-> caller.localResolver,
                      previous |-> frames[Len(frames)].storage, result |-> b1.next,
                      prefix |-> NoPrefix]
           own == Owned(b2.next, record, newCell, ownsProcedure)
<1>1. /\ newCell => CanCreate(b)
      /\ CanCreate(b1)
      /\ CanCreate(b2)
      /\ bank' = Create(b2, Stored(record), FALSE)
      /\ current' = b2.next
      /\ activations' = Append(frames, [record |-> record, storage |-> b2.next])
      /\ owned' = [owned EXCEPT ![b2.next] = own]
  BY DEF EnterCall
<1>2. caller \in ActivationRecord /\ frames[Len(frames)].storage \in Id
  <2>1. frames[Len(frames)] \in Frame
    OBVIOUS
  <2> QED
    BY <2>1 DEF Frame
<1>3. /\ current \in Id \cup {Null} /\ owned \in [Id -> SUBSET Id]
      /\ FALSE \in BOOLEAN
  BY DEF Inv, TypeOK
<1>4. GoodBank(b1) /\ cell \in Id
  <2>1. CASE newCell
    <3>1. Cell(entry) \in RegisterContents
      BY <2>1, MadeContents DEF NoEntry
    <3> QED
      BY <1>1, <1>3, <2>1, <3>1, GoodCreate
  <2>2. CASE ~newCell
    BY <1>2, <2>2 DEF ActivationRecord
  <2> QED
    BY <2>1, <2>2
<1> HIDE DEF b1, cell
<1>5. GoodBank(b2) /\ b1.next \in Id
  BY <1>1, <1>3, <1>4, MadeContents, GoodCreate
<1> HIDE DEF b2
<1>6. record \in ActivationRecord
  BY <1>2, <1>3, <1>4, <1>5, NoPrefixType DEF ActivationRecord
<1> HIDE DEF record
<1>7. GoodBank(bank') /\ b2.next \in Id
  BY <1>1, <1>3, <1>5, <1>6, MadeContents, GoodCreate
<1>8. activations' \in Seq(Frame)
  <2>1. [record |-> record, storage |-> b2.next] \in Frame
    BY <1>6, <1>7 DEF Frame
  <2> QED
    BY <1>1, <2>1
<1>9. owned' \in [Id -> SUBSET Id]
  <2>1. {record.result, record.cell, record.procedure} \subseteq Id
    BY <1>6 DEF ActivationRecord
  <2>2. own \subseteq Id
    BY <1>7, <2>1 DEF Owned
  <2> QED
    BY <1>1, <1>3, <1>7, <2>2
<1> QED
  BY <1>1, <1>7, <1>8, <1>9, NextStateGood

LEMMA CompleteAndCallType ==
    ASSUME Inv, NEW m \in Loaded, NEW b, GoodBank(b), NEW next \in NodeRefs,
           NEW procedure \in Id, NEW entry \in NodeRef \cup {Null},
           NEW ownsProcedure \in BOOLEAN,
           CompleteAndCall(m, b, next, procedure, entry, ownsProcedure)
    PROVE  Inv'
<1> DEFINE frames == Advanced(m, NoPosition, NoPrefix)
<1>1. LocalsOK(m) /\ next \in NodeRef
  BY LoadedType, NextNode DEF Inv
<1>2. NoPosition \in Nat \cup {Null} /\ NoPrefix \in Prefix
  BY NoPrefixType DEF NoPosition
<1>3. /\ Advanced(m, NoPosition, NoPrefix) \in Seq(Frame)
      /\ Len(Advanced(m, NoPosition, NoPrefix)) = m.top
      /\ Advanced(m, NoPosition, NoPrefix) # <<>>
  BY <1>1, <1>2, AdvancedType
<1>4. /\ CellWritable(b, Modified(m))
      /\ EnterCall(Finished(m, b, next, frames), frames, procedure, entry, ownsProcedure)
  BY DEF CompleteAndCall, CanFinish
<1> HIDE DEF frames
<1>5. frames \in Seq(Frame) /\ Len(frames) = m.top /\ frames # <<>>
  BY <1>3 DEF frames
<1>6. GoodBank(Finished(m, b, next, frames))
  BY <1>1, <1>4, <1>5, GoodFinished
<1> QED
  BY <1>4, <1>5, <1>6, EnterCallType

-----------------------------------------------------------------------------
(* The steps that call. *)

LEMMA CallNodeType ==
    ASSUME Inv, NEW m \in Loaded, CallNode(m)
    PROVE  Inv'
<1> SUFFICES ASSUME NEW next \in NodeRefs,
                    NEW entry \in NodeRefs, NEW procedure \in Id,
                    CanChange(bank, Owner(m).cell),
                    EnterCall(SetVal(bank, Owner(m).cell, next), m.frames,
                              procedure, entry, FALSE)
             PROVE  Inv'
  BY DEF CallNode
<1>1. LocalsOK(m) /\ next \in NodeRef /\ entry \in NodeRef
  BY LoadedType, NextNode DEF Inv
<1>2. Exists(bank, Owner(m).cell) /\ next \in Value
  BY <1>1 DEF CanChange, Value
<1>3. GoodBank(SetVal(bank, Owner(m).cell, next))
  BY <1>2, BankGood, GoodSetVal
<1>4. m.frames \in Seq(Frame) /\ m.frames # <<>>
  BY <1>1 DEF LocalsOK
<1>5. entry \in NodeRef \cup {Null} /\ FALSE \in BOOLEAN
  BY <1>1
<1> QED
  BY <1>3, <1>4, <1>5, EnterCallType

LEMMA SwitchProcedureType ==
    ASSUME Inv, NEW m \in Loaded, SwitchProcedure(m)
    PROVE  Inv'
<1> SUFFICES ASSUME NEW next \in NodeRefs, NEW procedure \in Id,
                    CompleteAndCall(m, bank, next, procedure, NoEntry, FALSE)
             PROVE  Inv'
  BY DEF SwitchProcedure
<1>1. NoEntry \in NodeRef \cup {Null} /\ FALSE \in BOOLEAN
  BY DEF NoEntry
<1> QED
  BY <1>1, BankGood, CompleteAndCallType

LEMMA SwitchNetworkType ==
    ASSUME Inv, NEW m \in Loaded, SwitchNetwork(m)
    PROVE  Inv'
<1> SUFFICES ASSUME NEW next \in NodeRefs, NEW entry \in NodeRefs,
                    CompleteAndCall(m, bank, next, Reader(m).procedure, entry, FALSE)
             PROVE  Inv'
  BY DEF SwitchNetwork
<1>1. LocalsOK(m)
  BY LoadedType DEF Inv
<1>2. Record(m, m.read) \in ActivationRecord
  BY <1>1, RecordType DEF LocalsOK
<1>3. Reader(m).procedure \in Id
  BY <1>2 DEF Reader, ActivationRecord
<1>4. entry \in NodeRef \cup {Null} /\ FALSE \in BOOLEAN
  BY NextNode
<1> HIDE DEF Reader
<1> QED
  BY <1>3, <1>4, BankGood, CompleteAndCallType

LEMMA SwitchProcedureAndNetworkType ==
    ASSUME Inv, NEW m \in Loaded, SwitchProcedureAndNetwork(m)
    PROVE  Inv'
<1> SUFFICES ASSUME NEW next \in NodeRefs, NEW entry \in NodeRefs,
                    NEW size \in Sizes, CanCreate(bank),
                    CompleteAndCall(m, Create(bank, [size |-> size, val |-> Code], TRUE),
                                    next, bank.next, entry, TRUE)
             PROVE  Inv'
  BY DEF SwitchProcedureAndNetwork
<1>1. [size |-> size, val |-> Code] \in RegisterContents
  BY MadeContents, VmAssumption
<1>2. TRUE \in BOOLEAN /\ entry \in NodeRef \cup {Null}
  BY NextNode
<1>3. /\ GoodBank(Create(bank, [size |-> size, val |-> Code], TRUE))
      /\ bank.next \in Id
  BY <1>1, <1>2, BankGood, GoodCreate
<1> QED
  BY <1>2, <1>3, CompleteAndCallType

-----------------------------------------------------------------------------
(* The steps that return. *)

LEMMA GoodDiscarded ==
    ASSUME NEW b, GoodBank(b), NEW own
    PROVE  GoodBank(Discarded(b, own))
<1> DEFINE f == [h \in DOMAIN b.entries \ own |-> b.entries[h]]
<1>1. /\ b = [entries |-> b.entries, next |-> b.next]
      /\ DOMAIN b.entries \subseteq Handle
      /\ \A h \in DOMAIN b.entries : b.entries[h] \in EntryOf(RegisterContents)
      /\ b.next \in 0..(MaxId + 1)
  BY BankFields DEF GoodBank
<1>2. /\ f \in [DOMAIN b.entries \ own -> EntryOf(RegisterContents)]
      /\ DOMAIN f = DOMAIN b.entries \ own
  BY <1>1
<1>3. Discarded(b, own) = [b EXCEPT !.entries = f]
  BY DEF Discarded
<1> HIDE DEF f
<1>4. Discarded(b, own) = [entries |-> f, next |-> b.next]
  BY <1>1, <1>3, TableReplaced
<1> QED
  BY <1>1, <1>2, <1>4 DEF GoodBank, IsBank

LEMMA FinishCallType ==
    ASSUME Inv, NEW m \in Loaded, FinishCall(m)
    PROVE  Inv'
<1> SUFFICES ASSUME
                    bank' = Discarded(bank, owned[current]),
                    activations' = SubSeq(m.frames, 1, m.top - 1),
                    owned' = [owned EXCEPT ![current] = {}],
                    current' = Owner(m).previous
             PROVE  Inv'
  BY DEF FinishCall
<1>1. LocalsOK(m)
  BY LoadedType DEF Inv
<1>2. Owner(m).previous \in Id \cup {Null}
  <2>1. Record(m, m.top) \in ActivationRecord
    BY <1>1, RecordType, SMTT(30) DEF LocalsOK
  <2> QED
    BY <2>1 DEF Owner, ActivationRecord
<1>3. SubSeq(m.frames, 1, m.top - 1) \in Seq(Frame)
  <2>1. m.frames \in Seq(Frame) /\ m.top = Len(m.frames) /\ m.top \in Nat \ {0}
    BY <1>1 DEF LocalsOK
  <2> QED
    BY <2>1
<1>4. GoodBank(bank')
  BY BankGood, GoodDiscarded
<1>5. owned' \in [Id -> SUBSET Id]
  BY DEF Inv, TypeOK
<1> QED
  BY <1>2, <1>3, <1>4, <1>5, NextStateGood

LEMMA SuppressedFinishType ==
    ASSUME Inv, NEW m \in Loaded, SuppressedFinish(m)
    PROVE  Inv'
<1> SUFFICES ASSUME CanChange(bank, current),
                    activations' = [m.frames EXCEPT ![m.top].record.prefix = NoPrefix],
                    bank' = SetVal(bank, current, activations'[m.top].record),
                    current' = current, owned' = owned
             PROVE  Inv'
  BY DEF SuppressedFinish
<1>1. LocalsOK(m)
  BY LoadedType DEF Inv
<1>2. /\ m.frames \in Seq(Frame) /\ m.top = Len(m.frames) /\ m.top \in Nat \ {0}
      /\ m.top \in 1..m.top
  BY <1>1 DEF LocalsOK
<1>3. m.frames[m.top] \in Frame
  BY <1>1, <1>2, RecordType
<1> DEFINE frame == [m.frames[m.top] EXCEPT !.record.prefix = NoPrefix]
<1>4. frame \in Frame
  BY <1>3, NoPrefixType DEF Frame, ActivationRecord
<1>5. activations' = [m.frames EXCEPT ![m.top] = frame]
  OBVIOUS
<1> HIDE DEF frame
<1>6. activations' \in Seq(Frame) /\ activations'[m.top] = frame
  BY <1>2, <1>4, <1>5
<1>7. Exists(bank, current) /\ activations'[m.top].record \in Value
  BY <1>4, <1>6 DEF CanChange, Frame, Value
<1>8. GoodBank(bank')
  BY <1>7, BankGood, GoodSetVal
<1>9. current \in Id \cup {Null} /\ owned \in [Id -> SUBSET Id]
  BY DEF Inv, TypeOK
<1> QED
  BY <1>6, <1>8, <1>9, NextStateGood

-----------------------------------------------------------------------------
(* The other commands. *)

LEMMA EffectFreeType ==
    ASSUME Inv, NEW m \in Loaded,
           SuppressedCommand(m) \/ Branch(m) \/ SetProcedurePosition(m)
    PROVE  Inv'
<1>1. NoPosition \in Nat \cup {Null} /\ NoPrefix \in Prefix
  BY NoPrefixType DEF NoPosition
<1>2. CASE SuppressedCommand(m) \/ Branch(m)
  <2>1. PICK next \in NodeRefs : Complete(m, bank, next, NoPosition, NoPrefix)
    BY <1>2 DEF SuppressedCommand, Branch
  <2> QED
    BY <1>1, <2>1, BankGood, CompleteType
<1>3. CASE SetProcedurePosition(m)
  <2>1. PICK next \in NodeRefs, position \in 0..Size(bank, Modified(m).procedure) :
            Complete(m, bank, next, position, NoPrefix)
    BY <1>3 DEF SetProcedurePosition
  <2>2. position \in Nat \cup {Null}
    OBVIOUS
  <2> QED
    BY <1>1, <2>1, <2>2, BankGood, CompleteType
<1> QED
  BY <1>2, <1>3

LEMMA PrefixType ==
    ASSUME Inv, NEW m \in Loaded, ReadPrefix(m) \/ ModifyPrefix(m) \/ ConditionPrefix(m)
    PROVE  Inv'
<1>1. PICK next \in NodeRefs, prefix \in Prefix : SetPrefix(m, next, prefix)
  <2>1. CASE ReadPrefix(m) \/ ModifyPrefix(m)
    <3>1. PICK next \in NodeRefs, kind \in {"read", "modify"}, depth \in Depths(m) :
              SetPrefix(m, next, [kind |-> kind, depth |-> depth, condition |-> FALSE])
      BY <2>1 DEF ReadPrefix, ModifyPrefix
    <3>2. [kind |-> kind, depth |-> depth, condition |-> FALSE] \in Prefix
      BY DEF Prefix, Depths
    <3> QED
      BY <3>1, <3>2
  <2>2. CASE ConditionPrefix(m)
    <3>1. PICK next \in NodeRefs, condition \in BOOLEAN :
              SetPrefix(m, next, [kind |-> "condition", depth |-> 0,
                                  condition |-> condition])
      BY <2>2 DEF ConditionPrefix
    <3>2. [kind |-> "condition", depth |-> 0, condition |-> condition] \in Prefix
      BY DEF Prefix
    <3> QED
      BY <3>1, <3>2
  <2> QED
    BY <2>1, <2>2
<1>2. Complete(m, bank, next, NoPosition, prefix) /\ NoPosition \in Nat \cup {Null}
  BY <1>1 DEF SetPrefix, NoPosition
<1> QED
  BY <1>2, BankGood, CompleteType

LEMMA StoreDataType ==
    ASSUME Inv, NEW m \in Loaded, StoreData(m)
    PROVE  Inv'
<1> SUFFICES ASSUME NEW next \in NodeRefs, NEW h \in Targets,
                    NEW v \in Values(m), CanChange(bank, h),
                    Complete(m, SetVal(bank, h, v), next, NoPosition, NoPrefix)
             PROVE  Inv'
  BY DEF StoreData, DestinationOK
<1>1. v \in Value
  <2>1. LocalsOK(m)
    BY LoadedType DEF Inv
  <2>2. \A i \in 1..m.top : Record(m, i) \in ActivationRecord
    BY <2>1, RecordType
  <2> QED
    BY <2>2, NextNode DEF Values, Value
<1>2. GoodBank(SetVal(bank, h, v))
  BY <1>1, BankGood, GoodSetVal DEF CanChange
<1>3. NoPosition \in Nat \cup {Null} /\ NoPrefix \in Prefix
  BY NoPrefixType DEF NoPosition
<1> QED
  BY <1>2, <1>3, CompleteType

LEMMA ReturnResultType ==
    ASSUME Inv, NEW m \in Loaded, ReturnResult(m)
    PROVE  Inv'
<1> SUFFICES ASSUME NEW next \in NodeRefs,
                    NEW size \in Sizes \cup {0}, NEW result,
                    CanChange(bank, result),
                    Complete(m, SetContents(bank, result, [size |-> size, val |-> Data]),
                             next, NoPosition, NoPrefix)
             PROVE  Inv'
  BY DEF ReturnResult
<1>1. [size |-> size, val |-> Data] \in RegisterContents
  BY MadeContents, VmAssumption
<1>2. GoodBank(SetContents(bank, result, [size |-> size, val |-> Data]))
  BY <1>1, BankGood, GoodSetContents DEF CanChange
<1>3. NoPosition \in Nat \cup {Null} /\ NoPrefix \in Prefix
  BY NoPrefixType DEF NoPosition
<1> QED
  BY <1>2, <1>3, CompleteType

LEMMA ResizeRegisterType ==
    ASSUME Inv, NEW m \in Loaded, ResizeRegister(m)
    PROVE  Inv'
<1> SUFFICES ASSUME NEW next \in NodeRefs, NEW h \in Targets,
                    NEW size \in Sizes \cup {0}, CanResizeOrCreate(bank, h, size),
                    Complete(m, ResizedTo(bank, h, size), next, NoPosition, NoPrefix)
             PROVE  Inv'
  BY DEF ResizeRegister
<1>1. h \in Id /\ size \in Nat
  BY VmAssumption
<1>2. GoodBank(ResizedTo(bank, h, size))
  BY <1>1, BankGood, GoodResizedTo
<1>3. NoPosition \in Nat \cup {Null} /\ NoPrefix \in Prefix
  BY NoPrefixType DEF NoPosition
<1> QED
  BY <1>2, <1>3, CompleteType

-----------------------------------------------------------------------------
(* The machine the constructor leaves.  It reads its own registers back    *)
(* only through reload_activations, so nothing but types is asked of the   *)
(* host here.                                                              *)

LEMMA HostTypes ==
    /\ Len(HostFrames) \in Nat \ {0} /\ FirstId \in Nat
    /\ FirstId + 2 * Len(HostFrames) <= MaxId + 1
    /\ \A h \in 0..(FirstId - 1) : HostRegisters[h + 1] \in EntryOf(RegisterContents)
    /\ \A i \in 1..Len(HostFrames) :
          HostRecord(i) \in ActivationRecord /\ HostStorage(i) \in Id
<1>1. /\ HostRegisters \in Seq(EntryOf(RegisterContents))
      /\ HostFrames \in Seq(HostFrame) /\ HostFrames # <<>>
      /\ Len(HostRegisters) + 2 * Len(HostFrames) <= MaxId + 1
  BY VmAssumption
<1>2. Len(HostFrames) \in Nat \ {0} /\ FirstId \in Nat
  BY <1>1 DEF FirstId
<1>3. FirstId + 2 * Len(HostFrames) <= MaxId + 1
  BY <1>1 DEF FirstId
<1>4. \A h \in 0..(FirstId - 1) : HostRegisters[h + 1] \in EntryOf(RegisterContents)
  BY <1>1 DEF FirstId
<1>5. \A i \in 1..Len(HostFrames) :
          HostStorage(i) \in Id /\ HostStorage(i) - 1 \in Id
  BY <1>2, <1>3, RegistersAssumption DEF HostStorage, Id
<1>6. ASSUME NEW i \in 1..Len(HostFrames)
      PROVE  HostRecord(i) \in ActivationRecord
  <2>1. HostFrames[i] \in HostFrame
    BY <1>1
  <2>2. (IF i = 1 THEN Null ELSE HostStorage(i - 1)) \in Id \cup {Null}
    BY <1>2, <1>5
  <2> QED
    BY <1>5, <2>1, <2>2, NoPrefixType DEF HostRecord, HostFrame, ActivationRecord
<1> QED
  BY <1>2, <1>3, <1>4, <1>5, <1>6

LEMMA InitType == Init => Inv
<1> SUFFICES ASSUME Init PROVE Inv
  OBVIOUS
<1> DEFINE n == Len(HostFrames)
           frame(h) == (h - FirstId) \div 2 + 1
           made(h) == IF h = HostStorage(frame(h)) THEN Stored(HostRecord(frame(h)))
                      ELSE Empty
           entry(h) == IF h < FirstId THEN HostRegisters[h + 1]
                       ELSE [contents |-> made(h), immutable |-> FALSE,
                             protected |-> FALSE]
           ids == 0..(FirstId + 2 * n - 1)
<1>1. /\ bank = [entries |-> [h \in ids |-> entry(h)], next |-> FirstId + 2 * n]
      /\ current = HostStorage(n)
      /\ activations =
             [i \in 1..n |-> [record |-> HostRecord(i), storage |-> HostStorage(i)]]
      /\ owned = [h \in Id |->
             IF \E i \in 1..n : h = HostStorage(i) THEN {h - 1, h} ELSE {}]
  BY DEF Init
<1>2. /\ n \in Nat \ {0} /\ FirstId \in Nat
      /\ FirstId + 2 * n <= MaxId + 1 /\ MaxId \in Nat
      /\ \A h \in 0..(FirstId - 1) : HostRegisters[h + 1] \in EntryOf(RegisterContents)
      /\ \A i \in 1..n : HostRecord(i) \in ActivationRecord /\ HostStorage(i) \in Id
  BY HostTypes, RegistersAssumption
<1> HIDE DEF n
<1>3. \A h \in ids : entry(h) \in EntryOf(RegisterContents)
  <2> SUFFICES ASSUME NEW h \in ids PROVE entry(h) \in EntryOf(RegisterContents)
    OBVIOUS
  <2>1. CASE h < FirstId
    BY <1>2, <2>1
  <2>2. CASE ~(h < FirstId)
    <3>1. frame(h) \in 1..n
      BY <1>2, <2>2
    <3>2. Stored(HostRecord(frame(h))) \in RegisterContents /\ Empty \in RegisterContents
      BY <1>2, <3>1, MadeContents
    <3>3. made(h) \in RegisterContents
      BY <3>2
    <3> HIDE DEF made
    <3> QED
      BY <2>2, <3>3 DEF EntryOf
  <2> QED
    BY <2>1, <2>2
<1> HIDE DEF entry
<1>4. ids \subseteq Id /\ \A h \in ids : h < FirstId + 2 * n
  BY <1>2 DEF Id
<1>5. GoodBank(bank)
  <2> DEFINE f == [h \in ids |-> entry(h)]
  <2>1. f \in [ids -> EntryOf(RegisterContents)] /\ DOMAIN f = ids
    BY <1>3
  <2>2. FirstId + 2 * n \in 0..(MaxId + 1)
    BY <1>2
  <2>3. bank = [entries |-> f, next |-> FirstId + 2 * n]
    BY <1>1
  <2> HIDE DEF f, ids
  <2>4. bank.entries = f /\ bank.next = FirstId + 2 * n
    BY <2>3
  <2> QED
    BY <1>4, <2>1, <2>2, <2>3, <2>4 DEF GoodBank, IsBank, Handle
<1>6. activations \in Seq(Frame)
  <2>1. \A i \in 1..n : [record |-> HostRecord(i), storage |-> HostStorage(i)] \in Frame
    BY <1>2 DEF Frame
  <2> QED
    BY <1>1, <1>2, <2>1
<1>7. owned \in [Id -> SUBSET Id]
  <2>1. \A h \in Id : (\E i \in 1..n : h = HostStorage(i)) => {h - 1, h} \subseteq Id
    BY <1>2 DEF HostStorage, Id
  <2> QED
    BY <1>1, <2>1
<1>8. current \in Id \cup {Null}
  BY <1>1, <1>2
<1> QED
  BY <1>5, <1>6, <1>7, <1>8 DEF Inv, TypeOK, NextIdFresh, GoodBank

-----------------------------------------------------------------------------

LEMMA StepType == Inv /\ [Next]_vars => Inv'
<1> SUFFICES ASSUME Inv, [Next]_vars PROVE Inv'
  OBVIOUS
<1>1. CASE UNCHANGED vars
  BY <1>1 DEF Inv, TypeOK, NextIdFresh, vars
<1>2. CASE Next
  BY <1>2, CallNodeType, SwitchProcedureType, SwitchNetworkType,
     SwitchProcedureAndNetworkType, FinishCallType, SuppressedFinishType,
     EffectFreeType, PrefixType, StoreDataType, ReturnResultType, ResizeRegisterType
     DEF Next
<1> QED
  BY <1>1, <1>2

(* The state of the machine keeps its types, whatever program runs: every  *)
(* chain that reload_activations finds is a chain of records, and no step  *)
(* makes a record that names a register no handle can name.                *)
THEOREM MachineTypeCorrect == Spec => []TypeOK
<1>1. Init => Inv
  BY InitType
<1>2. Inv /\ [Next]_vars => Inv'
  BY StepType
<1>3. Inv => TypeOK
  BY DEF Inv
<1> QED
  BY <1>1, <1>2, <1>3, PTL DEF Spec

(* The id a call or 1000 takes next is never in use, although a program    *)
(* creates registers at ids of its choice with 1100: create cannot fail    *)
(* before the ids run out.                                                 *)
THEOREM CallsGetFreshIds == Spec => []NextIdFresh
<1>1. Init => Inv
  BY InitType
<1>2. Inv /\ [Next]_vars => Inv'
  BY StepType
<1>3. Inv => NextIdFresh
  BY DEF Inv
<1> QED
  BY <1>1, <1>2, <1>3, PTL DEF Spec

-----------------------------------------------------------------------------
(* The chain of activations as the registers hold it.                      *)

(* A set of numbers has a least one. *)
LEMMA LeastNumber ==
    ASSUME NEW S \in SUBSET Nat, S # {}
    PROVE  \E k \in S : \A j \in S : ~(j < k)
<1> DEFINE upto == {0..k : k \in S}
           R == StrictSubsetOrdering(Nat)
<1>1. IsWellFoundedOn(R, FiniteSubsetsOf(Nat))
  BY FS_StrictSubsetOrderingWellFounded
<1>2. upto \subseteq FiniteSubsetsOf(Nat) /\ upto # {}
  <2>1. \A k \in S : 0..k \in SUBSET Nat /\ IsFiniteSet(0..k)
    BY FS_Interval
  <2> QED
    BY <2>1 DEF FiniteSubsetsOf
<1> HIDE DEF R, upto
<1>3. PICK x \in upto : \A y \in upto : ~(<<y, x>> \in R)
  BY <1>1, <1>2, WFMin
<1>4. PICK k \in S : x = 0..k
  BY <1>3 DEF upto
<1>5. ASSUME NEW j \in S, j < k PROVE FALSE
  <2>1. 0..j \in SUBSET Nat /\ 0..k \in SUBSET Nat
    OBVIOUS
  <2>2. 0..j \subseteq 0..k /\ k \in 0..k /\ k \notin 0..j
    BY <1>5
  <2>3. <<0..j, 0..k>> \in StrictSubsetOrdering(Nat)
    BY <2>1, <2>2 DEF StrictSubsetOrdering
  <2>4. 0..j \in upto
    BY DEF upto
  <2> QED
    BY <1>3, <1>4, <2>3, <2>4 DEF R
<1> QED
  BY <1>4, <1>5

LEMMA ChainParts ==
    ASSUME NEW b, NEW c, NEW s \in Seq(Id), IsChain(b, c, s)
    PROVE  /\ Len(s) \in Nat /\ Null \notin Id
           /\ \A i \in 1..Len(s) : s[i] \in Id
           /\ c = IF s = <<>> THEN Null ELSE s[Len(s)]
           /\ c = Null <=> s = <<>>
           /\ \A i \in 1..Len(s) :
                  Val(b, s[i]).previous = IF i = 1 THEN Null ELSE s[i - 1]
<1>1. Len(s) \in Nat /\ \A i \in 1..Len(s) : s[i] \in Id
  OBVIOUS
<1>2. Null \notin Id
  BY VmAssumption DEF Id
<1>3. s # <<>> => Len(s) \in 1..Len(s)
  BY <1>1
<1> QED
  BY <1>1, <1>2, <1>3 DEF IsChain

(* Two chains that end in one register agree as far as both go back. *)
LEMMA ChainsAgree ==
    ASSUME NEW b, NEW c, NEW s \in Seq(Id), NEW t \in Seq(Id),
           IsChain(b, c, s), IsChain(b, c, t),
           NEW n \in Nat, n < Len(s), n < Len(t)
    PROVE  s[Len(s) - n] = t[Len(t) - n]
<1> DEFINE differ == {k \in Nat : /\ k < Len(s) /\ k < Len(t)
                                  /\ s[Len(s) - k] # t[Len(t) - k]}
<1> HIDE DEF differ
<1>1. SUFFICES ASSUME differ # {} PROVE FALSE
  BY DEF differ
<1>2. PICK k \in differ : \A j \in differ : ~(j < k)
  <2>1. differ \in SUBSET Nat
    BY DEF differ
  <2> QED
    BY <1>1, <2>1, LeastNumber
<1>3. /\ k \in Nat /\ k < Len(s) /\ k < Len(t)
      /\ s[Len(s) - k] # t[Len(t) - k]
  BY <1>2 DEF differ
<1>4. Len(s) \in Nat /\ Len(t) \in Nat /\ s # <<>> /\ t # <<>>
  BY <1>3
<1>5. k # 0
  BY <1>3, <1>4, ChainParts
<1>6. k - 1 \in Nat /\ k - 1 < k /\ k - 1 < Len(s) /\ k - 1 < Len(t)
  BY <1>3, <1>4, <1>5
<1>7. s[Len(s) - (k - 1)] = t[Len(t) - (k - 1)]
  BY <1>2, <1>6 DEF differ
<1>8. PICK i \in 1..Len(s), j \in 1..Len(t) :
          /\ i = Len(s) - (k - 1) /\ i # 1 /\ i - 1 = Len(s) - k
          /\ j = Len(t) - (k - 1) /\ j # 1 /\ j - 1 = Len(t) - k
  <2>1. \A l \in Nat : k < l => /\ l - (k - 1) \in 1..l /\ l - (k - 1) # 1
                               /\ l - (k - 1) - 1 = l - k
    BY <1>3, <1>6
  <2> QED
    BY <1>3, <1>4, <2>1
<1>9. Val(b, s[i]).previous = s[i - 1] /\ Val(b, t[j]).previous = t[j - 1]
  BY <1>8, ChainParts
<1> QED
  BY <1>3, <1>7, <1>8, <1>9

LEMMA ChainNotShorter ==
    ASSUME NEW b, NEW c, NEW s \in Seq(Id), NEW t \in Seq(Id),
           IsChain(b, c, s), IsChain(b, c, t)
    PROVE  ~(Len(s) < Len(t))
<1> SUFFICES ASSUME Len(s) < Len(t) PROVE FALSE
  OBVIOUS
<1>1. Len(s) \in Nat /\ Len(t) \in Nat
  OBVIOUS
<1>2. s # <<>>
  <2>1. t # <<>>
    BY <1>1
  <2> QED
    BY <2>1, ChainParts
<1>3. PICK j \in 1..Len(t) : j = Len(t) - Len(s) + 1 /\ j # 1
  <2>1. Len(s) # 0
    BY <1>2
  <2>2. Len(t) - Len(s) + 1 \in 1..Len(t) /\ Len(t) - Len(s) + 1 # 1
    BY <1>1, <2>1
  <2> QED
    BY <2>2
<1>4. s[1] = t[j] /\ 1 \in 1..Len(s)
  <2>1. /\ Len(s) - 1 \in Nat /\ Len(s) - 1 < Len(s) /\ Len(s) - 1 < Len(t)
        /\ Len(s) - (Len(s) - 1) = 1 /\ Len(t) - (Len(s) - 1) = j
    BY <1>1, <1>2, <1>3
  <2>2. s[Len(s) - (Len(s) - 1)] = t[Len(t) - (Len(s) - 1)]
    BY <2>1, ChainsAgree
  <2> QED
    BY <1>1, <1>2, <2>1, <2>2
<1>5. Val(b, s[1]).previous = Null /\ Val(b, t[j]).previous = t[j - 1]
  BY <1>3, <1>4, ChainParts
<1>6. t[j - 1] \in Id /\ Null \notin Id
  <2>1. j - 1 \in 1..Len(t)
    BY <1>1, <1>3
  <2> QED
    BY <2>1, ChainParts
<1> QED
  BY <1>4, <1>5, <1>6

(* Following previous_activation back from one register finds one chain.   *)
LEMMA ChainUnique ==
    ASSUME NEW b, NEW c, NEW s \in Seq(Id), NEW t \in Seq(Id),
           IsChain(b, c, s), IsChain(b, c, t)
    PROVE  s = t
<1>1. Len(s) = Len(t) /\ Len(s) \in Nat
  <2>1. ~(Len(s) < Len(t)) /\ ~(Len(t) < Len(s))
    BY ChainNotShorter
  <2> QED
    BY <2>1
<1>2. ASSUME NEW i \in 1..Len(s) PROVE s[i] = t[i]
  <2>1. /\ Len(s) - i \in Nat /\ Len(s) - i < Len(s)
        /\ Len(s) - (Len(s) - i) = i
    BY <1>1
  <2>2. s[Len(s) - (Len(s) - i)] = t[Len(t) - (Len(s) - i)]
    BY <1>1, <2>1, ChainsAgree
  <2> QED
    BY <1>1, <2>1, <2>2
<1> QED
  BY <1>1, <1>2

(* A chain that meets no register twice is one of those that Chains looks  *)
(* through: what lies between its root and its end are other records.      *)
LEMMA ChainFound ==
    ASSUME NEW b, NEW c, NEW s \in Seq(StoredRecords(b)), IsChain(b, c, s),
           \A i, j \in 1..Len(s) : s[i] = s[j] => i = j
    PROVE  s \in Chains(b, c)
<1> DEFINE R == StoredRecords(b)
           roots == {h \in R : Val(b, h).previous = Null}
           others == R \ (roots \cup {c})
           between == UNION {[1..n -> others] : n \in 0..Cardinality(others)}
           candidates == {<<>>, <<c>>} \cup {<<r>> \o t \o <<c>> : r \in roots, t \in between}
<1>1. \A x \in candidates : x \in Seq(R) /\ IsChain(b, c, x) => x \in Chains(b, c)
  <2>1. Chains(b, c) = {x \in candidates : x \in Seq(R) /\ IsChain(b, c, x)}
    BY DEF Chains
  <2> HIDE DEF candidates, R
  <2> QED
    BY <2>1
<1>2. R \subseteq Id
  BY DEF StoredRecords
<1>3. s \in Seq(Id) /\ s \in Seq(R) /\ Len(s) \in Nat
  BY <1>2
<1>4. /\ \A i \in 1..Len(s) : s[i] \in Id /\ s[i] \in R
      /\ c = IF s = <<>> THEN Null ELSE s[Len(s)]
      /\ \A i \in 1..Len(s) : Val(b, s[i]).previous = IF i = 1 THEN Null ELSE s[i - 1]
      /\ Null \notin Id
  BY <1>3, ChainParts
<1> HIDE DEF R
<1>5. CASE Len(s) \in {0, 1}
  <2>1. s = <<>> \/ s = <<c>>
    BY <1>3, <1>4, <1>5
  <2> QED
    BY <1>1, <1>3, <2>1
<1>6. CASE Len(s) > 1
  <2> DEFINE n == Len(s) - 2
             t == [i \in 1..n |-> s[i + 1]]
  <2>1. n \in Nat /\ 1 \in 1..Len(s) /\ Len(s) \in 1..Len(s) /\ s # <<>>
    BY <1>3, <1>6
  <2>2. s[1] \in roots /\ s[Len(s)] = c
    BY <1>4, <2>1
  <2>3. ASSUME NEW i \in 1..n PROVE t[i] \in others
    <3>1. /\ i + 1 \in 1..Len(s) /\ i + 1 # 1 /\ i + 1 # Len(s)
          /\ i \in 1..Len(s) /\ (i + 1) - 1 = i
      BY <1>3, <1>6
    <3>2. s[i + 1] \in R /\ s[i + 1] # c
      BY <1>4, <2>1, <2>2, <3>1
    <3>3. Val(b, s[i + 1]).previous = s[i] /\ s[i] # Null
      BY <1>4, <3>1
    <3> QED
      BY <3>2, <3>3
  <2>4. t \in [1..n -> others]
    BY <2>3
  <2>5. n <= Cardinality(others)
    <3>1. IsFiniteSet(others)
      <4>1. IsFiniteSet(Id)
        BY FS_Interval, RegistersAssumption DEF Id
      <4> QED
        BY <1>2, <4>1, FS_Subset
    <3>2. \A i, j \in 1..n : t[i] = t[j] => i = j
      <4> SUFFICES ASSUME NEW i \in 1..n, NEW j \in 1..n, s[i + 1] = s[j + 1]
                   PROVE  i = j
        OBVIOUS
      <4>1. i + 1 \in 1..Len(s) /\ j + 1 \in 1..Len(s)
        BY <1>3, <1>6
      <4>2. i + 1 = j + 1
        BY <4>1
      <4> QED
        BY <2>1, <4>2
    <3> HIDE DEF t, others
    <3>3. t \in Injection(1..n, others)
      BY <2>4, <3>2 DEF Injection, IsInjective
    <3>4. Cardinality(1..n) <= Cardinality(others)
      BY <3>1, <3>3, FS_Injection
    <3>5. Cardinality(1..n) = n
      <4> HIDE DEF n
      <4> QED
        BY <2>1, FS_Interval
    <3> QED
      BY <3>4, <3>5
  <2>6. Cardinality(others) \in Nat
    <3>1. IsFiniteSet(Id)
      BY FS_Interval, RegistersAssumption DEF Id
    <3>2. IsFiniteSet(others)
      BY <1>2, <3>1, FS_Subset
    <3> HIDE DEF others
    <3> QED
      BY <3>2, FS_CardinalityType
  <2>7. t \in between
    <3> HIDE DEF t, others
    <3> QED
      BY <2>1, <2>4, <2>5, <2>6
  <2>8. s = <<s[1]>> \o t \o <<c>>
    <3>1. /\ Len(t) = n /\ Len(s) = n + 2 /\ s \in Seq(R) /\ c \in R
          /\ \A i \in 1..n : s[i + 1] = t[i]
      BY <1>3, <1>4, <2>1, <2>2
    <3>2. t \in Seq(R)
      BY <1>4, <1>3, <2>1
    <3>3. s[1] \in R
      BY <1>4, <2>1
    <3> HIDE DEF t, n
    <3> DEFINE w == <<s[1]>> \o t \o <<c>>
    <3>4. w \in Seq(R) /\ Len(w) = n + 2 /\ w[1] = s[1] /\ w[n + 2] = c
          /\ \A i \in 1..n : w[i + 1] = t[i]
      BY <2>1, <3>1, <3>2, <3>3
    <3> HIDE DEF w
    <3>5. ASSUME NEW i \in 1..(n + 2) PROVE s[i] = w[i]
      <4>1. i = 1 \/ i = n + 2 \/ \E j \in 1..n : i = j + 1
        <5>1. i # 1 /\ i # n + 2 => i - 1 \in 1..n /\ i = (i - 1) + 1
          BY <2>1
        <5> QED
          BY <5>1
      <4> QED
        BY <2>2, <3>1, <3>4, <4>1
    <3>6. s = w
      BY <3>1, <3>4, <3>5
    <3> QED
      BY <3>6 DEF w
  <2> HIDE DEF t, between, roots
  <2>9. s \in candidates
    BY <2>2, <2>7, <2>8, SMTT(30)
  <2> HIDE DEF candidates
  <2> QED
    BY <1>1, <1>3, <2>9
<1>7. Len(s) \in {0, 1} \/ Len(s) > 1
  <2>1. \A n \in Nat : n \in {0, 1} \/ n > 1
    OBVIOUS
  <2> QED
    BY <1>3, <2>1
<1> QED
  BY <1>5, <1>6, <1>7

\* The frames f, root first, are linked by previous_activation and end in c.
Linked(f, c) ==
    /\ c = IF f = <<>> THEN Null ELSE f[Len(f)].storage
    /\ \A i \in 1..Len(f) :
          f[i].record.previous = IF i = 1 THEN Null ELSE f[i - 1].storage
    /\ \A i, j \in 1..Len(f) : f[i].storage = f[j].storage => i = j

\* Each record of the frames f is in its register.
RecordsStored(b, f) ==
    \A i \in 1..Len(f) :
        Fits(b, f[i].storage, 0, ActSize) /\ Val(b, f[i].storage) = f[i].record

(* reload_activations finds the chain that is stored, and no other.        *)
LEMMA StoredChainFound ==
    ASSUME NEW b, NEW c, NEW f \in Seq(Frame), Linked(f, c), RecordsStored(b, f)
    PROVE  {FramesOf(b, s) : s \in Chains(b, c)} = {f}
<1> DEFINE s == [i \in 1..Len(f) |-> f[i].storage]
<1>1. Len(f) \in Nat /\ \A i \in 1..Len(f) : f[i] \in Frame
  OBVIOUS
<1>2. \A i \in 1..Len(f) : /\ f[i] = [record |-> f[i].record, storage |-> f[i].storage]
                           /\ f[i].record \in ActivationRecord /\ f[i].storage \in Id
  BY <1>1 DEF Frame
<1>3. \A i \in 1..Len(f) : f[i].storage \in StoredRecords(b)
  BY <1>2 DEF RecordsStored, StoredRecords
<1>4. s \in Seq(StoredRecords(b)) /\ s \in Seq(Id) /\ Len(s) = Len(f)
  <2> DEFINE R == StoredRecords(b)
  <2>1. \A i \in 1..Len(f) : f[i].storage \in R /\ f[i].storage \in Id
    BY <1>2, <1>3
  <2> HIDE DEF R
  <2>2. s \in Seq(R) /\ s \in Seq(Id) /\ Len(s) = Len(f)
    BY <1>1, <2>1
  <2> QED
    BY <2>2 DEF R
<1>5. \A i \in 1..Len(f) : s[i] = f[i].storage
  OBVIOUS
<1> HIDE DEF s
<1>6. IsChain(b, c, s)
  <2>1. s = <<>> <=> f = <<>>
    BY <1>1, <1>4
  <2>2. c = IF s = <<>> THEN Null ELSE s[Len(s)]
    <3>1. f # <<>> => Len(f) \in 1..Len(f)
      BY <1>1
    <3> QED
      BY <1>4, <1>5, <2>1, <3>1 DEF Linked
  <2>3. ASSUME NEW i \in 1..Len(s)
        PROVE  Val(b, s[i]).previous = IF i = 1 THEN Null ELSE s[i - 1]
    <3>1. i # 1 => i - 1 \in 1..Len(f)
      BY <1>1, <1>4
    <3> QED
      BY <1>4, <1>5, <3>1 DEF Linked, RecordsStored
  <2> QED
    BY <2>2, <2>3 DEF IsChain
<1>7. s \in Chains(b, c)
  <2>1. \A i, j \in 1..Len(s) : s[i] = s[j] => i = j
    BY <1>4, <1>5 DEF Linked
  <2> QED
    BY <1>4, <1>6, <2>1, ChainFound
<1>8. FramesOf(b, s) = f
  <2>1. FramesOf(b, s) = [i \in 1..Len(f) |-> f[i]]
    BY <1>2, <1>4, <1>5 DEF FramesOf, RecordsStored
  <2> QED
    BY <1>1, <2>1
<1>9. ASSUME NEW t \in Chains(b, c) PROVE t = s
  <2>1. StoredRecords(b) \subseteq Id
    BY DEF StoredRecords
  <2>2. t \in Seq(StoredRecords(b)) /\ IsChain(b, c, t)
    BY DEF Chains
  <2>3. t \in Seq(Id)
    BY <2>1, <2>2
  <2> QED
    BY <1>4, <1>6, <2>2, <2>3, ChainUnique
<1> QED
  BY <1>7, <1>8, <1>9

(* The local variables of a step are those of the snapshot.                *)
LEMMA LoadedFrames ==
    ASSUME activations \in Seq(Frame), Linked(activations, current),
           RecordsStored(bank, activations), NEW m \in Loaded
    PROVE  /\ m = Locals(activations)
           /\ activations # <<>>
           /\ m.prefix.kind \in {"read", "modify"} => m.prefix.depth < m.top
<1>1. PICK s \in Chains(bank, current) \ {<<>>} :
          /\ m = Locals(FramesOf(bank, s))
          /\ m.prefix.kind \in {"read", "modify"} => m.prefix.depth < m.top
  BY DEF Loaded
<1>2. FramesOf(bank, s) = activations
  BY <1>1, StoredChainFound
<1>3. FramesOf(bank, s) # <<>>
  <2>1. s \in Seq(StoredRecords(bank)) /\ s # <<>>
    BY <1>1 DEF Chains
  <2> QED
    BY <2>1 DEF FramesOf
<1> QED
  BY <1>1, <1>2, <1>3

-----------------------------------------------------------------------------
(* What the machine keeps true of the activations and of the registers     *)
(* they refer to, for every disciplined program that starts on a host's    *)
(* registers of HostOK.  MachineKept is the inductive invariant.  It is    *)
(* said of any bank and any frames, since a step builds its bank in pieces *)
(* and each piece is shown to keep it.                                     *)

\* What the activation of a frame refers to is there, and holds what it must.
FrameKept(b, frame) ==
    LET record == frame.record
    IN  /\ CanChange(b, frame.storage) /\ ActSize <= Size(b, frame.storage)
        /\ Val(b, frame.storage) = record
        /\ CanChange(b, record.result)
        /\ CellOK(b, record) /\ CellWritable(b, record)
        /\ Exists(b, record.procedure) /\ IsImmutable(b, record.procedure)
        /\ record.position <= Size(b, record.procedure)

Results(f) == {f[i].record.result : i \in 1..Len(f)}

\* A node is inside its register, or in a register that holds results.
Safe(b, f, ref) == NodeOK(b, ref) \/ ref.id \in Results(f)

BankKept(b, f) ==
    \A i \in 1..Len(f) :
        /\ FrameKept(b, f[i])
        /\ Safe(b, f, NodeOf(b, f[i].record))
        /\ f[i].record.localResolver # Null => Safe(b, f, f[i].record.localResolver)

\* The result of a call is neither a record nor a state cell.
ResultsApart(f) ==
    \A i, j \in 1..Len(f) : f[i].record.result \notin {f[j].storage, f[j].record.cell}

PrefixesOK(f) ==
    \A i \in 1..Len(f) :
        f[i].record.prefix.kind \in {"read", "modify"} => f[i].record.prefix.depth < i

\* What a call owns is among what its record names, and what others do not own.
OwnedOK(f, o) ==
    /\ \A i \in 1..Len(f) :
          LET record == f[i].record
              own == o[f[i].storage]
          IN  /\ {f[i].storage, record.result} \subseteq own
              /\ own \subseteq {f[i].storage, record.result, record.cell, record.procedure}
              /\ \A j \in 1..Len(f) : i # j => own \cap o[f[j].storage] = {}
              /\ i > Len(HostFrames) /\ record.cell \notin own =>
                     record.cell = f[i - 1].record.cell
    /\ \A h \in Id : o[h] # {} => \E i \in 1..Len(f) : f[i].storage = h

\* What does not depend on the bank.
FramesKept(f, c, o) ==
    /\ f \in Seq(Frame)
    /\ Linked(f, c)
    /\ ResultsApart(f)
    /\ PrefixesOK(f)
    /\ OwnedOK(f, o)

MachineKept(b, f, c, o) == FramesKept(f, c, o) /\ BankKept(b, f)

MachineOK == Inv /\ MachineKept(bank, activations, current, owned)

-----------------------------------------------------------------------------
(* Registers in a bank. *)

\* No read-only register has changed.
ReadOnlyKept(b, b2) ==
    \A h \in DOMAIN b.entries :
        IsImmutable(b, h) => Exists(b2, h) /\ b2.entries[h] = b.entries[h]

\* The banks differ in the values of registers, and not otherwise.
SameShape(b, b2) ==
    /\ b2.next = b.next
    /\ DOMAIN b2.entries = DOMAIN b.entries
    /\ \A h \in DOMAIN b.entries :
          /\ Size(b2, h) = Size(b, h)
          /\ IsImmutable(b2, h) = IsImmutable(b, h)
          /\ b2.entries[h].protected = b.entries[h].protected

LEMMA ReadOnlyKeptTransitive ==
    ASSUME NEW b, NEW b2, NEW b3, ReadOnlyKept(b, b2), ReadOnlyKept(b2, b3)
    PROVE  ReadOnlyKept(b, b3)
BY DEF ReadOnlyKept, Exists, IsImmutable

(* Records and node references are different values. *)
LEMMA RecordsAreNoNodes ==
    ASSUME NEW r \in ActivationRecord, NEW ref \in NodeRef
    PROVE  r # ref
<1>1. "procedure" \in DOMAIN r
  BY DEF ActivationRecord
<1>2. DOMAIN ref = {"id", "off"}
  BY DEF NodeRef
<1> QED
  BY <1>1, <1>2

(* The state cell of one activation is never the record of another. *)
LEMMA CellsAreNoStorages ==
    ASSUME NEW b, NEW f \in Seq(Frame), BankKept(b, f),
           NEW i \in 1..Len(f), NEW j \in 1..Len(f)
    PROVE  f[i].storage # f[j].record.cell
<1>1. f[i].record \in ActivationRecord
  <2>1. f[i] \in Frame
    OBVIOUS
  <2> QED
    BY <2>1 DEF Frame
<1>2. Val(b, f[i].storage) = f[i].record
  BY DEF BankKept, FrameKept
<1>3. Val(b, f[j].record.cell) \in NodeRef
  BY DEF BankKept, FrameKept, CellOK
<1> QED
  BY <1>1, <1>2, <1>3, RecordsAreNoNodes

LEMMA FrameTypes ==
    ASSUME NEW f \in Seq(Frame), NEW i \in 1..Len(f)
    PROVE  /\ f[i] \in Frame
           /\ f[i] = [record |-> f[i].record, storage |-> f[i].storage]
           /\ f[i].storage \in Id /\ f[i].record \in ActivationRecord
           /\ {f[i].record.procedure, f[i].record.cell, f[i].record.result} \subseteq Id
           /\ f[i].record.position \in Nat
           /\ f[i].record.previous \in Id \cup {Null}
           /\ f[i].record.localResolver \in NodeRef \cup {Null}
           /\ f[i].record.prefix \in Prefix
<1>1. f[i] \in Frame
  OBVIOUS
<1>2. f[i].storage \in Id /\ f[i].record \in ActivationRecord
      /\ f[i] = [record |-> f[i].record, storage |-> f[i].storage]
  BY <1>1 DEF Frame
<1> QED
  BY <1>1, <1>2 DEF ActivationRecord

-----------------------------------------------------------------------------
(* What the pieces of a step leave of a bank. *)

(* A write to a register changes its value and nothing else. *)
LEMMA SetValShape ==
    ASSUME NEW b, GoodBank(b), NEW h, Exists(b, h), NEW v \in Value
    PROVE  /\ SameShape(b, SetVal(b, h, v))
           /\ Val(SetVal(b, h, v), h) = v
           /\ \A k \in DOMAIN b.entries \ {h} :
                  SetVal(b, h, v).entries[k] = b.entries[k]
<1> DEFINE c == [size |-> Size(b, h), val |-> v]
           b2 == SetContents(b, h, c)
<1>1. c \in RegisterContents
  BY RegisterContentsOf DEF GoodBank, RegisterContents, Value
<1>2. /\ b2.next = b.next
      /\ DOMAIN b2.entries = DOMAIN b.entries
      /\ b2.entries[h] = [b.entries[h] EXCEPT !.contents = c]
      /\ \A k \in DOMAIN b.entries \ {h} : b2.entries[k] = b.entries[k]
  <2> HIDE DEF c
  <2>1. IsBank(b, RegisterContents)
    BY DEF GoodBank
  <2> QED
    BY <1>1, <2>1, SetContentsBank
<1>3. SetVal(b, h, v) = b2
  BY DEF SetVal
<1> HIDE DEF b2
<1>4. b.entries[h] \in EntryOf(RegisterContents)
  BY RegisterContentsOf DEF GoodBank
<1>5. /\ b2.entries[h].contents = c
      /\ b2.entries[h].immutable = b.entries[h].immutable
      /\ b2.entries[h].protected = b.entries[h].protected
  BY <1>2, <1>4 DEF EntryOf
<1>6. Size(b2, h) = Size(b, h) /\ Val(b2, h) = v
  BY <1>5 DEF Size, Val, Contents
<1>7. \A k \in DOMAIN b.entries \ {h} : Size(b2, k) = Size(b, k)
  BY <1>2 DEF Size, Contents
<1> HIDE DEF c
<1> QED
  BY <1>2, <1>3, <1>5, <1>6, <1>7 DEF SameShape, IsImmutable

(* create adds a register and changes none. *)
LEMMA CreateKeeps ==
    ASSUME NEW b, GoodBank(b), CanCreate(b),
           NEW c \in RegisterContents, NEW immutable \in BOOLEAN
    PROVE  /\ b.next \in Id /\ b.next \notin DOMAIN b.entries
           /\ DOMAIN Create(b, c, immutable).entries = DOMAIN b.entries \cup {b.next}
           /\ Create(b, c, immutable).entries[b.next] =
                  [contents |-> c, immutable |-> immutable, protected |-> FALSE]
           /\ \A k \in DOMAIN b.entries :
                  Create(b, c, immutable).entries[k] = b.entries[k]
BY CreateBank DEF GoodBank, CanCreate, Exists

LEMMA SameShapeUses ==
    ASSUME NEW b, NEW b2, SameShape(b, b2), NEW h
    PROVE  /\ Exists(b, h) => Exists(b2, h) /\ Size(b2, h) = Size(b, h)
           /\ Exists(b, h) /\ IsImmutable(b, h) => IsImmutable(b2, h)
           /\ CanChange(b, h) => CanChange(b2, h)
           /\ \A off, n : Fits(b, h, off, n) => Fits(b2, h, off, n)
BY DEF SameShape, Exists, IsImmutable, CanChange, Locked, Fits

LEMMA SameShapeNodes ==
    ASSUME NEW b, NEW b2, SameShape(b, b2), NEW f, NEW ref
    PROVE  Safe(b, f, ref) => Safe(b2, f, ref)
BY SameShapeUses DEF Safe, NodeOK

(* Registers that are added, or that no activation uses and are taken      *)
(* away, keep the activations.                                             *)
LEMMA OthersKeepBank ==
    ASSUME NEW b, NEW f \in Seq(Frame), BankKept(b, f), NEW b2,
           \A h \in DOMAIN b.entries :
               /\ (\E i \in 1..Len(f) : Uses(b, f[i], h)) => Exists(b2, h)
               /\ Exists(b2, h) => b2.entries[h] = b.entries[h]
    PROVE  BankKept(b2, f)
<1> SUFFICES ASSUME NEW i \in 1..Len(f)
             PROVE  /\ FrameKept(b2, f[i])
                    /\ Safe(b2, f, NodeOf(b2, f[i].record))
                    /\ f[i].record.localResolver # Null =>
                           Safe(b2, f, f[i].record.localResolver)
  BY DEF BankKept
<1> DEFINE record == f[i].record
<1>1. /\ FrameKept(b, f[i])
      /\ Safe(b, f, NodeOf(b, record))
      /\ record.localResolver # Null => Safe(b, f, record.localResolver)
  BY DEF BankKept
<1>2. \A h \in DOMAIN b.entries :
          Uses(b, f[i], h) => Exists(b2, h) /\ b2.entries[h] = b.entries[h]
  OBVIOUS
<1>3. \A h \in {f[i].storage, record.procedure, record.result, record.cell} :
          Exists(b2, h) /\ b2.entries[h] = b.entries[h]
  <2>1. {f[i].storage, record.procedure, record.result, record.cell} \subseteq DOMAIN b.entries
    BY <1>1 DEF FrameKept, CanChange, Exists, CellWritable
  <2> QED
    BY <1>2, <2>1 DEF Uses
<1>4. FrameKept(b2, f[i]) /\ NodeOf(b2, record) = NodeOf(b, record)
  BY <1>1, <1>3 DEF FrameKept, CanChange, Locked, Exists, Size, Val, Contents, CellOK,
                    CellWritable, Fits, IsImmutable, NodeOf
<1>5. ASSUME NEW ref, Safe(b, f, ref),
             ref = NodeOf(b, record) \/ (ref # Null /\ ref = record.localResolver)
      PROVE  Safe(b2, f, ref)
  <2>1. CASE ref.id \in Results(f)
    BY <2>1 DEF Safe
  <2>2. CASE NodeOK(b, ref)
    <3>1. ref.id \in DOMAIN b.entries /\ Uses(b, f[i], ref.id)
      BY <1>5, <2>2 DEF NodeOK, Fits, Exists, Uses
    <3>2. Exists(b2, ref.id) /\ b2.entries[ref.id] = b.entries[ref.id]
      BY <1>2, <3>1
    <3>3. NodeOK(b2, ref)
      BY <2>2, <3>2 DEF NodeOK, Fits, Exists, Size, Contents
    <3> QED
      BY <3>3 DEF Safe
  <2> QED
    BY <1>5, <2>1, <2>2 DEF Safe
<1> QED
  BY <1>1, <1>4, <1>5

-----------------------------------------------------------------------------
(* The same calls. *)

\* The frames g are those of f, but for positions and prefixes.
SameCalls(f, g) ==
    /\ g \in Seq(Frame) /\ Len(g) = Len(f)
    /\ \A i \in 1..Len(f) :
          /\ g[i].storage = f[i].storage
          /\ g[i].record.procedure = f[i].record.procedure
          /\ g[i].record.cell = f[i].record.cell
          /\ g[i].record.localResolver = f[i].record.localResolver
          /\ g[i].record.previous = f[i].record.previous
          /\ g[i].record.result = f[i].record.result

LEMMA SameResults ==
    ASSUME NEW f, NEW g, SameCalls(f, g)
    PROVE  Results(g) = Results(f)
<1>1. /\ Len(g) = Len(f)
      /\ \A i \in 1..Len(f) : g[i].record.result = f[i].record.result
  BY DEF SameCalls
<1>2. Results(g) = {g[i].record.result : i \in 1..Len(f)}
  BY <1>1 DEF Results
<1>3. Results(f) = {f[i].record.result : i \in 1..Len(f)}
  BY DEF Results
<1> QED
  BY <1>1, <1>2, <1>3

(* The links between the records stay. *)
LEMMA SameCallsLinked ==
    ASSUME NEW f \in Seq(Frame), NEW c, Linked(f, c), NEW g, SameCalls(f, g)
    PROVE  Linked(g, c)
<1>1. /\ Len(f) \in Nat /\ Len(g) = Len(f) /\ g \in Seq(Frame)
      /\ f = <<>> <=> g = <<>>
  BY DEF SameCalls
<1>2. c = IF g = <<>> THEN Null ELSE g[Len(g)].storage
  <2>1. f # <<>> => Len(f) \in 1..Len(f)
    BY <1>1
  <2> QED
    BY <1>1, <2>1 DEF Linked, SameCalls
<1>3. ASSUME NEW i \in 1..Len(g)
      PROVE  g[i].record.previous = IF i = 1 THEN Null ELSE g[i - 1].storage
  <2>1. i \in 1..Len(f) /\ (i # 1 => i - 1 \in 1..Len(f))
    BY <1>1
  <2> QED
    BY <2>1 DEF Linked, SameCalls
<1>4. \A i, j \in 1..Len(g) : g[i].storage = g[j].storage => i = j
  BY <1>1 DEF Linked, SameCalls
<1> QED
  BY <1>2, <1>3, <1>4 DEF Linked

LEMMA SameCallsKept ==
    ASSUME NEW f, NEW c, NEW o, FramesKept(f, c, o), NEW g, SameCalls(f, g), PrefixesOK(g)
    PROVE  FramesKept(g, c, o) /\ Results(g) = Results(f)
<1>1. /\ Len(f) \in Nat /\ Len(g) = Len(f) /\ g \in Seq(Frame)
      /\ f = <<>> <=> g = <<>>
  BY DEF SameCalls, FramesKept
<1>2. Linked(g, c)
  BY SameCallsLinked DEF FramesKept
<1>3. ResultsApart(g)
  BY <1>1 DEF FramesKept, ResultsApart, SameCalls
<1>4. OwnedOK(g, o)
  <2>1. OwnedOK(f, o)
    BY DEF FramesKept
  <2>2. ASSUME NEW i \in 1..Len(g)
        PROVE  LET record == g[i].record
                   own == o[g[i].storage]
               IN  /\ {g[i].storage, record.result} \subseteq own
                   /\ own \subseteq {g[i].storage, record.result, record.cell,
                                     record.procedure}
                   /\ \A j \in 1..Len(g) : i # j => own \cap o[g[j].storage] = {}
                   /\ i > Len(HostFrames) /\ record.cell \notin own =>
                          record.cell = g[i - 1].record.cell
    <3>1. i \in 1..Len(f)
      BY <1>1
    <3>2. /\ {f[i].storage, f[i].record.result} \subseteq o[f[i].storage]
          /\ o[f[i].storage] \subseteq {f[i].storage, f[i].record.result,
                                        f[i].record.cell, f[i].record.procedure}
          /\ \A j \in 1..Len(f) : i # j => o[f[i].storage] \cap o[f[j].storage] = {}
          /\ i > Len(HostFrames) /\ f[i].record.cell \notin o[f[i].storage] =>
                 f[i].record.cell = f[i - 1].record.cell
      BY <2>1, <3>1 DEF OwnedOK
    <3>3. i > Len(HostFrames) => i - 1 \in 1..Len(f)
      BY <1>1, HostTypes
    <3> QED
      BY <1>1, <3>1, <3>2, <3>3 DEF SameCalls
  <2>3. \A h \in Id : o[h] # {} => \E i \in 1..Len(g) : g[i].storage = h
    BY <1>1, <2>1 DEF OwnedOK, SameCalls
  <2> QED
    BY <2>2, <2>3 DEF OwnedOK
<1>5. Results(g) = Results(f)
  BY SameResults
<1> QED
  BY <1>1, <1>2, <1>3, <1>4, <1>5 DEF FramesKept

(* Records in their registers, with the same calls and positions in range, *)
(* are all that another bank must have for the frames g.                   *)
LEMMA SameCallsBank ==
    ASSUME NEW b, NEW f \in Seq(Frame), BankKept(b, f), NEW b2, SameShape(b, b2),
           NEW g, SameCalls(f, g),
           \A i \in 1..Len(f) :
               LET cell == f[i].record.cell
               IN  /\ Val(b2, f[i].storage) = g[i].record
                   /\ Val(b2, cell) \in NodeRef /\ Safe(b, f, Val(b2, cell))
                   /\ g[i].record.position <= Size(b, g[i].record.procedure)
    PROVE  BankKept(b2, g)
<1> SUFFICES ASSUME NEW i \in 1..Len(g)
             PROVE  /\ FrameKept(b2, g[i])
                    /\ Safe(b2, g, NodeOf(b2, g[i].record))
                    /\ g[i].record.localResolver # Null =>
                           Safe(b2, g, g[i].record.localResolver)
  BY DEF BankKept
<1>1. i \in 1..Len(f) /\ Len(g) = Len(f)
  BY DEF SameCalls
<1>2. /\ FrameKept(b, f[i])
      /\ f[i].record.localResolver # Null => Safe(b, f, f[i].record.localResolver)
  BY <1>1 DEF BankKept
<1>3. /\ g[i].storage = f[i].storage
      /\ g[i].record.procedure = f[i].record.procedure
      /\ g[i].record.cell = f[i].record.cell
      /\ g[i].record.localResolver = f[i].record.localResolver
      /\ g[i].record.result = f[i].record.result
  BY <1>1 DEF SameCalls
<1>4. \A ref : Safe(b, f, ref) => Safe(b2, g, ref)
  <2>1. Results(g) = Results(f)
    BY SameResults
  <2>2. \A ref : Safe(b, f, ref) => Safe(b2, f, ref)
    BY SameShapeNodes
  <2> QED
    BY <2>1, <2>2 DEF Safe
<1>5. FrameKept(b2, g[i])
  <2>1. CanChange(b2, f[i].storage) /\ ActSize <= Size(b2, f[i].storage)
    BY <1>2, SameShapeUses DEF FrameKept, CanChange
  <2>2. Val(b2, f[i].storage) = g[i].record
    BY <1>1
  <2>3. CanChange(b2, f[i].record.result)
    BY <1>2, SameShapeUses DEF FrameKept
  <2>4. CellOK(b2, g[i].record) /\ CellWritable(b2, g[i].record)
    BY <1>1, <1>2, <1>3, SameShapeUses DEF FrameKept, CellOK, CellWritable, CanChange
  <2>5. /\ Exists(b2, g[i].record.procedure) /\ IsImmutable(b2, g[i].record.procedure)
        /\ g[i].record.position <= Size(b2, g[i].record.procedure)
    BY <1>1, <1>2, <1>3, SameShapeUses DEF FrameKept
  <2> QED
    BY <1>3, <2>1, <2>2, <2>3, <2>4, <2>5 DEF FrameKept
<1> QED
  BY <1>1, <1>2, <1>3, <1>4, <1>5 DEF NodeOf

(* Writes keep the activations if they leave the records alone and move    *)
(* the state cells to nodes.                                               *)
LEMMA WritesKeepBank ==
    ASSUME NEW b, NEW f \in Seq(Frame), BankKept(b, f), NEW b2, SameShape(b, b2),
           \A i \in 1..Len(f) :
               LET cell == f[i].record.cell
               IN  /\ Val(b2, f[i].storage) = Val(b, f[i].storage)
                   /\ Val(b2, cell) \in NodeRef /\ Safe(b, f, Val(b2, cell))
    PROVE  BankKept(b2, f)
<1>1. SameCalls(f, f)
  BY DEF SameCalls
<1>2. \A i \in 1..Len(f) : /\ Val(b, f[i].storage) = f[i].record
                           /\ f[i].record.position <= Size(b, f[i].record.procedure)
  BY DEF BankKept, FrameKept
<1> QED
  BY <1>1, <1>2, SameCallsBank

-----------------------------------------------------------------------------
(* The end of a command. *)

(* persist_activation writes the touched records, and nothing else.        *)
LEMMA PersistedShape ==
    ASSUME NEW m, LocalsOK(m), NEW b, GoodBank(b),
           NEW frames \in Seq(Frame), Len(frames) = m.top,
           \A i, j \in 1..m.top : frames[i].storage = frames[j].storage => i = j
    PROVE  /\ SameShape(b, Persisted(m, b, frames))
           /\ \A i \in Touched(m) : Exists(b, frames[i].storage) =>
                  Val(Persisted(m, b, frames), frames[i].storage) = frames[i].record
           /\ \A h \in DOMAIN b.entries :
                  (\A i \in Touched(m) : frames[i].storage # h) =>
                      Persisted(m, b, frames).entries[h] = b.entries[h]
<1> DEFINE touched(h) == \E i \in Touched(m) : frames[i].storage = h
           by(h) == CHOOSE i \in Touched(m) : frames[i].storage = h
           entry(h) == IF touched(h)
                       THEN [b.entries[h] EXCEPT !.contents.val = frames[by(h)].record]
                       ELSE b.entries[h]
           f == [h \in DOMAIN b.entries |-> entry(h)]
           p == Persisted(m, b, frames)
<1>1. p.next = b.next /\ p.entries = f
  <2>1. b = [entries |-> b.entries, next |-> b.next]
    BY BankFields DEF GoodBank
  <2>2. p = [b EXCEPT !.entries = f]
    BY DEF Persisted
  <2> HIDE DEF f, p
  <2>3. p = [entries |-> f, next |-> b.next]
    BY <2>1, <2>2, TableReplaced
  <2> QED
    BY <2>3
<1> HIDE DEF p
<1>2. \A h \in DOMAIN b.entries : p.entries[h] = entry(h)
  BY <1>1
<1>3. DOMAIN p.entries = DOMAIN b.entries
  BY <1>1
<1> HIDE DEF f
<1>4. ASSUME NEW h \in DOMAIN b.entries, touched(h)
      PROVE  /\ by(h) \in Touched(m) /\ frames[by(h)].storage = h
             /\ p.entries[h] = [b.entries[h] EXCEPT !.contents.val = frames[by(h)].record]
  BY <1>2, <1>4
<1>5. \A h \in DOMAIN b.entries : ~touched(h) => p.entries[h] = b.entries[h]
  BY <1>2
<1> HIDE DEF by, entry
<1>6. ASSUME NEW h \in DOMAIN b.entries, touched(h)
      PROVE  /\ Size(p, h) = Size(b, h)
             /\ p.entries[h].immutable = b.entries[h].immutable
             /\ p.entries[h].protected = b.entries[h].protected
             /\ Val(p, h) = frames[by(h)].record
  <2>1. b.entries[h] \in EntryOf(RegisterContents)
    BY BankFields DEF GoodBank
  <2>2. p.entries[h] = [b.entries[h] EXCEPT !.contents.val = frames[by(h)].record]
    BY <1>4, <1>6
  <2> QED
    BY <2>1, <2>2 DEF EntryOf, RegisterContents, Size, Val, Contents
<1>7. SameShape(b, p)
  <2> HIDE DEF touched
  <2> QED
    BY <1>1, <1>3, <1>5, <1>6 DEF SameShape, Size, Contents, IsImmutable
<1>8. ASSUME NEW i \in Touched(m), Exists(b, frames[i].storage)
      PROVE  Val(p, frames[i].storage) = frames[i].record
  <2> DEFINE h == frames[i].storage
  <2>1. h \in DOMAIN b.entries /\ touched(h)
    BY <1>8 DEF Exists
  <2> HIDE DEF touched
  <2>2. by(h) \in Touched(m) /\ frames[by(h)].storage = h
    BY <1>4, <2>1
  <2>3. Touched(m) \subseteq 1..m.top
    BY DEF Touched, LocalsOK
  <2>4. by(h) = i
    BY <2>2, <2>3
  <2> QED
    BY <1>6, <2>1, <2>4
<1> QED
  BY <1>5, <1>7, <1>8 DEF p

\* A record, and a frame, with another position and another prefix.
MovedRecord(r, position, prefix) == [r EXCEPT !.position = position, !.prefix = prefix]
MovedFrame(frame, position, prefix) ==
    [frame EXCEPT !.record = MovedRecord(@, position, prefix)]

LEMMA MovedRecordParts ==
    ASSUME NEW r \in ActivationRecord, NEW position, NEW prefix
    PROVE  LET r2 == MovedRecord(r, position, prefix)
           IN  /\ r2.procedure = r.procedure /\ r2.cell = r.cell /\ r2.previous = r.previous
               /\ r2.localResolver = r.localResolver /\ r2.result = r.result
               /\ r2.position = position /\ r2.prefix = prefix
               /\ position = r.position /\ prefix = r.prefix => r2 = r
BY DEF ActivationRecord, MovedRecord

LEMMA MovedFrameParts ==
    ASSUME NEW frame \in Frame, NEW position, NEW prefix
    PROVE  /\ MovedFrame(frame, position, prefix).storage = frame.storage
           /\ MovedFrame(frame, position, prefix).record =
                  MovedRecord(frame.record, position, prefix)
           /\ position = frame.record.position /\ prefix = frame.record.prefix =>
                  MovedFrame(frame, position, prefix) = frame
<1> DEFINE g == MovedFrame(frame, position, prefix)
           r2 == MovedRecord(frame.record, position, prefix)
<1>1. frame = [record |-> frame.record, storage |-> frame.storage]
      /\ frame.record \in ActivationRecord
  BY DEF Frame
<1>2. g = [record |-> r2, storage |-> frame.storage]
  <2> HIDE DEF r2
  <2> QED
    BY <1>1 DEF MovedFrame, r2
<1>3. position = frame.record.position /\ prefix = frame.record.prefix => r2 = frame.record
  BY <1>1, MovedRecordParts
<1> HIDE DEF g, r2
<1>4. g.storage = frame.storage /\ g.record = r2
  BY <1>2
<1>5. r2 = frame.record => g = frame
  BY <1>1, <1>2
<1> QED
  BY <1>3, <1>4, <1>5 DEF g, r2

(* The records after a command: positions move in the touched activations, *)
(* the prefix of the running one is replaced, and all else stays.          *)
LEMMA AdvancedFrames ==
    ASSUME NEW m, LocalsOK(m), NEW explicit \in Nat \cup {Null}, NEW prefix \in Prefix
    PROVE  LET g == Advanced(m, explicit, prefix)
           IN  /\ SameCalls(m.frames, g)
               /\ \A i \in 1..m.top :
                      /\ g[i].record.position =
                            IF i = m.modify /\ explicit # NoPosition THEN explicit
                            ELSE IF i = (IF m.prefix.kind = "read" THEN m.read ELSE m.modify)
                                 THEN Decoded(m)
                            ELSE m.frames[i].record.position
                      /\ g[i].record.prefix =
                            IF i = m.top THEN prefix ELSE m.frames[i].record.prefix
                      /\ i \notin Touched(m) => g[i] = m.frames[i]
                      /\ g[i].record = MovedRecord(m.frames[i].record, g[i].record.position,
                                                  g[i].record.prefix)
<1> DEFINE g == Advanced(m, explicit, prefix)
           f == m.frames
           position(i) ==
               IF i = m.modify /\ explicit # NoPosition THEN explicit
               ELSE IF i = (IF m.prefix.kind = "read" THEN m.read ELSE m.modify)
                    THEN Decoded(m)
               ELSE m.frames[i].record.position
           pending(i) == IF i = m.top THEN prefix ELSE m.frames[i].record.prefix
<1>1. g \in Seq(Frame) /\ Len(g) = m.top /\ m.frames \in Seq(Frame) /\ Len(m.frames) = m.top
  BY AdvancedType DEF LocalsOK
<1>2. ASSUME NEW i \in 1..m.top
      PROVE  f[i] \in Frame /\ g[i] = MovedFrame(f[i], position(i), pending(i))
  <2>1. f[i] \in Frame
    BY <1>1
  <2>2. f[i] = [record |-> f[i].record, storage |-> f[i].storage]
    BY <2>1 DEF Frame
  <2>3. g[i] = [f[i] EXCEPT !.record.position = position(i), !.record.prefix = pending(i)]
    BY <2>2 DEF Advanced
  <2> HIDE DEF position, pending, f, g
  <2> QED
    BY <2>1, <2>2, <2>3 DEF MovedFrame, MovedRecord
<1>3. ASSUME NEW i \in 1..m.top, i \notin Touched(m)
      PROVE  position(i) = f[i].record.position /\ pending(i) = f[i].record.prefix
  BY <1>3 DEF Touched
<1>4. ASSUME NEW i \in 1..m.top
      PROVE  /\ g[i].storage = f[i].storage
             /\ g[i].record = MovedRecord(f[i].record, position(i), pending(i))
             /\ i \notin Touched(m) => g[i] = f[i]
             /\ f[i].record \in ActivationRecord
  <2>1. f[i].record \in ActivationRecord
    BY <1>2 DEF Frame
  <2> HIDE DEF g, f, position, pending
  <2> QED
    BY <1>2, <1>3, <2>1, MovedFrameParts
<1> HIDE DEF g, f, position, pending
<1>5. ASSUME NEW i \in 1..m.top
      PROVE  /\ g[i].record.procedure = f[i].record.procedure
             /\ g[i].record.cell = f[i].record.cell
             /\ g[i].record.localResolver = f[i].record.localResolver
             /\ g[i].record.previous = f[i].record.previous
             /\ g[i].record.result = f[i].record.result
             /\ g[i].record.position = position(i)
             /\ g[i].record.prefix = pending(i)
  BY <1>4, MovedRecordParts
<1>6. SameCalls(f, g)
  BY <1>1, <1>4, <1>5 DEF SameCalls, f
<1> QED
  BY <1>4, <1>5, <1>6 DEF g, f, position, pending

(* How the running activation and its prefix appear to a step. *)
LEMMA StepLocals ==
    ASSUME MachineOK, NEW m \in Loaded
    PROVE  /\ LocalsOK(m)
           /\ m.frames = activations /\ m.top = Len(activations)
           /\ current = activations[m.top].storage
           /\ m.prefix = activations[m.top].record.prefix
           /\ m.read = IF m.prefix.kind = "read" THEN m.top - m.prefix.depth ELSE m.top
           /\ m.modify = IF m.prefix.kind = "modify" THEN m.top - m.prefix.depth ELSE m.top
           /\ m.prefix.kind \in {"read", "modify"} => m.prefix.depth < m.top
<1>1. LocalsOK(m)
  BY LoadedType DEF MachineOK, Inv
<1>2. /\ activations \in Seq(Frame) /\ Linked(activations, current)
      /\ BankKept(bank, activations)
  BY DEF MachineOK, MachineKept, FramesKept
<1>3. RecordsStored(bank, activations)
  <2>1. \A i \in 1..Len(activations) : Size(bank, activations[i].storage) \in Nat
    BY <1>2, BankGood, RegisterContentsOf
       DEF MachineOK, GoodBank, BankKept, FrameKept, CanChange
  <2> QED
    BY <1>2, <2>1, VmAssumption DEF RecordsStored, BankKept, FrameKept, Fits, CanChange
<1>4. /\ m = Locals(activations) /\ activations # <<>>
      /\ m.prefix.kind \in {"read", "modify"} => m.prefix.depth < m.top
  BY <1>2, <1>3, LoadedFrames
<1>5. current = activations[Len(activations)].storage
  BY <1>2, <1>4 DEF Linked
<1> QED
  BY <1>1, <1>4, <1>5 DEF Locals

LEMMA SameShapeTransitive ==
    ASSUME NEW b, NEW b2, NEW b3, SameShape(b, b2), SameShape(b2, b3)
    PROVE  SameShape(b, b3)
BY DEF SameShape

(* The positions a command leaves: an instruction is read to an end inside *)
(* the reader's procedure, and a continuation is held against the          *)
(* procedure it is for.                                                    *)
LEMMA AdvancedPositions ==
    ASSUME MachineOK, NEW m \in Loaded, CanDecode(m),
           NEW explicit \in Nat \cup {Null}, NEW prefix \in Prefix, PositionOK(m, explicit),
           explicit # NoPosition => explicit <= Size(bank, Modified(m).procedure),
           NEW i \in 1..m.top
    PROVE  Advanced(m, explicit, prefix)[i].record.position
               <= Size(bank, activations[i].record.procedure)
<1> DEFINE position == Advanced(m, explicit, prefix)[i].record.position
<1>1. LocalsOK(m) /\ m.frames = activations /\ m.top = Len(activations)
  BY StepLocals
<1>2. position = IF i = m.modify /\ explicit # NoPosition THEN explicit
                 ELSE IF i = (IF m.prefix.kind = "read" THEN m.read ELSE m.modify)
                      THEN Decoded(m)
                 ELSE m.frames[i].record.position
  BY <1>1, AdvancedFrames
<1> SUFFICES position <= Size(bank, activations[i].record.procedure)
  OBVIOUS
<1> HIDE DEF position
<1>3. CASE i = m.modify /\ explicit # NoPosition
  BY <1>1, <1>2, <1>3 DEF Modified, Record
<1>4. CASE ~(i = m.modify /\ explicit # NoPosition) /\ m.prefix.kind = "read" /\ i = m.read
  BY <1>1, <1>2, <1>4 DEF CanDecode, Reader, Record
<1>5. CASE ~(i = m.modify /\ explicit # NoPosition) /\ m.prefix.kind # "read" /\ i = m.modify
  BY <1>1, <1>2, <1>5 DEF PositionOK, Modified, Record
<1>6. CASE /\ ~(i = m.modify /\ explicit # NoPosition)
           /\ i # (IF m.prefix.kind = "read" THEN m.read ELSE m.modify)
  BY <1>1, <1>2, <1>6 DEF MachineOK, MachineKept, BankKept, FrameKept
<1> QED
  BY <1>3, <1>4, <1>5, <1>6

(* A command whose effect keeps the activations keeps them to its end.     *)
LEMMA FinishedKept ==
    ASSUME MachineOK, NEW m \in Loaded, CanDecode(m), NEW b, GoodBank(b),
           BankKept(b, activations), ReadOnlyKept(bank, b),
           NEW next \in NodeRefs, Safe(b, activations, next),
           NEW explicit \in Nat \cup {Null}, NEW prefix \in Prefix, CanFinish(m, b, explicit),
           explicit # NoPosition => explicit <= Size(bank, Modified(m).procedure),
           prefix.kind \in {"read", "modify"} => prefix.depth < m.top
    PROVE  LET g == Advanced(m, explicit, prefix)
               b2 == Finished(m, b, next, g)
           IN  /\ GoodBank(b2) /\ MachineKept(b2, g, current, owned)
               /\ ReadOnlyKept(bank, b2) /\ SameShape(b, b2)
<1> DEFINE f == activations
           g == Advanced(m, explicit, prefix)
           cell == Modified(m).cell
           b1 == SetVal(b, cell, next)
           b2 == Finished(m, b, next, g)
<1>1. /\ LocalsOK(m) /\ m.frames = f /\ m.top = Len(f) /\ f \in Seq(Frame)
      /\ FramesKept(f, current, owned) /\ BankKept(bank, f) /\ BankKept(b, f)
  BY StepLocals DEF MachineOK, MachineKept, FramesKept
<1>2. /\ SameCalls(f, g)
      /\ \A i \in 1..m.top :
            /\ g[i].record.prefix = IF i = m.top THEN prefix ELSE f[i].record.prefix
            /\ i \notin Touched(m) => g[i] = f[i]
  BY <1>1, AdvancedFrames
<1>3. \A i \in 1..m.top : g[i].record.position <= Size(bank, f[i].record.procedure)
  BY AdvancedPositions DEF CanFinish
<1> HIDE DEF g
<1>4. /\ g \in Seq(Frame) /\ Len(g) = m.top
      /\ \A i \in 1..m.top : g[i].storage = f[i].storage
  BY <1>1, <1>2 DEF SameCalls
<1>5. /\ next \in NodeRef /\ next \in Value
      /\ CanChange(b, cell) /\ Exists(b, cell)
      /\ cell = f[m.modify].record.cell /\ m.modify \in 1..Len(f)
  BY <1>1, NextNode DEF CanFinish, CellWritable, CanChange, Value, Modified, Record, LocalsOK
<1>6. /\ GoodBank(b1) /\ SameShape(b, b1) /\ Val(b1, cell) = next
      /\ \A k \in DOMAIN b.entries \ {cell} : b1.entries[k] = b.entries[k]
  BY <1>5, GoodSetVal, SetValShape
<1> HIDE DEF cell, b1
<1>7. \A i, j \in 1..m.top : g[i].storage = g[j].storage => i = j
  BY <1>1, <1>4 DEF FramesKept, Linked
<1>8. /\ SameShape(b1, b2)
      /\ \A i \in Touched(m) : Exists(b1, g[i].storage) =>
             Val(b2, g[i].storage) = g[i].record
      /\ \A h \in DOMAIN b1.entries :
             (\A i \in Touched(m) : g[i].storage # h) => b2.entries[h] = b1.entries[h]
  BY <1>1, <1>4, <1>6, <1>7, PersistedShape DEF Finished, b1, cell
<1>9. GoodBank(b2)
  BY <1>1, <1>4, <1>5, GoodFinished DEF CanFinish
<1> HIDE DEF b2
<1>10. SameShape(b, b2)
  BY <1>6, <1>8, SameShapeTransitive
<1>11. DOMAIN b1.entries = DOMAIN b.entries /\ Touched(m) \subseteq 1..m.top
  BY <1>1, <1>6 DEF SameShape, Touched, LocalsOK
<1>12. ASSUME NEW i \in 1..Len(f)
       PROVE  /\ Val(b2, f[i].storage) = g[i].record
              /\ Val(b2, f[i].record.cell) \in NodeRef
              /\ Safe(b, f, Val(b2, f[i].record.cell))
              /\ g[i].record.position <= Size(b, g[i].record.procedure)
  <2>1. /\ FrameKept(b, f[i]) /\ FrameKept(bank, f[i])
        /\ Safe(b, f, NodeOf(b, f[i].record))
    BY <1>1 DEF BankKept
  <2>2. f[i].storage \in DOMAIN b.entries /\ f[i].record.cell \in DOMAIN b.entries
    BY <2>1 DEF FrameKept, CanChange, CellWritable, Exists
  <2>3. \A j \in 1..Len(f) : f[j].storage # f[i].record.cell /\ f[i].storage # f[j].record.cell
    BY <1>1, CellsAreNoStorages
  <2>4. Val(b2, f[i].storage) = g[i].record
    <3>1. CASE i \in Touched(m)
      BY <1>4, <1>8, <1>1, <1>11, <2>2, <3>1 DEF Exists
    <3>2. CASE i \notin Touched(m)
      <4>1. \A j \in Touched(m) : g[j].storage # f[i].storage
        BY <1>1, <1>4, <1>7, <1>11, <3>2
      <4>2. b2.entries[f[i].storage] = b1.entries[f[i].storage]
        BY <1>8, <1>11, <2>2, <4>1
      <4>3. b1.entries[f[i].storage] = b.entries[f[i].storage]
        BY <1>5, <1>6, <2>2, <2>3
      <4>4. Val(b, f[i].storage) = f[i].record /\ g[i] = f[i]
        BY <1>1, <1>2, <2>1, <3>2 DEF FrameKept
      <4> QED
        BY <4>2, <4>3, <4>4 DEF Val, Contents
    <3> QED
      BY <3>1, <3>2
  <2>5. /\ Val(b2, f[i].record.cell) \in NodeRef
        /\ Safe(b, f, Val(b2, f[i].record.cell))
    <3>1. \A j \in Touched(m) : g[j].storage # f[i].record.cell
      BY <1>1, <1>4, <1>11, <2>3
    <3>2. b2.entries[f[i].record.cell] = b1.entries[f[i].record.cell]
      BY <1>8, <1>11, <2>2, <3>1
    <3>3. Val(b2, f[i].record.cell) = Val(b1, f[i].record.cell)
      BY <3>2 DEF Val, Contents
    <3>4. CASE f[i].record.cell = cell
      BY <1>5, <1>6, <3>3, <3>4
    <3>5. CASE f[i].record.cell # cell
      <4>1. Val(b1, f[i].record.cell) = Val(b, f[i].record.cell)
        BY <1>6, <2>2, <3>5 DEF Val, Contents
      <4> QED
        BY <2>1, <3>3, <4>1 DEF FrameKept, CellOK, NodeOf
    <3> QED
      BY <3>4, <3>5
  <2>6. g[i].record.position <= Size(b, g[i].record.procedure)
    <3>1. Size(b, f[i].record.procedure) = Size(bank, f[i].record.procedure)
      BY <2>1 DEF FrameKept, ReadOnlyKept, Exists, Size, Contents
    <3>2. g[i].record.procedure = f[i].record.procedure
      BY <1>2 DEF SameCalls
    <3> QED
      BY <1>1, <1>3, <3>1, <3>2
  <2> QED
    BY <2>4, <2>5, <2>6
<1>13. BankKept(b2, g)
  BY <1>1, <1>2, <1>10, <1>12, SameCallsBank
<1>14. FramesKept(g, current, owned)
  <2>1. PrefixesOK(f)
    BY <1>1 DEF FramesKept
  <2>2. PrefixesOK(g)
    BY <1>1, <1>2, <1>4, <2>1 DEF PrefixesOK
  <2> QED
    BY <1>1, <1>2, <2>2, SameCallsKept
<1>15. ReadOnlyKept(b, b2)
  <2> SUFFICES ASSUME NEW h \in DOMAIN b.entries, IsImmutable(b, h)
               PROVE  Exists(b2, h) /\ b2.entries[h] = b.entries[h]
    BY DEF ReadOnlyKept
  <2>1. h # cell
    BY <1>5 DEF CanChange, Locked, IsImmutable
  <2>2. \A i \in Touched(m) : g[i].storage # h
    BY <1>1, <1>4, <1>11 DEF CanFinish, CanPersist, CanChange, Locked, IsImmutable
  <2> QED
    BY <1>6, <1>8, <1>10, <1>11, <2>1, <2>2 DEF SameShape, Exists
<1>16. ReadOnlyKept(bank, b2)
  BY <1>15, ReadOnlyKeptTransitive
<1> QED
  BY <1>9, <1>10, <1>13, <1>14, <1>16 DEF MachineKept, b2, g
-----------------------------------------------------------------------------
(* The three kinds of steps: a command that works, a call and a return.    *)

\* A command moves positions and replaces its own prefix.
Works ==
    /\ UNCHANGED <<current, owned>>
    /\ SameCalls(activations, activations')
    /\ ReadOnlyKept(bank, bank')

\* A call adds one activation, which owns registers that nobody had.
Enters ==
    /\ Len(activations') = Depth + 1
    /\ SameCalls(activations, SubSeq(activations', 1, Depth))
    /\ ReadOnlyKept(bank, bank')
    /\ LET storage == activations'[Depth + 1].storage
           made == owned'[storage]
       IN  /\ owned' = [owned EXCEPT ![storage] = made]
           /\ made # {} /\ made \cap DOMAIN bank.entries = {}
           /\ DOMAIN bank'.entries = DOMAIN bank.entries \cup made
           /\ \A i \in 1..Depth : activations[i].storage # storage

\* A return takes the last activation away, and what it owned.
Returns ==
    /\ Depth > 0 /\ current = activations[Depth].storage
    /\ activations' = SubSeq(activations, 1, Depth - 1)
    /\ bank' = Discarded(bank, owned[current])
    /\ owned' = [owned EXCEPT ![current] = {}]

\* The invariant is kept by a step that is of one of the three kinds.
StepKept ==
    /\ MachineOK'
    /\ Works \/ Enters \/ Returns
    /\ PrefixReach /\ PrefixSpent

(* What a builtin does to the records is within the reach of its prefix,   *)
(* and spends it.                                                          *)
LEMMA AdvancedReach ==
    ASSUME MachineOK, NEW m \in Loaded,
           NEW explicit \in Nat \cup {Null}, NEW prefix \in Prefix,
           \A i \in 1..m.top : activations'[i] = Advanced(m, explicit, prefix)[i],
           m.prefix.kind = "none" \/ prefix = NoPrefix
    PROVE  PrefixReach /\ PrefixSpent
<1> DEFINE f == activations
           a == Advanced(m, explicit, prefix)
<1>1. /\ LocalsOK(m) /\ m.frames = f /\ m.top = Len(f) /\ f \in Seq(Frame)
      /\ m.prefix = f[m.top].record.prefix
      /\ m.read = IF m.prefix.kind = "read" THEN m.top - m.prefix.depth ELSE m.top
      /\ m.modify = IF m.prefix.kind = "modify" THEN m.top - m.prefix.depth ELSE m.top
  BY StepLocals DEF MachineOK, MachineKept, FramesKept
<1>2. ASSUME NEW i \in 1..m.top
      PROVE  /\ a[i].storage = f[i].storage
             /\ a[i].record.prefix = IF i = m.top THEN prefix ELSE f[i].record.prefix
             /\ i \notin Touched(m) => a[i] = f[i]
             /\ a[i].record = MovedRecord(f[i].record, a[i].record.position,
                                         a[i].record.prefix)
  <2>1. /\ SameCalls(f, a)
        /\ \A k \in 1..m.top :
              /\ a[k].record.prefix = IF k = m.top THEN prefix ELSE f[k].record.prefix
              /\ k \notin Touched(m) => a[k] = f[k]
              /\ a[k].record = MovedRecord(f[k].record, a[k].record.position,
                                          a[k].record.prefix)
    BY <1>1, AdvancedFrames
  <2> HIDE DEF a
  <2>2. a[i].storage = f[i].storage
    BY <1>1, <2>1 DEF SameCalls
  <2> QED
    BY <2>1, <2>2
<1>3. \A i \in 1..m.top : activations'[i] = a[i]
  OBVIOUS
<1> HIDE DEF a
<1>4. m.top \in Nat \ {0} /\ m.top \in 1..m.top
  BY <1>1 DEF LocalsOK
<1>5. PrefixSpent
  BY <1>1, <1>2, <1>3, <1>4 DEF PrefixSpent, Depth, ActiveRecord
<1>6. ASSUME NEW i \in 1..Depth, activations'[i] # activations[i]
      PROVE  LET p == ActiveRecord(Depth).prefix
             IN  /\ i = Depth \/ (p.kind \in {"read", "modify"} /\ i = Depth - p.depth)
                 /\ activations'[i].storage = activations[i].storage
                 /\ activations'[i].record =
                        [ActiveRecord(i) EXCEPT
                            !.position = activations'[i].record.position,
                            !.prefix = IF i = Depth THEN activations'[i].record.prefix
                                       ELSE @]
  <2>1. i \in 1..m.top /\ i \in Touched(m)
    BY <1>1, <1>2, <1>3, <1>6 DEF Depth
  <2>2. i = m.top \/ (m.prefix.kind \in {"read", "modify"} /\ i = m.top - m.prefix.depth)
    BY <1>1, <2>1 DEF Touched
  <2>3. /\ activations'[i].storage = activations[i].storage
        /\ activations'[i].record = MovedRecord(ActiveRecord(i), activations'[i].record.position,
                                               activations'[i].record.prefix)
        /\ i # Depth => activations'[i].record.prefix = ActiveRecord(i).prefix
    BY <1>1, <1>2, <1>3, <2>1 DEF Depth, ActiveRecord
  <2>4. activations'[i].record =
            [ActiveRecord(i) EXCEPT
                !.position = activations'[i].record.position,
                !.prefix = IF i = Depth THEN activations'[i].record.prefix ELSE @]
    <3>1. ActiveRecord(i) \in ActivationRecord
      BY <1>1, <2>1, FrameTypes DEF ActiveRecord
    <3> QED
      BY <2>3, <3>1 DEF MovedRecord, ActivationRecord
  <2> QED
    BY <1>1, <2>2, <2>3, <2>4 DEF Depth, ActiveRecord
<1>7. PrefixReach
  BY <1>6 DEF PrefixReach
<1> QED
  BY <1>5, <1>7

LEMMA CompleteKept ==
    ASSUME MachineOK, NEW m \in Loaded, CanDecode(m), NEW b, GoodBank(b),
           BankKept(b, activations), ReadOnlyKept(bank, b),
           NEW next \in NodeRefs, Safe(b, activations, next),
           NEW explicit \in Nat \cup {Null}, NEW prefix \in Prefix,
           Complete(m, b, next, explicit, prefix),
           explicit # NoPosition => explicit <= Size(bank, Modified(m).procedure),
           prefix.kind \in {"read", "modify"} => prefix.depth < m.top,
           m.prefix.kind = "none" \/ prefix = NoPrefix
    PROVE  StepKept
<1> DEFINE g == Advanced(m, explicit, prefix)
<1>1. /\ CanFinish(m, b, explicit)
      /\ activations' = g /\ bank' = Finished(m, b, next, g)
      /\ current' = current /\ owned' = owned
  BY DEF Complete
<1>2. /\ GoodBank(bank') /\ MachineKept(bank', activations', current', owned')
      /\ ReadOnlyKept(bank, bank')
  BY <1>1, FinishedKept
<1>3. LocalsOK(m) /\ m.frames = activations /\ m.top = Len(activations)
  BY StepLocals
<1>4. SameCalls(activations, g) /\ g \in Seq(Frame) /\ Len(g) = m.top
  BY <1>3, AdvancedFrames, AdvancedType
<1> HIDE DEF g
<1>5. Works
  BY <1>1, <1>2, <1>4 DEF Works
<1>6. Inv'
  BY CompleteType DEF MachineOK
<1>7. PrefixReach /\ PrefixSpent
  BY <1>1, AdvancedReach DEF g
<1> QED
  BY <1>2, <1>5, <1>6, <1>7 DEF StepKept, MachineOK

-----------------------------------------------------------------------------
(* The calls. *)

\* What enter_call leaves, without the banks it goes through.
Entered(b, f, procedure, entry, ownsProcedure) ==
    LET caller == f[Len(f)].record
            frame == activations'[Len(f) + 1]
            record == frame.record
            newCell == entry # NoEntry
            made == {frame.storage, record.result}
                        \cup (IF newCell THEN {record.cell} ELSE {})
        IN  /\ activations' = Append(f, frame)
            /\ frame \in Frame /\ current' = frame.storage
            /\ record.procedure = procedure /\ record.position = 0
            /\ record.prefix = NoPrefix /\ record.previous = f[Len(f)].storage
            /\ record.localResolver = caller.localResolver
            /\ ~newCell => record.cell = caller.cell
            /\ frame.storage # record.result
            /\ newCell => record.cell \notin {frame.storage, record.result}
            /\ made \cap DOMAIN b.entries = {}
            /\ DOMAIN bank'.entries = DOMAIN b.entries \cup made
            /\ \A h \in DOMAIN b.entries : bank'.entries[h] = b.entries[h]
            /\ bank'.entries[frame.storage] =
                   [contents |-> Stored(record), immutable |-> FALSE, protected |-> FALSE]
            /\ bank'.entries[record.result] =
                   [contents |-> Empty, immutable |-> FALSE, protected |-> FALSE]
            /\ newCell => bank'.entries[record.cell] =
                   [contents |-> Cell(entry), immutable |-> FALSE, protected |-> FALSE]
            /\ owned' = [owned EXCEPT ![frame.storage] =
                             Owned(frame.storage, record, newCell, ownsProcedure)]
            /\ Callable(b, procedure) /\ (newCell => NodeOK(b, entry))

LEMMA EnterCallParts ==
    ASSUME NEW b, GoodBank(b), NEW f \in Seq(Frame), f # <<>>,
           NEW procedure \in Id, NEW entry \in NodeRef \cup {Null},
           NEW ownsProcedure \in BOOLEAN,
           EnterCall(b, f, procedure, entry, ownsProcedure)
    PROVE  Entered(b, f, procedure, entry, ownsProcedure)
<1> DEFINE caller == f[Len(f)].record
           newCell == entry # NoEntry
           b1 == IF newCell THEN Create(b, Cell(entry), FALSE) ELSE b
           b2 == Create(b1, Empty, FALSE)
           cell == IF newCell THEN b.next ELSE caller.cell
           record == [procedure |-> procedure, position |-> 0, cell |-> cell,
                      localResolver |-> caller.localResolver,
                      previous |-> f[Len(f)].storage, result |-> b1.next,
                      prefix |-> NoPrefix]
           frame == [record |-> record, storage |-> b2.next]
           b3 == Create(b2, Stored(record), FALSE)
<1>1. /\ newCell => NodeOK(b, entry) /\ CanCreate(b)
      /\ CanCreate(b1) /\ CanCreate(b2) /\ Callable(b, procedure)
      /\ bank' = b3 /\ current' = b2.next
      /\ activations' = Append(f, frame)
      /\ owned' = [owned EXCEPT ![b2.next] =
                       Owned(b2.next, record, newCell, ownsProcedure)]
  BY DEF EnterCall
<1>2. caller \in ActivationRecord /\ f[Len(f)].storage \in Id /\ FALSE \in BOOLEAN
  <2>1. Len(f) \in 1..Len(f)
    OBVIOUS
  <2> QED
    BY <2>1, FrameTypes
<1>3. /\ GoodBank(b1) /\ cell \in Id
      /\ DOMAIN b1.entries = DOMAIN b.entries \cup (IF newCell THEN {cell} ELSE {})
      /\ \A h \in DOMAIN b.entries : b1.entries[h] = b.entries[h]
      /\ newCell => /\ cell \notin DOMAIN b.entries
                    /\ b1.entries[cell] = [contents |-> Cell(entry), immutable |-> FALSE,
                                           protected |-> FALSE]
  <2>1. CASE newCell
    <3>1. Cell(entry) \in RegisterContents
      BY <2>1, MadeContents DEF NoEntry
    <3> DEFINE c == Cell(entry)
    <3> HIDE DEF c
    <3>2. /\ GoodBank(Create(b, c, FALSE))
          /\ b.next \in Id /\ b.next \notin DOMAIN b.entries
          /\ DOMAIN Create(b, c, FALSE).entries = DOMAIN b.entries \cup {b.next}
          /\ Create(b, c, FALSE).entries[b.next] =
                 [contents |-> c, immutable |-> FALSE, protected |-> FALSE]
          /\ \A k \in DOMAIN b.entries : Create(b, c, FALSE).entries[k] = b.entries[k]
      BY <1>1, <1>2, <2>1, <3>1, CreateKeeps, GoodCreate DEF c
    <3> QED
      BY <2>1, <3>2 DEF c
  <2>2. CASE ~newCell
    BY <1>2, <2>2 DEF ActivationRecord
  <2> QED
    BY <2>1, <2>2
<1> HIDE DEF b1, cell
<1>4. /\ GoodBank(b2) /\ b1.next \in Id /\ b1.next \notin DOMAIN b1.entries
      /\ DOMAIN b2.entries = DOMAIN b1.entries \cup {b1.next}
      /\ b2.entries[b1.next] = [contents |-> Empty, immutable |-> FALSE, protected |-> FALSE]
      /\ \A h \in DOMAIN b1.entries : b2.entries[h] = b1.entries[h]
  BY <1>1, <1>2, <1>3, MadeContents, CreateKeeps, GoodCreate
<1> HIDE DEF b2
<1>5. record \in ActivationRecord
  BY <1>2, <1>3, <1>4, NoPrefixType DEF ActivationRecord
<1>6. /\ record.procedure = procedure /\ record.position = 0 /\ record.cell = cell
      /\ record.prefix = NoPrefix /\ record.previous = f[Len(f)].storage
      /\ record.localResolver = caller.localResolver /\ record.result = b1.next
  OBVIOUS
<1> HIDE DEF record, caller
<1>7. /\ b2.next \in Id /\ b2.next \notin DOMAIN b2.entries
      /\ DOMAIN b3.entries = DOMAIN b2.entries \cup {b2.next}
      /\ b3.entries[b2.next] =
             [contents |-> Stored(record), immutable |-> FALSE, protected |-> FALSE]
      /\ \A h \in DOMAIN b2.entries : b3.entries[h] = b2.entries[h]
  <2>1. Stored(record) \in RegisterContents
    BY <1>5, MadeContents
  <2> DEFINE c == Stored(record)
  <2> HIDE DEF c
  <2>2. /\ b2.next \in Id /\ b2.next \notin DOMAIN b2.entries
        /\ DOMAIN Create(b2, c, FALSE).entries = DOMAIN b2.entries \cup {b2.next}
        /\ Create(b2, c, FALSE).entries[b2.next] =
               [contents |-> c, immutable |-> FALSE, protected |-> FALSE]
        /\ \A h \in DOMAIN b2.entries : Create(b2, c, FALSE).entries[h] = b2.entries[h]
    BY <1>1, <1>2, <1>4, <2>1, CreateKeeps DEF c
  <2> QED
    BY <2>2 DEF c
<1> HIDE DEF b3
<1>8. frame \in Frame /\ frame.record = record /\ frame.storage = b2.next
  BY <1>5, <1>7 DEF Frame
<1> HIDE DEF frame
<1>9. activations'[Len(f) + 1] = frame
  BY <1>1, <1>8
<1> DEFINE made == {b2.next, b1.next} \cup (IF newCell THEN {cell} ELSE {})
<1>10. /\ made \cap DOMAIN b.entries = {}
       /\ DOMAIN b3.entries = DOMAIN b.entries \cup made
       /\ b2.next # b1.next /\ (newCell => cell \notin {b2.next, b1.next})
  BY <1>3, <1>4, <1>7
<1>11. /\ \A h \in DOMAIN b.entries : b3.entries[h] = b.entries[h]
       /\ b3.entries[b1.next] =
              [contents |-> Empty, immutable |-> FALSE, protected |-> FALSE]
       /\ newCell => b3.entries[cell] =
              [contents |-> Cell(entry), immutable |-> FALSE, protected |-> FALSE]
  BY <1>3, <1>4, <1>7
<1>12. ~newCell => cell = caller.cell
  BY DEF cell, caller
<1> HIDE DEF newCell
<1> QED
  BY <1>1, <1>6, <1>7, <1>8, <1>9, <1>10, <1>11, <1>12, ZenonT(60)
     DEF Entered, newCell, caller

(* A call keeps the invariant of the banks and the frames its caller left. *)
LEMMA EnterKept ==
    ASSUME NEW b, GoodBank(b), NEW f, f # <<>>, NEW c, MachineKept(b, f, c, owned),
           owned \in [Id -> SUBSET Id],
           NEW procedure \in Id, NEW entry \in NodeRef \cup {Null},
           NEW ownsProcedure \in BOOLEAN,
           EnterCall(b, f, procedure, entry, ownsProcedure),
           ownsProcedure => \A i \in 1..Len(f) : procedure \notin owned[f[i].storage]
    PROVE  MachineKept(bank', activations', current', owned')
<1> DEFINE n == Len(f)
           caller == f[n].record
           g == activations'
           frame == g[n + 1]
           record == frame.record
           newCell == entry # NoEntry
           made == {frame.storage, record.result}
                       \cup (IF newCell THEN {record.cell} ELSE {})
           own == Owned(frame.storage, record, newCell, ownsProcedure)
<1>1. /\ f \in Seq(Frame) /\ n \in Nat \ {0} /\ n \in 1..n
      /\ Linked(f, c) /\ ResultsApart(f) /\ PrefixesOK(f) /\ OwnedOK(f, owned)
      /\ BankKept(b, f)
  BY DEF MachineKept, FramesKept
<1>2. /\ g = Append(f, frame)
      /\ frame \in Frame /\ current' = frame.storage
      /\ record.procedure = procedure /\ record.position = 0
      /\ record.prefix = NoPrefix /\ record.previous = f[n].storage
      /\ record.localResolver = caller.localResolver
      /\ ~newCell => record.cell = caller.cell
      /\ frame.storage # record.result
      /\ newCell => record.cell \notin {frame.storage, record.result}
      /\ made \cap DOMAIN b.entries = {}
      /\ DOMAIN bank'.entries = DOMAIN b.entries \cup made
      /\ \A h \in DOMAIN b.entries : bank'.entries[h] = b.entries[h]
      /\ bank'.entries[frame.storage] =
             [contents |-> Stored(record), immutable |-> FALSE, protected |-> FALSE]
      /\ bank'.entries[record.result] =
             [contents |-> Empty, immutable |-> FALSE, protected |-> FALSE]
      /\ newCell => bank'.entries[record.cell] =
             [contents |-> Cell(entry), immutable |-> FALSE, protected |-> FALSE]
      /\ owned' = [owned EXCEPT ![frame.storage] = own]
      /\ Callable(b, procedure) /\ (newCell => NodeOK(b, entry))
  <2>1. f \in Seq(Frame)
    BY <1>1
  <2>2. Entered(b, f, procedure, entry, ownsProcedure)
    BY <2>1, EnterCallParts
  <2> QED
    BY <2>2 DEF Entered
<1>3. /\ g \in Seq(Frame) /\ Len(g) = n + 1
      /\ \A i \in 1..n : g[i] = f[i]
  <2> HIDE DEF frame, g
  <2> QED
    BY <1>1, <1>2
<1> HIDE DEF g, frame, record, newCell
<1>4. ASSUME NEW i \in 1..n
      PROVE  /\ {f[i].storage, f[i].record.result, f[i].record.cell,
                 f[i].record.procedure} \subseteq DOMAIN b.entries
             /\ f[i].record.result # caller.cell
             /\ caller.cell # f[i].storage /\ f[i].record.result \notin made
             /\ caller.cell \notin made
             /\ f[i].storage \notin made /\ f[i].record.cell \notin made
             /\ f[i].record.procedure \notin made
  <2>1. \A j \in 1..n : FrameKept(b, f[j])
    BY <1>1 DEF BankKept
  <2>2. \A j \in 1..n : {f[j].storage, f[j].record.result, f[j].record.cell,
                         f[j].record.procedure} \subseteq DOMAIN b.entries
    BY <2>1 DEF FrameKept, CanChange, CellWritable, Exists
  <2>3. f[i].record.result # caller.cell
    BY <1>1 DEF ResultsApart
  <2>4. caller.cell # f[i].storage
    BY <1>1, CellsAreNoStorages
  <2> QED
    BY <1>1, <1>2, <2>2, <2>3, <2>4
<1>5. \A i \in 1..n : owned[f[i].storage] \subseteq DOMAIN b.entries
  <2> TAKE i \in 1..n
  <2>1. owned[f[i].storage] \subseteq {f[i].storage, f[i].record.result,
                                      f[i].record.cell, f[i].record.procedure}
    BY <1>1 DEF OwnedOK
  <2> QED
    BY <1>4, <2>1
<1>6. BankKept(bank', f)
  <2>1. \A h \in DOMAIN b.entries : Exists(bank', h) /\ bank'.entries[h] = b.entries[h]
    BY <1>2 DEF Exists
  <2> QED
    BY <1>1, <2>1, OthersKeepBank
<1>7. \A ref : Safe(bank', f, ref) => Safe(bank', g, ref)
  <2>1. Results(f) \subseteq Results(g)
    BY <1>1, <1>3 DEF Results
  <2> QED
    BY <2>1 DEF Safe
<1>8. FrameKept(bank', f[n]) /\ Safe(bank', f, NodeOf(bank', caller))
      /\ (caller.localResolver # Null => Safe(bank', f, caller.localResolver))
  BY <1>1, <1>6 DEF BankKept
<1>9. FrameKept(bank', frame)
  <2>1. CanChange(bank', frame.storage) /\ ActSize <= Size(bank', frame.storage)
    BY <1>2, VmAssumption DEF CanChange, Exists, Locked, Size, Contents, Stored
  <2>2. Val(bank', frame.storage) = frame.record
    BY <1>2 DEF Val, Contents, Stored, record
  <2>3. CanChange(bank', record.result)
    BY <1>2 DEF CanChange, Exists, Locked
  <2>4. CellOK(bank', record) /\ CellWritable(bank', record)
    <3>1. CASE newCell
      <4>1. entry \in NodeRef
        BY <3>1 DEF newCell, NoEntry
      <4>2. Exists(bank', record.cell) /\ bank'.entries[record.cell] =
                [contents |-> Cell(entry), immutable |-> FALSE, protected |-> FALSE]
        BY <1>2, <3>1 DEF Exists
      <4> QED
        BY <4>1, <4>2, VmAssumption
           DEF CellOK, CellWritable, CanChange, Fits, Exists, Locked, Size, Val, Contents, Cell
    <3>2. CASE ~newCell
      BY <1>2, <1>8, <3>2 DEF FrameKept, CellOK, CellWritable
    <3> QED
      BY <3>1, <3>2
  <2>5. /\ Exists(bank', procedure) /\ IsImmutable(bank', procedure)
        /\ 0 <= Size(bank', procedure)
    <3>1. Exists(b, procedure) /\ IsImmutable(b, procedure)
      BY <1>2 DEF Callable
    <3>2. Size(b, procedure) \in Nat
      BY <3>1, RegisterContentsOf DEF GoodBank
    <3> QED
      BY <1>2, <3>1, <3>2 DEF Exists, IsImmutable, Size, Contents
  <2> QED
    BY <1>2, <2>1, <2>2, <2>3, <2>4, <2>5 DEF FrameKept, record
<1>10. Safe(bank', g, NodeOf(bank', record))
  <2>1. CASE newCell
    <3>1. NodeOf(bank', record) = entry
      BY <1>2, <2>1 DEF NodeOf, Val, Contents, Cell
    <3>2. NodeOK(bank', entry)
      BY <1>2, <2>1 DEF NodeOK, Fits, Exists, Size, Contents
    <3> QED
      BY <3>1, <3>2 DEF Safe
  <2>2. CASE ~newCell
    BY <1>2, <1>7, <1>8, <2>2 DEF NodeOf
  <2> QED
    BY <2>1, <2>2
<1>11. BankKept(bank', g)
  <2> SUFFICES ASSUME NEW i \in 1..Len(g)
               PROVE  /\ FrameKept(bank', g[i])
                      /\ Safe(bank', g, NodeOf(bank', g[i].record))
                      /\ g[i].record.localResolver # Null =>
                             Safe(bank', g, g[i].record.localResolver)
    BY DEF BankKept
  <2>1. CASE i \in 1..n
    BY <1>3, <1>6, <1>7, <2>1 DEF BankKept
  <2>2. CASE i = n + 1
    <3>1. record.localResolver # Null => Safe(bank', g, record.localResolver)
      BY <1>2, <1>7, <1>8
    <3> QED
      BY <1>9, <1>10, <2>2, <3>1 DEF frame, record
  <2> QED
    BY <1>1, <1>3, <2>1, <2>2
<1>12. frame = g[n + 1] /\ record = g[n + 1].record
  BY DEF frame, record
<1>13. \A i \in 1..Len(g) : i \in 1..n \/ i = n + 1
  BY <1>1, <1>3
<1>14. Linked(g, current')
  <2>1. g # <<>>
    BY <1>1, <1>3
  <2>2. ASSUME NEW i \in 1..Len(g)
        PROVE  g[i].record.previous = IF i = 1 THEN Null ELSE g[i - 1].storage
    <3>1. CASE i \in 1..n
      <4>1. i # 1 => i - 1 \in 1..n
        BY <1>1, <3>1
      <4> QED
        BY <1>1, <1>3, <3>1, <4>1 DEF Linked
    <3>2. CASE i = n + 1
      <4>1. i # 1 /\ i - 1 = n
        BY <1>1, <3>2
      <4> QED
        BY <1>1, <1>2, <1>3, <1>12, <3>2, <4>1
    <3> QED
      BY <1>13, <3>1, <3>2
  <2>3. \A i, j \in 1..Len(g) : g[i].storage = g[j].storage => i = j
    <3>1. \A i, j \in 1..n : f[i].storage = f[j].storage => i = j
      BY <1>1 DEF Linked
    <3>2. \A i \in 1..n : f[i].storage # frame.storage
      BY <1>4
    <3> QED
      BY <1>3, <1>12, <1>13, <3>1, <3>2
  <2>4. current' = g[Len(g)].storage
    BY <1>2, <1>3, <1>12
  <2> QED
    BY <2>1, <2>2, <2>3, <2>4 DEF Linked
<1>15. ResultsApart(g)
  <2>1. ASSUME NEW i \in 1..Len(g), NEW j \in 1..Len(g)
        PROVE  g[i].record.result \notin {g[j].storage, g[j].record.cell}
    <3>1. CASE i \in 1..n /\ j \in 1..n
      BY <1>1, <1>3, <3>1 DEF ResultsApart
    <3>2. CASE i \in 1..n /\ j = n + 1
      <4>1. f[i].record.result # record.cell
        BY <1>2, <1>4, <3>2
      <4> QED
        BY <1>3, <1>4, <1>12, <3>2, <4>1
    <3>3. CASE i = n + 1 /\ j \in 1..n
      BY <1>3, <1>4, <1>12, <3>3
    <3>4. CASE i = n + 1 /\ j = n + 1
      <4>1. record.result # record.cell
        BY <1>1, <1>2, <1>4
      <4> QED
        BY <1>2, <1>12, <3>4, <4>1
    <3> QED
      BY <1>13, <3>1, <3>2, <3>3, <3>4
  <2> QED
    BY <2>1 DEF ResultsApart
<1>16. PrefixesOK(g)
  <2>1. ASSUME NEW i \in 1..n, g[i].record.prefix.kind \in {"read", "modify"}
        PROVE  g[i].record.prefix.depth < i
    <3>1. i \in 1..Len(f) /\ g[i] = f[i] /\ PrefixesOK(f)
      BY <1>1, <1>3
    <3> QED
      BY <2>1, <3>1 DEF PrefixesOK
  <2>2. g[n + 1].record.prefix.kind \notin {"read", "modify"}
    BY <1>2, <1>12 DEF NoPrefix
  <2> QED
    BY <1>13, <2>1, <2>2 DEF PrefixesOK
<1>17. /\ own \subseteq made \cup {procedure}
       /\ {frame.storage, record.result} \subseteq own
       /\ own \subseteq {frame.storage, record.result, record.cell, record.procedure}
       /\ newCell => record.cell \in own
       /\ procedure \in own \ made => ownsProcedure
  BY <1>2 DEF Owned
<1> HIDE DEF own, made
<1>18. /\ owned'[frame.storage] = own
       /\ \A h \in Id : h # frame.storage => owned'[h] = owned[h]
  BY <1>2 DEF Frame
<1>19. \A i \in 1..n : /\ owned'[f[i].storage] = owned[f[i].storage]
                       /\ owned[f[i].storage] \cap own = {}
  <2> TAKE i \in 1..n
  <2>1. f[i].storage \in Id /\ f[i].storage # frame.storage
    BY <1>1, <1>4, FrameTypes DEF made
  <2>2. procedure \in own \ made => procedure \notin owned[f[i].storage]
    BY <1>17
  <2> QED
    BY <1>2, <1>5, <1>17, <1>18, <2>1, <2>2
<1>20. OwnedOK(g, owned')
  <2>1. ASSUME NEW i \in 1..Len(g)
        PROVE  LET r == g[i].record
                   o == owned'[g[i].storage]
               IN  /\ {g[i].storage, r.result} \subseteq o
                   /\ o \subseteq {g[i].storage, r.result, r.cell, r.procedure}
                   /\ \A j \in 1..Len(g) : i # j => o \cap owned'[g[j].storage] = {}
                   /\ i > Len(HostFrames) /\ r.cell \notin o =>
                          r.cell = g[i - 1].record.cell
    <3>1. CASE i \in 1..n
      <4>1. /\ {f[i].storage, f[i].record.result} \subseteq owned[f[i].storage]
            /\ owned[f[i].storage] \subseteq {f[i].storage, f[i].record.result,
                                              f[i].record.cell, f[i].record.procedure}
            /\ \A j \in 1..n : i # j => owned[f[i].storage] \cap owned[f[j].storage] = {}
            /\ i > Len(HostFrames) /\ f[i].record.cell \notin owned[f[i].storage] =>
                   f[i].record.cell = f[i - 1].record.cell
        BY <1>1, <3>1 DEF OwnedOK
      <4>2. \A j \in 1..Len(g) : i # j => owned[f[i].storage] \cap owned'[g[j].storage] = {}
        BY <1>3, <1>12, <1>13, <1>18, <1>19, <3>1, <4>1
      <4>3. i > Len(HostFrames) => i - 1 \in 1..n
        BY <1>1, <3>1, HostTypes
      <4> QED
        BY <1>3, <1>19, <3>1, <4>1, <4>2, <4>3
    <3>2. CASE i = n + 1
      <4>1. \A j \in 1..Len(g) : i # j => own \cap owned'[g[j].storage] = {}
        BY <1>3, <1>13, <1>19, <3>2
      <4>2. record.cell \notin own => record.cell = g[n].record.cell
        BY <1>1, <1>2, <1>3, <1>17
      <4>3. i - 1 = n
        BY <1>1, <3>2
      <4> QED
        BY <1>12, <1>17, <1>18, <3>2, <4>1, <4>2, <4>3
    <3> QED
      BY <1>13, <3>1, <3>2
  <2>2. ASSUME NEW h \in Id, owned'[h] # {}
        PROVE  \E i \in 1..Len(g) : g[i].storage = h
    <3>1. CASE h = frame.storage
      BY <1>1, <1>3, <1>12, <3>1
    <3>2. CASE h # frame.storage
      <4>1. PICK i \in 1..n : f[i].storage = h
        BY <1>1, <1>18, <2>2, <3>2 DEF OwnedOK
      <4> QED
        BY <1>1, <1>3, <4>1
    <3> QED
      BY <3>1, <3>2
  <2> QED
    BY <2>1, <2>2 DEF OwnedOK
<1> QED
  BY <1>3, <1>11, <1>14, <1>15, <1>16, <1>20 DEF MachineKept, FramesKept, g

(* What the calls in progress own exists, and none of it twice.            *)
LEMMA OwnedExist ==
    ASSUME NEW b, NEW f, NEW c, NEW o, MachineKept(b, f, c, o), NEW i \in 1..Len(f)
    PROVE  o[f[i].storage] \subseteq DOMAIN b.entries
<1>1. FrameKept(b, f[i])
  BY DEF MachineKept, BankKept
<1>2. {f[i].storage, f[i].record.result, f[i].record.cell,
       f[i].record.procedure} \subseteq DOMAIN b.entries
  BY <1>1 DEF FrameKept, CanChange, CellWritable, Exists
<1>3. o[f[i].storage] \subseteq {f[i].storage, f[i].record.result, f[i].record.cell,
                                 f[i].record.procedure}
  BY DEF MachineKept, FramesKept, OwnedOK
<1> QED
  BY <1>2, <1>3

LEMMA EnterStep ==
    ASSUME MachineOK, NEW b, GoodBank(b), ReadOnlyKept(bank, b),
           NEW f, f # <<>>, SameCalls(activations, f), MachineKept(b, f, current, owned),
           NEW procedure \in Id, NEW entry \in NodeRef \cup {Null},
           NEW ownsProcedure \in BOOLEAN,
           EnterCall(b, f, procedure, entry, ownsProcedure),
           DOMAIN b.entries =
               DOMAIN bank.entries \cup (IF ownsProcedure THEN {procedure} ELSE {}),
           ownsProcedure => procedure \notin DOMAIN bank.entries
    PROVE  /\ MachineOK' /\ Enters
           /\ \A i \in 1..Depth : activations'[i] = f[i]
<1>1. f \in Seq(Frame) /\ Len(f) = Depth /\ Depth \in Nat
  BY DEF MachineKept, FramesKept, SameCalls, Depth
<1>2. owned \in [Id -> SUBSET Id]
  BY DEF MachineOK, Inv, TypeOK
<1>3. ownsProcedure => \A i \in 1..Len(f) : procedure \notin owned[f[i].storage]
  <2> SUFFICES ASSUME ownsProcedure, NEW i \in 1..Len(f)
               PROVE  procedure \notin owned[f[i].storage]
    OBVIOUS
  <2>1. i \in 1..Len(activations) /\ f[i].storage = activations[i].storage
    BY <1>1 DEF SameCalls, Depth
  <2>2. owned[activations[i].storage] \subseteq DOMAIN bank.entries
    BY <2>1, OwnedExist DEF MachineOK
  <2> QED
    BY <2>1, <2>2
<1>4. MachineOK'
  <2>1. Inv'
    BY <1>1, EnterCallType DEF MachineOK
  <2>2. MachineKept(bank', activations', current', owned')
    BY <1>2, <1>3, EnterKept
  <2> QED
    BY <2>1, <2>2 DEF MachineOK
<1>5. Entered(b, f, procedure, entry, ownsProcedure)
  BY <1>1, EnterCallParts
<1> DEFINE frame == activations'[Depth + 1]
           record == frame.record
           newCell == entry # NoEntry
           made == {frame.storage, record.result}
                       \cup (IF newCell THEN {record.cell} ELSE {})
           own == Owned(frame.storage, record, newCell, ownsProcedure)
<1>6. /\ activations' = Append(f, frame) /\ frame.storage \in Id
      /\ record.procedure = procedure
      /\ made \cap DOMAIN b.entries = {}
      /\ DOMAIN bank'.entries = DOMAIN b.entries \cup made
      /\ \A h \in DOMAIN b.entries : bank'.entries[h] = b.entries[h]
      /\ owned' = [owned EXCEPT ![frame.storage] = own]
  BY <1>1, <1>5 DEF Entered, Frame
<1>7. /\ activations' \in Seq(Frame) /\ Len(activations') = Depth + 1
      /\ \A i \in 1..Depth : activations'[i] = f[i]
  <2>1. activations' \in Seq(Frame)
    BY <1>4 DEF MachineOK, Inv, TypeOK
  <2> HIDE DEF frame
  <2> QED
    BY <1>1, <1>6, <2>1
<1>8. SubSeq(activations', 1, Depth) = f
  BY <1>1, <1>7
<1>9. ReadOnlyKept(bank, bank')
  <2>1. ReadOnlyKept(b, bank')
    BY <1>6 DEF ReadOnlyKept, Exists
  <2> QED
    BY <2>1, ReadOnlyKeptTransitive
<1>10. own = made \cup (IF ownsProcedure THEN {procedure} ELSE {})
  BY <1>6 DEF Owned
<1>11. owned'[frame.storage] = own
  BY <1>2, <1>6
<1>12. \A i \in 1..Depth : activations[i].storage # frame.storage
  <2> TAKE i \in 1..Depth
  <2>1. f[i].storage = activations[i].storage
    BY <1>1 DEF SameCalls, Depth
  <2>2. f[i].storage \in DOMAIN b.entries
    BY <1>1 DEF MachineKept, BankKept, FrameKept, CanChange, Exists
  <2> QED
    BY <1>6, <2>1, <2>2
<1>13. own # {} /\ own \cap DOMAIN bank.entries = {}
       /\ DOMAIN bank'.entries = DOMAIN bank.entries \cup own
  <2> DEFINE copied == IF ownsProcedure THEN {procedure} ELSE {}
  <2>1. own = made \cup copied /\ DOMAIN b.entries = DOMAIN bank.entries \cup copied
        /\ copied \cap DOMAIN bank.entries = {}
    BY <1>10
  <2>2. /\ made \cap DOMAIN b.entries = {} /\ made # {}
        /\ DOMAIN bank'.entries = DOMAIN b.entries \cup made
    BY <1>6
  <2> HIDE DEF copied, made, own
  <2> QED
    BY <2>1, <2>2
<1> HIDE DEF frame, own, made
<1>14. Enters
  BY <1>6, <1>7, <1>8, <1>9, <1>11, <1>12, <1>13 DEF Enters, frame
<1> QED
  BY <1>4, <1>7, <1>14

(* What the steps that read the current node have in common. *)
LEMMA BranchFacts ==
    ASSUME MachineOK, NEW m \in Loaded, NEW next \in NodeRefs, NodeOK(bank, next)
    PROVE  /\ GoodBank(bank) /\ BankKept(bank, activations)
           /\ ReadOnlyKept(bank, bank) /\ Safe(bank, activations, next)
           /\ NoPosition \in Nat \cup {Null} /\ NoPrefix \in Prefix
           /\ NoPrefix.kind = "none"
<1>1. GoodBank(bank) /\ BankKept(bank, activations)
  BY BankGood DEF MachineOK, MachineKept
<1>2. ReadOnlyKept(bank, bank)
  BY DEF ReadOnlyKept, Exists
<1> QED
  BY <1>1, <1>2, NoPrefixType DEF Safe, NoPosition, NoPrefix

(* A call command works for its caller, then enters. *)
LEMMA CompleteAndCallKept ==
    ASSUME MachineOK, NEW m \in Loaded, NEW next \in NodeRefs, CanBranch(m, next),
           NEW b, GoodBank(b), BankKept(b, activations), ReadOnlyKept(bank, b),
           Safe(b, activations, next),
           NEW procedure \in Id, NEW entry \in NodeRef \cup {Null},
           NEW ownsProcedure \in BOOLEAN,
           CompleteAndCall(m, b, next, procedure, entry, ownsProcedure),
           DOMAIN b.entries =
               DOMAIN bank.entries \cup (IF ownsProcedure THEN {procedure} ELSE {}),
           ownsProcedure => procedure \notin DOMAIN bank.entries
    PROVE  StepKept
<1> DEFINE f == Advanced(m, NoPosition, NoPrefix)
           b2 == Finished(m, b, next, f)
<1>1. /\ NodeOK(bank, next) /\ CanDecode(m) /\ CanFinish(m, b, NoPosition)
      /\ EnterCall(b2, f, procedure, entry, ownsProcedure)
  BY DEF CanBranch, CompleteAndCall
<1>2. /\ NoPosition \in Nat \cup {Null} /\ NoPrefix \in Prefix
      /\ ~(NoPrefix.kind \in {"read", "modify"})
  BY <1>1, BranchFacts
<1>3. /\ GoodBank(b2) /\ MachineKept(b2, f, current, owned)
      /\ ReadOnlyKept(bank, b2) /\ SameShape(b, b2)
  BY <1>1, <1>2, FinishedKept
<1>4. LocalsOK(m) /\ m.frames = activations /\ m.top = Depth
  BY StepLocals DEF Depth
<1>5. SameCalls(activations, f) /\ f # <<>>
  BY <1>2, <1>4, AdvancedFrames, AdvancedType
<1>6. DOMAIN b2.entries = DOMAIN b.entries
  BY <1>3 DEF SameShape
<1> HIDE DEF b2, f
<1>7. MachineOK' /\ Enters /\ \A i \in 1..Depth : activations'[i] = f[i]
  BY <1>1, <1>3, <1>5, <1>6, EnterStep
<1>8. PrefixReach /\ PrefixSpent
  BY <1>2, <1>4, <1>7, AdvancedReach DEF f
<1> QED
  BY <1>7, <1>8 DEF StepKept

LEMMA SwitchProcedureKept ==
    ASSUME MachineOK, NEW m \in Loaded, SwitchProcedure(m)
    PROVE  StepKept
<1>1. PICK next \in NodeRefs, procedure \in Id :
          /\ CanBranch(m, next)
          /\ CompleteAndCall(m, bank, next, procedure, NoEntry, FALSE)
  BY DEF SwitchProcedure
<1>2. NoEntry \in NodeRef \cup {Null} /\ FALSE \in BOOLEAN /\ NodeOK(bank, next)
  BY <1>1 DEF NoEntry, CanBranch
<1> QED
  BY <1>1, <1>2, BranchFacts, CompleteAndCallKept

LEMMA SwitchNetworkKept ==
    ASSUME MachineOK, NEW m \in Loaded, SwitchNetwork(m)
    PROVE  StepKept
<1>1. PICK next \in NodeRefs, entry \in NodeRefs :
          /\ CanBranch(m, next)
          /\ CompleteAndCall(m, bank, next, Reader(m).procedure, entry, FALSE)
  BY DEF SwitchNetwork
<1>2. /\ entry \in NodeRef \cup {Null} /\ FALSE \in BOOLEAN /\ NodeOK(bank, next)
      /\ Reader(m).procedure \in Id
  <2>1. Record(m, m.read) \in ActivationRecord
    BY StepLocals, RecordType DEF LocalsOK
  <2> QED
    BY <1>1, <2>1, NextNode DEF CanBranch, Reader, ActivationRecord
<1> HIDE DEF Reader
<1> QED
  BY <1>1, <1>2, BranchFacts, CompleteAndCallKept

(* A copied procedure is a new register, which no activation refers to. *)
LEMMA SwitchProcedureAndNetworkKept ==
    ASSUME MachineOK, NEW m \in Loaded, SwitchProcedureAndNetwork(m)
    PROVE  StepKept
<1>1. PICK next \in NodeRefs, entry \in NodeRefs, size \in Sizes :
          /\ CanBranch(m, next) /\ CanCreate(bank)
          /\ CompleteAndCall(m, Create(bank, [size |-> size, val |-> Code], TRUE),
                             next, bank.next, entry, TRUE)
  BY DEF SwitchProcedureAndNetwork
<1> DEFINE c == [size |-> size, val |-> Code]
           b == Create(bank, c, TRUE)
<1>2. c \in RegisterContents /\ TRUE \in BOOLEAN /\ entry \in NodeRef \cup {Null}
      /\ NodeOK(bank, next) /\ TRUE = TRUE
  BY <1>1, MadeContents, NextNode, VmAssumption DEF CanBranch
<1>3. /\ GoodBank(bank) /\ BankKept(bank, activations) /\ Safe(bank, activations, next)
      /\ activations \in Seq(Frame)
  BY <1>2, BranchFacts DEF MachineOK, Inv, TypeOK
<1> HIDE DEF c
<1>4. /\ GoodBank(b) /\ bank.next \in Id /\ bank.next \notin DOMAIN bank.entries
      /\ DOMAIN b.entries = DOMAIN bank.entries \cup {bank.next}
      /\ \A k \in DOMAIN bank.entries : b.entries[k] = bank.entries[k]
  BY <1>1, <1>2, <1>3, CreateKeeps, GoodCreate
<1>5. CompleteAndCall(m, b, next, bank.next, entry, TRUE)
  BY <1>1 DEF c
<1> HIDE DEF b
<1>6. BankKept(b, activations)
  BY <1>3, <1>4, OthersKeepBank DEF Exists
<1>7. ReadOnlyKept(bank, b)
  BY <1>4 DEF ReadOnlyKept, Exists
<1>8. Safe(b, activations, next)
  BY <1>2, <1>4 DEF Safe, NodeOK, Fits, Exists, Size, Contents
<1> QED
  BY <1>1, <1>2, <1>4, <1>5, <1>6, <1>7, <1>8, CompleteAndCallKept

(* A call node moves its own network on and leaves all records alone. *)
LEMMA CallNodeKept ==
    ASSUME MachineOK, NEW m \in Loaded, CallNode(m)
    PROVE  StepKept
<1>1. PICK next \in NodeRefs, entry \in NodeRefs, procedure \in Id :
          /\ NodeOK(bank, next) /\ CanChange(bank, Owner(m).cell)
          /\ EnterCall(SetVal(bank, Owner(m).cell, next), m.frames, procedure, entry, FALSE)
  BY DEF CallNode
<1> DEFINE f == activations
           cell == Owner(m).cell
           b == SetVal(bank, cell, next)
<1>2. /\ LocalsOK(m) /\ m.frames = f /\ m.top = Len(f) /\ f \in Seq(Frame)
      /\ m.prefix = f[m.top].record.prefix
      /\ FramesKept(f, current, owned)
  BY StepLocals DEF MachineOK, MachineKept, FramesKept
<1>3. /\ m.top \in 1..Len(f) /\ Len(f) \in Nat /\ f # <<>> /\ cell = f[m.top].record.cell
  BY <1>2 DEF LocalsOK, Owner, Record
<1>4. GoodBank(bank) /\ BankKept(bank, f) /\ ReadOnlyKept(bank, bank) /\ Safe(bank, f, next)
  BY <1>1, BranchFacts
<1>5. next \in NodeRef /\ next \in Value /\ entry \in NodeRef \cup {Null}
      /\ FALSE \in BOOLEAN /\ Exists(bank, cell)
  BY <1>1, NextNode DEF Value, CanChange
<1>6. /\ SameShape(bank, b) /\ GoodBank(b) /\ Val(b, cell) = next
      /\ \A k \in DOMAIN bank.entries \ {cell} : b.entries[k] = bank.entries[k]
  BY <1>4, <1>5, SetValShape, GoodSetVal
<1>7. EnterCall(b, f, procedure, entry, FALSE)
  BY <1>1, <1>2
<1> HIDE DEF b, cell
<1>8. ReadOnlyKept(bank, b)
  <2>1. ~IsImmutable(bank, cell)
    BY <1>1 DEF CanChange, Locked, IsImmutable, cell
  <2> QED
    BY <1>6, <2>1 DEF ReadOnlyKept, SameShape, Exists
<1>9. BankKept(b, f)
  <2>1. ASSUME NEW i \in 1..Len(f)
        PROVE  /\ Val(b, f[i].storage) = Val(bank, f[i].storage)
               /\ Val(b, f[i].record.cell) \in NodeRef
               /\ Safe(bank, f, Val(b, f[i].record.cell))
    <3>1. FrameKept(bank, f[i]) /\ Safe(bank, f, NodeOf(bank, f[i].record))
      BY <1>4 DEF BankKept
    <3>2. f[i].storage \in DOMAIN bank.entries /\ f[i].record.cell \in DOMAIN bank.entries
      BY <3>1 DEF FrameKept, CanChange, CellWritable, Exists
    <3>3. f[i].storage # cell
      BY <1>2, <1>3, <1>4, CellsAreNoStorages
    <3>4. CASE f[i].record.cell = cell
      BY <1>4, <1>5, <1>6, <3>2, <3>3, <3>4 DEF Val, Contents
    <3>5. CASE f[i].record.cell # cell
      BY <1>6, <3>1, <3>2, <3>3, <3>5 DEF FrameKept, CellOK, NodeOf, Val, Contents
    <3> QED
      BY <3>4, <3>5
  <2> QED
    BY <1>2, <1>4, <1>6, <2>1, WritesKeepBank
<1>10. SameCalls(f, f) /\ MachineKept(b, f, current, owned)
  BY <1>2, <1>9 DEF SameCalls, MachineKept
<1>11. DOMAIN b.entries = DOMAIN bank.entries
  BY <1>6 DEF SameShape
<1>12. MachineOK' /\ Enters /\ \A i \in 1..Depth : activations'[i] = f[i]
  BY <1>3, <1>5, <1>6, <1>7, <1>8, <1>10, <1>11, EnterStep
<1>13. PrefixReach /\ PrefixSpent
  <2>1. PrefixReach
    BY <1>12 DEF PrefixReach
  <2>2. PrefixSpent
    BY <1>2, <1>3, <1>12 DEF PrefixSpent, Enters, Depth
  <2> QED
    BY <2>1, <2>2
<1> QED
  BY <1>12, <1>13 DEF StepKept

-----------------------------------------------------------------------------
(* The return. *)

(* The activations below the running one. *)
LEMMA CallersOf ==
    ASSUME NEW f \in Seq(Frame), Len(f) > 0
    PROVE  LET g == SubSeq(f, 1, Len(f) - 1)
           IN  /\ g \in Seq(Frame) /\ Len(g) = Len(f) - 1
               /\ \A i \in 1..(Len(f) - 1) : g[i] = f[i]
<1> DEFINE n == Len(f)
<1>1. n = Len(f) /\ n \in Nat \ {0}
  OBVIOUS
<1> HIDE DEF n
<1>2. Len(SubSeq(f, 1, n - 1)) = n - 1 /\ \A i \in 1..(n - 1) : SubSeq(f, 1, n - 1)[i] = f[i]
  BY <1>1
<1>3. SubSeq(f, 1, n - 1) \in Seq(Frame)
  BY <1>1
<1> QED
  BY <1>2, <1>3 DEF n

(* erase, for each register that the call owns. *)
LEMMA DiscardedEntries ==
    ASSUME NEW b, GoodBank(b), NEW own
    PROVE  /\ DOMAIN Discarded(b, own).entries = DOMAIN b.entries \ own
           /\ \A h \in DOMAIN b.entries \ own :
                  Discarded(b, own).entries[h] = b.entries[h]
<1> DEFINE kept == [h \in DOMAIN b.entries \ own |-> b.entries[h]]
<1>1. b = [entries |-> b.entries, next |-> b.next]
  BY BankFields DEF GoodBank
<1>2. Discarded(b, own) = [b EXCEPT !.entries = kept]
  BY DEF Discarded
<1>3. DOMAIN kept = DOMAIN b.entries \ own /\ \A h \in DOMAIN kept : kept[h] = b.entries[h]
  OBVIOUS
<1> HIDE DEF kept
<1>4. Discarded(b, own).entries = kept
  BY <1>1, <1>2, TableReplaced
<1> QED
  BY <1>3, <1>4

LEMMA FinishCallKept ==
    ASSUME MachineOK, NEW m \in Loaded, FinishCall(m)
    PROVE  StepKept
<1> DEFINE f == activations
           n == Len(f)
           g == SubSeq(f, 1, n - 1)
           own == owned[current]
           b == Discarded(bank, own)
<1>1. /\ LocalsOK(m) /\ m.frames = f /\ m.top = n /\ f \in Seq(Frame) /\ n \in Nat \ {0}
      /\ current = f[n].storage /\ n \in 1..n
      /\ Linked(f, current) /\ ResultsApart(f) /\ PrefixesOK(f) /\ OwnedOK(f, owned)
      /\ BankKept(bank, f)
  BY StepLocals DEF MachineOK, MachineKept, FramesKept, LocalsOK
<1>2. /\ n > 1 => (own # {} => \A i \in 1..(n - 1) : \A h \in own : ~Uses(bank, g[i], h))
      /\ bank' = b /\ activations' = g /\ owned' = [owned EXCEPT ![current] = {}]
      /\ current' = f[n].record.previous
  BY <1>1 DEF FinishCall, Owner, Record
<1>3. g \in Seq(Frame) /\ Len(g) = n - 1 /\ \A i \in 1..(n - 1) : g[i] = f[i]
  <2>1. f \in Seq(Frame) /\ Len(f) > 0
    BY <1>1
  <2> QED
    BY <2>1, CallersOf
<1>4. {f[n].storage, f[n].record.result} \subseteq own
  BY <1>1 DEF OwnedOK
<1>5. \A i \in 1..(n - 1) : i \in 1..n /\ \A h \in own : ~Uses(bank, f[i], h)
  BY <1>1, <1>2, <1>3, <1>4
<1>6. /\ DOMAIN b.entries = DOMAIN bank.entries \ own
      /\ \A h \in DOMAIN bank.entries \ own : b.entries[h] = bank.entries[h]
  <2>1. GoodBank(bank)
    BY BankGood DEF MachineOK
  <2> HIDE DEF own
  <2> QED
    BY <2>1, DiscardedEntries
<1> HIDE DEF g, b, own
<1>7. ASSUME NEW i \in 1..Len(g), NEW ref, Safe(bank, f, ref),
             ref = NodeOf(bank, g[i].record) \/ (ref # Null /\ ref = g[i].record.localResolver)
      PROVE  Safe(bank, g, ref)
  <2>1. i \in 1..(n - 1) /\ g[i] = f[i]
    BY <1>1, <1>3
  <2>2. Uses(bank, f[i], ref.id)
    BY <1>7, <2>1 DEF Uses
  <2>3. ref.id \notin own
    BY <1>5, <2>1, <2>2
  <2>4. ref.id # f[n].record.result
    BY <1>4, <2>3
  <2>5. CASE ref.id \in Results(f)
    <3>1. PICK j \in 1..n : f[j].record.result = ref.id
      BY <2>5 DEF Results
    <3>2. j \in 1..Len(g) /\ g[j] = f[j]
      BY <1>1, <1>3, <2>4, <3>1
    <3> QED
      BY <3>1, <3>2 DEF Safe, Results
  <2>6. CASE NodeOK(bank, ref)
    BY <2>6 DEF Safe
  <2> QED
    BY <1>7, <2>5, <2>6 DEF Safe
<1>8. BankKept(bank, g)
  <2> SUFFICES ASSUME NEW i \in 1..Len(g)
               PROVE  /\ FrameKept(bank, g[i])
                      /\ Safe(bank, g, NodeOf(bank, g[i].record))
                      /\ g[i].record.localResolver # Null =>
                             Safe(bank, g, g[i].record.localResolver)
    BY DEF BankKept
  <2>1. i \in 1..n /\ g[i] = f[i]
    BY <1>1, <1>3
  <2>2. /\ FrameKept(bank, g[i]) /\ Safe(bank, f, NodeOf(bank, g[i].record))
        /\ g[i].record.localResolver # Null => Safe(bank, f, g[i].record.localResolver)
    BY <1>1, <2>1 DEF BankKept
  <2> QED
    BY <1>7, <2>2
<1>9. BankKept(b, g)
  <2>1. \A h \in DOMAIN bank.entries :
            /\ (\E i \in 1..Len(g) : Uses(bank, g[i], h)) => Exists(b, h)
            /\ Exists(b, h) => b.entries[h] = bank.entries[h]
    BY <1>1, <1>3, <1>5, <1>6 DEF Exists
  <2> QED
    BY <1>3, <1>8, <2>1, OthersKeepBank
<1>10. \A i \in 1..Len(g) : i \in 1..(n - 1) /\ i \in 1..n /\ g[i] = f[i]
  BY <1>1, <1>3
<1>11. Linked(g, current')
  <2>1. current' = IF g = <<>> THEN Null ELSE g[Len(g)].storage
    <3>1. CASE n = 1
      <4>1. g = <<>>
        BY <1>1, <1>3, <3>1
      <4> QED
        BY <1>1, <1>2, <3>1, <4>1 DEF Linked
    <3>2. CASE n # 1
      <4>1. g # <<>> /\ g[Len(g)] = f[n - 1]
        BY <1>1, <1>3, <3>2
      <4> QED
        BY <1>1, <1>2, <3>2, <4>1 DEF Linked
    <3> QED
      BY <3>1, <3>2
  <2>2. ASSUME NEW i \in 1..Len(g)
        PROVE  g[i].record.previous = IF i = 1 THEN Null ELSE g[i - 1].storage
    <3>1. i # 1 => i - 1 \in 1..Len(g)
      BY <1>1, <1>3
    <3> QED
      BY <1>1, <1>10, <3>1, SMTT(30) DEF Linked
  <2>3. \A i, j \in 1..Len(g) : g[i].storage = g[j].storage => i = j
    BY <1>1, <1>10 DEF Linked
  <2> QED
    BY <2>1, <2>2, <2>3 DEF Linked
<1>12. ResultsApart(g) /\ PrefixesOK(g)
  <2>1. ResultsApart(g)
    BY <1>1, <1>10 DEF ResultsApart
  <2>2. PrefixesOK(g)
    BY <1>1, <1>10 DEF PrefixesOK
  <2> QED
    BY <2>1, <2>2
<1>13. owned \in [Id -> SUBSET Id] /\ current \in Id
  <2>1. f[n].storage \in Id
    BY <1>1, FrameTypes
  <2> QED
    BY <1>1, <2>1 DEF MachineOK, Inv, TypeOK
<1>14. /\ owned'[current] = {}
       /\ \A h \in Id : h # current => owned'[h] = owned[h]
       /\ \A i \in 1..Len(g) : g[i].storage # current /\ owned'[g[i].storage] = owned[f[i].storage]
  <2>1. \A i \in 1..(n - 1) : f[i].storage # current
    <3> TAKE i \in 1..(n - 1)
    <3>1. i \in 1..n /\ i # n
      BY <1>1
    <3> QED
      BY <1>1, <3>1 DEF Linked
  <2>2. \A i \in 1..Len(g) : f[i].storage \in Id
    BY <1>1, <1>10, FrameTypes
  <2> QED
    BY <1>2, <1>10, <1>13, <2>1, <2>2
<1>15. OwnedOK(g, owned')
  <2>1. ASSUME NEW i \in 1..Len(g)
        PROVE  LET r == g[i].record
                   o == owned'[g[i].storage]
               IN  /\ {g[i].storage, r.result} \subseteq o
                   /\ o \subseteq {g[i].storage, r.result, r.cell, r.procedure}
                   /\ \A j \in 1..Len(g) : i # j => o \cap owned'[g[j].storage] = {}
                   /\ i > Len(HostFrames) /\ r.cell \notin o =>
                          r.cell = g[i - 1].record.cell
    <3>1. /\ {f[i].storage, f[i].record.result} \subseteq owned[f[i].storage]
          /\ owned[f[i].storage] \subseteq {f[i].storage, f[i].record.result,
                                            f[i].record.cell, f[i].record.procedure}
          /\ \A j \in 1..n : i # j => owned[f[i].storage] \cap owned[f[j].storage] = {}
          /\ i > Len(HostFrames) /\ f[i].record.cell \notin owned[f[i].storage] =>
                 f[i].record.cell = f[i - 1].record.cell
      BY <1>1, <1>10 DEF OwnedOK
    <3>2. i > Len(HostFrames) => i - 1 \in 1..Len(g)
      BY <1>1, <1>3, HostTypes
    <3>3. g[i] = f[i] /\ owned'[g[i].storage] = owned[f[i].storage]
      BY <1>10, <1>14
    <3>4. \A j \in 1..Len(g) : i # j => owned[f[i].storage] \cap owned'[g[j].storage] = {}
      BY <1>10, <1>14, <3>1
    <3>5. i > Len(HostFrames) /\ f[i].record.cell \notin owned[f[i].storage] =>
              f[i].record.cell = g[i - 1].record.cell
      BY <1>10, <3>1, <3>2
    <3> QED
      BY <3>1, <3>3, <3>4, <3>5
  <2>2. ASSUME NEW h \in Id, owned'[h] # {}
        PROVE  \E i \in 1..Len(g) : g[i].storage = h
    <3>1. h # current /\ owned[h] # {}
      BY <1>14, <2>2
    <3>2. PICK i \in 1..n : f[i].storage = h
      BY <1>1, <3>1 DEF OwnedOK
    <3>3. i \in 1..Len(g)
      BY <1>1, <1>3, <3>1, <3>2
    <3> QED
      BY <1>10, <3>2, <3>3
  <2> QED
    BY <2>1, <2>2 DEF OwnedOK
<1>16. MachineOK'
  <2>1. Inv'
    BY FinishCallType DEF MachineOK
  <2>2. MachineKept(bank', activations', current', owned')
    BY <1>2, <1>3, <1>9, <1>11, <1>12, <1>15 DEF MachineKept, FramesKept
  <2> QED
    BY <2>1, <2>2 DEF MachineOK
<1>17. Returns
  BY <1>1, <1>2 DEF Returns, Depth, b, own, g
<1>18. PrefixReach /\ PrefixSpent
  <2>1. Len(activations') = Depth - 1 /\ Depth \in Nat
    BY <1>1, <1>2, <1>3 DEF Depth
  <2>2. \A i \in 1..Depth : i <= Len(activations') => activations'[i] = activations[i]
    BY <1>2, <1>10, <2>1
  <2>3. PrefixReach
    BY <2>2 DEF PrefixReach
  <2>4. PrefixSpent
    BY <2>1 DEF PrefixSpent
  <2> QED
    BY <2>3, <2>4
<1> QED
  BY <1>16, <1>17, <1>18 DEF StepKept

(* A suppressed FINISH_CALL drops the prefix of the running record. *)
LEMMA SuppressedFinishKept ==
    ASSUME MachineOK, NEW m \in Loaded, SuppressedFinish(m)
    PROVE  StepKept
<1> DEFINE f == activations
           n == Len(f)
           g == activations'
           b == bank'
<1>1. /\ LocalsOK(m) /\ m.frames = f /\ m.top = n /\ f \in Seq(Frame) /\ n \in Nat \ {0}
      /\ current = f[n].storage /\ n \in 1..n
      /\ FramesKept(f, current, owned) /\ Linked(f, current) /\ PrefixesOK(f)
      /\ BankKept(bank, f)
  BY StepLocals DEF MachineOK, MachineKept, FramesKept, LocalsOK
<1>2. /\ CanChange(bank, current) /\ g = [f EXCEPT ![n].record.prefix = NoPrefix]
      /\ b = SetVal(bank, current, g[n].record)
      /\ current' = current /\ owned' = owned
  BY <1>1 DEF SuppressedFinish
<1>3. /\ g \in Seq(Frame) /\ Len(g) = n
      /\ \A i \in 1..n : i # n => g[i] = f[i]
      /\ g[n] = MovedFrame(f[n], f[n].record.position, NoPrefix)
  <2>1. f[n] \in Frame
    BY <1>1, FrameTypes
  <2>2. f[n] = [record |-> f[n].record, storage |-> f[n].storage]
        /\ f[n].record \in ActivationRecord
    BY <2>1 DEF Frame
  <2> DEFINE moved == [f[n] EXCEPT !.record.prefix = NoPrefix]
  <2>3. moved = MovedFrame(f[n], f[n].record.position, NoPrefix)
    <3> DEFINE r == f[n].record
    <3>1. [r EXCEPT !.prefix = NoPrefix] = MovedRecord(r, r.position, NoPrefix)
      BY <2>2 DEF MovedRecord, ActivationRecord
    <3> QED
      BY <2>2, <3>1 DEF MovedFrame
  <2>4. g = [f EXCEPT ![n] = moved]
    BY <1>2
  <2> HIDE DEF moved
  <2>5. Len(g) = n /\ g[n] = moved /\ \A i \in 1..n : i # n => g[i] = f[i]
    BY <1>1, <2>4
  <2>6. g \in Seq(Frame)
    <3>1. Inv'
      BY SuppressedFinishType DEF MachineOK
    <3> QED
      BY <3>1 DEF Inv, TypeOK
  <2> QED
    BY <2>3, <2>5, <2>6
<1>4. /\ g[n].storage = f[n].storage
      /\ g[n].record = MovedRecord(f[n].record, f[n].record.position, NoPrefix)
      /\ f[n].record \in ActivationRecord
  <2>1. f[n] \in Frame /\ f[n].record \in ActivationRecord
    BY <1>1, FrameTypes
  <2> QED
    BY <1>3, <2>1, MovedFrameParts
<1> HIDE DEF g, f, n
<1>5. /\ g[n].record.procedure = f[n].record.procedure
      /\ g[n].record.cell = f[n].record.cell
      /\ g[n].record.previous = f[n].record.previous
      /\ g[n].record.localResolver = f[n].record.localResolver
      /\ g[n].record.result = f[n].record.result
      /\ g[n].record.position = f[n].record.position
      /\ g[n].record.prefix = NoPrefix
  BY <1>4, MovedRecordParts
<1>6. SameCalls(f, g)
  <2>1. Len(f) = n
    BY DEF n
  <2>2. ASSUME NEW i \in 1..n
        PROVE  /\ g[i].storage = f[i].storage
               /\ g[i].record.procedure = f[i].record.procedure
               /\ g[i].record.cell = f[i].record.cell
               /\ g[i].record.localResolver = f[i].record.localResolver
               /\ g[i].record.previous = f[i].record.previous
               /\ g[i].record.result = f[i].record.result
    BY <1>3, <1>4, <1>5
  <2> QED
    BY <1>3, <2>1, <2>2 DEF SameCalls
<1>7. PrefixesOK(g)
  BY <1>1, <1>3, <1>5 DEF PrefixesOK, NoPrefix, n
<1>8. FramesKept(g, current, owned)
  BY <1>1, <1>6, <1>7, SameCallsKept
<1>9. /\ SameShape(bank, b) /\ Val(b, current) = g[n].record
      /\ \A k \in DOMAIN bank.entries \ {current} : b.entries[k] = bank.entries[k]
  <2>1. Exists(bank, current) /\ GoodBank(bank)
    BY <1>2, BankGood DEF CanChange, MachineOK
  <2>2. g[n].record \in Value
    <3>1. g[n] \in Frame
      BY <1>1, <1>3
    <3> QED
      BY <3>1 DEF Frame, Value
  <2> QED
    BY <1>2, <2>1, <2>2, SetValShape
<1> HIDE DEF b
<1>10. BankKept(b, g)
  <2>1. ASSUME NEW i \in 1..Len(f)
        PROVE  /\ Val(b, f[i].storage) = g[i].record
               /\ Val(b, f[i].record.cell) \in NodeRef
               /\ Safe(bank, f, Val(b, f[i].record.cell))
               /\ g[i].record.position <= Size(bank, g[i].record.procedure)
    <3>1. FrameKept(bank, f[i]) /\ Safe(bank, f, NodeOf(bank, f[i].record))
      BY <1>1 DEF BankKept
    <3>2. f[i].storage \in DOMAIN bank.entries /\ f[i].record.cell \in DOMAIN bank.entries
      BY <3>1 DEF FrameKept, CanChange, CellWritable, Exists
    <3>3. f[i].record.cell # current /\ i \in 1..n
      BY <1>1, CellsAreNoStorages DEF n
    <3>4. Val(b, f[i].record.cell) = Val(bank, f[i].record.cell)
      BY <1>9, <3>2, <3>3 DEF Val, Contents
    <3>5. Val(b, f[i].storage) = g[i].record
      <4>1. CASE i = n
        BY <1>1, <1>9, <4>1
      <4>2. CASE i # n
        <5>1. f[i].storage # current
          BY <1>1, <3>3, <4>2 DEF Linked, n
        <5>2. g[i] = f[i]
          BY <1>3, <3>3, <4>2
        <5> QED
          BY <1>9, <3>1, <3>2, <5>1, <5>2 DEF Val, Contents, FrameKept
      <4> QED
        BY <4>1, <4>2
    <3>6. g[i].record.position = f[i].record.position
          /\ g[i].record.procedure = f[i].record.procedure
      BY <1>3, <1>5, <3>3
    <3> QED
      BY <3>1, <3>4, <3>5, <3>6 DEF FrameKept, CellOK, NodeOf
  <2> QED
    BY <1>1, <1>6, <1>9, <2>1, SameCallsBank
<1>11. ReadOnlyKept(bank, b)
  <2>1. ~IsImmutable(bank, current)
    BY <1>2 DEF CanChange, Locked, IsImmutable
  <2> QED
    BY <1>9, <2>1 DEF ReadOnlyKept, SameShape, Exists
<1>12. MachineOK'
  <2>1. Inv'
    BY SuppressedFinishType DEF MachineOK
  <2> QED
    BY <1>2, <1>8, <1>10, <2>1 DEF MachineOK, MachineKept, b, g
<1>13. Works
  BY <1>2, <1>6, <1>11 DEF Works, f, g, b
<1>14. PrefixReach
  <2>1. ASSUME NEW i \in 1..Depth, activations'[i] # activations[i]
        PROVE  LET p == ActiveRecord(Depth).prefix
               IN  /\ i = Depth \/ (p.kind \in {"read", "modify"} /\ i = Depth - p.depth)
                   /\ activations'[i].storage = activations[i].storage
                   /\ activations'[i].record =
                          [ActiveRecord(i) EXCEPT
                              !.position = activations'[i].record.position,
                              !.prefix = IF i = Depth THEN activations'[i].record.prefix
                                         ELSE @]
    <3>1. i = n /\ n = Depth
      BY <1>3, <2>1 DEF Depth, n, f, g
    <3>2. activations'[i].record =
              [ActiveRecord(i) EXCEPT !.position = activations'[i].record.position,
                                      !.prefix = activations'[i].record.prefix]
      BY <1>4, <1>5, <3>1 DEF MovedRecord, ActiveRecord, f, g
    <3> QED
      BY <1>4, <3>1, <3>2 DEF f, g
  <2> QED
    BY <2>1 DEF PrefixReach
<1>15. PrefixSpent
  BY <1>5 DEF PrefixSpent, Depth, n, f, g
<1> QED
  BY <1>12, <1>13, <1>14, <1>15 DEF StepKept

-----------------------------------------------------------------------------
(* The other commands. *)

(* The commands whose effect, if any, is not in the bank. *)
LEMMA EffectFreeKept ==
    ASSUME MachineOK, NEW m \in Loaded,
           SuppressedCommand(m) \/ Branch(m) \/ SetProcedurePosition(m)
    PROVE  StepKept
<1>1. PICK next \in NodeRefs, explicit \in Nat \cup {Null} :
          /\ CanBranch(m, next) /\ Complete(m, bank, next, explicit, NoPrefix)
          /\ explicit # NoPosition => explicit <= Size(bank, Modified(m).procedure)
  <2>1. CASE SuppressedCommand(m) \/ Branch(m)
    BY <2>1 DEF SuppressedCommand, Branch, NoPosition
  <2>2. CASE SetProcedurePosition(m)
    <3>1. PICK next \in NodeRefs : /\ CanBranch(m, next)
              /\ \E position \in 0..Size(bank, Modified(m).procedure) :
                    Complete(m, bank, next, position, NoPrefix)
      BY <2>2 DEF SetProcedurePosition
    <3>2. PICK position \in 0..Size(bank, Modified(m).procedure) :
              Complete(m, bank, next, position, NoPrefix)
      BY <3>1
    <3>3. position \in Nat \cup {Null} /\ position <= Size(bank, Modified(m).procedure)
      <4>1. Size(bank, Modified(m).procedure) \in Nat
        <5>1. Exists(bank, Modified(m).procedure)
          BY <3>1 DEF CanBranch
        <5> QED
          BY <5>1, BankGood, RegisterContentsOf DEF MachineOK, GoodBank
      <4> QED
        BY <4>1
    <3> QED
      BY <3>1, <3>2, <3>3
  <2> QED
    BY <2>1, <2>2
<1>2. NodeOK(bank, next) /\ CanDecode(m)
  BY <1>1 DEF CanBranch
<1> QED
  BY <1>1, <1>2, BranchFacts, CompleteKept

LEMMA PrefixKept ==
    ASSUME MachineOK, NEW m \in Loaded, ReadPrefix(m) \/ ModifyPrefix(m) \/ ConditionPrefix(m)
    PROVE  StepKept
<1>1. PICK next \in NodeRefs, prefix \in Prefix :
          /\ SetPrefix(m, next, prefix)
          /\ prefix.kind \in {"read", "modify"} => prefix.depth < m.top
  <2>1. CASE ReadPrefix(m) \/ ModifyPrefix(m)
    <3>1. PICK next \in NodeRefs, kind \in {"read", "modify"}, depth \in Depths(m) :
              SetPrefix(m, next, [kind |-> kind, depth |-> depth, condition |-> FALSE])
      BY <2>1 DEF ReadPrefix, ModifyPrefix
    <3>2. /\ [kind |-> kind, depth |-> depth, condition |-> FALSE] \in Prefix
          /\ depth < m.top
      BY StepLocals DEF Prefix, Depths, LocalsOK
    <3> QED
      BY <3>1, <3>2
  <2>2. CASE ConditionPrefix(m)
    <3>1. PICK next \in NodeRefs, condition \in BOOLEAN :
              SetPrefix(m, next, [kind |-> "condition", depth |-> 0,
                                  condition |-> condition])
      BY <2>2 DEF ConditionPrefix
    <3>2. [kind |-> "condition", depth |-> 0, condition |-> condition] \in Prefix
      BY DEF Prefix
    <3> QED
      BY <3>1, <3>2
  <2> QED
    BY <2>1, <2>2
<1>2. /\ Complete(m, bank, next, NoPosition, prefix) /\ m.prefix.kind = "none"
      /\ NodeOK(bank, next) /\ CanDecode(m)
  BY <1>1 DEF SetPrefix, CanBranch
<1> QED
  BY <1>1, <1>2, BranchFacts, CompleteKept

(* New contents of one register keep the activations if a record or a state *)
(* cell in it stays whole, and a node in it, unless results are kept there. *)
LEMMA ContentsKeepBank ==
    ASSUME NEW b, GoodBank(b), NEW f \in Seq(Frame), BankKept(b, f),
           NEW h, CanChange(b, h), NEW c \in RegisterContents,
           \A i \in 1..Len(f) :
               LET record == f[i].record
               IN  /\ f[i].storage = h => ActSize <= c.size /\ c.val = Val(b, h)
                   /\ record.cell = h => RefSize <= c.size /\ c.val = Val(b, h)
                   /\ \A ref : /\ ref = NodeOf(b, record) \/
                                      (ref # Null /\ ref = record.localResolver)
                               /\ ref.id = h
                               => h \in Results(f) \/ ref.off + NodeSize <= c.size
    PROVE  LET b2 == SetContents(b, h, c)
           IN  /\ BankKept(b2, f) /\ ReadOnlyKept(b, b2)
               /\ \A ref : /\ NodeOK(b, ref)
                           /\ ref.id = h => h \in Results(f) \/ ref.off + NodeSize <= c.size
                           => Safe(b2, f, ref)
<1> DEFINE b2 == SetContents(b, h, c)
<1>1. Exists(b, h) /\ ~IsImmutable(b, h) /\ h \in DOMAIN b.entries
  BY DEF CanChange, Locked, IsImmutable, Exists
<1>2. /\ DOMAIN b2.entries = DOMAIN b.entries
      /\ b2.entries[h] = [b.entries[h] EXCEPT !.contents = c]
      /\ \A k \in DOMAIN b.entries \ {h} : b2.entries[k] = b.entries[k]
  <2>1. IsBank(b, RegisterContents)
    BY DEF GoodBank
  <2> QED
    BY <1>1, <2>1, SetContentsBank
<1> HIDE DEF b2
<1>3. /\ b2.entries[h].contents = c
      /\ b2.entries[h].immutable = b.entries[h].immutable
      /\ b2.entries[h].protected = b.entries[h].protected
  <2>1. b.entries[h] \in EntryOf(RegisterContents)
    BY <1>1, RegisterContentsOf DEF GoodBank
  <2> QED
    BY <1>2, <2>1 DEF EntryOf
<1>4. \A k : /\ Exists(b2, k) <=> Exists(b, k)
             /\ Exists(b, k) => /\ b2.entries[k].immutable = b.entries[k].immutable
                                /\ b2.entries[k].protected = b.entries[k].protected
             /\ CanChange(b, k) => CanChange(b2, k)
  BY <1>1, <1>2, <1>3 DEF Exists, CanChange, Locked
<1>5. Size(b2, h) = c.size /\ Val(b2, h) = c.val
  BY <1>3 DEF Size, Val, Contents
<1>6. \A k \in DOMAIN b.entries \ {h} : Size(b2, k) = Size(b, k) /\ Val(b2, k) = Val(b, k)
  BY <1>2 DEF Size, Val, Contents
<1>7. ASSUME NEW ref, NodeOK(b, ref),
             ref.id = h => h \in Results(f) \/ ref.off + NodeSize <= c.size
      PROVE  Safe(b2, f, ref)
  <2>1. CASE ref.id # h
    BY <1>4, <1>6, <1>7, <2>1 DEF Safe, NodeOK, Fits, Exists
  <2>2. CASE ref.id = h
    BY <1>1, <1>4, <1>5, <1>7, <2>2 DEF Safe, NodeOK, Fits
  <2> QED
    BY <2>1, <2>2
<1>8. ASSUME NEW ref, Safe(b, f, ref),
             ref.id = h => h \in Results(f) \/ ref.off + NodeSize <= c.size
      PROVE  Safe(b2, f, ref)
  BY <1>7, <1>8 DEF Safe
<1>9. ASSUME NEW i \in 1..Len(f)
      PROVE  /\ FrameKept(b2, f[i])
             /\ Safe(b2, f, NodeOf(b2, f[i].record))
             /\ f[i].record.localResolver # Null => Safe(b2, f, f[i].record.localResolver)
  <2> DEFINE record == f[i].record
             storage == f[i].storage
  <2>1. /\ FrameKept(b, f[i])
        /\ Safe(b, f, NodeOf(b, record))
        /\ record.localResolver # Null => Safe(b, f, record.localResolver)
    BY DEF BankKept
  <2>2. /\ storage = h => ActSize <= c.size /\ c.val = Val(b, h)
        /\ record.cell = h => RefSize <= c.size /\ c.val = Val(b, h)
        /\ \A ref : /\ ref = NodeOf(b, record) \/ (ref # Null /\ ref = record.localResolver)
                    /\ ref.id = h
                    => h \in Results(f) \/ ref.off + NodeSize <= c.size
    OBVIOUS
  <2>3. {storage, record.cell, record.result, record.procedure} \subseteq DOMAIN b.entries
    BY <2>1 DEF FrameKept, CanChange, CellWritable, Exists
  <2>4. CanChange(b2, storage) /\ ActSize <= Size(b2, storage)
        /\ Val(b2, storage) = record
    BY <1>4, <1>5, <1>6, <2>1, <2>2, <2>3 DEF FrameKept
  <2>5. /\ CanChange(b2, record.cell) /\ RefSize <= Size(b2, record.cell)
        /\ Val(b2, record.cell) = Val(b, record.cell)
    BY <1>4, <1>5, <1>6, <2>1, <2>2, <2>3 DEF FrameKept, CellWritable
  <2>6. CellOK(b2, record) /\ CellWritable(b2, record)
    BY <2>1, <2>5, VmAssumption DEF FrameKept, CellOK, CellWritable, CanChange, Fits
  <2>7. record.procedure # h
    BY <1>1, <2>1 DEF FrameKept
  <2>8. FrameKept(b2, f[i])
    BY <1>4, <1>6, <2>1, <2>3, <2>4, <2>6, <2>7 DEF FrameKept, IsImmutable
  <2>9. NodeOf(b2, record) = NodeOf(b, record)
    BY <2>5 DEF NodeOf
  <2>10. Safe(b2, f, NodeOf(b, record))
    BY <1>8, <2>1, <2>2
  <2>11. record.localResolver # Null => Safe(b2, f, record.localResolver)
    BY <1>8, <2>1, <2>2
  <2> QED
    BY <2>8, <2>9, <2>10, <2>11
<1>10. ReadOnlyKept(b, b2)
  BY <1>1, <1>2 DEF ReadOnlyKept, Exists
<1> QED
  BY <1>7, <1>9, <1>10 DEF BankKept, b2

LEMMA StoreDataKept ==
    ASSUME Disciplined, MachineOK, NEW m \in Loaded, StoreData(m)
    PROVE  StepKept
<1>1. PICK next \in NodeRefs, h \in Targets : \E v \in Values(m) :
          /\ CanBranch(m, next) /\ DestinationOK(h, v) /\ (Disciplined => h \notin Live(m))
          /\ Complete(m, SetVal(bank, h, v), next, NoPosition, NoPrefix)
  BY DEF StoreData
<1> DEFINE f == activations
           c == [size |-> Size(bank, h), val |-> Data]
           b == SetContents(bank, h, c)
<1>2. /\ CanBranch(m, next) /\ CanChange(bank, h) /\ h \notin Live(m)
      /\ Complete(m, b, next, NoPosition, NoPrefix)
  BY <1>1 DEF Values, DestinationOK, SetVal
<1>3. NodeOK(bank, next) /\ CanDecode(m)
  BY <1>2 DEF CanBranch
<1>4. /\ GoodBank(bank) /\ BankKept(bank, f) /\ f \in Seq(Frame)
      /\ m.frames = f /\ m.top = Len(f)
  BY <1>3, BranchFacts, StepLocals DEF MachineOK, Inv, TypeOK
<1>5. Exists(bank, h) /\ Size(bank, h) \in Nat
  BY <1>2, <1>4, RegisterContentsOf DEF CanChange, GoodBank
<1>6. c \in RegisterContents
  BY <1>5, MadeContents
<1>7. \A i \in 1..Len(f) : f[i].storage # h /\ f[i].record.cell # h
  BY <1>2, <1>4 DEF Live
<1>8. c.size = Size(bank, h)
  OBVIOUS
<1> HIDE DEF c
<1>9. \A ref : NodeOK(bank, ref) /\ ref.id = h => ref.off + NodeSize <= c.size
  BY <1>8 DEF NodeOK, Fits
<1>10. ASSUME NEW i \in 1..Len(f), NEW ref,
              ref = NodeOf(bank, f[i].record) \/ (ref # Null /\ ref = f[i].record.localResolver),
              ref.id = h
       PROVE  h \in Results(f) \/ ref.off + NodeSize <= c.size
  <2>1. Safe(bank, f, ref)
    BY <1>4, <1>10 DEF BankKept
  <2> QED
    BY <1>9, <1>10, <2>1 DEF Safe
<1>11. /\ BankKept(b, f) /\ ReadOnlyKept(bank, b)
       /\ \A ref : /\ NodeOK(bank, ref)
                   /\ ref.id = h => h \in Results(f) \/ ref.off + NodeSize <= c.size
                   => Safe(b, f, ref)
  BY <1>2, <1>4, <1>6, <1>7, <1>10, ContentsKeepBank
<1>12. Safe(b, f, next)
  BY <1>3, <1>9, <1>11
<1>13. GoodBank(b)
  BY <1>4, <1>5, <1>6, GoodSetContents
<1> HIDE DEF b
<1> QED
  BY <1>2, <1>3, <1>11, <1>12, <1>13, BranchFacts, CompleteKept

(* The result of a call may replace any node that stands in it. *)
LEMMA ReturnResultKept ==
    ASSUME MachineOK, NEW m \in Loaded, ReturnResult(m)
    PROVE  StepKept
<1> DEFINE f == activations
           h == f[m.modify - 1].record.result
<1>1. /\ m.frames = f /\ m.top = Len(f) /\ m.modify \in 1..Len(f) /\ f \in Seq(Frame)
      /\ ResultsApart(f)
  BY StepLocals DEF MachineOK, MachineKept, FramesKept, LocalsOK
<1>2. PICK next \in NodeRefs, size \in Sizes \cup {0} :
          /\ CanBranch(m, next) /\ m.modify > 1 /\ CanChange(bank, h)
          /\ Complete(m, SetContents(bank, h, [size |-> size, val |-> Data]), next,
                      NoPosition, NoPrefix)
  BY <1>1 DEF ReturnResult
<1> DEFINE c == [size |-> size, val |-> Data]
           b == SetContents(bank, h, c)
<1>3. NodeOK(bank, next) /\ CanDecode(m) /\ Complete(m, b, next, NoPosition, NoPrefix)
  BY <1>2 DEF CanBranch
<1>4. GoodBank(bank) /\ BankKept(bank, f)
  BY <1>3, BranchFacts
<1>5. c \in RegisterContents
  BY MadeContents, VmAssumption
<1>6. m.modify - 1 \in 1..Len(f)
  BY <1>1, <1>2
<1>7. h \in Results(f) /\ \A i \in 1..Len(f) : f[i].storage # h /\ f[i].record.cell # h
  BY <1>1, <1>6 DEF Results, ResultsApart
<1> HIDE DEF c, h, f
<1>8. /\ BankKept(b, f) /\ ReadOnlyKept(bank, b)
      /\ \A ref : /\ NodeOK(bank, ref)
                  /\ ref.id = h => h \in Results(f) \/ ref.off + NodeSize <= c.size
                  => Safe(b, f, ref)
  BY <1>1, <1>2, <1>4, <1>5, <1>7, ContentsKeepBank
<1>9. Safe(b, f, next)
  BY <1>3, <1>7, <1>8
<1>10. GoodBank(b)
  BY <1>2, <1>4, <1>5, GoodSetContents DEF CanChange
<1> HIDE DEF b
<1> QED
  BY <1>3, <1>8, <1>9, <1>10, BranchFacts, CompleteKept DEF f

(* What validate_resize_target lets through keeps the activations: the new *)
(* register is nobody's, the deleted one neither, and the resized one is   *)
(* still long enough for the records, the cells and the nodes in it.       *)
LEMMA ResizeKeepsBank ==
    ASSUME MachineOK, NEW m \in Loaded, NEW next \in NodeRefs, NodeOK(bank, next),
           NEW h \in Id, NEW size \in Nat,
           ResizeOK(m, h, size, next), CanResizeOrCreate(bank, h, size)
    PROVE  LET b == ResizedTo(bank, h, size)
           IN  /\ BankKept(b, activations) /\ ReadOnlyKept(bank, b)
               /\ Safe(b, activations, next)
<1> DEFINE f == activations
           b == ResizedTo(bank, h, size)
<1>1. /\ m.frames = f /\ m.top = Len(f) /\ f \in Seq(Frame)
      /\ GoodBank(bank) /\ BankKept(bank, f) /\ Safe(bank, f, next)
  BY BranchFacts, StepLocals DEF MachineOK, Inv, TypeOK
<1>2. /\ StillFits(h, size, next.id, next.off, NodeSize)
      /\ \A i \in 1..Len(f) :
            LET record == f[i].record
                node == NodeOf(bank, record)
            IN  /\ size = 0 => h \notin InUse(f[i])
                /\ StillFits(h, size, f[i].storage, 0, ActSize)
                /\ StillFits(h, size, record.cell, 0, RefSize)
                /\ record.localResolver # Null =>
                       StillFits(h, size, record.localResolver.id,
                                 record.localResolver.off, NodeSize)
                /\ StillFits(h, size, node.id, node.off, NodeSize)
  BY <1>1 DEF ResizeOK, Record
<1>3. Exists(bank, h) => ~IsImmutable(bank, h) /\ CanChange(bank, h)
  BY DEF CanResizeOrCreate, CanChange, Locked, IsImmutable
<1>4. ASSUME \A k \in DOMAIN bank.entries :
                 /\ k # h => Exists(b, k)
                 /\ Exists(b, k) => b.entries[k] = bank.entries[k],
             \A i \in 1..Len(f) : Exists(bank, h) => ~Uses(bank, f[i], h),
             Exists(bank, h) => next.id # h
      PROVE  BankKept(b, f) /\ ReadOnlyKept(bank, b) /\ Safe(b, f, next)
  <2>1. BankKept(b, f)
    <3>1. \A k \in DOMAIN bank.entries :
              /\ (\E i \in 1..Len(f) : Uses(bank, f[i], k)) => Exists(b, k)
              /\ Exists(b, k) => b.entries[k] = bank.entries[k]
      BY <1>4 DEF Exists
    <3> HIDE DEF b
    <3> QED
      BY <1>1, <3>1, OthersKeepBank
  <2>2. ReadOnlyKept(bank, b)
    BY <1>3, <1>4 DEF ReadOnlyKept, Exists
  <2>3. Safe(b, f, next)
    <3> HIDE DEF b
    <3>1. next.id \in DOMAIN bank.entries /\ next.id # h
      BY <1>4 DEF NodeOK, Fits, Exists
    <3>2. Exists(b, next.id) /\ b.entries[next.id] = bank.entries[next.id]
      BY <1>4, <3>1
    <3> QED
      BY <3>2 DEF Safe, NodeOK, Fits, Size, Contents
  <2> QED
    BY <2>1, <2>2, <2>3
<1>5. IsBank(bank, RegisterContents)
  BY <1>1 DEF GoodBank
<1>6. CASE ~Exists(bank, h) /\ size = 0
  <2>1. b = bank
    BY <1>6 DEF ResizedTo, ResizeOrCreate
  <2> HIDE DEF b
  <2> QED
    BY <1>4, <1>6, <2>1 DEF Exists, b
<1>7. CASE ~Exists(bank, h) /\ size # 0
  <2> DEFINE c == [size |-> size, val |-> Data]
  <2>1. b = Insert(bank, h, c, FALSE)
    BY <1>7 DEF ResizedTo, ResizeOrCreate
  <2>2. c \in RegisterContents /\ CanInsert(bank, h) /\ FALSE \in BOOLEAN
    BY <1>7, MadeContents DEF CanInsert
  <2> HIDE DEF c
  <2>3. \A immutable \in BOOLEAN :
            /\ DOMAIN Insert(bank, h, c, immutable).entries = DOMAIN bank.entries \cup {h}
            /\ \A k \in DOMAIN bank.entries :
                   Insert(bank, h, c, immutable).entries[k] = bank.entries[k]
    BY <1>5, <2>2, InsertBank
  <2> QED
    BY <1>4, <1>7, <2>1, <2>3 DEF Exists
<1>8. CASE Exists(bank, h) /\ size = 0
  <2>1. b = Without(bank, h)
    BY <1>8 DEF ResizedTo, ResizeOrCreate, Resize
  <2>2. /\ DOMAIN Without(bank, h).entries = DOMAIN bank.entries \ {h}
        /\ \A k \in DOMAIN bank.entries \ {h} : Without(bank, h).entries[k] = bank.entries[k]
    BY <1>5, WithoutBank
  <2>3. ASSUME NEW off \in Nat PROVE ~(off + NodeSize <= size)
    BY <1>8, <2>3, VmAssumption
  <2>4. next.id # h
    <3>1. next.off \in Nat
      BY NextNode DEF NodeRef
    <3> QED
      BY <1>2, <2>3, <3>1 DEF StillFits
  <2>5. ASSUME NEW i \in 1..Len(f) PROVE ~Uses(bank, f[i], h)
    <3>1. NodeOf(bank, f[i].record).id # h
      <4>1. NodeOf(bank, f[i].record) \in NodeRef
        BY <1>1 DEF BankKept, FrameKept, CellOK, NodeOf
      <4> QED
        BY <1>2, <2>3, <4>1 DEF StillFits, NodeRef
    <3>2. h \notin InUse(f[i])
      BY <1>2, <1>8
    <3> QED
      BY <3>1, <3>2 DEF Uses, InUse
  <2> QED
    BY <1>4, <2>1, <2>2, <2>4, <2>5 DEF Exists
<1>9. CASE Exists(bank, h) /\ size # 0
  <2> DEFINE c == Resized(Contents(bank, h), size)
  <2>1. b = SetContents(bank, h, c)
    BY <1>9 DEF ResizedTo, ResizeOrCreate, Resize
  <2>2. c \in RegisterContents
    BY <1>5, <1>9, RegisterContentsOf, ResizedContents
  <2>3. /\ c.size = size
        /\ Need(Val(bank, h)) <= size => c.val = Val(bank, h)
    BY DEF Resized, Val
  <2> HIDE DEF c
  <2>4. ASSUME NEW i \in 1..Len(f)
        PROVE  /\ f[i].storage = h => ActSize <= c.size /\ c.val = Val(bank, h)
               /\ f[i].record.cell = h => RefSize <= c.size /\ c.val = Val(bank, h)
    <3>1. FrameKept(bank, f[i]) /\ f[i].record \in ActivationRecord
      BY <1>1, FrameTypes DEF BankKept
    <3>2. /\ f[i].storage = h => ActSize <= size
          /\ f[i].record.cell = h => RefSize <= size
      BY <1>2, VmAssumption DEF StillFits
    <3>3. f[i].storage = h => Need(Val(bank, h)) = ActSize
      BY <3>1 DEF FrameKept, Need
    <3>4. f[i].record.cell = h => Need(Val(bank, h)) = RefSize
      <4>1. f[i].record.cell = h => Val(bank, h) \in NodeRef
        BY <3>1 DEF FrameKept, CellOK
      <4>2. \A v \in NodeRef : v \notin ActivationRecord
        BY RecordsAreNoNodes
      <4> QED
        BY <4>1, <4>2 DEF Need
    <3> QED
      BY <2>3, <3>2, <3>3, <3>4
  <2>5. ASSUME NEW i \in 1..Len(f), NEW ref,
               \/ ref = NodeOf(bank, f[i].record)
               \/ ref # Null /\ ref = f[i].record.localResolver,
               ref.id = h
        PROVE  h \in Results(f) \/ ref.off + NodeSize <= c.size
    BY <1>2, <2>3, <2>5 DEF StillFits
  <2>6. next.id = h => next.off + NodeSize <= c.size
    BY <1>2, <2>3 DEF StillFits
  <2>7. /\ BankKept(SetContents(bank, h, c), f) /\ ReadOnlyKept(bank, SetContents(bank, h, c))
        /\ \A ref : /\ NodeOK(bank, ref)
                    /\ ref.id = h => h \in Results(f) \/ ref.off + NodeSize <= c.size
                    => Safe(SetContents(bank, h, c), f, ref)
    BY <1>1, <1>3, <1>9, <2>2, <2>4, <2>5, ContentsKeepBank
  <2> QED
    BY <2>1, <2>6, <2>7
<1> QED
  BY <1>6, <1>7, <1>8, <1>9

LEMMA ResizeRegisterKept ==
    ASSUME MachineOK, NEW m \in Loaded, ResizeRegister(m)
    PROVE  StepKept
<1>1. PICK next \in NodeRefs, h \in Targets, size \in Sizes \cup {0} :
          /\ CanBranch(m, next)
          /\ ResizeOK(m, h, size, next) /\ CanResizeOrCreate(bank, h, size)
          /\ Complete(m, ResizedTo(bank, h, size), next, NoPosition, NoPrefix)
  BY DEF ResizeRegister
<1> DEFINE b == ResizedTo(bank, h, size)
<1>2. h \in Id /\ size \in Nat /\ NodeOK(bank, next) /\ CanDecode(m)
  BY <1>1, VmAssumption DEF CanBranch
<1>3. /\ BankKept(b, activations) /\ ReadOnlyKept(bank, b)
      /\ Safe(b, activations, next)
  BY <1>1, <1>2, ResizeKeepsBank
<1>4. GoodBank(b)
  BY <1>1, <1>2, BankGood, GoodResizedTo DEF MachineOK
<1>5. Complete(m, b, next, NoPosition, NoPrefix)
  BY <1>1
<1> HIDE DEF b
<1> QED
  BY <1>2, <1>3, <1>4, <1>5, BranchFacts, CompleteKept

-----------------------------------------------------------------------------
(* The start. *)

\* The frame that the constructor makes of the host's i-th activation.
HostFrameAt(i) == [record |-> HostRecord(i), storage |-> HostStorage(i)]

(* The constructor leaves the registers of the host as they are and adds,  *)
(* for each activation, an empty result and the record.                    *)
LEMMA InitParts ==
    ASSUME Init
    PROVE  /\ Len(activations) = Len(HostFrames)
           /\ \A i \in 1..Len(HostFrames) :
                 /\ activations[i].record = HostRecord(i)
                 /\ activations[i].storage = HostStorage(i)
                 /\ HostStorage(i) \in DOMAIN bank.entries
                 /\ bank.entries[HostStorage(i)] =
                        [contents |-> Stored(HostRecord(i)), immutable |-> FALSE,
                         protected |-> FALSE]
                 /\ HostStorage(i) - 1 \in DOMAIN bank.entries
                 /\ bank.entries[HostStorage(i) - 1] =
                        [contents |-> Empty, immutable |-> FALSE, protected |-> FALSE]
           /\ \A h \in 0..(FirstId - 1) :
                 h \in DOMAIN bank.entries /\ bank.entries[h] = HostBank.entries[h]
           /\ current = HostStorage(Len(HostFrames))
           /\ owned = [h \in Id |-> IF \E i \in 1..Len(HostFrames) : h = HostStorage(i)
                                    THEN {h - 1, h} ELSE {}]
<1> DEFINE n == Len(HostFrames)
           frame(h) == (h - FirstId) \div 2 + 1
           made(h) == IF h = HostStorage(frame(h)) THEN Stored(HostRecord(frame(h)))
                      ELSE Empty
           entry(h) == IF h < FirstId THEN HostRegisters[h + 1]
                       ELSE [contents |-> made(h), immutable |-> FALSE,
                             protected |-> FALSE]
           ids == 0..(FirstId + 2 * n - 1)
<1>1. /\ bank = [entries |-> [h \in ids |-> entry(h)], next |-> FirstId + 2 * n]
      /\ current = HostStorage(n)
      /\ activations = [i \in 1..n |-> HostFrameAt(i)]
      /\ owned = [h \in Id |->
             IF \E i \in 1..n : h = HostStorage(i) THEN {h - 1, h} ELSE {}]
  BY DEF Init, HostFrameAt
<1>2. n \in Nat \ {0} /\ FirstId \in Nat
  BY HostTypes
<1> HIDE DEF n
<1>3. ASSUME NEW i \in 1..n
      PROVE  /\ HostStorage(i) \in ids /\ ~(HostStorage(i) < FirstId)
             /\ HostStorage(i) - 1 \in ids /\ ~(HostStorage(i) - 1 < FirstId)
             /\ frame(HostStorage(i)) = i /\ frame(HostStorage(i) - 1) = i
             /\ HostStorage(i) - 1 # HostStorage(i)
  BY <1>2 DEF HostStorage
<1>4. ASSUME NEW i \in 1..n
      PROVE  /\ entry(HostStorage(i)) =
                    [contents |-> Stored(HostRecord(i)), immutable |-> FALSE,
                     protected |-> FALSE]
             /\ entry(HostStorage(i) - 1) =
                    [contents |-> Empty, immutable |-> FALSE, protected |-> FALSE]
  BY <1>3
<1>5. ASSUME NEW h \in 0..(FirstId - 1)
      PROVE  h \in ids /\ entry(h) = HostBank.entries[h]
  BY <1>2 DEF HostBank
<1>6. DOMAIN bank.entries = ids /\ \A h \in ids : bank.entries[h] = entry(h)
  <2> HIDE DEF entry, ids
  <2> QED
    BY <1>1
<1> HIDE DEF entry, ids
<1>7. Len(activations) = n /\ \A i \in 1..n : activations[i].record = HostRecord(i)
                                              /\ activations[i].storage = HostStorage(i)
  BY <1>1, <1>2 DEF HostFrameAt
<1> QED
  BY <1>1, <1>3, <1>4, <1>5, <1>6, <1>7 DEF n

(* A host of HostOK starts the machine in a state of the invariant. *)
LEMMA InitKept ==
    ASSUME HostOK, Init
    PROVE  MachineOK
<1> DEFINE f == activations
           n == Len(HostFrames)
<1>1. /\ Inv /\ GoodBank(bank) /\ f \in Seq(Frame) /\ owned \in [Id -> SUBSET Id]
  BY InitType, BankGood DEF Inv, TypeOK
<1>2. /\ n \in Nat \ {0} /\ FirstId \in Nat
      /\ \A i \in 1..n : HostRecord(i) \in ActivationRecord /\ HostStorage(i) \in Id
  BY HostTypes
<1>3. /\ Len(f) = n
      /\ \A i \in 1..n :
            /\ f[i].record = HostRecord(i) /\ f[i].storage = HostStorage(i)
            /\ HostStorage(i) \in DOMAIN bank.entries
            /\ bank.entries[HostStorage(i)] =
                   [contents |-> Stored(HostRecord(i)), immutable |-> FALSE,
                    protected |-> FALSE]
            /\ HostStorage(i) - 1 \in DOMAIN bank.entries
            /\ bank.entries[HostStorage(i) - 1] =
                   [contents |-> Empty, immutable |-> FALSE, protected |-> FALSE]
      /\ \A h \in 0..(FirstId - 1) :
            h \in DOMAIN bank.entries /\ bank.entries[h] = HostBank.entries[h]
      /\ current = HostStorage(n)
      /\ owned = [h \in Id |-> IF \E i \in 1..n : h = HostStorage(i)
                               THEN {h - 1, h} ELSE {}]
  BY InitParts
<1> HIDE DEF n, f
<1>4. \A h : Exists(HostBank, h) => /\ h \in 0..(FirstId - 1) /\ Exists(bank, h)
                                    /\ bank.entries[h] = HostBank.entries[h]
  BY <1>3 DEF HostBank, Exists
<1>5. ASSUME NEW i \in 1..n
      PROVE  /\ HostRecord(i).procedure = HostFrames[i].procedure
             /\ HostRecord(i).position = HostFrames[i].position
             /\ HostRecord(i).cell = HostFrames[i].cell
             /\ HostRecord(i).localResolver = HostFrames[i].localResolver
             /\ HostRecord(i).previous = IF i = 1 THEN Null ELSE HostStorage(i - 1)
             /\ HostRecord(i).result = HostStorage(i) - 1
             /\ HostRecord(i).prefix = NoPrefix
  BY DEF HostRecord
<1>6. ASSUME NEW i \in 1..n
      PROVE  /\ Exists(HostBank, HostFrames[i].procedure)
             /\ IsImmutable(HostBank, HostFrames[i].procedure)
             /\ HostFrames[i].position <= Size(HostBank, HostFrames[i].procedure)
             /\ CellOK(HostBank, HostFrames[i]) /\ CellWritable(HostBank, HostFrames[i])
             /\ NodeOK(HostBank, NodeOf(HostBank, HostFrames[i]))
             /\ HostFrames[i].localResolver # Null =>
                    NodeOK(HostBank, HostFrames[i].localResolver)
  BY DEF HostOK, n
<1>7. \A ref : NodeOK(HostBank, ref) => Safe(bank, f, ref)
  BY <1>4 DEF NodeOK, Fits, Size, Contents, Safe
<1>8. ASSUME NEW i \in 1..n
      PROVE  /\ FrameKept(bank, f[i])
             /\ Safe(bank, f, NodeOf(bank, f[i].record))
             /\ f[i].record.localResolver # Null => Safe(bank, f, f[i].record.localResolver)
  <2> DEFINE record == HostRecord(i)
             host == HostFrames[i]
  <2>1. f[i].record = record /\ f[i].storage = HostStorage(i)
    BY <1>3
  <2>2. record.cell = host.cell /\ record.procedure = host.procedure
        /\ record.position = host.position /\ record.localResolver = host.localResolver
        /\ record.result = HostStorage(i) - 1
    BY <1>5
  <2>3. /\ Exists(HostBank, host.procedure) /\ IsImmutable(HostBank, host.procedure)
        /\ host.position <= Size(HostBank, host.procedure)
        /\ CellOK(HostBank, host) /\ CellWritable(HostBank, host)
        /\ NodeOK(HostBank, NodeOf(HostBank, host))
        /\ host.localResolver # Null => NodeOK(HostBank, host.localResolver)
    BY <1>6
  <2>4. /\ Exists(bank, host.procedure)
        /\ bank.entries[host.procedure] = HostBank.entries[host.procedure]
        /\ Exists(bank, host.cell) /\ Exists(HostBank, host.cell)
        /\ bank.entries[host.cell] = HostBank.entries[host.cell]
    BY <1>4, <2>3 DEF CellOK, Fits
  <2>5. CanChange(bank, HostStorage(i)) /\ ActSize <= Size(bank, HostStorage(i))
        /\ Val(bank, HostStorage(i)) = record
    <3> DEFINE h == HostStorage(i)
               c == Stored(record)
    <3>1. /\ h \in DOMAIN bank.entries
          /\ bank.entries[h] = [contents |-> c, immutable |-> FALSE, protected |-> FALSE]
      BY <1>3
    <3>2. c.size = ActSize /\ c.val = record
      BY DEF Stored
    <3> HIDE DEF h, c
    <3>3. CanChange(bank, h) /\ ActSize <= Size(bank, h) /\ Val(bank, h) = record
      BY <3>1, <3>2, VmAssumption DEF CanChange, Exists, Locked, Size, Val, Contents
    <3> QED
      BY <3>3 DEF h
  <2>6. CanChange(bank, HostStorage(i) - 1)
    <3> DEFINE h == HostStorage(i) - 1
    <3>1. /\ h \in DOMAIN bank.entries
          /\ bank.entries[h] = [contents |-> Empty, immutable |-> FALSE, protected |-> FALSE]
      BY <1>3
    <3> HIDE DEF h
    <3>2. CanChange(bank, h)
      BY <3>1 DEF CanChange, Exists, Locked
    <3> QED
      BY <3>2 DEF h
  <2> HIDE DEF record, host
  <2>7. CellOK(bank, record) /\ CellWritable(bank, record)
        /\ NodeOf(bank, record) = NodeOf(HostBank, host)
    BY <2>2, <2>3, <2>4 DEF CellOK, CellWritable, CanChange, Locked, Fits, Size, Val,
                            Contents, NodeOf
  <2>8. Exists(bank, record.procedure) /\ IsImmutable(bank, record.procedure)
        /\ record.position <= Size(bank, record.procedure)
    BY <2>2, <2>3, <2>4 DEF IsImmutable, Size, Contents
  <2>9. FrameKept(bank, f[i])
    BY <2>1, <2>2, <2>5, <2>6, <2>7, <2>8 DEF FrameKept
  <2> QED
    BY <1>7, <2>1, <2>2, <2>3, <2>7, <2>9
<1>9. BankKept(bank, f)
  BY <1>3, <1>8 DEF BankKept
<1>10. Len(f) = n /\ \A i \in 1..n :
          /\ f[i].storage = FirstId + 2 * i - 1
          /\ f[i].record.result = FirstId + 2 * i - 2
          /\ f[i].record.prefix = NoPrefix
          /\ f[i].record.previous = IF i = 1 THEN Null ELSE HostStorage(i - 1)
          /\ f[i].storage = HostStorage(i)
  <2>1. Len(f) = n /\ \A i \in 1..n : f[i].record = HostRecord(i)
                                       /\ f[i].storage = HostStorage(i)
    BY <1>3
  <2>2. \A i \in 1..n : HostStorage(i) = FirstId + 2 * i - 1
                        /\ HostStorage(i) - 1 = FirstId + 2 * i - 2
    BY <1>2 DEF HostStorage
  <2> QED
    BY <1>5, <2>1, <2>2
<1>11. ASSUME NEW i \in 1..n
       PROVE  f[i].record.cell < FirstId /\ f[i].record.cell \in Nat
  <2>1. f[i].record.cell = HostFrames[i].cell
    BY <1>3, <1>5
  <2>2. Exists(HostBank, HostFrames[i].cell)
    BY <1>6 DEF CellOK, Fits
  <2> QED
    BY <1>2, <1>4, <2>1, <2>2
<1>12. Linked(f, current)
  <2>1. f # <<>>
    BY <1>1, <1>2, <1>3
  <2>2. ASSUME NEW i \in 1..n
        PROVE  f[i].record.previous = IF i = 1 THEN Null ELSE f[i - 1].storage
    <3>1. i # 1 => i - 1 \in 1..n
      BY <1>2
    <3> QED
      BY <1>10, <3>1
  <2>3. ASSUME NEW i \in 1..n, NEW j \in 1..n, f[i].storage = f[j].storage
        PROVE  i = j
    BY <1>2, <1>10, <2>3
  <2>4. n \in 1..n
    BY <1>2
  <2> QED
    BY <1>3, <2>1, <2>2, <2>3, <2>4 DEF Linked
<1>13. ResultsApart(f)
  <2>1. ASSUME NEW i \in 1..n, NEW j \in 1..n
        PROVE  f[i].record.result \notin {f[j].storage, f[j].record.cell}
    <3>1. f[i].record.result = FirstId + 2 * i - 2 /\ f[j].storage = FirstId + 2 * j - 1
      BY <1>10
    <3> QED
      BY <1>2, <1>11, <3>1
  <2> QED
    BY <1>10, <2>1 DEF ResultsApart
<1>14. PrefixesOK(f)
  BY <1>10 DEF PrefixesOK, NoPrefix
<1>15. OwnedOK(f, owned)
  <2>1. ASSUME NEW i \in 1..n
        PROVE  owned[f[i].storage] = {f[i].record.result, f[i].storage}
    <3> DEFINE h == HostStorage(i)
    <3>1. f[i].storage = h /\ f[i].record = HostRecord(i)
      BY <1>3
    <3>2. f[i].record.result = h - 1
      BY <1>5, <3>1
    <3>3. h \in Id
      BY <1>2, <1>3
    <3>4. \E k \in 1..n : h = HostStorage(k)
      OBVIOUS
    <3> HIDE DEF h
    <3>5. owned[h] = {h - 1, h}
      BY <1>3, <3>3, <3>4
    <3> QED
      BY <3>1, <3>2, <3>5
  <2>2. ASSUME NEW i \in 1..n, NEW j \in 1..n, i # j
        PROVE  owned[f[i].storage] \cap owned[f[j].storage] = {}
    <3>1. /\ f[i].record.result = FirstId + 2 * i - 2 /\ f[i].storage = FirstId + 2 * i - 1
          /\ f[j].record.result = FirstId + 2 * j - 2 /\ f[j].storage = FirstId + 2 * j - 1
      BY <1>10
    <3>2. {f[i].record.result, f[i].storage} \cap {f[j].record.result, f[j].storage} = {}
      BY <1>2, <2>2, <3>1
    <3> QED
      BY <2>1, <3>2
  <2>3. ASSUME NEW h \in Id, owned[h] # {}
        PROVE  \E i \in 1..n : f[i].storage = h
    BY <1>3, <2>3
  <2>4. \A i \in 1..n : ~(i > Len(HostFrames))
    BY <1>2 DEF n
  <2>5. Len(f) = n
    BY <1>10
  <2>6. ASSUME NEW i \in 1..Len(f)
        PROVE  LET record == f[i].record
                   own == owned[f[i].storage]
               IN  /\ {f[i].storage, record.result} \subseteq own
                   /\ own \subseteq {f[i].storage, record.result, record.cell,
                                     record.procedure}
                   /\ \A j \in 1..Len(f) : i # j => own \cap owned[f[j].storage] = {}
                   /\ i > Len(HostFrames) /\ record.cell \notin own =>
                          record.cell = f[i - 1].record.cell
    <3>1. \A j \in 1..Len(f) : i # j => owned[f[i].storage] \cap owned[f[j].storage] = {}
      BY <2>2, <2>5
    <3>2. owned[f[i].storage] = {f[i].record.result, f[i].storage}
      BY <2>1, <2>5
    <3>3. ~(i > Len(HostFrames))
      BY <2>4, <2>5
    <3> QED
      BY <3>1, <3>2, <3>3
  <2> QED
    BY <2>3, <2>5, <2>6 DEF OwnedOK
<1> QED
  BY <1>1, <1>9, <1>12, <1>13, <1>14, <1>15 DEF MachineOK, MachineKept, FramesKept, f

-----------------------------------------------------------------------------
(* The theorems. *)

LEMMA NextKept ==
    ASSUME Disciplined, MachineOK, Next
    PROVE  StepKept
BY CallNodeKept, SwitchProcedureKept, SwitchNetworkKept, SwitchProcedureAndNetworkKept,
   FinishCallKept, SuppressedFinishKept, EffectFreeKept, PrefixKept, StoreDataKept,
   ReturnResultKept, ResizeRegisterKept DEF Next

LEMMA MachineStep ==
    ASSUME Disciplined, MachineOK, [Next]_vars
    PROVE  /\ MachineOK'
           /\ StepKept \/ UNCHANGED vars
<1>1. CASE Next
  BY <1>1, NextKept DEF StepKept
<1>2. CASE UNCHANGED vars
  BY <1>2 DEF MachineOK, Inv, TypeOK, NextIdFresh, vars
<1> QED
  BY <1>1, <1>2

(* The inductive invariant: a host of HostOK and a disciplined program     *)
(* keep everything an activation refers to.                                *)
THEOREM MachineInvariant ==
    ASSUME HostOK, Disciplined
    PROVE  Spec => []MachineOK
<1>1. Init => MachineOK
  BY InitKept
<1>2. MachineOK /\ [Next]_vars => MachineOK'
  BY MachineStep
<1> QED
  BY <1>1, <1>2, PTL DEF Spec

(* The records the machine follows are in their registers. *)
LEMMA RecordsInPlace ==
    ASSUME MachineOK
    PROVE  RecordsStored(bank, activations)
<1>1. activations \in Seq(Frame) /\ BankKept(bank, activations) /\ GoodBank(bank)
  BY BankGood DEF MachineOK, MachineKept, FramesKept
<1>2. \A i \in 1..Len(activations) : Size(bank, activations[i].storage) \in Nat
  BY <1>1, RegisterContentsOf DEF GoodBank, BankKept, FrameKept, CanChange
<1> QED
  BY <1>1, <1>2, VmAssumption DEF RecordsStored, BankKept, FrameKept, Fits, CanChange

(* The snapshot is the chain stored in the registers: no step of a         *)
(* disciplined program makes the one differ from the other, whichever      *)
(* activation a prefix names and whatever is resized, stored or returned.  *)
THEOREM SnapshotIsStored ==
    ASSUME HostOK, Disciplined
    PROVE  Spec => []SnapshotStored
<1>1. MachineOK => SnapshotStored
  <2> SUFFICES ASSUME MachineOK PROVE SnapshotStored
    OBVIOUS
  <2>1. activations \in Seq(Frame) /\ Linked(activations, current)
    BY DEF MachineOK, MachineKept, FramesKept
  <2> QED
    BY <2>1, RecordsInPlace, StoredChainFound DEF SnapshotStored
<1> QED
  BY <1>1, MachineInvariant, PTL

(* Whatever a program resizes, returns or calls, the record, the result,   *)
(* the state cell and the procedure of every active activation stay.       *)
THEOREM ReferencesStayLive ==
    ASSUME HostOK, Disciplined
    PROVE  Spec => []ActiveReferencesLive
<1>1. MachineOK => ActiveReferencesLive
  BY DEF MachineOK, MachineKept, BankKept, FrameKept, ActiveReferencesLive, ActiveRecord, Depth
<1> QED
  BY <1>1, MachineInvariant, PTL

(* The nodes that active networks and their resolvers stand at stay inside *)
(* their registers, those in a result register excepted.                   *)
THEOREM NodesStayInBounds ==
    ASSUME HostOK, Disciplined
    PROVE  Spec => []ActiveNodesInBounds
<1>1. MachineOK => ActiveNodesInBounds
  BY DEF MachineOK, MachineKept, BankKept, Safe, Results, ActiveNodesInBounds, ActiveRecord,
         Depth
<1> QED
  BY <1>1, MachineInvariant, PTL

(* Every register a call made is that call's alone until it returns, and   *)
(* is still there when it does.                                            *)
THEOREM OwnershipIsPartition ==
    ASSUME HostOK, Disciplined
    PROVE  Spec => []OwnershipPartition
<1>1. MachineOK => OwnershipPartition
  <2> SUFFICES ASSUME MachineOK PROVE OwnershipPartition
    OBVIOUS
  <2>1. \A i \in 1..Depth : owned[activations[i].storage] \subseteq DOMAIN bank.entries
    BY OwnedExist DEF MachineOK, Depth
  <2>2. OwnedOK(activations, owned)
    BY DEF MachineOK, MachineKept, FramesKept
  <2> QED
    BY <2>1, <2>2 DEF OwnedOK, OwnershipPartition, ActiveRecord, Depth
<1> QED
  BY <1>1, MachineInvariant, PTL

(* A position never leaves its own procedure, whichever activation's       *)
(* instructions moved it.                                                  *)
THEOREM PositionsStayInRange ==
    ASSUME HostOK, Disciplined
    PROVE  Spec => []PositionsInRange
<1>1. MachineOK => PositionsInRange
  BY DEF MachineOK, MachineKept, BankKept, FrameKept, PositionsInRange, ActiveRecord, Depth
<1> QED
  BY <1>1, MachineInvariant, PTL

(* A pending prefix names an activation that exists, also while its owner  *)
(* waits for the call of a call node.                                      *)
THEOREM PrefixTargetsStay ==
    ASSUME HostOK, Disciplined
    PROVE  Spec => []PrefixTargetsExist
<1>1. MachineOK => PrefixTargetsExist
  BY DEF MachineOK, MachineKept, FramesKept, PrefixesOK, PrefixTargetsExist, ActiveRecord, Depth
<1> QED
  BY <1>1, MachineInvariant, PTL

(* Only the running activation changes, and the position of the one that   *)
(* its prefix names.                                                       *)
THEOREM SuspendedStable ==
    ASSUME HostOK, Disciplined
    PROVE  Spec => SuspendedActivationsStable
<1>1. MachineOK /\ [Next]_vars => [PrefixReach]_vars
  BY MachineStep DEF StepKept
<1> QED
  BY <1>1, MachineInvariant, PTL DEF Spec, SuspendedActivationsStable

(* A prefix acts on one builtin and is gone. *)
THEOREM PrefixActsOnce ==
    ASSUME HostOK, Disciplined
    PROVE  Spec => PrefixConsumedOnce
<1>1. MachineOK /\ [Next]_vars => [PrefixSpent]_vars
  BY MachineStep DEF StepKept
<1> QED
  BY <1>1, MachineInvariant, PTL DEF Spec, PrefixConsumedOnce

\* What ProceduresKept says of a step.
ReadOnlyOrReturned ==
    \A h \in DOMAIN bank.entries :
        IsImmutable(bank, h) =>
            IF Exists(bank', h) THEN bank'.entries[h] = bank.entries[h]
            ELSE h \in owned[current] /\ Len(activations') < Depth

(* The code that runs cannot be changed or deleted: a read-only register   *)
(* keeps its contents until the call that made it returns.                 *)
THEOREM ReadOnlyCodeKept ==
    ASSUME HostOK, Disciplined
    PROVE  Spec => ProceduresKept
<1>1. ASSUME MachineOK, StepKept
      PROVE  ReadOnlyOrReturned
  <2>1. CASE Works \/ Enters
    BY <2>1 DEF Works, Enters, ReadOnlyKept, ReadOnlyOrReturned
  <2>2. CASE Returns
    <3>1. GoodBank(bank) /\ activations \in Seq(Frame)
      BY <1>1, BankGood DEF MachineOK, Inv, TypeOK
    <3>2. Len(activations') = Depth - 1 /\ Depth \in Nat
      BY <2>2, <3>1, CallersOf DEF Returns, Depth
    <3>3. /\ DOMAIN bank'.entries = DOMAIN bank.entries \ owned[current]
          /\ \A h \in DOMAIN bank.entries \ owned[current] :
                 bank'.entries[h] = bank.entries[h]
      BY <2>2, <3>1, DiscardedEntries DEF Returns
    <3> QED
      BY <3>2, <3>3 DEF ReadOnlyOrReturned, Exists
  <2> QED
    BY <1>1, <2>1, <2>2 DEF StepKept
<1>2. MachineOK /\ [Next]_vars => [ReadOnlyOrReturned]_vars
  BY <1>1, MachineStep
<1> QED
  BY <1>2, MachineInvariant, PTL DEF Spec, ProceduresKept, ReadOnlyOrReturned

-----------------------------------------------------------------------------
(* The machine implements CallStack. *)

\* The registers of each call, and all of them together.
OwnedStack == [i \in 1..Depth |-> owned[activations[i].storage]]
OwnedByCalls == UNION {owned[activations[i].storage] : i \in 1..Depth}

LEMMA CallsVariables ==
    ASSUME Depth \in Nat
    PROVE  Calls!OfCalls = OwnedByCalls
BY DEF Calls!OfCalls, OwnedByCalls

LEMMA OwnedByCallsExist ==
    ASSUME MachineOK
    PROVE  /\ OwnedByCalls \subseteq DOMAIN bank.entries
           /\ DOMAIN bank.entries \subseteq Handle
           /\ Depth \in Nat /\ activations \in Seq(Frame)
<1>1. \A i \in 1..Depth : owned[activations[i].storage] \subseteq DOMAIN bank.entries
  BY OwnedExist DEF MachineOK, Depth
<1>2. DOMAIN bank.entries \subseteq Handle
  BY BankGood DEF MachineOK, GoodBank, IsBank
<1>3. activations \in Seq(Frame) /\ Depth \in Nat
  BY DEF MachineOK, Inv, TypeOK, Depth
<1> QED
  BY <1>1, <1>2, <1>3 DEF OwnedByCalls

LEMMA CallsInit ==
    ASSUME HostOK, Init
    PROVE  Calls!Init
<1>1. MachineOK
  BY InitKept
<1>2. Depth \in Nat \ {0} /\ owned \in [Id -> SUBSET Id]
  BY <1>1, HostTypes, InitParts DEF Depth, MachineOK, Inv, TypeOK
<1>3. \A i \in 1..Depth : owned[activations[i].storage] \in SUBSET Handle
  BY <1>1, OwnedByCallsExist DEF OwnedByCalls
<1>4. OwnedStack \in Seq(SUBSET Handle) \ {<<>>}
  <2> DEFINE P == SUBSET Handle
  <2>1. \A i \in 1..Depth : owned[activations[i].storage] \in P
    BY <1>3
  <2> HIDE DEF P
  <2>2. OwnedStack \in Seq(P) /\ Len(OwnedStack) = Depth
    BY <1>2, <2>1 DEF OwnedStack
  <2> QED
    BY <1>2, <2>2 DEF P
<1>5. Calls!OfCalls = OwnedByCalls
  BY <1>2, CallsVariables
<1>6. DOMAIN bank.entries \ OwnedByCalls \in SUBSET (Handle \ OwnedByCalls)
  BY <1>1, OwnedByCallsExist
<1> QED
  BY <1>4, <1>5, <1>6 DEF Calls!Init, OwnedStack, OwnedByCalls

LEMMA WorksRefines ==
    ASSUME MachineOK, MachineOK', Depth > 0, Works
    PROVE  Calls!Work
<1>1. /\ Depth' = Depth /\ Depth \in Nat
      /\ \A i \in 1..Depth : owned'[activations'[i].storage] = owned[activations[i].storage]
  BY OwnedByCallsExist DEF Works, SameCalls, Depth
<1>2. OwnedStack' = OwnedStack /\ OwnedByCalls' = OwnedByCalls
  BY <1>1 DEF OwnedStack, OwnedByCalls
<1>3. DOMAIN bank'.entries \subseteq Handle
  <2>1. Inv'
    BY DEF MachineOK
  <2> QED
    BY <2>1 DEF Inv, TypeOK, IsBank
<1>4. OwnedStack # <<>>
  BY <1>1 DEF OwnedStack
<1>5. Calls!OfCalls = OwnedByCalls
  BY <1>1, CallsVariables
<1>6. DOMAIN bank'.entries \ OwnedByCalls' \in SUBSET (Handle \ OwnedByCalls)
  BY <1>2, <1>3
<1> QED
  BY <1>2, <1>4, <1>5, <1>6 DEF Calls!Work, OwnedStack, OwnedByCalls

LEMMA EntersRefines ==
    ASSUME MachineOK, MachineOK', Depth > 0, Enters
    PROVE  Calls!Call
<1> DEFINE storage == activations'[Depth + 1].storage
           made == owned'[storage]
<1>1. /\ Depth \in Nat /\ OwnedByCalls \subseteq DOMAIN bank.entries
      /\ owned \in [Id -> SUBSET Id] /\ activations' \in Seq(Frame)
      /\ activations \in Seq(Frame)
  BY OwnedByCallsExist DEF MachineOK, Inv, TypeOK
<1>2. /\ Depth' = Depth + 1
      /\ owned' = [owned EXCEPT ![storage] = made]
      /\ made # {} /\ made \cap DOMAIN bank.entries = {}
      /\ DOMAIN bank'.entries = DOMAIN bank.entries \cup made
      /\ \A i \in 1..Depth : activations[i].storage # storage
      /\ SameCalls(activations, SubSeq(activations', 1, Depth))
  BY DEF Enters, Depth
<1> HIDE DEF storage
<1>3. ASSUME NEW i \in 1..Depth
      PROVE  owned'[activations'[i].storage] = owned[activations[i].storage]
  <2>1. activations'[i].storage = activations[i].storage
    <3>1. SubSeq(activations', 1, Depth)[i] = activations'[i]
      BY <1>1
    <3> QED
      BY <1>2, <3>1 DEF SameCalls, Depth
  <2>2. activations[i].storage \in Id
    BY <1>1, FrameTypes DEF Depth
  <2> QED
    BY <1>1, <1>2, <2>1, <2>2
<1>4. owned'[activations'[Depth + 1].storage] = made
  BY DEF storage
<1> HIDE DEF made
<1>5. \A i \in 1..Depth' : i \in 1..Depth \/ i = Depth + 1
  BY <1>1, <1>2
<1>6. OwnedStack' = Append(OwnedStack, made)
  <2> DEFINE own(i) == owned[activations[i].storage]
             own2(i) == owned'[activations'[i].storage]
             s == [i \in 1..Depth |-> own(i)]
  <2>1. \A i \in 1..Depth : own2(i) = own(i)
    BY <1>3
  <2>2. own2(Depth + 1) = made
    BY <1>4
  <2> HIDE DEF own, own2
  <2>3. [i \in 1..(Depth + 1) |-> own2(i)] = Append(s, made)
    BY <1>1, <2>1, <2>2
  <2> QED
    BY <1>2, <2>3 DEF OwnedStack, own, own2
<1>7. OwnedByCalls' = OwnedByCalls \cup made
  <2> DEFINE own(i) == owned[activations[i].storage]
             own2(i) == owned'[activations'[i].storage]
  <2>1. \A i \in 1..Depth : own2(i) = own(i)
    BY <1>3
  <2>2. own2(Depth + 1) = made
    BY <1>4
  <2> HIDE DEF own, own2
  <2>3. UNION {own2(i) : i \in 1..(Depth + 1)} = (UNION {own(i) : i \in 1..Depth}) \cup made
    BY <1>1, <2>1, <2>2
  <2> QED
    BY <1>2, <2>3 DEF OwnedByCalls, own, own2
<1>8. made \subseteq Handle
  <2>1. Inv'
    BY DEF MachineOK
  <2> QED
    BY <1>2, <2>1 DEF Inv, TypeOK, IsBank
<1>9. made \cap (OwnedByCalls \cup (DOMAIN bank.entries \ OwnedByCalls)) = {}
  BY <1>1, <1>2
<1>10. made \in (SUBSET (Handle \ (OwnedByCalls \cup (DOMAIN bank.entries \ OwnedByCalls)))) \ {{}}
  BY <1>2, <1>8, <1>9
<1>11. DOMAIN bank'.entries \ OwnedByCalls' = DOMAIN bank.entries \ OwnedByCalls
  BY <1>2, <1>7
<1>12. Calls!OfCalls = OwnedByCalls /\ OwnedStack # <<>>
  BY <1>1, CallsVariables DEF OwnedStack
<1> QED
  BY <1>6, <1>10, <1>11, <1>12 DEF Calls!Call, OwnedStack, OwnedByCalls

LEMMA ReturnsRefines ==
    ASSUME MachineOK, Returns
    PROVE  Calls!Return
<1> DEFINE own == owned[current]
<1>1. /\ Depth \in Nat /\ OwnedByCalls \subseteq DOMAIN bank.entries
      /\ owned \in [Id -> SUBSET Id] /\ activations \in Seq(Frame)
      /\ GoodBank(bank) /\ Linked(activations, current)
  BY OwnedByCallsExist, BankGood DEF MachineOK, Inv, TypeOK, MachineKept, FramesKept
<1>2. /\ Depth > 0 /\ current = activations[Depth].storage
      /\ activations' = SubSeq(activations, 1, Depth - 1)
      /\ bank' = Discarded(bank, own)
      /\ owned' = [owned EXCEPT ![current] = {}]
  BY DEF Returns
<1>3. Depth' = Depth - 1 /\ \A i \in 1..(Depth - 1) : activations'[i] = activations[i]
  BY <1>1, <1>2, CallersOf DEF Depth
<1>4. ASSUME NEW i \in 1..(Depth - 1)
      PROVE  owned'[activations'[i].storage] = owned[activations[i].storage]
  <2>1. i \in 1..Len(activations) /\ Depth \in 1..Len(activations) /\ i # Depth
    BY <1>1, <1>2 DEF Depth
  <2>2. activations[i].storage \in Id /\ activations[i].storage # current
    BY <1>1, <1>2, <2>1, FrameTypes, ZenonT(40) DEF Linked
  <2> QED
    BY <1>1, <1>2, <1>3, <2>2
<1>5. owned[activations[Depth].storage] = own
  BY <1>2
<1>6. DOMAIN bank'.entries = DOMAIN bank.entries \ own
  BY <1>1, <1>2, DiscardedEntries
<1> HIDE DEF own
<1>7. OwnedStack' = SubSeq(OwnedStack, 1, Len(OwnedStack) - 1) /\ OwnedStack # <<>>
  <2> DEFINE o(i) == owned[activations[i].storage]
             o2(i) == owned'[activations'[i].storage]
             s == [i \in 1..Depth |-> o(i)]
  <2>1. \A i \in 1..(Depth - 1) : o2(i) = o(i)
    BY <1>4
  <2> HIDE DEF o, o2
  <2>2. Len(s) = Depth /\ s # <<>>
    BY <1>1, <1>2
  <2>3. [i \in 1..(Depth - 1) |-> o2(i)] = SubSeq(s, 1, Depth - 1)
    BY <1>1, <1>2, <2>1
  <2> QED
    BY <1>3, <2>2, <2>3 DEF OwnedStack, o, o2
<1>8. OwnedByCalls = OwnedByCalls' \cup own
  <2> DEFINE o(i) == owned[activations[i].storage]
             o2(i) == owned'[activations'[i].storage]
  <2>1. \A i \in 1..(Depth - 1) : o2(i) = o(i)
    BY <1>4
  <2>2. o(Depth) = own
    BY <1>5
  <2> HIDE DEF o, o2
  <2>3. \A i \in 1..Depth : i \in 1..(Depth - 1) \/ i = Depth
    BY <1>1
  <2>4. \A i \in 1..(Depth - 1) : i \in 1..Depth
    BY <1>1
  <2>5. Depth \in 1..Depth
    BY <1>1, <1>2
  <2>6. UNION {o(i) : i \in 1..Depth} = (UNION {o2(i) : i \in 1..(Depth - 1)}) \cup own
    BY <2>1, <2>2, <2>3, <2>4, <2>5
  <2> QED
    BY <1>3, <2>6 DEF OwnedByCalls, o, o2
<1>9. DOMAIN bank'.entries \ OwnedByCalls' = DOMAIN bank.entries \ OwnedByCalls
  BY <1>6, <1>8
<1> QED
  BY <1>7, <1>9 DEF Calls!Return, OwnedStack, OwnedByCalls

LEMMA CallsStep ==
    ASSUME Disciplined, MachineOK, [Next]_vars
    PROVE  [Calls!Next]_(Calls!vars)
<1>1. CASE UNCHANGED vars
  BY <1>1 DEF vars, Calls!vars, Depth
<1>2. CASE Next
  <2>1. MachineOK' /\ (Works \/ Enters \/ Returns)
    BY <1>2, NextKept DEF StepKept
  <2>2. Depth > 0
    <3>1. PICK m \in Loaded : TRUE
      BY <1>2 DEF Next
    <3> QED
      BY StepLocals DEF LocalsOK, Depth
  <2> QED
    BY <2>1, <2>2, WorksRefines, EntersRefines, ReturnsRefines DEF Calls!Next
<1> QED
  BY <1>1, <1>2

(* Calls and returns keep strictly to the stack, each call's registers are *)
(* nobody's before it and gone after it, and no command in between adds to *)
(* them or takes from them.                                                *)
THEOREM MachineImplementsCallStack ==
    ASSUME HostOK, Disciplined
    PROVE  Spec => ImplementsCallStack
<1>1. Init => Calls!Init
  BY CallsInit
<1>2. MachineOK /\ [Next]_vars => [Calls!Next]_(Calls!vars)
  BY CallsStep
<1> QED
  BY <1>1, <1>2, MachineInvariant, PTL DEF Spec, ImplementsCallStack, Calls!Spec
=============================================================================
