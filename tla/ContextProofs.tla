--------------------------- MODULE ContextProofs ----------------------------
(***************************************************************************)
(* The machine in a context of its own: when it asks a resolver and when   *)
(* it takes up the activation records it finds in its registers.           *)
(*                                                                         *)
(* What a query keeps, for every program, every network and every limit.   *)
(* A query is a machine on a stack of machines, so its invariant is said   *)
(* of each machine on the stack (GoodMachine) and of each machine and the  *)
(* one it answers (Answers).  None of MachineOK is available here: the     *)
(* state cells of the asker cannot be written to any more.                 *)
(*                                                                         *)
(* What reload_activations does with the records it meets, for every bound *)
(* and every program, disciplined or not: the loop finds the chain exactly *)
(* if the registers hold one, reads no record twice, and whatever chain it *)
(* has found, the step that follows keeps the host's own registers when it *)
(* calls or returns.                                                       *)
(***************************************************************************)
EXTENDS Resolver, ActivationChain, VmProofs

-----------------------------------------------------------------------------
(* Protected registers: no piece of a step changes or deletes one. *)

ProtectedSame(b, b2) ==
    \A h \in DOMAIN b.entries :
        b.entries[h].protected => Exists(b2, h) /\ b2.entries[h] = b.entries[h]

LEMMA ProtectedSameTransitive ==
    ASSUME NEW b, NEW b2, NEW b3, ProtectedSame(b, b2), ProtectedSame(b2, b3)
    PROVE  ProtectedSame(b, b3)
BY DEF ProtectedSame, Exists

LEMMA ProtectedCreate ==
    ASSUME NEW b, GoodBank(b), CanCreate(b),
           NEW c \in RegisterContents, NEW immutable \in BOOLEAN
    PROVE  ProtectedSame(b, Create(b, c, immutable))
<1> DEFINE b2 == Create(b, c, immutable)
<1>1. /\ DOMAIN b2.entries = DOMAIN b.entries \cup {b.next}
      /\ \A k \in DOMAIN b.entries : b2.entries[k] = b.entries[k]
  BY CreateKeeps, ZenonT(40)
<1> HIDE DEF b2
<1>2. ProtectedSame(b, b2)
  BY <1>1 DEF ProtectedSame, Exists
<1> QED
  BY <1>2 DEF b2

LEMMA ProtectedSetVal ==
    ASSUME NEW b, GoodBank(b), NEW h, CanChange(b, h), NEW v \in Value
    PROVE  ProtectedSame(b, SetVal(b, h, v))
<1>1. Exists(b, h) /\ ~b.entries[h].protected
  BY DEF CanChange, Locked
<1>2. /\ SameShape(b, SetVal(b, h, v))
      /\ \A k \in DOMAIN b.entries \ {h} : SetVal(b, h, v).entries[k] = b.entries[k]
  BY <1>1, SetValShape
<1> QED
  BY <1>1, <1>2 DEF ProtectedSame, SameShape, Exists

LEMMA ProtectedPersisted ==
    ASSUME NEW m, NEW b, NEW frames, CanPersist(m, b),
           \A i \in Touched(m) : frames[i].storage = m.frames[i].storage
    PROVE  ProtectedSame(b, Persisted(m, b, frames))
<1> SUFFICES ASSUME NEW h \in DOMAIN b.entries, b.entries[h].protected
             PROVE  /\ Exists(Persisted(m, b, frames), h)
                    /\ Persisted(m, b, frames).entries[h] = b.entries[h]
  BY DEF ProtectedSame
<1>1. \A i \in Touched(m) : frames[i].storage # h
  BY DEF CanPersist, CanChange, Locked
<1> HIDE DEF Touched
<1> QED
  BY <1>1 DEF Persisted, Exists

LEMMA ProtectedFinished ==
    ASSUME NEW m, LocalsOK(m), NEW b, GoodBank(b), NEW next \in NodeRef,
           CellWritable(b, Modified(m)), CanPersist(m, b),
           NEW frames, SameCalls(m.frames, frames)
    PROVE  ProtectedSame(b, Finished(m, b, next, frames))
<1> DEFINE b2 == SetVal(b, Modified(m).cell, next)
<1>1. CanChange(b, Modified(m).cell) /\ next \in Value
  BY DEF CellWritable, Value
<1>2. ProtectedSame(b, b2)
  BY <1>1, ProtectedSetVal
<1>3. SameShape(b, b2)
  BY <1>1, SetValShape DEF CanChange
<1> HIDE DEF b2
<1>4. CanPersist(m, b2)
  BY <1>3, SameShapeUses DEF CanPersist, CanChange
<1>5. \A i \in Touched(m) : frames[i].storage = m.frames[i].storage
  BY DEF SameCalls, Touched, LocalsOK
<1>6. ProtectedSame(b2, Persisted(m, b2, frames))
  BY <1>4, <1>5, ProtectedPersisted
<1> QED
  BY <1>2, <1>6, ProtectedSameTransitive DEF Finished, b2

LEMMA ProtectedEntered ==
    ASSUME NEW b, NEW f, NEW procedure, NEW entry, NEW ownsProcedure,
           Entered(b, f, procedure, entry, ownsProcedure)
    PROVE  ProtectedSame(b, bank')
BY DEF Entered, ProtectedSame, Exists

-----------------------------------------------------------------------------
(* The chain of activations in a query: every record is in its register    *)
(* and every state cell holds a node.  That no more is needed is due to    *)
(* finish_call, which looks at what the callers use before it deletes.     *)

ChainKept(b, f, c) ==
    /\ f \in Seq(Frame)
    /\ Linked(f, c)
    /\ RecordsStored(b, f)
    /\ \A i \in 1..Len(f) : CellOK(b, f[i].record)

(* A record is never kept in a state cell. *)
LEMMA ChainCells ==
    ASSUME NEW b, NEW f, NEW c, ChainKept(b, f, c),
           NEW i \in 1..Len(f), NEW j \in 1..Len(f)
    PROVE  /\ f[i].storage # f[j].record.cell
           /\ f[i].storage \in DOMAIN b.entries /\ f[j].record.cell \in DOMAIN b.entries
<1>1. f[i].record \in ActivationRecord
  BY FrameTypes DEF ChainKept
<1>2. Val(b, f[i].storage) = f[i].record /\ Val(b, f[j].record.cell) \in NodeRef
  BY DEF ChainKept, RecordsStored, CellOK
<1> QED
  BY <1>1, <1>2, RecordsAreNoNodes DEF ChainKept, RecordsStored, CellOK, Fits, Exists

(* What is in other registers does not matter. *)
LEMMA ChainSame ==
    ASSUME NEW b, NEW f, NEW c, ChainKept(b, f, c), NEW b2,
           \A i \in 1..Len(f) : \A h \in {f[i].storage, f[i].record.cell} :
               Exists(b2, h) /\ Contents(b2, h) = Contents(b, h)
    PROVE  ChainKept(b2, f, c)
<1>1. ASSUME NEW i \in 1..Len(f)
      PROVE  /\ Fits(b2, f[i].storage, 0, ActSize) /\ Val(b2, f[i].storage) = f[i].record
             /\ CellOK(b2, f[i].record)
  BY DEF ChainKept, RecordsStored, CellOK, Fits, Size, Val
<1> QED
  BY <1>1 DEF ChainKept, RecordsStored

(* The start of a chain is a chain. *)
LEMMA ChainBelow ==
    ASSUME NEW b, NEW f, NEW c, ChainKept(b, f, c), NEW n \in 1..Len(f)
    PROVE  /\ ChainKept(b, SubSeq(f, 1, n), f[n].storage)
           /\ SubSeq(f, 1, n) \in Seq(Frame) /\ Len(SubSeq(f, 1, n)) = n
           /\ \A i \in 1..n : SubSeq(f, 1, n)[i] = f[i]
<1> DEFINE g == SubSeq(f, 1, n)
<1>1. f \in Seq(Frame) /\ n \in Nat \ {0} /\ n <= Len(f) /\ Len(f) \in Nat
  BY DEF ChainKept
<1>2. g \in Seq(Frame) /\ Len(g) = n /\ \A i \in 1..n : g[i] = f[i]
  <2> DEFINE F == Frame
  <2>1. f \in Seq(F)
    BY <1>1
  <2> HIDE DEF F
  <2>2. SubSeq(f, 1, n) \in Seq(F) /\ Len(SubSeq(f, 1, n)) = n
        /\ \A i \in 1..n : SubSeq(f, 1, n)[i] = f[i]
    BY <1>1, <2>1
  <2> QED
    BY <2>2 DEF F
<1> HIDE DEF g
<1>3. \A i \in 1..n : i \in 1..Len(f) /\ (i # 1 => i - 1 \in 1..n)
  BY <1>1
<1>4. Linked(g, f[n].storage)
  <2>1. n \in 1..n /\ g # <<>>
    BY <1>1, <1>2
  <2>2. Linked(f, c)
    BY DEF ChainKept
  <2>3. \A i \in 1..n : g[i].record.previous = IF i = 1 THEN Null ELSE g[i - 1].storage
    BY <1>2, <1>3, <2>2 DEF Linked
  <2>4. \A i, j \in 1..n : g[i].storage = g[j].storage => i = j
    BY <1>2, <1>3, <2>2, ZenonT(40) DEF Linked
  <2> QED
    BY <1>2, <2>1, <2>3, <2>4 DEF Linked
<1>5. RecordsStored(b, g) /\ \A i \in 1..n : CellOK(b, g[i].record)
  BY <1>2, <1>3 DEF ChainKept, RecordsStored
<1>6. ChainKept(b, g, f[n].storage)
  BY <1>2, <1>4, <1>5 DEF ChainKept
<1> QED
  BY <1>2, <1>6 DEF g

(* Writes of records into their registers and of nodes into state cells.   *)
LEMMA ChainWrites ==
    ASSUME NEW b, NEW f, NEW c, ChainKept(b, f, c), NEW b2, SameShape(b, b2),
           NEW g, SameCalls(f, g),
           \A i \in 1..Len(f) : /\ Val(b2, f[i].storage) = g[i].record
                                /\ Val(b2, f[i].record.cell) \in NodeRef
    PROVE  ChainKept(b2, g, c)
<1>1. f \in Seq(Frame) /\ g \in Seq(Frame) /\ Len(g) = Len(f)
  BY DEF ChainKept, SameCalls
<1>2. Linked(g, c)
  BY <1>1, SameCallsLinked DEF ChainKept
<1>3. ASSUME NEW i \in 1..Len(g)
      PROVE  /\ Fits(b2, g[i].storage, 0, ActSize) /\ Val(b2, g[i].storage) = g[i].record
             /\ CellOK(b2, g[i].record)
  <2>1. i \in 1..Len(f)
    BY <1>1
  <2>2. g[i].storage = f[i].storage /\ g[i].record.cell = f[i].record.cell
    BY <2>1 DEF SameCalls
  <2>3. Fits(b, f[i].storage, 0, ActSize) /\ Fits(b, f[i].record.cell, 0, RefSize)
    BY <2>1 DEF ChainKept, RecordsStored, CellOK
  <2>4. Fits(b2, f[i].storage, 0, ActSize) /\ Fits(b2, f[i].record.cell, 0, RefSize)
    BY <2>3, SameShapeUses
  <2> QED
    BY <2>1, <2>2, <2>4 DEF CellOK
<1> QED
  BY <1>1, <1>2, <1>3 DEF ChainKept, RecordsStored

(* A state cell of the chain moves on. *)
LEMMA ChainMoves ==
    ASSUME NEW b, GoodBank(b), NEW f, NEW c, ChainKept(b, f, c),
           NEW i \in 1..Len(f), NEW next \in NodeRef
    PROVE  ChainKept(SetVal(b, f[i].record.cell, next), f, c)
<1> DEFINE cell == f[i].record.cell
           b2 == SetVal(b, cell, next)
<1>1. Exists(b, cell) /\ next \in Value
  BY ChainCells DEF Exists, Value
<1>2. /\ SameShape(b, b2) /\ Val(b2, cell) = next
      /\ \A k \in DOMAIN b.entries \ {cell} : b2.entries[k] = b.entries[k]
  BY <1>1, SetValShape
<1>3. f \in Seq(Frame) /\ SameCalls(f, f)
  BY DEF ChainKept, SameCalls
<1> HIDE DEF b2, cell
<1>4. ASSUME NEW j \in 1..Len(f)
      PROVE  Val(b2, f[j].storage) = f[j].record /\ Val(b2, f[j].record.cell) \in NodeRef
  <2>1. /\ f[j].storage # cell
        /\ f[j].storage \in DOMAIN b.entries /\ f[j].record.cell \in DOMAIN b.entries
    BY ChainCells DEF cell
  <2>2. Val(b, f[j].storage) = f[j].record /\ Val(b, f[j].record.cell) \in NodeRef
    BY DEF ChainKept, RecordsStored, CellOK
  <2>3. Val(b2, f[j].storage) = f[j].record
    BY <1>2, <2>1, <2>2 DEF Val, Contents
  <2>4. CASE f[j].record.cell = cell
    BY <1>2, <2>3, <2>4
  <2>5. CASE f[j].record.cell # cell
    BY <1>2, <2>1, <2>2, <2>3, <2>5 DEF Val, Contents
  <2> QED
    BY <2>4, <2>5
<1>5. ChainKept(b2, f, c)
  BY <1>2, <1>3, <1>4, ChainWrites
<1> QED
  BY <1>5 DEF b2, cell

(* The records a builtin touched are written back. *)
LEMMA ChainPersisted ==
    ASSUME NEW m, LocalsOK(m), NEW b, GoodBank(b), NEW c, ChainKept(b, m.frames, c),
           NEW explicit \in Nat \cup {Null}, NEW prefix \in Prefix
    PROVE  LET g == Advanced(m, explicit, prefix)
           IN  ChainKept(Persisted(m, b, g), g, c)
<1> DEFINE f == m.frames
           g == Advanced(m, explicit, prefix)
           b2 == Persisted(m, b, g)
<1>1. /\ SameCalls(f, g) /\ g \in Seq(Frame) /\ Len(g) = m.top /\ Len(f) = m.top
      /\ \A i \in 1..m.top : i \notin Touched(m) => g[i] = f[i]
  BY AdvancedFrames, AdvancedType, SMTT(30) DEF LocalsOK
<1> HIDE DEF g
<1>2. \A i, j \in 1..m.top : g[i].storage = g[j].storage => i = j
  BY <1>1 DEF SameCalls, ChainKept, Linked
<1>3. /\ SameShape(b, b2)
      /\ \A i \in Touched(m) : Exists(b, g[i].storage) =>
             Val(b2, g[i].storage) = g[i].record
      /\ \A h \in DOMAIN b.entries :
             (\A i \in Touched(m) : g[i].storage # h) => b2.entries[h] = b.entries[h]
  BY <1>1, <1>2, PersistedShape
<1>4. Touched(m) \subseteq 1..m.top /\ \A i \in 1..m.top : g[i].storage = f[i].storage
  BY <1>1 DEF Touched, LocalsOK, SameCalls
<1> HIDE DEF b2
<1>5. ASSUME NEW i \in 1..Len(f)
      PROVE  Val(b2, f[i].storage) = g[i].record /\ Val(b2, f[i].record.cell) \in NodeRef
  <2>1. \A j \in 1..Len(f) : f[j].storage # f[i].record.cell
    BY ChainCells
  <2>2. f[i].storage \in DOMAIN b.entries /\ f[i].record.cell \in DOMAIN b.entries
    BY ChainCells
  <2>3. Val(b, f[i].storage) = f[i].record /\ Val(b, f[i].record.cell) \in NodeRef
    BY DEF ChainKept, RecordsStored, CellOK
  <2>4. b2.entries[f[i].record.cell] = b.entries[f[i].record.cell]
    BY <1>1, <1>3, <1>4, <2>1, <2>2
  <2>5. CASE i \in Touched(m)
    BY <1>3, <1>4, <2>2, <2>3, <2>4, <2>5 DEF Val, Contents, Exists
  <2>6. CASE i \notin Touched(m)
    <3>1. \A j \in Touched(m) : g[j].storage # f[i].storage
      BY <1>1, <1>2, <1>4, <2>6
    <3> QED
      BY <1>1, <1>3, <2>2, <2>3, <2>4, <2>6, <3>1 DEF Val, Contents
  <2> QED
    BY <2>5, <2>6
<1>6. ChainKept(b2, g, c)
  BY <1>1, <1>3, <1>5, ChainWrites
<1> QED
  BY <1>6 DEF b2, g

(* A builtin moves a state cell on and writes the records it touched.      *)
LEMMA ChainFinished ==
    ASSUME NEW m, LocalsOK(m), NEW b, GoodBank(b), NEW c, ChainKept(b, m.frames, c),
           NEW next \in NodeRef, NEW explicit \in Nat \cup {Null}, NEW prefix \in Prefix
    PROVE  LET g == Advanced(m, explicit, prefix)
           IN  ChainKept(Finished(m, b, next, g), g, c)
<1> DEFINE b2 == SetVal(b, Modified(m).cell, next)
<1>1. m.modify \in 1..Len(m.frames) /\ Modified(m) = m.frames[m.modify].record
  BY DEF LocalsOK, Modified, Record
<1>2. ChainKept(b2, m.frames, c)
  BY <1>1, ChainMoves
<1>3. GoodBank(b2)
  <2>1. Exists(b, Modified(m).cell) /\ next \in Value
    BY <1>1, ChainCells DEF Exists, Value
  <2> QED
    BY <2>1, GoodSetVal
<1> HIDE DEF b2
<1> QED
  BY <1>2, <1>3, ChainPersisted DEF Finished, b2

(* A call adds a record and, in a network of its own, a state cell. *)
LEMMA ChainEntered ==
    ASSUME NEW b, NEW f, NEW c, ChainKept(b, f, c), f # <<>>, NEW procedure,
           NEW entry \in NodeRef \cup {Null}, NEW ownsProcedure, GoodBank(bank'),
           Entered(b, f, procedure, entry, ownsProcedure)
    PROVE  /\ ChainKept(bank', activations', current')
           /\ Len(activations') = Len(f) + 1
           /\ \A i \in 1..Len(f) : activations'[i] = f[i]
<1> DEFINE n == Len(f)
           frame == activations'[n + 1]
           record == frame.record
           newCell == entry # NoEntry
           g == activations'
<1>1. /\ g = Append(f, frame) /\ frame \in Frame /\ current' = frame.storage
      /\ record.previous = f[n].storage
      /\ ~newCell => record.cell = f[n].record.cell
      /\ frame.storage \notin DOMAIN b.entries
      /\ frame.storage \in DOMAIN bank'.entries
      /\ newCell => record.cell \in DOMAIN bank'.entries
      /\ \A h \in DOMAIN b.entries : h \in DOMAIN bank'.entries /\ bank'.entries[h] = b.entries[h]
      /\ bank'.entries[frame.storage] =
             [contents |-> Stored(record), immutable |-> FALSE, protected |-> FALSE]
      /\ newCell => bank'.entries[record.cell] =
             [contents |-> Cell(entry), immutable |-> FALSE, protected |-> FALSE]
  BY DEF Entered
<1>2. f \in Seq(Frame) /\ n \in Nat \ {0} /\ n \in 1..n
  BY DEF ChainKept
<1> HIDE DEF n, frame, newCell
<1>3. Len(g) = n + 1 /\ g[n + 1] = frame /\ \A i \in 1..n : g[i] = f[i]
  <2>1. n = Len(f)
    BY DEF n
  <2> QED
    BY <1>1, <1>2, <2>1
<1>4. g \in Seq(Frame)
  BY <1>1, <1>2
<1> HIDE DEF g
<1>5. \A i \in 1..n : f[i].storage \in DOMAIN b.entries /\ f[i].record.cell \in DOMAIN b.entries
  BY ChainCells DEF n
<1>6. \A i \in 1..(n + 1) : i \in 1..n \/ i = n + 1
  BY <1>2
<1>7. Linked(g, current')
  <2>1. Linked(f, c)
    BY DEF ChainKept
  <2>2. current' = IF g = <<>> THEN Null ELSE g[Len(g)].storage
    BY <1>1, <1>2, <1>3, <1>4
  <2>3. ASSUME NEW i \in 1..(n + 1)
        PROVE  g[i].record.previous = IF i = 1 THEN Null ELSE g[i - 1].storage
    <3>1. CASE i = n + 1
      BY <1>1, <1>2, <1>3, <3>1
    <3>2. CASE i \in 1..n
      <4>1. i # 1 => i - 1 \in 1..n
        BY <1>2, <3>2
      <4> QED
        BY <1>3, <2>1, <3>2, <4>1 DEF Linked, n
    <3> QED
      BY <1>6, <3>1, <3>2
  <2>4. ASSUME NEW i \in 1..(n + 1), NEW j \in 1..(n + 1), g[i].storage = g[j].storage
        PROVE  i = j
    <3>1. CASE i \in 1..n /\ j \in 1..n
      BY <1>3, <2>1, <2>4, <3>1 DEF Linked, n
    <3>2. CASE i = n + 1 /\ j \in 1..n
      BY <1>1, <1>3, <1>5, <2>4, <3>2
    <3>3. CASE j = n + 1 /\ i \in 1..n
      BY <1>1, <1>3, <1>5, <2>4, <3>3
    <3> QED
      BY <1>6, <3>1, <3>2, <3>3
  <2> QED
    BY <1>3, <2>2, <2>3, <2>4 DEF Linked
<1>8. ASSUME NEW i \in 1..n
      PROVE  /\ Fits(bank', f[i].storage, 0, ActSize) /\ Val(bank', f[i].storage) = f[i].record
             /\ CellOK(bank', f[i].record)
  <2>1. ASSUME NEW j \in 1..Len(f), NEW h \in {f[j].storage, f[j].record.cell}
        PROVE  Exists(bank', h) /\ Contents(bank', h) = Contents(b, h)
    BY <1>1, <1>5 DEF Exists, Contents, n
  <2>2. ChainKept(bank', f, c)
    BY <2>1, ChainSame
  <2> QED
    BY <2>2 DEF ChainKept, RecordsStored, n
<1>9. /\ Fits(bank', frame.storage, 0, ActSize) /\ Val(bank', frame.storage) = record
  <2>1. Size(bank', frame.storage) = ActSize /\ Val(bank', frame.storage) = record
    BY <1>1 DEF Size, Val, Contents, Stored
  <2> QED
    BY <1>1, <2>1, VmAssumption DEF Fits, Exists
<1>10. CellOK(bank', record)
  <2>1. CASE newCell
    <3>1. Size(bank', record.cell) = RefSize /\ Val(bank', record.cell) = entry
      BY <1>1, <2>1 DEF Size, Val, Contents, Cell
    <3>2. entry \in NodeRef
      BY <2>1 DEF newCell, NoEntry
    <3> QED
      BY <1>1, <2>1, <3>1, <3>2, VmAssumption DEF CellOK, Fits, Exists
  <2>2. CASE ~newCell
    BY <1>1, <1>2, <1>8, <2>2 DEF CellOK
  <2> QED
    BY <2>1, <2>2
<1>11. RecordsStored(bank', g) /\ \A i \in 1..Len(g) : CellOK(bank', g[i].record)
  BY <1>3, <1>6, <1>8, <1>9, <1>10 DEF RecordsStored
<1> QED
  BY <1>3, <1>4, <1>7, <1>11 DEF ChainKept, g, n

(* The state of the query's own machine, as a step finds it. *)
LEMMA QueryLocals ==
    ASSUME Inv, ChainKept(bank, activations, current), NEW m \in Loaded
    PROVE  /\ LocalsOK(m) /\ m.frames = activations /\ m.top = Len(activations)
           /\ current = activations[m.top].storage
           /\ m.top \in Nat \ {0} /\ m.top \in 1..m.top
<1>1. LocalsOK(m)
  BY LoadedType DEF Inv
<1>2. m = Locals(activations) /\ activations # <<>>
  BY LoadedFrames DEF ChainKept
<1>3. m.frames = activations /\ m.top = Len(activations)
  BY <1>2 DEF Locals
<1> QED
  BY <1>1, <1>2, <1>3 DEF LocalsOK, ChainKept, Linked

-----------------------------------------------------------------------------
(* The commands of a query. *)

\* Activations whose records are protected are as they were.
ProtectedFramesSame ==
    \A i \in 1..Len(activations) :
        i <= Len(activations') /\ bank.entries[activations[i].storage].protected =>
            activations'[i] = activations[i]

QueryStepKept ==
    /\ Inv'
    /\ ProtectedSame(bank, bank')
    /\ ChainKept(bank, activations, current) =>
           ChainKept(bank', activations', current') /\ ProtectedFramesSame

(* An activation that a builtin moves is one whose record it may write. *)
LEMMA AdvancedProtected ==
    ASSUME NEW m, LocalsOK(m), m.frames = activations, NEW b, CanPersist(m, b),
           \A h \in DOMAIN bank.entries : b.entries[h] = bank.entries[h],
           NEW explicit \in Nat \cup {Null}, NEW prefix \in Prefix,
           NEW i \in 1..m.top, activations[i].storage \in DOMAIN bank.entries,
           bank.entries[activations[i].storage].protected
    PROVE  Advanced(m, explicit, prefix)[i] = activations[i]
<1>1. b.entries[activations[i].storage].protected
  OBVIOUS
<1>2. i \notin Touched(m)
  BY <1>1 DEF CanPersist, CanChange, Locked
<1> DEFINE g == Advanced(m, explicit, prefix)
<1>3. \A j \in 1..m.top : j \notin Touched(m) => g[j] = m.frames[j]
  BY AdvancedFrames
<1> HIDE DEF g
<1>4. g[i] = activations[i]
  BY <1>2, <1>3
<1> QED
  BY <1>4 DEF g

LEMMA CompleteStep ==
    ASSUME Inv, NEW m \in Loaded, NEW next \in NodeRefs,
           NEW explicit \in Nat \cup {Null}, NEW prefix \in Prefix,
           Complete(m, bank, next, explicit, prefix)
    PROVE  QueryStepKept
<1> DEFINE g == Advanced(m, explicit, prefix)
<1>1. LocalsOK(m) /\ next \in NodeRef /\ GoodBank(bank)
  BY LoadedType, NextNode, BankGood DEF Inv
<1>2. /\ activations' = g /\ bank' = Finished(m, bank, next, g) /\ current' = current
      /\ CellWritable(bank, Modified(m)) /\ CanPersist(m, bank)
  BY DEF Complete, CanFinish
<1>3. Inv'
  BY <1>1, CompleteType
<1>4. SameCalls(m.frames, g)
  BY <1>1, AdvancedFrames
<1>5. ProtectedSame(bank, bank')
  <2> HIDE DEF g
  <2> QED
    BY <1>1, <1>2, <1>4, ProtectedFinished
<1>6. ASSUME ChainKept(bank, activations, current)
      PROVE  ChainKept(bank', activations', current') /\ ProtectedFramesSame
  <2>1. m.frames = activations /\ m.top = Len(activations)
    BY <1>6, QueryLocals
  <2>2. ChainKept(bank, m.frames, current)
    BY <1>6, <2>1
  <2>3. ChainKept(Finished(m, bank, next, g), g, current)
    BY <1>1, <2>2, ChainFinished
  <2>4. ASSUME NEW i \in 1..Len(activations),
               bank.entries[activations[i].storage].protected
        PROVE  g[i] = activations[i]
    <3>1. activations[i].storage \in DOMAIN bank.entries
      BY <1>6, ChainCells
    <3>2. i \in 1..m.top /\ CanPersist(m, bank) /\ m.frames = activations
          /\ bank.entries[activations[i].storage].protected
      BY <1>2, <2>1, <2>4
    <3> HIDE DEF g
    <3>3. Advanced(m, explicit, prefix)[i] = activations[i]
      BY <1>1, <3>1, <3>2, AdvancedProtected
    <3> QED
      BY <3>3 DEF g
  <2> HIDE DEF g
  <2>5. ProtectedFramesSame
    BY <1>2, <2>4 DEF ProtectedFramesSame
  <2> QED
    BY <1>2, <2>3, <2>5
<1> QED
  BY <1>3, <1>5, <1>6 DEF QueryStepKept

LEMMA CompleteAndCallStep ==
    ASSUME Inv, NEW m \in Loaded, NEW b, GoodBank(b),
           \A h \in DOMAIN bank.entries : Exists(b, h) /\ b.entries[h] = bank.entries[h],
           NEW next \in NodeRefs, NEW procedure \in Id, NEW entry \in NodeRef \cup {Null},
           NEW ownsProcedure \in BOOLEAN,
           CompleteAndCall(m, b, next, procedure, entry, ownsProcedure)
    PROVE  QueryStepKept
<1> DEFINE g == Advanced(m, NoPosition, NoPrefix)
           b2 == Finished(m, b, next, g)
<1>1. LocalsOK(m) /\ next \in NodeRef
      /\ NoPosition \in Nat \cup {Null} /\ NoPrefix \in Prefix
  BY LoadedType, NextNode, NoPrefixType DEF Inv, NoPosition
<1>2. /\ EnterCall(b2, g, procedure, entry, ownsProcedure)
      /\ CellWritable(b, Modified(m)) /\ CanPersist(m, b)
  BY DEF CompleteAndCall, CanFinish
<1>3. Inv' /\ GoodBank(bank')
  <2>1. Inv'
    BY CompleteAndCallType
  <2> QED
    BY <2>1 DEF Inv, TypeOK, NextIdFresh, GoodBank
<1>4. /\ SameCalls(m.frames, g) /\ g \in Seq(Frame) /\ Len(g) = m.top /\ g # <<>>
  BY <1>1, AdvancedFrames, AdvancedType
<1>5. GoodBank(b2) /\ ProtectedSame(b, b2)
  <2> HIDE DEF g
  <2> QED
    BY <1>1, <1>2, <1>4, ProtectedFinished, GoodFinished
<1> HIDE DEF b2
<1>6. Entered(b2, g, procedure, entry, ownsProcedure)
  <2> HIDE DEF g
  <2> QED
    BY <1>2, <1>4, <1>5, EnterCallParts
<1>7. ProtectedSame(bank, bank')
  <2>1. ProtectedSame(bank, b)
    BY DEF ProtectedSame
  <2>2. ProtectedSame(b2, bank')
    BY <1>6, ProtectedEntered
  <2> QED
    BY <1>5, <2>1, <2>2, ProtectedSameTransitive
<1>8. ASSUME ChainKept(bank, activations, current)
      PROVE  ChainKept(bank', activations', current') /\ ProtectedFramesSame
  <2>1. m.frames = activations /\ m.top = Len(activations)
    BY <1>8, QueryLocals
  <2>2. ASSUME NEW i \in 1..Len(activations),
               NEW h \in {activations[i].storage, activations[i].record.cell}
        PROVE  Exists(b, h) /\ Contents(b, h) = Contents(bank, h)
    BY <1>8, ChainCells DEF Contents
  <2>3. ChainKept(b, m.frames, current)
    <3>1. ChainKept(b, activations, current)
      BY <1>8, <2>2, ChainSame
    <3> QED
      BY <2>1, <3>1
  <2>4. ChainKept(b2, g, current)
    BY <1>1, <2>3, ChainFinished DEF b2
  <2>5. ASSUME NEW i \in 1..Len(activations),
               bank.entries[activations[i].storage].protected
        PROVE  g[i] = activations[i]
    <3>1. activations[i].storage \in DOMAIN bank.entries
      BY <1>8, ChainCells
    <3> QED
      BY <1>1, <1>2, <2>1, <2>5, <3>1, AdvancedProtected
  <2> HIDE DEF g
  <2>6. /\ ChainKept(bank', activations', current')
        /\ \A i \in 1..Len(g) : activations'[i] = g[i]
    BY <1>3, <1>4, <1>6, <2>4, ChainEntered
  <2>7. ProtectedFramesSame
    BY <1>4, <2>1, <2>5, <2>6 DEF ProtectedFramesSame
  <2> QED
    BY <2>6, <2>7
<1> QED
  BY <1>3, <1>7, <1>8 DEF QueryStepKept

LEMMA CallNodeStep ==
    ASSUME Inv, NEW m \in Loaded, CallNode(m)
    PROVE  QueryStepKept
<1>1. PICK next \in NodeRefs, entry \in NodeRefs, procedure \in Id :
          /\ CanChange(bank, Owner(m).cell)
          /\ EnterCall(SetVal(bank, Owner(m).cell, next), m.frames, procedure, entry, FALSE)
  BY DEF CallNode
<1> DEFINE cell == Owner(m).cell
           b == SetVal(bank, cell, next)
<1>2. /\ LocalsOK(m) /\ GoodBank(bank) /\ next \in NodeRef /\ next \in Value
      /\ entry \in NodeRef \cup {Null} /\ FALSE \in BOOLEAN /\ Exists(bank, cell)
  BY <1>1, LoadedType, NextNode, BankGood DEF Inv, Value, CanChange
<1>3. Inv' /\ GoodBank(bank')
  <2>1. Inv'
    BY CallNodeType
  <2> QED
    BY <2>1 DEF Inv, TypeOK, NextIdFresh, GoodBank
<1>4. m.frames \in Seq(Frame) /\ m.frames # <<>>
  BY <1>2 DEF LocalsOK
<1>5. GoodBank(b) /\ ProtectedSame(bank, b)
  BY <1>1, <1>2, GoodSetVal, ProtectedSetVal
<1>6. EnterCall(b, m.frames, procedure, entry, FALSE)
  BY <1>1
<1> HIDE DEF b, cell
<1>7. Entered(b, m.frames, procedure, entry, FALSE)
  BY <1>2, <1>4, <1>5, <1>6, EnterCallParts
<1>8. ProtectedSame(bank, bank')
  <2>1. ProtectedSame(b, bank')
    BY <1>7, ProtectedEntered
  <2> QED
    BY <1>5, <2>1, ProtectedSameTransitive
<1>9. ASSUME ChainKept(bank, activations, current)
      PROVE  ChainKept(bank', activations', current') /\ ProtectedFramesSame
  <2>1. m.frames = activations /\ m.top = Len(activations) /\ m.top \in 1..Len(activations)
    BY <1>9, QueryLocals
  <2>2. cell = activations[m.top].record.cell
    BY <2>1 DEF cell, Owner, Record
  <2>3. ChainKept(b, activations, current)
    BY <1>2, <1>9, <2>1, <2>2, ChainMoves DEF b
  <2>4. Entered(b, activations, procedure, entry, FALSE) /\ activations # <<>>
    BY <1>4, <1>7, <2>1
  <2>5. /\ ChainKept(bank', activations', current')
        /\ \A i \in 1..Len(activations) : activations'[i] = activations[i]
    BY <1>2, <1>3, <2>3, <2>4, ChainEntered
  <2>6. ProtectedFramesSame
    BY <2>5 DEF ProtectedFramesSame
  <2> QED
    BY <2>5, <2>6
<1> QED
  BY <1>3, <1>8, <1>9 DEF QueryStepKept

(* A return deletes nothing that a caller of its chain runs on: finish_call *)
(* looks, whatever the call is noted to own.                                *)
LEMMA FinishCallStep ==
    ASSUME Inv, NEW m \in Loaded, FinishCall(m)
    PROVE  QueryStepKept
<1> DEFINE own == owned[current]
           callers == SubSeq(m.frames, 1, m.top - 1)
<1>1. /\ \A h \in own : CanErase(bank, h)
      /\ bank' = Discarded(bank, own)
      /\ activations' = callers /\ current' = Owner(m).previous
      /\ m.top > 1 /\ own # {} => \A i \in 1..(m.top - 1) : \A h \in own : ~Uses(bank, callers[i], h)
  BY DEF FinishCall
<1> HIDE DEF own
<1>2. /\ DOMAIN bank'.entries = DOMAIN bank.entries \ own
      /\ \A h \in DOMAIN bank.entries \ own : bank'.entries[h] = bank.entries[h]
  BY <1>1, BankGood, DiscardedEntries
<1>3. Inv'
  BY FinishCallType
<1>4. ProtectedSame(bank, bank')
  BY <1>1, <1>2 DEF ProtectedSame, CanErase, Exists
<1>5. ASSUME ChainKept(bank, activations, current)
      PROVE  ChainKept(bank', activations', current') /\ ProtectedFramesSame
  <2> DEFINE f == activations
             n == m.top
  <2>1. /\ m.frames = f /\ n = Len(f) /\ n \in Nat \ {0} /\ n \in 1..n
        /\ f \in Seq(Frame) /\ Linked(f, current)
    BY <1>5, QueryLocals DEF ChainKept
  <2>2. /\ callers \in Seq(Frame) /\ Len(callers) = n - 1
        /\ \A i \in 1..(n - 1) : callers[i] = f[i]
    BY <2>1, CallersOf
  <2>3. current' = f[n].record.previous
    BY <1>1, <2>1 DEF Owner, Record
  <2>4. ProtectedFramesSame
    BY <1>1, <2>2 DEF ProtectedFramesSame
  <2>5. CASE n = 1
    <3>1. callers = <<>>
      BY <2>2, <2>5
    <3>2. current' = Null
      BY <2>1, <2>3, <2>5 DEF Linked
    <3>3. ChainKept(bank', <<>>, Null)
      BY DEF ChainKept, Linked, RecordsStored
    <3> QED
      BY <1>1, <2>4, <3>1, <3>2, <3>3
  <2>6. CASE n > 1
    <3>1. n - 1 \in 1..Len(f) /\ n # 1
      <4>1. \A k \in Nat \ {0} : k > 1 => k - 1 \in 1..k /\ k # 1
        OBVIOUS
      <4> HIDE DEF n
      <4> QED
        BY <2>1, <2>6, <4>1
    <3>2. current' = f[n - 1].storage
      BY <2>1, <2>3, <3>1 DEF Linked
    <3>3. ChainKept(bank, callers, current')
      BY <1>5, <2>1, <3>1, <3>2, ChainBelow
    <3> HIDE DEF callers
    <3>4. ASSUME NEW i \in 1..Len(callers),
                 NEW h \in {callers[i].storage, callers[i].record.cell}
          PROVE  Exists(bank', h) /\ Contents(bank', h) = Contents(bank, h)
      <4>1. h \in DOMAIN bank.entries
        BY <3>3, ChainCells
      <4>2. h \notin own
        <5>1. Uses(bank, callers[i], h)
          BY DEF Uses
        <5> QED
          BY <1>1, <2>2, <2>6, <5>1
      <4> QED
        BY <1>2, <4>1, <4>2 DEF Exists, Contents
    <3>5. ChainKept(bank', callers, current')
      BY <3>3, <3>4, ChainSame
    <3> QED
      BY <1>1, <2>4, <3>5
  <2>7. n = 1 \/ n > 1
    <3>1. \A k \in Nat \ {0} : k = 1 \/ k > 1
      OBVIOUS
    <3> HIDE DEF n
    <3> QED
      BY <2>1, <3>1
  <2> QED
    BY <2>5, <2>6, <2>7
<1> QED
  BY <1>3, <1>4, <1>5 DEF QueryStepKept

LEMMA SuppressedFinishStep ==
    ASSUME Inv, NEW m \in Loaded, SuppressedFinish(m)
    PROVE  QueryStepKept
<1> DEFINE g == activations'
<1>1. /\ CanChange(bank, current) /\ bank' = SetVal(bank, current, g[m.top].record)
      /\ g = [m.frames EXCEPT ![m.top].record.prefix = NoPrefix]
      /\ current' = current
  BY DEF SuppressedFinish
<1>2. Inv' /\ GoodBank(bank) /\ LocalsOK(m) /\ g \in Seq(Frame)
  <2>1. Inv'
    BY SuppressedFinishType
  <2> QED
    BY <2>1, BankGood, LoadedType DEF Inv, TypeOK
<1>3. Exists(bank, current) /\ ~bank.entries[current].protected
  BY <1>1 DEF CanChange, Locked
<1>4. Len(g) = m.top /\ \A i \in 1..m.top : i # m.top => g[i] = m.frames[i]
  BY <1>1, <1>2 DEF LocalsOK
<1>5. g[m.top].record \in Value
  <2>1. g[m.top] \in Frame
    BY <1>2, <1>4 DEF LocalsOK
  <2> QED
    BY <2>1 DEF Frame, Value
<1>6. /\ SameShape(bank, bank') /\ Val(bank', current) = g[m.top].record
      /\ \A k \in DOMAIN bank.entries \ {current} : bank'.entries[k] = bank.entries[k]
  BY <1>1, <1>2, <1>3, <1>5, SetValShape
<1>7. ProtectedSame(bank, bank')
  BY <1>1, <1>2, <1>5, ProtectedSetVal
<1>8. ASSUME ChainKept(bank, activations, current)
      PROVE  ChainKept(bank', activations', current') /\ ProtectedFramesSame
  <2> DEFINE f == activations
             n == m.top
  <2>1. /\ m.frames = f /\ n = Len(f) /\ n \in Nat \ {0} /\ n \in 1..n
        /\ f \in Seq(Frame) /\ Linked(f, current) /\ current = f[n].storage
    BY <1>8, QueryLocals DEF ChainKept
  <2>2. f[n] = [record |-> f[n].record, storage |-> f[n].storage]
        /\ f[n].record \in ActivationRecord /\ f[n] \in Frame
    BY <2>1, FrameTypes
  <2>3. g[n] = MovedFrame(f[n], f[n].record.position, NoPrefix)
    <3> DEFINE moved == [f[n] EXCEPT !.record.prefix = NoPrefix]
               r == f[n].record
    <3>1. [r EXCEPT !.prefix = NoPrefix] = MovedRecord(r, r.position, NoPrefix)
      BY <2>2 DEF MovedRecord, ActivationRecord
    <3>2. moved = MovedFrame(f[n], f[n].record.position, NoPrefix)
      BY <2>2, <3>1 DEF MovedFrame
    <3>3. g = [f EXCEPT ![n] = moved]
      BY <1>1, <2>1
    <3> HIDE DEF moved
    <3> QED
      BY <2>1, <3>2, <3>3
  <2> HIDE DEF g, f, n
  <2>4. /\ g[n].storage = f[n].storage
        /\ g[n].record = MovedRecord(f[n].record, f[n].record.position, NoPrefix)
    BY <2>2, <2>3, MovedFrameParts
  <2>5. /\ g[n].record.procedure = f[n].record.procedure
        /\ g[n].record.cell = f[n].record.cell
        /\ g[n].record.previous = f[n].record.previous
        /\ g[n].record.localResolver = f[n].record.localResolver
        /\ g[n].record.result = f[n].record.result
    BY <2>2, <2>4, MovedRecordParts
  <2>6. Len(g) = n /\ \A i \in 1..n : i # n => g[i] = f[i]
    BY <1>4, <2>1 DEF n
  <2>7. SameCalls(f, g)
    BY <1>2, <2>1, <2>4, <2>5, <2>6 DEF SameCalls, g
  <2>8. ASSUME NEW i \in 1..Len(f)
        PROVE  Val(bank', f[i].storage) = g[i].record /\ Val(bank', f[i].record.cell) \in NodeRef
    <3>1. /\ f[n].storage # f[i].record.cell
          /\ f[i].storage \in DOMAIN bank.entries /\ f[i].record.cell \in DOMAIN bank.entries
      BY <1>8, <2>1, ChainCells DEF f
    <3>2. Val(bank, f[i].storage) = f[i].record /\ Val(bank, f[i].record.cell) \in NodeRef
      BY <1>8 DEF ChainKept, RecordsStored, CellOK, f
    <3>3. Val(bank', f[i].record.cell) \in NodeRef
      BY <1>6, <2>1, <3>1, <3>2 DEF Val, Contents
    <3>4. Val(bank', f[n].storage) = g[n].record
      BY <1>6, <2>1 DEF n
    <3>5. CASE i = n
      BY <3>3, <3>4, <3>5
    <3>6. CASE i # n
      <4>1. f[i].storage # f[n].storage
        BY <2>1, <3>6 DEF Linked
      <4>2. bank'.entries[f[i].storage] = bank.entries[f[i].storage]
        BY <1>6, <2>1, <3>1, <4>1
      <4>3. g[i] = f[i]
        BY <2>1, <2>6, <3>6
      <4> QED
        BY <3>2, <3>3, <4>2, <4>3 DEF Val, Contents
    <3> QED
      BY <3>5, <3>6
  <2>9. ChainKept(bank, f, current)
    BY <1>8 DEF f
  <2>10. ChainKept(bank', g, current)
    BY <1>6, <2>7, <2>8, <2>9, ChainWrites
  <2>11. ProtectedFramesSame
    BY <1>3, <2>1, <2>6 DEF ProtectedFramesSame, f, g
  <2> QED
    BY <1>1, <2>10, <2>11 DEF g
<1> QED
  BY <1>2, <1>7, <1>8 DEF QueryStepKept

(* What a resolver does with a RESOLVE_RETURN that is suppressed. *)
LEMMA SuppressedReturnStep ==
    ASSUME Inv, NEW m \in Loaded, SuppressedReturn(m)
    PROVE  QueryStepKept
<1> DEFINE g == Advanced(m, NoPosition, NoPrefix)
<1>1. /\ CanPersist(m, bank) /\ activations' = g /\ bank' = Persisted(m, bank, g)
      /\ current' = current /\ owned' = owned
  BY DEF SuppressedReturn
<1>2. /\ LocalsOK(m) /\ GoodBank(bank)
      /\ NoPosition \in Nat \cup {Null} /\ NoPrefix \in Prefix
  BY LoadedType, BankGood, NoPrefixType DEF Inv, NoPosition
<1>3. /\ SameCalls(m.frames, g) /\ g \in Seq(Frame) /\ Len(g) = m.top
  BY <1>2, AdvancedFrames, AdvancedType
<1>4. Inv'
  <2> HIDE DEF g
  <2>1. GoodBank(bank')
    BY <1>1, <1>2, <1>3, GoodPersisted
  <2>2. current \in Id \cup {Null} /\ owned \in [Id -> SUBSET Id]
    BY DEF Inv, TypeOK
  <2> QED
    BY <1>1, <1>3, <2>1, <2>2, NextStateGood
<1>5. ProtectedSame(bank, bank')
  <2> HIDE DEF g
  <2>1. \A i \in Touched(m) : g[i].storage = m.frames[i].storage
    BY <1>2, <1>3 DEF SameCalls, Touched, LocalsOK
  <2> QED
    BY <1>1, <2>1, ProtectedPersisted
<1>6. ASSUME ChainKept(bank, activations, current)
      PROVE  ChainKept(bank', activations', current') /\ ProtectedFramesSame
  <2>1. m.frames = activations /\ m.top = Len(activations)
    BY <1>6, QueryLocals
  <2>2. ChainKept(bank, m.frames, current)
    BY <1>6, <2>1
  <2>3. ChainKept(Persisted(m, bank, g), g, current)
    BY <1>2, <2>2, ChainPersisted
  <2>4. ASSUME NEW i \in 1..Len(activations),
               bank.entries[activations[i].storage].protected
        PROVE  g[i] = activations[i]
    <3>1. activations[i].storage \in DOMAIN bank.entries
      BY <1>6, ChainCells
    <3>2. i \in 1..m.top /\ m.frames = activations
          /\ bank.entries[activations[i].storage].protected
      BY <2>1, <2>4
    <3> HIDE DEF g
    <3>3. Advanced(m, NoPosition, NoPrefix)[i] = activations[i]
      BY <1>1, <1>2, <3>1, <3>2, AdvancedProtected
    <3> QED
      BY <3>3 DEF g
  <2> HIDE DEF g
  <2>5. ProtectedFramesSame
    BY <1>1, <2>4 DEF ProtectedFramesSame
  <2> QED
    BY <1>1, <2>3, <2>5
<1> QED
  BY <1>4, <1>5, <1>6 DEF QueryStepKept

(* A query does no more than the commands of Vm do, without those that     *)
(* write data: each of them keeps what a query must keep.                  *)
LEMMA CommandStep ==
    ASSUME Inv, NEW m \in Loaded, Command(m)
    PROVE  QueryStepKept
<1>1. NoPosition \in Nat \cup {Null} /\ NoPrefix \in Prefix /\ GoodBank(bank)
  BY NoPrefixType, BankGood DEF NoPosition
<1>2. CASE CallNode(m)
  BY <1>2, CallNodeStep
<1>3. CASE FinishCall(m)
  BY <1>3, FinishCallStep
<1>4. CASE SuppressedFinish(m)
  BY <1>4, SuppressedFinishStep
<1>5. CASE SuppressedReturn(m)
  BY <1>5, SuppressedReturnStep
<1>6. CASE SuppressedCommand(m) \/ Branch(m)
  <2>1. PICK next \in NodeRefs : Complete(m, bank, next, NoPosition, NoPrefix)
    BY <1>6 DEF SuppressedCommand, Branch
  <2> QED
    BY <1>1, <2>1, CompleteStep
<1>7. CASE SetProcedurePosition(m)
  <2>1. PICK next \in NodeRefs, position \in 0..Size(bank, Modified(m).procedure) :
            Complete(m, bank, next, position, NoPrefix)
    BY <1>7 DEF SetProcedurePosition
  <2>2. position \in Nat \cup {Null}
    OBVIOUS
  <2> QED
    BY <1>1, <2>1, <2>2, CompleteStep
<1>8. CASE ReadPrefix(m) \/ ModifyPrefix(m)
  <2>1. PICK next \in NodeRefs, kind \in {"read", "modify"}, depth \in Depths(m) :
            SetPrefix(m, next, [kind |-> kind, depth |-> depth, condition |-> FALSE])
    BY <1>8 DEF ReadPrefix, ModifyPrefix
  <2> DEFINE prefix == [kind |-> kind, depth |-> depth, condition |-> FALSE]
  <2>2. prefix \in Prefix
    BY DEF Prefix, Depths
  <2>3. Complete(m, bank, next, NoPosition, prefix)
    BY <2>1 DEF SetPrefix
  <2> HIDE DEF prefix
  <2> QED
    BY <1>1, <2>2, <2>3, CompleteStep
<1>9. CASE ConditionPrefix(m)
  <2>1. PICK next \in NodeRefs, condition \in BOOLEAN :
            SetPrefix(m, next, [kind |-> "condition", depth |-> 0, condition |-> condition])
    BY <1>9 DEF ConditionPrefix
  <2> DEFINE prefix == [kind |-> "condition", depth |-> 0, condition |-> condition]
  <2>2. prefix \in Prefix
    BY DEF Prefix
  <2>3. Complete(m, bank, next, NoPosition, prefix)
    BY <2>1 DEF SetPrefix
  <2> HIDE DEF prefix
  <2> QED
    BY <1>1, <2>2, <2>3, CompleteStep
<1>10. CASE SwitchProcedure(m)
  <2>1. PICK next \in NodeRefs, procedure \in Id :
            CompleteAndCall(m, bank, next, procedure, NoEntry, FALSE)
    BY <1>10 DEF SwitchProcedure
  <2>2. \A h \in DOMAIN bank.entries : Exists(bank, h) /\ bank.entries[h] = bank.entries[h]
    BY DEF Exists
  <2>3. NoEntry \in NodeRef \cup {Null} /\ FALSE \in BOOLEAN
    BY DEF NoEntry
  <2> QED
    BY <1>1, <2>1, <2>2, <2>3, CompleteAndCallStep
<1>11. CASE SwitchNetwork(m)
  <2>1. PICK next \in NodeRefs, entry \in NodeRefs :
            CompleteAndCall(m, bank, next, Reader(m).procedure, entry, FALSE)
    BY <1>11 DEF SwitchNetwork
  <2>2. \A h \in DOMAIN bank.entries : Exists(bank, h) /\ bank.entries[h] = bank.entries[h]
    BY DEF Exists
  <2>3. entry \in NodeRef \cup {Null} /\ FALSE \in BOOLEAN
    BY NextNode
  <2>4. Reader(m).procedure \in Id
    <3>1. LocalsOK(m)
      BY LoadedType DEF Inv
    <3>2. Record(m, m.read) \in ActivationRecord
      BY <3>1, RecordType DEF LocalsOK
    <3> QED
      BY <3>2 DEF Reader, ActivationRecord
  <2> QED
    BY <1>1, <2>1, <2>2, <2>3, <2>4, CompleteAndCallStep
<1>12. CASE SwitchProcedureAndNetwork(m)
  <2>1. PICK next \in NodeRefs, entry \in NodeRefs, size \in Sizes :
            /\ CanCreate(bank)
            /\ CompleteAndCall(m, Create(bank, [size |-> size, val |-> Code], TRUE),
                               next, bank.next, entry, TRUE)
    BY <1>12 DEF SwitchProcedureAndNetwork
  <2> DEFINE c == [size |-> size, val |-> Code]
             b == Create(bank, c, TRUE)
  <2>2. c \in RegisterContents /\ TRUE \in BOOLEAN /\ entry \in NodeRef \cup {Null}
    BY MadeContents, NextNode, VmAssumption
  <2> HIDE DEF c
  <2>3. /\ GoodBank(b) /\ bank.next \in Id
        /\ DOMAIN b.entries = DOMAIN bank.entries \cup {bank.next}
        /\ \A h \in DOMAIN bank.entries : b.entries[h] = bank.entries[h]
    BY <1>1, <2>1, <2>2, CreateKeeps, GoodCreate
  <2>4. CompleteAndCall(m, b, next, bank.next, entry, TRUE)
    BY <2>1 DEF c
  <2> HIDE DEF b
  <2>5. \A h \in DOMAIN bank.entries : Exists(b, h) /\ b.entries[h] = bank.entries[h]
    BY <2>3 DEF Exists
  <2> QED
    BY <2>2, <2>3, <2>4, <2>5, CompleteAndCallStep
<1> QED
  BY <1>2, <1>3, <1>4, <1>5, <1>6, <1>7, <1>8, <1>9, <1>10, <1>11, <1>12 DEF Command

-----------------------------------------------------------------------------
(* A query begins. *)

LEMMA ProtectExistingBank ==
    ASSUME NEW b, GoodBank(b)
    PROVE  LET copy == ProtectExisting(b)
           IN  /\ GoodBank(copy) /\ copy.next = b.next
               /\ DOMAIN copy.entries = DOMAIN b.entries
               /\ \A h \in DOMAIN b.entries :
                      /\ copy.entries[h].contents = b.entries[h].contents
                      /\ copy.entries[h].immutable = b.entries[h].immutable
                      /\ copy.entries[h].protected
<1> DEFINE copy == ProtectExisting(b)
           protect(h) == [b.entries[h] EXCEPT !.protected = TRUE]
           entries == [h \in DOMAIN b.entries |-> protect(h)]
<1>1. /\ b = [entries |-> b.entries, next |-> b.next]
      /\ b.entries \in [DOMAIN b.entries -> EntryOf(RegisterContents)]
      /\ DOMAIN b.entries \subseteq Handle /\ b.next \in 0..(MaxId + 1)
      /\ \A h \in DOMAIN b.entries \cap Id : h < b.next
  BY DEF GoodBank, IsBank
<1>2. ASSUME NEW h \in DOMAIN b.entries
      PROVE  /\ protect(h) \in EntryOf(RegisterContents)
             /\ protect(h).contents = b.entries[h].contents
             /\ protect(h).immutable = b.entries[h].immutable
             /\ protect(h).protected
  <2>1. b.entries[h] \in EntryOf(RegisterContents)
    BY <1>1
  <2> QED
    BY <2>1 DEF EntryOf
<1>3. copy = [b EXCEPT !.entries = entries]
  BY DEF ProtectExisting
<1> HIDE DEF protect
<1>4. /\ DOMAIN entries = DOMAIN b.entries
      /\ \A h \in DOMAIN b.entries : entries[h] = protect(h)
      /\ entries \in [DOMAIN b.entries -> EntryOf(RegisterContents)]
  BY <1>2
<1> HIDE DEF entries, copy
<1>5. copy = [entries |-> entries, next |-> b.next]
      /\ copy.entries = entries /\ copy.next = b.next
  BY <1>1, <1>3
<1>6. GoodBank(copy)
  BY <1>1, <1>4, <1>5 DEF GoodBank, IsBank
<1> QED
  BY <1>2, <1>4, <1>5, <1>6 DEF copy

\* b2 has every register of b, as it is, and protects it.
Protects(b, b2) ==
    \A h \in DOMAIN b.entries :
        /\ Exists(b2, h)
        /\ Contents(b2, h) = Contents(b, h)
        /\ IsImmutable(b2, h) = IsImmutable(b, h)
        /\ b2.entries[h].protected

(* The query starts on a protected copy of the registers, above the        *)
(* activation it is asked for.                                             *)
LEMMA AskStep ==
    ASSUME Inv, NEW m \in Loaded, NEW i \in 1..m.top, NEW entry \in NodeRef,
           NEW size \in Sizes,
           CanCreate(ProtectExisting(bank)),
           EnterCall(Create(ProtectExisting(bank), [size |-> size, val |-> Code], TRUE),
                     SubSeq(m.frames, 1, i), ProtectExisting(bank).next, entry, TRUE)
    PROVE  /\ Inv' /\ Protects(bank, bank') /\ Len(activations') = i + 1
           /\ ChainKept(bank, activations, current) =>
                 /\ ChainKept(bank', activations', current')
                 /\ i \in 1..Len(activations)
                 /\ \A j \in 1..i : activations'[j] = activations[j]
<1> DEFINE copy == ProtectExisting(bank)
           c == [size |-> size, val |-> Code]
           b == Create(copy, c, TRUE)
           f == SubSeq(m.frames, 1, i)
<1>1. /\ GoodBank(copy) /\ copy.next = bank.next
      /\ DOMAIN copy.entries = DOMAIN bank.entries
      /\ \A h \in DOMAIN bank.entries :
             /\ copy.entries[h].contents = bank.entries[h].contents
             /\ copy.entries[h].immutable = bank.entries[h].immutable
             /\ copy.entries[h].protected
  BY BankGood, ProtectExistingBank
<1>2. c \in RegisterContents /\ TRUE \in BOOLEAN /\ entry \in NodeRef \cup {Null}
  BY MadeContents, VmAssumption
<1>3. CanCreate(copy)
  OBVIOUS
<1> HIDE DEF copy, c
<1>4. /\ GoodBank(b) /\ copy.next \in Id
      /\ DOMAIN b.entries = DOMAIN copy.entries \cup {copy.next}
      /\ \A h \in DOMAIN copy.entries : b.entries[h] = copy.entries[h]
  BY <1>1, <1>2, <1>3, CreateKeeps, GoodCreate
<1>5. LocalsOK(m) /\ m.frames \in Seq(Frame) /\ m.top = Len(m.frames)
  BY LoadedType DEF Inv, LocalsOK
<1>6. f \in Seq(Frame) /\ Len(f) = i /\ f # <<>> /\ i \in Nat \ {0}
  <2> DEFINE F == Frame
  <2>1. m.frames \in Seq(F) /\ i \in Nat \ {0} /\ i <= Len(m.frames)
    BY <1>5
  <2> HIDE DEF F
  <2>2. f \in Seq(F) /\ Len(f) = i
    BY <2>1
  <2> QED
    BY <2>1, <2>2 DEF F
<1>7. EnterCall(b, f, copy.next, entry, TRUE)
  BY DEF copy, c
<1> HIDE DEF b, f
<1>8. Inv' /\ GoodBank(bank')
  <2>1. Inv'
    BY <1>2, <1>4, <1>6, <1>7, EnterCallType
  <2> QED
    BY <2>1 DEF Inv, TypeOK, NextIdFresh, GoodBank
<1>9. Entered(b, f, copy.next, entry, TRUE)
  BY <1>2, <1>4, <1>6, <1>7, EnterCallParts
<1>10. \A h \in DOMAIN b.entries : h \in DOMAIN bank'.entries /\ bank'.entries[h] = b.entries[h]
  BY <1>9 DEF Entered
<1>11. Protects(bank, bank')
  BY <1>1, <1>4, <1>10 DEF Protects, Exists, Contents, IsImmutable
<1>12. Len(activations') = i + 1
  <2>1. activations' = Append(f, activations'[Len(f) + 1]) /\ activations' \in Seq(Frame)
    BY <1>8, <1>9 DEF Entered, Inv, TypeOK
  <2> QED
    BY <1>6, <2>1
<1>13. ASSUME ChainKept(bank, activations, current)
       PROVE  /\ ChainKept(bank', activations', current')
              /\ i \in 1..Len(activations)
              /\ \A j \in 1..i : activations'[j] = activations[j]
  <2>1. m.frames = activations /\ i \in 1..Len(activations)
    BY <1>13, QueryLocals
  <2>2. /\ ChainKept(bank, f, activations[i].storage)
        /\ \A j \in 1..i : f[j] = activations[j]
    BY <1>13, <2>1, ChainBelow DEF f
  <2>3. ASSUME NEW j \in 1..Len(f), NEW h \in {f[j].storage, f[j].record.cell}
        PROVE  Exists(b, h) /\ Contents(b, h) = Contents(bank, h)
    <3>1. h \in DOMAIN bank.entries
      BY <2>2, ChainCells
    <3> QED
      BY <1>1, <1>4, <3>1 DEF Exists, Contents
  <2>4. ChainKept(b, f, activations[i].storage)
    BY <2>2, <2>3, ChainSame
  <2>5. /\ ChainKept(bank', activations', current')
        /\ \A j \in 1..Len(f) : activations'[j] = f[j]
    BY <1>2, <1>6, <1>8, <1>9, <2>4, ChainEntered
  <2> QED
    BY <1>6, <2>1, <2>2, <2>5
<1> QED
  BY <1>8, <1>11, <1>12, <1>13

-----------------------------------------------------------------------------
(* The stack of machines. *)

Bank == [entries: UNION {[D -> EntryOf(RegisterContents)] : D \in SUBSET Handle},
         next: 0..(MaxId + 1)]

MachineState ==
    [bank: Bank, current: Id \cup {Null}, activations: Seq(Frame),
     owned: [Id -> SUBSET Id], base: Nat, busy: BOOLEAN]

GoodMachine(x) ==
    /\ x \in MachineState
    /\ GoodBank(x.bank)
    /\ x.base \in 0..Len(x.activations)
    /\ HostOK => ChainKept(x.bank, x.activations, x.current)

\* A query has activations of its own, as many as its limit allows.
InQuery(x) == Len(x.activations) \in (x.base + 1)..(x.base + MaxCalls)

\* y answers for x: on its registers, above its activations.
Answers(x, y) ==
    /\ Protects(x.bank, y.bank)
    /\ HostOK =>
          /\ y.base <= Len(x.activations)
          /\ \A j \in 1..y.base : y.activations[j] = x.activations[j]

\* One inductive invariant for all of a query: the machines on the stack are
\* good, each is above the one it answers, and each that waits is inside a step.
StackOK ==
    /\ waiting \in Seq(MachineState) /\ Level <= MaxLevels
    /\ steps \in 0..MaxSteps
    /\ \A k \in 0..Level : GoodMachine(Inner(k))
    /\ \A k \in 1..Level : InQuery(Inner(k)) /\ Answers(waiting[k], Inner(k))
    /\ \A k \in 2..Level : waiting[k].busy

LEMMA MachineFields ==
    /\ Machine.bank = bank /\ Machine.current = current
    /\ Machine.activations = activations /\ Machine.owned = owned
    /\ Machine.base = base /\ Machine.busy = busy
BY DEF Machine

(* What the stack says of the machine that runs. *)
LEMMA InnermostMachine ==
    ASSUME StackOK
    PROVE  /\ Level \in Nat /\ Inner(Level) = Machine
           /\ GoodMachine(Machine) /\ Inv
           /\ base \in 0..Len(activations) /\ busy \in BOOLEAN
           /\ HostOK => ChainKept(bank, activations, current)
           /\ Level > 0 => InQuery(Machine) /\ Answers(waiting[Level], Machine)
<1>1. Level \in Nat
  BY DEF StackOK, Level
<1>2. Inner(Level) = Machine
  BY DEF Inner
<1>3. GoodMachine(Machine) /\ (Level > 0 => InQuery(Machine) /\ Answers(waiting[Level], Machine))
  BY <1>1, <1>2 DEF StackOK
<1>4. /\ current \in Id \cup {Null} /\ activations \in Seq(Frame)
      /\ owned \in [Id -> SUBSET Id] /\ busy \in BOOLEAN
      /\ GoodBank(bank) /\ base \in 0..Len(activations)
      /\ HostOK => ChainKept(bank, activations, current)
  BY <1>3, MachineFields DEF GoodMachine, MachineState
<1>5. Inv
  BY <1>4 DEF Inv, TypeOK, NextIdFresh, GoodBank
<1> QED
  BY <1>1, <1>2, <1>3, <1>4, <1>5

LEMMA GoodBankState ==
    ASSUME NEW b, GoodBank(b)
    PROVE  b \in Bank
<1>1. /\ b = [entries |-> b.entries, next |-> b.next]
      /\ b.entries \in [DOMAIN b.entries -> EntryOf(RegisterContents)]
      /\ DOMAIN b.entries \in SUBSET Handle /\ b.next \in 0..(MaxId + 1)
  BY DEF GoodBank, IsBank
<1> DEFINE E == EntryOf(RegisterContents)
<1> HIDE DEF E
<1>2. b.entries \in UNION {[D -> E] : D \in SUBSET Handle}
  BY <1>1 DEF E
<1> QED
  BY <1>1, <1>2 DEF Bank, E

\* A machine put together from its parts.
MachineOf(b, c, f, o, n, inside) ==
    [bank |-> b, current |-> c, activations |-> f, owned |-> o, base |-> n, busy |-> inside]

LEMMA GoodRecord ==
    ASSUME NEW b, GoodBank(b), NEW c \in Id \cup {Null}, NEW f \in Seq(Frame),
           NEW o \in [Id -> SUBSET Id], NEW n \in 0..Len(f), NEW inside \in BOOLEAN,
           HostOK => ChainKept(b, f, c)
    PROVE  GoodMachine(MachineOf(b, c, f, o, n, inside))
<1> DEFINE x == MachineOf(b, c, f, o, n, inside)
<1>1. b \in Bank /\ n \in Nat
  BY GoodBankState
<1>2. /\ x.bank = b /\ x.current = c /\ x.activations = f /\ x.owned = o
      /\ x.base = n /\ x.busy = inside
  BY DEF MachineOf
<1>3. x \in MachineState
  <2> DEFINE F == Seq(Frame)
             O == [Id -> SUBSET Id]
  <2>1. f \in F /\ o \in O
    OBVIOUS
  <2> HIDE DEF F, O
  <2>2. x \in [bank: Bank, current: Id \cup {Null}, activations: F, owned: O,
               base: Nat, busy: BOOLEAN]
    BY <1>1, <2>1 DEF MachineOf
  <2> QED
    BY <2>2 DEF MachineState, F, O
<1> HIDE DEF x
<1>4. GoodMachine(x)
  BY <1>2, <1>3 DEF GoodMachine
<1> QED
  BY <1>4 DEF x

(* The machine that runs is good again after a step. *)
LEMMA GoodAfter ==
    ASSUME Inv', base' \in 0..Len(activations'), busy' \in BOOLEAN,
           HostOK => ChainKept(bank', activations', current')
    PROVE  GoodMachine(Machine')
<1>1. GoodBank(bank') /\ current' \in Id \cup {Null} /\ activations' \in Seq(Frame)
      /\ owned' \in [Id -> SUBSET Id]
  BY DEF Inv, TypeOK, NextIdFresh, GoodBank
<1>2. GoodMachine(MachineOf(bank', current', activations', owned', base', busy'))
  BY <1>1, GoodRecord
<1> QED
  BY <1>2 DEF Machine, MachineOf

(* A query is asked. *)
LEMMA Pushed ==
    ASSUME StackOK, Level < MaxLevels, waiting' = Append(waiting, Machine),
           steps' \in 0..MaxSteps, Level > 0 => busy,
           GoodMachine(Machine'), InQuery(Machine'), Answers(Machine, Machine')
    PROVE  StackOK' /\ Level' = Level + 1
<1> DEFINE n == Level
<1>1. n \in Nat /\ Inner(n) = Machine /\ Machine \in MachineState /\ Machine.busy = busy
  BY InnermostMachine, MachineFields DEF GoodMachine
<1>2. waiting \in Seq(MachineState) /\ n = Len(waiting)
  BY DEF StackOK, Level
<1>3. /\ waiting' \in Seq(MachineState) /\ Len(waiting') = n + 1
      /\ waiting'[n + 1] = Machine
      /\ \A k \in 1..n : waiting'[k] = waiting[k]
  <2> DEFINE S == MachineState
  <2>1. waiting \in Seq(S) /\ Machine \in S
    BY <1>1, <1>2
  <2> HIDE DEF S, Machine
  <2>2. Append(waiting, Machine) \in Seq(S) /\ Len(Append(waiting, Machine)) = Len(waiting) + 1
        /\ Append(waiting, Machine)[Len(waiting) + 1] = Machine
        /\ \A k \in 1..Len(waiting) : Append(waiting, Machine)[k] = waiting[k]
    BY <2>1
  <2> QED
    BY <1>2, <2>2 DEF S
<1> HIDE DEF n
<1>4. Level' = n + 1
  BY <1>3 DEF Level
<1>5. \A k \in 0..n : k \in 1..n \/ k = 0
  BY <1>1
<1>6. ASSUME NEW k \in 0..n
      PROVE  Inner(k)' = Inner(k)
  <2>1. k # n + 1 /\ (k # n => k + 1 \in 1..n)
    BY <1>1
  <2>2. CASE k = n
    BY <1>1, <1>3, <1>4, <2>1, <2>2 DEF Inner
  <2>3. CASE k # n
    BY <1>3, <1>4, <2>1, <2>3 DEF Inner, n
  <2> QED
    BY <2>2, <2>3
<1>7. \A k \in 0..(n + 1) : k = n + 1 => Inner(k)' = Machine'
  BY <1>4 DEF Inner
<1>8. ASSUME NEW k \in 1..(n + 1)
      PROVE  InQuery(Inner(k)') /\ Answers(waiting'[k], Inner(k)')
  <2>1. CASE k = n + 1
    <3>1. k \in 0..(n + 1)
      BY <1>1
    <3> QED
      BY <1>3, <1>7, <2>1, <3>1
  <2>2. CASE k # n + 1
    <3>1. k \in 1..n /\ k \in 0..n
      BY <1>1, <2>2
    <3> QED
      BY <1>3, <1>6, <3>1 DEF StackOK, n
  <2> QED
    BY <2>1, <2>2
<1>9. ASSUME NEW k \in 0..(n + 1)
      PROVE  GoodMachine(Inner(k)')
  <2>1. CASE k = n + 1
    BY <1>7, <2>1
  <2>2. CASE k # n + 1
    <3>1. k \in 0..n
      BY <1>1, <2>2
    <3> QED
      BY <1>6, <3>1 DEF StackOK, n
  <2> QED
    BY <2>1, <2>2
<1>10. ASSUME NEW k \in 2..(n + 1)
       PROVE  waiting'[k].busy
  <2>1. CASE k = n + 1
    <3>1. n > 0
      BY <1>1, <2>1
    <3> QED
      BY <1>1, <1>3, <2>1, <3>1 DEF n
  <2>2. CASE k # n + 1
    <3>1. k \in 1..n /\ k \in 2..n
      BY <1>1, <2>2
    <3> QED
      BY <1>3, <3>1 DEF StackOK, n
  <2> QED
    BY <2>1, <2>2
<1>11. n + 1 <= MaxLevels
  BY <1>1, ResolverAssumption DEF n
<1> QED
  BY <1>3, <1>4, <1>8, <1>9, <1>10, <1>11 DEF StackOK, n

(* A query ends, or all of those above the k-th do. *)
LEMMA Popped ==
    ASSUME StackOK, NEW k \in 1..Level, Resume(k)
    PROVE  StackOK' /\ Level' = k - 1 /\ busy' = waiting[k].busy
<1> DEFINE n == Level
<1>1. waiting \in Seq(MachineState) /\ n = Len(waiting) /\ n \in Nat /\ k \in Nat \ {0} /\ k <= n
      /\ k \in 1..n
  BY InnermostMachine DEF StackOK, Level
<1>2. /\ waiting' \in Seq(MachineState) /\ Len(waiting') = k - 1
      /\ \A j \in 1..(k - 1) : waiting'[j] = waiting[j]
  <2> DEFINE S == MachineState
             s == SubSeq(waiting, 1, k - 1)
  <2>1. waiting \in Seq(S) /\ waiting' = s
    BY <1>1 DEF Resume
  <2> HIDE DEF S, n
  <2>2. s \in Seq(S) /\ Len(s) = k - 1 /\ \A j \in 1..(k - 1) : s[j] = waiting[j]
    BY <1>1, <2>1
  <2> HIDE DEF s
  <2> QED
    BY <2>1, <2>2 DEF S
<1>3. Machine' = waiting[k] /\ busy' = waiting[k].busy
  <2>1. waiting[k] \in MachineState
    BY <1>1
  <2> DEFINE x == waiting[k]
             F == Seq(Frame)
             O == [Id -> SUBSET Id]
  <2>2. x \in [bank: Bank, current: Id \cup {Null}, activations: F, owned: O,
               base: Nat, busy: BOOLEAN]
    BY <2>1 DEF MachineState
  <2>3. /\ bank' = x.bank /\ current' = x.current /\ activations' = x.activations
        /\ owned' = x.owned /\ base' = x.base /\ busy' = x.busy
    BY DEF Resume
  <2> HIDE DEF x, F, O
  <2>4. x = [bank |-> x.bank, current |-> x.current, activations |-> x.activations,
             owned |-> x.owned, base |-> x.base, busy |-> x.busy]
    BY <2>2
  <2>5. Machine' = x
    BY <2>3, <2>4 DEF Machine
  <2> QED
    BY <2>3, <2>5 DEF x
<1> HIDE DEF n
<1>4. Level' = k - 1
  BY <1>2 DEF Level
<1>5. ASSUME NEW j \in 0..(k - 1)
      PROVE  j \in 0..n /\ Inner(j)' = Inner(j)
  <2>1. j \in 0..n /\ j # n /\ (j # k - 1 => j + 1 \in 1..(k - 1))
    BY <1>1
  <2>2. CASE j = k - 1
    BY <1>1, <1>3, <1>4, <2>1, <2>2 DEF Inner, n
  <2>3. CASE j # k - 1
    BY <1>2, <1>4, <2>1, <2>3 DEF Inner, n
  <2> QED
    BY <2>1, <2>2, <2>3
<1>6. ASSUME NEW j \in 1..(k - 1)
      PROVE  InQuery(Inner(j)') /\ Answers(waiting'[j], Inner(j)')
  <2>1. j \in 1..n /\ j \in 0..(k - 1)
    BY <1>1
  <2> QED
    BY <1>2, <1>5, <2>1 DEF StackOK, n
<1>7. \A j \in 0..(k - 1) : GoodMachine(Inner(j)')
  BY <1>5 DEF StackOK, n
<1>8. ASSUME NEW j \in 2..(k - 1)
      PROVE  waiting'[j].busy
  <2>1. j \in 2..n /\ j \in 1..(k - 1)
    BY <1>1
  <2> QED
    BY <1>2, <2>1 DEF StackOK, n
<1>9. k - 1 <= MaxLevels
  BY <1>1, ResolverAssumption DEF StackOK, n
<1>10. steps' = steps
  BY DEF Resume
<1> QED
  BY <1>2, <1>3, <1>4, <1>6, <1>7, <1>8, <1>9, <1>10 DEF StackOK

(* The query goes on by itself. *)
LEMMA WentOn ==
    ASSUME StackOK, Level > 0, waiting' = waiting, steps' \in 0..MaxSteps,
           GoodMachine(Machine'), InQuery(Machine'), Answers(waiting[Level], Machine')
    PROVE  StackOK' /\ Level' = Level
<1> DEFINE n == Level
<1>1. n \in Nat \ {0} /\ Level' = n
  BY InnermostMachine DEF Level
<1> HIDE DEF n
<1>2. \A k \in 0..n : k = n => Inner(k)' = Machine'
  BY <1>1 DEF Inner
<1>3. \A k \in 0..n : k # n => Inner(k)' = Inner(k)
  BY <1>1 DEF Inner, n
<1>4. \A k \in 0..n : GoodMachine(Inner(k)')
  BY <1>2, <1>3 DEF StackOK, n
<1>5. ASSUME NEW k \in 1..n
      PROVE  InQuery(Inner(k)') /\ Answers(waiting'[k], Inner(k)')
  <2>1. k \in 0..n
    BY <1>1
  <2>2. CASE k = n
    BY <1>2, <2>1, <2>2 DEF n
  <2>3. CASE k # n
    BY <1>3, <2>1, <2>3 DEF StackOK, n
  <2> QED
    BY <2>2, <2>3
<1> QED
  BY <1>1, <1>4, <1>5 DEF StackOK, n

-----------------------------------------------------------------------------
(* The steps of a query. *)

LEMMA HostChain ==
    ASSUME MachineOK
    PROVE  ChainKept(bank, activations, current)
<1>1. /\ activations \in Seq(Frame) /\ Linked(activations, current)
      /\ BankKept(bank, activations) /\ GoodBank(bank)
  BY BankGood DEF MachineOK, MachineKept, FramesKept
<1>2. RecordsStored(bank, activations)
  <2>1. \A i \in 1..Len(activations) : Size(bank, activations[i].storage) \in Nat
    BY <1>1, RegisterContentsOf DEF GoodBank, BankKept, FrameKept, CanChange
  <2> QED
    BY <1>1, <2>1, VmAssumption DEF RecordsStored, BankKept, FrameKept, Fits, CanChange
<1>3. \A i \in 1..Len(activations) : CellOK(bank, activations[i].record)
  BY <1>1 DEF BankKept, FrameKept
<1> QED
  BY <1>1, <1>2, <1>3 DEF ChainKept

LEMMA StackInit ==
    ASSUME ResolverInit
    PROVE  StackOK
<1>1. Init /\ waiting = <<>> /\ base = 0 /\ busy = FALSE /\ steps = 0
  BY DEF ResolverInit
<1>2. Level = 0 /\ waiting \in Seq(MachineState)
  BY <1>1 DEF Level
<1>3. Inv /\ (HostOK => ChainKept(bank, activations, current))
  BY <1>1, InitType, InitKept, HostChain
<1>4. GoodBank(bank) /\ current \in Id \cup {Null} /\ activations \in Seq(Frame)
      /\ owned \in [Id -> SUBSET Id]
  BY <1>3, BankGood DEF Inv, TypeOK
<1>5. base \in 0..Len(activations) /\ busy \in BOOLEAN
  <2>1. base \in 0..Len(activations)
    BY <1>1, <1>4
  <2>2. busy \in BOOLEAN
    BY <1>1
  <2> QED
    BY <2>1, <2>2
<1>6. GoodMachine(Machine)
  <2>1. GoodMachine(MachineOf(bank, current, activations, owned, base, busy))
    BY <1>3, <1>4, <1>5, GoodRecord
  <2> QED
    BY <2>1 DEF Machine, MachineOf
<1>7. \A k \in 0..Level : GoodMachine(Inner(k))
  BY <1>2, <1>6 DEF Inner
<1>8. Level <= MaxLevels /\ steps \in 0..MaxSteps
  BY <1>1, <1>2, ResolverAssumption
<1>9. \A k \in 1..Level : k \notin 1..Level
  BY <1>2
<1>10. \A k \in 2..Level : k \notin 2..Level
  BY <1>2
<1> QED
  BY <1>2, <1>7, <1>8, <1>9, <1>10 DEF StackOK

\* What Ask does once it has chosen the activation, the network and the name.
AskedWith(m, i, entry, size) ==
    /\ Level > 0 => busy
    /\ CanNest
    /\ CanCreate(ProtectExisting(bank))
    /\ EnterCall(Create(ProtectExisting(bank), [size |-> size, val |-> Code], TRUE),
                 SubSeq(m.frames, 1, i), ProtectExisting(bank).next, entry, TRUE)
    /\ waiting' = Append(waiting, Machine)
    /\ base' = i /\ busy' = FALSE /\ steps' = StepsFor

LEMMA AskKept ==
    ASSUME StackOK, Ask
    PROVE  /\ StackOK' /\ Level' = Level + 1 /\ busy' = FALSE
           /\ Level > 0 => busy /\ steps' = steps
<1>1. PICK m \in Loaded : \E i \in 1..m.top : \E entry \in Networks(m, i), size \in Sizes :
          AskedWith(m, i, entry, size)
  BY DEF Ask, AskedWith
<1>2. PICK i \in 1..m.top : \E entry \in Networks(m, i), size \in Sizes :
          AskedWith(m, i, entry, size)
  BY <1>1
<1>3. PICK entry \in Networks(m, i), size \in Sizes : AskedWith(m, i, entry, size)
  BY <1>2
<1>4. Inv /\ Level \in Nat /\ (HostOK => ChainKept(bank, activations, current))
  BY InnermostMachine
<1>5. LocalsOK(m) /\ i \in Nat \ {0} /\ entry \in NodeRef
  <2>1. LocalsOK(m)
    BY <1>4, LoadedType DEF Inv
  <2>2. Record(m, i) \in ActivationRecord
    BY <2>1, RecordType
  <2>3. Record(m, i).localResolver \in NodeRef \cup {Null}
    BY <2>2 DEF ActivationRecord
  <2>4. entry \in NodeRef
    BY <2>3, NextNode DEF Networks
  <2> QED
    BY <2>1, <2>4 DEF LocalsOK
<1> USE <1>3 DEF AskedWith
<1>6. /\ Inv' /\ Protects(bank, bank') /\ Len(activations') = i + 1
      /\ ChainKept(bank, activations, current) =>
            /\ ChainKept(bank', activations', current')
            /\ i \in 1..Len(activations)
            /\ \A j \in 1..i : activations'[j] = activations[j]
  BY <1>3, <1>4, <1>5, AskStep
<1>7. GoodMachine(Machine')
  <2>1. base' \in 0..Len(activations')
    BY <1>3, <1>5, <1>6
  <2>2. busy' \in BOOLEAN
    BY <1>3
  <2> QED
    BY <1>4, <1>6, <2>1, <2>2, GoodAfter
<1>8. /\ Machine'.bank = bank' /\ Machine'.activations = activations' /\ Machine'.base = base'
      /\ Machine.bank = bank /\ Machine.activations = activations
  BY DEF Machine
<1>9. InQuery(Machine')
  <2>1. i + 1 \in (i + 1)..(i + MaxCalls)
    BY <1>5, ResolverAssumption
  <2> QED
    BY <1>3, <1>6, <1>8, <2>1 DEF InQuery
<1>10. Answers(Machine, Machine')
  BY <1>3, <1>4, <1>5, <1>6, <1>8 DEF Answers
<1>11. steps' \in 0..MaxSteps /\ (Level > 0 => steps' = steps)
  BY <1>3, <1>4, ResolverAssumption DEF StepsFor, StackOK
<1>12. StackOK' /\ Level' = Level + 1
  BY <1>3, <1>7, <1>9, <1>10, <1>11, Pushed DEF CanNest
<1> QED
  BY <1>3, <1>11, <1>12

LEMMA BeginStepKept ==
    ASSUME StackOK, BeginStep
    PROVE  StackOK' /\ Level' = Level
<1>1. /\ bank' = bank /\ current' = current /\ activations' = activations /\ owned' = owned
      /\ waiting' = waiting /\ base' = base /\ busy' = TRUE
      /\ steps > 0 /\ steps' = steps - 1 /\ Level > 0
  BY DEF BeginStep, machine
<1>2. /\ Inv /\ base \in 0..Len(activations) /\ InQuery(Machine)
      /\ Answers(waiting[Level], Machine)
      /\ HostOK => ChainKept(bank, activations, current)
  BY <1>1, InnermostMachine
<1>3. Inv'
  BY <1>1, <1>2 DEF Inv, TypeOK, NextIdFresh
<1>4. GoodMachine(Machine')
  BY <1>1, <1>2, <1>3, GoodAfter
<1>5. /\ Machine'.bank = Machine.bank /\ Machine'.activations = Machine.activations
      /\ Machine'.base = Machine.base
  BY <1>1 DEF Machine
<1>6. InQuery(Machine') /\ Answers(waiting[Level], Machine')
  BY <1>2, <1>5 DEF InQuery, Answers
<1>7. steps' \in 0..MaxSteps
  BY <1>1, ResolverAssumption DEF StackOK
<1> QED
  BY <1>1, <1>4, <1>6, <1>7, WentOn

(* A command of the query touches nothing of the machine that asked. *)
LEMMA EndStepKept ==
    ASSUME StackOK, EndStep
    PROVE  StackOK' /\ Level' = Level
<1>1. PICK m \in Loaded : Command(m)
  BY DEF EndStep
<1>2. /\ Level > 0 /\ StillResolving /\ busy' = FALSE
      /\ waiting' = waiting /\ base' = base /\ steps' = steps
  BY DEF EndStep
<1> DEFINE x == waiting[Level]
<1>3. /\ Inv /\ base \in 0..Len(activations) /\ Answers(x, Machine) /\ Level \in Nat
      /\ HostOK => ChainKept(bank, activations, current)
  BY <1>2, InnermostMachine
<1>4. QueryStepKept
  BY <1>1, <1>3, CommandStep
<1>5. base \in Nat /\ Len(activations') \in (base + 1)..(base + MaxCalls)
  BY <1>2, <1>3 DEF StillResolving
<1>6. GoodMachine(Machine')
  <2>1. base' \in 0..Len(activations')
    BY <1>2, <1>5
  <2>2. busy' \in BOOLEAN
    BY <1>2
  <2> QED
    BY <1>3, <1>4, <2>1, <2>2, GoodAfter DEF QueryStepKept
<1>7. /\ Machine'.bank = bank' /\ Machine'.activations = activations' /\ Machine'.base = base
      /\ Machine.bank = bank /\ Machine.activations = activations /\ Machine.base = base
  BY <1>2 DEF Machine
<1>8. InQuery(Machine')
  BY <1>5, <1>7 DEF InQuery
<1>9. GoodMachine(x)
  <2>1. Level - 1 \in 0..Level /\ Level - 1 # Level /\ (Level - 1) + 1 = Level
    BY <1>2, <1>3
  <2>2. Inner(Level - 1) = waiting[Level]
    BY <2>1 DEF Inner
  <2> QED
    BY <2>1, <2>2 DEF StackOK
<1> HIDE DEF x
<1>10. Protects(x.bank, bank')
  <2>1. Protects(x.bank, bank) /\ ProtectedSame(bank, bank')
    BY <1>3, <1>4, <1>7 DEF Answers, QueryStepKept
  <2> QED
    BY <2>1 DEF Protects, ProtectedSame, Exists, Contents, IsImmutable
<1>11. ASSUME HostOK
       PROVE  /\ base <= Len(x.activations)
              /\ \A j \in 1..base : activations'[j] = x.activations[j]
  <2>1. /\ base <= Len(x.activations) /\ Protects(x.bank, bank)
        /\ \A j \in 1..base : activations[j] = x.activations[j]
    BY <1>3, <1>7, <1>11 DEF Answers
  <2>2. ProtectedFramesSame
    BY <1>3, <1>4, <1>11 DEF QueryStepKept
  <2>3. ChainKept(x.bank, x.activations, x.current)
    BY <1>9, <1>11 DEF GoodMachine
  <2>4. ASSUME NEW j \in 1..base
        PROVE  activations'[j] = x.activations[j]
    <3>1. j \in 1..Len(x.activations)
      BY <1>5, <2>1, <2>3 DEF ChainKept
    <3>2. x.activations[j].storage \in DOMAIN x.bank.entries
      BY <2>3, <3>1, ChainCells
    <3>3. bank.entries[activations[j].storage].protected
      BY <2>1, <3>2 DEF Protects
    <3>4. j \in 1..Len(activations) /\ j <= Len(activations')
      BY <1>3, <1>5
    <3> QED
      BY <2>1, <2>2, <3>3, <3>4 DEF ProtectedFramesSame
  <2> QED
    BY <2>1, <2>4
<1>12. Answers(x, Machine')
  BY <1>7, <1>10, <1>11 DEF Answers
<1>13. steps' \in 0..MaxSteps
  BY <1>2 DEF StackOK
<1> QED
  BY <1>2, <1>6, <1>8, <1>12, <1>13, WentOn DEF x

LEMMA StackStep ==
    ASSUME StackOK, [ResolverNext]_<<machine, query>>
    PROVE  StackOK'
<1>1. CASE UNCHANGED <<machine, query>>
  BY <1>1 DEF machine, query, StackOK, Level, Inner, Machine
<1>2. CASE BeginStep
  BY <1>2, BeginStepKept
<1>3. CASE Ask
  BY <1>3, AskKept
<1>4. CASE EndStep
  BY <1>4, EndStepKept
<1>5. Level \in Nat
  BY InnermostMachine
<1>6. CASE ResolveReturn
  <2>1. Level \in 1..Level /\ Resume(Level)
    BY <1>5, <1>6 DEF ResolveReturn
  <2> QED
    BY <2>1, Popped
<1>7. CASE Fail
  <2>1. 1 \in 1..Level /\ Resume(1)
    BY <1>5, <1>7 DEF Fail
  <2> QED
    BY <2>1, Popped
<1> QED
  BY <1>1, <1>2, <1>3, <1>4, <1>6, <1>7 DEF ResolverNext

-----------------------------------------------------------------------------
(* Results. *)

LEMMA StackInvariant == ResolverSpec => []StackOK
<1>1. ResolverInit => StackOK
  BY StackInit
<1>2. StackOK /\ [ResolverNext]_<<machine, query>> => StackOK'
  BY StackStep
<1> QED
  BY <1>1, <1>2, PTL DEF ResolverSpec

(* Every state of a query is well formed, and neither the nesting of the   *)
(* queries, nor the steps, nor the calls of a resolver pass their limit.   *)
THEOREM QueryTypeCorrect == ResolverSpec => []ResolverTypeOK
<1>1. ASSUME StackOK
      PROVE  ResolverTypeOK
  <2>1. /\ Level \in Nat /\ Inv /\ base \in 0..Len(activations)
        /\ Level > 0 => InQuery(Machine)
    BY <1>1, InnermostMachine
  <2>2. busy \in BOOLEAN
    BY <1>1, InnermostMachine
  <2>3. Level \in 0..MaxLevels /\ steps \in 0..MaxSteps
    BY <1>1, <2>1, ResolverAssumption DEF StackOK
  <2>4. Level > 0 => Len(activations) <= base + MaxCalls
    BY <2>1, MachineFields DEF InQuery
  <2> QED
    BY <2>1, <2>2, <2>3, <2>4 DEF ResolverTypeOK, Inv
<1> QED
  BY <1>1, StackInvariant, PTL

(* No query changes, deletes or unprotects a register of a machine that    *)
(* waits for its answer, at any level, whatever the resolvers are.         *)
THEOREM AskersProtected == ResolverSpec => []AskerProtected
<1>1. ASSUME StackOK
      PROVE  AskerProtected
  BY <1>1 DEF StackOK, Answers, Protects, AskerProtected
<1> QED
  BY <1>1, StackInvariant, PTL

(* A resolver runs above the activation it was asked for, which it neither *)
(* returns into nor moves.                                                 *)
THEOREM AskersKeepContext ==
    ASSUME HostOK
    PROVE  ResolverSpec => []AskerContext
<1>1. ASSUME StackOK
      PROVE  AskerContext
  <2>1. ASSUME NEW k \in 1..Level
        PROVE  /\ Inner(k).base < Len(Inner(k).activations)
               /\ \A i \in 1..Inner(k).base :
                      Inner(k).activations[i] = waiting[k].activations[i]
    <3>1. InQuery(Inner(k)) /\ Answers(waiting[k], Inner(k))
      BY <1>1 DEF StackOK
    <3>2. Inner(k).base \in Nat /\ Len(Inner(k).activations) \in Nat
      <4>1. k \in 0..Level
        BY <1>1, InnermostMachine
      <4>2. GoodMachine(Inner(k))
        BY <1>1, <4>1 DEF StackOK
      <4> DEFINE x == Inner(k)
      <4>3. x.base \in Nat /\ x.activations \in Seq(Frame)
        BY <4>2 DEF GoodMachine, MachineState
      <4> HIDE DEF x
      <4>4. Len(x.activations) \in Nat
        BY <4>3
      <4> QED
        BY <4>3, <4>4 DEF x
    <3> QED
      BY <3>1, <3>2, ResolverAssumption DEF InQuery, Answers
  <2> QED
    BY <2>1 DEF AskerContext
<1> QED
  BY <1>1, StackInvariant, PTL

(* At every level of nesting the accessors of the resolver's machine show  *)
(* the chain that its registers hold.                                      *)
THEOREM QuerySnapshotIsStored ==
    ASSUME HostOK
    PROVE  ResolverSpec => []SnapshotStored
<1>1. ASSUME StackOK
      PROVE  SnapshotStored
  <2>1. ChainKept(bank, activations, current)
    BY <1>1, InnermostMachine
  <2> QED
    BY <2>1, StoredChainFound DEF ChainKept, SnapshotStored
<1> QED
  BY <1>1, StackInvariant, PTL

-----------------------------------------------------------------------------
(* Every query ends because something that is a natural number gets        *)
(* smaller with each of its steps: the steps that are left of the budget   *)
(* and, between two of them, the answers that can still be given.  This is *)
(* the part of QueryEnds that needs no fairness.                           *)

LeftOf(n, level, inside) == n * (MaxLevels + 3) + IF inside THEN level + 1 ELSE 0
Left == LeftOf(steps, Level, busy)

Shrinks == Level > 0 /\ Level' > 0 => Left' < Left
QueryShrinks == [][Shrinks]_<<machine, query>>

LEMMA LeftNat ==
    ASSUME StackOK
    PROVE  Left \in Nat /\ Left <= MaxSteps * (MaxLevels + 3) + MaxLevels + 1
<1>1. \A n \in 0..MaxSteps, k \in Nat : n * k \in Nat /\ n * k <= MaxSteps * k
  BY ResolverAssumption
<1>2. steps \in 0..MaxSteps /\ Level \in Nat /\ Level <= MaxLevels
  BY InnermostMachine DEF StackOK
<1> DEFINE k == MaxLevels + 3
<1>3. k \in Nat
  BY ResolverAssumption
<1> HIDE DEF k
<1> DEFINE a == steps * k
           c == MaxSteps * k
<1>4. a \in Nat /\ a <= c /\ c \in Nat
  BY <1>1, <1>2, <1>3, ResolverAssumption DEF a, c
<1> HIDE DEF a, c
<1>5. Left = a + (IF busy THEN Level + 1 ELSE 0)
  BY DEF Left, LeftOf, a, k
<1> QED
  BY <1>2, <1>4, <1>5, ResolverAssumption DEF c, k

LEMMA QueryStepShrinks ==
    ASSUME StackOK, [ResolverNext]_<<machine, query>>
    PROVE  [Shrinks]_<<machine, query>>
<1> SUFFICES ASSUME ResolverNext, Level > 0, Level' > 0
             PROVE  Left' < Left
  BY DEF Shrinks
<1> DEFINE k == MaxLevels + 3
           a == steps * k
<1>1. /\ Level \in Nat /\ Level <= MaxLevels /\ steps \in Nat /\ k \in Nat /\ k > Level + 1
  BY InnermostMachine, ResolverAssumption DEF StackOK
<1>2. \A n, m \in Nat : n * m \in Nat
  OBVIOUS
<1>3. a \in Nat
  <2> HIDE DEF k
  <2> QED
    BY <1>1, <1>2
<1>4. Left = a + (IF busy THEN Level + 1 ELSE 0)
  BY DEF Left, LeftOf
<1>5. Left' = steps' * k + (IF busy' THEN Level' + 1 ELSE 0)
  BY DEF Left, LeftOf
<1>6. ASSUME steps' = steps
      PROVE  Left' = a + (IF busy' THEN Level' + 1 ELSE 0)
  BY <1>5, <1>6
<1> HIDE DEF Left
<1>7. CASE BeginStep
  <2>1. steps > 0 /\ steps' = steps - 1 /\ busy' = TRUE /\ ~busy /\ Level' = Level
    BY <1>7, BeginStepKept DEF BeginStep
  <2>2. \A n, m \in Nat : n > 0 => (n - 1) * m = n * m - m
    OBVIOUS
  <2>3. steps' * k = a - k
    <3> HIDE DEF k
    <3> QED
      BY <1>1, <2>1, <2>2
  <2> HIDE DEF a, k
  <2> QED
    BY <1>1, <1>3, <1>4, <1>5, <2>1, <2>3
<1>8. CASE Ask
  <2>1. busy /\ busy' = FALSE /\ steps' = steps
    BY <1>8, AskKept
  <2> HIDE DEF a, k
  <2> QED
    BY <1>1, <1>3, <1>4, <1>6, <2>1
<1>9. CASE EndStep
  <2>1. busy /\ busy' = FALSE /\ steps' = steps
    BY <1>9 DEF EndStep
  <2> HIDE DEF a, k
  <2> QED
    BY <1>1, <1>3, <1>4, <1>6, <2>1
<1>10. CASE ResolveReturn
  <2>1. Level \in 1..Level /\ Resume(Level) /\ busy
    BY <1>1, <1>10 DEF ResolveReturn
  <2>2. Level' = Level - 1 /\ busy' = waiting[Level].busy /\ steps' = steps
    BY <2>1, Popped DEF Resume
  <2>3. Level \in 2..Level
    BY <1>1, <2>2
  <2>4. busy' = TRUE
    <3>1. waiting[Level].busy
      BY <2>3 DEF StackOK
    <3>2. waiting[Level].busy \in BOOLEAN
      <4>1. waiting[Level] \in MachineState
        BY <2>1 DEF StackOK, Level
      <4> QED
        BY <4>1 DEF MachineState
    <3> QED
      BY <2>2, <3>1, <3>2
  <2> HIDE DEF a, k
  <2> QED
    BY <1>1, <1>3, <1>4, <1>6, <2>1, <2>2, <2>4
<1>11. CASE Fail
  <2>1. 1 \in 1..Level /\ Resume(1)
    BY <1>1, <1>11 DEF Fail
  <2> QED
    BY <2>1, Popped
<1> QED
  BY <1>7, <1>8, <1>9, <1>10, <1>11 DEF ResolverNext

(* However resolvers nest, loop and ask again, a query has taken its last  *)
(* step when that number is used up: it bounds the steps that are left.    *)
THEOREM QueriesAreBounded ==
    ResolverSpec => /\ [](Left \in Nat /\ Left <= MaxSteps * (MaxLevels + 3) + MaxLevels + 1)
                    /\ QueryShrinks
<1>1. StackOK /\ [ResolverNext]_<<machine, query>> => [Shrinks]_<<machine, query>>
  BY QueryStepShrinks
<1>2. StackOK => Left \in Nat /\ Left <= MaxSteps * (MaxLevels + 3) + MaxLevels + 1
  BY LeftNat
<1> QED
  BY <1>1, <1>2, StackInvariant, PTL DEF ResolverSpec, QueryShrinks

-----------------------------------------------------------------------------
(* The chain of activation records.                                        *)

LEMMA Backwards ==
    ASSUME NEW S, NEW f \in Seq(S)
    PROVE  /\ Reverse(f) \in Seq(S)
           /\ Len(Reverse(f)) = Len(f)
           /\ \A i \in 1..Len(f) : Reverse(f)[i] = f[Len(f) - i + 1]
<1>1. Reverse(f) = [i \in 1..Len(f) |-> f[(Len(f) - i) + 1]]
  BY DEF Reverse
<1>2. \A i \in 1..Len(f) : f[(Len(f) - i) + 1] \in S
  <2>1. \A n \in Nat : \A i \in 1..n : n - i + 1 \in 1..n
    OBVIOUS
  <2> QED
    BY <2>1
<1> QED
  BY <1>1, <1>2

(* No chain meets a register twice: what leads back from one place to a    *)
(* root would lead back from the other as well.                            *)
LEMMA ChainMeetsOnce ==
    ASSUME NEW b, NEW c, NEW s \in Seq(Id), IsChain(b, c, s)
    PROVE  \A i, j \in 1..Len(s) : s[i] = s[j] => i = j
<1>1. /\ Len(s) \in Nat /\ Null \notin Id
      /\ \A i \in 1..Len(s) : s[i] \in Id
      /\ \A i \in 1..Len(s) :
             Val(b, s[i]).previous = IF i = 1 THEN Null ELSE s[i - 1]
  BY ChainParts
<1>2. ASSUME NEW i \in 1..Len(s)
      PROVE  /\ SubSeq(s, 1, i) \in Seq(Id) /\ Len(SubSeq(s, 1, i)) = i
             /\ IsChain(b, s[i], SubSeq(s, 1, i))
  <2> DEFINE t == SubSeq(s, 1, i)
  <2>1. /\ t \in Seq(Id) /\ Len(t) = i /\ i \in Nat /\ i # 0
        /\ \A k \in 1..i : k \in 1..Len(s) /\ t[k] = s[k]
    BY <1>1
  <2> HIDE DEF t
  <2>2. t # <<>>
    BY <2>1
  <2>3. \A k \in 1..i : Val(b, t[k]).previous = IF k = 1 THEN Null ELSE t[k - 1]
    <3>1. \A k \in 1..i : k # 1 => k - 1 \in 1..i
      BY <2>1
    <3> QED
      BY <1>1, <2>1, <3>1
  <2>4. IsChain(b, s[i], t)
    BY <2>1, <2>2, <2>3 DEF IsChain
  <2> QED
    BY <2>1, <2>4 DEF t
<1> SUFFICES ASSUME NEW i \in 1..Len(s), NEW j \in 1..Len(s), s[i] = s[j]
             PROVE  i = j
  OBVIOUS
<1>3. SubSeq(s, 1, i) = SubSeq(s, 1, j)
  BY <1>2, ChainUnique
<1> QED
  BY <1>2, <1>3

-----------------------------------------------------------------------------
(* The invariant of the loop.                                              *)

(* If s is the chain that ends in current, the loop has read its end, and  *)
(* reads what comes before it next.                                        *)
Follows(s) ==
    /\ Len(chain) <= Len(s)
    /\ \A i \in 1..Len(chain) : chain[i].storage = s[Len(s) - i + 1]
    /\ reference = IF Len(s) = Len(chain) THEN Null ELSE s[Len(s) - Len(chain)]

Reading ==
    /\ visited = {chain[i].storage : i \in 1..Len(chain)}
    /\ \A i, j \in 1..Len(chain) : chain[i].storage = chain[j].storage => i = j
    /\ current = IF chain = <<>> THEN reference ELSE chain[1].storage
    /\ \A i \in 1..Len(chain) :
          chain[i].record.previous =
              IF i = Len(chain) THEN reference ELSE chain[i + 1].storage
    /\ RecordsStored(bank, chain)
    /\ \A s \in Chains(bank, current) : Follows(s)

LoopOK ==
    /\ chain \in Seq(Frame)
    /\ phase \in {"host", "reload", "loaded", "failed"}
    /\ phase = "host" => chain = <<>>
    /\ phase \in {"reload", "failed"} => Reading
    /\ phase = "loaded" => Linked(chain, current) /\ RecordsStored(bank, chain)
    /\ phase = "failed" =>
          /\ reference # Null
          /\ Seen(reference) \/ reference \notin StoredRecords(bank)

LEMMA ChainsType ==
    ASSUME NEW b, NEW c, NEW s \in Chains(b, c)
    PROVE  s \in Seq(Id) /\ s \in Seq(StoredRecords(b)) /\ IsChain(b, c, s)
<1>1. s \in Seq(StoredRecords(b)) /\ IsChain(b, c, s)
  BY DEF Chains
<1>2. StoredRecords(b) \subseteq Id
  BY DEF StoredRecords
<1> QED
  BY <1>1, <1>2

LEMMA LoopStarts == ChainInit => LoopOK
BY DEF ChainInit, LoopOK

LEMMA BeginStarts ==
    ASSUME Begin
    PROVE  LoopOK'
<1>1. /\ phase' = "reload" /\ reference' = current /\ visited' = {} /\ chain' = <<>>
      /\ bank' = bank /\ current' = current
  BY DEF Begin, vars
<1>2. chain' \in Seq(Frame) /\ Len(chain') = 0 /\ 1..Len(chain') = {}
  BY <1>1
<1>3. \A s \in Chains(bank', current') : Follows(s)'
  <2> SUFFICES ASSUME NEW s \in Chains(bank, current) PROVE Follows(s)'
    BY <1>1
  <2>1. s \in Seq(Id) /\ IsChain(bank, current, s)
    BY ChainsType
  <2>2. Len(s) \in Nat /\ current = IF s = <<>> THEN Null ELSE s[Len(s)]
    BY <2>1, ChainParts
  <2>3. Len(s) = 0 <=> s = <<>>
    BY <2>1
  <2> QED
    BY <1>1, <1>2, <2>2, <2>3 DEF Follows
<1>4. Reading'
  BY <1>1, <1>2, <1>3 DEF Reading, RecordsStored
<1> QED
  BY <1>1, <1>2, <1>4 DEF LoopOK

LEMMA ReadRecordContinues ==
    ASSUME LoopOK, ReadRecord
    PROVE  LoopOK'
<1> DEFINE n == Len(chain)
           x == [record |-> Val(bank, reference), storage |-> reference]
<1>1. /\ phase = "reload" /\ phase' = "reload" /\ reference # Null
      /\ reference \notin visited
      /\ reference \in StoredRecords(bank)
      /\ visited' = visited \cup {reference}
      /\ chain' = Append(chain, x)
      /\ reference' = Val(bank, reference).previous
      /\ bank' = bank /\ current' = current
  BY DEF ReadRecord, Seen, vars
<1>2. chain \in Seq(Frame) /\ Reading
  BY <1>1 DEF LoopOK
<1>3. /\ x \in Frame /\ x.storage = reference /\ x.record = Val(bank, reference)
      /\ x.record.previous = reference' /\ Fits(bank, reference, 0, ActSize)
  BY <1>1 DEF StoredRecords, Frame
<1> HIDE DEF x
<1>4. /\ n \in Nat /\ Len(chain') = n + 1 /\ chain' \in Seq(Frame) /\ chain' # <<>>
      /\ \A i \in 1..n : chain'[i] = chain[i]
      /\ chain'[n + 1] = x
      /\ chain = <<>> <=> n = 0
  BY <1>1, <1>2, <1>3
<1> HIDE DEF n
<1>5. 1..(n + 1) = (1..n) \cup {n + 1} /\ n + 1 \notin 1..n
  BY <1>4
<1>6. n = Len(chain)
  BY DEF n
<1>7. visited' = {chain'[i].storage : i \in 1..Len(chain')}
  BY <1>1, <1>2, <1>3, <1>4, <1>5, <1>6 DEF Reading
<1>8. \A i, j \in 1..Len(chain') : chain'[i].storage = chain'[j].storage => i = j
  <2>1. \A i \in 1..n : chain[i].storage # reference
    BY <1>1, <1>2, <1>6 DEF Reading
  <2> QED
    BY <1>2, <1>3, <1>4, <1>5, <1>6, <2>1 DEF Reading
<1>9. current' = IF chain' = <<>> THEN reference' ELSE chain'[1].storage
  <2>1. CASE n = 0
    BY <1>1, <1>2, <1>3, <1>4, <2>1 DEF Reading
  <2>2. CASE n # 0
    <3>1. 1 \in 1..n
      BY <1>4, <2>2
    <3> QED
      BY <1>1, <1>2, <1>4, <2>2, <3>1 DEF Reading
  <2> QED
    BY <2>1, <2>2
<1>10. \A i \in 1..Len(chain') :
          chain'[i].record.previous =
              IF i = Len(chain') THEN reference' ELSE chain'[i + 1].storage
  <2> SUFFICES ASSUME NEW i \in 1..(n + 1)
               PROVE  chain'[i].record.previous =
                          IF i = n + 1 THEN reference' ELSE chain'[i + 1].storage
    BY <1>4
  <2>1. CASE i = n + 1
    BY <1>3, <1>4, <2>1
  <2>2. CASE i = n
    <3>1. i \in 1..n /\ i + 1 = n + 1 /\ i # n + 1
      BY <1>4, <2>2
    <3> QED
      BY <1>2, <1>3, <1>4, <1>6, <2>2, <3>1 DEF Reading
  <2>3. CASE i # n /\ i # n + 1
    <3>1. i \in 1..n /\ i + 1 \in 1..n
      BY <1>4, <2>3
    <3> QED
      BY <1>2, <1>4, <1>6, <2>3, <3>1 DEF Reading
  <2> QED
    BY <2>1, <2>2, <2>3
<1>11. RecordsStored(bank, chain)'
  <2> SUFFICES ASSUME NEW i \in 1..(n + 1)
               PROVE  /\ Fits(bank, chain'[i].storage, 0, ActSize)
                      /\ Val(bank, chain'[i].storage) = chain'[i].record
    BY <1>1, <1>4 DEF RecordsStored
  <2> QED
    BY <1>2, <1>3, <1>4, <1>5, <1>6 DEF Reading, RecordsStored
<1>12. \A s \in Chains(bank', current') : Follows(s)'
  <2> SUFFICES ASSUME NEW s \in Chains(bank, current) PROVE Follows(s)'
    BY <1>1
  <2>1. s \in Seq(Id) /\ IsChain(bank, current, s)
    BY ChainsType
  <2>2. /\ Len(s) \in Nat
        /\ \A i \in 1..Len(s) :
               Val(bank, s[i]).previous = IF i = 1 THEN Null ELSE s[i - 1]
    BY <2>1, ChainParts
  <2>3. /\ n <= Len(s)
        /\ \A i \in 1..n : chain[i].storage = s[Len(s) - i + 1]
        /\ reference = IF Len(s) = n THEN Null ELSE s[Len(s) - n]
    BY <1>2, <1>6 DEF Reading, Follows
  <2> DEFINE l == Len(s)
  <2> HIDE DEF l
  <2>4. l \in Nat /\ l = Len(s)
    BY <2>2 DEF l
  <2>5. l # n /\ reference = s[l - n]
    BY <1>1, <2>3, <2>4
  <2>6. /\ n + 1 <= l /\ l - n \in 1..l
        /\ l - n = 1 <=> l = n + 1
        /\ (l - n) - 1 = l - (n + 1)
        /\ l - n = l - (n + 1) + 1
    BY <1>4, <2>3, <2>4, <2>5
  <2>7. reference' = IF l = n + 1 THEN Null ELSE s[l - (n + 1)]
    BY <1>1, <2>2, <2>4, <2>5, <2>6
  <2>8. \A i \in 1..(n + 1) : chain'[i].storage = s[l - i + 1]
    <3>1. chain'[n + 1].storage = s[l - (n + 1) + 1]
      BY <1>3, <1>4, <2>5, <2>6
    <3>2. \A i \in 1..n : chain'[i].storage = s[l - i + 1]
      BY <1>4, <2>3, <2>4
    <3> QED
      BY <1>5, <3>1, <3>2
  <2> QED
    BY <1>4, <2>4, <2>6, <2>7, <2>8 DEF Follows
<1>13. Reading'
  BY <1>7, <1>8, <1>9, <1>10, <1>11, <1>12 DEF Reading
<1> QED
  BY <1>1, <1>4, <1>13 DEF LoopOK

LEMMA ReloadEndsLinked ==
    ASSUME LoopOK, ReloadEnds
    PROVE  LoopOK'
<1>1. /\ phase = "reload" /\ phase' = "loaded" /\ reference = Null
      /\ chain' = Reverse(chain) /\ bank' = bank /\ current' = current
  BY DEF ReloadEnds, Ordered, vars
<1>2. chain \in Seq(Frame) /\ Reading
  BY <1>1 DEF LoopOK
<1> DEFINE n == Len(chain)
<1>3. /\ n \in Nat /\ Len(chain') = n /\ chain' \in Seq(Frame)
      /\ \A i \in 1..n : chain'[i] = chain[n - i + 1]
      /\ chain = <<>> <=> n = 0
      /\ chain' = <<>> <=> n = 0
  BY <1>1, <1>2, Backwards
<1> HIDE DEF n
<1>4. n = Len(chain)
  BY DEF n
<1>5. \A i \in 1..n : n - i + 1 \in 1..n
  BY <1>3
<1>6. current = IF chain' = <<>> THEN Null ELSE chain'[n].storage
  <2>1. CASE n = 0
    BY <1>1, <1>2, <1>3, <2>1 DEF Reading
  <2>2. CASE n # 0
    <3>1. n \in 1..n /\ n - n + 1 = 1
      BY <1>3, <2>2
    <3>2. chain'[n] = chain[1]
      BY <1>3, <3>1
    <3> QED
      BY <1>2, <1>3, <2>2, <3>2 DEF Reading
  <2> QED
    BY <2>1, <2>2
<1>7. \A i \in 1..n :
          chain'[i].record.previous = IF i = 1 THEN Null ELSE chain'[i - 1].storage
  <2> SUFFICES ASSUME NEW i \in 1..n
               PROVE  chain'[i].record.previous =
                          IF i = 1 THEN Null ELSE chain'[i - 1].storage
    OBVIOUS
  <2> DEFINE k == n - i + 1
  <2>1. k \in 1..n /\ chain'[i] = chain[k]
    BY <1>3, <1>5
  <2>2. chain[k].record.previous = IF k = n THEN reference ELSE chain[k + 1].storage
    BY <1>2, <1>4, <2>1 DEF Reading
  <2>3. k = n <=> i = 1
    BY <1>3
  <2>4. i # 1 => i - 1 \in 1..n /\ n - (i - 1) + 1 = k + 1
    BY <1>3
  <2> HIDE DEF k
  <2>5. i # 1 => chain'[i - 1] = chain[k + 1]
    BY <1>3, <2>4
  <2> QED
    BY <1>1, <2>1, <2>2, <2>3, <2>5
<1>8. \A i, j \in 1..n : chain'[i].storage = chain'[j].storage => i = j
  <2> SUFFICES ASSUME NEW i \in 1..n, NEW j \in 1..n,
                      chain'[i].storage = chain'[j].storage
               PROVE  i = j
    OBVIOUS
  <2>1. \A k, l \in 1..n : chain[k].storage = chain[l].storage => k = l
    BY <1>2, <1>4 DEF Reading
  <2>2. chain[n - i + 1].storage = chain[n - j + 1].storage
    BY <1>3
  <2>3. n - i + 1 = n - j + 1
    BY <1>5, <2>1, <2>2
  <2> QED
    BY <1>3, <2>3
<1>9. Linked(chain, current)'
  BY <1>1, <1>3, <1>6, <1>7, <1>8 DEF Linked
<1>10. RecordsStored(bank, chain)'
  <2>1. \A k \in 1..n : /\ Fits(bank, chain[k].storage, 0, ActSize)
                        /\ Val(bank, chain[k].storage) = chain[k].record
    BY <1>2, <1>4 DEF Reading, RecordsStored
  <2>2. \A i \in 1..n : /\ Fits(bank, chain'[i].storage, 0, ActSize)
                        /\ Val(bank, chain'[i].storage) = chain'[i].record
    BY <1>3, <1>5, <2>1
  <2> QED
    BY <1>1, <1>3, <2>2 DEF RecordsStored
<1> QED
  BY <1>1, <1>3, <1>9, <1>10 DEF LoopOK

LEMMA LoopKept == LoopOK /\ [ChainNext]_ChainVars => LoopOK'
<1> SUFFICES ASSUME LoopOK, [ChainNext]_ChainVars PROVE LoopOK'
  OBVIOUS
<1>1. CASE Begin
  BY <1>1, BeginStarts
<1>2. CASE ReadRecord
  BY <1>2, ReadRecordContinues
<1>3. CASE ReloadFails
  BY <1>3 DEF ReloadFails, vars, LoopOK, Reading, Follows, RecordsStored, Seen
<1>4. CASE ReloadEnds
  BY <1>4, ReloadEndsLinked
<1>5. CASE Execute
  <2>1. phase' = "host" /\ chain' = <<>> /\ chain' \in Seq(Frame)
    BY <1>5 DEF Execute, Answered
  <2> QED
    BY <2>1 DEF LoopOK
<1>6. CASE Refuse
  <2>1. phase' = "host" /\ chain' = <<>> /\ chain' \in Seq(Frame)
    BY <1>6 DEF Refuse, Answered
  <2> QED
    BY <2>1 DEF LoopOK
<1>7. CASE UNCHANGED ChainVars
  <2>1. /\ bank' = bank /\ current' = current /\ phase' = phase
        /\ reference' = reference /\ visited' = visited /\ chain' = chain
    BY <1>7 DEF ChainVars, vars, loop
  <2>2. /\ Reading' <=> Reading
        /\ Linked(chain, current)' <=> Linked(chain, current)
        /\ RecordsStored(bank, chain)' <=> RecordsStored(bank, chain)
    BY <2>1 DEF Reading, Linked, RecordsStored, Follows
  <2>3. Seen(reference)' <=> Seen(reference)
    BY <2>1 DEF Seen
  <2> QED
    BY <2>1, <2>2, <2>3 DEF LoopOK
<1> QED
  BY <1>1, <1>2, <1>3, <1>4, <1>5, <1>6, <1>7 DEF ChainNext

LEMMA LoopInvariant == ChainSpec => []LoopOK
BY LoopStarts, LoopKept, PTL DEF ChainSpec

(* The loop of reload_activations finds the chain exactly if the registers *)
(* hold one.  When it gives up, the record it stopped at is one no chain   *)
(* leads to: a chain holds records, and it meets none of them twice.       *)
LEMMA LoopFindsChain ==
    ASSUME LoopOK
    PROVE  ReloadFindsChain
<1>1. ASSUME phase = "loaded"
      PROVE  {FramesOf(bank, s) : s \in Chains(bank, current)} = {chain}
  BY <1>1, StoredChainFound DEF LoopOK
<1>2. ASSUME phase = "failed"
      PROVE  {FramesOf(bank, s) : s \in Chains(bank, current)} = {}
  <2> SUFFICES ASSUME NEW s \in Chains(bank, current) PROVE FALSE
    OBVIOUS
  <2>1. s \in Seq(Id) /\ s \in Seq(StoredRecords(bank)) /\ IsChain(bank, current, s)
    BY ChainsType
  <2>2. /\ Reading /\ chain \in Seq(Frame) /\ reference # Null
        /\ reference \in visited \/ reference \notin StoredRecords(bank)
    BY <1>2 DEF LoopOK, Seen
  <2>3. Follows(s)
    BY <2>2 DEF Reading
  <2> DEFINE n == Len(chain)
             l == Len(s)
  <2>4. /\ n \in Nat /\ l \in Nat /\ n <= l
        /\ \A i \in 1..n : chain[i].storage = s[l - i + 1]
        /\ reference = IF l = n THEN Null ELSE s[l - n]
    BY <2>1, <2>2, <2>3 DEF Follows
  <2>5. \A i, j \in 1..l : s[i] = s[j] => i = j
    BY <2>1, ChainMeetsOnce
  <2>6. \A i \in 1..l : s[i] \in StoredRecords(bank)
    BY <2>1
  <2>7. visited = {chain[i].storage : i \in 1..n}
    BY <2>2 DEF Reading
  <2> HIDE DEF n, l
  <2>8. reference = s[l - n] /\ l - n \in 1..l
    BY <2>2, <2>4
  <2>9. PICK i \in 1..n : reference = chain[i].storage
    BY <2>2, <2>6, <2>7, <2>8
  <2>10. l - i + 1 \in 1..l /\ l - i + 1 # l - n
    BY <2>4, <2>9
  <2> QED
    BY <2>4, <2>5, <2>8, <2>9, <2>10
<1> QED
  BY <1>1, <1>2 DEF ReloadFindsChain

(* vm.cpp:309-338: a loaded chain is the one the registers hold, and a     *)
(* failed reload means that they hold none.                                *)
THEOREM ReloadIsExact == ChainSpec => []ReloadFindsChain
<1>1. LoopOK => ReloadFindsChain
  BY LoopFindsChain
<1> QED
  BY <1>1, LoopInvariant, PTL

(* vm.cpp:319: whatever the records lead to, none of them is read twice.   *)
THEOREM NoRecordTwice == ChainSpec => []EachRecordOnce
<1>1. ASSUME LoopOK PROVE EachRecordOnce
  <2>1. DOMAIN chain = 1..Len(chain) /\ Len(chain) \in Nat
    BY <1>1 DEF LoopOK
  <2>2. CASE phase = "host"
    <3>1. Len(chain) = 0 /\ 1..0 = {}
      BY <1>1, <2>2 DEF LoopOK
    <3> QED
      BY <2>1, <3>1 DEF EachRecordOnce
  <2>3. CASE phase \in {"reload", "failed"}
    BY <1>1, <2>1, <2>3 DEF LoopOK, Reading, EachRecordOnce
  <2>4. CASE phase = "loaded"
    BY <1>1, <2>1, <2>4 DEF LoopOK, Linked, EachRecordOnce
  <2> QED
    BY <1>1, <2>2, <2>3, <2>4 DEF LoopOK
<1> QED
  BY <1>1, LoopInvariant, PTL

-----------------------------------------------------------------------------
(* The host's registers.  Whatever a program makes of its records, the     *)
(* note of what each call made is the machine's own, and the ids in it     *)
(* come from an allocator that began above the host's.                     *)

OwnMade ==
    /\ FirstId <= bank.next
    /\ \A h \in Id : \A k \in owned[h] : FirstId <= k

\* The bank c has every register of b, and its allocator is not behind.
Grown(b, c) ==
    /\ b.next <= c.next
    /\ \A h \in Id : Exists(b, h) => Exists(c, h)

HostRegistersStay == \A h \in 0..(FirstId - 1) : Exists(bank, h) => Exists(bank', h)

StepApart == OwnMade' /\ (current' # current => HostRegistersStay)

LEMMA HostIds ==
    /\ FirstId \in Nat /\ FirstId <= MaxId + 1 /\ MaxId \in Nat
    /\ 0..(FirstId - 1) \subseteq Id
<1>1. HostRegisters \in Seq(EntryOf(RegisterContents)) /\ HostFrames \in Seq(HostFrame)
  BY VmAssumption
<1>2. Len(HostRegisters) \in Nat /\ Len(HostFrames) \in Nat
  BY <1>1
<1>3. Len(HostRegisters) + 2 * Len(HostFrames) <= MaxId + 1
  BY VmAssumption
<1> QED
  BY <1>2, <1>3, RegistersAssumption DEF FirstId, Id

LEMMA NextIsNumber ==
    ASSUME NEW b, GoodBank(b)
    PROVE  b.next \in Nat
BY RegistersAssumption DEF GoodBank, IsBank

LEMMA CreateGrows ==
    ASSUME NEW b, GoodBank(b), CanCreate(b),
           NEW c \in RegisterContents, NEW immutable \in BOOLEAN
    PROVE  GoodBank(Create(b, c, immutable)) /\ Grown(b, Create(b, c, immutable))
<1>1. IsBank(b, RegisterContents)
  BY DEF GoodBank
<1>2. /\ IsBank(Create(b, c, immutable), RegisterContents)
      /\ b.next \in Id
      /\ Create(b, c, immutable).next = b.next + 1
      /\ DOMAIN Create(b, c, immutable).entries = DOMAIN b.entries \cup {b.next}
      /\ Create(b, c, immutable).entries[b.next] =
             [contents |-> c, immutable |-> immutable, protected |-> FALSE]
      /\ \A k \in DOMAIN b.entries :
             Create(b, c, immutable).entries[k] = b.entries[k]
  BY <1>1, CreateBank
<1> QED
  BY <1>2, GoodCreate, NextIsNumber DEF Grown, Exists

LEMMA SetContentsGrows ==
    ASSUME NEW b, GoodBank(b), NEW h, Exists(b, h), NEW c \in RegisterContents
    PROVE  GoodBank(SetContents(b, h, c)) /\ Grown(b, SetContents(b, h, c))
<1>1. IsBank(b, RegisterContents)
  BY DEF GoodBank
<1>2. /\ IsBank(SetContents(b, h, c), RegisterContents)
      /\ SetContents(b, h, c).next = b.next
      /\ DOMAIN SetContents(b, h, c).entries = DOMAIN b.entries
      /\ SetContents(b, h, c).entries[h] = [b.entries[h] EXCEPT !.contents = c]
      /\ \A k \in DOMAIN b.entries \ {h} :
             SetContents(b, h, c).entries[k] = b.entries[k]
  BY <1>1, SetContentsBank
<1> QED
  BY <1>2, GoodSetContents, NextIsNumber DEF Grown, Exists

LEMMA SetValGrows ==
    ASSUME NEW b, GoodBank(b), NEW h, Exists(b, h), NEW v \in Value
    PROVE  GoodBank(SetVal(b, h, v)) /\ Grown(b, SetVal(b, h, v))
<1>1. [size |-> Size(b, h), val |-> v] \in RegisterContents
  BY RegisterContentsOf DEF GoodBank, RegisterContents, Value
<1> QED
  BY <1>1, SetContentsGrows DEF SetVal

LEMMA GrownTwice ==
    ASSUME NEW b, NEW c, NEW d, GoodBank(b), GoodBank(c), GoodBank(d),
           Grown(b, c), Grown(c, d)
    PROVE  Grown(b, d)
BY NextIsNumber DEF Grown

LEMMA FinishedGrows ==
    ASSUME NEW m, LocalsOK(m), NEW b, GoodBank(b), NEW next \in NodeRef,
           NEW frames \in Seq(Frame), Len(frames) = m.top,
           CellWritable(b, Modified(m))
    PROVE  GoodBank(Finished(m, b, next, frames)) /\ Grown(b, Finished(m, b, next, frames))
<1> DEFINE b1 == SetVal(b, Modified(m).cell, next)
<1>1. Exists(b, Modified(m).cell) /\ next \in Value
  BY DEF CellWritable, CanChange, Value
<1>2. GoodBank(b1) /\ Grown(b, b1)
  BY <1>1, SetValGrows
<1> HIDE DEF b1
<1>3. /\ Persisted(m, b1, frames).next = b1.next
      /\ DOMAIN Persisted(m, b1, frames).entries = DOMAIN b1.entries
  <2> DEFINE f == [h \in DOMAIN b1.entries |->
                      IF \E i \in Touched(m) : frames[i].storage = h
                      THEN [b1.entries[h] EXCEPT !.contents.val =
                               frames[CHOOSE i \in Touched(m) : frames[i].storage = h].record]
                      ELSE b1.entries[h]]
  <2>1. b1 = [entries |-> b1.entries, next |-> b1.next]
    BY <1>2, BankFields DEF GoodBank
  <2>2. Persisted(m, b1, frames) = [b1 EXCEPT !.entries = f]
    BY DEF Persisted
  <2>3. DOMAIN f = DOMAIN b1.entries
    OBVIOUS
  <2> HIDE DEF f
  <2>4. Persisted(m, b1, frames) = [entries |-> f, next |-> b1.next]
    BY <2>1, <2>2, TableReplaced
  <2> QED
    BY <2>3, <2>4
<1>4. GoodBank(Persisted(m, b1, frames)) /\ Grown(b1, Persisted(m, b1, frames))
  BY <1>2, <1>3, GoodPersisted, NextIsNumber DEF Grown, Exists
<1> QED
  BY <1>2, <1>4, GrownTwice DEF Finished, b1

LEMMA InsertNext ==
    ASSUME NEW b, GoodBank(b), NEW id, CanInsert(b, id),
           NEW c \in RegisterContents, NEW immutable \in BOOLEAN
    PROVE  b.next <= Insert(b, id, c, immutable).next
<1>1. IsBank(b, RegisterContents) /\ b.next \in Nat
  BY NextIsNumber DEF GoodBank
<1>2. /\ IsBank(Insert(b, id, c, immutable), RegisterContents)
      /\ Insert(b, id, c, immutable).next > id
      /\ Insert(b, id, c, immutable).next >= b.next
      /\ DOMAIN Insert(b, id, c, immutable).entries = DOMAIN b.entries \cup {id}
      /\ \A k \in DOMAIN b.entries :
             Insert(b, id, c, immutable).entries[k] = b.entries[k]
  BY <1>1, InsertBank
<1>3. Insert(b, id, c, immutable).next \in Nat
  BY GoodInsert, NextIsNumber
<1> QED
  BY <1>1, <1>2, <1>3

LEMMA ResizedToNext ==
    ASSUME NEW b, GoodBank(b), NEW h \in Id, NEW n \in Nat, CanResizeOrCreate(b, h, n)
    PROVE  b.next <= ResizedTo(b, h, n).next
<1>1. IsBank(b, RegisterContents) /\ b.next \in Nat
  BY NextIsNumber DEF GoodBank
<1>2. CASE Exists(b, h) /\ n = 0
  <2>1. Without(b, h).next = b.next
    BY <1>1, WithoutBank
  <2> QED
    BY <1>1, <1>2, <2>1 DEF ResizedTo, ResizeOrCreate, Resize
<1>3. CASE Exists(b, h) /\ n # 0
  <2>1. Resized(Contents(b, h), n) \in RegisterContents
    BY <1>1, <1>3, RegisterContentsOf, ResizedContents
  <2> DEFINE c == Resized(Contents(b, h), n)
  <2>2. b.next <= SetContents(b, h, c).next
    <3> HIDE DEF c
    <3> QED
      BY <1>3, <2>1, SetContentsGrows DEF Grown, c
  <2> QED
    BY <1>1, <1>3, <2>2 DEF ResizedTo, ResizeOrCreate, Resize
<1>4. CASE ~Exists(b, h) /\ n = 0
  BY <1>1, <1>4 DEF ResizedTo, ResizeOrCreate
<1>5. CASE ~Exists(b, h) /\ n # 0
  <2> DEFINE c == [size |-> n, val |-> Data]
  <2>1. ResizedTo(b, h, n) = Insert(b, h, c, FALSE)
    BY <1>5 DEF ResizedTo, ResizeOrCreate
  <2>2. CanInsert(b, h) /\ c \in RegisterContents /\ FALSE \in BOOLEAN
    BY <1>5, MadeContents DEF CanInsert
  <2> HIDE DEF c
  <2>3. b.next <= Insert(b, h, c, FALSE).next
    BY <2>2, InsertNext
  <2> QED
    BY <2>1, <2>3
<1> QED
  BY <1>2, <1>3, <1>4, <1>5

(* A command that completes: the caller stays the running activation.      *)
LEMMA CompleteApart ==
    ASSUME Inv, OwnMade, NEW m \in Loaded, NEW b, GoodBank(b), bank.next <= b.next,
           NEW next \in NodeRefs, NEW explicit \in Nat \cup {Null}, NEW prefix \in Prefix,
           Complete(m, b, next, explicit, prefix)
    PROVE  StepApart
<1>1. LocalsOK(m) /\ next \in NodeRef
  BY LoadedType, NextNode DEF Inv
<1>2. /\ Advanced(m, explicit, prefix) \in Seq(Frame)
      /\ Len(Advanced(m, explicit, prefix)) = m.top
  BY <1>1, AdvancedType
<1>3. /\ activations' = Advanced(m, explicit, prefix)
      /\ bank' = Finished(m, b, next, activations')
      /\ CellWritable(b, Modified(m))
      /\ current' = current /\ owned' = owned
  BY DEF Complete, CanFinish
<1>4. GoodBank(bank') /\ Grown(b, bank')
  BY <1>1, <1>2, <1>3, FinishedGrows
<1>5. bank.next \in Nat /\ b.next \in Nat /\ bank'.next \in Nat
  BY <1>4, BankGood, NextIsNumber
<1>6. FirstId <= bank'.next
  BY <1>4, <1>5, HostIds DEF OwnMade, Grown
<1> QED
  BY <1>3, <1>6 DEF StepApart, OwnMade

(* A call: every id it notes as its own is one it got from the allocator.  *)
LEMMA EnterCallApart ==
    ASSUME Inv, OwnMade, NEW b, GoodBank(b), Grown(bank, b),
           NEW frames \in Seq(Frame), frames # <<>>,
           NEW procedure \in Id, NEW entry \in NodeRef \cup {Null},
           NEW ownsProcedure \in BOOLEAN, ownsProcedure => FirstId <= procedure,
           EnterCall(b, frames, procedure, entry, ownsProcedure)
    PROVE  StepApart
<1> DEFINE caller == frames[Len(frames)].record
           newCell == entry # NoEntry
           b1 == IF newCell THEN Create(b, Cell(entry), FALSE) ELSE b
           b2 == Create(b1, Empty, FALSE)
           cell == IF newCell THEN b.next ELSE caller.cell
           record == [procedure |-> procedure, position |-> 0, cell |-> cell,
                      localResolver |-> caller.localResolver,
                      previous |-> frames[Len(frames)].storage, result |-> b1.next,
                      prefix |-> NoPrefix]
           own == Owned(b2.next, record, newCell, ownsProcedure)
<1>1. /\ newCell => CanCreate(b)
      /\ CanCreate(b1)
      /\ CanCreate(b2)
      /\ bank' = Create(b2, Stored(record), FALSE)
      /\ owned' = [owned EXCEPT ![b2.next] = own]
  BY DEF EnterCall
<1>2. caller \in ActivationRecord /\ frames[Len(frames)].storage \in Id
  <2>1. frames[Len(frames)] \in Frame
    OBVIOUS
  <2> QED
    BY <2>1 DEF Frame
<1>3. owned \in [Id -> SUBSET Id] /\ FALSE \in BOOLEAN /\ GoodBank(bank)
  BY BankGood DEF Inv, TypeOK
<1>4. GoodBank(b1) /\ cell \in Id /\ Grown(b, b1) /\ (newCell => cell = b.next)
  <2>1. CASE newCell
    <3>1. Cell(entry) \in RegisterContents
      BY <2>1, MadeContents DEF NoEntry
    <3> QED
      BY <1>1, <1>3, <2>1, <3>1, CreateGrows, GoodCreate
  <2>2. CASE ~newCell
    BY <1>2, <2>2, NextIsNumber DEF ActivationRecord, Grown
  <2> QED
    BY <2>1, <2>2
<1> HIDE DEF b1, cell
<1>5. GoodBank(b2) /\ b1.next \in Id /\ Grown(b1, b2)
  BY <1>1, <1>3, <1>4, MadeContents, CreateGrows, GoodCreate
<1> HIDE DEF b2
<1>6. record \in ActivationRecord
  BY <1>2, <1>3, <1>4, <1>5, NoPrefixType DEF ActivationRecord
<1>7. /\ record.procedure = procedure /\ record.result = b1.next
      /\ record.cell = cell
  OBVIOUS
<1> HIDE DEF record
<1>8. GoodBank(bank') /\ b2.next \in Id /\ Grown(b2, bank')
  BY <1>1, <1>3, <1>5, <1>6, MadeContents, CreateGrows, GoodCreate
<1>9. Grown(bank, bank')
  BY <1>3, <1>4, <1>5, <1>8, GrownTwice
<1>10. /\ FirstId <= bank'.next /\ FirstId <= b2.next
       /\ FirstId <= b1.next /\ FirstId <= b.next
  <2>1. /\ bank.next \in Nat /\ b.next \in Nat /\ b1.next \in Nat /\ b2.next \in Nat
        /\ bank'.next \in Nat /\ FirstId \in Nat
    BY <1>3, <1>4, <1>5, <1>8, NextIsNumber, HostIds
  <2>2. /\ FirstId <= bank.next /\ bank.next <= b.next /\ b.next <= b1.next
        /\ b1.next <= b2.next /\ b2.next <= bank'.next
    BY <1>4, <1>5, <1>8 DEF OwnMade, Grown
  <2> QED
    BY <2>1, <2>2
<1>11. \A k \in own : FirstId <= k
  BY <1>4, <1>7, <1>10 DEF Owned
<1> HIDE DEF own
<1>12. \A h \in Id : \A k \in owned'[h] : FirstId <= k
  BY <1>1, <1>3, <1>8, <1>11 DEF OwnMade
<1>13. HostRegistersStay
  BY <1>9, HostIds DEF HostRegistersStay, Grown
<1> QED
  BY <1>10, <1>12, <1>13 DEF StepApart, OwnMade

LEMMA CompleteAndCallApart ==
    ASSUME Inv, OwnMade, NEW m \in Loaded, NEW b, GoodBank(b), Grown(bank, b),
           NEW next \in NodeRefs,
           NEW procedure \in Id, NEW entry \in NodeRef \cup {Null},
           NEW ownsProcedure \in BOOLEAN, ownsProcedure => FirstId <= procedure,
           CompleteAndCall(m, b, next, procedure, entry, ownsProcedure)
    PROVE  StepApart
<1> DEFINE frames == Advanced(m, NoPosition, NoPrefix)
           b1 == Finished(m, b, next, frames)
<1>1. LocalsOK(m) /\ next \in NodeRef
  BY LoadedType, NextNode DEF Inv
<1>2. NoPosition \in Nat \cup {Null} /\ NoPrefix \in Prefix
  BY NoPrefixType DEF NoPosition
<1>3. /\ Advanced(m, NoPosition, NoPrefix) \in Seq(Frame)
      /\ Len(Advanced(m, NoPosition, NoPrefix)) = m.top
      /\ Advanced(m, NoPosition, NoPrefix) # <<>>
  BY <1>1, <1>2, AdvancedType
<1>4. /\ CellWritable(b, Modified(m))
      /\ EnterCall(b1, frames, procedure, entry, ownsProcedure)
  BY DEF CompleteAndCall, CanFinish
<1>5. frames \in Seq(Frame) /\ Len(frames) = m.top /\ frames # <<>>
  BY <1>3
<1> HIDE DEF frames
<1>6. GoodBank(b1) /\ Grown(b, b1)
  BY <1>1, <1>4, <1>5, FinishedGrows
<1> HIDE DEF b1
<1>7. Grown(bank, b1)
  BY <1>6, BankGood, GrownTwice
<1> QED
  BY <1>4, <1>5, <1>6, <1>7, EnterCallApart

LEMMA CallApart ==
    ASSUME Inv, OwnMade, NEW m \in Loaded,
           \/ CallNode(m) \/ SwitchProcedure(m) \/ SwitchNetwork(m)
           \/ SwitchProcedureAndNetwork(m)
    PROVE  StepApart
<1>1. /\ LocalsOK(m) /\ GoodBank(bank) /\ FALSE \in BOOLEAN /\ TRUE \in BOOLEAN
      /\ NoEntry \in NodeRef \cup {Null} /\ NodeRefs \subseteq NodeRef
  BY LoadedType, BankGood, NextNode DEF Inv, NoEntry
<1>2. Grown(bank, bank)
  BY <1>1, NextIsNumber DEF Grown
<1>3. CASE CallNode(m)
  <2>1. PICK next \in NodeRefs, entry \in NodeRefs, procedure \in Id :
            /\ CanChange(bank, Owner(m).cell)
            /\ EnterCall(SetVal(bank, Owner(m).cell, next), m.frames,
                         procedure, entry, FALSE)
    BY <1>3 DEF CallNode
  <2> DEFINE b == SetVal(bank, Owner(m).cell, next)
  <2>2. Exists(bank, Owner(m).cell) /\ next \in Value
    BY <1>1, <2>1 DEF CanChange, Value
  <2>3. GoodBank(b) /\ Grown(bank, b)
    BY <1>1, <2>2, SetValGrows
  <2>4. m.frames \in Seq(Frame) /\ m.frames # <<>>
    BY <1>1 DEF LocalsOK
  <2>5. EnterCall(b, m.frames, procedure, entry, FALSE) /\ entry \in NodeRef \cup {Null}
    BY <1>1, <2>1
  <2> HIDE DEF b
  <2> QED
    BY <1>1, <2>3, <2>4, <2>5, EnterCallApart
<1>4. CASE SwitchProcedure(m)
  BY <1>1, <1>2, <1>4, CompleteAndCallApart DEF SwitchProcedure
<1>5. CASE SwitchNetwork(m)
  <2>1. Record(m, m.read) \in ActivationRecord
    BY <1>1, RecordType DEF LocalsOK
  <2>2. Reader(m).procedure \in Id
    BY <2>1 DEF Reader, ActivationRecord
  <2>3. PICK next \in NodeRefs, entry \in NodeRefs :
            CompleteAndCall(m, bank, next, Reader(m).procedure, entry, FALSE)
    BY <1>5 DEF SwitchNetwork
  <2>4. entry \in NodeRef \cup {Null}
    BY <1>1
  <2> HIDE DEF Reader
  <2> QED
    BY <1>1, <1>2, <2>2, <2>3, <2>4, CompleteAndCallApart
<1>6. CASE SwitchProcedureAndNetwork(m)
  <2>1. PICK next \in NodeRefs, entry \in NodeRefs, size \in Sizes :
            /\ CanCreate(bank)
            /\ CompleteAndCall(m, Create(bank, [size |-> size, val |-> Code], TRUE),
                               next, bank.next, entry, TRUE)
    BY <1>6 DEF SwitchProcedureAndNetwork
  <2> DEFINE c == [size |-> size, val |-> Code]
             b == Create(bank, c, TRUE)
  <2>2. c \in RegisterContents
    BY MadeContents, VmAssumption
  <2>3. CompleteAndCall(m, b, next, bank.next, entry, TRUE)
    BY <2>1
  <2> HIDE DEF c
  <2>4. GoodBank(b) /\ Grown(bank, b) /\ bank.next \in Id
    BY <1>1, <2>1, <2>2, CreateGrows, GoodCreate
  <2> HIDE DEF b
  <2>5. entry \in NodeRef \cup {Null} /\ FirstId <= bank.next
    BY <1>1 DEF OwnMade
  <2> QED
    BY <1>1, <2>3, <2>4, <2>5, CompleteAndCallApart
<1> QED
  BY <1>3, <1>4, <1>5, <1>6

(* A return deletes what the call made and nothing else, whoever the       *)
(* records say the callers are.                                            *)
LEMMA FinishCallApart ==
    ASSUME Inv, OwnMade, NEW m \in Loaded, FinishCall(m)
    PROVE  StepApart
<1>1. /\ bank' = Discarded(bank, owned[current])
      /\ owned' = [owned EXCEPT ![current] = {}]
  BY DEF FinishCall
<1>2. owned \in [Id -> SUBSET Id] /\ GoodBank(bank) /\ bank.next \in Nat
  BY BankGood, NextIsNumber DEF Inv, TypeOK
<1>3. current \in Id
  <2>1. PICK s \in Chains(bank, current) : s # <<>>
    BY DEF Loaded
  <2>2. s \in Seq(Id) /\ IsChain(bank, current, s)
    BY ChainsType
  <2>3. current = s[Len(s)] /\ Len(s) \in 1..Len(s)
    BY <2>1, <2>2, ChainParts
  <2> QED
    BY <2>2, <2>3
<1>4. /\ bank'.next = bank.next
      /\ DOMAIN bank'.entries = DOMAIN bank.entries \ owned[current]
  <2> DEFINE f == [h \in DOMAIN bank.entries \ owned[current] |-> bank.entries[h]]
  <2>1. bank = [entries |-> bank.entries, next |-> bank.next]
    BY <1>2, BankFields DEF GoodBank
  <2>2. bank' = [bank EXCEPT !.entries = f]
    BY <1>1 DEF Discarded
  <2>3. DOMAIN f = DOMAIN bank.entries \ owned[current]
    OBVIOUS
  <2> HIDE DEF f
  <2>4. bank' = [entries |-> f, next |-> bank.next]
    BY <2>1, <2>2, TableReplaced
  <2> QED
    BY <2>3, <2>4
<1>5. OwnMade'
  <2>1. FirstId <= bank'.next
    BY <1>4 DEF OwnMade
  <2>2. \A h \in Id : \A k \in owned'[h] : FirstId <= k
    BY <1>1, <1>2, <1>3 DEF OwnMade
  <2> QED
    BY <2>1, <2>2 DEF OwnMade
<1>6. HostRegistersStay
  <2>1. \A h \in 0..(FirstId - 1) : h \notin owned[current]
    <3>1. \A k \in owned[current] : FirstId <= k
      BY <1>3 DEF OwnMade
    <3> QED
      BY <3>1, HostIds
  <2> QED
    BY <1>4, <2>1 DEF HostRegistersStay, Exists
<1> QED
  BY <1>5, <1>6 DEF StepApart

LEMMA SuppressedFinishApart ==
    ASSUME Inv, OwnMade, NEW m \in Loaded, SuppressedFinish(m)
    PROVE  StepApart
<1>1. PICK v \in ActivationRecord : bank' = SetVal(bank, current, v)
  <2>1. LocalsOK(m)
    BY LoadedType DEF Inv
  <2>2. m.top \in 1..m.top /\ m.frames \in Seq(Frame) /\ m.top = Len(m.frames)
    BY <2>1 DEF LocalsOK
  <2>3. m.frames[m.top].record \in ActivationRecord
    BY <2>1, <2>2, RecordType DEF Record
  <2> DEFINE f == [m.frames EXCEPT ![m.top].record.prefix = NoPrefix]
  <2>4. f[m.top].record = [m.frames[m.top].record EXCEPT !.prefix = NoPrefix]
    <3>1. m.frames[m.top] \in Frame
      BY <2>1, <2>2, RecordType
    <3>2. m.top \in DOMAIN m.frames
      BY <2>2
    <3> QED
      BY <3>1, <3>2 DEF Frame
  <2>5. f[m.top].record \in ActivationRecord
    BY <2>3, <2>4, NoPrefixType DEF ActivationRecord
  <2>6. bank' = SetVal(bank, current, f[m.top].record)
    BY DEF SuppressedFinish
  <2> HIDE DEF f
  <2> QED
    BY <2>5, <2>6
<1>2. /\ current' = current /\ owned' = owned /\ Exists(bank, current)
  BY DEF SuppressedFinish, CanChange
<1>3. v \in Value
  BY DEF Value
<1>4. GoodBank(bank') /\ Grown(bank, bank') /\ GoodBank(bank)
  BY <1>1, <1>2, <1>3, BankGood, SetValGrows
<1>5. bank.next \in Nat /\ bank'.next \in Nat /\ bank.next <= bank'.next
  BY <1>4, NextIsNumber DEF Grown
<1>6. FirstId <= bank'.next
  BY <1>5, HostIds DEF OwnMade
<1> QED
  BY <1>2, <1>6 DEF StepApart, OwnMade

LEMMA CommandApart ==
    ASSUME Inv, OwnMade, NEW m \in Loaded,
           \/ SuppressedCommand(m) \/ ReadPrefix(m) \/ ModifyPrefix(m)
           \/ ConditionPrefix(m) \/ Branch(m) \/ StoreData(m) \/ ReturnResult(m)
           \/ SetProcedurePosition(m) \/ ResizeRegister(m)
    PROVE  StepApart
<1>1. /\ NoPosition \in Nat \cup {Null} /\ NoPrefix \in Prefix
      /\ GoodBank(bank) /\ bank.next <= bank.next
  BY NoPrefixType, BankGood, NextIsNumber DEF NoPosition
<1>2. CASE SuppressedCommand(m) \/ Branch(m)
  BY <1>1, <1>2, CompleteApart DEF SuppressedCommand, Branch
<1>3. CASE SetProcedurePosition(m)
  <2>1. PICK next \in NodeRefs, position \in 0..Size(bank, Modified(m).procedure) :
            Complete(m, bank, next, position, NoPrefix)
    BY <1>3 DEF SetProcedurePosition
  <2>2. position \in Nat \cup {Null}
    OBVIOUS
  <2> QED
    BY <1>1, <2>1, <2>2, CompleteApart
<1>4. CASE ReadPrefix(m) \/ ModifyPrefix(m)
  <2>1. PICK next \in NodeRefs, kind \in {"read", "modify"}, depth \in Depths(m) :
            SetPrefix(m, next, [kind |-> kind, depth |-> depth, condition |-> FALSE])
    BY <1>4 DEF ReadPrefix, ModifyPrefix
  <2>2. [kind |-> kind, depth |-> depth, condition |-> FALSE] \in Prefix
    BY DEF Prefix, Depths
  <2>3. Complete(m, bank, next, NoPosition,
                 [kind |-> kind, depth |-> depth, condition |-> FALSE])
    BY <2>1 DEF SetPrefix
  <2> QED
    BY <1>1, <2>2, <2>3, CompleteApart
<1>5. CASE ConditionPrefix(m)
  <2>1. PICK next \in NodeRefs, condition \in BOOLEAN :
            SetPrefix(m, next, [kind |-> "condition", depth |-> 0,
                                condition |-> condition])
    BY <1>5 DEF ConditionPrefix
  <2>2. [kind |-> "condition", depth |-> 0, condition |-> condition] \in Prefix
    BY DEF Prefix
  <2>3. Complete(m, bank, next, NoPosition, [kind |-> "condition", depth |-> 0,
                                             condition |-> condition])
    BY <2>1 DEF SetPrefix
  <2> QED
    BY <1>1, <2>2, <2>3, CompleteApart
<1>6. CASE StoreData(m)
  <2>1. PICK next \in NodeRefs, h \in Targets, v \in Values(m) :
            /\ CanChange(bank, h)
            /\ Complete(m, SetVal(bank, h, v), next, NoPosition, NoPrefix)
    BY <1>6 DEF StoreData, DestinationOK
  <2>2. v \in Value
    <3>1. LocalsOK(m)
      BY LoadedType DEF Inv
    <3>2. \A i \in 1..m.top : Record(m, i) \in ActivationRecord
      BY <3>1, RecordType
    <3> QED
      BY <3>2, NextNode DEF Values, Value
  <2>3. GoodBank(SetVal(bank, h, v)) /\ Grown(bank, SetVal(bank, h, v))
    BY <1>1, <2>1, <2>2, SetValGrows DEF CanChange
  <2> QED
    BY <1>1, <2>1, <2>3, CompleteApart DEF Grown
<1>7. CASE ReturnResult(m)
  <2>1. PICK next \in NodeRefs, size \in Sizes \cup {0} :
            LET result == m.frames[m.modify - 1].record.result
            IN  /\ CanChange(bank, result)
                /\ Complete(m, SetContents(bank, result, [size |-> size, val |-> Data]),
                            next, NoPosition, NoPrefix)
    BY <1>7 DEF ReturnResult
  <2> DEFINE result == m.frames[m.modify - 1].record.result
             c == [size |-> size, val |-> Data]
  <2>2. /\ CanChange(bank, result)
        /\ Complete(m, SetContents(bank, result, c), next, NoPosition, NoPrefix)
    BY <2>1
  <2>3. c \in RegisterContents
    BY MadeContents, VmAssumption
  <2> HIDE DEF result, c
  <2>4. GoodBank(SetContents(bank, result, c)) /\ Grown(bank, SetContents(bank, result, c))
    BY <1>1, <2>2, <2>3, SetContentsGrows DEF CanChange
  <2> QED
    BY <1>1, <2>2, <2>4, CompleteApart DEF Grown
<1>8. CASE ResizeRegister(m)
  <2>1. PICK next \in NodeRefs, h \in Targets, size \in Sizes \cup {0} :
            /\ CanResizeOrCreate(bank, h, size)
            /\ Complete(m, ResizedTo(bank, h, size), next, NoPosition, NoPrefix)
    BY <1>8 DEF ResizeRegister
  <2>2. h \in Id /\ size \in Nat
    BY VmAssumption
  <2>3. GoodBank(ResizedTo(bank, h, size)) /\ bank.next <= ResizedTo(bank, h, size).next
    BY <1>1, <2>1, <2>2, GoodResizedTo, ResizedToNext
  <2> QED
    BY <1>1, <2>1, <2>3, CompleteApart
<1> QED
  BY <1>2, <1>3, <1>4, <1>5, <1>6, <1>7, <1>8

LEMMA NextApart ==
    ASSUME Inv, OwnMade, Next
    PROVE  StepApart
BY CallApart, FinishCallApart, SuppressedFinishApart, CommandApart DEF Next

LEMMA InitApart == Init => OwnMade
<1> SUFFICES ASSUME Init PROVE OwnMade
  OBVIOUS
<1> DEFINE n == Len(HostFrames)
<1>1. /\ bank.next = FirstId + 2 * n
      /\ owned = [h \in Id |->
             IF \E i \in 1..n : h = HostStorage(i) THEN {h - 1, h} ELSE {}]
  BY DEF Init
<1>2. n \in Nat \ {0} /\ FirstId \in Nat
  BY HostTypes
<1> HIDE DEF n
<1>3. \A i \in 1..n : FirstId <= HostStorage(i) - 1 /\ FirstId <= HostStorage(i)
  BY <1>2 DEF HostStorage
<1>4. FirstId <= bank.next
  BY <1>1, <1>2
<1> QED
  BY <1>1, <1>3, <1>4 DEF OwnMade

ChainInv == Inv /\ OwnMade

LEMMA ChainInvariant ==
    /\ ChainInit => ChainInv
    /\ ChainInv /\ [ChainNext]_ChainVars => ChainInv'
<1>1. ChainInit => ChainInv
  BY InitType, InitApart DEF ChainInit, ChainInv
<1>2. ASSUME ChainInv, [ChainNext]_ChainVars PROVE ChainInv'
  <2>1. CASE UNCHANGED vars
    <3>1. Inv'
      BY <1>2, <2>1, StepType DEF ChainInv
    <3>2. OwnMade'
      BY <1>2, <2>1 DEF ChainInv, OwnMade, vars
    <3> QED
      BY <3>1, <3>2 DEF ChainInv
  <2>2. CASE Next
    <3>1. Inv'
      BY <1>2, <2>2, StepType DEF ChainInv
    <3>2. OwnMade'
      BY <1>2, <2>2, NextApart DEF ChainInv, StepApart
    <3> QED
      BY <3>1, <3>2 DEF ChainInv
  <2> QED
    BY <1>2, <2>1, <2>2 DEF ChainNext, ChainVars, Begin, ReadRecord, ReloadFails,
                            ReloadEnds, Execute, Refuse
<1> QED
  BY <1>1, <1>2

(* vm.cpp:806: a return deletes only what calls made, also when the record *)
(* that returns has been forged, and a call deletes nothing: the host's    *)
(* own registers outlive both.                                             *)
THEOREM HostRegistersOutliveCalls == ChainSpec => ReturnsKeepHostRegisters
<1>1. ASSUME ChainInv, [ChainNext]_ChainVars
      PROVE  [current' # current => HostRegistersStay]_ChainVars
  <2>1. CASE UNCHANGED vars
    BY <2>1 DEF vars
  <2>2. CASE Next
    BY <1>1, <2>2, NextApart DEF ChainInv, StepApart
  <2> QED
    BY <1>1, <2>1, <2>2 DEF ChainNext, ChainVars, Begin, ReadRecord, ReloadFails,
                            ReloadEnds, Execute, Refuse
<1>2. ChainSpec => [][current' # current => HostRegistersStay]_ChainVars
  BY <1>1, ChainInvariant, PTL DEF ChainSpec
<1> QED
  BY <1>2 DEF ReturnsKeepHostRegisters, HostRegistersStay
=============================================================================
