------------------------------ MODULE Operand -------------------------------
(***************************************************************************)
(* src/src/operand.cpp as COPY uses it (src/src/vm.cpp): the source        *)
(* reference is chased through memory to a range of bits, which is read;   *)
(* then the destination reference is chased and the bits are written.      *)
(* Programs copy references like any bits, so the chains they chase are of *)
(* their own making and may lead in a circle.                              *)
(*                                                                         *)
(* A unit of memory is one encoded reference or one bit.  An activation is *)
(* its index, the root being 1; the operands of one command may belong to  *)
(* two activations, chosen by a prefix.                                    *)
(***************************************************************************)
EXTENDS Integers, Sequences, FiniteSets

CONSTANTS
    Sizes,       \* the size of each register: [Registers -> Nat]
    ReadOnly,    \* the registers that may not be written
    Base,        \* what each activation's names resolve to: a sequence of [names -> place]
    LocalNames,  \* the names of the local class
    MaxOffset,   \* 2^64 - 1
    MaxDepth,    \* max_indirection_depth: 64
    Operands,    \* bound: the references in commands
    Memories,    \* bound: what registers hold at first
    MaxCommands  \* bound: the commands run

Registers == DOMAIN Sizes
Activations == DOMAIN Base
Bit(b) == [mode |-> "bit", bit |-> b]
Zero == Bit(0)
IsReference(u) == u.mode # "bit"

Names == LocalNames \cup UNION {DOMAIN Base[i] : i \in Activations}
Offset == 0..MaxOffset

\* Bound: immediates are 0 and 1.
Reference ==
    [mode: {"immediate"}, n: {0, 1}]
        \cup [mode: {"direct", "indirect"}, name: Names, offset: Offset]
        \cup [mode: {"foreign"}, depth: Nat, indirect: BOOLEAN, name: LocalNames,
              offset: Offset]
Unit == Reference \cup {Bit(0), Bit(1)}

\* What the registers hold has the size of each.
IsMemory(m) ==
    /\ m \in [Registers -> Seq(Unit)]
    /\ \A r \in Registers : Len(m[r]) = Sizes[r]

ASSUME OperandAssumption ==
    /\ MaxOffset \in Nat /\ MaxDepth \in Nat /\ MaxCommands \in Nat
    /\ \A r \in Registers : Sizes[r] \in Offset
    /\ Activations = 1..Len(Base) /\ Len(Base) \in Nat
    /\ \A i \in Activations : \A n \in DOMAIN Base[i] :
        Base[i][n].register \in Registers /\ Base[i][n].offset \in Offset
    /\ Operands \subseteq Reference
    /\ \A m \in Memories : IsMemory(m)

VARIABLES
    memory,   \* the contents of every register
    phase,    \* "idle", "source", "destination" or "error"
    context,  \* the activation the operand belongs to
    now,      \* the reference being resolved
    depth,    \* the indirections so far
    trail,    \* the places whose references were followed, and where they led
    bits,     \* what the source gave
    commands  \* how many commands were begun

chase == <<context, now, depth, trail>>
vars == <<memory, phase, context, now, depth, trail, bits, commands>>

Place(r, offset) == [register |-> r, offset |-> offset]

Init ==
    /\ memory \in Memories
    /\ phase = "idle"
    /\ context = 1 /\ now = Zero /\ depth = 0 /\ trail = {}
    /\ bits = <<>>
    /\ commands = 0

-----------------------------------------------------------------------------

\* resolve_address: no place when the name is not known ("resolver is
\* unavailable") or "resolved register offset overflows".
Address(i, name, offset) ==
    {Place(Base[i][n].register, Base[i][n].offset + offset) :
        n \in {m \in {name} \cap DOMAIN Base[i] : offset <= MaxOffset - Base[i][m].offset}}

\* The place a reference names.  "activation depth is out of range"
Location(i, r) ==
    CASE r.mode = "immediate" -> {}
      [] r.mode \in {"direct", "indirect"} -> Address(i, r.name, r.offset)
      [] r.mode = "foreign" -> IF r.depth >= i THEN {} ELSE Address(i - r.depth, r.name, r.offset)

Follows(r) == r.mode = "indirect" \/ (r.mode = "foreign" /\ r.indirect)

\* The reference stored at a place.  "indirect reference address is out of
\* range", or nothing there that decodes.
Stored(place) ==
    {u \in {memory[place.register][k] : k \in {place.offset + 1} \cap DOMAIN memory[place.register]} :
        IsReference(u)}

ContextSwitched(i, r) == IF r.mode = "foreign" THEN i - r.depth ELSE i  \* Mutated

\* A nested reference is resolved where the operand is.
ContextAfter(i, r) == i

DepthOfIndirect(r) == IF r.mode = "indirect" THEN depth + 1 ELSE depth  \* Mutated: foreign ones are not counted
DepthAfter(r) == depth + 1

Chasing == phase \in {"source", "destination"}
WithinDepth == depth <= MaxDepth

\* One call of resolve_reference_impl that calls itself.
Follow ==
    /\ Chasing /\ WithinDepth /\ Follows(now)
    /\ \E place \in Location(context, now) : \E r \in Stored(place) :
        /\ now' = r
        /\ trail' = trail \union {[reference |-> now, place |-> place]}
        /\ context' = ContextAfter(context, now)
        /\ depth' = DepthAfter(now)
    /\ UNCHANGED <<memory, phase, bits, commands>>

-----------------------------------------------------------------------------

Begin(p, i, r) ==
    /\ phase' = p
    /\ context' = i /\ now' = r /\ depth' = 0 /\ trail' = {}

BeginSource(i, r) ==
    /\ phase = "idle"
    /\ commands < MaxCommands
    /\ commands' = commands + 1
    /\ Begin("source", i, r)
    /\ UNCHANGED <<memory, bits>>

BitsAt(place, count) == SubSeq(memory[place.register], place.offset + 1, place.offset + count)
Holds(place, count) ==
    place.offset <= Sizes[place.register] /\ count <= Sizes[place.register] - place.offset

\* Where the chase ends.
Arrived == {place \in Location(context, now) : WithinDepth /\ ~Follows(now)}

\* A number without leading zeros: nothing at all for 0.
ImmediateBits(n) == IF n = 0 THEN <<>> ELSE <<Bit(n)>>

\* read_source_bits, then the destination of the same command.
ReadImmediate(i, r) ==
    /\ phase = "source" /\ WithinDepth /\ now.mode = "immediate"
    /\ bits' = ImmediateBits(now.n)
    /\ Begin("destination", i, r)
    /\ UNCHANGED <<memory, commands>>

ReadBits(count, i, r) ==
    /\ phase = "source"
    /\ \E place \in Arrived :
        /\ Holds(place, count)
        /\ bits' = BitsAt(place, count)
    /\ Begin("destination", i, r)
    /\ UNCHANGED <<memory, commands>>

FilledPart(place, value) == value \o SubSeq(  \* Mutated: the tail is kept
    memory[place.register], place.offset + Len(value) + 1, Sizes[place.register])

\* The value, resized to the rest of the register.
Filled(place, value) ==
    value \o [k \in 1..(Sizes[place.register] - place.offset - Len(value)) |-> Zero]

\* validate_destination
DestinationOK(place, value) == place.register \notin ReadOnly /\ Holds(place, Len(value))

Write ==
    /\ phase = "destination"
    /\ \E place \in Arrived :
        /\ DestinationOK(place, bits)
        /\ memory' = [memory EXCEPT ![place.register] =
                        SubSeq(@, 1, place.offset) \o Filled(place, bits)]
    /\ phase' = "idle" /\ bits' = <<>>
    /\ UNCHANGED <<chase, commands>>

\* Every error ends the command and leaves memory as it was; the command may
\* be tried again.
Stuck(count) ==
    \/ ~WithinDepth
    \/ now.mode = "immediate" /\ phase = "destination"
    \/ now.mode # "immediate" /\ Location(context, now) = {}
    \/ Follows(now) /\ \E place \in Location(context, now) : Stored(place) = {}
    \/ \E place \in Arrived :
        IF phase = "source" THEN ~Holds(place, count) ELSE ~DestinationOK(place, bits)

Fail(count) ==
    /\ Chasing
    /\ Stuck(count)
    /\ phase' = "error" /\ bits' = <<>>
    /\ UNCHANGED <<memory, chase, commands>>

Recover ==
    /\ phase = "error"
    /\ phase' = "idle"
    /\ UNCHANGED <<memory, chase, bits, commands>>

Counts == 0..2  \* bound: the bits a source takes

Proceed ==
    \/ Follow
    \/ \E i \in Activations, r \in Operands : ReadImmediate(i, r)
    \/ \E count \in Counts, i \in Activations, r \in Operands : ReadBits(count, i, r)
    \/ Write
    \/ \E count \in Counts : Fail(count)

Next ==
    \/ Proceed
    \/ Recover
    \/ \E i \in Activations, r \in Operands : BeginSource(i, r)

\* A command is a loop of the code: nothing stops it on the way.
Fairness == WF_vars(Proceed)

Spec == Init /\ [][Next]_vars /\ Fairness

-----------------------------------------------------------------------------

(* However references lead to each other, also in a circle that copies     *)
(* have made, a command ends.                                              *)
CommandEnds == Chasing ~> ~Chasing

IsExact(i, r, place) ==
    LET j == IF r.mode = "foreign" THEN i - r.depth ELSE i
    IN  /\ j \in Activations
        /\ place = Place(Base[j][r.name].register, Base[j][r.name].offset + r.offset)
        /\ place.offset <= MaxOffset

(* docs/specification-v2.md, sections 4 and 5: a chase that ends at a      *)
(* place went by exact sums through places inside their registers, none of *)
(* them twice, each reference on the way resolved in the activation the    *)
(* operand belongs to, also after a foreign one, and in at most MaxDepth   *)
(* levels.                                                                 *)
ResolvesInOwnContext ==
    Chasing =>
        \E i \in Activations :
            /\ \A t \in trail :
                /\ IsExact(i, t.reference, t.place)
                /\ t.place.offset < Sizes[t.place.register]
            /\ \A place \in Arrived :
                /\ IsExact(i, now, place)
                /\ Cardinality({t.place : t \in trail}) = depth
                /\ depth <= MaxDepth

(* A command changes memory in one place only, and only when it has        *)
(* succeeded: from the destination to the end of its register stand the    *)
(* bits of the source and then zeros, in a register that may be written.   *)
WritesValueAndZeros ==
    [][memory' # memory =>
        /\ phase = "destination"
        /\ \E r \in Registers \ ReadOnly, offset \in 0..MaxOffset :
            /\ Place(r, offset) \in Location(context, now)
            /\ \A q \in Registers \ {r} : memory'[q] = memory[q]
            /\ DOMAIN memory'[r] = DOMAIN memory[r]
            /\ \A k \in DOMAIN memory[r] :
                memory'[r][k] = CASE k <= offset -> memory[r][k]
                                  [] k > offset + Len(bits) -> Zero
                                  [] OTHER -> bits[k - offset]]_vars
=============================================================================
