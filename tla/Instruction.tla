---------------------------- MODULE Instruction -----------------------------
(***************************************************************************)
(* src/src/builtin.cpp: the arguments a builtin command reads from its     *)
(* procedure, one after the other, and the branch bit that follows them.   *)
(* Which command it is stands in the node and not in the procedure, so     *)
(* that the same bits are other arguments for another command.             *)
(*                                                                         *)
(* An instruction is the sequence of its arguments.                        *)
(***************************************************************************)
EXTENDS Formats

\* The number of COMPUTE's operation takes 5 bits.
ASSUME InstructionAssumption == 5 <= Word

SelectorField == [type |-> "selector"]
SourceField == [type |-> "source"]
DestinationField == [type |-> "destination"]
BranchField == UintField(1)

ArgumentsOf ==
    [read_prefix |-> <<SizeField>>,
     modify_prefix |-> <<SizeField>>,
     condition_prefix |-> <<DestinationField>>,
     branch |-> <<>>,
     compute |-> <<UintField(5)>>,
     copy |-> <<SourceField, DestinationField>>,
     switch_procedure |-> <<SourceField>>,
     switch_network |-> <<SourceField>>,
     switch_procedure_and_network |-> <<SourceField, SourceField>>,
     return_result |-> <<SourceField>>,
     set_procedure_position |-> <<SourceField>>,
     finish_call |-> <<>>,
     resize_register |-> <<SelectorField, SourceField>>,
     get_register_size |-> <<SelectorField, DestinationField>>,
     resolve_return |-> <<SourceField, SourceField>>]

Commands == DOMAIN ArgumentsOf

\* COMPUTE has one source or two, as its operation wants.
MoreArguments(command, v) ==
    IF command # "compute" THEN <<>>
    ELSE (IF v[1] < 16 THEN <<SourceField, SourceField>> ELSE <<SourceField>>)
         \o <<DestinationField>>

\* The commands that go on to a node of their choice.
Branching(command) == command \notin {"finish_call", "resolve_return"}
Rest(command, v) ==
    MoreArguments(command, v) \o (IF Branching(command) THEN <<BranchField>> ELSE <<>>)
Fields(command, v) == ArgumentsOf[command] \o Rest(command, v)

ReadArgument(s, at, field) ==
    CASE field.type = "selector" -> DecodeSelector(s, at)
      [] field.type = "source" -> DecodeSource(s, at)
      [] field.type = "destination" -> DecodeDestination(s, at)
      [] OTHER -> ReadField(s, at, field)

\* decode_builtin
DecodeInstruction(command, s, at) ==
    LET Whole(v, from) ==
            Then(ReadAll(ReadArgument, s, from, Rest(command, v)), from,
                 LAMBDA w, end : Got(v \o w, end))
    IN  Then(ReadAll(ReadArgument, s, at, ArgumentsOf[command]), at, Whole)

\* The code has no encoder: whoever makes a procedure appends the arguments.
EncodeArgument(field, v) ==
    CASE field.type = "selector" -> EncodeSelector(v)
      [] field.type = "source" -> EncodeSource(v)
      [] field.type = "destination" -> EncodeReference(v)
      [] field.type = "size" -> EncodeSize(v)
      [] field.type = "uint" -> UintBits(v, field.width)

EncodeInstruction(command, v) ==
    LET fields == Fields(command, v)
    IN  FlattenSeq([i \in DOMAIN fields |-> EncodeArgument(fields[i], v[i])])

\* What an argument may be, and the arguments of a command.
ArgumentValues(field) ==
    CASE field.type = "selector" -> Selectors
      [] field.type = "source" -> Sources
      [] field.type = "destination" -> {r \in OperandReferences : CanEncodeDestination(r)}
      [] field.type = "size" -> Words
      [] field.type = "uint" -> 0..(2^field.width - 1)
IsInstruction(command, v) ==
    LET fields == Fields(command, v)
    IN  /\ v = [k \in 1..Len(fields) |-> v[k]]
        /\ \A k \in 1..Len(fields) : v[k] \in ArgumentValues(fields[k])
=============================================================================
