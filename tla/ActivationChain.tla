--------------------------- MODULE ActivationChain ---------------------------
(***************************************************************************)
(* reload_activations of src/src/vm.cpp as the loop it is.  A step starts  *)
(* by following previous_activation from the running activation back to    *)
(* the root, whatever the registers hold by then: data commands may write  *)
(* over live activation records, so that a chain ends early, closes in a   *)
(* cycle or runs into data.  When the loop has found a chain, the rest of  *)
(* the step is the action of Vm; when it has not, the step is an error and *)
(* changes nothing.                                                        *)
(***************************************************************************)
EXTENDS Vm, SequencesExt

VARIABLES
    phase,      \* "host": between steps; "reload": in the loop; "loaded"; "failed"
    reference,  \* the record the loop reads next
    visited,    \* the records it has read
    chain       \* the frames it has found, the running one first

loop == <<phase, reference, visited, chain>>
ChainVars == <<vars, loop>>

ChainInit ==
    /\ Init
    /\ phase = "host"
    /\ reference = Null
    /\ visited = {}
    /\ chain = <<>>

\* Mutated: only a record that names itself is noticed.
SeenLast(h) == chain # <<>> /\ h = Last(chain).storage

\* "activation chain contains a cycle"
Seen(h) == h \in visited

OrderedAsFound(frames) == frames  \* Mutated
Ordered(frames) == Reverse(frames)

Begin ==
    /\ phase = "host" /\ current # Null
    /\ phase' = "reload"
    /\ reference' = current
    /\ visited' = {}
    /\ chain' = <<>>
    /\ UNCHANGED vars

ReadRecord ==
    /\ phase = "reload" /\ reference # Null
    /\ ~Seen(reference)
    /\ reference \in StoredRecords(bank)
    /\ visited' = visited \cup {reference}
    /\ chain' = Append(chain, [record |-> Val(bank, reference), storage |-> reference])
    /\ reference' = Val(bank, reference).previous
    /\ UNCHANGED <<vars, phase>>

ReloadFails ==
    /\ phase = "reload" /\ reference # Null
    /\ Seen(reference) \/ reference \notin StoredRecords(bank)
    /\ phase' = "failed"
    /\ UNCHANGED <<vars, reference, visited, chain>>

ReloadEnds ==
    /\ phase = "reload" /\ reference = Null
    /\ phase' = "loaded"
    /\ chain' = Ordered(chain)
    /\ UNCHANGED <<vars, reference, visited>>

Answered ==
    /\ phase' = "host"
    /\ reference' = Null
    /\ visited' = {}
    /\ chain' = <<>>

\* step_impl after the reload.
Execute == phase = "loaded" /\ Next /\ Answered

\* The step ends in an error, of the loop or of what follows it.
Refuse == phase \in {"loaded", "failed"} /\ Answered /\ UNCHANGED vars

ChainNext ==
    \/ Begin
    \/ ReadRecord
    \/ ReloadFails
    \/ ReloadEnds
    \/ Execute
    \/ Refuse

ChainSpec == ChainInit /\ [][ChainNext]_ChainVars

-----------------------------------------------------------------------------

(* The loop finds the chain exactly if the registers hold one: it ends in  *)
(* the frames from the root to the running activation, and it gives up     *)
(* only if following the records from current never leads to a root.       *)
(* vm.cpp:309-338.                                                         *)
ReloadFindsChain ==
    LET stored == {FramesOf(bank, s) : s \in Chains(bank, current)}
    IN  /\ phase = "loaded" => stored = {chain}
        /\ phase = "failed" => stored = {}

(* Whatever the records lead to, the loop reads none of them twice: a      *)
(* program that makes its chain a cycle gets an error and the host its     *)
(* thread back.  vm.cpp:319.                                               *)
EachRecordOnce == \A i, j \in DOMAIN chain : chain[i].storage = chain[j].storage => i = j

(* A return deletes only what calls made, also when the record that        *)
(* returns has been forged, so that the callers whose registers finish_call*)
(* looks at are not the ones that called: the host's own registers, a      *)
(* state cell that a call shares among them, are still there.  vm.cpp:806. *)
ReturnsKeepHostRegisters ==
    [][current' # current =>
          \A h \in 0..(FirstId - 1) : Exists(bank, h) => Exists(bank', h)]_ChainVars
=============================================================================
