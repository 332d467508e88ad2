-------------------------------- MODULE MCVm --------------------------------
(***************************************************************************)
(* Small instances of Vm.  The host makes a network of two nodes           *)
(* (register 0), a procedure of two instructions (register 1) and the      *)
(* state cell of the root (register 2); the root's result and record are   *)
(* then registers 3 and 4.                                                 *)
(***************************************************************************)
EXTENDS VmProperties

CONSTANTS Length  \* instructions in the host's procedure

Network == [contents |-> [size |-> 2 * NodeSize, val |-> Data],
            immutable |-> FALSE, protected |-> FALSE]
Procedure == [contents |-> [size |-> Length, val |-> Code],
              immutable |-> TRUE, protected |-> FALSE]
RootCell == [contents |-> [size |-> RefSize, val |-> [id |-> 0, off |-> 0]],
             immutable |-> FALSE, protected |-> FALSE]

MCHostRegisters == <<Network, Procedure, RootCell>>
OneNode == {[id |-> 0, off |-> 0]}
NetworkAndResult == {[id |-> 0, off |-> 0], [id |-> 5, off |-> 0]}
Root(resolver) ==
    <<[procedure |-> 1, position |-> 0, cell |-> 2, localResolver |-> resolver]>>
RootFrame == Root(Null)
TwoFrames == Root(Null) \o Root(Null)
RootWithResolver == Root([id |-> 0, off |-> 2])
TwoFramesWithResolver == RootWithResolver \o Root(Null)

ASSUME HostAssumption == HostOK
=============================================================================
