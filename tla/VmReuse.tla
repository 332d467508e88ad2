------------------------------- MODULE VmReuse -------------------------------
(***************************************************************************)
(* The machine with a history of the registers that were deleted.          *)
(***************************************************************************)
EXTENDS MCVm

VARIABLE deleted  \* history: ids whose register has been deleted

ReuseInit == Init /\ deleted = {}

ReuseNext ==
    /\ Next
    /\ deleted' = deleted \cup (DOMAIN bank.entries \ DOMAIN bank'.entries)

ReuseSpec == ReuseInit /\ [][ReuseNext]_<<vars, deleted>>

(* docs/specification-v2.md:72: the id of a deleted register is not used   *)
(* again before the machine ends.                                          *)
IdNotReused == deleted \cap DOMAIN bank.entries = {}
=============================================================================
