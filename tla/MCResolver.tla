----------------------------- MODULE MCResolver -----------------------------
(***************************************************************************)
(* Small instances of Resolver on the host's registers of MCVm.            *)
(***************************************************************************)
EXTENDS Resolver, MCVm
=============================================================================
