------------------------- MODULE MCStepTransaction --------------------------
(***************************************************************************)
(* The parts belong together when they are of the same step; the address a *)
(* resolver returned may be older.                                         *)
(***************************************************************************)
EXTENDS StepTransaction

MCValues == 0..2
MCCoherent ==
    {m \in [Parts -> MCValues] :
        \A p, q \in Parts \ {"resolved_address"} : m[p] = m[q]}
MCCountOf == [v \in MCValues |-> v]
=============================================================================
