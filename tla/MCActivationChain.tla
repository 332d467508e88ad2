------------------------- MODULE MCActivationChain --------------------------
EXTENDS ActivationChain, MCVm
=============================================================================
