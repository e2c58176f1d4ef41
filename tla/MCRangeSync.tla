----------------------------- MODULE MCRangeSync ----------------------------
(***************************************************************************)
(* The instances of RangeSync: chains up to block 2, numbers of two bits.  *)
(***************************************************************************)
EXTENDS RangeSync, MCForks

UpTo2 == {ForkA1, ForkA2, ForkB1, ForkB2, ForkC2}
=============================================================================
