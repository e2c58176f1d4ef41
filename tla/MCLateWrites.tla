---------------------------- MODULE MCLateWrites ----------------------------
(* The instances of LateWrites.                                            *)
EXTENDS LateWrites, MCForks
=============================================================================
