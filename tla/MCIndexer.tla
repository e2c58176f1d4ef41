------------------------------ MODULE MCIndexer ------------------------------
(* The instances of Indexer.                                               *)
EXTENDS Indexer, MCForks
=============================================================================
