----------------------------- MODULE MCExplorer -----------------------------
(* The instances of ExplorerReader: one address, party to all transactions. *)
EXTENDS ExplorerReader, MCForks

CONSTANT x

MCPartiesOf == [t \in {t1, t2, t3} |-> {x}]
=============================================================================
