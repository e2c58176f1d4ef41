---------------------------- MODULE IndexedChain ----------------------------
(***************************************************************************)
(* What the index promises, without the calls that build it: a ledger of   *)
(* at most one block per number, to which blocks are added only on top of  *)
(* what is there and from which nothing is ever removed; a place for each  *)
(* transaction and, later, its receipt, each taken once; and a set of      *)
(* completed blocks, which may still lose that standing.                   *)
(*                                                                         *)
(* Adding a block is one step here.  BlockSync needs up to four calls for  *)
(* it, any of which other syncs and reorgs may come between.               *)
(***************************************************************************)
EXTENDS Naturals

CONSTANTS Block, Tx, NoBlock, Numbers, NumberOf, ParentOf, TxsOf, StartBlock

VARIABLES
    ledger,     \* number -> block, or NoBlock
    place,      \* transaction -> the block it was indexed from, or NoBlock
    receipt,    \* transaction -> the block its receipt is from, or NoBlock
    complete    \* the numbers of the completed blocks

ivars == <<ledger, place, receipt, complete>>

Taken(n) == ledger[n] # NoBlock

\* The block may be added: its number is taken (and stays as it is), or it
\* continues the ledger, or it is one the ledger may start with.
MayAdd(b) ==
    LET n == NumberOf[b]
    IN  \/ Taken(n)
        \/ n = 0
        \/ n = StartBlock
        \/ Taken(n - 1) /\ ledger[n - 1] = ParentOf[b]

Init ==
    /\ ledger = [n \in Numbers |-> NoBlock]
    /\ place = [t \in Tx |-> NoBlock]
    /\ receipt = [t \in Tx |-> NoBlock]
    /\ complete = {}

Add(b) ==
    /\ MayAdd(b)
    /\ ledger' = [ledger EXCEPT ![NumberOf[b]] = IF @ = NoBlock THEN b ELSE @]
    /\ place' = [t \in Tx |-> IF t \in TxsOf[b] /\ place[t] = NoBlock
                              THEN b ELSE place[t]]
    /\ complete' = IF TxsOf[b] = {} /\ ~Taken(NumberOf[b])
                   THEN complete \cup {NumberOf[b]} ELSE complete
    /\ UNCHANGED receipt

TakeReceipt(t) ==
    /\ place[t] # NoBlock
    /\ receipt' = [receipt EXCEPT ![t] = place[t]]
    /\ UNCHANGED <<ledger, place, complete>>

Complete(n) ==
    /\ Taken(n)
    /\ complete' = complete \cup {n}
    /\ UNCHANGED <<ledger, place, receipt>>

\* A receipt synchronisation that failed takes the block back, also when
\* another one had completed it.
Demote(n) ==
    /\ complete' = complete \ {n}
    /\ UNCHANGED <<ledger, place, receipt>>

Next ==
    \/ \E b \in Block : Add(b)
    \/ \E t \in Tx : TakeReceipt(t)
    \/ \E n \in Numbers : Complete(n) \/ Demote(n)

Spec == Init /\ [][Next]_ivars
=============================================================================
