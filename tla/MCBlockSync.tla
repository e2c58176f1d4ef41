----------------------------- MODULE MCBlockSync -----------------------------
(***************************************************************************)
(* Small instances of BlockSync.  Two forks over one genesis block; in the *)
(* "b" fork, one transaction has another position and the other another    *)
(* number than in the "a" fork.                                            *)
(***************************************************************************)
EXTENDS BlockSync, TLC

CONSTANTS g, a1, a2, b1, b2, t1, t2, None

MCBlock == {g, a1, a2, b1, b2}
MCNumberOf == g :> 0 @@ a1 :> 1 @@ a2 :> 2 @@ b1 :> 1 @@ b2 :> 2
MCParentOf == g :> None @@ a1 :> g @@ a2 :> a1 @@ b1 :> g @@ b2 :> b1

NoTxs == [t \in {} |-> 0]

\* Both transactions of the "b" fork are in b1; t2, the first of b1, comes
\* later in the "a" fork.
MCTxIndex ==
    g :> NoTxs @@ a1 :> (t1 :> 0) @@ a2 :> (t2 :> 0)
      @@ b1 :> (t2 :> 0 @@ t1 :> 1) @@ b2 :> NoTxs

OnlyG == 0 :> g
ForkA1 == OnlyG @@ 1 :> a1
ForkA2 == ForkA1 @@ 2 :> a2
ForkB1 == OnlyG @@ 1 :> b1
ForkB2 == ForkB1 @@ 2 :> b2

\* The node may go back to an older head, and to the other fork.
Reorgs == {ForkA1, ForkA2, ForkB1, ForkB2}

SyncerSymmetry == Permutations(Syncer)
=============================================================================
