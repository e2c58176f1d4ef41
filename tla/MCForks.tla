------------------------------- MODULE MCForks -------------------------------
(***************************************************************************)
(* Blocks for the instances of Indexer and the modules on top of it: three *)
(* forks, one that leaves the others after genesis and two that part at    *)
(* block 2.  Between the forks, a transaction is in another block, at      *)
(* another position, or not mined at all.                                  *)
(***************************************************************************)
EXTENDS Naturals, TLC

CONSTANTS g, a1, a2, a3, b1, b2, c2, c3, t1, t2, t3, None

MCBlock == {g, a1, a2, a3, b1, b2, c2, c3}
MCNumberOf == g :> 0 @@ a1 :> 1 @@ b1 :> 1 @@ a2 :> 2 @@ b2 :> 2 @@ c2 :> 2
                @@ a3 :> 3 @@ c3 :> 3
MCParentOf == g :> None @@ a1 :> g @@ b1 :> g @@ a2 :> a1 @@ c2 :> a1
                @@ b2 :> b1 @@ a3 :> a2 @@ c3 :> c2

NoTxs == [t \in {} |-> 0]

MCTxIndex ==
    g :> NoTxs @@ a1 :> (t1 :> 0 @@ t3 :> 1) @@ b1 :> (t2 :> 0) @@ a2 :> (t2 :> 0)
      @@ c2 :> NoTxs @@ b2 :> (t1 :> 0) @@ a3 :> NoTxs @@ c3 :> (t2 :> 0)

OnlyG == 0 :> g
ForkA1 == OnlyG @@ 1 :> a1
ForkA2 == ForkA1 @@ 2 :> a2
ForkA3 == ForkA2 @@ 3 :> a3
ForkB1 == OnlyG @@ 1 :> b1
ForkB2 == ForkB1 @@ 2 :> b2
ForkC2 == ForkA1 @@ 2 :> c2
ForkC3 == ForkC2 @@ 3 :> c3

Forks == {OnlyG, ForkA1, ForkA2, ForkA3, ForkB1, ForkB2, ForkC2, ForkC3}

\* One chain, whose blocks 1 and 2 have transactions.
Growing == {ForkA1, ForkA2, ForkA3}
=============================================================================
