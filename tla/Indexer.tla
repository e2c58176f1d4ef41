------------------------------ MODULE Indexer -------------------------------
(***************************************************************************)
(* The automatic indexer on top of BlockSync.  RunIndexerOnce reads the    *)
(* latest completed block from the database, then the sync target from the *)
(* node, and syncs the next block if the target allows it.  The background *)
(* Runner calls it in a loop; POST /internal/indexer/run-once calls it     *)
(* from a handler; the manual sync handlers call SyncBlockToDB with any    *)
(* number.  All of them run concurrently.                                  *)
(***************************************************************************)
EXTENDS BlockSync

CONSTANTS
    Runner,     \* the syncers that run the background loop
    RunOnce,    \* the syncers that serve run-once requests
    Manual      \* the syncers that serve manual syncs of a number

ASSUME CallerAssumption ==
    Runner \subseteq Syncer /\ RunOnce \subseteq Syncer /\ Manual \subseteq Syncer

VARIABLE plan   \* syncer -> {the next block, computed from the database}, or
                \* {} when it is not between the two reads

ixvars == <<chain, blocks, txs, pc, num, blk, todo, got, plan>>

\* GetLatestFullySyncedBlockNumber: MAX(number) over the completed rows.
\* Mutant: a row counts as soon as it is stored.
LatestStored == {n \in Numbers : Stored(n) /\ \A m \in Numbers : Stored(m) => m <= n}

LatestFullySynced ==
    {n \in Numbers : Completed(n) /\ \A m \in Numbers : Completed(m) => m <= n}

\* Mutant: the latest completed block is taken again.
NextBlockAgain ==
    IF LatestFullySynced = {} THEN {StartBlock} ELSE LatestFullySynced

NextBlock ==
    IF LatestFullySynced = {} THEN {StartBlock}
    ELSE {n + 1 : n \in LatestFullySynced}

\* Mutant: the target is not compared, the node is asked for the block.
ShouldSyncAlways(n) == HasBlock(n)

ShouldSync(n) == WithinTarget(n)

-----------------------------------------------------------------------------
IxInit == Init /\ plan = [s \in Syncer |-> {}]

\* The first read of GetNextBlockToSync.
ReadProgress(s) ==
    /\ pc[s] = "idle" /\ plan[s] = {}
    /\ plan' = [plan EXCEPT ![s] = NextBlock]
    /\ UNCHANGED vars

\* The second read, and the decision.
ReadTarget(s) ==
    /\ HasTarget
    /\ \E n \in plan[s] :
        IF ShouldSync(n) THEN Call(s, n) ELSE UNCHANGED vars
    /\ plan' = [plan EXCEPT ![s] = {}]

\* The node does not answer, or does not know the target.
ReadTargetFails(s) ==
    /\ plan[s] # {}
    /\ plan' = [plan EXCEPT ![s] = {}]
    /\ UNCHANGED vars

\* RunIndexerOnce(s) up to the sync.  After it returns, whatever the result,
\* the runner starts over.
RunIndexerOnce(s) == ReadProgress(s) \/ ReadTarget(s) \/ ReadTargetFails(s)

SyncBlock(s) == (SyncStep(s) \/ Return(s)) /\ UNCHANGED plan

ManualSync(s, n) == Call(s, n) /\ UNCHANGED plan

Restart == Crash /\ plan' = [s \in Syncer |-> {}]

IxStep ==
    \/ \E s \in Runner \cup RunOnce : RunIndexerOnce(s)
    \/ \E s \in Manual, n \in Numbers : ManualSync(s, n)
    \/ \E s \in Syncer : SyncBlock(s)
    \/ NodeStep /\ UNCHANGED plan

IxNext == IxStep \/ Restart

IxSpec == IxInit /\ [][IxNext]_ixvars

-----------------------------------------------------------------------------
(* Fairness.  The loop of the runner never ends and every call it makes    *)
(* has a deadline, so a run never stays where it is (WF).  A call that is  *)
(* made again and again succeeds again and again (SF): the node and the    *)
(* database are not down for ever.  Neither the other callers nor the node *)
(* have to do anything.                                                    *)

RunnerFairness ==
    \A s \in Runner :
        /\ WF_ixvars(ReadProgress(s))
        /\ WF_ixvars(SyncBlock(s))
        /\ SF_ixvars(ReadTarget(s))
        /\ SF_ixvars(FetchBlock(s) /\ UNCHANGED plan)
        /\ SF_ixvars(CheckRow(s) /\ UNCHANGED plan)
        /\ SF_ixvars(CheckParent(s) /\ UNCHANGED plan)
        /\ SF_ixvars(CheckTxs(s) /\ UNCHANGED plan)
        /\ SF_ixvars(Insert(s) /\ UNCHANGED plan)
        /\ SF_ixvars(ListMissing(s) /\ UNCHANGED plan)
        /\ SF_ixvars(FetchReceipt(s) /\ UNCHANGED plan)
        /\ SF_ixvars(UpdateReceipt(s) /\ UNCHANGED plan)
        /\ SF_ixvars(MarkSynced(s) /\ UNCHANGED plan)

IxFairSpec == IxSpec /\ RunnerFairness

-----------------------------------------------------------------------------
IxTypeOK ==
    TypeOK /\ plan \in [Syncer -> SUBSET ({StartBlock} \cup 1..(MaxNumber + 1))]

\* "Failed blocks will not be skipped": below a completed block, down to the
\* start block, every block is completed.  The next block is computed from
\* the highest completed one, so a block that is not would never be retried.
NoGap ==
    \A n \in Numbers : Completed(n) =>
        \A m \in Numbers : StartBlock <= m /\ m <= n => Completed(m)

\* The same, looked at only when no call is running: such a gap is not work
\* in progress, it is a block the indexer does not come back to.
NothingSkipped == (\A s \in Syncer : pc[s] = "idle") => NoGap

\* A completed block stays completed: a late failure of a sync does not take
\* it back from the wallet, which may have read it.
CompletedStays ==
    [][\A n \in Numbers : Completed(n) => Completed(n)']_ixvars

\* The runner alone implements an append-only log of completed blocks, each
\* on top of its parent: what a reader of completed blocks may rely on.
Log == INSTANCE CompletedLog WITH
    log <- [n \in Numbers |-> IF Completed(n) THEN blocks[n].hash ELSE NoBlock]

ImplementsLog == Log!Spec

\* Trailing the head by the depth at which blocks are final, the indexer
\* records final blocks only: no later reorg touches the index.
StoredIsFinal ==
    \A n \in Numbers : Stored(n) => IsFinal(n) /\ chain[n] = blocks[n].hash

\* ... so no sync of the indexer ends in a conflict that only an operator
\* could resolve.
NeverStuck ==
    \A s \in Syncer : pc[s] \notin {"reorg", "discontinuity", "conflict"}

\* Every block that stays within the sync target is eventually completed for
\* good, through any number of failed runs, lost replies and restarts.
EventuallyIndexed ==
    \A n \in Numbers :
        n >= StartBlock /\ <>[]WithinTarget(n) => <>[]Completed(n)
=============================================================================
