---------------------------- MODULE IndexerProofs ----------------------------
(***************************************************************************)
(* Theorems of Indexer.                                                    *)
(*                                                                         *)
(* Every behaviour of the indexer is one of BlockSync, so all that is      *)
(* proved there holds here.  Two configurations promise more:              *)
(*   - a single caller of RunIndexerOnce and no manual syncs (RunnerAlone) *)
(*     skips no block and takes none back, whatever the node does;         *)
(*   - a sync target that trails the head by the depth of finality         *)
(*     (TargetFinal), without manual syncs, records final blocks only, for *)
(*     any number of callers.                                              *)
(***************************************************************************)
EXTENDS Indexer, BlockSyncPlaces

RunnerAlone == Alone /\ Manual = {}

\* The completed numbers are those from the start block to below k.
UpTo(k) == \A n \in Numbers : Completed(n) <=> StartBlock <= n /\ n < k

InOrder ==
    \/ UpTo(StartBlock)
    \/ \E k \in Numbers : StartBlock <= k /\ UpTo(k + 1)

\* What is planned, or being synced, is the number after the completed ones.
PlansNext ==
    \A s \in Syncer : \A n \in plan[s] :
        pc[s] = "idle" /\ StartBlock <= n /\ UpTo(n)

CallsNext ==
    \A s \in Syncer : pc[s] \in Calling => StartBlock <= num[s] /\ UpTo(num[s])

OrderInv == InOrder /\ PlansNext /\ CallsNext

-----------------------------------------------------------------------------
TargetFinal == Manual = {} /\ FinalDepth <= Lag

\* The numbers that are asked for are final, and their parents are recorded.
AsksFinal == \A s \in Syncer : pc[s] = "fetch" => IsFinal(num[s])

HasParent(n) == n \in {0, StartBlock} \/ (n > 0 /\ n - 1 \in Numbers /\ Stored(n - 1))

ParentsStored ==
    \A s \in Syncer :
        /\ \A n \in plan[s] : HasParent(n)
        /\ pc[s] \in {"fetch", "check_row", "check_parent"} => HasParent(num[s])

FinalIxInv == FinalInv /\ AsksFinal /\ ParentsStored /\ NeverStuck

-----------------------------------------------------------------------------
(* The indexer runs nothing but BlockSync.                                 *)

USE DEF Stored

PlanOK == plan \in [Syncer -> SUBSET ({StartBlock} \cup 1..(MaxNumber + 1))]

LEMMA PlanStep ==
    ASSUME IxTypeOK, [IxNext]_ixvars
    PROVE  PlanOK'
<1>0. PlanOK
  BY DEF IxTypeOK, PlanOK
<1>1. NextBlock \subseteq {StartBlock} \cup 1..(MaxNumber + 1)
  <2>1. \A n \in Numbers : n + 1 \in 1..(MaxNumber + 1)
    BY NodeAssumption DEF Numbers
  <2> QED
    BY <2>1 DEF NextBlock, LatestFullySynced
<1>2. ASSUME NEW s \in Syncer, RunIndexerOnce(s)
      PROVE  PlanOK'
  BY <1>0, <1>1, <1>2 DEF RunIndexerOnce, ReadProgress, ReadTarget, ReadTargetFails, PlanOK
<1>3. CASE IxStep
  BY <1>0, <1>2, <1>3, CallerAssumption
     DEF IxStep, ManualSync, SyncBlock, NodeStep, PlanOK
<1>4. CASE Restart
  BY <1>4 DEF Restart, PlanOK
<1> QED
  BY <1>0, <1>3, <1>4 DEF IxNext, ixvars, PlanOK

\* What ReadTarget calls is a number.
LEMMA TargetIsNumber ==
    ASSUME IxTypeOK, NEW s \in Syncer, NEW n \in plan[s], ShouldSync(n)
    PROVE  n \in Numbers
<1>1. n \in Nat
  BY SyncAssumption, NodeAssumption DEF IxTypeOK
<1>2. n \in DOMAIN chain
  BY <1>1, ChainShape, NodeAssumption
     DEF IxTypeOK, TypeOK, ShouldSync, WithinTarget, HasBlock
<1> QED
  BY <1>2, ChainShape DEF IxTypeOK, TypeOK

LEMMA StepIsStep ==
    ASSUME IxTypeOK, [IxNext]_ixvars
    PROVE  [Next]_vars
<1>1. ASSUME NEW s \in Syncer, RunIndexerOnce(s)
      PROVE  [Next]_vars
  <2>1. CASE ReadTarget(s)
    <3>1. PICK n \in plan[s] : IF ShouldSync(n) THEN Call(s, n) ELSE UNCHANGED vars
      BY <2>1 DEF ReadTarget
    <3> QED
      BY <3>1, TargetIsNumber DEF Next
  <2> QED
    BY <1>1, <2>1 DEF RunIndexerOnce, ReadProgress, ReadTargetFails
<1>2. CASE IxStep
  BY <1>1, <1>2, CallerAssumption DEF IxStep, ManualSync, SyncBlock, Next
<1>3. CASE Restart
  BY <1>3 DEF Restart, Next
<1>4. CASE UNCHANGED ixvars
  BY <1>4 DEF ixvars, vars
<1> QED
  BY <1>2, <1>3, <1>4 DEF IxNext

LEMMA IxInvariance == IxSpec => [](IInv /\ IxTypeOK)
<1>1. IxInit => IInv /\ IxTypeOK
  BY InitIInv DEF IxInit, IInv, IxTypeOK
<1>2. IInv /\ IxTypeOK /\ [IxNext]_ixvars => (IInv /\ IxTypeOK)'
  <2> SUFFICES ASSUME IInv, IxTypeOK, [IxNext]_ixvars
               PROVE  (IInv /\ IxTypeOK)'
    OBVIOUS
  <2>1. [Next]_vars
    BY StepIsStep
  <2>2. IInv'
    BY <2>1, TypeStep, StepMoves, MovedRowNumber, MovedLinked, TrackedStep DEF IInv
  <2>3. PlanOK'
    BY PlanStep
  <2> QED
    BY <2>2, <2>3 DEF IxTypeOK, IInv, PlanOK
<1> QED
  BY <1>1, <1>2, PTL DEF IxSpec

\* The types of the indexer.
THEOREM IxTypeCorrect == IxSpec => []IxTypeOK
BY IxInvariance, PTL

\* Every behaviour of the indexer, seen without its plans, is one of
\* BlockSync: what is proved of SyncBlockToDB holds under the runner, the
\* run-once and the manual requests together.
THEOREM IndexerIsSync == IxSpec => Spec
<1>1. IxInit => Init
  BY DEF IxInit
<1>2. IxTypeOK /\ [IxNext]_ixvars => [Next]_vars
  BY StepIsStep
<1> QED
  BY IxTypeCorrect, <1>1, <1>2, PTL DEF IxSpec, Spec

-----------------------------------------------------------------------------
(* One caller: the completed blocks are completed in order.                *)

\* The cursor is the number after the completed ones.
LEMMA CursorIsNext ==
    ASSUME InOrder, NEW n \in NextBlock
    PROVE  n \in Nat /\ StartBlock <= n /\ UpTo(n)
<1>0. MaxNumber \in Nat /\ StartBlock \in Nat
  BY NodeAssumption, SyncAssumption
<1>1. CASE UpTo(StartBlock)
  <2>1. LatestFullySynced = {}
    BY <1>0, <1>1 DEF UpTo, LatestFullySynced, Numbers
  <2> QED
    BY <1>0, <1>1, <2>1 DEF NextBlock
<1>2. ASSUME NEW k \in Numbers, StartBlock <= k, UpTo(k + 1)
      PROVE  n \in Nat /\ StartBlock <= n /\ UpTo(n)
  <2>1. Completed(k)
    BY <1>0, <1>2 DEF UpTo, Numbers
  <2>2. \A m \in Numbers : Completed(m) => m <= k
    BY <1>0, <1>2 DEF UpTo, Numbers
  <2>3. LatestFullySynced = {k}
    BY <1>0, <1>2, <2>1, <2>2 DEF LatestFullySynced, Numbers
  <2>4. n = k + 1
    BY <2>3 DEF NextBlock
  <2> QED
    BY <1>0, <1>2, <2>4 DEF Numbers
<1> QED
  BY <1>1, <1>2 DEF InOrder

\* A call that completes its number is over.
LEMMA CompletesAndEnds ==
    ASSUME IInv, Alone, [Next]_vars, NEW n \in Numbers, ~Completed(n), Completed(n)'
    PROVE  \E s \in Syncer : /\ pc[s] \in Calling /\ num[s] = n
                             /\ pc'[s] \in {"ok", "failed"}
<1>0. pc \in [Syncer -> Labels]
  BY DEF IInv, TypeOK
<1>1. PICK s \in Syncer :
        /\ num[s] = n
        /\ \/ pc[s] = "mark_synced" /\ MarksAt(s)
           \/ InsertsAt(s) /\ BlockTxs(blk[s]) = {}
  BY CompletedSteps
<1>2. ~UNCHANGED blocks
  BY DEF Completed
<1>3. SyncStep(s)
  BY <1>2 DEF Next, Call, Return, NodeStep, Crash, vars, db, Alone
<1>4. pc[s] \in {"mark_synced", "insert"} /\ (pc[s] = "insert" => BlockTxs(blk[s]) = {})
  BY <1>1 DEF InsertsAt
<1>5. Insert(s) \/ MarkSynced(s) \/ LostReply(s)
  BY <1>2, <1>3, <1>4 DEF SyncStep, FetchBlock, CheckRow, CheckParent, CheckTxs, ListMissing,
     FetchReceipt, ReceiptNotFound, UpdateReceipt, MarkFailed, Fail, db
<1>6. pc'[s] \in {"ok", "failed"}
  BY <1>0, <1>4, <1>5 DEF Insert, MarkSynced, LostReply, Leave, Goto
<1> QED
  BY <1>1, <1>4, <1>6 DEF Calling

\* No call is at work on a completed number, so no failure takes one back.
LEMMA NoneDemoted ==
    ASSUME IInv, OrderInv, [Next]_vars, NEW n \in Numbers, Completed(n)
    PROVE  Completed(n)'
<1> SUFFICES ASSUME ~Completed(n)' PROVE FALSE
  OBVIOUS
<1>1. PICK s \in Syncer : num[s] = n /\ pc[s] = "mark_failed"
  BY DemotedSteps
<1>2. UpTo(n) /\ n < n
  BY <1>1 DEF OrderInv, CallsNext, Calling, UpTo
<1> QED
  BY <1>2, NodeAssumption DEF Numbers

\* What is planned and what is called.
LEMMA PlanSteps ==
    ASSUME IxTypeOK, RunnerAlone, OrderInv, [IxNext]_ixvars, NEW s \in Syncer
    PROVE  /\ \A n \in plan'[s] : /\ pc[s] = "idle" /\ pc'[s] = "idle"
                                  /\ n \in plan[s] \/ n \in NextBlock
           /\ pc'[s] \in Calling => \/ pc[s] \in Calling /\ num'[s] = num[s]
                                    \/ num'[s] \in plan[s]
<1>0. /\ pc \in [Syncer -> Labels] /\ num \in [Syncer -> Numbers]
      /\ plan \in [Syncer -> SUBSET ({StartBlock} \cup 1..(MaxNumber + 1))]
      /\ \A u \in Syncer : u = s
      /\ \A n \in plan[s] : pc[s] = "idle"
  BY DEF IxTypeOK, TypeOK, RunnerAlone, Alone, OrderInv, PlansNext
<1>1. CASE ReadProgress(s)
  BY <1>0, <1>1 DEF ReadProgress, vars, Calling
<1>2. CASE ReadTarget(s) \/ ReadTargetFails(s)
  BY <1>0, <1>2 DEF ReadTarget, ReadTargetFails, Call, vars
<1>3. CASE SyncBlock(s)
  <2>1. \A n \in plan'[s] : FALSE
    BY <1>0, <1>3 DEF SyncBlock, SyncStep, FetchBlock, CheckRow, CheckParent, CheckTxs,
       Insert, ListMissing, FetchReceipt, ReceiptNotFound, UpdateReceipt, MarkSynced,
       MarkFailed, Fail, LostReply, Return, Calling, Outcomes
  <2>2. pc'[s] \in Calling => pc[s] \in Calling /\ num'[s] = num[s]
    BY <1>0, <1>3 DEF SyncBlock, SyncStep, FetchBlock, CheckRow, CheckParent, CheckTxs,
       Insert, ListMissing, FetchReceipt, ReceiptNotFound, UpdateReceipt, MarkSynced,
       MarkFailed, Fail, LostReply, Return, Goto, Calling
  <2> QED
    BY <2>1, <2>2
<1>4. CASE Restart
  BY <1>4 DEF Restart, Crash, Calling
<1>5. CASE (NodeStep /\ UNCHANGED plan) \/ UNCHANGED ixvars
  BY <1>0, <1>5 DEF NodeStep, local, ixvars
<1> QED
  BY <1>0, <1>1, <1>2, <1>3, <1>4, <1>5, CallerAssumption
     DEF IxNext, IxStep, RunIndexerOnce, RunnerAlone

LEMMA OrderStep ==
    ASSUME IInv, IxTypeOK, RunnerAlone, OrderInv, [IxNext]_ixvars
    PROVE  OrderInv'
<1>0. [Next]_vars /\ Alone
  BY StepIsStep DEF RunnerAlone
<1>1. MaxNumber \in Nat /\ StartBlock \in Nat
  BY NodeAssumption, SyncAssumption
<1>2. CASE \A n \in Numbers : Completed(n)' <=> Completed(n)
  <2>1. \A k : UpTo(k)' <=> UpTo(k)
    BY <1>2 DEF UpTo
  <2>2. InOrder'
    BY <2>1 DEF OrderInv, InOrder
  <2>3. PlansNext'
    <3> SUFFICES ASSUME NEW s \in Syncer, NEW n \in plan'[s]
                 PROVE  pc'[s] = "idle" /\ StartBlock <= n /\ UpTo(n)
      BY <2>1 DEF PlansNext
    <3>1. pc'[s] = "idle" /\ (n \in plan[s] \/ n \in NextBlock)
      BY PlanSteps
    <3> QED
      BY <3>1, CursorIsNext DEF OrderInv, PlansNext
  <2>4. CallsNext'
    <3> SUFFICES ASSUME NEW s \in Syncer, pc'[s] \in Calling
                 PROVE  StartBlock <= num'[s] /\ UpTo(num'[s])
      BY <2>1 DEF CallsNext
    <3>1. \/ pc[s] \in Calling /\ num'[s] = num[s]
          \/ num'[s] \in plan[s]
      BY PlanSteps
    <3> QED
      BY <3>1 DEF OrderInv, PlansNext, CallsNext
  <2> QED
    BY <2>2, <2>3, <2>4 DEF OrderInv
<1>3. CASE \E n \in Numbers : ~(Completed(n)' <=> Completed(n))
  <2>1. PICK n \in Numbers : ~Completed(n) /\ Completed(n)'
    BY <1>0, <1>3, NoneDemoted
  <2>2. PICK s \in Syncer : pc[s] \in Calling /\ num[s] = n /\ pc'[s] \in {"ok", "failed"}
    BY <1>0, <2>1, CompletesAndEnds
  <2>3. \A u \in Syncer : u = s
    BY <1>0 DEF Alone
  <2>4. StartBlock <= n /\ UpTo(n)
    BY <2>2 DEF OrderInv, CallsNext
  <2>5. \A m \in Numbers : ~Completed(m) /\ Completed(m)' => m = n
    BY <1>0, <2>2, <2>3, CompletesAndEnds
  <2>6. UpTo(n + 1)'
    <3> SUFFICES ASSUME NEW m \in Numbers
                 PROVE  Completed(m)' <=> StartBlock <= m /\ m < n + 1
      BY DEF UpTo
    <3>1. Completed(m)' <=> Completed(m) \/ m = n
      BY <1>0, <2>1, <2>5, NoneDemoted
    <3> QED
      BY <1>1, <2>4, <3>1 DEF UpTo, Numbers
  <2>7. InOrder'
    BY <2>4, <2>6 DEF InOrder
  <2>8. PlansNext' /\ CallsNext'
    <3>1. pc'[s] \notin Calling /\ pc[s] # "idle"
      BY <2>2 DEF Calling
    <3> QED
      BY <2>3, <3>1, PlanSteps DEF PlansNext, CallsNext
  <2> QED
    BY <2>7, <2>8 DEF OrderInv
<1> QED
  BY <1>2, <1>3

LEMMA OrderInvariance == ASSUME RunnerAlone PROVE IxSpec => []OrderInv
<1>1. IxInit => OrderInv
  BY SyncAssumption, NodeAssumption DEF IxInit, Init, OrderInv, InOrder, UpTo, PlansNext,
     CallsNext, Completed, NoBlockRow, Calling, Numbers
<1>2. IInv /\ IxTypeOK /\ OrderInv /\ [IxNext]_ixvars => OrderInv'
  BY OrderStep
<1> QED
  BY IxInvariance, <1>1, <1>2, PTL DEF IxSpec

\* Below a completed block all are completed, down to the start block.
LEMMA InOrderNoGap ==
    ASSUME InOrder
    PROVE  NoGap /\ \A n \in Numbers : Completed(n) => StartBlock <= n
<1>0. StartBlock \in Nat /\ \A n \in Numbers : n \in Nat
  BY NodeAssumption, SyncAssumption DEF Numbers
<1>1. CASE UpTo(StartBlock)
  BY <1>0, <1>1 DEF UpTo, NoGap
<1>2. ASSUME NEW k \in Numbers, UpTo(k + 1)
      PROVE  NoGap /\ \A n \in Numbers : Completed(n) => StartBlock <= n
  <2>1. ASSUME NEW n \in Numbers, Completed(n),
               NEW m \in Numbers, StartBlock <= m, m <= n
        PROVE  Completed(m)
    <3>1. n < k + 1
      BY <1>2, <2>1 DEF UpTo
    <3>2. m < k + 1
      BY <1>0, <2>1, <3>1
    <3> QED
      BY <1>2, <2>1, <3>2 DEF UpTo
  <2> QED
    BY <1>2, <2>1 DEF UpTo, NoGap
<1> QED
  BY <1>1, <1>2 DEF InOrder

\* A single caller never leaves a gap below a completed block, so the number
\* it computes from the highest completed one is the right one
\* (GetNextBlockToSync), through failures, reorgs and restarts.
THEOREM AloneNoGap == ASSUME RunnerAlone PROVE IxSpec => []NoGap
BY OrderInvariance, InOrderNoGap, PTL DEF OrderInv

\* A single caller never takes a completed block back
\* (MarkBlockReceiptsSyncFailed after MarkBlockReceiptsSynced).
THEOREM AloneCompletedStays == ASSUME RunnerAlone PROVE IxSpec => CompletedStays
<1> DEFINE Kept == \A n \in Numbers : Completed(n) => Completed(n)'
<1>1. IInv /\ IxTypeOK /\ OrderInv /\ [IxNext]_ixvars => [Kept]_ixvars
  BY StepIsStep, NoneDemoted
<1> QED
  BY IxInvariance, OrderInvariance, <1>1, PTL DEF IxSpec, CompletedStays

LogOf == [n \in Numbers |-> IF Completed(n) THEN blocks[n].hash ELSE NoBlock]

LEMMA InitLog == IxInit => Log!Init
BY DEF IxInit, Init, Completed, NoBlockRow, Log!Init

\* Completing a block appends it to the log; no other step changes the log.
LEMMA StepLog ==
    ASSUME IInv, IInv', IxTypeOK, RunnerAlone, OrderInv, [IxNext]_ixvars
    PROVE  [Log!Next]_LogOf
<1>0. /\ [Next]_vars /\ Alone /\ MaxNumber \in Nat /\ StartBlock \in Nat
      /\ blocks \in [Numbers -> BlockRow] /\ blocks' \in [Numbers -> BlockRow]
      /\ NoBlock \notin Block
  BY StepIsStep, NodeAssumption, SyncAssumption DEF RunnerAlone, IInv, TypeOK
<1>1. \A n \in Numbers : Completed(n) => blocks'[n].hash = blocks[n].hash /\ Completed(n)'
  BY <1>0, RowsStay, NoneDemoted DEF Completed
<1>2. CASE \A n \in Numbers : Completed(n)' => Completed(n)
  BY <1>1, <1>2 DEF LogOf, Completed
<1>3. ASSUME NEW n \in Numbers, ~Completed(n), Completed(n)'
      PROVE  Log!Next
  <2> DEFINE b == blocks'[n].hash
  <2>1. PICK s \in Syncer : pc[s] \in Calling /\ num[s] = n
    BY <1>0, <1>3, CompletesAndEnds
  <2>2. StartBlock <= n /\ UpTo(n)
    BY <2>1 DEF OrderInv, CallsNext
  <2>3. \A m \in Numbers \ {n} : Completed(m)' <=> Completed(m)
    <3> SUFFICES ASSUME NEW m \in Numbers, m # n, ~Completed(m), Completed(m)' PROVE FALSE
      BY <1>1
    <3>1. PICK u \in Syncer : num[u] = m
      BY <1>0, CompletesAndEnds
    <3> QED
      BY <1>0, <2>1, <3>1 DEF Alone
  <2>4. b \in Block /\ NumberOf[b] = n
    BY <1>0, <1>3 DEF IInv, RowNumber, Completed, BlockRow
  <2>5. LogOf' = [LogOf EXCEPT ![n] = b]
    BY <1>1, <1>3, <2>3 DEF LogOf
  <2>6. ~Log!InLog(n)
    BY <1>3, <2>4 DEF Log!InLog
  <2>7. Log!Extends(b)
    <3>1. CASE n = StartBlock
      BY <2>4, <3>1 DEF Log!Extends
    <3>2. CASE n # StartBlock
      <4>1. n - 1 \in Numbers /\ n > StartBlock /\ n > 0 /\ n - 1 < n /\ StartBlock <= n - 1
        BY <1>0, <2>2, <3>2 DEF Numbers
      <4>2. Completed(n - 1)
        BY <2>2, <4>1 DEF UpTo
      <4>3. ParentOf[b] = blocks'[n - 1].hash
        BY <1>3, <3>2, <4>1 DEF IInv, Linked, Completed
      <4>4. blocks'[n - 1].hash = blocks[n - 1].hash /\ blocks[n - 1].hash # NoBlock
        BY <1>1, <4>1, <4>2 DEF Completed
      <4> QED
        BY <2>4, <4>1, <4>2, <4>3, <4>4 DEF Log!Extends, Log!InLog
    <3> QED
      BY <3>1, <3>2
  <2> QED
    BY <2>4, <2>5, <2>6, <2>7 DEF Log!Next, Log!Append, LogOf
<1> QED
  BY <1>2, <1>3

\* A single caller implements the append-only log of completed blocks: the
\* dozen calls of a sync, any of which may fail, are one append or nothing.
THEOREM AloneImplementsLog == ASSUME RunnerAlone PROVE IxSpec => ImplementsLog
<1>1. /\ IInv /\ IInv' /\ IxTypeOK /\ OrderInv /\ [IxNext]_ixvars
      => [Log!Next]_LogOf
  BY StepLog
<1> QED
  BY IxInvariance, OrderInvariance, InitLog, <1>1, PTL
     DEF IxSpec, ImplementsLog, Log!Spec, LogOf

-----------------------------------------------------------------------------
(* A target that is final: only final blocks are asked for.                *)

Early == {"fetch", "check_row", "check_parent"}

\* A call starts with a planned number within the target; a plan is read from
\* the completed rows.
LEMMA RunSteps ==
    ASSUME IInv, IxTypeOK, Manual = {}, [IxNext]_ixvars, NEW s \in Syncer
    PROVE  /\ \A n \in plan'[s] : n \in plan[s] \/ n \in NextBlock
           /\ pc'[s] = "fetch" =>
                \/ pc[s] = "fetch" /\ num'[s] = num[s]
                \/ num'[s] \in plan[s] /\ WithinTarget(num'[s]) /\ UNCHANGED chain
           /\ pc'[s] \in Early =>
                \/ pc[s] \in Early /\ num'[s] = num[s]
                \/ num'[s] \in plan[s]
<1>0. /\ pc \in [Syncer -> Labels] /\ num \in [Syncer -> Numbers]
      /\ plan \in [Syncer -> SUBSET ({StartBlock} \cup 1..(MaxNumber + 1))]
  BY DEF IxTypeOK, TypeOK
<1>1. ASSUME NEW u \in Syncer, ReadProgress(u) \/ ReadTarget(u) \/ ReadTargetFails(u)
      PROVE  \A n \in plan'[s] : n \in plan[s] \/ n \in NextBlock
  BY <1>0, <1>1 DEF ReadProgress, ReadTarget, ReadTargetFails
<1>2. ASSUME NEW u \in Syncer, ReadTarget(u)
      PROVE  \/ pc'[s] = pc[s] /\ num'[s] = num[s]
             \/ num'[s] \in plan[s] /\ WithinTarget(num'[s]) /\ UNCHANGED chain
  <2>1. PICK n \in plan[u] : IF ShouldSync(n) THEN Call(u, n) ELSE UNCHANGED vars
    BY <1>2 DEF ReadTarget
  <2>2. CASE ShouldSync(n) /\ u = s
    BY <1>0, <2>1, <2>2 DEF Call, ShouldSync
  <2>3. CASE ~(ShouldSync(n) /\ u = s)
    BY <1>0, <2>1, <2>3 DEF Call, Goto, vars
  <2> QED
    BY <2>2, <2>3
<1>3. ASSUME NEW u \in Syncer, SyncBlock(u)
      PROVE  /\ plan' = plan
             /\ pc'[s] = "fetch" => pc[s] = "fetch" /\ num'[s] = num[s]
             /\ pc'[s] \in Early => pc[s] \in Early /\ num'[s] = num[s]
  BY <1>0, <1>3 DEF SyncBlock, SyncStep, FetchBlock, CheckRow, CheckParent, CheckTxs,
     Insert, ListMissing, FetchReceipt, ReceiptNotFound, UpdateReceipt, MarkSynced,
     MarkFailed, Fail, LostReply, Loop, Leave, Return, Goto, Early
<1>4. CASE Restart
  BY <1>4 DEF Restart, Crash, Early
<1>5. CASE (NodeStep /\ UNCHANGED plan) \/ UNCHANGED ixvars
  BY <1>5 DEF NodeStep, local, ixvars
<1>6. ASSUME NEW u \in Syncer, ReadProgress(u) \/ ReadTargetFails(u)
      PROVE  pc'[s] = pc[s] /\ num'[s] = num[s]
  BY <1>6 DEF ReadProgress, ReadTargetFails, vars
<1> QED
  BY <1>1, <1>2, <1>3, <1>4, <1>5, <1>6, CallerAssumption
     DEF IxNext, IxStep, RunIndexerOnce

\* The node serves what is final.
LEMMA FinalInChain ==
    ASSUME IInv, NEW n \in Numbers, IsFinal(n)
    PROVE  n \in DOMAIN chain
<1>1. n \in Nat /\ FinalDepth \in Nat
  BY NodeAssumption DEF Numbers
<1>2. NodeTypeOK /\ n + FinalDepth \in DOMAIN chain
  BY DEF IInv, TypeOK, IsFinal, HasBlock
<1> QED
  BY <1>1, <1>2, ChainShape

\* What is final stays final.
LEMMA FinalNumberStays ==
    ASSUME IInv, [Next]_vars, NEW n \in Numbers, IsFinal(n)
    PROVE  n + FinalDepth \in DOMAIN chain'
<1>1. n \in DOMAIN chain
  BY FinalInChain
<1>2. chain[n] \in Block /\ NumberOf[chain[n]] = n
  BY <1>1, ChainShape DEF IInv, TypeOK
<1> QED
  BY <1>2, FinalStays DEF OnFinalChain

\* A number within a target that trails the head by the depth of finality is
\* final.
LEMMA TargetNumberFinal ==
    ASSUME IInv, FinalDepth <= Lag, NEW n \in Nat, WithinTarget(n)
    PROVE  IsFinal(n)
<1>1. Lag - FinalDepth \in Nat /\ n + FinalDepth \in Nat
      /\ (n + FinalDepth) + (Lag - FinalDepth) = n + Lag
  BY NodeAssumption
<1> QED
  BY <1>1, ChainShape DEF IInv, TypeOK, WithinTarget, IsFinal, HasBlock

LEMMA AsksFinalStep ==
    ASSUME IInv, IxTypeOK, TargetFinal, AsksFinal, [IxNext]_ixvars
    PROVE  AsksFinal'
<1> SUFFICES ASSUME NEW s \in Syncer, pc'[s] = "fetch"
             PROVE  num'[s] + FinalDepth \in DOMAIN chain'
  BY DEF AsksFinal, IsFinal, HasBlock
<1>1. CASE pc[s] = "fetch" /\ num'[s] = num[s]
  BY <1>1, StepIsStep, FinalNumberStays DEF AsksFinal, IInv, TypeOK
<1>2. CASE num'[s] \in plan[s] /\ WithinTarget(num'[s]) /\ UNCHANGED chain
  <2>1. num'[s] \in Nat
    BY <1>2, SyncAssumption, NodeAssumption DEF IxTypeOK
  <2> QED
    BY <1>2, <2>1, TargetNumberFinal DEF TargetFinal, IsFinal, HasBlock
<1> QED
  BY <1>1, <1>2, RunSteps DEF TargetFinal

LEMMA ParentsStoredStep ==
    ASSUME IInv, IxTypeOK, TargetFinal, ParentsStored, [IxNext]_ixvars
    PROVE  ParentsStored'
<1>1. ASSUME NEW n, HasParent(n)
      PROVE  n \in {0, StartBlock} \/ (n > 0 /\ n - 1 \in Numbers /\ Stored(n - 1)')
  BY <1>1, StepIsStep, RowsStay DEF HasParent
<1>2. \A n \in NextBlock : HasParent(n)
  <2>1. \A k \in Numbers : Completed(k) => HasParent(k + 1)
    BY NodeAssumption DEF HasParent, Completed, Numbers
  <2> QED
    BY <2>1 DEF NextBlock, LatestFullySynced, HasParent
<1> SUFFICES ASSUME NEW s \in Syncer
             PROVE  /\ \A n \in plan'[s] : HasParent(n)
                    /\ pc'[s] \in Early => HasParent(num'[s])
  BY <1>1 DEF ParentsStored, HasParent, Early
<1> QED
  BY <1>2, RunSteps DEF TargetFinal, ParentsStored, Early

\* The checks of a final block find nothing wrong.
LEMMA NeverStuckStep ==
    ASSUME IInv, IxTypeOK, TargetFinal, FinalIxInv, [IxNext]_ixvars
    PROVE  NeverStuck'
<1> DEFINE Stuck == {"reorg", "discontinuity", "conflict"}
<1> SUFFICES ASSUME NEW s \in Syncer, pc'[s] \in Stuck
             PROVE  FALSE
  BY DEF NeverStuck
<1>0. /\ [Next]_vars /\ pc \in [Syncer -> Labels] /\ num[s] \in Numbers
      /\ pc[s] \notin Stuck
  BY StepIsStep DEF IInv, TypeOK, FinalIxInv, NeverStuck
<1>1. CheckRow(s) \/ CheckParent(s) \/ CheckTxs(s)
  BY <1>0 DEF Next, SyncStep, Call, Return, NodeStep, Crash, FetchBlock, Insert,
     ListMissing, FetchReceipt, ReceiptNotFound, UpdateReceipt, MarkSynced, MarkFailed,
     CheckRow, CheckParent, CheckTxs, Fail, LostReply, Loop, Leave, Goto, local, vars
<1>2. blk[s] \in Block /\ NumberOf[blk[s]] = num[s] /\ OnFinalChain(blk[s])
  BY <1>1 DEF CheckRow, CheckParent, CheckTxs, FinalIxInv, FinalInv, CallsFinal, Calling
<1>3. SafeInsert(blk[s])
  BY <1>2, FinalBlockSafe DEF FinalIxInv
<1>4. CASE CheckRow(s) \/ CheckTxs(s)
  BY <1>0, <1>2, <1>3, <1>4 DEF CheckRow, CheckTxs, Goto, SafeInsert
<1>5. CASE CheckParent(s)
  <2> DEFINE n == num[s]
  <2>1. ~Linkable(blk[s]) /\ n > 0 /\ HasParent(n)
    BY <1>0, <1>5 DEF CheckParent, Goto, IInv, Tracked, AboveZero, FinalIxInv, ParentsStored
  <2>2. n - 1 \in Numbers
    BY <1>0, <2>1, NodeAssumption DEF Numbers
  <2>3. Stored(n - 1)
    BY <1>2, <2>1 DEF Linkable, MayLackParent, HasParent
  <2>4. n \in DOMAIN chain /\ chain[n] = blk[s]
    BY <1>0, <1>2, FinalInChain DEF OnFinalChain
  <2>5. ParentOf[blk[s]] = chain[n - 1]
    BY <2>1, <2>4, ChainShape DEF IInv, TypeOK
  <2>6. blocks[n - 1].hash = chain[n - 1]
    BY <2>2, <2>3 DEF FinalIxInv, FinalInv, RowsFinal, OnFinalChain, IInv, RowNumber
  <2> QED
    BY <1>2, <2>1, <2>3, <2>5, <2>6 DEF Linkable, ParentAccepts
<1> QED
  BY <1>1, <1>4, <1>5

\* Trailing the head by the depth of finality, all that the indexer asks for,
\* holds and records is final, and no check ever fails on it.
LEMMA FinalIxInvariance == ASSUME TargetFinal PROVE IxSpec => []FinalIxInv
<1>1. IxInit => FinalIxInv
  BY InitFinal DEF IxInit, Init, FinalIxInv, AsksFinal, ParentsStored, NeverStuck
<1>2. IInv /\ RInv /\ IxTypeOK /\ FinalIxInv /\ [IxNext]_ixvars => FinalIxInv'
  <2> SUFFICES ASSUME IInv, RInv, IxTypeOK, FinalIxInv, [IxNext]_ixvars
               PROVE  FinalIxInv'
    OBVIOUS
  <2>1. [Next]_vars /\ FetchesFinal
    BY StepIsStep DEF FinalIxInv, AsksFinal, FetchesFinal, FetchBlock
  <2>2. FinalInv'
    BY <2>1, FinalStep DEF FinalIxInv
  <2> QED
    BY <2>2, AsksFinalStep, ParentsStoredStep, NeverStuckStep DEF FinalIxInv
<1> QED
  BY IxInvariance, IndexerIsSync, ReceiptInvariance, <1>1, <1>2, PTL DEF IxSpec

\* The indexer records final blocks only, for any number of runners and
\* run-once requests, if the target trails the head by the depth of finality
\* (ShouldSyncBlock and GetSyncTarget).
THEOREM FinalStoredIsFinal == ASSUME TargetFinal PROVE IxSpec => []StoredIsFinal
<1>1. IInv /\ FinalIxInv => StoredIsFinal
  BY DEF IInv, RowNumber, FinalIxInv, FinalInv, RowsFinal, OnFinalChain, StoredIsFinal
<1> QED
  BY IxInvariance, FinalIxInvariance, <1>1, PTL

\* ... and none of its syncs ends in a conflict that an operator would have
\* to resolve (ErrReorgDetected, ErrBlockDiscontinuity, ErrTransactionConflict).
THEOREM FinalNeverStuck == ASSUME TargetFinal PROVE IxSpec => []NeverStuck
BY FinalIxInvariance, PTL DEF FinalIxInv

\* ... and the tables agree, although the callers write without a lock.
THEOREM FinalTxBelongsToRow == ASSUME TargetFinal PROVE IxSpec => []TxBelongsToRow
BY FinalIxInvariance, PTL DEF FinalIxInv, FinalInv, Places

THEOREM FinalRowHasItsTxs == ASSUME TargetFinal PROVE IxSpec => []RowHasItsTxs
BY FinalIxInvariance, PTL DEF FinalIxInv, FinalInv, Places

\* ... and a completed block has all its receipts, if the node has those of
\* what it has mined.
LEMMA FinalReceiptsInvariance ==
    ASSUME TargetFinal, ~ReceiptMayLag
    PROVE  IxSpec => []ReceiptsInv
<1>1. IxInit => ReceiptsInv
  BY InitReceipts DEF IxInit
<1>2. /\ IInv /\ RInv /\ IxTypeOK /\ FinalIxInv /\ FinalIxInv' /\ ReceiptsInv
      /\ [IxNext]_ixvars
      => ReceiptsInv'
  BY StepIsStep, ReceiptsStep DEF FinalIxInv
<1> QED
  BY IxInvariance, IndexerIsSync, ReceiptInvariance, FinalIxInvariance, <1>1, <1>2, PTL
     DEF IxSpec

THEOREM FinalCompletedHasReceipts ==
    ASSUME TargetFinal, ~ReceiptMayLag
    PROVE  IxSpec => []CompletedHasReceipts
BY FinalReceiptsInvariance, PTL DEF ReceiptsInv
=============================================================================
