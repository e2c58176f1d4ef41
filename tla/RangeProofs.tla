----------------------------- MODULE RangeProofs ------------------------------
(***************************************************************************)
(* Theorems of RangeSync, for requests that stay below the largest number: *)
(* the loop makes as many calls as the limit allows and accounts for each  *)
(* number.  What happens at the largest number is a run of TLC.            *)
(***************************************************************************)
EXTENDS RangeSync, BlockSyncPlaces

\* No request reaches the largest number.
BelowTop == MaxNumber \notin RangeEnds

\* The calls that were made, and the one that is being made, are counted.
CountOK ==
    /\ RTypeOK
    /\ Tried <= MaxTries
    /\ phase = "sync" => Tried < MaxTries
    /\ phase = "idle" => Tried = 0

\* The loop of a request below the largest number is at its start plus what
\* it has tried.
LoopOK ==
    /\ phase # "idle" => /\ range.end \in RangeEnds /\ range.start <= range.end
                         /\ range.end - range.start + 1 <= MaxBlockRange
    /\ phase \in {"loop", "sync", "done"} =>
         number = range.start + Tried /\ number <= range.end + 1
    /\ phase = "sync" => number <= range.end
    /\ phase = "done" => number = range.end + 1
    /\ phase = "stopped" => Tried <= MaxBlockRange

-----------------------------------------------------------------------------
USE DEF Stored

LEMMA PlusSmall ==
    ASSUME NEW m \in Numbers, NEW k \in Nat, m + k <= MaxNumber
    PROVE  Plus(m, k) = m + k
<1>1. m + k \in Nat /\ MaxNumber + 1 \in Nat /\ m + k < MaxNumber + 1
  BY NodeAssumption DEF Numbers
<1>2. \A a, d \in Nat : a < d => a % d = a
  OBVIOUS
<1> QED
  BY <1>1, <1>2 DEF Plus

LEMMA PlusIsNumber ==
    ASSUME NEW m \in Numbers, NEW k \in Nat
    PROVE  Plus(m, k) \in Numbers
<1>1. m + k \in Nat /\ MaxNumber \in Nat
  BY NodeAssumption DEF Numbers
<1>2. \A a, d \in Nat : a % (d + 1) \in 0..d
  OBVIOUS
<1> QED
  BY <1>1, <1>2 DEF Plus, Numbers

LEMMA MinusSmall ==
    ASSUME NEW m \in Numbers, NEW n \in Numbers, n <= m
    PROVE  Minus(m, n) = m - n
<1>1. /\ m - n \in Nat /\ MaxNumber + 1 \in Nat /\ m - n < MaxNumber + 1
      /\ m + (MaxNumber + 1) - n = (m - n) + (MaxNumber + 1)
  BY NodeAssumption DEF Numbers
<1>2. \A a, d \in Nat : a < d => (a + d) % d = a
  OBVIOUS
<1> QED
  BY <1>1, <1>2 DEF Minus

LEMMA RStepIsStep ==
    ASSUME RTypeOK, [RNext]_rvars
    PROVE  [Next]_vars
<1>0. Ranger \in Syncer /\ number \in Numbers
  BY RangeAssumption DEF RTypeOK
<1>1. CASE RangeStep
  BY <1>0, <1>1 DEF RangeStep, LoopBody, LoopEnd, LoopCanceled, CountResult, Respond, Next
<1>2. CASE \E start \in Numbers, end \in RangeEnds : SyncBlockRange(start, end)
  BY <1>2 DEF SyncBlockRange
<1>3. CASE UNCHANGED rvars
  BY <1>3 DEF rvars, vars
<1> QED
  BY <1>1, <1>2, <1>3 DEF RNext, Next

LEMMA CountStep ==
    ASSUME CountOK, TypeOK', [RNext]_rvars
    PROVE  CountOK'
<1>0. /\ succeeded \in Nat /\ failedBlocks \in Seq(Numbers) /\ Len(failedBlocks) \in Nat
      /\ number \in Numbers /\ range \in [start : Numbers, end : Numbers]
      /\ MaxTries \in Nat /\ 0 \in Numbers /\ RangeEnds \subseteq Numbers
  BY NodeAssumption, RangeAssumption DEF CountOK, RTypeOK, MaxTries, Numbers
<1>1. CASE \E start \in Numbers, end \in RangeEnds : SyncBlockRange(start, end)
  BY <1>0, <1>1 DEF SyncBlockRange, CountOK, RTypeOK, Tried
<1>2. CASE LoopBody \/ LoopEnd \/ LoopCanceled
  BY <1>0, <1>2 DEF LoopBody, LoopEnd, LoopCanceled, CountOK, RTypeOK, Tried
<1>3. CASE CountResult
  <2>1. /\ succeeded' \in Nat /\ failedBlocks' \in Seq(Numbers)
        /\ Tried' = Tried + 1
    BY <1>0, <1>3 DEF CountResult, Tried
  <2>2. number' \in Numbers /\ phase' \in {"loop", "stopped"} /\ UNCHANGED range
    BY <1>0, <1>3, PlusIsNumber DEF CountResult, NextNumber
  <2>3. Tried' <= MaxTries
    BY <1>0, <1>3, <2>1 DEF CountResult, CountOK, Tried
  <2>4. succeeded' \in 0..MaxTries
    BY <1>0, <2>1, <2>3 DEF Tried
  <2> QED
    BY <1>0, <2>1, <2>2, <2>3, <2>4 DEF CountOK, RTypeOK, MaxTries
<1>4. CASE Respond \/ (Crash /\ NoRequest)
  <2>1. /\ phase' = "idle" /\ range' = [start |-> 0, end |-> 0]
        /\ number' = 0 /\ succeeded' = 0 /\ failedBlocks' = <<>>
    BY <1>4 DEF Respond, NoRequest
  <2>2. Tried' = 0 /\ 0 \in 0..MaxTries /\ <<>> \in Seq(Numbers)
    BY <1>0, <2>1 DEF Tried
  <2>3. range' \in [start : Numbers, end : Numbers]
    BY <1>0, <2>1
  <2>4. MaxTries' = MaxTries
    BY DEF MaxTries
  <2> QED
    BY <1>0, <2>1, <2>2, <2>3, <2>4 DEF CountOK, RTypeOK
<1>5. CASE UNCHANGED request
  BY <1>5 DEF request, CountOK, RTypeOK, Tried, MaxTries
<1> QED
  BY <1>1, <1>2, <1>3, <1>4, <1>5 DEF RNext, RangeStep, rvars, request

LEMMA RInvariance == RSpec => [](IInv /\ CountOK)
<1>1. RInit => IInv /\ CountOK
  <2> SUFFICES ASSUME RInit PROVE IInv /\ CountOK
    OBVIOUS
  <2>1. IInv /\ 0 \in Numbers /\ MaxTries \in Nat
    BY InitIInv, NodeAssumption, RangeAssumption DEF RInit, MaxTries, Numbers
  <2> QED
    BY <2>1 DEF RInit, CountOK, RTypeOK, IInv, Tried
<1>2. IInv /\ CountOK /\ [RNext]_rvars => (IInv /\ CountOK)'
  <2> SUFFICES ASSUME IInv, CountOK, [RNext]_rvars
               PROVE  (IInv /\ CountOK)'
    OBVIOUS
  <2>1. [Next]_vars
    BY RStepIsStep DEF CountOK
  <2>2. IInv'
    BY <2>1, TypeStep, StepMoves, MovedRowNumber, MovedLinked, TrackedStep DEF IInv
  <2> QED
    BY <2>2, CountStep DEF IInv
<1> QED
  BY <1>1, <1>2, PTL DEF RSpec

\* The types of the range request; its counters do not outgrow the bound.
THEOREM RTypeCorrect == RSpec => []RTypeOK
BY RInvariance, PTL DEF CountOK

\* A range request runs nothing but SyncBlockToDB, next to other callers.
THEOREM RangeIsSync == RSpec => Spec
<1>1. RInit => Init
  BY DEF RInit
<1>2. RTypeOK /\ [RNext]_rvars => [Next]_vars
  BY RStepIsStep
<1> QED
  BY RTypeCorrect, <1>1, <1>2, PTL DEF RSpec, Spec

-----------------------------------------------------------------------------
(* The number of calls.                                                    *)

LEMMA LoopStep ==
    ASSUME BelowTop, CountOK, LoopOK, [RNext]_rvars
    PROVE  LoopOK'
<1>0. /\ Tried \in Nat /\ MaxBlockRange \in Nat /\ MaxNumber \in Nat
      /\ number \in Numbers /\ range.start \in Numbers /\ range.end \in Numbers
      /\ \A n \in Numbers : n \in Nat
      /\ \A e \in RangeEnds : e \in Numbers /\ e < MaxNumber
  BY NodeAssumption, RangeAssumption DEF CountOK, RTypeOK, Tried, BelowTop, Numbers
<1>1. ASSUME NEW start \in Numbers, NEW end \in RangeEnds, SyncBlockRange(start, end)
      PROVE  LoopOK'
  <2>1. start <= end /\ ~TooLarge(start, end)
    BY <1>1 DEF SyncBlockRange
  <2>2. Minus(end, start) = end - start /\ end - start \in Numbers
    BY <1>0, <2>1, MinusSmall DEF Numbers
  <2>3. Plus(end - start, 1) = end - start + 1
    BY <1>0, <2>1, <2>2, PlusSmall
  <2>4. end - start + 1 <= MaxBlockRange
    BY <1>0, <2>1, <2>2, <2>3 DEF TooLarge
  <2>5. Tried' = 0 /\ Tried = 0
    BY <1>1 DEF SyncBlockRange, CountOK, Tried
  <2> QED
    BY <1>0, <1>1, <2>1, <2>4, <2>5 DEF SyncBlockRange, LoopOK
<1>2. CASE LoopBody \/ LoopEnd \/ LoopCanceled
  <2>1. Tried' = Tried
    BY <1>2 DEF LoopBody, LoopEnd, LoopCanceled, Tried
  <2> QED
    BY <1>0, <1>2, <2>1 DEF LoopBody, LoopEnd, LoopCanceled, LoopOK
<1>3. CASE CountResult
  <2>1. Tried' = Tried + 1
    BY <1>3 DEF CountResult, CountOK, RTypeOK, Tried, MaxTries
  <2>2. Plus(number, 1) = number + 1
    BY <1>0, <1>3, PlusSmall DEF CountResult, LoopOK
  <2>3. /\ UNCHANGED range /\ phase = "sync"
        /\ \/ phase' = "stopped"
           \/ phase' = "loop" /\ number' = number + 1
    BY <1>3, <2>2 DEF CountResult, NextNumber
  <2>4. /\ number = range.start + Tried /\ number <= range.end
        /\ range.end \in RangeEnds /\ range.start <= range.end
        /\ range.end - range.start + 1 <= MaxBlockRange
    BY <2>3 DEF LoopOK
  <2>5. /\ range.start \in Nat /\ range.end \in Nat /\ number \in Nat
    BY <1>0
  <2>6. /\ Tried' <= MaxBlockRange
        /\ number + 1 = range.start + Tried' /\ number + 1 <= range.end + 1
    BY <1>0, <2>1, <2>4, <2>5
  <2>7. range' = range
    BY <2>3
  <2> HIDE DEF Tried
  <2> QED
    BY <2>3, <2>4, <2>6, <2>7 DEF LoopOK
<1>4. CASE Respond \/ (Crash /\ NoRequest)
  BY <1>4 DEF Respond, NoRequest, LoopOK
<1>5. CASE UNCHANGED request
  BY <1>5 DEF request, LoopOK, Tried
<1> QED
  BY <1>1, <1>2, <1>3, <1>4, <1>5 DEF RNext, RangeStep, rvars, request

LEMMA LoopInvariance == ASSUME BelowTop PROVE RSpec => []LoopOK
<1>1. RInit => LoopOK
  BY DEF RInit, LoopOK
<1>2. CountOK /\ LoopOK /\ [RNext]_rvars => LoopOK'
  BY LoopStep
<1> QED
  BY RInvariance, <1>1, <1>2, PTL DEF RSpec

\* A range request makes at most maxBlockRange calls of SyncBlockToDB, if its
\* end is not the largest uint64 (SyncBlockRangeToDB).
THEOREM RangeIsBounded == ASSUME BelowTop PROVE RSpec => []RangeBounded
<1>1. CountOK /\ LoopOK => RangeBounded
  <2> SUFFICES ASSUME CountOK, LoopOK PROVE Tried <= MaxBlockRange
    BY DEF RangeBounded
  <2>0. /\ Tried \in Nat /\ MaxBlockRange \in Nat
        /\ range.start \in Nat /\ range.end \in Nat /\ number \in Nat
    BY NodeAssumption, RangeAssumption DEF CountOK, RTypeOK, Tried, Numbers
  <2> QED
    BY <2>0 DEF CountOK, RTypeOK, LoopOK
<1> QED
  BY RInvariance, LoopInvariance, <1>1, PTL

-----------------------------------------------------------------------------
(* The report.                                                             *)

\* What a sole call knows of the completion of its block.
EmptyComplete ==
    \A n \in Numbers : Stored(n) /\ BlockTxs(blocks[n].hash) = {} => Completed(n)

HasTxs == \A s \in Syncer : pc[s] \in ReceiptLabels => BlockTxs(blk[s]) # {}

OkCompleted == \A s \in Syncer : pc[s] = "ok" => Completed(num[s])

OutcomeInv == EmptyComplete /\ HasTxs /\ OkCompleted

\* The call the loop waits for is the one for its number.
LoopCalls == IF phase = "sync" THEN num[Ranger] = number ELSE pc[Ranger] = "idle"

\* The numbers the loop has passed are completed or reported.
Reported(n) == Completed(n) \/ \E i \in 1..Len(failedBlocks) : failedBlocks[i] = n

PassedReported ==
    phase # "idle" => \A n \in range.start..(number - 1) : Reported(n)

ReportInv == OutcomeInv /\ LoopCalls /\ PassedReported

LEMMA OutcomeStep ==
    ASSUME IInv, RInv, Alone, AloneInv, RowsTxsSynced, OutcomeInv, [Next]_vars, AloneInv'
    PROVE  OutcomeInv'
<1>0. /\ pc \in [Syncer -> Labels] /\ num \in [Syncer -> Numbers]
      /\ blocks \in [Numbers -> BlockRow]
      /\ \A s \in Syncer : Recorded(s) /\ Recorded(s)'
      /\ \A r, s \in Syncer : r = s
  BY DEF IInv, TypeOK, AloneInv, UpToDate, Alone
<1>1. EmptyComplete'
  <2> SUFFICES ASSUME NEW n \in Numbers, Stored(n)', BlockTxs(blocks'[n].hash) = {},
                      ~Completed(n)'
               PROVE  FALSE
    BY DEF EmptyComplete
  <2>1. CASE Stored(n)
    <3>1. blocks'[n].hash = blocks[n].hash
      BY <2>1, RowsStay
    <3>2. Completed(n)
      BY <2>1, <3>1 DEF OutcomeInv, EmptyComplete
    <3>3. PICK s \in Syncer : num[s] = n /\ pc[s] = "mark_failed"
      BY <3>2, DemotedSteps
    <3>4. BlockTxs(blk[s]) # {} /\ blocks[n].hash = blk[s]
      BY <1>0, <3>3 DEF OutcomeInv, HasTxs, Recorded, ReceiptLabels, Known
    <3> QED
      BY <3>1, <3>4
  <2>2. CASE ~Stored(n)
    <3>1. ~(blocks' = blocks)
      BY <2>2
    <3>2. PICK s \in Syncer : InsertsAt(s) \/ MarksAt(s)
      BY <3>1, WriteKinds DEF TakesAt, Takes
    <3>3. CASE InsertsAt(s)
      <4>1. n = num[s] /\ blocks' = [blocks EXCEPT ![n] = InsertedRow(blk[s])]
        BY <1>0, <2>2, <3>1, <3>3 DEF InsertsAt, Inserts, InsertBlock
      <4>2. blocks'[n] = InsertedRow(blk[s]) /\ InsertedRow(blk[s]).hash = blk[s]
        BY <1>0, <4>1 DEF InsertedRow
      <4>3. BlockTxs(blk[s]) = {}
        BY <4>2
      <4>4. /\ InsertedRow(blk[s]).status = "completed" /\ InsertedRow(blk[s]).txsSynced
            /\ InsertedRow(blk[s]).receiptsSynced /\ ~InsertedRow(blk[s]).lastError
        BY <4>3 DEF InsertedRow
      <4> QED
        BY <4>2, <4>4 DEF Completed
    <3>4. CASE MarksAt(s)
      <4>1. Stored(num[s]) /\ num[s] \in Numbers
        BY <1>0, <3>4 DEF MarksAt
      <4>2. n # num[s]
        BY <2>2, <4>1
      <4>3. blocks'[n] = blocks[n]
        BY <1>0, <3>4, <4>2 DEF MarksAt, MarkReceiptsSynced, MarkReceiptsSyncFailed
      <4> QED
        BY <2>2, <4>3
    <3> QED
      BY <3>2, <3>3, <3>4
  <2> QED
    BY <2>1, <2>2
<1>2. HasTxs'
  <2> SUFFICES ASSUME NEW s \in Syncer, pc'[s] \in ReceiptLabels
               PROVE  BlockTxs(blk'[s]) # {}
    BY DEF HasTxs
  <2>1. blk'[s] = blk[s] /\ (pc[s] \in ReceiptLabels \/ BlockTxs(blk[s]) # {})
    BY <1>0 DEF Next, SyncStep, Call, Return, NodeStep, Crash, FetchBlock, CheckRow, CheckParent,
       CheckTxs, Insert, ListMissing, FetchReceipt, ReceiptNotFound, UpdateReceipt,
       MarkSynced, MarkFailed, Fail, LostReply, vars, local, Goto, Leave, Loop, ReceiptLabels
  <2> QED
    BY <2>1 DEF OutcomeInv, HasTxs
<1>3. OkCompleted'
  <2> SUFFICES ASSUME NEW s \in Syncer, pc'[s] = "ok"
               PROVE  Completed(num[s])'
    BY DEF OkCompleted
  <2>1. /\ num'[s] = num[s] /\ num[s] \in Numbers
        /\ \/ pc[s] = "ok"
           \/ Insert(s) /\ BlockTxs(blk'[s]) = {}
           \/ MarkSynced(s) /\ Stored(num[s]) /\ blocks' = MarkReceiptsSynced(num[s])
    BY <1>0 DEF Next, SyncStep, Call, Return, NodeStep, Crash, FetchBlock, CheckRow, CheckParent,
       CheckTxs, Insert, ListMissing, FetchReceipt, ReceiptNotFound, UpdateReceipt,
       MarkSynced, MarkFailed, Fail, LostReply, vars, local, Goto, Leave, Loop, Outcomes
  <2>2. CASE pc[s] = "ok"
    <3>1. Completed(num[s])
      BY <2>2 DEF OutcomeInv, OkCompleted
    <3>2. Completed(num[s])'
      BY <1>0, <2>1, <2>2, <3>1, DemotedSteps
    <3> QED
      BY <2>1, <3>2
  <2>3. CASE Insert(s) /\ BlockTxs(blk'[s]) = {}
    <3>1. blk'[s] \in Block /\ NumberOf[blk'[s]] = num'[s] /\ Known(blk[s])'
      BY <1>0 DEF Recorded
    <3>2. blocks'[num'[s]].hash = blk'[s] /\ blk'[s] # NoBlock
      BY <3>1, NodeAssumption DEF Known
    <3> QED
      BY <1>1, <2>1, <2>3, <3>2 DEF EmptyComplete
  <2>4. CASE Stored(num[s]) /\ blocks' = MarkReceiptsSynced(num[s])
    BY <1>0, <2>1, <2>4 DEF MarkReceiptsSynced, Completed, RowsTxsSynced, BlockRow
  <2> QED
    BY <2>1, <2>2, <2>3, <2>4
<1> QED
  BY <1>1, <1>2, <1>3 DEF OutcomeInv

LEMMA LoopCallsStep ==
    ASSUME RTypeOK, LoopCalls, [RNext]_rvars
    PROVE  LoopCalls'
<1>0. pc \in [Syncer -> Labels] /\ num \in [Syncer -> Numbers] /\ Ranger \in Syncer
  BY RangeAssumption DEF RTypeOK, TypeOK
<1>1. CASE \E start \in Numbers, end \in RangeEnds : SyncBlockRange(start, end)
  BY <1>1 DEF SyncBlockRange, LoopCalls, vars
<1>2. CASE LoopBody
  BY <1>0, <1>2 DEF LoopBody, Call, LoopCalls
<1>3. CASE LoopEnd \/ LoopCanceled \/ Respond
  BY <1>3 DEF LoopEnd, LoopCanceled, Respond, NoRequest, LoopCalls, vars
<1>4. CASE CountResult
  BY <1>0, <1>4 DEF CountResult, Return, Goto, LoopCalls
<1>5. CASE Crash /\ NoRequest
  BY <1>0, <1>5 DEF Crash, NoRequest, LoopCalls
<1>6. ASSUME NEW s \in Syncer, SyncStep(s), UNCHANGED request
      PROVE  LoopCalls'
  <2>1. UNCHANGED num /\ pc[s] # "idle" /\ (s # Ranger => pc'[Ranger] = pc[Ranger])
    BY <1>0, <1>6 DEF SyncStep, FetchBlock, CheckRow, CheckParent, CheckTxs, Insert, ListMissing,
       FetchReceipt, ReceiptNotFound, UpdateReceipt, MarkSynced, MarkFailed, Fail, LostReply,
       Goto, Leave, Loop, Calling
  <2> QED
    BY <1>6, <2>1 DEF LoopCalls, request
<1>7. ASSUME NEW s \in Syncer \ {Ranger}, Return(s) \/ \E n \in Numbers : Call(s, n),
             UNCHANGED request
      PROVE  LoopCalls'
  BY <1>0, <1>7 DEF Return, Call, Goto, LoopCalls, request
<1>8. CASE (NodeStep /\ UNCHANGED request) \/ UNCHANGED rvars
  BY <1>8 DEF NodeStep, local, request, rvars, LoopCalls
<1> QED
  BY <1>1, <1>2, <1>3, <1>4, <1>5, <1>6, <1>7, <1>8 DEF RNext, RangeStep

\* Numbers the loop has passed stay completed: the call is at a later one.
LEMMA PassedStays ==
    ASSUME IInv, RTypeOK, Alone, LoopCalls, [Next]_vars,
           NEW n \in Numbers, n < number, Completed(n)
    PROVE  Completed(n)'
<1> SUFFICES ASSUME ~Completed(n)' PROVE FALSE
  OBVIOUS
<1>1. PICK s \in Syncer : num[s] = n /\ pc[s] = "mark_failed"
  BY DemotedSteps
<1>2. s = Ranger /\ number \in Nat /\ n \in Nat
  BY RangeAssumption, NodeAssumption DEF Alone, RTypeOK, Numbers
<1> QED
  BY <1>1, <1>2 DEF LoopCalls

LEMMA PassedStep ==
    ASSUME IInv, Alone, BelowTop, CountOK, LoopOK, ReportInv, [RNext]_rvars
    PROVE  PassedReported'
<1>0. /\ number \in Nat /\ range.start \in Nat /\ range \in [start : Numbers, end : Numbers]
      /\ failedBlocks \in Seq(Numbers) /\ Len(failedBlocks) \in Nat /\ MaxNumber \in Nat
      /\ number \in Numbers /\ Ranger \in Syncer /\ [Next]_vars
  BY RStepIsStep, NodeAssumption, RangeAssumption DEF CountOK, RTypeOK, Numbers
<1>1. ASSUME NEW n \in range.start..(number - 1), phase # "idle", UNCHANGED failedBlocks
      PROVE  Reported(n)'
  <2>1. n \in Numbers /\ n < number
    BY <1>0, <1>1 DEF Numbers
  <2>2. Reported(n)
    BY <1>1 DEF ReportInv, PassedReported
  <2>3. Completed(n) => Completed(n)'
    BY <1>0, <2>1, PassedStays DEF ReportInv, CountOK
  <2> QED
    BY <1>1, <2>2, <2>3 DEF Reported
<1>2. CASE phase # "idle" /\ UNCHANGED <<range, number, failedBlocks>>
  BY <1>1, <1>2 DEF PassedReported
<1>3. CASE phase' = "idle"
  BY <1>3 DEF PassedReported
<1>4. ASSUME NEW start \in Numbers, NEW end \in RangeEnds, SyncBlockRange(start, end)
      PROVE  PassedReported'
  <2>1. number' = start /\ range'.start = start /\ start \in Nat
    BY <1>4, NodeAssumption DEF SyncBlockRange, Numbers
  <2>2. \A n \in range'.start..(number' - 1) : FALSE
    BY <2>1
  <2> QED
    BY <2>2 DEF PassedReported
<1>5. CASE CountResult
  <2>1. /\ UNCHANGED range /\ phase = "sync"
        /\ num[Ranger] = number /\ number < MaxNumber
    BY <1>0, <1>5, RangeAssumption, NodeAssumption
       DEF CountResult, ReportInv, LoopCalls, LoopOK, BelowTop, Numbers
  <2>2. Plus(number, 1) = number + 1
    BY <1>0, <2>1, PlusSmall
  <2>3. /\ number' \in {number, number + 1} /\ UNCHANGED blocks
        /\ \/ pc[Ranger] = "ok" /\ UNCHANGED failedBlocks
           \/ failedBlocks' = Append(failedBlocks, number)
    BY <1>5, <2>2 DEF CountResult, NextNumber, Return, db
  <2>4. ASSUME NEW n \in range.start..number
        PROVE  Reported(n)'
    <3>1. CASE n = number
      <4>1. CASE pc[Ranger] = "ok"
        BY <1>0, <2>1, <2>3, <3>1, <4>1 DEF ReportInv, OutcomeInv, OkCompleted, Reported, Completed
      <4>2. CASE failedBlocks' = Append(failedBlocks, number)
        <5>1. /\ Len(failedBlocks') = Len(failedBlocks) + 1
              /\ failedBlocks'[Len(failedBlocks) + 1] = number
          BY <1>0, <4>2
        <5>2. Len(failedBlocks) + 1 \in 1..Len(failedBlocks')
          BY <1>0, <5>1
        <5> QED
          BY <3>1, <5>1, <5>2 DEF Reported
      <4> QED
        BY <2>3, <4>1, <4>2
    <3>2. CASE n # number
      <4>1. n \in range.start..(number - 1)
        BY <1>0, <2>4, <3>2
      <4>2. Reported(n)
        BY <2>1, <4>1 DEF ReportInv, PassedReported
      <4>3. CASE Completed(n)
        BY <2>3, <4>3 DEF Completed, Reported
      <4>4. ASSUME NEW i \in 1..Len(failedBlocks), failedBlocks[i] = n
            PROVE  Reported(n)'
        <5>1. i \in 1..Len(failedBlocks') /\ failedBlocks'[i] = n
          BY <1>0, <2>3, <4>4
        <5> QED
          BY <5>1 DEF Reported
      <4> QED
        BY <4>2, <4>3, <4>4 DEF Reported
    <3> QED
      BY <3>1, <3>2
  <2>5. \A n \in range'.start..(number' - 1) : n \in range.start..number
    <3>1. range'.start = range.start
      BY <2>1
    <3>2. \A a, b, c \in Nat : c \in {b, b + 1} => \A n \in a..(c - 1) : n \in a..b
      OBVIOUS
    <3>3. number' \in Nat /\ number' \in {number, number + 1}
      BY <1>0, <2>3
    <3>4. \A n \in range.start..(number' - 1) : n \in range.start..number
      BY <1>0, <3>2, <3>3
    <3> QED
      BY <3>1, <3>4
  <2> QED
    BY <2>4, <2>5 DEF PassedReported
<1>6. CASE UNCHANGED request
  BY <1>2, <1>3, <1>6 DEF request
<1>7. CASE LoopBody \/ LoopEnd \/ LoopCanceled
  BY <1>2, <1>7 DEF LoopBody, LoopEnd, LoopCanceled
<1>8. CASE Respond \/ (Crash /\ NoRequest)
  BY <1>3, <1>8 DEF Respond, NoRequest
<1> QED
  BY <1>4, <1>5, <1>6, <1>7, <1>8 DEF RNext, RangeStep, rvars, request

LEMMA ReportInvariance == ASSUME Alone, BelowTop PROVE RSpec => []ReportInv
<1>1. RInit => ReportInv
  <2> SUFFICES ASSUME RInit PROVE ReportInv
    OBVIOUS
  <2>1. /\ \A n \in Numbers : ~Stored(n)
        /\ \A s \in Syncer : pc[s] = "idle"
        /\ phase = "idle" /\ Ranger \in Syncer
    BY RangeAssumption DEF RInit, Init, NoBlockRow
  <2> QED
    BY <2>1 DEF ReportInv, OutcomeInv, EmptyComplete, HasTxs, OkCompleted, LoopCalls,
                PassedReported, ReceiptLabels
<1>2. /\ IInv /\ RInv /\ AloneInv /\ RowsTxsSynced /\ CountOK /\ LoopOK /\ ReportInv
      /\ [RNext]_rvars /\ AloneInv'
      => ReportInv'
  <2> SUFFICES ASSUME IInv, RInv, AloneInv, RowsTxsSynced, CountOK, LoopOK, ReportInv,
                      [RNext]_rvars, AloneInv'
               PROVE  ReportInv'
    OBVIOUS
  <2>1. [Next]_vars /\ RTypeOK
    BY RStepIsStep DEF CountOK
  <2> QED
    BY <2>1, OutcomeStep, LoopCallsStep, PassedStep DEF ReportInv
<1> QED
  BY RangeIsSync, RInvariance, LoopInvariance, ReceiptInvariance, AloneInvariance,
     TxsSyncedInvariance, <1>1, <1>2, PTL DEF RSpec

\* The report of a range accounts for every number of it, and what it counts
\* as synced is completed, if no other sync runs and the end is below the
\* largest uint64 (SyncBlockRangeToDB: Succeeded, Failed and FailedBlocks).
THEOREM RangeReportIsTrue ==
    ASSUME Alone, BelowTop
    PROVE  RSpec => []RangeReport
<1>1. CountOK /\ LoopOK /\ ReportInv => RangeReport
  <2> SUFFICES ASSUME CountOK, LoopOK, ReportInv, phase = "done"
               PROVE  /\ Tried = range.end - range.start + 1
                      /\ \A n \in range.start..range.end : Reported(n)
    BY DEF RangeReport, Reported
  <2>0. /\ Tried \in Nat /\ range.start \in Nat /\ range.end \in Nat /\ number \in Nat
    BY NodeAssumption, RangeAssumption DEF CountOK, RTypeOK, Tried, Numbers
  <2>1. number = range.start + Tried /\ number = range.end + 1
    BY DEF LoopOK
  <2>2. Tried = range.end - range.start + 1 /\ number - 1 = range.end
    BY <2>0, <2>1
  <2> QED
    BY <2>2 DEF ReportInv, PassedReported
<1> QED
  BY RInvariance, LoopInvariance, ReportInvariance, <1>1, PTL
=============================================================================
