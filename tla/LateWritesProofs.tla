--------------------------- MODULE LateWritesProofs ---------------------------
(***************************************************************************)
(* Theorems of LateWrites.  A write that outlives its call is executed     *)
(* when nobody holds what was checked for it.  It does no harm to the rows *)
(* all the same, for any number of callers and of late writes: what was    *)
(* checked is of the kind that stays true, whoever writes in between.      *)
(***************************************************************************)
EXTENDS LateWrites, IndexerProofs

\* What a write in flight was checked for is still so.
StillChecked(w) ==
    \/ w.op = "insert" /\ w.block \in Block /\ MayAdd(w.block)
    \/ /\ w.op = "update" /\ w.tx \in Tx
       /\ Indexed(w.tx) /\ txs[w.tx].block = w.block
    \/ w.op \in Marks /\ w.number \in Numbers /\ Stored(w.number)

LateInv ==
    /\ IInv /\ RInv /\ RowsTxsSynced
    /\ \A w \in late : StillChecked(w)

-----------------------------------------------------------------------------
USE DEF Stored

\* The receipt of t is taken, from the block it is recorded in.
TakesOwn(t) ==
    /\ Indexed(t)
    /\ UNCHANGED blocks
    /\ txs' = [txs EXCEPT ![t].receipt = txs[t].block]

\* The kinds of writes, without the call that runs them.
Write ==
    \/ UNCHANGED db
    \/ \E b \in Block : Inserts(b)
    \/ \E t \in Tx : TakesOwn(t)
    \/ \E n \in Numbers : MarksRow(n)

\* What no write takes back.
TxsMove ==
    /\ txs' \in [Tx -> TxRow]
    /\ \A t \in Tx : Indexed(t) =>
        /\ txs'[t].block = txs[t].block
        /\ txs[t].receipt \in {NoBlock, txs'[t].receipt}

LEMMA WriteMovesRows ==
    ASSUME IInv, Write
    PROVE  RowsMove
<1>0. TypeOK /\ blocks \in [Numbers -> BlockRow]
  BY DEF IInv, TypeOK
<1>1. ASSUME NEW b \in Block, Inserts(b)
      PROVE  RowsMove
  BY <1>0, <1>1, InsertAdds DEF Inserts, RowsMove
<1>2. ASSUME NEW n \in Numbers, MarksRow(n)
      PROVE  RowsMove
  BY <1>0, <1>2, MarksKeepHashes DEF MarksRow, RowsMove
<1> QED
  BY <1>0, <1>1, <1>2 DEF Write, TakesOwn, db, RowsMove, HashesKept

LEMMA WriteMovesTxs ==
    ASSUME IInv, RInv, Write
    PROVE  TxsMove /\ ReceiptFromRow'
<1>0. txs \in [Tx -> TxRow] /\ ReceiptFromRow
  BY DEF IInv, TypeOK, RInv
<1>1. ASSUME NEW b \in Block, txs' = InsertTxs(b)
      PROVE  TxsMove /\ ReceiptFromRow'
  <2>1. \A t \in Tx : txs'[t] = IF t \in BlockTxs(b) /\ ~Indexed(t)
                                THEN [block |-> b, receipt |-> NoBlock] ELSE txs[t]
    BY <1>1 DEF InsertTxs
  <2>2. txs' \in [Tx -> TxRow]
    BY <1>0, <1>1 DEF InsertTxs, TxRow
  <2> QED
    BY <1>0, <2>1, <2>2 DEF TxsMove, ReceiptFromRow
<1>2. ASSUME NEW t \in Tx, TakesOwn(t)
      PROVE  TxsMove /\ ReceiptFromRow'
  <2>1. txs' \in [Tx -> TxRow]
    BY <1>0, <1>2 DEF TakesOwn, TxRow
  <2>2. \A u \in Tx : /\ txs'[u].block = txs[u].block
                      /\ txs'[u].receipt = IF u = t THEN txs[u].block ELSE txs[u].receipt
    BY <1>0, <1>2 DEF TakesOwn, TxRow
  <2> QED
    BY <1>0, <2>1, <2>2 DEF TxsMove, ReceiptFromRow
<1>3. ASSUME UNCHANGED txs
      PROVE  TxsMove /\ ReceiptFromRow'
  BY <1>0, <1>3 DEF TxsMove, ReceiptFromRow
<1> QED
  BY <1>1, <1>2, <1>3 DEF Write, Inserts, MarksRow, db

LEMMA WriteMarksTxsSynced ==
    ASSUME IInv, RowsTxsSynced, Write
    PROVE  RowsTxsSynced'
<1>0. blocks \in [Numbers -> BlockRow]
  BY DEF IInv, TypeOK
<1>1. ASSUME NEW b \in Block, Inserts(b)
      PROVE  RowsTxsSynced'
  BY <1>0, <1>1, NodeAssumption DEF Inserts, InsertBlock, InsertedRow, RowsTxsSynced
<1>2. ASSUME NEW n \in Numbers, MarksRow(n)
      PROVE  RowsTxsSynced'
  BY <1>0, <1>2 DEF MarksRow, MarkReceiptsSynced, MarkReceiptsSyncFailed, BlockRow,
                    RowsTxsSynced
<1> QED
  BY <1>1, <1>2 DEF Write, TakesOwn, db, RowsTxsSynced

\* Each write is a step of the abstract index.
LEMMA WriteIsIndexStep ==
    ASSUME IInv, RInv, RowsTxsSynced, Write
    PROVE  [Index!Next]_(Index!ivars)
<1>1. CASE UNCHANGED db
  BY <1>1 DEF db, Index!ivars, Completed
<1>2. ASSUME NEW b \in Block, Inserts(b)
      PROVE  Index!Next
  BY <1>2, InsertIsAdd DEF Index!Next
<1>3. ASSUME NEW t \in Tx, TakesOwn(t)
      PROVE  Index!Next
  <2>0. txs \in [Tx -> TxRow]
    BY DEF IInv, TypeOK
  <2>1. Ledger' = Ledger /\ Complete' = Complete
    BY <1>3 DEF TakesOwn, Ledger, Complete, Completed
  <2>2. Place' = Place /\ ReceiptOf' = [ReceiptOf EXCEPT ![t] = Place[t]]
    <3>1. \A u \in Tx : /\ txs'[u].block = txs[u].block
                        /\ txs'[u].receipt = IF u = t THEN txs[u].block ELSE txs[u].receipt
      BY <1>3, <2>0 DEF TakesOwn, TxRow
    <3> QED
      BY <3>1 DEF Place, ReceiptOf
  <2>3. Index!TakeReceipt(t)
    BY <1>3, <2>1, <2>2
       DEF TakesOwn, Index!TakeReceipt, Indexed, Ledger, Place, ReceiptOf, Complete
  <2> QED
    BY <2>3 DEF Index!Next
<1>4. ASSUME NEW n \in Numbers, MarksRow(n)
      PROVE  Index!Next
  BY <1>4, MarkIsCompleteOrDemote DEF Index!Next
<1> QED
  BY <1>1, <1>2, <1>3, <1>4 DEF Write

\* A write of nobody leaves what the running calls know.
LEMMA BackgroundWrite ==
    ASSUME IInv, RInv, Write, UNCHANGED <<chain, local>>
    PROVE  IInv' /\ RInv'
<1>1. RowsMove /\ TxsMove /\ ReceiptFromRow'
  BY WriteMovesRows, WriteMovesTxs
<1>2. TypeOK'
  BY <1>1 DEF IInv, TypeOK, NodeTypeOK, local, RowsMove, TxsMove
<1>3. RowNumber' /\ Linked'
  BY <1>1, MovedRowNumber, MovedLinked DEF IInv
<1>4. Tracked'
  <2>1. \A s \in Syncer : TrackedAt(s)'
    <3> TAKE s \in Syncer
    <3> QED
      BY <1>1, BystanderStep DEF local
  <2> QED
    BY <2>1 DEF Tracked, TrackedAt
<1>5. GotMatches'
  <2>1. \A s \in Syncer : \A r \in got[s] : r[1] \in Tx
    BY DEF IInv, TypeOK
  <2> QED
    BY <1>1, <2>1 DEF RInv, GotMatches, TxsMove, Indexed, local
<1> QED
  BY <1>1, <1>2, <1>3, <1>4, <1>5 DEF IInv, RInv

-----------------------------------------------------------------------------
(* Every step is such a write.                                             *)

LEMMA StepIsWrite ==
    ASSUME IInv, RInv, [Next]_vars
    PROVE  Write
<1>1. ASSUME NEW s \in Syncer, Takes(s)
      PROVE  \E t \in Tx : TakesOwn(t)
  <2>1. PICK r \in got[s] : /\ r \in Tx \X Block
                            /\ txs' = [txs EXCEPT ![r[1]].receipt = r[2]]
    BY <1>1 DEF Takes, TakesReceipt
  <2>2. r[1] \in Tx /\ Indexed(r[1]) /\ txs[r[1]].block = r[2]
    BY <2>1 DEF RInv, GotMatches
  <2> QED
    BY <1>1, <2>1, <2>2 DEF Takes, TakesOwn
<1> QED
  BY <1>1, RowWrites DEF Write, db

\* The database executes a write that was checked before.
LEMMA LandIsWrite ==
    ASSUME LateInv, NEW w \in late, Land(w)
    PROVE  Write /\ UNCHANGED <<chain, local>>
<1>1. StillChecked(w)
  BY DEF LateInv
<1>2. CASE w.op = "insert"
  <2>1. w.block \in Block /\ Inserts(w.block)
    BY <1>1, <1>2 DEF StillChecked, Marks, Land, Inserts
  <2> QED
    BY <2>1 DEF Write, Land
<1>3. CASE w.op = "update"
  <2>1. w.tx \in Tx /\ TakesOwn(w.tx)
    BY <1>1, <1>3 DEF StillChecked, Marks, Land, WriteReceipt, TakesOwn
  <2> QED
    BY <2>1 DEF Write, Land
<1>4. CASE w.op \in Marks
  <2>1. w.number \in Numbers /\ MarksRow(w.number)
    BY <1>1, <1>4 DEF StillChecked, Marks, Land, MarksRow
  <2> QED
    BY <2>1 DEF Write, Land
<1> QED
  BY <1>1, <1>2, <1>3, <1>4 DEF StillChecked

\* Every other step is one of the indexer.
LEMMA LateSteps ==
    ASSUME [LNext]_lvars
    PROVE  \/ [IxNext]_ixvars
           \/ \E w \in late : Land(w)
<1>1. ASSUME NEW s \in Syncer, Fail(s), UNCHANGED plan
      PROVE  IxNext
  BY <1>1 DEF IxNext, IxStep, SyncBlock, SyncStep
<1>2. CASE LStep
  BY <1>1, <1>2 DEF LStep, IxNext, IxStep
<1>3. CASE \E s \in Syncer : Abandon(s)
  BY <1>1, <1>3 DEF Abandon
<1>4. CASE (\E w \in late : Drop(w)) \/ UNCHANGED lvars
  BY <1>4 DEF Drop, lvars, ixvars
<1>5. CASE LRestart
  BY <1>5 DEF LRestart, IxNext
<1> QED
  BY <1>2, <1>3, <1>4, <1>5 DEF LNext

LEMMA LateStepIsWrite ==
    ASSUME LateInv, IxTypeOK, [LNext]_lvars
    PROVE  Write
<1>1. CASE [IxNext]_ixvars
  BY <1>1, StepIsStep, StepIsWrite DEF LateInv
<1> QED
  BY <1>1, LandIsWrite, LateSteps

\* What a call is about to write has been checked.
LEMMA WriteOfChecked ==
    ASSUME IInv, RInv, NEW s \in Syncer, NEW w \in WriteOf(s)
    PROVE  StillChecked(w) /\ w \in Writes
<1>1. CASE pc[s] = "insert"
  <2>1. w = [op |-> "insert", block |-> blk[s]]
    BY <1>1 DEF WriteOf, Marks
  <2>2. blk[s] \in Block /\ MayAdd(blk[s])
    BY <1>1 DEF IInv, Tracked, Holding, Checked, Calling
  <2> QED
    BY <2>1, <2>2 DEF StillChecked, Writes
<1>2. CASE pc[s] = "update"
  <2>1. PICK r \in got[s] : w = [op |-> "update", tx |-> r[1], block |-> r[2]]
    BY <1>2 DEF WriteOf, Marks
  <2>2. r \in Tx \X Block /\ Indexed(r[1]) /\ txs[r[1]].block = r[2]
    BY DEF IInv, TypeOK, RInv, GotMatches
  <2> QED
    BY <2>1, <2>2 DEF StillChecked, Writes
<1>3. CASE pc[s] \in Marks
  <2>1. w = [op |-> pc[s], number |-> num[s]]
    BY <1>3 DEF WriteOf, Marks
  <2>2. num[s] \in Numbers /\ Stored(num[s])
    BY <1>3 DEF IInv, TypeOK, Tracked, Inserted, ReceiptLabels, Marks
  <2> QED
    BY <1>3, <2>1, <2>2 DEF StillChecked, Writes
<1> QED
  BY <1>1, <1>2, <1>3 DEF WriteOf

\* It stays so, whatever is written.
LEMMA CheckedStays ==
    ASSUME IInv, RInv, Write, NEW w, StillChecked(w)
    PROVE  StillChecked(w)'
<1>1. RowsMove /\ TxsMove
  BY WriteMovesRows, WriteMovesTxs
<1>2. CASE w.op = "insert" /\ w.block \in Block /\ MayAdd(w.block)
  <2>1. \A b \in Block : MayAdd(b) => MayAdd(b)'
    BY <1>1, MovedMayAdd DEF MayAdd
  <2> QED
    BY <1>2, <2>1 DEF StillChecked, MayAdd
<1>3. CASE /\ w.op = "update" /\ w.tx \in Tx
           /\ Indexed(w.tx) /\ txs[w.tx].block = w.block
  BY <1>1, <1>3 DEF StillChecked, TxsMove, Indexed
<1>4. CASE w.op \in Marks /\ w.number \in Numbers /\ Stored(w.number)
  BY <1>1, <1>4, MovedRowsStay DEF StillChecked
<1> QED
  BY <1>2, <1>3, <1>4 DEF StillChecked

LEMMA LateInvStep ==
    ASSUME LateInv, LTypeOK, [LNext]_lvars
    PROVE  LateInv' /\ LTypeOK'
<1>0. IxTypeOK /\ Write /\ IInv /\ RInv
  BY LateStepIsWrite DEF LTypeOK, LateInv
<1>1. IInv' /\ RInv' /\ PlanOK'
  <2>1. CASE [IxNext]_ixvars
    BY <1>0, <2>1, StepIsStep, TypeStep, StepMoves, MovedRowNumber, MovedLinked,
       TrackedStep, ReceiptStep, PlanStep DEF IInv
  <2>2. CASE \E w \in late : Land(w)
    BY <1>0, <2>2, LandIsWrite, BackgroundWrite DEF Land, IxTypeOK, PlanOK
  <2> QED
    BY <2>1, <2>2, LateSteps
<1>2. RowsTxsSynced'
  BY <1>0, WriteMarksTxsSynced DEF LateInv
<1>3. /\ \A w \in late' : w \in late \/ \E s \in Syncer : w \in WriteOf(s)
      /\ abandoned' \in 0..MaxLate
  <2>0. abandoned \in 0..MaxLate /\ MaxLate \in Nat
    BY LateAssumption DEF LTypeOK
  <2>1. CASE LStep \/ LRestart \/ UNCHANGED lvars
    BY <2>0, <2>1 DEF LStep, LRestart, lvars
  <2>2. CASE \E s \in Syncer : Abandon(s)
    BY <2>0, <2>2 DEF Abandon
  <2>3. CASE \E w \in late : Land(w) \/ Drop(w)
    BY <2>0, <2>3 DEF Land, Drop
  <2> QED
    BY <2>1, <2>2, <2>3 DEF LNext
<1>4. \A w \in late' : StillChecked(w) /\ w \in Writes
  BY <1>0, <1>3, WriteOfChecked DEF LateInv, LTypeOK
<1>5. \A w \in late' : StillChecked(w)'
  BY <1>0, <1>4, CheckedStays DEF StillChecked
<1> QED
  BY <1>1, <1>2, <1>3, <1>4, <1>5 DEF LateInv, LTypeOK, IxTypeOK, IInv, PlanOK

\* The invariant: late writes included, every write is of what was checked.
LEMMA LateInvariance == LSpec => [](LateInv /\ LTypeOK)
<1>1. LInit => LateInv /\ LTypeOK
  <2> SUFFICES ASSUME LInit PROVE LateInv /\ LTypeOK
    OBVIOUS
  <2>1. IInv /\ RInv /\ RowsTxsSynced
    BY InitIInv DEF LInit, IxInit, Init, RInv, ReceiptFromRow, GotMatches, NoTxRow,
                    RowsTxsSynced, NoBlockRow
  <2> QED
    BY <2>1, LateAssumption DEF LInit, IxInit, IInv, LateInv, LTypeOK, IxTypeOK
<1>2. LateInv /\ LTypeOK /\ [LNext]_lvars => (LateInv /\ LTypeOK)'
  BY LateInvStep
<1> QED
  BY <1>1, <1>2, PTL DEF LSpec

\* The types, with the writes in flight.
THEOREM LTypeCorrect == LSpec => []LTypeOK
BY LateInvariance, PTL

\* The stored blocks stay linked by their parent hashes, although inserts are
\* executed after the call that checked them was given up, and others have
\* written since (InsertBlockWithTransactions whose COMMIT comes late).
THEOREM LateStoredChainLinked == LSpec => []Linked
BY LateInvariance, PTL DEF LateInv, IInv

\* A receipt is of the block its transaction is recorded in, although it may
\* be written after its call was given up (UpdateTransactionReceiptByHash).
THEOREM LateReceiptsFromTheirRows == LSpec => []ReceiptFromRow
BY LateInvariance, PTL DEF LateInv, RInv

\* No late write rewrites a hash, the block of a transaction or a receipt.
THEOREM LateNothingRewritten == LSpec => RowsImmutable
<1> DEFINE Kept == /\ \A n \in Numbers : Stored(n) => blocks'[n].hash = blocks[n].hash
                   /\ \A t \in Tx : Indexed(t) =>
                        /\ txs'[t].block = txs[t].block
                        /\ txs[t].receipt \in {NoBlock, txs'[t].receipt}
<1>1. ASSUME LateInv, LTypeOK, [LNext]_lvars
      PROVE  Kept
  <2>1. RowsMove /\ TxsMove
    BY <1>1, LateStepIsWrite, WriteMovesRows, WriteMovesTxs DEF LateInv, LTypeOK
  <2> QED
    BY <2>1, MovedRowsStay DEF TxsMove
<1>2. LateInv /\ LTypeOK /\ [LNext]_lvars => [Kept]_vars
  BY <1>1
<1> QED
  BY LateInvariance, <1>2, PTL DEF LSpec, RowsImmutable

\* The tables implement the abstract index with late writes as well: a COMMIT
\* that is executed late is one of its steps.
THEOREM LateRefinement == LSpec => ImplementsIndex
<1>1. LInit => Index!Init
  BY InitIndex DEF LInit, IxInit
<1>2. LateInv /\ LTypeOK /\ [LNext]_lvars => [Index!Next]_(Index!ivars)
  BY LateStepIsWrite, WriteIsIndexStep DEF LateInv, LTypeOK
<1> QED
  BY LateInvariance, <1>1, <1>2, PTL DEF LSpec, ImplementsIndex, Index!Spec
=============================================================================
