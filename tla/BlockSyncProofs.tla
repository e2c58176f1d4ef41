--------------------------- MODULE BlockSyncProofs ---------------------------
(***************************************************************************)
(* Theorems of BlockSync, for any number of syncers, blocks, transactions  *)
(* and forks.                                                              *)
(*                                                                         *)
(* What validateBlockForSync has read may be out of date when the insert   *)
(* runs.  The invariant says what of it still holds: a row is never        *)
(* removed or given another hash, so a parent that was found is still the  *)
(* parent, and "it may be added" stays true once it was.                   *)
(***************************************************************************)
EXTENDS BlockSync, TLAPS

\* A row is at the number of its block.
RowNumber ==
    \A n \in Numbers : Stored(n) => NumberOf[blocks[n].hash] = n

\* The block's number is taken, or the block continues what is stored, or it
\* is one the stored chain may start with.
MayAdd(b) ==
    \/ Stored(NumberOf[b])
    \/ NumberOf[b] = 0
    \/ NumberOf[b] = StartBlock
    \/ /\ NumberOf[b] > 0
       /\ Stored(NumberOf[b] - 1)
       /\ blocks[NumberOf[b] - 1].hash = ParentOf[b]

\* What a running call still knows.
Holding(s) ==
    pc[s] \in Calling \ {"fetch"} => blk[s] \in Block /\ NumberOf[blk[s]] = num[s]

Checked(s) == pc[s] \in {"check_txs", "insert"} => MayAdd(blk[s])

AboveZero(s) == pc[s] = "check_parent" => num[s] > 0

Inserted(s) == pc[s] \in ReceiptLabels => Stored(num[s])

Tracked ==
    \A s \in Syncer : Holding(s) /\ Checked(s) /\ AboveZero(s) /\ Inserted(s)

IInv == TypeOK /\ RowNumber /\ Linked /\ Tracked

-----------------------------------------------------------------------------
USE DEF Stored

\* The node's answers are blocks, at their numbers.
LEMMA NodeAnswers ==
    ASSUME NodeTypeOK
    PROVE  /\ DOMAIN chain \subseteq Numbers
           /\ \A n \in DOMAIN chain : chain[n] \in Block /\ NumberOf[chain[n]] = n
<1>1. IsChain(chain)
  BY ChainsAssumption DEF NodeTypeOK
<1>2. PICK h \in Numbers : /\ chain \in [0..h -> Block]
                           /\ \A n \in 0..h : NumberOf[chain[n]] = n
  BY <1>1 DEF IsChain
<1>3. DOMAIN chain = 0..h
  BY <1>2
<1> QED
  BY <1>2, <1>3, NodeAssumption DEF Numbers

LEMMA ReceiptIsOfBlock ==
    ASSUME NodeTypeOK, NEW t \in Tx, Mined(t)
    PROVE  MinedIn(t) \in Block
<1>1. PICK n \in DOMAIN chain : t \in BlockTxs(chain[n])
  BY DEF Mined
<1>2. (CHOOSE m \in DOMAIN chain : t \in BlockTxs(chain[m])) \in DOMAIN chain
  BY <1>1
<1> QED
  BY <1>2, NodeAnswers DEF MinedIn

-----------------------------------------------------------------------------
\* What a step may do to the hashes of the rows.
HashesKept == \A n \in Numbers : blocks'[n].hash = blocks[n].hash

HashAdded(b) ==
    /\ ~Stored(NumberOf[b])
    /\ blocks'[NumberOf[b]].hash = b
    /\ \A n \in Numbers \ {NumberOf[b]} : blocks'[n].hash = blocks[n].hash

\* A write leaves every hash alone, or adds that of a block that may be added.
RowsMove ==
    /\ blocks' \in [Numbers -> BlockRow]
    /\ HashesKept \/ \E b \in Block : MayAdd(b) /\ HashAdded(b)

\* An insert adds one row, or none.
LEMMA InsertAdds ==
    ASSUME TypeOK, NEW b \in Block, blocks' = InsertBlock(b)
    PROVE  /\ blocks' \in [Numbers -> BlockRow]
           /\ HashesKept \/ HashAdded(b)
           /\ Stored(NumberOf[b])'
<1>1. NumberOf[b] \in Numbers /\ NoBlock \notin Block
  BY NodeAssumption
<1>2. InsertedRow(b) \in BlockRow /\ InsertedRow(b).hash = b
  BY DEF InsertedRow, BlockRow, Status
<1>3. blocks \in [Numbers -> BlockRow]
  BY DEF TypeOK
<1>4. CASE Stored(NumberOf[b])
  BY <1>1, <1>3, <1>4 DEF InsertBlock, HashesKept
<1>5. CASE ~Stored(NumberOf[b])
  <2>1. blocks' = [blocks EXCEPT ![NumberOf[b]] = InsertedRow(b)]
    BY <1>5 DEF InsertBlock
  <2> QED
    BY <1>1, <1>2, <1>3, <1>5, <2>1 DEF HashAdded
<1> QED
  BY <1>4, <1>5

\* The marks change no hash.
LEMMA MarksKeepHashes ==
    ASSUME TypeOK, NEW n \in Numbers,
           blocks' = MarkReceiptsSynced(n) \/ blocks' = MarkReceiptsSyncFailed(n)
    PROVE  blocks' \in [Numbers -> BlockRow] /\ HashesKept
<1>1. blocks \in [Numbers -> BlockRow]
  BY DEF TypeOK
<1>2. blocks[n] \in BlockRow
  BY <1>1
<1>3. CASE blocks' = MarkReceiptsSynced(n)
  BY <1>1, <1>2, <1>3 DEF MarkReceiptsSynced, BlockRow, Status, HashesKept
<1>4. CASE blocks' = MarkReceiptsSyncFailed(n)
  BY <1>1, <1>2, <1>4 DEF MarkReceiptsSyncFailed, BlockRow, Status, HashesKept
<1> QED
  BY <1>3, <1>4

\* Every step keeps the hashes, or is the insert of a checked block.
InsertOf(s) ==
    /\ pc[s] = "insert"
    /\ blk[s] \in Block /\ NumberOf[blk[s]] = num[s]
    /\ MayAdd(blk[s])
    /\ HashAdded(blk[s])

LEMMA RowSteps ==
    ASSUME IInv, [Next]_vars
    PROVE  /\ blocks' \in [Numbers -> BlockRow]
           /\ HashesKept \/ \E s \in Syncer : InsertOf(s)
<1>0. TypeOK
  BY DEF IInv
<1>1. ASSUME UNCHANGED blocks
      PROVE  blocks' \in [Numbers -> BlockRow] /\ HashesKept
  BY <1>0, <1>1 DEF TypeOK, HashesKept
<1>2. ASSUME NEW s \in Syncer, pc[s] = "insert", InsertRows(s)
      PROVE  /\ blocks' \in [Numbers -> BlockRow]
             /\ HashesKept \/ InsertOf(s)
  <2>1. blk[s] \in Block /\ NumberOf[blk[s]] = num[s] /\ MayAdd(blk[s])
    BY <1>2 DEF IInv, Tracked, Holding, Checked, Calling
  <2> QED
    BY <1>0, <1>2, <2>1, InsertAdds DEF InsertRows, InsertOf
<1>3. ASSUME NEW s \in Syncer,
             \/ blocks' = MarkReceiptsSynced(num[s])
             \/ blocks' = MarkReceiptsSyncFailed(num[s])
      PROVE  blocks' \in [Numbers -> BlockRow] /\ HashesKept
  <2>1. num[s] \in Numbers
    BY <1>0 DEF TypeOK
  <2> QED
    BY <1>0, <1>3, <2>1, MarksKeepHashes
<1>4. ASSUME NEW s \in Syncer, Insert(s) \/ LostReply(s) \/ MarkSynced(s) \/ MarkFailed(s)
      PROVE  /\ blocks' \in [Numbers -> BlockRow]
             /\ HashesKept \/ InsertOf(s)
  <2>1. CASE Insert(s)
    BY <2>1, <1>2 DEF Insert
  <2>2. CASE LostReply(s)
    <3>1. \/ pc[s] = "insert" /\ InsertRows(s)
          \/ UNCHANGED blocks
          \/ blocks' = MarkReceiptsSynced(num[s])
      BY <2>2 DEF LostReply
    <3> QED
      BY <3>1, <1>1, <1>2, <1>3
  <2>3. CASE MarkSynced(s)
    BY <2>3, <1>1, <1>3 DEF MarkSynced
  <2>4. CASE MarkFailed(s)
    BY <2>4, <1>1, <1>3 DEF MarkFailed
  <2> QED
    BY <1>4, <2>1, <2>2, <2>3, <2>4
<1>5. ASSUME NEW s \in Syncer, SyncStep(s),
             ~(Insert(s) \/ LostReply(s) \/ MarkSynced(s) \/ MarkFailed(s))
      PROVE  UNCHANGED blocks
  BY <1>5 DEF SyncStep, FetchBlock, CheckRow, CheckParent, CheckTxs, ListMissing,
              FetchReceipt, ReceiptNotFound, UpdateReceipt, Fail, db
<1>6. CASE Next
  <2>1. CASE \E s \in Syncer, n \in Numbers : Call(s, n)
    BY <2>1, <1>1 DEF Call, db
  <2>2. CASE \E s \in Syncer : SyncStep(s)
    BY <2>2, <1>1, <1>4, <1>5
  <2>3. CASE \E s \in Syncer : Return(s)
    BY <2>3, <1>1 DEF Return, db
  <2>4. CASE NodeStep \/ Crash
    BY <2>4, <1>1 DEF NodeStep, Crash, db
  <2> QED
    BY <1>6, <2>1, <2>2, <2>3, <2>4 DEF Next
<1>7. CASE UNCHANGED vars
  BY <1>7, <1>1 DEF vars
<1> QED
  BY <1>6, <1>7

LEMMA StepMoves ==
    ASSUME IInv, [Next]_vars
    PROVE  RowsMove
BY RowSteps DEF RowsMove, InsertOf

\* What a write does to the rows, whoever runs it: a stored hash stays ...
LEMMA MovedRowsStay ==
    ASSUME RowsMove, NEW n \in Numbers, Stored(n)
    PROVE  blocks'[n].hash = blocks[n].hash /\ Stored(n)'
BY DEF RowsMove, HashesKept, HashAdded

\* ... a block that may be added still may be ...
LEMMA MovedMayAdd ==
    ASSUME RowsMove, NEW b \in Block, MayAdd(b)
    PROVE  MayAdd(b)'
<1>1. NumberOf[b] \in Numbers
  BY NodeAssumption
<1>2. NumberOf[b] > 0 => NumberOf[b] - 1 \in Numbers
  BY <1>1, NodeAssumption DEF Numbers
<1> QED
  BY <1>1, <1>2, MovedRowsStay DEF MayAdd

\* ... a row is at the number of its block ...
LEMMA MovedRowNumber ==
    ASSUME RowNumber, RowsMove
    PROVE  RowNumber'
<1> SUFFICES ASSUME NEW n \in Numbers, Stored(n)'
             PROVE  NumberOf[blocks'[n].hash] = n
  BY DEF RowNumber
<1>1. CASE HashesKept
  BY <1>1 DEF HashesKept, RowNumber
<1>2. CASE \E b \in Block : HashAdded(b)
  BY <1>2 DEF HashAdded, RowNumber
<1> QED
  BY <1>1, <1>2 DEF RowsMove

\* ... and the rows stay linked.
LEMMA MovedLinked ==
    ASSUME Linked, RowsMove
    PROVE  Linked'
<1> SUFFICES ASSUME NEW n \in Numbers, Stored(n)', n > 0, n # StartBlock
             PROVE  /\ Stored(n - 1)'
                    /\ ParentOf[blocks'[n].hash] = blocks'[n - 1].hash
  BY DEF Linked
<1>1. n - 1 \in Numbers
  BY NodeAssumption DEF Numbers
<1>2. CASE Stored(n)
  <2>1. Stored(n - 1) /\ ParentOf[blocks[n].hash] = blocks[n - 1].hash
    BY <1>2 DEF Linked
  <2> QED
    BY <1>1, <1>2, <2>1, MovedRowsStay
<1>3. CASE ~Stored(n)
  <2>1. PICK b \in Block : MayAdd(b) /\ HashAdded(b)
    BY <1>3 DEF RowsMove, HashesKept
  <2>2. NumberOf[b] = n /\ blocks'[n].hash = b
    BY <1>3, <2>1 DEF HashAdded
  <2>3. Stored(n - 1) /\ blocks[n - 1].hash = ParentOf[b]
    BY <1>3, <2>1, <2>2 DEF MayAdd
  <2> QED
    BY <1>1, <2>2, <2>3, MovedRowsStay
<1> QED
  BY <1>2, <1>3

LEMMA RowsStay ==
    ASSUME IInv, [Next]_vars, NEW n \in Numbers, Stored(n)
    PROVE  blocks'[n].hash = blocks[n].hash /\ Stored(n)'
BY StepMoves, MovedRowsStay

-----------------------------------------------------------------------------
(* The running calls.                                                      *)

TrackedAt(s) == Holding(s) /\ Checked(s) /\ AboveZero(s) /\ Inserted(s)

\* A syncer that does not move: what it knows stays true.
LEMMA BystanderStep ==
    ASSUME IInv, RowsMove, NEW s \in Syncer,
           pc'[s] = pc[s], num'[s] = num[s], blk'[s] = blk[s]
    PROVE  TrackedAt(s)'
<1>1. TrackedAt(s) /\ num[s] \in Numbers
  BY DEF IInv, Tracked, TrackedAt, TypeOK
<1>2. Holding(s)' /\ AboveZero(s)'
  BY <1>1 DEF TrackedAt, Holding, AboveZero
<1>3. Inserted(s)'
  BY <1>1, MovedRowsStay DEF TrackedAt, Inserted
<1>4. Checked(s)'
  <2> SUFFICES ASSUME pc[s] \in {"check_txs", "insert"}
               PROVE  MayAdd(blk[s])'
    BY DEF Checked, MayAdd
  <2>1. MayAdd(blk[s]) /\ blk[s] \in Block
    BY <1>1 DEF TrackedAt, Holding, Checked, Calling
  <2> QED
    BY <2>1, MovedMayAdd
<1> QED
  BY <1>2, <1>3, <1>4 DEF TrackedAt

\* A syncer that moves to a label after which nothing is asked of it.
LEMMA AtRest ==
    ASSUME NEW s \in Syncer, pc'[s] \notin Calling \ {"fetch"}
    PROVE  TrackedAt(s)'
BY DEF TrackedAt, Holding, Checked, AboveZero, Inserted, Calling, ReceiptLabels

LEMMA FetchBlockTracked ==
    ASSUME IInv, NEW s \in Syncer, FetchBlock(s)
    PROVE  TrackedAt(s)'
<1>1. blk'[s] \in Block /\ NumberOf[blk'[s]] = num'[s] /\ pc'[s] = "check_row"
  BY NodeAnswers DEF IInv, TypeOK, FetchBlock, HasBlock, Goto
<1> QED
  BY <1>1 DEF TrackedAt, Holding, Checked, AboveZero, Inserted, ReceiptLabels

\* The checks of validateBlockForSync establish MayAdd.
LEMMA CheckTracked ==
    ASSUME IInv, NEW s \in Syncer, CheckRow(s) \/ CheckParent(s) \/ CheckTxs(s)
    PROVE  TrackedAt(s)'
<1>1. /\ TrackedAt(s) /\ num[s] \in Numbers /\ pc \in [Syncer -> Labels]
      /\ UNCHANGED <<blocks, num, blk>>
  BY DEF IInv, Tracked, TrackedAt, TypeOK, CheckRow, CheckParent, CheckTxs, db
<1>2. blk[s] \in Block /\ NumberOf[blk[s]] = num[s]
  BY <1>1 DEF TrackedAt, Holding, CheckRow, CheckParent, CheckTxs, Calling
<1>3. CASE CheckRow(s)
  <2>1. CASE pc'[s] = "reorg"
    BY <2>1, AtRest DEF Calling
  <2>2. CASE pc'[s] = "check_parent"
    <3>1. num[s] > 0
      BY <1>1, <1>3, <2>2, NodeAssumption DEF CheckRow, Goto, Numbers
    <3> QED
      BY <1>1, <1>2, <2>2, <3>1 DEF TrackedAt, Holding, Checked, AboveZero, Inserted, ReceiptLabels
  <2>3. CASE pc'[s] = "check_txs"
    <3>1. Stored(num[s]) \/ num[s] = 0
      BY <1>1, <1>2, <1>3, <2>3, NodeAssumption DEF CheckRow, Goto, Known
    <3> QED
      BY <1>1, <1>2, <2>3, <3>1
         DEF TrackedAt, Holding, Checked, AboveZero, Inserted, ReceiptLabels, MayAdd
  <2> QED
    BY <1>1, <1>3, <2>1, <2>2, <2>3 DEF CheckRow, Goto
<1>4. CASE CheckParent(s)
  <2>1. CASE ~Linkable(blk[s])
    BY <1>1, <1>4, <2>1, AtRest DEF CheckParent, Goto, Calling
  <2>2. CASE Linkable(blk[s])
    <3>1. num[s] > 0
      BY <1>1, <1>4 DEF CheckParent, TrackedAt, AboveZero
    <3>2. MayAdd(blk[s])
      BY <1>2, <2>2, <3>1 DEF Linkable, ParentAccepts, MayLackParent, MayAdd
    <3>3. pc'[s] = "check_txs"
      BY <1>1, <1>4, <2>2 DEF CheckParent, Goto
    <3> QED
      BY <1>1, <1>2, <3>2, <3>3
         DEF TrackedAt, Holding, Checked, AboveZero, Inserted, ReceiptLabels, MayAdd
  <2> QED
    BY <2>1, <2>2
<1>5. CASE CheckTxs(s)
  <2>1. pc'[s] \in {"insert", "conflict"} /\ MayAdd(blk[s])
    BY <1>1, <1>5 DEF CheckTxs, Goto, TrackedAt, Checked
  <2> QED
    BY <1>1, <1>2, <2>1
       DEF TrackedAt, Holding, Checked, AboveZero, Inserted, ReceiptLabels, MayAdd
<1> QED
  BY <1>3, <1>4, <1>5

\* From the insert on, the row is there.
LEMMA InsertTracked ==
    ASSUME IInv, NEW s \in Syncer, Insert(s)
    PROVE  TrackedAt(s)'
<1>1. blk[s] \in Block /\ NumberOf[blk[s]] = num[s]
  BY DEF IInv, Tracked, Holding, Insert, Calling
<1>2. Stored(num[s])'
  BY <1>1, InsertAdds DEF IInv, Insert, InsertRows
<1>3. pc'[s] \in {"ok", "list"} /\ UNCHANGED <<num, blk>>
  BY DEF IInv, TypeOK, Insert, Goto
<1> QED
  BY <1>1, <1>2, <1>3 DEF TrackedAt, Holding, Checked, AboveZero, Inserted

LEMMA ReceiptTracked ==
    ASSUME IInv, [Next]_vars, NEW s \in Syncer,
           pc[s] \in ReceiptLabels, pc'[s] \in ReceiptLabels,
           UNCHANGED <<num, blk>>
    PROVE  TrackedAt(s)'
<1>1. blk[s] \in Block /\ NumberOf[blk[s]] = num[s] /\ Stored(num[s])
  BY DEF IInv, Tracked, Holding, Inserted, Calling, ReceiptLabels
<1>2. Stored(num[s])'
  BY <1>1, RowsStay DEF IInv, TypeOK
<1> QED
  BY <1>1, <1>2 DEF TrackedAt, Holding, Checked, AboveZero, Inserted, ReceiptLabels

LEMMA TrackedStep ==
    ASSUME IInv, [Next]_vars
    PROVE  Tracked'
<1> SUFFICES ASSUME NEW s \in Syncer PROVE TrackedAt(s)'
  BY DEF Tracked, TrackedAt
<1>0. pc \in [Syncer -> Labels]
  BY DEF IInv, TypeOK
<1>1. ASSUME NEW u \in Syncer, SyncStep(u) \/ Return(u) \/ \E n \in Numbers : Call(u, n),
             u # s
      PROVE  TrackedAt(s)'
  <2>1. pc'[s] = pc[s] /\ num'[s] = num[s] /\ blk'[s] = blk[s]
    BY <1>1, <1>0 DEF SyncStep, Call, Return, FetchBlock, CheckRow, CheckParent, CheckTxs,
       Insert, ListMissing, FetchReceipt, ReceiptNotFound, UpdateReceipt, MarkSynced,
       MarkFailed, Fail, LostReply, Loop, Leave, Goto, IInv, TypeOK
  <2> QED
    BY <2>1, StepMoves, BystanderStep
<1>2. CASE SyncStep(s)
  <2>1. CASE FetchBlock(s)
    BY <2>1, FetchBlockTracked
  <2>2. CASE CheckRow(s) \/ CheckParent(s) \/ CheckTxs(s)
    BY <2>2, CheckTracked
  <2>3. CASE Insert(s)
    BY <2>3, InsertTracked
  <2>4. CASE ListMissing(s) \/ FetchReceipt(s) \/ ReceiptNotFound(s) \/ UpdateReceipt(s)
    <3>1. /\ pc[s] \in ReceiptLabels /\ pc'[s] \in ReceiptLabels
          /\ UNCHANGED <<num, blk>>
      BY <2>4, <1>0 DEF ListMissing, FetchReceipt, ReceiptNotFound, UpdateReceipt,
                        Loop, Leave, Goto, ReceiptLabels
    <3> QED
      BY <3>1, ReceiptTracked
  <2>5. CASE MarkSynced(s) \/ MarkFailed(s)
    BY <2>5, <1>0, AtRest DEF MarkSynced, MarkFailed, Goto, Calling
  <2>6. CASE Fail(s) \/ LostReply(s)
    <3>1. /\ \/ pc'[s] = "failed"
             \/ pc[s] \in ReceiptLabels /\ pc'[s] = "mark_failed"
          /\ UNCHANGED <<num, blk>>
      BY <2>6, <1>0 DEF Fail, LostReply, Leave, Goto, ReceiptLabels
    <3> QED
      BY <3>1, AtRest, ReceiptTracked DEF Calling, ReceiptLabels
  <2> QED
    BY <1>2, <2>1, <2>2, <2>3, <2>4, <2>5, <2>6 DEF SyncStep
<1>3. CASE Return(s) \/ \E n \in Numbers : Call(s, n)
  BY <1>3, <1>0, AtRest DEF Return, Call, Goto, Calling
<1>4. CASE Crash
  BY <1>4, AtRest DEF Crash, Calling
<1>5. CASE NodeStep \/ UNCHANGED vars
  BY <1>5, StepMoves, BystanderStep DEF NodeStep, local, vars
<1>6. CASE Next
  BY <1>6, <1>1, <1>2, <1>3, <1>4, <1>5 DEF Next
<1> QED
  BY <1>5, <1>6

-----------------------------------------------------------------------------
(* The transaction rows.                                                   *)

InsertsTxs(s) == blk[s] \in Block /\ txs' = InsertTxs(blk[s])

TakesReceipt(s) ==
    \E r \in got[s] : /\ r \in Tx \X Block
                      /\ txs' = [txs EXCEPT ![r[1]].receipt = r[2]]

\* Every step keeps the transaction rows, inserts those of a block, or sets
\* the receipt of one.
LEMMA TxSteps ==
    ASSUME IInv, [Next]_vars
    PROVE  \/ UNCHANGED txs
           \/ \E s \in Syncer : InsertsTxs(s) \/ TakesReceipt(s)
<1>1. ASSUME NEW s \in Syncer, SyncStep(s)
      PROVE  UNCHANGED txs \/ InsertsTxs(s) \/ TakesReceipt(s)
  <2>1. CASE Insert(s) \/ (pc[s] = "insert" /\ InsertRows(s))
    BY <2>1 DEF Insert, InsertRows, InsertsTxs, IInv, Tracked, Holding, Calling
  <2>2. CASE \E r \in got[s] : WriteReceipt(r[1], r[2])
    BY <2>2 DEF WriteReceipt, TakesReceipt, IInv, TypeOK
  <2>3. CASE /\ ~(Insert(s) \/ (pc[s] = "insert" /\ InsertRows(s)))
             /\ ~\E r \in got[s] : WriteReceipt(r[1], r[2])
    BY <1>1, <2>3 DEF SyncStep, FetchBlock, CheckRow, CheckParent, CheckTxs, Insert,
       ListMissing, FetchReceipt, ReceiptNotFound, UpdateReceipt, MarkSynced,
       MarkFailed, Fail, LostReply, db
  <2> QED
    BY <2>1, <2>2, <2>3
<1> QED
  BY <1>1 DEF Next, Call, Return, NodeStep, Crash, vars, db

LEMMA TxTypeStep ==
    ASSUME IInv, [Next]_vars
    PROVE  txs' \in [Tx -> TxRow]
<1>0. txs \in [Tx -> TxRow]
  BY DEF IInv, TypeOK
<1>1. ASSUME NEW s \in Syncer, InsertsTxs(s)
      PROVE  txs' \in [Tx -> TxRow]
  BY <1>0, <1>1 DEF InsertsTxs, InsertTxs, TxRow
<1>2. ASSUME NEW s \in Syncer, TakesReceipt(s)
      PROVE  txs' \in [Tx -> TxRow]
  BY <1>0, <1>2 DEF TakesReceipt, TxRow
<1> QED
  BY <1>0, <1>1, <1>2, TxSteps

LEMMA TypeStep ==
    ASSUME IInv, [Next]_vars
    PROVE  TypeOK'
<1>0. TypeOK
  BY DEF IInv
<1>1. blocks' \in [Numbers -> BlockRow] /\ txs' \in [Tx -> TxRow]
  BY RowSteps, TxTypeStep
<1>2. NodeTypeOK'
  BY <1>0 DEF TypeOK, NodeTypeOK, Next, SyncStep, Call, Return, NodeStep, NewChain, Crash,
     FetchBlock, CheckRow, CheckParent, CheckTxs, Insert, ListMissing, FetchReceipt,
     ReceiptNotFound, UpdateReceipt, MarkSynced, MarkFailed, Fail, LostReply, vars
<1>3. ASSUME NEW s \in Syncer, Return(s) \/ \E n \in Numbers : Call(s, n)
      PROVE  /\ pc' \in [Syncer -> Labels]
             /\ num' \in [Syncer -> Numbers]
             /\ blk' \in [Syncer -> Block \cup {NoBlock}]
             /\ todo' \in [Syncer -> SUBSET Tx]
             /\ got' \in [Syncer -> SUBSET (Tx \X Block)]
  <2>1. CASE Return(s)
    <3>1. 0 \in Numbers
      BY NodeAssumption DEF Numbers
    <3> QED
      BY <1>0, <2>1, <3>1 DEF TypeOK, Return, Goto, Labels, db
  <2>2. CASE \E n \in Numbers : Call(s, n)
    BY <1>0, <2>2 DEF TypeOK, Call, Goto, Labels, Calling, db
  <2> QED
    BY <1>3, <2>1, <2>2
<1>4. ASSUME NEW s \in Syncer, SyncStep(s)
      PROVE  /\ pc' \in [Syncer -> Labels]
             /\ num' \in [Syncer -> Numbers]
             /\ blk' \in [Syncer -> Block \cup {NoBlock}]
             /\ todo' \in [Syncer -> SUBSET Tx]
             /\ got' \in [Syncer -> SUBSET (Tx \X Block)]
  <2>1. CASE FetchBlock(s)
    <3>1. chain[num[s]] \in Block
      BY <1>0, <2>1, NodeAnswers DEF TypeOK, FetchBlock, HasBlock
    <3> QED
      BY <1>0, <2>1, <3>1 DEF TypeOK, FetchBlock, Goto, Labels, Calling
  <2>2. CASE CheckRow(s) \/ CheckParent(s) \/ CheckTxs(s) \/ Insert(s)
    BY <1>0, <2>2 DEF TypeOK, CheckRow, CheckParent, CheckTxs, Insert, Goto,
                      Labels, Calling, Outcomes
  <2>3. CASE ListMissing(s) \/ ReceiptNotFound(s) \/ UpdateReceipt(s)
    <3>1. PICK S \in SUBSET Tx : Loop(s, S) /\ UNCHANGED <<num, blk>>
      BY <1>0, <2>3 DEF TypeOK, ListMissing, ReceiptNotFound, UpdateReceipt,
                        MissingReceipts
    <3> QED
      BY <1>0, <3>1 DEF TypeOK, Loop, Goto, Labels, Calling
  <2>4. CASE FetchReceipt(s)
    <3>1. PICK t \in NextOf(todo[s]) :
            /\ Mined(t)
            /\ \/ /\ Goto(s, "update")
                  /\ got' = [got EXCEPT ![s] = {<<t, MinedIn(t)>>}]
                  /\ UNCHANGED todo
               \/ Leave(s, "mark_failed")
      BY <2>4 DEF FetchReceipt
    <3>2. t \in Tx
      BY <1>0 DEF TypeOK, NextOf
    <3>3. MinedIn(t) \in Block
      BY <1>0, <3>1, <3>2, ReceiptIsOfBlock DEF TypeOK
    <3> QED
      BY <1>0, <2>4, <3>1, <3>2, <3>3
         DEF TypeOK, FetchReceipt, Goto, Leave, Labels, Calling
  <2>5. CASE MarkSynced(s) \/ MarkFailed(s)
    BY <1>0, <2>5 DEF TypeOK, MarkSynced, MarkFailed, Goto, Labels, Outcomes
  <2>6. CASE Fail(s) \/ LostReply(s)
    <3>1. /\ Leave(s, "mark_failed") \/ Leave(s, "failed")
          /\ UNCHANGED <<num, blk>>
      BY <2>6 DEF Fail, LostReply
    <3> QED
      BY <1>0, <3>1 DEF TypeOK, Leave, Goto, Labels, Calling, Outcomes
  <2> QED
    BY <1>4, <2>1, <2>2, <2>3, <2>4, <2>5, <2>6 DEF SyncStep
<1>5. CASE Crash
  BY <1>0, <1>1, <1>2, <1>5, NodeAssumption DEF TypeOK, Crash, Labels, Numbers
<1>6. CASE NodeStep \/ UNCHANGED vars
  BY <1>0, <1>1, <1>2, <1>6 DEF TypeOK, NodeStep, local, vars
<1>7. CASE Next
  BY <1>1, <1>2, <1>3, <1>4, <1>5, <1>6, <1>7 DEF Next, TypeOK
<1> QED
  BY <1>6, <1>7

-----------------------------------------------------------------------------
LEMMA InitIInv == Init => IInv
<1> SUFFICES ASSUME Init PROVE IInv
  OBVIOUS
<1>1. TypeOK
  BY NodeAssumption DEF Init, NodeInit, TypeOK, NodeTypeOK, BlockRow, TxRow, NoBlockRow,
                        NoTxRow, Status, Labels, Numbers
<1>2. \A n \in Numbers : ~Stored(n)
  BY DEF Init, NoBlockRow
<1>3. \A s \in Syncer : pc[s] = "idle"
  BY DEF Init
<1> QED
  BY <1>1, <1>2, <1>3 DEF IInv, RowNumber, Linked, Tracked, Holding, Checked, AboveZero,
                          Inserted, Calling, ReceiptLabels

\* The invariant: what a running call has checked stays checked, because no
\* other call, crash or reorg rewrites what was read.
THEOREM Invariance == Spec => []IInv
<1>1. IInv /\ [Next]_vars => IInv'
  BY TypeStep, StepMoves, MovedRowNumber, MovedLinked, TrackedStep DEF IInv
<1> QED
  BY InitIInv, <1>1, PTL DEF Spec

\* Tables and running calls hold what their types say.
THEOREM TypeCorrect == Spec => []TypeOK
BY Invariance, PTL DEF IInv

\* The stored blocks are linked by their parent hashes (validateBlockForSync
\* and the insert are separate calls; the link holds across them).
THEOREM StoredChainLinked == Spec => []Linked
BY Invariance, PTL DEF IInv

-----------------------------------------------------------------------------
(* Receipts.  A receipt is validated against the transaction row and       *)
(* written by a later statement; in between, the row keeps its block.      *)

GotMatches ==
    \A s \in Syncer : \A r \in got[s] : Indexed(r[1]) /\ txs[r[1]].block = r[2]

RInv == ReceiptFromRow /\ GotMatches

LEMMA PlacesStay ==
    ASSUME IInv, [Next]_vars, NEW t \in Tx, Indexed(t)
    PROVE  txs'[t].block = txs[t].block /\ Indexed(t)'
<1>0. txs \in [Tx -> TxRow]
  BY DEF IInv, TypeOK
<1>1. ASSUME NEW s \in Syncer, InsertsTxs(s)
      PROVE  txs'[t].block = txs[t].block
  BY <1>1 DEF InsertsTxs, InsertTxs
<1>2. ASSUME NEW s \in Syncer, TakesReceipt(s)
      PROVE  txs'[t].block = txs[t].block
  BY <1>0, <1>2 DEF TakesReceipt, TxRow
<1> QED
  BY <1>1, <1>2, TxSteps DEF Indexed

\* A receipt is set from what a call has fetched, or it is kept.
LEMMA ReceiptSteps ==
    ASSUME IInv, RInv, [Next]_vars, NEW t \in Tx
    PROVE  \/ txs'[t].receipt = txs[t].receipt /\ txs'[t].block = txs[t].block
           \/ txs'[t].receipt = NoBlock /\ ~Indexed(t)
           \/ txs'[t].receipt = txs[t].block /\ txs'[t].block = txs[t].block
<1>0. txs \in [Tx -> TxRow]
  BY DEF IInv, TypeOK
<1>1. ASSUME NEW s \in Syncer, InsertsTxs(s)
      PROVE  \/ txs'[t].receipt = txs[t].receipt /\ txs'[t].block = txs[t].block
             \/ txs'[t].receipt = NoBlock /\ ~Indexed(t)
  BY <1>1 DEF InsertsTxs, InsertTxs
<1>2. ASSUME NEW s \in Syncer, TakesReceipt(s)
      PROVE  \/ txs'[t].receipt = txs[t].receipt /\ txs'[t].block = txs[t].block
             \/ txs'[t].receipt = txs[t].block /\ txs'[t].block = txs[t].block
  <2>1. PICK r \in got[s] : /\ r \in Tx \X Block
                            /\ txs' = [txs EXCEPT ![r[1]].receipt = r[2]]
    BY <1>2 DEF TakesReceipt
  <2>2. txs[r[1]].block = r[2]
    BY <2>1 DEF RInv, GotMatches
  <2>3. CASE t = r[1]
    BY <1>0, <2>1, <2>2, <2>3 DEF TxRow
  <2>4. CASE t # r[1]
    BY <1>0, <2>1, <2>4
  <2> QED
    BY <2>3, <2>4
<1> QED
  BY <1>1, <1>2, TxSteps

LEMMA GotStep ==
    ASSUME IInv, RInv, [Next]_vars
    PROVE  GotMatches'
<1> SUFFICES ASSUME NEW s \in Syncer, NEW r \in got'[s]
             PROVE  Indexed(r[1])' /\ txs'[r[1]].block = r[2]
  BY DEF GotMatches
<1>0. got \in [Syncer -> SUBSET (Tx \X Block)] /\ todo \in [Syncer -> SUBSET Tx]
  BY DEF IInv, TypeOK
<1>1. CASE r \in got[s]
  <2>1. r[1] \in Tx /\ Indexed(r[1]) /\ txs[r[1]].block = r[2]
    BY <1>0, <1>1 DEF RInv, GotMatches
  <2> QED
    BY <2>1, PlacesStay
<1>2. CASE r \notin got[s]
  <2>1. FetchReceipt(s)
    BY <1>0, <1>2 DEF Next, SyncStep, Call, Return, NodeStep, Crash, FetchBlock, CheckRow,
       CheckParent, CheckTxs, Insert, ListMissing, FetchReceipt, ReceiptNotFound,
       UpdateReceipt, MarkSynced, MarkFailed, Fail, LostReply, Loop, Leave, local, vars
  <2>2. PICK t \in NextOf(todo[s]) :
          /\ Mined(t)
          /\ \/ /\ ReceiptMatches(t, MinedIn(t))
                /\ got' = [got EXCEPT ![s] = {<<t, MinedIn(t)>>}]
             \/ got' = [got EXCEPT ![s] = {}]
    BY <2>1 DEF FetchReceipt, Leave
  <2>3. t \in Tx /\ r = <<t, MinedIn(t)>> /\ MinedIn(t) = txs[t].block
    BY <1>0, <1>2, <2>2 DEF NextOf, ReceiptMatches
  <2>4. MinedIn(t) \in Block
    BY <2>2, <2>3, ReceiptIsOfBlock DEF IInv, TypeOK
  <2>5. Indexed(t)
    BY <2>3, <2>4, NodeAssumption DEF Indexed
  <2> QED
    BY <2>3, <2>5, PlacesStay
<1> QED
  BY <1>1, <1>2

LEMMA ReceiptStep ==
    ASSUME IInv, RInv, [Next]_vars
    PROVE  RInv'
<1>1. ReceiptFromRow'
  <2> SUFFICES ASSUME NEW t \in Tx
               PROVE  txs'[t].receipt \in {NoBlock, txs'[t].block}
    BY DEF ReceiptFromRow
  <2> QED
    BY ReceiptSteps DEF RInv, ReceiptFromRow
<1> QED
  BY <1>1, GotStep DEF RInv

THEOREM ReceiptInvariance == Spec => []RInv
<1>1. Init => RInv
  BY DEF Init, RInv, ReceiptFromRow, GotMatches, NoTxRow
<1>2. IInv /\ RInv /\ [Next]_vars => RInv'
  BY ReceiptStep
<1> QED
  BY Invariance, <1>1, <1>2, PTL DEF Spec

\* A recorded receipt is from the block its transaction is recorded in
\* (validateReceiptMatchesTransaction, then the update).
THEOREM ReceiptsFromTheirRows == Spec => []ReceiptFromRow
BY ReceiptInvariance, PTL DEF RInv

\* No statement rewrites the hash of a row, the block of a transaction, or a
\* receipt that was taken (ON CONFLICT DO NOTHING, and the updates).
THEOREM NothingRewritten == Spec => RowsImmutable
<1> DEFINE Kept == /\ \A n \in Numbers : Stored(n) => blocks'[n].hash = blocks[n].hash
                   /\ \A t \in Tx : Indexed(t) =>
                        /\ txs'[t].block = txs[t].block
                        /\ txs[t].receipt \in {NoBlock, txs'[t].receipt}
<1>1. ASSUME IInv, RInv, [Next]_vars
      PROVE  Kept
  <2>1. \A n \in Numbers : Stored(n) => blocks'[n].hash = blocks[n].hash
    BY <1>1, RowsStay
  <2>2. ASSUME NEW t \in Tx, Indexed(t)
        PROVE  /\ txs'[t].block = txs[t].block
               /\ txs[t].receipt \in {NoBlock, txs'[t].receipt}
    <3>1. txs'[t].block = txs[t].block
      BY <1>1, <2>2, PlacesStay
    <3>2. txs[t].receipt \in {NoBlock, txs[t].block}
      BY <1>1 DEF RInv, ReceiptFromRow
    <3> QED
      BY <1>1, <2>2, <3>1, <3>2, ReceiptSteps
  <2> QED
    BY <2>1, <2>2
<1>2. IInv /\ RInv /\ [Next]_vars => [Kept]_vars
  BY <1>1
<1> QED
  BY Invariance, ReceiptInvariance, <1>2, PTL DEF Spec, RowsImmutable
=============================================================================
