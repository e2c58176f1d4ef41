--------------------------- MODULE BlockSyncPlaces ---------------------------
(***************************************************************************)
(* When the rows of blocks and of transactions agree.  An insert decides   *)
(* row by row, so it keeps the two tables in agreement only if its block   *)
(* is the one recorded at its number (or none is), and none of its         *)
(* transactions is recorded elsewhere.  Both were checked by earlier calls *)
(* and may be out of date, unless                                          *)
(*   - no other call runs (Alone), or                                      *)
(*   - the node does not take back the blocks it has served (OnFinalChain).*)
(* This module proves what holds in each of the two cases.                 *)
(***************************************************************************)
EXTENDS BlockSyncRefinement

\* A transaction is recorded under a block it is in.
TxOfItsBlock == \A t \in Tx : Indexed(t) => t \in BlockTxs(txs[t].block)

Places == TxBelongsToRow /\ RowHasItsTxs /\ TxOfItsBlock

\* The insert of b keeps the tables in agreement.
SafeInsert(b) ==
    /\ Stored(NumberOf[b]) => Known(b)
    /\ Conflicts(b) = {}

SafeInserts == \A s \in Syncer : pc[s] = "insert" => SafeInsert(blk[s])

-----------------------------------------------------------------------------
(* One call at a time.                                                     *)

Alone == \A r, s \in Syncer : r = s

\* What a call has checked is still so.
CheckedRow(s) ==
    /\ pc[s] = "check_parent" => ~Stored(num[s])
    /\ pc[s] \in {"check_txs", "insert"} => (Stored(num[s]) => Known(blk[s]))

CheckedTxs(s) == pc[s] = "insert" => Conflicts(blk[s]) = {}

\* After its insert, the block of the call is the one recorded.
Recorded(s) ==
    pc[s] \in ReceiptLabels \cup {"ok"} =>
        blk[s] \in Block /\ NumberOf[blk[s]] = num[s] /\ Known(blk[s])

UpToDate == \A s \in Syncer : CheckedRow(s) /\ CheckedTxs(s) /\ Recorded(s)

AloneInv == Places /\ UpToDate

-----------------------------------------------------------------------------
(* Blocks that stay.                                                       *)

OnFinalChain(b) == IsFinal(NumberOf[b]) /\ chain[NumberOf[b]] = b

RowsFinal == \A n \in Numbers : Stored(n) => OnFinalChain(blocks[n].hash)

CallsFinal ==
    \A s \in Syncer : pc[s] \in (Calling \ {"fetch"}) \cup {"ok"} =>
        blk[s] \in Block /\ NumberOf[blk[s]] = num[s] /\ OnFinalChain(blk[s])

FinalInv == Places /\ RowsFinal /\ CallsFinal

\* The node is asked for blocks that are final.
FetchesFinal == \A s \in Syncer : FetchBlock(s) => IsFinal(num[s])

\* The receipts that are missing are on the list of every call in its loop.
Listed(s) ==
    /\ pc[s] \in {"receipt", "update"} => MissingReceipts(num[s]) \subseteq todo[s]
    /\ pc[s] = "mark_synced" => MissingReceipts(num[s]) = {}
    /\ \A t \in todo[s] : Indexed(t)

ReceiptsInv == CompletedHasReceipts /\ \A s \in Syncer : Listed(s)
-----------------------------------------------------------------------------
(* The tables.                                                             *)

USE DEF Stored

\* A step that keeps hashes and places keeps their agreement.
LEMMA PlacesKept ==
    ASSUME IInv, Places, HashesKept, \A t \in Tx : txs'[t].block = txs[t].block
    PROVE  Places'
<1>0. txs \in [Tx -> TxRow] /\ blocks \in [Numbers -> BlockRow]
  BY DEF IInv, TypeOK
<1>1. \A t \in Tx : Indexed(t) => NumberOf[txs[t].block] \in Numbers
  BY <1>0, NodeAssumption DEF Indexed, TxRow
<1>2. \A n \in Numbers : Stored(n) => BlockTxs(blocks[n].hash) \subseteq Tx
  BY <1>0, NodeAssumption DEF BlockRow
<1>3. TxBelongsToRow'
  BY <1>1 DEF Places, TxBelongsToRow, Indexed, HashesKept
<1>4. RowHasItsTxs'
  BY <1>2 DEF Places, RowHasItsTxs, HashesKept
<1>5. TxOfItsBlock'
  BY DEF Places, TxOfItsBlock, Indexed
<1> QED
  BY <1>3, <1>4, <1>5 DEF Places

LEMMA SafeInsertStep ==
    ASSUME IInv, Places, NEW b \in Block, Inserts(b), SafeInsert(b)
    PROVE  Places' /\ Known(b)'
<1> DEFINE n == NumberOf[b]
<1>0. /\ txs \in [Tx -> TxRow] /\ blocks \in [Numbers -> BlockRow]
      /\ n \in Numbers /\ NoBlock \notin Block /\ BlockTxs(b) \subseteq Tx
  BY NodeAssumption DEF IInv, TypeOK
<1>1. /\ blocks'[n].hash = b
      /\ \A m \in Numbers : Stored(m) => blocks'[m].hash = blocks[m].hash
      /\ \A m \in Numbers \ {n} : blocks'[m].hash = blocks[m].hash
  <2>1. CASE Stored(n)
    BY <1>0, <2>1 DEF Inserts, InsertBlock, SafeInsert, Known
  <2>2. CASE ~Stored(n)
    <3>1. blocks' = [blocks EXCEPT ![n] = InsertedRow(b)] /\ InsertedRow(b).hash = b
      BY <2>2 DEF Inserts, InsertBlock, InsertedRow
    <3> QED
      BY <1>0, <2>2, <3>1
  <2> QED
    BY <2>1, <2>2
<1>2. \A t \in Tx : txs'[t].block = IF t \in BlockTxs(b) THEN b ELSE txs[t].block
  <2> SUFFICES ASSUME NEW t \in Tx
               PROVE  txs'[t].block = IF t \in BlockTxs(b) THEN b ELSE txs[t].block
    OBVIOUS
  <2>1. t \in BlockTxs(b) /\ Indexed(t) => txs[t].block = b
    BY DEF SafeInsert, Conflicts, SamePlace
  <2> QED
    BY <2>1 DEF Inserts, InsertTxs
<1>3. \A t \in Tx : Indexed(t) => txs[t].block \in Block /\ NumberOf[txs[t].block] \in Numbers
  BY <1>0, NodeAssumption DEF Indexed, TxRow
<1>4. TxBelongsToRow'
  <2> SUFFICES ASSUME NEW t \in Tx, Indexed(t)'
               PROVE  blocks'[NumberOf[txs'[t].block]].hash = txs'[t].block
    BY DEF TxBelongsToRow
  <2>1. CASE t \in BlockTxs(b)
    BY <1>1, <1>2, <2>1
  <2>2. CASE t \notin BlockTxs(b)
    <3>1. Indexed(t) /\ txs'[t].block = txs[t].block
      BY <1>2, <2>2 DEF Indexed
    <3>2. blocks[NumberOf[txs[t].block]].hash = txs[t].block
      BY <3>1 DEF Places, TxBelongsToRow
    <3> QED
      BY <1>0, <1>1, <1>3, <3>1, <3>2
  <2> QED
    BY <2>1, <2>2
<1>5. RowHasItsTxs'
  <2> SUFFICES ASSUME NEW m \in Numbers, Stored(m)',
                      NEW t \in BlockTxs(blocks'[m].hash)
               PROVE  txs'[t].block = blocks'[m].hash
    BY DEF RowHasItsTxs
  <2>1. CASE m = n
    BY <1>0, <1>1, <1>2, <2>1
  <2>2. CASE m # n
    <3>1. Stored(m) /\ blocks'[m].hash = blocks[m].hash
      BY <1>1, <2>2
    <3>2. t \in Tx /\ txs[t].block = blocks[m].hash
      BY <1>0, <3>1, NodeAssumption DEF Places, RowHasItsTxs, BlockRow
    <3>3. Indexed(t)
      BY <3>1, <3>2 DEF Indexed
    <3>4. t \in BlockTxs(b) => txs[t].block = b
      BY <3>2, <3>3 DEF SafeInsert, Conflicts, SamePlace
    <3> QED
      BY <1>2, <3>1, <3>2, <3>4
  <2> QED
    BY <2>1, <2>2
<1>6. TxOfItsBlock'
  BY <1>2 DEF Places, TxOfItsBlock, Indexed
<1> QED
  BY <1>1, <1>4, <1>5, <1>6 DEF Places, Known

\* Every write but an insert keeps hashes and places.
LEMMA OtherWrites ==
    ASSUME IInv, RInv,
           \/ UNCHANGED <<blocks, txs>>
           \/ \E s \in Syncer : Takes(s)
           \/ \E n \in Numbers : MarksRow(n)
    PROVE  HashesKept /\ \A t \in Tx : txs'[t].block = txs[t].block
<1>0. txs \in [Tx -> TxRow] /\ TypeOK
  BY DEF IInv, TypeOK
<1>1. ASSUME NEW s \in Syncer, Takes(s)
      PROVE  HashesKept /\ \A t \in Tx : txs'[t].block = txs[t].block
  BY <1>0, <1>1 DEF Takes, TakesReceipt, TxRow, HashesKept
<1>2. ASSUME NEW n \in Numbers, MarksRow(n)
      PROVE  HashesKept /\ \A t \in Tx : txs'[t].block = txs[t].block
  BY <1>0, <1>2, MarksKeepHashes DEF MarksRow
<1> QED
  BY <1>1, <1>2 DEF HashesKept

LEMMA PlacesStep ==
    ASSUME IInv, RInv, Places, SafeInserts, [Next]_vars
    PROVE  Places'
<1>1. CASE \E s \in Syncer : InsertsAt(s)
  BY <1>1, SafeInsertStep DEF InsertsAt, SafeInserts
<1>2. CASE ~\E s \in Syncer : InsertsAt(s)
  <2>1. \A s \in Syncer : num[s] \in Numbers
    BY DEF IInv, TypeOK
  <2>2. \/ UNCHANGED <<blocks, txs>>
        \/ \E s \in Syncer : Takes(s)
        \/ \E n \in Numbers : MarksRow(n)
    BY <1>2, <2>1, WriteKinds DEF TakesAt, MarksAt, MarksRow
  <2> QED
    BY <2>2, OtherWrites, PlacesKept
<1> QED
  BY <1>1, <1>2

-----------------------------------------------------------------------------
(* One call at a time.                                                     *)

\* What the sole call has read stays so until it writes itself.
LEMMA UpToDateStep ==
    ASSUME IInv, RInv, Alone, AloneInv, [Next]_vars
    PROVE  UpToDate'
<1> SUFFICES ASSUME NEW s \in Syncer
             PROVE  CheckedRow(s)' /\ CheckedTxs(s)' /\ Recorded(s)'
  BY DEF UpToDate
<1>0. /\ pc \in [Syncer -> Labels] /\ num[s] \in Numbers
      /\ CheckedRow(s) /\ CheckedTxs(s) /\ Recorded(s) /\ Holding(s)
      /\ \A u \in Syncer : u = s
  BY DEF IInv, TypeOK, Tracked, AloneInv, UpToDate, Alone
<1>1. ASSUME pc'[s] \in {"idle", "fetch", "check_row"} \cup (Outcomes \ {"ok"})
      PROVE  CheckedRow(s)' /\ CheckedTxs(s)' /\ Recorded(s)'
  BY <1>1 DEF CheckedRow, CheckedTxs, Recorded, Outcomes, ReceiptLabels
<1>2. ASSUME pc[s] \in ReceiptLabels \cup {"ok"}, pc'[s] \in ReceiptLabels \cup {"ok"},
             UNCHANGED <<num, blk>>
      PROVE  CheckedRow(s)' /\ CheckedTxs(s)' /\ Recorded(s)'
  <2>1. blk[s] \in Block /\ NumberOf[blk[s]] = num[s] /\ Known(blk[s])
    BY <1>0, <1>2 DEF Recorded
  <2>2. Stored(num[s])
    BY <2>1, NodeAssumption DEF Known
  <2>3. Known(blk[s])'
    BY <1>0, <1>2, <2>1, <2>2, RowsStay DEF Known
  <2> QED
    BY <1>2, <2>1, <2>3 DEF CheckedRow, CheckedTxs, Recorded, ReceiptLabels
<1>3. ASSUME pc'[s] = pc[s], UNCHANGED <<num, blk, blocks, txs>>
      PROVE  CheckedRow(s)' /\ CheckedTxs(s)' /\ Recorded(s)'
  BY <1>0, <1>3 DEF CheckedRow, CheckedTxs, Recorded, Known, Conflicts, Indexed, SamePlace
<1>4. CASE CheckRow(s) \/ CheckParent(s) \/ CheckTxs(s)
  <2>0. UNCHANGED <<num, blk, blocks, txs>>
    BY <1>4 DEF CheckRow, CheckParent, CheckTxs, db
  <2>1. CASE CheckRow(s)
    <3>1. \/ pc'[s] = "check_txs" /\ (Known(blk[s]) \/ ~Stored(num[s]))
          \/ pc'[s] = "check_parent" /\ ~Stored(num[s])
          \/ pc'[s] = "reorg"
      BY <1>0, <2>1 DEF CheckRow, Goto
    <3> QED
      BY <1>1, <2>0, <3>1
         DEF CheckedRow, CheckedTxs, Recorded, Known, ReceiptLabels, Outcomes
  <2>2. CASE CheckParent(s)
    <3>1. /\ pc'[s] \in {"check_txs", "discontinuity"}
          /\ ~Stored(num[s])
      BY <1>0, <2>2 DEF CheckParent, Goto, CheckedRow
    <3> QED
      BY <1>1, <2>0, <3>1
         DEF CheckedRow, CheckedTxs, Recorded, Known, ReceiptLabels, Outcomes
  <2>3. CASE CheckTxs(s)
    <3>1. /\ \/ pc'[s] = "insert" /\ Conflicts(blk[s]) = {}
             \/ pc'[s] = "conflict"
          /\ Stored(num[s]) => Known(blk[s])
      BY <1>0, <2>3 DEF CheckTxs, Goto, CheckedRow
    <3> QED
      BY <1>1, <2>0, <3>1 DEF CheckedRow, CheckedTxs, Recorded, Known, ReceiptLabels,
         Outcomes, Conflicts, Indexed, SamePlace
  <2> QED
    BY <1>4, <2>1, <2>2, <2>3
<1>5. CASE Insert(s)
  <2>1. blk[s] \in Block /\ NumberOf[blk[s]] = num[s] /\ MayAdd(blk[s])
    BY <1>5 DEF IInv, Tracked, Holding, Checked, Calling, Insert
  <2>2. SafeInsert(blk[s]) /\ Inserts(blk[s])
    BY <1>0, <1>5, <2>1
       DEF Insert, InsertRows, Inserts, SafeInsert, CheckedRow, CheckedTxs
  <2>3. Known(blk[s])' /\ UNCHANGED <<num, blk>> /\ pc'[s] \in {"ok", "list"}
    BY <1>0, <1>5, <2>1, <2>2, SafeInsertStep DEF AloneInv, Insert, Goto
  <2> QED
    BY <2>1, <2>3 DEF CheckedRow, CheckedTxs, Recorded, ReceiptLabels
<1>6. CASE \/ ListMissing(s) \/ FetchReceipt(s) \/ ReceiptNotFound(s) \/ UpdateReceipt(s)
           \/ MarkSynced(s) \/ MarkFailed(s)
  <2>1. /\ pc[s] \in ReceiptLabels
        /\ pc'[s] \in ReceiptLabels \cup {"ok", "failed"}
        /\ UNCHANGED <<num, blk>>
    BY <1>0, <1>6 DEF ListMissing, FetchReceipt, ReceiptNotFound, UpdateReceipt,
       MarkSynced, MarkFailed, Loop, Leave, Goto, ReceiptLabels
  <2> QED
    BY <1>1, <1>2, <2>1 DEF Outcomes
<1>7. CASE Fail(s) \/ LostReply(s)
  <2>1. /\ \/ pc'[s] = "failed"
           \/ pc[s] \in ReceiptLabels /\ pc'[s] = "mark_failed"
        /\ UNCHANGED <<num, blk>>
    BY <1>0, <1>7 DEF Fail, LostReply, Leave, Goto, ReceiptLabels
  <2> QED
    BY <1>1, <1>2, <2>1 DEF Outcomes, ReceiptLabels
<1>8. CASE FetchBlock(s) \/ Return(s) \/ (\E n \in Numbers : Call(s, n)) \/ Crash
  BY <1>0, <1>1, <1>8 DEF FetchBlock, Return, Call, Crash, Goto
<1>9. CASE NodeStep \/ UNCHANGED vars
  BY <1>3, <1>9 DEF NodeStep, db, local, vars
<1>10. CASE Next
  BY <1>0, <1>4, <1>5, <1>6, <1>7, <1>8, <1>9, <1>10 DEF Next, SyncStep
<1> QED
  BY <1>9, <1>10

\* With one call at a time, the tables agree and what it checked is current.
THEOREM AloneInvariance == ASSUME Alone PROVE Spec => []AloneInv
<1>1. Init => AloneInv
  BY DEF Init, AloneInv, Places, TxBelongsToRow, RowHasItsTxs, TxOfItsBlock, Indexed,
         NoBlockRow, NoTxRow, UpToDate, CheckedRow, CheckedTxs, Recorded, ReceiptLabels
<1>2. IInv /\ RInv /\ AloneInv /\ [Next]_vars => AloneInv'
  <2> SUFFICES ASSUME IInv, RInv, AloneInv, [Next]_vars PROVE AloneInv'
    OBVIOUS
  <2>1. SafeInserts
    BY DEF IInv, Tracked, Holding, Calling, AloneInv, UpToDate, CheckedRow, CheckedTxs,
           SafeInserts, SafeInsert
  <2> QED
    BY <2>1, PlacesStep, UpToDateStep DEF AloneInv
<1> QED
  BY Invariance, ReceiptInvariance, <1>1, <1>2, PTL DEF Spec

\* Every indexed transaction is one of the block recorded at its number, if
\* one sync runs at a time (validateTransactionsForSync, then the insert).
THEOREM AloneTxBelongsToRow == ASSUME Alone PROVE Spec => []TxBelongsToRow
BY AloneInvariance, PTL DEF AloneInv, Places

\* Every transaction of a recorded block is indexed under it, if one sync
\* runs at a time (the two INSERTs of InsertBlockWithTransactions).
THEOREM AloneRowHasItsTxs == ASSUME Alone PROVE Spec => []RowHasItsTxs
BY AloneInvariance, PTL DEF AloneInv, Places

\* A sync that reports success has recorded the block it fetched, if one
\* sync runs at a time; with two it may not have (SyncBlockToDB).
THEOREM AloneSyncOkMeansStored == ASSUME Alone PROVE Spec => []SyncOkMeansStored
<1>1. AloneInv => SyncOkMeansStored
  BY DEF AloneInv, UpToDate, Recorded, Known, SyncOkMeansStored
<1> QED
  BY AloneInvariance, <1>1, PTL

-----------------------------------------------------------------------------
(* Blocks that stay: the node serves them on every later chain.            *)

LEMMA ChainShape ==
    ASSUME NodeTypeOK
    PROVE  /\ \A n \in DOMAIN chain :
                n \in Numbers /\ chain[n] \in Block /\ NumberOf[chain[n]] = n
           /\ \A n, k \in Nat : n + k \in DOMAIN chain => n \in DOMAIN chain
           /\ \A n \in DOMAIN chain : n > 0 => /\ n - 1 \in DOMAIN chain
                                               /\ ParentOf[chain[n]] = chain[n - 1]
           /\ \A m, n \in DOMAIN chain :
                m # n => BlockTxs(chain[m]) \cap BlockTxs(chain[n]) = {}
<1>1. IsChain(chain)
  BY ChainsAssumption DEF NodeTypeOK
<1>2. PICK h \in Numbers :
        /\ chain \in [0..h -> Block]
        /\ \A n \in 0..h : NumberOf[chain[n]] = n
        /\ \A n \in 1..h : ParentOf[chain[n]] = chain[n - 1]
        /\ \A m, n \in 0..h : m # n => BlockTxs(chain[m]) \cap BlockTxs(chain[n]) = {}
  BY <1>1 DEF IsChain
<1>3. DOMAIN chain = 0..h /\ h \in Nat
  BY <1>2, NodeAssumption DEF Numbers
<1>4. \A n \in 0..h : n \in Numbers /\ chain[n] \in Block
  BY <1>2, NodeAssumption DEF Numbers
<1>5. \A n \in 0..h : n > 0 => n - 1 \in 0..h /\ n \in 1..h
  BY <1>3
<1>6. \A n, k \in Nat : n + k \in 0..h => n \in 0..h
  BY <1>3
<1> QED
  BY <1>2, <1>3, <1>4, <1>5, <1>6

\* A final block of the chain is final on the chain of every later state.
LEMMA FinalStays ==
    ASSUME IInv, [Next]_vars, NEW b \in Block, OnFinalChain(b)
    PROVE  NumberOf[b] + FinalDepth \in DOMAIN chain' /\ chain'[NumberOf[b]] = b
<1>1. UNCHANGED chain \/ NewChain
  BY DEF Next, SyncStep, Call, Return, NodeStep, Crash, FetchBlock, CheckRow, CheckParent,
     CheckTxs, Insert, ListMissing, FetchReceipt, ReceiptNotFound, UpdateReceipt,
     MarkSynced, MarkFailed, Fail, LostReply, vars
<1>2. NumberOf[b] \in DOMAIN chain
  BY ChainShape, NodeAssumption DEF IInv, TypeOK, OnFinalChain, IsFinal, HasBlock, Numbers
<1> QED
  BY <1>1, <1>2 DEF OnFinalChain, IsFinal, HasBlock, NewChain

\* Where all rows are on the chain, no block of it is in conflict with them.
LEMMA FinalBlockSafe ==
    ASSUME IInv, FinalInv, NEW b \in Block, OnFinalChain(b)
    PROVE  SafeInsert(b)
<1>0. NodeTypeOK /\ txs \in [Tx -> TxRow] /\ NoBlock \notin Block
  BY NodeAssumption DEF IInv, TypeOK
<1>1. NumberOf[b] \in Numbers
  BY NodeAssumption
<1>2. \A c \in Block : OnFinalChain(c) => NumberOf[c] \in DOMAIN chain
  BY <1>0, ChainShape, NodeAssumption DEF OnFinalChain, IsFinal, HasBlock, Numbers
<1>3. Stored(NumberOf[b]) => Known(b)
  <2> SUFFICES ASSUME Stored(NumberOf[b]) PROVE Known(b)
    OBVIOUS
  <2> DEFINE c == blocks[NumberOf[b]].hash
  <2>1. OnFinalChain(c) /\ NumberOf[c] = NumberOf[b]
    BY <1>1 DEF FinalInv, RowsFinal, IInv, RowNumber
  <2> QED
    BY <1>1, <2>1 DEF OnFinalChain, Known
<1>4. ASSUME NEW t \in BlockTxs(b), Indexed(t), t \in Tx
      PROVE  SamePlace(t, b)
  <2> DEFINE c == txs[t].block
  <2>1. c \in Block /\ NumberOf[c] \in Numbers /\ blocks[NumberOf[c]].hash = c
    BY <1>0, <1>4, NodeAssumption
       DEF FinalInv, Places, TxBelongsToRow, Indexed, TxRow
  <2>2. Stored(NumberOf[c])
    BY <1>0, <2>1
  <2>3. OnFinalChain(c)
    BY <2>1, <2>2 DEF FinalInv, RowsFinal
  <2>4. t \in BlockTxs(c)
    BY <1>4 DEF FinalInv, Places, TxOfItsBlock
  <2>5. NumberOf[b] = NumberOf[c]
    BY <1>0, <1>1, <1>2, <1>4, <2>1, <2>3, <2>4, ChainShape DEF OnFinalChain
  <2> QED
    BY <1>1, <2>3, <2>5 DEF OnFinalChain, SamePlace
<1>5. BlockTxs(b) \subseteq Tx
  BY <1>1, NodeAssumption
<1> QED
  BY <1>3, <1>4, <1>5 DEF SafeInsert, Conflicts

LEMMA FinalSafe ==
    ASSUME IInv, FinalInv
    PROVE  SafeInserts
BY FinalBlockSafe DEF FinalInv, CallsFinal, Calling, SafeInserts

LEMMA RowsFinalStep ==
    ASSUME IInv, FinalInv, [Next]_vars
    PROVE  RowsFinal'
<1> DEFINE Later(b) == NumberOf[b] + FinalDepth \in DOMAIN chain' /\ chain'[NumberOf[b]] = b
<1> SUFFICES ASSUME NEW n \in Numbers, Stored(n)'
             PROVE  Later(blocks'[n].hash)
  BY DEF RowsFinal, OnFinalChain, IsFinal, HasBlock
<1>0. blocks \in [Numbers -> BlockRow]
  BY DEF IInv, TypeOK
<1>1. CASE Stored(n)
  <2>1. blocks[n].hash \in Block /\ OnFinalChain(blocks[n].hash)
    BY <1>0, <1>1 DEF FinalInv, RowsFinal, BlockRow
  <2> QED
    BY <1>1, <2>1, RowsStay, FinalStays
<1>2. CASE ~Stored(n)
  <2>1. PICK s \in Syncer : InsertOf(s)
    BY <1>2, RowSteps DEF HashesKept
  <2>2. blk[s] \in Block /\ blocks'[n].hash = blk[s]
    BY <1>2, <2>1 DEF InsertOf, HashAdded
  <2>3. OnFinalChain(blk[s])
    BY <2>1 DEF InsertOf, FinalInv, CallsFinal, Calling
  <2> QED
    BY <2>2, <2>3, FinalStays
<1> QED
  BY <1>1, <1>2

\* What a call holds: it has just fetched it, or held it before.
LEMMA CallSteps ==
    ASSUME IInv, [Next]_vars, NEW s \in Syncer,
           pc'[s] \in (Calling \ {"fetch"}) \cup {"ok"}
    PROVE  \/ FetchBlock(s)
           \/ /\ pc[s] \in (Calling \ {"fetch"}) \cup {"ok"}
              /\ blk'[s] = blk[s] /\ num'[s] = num[s]
<1>0. pc \in [Syncer -> Labels]
  BY DEF IInv, TypeOK
<1>1. ASSUME NEW u \in Syncer, SyncStep(u) \/ Return(u) \/ \E n \in Numbers : Call(u, n),
             u # s
      PROVE  pc'[s] = pc[s] /\ num'[s] = num[s] /\ blk'[s] = blk[s]
  BY <1>0, <1>1 DEF SyncStep, Call, Return, FetchBlock, CheckRow, CheckParent, CheckTxs,
     Insert, ListMissing, FetchReceipt, ReceiptNotFound, UpdateReceipt, MarkSynced,
     MarkFailed, Fail, LostReply, Loop, Leave, Goto, IInv, TypeOK
<1>2. ASSUME SyncStep(s), ~FetchBlock(s)
      PROVE  /\ pc[s] \in Calling \ {"fetch"}
             /\ blk'[s] = blk[s] /\ num'[s] = num[s]
  BY <1>0, <1>2 DEF SyncStep, CheckRow, CheckParent, CheckTxs, Insert, ListMissing,
     FetchReceipt, ReceiptNotFound, UpdateReceipt, MarkSynced, MarkFailed, Fail, LostReply,
     Leave, Goto, Calling
<1>3. ~(Return(s) \/ (\E n \in Numbers : Call(s, n)) \/ Crash)
  BY <1>0 DEF Return, Call, Crash, Goto, Calling
<1>4. CASE NodeStep \/ UNCHANGED vars
  BY <1>4 DEF NodeStep, local, vars
<1>5. CASE Next
  BY <1>1, <1>2, <1>3, <1>4, <1>5 DEF Next
<1> QED
  BY <1>4, <1>5

LEMMA CallsFinalStep ==
    ASSUME IInv, FinalInv, FetchesFinal, [Next]_vars
    PROVE  CallsFinal'
<1> DEFINE Later(b) == NumberOf[b] + FinalDepth \in DOMAIN chain' /\ chain'[NumberOf[b]] = b
<1> SUFFICES ASSUME NEW s \in Syncer, pc'[s] \in (Calling \ {"fetch"}) \cup {"ok"}
             PROVE  /\ blk'[s] \in Block /\ NumberOf[blk'[s]] = num'[s]
                    /\ Later(blk'[s])
  BY DEF CallsFinal, OnFinalChain, IsFinal, HasBlock
<1>1. CASE FetchBlock(s)
  <2>1. IsFinal(num[s]) /\ num[s] \in DOMAIN chain /\ blk'[s] = chain[num[s]]
    BY <1>1 DEF FetchesFinal, FetchBlock, HasBlock, IInv, TypeOK
  <2>2. UNCHANGED <<chain, num>>
    BY <1>1 DEF FetchBlock
  <2> QED
    BY <2>1, <2>2, ChainShape DEF IsFinal, HasBlock, IInv, TypeOK
<1>2. CASE /\ pc[s] \in (Calling \ {"fetch"}) \cup {"ok"}
           /\ blk'[s] = blk[s] /\ num'[s] = num[s]
  BY <1>2, FinalStays DEF FinalInv, CallsFinal
<1> QED
  BY <1>1, <1>2, CallSteps

LEMMA FinalStep ==
    ASSUME IInv, RInv, FinalInv, FetchesFinal, [Next]_vars
    PROVE  FinalInv'
BY FinalSafe, PlacesStep, RowsFinalStep, CallsFinalStep DEF FinalInv

LEMMA InitFinal == Init => FinalInv
BY DEF Init, FinalInv, Places, TxBelongsToRow, RowHasItsTxs, TxOfItsBlock, Indexed,
       NoBlockRow, NoTxRow, RowsFinal, CallsFinal, Calling

\* A node whose chain only grows: everything recorded, and everything a call
\* holds, is on its chain, whoever else is writing.
THEOREM GrowingInvariance == ASSUME FinalDepth = 0 PROVE Spec => []FinalInv
<1>1. IInv => FetchesFinal
  BY NodeAssumption DEF IInv, TypeOK, FetchesFinal, FetchBlock, IsFinal, HasBlock, Numbers
<1>2. IInv /\ RInv /\ FinalInv /\ FetchesFinal /\ [Next]_vars => FinalInv'
  BY FinalStep
<1> QED
  BY Invariance, ReceiptInvariance, InitFinal, <1>1, <1>2, PTL DEF Spec

\* Every transaction of a recorded block is indexed under it, for any number
\* of concurrent syncs, if the chain only grows (InsertBlockWithTransactions
\* under ON CONFLICT DO NOTHING).
THEOREM GrowingRowHasItsTxs == ASSUME FinalDepth = 0 PROVE Spec => []RowHasItsTxs
BY GrowingInvariance, PTL DEF FinalInv, Places

\* ... and every indexed transaction is one of the block at its number.
THEOREM GrowingTxBelongsToRow == ASSUME FinalDepth = 0 PROVE Spec => []TxBelongsToRow
BY GrowingInvariance, PTL DEF FinalInv, Places

\* A call that succeeded leaves a row at its number.
OkStored == \A s \in Syncer : pc[s] = "ok" => Stored(num[s])

LEMMA OkStoredStep ==
    ASSUME IInv, OkStored, [Next]_vars
    PROVE  OkStored'
<1> SUFFICES ASSUME NEW s \in Syncer, pc'[s] = "ok"
             PROVE  Stored(num[s])' /\ num'[s] = num[s]
  BY DEF OkStored
<1>0. pc \in [Syncer -> Labels] /\ num[s] \in Numbers
  BY DEF IInv, TypeOK
<1>1. ~FetchBlock(s)
  BY <1>0 DEF FetchBlock, Goto
<1>2. num'[s] = num[s]
  BY <1>1, CallSteps
<1>3. CASE Insert(s)
  <2>1. blk[s] \in Block /\ NumberOf[blk[s]] = num[s]
    BY <1>3 DEF IInv, Tracked, Holding, Insert, Calling
  <2> QED
    BY <1>2, <1>3, <2>1, InsertAdds DEF IInv, Insert, InsertRows
<1>4. CASE Stored(num[s])
  BY <1>0, <1>2, <1>4, RowsStay
<1>5. CASE ~Insert(s) /\ ~Stored(num[s])
  <2>1. pc[s] # "ok"
    BY <1>5 DEF OkStored
  <2>2. ASSUME NEW u \in Syncer, SyncStep(u) \/ Return(u) \/ \E n \in Numbers : Call(u, n)
        PROVE  pc'[s] # "ok"
    BY <1>0, <1>5, <2>1, <2>2 DEF SyncStep, Call, Return, FetchBlock, CheckRow, CheckParent,
       CheckTxs, ListMissing, FetchReceipt, ReceiptNotFound, UpdateReceipt, MarkSynced,
       Insert, MarkFailed, Fail, LostReply, Loop, Leave, Goto
  <2> QED
    BY <2>1, <2>2 DEF Next, NodeStep, Crash, local, vars
<1> QED
  BY <1>2, <1>3, <1>4, <1>5

\* A sync that reports success has recorded the block it fetched, for any
\* number of concurrent syncs, if the chain only grows (SyncBlockToDB).
THEOREM GrowingSyncOkMeansStored == ASSUME FinalDepth = 0 PROVE Spec => []SyncOkMeansStored
<1>1. Init => OkStored
  BY DEF Init, OkStored
<1>2. IInv /\ OkStored /\ [Next]_vars => OkStored'
  BY OkStoredStep
<1>3. IInv /\ FinalInv /\ OkStored => SyncOkMeansStored
  <2> SUFFICES ASSUME IInv, FinalInv, OkStored, NEW s \in Syncer, pc[s] = "ok"
               PROVE  blocks[num[s]].hash = blk[s]
    BY DEF SyncOkMeansStored
  <2>1. num[s] \in Numbers /\ Stored(num[s])
    BY DEF IInv, TypeOK, OkStored
  <2>2. OnFinalChain(blocks[num[s]].hash) /\ NumberOf[blocks[num[s]].hash] = num[s]
    BY <2>1 DEF FinalInv, RowsFinal, IInv, RowNumber
  <2> QED
    BY <2>2 DEF FinalInv, CallsFinal, OnFinalChain
<1> QED
  BY Invariance, GrowingInvariance, <1>1, <1>2, <1>3, PTL DEF Spec

-----------------------------------------------------------------------------
(* What a step does to the completed rows.                                 *)

\* A row becomes completed by the mark of a call, or with the insert of a
\* block without transactions.
LEMMA CompletedSteps ==
    ASSUME IInv, [Next]_vars, NEW n \in Numbers, ~Completed(n), Completed(n)'
    PROVE  \E s \in Syncer :
             /\ num[s] = n
             /\ \/ pc[s] = "mark_synced" /\ MarksAt(s)
                \/ InsertsAt(s) /\ ~Stored(n) /\ BlockTxs(blk[s]) = {}
<1>0. blocks \in [Numbers -> BlockRow]
  BY DEF IInv, TypeOK
<1>1. ~UNCHANGED blocks
  BY DEF Completed
<1>2. PICK s \in Syncer : InsertsAt(s) \/ MarksAt(s)
  BY <1>1, WriteKinds DEF TakesAt, Takes
<1>3. CASE InsertsAt(s)
  <2>1. /\ blk[s] \in Block /\ NumberOf[blk[s]] = num[s] /\ num[s] \in Numbers
        /\ ~Stored(num[s])
        /\ blocks' = [blocks EXCEPT ![num[s]] = InsertedRow(blk[s])]
    BY <1>1, <1>3 DEF InsertsAt, Inserts, InsertBlock, IInv, TypeOK
  <2>2. n = num[s]
    BY <1>0, <2>1 DEF Completed
  <2>3. BlockTxs(blk[s]) = {}
    BY <1>0, <2>1, <2>2 DEF Completed, InsertedRow
  <2> QED
    BY <1>3, <2>1, <2>2, <2>3
<1>4. CASE MarksAt(s)
  <2>1. CASE pc[s] = "mark_synced" /\ blocks' = MarkReceiptsSynced(num[s])
    BY <1>0, <1>4, <2>1 DEF MarkReceiptsSynced, Completed
  <2>2. CASE blocks' = MarkReceiptsSyncFailed(num[s])
    BY <1>0, <2>2 DEF MarkReceiptsSyncFailed, Completed, BlockRow
  <2> QED
    BY <1>4, <2>1, <2>2 DEF MarksAt
<1> QED
  BY <1>2, <1>3, <1>4

\* It ceases to be by the mark of a call that failed, of the same number.
LEMMA DemotedSteps ==
    ASSUME IInv, [Next]_vars, NEW n \in Numbers, Completed(n), ~Completed(n)'
    PROVE  \E s \in Syncer : num[s] = n /\ pc[s] = "mark_failed" /\ MarksAt(s)
<1>0. blocks \in [Numbers -> BlockRow]
  BY DEF IInv, TypeOK
<1>1. ~UNCHANGED blocks
  BY DEF Completed
<1>2. PICK s \in Syncer : InsertsAt(s) \/ MarksAt(s)
  BY <1>1, WriteKinds DEF TakesAt, Takes
<1>3. CASE InsertsAt(s)
  BY <1>0, <1>3 DEF InsertsAt, Inserts, InsertBlock, Completed
<1>4. CASE MarksAt(s)
  <2>1. CASE blocks' = MarkReceiptsSynced(num[s])
    BY <1>0, <2>1 DEF MarkReceiptsSynced, Completed, BlockRow
  <2>2. CASE pc[s] = "mark_failed" /\ blocks' = MarkReceiptsSyncFailed(num[s])
    BY <1>0, <1>4, <2>2 DEF MarkReceiptsSyncFailed, Completed
  <2> QED
    BY <1>4, <2>1, <2>2 DEF MarksAt
<1> QED
  BY <1>2, <1>3, <1>4

-----------------------------------------------------------------------------
(* Receipts, where the blocks stay and the node has the receipt of every   *)
(* transaction it has mined.                                               *)

\* The node knows every indexed transaction.
LEMMA IndexedMined ==
    ASSUME IInv, FinalInv, NEW t \in Tx, Indexed(t)
    PROVE  Mined(t)
<1> DEFINE c == txs[t].block
<1>0. NodeTypeOK /\ txs \in [Tx -> TxRow] /\ NoBlock \notin Block
  BY NodeAssumption DEF IInv, TypeOK
<1>1. c \in Block /\ NumberOf[c] \in Numbers /\ blocks[NumberOf[c]].hash = c
  BY <1>0, NodeAssumption DEF FinalInv, Places, TxBelongsToRow, Indexed, TxRow
<1>2. OnFinalChain(c)
  BY <1>0, <1>1 DEF FinalInv, RowsFinal
<1>3. NumberOf[c] \in DOMAIN chain /\ chain[NumberOf[c]] = c
  BY <1>0, <1>1, <1>2, ChainShape, NodeAssumption DEF OnFinalChain, IsFinal, HasBlock, Numbers
<1>4. t \in BlockTxs(c)
  BY DEF FinalInv, Places, TxOfItsBlock
<1> QED
  BY <1>3, <1>4 DEF Mined

\* At a number that has its row, no step adds a missing receipt; writing the
\* receipt of t removes it.
LEMMA MissingShrinks ==
    ASSUME IInv, RInv, Places, SafeInserts, [Next]_vars, NEW n \in Numbers, Stored(n)
    PROVE  /\ MissingReceipts(n)' \subseteq MissingReceipts(n)
           /\ \A t \in Tx, b \in Block : WriteReceipt(t, b) => t \notin MissingReceipts(n)'
<1>0. txs \in [Tx -> TxRow] /\ NoBlock \notin Block /\ blocks \in [Numbers -> BlockRow]
  BY NodeAssumption DEF IInv, TypeOK
<1>1. ASSUME NEW s \in Syncer, InsertsAt(s), NEW t \in MissingReceipts(n)'
      PROVE  t \in MissingReceipts(n)
  <2>1. /\ blk[s] \in Block /\ SafeInsert(blk[s])
        /\ txs'[t] = IF t \in BlockTxs(blk[s]) /\ ~Indexed(t)
                     THEN [block |-> blk[s], receipt |-> NoBlock] ELSE txs[t]
    BY <1>1 DEF InsertsAt, Inserts, InsertTxs, SafeInserts, MissingReceipts
  <2>2. CASE t \in BlockTxs(blk[s]) /\ ~Indexed(t)
    <3>1. NumberOf[blk[s]] = n
      BY <1>1, <2>1, <2>2 DEF MissingReceipts
    <3>2. blocks[n].hash = blk[s]
      BY <2>1, <3>1 DEF SafeInsert, Known
    <3>3. txs[t].block = blk[s]
      BY <2>2, <3>2 DEF Places, RowHasItsTxs
    <3> QED
      BY <1>0, <2>1, <2>2, <3>3 DEF Indexed
  <2>3. CASE ~(t \in BlockTxs(blk[s]) /\ ~Indexed(t))
    BY <1>1, <2>1, <2>3 DEF MissingReceipts, Indexed
  <2> QED
    BY <2>2, <2>3
<1>2. ASSUME NEW s \in Syncer, TakesAt(s), NEW t \in MissingReceipts(n)'
      PROVE  t \in MissingReceipts(n)
  <2>1. PICK r \in got[s] : /\ r \in Tx \X Block
                            /\ txs' = [txs EXCEPT ![r[1]].receipt = r[2]]
    BY <1>2 DEF TakesAt, Takes, TakesReceipt
  <2>2. t \in Tx /\ t # r[1]
    BY <1>0, <1>2, <2>1 DEF MissingReceipts, TxRow
  <2>3. txs'[t] = txs[t]
    BY <1>0, <2>1, <2>2
  <2> QED
    BY <1>2, <2>2, <2>3 DEF MissingReceipts, Indexed
<1>3. ASSUME UNCHANGED txs
      PROVE  MissingReceipts(n)' = MissingReceipts(n)
  BY <1>3 DEF MissingReceipts, Indexed
<1>4. MissingReceipts(n)' \subseteq MissingReceipts(n)
  BY <1>1, <1>2, <1>3, WriteKinds DEF MarksAt
<1>5. ASSUME NEW t \in Tx, NEW b \in Block, WriteReceipt(t, b)
      PROVE  t \notin MissingReceipts(n)'
  BY <1>0, <1>5 DEF WriteReceipt, MissingReceipts, TxRow
<1> QED
  BY <1>4, <1>5

\* A call that does not move keeps its list complete ...
LEMMA ListedBystander ==
    ASSUME IInv, RInv, Places, SafeInserts, ReceiptsInv, [Next]_vars, NEW s \in Syncer,
           pc'[s] = pc[s], num'[s] = num[s], todo'[s] = todo[s]
    PROVE  Listed(s)'
<1>1. CASE pc[s] \in {"receipt", "update", "mark_synced"}
  <2>1. num[s] \in Numbers /\ Stored(num[s])
    BY <1>1 DEF IInv, TypeOK, Tracked, Inserted, ReceiptLabels
  <2>2. MissingReceipts(num[s])' \subseteq MissingReceipts(num[s])
    BY <2>1, MissingShrinks DEF MissingReceipts, Indexed
  <2> QED
    BY <2>2, PlacesStay DEF ReceiptsInv, Listed, IInv, TypeOK
<1>2. CASE pc[s] \notin {"receipt", "update", "mark_synced"}
  BY <1>2, PlacesStay DEF ReceiptsInv, Listed, IInv, TypeOK
<1> QED
  BY <1>1, <1>2

\* ... and one that leaves the loop, or has not reached it, needs none.
LEMMA ListedElsewhere ==
    ASSUME IInv, ReceiptsInv, [Next]_vars, NEW s \in Syncer,
           pc'[s] \notin {"receipt", "update", "mark_synced"}, todo'[s] \subseteq todo[s]
    PROVE  Listed(s)'
BY PlacesStay DEF ReceiptsInv, Listed, IInv, TypeOK

LEMMA ListedStep ==
    ASSUME IInv, RInv, FinalInv, ReceiptsInv, ~ReceiptMayLag, [Next]_vars, NEW s \in Syncer
    PROVE  Listed(s)'
<1>0. /\ pc \in [Syncer -> Labels] /\ num[s] \in Numbers /\ todo \in [Syncer -> SUBSET Tx]
      /\ got[s] \subseteq Tx \X Block /\ Places /\ SafeInserts /\ Listed(s)
  BY FinalSafe DEF IInv, TypeOK, FinalInv, ReceiptsInv
<1>1. CASE ListMissing(s)
  <2>1. /\ todo'[s] = MissingReceipts(num[s]) /\ UNCHANGED <<num, txs>>
        /\ pc'[s] = IF MissingReceipts(num[s]) = {} THEN "mark_synced" ELSE "receipt"
    BY <1>0, <1>1 DEF ListMissing, Loop, Goto, db
  <2>2. MissingReceipts(num[s])' = MissingReceipts(num[s])
    BY <2>1 DEF MissingReceipts, Indexed
  <2> QED
    BY <2>1, <2>2 DEF Listed, MissingReceipts, Indexed
<1>2. CASE FetchReceipt(s)
  <2>1. /\ UNCHANGED <<num, txs>> /\ pc[s] = "receipt"
        /\ \/ pc'[s] = "update" /\ UNCHANGED todo
           \/ pc'[s] = "mark_failed" /\ todo'[s] = {}
    BY <1>0, <1>2 DEF FetchReceipt, Leave, Goto, db
  <2>2. MissingReceipts(num[s])' = MissingReceipts(num[s])
    BY <2>1 DEF MissingReceipts, Indexed
  <2> QED
    BY <1>0, <2>1, <2>2 DEF Listed, Indexed
<1>3. ~ReceiptNotFound(s)
  <2>1. \A t \in NextOf(todo[s]) : t \in Tx /\ Indexed(t)
    BY <1>0 DEF NextOf, Listed
  <2> QED
    BY <2>1, IndexedMined DEF ReceiptNotFound
<1>4. CASE UpdateReceipt(s)
  <2>1. PICK r \in got[s] : /\ WriteReceipt(r[1], r[2])
                            /\ Loop(s, todo[s] \ {r[1]})
    BY <1>4 DEF UpdateReceipt
  <2>2. /\ pc[s] = "update" /\ UNCHANGED num
        /\ todo'[s] = todo[s] \ {r[1]}
        /\ pc'[s] = IF todo'[s] = {} THEN "mark_synced" ELSE "receipt"
    BY <1>0, <1>4, <2>1 DEF UpdateReceipt, Loop, Goto
  <2>3. Stored(num[s])
    BY <2>2 DEF IInv, Tracked, Inserted, ReceiptLabels
  <2>4. /\ MissingReceipts(num[s])' \subseteq MissingReceipts(num[s])
        /\ r[1] \notin MissingReceipts(num[s])'
    BY <1>0, <2>1, <2>2, <2>3, MissingShrinks DEF MissingReceipts, Indexed
  <2>5. MissingReceipts(num[s])' \subseteq todo'[s]
    BY <1>0, <2>2, <2>4 DEF Listed
  <2>6. \A t \in todo'[s] : Indexed(t)'
    BY <1>0, <2>2, PlacesStay DEF Listed
  <2> QED
    BY <2>2, <2>5, <2>6 DEF Listed
<1>5. CASE Fail(s) \/ LostReply(s)
  <2>1. pc'[s] \in {"failed", "mark_failed"} /\ todo'[s] = {}
    BY <1>0, <1>5 DEF Fail, LostReply, Leave, Goto
  <2> QED
    BY <2>1, ListedElsewhere
<1>6. CASE \/ FetchBlock(s) \/ CheckRow(s) \/ CheckParent(s) \/ CheckTxs(s) \/ Insert(s)
           \/ MarkSynced(s) \/ MarkFailed(s) \/ Return(s) \/ \E n \in Numbers : Call(s, n)
  <2>1. pc'[s] \notin {"receipt", "update", "mark_synced"} /\ todo'[s] = todo[s]
    BY <1>0, <1>6 DEF FetchBlock, CheckRow, CheckParent, CheckTxs, Insert, MarkSynced,
                      MarkFailed, Return, Call, Goto
  <2> QED
    BY <2>1, ListedElsewhere
<1>7. ASSUME NEW u \in Syncer, SyncStep(u) \/ Return(u) \/ \E n \in Numbers : Call(u, n),
             u # s
      PROVE  Listed(s)'
  <2>1. pc'[s] = pc[s] /\ num'[s] = num[s] /\ todo'[s] = todo[s]
    BY <1>0, <1>7 DEF SyncStep, Call, Return, FetchBlock, CheckRow, CheckParent, CheckTxs,
       Insert, ListMissing, FetchReceipt, ReceiptNotFound, UpdateReceipt, MarkSynced,
       MarkFailed, Fail, LostReply, Loop, Leave, Goto, IInv, TypeOK
  <2> QED
    BY <1>0, <2>1, ListedBystander DEF ReceiptsInv
<1>8. CASE Crash
  <2>1. pc'[s] = "idle" /\ todo'[s] = {}
    BY <1>8 DEF Crash
  <2> QED
    BY <2>1, ListedElsewhere
<1>9. CASE NodeStep \/ UNCHANGED vars
  <2>1. pc'[s] = pc[s] /\ num'[s] = num[s] /\ todo'[s] = todo[s]
    BY <1>9 DEF NodeStep, local, vars
  <2> QED
    BY <1>0, <2>1, ListedBystander
<1>10. CASE Next
  BY <1>1, <1>2, <1>3, <1>4, <1>5, <1>6, <1>7, <1>8, <1>9, <1>10 DEF Next, SyncStep
<1> QED
  BY <1>9, <1>10

LEMMA CompletedReceiptsStep ==
    ASSUME IInv, RInv, FinalInv, ReceiptsInv, Places', [Next]_vars
    PROVE  CompletedHasReceipts'
<1> SUFFICES ASSUME NEW n \in Numbers, Completed(n)'
             PROVE  MissingReceipts(n)' = {}
  BY DEF CompletedHasReceipts, MissingReceipts
<1>0. Places /\ SafeInserts
  BY FinalSafe DEF FinalInv
<1>1. CASE Completed(n)
  <2>1. MissingReceipts(n) = {} /\ Stored(n)
    BY <1>1 DEF ReceiptsInv, CompletedHasReceipts, MissingReceipts, Completed
  <2> QED
    BY <1>0, <2>1, MissingShrinks
<1>2. CASE ~Completed(n)
  <2>1. PICK s \in Syncer :
          /\ num[s] = n
          /\ \/ pc[s] = "mark_synced" /\ MarksAt(s)
             \/ InsertsAt(s) /\ ~Stored(n) /\ BlockTxs(blk[s]) = {}
    BY <1>2, CompletedSteps
  <2>2. CASE pc[s] = "mark_synced" /\ MarksAt(s)
    <3>1. MissingReceipts(n) = {} /\ Stored(n)
      BY <2>1, <2>2 DEF ReceiptsInv, Listed, MarksAt
    <3> QED
      BY <1>0, <3>1, MissingShrinks
  <2>3. CASE InsertsAt(s) /\ ~Stored(n) /\ BlockTxs(blk[s]) = {}
    <3>1. blocks'[n].hash = blk[s]
      BY <1>0, <2>1, <2>3, SafeInsertStep DEF InsertsAt, SafeInserts, Inserts, InsertBlock,
         InsertedRow, IInv, TypeOK
    <3>2. ASSUME NEW t \in Tx, Indexed(t)', NumberOf[txs'[t].block] = n
          PROVE  FALSE
      <4>1. txs'[t].block = blk[s]
        BY <3>1, <3>2 DEF Places, TxBelongsToRow
      <4>2. t \in BlockTxs(txs'[t].block)
        BY <3>2 DEF Places, TxOfItsBlock
      <4> QED
        BY <2>3, <4>1, <4>2
    <3> QED
      BY <3>2 DEF MissingReceipts
  <2> QED
    BY <2>1, <2>2, <2>3
<1> QED
  BY <1>1, <1>2

LEMMA ReceiptsStep ==
    ASSUME IInv, RInv, FinalInv, FinalInv', ReceiptsInv, ~ReceiptMayLag, [Next]_vars
    PROVE  ReceiptsInv'
<1>1. \A s \in Syncer : Listed(s)'
  BY ListedStep
<1>2. CompletedHasReceipts'
  BY CompletedReceiptsStep DEF FinalInv
<1> QED
  BY <1>1, <1>2 DEF ReceiptsInv

LEMMA InitReceipts == Init => ReceiptsInv
BY DEF Init, ReceiptsInv, CompletedHasReceipts, Listed, Completed, NoBlockRow

\* A completed block has the receipts of all its transactions, for any number
\* of concurrent syncs, if the chain only grows and the node has the receipt
\* of what it has mined (SyncBlockTransactionReceipts, then the mark).
THEOREM GrowingCompletedHasReceipts ==
    ASSUME FinalDepth = 0, ~ReceiptMayLag
    PROVE  Spec => []CompletedHasReceipts
<1>1. /\ IInv /\ RInv /\ FinalInv /\ FinalInv' /\ ReceiptsInv /\ [Next]_vars
      => ReceiptsInv'
  BY ReceiptsStep
<1>2. ReceiptsInv => CompletedHasReceipts
  BY DEF ReceiptsInv
<1> QED
  BY Invariance, ReceiptInvariance, GrowingInvariance, InitReceipts, <1>1, <1>2, PTL DEF Spec
=============================================================================
