------------------------- MODULE BlockSyncRefinement -------------------------
(***************************************************************************)
(* BlockSync implements IndexedChain, for any number of syncers, blocks,   *)
(* transactions and forks: a statement that writes is one step of the      *)
(* abstract index, and every other step leaves the index as it is.         *)
(***************************************************************************)
EXTENDS BlockSyncProofs

\* A row is written together with its transactions.
RowsTxsSynced == \A n \in Numbers : Stored(n) => blocks[n].txsSynced

Ledger == [n \in Numbers |-> blocks[n].hash]
Place == [t \in Tx |-> txs[t].block]
ReceiptOf == [t \in Tx |-> txs[t].receipt]
Complete == {n \in Numbers : Completed(n)}

-----------------------------------------------------------------------------
\* What a step does to the rows and to the transactions.
Inserts(b) ==
    /\ MayAdd(b)
    /\ blocks' = InsertBlock(b)
    /\ txs' = InsertTxs(b)

Takes(s) == UNCHANGED blocks /\ TakesReceipt(s)

MarksRow(n) ==
    /\ UNCHANGED txs
    /\ \/ Stored(n) /\ blocks' = MarkReceiptsSynced(n)
       \/ blocks' = MarkReceiptsSyncFailed(n)

\* The statement a call is about to run, and its effect.
InsertsAt(s) ==
    /\ pc[s] = "insert"
    /\ blk[s] \in Block /\ NumberOf[blk[s]] = num[s]
    /\ Inserts(blk[s])

TakesAt(s) == pc[s] = "update" /\ Takes(s)

MarksAt(s) ==
    /\ UNCHANGED txs
    /\ \/ /\ pc[s] = "mark_synced" /\ Stored(num[s])
          /\ blocks' = MarkReceiptsSynced(num[s])
       \/ /\ pc[s] = "mark_failed" /\ Stored(num[s])
          /\ blocks' = MarkReceiptsSyncFailed(num[s])

LEMMA WriteKinds ==
    ASSUME IInv, [Next]_vars
    PROVE  \/ UNCHANGED <<blocks, txs>>
           \/ \E s \in Syncer : InsertsAt(s) \/ TakesAt(s) \/ MarksAt(s)
<1>1. ASSUME NEW s \in Syncer, pc[s] = "insert", InsertRows(s)
      PROVE  InsertsAt(s)
  BY <1>1 DEF InsertsAt, Inserts, InsertRows, IInv, Tracked, Holding, Checked, Calling
<1>2. ASSUME NEW s \in Syncer, pc[s] = "update", UNCHANGED blocks,
             \E r \in got[s] : WriteReceipt(r[1], r[2])
      PROVE  TakesAt(s)
  BY <1>2 DEF TakesAt, Takes, TakesReceipt, WriteReceipt, IInv, TypeOK
<1>3. ASSUME NEW s \in Syncer, Insert(s)
      PROVE  InsertsAt(s)
  BY <1>1, <1>3 DEF Insert
<1>4. ASSUME NEW s \in Syncer, UpdateReceipt(s)
      PROVE  TakesAt(s)
  BY <1>2, <1>4 DEF UpdateReceipt
<1>5. ASSUME NEW s \in Syncer, MarkSynced(s) \/ MarkFailed(s)
      PROVE  UNCHANGED <<blocks, txs>> \/ MarksAt(s)
  BY <1>5 DEF MarkSynced, MarkFailed, MarksAt
<1>6. ASSUME NEW s \in Syncer, LostReply(s)
      PROVE  InsertsAt(s) \/ TakesAt(s) \/ MarksAt(s)
  <2>1. CASE pc[s] = "insert" /\ InsertRows(s)
    BY <2>1, <1>1
  <2>2. CASE /\ pc[s] = "update" /\ UNCHANGED blocks
             /\ \E r \in got[s] : WriteReceipt(r[1], r[2])
    BY <2>2, <1>2
  <2>3. CASE pc[s] = "mark_synced" /\ UNCHANGED txs /\ blocks' = MarkReceiptsSynced(num[s])
    <3>1. Stored(num[s])
      BY <2>3 DEF IInv, Tracked, Inserted, ReceiptLabels
    <3> QED
      BY <2>3, <3>1 DEF MarksAt
  <2> QED
    BY <1>6, <2>1, <2>2, <2>3 DEF LostReply
<1>7. ASSUME NEW s \in Syncer, SyncStep(s)
      PROVE  \/ UNCHANGED <<blocks, txs>>
             \/ InsertsAt(s) \/ TakesAt(s) \/ MarksAt(s)
  <2>1. CASE Insert(s) \/ UpdateReceipt(s) \/ MarkSynced(s) \/ MarkFailed(s) \/ LostReply(s)
    BY <2>1, <1>3, <1>4, <1>5, <1>6
  <2>2. CASE ~(Insert(s) \/ UpdateReceipt(s) \/ MarkSynced(s) \/ MarkFailed(s) \/ LostReply(s))
    BY <1>7, <2>2 DEF SyncStep, FetchBlock, CheckRow, CheckParent, CheckTxs, ListMissing,
                      FetchReceipt, ReceiptNotFound, Fail, db
  <2> QED
    BY <2>1, <2>2
<1>8. CASE Next
  <2>1. CASE \E s \in Syncer : SyncStep(s)
    BY <2>1, <1>7
  <2>2. CASE ~\E s \in Syncer : SyncStep(s)
    BY <1>8, <2>2 DEF Next, Call, Return, NodeStep, Crash, db
  <2> QED
    BY <2>1, <2>2
<1>9. CASE UNCHANGED vars
  BY <1>9 DEF vars
<1> QED
  BY <1>8, <1>9

\* The same, without the call that runs it.
LEMMA RowWrites ==
    ASSUME IInv, [Next]_vars
    PROVE  \/ UNCHANGED <<blocks, txs>>
           \/ \E b \in Block : Inserts(b)
           \/ \E s \in Syncer : Takes(s)
           \/ \E n \in Numbers : MarksRow(n)
BY WriteKinds DEF InsertsAt, TakesAt, MarksAt, MarksRow, IInv, TypeOK

LEMMA TxsSyncedStep ==
    ASSUME IInv, RowsTxsSynced, [Next]_vars
    PROVE  RowsTxsSynced'
<1>0. blocks \in [Numbers -> BlockRow]
  BY DEF IInv, TypeOK
<1>1. ASSUME NEW b \in Block, Inserts(b)
      PROVE  RowsTxsSynced'
  <2>1. NumberOf[b] \in Numbers
    BY NodeAssumption
  <2>2. InsertedRow(b).txsSynced = TRUE
    BY DEF InsertedRow
  <2> QED
    BY <1>0, <1>1, <2>1, <2>2 DEF Inserts, InsertBlock, RowsTxsSynced, Stored
<1>2. ASSUME NEW n \in Numbers, MarksRow(n)
      PROVE  RowsTxsSynced'
  BY <1>0, <1>2 DEF MarksRow, MarkReceiptsSynced, MarkReceiptsSyncFailed, BlockRow,
                    RowsTxsSynced, Stored
<1> QED
  BY <1>1, <1>2, RowWrites DEF Takes, RowsTxsSynced, Stored

-----------------------------------------------------------------------------
(* Each kind of write is a step of the index.                              *)

LEMMA InsertIsAdd ==
    ASSUME IInv, RInv, NEW b \in Block, Inserts(b)
    PROVE  Index!Add(b)
<1> DEFINE n == NumberOf[b]
<1>0. /\ blocks \in [Numbers -> BlockRow] /\ txs \in [Tx -> TxRow]
      /\ n \in Numbers /\ MayAdd(b) /\ NoBlock \notin Block
  BY NodeAssumption DEF IInv, TypeOK, Inserts
<1>1. Index!MayAdd(b)
  <2>1. n > 0 => n - 1 \in Numbers
    BY <1>0, NodeAssumption DEF Numbers
  <2> QED
    BY <1>0, <2>1 DEF Index!MayAdd, Index!Taken, MayAdd, Stored
<1>2. Ledger' = [Ledger EXCEPT ![n] = IF @ = NoBlock THEN b ELSE @]
  <2>1. CASE Stored(n)
    BY <1>0, <2>1 DEF Inserts, InsertBlock, Ledger, Stored
  <2>2. CASE ~Stored(n)
    <3>1. blocks' = [blocks EXCEPT ![n] = InsertedRow(b)] /\ InsertedRow(b).hash = b
      BY <2>2 DEF Inserts, InsertBlock, InsertedRow
    <3> QED
      BY <1>0, <2>2, <3>1 DEF Ledger, Stored
  <2> QED
    BY <2>1, <2>2
<1>3. /\ Place' = [t \in Tx |-> IF t \in BlockTxs(b) /\ Place[t] = NoBlock
                                THEN b ELSE Place[t]]
      /\ ReceiptOf' = ReceiptOf
  <2>1. txs' = InsertTxs(b)
    BY DEF Inserts
  <2>2. \A t \in Tx : txs'[t] = IF t \in BlockTxs(b) /\ ~Indexed(t)
                                THEN [block |-> b, receipt |-> NoBlock] ELSE txs[t]
    BY <2>1 DEF InsertTxs
  <2>3. \A t \in Tx : ~Indexed(t) => txs[t].receipt = NoBlock
    BY DEF RInv, ReceiptFromRow, Indexed
  <2> QED
    BY <2>2, <2>3 DEF Place, ReceiptOf, Indexed
<1>4. Complete' = IF BlockTxs(b) = {} /\ ~(Ledger[n] # NoBlock)
                  THEN Complete \cup {n} ELSE Complete
  <2>1. CASE Stored(n)
    <3>1. blocks' = blocks
      BY <1>0, <2>1 DEF Inserts, InsertBlock
    <3> QED
      BY <1>0, <2>1, <3>1 DEF Complete, Completed, Ledger, Stored
  <2>2. CASE ~Stored(n)
    <3>1. blocks' = [blocks EXCEPT ![n] = InsertedRow(b)]
      BY <2>2 DEF Inserts, InsertBlock
    <3>2. \A m \in Numbers \ {n} : Completed(m)' <=> Completed(m)
      BY <1>0, <3>1 DEF Completed, Stored
    <3>3. ~Completed(n)
      BY <2>2 DEF Completed
    <3>4. Completed(n)' <=> BlockTxs(b) = {}
      BY <1>0, <3>1 DEF Completed, Stored, InsertedRow
    <3> QED
      BY <1>0, <2>2, <3>2, <3>3, <3>4 DEF Complete, Ledger, Stored
  <2> QED
    BY <2>1, <2>2
<1> QED
  BY <1>0, <1>1, <1>2, <1>3, <1>4
     DEF Index!Add, Index!Taken, Ledger, Place, ReceiptOf, Complete

LEMMA TakeIsTakeReceipt ==
    ASSUME IInv, RInv, NEW s \in Syncer, Takes(s)
    PROVE  \E t \in Tx : Index!TakeReceipt(t)
<1>0. txs \in [Tx -> TxRow] /\ UNCHANGED blocks
  BY DEF IInv, TypeOK, Takes
<1>1. PICK r \in got[s] : /\ r \in Tx \X Block
                          /\ txs' = [txs EXCEPT ![r[1]].receipt = r[2]]
  BY DEF Takes, TakesReceipt
<1>2. r[1] \in Tx /\ Indexed(r[1]) /\ txs[r[1]].block = r[2]
  BY <1>1 DEF RInv, GotMatches
<1>3. Ledger' = Ledger /\ Complete' = Complete
  BY <1>0 DEF Ledger, Complete, Completed, Stored
<1>4. Place' = Place /\ ReceiptOf' = [ReceiptOf EXCEPT ![r[1]] = Place[r[1]]]
  <2>1. \A t \in Tx : /\ txs'[t].block = txs[t].block
                      /\ txs'[t].receipt = IF t = r[1] THEN r[2] ELSE txs[t].receipt
    BY <1>0, <1>1, <1>2 DEF TxRow
  <2> QED
    BY <1>2, <2>1 DEF Place, ReceiptOf
<1>5. Index!TakeReceipt(r[1])
  BY <1>2, <1>3, <1>4
     DEF Index!TakeReceipt, Indexed, Ledger, Place, ReceiptOf, Complete
<1> QED
  BY <1>2, <1>5

LEMMA MarkIsCompleteOrDemote ==
    ASSUME IInv, RowsTxsSynced, NEW n \in Numbers, MarksRow(n)
    PROVE  Index!Complete(n) \/ Index!Demote(n)
<1>0. blocks \in [Numbers -> BlockRow] /\ UNCHANGED txs
  BY DEF IInv, TypeOK, MarksRow
<1>1. Ledger' = Ledger /\ Place' = Place /\ ReceiptOf' = ReceiptOf
  BY <1>0 DEF MarksRow, MarkReceiptsSynced, MarkReceiptsSyncFailed, BlockRow, Ledger,
              Place, ReceiptOf
<1>2. \A m \in Numbers \ {n} : Completed(m)' <=> Completed(m)
  BY <1>0 DEF MarksRow, MarkReceiptsSynced, MarkReceiptsSyncFailed, Completed, Stored
<1>3. CASE Stored(n) /\ blocks' = MarkReceiptsSynced(n)
  <2>1. Completed(n)'
    BY <1>0, <1>3 DEF MarkReceiptsSynced, Completed, Stored, RowsTxsSynced, BlockRow
  <2>2. Complete' = Complete \cup {n}
    BY <1>2, <2>1 DEF Complete
  <2> QED
    BY <1>1, <1>3, <2>2
       DEF Index!Complete, Index!Taken, Ledger, Place, ReceiptOf, Complete, Stored
<1>4. CASE blocks' = MarkReceiptsSyncFailed(n)
  <2>1. ~Completed(n)'
    BY <1>0, <1>4 DEF MarkReceiptsSyncFailed, Completed, BlockRow
  <2>2. Complete' = Complete \ {n}
    BY <1>2, <2>1 DEF Complete
  <2> QED
    BY <1>1, <2>2 DEF Index!Demote, Ledger, Place, ReceiptOf, Complete
<1> QED
  BY <1>3, <1>4 DEF MarksRow

-----------------------------------------------------------------------------
LEMMA InitIndex == Init => Index!Init
BY DEF Init, NoBlockRow, NoTxRow, Index!Init, Completed, Stored

LEMMA StepIndex ==
    ASSUME IInv, RInv, RowsTxsSynced, [Next]_vars
    PROVE  [Index!Next]_(Index!ivars)
<1>1. CASE UNCHANGED <<blocks, txs>>
  BY <1>1 DEF Index!ivars, Completed, Stored
<1>2. ASSUME NEW b \in Block, Inserts(b)
      PROVE  Index!Next
  BY <1>2, InsertIsAdd DEF Index!Next
<1>3. ASSUME NEW s \in Syncer, Takes(s)
      PROVE  Index!Next
  BY <1>3, TakeIsTakeReceipt DEF Index!Next
<1>4. ASSUME NEW n \in Numbers, MarksRow(n)
      PROVE  Index!Next
  BY <1>4, MarkIsCompleteOrDemote DEF Index!Next
<1> QED
  BY <1>1, <1>2, <1>3, <1>4, RowWrites

LEMMA TxsSyncedInvariance == Spec => []RowsTxsSynced
<1>1. Init => RowsTxsSynced
  BY DEF Init, RowsTxsSynced, Stored, NoBlockRow
<1>2. IInv /\ RowsTxsSynced /\ [Next]_vars => RowsTxsSynced'
  BY TxsSyncedStep
<1> QED
  BY Invariance, <1>1, <1>2, PTL DEF Spec

\* Every behaviour of the synchronisation is one of the abstract index: a
\* block is added only on top of what is there, nothing is removed, and a
\* receipt is of the transaction's own block (SyncBlockToDB and every
\* statement it runs).
THEOREM Refinement == Spec => ImplementsIndex
<1>1. IInv /\ RInv /\ RowsTxsSynced /\ [Next]_vars => [Index!Next]_(Index!ivars)
  BY StepIndex
<1> QED
  BY Invariance, ReceiptInvariance, TxsSyncedInvariance, InitIndex, <1>1, PTL
     DEF Spec, ImplementsIndex, Index!Spec
=============================================================================
