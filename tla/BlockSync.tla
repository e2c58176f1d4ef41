------------------------------ MODULE BlockSync ------------------------------
(***************************************************************************)
(* Synchronisation of single blocks into the database:                     *)
(* BlockService.SyncBlockToDB with every call it makes on the node, on     *)
(* TxService and on the two repositories.                                  *)
(*                                                                         *)
(* The runner goroutine and the HTTP handlers run in one process and share *)
(* the database without a lock, so any number of calls of SyncBlockToDB    *)
(* interleave: each is a "syncer", and each RPC call or SQL statement (the *)
(* insert is one SQL transaction) is one action.                           *)
(***************************************************************************)
EXTENDS ChainNode

CONSTANTS
    Syncer,         \* concurrent callers of SyncBlockToDB
    StartBlock,     \* INDEXER_START_BLOCK
    ReceiptMayLag   \* may the node know a mined transaction, but not yet
                    \* its receipt?

ASSUME SyncAssumption ==
    /\ StartBlock \in Nat
    /\ ReceiptMayLag \in BOOLEAN

VARIABLES
    blocks,   \* table blocks: number -> row
    txs,      \* table transactions: hash -> row
    pc,       \* syncer -> the next call it makes, or how it ended
    num,      \* syncer -> argument of SyncBlockToDB
    blk,      \* syncer -> the block the node answered
    todo,     \* syncer -> transactions whose receipt is still to be fetched
    got       \* syncer -> the fetched, validated receipt: {<<transaction,
              \* block of the receipt>>}, or {}

db == <<blocks, txs>>
local == <<pc, num, blk, todo, got>>
vars == <<chain, blocks, txs, pc, num, blk, todo, got>>

Outcomes == {"ok", "reorg", "discontinuity", "conflict", "failed"}

Calling == {"fetch", "check_row", "check_parent", "check_txs", "insert",
            "list", "receipt", "update", "mark_synced", "mark_failed"}

Labels == {"idle"} \cup Calling \cup Outcomes

\* The calls made after the block is inserted.
ReceiptLabels == {"list", "receipt", "update", "mark_synced", "mark_failed"}

-----------------------------------------------------------------------------
(* The tables.  A missing row has hash (or block) NoBlock.  The columns of *)
(* a row that only copy the block or the transaction are functions of the  *)
(* hash and are not repeated; the receipt columns of a transaction are the *)
(* block of the receipt they were taken from.                              *)

Status == {"pending", "transactions_synced", "receipts_failed", "completed"}

BlockRow == [hash : Block \cup {NoBlock}, status : Status,
             txsSynced : BOOLEAN, receiptsSynced : BOOLEAN,
             lastError : BOOLEAN]

TxRow == [block : Block \cup {NoBlock}, receipt : Block \cup {NoBlock}]

NoBlockRow == [hash |-> NoBlock, status |-> "pending", txsSynced |-> FALSE,
               receiptsSynced |-> FALSE, lastError |-> FALSE]

NoTxRow == [block |-> NoBlock, receipt |-> NoBlock]

Stored(n) == blocks[n].hash # NoBlock

Indexed(t) == txs[t].block # NoBlock

Completed(n) ==
    /\ Stored(n)
    /\ blocks[n].status = "completed"
    /\ blocks[n].txsSynced
    /\ blocks[n].receiptsSynced
    /\ ~blocks[n].lastError

-----------------------------------------------------------------------------
(* The checks of validateBlockForSync and validateTransactionsForSync.     *)

\* The row at the block's number is that block.
\* Mutant: a row with the number is enough.
KnownByNumber(b) == Stored(NumberOf[b])

Known(b) == blocks[NumberOf[b]].hash = b

\* Mutant: the parent hash is not compared.
ParentAcceptsAny(b) == Stored(NumberOf[b] - 1)

ParentAccepts(b) == blocks[NumberOf[b] - 1].hash = ParentOf[b]

\* Mutant: a missing parent is accepted wherever a sync starts.
MayLackParentAlways(n) == TRUE

MayLackParent(n) == n = StartBlock

\* A block above 0 without a row of its own may follow what is stored.
Linkable(b) == IF Stored(NumberOf[b] - 1)
               THEN ParentAccepts(b) ELSE MayLackParent(NumberOf[b])

\* The row of t was taken from the same block, hence has the same number,
\* hash and index.
\* Mutant: the index alone is compared.
SamePlaceByIndex(t, b) == TxIndex[txs[t].block][t] = TxIndex[b][t]

SamePlace(t, b) == txs[t].block = b

Conflicts(b) == {t \in BlockTxs(b) : Indexed(t) /\ ~SamePlace(t, b)}

-----------------------------------------------------------------------------
(* What the SQL statements write.                                          *)

InsertedRow(b) ==
    [hash |-> b,
     status |-> IF BlockTxs(b) = {} THEN "completed" ELSE "transactions_synced",
     txsSynced |-> TRUE,
     receiptsSynced |-> BlockTxs(b) = {},
     lastError |-> FALSE]

\* Mutant: the insert overwrites a row that is there (ON CONFLICT UPDATE).
UpsertBlock(b) == [blocks EXCEPT ![NumberOf[b]] = InsertedRow(b)]

\* INSERT ... ON CONFLICT DO NOTHING.
InsertBlock(b) ==
    IF Stored(NumberOf[b]) THEN blocks
    ELSE [blocks EXCEPT ![NumberOf[b]] = InsertedRow(b)]

\* Mutant: the last transaction of the block is left out.
InsertAllButOne(b) ==
    [t \in Tx |->
        IF /\ t \in BlockTxs(b) /\ ~Indexed(t)
           /\ \E u \in BlockTxs(b) : TxIndex[b][u] > TxIndex[b][t]
        THEN [block |-> b, receipt |-> NoBlock] ELSE txs[t]]

InsertTxs(b) ==
    [t \in Tx |-> IF t \in BlockTxs(b) /\ ~Indexed(t)
                  THEN [block |-> b, receipt |-> NoBlock] ELSE txs[t]]

\* Mutant: the error of an earlier attempt is not cleared.
MarkSyncedKeepsError(n) ==
    [blocks EXCEPT ![n].receiptsSynced = TRUE, ![n].status = "completed"]

MarkReceiptsSynced(n) ==
    [blocks EXCEPT ![n].receiptsSynced = TRUE, ![n].status = "completed",
                   ![n].lastError = FALSE]

\* Mutant: a status the model does not declare.
MarkFailedUnknownStatus(n) ==
    [blocks EXCEPT ![n].receiptsSynced = FALSE, ![n].status = "failed",
                   ![n].lastError = TRUE]

MarkReceiptsSyncFailed(n) ==
    [blocks EXCEPT ![n].receiptsSynced = FALSE,
                   ![n].status = "receipts_failed", ![n].lastError = TRUE]

\* ListTransactionsMissingReceiptByBlockNumber.
\* Mutant: only the first transaction is listed.
MissingReceiptsFirst(n) ==
    {t \in Tx : /\ Indexed(t) /\ txs[t].receipt = NoBlock
                /\ NumberOf[txs[t].block] = n
                /\ TxIndex[txs[t].block][t] = 0}

MissingReceipts(n) ==
    {t \in Tx : /\ Indexed(t) /\ txs[t].receipt = NoBlock
                /\ NumberOf[txs[t].block] = n}

\* The transactions of todo the loop may be at: ORDER BY tx_index.
NextOf(S) ==
    {t \in S : \A u \in S : TxIndex[txs[t].block][t] <= TxIndex[txs[u].block][u]}

\* validateReceiptMatchesTransaction: hash, block number and block hash.
\* Mutant: the block hash is not compared.
ReceiptMatchesNumber(t, b) == NumberOf[b] = NumberOf[txs[t].block]

ReceiptMatches(t, b) == b = txs[t].block

-----------------------------------------------------------------------------
(* Control of a syncer.                                                    *)

Goto(s, l) == pc' = [pc EXCEPT ![s] = l]

\* The call leaves the receipt loop, or the function, with l.
Leave(s, l) ==
    /\ Goto(s, l)
    /\ todo' = [todo EXCEPT ![s] = {}]
    /\ got' = [got EXCEPT ![s] = {}]

\* Mutant: what is done stays on the list.
LoopKeepsDone(s, S) ==
    /\ Goto(s, IF todo[s] \cup S = {} THEN "mark_synced" ELSE "receipt")
    /\ todo' = [todo EXCEPT ![s] = @ \cup S]
    /\ got' = [got EXCEPT ![s] = {}]

\* The loop of SyncBlockTransactionReceipts goes on with the transactions S.
Loop(s, S) ==
    /\ Goto(s, IF S = {} THEN "mark_synced" ELSE "receipt")
    /\ todo' = [todo EXCEPT ![s] = S]
    /\ got' = [got EXCEPT ![s] = {}]

Init ==
    /\ NodeInit
    /\ blocks = [n \in Numbers |-> NoBlockRow]
    /\ txs = [t \in Tx |-> NoTxRow]
    /\ pc = [s \in Syncer |-> "idle"]
    /\ num = [s \in Syncer |-> 0]
    /\ blk = [s \in Syncer |-> NoBlock]
    /\ todo = [s \in Syncer |-> {}]
    /\ got = [s \in Syncer |-> {}]

\* SyncBlockToDB(n) is called.
Call(s, n) ==
    /\ pc[s] = "idle"
    /\ Goto(s, "fetch")
    /\ num' = [num EXCEPT ![s] = n]
    /\ UNCHANGED <<chain, db, blk, todo, got>>

\* getRawBlockByNumber answers a block.
FetchBlock(s) ==
    /\ pc[s] = "fetch"
    /\ HasBlock(num[s])
    /\ blk' = [blk EXCEPT ![s] = chain[num[s]]]
    /\ Goto(s, "check_row")
    /\ UNCHANGED <<chain, db, num, todo, got>>

\* The row with the number of the block is read: a known block passes, a
\* different one is a reorg, a new one is checked against its parent.
CheckRow(s) ==
    /\ pc[s] = "check_row"
    /\ \/ Known(blk[s]) /\ Goto(s, "check_txs")
       \/ Stored(num[s]) /\ ~Known(blk[s]) /\ Goto(s, "reorg")
       \/ /\ ~Stored(num[s])
          /\ Goto(s, IF num[s] = 0 THEN "check_txs" ELSE "check_parent")
    /\ UNCHANGED <<chain, db, num, blk, todo, got>>

CheckParent(s) ==
    /\ pc[s] = "check_parent"
    /\ Goto(s, IF Linkable(blk[s]) THEN "check_txs" ELSE "discontinuity")
    /\ UNCHANGED <<chain, db, num, blk, todo, got>>

\* The rows with the hashes of the block's transactions are read.
CheckTxs(s) ==
    /\ pc[s] = "check_txs"
    /\ Goto(s, IF Conflicts(blk[s]) = {} THEN "insert" ELSE "conflict")
    /\ UNCHANGED <<chain, db, num, blk, todo, got>>

\* InsertBlockWithTransactions commits; a block without transactions is done.
InsertRows(s) ==
    /\ blocks' = InsertBlock(blk[s])
    /\ txs' = InsertTxs(blk[s])

Insert(s) ==
    /\ pc[s] = "insert"
    /\ InsertRows(s)
    /\ Goto(s, IF BlockTxs(blk[s]) = {} THEN "ok" ELSE "list")
    /\ UNCHANGED <<chain, num, blk, todo, got>>

ListMissing(s) ==
    /\ pc[s] = "list"
    /\ Loop(s, MissingReceipts(num[s]))
    /\ UNCHANGED <<chain, db, num, blk>>

\* GetTransactionReceipt answers a receipt, and it is validated against the
\* transaction row; a receipt of another block ends the loop with an error.
FetchReceipt(s) ==
    /\ pc[s] = "receipt"
    /\ \E t \in NextOf(todo[s]) :
        /\ Mined(t)
        /\ IF ReceiptMatches(t, MinedIn(t))
           THEN /\ Goto(s, "update")
                /\ got' = [got EXCEPT ![s] = {<<t, MinedIn(t)>>}]
                /\ UNCHANGED todo
           ELSE Leave(s, "mark_failed")
    /\ UNCHANGED <<chain, db, num, blk>>

\* ErrTxReceiptNotFound: the transaction is skipped.
ReceiptNotFound(s) ==
    /\ pc[s] = "receipt"
    /\ \E t \in NextOf(todo[s]) :
        /\ ~Mined(t) \/ ReceiptMayLag
        /\ Loop(s, todo[s] \ {t})
    /\ UNCHANGED <<chain, db, num, blk>>

\* UpdateTransactionReceiptByHash.
WriteReceipt(t, b) == txs' = [txs EXCEPT ![t].receipt = b]

UpdateReceipt(s) ==
    /\ pc[s] = "update"
    /\ \E r \in got[s] :
        /\ WriteReceipt(r[1], r[2])
        /\ Loop(s, todo[s] \ {r[1]})
    /\ UNCHANGED <<chain, blocks, num, blk>>

\* The marks find the row by its number; no row is an error.
MarkSynced(s) ==
    /\ pc[s] = "mark_synced"
    /\ IF Stored(num[s])
       THEN blocks' = MarkReceiptsSynced(num[s]) /\ Goto(s, "ok")
       ELSE blocks' = blocks /\ Goto(s, "failed")
    /\ UNCHANGED <<chain, txs, num, blk, todo, got>>

MarkFailed(s) ==
    /\ pc[s] = "mark_failed"
    /\ blocks' = IF Stored(num[s]) THEN MarkReceiptsSyncFailed(num[s]) ELSE blocks
    /\ Goto(s, "failed")
    /\ UNCHANGED <<chain, txs, num, blk, todo, got>>

\* The call returns to its caller.
Return(s) ==
    /\ pc[s] \in Outcomes
    /\ Goto(s, "idle")
    /\ num' = [num EXCEPT ![s] = 0]
    /\ blk' = [blk EXCEPT ![s] = NoBlock]
    /\ UNCHANGED <<chain, db, todo, got>>

-----------------------------------------------------------------------------
(* What goes wrong: every call may fail (node or database unreachable, the *)
(* context cancelled or past its deadline, block not found, signature not  *)
(* recoverable), the reply of a write that committed may be lost, and the  *)
(* process may stop.                                                       *)

\* The call pc[s] fails without effect.  An error of the receipt loop is
\* marked on the block; any other is returned at once.
Fail(s) ==
    /\ pc[s] \in Calling
    /\ Leave(s, IF pc[s] \in {"list", "receipt", "update"}
                THEN "mark_failed" ELSE "failed")
    /\ UNCHANGED <<chain, db, num, blk>>

\* The write pc[s] commits, but an error is reported for it.
LostReply(s) ==
    /\ \/ pc[s] = "insert" /\ InsertRows(s) /\ Leave(s, "failed")
       \/ /\ pc[s] = "update" /\ UNCHANGED blocks
          /\ \E r \in got[s] : WriteReceipt(r[1], r[2])
          /\ Leave(s, "mark_failed")
       \/ /\ pc[s] = "mark_synced" /\ UNCHANGED txs
          /\ blocks' = MarkReceiptsSynced(num[s])
          /\ Leave(s, "failed")
    /\ UNCHANGED <<chain, num, blk>>

\* The process stops, at whatever point its goroutines are, and starts again.
Crash ==
    /\ pc' = [s \in Syncer |-> "idle"]
    /\ num' = [s \in Syncer |-> 0]
    /\ blk' = [s \in Syncer |-> NoBlock]
    /\ todo' = [s \in Syncer |-> {}]
    /\ got' = [s \in Syncer |-> {}]
    /\ UNCHANGED <<chain, db>>

-----------------------------------------------------------------------------
\* A step of a running call.
SyncStep(s) ==
    \/ FetchBlock(s) \/ CheckRow(s) \/ CheckParent(s) \/ CheckTxs(s)
    \/ Insert(s) \/ ListMissing(s) \/ FetchReceipt(s) \/ ReceiptNotFound(s)
    \/ UpdateReceipt(s) \/ MarkSynced(s) \/ MarkFailed(s)
    \/ Fail(s) \/ LostReply(s)

NodeStep == NewChain /\ UNCHANGED <<db, local>>

Next ==
    \/ \E s \in Syncer, n \in Numbers : Call(s, n)
    \/ \E s \in Syncer : SyncStep(s)
    \/ \E s \in Syncer : Return(s)
    \/ NodeStep
    \/ Crash

Spec == Init /\ [][Next]_vars

-----------------------------------------------------------------------------
TypeOK ==
    /\ NodeTypeOK
    /\ blocks \in [Numbers -> BlockRow]
    /\ txs \in [Tx -> TxRow]
    /\ pc \in [Syncer -> Labels]
    /\ num \in [Syncer -> Numbers]
    /\ blk \in [Syncer -> Block \cup {NoBlock}]
    /\ todo \in [Syncer -> SUBSET Tx]
    /\ got \in [Syncer -> SUBSET (Tx \X Block)]

\* The stored blocks form a chain: every block was stored on top of its
\* parent, whatever the node switched to and whoever else was writing
\* between the checks of validateBlockForSync and the insert.  Only at
\* StartBlock (and at 0) may the chain start.
Linked ==
    \A n \in Numbers :
        Stored(n) /\ n > 0 /\ n # StartBlock =>
            /\ Stored(n - 1)
            /\ ParentOf[blocks[n].hash] = blocks[n - 1].hash

\* Nothing the code runs rewrites what was recorded: not the block at a
\* number, not the block of a transaction, not a receipt already taken.
RowsImmutable ==
    [][/\ \A n \in Numbers : Stored(n) => blocks'[n].hash = blocks[n].hash
       /\ \A t \in Tx : Indexed(t) =>
            /\ txs'[t].block = txs[t].block
            /\ txs[t].receipt \in {NoBlock, txs'[t].receipt}]_vars

\* A receipt is recorded only on the transaction row of the block the
\* receipt is from, even when a reorg happened between the two reads.
ReceiptFromRow ==
    \A t \in Tx : txs[t].receipt \in {NoBlock, txs[t].block}

\* Every indexed transaction is one of the block recorded at its number.
TxBelongsToRow ==
    \A t \in Tx : Indexed(t) =>
        blocks[NumberOf[txs[t].block]].hash = txs[t].block

\* Every transaction of a recorded block is indexed under that block.
RowHasItsTxs ==
    \A n \in Numbers : Stored(n) =>
        \A t \in BlockTxs(blocks[n].hash) : txs[t].block = blocks[n].hash

\* A sync that reports success has recorded the block it fetched.
SyncOkMeansStored ==
    \A s \in Syncer : pc[s] = "ok" => blocks[num[s]].hash = blk[s]

\* A completed block has the receipts of all its transactions.
CompletedHasReceipts ==
    \A n \in Numbers : Completed(n) =>
        \A t \in Tx : Indexed(t) /\ NumberOf[txs[t].block] = n =>
            txs[t].receipt # NoBlock

\* The tables implement the abstract index: whatever the interleaving, each
\* statement is one of its steps or none.
Index == INSTANCE IndexedChain WITH
    TxsOf <- [b \in Block |-> BlockTxs(b)],
    ledger <- [n \in Numbers |-> blocks[n].hash],
    place <- [t \in Tx |-> txs[t].block],
    receipt <- [t \in Tx |-> txs[t].receipt],
    complete <- {n \in Numbers : Completed(n)}

ImplementsIndex == Index!Spec

=============================================================================
