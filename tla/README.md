# Verification of block-explorer-backend

TLA+ models of the block explorer backend (a Go service that indexes one
Ethereum chain into PostgreSQL), checked with TLC on small instances and, for
nearly every safety property, proved with TLAPS for every value of the
constants. Paths below are
relative to the repository's `src/`; `BS` abbreviates
`internal/service/block_service.go`, `TS` `tx_service.go` and `AS`
`address_service.go` beside it, `BR` and `TR` `internal/db/repo/block_repo.go` and
`tx_repo.go`.

## 1. The system

One process holds a background goroutine (the indexer runner) and the HTTP
handlers. They share the two tables and nothing else: no lock, no in-memory
state, no SQL transaction beyond the single insert. Everything the program
knows is read again from the database or from the node on every call.

| component | state | operations | correct when |
|---|---|---|---|
| block synchronisation (`BS`, `TS`) | rows of `blocks` and `transactions`; the locals of each running call | `SyncBlockToDB`, `SyncBlockTransactionReceipts` | the stored blocks form one chain, transactions and receipts are of the stored blocks, nothing recorded is rewritten, success means recorded |
| repositories (`BR`, `TR`) | the tables | insert of a block with its transactions (one SQL transaction, `ON CONFLICT DO NOTHING`), updates of receipts and of the sync status, reads | as above |
| indexer (`internal/indexer`) | none; the cursor is `MAX(number)` over completed rows | `GetNextBlockToSync`, `RunIndexerOnce`, the loop of `Runner.Start` | every block is completed, in order, once; none is skipped |
| node and RPC layer (`internal/rpc`) | the node's canonical chain (external) | block by number, number by tag, receipt by hash, ... | external: may grow, reorganise, fall behind, fail |
| manual range sync (`BS`, `block_controller.go`) | the loop of one request | `SyncBlockRangeToDB` | at most 100 calls, an honest report, an answer |
| wallet reads (`wallet_internal_service.go`) | none | `ListCompletedBlocks` (two queries), `GetSyncStatus` | pages are whole, contiguous, and contain what was reported |
| block, transaction, address queries | none | `GetBlockByNumber` (database first), `GetTxDetailByHashFromRPC`, `GetIndexedTransactionByHash`, `GetAddress`, pages of an address's transactions | database and node tell one chain, nothing told is denied later, pages miss nothing |
| HTTP, mappers, errors, configuration, bootstrap | none | routing, conversion, shutdown | field by field copies; shutdown stops everything wherever it is |

How they interact: the runner calls `RunIndexerOnce` in a loop, each with a
deadline; `POST /internal/indexer/run-once` calls the same function from a handler;
`POST /internal/blocks/sync/:number` and `POST /internal/blocks/sync` call `SyncBlockToDB` with any
number. `SyncBlockToDB` makes, in this order, these calls: node (block),
database (row with the number), database (parent row), database (rows with the
hashes of its transactions), database (insert), database (transactions without
receipt), for each of them node (receipt) and database (update), database (mark
completed, or mark failed). Between any two of them the node may switch to
another chain, another caller may run, the deadline may pass or the process may
stop.

What is hard, and hard to test:

- check and act are separate calls: what `validateBlockForSync` read may be
  out of date when the insert runs;
- `ON CONFLICT DO NOTHING` decides row by row, not for the block as a whole;
- the marks find a row by number, not by hash or attempt;
- a reorg between the insert of a block and the fetch of its receipts;
- the cursor is a maximum: what is below it is never looked at again;
- errors, deadlines, lost replies and restarts at every step, and progress in
  spite of them;
- `uint64` arithmetic at the end of the range;
- a wallet page is read by two queries while rows are written and completed;
- a call that gives up does not stop its write: the database may commit it in the
  middle of a later sync;
- the public reads answer from two sources, the database and the node, which move
  independently, and turn the pages of a list that grows at its head.

`PROJECT.json` lists each hazard with its line and the properties that cover it.

## 2. Modules

| module | models | composes |
|---|---|---|
| `ChainNode` | the node as the code uses it | |
| `BlockSync` | `SyncBlockToDB` with all it calls, any number of concurrent callers | extends `ChainNode` |
| `IndexedChain` | the abstract index: what the tables promise | |
| `Indexer` | `RunIndexerOnce`, the runner, run-once and manual callers | extends `BlockSync` |
| `CompletedLog` | the abstract indexer: an append-only log of completed blocks | |
| `LateWrites` | the indexer when writes outlive the calls that gave them up | extends `Indexer` |
| `WalletReader` | the wallet-facing reads next to the indexer | extends `Indexer` |
| `ApiErrors` | from an error to the status of an answer | |
| `ExplorerReader` | the public reads next to the indexer | extends `Indexer`, `ApiErrors` |
| `RangeSync` | `SyncBlockRangeToDB`, next to other syncs | extends `BlockSync` |
| `BlockSyncProofs` | invariants of `BlockSync`, proved | extends `BlockSync` |
| `BlockSyncRefinement` | `BlockSync` implements `IndexedChain`, proved | extends `BlockSyncProofs` |
| `BlockSyncPlaces` | blocks and transactions agree, proved | extends `BlockSyncRefinement` |
| `IndexerProofs` | order, finality and the log of the indexer, proved | extends `Indexer`, `BlockSyncPlaces` |
| `LateWritesProofs` | what late writes cannot break, proved | extends `LateWrites`, `IndexerProofs` |
| `WalletProofs` | the pages of the wallet, proved | extends `WalletReader`, `IndexerProofs` |
| `ExplorerProofs` | the public reads, proved | extends `ExplorerReader`, `IndexerProofs` |
| `RangeProofs` | bound and report of a range, proved | extends `RangeSync`, `BlockSyncPlaces` |
| `MCBlockSync`, `MCIndexer`, `MCLateWrites`, `MCWalletReader`, `MCExplorer`, `MCRangeSync` | the instances TLC checks | |
| `MCForks` | the blocks and forks shared by all instances but `MCBlockSync`'s | |

### ChainNode

A block is its hash. Its number, parent and transactions (with positions) are
functions of the hash, given by the constants `NumberOf`, `ParentOf`, `TxIndex`.
The node serves one canonical chain out of `Chains`, and `NewChain` replaces it
by any other: growth, reorg, or an endpoint that falls behind. `FinalDepth`
limits what a reorg may touch; above `MaxNumber` it limits nothing, 0 means that
the chain only grows. `Lag` is the distance of the sync target
(`latest`/`safe`/`finalized`) from the head. The same transaction may be mined in
blocks of two forks, at two positions.

### BlockSync

`blocks` and `txs` are the two tables. A row keeps the columns the code decides
on: hash, status, the two flags and whether there is an error for a block; the
block and the block of the receipt for a transaction. All other columns are
copies of the block or transaction and hence functions of the hash. For each
syncer (a running call of `SyncBlockToDB`), `pc` is the next call it will make,
`num`, `blk`, `todo` and `got` are its locals.

| action | code |
|---|---|
| `Call`, `Return` | the call, and its return to the caller |
| `FetchBlock` | `getRawBlockByNumber` |
| `CheckRow`, `CheckParent` | the two reads of `validateBlockForSync` and its decisions |
| `CheckTxs` | `validateTransactionsForSync` |
| `Insert` | `InsertBlockWithTransactions`: both `INSERT`s, one SQL transaction |
| `ListMissing` | `ListTransactionsMissingReceiptByBlockNumber` |
| `FetchReceipt`, `ReceiptNotFound` | the receipt from the node, validated; or skipped |
| `UpdateReceipt` | `UpdateTransactionReceiptByHash` |
| `MarkSynced`, `MarkFailed` | the marks at the end |
| `Fail` | the pending call fails without effect: unreachable, deadline, cancelled, not found, sender not recoverable |
| `LostReply` | the pending write commits but its caller gets an error |
| `Crash` | the process stops and starts again; only the tables survive |
| `NodeStep` | the node switches chains |

### IndexedChain

What the tables promise, without the calls: blocks are added on top of what is
there (or at 0, or at the start block), never removed or replaced; a transaction
gets a place once and a receipt of that place; blocks become complete, and may
lose that standing. `BlockSync!Index` is the refinement mapping.

### Indexer, CompletedLog, WalletReader, RangeSync

`Indexer` splits `RunIndexerOnce` into its two reads (`ReadProgress` from the
database, then `ReadTarget` from the node) and the sync. `Runner`, `RunOnce` and
`Manual` say which syncers are driven by the loop, by a run-once request and by a
manual sync.

`CompletedLog` is what a reader of completed blocks relies on: one block at a
time is appended to a log, on top of its parent, and nothing is taken back.
`Indexer!Log` maps the completed rows to it. The runner alone implements it
although it needs a dozen calls per block; with a second caller it does not
(finding 2).

`WalletReader` adds one wallet that asks for pages and for the status. A page is
read in two steps, and the transactions are handed to the blocks by number, as in
the code. The limit of a request is 1..`MaxLimit`; larger ones are refused by the
controller before they reach the service.

`RangeSync` adds the loop of a range request with arithmetic modulo
`MaxNumber + 1`, so that `MaxNumber` plays the part of 2^64-1.

### LateWrites

In `BlockSync` a write has landed, or will never, when its call returns. Over a
network that is not so: when the context of a call ends while its `COMMIT` is in
flight, the call returns an error at once and the database executes the `COMMIT`
later, after newer reads and even after a restart of the program, or rolls back.
`Abandon(s)` is such a call, `late` the writes in flight, `Land` and `Drop` their
end. The insert is an explicit transaction (`BR:82`), and every update runs in
gorm's default transaction (`SkipDefaultTransaction` is not set in
`internal/db/postgres.go`), so a statement without its `COMMIT` has no effect. A
transaction with its `COMMIT` in flight still holds the rows it wrote
(`Locks`), and a write of one of them waits (`Free`): in the model it can only
fail in the meantime. These two are PostgreSQL's, not the program's, and are
marked external.

### ExplorerReader, ApiErrors

One client of the public API makes one request at a time and remembers what it
was told. Each request is split at its calls:

| action | code |
|---|---|
| `GetBlock`, `ReadBlockRow`, `AskBlock` | `GET /block/:number`: the database, else the node |
| `GetIndexedTransaction`, `ReadTxRow` | `GET /indexed/tx/:hash`: the database |
| `GetTxDetail`, `AskTransaction`, `AskReceipt` | `GET /tx/:hash`: two calls on the node |
| `ListPage`, `ReadPage` | `GET /indexed/address/:address/transactions`: one query with `LIMIT` and `OFFSET` |
| `CallFails` | the pending call fails; `ApiErrors!MapError` gives the status |
| `Done` | the client has its answer and may ask again |
| `ERestart` | the request dies with the process, the client keeps what it knows |

`known` is the client's memory, not the program's (a block or a place that it was
told, or the pages it is walking through, one thing at a time): it lets
the properties compare an answer with earlier ones. The offset is computed in
`int` arithmetic (`AsInt`) with `MaxInt` in the part of 2^63-1; an offset that is
not positive is left out of the statement, as gorm does. An address is a
value with a set of transactions it is party to (`PartiesOf`). `ApiErrors` keeps
the wrapping of timeouts and cancellations and the order of the cases of
`MapError`.

## 3. What is checked

Every run explores the full state space of its instance.

| run | question | result |
|---|---|---|
| `sync_concurrent` | two callers, two forks, all failures: types, `Linked`, `ReceiptFromRow`, `RowsImmutable`, refinement of `IndexedChain` | holds |
| `race_of_syncs` | `SyncOkMeansStored` with two callers and a reorg | violated |
| `indexer_final` | the runner trailing the head by the depth of finality, every receipt there: `StoredIsFinal`, `NeverStuck`, `CompletedHasReceipts`, `EventuallyIndexed` | holds |
| `gap_run_once` | `NothingSkipped` with the runner and a run-once request | violated |
| `late_writes` | the runner at the head of a reorganising chain, two writes may outlive their calls: `Linked`, `RowsImmutable`, refinement of `IndexedChain` | holds |
| `gap_late_writes` | `NothingSkipped` with the runner alone and two writes that outlive their calls | violated |
| `wallet_reorg` | the runner alone at the head of a reorganising chain, and a wallet: `NoGap`, `CompletedStays`, refinement of `CompletedLog`, `ServedWhole`, `ServedContiguous`, `ReportedIsServed` | holds |
| `wallet_nil_receipt` | `NeverNilReceipt` under a reorg | violated |
| `range_sync` | range requests below the largest number, start block 2 with 0 and 1 backfilled by them: `RangeBounded`, `RangeReport`, `RangeAnswered`, and, as there is one caller, `TxBelongsToRow`, `RowHasItsTxs`, `SyncOkMeansStored` | holds |
| `range_wrap` | `RangeBounded` for requests up to the largest number | violated |
| `explorer` | a client next to a runner that trails the head by the depth of finality: `OneChainTold`, `IndexedIsConfirmed`, `NeverDenied`, `NoneMissed`, `PageAtItsRank` | holds |
| `page_wrap` | `PageAtItsRank` for the largest page number | violated |

Reading the pairs together says what each guarantee depends on. Blocks and
transactions in the database agree as long as one sync of a number runs at a
time (`range_sync`), or the chain does not reorganise (`BlockSyncPlaces`, section 4);
with concurrent syncs and reorgs, they may not. The links
between blocks, and the receipts, are right in any case. The runner alone skips
nothing; together with a second caller it may. What the public reads promise
rests on trailing the head: indexing blocks that are not final, `OneChainTold` and
`IndexedIsConfirmed` fail, and they are checked where the configuration
(`sync_target`, `safe` by default) provides for them. `NeverNilReceipt`, which
`wallet_nil_receipt` violates at the head, is proved there (section 4).

Late writes deserve a word. The links, the receipts and the refinement of
`IndexedChain` survive any number of them, because an insert is checked again by
the unique keys and a receipt is bound to its transaction's hash (section 4).
That nothing is skipped does not survive them, even with the runner alone
(finding 3): nothing in the program keeps a mark that was given up from landing
after the runner has gone on. `NoGap` is a property of the indexer whose writes end
with their calls (`wallet_reorg`).

### Findings

1. **A sync can report success for a block that is not recorded**
   (`race_of_syncs`). Two callers fetch the same number before and after a reorg
   and both find no row. The second insert is ignored for the block (`BR:84`) but
   still inserts the transactions (`BR:94`), under a block without a row, and the
   call returns nil. The repository's README says that reorg conflicts can be
   detected.
2. **A block can be skipped for good** (`gap_run_once`). A run-once request and
   the runner sync block n together; the runner completes n and n+1, then the
   other call fails and marks n `receipts_failed` (`BR:130`, by number). The
   cursor `MAX(number)` is past n. `internal/indexer/runner.go:45-48` says that
   failed blocks will not be skipped. A manual sync of n+1 while n is stored but
   not completed has the same effect, because the parent check does not look at
   the parent's status: set `RunOnce = {}` and `Manual = {h}` in the same
   configuration to see it.
3. **A late mark can skip a block, with the runner alone** (`gap_late_writes`). The mark
   of success of block n is given up while its `COMMIT` is in flight. The runner starts n
   again, its query for missing receipts fails, and the first mark lands. The mark of
   failure, sent now, is given up in flight in turn. The cursor is at n by now: the
   runner completes n+1, and the mark of failure lands. Nothing but the number is asked
   of the row (`BR:130-140`), so n is `receipts_failed` below the cursor for good, against
   the same comment of `runner.go`.
4. **One missing receipt makes wallet pages fail for good**
   (`wallet_nil_receipt`). A receipt that is not found is skipped (`TS:136`), the
   block is completed without it, and every page that contains the block fails in
   `mapReceiptStatus`. A reorg between insert and receipt is enough.
5. **Range requests at the end of `uint64`** (`range_wrap`). With end = 2^64-1
   the condition of the loop always holds and the number wraps to 0; with start = 0 as
   well, the size wraps to 0 and passes the limit.
6. **A far page of an address is answered with other rows** (`page_wrap`). The
   page number is any positive `int`; `(page - 1) * pageSize` (`AS:95`) wraps
   around, gorm leaves out an `OFFSET` that is not positive, and the first page is
   answered under the requested number instead of an empty one.

### Bounds

- `sync_concurrent`, `race_of_syncs`: numbers 0..2, a genesis block and two forks of two blocks, two
  transactions of which one has another position and the other another number
  in the second fork. Two callers are enough for every pairwise race; the
  invariants relate a row and its parent, or a transaction and its row, so two
  numbers above genesis are enough to break them. What does not depend on the
  size is proved for any size (section 4).
- All others: numbers 0..3, three forks which part at 1 and at 2 (`MCForks`), so
  that a reorg can happen below, at and above the cursor and changes block,
  position or presence of a transaction. `FinalDepth = 4` means that no block is
  ever final; in `indexer_final`, `explorer` and `page_wrap`, `FinalDepth = Lag = 1`.
- `wallet_*`: pages of 1 or 2 of at most 3 blocks, asked from 0 (below the start
  block) and 2 (`Froms`), so that a page can be full, short and empty. One
  runner, because with a second caller blocks can be skipped (finding 2) and the
  wallet's guarantees go with them.
- `late_writes`, `gap_late_writes`: `MaxLate = 2`, the number of writes in a history that
  outlive their calls; every kind of write is tried, and it may land at any later point,
  also after another that was given up later. What `late_writes` checks is proved for
  any number (section 4).
- `explorer`: one address that is party to all three transactions, which is the
  worst case for a page that shifts; pages 0..2 of 2 rows, with a size of 3 that is
  refused. A list grows to three rows in at most three blocks, so it is turned in
  two pages while it grows. `MaxInt = 7`: no offset of these pages overflows;
  `page_wrap` asks for page 7.
- `range_*`: two-bit numbers, chains up to block 2, `MaxBlockRange = 2`. `MaxTries`
  stops an instance at the first call above the limit. `range_sync` leaves the largest
  number out (`RangeEnds`), so that `RangeBounded` and `RangeAnswered` say nothing of the
  loop that does not end there; that is what `range_wrap` shows.
- `SYMMETRY` over the callers is used only in runs without liveness properties;
  the callers are interchangeable there.

### Fairness

`Indexer!RunnerFairness` asks that the loop goes on (weak fairness of its reads
and of the pending call: `Runner.Start` never returns before shutdown, and
`runTimeout` ends every call) and that each kind of call, made again and again,
succeeds again and again (strong fairness: the node and the database are not
down for ever). Nothing is asked of `Fail`, `LostReply`, `Restart`,
`ReceiptNotFound`, of the node or of other callers. `EventuallyIndexed` needs the
strong part: with weak fairness alone a call may time out every time.
`RangeSync!RFairSpec` asks only that the handler of the range goes on. Its calls on the
node have a deadline (`internal/rpc/base_rpc.go:25`); its statements have that of the request
only, so that they end is an assumption about the database.

## 4. What is proved

All theorems hold for any sets of callers, blocks and transactions, any forks
and any start block, under the assumptions stated in the modules:
`NodeAssumption` (numbers, parents and transactions of blocks are functions of
their hash), `ChainsAssumption` (the node serves linked chains in which a
transaction occurs once), `SyncAssumption` (types of the configuration), and
`CallerAssumption`, `RequestAssumption`, `RangeAssumption`, `LateAssumption`,
`ExplorerAssumption` (the same for callers and requests). Some need more, stated
as a hypothesis of the theorem:

| hypothesis | says | where the code provides for it |
|---|---|---|
| `Alone` | at most one call of `SyncBlockToDB` at a time | the runner is one goroutine; nobody uses the sync endpoints |
| `RunnerAlone` | `Alone`, and the one caller is driven by `RunIndexerOnce` | the same |
| `FinalDepth = 0` | the node takes no block back | a chain without reorgs |
| `TargetFinal` | the sync target trails the head by the depth of finality, and nobody asks for a number by hand | `sync_target` `finalized`, or `safe` (the default) as far as safe blocks stay |
| `~ReceiptMayLag` | the node has the receipts of the blocks it serves | a node that serves blocks once executed |
| `BelowTop` | no range ends at the largest number | any range but the one of finding 5 |
| `NoWrap` | no offset of a page that is asked for exceeds the largest `int` | any page but those of finding 6 |
| `PositionsDiffer` | two transactions of a block have two positions | the position is the index of the loop over the block's list (`BS:145-158`) |
| `IsFiniteSet(Tx)` | ranks are numbers | a table is finite |

The violations of section 3 show that the hypotheses are needed: with a second
caller and a reorg `SyncOkMeansStored` fails, with a second caller `NoGap`, when
blocks are not final `NeverNilReceipt`, at the largest number
`RangeBounded`, with an offset that wraps `PageAtItsRank`.

| theorem | states | under |
|---|---|---|
| `BlockSyncProofs`: `TypeCorrect` | `Spec => []TypeOK` | |
| `StoredChainLinked` | `Spec => []Linked` | |
| `ReceiptsFromTheirRows` | `Spec => []ReceiptFromRow` | |
| `NothingRewritten` | `Spec => RowsImmutable` | |
| `BlockSyncRefinement`: `Refinement` | `Spec => ImplementsIndex` | |
| `BlockSyncPlaces`: `AloneTxBelongsToRow`, `AloneRowHasItsTxs`, `AloneSyncOkMeansStored` | `Spec => []` of the property in the name | `Alone` |
| `GrowingTxBelongsToRow`, `GrowingRowHasItsTxs`, `GrowingSyncOkMeansStored` | the same | `FinalDepth = 0` |
| `GrowingCompletedHasReceipts` | `Spec => []CompletedHasReceipts` | `FinalDepth = 0`, `~ReceiptMayLag` |
| `IndexerProofs`: `IxTypeCorrect` | `IxSpec => []IxTypeOK` | |
| `IndexerIsSync` | `IxSpec => Spec` | |
| `AloneNoGap`, `AloneCompletedStays` | `IxSpec => []NoGap`, `IxSpec => CompletedStays` | `RunnerAlone` |
| `AloneImplementsLog` | `IxSpec => ImplementsLog` | `RunnerAlone` |
| `FinalStoredIsFinal`, `FinalNeverStuck`, `FinalTxBelongsToRow`, `FinalRowHasItsTxs` | `IxSpec => []` of the property in the name | `TargetFinal` |
| `FinalCompletedHasReceipts` | `IxSpec => []CompletedHasReceipts` | `TargetFinal`, `~ReceiptMayLag` |
| `LateWritesProofs`: `LTypeCorrect`, `LateStoredChainLinked`, `LateReceiptsFromTheirRows` | `LSpec => []LTypeOK`, `LSpec => []Linked`, `LSpec => []ReceiptFromRow` | |
| `LateNothingRewritten`, `LateRefinement` | `LSpec => RowsImmutable`, `LSpec => ImplementsIndex` | |
| `WalletProofs`: `WalletReadsOnly` | `WSpec => IxSpec` | |
| `WTypeCorrect` | `WSpec => []WTypeOK` | |
| `AloneServedWhole`, `FinalServedWhole` | `WSpec => []ServedWhole` | `Alone`; `TargetFinal` |
| `AloneServedContiguous`, `AloneReportedIsServed` | `WSpec => []` of the property in the name | `RunnerAlone` |
| `FinalNeverNilReceipt` | `WSpec => []NeverNilReceipt` | `TargetFinal`, `~ReceiptMayLag` |
| `ExplorerProofs`: `ExplorerReadsOnly` | `ESpec => IxSpec` | |
| `ETypeCorrect` | `ESpec => []ETypeOK` | |
| `AloneNeverDenied`, `FinalNeverDenied` | `ESpec => []NeverDenied` | `Alone`; `TargetFinal` |
| `FinalOneChainTold` | `ESpec => []OneChainTold` | `TargetFinal` |
| `FinalIndexedIsConfirmed` | `ESpec => []IndexedIsConfirmed` | `TargetFinal`, `~ReceiptMayLag` |
| `PagesAtTheirRank` | `ESpec => []PageAtItsRank` | `NoWrap`, `IsFiniteSet(Tx)` |
| `AloneNoneMissed`, `FinalNoneMissed` | `ESpec => []NoneMissed` | the same, `PositionsDiffer`, and `Alone`; `TargetFinal` |
| `RangeProofs`: `RTypeCorrect` | `RSpec => []RTypeOK` | |
| `RangeIsSync` | `RSpec => Spec` | |
| `RangeIsBounded` | `RSpec => []RangeBounded` | `BelowTop` |
| `RangeReportIsTrue` | `RSpec => []RangeReport` | `BelowTop`, `Alone` |

The four theorems `...IsSync` and `...ReadsOnly` carry the results upwards: what is
proved of `SyncBlockToDB` holds next to any callers, and what is proved of the indexer
holds next to any reader.

### The core

`Linked` is not inductive: nothing in it says why the block about to be inserted
has the right parent, which was read by an earlier call. The inductive invariant
`IInv` adds what a running call knows and why it stays true:

| conjunct of `IInv` | says |
|---|---|
| `TypeOK` | types |
| `RowNumber` | a row is at the number of its block |
| `Linked` | the goal |
| `Holding` | from the answer of the node on, a call holds a block with its number |
| `Checked` | a call between the checks and the insert holds a block that may be added |
| `AboveZero` | the parent is looked up only above 0 |
| `Inserted` | after the insert, the number is taken |

The argument: `RowSteps` shows that a step keeps all hashes or is the insert of a
checked block into a free number. Hence a row stays (`RowsStay`), hence "this
block may be added" stays true once it was (`MayAddStays`), even when other
calls insert in between and the node reorganises. This is exactly what makes
the gap between check and act harmless for the links. It does not hold for
`Conflicts`, the check of the transactions: that is finding 1.

`RInv` does the same for receipts: a receipt was validated against the row of
its transaction (`GotMatches`), and the row keeps its block (`PlacesStay`), so
the later update writes the receipt of the right block.

`Refinement` classifies the writes of a step (`Writes`): an insert of a block that
may be added, a receipt, a mark, or none. Each is the corresponding step of
`IndexedChain` (`InsertIsAdd`, `TakeIsTakeReceipt`, `MarkIsCompleteOrDemote`). One
more invariant is needed there, `RowsTxsSynced`: a mark completes a block only
because every row was written with its transactions.

### Blocks and transactions (`BlockSyncPlaces`)

`TxBelongsToRow` and `RowHasItsTxs` are not inductive either: an insert decides row
by row, and keeps the tables in agreement only if its block is the one recorded at
the number, or none is, and none of its transactions is recorded elsewhere
(`SafeInsert`). `PlacesStep` proves that under `SafeInserts` every step keeps
`Places`. Why the insert is safe differs:

- `AloneInv`: with one call at a time, what it has checked is still so (`UpToDate`).
- `FinalInv`: with a node that takes nothing back, every row (`RowsFinal`) and every
  block that a call holds (`CallsFinal`) is on the node's chain; a chain has one block
  per number and a transaction once, so no two of them can be in conflict. The
  invariant is stated for final blocks, and is used again for a target that is final.

`ReceiptsInv` says of a call in the receipt loop that what is not in its list has a
receipt (`Listed`): the mark completes the block when the list is empty.

### The indexer (`IndexerProofs`)

`OrderInv` is what makes a maximum a sound cursor: the completed numbers are those
from the start block to below some k (`InOrder`), a plan made from them (`PlansNext`)
or a call that runs (`CallsNext`) is for k itself, and with one caller nothing is
completed or taken back meanwhile. `NoGap` is a consequence, `CompletedStays` follows
because a call marks only the block it was made for, which is not completed yet, and
`ImplementsLog` because the only step that changes the log appends that block to it,
on top of its parent by `IInv`.

`FinalIxInv` adds to `FinalInv` that only final numbers are asked for (`AsksFinal`: the
target may move between the check and the fetch, but a number that was final stays
so) and that the parent of what is asked for is recorded (`ParentsStored`).
`NeverStuck` is inductive with these.

### Late writes (`LateWritesProofs`)

`LateInv` extends the invariants of the core to the writes in flight: the block of a
late insert may still be added, the transaction of a late receipt is still recorded in
the block of the receipt, the block of a late mark is still recorded (`StillChecked`).
The three are of the kind that no write takes back, for the reasons the core gives, so
a write may come as late as it likes. The completion of a block is not of that kind,
which is why `NoGap` is not among these theorems (finding 3).

### The readers (`WalletProofs`, `ExplorerProofs`)

`WInv`: the page in hand is of blocks that are recorded, and a row keeps its block; so
the second query, by number, asks for the right transactions wherever `Places` holds.
`PageOrdered` and `PageFull` use `OrderInv`: the completed numbers are an interval, hence
a page of the lowest of them is one as well, and what is completed later is behind it.

`ToldInv`: what was told from the database is still in it. With it, `NeverDenied` needs
`Places` and `OneChainTold` needs `RowsFinal` for the rows and `RepliedFinal` for an answer
of the node. `WalkInv` is the invariant of a client that turns pages: what it has not
seen yet has a rank beyond the pages it has read. A rank is a position in a strict total
order of the address's transactions, newest first (`Rank`), so that it only grows when
blocks are added (`RankGrows`), and reading a page takes off exactly the ranks of the
page (`FullSlice`, from the well-foundedness of a strict order on a finite set). An
order with ties would not do: this is what `Places` and `PositionsDiffer` are for.

### The range (`RangeProofs`)

`LoopOK` ties the loop variable to what has been counted: `number` is the start plus the
calls made, and does not pass the end by more than one, so that below the largest
number nothing wraps. `ReportInv` adds that a call that succeeded has completed its
block (`OutcomeInv`; a stored block without transactions is complete already, and that is
why success without a mark is right), that the call in progress is the one for `number`
(`LoopCalls`), and that every number passed is completed or reported.

### Only model-checked

- Liveness: `EventuallyIndexed` and `RangeAnswered`, which rest on fairness and are
  beyond the proof system's reach.

Every safety property that a passing run checks is stated by a theorem. The theorems are
about more callers than some of the runs: `indexer_final`, `wallet_reorg`, `explorer` and
`range_sync` have one. The `Growing...` and `Final...` theorems say what holds for any number.

## 5. What is not modelled

- `GetAddress`: balance, nonce and code are three calls on the latest state of the
  node and may be of three blocks; the answer names no block, and nothing is stored
  or decided from it.
- `GET /internal/indexer/status`: the two reads of `GetNextBlockToSync`, which are
  `ReadProgress` and `ReadTarget`, without the sync that follows them.
- More than one public client, and a client that pipelines: clients share nothing
  but the tables, which they do not write.
- Late writes of the handlers' calls next to the runner's: the runs have the
  runner alone, the theorems of `LateWritesProofs` have any callers.
- Several processes on one database: the repository lists this as a limitation.
  `Crash` stops all callers at once; otherwise callers of two processes would
  look like callers of one.
- Fields that are functions of a hash, direction and counterparty of an address's
  transaction, error wording, logging, configuration parsing, the connection pool
  and its monitor: copies, formatting and I/O.
- The HTTP status of the sync and wallet endpoints; that of the public reads is.
- `InsertBlock`, `InsertTransaction`, `InsertTransactions`: no caller outside tests.

## 6. Plan

Done: the core (`ChainNode`, `BlockSync`, `IndexedChain`), the indexer with its
abstract log, writes that outlive their calls, the wallet reads, the public reads, the
range sync, and the theorems of section 4.

Left: the refinement of `CompletedLog` for any number of callers and of late writes under
a condition on the marks (a mark that asks for the status it was made for), as a design
that would mend findings 2 and 3.

## 7. Running

    tlc -workers 4 -config sync_concurrent.cfg MCBlockSync
    tlapm BlockSyncRefinement.tla
    tlapm ExplorerProofs.tla

`PROJECT.json` lists the runs with their modules, the lines each definition
models, the hazards, the findings, the theorems, and for every property of a
passing run a mutant of the code that breaks it.
