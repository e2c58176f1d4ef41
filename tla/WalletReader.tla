---------------------------- MODULE WalletReader ----------------------------
(***************************************************************************)
(* The wallet-facing reads of WalletInternalService, next to the indexer:  *)
(* GetSyncStatus reports the latest completed block, ListCompletedBlocks   *)
(* reads a page of completed blocks and then, in a second query without a  *)
(* transaction around the two, the transactions with their numbers.        *)
(* One wallet makes one request at a time; the indexer never waits for it. *)
(***************************************************************************)
EXTENDS Indexer

CONSTANTS
    MaxLimit,   \* the largest page: 100 in the controller
    Froms       \* the numbers that pages are asked from

ASSUME RequestAssumption == MaxLimit \in Nat \ {0} /\ Froms \subseteq Numbers

VARIABLES
    wpc,        \* "idle", "rows", "txs", "answered" or "error"
    ask,        \* the request: [from, limit]
    rows,       \* the blocks of the page
    answer,     \* the response: a set of [block, txs]
    reported    \* {the number GetSyncStatus last reported}, or {}

wallet == <<wpc, ask, rows, answer, reported>>
wvars == <<chain, blocks, txs, pc, num, blk, todo, got, plan,
           wpc, ask, rows, answer, reported>>

Limits == 1..MaxLimit

-----------------------------------------------------------------------------
\* ListWalletCompletedBlockRows: number >= from, completed, ascending, limit.
\* Mutant: the order is descending.
PageFromTop(from, limit) ==
    LET C == {n \in Numbers : n >= from /\ Completed(n)}
    IN  {blocks[n].hash : n \in {m \in C : Cardinality({k \in C : k >= m}) <= limit}}

Page(from, limit) ==
    LET C == {n \in Numbers : n >= from /\ Completed(n)}
    IN  {blocks[n].hash : n \in {m \in C : Cardinality({k \in C : k <= m}) <= limit}}

\* ListWalletCompletedTransactionRows: by the numbers of the page.
RowsOf(B) == {t \in Tx : Indexed(t) /\ \E b \in B : NumberOf[txs[t].block] = NumberOf[b]}

\* mapReceiptStatus fails for a null receipt_status.
HasNilReceipt(T) == \E t \in T : txs[t].receipt = NoBlock

\* txsByBlockNumber: the rows are handed to the blocks by number.
GroupByNumber(B, T) ==
    {[block |-> b, txs |-> {t \in T : NumberOf[txs[t].block] = NumberOf[b]}] : b \in B}

\* GetLatestCompletedBlock: the completed row with the highest number.
\* Mutant: any stored row.
ReportedStored == LatestStored

ReportedLatest == LatestFullySynced

-----------------------------------------------------------------------------
WInit ==
    /\ IxInit
    /\ wpc = "idle"
    /\ ask = [from |-> 0, limit |-> 1]
    /\ rows = {} /\ answer = {} /\ reported = {}

\* GetSyncStatus; without a completed block it answers not found.
GetSyncStatus ==
    /\ wpc = "idle"
    /\ reported' = ReportedLatest
    /\ UNCHANGED <<ixvars, wpc, ask, rows, answer>>

\* ListCompletedBlocks is called.
Request(from, limit) ==
    /\ wpc = "idle"
    /\ wpc' = "rows"
    /\ ask' = [from |-> from, limit |-> limit]
    /\ UNCHANGED <<ixvars, rows, answer, reported>>

\* The first query; an empty page is answered at once.
ReadRows ==
    /\ wpc = "rows"
    /\ rows' = Page(ask.from, ask.limit)
    /\ wpc' = IF rows' = {} THEN "answered" ELSE "txs"
    /\ UNCHANGED <<ixvars, ask, answer, reported>>

\* The second query, and the mapping of its rows.
ReadTxs ==
    /\ wpc = "txs"
    /\ LET T == RowsOf(rows)
       IN  IF HasNilReceipt(T)
           THEN wpc' = "error" /\ UNCHANGED answer
           ELSE wpc' = "answered" /\ answer' = GroupByNumber(rows, T)
    /\ UNCHANGED <<ixvars, ask, rows, reported>>

\* The request is over: answered, refused, or failed in the database.
WDone ==
    /\ wpc # "idle"
    /\ wpc' = "idle"
    /\ ask' = [from |-> 0, limit |-> 1]
    /\ rows' = {} /\ answer' = {}
    /\ UNCHANGED <<ixvars, reported>>

\* The requests die with the process; the wallet remembers what it was told.
WRestart ==
    /\ Restart
    /\ wpc' = "idle"
    /\ ask' = [from |-> 0, limit |-> 1]
    /\ rows' = {} /\ answer' = {}
    /\ UNCHANGED reported

WNext ==
    \/ GetSyncStatus
    \/ \E from \in Froms, limit \in Limits : Request(from, limit)
    \/ ReadRows \/ ReadTxs \/ WDone
    \/ IxStep /\ UNCHANGED wallet
    \/ WRestart

WSpec == WInit /\ [][WNext]_wvars

-----------------------------------------------------------------------------
WTypeOK ==
    /\ IxTypeOK
    /\ wpc \in {"idle", "rows", "txs", "answered", "error"}
    /\ ask \in [from : Numbers, limit : Limits]
    /\ rows \in SUBSET Block
    /\ answer \in SUBSET [block : Block, txs : SUBSET Tx]
    /\ reported \in SUBSET Numbers

Served == {NumberOf[a.block] : a \in answer}

\* A block is served with all its transactions and no other, although its
\* transactions are read later than the block, by number only, and written
\* and completed while the wallet reads.
ServedWhole ==
    wpc = "answered" => \A a \in answer : a.txs = BlockTxs(a.block)

\* A page has no hole and starts where it was asked to (or at the start
\* block), and its blocks follow each other: a wallet that asks next for what
\* follows the page sees every block.
ServedContiguous ==
    wpc = "answered" =>
        /\ \A n \in Served, m \in Numbers :
            ask.from <= m /\ StartBlock <= m /\ m <= n => m \in Served
        /\ \A a, b \in answer :
            NumberOf[b.block] = NumberOf[a.block] + 1 => ParentOf[b.block] = a.block

\* A block that GetSyncStatus reported is served to every later request it
\* is in the range of, unless the page is full.
ReportedIsServed ==
    wpc = "answered" =>
        \A n \in reported :
            ask.from <= n => n \in Served \/ Cardinality(Served) = ask.limit

\* Listing completed blocks never meets a transaction without a receipt
\* status, which makes the whole page fail.
NeverNilReceipt == wpc # "error"
=============================================================================
