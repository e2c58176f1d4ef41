--------------------------- MODULE ExplorerReader ---------------------------
(***************************************************************************)
(* The public reads, next to the indexer: a block (from the database, else *)
(* from the node), an indexed transaction (database), a transaction        *)
(* detail (two calls on the node), and the pages of the transactions of an *)
(* address (database, by offset).  One client makes one request at a time; *)
(* the indexer never waits for it.  It remembers one thing at a time that  *)
(* it was told: its requests do not change the index, so any answer can be *)
(* compared with any earlier one that way.                                 *)
(***************************************************************************)
EXTENDS Indexer, ApiErrors, Integers

CONSTANTS
    Address,        \* addresses whose pages are asked for
    PartiesOf,      \* Tx -> its sender and its recipient
    MaxPageSize,    \* the largest page: 100 in the code
    MaxInt,         \* the largest int
    Pages,          \* the page numbers that are asked for
    PageSizes       \* the page sizes that are asked for

ASSUME ExplorerAssumption ==
    /\ PartiesOf \in [Tx -> SUBSET Address]
    /\ MaxInt \in Nat
    /\ MaxPageSize \in 1..MaxInt
    /\ Pages \subseteq -MaxInt..MaxInt
    /\ PageSizes \subseteq -MaxInt..MaxInt

VARIABLES
    epc,        \* "idle", the next call of the request, or "answered"
    query,      \* the request
    reply,      \* its answer
    known       \* what the client remembers

client == <<epc, query, reply, known>>
evars == <<chain, blocks, txs, pc, num, blk, todo, got, plan,
           epc, query, reply, known>>

Calls == {"block_row", "block_rpc", "tx_row", "tx_rpc", "receipt_rpc", "page_row"}

Queries ==
    [op : {"none"}] \cup [op : {"block"}, number : Numbers]
      \cup [op : {"tx", "detail"}, tx : Tx]
      \cup [op : {"page"}, address : Address, page : Pages, size : PageSizes]

NoQuery == [op |-> "none"]

\* pending and final only say something in the answer of a detail and of a
\* block; final is not in the response, it says whether the block was final
\* when it was read.
NoReply == [status |-> OK, block |-> NoBlock, pending |-> FALSE,
            final |-> FALSE, items |-> {}]

Nothing == [kind |-> "nothing"]

\* A walk through the pages: the next page, and the transactions indexed when
\* it began that have not been seen yet.
Walks == [kind : {"walk"}, address : Address, size : PageSizes, page : Nat,
          unseen : SUBSET Tx]

Memories ==
    {Nothing} \cup Walks
      \cup [kind : {"block"}, block : Block]
      \cup [kind : {"place"}, tx : Tx, block : Block]

\* The block answered from the database, the <<transaction, block>> answered
\* from the index.
Told == IF known.kind = "block" THEN {known.block} ELSE {}

Placed == IF known.kind = "place" THEN {<<known.tx, known.block>>} ELSE {}

Walking == known.kind = "walk"

\* What the mappers keep of a row or of the node's answer: the fields are
\* functions of the hash; the block of a detail is that of its receipt.
BlockReply(b) == [NoReply EXCEPT !.block = b, !.final = IsFinal(NumberOf[b])]

IndexedReply(t) == [NoReply EXCEPT !.block = txs[t].block]

DetailReply(isPending, receipt) ==
    [NoReply EXCEPT !.pending = isPending, !.block = receipt]

PageReply(T) == [NoReply EXCEPT !.items = T]

-----------------------------------------------------------------------------
(* Pagination.                                                             *)

\* The value an int expression wraps around to.
AsInt(x) == ((x + MaxInt + 1) % (2 * (MaxInt + 1))) - (MaxInt + 1)

\* Mutant: pages are counted from 0.
OffsetFrom0(page, size) == AsInt(page * size)

\* Mutant: the offset is counted in pages.
OffsetInPages(page, size) == AsInt(page - 1)

Offset(page, size) == AsInt((page - 1) * size)

ValidPage(page, size) == page > 0 /\ size > 0 /\ size <= MaxPageSize

TxsOf(a) == {t \in Tx : Indexed(t) /\ a \in PartiesOf[t]}

\* ORDER BY block_number DESC, tx_index DESC.  No two rows are equal in it as
\* long as the rows of a number are of one block.
Before(t, u) ==
    LET b == txs[t].block
        c == txs[u].block
    IN  \/ NumberOf[b] > NumberOf[c]
        \/ NumberOf[b] = NumberOf[c] /\ TxIndex[b][t] > TxIndex[c][u]

Rank(a, t) == Cardinality({u \in TxsOf(a) : Before(u, t)}) + 1

\* LIMIT and OFFSET; an OFFSET that is not positive is left out.
ListTransactionsByAddress(a, limit, offset) ==
    LET skip == IF offset > 0 THEN offset ELSE 0
    IN  {t \in TxsOf(a) : skip < Rank(a, t) /\ Rank(a, t) <= skip + limit}

-----------------------------------------------------------------------------
EInit ==
    /\ IxInit
    /\ epc = "idle" /\ query = NoQuery /\ reply = NoReply
    /\ known = Nothing

Ask(q, call) ==
    /\ epc = "idle"
    /\ epc' = call
    /\ query' = q
    /\ UNCHANGED <<ixvars, reply>>

Answer(r) ==
    /\ epc' = "answered"
    /\ reply' = r
    /\ UNCHANGED <<ixvars, query>>

Refuse(e) == Answer([NoReply EXCEPT !.status = MapError(e)])

\* GET /block/:number
GetBlock(n) == Ask([op |-> "block", number |-> n], "block_row") /\ UNCHANGED known

ReadBlockRow ==
    /\ epc = "block_row"
    /\ LET n == query.number
       IN  IF Stored(n)
           THEN /\ Answer(BlockReply(blocks[n].hash))
                /\ known' = [kind |-> "block", block |-> blocks[n].hash]
           ELSE /\ epc' = "block_rpc"
                /\ UNCHANGED <<ixvars, query, reply, known>>

AskBlock ==
    /\ epc = "block_rpc"
    /\ LET n == query.number
       IN  IF HasBlock(n) THEN Answer(BlockReply(chain[n]))
           ELSE Refuse("ErrBlockNotFound")
    /\ UNCHANGED known

\* GET /indexed/tx/:hash
GetIndexedTransaction(t) == Ask([op |-> "tx", tx |-> t], "tx_row") /\ UNCHANGED known

ReadTxRow ==
    /\ epc = "tx_row"
    /\ LET t == query.tx
       IN  IF Indexed(t)
           THEN /\ Answer(IndexedReply(t))
                /\ known' = [kind |-> "place", tx |-> t, block |-> txs[t].block]
           ELSE Refuse("ErrTxNotFound") /\ UNCHANGED known

\* GET /tx/:hash
GetTxDetail(t) == Ask([op |-> "detail", tx |-> t], "tx_rpc") /\ UNCHANGED known

\* TransactionByHash, ChainID and the sender.  The node may or may not have a
\* transaction that is not mined in its pool.
AskTransaction ==
    /\ epc = "tx_rpc"
    /\ \/ Mined(query.tx) /\ epc' = "receipt_rpc" /\ UNCHANGED <<ixvars, query, reply>>
       \/ ~Mined(query.tx) /\ Answer(DetailReply(TRUE, NoBlock))
       \/ ~Mined(query.tx) /\ Refuse("ErrTxNotFound")
    /\ UNCHANGED known

\* The block of the detail is that of the receipt; no receipt is no error.
AskReceipt ==
    /\ epc = "receipt_rpc"
    /\ \/ Mined(query.tx) /\ Answer(DetailReply(FALSE, MinedIn(query.tx)))
       \/ (~Mined(query.tx) \/ ReceiptMayLag) /\ Answer(DetailReply(FALSE, NoBlock))
    /\ UNCHANGED known

\* A walk starts at page 1 and ends when another page than the next is asked.
Turn(a, page, size) ==
    IF page = 1 /\ ValidPage(page, size)
    THEN [kind |-> "walk", address |-> a, size |-> size, page |-> 1, unseen |-> TxsOf(a)]
    ELSE IF Walking /\ <<known.address, known.page, known.size>> # <<a, page, size>>
    THEN Nothing
    ELSE known

\* GET /indexed/address/:address/transactions?page=&page_size=
ListPage(a, page, size) ==
    /\ known' = Turn(a, page, size)
    /\ LET q == [op |-> "page", address |-> a, page |-> page, size |-> size]
       IN  IF ValidPage(page, size) THEN Ask(q, "page_row")
           ELSE /\ epc = "idle" /\ epc' = "answered" /\ query' = q
                /\ reply' = [NoReply EXCEPT !.status = MapError("ErrInvalidPagination")]
                /\ UNCHANGED ixvars

ReadPage ==
    /\ epc = "page_row"
    /\ LET I == ListTransactionsByAddress(query.address, query.size,
                                          Offset(query.page, query.size))
       IN  /\ Answer(PageReply(I))
           /\ known' = IF Walking THEN [known EXCEPT !.page = @ + 1, !.unseen = @ \ I]
                       ELSE known

\* A call fails.  The context of a request has no deadline, the calls on the
\* node have one.
CallFails(f) ==
    /\ \/ epc \in {"block_rpc", "tx_rpc", "receipt_rpc"} /\ Refuse(RPCError(f))
       \/ /\ epc \in {"block_row", "tx_row", "page_row"}
          /\ f # "timeout"
          /\ Refuse(DBError(f))
    /\ UNCHANGED known

Answered(op, status) == epc = "answered" /\ query.op = op /\ reply.status = status

\* The page of a walk that is not full is its last.
ShortPage == Answered("page", OK) /\ Cardinality(reply.items) < query.size

\* The client has its answer.
Done ==
    /\ epc = "answered"
    /\ epc' = "idle" /\ query' = NoQuery /\ reply' = NoReply
    /\ known' = IF Walking /\ ShortPage THEN Nothing ELSE known
    /\ UNCHANGED ixvars

\* The request dies with the process; the client keeps what it was told.
ERestart ==
    /\ Restart
    /\ epc' = "idle" /\ query' = NoQuery /\ reply' = NoReply
    /\ UNCHANGED known

Request ==
    \/ \E n \in Numbers : GetBlock(n)
    \/ \E t \in Tx : GetIndexedTransaction(t) \/ GetTxDetail(t)
    \/ \E a \in Address, page \in Pages, size \in PageSizes : ListPage(a, page, size)

Serve ==
    \/ ReadBlockRow \/ AskBlock \/ ReadTxRow \/ AskTransaction \/ AskReceipt \/ ReadPage
    \/ \E f \in Failures : CallFails(f)

ENext ==
    \/ Request \/ Serve \/ Done
    \/ IxStep /\ UNCHANGED client
    \/ ERestart

ESpec == EInit /\ [][ENext]_evars

-----------------------------------------------------------------------------
ETypeOK ==
    /\ IxTypeOK
    /\ epc \in {"idle", "answered"} \cup Calls
    /\ query \in Queries
    /\ reply \in [status : {200, 400, 404, 408, 500, 504}, block : Block \cup {NoBlock},
                  pending : BOOLEAN, final : BOOLEAN, items : SUBSET Tx]
    /\ known \in Memories

\* Trailing the head by the depth of finality, all sources tell the same
\* chain: a block or a place told from the database, now or earlier, and a
\* block told by the node once it is final, are on the canonical chain.
OneChainTold ==
    /\ \A b \in Told : HasBlock(NumberOf[b]) /\ chain[NumberOf[b]] = b
    /\ \A p \in Placed : HasBlock(NumberOf[p[2]]) /\ chain[NumberOf[p[2]]] = p[2]
    /\ Answered("block", OK) /\ reply.final => chain[query.number] = reply.block

\* A transaction that the index has told is mined for the node as well, in
\* the same block, although the detail is put together from two calls.
IndexedIsConfirmed ==
    epc = "answered" /\ query.op = "detail" =>
        \A p \in Placed : p[1] = query.tx =>
            /\ reply.status # NotFound
            /\ reply.status = OK => ~reply.pending /\ reply.block = p[2]

\* What has been told is not denied later: not a transaction found before,
\* and not a transaction of a block that was told from the database.
NeverDenied ==
    Answered("tx", NotFound) =>
        /\ \A p \in Placed : p[1] # query.tx
        /\ \A b \in Told : query.tx \notin BlockTxs(b)

\* A client that reads page after page up to a short one sees every
\* transaction that was indexed when it began, although new blocks shift the
\* offsets under it (it may see some twice).
NoneMissed ==
    Walking /\ ShortPage => known.unseen = {}

\* A page holds no transaction that belongs on an earlier page.
PageAtItsRank ==
    Answered("page", OK) =>
        \A t \in reply.items : Rank(query.address, t) > (query.page - 1) * query.size
=============================================================================
