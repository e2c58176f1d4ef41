---------------------------- MODULE ExplorerProofs ----------------------------
(***************************************************************************)
(* Theorems of ExplorerReader, next to any indexer of IndexerProofs.  What *)
(* the client was told is kept by the database (ToldInv), whoever writes;  *)
(* that it is the truth of the node takes a target that is final.  The     *)
(* pages are the ranks of a strict total order, and a rank never shrinks.  *)
(***************************************************************************)
EXTENDS ExplorerReader, IndexerProofs, FiniteSetTheorems

\* A request is at one of its own calls.
AtOwnCall ==
    /\ epc \in {"block_row", "block_rpc"} => query.op = "block"
    /\ epc = "tx_row" => query.op = "tx"
    /\ epc \in {"tx_rpc", "receipt_rpc"} => query.op = "detail"
    /\ epc = "page_row" => query.op = "page" /\ ValidPage(query.page, query.size)

\* What was told from the database is still in it.
ToldInv ==
    /\ \A b \in Told : b \in Block /\ Known(b)
    /\ \A p \in Placed : p[1] \in Tx /\ p[2] \in Block /\ txs[p[1]].block = p[2]

\* A block that was final when it was answered is on the chain.
RepliedFinal ==
    epc = "answered" /\ query.op = "block" /\ reply.final =>
        /\ reply.block \in Block /\ NumberOf[reply.block] = query.number
        /\ OnFinalChain(reply.block)

-----------------------------------------------------------------------------
USE DEF Stored

(* The client only reads.                                                  *)

LEMMA EStepIsStep ==
    ASSUME [ENext]_evars
    PROVE  [IxNext]_ixvars
BY DEF ENext, Request, Serve, Done, ERestart, IxNext, GetBlock, GetIndexedTransaction,
   GetTxDetail, ListPage, Ask, Answer, Refuse, ReadBlockRow, AskBlock, ReadTxRow,
   AskTransaction, AskReceipt, ReadPage, CallFails, evars, ixvars

\* A client of the explorer changes nothing for the indexer.
THEOREM ExplorerReadsOnly == ESpec => IxSpec
<1>1. EInit => IxInit
  BY DEF EInit
<1> QED
  BY <1>1, EStepIsStep, PTL DEF ESpec, IxSpec

\* What the status of an answer can be: an error of a call is neither a
\* success nor a missing object.
LEMMA Statuses ==
    /\ \A f \in Failures : /\ MapError(RPCError(f)) \in {408, 500, 504}
                           /\ MapError(DBError(f)) \in {408, 500, 504}
    /\ MapError("ErrBlockNotFound") = 404 /\ MapError("ErrTxNotFound") = 404
    /\ MapError("ErrInvalidPagination") = 400
    /\ OK = 200 /\ NotFound = 404
<1>1. /\ MapError("ErrBlockNotFound") = 404 /\ MapError("ErrTxNotFound") = 404
      /\ MapError("ErrInvalidPagination") = 400
  BY DEF MapError, Invalid, Missing, Timeouts, Conflicting, BadRequest, NotFound
<1>2. /\ MapError("ErrRPCTimeout") = 504 /\ MapError("ErrDBTimeout") = 504
      /\ MapError("ErrRequestCanceled") = 408 /\ MapError("other") = 500
  BY DEF MapError, Invalid, Missing, Timeouts, Conflicting, BadRequest, NotFound
<1>3. /\ RPCError("timeout") = "ErrRPCTimeout" /\ DBError("timeout") = "ErrDBTimeout"
      /\ RPCError("canceled") = "ErrRequestCanceled"
      /\ DBError("canceled") = "ErrRequestCanceled"
      /\ RPCError("other") = "other" /\ DBError("other") = "other"
  BY DEF RPCError, DBError
<1>4. \A f \in Failures : f \in {"timeout", "canceled", "other"}
  BY DEF Failures
<1> QED
  BY <1>1, <1>2, <1>3, <1>4 DEF OK, NotFound

-----------------------------------------------------------------------------
(* Types.                                                                  *)

Replies == [status : {200, 400, 404, 408, 500, 504}, block : Block \cup {NoBlock},
            pending : BOOLEAN, final : BOOLEAN, items : SUBSET Tx]

ClientOK ==
    /\ epc \in {"idle", "answered"} \cup Calls
    /\ query \in Queries
    /\ reply \in Replies
    /\ known \in Memories

LEMMA ReplyFields ==
    ASSUME NEW r \in Replies, NEW f \in BOOLEAN, NEW b \in Block \cup {NoBlock}
    PROVE  /\ [r EXCEPT !.block = b] \in Replies
           /\ [r EXCEPT !.pending = f] \in Replies
           /\ [r EXCEPT !.final = f] \in Replies
BY DEF Replies

LEMMA ReplyTypes ==
    /\ NoReply \in Replies
    /\ \A b \in Block : BlockReply(b) \in Replies
    /\ \A p \in BOOLEAN, b \in Block \cup {NoBlock} : DetailReply(p, b) \in Replies
    /\ \A T \in SUBSET Tx : PageReply(T) \in Replies
    /\ \A v \in {200, 400, 404, 408, 500, 504} : [NoReply EXCEPT !.status = v] \in Replies
<1>1. NoReply \in Replies
  BY DEF NoReply, Replies, OK
<1>2. \A b \in Block : IsFinal(NumberOf[b]) \in BOOLEAN
  BY DEF IsFinal, HasBlock
<1>3. ASSUME NEW b \in Block
      PROVE  BlockReply(b) \in Replies
  <2>1. [NoReply EXCEPT !.block = b] \in Replies
    BY <1>1, ReplyFields
  <2> QED
    BY <1>2, <2>1, ReplyFields DEF BlockReply
<1>4. ASSUME NEW p \in BOOLEAN, NEW b \in Block \cup {NoBlock}
      PROVE  DetailReply(p, b) \in Replies
  <2>1. [NoReply EXCEPT !.pending = p] \in Replies
    BY <1>1, ReplyFields
  <2> QED
    BY <2>1, ReplyFields DEF DetailReply
<1>5. \A T \in SUBSET Tx : PageReply(T) \in Replies
  BY <1>1 DEF Replies, PageReply
<1>6. \A v \in {200, 400, 404, 408, 500, 504} : [NoReply EXCEPT !.status = v] \in Replies
  BY <1>1 DEF Replies
<1> QED
  BY <1>1, <1>3, <1>4, <1>5, <1>6

\* A refusal answers with its status.
LEMMA RefuseTypes ==
    ASSUME NEW e, MapError(e) \in {400, 404, 408, 500, 504}, ClientOK, Refuse(e)
    PROVE  epc' = "answered" /\ query' = query /\ reply' \in Replies
BY ReplyTypes DEF Refuse, Answer, ClientOK

LEMMA WalkTypes ==
    ASSUME NEW a \in Address, NEW page \in Pages, NEW size \in PageSizes, ClientOK
    PROVE  Turn(a, page, size) \in Memories
<1>1. TxsOf(a) \in SUBSET Tx
  BY DEF TxsOf
<1>2. [kind |-> "walk", address |-> a, size |-> size, page |-> 1, unseen |-> TxsOf(a)]
        \in Walks
  BY <1>1 DEF Walks
<1> QED
  BY <1>2 DEF Turn, Memories, ClientOK

LEMMA ClientStep ==
    ASSUME IInv, ClientOK, AtOwnCall, [ENext]_evars
    PROVE  ClientOK'
<1>0. /\ blocks \in [Numbers -> BlockRow] /\ txs \in [Tx -> TxRow] /\ NodeTypeOK
      /\ \A n \in DOMAIN chain : chain[n] \in Block
  BY ChainShape DEF IInv, TypeOK
<1>1. ASSUME NEW n \in Numbers, GetBlock(n)
      PROVE  ClientOK'
  BY <1>1 DEF GetBlock, Ask, ClientOK, Queries, Calls
<1>2. ASSUME NEW t \in Tx, GetIndexedTransaction(t) \/ GetTxDetail(t)
      PROVE  ClientOK'
  BY <1>2 DEF GetIndexedTransaction, GetTxDetail, Ask, ClientOK, Queries, Calls
<1>3. ASSUME NEW a \in Address, NEW page \in Pages, NEW size \in PageSizes,
             ListPage(a, page, size)
      PROVE  ClientOK'
  <2>1. known' \in Memories
    BY <1>3, WalkTypes DEF ListPage
  <2>2. /\ query' \in Queries /\ epc' \in {"page_row", "answered"}
        /\ reply' = reply \/ reply' = [NoReply EXCEPT !.status = 400]
    BY <1>3, Statuses DEF ListPage, Ask, Queries
  <2> QED
    BY <2>1, <2>2, ReplyTypes DEF ClientOK, Calls
<1>4. CASE ReadBlockRow
  <2>1. query.number \in Numbers
    BY <1>4 DEF ReadBlockRow, AtOwnCall, ClientOK, Queries
  <2>2. CASE Stored(query.number)
    <3>1. blocks[query.number].hash \in Block
      BY <1>0, <2>1, <2>2 DEF BlockRow
    <3>2. [kind |-> "block", block |-> blocks[query.number].hash] \in Memories
      BY <3>1 DEF Memories
    <3> QED
      BY <1>4, <2>2, <3>1, <3>2, ReplyTypes DEF ReadBlockRow, Answer, ClientOK
  <2>3. CASE ~Stored(query.number)
    BY <1>4, <2>3 DEF ReadBlockRow, ClientOK, Calls
  <2> QED
    BY <2>2, <2>3
<1>5. CASE AskBlock
  <2>1. CASE HasBlock(query.number)
    BY <1>0, <1>5, <2>1, ReplyTypes DEF AskBlock, HasBlock, Answer, ClientOK
  <2>2. CASE ~HasBlock(query.number)
    BY <1>5, <2>2, RefuseTypes, Statuses DEF AskBlock, ClientOK
  <2> QED
    BY <2>1, <2>2
<1>6. CASE ReadTxRow
  <2>1. query.tx \in Tx
    BY <1>6 DEF ReadTxRow, AtOwnCall, ClientOK, Queries
  <2>2. CASE Indexed(query.tx)
    <3>1. txs[query.tx].block \in Block
      BY <1>0, <2>1, <2>2 DEF Indexed, TxRow
    <3>2. /\ [kind |-> "place", tx |-> query.tx, block |-> txs[query.tx].block] \in Memories
          /\ IndexedReply(query.tx) \in Replies
      BY <2>1, <3>1, ReplyTypes DEF Memories, IndexedReply, Replies
    <3> QED
      BY <1>6, <2>2, <3>2 DEF ReadTxRow, Answer, ClientOK
  <2>3. CASE ~Indexed(query.tx)
    BY <1>6, <2>3, RefuseTypes, Statuses DEF ReadTxRow, ClientOK
  <2> QED
    BY <2>2, <2>3
<1>7. CASE AskTransaction
  <2>1. CASE Answer(DetailReply(TRUE, NoBlock))
    BY <1>7, <2>1, ReplyTypes DEF AskTransaction, Answer, ClientOK
  <2>2. CASE Refuse("ErrTxNotFound")
    BY <1>7, <2>2, RefuseTypes, Statuses DEF AskTransaction, ClientOK
  <2> QED
    BY <1>7, <2>1, <2>2 DEF AskTransaction, ClientOK, Calls
<1>8. CASE AskReceipt
  <2>1. Mined(query.tx) => MinedIn(query.tx) \in Block
    BY <1>0 DEF Mined, MinedIn
  <2>2. PICK b \in Block \cup {NoBlock} : Answer(DetailReply(FALSE, b))
    BY <1>8, <2>1 DEF AskReceipt
  <2>3. DetailReply(FALSE, b) \in Replies
    BY ReplyTypes
  <2> QED
    BY <1>8, <2>2, <2>3 DEF AskReceipt, Answer, ClientOK
<1>9. CASE ReadPage
  <2>1. \A a, l, o : ListTransactionsByAddress(a, l, o) \in SUBSET Tx
    BY DEF ListTransactionsByAddress, TxsOf
  <2>2. \A I : Walking => [known EXCEPT !.page = @ + 1, !.unseen = @ \ I] \in Memories
    <3> SUFFICES ASSUME NEW I, Walking
                 PROVE  [known EXCEPT !.page = @ + 1, !.unseen = @ \ I] \in Walks
      BY DEF Memories
    <3>1. known \in Walks
      BY DEF Walking, ClientOK, Memories, Nothing
    <3>2. known.page + 1 \in Nat /\ known.unseen \ I \in SUBSET Tx
      BY <3>1 DEF Walks
    <3> QED
      BY <3>1, <3>2 DEF Walks
  <2> QED
    BY <1>9, <2>1, <2>2, ReplyTypes DEF ReadPage, Answer, ClientOK
<1>10. ASSUME NEW f \in Failures, CallFails(f)
       PROVE  ClientOK'
  <2>1. CASE Refuse(RPCError(f))
    BY <1>10, <2>1, RefuseTypes, Statuses DEF CallFails, ClientOK
  <2>2. CASE Refuse(DBError(f))
    BY <1>10, <2>2, RefuseTypes, Statuses DEF CallFails, ClientOK
  <2> QED
    BY <1>10, <2>1, <2>2 DEF CallFails
<1>11. CASE Done
  BY <1>11, ReplyTypes DEF Done, ClientOK, Queries, NoQuery, Memories
<1>12. CASE ERestart
  BY <1>12, ReplyTypes DEF ERestart, ClientOK, Queries, NoQuery
<1>13. CASE UNCHANGED client
  BY <1>13 DEF client, ClientOK
<1> QED
  BY <1>1, <1>2, <1>3, <1>4, <1>5, <1>6, <1>7, <1>8, <1>9, <1>10, <1>11, <1>12, <1>13
     DEF ENext, Request, Serve, client, evars

LEMMA OwnCallStep ==
    ASSUME AtOwnCall, [ENext]_evars
    PROVE  AtOwnCall'
<1>1. CASE Request
  BY <1>1 DEF Request, GetBlock, GetIndexedTransaction, GetTxDetail, ListPage, Ask, AtOwnCall,
     ValidPage
<1>2. CASE Serve
  BY <1>2 DEF Serve, ReadBlockRow, AskBlock, ReadTxRow, AskTransaction, AskReceipt, ReadPage,
     CallFails, Answer, Refuse, AtOwnCall
<1>3. CASE Done \/ ERestart
  BY <1>3 DEF Done, ERestart, AtOwnCall
<1>4. CASE UNCHANGED client
  BY <1>4 DEF client, AtOwnCall, ValidPage
<1> QED
  BY <1>1, <1>2, <1>3, <1>4 DEF ENext, client, evars

LEMMA EInvariance == ESpec => [](ClientOK /\ AtOwnCall)
<1>1. EInit => ClientOK /\ AtOwnCall
  BY ReplyTypes DEF EInit, ClientOK, AtOwnCall, Queries, NoQuery, Memories
<1>2. IInv /\ ClientOK /\ AtOwnCall /\ [ENext]_evars => (ClientOK /\ AtOwnCall)'
  BY ClientStep, OwnCallStep
<1> QED
  BY ExplorerReadsOnly, IxInvariance, <1>1, <1>2, PTL DEF ESpec

\* The types of the client's requests, answers and memory.
THEOREM ETypeCorrect == ESpec => []ETypeOK
<1>1. IxTypeOK /\ ClientOK => ETypeOK
  BY DEF ClientOK, Replies, ETypeOK
<1> QED
  BY ExplorerReadsOnly, IxInvariance, EInvariance, <1>1, PTL

-----------------------------------------------------------------------------
(* The memory.                                                             *)

\* What a step does to what the client knows of blocks and places.
LEMMA KnownSteps ==
    ASSUME [ENext]_evars
    PROVE  \/ known' = known
           \/ known'.kind \in {"nothing", "walk"}
           \/ /\ epc = "block_row" /\ Stored(query.number) /\ UNCHANGED <<blocks, txs>>
              /\ known' = [kind |-> "block", block |-> blocks[query.number].hash]
           \/ /\ epc = "tx_row" /\ Indexed(query.tx) /\ UNCHANGED <<blocks, txs>>
              /\ known' = [kind |-> "place", tx |-> query.tx, block |-> txs[query.tx].block]
<1>1. CASE Request
  <2>1. \A a, page, size : \/ Turn(a, page, size) = known
                          \/ Turn(a, page, size).kind \in {"nothing", "walk"}
    BY DEF Turn, Nothing
  <2>2. \/ known' = known
        \/ \E a \in Address, page \in Pages, size \in PageSizes : known' = Turn(a, page, size)
    BY <1>1 DEF Request, GetBlock, GetIndexedTransaction, GetTxDetail, ListPage
  <2> QED
    BY <2>1, <2>2
<1>2. CASE ReadPage
  <2>1. CASE Walking
    <3>1. PICK I : known' = [known EXCEPT !.page = @ + 1, !.unseen = @ \ I]
      BY <1>2, <2>1 DEF ReadPage
    <3>2. known'.kind = known.kind
      BY <3>1
    <3> QED
      BY <2>1, <3>2 DEF Walking
  <2> QED
    BY <1>2, <2>1 DEF ReadPage
<1>3. CASE ReadBlockRow \/ ReadTxRow
  BY <1>3 DEF ReadBlockRow, ReadTxRow, Answer, ixvars
<1>4. CASE AskBlock \/ AskTransaction \/ AskReceipt \/ \E f \in Failures : CallFails(f)
  BY <1>4 DEF AskBlock, AskTransaction, AskReceipt, CallFails
<1>5. CASE Done \/ ERestart
  BY <1>5 DEF Done, ERestart, Nothing
<1>6. CASE UNCHANGED client
  BY <1>6 DEF client
<1> QED
  BY <1>1, <1>2, <1>3, <1>4, <1>5, <1>6 DEF ENext, Serve, client, evars

LEMMA ToldStep ==
    ASSUME IInv, IxTypeOK, ClientOK, AtOwnCall, ToldInv, [ENext]_evars
    PROVE  ToldInv'
<1>0. /\ [Next]_vars /\ blocks \in [Numbers -> BlockRow] /\ txs \in [Tx -> TxRow]
      /\ NoBlock \notin Block /\ RowNumber
  BY EStepIsStep, StepIsStep, NodeAssumption DEF IInv, TypeOK
<1>1. CASE known' = known
  <2>1. ASSUME NEW b \in Told
        PROVE  b \in Block /\ Known(b)'
    <3>1. b \in Block /\ Known(b) /\ NumberOf[b] \in Numbers
      BY <2>1, NodeAssumption DEF ToldInv
    <3>2. Stored(NumberOf[b])
      BY <1>0, <3>1 DEF Known
    <3> QED
      BY <1>0, <3>1, <3>2, RowsStay DEF Known
  <2>2. ASSUME NEW p \in Placed
        PROVE  p[1] \in Tx /\ p[2] \in Block /\ txs'[p[1]].block = p[2]
    <3>1. p[1] \in Tx /\ p[2] \in Block /\ txs[p[1]].block = p[2]
      BY <2>2 DEF ToldInv
    <3>2. Indexed(p[1])
      BY <1>0, <3>1 DEF Indexed
    <3> QED
      BY <1>0, <3>1, <3>2, PlacesStay
  <2>3. Told' = Told /\ Placed' = Placed
    BY <1>1 DEF Told, Placed
  <2> QED
    BY <2>1, <2>2, <2>3 DEF ToldInv, Known
<1>2. CASE known'.kind \in {"nothing", "walk"}
  BY <1>2 DEF ToldInv, Told, Placed
<1>3. CASE /\ epc = "block_row" /\ Stored(query.number) /\ UNCHANGED <<blocks, txs>>
           /\ known' = [kind |-> "block", block |-> blocks[query.number].hash]
  <2> DEFINE b == blocks[query.number].hash
  <2>1. query.number \in Numbers
    BY <1>3 DEF AtOwnCall, ClientOK, Queries
  <2>2. b \in Block /\ NumberOf[b] = query.number
    BY <1>0, <1>3, <2>1 DEF BlockRow, RowNumber
  <2>3. Told' = {b} /\ Placed' = {}
    BY <1>3 DEF Told, Placed
  <2>4. \A c : c = b => Known(c)'
    BY <1>3, <2>2 DEF Known
  <2> QED
    BY <2>2, <2>3, <2>4 DEF ToldInv
<1>4. CASE /\ epc = "tx_row" /\ Indexed(query.tx) /\ UNCHANGED <<blocks, txs>>
           /\ known' = [kind |-> "place", tx |-> query.tx, block |-> txs[query.tx].block]
  <2>1. query.tx \in Tx
    BY <1>4 DEF AtOwnCall, ClientOK, Queries
  <2>2. txs[query.tx].block \in Block
    BY <1>0, <1>4, <2>1 DEF Indexed, TxRow
  <2>3. Told' = {} /\ Placed' = {<<query.tx, txs[query.tx].block>>}
    BY <1>4 DEF Told, Placed
  <2> QED
    BY <1>4, <2>1, <2>2, <2>3 DEF ToldInv
<1> QED
  BY <1>1, <1>2, <1>3, <1>4, KnownSteps

LEMMA ToldInvariance == ESpec => []ToldInv
<1>1. EInit => ToldInv
  BY DEF EInit, ToldInv, Told, Placed, Nothing
<1>2. IInv /\ IxTypeOK /\ ClientOK /\ AtOwnCall /\ ToldInv /\ [ENext]_evars => ToldInv'
  BY ToldStep
<1> QED
  BY ExplorerReadsOnly, IxInvariance, EInvariance, <1>1, <1>2, PTL DEF ESpec

\* What has been told is not denied.
LEMMA DeniedStep ==
    ASSUME IInv, IxTypeOK, RowHasItsTxs, ClientOK, AtOwnCall, ToldInv, ToldInv', NeverDenied,
           [ENext]_evars
    PROVE  NeverDenied'
<1> SUFFICES ASSUME Answered("tx", NotFound)'
             PROVE  /\ \A p \in Placed' : p[1] # query'.tx
                    /\ \A b \in Told' : query'.tx \notin BlockTxs(b)
  BY DEF NeverDenied
<1>0. epc' = "answered" /\ query'.op = "tx" /\ reply'.status = 404
  BY Statuses DEF Answered
<1>1. CASE UNCHANGED client
  <2>1. Answered("tx", NotFound) /\ Told' = Told /\ Placed' = Placed /\ query' = query
    BY <1>1 DEF client, Answered, Told, Placed
  <2> QED
    BY <2>1 DEF NeverDenied
<1>2. CASE Request
  BY <1>0, <1>2 DEF Request, GetBlock, GetIndexedTransaction, GetTxDetail, ListPage, Ask
<1>3. CASE ReadTxRow
  <2>1. ~Indexed(query.tx) /\ UNCHANGED <<known, query, blocks, txs>>
    <3>1. CASE Indexed(query.tx)
      BY <1>0, <1>3, <3>1 DEF ReadTxRow, Answer, IndexedReply, NoReply, OK
    <3> QED
      BY <1>3, <3>1 DEF ReadTxRow, Refuse, Answer, ixvars
  <2>2. query.tx \in Tx /\ Told' = Told /\ Placed' = Placed
    BY <1>3, <2>1 DEF ReadTxRow, AtOwnCall, ClientOK, Queries, Told, Placed
  <2>3. ASSUME NEW b \in Told
        PROVE  query.tx \notin BlockTxs(b)
    <3>1. b \in Block /\ Known(b) /\ b # NoBlock /\ NumberOf[b] \in Numbers
      BY <2>3, NodeAssumption DEF ToldInv
    <3>2. \A t \in BlockTxs(b) : txs[t].block = b
      BY <3>1 DEF RowHasItsTxs, Known
    <3> QED
      BY <2>1, <3>1, <3>2 DEF Indexed
  <2>4. ASSUME NEW p \in Placed
        PROVE  p[1] # query.tx
    BY <2>1, <2>4, NodeAssumption DEF ToldInv, Indexed
  <2> QED
    BY <2>1, <2>2, <2>3, <2>4
<1>4. CASE ReadBlockRow \/ AskBlock \/ AskTransaction \/ AskReceipt \/ ReadPage
  <2>1. query' = query /\ epc \notin {"tx_row", "idle", "answered"} /\ epc \in Calls
    BY <1>4 DEF ReadBlockRow, AskBlock, AskTransaction, AskReceipt, ReadPage, Answer, Refuse, Calls
  <2> QED
    BY <1>0, <2>1 DEF AtOwnCall, Calls
<1>5. ASSUME NEW f \in Failures, CallFails(f)
      PROVE  FALSE
  <2>1. \E v \in {408, 500, 504} : reply' = [NoReply EXCEPT !.status = v]
    BY <1>5, Statuses DEF CallFails, Refuse, Answer
  <2> QED
    BY <1>0, <2>1 DEF NoReply
<1>6. CASE Done \/ ERestart
  BY <1>0, <1>6 DEF Done, ERestart
<1> QED
  BY <1>1, <1>2, <1>3, <1>4, <1>5, <1>6 DEF ENext, Serve, client, evars

LEMMA InitDenied == EInit => NeverDenied
BY DEF EInit, NeverDenied, Answered

\* What the index has told is not denied later: a transaction it found, or one
\* of a block that was read from the database.  For one sync at a time ...
THEOREM AloneNeverDenied == ASSUME Alone PROVE ESpec => []NeverDenied
<1>1. AloneInv => RowHasItsTxs
  BY DEF AloneInv, Places
<1>2. /\ IInv /\ IxTypeOK /\ RowHasItsTxs /\ ClientOK /\ AtOwnCall /\ ToldInv /\ ToldInv'
      /\ NeverDenied /\ [ENext]_evars
      => NeverDenied'
  BY DeniedStep
<1> QED
  BY ExplorerReadsOnly, IndexerIsSync, IxInvariance, AloneInvariance, EInvariance,
     ToldInvariance, InitDenied, <1>1, <1>2, PTL DEF ESpec

\* ... or a target that is final, with any number of callers (GetBlock,
\* GetIndexedTransaction).
THEOREM FinalNeverDenied == ASSUME TargetFinal PROVE ESpec => []NeverDenied
<1>1. FinalIxInv => RowHasItsTxs
  BY DEF FinalIxInv, FinalInv, Places
<1>2. /\ IInv /\ IxTypeOK /\ RowHasItsTxs /\ ClientOK /\ AtOwnCall /\ ToldInv /\ ToldInv'
      /\ NeverDenied /\ [ENext]_evars
      => NeverDenied'
  BY DeniedStep
<1> QED
  BY ExplorerReadsOnly, IxInvariance, FinalIxInvariance, EInvariance,
     ToldInvariance, InitDenied, <1>1, <1>2, PTL DEF ESpec

-----------------------------------------------------------------------------
(* The index and the node, with a target that is final.                    *)

\* What was told from the database is on the node's chain.
LEMMA ToldOnChain ==
    ASSUME IInv, FinalIxInv, ToldInv
    PROVE  /\ \A b \in Told : OnFinalChain(b)
           /\ \A p \in Placed : /\ OnFinalChain(p[2])
                                /\ p[1] \in BlockTxs(p[2])
<1>0. NoBlock \notin Block /\ \A b \in Block : NumberOf[b] \in Numbers
  BY NodeAssumption
<1>1. \A b \in Block : Known(b) => OnFinalChain(b)
  BY <1>0 DEF Known, FinalIxInv, FinalInv, RowsFinal
<1>2. ASSUME NEW p \in Placed
      PROVE  Known(p[2]) /\ p[1] \in BlockTxs(p[2])
  <2>1. p[1] \in Tx /\ p[2] \in Block /\ txs[p[1]].block = p[2]
    BY <1>2 DEF ToldInv
  <2>2. Indexed(p[1])
    BY <1>0, <2>1 DEF Indexed
  <2> QED
    BY <2>1, <2>2 DEF FinalIxInv, FinalInv, Places, TxBelongsToRow, TxOfItsBlock, Known
<1> QED
  BY <1>1, <1>2 DEF ToldInv

LEMMA RepliedFinalStep ==
    ASSUME IInv, IxTypeOK, FinalIxInv, ClientOK, AtOwnCall, RepliedFinal, [ENext]_evars
    PROVE  RepliedFinal'
<1>0. /\ [Next]_vars /\ NodeTypeOK /\ NoBlock \notin Block
      /\ \A b \in Block : NumberOf[b] \in Numbers
  BY EStepIsStep, StepIsStep, NodeAssumption DEF IInv, TypeOK
<1>1. ASSUME NEW b \in Block, OnFinalChain(b)
      PROVE  NumberOf[b] + FinalDepth \in DOMAIN chain' /\ chain'[NumberOf[b]] = b
  BY <1>0, <1>1, FinalStays
<1>2. CASE UNCHANGED client
  <2>1. epc' = epc /\ query' = query /\ reply' = reply
    BY <1>2 DEF client
  <2> QED
    BY <1>1, <2>1 DEF RepliedFinal, OnFinalChain, IsFinal, HasBlock
<1>3. CASE ReadBlockRow \/ AskBlock
  <2>1. query.number \in Numbers /\ query' = query /\ UNCHANGED chain
    BY <1>3 DEF ReadBlockRow, AskBlock, Refuse, Answer, AtOwnCall, ClientOK, Queries,
       ixvars
  <2>2. ASSUME NEW b \in Block, NumberOf[b] = query.number, reply' = BlockReply(b),
               OnFinalChain(b) \/ chain[query.number] = b
        PROVE  RepliedFinal'
    <3>1. reply'.block = b /\ (reply'.final <=> IsFinal(NumberOf[b]))
      BY <2>2 DEF BlockReply, NoReply, IsFinal, HasBlock
    <3> QED
      BY <2>1, <2>2, <3>1 DEF RepliedFinal, OnFinalChain, IsFinal, HasBlock
  <2>3. CASE ReadBlockRow /\ Stored(query.number)
    <3> DEFINE b == blocks[query.number].hash
    <3>1. b \in Block /\ NumberOf[b] = query.number /\ OnFinalChain(b)
      BY <2>1, <2>3 DEF IInv, TypeOK, BlockRow, RowNumber, FinalIxInv, FinalInv, RowsFinal
    <3>2. reply' = BlockReply(b)
      BY <2>3 DEF ReadBlockRow, Answer
    <3> QED
      BY <2>2, <3>1, <3>2
  <2>4. CASE ReadBlockRow /\ ~Stored(query.number)
    BY <2>4 DEF ReadBlockRow, RepliedFinal
  <2>5. CASE AskBlock /\ HasBlock(query.number)
    <3> DEFINE b == chain[query.number]
    <3>1. b \in Block /\ NumberOf[b] = query.number
      BY <1>0, <2>5, ChainShape DEF HasBlock
    <3>2. reply' = BlockReply(b)
      BY <2>5 DEF AskBlock, Answer
    <3> QED
      BY <2>2, <3>1, <3>2
  <2>6. CASE AskBlock /\ ~HasBlock(query.number)
    BY <2>6 DEF AskBlock, Refuse, Answer, RepliedFinal, NoReply
  <2> QED
    BY <1>3, <2>3, <2>4, <2>5, <2>6
<1>4. CASE ReadTxRow \/ AskTransaction \/ AskReceipt \/ ReadPage
  <2>1. query' = query /\ query.op # "block"
    BY <1>4 DEF ReadTxRow, AskTransaction, AskReceipt, ReadPage, Answer, Refuse, AtOwnCall
  <2> QED
    BY <2>1 DEF RepliedFinal
<1>5. CASE Request
  BY <1>5 DEF Request, GetBlock, GetIndexedTransaction, GetTxDetail, ListPage, Ask, RepliedFinal
<1>6. CASE Done \/ ERestart
  BY <1>6 DEF Done, ERestart, RepliedFinal
<1>7. CASE \E f \in Failures : CallFails(f)
  <2>1. \E v : reply' = [NoReply EXCEPT !.status = v]
    BY <1>7 DEF CallFails, Refuse, Answer
  <2>2. ~reply'.final
    BY <2>1 DEF NoReply
  <2> QED
    BY <2>2 DEF RepliedFinal
<1> QED
  BY <1>2, <1>3, <1>4, <1>5, <1>6, <1>7 DEF ENext, Serve, client, evars

\* With a target that is final, the database and the node tell one chain: a
\* block or a place told from the index, now or earlier, and a final block
\* told by the node are on the chain (GetBlock, GetIndexedTransaction).
THEOREM FinalOneChainTold == ASSUME TargetFinal PROVE ESpec => []OneChainTold
<1>1. EInit => RepliedFinal
  BY DEF EInit, RepliedFinal
<1>2. /\ IInv /\ IxTypeOK /\ FinalIxInv /\ ClientOK /\ AtOwnCall /\ RepliedFinal
      /\ [ENext]_evars
      => RepliedFinal'
  BY RepliedFinalStep
<1>3. IInv /\ FinalIxInv /\ ToldInv /\ RepliedFinal => OneChainTold
  <2> SUFFICES ASSUME IInv, FinalIxInv, ToldInv, RepliedFinal
               PROVE  OneChainTold
    OBVIOUS
  <2>1. \A b \in Block : OnFinalChain(b) =>
          HasBlock(NumberOf[b]) /\ chain[NumberOf[b]] = b
    BY FinalInChain, NodeAssumption DEF OnFinalChain, HasBlock
  <2>2. /\ \A b \in Told : b \in Block /\ OnFinalChain(b)
        /\ \A p \in Placed : p[2] \in Block /\ OnFinalChain(p[2])
    BY ToldOnChain DEF ToldInv
  <2>3. Answered("block", OK) /\ reply.final => chain[query.number] = reply.block
    BY <2>1 DEF RepliedFinal, Answered
  <2> QED
    BY <2>1, <2>2, <2>3 DEF OneChainTold
<1> QED
  BY ExplorerReadsOnly, IxInvariance, FinalIxInvariance, EInvariance, ToldInvariance,
     <1>1, <1>2, <1>3, PTL DEF ESpec

\* A transaction on the chain is mined in one block of it.
LEMMA MinedOnce ==
    ASSUME IInv, NEW b \in Block, OnFinalChain(b), NEW t \in BlockTxs(b)
    PROVE  Mined(t) /\ MinedIn(t) = b
<1>1. NumberOf[b] \in DOMAIN chain /\ chain[NumberOf[b]] = b
  BY FinalInChain, NodeAssumption DEF OnFinalChain
<1>2. \A m, n \in DOMAIN chain : t \in BlockTxs(chain[m]) /\ t \in BlockTxs(chain[n]) => m = n
  BY ChainShape DEF IInv, TypeOK
<1>3. (CHOOSE n \in DOMAIN chain : t \in BlockTxs(chain[n])) = NumberOf[b]
  BY <1>1, <1>2
<1> QED
  BY <1>1, <1>3 DEF Mined, MinedIn

LEMMA ConfirmedStep ==
    ASSUME IInv, IxTypeOK, FinalIxInv, ~ReceiptMayLag, ClientOK, AtOwnCall, ToldInv,
           IndexedIsConfirmed, [ENext]_evars
    PROVE  IndexedIsConfirmed'
<1> SUFFICES ASSUME epc' = "answered", query'.op = "detail",
                    NEW p \in Placed', p[1] = query'.tx
             PROVE  /\ reply'.status # 404
                    /\ reply'.status = 200 => ~reply'.pending /\ reply'.block = p[2]
  BY Statuses DEF IndexedIsConfirmed
<1>1. CASE UNCHANGED client
  <2>1. epc' = epc /\ query' = query /\ reply' = reply /\ Placed' = Placed
    BY <1>1 DEF client, Placed
  <2> QED
    BY <2>1, Statuses DEF IndexedIsConfirmed
<1>2. CASE Request
  BY <1>2 DEF Request, GetBlock, GetIndexedTransaction, GetTxDetail, ListPage, Ask
<1>3. CASE AskTransaction \/ AskReceipt
  <2>1. UNCHANGED <<known, query>>
    BY <1>3 DEF AskTransaction, AskReceipt, Answer, Refuse
  <2>2. p \in Placed /\ p[1] = query.tx
    BY <2>1 DEF Placed
  <2>3. /\ p[2] \in Block /\ OnFinalChain(p[2]) /\ query.tx \in BlockTxs(p[2])
    BY <2>2, ToldOnChain DEF ToldInv
  <2>4. Mined(query.tx) /\ MinedIn(query.tx) = p[2]
    BY <2>3, MinedOnce
  <2>5. reply' = DetailReply(FALSE, p[2])
    BY <1>3, <2>4 DEF AskTransaction, AskReceipt, Answer
  <2> QED
    BY <2>5 DEF DetailReply, NoReply, OK
<1>4. CASE ReadBlockRow \/ AskBlock \/ ReadTxRow \/ ReadPage
  <2>1. query' = query /\ query.op # "detail"
    BY <1>4 DEF ReadBlockRow, AskBlock, ReadTxRow, ReadPage, Answer, Refuse, AtOwnCall
  <2> QED
    BY <2>1
<1>5. ASSUME NEW f \in Failures, CallFails(f)
      PROVE  reply'.status \in {408, 500, 504}
  <2>1. \E v \in {408, 500, 504} : reply' = [NoReply EXCEPT !.status = v]
    BY <1>5, Statuses DEF CallFails, Refuse, Answer
  <2> QED
    BY <2>1 DEF NoReply
<1>6. CASE Done \/ ERestart
  BY <1>6 DEF Done, ERestart
<1> QED
  BY <1>1, <1>2, <1>3, <1>4, <1>5, <1>6 DEF ENext, Serve, client, evars

\* With a target that is final and a node that has its receipts, a transaction
\* that the index has told is mined for the node, in the same block, although
\* the detail is put together from two calls (GetTxDetailByHashFromRPC).
THEOREM FinalIndexedIsConfirmed ==
    ASSUME TargetFinal, ~ReceiptMayLag
    PROVE  ESpec => []IndexedIsConfirmed
<1>1. EInit => IndexedIsConfirmed
  BY DEF EInit, IndexedIsConfirmed
<1>2. /\ IInv /\ IxTypeOK /\ FinalIxInv /\ ClientOK /\ AtOwnCall /\ ToldInv
      /\ IndexedIsConfirmed /\ [ENext]_evars
      => IndexedIsConfirmed'
  BY ConfirmedStep
<1> QED
  BY ExplorerReadsOnly, IxInvariance, FinalIxInvariance, EInvariance, ToldInvariance,
     <1>1, <1>2, PTL DEF ESpec

-----------------------------------------------------------------------------
(* A finite set in a strict total order: every height up to that of an     *)
(* element is the height of an element.                                    *)

StrictOrder(R, S) ==
    /\ \A x \in S : <<x, x>> \notin R
    /\ \A x, y, z \in S : <<x, y>> \in R /\ <<y, z>> \in R => <<x, z>> \in R
    /\ \A x, y \in S : x # y => <<x, y>> \in R \/ <<y, x>> \in R

\* What comes before t, and how much that is.
Below(R, S, t) == {u \in S : <<u, t>> \in R}

Height(R, S, t) == Cardinality(Below(R, S, t))

\* An earlier element has fewer before it.
LEMMA HeightGrows ==
    ASSUME NEW R, NEW S, IsFiniteSet(S), StrictOrder(R, S),
           NEW u \in S, NEW t \in S, <<u, t>> \in R
    PROVE  /\ Height(R, S, u) \in Nat /\ Height(R, S, t) \in Nat
           /\ Below(R, S, u) \subseteq Below(R, S, t) /\ Below(R, S, u) # Below(R, S, t)
           /\ Height(R, S, u) < Height(R, S, t)
<1>1. \A x \in S : IsFiniteSet(Below(R, S, x)) /\ Height(R, S, x) \in Nat
  BY FS_Subset, FS_CardinalityType DEF Below, Height
<1>2. Below(R, S, u) \subseteq Below(R, S, t) /\ Below(R, S, u) # Below(R, S, t)
  BY DEF StrictOrder, Below
<1>3. Height(R, S, u) <= Height(R, S, t) /\ Height(R, S, u) # Height(R, S, t)
  BY <1>1, <1>2, FS_Subset DEF Height
<1> QED
  BY <1>1, <1>2, <1>3

\* Below a height that occurs, every height occurs.
LEMMA NoHole ==
    ASSUME NEW R, NEW S, IsFiniteSet(S), StrictOrder(R, S),
           NEW t \in S, NEW j \in Nat, j <= Height(R, S, t)
    PROVE  \E u \in S : Height(R, S, u) = j
<1> DEFINE H(x) == Height(R, S, x)
           B(x) == Below(R, S, x)
           T == {B(x) : x \in {y \in S : j <= H(y)}}
<1>0. \A x \in S : IsFiniteSet(B(x)) /\ H(x) \in Nat /\ B(x) \subseteq S
  BY FS_Subset, FS_CardinalityType DEF Below, Height
<1>1. T \subseteq FiniteSubsetsOf(S) /\ T # {}
  BY <1>0 DEF FiniteSubsetsOf
<1>2. PICK b \in T : \A c \in T : <<c, b>> \notin StrictSubsetOrdering(S)
  BY <1>1, WFMin, FS_StrictSubsetOrderingWellFounded
<1>3. PICK u \in S : b = B(u) /\ j <= H(u)
  BY <1>2
<1>4. ASSUME NEW v \in B(u)
      PROVE  v \in S /\ H(v) < j
  <2>1. v \in S /\ <<v, u>> \in R
    BY DEF Below
  <2>2. B(v) \subseteq B(u) /\ B(v) # B(u)
    BY <1>3, <2>1, HeightGrows
  <2>3. B(v) \notin T
    BY <1>0, <1>2, <1>3, <2>1, <2>2 DEF StrictSubsetOrdering
  <2> QED
    BY <1>0, <2>1, <2>3
<1>5. \A v, w \in B(u) : H(v) = H(w) => v = w
  <2> SUFFICES ASSUME NEW v \in B(u), NEW w \in B(u), H(v) = H(w), v # w
               PROVE  FALSE
    OBVIOUS
  <2>1. v \in S /\ w \in S
    BY <1>4
  <2>2. <<v, w>> \in R \/ <<w, v>> \in R
    BY <2>1 DEF StrictOrder
  <2> QED
    BY <2>1, <2>2, HeightGrows
<1>6. H(u) <= j
  <2> DEFINE f == [v \in B(u) |-> H(v)]
  <2>1. f \in [B(u) -> 0..(j - 1)]
    BY <1>0, <1>4
  <2>2. f \in Injection(B(u), 0..(j - 1))
    BY <1>5, <2>1 DEF Injection, IsInjective
  <2>3. IsFiniteSet(0..(j - 1)) /\ Cardinality(0..(j - 1)) = j
    BY FS_Interval
  <2>4. Cardinality(B(u)) <= j
    BY <2>2, <2>3, FS_Injection
  <2> QED
    BY <2>4 DEF Height
<1> QED
  BY <1>0, <1>3, <1>6

\* A slice of heights with an element above it is full.
LEMMA FullSlice ==
    ASSUME NEW R, NEW S, IsFiniteSet(S), StrictOrder(R, S),
           NEW t \in S, NEW k \in Nat, NEW l \in Nat, k + l <= Height(R, S, t)
    PROVE  l <= Cardinality({u \in S : k <= Height(R, S, u) /\ Height(R, S, u) < k + l})
<1> DEFINE H(x) == Height(R, S, x)
           I == {u \in S : k <= H(u) /\ H(u) < k + l}
           f == [u \in I |-> H(u)]
<1>0. IsFiniteSet(I) /\ Cardinality(I) \in Nat
  BY FS_Subset, FS_CardinalityType
<1>1. \A x \in S : H(x) \in Nat
  BY FS_Subset, FS_CardinalityType DEF Below, Height
<1>2. f \in [I -> k..(k + l - 1)]
  BY <1>1
<1>3. ASSUME NEW j \in k..(k + l - 1)
      PROVE  \E u \in I : f[u] = j
  <2>1. j \in Nat /\ k <= j /\ j < k + l
    OBVIOUS
  <2>2. j <= H(t)
    BY <1>1, <2>1
  <2>3. PICK u \in S : H(u) = j
    BY <2>1, <2>2, NoHole
  <2> QED
    BY <2>1, <2>3
<1>4. f \in Surjection(I, k..(k + l - 1))
  BY <1>2, <1>3 DEF Surjection
<1>5. Cardinality(k..(k + l - 1)) = l
  BY FS_Interval
<1> QED
  BY <1>0, <1>4, <1>5, FS_Surjection

-----------------------------------------------------------------------------
(* Ranks.                                                                  *)

\* The position of a transaction is its place in the list of its block.
PositionsDiffer ==
    \A b \in Block : \A t, u \in BlockTxs(b) : t # u => TxIndex[b][t] # TxIndex[b][u]

\* No page that is asked for is so far back that its offset wraps.
NoWrap ==
    \A page \in Pages, size \in PageSizes :
        ValidPage(page, size) => (page - 1) * size <= MaxInt

Order(a) == {p \in TxsOf(a) \X TxsOf(a) : Before(p[1], p[2])}

LEMMA RankIsHeight ==
    ASSUME NEW a, NEW t \in TxsOf(a)
    PROVE  Rank(a, t) = Height(Order(a), TxsOf(a), t) + 1
<1>1. {u \in TxsOf(a) : Before(u, t)} = Below(Order(a), TxsOf(a), t)
  BY DEF Below, Order
<1> QED
  BY <1>1 DEF Rank, Height

\* The pages are ordered by number, then position: two transactions of one
\* number are of one block.
LEMMA PagesAreOrdered ==
    ASSUME IInv, Places, PositionsDiffer, NEW a
    PROVE  StrictOrder(Order(a), TxsOf(a))
<1> DEFINE N(t) == NumberOf[txs[t].block]
           I(t) == TxIndex[txs[t].block][t]
<1>1. ASSUME NEW t \in TxsOf(a)
      PROVE  N(t) \in Nat /\ I(t) \in Nat
  <2>1. txs[t].block \in Block /\ t \in BlockTxs(txs[t].block)
    BY <1>1 DEF TxsOf, Indexed, IInv, TypeOK, TxRow, Places, TxOfItsBlock
  <2>2. TxIndex[txs[t].block] \in [BlockTxs(txs[t].block) -> Nat]
    BY <2>1, NodeAssumption DEF Position
  <2>3. NumberOf[txs[t].block] \in Nat
    BY <2>1, NodeAssumption DEF Numbers
  <2> QED
    BY <2>1, <2>2, <2>3
<1>2. ASSUME NEW t \in TxsOf(a), NEW u \in TxsOf(a), t # u, N(t) = N(u)
      PROVE  I(t) # I(u)
  <2>1. /\ txs[t].block \in Block /\ t \in BlockTxs(txs[t].block)
        /\ txs[u].block \in Block /\ u \in BlockTxs(txs[u].block)
    BY DEF TxsOf, Indexed, IInv, TypeOK, TxRow, Places, TxOfItsBlock
  <2>2. txs[t].block = txs[u].block
    BY <1>2 DEF TxsOf, Places, TxBelongsToRow
  <2> QED
    BY <1>2, <2>1, <2>2 DEF PositionsDiffer
<1>3. \A t, u \in TxsOf(a) :
        <<t, u>> \in Order(a) <=> N(t) > N(u) \/ (N(t) = N(u) /\ I(t) > I(u))
  BY DEF Order, Before
<1> HIDE DEF N, I
<1>4. \A t \in TxsOf(a) : <<t, t>> \notin Order(a)
  BY <1>1, <1>3
<1>5. \A t, u, v \in TxsOf(a) :
        <<t, u>> \in Order(a) /\ <<u, v>> \in Order(a) => <<t, v>> \in Order(a)
  BY <1>1, <1>3
<1>6. \A t, u \in TxsOf(a) : t # u => <<t, u>> \in Order(a) \/ <<u, t>> \in Order(a)
  BY <1>1, <1>2, <1>3
<1> QED
  BY <1>4, <1>5, <1>6 DEF StrictOrder

LEMMA RankType ==
    ASSUME IsFiniteSet(Tx), NEW a, NEW t
    PROVE  Rank(a, t) \in Nat /\ Rank(a, t) > 0
<1>1. {u \in TxsOf(a) : Before(u, t)} \in SUBSET Tx
  BY DEF TxsOf
<1>2. Cardinality({u \in TxsOf(a) : Before(u, t)}) \in Nat
  BY <1>1, FS_Subset, FS_CardinalityType
<1> QED
  BY <1>2 DEF Rank

\* A transaction only moves to later pages.
LEMMA RankGrows ==
    ASSUME IInv, IsFiniteSet(Tx), [Next]_vars, NEW a, NEW t \in TxsOf(a)
    PROVE  t \in TxsOf(a)' /\ Rank(a, t)' >= Rank(a, t)
<1> DEFINE A == {u \in TxsOf(a) : Before(u, t)}
<1>1. \A u \in TxsOf(a) : u \in TxsOf(a)' /\ txs'[u].block = txs[u].block
  BY PlacesStay DEF TxsOf, Indexed
<1>2. A \subseteq A'
  BY <1>1 DEF Before
<1>3. A' \subseteq Tx /\ A \subseteq Tx
  BY DEF TxsOf
<1>4. IsFiniteSet(A') /\ Cardinality(A) <= Cardinality(A')
  BY <1>2, <1>3, FS_Subset
<1>5. Cardinality(A) \in Nat /\ Cardinality(A') \in Nat
  BY <1>3, FS_Subset, FS_CardinalityType
<1>6. Rank(a, t)' = Cardinality(A') + 1
  BY DEF Rank
<1> QED
  BY <1>1, <1>4, <1>5, <1>6 DEF Rank

-----------------------------------------------------------------------------
(* Pages.                                                                  *)

LEMMA OffsetFits ==
    ASSUME NoWrap, NEW page \in Pages, NEW size \in PageSizes, ValidPage(page, size)
    PROVE  /\ page \in Nat /\ size \in Nat /\ (page - 1) * size \in Nat
           /\ Offset(page, size) = (page - 1) * size
<1> DEFINE x == (page - 1) * size
<1>1. page \in Nat /\ size \in Nat /\ page > 0 /\ size > 0 /\ MaxInt \in Nat
  BY ExplorerAssumption DEF ValidPage
<1>2. \A p, s \in Nat : p * s \in Nat
  OBVIOUS
<1>3. page - 1 \in Nat
  BY <1>1
<1>4. x \in Nat /\ x <= MaxInt
  BY <1>1, <1>2, <1>3 DEF NoWrap
<1>5. \A y, m \in Nat : y <= m =>
        ((y + m + 1) % (2 * (m + 1))) - (m + 1) = y
  <2>1. \A b, d \in Nat : b < d => b % d = b
    OBVIOUS
  <2> SUFFICES ASSUME NEW y \in Nat, NEW m \in Nat, y <= m
               PROVE  ((y + m + 1) % (2 * (m + 1))) - (m + 1) = y
    OBVIOUS
  <2>2. y + m + 1 \in Nat /\ 2 * (m + 1) \in Nat /\ y + m + 1 < 2 * (m + 1)
    OBVIOUS
  <2>3. (y + m + 1) % (2 * (m + 1)) = y + m + 1
    BY <2>1, <2>2
  <2> QED
    BY <2>3
<1>6. AsInt(x) = x
  BY <1>1, <1>4, <1>5 DEF AsInt
<1> QED
  BY <1>1, <1>4, <1>6 DEF Offset

\* What a page holds are the ranks of its slice.
LEMMA PageIsSlice ==
    ASSUME IsFiniteSet(Tx), NEW a, NEW size \in Nat, NEW off \in Nat, NEW t
    PROVE  t \in ListTransactionsByAddress(a, size, off) <=>
             t \in TxsOf(a) /\ off < Rank(a, t) /\ Rank(a, t) <= off + size
<1>1. (IF off > 0 THEN off ELSE 0) = off
  OBVIOUS
<1> QED
  BY <1>1 DEF ListTransactionsByAddress

\* A page with a transaction behind it is full.
LEMMA PageIsFull ==
    ASSUME IInv, Places, PositionsDiffer, IsFiniteSet(Tx), NEW a, NEW size \in Nat,
           NEW off \in Nat, NEW t \in TxsOf(a), Rank(a, t) > off + size
    PROVE  Cardinality(ListTransactionsByAddress(a, size, off)) >= size
<1> DEFINE S == TxsOf(a)
           H(u) == Height(Order(a), S, u)
           I == ListTransactionsByAddress(a, size, off)
<1>1. IsFiniteSet(S) /\ S \subseteq Tx
  BY FS_Subset DEF TxsOf
<1>2. \A u \in S : H(u) \in Nat /\ Rank(a, u) = H(u) + 1
  <2>1. \A u \in S : Below(Order(a), S, u) \in SUBSET S
    BY DEF Below
  <2> QED
    BY <1>1, <2>1, RankIsHeight, FS_Subset, FS_CardinalityType DEF Height
<1>3. StrictOrder(Order(a), S)
  BY PagesAreOrdered
<1>4. off + size <= H(t)
  BY <1>2
<1>5. I = {u \in S : off <= H(u) /\ H(u) < off + size}
  <2>1. \A u : u \in I <=> u \in S /\ off < Rank(a, u) /\ Rank(a, u) <= off + size
    BY PageIsSlice
  <2>2. \A u \in S : (off < Rank(a, u) /\ Rank(a, u) <= off + size)
                       <=> (off <= H(u) /\ H(u) < off + size)
    BY <1>2
  <2> QED
    BY <2>1, <2>2
<1>6. size <= Cardinality({u \in S : off <= H(u) /\ H(u) < off + size})
  BY <1>1, <1>3, <1>4, FullSlice
<1>7. Cardinality(I) \in Nat
  BY <1>1, <1>5, FS_Subset, FS_CardinalityType
<1> QED
  BY <1>5, <1>6, <1>7

\* What is answered is at its rank or behind it.
RankedReply ==
    Answered("page", OK) =>
        \A t \in reply.items : /\ t \in TxsOf(query.address)
                               /\ Rank(query.address, t) > (query.page - 1) * query.size

\* What a walk has not seen is on the next page or behind it.
WalkInv ==
    Walking =>
        /\ known.page \in Nat /\ known.page > 0 /\ known.size \in Nat
        /\ \A t \in known.unseen :
            /\ t \in TxsOf(known.address)
            /\ Rank(known.address, t) > (known.page - 1) * known.size
        /\ epc = "page_row" => /\ query.address = known.address
                               /\ query.page = known.page /\ query.size = known.size

LEMMA PageQuery ==
    ASSUME ClientOK, AtOwnCall, epc = "page_row", NoWrap
    PROVE  /\ query.page \in Nat /\ query.size \in Nat /\ query.page > 0
           /\ (query.page - 1) * query.size \in Nat
           /\ Offset(query.page, query.size) = (query.page - 1) * query.size
<1>1. query.page \in Pages /\ query.size \in PageSizes /\ ValidPage(query.page, query.size)
  BY DEF AtOwnCall, ClientOK, Queries
<1> QED
  BY <1>1, OffsetFits DEF ValidPage

\* The answers of a page, and all other steps.
LEMMA PageAnswers ==
    ASSUME ClientOK, AtOwnCall, [ENext]_evars, Answered("page", OK)'
    PROVE  \/ UNCHANGED client
           \/ ReadPage
<1>0. epc' = "answered" /\ query'.op = "page" /\ reply'.status = 200
  BY Statuses DEF Answered
<1>1. ~Request
  <2>1. CASE Request
    <3>1. reply' = [NoReply EXCEPT !.status = 400]
      BY <1>0, <2>1, Statuses
         DEF Request, GetBlock, GetIndexedTransaction, GetTxDetail, ListPage, Ask
    <3> QED
      BY <1>0, <3>1 DEF NoReply
  <2> QED
    BY <2>1
<1>2. ~(ReadBlockRow \/ AskBlock \/ ReadTxRow \/ AskTransaction \/ AskReceipt)
  BY <1>0 DEF ReadBlockRow, AskBlock, ReadTxRow, AskTransaction, AskReceipt, Answer, Refuse,
     AtOwnCall
<1>3. ASSUME NEW f \in Failures, CallFails(f)
      PROVE  FALSE
  <2>1. \E v \in {408, 500, 504} : reply' = [NoReply EXCEPT !.status = v]
    BY <1>3, Statuses DEF CallFails, Refuse, Answer
  <2> QED
    BY <1>0, <2>1 DEF NoReply
<1>4. ~(Done \/ ERestart)
  BY <1>0 DEF Done, ERestart
<1> QED
  BY <1>1, <1>2, <1>3, <1>4 DEF ENext, Serve, client, evars

LEMMA RankedStep ==
    ASSUME IInv, IxTypeOK, IsFiniteSet(Tx), NoWrap, ClientOK, AtOwnCall, RankedReply,
           [ENext]_evars
    PROVE  RankedReply'
<1> SUFFICES ASSUME Answered("page", OK)', NEW t \in reply'.items
             PROVE  /\ t \in TxsOf(query.address)'
                    /\ Rank(query.address, t)' > (query'.page - 1) * query'.size
  BY DEF RankedReply
<1>0. [Next]_vars
  BY EStepIsStep, StepIsStep
<1>1. CASE UNCHANGED client
  <2>1. Answered("page", OK) /\ query' = query /\ reply' = reply
    BY <1>1 DEF client, Answered
  <2>2. t \in TxsOf(query.address) /\ Rank(query.address, t) > (query.page - 1) * query.size
    BY <2>1 DEF RankedReply
  <2> DEFINE a == query.address
             off == (query.page - 1) * query.size
  <2>3. query.page \in Int /\ query.size \in Int
    <3>1. query.page \in Pages /\ query.size \in PageSizes
      BY <2>1 DEF Answered, ClientOK, Queries
    <3>2. \A x \in Pages \cup PageSizes : x \in -MaxInt..MaxInt
      BY ExplorerAssumption
    <3>3. \A x \in -MaxInt..MaxInt : x \in Int
      OBVIOUS
    <3> QED
      BY <3>1, <3>2, <3>3
  <2>4. \A p, s \in Int : (p - 1) * s \in Int
    OBVIOUS
  <2>5. off \in Int
    BY <2>3, <2>4
  <2>6. \A b : b = a => t \in TxsOf(b)' /\ Rank(b, t)' >= Rank(b, t)
    BY <1>0, <2>2, RankGrows
  <2>7. \A b : Rank(b, t) \in Nat /\ Rank(b, t)' \in Nat
    BY RankType, FS_Subset, FS_CardinalityType DEF Rank, TxsOf
  <2> QED
    BY <2>1, <2>2, <2>5, <2>6, <2>7
<1>2. CASE ReadPage
  <2>1. /\ epc = "page_row" /\ query' = query /\ UNCHANGED <<blocks, txs>>
        /\ reply'.items = ListTransactionsByAddress(query.address, query.size,
                                                    Offset(query.page, query.size))
    BY <1>2 DEF ReadPage, Answer, PageReply, NoReply, ixvars
  <2>2. t \in TxsOf(query.address) /\ Rank(query.address, t) > (query.page - 1) * query.size
    BY <2>1, PageQuery, PageIsSlice, RankType
  <2>3. \A b : TxsOf(b)' = TxsOf(b)
    BY <2>1 DEF TxsOf, Indexed
  <2>4. \A u : Before(u, t)' <=> Before(u, t)
    BY <2>1 DEF Before
  <2>5. \A b : Rank(b, t)' = Rank(b, t)
    BY <2>3, <2>4 DEF Rank
  <2> QED
    BY <2>1, <2>2, <2>3, <2>5
<1> QED
  BY <1>1, <1>2, PageAnswers

LEMMA TurnSteps ==
    ASSUME IsFiniteSet(Tx), ClientOK, WalkInv, UNCHANGED <<blocks, txs>>,
           NEW a \in Address, NEW page \in Pages, NEW size \in PageSizes,
           ListPage(a, page, size)
    PROVE  WalkInv'
<1>0. /\ known' = Turn(a, page, size) /\ epc' \in {"page_row", "answered"}
      /\ query' = [op |-> "page", address |-> a, page |-> page, size |-> size]
  BY DEF ListPage, Ask
<1>1. /\ \A b : TxsOf(b)' = TxsOf(b)
      /\ \A b, t : Rank(b, t)' = Rank(b, t)
  <2>1. \A b : TxsOf(b)' = TxsOf(b)
    BY DEF TxsOf, Indexed
  <2>2. \A t, u : Before(u, t)' <=> Before(u, t)
    BY DEF Before
  <2> QED
    BY <2>1, <2>2 DEF Rank
<1>2. CASE page = 1 /\ ValidPage(page, size)
  <2>1. /\ Turn(a, page, size) = [kind |-> "walk", address |-> a, size |-> size, page |-> 1,
                                  unseen |-> TxsOf(a)]
    BY <1>2 DEF Turn
  <2>2. /\ known'.page = 1 /\ known'.size = size /\ known'.address = a
        /\ known'.unseen = TxsOf(a)
    BY <1>0, <2>1
  <2>3. size \in Nat
    BY <1>2, ExplorerAssumption DEF ValidPage
  <2>4. (1 - 1) * size = 0
    BY <2>3
  <2>5. \A t : Rank(a, t) > (1 - 1) * size
    BY <2>4, RankType
  <2>6. \A t \in TxsOf(a) : t \in TxsOf(known.address)' /\ Rank(known.address, t)' > 0
    BY <1>1, <2>2, RankType
  <2>7. (known'.page - 1) * known'.size = 0
    BY <2>2, <2>4
  <2> QED
    BY <1>0, <1>2, <2>2, <2>3, <2>6, <2>7 DEF WalkInv
<1>3. CASE ~(page = 1 /\ ValidPage(page, size))
  <2>1. CASE Walking /\ <<known.address, known.page, known.size>> = <<a, page, size>>
    <3>1. known' = known
      BY <1>0, <1>3, <2>1 DEF Turn
    <3>2. query'.address = known.address /\ query'.page = known.page /\ query'.size = known.size
      BY <1>0, <2>1
    <3> QED
      BY <1>1, <2>1, <3>1, <3>2 DEF WalkInv
  <2>2. CASE ~(Walking /\ <<known.address, known.page, known.size>> = <<a, page, size>>)
    <3>1. known' = Nothing \/ (known' = known /\ ~Walking)
      BY <1>0, <1>3, <2>2 DEF Turn
    <3> QED
      BY <3>1 DEF WalkInv, Walking, Nothing
  <2> QED
    BY <2>1, <2>2
<1> QED
  BY <1>2, <1>3

\* A walk goes on, whatever the indexer adds under it.
LEMMA WalkGoesOn ==
    ASSUME IInv, IsFiniteSet(Tx), [Next]_vars, ClientOK, WalkInv, known' = known,
           epc' = "page_row" => epc = "page_row" /\ query' = query
    PROVE  WalkInv'
<1> SUFFICES ASSUME Walking
             PROVE  /\ known.page \in Nat /\ known.page > 0 /\ known.size \in Nat
                    /\ \A t \in known.unseen :
                        /\ t \in TxsOf(known.address)'
                        /\ Rank(known.address, t)' > (known.page - 1) * known.size
                    /\ epc' = "page_row" => /\ query'.address = known.address
                                            /\ query'.page = known.page
                                            /\ query'.size = known.size
  BY DEF WalkInv, Walking
<1>1. \A p, s \in Nat : (p - 1) * s \in Int
  OBVIOUS
<1>2. known.page \in Nat /\ known.size \in Nat /\ (known.page - 1) * known.size \in Int
  BY <1>1 DEF WalkInv
<1>3. ASSUME NEW t \in known.unseen
      PROVE  /\ t \in TxsOf(known.address)'
             /\ Rank(known.address, t)' > (known.page - 1) * known.size
  <2> DEFINE a == known.address
             off == (known.page - 1) * known.size
  <2>1. t \in TxsOf(a) /\ Rank(a, t) > off /\ off \in Int
    BY <1>2 DEF WalkInv
  <2>2. \A b : b = a => t \in TxsOf(b)' /\ Rank(b, t)' >= Rank(b, t)
    BY <2>1, RankGrows
  <2>3. \A b : Rank(b, t) \in Nat /\ Rank(b, t)' \in Nat
    BY RankType, FS_Subset, FS_CardinalityType DEF Rank, TxsOf
  <2> HIDE DEF off
  <2>4. \A b : b = a => t \in TxsOf(b)' /\ Rank(b, t)' > off
    BY <2>1, <2>2, <2>3
  <2>5. known'.address = a
    OBVIOUS
  <2> QED
    BY <2>4, <2>5 DEF off
<1> QED
  BY <1>2, <1>3 DEF WalkInv

\* Reading the next page: what is left is behind it, and nothing is left
\* behind a short one.
LEMMA PageSteps ==
    ASSUME IInv, Places, PositionsDiffer, IsFiniteSet(Tx), NoWrap, ClientOK, AtOwnCall,
           WalkInv, Walking, ReadPage
    PROVE  WalkInv' /\ NoneMissed'
<1> DEFINE a == known.address
           off == (known.page - 1) * known.size
           I == ListTransactionsByAddress(a, known.size, off)
<1>1. /\ epc = "page_row" /\ epc' = "answered" /\ UNCHANGED <<blocks, txs>> /\ query' = query
      /\ query.address = a /\ query.page = known.page /\ query.size = known.size
  BY DEF ReadPage, Answer, WalkInv, ixvars
<1>2. /\ known.page \in Nat /\ known.size \in Nat /\ known.page > 0 /\ off \in Nat
      /\ Offset(query.page, query.size) = off
  BY <1>1, PageQuery
<1>3. /\ reply' = PageReply(I)
      /\ known' = [known EXCEPT !.page = @ + 1, !.unseen = @ \ I]
  BY <1>1, <1>2 DEF ReadPage, Answer
<1>4. reply'.items = I
  BY <1>3 DEF PageReply, NoReply
<1>5. known \in Walks
  BY DEF ClientOK, Memories, Walking, Nothing
<1>6. /\ known'.kind = "walk" /\ known'.address = a /\ known'.size = known.size
      /\ known'.page = known.page + 1 /\ known'.unseen = known.unseen \ I
  BY <1>3, <1>5 DEF Walks
<1>7. /\ \A b : TxsOf(b)' = TxsOf(b)
      /\ \A b, t : Rank(b, t)' = Rank(b, t)
  <2>1. \A b : TxsOf(b)' = TxsOf(b)
    BY <1>1 DEF TxsOf, Indexed
  <2>2. \A t, u : Before(u, t)' <=> Before(u, t)
    BY <1>1 DEF Before
  <2> QED
    BY <2>1, <2>2 DEF Rank
<1>8. \A p, s \in Nat : ((p + 1) - 1) * s = (p - 1) * s + s
  OBVIOUS
<1>9. ((known.page + 1) - 1) * known.size = off + known.size
  BY <1>2, <1>8
<1>10. ASSUME NEW t \in known.unseen \ I
       PROVE  /\ t \in TxsOf(a) /\ Rank(a, t) > off + known.size
              /\ Cardinality(I) >= known.size
  <2>1. t \in TxsOf(a) /\ Rank(a, t) > off
    BY <1>10 DEF WalkInv
  <2>2. Rank(a, t) > off + known.size
    BY <1>2, <1>10, <2>1, PageIsSlice, RankType
  <2> QED
    BY <1>2, <2>1, <2>2, PageIsFull
<1>11. I \in SUBSET Tx
  BY DEF ListTransactionsByAddress, TxsOf
<1>12. Cardinality(I) \in Nat
  BY <1>11, FS_Subset, FS_CardinalityType
<1> HIDE DEF off, I
<1>13. WalkInv'
  <2>1. \A t \in known'.unseen :
          /\ t \in TxsOf(known.address)'
          /\ Rank(known.address, t)' > (known'.page - 1) * known'.size
    BY <1>6, <1>7, <1>9, <1>10
  <2> QED
    BY <1>1, <1>2, <1>6, <2>1 DEF WalkInv
<1>14. NoneMissed'
  <2> SUFFICES ASSUME Cardinality(I) < known.size
               PROVE  known'.unseen = {}
    BY <1>1, <1>4 DEF NoneMissed, ShortPage
  <2> QED
    BY <1>2, <1>6, <1>10, <1>12
<1> QED
  BY <1>13, <1>14

LEMMA WalkStep ==
    ASSUME IInv, IxTypeOK, Places, PositionsDiffer, IsFiniteSet(Tx), NoWrap, ClientOK,
           AtOwnCall, WalkInv, NoneMissed, [ENext]_evars
    PROVE  WalkInv' /\ NoneMissed'
<1>0. [Next]_vars
  BY EStepIsStep, StepIsStep
<1>1. CASE UNCHANGED client
  <2>1. WalkInv'
    BY <1>0, <1>1, WalkGoesOn DEF client
  <2>2. NoneMissed'
    BY <1>1 DEF client, NoneMissed, Walking, ShortPage, Answered
  <2> QED
    BY <2>1, <2>2
<1>2. CASE ReadPage /\ Walking
  BY <1>2, PageSteps
<1>3. CASE ~UNCHANGED client /\ ~(ReadPage /\ Walking)
  <2>1. NoneMissed'
    <3>1. ShortPage' => Answered("page", OK)'
      BY DEF ShortPage, Answered
    <3>2. ReadPage => known' = known /\ ~Walking
      BY <1>3 DEF ReadPage
    <3> QED
      BY <1>3, <3>1, <3>2, PageAnswers DEF NoneMissed, Walking
  <2>2. WalkInv'
    <3>1. CASE \E a \in Address, page \in Pages, size \in PageSizes : ListPage(a, page, size)
      <4>1. UNCHANGED <<blocks, txs>>
        BY <3>1 DEF ListPage, Ask, ixvars
      <4> QED
        BY <3>1, <4>1, TurnSteps
    <3>2. CASE known' = known /\ epc' # "page_row"
      BY <1>0, <3>2, WalkGoesOn
    <3>3. CASE known'.kind \in {"nothing", "block", "place"}
      BY <3>3 DEF WalkInv, Walking
    <3>4. CASE (\E n \in Numbers : GetBlock(n))
               \/ \E t \in Tx : GetIndexedTransaction(t) \/ GetTxDetail(t)
      BY <3>2, <3>4 DEF GetBlock, GetIndexedTransaction, GetTxDetail, Ask
    <3>5. CASE Serve
      <4>1. CASE ReadPage
        BY <1>3, <3>2, <4>1 DEF ReadPage, Answer
      <4>2. CASE ReadBlockRow \/ ReadTxRow
        BY <3>2, <3>3, <4>2 DEF ReadBlockRow, ReadTxRow, Answer, Refuse
      <4>3. CASE AskBlock \/ AskTransaction \/ AskReceipt \/ \E f \in Failures : CallFails(f)
        BY <3>2, <4>3 DEF AskBlock, AskTransaction, AskReceipt, CallFails, Answer, Refuse
      <4> QED
        BY <3>5, <4>1, <4>2, <4>3 DEF Serve
    <3>6. CASE Done \/ ERestart
      BY <3>2, <3>3, <3>6 DEF Done, ERestart, Nothing
    <3> QED
      BY <1>3, <3>1, <3>4, <3>5, <3>6 DEF ENext, Request, client, evars
  <2> QED
    BY <2>1, <2>2
<1> QED
  BY <1>1, <1>2, <1>3

LEMMA InitWalk == EInit => WalkInv /\ NoneMissed /\ RankedReply
BY DEF EInit, WalkInv, NoneMissed, RankedReply, Walking, Nothing, Answered

\* A page holds no transaction that belongs on an earlier page, as long as its
\* offset does not wrap, whatever is indexed meanwhile
\* (ListTransactionsByAddress).
THEOREM PagesAtTheirRank ==
    ASSUME IsFiniteSet(Tx), NoWrap
    PROVE  ESpec => []PageAtItsRank
<1>1. /\ IInv /\ IxTypeOK /\ ClientOK /\ AtOwnCall /\ RankedReply /\ [ENext]_evars
      => RankedReply'
  BY RankedStep
<1>2. RankedReply => PageAtItsRank
  BY DEF RankedReply, PageAtItsRank
<1>3. EInit => RankedReply
  BY InitWalk
<1> QED
  BY ExplorerReadsOnly, IxInvariance, EInvariance, <1>1, <1>2, <1>3, PTL DEF ESpec

\* Who reads page after page up to a short one sees every transaction that was
\* indexed when it began, although new blocks shift the pages under it: for
\* one sync at a time ...
THEOREM AloneNoneMissed ==
    ASSUME Alone, IsFiniteSet(Tx), PositionsDiffer, NoWrap
    PROVE  ESpec => []NoneMissed
<1>1. /\ IInv /\ IxTypeOK /\ AloneInv /\ ClientOK /\ AtOwnCall /\ WalkInv /\ NoneMissed
      /\ [ENext]_evars
      => WalkInv' /\ NoneMissed'
  BY WalkStep DEF AloneInv
<1> QED
  BY ExplorerReadsOnly, IndexerIsSync, IxInvariance, AloneInvariance, EInvariance, InitWalk,
     <1>1, PTL DEF ESpec

\* ... or a target that is final, with any number of callers (GetIndexedTransactionsByAddress).
THEOREM FinalNoneMissed ==
    ASSUME TargetFinal, IsFiniteSet(Tx), PositionsDiffer, NoWrap
    PROVE  ESpec => []NoneMissed
<1>1. /\ IInv /\ IxTypeOK /\ FinalIxInv /\ ClientOK /\ AtOwnCall /\ WalkInv /\ NoneMissed
      /\ [ENext]_evars
      => WalkInv' /\ NoneMissed'
  BY WalkStep DEF FinalIxInv, FinalInv
<1> QED
  BY ExplorerReadsOnly, IxInvariance, FinalIxInvariance, EInvariance, InitWalk,
     <1>1, PTL DEF ESpec
=============================================================================
