----------------------------- MODULE WalletProofs -----------------------------
(***************************************************************************)
(* Theorems of WalletReader.  A page is put together from two queries, and *)
(* the indexer writes between them.  What was read first is still so when  *)
(* the rest is read: a row keeps its block, and where the tables agree, a  *)
(* number stands for one block and its transactions.  A single caller of   *)
(* the indexer completes in order, so that a page is an interval.          *)
(***************************************************************************)
EXTENDS WalletReader, IndexerProofs, FiniteSetTheorems

\* The page in hand is of recorded blocks, and the answer is of the page.
PageRecorded ==
    /\ wpc # "answered" => answer = {}
    /\ wpc \in {"idle", "rows"} => rows = {}
    /\ \A b \in rows : Known(b)
    /\ \A a \in answer : a.block \in rows
    /\ wpc = "answered" => \A b \in rows : \E a \in answer : a.block = b

WInv == WTypeOK /\ PageRecorded

NumbersOf(B) == {NumberOf[b] : b \in B}

\* The numbers of a page are those of an interval of completed blocks.
PageOrdered ==
    /\ \A n \in NumbersOf(rows) : ask.from <= n /\ StartBlock <= n
    /\ \A n \in NumbersOf(rows), m \in Numbers :
        ask.from <= m /\ StartBlock <= m /\ m <= n => m \in NumbersOf(rows)

\* What was reported is in the page, or the page is full.
PageFull ==
    /\ \A n \in reported : Completed(n)
    /\ wpc \in {"txs", "answered"} =>
        \A n \in reported :
            ask.from <= n => n \in NumbersOf(rows) \/ Cardinality(NumbersOf(rows)) = ask.limit

\* Every transaction of the page in hand has its receipt.
PageHasReceipts ==
    \A b \in rows : MissingReceipts(NumberOf[b]) = {}

-----------------------------------------------------------------------------
USE DEF Stored

LEMMA WStepIsIxStep ==
    ASSUME [WNext]_wvars
    PROVE  [IxNext]_ixvars
BY DEF WNext, GetSyncStatus, Request, ReadRows, ReadTxs, WDone, WRestart, IxNext, ixvars, wvars

\* Every behaviour of the indexer and the wallet is one of the indexer: a
\* reader changes nothing.
THEOREM WalletReadsOnly == WSpec => IxSpec
<1>1. WInit => IxInit
  BY DEF WInit
<1>2. [WNext]_wvars => [IxNext]_ixvars
  BY WStepIsIxStep
<1> QED
  BY <1>1, <1>2, PTL DEF WSpec, IxSpec

\* A page holds the blocks of completed rows.
LEMMA PageIsCompleted ==
    ASSUME IInv, NEW from, NEW limit, NEW b \in Page(from, limit)
    PROVE  b \in Block /\ Known(b) /\ Completed(NumberOf[b]) /\ NumberOf[b] \in Numbers
<1>1. PICK n \in Numbers : Completed(n) /\ b = blocks[n].hash
  BY DEF Page
<1>2. NumberOf[b] = n
  BY <1>1 DEF IInv, RowNumber, Completed
<1>3. b \in Block
  BY <1>1 DEF IInv, TypeOK, BlockRow, Completed
<1> QED
  BY <1>1, <1>2, <1>3 DEF Known

LEMMA KnownStays ==
    ASSUME IInv, [Next]_vars, NEW b \in Block, Known(b)
    PROVE  blocks'[NumberOf[b]].hash = b
<1>1. NumberOf[b] \in Numbers /\ Stored(NumberOf[b])
  BY NodeAssumption DEF Known
<1> QED
  BY <1>1, RowsStay DEF Known

LEMMA GroupsAreOfBlocks ==
    ASSUME NEW B \in SUBSET Block, NEW T \in SUBSET Tx
    PROVE  /\ GroupByNumber(B, T) \subseteq [block : Block, txs : SUBSET Tx]
           /\ \A a \in GroupByNumber(B, T) : a.block \in B
           /\ \A b \in B : \E a \in GroupByNumber(B, T) : a.block = b
<1> DEFINE Group(b) == [block |-> b, txs |-> {t \in T : NumberOf[txs[t].block] = NumberOf[b]}]
<1>1. GroupByNumber(B, T) = {Group(b) : b \in B}
  BY DEF GroupByNumber
<1>2. \A b \in B : Group(b).block = b /\ Group(b) \in [block : Block, txs : SUBSET Tx]
  <2> TAKE b \in B
  <2>1. {t \in T : NumberOf[txs[t].block] = NumberOf[b]} \in SUBSET Tx
    OBVIOUS
  <2> QED
    BY <2>1
<1> HIDE DEF Group
<1> QED
  BY <1>1, <1>2

LEMMA WInvStep ==
    ASSUME IInv, IxTypeOK, IxTypeOK', WInv, [WNext]_wvars
    PROVE  WInv'
<1>0. /\ rows \subseteq Block /\ ask \in [from : Numbers, limit : Limits]
      /\ answer \in SUBSET [block : Block, txs : SUBSET Tx] /\ reported \subseteq Numbers
      /\ [from |-> 0, limit |-> 1] \in [from : Numbers, limit : Limits]
  BY NodeAssumption, RequestAssumption DEF WInv, WTypeOK, Numbers, Limits
<1>1. [Next]_vars
  BY WStepIsIxStep, StepIsStep
<1>2. \A b \in rows : blocks'[NumberOf[b]].hash = b
  BY <1>0, <1>1, KnownStays DEF WInv, PageRecorded
<1>3. CASE GetSyncStatus
  <2>1. reported' \subseteq Numbers
    BY <1>3 DEF GetSyncStatus, ReportedLatest, LatestFullySynced
  <2> QED
    BY <1>0, <1>2, <1>3, <2>1 DEF GetSyncStatus, WInv, WTypeOK, PageRecorded, Known
<1>4. ASSUME NEW from \in Froms, NEW limit \in Limits, Request(from, limit)
      PROVE  WInv'
  <2>1. ask' \in [from : Numbers, limit : Limits]
    BY <1>4, RequestAssumption DEF Request
  <2> QED
    BY <1>0, <1>2, <1>4, <2>1 DEF Request, WInv, WTypeOK, PageRecorded, Known
<1>5. CASE ReadRows
  <2>1. \A b \in rows' : b \in Block /\ Known(b) /\ UNCHANGED blocks
    BY <1>5, PageIsCompleted DEF ReadRows, ixvars
  <2>2. /\ wpc' \in {"answered", "txs"} /\ (wpc' = "answered" => rows' = {})
        /\ answer' = {} /\ UNCHANGED <<ask, reported>>
    BY <1>5 DEF ReadRows, WInv, PageRecorded
  <2> QED
    BY <1>0, <2>1, <2>2 DEF WInv, WTypeOK, PageRecorded, Known
<1>6. CASE ReadTxs
  <2> DEFINE T == RowsOf(rows)
  <2>1. T \subseteq Tx
    BY DEF RowsOf
  <2>2. /\ wpc' = "answered" \/ (wpc' = "error" /\ answer' = {})
        /\ wpc' = "answered" => answer' = GroupByNumber(rows, T)
        /\ UNCHANGED <<ask, rows, reported>>
    BY <1>6 DEF ReadTxs, WInv, PageRecorded
  <2> HIDE DEF T
  <2>3. /\ GroupByNumber(rows, T) \subseteq [block : Block, txs : SUBSET Tx]
        /\ \A a \in GroupByNumber(rows, T) : a.block \in rows
        /\ \A b \in rows : \E a \in GroupByNumber(rows, T) : a.block = b
    BY <1>0, <2>1, GroupsAreOfBlocks
  <2> QED
    BY <1>0, <1>2, <2>2, <2>3 DEF WInv, WTypeOK, PageRecorded, Known
<1>7. CASE WDone \/ WRestart
  BY <1>0, <1>7 DEF WDone, WRestart, WInv, WTypeOK, PageRecorded
<1>8. CASE (IxStep /\ UNCHANGED wallet) \/ UNCHANGED wvars
  BY <1>0, <1>2, <1>8 DEF wallet, wvars, WInv, WTypeOK, PageRecorded, Known
<1> QED
  BY <1>3, <1>4, <1>5, <1>6, <1>7, <1>8 DEF WNext

LEMMA WInvariance == WSpec => [](IInv /\ IxTypeOK /\ WInv)
<1>1. WInit /\ IxTypeOK => WInv
  BY NodeAssumption, RequestAssumption
     DEF WInit, WInv, WTypeOK, PageRecorded, Limits, Numbers
<1>2. IInv /\ IxTypeOK /\ IxTypeOK' /\ WInv /\ [WNext]_wvars => WInv'
  BY WInvStep
<1> QED
  BY WalletReadsOnly, IxInvariance, <1>1, <1>2, PTL DEF WSpec

\* The types of the wallet's requests.
THEOREM WTypeCorrect == WSpec => []WTypeOK
BY WInvariance, PTL DEF WInv

-----------------------------------------------------------------------------
(* Whole blocks.                                                           *)

\* Where the tables agree, the number of a recorded block finds its
\* transactions and no other.
LEMMA NumberFindsTxs ==
    ASSUME IInv, Places, NEW b \in Block, Known(b), NEW t
    PROVE  t \in BlockTxs(b) <=> t \in Tx /\ Indexed(t) /\ NumberOf[txs[t].block] = NumberOf[b]
<1>0. NumberOf[b] \in Numbers /\ NoBlock \notin Block /\ BlockTxs(b) \subseteq Tx
  BY NodeAssumption
<1>1. ASSUME t \in BlockTxs(b)
      PROVE  t \in Tx /\ Indexed(t) /\ txs[t].block = b
  BY <1>0, <1>1 DEF Places, RowHasItsTxs, Known, Indexed
<1>2. ASSUME t \in Tx, Indexed(t), NumberOf[txs[t].block] = NumberOf[b]
      PROVE  t \in BlockTxs(b)
  <2>1. txs[t].block = b
    BY <1>2 DEF Places, TxBelongsToRow, Known
  <2> QED
    BY <1>2, <2>1 DEF Places, TxOfItsBlock
<1> QED
  BY <1>1, <1>2

LEMMA WholeStep ==
    ASSUME IInv, Places, WInv, ServedWhole, [WNext]_wvars
    PROVE  ServedWhole'
<1>1. CASE ReadTxs
  <2> SUFFICES ASSUME wpc' = "answered", NEW a \in answer'
               PROVE  a.txs = BlockTxs(a.block)
    BY DEF ServedWhole
  <2>1. answer' = GroupByNumber(rows, RowsOf(rows))
    BY <1>1 DEF ReadTxs
  <2>2. PICK b \in rows :
          a = [block |-> b, txs |-> {t \in RowsOf(rows) : NumberOf[txs[t].block] = NumberOf[b]}]
    BY <2>1 DEF GroupByNumber
  <2>3. b \in Block /\ Known(b)
    BY DEF WInv, WTypeOK, PageRecorded
  <2>4. a.block = b /\ \A t : t \in a.txs <=> /\ t \in Tx /\ Indexed(t)
                                              /\ NumberOf[txs[t].block] = NumberOf[b]
    BY <2>2 DEF RowsOf
  <2>5. \A t : t \in a.txs <=> t \in BlockTxs(b)
    BY <2>3, <2>4, NumberFindsTxs
  <2>6. a.txs = {t \in RowsOf(rows) : NumberOf[txs[t].block] = NumberOf[b]}
    BY <2>2
  <2> QED
    BY <2>4, <2>5, <2>6
<1>2. CASE ReadRows \/ WDone \/ WRestart
  BY <1>2 DEF ReadRows, WDone, WRestart, WInv, PageRecorded, ServedWhole
<1>3. ASSUME NEW from \in Froms, NEW limit \in Limits, Request(from, limit)
      PROVE  ServedWhole'
  BY <1>3 DEF Request, ServedWhole
<1>4. CASE GetSyncStatus \/ (IxStep /\ UNCHANGED wallet) \/ UNCHANGED wvars
  BY <1>4 DEF GetSyncStatus, wallet, wvars, ServedWhole
<1> QED
  BY <1>1, <1>2, <1>3, <1>4 DEF WNext

LEMMA WholeWherePlaces == WSpec /\ []Places => []ServedWhole
<1>1. WInit => ServedWhole
  BY DEF WInit, ServedWhole
<1>2. IInv /\ Places /\ WInv /\ ServedWhole /\ [WNext]_wvars => ServedWhole'
  BY WholeStep
<1> QED
  BY WInvariance, <1>1, <1>2, PTL DEF WSpec

\* A page shows each block with all its transactions and no other, although
\* they are read by number in a second query (ListCompletedBlocks), if one
\* caller syncs at a time, on any chain ...
THEOREM AloneServedWhole == ASSUME Alone PROVE WSpec => []ServedWhole
<1>1. AloneInv => Places
  BY DEF AloneInv
<1> QED
  BY WalletReadsOnly, IndexerIsSync, AloneInvariance, WholeWherePlaces, <1>1, PTL

\* ... or if any number of them sync final blocks.
THEOREM FinalServedWhole == ASSUME TargetFinal PROVE WSpec => []ServedWhole
<1>1. FinalIxInv => Places
  BY DEF FinalIxInv, FinalInv
<1> QED
  BY WalletReadsOnly, FinalIxInvariance, WholeWherePlaces, <1>1, PTL

-----------------------------------------------------------------------------
(* Pages without holes.                                                    *)

\* A page is what is completed of an interval of numbers.
LEMMA PageIsInterval ==
    ASSUME IInv, InOrder, NEW from \in Numbers, NEW limit \in Nat, NEW low \in Nat,
           low = IF from > StartBlock THEN from ELSE StartBlock
    PROVE  NumbersOf(Page(from, limit)) =
             {n \in Numbers : low <= n /\ n < low + limit /\ Completed(n)}
<1> DEFINE C == {n \in Numbers : n >= from /\ Completed(n)}
           P == {m \in C : Cardinality({k \in C : k <= m}) <= limit}
<1>0. StartBlock \in Nat /\ from \in Nat /\ \A n \in Numbers : n \in Nat
  BY NodeAssumption, SyncAssumption DEF Numbers
<1>1. \A n : n \in C <=> n \in Numbers /\ low <= n /\ Completed(n)
  <2>1. \A n \in Nat : low <= n <=> n >= from /\ StartBlock <= n
    BY <1>0
  <2>2. \A n \in Numbers : Completed(n) => StartBlock <= n
    BY InOrderNoGap
  <2> QED
    BY <1>0, <2>1, <2>2
<1> HIDE DEF C
<1>2. ASSUME NEW m \in C
      PROVE  Cardinality({k \in C : k <= m}) <= limit <=> m < low + limit
  <2>0. m \in Nat /\ low <= m /\ m <= MaxNumber /\ MaxNumber \in Nat
    BY <1>0, <1>1, <1>2, NodeAssumption DEF Numbers
  <2>1. \A k : k \in C /\ k <= m <=> k \in low..m
    <3>1. ASSUME NEW k \in low..m
          PROVE  k \in C /\ k <= m
      <4>1. k \in Numbers /\ StartBlock <= k /\ k <= m /\ low <= k
        BY <1>0, <2>0, <3>1 DEF Numbers
      <4>2. Completed(k)
        BY <1>1, <1>2, <4>1, InOrderNoGap DEF NoGap
      <4> QED
        BY <1>1, <4>1, <4>2
    <3>2. ASSUME NEW k \in C, k <= m
          PROVE  k \in low..m
      BY <1>0, <1>1, <2>0, <3>2
    <3> QED
      BY <3>1, <3>2
  <2>2. {k \in C : k <= m} = low..m
    BY <2>1
  <2>3. Cardinality(low..m) = m - low + 1
    BY <2>0, FS_Interval
  <2>4. Cardinality({k \in C : k <= m}) = m - low + 1
    BY <2>2, <2>3
  <2>5. m - low + 1 <= limit <=> m < low + limit
    BY <2>0
  <2> QED
    BY <2>4, <2>5
<1>3. P = {n \in Numbers : low <= n /\ n < low + limit /\ Completed(n)}
  BY <1>1, <1>2
<1>4. \A n \in P : NumberOf[blocks[n].hash] = n
  BY <1>3 DEF IInv, RowNumber, Completed
<1>5. Page(from, limit) = {blocks[n].hash : n \in P}
  BY DEF Page, C
<1> HIDE DEF P
<1>6. NumbersOf(Page(from, limit)) = P
  BY <1>4, <1>5 DEF NumbersOf
<1> QED
  BY <1>3, <1>6

\* A page has no hole, and holds what is completed unless it is full.
LEMMA PageShape ==
    ASSUME IInv, InOrder, NEW from \in Numbers, NEW limit \in Nat \ {0}
    PROVE  LET N == NumbersOf(Page(from, limit))
           IN  /\ \A n \in N : from <= n /\ StartBlock <= n
               /\ \A n \in N, m \in Numbers :
                    from <= m /\ StartBlock <= m /\ m <= n => m \in N
               /\ \A n \in Numbers :
                    Completed(n) /\ from <= n => n \in N \/ Cardinality(N) = limit
<1> DEFINE N == NumbersOf(Page(from, limit))
           low == IF from > StartBlock THEN from ELSE StartBlock
<1>0. /\ StartBlock \in Nat /\ from \in Nat /\ limit \in Nat /\ MaxNumber \in Nat
      /\ \A n \in Numbers : n \in Nat
      /\ \A n \in Nat : n <= MaxNumber => n \in Numbers
  BY NodeAssumption, SyncAssumption DEF Numbers
<1>1. N = {n \in Numbers : low <= n /\ n < low + limit /\ Completed(n)} /\ low \in Nat
  BY <1>0, PageIsInterval
<1> HIDE DEF N
<1>2. \A n \in N : from <= n /\ StartBlock <= n
  BY <1>0, <1>1
<1>3. ASSUME NEW n \in N, NEW m \in Numbers, from <= m, StartBlock <= m, m <= n
      PROVE  m \in N
  <2>1. Completed(m)
    BY <1>1, <1>3, InOrderNoGap DEF NoGap
  <2> QED
    BY <1>0, <1>1, <1>3, <2>1
<1>4. ASSUME NEW n \in Numbers, Completed(n), from <= n, n \notin N
      PROVE  Cardinality(N) = limit
  <2>1. low + limit <= n /\ StartBlock <= n
    BY <1>0, <1>1, <1>4, InOrderNoGap
  <2>2. n \in Nat /\ n <= MaxNumber
    BY <1>0, NodeAssumption DEF Numbers
  <2>3. \A m \in low..(low + limit - 1) : m \in N
    <3> TAKE m \in low..(low + limit - 1)
    <3>1. m \in Numbers /\ low <= m /\ m < low + limit /\ StartBlock <= m /\ m <= n
      BY <1>0, <1>1, <2>1, <2>2
    <3>2. Completed(m)
      BY <1>4, <3>1, InOrderNoGap DEF NoGap
    <3> QED
      BY <1>1, <3>1, <3>2
  <2>4. \A m \in N : m \in low..(low + limit - 1)
    BY <1>0, <1>1
  <2>5. N = low..(low + limit - 1)
    BY <2>3, <2>4
  <2>6. Cardinality(low..(low + limit - 1)) = limit
    BY <1>0, <1>1, FS_Interval
  <2> QED
    BY <2>5, <2>6
<1> QED
  BY <1>2, <1>3, <1>4 DEF N

LEMMA PageStep ==
    ASSUME IInv, IxTypeOK, RunnerAlone, OrderInv, WInv, PageOrdered, PageFull, [WNext]_wvars
    PROVE  PageOrdered' /\ PageFull'
<1>0. /\ rows \subseteq Block /\ reported \subseteq Numbers
      /\ ask.from \in Numbers /\ ask.limit \in Nat \ {0}
  BY RequestAssumption DEF WInv, WTypeOK, Limits
<1>1. \A n \in reported : Completed(n)'
  BY <1>0, WStepIsIxStep, StepIsStep, NoneDemoted DEF PageFull
<1>2. CASE GetSyncStatus
  <2>1. \A n \in reported' : Completed(n)'
    BY <1>2 DEF GetSyncStatus, ReportedLatest, LatestFullySynced, Completed, ixvars
  <2> QED
    BY <1>2, <2>1 DEF GetSyncStatus, PageOrdered, PageFull, NumbersOf
<1>3. ASSUME NEW from \in Froms, NEW limit \in Limits, Request(from, limit)
      PROVE  PageOrdered' /\ PageFull'
  <2>1. rows' = {} /\ wpc' = "rows" /\ UNCHANGED reported
    BY <1>3 DEF Request, WInv, PageRecorded
  <2> QED
    BY <1>1, <2>1 DEF PageOrdered, PageFull, NumbersOf
<1>4. CASE ReadRows
  <2>1. rows' = Page(ask.from, ask.limit) /\ UNCHANGED <<ask, reported>>
    BY <1>4 DEF ReadRows
  <2> DEFINE N == NumbersOf(Page(ask.from, ask.limit))
  <2>2. NumbersOf(rows)' = N
    BY <2>1 DEF NumbersOf
  <2>3. /\ \A n \in N : ask.from <= n /\ StartBlock <= n
        /\ \A n \in N, m \in Numbers :
             ask.from <= m /\ StartBlock <= m /\ m <= n => m \in N
        /\ \A n \in Numbers :
             Completed(n) /\ ask.from <= n => n \in N \/ Cardinality(N) = ask.limit
    BY <1>0, PageShape DEF OrderInv
  <2> HIDE DEF N
  <2>4. PageOrdered'
    BY <2>1, <2>2, <2>3 DEF PageOrdered
  <2>5. PageFull'
    BY <1>0, <1>1, <2>1, <2>2, <2>3 DEF PageFull
  <2> QED
    BY <2>4, <2>5
<1>5. CASE ReadTxs
  <2>1. wpc = "txs" /\ UNCHANGED <<rows, ask, reported>>
    BY <1>5 DEF ReadTxs
  <2> QED
    BY <1>1, <2>1 DEF PageOrdered, PageFull, NumbersOf
<1>6. CASE WDone \/ WRestart
  <2>1. rows' = {} /\ wpc' = "idle" /\ UNCHANGED reported
    BY <1>6 DEF WDone, WRestart
  <2> QED
    BY <1>1, <2>1 DEF PageOrdered, PageFull, NumbersOf
<1>7. CASE (IxStep /\ UNCHANGED wallet) \/ UNCHANGED wvars
  <2>1. UNCHANGED wallet
    BY <1>7 DEF wallet, wvars
  <2> QED
    BY <1>1, <2>1 DEF wallet, PageOrdered, PageFull, NumbersOf
<1> QED
  BY <1>2, <1>3, <1>4, <1>5, <1>6, <1>7 DEF WNext

LEMMA PageInvariance == ASSUME RunnerAlone PROVE WSpec => [](PageOrdered /\ PageFull)
<1>1. WInit => PageOrdered /\ PageFull
  BY DEF WInit, PageOrdered, PageFull, NumbersOf
<1>2. /\ IInv /\ IxTypeOK /\ OrderInv /\ WInv /\ PageOrdered /\ PageFull /\ [WNext]_wvars
      => (PageOrdered /\ PageFull)'
  BY PageStep
<1> QED
  BY WalletReadsOnly, OrderInvariance, WInvariance, <1>1, <1>2, PTL DEF WSpec

LEMMA ServedIsPage ==
    ASSUME WInv, wpc = "answered"
    PROVE  Served = NumbersOf(rows)
BY DEF WInv, PageRecorded, Served, NumbersOf

\* A page has no hole, starts where it was asked to or at the start block, and
\* its blocks follow each other, if one caller syncs at a time: on any chain,
\* and whatever is completed between the two queries (ListCompletedBlocks).
THEOREM AloneServedContiguous == ASSUME RunnerAlone PROVE WSpec => []ServedContiguous
<1>1. IInv /\ WInv /\ PageOrdered => ServedContiguous
  <2> SUFFICES ASSUME IInv, WInv, PageOrdered, wpc = "answered"
               PROVE  /\ \A n \in Served, m \in Numbers :
                           ask.from <= m /\ StartBlock <= m /\ m <= n => m \in Served
                      /\ \A a, b \in answer :
                           NumberOf[b.block] = NumberOf[a.block] + 1
                           => ParentOf[b.block] = a.block
    BY DEF ServedContiguous
  <2>1. ASSUME NEW a \in answer, NEW b \in answer,
               NumberOf[b.block] = NumberOf[a.block] + 1
        PROVE  ParentOf[b.block] = a.block
    <3> DEFINE n == NumberOf[b.block]
    <3>1. /\ a.block \in rows /\ b.block \in rows /\ Known(a.block) /\ Known(b.block)
          /\ a.block \in Block /\ b.block \in Block
      BY DEF WInv, WTypeOK, PageRecorded
    <3>2. StartBlock <= NumberOf[a.block]
      BY <3>1 DEF PageOrdered, NumbersOf
    <3>0. n \in Numbers /\ NumberOf[a.block] \in Nat /\ StartBlock \in Nat
      BY <3>1, NodeAssumption, SyncAssumption DEF Numbers
    <3>3. n \in Numbers /\ n > 0 /\ n # StartBlock /\ n - 1 = NumberOf[a.block]
      BY <2>1, <3>0, <3>2
    <3>4. blocks[n].hash = b.block /\ Stored(n) /\ blocks[n - 1].hash = a.block
      BY <3>1, <3>3, NodeAssumption DEF Known
    <3> QED
      BY <3>3, <3>4 DEF IInv, Linked
  <2> QED
    BY <2>1, ServedIsPage DEF PageOrdered
<1> QED
  BY WInvariance, PageInvariance, <1>1, PTL

\* A reported block is served to every later request it is in the range of,
\* unless the page is full, if one caller syncs at a time (GetSyncStatus and
\* ListCompletedBlocks).
THEOREM AloneReportedIsServed == ASSUME RunnerAlone PROVE WSpec => []ReportedIsServed
<1>1. WInv /\ PageFull => ReportedIsServed
  BY ServedIsPage DEF PageFull, ReportedIsServed
<1> QED
  BY WInvariance, PageInvariance, <1>1, PTL

-----------------------------------------------------------------------------
(* Receipts of a page.                                                     *)

LEMMA PageReceiptsStep ==
    ASSUME IInv, RInv, IxTypeOK, FinalInv, ReceiptsInv, WInv,
           PageHasReceipts, NeverNilReceipt, [WNext]_wvars
    PROVE  PageHasReceipts' /\ NeverNilReceipt'
<1>0. [Next]_vars /\ Places /\ SafeInserts
  BY WStepIsIxStep, StepIsStep, FinalSafe DEF FinalInv
<1>1. \A b \in rows : MissingReceipts(NumberOf[b])' = {}
  <2> TAKE b \in rows
  <2>1. NumberOf[b] \in Numbers /\ Stored(NumberOf[b])
    BY NodeAssumption DEF WInv, WTypeOK, PageRecorded, Known
  <2>2. MissingReceipts(NumberOf[b]) = {}
    BY DEF PageHasReceipts
  <2>3. MissingReceipts(NumberOf[b])' \subseteq MissingReceipts(NumberOf[b])
    BY <1>0, <2>1, MissingShrinks DEF MissingReceipts, Indexed
  <2> QED
    BY <2>2, <2>3
<1>2. CASE ReadRows
  <2>1. \A b \in rows' : MissingReceipts(NumberOf[b]) = {}
    BY <1>2, PageIsCompleted
       DEF ReadRows, ReceiptsInv, CompletedHasReceipts, MissingReceipts
  <2>2. wpc' # "error" /\ UNCHANGED txs
    BY <1>2 DEF ReadRows, ixvars
  <2> QED
    BY <2>1, <2>2 DEF PageHasReceipts, NeverNilReceipt, MissingReceipts, Indexed
<1>3. CASE ReadTxs
  <2>1. ~HasNilReceipt(RowsOf(rows))
    BY DEF HasNilReceipt, RowsOf, PageHasReceipts, MissingReceipts
  <2>2. wpc' # "error" /\ UNCHANGED rows
    BY <1>3, <2>1 DEF ReadTxs
  <2> QED
    BY <1>1, <2>2 DEF PageHasReceipts, NeverNilReceipt, MissingReceipts, Indexed
<1>4. CASE WDone \/ WRestart
  BY <1>4 DEF WDone, WRestart, PageHasReceipts, NeverNilReceipt
<1>5. ASSUME UNCHANGED <<wpc, rows>> \/ (UNCHANGED rows /\ wpc' = "rows")
      PROVE  PageHasReceipts' /\ NeverNilReceipt'
  BY <1>1, <1>5 DEF PageHasReceipts, NeverNilReceipt, MissingReceipts, Indexed
<1>6. ASSUME NEW from \in Froms, NEW limit \in Limits, Request(from, limit)
      PROVE  PageHasReceipts' /\ NeverNilReceipt'
  BY <1>5, <1>6 DEF Request
<1>7. CASE GetSyncStatus \/ (IxStep /\ UNCHANGED wallet) \/ UNCHANGED wvars
  BY <1>5, <1>7 DEF GetSyncStatus, wallet, wvars
<1> QED
  BY <1>2, <1>3, <1>4, <1>6, <1>7 DEF WNext

\* A page never fails for a transaction without a receipt status, for any
\* number of callers of the indexer, if they sync final blocks and the node
\* has the receipts of what it has mined (mapReceiptStatus).
THEOREM FinalNeverNilReceipt ==
    ASSUME TargetFinal, ~ReceiptMayLag
    PROVE  WSpec => []NeverNilReceipt
<1>1. WInit => PageHasReceipts /\ NeverNilReceipt
  BY DEF WInit, PageHasReceipts, NeverNilReceipt
<1>2. /\ IInv /\ RInv /\ IxTypeOK /\ FinalIxInv /\ ReceiptsInv /\ WInv
      /\ PageHasReceipts /\ NeverNilReceipt /\ [WNext]_wvars
      => (PageHasReceipts /\ NeverNilReceipt)'
  BY PageReceiptsStep DEF FinalIxInv
<1> QED
  BY WalletReadsOnly, IndexerIsSync, ReceiptInvariance, FinalIxInvariance,
     FinalReceiptsInvariance, WInvariance, <1>1, <1>2, PTL DEF WSpec
=============================================================================
