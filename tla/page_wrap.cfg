\* A page so far that its offset overflows.
CONSTANTS
    g = g  a1 = a1  a2 = a2  a3 = a3  b1 = b1  b2 = b2  c2 = c2  c3 = c3
    t1 = t1  t2 = t2  t3 = t3  None = None  x = x
    Block <- MCBlock
    Tx = {t1, t2, t3}
    NoBlock = None
    MaxNumber = 3
    NumberOf <- MCNumberOf
    ParentOf <- MCParentOf
    TxIndex <- MCTxIndex
    StartBlock = 1
    Chains <- Forks
    FinalDepth = 1
    Lag = 1
    ReceiptMayLag = FALSE
    Syncer = {r}
    Runner = {r}
    RunOnce = {}
    Manual = {}
    Address = {x}
    PartiesOf <- MCPartiesOf
    MaxPageSize = 2
    MaxInt = 7
    Pages = {7}
    PageSizes = {2}
SPECIFICATION ESpec
INVARIANT PageAtItsRank
