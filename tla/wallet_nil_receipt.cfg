\* A reorg removes a transaction between its insert and its receipt.
CONSTANTS
    g = g  a1 = a1  a2 = a2  a3 = a3  b1 = b1  b2 = b2  c2 = c2  c3 = c3
    t1 = t1  t2 = t2  t3 = t3  None = None
    Block <- MCBlock
    Tx = {t1, t2, t3}
    NoBlock = None
    MaxNumber = 3
    NumberOf <- MCNumberOf
    ParentOf <- MCParentOf
    TxIndex <- MCTxIndex
    StartBlock = 1
    Chains <- Forks
    FinalDepth = 4
    Lag = 0
    ReceiptMayLag = FALSE
    Syncer = {r}
    Runner = {r}
    RunOnce = {}
    Manual = {}
    MaxLimit = 2
    Froms = {0, 2}
SPECIFICATION WSpec
INVARIANT NeverNilReceipt
