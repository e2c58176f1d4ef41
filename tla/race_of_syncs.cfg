\* Two concurrent syncs fetch the same number before and after a reorg.
CONSTANTS
    g = g  a1 = a1  a2 = a2  b1 = b1  b2 = b2
    t1 = t1  t2 = t2  None = None
    Block <- MCBlock
    Tx = {t1, t2}
    NoBlock = None
    MaxNumber = 2
    NumberOf <- MCNumberOf
    ParentOf <- MCParentOf
    TxIndex <- MCTxIndex
    Lag = 0
    StartBlock = 1
    Chains <- Reorgs
    FinalDepth = 3
    Syncer = {s1, s2}
    ReceiptMayLag = FALSE
SPECIFICATION Spec
INVARIANT SyncOkMeansStored
