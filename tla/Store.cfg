SPECIFICATION FairSpec
CONSTANTS
    Proc = {p1, p2}
    Key = {k1}
    Val = {v1, v2}
    NoVal = NoVal
    NoTxn = NoTxn
    NoProc = NoProc
    MaxTxn = 4
INVARIANTS
    TypeOK
    WriterHoldsMutex
    NewestMetaKept
    MtiNamesMeta
PROPERTIES
    ImplementsStore
    CommitReturns
    DeadOwnerReplaced
