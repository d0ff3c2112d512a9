SPECIFICATION Spec
CONSTANTS
    Proc = {p1, p2}
    NoProc = NoProc
    MaxReaders = 2
    MaxTxn = 3
SYMMETRY ProcSymmetry
INVARIANTS
    TypeOK
    SnapshotIntact
    FreshSnapshot
    SlotOwned
    SlotsAccounted
