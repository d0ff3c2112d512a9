SPECIFICATION Spec
CONSTANTS
    Env = {e1,e2}
    Tx = {t1,t2}
    Iter = {i1}
    None = None
    Lost = Lost
SYMMETRY Identities
INVARIANTS
    TypeOK
    ListedAreLive
    ReadHandleOwnsTxn
    RunningHasHandle
CHECK_DEADLOCK FALSE
