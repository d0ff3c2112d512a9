SPECIFICATION OrderedSpec
CONSTANTS
    Env = {e1}
    Tx = {t1,t2}
    Iter = {i1}
    None = None
    Lost = Lost
INVARIANTS
    ClosedEnvHasNoLostTxn
CHECK_DEADLOCK FALSE
