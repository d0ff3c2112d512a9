SPECIFICATION FairCommittingSpec
CONSTANTS
    Env = {e1,e2}
    Tx = {t1,t2}
    Iter = {}
    None = None
    Lost = Lost
INVARIANTS
    HandleOwnsTxn
PROPERTIES
    NoSilentEnd
    ForgottenTxnEnds
CHECK_DEADLOCK FALSE
