SPECIFICATION FairSpec
CONSTANTS
    Table = {t1, t2, t3}
    Field = {f1, f2}
    Plain = Plain
    Function = Function
    BadKey = BadKey
INVARIANTS
    TypeOK
    RefsArePath
    OutcomeJustified
PROPERTIES
    EncodeEnds
CHECK_DEADLOCK FALSE
