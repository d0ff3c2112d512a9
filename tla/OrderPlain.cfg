SPECIFICATION Spec
CONSTANTS
    Keys <- PlainKeys
    Vals <- Empty
    NoName = NoName
    End = End
INVARIANTS
    TypeOK
    DataTrusted
    DumpIsSubtree
PROPERTIES
    ImplementsScan
    Advances
CHECK_DEADLOCK FALSE
