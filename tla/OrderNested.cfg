SPECIFICATION Spec
CONSTANTS
    Keys <- NestedKeys
    Vals <- Empty
    NoName = NoName
    End = End
PROPERTIES
    ImplementsScan
CHECK_DEADLOCK FALSE
