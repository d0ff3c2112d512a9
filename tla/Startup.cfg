SPECIFICATION Spec
CONSTANTS
    Piece <- MCPiece
    Paths <- MCPaths
    Devices = {}
    Scripts <- MCScripts
    Values <- MCValues
    None = None
    MaxPaths = 2
    MaxArgs = 4
INVARIANTS
    TypeOK
    ConfigServed
    SearchOrder
    StartFate
CHECK_DEADLOCK FALSE
