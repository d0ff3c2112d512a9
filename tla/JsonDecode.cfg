SPECIFICATION Spec
CONSTANTS
    Doc <- MCDoc
    MaxOps = 3
INVARIANTS
    RoundTrip
    MarksAsAsked
CHECK_DEADLOCK FALSE
