SPECIFICATION Spec
CONSTANTS
    ByteMod = 16
    SYNC = 9
    ESCAPE = 6
    Capacity = 17
    Addresses = {0}
    Requests <- MCRequests
    MaxRequests = 3
    MaxLosses = 2
\* The host stops writing at the bound.
CHECK_DEADLOCK FALSE
INVARIANTS
    TypeOK
    FrameFits
    ExactWithoutLoss
    Recovers
