SPECIFICATION Spec
CONSTANTS
    s1 = s1
    s2 = s2
    card1 = card1
    card2 = card2
    poller = poller
    c1 = c1
    c2 = c2
    Sessions <- TwoSessions
    Cards <- TwoCards
    None = None
    Nil = Nil
    Pollers <- OnePoller
    Closers <- TwoClosers
    MaxWire = 1
SYMMETRY Symmetry
\* The service ends when it is closed.
CHECK_DEADLOCK FALSE
INVARIANTS
    TypeOK
    OneDevice
    ShownIsLive
    GettersAreRegular
    CauseIsKept
    CloseReleases
PROPERTIES
    ImplementsRegister
