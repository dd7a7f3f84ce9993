SPECIFICATION Spec
CONSTANTS
    s1 = s1
    s2 = s2
    card1 = card1
    card2 = card2
    poller = poller
    c1 = c1
    c2 = c2
    Sessions <- TwoSessions
    Cards <- OneCard
    None = None
    Nil = Nil
    Pollers <- NoPoller
    Closers <- OneCloser
    MaxWire = 1
CHECK_DEADLOCK FALSE
INVARIANTS
    ExpiredIsIgnored
