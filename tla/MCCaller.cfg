SPECIFICATION Spec
CONSTANTS
    Calls = {c1, c2, c3, c4}
    Consumers = {k1, k2}
    NoCall = NoCall
    SequenceMod = 4
    Capacity = 2
SYMMETRY Symmetry
INVARIANTS
    TypeOK
    AtMostOneResponse
    StaysRegistered
