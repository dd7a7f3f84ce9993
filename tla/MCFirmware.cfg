SPECIFICATION Spec
CONSTANTS
    suica = suica
    felica = felica
    aime = aime
    aime2 = aime2
    bana = bana
    ultralight = ultralight
    Tags <- PublishedTags
    Kind <- MCKind
    NoTag = NoTag
    Incoming <- ReaderMessages
    QueueCap = 1
INVARIANTS
    HeldCardIsKept
    NoSilentDivergence
