SPECIFICATION Spec
CONSTANTS
    suica = suica
    felica = felica
    aime = aime
    aime2 = aime2
    bana = bana
    ultralight = ultralight
    Tags <- HeldTags
    Kind <- MCKind
    NoTag = NoTag
    Incoming <- PollMessages
    QueueCap = 1
PROPERTIES
    HeldCardIsDelivered
    ScansAreNotStarved
