SPECIFICATION Spec
CONSTANTS
    suica = suica
    felica = felica
    aime = aime
    aime2 = aime2
    bana = bana
    ultralight = ultralight
    Tags <- AimeTag
    Kind <- MCKind
    NoTag = NoTag
    Incoming <- NoMessages
    QueueCap = 1
PROPERTIES
    HostLearns
