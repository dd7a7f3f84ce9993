SPECIFICATION Spec
CONSTANTS
    aime = aime
    bana = bana
    suica = suica
    ultralight = ultralight
    Tags = {aime, bana, suica, ultralight}
    Kind <- MCKind
    NoTag = NoTag
    Requests <- MCRequests
INVARIANTS
    TypeOK
    AnswersAreOfTheCard
    OneAnswer
PROPERTIES
    RadioOffServesNoCard
    HeldCardIsReadable
