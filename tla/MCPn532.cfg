SPECIFICATION Spec
CONSTANTS
    ByteMod = 32
    FrameCapacity = 40
    PN532_HOST_TO_PN532 = 20
    PN532_PN532_TO_HOST = 21
    SAM_CONFIGURATION = 2
    RF_CONFIGURATION = 12
    IN_DATA_EXCHANGE = 16
    IN_LIST_PASSIVE_TARGET = 26
    Requests <- MCRequests
    Answers <- MCAnswers
INVARIANTS
    TypeOK
    AnswersAreOwn
    NoPoisoning
PROPERTIES
    Boots
