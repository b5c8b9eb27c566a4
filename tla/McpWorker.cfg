SPECIFICATION FairSpec
CONSTANTS
    Calls = {"get_tree", "invoke"}
    MaxLinks = 2
    MaxUpdates = 1
INVARIANTS
    TypeOK
    MutatingAtMostOnce
    ContinuityReported
    AnswerBelongsToCall
    OneStream
PROPERTIES
    CallsEnd
CHECK_DEADLOCK FALSE
