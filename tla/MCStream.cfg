SPECIFICATION StreamFairSpec
CONSTANTS
    Attempts = 2
    MaxDeltas = 2
INVARIANTS
    AnswerIsTheWholeStream
    RunawayIsNotRepeated
PROPERTY
    NothingLingers
CHECK_DEADLOCK FALSE
