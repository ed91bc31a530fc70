SPECIFICATION LadderSpec
CONSTANT Attempts = 3
INVARIANTS
    LadderTypeOK
    ReportsOwnFailure
PROPERTIES
    KeepsOneAnswer
    NoReplayAfterPartial
CHECK_DEADLOCK FALSE
