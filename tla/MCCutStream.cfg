SPECIFICATION StreamSpec
CONSTANTS
    Attempts = 2
    MaxDeltas = 2
INVARIANT CutStreamIsAnError
CHECK_DEADLOCK FALSE
