\* Expected to fail: an answer without one of its questions is stored.
SPECIFICATION JevSpec
CONSTANTS
    Sites = {"s1"}
    Questions = {"alloc", "prealloc"}
    Builds = {"b1", "b2"}
    Retries = 1
    MaxAsks = 2
    MaxProcesses = 3
INVARIANT
    PartialAnswerIsNeverCached
CHECK_DEADLOCK FALSE
