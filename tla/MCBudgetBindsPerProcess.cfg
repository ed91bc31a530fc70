SPECIFICATION Spec
CONSTANTS
    t1 = t1
    t2 = t2
    p1 = p1
    p2 = p2
    NoTarget = NoTarget
    NoPatch = NoPatch
    Targets <- MCTargets
    Patches <- OnePatch
    Rankings <- ShortRankings
    PriorTargets <- NoHistory
    HistoryPatches <- NoHistory
    MaxCandidates = 2
    MaxConsecutiveFailures = 2
    MaxConsecutiveInconclusive = 0
    FreeChoice = FALSE
    MaxProcesses = 2
    MaxFaults = 1
INVARIANT BudgetBindsPerProcess
CHECK_DEADLOCK FALSE
