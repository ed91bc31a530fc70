SPECIFICATION Spec
CONSTANTS
    t1 = t1
    t2 = t2
    p1 = p1
    p2 = p2
    NoTarget = NoTarget
    NoPatch = NoPatch
    Targets <- MCTargets
    Patches <- MCPatches
    Rankings <- MCRankings
    PriorTargets <- NoHistory
    HistoryPatches <- NoHistory
    MaxCandidates = 3
    MaxConsecutiveFailures = 2
    MaxConsecutiveInconclusive = 2
    FreeChoice = FALSE
    MaxProcesses = 2
    MaxFaults = 1
SYMMETRY PatchSymmetry
INVARIANTS
    TypeOK
    GraphAgreesWithRecords
    TalliesCountRecordedPrefix
    AcceptedRecordHasArtifact
    PatchMeasuredOnce
    OneReaskPerCycle
    OutageIsTwoFailedCycles
CHECK_DEADLOCK FALSE
