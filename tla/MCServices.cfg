\* Every part that works for an evaluation or a discovery, one per behaviour.
SPECIFICATION ServicesSpec
CONSTANTS
    \* Measurement and Policy
    Guardrails <- MCGuardrails
    Required <- MCRequired
    RegressionCeiling = 2
    GuardrailCeiling <- MCGuardrailCeiling
    MinimumImprovement = 3
    SupportRequired = TRUE
    SeedLists <- MCSeedLists
    StressSeeds <- MCStressSeeds
    PrimaryReadings <- MCPrimaryReadings
    GuardrailReadings <- MCGuardrailReadings
    StressReadings <- MCStressReadings
    LocalIsolation = TRUE
    \* BaselineRun
    SeedSteps <- MCSeedSteps
    MaxDuration = 2
    NullCandidates = 1
    MaxRuns = 2
    LastTick = 4
    \* Evaluation and TestGate
    BaseOutputs <- MCBaseOutputs
    CandidateOutputs <- MCCandidateOutputs
    Patches = {"p1"}
    MaxEvaluations = 4
    \* JevQuestions
    Sites = {"s1"}
    Questions = {"alloc"}
    Builds = {"b1", "b2"}
    Retries = 1
    MaxAsks = 2
    MaxProcesses = 3
    \* JevPreflight
    CanaryQuestions = {"alloc", "prealloc"}
    AllowDrift = FALSE
    Moves <- MCMoves
    Tolerance = 1
    \* HotList and Discovery
    Symbols <- MCSymbols
    Own <- MCOwn
    GoSyscall <- MCGoSyscall
    Libc = {"read", "write"}
    SwitchFrames = {"runtime.asmcgocall"}
    Bufio = {"bufio.Flush"}
    Actionable <- MCActionable
    LocationOf <- MCLocationOf
    HotBudget = 3
    MaxCallers = 2
    DiscoverySeeds <- MCDiscoverySeeds
    VariantLists <- MCVariantLists
    Profiles <- MCProfiles
    BenchmarkHot <- MCBenchmarkHot
    AllocationHot <- MCAllocationHot
    MemoryObjective = TRUE
    MaxDiscoveries = 2
    \* CauseTargets
    Evidence <- MCEvidence
    Untargeted = Untargeted
    MaxCauseSites = 2
    MaxCampaigns = 2
    MaxAttempts = 3
    \* PairedSeries
    Pairs = 7
    MaxSeries = 2
    PositionEffects <- MCPositionEffects
    Effects <- MCEffects
    RunCost = 100
    SlowCost = 20
    Limit = 2
    \* Patch
    Tree <- MCTree
    Guarded = {"go.mod", "testdata"}
    Unsearched = {"vendor"}
    Sections <- MCSections
    MaxSections = 3
    MaxPrepares = 2
INVARIANTS
    NoDiscardedReading
    OneExtension
    SelectionIsFresh
    AcceptanceIsEarned
    OverLimitIsNamed
    ElapsedIsTheTimeLived
    BudgetIsNotExceeded
    SeedRunsMatchSteps
    StableTestsStayRequired
    MeasuredPassedTheGate
    TreesAreTidied
    AnswerIsOfThisBuild
    UsageIsWhatWasPaid
    ReturnedRunIsOver
    EvidenceIsBacked
    CreditIsConserved
    AttacksWhatIsOwed
    SeriesReadsTheBinaries
    PreparedIsTheProposal
PROPERTIES
    MeasurementEnds
    FailedSeriesRejects
    VerificationLeavesBaseline
    OneOutlierDecidesNothing
CHECK_DEADLOCK FALSE
