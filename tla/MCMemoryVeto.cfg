\* Expected to fail: a breach first read after the selection is measured again.
SPECIFICATION Spec
CONSTANTS
    Guardrails <- MCGuardrails
    Required <- MCRequired
    RegressionCeiling = 2
    GuardrailCeiling <- MCGuardrailCeiling
    MinimumImprovement = 3
    SupportRequired = TRUE
    SeedLists <- MCSeedLists
    StressSeeds <- MCStressSeeds
    PrimaryReadings <- MCPrimaryReadings
    GuardrailReadings <- MCGuardrailReadings
    StressReadings <- MCStressReadings
    LocalIsolation = TRUE
INVARIANT
    MemoryVetoIsReproduced
CHECK_DEADLOCK FALSE
