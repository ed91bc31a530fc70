\* Expected to fail: a better reading without support hides a supported win.
SPECIFICATION Spec
CONSTANTS
    Guardrails <- MCGuardrails
    Required <- MCRequired
    RegressionCeiling = 2
    GuardrailCeiling <- MCGuardrailCeiling
    MinimumImprovement = 3
    SupportRequired = TRUE
    SeedLists <- MCSeedLists
    StressSeeds <- MCStressSeeds
    PrimaryReadings <- MCPrimaryReadings
    GuardrailReadings <- MCGuardrailReadings
    StressReadings <- MCStressReadings
    LocalIsolation = TRUE
INVARIANT
    SupportedWinCarries
CHECK_DEADLOCK FALSE
