SPECIFICATION Spec
CONSTANTS
    Width = 9
    Configs <- SomeConfigs
    Reserve <- ReserveRetryConfig
INVARIANTS
    TypeOK
    BackoffBounded
    BudgetBridgesRestart
    CancelStops
