SPECIFICATION Spec
CONSTANTS
    None = None
    Files <- MCFiles
    SymbolOf <- MCSymbolOf
    Commands <- MCCommands
    Profiles <- MCProfiles
    Environs <- MCEnvirons
    Catalogs <- MCCatalogs
INVARIANTS
    LayerPrecedence
    DryRunHonoured
    SelectorHearsIntents
    PlanCoversStart
    FeesCharged
    FailsClosed
CHECK_DEADLOCK FALSE
