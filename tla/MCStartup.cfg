SPECIFICATION FairSpec
CONSTANTS
    FlagSettings <- FlagsWithAndWithoutAI
    ConfigSpecs <- AnyConfig
INVARIANTS
    TypeOK
    DSNByPriority
    AllOrNothing
    StoreReadyWhenUsed
PROPERTIES
    ProviderFixed
    SignalEnds
CHECK_DEADLOCK FALSE
