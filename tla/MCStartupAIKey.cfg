SPECIFICATION Spec
CONSTANTS
    FlagSettings <- FlagsWithAndWithoutAI
    ConfigSpecs <- AnyConfig
INVARIANT
    AIKeyByPriority
CHECK_DEADLOCK FALSE
