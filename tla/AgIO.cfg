SPECIFICATION Spec
CONSTANTS
    Subnets = {"1", "5", "7"}
    Home = "1"
    Fallback = {"1", "5"}
    MaxCommands = 2
INVARIANTS TypeOK NoSocketWhenStopped CommandMovesModule
