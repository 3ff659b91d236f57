CONSTANTS
    Types = {"GPS", "Machine"}
    Devices = {rx, mod}
    Receivers = {rx}
    None = None
    MaxWorkers = 2
    MaxEvents = 4
    rx = rx
    mod = mod
SPECIFICATION SerialSpec
INVARIANTS SerialTypeOK OpenPortIsShown DynamicPortsTellTheTruth
CHECK_DEADLOCK FALSE
