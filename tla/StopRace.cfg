CONSTANTS
    Timeout = 1
    MaxTime = 1
    Procs = {leader}
    Leader = leader
    Escapees = {}
    Stubborn = {}
    ExitCodes = {0}
    KillNumbers = {}
    MaxBytes = 0
    RemoteCommands = {"stop"}
    OsSignals = {}
    StdoutLimit = 0
    IntMax = 7
SPECIFICATION Spec
INVARIANT FinishedJobIsNoError
