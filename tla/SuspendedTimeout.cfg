CONSTANTS
    Timeout = 0
    MaxTime = 1
    Procs = {leader}
    Leader = leader
    Escapees = {}
    Stubborn = {}
    ExitCodes = {0}
    KillNumbers = {}
    MaxBytes = 0
    RemoteCommands = {"suspend"}
    OsSignals = {}
    StdoutLimit = 0
    IntMax = 7
SPECIFICATION FairSpec
PROPERTY TimeoutEndsJob
