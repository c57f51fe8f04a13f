CONSTANTS
    Timeout = 0
    MaxTime = 1
    Procs = {leader}
    Leader = leader
    Escapees = {}
    Stubborn = {leader}
    ExitCodes = {0}
    KillNumbers = {}
    MaxBytes = 3
    RemoteCommands = {"timer_reset"}
    OsSignals = {}
    StdoutLimit = 1
    IntMax = 7
SPECIFICATION FairSpec
PROPERTIES UnprovokedSignalHasCause EndOfJobEndsBox LimitsAct
