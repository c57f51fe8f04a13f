CONSTANTS
    Timeout <- Expired
    MaxTime = 0
    Procs = {leader, w}
    Leader = leader
    Escapees = {w}
    Stubborn = {w}
    ExitCodes = {3}
    KillNumbers = {99}
    MaxBytes = 0
    RemoteCommands <- JobCommands
    OsSignals = {"SIGTERM", "SIGINT", "SIGHUP"}
    StdoutLimit = 0
    IntMax = 7
SPECIFICATION FairSpec
INVARIANTS TypeOK ResultDeliveredOnce ExitsAfterJob
PROPERTIES KillEndsBox
