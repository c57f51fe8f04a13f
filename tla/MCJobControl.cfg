CONSTANTS
    Procs = {leader, w1, w2}
    Leader = leader
    Escapees = {w1}
    Stubborn = {w2}
    ExitCodes = {0, 3}
    KillNumbers = {9, 19}
    MaxBytes = 1
SPECIFICATION FairSpec
INVARIANTS OutputDrained ReportedJobIsOver StreamsAccounted
PROPERTIES KilledJobIsReported
CHECK_DEADLOCK FALSE
