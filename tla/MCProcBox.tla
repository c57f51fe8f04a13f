------------------------------- MODULE MCProcBox -------------------------------
(* Instances of proc_box with a leader and at most one descendant.  The sets  *)
(* below are what the configurations choose from.                             *)
EXTENDS ProcBox

\* A timeout that has expired as soon as the timer looks at it.
Expired == -1

JobCommands == {"suspend", "resume", "kill", "stop"}

\* As long as redial has handed over no channel (CaseRcChan), nobody can make
\* monitor and timer wait for each other: the limits on time and on output act
\* (main.go:388 and 399).
LimitsAct == <>rcChan \/ (TimeoutStopsJob /\ LoudJobIsKilled)
===============================================================================
