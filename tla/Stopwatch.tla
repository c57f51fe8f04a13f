------------------------------ MODULE Stopwatch ------------------------------
(***************************************************************************)
(* What agents.Timer promises its user (src/agents/timer.go, the comments  *)
(* of the interface): a stopwatch with an alarm.  It may read less than    *)
(* the time it has really run, never more; it rings only above the limit;  *)
(* a ring that is acknowledged leaves it paused at the limit, so that it   *)
(* cannot ring again before someone starts or continues it.                *)
(***************************************************************************)
EXTENDS Integers

CONSTANT Timeout        \* the limit above which the alarm rings

VARIABLES running,      \* is the watch counting?
          ran,          \* time it has really counted since it was last zeroed
          reading,      \* what it shows (ElapsedTime)
          ringing       \* the alarm is on and nobody has acknowledged it yet

svars == <<running, ran, reading, ringing>>

Init ==
    /\ running = FALSE
    /\ ran = 0
    /\ reading = 0
    /\ ringing = FALSE

\* Time passes.
Pass ==
    /\ running
    /\ ran' = ran + 1
    /\ UNCHANGED <<running, reading, ringing>>

\* The display catches up with the time run, perhaps not completely.
Show ==
    /\ running
    /\ ~ringing
    /\ reading' \in reading..ran
    /\ UNCHANGED <<running, ran, ringing>>

\* Reset (on = FALSE) and Start (on = TRUE).
Zero(on) ==
    /\ ~ringing
    /\ running' = on
    /\ ran' = 0
    /\ reading' = 0
    /\ UNCHANGED ringing

\* Stop (on = FALSE) and Resume (on = TRUE).
Switch(on) ==
    /\ ~ringing
    /\ running' = on
    /\ UNCHANGED <<ran, reading, ringing>>

Ring ==
    /\ ~ringing
    /\ reading > Timeout
    /\ ringing' = TRUE
    /\ UNCHANGED <<running, ran, reading>>

Acknowledge ==
    /\ ringing
    /\ ringing' = FALSE
    /\ running' = FALSE
    /\ reading' = Timeout
    /\ UNCHANGED ran

Next ==
    \/ Pass
    \/ Show
    \/ \E on \in BOOLEAN : Zero(on) \/ Switch(on)
    \/ Ring
    \/ Acknowledge

Spec == Init /\ [][Next]_svars
==============================================================================
