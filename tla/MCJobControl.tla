----------------------------- MODULE MCJobControl -----------------------------
(* A leader and two descendants, one of which may leave the group.          *)
EXTENDS JobControl
===============================================================================
