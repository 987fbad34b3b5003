----------------------------- MODULE MCTimerLoop -----------------------------
(* Two handlers and three requests: a timer is replaced, withdrawn, or shares *)
(* its deadline with another one while the loop is at any point of a turn.    *)
EXTENDS TimerLoop
=============================================================================
