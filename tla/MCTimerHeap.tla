---------------------------- MODULE MCTimerHeap ----------------------------
(* An instance of TimerHeap for TLC. *)
EXTENDS TimerHeap
=============================================================================
