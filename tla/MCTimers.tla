------------------------------ MODULE MCTimers ------------------------------
(* Timers with two stores and durations of zero to two. *)
EXTENDS Timers
=============================================================================
