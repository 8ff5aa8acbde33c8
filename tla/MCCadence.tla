----------------------------- MODULE MCCadence ------------------------------
(* Instances of Cadence.  The step sizes decide the question: the ones a   *)
(* whole number of which, or a whole multiple of which below 100 ms, is a  *)
(* millisecond keep the cadence; other ones fall behind or run ahead.      *)
EXTENDS Cadence

MCMsg == 1 .. 3
MCCycleTime == <<2, 0, 5>>

(* simer -stepsize 0.0005, 1 ms, 2 ms, 5 ms, 50 ms and 99 ms *)
RegularSteps == {250, 500, 1000, 2000, 5000, 50000, 99000}
MixedSteps == RegularSteps \cup {700, 1500, 100000}
SlowSteps == {700}
FastSteps == {100000}
=============================================================================
