----------------------------- MODULE MCTimerDpc -----------------------------
(* TimerDpc with three channels. *)
EXTENDS TimerDpc, TLC

CONSTANTS ch0, ch1, ch2

ThreeChans == {ch0, ch1, ch2}
AnyChan == Permutations(ThreeChans)
=============================================================================
