------------------------------ MODULE MCTimer -------------------------------
(* Bounds for model checking Timer.                                        *)
EXTENDS Timer, TLC

\* tima_periods[] of timer.c.
TimaPeriods == 0 :> 1024 @@ 1 :> 16 @@ 2 :> 64 @@ 3 :> 256

AllTac == BOOLEAN \X (0 .. 3)

TimerSources == {GB_INT_TIMER}
=============================================================================
