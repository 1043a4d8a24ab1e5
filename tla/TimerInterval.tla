--------------------------- MODULE TimerInterval ----------------------------
(* The time between two overflows of TIMA.                                 *)
EXTENDS MCTimer

VARIABLE since   \* history: cycles since TIMA overflowed, -1 after a write

hvars == <<tvars, since>>

Overflow ==
  /\ cycles_since_last_update = 15 /\ tac_on
  /\ PeriodEnds((cycles + 16) % CycleMod) /\ tima + 1 = TimaMod

HInit == Init /\ since = -1

Counts ==
  /\ UpdateTimer
  /\ since' = IF Overflow THEN 0 ELSE IF since < 0 THEN -1 ELSE since + 1

HNext ==
  \/ Counts
  \/ (WriteDiv \/ WriteTima \/ WriteTma \/ WriteTac) /\ since' = -1
  \/ OthersTouchFlags /\ UNCHANGED since

HSpec == HInit /\ [][HNext]_hvars /\ WF_hvars(Counts)

(* Left alone, a running timer overflows every (256 - TMA) periods, to the *)
(* cycle, however the overflow falls on the batches of 16 cycles.          *)
ExactInterval ==
  [][UpdateTimer /\ Overflow /\ since >= 0
       => since + 1 = (TimaMod - tma) * Periods[tac_clock]]_hvars
=============================================================================
