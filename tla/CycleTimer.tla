----------------------------- MODULE CycleTimer -----------------------------
(***************************************************************************)
(* What the timer promises: a counter of clock cycles whose upper byte is  *)
(* DIV, and TIMA stepping in the very cycle in which the counter reaches a *)
(* multiple of the selected period.                                        *)
(***************************************************************************)
EXTENDS Integers, Interrupts

CONSTANTS CycleMod, Periods, TimaMod, TimaWrites, TacWrites, Sources

VARIABLES counter, tima, tma, tac_on, tac_clock, int_flag

cvars == <<counter, tima, tma, tac_on, tac_clock, int_flag>>

Init ==
  /\ counter = 0 /\ tima = 0 /\ tma = 0
  /\ tac_on = FALSE /\ tac_clock = 0 /\ int_flag = {}

Overflows == tima = TimaMod - 1

Tick ==
  /\ counter' = IF counter = CycleMod - 1 THEN 0 ELSE counter + 1
  /\ IF tac_on /\ counter' % Periods[tac_clock] = 0
       THEN /\ tima' = IF Overflows THEN tma ELSE tima + 1
            /\ int_flag' = int_flag \cup (IF Overflows THEN {GB_INT_TIMER} ELSE {})
       ELSE UNCHANGED <<tima, int_flag>>
  /\ UNCHANGED <<tma, tac_on, tac_clock>>

ResetDiv ==
  /\ counter' = counter % 256
  /\ UNCHANGED <<tima, tma, tac_on, tac_clock, int_flag>>

Registers ==
  /\ \/ tima' \in TimaWrites /\ UNCHANGED <<tma, tac_on, tac_clock>>
     \/ tma' \in TimaWrites /\ UNCHANGED <<tima, tac_on, tac_clock>>
     \/ <<tac_on', tac_clock'>> \in TacWrites /\ UNCHANGED <<tima, tma>>
  /\ UNCHANGED <<counter, int_flag>>

Flags == int_flag' \in SUBSET Sources /\ UNCHANGED <<counter, tima, tma, tac_on, tac_clock>>

Next == Tick \/ ResetDiv \/ Registers \/ Flags

Spec == Init /\ [][Next]_cvars
=============================================================================
