------------------------------- MODULE Timer --------------------------------
(***************************************************************************)
(* The timer of timer.c.  update_timer() runs once per clock cycle but     *)
(* advances its 16-bit counter only in every 16th call; DIV is the upper   *)
(* byte of that counter, and TIMA counts periods of the counter selected   *)
(* by TAC.                                                                 *)
(***************************************************************************)
EXTENDS Integers, Interrupts

CONSTANTS
  CycleMod,    \* values of the uint16_t cycles, 65536
  Periods,     \* tima_periods[], as cycles: <<1024, 16, 64, 256>> from 0
  TimaMod,     \* values of the uint8_t tima, 256
  TimaWrites,  \* what the program may write to TIMA and to TMA
  TacWrites,   \* ... to TAC: bit 2 and bits 0..1
  Sources      \* the interrupt sources represented in int_flag

ASSUME TimerAssumption ==
  /\ CycleMod \in Nat \ {0} /\ CycleMod % 16 = 0
  /\ \A k \in 0 .. 3 : Periods[k] \in Nat \ {0} /\ Periods[k] % 16 = 0
  /\ TimaMod \in Nat \ {0} /\ TimaWrites \subseteq 0 .. TimaMod - 1
  /\ TacWrites \subseteq BOOLEAN \X (0 .. 3)
  /\ GB_INT_TIMER \in Sources /\ Sources \subseteq AllSources

\* The counter wraps where every period ends: all are powers of two.
ASSUME WrapAssumption == \A k \in 0 .. 3 : CycleMod % Periods[k] = 0

VARIABLES
  cycles, cycles_since_last_update,
  tima, tma,
  tac_on, tac_clock,    \* TAC bit 2 and bits 0..1
  int_flag

clock == <<cycles, cycles_since_last_update>>
tvars == <<clock, tima, tma, tac_on, tac_clock, int_flag>>

(* init_timer *)
Init ==
  /\ cycles = 0 /\ cycles_since_last_update = 0
  /\ tima = 0 /\ tma = 0 /\ tac_on = FALSE /\ tac_clock = 0
  /\ int_flag = {}

-----------------------------------------------------------------------------
(* update_timer *)

\* tima_periods[] keeps each period less one, to use it as a mask.
PeriodEnds(c) == c % Periods[tac_clock] = 0

StepTimaPlain ==
  IF tima + 1 = TimaMod
    THEN tima' = 0 /\ int_flag' = timer_interrupt(int_flag)
    ELSE tima' = tima + 1 /\ UNCHANGED int_flag

StepTimaSilent ==
  tima' = (IF tima + 1 = TimaMod THEN tma ELSE tima + 1) /\ UNCHANGED int_flag

StepTima ==
  IF tima + 1 = TimaMod
    THEN tima' = tma /\ int_flag' = timer_interrupt(int_flag)
    ELSE tima' = tima + 1 /\ UNCHANGED int_flag

Count ==
  /\ cycles_since_last_update # 15
  /\ cycles_since_last_update' = cycles_since_last_update + 1
  /\ UNCHANGED <<cycles, tima, int_flag>>

UpdateBatch ==
  /\ cycles_since_last_update = 15
  /\ cycles_since_last_update' = 0
  /\ cycles' = (cycles + 16) % CycleMod
  /\ IF tac_on /\ PeriodEnds(cycles') THEN StepTima
                                     ELSE UNCHANGED <<tima, int_flag>>

UpdateTimer == (Count \/ UpdateBatch) /\ UNCHANGED <<tma, tac_on, tac_clock>>

-----------------------------------------------------------------------------
(* write_byte() to the timer registers, and the other users of IF. *)

ClearDivRestarting == cycles' = cycles % 256 /\ cycles_since_last_update' = 0

\* Only the upper byte of the counter is cleared.
ClearDiv == cycles' = cycles % 256 /\ UNCHANGED cycles_since_last_update

WriteDiv == ClearDiv /\ UNCHANGED <<tima, tma, tac_on, tac_clock, int_flag>>

WriteTima ==
  /\ tima' \in TimaWrites
  /\ UNCHANGED <<clock, tma, tac_on, tac_clock, int_flag>>

WriteTma ==
  /\ tma' \in TimaWrites
  /\ UNCHANGED <<clock, tima, tac_on, tac_clock, int_flag>>

WriteTac ==
  /\ \E tac \in TacWrites : tac_on' = tac[1] /\ tac_clock' = tac[2]
  /\ UNCHANGED <<clock, tima, tma, int_flag>>

OthersTouchFlags ==
  /\ int_flag' \in SUBSET Sources
  /\ UNCHANGED <<clock, tima, tma, tac_on, tac_clock>>

Next ==
  \/ UpdateTimer
  \/ WriteDiv \/ WriteTima \/ WriteTma \/ WriteTac
  \/ OthersTouchFlags

\* run_frame() updates the timer in every cycle, unless the program exits.
Spec == Init /\ [][Next]_tvars /\ WF_tvars(UpdateTimer)

-----------------------------------------------------------------------------
(* The counter moves in whole batches, so that the part of it that DIV     *)
(* shows and a period can end in is never seen half way through one.       *)
TypeOK ==
  /\ cycles \in 0 .. CycleMod - 1 /\ cycles % 16 = 0
  /\ cycles_since_last_update \in 0 .. 15
  /\ tima \in 0 .. TimaMod - 1 /\ tma \in 0 .. TimaMod - 1
  /\ tac_on \in BOOLEAN /\ tac_clock \in 0 .. 3
  /\ int_flag \subseteq Sources

C == INSTANCE CycleTimer WITH counter <- cycles + cycles_since_last_update

(* "There's really no reason to update the cycles one by one" (timer.c):   *)
(* whatever is written to DIV, TIMA, TMA and TAC, and whenever, TIMA and   *)
(* the interrupt behave as if the counter advanced in every single cycle.  *)
BatchingIsInvisible == C!Spec

(* A program that leaves the timer running is interrupted again and again. *)
TimerKeepsFiring ==
  <>[]tac_on /\ <>[][UpdateTimer \/ OthersTouchFlags]_tvars
    => []<>(GB_INT_TIMER \in int_flag)
=============================================================================
