------------------------------ MODULE Console -------------------------------
(***************************************************************************)
(* The console of gb.c: run_frame() calls update_timer(),                  *)
(* execute_cpu_cycle() and tick_ppu() in this order, FrameCycles times;    *)
(* between two frames main() displays the picture and handles key presses. *)
(* The modules Timer, Cpu and Ppu describe the components, each with an    *)
(* environment that may act between any two of its steps.  Here they meet: *)
(* they share IF, and what is a store to a register for one of them is an  *)
(* instruction of the other.                                               *)
(***************************************************************************)
EXTENDS Ppu

CONSTANTS
  FrameCycles,                                        \* GB_CYCLES_PER_FRAME, 70224
  CycleMod, Periods, TimaMod, TimaWrites, TacWrites,  \* of Timer
  Costs, MaxCost, Opcodes, IeWrites, IfWrites         \* of Cpu

ASSUME FrameAssumption == FrameCycles = Lines * LineTicks

ASSUME ConsoleSources == {GB_INT_TIMER, GB_INT_JOYPAD} \subseteq Sources

VARIABLES
  cycles, cycles_since_last_update, tima, tma, tac_on, tac_clock,
  ime, ime_delay, halted, ie_reg, remaining_cycles, exited,
  last, masked, redundant, overwrote,
  turn,      \* whose call is next; "events" between two calls of run_frame
  cycle,     \* c, the cycle of the frame
  stores,    \* bytes the current instruction may still store in registers
  steady,    \* history: so far in this run_frame the LCD was on and warm
  origin,    \* history: where the beam was when this run_frame began
  swaps      \* history: pictures presented while steady

T == INSTANCE Timer
C == INSTANCE Cpu

ASSUME ComponentAssumptions ==
  T!TimerAssumption /\ T!WrapAssumption /\ C!CpuAssumption

timer == <<cycles, cycles_since_last_update, tima, tma, tac_on, tac_clock>>
cpu   == <<ime, ime_delay, halted, ie_reg, remaining_cycles, exited, last, masked,
           redundant, overwrote>>
ppu   == <<beam, regs, frame, stat_lyc, stat_cond_met, screen_off,
           window_line_counter, sprites_ly>>
loop  == <<turn, cycle, stores>>
watch == <<steady, origin, swaps>>
gb    == <<timer, cpu, ppu, int_flag, loop, watch>>

Position == ly * LineTicks + ticks

init_gb ==
  /\ Init /\ T!Init /\ C!Init
  /\ turn = "timer" /\ cycle = 0 /\ stores = 0
  /\ steady = TRUE /\ origin = 0 /\ swaps = 0
-----------------------------------------------------------------------------
(* run_frame *)

TimerTurnUnlessHalted ==
  /\ turn = "timer" /\ turn' = "cpu"
  /\ IF halted THEN UNCHANGED <<timer, int_flag>> ELSE T!UpdateTimer
  /\ UNCHANGED <<cpu, ppu, cycle, stores, watch>>

TimerTurn ==
  /\ turn = "timer" /\ turn' = "cpu"
  /\ T!UpdateTimer
  /\ UNCHANGED <<cpu, ppu, cycle, stores, watch>>

\* An instruction and the push of a dispatch store up to two bytes.
Bytes == IF last' \in {"plain", "dispatch"} /\ remaining_cycles = 0 THEN 2 ELSE 0

\* exit() ends the program in the middle of run_frame.
CpuTurn ==
  /\ turn = "cpu" /\ C!Cycle
  /\ turn' = IF exited' THEN "over" ELSE "ppu"
  /\ stores' = Bytes
  /\ UNCHANGED <<timer, ppu, cycle, watch>>

\* Stores to IF and IE are in C!Cycle, those to the other registers are here.
StoreTimer == T!WriteDiv \/ T!WriteTima \/ T!WriteTma \/ T!WriteTac

StorePpu == WriteLcdc \/ WriteStat \/ WriteLycWyWx

Store ==
  /\ turn = "ppu" /\ stores > 0 /\ stores' = stores - 1
  /\ \/ StoreTimer /\ UNCHANGED ppu
     \/ StorePpu /\ UNCHANGED timer
  /\ UNCHANGED <<cpu, turn, cycle, watch>>

LastCycleLate == cycle = FrameCycles

LastCycle == cycle = FrameCycles - 1

NextCycle ==
  IF LastCycle THEN turn' = "events" /\ cycle' = 0
               ELSE turn' = "timer" /\ cycle' = cycle + 1

Watch ==
  /\ steady' = (steady /\ lcdc_on /\ state # GB_OAM_BUG)
  /\ swaps' = IF ~steady' THEN 0 ELSE IF lcd' # lcd THEN swaps + 1 ELSE swaps
  /\ UNCHANGED origin

PpuTurnUnlessHalted ==
  /\ turn = "ppu" /\ NextCycle /\ stores' = 0
  /\ IF halted THEN UNCHANGED <<ppu, int_flag>> ELSE TickPpu
  /\ Watch
  /\ UNCHANGED <<timer, cpu>>

PpuTurn ==
  /\ turn = "ppu" /\ NextCycle /\ stores' = 0
  /\ TickPpu
  /\ Watch
  /\ UNCHANGED <<timer, cpu>>
-----------------------------------------------------------------------------
(* main: after run_frame() lcd is displayed, then keys may be pressed. *)

PressKey ==
  /\ turn = "events"
  /\ int_flag' = joypad_interrupt(int_flag)
  /\ UNCHANGED <<timer, cpu, ppu, loop, watch>>

RunFrame ==
  /\ turn = "events" /\ turn' = "timer"
  /\ steady' = TRUE /\ origin' = Position /\ swaps' = 0
  /\ UNCHANGED <<timer, cpu, ppu, int_flag, cycle, stores>>

Call == TimerTurn \/ CpuTurn \/ PpuTurn \/ RunFrame

ConsoleNext == Call \/ Store \/ PressKey

\* The three calls and the loop around them return, unless the CPU calls exit.
ConsoleSpec == init_gb /\ [][ConsoleNext]_gb /\ WF_gb(Call)
-----------------------------------------------------------------------------
(* As long as the LCD stays on and has left its first line, one call of    *)
(* run_frame() presents exactly one picture, wherever the beam is when it  *)
(* begins: main() displays every picture and none of them twice.           *)
OnePicturePerFrame == turn = "events" /\ steady => swaps = 1

(* What Timer, Cpu and Ppu assume of their environments holds in           *)
(* run_frame(): each of them sees one of its own behaviours, whatever the  *)
(* others and the program do.  The calls go on until the program exits;    *)
(* from then on neither the timer nor the PPU is called any more, though   *)
(* both could take a step.                                                 *)
TimerInConsole ==
  T!Init /\ [][T!Next]_<<timer, int_flag>>
         /\ ([]~exited => WF_<<timer, int_flag>>(T!UpdateTimer))

CpuInConsole == C!Spec

PpuInConsole == Init /\ [][Next]_vars /\ ([]~exited => WF_vars(TickPpu))
=============================================================================
