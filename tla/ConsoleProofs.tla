--------------------------- MODULE ConsoleProofs ----------------------------
(***************************************************************************)
(* Proofs about Console for every program, every geometry of the screen    *)
(* and every set of periods of the timer: what the modules of the          *)
(* components assume of each other holds in run_frame(), and a call of     *)
(* run_frame() presents one picture.                                       *)
(***************************************************************************)
EXTENDS Console, PpuProofs

FrameLength  == Lines * LineTicks
VBlankStarts == Height * LineTicks

\* Cycles of this run_frame() whose tick_ppu() has been called.
Ticked == IF turn = "events" THEN FrameCycles ELSE cycle

LoopOK ==
  /\ turn \in {"timer", "cpu", "ppu", "events", "over"}
  /\ cycle \in 0 .. FrameCycles - 1
  /\ turn = "events" => cycle = 0
  /\ exited => turn = "over"

RequestsOK == ie_reg \subseteq Sources

\* While steady the beam is Ticked positions past its origin, and a picture
\* has been presented if V-Blank lies in between.
Tracks ==
  /\ steady \in BOOLEAN /\ origin \in 0 .. FrameLength - 1
  /\ steady =>
       /\ Position = IF origin + Ticked < FrameLength
                       THEN origin + Ticked ELSE origin + Ticked - FrameLength
       /\ swaps = IF \/ origin < VBlankStarts /\ VBlankStarts <= origin + Ticked
                     \/ FrameLength + VBlankStarts <= origin + Ticked
                    THEN 1 ELSE 0

CInv == IInv /\ LoopOK /\ RequestsOK /\ Tracks

LEMMA Lengths ==
  /\ FrameLength \in Nat /\ VBlankStarts \in Nat /\ FrameCycles = FrameLength
  /\ 0 < VBlankStarts /\ VBlankStarts < FrameLength
<1>1. Height \in 0 .. Lines - 1 /\ 0 \in 0 .. LineTicks - 1
  BY GeometryAssumption
<1>2. Height * LineTicks + 0 \in 0 .. Lines * LineTicks - 1 /\ 0 < Height * LineTicks
  BY <1>1, Positions
<1>3. Lines * LineTicks \in Nat /\ Height * LineTicks \in Nat
  BY GeometryAssumption
<1> QED
  BY <1>2, <1>3, FrameAssumption DEF FrameLength, VBlankStarts

LEMMA PositionInFrame ==
  ASSUME IInv
  PROVE  Position \in 0 .. FrameLength - 1
<1>1. ly \in 0 .. Lines - 1 /\ ticks \in 0 .. LineTicks - 1
  BY DEF IInv, TypeOK, BeamOK
<1> QED
  BY <1>1, Positions DEF Position, FrameLength
-----------------------------------------------------------------------------
(* What each call does to the components it does not belong to.            *)

LEMMA FlagsTyped ==
  ASSUME IInv
  PROVE  int_flag \subseteq Sources
BY DEF IInv, TypeOK, FlagsOK

\* The CPU leaves IF and IE sets of sources, wherever it stores.
LEMMA CpuFlags ==
  ASSUME int_flag \subseteq Sources, ie_reg \subseteq Sources, C!Cycle
  PROVE  int_flag' \subseteq Sources /\ ie_reg' \subseteq Sources
<1>1. \A s \in C!StoreEffects : s[1] \subseteq Sources /\ s[2] \subseteq Sources
  BY ComponentAssumptions DEF C!CpuAssumption, C!StoreEffects, C!requests
<1>2. CASE C!Continue \/ C!Idle
  BY <1>2 DEF C!Continue, C!Idle, C!requests
<1>3. CASE C!Dispatch
  BY <1>1, <1>3 DEF C!Dispatch, C!Acknowledge
<1>4. CASE C!Plain
  BY <1>1, <1>4 DEF C!Plain
<1>5. CASE C!EnableLater(4) \/ C!EnableLater(16) \/ C!Di \/ C!Halt \/ C!Exit
  BY <1>5 DEF C!EnableLater, C!Di, C!Halt, C!Exit, C!requests
<1> QED
  BY <1>2, <1>3, <1>4, <1>5 DEF C!Cycle, C!Awake, C!Instruction

\* Timer and PPU only ever add requests.
LEMMA TimerAdds ==
  ASSUME T!UpdateTimer
  PROVE  int_flag' \in {int_flag, int_flag \cup {GB_INT_TIMER}}
BY DEF T!UpdateTimer, T!Count, T!UpdateBatch, T!StepTima, T!timer_interrupt,
       T!GB_INT_TIMER, GB_INT_TIMER

LEMMA PpuAdds ==
  ASSUME TickPpu
  PROVE  int_flag \subseteq int_flag'
<1>1. \A flags : StatLine(flags) => flags \subseteq int_flag'
  BY DEF StatLine, stat_interrupt
<1>2. CASE LcdOnTick
  <2>1. CASE OamSearch \/ OamBug \/ DataTransfer \/ VBlank
    BY <1>1, <2>1 DEF OamSearch, OamBug, DataTransfer, VBlank
  <2>2. CASE HBlank
    BY <1>1, <2>2 DEF HBlank, EnterVBlank, v_blank_interrupt
  <2> QED
    BY <1>2, <2>1, <2>2 DEF LcdOnTick
<1>3. CASE TurnOff \/ StaysOff
  BY <1>3 DEF TurnOff, StaysOff, vars
<1> QED
  BY <1>2, <1>3 DEF TickPpu
-----------------------------------------------------------------------------
(* The PPU sees one of its own steps in every step of the console.         *)

LEMMA PpuStep ==
  ASSUME CInv, [ConsoleNext]_gb
  PROVE  [Next]_vars
<1> USE FlagsTyped DEF CInv
<1>1. CASE TimerTurn
  <2>1. int_flag' \subseteq Sources
    BY <1>1, TimerAdds, ConsoleSources DEF TimerTurn
  <2> QED
    BY <1>1, <2>1 DEF TimerTurn, ppu, OthersTouchFlags, Next
<1>2. CASE CpuTurn
  BY <1>2, CpuFlags DEF CpuTurn, RequestsOK, ppu, OthersTouchFlags, Next
<1>3. CASE Store
  <2>1. CASE StorePpu
    BY <2>1 DEF StorePpu, Next
  <2>2. CASE StoreTimer /\ UNCHANGED ppu
    BY <2>2 DEF StoreTimer, ppu, vars, T!WriteDiv, T!WriteTima, T!WriteTma, T!WriteTac
  <2> QED
    BY <1>3, <2>1, <2>2 DEF Store
<1>4. CASE PpuTurn
  BY <1>4 DEF PpuTurn, Next
<1>5. CASE PressKey
  BY <1>5, ConsoleSources DEF PressKey, joypad_interrupt, ppu, OthersTouchFlags, Next
<1>6. CASE RunFrame \/ UNCHANGED gb
  BY <1>6 DEF RunFrame, gb, ppu, vars
<1> QED
  BY <1>1, <1>2, <1>3, <1>4, <1>5, <1>6 DEF ConsoleNext, Call

LEMMA TimerStep ==
  ASSUME CInv, [ConsoleNext]_gb
  PROVE  [T!Next]_(T!tvars)
<1> USE DEF timer, T!tvars, T!clock
<1>1. int_flag' \subseteq Sources
  <2>1. IInv'
    BY PpuStep, NextPreserves DEF CInv
  <2> QED
    BY <2>1 DEF IInv, TypeOK, FlagsOK
<1>2. CASE TimerTurn
  BY <1>2 DEF TimerTurn, T!Next
<1>3. CASE CpuTurn \/ PpuTurn \/ PressKey
  BY <1>1, <1>3 DEF CpuTurn, PpuTurn, PressKey, T!OthersTouchFlags, T!Next
<1>4. CASE Store
  <2>1. CASE StoreTimer
    BY <2>1 DEF StoreTimer, T!Next
  <2>2. CASE StorePpu /\ UNCHANGED timer
    BY <2>2 DEF StorePpu, WriteLcdc, WriteStat, WriteLycWyWx
  <2> QED
    BY <1>4, <2>1, <2>2 DEF Store
<1>5. CASE RunFrame \/ UNCHANGED gb
  BY <1>5 DEF RunFrame, gb
<1> QED
  BY <1>2, <1>3, <1>4, <1>5 DEF ConsoleNext, Call

LEMMA CpuStep ==
  ASSUME CInv, [ConsoleNext]_gb
  PROVE  [C!Next]_(C!cpuvars)
<1> USE DEF cpu, C!cpuvars, C!control, C!requests, C!history
<1>1. int_flag' \subseteq Sources
  <2>1. IInv'
    BY PpuStep, NextPreserves DEF CInv
  <2> QED
    BY <2>1 DEF IInv, TypeOK, FlagsOK
<1>2. ASSUME ~exited, UNCHANGED cpu, int_flag \subseteq int_flag'
      PROVE  C!Next
  <2>1. int_flag' = int_flag \cup (int_flag' \ int_flag)
    BY <1>2
  <2> QED
    BY <1>1, <1>2, <2>1 DEF C!Request, C!Next
<1>3. CASE TimerTurn
  <2>1. int_flag \subseteq int_flag'
    BY <1>3, TimerAdds DEF TimerTurn
  <2> QED
    BY <1>2, <1>3, <2>1 DEF TimerTurn, CInv, LoopOK
<1>4. CASE CpuTurn
  BY <1>4 DEF CpuTurn, C!Next
<1>5. CASE PpuTurn
  BY <1>2, <1>5, PpuAdds DEF PpuTurn, CInv, LoopOK
<1>6. CASE PressKey
  BY <1>2, <1>6 DEF PressKey, joypad_interrupt, CInv, LoopOK
<1>7. CASE Store
  <2>1. UNCHANGED int_flag
    BY <1>7 DEF Store, StoreTimer, StorePpu, T!WriteDiv, T!WriteTima, T!WriteTma,
       T!WriteTac, WriteLcdc, WriteStat, WriteLycWyWx
  <2> QED
    BY <1>7, <2>1 DEF Store
<1>8. CASE RunFrame \/ UNCHANGED gb
  BY <1>8 DEF RunFrame, gb
<1> QED
  BY <1>3, <1>4, <1>5, <1>6, <1>7, <1>8 DEF ConsoleNext, Call
-----------------------------------------------------------------------------
(* The loop, and the beam within one call of run_frame().                  *)

LEMMA InitCInv == init_gb => CInv
<1> SUFFICES ASSUME init_gb PROVE CInv
  OBVIOUS
<1>1. IInv
  BY InitIInv DEF init_gb
<1>2. LoopOK /\ RequestsOK
  BY Lengths DEF init_gb, C!Init, LoopOK, RequestsOK
<1>3. Tracks
  <2>1. Position = 0
    BY GeometryAssumption DEF init_gb, Init, Position
  <2>2. Ticked = 0
    BY DEF init_gb, Ticked
  <2> QED
    BY <2>1, <2>2, Lengths DEF init_gb, Tracks
<1> QED
  BY <1>1, <1>2, <1>3 DEF CInv

LEMMA LoopPreserved ==
  ASSUME CInv, [ConsoleNext]_gb
  PROVE  LoopOK' /\ RequestsOK'
<1> USE FlagsTyped DEF CInv, LoopOK, RequestsOK, cpu, loop
<1>1. CASE TimerTurn \/ Store \/ PressKey \/ RunFrame \/ UNCHANGED gb
  BY <1>1 DEF TimerTurn, Store, PressKey, RunFrame, gb
<1>2. CASE CpuTurn
  BY <1>2, CpuFlags DEF CpuTurn
<1>3. CASE PpuTurn
  BY <1>3, Lengths DEF PpuTurn, NextCycle, LastCycle
<1> QED
  BY <1>1, <1>2, <1>3 DEF ConsoleNext, Call

\* A tick with the LCD on and warm moves the beam by one, and presents a
\* picture exactly when V-Blank starts.
LEMMA SteadyTick ==
  ASSUME CInv, TickPpu, lcdc_on, state # GB_OAM_BUG
  PROVE  /\ Position' = IF Position + 1 = FrameLength THEN 0 ELSE Position + 1
         /\ (lcd' # lcd) <=> (Position' = VBlankStarts)
<1>1. LcdOnTick
  BY DEF TickPpu, TurnOff, StaysOff
<1>2. B!Advance
  BY <1>1, TickIsAdvance DEF CInv
<1>3. Position' = (Position + 1) % FrameLength
  BY <1>2, PositionInFrame
  DEF B!Advance, B!Skips, B!FrameTicks, Position, FrameLength, CInv
<1>4. (Position + 1) % FrameLength = IF Position + 1 = FrameLength THEN 0 ELSE Position + 1
  BY PositionInFrame, Lengths, WrapsAt DEF CInv
<1>5. lcd \in {0, 1}
  BY DEF CInv, IInv, TypeOK, FrameOK, Buffers
<1>6. (lcd' # lcd) <=> (Position' = VBlankStarts)
  BY <1>2, <1>5 DEF B!Advance, B!Flip, Position, VBlankStarts
<1> QED
  BY <1>3, <1>4, <1>6

LEMMA TracksPreserved ==
  ASSUME CInv, [ConsoleNext]_gb
  PROVE  Tracks'
<1> USE DEF CInv, Tracks
<1>1. ASSUME UNCHANGED <<ly, ticks, cycle, watch>>,
             (turn # "events" /\ turn' # "events") \/ UNCHANGED turn
      PROVE  Tracks'
  BY <1>1 DEF Position, Ticked, watch
<1>2. CASE TimerTurn \/ CpuTurn
  BY <1>1, <1>2 DEF TimerTurn, CpuTurn, ppu, beam
<1>3. CASE Store
  <2>1. UNCHANGED <<ly, ticks>>
    BY <1>3 DEF Store, StorePpu, WriteLcdc, WriteStat, WriteLycWyWx, ppu, beam
  <2> QED
    BY <1>1, <1>3, <2>1 DEF Store
<1>4. CASE PressKey \/ UNCHANGED gb
  BY <1>1, <1>4 DEF PressKey, gb, ppu, beam, loop
<1>5. CASE RunFrame
  <2>1. Position' = Position /\ Position \in 0 .. FrameLength - 1
    BY <1>5, PositionInFrame DEF RunFrame, ppu, beam, Position
  <2>2. Ticked' = 0
    BY <1>5 DEF RunFrame, Ticked, LoopOK
  <2> QED
    BY <1>5, <2>1, <2>2, Lengths DEF RunFrame
<1>6. CASE PpuTurn
  <2>1. Ticked' = Ticked + 1 /\ Ticked \in 0 .. FrameLength - 1
    <3>1. Ticked = cycle /\ cycle \in 0 .. FrameCycles - 1
      BY <1>6 DEF PpuTurn, Ticked, LoopOK
    <3>2. Ticked' = cycle + 1
      <4>1. NextCycle
        BY <1>6 DEF PpuTurn
      <4>2. FrameCycles \in Nat
        BY Lengths
      <4>3. CASE LastCycle
        BY <4>1, <4>2, <4>3, <3>1 DEF NextCycle, LastCycle, Ticked
      <4>4. CASE ~LastCycle
        BY <4>1, <4>4 DEF NextCycle, Ticked
      <4> QED
        BY <4>3, <4>4
    <3> QED
      BY <3>1, <3>2, Lengths
  <2>2. steady' \in BOOLEAN /\ origin' \in 0 .. FrameLength - 1 /\ origin' = origin
    BY <1>6 DEF PpuTurn, Watch
  <2>3. CASE steady'
    <3>1. steady /\ lcdc_on /\ state # GB_OAM_BUG
      BY <1>6, <2>3 DEF PpuTurn, Watch
    <3>2. /\ Position' = IF Position + 1 = FrameLength THEN 0 ELSE Position + 1
          /\ (lcd' # lcd) <=> (Position' = VBlankStarts)
      BY <1>6, <3>1, SteadyTick DEF PpuTurn
    <3>3. swaps' = IF Position' = VBlankStarts THEN swaps + 1 ELSE swaps
      BY <1>6, <2>3, <3>2 DEF PpuTurn, Watch
    <3>4. /\ origin \in 0 .. FrameLength - 1
          /\ Position = IF origin + Ticked < FrameLength
                          THEN origin + Ticked ELSE origin + Ticked - FrameLength
          /\ swaps = IF \/ origin < VBlankStarts /\ VBlankStarts <= origin + Ticked
                        \/ FrameLength + VBlankStarts <= origin + Ticked
                       THEN 1 ELSE 0
      BY <3>1
    <3>5. Position' = IF origin + (Ticked + 1) < FrameLength
                        THEN origin + (Ticked + 1) ELSE origin + (Ticked + 1) - FrameLength
      BY ONLY <2>1, <3>2, <3>4, Lengths
    <3>6. swaps' = IF \/ origin < VBlankStarts /\ VBlankStarts <= origin + (Ticked + 1)
                      \/ FrameLength + VBlankStarts <= origin + (Ticked + 1)
                     THEN 1 ELSE 0
      BY ONLY <2>1, <3>3, <3>4, <3>5, Lengths
    <3> HIDE DEF Position, Ticked
    <3> QED
      BY <2>1, <2>2, <3>5, <3>6
  <2> QED
    BY <2>2, <2>3
<1> QED
  BY <1>2, <1>3, <1>4, <1>5, <1>6 DEF ConsoleNext, Call

LEMMA NextCInv == CInv /\ [ConsoleNext]_gb => CInv'
  BY PpuStep, NextPreserves, LoopPreserved, TracksPreserved DEF CInv

LEMMA ConsoleInvariance == ConsoleSpec => []CInv
  BY InitCInv, NextCInv, PTL DEF ConsoleSpec

(* While the LCD stays on every call of run_frame() presents exactly one   *)
(* picture, for every geometry and wherever in the frame it begins.        *)
THEOREM OnePicture == ConsoleSpec => []OnePicturePerFrame
<1>1. CInv => OnePicturePerFrame
  BY Lengths DEF CInv, Tracks, Ticked, OnePicturePerFrame
<1> QED
  BY <1>1, ConsoleInvariance, PTL

(* Whatever the CPU and the PPU do, update_timer() and the stores of the   *)
(* program are steps of Timer: its theorems hold in the console.           *)
THEOREM TimerSafe == ConsoleSpec => T!Init /\ [][T!Next]_(T!tvars)
<1>1. init_gb => T!Init
  BY DEF init_gb
<1>2. CInv /\ [ConsoleNext]_gb => [T!Next]_(T!tvars)
  BY TimerStep
<1> QED
  BY <1>1, <1>2, ConsoleInvariance, PTL DEF ConsoleSpec

(* Nothing but the CPU clears a request: its environment only sets bits of *)
(* IF, as Cpu assumes, and Cpu's theorems hold in the console.             *)
THEOREM CpuSafe == ConsoleSpec => C!Init /\ [][C!Next]_(C!cpuvars)
<1>1. init_gb => C!Init
  BY DEF init_gb
<1>2. CInv /\ [ConsoleNext]_gb => [C!Next]_(C!cpuvars)
  BY CpuStep
<1> QED
  BY <1>1, <1>2, ConsoleInvariance, PTL DEF ConsoleSpec

(* The PPU of the console is the PPU of the module Ppu.                    *)
THEOREM PpuSafe == ConsoleSpec => Init /\ [][Next]_vars
<1>1. init_gb => Init
  BY DEF init_gb
<1>2. CInv /\ [ConsoleNext]_gb => [Next]_vars
  BY PpuStep
<1> QED
  BY <1>1, <1>2, ConsoleInvariance, PTL DEF ConsoleSpec
-----------------------------------------------------------------------------
(* With these three the theorems about the components, proved of each in   *)
(* any environment, become theorems about the console.                     *)

CP == INSTANCE CpuProofs
TP == INSTANCE TimerProofs WITH since <- 0   \* of no account outside TimerInterval

LEMMA SameTimer ==
  /\ TP!TimerAssumption /\ TP!WrapAssumption
  /\ T!Init => TP!Init
  /\ [T!Next]_(T!tvars) => [TP!Next]_(TP!tvars)
BY ComponentAssumptions, Zenon
DEF T!TimerAssumption, TP!TimerAssumption, T!WrapAssumption, TP!WrapAssumption, T!Init, TP!Init, T!tvars, TP!tvars, T!clock, TP!clock,
    T!AllSources, TP!AllSources, T!GB_INT_VBLANK, TP!GB_INT_VBLANK, T!GB_INT_JOYPAD,
    TP!GB_INT_JOYPAD,
    T!Next, TP!Next, T!UpdateTimer, TP!UpdateTimer, T!Count, TP!Count,
    T!UpdateBatch, TP!UpdateBatch, T!PeriodEnds, TP!PeriodEnds, T!StepTima, TP!StepTima,
    T!timer_interrupt, TP!timer_interrupt, T!GB_INT_TIMER, TP!GB_INT_TIMER,
    T!WriteDiv, TP!WriteDiv, T!ClearDiv, TP!ClearDiv, T!WriteTima, TP!WriteTima,
    T!WriteTma, TP!WriteTma, T!WriteTac, TP!WriteTac, T!OthersTouchFlags, TP!OthersTouchFlags

LEMMA SameCpu ==
  /\ CP!CpuAssumption
  /\ C!Init => CP!Init
  /\ [C!Next]_(C!cpuvars) => [CP!Next]_(CP!cpuvars)
<1>1. CP!CpuAssumption
  BY ComponentAssumptions, Zenon
  DEF C!CpuAssumption, CP!CpuAssumption, C!AllSources, CP!AllSources,
      C!GB_INT_VBLANK, CP!GB_INT_VBLANK, C!GB_INT_JOYPAD, CP!GB_INT_JOYPAD
<1>2. C!Init => CP!Init
  BY Zenon DEF C!Init, CP!Init
<1> USE DEF C!control, CP!control, C!requests, CP!requests, C!history, CP!history
<1>3. [C!Next]_(C!cpuvars) => [CP!Next]_(CP!cpuvars)
  BY Zenon
  DEF C!cpuvars, CP!cpuvars, C!Next, CP!Next, C!Cycle, CP!Cycle, C!Request, CP!Request, C!Continue, CP!Continue,
      C!Idle, CP!Idle, C!StaysAsleep, CP!StaysAsleep, C!IdleOn, CP!IdleOn,
      C!Pending, CP!Pending, C!FirstPending, CP!FirstPending, C!Awake, CP!Awake,
      C!InterruptsOn, CP!InterruptsOn, C!Dispatch, CP!Dispatch, C!StoreEffects, CP!StoreEffects,
      C!NoteStore, CP!NoteStore, C!Acknowledge, CP!Acknowledge, C!DisableIme, CP!DisableIme,
      C!Instruction, CP!Instruction, C!Plain, CP!Plain, C!EnableLater, CP!EnableLater,
      C!Di, CP!Di, C!Halt, CP!Halt, C!Exit, CP!Exit, C!ImeNow, CP!ImeNow,
      C!DelayNow, CP!DelayNow, C!Takes, CP!Takes
<1> QED BY <1>1, <1>2, <1>3, Zenon

(* In run_frame() too nobody can tell that the timer counts in batches of  *)
(* 16 cycles, wherever the stores of the program fall.                     *)
THEOREM TimerInRunFrame == ConsoleSpec => T!BatchingIsInvisible
<1>1. TP!Init /\ [][TP!Next]_(TP!tvars) => TP!BatchingIsInvisible
  BY TP!CycleTimerInSteps, SameTimer, PTL
<1>2. ConsoleSpec => TP!Init /\ [][TP!Next]_(TP!tvars)
  BY SameTimer, TimerSafe, PTL
<1>3. TP!C!Init => T!C!Init
  BY Zenon DEF TP!C!Init, T!C!Init
<1>4. [TP!C!Next]_(TP!C!cvars) => [T!C!Next]_(T!C!cvars)
  BY Zenon DEF TP!C!Next, T!C!Next, TP!C!cvars, T!C!cvars, TP!C!Tick, T!C!Tick,
    TP!C!Overflows, T!C!Overflows, TP!C!ResetDiv, T!C!ResetDiv,
    TP!C!Registers, T!C!Registers, TP!C!Flags, T!C!Flags,
    TP!C!GB_INT_TIMER, T!C!GB_INT_TIMER
<1>5. TP!BatchingIsInvisible => T!BatchingIsInvisible
  BY <1>3, <1>4, PTL
  DEF TP!BatchingIsInvisible, T!BatchingIsInvisible, TP!C!Spec, T!C!Spec
<1> QED BY <1>1, <1>2, <1>5, PTL

(* The shadow of EI, critical sections and requests are kept in run_frame, *)
(* with timer, PPU and keys as the only sources of requests.               *)
THEOREM CpuInRunFrame ==
  ConsoleSpec => C!EiShadow /\ C!CriticalSections /\ C!NoRequestLost
<1>1. CP!Steps => CP!EiShadow /\ CP!CriticalSections /\ CP!NoRequestLost
  BY CP!EiShadowInSteps, CP!CriticalSectionsInSteps, CP!RequestsInSteps, SameCpu, PTL
<1>2. ConsoleSpec => CP!Steps
  BY SameCpu, CpuSafe, PTL DEF CP!Steps
<1> USE DEF C!cpuvars, CP!cpuvars, C!control, CP!control, C!requests, CP!requests,
            C!history, CP!history, C!StartsDispatch, CP!StartsDispatch
<1>3. CP!EiShadow => C!EiShadow
  BY Zenon DEF CP!EiShadow, C!EiShadow
<1>4. CP!CriticalSections => C!CriticalSections
  BY Zenon DEF CP!CriticalSections, C!CriticalSections
<1>5. CP!NoRequestLost => C!NoRequestLost
  BY Zenon DEF CP!NoRequestLost, C!NoRequestLost, CP!FirstPending, C!FirstPending,
    CP!Pending, C!Pending
<1> QED BY <1>1, <1>2, <1>3, <1>4, <1>5, PTL

(* What main() displays after run_frame() is drawn or blank, with every    *)
(* pixel in its place, and frames follow the beam.                         *)
THEOREM PpuInRunFrame ==
  ConsoleSpec => []PresentedIsDefined /\ PresentsWholeFrames /\ ImplementsBeam
<1>1. CInv => PresentedIsDefined
  BY DEF CInv, IInv
<1>2. ConsoleSpec => Steps
  BY PpuSafe DEF Steps
<1> QED BY <1>1, <1>2, ConsoleInvariance, WholeFramesInSteps, BeamInSteps, PTL
=============================================================================
