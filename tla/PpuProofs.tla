----------------------------- MODULE PpuProofs ------------------------------
(***************************************************************************)
(* Proofs about Ppu for every screen geometry and every choice of register *)
(* values.  IInv is inductive; the invariants of Ppu are among its         *)
(* conjuncts.  StatInv adds what the STAT interrupt of PpuStat depends on. *)
(***************************************************************************)
EXTENDS PpuStat, TLAPS

\* What the invariants of Ppu need of each other: where a line's sprites come
\* from, that the window and paint counters restart at V-Blank, and that
\* turning the LCD off is what leaves a frame cut and both buffers defined.
Support ==
  /\ state \in {GB_OAM_SEARCH, GB_OAM_BUG} /\ ticks > 0 => sprites_ly = ly
  /\ state = GB_VBLANK => window_line_counter = 0 /\ ~cut /\ painted = 0
  /\ state = GB_OAM_BUG => cut
  /\ cut => undef = {}

IInv ==
  /\ TypeOK /\ BeamInv /\ SpritesForThisLine /\ PaintedTracksBeam
  /\ PresentedIsDefined /\ WindowBehindBeam /\ Support

USE DEF GB_HBLANK, GB_VBLANK, GB_OAM_SEARCH, GB_DATA_TRANSFER, GB_OAM_BUG

LEMMA StatLineTypes ==
  ASSUME NEW flags \in SUBSET Sources, StatLine(flags)
  PROVE  int_flag' \subseteq Sources /\ stat_cond_met' \in BOOLEAN
BY WritesAssumption DEF StatLine, stat_cond_this_tick, stat_interrupt

LEMMA InitIInv == Init => IInv
<1> SUFFICES ASSUME Init PROVE IInv
  OBVIOUS
<1> USE GeometryAssumption DEF Init
<1>1. BeamOK
  BY DEF BeamOK
<1>2. RegsOK
  BY DEF RegsOK
<1>3. FlagsOK
  BY DEF FlagsOK
<1>7. FrameOK
  <2>1. screen \in Buffers /\ lcd \in Buffers /\ screen # lcd
    BY DEF Buffers
  <2>2. undef \subseteq Buffers /\ painted \in Nat /\ cut \in BOOLEAN
    BY DEF Buffers
  <2> QED
    BY <2>1, <2>2 DEF FrameOK
<1>4. BeamInv /\ SpritesForThisLine
  BY DEF BeamInv, SpritesForThisLine
<1>5. PresentedIsDefined /\ WindowBehindBeam
  BY DEF PresentedIsDefined, WindowBehindBeam
<1>6. PaintedTracksBeam /\ Support
  BY DEF PaintedTracksBeam, Support
<1> QED
  BY <1>1, <1>2, <1>3, <1>4, <1>5, <1>6, <1>7 DEF IInv, TypeOK

\* Exchanging the buffers and dropping marks keeps the frame well formed.
LEMMA FrameStep ==
  ASSUME FrameOK, swap_lcd \/ UNCHANGED <<screen, lcd>>, undef' \subseteq undef,
         painted' \in Nat, cut' \in BOOLEAN
  PROVE  FrameOK'
BY DEF FrameOK, swap_lcd

\* Register writes and the other users of IF do not touch the beam.
LEMMA OutsidePreserves ==
  ASSUME IInv, WriteLcdc \/ WriteStat \/ WriteLycWyWx \/ OthersTouchFlags
  PROVE  IInv'
<1>1. /\ UNCHANGED <<beam, frame, stat_cond_met, screen_off, window_line_counter,
                     sprites_ly>>
      /\ int_flag' \subseteq Sources
  BY DEF WriteLcdc, WriteStat, WriteLycWyWx, OthersTouchFlags, IInv, TypeOK, FlagsOK
<1>2. RegsOK'
  BY WritesAssumption DEF IInv, TypeOK, RegsOK, WriteLcdc, WriteStat,
     WriteLycWyWx, OthersTouchFlags, regs
<1>3. BeamOK' /\ BeamInv' /\ SpritesForThisLine'
  BY <1>1 DEF IInv, TypeOK, BeamOK, BeamInv, SpritesForThisLine, beam
<1>4. FlagsOK' /\ FrameOK'
  BY <1>1, FrameStep DEF IInv, TypeOK, FlagsOK, FrameOK, frame
<1>5. PaintedTracksBeam' /\ WindowBehindBeam' /\ PresentedIsDefined' /\ Support'
  BY <1>1 DEF IInv, PaintedTracksBeam, WindowBehindBeam, PresentedIsDefined,
     Support, beam, frame
<1> QED
  BY <1>2, <1>3, <1>4, <1>5 DEF IInv, TypeOK

USE DEF TypeOK, BeamInv, SpritesForThisLine, PaintedTracksBeam,
        PresentedIsDefined, WindowBehindBeam, Support, Buffers,
        BeamOK, RegsOK, FlagsOK, FrameOK


LEMMA OamPreserves ==
  ASSUME IInv, LcdOnTick, UNCHANGED regs, OamSearch \/ OamBug
  PROVE  IInv'
<1>1. FlagsOK'
  BY StatLineTypes DEF OamSearch, OamBug, IInv, LcdOnTick
<1>2. CASE OamSearch
  <2> USE <1>1, <1>2, GeometryAssumption
    DEF IInv, OamSearch, LcdOnTick, regs, frame, Enter, scan_oam_for_scanline
  <2>1. BeamOK' /\ BeamInv' /\ SpritesForThisLine'
     OBVIOUS
  <2>2. RegsOK' /\ FrameOK' /\ PresentedIsDefined'
     OBVIOUS
  <2>3. PaintedTracksBeam' /\ WindowBehindBeam' /\ Support'
     OBVIOUS
  <2> QED 
     BY <2>1, <2>2, <2>3
<1>3. CASE OamBug
  <2> USE <1>1, <1>3, GeometryAssumption
    DEF IInv, OamBug, LcdOnTick, regs, frame, Enter, scan_oam_for_scanline, OamBugEnd
  <2>1. BeamOK' /\ BeamInv' /\ SpritesForThisLine'
     OBVIOUS
  <2>2. RegsOK' /\ FrameOK' /\ PresentedIsDefined'
     OBVIOUS
  <2>3. PaintedTracksBeam' /\ WindowBehindBeam' /\ Support'
     OBVIOUS
  <2> QED 
     BY <2>1, <2>2, <2>3
<1> QED
  BY <1>2, <1>3

LEMMA TransferPreserves ==
  ASSUME IInv, LcdOnTick, UNCHANGED regs, DataTransfer
  PROVE  IInv'
<1>1. FlagsOK'
  BY StatLineTypes DEF DataTransfer, IInv, LcdOnTick
<1> USE <1>1, GeometryAssumption
    DEF IInv, DataTransfer, DrawPixel, LcdOnTick, regs, Enter
<1>2. BeamOK' /\ BeamInv' /\ SpritesForThisLine'
  OBVIOUS
<1>3. RegsOK' /\ FrameOK' /\ PresentedIsDefined'
  OBVIOUS
<1>4. PaintedTracksBeam' /\ WindowBehindBeam' /\ Support'
  OBVIOUS
<1> QED
  BY <1>2, <1>3, <1>4

LEMMA BlanksPreserve ==
  ASSUME IInv, LcdOnTick, UNCHANGED regs, HBlank \/ VBlank
  PROVE  IInv'
<1>0. v_blank_interrupt(int_flag) \in SUBSET Sources
  BY WritesAssumption DEF v_blank_interrupt, IInv
<1>1. FlagsOK'
  BY <1>0, StatLineTypes DEF HBlank, VBlank, EnterVBlank, IInv, LcdOnTick
<1> USE GeometryAssumption DEF IInv, LcdOnTick, regs, frame, Enter, EndLine
<1>2. CASE HBlank
  <2> USE <1>1, <1>2 DEF HBlank, EnterVBlank, ResetWindow, swap_lcd
  <2>1. BeamOK' /\ BeamInv' /\ SpritesForThisLine'
    OBVIOUS
  <2>2. RegsOK'
    OBVIOUS
  <2>8. undef' \subseteq undef /\ (undef' = undef \/ ~cut')
    OBVIOUS
  <2>9. FrameOK'
    <3>1. (lcd' = screen /\ screen' = lcd) \/ UNCHANGED <<screen, lcd>>
      OBVIOUS
    <3>2. painted' \in Nat
      OBVIOUS
    <3>3. cut' = cut \/ cut' = FALSE
      OBVIOUS
    <3> QED
      BY <2>8, <3>1, <3>2, <3>3, FrameStep DEF swap_lcd
  <2>3. ly + 1 = Height /\ ~cut => painted = FramePixels
    <3>1. ly + 1 = Height => ly * Width + Width = FramePixels
      BY DEF FramePixels
    <3> QED
      BY <3>1
  <2>4. PresentedIsDefined'
    BY <2>3
  <2>5. PaintedTracksBeam'
    <3>1. (ly + 1) * Width = ly * Width + Width
      OBVIOUS
    <3> QED
      BY <3>1
  <2>6. WindowBehindBeam'
    OBVIOUS
  <2>7. Support'
    BY <2>8
  <2> QED
    BY <2>1, <2>2, <2>4, <2>5, <2>6, <2>7, <2>9
<1>3. CASE VBlank
  <2> USE <1>1, <1>3 DEF VBlank, ResetBeam
  <2>1. BeamOK' /\ BeamInv' /\ SpritesForThisLine'
    OBVIOUS
  <2>2. RegsOK' /\ FrameOK' /\ PresentedIsDefined'
    OBVIOUS
  <2>3. PaintedTracksBeam' /\ WindowBehindBeam' /\ Support'
    OBVIOUS
  <2> QED
    BY <2>1, <2>2, <2>3
<1> QED
  BY <1>2, <1>3

LEMMA TurnOffPreserves ==
  ASSUME IInv, TurnOff, UNCHANGED regs
  PROVE  IInv'
<1> USE GeometryAssumption DEF IInv, TurnOff, BlankScreen, regs, swap_lcd, ResetBeam
<1>1. BeamOK' /\ BeamInv' /\ SpritesForThisLine'
  OBVIOUS
<1>2. RegsOK' /\ FlagsOK' /\ FrameOK' /\ PresentedIsDefined'
  OBVIOUS
<1>3. PaintedTracksBeam' /\ WindowBehindBeam' /\ Support'
  OBVIOUS
<1> QED
  BY <1>1, <1>2, <1>3

LEMMA NextPreserves == IInv /\ [Next]_vars => IInv'
<1> SUFFICES ASSUME IInv, [Next]_vars PROVE IInv'
  OBVIOUS
<1>1. CASE TurnOff /\ UNCHANGED regs
  BY <1>1, TurnOffPreserves
<1>2. CASE LcdOnTick /\ UNCHANGED regs
  BY <1>2, OamPreserves, TransferPreserves, BlanksPreserve DEF LcdOnTick
<1>3. CASE WriteLcdc \/ WriteStat \/ WriteLycWyWx \/ OthersTouchFlags
  BY <1>3, OutsidePreserves
<1>4. CASE UNCHANGED vars
  BY <1>4 DEF vars, beam, regs, frame, IInv
<1> QED
  BY <1>1, <1>2, <1>3, <1>4 DEF Next, TickPpu, StaysOff

\* Nothing that is safe needs the fairness of Spec.
Steps == Init /\ [][Next]_vars

(* IInv holds in every reachable state of the PPU.                         *)
LEMMA InvarianceInSteps == Steps => []IInv
  BY InitIInv, NextPreserves, PTL DEF Steps

LEMMA Invariance == Spec => []IInv
  BY InvarianceInSteps, PTL DEF Spec, Steps

(* For every geometry, the registers that index the frame buffer and       *)
(* count the ticks of a line stay in range.                                *)
THEOREM TypeCorrect == Spec => []TypeOK
  BY Invariance, PTL DEF IInv

(* The mode determines where in the frame the beam can be.                 *)
THEOREM BeamCorrect == Spec => []BeamInv
  BY Invariance, PTL DEF IInv

(* Mode 3 draws with the sprites collected for the line it is on.          *)
THEOREM SpritesCorrect == Spec => []SpritesForThisLine
  BY Invariance, PTL DEF IInv

(* What is on display was drawn or blanked, never left over from malloc.   *)
THEOREM PresentedDefined == Spec => []PresentedIsDefined
  BY Invariance, PTL DEF IInv

(* The pixels of the frame buffer are painted in order, none left out.     *)
THEOREM PaintedInOrder == Spec => []PaintedTracksBeam
  BY Invariance, PTL DEF IInv

(* The window's line counter never runs ahead of the beam.                 *)
THEOREM WindowBehind == Spec => []WindowBehindBeam
  BY Invariance, PTL DEF IInv

LEMMA WholeFramesInSteps == Steps => PresentsWholeFrames
<1>1. IInv /\ [Next]_vars =>
        [lcd' # lcd /\ ~cut /\ ~cut' => painted = FramePixels]_vars
  <2> SUFFICES ASSUME IInv, Next, lcd' # lcd, ~cut, ~cut'
               PROVE  painted = FramePixels
    OBVIOUS
  <2>1. HBlank /\ EnterVBlank /\ ly + 1 = Height
    BY DEF Next, TickPpu, TurnOff, StaysOff, LcdOnTick, OamSearch, OamBug,
       DataTransfer, HBlank, VBlank, WriteLcdc, WriteStat, WriteLycWyWx,
       OthersTouchFlags, frame, vars, IInv
  <2>2. painted = ly * Width + Width
    BY <2>1 DEF HBlank, IInv
  <2> QED
    BY <2>1, <2>2, GeometryAssumption DEF IInv, FramePixels
<1> QED
  BY <1>1, InvarianceInSteps, PTL DEF Steps, PresentsWholeFrames

(* Without the LCD being turned off a picture is shown only when complete. *)
THEOREM WholeFrames == Spec => PresentsWholeFrames
  BY WholeFramesInSteps, PTL DEF Spec, Steps
-----------------------------------------------------------------------------
(* The PPU implements Beam.                                                *)

HIDE DEF TypeOK, BeamInv, SpritesForThisLine, PaintedTracksBeam,
         PresentedIsDefined, WindowBehindBeam, Support, Buffers,
         BeamOK, RegsOK, FlagsOK, FrameOK

\* Lines are disjoint intervals of positions.
LEMMA Positions ==
  ASSUME NEW y \in 0 .. Lines - 1, NEW t \in 0 .. LineTicks - 1
  PROVE  /\ y * LineTicks + t \in 0 .. Lines * LineTicks - 1
         /\ (y + 1) * LineTicks = y * LineTicks + LineTicks
         /\ y < Height => y * LineTicks + t < Height * LineTicks
         /\ y >= Height => y * LineTicks + t >= Height * LineTicks
         /\ y + 1 < Lines => (y + 1) * LineTicks < Lines * LineTicks
         /\ y + 1 = Lines => y * LineTicks + LineTicks = Lines * LineTicks
         /\ 0 < Height * LineTicks
BY GeometryAssumption

LEMMA WrapsAt ==
  ASSUME NEW n \in Nat \ {0}
  PROVE  n % n = 0 /\ \A x \in 0 .. n - 1 : x % n = x
OBVIOUS
LEMMA InitBeam == Init => B!Init
<1> SUFFICES ASSUME Init PROVE B!Init
  OBVIOUS
<1>1. ly * LineTicks + ticks = 0
  BY GeometryAssumption DEF Init
<1> QED
  BY <1>1 DEF Init, B!Init

\* Turning the LCD off is the beam going off.
LEMMA TurnOffIsOff ==
  ASSUME IInv, TurnOff
  PROVE  B!Off
<1>1. ly' * LineTicks + ticks' = 0
  BY GeometryAssumption DEF TurnOff, ResetBeam
<1>2. lcd' = 1 - lcd
  BY DEF TurnOff, swap_lcd, IInv, TypeOK, FrameOK, Buffers
<1>3. UNCHANGED int_flag /\ screen_off' = TRUE /\ ~screen_off /\ state' = GB_OAM_BUG
  BY DEF TurnOff
<1> QED
  BY <1>1, <1>2, <1>3 DEF B!Off, B!Flip

\* The three ways a tick moves the beam, and when it presents a frame.
skip     == state = GB_OAM_BUG /\ ticks = BugTicks - 1
presents == GB_INT_VBLANK \in int_flag' /\ lcd' = 1 - lcd
keeps    == /\ GB_INT_VBLANK \in int_flag' <=> GB_INT_VBLANK \in int_flag
            /\ lcd' = lcd

AlongLine ==
  /\ ly' = ly /\ ticks' = ticks + 1 + (IF skip THEN OamTicks - BugTicks ELSE 0)
  /\ ticks' < LineTicks
  /\ keeps

NextLine ==
  /\ ~skip /\ ticks = LineTicks - 1 /\ ly + 1 < Lines
  /\ ly' = ly + 1 /\ ticks' = 0
  /\ IF ly + 1 = Height THEN presents ELSE keeps

NextFrame ==
  /\ ~skip /\ ticks = LineTicks - 1 /\ ly + 1 = Lines
  /\ ly' = 0 /\ ticks' = 0
  /\ keeps

LEMMA TickMoves ==
  ASSUME IInv, LcdOnTick
  PROVE  AlongLine \/ NextLine \/ NextFrame
<1>1. \A flags : StatLine(flags) =>
        (GB_INT_VBLANK \in int_flag' <=> GB_INT_VBLANK \in flags)
  BY DEF StatLine, stat_interrupt, GB_INT_VBLANK, GB_INT_LCD_STAT
<1>2. ly \in 0 .. Lines - 1 /\ ticks \in 0 .. LineTicks - 1 /\ curr_pxl \in 0 .. Width - 1
  BY DEF IInv, TypeOK, BeamOK
<1>3. CASE OamSearch
  BY <1>1, <1>2, <1>3, GeometryAssumption
  DEF OamSearch, IInv, BeamInv, frame, AlongLine, skip, keeps
<1>4. CASE OamBug
  BY <1>1, <1>2, <1>4, GeometryAssumption
  DEF OamBug, OamBugEnd, IInv, BeamInv, frame, AlongLine, skip, keeps
<1>5. CASE DataTransfer
  BY <1>1, <1>2, <1>5, GeometryAssumption
  DEF DataTransfer, IInv, BeamInv, AlongLine, skip, keeps
<1>6. CASE HBlank
  <2>1. CASE ticks = LineTicks - 1 /\ ly + 1 = Height
    <3>1. presents
      BY <1>1, <1>6, <2>1 DEF HBlank, EnterVBlank, swap_lcd, v_blank_interrupt,
         presents, IInv, TypeOK, FrameOK, Buffers
    <3> QED
      BY <3>1, <1>2, <1>6, <2>1, GeometryAssumption
      DEF HBlank, EndLine, NextLine, skip
  <2>2. CASE ~(ticks = LineTicks - 1 /\ ly + 1 = Height)
    BY <1>1, <1>2, <1>6, <2>2, GeometryAssumption
    DEF HBlank, EndLine, IInv, BeamInv, frame, AlongLine, NextLine, skip, keeps
  <2> QED
    BY <2>1, <2>2
<1>7. CASE VBlank
  BY <1>1, <1>2, <1>7, GeometryAssumption
  DEF VBlank, EndLine, ResetBeam, IInv, BeamInv, frame, AlongLine, NextLine,
      NextFrame, skip, keeps
<1> QED
  BY <1>3, <1>4, <1>5, <1>6, <1>7 DEF LcdOnTick

\* A tick is the beam advancing: the position moves by one, skips at the end
\* of OAM_BUG, wraps at the end of the frame, and a frame is presented exactly
\* when it reaches the first V-Blank line.
LEMMA TickIsAdvance ==
  ASSUME IInv, LcdOnTick
  PROVE  B!Advance
<1> DEFINE pos  == ly * LineTicks + ticks
           next == pos + 1 + (IF skip THEN OamTicks - BugTicks ELSE 0)
<1>1. screen_off' = FALSE
  BY DEF LcdOnTick
<1>2. ly \in 0 .. Lines - 1 /\ ticks \in 0 .. LineTicks - 1
  BY DEF IInv, TypeOK, BeamOK
<1>3. B!Skips <=> skip
  <2>1. state = GB_OAM_BUG => pos = ticks
    BY <1>2, GeometryAssumption DEF IInv, BeamInv
  <2> QED
    BY <2>1 DEF B!Skips, skip
<1>4. (state' = GB_OAM_BUG) <=> (state = GB_OAM_BUG /\ ~skip)
  BY GeometryAssumption DEF IInv, BeamInv, LcdOnTick, OamSearch, OamBug, DataTransfer,
     HBlank, VBlank, EnterVBlank, Enter, skip
<1>5. pos' = next % (Lines * LineTicks)
      /\ IF pos' = Height * LineTicks THEN presents ELSE keeps
  <2>0. Lines * LineTicks \in Nat \ {0}
    BY GeometryAssumption
  <2>1. CASE AlongLine
    <3>1. pos' = next /\ ticks' > 0 /\ ticks' \in 0 .. LineTicks - 1 /\ ly' = ly
      BY <1>2, <2>1, GeometryAssumption DEF AlongLine
    <3>2. pos' \in 0 .. Lines * LineTicks - 1 /\ pos' # Height * LineTicks
      <4>1. ly \in 0 .. Lines - 1 /\ 0 \in 0 .. LineTicks - 1
        BY <1>2, GeometryAssumption
      <4>2. ly >= Height => ly * LineTicks + 0 >= Height * LineTicks
        BY ONLY <4>1, Positions
      <4>3. /\ ly * LineTicks + ticks' \in 0 .. Lines * LineTicks - 1
            /\ ly < Height => ly * LineTicks + ticks' < Height * LineTicks
        BY ONLY <1>2, <3>1, Positions
      <4>4. ly * LineTicks \in Nat /\ Height * LineTicks \in Nat
        BY <4>1, GeometryAssumption
      <4>5. pos' = ly * LineTicks + ticks'
        BY <3>1
      <4>6. ly \in Int /\ ticks' \in Int /\ ticks' > 0 /\ Height \in Int
        BY <1>2, <3>1, GeometryAssumption
      <4> HIDE DEF pos, next
      <4> QED
        BY ONLY <4>2, <4>3, <4>4, <4>5, <4>6
    <3> QED
      BY <2>0, <2>1, <3>1, <3>2, WrapsAt DEF AlongLine
  <2>2. CASE NextLine
    <3>1. next = (ly + 1) * LineTicks /\ pos' = (ly + 1) * LineTicks
      BY <1>2, <2>2, GeometryAssumption DEF NextLine
    <3>2. (ly + 1) * LineTicks \in 0 .. Lines * LineTicks - 1
      BY <1>2, <2>2, Positions, GeometryAssumption DEF NextLine
    <3>3. (ly + 1) * LineTicks = Height * LineTicks <=> ly + 1 = Height
      BY <1>2, GeometryAssumption
    <3> QED
      BY <2>0, <2>2, <3>1, <3>2, <3>3, WrapsAt DEF NextLine
  <2>3. CASE NextFrame
    <3>1. next = Lines * LineTicks /\ pos' = 0
      BY <1>2, <2>3, Positions, GeometryAssumption DEF NextFrame
    <3>2. 0 # Height * LineTicks
      BY GeometryAssumption
    <3> QED
      BY <2>0, <2>3, <3>1, <3>2, WrapsAt DEF NextFrame
  <2> QED
    BY <2>1, <2>2, <2>3, TickMoves
<1> QED
  BY <1>1, <1>3, <1>4, <1>5 DEF B!Advance, B!FrameTicks, B!Flip, presents, keeps

LEMMA BeamInSteps == Steps => ImplementsBeam
<1>1. IInv /\ [Next]_vars => [B!Next]_(B!bvars)
  <2> SUFFICES ASSUME IInv, [Next]_vars PROVE [B!Next]_(B!bvars)
    OBVIOUS
  <2>1. CASE TurnOff
    BY <2>1, TurnOffIsOff DEF B!Next
  <2>2. CASE LcdOnTick
    BY <2>2, TickIsAdvance DEF B!Next
  <2>3. CASE WriteLcdc \/ WriteStat \/ WriteLycWyWx \/ OthersTouchFlags
    BY <2>3 DEF WriteLcdc, WriteStat, WriteLycWyWx, OthersTouchFlags, beam,
       frame, B!Next, B!Outside
  <2>4. CASE UNCHANGED vars
    BY <2>4 DEF vars, beam, frame, B!bvars
  <2> QED
    BY <2>1, <2>2, <2>3, <2>4 DEF Next, TickPpu, StaysOff
<1> QED
  BY <1>1, InitBeam, InvarianceInSteps, PTL DEF Steps, ImplementsBeam, B!Spec

(* Every behaviour of the PPU, whatever the program writes to it, is one   *)
(* of a Beam: lines and frames take their exact number of ticks, the       *)
(* buffers alternate, and V-Blank is requested when a frame is presented.  *)
THEOREM PpuImplementsBeam == Spec => ImplementsBeam
  BY BeamInSteps, PTL DEF Spec, Steps
-----------------------------------------------------------------------------
(* STAT is requested at the rising edges of its condition.                 *)

\* While the LCD has stayed on, mode 3 is as long as a line has pixels.
InStep ==
  ~cut =>
    /\ state = GB_DATA_TRANSFER => ticks = OamTicks + curr_pxl
    /\ state = GB_HBLANK => OamTicks + Width <= ticks

Place == ly * LineTicks + ticks

Previous(p) == (p + FrameTicks - 1) % FrameTicks

\* stat_cond_met is the condition of the position before this one.
Remembers == quiet /\ ~cut => (stat_cond_met <=> Condition(Previous(Place)))

StatInv == IInv /\ (quiet \in BOOLEAN /\ (quiet => lcdc_on)) /\ InStep /\ Remembers

LEMMA LineAndTick ==
  ASSUME NEW y \in Nat, NEW t \in 0 .. LineTicks - 1
  PROVE  (y * LineTicks + t) \div LineTicks = y /\ (y * LineTicks + t) % LineTicks = t
<1>1. PICK n \in Nat \ {0} : n = LineTicks
  BY GeometryAssumption
<1>2. PICK x \in Nat : x = y * n + t
  BY <1>1
<1>3. PICK q \in Nat, r \in 0 .. n - 1 : q = x \div n /\ r = x % n /\ x = q * n + r
  <2>1. x \div n \in Nat /\ x % n \in 0 .. n - 1 /\ x = (x \div n) * n + (x % n)
    OBVIOUS
  <2> QED BY <2>1
<1>4. y * n - q * n = r - t
  <2>1. y * n \in Int /\ q * n \in Int
    OBVIOUS
  <2> QED BY <1>1, <1>2, <1>3, <2>1
<1>5. q < y => q * n + n <= y * n
  OBVIOUS
<1>6. y < q => y * n + n <= q * n
  OBVIOUS
<1>7. y = q
  <2>1. y * n \in Int /\ q * n \in Int
    OBVIOUS
  <2> QED BY <1>1, <1>4, <1>5, <1>6, <2>1
<1> QED BY <1>1, <1>2, <1>3, <1>4, <1>7

LEMMA Back ==
  ASSUME NEW n \in Nat \ {0}, NEW p \in 0 .. n - 1, NEW q, q = (p + 1) % n
  PROVE  (q + n - 1) % n = p
<1>1. CASE p + 1 = n
  BY <1>1, WrapsAt
<1>2. CASE p + 1 < n
  <2>1. q = p + 1
    BY <1>2, WrapsAt
  <2>2. q + n - 1 = p + n
    BY <2>1
  <2>3. (p + n) % n = p
    OBVIOUS
  <2> QED BY <2>2, <2>3
<1> QED BY <1>1, <1>2

\* The mode machine is in the mode that the position has, at the latest in
\* the last tick of a line.
LEMMA ConditionIs ==
  ASSUME IInv, InStep, ~cut \/ (state = GB_HBLANK /\ ticks = LineTicks - 1)
  PROVE  stat_cond_this_tick <=> Condition(Place)
<1>1. ly \in Nat /\ ticks \in 0 .. LineTicks - 1 /\ stat_en \subseteq StatSources
  BY DEF IInv, TypeOK, BeamOK, RegsOK
<1>2. Place \div LineTicks = ly /\ Place % LineTicks = ticks
  BY <1>1, LineAndTick DEF Place
<1>3. state \in {GB_HBLANK, GB_VBLANK, GB_OAM_SEARCH, GB_DATA_TRANSFER}
  BY DEF IInv, TypeOK, BeamOK, Support
<1>4. Mode(Place) =
        CASE state = GB_OAM_SEARCH -> "OAM" [] state = GB_DATA_TRANSFER -> "TRANSFER"
          [] state = GB_HBLANK -> "HBLANK" [] OTHER -> "VBLANK"
  <2>1. CASE state = GB_OAM_SEARCH
    BY <1>1, <1>2, <2>1, GeometryAssumption DEF Mode, IInv, BeamInv
  <2>2. CASE state = GB_DATA_TRANSFER
    BY <1>1, <1>2, <2>2, GeometryAssumption DEF Mode, IInv, BeamInv, TypeOK, BeamOK
  <2>3. CASE state = GB_HBLANK
    BY <1>1, <1>2, <2>3, GeometryAssumption DEF Mode, IInv, BeamInv, InStep
  <2>4. CASE state = GB_VBLANK
    BY <1>1, <1>2, <2>4, GeometryAssumption DEF Mode, IInv, BeamInv
  <2> QED BY <1>3, <2>1, <2>2, <2>3, <2>4
<1>5. ModeSource \cap stat_en # {} <=> Mode(Place) \in stat_en
  BY <1>1, <1>3, <1>4 DEF ModeSource, StatSources
<1> QED BY <1>2, <1>5 DEF stat_cond_this_tick, Condition

LEMMA TickStatLine ==
  ASSUME LcdOnTick
  PROVE  \E flags \in {int_flag, v_blank_interrupt(int_flag)} : StatLine(flags)
BY DEF LcdOnTick, OamSearch, OamBug, DataTransfer, HBlank, VBlank, EnterVBlank

LEMMA TickInStep ==
  ASSUME IInv, InStep, LcdOnTick
  PROVE  /\ InStep'
         /\ ~cut' => /\ ~cut \/ (state = GB_HBLANK /\ ticks = LineTicks - 1)
                     /\ state # GB_OAM_BUG
<1> USE GeometryAssumption DEF IInv, TypeOK, BeamOK, BeamInv, Support, InStep, frame, Enter
<1>1. CASE OamSearch
  BY <1>1 DEF OamSearch
<1>2. CASE OamBug
  BY <1>2 DEF OamBug
<1>3. CASE DataTransfer
  BY <1>3 DEF DataTransfer, DrawPixel
<1>4. CASE HBlank
  BY <1>4 DEF HBlank, EnterVBlank, EndLine
<1>5. CASE VBlank
  BY <1>5 DEF VBlank, EndLine, ResetBeam
<1> QED BY <1>1, <1>2, <1>3, <1>4, <1>5 DEF LcdOnTick

\* The position after a tick is the next one.
LEMMA TickPosition ==
  ASSUME IInv, LcdOnTick, state # GB_OAM_BUG
  PROVE  Previous(Place') = Place
<1>1. Place \in 0 .. FrameTicks - 1 /\ FrameTicks \in Nat \ {0}
  BY Positions, GeometryAssumption DEF Place, FrameTicks, IInv, TypeOK, BeamOK
<1>2. Place' = (Place + 1) % FrameTicks
  BY <1>1, TickIsAdvance DEF B!Advance, B!Skips, B!FrameTicks, FrameTicks, Place
<1> QED BY <1>1, <1>2, Back DEF Previous

LEMMA StatInitInv == SInit => StatInv
<1> SUFFICES ASSUME SInit PROVE StatInv
  OBVIOUS
<1>1. IInv
  BY InitIInv DEF SInit
<1>2. quiet = FALSE /\ state = GB_OAM_SEARCH
  BY DEF SInit, Init
<1>3. InStep
  BY <1>2 DEF InStep
<1>4. (quiet \in BOOLEAN /\ (quiet => lcdc_on)) /\ Remembers
  BY <1>2 DEF Remembers
<1> QED BY <1>1, <1>3, <1>4 DEF StatInv

LEMMA StatTick ==
  ASSUME StatInv, LcdOnTick, UNCHANGED regs, quiet' = lcdc_on
  PROVE  StatInv'
<1>1. IInv /\ InStep /\ lcdc_on
  BY DEF StatInv, LcdOnTick
<1>2. IInv'
  BY <1>1, OamPreserves, TransferPreserves, BlanksPreserve DEF LcdOnTick
<1>3. quiet' = TRUE /\ lcdc_on' = TRUE /\ stat_en' = stat_en /\ lyc' = lyc
  BY <1>1 DEF regs, IInv, TypeOK, RegsOK
<1>4. InStep'
  BY <1>1, TickInStep
<1>5. Remembers'
  <2> SUFFICES ASSUME ~cut' PROVE stat_cond_met' <=> Condition(Previous(Place))'
    BY DEF Remembers
  <2>1. (~cut \/ (state = GB_HBLANK /\ ticks = LineTicks - 1)) /\ state # GB_OAM_BUG
    BY <1>1, TickInStep
  <2>2. stat_cond_this_tick <=> Condition(Place)
    BY <1>1, <2>1, ConditionIs
  <2>3. stat_cond_met' = stat_cond_this_tick
    BY TickStatLine DEF StatLine
  <2>4. Previous(Place') = Place
    BY <1>1, <2>1, TickPosition
  <2>5. Condition(Previous(Place))' <=> Condition(Place)
    BY <1>3, <2>4 DEF Condition, Mode
  <2> QED BY <2>2, <2>3, <2>5
<1> QED BY <1>2, <1>3, <1>4, <1>5 DEF StatInv

LEMMA StatNextInv == StatInv /\ [SNext]_svars => StatInv'
<1> SUFFICES ASSUME StatInv, [SNext]_svars PROVE StatInv'
  OBVIOUS
<1>1. IInv'
  <2>1. [Next]_vars
    BY DEF SNext, STick, svars, Next
  <2> QED BY <2>1, NextPreserves DEF StatInv
<1>2. CASE STick /\ LcdOnTick /\ UNCHANGED regs
  BY <1>2, StatTick DEF STick
<1>3. CASE STick /\ TurnOff /\ UNCHANGED regs
  <2>1. ~lcdc_on /\ quiet' = FALSE
    BY <1>3 DEF STick, TurnOff, StatInv, IInv, TypeOK, RegsOK
  <2>2. InStep'
    BY <1>3 DEF TurnOff, InStep
  <2> QED BY <1>1, <2>1, <2>2 DEF StatInv, Remembers
<1>4. CASE STick /\ StaysOff
  <2>1. quiet' = FALSE /\ InStep'
    BY <1>4 DEF STick, StaysOff, vars, beam, frame, StatInv, IInv, TypeOK, RegsOK, InStep
  <2> QED BY <1>1, <2>1 DEF StatInv, Remembers
<1>5. CASE (WriteLcdc \/ WriteStat \/ WriteLycWyWx) /\ quiet' = FALSE
  <2>1. InStep'
    BY <1>5 DEF WriteLcdc, WriteStat, WriteLycWyWx, beam, frame, StatInv, InStep
  <2> QED BY <1>1, <1>5, <2>1 DEF StatInv, Remembers
<1>6. CASE (OthersTouchFlags /\ UNCHANGED quiet) \/ UNCHANGED svars
  <2>1. UNCHANGED <<beam, regs, frame, stat_cond_met, quiet>>
    BY <1>6 DEF OthersTouchFlags, svars, vars
  <2>2. UNCHANGED <<state, ticks, ly, curr_pxl, cut, stat_en, lyc, lcdc_on, stat_cond_met, quiet>>
    BY <2>1 DEF beam, regs, frame
  <2>3. InStep'
    BY <2>2 DEF StatInv, InStep
  <2>4. Previous(Place)' = Previous(Place)
    BY <2>2 DEF Previous, Place
  <2>5. Condition(Previous(Place))' <=> Condition(Previous(Place))
    BY <2>2, <2>4 DEF Condition, Mode
  <2>6. Remembers'
    BY <2>2, <2>5 DEF StatInv, Remembers
  <2> QED BY <1>1, <2>2, <2>3, <2>6 DEF StatInv
<1> QED BY <1>2, <1>3, <1>4, <1>5, <1>6 DEF SNext, STick, TickPpu

(* While the LCD stays on and its registers are left alone, STAT is        *)
(* requested in exactly the ticks whose place in the frame is a rising     *)
(* edge of the enabled conditions.                                         *)
THEOREM StatIsRequestedAtEdges == SSpec => StatAtRisingEdges
<1> DEFINE Edges ==
      quiet /\ quiet' /\ ~cut /\ TickPpu /\ GB_INT_LCD_STAT \notin int_flag =>
        ((GB_INT_LCD_STAT \in int_flag') <=> RisesAt(ly * LineTicks + ticks))
<1>1. StatInv => [Edges]_svars
  <2> SUFFICES ASSUME StatInv, quiet, ~cut, TickPpu, GB_INT_LCD_STAT \notin int_flag
               PROVE  (GB_INT_LCD_STAT \in int_flag') <=> RisesAt(ly * LineTicks + ticks)
    OBVIOUS
  <2>1. LcdOnTick
    BY DEF TickPpu, TurnOff, StaysOff, StatInv
  <2>2. stat_cond_this_tick <=> Condition(Place)
    BY ConditionIs DEF StatInv
  <2>3. stat_cond_met <=> Condition(Previous(Place))
    BY DEF StatInv, Remembers
  <2>4. (GB_INT_LCD_STAT \in int_flag') <=> stat_cond_this_tick /\ ~stat_cond_met
    BY <2>1, TickStatLine
    DEF StatLine, stat_interrupt, v_blank_interrupt, GB_INT_VBLANK, GB_INT_LCD_STAT
  <2> QED BY <2>2, <2>3, <2>4 DEF RisesAt, Previous, Place
<1>2. SSpec => []StatInv
  BY StatInitInv, StatNextInv, PTL DEF SSpec
<1>3. SSpec => [][Edges]_svars
  <2> HIDE DEF Edges
  <2> QED BY <1>1, <1>2, PTL DEF SSpec
<1> QED BY <1>3 DEF StatAtRisingEdges
-----------------------------------------------------------------------------
LEMMA InStepNext == IInv /\ InStep /\ [Next]_vars => InStep'
<1> SUFFICES ASSUME IInv, InStep, [Next]_vars PROVE InStep'
  OBVIOUS
<1>1. CASE LcdOnTick
  BY <1>1, TickInStep
<1>2. CASE TurnOff
  BY <1>2 DEF TurnOff, InStep
<1>3. CASE StaysOff \/ WriteLcdc \/ WriteStat \/ WriteLycWyWx \/ OthersTouchFlags \/ UNCHANGED vars
  <2>1. UNCHANGED <<state, ticks, curr_pxl, cut>>
    BY <1>3 DEF StaysOff, WriteLcdc, WriteStat, WriteLycWyWx, OthersTouchFlags, vars, beam, frame
  <2> QED BY <2>1 DEF InStep
<1> QED BY <1>1, <1>2, <1>3 DEF Next, TickPpu

(* README.md:26 says that mode 3 always takes the same time.  It does in   *)
(* every frame in which the LCD was not turned off: mode 3 begins when     *)
(* OamTicks of the line have passed and ends Width ticks later.            *)
THEOREM Mode3IsSteady ==
  Spec => [][~cut /\ state = GB_DATA_TRANSFER /\ state' = GB_HBLANK =>
               ticks' = OamTicks + Width]_vars
<1> DEFINE Steady ==
      ~cut /\ state = GB_DATA_TRANSFER /\ state' = GB_HBLANK => ticks' = OamTicks + Width
<1>1. IInv /\ InStep /\ [Next]_vars => [Steady]_vars
  <2> SUFFICES ASSUME IInv, InStep, Next, ~cut, state = GB_DATA_TRANSFER, state' = GB_HBLANK
               PROVE  ticks' = OamTicks + Width
    OBVIOUS
  <2>1. CASE DataTransfer
    BY <2>1, GeometryAssumption DEF DataTransfer, Enter, InStep, IInv, TypeOK, BeamOK
  <2>2. DataTransfer
    BY DEF Next, TickPpu, LcdOnTick, TurnOff, StaysOff, OamSearch, OamBug, HBlank, VBlank,
           WriteLcdc, WriteStat, WriteLycWyWx, OthersTouchFlags, beam, vars,
           GB_HBLANK, GB_VBLANK, GB_OAM_SEARCH, GB_DATA_TRANSFER, GB_OAM_BUG
  <2> QED BY <2>1, <2>2
<1>2. Init => InStep
  BY DEF Init, InStep
<1>3. Spec => [](IInv /\ InStep)
  BY InitIInv, NextPreserves, InStepNext, <1>2, PTL DEF Spec
<1> HIDE DEF Steady
<1>4. Spec => [][Steady]_vars
  BY <1>1, <1>3, PTL DEF Spec
<1> QED BY <1>4 DEF Steady
=============================================================================
