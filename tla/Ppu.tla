-------------------------------- MODULE Ppu ---------------------------------
(***************************************************************************)
(* The picture processing unit of ppu.c: the mode machine tick_ppu() runs  *)
(* once per clock cycle, the registers the CPU writes through              *)
(* write_byte(), and the two frame buffers.                                *)
(*                                                                         *)
(* Pixel colours are abstracted away.  Of a line's sprites only the line   *)
(* they were collected for is kept, of a frame buffer only whether it ever *)
(* received defined contents.                                              *)
(***************************************************************************)
EXTENDS Integers, Interrupts

CONSTANTS
  Width,         \* GB_SCREEN_WIDTH, 160
  Height,        \* GB_SCREEN_HEIGHT, 144
  Lines,         \* lines of a frame, V-Blank included, 154
  LineTicks,     \* ticks of a line, 456
  OamTicks,      \* ticks of an OAM search, 80
  BugTicks,      \* ticks of the OAM search after the LCD is turned on, 76
  CounterMod,    \* values of a uint8_t, 256
  StatWrites,    \* what the program may write to STAT bits 3..6
  LycWrites,     \* ... to LYC
  WyWrites,      \* ... to WY
  WxWrites,      \* ... to WX
  WinWrites,     \* ... to LCDC bit 5
  Sources        \* the interrupt sources represented in int_flag

StatSources == {"HBLANK", "VBLANK", "OAM", "LYC"}   \* STAT bits 3, 4, 5, 6

ASSUME GeometryAssumption ==
  /\ Width \in Nat \ {0} /\ Height \in Nat \ {0} /\ CounterMod \in Nat \ {0}
  /\ Lines \in Nat /\ Height < Lines
  /\ BugTicks \in Nat /\ BugTicks >= 2
  /\ OamTicks \in Nat /\ BugTicks <= OamTicks
  /\ LineTicks \in Nat /\ OamTicks + Width < LineTicks

ASSUME WritesAssumption ==
  /\ StatWrites \subseteq SUBSET StatSources
  /\ LycWrites \subseteq Nat /\ WyWrites \subseteq Nat /\ WxWrites \subseteq Nat
  /\ WinWrites \subseteq BOOLEAN
  /\ {GB_INT_VBLANK, GB_INT_LCD_STAT} \subseteq Sources
  /\ Sources \subseteq AllSources

GB_HBLANK        == 0
GB_VBLANK        == 1
GB_OAM_SEARCH    == 2
GB_DATA_TRANSFER == 3
GB_OAM_BUG       == 4

VARIABLES
  state, ticks, ly, curr_pxl,   \* the mode machine and the beam position
  lcdc_on, lcdc_win,            \* LCDC bits 7 and 5
  stat_en, stat_lyc, stat_mode, \* STAT bits 3..6, bit 2 and bits 0..1
  lyc, wy, wx,
  stat_cond_met, screen_off, window_line_counter,
  sprites_ly,                   \* the line the sprites array was filled for
  screen, lcd,                  \* the buffer drawn into, the one displayed
  int_flag,
  undef,     \* buffers whose contents are not yet defined
  painted,   \* history: pixels drawn since the buffers were last swapped
  cut        \* history: the LCD was turned off since the last V-Blank

beam  == <<state, stat_mode, ticks, ly, curr_pxl>>
regs  == <<lcdc_on, lcdc_win, stat_en, lyc, wy, wx>>
frame == <<screen, lcd, undef, painted, cut>>
vars  == <<beam, regs, frame, stat_lyc, stat_cond_met, screen_off,
           window_line_counter, sprites_ly, int_flag>>

Buffers == {0, 1}

FramePixels == Width * Height
-----------------------------------------------------------------------------
(* init_ppu: screen comes from malloc and is left undefined, lcd is zeroed. *)
Init ==
  /\ state = GB_OAM_SEARCH /\ stat_mode = GB_OAM_SEARCH
  /\ ticks = 0 /\ ly = 0 /\ curr_pxl = 0
  /\ lcdc_on = TRUE /\ lcdc_win = FALSE
  /\ stat_en = {} /\ stat_lyc = FALSE
  /\ lyc = 255 /\ wy = 0 /\ wx = 0
  /\ stat_cond_met = FALSE /\ screen_off = TRUE
  /\ window_line_counter = 0 /\ sprites_ly = 0
  /\ screen = 0 /\ lcd = 1 /\ int_flag = {}
  /\ undef = {0} /\ painted = 0 /\ cut = FALSE

-----------------------------------------------------------------------------
(* The parts of tick_ppu. *)

SwapWithoutTemp == lcd' = screen /\ screen' = screen

swap_lcd == lcd' = screen /\ screen' = lcd

Enter(mode) == state' = mode /\ stat_mode' = mode

ResetBeamKeepingTicks == ly' = 0 /\ UNCHANGED ticks

ResetBeam == ly' = 0 /\ ticks' = 0

BlankDisplayed == undef' = undef \ {lcd}

BlankScreen == undef' = undef \ {screen}

\* LCDC bit 7 was cleared: blank the picture and start over in OAM_BUG.
\* curr_pxl, stat_cond_met and window_line_counter keep their values.
TurnOff ==
  /\ ~lcdc_on /\ ~screen_off
  /\ screen_off' = TRUE
  /\ BlankScreen
  /\ swap_lcd
  /\ ResetBeam
  /\ state' = GB_OAM_BUG /\ stat_mode' = GB_HBLANK
  /\ painted' = 0 /\ cut' = TRUE
  /\ UNCHANGED <<curr_pxl, stat_lyc, stat_cond_met, window_line_counter,
                 sprites_ly, int_flag>>

ModeSource ==
  CASE state \in {GB_OAM_SEARCH, GB_OAM_BUG} -> {"OAM"}
    [] state = GB_HBLANK                     -> {"HBLANK"}
    [] state = GB_VBLANK                     -> {"VBLANK"}
    [] OTHER                                 -> {}

stat_cond_this_tick ==
  \/ ly = lyc /\ "LYC" \in stat_en
  \/ ModeSource \cap stat_en # {}

StatLineLevel(flags) ==
  /\ int_flag' = IF stat_cond_this_tick THEN stat_interrupt(flags) ELSE flags
  /\ stat_cond_met' = stat_cond_this_tick

StatLineSticky(flags) ==
  /\ int_flag' = IF stat_cond_this_tick /\ ~stat_cond_met
                   THEN stat_interrupt(flags) ELSE flags
  /\ stat_cond_met' = (stat_cond_met \/ stat_cond_this_tick)

\* The end of tick_ppu: STAT is requested on the rising edge of its condition.
StatLine(flags) ==
  /\ int_flag' = IF stat_cond_this_tick /\ ~stat_cond_met
                   THEN stat_interrupt(flags) ELSE flags
  /\ stat_cond_met' = stat_cond_this_tick

ScanWhenSearching ==
  sprites_ly' = IF ticks = 0 /\ state = GB_OAM_SEARCH THEN ly ELSE sprites_ly

scan_oam_for_scanline == sprites_ly' = IF ticks = 0 THEN ly ELSE sprites_ly

OamSearch ==
  /\ state = GB_OAM_SEARCH
  /\ scan_oam_for_scanline
  /\ IF ticks = OamTicks - 1 THEN Enter(GB_DATA_TRANSFER)
                             ELSE UNCHANGED <<state, stat_mode>>
  /\ ticks' = ticks + 1
  /\ StatLine(int_flag)
  /\ UNCHANGED <<ly, curr_pxl, window_line_counter, frame>>

OamBugEndPlain == ticks' = ticks + 1

\* The first OAM search after the LCD is turned on is four ticks short.
OamBugEnd == ticks' = ticks + (OamTicks - BugTicks) + 1

OamBug ==
  /\ state = GB_OAM_BUG
  /\ scan_oam_for_scanline
  /\ \/ /\ ticks = BugTicks - 1
        /\ Enter(GB_DATA_TRANSFER)
        /\ OamBugEnd
     \/ /\ ticks # BugTicks - 1
        /\ ticks' = ticks + 1
        /\ UNCHANGED <<state, stat_mode>>
  /\ StatLine(int_flag)
  /\ UNCHANGED <<ly, curr_pxl, window_line_counter, frame>>

\* The last pixel of the line lies inside the window.
WindowAtLastPixel == lcdc_win /\ ly >= wy /\ Width - 1 >= wx - 7

DrawPixelNoWrap ==
  /\ curr_pxl' = IF curr_pxl + 1 = Width THEN curr_pxl ELSE curr_pxl + 1
  /\ painted' = painted + 1
  /\ UNCHANGED window_line_counter

DrawPixel ==
  /\ curr_pxl' = IF curr_pxl + 1 = Width THEN 0 ELSE curr_pxl + 1
  /\ painted' = painted + 1
  /\ window_line_counter' =
       IF curr_pxl = Width - 1 /\ WindowAtLastPixel
         THEN (window_line_counter + 1) % CounterMod ELSE window_line_counter

DataTransfer ==
  /\ state = GB_DATA_TRANSFER
  /\ DrawPixel
  /\ IF curr_pxl + 1 = Width THEN Enter(GB_HBLANK)
                             ELSE UNCHANGED <<state, stat_mode>>
  /\ ticks' = ticks + 1
  /\ StatLine(int_flag)
  /\ UNCHANGED <<ly, sprites_ly, screen, lcd, undef, cut>>

KeepWindow == UNCHANGED window_line_counter

ResetWindow == window_line_counter' = 0

\* The last visible line is complete: present it and ask for V-Blank.
EnterVBlank ==
  /\ Enter(GB_VBLANK)
  /\ swap_lcd
  /\ ResetWindow
  /\ StatLine(v_blank_interrupt(int_flag))
  /\ undef' = IF painted = FramePixels THEN undef \ {screen} ELSE undef
  /\ painted' = 0 /\ cut' = FALSE

EndLineKeepingTicks == ly' = ly + 1 /\ UNCHANGED ticks

EndLine == ly' = ly + 1 /\ ticks' = 0

HBlank ==
  /\ state = GB_HBLANK
  /\ \/ /\ ticks # LineTicks - 1
        /\ ticks' = ticks + 1
        /\ StatLine(int_flag)
        /\ UNCHANGED <<state, stat_mode, ly, window_line_counter, frame>>
     \/ /\ ticks = LineTicks - 1
        /\ ly + 1 # Height
        /\ EndLine
        /\ Enter(GB_OAM_SEARCH)
        /\ StatLine(int_flag)
        /\ UNCHANGED <<window_line_counter, frame>>
     \/ /\ ticks = LineTicks - 1
        /\ ly + 1 = Height
        /\ EndLine
        /\ EnterVBlank
  /\ UNCHANGED <<curr_pxl, sprites_ly>>

VBlank ==
  /\ state = GB_VBLANK
  /\ \/ /\ ticks # LineTicks - 1
        /\ ticks' = ticks + 1
        /\ UNCHANGED <<state, stat_mode, ly>>
     \/ /\ ticks = LineTicks - 1
        /\ ly + 1 # Lines
        /\ EndLine
        /\ UNCHANGED <<state, stat_mode>>
     \/ /\ ticks = LineTicks - 1
        /\ ly + 1 = Lines
        /\ ResetBeam
        /\ Enter(GB_OAM_SEARCH)
  /\ StatLine(int_flag)
  /\ UNCHANGED <<curr_pxl, window_line_counter, sprites_ly, frame>>

\* A tick with the LCD on; the first one also brings the screen back.
LcdOnTick ==
  /\ lcdc_on
  /\ screen_off' = FALSE
  /\ stat_lyc' = (ly = lyc)
  /\ OamSearch \/ OamBug \/ DataTransfer \/ HBlank \/ VBlank

StaysOff == ~lcdc_on /\ screen_off /\ UNCHANGED vars

TickPpu ==
  \/ (TurnOff \/ LcdOnTick) /\ UNCHANGED regs
  \/ StaysOff

-----------------------------------------------------------------------------
(* What the program does to the PPU through write_byte(), and what the     *)
(* rest of the machine does to IF.                                         *)

WriteLcdc ==
  /\ lcdc_on' \in BOOLEAN /\ lcdc_win' \in WinWrites \cup {lcdc_win}
  /\ UNCHANGED <<beam, frame, stat_en, stat_lyc, lyc, wy, wx, stat_cond_met,
                 screen_off, window_line_counter, sprites_ly, int_flag>>

\* The mask 0x7C lets the program overwrite the coincidence flag as well.
WriteStat ==
  /\ stat_en' \in StatWrites /\ stat_lyc' \in BOOLEAN
  /\ UNCHANGED <<beam, frame, lcdc_on, lcdc_win, lyc, wy, wx, stat_cond_met,
                 screen_off, window_line_counter, sprites_ly, int_flag>>

WriteLycWyWx ==
  /\ \/ lyc' \in LycWrites /\ UNCHANGED <<wy, wx>>
     \/ wy' \in WyWrites /\ UNCHANGED <<lyc, wx>>
     \/ wx' \in WxWrites /\ UNCHANGED <<lyc, wy>>
  /\ UNCHANGED <<beam, frame, lcdc_on, lcdc_win, stat_en, stat_lyc,
                 stat_cond_met, screen_off, window_line_counter, sprites_ly,
                 int_flag>>

\* The CPU acknowledges or overwrites IF, other components request.
OthersTouchFlags ==
  /\ int_flag' \in SUBSET Sources
  /\ UNCHANGED <<beam, regs, frame, stat_lyc, stat_cond_met, screen_off,
                 window_line_counter, sprites_ly>>

Next == TickPpu \/ WriteLcdc \/ WriteStat \/ WriteLycWyWx \/ OthersTouchFlags

\* run_frame() ticks the PPU in every cycle, unless the CPU ends the program.
Spec == Init /\ [][Next]_vars /\ WF_vars(TickPpu)

-----------------------------------------------------------------------------
BeamOK ==
  /\ state \in GB_HBLANK .. GB_OAM_BUG /\ stat_mode \in GB_HBLANK .. GB_DATA_TRANSFER
  /\ ticks \in 0 .. LineTicks - 1 /\ ly \in 0 .. Lines - 1
  /\ curr_pxl \in 0 .. Width - 1
  /\ window_line_counter \in 0 .. CounterMod - 1
  /\ sprites_ly \in 0 .. Height - 1

RegsOK ==
  /\ lcdc_on \in BOOLEAN /\ lcdc_win \in BOOLEAN
  /\ stat_en \subseteq StatSources /\ stat_lyc \in BOOLEAN
  /\ lyc \in Nat /\ wy \in Nat /\ wx \in Nat

FlagsOK ==
  /\ stat_cond_met \in BOOLEAN /\ screen_off \in BOOLEAN
  /\ int_flag \subseteq Sources

FrameOK ==
  /\ screen \in Buffers /\ lcd \in Buffers /\ screen # lcd
  /\ undef \subseteq Buffers /\ painted \in Nat /\ cut \in BOOLEAN

(* Every variable keeps to its range: ly, ticks and curr_pxl never leave   *)
(* the screen and the line although the comparisons that wrap them are     *)
(* all equalities.                                                         *)
TypeOK == BeamOK /\ RegsOK /\ FlagsOK /\ FrameOK

(* The state of the mode machine determines where in the frame the beam    *)
(* can be.  In mode 3 the tick counter may be behind the pixel counter     *)
(* (curr_pxl is kept when the LCD is turned off), never ahead of it.       *)
BeamInv ==
  /\ stat_mode = IF state = GB_OAM_BUG THEN GB_HBLANK ELSE state
  /\ state = GB_OAM_SEARCH => ticks < OamTicks /\ ly < Height
  /\ state = GB_OAM_BUG => ticks < BugTicks /\ ly = 0
  /\ state = GB_DATA_TRANSFER =>
       OamTicks <= ticks /\ ticks <= OamTicks + curr_pxl /\ ly < Height
  /\ state = GB_HBLANK => OamTicks < ticks /\ ly < Height
  /\ state = GB_VBLANK => Height <= ly
  /\ screen_off => \/ state = GB_OAM_BUG /\ ticks = 0
                   \/ state = GB_OAM_SEARCH /\ ticks = 0 /\ ly = 0 /\ curr_pxl = 0
  /\ curr_pxl # 0 => state \in {GB_DATA_TRANSFER, GB_OAM_BUG}

(* While pixels are drawn the sprites in use are those collected for this  *)
(* very line, also after the LCD was turned off inside an earlier one.     *)
SpritesForThisLine == state = GB_DATA_TRANSFER => sprites_ly = ly

(* Unless the LCD was turned off in this frame, the pixels drawn so far    *)
(* are exactly those the beam has passed.                                  *)
PaintedTracksBeam ==
  ~cut => painted = IF state = GB_VBLANK THEN 0
                    ELSE ly * Width + (IF state = GB_HBLANK THEN Width ELSE curr_pxl)

(* The buffer on display never has undefined contents: malloc leaves       *)
(* screen uninitialised, but it is drawn over or blanked before the swap.  *)
PresentedIsDefined == lcd \notin undef

(* A frame during which the LCD stayed on is presented only when every one *)
(* of its pixels has been drawn.                                           *)
PresentsWholeFrames ==
  [][lcd' # lcd /\ ~cut /\ ~cut' => painted = FramePixels]_vars

(* The window never gets ahead of the picture: no frame that the LCD       *)
(* stayed on for shows more window lines than it has drawn lines.          *)
WindowBehindBeam ==
  ~cut => window_line_counter <= ly + (IF state = GB_HBLANK THEN 1 ELSE 0)

(* With the LCD left on, tick_ppu presents frame after frame: each buffer  *)
(* is on display again and again.                                          *)
PresentsForever == <>[]lcdc_on => \A b \in Buffers : []<>(lcd = b)

(* A program that waits for line c with the LY=LYC interrupt gets it over  *)
(* and over: the STAT condition cannot stay high and hide later matches.   *)
LycComesRound ==
  \A c \in LycWrites :
    c < Lines /\ <>[](lcdc_on /\ lyc = c /\ stat_en = {"LYC"})
      => []<>(GB_INT_LCD_STAT \in int_flag)

B == INSTANCE Beam WITH
       FirstSkip <- OamTicks - BugTicks,
       on <- ~screen_off, pos <- ly * LineTicks + ticks,
       warm <- state = GB_OAM_BUG, front <- lcd,
       vblank <- GB_INT_VBLANK \in int_flag

(* The PPU is a Beam: its mode machine, its registers and whatever the     *)
(* program does to them leave frame timing, the order in which buffers are *)
(* shown and the V-Blank request to the beam position alone.               *)
ImplementsBeam == B!Spec

(* README.md: "mode 3 always takes the same time".  It does not: curr_pxl  *)
(* survives turning the LCD off, and the first mode 3 after turning it on  *)
(* again goes on from there.                                               *)
Mode3SameLength ==
  [][state = GB_DATA_TRANSFER /\ state' = GB_HBLANK
       => ticks' = OamTicks + Width]_vars
=============================================================================
