------------------------------ MODULE PpuStat -------------------------------
(***************************************************************************)
(* The STAT interrupt against a definition that knows nothing of the mode  *)
(* machine: which condition holds in a tick follows from the tick's place  *)
(* in the frame alone.                                                     *)
(***************************************************************************)
EXTENDS MCPpu

VARIABLE quiet   \* history: the last tick saw the registers as they are now

svars == <<vars, quiet>>

Mode(p) ==
  LET t == p % LineTicks IN
  CASE p \div LineTicks >= Height -> "VBLANK"
    [] p \div LineTicks < Height /\ t < OamTicks -> "OAM"
    [] p \div LineTicks < Height /\ t >= OamTicks /\ t < OamTicks + Width -> "TRANSFER"
    [] OTHER -> "HBLANK"

Condition(p) ==
  \/ Mode(p) \in stat_en
  \/ "LYC" \in stat_en /\ p \div LineTicks = lyc

FrameTicks == Lines * LineTicks

RisesAt(p) == Condition(p) /\ ~Condition((p + FrameTicks - 1) % FrameTicks)

SInit == Init /\ quiet = FALSE

STick == TickPpu /\ quiet' = lcdc_on

SNext ==
  \/ STick
  \/ (WriteLcdc \/ WriteStat \/ WriteLycWyWx) /\ quiet' = FALSE
  \/ OthersTouchFlags /\ UNCHANGED quiet

SSpec == SInit /\ [][SNext]_svars /\ WF_svars(STick)

(* Between register writes the STAT interrupt is requested in the ticks    *)
(* whose position is a rising edge of the condition and in no other:       *)
(* sources that follow each other without a gap share one request.         *)
StatAtRisingEdges ==
  [][quiet /\ quiet' /\ ~cut /\ TickPpu /\ GB_INT_LCD_STAT \notin int_flag =>
       ((GB_INT_LCD_STAT \in int_flag') <=> RisesAt(ly * LineTicks + ticks))]_svars
=============================================================================
