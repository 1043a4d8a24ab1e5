------------------------------- MODULE MCPpu --------------------------------
(* Bounds for model checking Ppu: a 2 x 2 screen in a frame of 3 lines of  *)
(* 7 ticks, which leaves each mode at least two ticks on a line.           *)
EXTENDS Ppu

AllStat    == SUBSET StatSources
LycOnly    == {{"LYC"}}
NoStat     == {{}}
PpuSources == {GB_INT_VBLANK, GB_INT_LCD_STAT}
=============================================================================
