----------------------------- MODULE MCConsole ------------------------------
(* Bounds for model checking Console: a frame of 2 lines of 6 ticks, a     *)
(* timer whose counter is one batch long, instructions of 4 cycles, an     *)
(* opcode without a function that ends the program, and stores that turn   *)
(* the timer and the STAT request for H-Blank on and the LCD on and off.   *)
EXTENDS Console, TLC

FourSources == {GB_INT_VBLANK, GB_INT_LCD_STAT, GB_INT_TIMER, GB_INT_JOYPAD}

TimerOn == {<<TRUE, 0>>}
SomeIe == {{GB_INT_VBLANK, GB_INT_TIMER, GB_INT_JOYPAD}}

HblankOnly == {{"HBLANK"}}

OneBatch == 0 :> 16 @@ 1 :> 16 @@ 2 :> 16 @@ 3 :> 16
=============================================================================
