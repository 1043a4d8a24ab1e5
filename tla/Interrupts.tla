----------------------------- MODULE Interrupts -----------------------------
(***************************************************************************)
(* The interrupt sources of interrupts.h and the four request functions of *)
(* interrupts.c.  The IF register (cpu.int_flag) and the IE register       *)
(* (mem.ie_reg) are sets of sources: bit i of the register is set iff i is *)
(* in the set.  Bits 5..7 of either register take part in no decision of   *)
(* the program and are left out.                                           *)
(***************************************************************************)
EXTENDS Naturals

GB_INT_VBLANK   == 0
GB_INT_LCD_STAT == 1
GB_INT_TIMER    == 2
GB_INT_SERIAL   == 3
GB_INT_JOYPAD   == 4

\* int_addresses[] has one vector per source, in this order.
AllSources == GB_INT_VBLANK .. GB_INT_JOYPAD

\* A request function ORs its bit into the flags it is given.
v_blank_overwrite(flags) == {GB_INT_VBLANK}
v_blank_interrupt(flags) == flags \cup {GB_INT_VBLANK}
stat_interrupt(flags)    == flags \cup {GB_INT_LCD_STAT}
timer_interrupt(flags)   == flags \cup {GB_INT_TIMER}
joypad_interrupt(flags)  == flags \cup {GB_INT_JOYPAD}
=============================================================================
