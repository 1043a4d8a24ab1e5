------------------------------- MODULE MCCpu --------------------------------
(* Bounds for model checking Cpu: two interrupt sources of different       *)
(* priority and ordinary instructions of 4 and 12 cycles.                  *)
EXTENDS Cpu

TwoSources == {GB_INT_VBLANK, GB_INT_TIMER}

AllOpcodes == {"plain", "ei", "di", "halt", "reti", "unimplemented"}
Anything   == SUBSET TwoSources
=============================================================================
