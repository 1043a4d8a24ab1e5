-------------------------------- MODULE Cpu ---------------------------------
(***************************************************************************)
(* The control part of the CPU: execute_cpu_cycle() of cpu.c, called once  *)
(* per clock cycle, handle_interrupts() of interrupts.c, and what the      *)
(* instructions of instructions.c do to interrupts and to time.            *)
(*                                                                         *)
(* The program is arbitrary.  Its instructions are kept apart only by      *)
(* their effect on IME, HALT, IF and IE and by the cycles they take.       *)
(***************************************************************************)
EXTENDS Integers, Interrupts

CONSTANTS
  Sources,      \* the interrupt sources represented in IF and IE
  Costs,        \* cycles of the ordinary instructions, taken branches included
  MaxCost,      \* bound on the cycles of any instruction, 24
  Opcodes,      \* the kinds of instruction the program contains
  IeWrites,     \* the values its stores and pushes may leave in IE
  IfWrites      \* ... in IF

ASSUME CpuAssumption ==
  /\ Sources \subseteq AllSources
  /\ MaxCost \in Nat /\ MaxCost >= 16
  /\ Costs \subseteq 1 .. MaxCost
  /\ Opcodes \subseteq {"plain", "ei", "di", "halt", "reti", "unimplemented"}
  /\ IeWrites \subseteq SUBSET Sources /\ IfWrites \subseteq SUBSET Sources

VARIABLES
  ime, ime_delay, halted,
  int_flag, ie_reg,
  remaining_cycles,
  exited,   \* exit(1) was called
  last,     \* history: what the CPU began when it was last free
  masked,   \* history: DI or a dispatch came after the last EI or RETI
  redundant,\* history: EI or RETI was run with interrupts already enabled
  overwrote \* history: what the CPU last began changed IF by a store

control  == <<ime, ime_delay, halted>>
requests == <<int_flag, ie_reg>>
history  == <<last, masked, redundant, overwrote>>
cpuvars  == <<control, requests, remaining_cycles, exited, history>>

Events == {"boot", "plain", "ei", "di", "halt", "idle", "dispatch"}

(* init_cpu, and ie_reg as init_mem leaves it. *)
Init ==
  /\ ime = TRUE /\ ime_delay = FALSE /\ halted = FALSE
  /\ int_flag = {} /\ ie_reg = {}
  /\ remaining_cycles = 0 /\ exited = FALSE
  /\ last = "boot" /\ masked = FALSE /\ redundant = FALSE
  /\ overwrote = FALSE

-----------------------------------------------------------------------------
(* handle_interrupts *)

Pending == int_flag \cap ie_reg

LastPending(i) == i \in Pending /\ \A j \in Pending : j <= i

\* The bits are looked at from 0 up.
FirstPending(i) == i \in Pending /\ \A j \in Pending : i <= j

AcknowledgeAll(flags, i) == {}

Acknowledge(flags, i) == flags \ {i}

KeepIme == UNCHANGED ime

DisableIme == ime' = FALSE

\* What IF and IE may be after a store of the program, wherever it lands.
StoreEffects ==
  {requests} \cup ({int_flag} \X IeWrites) \cup (IfWrites \X {ie_reg})

NoteStore(flags) == overwrote' = (flags # int_flag)

\* The push of pc comes first and may itself hit IE, or IF but for the bit
\* that is being served.  Four cycles pass, this one included.
Dispatch ==
  /\ DisableIme
  /\ \E i \in Sources, stored \in StoreEffects :
       /\ FirstPending(i)
       /\ int_flag' = Acknowledge(stored[1], i) /\ ie_reg' = stored[2]
       /\ NoteStore(stored[1])
  /\ remaining_cycles' = 3
  /\ halted' = FALSE
  /\ last' = "dispatch" /\ masked' = TRUE
  /\ UNCHANGED <<ime_delay, exited, redundant>>

-----------------------------------------------------------------------------
(* Instructions.  Before the opcode is read ime_delay raises IME; when IME *)
(* is up already, ime_delay is left as it is.                              *)
ImeNow   == ime \/ ime_delay
DelayNow == ime /\ ime_delay

\* The table's cycles, of which this is the first.
Takes(c) == remaining_cycles' = c - 1

Plain ==
  /\ ime' = ImeNow /\ ime_delay' = DelayNow /\ halted' = FALSE
  /\ \E c \in Costs : Takes(c)
  /\ \E s \in StoreEffects : int_flag' = s[1] /\ ie_reg' = s[2] /\ NoteStore(s[1])
  /\ last' = "plain" /\ UNCHANGED <<exited, masked, redundant>>

\* EI and RETI only set ime_delay; they do not look at IME.
EnableLater(c) ==
  /\ ime' = ImeNow /\ ime_delay' = TRUE /\ halted' = FALSE
  /\ Takes(c)
  /\ last' = "ei" /\ masked' = FALSE
  /\ redundant' = (redundant \/ ImeNow) /\ overwrote' = FALSE
  /\ UNCHANGED <<requests, exited>>

\* DI leaves ime_delay as it is.
Di ==
  /\ DisableIme /\ ime_delay' = DelayNow /\ halted' = FALSE
  /\ Takes(4)
  /\ last' = "di" /\ masked' = TRUE /\ overwrote' = FALSE
  /\ UNCHANGED <<requests, exited, redundant>>

Halt ==
  /\ ime' = ImeNow /\ ime_delay' = DelayNow /\ halted' = TRUE
  /\ Takes(4)
  /\ last' = "halt" /\ overwrote' = FALSE
  /\ UNCHANGED <<requests, exited, masked, redundant>>

\* An opcode without a function ends the process.
Exit ==
  /\ exited' = TRUE
  /\ ime' = ImeNow /\ ime_delay' = DelayNow /\ halted' = FALSE
  /\ UNCHANGED <<requests, remaining_cycles, history>>

Instruction ==
  \/ "plain" \in Opcodes /\ Plain
  \/ "ei" \in Opcodes /\ EnableLater(4)
  \/ "reti" \in Opcodes /\ EnableLater(16)
  \/ "di" \in Opcodes /\ Di
  \/ "halt" \in Opcodes /\ Halt
  \/ "unimplemented" \in Opcodes /\ Exit

-----------------------------------------------------------------------------
(* execute_cpu_cycle *)

Continue ==
  /\ remaining_cycles # 0
  /\ remaining_cycles' = remaining_cycles - 1
  /\ UNCHANGED <<control, requests, exited, history>>

StaysAsleepUnlessIme == halted /\ ~(ime /\ Pending # {})

\* HALT ends with any enabled request, whether or not IME is set.
StaysAsleep == halted /\ Pending = {}

IdleUncounted == remaining_cycles' = remaining_cycles - 1

IdleOn == remaining_cycles' = 4 - 1

Idle ==
  /\ remaining_cycles = 0 /\ StaysAsleep
  /\ IdleOn
  /\ last' = "idle"
  /\ overwrote' = FALSE
  /\ UNCHANGED <<control, requests, exited, masked, redundant>>

InterruptsOnEarly == ime \/ ime_delay

InterruptsOn == ime

Awake ==
  /\ remaining_cycles = 0 /\ ~StaysAsleep
  /\ IF InterruptsOn /\ Pending # {} THEN Dispatch ELSE Instruction

Cycle == ~exited /\ (Continue \/ Idle \/ Awake)

\* The timer, the PPU and the joypad set bits of IF, the PPU up to two in one
\* tick, and never clear one.
Request ==
  /\ ~exited
  /\ \E raised \in SUBSET Sources : int_flag' = int_flag \cup raised
  /\ UNCHANGED <<control, ie_reg, remaining_cycles, exited, history>>

Next == Cycle \/ Request

\* run_frame() executes one CPU cycle after another until the program exits.
Spec == Init /\ [][Next]_cpuvars /\ WF_cpuvars(Cycle)

-----------------------------------------------------------------------------
(* Ranges; in particular remaining_cycles, which every cycle decrements,   *)
(* is never decremented below zero.                                        *)
TypeOK ==
  /\ ime \in BOOLEAN /\ ime_delay \in BOOLEAN /\ halted \in BOOLEAN
  /\ int_flag \subseteq Sources /\ ie_reg \subseteq Sources
  /\ remaining_cycles \in 0 .. MaxCost - 1
  /\ exited \in BOOLEAN /\ last \in Events /\ masked \in BOOLEAN
  /\ redundant \in BOOLEAN /\ overwrote \in BOOLEAN

StartsDispatch ==
  remaining_cycles = 0 /\ remaining_cycles' # 0 /\ last' = "dispatch"

(* "EI; RET" is never torn apart: when EI or RETI turns interrupts on, the *)
(* next instruction runs before any interrupt is taken, even one that has  *)
(* been waiting (unless the program ever ran EI with interrupts on).       *)
EiShadow ==
  [][last = "ei" /\ ~redundant => ~StartsDispatch]_cpuvars

(* From DI, or from entering a handler, to the next EI or RETI no          *)
(* interrupt is taken (with the same exception).                           *)
CriticalSections ==
  [][masked /\ ~redundant => ~StartsDispatch]_cpuvars

(* A request leaves IF only by being served, and then no request of higher *)
(* priority was waiting; or in the one step in which the program itself    *)
(* stores to IF, never while that instruction or a later one goes on.      *)
NoRequestLost ==
  [][\A i \in int_flag \ int_flag' :
        /\ remaining_cycles = 0
        /\ overwrote' \/ (StartsDispatch /\ FirstPending(i))]_cpuvars

(* A sleeping CPU goes on with the program or with a handler once an       *)
(* enabled request is there, also with IME off.                            *)
HaltWakes == last = "idle" /\ Pending # {} ~> last # "idle" \/ exited

(* V-Blank is never starved by other sources: if it stays enabled in IE    *)
(* and the program keeps turning interrupts on, every request is served.   *)
VBlankServed ==
  []~exited /\ []<>ime /\ <>[](GB_INT_VBLANK \in ie_reg)
    => (GB_INT_VBLANK \in int_flag ~> GB_INT_VBLANK \notin int_flag)

(* README.md: "the one-instruction delay after EI".  It is longer when IME *)
(* is already set: EI or RETI leave ime_delay behind, and it raises IME    *)
(* after a later DI or inside a later handler.                             *)
EiDelayIsOneInstruction == [][~ime /\ ime' => last = "ei"]_cpuvars
=============================================================================
