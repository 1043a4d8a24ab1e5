----------------------------- MODULE CpuProofs ------------------------------
(***************************************************************************)
(* Proofs about Cpu for every set of sources, every instruction timing and *)
(* every program the constants allow.                                      *)
(***************************************************************************)
EXTENDS Cpu, TLAPS

LEMMA StoreEffectsType ==
  ASSUME int_flag \subseteq Sources, ie_reg \subseteq Sources,
         NEW s \in StoreEffects
  PROVE  s[1] \subseteq Sources /\ s[2] \subseteq Sources
BY CpuAssumption DEF StoreEffects, requests

LEMMA InitType == Init => TypeOK
<1> SUFFICES ASSUME Init PROVE TypeOK
  OBVIOUS
<1>1. remaining_cycles \in 0 .. MaxCost - 1
  BY CpuAssumption DEF Init
<1>2. int_flag \subseteq Sources /\ ie_reg \subseteq Sources /\ last \in Events
  BY DEF Init, Events
<1> QED
  BY <1>1, <1>2 DEF Init, TypeOK

\* Every instruction and every dispatch leaves fewer cycles than MaxCost.
LEMMA CyclesPreserved ==
  ASSUME TypeOK, Cycle
  PROVE  remaining_cycles' \in 0 .. MaxCost - 1
<1> USE CpuAssumption DEF TypeOK
<1>1. CASE Continue \/ Idle
  BY <1>1 DEF Continue, Idle, IdleOn
<1>2. CASE Dispatch
  BY <1>2 DEF Dispatch
<1>3. CASE Instruction
  <2>1. CASE Plain
    BY <2>1 DEF Plain, Takes
  <2>2. CASE EnableLater(4) \/ EnableLater(16)
    BY <2>2 DEF EnableLater, Takes
  <2>3. CASE Di \/ Halt
    BY <2>3 DEF Di, Halt, Takes
  <2>4. CASE Exit
    BY <2>4 DEF Exit
  <2> QED
    BY <1>3, <2>1, <2>2, <2>3, <2>4 DEF Instruction
<1> QED
  BY <1>1, <1>2, <1>3 DEF Cycle, Awake

LEMMA RequestsPreserved ==
  ASSUME TypeOK, [Next]_cpuvars
  PROVE  int_flag' \subseteq Sources /\ ie_reg' \subseteq Sources
<1> USE DEF TypeOK
<1>1. CASE Request \/ UNCHANGED cpuvars
  BY <1>1 DEF Request, cpuvars, requests
<1>2. CASE Continue \/ Idle
  BY <1>2 DEF Continue, Idle, requests
<1>3. CASE Dispatch
  BY <1>3, StoreEffectsType DEF Dispatch, Acknowledge
<1>4. CASE Instruction
  <2>1. CASE Plain
    BY <2>1, StoreEffectsType DEF Plain
  <2>2. CASE ~Plain
    BY <1>4, <2>2 DEF Instruction, EnableLater, Di, Halt, Exit, requests
  <2> QED
    BY <2>1, <2>2
<1> QED
  BY <1>1, <1>2, <1>3, <1>4 DEF Next, Cycle, Awake

LEMMA NextType == TypeOK /\ [Next]_cpuvars => TypeOK'
<1> SUFFICES ASSUME TypeOK, [Next]_cpuvars PROVE TypeOK'
  OBVIOUS
<1>1. remaining_cycles' \in 0 .. MaxCost - 1
  <2>1. CASE Request \/ UNCHANGED cpuvars
    BY <2>1 DEF Request, cpuvars, TypeOK
  <2> QED
    BY <2>1, CyclesPreserved DEF Next
<1>2. int_flag' \subseteq Sources /\ ie_reg' \subseteq Sources
  BY RequestsPreserved
<1>3. /\ ime' \in BOOLEAN /\ ime_delay' \in BOOLEAN /\ halted' \in BOOLEAN
      /\ exited' \in BOOLEAN /\ last' \in Events /\ masked' \in BOOLEAN
      /\ redundant' \in BOOLEAN /\ overwrote' \in BOOLEAN
  <2>1. CASE Request \/ UNCHANGED cpuvars \/ Continue \/ Idle
    BY <2>1 DEF Request, cpuvars, control, history, Continue, Idle, TypeOK, Events
  <2>2. CASE Dispatch
    BY <2>2 DEF Dispatch, DisableIme, NoteStore, TypeOK, Events
  <2>3. CASE Instruction
    BY <2>3 DEF Instruction, Plain, EnableLater, Di, Halt, Exit, DisableIme,
       ImeNow, DelayNow, NoteStore, history, TypeOK, Events
  <2> QED
    BY <2>1, <2>2, <2>3 DEF Next, Cycle, Awake
<1> QED
  BY <1>1, <1>2, <1>3 DEF TypeOK

(* For every program the cycle counter is never decremented below zero.    *)
THEOREM TypeCorrect == Spec => []TypeOK
  BY InitType, NextType, PTL DEF Spec

\* Nothing that is safe needs the fairness of Spec.
Steps == Init /\ [][Next]_cpuvars
-----------------------------------------------------------------------------
\* Until the program enables interrupts a second time, ime_delay is pending
\* only while IME is off, and not at all in a masked section.
Disciplined ==
  /\ ime \in BOOLEAN /\ ime_delay \in BOOLEAN /\ redundant \in BOOLEAN
  /\ ~redundant =>
       /\ ime => ~ime_delay
       /\ last = "ei" /\ ~exited => ~ime
       /\ masked => ~ime /\ ~ime_delay

LEMMA InitDisciplined == Init => Disciplined
BY DEF Init, Disciplined

LEMMA NextDisciplined ==
  ASSUME Disciplined, [Next]_cpuvars
  PROVE  Disciplined'
<1> USE DEF Disciplined
<1>1. CASE Request \/ UNCHANGED cpuvars \/ Continue \/ Idle
  BY <1>1 DEF Request, cpuvars, control, history, Continue, Idle
<1>2. CASE InterruptsOn /\ Dispatch
  BY <1>2 DEF Dispatch, DisableIme, InterruptsOn
<1>3. CASE Plain \/ Halt
  BY <1>3 DEF Plain, Halt, ImeNow, DelayNow
<1>4. CASE EnableLater(4) \/ EnableLater(16)
  BY <1>4 DEF EnableLater, ImeNow
<1>5. CASE Di
  BY <1>5 DEF Di, DisableIme, DelayNow
<1>6. CASE Exit
  BY <1>6 DEF Exit, ImeNow, DelayNow, history
<1> QED
  BY <1>1, <1>2, <1>3, <1>4, <1>5, <1>6 DEF Next, Cycle, Awake, Instruction

\* Only the dispatch itself makes a cycle start one, and it needs IME.
LEMMA DispatchNeedsIme ==
  ASSUME Disciplined, Next, StartsDispatch
  PROVE  ime /\ ~exited
<1> USE DEF StartsDispatch
<1>1. CASE Request
  BY <1>1 DEF Request
<1>2. CASE Continue \/ Idle
  BY <1>2 DEF Continue, Idle
<1>3. CASE Instruction
  BY <1>3 DEF Instruction, Plain, EnableLater, Di, Halt, Exit
<1> QED
  BY <1>1, <1>2, <1>3 DEF Next, Cycle, Awake, InterruptsOn

LEMMA DisciplinedAlways == Steps => []Disciplined
<1>1. Disciplined /\ [Next]_cpuvars => Disciplined'
  BY NextDisciplined
<1> QED
  BY <1>1, InitDisciplined, PTL DEF Steps

LEMMA EiShadowInSteps == Steps => EiShadow
<1>1. Disciplined /\ [Next]_cpuvars =>
        [last = "ei" /\ ~redundant => ~StartsDispatch]_cpuvars
  BY DispatchNeedsIme DEF Disciplined
<1> QED
  BY <1>1, DisciplinedAlways, PTL DEF Steps, EiShadow

LEMMA CriticalSectionsInSteps == Steps => CriticalSections
<1>1. Disciplined /\ [Next]_cpuvars =>
        [masked /\ ~redundant => ~StartsDispatch]_cpuvars
  BY DispatchNeedsIme DEF Disciplined
<1> QED
  BY <1>1, DisciplinedAlways, PTL DEF Steps, CriticalSections

LEMMA RequestsInSteps == Steps => NoRequestLost
<1> DEFINE Kept == \A i \in int_flag \ int_flag' :
                     /\ remaining_cycles = 0
                     /\ overwrote' \/ (StartsDispatch /\ FirstPending(i))
<1>1. TypeOK /\ [Next]_cpuvars => [Kept]_cpuvars
  <2> SUFFICES ASSUME TypeOK, Next, NEW i \in int_flag \ int_flag'
               PROVE  /\ remaining_cycles = 0
                      /\ overwrote' \/ (StartsDispatch /\ FirstPending(i))
    OBVIOUS
  <2>1. ~Request /\ ~Continue /\ ~Idle
    BY DEF Request, Continue, Idle, requests
  <2>2. remaining_cycles = 0 /\ (Dispatch \/ Instruction)
    BY <2>1 DEF Next, Cycle, Awake
  <2>3. CASE Dispatch
    <3>1. PICK j \in Sources, stored \in StoreEffects :
            /\ FirstPending(j) /\ int_flag' = Acknowledge(stored[1], j)
            /\ NoteStore(stored[1])
      BY <2>3 DEF Dispatch
    <3>2. StartsDispatch
      BY <2>2, <2>3 DEF Dispatch, StartsDispatch
    <3>3. CASE stored[1] = int_flag
      BY <2>2, <3>1, <3>2, <3>3 DEF Acknowledge
    <3>4. CASE stored[1] # int_flag
      BY <2>2, <3>1, <3>4 DEF NoteStore
    <3> QED
      BY <3>3, <3>4
  <2>4. CASE Instruction
    <3>1. Plain
      BY <2>4 DEF Instruction, EnableLater, Di, Halt, Exit, requests
    <3> QED
      BY <2>2, <3>1 DEF Plain, NoteStore
  <2> QED
    BY <2>2, <2>3, <2>4
<1> QED
  BY <1>1, InitType, NextType, PTL DEF Steps, NoRequestLost

(* A program that does not enable interrupts twice always gets its one     *)
(* instruction after EI or RETI.                                           *)
THEOREM EiShadowKept == Spec => EiShadow
  BY EiShadowInSteps, PTL DEF Spec, Steps

(* ... and is never interrupted between DI, or the entry of a handler, and *)
(* the next EI or RETI.                                                    *)
THEOREM CriticalSectionsKept == Spec => CriticalSections
  BY CriticalSectionsInSteps, PTL DEF Spec, Steps

(* A request is taken away by being served, the pending source of the      *)
(* lowest number first, or by the program overwriting IF.                  *)
THEOREM RequestsKept == Spec => NoRequestLost
  BY RequestsInSteps, PTL DEF Spec, Steps
=============================================================================
