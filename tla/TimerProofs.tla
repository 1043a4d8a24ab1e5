---------------------------- MODULE TimerProofs -----------------------------
(***************************************************************************)
(* Proofs about Timer for every width of the counters and every set of     *)
(* values written to its registers, and the time between two overflows.    *)
(***************************************************************************)
EXTENDS TimerInterval, TLAPS

\* The counter wraps at a multiple of every period, and of the batch.
LEMMA NextBatch ==
  ASSUME NEW c \in 0 .. CycleMod - 1, c % 16 = 0
  PROVE  /\ (c + 16) % CycleMod \in 0 .. CycleMod - 1
         /\ ((c + 16) % CycleMod) % 16 = 0
         /\ (c + 16) % CycleMod = IF c + 16 = CycleMod THEN 0 ELSE c + 16
<1>1. c + 16 <= CycleMod
  BY TimerAssumption
<1>2. CASE c + 16 = CycleMod
  BY <1>2, TimerAssumption
<1>3. CASE c + 16 < CycleMod
  BY <1>3, TimerAssumption
<1> QED
  BY <1>1, <1>2, <1>3, TimerAssumption

\* No period is shorter than a batch.
LEMMA PeriodsAreBatches ==
  ASSUME NEW x \in Nat, x % 16 # 0, NEW k \in 0 .. 3
  PROVE  x % Periods[k] # 0
<1> DEFINE p == Periods[k]
           m == p \div 16
           q == x \div p
<1>1. p \in Nat \ {0} /\ p = 16 * m /\ m \in Nat
  BY TimerAssumption
<1>2. SUFFICES ASSUME x % p = 0 PROVE FALSE
  OBVIOUS
<1>3. x = p * q /\ q \in Nat
  <2> HIDE DEF p
  <2> QED
    BY <1>1, <1>2
<1>4. x = 16 * (m * q) /\ m * q \in Nat
  <2> HIDE DEF p, m, q
  <2> QED
    BY <1>1, <1>3
<1> QED
  <2> HIDE DEF m, q
  <2> QED
    BY <1>4

LEMMA InitType == Init => TypeOK
<1> SUFFICES ASSUME Init PROVE TypeOK
  OBVIOUS
<1>1. 0 \in 0 .. CycleMod - 1 /\ 0 % 16 = 0 /\ 0 \in 0 .. TimaMod - 1
  BY TimerAssumption
<1>2. tac_on \in BOOLEAN /\ int_flag \subseteq Sources
  BY DEF Init
<1>3. tac_clock \in 0 .. 3
  BY DEF Init
<1> QED
  BY <1>1, <1>2, <1>3 DEF Init, TypeOK

LEMMA NextType == TypeOK /\ [Next]_tvars => TypeOK'
<1> SUFFICES ASSUME TypeOK, [Next]_tvars PROVE TypeOK'
  OBVIOUS
<1>1. CASE UpdateTimer
  <2>1. CASE Count
    BY <1>1, <2>1 DEF UpdateTimer, Count, TypeOK
  <2>2. CASE UpdateBatch
    <3>1. StepTima => tima' \in 0 .. TimaMod - 1 /\ int_flag' \subseteq Sources
      BY TimerAssumption DEF StepTima, timer_interrupt, TypeOK
    <3>2. tima' \in 0 .. TimaMod - 1 /\ int_flag' \subseteq Sources
      BY <3>1, <2>2 DEF UpdateBatch, TypeOK
    <3>3. cycles' \in 0 .. CycleMod - 1 /\ cycles' % 16 = 0
      BY <2>2, NextBatch DEF UpdateBatch, TypeOK
    <3> QED
      BY <1>1, <2>2, <3>2, <3>3 DEF UpdateTimer, UpdateBatch, TypeOK
  <2> QED
    BY <1>1, <2>1, <2>2 DEF UpdateTimer
<1>2. CASE WriteDiv
  <2>1. cycles % 256 \in 0 .. CycleMod - 1 /\ (cycles % 256) % 16 = 0
    BY TimerAssumption DEF TypeOK
  <2> QED
    BY <1>2, <2>1 DEF WriteDiv, ClearDiv, TypeOK
<1>3. CASE WriteTima \/ WriteTma
  <2>1. tima' \in 0 .. TimaMod - 1 /\ tma' \in 0 .. TimaMod - 1
    BY <1>3, TimerAssumption DEF WriteTima, WriteTma, TypeOK
  <2>2. UNCHANGED <<cycles, cycles_since_last_update, tac_on, tac_clock, int_flag>>
    BY <1>3 DEF WriteTima, WriteTma, clock
  <2> QED
    BY <2>1, <2>2 DEF TypeOK
<1>4. CASE WriteTac \/ OthersTouchFlags
  BY <1>4, TimerAssumption DEF WriteTac, OthersTouchFlags, clock, TypeOK
<1>5. CASE UNCHANGED tvars
  BY <1>5 DEF tvars, clock, TypeOK
<1> QED
  BY <1>1, <1>2, <1>3, <1>4, <1>5 DEF Next

(* The counter is always a whole number of batches, whatever is written.   *)
THEOREM TypeCorrect == Spec => []TypeOK
  BY InitType, NextType, PTL DEF Spec

-----------------------------------------------------------------------------
(* The timer implements CycleTimer. *)

\* Inside a batch no period ends.
LEMMA CountIsTick ==
  ASSUME TypeOK, Count, UNCHANGED <<tma, tac_on, tac_clock>>
  PROVE  C!Tick
<1> DEFINE counter == cycles + cycles_since_last_update
<1>1. cycles + 16 <= CycleMod
  BY TimerAssumption DEF TypeOK
<1>2. counter' = counter + 1 /\ counter # CycleMod - 1 /\ counter' % 16 # 0
  BY <1>1, TimerAssumption DEF TypeOK, Count
<1>3. counter' \in Nat
  BY DEF TypeOK, Count
<1>4. counter' % Periods[tac_clock] # 0
  <2> HIDE DEF counter
  <2> QED
    BY <1>2, <1>3, PeriodsAreBatches DEF TypeOK
<1> QED
  BY <1>2, <1>4 DEF C!Tick, Count

\* A batch ends with the cycle that completes it.
LEMMA BatchIsTick ==
  ASSUME TypeOK, UpdateBatch, UNCHANGED <<tma, tac_on, tac_clock>>
  PROVE  C!Tick
<1> DEFINE counter == cycles + cycles_since_last_update
<1>1. counter' = cycles' /\ cycles' = (IF cycles + 16 = CycleMod THEN 0 ELSE cycles + 16)
  <2>1. cycles' \in Nat
    BY NextBatch DEF UpdateBatch, TypeOK
  <2>2. counter' = cycles'
    BY <2>1 DEF UpdateBatch
  <2> QED
    BY <2>2, NextBatch DEF UpdateBatch, TypeOK
<1>2. counter' = IF counter = CycleMod - 1 THEN 0 ELSE counter + 1
  BY <1>1, TimerAssumption DEF UpdateBatch, TypeOK
<1>4. (tac_on /\ PeriodEnds(cycles')) <=> (tac_on /\ counter' % Periods[tac_clock] = 0)
  BY <1>1 DEF PeriodEnds
<1>5. StepTima => /\ tima' = IF C!Overflows THEN tma ELSE tima + 1
                  /\ int_flag' = int_flag \cup
                       (IF C!Overflows THEN {GB_INT_TIMER} ELSE {})
  BY TimerAssumption DEF StepTima, timer_interrupt, C!Overflows, TypeOK
<1> QED
  <2>1. CASE tac_on /\ PeriodEnds(cycles')
    <3>1. tac_on /\ counter' % Periods[tac_clock] = 0
      BY <2>1, <1>4
    <3>2. StepTima
      BY <2>1 DEF UpdateBatch
    <3> QED
      BY <3>1, <3>2, <1>2, <1>5 DEF C!Tick, GB_INT_TIMER, C!GB_INT_TIMER
  <2>2. CASE ~(tac_on /\ PeriodEnds(cycles'))
    <3>1. ~(tac_on /\ counter' % Periods[tac_clock] = 0)
      BY <2>2, <1>4
    <3>2. UNCHANGED <<tima, int_flag>>
      BY <2>2 DEF UpdateBatch
    <3> QED
      BY <3>1, <3>2, <1>2 DEF C!Tick
  <2> QED
    BY <2>1, <2>2

\* Clearing DIV keeps the place inside the batch.
LEMMA WriteDivIsResetDiv ==
  ASSUME TypeOK, WriteDiv
  PROVE  C!ResetDiv
BY TimerAssumption DEF TypeOK, WriteDiv, ClearDiv, C!ResetDiv

LEMMA CycleTimerInSteps == Init /\ [][Next]_tvars => BatchingIsInvisible
<1>1. Init => C!Init
  BY DEF Init, C!Init
<1>2. TypeOK /\ [Next]_tvars => [C!Next]_(C!cvars)
  <2> SUFFICES ASSUME TypeOK, [Next]_tvars PROVE [C!Next]_(C!cvars)
    OBVIOUS
  <2>1. CASE UpdateTimer
    BY <2>1, CountIsTick, BatchIsTick DEF UpdateTimer, C!Next
  <2>2. CASE WriteDiv
    BY <2>2, WriteDivIsResetDiv DEF C!Next
  <2>3. CASE WriteTima \/ WriteTma \/ WriteTac
    BY <2>3, TimerAssumption DEF WriteTima, WriteTma, WriteTac, clock, C!Registers,
       C!Next
  <2>4. CASE OthersTouchFlags
    BY <2>4 DEF OthersTouchFlags, clock, C!Flags, C!Next
  <2>5. CASE UNCHANGED tvars
    BY <2>5 DEF tvars, clock, C!cvars
  <2> QED
    BY <2>1, <2>2, <2>3, <2>4, <2>5 DEF Next
<1> QED
  BY <1>1, <1>2, InitType, NextType, PTL DEF BatchingIsInvisible, C!Spec

(* Updating the counter in batches of 16 cycles cannot be told from        *)
(* updating it in every cycle.                                             *)
THEOREM TimerImplementsCycleTimer == Spec => BatchingIsInvisible
  BY CycleTimerInSteps, PTL DEF Spec

-----------------------------------------------------------------------------
(* The time between two overflows. *)

LEMMA Multiples ==
  ASSUME NEW p \in Nat \ {0}, NEW d \in Int, d # 0
  PROVE  p * d >= p \/ p * d <= -p
<1>1. CASE d >= 1
  BY <1>1
<1>2. CASE d <= -1
  BY <1>2
<1> QED BY <1>1, <1>2

Splits(x, p, q, r) == q \in Nat /\ r \in 0 .. p - 1 /\ x = p * q + r

LEMMA Parts ==
  ASSUME NEW x \in Nat, NEW p \in Nat \ {0}
  PROVE  Splits(x, p, x \div p, x % p)
BY DEF Splits

LEMMA Remainder ==
  ASSUME NEW p \in Nat \ {0}, NEW x \in Nat, NEW q, NEW r, Splits(x, p, q, r)
  PROVE  x % p = r
<1>1. PICK e, s : Splits(x, p, e, s) /\ s = x % p
  BY Parts, Zenon
<1>2. /\ q \in Nat /\ r \in 0 .. p - 1 /\ x = p * q + r
      /\ e \in Nat /\ s \in 0 .. p - 1 /\ x = p * e + s
  BY <1>1, Zenon DEF Splits
<1>3. PICK d \in Int : d = q - e /\ p * d = s - r
  <2>1. p * (q - e) = p * q - p * e
    BY <1>2
  <2>2. p * q \in Int /\ p * e \in Int
    BY <1>2
  <2> QED BY <1>2, <2>1, <2>2
<1>4. d = 0
  <2>1. d # 0 => p * d >= p \/ p * d <= -p
    BY Multiples
  <2> QED BY <1>2, <1>3, <2>1
<1>5. q = e
  BY <1>2, <1>3, <1>4
<1>6. PICK y \in Int : y = p * q
  BY <1>2
<1> QED BY <1>1, <1>2, <1>5, <1>6

(* The place in the period advances with the counter, across its wrap too. *)
LEMMA PhaseMoves ==
  ASSUME NEW c \in 0 .. CycleMod - 1, c % 16 = 0, NEW k \in 0 .. 3
  PROVE  LET n == (c + 16) % CycleMod
             p == Periods[k]
         IN  /\ c % p \in 0 .. p - 1
             /\ IF n % p = 0 THEN (c % p) + 16 = p ELSE n % p = (c % p) + 16
<1>1. PICK p \in Nat \ {0} : p = Periods[k] /\ p % 16 = 0 /\ CycleMod % p = 0
  BY TimerAssumption, WrapAssumption
<1>2. PICK m \in Nat : p = 16 * m
  <2>1. p \in Nat /\ 16 \in Nat \ {0}
    OBVIOUS
  <2>2. Splits(p, 16, p \div 16, p % 16)
    BY <2>1, Parts, Zenon
  <2> QED BY <1>1, <2>2 DEF Splits
<1>3. PICK q, r : Splits(c, p, q, r) /\ r = c % p
  <2>0. c \in Nat
    OBVIOUS
  <2>1. Splits(c, p, c \div p, c % p)
    BY <2>0, Parts, Zenon
  <2> QED BY <2>1, Zenon
<1>4. q \in Nat /\ r \in 0 .. p - 1 /\ c = p * q + r
  BY <1>3, Zenon DEF Splits
<1>5. PICK e \in Int : r = 16 * e
  <2>1. PICK d \in Nat : c = 16 * d
    BY Parts DEF Splits
  <2>2. PICK mq \in Nat : mq = m * q
    BY <1>4
  <2>3. p * q = 16 * mq
    BY <1>2, <1>4, <2>2
  <2>4. r = 16 * (d - mq)
    BY <1>4, <2>1, <2>3
  <2> QED BY <2>4
<1>6. r + 16 <= p
  BY <1>2, <1>4, <1>5
<1>7. PICK n \in Nat : n = (c + 16) % CycleMod /\ n = IF c + 16 = CycleMod THEN 0 ELSE c + 16
  BY NextBatch
<1>8. CASE r + 16 = p
  <2>1. p * (q + 1) = p * q + p /\ p * 0 = 0
    BY <1>4
  <2>2. PICK y \in Nat : y = p * q
    BY <1>4
  <2>3. c + 16 = p * (q + 1) + 0 /\ 0 = p * 0 + 0
    BY <1>4, <1>8, <2>1, <2>2
  <2>4. Splits(c + 16, p, q + 1, 0) /\ Splits(0, p, 0, 0)
    BY <1>4, <2>3 DEF Splits
  <2>5. (c + 16) % p = 0 /\ 0 % p = 0
    <3>1. c + 16 \in Nat /\ 0 \in Nat
      OBVIOUS
    <3> QED BY <2>4, <3>1, Remainder, Zenon
  <2> QED BY <1>1, <1>3, <1>4, <1>7, <1>8, <2>5
<1>9. CASE r + 16 < p
  <2>1. r + 16 \in 0 .. p - 1 /\ r + 16 # 0
    BY <1>4, <1>9
  <2>2. PICK y \in Nat : y = p * q
    BY <1>4
  <2>3. c + 16 = p * q + (r + 16)
    BY <1>4, <2>2
  <2>4. Splits(c + 16, p, q, r + 16)
    BY <1>4, <2>1, <2>3, Zenon DEF Splits
  <2>5. (c + 16) % p = r + 16
    <3>1. c + 16 \in Nat
      OBVIOUS
    <3> QED BY <2>4, <3>1, Remainder, Zenon
  <2>6. c + 16 # CycleMod
    BY <1>1, <2>1, <2>5
  <2> QED BY <1>1, <1>3, <1>4, <1>7, <2>1, <2>5, <2>6
<1> QED BY <1>4, <1>6, <1>8, <1>9

(* Since an overflow, TIMA has counted whole periods from TMA, and the     *)
(* counter is in the middle of the next one.                               *)
Elapsed ==
  since >= 0 =>
    /\ tac_on /\ tma <= tima
    /\ since = (tima - tma) * Periods[tac_clock] + (cycles % Periods[tac_clock])
                 + cycles_since_last_update

IntervalInv == TypeOK /\ since \in Int /\ Elapsed

LEMMA IntervalInit == HInit => IntervalInv
<1>1. HInit => TypeOK /\ since = -1
  BY InitType DEF HInit
<1> QED BY <1>1 DEF IntervalInv, Elapsed

LEMMA OneMore ==
  ASSUME NEW n \in Nat, NEW p \in Nat
  PROVE  (n + 1) * p = n * p + p
OBVIOUS

\* A batch that ends a period.
LEMMA BatchElapses ==
  ASSUME IntervalInv, UpdateBatch, UNCHANGED <<tma, tac_on, tac_clock>>, since >= 0
  PROVE  LET p == Periods[tac_clock] IN
         /\ PeriodEnds(cycles') => /\ cycles' % p = 0
                                   /\ since + 1 = ((tima + 1) - tma) * p
         /\ ~PeriodEnds(cycles') => since + 1 = (tima - tma) * p + (cycles' % p)
<1>1. PICK p \in Nat \ {0} : p = Periods[tac_clock]
  BY TimerAssumption DEF IntervalInv, TypeOK
<1>2. PICK r \in 0 .. p - 1, s \in Int :
        /\ r = cycles % p /\ s = cycles' % p
        /\ IF s = 0 THEN r + 16 = p ELSE s = r + 16
  <2>1. cycles \in 0 .. CycleMod - 1 /\ cycles % 16 = 0 /\ tac_clock \in 0 .. 3
    BY DEF IntervalInv, TypeOK
  <2>2. cycles' = (cycles + 16) % CycleMod
    BY DEF UpdateBatch
  <2> QED BY <1>1, <2>1, <2>2, PhaseMoves
<1>3. PICK n \in Nat : n = tima - tma /\ (tima + 1) - tma = n + 1
  BY TimerAssumption DEF IntervalInv, Elapsed, TypeOK
<1>4. since = n * p + r + 15
  BY <1>1, <1>2, <1>3 DEF IntervalInv, Elapsed, UpdateBatch
<1>5. n * p \in Nat /\ (n + 1) * p = n * p + p
  BY OneMore
<1>6. PeriodEnds(cycles') <=> s = 0
  BY <1>1, <1>2 DEF PeriodEnds
<1> QED BY <1>1, <1>2, <1>3, <1>4, <1>5, <1>6

LEMMA IntervalNext == IntervalInv /\ [HNext]_hvars => IntervalInv'
<1> SUFFICES ASSUME IntervalInv, [HNext]_hvars PROVE IntervalInv'
  OBVIOUS
<1> USE DEF IntervalInv
<1>1. TypeOK'
  <2>1. [Next]_tvars
    BY DEF HNext, Counts, Next, hvars
  <2> QED BY <2>1, NextType
<1>2. CASE Counts
  <2>1. since' \in Int
    BY <1>2 DEF Counts
  <2>2. CASE Overflow
    <3>1. UpdateBatch /\ UNCHANGED <<tma, tac_on, tac_clock>>
      BY <1>2, <2>2 DEF Counts, UpdateTimer, Count, Overflow
    <3>2. PeriodEnds(cycles') /\ tima' = tma /\ since' = 0 /\ cycles_since_last_update' = 0
      BY <1>2, <2>2, <3>1 DEF Counts, Overflow, UpdateBatch, StepTima
    <3>3. PICK p \in Nat \ {0} : p = Periods[tac_clock]
      BY TimerAssumption DEF TypeOK
    <3>4. tma \in Int /\ (tma - tma) * p = 0 /\ cycles' % p = 0
      BY <3>2, <3>3, TimerAssumption DEF TypeOK, PeriodEnds
    <3>5. Elapsed'
      BY <2>2, <3>1, <3>2, <3>3, <3>4 DEF Elapsed, Overflow
    <3> QED BY <1>1, <2>1, <3>5
  <2>3. CASE ~Overflow /\ since < 0
    BY <1>1, <1>2, <2>1, <2>3 DEF Counts, Elapsed
  <2>4. CASE ~Overflow /\ since >= 0
    <3>1. since' = since + 1 /\ UNCHANGED <<tma, tac_on, tac_clock>> /\ tac_on /\ tma <= tima
      BY <1>2, <2>4 DEF Counts, UpdateTimer, Elapsed
    <3>0. /\ tima \in Int /\ tma \in Int /\ Periods[tac_clock] \in Nat \ {0} /\ cycles \in Nat
          /\ cycles_since_last_update \in Int
      BY TimerAssumption DEF TypeOK
    <3>2. CASE Count
      <4>1. UNCHANGED <<tima, cycles>> /\ cycles_since_last_update' = cycles_since_last_update + 1
        BY <3>2 DEF Count
      <4>2. PICK n \in Int : n = (tima - tma) * Periods[tac_clock] + (cycles % Periods[tac_clock])
        BY <3>0
      <4>3. since + 1 = n + (cycles_since_last_update + 1)
        BY <2>4, <4>2, <3>0 DEF Elapsed
      <4>4. Elapsed'
        BY <3>1, <4>1, <4>2, <4>3 DEF Elapsed
      <4> QED BY <1>1, <2>1, <4>4
    <3>3. CASE UpdateBatch /\ PeriodEnds(cycles')
      <4>1. /\ cycles' % Periods[tac_clock] = 0
            /\ since + 1 = ((tima + 1) - tma) * Periods[tac_clock]
        BY <2>4, <3>1, <3>3, BatchElapses
      <4>2. tima' = tima + 1 /\ cycles_since_last_update' = 0
        BY <2>4, <3>1, <3>3 DEF UpdateBatch, StepTima, Overflow
      <4>3. PICK n \in Int : n = ((tima + 1) - tma) * Periods[tac_clock]
        BY <3>0
      <4>4. n = n + 0 + 0 /\ tma <= tima + 1
        BY <3>0, <3>1
      <4>5. since' = n + (cycles' % Periods[tac_clock]) + cycles_since_last_update'
        BY <3>1, <4>1, <4>2, <4>3, <4>4, Zenon
      <4>6. /\ tac_on' /\ tma' <= tima' /\ tac_clock' = tac_clock
            /\ tima' - tma' = (tima + 1) - tma
        BY <3>1, <4>2, <4>4
      <4>7. Elapsed'
        BY <4>3, <4>5, <4>6, Zenon DEF Elapsed
      <4> QED BY <1>1, <2>1, <4>7
    <3>4. CASE UpdateBatch /\ ~PeriodEnds(cycles')
      <4>1. since + 1 = (tima - tma) * Periods[tac_clock] + (cycles' % Periods[tac_clock])
        BY <2>4, <3>1, <3>4, BatchElapses
      <4>2. tima' = tima /\ cycles_since_last_update' = 0
        BY <3>4 DEF UpdateBatch
      <4>3. PICK n \in Int : n = (tima - tma) * Periods[tac_clock] + (cycles' % Periods[tac_clock])
        BY <2>1, <3>1, <4>1
      <4>4. n = n + 0
        OBVIOUS
      <4>5. Elapsed'
        BY <3>1, <4>1, <4>2, <4>3, <4>4 DEF Elapsed
      <4> QED BY <1>1, <2>1, <4>5
    <3> QED BY <1>2, <3>2, <3>3, <3>4 DEF Counts, UpdateTimer
  <2> QED BY <2>2, <2>3, <2>4
<1>3. CASE (WriteDiv \/ WriteTima \/ WriteTma \/ WriteTac) /\ since' = -1
  BY <1>1, <1>3 DEF Elapsed
<1>4. CASE OthersTouchFlags /\ UNCHANGED since
  BY <1>1, <1>4 DEF Elapsed, OthersTouchFlags, clock
<1>5. CASE UNCHANGED hvars
  BY <1>1, <1>5 DEF Elapsed, hvars, tvars, clock
<1> QED BY <1>2, <1>3, <1>4, <1>5 DEF HNext

(* An overflow comes TMA short of TIMA's range, in whole periods, after    *)
(* the one before it, unless the program wrote to the timer in between.    *)
THEOREM OverflowsAreExact == HSpec => ExactInterval
<1> DEFINE Exactly ==
      UpdateTimer /\ Overflow /\ since >= 0
        => since + 1 = (TimaMod - tma) * Periods[tac_clock]
<1>1. IntervalInv /\ [HNext]_hvars => [Exactly]_hvars
  <2> SUFFICES ASSUME IntervalInv, UpdateTimer, Overflow, since >= 0
               PROVE  since + 1 = (TimaMod - tma) * Periods[tac_clock]
    OBVIOUS
  <2>1. UpdateBatch /\ UNCHANGED <<tma, tac_on, tac_clock>>
    BY DEF UpdateTimer, Count, Overflow
  <2>2. PeriodEnds(cycles') /\ tima + 1 = TimaMod
    BY <2>1 DEF Overflow, UpdateBatch
  <2>3. since + 1 = ((tima + 1) - tma) * Periods[tac_clock]
    BY <2>1, <2>2, BatchElapses
  <2>4. (tima + 1) - tma = TimaMod - tma
    BY <2>2, Zenon
  <2> QED BY <2>3, <2>4, Zenon
<1>2. HSpec => []IntervalInv
  BY IntervalInit, IntervalNext, PTL DEF HSpec
<1>3. HSpec => [][Exactly]_hvars
  <2> HIDE DEF Exactly
  <2> QED BY <1>1, <1>2, PTL DEF HSpec
<1> QED BY <1>3 DEF ExactInterval
=============================================================================
