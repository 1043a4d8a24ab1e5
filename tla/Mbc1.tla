-------------------------------- MODULE Mbc1 --------------------------------
(* What an MBC1 promises in mode 0: two independent bank registers, a 5-bit *)
(* one that reads 1 when it is set to 0 and a 2-bit one above it.           *)
EXTENDS Naturals

CONSTANT Bytes   \* what the program may write

VARIABLES
  size,     \* 16 KiB banks of the ROM
  bank1, bank2, mapped

bankregs == <<size, bank1, bank2, mapped>>

PowerUp == bank1' = 1 /\ bank2' = 0 /\ mapped' = 1

Init == size \in Nat /\ bank1 = 1 /\ bank2 = 0 /\ mapped = 1

Mapped(low, high) == (32 * high + low) % size

SetBank1 ==
  /\ \E d \in Bytes : bank1' = IF d % 32 = 0 THEN 1 ELSE d % 32
  /\ bank2' = bank2 /\ mapped' = Mapped(bank1', bank2)

SetBank2 ==
  /\ \E d \in Bytes : bank2' = d % 4
  /\ bank1' = bank1 /\ mapped' = Mapped(bank1, bank2')

\* A write to a register it lacks re-evaluates the bank.
OtherWrite == UNCHANGED <<bank1, bank2>> /\ mapped' = Mapped(bank1, bank2)

Next ==
  /\ PowerUp \/ SetBank1 \/ SetBank2 \/ OtherWrite
  /\ UNCHANGED size

Spec == Init /\ [][Next]_bankregs
=============================================================================
