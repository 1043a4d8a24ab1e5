-------------------------------- MODULE Alu ---------------------------------
(***************************************************************************)
(* What the instructions of instructions.c do to the accumulator and to    *)
(* the flags.  The program is an arbitrary sequence of instructions.       *)
(*                                                                         *)
(* Of the registers only A and F are kept.  Any other register, the byte   *)
(* at (HL) and an immediate operand may hold any value of Operands, a      *)
(* register pair any value of Words: the functions named after a register  *)
(* only pass its value to one of the functions below.                      *)
(***************************************************************************)
EXTENDS Integers

CONSTANTS
  Operands,        \* the bytes that A is loaded with or combined with
  Words,           \* the contents of register pairs
  Displacements,   \* the operands r8 of ADD SP,r8 and LD HL,SP+r8
  MaxSteps         \* bound: instructions a calculation is followed for

IsByte(v) == v \in Nat /\ v < 256
IsWord(w) == w \in Nat /\ w < 65536
IsDisplacement(d) == d \in Int /\ -128 <= d /\ d < 128

ASSUME AluAssumption ==
  /\ \A v \in Operands : IsByte(v)
  /\ \A w \in Words : IsWord(w)
  /\ \A d \in Displacements : IsDisplacement(d)
  /\ MaxSteps \in Nat \ {0}

VARIABLES
  A, f,   \* the accumulator; the flags z, n, h and c, each 0 or 1
  last,   \* history: the ADD, ADC, SUB or SBC whose A and F are still there
  wide,   \* history: the calculation on bytes that the carry belongs to
  tens    \* history: the calculation on decimal digits it belongs to

avars == <<A, f, last, wide, tens>>

Bit(condition) == IF condition THEN 1 ELSE 0

\* An 8-bit result, and the flags that go with it.
Out(val, n, h, c) ==
  [val |-> val, f |-> [z |-> Bit(val = 0), n |-> n, h |-> h, c |-> c]]
-----------------------------------------------------------------------------
(* ADD, ADC, SUB, SBC and CP, with the forms whose operand is A itself.    *)

add_a_n(a, v) ==
  Out((a + v) % 256, 0, Bit((a % 16) + (v % 16) > 15), Bit(a + v > 255))

add_a_a(a) == Out((2 * a) % 256, 0, Bit(2 * (a % 16) > 15), Bit(2 * a > 255))

adc_a_n(a, v, c) ==
  Out((a + v + c) % 256, 0, Bit((a % 16) + (v % 16) + c > 15), Bit(a + v + c > 255))

adc_a_a(a, c) ==
  Out((2 * a + c) % 256, 0, Bit(2 * (a % 16) + c > 15), Bit(2 * a + c > 255))

sub_n(a, v) == Out((a - v) % 256, 1, Bit(v % 16 > a % 16), Bit(v > a))

sub_a(a) == Out(0, 1, 0, 0)

\* Adds the new carry.
sbc_a_n_late(a, v, c) ==
  Out((a - (v + Bit(v + c > a))) % 256, 1, Bit((v % 16) + c > a % 16), Bit(v + c > a))

\* The operand is added to the old carry, not to the new one.
sbc_a_n(a, v, c) ==
  Out((a - (v + c)) % 256, 1, Bit((v % 16) + c > a % 16), Bit(v + c > a))

\* H as after SUB A.
sbc_a_a_no_half(a, c) ==
  LET carry == Bit(a + c > a) IN Out((-carry) % 256, 1, 0, carry)

\* Here it is the new carry that is negated.
sbc_a_a(a, c) == LET carry == Bit(a + c > a) IN Out((-carry) % 256, 1, c, carry)

cp_n(a, v) ==
  [val |-> a, f |-> [z |-> Bit(v = a), n |-> 1, h |-> Bit(v % 16 > a % 16), c |-> Bit(v > a)]]

cp_a(a) == [val |-> a, f |-> [z |-> 1, n |-> 1, h |-> 0, c |-> 0]]
-----------------------------------------------------------------------------
(* Logic. *)

BitNumbers == {0, 1, 2, 3, 4, 5, 6, 7}

Weight == <<1, 2, 4, 8, 16, 32, 64, 128>>

Bits(v) == {i \in BitNumbers : (v \div Weight[i + 1]) % 2 = 1}

Num(s) ==
  Bit(0 \in s) + 2 * Bit(1 \in s) + 4 * Bit(2 \in s) + 8 * Bit(3 \in s)
    + 16 * Bit(4 \in s) + 32 * Bit(5 \in s) + 64 * Bit(6 \in s) + 128 * Bit(7 \in s)

and_n(a, v) == Out(Num(Bits(a) \cap Bits(v)), 0, 1, 0)
and_a(a)    == Out(a, 0, 1, 0)
or_n(a, v)  == Out(Num(Bits(a) \cup Bits(v)), 0, 0, 0)
or_a(a)     == Out(a, 0, 0, 0)
xor_n(a, v) == Out(Num((Bits(a) \cup Bits(v)) \ (Bits(a) \cap Bits(v))), 0, 0, 0)
xor_a(a)    == Out(0, 0, 0, 0)

bit_n(g, b, v) == [z |-> Bit(b \notin Bits(v)), n |-> 0, h |-> 1, c |-> g.c]
res_n(b, v)    == Num(Bits(v) \ {b})
set_n(b, v)    == Num(Bits(v) \cup {b})
-----------------------------------------------------------------------------
(* INC, DEC and the rotates, which work on a register or on (HL).          *)

inc_n(v, c) == Out((v + 1) % 256, 0, Bit((v % 16) + 1 > 15), c)
dec_n(v, c) == Out((v - 1) % 256, 1, Bit(1 > v % 16), c)

rlc_n(v)   == Out(((2 * v) % 256) + (v \div 128), 0, 0, v \div 128)
rrc_n(v)   == Out((v \div 2) + 128 * (v % 2), 0, 0, v % 2)
rl_n(v, c) == Out(((2 * v) % 256) + c, 0, 0, v \div 128)
rr_n(v, c) == Out((v \div 2) + 128 * c, 0, 0, v % 2)
sla_n(v)   == Out((2 * v) % 256, 0, 0, v \div 128)
sra_n(v)   == Out((v \div 2) + 128 * (v \div 128), 0, 0, v % 2)
srl_n(v)   == Out(v \div 2, 0, 0, v % 2)
swap_n(v)  == Out(((16 * v) % 256) + (v \div 16), 0, 0, 0)

\* RLCA, RRCA, RLA and RRA always clear Z.
ClearZ(out) == [val |-> out.val, f |-> [z |-> 0, n |-> out.f.n, h |-> out.f.h, c |-> out.f.c]]
-----------------------------------------------------------------------------
(* DAA, and 16-bit sums. *)

\* Looks only at the upper digit to find that it is too large.
daa_upper_digit(a, g) ==
  LET over   == g.c = 1 \/ a > 159
      high   == IF over THEN (a + 96) % 256 ELSE a
      added  == IF g.h = 1 \/ high % 16 > 9 THEN (high + 6) % 256 ELSE high
      borrow == IF g.c = 1 THEN (a - 96) % 256 ELSE a
      taken  == IF g.h = 1 THEN (borrow - 6) % 256 ELSE borrow
  IN  IF g.n = 0 THEN Out(added, 0, 0, Bit(over)) ELSE Out(taken, g.n, 0, g.c)

daa(a, g) ==
  LET over   == g.c = 1 \/ a > 153
      high   == IF over THEN (a + 96) % 256 ELSE a
      added  == IF g.h = 1 \/ high % 16 > 9 THEN (high + 6) % 256 ELSE high
      borrow == IF g.c = 1 THEN (a - 96) % 256 ELSE a
      taken  == IF g.h = 1 THEN (borrow - 6) % 256 ELSE borrow
  IN  IF g.n = 0 THEN Out(added, 0, 0, Bit(over)) ELSE Out(taken, g.n, 0, g.c)

add_hl(g, hl, rr) ==
  [val |-> (hl + rr) % 65536,
   f   |-> [z |-> g.z, n |-> 0, h |-> Bit((hl % 4096) + (rr % 4096) > 4095),
            c |-> Bit(hl + rr > 65535)]]

\* ADD SP,r8 and LD HL,SP+r8.  A negative r8 is not split into its digits:
\* the carries are read off the sum.
sp_plus_r8(sp, r8) ==
  LET sum == (sp + r8) % 65536 IN
  [val |-> sum,
   f   |-> [z |-> 0, n |-> 0,
            h |-> IF r8 >= 0 THEN Bit((sp % 16) + (r8 % 16) > 15)
                             ELSE Bit(sum % 16 <= sp % 16),
            c |-> IF r8 >= 0 THEN Bit((sp % 256) + r8 > 255)
                             ELSE Bit(sum % 256 <= sp % 256)]]

\* F is the lower byte of AF, and its lower four bits are always 0.
AF == 256 * A + 128 * f.z + 64 * f.n + 32 * f.h + 16 * f.c

pop_af(w) ==
  [val |-> w \div 256,
   f   |-> [z |-> (w \div 128) % 2, n |-> (w \div 64) % 2,
            h |-> (w \div 32) % 2, c |-> (w \div 16) % 2]]
-----------------------------------------------------------------------------
(* History: calculations with numbers of several bytes, or several pairs   *)
(* of decimal digits, that a program does one place after the other with   *)
(* the carry linking them.                                                 *)

NoLast == [op |-> "none", a |-> 0, v |-> 0, c |-> 0, first |-> FALSE]

NoSum == [op |-> "none", left |-> 0, right |-> 0, result |-> 0, weight |-> 0,
          steps |-> 0, others |-> 0]

\* "others" counts results that are not decimal digits.  Only a value of
\* Operands in A begins a place; this bounds the history.
First(op, base, l, r, res, other) ==
  [op |-> op, left |-> l, right |-> r, result |-> res, weight |-> base,
   steps |-> 1, others |-> other]

More(s, op, base, l, r, res, other) ==
  IF s.op = op /\ s.steps < MaxSteps
    THEN [op |-> op, left |-> s.left + l * s.weight, right |-> s.right + r * s.weight,
          result |-> s.result + res * s.weight, weight |-> s.weight * base,
          steps |-> s.steps + 1, others |-> s.others + other]
    ELSE NoSum

Tracked(l, s) == IF l \in Operands THEN s ELSE NoSum

BCD(b) == b % 16 <= 9 /\ b \div 16 <= 9

Decimal(b) == 10 * (b \div 16) + (b % 16)

\* The carry changes, or A does: no calculation is followed any further.
EndAll == last' = NoLast /\ wide' = NoSum /\ tens' = NoSum

\* The carry stays, but A, N or H may change: too late for DAA.
TooLateForDaa ==
  /\ last' = NoLast
  /\ tens' = IF last.op = "none" THEN tens ELSE NoSum
-----------------------------------------------------------------------------
(* post-boot: A = 0x01, F = 0xB0 (init_cpu). *)
Init ==
  /\ A = 1 /\ f = [z |-> 1, n |-> 0, h |-> 1, c |-> 1]
  /\ last = NoLast /\ wide = NoSum /\ tens = NoSum

Becomes(out) == A' = out.val /\ f' = out.f

\* ADD and SUB begin a calculation on v, ADC and SBC continue one.
Begin(op, v, out) ==
  /\ Becomes(out)
  /\ last' = [op |-> op, a |-> A, v |-> v, c |-> 0, first |-> TRUE]
  /\ wide' = Tracked(A, First(op, 256, A, v, out.val, 0))
  /\ tens' = NoSum

Continue(op, v, out) ==
  /\ Becomes(out)
  /\ last' = [op |-> op, a |-> A, v |-> v, c |-> f.c, first |-> FALSE]
  /\ wide' = Tracked(A, More(wide, op, 256, A, v, out.val, 0))
  /\ tens' = IF last.op = "none" /\ tens.op = op THEN tens ELSE NoSum

Add == \/ \E v \in Operands : Begin("add", v, add_a_n(A, v))
       \/ Begin("add", A, add_a_a(A))

Adc == \/ \E v \in Operands : Continue("add", v, adc_a_n(A, v, f.c))
       \/ Continue("add", A, adc_a_a(A, f.c))

Sub == \/ \E v \in Operands : Begin("sub", v, sub_n(A, v))
       \/ Begin("sub", A, sub_a(A))

Sbc == \/ \E v \in Operands : Continue("sub", v, sbc_a_n(A, v, f.c))
       \/ Continue("sub", A, sbc_a_a(A, f.c))

\* CP, AND, OR and XOR.
Compare ==
  /\ \/ \E v \in Operands : Becomes(cp_n(A, v))
     \/ Becomes(cp_a(A))
  /\ EndAll

Logic ==
  /\ \/ \E v \in Operands : Becomes(and_n(A, v)) \/ Becomes(or_n(A, v)) \/ Becomes(xor_n(A, v))
     \/ Becomes(and_a(A)) \/ Becomes(or_a(A)) \/ Becomes(xor_a(A))
  /\ EndAll

AdjustDecimal(out) ==
  /\ Becomes(out)
  /\ tens' =
       IF last.op # "none" /\ BCD(last.a) /\ BCD(last.v) /\ last.a \in Operands
         THEN LET l == Decimal(last.a)  r == Decimal(last.v)  res == Decimal(out.val)
              IN  IF last.first THEN First(last.op, 100, l, r, res, Bit(~BCD(out.val)))
                                ELSE More(tens, last.op, 100, l, r, res, Bit(~BCD(out.val)))
         ELSE NoSum
  /\ last' = NoLast /\ wide' = NoSum

Daa == AdjustDecimal(daa(A, f))
-----------------------------------------------------------------------------
\* SCF, CCF and CPL.
Scf == UNCHANGED A /\ f' = [z |-> f.z, n |-> 0, h |-> 0, c |-> 1] /\ EndAll

Ccf == UNCHANGED A /\ f' = [z |-> f.z, n |-> 0, h |-> 0, c |-> 1 - f.c] /\ EndAll

Cpl == A' = 255 - A /\ f' = [z |-> f.z, n |-> 1, h |-> 1, c |-> f.c] /\ EndAll

\* An instruction that works on A, or on another register or on (HL), whose
\* contents do not matter here afterwards.
Elsewhere(out) == UNCHANGED A /\ f' = out.f

\* Counting in another register goes on between the places of a number.
Count ==
  \/ /\ \E v \in Operands : Elsewhere(inc_n(v, f.c)) \/ Elsewhere(dec_n(v, f.c))
     /\ TooLateForDaa /\ UNCHANGED wide
  \/ /\ Becomes(inc_n(A, f.c)) \/ Becomes(dec_n(A, f.c))
     /\ EndAll

BitTest ==
  /\ \E b \in BitNumbers, v \in Operands \cup {A} : f' = bit_n(f, b, v)
  /\ UNCHANGED <<A, wide>> /\ TooLateForDaa

ResSet ==
  /\ \E b \in BitNumbers : A' = res_n(b, A) \/ A' = set_n(b, A)
  /\ UNCHANGED f /\ EndAll

\* LD and POP into A leave the flags alone.
Load ==
  /\ A' \in Operands
  /\ UNCHANGED <<f, wide>> /\ TooLateForDaa
-----------------------------------------------------------------------------
(* Shifts of a number: to the left from its lowest byte with SLA and RL,   *)
(* which doubles it; to the right from its highest byte with SRL and RR.   *)

Halved(left, result, steps) ==
  [op |-> "half", left |-> left, right |-> 0, result |-> result, weight |-> 0,
   steps |-> steps, others |-> 0]

Half(v, out) == Halved(v, out.val, 1)

HalfOn(v, out) ==
  IF wide.op = "half" /\ wide.steps < MaxSteps
    THEN Halved(256 * wide.left + v, 256 * wide.result + out.val, wide.steps + 1)
    ELSE NoSum

Shift(v, calculation) ==
  wide' = Tracked(v, calculation) /\ last' = NoLast /\ tens' = NoSum

OnAny(v, out) == Elsewhere(out) \/ (v = A /\ Becomes(out))

Doubling(v, out) == More(wide, "add", 256, v, v, out.val, 0)

Shifts ==
  \E v \in Operands \cup {A} :
    \/ OnAny(v, sla_n(v)) /\ Shift(v, First("add", 256, v, v, sla_n(v).val, 0))
    \/ OnAny(v, rl_n(v, f.c)) /\ Shift(v, Doubling(v, rl_n(v, f.c)))
    \/ OnAny(v, srl_n(v)) /\ Shift(v, Half(v, srl_n(v)))
    \/ OnAny(v, rr_n(v, f.c)) /\ Shift(v, HalfOn(v, rr_n(v, f.c)))
    \/ \E out \in {rlc_n(v), rrc_n(v), sra_n(v), swap_n(v)} :
         OnAny(v, out) /\ Shift(v, NoSum)

\* RLCA, RRCA, RLA and RRA.
RotateA ==
  \/ Becomes(ClearZ(rl_n(A, f.c))) /\ Shift(A, Doubling(A, rl_n(A, f.c)))
  \/ Becomes(ClearZ(rr_n(A, f.c))) /\ Shift(A, HalfOn(A, rr_n(A, f.c)))
  \/ \E out \in {rlc_n(A), rrc_n(A)} : Becomes(ClearZ(out)) /\ Shift(A, NoSum)
-----------------------------------------------------------------------------
(* ADD HL,rr is the sum of two places at once.  The carry of ADD SP,r8 and *)
(* of LD HL,SP+r8 is that of the lower byte.                               *)

AddHl ==
  /\ \E hl \in Words, rr \in Words :
       /\ Elsewhere(add_hl(f, hl, rr))
       /\ wide' = First("add", 65536, hl, rr, add_hl(f, hl, rr).val, 0)
  /\ last' = NoLast /\ tens' = NoSum

SpPlus ==
  /\ \E sp \in Words, r8 \in Displacements :
       /\ Elsewhere(sp_plus_r8(sp, r8))
       /\ wide' = First("add", 256, sp % 256, r8 % 256, sp_plus_r8(sp, r8).val % 256, 0)
  /\ last' = NoLast /\ tens' = NoSum

\* Between two instructions a handler runs that saves AF and restores it.
Handler == Becomes(pop_af(AF)) /\ UNCHANGED <<last, wide, tens>>

PopAf == \E w \in Words : Becomes(pop_af(w)) /\ EndAll

Next ==
  \/ Add \/ Adc \/ Sub \/ Sbc \/ Compare \/ Logic \/ Daa
  \/ Scf \/ Ccf \/ Cpl \/ Count \/ BitTest \/ ResSet \/ Load
  \/ Shifts \/ RotateA \/ AddHl \/ SpPlus \/ Handler \/ PopAf

Spec == Init /\ [][Next]_avars
-----------------------------------------------------------------------------
IsBit(b) == b = 0 \/ b = 1

(* A stays a byte and a flag a bit, whatever is done with the carry. *)
TypeOK ==
  /\ IsByte(A)
  /\ IsBit(f.z) /\ IsBit(f.n) /\ IsBit(f.h) /\ IsBit(f.c)
  /\ f = [z |-> f.z, n |-> f.n, h |-> f.h, c |-> f.c]

Exact(s, c) ==
  /\ s.op = "add"  => s.left + s.right = s.result + c * s.weight
  /\ s.op = "sub"  => s.left + c * s.weight = s.right + s.result
  /\ s.op = "half" => s.left = 2 * s.result + c

(* ADD then ADC, SUB then SBC, SLA then RL, SRL then RR, and ADD HL then   *)
(* ADC compute with numbers of several bytes: the bytes left behind and    *)
(* the last carry are the exact result, also when the program loads, tests *)
(* bits, counts in another register or is interrupted in between.          *)
WideArithmetic == Exact(wide, f.c)

(* The same with DAA after every ADD, ADC, SUB or SBC is arithmetic on     *)
(* packed decimal numbers, and leaves nothing but decimal digits behind.   *)
DecimalArithmetic ==
  last.op = "none" => Exact(tens, f.c) /\ tens.others = 0

(* The functions written out for an operand that is A itself do what the   *)
(* general ones do, and CP leaves the flags SUB leaves.                    *)
OwnOperand ==
  /\ add_a_a(A) = add_a_n(A, A) /\ adc_a_a(A, f.c) = adc_a_n(A, A, f.c)
  /\ sub_a(A) = sub_n(A, A) /\ sbc_a_a(A, f.c) = sbc_a_n(A, A, f.c)
  /\ and_a(A) = and_n(A, A) /\ or_a(A) = or_n(A, A) /\ xor_a(A) = xor_n(A, A)
  /\ cp_a(A) = cp_n(A, A)
  /\ \A v \in Operands : cp_n(A, v).f = sub_n(A, v).f

(* RL and RR go through the carry and undo each other, RLC and RRC do so   *)
(* without it, and SWAP undoes itself.                                     *)
RotatesUndo ==
  /\ LET out == rl_n(A, f.c) IN
       LET back == rr_n(out.val, out.f.c) IN back.val = A /\ back.f.c = f.c
  /\ LET out == rr_n(A, f.c) IN
       LET back == rl_n(out.val, out.f.c) IN back.val = A /\ back.f.c = f.c
  /\ rrc_n(rlc_n(A).val).val = A /\ rlc_n(rrc_n(A).val).val = A
  /\ swap_n(swap_n(A).val).val = A
=============================================================================
