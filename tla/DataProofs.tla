----------------------------- MODULE DataProofs -----------------------------
(***************************************************************************)
(* What the instructions compute and what a line of sprites shows, for     *)
(* every value of the constants and every run of Alu and of Picture.       *)
(*                                                                         *)
(* Alu: the type of the accumulator and the flags, exact arithmetic over   *)
(* several bytes and over packed decimal digits, an operand that is A      *)
(* itself, rotates that undo each other.  DAA corrects the sum of the last *)
(* instruction, so the inductive invariant says what A and F are while     *)
(* that instruction is remembered (Remembered), and that the digits so far *)
(* are exact with the carry that instruction started from.                 *)
(*                                                                         *)
(* Picture: the loops over OAM and over the array are recursive functions. *)
(* Induction shows that they are defined and what they hold after each     *)
(* round: the entries found so far in the order of OAM (FoundLists), and   *)
(* those rearranged by X without disturbing that order (SortArranges).     *)
(* The inductive invariant says that the array is the result for this line *)
(* (Scanned), from which the choice of each pixel follows.                 *)
(***************************************************************************)
EXTENDS Alu, Picture, FiniteSetTheorems, WellFoundedInduction, TLAPS

LEMMA Nibbles ==
  ASSUME NEW b, IsByte(b)
  PROVE  /\ b \div 16 \in Nat /\ b \div 16 < 16
         /\ b % 16 \in Nat /\ b % 16 < 16
         /\ b = 16 * (b \div 16) + (b % 16)
BY SMT DEF IsByte

LEMMA Digits ==
  ASSUME NEW q \in Int, NEW r \in Int, 0 <= r, r < 16
  PROVE  (16 * q + r) % 16 = r /\ (16 * q + r) \div 16 = q
BY SMT

LEMMA Wrap ==
  ASSUME NEW x \in Int
  PROVE  /\ 0 <= x /\ x < 256 => x % 256 = x
         /\ 256 <= x /\ x < 512 => x % 256 = x - 256
         /\ -256 <= x /\ x < 0 => x % 256 = x + 256
BY SMT

(* DAA after ADD or ADC of decimal bytes leaves two decimal digits, and a  *)
(* carry worth 100.                                                        *)
LEMMA DaaAdds ==
  ASSUME NEW a, NEW v, NEW c, IsByte(a), IsByte(v), IsBit(c), BCD(a), BCD(v)
  PROVE  LET sum == adc_a_n(a, v, c)
             out == daa(sum.val, sum.f)
         IN  /\ BCD(out.val)
             /\ Decimal(a) + Decimal(v) + c = Decimal(out.val) + 100 * out.f.c
<1>1. PICK ah \in Nat, al \in Nat :
        /\ ah = a \div 16 /\ al = a % 16 /\ a = 16 * ah + al /\ ah <= 9 /\ al <= 9
  BY Nibbles DEF BCD
<1>2. PICK vh \in Nat, vl \in Nat :
        /\ vh = v \div 16 /\ vl = v % 16 /\ v = 16 * vh + vl /\ vh <= 9 /\ vl <= 9
  BY Nibbles DEF BCD
<1>3. PICK lo \in Nat, hi \in Nat : lo = al + vl + c /\ hi = ah + vh
  BY DEF IsBit
<1> lo <= 19 /\ hi <= 18 /\ a + v + c = 16 * hi + lo
  BY <1>1, <1>2, <1>3 DEF IsBit
<1>4. PICK s \in Nat : /\ s = (16 * hi + lo) % 256
                       /\ s = IF 16 * hi + lo > 255 THEN 16 * hi + lo - 256 ELSE 16 * hi + lo
  BY Wrap
<1>5. PICK k \in Nat, o \in Nat :
        /\ k = IF lo > 9 THEN 1 ELSE 0
        /\ o = IF hi + k > 9 THEN 1 ELSE 0
  OBVIOUS
<1>6. (16 * hi + lo > 255 \/ s > 153) <=> o = 1
  BY <1>4, <1>5
<1>7. PICK p \in Nat : p = IF o = 1 THEN (s + 96) % 256 ELSE s
  BY <1>4, Wrap
<1>8. p = 16 * (hi + (IF o = 1 THEN 6 ELSE 0) - (IF 16 * hi + lo + 96 * o > 255 THEN 16 ELSE 0)) + lo
  BY <1>4, <1>5, <1>6, <1>7, Wrap
<1>9. (lo > 15 \/ p % 16 > 9) <=> k = 1
  <2>1. CASE lo < 16
    BY <2>1, <1>8, <1>5, Digits
  <2>2. CASE lo >= 16
    BY <2>2, <1>5
  <2> QED BY <2>1, <2>2
<1>10. PICK w \in Nat : w = (IF k = 1 THEN (p + 6) % 256 ELSE p)
  BY <1>7, Wrap
<1>11. w = 16 * (hi + k - 10 * o) + (lo - 10 * k)
  BY <1>4, <1>5, <1>6, <1>7, <1>8, <1>10, Wrap
<1>12. w % 16 = lo - 10 * k /\ w \div 16 = hi + k - 10 * o
  BY <1>11, <1>5, Digits
<1>13. BCD(w) /\ Decimal(a) + Decimal(v) + c = Decimal(w) + 100 * o
  BY <1>1, <1>2, <1>3, <1>5, <1>12 DEF BCD, Decimal, IsBit
<1>14. adc_a_n(a, v, c) = Out(s, 0, Bit(lo > 15), Bit(16 * hi + lo > 255))
  BY <1>1, <1>2, <1>3, <1>4 DEF adc_a_n
<1>15. daa(s, [z |-> Bit(s = 0), n |-> 0, h |-> Bit(lo > 15), c |-> Bit(16 * hi + lo > 255)])
         = Out(w, 0, 0, o)
  BY <1>4, <1>5, <1>6, <1>7, <1>9, <1>10 DEF daa, Bit
<1> QED
  BY <1>13, <1>14, <1>15 DEF Out

(* DAA after SUB or SBC of decimal bytes leaves two decimal digits, and a  *)
(* borrow worth 100.                                                       *)
LEMMA DaaTakes ==
  ASSUME NEW a, NEW v, NEW c, IsByte(a), IsByte(v), IsBit(c), BCD(a), BCD(v)
  PROVE  LET dif == sbc_a_n(a, v, c)
             out == daa(dif.val, dif.f)
         IN  /\ BCD(out.val)
             /\ Decimal(a) + 100 * out.f.c = Decimal(v) + c + Decimal(out.val)
<1>1. PICK ah \in Nat, al \in Nat :
        /\ ah = a \div 16 /\ al = a % 16 /\ a = 16 * ah + al /\ ah <= 9 /\ al <= 9
  BY Nibbles DEF BCD
<1>2. PICK vh \in Nat, vl \in Nat :
        /\ vh = v \div 16 /\ vl = v % 16 /\ v = 16 * vh + vl /\ vh <= 9 /\ vl <= 9
  BY Nibbles DEF BCD
<1>3. PICK lo \in Int, hi \in Int : lo = al - (vl + c) /\ hi = ah - vh
  BY DEF IsBit
<1> -10 <= lo /\ lo <= 9 /\ -9 <= hi /\ hi <= 9 /\ a - (v + c) = 16 * hi + lo
  BY <1>1, <1>2, <1>3 DEF IsBit
<1>4. PICK k \in Nat, o \in Nat :
        /\ k = IF lo < 0 THEN 1 ELSE 0
        /\ o = IF hi - k < 0 THEN 1 ELSE 0
  OBVIOUS
<1>5. 16 * hi + lo < 0 <=> o = 1
  BY <1>4
<1>6. PICK s \in Nat : s = (16 * hi + lo) % 256 /\ s = 16 * (hi + 16 * o) + lo
  BY <1>4, <1>5, Wrap
<1>7. PICK p \in Nat : /\ p = IF o = 1 THEN (s - 96) % 256 ELSE s
                       /\ p = 16 * (hi + 10 * o) + lo
  BY <1>4, <1>5, <1>6, Wrap
<1>8. PICK w \in Nat : /\ w = IF k = 1 THEN (p - 6) % 256 ELSE p
                       /\ w = 16 * (hi + 10 * o - k) + (lo + 10 * k)
  BY <1>4, <1>5, <1>7, Wrap
<1>9. w % 16 = lo + 10 * k /\ w \div 16 = hi + 10 * o - k
  BY <1>8, <1>4, Digits
<1>10. BCD(w) /\ Decimal(a) + 100 * o = Decimal(v) + c + Decimal(w)
  BY <1>1, <1>2, <1>3, <1>4, <1>9 DEF BCD, Decimal, IsBit
<1>11. sbc_a_n(a, v, c) = Out(s, 1, Bit(lo < 0), Bit(16 * hi + lo < 0))
  BY <1>1, <1>2, <1>3, <1>6 DEF sbc_a_n, Bit, IsBit
<1>12. daa(s, [z |-> Bit(s = 0), n |-> 1, h |-> Bit(lo < 0), c |-> Bit(16 * hi + lo < 0)])
         = Out(w, 1, 0, o)
  BY <1>4, <1>5, <1>6, <1>7, <1>8 DEF daa, Bit
<1> QED
  BY <1>10, <1>11, <1>12 DEF Out
-----------------------------------------------------------------------------
(* Every function gives a byte and four flags; those that a calculation    *)
(* follows say what their carry is worth.                                  *)

IsFlags(g) ==
  /\ IsBit(g.z) /\ IsBit(g.n) /\ IsBit(g.h) /\ IsBit(g.c)
  /\ g = [z |-> g.z, n |-> g.n, h |-> g.h, c |-> g.c]

IsOut(out) ==
  /\ IsByte(out.val) /\ IsFlags(out.f)
  /\ out = [val |-> out.val, f |-> out.f]

LEMMA Outs ==
  ASSUME NEW v, IsByte(v), NEW n, NEW h, NEW c, IsBit(n), IsBit(h), IsBit(c)
  PROVE  IsOut(Out(v, n, h, c)) /\ Out(v, n, h, c).f.c = c /\ Out(v, n, h, c).val = v
BY DEF Out, IsOut, IsFlags, Bit, IsBit

LEMMA Sums ==
  ASSUME NEW a, NEW v, NEW c, IsByte(a), IsByte(v), IsBit(c)
  PROVE  LET out == adc_a_n(a, v, c) IN
         IsOut(out) /\ a + v + c = out.val + 256 * out.f.c
<1>1. PICK x \in Nat : x = a + v + c /\ x < 512
  BY DEF IsByte, IsBit
<1>2. PICK s \in Nat : s = x % 256 /\ s = IF x > 255 THEN x - 256 ELSE x
  BY <1>1, Wrap
<1>3. PICK k \in Nat : k = Bit(a + v + c > 255) /\ IsBit(k) /\ x = s + 256 * k
  BY <1>1, <1>2 DEF Bit, IsBit
<1>4. IsByte(s)
  BY <1>1, <1>2 DEF IsByte
<1>5. PICK h \in Nat : h = Bit((a % 16) + (v % 16) + c > 15) /\ IsBit(h)
  BY DEF Bit, IsBit
<1>6. adc_a_n(a, v, c) = Out(s, 0, h, k)
  BY <1>1, <1>2, <1>3, <1>5 DEF adc_a_n
<1>7. IsBit(0)
  BY DEF IsBit
<1>8. /\ IsOut(Out(s, 0, h, k))
      /\ Out(s, 0, h, k).f.c = k /\ Out(s, 0, h, k).val = s
  BY <1>3, <1>4, <1>5, <1>7, Outs
<1> QED
  BY <1>1, <1>3, <1>6, <1>8

LEMMA Differences ==
  ASSUME NEW a, NEW v, NEW c, IsByte(a), IsByte(v), IsBit(c)
  PROVE  LET out == sbc_a_n(a, v, c) IN
         IsOut(out) /\ a + 256 * out.f.c = v + c + out.val
<1>1. PICK x \in Int : x = a - (v + c) /\ -257 < x /\ x < 256
  BY DEF IsByte, IsBit
<1>0. PICK h \in Nat : h = Bit((v % 16) + c > a % 16) /\ IsBit(h)
  BY DEF Bit, IsBit
<1>2. CASE v + c = 256 /\ a = 0
  <2>1. sbc_a_n(a, v, c) = Out(0, 1, h, 1)
    <3>1. (a - (v + c)) % 256 = 0
      BY <1>2 DEF IsByte, IsBit
    <3>2. Bit(v + c > a) = 1
      BY <1>2 DEF Bit, IsByte, IsBit
    <3> QED BY <1>0, <3>1, <3>2 DEF sbc_a_n
  <2>2. IsBit(1) /\ IsByte(0)
    BY DEF IsBit, IsByte
  <2>3. IsOut(Out(0, 1, h, 1)) /\ Out(0, 1, h, 1).f.c = 1 /\ Out(0, 1, h, 1).val = 0
    BY <1>0, <2>2, Outs
  <2>4. a + 256 * 1 = v + c + 0
    BY <1>2 DEF IsByte, IsBit
  <2> QED
    BY <2>1, <2>3, <2>4
<1>3. CASE ~(v + c = 256 /\ a = 0)
  <2>1. -256 < x
    BY <1>1, <1>3 DEF IsByte, IsBit
  <2>2. PICK s \in Nat : s = x % 256 /\ s = IF x < 0 THEN x + 256 ELSE x
    BY <1>1, <2>1, Wrap
  <2>3. PICK k \in Nat : k = Bit(v + c > a) /\ IsBit(k) /\ x = s - 256 * k
    BY <1>1, <2>2 DEF Bit, IsBit, IsByte
  <2>4. IsByte(s)
    BY <1>1, <2>1, <2>2 DEF IsByte
  <2>5. sbc_a_n(a, v, c) = Out(s, 1, h, k)
    BY <1>0, <1>1, <2>2, <2>3 DEF sbc_a_n
  <2>6. a + 256 * k = v + c + s
    BY <1>1, <2>3 DEF IsByte, IsBit
  <2> QED
    BY <1>0, <2>3, <2>4, <2>5, <2>6, Outs DEF IsBit
<1> QED BY <1>2, <1>3

LEMMA WithoutCarry ==
  ASSUME NEW a, NEW v, IsByte(a), IsByte(v)
  PROVE  add_a_n(a, v) = adc_a_n(a, v, 0) /\ sub_n(a, v) = sbc_a_n(a, v, 0)
<1>1. /\ a + v + 0 = a + v /\ (a % 16) + (v % 16) + 0 = (a % 16) + (v % 16)
      /\ v + 0 = v /\ (v % 16) + 0 = v % 16
  BY DEF IsByte
<1> QED BY <1>1 DEF add_a_n, adc_a_n, sub_n, sbc_a_n

LEMMA OnItself ==
  ASSUME NEW a, NEW c, IsByte(a), IsBit(c)
  PROVE  /\ add_a_a(a) = add_a_n(a, a) /\ adc_a_a(a, c) = adc_a_n(a, a, c)
         /\ sub_a(a) = sub_n(a, a) /\ sbc_a_a(a, c) = sbc_a_n(a, a, c)
         /\ xor_a(a) = xor_n(a, a) /\ cp_a(a) = cp_n(a, a)
<1>1. PICK l \in Nat : l = a % 16
  BY Nibbles
<1>2. /\ 2 * a = a + a /\ 2 * l = l + l /\ a - a = 0 /\ 0 % 256 = 0 /\ ~(a > a) /\ ~(l > l)
  BY <1>1 DEF IsByte
<1>3. add_a_a(a) = add_a_n(a, a) /\ adc_a_a(a, c) = adc_a_n(a, a, c)
  BY <1>1, <1>2 DEF add_a_a, add_a_n, adc_a_a, adc_a_n
<1>4. sub_a(a) = sub_n(a, a) /\ cp_a(a) = cp_n(a, a)
  BY <1>1, <1>2 DEF sub_a, sub_n, cp_a, cp_n, Out, Bit
<1>5. sbc_a_a(a, c) = sbc_a_n(a, a, c)
  <2>1. /\ a - (a + c) = -c /\ (a + c > a <=> c = 1) /\ (l + c > l <=> c = 1)
    BY <1>1 DEF IsByte, IsBit
  <2>2. Bit(a + c > a) = c /\ Bit(l + c > l) = c
    BY <2>1 DEF Bit, IsBit
  <2> QED BY <1>1, <2>1, <2>2 DEF sbc_a_a, sbc_a_n
<1>6. xor_a(a) = xor_n(a, a)
  <2>1. (Bits(a) \cup Bits(a)) \ (Bits(a) \cap Bits(a)) = {}
    OBVIOUS
  <2>2. Num({}) = 0
    BY DEF Num, Bit
  <2> QED BY <2>1, <2>2 DEF xor_a, xor_n
<1> QED BY <1>3, <1>4, <1>5, <1>6

LEMMA Numbers == ASSUME NEW s PROVE IsByte(Num(s))
BY DEF Num, Bit, IsByte

LEMMA TwoBits ==
  ASSUME NEW a, IsByte(a)
  PROVE  /\ a = 2 * (a \div 2) + ((a \div 1) % 2)
         /\ a \div 2 = 2 * (a \div 4) + ((a \div 2) % 2)
         /\ a \div 4 = 2 * (a \div 8) + ((a \div 4) % 2)
         /\ a \div 8 = 2 * (a \div 16) + ((a \div 8) % 2)
         /\ a \div 16 = 2 * (a \div 32) + ((a \div 16) % 2)
         /\ a \div 32 = 2 * (a \div 64) + ((a \div 32) % 2)
         /\ a \div 64 = 2 * (a \div 128) + ((a \div 64) % 2)
         /\ a \div 128 \in {0, 1} /\ (a \div 128) % 2 = a \div 128
BY SMT DEF IsByte

\* The bits of a byte, each at its place, make that byte.
LEMMA NumOfBits ==
  ASSUME NEW a, IsByte(a)
  PROVE  Num(Bits(a)) = a
<1>1. ASSUME NEW x \in Int PROVE Bit(x % 2 = 1) = x % 2
  BY SMT DEF Bit
<1>2. /\ Weight[1] = 1 /\ Weight[2] = 2 /\ Weight[3] = 4 /\ Weight[4] = 8
      /\ Weight[5] = 16 /\ Weight[6] = 32 /\ Weight[7] = 64 /\ Weight[8] = 128
  BY DEF Weight
<1>3. /\ 0 \in Bits(a) <=> (a \div 1) % 2 = 1
      /\ 1 \in Bits(a) <=> (a \div 2) % 2 = 1
      /\ 2 \in Bits(a) <=> (a \div 4) % 2 = 1
      /\ 3 \in Bits(a) <=> (a \div 8) % 2 = 1
      /\ 4 \in Bits(a) <=> (a \div 16) % 2 = 1
      /\ 5 \in Bits(a) <=> (a \div 32) % 2 = 1
      /\ 6 \in Bits(a) <=> (a \div 64) % 2 = 1
      /\ 7 \in Bits(a) <=> (a \div 128) % 2 = 1
  BY <1>2 DEF Bits, BitNumbers
<1>4. /\ a \in Int /\ a \div 1 \in Int /\ a \div 2 \in Int /\ a \div 4 \in Int /\ a \div 8 \in Int
      /\ a \div 16 \in Int /\ a \div 32 \in Int /\ a \div 64 \in Int /\ a \div 128 \in Int
  BY DEF IsByte
<1>5. PICK r0 \in Int, r1 \in Int, r2 \in Int, r3 \in Int,
           r4 \in Int, r5 \in Int, r6 \in Int, r7 \in Int :
        /\ r0 = (a \div 1) % 2 /\ r1 = (a \div 2) % 2
        /\ r2 = (a \div 4) % 2 /\ r3 = (a \div 8) % 2
        /\ r4 = (a \div 16) % 2 /\ r5 = (a \div 32) % 2
        /\ r6 = (a \div 64) % 2 /\ r7 = (a \div 128) % 2
  BY <1>4
<1>6. /\ Bit(0 \in Bits(a)) = r0 /\ Bit(1 \in Bits(a)) = r1
      /\ Bit(2 \in Bits(a)) = r2 /\ Bit(3 \in Bits(a)) = r3
      /\ Bit(4 \in Bits(a)) = r4 /\ Bit(5 \in Bits(a)) = r5
      /\ Bit(6 \in Bits(a)) = r6 /\ Bit(7 \in Bits(a)) = r7
  <2>1. /\ Bit((a \div 1) % 2 = 1) = r0 /\ Bit((a \div 2) % 2 = 1) = r1
        /\ Bit((a \div 4) % 2 = 1) = r2 /\ Bit((a \div 8) % 2 = 1) = r3
        /\ Bit((a \div 16) % 2 = 1) = r4 /\ Bit((a \div 32) % 2 = 1) = r5
        /\ Bit((a \div 64) % 2 = 1) = r6 /\ Bit((a \div 128) % 2 = 1) = r7
    BY <1>1, <1>4, <1>5, Zenon
  <2> QED BY <1>3, <2>1 DEF Bit
<1>7. Num(Bits(a)) = r0 + 2 * r1 + 4 * r2 + 8 * r3 + 16 * r4 + 32 * r5 + 64 * r6 + 128 * r7
  BY <1>6, Zenon DEF Num
<1>8. a = r0 + 2 * r1 + 4 * r2 + 8 * r3 + 16 * r4 + 32 * r5 + 64 * r6 + 128 * r7
  <2>1. PICK q1 \in Int, q2 \in Int, q3 \in Int, q4 \in Int, q5 \in Int, q6 \in Int, q7 \in Int :
          /\ q1 = a \div 2 /\ q2 = a \div 4 /\ q3 = a \div 8 /\ q4 = a \div 16
          /\ q5 = a \div 32 /\ q6 = a \div 64 /\ q7 = a \div 128
    BY <1>4
  <2>2. /\ a = 2 * q1 + r0 /\ q1 = 2 * q2 + r1 /\ q2 = 2 * q3 + r2 /\ q3 = 2 * q4 + r3
        /\ q4 = 2 * q5 + r4 /\ q5 = 2 * q6 + r5 /\ q6 = 2 * q7 + r6 /\ q7 = r7
    BY <1>5, <2>1, TwoBits, Zenon
  <2> QED BY <1>4, <2>2
<1> QED BY <1>7, <1>8

LEMMA LogicOnItself ==
  ASSUME NEW a, IsByte(a)
  PROVE  and_a(a) = and_n(a, a) /\ or_a(a) = or_n(a, a)
<1>1. Bits(a) \cap Bits(a) = Bits(a) /\ Bits(a) \cup Bits(a) = Bits(a)
  OBVIOUS
<1> QED BY <1>1, NumOfBits DEF and_a, and_n, or_a, or_n

LEMMA ComparesLikeSub ==
  ASSUME NEW a, NEW v, IsByte(a), IsByte(v)
  PROVE  cp_n(a, v).f = sub_n(a, v).f
<1>1. v = a <=> (a - v) % 256 = 0
  <2>1. /\ 0 <= a - v => (a - v) % 256 = a - v
        /\ a - v < 0 => (a - v) % 256 = a - v + 256
    BY Wrap DEF IsByte
  <2> QED BY <2>1 DEF IsByte
<1> QED BY <1>1 DEF cp_n, sub_n, Out, Bit

LEMMA Logics ==
  ASSUME NEW a, NEW v, IsByte(a)
  PROVE  /\ IsOut(and_n(a, v)) /\ IsOut(or_n(a, v)) /\ IsOut(xor_n(a, v))
         /\ IsOut(and_a(a)) /\ IsOut(or_a(a)) /\ IsOut(xor_a(a))
<1>1. IsBit(0) /\ IsBit(1) /\ IsByte(0)
  BY DEF IsBit, IsByte
<1> QED
  BY <1>1, Numbers, Outs DEF and_n, or_n, xor_n, and_a, or_a, xor_a

LEMMA Compares ==
  ASSUME NEW a, NEW v, IsByte(a)
  PROVE  IsOut(cp_n(a, v)) /\ IsOut(cp_a(a))
BY DEF cp_n, cp_a, IsOut, IsFlags, IsBit, Bit

LEMMA Counts ==
  ASSUME NEW v, NEW c, IsByte(v), IsBit(c)
  PROVE  /\ IsOut(inc_n(v, c)) /\ inc_n(v, c).f.c = c
         /\ IsOut(dec_n(v, c)) /\ dec_n(v, c).f.c = c
<1>1. IsByte((v + 1) % 256) /\ IsByte((v - 1) % 256) /\ IsBit(0) /\ IsBit(1)
  BY DEF IsByte, IsBit
<1>2. PICK h \in Nat, k \in Nat : /\ h = Bit((v % 16) + 1 > 15) /\ IsBit(h)
                                  /\ k = Bit(1 > v % 16) /\ IsBit(k)
  BY DEF Bit, IsBit
<1>3. inc_n(v, c) = Out((v + 1) % 256, 0, h, c) /\ dec_n(v, c) = Out((v - 1) % 256, 1, k, c)
  BY <1>2 DEF inc_n, dec_n
<1> QED BY <1>1, <1>2, <1>3, Outs

(* The rotates through the carry double and halve what a carry links.      *)
LEMMA Rotates ==
  ASSUME NEW v, NEW c, IsByte(v), IsBit(c)
  PROVE  /\ IsOut(sla_n(v)) /\ v + v = sla_n(v).val + 256 * sla_n(v).f.c
         /\ IsOut(rl_n(v, c)) /\ v + v + c = rl_n(v, c).val + 256 * rl_n(v, c).f.c
         /\ IsOut(srl_n(v)) /\ v = 2 * srl_n(v).val + srl_n(v).f.c
         /\ IsOut(rr_n(v, c)) /\ v + 256 * c = 2 * rr_n(v, c).val + rr_n(v, c).f.c
         /\ IsOut(rlc_n(v)) /\ IsOut(rrc_n(v)) /\ IsOut(sra_n(v)) /\ IsOut(swap_n(v))
<1>0. IsBit(0) /\ c \in Nat /\ c <= 1
  BY DEF IsBit
<1>1. PICK t \in Nat, u \in Nat :
        /\ t = v \div 128 /\ IsBit(t) /\ u = (2 * v) % 256 /\ u < 255 /\ 2 * v = u + 256 * t
  <2>1. CASE v < 128
    BY <2>1, Wrap DEF IsByte, IsBit
  <2>2. CASE v >= 128
    <3>1. v \div 128 = 1 /\ (2 * v) % 256 = 2 * v - 256
      BY <2>2 DEF IsByte
    <3> QED BY <2>2, <3>1 DEF IsByte, IsBit
  <2> QED BY <2>1, <2>2 DEF IsByte
<1>2. PICK q \in Nat, r \in Nat :
        /\ q = v \div 2 /\ q < 128 /\ r = v % 2 /\ IsBit(r) /\ v = 2 * q + r
  BY DEF IsByte, IsBit
<1>3. PICK d \in Nat, e \in Nat :
        d = (16 * v) % 256 /\ e = v \div 16 /\ IsByte(d + e)
  <2>1. PICK x \in Nat, y \in Nat : x = v \div 16 /\ y = v % 16 /\ x < 16 /\ y < 16 /\ v = 16 * x + y
    BY Nibbles
  <2>2. (16 * v) % 256 = 16 * y
    BY <2>1
  <2> QED BY <2>1, <2>2 DEF IsByte
<1>4. /\ IsByte(u) /\ IsByte(u + t) /\ IsByte(u + c) /\ IsByte(q)
      /\ IsByte(q + 128 * r) /\ IsByte(q + 128 * c) /\ IsByte(q + 128 * t)
  BY <1>0, <1>1, <1>2 DEF IsByte, IsBit
<1>5. /\ sla_n(v) = Out(u, 0, 0, t) /\ rl_n(v, c) = Out(u + c, 0, 0, t)
      /\ srl_n(v) = Out(q, 0, 0, r) /\ rr_n(v, c) = Out(q + 128 * c, 0, 0, r)
      /\ rlc_n(v) = Out(u + t, 0, 0, t) /\ rrc_n(v) = Out(q + 128 * r, 0, 0, r)
      /\ sra_n(v) = Out(q + 128 * t, 0, 0, r) /\ swap_n(v) = Out(d + e, 0, 0, 0)
  BY <1>1, <1>2, <1>3 DEF sla_n, rl_n, srl_n, rr_n, rlc_n, rrc_n, sra_n, swap_n
<1>6. /\ IsOut(Out(u, 0, 0, t)) /\ Out(u, 0, 0, t).val = u /\ Out(u, 0, 0, t).f.c = t
      /\ IsOut(Out(u + c, 0, 0, t)) /\ Out(u + c, 0, 0, t).val = u + c /\ Out(u + c, 0, 0, t).f.c = t
      /\ IsOut(Out(q, 0, 0, r)) /\ Out(q, 0, 0, r).val = q /\ Out(q, 0, 0, r).f.c = r
  BY <1>0, <1>1, <1>2, <1>4, Outs
<1>7. /\ IsOut(Out(q + 128 * c, 0, 0, r)) /\ Out(q + 128 * c, 0, 0, r).val = q + 128 * c
      /\ Out(q + 128 * c, 0, 0, r).f.c = r
      /\ IsOut(Out(u + t, 0, 0, t)) /\ IsOut(Out(q + 128 * r, 0, 0, r))
      /\ IsOut(Out(q + 128 * t, 0, 0, r)) /\ IsOut(Out(d + e, 0, 0, 0))
  BY <1>0, <1>1, <1>2, <1>3, <1>4, Outs
<1>8. /\ v + v = u + 256 * t /\ v + v + c = (u + c) + 256 * t
      /\ v = 2 * q + r /\ v + 256 * c = 2 * (q + 128 * c) + r
  BY <1>0, <1>1, <1>2 DEF IsByte
<1> QED BY <1>5, <1>6, <1>7, <1>8

LEMMA Daas ==
  ASSUME NEW a, NEW g, IsByte(a), IsFlags(g)
  PROVE  IsOut(daa(a, g))
<1>1. \A x \in Int : IsByte(x % 256)
  BY DEF IsByte
<1>2. PICK o \in Nat : o = Bit(g.c = 1 \/ a > 153) /\ IsBit(o)
  BY DEF Bit, IsBit
<1>3. PICK high : /\ IsByte(high)
                  /\ high = IF g.c = 1 \/ a > 153 THEN (a + 96) % 256 ELSE a
  BY <1>1 DEF IsByte
<1>4. PICK added : /\ IsByte(added)
                   /\ added = IF g.h = 1 \/ high % 16 > 9 THEN (high + 6) % 256 ELSE high
  BY <1>1, <1>3 DEF IsByte
<1>5. PICK borrow : IsByte(borrow) /\ borrow = IF g.c = 1 THEN (a - 96) % 256 ELSE a
  BY <1>1 DEF IsByte
<1>6. PICK taken : /\ IsByte(taken)
                   /\ taken = IF g.h = 1 THEN (borrow - 6) % 256 ELSE borrow
  BY <1>1, <1>5 DEF IsByte
<1>7. daa(a, g) = IF g.n = 0 THEN Out(added, 0, 0, o) ELSE Out(taken, g.n, 0, g.c)
  BY <1>2, <1>3, <1>4, <1>5, <1>6 DEF daa
<1>8. IsBit(0)
  BY DEF IsBit
<1> QED BY <1>2, <1>4, <1>6, <1>7, <1>8, Outs DEF IsFlags

LEMMA PopsAf ==
  ASSUME NEW w, w \in Nat, w < 65536
  PROVE  IsOut(pop_af(w))
<1>1. /\ IsByte(w \div 256) /\ IsBit((w \div 128) % 2) /\ IsBit((w \div 64) % 2)
      /\ IsBit((w \div 32) % 2) /\ IsBit((w \div 16) % 2)
  BY DEF IsByte, IsBit
<1> QED BY <1>1 DEF pop_af, IsOut, IsFlags
-----------------------------------------------------------------------------
(* A calculation stays exact from one place to the next.                   *)

Sound(s, c) ==
  /\ s.left \in Int /\ s.right \in Int /\ s.result \in Int /\ s.weight \in Int
  /\ s = [op |-> s.op, left |-> s.left, right |-> s.right, result |-> s.result,
          weight |-> s.weight, steps |-> s.steps, others |-> s.others]
  /\ Exact(s, c)
  /\ s.others = 0

Linked(op, base, l, r, res, c, c2) ==
  \/ op = "add" /\ l + r + c = res + base * c2
  \/ op = "sub" /\ l + base * c2 = r + c + res

LEMMA NoSumSound == ASSUME NEW c PROVE Sound(NoSum, c)
BY DEF Sound, NoSum, Exact

Calculation(op, X, Y, Z, W, n) ==
  [op |-> op, left |-> X, right |-> Y, result |-> Z, weight |-> W, steps |-> n, others |-> 0]

LEMMA ExactIsSound ==
  ASSUME NEW op, NEW X \in Int, NEW Y \in Int, NEW Z \in Int, NEW W \in Int, NEW n, NEW c,
         \/ op = "add" /\ X + Y = Z + c * W
         \/ op = "sub" /\ X + c * W = Y + Z
  PROVE  Sound(Calculation(op, X, Y, Z, W, n), c)
BY DEF Calculation, Sound, Exact

LEMMA FirstSound ==
  ASSUME NEW op, NEW base \in Int, NEW l \in Int, NEW r \in Int, NEW res \in Int,
         NEW c2, IsBit(c2), Linked(op, base, l, r, res, 0, c2)
  PROVE  Sound(First(op, base, l, r, res, 0), c2)
<1>1. CASE c2 = 0
  BY <1>1 DEF Linked, Sound, First, Exact
<1>2. CASE c2 = 1
  BY <1>2 DEF Linked, Sound, First, Exact
<1> QED BY <1>1, <1>2 DEF IsBit

LEMMA Weighted ==
  ASSUME NEW l \in Int, NEW r \in Int, NEW res \in Int, NEW k \in Int, NEW w \in Int,
         NEW L \in Int, NEW R \in Int, NEW S \in Int
  PROVE  /\ l + r = res + k /\ L + R = S => L + l * w + (R + r * w) = S + res * w + k * w
         /\ l + k = r + res /\ L = R + S => L + l * w + k * w = R + r * w + (S + res * w)
<1>1. l + r = res + k => l * w + r * w = res * w + k * w
  <2>1. (l + r) * w = l * w + r * w /\ (res + k) * w = res * w + k * w
    OBVIOUS
  <2> QED BY <2>1
<1>2. l + k = r + res => l * w + k * w = r * w + res * w
  <2>1. (l + k) * w = l * w + k * w /\ (r + res) * w = r * w + res * w
    OBVIOUS
  <2> QED BY <2>1
<1>3. PICK a \in Int, b \in Int, d \in Int, e \in Int :
        a = l * w /\ b = r * w /\ d = res * w /\ e = k * w
  OBVIOUS
<1> QED BY <1>1, <1>2, <1>3

LEMMA MoreSound ==
  ASSUME NEW s, NEW c, NEW c2, Sound(s, c), IsBit(c), IsBit(c2), NEW op, NEW base \in Int,
         NEW l \in Int, NEW r \in Int, NEW res \in Int, Linked(op, base, l, r, res, c, c2)
  PROVE  Sound(More(s, op, base, l, r, res, 0), c2)
<1>1. CASE ~(s.op = op /\ s.steps < MaxSteps)
  BY <1>1, NoSumSound DEF More
<1>2. CASE s.op = op /\ s.steps < MaxSteps
  <2>1. PICK w \in Int, L \in Int, R \in Int, S \in Int :
          w = s.weight /\ L = s.left /\ R = s.right /\ S = s.result
    BY DEF Sound
  <2>2. More(s, op, base, l, r, res, 0) =
          [op |-> op, left |-> L + l * w, right |-> R + r * w, result |-> S + res * w,
           weight |-> w * base, steps |-> s.steps + 1, others |-> 0]
    BY <1>2, <2>1 DEF More, Sound
  <2>3. PICK k \in Int : k = base * c2 - c
    BY DEF IsBit
  <2>4. k * w + c * w = c2 * (w * base)
    <3>1. CASE c = 0 /\ c2 = 0 BY <3>1, <2>3
    <3>2. CASE c = 1 /\ c2 = 0 BY <3>2, <2>3
    <3>3. CASE c = 0 /\ c2 = 1 BY <3>3, <2>3
    <3>4. CASE c = 1 /\ c2 = 1
      <4>1. k = base - 1 BY <3>4, <2>3
      <4>2. (base - 1) * w = base * w - w /\ base * w = w * base OBVIOUS
      <4> QED BY <3>4, <4>1, <4>2
    <3> QED BY <3>1, <3>2, <3>3, <3>4 DEF IsBit
  <2>5. PICK kw \in Int, cw \in Int, top \in Int :
          kw = k * w /\ cw = c * w /\ top = c2 * (w * base)
    BY DEF IsBit
  <2>8. PICK X \in Int, Y \in Int, Z \in Int, W \in Int :
          X = L + l * w /\ Y = R + r * w /\ Z = S + res * w /\ W = w * base
    OBVIOUS
  <2>9. More(s, op, base, l, r, res, 0) = Calculation(op, X, Y, Z, W, s.steps + 1)
    BY <2>2, <2>8 DEF Calculation
  <2>6. CASE op = "add"
    <3>1. l + r = res + k
      BY <2>3, <2>6 DEF Linked, IsBit
    <3>2. L + R = S + cw
      BY <1>2, <2>1, <2>5, <2>6 DEF Sound, Exact
    <3>3. (L + l * w) + (R + r * w) = (S + cw) + res * w + k * w
      BY <3>1, <3>2, Weighted
    <3>4. (L + l * w) + (R + r * w) = (S + res * w) + c2 * (w * base)
      BY <2>4, <2>5, <3>3
    <3>5. X + Y = Z + c2 * W
      BY <2>8, <3>4
    <3>6. Sound(Calculation(op, X, Y, Z, W, s.steps + 1), c2)
      BY <2>6, <3>5, ExactIsSound
    <3> QED BY <2>9, <3>6
  <2>7. CASE op = "sub"
    <3>1. l + k = r + res
      BY <2>3, <2>7 DEF Linked, IsBit
    <3>2. L + cw = R + S
      BY <1>2, <2>1, <2>5, <2>7 DEF Sound, Exact
    <3>3. (L + cw) + l * w + k * w = (R + r * w) + (S + res * w)
      BY <3>1, <3>2, Weighted
    <3>4. (L + l * w) + c2 * (w * base) = (R + r * w) + (S + res * w)
      BY <2>4, <2>5, <3>3
    <3>5. X + c2 * W = Y + Z
      BY <2>8, <3>4
    <3>6. Sound(Calculation(op, X, Y, Z, W, s.steps + 1), c2)
      BY <2>7, <3>5, ExactIsSound
    <3> QED BY <2>9, <3>6
  <2> QED BY <2>6, <2>7 DEF Linked
<1> QED BY <1>1, <1>2

LEMMA HalfSound ==
  ASSUME NEW v \in Int, NEW out, IsOut(out), v = 2 * out.val + out.f.c
  PROVE  Sound(Half(v, out), out.f.c)
BY DEF Half, Halved, Sound, Exact, IsOut, IsByte

LEMMA HalfOnSound ==
  ASSUME NEW s, NEW c, NEW v \in Int, NEW out, IsOut(out), IsBit(c), Sound(s, c), s = wide,
         v + 256 * c = 2 * out.val + out.f.c
  PROVE  Sound(HalfOn(v, out), out.f.c)
<1>1. CASE ~(wide.op = "half" /\ wide.steps < MaxSteps)
  BY <1>1, NoSumSound DEF HalfOn
<1>2. CASE wide.op = "half" /\ wide.steps < MaxSteps
  <2>1. HalfOn(v, out) =
          Halved(256 * s.left + v, 256 * s.result + out.val, s.steps + 1)
    BY <1>2 DEF HalfOn
  <2>2. s.left = 2 * s.result + c
    BY <1>2 DEF Sound, Exact
  <2>3. 256 * s.left + v = 2 * (256 * s.result + out.val) + out.f.c
    BY <2>2 DEF Sound, IsOut, IsFlags, IsByte, IsBit
  <2> QED BY <2>1, <2>3 DEF Halved, Sound, Exact, IsOut, IsByte
<1> QED BY <1>1, <1>2

LEMMA TrackedSound ==
  ASSUME NEW v, NEW s, NEW c, Sound(s, c)
  PROVE  Sound(Tracked(v, s), c)
BY NoSumSound DEF Tracked
-----------------------------------------------------------------------------
(* The inductive invariant.                                                *)

Remembered ==
  \/ last.op = "none"
  \/ /\ last.op = "add" \/ last.op = "sub"
     /\ IsByte(last.a) /\ IsByte(last.v) /\ IsBit(last.c) /\ (last.first => last.c = 0)
     /\ last.op = "add" => [val |-> A, f |-> f] = adc_a_n(last.a, last.v, last.c)
     /\ last.op = "sub" => [val |-> A, f |-> f] = sbc_a_n(last.a, last.v, last.c)

CarryOfDigits == IF last.op = "none" THEN f.c ELSE last.c

IInv == TypeOK /\ Sound(wide, f.c) /\ Sound(tens, CarryOfDigits) /\ Remembered

LEMMA Types == TypeOK <=> IsByte(A) /\ IsFlags(f)
BY DEF TypeOK, IsByte, IsFlags

LEMMA OperandBytes == \A v \in Operands : IsByte(v)
BY AluAssumption

LEMMA ClearsZ ==
  ASSUME NEW out, IsOut(out)
  PROVE  /\ IsOut(ClearZ(out)) /\ ClearZ(out).f.c = out.f.c /\ ClearZ(out).val = out.val
BY DEF ClearZ, IsOut, IsFlags, IsBit

LEMMA BecomesByte == ASSUME NEW out, IsOut(out), Becomes(out) PROVE TypeOK'
BY DEF TypeOK, Becomes, IsOut, IsByte, IsFlags

LEMMA ElsewhereByte == ASSUME TypeOK, NEW out, IsOut(out), Elsewhere(out) PROVE TypeOK'
BY DEF TypeOK, Elsewhere, IsOut, IsByte, IsFlags

LEMMA InitInv == Init => IInv
<1> SUFFICES ASSUME Init PROVE IInv
  OBVIOUS
<1>1. TypeOK
  BY DEF Init, TypeOK, IsBit, IsByte
<1>2. Sound(wide, f.c) /\ Sound(tens, CarryOfDigits)
  BY NoSumSound DEF Init
<1>3. Remembered
  BY DEF Init, NoLast, Remembered
<1> QED BY <1>1, <1>2, <1>3 DEF IInv

(* Nothing is remembered for DAA. *)
LEMMA Forgets ==
  ASSUME TypeOK', Sound(wide, f.c)', Sound(tens, f.c)', last' = NoLast
  PROVE  IInv'
<1>1. last'.op = "none"
  BY DEF NoLast
<1> QED BY <1>1 DEF IInv, CarryOfDigits, Remembered

LEMMA Ends == ASSUME TypeOK', EndAll PROVE IInv'
<1>1. Sound(wide, f.c)' /\ Sound(tens, f.c)'
  BY NoSumSound DEF EndAll
<1> QED BY <1>1, Forgets DEF EndAll

LEMMA Late ==
  ASSUME IInv, TypeOK', TooLateForDaa, UNCHANGED wide, f'.c = f.c
  PROVE  IInv'
<1>1. Sound(wide, f.c)'
  BY DEF IInv
<1>2. Sound(tens, f.c)'
  BY NoSumSound DEF IInv, TooLateForDaa, CarryOfDigits
<1> QED BY <1>1, <1>2, Forgets DEF TooLateForDaa

LEMMA Shifted ==
  ASSUME TypeOK', NEW v, NEW s, Shift(v, s), Sound(s, f'.c)
  PROVE  IInv'
<1>1. Sound(wide, f.c)' /\ Sound(tens, f.c)'
  BY NoSumSound, TrackedSound DEF Shift
<1> QED BY <1>1, Forgets DEF Shift
-----------------------------------------------------------------------------
(* One lemma per kind of instruction. *)

LEMMA ArithmeticLinks ==
  ASSUME IInv, NEW op, NEW v, NEW c, NEW out, IsByte(v), IsBit(c),
         \/ op = "add" /\ out = adc_a_n(A, v, c)
         \/ op = "sub" /\ out = sbc_a_n(A, v, c)
  PROVE  /\ IsByte(A) /\ IsFlags(f) /\ IsOut(out)
         /\ Linked(op, 256, A, v, out.val, c, out.f.c)
<1>1. IsByte(A) /\ IsFlags(f)
  BY Types DEF IInv
<1> QED BY <1>1, Sums, Differences DEF Linked

LEMMA Begins ==
  ASSUME IInv, NEW op, NEW v, NEW out, IsByte(v), Begin(op, v, out),
         \/ op = "add" /\ out = adc_a_n(A, v, 0)
         \/ op = "sub" /\ out = sbc_a_n(A, v, 0)
  PROVE  IInv'
<1>1. /\ IsByte(A) /\ IsFlags(f) /\ IsOut(out) /\ IsBit(0)
      /\ Linked(op, 256, A, v, out.val, 0, out.f.c)
  BY ArithmeticLinks DEF IsBit
<1>2. TypeOK' /\ f' = out.f /\ A' = out.val /\ [val |-> A', f |-> f'] = out
  BY <1>1, BecomesByte DEF Begin, Becomes, IsOut
<1>3. Sound(wide, f.c)'
  <2>1. Sound(First(op, 256, A, v, out.val, 0), out.f.c)
    BY <1>1, FirstSound DEF IsByte, IsOut, IsFlags
  <2> QED BY <1>2, <2>1, TrackedSound DEF Begin
<1>4. Sound(tens, CarryOfDigits)'
  BY NoSumSound DEF Begin
<1>5. Remembered'
  BY <1>1, <1>2 DEF Begin, Remembered
<1> QED BY <1>2, <1>3, <1>4, <1>5 DEF IInv

LEMMA Continues ==
  ASSUME IInv, NEW op, NEW v, NEW out, IsByte(v), Continue(op, v, out),
         \/ op = "add" /\ out = adc_a_n(A, v, f.c)
         \/ op = "sub" /\ out = sbc_a_n(A, v, f.c)
  PROVE  IInv'
<1>0. IsBit(f.c)
  BY Types DEF IInv, IsFlags
<1>1. /\ IsByte(A) /\ IsFlags(f) /\ IsOut(out)
      /\ Linked(op, 256, A, v, out.val, f.c, out.f.c)
  BY <1>0, ArithmeticLinks
<1>2. TypeOK' /\ f' = out.f /\ A' = out.val /\ [val |-> A', f |-> f'] = out
  BY <1>1, BecomesByte DEF Continue, Becomes, IsOut
<1>3. Sound(wide, f.c)'
  <2>1. Sound(More(wide, op, 256, A, v, out.val, 0), out.f.c)
    BY <1>0, <1>1, MoreSound DEF IInv, IsByte, IsOut, IsFlags
  <2> QED BY <1>2, <2>1, TrackedSound DEF Continue
<1>4. Sound(tens, CarryOfDigits)'
  <2>1. last'.op = op /\ last'.c = f.c /\ last'.op # "none"
    BY DEF Continue
  <2>2. Sound(tens', f.c)
    <3>1. CASE last.op = "none" /\ tens.op = op
      BY <3>1 DEF Continue, IInv, CarryOfDigits
    <3>2. CASE ~(last.op = "none" /\ tens.op = op)
      BY <3>2, NoSumSound DEF Continue
    <3> QED BY <3>1, <3>2
  <2> QED BY <2>1, <2>2 DEF CarryOfDigits
<1>5. Remembered'
  BY <1>0, <1>1, <1>2 DEF Continue, Remembered
<1> QED BY <1>2, <1>3, <1>4, <1>5 DEF IInv

LEMMA Adjusts == ASSUME IInv, Daa PROVE IInv'
<1> DEFINE out == daa(A, f)
<1>1. IsByte(A) /\ IsFlags(f) /\ IsOut(out)
  BY Types, Daas DEF IInv
<1>2. TypeOK' /\ f' = out.f /\ A' = out.val /\ IsBit(out.f.c)
  BY <1>1, BecomesByte DEF Daa, AdjustDecimal, Becomes, IsFlags, IsOut
<1>3. Sound(wide, f.c)'
  BY NoSumSound DEF Daa, AdjustDecimal
<1>4. last' = NoLast
  BY DEF Daa, AdjustDecimal
<1>5. Sound(tens', out.f.c)
  <2>1. CASE ~(last.op # "none" /\ BCD(last.a) /\ BCD(last.v) /\ last.a \in Operands)
    BY <2>1, NoSumSound DEF Daa, AdjustDecimal
  <2>2. CASE last.op # "none" /\ BCD(last.a) /\ BCD(last.v) /\ last.a \in Operands
    <3>1. /\ last.op = "add" \/ last.op = "sub"
          /\ IsByte(last.a) /\ IsByte(last.v) /\ IsBit(last.c) /\ (last.first => last.c = 0)
          /\ last.op = "add" => [val |-> A, f |-> f] = adc_a_n(last.a, last.v, last.c)
          /\ last.op = "sub" => [val |-> A, f |-> f] = sbc_a_n(last.a, last.v, last.c)
      BY <2>2 DEF IInv, Remembered
    <3>2. PICK l \in Int, r \in Int, res \in Int :
            l = Decimal(last.a) /\ r = Decimal(last.v) /\ res = Decimal(out.val)
      BY <1>1, <3>1 DEF Decimal, IsByte, IsOut
    <3>3. BCD(out.val) /\ Linked(last.op, 100, l, r, res, last.c, out.f.c)
      <4>1. CASE last.op = "add"
        <5>1. adc_a_n(last.a, last.v, last.c).val = A /\ adc_a_n(last.a, last.v, last.c).f = f
          BY <3>1, <4>1
        <5>2. BCD(out.val) /\ l + r + last.c = res + 100 * out.f.c
          BY <2>2, <3>1, <3>2, <5>1, DaaAdds
        <5> QED BY <4>1, <5>2 DEF Linked
      <4>2. CASE last.op = "sub"
        <5>1. sbc_a_n(last.a, last.v, last.c).val = A /\ sbc_a_n(last.a, last.v, last.c).f = f
          BY <3>1, <4>2
        <5>2. BCD(out.val) /\ l + 100 * out.f.c = r + last.c + res
          BY <2>2, <3>1, <3>2, <5>1, DaaTakes
        <5> QED BY <4>2, <5>2 DEF Linked
      <4> QED BY <3>1, <4>1, <4>2
    <3>4. Bit(~BCD(out.val)) = 0
      BY <3>3 DEF Bit
    <3>5. tens' = IF last.first THEN First(last.op, 100, l, r, res, Bit(~BCD(out.val)))
                                ELSE More(tens, last.op, 100, l, r, res, Bit(~BCD(out.val)))
      BY <2>2, <3>2 DEF Daa, AdjustDecimal
    <3>6. CASE last.first
      BY <1>2, <3>1, <3>3, <3>4, <3>5, <3>6, FirstSound
    <3>7. CASE ~last.first
      BY <1>2, <2>2, <3>1, <3>3, <3>4, <3>5, <3>7, MoreSound DEF IInv, CarryOfDigits
    <3> QED BY <3>6, <3>7
  <2> QED BY <2>1, <2>2
<1> QED BY <1>2, <1>3, <1>4, <1>5, Forgets

Packed(w, a, z, n, h, c) == w = 256 * a + 128 * z + 64 * n + 32 * h + 16 * c

Unpacked(w, a, z, n, h, c) ==
  /\ w \div 256 = a /\ (w \div 128) % 2 = z /\ (w \div 64) % 2 = n
  /\ (w \div 32) % 2 = h /\ (w \div 16) % 2 = c

LEMMA WordOfFlags ==
  ASSUME NEW a \in Nat, NEW z \in Nat, NEW n \in Nat, NEW h \in Nat, NEW c \in Nat,
         z < 2, n < 2, h < 2, c < 2, NEW w \in Nat,
         Packed(w, a, z, n, h, c)
  PROVE  Unpacked(w, a, z, n, h, c)
<1>1. PICK p \in Nat, q \in Nat, r \in Nat, t \in Nat :
        p = 2 * a + z /\ q = 2 * p + n /\ r = 2 * q + h /\ t = 2 * r + c
  OBVIOUS
<1>2. /\ w = 16 * t /\ w = 32 * r + 16 * c /\ w = 64 * q + 32 * h + 16 * c
      /\ w = 128 * p + 64 * n + 32 * h + 16 * c
  BY <1>1 DEF Packed
<1>3. w \div 16 = t
  BY <1>2
<1>4. w \div 32 = r
  BY <1>2
<1>5. w \div 64 = q
  BY <1>2
<1>6. w \div 128 = p
  BY <1>2
<1>7. w \div 256 = a
  BY DEF Packed
<1>8. p % 2 = z
  BY <1>1
<1>9. q % 2 = n
  BY <1>1
<1>10. r % 2 = h
  BY <1>1
<1>11. t % 2 = c
  BY <1>1
<1> QED BY <1>3, <1>4, <1>5, <1>6, <1>7, <1>8, <1>9, <1>10, <1>11 DEF Unpacked

LEMMA Resumes == ASSUME IInv, Handler PROVE IInv'
<1>1. IsByte(A) /\ IsFlags(f)
  BY Types DEF IInv
<1>2. PICK a \in Nat, z \in Nat, n \in Nat, h \in Nat, c \in Nat :
        /\ a = A /\ z = f.z /\ n = f.n /\ h = f.h /\ c = f.c
        /\ z < 2 /\ n < 2 /\ h < 2 /\ c < 2
  BY <1>1 DEF IsByte, IsFlags, IsBit
<1>3. PICK w \in Nat : w = AF /\ Packed(w, a, z, n, h, c)
  BY <1>2 DEF AF, Packed
<1>4. Unpacked(w, a, z, n, h, c)
  BY <1>2, <1>3, WordOfFlags
<1>5. A' = A /\ f' = f
  BY <1>1, <1>2, <1>3, <1>4 DEF Handler, Becomes, pop_af, IsFlags, Unpacked
<1> QED BY <1>5 DEF Handler, IInv, TypeOK, CarryOfDigits, Remembered

LEMMA Doubles ==
  ASSUME IInv, NEW v, IsByte(v), NEW out, IsOut(out), v + v + f.c = out.val + 256 * out.f.c
  PROVE  Sound(Doubling(v, out), out.f.c)
<1>1. IsBit(f.c) /\ IsBit(out.f.c) /\ v \in Int /\ out.val \in Int
  BY Types DEF IInv, IsFlags, IsOut, IsByte
<1>2. Linked("add", 256, v, v, out.val, f.c, out.f.c)
  BY DEF Linked
<1> QED BY <1>1, <1>2, MoreSound DEF Doubling, IInv

LEMMA Halves ==
  ASSUME IInv, NEW v, IsByte(v), NEW out, IsOut(out), v + 256 * f.c = 2 * out.val + out.f.c
  PROVE  Sound(HalfOn(v, out), out.f.c)
<1>1. IsBit(f.c) /\ v \in Int /\ Sound(wide, f.c)
  BY Types DEF IInv, IsFlags, IsByte
<1> QED BY <1>1, HalfOnSound

LEMMA OnAnyByte ==
  ASSUME IInv, NEW v, NEW out, IsOut(out), OnAny(v, out)
  PROVE  TypeOK' /\ f' = out.f
BY BecomesByte, ElsewhereByte DEF IInv, OnAny, Becomes, Elsewhere

LEMMA ShiftsKeep == ASSUME IInv, Shifts PROVE IInv'
<1>0. IsByte(A) /\ IsFlags(f) /\ IsBit(f.c)
  BY Types DEF IInv, IsFlags
<1>1. PICK v \in Operands \cup {A} :
        \/ OnAny(v, sla_n(v)) /\ Shift(v, First("add", 256, v, v, sla_n(v).val, 0))
        \/ OnAny(v, rl_n(v, f.c)) /\ Shift(v, Doubling(v, rl_n(v, f.c)))
        \/ OnAny(v, srl_n(v)) /\ Shift(v, Half(v, srl_n(v)))
        \/ OnAny(v, rr_n(v, f.c)) /\ Shift(v, HalfOn(v, rr_n(v, f.c)))
        \/ \E out \in {rlc_n(v), rrc_n(v), sra_n(v), swap_n(v)} :
             OnAny(v, out) /\ Shift(v, NoSum)
  BY DEF Shifts
<1>2. IsByte(v) /\ v \in Int
  BY <1>0, OperandBytes DEF IsByte
<1>3. CASE OnAny(v, sla_n(v)) /\ Shift(v, First("add", 256, v, v, sla_n(v).val, 0))
  <2>1. IsOut(sla_n(v)) /\ v + v = sla_n(v).val + 256 * sla_n(v).f.c
    BY <1>0, <1>2, Rotates
  <2>2. Linked("add", 256, v, v, sla_n(v).val, 0, sla_n(v).f.c)
    BY <1>2, <2>1 DEF Linked
  <2>3. Sound(First("add", 256, v, v, sla_n(v).val, 0), sla_n(v).f.c)
    BY <1>2, <2>1, <2>2, FirstSound DEF IsOut, IsFlags, IsByte
  <2> QED BY <1>3, <2>1, <2>3, OnAnyByte, Shifted
<1>4. CASE OnAny(v, rl_n(v, f.c)) /\ Shift(v, Doubling(v, rl_n(v, f.c)))
  BY <1>0, <1>2, <1>4, Rotates, Doubles, OnAnyByte, Shifted
<1>5. CASE OnAny(v, srl_n(v)) /\ Shift(v, Half(v, srl_n(v)))
  BY <1>0, <1>2, <1>5, Rotates, HalfSound, OnAnyByte, Shifted
<1>6. CASE OnAny(v, rr_n(v, f.c)) /\ Shift(v, HalfOn(v, rr_n(v, f.c)))
  BY <1>0, <1>2, <1>6, Rotates, Halves, OnAnyByte, Shifted
<1>7. CASE \E out \in {rlc_n(v), rrc_n(v), sra_n(v), swap_n(v)} : OnAny(v, out) /\ Shift(v, NoSum)
  <2>1. PICK out \in {rlc_n(v), rrc_n(v), sra_n(v), swap_n(v)} : OnAny(v, out) /\ Shift(v, NoSum)
    BY <1>7
  <2>3. IsOut(rlc_n(v)) /\ IsOut(rrc_n(v)) /\ IsOut(sra_n(v)) /\ IsOut(swap_n(v))
    BY <1>0, <1>2, Rotates
  <2>2. IsOut(out)
    BY <2>3
  <2> QED BY <2>1, <2>2, OnAnyByte, NoSumSound, Shifted
<1> QED BY <1>1, <1>3, <1>4, <1>5, <1>6, <1>7

LEMMA RotatesKeep == ASSUME IInv, RotateA PROVE IInv'
<1>0. IsByte(A) /\ IsFlags(f) /\ IsBit(f.c)
  BY Types DEF IInv, IsFlags
<1>1. ASSUME NEW out, IsOut(out), Becomes(ClearZ(out))
      PROVE  TypeOK' /\ f'.c = out.f.c
  BY <1>1, ClearsZ, BecomesByte DEF Becomes
<1>2. CASE Becomes(ClearZ(rl_n(A, f.c))) /\ Shift(A, Doubling(A, rl_n(A, f.c)))
  BY <1>0, <1>1, <1>2, Rotates, Doubles, Shifted
<1>3. CASE Becomes(ClearZ(rr_n(A, f.c))) /\ Shift(A, HalfOn(A, rr_n(A, f.c)))
  BY <1>0, <1>1, <1>3, Rotates, Halves, Shifted
<1>4. CASE \E out \in {rlc_n(A), rrc_n(A)} : Becomes(ClearZ(out)) /\ Shift(A, NoSum)
  <2>1. IsOut(rlc_n(A)) /\ IsOut(rrc_n(A))
    BY <1>0, Rotates
  <2> QED BY <1>1, <1>4, <2>1, NoSumSound, Shifted
<1> QED BY <1>2, <1>3, <1>4 DEF RotateA

LEMMA AddHlKeeps == ASSUME IInv, AddHl PROVE IInv'
<1>0. IsFlags(f) /\ IsByte(A) /\ IsBit(0)
  BY Types DEF IInv, IsBit
<1>1. PICK hl \in Words, rr \in Words :
        /\ Elsewhere(add_hl(f, hl, rr))
        /\ wide' = First("add", 65536, hl, rr, add_hl(f, hl, rr).val, 0)
  BY DEF AddHl
<1>2. PICK x \in Nat, y \in Nat : x = hl /\ y = rr /\ x < 65536 /\ y < 65536
  BY AluAssumption DEF IsWord
<1>3. PICK s \in Nat, k \in Nat :
        /\ s = (x + y) % 65536 /\ k = Bit(x + y > 65535) /\ IsBit(k) /\ x + y = s + 65536 * k
  BY <1>2 DEF Bit, IsBit
<1>4. PICK h \in Nat : h = Bit((x % 4096) + (y % 4096) > 4095) /\ IsBit(h)
  BY DEF Bit, IsBit
<1>5. /\ A' = A /\ f' = [z |-> f.z, n |-> 0, h |-> h, c |-> k]
      /\ wide' = First("add", 65536, x, y, s, 0)
  BY <1>1, <1>2, <1>3, <1>4 DEF Elsewhere, add_hl
<1>7. TypeOK'
  BY <1>0, <1>3, <1>4, <1>5 DEF TypeOK, IsFlags
<1>8. Sound(wide, f.c)'
  <2>1. Linked("add", 65536, x, y, s, 0, k)
    BY <1>3 DEF Linked
  <2> QED BY <1>3, <1>5, <2>1, FirstSound
<1> QED BY <1>7, <1>8, NoSumSound, Forgets DEF AddHl

(* The carry of ADD SP,r8 and of LD HL,SP+r8 is that of the lower byte,    *)
(* negative r8 included.                                                   *)
LEMMA SpPlusCarry ==
  ASSUME NEW sp, NEW r8, IsWord(sp), IsDisplacement(r8)
  PROVE  LET out == sp_plus_r8(sp, r8) IN
         /\ IsFlags(out.f)
         /\ sp % 256 \in Nat /\ r8 % 256 \in Nat /\ out.val % 256 \in Nat
         /\ (sp % 256) + (r8 % 256) = (out.val % 256) + 256 * out.f.c
<1>1. PICK x \in Nat, low \in Nat, d \in Int, dl \in Nat :
        /\ x = sp /\ d = r8 /\ -128 <= d /\ d < 128 /\ low = x % 256 /\ low < 256
        /\ dl = d % 256 /\ dl = IF d < 0 THEN d + 256 ELSE d
  BY Wrap DEF IsWord, IsDisplacement
<1>2. PICK sum \in Nat, sl \in Nat :
        /\ sum = (x + d) % 65536 /\ sl = sum % 256 /\ sl < 256
  BY <1>1
<1>3. sl = IF low + dl > 255 THEN low + dl - 256 ELSE low + dl
  <2>1. sl = (x + d) % 256
    BY <1>1, <1>2
  <2>2. (x + d) % 256 = (low + dl) % 256
    BY <1>1
  <2>3. PICK y \in Nat : y = low + dl /\ y < 512
    BY <1>1
  <2> QED BY <2>1, <2>2, <2>3, Wrap
<1>4. PICK c \in Nat : /\ c = IF r8 >= 0 THEN Bit((sp % 256) + r8 > 255) ELSE Bit(sum % 256 <= sp % 256)
                       /\ IsBit(c) /\ low + dl = sl + 256 * c
  BY <1>1, <1>2, <1>3 DEF Bit, IsBit
<1>5. PICK h \in Nat : /\ h = IF r8 >= 0 THEN Bit((sp % 16) + (r8 % 16) > 15) ELSE Bit(sum % 16 <= sp % 16)
                       /\ IsBit(h)
  BY DEF Bit, IsBit
<1>6. sp_plus_r8(sp, r8) = [val |-> sum, f |-> [z |-> 0, n |-> 0, h |-> h, c |-> c]]
  BY <1>1, <1>2, <1>4, <1>5 DEF sp_plus_r8
<1>7. IsBit(0)
  BY DEF IsBit
<1> QED BY <1>1, <1>2, <1>4, <1>5, <1>6, <1>7 DEF IsFlags

LEMMA SpPlusKeeps == ASSUME IInv, SpPlus PROVE IInv'
<1>1. PICK sp \in Words, r8 \in Displacements :
        /\ Elsewhere(sp_plus_r8(sp, r8))
        /\ wide' = First("add", 256, sp % 256, r8 % 256, sp_plus_r8(sp, r8).val % 256, 0)
  BY DEF SpPlus
<1> DEFINE out == sp_plus_r8(sp, r8)
<1>2. IsWord(sp) /\ IsDisplacement(r8)
  BY AluAssumption
<1>3. /\ IsFlags(out.f) /\ sp % 256 \in Nat /\ r8 % 256 \in Nat /\ out.val % 256 \in Nat
      /\ (sp % 256) + (r8 % 256) = (out.val % 256) + 256 * out.f.c
  BY <1>2, SpPlusCarry
<1>4. TypeOK' /\ f' = out.f
  BY <1>1, <1>3 DEF IInv, TypeOK, Elsewhere, IsFlags
<1>5. Sound(wide, f.c)'
  <2>1. PICK l \in Nat, r \in Nat, s \in Nat : l = sp % 256 /\ r = r8 % 256 /\ s = out.val % 256
    BY <1>3
  <2>2. Linked("add", 256, l, r, s, 0, out.f.c) /\ IsBit(out.f.c)
    BY <1>3, <2>1 DEF Linked, IsFlags
  <2> QED BY <1>1, <1>4, <2>1, <2>2, FirstSound
<1> QED BY <1>4, <1>5, NoSumSound, Forgets DEF SpPlus

LEMMA CountsKeep == ASSUME IInv, Count PROVE IInv'
<1>0. IsByte(A) /\ IsFlags(f) /\ IsBit(f.c) /\ TypeOK
  BY Types DEF IInv, IsFlags
<1>1. ASSUME NEW v \in Operands, Elsewhere(inc_n(v, f.c)) \/ Elsewhere(dec_n(v, f.c))
      PROVE  TypeOK' /\ f'.c = f.c
  <2>1. /\ IsOut(inc_n(v, f.c)) /\ inc_n(v, f.c).f.c = f.c
        /\ IsOut(dec_n(v, f.c)) /\ dec_n(v, f.c).f.c = f.c
    BY <1>0, OperandBytes, Counts
  <2> QED BY <1>0, <1>1, <2>1, ElsewhereByte DEF Elsewhere
<1>2. ASSUME Becomes(inc_n(A, f.c)) \/ Becomes(dec_n(A, f.c))
      PROVE  TypeOK'
  <2>1. IsOut(inc_n(A, f.c)) /\ IsOut(dec_n(A, f.c))
    BY <1>0, Counts
  <2> QED BY <1>2, <2>1, BecomesByte
<1> QED BY <1>1, <1>2, Late, Ends DEF Count

LEMMA Next1 == ASSUME IInv, Add \/ Adc \/ Sub \/ Sbc PROVE IInv'
<1>0. IsByte(A) /\ IsFlags(f) /\ IsBit(f.c) /\ IsBit(0)
  BY Types DEF IInv, IsFlags, IsBit
<1>1. /\ add_a_a(A) = adc_a_n(A, A, 0) /\ sub_a(A) = sbc_a_n(A, A, 0)
      /\ adc_a_a(A, f.c) = adc_a_n(A, A, f.c) /\ sbc_a_a(A, f.c) = sbc_a_n(A, A, f.c)
  BY <1>0, OnItself, WithoutCarry
<1>2. CASE Add
  BY <1>0, <1>1, <1>2, OperandBytes, WithoutCarry, Begins DEF Add
<1>3. CASE Adc
  BY <1>0, <1>1, <1>3, OperandBytes, Continues DEF Adc
<1>4. CASE Sub
  BY <1>0, <1>1, <1>4, OperandBytes, WithoutCarry, Begins DEF Sub
<1>5. CASE Sbc
  BY <1>0, <1>1, <1>5, OperandBytes, Continues DEF Sbc
<1> QED BY <1>2, <1>3, <1>4, <1>5

LEMMA Next2 ==
  ASSUME IInv, Compare \/ Logic \/ Scf \/ Ccf \/ Cpl \/ BitTest \/ ResSet \/ Load \/ PopAf
  PROVE  IInv'
<1>0. IsByte(A) /\ IsFlags(f) /\ TypeOK
  BY Types DEF IInv
<1>1. CASE Compare
  <2>1. \A v : IsOut(cp_n(A, v)) /\ IsOut(cp_a(A))
    BY <1>0, Compares
  <2> QED BY <1>1, <2>1, BecomesByte, Ends DEF Compare
<1>2. CASE Logic
  <2>1. \A v : /\ IsOut(and_n(A, v)) /\ IsOut(or_n(A, v)) /\ IsOut(xor_n(A, v))
               /\ IsOut(and_a(A)) /\ IsOut(or_a(A)) /\ IsOut(xor_a(A))
    BY <1>0, Logics
  <2> QED BY <1>2, <2>1, BecomesByte, Ends DEF Logic
<1>3. CASE Scf
  BY <1>0, <1>3, Ends DEF Scf, TypeOK, IsBit
<1>4. CASE Ccf
  BY <1>0, <1>4, Ends DEF Ccf, TypeOK, IsBit
<1>5. CASE Cpl
  BY <1>0, <1>5, Ends DEF Cpl, TypeOK, IsBit, IsByte
<1>6. CASE BitTest
  <2>1. PICK v, b : A' = A /\ wide' = wide /\ TooLateForDaa /\ f' = bit_n(f, b, v)
    BY <1>6 DEF BitTest
  <2>2. PICK z \in Nat : z = Bit(b \notin Bits(v)) /\ IsBit(z)
    BY DEF Bit, IsBit
  <2>3. f' = [z |-> z, n |-> 0, h |-> 1, c |-> f.c]
    BY <2>1, <2>2 DEF bit_n
  <2>4. TypeOK' /\ f'.c = f.c
    BY <1>0, <2>1, <2>2, <2>3 DEF TypeOK, IsBit
  <2> QED BY <2>1, <2>4, Late
<1>7. CASE ResSet
  <2>1. \A b : IsByte(res_n(b, A)) /\ IsByte(set_n(b, A))
    BY Numbers DEF res_n, set_n
  <2> QED BY <1>0, <1>7, <2>1, Ends DEF ResSet, TypeOK
<1>8. CASE Load
  BY <1>0, <1>8, OperandBytes, Late DEF Load, TypeOK
<1>9. CASE PopAf
  <2>1. \A w \in Words : IsOut(pop_af(w))
    BY AluAssumption, PopsAf DEF IsWord
  <2> QED BY <1>9, <2>1, BecomesByte, Ends DEF PopAf
<1> QED BY <1>1, <1>2, <1>3, <1>4, <1>5, <1>6, <1>7, <1>8, <1>9

LEMMA StepInv == IInv /\ [Next]_avars => IInv'
<1> SUFFICES ASSUME IInv, [Next]_avars PROVE IInv'
  OBVIOUS
<1>1. CASE UNCHANGED avars
  BY <1>1 DEF avars, IInv, TypeOK, CarryOfDigits, Remembered
<1>2. CASE Next
  BY <1>2, Next1, Next2, Adjusts, CountsKeep, ShiftsKeep, RotatesKeep, AddHlKeeps,
     SpPlusKeeps, Resumes
  DEF Next
<1> QED BY <1>1, <1>2

LEMMA Inductive == Spec => []IInv
BY InitInv, StepInv, PTL DEF Spec
-----------------------------------------------------------------------------
(* A stays a byte and every flag a bit, for all operands.                  *)
THEOREM TypeCorrect == Spec => []TypeOK
<1>1. IInv => TypeOK
  BY DEF IInv
<1> QED BY <1>1, Inductive, PTL

(* Whatever the operands and however many bytes, ADD then ADC, SUB then    *)
(* SBC, SLA then RL, SRL then RR, ADD HL then ADC and the low byte of      *)
(* ADD SP compute exactly, with the carry that is left at the end.         *)
THEOREM CarriesLink == Spec => []WideArithmetic
<1>1. IInv => WideArithmetic
  BY DEF IInv, Sound, WideArithmetic
<1> QED BY <1>1, Inductive, PTL

(* The same on packed decimal numbers of any length, with DAA after every  *)
(* step: every result is made of decimal digits.                           *)
THEOREM DaaIsDecimal == Spec => []DecimalArithmetic
<1>1. IInv => DecimalArithmetic
  BY DEF IInv, Sound, CarryOfDigits, DecimalArithmetic
<1> QED BY <1>1, Inductive, PTL

(* A byte combined with itself: the functions of their own that the code   *)
(* has for A do what the general ones do, and CP leaves the flags of SUB,  *)
(* after every sequence of instructions.                                   *)
THEOREM OwnOperands == Spec => []OwnOperand
<1>1. IInv => OwnOperand
  <2> SUFFICES ASSUME IInv PROVE OwnOperand
    OBVIOUS
  <2>1. IsByte(A) /\ IsBit(f.c)
    BY Types DEF IInv, IsFlags
  <2>2. \A v \in Operands : cp_n(A, v).f = sub_n(A, v).f
    BY <2>1, OperandBytes, ComparesLikeSub
  <2> QED BY <2>1, <2>2, OnItself, LogicOnItself DEF OwnOperand
<1> QED BY <1>1, Inductive, PTL

LEMMA Undo ==
  ASSUME NEW a \in Nat, a < 256, NEW c \in Nat, IsBit(c)
  PROVE  /\ LET out == rl_n(a, c) IN
              LET back == rr_n(out.val, out.f.c) IN back.val = a /\ back.f.c = c
         /\ LET out == rr_n(a, c) IN
              LET back == rl_n(out.val, out.f.c) IN back.val = a /\ back.f.c = c
         /\ rrc_n(rlc_n(a).val).val = a /\ rlc_n(rrc_n(a).val).val = a
         /\ swap_n(swap_n(a).val).val = a
<1>0. c = 0 \/ c = 1
  BY DEF IsBit
<1>1. PICK t \in Nat, u \in Nat :
        t = a \div 128 /\ u = (2 * a) % 256 /\ t < 2 /\ u < 255 /\ a = 128 * t + (u \div 2) /\ u % 2 = 0
  <2>1. CASE a < 128
    <3>1. (2 * a) % 256 = 2 * a /\ a \div 128 = 0
      BY <2>1
    <3> QED BY <2>1, <3>1
  <2>2. CASE a >= 128
    <3>1. (2 * a) % 256 = 2 * a - 256 /\ a \div 128 = 1
      BY <2>2
    <3> QED BY <2>2, <3>1
  <2> QED BY <2>1, <2>2
<1>2. PICK q \in Nat, r \in Nat :
        q = a \div 2 /\ r = a % 2 /\ q < 128 /\ r < 2 /\ a = 2 * q + r
  OBVIOUS
<1>3. PICK x \in Nat, y \in Nat :
        x = a \div 16 /\ y = a % 16 /\ x < 16 /\ y < 16 /\ a = 16 * x + y
  OBVIOUS
<1>4. rl_n(a, c).val = u + c /\ rl_n(a, c).f.c = t
  BY <1>1 DEF rl_n, Out
<1>5. rr_n(u + c, t).val = a /\ rr_n(u + c, t).f.c = c
  <2>1. (u + c) \div 2 = u \div 2 /\ (u + c) % 2 = c
    BY <1>0, <1>1
  <2> QED BY <1>1, <2>1 DEF rr_n, Out
<1>6. rr_n(a, c).val = q + 128 * c /\ rr_n(a, c).f.c = r
  BY <1>2 DEF rr_n, Out
<1>7. rl_n(q + 128 * c, r).val = a /\ rl_n(q + 128 * c, r).f.c = c
  <2>1. (2 * (q + 128 * c)) % 256 = 2 * q /\ (q + 128 * c) \div 128 = c
    BY <1>0, <1>2
  <2> QED BY <1>2, <2>1 DEF rl_n, Out
<1>8. rrc_n(rlc_n(a).val).val = a
  <2>1. rlc_n(a).val = u + t
    BY <1>1 DEF rlc_n, Out
  <2>2. (u + t) \div 2 = u \div 2 /\ (u + t) % 2 = t
    BY <1>1
  <2> QED BY <1>1, <2>1, <2>2 DEF rrc_n, Out
<1>9. rlc_n(rrc_n(a).val).val = a
  <2>1. rrc_n(a).val = q + 128 * r
    BY <1>2 DEF rrc_n, Out
  <2>2. (2 * (q + 128 * r)) % 256 = 2 * q /\ (q + 128 * r) \div 128 = r
    BY <1>2
  <2> QED BY <1>2, <2>1, <2>2 DEF rlc_n, Out
<1>10. swap_n(swap_n(a).val).val = a
  <2>1. (16 * a) % 256 = 16 * y
    BY <1>3
  <2>2. swap_n(a).val = 16 * y + x
    BY <1>3, <2>1 DEF swap_n, Out
  <2>3. (16 * (16 * y + x)) % 256 = 16 * x /\ (16 * y + x) \div 16 = y
    BY <1>3
  <2> QED BY <1>3, <2>2, <2>3 DEF swap_n, Out
<1> QED BY <1>4, <1>5, <1>6, <1>7, <1>8, <1>9, <1>10

(* RL and RR undo each other through the carry, RLC and RRC without it,    *)
(* and SWAP undoes itself, for every byte and carry.                       *)
THEOREM RotatesInvertible == Spec => []RotatesUndo
<1>1. IInv => RotatesUndo
  <2> SUFFICES ASSUME IInv PROVE RotatesUndo
    OBVIOUS
  <2>1. PICK a \in Nat, c \in Nat : a = A /\ c = f.c /\ a < 256 /\ IsBit(c)
    BY Types DEF IInv, IsFlags, IsByte, IsBit
  <2> QED BY <2>1, Undo DEF RotatesUndo
<1> QED BY <1>1, Inductive, PTL
-----------------------------------------------------------------------------
(* Numbers and loops, for Picture. *)

LEMMA Least ==
  ASSUME NEW T \in SUBSET Nat, T # {}
  PROVE  \E m \in T : \A k \in T : m <= k
<1> DEFINE R == {ss \in Nat \X Nat : ss[1] < ss[2]}
<1>1. IsWellFoundedOn(R, Nat)
  BY NatLessThanWellFounded DEF OpToRel
<1>2. PICK m \in T : \A k \in T : ~(<<k, m>> \in R)
  <2> HIDE DEF R
  <2> QED BY <1>1, WFMin, Zenon
<1>3. ASSUME NEW k \in T PROVE m <= k
  <2>1. m \in Nat /\ k \in Nat
    OBVIOUS
  <2>2. <<k, m>> \notin R
    BY <1>2
  <2> QED BY <2>1, <2>2
<1> QED BY <1>3

\* Induction over the natural numbers, for a set instead of a predicate.
LEMMA Induction ==
  ASSUME NEW S, 0 \in S, \A n \in Nat : n \in S => n + 1 \in S
  PROVE  Nat \subseteq S
<1> SUFFICES ASSUME Nat \ S # {} PROVE FALSE
  OBVIOUS
<1>1. PICK m \in Nat \ S : \A k \in Nat \ S : m <= k
  BY Least
<1>2. m # 0 /\ m - 1 \in Nat
  OBVIOUS
<1>3. m - 1 \in S
  BY <1>1, <1>2
<1>4. (m - 1) + 1 \in S
  BY <1>2, <1>3
<1> QED BY <1>4

\* What a loop that takes step[i] in round i has computed after each round.
Rounds(g, N, base, step) == g[0] = base /\ \A i \in 1 .. N : g[i] = step[i][g[i - 1]]

LEMMA LoopRuns ==
  ASSUME NEW N \in Nat, NEW R, NEW base \in R, NEW step \in [1 .. N -> [R -> R]]
  PROVE  \E g \in [0 .. N -> R] : Rounds(g, N, base, step)
<1> DEFINE S == {n \in Nat : n <= N => \E g \in [0 .. n -> R] : Rounds(g, n, base, step)}
<1>1. 0 \in S
  <2>1. [i \in 0 .. 0 |-> base] \in [0 .. 0 -> R] /\ Rounds([i \in 0 .. 0 |-> base], 0, base, step)
    BY DEF Rounds
  <2> QED BY <2>1
<1>2. ASSUME NEW n \in Nat, n \in S PROVE n + 1 \in S
  <2>1. SUFFICES ASSUME n + 1 <= N
                 PROVE  \E h \in [0 .. n + 1 -> R] : Rounds(h, n + 1, base, step)
    OBVIOUS
  <2>2. PICK g \in [0 .. n -> R] : Rounds(g, n, base, step)
    BY <1>2, <2>1
  <2> DEFINE h == [i \in 0 .. n + 1 |-> IF i = n + 1 THEN step[n + 1][g[n]] ELSE g[i]]
  <2>3. h \in [0 .. n + 1 -> R]
    BY <2>1
  <2>4. Rounds(h, n + 1, base, step)
    BY <2>1, <2>2 DEF Rounds
  <2> QED BY <2>3, <2>4
<1>3. N \in S
  <2> HIDE DEF S
  <2> QED BY <1>1, <1>2, Induction
<1> QED BY <1>3

\* A loop whose rounds stay in R ends there.
LEMMA LoopStays ==
  ASSUME NEW N \in Nat, NEW R, NEW h, h[0] \in R,
         \A i \in 1 .. N : h[i - 1] \in R => h[i] \in R
  PROVE  \A i \in 0 .. N : h[i] \in R
<1> DEFINE S == {n \in Nat : n <= N => h[n] \in R}
<1>1. 0 \in S
  OBVIOUS
<1>2. ASSUME NEW n \in Nat, n \in S PROVE n + 1 \in S
  <2>1. SUFFICES ASSUME n + 1 \in 1 .. N PROVE h[n + 1] \in R
    OBVIOUS
  <2>2. h[(n + 1) - 1] \in R => h[n + 1] \in R
    BY <2>1
  <2> QED BY <1>2, <2>1, <2>2
<1>3. Nat \subseteq S
  <2> HIDE DEF S
  <2> QED BY <1>1, <1>2, Induction
<1> QED BY <1>3

LEMMA ShapeBytes ==
  \A s \in Shapes :
    /\ s.x \in Int /\ 0 <= s.x /\ s.x <= 255
    /\ s.y \in Int /\ 0 <= s.y /\ s.y <= 255
    /\ s.tile \in Int /\ 0 <= s.tile /\ s.tile <= 255
BY ShapeAssumption

LEMMA SeqOfFcn ==
  ASSUME NEW S, NEW n \in Nat, NEW s \in [1 .. n -> S]
  PROVE  s \in Seq(S) /\ Len(s) = n
OBVIOUS

LEMMA FcnOfSeq ==
  ASSUME NEW S, NEW s \in Seq(S)
  PROVE  /\ Len(s) \in Nat /\ DOMAIN s = 1 .. Len(s) /\ s \in [1 .. Len(s) -> S]
OBVIOUS

LEMMA Appends ==
  ASSUME NEW S, NEW s \in Seq(S), NEW e \in S
  PROVE  /\ Append(s, e) \in Seq(S) /\ Len(Append(s, e)) = Len(s) + 1
         /\ \A k \in 1 .. Len(s) : Append(s, e)[k] = s[k]
         /\ Append(s, e)[Len(s) + 1] = e
OBVIOUS
-----------------------------------------------------------------------------
HereBefore(memory, y, big, i) == {j \in Index : j < i /\ OnLine(memory[j], y, big)}

Adds(found, memory, y, big, i) ==
  IF Len(found) < Limit /\ OnLine(memory[i - 1], y, big)
    THEN Append(found, memory[i - 1]) ELSE found

LEMMA FoundRuns ==
  ASSUME NEW memory \in [Index -> Shapes], NEW y, NEW big
  PROVE  \E g : /\ \A i \in 0 .. Entries : g[i] \in Seq(Shapes)
                /\ g[0] = <<>> /\ Found(memory, y, big) = g[Entries]
                /\ \A i \in 1 .. Entries : g[i] = Adds(g[i - 1], memory, y, big, i)
<1>0. Entries \in Nat /\ <<>> \in Seq(Shapes)
  BY PictureAssumption
<1> USE <1>0
<1> DEFINE step == [i \in 1 .. Entries |-> [s \in Seq(Shapes) |-> Adds(s, memory, y, big, i)]]
           Body(h) == [i \in 0 .. Entries |-> IF i = 0 THEN <<>>
                        ELSE IF Len(h[i - 1]) < Limit /\ OnLine(memory[i - 1], y, big)
                               THEN Append(h[i - 1], memory[i - 1]) ELSE h[i - 1]]
<1>1. ASSUME NEW i \in 1 .. Entries, NEW s \in Seq(Shapes)
      PROVE  Adds(s, memory, y, big, i) \in Seq(Shapes)
  <2>1. memory[i - 1] \in Shapes
    BY DEF Index
  <2> QED BY <2>1, Appends DEF Adds
<1>2. PICK h \in [0 .. Entries -> Seq(Shapes)] : Rounds(h, Entries, <<>>, step)
  <2>1. step \in [1 .. Entries -> [Seq(Shapes) -> Seq(Shapes)]]
    BY <1>1
  <2> HIDE DEF step
  <2> QED BY <2>1, LoopRuns
<1>3. h = Body(h)
  <2>1. ASSUME NEW i \in 0 .. Entries, i # 0 PROVE h[i] = Body(h)[i]
    <3>0. i \in 1 .. Entries /\ i - 1 \in 0 .. Entries
      BY <2>1
    <3>1. h[i - 1] \in Seq(Shapes) /\ h[i] = step[i][h[i - 1]]
      <4> HIDE DEF step
      <4> QED BY <1>2, <3>0 DEF Rounds
    <3> QED BY <3>1, <2>1 DEF Adds
  <2> QED BY <1>2, <2>1 DEF Rounds
<1>4. PICK g : g = Body(g) /\ Found(memory, y, big) = g[Entries]
  <2>1. Found(memory, y, big) = (CHOOSE loop : loop = Body(loop))[Entries]
    BY DEF Found
  <2> HIDE DEF Body
  <2> QED BY <1>3, <2>1
<1>5. g[0] = <<>> /\ \A i \in 1 .. Entries : g[i] = Adds(g[i - 1], memory, y, big, i)
  <2>1. \A i \in 0 .. Entries : g[i] = Body(g)[i]
    BY <1>4, Zenon
  <2> QED BY <2>1 DEF Adds
<1>6. \A i \in 0 .. Entries : g[i] \in Seq(Shapes)
  <2>2. g[0] \in Seq(Shapes)
    BY <1>5
  <2>3. ASSUME NEW i \in 1 .. Entries, g[i - 1] \in Seq(Shapes) PROVE g[i] \in Seq(Shapes)
    BY <1>1, <1>5, <2>3, Zenon
  <2> HIDE DEF Body
  <2> QED BY <2>2, <2>3, LoopStays
<1> QED BY <1>4, <1>5, <1>6
-----------------------------------------------------------------------------
LEMMA HereCounted ==
  ASSUME NEW memory, NEW y, NEW big, NEW i \in Nat
  PROVE  LET here == HereBefore(memory, y, big, i) IN
         /\ IsFiniteSet(here) /\ Cardinality(here) \in Nat /\ i \notin here
<1> DEFINE here == HereBefore(memory, y, big, i)
<1>1. Entries - 1 \in Int
  BY PictureAssumption
<1>2. IsFiniteSet(0 .. Entries - 1)
  BY <1>1, FS_Interval
<1>3. here \in SUBSET (0 .. Entries - 1) /\ i \notin here
  BY DEF HereBefore, Index
<1>4. IsFiniteSet(here)
  BY <1>2, <1>3, FS_Subset
<1> QED BY <1>3, <1>4, FS_CardinalityType

LEMMA HereGrows ==
  ASSUME NEW memory, NEW y, NEW big, NEW i \in Index
  PROVE  LET here == HereBefore(memory, y, big, i)
             more == HereBefore(memory, y, big, i + 1)
         IN  IF OnLine(memory[i], y, big)
               THEN more = here \cup {i} /\ Cardinality(more) = Cardinality(here) + 1
               ELSE more = here
<1> DEFINE here == HereBefore(memory, y, big, i)
           more == HereBefore(memory, y, big, i + 1)
<1>0. i \in Nat
  BY DEF Index
<1>1. IsFiniteSet(here) /\ i \notin here
  BY <1>0, HereCounted
<1>2. more = IF OnLine(memory[i], y, big) THEN here \cup {i} ELSE here
  BY PictureAssumption DEF HereBefore, Index
<1> HIDE DEF here, more
<1>3. Cardinality(here \cup {i}) = Cardinality(here) + 1
  BY <1>1, FS_AddElement
<1> QED BY <1>2, <1>3 DEF here, more

LEMMA HereNone ==
  ASSUME NEW memory, NEW y, NEW big
  PROVE  HereBefore(memory, y, big, 0) = {} /\ Cardinality({}) = 0
<1>1. HereBefore(memory, y, big, 0) = {}
  BY DEF HereBefore, Index
<1> QED BY <1>1, FS_EmptySet

\* Those of them that fit into the array.
KeptBefore(memory, y, big, i) ==
  {j \in HereBefore(memory, y, big, i) : Cardinality(HereBefore(memory, y, big, j)) < Limit}

\* s holds the entries of memory that order names, which are those of places.
Lists(s, memory, order, places) ==
  /\ order \in [1 .. Len(s) -> Index]
  /\ \A k \in 1 .. Len(s) : s[k] = memory[order[k]]
  /\ \A k \in 1 .. Len(s) : order[k] \in places
  /\ \A j \in places : \E k \in 1 .. Len(s) : order[k] = j

Rising(order, n) == \A k, l \in 1 .. n : k < l => order[k] < order[l]

FoundSoFar(s, memory, y, big, i) ==
  LET count == Cardinality(HereBefore(memory, y, big, i)) IN
  /\ Len(s) = IF count < Limit THEN count ELSE Limit
  /\ \E order : Lists(s, memory, order, KeptBefore(memory, y, big, i)) /\ Rising(order, Len(s))

LEMMA FoundStep ==
  ASSUME NEW memory \in [Index -> Shapes], NEW y, NEW big, NEW i \in Index,
         NEW s \in Seq(Shapes), FoundSoFar(s, memory, y, big, i)
  PROVE  FoundSoFar(Adds(s, memory, y, big, i + 1), memory, y, big, i + 1)
<1> DEFINE here == HereBefore(memory, y, big, i)
           more == HereBefore(memory, y, big, i + 1)
           count == Cardinality(here)
           kept == KeptBefore(memory, y, big, i)
<1>0. i \in Nat /\ i + 1 \in Nat /\ (i + 1) - 1 = i /\ Limit \in Nat /\ count \in Nat
  BY PictureAssumption, HereCounted DEF Index
<1>1. PICK order : Lists(s, memory, order, kept) /\ Rising(order, Len(s))
  BY DEF FoundSoFar
<1>2. Len(s) = (IF count < Limit THEN count ELSE Limit) /\ Len(s) \in Nat
  BY DEF FoundSoFar
<1>3. CASE ~OnLine(memory[i], y, big)
  <2>1. more = here
    BY <1>3, HereGrows
  <2>2. KeptBefore(memory, y, big, i + 1) = kept
    BY <2>1 DEF KeptBefore
  <2>3. Adds(s, memory, y, big, i + 1) = s
    BY <1>0, <1>3 DEF Adds
  <2> QED BY <2>1, <2>2, <2>3 DEF FoundSoFar
<1>4. CASE OnLine(memory[i], y, big)
  <2>1. more = here \cup {i} /\ Cardinality(more) = count + 1
    BY <1>4, HereGrows
  <2>2. KeptBefore(memory, y, big, i + 1) = IF count < Limit THEN kept \cup {i} ELSE kept
    BY <2>1 DEF KeptBefore
  <2>3. CASE count < Limit
    <3> DEFINE t == Append(s, memory[i])
               next == [k \in 1 .. Len(s) + 1 |-> IF k = Len(s) + 1 THEN i ELSE order[k]]
    <3>1. Adds(s, memory, y, big, i + 1) = t
      BY <1>0, <1>2, <1>4, <2>3 DEF Adds
    <3>2. /\ Len(t) = Len(s) + 1 /\ t[Len(s) + 1] = memory[i]
          /\ \A k \in 1 .. Len(s) : t[k] = s[k]
      BY Appends
    <3> HIDE DEF t
    <3>3. \A k \in 1 .. Len(s) : order[k] \in Index /\ order[k] < i
      BY <1>1 DEF Lists, KeptBefore, HereBefore
    <3>4. Lists(t, memory, next, kept \cup {i})
      <4>1. next \in [1 .. Len(t) -> Index]
        BY <1>2, <3>2, <3>3
      <4>2. \A k \in 1 .. Len(t) : t[k] = memory[next[k]]
        BY <1>1, <1>2, <3>2 DEF Lists
      <4>3. \A k \in 1 .. Len(t) : next[k] \in kept \cup {i}
        BY <1>1, <1>2, <3>2 DEF Lists
      <4>4. \A j \in kept \cup {i} : \E k \in 1 .. Len(t) : next[k] = j
        <5>1. next[Len(t)] = i /\ Len(t) \in 1 .. Len(t)
          BY <1>2, <3>2
        <5>2. \A k \in 1 .. Len(s) : next[k] = order[k] /\ k \in 1 .. Len(t)
          BY <1>2, <3>2
        <5> QED BY <1>1, <5>1, <5>2 DEF Lists
      <4> QED BY <4>1, <4>2, <4>3, <4>4 DEF Lists
    <3>5. Rising(next, Len(t))
      BY <1>0, <1>1, <1>2, <3>2, <3>3 DEF Rising, Index
    <3>6. Len(t) = IF count + 1 < Limit THEN count + 1 ELSE Limit
      BY <1>0, <1>2, <2>3, <3>2
    <3> HIDE DEF next
    <3> QED BY <2>1, <2>2, <2>3, <3>1, <3>4, <3>5, <3>6 DEF FoundSoFar
  <2>4. CASE ~(count < Limit)
    <3>1. Adds(s, memory, y, big, i + 1) = s
      BY <1>0, <1>2, <2>4 DEF Adds
    <3> QED BY <1>0, <1>1, <1>2, <2>1, <2>2, <2>4, <3>1 DEF FoundSoFar
  <2> QED BY <2>3, <2>4
<1> QED BY <1>3, <1>4

LEMMA FoundLists ==
  ASSUME NEW memory \in [Index -> Shapes], NEW y, NEW big
  PROVE  /\ Found(memory, y, big) \in Seq(Shapes)
         /\ FoundSoFar(Found(memory, y, big), memory, y, big, Entries)
<1>0. Entries \in Nat /\ Limit \in Nat
  BY PictureAssumption
<1>1. PICK g : /\ \A i \in 0 .. Entries : g[i] \in Seq(Shapes)
               /\ g[0] = <<>> /\ Found(memory, y, big) = g[Entries]
               /\ \A i \in 1 .. Entries : g[i] = Adds(g[i - 1], memory, y, big, i)
  BY FoundRuns
<1> DEFINE S == {n \in Nat : n <= Entries => FoundSoFar(g[n], memory, y, big, n)}
<1>2. 0 \in S
  <2>1. FoundSoFar(<<>>, memory, y, big, 0)
    <3>1. Lists(<<>>, memory, <<>>, KeptBefore(memory, y, big, 0))
      BY HereNone DEF Lists, KeptBefore
    <3>2. Rising(<<>>, Len(<<>>))
      BY DEF Rising
    <3>3. Cardinality(HereBefore(memory, y, big, 0)) = 0
      BY HereNone
    <3>4. Len(<<>>) = IF 0 < Limit THEN 0 ELSE Limit
      BY <1>0
    <3>5. \E order : /\ Lists(<<>>, memory, order, KeptBefore(memory, y, big, 0))
                    /\ Rising(order, Len(<<>>))
      BY <3>1, <3>2, Zenon
    <3> QED BY <3>3, <3>4, <3>5, Zenon DEF FoundSoFar
  <2> QED BY <1>1, <2>1
<1>3. ASSUME NEW n \in Nat, n \in S PROVE n + 1 \in S
  <2>1. SUFFICES ASSUME n + 1 <= Entries PROVE FoundSoFar(g[n + 1], memory, y, big, n + 1)
    OBVIOUS
  <2>2. n \in Index /\ n \in 0 .. Entries /\ n + 1 \in 1 .. Entries /\ (n + 1) - 1 = n
    BY <1>0, <2>1 DEF Index
  <2>3. FoundSoFar(g[n], memory, y, big, n)
    BY <1>3, <2>2
  <2>4. g[n + 1] = Adds(g[n], memory, y, big, n + 1) /\ g[n] \in Seq(Shapes)
    BY <1>1, <2>2
  <2> QED BY <2>2, <2>3, <2>4, FoundStep
<1>4. Entries \in S
  <2> HIDE DEF S
  <2> QED BY <1>0, <1>2, <1>3, Induction
<1>5. FoundSoFar(g[Entries], memory, y, big, Entries)
  BY <1>0, <1>4
<1> QED BY <1>0, <1>1, <1>5
-----------------------------------------------------------------------------
(* Insertion sort. *)

LEMMA LargestIs ==
  ASSUME NEW n \in Nat, NEW P \in SUBSET (0 .. n), P # {}
  PROVE  Largest(P) \in P /\ \A k \in P : k <= Largest(P)
<1> DEFINE Q == {n - k : k \in P}
<1>0. \A k \in P : k \in 0 .. n /\ n - k \in Nat
  OBVIOUS
<1>1. Q \in SUBSET Nat /\ Q # {}
  BY <1>0
<1>2. PICK q \in Q : \A r \in Q : q <= r
  <2> HIDE DEF Q
  <2> QED BY <1>1, Least
<1>3. PICK j \in P : q = n - j
  BY <1>2
<1>4. \A k \in P : k <= j
  <2> SUFFICES ASSUME NEW k \in P PROVE k <= j
    OBVIOUS
  <2>1. n - k \in Q /\ k \in Int /\ j \in Int
    BY <1>0
  <2>2. q <= n - k
    BY <1>2, <2>1
  <2> QED BY <1>3, <2>1, <2>2
<1> HIDE DEF Q
<1> QED BY <1>3, <1>4 DEF Largest

\* Where Insert puts e: after the last one that is not larger.
LEMMA InsertPlace ==
  ASSUME NEW t \in Seq(Shapes), NEW e \in Shapes
  PROVE  \E p \in 0 .. Len(t) :
           /\ Insert(t, e) = InsertAfter(t, p, e)
           /\ p # 0 => t[p].x <= e.x
           /\ \A k \in 1 .. Len(t) : p < k => e.x < t[k].x
<1> DEFINE P == {0} \cup {j \in DOMAIN t : ~(t[j].x > e.x)}
           p == Largest(P)
<1>0. Len(t) \in Nat /\ DOMAIN t = 1 .. Len(t)
  OBVIOUS
<1>1. P \in SUBSET (0 .. Len(t)) /\ P # {}
  BY <1>0
<1>2. p \in P /\ \A k \in P : k <= p
  <2> HIDE DEF P
  <2> QED BY <1>0, <1>1, LargestIs
<1> HIDE DEF p
<1>3. \A k \in 1 .. Len(t) : t[k].x \in Int /\ e.x \in Int
  <2>1. \A k \in 1 .. Len(t) : t[k] \in Shapes
    OBVIOUS
  <2> QED BY <2>1, ShapeBytes
<1>4. p # 0 => p \in 1 .. Len(t) /\ t[p].x <= e.x
  BY <1>0, <1>2, <1>3
<1>5. ASSUME NEW k \in 1 .. Len(t), p < k PROVE e.x < t[k].x
  <2>1. k \notin P
    BY <1>0, <1>1, <1>2, <1>5
  <2> QED BY <1>0, <1>3, <2>1
<1>6. Insert(t, e) = InsertAfter(t, p, e)
  BY DEF Insert, p
<1> QED BY <1>0, <1>1, <1>2, <1>4, <1>5, <1>6

LEMMA InsertIs ==
  ASSUME NEW t \in Seq(Shapes), NEW e \in Shapes, NEW p \in 0 .. Len(t)
  PROVE  LET u == InsertAfter(t, p, e) IN
         /\ u \in Seq(Shapes) /\ Len(u) = Len(t) + 1
         /\ \A k \in 1 .. Len(t) + 1 :
              u[k] = IF k <= p THEN t[k] ELSE IF k = p + 1 THEN e ELSE t[k - 1]
<1> DEFINE u == InsertAfter(t, p, e)
<1>0. Len(t) \in Nat /\ \A k \in 1 .. Len(t) : t[k] \in Shapes
  OBVIOUS
<1>1. \A k \in 1 .. Len(t) + 1 :
        u[k] = IF k <= p THEN t[k] ELSE IF k = p + 1 THEN e ELSE t[k - 1]
  BY DEF InsertAfter
<1>2. ASSUME NEW k \in 1 .. Len(t) + 1 PROVE u[k] \in Shapes
  <2>1. CASE k <= p
    BY <1>0, <1>1, <2>1
  <2>2. CASE k = p + 1
    BY <1>0, <1>1, <2>2
  <2>3. CASE k > p + 1
    <3>1. k - 1 \in 1 .. Len(t)
      BY <1>0, <2>3
    <3> QED BY <1>0, <1>1, <2>3, <3>1
  <2> QED BY <1>0, <2>1, <2>2, <2>3
<1>3. u \in [1 .. Len(t) + 1 -> Shapes]
  BY <1>2 DEF InsertAfter
<1> HIDE DEF u
<1>4. u \in Seq(Shapes) /\ Len(u) = Len(t) + 1
  BY <1>0, <1>3, SeqOfFcn
<1> QED BY <1>1, <1>4 DEF u

LEMMA SortRuns ==
  ASSUME NEW s \in Seq(Shapes)
  PROVE  \E g : /\ \A i \in 0 .. Len(s) : g[i] \in Seq(Shapes)
                /\ g[0] = <<>> /\ sort_sprites_by_priority(s) = g[Len(s)]
                /\ \A i \in 1 .. Len(s) : g[i] = Insert(g[i - 1], s[i])
<1>0. Len(s) \in Nat /\ <<>> \in Seq(Shapes) /\ \A i \in 1 .. Len(s) : s[i] \in Shapes
  OBVIOUS
<1> USE <1>0
<1> DEFINE step == [i \in 1 .. Len(s) |-> [t \in Seq(Shapes) |-> Insert(t, s[i])]]
           Body(h) == [i \in 0 .. Len(s) |-> IF i = 0 THEN <<>> ELSE Insert(h[i - 1], s[i])]
<1>1. ASSUME NEW i \in 1 .. Len(s), NEW t \in Seq(Shapes) PROVE Insert(t, s[i]) \in Seq(Shapes)
  <2>1. PICK e \in Shapes : e = s[i]
    BY <1>0
  <2>2. PICK p \in 0 .. Len(t) : Insert(t, e) = InsertAfter(t, p, e)
    BY InsertPlace
  <2>3. InsertAfter(t, p, e) \in Seq(Shapes)
    BY InsertIs
  <2> QED BY <2>1, <2>2, <2>3
<1>2. PICK h \in [0 .. Len(s) -> Seq(Shapes)] : Rounds(h, Len(s), <<>>, step)
  <2>1. step \in [1 .. Len(s) -> [Seq(Shapes) -> Seq(Shapes)]]
    BY <1>1
  <2> HIDE DEF step
  <2> QED BY <2>1, LoopRuns
<1>3. h = Body(h)
  <2>1. ASSUME NEW i \in 0 .. Len(s), i # 0 PROVE h[i] = Body(h)[i]
    <3>0. i \in 1 .. Len(s) /\ i - 1 \in 0 .. Len(s)
      BY <2>1
    <3>1. h[i - 1] \in Seq(Shapes) /\ h[i] = step[i][h[i - 1]]
      <4> HIDE DEF step
      <4> QED BY <1>2, <3>0 DEF Rounds
    <3> QED BY <3>0, <3>1, <2>1
  <2> QED BY <1>2, <2>1 DEF Rounds
<1>4. PICK g : g = Body(g) /\ sort_sprites_by_priority(s) = g[Len(s)]
  <2>1. sort_sprites_by_priority(s) = (CHOOSE loop : loop = Body(loop))[Len(s)]
    BY DEF sort_sprites_by_priority
  <2> HIDE DEF Body
  <2> QED BY <1>3, <2>1
<1>5. g[0] = <<>> /\ \A i \in 1 .. Len(s) : g[i] = Insert(g[i - 1], s[i])
  <2>1. \A i \in 0 .. Len(s) : g[i] = Body(g)[i]
    BY <1>4, Zenon
  <2> QED BY <2>1
<1>6. \A i \in 0 .. Len(s) : g[i] \in Seq(Shapes)
  <2>1. g[0] \in Seq(Shapes)
    BY <1>5
  <2>2. \A i \in 1 .. Len(s) : g[i - 1] \in Seq(Shapes) => g[i] \in Seq(Shapes)
    BY <1>1, <1>5
  <2> QED BY <2>1, <2>2, LoopStays
<1> QED BY <1>4, <1>5, <1>6

\* The order that the sort must leave places k and l of s in.
Earlier(s, k, l) == s[k].x < s[l].x \/ (s[k].x = s[l].x /\ k < l)

\* t holds the first n elements of s, rearranged by perm into that order.
Arranges(t, s, perm, n) ==
  /\ perm \in [1 .. n -> 1 .. n]
  /\ \A k \in 1 .. n : t[k] = s[perm[k]]
  /\ \A j \in 1 .. n : \E k \in 1 .. n : perm[k] = j
  /\ \A k, l \in 1 .. n : k < l => Earlier(s, perm[k], perm[l])

LEMMA InsertArranges ==
  ASSUME NEW s \in Seq(Shapes), NEW n \in Nat, n + 1 <= Len(s),
         NEW t \in Seq(Shapes), Len(t) = n, NEW perm, Arranges(t, s, perm, n)
  PROVE  /\ Len(Insert(t, s[n + 1])) = n + 1
         /\ \E next : Arranges(Insert(t, s[n + 1]), s, next, n + 1)
<1>1. PICK e \in Shapes : e = s[n + 1]
  OBVIOUS
<1>2. PICK p \in 0 .. n : /\ Insert(t, e) = InsertAfter(t, p, e)
                          /\ p # 0 => t[p].x <= e.x
                          /\ \A k \in 1 .. n : p < k => e.x < t[k].x
  BY InsertPlace
<1>3. PICK u : /\ u = Insert(t, s[n + 1]) /\ Len(u) = n + 1
               /\ \A k \in 1 .. n + 1 :
                    u[k] = IF k <= p THEN t[k] ELSE IF k = p + 1 THEN e ELSE t[k - 1]
  <2>1. p \in 0 .. Len(t)
    OBVIOUS
  <2>2. LET w == InsertAfter(t, p, e) IN
        /\ Len(w) = n + 1
        /\ \A k \in 1 .. n + 1 :
             w[k] = IF k <= p THEN t[k] ELSE IF k = p + 1 THEN e ELSE t[k - 1]
    BY <1>1, <2>1, InsertIs
  <2> QED BY <1>1, <1>2, <2>2
<1> DEFINE next == [k \in 1 .. n + 1 |-> IF k <= p THEN perm[k] ELSE IF k = p + 1 THEN n + 1
                                       ELSE perm[k - 1]]
<1>4. /\ \A k \in 1 .. n : perm[k] \in 1 .. n /\ t[k] = s[perm[k]]
      /\ \A j \in 1 .. n : \E k \in 1 .. n : perm[k] = j
      /\ \A k, l \in 1 .. n : k < l => Earlier(s, perm[k], perm[l])
  BY DEF Arranges
<1>5. \A k \in 1 .. n : perm[k] \in Int /\ s[perm[k]].x \in Int /\ e.x \in Int
  <2>1. \A j \in 1 .. n : s[j] \in Shapes
    OBVIOUS
  <2> QED BY <1>4, <2>1, ShapeBytes
<1>6. ASSUME NEW k \in 1 .. n + 1 PROVE next[k] \in 1 .. n + 1 /\ u[k] = s[next[k]]
  <2>1. CASE k <= p
    <3>1. k \in 1 .. n /\ next[k] = perm[k] /\ u[k] = t[k]
      BY <1>3, <2>1
    <3>2. perm[k] \in 1 .. n /\ t[k] = s[perm[k]]
      BY <1>4, <3>1
    <3> QED BY <3>1, <3>2
  <2>2. CASE k = p + 1
    <3>1. next[k] = n + 1 /\ u[k] = e
      BY <1>3, <2>2
    <3> QED BY <1>1, <3>1
  <2>3. CASE k > p + 1
    <3>1. k - 1 \in 1 .. n /\ next[k] = perm[k - 1] /\ u[k] = t[k - 1]
      BY <1>3, <2>3
    <3>2. perm[k - 1] \in 1 .. n /\ t[k - 1] = s[perm[k - 1]]
      BY <1>4, <3>1
    <3> QED BY <3>1, <3>2
  <2> QED BY <2>1, <2>2, <2>3
<1>7. ASSUME NEW j \in 1 .. n + 1 PROVE \E k \in 1 .. n + 1 : next[k] = j
  <2>1. CASE j = n + 1
    <3>1. p + 1 \in 1 .. n + 1 /\ next[p + 1] = j
      BY <2>1
    <3> QED BY <3>1
  <2>2. CASE j # n + 1
    <3>0. j \in 1 .. n
      BY <2>2
    <3>1. PICK k \in 1 .. n : perm[k] = j
      BY <1>4, <3>0
    <3>2. CASE k <= p
      BY <3>1, <3>2
    <3>3. CASE ~(k <= p)
      <4>1. k + 1 \in 1 .. n + 1 /\ next[k + 1] = j
        BY <3>1, <3>3
      <4> QED BY <4>1
    <3> QED BY <3>2, <3>3
  <2> QED BY <2>1, <2>2
<1>8. \A k \in 1 .. n : k <= p => Earlier(s, perm[k], n + 1)
  <2> SUFFICES ASSUME NEW k \in 1 .. n, k <= p PROVE Earlier(s, perm[k], n + 1)
    OBVIOUS
  <2>0. p \in 1 .. n /\ p # 0
    OBVIOUS
  <2>1. p \in 1 .. n /\ s[perm[p]].x <= s[n + 1].x
    <3>1. t[p].x <= e.x /\ t[p] = s[perm[p]]
      BY <1>2, <1>4, <2>0
    <3> QED BY <1>1, <2>0, <3>1
  <2>2. s[perm[k]].x <= s[perm[p]].x
    <3>1. CASE k = p
      BY <1>5, <2>1, <3>1
    <3>2. CASE k < p
      <4>1. Earlier(s, perm[k], perm[p])
        BY <1>4, <2>1, <3>2
      <4> QED BY <1>5, <2>1, <4>1 DEF Earlier
    <3> QED BY <3>1, <3>2
  <2>3. perm[k] < n + 1
    <3>1. perm[k] \in 1 .. n
      BY <1>4
    <3> QED BY <3>1
  <2>4. s[n + 1].x \in Int
    BY <1>1, <1>5
  <2> QED BY <1>5, <2>1, <2>2, <2>3, <2>4 DEF Earlier
<1>9. \A k \in 1 .. n : p < k => Earlier(s, n + 1, perm[k])
  BY <1>1, <1>2, <1>4 DEF Earlier
<1>10. ASSUME NEW k \in 1 .. n + 1, NEW l \in 1 .. n + 1, k < l
       PROVE  Earlier(s, next[k], next[l])
  <2>1. CASE l <= p
    <3>1. k \in 1 .. n /\ l \in 1 .. n /\ next[k] = perm[k] /\ next[l] = perm[l]
      BY <1>10, <2>1
    <3> QED BY <1>4, <1>10, <3>1
  <2>2. CASE l = p + 1
    BY <1>8, <1>10, <2>2
  <2>3. CASE l > p + 1 /\ k <= p
    <3>1. l - 1 \in 1 .. n /\ k \in 1 .. n /\ k < l - 1 /\ next[k] = perm[k] /\ next[l] = perm[l - 1]
      BY <2>3
    <3> QED BY <1>4, <3>1
  <2>4. CASE l > p + 1 /\ k = p + 1
    <3>1. l - 1 \in 1 .. n /\ p < l - 1 /\ next[k] = n + 1 /\ next[l] = perm[l - 1]
      BY <2>4
    <3> QED BY <1>9, <3>1
  <2>5. CASE k > p + 1
    <3>1. /\ l - 1 \in 1 .. n /\ k - 1 \in 1 .. n /\ k - 1 < l - 1
          /\ next[k] = perm[k - 1] /\ next[l] = perm[l - 1]
      BY <1>10, <2>5
    <3> QED BY <1>4, <3>1
  <2> QED BY <1>10, <2>1, <2>2, <2>3, <2>4, <2>5
<1>11. next \in [1 .. n + 1 -> 1 .. n + 1]
  BY <1>6
<1> HIDE DEF next
<1>12. Arranges(u, s, next, n + 1)
  BY <1>6, <1>7, <1>10, <1>11 DEF Arranges
<1> QED BY <1>3, <1>12

LEMMA SortArranges ==
  ASSUME NEW s \in Seq(Shapes)
  PROVE  LET t == sort_sprites_by_priority(s) IN
         t \in Seq(Shapes) /\ Len(t) = Len(s) /\ \E perm : Arranges(t, s, perm, Len(s))
<1>0. Len(s) \in Nat
  OBVIOUS
<1>1. PICK g : /\ \A i \in 0 .. Len(s) : g[i] \in Seq(Shapes)
               /\ g[0] = <<>> /\ sort_sprites_by_priority(s) = g[Len(s)]
               /\ \A i \in 1 .. Len(s) : g[i] = Insert(g[i - 1], s[i])
  BY SortRuns
<1> DEFINE Good(n) == Len(g[n]) = n /\ \E perm : Arranges(g[n], s, perm, n)
           S == {n \in Nat : n <= Len(s) => Good(n)}
<1>2. 0 \in S
  <2>1. Arranges(<<>>, s, <<>>, 0)
    BY DEF Arranges
  <2>2. \E perm : Arranges(<<>>, s, perm, 0)
    BY <2>1, Zenon
  <2>3. Len(<<>>) = 0
    OBVIOUS
  <2>4. Good(0)
    BY <1>1, <2>2, <2>3, Zenon
  <2> QED BY <2>4
<1>3. ASSUME NEW n \in Nat, n \in S PROVE n + 1 \in S
  <2>1. SUFFICES ASSUME n + 1 <= Len(s) PROVE Good(n + 1)
    OBVIOUS
  <2>2. n <= Len(s) /\ n \in 0 .. Len(s) /\ n + 1 \in 1 .. Len(s) /\ (n + 1) - 1 = n
    BY <1>0, <2>1
  <2>3. g[n] \in Seq(Shapes) /\ g[n + 1] = Insert(g[n], s[n + 1])
    BY <1>1, <2>2
  <2>4. Good(n)
    BY <1>3, <2>2
  <2>5. PICK perm : Arranges(g[n], s, perm, n)
    BY <2>4
  <2> QED BY <2>1, <2>3, <2>4, <2>5, InsertArranges
<1>4. Len(s) \in S
  <2> HIDE DEF S
  <2> QED BY <1>0, <1>2, <1>3, Induction
<1>5. Good(Len(s))
  BY <1>0, <1>4
<1>6. g[Len(s)] \in Seq(Shapes)
  BY <1>0, <1>1
<1> QED BY <1>1, <1>5, <1>6
-----------------------------------------------------------------------------
(* What the scan of a line leaves in the array. *)

\* s is what the array must be for the entries places of memory.
InOrder(s, memory, order, places) ==
  /\ Lists(s, memory, order, places)
  /\ \A k, l \in 1 .. Len(s) : k < l =>
       Earlier(memory, order[k], order[l])

LEMMA ScanLists ==
  ASSUME NEW memory \in [Index -> Shapes], NEW y, NEW big
  PROVE  LET t == sort_sprites_by_priority(Found(memory, y, big)) IN
         /\ t \in Seq(Shapes)
         /\ \E order : InOrder(t, memory, order, KeptBefore(memory, y, big, Entries))
<1>1. PICK s \in Seq(Shapes) : /\ s = Found(memory, y, big)
                              /\ FoundSoFar(s, memory, y, big, Entries)
  BY FoundLists
<1> DEFINE kept == KeptBefore(memory, y, big, Entries)
<1>2. PICK order : Lists(s, memory, order, kept) /\ Rising(order, Len(s))
  BY <1>1 DEF FoundSoFar
<1>3. PICK t \in Seq(Shapes) : /\ t = sort_sprites_by_priority(s) /\ Len(t) = Len(s)
                              /\ \E perm : Arranges(t, s, perm, Len(s))
  BY SortArranges
<1>4. PICK perm : Arranges(t, s, perm, Len(s))
  BY <1>3
<1> DEFINE n == Len(s)
           both == [k \in 1 .. n |-> order[perm[k]]]
<1> HIDE DEF kept
<1>5. /\ n \in Nat
      /\ \A k \in 1 .. n : order[k] \in Index /\ s[k] = memory[order[k]] /\ order[k] \in kept
      /\ \A j \in kept : \E k \in 1 .. n : order[k] = j
      /\ \A k, l \in 1 .. n : k < l => order[k] < order[l]
  BY <1>2 DEF Lists, Rising
<1>6. /\ \A k \in 1 .. n : perm[k] \in 1 .. n /\ t[k] = s[perm[k]]
      /\ \A j \in 1 .. n : \E k \in 1 .. n : perm[k] = j
      /\ \A k, l \in 1 .. n : k < l => Earlier(s, perm[k], perm[l])
  BY <1>4 DEF Arranges
<1> HIDE DEF n
<1>7. \A k \in 1 .. n : both[k] \in Index /\ both[k] \in kept /\ t[k] = memory[both[k]]
  BY <1>5, <1>6
<1>8. ASSUME NEW j \in kept PROVE \E k \in 1 .. n : both[k] = j
  <2>1. PICK l \in 1 .. n : order[l] = j
    BY <1>5
  <2>2. PICK k \in 1 .. n : perm[k] = l
    BY <1>6
  <2> QED BY <2>1, <2>2
<1>9. ASSUME NEW k \in 1 .. n, NEW l \in 1 .. n, k < l
      PROVE  Earlier(memory, both[k], both[l])
  <2>1. Earlier(s, perm[k], perm[l]) /\ perm[k] \in 1 .. n /\ perm[l] \in 1 .. n
    BY <1>6, <1>9
  <2>2. s[perm[k]] = memory[both[k]] /\ s[perm[l]] = memory[both[l]]
    BY <1>5, <2>1
  <2>3. perm[k] < perm[l] => both[k] < both[l]
    BY <1>5, <2>1
  <2> HIDE DEF both
  <2> QED BY <2>1, <2>2, <2>3 DEF Earlier
<1>10. both \in [1 .. n -> Index]
  BY <1>7
<1> HIDE DEF both
<1>11. InOrder(t, memory, both, kept)
  BY <1>3, <1>7, <1>8, <1>9, <1>10 DEF InOrder, Lists, n
<1> QED BY <1>1, <1>3, <1>11 DEF kept
-----------------------------------------------------------------------------
(* The invariant: the array is what the scan of this line left, for sprites *)
(* of the size of then, which is the size of now unless LCDC was written.   *)

PictureTypes ==
  /\ row \in Nat /\ column \in 0 .. Columns
  /\ tall \in BOOLEAN /\ objects \in BOOLEAN /\ resized \in BOOLEAN
  /\ sprites \in Seq(Shapes) /\ oam \in [Index -> Shapes]

Scanned ==
  column < Columns =>
    \E big \in BOOLEAN :
      /\ ~resized => big = tall
      /\ \E order \in [1 .. Len(sprites) -> Index] :
           InOrder(sprites, oam, order, KeptBefore(oam, row, big, Entries))

PictureInv == PictureTypes /\ Scanned

LEMMA PictureInitInv == PictureInit => PictureInv
<1> SUFFICES ASSUME PictureInit PROVE PictureInv
  OBVIOUS
<1>1. (CHOOSE s \in Shapes : TRUE) \in Shapes
  BY ShapeAssumption
<1>2. oam \in [Index -> Shapes]
  BY <1>1 DEF PictureInit
<1>3. PictureTypes
  <2>1. row \in Nat /\ column \in 0 .. Columns
    BY PictureAssumption DEF PictureInit
  <2>2. tall \in BOOLEAN /\ objects \in BOOLEAN /\ resized \in BOOLEAN /\ sprites = <<>>
    BY DEF PictureInit
  <2>3. sprites \in Seq(Shapes)
    BY <2>2
  <2> QED BY <1>2, <2>1, <2>2, <2>3, Zenon DEF PictureTypes
<1>4. Scanned
  BY PictureAssumption DEF PictureInit, Scanned
<1> QED BY <1>3, <1>4 DEF PictureInv

LEMMA PictureNextInv == PictureInv /\ [PictureNext]_pvars => PictureInv'
<1> SUFFICES ASSUME PictureInv, [PictureNext]_pvars PROVE PictureInv'
  OBVIOUS
<1> USE DEF PictureInv
<1>1. ASSUME Scan, row' \in Nat, column' \in 0 .. Columns PROVE PictureInv'
  <2> USE <1>1 DEF Scan
  <2>1. tall \in BOOLEAN /\ objects \in BOOLEAN
    BY DEF PictureTypes
  <2>2. LET t == sort_sprites_by_priority(Found(oam', row', tall)) IN
        /\ t \in Seq(Shapes)
        /\ \E order : InOrder(t, oam', order, KeptBefore(oam', row', tall, Entries))
    <3> HIDE <1>1
    <3>1. oam' \in [Index -> Shapes]
      BY <1>1
    <3> QED BY <3>1, ScanLists
  <2>3. PictureTypes'
    <3>1. tall' \in BOOLEAN /\ objects' \in BOOLEAN /\ resized' \in BOOLEAN
      BY <2>1
    <3>2. sprites' \in Seq(Shapes) /\ oam' \in [Index -> Shapes]
      BY <2>2
    <3> QED BY <1>1, <3>1, <3>2, Zenon DEF PictureTypes
  <2>4. \E order : InOrder(sprites', oam', order, KeptBefore(oam', row', tall, Entries))
    BY <2>2
  <2>5. \E order \in [1 .. Len(sprites') -> Index] :
          InOrder(sprites', oam', order, KeptBefore(oam', row', tall, Entries))
    BY <2>4 DEF InOrder, Lists
  <2>6. tall' = tall /\ resized' = FALSE
    OBVIOUS
  <2>7. Scanned'
    BY <2>1, <2>5, <2>6 DEF Scanned
  <2> QED BY <2>3, <2>7
<1>5. CASE StartLine \/ StartOver
  <2>1. Scan /\ row' \in Nat /\ column' \in 0 .. Columns
    <3>1. 0 \in Nat /\ 0 \in 0 .. Columns /\ \A r \in Rows : r \in Nat
      BY PictureAssumption
    <3>2. CASE StartLine
      BY <3>1, <3>2, Zenon DEF StartLine
    <3>3. CASE StartOver
      BY <3>1, <3>3, Zenon DEF StartOver, PictureTypes
    <3> QED BY <1>5, <3>2, <3>3
  <2> QED BY <1>1, <2>1
<1>2. CASE Draw
  <2> USE <1>2 DEF Draw
  <2>1. PictureTypes'
    BY PictureAssumption DEF PictureTypes
  <2>2. column < Columns /\ UNCHANGED <<row, tall, resized, sprites, oam>>
    OBVIOUS
  <2>3. Scanned'
    BY <2>2 DEF Scanned
  <2> QED BY <2>1, <2>3
<1>3. CASE WriteLcdc
  <2> USE <1>3 DEF WriteLcdc
  <2>1. PictureTypes'
    BY DEF PictureTypes
  <2>2. UNCHANGED <<row, column, sprites, oam>> /\ (~resized' => ~resized /\ tall' = tall)
    BY DEF PictureTypes
  <2>3. Scanned'
    BY <2>2 DEF Scanned
  <2> QED BY <2>1, <2>3
<1>4. CASE UNCHANGED pvars
  BY <1>4 DEF pvars, PictureTypes, Scanned
<1> QED BY <1>2, <1>3, <1>4, <1>5 DEF PictureNext
-----------------------------------------------------------------------------
(* A line of a sprite, and a pixel of it. *)

LEMMA OnLineIs ==
  ASSUME NEW s \in Shapes, NEW y \in Nat, NEW big \in BOOLEAN
  PROVE  /\ OnLine(s, y, big) <=> y - (s.y - 16) \in 0 .. (IF big THEN 16 ELSE 8) - 1
         /\ OnLine(s, y, big) => y - (s.y - 16) \in 0 .. 15
BY ShapeBytes DEF OnLine

LEMMA KeptAreFirst ==
  ASSUME PictureTypes
  PROVE  KeptBefore(oam, row, tall, Entries) = {i \in Index : AmongFirst(i)}
<1>1. ASSUME NEW j \in Index PROVE OnLine(oam[j], row, tall) <=> OnThisLine(j)
  BY OnLineIs DEF PictureTypes, OnThisLine, LineOf, Height
<1>2. ASSUME NEW i \in Index
      PROVE  HereBefore(oam, row, tall, i) = {j \in Index : j < i /\ OnThisLine(j)}
  BY <1>1 DEF HereBefore
<1>3. HereBefore(oam, row, tall, Entries) = {j \in Index : OnThisLine(j)}
  <2>1. \A j \in Index : j < Entries
    BY PictureAssumption DEF Index
  <2> QED BY <1>1, <2>1 DEF HereBefore
<1> QED BY <1>2, <1>3 DEF KeptBefore, AmongFirst

LEMMA ScannedIsFirstTen == PictureInv => FirstTenByX
<1> SUFFICES ASSUME PictureInv, column < Columns, ~resized
             PROVE  \E order \in [DOMAIN sprites -> Index] :
                      /\ \A i \in DOMAIN sprites : sprites[i] = oam[order[i]]
                      /\ {order[i] : i \in DOMAIN sprites} = {i \in Index : AmongFirst(i)}
                      /\ \A i, j \in DOMAIN sprites : i < j => Before(order[i], order[j])
  BY DEF FirstTenByX
<1>1. PICK order \in [1 .. Len(sprites) -> Index] :
        InOrder(sprites, oam, order, KeptBefore(oam, row, tall, Entries))
  BY DEF PictureInv, Scanned
<1>2. DOMAIN sprites = 1 .. Len(sprites)
  BY DEF PictureInv, PictureTypes
<1>3. KeptBefore(oam, row, tall, Entries) = {i \in Index : AmongFirst(i)}
  BY KeptAreFirst DEF PictureInv
<1> DEFINE first == {i \in Index : AmongFirst(i)}
<1>4. /\ \A k \in 1 .. Len(sprites) : sprites[k] = oam[order[k]] /\ order[k] \in first
      /\ \A j \in first : \E k \in 1 .. Len(sprites) : order[k] = j
      /\ \A k, l \in 1 .. Len(sprites) : k < l => Earlier(oam, order[k], order[l])
  BY <1>1, <1>3 DEF InOrder, Lists
<1> HIDE DEF first
<1>5. {order[i] : i \in DOMAIN sprites} = first
  BY <1>2, <1>4
<1>6. \A i, j \in DOMAIN sprites : i < j => Before(order[i], order[j])
  BY <1>2, <1>4 DEF Earlier, Before
<1> QED BY <1>2, <1>4, <1>5, <1>6 DEF first

\* A sprite in the array is on this line, in either size.
LEMMA SpritesOnRow ==
  ASSUME PictureInv, column < Columns, NEW i \in DOMAIN sprites
  PROVE  /\ sprites[i] \in Shapes
         /\ LineOf(sprites[i]) \in 0 .. 15
         /\ ~resized => LineOf(sprites[i]) \in 0 .. Height - 1
<1>1. PICK big \in BOOLEAN : /\ ~resized => big = tall
        /\ \E order \in [1 .. Len(sprites) -> Index] :
             InOrder(sprites, oam, order, KeptBefore(oam, row, big, Entries))
  BY DEF PictureInv, Scanned
<1>2. PICK order \in [1 .. Len(sprites) -> Index] :
        InOrder(sprites, oam, order, KeptBefore(oam, row, big, Entries))
  BY <1>1
<1>3. i \in 1 .. Len(sprites) /\ sprites[i] \in Shapes /\ row \in Nat
  BY DEF PictureInv, PictureTypes
<1>4. order[i] \in KeptBefore(oam, row, big, Entries) /\ sprites[i] = oam[order[i]]
  BY <1>2, <1>3 DEF InOrder, Lists
<1>5. OnLine(sprites[i], row, big)
  BY <1>4 DEF KeptBefore, HereBefore
<1> QED BY <1>1, <1>3, <1>5, OnLineIs DEF LineOf, Height

LEMMA InsideColumns ==
  ASSUME NEW s \in Shapes, column \in Nat, Covers(s)
  PROVE  /\ column - (s.x - 8) \in 0 .. 7
         /\ Across(s) = IF s.xflip THEN 7 - (column - (s.x - 8)) ELSE column - (s.x - 8)
         /\ Across(s) \in 0 .. 7
BY ShapeBytes DEF Covers, Across

LEMMA DownIs ==
  ASSUME NEW s \in Shapes, row \in Nat, tall \in BOOLEAN, LineOf(s) \in 0 .. 15
  PROVE  /\ Down(s) \in 0 .. 255 /\ (tall => Down(s) \in 0 .. 15)
         /\ LineOf(s) \in 0 .. Height - 1 =>
              /\ Down(s) \in 0 .. Height - 1
              /\ Down(s) = IF s.yflip THEN Height - 1 - LineOf(s) ELSE LineOf(s)
<1>1. ((16 + row) - s.y) % 256 = LineOf(s)
  BY ShapeBytes DEF LineOf
<1>2. LineOf(s) \in Int
  OBVIOUS
<1> QED BY <1>1, <1>2 DEF Down, Height

LEMMA Eighths ==
  ASSUME NEW t \in Nat, NEW d \in 0 .. 7
  PROVE  (8 * t + d) \div 8 = t
OBVIOUS

LEMMA EvenTile ==
  ASSUME NEW s \in Shapes
  PROVE  s.tile - (s.tile % 2) \in 0 .. 254
BY ShapeBytes

LEMMA ScannedReadsTiles == PictureInv => ReadsOwnTiles
<1> SUFFICES ASSUME PictureInv, NEW i \in DOMAIN sprites, column < Columns, Covers(sprites[i])
             PROVE  ReadsOwn(sprites[i])
  BY DEF ReadsOwnTiles
<1> DEFINE s == sprites[i]
           even == s.tile - (s.tile % 2)
<1>1. /\ s \in Shapes /\ LineOf(s) \in 0 .. 15 /\ (~resized => LineOf(s) \in 0 .. Height - 1)
      /\ row \in Nat /\ tall \in BOOLEAN /\ column \in Nat
  BY SpritesOnRow, PictureAssumption DEF PictureInv, PictureTypes
<1>2. s.tile \in 0 .. 255 /\ even \in 0 .. 254
  BY <1>1, ShapeBytes, EvenTile
<1> HIDE DEF even
<1>3. /\ Down(s) \in 0 .. 255 /\ (tall => Down(s) \in 0 .. 15)
      /\ LineOf(s) \in 0 .. Height - 1 => Down(s) \in 0 .. Height - 1
  BY <1>1, DownIs
<1>4. Across(s) \in 0 .. 7
  BY <1>1, InsideColumns
<1>5. CASE ~tall
  <2>1. RowOf(s) = 8 * s.tile + Down(s)
    BY <1>5 DEF RowOf
  <2>2. ~resized => Down(s) \in 0 .. 7
    BY <1>1, <1>3, <1>5 DEF Height
  <2> HIDE DEF s
  <2>3. ~resized => RowOf(s) \div 8 = s.tile
    BY <1>2, <2>1, <2>2, Eighths
  <2>4. RowOf(s) \in 0 .. 4095
    <3>1. PICK n \in 0 .. 255, d \in 0 .. 255 : n = s.tile /\ d = Down(s)
      BY <1>2, <1>3, Zenon
    <3>2. 8 * n + d \in 0 .. 4095
      OBVIOUS
    <3>3. RowOf(s) = 8 * n + d
      BY <2>1, <3>1, Zenon
    <3> QED BY <3>2, <3>3, SMT
  <2> QED BY <1>4, <1>5, <2>3, <2>4 DEF s, ReadsOwn
<1>6. CASE tall
  <2> DEFINE t == IF Down(s) < 8 THEN even ELSE even + 1
             d == IF Down(s) < 8 THEN Down(s) ELSE Down(s) - 8
  <2>1. RowOf(s) = 8 * t + d
    BY <1>6 DEF RowOf, even
  <2> HIDE DEF s
  <2>2. d \in 0 .. 7 /\ t \in Nat /\ t <= 255 /\ t \in {even, even + 1}
    BY <1>2, <1>3, <1>6
  <2> HIDE DEF t, d
  <2>3. RowOf(s) \div 8 = t
    BY <2>1, <2>2, Eighths
  <2>4. RowOf(s) \in 0 .. 4095
    BY <2>1, <2>2
  <2> QED BY <1>4, <1>6, <2>2, <2>3, <2>4 DEF s, even, ReadsOwn
<1> QED BY <1>1, <1>5, <1>6

\* The look-up is the colour number of the sprite at the pixel.
LEMMA PixelIsNumber ==
  ASSUME NEW s \in Shapes, row \in Nat, tall \in BOOLEAN, column \in Nat,
         LineOf(s) \in 0 .. Height - 1, Covers(s)
  PROVE  get_sprite_pixel(s) = NumberOf(s)
<1> DEFINE r == IF s.yflip THEN Height - 1 - LineOf(s) ELSE LineOf(s)
           c == column - (s.x - 8)
           base == IF tall THEN s.tile - (s.tile % 2) ELSE s.tile
<1>1. LineOf(s) \in 0 .. 15
  BY DEF Height
<1>2. Down(s) = r /\ Down(s) \in 0 .. Height - 1
  BY <1>1, DownIs
<1>3. Across(s) = IF s.xflip THEN 7 - c ELSE c
  BY InsideColumns
<1>4. base \in Int
  BY ShapeBytes
<1>5. RowOf(s) = 8 * base + r
  <2> HIDE DEF r
  <2>1. CASE tall
    <3>1. base = s.tile - (s.tile % 2)
      BY <2>1
    <3> HIDE DEF base
    <3> QED BY <1>2, <1>4, <2>1, <3>1 DEF RowOf, Height
  <2>2. CASE ~tall
    BY <1>2, <2>2 DEF RowOf
  <2> QED BY <2>1, <2>2
<1>6. NumberOf(s) = Number(8 * base + r, IF s.xflip THEN 7 - c ELSE c)
  BY DEF NumberOf
<1> QED BY <1>3, <1>5, <1>6 DEF get_sprite_pixel
-----------------------------------------------------------------------------
(* The choice of the sprite for a pixel. *)

\* The sprites that ChosenOver takes the first of.
Candidates(over) == {i \in Opaque : sprites[i].behind => over = 0}

LEMMA CandidatesVisible ==
  ASSUME PictureInv, column < Columns, ~resized, NEW over,
         NEW order \in [DOMAIN sprites -> Index],
         \A i \in DOMAIN sprites : sprites[i] = oam[order[i]],
         {order[i] : i \in DOMAIN sprites} = {i \in Index : AmongFirst(i)}
  PROVE  /\ \A i \in Candidates(over) : Visible(order[i], over)
         /\ \A j \in Index : Visible(j, over) => \E i \in Candidates(over) : order[i] = j
<1>1. row \in Nat /\ tall \in BOOLEAN /\ column \in Nat
  BY PictureAssumption DEF PictureInv, PictureTypes
<1>2. ASSUME NEW i \in DOMAIN sprites
      PROVE  /\ Covers(sprites[i]) <=> column - (sprites[i].x - 8) \in 0 .. 7
             /\ Covers(sprites[i]) => get_sprite_pixel(sprites[i]) = NumberOf(sprites[i])
  <2>1. sprites[i] \in Shapes /\ LineOf(sprites[i]) \in 0 .. Height - 1
    BY SpritesOnRow
  <2>2. Covers(sprites[i]) <=> column - (sprites[i].x - 8) \in 0 .. 7
    BY <1>1, <2>1, ShapeBytes DEF Covers
  <2>3. Covers(sprites[i]) => get_sprite_pixel(sprites[i]) = NumberOf(sprites[i])
    BY <1>1, <2>1, PixelIsNumber
  <2> QED BY <2>2, <2>3
<1>3. ASSUME NEW i \in DOMAIN sprites
      PROVE  i \in Candidates(over) <=> Visible(order[i], over)
  <2>1. AmongFirst(order[i]) /\ sprites[i] = oam[order[i]]
    OBVIOUS
  <2>2. i \in Candidates(over) <=>
          /\ Covers(sprites[i]) /\ get_sprite_pixel(sprites[i]) # 0
          /\ sprites[i].behind => over = 0
    BY Zenon DEF Candidates, Opaque, Covering
  <2>3. Visible(order[i], over) <=>
          /\ column - (sprites[i].x - 8) \in 0 .. 7
          /\ NumberOf(sprites[i]) # 0 /\ (sprites[i].behind => over = 0)
    BY <2>1, Zenon DEF Visible
  <2> QED BY <1>2, <2>2, <2>3, Zenon
<1>4. ASSUME NEW j \in Index, Visible(j, over) PROVE \E i \in Candidates(over) : order[i] = j
  <2>1. AmongFirst(j)
    BY <1>4, Zenon DEF Visible
  <2>2. PICK i \in DOMAIN sprites : order[i] = j
    BY <2>1
  <2> QED BY <1>3, <1>4, <2>2, Zenon
<1>5. ASSUME NEW i \in Candidates(over) PROVE Visible(order[i], over)
  <2>1. i \in DOMAIN sprites
    BY Zenon DEF Candidates, Opaque, Covering
  <2> QED BY <1>3, <2>1, Zenon
<1> QED BY <1>4, <1>5

\* The loop of get_sprite_pixel stops at the topmost sprite, if there is one.
LEMMA FirstIsTopmost ==
  ASSUME PictureInv, column < Columns, ~resized, NEW over \in {0, 1}, objects
  PROVE  IF \E j \in Index : Visible(j, over)
           THEN \E j \in Index :
                  /\ Topmost(j, over)
                  /\ PixelOver(over).palette = Palette(oam[j])
                  /\ PixelOver(over).number = NumberOf(oam[j])
           ELSE PixelOver(over).palette = "bgp" /\ PixelOver(over).number = over
<1>1. PICK order \in [DOMAIN sprites -> Index] :
        /\ \A i \in DOMAIN sprites : sprites[i] = oam[order[i]]
        /\ {order[i] : i \in DOMAIN sprites} = {i \in Index : AmongFirst(i)}
        /\ \A i, j \in DOMAIN sprites : i < j => Before(order[i], order[j])
  BY ScannedIsFirstTen DEF FirstTenByX
<1> DEFINE C == Candidates(over)
<1>2. /\ \A i \in C : Visible(order[i], over)
      /\ \A j \in Index : Visible(j, over) => \E i \in C : order[i] = j
  BY <1>1, CandidatesVisible
<1>3. \A i \in C : i \in DOMAIN sprites /\ i \in Nat /\ Covers(sprites[i])
  <2>1. \A i \in DOMAIN sprites : i \in Nat
    BY DEF PictureInv, PictureTypes
  <2>2. \A i \in C : i \in DOMAIN sprites /\ Covers(sprites[i])
    BY Zenon DEF Candidates, Opaque, Covering
  <2> QED BY <2>1, <2>2
<1>4. \A i \in DOMAIN sprites : Chosen(over, i) <=> i \in C /\ \A j \in C : i <= j
  BY DEF Chosen, ChosenOver, FirstOf, Candidates, NoBackground
<1> HIDE DEF C
<1>5. CASE \E i \in C : TRUE
  <2>1. PICK m \in C : \A j \in C : m <= j
    BY <1>3, <1>5, Least
  <2>2. \E i \in DOMAIN sprites : Chosen(over, i)
    BY <1>3, <1>4, <2>1
  <2>3. PICK i \in DOMAIN sprites : /\ i = CHOOSE k \in DOMAIN sprites : Chosen(over, k)
                                    /\ Chosen(over, i)
    BY <2>2, Zenon
  <2>4. /\ i \in C /\ \A j \in C : i <= j
        /\ order[i] \in Index /\ sprites[i] = oam[order[i]]
    BY <1>1, <1>4, <2>3
  <2>5. Topmost(order[i], over)
    <3>1. ASSUME NEW j \in Index, Visible(j, over) PROVE order[i] = j \/ Before(order[i], j)
      <4>1. PICK k \in C : order[k] = j
        BY <1>2, <3>1
      <4>2. i = k \/ i < k
        BY <1>3, <2>4
      <4> QED BY <1>1, <1>3, <4>1, <4>2
    <3> QED BY <1>2, <2>4, <3>1 DEF Topmost
  <2>6. /\ PixelOver(over).palette = Palette(sprites[i])
        /\ PixelOver(over).number = get_sprite_pixel(sprites[i])
    <3>1. PixelOver(over) = [palette |-> Palette(sprites[i]),
                             number |-> get_sprite_pixel(sprites[i]), over |-> over]
      BY <2>2, <2>3, Zenon DEF PixelOver
    <3> QED BY <3>1
  <2>7. get_sprite_pixel(sprites[i]) = NumberOf(sprites[i])
    <3>1. sprites[i] \in Shapes /\ LineOf(sprites[i]) \in 0 .. Height - 1 /\ Covers(sprites[i])
      BY <1>3, <2>4, SpritesOnRow
    <3>2. row \in Nat /\ tall \in BOOLEAN /\ column \in Nat
      BY PictureAssumption DEF PictureInv, PictureTypes
    <3> QED BY <3>1, <3>2, PixelIsNumber
  <2>8. \E j \in Index : Visible(j, over)
    BY <1>2, <2>4
  <2> QED BY <2>4, <2>5, <2>6, <2>7, <2>8, Zenon
<1>6. CASE ~\E i \in C : TRUE
  <2>1. ~\E j \in Index : Visible(j, over)
    BY <1>2, <1>6
  <2>2. ~\E i \in DOMAIN sprites : Chosen(over, i)
    BY <1>4, <1>6
  <2>3. PixelOver(over) = [palette |-> "bgp", number |-> over, over |-> over]
    BY <2>2, Zenon DEF PixelOver
  <2> QED BY <2>1, <2>3
<1> QED BY <1>5, <1>6
-----------------------------------------------------------------------------
(* The properties of Picture. *)

(* In every state the array is what the scan of this line left: the first  *)
(* ten entries of OAM on it, in the order of their priority.               *)
THEOREM SpritesOfTheLine == PictureSpec => []FirstTenByX
<1>1. PictureSpec => []PictureInv
  BY PictureInitInv, PictureNextInv, PTL DEF PictureSpec
<1> QED BY <1>1, ScannedIsFirstTen, PTL

(* In every state the row of pixels of a sprite that the loop reads is in  *)
(* VRAM, and in the tiles of that sprite while their size stays.           *)
THEOREM ReadsInsideVram == PictureSpec => []ReadsOwnTiles
<1>1. PictureSpec => []PictureInv
  BY PictureInitInv, PictureNextInv, PTL DEF PictureSpec
<1> QED BY <1>1, ScannedReadsTiles, PTL

(* Every pixel drawn over the background is that of the topmost sprite     *)
(* visible there, as OAM and the priorities define it, or the background.  *)
THEOREM TopmostIsDrawn == PictureSpec => ShowsTopmost
<1> DEFINE Drawn ==
      column' = column + 1 /\ ~resized /\ objects /\ shown'.over # NoBackground =>
       IF \E i \in Index : Visible(i, shown'.over)
         THEN \E i \in Index :
                /\ Topmost(i, shown'.over)
                /\ shown'.palette = Palette(oam[i]) /\ shown'.number = NumberOf(oam[i])
         ELSE shown'.palette = "bgp" /\ shown'.number = shown'.over
<1>1. PictureInv /\ [PictureNext]_pvars => [Drawn]_pvars
  <2> SUFFICES ASSUME PictureInv, PictureNext, column' = column + 1, ~resized, objects,
                      shown'.over # NoBackground
               PROVE  IF \E i \in Index : Visible(i, shown'.over)
                        THEN \E i \in Index :
                               /\ Topmost(i, shown'.over)
                               /\ shown'.palette = Palette(oam[i])
                               /\ shown'.number = NumberOf(oam[i])
                        ELSE shown'.palette = "bgp" /\ shown'.number = shown'.over
    BY Zenon
  <2>1. column \in Nat
    BY PictureAssumption DEF PictureInv, PictureTypes
  <2>2. Draw
    <3>1. ~StartLine /\ ~StartOver
      <4>1. StartLine => column = Columns /\ column' = 0
        BY DEF StartLine
      <4>2. StartOver => column' = column
        BY DEF StartOver
      <4> QED BY <2>1, <4>1, <4>2
    <3>2. ~WriteLcdc
      BY <2>1 DEF WriteLcdc
    <3> QED BY <3>1, <3>2, Zenon DEF PictureNext
  <2>3. PICK over \in {NoBackground, 0, 1} : shown' = PixelOver(over)
    BY <2>2, Zenon DEF Draw
  <2>4. shown'.over = over
    BY <2>3 DEF PixelOver
  <2>5. over \in {0, 1} /\ column < Columns
    BY <2>2, <2>3, <2>4 DEF Draw
  <2> QED BY <2>3, <2>4, <2>5, FirstIsTopmost, Zenon
<1>2. PictureSpec => []PictureInv
  BY PictureInitInv, PictureNextInv, PTL DEF PictureSpec
<1>3. PictureSpec => [][Drawn]_pvars
  <2> HIDE DEF Drawn
  <2> QED BY <1>1, <1>2, PTL DEF PictureSpec
<1> QED BY <1>3 DEF ShowsTopmost
=============================================================================
