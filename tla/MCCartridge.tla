---------------------------- MODULE MCCartridge -----------------------------
(* Bounds for model checking Cartridge. *)
EXTENDS Cartridge

Rom(m, b, r) == [mapper |-> m, banks |-> b, ram |-> r]

\* RAMs of one and two banks of two bytes and of half a bank, MBC1 ROMs of which one is not a
\* power of two and one the largest there is, and a mapper that is refused.
SomeRoms == {Rom("none", 2, 2),
             Rom("mbc1", 4, 2), Rom("mbc1", 72, 0), Rom("mbc1", 128, 0),
             Rom("mbc3", 4, 0), Rom("mbc3", 4, 4),
             Rom("none", 2, 1), Rom("mbc3", 4, 1),
             Rom("other", 2, 2)}

\* Zero in the lower five bits alone and with others above; RAM banks that
\* exist and do not; RTC registers.
SomeData  == {0, 1, 2, 3, 9, 12, 31, 32, 130, 160}
Bits      == {0, 1}
TwoClocks == {<<0, 0, 1>>, <<1, 0, 1>>}
=============================================================================
