------------------------------- MODULE Memory -------------------------------
(***************************************************************************)
(* The memory map of memory.c and the instructions that use it for the     *)
(* stack: read_byte(), write_byte(), their word forms, the OAM transfer,   *)
(* and push() and pop() as CALL, RST, RET and the dispatch of an interrupt *)
(* use them.                                                               *)
(*                                                                         *)
(* What opcode stands at an address, and what the registers of the timer,  *)
(* the PPU and the CPU do by themselves, is left open.  Addresses leaves   *)
(* out P1, DIV and STAT, which keep something else than what is stored:    *)
(* they belong to MainLoop, Timer and Ppu.                                 *)
(***************************************************************************)
EXTENDS Integers

CONSTANTS
  Addresses,     \* the addresses represented, of 0 .. 65535
  Byte,          \* the values of a byte represented, of 0 .. 255
  Pages,         \* what is stored in DMA
  RomBanks,      \* banks 0x4000 may show
  RamBanks,      \* banks 0xA000 may show
  Image,         \* the ROM: the bytes of a bank by offset
  Boot,          \* the first value of a register, by address
  Saved,         \* the save file: the bytes of a RAM bank by offset
  Counts,        \* values registers take by themselves
  Stores,        \* <<address, byte>>: what instructions store
  Words,         \* what PUSH, RST and the dispatch of an interrupt push
  Sites,         \* addresses of CALL instructions
  Vectors,       \* where RST and interrupts go
  Stacks         \* where the stack may hold a word, not half of it in ROM

VARIABLES
  mem,           \* every byte that can be stored to, by cell
  rom_bank_n, external_ram_bank,
  sp, pc,
  words          \* history: pushed words that no later store touched

mvars == <<mem, rom_bank_n, external_ram_bank, sp, pc, words>>

NULL == -1

Low(w)     == w % 256
High(w)    == w \div 256
Word(l, h) == 256 * h + l
-----------------------------------------------------------------------------
(* Where an address leads *)

IsRom(a)      == a < \h8000
IsExternal(a) == a >= \hA000 /\ a < \hC000

\* A cell is a region, its bank and the offset in it.
CellAt(a, bank) ==
  CASE a < \hA000                -> <<"vram",     0,    a - \h8000>>
    [] a >= \hA000 /\ a < \hC000 -> <<"external", bank, a - \hA000>>
    [] a >= \hC000 /\ a < \hD000 -> <<"wram_0",   0,    a - \hC000>>
    [] a >= \hD000 /\ a < \hE000 -> <<"wram_1",   0,    a - \hD000>>
    [] a >= \hE000 /\ a < \hF000 -> <<"wram_0",   0,    a - \hE000>>
    [] a >= \hF000 /\ a < \hFE00 -> <<"wram_1",   0,    a - \hF000>>
    [] a >= \hFE00 /\ a < \hFEA0 -> <<"oam",      0,    a - \hFE00>>
    [] a >= \hFEA0 /\ a < \hFF00 -> <<"unusable", 0,    a - \hFEA0>>
    [] a >= \hFF00 /\ a < \hFF80 -> <<"io",       0,    a - \hFF00>>
    [] a >= \hFF80 /\ a < \hFFFF -> <<"hram",     0,    a - \hFF80>>
    [] OTHER                     -> <<"ie_reg",   0,    0>>

Writable == {a \in Addresses : ~IsRom(a)}
Cells    == {CellAt(a, bank) : a \in Writable, bank \in RamBanks}

\* Registers with a field of their own; the rest of the range is mem.io.
OwnField == \hFF04 .. \hFF07 \cup {\hFF0F} \cup \hFF40 .. \hFF45 \cup \hFF47 .. \hFF4B

ReadThrough(m, rom, bank, a) ==
  CASE a < \h4000                              -> Image[0][a]
    [] a >= \h4000 /\ IsRom(a)                 -> Image[rom][a - \h4000]
    [] IsExternal(a) /\ bank = NULL            -> 255
    [] OTHER                                   -> m[CellAt(a, bank)]

WordThrough(m, rom, bank, a) ==
  Word(ReadThrough(m, rom, bank, a), ReadThrough(m, rom, bank, (a + 1) % 65536))

read_byte(a) == ReadThrough(mem, rom_bank_n, external_ram_bank, a)
read_word(a) == WordThrough(mem, rom_bank_n, external_ram_bank, a)

IgnoresAllButSC(a) == a \in {\hFF44, \hFF46} \/ (IsExternal(a) /\ external_ram_bank = NULL)

\* Stores to SC, LY and DMA, or to external RAM that is not mapped, keep nothing.
Ignores(a) == a \in {\hFF02, \hFF44, \hFF46} \/ (IsExternal(a) /\ external_ram_bank = NULL)

Put(m, a, d) == [m EXCEPT ![CellAt(a, external_ram_bank)] = d]

write_byte(m, a, d) == IF Ignores(a) THEN m ELSE Put(m, a, d)

write_word_swapped(m, a, w) ==
  write_byte(write_byte(m, a, High(w)), (a + 1) % 65536, Low(w))

write_word(m, a, w) == write_byte(write_byte(m, a, Low(w)), (a + 1) % 65536, High(w))

\* get_ptr_at_high_nibble: the region and the offset a transfer starts at.
NoSource == <<"none", 0, 0>>

DmaSource(page) ==
  LET nibble == page \div 16
      from   == page * 256
  IN CASE page > \hF1          -> NoSource
       [] nibble \in 0 .. 3    -> <<"rom", 0, from>>
       [] nibble \in 4 .. 7    -> <<"rom", rom_bank_n, from - \h4000>>
       [] nibble \in 8 .. 9    -> <<"vram", 0, from - \h8000>>
       [] nibble \in 10 .. 11  -> IF external_ram_bank = NULL
                                    THEN NoSource
                                    ELSE <<"external", external_ram_bank, from - \hA000>>
       [] nibble = 12          -> <<"wram_0", 0, from - \hC000>>
       [] nibble = 13          -> <<"wram_1", 0, from - \hD000>>
       [] nibble = 14          -> <<"wram_0", 0, from - \hE000>>
       [] nibble = 15 /\ page <= \hF1 -> <<"wram_1", 0, from - \hF000>>

At(src, i) ==
  IF src[1] = "rom" THEN Image[src[2]][src[3] + i]
                    ELSE mem[<<src[1], src[2], src[3] + i>>]

\* memcpy of 160 bytes, as far as they are represented.
Copied(src) ==
  [c \in Cells |-> IF c[1] = "oam" /\ c[3] < 160 THEN At(src, c[3]) ELSE mem[c]]

A == INSTANCE AddressSpace
       WITH view <- [a \in Addresses |-> read_byte(a)],
            ram_on <- external_ram_bank # NULL
-----------------------------------------------------------------------------
IsByte(n)    == n \in Nat /\ n < 256
IsAddress(n) == n \in Nat /\ n < 65536

ASSUME MemoryAssumption ==
  /\ \A a \in Addresses : IsAddress(a)
  /\ \A d \in Byte \cup Pages : IsByte(d)
  /\ {0, 255} \cup Counts \subseteq Byte
  /\ \A s \in Stores : s[1] \in Writable /\ s[2] \in Byte
  /\ \A v \in Vectors : IsAddress(v)
  /\ RomBanks \subseteq Nat /\ RomBanks # {}
  /\ RamBanks \subseteq Nat /\ RamBanks # {}

ASSUME ContentsAssumption ==
  /\ \A a \in Addresses, bank \in RomBanks \cup {0} :
       IsRom(a) => Image[bank][a % \h4000] \in Byte
  /\ \A a \in Addresses, bank \in RamBanks :
       IsExternal(a) => Saved[bank][a - \hA000] \in Byte
  /\ \A a \in OwnField : Boot[a] \in Byte

Representable(w) == IsAddress(w) /\ Low(w) \in Byte /\ High(w) \in Byte

\* What an instruction needs is represented: its operand, the word it pushes,
\* the bytes a transfer reads, all the names of a byte.
ASSUME ClosedAssumption ==
  /\ \A p \in Pages, a \in Addresses :
       p <= \hF1 /\ A!Oam(a) => p * 256 + (a - \hFE00) \in Addresses
  /\ \A p \in Sites : IsAddress(p) /\ {p + 1, p + 2} \subseteq Addresses
  /\ \A w \in Words \cup {p + 3 : p \in Sites} : Representable(w)
  /\ \A s \in Stacks : {s, s + 1} \subseteq Writable \ (A!Volatile \cup A!NotKept)
  /\ \A a \in Addresses : A!Home(a) \in Addresses

\* RAM is cleared, external RAM is the save file, mem.io starts at 0xFF.
Fresh(c) ==
  CASE c[1] = "external"                            -> Saved[c[2]][c[3]]
    [] c[1] = "io" /\ c[3] + \hFF00 \in OwnField    -> Boot[c[3] + \hFF00]
    [] c[1] = "io" /\ c[3] + \hFF00 \notin OwnField -> 255
    [] c[1] \notin {"external", "io"}               -> 0

Init ==
  /\ mem = [c \in Cells |-> Fresh(c)]
  /\ rom_bank_n \in RomBanks /\ external_ram_bank \in RamBanks \cup {NULL}
  /\ sp \in Stacks /\ pc \in Sites /\ words = {}

\* The history: a word is forgotten when something is stored in its place.
Place(w)      == {A!Home(w.at), A!Home(w.at + 1)}
Untouched(as) == {w \in words : Place(w) \cap {A!Home(a) : a \in as} = {}}
Outside(Range(_)) == {w \in words : ~Range(w.at) /\ ~Range(w.at + 1)}
-----------------------------------------------------------------------------
(* Instructions *)

\* The stack pointer may be set anywhere a word can be pushed or popped.
Tops == Stacks \cup {(s + 2) % 65536 : s \in Stacks}

\* Where the next word goes; sp is a uint16_t.
Below == (sp - 2) % 65536

push(w) ==
  LET s == Below IN
  /\ s \in Stacks
  /\ sp' = s
  /\ mem' = write_word(mem, s, w)
  /\ words' = Untouched({s, s + 1}) \cup
              (IF Ignores(s) \/ Ignores(s + 1) THEN {} ELSE {[at |-> s, is |-> w]})

pop == sp \in Stacks /\ sp' = (sp + 2) % 65536

banks == <<rom_bank_n, external_ram_bank>>

call_a16_high ==
  /\ pc \in Sites
  /\ push(pc + 3)
  /\ pc' = WordThrough(mem', rom_bank_n, external_ram_bank, pc + 2)
  /\ UNCHANGED banks

\* The handler runs with pc behind the three bytes of the instruction.
call_a16 ==
  LET next == pc + 3 IN
  /\ pc \in Sites
  /\ push(next)
  /\ pc' = WordThrough(mem', rom_bank_n, external_ram_bank, next - 2)
  /\ UNCHANGED banks

\* RST n and, with the address of the next instruction, the dispatch of an
\* interrupt.
rst_n ==
  /\ \E next \in {pc, pc + 1} \cap Words : push(next)
  /\ pc' \in Vectors
  /\ UNCHANGED banks

ret ==
  /\ pop
  /\ pc' = read_word(sp)
  /\ UNCHANGED <<mem, banks, words>>

\* PUSH rr, and POP rr, whose value goes to a register pair.
PushPair ==
  /\ \E w \in Words : push(w)
  /\ UNCHANGED <<pc, banks>>

PopPair ==
  /\ pop
  /\ UNCHANGED <<mem, pc, banks, words>>

\* Any other instruction may move sp and pc.
Elsewhere ==
  /\ sp' \in Tops /\ pc' \in Sites
  /\ UNCHANGED <<mem, banks, words>>

\* LD (rr),r and every other instruction that stores a byte.
Store ==
  /\ \E s \in Stores : /\ mem' = write_byte(mem, s[1], s[2])
                      /\ words' = Untouched({s[1]})
  /\ UNCHANGED <<banks, sp, pc>>

Dma ==
  /\ \E page \in Pages :
       LET src == DmaSource(page) IN
       IF src = NoSource
         THEN UNCHANGED <<mem, words>>
         ELSE mem' = Copied(src) /\ words' = Outside(A!Oam)
  /\ UNCHANGED <<banks, sp, pc>>

\* A store below 0x8000 reaches mbc_write() and may change what the windows
\* show; module Cartridge says which bank.
mbc_write ==
  /\ rom_bank_n' \in RomBanks /\ external_ram_bank' \in RamBanks \cup {NULL}
  /\ words' = Outside(A!ExternalRam)
  /\ UNCHANGED <<mem, sp, pc>>

\* The timer counts, an interrupt is requested, the PPU starts a line.
Registers ==
  /\ \E a \in Writable \cap A!Volatile, d \in Counts : mem' = Put(mem, a, d)
  /\ UNCHANGED <<banks, sp, pc, words>>

Next == \/ call_a16 \/ rst_n \/ ret \/ PushPair \/ PopPair \/ Elsewhere
        \/ Store \/ Dma \/ mbc_write \/ Registers

Spec == Init /\ [][Next]_mvars
-----------------------------------------------------------------------------
(* Properties *)

TypeOK ==
  /\ mem \in [Cells -> Byte]
  /\ rom_bank_n \in RomBanks /\ external_ram_bank \in RamBanks \cup {NULL}
  /\ sp \in Tops /\ IsAddress(pc)
  /\ \A w \in words : w.at \in Stacks /\ Representable(w.is)

\* A word that was pushed and that nothing was stored over, under any name of
\* its two bytes, can be popped: a routine returns to its caller
\* (push, pop, write_word, read_word).
WordsStay == \A w \in words : read_word(w.at) = w.is

\* CALL goes where its operand pointed before it ran, unless the two bytes it
\* pushes are the operand's: it pushes before it reads (call_a16).
CallTarget ==
  [][call_a16 =>
       LET pushed  == {A!Home(Below), A!Home(Below + 1)}
           operand == {A!Home(pc + 1), A!Home(pc + 2)}
       IN \/ pc' = read_word(pc + 1)
          \/ pushed \cap operand # {}]_mvars

\* A program sees one byte behind every address, echo RAM, two windows onto
\* banks and transfers that copy what it would read (write_byte, read_byte,
\* get_ptr_at_high_nibble agree on the map).  Which address a store names is
\* no part of the view: WordsStay adds that, for the words that are pushed.
ImplementsAddressSpace == A!Spec
=============================================================================
