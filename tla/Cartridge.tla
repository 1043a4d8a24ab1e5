----------------------------- MODULE Cartridge ------------------------------
(***************************************************************************)
(* The cartridge of cartridge.c: load_rom(), the three memory bank         *)
(* controllers, and external RAM as write_byte() of memory.c reaches it.   *)
(* The .sav file and the end of the process, orderly or not, are part of   *)
(* the model.                                                              *)
(*                                                                         *)
(* A pointer into the ROM is the number of the 16 KiB bank it points to,   *)
(* external_ram_bank is a region and an offset in it.  A RAM smaller than  *)
(* a bank ends within the window the program stores through: of the bytes  *)
(* behind it only their not being in the file is modelled.  With an RTC    *)
(* register mapped the program stays within the registers.                 *)
(***************************************************************************)
EXTENDS Integers

CONSTANTS
  Roms,        \* cartridge headers: records of mapper, banks and ram
  BankBytes,   \* bytes of an external RAM bank, 8192
  Data,        \* what the program may write to the controller
  Bytes,       \* ... to external RAM and to the RTC registers
  Clocks,      \* seconds, minutes and hours the system clock may show
  RtcStores    \* whether the program stores while an RTC register is mapped

Mappers == {"none", "mbc1", "mbc3", "other"}   \* other: load_rom refuses it

ASSUME CartridgeAssumption ==
  /\ BankBytes \in Nat \ {0}
  /\ \A r \in Roms : /\ r.mapper \in Mappers
                     /\ r.banks \in Nat /\ r.banks >= 2
                     /\ r.ram \in Nat
                     /\ r.ram % BankBytes = 0 \/ r.ram < BankBytes
  /\ Data \subseteq 0 .. 255
  /\ Bytes \subseteq 0 .. 255 /\ 0 \in Bytes
  /\ Clocks \subseteq Bytes \X Bytes \X Bytes
  /\ RtcStores \in BOOLEAN

VARIABLES
  rom,               \* the cartridge, the same in every run of the program
  running,           \* a process emulates it
  rom_bank_no, rom_bank_n,
  external_ram, external_ram_bank,
  last_written_mbc, rtc,
  sav                \* contents of the .sav file, empty when there is none

banking == <<rom_bank_no, rom_bank_n>>
clockregs == <<last_written_mbc, rtc>>
cvars == <<rom, running, banking, external_ram, external_ram_bank, clockregs, sav>>

Contents(n) == [0 .. n - 1 -> Bytes]
Nothing     == [i \in {} |-> 0]

Registers == 0 .. 4   \* seconds, minutes, hours and the two of the day counter

Null    == <<"null", 0>>
Ram(o)  == <<"ram", o>>
Rtc(i)  == <<"rtc", i>>

Init ==
  /\ rom \in Roms /\ running = FALSE
  /\ rom_bank_no = 1 /\ rom_bank_n = 1
  /\ external_ram = Nothing /\ external_ram_bank = Null
  /\ last_written_mbc = 255 /\ rtc = [i \in Registers |-> 0]
  /\ sav \in Contents(0) \cup Contents(rom.ram)
-----------------------------------------------------------------------------
(* load_rom *)

\* ftruncate: cut off or filled up with zeros.
Resized(file, n) == [i \in 0 .. n - 1 |-> IF i \in DOMAIN file THEN file[i] ELSE 0]

PrepareSave == sav' = IF rom.ram > 0 THEN Resized(sav, rom.ram) ELSE sav

\* mmap of the whole file, shared.
MapSave == external_ram' = IF rom.ram > 0 THEN sav' ELSE Nothing

Load ==
  /\ ~running /\ rom.mapper # "other"
  /\ PrepareSave /\ MapSave
  /\ running' = TRUE
  /\ rom_bank_no' = 1 /\ rom_bank_n' = 1
  /\ external_ram_bank' = IF rom.ram > 0 THEN Ram(0) ELSE Null
  /\ last_written_mbc' = 255 /\ rtc' = [i \in Registers |-> 0]
  /\ UNCHANGED rom

\* The save file has its new size before mmap may fail and before the mapper
\* is looked at.  The refusals that come earlier change nothing.
Refuse ==
  /\ ~running
  /\ PrepareSave
  /\ UNCHANGED <<rom, running, banking, external_ram, external_ram_bank, clockregs>>

\* free_cartridge, or any other end of the process.
Stop ==
  /\ running
  /\ running' = FALSE /\ external_ram' = Nothing /\ external_ram_bank' = Null
  /\ UNCHANGED <<rom, banking, clockregs, sav>>

-----------------------------------------------------------------------------
(* Writes below 0x8000, by the quarter of that range they fall in. *)

BankUnwrapped(no) == no

\* The bank a number selects: numbers wrap at the size of the ROM.
BankOf(no) == no % rom.banks

BumpZero(no) == IF no = 0 THEN no + 1 ELSE no

Bump(no) == IF no \in {0, 32, 64, 96} THEN no + 1 ELSE no

\* rom_bank_no & 0x60, rom_bank_no & 0x1F
High(no) == 32 * ((no \div 32) % 4)
Low(no)  == no % 32

mbc1(quarter, data) ==
  /\ rom.mapper = "mbc1"
  /\ \/ quarter = 1 /\ rom_bank_no' = Bump(High(rom_bank_no) + (data % 32))
     \/ quarter = 2 /\ rom_bank_no' = Bump(Low(rom_bank_no) + 32 * (data % 4))
     \/ quarter \in {0, 3} /\ rom_bank_no' = Bump(rom_bank_no)
  /\ rom_bank_n' = BankOf(rom_bank_no')
  /\ UNCHANGED <<external_ram_bank, clockregs>>

mbc3_rom(data) ==
  /\ rom_bank_n' = IF data = 0 THEN 1 ELSE BankOf(data % 128)
  /\ UNCHANGED <<rom_bank_no, external_ram_bank, clockregs>>

ExistsAny(data) == data <= 3

Exists(data) == data <= 3 /\ BankBytes * data < rom.ram

mbc3_select(data) ==
  /\ external_ram_bank' =
       CASE Exists(data)                    -> Ram(BankBytes * data)
         [] ~Exists(data) /\ data \in 8..12 -> Rtc(data - 8)
         [] OTHER                           -> external_ram_bank
  /\ UNCHANGED <<banking, clockregs>>

\* The day counter stays at zero.
Reading(c) == [i \in Registers |-> IF i < 3 THEN c[i + 1] ELSE 0]

Latches(data) == last_written_mbc = 0 /\ data = 1

mbc3_latch(data) ==
  /\ IF Latches(data)
       THEN \E c \in Clocks : rtc' = Reading(c)
       ELSE UNCHANGED rtc
  /\ last_written_mbc' = data
  /\ UNCHANGED <<banking, external_ram_bank>>

mbc3_ram(quarter, data) ==
  /\ rom.mapper = "mbc3"
  /\ \/ quarter = 1 /\ mbc3_rom(data)
     \/ quarter = 2 /\ mbc3_select(data)
     \/ quarter = 3 /\ mbc3_latch(data)

\* no_mbc, and the RAM enable of an MBC3, do nothing.
MbcWrite ==
  /\ running
  /\ \E quarter \in 0 .. 3, data \in Data : mbc1(quarter, data) \/ mbc3_ram(quarter, data)
  /\ UNCHANGED <<rom, running, external_ram, sav>>

-----------------------------------------------------------------------------
(* write_byte() to 0xA000 .. 0xBFFF.  A write with no RAM mapped is lost.  *)

StorePrivate(i, v) == external_ram' = [external_ram EXCEPT ![i] = v] /\ UNCHANGED sav

\* The mapping is shared with the file.
StoreShared(i, v) ==
  /\ external_ram' = [external_ram EXCEPT ![i] = v]
  /\ sav' = [sav EXCEPT ![i] = v]

StoreRam(o, v) ==
  /\ external_ram_bank[1] = "ram" /\ external_ram_bank[2] + o < rom.ram
  /\ StoreShared(external_ram_bank[2] + o, v)
  /\ UNCHANGED rtc

StoreRtc(o, v) ==
  /\ RtcStores /\ external_ram_bank[1] = "rtc"
  /\ external_ram_bank[2] + o \in Registers
  /\ rtc' = [rtc EXCEPT ![external_ram_bank[2] + o] = v]
  /\ UNCHANGED <<external_ram, sav>>

Store ==
  /\ running
  /\ \E o \in 0 .. BankBytes - 1, v \in Bytes : StoreRam(o, v) \/ StoreRtc(o, v)
  /\ UNCHANGED <<rom, running, banking, external_ram_bank, last_written_mbc>>

\* write_byte() has no bound but the window's.  A store behind the RAM is
\* undefined: it lands in the rest of the file's last page, which no file
\* keeps, or the next page is not writable and the process ends.
StoreBehind ==
  /\ running
  /\ external_ram_bank[1] = "ram" /\ external_ram_bank[2] + BankBytes > rom.ram
  /\ UNCHANGED cvars \/ Stop

Next == Load \/ Refuse \/ Stop \/ MbcWrite \/ Store \/ StoreBehind

Spec == Init /\ [][Next]_cvars
-----------------------------------------------------------------------------
(* The ROM bank exists, MBC1 never holds a number that selects one of the  *)
(* banks 0x00, 0x20, 0x40 and 0x60, and the mapped RAM has the size the    *)
(* header gives it.                                                        *)
TypeOK ==
  /\ rom \in Roms /\ running \in BOOLEAN
  /\ rom_bank_no \in 1 .. 127 /\ rom_bank_no % 32 # 0
  /\ rom_bank_n \in 0 .. rom.banks - 1
  /\ external_ram_bank \in {Null} \cup {Ram(o) : o \in 0 .. rom.ram}
                                  \cup {Rtc(i) : i \in Registers}
  /\ last_written_mbc \in 0 .. 255 /\ rtc \in [Registers -> Bytes]
  /\ sav \in Contents(0) \cup Contents(rom.ram)
  /\ external_ram \in IF running THEN Contents(rom.ram) ELSE {Nothing}

(* Whatever bank was asked for, all 8 KiB that the program then sees are   *)
(* inside the RAM of the cartridge; where the whole RAM is smaller than    *)
(* that, the program sees all of it, from its start.                       *)
RamBankInside ==
  external_ram_bank[1] = "ram" =>
    \/ external_ram_bank[2] + BankBytes <= rom.ram
    \/ external_ram_bank[2] = 0 /\ rom.ram \in 1 .. BankBytes - 1

IsMbc1 == rom.mapper = "mbc1"

\* The two registers; other cartridges have none that changes.
Bank1  == IF IsMbc1 THEN rom_bank_no % 32 ELSE 1
Bank2  == IF IsMbc1 THEN rom_bank_no \div 32 ELSE 0
MappedBank == IF IsMbc1 THEN rom_bank_n ELSE 1

M == INSTANCE Mbc1 WITH
       Bytes <- Data, size <- rom.banks,
       bank1 <- Bank1, bank2 <- Bank2, mapped <- MappedBank

(* The single number that mbc1() keeps, and repairs after every write,     *)
(* behaves like the two registers of an MBC1 in any order of writes.       *)
ActsAsMbc1 == M!Spec

\* What the program finds in its RAM, or would find if it were started.
Visible == IF running THEN external_ram ELSE Resized(sav, rom.ram)

\* The banks the program switches between, the last of them perhaps not full.
RamBanks == (rom.ram + BankBytes - 1) \div BankBytes

\* The bank switched in, and the RAM as the banks the program sees.
Switched ==
  IF external_ram_bank[1] = "ram" THEN external_ram_bank[2] \div BankBytes ELSE -1

Places == {c \in (0 .. RamBanks - 1) \X (0 .. BankBytes - 1) :
             c[1] * BankBytes + c[2] < rom.ram}

Cells == [c \in Places |-> Visible[c[1] * BankBytes + c[2]]]

D == INSTANCE Battery WITH
       Offsets <- 0 .. BankBytes - 1, bank <- Switched, cells <- Cells

(* README.md: "progress is written as you play".  The program can be       *)
(* stopped or fail to start at any moment and the save keeps every store   *)
(* that was made, in the cell of the bank it was meant for.                *)
SaveIsBattery == D!Spec

(* README.md: the RTC "can't be written to".  It can: a store to external  *)
(* RAM with an RTC register mapped goes to the register.                   *)
RtcOnlyLatched ==
  [][running /\ rtc' # rtc => last_written_mbc = 0 /\ last_written_mbc' = 1]_cvars
=============================================================================
