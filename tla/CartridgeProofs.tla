--------------------------- MODULE CartridgeProofs --------------------------
(***************************************************************************)
(* Proofs about Cartridge for every set of cartridges, every bank size and *)
(* everything the program may write.                                       *)
(***************************************************************************)
EXTENDS Cartridge, TLAPS

\* External RAM is mapped bank by bank, and only while a process runs.
Banked ==
  \/ external_ram_bank = Null
  \/ \E i \in Registers : external_ram_bank = Rtc(i)
  \/ running /\ \E k \in 0 .. RamBanks - 1 : external_ram_bank = Ram(BankBytes * k)

\* The mapped RAM and the file are the same bytes.
InSync == running => external_ram = sav

\* External RAM consists of whole banks or is smaller than one.
LEMMA RamShape ==
  ASSUME NEW r \in Roms
  PROVE  LET n == (r.ram + BankBytes - 1) \div BankBytes
         IN  /\ r.ram \in Nat /\ n \in Nat /\ BankBytes \in Nat \ {0}
             /\ r.ram = BankBytes * n \/ (n = 1 /\ r.ram \in 1 .. BankBytes - 1)
<1>1. /\ BankBytes \in Nat \ {0} /\ r.ram \in Nat
      /\ r.ram % BankBytes = 0 \/ r.ram < BankBytes
  BY CartridgeAssumption
<1>2. \A m \in Nat, d \in Nat \ {0} :
        /\ (m + d - 1) \div d \in Nat
        /\ m % d = 0 => m = d * (m \div d) /\ m \div d \in Nat
        /\ m \in 1 .. d - 1 => (m + d - 1) \div d = 1
  OBVIOUS
<1>3. \A q \in Nat, d \in Nat \ {0} : (d * q + d - 1) \div d = q
  OBVIOUS
<1> DEFINE n == (r.ram + BankBytes - 1) \div BankBytes
<1>4. n \in Nat
  BY ONLY <1>1, <1>2
<1>5. CASE r.ram % BankBytes = 0
  <2>1. r.ram = BankBytes * (r.ram \div BankBytes) /\ r.ram \div BankBytes \in Nat
    BY ONLY <1>1, <1>2, <1>5
  <2>2. PICK q \in Nat : r.ram = BankBytes * q
    BY <2>1
  <2>3. n = q
    BY ONLY <1>1, <1>3, <2>2
  <2> HIDE DEF n
  <2> QED
    BY <1>1, <1>4, <2>2, <2>3
<1>6. CASE r.ram \in 1 .. BankBytes - 1
  <2>1. n = 1
    BY ONLY <1>1, <1>2, <1>6
  <2> HIDE DEF n
  <2> QED
    BY <1>1, <1>4, <1>6, <2>1
<1>7. r.ram % BankBytes = 0 \/ r.ram \in 1 .. BankBytes - 1
  <2>1. 0 % BankBytes = 0
    BY <1>1
  <2> QED
    BY <1>1, <2>1
<1> QED
  BY <1>5, <1>6, <1>7

\* The same of the cartridge in use.
LEMMA Shape ==
  ASSUME rom \in Roms
  PROVE  /\ rom.ram \in Nat /\ RamBanks \in Nat /\ BankBytes \in Nat \ {0}
         /\ \/ rom.ram = BankBytes * RamBanks
            \/ RamBanks = 1 /\ rom.ram \in 1 .. BankBytes - 1
BY RamShape DEF RamBanks

\* Banks lie inside the RAM, and no two of their cells coincide.
LEMMA BankArithmetic ==
  ASSUME NEW b \in Nat \ {0}, NEW n \in Nat, NEW k \in 0 .. n - 1,
         NEW o \in 0 .. b - 1
  PROVE  /\ b * k + b <= b * n
         /\ b * k + o \in 0 .. b * n - 1
         /\ (b * k) \div b = k
         /\ k * b = b * k
         /\ \A l \in 0 .. n - 1, p \in 0 .. b - 1 :
              l * b + p = b * k + o => l = k /\ p = o
<1>1. b * k + b <= b * n
  OBVIOUS
<1>2. (b * k) \div b = k
  OBVIOUS
<1>3. ASSUME NEW l \in 0 .. n - 1, NEW p \in 0 .. b - 1, l * b + p = b * k + o
      PROVE  l = k /\ p = o
  <2>1. l * b = b * l
    OBVIOUS
  <2>2. CASE l < k
    <3>1. b * l + b <= b * k
      BY <2>2
    <3> QED
      BY <1>3, <2>1, <3>1
  <2>3. CASE l > k
    <3>1. b * k + b <= b * l
      BY <2>3
    <3> QED
      BY <1>3, <2>1, <3>1
  <2> QED
    BY <1>3, <2>1, <2>2, <2>3
<1>4. b * k >= 0 /\ b * k + o \in 0 .. b * n - 1
  BY <1>1
<1> QED
  BY <1>1, <1>2, <1>3, <1>4

LEMMA ResizedType ==
  ASSUME NEW n \in Nat, NEW m \in Nat, NEW file \in Contents(m)
  PROVE  /\ Resized(file, n) \in Contents(n)
         /\ m = n => Resized(file, n) = file
         /\ Resized(Resized(file, n), n) = Resized(file, n)
<1>1. Resized(file, n) \in Contents(n)
  BY CartridgeAssumption DEF Resized, Contents
<1>2. \A f \in Contents(n) : Resized(f, n) = f
  BY DEF Resized, Contents
<1> QED
  BY <1>1, <1>2
-----------------------------------------------------------------------------
\* The cartridge, the ROM bank and the RTC.
RomOK ==
  /\ rom \in Roms /\ running \in BOOLEAN
  /\ rom_bank_no \in 1 .. 127 /\ rom_bank_no % 32 # 0
  /\ rom_bank_n \in 0 .. rom.banks - 1
  /\ last_written_mbc \in 0 .. 255 /\ rtc \in [Registers -> Bytes]

\* The external RAM and its file.
RamOK ==
  /\ external_ram_bank \in {Null} \cup {Ram(o) : o \in 0 .. rom.ram}
                                  \cup {Rtc(i) : i \in Registers}
  /\ sav \in Contents(0) \cup Contents(rom.ram)
  /\ external_ram \in IF running THEN Contents(rom.ram) ELSE {Nothing}

LEMMA TypeParts == TypeOK <=> RomOK /\ RamOK
BY DEF TypeOK, RomOK, RamOK

\* Number arithmetic of mbc1.
LEMMA Numbers ==
  ASSUME NEW no \in 1 .. 127, no % 32 # 0, NEW d \in 0 .. 255
  PROVE  /\ Bump(no) = no
         /\ Bump(High(no) + (d % 32)) =
              32 * (no \div 32) + (IF d % 32 = 0 THEN 1 ELSE d % 32)
         /\ Bump(Low(no) + 32 * (d % 4)) = 32 * (d % 4) + (no % 32)
BY DEF Bump, High, Low

LEMMA Split ==
  ASSUME NEW h \in 0 .. 3, NEW l \in 1 .. 31
  PROVE  /\ 32 * h + l \in 1 .. 127
         /\ (32 * h + l) % 32 = l /\ (32 * h + l) \div 32 = h
OBVIOUS

\* What a write to an MBC1 does to the two parts of the number.
LEMMA Mbc1Write ==
  ASSUME RomOK, NEW quarter \in 0 .. 3, NEW data \in 0 .. 255, mbc1(quarter, data)
  PROVE  /\ rom_bank_no' \in 1 .. 127
         /\ rom_bank_no' % 32 =
              IF quarter = 1 THEN (IF data % 32 = 0 THEN 1 ELSE data % 32)
                             ELSE rom_bank_no % 32
         /\ rom_bank_no' \div 32 =
              IF quarter = 2 THEN data % 4 ELSE rom_bank_no \div 32
         /\ rom_bank_no' = 32 * (rom_bank_no' \div 32) + (rom_bank_no' % 32)
         /\ rom_bank_no' % 32 # 0
<1> DEFINE no   == rom_bank_no
           low  == IF quarter = 1 THEN (IF data % 32 = 0 THEN 1 ELSE data % 32)
                                  ELSE no % 32
           high == IF quarter = 2 THEN data % 4 ELSE no \div 32
<1>1. no \in 1 .. 127 /\ no % 32 # 0
  BY DEF RomOK
<1>2. low \in 1 .. 31 /\ high \in 0 .. 3
  BY <1>1
<1>3. rom_bank_no' = 32 * high + low
  <2>1. /\ Bump(no) = no
        /\ Bump(High(no) + (data % 32)) =
             32 * (no \div 32) + (IF data % 32 = 0 THEN 1 ELSE data % 32)
        /\ Bump(Low(no) + 32 * (data % 4)) = 32 * (data % 4) + (no % 32)
    BY ONLY <1>1, data \in 0 .. 255, Numbers
  <2>2. \/ quarter = 1 /\ rom_bank_no' = Bump(High(no) + (data % 32))
        \/ quarter = 2 /\ rom_bank_no' = Bump(Low(no) + 32 * (data % 4))
        \/ quarter \in {0, 3} /\ rom_bank_no' = Bump(no)
    BY DEF mbc1
  <2>3. no = 32 * (no \div 32) + (no % 32)
    BY <1>1
  <2> QED
    BY ONLY <2>1, <2>2, <2>3
<1> HIDE DEF low, high
<1>4. /\ 32 * high + low \in 1 .. 127
      /\ (32 * high + low) % 32 = low /\ (32 * high + low) \div 32 = high
  BY <1>2, Split
<1>5. /\ rom_bank_no' \in 1 .. 127 /\ rom_bank_no' % 32 = low
      /\ rom_bank_no' \div 32 = high
  BY ONLY <1>3, <1>4
<1>6. rom_bank_no' = 32 * high + low /\ low # 0
  BY <1>2, <1>3
<1> QED
  BY ONLY <1>5, <1>6 DEF low, high

\* A store behind the RAM changes nothing the model knows, or ends the process.
LEMMA Behind == ASSUME StoreBehind PROVE Stop \/ UNCHANGED cvars
BY DEF StoreBehind

LEMMA RomPreserved ==
  ASSUME RomOK, [Next]_cvars
  PROVE  RomOK'
<1> USE CartridgeAssumption DEF RomOK
<1>1. CASE Load
  BY <1>1 DEF Load
<1>2. CASE Refuse \/ Stop \/ StoreBehind \/ UNCHANGED cvars
  <2>0. Refuse \/ Stop \/ UNCHANGED cvars
    BY <1>2, Behind
  <2>1. UNCHANGED <<rom, rom_bank_no, rom_bank_n, last_written_mbc, rtc>>
    BY <2>0 DEF Refuse, Stop, cvars, banking, clockregs
  <2>2. running' \in BOOLEAN
    BY <2>0 DEF Refuse, Stop, cvars
  <2> QED
    BY <2>1, <2>2
<1>3. CASE Store
  <2>1. UNCHANGED <<rom, running, rom_bank_no, rom_bank_n, last_written_mbc>>
    BY <1>3 DEF Store, banking
  <2>2. rtc' \in [Registers -> Bytes]
    <3>1. PICK o \in 0 .. BankBytes - 1, v \in Bytes : StoreRam(o, v) \/ StoreRtc(o, v)
      BY <1>3 DEF Store
    <3>2. CASE StoreRam(o, v)
      BY <3>2 DEF StoreRam
    <3>3. CASE StoreRtc(o, v)
      <4>1. rtc' = [rtc EXCEPT ![external_ram_bank[2] + o] = v]
        BY <3>3 DEF StoreRtc
      <4> QED
        BY ONLY <4>1, rtc \in [Registers -> Bytes], v \in Bytes
    <3> QED
      BY <3>1, <3>2, <3>3
  <2> QED
    BY <2>1, <2>2
<1>4. CASE MbcWrite
  <2>0. rom' = rom /\ running' = running
    BY <1>4 DEF MbcWrite
  <2>1. ASSUME NEW quarter \in 0 .. 3, NEW data \in Data, mbc1(quarter, data)
        PROVE  RomOK'
    <3>1. rom_bank_no' \in 1 .. 127 /\ rom_bank_no' % 32 # 0
      BY <2>1, Mbc1Write
    <3>2. rom_bank_n' \in 0 .. rom.banks - 1
      BY <2>1, <3>1 DEF mbc1, BankOf
    <3> QED
      BY <2>0, <2>1, <3>1, <3>2 DEF mbc1, clockregs
  <2>2. ASSUME NEW quarter \in 0 .. 3, NEW data \in Data, mbc3_ram(quarter, data)
        PROVE  RomOK'
    <3>1. CASE mbc3_rom(data)
      BY <2>0, <3>1 DEF mbc3_rom, BankOf, clockregs
    <3>2. CASE mbc3_select(data)
      BY <2>0, <3>2 DEF mbc3_select, banking, clockregs
    <3>3. CASE mbc3_latch(data)
      <4>1. \A c \in Clocks : Reading(c) \in [Registers -> Bytes]
        BY DEF Reading, Registers
      <4> QED
        BY <2>0, <3>3, <4>1 DEF mbc3_latch, banking
    <3> QED
      BY <2>2, <3>1, <3>2, <3>3 DEF mbc3_ram
  <2> QED
    BY <1>4, <2>1, <2>2 DEF MbcWrite
<1> QED
  BY <1>1, <1>2, <1>3, <1>4 DEF Next

\* The three kinds of pointer are told apart by their region.
LEMMA PointerTags ==
  /\ Null[1] = "null"
  /\ \A i : Rtc(i)[1] = "rtc" /\ Ram(i)[1] = "ram" /\ Ram(i)[2] = i
BY DEF Null, Rtc, Ram

\* A bank the program selects exists.
LEMMA SelectedExists ==
  ASSUME RomOK, NEW data \in 0 .. 255, Exists(data)
  PROVE  data \in 0 .. RamBanks - 1
<1>1. /\ rom.ram \in Nat /\ RamBanks \in Nat /\ BankBytes \in Nat \ {0}
      /\ BankBytes * data < rom.ram
      /\ \/ rom.ram = BankBytes * RamBanks
         \/ RamBanks = 1 /\ rom.ram \in 1 .. BankBytes - 1
  BY Shape DEF RomOK, Exists
<1>2. CASE data >= RamBanks
  <2>1. BankBytes * data >= BankBytes * RamBanks
    BY ONLY <1>1, <1>2, data \in Nat
  <2>2. RamBanks = 1 => BankBytes * RamBanks = BankBytes
    BY ONLY <1>1
  <2> QED
    BY ONLY <1>1, <2>1, <2>2, data \in Nat
<1> QED
  BY <1>1, <1>2

LEMMA FirstBank ==
  ASSUME RomOK, rom.ram > 0
  PROVE  0 \in 0 .. RamBanks - 1 /\ BankBytes * 0 = 0
<1>1. /\ rom.ram \in Nat /\ RamBanks \in Nat /\ BankBytes \in Nat \ {0}
      /\ rom.ram = BankBytes * RamBanks \/ RamBanks = 1
  BY Shape DEF RomOK
<1>2. CASE RamBanks = 0
  BY ONLY <1>1, <1>2, rom.ram > 0
<1> QED
  BY <1>1, <1>2

\* A bank begins inside the RAM, and ends there if it is not a smaller RAM.
LEMMA BankPointer ==
  ASSUME RomOK, NEW k \in 0 .. RamBanks - 1
  PROVE  /\ BankBytes * k \in 0 .. rom.ram - 1
         /\ \/ BankBytes * k + BankBytes <= rom.ram
            \/ BankBytes * k = 0 /\ rom.ram \in 1 .. BankBytes - 1
<1>1. /\ rom.ram \in Nat /\ RamBanks \in Nat /\ BankBytes \in Nat \ {0}
      /\ \/ rom.ram = BankBytes * RamBanks
         \/ RamBanks = 1 /\ rom.ram \in 1 .. BankBytes - 1
  BY Shape DEF RomOK
<1>2. BankBytes * k \in Nat /\ (k = 0 => BankBytes * k = 0)
  BY <1>1
<1>3. BankBytes * k + BankBytes <= BankBytes * RamBanks
  BY ONLY <1>1, BankArithmetic, k \in 0 .. RamBanks - 1, 0 \in 0 .. BankBytes - 1
<1>4. CASE rom.ram = BankBytes * RamBanks
  BY <1>1, <1>2, <1>3, <1>4
<1>5. CASE RamBanks = 1 /\ rom.ram \in 1 .. BankBytes - 1
  BY <1>1, <1>2, <1>5
<1> QED
  BY <1>1, <1>4, <1>5

RamInv == RamOK /\ Banked /\ InSync

LEMMA InitRam == Init => RomOK /\ RamInv
<1> SUFFICES ASSUME Init PROVE RomOK /\ RamInv
  OBVIOUS
<1> USE CartridgeAssumption DEF Init
<1>1. RomOK
  <2>1. rtc \in [Registers -> Bytes]
    OBVIOUS
  <2>2. 1 % 32 # 0 /\ rom_bank_n \in 0 .. rom.banks - 1
    OBVIOUS
  <2>3. rom \in Roms /\ running \in BOOLEAN
    OBVIOUS
  <2>4. rom_bank_no \in 1 .. 127 /\ last_written_mbc \in 0 .. 255
    OBVIOUS
  <2>5. rom_bank_no % 32 # 0
    BY <2>2
  <2> HIDE DEF Init
  <2> QED
    BY ONLY <2>1, <2>2, <2>3, <2>4, <2>5 DEF RomOK
<1>2. RamOK
  BY DEF RamOK
<1>3. Banked /\ InSync
  BY DEF Banked, InSync
<1> QED
  BY <1>1, <1>2, <1>3 DEF RamInv

LEMMA LoadRam ==
  ASSUME RomOK, RamInv, Load
  PROVE  RamInv'
<1> USE DEF RamInv, RamOK
<1>0. rom' = rom /\ running' = TRUE /\ rom.ram \in Nat
  BY CartridgeAssumption DEF Load, RomOK
<1>1. CASE rom.ram > 0
  <2>1. /\ sav' = Resized(sav, rom.ram) /\ external_ram' = sav'
        /\ external_ram_bank' = Ram(0)
    BY <1>1 DEF Load, PrepareSave, MapSave
  <2>2. sav' \in Contents(rom.ram) /\ Resized(sav', rom.ram) = sav'
    BY <1>0, <2>1, ResizedType
  <2>3. Ram(0) \in {Ram(o) : o \in 0 .. rom.ram}
    BY <1>0
  <2>4. Banked'
    BY <1>0, <1>1, <2>1, FirstBank DEF Banked, RamBanks
  <2> QED
    BY <1>0, <2>1, <2>2, <2>3, <2>4 DEF InSync
<1>2. CASE ~(rom.ram > 0)
  <2>1. rom.ram = 0 /\ sav' = sav /\ external_ram' = Nothing /\ external_ram_bank' = Null
    BY <1>0, <1>2 DEF Load, PrepareSave, MapSave
  <2>2. \A f \in Contents(0) : f = Nothing
    BY DEF Nothing, Contents
  <2>3. Nothing \in Contents(0)
    BY DEF Nothing, Contents
  <2> QED
    BY <1>0, <2>1, <2>2, <2>3 DEF InSync, Banked
<1> QED
  BY <1>1, <1>2

LEMMA RefuseRam ==
  ASSUME RomOK, RamInv, Refuse
  PROVE  RamInv'
<1> USE DEF RamInv, RamOK
<1>0. /\ UNCHANGED <<rom, running, external_ram, external_ram_bank>>
      /\ running = FALSE /\ rom.ram \in Nat
  BY CartridgeAssumption DEF Refuse, RomOK
<1>1. sav' \in Contents(0) \cup Contents(rom.ram)
  BY <1>0, ResizedType DEF Refuse, PrepareSave
<1> QED
  BY <1>0, <1>1 DEF Banked, InSync, RamBanks

LEMMA StopRam ==
  ASSUME RomOK, RamInv, Stop
  PROVE  RamInv'
BY DEF RamInv, RamOK, Stop, Banked, InSync

LEMMA MbcRam ==
  ASSUME RomOK, RamInv, MbcWrite
  PROVE  RamInv'
<1> USE DEF RamInv, RamOK
<1>0. UNCHANGED <<rom, running, external_ram, sav>> /\ running = TRUE
  BY DEF MbcWrite, RomOK
<1>1. \/ external_ram_bank' = external_ram_bank
      \/ \E i \in Registers : external_ram_bank' = Rtc(i)
      \/ \E k \in 0 .. RamBanks - 1 : external_ram_bank' = Ram(BankBytes * k)
  <2>1. PICK quarter \in 0 .. 3, data \in Data : mbc1(quarter, data) \/ mbc3_ram(quarter, data)
    BY DEF MbcWrite
  <2>2. data \in 0 .. 255
    BY CartridgeAssumption
  <2>3. CASE ~mbc3_select(data)
    BY <2>1, <2>3 DEF mbc1, mbc3_ram, mbc3_rom, mbc3_latch
  <2>4. CASE mbc3_select(data)
    <3>1. CASE Exists(data)
      BY <2>2, <2>4, <3>1, SelectedExists DEF mbc3_select
    <3>2. CASE ~Exists(data) /\ data \in 8 .. 12
      <4>1. external_ram_bank' = Rtc(data - 8) /\ data - 8 \in Registers
        BY <2>2, <2>4, <3>2 DEF mbc3_select, Registers
      <4> QED
        BY <4>1
    <3>3. CASE ~Exists(data) /\ data \notin 8 .. 12
      BY <2>4, <3>3 DEF mbc3_select
    <3> QED
      BY <3>1, <3>2, <3>3
  <2> QED
    BY <2>3, <2>4
<1>2. \A k \in 0 .. RamBanks - 1 : Ram(BankBytes * k) \in {Ram(o) : o \in 0 .. rom.ram}
  <2> TAKE k \in 0 .. RamBanks - 1
  <2>1. BankBytes * k \in 0 .. rom.ram - 1 /\ rom.ram \in Nat
    BY BankPointer, Shape DEF RomOK
  <2>2. BankBytes * k \in 0 .. rom.ram
    BY ONLY <2>1
  <2> QED
    BY <2>2
<1>3. Banked'
  BY <1>0, <1>1 DEF Banked, RamBanks
<1>4. RamOK'
  BY <1>0, <1>1, <1>2
<1> QED
  BY <1>0, <1>3, <1>4 DEF InSync

\* A store changes one cell of the bank that is mapped, in RAM and file alike.
LEMMA StoreHits ==
  ASSUME RomOK, RamInv, Store, external_ram_bank[1] = "ram"
  PROVE  \E k \in 0 .. RamBanks - 1, o \in 0 .. BankBytes - 1, v \in Bytes :
           /\ external_ram_bank = Ram(BankBytes * k)
           /\ BankBytes * k + o \in 0 .. rom.ram - 1
           /\ external_ram' = [external_ram EXCEPT ![BankBytes * k + o] = v]
           /\ sav' = [sav EXCEPT ![BankBytes * k + o] = v]
<1>1. PICK o \in 0 .. BankBytes - 1, v \in Bytes : StoreRam(o, v) \/ StoreRtc(o, v)
  BY DEF Store
<1>2. StoreRam(o, v)
  BY <1>1 DEF StoreRtc
<1>3. PICK k \in 0 .. RamBanks - 1 : external_ram_bank = Ram(BankBytes * k)
  BY PointerTags DEF RamInv, Banked
<1>4. external_ram_bank[2] = BankBytes * k
  BY <1>3, PointerTags
<1>5. BankBytes * k + o \in 0 .. rom.ram - 1
  <2>1. BankBytes * k \in Nat /\ BankBytes \in Nat /\ rom.ram \in Nat
    BY BankPointer, Shape DEF RomOK
  <2>2. BankBytes * k + o < rom.ram
    BY <1>2, <1>4 DEF StoreRam
  <2> QED
    BY <2>1, <2>2
<1> QED
  BY <1>2, <1>3, <1>4, <1>5 DEF StoreRam, StoreShared

LEMMA StoreRamInv ==
  ASSUME RomOK, RamInv, Store
  PROVE  RamInv'
<1>0. UNCHANGED <<rom, running, external_ram_bank>> /\ running = TRUE
  BY DEF Store, RomOK
<1>1. CASE external_ram_bank[1] = "ram"
  <2>1. PICK i \in 0 .. rom.ram - 1, v \in Bytes :
          /\ external_ram' = [external_ram EXCEPT ![i] = v]
          /\ sav' = [sav EXCEPT ![i] = v]
    BY <1>1, StoreHits
  <2>2. sav \in Contents(rom.ram) /\ external_ram = sav
    BY <1>0 DEF RamInv, RamOK, InSync
  <2>3. sav' \in Contents(rom.ram) /\ external_ram' = sav'
    BY <2>1, <2>2 DEF Contents
  <2> QED
    BY <1>0, <2>3 DEF RamInv, RamOK, InSync, Banked, RamBanks
<1>2. CASE external_ram_bank[1] # "ram"
  <2>1. UNCHANGED <<external_ram, sav>>
    BY <1>2 DEF Store, StoreRam, StoreRtc
  <2> QED
    BY <1>0, <2>1 DEF RamInv, RamOK, Banked, InSync, RamBanks
<1> QED
  BY <1>1, <1>2

\* The inductive invariant.
IInv == RomOK /\ RamInv

LEMMA InitIInv == Init => IInv
BY InitRam DEF IInv

LEMMA NextIInv == IInv /\ [Next]_cvars => IInv'
<1> SUFFICES ASSUME IInv, [Next]_cvars PROVE IInv'
  OBVIOUS
<1>1. RomOK'
  BY RomPreserved DEF IInv
<1>2. RamInv'
  <2>1. CASE UNCHANGED cvars
    BY <2>1 DEF cvars, IInv, RamInv, RamOK, Banked, InSync, RamBanks
  <2> QED
    BY <2>1, LoadRam, RefuseRam, StopRam, MbcRam, StoreRamInv, Behind DEF Next, IInv
<1> QED
  BY <1>1, <1>2 DEF IInv

LEMMA Invariance == Spec => []IInv
BY InitIInv, NextIInv, PTL DEF Spec

(* For every ROM, bank size and program the numbers that select ROM and    *)
(* RAM stay in range, and the save file has one of its two sizes.          *)
THEOREM TypeCorrect == Spec => []TypeOK
<1>1. IInv => TypeOK
  BY TypeParts DEF IInv, RamInv
<1> QED
  BY <1>1, Invariance, PTL

(* The external RAM bank that the program sees lies inside the RAM, or is  *)
(* a RAM smaller than a bank, seen from its start.                         *)
THEOREM RamAlwaysInside == Spec => []RamBankInside
<1>1. IInv => RamBankInside
  BY BankPointer, PointerTags DEF IInv, RamInv, Banked, RamBankInside
<1> QED
  BY <1>1, Invariance, PTL
-----------------------------------------------------------------------------
(* The cartridge RAM is a Battery. *)

LEMMA VisibleType == IInv => Visible \in Contents(rom.ram) /\ rom.ram \in Nat
<1> SUFFICES ASSUME IInv PROVE Visible \in Contents(rom.ram) /\ rom.ram \in Nat
  OBVIOUS
<1>1. rom.ram \in Nat
  BY CartridgeAssumption DEF IInv, RomOK
<1> QED
  BY <1>1, ResizedType DEF Visible, IInv, RamInv, RamOK

LEMMA SwitchedRange == IInv => Switched \in D!Banks \cup {-1}
<1> SUFFICES ASSUME IInv PROVE Switched \in D!Banks \cup {-1}
  OBVIOUS
<1>0. RomOK /\ Banked
  BY DEF IInv, RamInv
<1>1. CASE external_ram_bank[1] # "ram"
  BY <1>1 DEF Switched
<1>2. CASE external_ram_bank[1] = "ram"
  <2>1. PICK k \in 0 .. RamBanks - 1 : external_ram_bank = Ram(BankBytes * k)
    BY <1>0, <1>2, PointerTags DEF Banked
  <2>2. external_ram_bank[2] = BankBytes * k
    BY <2>1, PointerTags
  <2>3. RamBanks \in Nat /\ BankBytes \in Nat \ {0} /\ 0 \in 0 .. BankBytes - 1
    BY <1>0, Shape DEF RomOK
  <2>4. (BankBytes * k) \div BankBytes = k /\ k * BankBytes = BankBytes * k
    BY ONLY <2>3, BankArithmetic, k \in 0 .. RamBanks - 1
  <2>5. k * BankBytes + 0 < rom.ram
    <3>1. BankBytes * k \in 0 .. rom.ram - 1
      BY <1>0, BankPointer
    <3>2. rom.ram \in Nat
      BY <1>0, Shape DEF RomOK
    <3>3. k * BankBytes = BankBytes * k
      BY <2>4
    <3>4. BankBytes * k + 0 < rom.ram
      BY ONLY <3>1, <3>2
    <3> QED
      BY <3>3, <3>4
  <2>6. <<k, 0>> \in Places
    BY <2>3, <2>5 DEF Places
  <2>7. DOMAIN Cells = Places /\ <<k, 0>>[1] = k
    BY DEF Cells
  <2> QED
    BY <1>2, <2>2, <2>4, <2>6, <2>7 DEF Switched, D!Banks
<1> QED
  BY <1>1, <1>2

\* Every place is a byte of the RAM.
LEMMA PlaceInside ==
  ASSUME RomOK, NEW c \in Places
  PROVE  /\ c[1] \in 0 .. RamBanks - 1 /\ c[2] \in 0 .. BankBytes - 1
         /\ c = <<c[1], c[2]>>
         /\ c[1] * BankBytes + c[2] \in 0 .. rom.ram - 1
<1>1. /\ c[1] \in 0 .. RamBanks - 1 /\ c[2] \in 0 .. BankBytes - 1
      /\ c = <<c[1], c[2]>> /\ c[1] * BankBytes + c[2] < rom.ram
  BY DEF Places
<1>2. RamBanks \in Nat /\ BankBytes \in Nat /\ rom.ram \in Nat
  BY Shape DEF RomOK
<1>3. c[1] * BankBytes \in Nat
  BY <1>1, <1>2
<1> QED
  BY <1>1, <1>2, <1>3

LEMMA InitBattery == Init => D!Init
<1> SUFFICES ASSUME Init PROVE D!Init
  OBVIOUS
<1>1. IInv
  BY InitIInv
<1>2. external_ram_bank[1] # "ram"
  BY PointerTags DEF Init
<1>3. Places \subseteq Nat \X (0 .. BankBytes - 1)
  BY <1>1, PlaceInside DEF IInv
<1>4. \A c \in Places : Visible[c[1] * BankBytes + c[2]] \in Bytes
  BY <1>1, PlaceInside, VisibleType DEF IInv, Contents
<1> QED
  BY <1>2, <1>3, <1>4 DEF D!Init, Switched, Cells

\* What does not touch the contents is at most a switch of the bank.
LEMMA StepSwitches ==
  ASSUME IInv, IInv', rom' = rom, Visible' = Visible
  PROVE  D!Switch
<1>1. (Switched \in D!Banks \cup {-1})'
  BY SwitchedRange, PTL
<1>2. Places' = Places
  BY DEF Places, RamBanks
<1>3. Cells' = Cells
  BY <1>2 DEF Cells
<1> QED
  BY <1>1, <1>3 DEF D!Switch, D!Banks

LEMMA StoreStores ==
  ASSUME IInv, IInv', Store, external_ram_bank[1] = "ram"
  PROVE  D!Store
<1>0. UNCHANGED <<rom, running, external_ram_bank>> /\ running = TRUE /\ RomOK
  BY DEF Store, IInv, RomOK
<1>1. PICK k \in 0 .. RamBanks - 1, o \in 0 .. BankBytes - 1, v \in Bytes :
        /\ external_ram_bank = Ram(BankBytes * k)
        /\ BankBytes * k + o \in 0 .. rom.ram - 1
        /\ external_ram' = [external_ram EXCEPT ![BankBytes * k + o] = v]
  BY StoreHits DEF IInv
<1>2. RamBanks \in Nat /\ BankBytes \in Nat \ {0}
  BY <1>0, Shape DEF RomOK
<1>3. /\ (BankBytes * k) \div BankBytes = k
      /\ \A l \in 0 .. RamBanks - 1, p \in 0 .. BankBytes - 1 :
           l * BankBytes + p = BankBytes * k + o => l = k /\ p = o
      /\ k * BankBytes + o = BankBytes * k + o
  BY ONLY <1>2, BankArithmetic, k \in 0 .. RamBanks - 1, o \in 0 .. BankBytes - 1
<1>4. external_ram_bank[2] = BankBytes * k /\ external_ram_bank[1] = "ram"
  BY <1>1, PointerTags
<1> DEFINE at(c) == c[1] * BankBytes + c[2]
<1>5. Visible = external_ram /\ Visible' = external_ram'
  BY <1>0 DEF Visible
<1>6. external_ram \in Contents(rom.ram)
  BY <1>5, VisibleType
<1>7. <<k, o>> \in Places
  <2>1. k * BankBytes + o < rom.ram
    <3>1. rom.ram \in Nat
      BY <1>0, Shape DEF RomOK
    <3>2. BankBytes * k + o < rom.ram
      BY ONLY <1>1, <3>1
    <3> QED
      BY ONLY <1>3, <3>2
  <2> QED
    BY <2>1 DEF Places
<1>8. ASSUME NEW c \in Places
      PROVE  external_ram'[at(c)] = IF c = <<k, o>> THEN v ELSE external_ram[at(c)]
  <2>1. /\ c[1] \in 0 .. RamBanks - 1 /\ c[2] \in 0 .. BankBytes - 1
        /\ c = <<c[1], c[2]>> /\ at(c) \in 0 .. rom.ram - 1
    BY <1>0, PlaceInside
  <2>2. (at(c) = BankBytes * k + o) <=> (c[1] = k /\ c[2] = o)
    BY <1>3, <2>1
  <2>3. (c = <<k, o>>) <=> (c[1] = k /\ c[2] = o)
    BY <2>1
  <2> HIDE DEF at
  <2> QED
    BY <1>1, <1>6, <2>1, <2>2, <2>3 DEF Contents
<1>9. Cells' = [Cells EXCEPT ![<<k, o>>] = v]
  <2>0. Places' = Places
    BY <1>0 DEF Places, RamBanks
  <2>1. Cells' = [c \in Places |-> external_ram'[at(c)]]
    BY <1>5, <2>0 DEF Cells
  <2>2. [Cells EXCEPT ![<<k, o>>] = v] =
          [c \in Places |-> IF c = <<k, o>> THEN v ELSE external_ram[at(c)]]
    BY <1>5 DEF Cells
  <2>3. \A c \in Places :
          external_ram'[at(c)] = IF c = <<k, o>> THEN v ELSE external_ram[at(c)]
    BY <1>8
  <2> HIDE DEF at
  <2> QED
    BY <2>1, <2>2, <2>3
<1>10. Switched = k /\ Switched' = Switched
  BY <1>0, <1>3, <1>4 DEF Switched
<1> QED
  <2>1. DOMAIN Cells = Places
    BY DEF Cells
  <2> QED
    BY <1>7, <1>9, <1>10, <2>1 DEF D!Store

(* The program's stores are all that ever changes the save: each reaches   *)
(* one cell of the bank mapped in, and neither a stop at any moment nor a  *)
(* failed or successful start takes any of them back.                      *)
THEOREM SavesAreKept == Spec => SaveIsBattery
<1>1. IInv /\ IInv' /\ [Next]_cvars => [D!Next]_(D!contents)
  <2> SUFFICES ASSUME IInv, IInv', [Next]_cvars PROVE [D!Next]_(D!contents)
    OBVIOUS
  <2>1. CASE Store /\ external_ram_bank[1] = "ram"
    BY <2>1, StoreStores DEF D!Next
  <2>2. CASE ~(Store /\ external_ram_bank[1] = "ram")
    <3>1. rom' = rom
      BY Behind DEF Next, Load, Refuse, Stop, MbcWrite, Store, cvars
    <3>2. Visible' = Visible
      <4>1. rom.ram \in Nat /\ sav \in Contents(0) \cup Contents(rom.ram)
        BY CartridgeAssumption DEF IInv, RomOK, RamInv, RamOK
      <4>2. running => external_ram = sav /\ sav \in Contents(rom.ram)
        BY DEF IInv, RamInv, RamOK, InSync
      <4>3. running' => external_ram' = sav'
        BY DEF IInv, RamInv, InSync
      <4>4. Resized(Resized(sav, rom.ram), rom.ram) = Resized(sav, rom.ram)
            /\ (sav \in Contents(rom.ram) => Resized(sav, rom.ram) = sav)
        BY <4>1, ResizedType
      <4>5. running \in BOOLEAN /\ running' \in BOOLEAN
        BY DEF IInv, RomOK
      <4>6. CASE Load
        <5>1. ~running /\ running' = TRUE
          BY <4>6 DEF Load
        <5>2. sav' = Resized(sav, rom.ram)
          <6>1. CASE rom.ram > 0
            BY <4>6, <6>1 DEF Load, PrepareSave
          <6>2. CASE rom.ram = 0
            BY <4>1, <4>4, <4>6, <6>2 DEF Load, PrepareSave
          <6> QED
            BY <4>1, <6>1, <6>2
        <5> QED
          BY <4>3, <5>1, <5>2 DEF Visible
      <4>7. CASE Refuse
        <5>1. ~running /\ running' = FALSE
          BY <4>5, <4>7 DEF Refuse
        <5>2. sav' = Resized(sav, rom.ram) \/ sav' = sav
          BY <4>7 DEF Refuse, PrepareSave
        <5> QED
          BY <3>1, <4>4, <5>1, <5>2 DEF Visible
      <4>8. CASE Stop
        BY <3>1, <4>2, <4>4, <4>8 DEF Stop, Visible
      <4>9. CASE MbcWrite \/ UNCHANGED cvars
        BY <3>1, <4>9 DEF MbcWrite, cvars, Visible
      <4>10. CASE Store
        <5>1. UNCHANGED <<running, external_ram, sav>>
          BY <2>2, <4>10 DEF Store, StoreRam, StoreRtc
        <5> QED
          BY <3>1, <5>1 DEF Visible
      <4> QED
        BY <4>6, <4>7, <4>8, <4>9, <4>10, Behind DEF Next
    <3> QED
      BY <3>1, <3>2, StepSwitches DEF D!Next
  <2> QED
    BY <2>1, <2>2
<1> QED
  BY <1>1, InitBattery, Invariance, PTL DEF Spec, SaveIsBattery, D!Spec
-----------------------------------------------------------------------------
(* The controller is an Mbc1. *)

LEMMA WriteIsMbc1 ==
  ASSUME RomOK, NEW quarter \in 0 .. 3, NEW data \in Data, mbc1(quarter, data),
         rom' = rom
  PROVE  M!Next
<1>0. data \in 0 .. 255 /\ rom' = rom
  BY CartridgeAssumption
<1>1. /\ rom_bank_no' % 32 =
           IF quarter = 1 THEN (IF data % 32 = 0 THEN 1 ELSE data % 32)
                          ELSE rom_bank_no % 32
      /\ rom_bank_no' \div 32 = IF quarter = 2 THEN data % 4 ELSE rom_bank_no \div 32
      /\ rom_bank_no' = 32 * (rom_bank_no' \div 32) + (rom_bank_no' % 32)
  BY <1>0, Mbc1Write
<1>2. rom_bank_n' = (32 * (rom_bank_no' \div 32) + (rom_bank_no' % 32)) % rom.banks
  BY <1>1 DEF mbc1, BankOf
<1>3. /\ Bank1 = rom_bank_no % 32 /\ Bank1' = rom_bank_no' % 32
      /\ Bank2 = rom_bank_no \div 32 /\ Bank2' = rom_bank_no' \div 32
      /\ MappedBank' = rom_bank_n'
  BY <1>0 DEF mbc1, IsMbc1, Bank1, Bank2, MappedBank
<1>4. MappedBank' = M!Mapped(Bank1', Bank2')
  BY <1>2, <1>3 DEF M!Mapped
<1>5. /\ Bank1' = IF quarter = 1 THEN (IF data % 32 = 0 THEN 1 ELSE data % 32)
                                 ELSE Bank1
      /\ Bank2' = IF quarter = 2 THEN data % 4 ELSE Bank2
  BY ONLY <1>1, <1>3
<1>6. CASE quarter = 1
  BY <1>0, <1>4, <1>5, <1>6 DEF M!Next, M!SetBank1
<1>7. CASE quarter = 2
  BY <1>0, <1>4, <1>5, <1>7 DEF M!Next, M!SetBank2
<1>8. CASE quarter \notin {1, 2}
  BY <1>0, <1>4, <1>5, <1>8 DEF M!Next, M!OtherWrite
<1> QED
  BY <1>6, <1>7, <1>8

\* What leaves the numbers of an MBC1 alone leaves its registers alone.
LEMMA BanksUnchanged ==
  ASSUME rom' = rom, IsMbc1 => UNCHANGED banking
  PROVE  UNCHANGED M!bankregs
BY DEF IsMbc1, Bank1, Bank2, MappedBank, banking, M!bankregs

LEMMA PowersUp ==
  ASSUME rom' = rom, rom_bank_no' = 1, rom_bank_n' = 1
  PROVE  Bank1' = 1 /\ Bank2' = 0 /\ MappedBank' = 1
<1>1. 1 % 32 = 1 /\ 1 \div 32 = 0
  OBVIOUS
<1> QED
  BY <1>1 DEF Bank1, Bank2, MappedBank

(* For ROMs of every size mbc1(), with its one number, is a controller     *)
(* with two registers.                                                     *)
THEOREM Mbc1Correct == Spec => ActsAsMbc1
<1>1. Init => M!Init
  <2>1. 1 % 32 = 1 /\ 1 \div 32 = 0
    OBVIOUS
  <2> QED
    BY <2>1, CartridgeAssumption DEF Init, M!Init, Bank1, Bank2, MappedBank
<1>2. IInv /\ [Next]_cvars => [M!Next]_(M!bankregs)
  <2> SUFFICES ASSUME IInv, [Next]_cvars PROVE [M!Next]_(M!bankregs)
    OBVIOUS
  <2>1. CASE Load
    BY <2>1, PowersUp DEF Load, M!Next, M!PowerUp
  <2>2. CASE Refuse \/ Stop \/ Store \/ StoreBehind \/ UNCHANGED cvars
    <3>1. UNCHANGED <<rom, banking>>
      BY <2>2, Behind DEF Refuse, Stop, Store, cvars
    <3> QED
      BY <3>1, BanksUnchanged
  <2>3. CASE MbcWrite /\ IsMbc1
    <3>1. PICK quarter \in 0 .. 3, data \in Data : mbc1(quarter, data)
      BY <2>3 DEF MbcWrite, mbc3_ram, IsMbc1
    <3>2. rom' = rom
      BY <2>3 DEF MbcWrite
    <3> QED
      BY <3>1, <3>2, WriteIsMbc1 DEF IInv
  <2>4. CASE MbcWrite /\ ~IsMbc1
    BY <2>4, BanksUnchanged DEF MbcWrite
  <2> QED
    BY <2>1, <2>2, <2>3, <2>4 DEF Next
<1> QED
  BY <1>1, <1>2, Invariance, PTL DEF Spec, ActsAsMbc1, M!Spec
=============================================================================
