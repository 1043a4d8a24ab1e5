---------------------------- MODULE MemoryProofs ----------------------------
(***************************************************************************)
(* Proofs about Memory for every set of addresses and bytes, in particular *)
(* for all of the 65536 addresses but P1, DIV and STAT: the map is that of *)
(* AddressSpace, the stack keeps what is pushed, CALL goes where its       *)
(* operand points.                                                         *)
(***************************************************************************)
EXTENDS Memory, TLAPS

Banks == RamBanks \cup {NULL}

LEMMA AddressRange ==
  /\ \A a \in Addresses : a \in Nat /\ a < 65536
  /\ \A a \in Writable : a \in Addresses /\ a >= \h8000
BY MemoryAssumption DEF Writable, IsRom, IsAddress

\* The region and the offset of an address, one range at a time.
LEMMA CellCases ==
  ASSUME NEW a \in Nat, a >= \h8000, a < 65536, NEW bank
  PROVE  /\ a < \hA000                => CellAt(a, bank) = <<"vram", 0, a - \h8000>>
         /\ a >= \hA000 /\ a < \hC000 => CellAt(a, bank) = <<"external", bank, a - \hA000>>
         /\ a >= \hC000 /\ a < \hD000 => CellAt(a, bank) = <<"wram_0", 0, a - \hC000>>
         /\ a >= \hD000 /\ a < \hE000 => CellAt(a, bank) = <<"wram_1", 0, a - \hD000>>
         /\ a >= \hE000 /\ a < \hF000 => CellAt(a, bank) = <<"wram_0", 0, a - \hE000>>
         /\ a >= \hF000 /\ a < \hFE00 => CellAt(a, bank) = <<"wram_1", 0, a - \hF000>>
         /\ a >= \hFE00 /\ a < \hFEA0 => CellAt(a, bank) = <<"oam", 0, a - \hFE00>>
         /\ a >= \hFEA0 /\ a < \hFF00 => CellAt(a, bank) = <<"unusable", 0, a - \hFEA0>>
         /\ a >= \hFF00 /\ a < \hFF80 => CellAt(a, bank) = <<"io", 0, a - \hFF00>>
         /\ a >= \hFF80 /\ a < \hFFFF => CellAt(a, bank) = <<"hram", 0, a - \hFF80>>
         /\ a = \hFFFF                => CellAt(a, bank) = <<"ie_reg", 0, 0>>
BY DEF CellAt

\* Only the external RAM depends on the bank.
LEMMA BankMatters ==
  ASSUME NEW a \in Nat, a >= \h8000, a < 65536, NEW bank, NEW other, ~IsExternal(a)
  PROVE  CellAt(a, bank) = CellAt(a, other)
BY CellCases DEF IsExternal

\* Two addresses lead to one cell iff one of them is the echo of the other.
LEMMA OneCell ==
  ASSUME NEW a \in Nat, a >= \h8000, a < 65536, NEW b \in Nat, b >= \h8000, b < 65536, NEW bank
  PROVE  CellAt(a, bank) = CellAt(b, bank) <=> A!Home(a) = A!Home(b)
BY CellCases DEF A!Home

LEMMA CellsOfAddresses ==
  ASSUME NEW a \in Writable, NEW bank \in Banks, ~(IsExternal(a) /\ bank = NULL)
  PROVE  CellAt(a, bank) \in Cells
<1>1. a \in Nat /\ a >= \h8000 /\ a < 65536
  BY AddressRange
<1>2. CASE bank \in RamBanks
  BY <1>2 DEF Cells
<1>3. CASE bank = NULL
  <2>1. PICK other \in RamBanks : TRUE
    BY MemoryAssumption
  <2> QED
    BY <1>1, <1>3, <2>1, BankMatters DEF Cells
<1> QED
  BY <1>2, <1>3 DEF Banks
-----------------------------------------------------------------------------
(* Reading *)

ReadNow(m, b) == ReadThrough(m, rom_bank_n, external_ram_bank, b)

LEMMA ReadIsByte ==
  ASSUME NEW m \in [Cells -> Byte], NEW rom \in RomBanks, NEW bank \in Banks,
         NEW a \in Addresses
  PROVE  ReadThrough(m, rom, bank, a) \in Byte
<1>1. a \in Nat /\ a < 65536
  BY AddressRange
<1>2. CASE a < \h4000
  <2>1. a % \h4000 = a /\ IsRom(a)
    BY <1>1, <1>2 DEF IsRom
  <2>2. Image[0][a] \in Byte
    BY <2>1, ContentsAssumption
  <2> QED
    BY <1>1, <1>2, <2>2 DEF ReadThrough, IsRom, IsExternal
<1>3. CASE a >= \h4000 /\ IsRom(a)
  <2>1. a % \h4000 = a - \h4000
    BY <1>1, <1>3 DEF IsRom
  <2>2. Image[rom][a - \h4000] \in Byte
    BY <1>3, <2>1, ContentsAssumption
  <2>3. ReadThrough(m, rom, bank, a) = Image[rom][a - \h4000]
    BY <1>1, <1>3 DEF ReadThrough, IsRom, IsExternal
  <2> QED
    BY <2>2, <2>3
<1>4. CASE IsExternal(a) /\ bank = NULL
  BY <1>1, <1>4, MemoryAssumption DEF ReadThrough, IsRom, IsExternal
<1>5. CASE ~IsRom(a) /\ ~(IsExternal(a) /\ bank = NULL)
  <2>1. a \in Writable
    BY <1>5 DEF Writable
  <2>2. CellAt(a, bank) \in Cells
    BY <1>5, <2>1, CellsOfAddresses
  <2>3. ReadThrough(m, rom, bank, a) = m[CellAt(a, bank)]
    BY <1>1, <1>5 DEF ReadThrough, IsRom
  <2> QED
    BY <2>2, <2>3
<1> QED
  BY <1>1, <1>2, <1>3, <1>4, <1>5 DEF IsRom

\* What is not mapped or not ROM is in a cell.
LEMMA ReadOfCell ==
  ASSUME NEW m, NEW rom, NEW bank, NEW a \in Writable, ~(IsExternal(a) /\ bank = NULL)
  PROVE  ReadThrough(m, rom, bank, a) = m[CellAt(a, bank)]
BY AddressRange DEF ReadThrough, IsRom

\* Echo RAM reads like the work RAM below it.
LEMMA ReadEcho ==
  ASSUME NEW m, NEW rom, NEW bank, NEW a \in Addresses
  PROVE  ReadThrough(m, rom, bank, A!Home(a)) = ReadThrough(m, rom, bank, a)
<1>1. a \in Nat /\ a < 65536
  BY AddressRange
<1>2. CASE A!Home(a) = a
  BY <1>2
<1>3. CASE A!Home(a) # a
  <2>1. /\ a >= \hE000 /\ a < \hFE00
        /\ A!Home(a) \in Nat /\ A!Home(a) >= \hC000 /\ A!Home(a) < \hDE00
        /\ A!Home(A!Home(a)) = A!Home(a)
    BY <1>1, <1>3 DEF A!Home
  <2>2. CellAt(A!Home(a), bank) = CellAt(a, bank)
    BY <1>1, <2>1, OneCell
  <2> QED
    BY <1>1, <2>1, <2>2 DEF ReadThrough, IsRom, IsExternal
<1> QED
  BY <1>2, <1>3
-----------------------------------------------------------------------------
(* Storing *)

LEMMA IgnoresIsNotKept ==
  ASSUME NEW a \in Writable
  PROVE  Ignores(a) <=> ~A!Keeps(a)
BY DEF Ignores, Writable, IsRom, IsExternal, A!Keeps, A!Rom, A!NotKept, A!ExternalRam

\* A byte put in the cell of an address shows under the names of that address.
LEMMA PutReads ==
  ASSUME NEW m \in [Cells -> Byte], external_ram_bank \in Banks,
         NEW a \in Writable, NEW d \in Byte, NEW b \in Addresses,
         ~(IsExternal(a) /\ external_ram_bank = NULL)
  PROVE  /\ Put(m, a, d) \in [Cells -> Byte]
         /\ A!Home(a) = A!Home(b) => ReadNow(Put(m, a, d), b) = d
         /\ A!Home(a) # A!Home(b) => ReadNow(Put(m, a, d), b) = ReadNow(m, b)
<1> DEFINE c == CellAt(a, external_ram_bank)
           n == Put(m, a, d)
<1>1. a \in Nat /\ a >= \h8000 /\ a < 65536 /\ b \in Nat /\ b < 65536
  BY AddressRange
<1>2. c \in Cells
  BY CellsOfAddresses
<1>3. n \in [Cells -> Byte] /\ n = [m EXCEPT ![c] = d]
  BY <1>2 DEF Put
<1> HIDE DEF n
<1>4. CASE IsRom(b) \/ (IsExternal(b) /\ external_ram_bank = NULL)
  <2>1. ReadNow(n, b) = ReadNow(m, b)
    BY <1>1, <1>4 DEF ReadNow, ReadThrough, IsRom, IsExternal
  <2>2. A!Home(a) # A!Home(b)
    BY <1>1, <1>4 DEF A!Home, IsRom, IsExternal
  <2> QED
    BY <1>3, <2>1, <2>2 DEF n
<1>5. CASE ~IsRom(b) /\ ~(IsExternal(b) /\ external_ram_bank = NULL)
  <2>1. b \in Writable /\ b >= \h8000
    BY <1>1, <1>5 DEF Writable, IsRom
  <2>2. \A f : ReadNow(f, b) = f[CellAt(b, external_ram_bank)]
    BY <1>5, <2>1, ReadOfCell DEF ReadNow
  <2>3. CellAt(b, external_ram_bank) \in Cells
    BY <1>5, <2>1, CellsOfAddresses
  <2>4. c = CellAt(b, external_ram_bank) <=> A!Home(a) = A!Home(b)
    BY <1>1, <2>1, OneCell
  <2> QED
    BY <1>2, <1>3, <2>2, <2>3, <2>4 DEF n
<1> QED
  BY <1>3, <1>4, <1>5 DEF n

LEMMA WriteByteReads ==
  ASSUME NEW m \in [Cells -> Byte], external_ram_bank \in Banks,
         NEW a \in Writable, NEW d \in Byte
  PROVE  /\ write_byte(m, a, d) \in [Cells -> Byte]
         /\ \A b \in Addresses :
              /\ ~Ignores(a) /\ A!Home(a) = A!Home(b)
                   => ReadNow(write_byte(m, a, d), b) = d
              /\ Ignores(a) \/ A!Home(a) # A!Home(b)
                   => ReadNow(write_byte(m, a, d), b) = ReadNow(m, b)
<1>1. CASE Ignores(a)
  BY <1>1 DEF write_byte
<1>2. CASE ~Ignores(a)
  <2>1. ~(IsExternal(a) /\ external_ram_bank = NULL)
    BY <1>2 DEF Ignores
  <2>2. write_byte(m, a, d) = Put(m, a, d)
    BY <1>2 DEF write_byte
  <2>3. PICK b \in Addresses : TRUE
    BY AddressRange
  <2>4. write_byte(m, a, d) \in [Cells -> Byte]
    BY <2>1, <2>2, <2>3, PutReads
  <2>5. ASSUME NEW x \in Addresses
        PROVE  /\ A!Home(a) = A!Home(x) => ReadNow(write_byte(m, a, d), x) = d
               /\ A!Home(a) # A!Home(x)
                    => ReadNow(write_byte(m, a, d), x) = ReadNow(m, x)
    BY <2>1, <2>2, PutReads
  <2> QED
    BY <1>2, <2>4, <2>5
<1> QED
  BY <1>1, <1>2
-----------------------------------------------------------------------------
(* The stack *)

LEMMA StackCells ==
  ASSUME NEW s \in Stacks
  PROVE  /\ s \in Writable /\ s + 1 \in Writable
         /\ s \in Nat /\ s >= \h8000 /\ s + 1 < 65536 /\ (s + 1) % 65536 = s + 1
         /\ A!Home(s) # A!Home(s + 1)
         /\ s \notin A!Volatile /\ s + 1 \notin A!Volatile
<1>1. /\ s \in Writable /\ s + 1 \in Writable
      /\ s \notin A!Volatile /\ s + 1 \notin A!Volatile
  BY ClosedAssumption
<1>2. s \in Nat /\ s >= \h8000 /\ s + 1 < 65536
  BY <1>1, AddressRange
<1>3. (s + 1) % 65536 = s + 1
  BY <1>2
<1>4. A!Home(s) # A!Home(s + 1)
  BY <1>2 DEF A!Home
<1> QED
  BY <1>1, <1>2, <1>3, <1>4

LEMMA WordParts ==
  ASSUME NEW w \in Nat, w < 65536
  PROVE  Word(Low(w), High(w)) = w
BY DEF Word, Low, High

\* A word goes to the two bytes it is written to and nowhere else, its low
\* byte first in memory.
LEMMA WriteWordReads ==
  ASSUME NEW m \in [Cells -> Byte], external_ram_bank \in Banks,
         NEW s \in Stacks, NEW w, Representable(w)
  PROVE  /\ write_word(m, s, w) \in [Cells -> Byte]
         /\ ~Ignores(s) => ReadNow(write_word(m, s, w), s) = Low(w)
         /\ ~Ignores(s + 1) => ReadNow(write_word(m, s, w), s + 1) = High(w)
         /\ \A b \in Addresses :
              ~(~Ignores(s) /\ A!Home(s) = A!Home(b)) /\ ~(~Ignores(s + 1) /\ A!Home(s + 1) = A!Home(b))
                => ReadNow(write_word(m, s, w), b) = ReadNow(m, b)
<1> DEFINE n == write_byte(m, s, Low(w))
<1>1. Low(w) \in Byte /\ High(w) \in Byte
  BY DEF Representable
<1>2. s \in Writable /\ s + 1 \in Writable /\ s \in Addresses /\ s + 1 \in Addresses
  BY StackCells, AddressRange
<1>3. write_word(m, s, w) = write_byte(n, s + 1, High(w))
  BY StackCells DEF write_word
<1>4. /\ n \in [Cells -> Byte]
      /\ ~Ignores(s) => ReadNow(n, s) = Low(w)
      /\ \A b \in Addresses : Ignores(s) \/ A!Home(s) # A!Home(b) => ReadNow(n, b) = ReadNow(m, b)
  BY <1>1, <1>2, WriteByteReads
<1> HIDE DEF n
<1>5. /\ write_byte(n, s + 1, High(w)) \in [Cells -> Byte]
      /\ ~Ignores(s + 1) => ReadNow(write_byte(n, s + 1, High(w)), s + 1) = High(w)
      /\ \A b \in Addresses : Ignores(s + 1) \/ A!Home(s + 1) # A!Home(b)
           => ReadNow(write_byte(n, s + 1, High(w)), b) = ReadNow(n, b)
  BY <1>1, <1>2, <1>4, WriteByteReads
<1>6. A!Home(s) # A!Home(s + 1)
  BY StackCells
<1> QED
  BY <1>2, <1>3, <1>4, <1>5, <1>6
-----------------------------------------------------------------------------
(* Transfers *)

LEMMA DmaReads ==
  ASSUME NEW page \in Pages, DmaSource(page) # NoSource,
         external_ram_bank \in Banks, NEW a \in Addresses, A!Oam(a)
  PROVE  /\ page <= \hF1
         /\ page * 256 + (a - \hFE00) \in Addresses
         /\ At(DmaSource(page), a - \hFE00) = read_byte(page * 256 + (a - \hFE00))
<1> DEFINE i == a - \hFE00
           b == page * 256 + i
<1>1. page \in Nat /\ page < 256 /\ i \in Nat /\ i < 160
  BY MemoryAssumption, AddressRange DEF IsByte, A!Oam
<1>2. page <= \hF1
  BY <1>1 DEF DmaSource
<1>3. b \in Addresses
  BY <1>2, ClosedAssumption
<1>4. b \in Nat /\ b < 65536
  BY <1>3, AddressRange
<1> DEFINE src == DmaSource(page)
<1>5. ASSUME page < 64
      PROVE  At(src, i) = read_byte(b)
  <2>1. src = <<"rom", 0, page * 256>> /\ b < \h4000
    BY <1>1, <1>5 DEF DmaSource
  <2>2. read_byte(b) = Image[0][b]
    BY <1>4, <2>1 DEF read_byte, ReadThrough, IsRom, IsExternal
  <2>3. At(src, i) = Image[0][b]
    BY <2>1 DEF At
  <2> QED
    BY <2>2, <2>3
<1>6. ASSUME page >= 64, page < 128
      PROVE  At(src, i) = read_byte(b)
  <2>1. src = <<"rom", rom_bank_n, page * 256 - \h4000>> /\ b >= \h4000 /\ b < \h8000
    BY <1>1, <1>6 DEF DmaSource
  <2>2. page * 256 - \h4000 + i = b - \h4000
    BY <1>1
  <2>3. read_byte(b) = Image[rom_bank_n][b - \h4000]
    BY <1>4, <2>1 DEF read_byte, ReadThrough, IsRom, IsExternal
  <2>4. At(src, i) = Image[rom_bank_n][page * 256 - \h4000 + i]
    BY <2>1 DEF At
  <2> QED
    BY <2>2, <2>3, <2>4
<1>7. ASSUME page >= 128
      PROVE  At(src, i) = read_byte(b)
  <2>1. b >= \h8000 /\ b \in Writable
    BY <1>1, <1>3, <1>7 DEF Writable, IsRom
  <2>2. ~(IsExternal(b) /\ external_ram_bank = NULL)
    BY <1>1, <1>2, <1>7 DEF IsExternal, DmaSource, NoSource
  <2>3. /\ src[1] # "rom"
        /\ <<src[1], src[2], src[3] + i>> = CellAt(b, external_ram_bank)
    <3>1. CASE page < 160
      BY <1>1, <1>4, <1>7, <3>1, CellCases DEF DmaSource
    <3>2. CASE page >= 160 /\ page < 192
      BY <1>1, <1>4, <3>2, CellCases DEF DmaSource, NoSource
    <3>3. CASE page >= 192 /\ page < 208
      BY <1>1, <1>4, <3>3, CellCases DEF DmaSource
    <3>4. CASE page >= 208 /\ page < 224
      BY <1>1, <1>4, <3>4, CellCases DEF DmaSource
    <3>5. CASE page >= 224 /\ page < 240
      BY <1>1, <1>4, <3>5, CellCases DEF DmaSource
    <3>6. CASE page >= 240 /\ page <= \hF1
      BY <1>1, <1>4, <3>6, CellCases DEF DmaSource
    <3> QED
      BY <1>1, <1>2, <1>7, <3>1, <3>2, <3>3, <3>4, <3>5, <3>6
  <2>4. read_byte(b) = mem[CellAt(b, external_ram_bank)]
    BY <2>1, <2>2, ReadOfCell DEF read_byte
  <2>5. At(src, i) = mem[<<src[1], src[2], src[3] + i>>]
    BY <2>3 DEF At
  <2> QED
    BY <2>3, <2>4, <2>5
<1>8. At(src, i) = read_byte(b)
  BY <1>1, <1>5, <1>6, <1>7
<1> QED
  BY <1>2, <1>3, <1>8

\* Nothing is copied from an address beyond 0xF1FF or from RAM that is not mapped.
LEMMA DmaSourceExists ==
  ASSUME NEW page \in Pages
  PROVE  DmaSource(page) # NoSource
           <=> page <= \hF1 /\ (A!ExternalRam(page * 256) => external_ram_bank # NULL)
<1>1. page \in Nat /\ page < 256
  BY MemoryAssumption DEF IsByte
<1> QED
  BY <1>1 DEF DmaSource, NoSource, A!ExternalRam

LEMMA OamCells ==
  ASSUME NEW a \in Writable, NEW bank
  PROVE  /\ A!Oam(a) => CellAt(a, bank) = <<"oam", 0, a - \hFE00>> /\ a - \hFE00 < 160
         /\ ~A!Oam(a) => CellAt(a, bank)[1] # "oam"
BY AddressRange, CellCases DEF A!Oam

LEMMA CopiedReads ==
  ASSUME mem \in [Cells -> Byte], rom_bank_n \in RomBanks, external_ram_bank \in Banks,
         NEW page \in Pages, DmaSource(page) # NoSource
  PROVE  /\ Copied(DmaSource(page)) \in [Cells -> Byte]
         /\ \A b \in Addresses :
              /\ A!Oam(b) => /\ page * 256 + (b - \hFE00) \in Addresses
                             /\ ReadNow(Copied(DmaSource(page)), b)
                                  = read_byte(page * 256 + (b - \hFE00))
              /\ ~A!Oam(b) => ReadNow(Copied(DmaSource(page)), b) = read_byte(b)
<1> DEFINE src == DmaSource(page)
           n   == Copied(src)
<1>1. \A c \in Cells : n[c] = IF c[1] = "oam" /\ c[3] < 160 THEN At(src, c[3]) ELSE mem[c]
  BY DEF Copied
<1>2. \A b \in Addresses : A!Oam(b) =>
        /\ page * 256 + (b - \hFE00) \in Addresses
        /\ At(src, b - \hFE00) = read_byte(page * 256 + (b - \hFE00))
  BY DmaReads
<1>3. ASSUME NEW c \in Cells  PROVE  n[c] \in Byte
  <2>1. PICK a \in Writable, bank \in RamBanks : c = CellAt(a, bank)
    BY DEF Cells
  <2>2. a \in Addresses
    BY AddressRange
  <2>3. CASE A!Oam(a)
    <3>1. n[c] = At(src, a - \hFE00)
      BY <1>1, <2>1, <2>3, OamCells
    <3> QED
      BY <1>2, <2>2, <2>3, <3>1, ReadIsByte DEF read_byte
  <2>4. CASE ~A!Oam(a)
    BY <1>1, <2>1, <2>4, OamCells
  <2> QED
    BY <2>3, <2>4
<1>4. n \in [Cells -> Byte]
  BY <1>3 DEF Copied
<1>5. ASSUME NEW b \in Addresses
      PROVE  ReadNow(n, b) = IF A!Oam(b) THEN At(src, b - \hFE00) ELSE read_byte(b)
  <2>1. b \in Nat /\ b < 65536
    BY AddressRange
  <2>2. CASE IsRom(b) \/ (IsExternal(b) /\ external_ram_bank = NULL)
    BY <2>1, <2>2 DEF ReadNow, ReadThrough, read_byte, IsRom, IsExternal, A!Oam
  <2>3. CASE ~IsRom(b) /\ ~(IsExternal(b) /\ external_ram_bank = NULL)
    <3>1. b \in Writable
      BY <2>3 DEF Writable
    <3>2. \A f : ReadNow(f, b) = f[CellAt(b, external_ram_bank)]
      BY <2>3, <3>1, ReadOfCell DEF ReadNow
    <3>3. read_byte(b) = mem[CellAt(b, external_ram_bank)]
      BY <2>3, <3>1, ReadOfCell DEF read_byte
    <3>4. CellAt(b, external_ram_bank) \in Cells
      BY <2>3, <3>1, CellsOfAddresses
    <3> HIDE DEF n, src
    <3> QED
      BY <1>1, <3>1, <3>2, <3>3, <3>4, OamCells
  <2> QED
    BY <2>2, <2>3
<1> QED
  BY <1>2, <1>4, <1>5
-----------------------------------------------------------------------------
(* The invariant *)

MInv == TypeOK /\ WordsStay

LEMMA InvInit == Init => MInv
<1> SUFFICES ASSUME Init PROVE MInv
  OBVIOUS
<1>1. ASSUME NEW c \in Cells  PROVE  Fresh(c) \in Byte
  <2>1. PICK a \in Writable, bank \in RamBanks : c = CellAt(a, bank)
    BY DEF Cells
  <2>2. a \in Nat /\ a >= \h8000 /\ a < 65536 /\ a \in Addresses
    BY AddressRange
  <2>3. CASE c[1] = "external"
    <3>1. IsExternal(a) /\ c = <<"external", bank, a - \hA000>>
      BY <2>1, <2>2, <2>3, CellCases DEF IsExternal
    <3> QED
      BY <2>2, <2>3, <3>1, ContentsAssumption DEF Fresh
  <2>4. CASE c[1] = "io" /\ c[3] + \hFF00 \in OwnField
    BY <2>4, ContentsAssumption DEF Fresh
  <2>5. CASE c[1] # "external" /\ ~(c[1] = "io" /\ c[3] + \hFF00 \in OwnField)
    BY <2>5, MemoryAssumption DEF Fresh
  <2> QED
    BY <2>3, <2>4, <2>5
<1>2. mem \in [Cells -> Byte]
  BY <1>1 DEF Init
<1>3. IsAddress(pc)
  BY ClosedAssumption DEF Init
<1> QED
  BY <1>2, <1>3 DEF Init, MInv, TypeOK, WordsStay, Tops

LEMMA ReadWordOfStack ==
  ASSUME NEW s \in Stacks
  PROVE  /\ read_word(s) = Word(read_byte(s), read_byte(s + 1))
         /\ read_word(s)' = Word(read_byte(s)', read_byte(s + 1)')
BY StackCells DEF read_word, WordThrough, read_byte

\* What a step does not touch it leaves where it can be popped.
LEMMA UntouchedStays ==
  ASSUME MInv, NEW w \in words,
         read_byte(w.at)' = read_byte(w.at), read_byte(w.at + 1)' = read_byte(w.at + 1)
  PROVE  read_word(w.at)' = w.is /\ w.at \in Stacks /\ Representable(w.is)
<1>1. w.at \in Stacks /\ read_word(w.at) = w.is /\ Representable(w.is)
  BY DEF MInv, TypeOK, WordsStay
<1> QED
  BY <1>1, ReadWordOfStack

LEMMA PushKeeps ==
  ASSUME MInv, NEW w, Representable(w), push(w), UNCHANGED banks
  PROVE  /\ mem' \in [Cells -> Byte] /\ sp' \in Tops
         /\ \A x \in words' : x.at \in Stacks /\ Representable(x.is) /\ read_word(x.at)' = x.is
<1>1. PICK s \in Stacks :
      /\ sp' = s /\ mem' = write_word(mem, s, w)
      /\ words' = Untouched({s, s + 1}) \cup
              (IF Ignores(s) \/ Ignores(s + 1) THEN {} ELSE {[at |-> s, is |-> w]})
  BY DEF push
<1>2. mem \in [Cells -> Byte] /\ external_ram_bank \in Banks
  BY DEF MInv, TypeOK, Banks
<1>3. \A b : read_byte(b)' = ReadNow(mem', b) /\ read_byte(b) = ReadNow(mem, b)
  BY DEF read_byte, ReadNow, banks
<1>4. /\ mem' \in [Cells -> Byte]
      /\ ~Ignores(s) => ReadNow(mem', s) = Low(w)
      /\ ~Ignores(s + 1) => ReadNow(mem', s + 1) = High(w)
      /\ \A b \in Addresses :
           A!Home(s) # A!Home(b) /\ A!Home(s + 1) # A!Home(b) => ReadNow(mem', b) = ReadNow(mem, b)
  BY <1>1, <1>2, WriteWordReads
<1>5. ASSUME NEW x \in Untouched({s, s + 1})
      PROVE  x.at \in Stacks /\ Representable(x.is) /\ read_word(x.at)' = x.is
  <2>1. x \in words /\ x.at \in Stacks
    BY DEF MInv, TypeOK, Untouched
  <2>2. x.at \in Addresses /\ x.at + 1 \in Addresses
    BY <2>1, StackCells, AddressRange
  <2>3. /\ A!Home(s) # A!Home(x.at) /\ A!Home(s) # A!Home(x.at + 1)
        /\ A!Home(s + 1) # A!Home(x.at) /\ A!Home(s + 1) # A!Home(x.at + 1)
    BY DEF Untouched, Place
  <2> QED
    BY <1>3, <1>4, <2>1, <2>2, <2>3, UntouchedStays
<1>6. ASSUME ~Ignores(s), ~Ignores(s + 1)
      PROVE  read_word(s)' = w
  <2>1. read_word(s)' = Word(Low(w), High(w))
    BY <1>1, <1>3, <1>4, <1>6, ReadWordOfStack
  <2> QED
    BY <2>1, WordParts DEF Representable, IsAddress
<1>7. sp' \in Tops
  BY <1>1 DEF Tops
<1>8. ASSUME NEW x \in words'
      PROVE  x.at \in Stacks /\ Representable(x.is) /\ read_word(x.at)' = x.is
  <2>1. CASE x \in Untouched({s, s + 1})
    BY <1>5, <2>1
  <2>2. CASE x = [at |-> s, is |-> w] /\ ~Ignores(s) /\ ~Ignores(s + 1)
    <3>1. x.at = s /\ x.is = w
      BY <2>2
    <3> QED
      BY <1>6, <2>2, <3>1
  <2>3. x \in Untouched({s, s + 1}) \/ (x = [at |-> s, is |-> w] /\ ~Ignores(s) /\ ~Ignores(s + 1))
    BY <1>1
  <2> QED
    BY <2>1, <2>2, <2>3
<1> QED
  BY <1>4, <1>7, <1>8

\* A single byte that is put in a cell leaves the words it does not hit.
LEMMA StoreKeeps ==
  ASSUME MInv, Store
  PROVE  /\ mem' \in [Cells -> Byte]
         /\ \A x \in words' : x.at \in Stacks /\ Representable(x.is) /\ read_word(x.at)' = x.is
<1>1. PICK s \in Stores : /\ mem' = write_byte(mem, s[1], s[2])
                          /\ words' = Untouched({s[1]})
  BY DEF Store
<1>2. s[1] \in Writable /\ s[2] \in Byte
  BY MemoryAssumption
<1>3. mem \in [Cells -> Byte] /\ external_ram_bank \in Banks
  BY DEF MInv, TypeOK, Banks
<1>4. \A b : read_byte(b)' = ReadNow(mem', b) /\ read_byte(b) = ReadNow(mem, b)
  BY DEF Store, read_byte, ReadNow, banks
<1>5. /\ mem' \in [Cells -> Byte]
      /\ \A b \in Addresses : A!Home(s[1]) # A!Home(b) => ReadNow(mem', b) = ReadNow(mem, b)
  BY <1>1, <1>2, <1>3, WriteByteReads
<1>6. ASSUME NEW x \in words'
      PROVE  x.at \in Stacks /\ Representable(x.is) /\ read_word(x.at)' = x.is
  <2>1. x \in words /\ x.at \in Stacks
    BY <1>1 DEF MInv, TypeOK, Untouched
  <2>2. x.at \in Addresses /\ x.at + 1 \in Addresses
    BY <2>1, StackCells, AddressRange
  <2>3. A!Home(s[1]) # A!Home(x.at) /\ A!Home(s[1]) # A!Home(x.at + 1)
    BY <1>1 DEF Untouched, Place
  <2> QED
    BY <1>4, <1>5, <2>1, <2>2, <2>3, UntouchedStays
<1> QED
  BY <1>5, <1>6

LEMMA RegistersKeep ==
  ASSUME MInv, Registers
  PROVE  /\ mem' \in [Cells -> Byte]
         /\ \A x \in words' : x.at \in Stacks /\ Representable(x.is) /\ read_word(x.at)' = x.is
<1>1. PICK a \in Writable \cap A!Volatile, d \in Counts : mem' = Put(mem, a, d)
  BY DEF Registers
<1>2. /\ d \in Byte /\ a \in Nat /\ ~(IsExternal(a) /\ external_ram_bank = NULL)
      /\ A!Home(a) = a /\ a >= \hFF00
  BY MemoryAssumption, AddressRange DEF A!Volatile, IsExternal, A!Home
<1>3. mem \in [Cells -> Byte] /\ external_ram_bank \in Banks
  BY DEF MInv, TypeOK, Banks
<1>4. \A b : read_byte(b)' = ReadNow(mem', b) /\ read_byte(b) = ReadNow(mem, b)
  BY DEF Registers, read_byte, ReadNow, banks
<1>5. \A b \in Addresses : A!Home(a) # A!Home(b) => ReadNow(mem', b) = ReadNow(mem, b)
  BY <1>1, <1>2, <1>3, PutReads
<1>6. PICK b \in Addresses : TRUE
  BY <1>1, AddressRange
<1>7. mem' \in [Cells -> Byte]
  BY <1>1, <1>2, <1>3, <1>6, PutReads
<1>8. ASSUME NEW x \in words'
      PROVE  x.at \in Stacks /\ Representable(x.is) /\ read_word(x.at)' = x.is
  <2>1. x \in words /\ x.at \in Stacks
    BY DEF Registers, MInv, TypeOK
  <2>2. /\ x.at \in Addresses /\ x.at + 1 \in Addresses
        /\ x.at # a /\ x.at + 1 # a
    BY <2>1, StackCells, AddressRange
  <2>3. A!Home(a) # A!Home(x.at) /\ A!Home(a) # A!Home(x.at + 1)
    BY <1>2, <2>2, AddressRange DEF A!Home
  <2> QED
    BY <1>4, <1>5, <2>1, <2>2, <2>3, UntouchedStays
<1> QED
  BY <1>7, <1>8

LEMMA DmaKeeps ==
  ASSUME MInv, Dma
  PROVE  /\ mem' \in [Cells -> Byte]
         /\ \A x \in words' : x.at \in Stacks /\ Representable(x.is) /\ read_word(x.at)' = x.is
<1>1. PICK page \in Pages :
        IF DmaSource(page) = NoSource
          THEN UNCHANGED <<mem, words>>
          ELSE mem' = Copied(DmaSource(page)) /\ words' = Outside(A!Oam)
  BY DEF Dma
<1>2. /\ mem \in [Cells -> Byte] /\ external_ram_bank \in Banks /\ rom_bank_n \in RomBanks
      /\ \A x \in words : x.at \in Stacks /\ Representable(x.is)
  BY DEF MInv, TypeOK, Banks
<1>3. \A b : read_byte(b)' = ReadNow(mem', b) /\ read_byte(b) = ReadNow(mem, b)
  BY DEF Dma, read_byte, ReadNow, banks
<1>4. CASE DmaSource(page) = NoSource
  <2>1. ASSUME NEW x \in words  PROVE  read_word(x.at)' = x.is
    BY <1>1, <1>3, <1>4, UntouchedStays
  <2> QED
    BY <1>1, <1>2, <1>4, <2>1
<1>5. CASE DmaSource(page) # NoSource
  <2>1. /\ mem' \in [Cells -> Byte]
        /\ \A b \in Addresses : ~A!Oam(b) => ReadNow(mem', b) = read_byte(b)
    BY <1>1, <1>2, <1>5, CopiedReads
  <2>2. ASSUME NEW x \in words'
        PROVE  x.at \in Stacks /\ Representable(x.is) /\ read_word(x.at)' = x.is
    <3>1. x \in words /\ ~A!Oam(x.at) /\ ~A!Oam(x.at + 1)
      BY <1>1, <1>5 DEF Outside
    <3>2. x.at \in Addresses /\ x.at + 1 \in Addresses
      BY <1>2, <3>1, StackCells, AddressRange
    <3> QED
      BY <1>3, <2>1, <3>1, <3>2, UntouchedStays
  <2> QED
    BY <2>1, <2>2
<1> QED
  BY <1>4, <1>5

LEMMA SwitchKeeps ==
  ASSUME MInv, mbc_write
  PROVE  \A x \in words' : x.at \in Stacks /\ Representable(x.is) /\ read_word(x.at)' = x.is
<1> SUFFICES ASSUME NEW x \in words'
             PROVE  x.at \in Stacks /\ Representable(x.is) /\ read_word(x.at)' = x.is
  OBVIOUS
<1>1. x \in words /\ ~IsExternal(x.at) /\ ~IsExternal(x.at + 1) /\ x.at \in Stacks
  BY DEF mbc_write, Outside, A!ExternalRam, IsExternal, MInv, TypeOK
<1>2. ASSUME NEW b \in Writable, ~IsExternal(b)
      PROVE  read_byte(b)' = read_byte(b)
  <2>1. b \in Nat /\ b >= \h8000 /\ b < 65536 /\ ~IsRom(b)
    BY AddressRange DEF IsRom
  <2>2. CellAt(b, external_ram_bank') = CellAt(b, external_ram_bank)
    BY <1>2, <2>1, BankMatters
  <2>3. /\ read_byte(b) = mem[CellAt(b, external_ram_bank)]
        /\ read_byte(b)' = mem'[CellAt(b, external_ram_bank')]
    BY <1>2, <2>1 DEF read_byte, ReadThrough, IsRom
  <2> QED
    BY <2>2, <2>3 DEF mbc_write
<1> QED
  BY <1>1, <1>2, StackCells, UntouchedStays

LEMMA BytesMakeAddress ==
  ASSUME NEW l \in Byte, NEW h \in Byte
  PROVE  IsAddress(Word(l, h))
<1>1. l \in Nat /\ l < 256 /\ h \in Nat /\ h < 256
  BY MemoryAssumption DEF IsByte
<1> QED
  BY <1>1 DEF IsAddress, Word

LEMMA WordIsAddress ==
  ASSUME NEW m \in [Cells -> Byte], NEW rom \in RomBanks, NEW bank \in Banks,
         NEW a \in Addresses, a + 1 \in Addresses
  PROVE  IsAddress(WordThrough(m, rom, bank, a))
<1>1. (a + 1) % 65536 = a + 1
  BY AddressRange
<1>2. /\ ReadThrough(m, rom, bank, a) \in Byte
      /\ ReadThrough(m, rom, bank, a + 1) \in Byte
  BY ReadIsByte
<1> QED
  BY <1>1, <1>2, BytesMakeAddress DEF WordThrough

LEMMA InvStep == MInv /\ [Next]_mvars => MInv'
<1> SUFFICES ASSUME MInv, [Next]_mvars PROVE MInv'
  OBVIOUS
<1>1. /\ mem \in [Cells -> Byte] /\ rom_bank_n \in RomBanks /\ external_ram_bank \in Banks
      /\ sp \in Tops /\ IsAddress(pc)
      /\ \A x \in words : x.at \in Stacks /\ Representable(x.is) /\ read_word(x.at) = x.is
  BY DEF MInv, TypeOK, WordsStay, Banks
<1> DEFINE Kept ==
      \A x \in words' : x.at \in Stacks /\ Representable(x.is) /\ read_word(x.at)' = x.is
<1>2. ASSUME mem' \in [Cells -> Byte], rom_bank_n' \in RomBanks, external_ram_bank' \in Banks,
             sp' \in Tops, IsAddress(pc)', Kept
      PROVE  MInv'
  BY <1>2 DEF MInv, TypeOK, WordsStay, Banks
<1>3. ASSUME UNCHANGED <<mem, banks, words>>  PROVE  Kept
  <2>1. \A x \in words : read_word(x.at)' = read_word(x.at)
    BY <1>3 DEF read_word, banks
  <2> QED
    BY <1>1, <1>3, <2>1
<1> HIDE DEF Kept
<1>4. CASE call_a16
  <2>1. pc \in Sites /\ push(pc + 3) /\ UNCHANGED banks
    BY <1>4 DEF call_a16
  <2>2. Representable(pc + 3) /\ pc + 1 \in Addresses /\ pc + 2 \in Addresses /\ pc \in Nat
    BY <2>1, ClosedAssumption DEF IsAddress
  <2>3. mem' \in [Cells -> Byte] /\ sp' \in Tops /\ Kept
    BY <2>1, <2>2, PushKeeps DEF Kept
  <2>4. (pc + 3) - 2 = pc + 1
    BY <2>2
  <2>5. pc' = WordThrough(mem', rom_bank_n, external_ram_bank, pc + 1)
    <3>1. pc' = WordThrough(mem', rom_bank_n, external_ram_bank, (pc + 3) - 2)
      BY <1>4 DEF call_a16
    <3> QED
      BY <2>4, <3>1
  <2>6. IsAddress(pc)'
    BY <1>1, <2>2, <2>3, <2>5, WordIsAddress DEF IsAddress
  <2> QED
    BY <1>1, <1>2, <2>1, <2>3, <2>6 DEF banks
<1>5. CASE rst_n
  <2>1. PICK next \in Words : push(next)
    BY <1>5 DEF rst_n
  <2>2. UNCHANGED banks /\ pc' \in Vectors
    BY <1>5 DEF rst_n
  <2>3. IsAddress(pc)'
    BY <2>2, MemoryAssumption DEF IsAddress
  <2>4. mem' \in [Cells -> Byte] /\ sp' \in Tops /\ Kept
    BY <2>1, <2>2, ClosedAssumption, PushKeeps DEF Kept
  <2> QED
    BY <1>1, <1>2, <2>2, <2>3, <2>4 DEF banks
<1>6. CASE PushPair
  <2>1. PICK w \in Words : push(w)
    BY <1>6 DEF PushPair
  <2>2. UNCHANGED <<pc, banks>>
    BY <1>6 DEF PushPair
  <2>3. mem' \in [Cells -> Byte] /\ sp' \in Tops /\ Kept
    BY <2>1, <2>2, ClosedAssumption, PushKeeps DEF Kept
  <2> QED
    BY <1>1, <1>2, <2>2, <2>3 DEF banks, IsAddress
<1>7. CASE ret
  <2>1. sp \in Stacks /\ sp' \in Tops /\ UNCHANGED <<mem, banks, words>>
    BY <1>7 DEF ret, pop, Tops
  <2>2. sp \in Addresses /\ sp + 1 \in Addresses
    BY <2>1, StackCells, AddressRange
  <2>3. pc' = WordThrough(mem, rom_bank_n, external_ram_bank, sp)
    BY <1>7 DEF ret, read_word
  <2>4. IsAddress(pc)'
    BY <1>1, <2>2, <2>3, WordIsAddress DEF IsAddress
  <2> QED
    BY <1>1, <1>2, <1>3, <2>1, <2>4 DEF banks
<1>8. CASE PopPair
  BY <1>1, <1>2, <1>3, <1>8 DEF PopPair, pop, Tops, banks, IsAddress
<1>9. CASE Elsewhere
  <2>1. IsAddress(pc)'
    BY <1>9, ClosedAssumption DEF Elsewhere, IsAddress
  <2> QED
    BY <1>1, <1>2, <1>3, <1>9, <2>1 DEF Elsewhere, banks
<1>10. CASE Store
  <2>1. mem' \in [Cells -> Byte] /\ Kept
    BY <1>10, StoreKeeps DEF Kept
  <2> QED
    BY <1>1, <1>2, <1>10, <2>1 DEF Store, banks, IsAddress
<1>11. CASE Dma
  <2>1. mem' \in [Cells -> Byte] /\ Kept
    BY <1>11, DmaKeeps DEF Kept
  <2> QED
    BY <1>1, <1>2, <1>11, <2>1 DEF Dma, banks, IsAddress
<1>12. CASE mbc_write
  <2>1. Kept
    BY <1>12, SwitchKeeps DEF Kept
  <2> QED
    BY <1>1, <1>2, <1>12, <2>1 DEF mbc_write, Banks, IsAddress
<1>13. CASE Registers
  <2>1. mem' \in [Cells -> Byte] /\ Kept
    BY <1>13, RegistersKeep DEF Kept
  <2> QED
    BY <1>1, <1>2, <1>13, <2>1 DEF Registers, banks, IsAddress
<1>14. CASE UNCHANGED mvars
  BY <1>1, <1>2, <1>3, <1>14 DEF mvars, banks, IsAddress
<1> QED
  BY <1>4, <1>5, <1>6, <1>7, <1>8, <1>9, <1>10, <1>11, <1>12, <1>13, <1>14 DEF Next

LEMMA Invariant == Spec => []MInv
BY InvInit, InvStep, PTL DEF Spec

\* For every memory map the state is one the program can be in.
THEOREM TypeCorrect == Spec => []TypeOK
<1>1. MInv => TypeOK
  BY DEF MInv
<1> QED
  BY <1>1, Invariant, PTL

\* A pushed word that nothing was stored over can be popped, wherever the
\* stack lies.
THEOREM StackKeepsWords == Spec => []WordsStay
<1>1. MInv => WordsStay
  BY DEF MInv
<1> QED
  BY <1>1, Invariant, PTL
-----------------------------------------------------------------------------
(* CALL *)

LEMMA CallReadsOperand ==
  ASSUME MInv, call_a16
  PROVE  LET pushed  == {A!Home(Below), A!Home(Below + 1)}
             operand == {A!Home(pc + 1), A!Home(pc + 2)}
         IN pc' = read_word(pc + 1) \/ pushed \cap operand # {}
<1> SUFFICES ASSUME {A!Home(Below), A!Home(Below + 1)} \cap {A!Home(pc + 1), A!Home(pc + 2)} = {}
             PROVE  pc' = read_word(pc + 1)
  OBVIOUS
<1>1. pc \in Sites /\ push(pc + 3) /\ UNCHANGED banks
  BY DEF call_a16
<1>2. /\ Representable(pc + 3) /\ pc \in Nat
      /\ pc + 1 \in Addresses /\ pc + 2 \in Addresses
  BY <1>1, ClosedAssumption DEF IsAddress
<1>3. PICK s \in Stacks : s = Below /\ mem' = write_word(mem, s, pc + 3)
  BY <1>1 DEF push
<1>4. mem \in [Cells -> Byte] /\ external_ram_bank \in Banks
  BY DEF MInv, TypeOK, Banks
<1>5. (pc + 3) - 2 = pc + 1 /\ pc + 1 + 1 = pc + 2 /\ (pc + 2) % 65536 = pc + 2
  BY <1>2, <1>3, <1>4, AddressRange
<1>6. /\ A!Home(s) # A!Home(pc + 1) /\ A!Home(s + 1) # A!Home(pc + 1)
      /\ A!Home(s) # A!Home(pc + 2) /\ A!Home(s + 1) # A!Home(pc + 2)
  <2>1. \A x \in {A!Home(Below), A!Home(Below + 1)}, y \in {A!Home(pc + 1), A!Home(pc + 2)} : x # y
    BY Zenon
  <2>2. /\ A!Home(Below) # A!Home(pc + 1) /\ A!Home(Below + 1) # A!Home(pc + 1)
        /\ A!Home(Below) # A!Home(pc + 2) /\ A!Home(Below + 1) # A!Home(pc + 2)
    BY <2>1
  <2> QED
    BY <1>3, <2>2
<1>7. /\ ReadNow(mem', pc + 1) = ReadNow(mem, pc + 1)
      /\ ReadNow(mem', pc + 2) = ReadNow(mem, pc + 2)
  BY <1>2, <1>3, <1>4, <1>6, WriteWordReads
<1>8. pc' = WordThrough(mem', rom_bank_n, external_ram_bank, pc + 1)
  <2>1. pc' = WordThrough(mem', rom_bank_n, external_ram_bank, (pc + 3) - 2)
    BY DEF call_a16
  <2> QED
    BY <1>5, <2>1
<1> QED
  BY <1>5, <1>7, <1>8 DEF WordThrough, ReadNow, read_word

\* CALL goes where its operand pointed before it pushed the return address,
\* unless the stack lies over that operand.
THEOREM CallGoesToOperand == Spec => CallTarget
BY CallReadsOperand, Invariant, PTL DEF Spec, CallTarget, Next
-----------------------------------------------------------------------------
(* The refinement *)

LEMMA ViewIsGood ==
  ASSUME NEW m \in [Cells -> Byte], NEW rom \in RomBanks, NEW bank \in Banks
  PROVE  A!View([a \in Addresses |-> ReadThrough(m, rom, bank, a)])
<1> DEFINE v == [a \in Addresses |-> ReadThrough(m, rom, bank, a)]
<1>1. v \in [Addresses -> Byte]
  BY ReadIsByte
<1>2. \A b \in Addresses : A!Home(b) \in Addresses /\ v[b] = v[A!Home(b)]
  BY ClosedAssumption, ReadEcho
<1> HIDE DEF v
<1> QED
  BY <1>1, <1>2 DEF A!View, v

LEMMA ChangedBytes ==
  A!Changed = {b \in Addresses : read_byte(b)' # read_byte(b)}
BY DEF A!Changed

LEMMA NamesOf ==
  ASSUME NEW a \in Writable
  PROVE  A!Names(a) = {b \in Addresses : ~Ignores(a) /\ A!Home(b) = A!Home(a)}
BY IgnoresIsNotKept DEF A!Names

LEMMA StoreRefines ==
  ASSUME MInv, Store
  PROVE  A!Store
<1>1. PICK s \in Stores : mem' = write_byte(mem, s[1], s[2])
  BY DEF Store
<1>2. s[1] \in Writable /\ s[1] \in Addresses /\ s[2] \in Byte
  BY MemoryAssumption, AddressRange
<1>3. mem \in [Cells -> Byte] /\ external_ram_bank \in Banks
  BY DEF MInv, TypeOK, Banks
<1>4. \A b : read_byte(b)' = ReadNow(mem', b) /\ read_byte(b) = ReadNow(mem, b)
  BY DEF Store, read_byte, ReadNow, banks
<1>5. \A b \in Addresses :
        Ignores(s[1]) \/ A!Home(s[1]) # A!Home(b) => ReadNow(mem', b) = ReadNow(mem, b)
  BY <1>1, <1>2, <1>3, WriteByteReads
<1>6. A!Changed \subseteq A!Names(s[1])
  BY <1>2, <1>4, <1>5, ChangedBytes, NamesOf
<1>7. UNCHANGED (external_ram_bank # NULL)
  BY DEF Store, banks
<1> QED
  BY <1>2, <1>6, <1>7 DEF A!Store

LEMMA PushRefines ==
  ASSUME MInv, NEW w, Representable(w), push(w), UNCHANGED banks
  PROVE  A!StoreWord
<1>1. PICK s \in Stacks : mem' = write_word(mem, s, w)
  BY DEF push
<1>2. s \in Writable /\ s + 1 \in Writable /\ s \in Addresses
  BY StackCells, AddressRange
<1>3. mem \in [Cells -> Byte] /\ external_ram_bank \in Banks
  BY DEF MInv, TypeOK, Banks
<1>4. \A b : read_byte(b)' = ReadNow(mem', b) /\ read_byte(b) = ReadNow(mem, b)
  BY DEF read_byte, ReadNow, banks
<1>5. \A b \in Addresses :
        ~(~Ignores(s) /\ A!Home(s) = A!Home(b)) /\ ~(~Ignores(s + 1) /\ A!Home(s + 1) = A!Home(b))
          => ReadNow(mem', b) = ReadNow(mem, b)
  BY <1>1, <1>3, WriteWordReads
<1>6. A!Changed \subseteq A!Names(s) \cup A!Names(s + 1)
  BY <1>2, <1>4, <1>5, ChangedBytes, NamesOf
<1>7. UNCHANGED (external_ram_bank # NULL)
  BY DEF banks
<1> QED
  BY <1>2, <1>6, <1>7 DEF A!StoreWord

LEMMA DmaRefines ==
  ASSUME MInv, Dma
  PROVE  A!Transfer
<1>1. PICK page \in Pages :
        IF DmaSource(page) = NoSource
          THEN UNCHANGED <<mem, words>>
          ELSE mem' = Copied(DmaSource(page)) /\ words' = Outside(A!Oam)
  BY DEF Dma
<1>2. mem \in [Cells -> Byte] /\ rom_bank_n \in RomBanks /\ external_ram_bank \in Banks
  BY DEF MInv, TypeOK, Banks
<1>3. \A b : read_byte(b)' = ReadNow(mem', b) /\ read_byte(b) = ReadNow(mem, b)
  BY DEF Dma, read_byte, ReadNow, banks
<1>4. UNCHANGED (external_ram_bank # NULL)
  BY DEF Dma, banks
<1>5. CASE DmaSource(page) = NoSource
  <2>1. ~(page <= \hF1 /\ (A!ExternalRam(page * 256) => external_ram_bank # NULL))
    BY <1>5, DmaSourceExists
  <2>2. \A b : read_byte(b)' = read_byte(b)
    BY <1>1, <1>3, <1>5
  <2>3. UNCHANGED [a \in Addresses |-> read_byte(a)]
    BY <2>2
  <2> QED
    BY <1>4, <2>1, <2>3 DEF A!Transfer
<1>6. CASE DmaSource(page) # NoSource
  <2>1. page <= \hF1 /\ (A!ExternalRam(page * 256) => external_ram_bank # NULL)
    BY <1>6, DmaSourceExists
  <2>2. \A b \in Addresses :
          /\ A!Oam(b) => /\ page * 256 + (b - \hFE00) \in Addresses
                         /\ read_byte(b)' = read_byte(page * 256 + (b - \hFE00))
          /\ ~A!Oam(b) => read_byte(b)' = read_byte(b)
    BY <1>1, <1>2, <1>3, <1>6, CopiedReads
  <2>3. \A b \in Addresses : page * 256 + b - \hFE00 = page * 256 + (b - \hFE00)
    BY MemoryAssumption, AddressRange DEF IsByte
  <2> DEFINE v == [a \in Addresses |-> read_byte(a)]
  <2>4. ASSUME NEW b \in Addresses
        PROVE  [a \in Addresses |-> read_byte(a)'][b]
                 = IF A!Oam(b) THEN v[page * 256 + b - \hFE00] ELSE v[b]
    BY <2>2, <2>3
  <2> QED
    BY <1>4, <2>1, <2>4 DEF A!Transfer
<1> QED
  BY <1>5, <1>6

LEMMA SwitchRefines ==
  ASSUME MInv, mbc_write
  PROVE  A!Switch
<1>1. ASSUME NEW b \in Addresses, read_byte(b)' # read_byte(b)
      PROVE  A!RomWindow(b) \/ A!ExternalRam(b)
  <2>1. b \in Nat /\ b < 65536
    BY AddressRange
  <2>2. CASE b < \h4000
    BY <1>1, <2>1, <2>2 DEF read_byte, ReadThrough, IsRom, IsExternal
  <2>3. CASE b >= \h8000 /\ ~IsExternal(b)
    <3>1. CellAt(b, external_ram_bank') = CellAt(b, external_ram_bank)
      BY <2>1, <2>3, BankMatters
    <3> QED
      BY <1>1, <2>1, <2>3, <3>1 DEF mbc_write, read_byte, ReadThrough, IsRom
  <2> QED
    BY <2>1, <2>2, <2>3 DEF IsExternal, A!RomWindow, A!ExternalRam
<1>2. ASSUME NEW a \in Addresses, A!ExternalRam(a), ~(external_ram_bank # NULL)'
      PROVE  read_byte(a)' = 255
  BY <1>2, AddressRange DEF A!ExternalRam, read_byte, ReadThrough, IsRom, IsExternal
<1> QED
  BY <1>1, <1>2, ChangedBytes DEF A!Switch

LEMMA RegistersRefine ==
  ASSUME MInv, Registers
  PROVE  A!Registers
<1>1. PICK a \in Writable \cap A!Volatile, d \in Counts : mem' = Put(mem, a, d)
  BY DEF Registers
<1>2. /\ d \in Byte /\ a \in Nat /\ ~(IsExternal(a) /\ external_ram_bank = NULL)
      /\ A!Home(a) = a /\ a >= \hFF00
  BY MemoryAssumption, AddressRange DEF A!Volatile, IsExternal, A!Home
<1>3. mem \in [Cells -> Byte] /\ external_ram_bank \in Banks
  BY DEF MInv, TypeOK, Banks
<1>4. \A b : read_byte(b)' = ReadNow(mem', b) /\ read_byte(b) = ReadNow(mem, b)
  BY DEF Registers, read_byte, ReadNow, banks
<1>5. \A b \in Addresses : A!Home(a) # A!Home(b) => ReadNow(mem', b) = ReadNow(mem, b)
  BY <1>1, <1>2, <1>3, PutReads
<1>6. \A b \in Addresses : A!Home(a) = A!Home(b) => a = b
  BY <1>2, AddressRange DEF A!Home
<1>7. A!Changed \subseteq A!Volatile
  BY <1>1, <1>4, <1>5, <1>6, ChangedBytes
<1>8. UNCHANGED (external_ram_bank # NULL)
  BY DEF Registers, banks
<1> QED
  BY <1>7, <1>8 DEF A!Registers

LEMMA Refinement == MInv /\ MInv' /\ [Next]_mvars => [A!Next]_(A!avars)
<1> SUFFICES ASSUME MInv, MInv', [Next]_mvars PROVE [A!Next]_(A!avars)
  OBVIOUS
<1>1. A!View([a \in Addresses |-> read_byte(a)'])
  <2>1. mem' \in [Cells -> Byte] /\ rom_bank_n' \in RomBanks /\ external_ram_bank' \in Banks
    BY DEF MInv, TypeOK, Banks
  <2>2. A!View([a \in Addresses |-> ReadThrough(mem', rom_bank_n', external_ram_bank', a)])
    BY <2>1, ViewIsGood
  <2> QED
    BY <2>2 DEF read_byte
<1>2. CASE UNCHANGED <<mem, rom_bank_n, external_ram_bank>>
  <2>1. \A b : read_byte(b)' = read_byte(b)
    BY <1>2 DEF read_byte
  <2>2. UNCHANGED [a \in Addresses |-> read_byte(a)]
    BY <2>1
  <2> QED
    BY <1>2, <2>2 DEF A!avars
<1>3. CASE call_a16
  <2>1. A!StoreWord
    BY <1>3, ClosedAssumption, PushRefines DEF call_a16
  <2> QED
    BY <1>1, <2>1 DEF A!Next
<1>4. CASE rst_n \/ PushPair
  <2>1. PICK w \in Words : push(w) /\ UNCHANGED banks
    BY <1>4 DEF rst_n, PushPair
  <2>2. A!StoreWord
    BY <2>1, ClosedAssumption, PushRefines
  <2> QED
    BY <1>1, <2>2 DEF A!Next
<1>5. CASE Store
  BY <1>1, <1>5, StoreRefines DEF A!Next
<1>6. CASE Dma
  BY <1>1, <1>6, DmaRefines DEF A!Next
<1>7. CASE mbc_write
  BY <1>1, <1>7, SwitchRefines DEF A!Next
<1>8. CASE Registers
  BY <1>1, <1>8, RegistersRefine DEF A!Next
<1>9. CASE ret \/ PopPair \/ Elsewhere \/ UNCHANGED mvars
  BY <1>2, <1>9 DEF ret, PopPair, Elsewhere, mvars, banks
<1> QED
  BY <1>3, <1>4, <1>5, <1>6, <1>7, <1>8, <1>9 DEF Next

\* read_byte(), write_byte(), write_word() and the transfer agree on one map:
\* a byte behind every address, echo RAM, windows, copies of what is read.
THEOREM MapImplemented == Spec => ImplementsAddressSpace
<1>1. Init => A!Init
  <2> SUFFICES ASSUME Init PROVE A!Init
    OBVIOUS
  <2>1. mem \in [Cells -> Byte] /\ rom_bank_n \in RomBanks /\ external_ram_bank \in Banks
    BY InvInit DEF MInv, TypeOK, Banks
  <2>2. A!View([a \in Addresses |-> read_byte(a)])
    BY <2>1, ViewIsGood DEF read_byte
  <2> QED
    BY <2>2 DEF A!Init
<1> QED
  BY <1>1, Refinement, Invariant, PTL DEF Spec, ImplementsAddressSpace, A!Spec
=============================================================================
