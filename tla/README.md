# Beni Boy in TLA+

TLA+ specifications of the Beni Boy emulator (C, `src/`), the TLC configurations
that check them on small instances, and TLAPS proofs of the properties that
matter most. Paths of the form `ppu.c:170` are relative to `src/src/`.

## 1. The system

Beni Boy is single threaded. `main` alternates between `run_frame`, which
executes 70224 clock cycles, and a loop that handles the events SDL has queued.
In every cycle `run_frame` calls, in this order, `update_timer`,
`execute_cpu_cycle` and `tick_ppu`. The components share memory: the emulated
program reaches the registers of all of them through `write_byte`, and all of
them request interrupts by setting bits of `cpu.int_flag` (IF). What is hard
about it is therefore not threads, but that *the emulated program is arbitrary*:
any register may be written between any two ticks of any state machine, and the
process may be stopped at any instruction.

| Component | State | Operations | Hard part | Correct when |
|---|---|---|---|---|
| PPU timing (`ppu.c`) | mode machine, `ticks`, `ly`, `curr_pxl`, LCDC, STAT, LYC, WY, WX, two frame buffers | `tick_ppu`, register writes | LCD turned off and on in any tick; edge-triggered STAT; wrap-around by equality; uninitialised `screen` | position in the frame decides modes, swaps and interrupts; only complete or blank pictures are shown |
| PPU picture (`ppu.c`) | sprites of the line, VRAM, OAM | sprite scan and sort, pixel colour | limit of ten, stable sort, byte arithmetic, LCDC changed between scan and pixel | matches a declarative definition |
| Timer (`timer.c`) | 16-bit counter, batch counter, TIMA, TMA, TAC | `update_timer`, register writes | counting 16 cycles at a time while registers are written in between | indistinguishable from counting each cycle |
| CPU control (`cpu.c`, `interrupts.c`, `instructions.c`) | IME, `ime_delay`, `halted`, `remaining_cycles`, IF, IE | `execute_cpu_cycle`, `handle_interrupts`, EI, DI, HALT, RETI | order of IME, `ime_delay`, requests and stores to IE/IF | EI shadow, critical sections, no lost request, HALT wakes |
| Instruction data (`instructions.c`) | registers, flags | 500 instruction functions | flags matter only to later instructions: carry chains, DAA | sequences of instructions compute exact binary and decimal results |
| Cartridge (`cartridge.c`) | bank numbers and pointers, RAM mapping, RTC, `.sav` file | `load_rom`, `mbc1`, `mbc3_ram`, RAM stores, end of process | any order of controller writes; kill and restart at any moment; partial failure of `load_rom` | bank registers as the hardware's; no store is ever lost |
| Input (`main.c`, `gb.c`, P1 in `memory.c`) | `gb.keys`, P1, SDL's queue | polling loop, `press_key`, `release_key`, write to P1 | events that queue up during a frame; key repeat; P1 computed when written | keys follow the keyboard; one request per press |
| Memory map, DMA (`memory.c`) | WRAM, HRAM, VRAM, OAM | `read_byte`, `write_byte`, DMA; `push`, `pop`, CALL, RET | three decoders that must agree; mirrors and windows; a stack that may lie anywhere | one byte behind every address of the map in `memory.h`; what is pushed is popped |
| Console (`gb.c`) | all of the above | `init_gb`, `run_frame` | three components that share IF in a fixed order | each component sees what it expects of the others; one picture per frame |
| Frame pacing (`main.c`) | `frame_start_ms` | delay at the end of the loop | truncation | 59.7 frames per second |

Serial output prints a character and changes no state. SDL window set-up,
texture upload, the Makefile and the images have no behaviour of their own.

## 2. Modules

| Module | What it is |
|---|---|
| `Interrupts` | interrupt sources and request functions; IF and IE are sets of sources |
| `Ppu` | `tick_ppu` and the PPU register writes |
| `Beam` | abstract: a beam running over the positions of a frame |
| `PpuStat` | `Ppu` with a history variable, a definition of the STAT condition by position |
| `Picture` | sprite scan, sort and choice for each pixel, with the same by definition |
| `Timer` | `update_timer` and the timer register writes |
| `CycleTimer` | abstract: a timer counting every cycle |
| `TimerInterval` | `Timer` with the time since the last overflow |
| `Cpu` | `execute_cpu_cycle`, dispatch, and the control effect of instructions |
| `Alu` | the effect of instructions on accumulator and flags |
| `Console` | `run_frame`: `Timer`, `Cpu` and `Ppu` with one IF and one program |
| `Memory` | `read_byte`, `write_byte`, OAM transfer, stack instructions |
| `AddressSpace` | abstract: one byte behind every address |
| `Cartridge` | `load_rom`, bank controllers, external RAM, `.sav` file, process end |
| `Mbc1`, `Battery` | abstract: the two bank registers; battery-backed cells |
| `MainLoop` | event loop, keys, P1 |
| `MCPpu`, `MCTimer`, `MCCpu`, `MCConsole`, `MCMemory`, `MCData`, `MCCartridge`, `MCMainLoop` | values of the constants for TLC |
| `PpuProofs`, `TimerProofs`, `CpuProofs`, `ConsoleProofs`, `MemoryProofs`, `DataProofs`, `CartridgeProofs`, `MainLoopProofs` | theorems and proofs |

**Ppu.** One action per mode (`OamSearch`, `OamBug`, `DataTransfer`, `HBlank`,
`VBlank`), each the whole path of `tick_ppu` through that `case`, from the LYC
comparison (`LcdOnTick`) to the STAT edge at the end (`StatLine`); `TurnOff` is
the early return at `ppu.c:170`, `StaysOff` the one at 183. `WriteLcdc`,
`WriteStat` and `WriteLycWyWx` are the stores of `write_byte`. IF is shared with
the rest of the machine, which may set or clear any bit between ticks
(`OthersTouchFlags`). Colours are abstracted away: of a frame buffer the model
keeps whether its contents are defined (`undef`), of the sprite array the line it
was filled for (`sprites_ly`). `painted` and `cut` are history variables.

**Timer.** `Count` and `UpdateBatch` are the two branches of `update_timer`; DIV
is the upper byte of `cycles`, so writing it (`ClearDiv`) keeps the lower byte
and the batch counter.

**Cpu.** A cycle continues an instruction (`Continue`), idles (`Idle`), or starts
a dispatch or an instruction (`Awake`). Instructions are kept apart by their effect on
interrupts: `Plain` stands for everything that is not EI, DI, HALT, RETI or
unimplemented, with any cost of the tables and, if it stores, any effect on IE
or IF. The push of a dispatch may hit IE or IF too, after the source was chosen.
Constants describe the program: which kinds of instruction it contains and what its
stores may leave in IE and IF (`IeWrites`, `IfWrites`). History variables remember
whether it ever executed EI or RETI with interrupts already on (`redundant`), which
finding 2 is about, and whether the step just made stored to IF (`overwrote`). Other
components only ever set bits of IF (`Request`).

**Console.** `TimerTurn`, `CpuTurn` and `PpuTurn` are the three calls in the loop of
`run_frame`, `cycle` its counter, and each is the `Next` of its component. An
instruction or the push of a dispatch stores up to two bytes, which `Store` turns into
register writes of `Timer` or `Ppu` before the PPU is called; stores to IE and IF are
part of `Cpu` already. `PressKey` and `RunFrame` are what `main` does between two calls. An
unimplemented opcode ends the program in the middle of `run_frame` (`exited`, `turn` = "over").
`steady`, `origin` and `swaps` are history variables.

**Memory.** A cell is a region of `memory.h`, its bank and an offset; `CellAt` decodes
an address for `write_byte` and `ReadThrough` for `read_byte`, `DmaSource` is
`get_ptr_at_high_nibble`. Registers with a field of their own are cells of region `io`
too; what the components do to them by themselves is `Registers`. The actions are the
instructions that use the stack, stores (`Store`, `Dma`, `mbc_write`), and `Elsewhere`
for all that only move `sp` and `pc`, which wrap as 16-bit numbers do. Which opcode stands where is left open. `words`
is a history variable: what was pushed and not stored over since.

**Alu.** The functions of `instructions.c` as operators of the same names, and an
arbitrary sequence of instructions over them. Only A and F are state: another register, `(HL)` or an
immediate operand may hold any value. `wide`, `tens` and `last` are history
variables that collect the numbers a chain of instructions is working on, place by place.
A calculation is followed for `MaxSteps` places, and only places
that begin with a value of `Operands` in A are; this bounds the history, not the program.

**Picture.** `Scan` is tick 0 of a line (`Found` and `Insert` are the two loops);
`StartLine` scans when the line before is complete, `StartOver` when the LCD was turned off
and on in the middle of one, so that line 0 goes on at the pixel reached then.
`Draw` is one pixel with `Chosen` as the loop of `ppu.c:296`. `ChosenAlone` and
`ChosenOver` are its two exits: without background the first sprite at the pixel decides, even if it
is transparent there; over the background transparent sprites and those hidden by it
are passed over. OAM is read in `Scan` only, so the program may fill it with anything
until then; LCDC may be written before any pixel.

**Cartridge.** Pointers into the ROM are bank numbers, `external_ram_bank` is a
region and an offset. `Load` is a successful `load_rom`, `Refuse` one that fails
after the save file was resized (failing earlier changes nothing), `Stop` any
end of the process, orderly or not. The mapping is `MAP_SHARED`, so that a store
changes RAM and file at once. The 2 KiB size of the header table is smaller than the
8 KiB window: `Store` then reaches the bytes inside, and `StoreBehind` is a store behind them, which
C leaves undefined: it lands in the rest of the file's last page, which is not
part of the file, or the process ends.

**MainLoop.** `phase` is the position in the loop of `main`; the player (an
environment action) may press, hold, release and close the window at any time,
and SDL's queue is a sequence. `joypad_reg` is kept as bits 4 and 5, which select a group
of keys, and the lines pulled low; `Buttons` and `Directions` are the tests of `write_byte`, a key
and the bit its mask clears. `polled` and `basis` are history variables: the
keys held down when the loop last found the queue empty, and the same as of the last write to P1.
`Matrix`, which only the property uses, lists the keys of each group by line, as the console is wired.

Abstract specifications are written from what the component promises, not from its
code; the code's module is shown to implement them through `INSTANCE ... WITH`:
`Ppu` implements `Beam` (position = `ly * LineTicks + ticks`), `Timer` implements
`CycleTimer` (counter = `cycles + cycles_since_last_update`), `Cartridge`
implements `Mbc1` (registers = the number modulo and divided by 32; cartridges
without that controller map to registers that never change) and `Battery`
(cells = what RAM shows, or would show at the next start), and `Memory` implements
`AddressSpace` (view = what `read_byte` returns for every address). A store of `AddressSpace`
changes one byte at most, under all its names; it does not say that it is the byte the program named,
which `WordsStay` does for the words that are pushed.

Some operators stand right before another of the same shape and are used by no
action (`StatLineLevel` before `StatLine`, `KeepIme` before `DisableIme`): they
are plausible bugs. `PROJECT.json` lists under `mutants` which definition each
one replaces and which property TLC then finds violated, so that every property
is known to be able to fail.

## 3. Runs

| Run | Configuration | Shows |
|---|---|---|
| `ppu_safety` | 2x2 pixels, 3 lines of 7 ticks, all writes to LCDC, WY, WX | counters in range (`TypeOK`), mode bounds the beam (`BeamInv`), sprites of the right line, pixels drawn = pixels passed, no undefined or incomplete picture displayed, window never ahead |
| `ppu_timing` | 4 lines, every subset of STAT sources, LYC on visible, last and absent lines | `Ppu` implements `Beam`; STAT exactly at the rising edges; frames and LY=LYC for ever |
| `ppu_mode3` | as `ppu_safety` | **violated**: mode 3 has different lengths |
| `timer` | counter modulo 2048, TIMA modulo 3 | `Timer` implements `CycleTimer`; interval between overflows exact to the cycle; a running timer keeps firing |
| `cpu` | 2 sources, all instructions, stores of anything to IE and IF | EI shadow and critical sections unless EI was redundant, no request lost but by a store to IF, priority order, HALT wakes, V-Blank not starved, `remaining_cycles` never underflows |
| `cpu_ei` | the same program without stores to IF | **violated**: the delay of EI outlives one instruction |
| `cartridge` | RAMs of 0, 1, 2 banks of 2 bytes and of half a bank, ROMs of 2 to 128 banks, all controllers | `mbc1()` implements `Mbc1`, a mapped bank lies inside the RAM unless the RAM is smaller, save is a `Battery` |
| `cartridge_rtc` | same | **violated**: stores reach the RTC |
| `input` | 3 keys, 5 events | keys follow the keyboard, one request per press, P1 shows the key matrix as of the last time the queue was handled before P1 was written, closing the window ends the program |
| `console` | frames of 2 lines of 6 ticks, the real order of calls, a program that stores to the registers of timer and PPU and may end through an unimplemented opcode | every component's specification holds in `run_frame` until the program ends (`TimerInConsole`, `CpuInConsole`, `PpuInConsole`); one picture per call |
| `memory` | 15 addresses of all kinds, two ROM banks, a stack over code, in external RAM or just below 0x10000 | `Memory` implements `AddressSpace`, pushed words stay, CALL finds its target |
| `data` | 3 operands, 4 words, 2 places; 3 entries of OAM, 2 sprites per line, 5 shapes | binary and decimal arithmetic over several places, forms with operand A; sprites of a line, what a pixel shows, what is read of a tile |

**Bounds.** In the PPU every comparison is an equality with a line, tick or pixel
count. Two pixels, two visible lines and one V-Blank line (two in `ppu_timing`)
already give first, last and neighbouring lines, ticks that are neither first
nor last, and a mode 3 of more than one pixel. The window counter wraps at 4
rather than 256, more than the lines there are. The timer's counter is
cut to 2048, two of the longest periods, so that all bits a period looks at are
there; TIMA overflows after 3 steps rather than 256. Two interrupt sources give a higher and
a lower priority; costs 4 and 12 an instruction that ends with the others and
one that spans several cycles with requests inside. ROM sizes are the real ones,
one of them not a power of two; the bytes written include every kind the
controllers tell apart. Two RAM banks of two cells tell banks, cells and the end of the RAM
apart, half a bank is the RAM that ends within the window. Five events are enough for press, repeat and release of two keys
across frames. `MaxEvents` is the only bound that stops behaviours: with the
queue used up and the window closed nothing more happens, which is why
`input` does not check for deadlock; neither do `cpu` and `console`, in which the program may end
through an unimplemented opcode, and `memory`, where a stack can run out of the
represented addresses.

In `console` the frame is as long as the PPU's, as 70224 = 154 * 456 is, and
the timer's counter is one batch long; instructions take 4 cycles, and a frame is a multiple of
that, as all costs and 70224 are. Stores turn the timer and the STAT request for H-Blank on and the LCD on and off; IF is
written by the components only, since `cpu` covers stores to it. In `memory` there are addresses of
switched ROM, external RAM (mapped or not), work RAM with its echo, OAM, SC and LY; the operand of
a CALL and the stack have echoes, and transfers come from ROM, external RAM, echo RAM
and an illegal page. The stack below 0x10000 holds a word in 0xFFFE and IE, pushed with `sp` = 0; a
word across 0xFFFF and 0x0000, half of it in ROM, is left out (`Stacks`). The other regions are decoded by the same rules, and the theorems of
`MemoryProofs` cover them. The operands of `data` (0x05,
0x49, 0x99) and what sequences make of them reach carries, half carries and decimal
corrections of both digits and both signs; A takes every value of a byte. Alu and Picture share no
variable, so `data` runs each of them while the other rests. Shapes of sprites
are on the line only when 8 or 16 high, tie in X, are cut by the left
edge, are behind the background and flipped either way.

**Fairness.** `run_frame` calls each component in every cycle whatever the
others do: weak fairness of `TickPpu`, `UpdateTimer` and `Cycle`. `main` calls
`run_frame`, which returns, and polls: weak fairness of `Loop`. `Console` assumes
only that its calls go on (`WF_gb(Call)`) and is shown to give each component its own
fairness, the timer and the PPU as long as no opcode without a function has ended the program
(`cpu.c:71`, `cpu.c:82`): from then on nothing is called any more. What `Timer` and `Ppu`
promise to happen eventually they promise for a program that goes on. Nothing is
assumed of the program or the player; what a liveness property needs of them is
its premise (the LCD stays on, the program keeps turning interrupts on).

## 4. Disagreements between code and documentation

1. *Mode 3 is not always equally long* (`ppu_mode3`). Turning the LCD off
   resets `ly` and `ticks` but not `curr_pxl` (`ppu.c:170-178`).
2. *The delay of EI is not one instruction* (`cpu_ei`). EI with interrupts
   enabled leaves `ime_delay` set; the next DI is undone one instruction later
   (`cpu.c:51-62`).
3. *The RTC can be written to* (`cartridge_rtc`), through the pointer of
   `cartridge.c:184` and the store of `memory.c:94`.

## 5. Proofs

TLAPS proves, for all values of the constants the named assumptions allow:

* **PPU** (`PpuProofs`; `GeometryAssumption`, `WritesAssumption`).
  `TypeCorrect`, `BeamCorrect`, `SpritesCorrect`, `PresentedDefined`,
  `PaintedInOrder`, `WindowBehind`, `WholeFrames`, the refinement
  `PpuImplementsBeam`, `StatIsRequestedAtEdges` and `Mode3IsSteady`. The inductive
  invariant `IInv` is `TypeOK`, `BeamInv`, `SpritesForThisLine`,
  `PaintedTracksBeam`, `PresentedIsDefined`, `WindowBehindBeam` and `Support`. `Support` is needed
  because the others are not inductive alone: that a
  presented buffer is defined rests on `cut => undef = {}` (turning the LCD off
  blanks one buffer and has displayed the other) and on `OAM_BUG` being
  entered only with `cut` set. The step from line end to line end needs
  `OamTicks + Width < LineTicks`, which bounds the ticks of mode 3 by
  `OamTicks + curr_pxl`; the pixel counter surviving LCD-off is why it is
  a bound and not an equality. In a frame without LCD-off it is an equality (`InStep`), which
  gives `Mode3IsSteady`, what remains of the statement that finding 1 refutes, and lets
  the place in the frame decide the mode. `StatIsRequestedAtEdges` adds `Remembers`:
  `stat_cond_met` is the condition of the place before this one, whatever path
  through the mode machine led here.
* **Timer** (`TimerProofs`; `TimerAssumption`, `WrapAssumption`). `TypeCorrect`, in which the
  inductive part is `cycles % 16 = 0`; `TimerImplementsCycleTimer`:
  between batches the abstract counter is no multiple of 16 and all periods are, so
  the abstract timer does nothing in the cycles the code skips; and
  `OverflowsAreExact`. Its invariant `IntervalInv` says what `since` is between two overflows
  (`Elapsed`): whole periods for the steps TIMA has made, and the part of the running one
  that the counter shows. This needs the counter to wrap where periods end (`WrapAssumption`).
* **CPU** (`CpuProofs`; `CpuAssumption`), for every program. `TypeCorrect`;
  `EiShadowKept` and `CriticalSectionsKept`, which speak of the time before the first
  redundant EI, from the invariant `Disciplined` (`ime_delay` is pending only while IME is
  off, and not in a masked section), which finding 2 shows to fail without
  that hypothesis; `RequestsKept`.
* **Console** (`ConsoleProofs`; the assumptions of the components and
  `FrameAssumption`, that a frame has as many cycles as the PPU has positions).
  `OnePicture`: by `Tracks`, a part of the invariant `CInv`, the beam of a steady frame is
  as many positions past `origin` as cycles have been ticked, modulo a frame, and `swaps` is 1
  exactly if it has passed the end of the last visible line on the way. `TimerSafe`, `CpuSafe` and `PpuSafe` show
  that every step of the console is a step of each component or none. `TimerInRunFrame`,
  `CpuInRunFrame` and `PpuInRunFrame` conclude that what was proved of the
  components against environments holds in `run_frame`: batching is invisible, EI, DI and
  requests behave, pictures are defined and whole and follow the beam. The
  lemmas of `CpuProofs` and `TimerProofs` are instantiated for this; `SameCpu` and `SameTimer`
  identify the two instances.
* **Memory** (`MemoryProofs`; `MemoryAssumption`, `ContentsAssumption`,
  `ClosedAssumption`), for any set of addresses, banks and contents. `TypeCorrect`;
  `StackKeepsWords`, inductive together with `TypeOK`, by which a remembered word lies where
  `Stacks` allows one, away from registers that change by themselves; `CallGoesToOperand`; and the refinement
  `MapImplemented`. They rest on lemmas about decoding: two addresses lead to the same
  cell exactly if one is the echo of the other, and `DmaSource` starts at the cell that
  `CellAt` gives for its first address.
* **Instruction data** (`DataProofs`; `AluAssumption`), for all operands and any
  number of places. `TypeCorrect`, `CarriesLink`, `DaaIsDecimal`, `OwnOperands`,
  `RotatesInvertible`. The invariant
  `Remembered` says of the last ADD, ADC, SUB or SBC that A and the flags are still its
  result, which is what DAA needs; that DAA corrects one pair of digits is a lemma
  over quotients and remainders by 16, and that places add up one over weights. AND and OR of A
  with itself need that a byte is the sum of its bits (`NumOfBits`).
* **Picture** (`DataProofs`; `PictureAssumption`, `ShapeAssumption`, `NumberAssumption`), for OAMs,
  limits, lines and contents of any size. `SpritesOfTheLine`, `ReadsInsideVram`, `TopmostIsDrawn`.
  `Found` and `sort_sprites_by_priority` are recursive functions; what they
  are is shown by induction over rounds, as the absence of a least counterexample, in two
  steps. `FoundSoFar` says of the array after entry *i* that it lists, in the order
  of OAM, the first sprites on the line among the entries before *i*. `Arranges` says of the
  sorted part that it is a permutation of the places of the array, rising in X and
  among equals in place, from which follows that the order of OAM decides among equals.
  `Scanned`, the inductive invariant, says that the array is that arrangement for the
  size of sprites the line was scanned with; it survives
  writes to LCDC, and while there were none (`resized`) it gives the three properties.
  The byte arithmetic of `Across` and `Down` never wraps for a sprite that covers
  the pixel (`PixelIsNumber`), except after a change of size, when reads leave the tile but not VRAM.
* **Cartridge** (`CartridgeProofs`; `CartridgeAssumption`: external RAM is whole banks or less
  than one, as in the header table). `TypeCorrect`,
  `RamAlwaysInside`, the refinements `SavesAreKept` and `Mbc1Correct`. The
  inductive invariant adds that the selected bank is one of the RAM's
  and that mapped RAM and file are equal (`InSync`). The arithmetic of
  banks (offsets of different banks differ, a number is its quotient and
  remainder by 32) is in lemmas of its own.
* **Input** (`MainLoopProofs`; the assumptions of `MainLoop`), for any of the eight keys and any
  number of events. `TypeCorrect`, `KeysFollow`, `OneRequest`, `HeldKeysShow`. The first properties speak of
  the moment the queue is empty; the invariant says what they need of every other moment: handling the
  events that are left would lead from the console's keys and requests to the
  keyboard's keys and presses. `Still` adds that they stay what the keyboard then showed for as long as a
  frame runs; from this, and from the masks compared with the key matrix (`Shows`), follows what P1 reads.

Some theorems state more than a run checks (`TypeCorrect` of Timer, Memory, Alu and MainLoop,
`PaintedInOrder`, `RotatesInvertible`, `Mode3IsSteady`, the six about the parts of `Console`); the
others state a property of a run, listed with it in `PROJECT.json`. Every
safety property of a passing run is a theorem.

Only model-checked: liveness (`PresentsForever`, `LycComesRound`,
`TimerKeepsFiring`, `HaltWakes`, `VBlankServed`, `WindowCloses`, and the fairness in
`TimerInConsole`, `CpuInConsole` and `PpuInConsole`), which
needs fairness and ENABLED. The library's induction theorems take operators as parameters, which the
provers cannot instantiate; the inductions of `DataProofs` are over sets instead.

## 6. Not modelled

* The look-up of background and window tiles: at any pixel the background may have any colour number. Of the
  palettes `Picture` says which one is used, not what it holds.
* Registers other than A and F, program counter and opcodes as data: `Alu` takes operands
  from a set, `Memory` leaves open which instruction comes next, `Cpu` what it is.
  `Console` therefore composes timing, interrupts and register writes, not the contents
  of memory; `Memory` has bank switches and the registers' own changes as environment.
* What a program reads behind the end of a 2 KiB external RAM. The window is 8 KiB, and what lies there is
  not described by the code; of stores to it `Cartridge` says that they do not reach the save. Stores with an RTC
  register mapped are restricted to the five registers for the same reason, and `Memory` has banks of the
  full size. The addresses of P1, DIV and STAT, which do not keep what is stored, are left
  out of `Memory` and modelled in `MainLoop`, `Timer` and `Ppu`.
* H after ADD SP,r8 and LD HL,SP+r8 is modelled as computed (it is set for negative
  multiples of 16, where no lower digit carries); no property is claimed for it.
* Bits 5 to 7 of IF and IE (no decision depends on them), bits of LCDC that
  only select tiles, scrolling and palettes.
* SDL, serial output and window set-up. The delay at the end of a frame (`main.c:98-101`) depends on the
  wall clock and is truncated to whole milliseconds; it changes no emulated state.

## 7. Plan

Done: all modules of section 2, with proofs for each component of section 1 that keeps state.

What could be added, in this order:

1. The background: tile map and tile data addresses of `ppu.c:249-289` for scrolled
   backgrounds and the window, inside VRAM and wrapping at 256 pixels, and the window line they show.
2. `Memory` and `Cartridge` composed, so that a bank switch is the controller's and
   the windows show its banks.
3. A program: `Cpu`, `Alu` and `Memory` composed over a small set of opcodes, in which
   an interrupt handler saves and restores what it uses.
4. Pacing: the sum of frame times against 1000/59.722 ms for any duration of
   `run_frame`.
