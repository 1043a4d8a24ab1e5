---------------------------- MODULE AddressSpace ----------------------------
(***************************************************************************)
(* What the memory map of memory.h promises to a program: one byte behind  *)
(* every address, two windows onto banks, echo RAM that is the work RAM    *)
(* 0x2000 below it, and an OAM transfer that copies what the program       *)
(* itself would read.                                                      *)
(***************************************************************************)
EXTENDS Integers

CONSTANTS
  Addresses,   \* the addresses represented
  Byte,        \* the values of a byte represented
  Pages        \* what is written to DMA

VARIABLES
  view,        \* what each address reads as
  ram_on       \* external RAM is mapped

avars == <<view, ram_on>>

Rom(a)         == a < \h8000
RomWindow(a)   == a >= \h4000 /\ a < \h8000
ExternalRam(a) == a >= \hA000 /\ a < \hC000
Oam(a)         == a >= \hFE00 /\ a < \hFEA0

\* SC, LY and DMA do not keep what is written to them; TIMA, IF and LY change
\* by themselves.
NotKept  == {\hFF02, \hFF44, \hFF46}
Volatile == {\hFF05, \hFF0F, \hFF44}

\* Echo RAM is another name for work RAM.
Home(a) == IF a >= \hE000 /\ a < \hFE00 THEN a - \h2000 ELSE a

Keeps(a) == ~Rom(a) /\ a \notin NotKept /\ (ExternalRam(a) => ram_on)

View(v) == /\ v \in [Addresses -> Byte]
           /\ \A b \in Addresses : v[b] = v[Home(b)]

Init == View(view) /\ ram_on \in BOOLEAN

Changed  == {b \in Addresses : view'[b] # view[b]}
Names(a) == {b \in Addresses : Keeps(a) /\ Home(b) = Home(a)}

\* A store changes one byte at most, under all of its names.  The address the
\* program named is not seen here.
Store == LET changed == Changed IN
         /\ \E a \in Addresses : changed \subseteq Names(a)
         /\ UNCHANGED ram_on

StoreWord == LET changed == Changed IN
             /\ \E a \in Addresses : changed \subseteq Names(a) \cup Names(a + 1)
             /\ UNCHANGED ram_on

Transfer ==
  /\ \E p \in Pages :
       IF p <= \hF1 /\ (ExternalRam(p * 256) => ram_on)
         THEN \A b \in Addresses :
                view'[b] = IF Oam(b) THEN view[p * 256 + b - \hFE00] ELSE view[b]
         ELSE UNCHANGED view
  /\ UNCHANGED ram_on

\* A window that shows no bank reads as 0xFF.
Switch ==
  /\ \A a \in Changed : RomWindow(a) \/ ExternalRam(a)
  /\ \A a \in Addresses : ExternalRam(a) /\ ~ram_on' => view'[a] = 255
  /\ ram_on' \in BOOLEAN

Registers == Changed \subseteq Volatile /\ UNCHANGED ram_on

Next == View(view') /\ (Switch \/ Registers \/ Store \/ StoreWord \/ Transfer)

Spec == Init /\ [][Next]_avars
=============================================================================
