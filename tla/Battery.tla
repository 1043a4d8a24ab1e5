------------------------------ MODULE Battery -------------------------------
(* What battery-backed cartridge RAM promises: its cells change only by a   *)
(* store into the bank that is switched in.  Switching the console off, at  *)
(* whatever moment, and on again is no step of the cells.                   *)
EXTENDS Integers

CONSTANTS Offsets, Bytes

VARIABLES
  bank,    \* the bank switched in, -1 when there is none
  cells    \* contents by bank and offset

contents == <<bank, cells>>

Banks == {c[1] : c \in DOMAIN cells}

Init ==
  /\ bank = -1
  /\ DOMAIN cells \subseteq Nat \X Offsets /\ cells \in [DOMAIN cells -> Bytes]

Switch == bank' \in Banks \cup {-1} /\ UNCHANGED cells

Store ==
  /\ \E o \in Offsets, v \in Bytes :
       <<bank, o>> \in DOMAIN cells /\ cells' = [cells EXCEPT ![<<bank, o>>] = v]
  /\ UNCHANGED bank

Next == Switch \/ Store

Spec == Init /\ [][Next]_contents
=============================================================================
