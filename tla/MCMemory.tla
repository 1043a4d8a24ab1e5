------------------------------ MODULE MCMemory ------------------------------
(***************************************************************************)
(* A CALL at 0xC0FC whose operand has echoes at 0xE0FD, an RST behind it,  *)
(* a stack that may lie over the operand, in external RAM or at the end of *)
(* the address space, where sp wraps from 0 to 0xFFFE, and transfers       *)
(* of one byte from every kind of source.                                  *)
(***************************************************************************)
EXTENDS Memory

MCAddresses ==
  {\h4000, \hA000, \hA001, \hC000, \hC0FD, \hC0FE, \hC0FF, \hE000, \hE0FD, \hE0FE,
   \hFE00, \hFF02, \hFF44, \hFFFE, \hFFFF}
MCByte   == {0, \hC0, 255}
MCPages  == {\h40, \hA0, \hE0, \hF2}
MCStores == {<<\hA000, 0>>, <<\hC000, 255>>, <<\hC0FE, 0>>, <<\hE0FD, \hC0>>,
             <<\hFF02, 0>>, <<\hFF44, 255>>}
MCWords  == {\hC0FF}
MCSites  == {\hC0FC}
MCStacks == {\hA000, \hE0FD, \hFFFE}

MCImage == [bank \in 0 .. 1 |-> [offset \in 0 .. \h3FFF |-> IF bank = 0 THEN 0 ELSE \hC0]]
MCBoot  == [a \in OwnField |-> 0]
MCSaved == [bank \in 0 .. 0 |-> [offset \in 0 .. \h1FFF |-> 0]]
=============================================================================
