-------------------------- MODULE MCCpuRegisters --------------------------
(* Words whose bytes are 0 or $FF, so that 8-bit and 16-bit counting wraps *)
(* and the two bytes of a register can be told apart, and three bytes of   *)
(* stack across the lower end of page 1.  A status byte pulled is one of   *)
(* those two too, and sets or clears every flag.  Two registers at a time  *)
(* hold more than 0: no instruction moves a value between more.            *)
EXTENDS CpuRegisters

MCWords  == {0, 255, 65280, 65535}
MCStack  == 255..257
MCVector == [ERES |-> 0, EIRQ |-> 0, ECOP |-> 0, NIRQ |-> 0, NBRK |-> 0,
             NCOP |-> 0]
=============================================================================
