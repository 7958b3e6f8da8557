---------------------------- MODULE MCKernelPost ----------------------------
(* The board of main.cpp with more and less RAM (Ram's size is a byte) and *)
(* with either math ROM's file missing, which leaves a ROM of size 0.      *)
EXTENDS KernelPost

MCRamBanks == {0, 1, 3, 128, 255}
MCRomSizes == {0, 1048576}
MCStack == 1008..1023
MCVector == [ERES |-> 0, EIRQ |-> 0, ECOP |-> 0, NIRQ |-> 0, NBRK |-> 0,
             NCOP |-> 0]
=============================================================================
