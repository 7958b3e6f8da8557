--------------------------- MODULE MCKernelSerial ---------------------------
(* The kernel's constants, two short messages and a keyboard that may      *)
(* deliver one of two keys, or none, whenever it is polled.                *)
EXTENDS KernelSerial

MCMessages == << <<72, 105>>, <<33>> >>
MCClocks   == {-50, 0, 20}
=============================================================================
