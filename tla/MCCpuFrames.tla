---------------------------- MODULE MCCpuFrames ----------------------------
(* Instructions at the top of a bank, where the offset wraps.  The places  *)
(* of Code include both handlers and, for some BRK, JSR and JSL among      *)
(* them, the place to return to.                                           *)
EXTENDS CpuFrames

MCVector == [ERES |-> 65535, EIRQ |-> 1, ECOP |-> 1,
             NIRQ |-> 3, NBRK |-> 3, NCOP |-> 3]
MCCode == {65535, 0, 1, 3}

\* Nine bytes across the lower end of page 1, of which sp, itself among them,
\* leaves eight to be pushed: two native contexts.
MCStack == 248..256
=============================================================================
