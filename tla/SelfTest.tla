------------------------------ MODULE SelfTest ------------------------------
(***************************************************************************)
(* What the power-on self-test promises its user: it ends, having found    *)
(* the board sound or not, and before it calls a board ready it has told   *)
(* how many banks of high RAM there are.                                   *)
(***************************************************************************)
CONSTANT None  \* nothing reported yet

VARIABLES
  sound,    \* whether the board passes
  banks,    \* how many banks of high RAM it has
  reported, \* what the user was told of them
  verdict   \* "testing", "ready" or "failed"

testVars == <<sound, banks, reported, verdict>>

TestInit == verdict = "testing" /\ reported = None

Report ==
  /\ verdict = "testing" /\ reported = None
  /\ reported' = banks
  /\ UNCHANGED <<sound, banks, verdict>>

Conclude ==
  /\ verdict = "testing"
  /\ sound => reported # None
  /\ verdict' = IF sound THEN "ready" ELSE "failed"
  /\ UNCHANGED <<sound, banks, reported>>

TestNext == Report \/ Conclude
TestSpec == TestInit /\ [][TestNext]_testVars /\ WF_testVars(TestNext)
=============================================================================
