--------------------------- MODULE SerialConsole ---------------------------
(***************************************************************************)
(* What the kernel's boot promises whoever watches the terminal: either    *)
(* the serial line fails its test and nothing is ever printed, or the      *)
(* messages are printed one after the other, every character once and in   *)
(* order, and the boot goes on only when a message is complete.            *)
(***************************************************************************)
EXTENDS Integers, Sequences

CONSTANT Messages

VARIABLES
  status, \* "post", "printing", "idle", "failed" or "finished"
  call,   \* how many messages have been started
  line    \* what the current message has put on the terminal

vars == <<status, call, line>>

Init == status = "post" /\ call = 0 /\ line = <<>>

Fail == status = "post" /\ status' = "failed" /\ UNCHANGED <<call, line>>

Begin ==
  /\ status \in {"post", "idle"}
  /\ call < Len(Messages)
  /\ status' = "printing"
  /\ call' = call + 1
  /\ line' = <<>>

ShowChar ==
  /\ status = "printing"
  /\ Len(line) < Len(Messages[call])
  /\ line' = Append(line, Messages[call][Len(line) + 1])
  /\ UNCHANGED <<status, call>>

Return ==
  /\ status = "printing"
  /\ line = Messages[call]
  /\ status' = "idle"
  /\ UNCHANGED <<call, line>>

Finish ==
  /\ status = "idle"
  /\ call = Len(Messages)
  /\ status' = "finished"
  /\ UNCHANGED <<call, line>>

Next == Fail \/ Begin \/ ShowChar \/ Return \/ Finish

\* The boot comes to an end.
Spec == Init /\ [][Next]_vars /\ WF_vars(Next)
=============================================================================
