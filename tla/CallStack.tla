----------------------------- MODULE CallStack -----------------------------
(***************************************************************************)
(* What the processor promises a program that keeps its stack in order:    *)
(* subroutine calls and interrupts nest, each returns to the instruction   *)
(* after the call or to the one interrupted, an interrupt also with the    *)
(* status of then, and nothing done in between alters what was saved.      *)
(***************************************************************************)
EXTENDS Integers, Sequences, SequencesExt

CONSTANT Handler \* the address of the IRQ handler, by mode

VARIABLES
  bank, offset, \* where the program is
  mode,         \* "emulation" or "native"
  status,       \* the flags the status byte carries in that mode
  frames        \* calls and interrupts not returned from, innermost last

vars == <<bank, offset, mode, status, frames>>

Init == frames = <<>>

Saved(k, b, o, s) ==
  [kind |-> k, bank |-> b, return |-> o % 65536, status |-> s]

\* A frame of interrupt saves the bank in native mode only.
Context(b, o, s) == Saved(mode, IF mode = "native" THEN b ELSE 0, o, s)

\* The instruction at <<b, o>>, executed with the status s and frames fs,
\* calls: a near call saves no bank; BRK marks the status it saves.
Call(b, o, s, fs) ==
  \/ /\ bank' = b
     /\ frames' = Append(fs, Saved("jsr", 0, o + 3, {}))
  \/ frames' = Append(fs, Saved("jsl", b, o + 4, {}))
  \/ /\ bank' = 0
     /\ \/ status' = (s \cup {"i"}) \ {"d"}
        \/ status' = (s \cup {"i", "b"}) \ {"d"}
     /\ \E saved \in {s, s \cup {"b"}} :
          frames' = Append(fs, Context(b, o + 2, saved))

\* It returns: everything saved is taken back.
Return(b, fs) ==
  /\ fs # <<>>
  /\ frames' = Front(fs)
  /\ offset' = Last(fs).return
  /\ bank' = IF Last(fs).kind \in {"jsl", "native"} THEN Last(fs).bank ELSE b
  /\ Last(fs).kind \in {"emulation", "native"} => status' = Last(fs).status

\* It does anything else.
Run(fs) == frames' = fs

Execute(b, o, s, fs) ==
  \/ Run(fs)
  \/ /\ mode' = mode
     /\ Call(b, o, s, fs) \/ Return(b, fs)

\* An interrupt, when it is not masked, comes before the instruction and
\* masks the next one.
Interrupt ==
  /\ "i" \notin status
  /\ Execute(0, Handler[mode], (status \cup {"i"}) \ {"d"},
             Append(frames, Context(bank, offset, status)))

Next == Execute(bank, offset, status, frames) \/ Interrupt

Spec == Init /\ [][Next]_vars
=============================================================================
