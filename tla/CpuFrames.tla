----------------------------- MODULE CpuFrames -----------------------------
(***************************************************************************)
(* The processor running a program that calls subroutines, saves registers *)
(* on the stack and switches modes, while a device raises and lowers the   *)
(* IRQ pin between any two instructions.  The program is any sequence of   *)
(* instructions that keeps its stack in order: it pulls only what it has   *)
(* pushed since the last call, leaves a frame by the instruction that      *)
(* belongs to it, in the mode that made it, and switches modes only where  *)
(* that leaves the stack pointer alone.                                    *)
(***************************************************************************)
EXTENDS Cpu65816, SequencesExt

CONSTANTS
  StackLows, \* low bytes of the stack pointer at power-on
  StackArea, \* bound: the stack stays within these offsets
  MAX_SAVED, \* bound: frames not left, and bytes pushed and not pulled
  Code,      \* bound: instructions lie at these offsets
  Banks      \* of these banks

\* The stack area has no gaps, the stack starts in it, and the two contexts
\* that one step may push onto it do not reach below offset 0.
ASSUME CpuFramesAssumption ==
  /\ StackLows \subseteq UInt8
  /\ StackArea \subseteq UInt16 /\ MAX_SAVED \in Nat
  /\ \A a, b \in StackArea : a..b \subseteq StackArea
  /\ \A low \in StackLows : SetEmulation(low) \in StackArea
  /\ \A a \in StackArea : a >= 8
  /\ Code \subseteq UInt16
  /\ Banks \subseteq UInt8 /\ 0 \in Banks

VARIABLES
  cpu,
  frames \* history: the kind of every frame and where on the stack it begins

vars == <<cpu, frames>>

\* The power-on values of Cpu65816.hpp and CpuStatus.hpp.
PowerOn == [A |-> 0, X |-> 0, Y |-> 0, D |-> 0, DB |-> 0, P |-> {"e"},
            pb |-> 0, pc |-> 0, sp |-> 0, ram |-> [a \in StackArea |-> 0],
            RES |-> TRUE, RDY |-> FALSE]

Init ==
  /\ \E low \in StackLows : cpu = Reset(PowerOn, low)
  /\ frames = <<>>

-----------------------------------------------------------------------------
Mode(c) == IF Emulation(c) THEN "emulation" ELSE "native"
Frame(kind, sp) == [kind |-> kind, sp |-> sp]

\* The frames when the instruction is fetched.
Entered(irq) ==
  IF IrqTaken(cpu, irq) THEN Append(frames, Frame(Mode(cpu), cpu.sp))
                        ELSE frames

Size == [jsr |-> 2, jsl |-> 3, emulation |-> 3, native |-> 4]

\* Up to where the program may pull: what it pushed since the last frame.
InitialSp == SetEmulation(CHOOSE low \in StackLows : TRUE)
Floor(fs) == IF fs = <<>> THEN InitialSp ELSE Last(fs).sp - Size[Last(fs).kind]

\* The bytes that the program has pushed, with the stack pointer at sp, and
\* not pulled.
Pushed(fs, sp) == FoldLeft(LAMBDA n, f : n - Size[f.kind], InitialSp - sp, fs)

\* What is left below the stack pointer is shown as 0: this program pushes
\* over it before it pulls, so that nothing depends on it.
Live(c) == [c EXCEPT !.ram = [a \in StackArea |-> IF a > c.sp THEN @[a] ELSE 0]]

\* What one instruction, fetched with the processor now and the frames fs,
\* leaves.
Do(next, fs) ==
  /\ cpu' = Live(next) /\ frames' = fs
  /\ Pushed(fs, cpu'.sp) + Len(fs) <= MAX_SAVED
  /\ cpu'.sp \in StackArea /\ cpu'.pc \in Code /\ cpu'.pb \in Banks

Call(kind, now, next, fs) == Do(next, Append(fs, Frame(kind, now.sp)))
Return(kind, now, next, fs) ==
  /\ fs # <<>> /\ Last(fs).kind = kind /\ now.sp = Floor(fs)
  /\ Do(next, Front(fs))

Push(now, fs) == Do(PHK(now), fs) \/ Do(PHP(now), fs)
Pull(now, fs) == now.sp < Floor(fs) /\ Do(PLP(now), fs)
Jump(now, fs) ==
  \E bank \in Banks, to \in Code :
    \/ bank = now.pb /\ Do(JMP(now, bank, to), fs)
    \/ bank = now.pb /\ Call("jsr", now, JSR(now, to), fs)
    \/ bank # now.pb /\ Call("jsl", now, JSL(now, bank, to), fs)
Software(now, fs) == \/ Call(Mode(now), now, BRK(now), fs)
                     \/ Call(Mode(now), now, COP(now), fs)
Leave(now, fs) == \/ Return("jsr", now, RTS(now), fs)
                  \/ Return("jsl", now, RTL(now), fs)
                  \/ Return(Mode(now), now, RTI(now), fs)
Mask(now, fs) == Do(SetFlag(now, "i"), fs) \/ Do(ClearFlag(now, "i"), fs)
Switch(now, fs) == XCE(now).sp = now.sp /\ Do(XCE(now), fs)
Idle(now, fs) == \/ Do(NOP(now), fs) \/ Do(WDM(now), fs)
                 \/ Do(WAI(now), fs)

\* executeNextInstruction, with the IRQ pin as irq.
ExecuteNextInstruction(irq) ==
  LET now == Fetch(cpu, irq)
      fs  == Entered(irq)
  IN \/ Push(now, fs) \/ Pull(now, fs) \/ Jump(now, fs) \/ Software(now, fs)
     \/ Leave(now, fs) \/ Mask(now, fs) \/ Switch(now, fs) \/ Idle(now, fs)

Next == \E irq \in BOOLEAN : ExecuteNextInstruction(irq)

Spec == Init /\ [][Next]_vars

-----------------------------------------------------------------------------
\* Every register holds a value of its width, and every frame lies within
\* the stack, below the ones outside it.
FramesTypeOK ==
  /\ {cpu.A, cpu.X, cpu.Y, cpu.D, cpu.pc, cpu.sp} \subseteq UInt16
  /\ {cpu.DB, cpu.pb} \subseteq UInt8
  /\ cpu.P \subseteq DOMAIN Weight \cup {"e"}
  /\ cpu.ram \in [StackArea -> UInt8]
  /\ \A i \in DOMAIN frames :
       cpu.sp <= frames[i].sp - Size[frames[i].kind]

\* PHP, or an interrupt, and then PLP or RTI in the same mode give back every
\* flag, save that emulation mode loses m, and keeps b and x apart although
\* they share a bit.
StatusSurvivesStack ==
  SetRegisterValue(cpu.P, GetRegisterValue(cpu.P)) =
    cpu.P \ (IF Emulation(cpu) THEN {"m"} ELSE {})

\* What the stack memory holds of a frame, and of all of them.
Decode(ram, f) ==
  LET At(n) == ram[f.sp - n]
      Flags(P, byte) == {g \in Carried(P) : Weight[g] \in Bits(byte)}
      Saved(bank, return, status) ==
        [kind |-> f.kind, bank |-> bank, return |-> return, status |-> status]
  IN CASE f.kind = "jsr" -> Saved(0, Wrap(Word(At(0), At(1)) + 1), {})
       [] f.kind = "jsl" -> Saved(At(0), Wrap(Word(At(1), At(2)) + 1), {})
       [] f.kind = "emulation" ->
            Saved(0, Word(At(0), At(1)), Flags({"e"}, At(2)))
       [] f.kind = "native" ->
            Saved(At(0), Word(At(1), At(2)), Flags({}, At(3)))
DecodeAll(ram, fs) == [i \in DOMAIN fs |-> Decode(ram, fs[i])]

Calls == INSTANCE CallStack WITH
  Handler <- [emulation |-> Vector["EIRQ"], native |-> Vector["NIRQ"]],
  bank <- cpu.pb, offset <- cpu.pc, mode <- Mode(cpu),
  status <- cpu.P \cap Carried(cpu.P),
  frames <- DecodeAll(cpu.ram, frames)

\* Whatever interrupts come, every RTS, RTL and RTI finds on the stack what
\* the call or interrupt put there, and resumes at the right instruction, in
\* the right bank and with the right flags.
CallStackSpec == Calls!Spec

=============================================================================
