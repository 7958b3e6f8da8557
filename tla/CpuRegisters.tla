--------------------------- MODULE CpuRegisters ---------------------------
(***************************************************************************)
(* The processor running any sequence of the instructions that move values *)
(* between registers, memory and stack or change the width of registers    *)
(* (REP, SEP, XCE, and PLP with whatever byte is on the stack), with no    *)
(* interrupt and no call.                                                  *)
(***************************************************************************)
EXTENDS Cpu65816, FiniteSets

CONSTANTS
  Words,      \* operands, and bound: what a 16-bit register may hold
  MAX_HELD,   \* bound: how many of A, X, Y and D are not 0 at once
  Statuses,   \* bound: status bytes that PHP pushes
  StackLows,  \* low bytes of the stack pointer at power-on
  StackArea,  \* bound: the stack stays within these offsets
  Masks       \* operands of REP and SEP

ASSUME CpuRegistersAssumption ==
  /\ Words \subseteq UInt16 /\ 0 \in Words /\ MAX_HELD \in Nat
  /\ StackLows \subseteq UInt8 /\ StackArea \subseteq UInt16
  /\ Masks \subseteq UInt8 /\ Statuses \subseteq UInt8

VARIABLE cpu

\* The power-on values of Cpu65816.hpp and CpuStatus.hpp.
PowerOn == [A |-> 0, X |-> 0, Y |-> 0, D |-> 0, DB |-> 0, P |-> {"e"},
            pb |-> 0, pc |-> 0, sp |-> 0, ram |-> [a \in StackArea |-> 0],
            RES |-> TRUE, RDY |-> FALSE]

Init == \E low \in StackLows : cpu = Reset(PowerOn, low)

\* One instruction; where it lies plays no part here.
Do(next) ==
  /\ ~cpu.RES
  /\ cpu' = [next EXCEPT !.pc = 0]
  /\ {cpu'.A, cpu'.X, cpu'.Y, cpu'.D} \subseteq Words
  /\ Cardinality({r \in {"A", "X", "Y", "D"} : cpu'[r] # 0}) <= MAX_HELD
  /\ cpu'.sp \in StackArea

Load     == \E v \in Words :
              Do(LDA(cpu, v)) \/ Do(LDX(cpu, v)) \/ Do(LDY(cpu, v))
Count    == \E by \in {1, -1} :
              \/ Do(INCDEC_A(cpu, by))
              \/ Do(INCDEC_X(cpu, by)) \/ Do(INCDEC_Y(cpu, by))
Transfer == \/ Do(TAX(cpu)) \/ Do(TAY(cpu)) \/ Do(TXY(cpu)) \/ Do(TYX(cpu))
            \/ Do(TXA(cpu)) \/ Do(TYA(cpu)) \/ Do(TCD(cpu)) \/ Do(TDC(cpu))
            \/ Do(TSX(cpu)) \/ Do(TSC(cpu)) \/ Do(TCS(cpu)) \/ Do(TXS(cpu))
            \/ Do(XBA(cpu))
Push     == \/ \E v \in Words : Do(PEA(cpu, v)) \/ Do(PEI(cpu, v))
                                \/ Do(PER(cpu, Wrap(v - 3)))
            \/ Do(PHA(cpu)) \/ Do(PHX(cpu)) \/ Do(PHY(cpu))
            \/ Do(PHB(cpu)) \/ Do(PHD(cpu))
            \/ GetRegisterValue(cpu.P) \in Statuses /\ Do(PHP(cpu))
Pull     == \/ Do(PLA(cpu)) \/ Do(PLX(cpu)) \/ Do(PLY(cpu))
            \/ Do(PLB(cpu)) \/ Do(PLD(cpu)) \/ Do(PLP(cpu))
Mode     == \/ \E byte \in Masks : Do(REP(cpu, byte)) \/ Do(SEP(cpu, byte))
            \/ Do(SetFlag(cpu, "c")) \/ Do(ClearFlag(cpu, "c")) \/ Do(XCE(cpu))

\* The simulation has ended.
Stopped == cpu.RES /\ UNCHANGED cpu

Next == Load \/ Count \/ Transfer \/ Push \/ Pull \/ Mode \/ Do(STP(cpu))
          \/ Stopped

Spec == Init /\ [][Next]_cpu

-----------------------------------------------------------------------------
\* Every register holds a value of its width.
RegistersTypeOK ==
  /\ {cpu.A, cpu.X, cpu.Y, cpu.D, cpu.sp} \subseteq UInt16
  /\ cpu.DB \in UInt8
  /\ cpu.P \subseteq DOMAIN Weight \cup {"e"}
  /\ cpu.ram \in [StackArea -> UInt8]

\* In emulation mode the index registers are bytes, by whatever way and with
\* whatever in them the program came to that mode: the addressing modes and
\* MVN and MVP then use them as offsets.
IndexFitsEmulation == Emulation(cpu) => cpu.X < 256 /\ cpu.Y < 256

\* An accumulator of 8 bits keeps its hidden high byte, which only the four
\* instructions that always work on 16 bits may reach, and an index register
\* of 8 bits keeps its own until emulation mode clears it.
HiddenByteKept ==
  [][/\ A8(cpu) /\ High(cpu'.A) # High(cpu.A) =>
          cpu'.A \in {cpu.D, cpu.sp, Word(Low(cpu.A), High(cpu.A))}
     /\ X8(cpu) /\ ~Emulation(cpu') =>
          High(cpu'.X) = High(cpu.X) /\ High(cpu'.Y) = High(cpu.Y)]_cpu
=============================================================================
