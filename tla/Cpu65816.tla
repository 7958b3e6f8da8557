------------------------------ MODULE Cpu65816 ------------------------------
(***************************************************************************)
(* The 65C816 of the simulator (Cpu65816.cpp, CpuStatus.cpp, Stack.cpp and *)
(* the OpCode_*.cpp files), as far as control and registers go.  The       *)
(* processor is a record c; the handler of an instruction is an operator   *)
(* from processor to processor, so that an interrupt's entry and the first *)
(* instruction of its handler compose as they do in one call of            *)
(* executeNextInstruction.  Operands fetched from memory are parameters;   *)
(* cycles are left out.                                                    *)
(*                                                                         *)
(*   A X Y D DB  registers                P   the flags that are set, by   *)
(*   pb, pc      program bank, offset         the letters of CpuStatus.cpp *)
(*   sp          stack pointer            ram what the stack area holds    *)
(*   RES, RDY    input pins                                                *)
(*                                                                         *)
(* An operator named like XCE_KeepsIndex is the one before the underscore  *)
(* with a plausible fault, against which the properties are tried; no      *)
(* action uses it.                                                         *)
(***************************************************************************)
EXTENDS Alu, Sequences

CONSTANTS
  PULL_LOW_FIRST, \* pull16Bit reads its low byte first: C++ leaves the order
                  \* in which the two operands of | are evaluated to the build
  Vector          \* what the kernel ROM holds at the vector addresses

ASSUME CpuAssumption ==
  /\ PULL_LOW_FIRST \in BOOLEAN
  /\ Vector \in [{"ERES", "EIRQ", "ECOP", "NIRQ", "NBRK", "NCOP"} -> UInt16]

\* An offset within a bank.
Wrap(v) == v % 65536

-----------------------------------------------------------------------------
(* CpuStatus                                                               *)

Emulation(c) == "e" \in c.P
A8(c)        == Emulation(c) \/ "m" \in c.P
X8(c)        == Emulation(c) \/ "x" \in c.P

Weight == [c |-> 1, z |-> 2, i |-> 4, d |-> 8, b |-> 16, x |-> 16, m |-> 32,
           v |-> 64, n |-> 128]

\* The flags that the status byte carries in the mode P selects.
Carried(P) == {"c", "z", "i", "d", "v", "n"} \cup
              (IF "e" \in P THEN {"b"} ELSE {"x", "m"})

StatusBits(P)       == {Weight[f] : f \in P \cap Carried(P)}
GetRegisterValue(P) == ByteOf(StatusBits(P))

\* setRegisterValue: in emulation mode m is cleared, and x stays.
SetRegisterBits_DropsWidth(P, bits) ==
  {f \in Carried(P) : Weight[f] \in bits} \cup (P \cap {"e", "b"})
SetRegisterBits(P, bits) ==
  {f \in Carried(P) : Weight[f] \in bits}
    \cup (P \cap (IF "e" \in P THEN {"e", "x"} ELSE {"b"}))
SetRegisterValue(P, byte) == SetRegisterBits(P, Bits(byte))

Update8(P, v)  == SignZero(P, v, 256)
Update16(P, v) == SignZero(P, v, 65536)

-----------------------------------------------------------------------------
(* Stack.  A store outside the stack area is not seen by any pull.         *)

Push8(c, v) ==
  [c EXCEPT !.ram = IF c.sp \in DOMAIN @ THEN [@ EXCEPT ![c.sp] = v] ELSE @,
            !.sp = Wrap(@ - 1)]
Push16(c, v) == Push8(Push8(c, High(v)), Low(v))

\* The byte n places above the stack pointer.
Peek(c, n) == LET at == Wrap(c.sp + n)
              IN IF at \in DOMAIN c.ram THEN c.ram[at] ELSE 0
Peek16(c, n) == IF PULL_LOW_FIRST THEN Word(Peek(c, n + 1), Peek(c, n))
                                  ELSE Word(Peek(c, n), Peek(c, n + 1))
Drop(c, n) == [c EXCEPT !.sp = Wrap(@ + n)]

SetEmulation(sp) == Word(1, Low(sp))

Advance(c, n) == [c EXCEPT !.pc = Wrap(@ + n)]

-----------------------------------------------------------------------------
(* Cpu65816: reset, and the interrupt that executeNextInstruction enters   *)
(* before it fetches.                                                      *)

\* reset(), called when the RES pin is lowered.  The new Stack keeps the low
\* byte of an Address that no constructor has set: sp is any word of page 1.
Reset(c, low) ==
  [c EXCEPT !.P = @ \cup {"e", "m", "x"}, !.X = Low(@), !.Y = Low(@), !.D = 0,
            !.sp = SetEmulation(low), !.pb = 0, !.pc = Vector["ERES"],
            !.RES = FALSE]

PushContext(c, return) ==
  Push8(Push16(IF Emulation(c) THEN c ELSE Push8(c, c.pb), Wrap(return)),
        GetRegisterValue(c.P))
EnterHandler(c, emulation, native) ==
  [c EXCEPT !.P = (@ \cup {"i"}) \ {"d"}, !.pb = 0,
            !.pc = Vector[IF Emulation(c) THEN emulation ELSE native]]

IrqTaken(c, irq) == irq /\ "i" \notin c.P
Fetch(c, irq) ==
  IF IrqTaken(c, irq)
  THEN EnterHandler(PushContext(c, c.pc), "EIRQ", "NIRQ") ELSE c

-----------------------------------------------------------------------------
(* OpCode_Interrupt.cpp                                                    *)

BRK(c) ==
  LET marked == IF Emulation(c) THEN [c EXCEPT !.P = @ \cup {"b"}] ELSE c
  IN EnterHandler(PushContext(marked, c.pc + 2), "EIRQ", "NBRK")

COP(c) == EnterHandler(PushContext(c, c.pc + 2), "ECOP", "NCOP")

\* The mode is the one after the status byte is restored, which cannot
\* change it.
RTI_AlwaysFour(c) ==
  [Drop(c, 4) EXCEPT !.P = SetRegisterValue(@, Peek(c, 1)),
                     !.pc = Peek16(c, 2), !.pb = Peek(c, 4)]
RTI(c) ==
  [Drop(c, IF Emulation(c) THEN 3 ELSE 4) EXCEPT
     !.P = SetRegisterValue(@, Peek(c, 1)),
     !.pc = Peek16(c, 2),
     !.pb = IF Emulation(c) THEN @ ELSE Peek(c, 4)]

(* OpCode_JumpReturn.cpp; to is the offset, bank the bank of the target.   *)

JSR(c, to)       == [Push16(c, Wrap(c.pc + 2)) EXCEPT !.pc = to]
JSL(c, bank, to) == [Push16(Push8(c, c.pb), Wrap(c.pc + 3)) EXCEPT
                       !.pb = bank, !.pc = to]
JMP(c, bank, to) == [c EXCEPT !.pb = bank, !.pc = to]
RTS_NoIncrement(c) == [Drop(c, 2) EXCEPT !.pc = Peek16(c, 1)]
RTS(c) == [Drop(c, 2) EXCEPT !.pc = Wrap(Peek16(c, 1) + 1)]
RTL(c) == [Drop(c, 3) EXCEPT !.pc = Wrap(Peek16(c, 1) + 1), !.pb = Peek(c, 3)]

(* OpCode_StatusReg.cpp                                                    *)

REP(c, byte) ==
  Advance([c EXCEPT !.P = SetRegisterBits(@, StatusBits(@) \ Bits(byte))], 2)

\* In emulation mode bits 4 and 5 of the operand are ignored.
SEP(c, byte) ==
  LET bits == IF Emulation(c) THEN Bits(byte) \ {16, 32} ELSE Bits(byte)
  IN Advance([c EXCEPT !.P = SetRegisterBits(@, StatusBits(@) \cup bits)], 2)

\* SEC, SED, SEI and CLC, CLD, CLI, CLV.
SetFlag(c, f)   == Advance([c EXCEPT !.P = @ \cup {f}], 1)
ClearFlag(c, f) == Advance([c EXCEPT !.P = @ \ {f}], 1)

XCE_KeepsIndex(c) ==
  LET P == (c.P \ {"c", "e"}) \cup (IF "c" \in c.P THEN {"e"} ELSE {})
                              \cup (IF Emulation(c) THEN {"c"} ELSE {})
  IN Advance(IF "e" \in P
             THEN [c EXCEPT !.P = P \cup {"m", "x"}, !.sp = SetEmulation(@)]
             ELSE [c EXCEPT !.P = P], 1)
XCE(c) ==
  LET P == (c.P \ {"c", "e"}) \cup (IF "c" \in c.P THEN {"e"} ELSE {})
                              \cup (IF Emulation(c) THEN {"c"} ELSE {})
  IN Advance(IF "e" \in P
             THEN [c EXCEPT !.P = P \cup {"m", "x"}, !.X = Low(@), !.Y = Low(@),
                            !.sp = SetEmulation(@)]
             ELSE [c EXCEPT !.P = P], 1)

-----------------------------------------------------------------------------
(* OpCode_Stack.cpp                                                        *)

PEA(c, v) == Advance(Push16(c, v), 3)
PEI(c, v) == Advance(Push16(c, v), 2)
PER(c, v) == Advance(Push16(c, Wrap(v + 3 + c.pc)), 3)

PHA(c) == Advance(IF A8(c) THEN Push8(c, Low(c.A)) ELSE Push16(c, c.A), 1)
PHX_WholeRegister(c) ==
  Advance(IF X8(c) THEN Push8(c, c.X) ELSE Push16(c, c.X), 1)
PHX(c) == Advance(IF X8(c) THEN Push8(c, Low(c.X)) ELSE Push16(c, c.X), 1)
PHY(c) == Advance(IF X8(c) THEN Push8(c, Low(c.Y)) ELSE Push16(c, c.Y), 1)
PHB(c) == Advance(Push8(c, c.DB), 1)
PHD(c) == Advance(Push16(c, c.D), 1)
PHK(c) == Advance(Push8(c, c.pb), 1)
PHP(c) == Advance(Push8(c, GetRegisterValue(c.P)), 1)

\* A value v put into register r ("A", "X" or "Y"), 8 bits or 16 wide.
LoadReg_ClearsHigh(c, r, narrow, v) ==
  [c EXCEPT ![r] = IF narrow THEN Low(v) ELSE v,
            !.P = IF narrow THEN Update8(@, Low(v)) ELSE Update16(@, v)]
LoadReg(c, r, narrow, v) ==
  IF narrow
  THEN [c EXCEPT ![r] = Word(High(@), Low(v)), !.P = Update8(@, Low(v))]
  ELSE [c EXCEPT ![r] = v, !.P = Update16(@, v)]

PullReg(c, r, narrow) ==
  Advance(LoadReg(Drop(c, IF narrow THEN 1 ELSE 2), r, narrow,
                  IF narrow THEN Peek(c, 1) ELSE Peek16(c, 1)), 1)
PLA(c) == PullReg(c, "A", A8(c))
PLX(c) == PullReg(c, "X", X8(c))
PLY(c) == PullReg(c, "Y", X8(c))
PLB(c) == Advance([Drop(c, 1) EXCEPT !.DB = Peek(c, 1),
                                     !.P = Update8(@, Peek(c, 1))], 1)
PLD(c) == Advance([Drop(c, 2) EXCEPT !.D = Peek16(c, 1),
                                     !.P = Update16(@, Peek16(c, 1))], 1)
PLP(c) == Advance([Drop(c, 1) EXCEPT !.P = SetRegisterValue(@, Peek(c, 1))], 1)

-----------------------------------------------------------------------------
(* OpCode_LDA, LDX, LDY: the immediate forms, one byte longer for a word.  *)

LDA(c, v) == Advance(LoadReg(c, "A", A8(c), v), IF A8(c) THEN 2 ELSE 3)
LDX(c, v) == Advance(LoadReg(c, "X", X8(c), v), IF X8(c) THEN 2 ELSE 3)
LDY(c, v) == Advance(LoadReg(c, "Y", X8(c), v), IF X8(c) THEN 2 ELSE 3)

(* OpCode_INC_DEC.cpp, on registers: by is 1 or -1.                        *)

Step(c, r, narrow, by) == Advance(LoadReg(c, r, narrow, Wrap(c[r] + by)), 1)
INCDEC_A(c, by) == Step(c, "A", A8(c), by)
INCDEC_X(c, by) == Step(c, "X", X8(c), by)
INCDEC_Y(c, by) == Step(c, "Y", X8(c), by)

(* OpCode_Transfer.cpp                                                     *)

TAX(c) == Advance(LoadReg(c, "X", X8(c), c.A), 1)
TAY(c) == Advance(LoadReg(c, "Y", X8(c), c.A), 1)
TXY(c) == Advance(LoadReg(c, "Y", X8(c), c.X), 1)
TYX(c) == Advance(LoadReg(c, "X", X8(c), c.Y), 1)
TSX(c) == Advance(LoadReg(c, "X", X8(c), c.sp), 1)

\* TXA and TYA: a narrow index fills a wide accumulator's high byte with
\* zero, and the flags are those of the byte.
IndexToA(c, v) ==
  Advance(IF ~A8(c) /\ X8(c)
          THEN [c EXCEPT !.A = Low(v), !.P = Update8(@, Low(v))]
          ELSE LoadReg(c, "A", A8(c), v), 1)
TXA(c) == IndexToA(c, c.X)
TYA(c) == IndexToA(c, c.Y)

TCD(c) == Advance([c EXCEPT !.D = c.A, !.P = Update16(@, c.A)], 1)
TDC(c) == Advance(LoadReg(c, "A", FALSE, c.D), 1)
TSC(c) == Advance(LoadReg(c, "A", FALSE, c.sp), 1)
TCS(c) == Advance([c EXCEPT !.sp = IF Emulation(c)
                                   THEN Word(High(@), Low(c.A)) ELSE c.A], 1)
TXS(c) == Advance([c EXCEPT !.sp = IF Emulation(c) THEN SetEmulation(c.X)
                                   ELSE IF X8(c) THEN Low(c.X) ELSE c.X], 1)

(* OpCode_Misc.cpp, without the block moves.                               *)

XBA(c) == Advance([c EXCEPT !.A = Word(Low(@), High(@)),
                            !.P = Update8(@, High(c.A))], 1)
STP(c) == [Advance(c, 1) EXCEPT !.RES = TRUE]
WDM(c) == Advance(c, 2)
NOP(c) == Advance(c, 1)

\* The opcode table gives WAI no executor: its handler is never called and
\* the program address stays where it is.
WAI(c) == c
=============================================================================
