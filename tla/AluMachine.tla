----------------------------- MODULE AluMachine -----------------------------
(***************************************************************************)
(* The accumulator and one operand in memory, under the arithmetic,        *)
(* logical and shift instructions in the width that the m flag selects.    *)
(*                                                                         *)
(* An operator named like TSB_NoStore is the one before the underscore     *)
(* with a plausible fault, against which the properties are tried; no      *)
(* action uses it.                                                         *)
(***************************************************************************)
EXTENDS Alu

CONSTANTS
  Words,  \* what the accumulator and the memory operand hold at first
  Flags,  \* sets of flags at first
  MAX_OPS \* bound: instructions executed

ASSUME AluMachineAssumption ==
  /\ Words \subseteq UInt16
  /\ Flags \subseteq SUBSET {"c", "z", "n", "v", "d", "m"}
  /\ MAX_OPS \in Nat

VARIABLES
  a,   \* mA
  mem, \* the two bytes the instruction addresses
  P,   \* the flags set
  ops  \* instructions executed

vars == <<a, mem, P, ops>>

Init == a \in Words /\ mem \in Words /\ P \in Flags /\ ops = 0

Narrow == "m" \in P
M      == IF Narrow THEN 256 ELSE 65536

\* An operand as the width shows it, and an operand of which this width's
\* part has become r: in 8 bits its high byte stays.
Seen(v)       == v % M
Changed(v, r) == IF Narrow THEN Word(High(v), r) ELSE r

Accumulate(res) == a' = Changed(a, res.r) /\ P' = res.P /\ UNCHANGED mem
Modify(res)     == mem' = Changed(mem, res.r) /\ P' = res.P /\ UNCHANGED a
Test(Pnext)     == P' = Pnext /\ UNCHANGED <<a, mem>>

Add      == Accumulate(ADC(P, Seen(a), Seen(mem), M))
Subtract == Accumulate(SBC(P, Seen(a), Seen(mem), M))
Compare  == Test(CMP(P, Seen(a), Seen(mem), M))

IncDec == \E by \in {1, -1} : \/ Accumulate(INCDEC(P, Seen(a), by, M))
                              \/ Modify(INCDEC(P, Seen(mem), by, M))

ShiftA   == \/ Accumulate(ASL(P, Seen(a), M)) \/ Accumulate(LSR(P, Seen(a), M))
RotateA  == \/ Accumulate(ROL(P, Seen(a), M)) \/ Accumulate(ROR(P, Seen(a), M))
ShiftMem == \/ Modify(ASL(P, Seen(mem), M)) \/ Modify(LSR(P, Seen(mem), M))
            \/ Modify(ROL(P, Seen(mem), M)) \/ Modify(ROR(P, Seen(mem), M))

\* The operators &, | and ^ of C++ on two bytes or words.
And(v, w) == Word(ByteOf(Bits(High(v)) \cap Bits(High(w))),
                  ByteOf(Bits(Low(v)) \cap Bits(Low(w))))
Or(v, w)  == Word(ByteOf(Bits(High(v)) \cup Bits(High(w))),
                  ByteOf(Bits(Low(v)) \cup Bits(Low(w))))
Xor(v, w) == Or(v, w) - And(v, w)

Logic(r) == Accumulate(Result(r, SignZero(P, r, M)))
AND == Logic(And(Seen(a), Seen(mem)))
ORA == Logic(Or(Seen(a), Seen(mem)))
EOR == Logic(Xor(Seen(a), Seen(mem)))

\* Z tells whether the two operands have no bit in common.
Disjoint == Put(P, "z", And(Seen(a), Seen(mem)) = 0)

\* BIT; the immediate form changes Z alone.
BIT == \/ Test(Put(Put(Disjoint, "n", BitSet(Seen(mem), M \div 2)),
                   "v", BitSet(Seen(mem), M \div 4)))
       \/ Test(Disjoint)

TSB_NoStore == Test(Disjoint)
TSB == Modify(Result(Or(Seen(mem), Seen(a)), Disjoint))
TRB == Modify(Result(And(Seen(mem), M - 1 - Seen(a)), Disjoint))

Instruction ==
  /\ ops < MAX_OPS /\ ops' = ops + 1
  /\ \/ Add \/ Subtract \/ Compare \/ IncDec \/ ShiftA \/ RotateA \/ ShiftMem
     \/ AND \/ ORA \/ EOR \/ BIT \/ TSB \/ TRB

\* The bound on instructions is reached.
Done == ops = MAX_OPS /\ UNCHANGED vars

Next == Instruction \/ Done

Spec == Init /\ [][Next]_vars

-----------------------------------------------------------------------------
\* A word read as a signed number and as digits.
Signed(v) == IF v >= M \div 2 THEN v - M ELSE v
Digits(v) == <<v % 16, (v \div 16) % 16, (v \div 256) % 16, v \div 4096>>
IsDecimal(v) == \A i \in 1..4 : Digits(v)[i] <= 9
Decimal(v) == Digits(v)[1] + 10 * Digits(v)[2] + 100 * Digits(v)[3]
                + 1000 * Digits(v)[4]

\* The accumulator and the memory operand hold words.
AluTypeOK ==
  /\ a \in UInt16 /\ mem \in UInt16
  /\ P \subseteq {"c", "z", "n", "v", "d", "m"}
  /\ ops \in 0..MAX_OPS

\* ADC computes a + v + c exactly: what the result loses the carry holds, and
\* V tells whether the sum of the operands as signed numbers is out of range.
AdditionIsExact ==
  LET s == BinaryADC(P, Seen(a), Seen(mem), M)
  IN /\ s.r + M * Carry(s.P) = Seen(a) + Seen(mem) + Carry(P)
     /\ "v" \in s.P <=> Signed(Seen(a)) + Signed(Seen(mem)) + Carry(P)
                          \notin -(M \div 2)..(M \div 2 - 1)

\* SBC of bytes computes a - v - (1 - c) exactly, with C clear for a borrow.
SubtractionOfBytesIsExact ==
  Narrow =>
    LET s == BinarySBC(P, Seen(a), Seen(mem), M)
    IN /\ s.r - M * (1 - Carry(s.P)) = Seen(a) - Seen(mem) - (1 - Carry(P))
       /\ "v" \in s.P <=> Signed(Seen(a)) - Signed(Seen(mem)) - (1 - Carry(P))
                            \notin -(M \div 2)..(M \div 2 - 1)

\* Decimal ADC adds decimal numbers exactly, as long as both are decimal.
DecimalAdditionIsExact ==
  IsDecimal(Seen(a)) /\ IsDecimal(Seen(mem)) =>
    LET s == DecimalADC(P, Seen(a), Seen(mem), M)
    IN /\ IsDecimal(s.r)
       /\ Decimal(s.r) + (IF Narrow THEN 100 ELSE 10000) * Carry(s.P)
            = Decimal(Seen(a)) + Decimal(Seen(mem)) + Carry(P)

\* Adding two words byte by byte, the carry of the low bytes going into the
\* high ones, gives the same word and the same carry and overflow as adding
\* them at once, binary or decimal.
AdditionOfBytesChains ==
  LET lo   == ADC(P, Low(a), Low(mem), 256)
      hi   == ADC(lo.P, High(a), High(mem), 256)
      word == ADC(P, a, mem, 65536)
  IN /\ Word(hi.r, lo.r) = word.r
     /\ hi.P \cap {"c", "v", "n"} = word.P \cap {"c", "v", "n"}

\* Outside decimal mode CMP leaves the carry, sign and zero of subtracting
\* byte by byte after SEC: of bytes, those of one SBC; of words, those of a
\* second SBC that borrows from the high bytes, and zero if both gave zero.
CompareIsSubtract ==
  LET cmp == CMP(P, Seen(a), Seen(mem), M)
      lo  == BinarySBC(P \cup {"c"}, Low(a), Low(mem), 256)
      hi  == BinarySBC(lo.P, High(a), High(mem), 256)
  IN /\ Narrow => cmp \cap {"c", "n", "z"} = lo.P \cap {"c", "n", "z"}
     /\ ~Narrow => /\ cmp \cap {"c", "n"} = hi.P \cap {"c", "n"}
                   /\ "z" \in cmp <=> lo.r = 0 /\ hi.r = 0

\* ROL and ROR undo one another, the carry included, and the bit that a shift
\* drops is the one a rotation brings back.
RotationUndone ==
  LET left  == ROL(P, Seen(a), M)
      right == ROR(P, Seen(a), M)
      half  == LSR(P, Seen(a), M)
  IN /\ ROR(left.P, left.r, M).r = Seen(a)
     /\ Carry(ROR(left.P, left.r, M).P) = Carry(P)
     /\ ROL(right.P, right.r, M).r = Seen(a)
     /\ Carry(ROL(right.P, right.r, M).P) = Carry(P)
     /\ ROL(half.P, half.r, M).r = Seen(a)

\* TSB leaves every bit of the accumulator set in memory and TRB every one
\* clear; both leave memory's other bits, and in 8 bits its high byte, as they
\* were, and tell by Z whether the two had a bit in common before.
TestBitsMask ==
  [][/\ TSB => And(mem' % M, Seen(a)) = Seen(a)
     /\ TRB => And(mem' % M, Seen(a)) = 0
     /\ TSB \/ TRB =>
          /\ And(mem' % M, M - 1 - Seen(a)) = And(Seen(mem), M - 1 - Seen(a))
          /\ Narrow => High(mem') = High(mem)
          /\ "z" \in P' <=> Seen(mem) + Seen(a) = Or(Seen(mem), Seen(a))]_vars

-----------------------------------------------------------------------------
\* OpCode_SBC.cpp:76, "Is there a borrow from the last bit, check bit 16 for
\* that": SBC of words clears C exactly when it has borrowed.
SubtractionOfWordsBorrows ==
  ~Narrow =>
    ("c" \in BinarySBC(P, a, mem, M).P <=> a >= mem + (1 - Carry(P)))
=============================================================================
