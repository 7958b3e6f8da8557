-------------------------------- MODULE Alu --------------------------------
(***************************************************************************)
(* The arithmetic of the processor's instructions, as operators: from the  *)
(* flags P, the register or memory operand a and the other operand v, to   *)
(* the result r and the flags after.  M is the modulus of the width that   *)
(* the m or x flag selects: 256 or 65536.  The source has each handler     *)
(* twice, once per width; where the two differ in more than their          *)
(* constants the operator says so.                                         *)
(*                                                                         *)
(* An operator named like CMP_Greater is the one before the underscore     *)
(* with a plausible fault, against which the properties are tried; no      *)
(* action uses it.                                                         *)
(***************************************************************************)
EXTENDS Integers

UINT8_MAX  == 255
UINT16_MAX == 65535
UInt8  == 0..UINT8_MAX
UInt16 == 0..UINT16_MAX

Low(v)       == v % 256
High(v)      == v \div 256
Word(hi, lo) == 256 * hi + lo

\* Bit w (a power of two) of n in two's complement.
BitSet(n, w) == (n \div w) % 2 = 1

\* The bits of a byte that are 1, each by its weight, and back.
Bits(byte) == {w \in {1, 2, 4, 8, 16, 32, 64, 128} : (byte \div w) % 2 = 1}
ByteOf(bits) ==
  LET Bit(w) == IF w \in bits THEN w ELSE 0
  IN Bit(1) + Bit(2) + Bit(4) + Bit(8) + Bit(16) + Bit(32) + Bit(64) + Bit(128)

Carry(P) == IF "c" \in P THEN 1 ELSE 0

\* P with the flag f as on says.
Put(P, f, on) == IF on THEN P \cup {f} ELSE P \ {f}

\* updateSignAndZeroFlagFrom8BitValue and ...From16BitValue.
SignZero(P, r, M) == Put(Put(P, "n", r >= M \div 2), "z", r = 0)

Result(r, P) == [r |-> r, P |-> P]

-----------------------------------------------------------------------------
(* Binary addition and subtraction.                                        *)

\* execute8BitADC, execute16BitADC: the overflow is that of the last carry
\* and of the one into the sign bit, found by a second, shorter sum.
BinaryADC_OneCarry(P, a, v, M) ==
  LET sum     == a + v + Carry(P)
      partial == (a % (M \div 2)) + (v % (M \div 2)) + Carry(P)
  IN Result(sum % M,
       SignZero(Put(Put(P, "v", partial >= M \div 2), "c", sum >= M),
                sum % M, M))
BinaryADC(P, a, v, M) ==
  LET sum     == a + v + Carry(P)
      partial == (a % (M \div 2)) + (v % (M \div 2)) + Carry(P)
      last    == sum >= M
  IN Result(sum % M,
       SignZero(Put(Put(P, "v", last # (partial >= M \div 2)), "c", last),
                sum % M, M))

\* execute8BitSBC, execute16BitSBC: both look at bit 8 of the difference and
\* at bit 7 of the shorter one.
BinarySBC_CarryAsBorrow(P, a, v, M) ==
  LET diff    == a - v - Carry(P)
      partial == (a % (M \div 2)) - (v % (M \div 2)) - Carry(P)
      last    == BitSet(diff, 256)
  IN Result(diff % M,
       SignZero(Put(Put(P, "v", last # BitSet(partial, 128)), "c", ~last),
                diff % M, M))
BinarySBC(P, a, v, M) ==
  LET diff    == a - v - (1 - Carry(P))
      partial == (a % (M \div 2)) - (v % (M \div 2)) - (1 - Carry(P))
      last    == BitSet(diff, 256)
  IN Result(diff % M,
       SignZero(Put(Put(P, "v", last # BitSet(partial, 128)), "c", ~last),
                diff % M, M))

-----------------------------------------------------------------------------
(* Decimal addition and subtraction (Binary.cpp), digit by digit; x and y  *)
(* are the operands, c the carry or borrow.                                *)

Chained(x, c) == [x |-> x, c |-> c]

DigitSum_TenStays(x, y, c) ==
  LET sum == x + y + c
  IN IF sum > 10 THEN Chained((sum + 6) % 16, 1) ELSE Chained(sum, 0)
DigitSum(x, y, c) ==
  LET sum == x + y + c
  IN IF sum > 9 THEN Chained((sum + 6) % 16, 1) ELSE Chained(sum, 0)

\* The difference is an unsigned byte: below zero it is large.
DigitDifference(x, y, b) ==
  LET diff == (x - y - b) % 256
  IN IF diff > 9 THEN Chained((diff - 6) % 16, 1) ELSE Chained(diff, 0)

BcdSum8(x, y, c) ==
  LET lo == DigitSum(x % 16, y % 16, c)
      hi == DigitSum(x \div 16, y \div 16, lo.c)
  IN Chained(16 * hi.x + lo.x, hi.c)

BcdSubtract8(x, y, b) ==
  LET lo == DigitDifference(x % 16, y % 16, b)
      hi == DigitDifference(x \div 16, y \div 16, lo.c)
  IN Chained(16 * hi.x + lo.x, hi.c)

BcdSum_BytesApart(x, y, c, M) ==
  IF M = 256 THEN BcdSum8(x, y, c)
  ELSE LET lo == BcdSum8(Low(x), Low(y), c)
           hi == BcdSum8(High(x), High(y), 0)
       IN Chained(Word(hi.x, lo.x), hi.c)
BcdSum(x, y, c, M) ==
  IF M = 256 THEN BcdSum8(x, y, c)
  ELSE LET lo == BcdSum8(Low(x), Low(y), c)
           hi == BcdSum8(High(x), High(y), lo.c)
       IN Chained(Word(hi.x, lo.x), hi.c)

BcdSubtract(x, y, b, M) ==
  IF M = 256 THEN BcdSubtract8(x, y, b)
  ELSE LET lo == BcdSubtract8(Low(x), Low(y), b)
           hi == BcdSubtract8(High(x), High(y), lo.c)
       IN Chained(Word(hi.x, lo.x), hi.c)

\* execute8BitBCDADC, execute16BitBCDADC; v is left as it is.
DecimalADC(P, a, v, M) ==
  LET sum == BcdSum(v, a, Carry(P), M)
  IN Result(sum.x, SignZero(Put(P, "c", sum.c = 1), sum.x, M))

\* execute8BitBCDSBC, execute16BitBCDSBC: the accumulator is subtracted from
\* the operand.
DecimalSBC(P, a, v, M) ==
  LET diff == BcdSubtract(v, a, 1 - Carry(P), M)
  IN Result(diff.x, SignZero(Put(P, "c", diff.c = 0), diff.x, M))

\* executeADC, executeSBC.
ADC(P, a, v, M) ==
  IF "d" \in P THEN DecimalADC(P, a, v, M) ELSE BinaryADC(P, a, v, M)
SBC(P, a, v, M) ==
  IF "d" \in P THEN DecimalSBC(P, a, v, M) ELSE BinarySBC(P, a, v, M)

-----------------------------------------------------------------------------
\* CMP, CPX and CPY: only the flags.
CMP_Greater(P, a, v, M) == SignZero(Put(P, "c", a > v), (a - v) % M, M)
CMP(P, a, v, M) == SignZero(Put(P, "c", a >= v), (a - v) % M, M)

\* INC, INX, INY with by 1, DEC, DEX, DEY with by -1.
INCDEC(P, a, by, M) == Result((a + by) % M, SignZero(P, (a + by) % M, M))

\* The shifts and rotations: in is the bit shifted in.
ShiftLeft_NoMask(P, a, in, M) ==
  Result(2 * a + in, SignZero(Put(P, "c", a >= M \div 2), 2 * a + in, M))
ShiftLeft(P, a, in, M) ==
  LET r == ((2 * a) % M) + in
  IN Result(r, SignZero(Put(P, "c", a >= M \div 2), r, M))
ShiftRight_IntoBit7(P, a, in, M) ==
  LET r == (a \div 2) + in * 128
  IN Result(r, SignZero(Put(P, "c", a % 2 = 1), r, M))
ShiftRight(P, a, in, M) ==
  LET r == (a \div 2) + in * (M \div 2)
  IN Result(r, SignZero(Put(P, "c", a % 2 = 1), r, M))

ASL(P, a, M) == ShiftLeft(P, a, 0, M)
ROL(P, a, M) == ShiftLeft(P, a, Carry(P), M)
LSR(P, a, M) == ShiftRight(P, a, 0, M)
ROR(P, a, M) == ShiftRight(P, a, Carry(P), M)
=============================================================================
