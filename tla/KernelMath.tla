----------------------------- MODULE KernelMath -----------------------------
(***************************************************************************)
(* The kernel prints a 32-bit number in decimal (kernel/math.s, and its    *)
(* use for the free RAM in kernel/dt65pc.s): m_ul2a copies the number to   *)
(* temp, m_ultemp2bcd doubles it into the scratchpad bit by bit in decimal *)
(* mode, m_b2a turns the scratchpad into characters, and the caller skips  *)
(* the leading zeros.  The instructions are those of Alu; the accumulator  *)
(* is 16 bits wide except in m_b2a.                                        *)
(*                                                                         *)
(* An operator named like XDigit_NineIsLetter is the one before the        *)
(* underscore with a plausible fault, against which the properties are     *)
(* tried; no action uses it.                                               *)
(***************************************************************************)
EXTENDS Alu, Sequences

CONSTANT Numbers \* the numbers printed, as pairs of words, high word first

ASSUME KernelMathAssumption == Numbers \subseteq UInt16 \X UInt16

VARIABLES
  pc,
  number,  \* the argument on the stack
  temp,    \* k_zero::temp, as a pair of words, high word first
  scratch, \* k_zero::scratch, three words, low word first
  y,       \* the Y register: bits left to shift
  x,       \* the X register: bytes left to convert, less one
  P,       \* the flags
  text     \* the buffer, as far as it is written; then what is printed

vars == <<pc, number, temp, scratch, y, x, P, text>>

\* m_ul2a up to its loop, in m_ultemp2bcd.
Init ==
  /\ number \in Numbers
  /\ temp = number
  /\ scratch = <<0, 0, 0>>
  /\ y = 32 /\ x = 0
  /\ P = {"d"}
  /\ pc = "shift"
  /\ text = <<>>

ShiftInput_TwoShifts ==
  LET lo == ASL(P, temp[2], 65536)
      hi == ASL(lo.P, temp[1], 65536)
  IN /\ pc = "shift"
     /\ temp' = <<hi.r, lo.r>>
     /\ P' = hi.P
     /\ pc' = "double"
     /\ UNCHANGED <<number, scratch, y, x, text>>
ShiftInput ==
  LET lo == ASL(P, temp[2], 65536)
      hi == ROL(lo.P, temp[1], 65536)
  IN /\ pc = "shift"
     /\ temp' = <<hi.r, lo.r>>
     /\ P' = hi.P
     /\ pc' = "double"
     /\ UNCHANGED <<number, scratch, y, x, text>>

\* Each word is added to itself; the carry of one goes into the next.
DoubleOutput ==
  LET s0 == ADC(P, scratch[1], scratch[1], 65536)
      s1 == ADC(s0.P, scratch[2], scratch[2], 65536)
      s2 == ADC(s1.P, scratch[3], scratch[3], 65536)
  IN /\ pc = "double"
     /\ scratch' = <<s0.r, s1.r, s2.r>>
     /\ y' = y - 1
     /\ P' = SignZero(s2.P, y', 256)
     /\ pc' = IF "z" \in P' THEN "return" ELSE "shift"
     /\ UNCHANGED <<number, temp, x, text>>

\* plp restores binary mode, and m_ul2a asks for six bytes.
ReturnBcd ==
  /\ pc = "return"
  /\ P' = P \ {"d"}
  /\ x' = 6 - 1
  /\ pc' = "convert"
  /\ UNCHANGED <<number, temp, scratch, y, text>>

\* m_xdigit: the character of a nibble.
XDigit_NineIsLetter(nibble) ==
  LET char  == nibble + 48
      flags == CMP(P, char, 57, 256)
  IN IF "c" \notin flags THEN char ELSE ADC(flags, char, 6, 256).r
XDigit(nibble) ==
  LET char  == nibble + 48
      flags == CMP(P, char, 57, 256)
  IN IF "z" \in flags \/ "c" \notin flags THEN char
     ELSE ADC(flags, char, 6, 256).r

ByteAt(i) == IF i % 2 = 0 THEN Low(scratch[i \div 2 + 1])
                          ELSE High(scratch[i \div 2 + 1])

\* m_b2a, one byte; after the last, the terminating zero, the others before it.
ConvertByte ==
  LET chars == <<XDigit(ByteAt(x) \div 16), XDigit(ByteAt(x) % 16)>>
  IN /\ pc = "convert"
     /\ text' = text \o chars \o (IF x = 0 THEN <<0>> ELSE <<>>)
     /\ x' = x - 1
     /\ pc' = IF x = 0 THEN "skip" ELSE "convert"
     /\ UNCHANGED <<number, temp, scratch, y, P>>

\* The caller looks for the first character that is not "0".
SkipZeros ==
  /\ pc = "skip"
  /\ IF Head(text) = 48
     THEN text' = Tail(text) /\ UNCHANGED pc
     ELSE pc' = "print" /\ UNCHANGED text
  /\ UNCHANGED <<number, temp, scratch, y, x, P>>

Printed == pc = "print" /\ UNCHANGED vars

Next == ShiftInput \/ DoubleOutput \/ ReturnBcd \/ ConvertByte \/ SkipZeros
          \/ Printed

Spec == Init /\ [][Next]_vars

-----------------------------------------------------------------------------
(* The number that the first j bits make is kept as its tens and its last  *)
(* digit, so that no value here exceeds 2^31 - 1.                          *)

Prefix(j) ==
  IF j <= 16 THEN number[1] \div 2^(16 - j)
             ELSE number[1] * 2^(j - 16) + number[2] \div 2^(32 - j)
Bit(j) ==
  IF j <= 16 THEN (number[1] \div 2^(16 - j)) % 2
             ELSE (number[2] \div 2^(32 - j)) % 2
Tens(j) == IF j = 0 THEN 0 ELSE Prefix(j - 1) \div 5
Ones(j) == IF j = 0 THEN 0 ELSE 2 * (Prefix(j - 1) % 5) + Bit(j)

\* The digits of the scratchpad from the left, and the number that all but
\* the last of them make.
Digit(i) == LET byte == ByteAt((12 - i) \div 2)
            IN IF i % 2 = 1 THEN byte \div 16 ELSE byte % 16
Leading ==
  LET pair(i) == 10 * Digit(2 * i - 1) + Digit(2 * i)
  IN 10 * (100 * (100 * (100 * (100 * pair(1) + pair(2)) + pair(3)) + pair(4))
       + pair(5)) + Digit(11)

\* math.s:73-75, "a maximum of 10 digits": between two rounds the scratchpad
\* is a decimal number of at most ten digits, exactly the one that the bits
\* shifted in so far make, and what is left in temp are the other bits.
PrefixInDecimal ==
  pc # "double" =>
    LET j == 32 - y
    IN /\ \A i \in 1..12 : Digit(i) <= 9
       /\ Digit(1) = 0 /\ Digit(2) = 0
       /\ Leading = Tens(j) /\ Digit(12) = Ones(j)
       /\ temp = IF j < 16
                 THEN <<((number[1] * 2^j) % 65536) + number[2] \div 2^(16 - j),
                        (number[2] * 2^j) % 65536>>
                 ELSE <<(number[2] % 2^(32 - j)) * 2^(j - 16), 0>>

\* What is printed is the numeral of the number, without leading zeros and
\* with its terminating zero; nothing at all for zero.
NumeralIsExact ==
  pc = "print" =>
    LET skipped == 13 - Len(text)
        digit   == [i \in 1..12 |-> IF i <= skipped THEN 0
                                    ELSE text[i - skipped] - 48]
        pair(i) == 10 * digit[2 * i - 1] + digit[2 * i]
        half    == 32768 * number[1] + (number[2] \div 2)
    IN /\ skipped \in 0..12 /\ text[Len(text)] = 0
       /\ \A i \in 1..12 : digit[i] \in 0..9
       /\ skipped < 12 => digit[skipped + 1] # 0
       /\ 10 * (100 * (100 * (100 * (100 * pair(1) + pair(2)) + pair(3))
            + pair(4)) + pair(5)) + digit[11] = half \div 5
       /\ digit[12] = 2 * (half % 5) + (number[2] % 2)
=============================================================================
