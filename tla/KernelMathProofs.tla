-------------------------- MODULE KernelMathProofs --------------------------
(***************************************************************************)
(* For every 32-bit number the kernel may print: what appears is its       *)
(* decimal numeral without leading zeros.                                  *)
(*                                                                         *)
(* While bits move from temp to the scratchpad, the two together hold the  *)
(* number times a power of two; no doubling overflows, because the scratch *)
(* value stays below that power.                                           *)
(***************************************************************************)
EXTENDS KernelMath, AluLemmas

-----------------------------------------------------------------------------
(* Doubling a decimal word.                                                *)

\* The modulus of a word, and of its decimal value.  Both keep their names in
\* the lemmas: the provers match a name where they do not match a large number.
Modulus == 65536
Ten4    == 10000

Numeral(w)   == Fits(w, Modulus) /\ TwoDigits(Low(w)) /\ TwoDigits(High(w))
WordValue(w) == ByteValue(Low(w)) + 100 * ByteValue(High(w))

LEMMA ByteValueBounds ==
  ASSUME NEW b, TwoDigits(b)
  PROVE  Fits(ByteValue(b), 100)
<1>1. /\ b % 16 \in Int /\ 0 <= b % 16
      /\ b \div 16 \in Int /\ 0 <= b \div 16
  BY DEF TwoDigits, Fits
<1>. QED BY <1>1 DEF TwoDigits, Fits, ByteValue

LEMMA WordValueBounds ==
  ASSUME NEW w, Numeral(w)
  PROVE  Fits(WordValue(w), 10000)
<1>1. Fits(ByteValue(Low(w)), 100) /\ Fits(ByteValue(High(w)), 100)
  BY ByteValueBounds DEF Numeral
<1>. QED BY <1>1 DEF WordValue, Fits

\* The carry of one byte goes into the next.
LEMMA NumeralSum ==
  ASSUME NEW w, Numeral(w), NEW c \in {0, 1}
  PROVE  /\ Numeral(BcdSum(w, w, c, Modulus).x)
         /\ BcdSum(w, w, c, Modulus).c \in {0, 1}
         /\ WordValue(BcdSum(w, w, c, Modulus).x)
              + Ten4 * BcdSum(w, w, c, Modulus).c = 2 * WordValue(w) + c
<1> DEFINE lo == BcdSum8(Low(w), Low(w), c)
           hi == BcdSum8(High(w), High(w), lo.c)
<1>1. /\ TwoDigits(lo.x) /\ lo.c \in {0, 1}
      /\ ByteValue(lo.x) + 100 * lo.c
           = ByteValue(Low(w)) + ByteValue(Low(w)) + c
  BY ByteAdds DEF Numeral
<1>. HIDE DEF lo
<1>2. /\ TwoDigits(hi.x) /\ hi.c \in {0, 1}
      /\ ByteValue(hi.x) + 100 * hi.c
           = ByteValue(High(w)) + ByteValue(High(w)) + lo.c
  BY <1>1, ByteAdds DEF Numeral
<1>. HIDE DEF hi
<1>3. /\ BcdSum(w, w, c, Modulus).x = Word(hi.x, lo.x)
      /\ BcdSum(w, w, c, Modulus).c = hi.c
  BY DEF BcdSum, Chained, Modulus, lo, hi
<1>4. /\ Fits(Word(hi.x, lo.x), Modulus)
      /\ High(Word(hi.x, lo.x)) = hi.x /\ Low(Word(hi.x, lo.x)) = lo.x
  BY <1>1, <1>2, WordOfBytes DEF TwoDigits, Modulus
<1>5. Numeral(Word(hi.x, lo.x))
  BY <1>1, <1>2, <1>4 DEF Numeral
<1>6. WordValue(Word(hi.x, lo.x)) = ByteValue(lo.x) + 100 * ByteValue(hi.x)
  BY <1>4 DEF WordValue
<1>7. /\ ByteValue(lo.x) \in Int /\ ByteValue(hi.x) \in Int
      /\ ByteValue(Low(w)) \in Int /\ ByteValue(High(w)) \in Int
  BY <1>1, <1>2, ByteValueBounds DEF Numeral, Fits
<1>8. WordValue(Word(hi.x, lo.x)) + Ten4 * hi.c = 2 * WordValue(w) + c
  BY <1>1, <1>2, <1>6, <1>7 DEF WordValue, Ten4
<1>. QED BY <1>2, <1>3, <1>5, <1>8

LEMMA NumeralDoubles ==
  ASSUME NEW Q, "d" \in Q, NEW w, Numeral(w),
         NEW res, res = ADC(Q, w, w, Modulus)
  PROVE  /\ Numeral(res.r) /\ "d" \in res.P
         /\ WordValue(res.r) + Ten4 * Carry(res.P)
              = 2 * WordValue(w) + Carry(Q)
<1> DEFINE c == Carry(Q)
           s == BcdSum(w, w, c, Modulus)
<1>1. res.r = s.x /\ res.P = SignZero(Put(Q, "c", s.c = 1), s.x, Modulus)
  BY DEF ADC, DecimalADC, Result
<1>2. c \in {0, 1}
  BY DEF Carry
<1>3. "d" \in res.P
  BY FlagsOfADC
<1>. HIDE DEF c
<1>4. /\ Numeral(s.x) /\ s.c \in {0, 1}
      /\ WordValue(s.x) + Ten4 * s.c = 2 * WordValue(w) + c
  BY <1>2, NumeralSum
<1>. HIDE DEF s
<1>5. Carry(res.P) = s.c
  BY <1>1, <1>4 DEF Carry, SignZero, Put
<1>. QED BY <1>1, <1>3, <1>4, <1>5 DEF c

\* The scratchpad is added to itself, and the carry in becomes its last bit.
Decimal  == Numeral(scratch[1]) /\ Numeral(scratch[2]) /\ Numeral(scratch[3])
Scratch  == WordValue(scratch[1])
              + 10000 * (WordValue(scratch[2]) + 10000 * WordValue(scratch[3]))
Joined(hi, lo) == 65536 * hi + lo
Temp     == Joined(temp[1], temp[2])
Number   == Joined(number[1], number[2])
TenTo12  == 10000 * (10000 * 10000)
TwoTo32  == 65536 * 65536

LEMMA Doubled ==
  ASSUME "d" \in P, Decimal, DoubleOutput,
         2 * Scratch + Carry(P) < TenTo12
  PROVE  /\ Decimal' /\ Scratch' = 2 * Scratch + Carry(P) /\ "d" \in P'
<1> DEFINE s0 == ADC(P, scratch[1], scratch[1], Modulus)
           s1 == ADC(s0.P, scratch[2], scratch[2], Modulus)
           s2 == ADC(s1.P, scratch[3], scratch[3], Modulus)
<1>1. scratch' = <<s0.r, s1.r, s2.r>> /\ P' = SignZero(s2.P, y', 256)
  BY DEF DoubleOutput, Modulus
<1>2. /\ Numeral(s0.r) /\ "d" \in s0.P
      /\ WordValue(s0.r) + Ten4 * Carry(s0.P)
           = 2 * WordValue(scratch[1]) + Carry(P)
  BY NumeralDoubles DEF Decimal
<1>. HIDE DEF s0
<1>3. /\ Numeral(s1.r) /\ "d" \in s1.P
      /\ WordValue(s1.r) + Ten4 * Carry(s1.P)
           = 2 * WordValue(scratch[2]) + Carry(s0.P)
  BY <1>2, NumeralDoubles DEF Decimal
<1>. HIDE DEF s1
<1>4. /\ Numeral(s2.r) /\ "d" \in s2.P
      /\ WordValue(s2.r) + Ten4 * Carry(s2.P)
           = 2 * WordValue(scratch[3]) + Carry(s1.P)
  BY <1>3, NumeralDoubles DEF Decimal
<1>. HIDE DEF s2
<1>5. scratch'[1] = s0.r /\ scratch'[2] = s1.r /\ scratch'[3] = s2.r
  BY <1>1
<1>6. Decimal'
  BY <1>2, <1>3, <1>4, <1>5 DEF Decimal
<1>7. Scratch' + TenTo12 * Carry(s2.P) = 2 * Scratch + Carry(P)
  <2>1. /\ WordValue(scratch[1]) \in Int /\ WordValue(scratch[2]) \in Int
        /\ WordValue(scratch[3]) \in Int
        /\ WordValue(s0.r) \in Int /\ WordValue(s1.r) \in Int
        /\ WordValue(s2.r) \in Int
    BY <1>2, <1>3, <1>4, WordValueBounds DEF Decimal, Fits
  <2>2. /\ Carry(P) \in Int /\ Carry(s0.P) \in Int /\ Carry(s1.P) \in Int
        /\ Carry(s2.P) \in Int
    BY DEF Carry
  <2>3. Scratch' = WordValue(s0.r)
                     + 10000 * (WordValue(s1.r) + 10000 * WordValue(s2.r))
    BY <1>5 DEF Scratch
  <2>. QED BY <1>2, <1>3, <1>4, <2>1, <2>2, <2>3 DEF Scratch, TenTo12, Ten4
<1>8. Scratch' \in Int /\ Scratch' >= 0 /\ Scratch \in Int
  BY <1>6, WordValueBounds DEF Decimal, Scratch, Fits
<1>9. Carry(s2.P) \in {0, 1} /\ Carry(P) \in {0, 1}
  BY DEF Carry
<1>10. Scratch' = 2 * Scratch + Carry(P)
  BY <1>7, <1>8, <1>9 DEF TenTo12
<1>11. "d" \in P'
  BY <1>1, <1>4, SignFlag
<1>. QED BY <1>6, <1>10, <1>11

\* A word shifted left: the bit that leaves it is the carry.
LEMMA WordShifts ==
  ASSUME NEW Q, "d" \in Q, NEW w, Fits(w, Modulus), NEW in, in \in {0, 1},
         NEW res, res = ShiftLeft(Q, w, in, Modulus)
  PROVE  /\ Fits(res.r, Modulus) /\ "d" \in res.P
         /\ res.r + Modulus * Carry(res.P) = 2 * w + in
<1>1. Modulus \in Moduli
  BY DEF Moduli, Modulus
<1>3. "d" \in res.P
  BY DEF ShiftLeft, Result, SignZero, Put
<1>2. Fits(res.r, Modulus) /\ res.r + Modulus * Carry(res.P) = 2 * w + in
  BY <1>1, ShiftLeftExact
<1>. QED BY <1>2, <1>3 DEF Modulus

LEMMA WordsDouble ==
  ASSUME NEW a \in Int, NEW b \in Int, NEW lo \in Int, NEW hi \in Int,
         NEW c \in Int, NEW d \in Int,
         lo + Modulus * c = 2 * b + 0, hi + Modulus * d = 2 * a + c
  PROVE  Joined(hi, lo) + TwoTo32 * d = 2 * Joined(a, b)
BY DEF Modulus, TwoTo32, Joined

LEMMA Shifted ==
  ASSUME "d" \in P, Fits(temp[1], Modulus), Fits(temp[2], Modulus), ShiftInput
  PROVE  /\ Fits(temp'[1], Modulus) /\ Fits(temp'[2], Modulus) /\ "d" \in P'
         /\ Temp' + TwoTo32 * Carry(P') = 2 * Temp
<1> DEFINE lo == ShiftLeft(P, temp[2], 0, Modulus)
           c  == Carry(lo.P)
           hi == ShiftLeft(lo.P, temp[1], c, Modulus)
<1>1. temp' = <<hi.r, lo.r>> /\ P' = hi.P
  BY DEF ShiftInput, Modulus, ASL, ROL
<1>2. 0 \in {0, 1} /\ c \in {0, 1} /\ Carry(hi.P) \in {0, 1}
  BY DEF Carry
<1>3. /\ Fits(lo.r, Modulus) /\ "d" \in lo.P
      /\ lo.r + Modulus * Carry(lo.P) = 2 * temp[2] + 0
  <2> DEFINE w == temp[2]
             in == 0
  <2>1. Fits(w, Modulus) /\ in \in {0, 1}
    OBVIOUS
  <2>2. lo = ShiftLeft(P, w, in, Modulus)
    OBVIOUS
  <2>. HIDE DEF lo, w, in
  <2>3. /\ Fits(lo.r, Modulus) /\ "d" \in lo.P
        /\ lo.r + Modulus * Carry(lo.P) = 2 * w + in
    BY <2>1, <2>2, WordShifts
  <2>. QED BY <2>3 DEF w, in
<1>4. lo.r + Modulus * c = 2 * temp[2] + 0
  BY <1>3
<1>. HIDE DEF lo, c
<1>5. /\ Fits(hi.r, Modulus) /\ "d" \in hi.P
      /\ hi.r + Modulus * Carry(hi.P) = 2 * temp[1] + c
  <2> DEFINE Q == lo.P
             w == temp[1]
  <2>1. "d" \in Q /\ Fits(w, Modulus) /\ c \in {0, 1}
    BY <1>2, <1>3
  <2>2. hi = ShiftLeft(Q, w, c, Modulus)
    OBVIOUS
  <2>. HIDE DEF hi, Q, w
  <2>3. /\ Fits(hi.r, Modulus) /\ "d" \in hi.P
        /\ hi.r + Modulus * Carry(hi.P) = 2 * w + c
    BY <2>1, <2>2, WordShifts
  <2>. QED BY <2>3 DEF w
<1>. HIDE DEF hi
<1>6. temp'[1] = hi.r /\ temp'[2] = lo.r
  BY <1>1
<1>7. Temp' + TwoTo32 * Carry(hi.P) = 2 * Temp
  <2>1. /\ lo.r \in Int /\ hi.r \in Int
        /\ temp[1] \in Int /\ temp[2] \in Int
    BY <1>3, <1>5 DEF Fits
  <2>2. c \in Int /\ Carry(hi.P) \in Int
    BY <1>2
  <2>3. Joined(hi.r, lo.r) + TwoTo32 * Carry(hi.P)
          = 2 * Joined(temp[1], temp[2])
    BY <1>4, <1>5, <2>1, <2>2, WordsDouble
  <2>. QED BY <1>6, <2>3 DEF Temp
<1>. QED BY <1>1, <1>3, <1>5, <1>6, <1>7

-----------------------------------------------------------------------------
(* The loop over the bits.                                                 *)

Small == <<1, 2, 4, 8, 16, 32, 64, 128, 256, 512, 1024, 2048, 4096, 8192,
           16384, 32768, 65536>>
TwoTo(j) == IF j <= 16 THEN Small[j + 1] ELSE 65536 * Small[j - 15]

LEMMA PowersOfTwo ==
  /\ \A j \in 0..32 : TwoTo(j) \in Int /\ 1 <= TwoTo(j) /\ TwoTo(j) <= TwoTo32
  /\ \A j \in 0..31 : TwoTo(j + 1) = 2 * TwoTo(j)
  /\ TwoTo(0) = 1 /\ TwoTo(32) = TwoTo32
<1>1. \A i \in 1..17 : Small[i] \in Int /\ 1 <= Small[i] /\ Small[i] <= 65536
  BY DEF Small
<1>2. \A i \in 1..16 : Small[i + 1] = 2 * Small[i]
  BY DEF Small
<1>3. Small[1] = 1 /\ Small[17] = 65536
  BY DEF Small
<1>4. \A j \in 0..32 : TwoTo(j) \in Int /\ 1 <= TwoTo(j) /\ TwoTo(j) <= TwoTo32
  BY <1>1 DEF TwoTo, TwoTo32
<1>5. TwoTo(0) = 1 /\ TwoTo(32) = TwoTo32
  BY <1>3 DEF TwoTo, TwoTo32
<1>6. ASSUME NEW j \in 0..31 PROVE TwoTo(j + 1) = 2 * TwoTo(j)
  <2>1. CASE j <= 15
    BY <1>1, <1>2, <2>1 DEF TwoTo
  <2>2. CASE j = 16
    BY <1>1, <1>2, <1>3, <2>2 DEF TwoTo
  <2>3. CASE j >= 17
    <3>1. j - 15 \in 1..16 /\ (j + 1) - 15 = (j - 15) + 1
      BY <2>3
    <3>2. Small[(j + 1) - 15] = 2 * Small[j - 15] /\ Small[j - 15] \in Int
      BY <1>1, <1>2, <3>1
    <3>. QED BY <2>3, <3>2 DEF TwoTo
  <2>. QED BY <2>1, <2>2, <2>3
<1>. QED BY <1>4, <1>5, <1>6

\* The bits that left temp are in the scratchpad: the two together are the
\* number, moved left as often as it was shifted.
Held(s, t, n, q) == s * TwoTo32 + t = n * q
TempFits ==
  /\ temp = <<temp[1], temp[2]>>
  /\ Fits(temp[1], Modulus) /\ Fits(temp[2], Modulus)
Shifting ==
  pc = "shift" =>
    /\ y \in 1..32 /\ "d" \in P /\ Decimal /\ TempFits
    /\ Scratch < TwoTo(32 - y)
    /\ Held(Scratch, Temp, Number, TwoTo(32 - y))
Doubling ==
  pc = "double" =>
    /\ y \in 1..32 /\ "d" \in P /\ Decimal /\ TempFits
    /\ Scratch < TwoTo(32 - y)
    /\ Held(2 * Scratch + Carry(P), Temp, Number, TwoTo(33 - y))
Complete ==
  pc \notin {"shift", "double"} =>
    /\ Decimal /\ Scratch = Number
    /\ y = 0 /\ TempFits /\ Temp = 0

LEMMA ValuesAreIntegers ==
  /\ Decimal => Scratch \in Int /\ Scratch >= 0
  /\ TempFits => Temp \in Int /\ 0 <= Temp /\ Temp < TwoTo32
  /\ Carry(P) \in {0, 1}
<1>1. Decimal => Scratch \in Int /\ Scratch >= 0
  BY WordValueBounds DEF Decimal, Scratch, Fits
<1>2. TempFits => Temp \in Int /\ 0 <= Temp /\ Temp < TwoTo32
  BY DEF TempFits, Temp, Joined, Fits, Modulus, TwoTo32
<1>3. Carry(P) \in {0, 1}
  BY DEF Carry
<1>. QED BY <1>1, <1>2, <1>3

\* The number on the stack is a 32-bit number.
NumberOK == number \in UInt16 \X UInt16

LEMMA NumberIsInteger ==
  ASSUME NumberOK
  PROVE  /\ Fits(number[1], Modulus) /\ Fits(number[2], Modulus)
         /\ Number \in Int /\ 0 <= Number /\ Number < TwoTo32
<1>1. number[1] \in UInt16 /\ number[2] \in UInt16
  BY DEF NumberOK
<1>2. Fits(number[1], Modulus) /\ Fits(number[2], Modulus)
  BY <1>1, UInt16Bounds DEF Fits, Modulus
<1>. QED BY <1>2 DEF Number, Joined, Fits, Modulus, TwoTo32

LEMMA BitMoves ==
  ASSUME NEW s \in Int, NEW t \in Int, NEW t2 \in Int, NEW n \in Int,
         NEW q \in Int, NEW c \in Int,
         Held(s, t, n, q), t2 + TwoTo32 * c = 2 * t
  PROVE  Held(2 * s + c, t2, n, 2 * q)
<1>1. n * (2 * q) = 2 * (n * q)
  OBVIOUS
<1>. QED BY <1>1 DEF TwoTo32, Held

LEMMA InitBits == Init => NumberOK /\ Shifting /\ Doubling /\ Complete
<1>. SUFFICES ASSUME Init
              PROVE  NumberOK /\ Shifting /\ Doubling /\ Complete
  OBVIOUS
<1>1. NumberOK
  BY KernelMathAssumption DEF Init, NumberOK
<1>2. Numeral(0) /\ WordValue(0) = 0
  BY DEF Numeral, WordValue, ByteValue, Fits, TwoDigits, Low, High, Modulus
<1>3. scratch[1] = 0 /\ scratch[2] = 0 /\ scratch[3] = 0
  BY DEF Init
<1>4. Decimal /\ Scratch = 0
  BY <1>2, <1>3 DEF Decimal, Scratch
<1>5. TempFits /\ Temp = Number /\ Number \in Int
  <2>1. number = <<number[1], number[2]>>
    BY <1>1 DEF NumberOK
  <2>. QED BY <1>1, <2>1, NumberIsInteger DEF Init, TempFits, Temp, Number
<1>6. TwoTo(32 - y) = 1 /\ y \in 1..32
  BY PowersOfTwo DEF Init
<1>7. Held(Scratch, Temp, Number, TwoTo(32 - y))
  BY <1>4, <1>5, <1>6 DEF TwoTo32, Held
<1>8. Scratch < TwoTo(32 - y)
  BY <1>4, <1>6
<1>. QED BY <1>1, <1>4, <1>5, <1>6, <1>7, <1>8
         DEF Init, Shifting, Doubling, Complete

LEMMA ShiftInputBits ==
  ASSUME NumberOK, Shifting, ShiftInput
  PROVE  NumberOK' /\ Shifting' /\ Doubling' /\ Complete'
<1>1. /\ pc = "shift" /\ pc' = "double" /\ number' = number
      /\ scratch' = scratch /\ y' = y
  BY DEF ShiftInput
<1>2. /\ y \in 1..32 /\ "d" \in P /\ Decimal /\ TempFits
      /\ Scratch < TwoTo(32 - y)
      /\ Held(Scratch, Temp, Number, TwoTo(32 - y))
  BY <1>1 DEF Shifting
<1>3. TempFits' /\ "d" \in P' /\ Temp' + TwoTo32 * Carry(P') = 2 * Temp
  <2>1. temp' = <<temp'[1], temp'[2]>>
    BY DEF ShiftInput
  <2>. QED BY <1>2, <2>1, Shifted DEF TempFits
<1>4. NumberOK' /\ Decimal' /\ Scratch' = Scratch /\ Number' = Number
  BY <1>1, <1>2 DEF NumberOK, Decimal, Scratch, Number
<1>5. TwoTo(33 - y) = 2 * TwoTo(32 - y) /\ TwoTo(32 - y) \in Int
  <2>1. 32 - y \in 0..31 /\ 33 - y = (32 - y) + 1
    BY <1>2
  <2>. QED BY <2>1, PowersOfTwo
<1>6. /\ Scratch \in Int /\ Temp \in Int /\ Temp' \in Int /\ Number \in Int
      /\ Carry(P') \in Int
  <2>1. TempFits' => Temp' \in Int
    BY DEF TempFits, Temp, Joined, Fits
  <2>2. Carry(P') \in Int
    BY DEF Carry
  <2>. QED BY <1>2, <1>3, <2>1, <2>2, ValuesAreIntegers, NumberIsInteger
<1>7. Held(2 * Scratch + Carry(P'), Temp', Number, 2 * TwoTo(32 - y))
  BY <1>2, <1>3, <1>5, <1>6, BitMoves
<1>. QED BY <1>1, <1>2, <1>3, <1>4, <1>5, <1>7
         DEF Shifting, Doubling, Complete

LEMMA ZeroFlag ==
  ASSUME NEW Q, NEW r, NEW W
  PROVE  "z" \in SignZero(Q, r, W) <=> r = 0
BY DEF SignZero, Put

LEMMA AllShifted ==
  ASSUME NEW s \in Int, NEW t \in Int, NEW n \in Int, 0 <= t, t < TwoTo32,
         Held(s, t, n, TwoTo32)
  PROVE  s = n /\ t = 0
<1>1. t = (n - s) * TwoTo32
  BY DEF Held, TwoTo32
<1>2. n - s = 0
  BY <1>1 DEF TwoTo32
<1>. QED BY <1>1, <1>2 DEF TwoTo32

LEMMA DoubleOutputBits ==
  ASSUME NumberOK, Doubling, DoubleOutput
  PROVE  NumberOK' /\ Shifting' /\ Doubling' /\ Complete'
<1>1. /\ pc = "double" /\ number' = number /\ temp' = temp /\ y' = y - 1
      /\ pc' = IF "z" \in P' THEN "return" ELSE "shift"
  BY DEF DoubleOutput
<1>2. /\ y \in 1..32 /\ "d" \in P /\ Decimal /\ TempFits
      /\ Scratch < TwoTo(32 - y)
      /\ Held(2 * Scratch + Carry(P), Temp, Number, TwoTo(33 - y))
  BY <1>1 DEF Doubling
<1>3. "z" \in P' <=> y' = 0
  <2>1. \E Q : P' = SignZero(Q, y', 256)
    BY DEF DoubleOutput
  <2>. QED BY <2>1 DEF SignZero, Put
<1>4. /\ TwoTo(33 - y) = 2 * TwoTo(32 - y) /\ TwoTo(32 - y) \in Int
      /\ TwoTo(33 - y) <= TwoTo32 /\ TwoTo(33 - y) \in Int
  <2>1. 32 - y \in 0..31 /\ 33 - y \in 0..32 /\ 33 - y = (32 - y) + 1
    BY <1>2
  <2>2. 32 - y \in 0..32
    BY <1>2
  <2>. QED BY <2>1, <2>2, PowersOfTwo
<1>5. Scratch \in Int /\ Carry(P) \in {0, 1}
  BY <1>2, ValuesAreIntegers
<1>6. 2 * Scratch + Carry(P) < TwoTo(33 - y)
  BY <1>2, <1>4, <1>5
<1>7. 2 * Scratch + Carry(P) < TenTo12
  BY <1>4, <1>5, <1>6 DEF TwoTo32, TenTo12
<1>8. Decimal' /\ Scratch' = 2 * Scratch + Carry(P) /\ "d" \in P'
  BY <1>2, <1>7, Doubled
<1>9. NumberOK' /\ TempFits' /\ Temp' = Temp /\ Number' = Number
  BY <1>1, <1>2 DEF NumberOK, TempFits, Temp, Number
<1>10. /\ Scratch' < TwoTo(33 - y)
       /\ Held(Scratch', Temp', Number', TwoTo(33 - y))
  BY <1>2, <1>6, <1>8, <1>9
<1>11. 33 - y = 32 - y'
  BY <1>1, <1>2
<1>12. CASE y' = 0
  <2>1. TwoTo(33 - y) = TwoTo32
    BY <1>11, <1>12, PowersOfTwo
  <2>2. /\ Scratch' \in Int /\ Temp \in Int /\ Number \in Int
        /\ 0 <= Temp /\ Temp < TwoTo32
    BY <1>2, <1>5, <1>8, ValuesAreIntegers, NumberIsInteger
  <2>3. Scratch' = Number' /\ Temp' = 0
    <3>1. Held(Scratch', Temp, Number, TwoTo32)
      BY <1>9, <1>10, <2>1
    <3>. QED BY <1>9, <2>2, <3>1, AllShifted
  <2>. QED BY <1>1, <1>3, <1>8, <1>9, <1>12, <2>3
           DEF Shifting, Doubling, Complete
<1>13. CASE y' # 0
  <2>1. y' \in 1..32
    BY <1>1, <1>2, <1>13
  <2>. QED BY <1>1, <1>3, <1>8, <1>9, <1>10, <1>11, <1>13, <2>1
           DEF Shifting, Doubling, Complete
<1>. QED BY <1>12, <1>13

-----------------------------------------------------------------------------
(* The characters.                                                         *)

LEMMA DigitsOfDecimal ==
  ASSUME Decimal
  PROVE  \A i \in 0..5 : TwoDigits(ByteAt(i))
<1>1. \A k \in 1..3 : TwoDigits(Low(scratch[k])) /\ TwoDigits(High(scratch[k]))
  BY DEF Decimal, Numeral
<1>. SUFFICES ASSUME NEW i \in 0..5 PROVE TwoDigits(ByteAt(i))
  OBVIOUS
<1>2. (i \div 2) + 1 \in 1..3
  OBVIOUS
<1>. QED BY <1>1, <1>2 DEF ByteAt

LEMMA DigitType ==
  ASSUME Decimal, NEW i \in 1..12
  PROVE  Digit(i) \in 0..9
<1>1. (12 - i) \div 2 \in 0..5
  OBVIOUS
<1>2. TwoDigits(ByteAt((12 - i) \div 2))
  BY <1>1, DigitsOfDecimal
<1>. HIDE DEF ByteAt
<1>3. \A b : TwoDigits(b) => b % 16 \in 0..9 /\ b \div 16 \in 0..9
  BY Nibbles DEF TwoDigits, Fits
<1>. QED BY <1>2, <1>3 DEF Digit

\* A decimal digit never becomes a letter.
LEMMA DigitCharacter ==
  ASSUME NEW n \in 0..9
  PROVE  XDigit(n) = n + 48
<1> DEFINE flags == CMP(P, n + 48, 57, 256)
<1>1. "c" \in flags <=> n + 48 >= 57
  BY DEF CMP, SignZero, Put
<1>2. "z" \in flags <=> ((n + 48) - 57) % 256 = 0
  BY ZeroFlag DEF CMP
<1>. HIDE DEF flags
<1>3. "z" \in flags \/ "c" \notin flags
  BY <1>1, <1>2
<1>. QED BY <1>3 DEF XDigit, flags

\* The buffer, two characters for a byte; then, while zeros are skipped, all
\* digits before the first one left are zeros.
Skipped == 13 - Len(text)
Converted ==
  /\ x \in 0..5 /\ Len(text) = 10 - 2 * x
  /\ \A i \in 1..(10 - 2 * x) : text[i] = Digit(i) + 48
Suffix ==
  /\ Skipped \in 0..12 /\ text[Len(text)] = 0
  /\ \A i \in 1..12 : i <= Skipped => Digit(i) = 0
  /\ \A i \in 1..12 : i > Skipped => text[i - Skipped] = Digit(i) + 48
Written ==
  /\ pc \in {"shift", "double", "return", "convert", "skip", "print"}
  /\ text \in Seq(Int)
  /\ pc \in {"shift", "double", "return"} => text = <<>>
  /\ pc = "convert" => Converted
  /\ pc \in {"skip", "print"} => Suffix
  /\ pc = "print" => text[1] # 48

LEMMA SameDigits ==
  ASSUME scratch' = scratch
  PROVE  /\ Decimal => Decimal'
         /\ Scratch' = Scratch
         /\ \A i : Digit(i)' = Digit(i)
BY DEF Decimal, Scratch, Digit, ByteAt

LEMMA OneMore ==
  ASSUME NEW s \in Seq(Int), NEW a \in Int, NEW t, t = s \o <<a>>
  PROVE  /\ t \in Seq(Int) /\ Len(t) = Len(s) + 1 /\ t[Len(s) + 1] = a
         /\ \A i \in 1..Len(s) : t[i] = s[i]
OBVIOUS

LEMMA TwoMore ==
  ASSUME NEW s \in Seq(Int), NEW a \in Int, NEW b \in Int,
         NEW t, t = s \o <<a, b>>
  PROVE  /\ t \in Seq(Int) /\ Len(t) = Len(s) + 2
         /\ t[Len(s) + 1] = a /\ t[Len(s) + 2] = b
         /\ \A i \in 1..Len(s) : t[i] = s[i]
OBVIOUS

LEMMA OneLess ==
  ASSUME NEW s \in Seq(Int), Len(s) >= 1, NEW t, t = Tail(s)
  PROVE  /\ t \in Seq(Int) /\ Len(t) = Len(s) - 1 /\ Head(s) = s[1]
         /\ \A i \in 1..Len(t) : t[i] = s[i + 1]
OBVIOUS

LEMMA ConvertByteWrites ==
  ASSUME Decimal, Written, ConvertByte
  PROVE  Written'
<1>1. /\ pc = "convert" /\ x' = x - 1 /\ scratch' = scratch
      /\ pc' = IF x = 0 THEN "skip" ELSE "convert"
  BY DEF ConvertByte
<1>2. /\ text \in Seq(Int) /\ x \in 0..5 /\ Len(text) = 10 - 2 * x
      /\ \A i \in 1..(10 - 2 * x) : text[i] = Digit(i) + 48
  BY <1>1 DEF Written, Converted
<1> DEFINE a == Digit(11 - 2 * x) + 48
           b == Digit(12 - 2 * x) + 48
           both == text \o <<a, b>>
<1>3. /\ Digit(11 - 2 * x) \in 0..9 /\ Digit(12 - 2 * x) \in 0..9
      /\ a \in Int /\ b \in Int
  <2>1. 11 - 2 * x \in 1..12 /\ 12 - 2 * x \in 1..12
    BY <1>2
  <2>2. Digit(11 - 2 * x) \in 0..9 /\ Digit(12 - 2 * x) \in 0..9
    BY <2>1, DigitType
  <2>. QED BY <2>2
<1>4. text' = both \o (IF x = 0 THEN <<0>> ELSE <<>>)
  <2>1. TwoDigits(ByteAt(x))
    BY <1>2, DigitsOfDecimal
  <2>2. (12 - (11 - 2 * x)) \div 2 = x /\ (11 - 2 * x) % 2 = 1
    BY <1>2
  <2>3. (12 - (12 - 2 * x)) \div 2 = x /\ (12 - 2 * x) % 2 = 0
    BY <1>2
  <2>4. /\ Digit(11 - 2 * x) = ByteAt(x) \div 16
        /\ Digit(12 - 2 * x) = ByteAt(x) % 16
    BY <2>2, <2>3 DEF Digit
  <2>5. XDigit(ByteAt(x) \div 16) = a /\ XDigit(ByteAt(x) % 16) = b
    BY <1>3, <2>4, DigitCharacter
  <2>. QED BY <2>5 DEF ConvertByte
<1>5. /\ both \in Seq(Int) /\ Len(both) = 12 - 2 * x
      /\ \A i \in 1..(12 - 2 * x) : both[i] = Digit(i) + 48
  <2>. HIDE DEF a, b
  <2>1. /\ both \in Seq(Int) /\ Len(both) = Len(text) + 2
        /\ both[Len(text) + 1] = a /\ both[Len(text) + 2] = b
        /\ \A i \in 1..Len(text) : both[i] = text[i]
    BY <1>2, <1>3, TwoMore
  <2>2. Len(text) + 1 = 11 - 2 * x /\ Len(text) + 2 = 12 - 2 * x
    BY <1>2
  <2>3. both[11 - 2 * x] = a /\ both[12 - 2 * x] = b
    BY <2>1, <2>2
  <2>4. ASSUME NEW i \in 1..(12 - 2 * x) PROVE both[i] = Digit(i) + 48
    <3>. HIDE DEF both
    <3>1. CASE i <= 10 - 2 * x
      <4>1. i \in 1..(10 - 2 * x) /\ i \in 1..Len(text)
        BY <1>2, <3>1
      <4>. QED BY <1>2, <2>1, <4>1
    <3>2. CASE i = 11 - 2 * x
      BY <2>3, <3>2 DEF a
    <3>3. CASE i = 12 - 2 * x
      BY <2>3, <3>3 DEF b
    <3>4. i <= 10 - 2 * x \/ i = 11 - 2 * x \/ i = 12 - 2 * x
      BY <1>2
    <3>. QED BY <3>1, <3>2, <3>3, <3>4
  <2>. HIDE DEF both
  <2>. QED BY <2>1, <2>2, <2>4
<1>. HIDE DEF both
<1>6. \A i : Digit(i)' = Digit(i)
  BY <1>1, SameDigits
<1>7. CASE x # 0
  <2>1. text' = both
    BY <1>4, <1>5, <1>7
  <2>2. x' \in 0..5 /\ 10 - 2 * x' = 12 - 2 * x
    BY <1>1, <1>2, <1>7
  <2>3. Converted'
    BY <1>5, <1>6, <2>1, <2>2 DEF Converted
  <2>. QED BY <1>1, <1>5, <1>7, <2>1, <2>3 DEF Written
<1>8. CASE x = 0
  <2>1. text' = both \o <<0>>
    BY <1>4, <1>8
  <2>2. /\ text' \in Seq(Int) /\ Len(text') = 13 /\ text'[13] = 0
        /\ \A i \in 1..12 : text'[i] = both[i]
    <3>1. Len(both) = 12 /\ both \in Seq(Int)
      BY <1>5, <1>8
    <3> DEFINE zero == 0
    <3>2. /\ zero \in Int /\ both \in Seq(Int)
          /\ text' = both \o <<zero>>
      BY <2>1, <3>1
    <3>. HIDE DEF zero
    <3>3. /\ text' \in Seq(Int) /\ Len(text') = Len(both) + 1
          /\ text'[Len(both) + 1] = zero
          /\ \A i \in 1..Len(both) : text'[i] = both[i]
      BY <3>2, OneMore
    <3>. QED BY <3>1, <3>3 DEF zero
  <2>3. Skipped' = 0
    BY <2>2 DEF Skipped
  <2>4. \A i \in 1..12 : text'[i] = Digit(i)' + 48
    BY <1>5, <1>6, <1>8, <2>2
  <2>5. Suffix'
    BY <2>2, <2>3, <2>4 DEF Suffix
  <2>. QED BY <1>1, <1>8, <2>2, <2>5 DEF Written
<1>. QED BY <1>7, <1>8

LEMMA SkipZerosWrites ==
  ASSUME Decimal, Written, SkipZeros
  PROVE  Written'
<1>1. pc = "skip" /\ scratch' = scratch
  BY DEF SkipZeros
<1>2. text \in Seq(Int) /\ Suffix
  BY <1>1 DEF Written
<1>3. \A i : Digit(i)' = Digit(i)
  BY <1>1, SameDigits
<1>4. /\ Len(text) \in 1..13 /\ Len(text) >= 1
      /\ Skipped = 13 - Len(text) /\ text[Len(text)] = 0
  <2>1. 13 - Len(text) \in 0..12 /\ Len(text) \in Nat
    BY <1>2 DEF Suffix, Skipped
  <2>2. \A n \in Nat : 13 - n \in 0..12 => n \in 1..13 /\ n >= 1
    OBVIOUS
  <2>3. Len(text) \in 1..13 /\ Len(text) >= 1
    BY <2>1, <2>2
  <2>. QED BY <1>2, <2>3 DEF Suffix, Skipped
<1>5. Head(text) = text[1]
  BY <1>2, <1>4, OneLess
<1>8. \A i \in 1..12 : i > Skipped => text[i - Skipped] = Digit(i) + 48
  BY <1>2 DEF Suffix
<1>6. CASE text[1] = 48
  <2>1. pc' = pc /\ text' = Tail(text)
    BY <1>5, <1>6 DEF SkipZeros
  <2>2. Len(text) # 1
    BY <1>4, <1>6
  <2>3. /\ text' \in Seq(Int) /\ Len(text') = Len(text) - 1
        /\ \A i \in 1..Len(text') : text'[i] = text[i + 1]
    BY <1>2, <1>4, <2>1, OneLess
  <2>4. /\ Skipped' = Skipped + 1 /\ Skipped \in 0..11
        /\ text'[Len(text')] = 0
    <3>1. Len(text) \in 2..13 /\ Len(text) \in Int
      BY <1>4, <2>2
    <3>2. Len(text') \in 1..Len(text') /\ Len(text') + 1 = Len(text)
      BY <2>3, <3>1
    <3>3. text'[Len(text')] = 0
      BY <1>4, <2>3, <3>2
    <3>4. Skipped' = 13 - Len(text')
      BY DEF Skipped
    <3> DEFINE m == Len(text)
               n == Len(text')
    <3>5. m \in 2..13 /\ n = m - 1
      BY <2>3, <3>1
    <3>. HIDE DEF m, n
    <3>7. 13 - n = (13 - m) + 1 /\ 13 - m \in 0..11
      BY <3>5
    <3>6. 13 - Len(text') = (13 - Len(text)) + 1 /\ 13 - Len(text) \in 0..11
      BY <3>7 DEF m, n
    <3>. QED BY <1>4, <3>3, <3>4, <3>6
  <2>5. Digit(Skipped + 1) = 0
    <3>2. /\ (Skipped + 1) - Skipped = 1 /\ Skipped + 1 \in 1..12
          /\ Skipped + 1 > Skipped
      BY <2>4
    <3>1. text[(Skipped + 1) - Skipped] = Digit(Skipped + 1) + 48
      BY <1>8, <3>2, Zenon
    <3>3. Digit(Skipped + 1) \in 0..9
      BY <3>2, DigitType
    <3>. QED BY <1>6, <3>1, <3>2, <3>3
  <2>6. ASSUME NEW i \in 1..12, i <= Skipped' PROVE Digit(i)' = 0
    <3>1. i <= Skipped \/ i = Skipped + 1
      BY <2>4, <2>6
    <3>. QED BY <1>2, <1>3, <2>5, <3>1 DEF Suffix
  <2>7. ASSUME NEW i \in 1..12, i > Skipped'
        PROVE  text'[i - Skipped'] = Digit(i)' + 48
    <3>1. /\ i - Skipped' \in 1..Len(text')
          /\ (i - Skipped') + 1 = i - Skipped
      BY <1>4, <2>3, <2>4, <2>7
    <3>2. text'[i - Skipped'] = text[i - Skipped]
      BY <2>3, <3>1
    <3>3. i > Skipped
      BY <2>4, <2>7
    <3>4. text[i - Skipped] = Digit(i) + 48
      BY <1>8, <3>3, Zenon
    <3>. QED BY <1>3, <3>2, <3>4
  <2>8. Suffix'
    BY <2>4, <2>6, <2>7 DEF Suffix
  <2>. QED BY <1>1, <2>1, <2>3, <2>8 DEF Written
<1>7. CASE text[1] # 48
  <2>1. pc' = "print" /\ text' = text
    BY <1>5, <1>7 DEF SkipZeros
  <2>2. Suffix'
    BY <1>2, <1>3, <2>1 DEF Suffix, Skipped
  <2>. QED BY <1>2, <1>7, <2>1, <2>2 DEF Written
<1>. QED BY <1>6, <1>7

-----------------------------------------------------------------------------
(* The inductive invariant.                                                *)

PrintInv == NumberOK /\ Shifting /\ Doubling /\ Complete /\ Written

LEMMA InitPrint == Init => PrintInv
<1>1. Init => Written
  <2>1. Init => text = <<>> /\ pc = "shift"
    BY DEF Init
  <2>2. <<>> \in Seq(Int)
    OBVIOUS
  <2>. QED BY <2>1, <2>2 DEF Written
<1>. QED BY <1>1, InitBits DEF PrintInv

LEMMA NextPrint == PrintInv /\ [Next]_vars => PrintInv'
<1>. SUFFICES ASSUME PrintInv, [Next]_vars PROVE PrintInv'
  OBVIOUS
<1>. USE DEF PrintInv
<1>1. CASE ShiftInput
  <2>1. Written'
    BY <1>1 DEF Written, ShiftInput
  <2>. QED BY <1>1, <2>1, ShiftInputBits
<1>2. CASE DoubleOutput
  <2>1. Written'
    BY <1>2 DEF Written, DoubleOutput
  <2>. QED BY <1>2, <2>1, DoubleOutputBits
<1>3. CASE ReturnBcd
  <2>1. /\ pc = "return" /\ pc' = "convert" /\ x' = 5 /\ text' = text
        /\ number' = number /\ scratch' = scratch
    BY <1>3 DEF ReturnBcd
  <2>2. text = <<>> /\ text \in Seq(Int)
    BY <2>1 DEF Written
  <2>3. Converted'
    BY <2>1, <2>2 DEF Converted
  <2>4. Written'
    BY <2>1, <2>2, <2>3 DEF Written
  <2>5. /\ Decimal' /\ Scratch' = Scratch /\ Number' = Number /\ NumberOK'
        /\ y' = 0 /\ TempFits' /\ Temp' = 0
    BY <1>3, <2>1, SameDigits
       DEF Complete, Number, NumberOK, ReturnBcd, TempFits, Temp
  <2>. QED BY <2>1, <2>4, <2>5 DEF Shifting, Doubling, Complete
<1>4. CASE ConvertByte
  <2>1. /\ pc = "convert" /\ pc' \in {"skip", "convert"}
        /\ number' = number /\ scratch' = scratch
    BY <1>4 DEF ConvertByte
  <2>2. Written'
    BY <1>4, <2>1, ConvertByteWrites DEF Complete
  <2>3. /\ Decimal' /\ Scratch' = Scratch /\ Number' = Number /\ NumberOK'
        /\ y' = 0 /\ TempFits' /\ Temp' = 0
    BY <1>4, <2>1, SameDigits
       DEF Complete, Number, NumberOK, ConvertByte, TempFits, Temp
  <2>. QED BY <2>1, <2>2, <2>3 DEF Shifting, Doubling, Complete
<1>5. CASE SkipZeros
  <2>1. /\ pc = "skip" /\ pc' \in {"skip", "print"}
        /\ number' = number /\ scratch' = scratch
    BY <1>5 DEF SkipZeros
  <2>2. Written'
    BY <1>5, <2>1, SkipZerosWrites DEF Complete
  <2>3. /\ Decimal' /\ Scratch' = Scratch /\ Number' = Number /\ NumberOK'
        /\ y' = 0 /\ TempFits' /\ Temp' = 0
    BY <1>5, <2>1, SameDigits
       DEF Complete, Number, NumberOK, SkipZeros, TempFits, Temp
  <2>. QED BY <2>1, <2>2, <2>3 DEF Shifting, Doubling, Complete
<1>6. CASE UNCHANGED vars
  <2>1. /\ pc' = pc /\ number' = number /\ temp' = temp /\ scratch' = scratch
        /\ y' = y /\ x' = x /\ P' = P /\ text' = text
    BY <1>6 DEF vars
  <2>2. /\ NumberOK' = NumberOK /\ Number' = Number /\ TempFits' = TempFits
        /\ Temp' = Temp /\ Decimal' = Decimal /\ Scratch' = Scratch
        /\ \A i : Digit(i)' = Digit(i)
    BY <2>1, SameDigits DEF NumberOK, Number, TempFits, Temp, Decimal
  <2>3. Shifting' /\ Doubling' /\ Complete'
    BY <2>1, <2>2 DEF Shifting, Doubling, Complete
  <2>4. Written'
    BY <2>1, <2>2 DEF Written, Converted, Suffix, Skipped
  <2>. QED BY <2>2, <2>3, <2>4
<1>7. CASE Printed
  BY <1>6, <1>7 DEF Printed
<1>. QED BY <1>1, <1>2, <1>3, <1>4, <1>5, <1>6, <1>7 DEF Next

LEMMA Printing == Spec => []PrintInv
BY InitPrint, NextPrint, PTL DEF Spec

-----------------------------------------------------------------------------
(* What is printed.                                                        *)

\* The value of the scratchpad by its digits.
LEMMA ScratchByDigits ==
  ASSUME Decimal,
         NEW D, \A i \in 1..12 : D[i] = Digit(i)
  PROVE  LET pair(i) == 10 * D[2 * i - 1] + D[2 * i]
         IN Scratch = 10 * (10 * (100 * (100 * (100 * (100 * pair(1) + pair(2))
                                   + pair(3)) + pair(4)) + pair(5)) + D[11])
                        + D[12]
<1> DEFINE pair(i) == 10 * D[2 * i - 1] + D[2 * i]
<1>1. \A i \in 1..12 : D[i] \in Int
  BY DigitType
<1>2. ASSUME NEW i \in 1..6
      PROVE  pair(i) = ByteValue(ByteAt(6 - i)) /\ pair(i) \in Int
  <2>1. /\ 2 * i - 1 \in 1..12 /\ 2 * i \in 1..12
        /\ (12 - (2 * i - 1)) \div 2 = 6 - i /\ (2 * i - 1) % 2 = 1
        /\ (12 - 2 * i) \div 2 = 6 - i /\ (2 * i) % 2 = 0
    OBVIOUS
  <2>2. /\ Digit(2 * i - 1) = ByteAt(6 - i) \div 16
        /\ Digit(2 * i) = ByteAt(6 - i) % 16
    BY <2>1 DEF Digit
  <2>3. D[2 * i - 1] = Digit(2 * i - 1) /\ D[2 * i] = Digit(2 * i)
    BY <2>1
  <2>4. D[2 * i - 1] \in Int /\ D[2 * i] \in Int
    BY <1>1, <2>1
  <2>. QED BY <2>2, <2>3, <2>4 DEF ByteValue
<1>3. /\ WordValue(scratch[1]) = pair(6) + 100 * pair(5)
      /\ WordValue(scratch[2]) = pair(4) + 100 * pair(3)
      /\ WordValue(scratch[3]) = pair(2) + 100 * pair(1)
  <2>1. /\ ByteAt(0) = Low(scratch[1]) /\ ByteAt(1) = High(scratch[1])
        /\ ByteAt(2) = Low(scratch[2]) /\ ByteAt(3) = High(scratch[2])
        /\ ByteAt(4) = Low(scratch[3]) /\ ByteAt(5) = High(scratch[3])
    BY DEF ByteAt
  <2>. HIDE DEF pair
  <2>2. /\ pair(1) = ByteValue(ByteAt(5)) /\ pair(2) = ByteValue(ByteAt(4))
        /\ pair(3) = ByteValue(ByteAt(3)) /\ pair(4) = ByteValue(ByteAt(2))
        /\ pair(5) = ByteValue(ByteAt(1)) /\ pair(6) = ByteValue(ByteAt(0))
    BY <1>2
  <2>. QED BY <2>1, <2>2 DEF WordValue
<1>4. pair(6) = 10 * D[11] + D[12]
  OBVIOUS
<1>5. /\ pair(1) \in Int /\ pair(2) \in Int /\ pair(3) \in Int
      /\ pair(4) \in Int /\ pair(5) \in Int /\ D[11] \in Int /\ D[12] \in Int
  BY <1>1, <1>2
<1>. HIDE DEF pair
<1>6. Scratch = 10 * (10 * (100 * (100 * (100 * (100 * pair(1) + pair(2))
                              + pair(3)) + pair(4)) + pair(5)) + D[11]) + D[12]
  BY <1>3, <1>4, <1>5 DEF Scratch
<1>. QED BY <1>6 DEF pair

\* Whatever the number, the text printed for it is its decimal numeral, with
\* no zeros before it and a zero byte after it.
THEOREM PrintsItsNumeral == Spec => []NumeralIsExact
<1>1. PrintInv => NumeralIsExact
  <2>. SUFFICES ASSUME PrintInv, pc = "print" PROVE NumeralIsExact
    BY DEF NumeralIsExact
  <2> DEFINE D == [i \in 1..12 |-> IF i <= Skipped THEN 0
                                   ELSE text[i - Skipped] - 48]
             pair(i) == 10 * D[2 * i - 1] + D[2 * i]
             half == 32768 * number[1] + (number[2] \div 2)
             tens == 10 * (100 * (100 * (100 * (100 * pair(1) + pair(2))
                       + pair(3)) + pair(4)) + pair(5)) + D[11]
  <2>1. Decimal /\ Scratch = Number /\ Suffix /\ text[1] # 48
    BY DEF PrintInv, Complete, Written
  <2>2. ASSUME NEW i \in 1..12 PROVE D[i] = Digit(i) /\ D[i] \in 0..9
    <3>1. Digit(i) \in 0..9
      BY <2>1, DigitType
    <3>2. CASE i <= Skipped
      BY <2>1, <3>1, <3>2 DEF Suffix
    <3>3. CASE i > Skipped
      <4>1. text[i - Skipped] = Digit(i) + 48
        BY <2>1, <3>3 DEF Suffix
      <4>2. ~(i <= Skipped)
        BY <2>1, <3>3 DEF Suffix
      <4>. QED BY <3>1, <4>1, <4>2
    <3>4. i <= Skipped \/ i > Skipped
      BY <2>1 DEF Suffix
    <3>. QED BY <3>2, <3>3, <3>4
  <2>3. ASSUME Skipped < 12 PROVE D[Skipped + 1] # 0
    <3>1. /\ Skipped + 1 \in 1..12 /\ Skipped + 1 > Skipped
          /\ (Skipped + 1) - Skipped = 1
      BY <2>1, <2>3 DEF Suffix
    <3>2. text[1] = Digit(Skipped + 1) + 48
      <4>1. \A i \in 1..12 : i > Skipped => text[i - Skipped] = Digit(i) + 48
        BY <2>1 DEF Suffix
      <4>2. text[(Skipped + 1) - Skipped] = Digit(Skipped + 1) + 48
        BY <3>1, <4>1, Zenon
      <4>. QED BY <3>1, <4>2
    <3>. HIDE DEF D
    <3>. QED BY <2>1, <2>2, <3>1, <3>2
  <2>. HIDE DEF D
  <2>4. Scratch = 10 * tens + D[12]
    BY <2>1, <2>2, ScratchByDigits
  <2>5. tens \in Int /\ D[12] \in 0..9
    <3>1. \A i \in 1..12 : D[i] \in 0..9
      BY <2>2
    <3>2. \A i \in 1..6 : 2 * i - 1 \in 1..12 /\ 2 * i \in 1..12
      OBVIOUS
    <3>3. \A i \in 1..6 : pair(i) \in Int
      BY <3>1, <3>2
    <3>4. D[11] \in Int /\ D[12] \in 0..9
      BY <3>1
    <3>5. /\ pair(1) \in Int /\ pair(2) \in Int /\ pair(3) \in Int
          /\ pair(4) \in Int /\ pair(5) \in Int
      BY <3>3
    <3>. HIDE DEF pair
    <3>. QED BY <3>4, <3>5
  <2>6. /\ half \in Int /\ number[2] % 2 \in {0, 1}
        /\ Number = 2 * half + (number[2] % 2)
    <3>1. Fits(number[1], Modulus) /\ Fits(number[2], Modulus)
      BY NumberIsInteger DEF PrintInv
    <3>. QED BY <3>1 DEF Fits, Number, Joined
  <2>7. tens = half \div 5 /\ D[12] = 2 * (half % 5) + (number[2] % 2)
    <3> DEFINE d   == D[12]
               bit == number[2] % 2
    <3>. HIDE DEF tens, half
    <3>1. 10 * tens + d = 2 * half + bit
      BY <2>1, <2>4, <2>6
    <3>2. /\ tens \in Int /\ d \in 0..9 /\ half \in Int /\ bit \in {0, 1}
      BY <2>5, <2>6
    <3>. HIDE DEF d, bit
    <3>3. /\ half = 5 * (half \div 5) + (half % 5)
          /\ half % 5 \in 0..4 /\ half \div 5 \in Int
      BY <3>2
    <3>4. tens = half \div 5 /\ d = 2 * (half % 5) + bit
      BY <3>1, <3>2, <3>3
    <3>. QED BY <3>4 DEF d, bit
  <2>. QED BY <2>1, <2>2, <2>3, <2>7 DEF NumeralIsExact, D, Suffix, Skipped
<1>. QED BY Printing, <1>1, PTL

-----------------------------------------------------------------------------
(* Between two rounds: the number that the bits shifted in so far make.    *)

LEMMA Powers == \A n \in 0..16 : 2^n = Small[n + 1]
<1>1. /\ 2^0 = 1 /\ 2^1 = 2 /\ 2^2 = 4 /\ 2^3 = 8 /\ 2^4 = 16 /\ 2^5 = 32
      /\ 2^6 = 64 /\ 2^7 = 128 /\ 2^8 = 256 /\ 2^9 = 512 /\ 2^10 = 1024
      /\ 2^11 = 2048 /\ 2^12 = 4096 /\ 2^13 = 8192 /\ 2^14 = 16384
      /\ 2^15 = 32768 /\ 2^16 = 65536
  OBVIOUS
<1>2. ASSUME NEW n \in 0..16 PROVE 2^n = Small[n + 1]
  <2>1. /\ 2^0 = Small[0 + 1] /\ 2^1 = Small[1 + 1] /\ 2^2 = Small[2 + 1]
        /\ 2^3 = Small[3 + 1] /\ 2^4 = Small[4 + 1] /\ 2^5 = Small[5 + 1]
        /\ 2^6 = Small[6 + 1] /\ 2^7 = Small[7 + 1] /\ 2^8 = Small[8 + 1]
        /\ 2^9 = Small[9 + 1] /\ 2^10 = Small[10 + 1]
        /\ 2^11 = Small[11 + 1] /\ 2^12 = Small[12 + 1]
        /\ 2^13 = Small[13 + 1] /\ 2^14 = Small[14 + 1]
        /\ 2^15 = Small[15 + 1] /\ 2^16 = Small[16 + 1]
    BY <1>1 DEF Small
  <2>2. \/ n = 0 \/ n = 1 \/ n = 2 \/ n = 3 \/ n = 4 \/ n = 5 \/ n = 6
        \/ n = 7 \/ n = 8 \/ n = 9 \/ n = 10 \/ n = 11 \/ n = 12 \/ n = 13
        \/ n = 14 \/ n = 15 \/ n = 16
    OBVIOUS
  <2>. QED BY <2>1, <2>2, Zenon
<1>. QED BY <1>2

LEMMA TwoToPowers ==
  ASSUME NEW j \in 0..32
  PROVE  /\ j <= 16 => TwoTo(j) = 2^j
         /\ ~(j <= 16) => TwoTo(j) = Modulus * 2^(j - 16)
<1>1. CASE j <= 16
  <2>1. j \in 0..16
    BY <1>1
  <2>2. 2^j = Small[j + 1]
    BY <2>1, Powers, Zenon
  <2>. QED BY <1>1, <2>2 DEF TwoTo
<1>2. CASE ~(j <= 16)
  <2>1. j - 16 \in 0..16 /\ (j - 16) + 1 = j - 15
    BY <1>2
  <2>2. 2^(j - 16) = Small[j - 15]
    BY <2>1, Powers, Zenon
  <2>. QED BY <1>2, <2>2 DEF TwoTo, Modulus
<1>. QED BY <1>1, <1>2

\* Shifting a word left by some bits, and what falls out of it.
Factors(p, q) == \E k \in 0..16 : p = 2^k /\ q = 2^(16 - k)

LEMMA FactorsMultiply ==
  ASSUME NEW p, NEW q, Factors(p, q)
  PROVE  p \in Int /\ 1 <= p /\ q \in Int /\ 1 <= q /\ p * q = Modulus
<1>1. ASSUME NEW k \in 0..16, p = Small[k + 1], q = Small[17 - k]
      PROVE  p \in Int /\ 1 <= p /\ q \in Int /\ 1 <= q /\ p * q = Modulus
  BY <1>1 DEF Small, Modulus
<1>2. PICK k \in 0..16 : p = 2^k /\ q = 2^(16 - k)
  BY DEF Factors
<1>3. p = Small[k + 1]
  BY <1>2, Powers, Zenon
<1>4. q = Small[17 - k]
  <2>1. 16 - k \in 0..16 /\ (16 - k) + 1 = 17 - k
    OBVIOUS
  <2>. QED BY <1>2, <2>1, Powers, Zenon
<1>. QED BY <1>1, <1>3, <1>4, Zenon

LEMMA Shares ==
  ASSUME NEW p, NEW q, Factors(p, q), NEW n, Fits(n, Modulus)
  PROVE  /\ p \in Int /\ 1 <= p /\ q \in Int /\ 1 <= q
         /\ n \div q \in Int /\ 0 <= n \div q /\ n \div q < p
         /\ n % q \in Int /\ n * p \in Int /\ (n % q) * p \in Int
         /\ n * p = Modulus * (n \div q) + (n % q) * p
         /\ 0 <= (n % q) * p /\ (n % q) * p <= Modulus - p
         /\ (n * p) % Modulus = (n % q) * p
<1>1. p \in Int /\ 1 <= p /\ q \in Int /\ 1 <= q /\ p * q = Modulus
  BY FactorsMultiply
<1>2. n \in Int /\ 0 <= n /\ n < Modulus
  BY DEF Fits
<1>3. PICK a, b : a = n \div q /\ b = n % q
  OBVIOUS
<1>4. /\ a \in Int /\ b \in Int /\ 0 <= a /\ 0 <= b /\ b < q
      /\ n = q * a + b
  BY <1>1, <1>2, <1>3
<1>5. n * p = Modulus * a + b * p
  <2>1. (q * a + b) * p = (p * q) * a + b * p
    BY <1>1, <1>4
  <2>. QED BY <1>1, <1>4, <2>1
<1>6. 0 <= b * p /\ b * p <= Modulus - p
  <2>1. 0 <= b * p /\ 0 <= ((q - 1) - b) * p
    BY <1>1, <1>4
  <2>2. ((q - 1) - b) * p = (p * q - p) - b * p
    BY <1>1, <1>4
  <2>3. p * q - p = Modulus - p /\ b * p \in Int
    BY <1>1, <1>4
  <2>. QED BY <1>1, <2>1, <2>2, <2>3 DEF Modulus
<1>7. a < p
  <2>. SUFFICES ASSUME a >= p PROVE FALSE
    BY <1>1, <1>4
  <2>1. 0 <= (a - p) * q
    BY <1>1, <1>4
  <2>2. (a - p) * q = q * a - p * q
    BY <1>1, <1>4
  <2>3. q * a \in Int
    BY <1>1, <1>4
  <2>. QED BY <1>1, <1>2, <1>4, <2>1, <2>2, <2>3 DEF Modulus
<1>8. PICK w, u : w = n * p /\ u = b * p
  OBVIOUS
<1>9. /\ u \in Int /\ w = Modulus * a + u /\ 0 <= u /\ u <= Modulus - p
  BY <1>1, <1>4, <1>5, <1>6, <1>8
<1>10. w \in Int /\ w % Modulus = u
  BY <1>1, <1>4, <1>9 DEF Modulus
<1>. QED BY <1>1, <1>3, <1>4, <1>5, <1>6, <1>7, <1>8, <1>9, <1>10

\* The next bit of a word.
LEMMA Halved ==
  ASSUME NEW k \in 0..15, NEW n, Fits(n, Modulus)
  PROVE  /\ n \div 2^k = 2 * (n \div 2^(k + 1)) + ((n \div 2^k) % 2)
         /\ (n \div 2^k) % 2 \in {0, 1} /\ n \div 2^k \in Int
         /\ n \div 2^(k + 1) \in Int /\ 0 <= n \div 2^(k + 1)
<1>1. PICK q, r : q = 2^k /\ r = 2^(k + 1)
  OBVIOUS
<1>2. \/ q = 1 /\ r = 2
      \/ q = 2 /\ r = 4
      \/ q = 4 /\ r = 8
      \/ q = 8 /\ r = 16
      \/ q = 16 /\ r = 32
      \/ q = 32 /\ r = 64
      \/ q = 64 /\ r = 128
      \/ q = 128 /\ r = 256
      \/ q = 256 /\ r = 512
      \/ q = 512 /\ r = 1024
      \/ q = 1024 /\ r = 2048
      \/ q = 2048 /\ r = 4096
      \/ q = 4096 /\ r = 8192
      \/ q = 8192 /\ r = 16384
      \/ q = 16384 /\ r = 32768
      \/ q = 32768 /\ r = 65536
  <2>1. q = Small[k + 1]
    <3>1. k \in 0..16
      OBVIOUS
    <3>. QED BY <1>1, <3>1, Powers, Zenon
  <2>2. r = Small[k + 2]
    <3>1. k + 1 \in 0..16 /\ (k + 1) + 1 = k + 2
      OBVIOUS
    <3>. QED BY <1>1, <3>1, Powers, Zenon
  <2>. QED BY <2>1, <2>2 DEF Small
<1>3. n \in Int /\ 0 <= n
  BY DEF Fits
<1>4. /\ n \div q \in Int /\ n \div r \in Int /\ 0 <= n \div r
      /\ n \div r = (n \div q) \div 2
  BY <1>2, <1>3
<1>5. PICK h : h = n \div q
  OBVIOUS
<1>6. h = 2 * (h \div 2) + (h % 2) /\ h % 2 \in {0, 1}
  BY <1>4, <1>5
<1>. QED BY <1>1, <1>4, <1>5, <1>6

\* Each bit shifted in doubles the prefix and adds itself.
LEMMA PrefixGrows ==
  ASSUME NumberOK, NEW j \in 1..32
  PROVE  /\ Prefix(j - 1) \in Int /\ 0 <= Prefix(j - 1)
         /\ Prefix(j) = 2 * Prefix(j - 1) + Bit(j) /\ Bit(j) \in {0, 1}
<1>1. PICK m, n : m = number[1] /\ n = number[2]
  OBVIOUS
<1>2. Fits(m, Modulus) /\ Fits(n, Modulus)
  BY <1>1, NumberIsInteger
<1>3. /\ m \in Int /\ 0 <= m /\ n \in Int /\ 0 <= n
      /\ m < 65536 /\ n < 65536
  BY <1>2 DEF Fits, Modulus
<1>4. 2^0 = 1 /\ 2^1 = 2
  OBVIOUS
<1>5. CASE j <= 16
  <2>1. 16 - j \in 0..15 /\ (16 - j) + 1 = 16 - (j - 1)
    BY <1>5
  <2>2. PICK k : k = 16 - j
    OBVIOUS
  <2>3. PICK a, b : a = m \div 2^k /\ b = m \div 2^(k + 1)
    OBVIOUS
  <2>4. a = 2 * b + (a % 2) /\ a % 2 \in {0, 1} /\ b \in Int /\ 0 <= b
    BY <1>2, <2>1, <2>2, <2>3, Halved
  <2>5. Prefix(j) = a /\ Bit(j) = a % 2
    BY <1>1, <1>5, <2>2, <2>3 DEF Prefix, Bit
  <2>6. Prefix(j - 1) = b
    <3>1. j - 1 <= 16
      BY <1>5
    <3>2. Prefix(j - 1) = m \div 2^(16 - (j - 1))
      BY <1>1, <3>1, Zenon DEF Prefix
    <3>. QED BY <2>1, <2>2, <2>3, <3>2
  <2>. QED BY <2>4, <2>5, <2>6
<1>6. CASE j = 17
  <2>1. PICK a : a = n \div 2^15
    OBVIOUS
  <2>2. a = 2 * (n \div 65536) + (a % 2) /\ a % 2 \in {0, 1} /\ a \in Int
    <3>1. 2^15 = 32768 /\ 2^16 = 65536
      OBVIOUS
    <3>2. /\ n \div 32768 = 2 * (n \div 65536) + ((n \div 32768) % 2)
          /\ (n \div 32768) % 2 \in {0, 1} /\ n \div 32768 \in Int
      BY <1>3
    <3>. QED BY <2>1, <3>1, <3>2
  <2>3. n \div 65536 = 0
    BY <1>3
  <2>4. Prefix(j) = m * 2 + a /\ Bit(j) = a % 2
    <3>1. 17 - 16 = 1 /\ 32 - 17 = 15 /\ ~(17 <= 16)
      OBVIOUS
    <3>2. /\ Prefix(17) = m * 2^(17 - 16) + n \div 2^(32 - 17)
          /\ Bit(17) = (n \div 2^(32 - 17)) % 2
      BY <1>1, <3>1 DEF Prefix, Bit
    <3>. QED BY <1>4, <1>6, <2>1, <3>1, <3>2
  <2>5. Prefix(j - 1) = m
    <3>1. Prefix(16) = m \div 2^(16 - 16) /\ 16 - 16 = 0 /\ m \div 1 = m
      BY <1>1, <1>3 DEF Prefix
    <3>2. j - 1 = 16
      BY <1>6
    <3>3. Prefix(16) = m
      BY <1>4, <3>1
    <3>. QED BY <3>2, <3>3, Zenon
  <2>6. a % 2 = a /\ a \in {0, 1}
    BY <2>2, <2>3
  <2>7. m * 2 + a = 2 * m + a /\ m \in Int /\ 0 <= m
    BY <1>3
  <2>. QED BY <2>4, <2>5, <2>6, <2>7
<1>7. CASE j >= 18
  <2>1. /\ 32 - j \in 0..15 /\ (32 - j) + 1 = 32 - (j - 1)
        /\ j - 17 \in 0..15 /\ (j - 17) + 1 = j - 16 /\ (j - 1) - 16 = j - 17
        /\ ~(j <= 16) /\ ~(j - 1 <= 16)
    BY <1>7
  <2>2. PICK k : k = 32 - j
    OBVIOUS
  <2>3. PICK a, b : a = n \div 2^k /\ b = n \div 2^(k + 1)
    OBVIOUS
  <2>4. a = 2 * b + (a % 2) /\ a % 2 \in {0, 1} /\ b \in Int /\ 0 <= b
    BY <1>2, <2>1, <2>2, <2>3, Halved
  <2>5. PICK p : p = 2^(j - 17)
    OBVIOUS
  <2>6. 2^(j - 16) = 2 * p /\ p \in Int /\ 0 <= p
    <3>1. p = Small[(j - 17) + 1]
      <4>1. j - 17 \in 0..16
        BY <2>1
      <4>. QED BY <2>5, <4>1, Powers, Zenon
    <3>2. 2^(j - 16) = Small[(j - 16) + 1]
      <4>1. j - 16 \in 0..16
        BY <1>7
      <4>. QED BY <4>1, Powers, Zenon
    <3>3. /\ (j - 17) + 1 \in 1..16
          /\ (j - 16) + 1 = ((j - 17) + 1) + 1
      BY <1>7
    <3>4. \A i \in 1..16 : Small[i + 1] = 2 * Small[i] /\ Small[i] \in Nat
      BY DEF Small
    <3>. QED BY <3>1, <3>2, <3>3, <3>4
  <2>7. Prefix(j) = m * (2 * p) + a /\ Bit(j) = a % 2
    <3>1. /\ Prefix(j) = m * 2^(j - 16) + n \div 2^(32 - j)
          /\ Bit(j) = (n \div 2^(32 - j)) % 2
      BY <1>1, <2>1, Zenon DEF Prefix, Bit
    <3>. QED BY <2>2, <2>3, <2>6, <3>1
  <2>8. Prefix(j - 1) = m * p + b
    <3>1. Prefix(j - 1) = m * 2^((j - 1) - 16) + n \div 2^(32 - (j - 1))
      BY <1>1, <2>1, Zenon DEF Prefix
    <3>. QED BY <2>1, <2>2, <2>3, <2>5, <3>1
  <2>9. m * (2 * p) = 2 * (m * p) /\ m * p \in Int /\ 0 <= m * p
    BY <1>3, <2>6
  <2>. QED BY <2>4, <2>7, <2>8, <2>9
<1>. QED BY <1>5, <1>6, <1>7

\* A number below the modulus is found again under any multiple of it.
LEMMA Unique ==
  ASSUME NEW s \in Int, NEW a \in Int, NEW t, Fits(t, TwoTo32),
         NEW b, Fits(b, TwoTo32), s * TwoTo32 + t = a * TwoTo32 + b
  PROVE  s = a /\ t = b
BY DEF Fits, TwoTo32

LEMMA UniqueWords ==
  ASSUME NEW h, Fits(h, Modulus), NEW l, Fits(l, Modulus),
         NEW a, Fits(a, Modulus), NEW b, Fits(b, Modulus),
         Joined(h, l) = Joined(a, b)
  PROVE  h = a /\ l = b
BY DEF Fits, Joined, Modulus

\* Up to 16 bits, then from 16 bits on, what the number times a power of two
\* leaves in the scratchpad and in temp.
LEMMA FirstWord ==
  ASSUME NEW s \in Int, NEW p, NEW q, Factors(p, q),
         NEW h, Fits(h, Modulus), NEW l, Fits(l, Modulus),
         NEW m, Fits(m, Modulus), NEW n, Fits(n, Modulus),
         Held(s, Joined(h, l), Joined(m, n), p)
  PROVE  /\ s = m \div q
         /\ h = ((m * p) % Modulus) + n \div q
         /\ l = (n * p) % Modulus
<1>1. /\ p \in Int /\ 1 <= p
      /\ m \div q \in Int /\ (m % q) * p \in Int
      /\ m * p = Modulus * (m \div q) + (m % q) * p
      /\ 0 <= (m % q) * p /\ (m % q) * p <= Modulus - p
      /\ (m * p) % Modulus = (m % q) * p
  BY Shares
<1>2. /\ n \div q \in Int /\ 0 <= n \div q /\ n \div q < p
      /\ (n % q) * p \in Int
      /\ n * p = Modulus * (n \div q) + (n % q) * p
      /\ 0 <= (n % q) * p /\ (n % q) * p <= Modulus - p
      /\ (n * p) % Modulus = (n % q) * p
  BY Shares
<1>3. PICK mq, nq, mr, nr : /\ mq = m \div q /\ nq = n \div q
                            /\ mr = (m % q) * p /\ nr = (n % q) * p
  OBVIOUS
<1>4. /\ m \in Int /\ n \in Int
  BY DEF Fits
<1>5. /\ Fits(mr + nq, Modulus) /\ Fits(nr, Modulus)
  BY <1>1, <1>2, <1>3 DEF Fits, Modulus
<1>6. s * TwoTo32 + Joined(h, l) = mq * TwoTo32 + Joined(mr + nq, nr)
  <2>1. s * TwoTo32 + Joined(h, l) = Joined(m, n) * p
    BY DEF Held
  <2>2. Joined(m, n) * p = 65536 * (m * p) + n * p
    BY <1>1, <1>4 DEF Joined
  <2>3. 65536 * (m * p) + n * p
          = 65536 * (65536 * mq + mr) + (65536 * nq + nr)
    BY <1>1, <1>2, <1>3 DEF Modulus
  <2>4. 65536 * (65536 * mq + mr) + (65536 * nq + nr)
          = mq * TwoTo32 + Joined(mr + nq, nr)
    BY <1>1, <1>2, <1>3 DEF TwoTo32, Joined
  <2>. QED BY <2>1, <2>2, <2>3, <2>4
<1>7. /\ Fits(Joined(h, l), TwoTo32)
      /\ Fits(Joined(mr + nq, nr), TwoTo32)
  BY <1>5 DEF Fits, Joined, Modulus, TwoTo32
<1>8. s = mq /\ Joined(h, l) = Joined(mr + nq, nr)
  BY <1>1, <1>3, <1>6, <1>7, Unique
<1>9. h = mr + nq /\ l = nr
  BY <1>5, <1>8, UniqueWords
<1>. QED BY <1>1, <1>2, <1>3, <1>8, <1>9

LEMMA SecondWord ==
  ASSUME NEW s \in Int, NEW p, NEW q, Factors(p, q),
         NEW h, Fits(h, Modulus), NEW l, Fits(l, Modulus),
         NEW m, Fits(m, Modulus), NEW n, Fits(n, Modulus),
         Held(s, Joined(h, l), Joined(m, n), Modulus * p)
  PROVE  /\ s = m * p + n \div q
         /\ h = (n % q) * p
         /\ l = 0
<1>1. /\ p \in Int /\ 1 <= p /\ m * p \in Int
  BY Shares
<1>2. /\ n \div q \in Int /\ (n % q) * p \in Int
      /\ n * p = Modulus * (n \div q) + (n % q) * p
      /\ 0 <= (n % q) * p /\ (n % q) * p <= Modulus - p
  BY Shares
<1>3. PICK mp, nq, nr : /\ mp = m * p /\ nq = n \div q
                        /\ nr = (n % q) * p
  OBVIOUS
<1>4. /\ m \in Int /\ n \in Int
  BY DEF Fits
<1>5. /\ Fits(nr, Modulus) /\ Fits(0, Modulus)
  BY <1>1, <1>2, <1>3 DEF Fits, Modulus
<1>6. s * TwoTo32 + Joined(h, l) = (mp + nq) * TwoTo32 + Joined(nr, 0)
  <2>1. s * TwoTo32 + Joined(h, l) = Joined(m, n) * (65536 * p)
    BY DEF Held, Modulus
  <2>2. Joined(m, n) * (65536 * p) = 65536 * (65536 * (m * p) + n * p)
    BY <1>1, <1>4 DEF Joined
  <2>3. 65536 * (65536 * (m * p) + n * p)
          = 65536 * (65536 * mp + (65536 * nq + nr))
    BY <1>1, <1>2, <1>3 DEF Modulus
  <2>4. 65536 * (65536 * mp + (65536 * nq + nr))
          = (mp + nq) * TwoTo32 + Joined(nr, 0)
    BY <1>1, <1>2, <1>3 DEF TwoTo32, Joined
  <2>. QED BY <2>1, <2>2, <2>3, <2>4
<1>7. /\ Fits(Joined(h, l), TwoTo32)
      /\ Fits(Joined(nr, 0), TwoTo32)
  BY <1>5 DEF Fits, Joined, Modulus, TwoTo32
<1>8. s = mp + nq /\ Joined(h, l) = Joined(nr, 0)
  <2>1. mp + nq \in Int
    BY <1>1, <1>2, <1>3
  <2>. QED BY <1>6, <1>7, <2>1, Unique
<1>9. h = nr /\ l = 0
  BY <1>5, <1>8, UniqueWords
<1>. QED BY <1>3, <1>8, <1>9

\* So the number held determines both, however many bits have moved.
LEMMA PrefixHeld ==
  ASSUME NumberOK, TempFits, Decimal, NEW j \in 0..32,
         Held(Scratch, Temp, Number, TwoTo(j))
  PROVE  /\ Scratch = Prefix(j)
         /\ temp = IF j < 16
                   THEN <<((number[1] * 2^j) % Modulus)
                            + number[2] \div 2^(16 - j),
                          (number[2] * 2^j) % Modulus>>
                   ELSE <<(number[2] % 2^(32 - j)) * 2^(j - 16), 0>>
<1> DEFINE h == temp[1]
           l == temp[2]
           m == number[1]
           n == number[2]
<1>1. /\ Fits(h, Modulus) /\ Fits(l, Modulus) /\ temp = <<h, l>>
      /\ Fits(m, Modulus) /\ Fits(n, Modulus) /\ Scratch \in Int
  BY NumberIsInteger, ValuesAreIntegers DEF TempFits
<1>2. Held(Scratch, Joined(h, l), Joined(m, n), TwoTo(j))
  BY DEF Temp, Number
<1>3. m \in Int /\ 0 <= m /\ n \in Int /\ 0 <= n /\ n < 65536
  BY <1>1 DEF Fits, Modulus
<1>. HIDE DEF h, l, m, n
<1>4. CASE j < 16
  <2>1. PICK p, q : p = 2^j /\ q = 2^(16 - j)
    OBVIOUS
  <2>2. j \in 0..16 /\ j <= 16
    BY <1>4
  <2>3. TwoTo(j) = p
    BY <2>1, <2>2, TwoToPowers, Zenon
  <2>4. /\ Scratch = m \div q
        /\ h = ((m * p) % Modulus) + n \div q
        /\ l = (n * p) % Modulus
    <3>1. Held(Scratch, Joined(h, l), Joined(m, n), p)
      BY <1>2, <2>3
    <3>2. Factors(p, q)
      BY <2>1, <2>2 DEF Factors
    <3>. QED BY <1>1, <3>1, <3>2, FirstWord
  <2>5. Prefix(j) = m \div q
    BY <2>1, <2>2 DEF Prefix, m
  <2>. QED BY <1>1, <1>4, <2>1, <2>4, <2>5 DEF m, n
<1>5. CASE ~(j < 16)
  <2>1. PICK k : k = j - 16
    OBVIOUS
  <2>2. PICK p, q : p = 2^k /\ q = 2^(16 - k)
    OBVIOUS
  <2>3. k \in 0..16 /\ 16 - k = 32 - j
    BY <1>5, <2>1
  <2>4. TwoTo(j) = Modulus * p
    <3>1. CASE j = 16
      <4>1. TwoTo(16) = Small[17] /\ Small[17] = 65536
        BY DEF TwoTo, Small
      <4>2. p = 1
        <5>1. k = 0 /\ 2^0 = 1
          BY <2>1, <3>1
        <5>. QED BY <2>2, <5>1
      <4>. QED BY <3>1, <4>1, <4>2 DEF Modulus
    <3>2. CASE j # 16
      <4>1. ~(j <= 16)
        BY <1>5, <3>2
      <4>. QED BY <2>1, <2>2, <4>1, TwoToPowers, Zenon
    <3>. QED BY <3>1, <3>2
  <2>5. Scratch = m * p + n \div q /\ h = (n % q) * p /\ l = 0
    <3>1. Held(Scratch, Joined(h, l), Joined(m, n), Modulus * p)
      BY <1>2, <2>4
    <3>2. Factors(p, q)
      BY <2>2, <2>3 DEF Factors
    <3>. QED BY <1>1, <3>1, <3>2, SecondWord
  <2>6. Prefix(j) = m * p + n \div q
    <3>1. CASE j = 16
      <4>1. k = 0 /\ 16 - k = 16 /\ 16 - j = 0 /\ j <= 16
        BY <2>1, <3>1
      <4>2. 2^0 = 1 /\ 2^16 = 65536
        OBVIOUS
      <4>3. p = 1 /\ q = 65536
        <5>1. PICK e : e = 16 - k
          OBVIOUS
        <5>2. e = 16 /\ p = 2^k /\ q = 2^e
          BY <2>2, <4>1, <5>1
        <5>. QED BY <4>1, <4>2, <5>2
      <4>4. Prefix(j) = m \div 1
        <5>1. Prefix(j) = m \div 2^(16 - j)
          BY <4>1 DEF Prefix, m
        <5>2. PICK e : e = 16 - j
          OBVIOUS
        <5>3. e = 0 /\ Prefix(j) = m \div 2^e
          BY <4>1, <5>1, <5>2
        <5>. QED BY <4>2, <5>3
      <4>. QED BY <1>3, <4>3, <4>4
    <3>2. CASE j # 16
      <4>1. ~(j <= 16)
        BY <1>5, <3>2
      <4>. QED BY <2>1, <2>2, <2>3, <4>1, Zenon DEF Prefix, m, n
    <3>. QED BY <3>1, <3>2
  <2>. QED BY <1>1, <1>5, <2>1, <2>2, <2>3, <2>5, <2>6 DEF n
<1>. QED BY <1>4, <1>5

\* Between two rounds and after the last.
LEMMA BetweenRounds ==
  ASSUME PrintInv, pc # "double"
  PROVE  /\ NumberOK /\ TempFits /\ Decimal /\ 32 - y \in 0..32
         /\ Scratch < TwoTo32
         /\ Held(Scratch, Temp, Number, TwoTo(32 - y))
<1>1. NumberOK /\ Number \in Int /\ Number < TwoTo32
  BY NumberIsInteger DEF PrintInv
<1>2. CASE pc = "shift"
  <2>1. /\ y \in 1..32 /\ Decimal /\ TempFits /\ Scratch < TwoTo(32 - y)
        /\ Held(Scratch, Temp, Number, TwoTo(32 - y))
    BY <1>2 DEF PrintInv, Shifting
  <2>2. 32 - y \in 0..32
    BY <2>1
  <2>3. TwoTo(32 - y) \in Int /\ TwoTo(32 - y) <= TwoTo32
    BY <2>2, PowersOfTwo
  <2>4. Scratch \in Int
    BY <2>1, ValuesAreIntegers
  <2>5. Scratch < TwoTo32
    BY <2>1, <2>3, <2>4 DEF TwoTo32
  <2>. QED BY <1>1, <2>1, <2>2, <2>5
<1>3. CASE pc # "shift"
  <2>1. /\ Decimal /\ Scratch = Number /\ y = 0 /\ TempFits /\ Temp = 0
    BY <1>3 DEF PrintInv, Complete
  <2>2. 32 - y = 32 /\ 32 - y \in 0..32
    BY <2>1
  <2>3. Held(Scratch, Temp, Number, TwoTo(32 - y))
    BY <1>1, <2>1, <2>2, PowersOfTwo DEF Held, TwoTo32
  <2>. QED BY <1>1, <2>1, <2>2, <2>3
<1>. QED BY <1>2, <1>3

\* The scratchpad is at most ten digits long.
LEMMA TenDigits ==
  ASSUME Decimal, Scratch < TwoTo32
  PROVE  /\ \A i \in 1..12 : Digit(i) \in 0..9
         /\ Digit(1) = 0 /\ Digit(2) = 0
         /\ Leading \in Int /\ Scratch = 10 * Leading + Digit(12)
<1> DEFINE D == [i \in 1..12 |-> Digit(i)]
           pair(i) == 10 * D[2 * i - 1] + D[2 * i]
           tens == 10 * (100 * (100 * (100 * (100 * pair(1) + pair(2))
                     + pair(3)) + pair(4)) + pair(5)) + D[11]
<1>1. \A i \in 1..12 : Digit(i) \in 0..9
  BY DigitType
<1>2. \A i \in 1..12 : D[i] = Digit(i)
  OBVIOUS
<1>. HIDE DEF D
<1>3. Scratch = 10 * tens + D[12]
  BY <1>2, ScratchByDigits
<1>4. tens = Leading
  <2>1. \A i \in 1..5 : 2 * i - 1 \in 1..12 /\ 2 * i \in 1..12
    OBVIOUS
  <2>2. \A i \in 1..5 : pair(i) = 10 * Digit(2 * i - 1) + Digit(2 * i)
    BY <1>2, <2>1
  <2>3. D[11] = Digit(11)
    BY <1>2
  <2>. HIDE DEF pair
  <2>. QED BY <2>2, <2>3 DEF Leading
<1>5. \A i \in 1..5 : pair(i) \in 0..99
  <2>1. \A i \in 1..5 : 2 * i - 1 \in 1..12 /\ 2 * i \in 1..12
    OBVIOUS
  <2>2. \A i \in 1..12 : D[i] \in 0..9
    BY <1>1, <1>2
  <2>. QED BY <2>1, <2>2
<1>6. D[11] \in 0..9 /\ D[12] \in 0..9 /\ Digit(12) = D[12]
  BY <1>1, <1>2
<1>7. /\ pair(1) \in 0..99 /\ pair(2) \in 0..99 /\ pair(3) \in 0..99
      /\ pair(4) \in 0..99 /\ pair(5) \in 0..99
  BY <1>5
<1>8. pair(1) = 10 * Digit(1) + Digit(2)
  BY <1>2
<1>. HIDE DEF pair
<1>9. tens \in Int /\ pair(1) = 0
  <2>1. PICK a, b, c, d, e : /\ a = pair(1) /\ b = pair(2) /\ c = pair(3)
                             /\ d = pair(4) /\ e = pair(5)
    OBVIOUS
  <2>2. /\ a \in Int /\ b \in Int /\ c \in Int /\ d \in Int /\ e \in Int
        /\ 0 <= a /\ 0 <= b /\ 0 <= c /\ 0 <= d /\ 0 <= e
    BY <1>7, <2>1
  <2>3. PICK f, g : f = D[11] /\ g = D[12]
    OBVIOUS
  <2>4. f \in Int /\ 0 <= f /\ g \in Int /\ 0 <= g
    BY <1>6, <2>3
  <2>5. tens = 10 * (100 * (100 * (100 * (100 * a + b) + c) + d) + e) + f
    BY <2>1, <2>3
  <2>. HIDE DEF tens
  <2>6. tens \in Int
    BY <2>2, <2>4, <2>5
  <2>7. a = 0
    BY <1>3, <2>2, <2>3, <2>4, <2>5 DEF TwoTo32
  <2>. QED BY <2>1, <2>6, <2>7
<1>10. Digit(1) = 0 /\ Digit(2) = 0
  BY <1>1, <1>8, <1>9
<1>. HIDE DEF tens
<1>. QED BY <1>1, <1>3, <1>4, <1>6, <1>9, <1>10

\* For every number, between two rounds the scratchpad holds the decimal
\* numeral, of at most ten digits, of what the bits shifted in so far make,
\* and temp the other bits.
THEOREM PrefixesAreExact == Spec => []PrefixInDecimal
<1>1. PrintInv => PrefixInDecimal
  <2>. SUFFICES ASSUME PrintInv, pc # "double" PROVE PrefixInDecimal
    BY DEF PrefixInDecimal
  <2>1. PICK j : j = 32 - y
    OBVIOUS
  <2>2. /\ NumberOK /\ TempFits /\ Decimal /\ j \in 0..32
        /\ Scratch < TwoTo32 /\ Held(Scratch, Temp, Number, TwoTo(j))
    BY <2>1, BetweenRounds
  <2>3. /\ Scratch = Prefix(j)
        /\ temp = IF j < 16
                  THEN <<((number[1] * 2^j) % Modulus)
                           + number[2] \div 2^(16 - j),
                         (number[2] * 2^j) % Modulus>>
                  ELSE <<(number[2] % 2^(32 - j)) * 2^(j - 16), 0>>
    BY <2>2, PrefixHeld, Zenon
  <2>4. /\ \A i \in 1..12 : Digit(i) \in 0..9
        /\ Digit(1) = 0 /\ Digit(2) = 0
        /\ Leading \in Int /\ Scratch = 10 * Leading + Digit(12)
    BY <2>2, TenDigits
  <2>5. Leading = Tens(j) /\ Digit(12) = Ones(j)
    <3>1. PICK tens, d : tens = Leading /\ d = Digit(12)
      OBVIOUS
    <3>2. d \in 0..9 /\ tens \in Int /\ Prefix(j) = 10 * tens + d
      BY <2>3, <2>4, <3>1
    <3>3. CASE j = 0
      <4>1. Prefix(0) = 0
        <5>1. number[1] \in Int /\ 0 <= number[1] /\ number[1] < 65536
          BY <2>2, NumberIsInteger DEF Fits, Modulus
        <5>2. 2^16 = 65536 /\ 16 - 0 = 16
          OBVIOUS
        <5>3. Prefix(0) = number[1] \div 2^(16 - 0)
          BY DEF Prefix
        <5>. QED BY <5>1, <5>2, <5>3
      <4>. QED BY <3>1, <3>2, <3>3, <4>1 DEF Tens, Ones
    <3>4. CASE j # 0
      <4>1. j \in 1..32
        BY <2>2, <3>4
      <4>2. PICK half, bit : half = Prefix(j - 1) /\ bit = Bit(j)
        OBVIOUS
      <4>3. /\ half \in Int /\ bit \in {0, 1} /\ Prefix(j) = 2 * half + bit
        BY <2>2, <4>1, <4>2, PrefixGrows
      <4>4. /\ half = 5 * (half \div 5) + (half % 5)
            /\ half % 5 \in 0..4 /\ half \div 5 \in Int
        BY <4>3
      <4>5. tens = half \div 5 /\ d = 2 * (half % 5) + bit
        BY <3>2, <4>3, <4>4
      <4>. QED BY <3>1, <3>4, <4>2, <4>5 DEF Tens, Ones
    <3>. QED BY <3>3, <3>4
  <2>6. \A i \in 1..12 : Digit(i) <= 9
    BY <2>4
  <2>. QED BY <2>1, <2>3, <2>4, <2>5, <2>6 DEF PrefixInDecimal, Modulus
<1>. QED BY Printing, <1>1, PTL

=============================================================================
