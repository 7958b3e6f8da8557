----------------------------- MODULE AluLemmas -----------------------------
(***************************************************************************)
(* Facts about the operators of Alu, for whoever computes with them:       *)
(* carries and flags, the bytes and digits of a word, sums of numerals;    *)
(* and least numbers, on which the other proofs base their inductions.     *)
(***************************************************************************)
EXTENDS Alu, TLAPS, WellFoundedInduction

\* The values of a uint16_t by their bounds.
LEMMA UInt16Bounds == \A i : i \in UInt16 <=> i \in Int /\ 0 <= i /\ i <= 65535
<1>1. UINT16_MAX \in Int
  BY DEF UINT16_MAX
<1>2. \A i : i \in UInt16 <=> i \in Int /\ 0 <= i /\ i <= UINT16_MAX
  BY <1>1 DEF UInt16
<1>. QED BY <1>2 DEF UINT16_MAX

\* The two widths.
Moduli == {256, 65536}

\* What SignZero leaves in the flags.
LEMMA SignZeroFlags ==
  ASSUME NEW Q, NEW r \in Int, NEW W \in Int
  PROVE  \A g : g \notin {"n", "z"} => (g \in SignZero(Q, r, W) <=> g \in Q)
BY DEF SignZero, Put

\* A number of the width with modulus W, or of a digit's.
Fits(r, W) == r \in Int /\ 0 <= r /\ r < W

LEMMA Nibbles ==
  ASSUME NEW x, Fits(x, 256)
  PROVE  /\ x % 16 \in Int /\ x \div 16 \in Int
         /\ Fits(x % 16, 16) /\ Fits(x \div 16, 16)
         /\ x = (16 * (x \div 16)) + (x % 16)
BY DEF Fits

LEMMA Bytes ==
  ASSUME NEW x, Fits(x, 65536)
  PROVE  /\ Fits(Low(x), 256) /\ Fits(High(x), 256)
         /\ x = Word(High(x), Low(x))
BY DEF Fits, Low, High, Word

LEMMA WordOfBytes ==
  ASSUME NEW h, NEW l, Fits(h, 256), Fits(l, 256)
  PROVE  Fits(Word(h, l), 65536) /\ High(Word(h, l)) = h /\ Low(Word(h, l)) = l
BY DEF Fits, Low, High, Word

LEMMA ShiftLeftExact ==
  ASSUME NEW Q, NEW W \in Moduli, NEW x, Fits(x, W), NEW in \in {0, 1}
  PROVE  /\ Fits(ShiftLeft(Q, x, in, W).r, W)
         /\ ShiftLeft(Q, x, in, W).r + W * Carry(ShiftLeft(Q, x, in, W).P)
              = 2 * x + in
<1> DEFINE l == ((2 * x) % W) + in
<1>1. /\ Fits(l, W)
      /\ l + W * (IF x >= W \div 2 THEN 1 ELSE 0) = 2 * x + in
  <2>1. CASE W = 256
    BY <2>1 DEF Fits
  <2>2. CASE W = 65536
    BY <2>2 DEF Fits
  <2>. QED BY <2>1, <2>2 DEF Moduli
<1>2. /\ ShiftLeft(Q, x, in, W).r = l
      /\ ShiftLeft(Q, x, in, W).P = SignZero(Put(Q, "c", x >= W \div 2), l, W)
  BY DEF ShiftLeft, Result
<1>. HIDE DEF l
<1>3. Carry(ShiftLeft(Q, x, in, W).P) = IF x >= W \div 2 THEN 1 ELSE 0
  BY <1>2 DEF Carry, SignZero, Put
<1>. QED BY <1>1, <1>2, <1>3

IsDigit(x)   == x \in Int /\ 0 <= x /\ x <= 9
TwoDigits(x) == Fits(x, 256) /\ x % 16 <= 9 /\ x \div 16 <= 9
ByteValue(x) == (x % 16) + 10 * (x \div 16)

LEMMA DigitAdds ==
  ASSUME NEW x, NEW y, NEW c \in {0, 1}, IsDigit(x), IsDigit(y)
  PROVE  /\ IsDigit(DigitSum(x, y, c).x) /\ DigitSum(x, y, c).c \in {0, 1}
         /\ DigitSum(x, y, c).x + 10 * DigitSum(x, y, c).c = x + y + c
BY DEF DigitSum, Chained, IsDigit

LEMMA ByteAdds ==
  ASSUME NEW x, NEW y, NEW c \in {0, 1}, TwoDigits(x), TwoDigits(y)
  PROVE  LET s == BcdSum8(x, y, c)
         IN /\ TwoDigits(s.x) /\ s.c \in {0, 1}
            /\ ByteValue(s.x) + 100 * s.c = ByteValue(x) + ByteValue(y) + c
<1> DEFINE lo == DigitSum(x % 16, y % 16, c)
           hi == DigitSum(x \div 16, y \div 16, lo.c)
           s  == BcdSum8(x, y, c)
<1>1. /\ IsDigit(x % 16) /\ IsDigit(x \div 16)
      /\ IsDigit(y % 16) /\ IsDigit(y \div 16)
  BY Nibbles DEF TwoDigits, Fits, IsDigit
<1>2. /\ IsDigit(lo.x) /\ lo.c \in {0, 1}
      /\ lo.x + 10 * lo.c = (x % 16) + (y % 16) + c
  BY <1>1, DigitAdds
<1>3. /\ IsDigit(hi.x) /\ hi.c \in {0, 1}
      /\ hi.x + 10 * hi.c = (x \div 16) + (y \div 16) + lo.c
  <2>. HIDE DEF lo
  <2>. QED BY <1>1, <1>2, DigitAdds
<1>4. s.x = 16 * hi.x + lo.x /\ s.c = hi.c
  BY DEF BcdSum8, Chained
<1>. HIDE DEF lo, hi, s
<1>5. /\ s.x \in Int /\ 0 <= s.x /\ s.x < 256
      /\ s.x % 16 = lo.x /\ s.x \div 16 = hi.x
  BY <1>2, <1>3, <1>4 DEF IsDigit
<1>6. TwoDigits(s.x) /\ s.c \in {0, 1}
  BY <1>2, <1>3, <1>4, <1>5 DEF TwoDigits, Fits, IsDigit
<1>7. ByteValue(s.x) + 100 * s.c = ByteValue(x) + ByteValue(y) + c
  <2>1. ByteValue(s.x) = lo.x + 10 * hi.x
    BY <1>5 DEF ByteValue
  <2>2. /\ ByteValue(x) = (x % 16) + 10 * (x \div 16)
        /\ ByteValue(y) = (y % 16) + 10 * (y \div 16)
    BY DEF ByteValue
  <2>. QED BY <1>1, <1>2, <1>3, <1>4, <2>1, <2>2 DEF IsDigit
<1>. QED BY <1>6, <1>7 DEF s

\* Which flags ADC writes: N from the result, D never, and V not in decimal.
LEMMA SignFlag ==
  ASSUME NEW Q, NEW r, NEW W
  PROVE  /\ "n" \in SignZero(Q, r, W) <=> r >= W \div 2
         /\ "d" \in SignZero(Q, r, W) <=> "d" \in Q
         /\ "v" \in SignZero(Q, r, W) <=> "v" \in Q
         /\ "c" \in SignZero(Q, r, W) <=> "c" \in Q
BY DEF SignZero, Put

LEMMA FlagsOfADC ==
  ASSUME NEW Q, NEW x, NEW y, NEW W
  PROVE  /\ "n" \in ADC(Q, x, y, W).P <=> ADC(Q, x, y, W).r >= W \div 2
         /\ "d" \in ADC(Q, x, y, W).P <=> "d" \in Q
         /\ "d" \in Q => ("v" \in ADC(Q, x, y, W).P <=> "v" \in Q)
<1>1. CASE "d" \in Q
  <2>1. ADC(Q, x, y, W) = DecimalADC(Q, x, y, W)
    BY <1>1 DEF ADC
  <2>2. \A on : ("d" \in Put(Q, "c", on) <=> "d" \in Q)
                  /\ ("v" \in Put(Q, "c", on) <=> "v" \in Q)
    BY DEF Put
  <2>. QED BY <2>1, <2>2, SignFlag DEF DecimalADC, Result
<1>2. CASE "d" \notin Q
  <2>1. ADC(Q, x, y, W) = BinaryADC(Q, x, y, W)
    BY <1>2 DEF ADC
  <2>2. \A on, last : "d" \in Put(Put(Q, "v", on), "c", last) <=> "d" \in Q
    BY DEF Put
  <2>. QED BY <1>2, <2>1, <2>2, SignFlag DEF BinaryADC, Result
<1>. QED BY <1>1, <1>2

-----------------------------------------------------------------------------
(* Bytes and the bits they are made of.                                    *)

Weights  == {1, 2, 4, 8, 16, 32, 64, 128}
IsBit(x) == x \in Int /\ 0 <= x /\ x <= 1

\* The bits of a sum of bits times their weights are those bits.
LEMMA Binary ==
  ASSUME NEW b0, NEW b1, NEW b2, NEW b3, NEW b4, NEW b5, NEW b6, NEW b7,
         IsBit(b0), IsBit(b1), IsBit(b2), IsBit(b3),
         IsBit(b4), IsBit(b5), IsBit(b6), IsBit(b7),
         NEW n, n = b0 + 2 * b1 + 4 * b2 + 8 * b3 +
                    16 * b4 + 32 * b5 + 64 * b6 + 128 * b7
  PROVE  /\ Fits(n, 256)
         /\ (n \div 1) % 2 = b0
         /\ (n \div 2) % 2 = b1
         /\ (n \div 4) % 2 = b2
         /\ (n \div 8) % 2 = b3
         /\ (n \div 16) % 2 = b4
         /\ (n \div 32) % 2 = b5
         /\ (n \div 64) % 2 = b6
         /\ (n \div 128) % 2 = b7
<1>0. Fits(n, 256)
  BY DEF IsBit, Fits
<1>1. (n \div 1) % 2 = b0
  <2> DEFINE hi == b1 + 2 * b2 + 4 * b3 + 8 * b4
                   + 16 * b5 + 32 * b6 + 64 * b7
             lo == 0
  <2>1. /\ hi \in Int /\ lo \in Int /\ 0 <= lo /\ lo < 1
        /\ n = 2 * hi + 1 * b0 + lo
    BY DEF IsBit
  <2>. HIDE DEF hi, lo
  <2>. QED BY <2>1 DEF IsBit
<1>2. (n \div 2) % 2 = b1
  <2> DEFINE hi == b2 + 2 * b3 + 4 * b4 + 8 * b5 + 16 * b6 + 32 * b7
             lo == b0
  <2>1. /\ hi \in Int /\ lo \in Int /\ 0 <= lo /\ lo < 2
        /\ n = 4 * hi + 2 * b1 + lo
    BY DEF IsBit
  <2>. HIDE DEF hi, lo
  <2>. QED BY <2>1 DEF IsBit
<1>3. (n \div 4) % 2 = b2
  <2> DEFINE hi == b3 + 2 * b4 + 4 * b5 + 8 * b6 + 16 * b7
             lo == b0 + 2 * b1
  <2>1. /\ hi \in Int /\ lo \in Int /\ 0 <= lo /\ lo < 4
        /\ n = 8 * hi + 4 * b2 + lo
    BY DEF IsBit
  <2>. HIDE DEF hi, lo
  <2>. QED BY <2>1 DEF IsBit
<1>4. (n \div 8) % 2 = b3
  <2> DEFINE hi == b4 + 2 * b5 + 4 * b6 + 8 * b7
             lo == b0 + 2 * b1 + 4 * b2
  <2>1. /\ hi \in Int /\ lo \in Int /\ 0 <= lo /\ lo < 8
        /\ n = 16 * hi + 8 * b3 + lo
    BY DEF IsBit
  <2>. HIDE DEF hi, lo
  <2>. QED BY <2>1 DEF IsBit
<1>5. (n \div 16) % 2 = b4
  <2> DEFINE hi == b5 + 2 * b6 + 4 * b7
             lo == b0 + 2 * b1 + 4 * b2 + 8 * b3
  <2>1. /\ hi \in Int /\ lo \in Int /\ 0 <= lo /\ lo < 16
        /\ n = 32 * hi + 16 * b4 + lo
    BY DEF IsBit
  <2>. HIDE DEF hi, lo
  <2>. QED BY <2>1 DEF IsBit
<1>6. (n \div 32) % 2 = b5
  <2> DEFINE hi == b6 + 2 * b7
             lo == b0 + 2 * b1 + 4 * b2 + 8 * b3 + 16 * b4
  <2>1. /\ hi \in Int /\ lo \in Int /\ 0 <= lo /\ lo < 32
        /\ n = 64 * hi + 32 * b5 + lo
    BY DEF IsBit
  <2>. HIDE DEF hi, lo
  <2>. QED BY <2>1 DEF IsBit
<1>7. (n \div 64) % 2 = b6
  <2> DEFINE hi == b7
             lo == b0 + 2 * b1 + 4 * b2 + 8 * b3 + 16 * b4 + 32 * b5
  <2>1. /\ hi \in Int /\ lo \in Int /\ 0 <= lo /\ lo < 64
        /\ n = 128 * hi + 64 * b6 + lo
    BY DEF IsBit
  <2>. HIDE DEF hi, lo
  <2>. QED BY <2>1 DEF IsBit
<1>8. (n \div 128) % 2 = b7
  <2> DEFINE hi == 0
             lo == b0 + 2 * b1 + 4 * b2 + 8 * b3 + 16 * b4 + 32 * b5 + 64 * b6
  <2>1. /\ hi \in Int /\ lo \in Int /\ 0 <= lo /\ lo < 128
        /\ n = 256 * hi + 128 * b7 + lo
    BY DEF IsBit
  <2>. HIDE DEF hi, lo
  <2>. QED BY <2>1 DEF IsBit
<1>. QED BY <1>0, <1>1, <1>2, <1>3, <1>4, <1>5, <1>6, <1>7, <1>8

\* ByteOf and Bits are inverse.
LEMMA BitsOfByte ==
  ASSUME NEW S \in SUBSET Weights
  PROVE  Fits(ByteOf(S), 256) /\ Bits(ByteOf(S)) = S
<1> DEFINE b(w) == IF w \in S THEN 1 ELSE 0
           n == ByteOf(S)
<1>1. \A w \in Weights : (IF w \in S THEN w ELSE 0) = w * b(w)
  BY DEF Weights
<1>2. n = b(1) + 2 * b(2) + 4 * b(4) + 8 * b(8) +
          16 * b(16) + 32 * b(32) + 64 * b(64) + 128 * b(128)
  BY DEF ByteOf
<1>3. \A w : IsBit(b(w)) /\ ((b(w) = 1) <=> w \in S)
  BY DEF IsBit
<1>. HIDE DEF b, n
<1>4. /\ Fits(n, 256)
      /\ (n \div 1) % 2 = b(1)
      /\ (n \div 2) % 2 = b(2)
      /\ (n \div 4) % 2 = b(4)
      /\ (n \div 8) % 2 = b(8)
      /\ (n \div 16) % 2 = b(16)
      /\ (n \div 32) % 2 = b(32)
      /\ (n \div 64) % 2 = b(64)
      /\ (n \div 128) % 2 = b(128)
  BY <1>2, <1>3, Binary
<1>5. \A w \in Weights : (n \div w) % 2 = b(w)
  BY <1>4 DEF Weights
<1>6. Bits(n) = {w \in Weights : (n \div w) % 2 = 1}
  BY DEF Bits, Weights
<1>. QED BY <1>3, <1>4, <1>5, <1>6 DEF n

LEMMA ByteOfBits ==
  ASSUME NEW n, Fits(n, 256)
  PROVE  ByteOf(Bits(n)) = n
<1> DEFINE b(w) == (n \div w) % 2
<1>1. \A w \in Weights : IsBit(b(w)) /\ (w \in Bits(n) <=> b(w) = 1)
  BY DEF Weights, Bits, IsBit, Fits
<1>2. /\ n = 2 * (n \div 2) + b(1)
      /\ n \div 2 = 2 * (n \div 4) + b(2)
      /\ n \div 4 = 2 * (n \div 8) + b(4)
      /\ n \div 8 = 2 * (n \div 16) + b(8)
      /\ n \div 16 = 2 * (n \div 32) + b(16)
      /\ n \div 32 = 2 * (n \div 64) + b(32)
      /\ n \div 64 = 2 * (n \div 128) + b(64)
      /\ n \div 128 = b(128)
  BY DEF Fits
<1>3. n = b(1) + 2 * b(2) + 4 * b(4) + 8 * b(8) +
          16 * b(16) + 32 * b(32) + 64 * b(64) + 128 * b(128)
  BY <1>2 DEF Fits
<1>. HIDE DEF b
<1>4. /\ (IF 1 \in Bits(n) THEN 1 ELSE 0) = b(1)
      /\ (IF 2 \in Bits(n) THEN 2 ELSE 0) = 2 * b(2)
      /\ (IF 4 \in Bits(n) THEN 4 ELSE 0) = 4 * b(4)
      /\ (IF 8 \in Bits(n) THEN 8 ELSE 0) = 8 * b(8)
      /\ (IF 16 \in Bits(n) THEN 16 ELSE 0) = 16 * b(16)
      /\ (IF 32 \in Bits(n) THEN 32 ELSE 0) = 32 * b(32)
      /\ (IF 64 \in Bits(n) THEN 64 ELSE 0) = 64 * b(64)
      /\ (IF 128 \in Bits(n) THEN 128 ELSE 0) = 128 * b(128)
  BY <1>1 DEF Weights, IsBit
<1>. QED BY <1>3, <1>4 DEF ByteOf

\* A byte and its complement have no bit in common.
LEMMA Complement ==
  ASSUME NEW n, Fits(n, 256)
  PROVE  Bits(255 - n) \cap Bits(n) = {}
<1> DEFINE m == 255 - n
<1>1. /\ (m \div 1) % 2 = 1 - ((n \div 1) % 2)
      /\ (m \div 2) % 2 = 1 - ((n \div 2) % 2)
      /\ (m \div 4) % 2 = 1 - ((n \div 4) % 2)
      /\ (m \div 8) % 2 = 1 - ((n \div 8) % 2)
      /\ (m \div 16) % 2 = 1 - ((n \div 16) % 2)
      /\ (m \div 32) % 2 = 1 - ((n \div 32) % 2)
      /\ (m \div 64) % 2 = 1 - ((n \div 64) % 2)
      /\ (m \div 128) % 2 = 1 - ((n \div 128) % 2)
  BY DEF Fits
<1>2. m \in Int /\ n \in Int
  BY DEF Fits
<1>. HIDE DEF m
<1>3. \A w \in Weights : (m \div w) % 2 = 1 => (n \div w) % 2 # 1
  BY <1>1, <1>2 DEF Weights
<1>. QED BY <1>3 DEF Bits, Weights, m

LEMMA BytesOverlap ==
  ASSUME NEW S, NEW T
  PROVE  ByteOf(S) + ByteOf(T) = ByteOf(S \cup T) + ByteOf(S \cap T)
BY DEF ByteOf

-----------------------------------------------------------------------------
(* Least elements and induction, without a predicate as a parameter.       *)

Less == {ss \in Nat \X Nat : ss[1] < ss[2]}

LEMMA Least ==
  ASSUME NEW T, T \subseteq Nat, T # {}
  PROVE  \E x \in T : \A y \in T : x <= y
<1>1. IsWellFoundedOn(Less, Nat)
  BY NatLessThanWellFounded DEF OpToRel, Less
<1>2. PICK x \in T : \A y \in T : ~(<<y, x>> \in Less)
  BY <1>1, WFMin
<1>3. \A y \in T : x <= y
  <2>. SUFFICES ASSUME NEW y \in T PROVE x <= y
    OBVIOUS
  <2>1. x \in Nat /\ y \in Nat
    OBVIOUS
  <2>2. <<y, x>> \notin Less
    BY <1>2
  <2>3. ~(y < x)
    BY <2>1, <2>2 DEF Less
  <2>. QED BY <2>1, <2>3
<1>. QED BY <1>3

\* What holds of 0 and is handed on holds up to the bound.
LEMMA UpTo ==
  ASSUME NEW n \in Nat, NEW S, 0 \in S,
         \A i \in 0..n-1 : i \in S => i + 1 \in S
  PROVE  0..n \subseteq S
<1>. SUFFICES ASSUME NEW z \in 0..n, z \notin S PROVE FALSE
  OBVIOUS
<1> DEFINE T == {i \in 0..n : i \notin S}
<1>1. PICK x \in T : \A y \in T : x <= y
  <2>1. T \subseteq Nat /\ T # {}
    OBVIOUS
  <2>. HIDE DEF T
  <2>. QED BY <2>1, Least
<1>2. x \in 0..n /\ x \notin S /\ x # 0
  OBVIOUS
<1>3. x - 1 \in 0..n-1 /\ x - 1 \notin T
  BY <1>1, <1>2
<1>. QED BY <1>2, <1>3

=============================================================================
