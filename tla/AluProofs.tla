----------------------------- MODULE AluProofs -----------------------------
(***************************************************************************)
(* What AluMachine's properties say holds for every word, every set of     *)
(* flags and any number of instructions.                                   *)
(*                                                                         *)
(* The inductive invariant is the type invariant: all the others are facts *)
(* about the operators of Alu on words.  Each operator gets a lemma that   *)
(* gives its result as an equation between integers, and each property is  *)
(* then arithmetic.  Moduli are the two widths; a step that the provers    *)
(* can only take with numbers is taken once per width.                     *)
(***************************************************************************)
EXTENDS AluMachine, AluLemmas

\* The sum of two numbers below W and a carry, and its last two carries.
LEMMA BinaryADCExact ==
  ASSUME NEW Q, NEW W \in Moduli, NEW x \in Int, NEW y \in Int,
         0 <= x, x < W, 0 <= y, y < W
  PROVE  LET s == BinaryADC(Q, x, y, W)
         IN /\ s.r \in Int /\ 0 <= s.r /\ s.r < W
            /\ s.r + W * Carry(s.P) = x + y + Carry(Q)
            /\ "v" \in s.P <=>
                 ((x % (W \div 2)) + (y % (W \div 2)) + Carry(Q) >= W \div 2)
                   # (x + y + Carry(Q) >= W)
<1> DEFINE sum == x + y + Carry(Q)
           partial == (x % (W \div 2)) + (y % (W \div 2)) + Carry(Q)
           P1 == Put(Q, "v", (sum >= W) # (partial >= W \div 2))
           P2 == Put(P1, "c", sum >= W)
           s == BinaryADC(Q, x, y, W)
<1>1. Carry(Q) \in {0, 1}
  BY DEF Carry
<1>2. s.r = sum % W /\ s.P = SignZero(P2, sum % W, W)
  BY DEF BinaryADC, Result
<1>3. sum \in Int /\ sum % W = (IF sum >= W THEN sum - W ELSE sum)
  <2>1. CASE W = 256
    BY <1>1, <2>1
  <2>2. CASE W = 65536
    BY <1>1, <2>2
  <2>. QED BY <2>1, <2>2 DEF Moduli
<1>a. W \in Int /\ sum % W \in Int
  BY <1>1, <1>3 DEF Moduli
<1>4. "c" \in s.P <=> sum >= W
  <2>1. "c" \in s.P <=> "c" \in P2
    BY <1>2, <1>a, SignZeroFlags
  <2>. QED BY <2>1 DEF Put
<1>5. "v" \in s.P <=> (sum >= W) # (partial >= W \div 2)
  <2>1. "v" \in s.P <=> "v" \in P2
    BY <1>2, <1>a, SignZeroFlags
  <2>. QED BY <2>1 DEF Put
<1>6. Carry(s.P) = IF sum >= W THEN 1 ELSE 0
  BY <1>4 DEF Carry
<1>7. s.r \in Int /\ 0 <= s.r /\ s.r < W
  BY <1>1, <1>2, <1>3, <1>a DEF Moduli
<1>8. s.r + W * Carry(s.P) = sum
  BY <1>1, <1>2, <1>3, <1>a, <1>6 DEF Moduli
<1>. HIDE DEF sum, partial, P1, P2, s
<1>. QED BY <1>5, <1>7, <1>8 DEF sum, partial, s

\* What an instruction sees of a word, and the sign bit and the rest of it.
LEMMA SeenBounds ==
  ASSUME a \in UInt16, mem \in UInt16
  PROVE  /\ M \in Moduli
         /\ Seen(a) \in Int /\ 0 <= Seen(a) /\ Seen(a) < M
         /\ Seen(mem) \in Int /\ 0 <= Seen(mem) /\ Seen(mem) < M
<1>1. M \in Moduli
  BY DEF M, Moduli
<1>. QED BY <1>1, UInt16Bounds DEF Seen, Moduli

LEMMA SignBit ==
  ASSUME NEW W \in Moduli, NEW x \in Int, 0 <= x, x < W
  PROVE  x % (W \div 2) = IF x >= W \div 2 THEN x - (W \div 2) ELSE x
<1>1. CASE W = 256
  BY <1>1
<1>2. CASE W = 65536
  BY <1>2
<1>. QED BY <1>1, <1>2 DEF Moduli

LEMMA AdditionOfWords ==
  ASSUME a \in UInt16, mem \in UInt16
  PROVE  AdditionIsExact
<1> DEFINE x == Seen(a)
           y == Seen(mem)
           s == BinaryADC(P, x, y, M)
<1>1. /\ M \in Moduli
      /\ x \in Int /\ 0 <= x /\ x < M
      /\ y \in Int /\ 0 <= y /\ y < M
  BY SeenBounds
<1>2. /\ s.r + M * Carry(s.P) = x + y + Carry(P)
      /\ "v" \in s.P <=>
           ((x % (M \div 2)) + (y % (M \div 2)) + Carry(P) >= M \div 2)
             # (x + y + Carry(P) >= M)
  BY <1>1, BinaryADCExact
<1>3. /\ x % (M \div 2) = IF x >= M \div 2 THEN x - (M \div 2) ELSE x
      /\ y % (M \div 2) = IF y >= M \div 2 THEN y - (M \div 2) ELSE y
  BY <1>1, SignBit
<1>4. M = 2 * (M \div 2) /\ M \div 2 \in Int /\ M \in Int
  BY <1>1 DEF Moduli
<1>5. Carry(P) \in {0, 1}
  BY DEF Carry
<1> DEFINE total == Signed(x) + Signed(y) + Carry(P)
<1>6. total \in Int
  BY <1>1, <1>4, <1>5 DEF Signed
<1>7. total \in -(M \div 2)..(M \div 2 - 1) <=>
        -(M \div 2) <= total /\ total <= M \div 2 - 1
  BY <1>4, <1>6
<1>8. "v" \in s.P <=> total \notin -(M \div 2)..(M \div 2 - 1)
  <2>1. "v" \in s.P <=> ~(-(M \div 2) <= total /\ total <= M \div 2 - 1)
    BY <1>1, <1>2, <1>3, <1>4, <1>5 DEF Signed
  <2>. QED BY <2>1, <1>7
<1>. QED BY <1>2, <1>8 DEF AdditionIsExact

-----------------------------------------------------------------------------
(* Subtraction of bytes: the two bits that execute8BitSBC looks at are the *)
(* signs of the two differences.                                           *)

LEMMA Borrows ==
  /\ \A d \in Int : -256 <= d /\ d < 256 => BitSet(d, 256) = (d < 0)
  /\ \A d \in Int : -128 <= d /\ d < 128 => BitSet(d, 128) = (d < 0)
BY DEF BitSet

LEMMA BinarySBCExact ==
  ASSUME NEW Q, NEW x \in Int, NEW y \in Int,
         0 <= x, x < 256, 0 <= y, y < 256
  PROVE  LET s == BinarySBC(Q, x, y, 256)
             d == x - y - (1 - Carry(Q))
         IN /\ s.r = (IF d < 0 THEN d + 256 ELSE d)
            /\ "c" \in s.P <=> d >= 0
            /\ "v" \in s.P <=>
                 ((x % 128) - (y % 128) - (1 - Carry(Q)) < 0) # (d < 0)
            /\ "z" \in s.P <=> s.r = 0
            /\ "n" \in s.P <=> s.r >= 128
<1> DEFINE d == x - y - (1 - Carry(Q))
           partial == (x % 128) - (y % 128) - (1 - Carry(Q))
           s == BinarySBC(Q, x, y, 256)
           P1 == Put(Q, "v", BitSet(d, 256) # BitSet(partial, 128))
           P2 == Put(P1, "c", ~BitSet(d, 256))
<1>1. Carry(Q) \in {0, 1}
  BY DEF Carry
<1>2. d \in Int /\ -256 <= d /\ d < 256
  BY <1>1
<1>3. partial \in Int /\ -128 <= partial /\ partial < 128
  BY <1>1
<1>4. BitSet(d, 256) = (d < 0) /\ BitSet(partial, 128) = (partial < 0)
  BY <1>2, <1>3, Borrows
<1>5. 256 \div 2 = 128
  OBVIOUS
<1>6. s.r = d % 256 /\ s.P = SignZero(P2, d % 256, 256)
  BY <1>5 DEF BinarySBC, Result
<1>. HIDE DEF d, partial, P1, P2, s
<1>7. d % 256 = (IF d < 0 THEN d + 256 ELSE d) /\ d % 256 \in Int
  BY <1>2
<1>8. \A g : g \notin {"n", "z"} => (g \in s.P <=> g \in P2)
  BY <1>6, <1>7, SignZeroFlags
<1>9. ("c" \in s.P <=> ~BitSet(d, 256))
  BY <1>8 DEF P2, Put
<1>10. ("v" \in s.P <=> BitSet(d, 256) # BitSet(partial, 128))
  BY <1>8 DEF P2, P1, Put
<1>11. ("z" \in s.P <=> d % 256 = 0) /\ ("n" \in s.P <=> d % 256 >= 128)
  BY <1>5, <1>6 DEF SignZero, Put
<1>12. d \in Int /\ (d >= 0 <=> ~(d < 0))
  BY <1>2
<1>13. /\ s.r = (IF d < 0 THEN d + 256 ELSE d)
       /\ "z" \in s.P <=> s.r = 0
       /\ "n" \in s.P <=> s.r >= 128
  BY <1>6, <1>7, <1>11
<1>14. "c" \in s.P <=> d >= 0
  BY <1>4, <1>9, <1>12
<1>15. "v" \in s.P <=> (partial < 0) # (d < 0)
  BY <1>4, <1>10
<1>. QED BY <1>13, <1>14, <1>15 DEF d, partial, s

LEMMA SubtractionOfBytes ==
  ASSUME a \in UInt16, mem \in UInt16
  PROVE  SubtractionOfBytesIsExact
<1>. SUFFICES ASSUME Narrow PROVE
       LET s == BinarySBC(P, Seen(a), Seen(mem), M)
       IN /\ s.r - M * (1 - Carry(s.P)) = Seen(a) - Seen(mem) - (1 - Carry(P))
          /\ "v" \in s.P <=>
               Signed(Seen(a)) - Signed(Seen(mem)) - (1 - Carry(P))
                 \notin -(M \div 2)..(M \div 2 - 1)
  BY DEF SubtractionOfBytesIsExact
<1> DEFINE x == Seen(a)
           y == Seen(mem)
           s == BinarySBC(P, x, y, M)
           total == Signed(x) - Signed(y) - (1 - Carry(P))
<1>1. M = 256 /\ M \div 2 = 128
  BY DEF M
<1>2. x \in Int /\ 0 <= x /\ x < 256 /\ y \in Int /\ 0 <= y /\ y < 256
  BY <1>1, SeenBounds
<1>3. Carry(P) \in {0, 1}
  BY DEF Carry
<1> DEFINE d == x - y - (1 - Carry(P))
<1>4. /\ s.r = (IF d < 0 THEN d + 256 ELSE d)
      /\ "c" \in s.P <=> d >= 0
      /\ "v" \in s.P <=> ((x % 128) - (y % 128) - (1 - Carry(P)) < 0) # (d < 0)
  BY <1>1, <1>2, BinarySBCExact
<1>5. /\ x % 128 = IF x >= 128 THEN x - 128 ELSE x
      /\ y % 128 = IF y >= 128 THEN y - 128 ELSE y
  BY <1>2
<1>6. /\ Signed(x) = IF x >= 128 THEN x - 256 ELSE x
      /\ Signed(y) = IF y >= 128 THEN y - 256 ELSE y
  BY <1>1 DEF Signed
<1>. HIDE DEF x, y, s
<1>7. s.r - 256 * (1 - Carry(s.P)) = d
  BY <1>2, <1>3, <1>4 DEF Carry
<1>8. total \in Int
  BY <1>2, <1>3, <1>6
<1>9. total \in -128..127 <=> -128 <= total /\ total <= 127
  BY <1>8
<1>10. "v" \in s.P <=> ~(-128 <= total /\ total <= 127)
  BY <1>2, <1>3, <1>4, <1>5, <1>6
<1>11. -(M \div 2)..(M \div 2 - 1) = -128..127
  BY <1>1
<1>12. "v" \in s.P <=> total \notin -(M \div 2)..(M \div 2 - 1)
  BY <1>9, <1>10, <1>11
<1>. QED BY <1>1, <1>7, <1>12 DEF x, y, s

\* SBC of bytes after SEC, or with a borrow: the difference, and its flags.
LEMMA ByteDifference ==
  ASSUME NEW Q, NEW x, NEW y, Fits(x, 256), Fits(y, 256)
  PROVE  LET s == BinarySBC(Q, x, y, 256)
             d == x - y - (1 - Carry(Q))
         IN /\ s.r = (IF d < 0 THEN d + 256 ELSE d) /\ Fits(s.r, 256)
            /\ "c" \in s.P <=> d >= 0
            /\ "z" \in s.P <=> s.r = 0
            /\ "n" \in s.P <=> s.r >= 128
<1>1. x \in Int /\ 0 <= x /\ x < 256 /\ y \in Int /\ 0 <= y /\ y < 256
  BY DEF Fits
<1>2. Carry(Q) \in {0, 1}
  BY DEF Carry
<1> DEFINE s == BinarySBC(Q, x, y, 256)
           d == x - y - (1 - Carry(Q))
<1>3. /\ s.r = (IF d < 0 THEN d + 256 ELSE d)
      /\ "c" \in s.P <=> d >= 0
      /\ "z" \in s.P <=> s.r = 0
      /\ "n" \in s.P <=> s.r >= 128
  <2>1. /\ s.r = (IF d < 0 THEN d + 256 ELSE d)
        /\ "c" \in s.P <=> d >= 0
        /\ "v" \in s.P <=>
             ((x % 128) - (y % 128) - (1 - Carry(Q)) < 0) # (d < 0)
        /\ "z" \in s.P <=> s.r = 0
        /\ "n" \in s.P <=> s.r >= 128
    BY <1>1, BinarySBCExact, ZenonT(60)
  <2>. QED BY <2>1
<1>. HIDE DEF s
<1>4. Fits(s.r, 256)
  BY <1>1, <1>2, <1>3 DEF Fits
<1>. QED BY <1>3, <1>4 DEF s

LEMMA ComparisonFlags ==
  ASSUME NEW Q, NEW x \in Int, NEW y \in Int, NEW W \in {256, 65536}
  PROVE  /\ "c" \in CMP(Q, x, y, W) <=> x >= y
         /\ "z" \in CMP(Q, x, y, W) <=> (x - y) % W = 0
         /\ "n" \in CMP(Q, x, y, W) <=> (x - y) % W >= W \div 2
BY DEF CMP, SignZero, Put

LEMMA ComparisonOfBytes ==
  ASSUME NEW Q, NEW x, NEW y, Fits(x, 256), Fits(y, 256)
  PROVE  CMP(Q, x, y, 256) \cap {"c", "n", "z"} =
           BinarySBC(Q \cup {"c"}, x, y, 256).P \cap {"c", "n", "z"}
<1> DEFINE s == BinarySBC(Q \cup {"c"}, x, y, 256)
           t == CMP(Q, x, y, 256)
           d == x - y - (1 - Carry(Q \cup {"c"}))
<1>1. x \in Int /\ 0 <= x /\ x < 256 /\ y \in Int /\ 0 <= y /\ y < 256
  BY DEF Fits
<1>2. d = x - y
  <2>1. Carry(Q \cup {"c"}) = 1
    BY DEF Carry
  <2>. QED BY <1>1, <2>1
<1>3. /\ s.r = (IF d < 0 THEN d + 256 ELSE d)
      /\ "c" \in s.P <=> d >= 0
      /\ "z" \in s.P <=> s.r = 0
      /\ "n" \in s.P <=> s.r >= 128
  BY ByteDifference
<1>4. /\ "c" \in t <=> x >= y
      /\ "z" \in t <=> (x - y) % 256 = 0
      /\ "n" \in t <=> (x - y) % 256 >= 128
  <2>1. 256 \div 2 = 128
    OBVIOUS
  <2>. QED BY <1>1, <2>1, ComparisonFlags
<1>. HIDE DEF s, t, d
<1>5. (x - y) % 256 = s.r
  BY <1>1, <1>2, <1>3
<1>6. x >= y <=> d >= 0
  BY <1>1, <1>2
<1>. QED BY <1>3, <1>4, <1>5, <1>6 DEF s, t

\* A word less another is, byte by byte, the two differences with the borrow
\* between them.
LEMMA ComparisonOfWords ==
  ASSUME NEW Q, NEW x, NEW y, Fits(x, 65536), Fits(y, 65536)
  PROVE  LET t  == CMP(Q, x, y, 65536)
             lo == BinarySBC(Q \cup {"c"}, Low(x), Low(y), 256)
             hi == BinarySBC(lo.P, High(x), High(y), 256)
         IN /\ t \cap {"c", "n"} = hi.P \cap {"c", "n"}
            /\ "z" \in t <=> lo.r = 0 /\ hi.r = 0
<1> DEFINE t  == CMP(Q, x, y, 65536)
           lo == BinarySBC(Q \cup {"c"}, Low(x), Low(y), 256)
           hi == BinarySBC(lo.P, High(x), High(y), 256)
           xl == Low(x)
           xh == High(x)
           yl == Low(y)
           yh == High(y)
           dl == xl - yl - (1 - Carry(Q \cup {"c"}))
           dh == xh - yh - (1 - Carry(lo.P))
<1>1. /\ Fits(xl, 256) /\ Fits(xh, 256) /\ Fits(yl, 256) /\ Fits(yh, 256)
      /\ x = Word(xh, xl) /\ y = Word(yh, yl)
  BY Bytes
<1>2. /\ lo.r = (IF dl < 0 THEN dl + 256 ELSE dl) /\ Fits(lo.r, 256)
      /\ "c" \in lo.P <=> dl >= 0
  BY <1>1, ByteDifference
<1>3. /\ hi.r = (IF dh < 0 THEN dh + 256 ELSE dh) /\ Fits(hi.r, 256)
      /\ "c" \in hi.P <=> dh >= 0
      /\ "n" \in hi.P <=> hi.r >= 128
  <2>. HIDE DEF lo
  <2>. QED BY <1>1, ByteDifference
<1>4. /\ x \in Int /\ y \in Int
      /\ "c" \in t <=> x >= y
      /\ "z" \in t <=> (x - y) % 65536 = 0
      /\ "n" \in t <=> (x - y) % 65536 >= 32768
  <2>1. 65536 \div 2 = 32768 /\ x \in Int /\ y \in Int
    BY DEF Fits
  <2>. QED BY <2>1, ComparisonFlags
<1>5. Carry(Q \cup {"c"}) = 1 /\ Carry(lo.P) = IF dl >= 0 THEN 1 ELSE 0
  BY <1>2 DEF Carry
<1>. HIDE DEF t, lo, hi, xl, xh, yl, yh
<1>6. x - y = 256 * (xh - yh) + (xl - yl)
  BY <1>1 DEF Word, Fits
<1>7. x - y = 256 * dh + lo.r
  BY <1>1, <1>2, <1>5, <1>6 DEF Fits
<1>8. /\ x >= y <=> dh >= 0
      /\ (x - y) % 65536 = 256 * hi.r + lo.r
  <2>1. PICK e \in Int : e = dh
    BY <1>1, <1>5 DEF Fits
  <2>. HIDE DEF dh
  <2>2. -65536 <= x - y /\ x - y < 65536 /\ x - y \in Int
    BY DEF Fits
  <2>3. CASE e >= 0
    BY <1>2, <1>3, <1>4, <1>7, <2>1, <2>2, <2>3 DEF Fits
  <2>4. CASE e < 0
    <3>1. (x - y) + 65536 = 256 * hi.r + lo.r
      BY <1>2, <1>3, <1>7, <2>1, <2>4 DEF Fits
    <3>2. x - y < 0
      BY <1>2, <1>7, <2>1, <2>4 DEF Fits
    <3>3. (x - y) % 65536 = (x - y) + 65536
      BY <2>2, <3>2
    <3>. QED BY <1>4, <2>1, <2>4, <3>1, <3>2, <3>3
  <2>. QED BY <2>1, <2>3, <2>4
<1>9. /\ (x - y) % 65536 = 0 <=> lo.r = 0 /\ hi.r = 0
      /\ (x - y) % 65536 >= 32768 <=> hi.r >= 128
  <2>. HIDE DEF dh
  <2>. QED BY <1>2, <1>3, <1>8 DEF Fits
<1>10. ("c" \in t <=> "c" \in hi.P) /\ ("n" \in t <=> "n" \in hi.P)
  BY <1>3, <1>4, <1>8, <1>9
<1>11. "z" \in t <=> lo.r = 0 /\ hi.r = 0
  BY <1>4, <1>9
<1>. QED BY <1>10, <1>11 DEF t, lo, hi

LEMMA ComparisonSubtracts ==
  ASSUME a \in UInt16, mem \in UInt16
  PROVE  CompareIsSubtract
<1>1. Fits(a, 65536) /\ Fits(mem, 65536)
  BY UInt16Bounds DEF Fits
<1>2. /\ Fits(Low(a), 256) /\ Fits(Low(mem), 256)
      /\ Fits(High(a), 256) /\ Fits(High(mem), 256)
  BY <1>1, Bytes
<1>3. CASE Narrow
  <2>1. M = 256 /\ Seen(a) = Low(a) /\ Seen(mem) = Low(mem)
    BY <1>3 DEF M, Seen, Low
  <2>. QED BY <1>2, <1>3, <2>1, ComparisonOfBytes DEF CompareIsSubtract
<1>4. CASE ~Narrow
  <2>1. M = 65536 /\ Seen(a) = a /\ Seen(mem) = mem
    BY <1>1, <1>4 DEF M, Seen, Fits
  <2>. QED BY <1>1, <1>4, <2>1, ComparisonOfWords DEF CompareIsSubtract
<1>. QED BY <1>3, <1>4

-----------------------------------------------------------------------------
(* The results of all instructions fit the width, so that words stay words *)

AllFlags == {"c", "z", "n", "v", "d", "m"}

LEMMA FlagsStay ==
  ASSUME NEW Q \in SUBSET AllFlags, NEW on \in BOOLEAN, NEW r \in Int,
         NEW W \in Moduli
  PROVE  /\ \A f \in AllFlags : Put(Q, f, on) \in SUBSET AllFlags
         /\ SignZero(Q, r, W) \in SUBSET AllFlags
<1>1. \A R \in SUBSET AllFlags : \A f \in AllFlags : \A b \in BOOLEAN :
        Put(R, f, b) \in SUBSET AllFlags
  BY DEF Put
<1>2. "n" \in AllFlags /\ "z" \in AllFlags
  BY DEF AllFlags
<1>3. (r >= W \div 2) \in BOOLEAN /\ (r = 0) \in BOOLEAN
  OBVIOUS
<1>4. Put(Q, "n", r >= W \div 2) \in SUBSET AllFlags
  BY <1>1, <1>2, <1>3
<1>. QED BY <1>1, <1>2, <1>3, <1>4 DEF SignZero

\* One decimal digit, of any two nibbles.
LEMMA DigitBounds ==
  ASSUME NEW x \in Int, NEW y \in Int, NEW c \in {0, 1},
         Fits(x, 16), Fits(y, 16)
  PROVE  /\ Fits(DigitSum(x, y, c).x, 16) /\ DigitSum(x, y, c).c \in {0, 1}
         /\ Fits(DigitDifference(x, y, c).x, 16)
         /\ DigitDifference(x, y, c).c \in {0, 1}
<1>1. Fits(DigitSum(x, y, c).x, 16) /\ DigitSum(x, y, c).c \in {0, 1}
  BY DEF DigitSum, Chained, Fits
<1>2. /\ Fits(DigitDifference(x, y, c).x, 16)
      /\ DigitDifference(x, y, c).c \in {0, 1}
  BY DEF DigitDifference, Chained, Fits
<1>. QED BY <1>1, <1>2

LEMMA BcdByteBounds ==
  ASSUME NEW x, NEW y, NEW c \in {0, 1}, Fits(x, 256), Fits(y, 256)
  PROVE  /\ Fits(BcdSum8(x, y, c).x, 256) /\ BcdSum8(x, y, c).c \in {0, 1}
         /\ Fits(BcdSubtract8(x, y, c).x, 256)
         /\ BcdSubtract8(x, y, c).c \in {0, 1}
<1>1. /\ x % 16 \in Int /\ x \div 16 \in Int
      /\ y % 16 \in Int /\ y \div 16 \in Int
      /\ Fits(x % 16, 16) /\ Fits(x \div 16, 16)
      /\ Fits(y % 16, 16) /\ Fits(y \div 16, 16)
  BY Nibbles
<1>2. Fits(BcdSum8(x, y, c).x, 256) /\ BcdSum8(x, y, c).c \in {0, 1}
  <2> DEFINE lo == DigitSum(x % 16, y % 16, c)
             hi == DigitSum(x \div 16, y \div 16, lo.c)
  <2>1. Fits(lo.x, 16) /\ lo.c \in {0, 1}
    BY <1>1, DigitBounds
  <2>2. Fits(hi.x, 16) /\ hi.c \in {0, 1}
    <3>. HIDE DEF lo
    <3>. QED BY <1>1, <2>1, DigitBounds
  <2>3. /\ BcdSum8(x, y, c).x = 16 * hi.x + lo.x
        /\ BcdSum8(x, y, c).c = hi.c
    BY DEF BcdSum8, Chained
  <2>. HIDE DEF lo, hi
  <2>. QED BY <2>1, <2>2, <2>3 DEF Fits
<1>3. Fits(BcdSubtract8(x, y, c).x, 256) /\ BcdSubtract8(x, y, c).c \in {0, 1}
  <2> DEFINE lo == DigitDifference(x % 16, y % 16, c)
             hi == DigitDifference(x \div 16, y \div 16, lo.c)
  <2>1. Fits(lo.x, 16) /\ lo.c \in {0, 1}
    BY <1>1, DigitBounds
  <2>2. Fits(hi.x, 16) /\ hi.c \in {0, 1}
    <3>. HIDE DEF lo
    <3>. QED BY <1>1, <2>1, DigitBounds
  <2>3. /\ BcdSubtract8(x, y, c).x = 16 * hi.x + lo.x
        /\ BcdSubtract8(x, y, c).c = hi.c
    BY DEF BcdSubtract8, Chained
  <2>. HIDE DEF lo, hi
  <2>. QED BY <2>1, <2>2, <2>3 DEF Fits
<1>. QED BY <1>2, <1>3

LEMMA BcdBounds ==
  ASSUME NEW W \in Moduli, NEW x, NEW y, NEW c \in {0, 1},
         Fits(x, W), Fits(y, W)
  PROVE  /\ Fits(BcdSum(x, y, c, W).x, W) /\ BcdSum(x, y, c, W).c \in {0, 1}
         /\ Fits(BcdSubtract(x, y, c, W).x, W)
         /\ BcdSubtract(x, y, c, W).c \in {0, 1}
<1>1. CASE W = 256
  BY <1>1, BcdByteBounds DEF BcdSum, BcdSubtract
<1>2. CASE W = 65536
  <2>1. /\ Fits(Low(x), 256) /\ Fits(High(x), 256)
        /\ Fits(Low(y), 256) /\ Fits(High(y), 256)
    BY <1>2, Bytes
  <2>2. Fits(BcdSum(x, y, c, W).x, W) /\ BcdSum(x, y, c, W).c \in {0, 1}
    <3> DEFINE lo == BcdSum8(Low(x), Low(y), c)
               hi == BcdSum8(High(x), High(y), lo.c)
    <3>1. Fits(lo.x, 256) /\ lo.c \in {0, 1}
      BY <2>1, BcdByteBounds
    <3>2. Fits(hi.x, 256) /\ hi.c \in {0, 1}
      <4>. HIDE DEF lo
      <4>. QED BY <2>1, <3>1, BcdByteBounds
    <3>3. /\ BcdSum(x, y, c, W).x = Word(hi.x, lo.x)
          /\ BcdSum(x, y, c, W).c = hi.c
      BY <1>2 DEF BcdSum, Chained
    <3>. HIDE DEF lo, hi
    <3>. QED BY <1>2, <3>1, <3>2, <3>3, WordOfBytes
  <2>3. /\ Fits(BcdSubtract(x, y, c, W).x, W)
        /\ BcdSubtract(x, y, c, W).c \in {0, 1}
    <3> DEFINE lo == BcdSubtract8(Low(x), Low(y), c)
               hi == BcdSubtract8(High(x), High(y), lo.c)
    <3>1. Fits(lo.x, 256) /\ lo.c \in {0, 1}
      BY <2>1, BcdByteBounds
    <3>2. Fits(hi.x, 256) /\ hi.c \in {0, 1}
      <4>. HIDE DEF lo
      <4>. QED BY <2>1, <3>1, BcdByteBounds
    <3>3. /\ BcdSubtract(x, y, c, W).x = Word(hi.x, lo.x)
          /\ BcdSubtract(x, y, c, W).c = hi.c
      BY <1>2 DEF BcdSubtract, Chained
    <3>. HIDE DEF lo, hi
    <3>. QED BY <1>2, <3>1, <3>2, <3>3, WordOfBytes
  <2>. QED BY <2>2, <2>3
<1>. QED BY <1>1, <1>2 DEF Moduli

\* A result of the width W, with flags of the processor.
Valid(res, W) == Fits(res.r, W) /\ res.P \in SUBSET AllFlags

LEMMA ModuloFits ==
  ASSUME NEW W \in Moduli, NEW i \in Int
  PROVE  Fits(i % W, W)
<1>1. CASE W = 256
  BY <1>1 DEF Fits
<1>2. CASE W = 65536
  BY <1>2 DEF Fits
<1>. QED BY <1>1, <1>2 DEF Moduli

LEMMA ValidResult ==
  ASSUME NEW Q \in SUBSET AllFlags, NEW W \in Moduli, NEW r, Fits(r, W)
  PROVE  Valid(Result(r, SignZero(Q, r, W)), W)
<1>1. r \in Int
  BY DEF Fits
<1>2. SignZero(Q, r, W) \in SUBSET AllFlags
  BY <1>1, FlagsStay
<1>. QED BY <1>2 DEF Valid, Result

LEMMA PutStays ==
  ASSUME NEW Q \in SUBSET AllFlags, NEW f \in AllFlags, NEW on
  PROVE  Put(Q, f, on) \in SUBSET AllFlags
BY DEF Put

LEMMA ArithmeticFits ==
  ASSUME NEW Q \in SUBSET AllFlags, NEW W \in Moduli, NEW x, NEW y,
         Fits(x, W), Fits(y, W)
  PROVE  Valid(ADC(Q, x, y, W), W) /\ Valid(SBC(Q, x, y, W), W)
<1>1. /\ "c" \in AllFlags /\ "v" \in AllFlags
      /\ x \in Int /\ y \in Int /\ Carry(Q) \in {0, 1}
      /\ 1 - Carry(Q) \in {0, 1}
  BY DEF AllFlags, Fits, Carry
<1>2. Valid(BinaryADC(Q, x, y, W), W)
  <2> DEFINE last == x + y + Carry(Q) >= W
             half == (x % (W \div 2)) + (y % (W \div 2)) + Carry(Q)
                       >= W \div 2
             Q2 == Put(Put(Q, "v", last # half), "c", last)
  <2>1. Q2 \in SUBSET AllFlags
    BY <1>1, PutStays
  <2>2. Fits((x + y + Carry(Q)) % W, W)
    BY <1>1, ModuloFits
  <2>3. BinaryADC(Q, x, y, W)
          = Result((x + y + Carry(Q)) % W,
                   SignZero(Q2, (x + y + Carry(Q)) % W, W))
    BY DEF BinaryADC
  <2>. HIDE DEF Q2
  <2>. QED BY <2>1, <2>2, <2>3, ValidResult
<1>3. Valid(BinarySBC(Q, x, y, W), W)
  <2> DEFINE diff == x - y - (1 - Carry(Q))
             last == BitSet(diff, 256)
             half == BitSet((x % (W \div 2)) - (y % (W \div 2))
                              - (1 - Carry(Q)), 128)
             Q2 == Put(Put(Q, "v", last # half), "c", ~last)
  <2>1. Q2 \in SUBSET AllFlags
    BY <1>1, PutStays
  <2>2. Fits(diff % W, W)
    BY <1>1, ModuloFits
  <2>3. BinarySBC(Q, x, y, W) = Result(diff % W, SignZero(Q2, diff % W, W))
    BY DEF BinarySBC
  <2>. HIDE DEF Q2, diff
  <2>. QED BY <2>1, <2>2, <2>3, ValidResult
<1>4. Valid(DecimalADC(Q, x, y, W), W)
  <2> DEFINE sum == BcdSum(y, x, Carry(Q), W)
  <2>1. Fits(sum.x, W)
    BY <1>1, BcdBounds
  <2>2. Put(Q, "c", sum.c = 1) \in SUBSET AllFlags
    BY <1>1, PutStays
  <2>3. DecimalADC(Q, x, y, W)
          = Result(sum.x, SignZero(Put(Q, "c", sum.c = 1), sum.x, W))
    BY DEF DecimalADC
  <2>. HIDE DEF sum
  <2>. QED BY <2>1, <2>2, <2>3, ValidResult
<1>5. Valid(DecimalSBC(Q, x, y, W), W)
  <2> DEFINE diff == BcdSubtract(y, x, 1 - Carry(Q), W)
  <2>1. Fits(diff.x, W)
    BY <1>1, BcdBounds
  <2>2. Put(Q, "c", diff.c = 0) \in SUBSET AllFlags
    BY <1>1, PutStays
  <2>3. DecimalSBC(Q, x, y, W)
          = Result(diff.x, SignZero(Put(Q, "c", diff.c = 0), diff.x, W))
    BY DEF DecimalSBC
  <2>. HIDE DEF diff
  <2>. QED BY <2>1, <2>2, <2>3, ValidResult
<1>. QED BY <1>2, <1>3, <1>4, <1>5 DEF ADC, SBC

LEMMA CountingFits ==
  ASSUME NEW Q \in SUBSET AllFlags, NEW W \in Moduli, NEW x, Fits(x, W),
         NEW by \in {1, -1}
  PROVE  Valid(INCDEC(Q, x, by, W), W)
<1>1. x + by \in Int
  BY DEF Fits
<1>. QED BY <1>1, ModuloFits, ValidResult DEF INCDEC

LEMMA ShiftingFits ==
  ASSUME NEW Q \in SUBSET AllFlags, NEW W \in Moduli, NEW x, Fits(x, W)
  PROVE  /\ Valid(ASL(Q, x, W), W) /\ Valid(LSR(Q, x, W), W)
         /\ Valid(ROL(Q, x, W), W) /\ Valid(ROR(Q, x, W), W)
<1>1. \A in \in {0, 1} : /\ Fits(((2 * x) % W) + in, W)
                         /\ Fits((x \div 2) + (in * (W \div 2)), W)
  <2>1. CASE W = 256
    BY <2>1 DEF Fits
  <2>2. CASE W = 65536
    BY <2>2 DEF Fits
  <2>. QED BY <2>1, <2>2 DEF Moduli
<1>2. "c" \in AllFlags /\ Carry(Q) \in {0, 1}
  BY DEF AllFlags, Carry
<1>3. \A on : Put(Q, "c", on) \in SUBSET AllFlags
  BY <1>2, PutStays
<1>4. \A in \in {0, 1} : Valid(ShiftLeft(Q, x, in, W), W)
  <2>. SUFFICES ASSUME NEW in \in {0, 1}
                PROVE  Valid(ShiftLeft(Q, x, in, W), W)
    OBVIOUS
  <2>. QED BY <1>1, <1>3, ValidResult DEF ShiftLeft
<1>5. \A in \in {0, 1} : Valid(ShiftRight(Q, x, in, W), W)
  <2>. SUFFICES ASSUME NEW in \in {0, 1}
                PROVE  Valid(ShiftRight(Q, x, in, W), W)
    OBVIOUS
  <2>. QED BY <1>1, <1>3, ValidResult DEF ShiftRight
<1>. QED BY <1>2, <1>4, <1>5 DEF ASL, LSR, ROL, ROR

\* The bits of two bytes put together are those of a byte.
LEMMA ByteFits == \A bits : Fits(ByteOf(bits), 256)
BY DEF ByteOf, Fits

LEMMA BitsOfZero == Bits(0) = {}
BY DEF Bits

LEMMA ByteOfNothing == ByteOf({}) = 0
BY DEF ByteOf

LEMMA ByteOfSubset ==
  \A bits, more : bits \subseteq more => ByteOf(bits) <= ByteOf(more)
BY DEF ByteOf

LEMMA LogicFits ==
  ASSUME NEW W \in Moduli, NEW x, NEW y, Fits(x, W), Fits(y, W)
  PROVE  Fits(And(x, y), W) /\ Fits(Or(x, y), W) /\ Fits(Xor(x, y), W)
<1> DEFINE ah == ByteOf(Bits(High(x)) \cap Bits(High(y)))
           al == ByteOf(Bits(Low(x)) \cap Bits(Low(y)))
           oh == ByteOf(Bits(High(x)) \cup Bits(High(y)))
           ol == ByteOf(Bits(Low(x)) \cup Bits(Low(y)))
<1>1. And(x, y) = Word(ah, al) /\ Or(x, y) = Word(oh, ol)
  BY DEF And, Or
<1>2. Fits(ah, 256) /\ Fits(al, 256) /\ Fits(oh, 256) /\ Fits(ol, 256)
  BY ByteFits
<1>3. ah <= oh /\ al <= ol
  BY ByteOfSubset
<1>4. W = 256 => ah = 0 /\ oh = 0
  <2>. SUFFICES ASSUME W = 256 PROVE ah = 0 /\ oh = 0
    OBVIOUS
  <2>1. High(x) = 0 /\ High(y) = 0
    BY DEF Fits, High
  <2>. QED BY <2>1, BitsOfZero, ByteOfNothing
<1>5. Xor(x, y) = Or(x, y) - And(x, y)
  BY DEF Xor
<1>. HIDE DEF ah, al, oh, ol
<1>6. CASE W = 256
  BY <1>1, <1>2, <1>3, <1>4, <1>5, <1>6 DEF Fits, Word
<1>7. CASE W = 65536
  BY <1>1, <1>2, <1>3, <1>5, <1>7 DEF Fits, Word
<1>. QED BY <1>6, <1>7 DEF Moduli

-----------------------------------------------------------------------------
\* A valid result leaves a word, in memory and in the accumulator.
LEMMA ChangedFits ==
  ASSUME NEW v \in UInt16, NEW r, Fits(r, M)
  PROVE  Changed(v, r) \in UInt16
<1>1. CASE Narrow
  <2>1. Fits(v, 65536) /\ Fits(r, 256)
    BY <1>1, UInt16Bounds DEF Fits, M
  <2>2. Fits(Word(High(v), r), 65536)
    BY <2>1, Bytes, WordOfBytes
  <2>. QED BY <1>1, <2>2, UInt16Bounds DEF Fits, Changed
<1>2. CASE ~Narrow
  BY <1>2, UInt16Bounds DEF Fits, Changed, M
<1>. QED BY <1>1, <1>2

LEMMA ValidStep ==
  ASSUME AluTypeOK, NEW res, Valid(res, M), Accumulate(res) \/ Modify(res)
  PROVE  a' \in UInt16 /\ mem' \in UInt16 /\ P' \in SUBSET AllFlags
BY ChangedFits DEF AluTypeOK, Valid, Accumulate, Modify

LEMMA ValidTest ==
  ASSUME AluTypeOK, NEW Pnext \in SUBSET AllFlags, Test(Pnext)
  PROVE  a' \in UInt16 /\ mem' \in UInt16 /\ P' \in SUBSET AllFlags
BY DEF AluTypeOK, Test

\* Every instruction that writes has a result that fits, and every test has
\* flags of the processor.
Writes == \E res : Valid(res, M) /\ (Accumulate(res) \/ Modify(res))
Tests  == \E Q \in SUBSET AllFlags : Test(Q)

LEMMA OperandsFit ==
  ASSUME AluTypeOK
  PROVE  /\ M \in Moduli /\ P \in SUBSET AllFlags
         /\ Fits(Seen(a), M) /\ Fits(Seen(mem), M)
         /\ Disjoint \in SUBSET AllFlags
<1>1. /\ M \in Moduli /\ P \in SUBSET AllFlags
      /\ Fits(Seen(a), M) /\ Fits(Seen(mem), M)
  BY SeenBounds DEF AluTypeOK, AllFlags, Fits
<1>2. "z" \in AllFlags
  BY DEF AllFlags
<1>. QED BY <1>1, <1>2, PutStays DEF Disjoint

LEMMA ArithmeticWrites ==
  ASSUME AluTypeOK, Add \/ Subtract \/ IncDec
  PROVE  Writes
<1>1. CASE Add
  <2>1. Valid(ADC(P, Seen(a), Seen(mem), M), M)
    BY OperandsFit, ArithmeticFits
  <2>. QED BY <1>1, <2>1 DEF Add, Writes
<1>2. CASE Subtract
  <2>1. Valid(SBC(P, Seen(a), Seen(mem), M), M)
    BY OperandsFit, ArithmeticFits
  <2>. QED BY <1>2, <2>1 DEF Subtract, Writes
<1>3. CASE IncDec
  <2>1. \A by \in {1, -1} : /\ Valid(INCDEC(P, Seen(a), by, M), M)
                            /\ Valid(INCDEC(P, Seen(mem), by, M), M)
    BY OperandsFit, CountingFits
  <2>. QED BY <1>3, <2>1 DEF IncDec, Writes
<1>. QED BY <1>1, <1>2, <1>3

LEMMA ShiftWrites ==
  ASSUME AluTypeOK, ShiftA \/ RotateA \/ ShiftMem
  PROVE  Writes
<1>1. \A v \in {Seen(a), Seen(mem)} :
        /\ Valid(ASL(P, v, M), M) /\ Valid(LSR(P, v, M), M)
        /\ Valid(ROL(P, v, M), M) /\ Valid(ROR(P, v, M), M)
  BY OperandsFit, ShiftingFits
<1>2. CASE ShiftA
  BY <1>1, <1>2 DEF ShiftA, Writes
<1>3. CASE RotateA
  BY <1>1, <1>3 DEF RotateA, Writes
<1>4. CASE ShiftMem
  BY <1>1, <1>4 DEF ShiftMem, Writes
<1>. QED BY <1>2, <1>3, <1>4

LEMMA LogicWrites ==
  ASSUME AluTypeOK, AND \/ ORA \/ EOR \/ TSB \/ TRB
  PROVE  Writes
<1>1. /\ Fits(And(Seen(a), Seen(mem)), M)
      /\ Fits(Or(Seen(a), Seen(mem)), M)
      /\ Fits(Xor(Seen(a), Seen(mem)), M)
      /\ Fits(Or(Seen(mem), Seen(a)), M)
  BY OperandsFit, LogicFits
<1>2. Fits(And(Seen(mem), M - 1 - Seen(a)), M)
  <2>1. Fits(M - 1 - Seen(a), M)
    BY OperandsFit DEF Fits, Moduli
  <2>. QED BY <2>1, OperandsFit, LogicFits
<1>3. \A r : Fits(r, M) => /\ Valid(Result(r, SignZero(P, r, M)), M)
                           /\ Valid(Result(r, Disjoint), M)
  BY OperandsFit, ValidResult DEF Valid, Result
<1>4. CASE AND
  <2>1. Valid(Result(And(Seen(a), Seen(mem)),
                     SignZero(P, And(Seen(a), Seen(mem)), M)), M)
    BY <1>1, <1>3
  <2>. QED BY <1>4, <2>1 DEF AND, Logic, Writes
<1>5. CASE ORA
  <2>1. Valid(Result(Or(Seen(a), Seen(mem)),
                     SignZero(P, Or(Seen(a), Seen(mem)), M)), M)
    BY <1>1, <1>3
  <2>. QED BY <1>5, <2>1 DEF ORA, Logic, Writes
<1>6. CASE EOR
  <2>1. Valid(Result(Xor(Seen(a), Seen(mem)),
                     SignZero(P, Xor(Seen(a), Seen(mem)), M)), M)
    BY <1>1, <1>3
  <2>. QED BY <1>6, <2>1 DEF EOR, Logic, Writes
<1>7. CASE TSB
  <2>1. Valid(Result(Or(Seen(mem), Seen(a)), Disjoint), M)
    BY <1>1, <1>3
  <2>. QED BY <1>7, <2>1 DEF TSB, Writes
<1>8. CASE TRB
  <2>1. Valid(Result(And(Seen(mem), M - 1 - Seen(a)), Disjoint), M)
    BY <1>2, <1>3
  <2>. QED BY <1>8, <2>1 DEF TRB, Writes
<1>. QED BY <1>4, <1>5, <1>6, <1>7, <1>8

LEMMA ComparisonTests ==
  ASSUME AluTypeOK, Compare \/ BIT
  PROVE  Tests
<1>1. CMP(P, Seen(a), Seen(mem), M) \in SUBSET AllFlags
  <2>1. Put(P, "c", Seen(a) >= Seen(mem)) \in SUBSET AllFlags
    BY OperandsFit, PutStays DEF AllFlags
  <2>2. (Seen(a) - Seen(mem)) % M \in Int
    BY OperandsFit, ModuloFits DEF Fits
  <2>. QED BY OperandsFit, <2>1, <2>2, FlagsStay DEF CMP
<1>2. Put(Put(Disjoint, "n", BitSet(Seen(mem), M \div 2)),
          "v", BitSet(Seen(mem), M \div 4)) \in SUBSET AllFlags
  <2>1. "n" \in AllFlags /\ "v" \in AllFlags
    BY DEF AllFlags
  <2>. QED BY <2>1, OperandsFit, PutStays
<1>3. CASE Compare
  BY <1>1, <1>3 DEF Compare, Tests
<1>4. CASE BIT
  BY <1>2, <1>4, OperandsFit DEF BIT, Tests
<1>. QED BY <1>3, <1>4

\* Every instruction leaves words and flags.
LEMMA InstructionFits ==
  ASSUME AluTypeOK, Instruction
  PROVE  a' \in UInt16 /\ mem' \in UInt16 /\ P' \in SUBSET AllFlags
<1>1. Writes \/ Tests
  BY ArithmeticWrites, ShiftWrites, LogicWrites, ComparisonTests
     DEF Instruction
<1>2. CASE Writes
  <2>1. PICK res : Valid(res, M) /\ (Accumulate(res) \/ Modify(res))
    BY <1>2 DEF Writes
  <2>. QED BY <2>1, ValidStep
<1>3. CASE Tests
  <2>1. PICK Q \in SUBSET AllFlags : Test(Q)
    BY <1>3 DEF Tests
  <2>. QED BY <2>1, ValidTest
<1>. QED BY <1>1, <1>2, <1>3

-----------------------------------------------------------------------------
(* Shifts and rotations: where the bit goes that leaves the operand.       *)

LEMMA ShiftRightExact ==
  ASSUME NEW Q, NEW W \in Moduli, NEW x, Fits(x, W), NEW in \in {0, 1}
  PROVE  /\ Fits(ShiftRight(Q, x, in, W).r, W)
         /\ 2 * ShiftRight(Q, x, in, W).r + Carry(ShiftRight(Q, x, in, W).P)
              = x + W * in
<1> DEFINE r == (x \div 2) + in * (W \div 2)
<1>1. /\ Fits(r, W)
      /\ 2 * r + (IF x % 2 = 1 THEN 1 ELSE 0) = x + W * in
  <2>1. CASE W = 256
    BY <2>1 DEF Fits
  <2>2. CASE W = 65536
    BY <2>2 DEF Fits
  <2>. QED BY <2>1, <2>2 DEF Moduli
<1>2. /\ ShiftRight(Q, x, in, W).r = r
      /\ ShiftRight(Q, x, in, W).P = SignZero(Put(Q, "c", x % 2 = 1), r, W)
  BY DEF ShiftRight, Result
<1>. HIDE DEF r
<1>3. Carry(ShiftRight(Q, x, in, W).P) = IF x % 2 = 1 THEN 1 ELSE 0
  BY <1>2 DEF Carry, SignZero, Put
<1>. QED BY <1>1, <1>2, <1>3

\* What was shifted out and is shifted back in makes the operand whole.
LEMMA RotationsExact ==
  ASSUME NEW Q, NEW W \in Moduli, NEW x, Fits(x, W)
  PROVE  LET left  == ROL(Q, x, W)
             right == ROR(Q, x, W)
             half  == LSR(Q, x, W)
         IN /\ ROR(left.P, left.r, W).r = x
            /\ Carry(ROR(left.P, left.r, W).P) = Carry(Q)
            /\ ROL(right.P, right.r, W).r = x
            /\ Carry(ROL(right.P, right.r, W).P) = Carry(Q)
            /\ ROL(half.P, half.r, W).r = x
<1> DEFINE left  == ROL(Q, x, W)
           right == ROR(Q, x, W)
           half  == LSR(Q, x, W)
           leftBack  == ROR(left.P, left.r, W)
           rightBack == ROL(right.P, right.r, W)
           halfBack  == ROL(half.P, half.r, W)
<1>1. \A R : Carry(R) \in {0, 1}
  BY DEF Carry
<1>2. /\ Fits(left.r, W) /\ left.r + W * Carry(left.P) = 2 * x + Carry(Q)
      /\ Fits(right.r, W)
      /\ 2 * right.r + Carry(right.P) = x + W * Carry(Q)
      /\ Fits(half.r, W) /\ 2 * half.r + Carry(half.P) = x + W * 0
  <2>1. /\ left = ShiftLeft(Q, x, Carry(Q), W)
        /\ right = ShiftRight(Q, x, Carry(Q), W)
        /\ half = ShiftRight(Q, x, 0, W)
    BY DEF ROL, ROR, LSR
  <2>. HIDE DEF left, right, half
  <2>2. Fits(left.r, W) /\ left.r + W * Carry(left.P) = 2 * x + Carry(Q)
    BY <1>1, <2>1, ShiftLeftExact
  <2>3. /\ Fits(right.r, W)
        /\ 2 * right.r + Carry(right.P) = x + W * Carry(Q)
    BY <1>1, <2>1, ShiftRightExact
  <2>4. Fits(half.r, W) /\ 2 * half.r + Carry(half.P) = x + W * 0
    BY <2>1, ShiftRightExact
  <2>. QED BY <2>2, <2>3, <2>4
<1>. HIDE DEF left, right, half
<1>3. /\ Fits(leftBack.r, W)
      /\ 2 * leftBack.r + Carry(leftBack.P) = left.r + W * Carry(left.P)
  BY <1>1, <1>2, ShiftRightExact DEF ROR
<1>4. /\ Fits(rightBack.r, W)
      /\ rightBack.r + W * Carry(rightBack.P) = 2 * right.r + Carry(right.P)
  <2>1. rightBack = ShiftLeft(right.P, right.r, Carry(right.P), W)
    BY DEF ROL
  <2>. HIDE DEF rightBack
  <2>. QED BY <1>1, <1>2, <2>1, ShiftLeftExact
<1>5. /\ Fits(halfBack.r, W)
      /\ halfBack.r + W * Carry(halfBack.P) = 2 * half.r + Carry(half.P)
  <2>1. halfBack = ShiftLeft(half.P, half.r, Carry(half.P), W)
    BY DEF ROL
  <2>. HIDE DEF halfBack
  <2>. QED BY <1>1, <1>2, <2>1, ShiftLeftExact
<1>. HIDE DEF leftBack, rightBack, halfBack
<1>6. \A R : Carry(R) = 0 \/ Carry(R) = 1
  BY <1>1
<1>7. /\ leftBack.r = x /\ Carry(leftBack.P) = Carry(Q)
  BY <1>2, <1>3, <1>6 DEF Fits
<1>8. CASE W = 256
  BY <1>2, <1>4, <1>5, <1>6, <1>7, <1>8
     DEF Fits, left, right, half, leftBack, rightBack, halfBack
<1>9. CASE W = 65536
  BY <1>2, <1>4, <1>5, <1>6, <1>7, <1>9
     DEF Fits, left, right, half, leftBack, rightBack, halfBack
<1>. QED BY <1>8, <1>9 DEF Moduli

LEMMA RotationOfWords ==
  ASSUME AluTypeOK
  PROVE  RotationUndone
<1>1. M \in Moduli /\ Fits(Seen(a), M)
  BY OperandsFit
<1>. QED BY <1>1, RotationsExact DEF RotationUndone

-----------------------------------------------------------------------------
(* Decimal addition, from digits to bytes to words.                        *)

\* The digits of a word are those of its two bytes.
LEMMA DigitsOfWord ==
  ASSUME NEW x, Fits(x, 65536)
  PROVE  /\ IsDecimal(x) <=> TwoDigits(Low(x)) /\ TwoDigits(High(x))
         /\ Decimal(x) = ByteValue(Low(x)) + 100 * ByteValue(High(x))
<1>1. /\ Digits(x)[1] = x % 16 /\ Digits(x)[2] = (x \div 16) % 16
      /\ Digits(x)[3] = (x \div 256) % 16 /\ Digits(x)[4] = x \div 4096
  BY DEF Digits
<1>2. /\ Low(x) % 16 = x % 16 /\ Low(x) \div 16 = (x \div 16) % 16
      /\ High(x) % 16 = (x \div 256) % 16 /\ High(x) \div 16 = x \div 4096
      /\ Fits(Low(x), 256) /\ Fits(High(x), 256)
  BY DEF Fits, Low, High
<1>3. IsDecimal(x) <=> /\ Digits(x)[1] <= 9 /\ Digits(x)[2] <= 9
                       /\ Digits(x)[3] <= 9 /\ Digits(x)[4] <= 9
  <2>1. \A i : i \in 1..4 <=> i = 1 \/ i = 2 \/ i = 3 \/ i = 4
    OBVIOUS
  <2>. QED BY <2>1 DEF IsDecimal
<1>4. /\ x % 16 \in Int /\ (x \div 16) % 16 \in Int
      /\ (x \div 256) % 16 \in Int /\ x \div 4096 \in Int
  BY DEF Fits
<1>5. IsDecimal(x) <=> TwoDigits(Low(x)) /\ TwoDigits(High(x))
  BY <1>1, <1>2, <1>3 DEF TwoDigits
<1>6. Decimal(x) = (x % 16) + 10 * ((x \div 16) % 16)
                     + 100 * ((x \div 256) % 16) + 1000 * (x \div 4096)
  BY <1>1 DEF Decimal
<1>7. Decimal(x) = ByteValue(Low(x)) + 100 * ByteValue(High(x))
  BY <1>2, <1>4, <1>6 DEF ByteValue
<1>. QED BY <1>5, <1>7

\* A byte is a word whose high byte is zero.
LEMMA DigitsOfByte ==
  ASSUME NEW x, Fits(x, 256)
  PROVE  /\ IsDecimal(x) <=> TwoDigits(x)
         /\ Decimal(x) = ByteValue(x)
<1>1. Fits(x, 65536) /\ Low(x) = x /\ High(x) = 0
  BY DEF Fits, Low, High
<1>2. TwoDigits(0) /\ ByteValue(0) = 0
  BY DEF TwoDigits, ByteValue, Fits
<1>3. ByteValue(x) \in Int
  BY DEF Fits, ByteValue
<1>. QED BY <1>1, <1>2, <1>3, DigitsOfWord

LEMMA WordAdds ==
  ASSUME NEW W \in Moduli, NEW x, NEW y, NEW c \in {0, 1},
         Fits(x, W), Fits(y, W), IsDecimal(x), IsDecimal(y)
  PROVE  LET s == BcdSum(x, y, c, W)
         IN /\ IsDecimal(s.x) /\ s.c \in {0, 1}
            /\ Decimal(s.x) + (IF W = 256 THEN 100 ELSE 10000) * s.c
                 = Decimal(x) + Decimal(y) + c
<1>1. CASE W = 256
  <2> DEFINE s == BcdSum8(x, y, c)
  <2>1. TwoDigits(x) /\ TwoDigits(y)
    BY <1>1, DigitsOfByte
  <2>2. /\ TwoDigits(s.x) /\ s.c \in {0, 1}
        /\ ByteValue(s.x) + 100 * s.c = ByteValue(x) + ByteValue(y) + c
    BY <2>1, ByteAdds
  <2>3. BcdSum(x, y, c, W) = s
    BY <1>1 DEF BcdSum
  <2>. HIDE DEF s
  <2>4. Fits(s.x, 256)
    BY <2>2 DEF TwoDigits
  <2>5. /\ IsDecimal(s.x) /\ Decimal(s.x) = ByteValue(s.x)
        /\ Decimal(x) = ByteValue(x) /\ Decimal(y) = ByteValue(y)
    BY <1>1, <2>2, <2>4, DigitsOfByte
  <2>. QED BY <1>1, <2>2, <2>3, <2>5
<1>2. CASE W = 65536
  <2> DEFINE lo == BcdSum8(Low(x), Low(y), c)
             hi == BcdSum8(High(x), High(y), lo.c)
             r  == Word(hi.x, lo.x)
  <2>1. /\ TwoDigits(Low(x)) /\ TwoDigits(High(x))
        /\ TwoDigits(Low(y)) /\ TwoDigits(High(y))
        /\ Decimal(x) = ByteValue(Low(x)) + 100 * ByteValue(High(x))
        /\ Decimal(y) = ByteValue(Low(y)) + 100 * ByteValue(High(y))
    BY <1>2, DigitsOfWord
  <2>2. /\ TwoDigits(lo.x) /\ lo.c \in {0, 1}
        /\ ByteValue(lo.x) + 100 * lo.c
             = ByteValue(Low(x)) + ByteValue(Low(y)) + c
    BY <2>1, ByteAdds
  <2>3. /\ TwoDigits(hi.x) /\ hi.c \in {0, 1}
        /\ ByteValue(hi.x) + 100 * hi.c
             = ByteValue(High(x)) + ByteValue(High(y)) + lo.c
    <3>. HIDE DEF lo
    <3>. QED BY <2>1, <2>2, ByteAdds
  <2>4. BcdSum(x, y, c, W).x = r /\ BcdSum(x, y, c, W).c = hi.c
    BY <1>2 DEF BcdSum, Chained
  <2>. HIDE DEF lo, hi
  <2>5. Fits(r, 65536) /\ High(r) = hi.x /\ Low(r) = lo.x
    BY <2>2, <2>3, WordOfBytes DEF TwoDigits
  <2>. HIDE DEF r
  <2>6. IsDecimal(r) /\ Decimal(r) = ByteValue(lo.x) + 100 * ByteValue(hi.x)
    BY <2>2, <2>3, <2>5, DigitsOfWord
  <2>7. \A v : TwoDigits(v) => ByteValue(v) \in Int
    BY DEF TwoDigits, Fits, ByteValue
  <2>8. Decimal(r) + 10000 * hi.c = Decimal(x) + Decimal(y) + c
    <3>1. /\ ByteValue(lo.x) \in Int /\ ByteValue(hi.x) \in Int
          /\ ByteValue(Low(x)) \in Int /\ ByteValue(High(x)) \in Int
          /\ ByteValue(Low(y)) \in Int /\ ByteValue(High(y)) \in Int
      BY <2>1, <2>2, <2>3, <2>7
    <3>. QED BY <2>1, <2>2, <2>3, <2>6, <3>1
  <2>. QED BY <1>2, <2>3, <2>4, <2>6, <2>8
<1>. QED BY <1>1, <1>2 DEF Moduli

LEMMA DecimalAdditionOfWords ==
  ASSUME AluTypeOK
  PROVE  DecimalAdditionIsExact
<1>. SUFFICES ASSUME IsDecimal(Seen(a)), IsDecimal(Seen(mem)) PROVE
       LET s == DecimalADC(P, Seen(a), Seen(mem), M)
       IN /\ IsDecimal(s.r)
          /\ Decimal(s.r) + (IF Narrow THEN 100 ELSE 10000) * Carry(s.P)
               = Decimal(Seen(a)) + Decimal(Seen(mem)) + Carry(P)
  BY DEF DecimalAdditionIsExact
<1> DEFINE x == Seen(a)
           y == Seen(mem)
           t == BcdSum(y, x, Carry(P), M)
           s == DecimalADC(P, x, y, M)
<1>1. M \in Moduli /\ Fits(x, M) /\ Fits(y, M) /\ (M = 256 <=> Narrow)
  BY OperandsFit DEF M
<1>2. Carry(P) \in {0, 1}
  BY DEF Carry
<1>3. /\ IsDecimal(t.x) /\ t.c \in {0, 1}
      /\ Decimal(t.x) + (IF M = 256 THEN 100 ELSE 10000) * t.c
           = Decimal(y) + Decimal(x) + Carry(P)
  BY <1>1, <1>2, WordAdds
<1>4. s.r = t.x /\ s.P = SignZero(Put(P, "c", t.c = 1), t.x, M)
  BY DEF DecimalADC, Result
<1>. HIDE DEF x, y, t, s
<1>5. Carry(s.P) = t.c
  BY <1>3, <1>4 DEF Carry, SignZero, Put
<1>6. Decimal(x) \in Int /\ Decimal(y) \in Int
  <2>1. \A v : Fits(v, 65536) => Decimal(v) \in Int
    <3>1. \A v : Fits(v, 65536) =>
            /\ Digits(v)[1] \in Int /\ Digits(v)[2] \in Int
            /\ Digits(v)[3] \in Int /\ Digits(v)[4] \in Int
      BY DEF Digits, Fits
    <3>. QED BY <3>1 DEF Decimal
  <2>2. Fits(x, 65536) /\ Fits(y, 65536)
    BY <1>1 DEF Fits, Moduli
  <2>. QED BY <2>1, <2>2
<1>7. Decimal(s.r) + (IF Narrow THEN 100 ELSE 10000) * Carry(s.P)
        = Decimal(x) + Decimal(y) + Carry(P)
  BY <1>1, <1>2, <1>3, <1>4, <1>5, <1>6
<1>. QED BY <1>3, <1>4, <1>7 DEF x, y, s

-----------------------------------------------------------------------------
(* Adding byte by byte.                                                    *)

\* In decimal the word is added byte by byte to begin with.
LEMMA DecimalChains ==
  ASSUME NEW Q, "d" \in Q, NEW x, NEW y, Fits(x, 65536), Fits(y, 65536)
  PROVE  LET lo == ADC(Q, Low(x), Low(y), 256)
             hi == ADC(lo.P, High(x), High(y), 256)
             word == ADC(Q, x, y, 65536)
         IN /\ Word(hi.r, lo.r) = word.r
            /\ "c" \in hi.P <=> "c" \in word.P
            /\ "v" \in hi.P <=> "v" \in word.P
<1> DEFINE lo == ADC(Q, Low(x), Low(y), 256)
           hi == ADC(lo.P, High(x), High(y), 256)
           word == ADC(Q, x, y, 65536)
           l == BcdSum8(Low(y), Low(x), Carry(Q))
           h == BcdSum8(High(y), High(x), l.c)
<1>1. lo.r = l.x /\ ("c" \in lo.P <=> l.c = 1)
  <2>1. lo = DecimalADC(Q, Low(x), Low(y), 256)
    BY DEF ADC
  <2>2. lo.r = l.x /\ lo.P = SignZero(Put(Q, "c", l.c = 1), l.x, 256)
    BY <2>1 DEF DecimalADC, BcdSum, Result
  <2>. QED BY <2>2, SignFlag DEF Put
<1>2. "d" \in lo.P /\ ("v" \in lo.P <=> "v" \in Q)
  BY FlagsOfADC
<1>3. l.c \in {0, 1}
  <2>1. Fits(Low(y), 256) /\ Fits(Low(x), 256) /\ Carry(Q) \in {0, 1}
    BY Bytes DEF Carry
  <2>. QED BY <2>1, BcdByteBounds
<1>4. Carry(lo.P) = l.c
  BY <1>1, <1>3 DEF Carry
<1>5. hi.r = h.x /\ ("c" \in hi.P <=> h.c = 1)
  <2>1. hi = DecimalADC(lo.P, High(x), High(y), 256)
    BY <1>2 DEF ADC
  <2>2. hi.r = h.x /\ hi.P = SignZero(Put(lo.P, "c", h.c = 1), h.x, 256)
    BY <1>4, <2>1 DEF DecimalADC, BcdSum, Result
  <2>. QED BY <2>2, SignFlag DEF Put
<1>6. word.r = Word(h.x, l.x) /\ ("c" \in word.P <=> h.c = 1)
  <2>1. word = DecimalADC(Q, x, y, 65536)
    BY DEF ADC
  <2>2. /\ BcdSum(y, x, Carry(Q), 65536).x = Word(h.x, l.x)
        /\ BcdSum(y, x, Carry(Q), 65536).c = h.c
    BY DEF BcdSum, Chained
  <2>3. /\ word.r = Word(h.x, l.x)
        /\ word.P = SignZero(Put(Q, "c", h.c = 1), Word(h.x, l.x), 65536)
    BY <2>1, <2>2 DEF DecimalADC, Result
  <2>. QED BY <2>3, SignFlag DEF Put
<1>7. /\ "v" \in hi.P <=> "v" \in lo.P
      /\ "v" \in word.P <=> "v" \in Q
  BY <1>2, FlagsOfADC
<1>. HIDE DEF lo, hi, word, l, h
<1>. QED BY <1>1, <1>2, <1>5, <1>6, <1>7 DEF lo, hi, word

LEMMA WithoutSign ==
  ASSUME NEW x, Fits(x, 65536)
  PROVE  /\ x % 32768 = 256 * (High(x) % 128) + Low(x)
         /\ High(x) % 128 \in Int
BY DEF Fits, High, Low

\* In binary both ways give the one sum below 65536, with one carry.
LEMMA BinaryChains ==
  ASSUME NEW Q, "d" \notin Q, NEW x, NEW y, Fits(x, 65536), Fits(y, 65536)
  PROVE  LET lo == ADC(Q, Low(x), Low(y), 256)
             hi == ADC(lo.P, High(x), High(y), 256)
             word == ADC(Q, x, y, 65536)
         IN /\ Word(hi.r, lo.r) = word.r
            /\ "c" \in hi.P <=> "c" \in word.P
            /\ "v" \in hi.P <=> "v" \in word.P
<1> DEFINE lo == ADC(Q, Low(x), Low(y), 256)
           hi == ADC(lo.P, High(x), High(y), 256)
           word == ADC(Q, x, y, 65536)
<1>1. /\ Low(x) \in Int /\ 0 <= Low(x) /\ Low(x) < 256
      /\ Low(y) \in Int /\ 0 <= Low(y) /\ Low(y) < 256
      /\ High(x) \in Int /\ 0 <= High(x) /\ High(x) < 256
      /\ High(y) \in Int /\ 0 <= High(y) /\ High(y) < 256
      /\ x = 256 * High(x) + Low(x) /\ y = 256 * High(y) + Low(y)
  BY Bytes DEF Fits, Word
<1>2. \A R : Carry(R) = 0 \/ Carry(R) = 1
  BY DEF Carry
<1>3. 256 \in Moduli /\ 65536 \in Moduli /\ 256 \div 2 = 128
      /\ 65536 \div 2 = 32768
  BY DEF Moduli
<1>4. /\ lo.r \in Int /\ 0 <= lo.r /\ lo.r < 256
      /\ lo.r + 256 * Carry(lo.P) = Low(x) + Low(y) + Carry(Q)
  <2>1. lo = BinaryADC(Q, Low(x), Low(y), 256)
    BY DEF ADC
  <2>. HIDE DEF lo
  <2>. QED BY <1>1, <1>3, <2>1, BinaryADCExact
<1>5. "d" \notin lo.P
  BY FlagsOfADC
<1>6. /\ hi.r \in Int /\ 0 <= hi.r /\ hi.r < 256
      /\ hi.r + 256 * Carry(hi.P) = High(x) + High(y) + Carry(lo.P)
      /\ "v" \in hi.P <=>
           ((High(x) % 128) + (High(y) % 128) + Carry(lo.P) >= 128)
             # (High(x) + High(y) + Carry(lo.P) >= 256)
  <2>1. hi = BinaryADC(lo.P, High(x), High(y), 256)
    BY <1>5 DEF ADC
  <2>. HIDE DEF lo, hi
  <2>. QED BY <1>1, <1>3, <2>1, BinaryADCExact
<1>7. /\ word.r \in Int /\ 0 <= word.r /\ word.r < 65536
      /\ word.r + 65536 * Carry(word.P) = x + y + Carry(Q)
      /\ "v" \in word.P <=>
           ((x % 32768) + (y % 32768) + Carry(Q) >= 32768)
             # (x + y + Carry(Q) >= 65536)
  <2>1. word = BinaryADC(Q, x, y, 65536)
    BY DEF ADC
  <2>. HIDE DEF word
  <2>. QED BY <1>3, <2>1, BinaryADCExact DEF Fits
<1>. HIDE DEF lo, hi, word
<1>8. /\ x % 32768 = 256 * (High(x) % 128) + Low(x)
      /\ y % 32768 = 256 * (High(y) % 128) + Low(y)
      /\ High(x) % 128 \in Int /\ High(y) % 128 \in Int
  BY WithoutSign
<1>9. /\ Word(hi.r, lo.r) = word.r
      /\ Carry(hi.P) = Carry(word.P)
  <2>1. Word(hi.r, lo.r) + 65536 * Carry(hi.P)
          = word.r + 65536 * Carry(word.P)
    <3>1. lo.r = Low(x) + Low(y) + Carry(Q) - 256 * Carry(lo.P)
      BY <1>1, <1>2, <1>4
    <3>2. hi.r = High(x) + High(y) + Carry(lo.P) - 256 * Carry(hi.P)
      BY <1>1, <1>2, <1>6
    <3>3. word.r = x + y + Carry(Q) - 65536 * Carry(word.P)
      BY <1>1, <1>2, <1>7
    <3>4. /\ Carry(Q) \in Int /\ Carry(lo.P) \in Int
          /\ Carry(hi.P) \in Int /\ Carry(word.P) \in Int
      BY <1>2
    <3>. QED BY <1>1, <3>1, <3>2, <3>3, <3>4 DEF Word
  <2>2. Carry(hi.P) \in {0, 1} /\ Carry(word.P) \in {0, 1}
    BY <1>2
  <2>3. Fits(hi.r, 256) /\ Fits(lo.r, 256) /\ Fits(word.r, 65536)
    BY <1>4, <1>6, <1>7 DEF Fits
  <2> DEFINE w == Word(hi.r, lo.r)
             c == Carry(hi.P)
             d == Carry(word.P)
  <2>4. Fits(w, 65536)
    BY <2>3, WordOfBytes
  <2>. HIDE DEF w, c, d
  <2>5. w = word.r /\ c = d
    <3>1. w + 65536 * c = word.r + 65536 * d
      BY <2>1 DEF w, c, d
    <3>2. (c = 0 \/ c = 1) /\ (d = 0 \/ d = 1)
      BY <2>2 DEF c, d
    <3>. QED BY <2>3, <2>4, <3>1, <3>2 DEF Fits
  <2>. QED BY <2>5 DEF w, c, d
<1>10. (High(x) + High(y) + Carry(lo.P) >= 256)
         <=> (x + y + Carry(Q) >= 65536)
  BY <1>1, <1>2, <1>4
<1>11. ((High(x) % 128) + (High(y) % 128) + Carry(lo.P) >= 128)
         <=> ((x % 32768) + (y % 32768) + Carry(Q) >= 32768)
  BY <1>1, <1>2, <1>4, <1>8
<1>12. "v" \in hi.P <=> "v" \in word.P
  BY <1>6, <1>7, <1>10, <1>11
<1>13. "c" \in hi.P <=> "c" \in word.P
  BY <1>9 DEF Carry
<1>. QED BY <1>9, <1>12, <1>13 DEF lo, hi, word

LEMMA AdditionOfWordsChains ==
  ASSUME AluTypeOK
  PROVE  AdditionOfBytesChains
<1> DEFINE lo == ADC(P, Low(a), Low(mem), 256)
           hi == ADC(lo.P, High(a), High(mem), 256)
           word == ADC(P, a, mem, 65536)
<1>1. Fits(a, 65536) /\ Fits(mem, 65536)
  BY UInt16Bounds DEF AluTypeOK, Fits
<1>2. /\ Word(hi.r, lo.r) = word.r
      /\ "c" \in hi.P <=> "c" \in word.P
      /\ "v" \in hi.P <=> "v" \in word.P
  <2>1. CASE "d" \in P
    BY <1>1, <2>1, DecimalChains
  <2>2. CASE "d" \notin P
    BY <1>1, <2>2, BinaryChains
  <2>. QED BY <2>1, <2>2
<1>3. "n" \in hi.P <=> "n" \in word.P
  <2>1. /\ "n" \in hi.P <=> hi.r >= 256 \div 2
        /\ "n" \in word.P <=> word.r >= 65536 \div 2
    BY FlagsOfADC
  <2>2. Fits(hi.r, 256) /\ Fits(lo.r, 256)
    <3>1. /\ P \in SUBSET AllFlags /\ 256 \in Moduli
          /\ Fits(Low(a), 256) /\ Fits(Low(mem), 256)
          /\ Fits(High(a), 256) /\ Fits(High(mem), 256)
      BY <1>1, Bytes DEF AluTypeOK, AllFlags, Moduli
    <3>2. Valid(lo, 256)
      BY <3>1, ArithmeticFits
    <3>3. lo.P \in SUBSET AllFlags
      BY <3>2 DEF Valid
    <3>4. Valid(hi, 256)
      <4>. HIDE DEF lo
      <4>. QED BY <3>1, <3>3, ArithmeticFits
    <3>. QED BY <3>2, <3>4 DEF Valid
  <2>. HIDE DEF lo, hi, word
  <2>. QED BY <1>2, <2>1, <2>2 DEF Fits, Word
<1>. HIDE DEF lo, hi, word
<1>4. hi.P \cap {"c", "v", "n"} = word.P \cap {"c", "v", "n"}
  BY <1>2, <1>3
<1>. QED BY <1>2, <1>4 DEF AdditionOfBytesChains, lo, hi, word

-----------------------------------------------------------------------------
(* Bits tested, set and reset.                                             *)

LEMMA BitsOfLogic ==
  ASSUME NEW x, NEW y, Fits(x, 65536), Fits(y, 65536)
  PROVE  /\ Bits(High(And(x, y))) = Bits(High(x)) \cap Bits(High(y))
         /\ Bits(Low(And(x, y))) = Bits(Low(x)) \cap Bits(Low(y))
         /\ Bits(High(Or(x, y))) = Bits(High(x)) \cup Bits(High(y))
         /\ Bits(Low(Or(x, y))) = Bits(Low(x)) \cup Bits(Low(y))
         /\ x + y = Or(x, y) + And(x, y)
<1> DEFINE xh == Bits(High(x))
           xl == Bits(Low(x))
           yh == Bits(High(y))
           yl == Bits(Low(y))
<1>1. /\ xh \in SUBSET Weights /\ xl \in SUBSET Weights
      /\ yh \in SUBSET Weights /\ yl \in SUBSET Weights
  BY DEF Bits, Weights
<1>2. /\ x = Word(High(x), Low(x)) /\ y = Word(High(y), Low(y))
      /\ ByteOf(xh) = High(x) /\ ByteOf(xl) = Low(x)
      /\ ByteOf(yh) = High(y) /\ ByteOf(yl) = Low(y)
  BY Bytes, ByteOfBits
<1>3. /\ And(x, y) = Word(ByteOf(xh \cap yh), ByteOf(xl \cap yl))
      /\ Or(x, y) = Word(ByteOf(xh \cup yh), ByteOf(xl \cup yl))
  BY DEF And, Or
<1>4. /\ ByteOf(xh) + ByteOf(yh) = ByteOf(xh \cup yh) + ByteOf(xh \cap yh)
      /\ ByteOf(xl) + ByteOf(yl) = ByteOf(xl \cup yl) + ByteOf(xl \cap yl)
  BY BytesOverlap
<1>. HIDE DEF xh, xl, yh, yl
<1> DEFINE ah == xh \cap yh
           al == xl \cap yl
           oh == xh \cup yh
           ol == xl \cup yl
<1>5. /\ ah \in SUBSET Weights /\ al \in SUBSET Weights
      /\ oh \in SUBSET Weights /\ ol \in SUBSET Weights
  BY <1>1
<1>. HIDE DEF ah, al, oh, ol
<1>6. /\ Bits(ByteOf(ah)) = ah /\ Bits(ByteOf(al)) = al
      /\ Bits(ByteOf(oh)) = oh /\ Bits(ByteOf(ol)) = ol
      /\ Fits(ByteOf(ah), 256) /\ Fits(ByteOf(al), 256)
      /\ Fits(ByteOf(oh), 256) /\ Fits(ByteOf(ol), 256)
  BY <1>5, BitsOfByte
<1>7. /\ And(x, y) = Word(ByteOf(ah), ByteOf(al))
      /\ Or(x, y) = Word(ByteOf(oh), ByteOf(ol))
  BY <1>3 DEF ah, al, oh, ol
<1>8. /\ High(And(x, y)) = ByteOf(ah) /\ Low(And(x, y)) = ByteOf(al)
      /\ High(Or(x, y)) = ByteOf(oh) /\ Low(Or(x, y)) = ByteOf(ol)
  BY <1>6, <1>7, WordOfBytes
<1>9. x + y = Or(x, y) + And(x, y)
  <2> DEFINE o == Or(x, y)
             d == And(x, y)
             Xh == ByteOf(xh)
             Xl == ByteOf(xl)
             Yh == ByteOf(yh)
             Yl == ByteOf(yl)
             Dh == ByteOf(ah)
             Dl == ByteOf(al)
             Oh == ByteOf(oh)
             Ol == ByteOf(ol)
  <2>1. /\ x = 256 * Xh + Xl /\ y = 256 * Yh + Yl
        /\ d = 256 * Dh + Dl /\ o = 256 * Oh + Ol
    BY <1>2, <1>7 DEF Word
  <2>2. Xh + Yh = Oh + Dh /\ Xl + Yl = Ol + Dl
    BY <1>4 DEF ah, al, oh, ol
  <2>3. /\ Xh \in Int /\ Xl \in Int /\ Yh \in Int /\ Yl \in Int
        /\ Dh \in Int /\ Dl \in Int /\ Oh \in Int /\ Ol \in Int
    BY ByteFits DEF Fits
  <2>. HIDE DEF o, d, Xh, Xl, Yh, Yl, Dh, Dl, Oh, Ol
  <2>4. x + y = o + d
    BY <2>1, <2>2, <2>3
  <2>. QED BY <2>4 DEF o, d
<1>. QED BY <1>6, <1>8, <1>9 DEF ah, al, oh, ol, xh, xl, yh, yl

\* A number and its complement in the width have no bit in common.
LEMMA ComplementApart ==
  ASSUME NEW W \in Moduli, NEW y, Fits(y, W), NEW z, z = W - 1 - y
  PROVE  /\ Bits(High(z)) \cap Bits(High(y)) = {}
         /\ Bits(Low(z)) \cap Bits(Low(y)) = {}
<1>1. Fits(High(y), 256) /\ Fits(Low(y), 256)
  <2>1. Fits(y, 65536)
    BY DEF Fits, Moduli
  <2>. QED BY <2>1, Bytes
<1>2. CASE W = 256
  <2>1. High(z) = 0 /\ Low(z) = 255 - Low(y)
    BY <1>2 DEF Fits, High, Low
  <2>. QED BY <1>1, <2>1, BitsOfZero, Complement
<1>3. CASE W = 65536
  <2>1. High(z) = 255 - High(y) /\ Low(z) = 255 - Low(y)
    BY <1>3 DEF Fits, High, Low
  <2>. QED BY <1>1, <2>1, Complement
<1>. QED BY <1>2, <1>3 DEF Moduli

\* The bits of y are all in x with them set, and none in x with them reset.
LEMMA MaskedPart ==
  ASSUME NEW W \in Moduli, NEW x, NEW y, Fits(x, W), Fits(y, W),
         NEW z, z = W - 1 - y
  PROVE  /\ And(Or(x, y), y) = y
         /\ And(And(x, z), y) = 0
<1>1. Fits(x, 65536) /\ Fits(y, 65536) /\ Fits(z, 65536)
  BY DEF Fits, Moduli
<1>2. And(Or(x, y), y) = y
  <2>1. /\ Bits(High(Or(x, y))) \cap Bits(High(y)) = Bits(High(y))
        /\ Bits(Low(Or(x, y))) \cap Bits(Low(y)) = Bits(Low(y))
    BY <1>1, BitsOfLogic
  <2>2. And(Or(x, y), y) = Word(ByteOf(Bits(High(y))), ByteOf(Bits(Low(y))))
    BY <2>1 DEF And
  <2>3. /\ ByteOf(Bits(High(y))) = High(y) /\ ByteOf(Bits(Low(y))) = Low(y)
        /\ y = Word(High(y), Low(y))
    BY <1>1, Bytes, ByteOfBits
  <2>. QED BY <2>2, <2>3
<1>3. And(And(x, z), y) = 0
  <2>1. /\ Bits(High(z)) \cap Bits(High(y)) = {}
        /\ Bits(Low(z)) \cap Bits(Low(y)) = {}
    BY ComplementApart
  <2>2. /\ Bits(High(And(x, z))) \cap Bits(High(y)) = {}
        /\ Bits(Low(And(x, z))) \cap Bits(Low(y)) = {}
    BY <1>1, <2>1, BitsOfLogic
  <2>3. And(And(x, z), y) = Word(ByteOf({}), ByteOf({}))
    BY <2>2 DEF And
  <2>. QED BY <2>3, ByteOfNothing DEF Word
<1>. QED BY <1>2, <1>3

\* What an instruction leaves in memory, seen in the same width.
LEMMA ChangedShows ==
  ASSUME mem \in UInt16, NEW r, Fits(r, M)
  PROVE  Changed(mem, r) % M = r
<1>1. CASE Narrow
  <2>1. M = 256 /\ Changed(mem, r) = Word(High(mem), r)
    BY <1>1 DEF M, Changed
  <2>2. Fits(High(mem), 256)
    BY Bytes, UInt16Bounds DEF Fits
  <2>. QED BY <2>1, <2>2, WordOfBytes DEF Low
<1>2. CASE ~Narrow
  BY <1>2 DEF Changed, M, Fits
<1>. QED BY <1>1, <1>2

\* With the bits of y set or reset in x, and with those of x alone, the
\* complement of y leaves the same.
LEMMA MaskedAlike ==
  ASSUME NEW W \in Moduli, NEW x, NEW y, Fits(x, W), Fits(y, W),
         NEW z, z = W - 1 - y
  PROVE  /\ And(Or(x, y), z) = And(x, z)
         /\ And(And(x, z), z) = And(x, z)
<1>1. /\ Fits(x, 65536) /\ Fits(y, 65536) /\ Fits(z, 65536)
  BY DEF Fits, Moduli
<1>2. /\ Bits(High(z)) \cap Bits(High(y)) = {}
      /\ Bits(Low(z)) \cap Bits(Low(y)) = {}
  BY ComplementApart
<1>3. /\ Bits(High(Or(x, y))) \cap Bits(High(z)) =
           Bits(High(x)) \cap Bits(High(z))
      /\ Bits(Low(Or(x, y))) \cap Bits(Low(z)) =
           Bits(Low(x)) \cap Bits(Low(z))
  BY <1>1, <1>2, BitsOfLogic
<1>4. /\ Bits(High(And(x, z))) \cap Bits(High(z)) =
           Bits(High(x)) \cap Bits(High(z))
      /\ Bits(Low(And(x, z))) \cap Bits(Low(z)) =
           Bits(Low(x)) \cap Bits(Low(z))
  BY <1>1, BitsOfLogic
<1>. QED BY <1>3, <1>4 DEF And

LEMMA BitsMasked ==
  ASSUME AluTypeOK, TSB \/ TRB
  PROVE  /\ TSB => And(mem' % M, Seen(a)) = Seen(a)
         /\ TRB => And(mem' % M, Seen(a)) = 0
         /\ And(mem' % M, M - 1 - Seen(a)) = And(Seen(mem), M - 1 - Seen(a))
         /\ Narrow => High(mem') = High(mem)
         /\ "z" \in P' <=> Seen(mem) + Seen(a) = Or(Seen(mem), Seen(a))
<1> DEFINE x == Seen(mem)
           y == Seen(a)
           z == M - 1 - y
<1>1. M \in Moduli /\ Fits(x, M) /\ Fits(y, M)
  BY SeenBounds DEF AluTypeOK, Fits
<1>2. Fits(x, 65536) /\ Fits(y, 65536) /\ Fits(z, M)
  BY <1>1 DEF Moduli, Fits
<1>3. PICK r \in {Or(x, y), And(x, z)} :
        mem' = Changed(mem, r) /\ P' = Disjoint
  BY DEF TSB, TRB, Modify, Result
<1>4. Fits(r, M)
  BY <1>1, <1>2, <1>3, LogicFits
<1>5. And(r, z) = And(x, z)
  BY <1>1, <1>3, MaskedAlike
<1>6. mem' % M = r /\ (Narrow => High(mem') = High(mem))
  <2>1. CASE Narrow
    <3>1. mem' = Word(High(mem), r) /\ M = 256
      BY <1>3, <2>1 DEF Changed, M
    <3>2. Fits(High(mem), 256) /\ Fits(r, 256)
      BY <1>4, <3>1, Bytes, UInt16Bounds DEF AluTypeOK, Fits
    <3>. QED BY <3>1, <3>2, WordOfBytes DEF Low
  <2>2. CASE ~Narrow
    BY <1>3, <1>4, <2>2 DEF Changed, M, Fits
  <2>. QED BY <2>1, <2>2
<1>7. "z" \in P' <=> And(y, x) = 0
  BY <1>3 DEF Disjoint, Put
<1>8. x + y = Or(x, y) + And(x, y) /\ And(y, x) = And(x, y)
  <2>. HIDE DEF x, y
  <2>1. x + y = Or(x, y) + And(x, y)
    BY <1>2, BitsOfLogic
  <2>2. /\ Bits(High(y)) \cap Bits(High(x)) = Bits(High(x)) \cap Bits(High(y))
        /\ Bits(Low(y)) \cap Bits(Low(x)) = Bits(Low(x)) \cap Bits(Low(y))
    OBVIOUS
  <2>. QED BY <2>1, <2>2 DEF And
<1>9. Fits(Or(x, y), M) /\ Fits(And(x, y), M)
  BY <1>1, LogicFits
<1>10. And(x, y) = 0 <=> x + y = Or(x, y)
  <2>. HIDE DEF x, y
  <2>. QED BY <1>8, <1>9 DEF Fits
<1>. z = M - 1 - y
  OBVIOUS
<1>11. And(Or(x, y), y) = y /\ And(And(x, z), y) = 0
  <2>. HIDE DEF x, y, z
  <2>. QED BY <1>1, MaskedPart
<1>12. ASSUME TSB PROVE And(mem' % M, y) = y
  <2>1. mem' = Changed(mem, Or(x, y))
    BY <1>12 DEF TSB, Modify, Result
  <2>2. mem' % M = Or(x, y)
    BY <1>9, <2>1, ChangedShows DEF AluTypeOK
  <2>. HIDE DEF x, y
  <2>. QED BY <1>11, <2>2
<1>13. ASSUME TRB PROVE And(mem' % M, y) = 0
  <2>1. mem' = Changed(mem, And(x, z))
    BY <1>13 DEF TRB, Modify, Result
  <2>2. Fits(And(x, z), M)
    BY <1>1, <1>2, LogicFits
  <2>3. mem' % M = And(x, z)
    BY <2>1, <2>2, ChangedShows DEF AluTypeOK
  <2>. HIDE DEF x, y, z
  <2>. QED BY <1>11, <2>3
<1>. QED BY <1>5, <1>6, <1>7, <1>8, <1>10, <1>12, <1>13

-----------------------------------------------------------------------------
(* The theorems.                                                           *)

\* Registers and memory hold words and the flags are those of the processor,
\* whatever sequence of instructions has run (run alu, every word).
THEOREM AluTypeCorrect == Spec => []AluTypeOK
<1>1. Init => AluTypeOK
  BY AluMachineAssumption DEF Init, AluTypeOK
<1>2. AluTypeOK /\ [Next]_vars => AluTypeOK'
  <2>. SUFFICES ASSUME AluTypeOK, [Next]_vars PROVE AluTypeOK'
    OBVIOUS
  <2>1. CASE Instruction
    <3>1. a' \in UInt16 /\ mem' \in UInt16 /\ P' \in SUBSET AllFlags
      BY <2>1, InstructionFits
    <3>2. ops' \in 0..MAX_OPS
      BY <2>1, AluMachineAssumption DEF Instruction, AluTypeOK
    <3>. QED BY <3>1, <3>2 DEF AluTypeOK, AllFlags
  <2>2. CASE UNCHANGED vars
    BY <2>2 DEF AluTypeOK, vars
  <2>. QED BY <2>1, <2>2 DEF Next, Done
<1>. QED BY <1>1, <1>2, PTL DEF Spec

\* ADC adds exactly, with the right carry and overflow, in both widths and
\* whatever was computed before.
THEOREM AdditionsAreExact == Spec => []AdditionIsExact
<1>1. AluTypeOK => AdditionIsExact
  BY AdditionOfWords DEF AluTypeOK
<1>. QED BY <1>1, AluTypeCorrect, PTL

\* SBC subtracts bytes exactly, with the right borrow and overflow.
THEOREM SubtractionsOfBytesAreExact == Spec => []SubtractionOfBytesIsExact
<1>1. AluTypeOK => SubtractionOfBytesIsExact
  BY SubtractionOfBytes DEF AluTypeOK
<1>. QED BY <1>1, AluTypeCorrect, PTL

\* CMP sets the flags as subtracting would after SEC: of bytes, and of words
\* byte by byte with the borrow between the two.
THEOREM ComparisonsSubtract == Spec => []CompareIsSubtract
<1>1. AluTypeOK => CompareIsSubtract
  BY ComparisonSubtracts DEF AluTypeOK
<1>. QED BY <1>1, AluTypeCorrect, PTL

\* ROL and ROR undo one another, and ROL brings back what LSR dropped.
THEOREM RotationsUndoOneAnother == Spec => []RotationUndone
<1>1. AluTypeOK => RotationUndone
  BY RotationOfWords
<1>. QED BY <1>1, AluTypeCorrect, PTL

\* ADC adds decimal numbers exactly, whatever was computed before.
THEOREM DecimalAdditionsAreExact == Spec => []DecimalAdditionIsExact
<1>1. AluTypeOK => DecimalAdditionIsExact
  BY DecimalAdditionOfWords
<1>. QED BY <1>1, AluTypeCorrect, PTL

\* Adding words byte by byte through the carry, as the kernel's doubling of
\* a number in decimal does, is adding them at once.
THEOREM AdditionsChain == Spec => []AdditionOfBytesChains
<1>1. AluTypeOK => AdditionOfBytesChains
  BY AdditionOfWordsChains
<1>. QED BY <1>1, AluTypeCorrect, PTL

\* TSB sets the accumulator's bits in memory and TRB clears them; neither
\* changes another bit, the high byte not at all in 8 bits, and Z says whether
\* the two had a bit in common.
THEOREM TestBitsFollowTheMask == Spec => TestBitsMask
<1>1. AluTypeOK /\ [Next]_vars =>
        [/\ TSB => And(mem' % M, Seen(a)) = Seen(a)
         /\ TRB => And(mem' % M, Seen(a)) = 0
         /\ TSB \/ TRB =>
           /\ And(mem' % M, M - 1 - Seen(a)) = And(Seen(mem), M - 1 - Seen(a))
           /\ Narrow => High(mem') = High(mem)
           /\ "z" \in P' <=> Seen(mem) + Seen(a) = Or(Seen(mem), Seen(a))]_vars
  BY BitsMasked
<1>. QED BY <1>1, AluTypeCorrect, PTL DEF Spec, TestBitsMask

=============================================================================
