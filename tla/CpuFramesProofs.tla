-------------------------- MODULE CpuFramesProofs --------------------------
(***************************************************************************)
(* For every stack area without gaps, every code and every vector: however *)
(* calls, saved registers, modes and interrupts nest, each return finds on *)
(* the stack what its call put there.  The inductive invariant is Sound:   *)
(* the frames, which the history remembers, lie on the stack one below the *)
(* other, and the stack pointer below them all.  It says nothing           *)
(* of what the frames hold.  That is the abstract state, and a step keeps  *)
(* it because it writes no byte above the lower of the two stack pointers. *)
(*                                                                         *)
(* The proof goes up from the bytes: what a push leaves and a status byte  *)
(* says, what each handler leaves of the processor, what Do makes of it,   *)
(* and last the entry of an interrupt before the instruction.              *)
(***************************************************************************)
EXTENDS CpuFrames, AluLemmas, SequenceTheorems

-----------------------------------------------------------------------------
(* Frames and their contents.                                              *)

Kinds == {"jsr", "jsl", "emulation", "native"}
FrameSet == [kind : Kinds, sp : StackArea]

\* The first byte below a frame.
Room(f) == f.sp - Size[f.kind]

\* The frames fs lie above s, each below the ones outside it.
Stacked(fs, s) ==
  /\ fs \in Seq(FrameSet)
  /\ \A i \in 1..Len(fs) : s <= Room(fs[i])
  /\ \A i, j \in 1..Len(fs) : i < j => fs[j].sp <= Room(fs[i])

LEMMA Sizes ==
  /\ DOMAIN Size = Kinds
  /\ Size["jsr"] = 2 /\ Size["jsl"] = 3
  /\ Size["emulation"] = 3 /\ Size["native"] = 4
BY DEF Size, Kinds

LEMMA AreaIsInt == \A a \in StackArea : a \in Int /\ 8 <= a /\ a <= 65535
BY CpuFramesAssumption, UInt16Bounds

LEMMA RoomIsInt ==
  ASSUME NEW f \in FrameSet
  PROVE  Room(f) \in Int /\ Room(f) <= f.sp - 2 /\ f.sp \in Int
BY Sizes, AreaIsInt DEF FrameSet, Room, Kinds

LEMMA StackedLower ==
  ASSUME NEW fs, NEW s \in Int, NEW t \in Int, Stacked(fs, s), t <= s
  PROVE  Stacked(fs, t)
<1>1. \A i \in 1..Len(fs) : fs[i] \in FrameSet
  BY ElementOfSeq DEF Stacked
<1>. QED BY <1>1, RoomIsInt DEF Stacked

\* All frames lie above the innermost one.
LEMMA StackedRaise ==
  ASSUME NEW fs, NEW s \in Int, NEW t \in Int, Stacked(fs, s), fs # <<>>,
         t <= Room(Last(fs))
  PROVE  Stacked(fs, t)
<1> DEFINE n == Len(fs)
<1>1. fs \in Seq(FrameSet)
  BY DEF Stacked
<1>2. /\ n \in Nat /\ n >= 1 /\ Last(fs) = fs[n]
      /\ \A i \in 1..n : fs[i] \in FrameSet
  BY <1>1, EmptySeq, ElementOfSeq DEF Last
<1>3. \A i, j \in 1..n : i < j => fs[j].sp <= Room(fs[i])
  BY DEF Stacked
<1>. HIDE DEF n
<1>4. ASSUME NEW i \in 1..n PROVE t <= Room(fs[i])
  <2>1. CASE i = n
    BY <1>2, <2>1
  <2>2. CASE i # n
    <3>1. /\ n \in 1..n /\ i < n
          /\ Room(fs[i]) \in Int /\ Room(fs[n]) \in Int
          /\ Room(fs[n]) <= fs[n].sp - 2 /\ fs[n].sp \in Int
      BY <1>2, <2>2, RoomIsInt
    <3>2. fs[n].sp <= Room(fs[i])
      BY <1>3, <3>1
    <3>. QED BY <1>2, <3>1, <3>2
  <2>. QED BY <2>1, <2>2
<1>. QED BY <1>1, <1>3, <1>4 DEF Stacked, n

LEMMA StackedAppend ==
  ASSUME NEW fs, NEW s \in StackArea, Stacked(fs, s), NEW k \in Kinds,
         NEW gs, gs = Append(fs, Frame(k, s))
  PROVE  Stacked(gs, s - Size[k])
<1> DEFINE f == Frame(k, s)
           n == Len(fs)
<1>1. f \in FrameSet /\ Room(f) = s - Size[k] /\ f.sp = s
  BY DEF FrameSet, Frame, Room
<1>2. fs \in Seq(FrameSet) /\ n \in Nat
  BY LenProperties DEF Stacked
<1>. HIDE DEF f
<1>3. /\ gs \in Seq(FrameSet) /\ Len(gs) = n + 1 /\ gs[n + 1] = f
      /\ \A i \in 1..n : gs[i] = fs[i]
  BY <1>1, <1>2, AppendProperties DEF f
<1>4. \A i \in 1..n : fs[i] \in FrameSet
  BY <1>2, ElementOfSeq
<1>5. s \in Int /\ s - Size[k] <= s /\ s - Size[k] \in Int
  BY <1>1, <1>2, RoomIsInt, AreaIsInt, Sizes DEF Kinds
<1>. HIDE DEF n
<1>6. \A i \in 1..n : s <= Room(gs[i]) /\ Room(gs[i]) \in Int
  BY <1>3, <1>4, RoomIsInt DEF Stacked, n
<1>7. \A i \in 1..Len(gs) : s - Size[k] <= Room(gs[i])
  BY <1>1, <1>2, <1>3, <1>5, <1>6
<1>8. ASSUME NEW i \in 1..Len(gs), NEW j \in 1..Len(gs), i < j
      PROVE  gs[j].sp <= Room(gs[i])
  <2>1. i \in 1..n
    BY <1>2, <1>3, <1>8
  <2>2. CASE j = n + 1
    BY <1>1, <1>3, <1>6, <2>1, <2>2
  <2>3. CASE j \in 1..n
    BY <1>3, <1>8, <2>1, <2>3 DEF Stacked, n
  <2>. QED BY <1>2, <1>3, <2>2, <2>3
<1>. QED BY <1>3, <1>7, <1>8 DEF Stacked

LEMMA FrontOf ==
  ASSUME NEW S, NEW fs \in Seq(S), fs # <<>>
  PROVE  /\ Front(fs) \in Seq(S) /\ Len(fs) \in Nat /\ Len(fs) >= 1
         /\ Len(Front(fs)) = Len(fs) - 1
         /\ \A i \in 1..(Len(fs) - 1) : Front(fs)[i] = fs[i]
         /\ Last(fs) = fs[Len(fs)] /\ Last(fs) \in S
<1>1. Len(fs) \in Nat /\ Len(fs) >= 1 /\ \A i \in 1..Len(fs) : fs[i] \in S
  BY EmptySeq, ElementOfSeq
<1>2. SubSeq(fs, 1, Len(fs) - 1) = Front(fs)
  BY DEF Front
<1>3. /\ Front(fs) \in Seq(S)
      /\ Len(Front(fs)) = Len(fs) - 1
      /\ \A i \in 1..(Len(fs) - 1) : Front(fs)[i] = fs[i]
  <2> DEFINE n == Len(fs) - 1
             gs == SubSeq(fs, 1, n)
  <2>1. n \in Int /\ n >= 0 /\ \A i \in 1..n : fs[i] \in S
    BY <1>1
  <2>. HIDE DEF n
  <2>2. /\ gs \in Seq(S) /\ Len(gs) = IF 1 <= n THEN n - 1 + 1 ELSE 0
        /\ \A i \in 1..(n - 1 + 1) : gs[i] = fs[1 + i - 1]
    BY <2>1, SubSeqProperties
  <2>. HIDE DEF gs
  <2>3. gs \in Seq(S) /\ Len(gs) = n /\ \A i \in 1..n : gs[i] = fs[i]
    BY <2>1, <2>2
  <2>. QED BY <1>2, <2>3 DEF n, gs
<1>. QED BY <1>1, <1>2, <1>3 DEF Last

LEMMA StackedFront ==
  ASSUME NEW fs, NEW s \in Int, Stacked(fs, s), fs # <<>>
  PROVE  /\ Stacked(Front(fs), Last(fs).sp)
         /\ Last(fs) \in FrameSet /\ s <= Room(Last(fs))
<1> DEFINE n == Len(fs)
<1>1. fs \in Seq(FrameSet)
  BY DEF Stacked
<1>2. /\ Front(fs) \in Seq(FrameSet) /\ n \in Nat /\ n >= 1
      /\ Len(Front(fs)) = n - 1
      /\ \A i \in 1..(n - 1) : Front(fs)[i] = fs[i]
      /\ Last(fs) = fs[n] /\ Last(fs) \in FrameSet
  BY <1>1, FrontOf
<1>3. /\ \A i \in 1..n : s <= Room(fs[i])
      /\ \A i, j \in 1..n : i < j => fs[j].sp <= Room(fs[i])
  BY DEF Stacked
<1>. HIDE DEF n
<1>4. \A i \in 1..(n - 1) : Last(fs).sp <= Room(Front(fs)[i])
  BY <1>2, <1>3
<1>5. \A i, j \in 1..(n - 1) : i < j => Front(fs)[j].sp <= Room(Front(fs)[i])
  BY <1>2, <1>3
<1>. QED BY <1>2, <1>3, <1>4, <1>5 DEF Stacked

Contents(ram) == {Decode(ram, f) : f \in FrameSet}

LEMMA Decoded ==
  ASSUME NEW ram, NEW fs \in Seq(FrameSet)
  PROVE  /\ DecodeAll(ram, fs) \in Seq(Contents(ram))
         /\ Len(DecodeAll(ram, fs)) = Len(fs)
         /\ \A i \in 1..Len(fs) : DecodeAll(ram, fs)[i] = Decode(ram, fs[i])
<1> DEFINE n == Len(fs)
           ds == DecodeAll(ram, fs)
<1>1. DOMAIN fs = 1..n /\ n \in Nat /\ \A i \in 1..n : fs[i] \in FrameSet
  BY LenProperties, ElementOfSeq
<1>. HIDE DEF n
<1>2. ds = [i \in 1..n |-> Decode(ram, fs[i])]
  BY <1>1 DEF DecodeAll
<1>. HIDE DEF ds
<1>3. \A i \in 1..n : Decode(ram, fs[i]) \in Contents(ram)
  BY <1>1 DEF Contents
<1>4. ds \in [1..n -> Contents(ram)]
  BY <1>2, <1>3
<1>5. ds \in Seq(Contents(ram))
  BY <1>1, <1>4, SeqDef
<1>6. DOMAIN ds = 1..n /\ DOMAIN ds = 1..Len(ds) /\ Len(ds) \in Nat
  BY <1>2, <1>5, LenProperties
<1>7. Len(ds) = n
  BY <1>1, <1>6
<1>. QED BY <1>2, <1>5, <1>7 DEF n, ds

LEMMA DecodedAppend ==
  ASSUME NEW ram, NEW fs \in Seq(FrameSet), NEW f \in FrameSet
  PROVE  DecodeAll(ram, Append(fs, f)) =
           Append(DecodeAll(ram, fs), Decode(ram, f))
<1> DEFINE n  == Len(fs)
           gs == Append(fs, f)
           x  == DecodeAll(ram, gs)
           y  == DecodeAll(ram, fs)
           d  == Decode(ram, f)
           z  == Append(y, d)
<1>1. /\ gs \in Seq(FrameSet) /\ Len(gs) = n + 1 /\ n \in Nat
      /\ gs[n + 1] = f /\ \A i \in 1..n : gs[i] = fs[i]
  BY AppendProperties, LenProperties
<1>. HIDE DEF gs
<1>2. /\ x \in Seq(Contents(ram)) /\ Len(x) = n + 1
      /\ \A i \in 1..(n + 1) : x[i] = Decode(ram, gs[i])
  BY <1>1, Decoded
<1>3. /\ y \in Seq(Contents(ram)) /\ Len(y) = n
      /\ \A i \in 1..n : y[i] = Decode(ram, fs[i])
  BY Decoded
<1>4. d \in Contents(ram)
  BY DEF Contents
<1>. HIDE DEF n, x, y, d
<1>5. /\ z \in Seq(Contents(ram)) /\ Len(z) = n + 1
      /\ z[n + 1] = d /\ \A i \in 1..n : z[i] = y[i]
  BY <1>3, <1>4, AppendProperties
<1>. HIDE DEF z
<1>6. \A i \in 1..n : x[i] = z[i]
  BY <1>1, <1>2, <1>3, <1>5
<1>7. x[n + 1] = z[n + 1]
  BY <1>1, <1>2, <1>5 DEF d
<1>8. \A i \in 1..(n + 1) : i \in 1..n \/ i = n + 1
  BY <1>1
<1>9. \A i \in 1..(n + 1) : x[i] = z[i]
  BY <1>6, <1>7, <1>8
<1>10. x = z
  BY <1>2, <1>5, <1>9, SeqEqual
<1>. QED BY <1>10 DEF x, y, z, d, gs

LEMMA DecodedFront ==
  ASSUME NEW ram, NEW fs \in Seq(FrameSet), fs # <<>>
  PROVE  /\ DecodeAll(ram, fs) # <<>>
         /\ DecodeAll(ram, Front(fs)) = Front(DecodeAll(ram, fs))
         /\ Last(DecodeAll(ram, fs)) = Decode(ram, Last(fs))
<1> DEFINE n  == Len(fs)
           gs == Front(fs)
           x  == DecodeAll(ram, gs)
           y  == DecodeAll(ram, fs)
           z  == Front(y)
<1>1. /\ gs \in Seq(FrameSet) /\ n \in Nat /\ n >= 1 /\ Len(gs) = n - 1
      /\ \A i \in 1..(n - 1) : gs[i] = fs[i]
      /\ Last(fs) = fs[n]
  BY FrontOf
<1>. HIDE DEF gs
<1>2. /\ x \in Seq(Contents(ram)) /\ Len(x) = n - 1
      /\ \A i \in 1..(n - 1) : x[i] = Decode(ram, gs[i])
  BY <1>1, Decoded
<1>3. /\ y \in Seq(Contents(ram)) /\ Len(y) = n
      /\ \A i \in 1..n : y[i] = Decode(ram, fs[i])
  BY Decoded
<1>. HIDE DEF n, x, y
<1>4. y # <<>>
  BY <1>1, <1>3, EmptySeq
<1>5. /\ z \in Seq(Contents(ram)) /\ Len(z) = n - 1
      /\ \A i \in 1..(n - 1) : z[i] = y[i]
      /\ Last(y) = y[n]
  BY <1>3, <1>4, FrontOf
<1>. HIDE DEF z
<1>6. \A i \in 1..(n - 1) : i \in 1..n
  BY <1>1
<1>7. \A i \in 1..(n - 1) : x[i] = z[i]
  BY <1>1, <1>2, <1>3, <1>5, <1>6
<1>8. x = z
  BY <1>2, <1>5, <1>7, SeqEqual
<1>9. n \in 1..n
  BY <1>1
<1>10. Last(y) = Decode(ram, Last(fs))
  BY <1>1, <1>3, <1>5, <1>9
<1>. QED BY <1>4, <1>8, <1>10 DEF x, y, z, gs

\* The content of a frame is in the bytes above its room.
LEMMA DecodeKept ==
  ASSUME NEW f \in FrameSet, NEW s \in StackArea, s <= Room(f), NEW r1, NEW r2,
         \A a \in StackArea : a > s => r1[a] = r2[a]
  PROVE  Decode(r1, f) = Decode(r2, f)
<1>1. /\ f.sp \in StackArea /\ f.kind \in Kinds
      /\ f.sp \in Int /\ s \in Int
  BY AreaIsInt DEF FrameSet
<1>2. \A n \in 0..3 : n < Size[f.kind] => r1[f.sp - n] = r2[f.sp - n]
  <2>. SUFFICES ASSUME NEW n \in 0..3, n < Size[f.kind]
                PROVE  r1[f.sp - n] = r2[f.sp - n]
    OBVIOUS
  <2>1. Size[f.kind] \in Int
    BY <1>1, Sizes DEF Kinds
  <2>2. s < f.sp - n /\ f.sp - n \in s..f.sp
    BY <1>1, <2>1 DEF Room
  <2>3. s..f.sp \subseteq StackArea
    BY <1>1, CpuFramesAssumption
  <2>. QED BY <2>2, <2>3
<1>3. /\ r1[f.sp - 0] = r2[f.sp - 0] /\ r1[f.sp - 1] = r2[f.sp - 1]
      /\ f.kind # "jsr" => r1[f.sp - 2] = r2[f.sp - 2]
      /\ f.kind = "native" => r1[f.sp - 3] = r2[f.sp - 3]
  BY <1>1, <1>2, Sizes DEF Kinds
<1>4. CASE f.kind = "jsr"
  BY <1>3, <1>4 DEF Decode
<1>5. CASE f.kind = "jsl"
  BY <1>3, <1>5 DEF Decode
<1>6. CASE f.kind = "emulation"
  BY <1>3, <1>6 DEF Decode
<1>7. CASE f.kind = "native"
  BY <1>3, <1>7 DEF Decode
<1>. QED BY <1>1, <1>4, <1>5, <1>6, <1>7 DEF Kinds

LEMMA DecodeAllKept ==
  ASSUME NEW fs, NEW s \in StackArea, Stacked(fs, s), NEW r1, NEW r2,
         \A a \in StackArea : a > s => r1[a] = r2[a]
  PROVE  DecodeAll(r1, fs) = DecodeAll(r2, fs)
<1>1. DOMAIN fs = 1..Len(fs) /\ \A i \in 1..Len(fs) : fs[i] \in FrameSet
  BY LenProperties, ElementOfSeq DEF Stacked
<1>2. \A i \in 1..Len(fs) : Decode(r1, fs[i]) = Decode(r2, fs[i])
  <2>. SUFFICES ASSUME NEW i \in 1..Len(fs)
                PROVE  Decode(r1, fs[i]) = Decode(r2, fs[i])
    OBVIOUS
  <2>1. fs[i] \in FrameSet /\ s <= Room(fs[i])
    BY <1>1 DEF Stacked
  <2>. QED BY <2>1, DecodeKept
<1>. QED BY <1>1, <1>2 DEF DecodeAll

-----------------------------------------------------------------------------
(* The processor and its pushes.                                           *)

Flags == {"c", "z", "i", "d", "b", "x", "m", "v", "n", "e"}
Processors ==
  [A : UInt16, X : UInt16, Y : UInt16, D : UInt16, DB : UInt8,
   P : SUBSET Flags, pb : UInt8, pc : UInt16, sp : UInt16,
   ram : [StackArea -> UInt8], RES : BOOLEAN, RDY : BOOLEAN]

LEMMA UInt8Bounds == \A i : i \in UInt8 <=> i \in Int /\ 0 <= i /\ i <= 255
<1>1. UINT8_MAX \in Int
  BY DEF UINT8_MAX
<1>2. \A i : i \in UInt8 <=> i \in Int /\ 0 <= i /\ i <= UINT8_MAX
  BY <1>1 DEF UInt8
<1>. QED BY <1>2 DEF UINT8_MAX

LEMMA Wrapped ==
  /\ \A v \in Int : Wrap(v) \in UInt16
  /\ \A v \in UInt16 : Wrap(v) = v
<1>1. ASSUME NEW v \in Int PROVE Wrap(v) \in UInt16
  BY UInt16Bounds DEF Wrap
<1>2. ASSUME NEW v \in UInt16 PROVE Wrap(v) = v
  BY UInt16Bounds DEF Wrap
<1>. QED BY <1>1, <1>2

LEMMA BytesOfWord ==
  ASSUME NEW v \in UInt16
  PROVE  High(v) \in UInt8 /\ Low(v) \in UInt8 /\ Word(High(v), Low(v)) = v
BY UInt8Bounds, UInt16Bounds DEF High, Low, Word

LEMMA WordType ==
  ASSUME NEW hi \in UInt8, NEW lo \in UInt8
  PROVE  Word(hi, lo) \in UInt16
BY UInt8Bounds, UInt16Bounds DEF Word

\* Only the stack differs between c and d.
Place(c, d) == d \in Processors /\ d.P = c.P /\ d.pb = c.pb /\ d.pc = c.pc

LEMMA Pushed8 ==
  ASSUME NEW c \in Processors, NEW v \in UInt8, c.sp >= 1,
         NEW d, d = Push8(c, v)
  PROVE  /\ Place(c, d) /\ d.sp = c.sp - 1
         /\ \A a \in StackArea : d.ram[a] = IF a = c.sp THEN v ELSE c.ram[a]
<1>1. c.sp - 1 \in UInt16
  BY UInt16Bounds DEF Processors
<1>2. Wrap(c.sp - 1) = c.sp - 1
  BY <1>1, Wrapped
<1>3. c.ram \in [StackArea -> UInt8]
  BY DEF Processors
<1> DEFINE r == IF c.sp \in DOMAIN c.ram THEN [c.ram EXCEPT ![c.sp] = v]
                                         ELSE c.ram
<1>4. /\ r \in [StackArea -> UInt8]
      /\ \A a \in StackArea : r[a] = IF a = c.sp THEN v ELSE c.ram[a]
  BY <1>3
<1>5. d = [c EXCEPT !.ram = r, !.sp = c.sp - 1]
  BY <1>2 DEF Push8
<1>. HIDE DEF r
<1>6. /\ d.ram = r /\ d.sp = c.sp - 1 /\ d.P = c.P /\ d.pb = c.pb
      /\ d.pc = c.pc /\ d \in Processors
  BY <1>1, <1>4, <1>5 DEF Processors
<1>. QED BY <1>4, <1>6 DEF Place

LEMMA Pushed16 ==
  ASSUME NEW c \in Processors, NEW v \in UInt16, c.sp >= 2,
         NEW d, d = Push16(c, v)
  PROVE  /\ Place(c, d) /\ d.sp = c.sp - 2
         /\ \A a \in StackArea :
              d.ram[a] = IF a = c.sp THEN High(v)
                         ELSE IF a = c.sp - 1 THEN Low(v) ELSE c.ram[a]
<1> DEFINE e == Push8(c, High(v))
<1>1. c.sp \in Int /\ c.sp >= 1
  BY UInt16Bounds DEF Processors
<1>2. High(v) \in UInt8 /\ Low(v) \in UInt8
  BY BytesOfWord
<1>. HIDE DEF e
<1>3. /\ Place(c, e) /\ e.sp = c.sp - 1
      /\ \A a \in StackArea :
           e.ram[a] = IF a = c.sp THEN High(v) ELSE c.ram[a]
  BY <1>1, <1>2, Pushed8 DEF e
<1>4. e \in Processors /\ e.sp >= 1
  BY <1>1, <1>3 DEF Place
<1>5. d = Push8(e, Low(v))
  BY DEF Push16, e
<1>6. /\ Place(e, d) /\ d.sp = e.sp - 1
      /\ \A a \in StackArea :
           d.ram[a] = IF a = e.sp THEN Low(v) ELSE e.ram[a]
  BY <1>2, <1>4, <1>5, Pushed8
<1>7. \A a \in StackArea :
        d.ram[a] = IF a = c.sp THEN High(v)
                   ELSE IF a = c.sp - 1 THEN Low(v) ELSE c.ram[a]
  BY <1>1, <1>3, <1>6
<1>. QED BY <1>1, <1>3, <1>6, <1>7 DEF Place

-----------------------------------------------------------------------------
(* The status byte.                                                        *)

\* The flags that a status byte is made from, and those that it names.
Shown(P) == P \cap Carried(P)
Marked(P, byte) == {g \in Carried(P) : Weight[g] \in Bits(byte)}

LEMMA CarriedFlags ==
  ASSUME NEW P
  PROVE  /\ Carried(P) \subseteq Flags /\ "e" \notin Carried(P)
         /\ {"c", "z", "i", "d", "v", "n"} \subseteq Carried(P)
         /\ "e" \in P => "x" \notin Carried(P) /\ "m" \notin Carried(P)
                        /\ "b" \in Carried(P)
         /\ "e" \notin P => "b" \notin Carried(P)
                           /\ {"x", "m"} \subseteq Carried(P)
         /\ \A f \in Carried(P) : Weight[f] \in Weights
         /\ \A f, g \in Carried(P) : Weight[f] = Weight[g] => f = g
<1>1. CASE "e" \in P
  BY <1>1 DEF Carried, Flags, Weight, Weights
<1>2. CASE "e" \notin P
  BY <1>2 DEF Carried, Flags, Weight, Weights
<1>. QED BY <1>1, <1>2

LEMMA StatusByte ==
  ASSUME NEW P
  PROVE  /\ GetRegisterValue(P) \in UInt8
         /\ Bits(GetRegisterValue(P)) = StatusBits(P)
         /\ Marked(P, GetRegisterValue(P)) = Shown(P)
<1>1. StatusBits(P) \in SUBSET Weights
  BY CarriedFlags DEF StatusBits
<1>2. Fits(GetRegisterValue(P), 256)
  BY <1>1, BitsOfByte DEF GetRegisterValue
<1>3. GetRegisterValue(P) \in UInt8
  BY <1>2, UInt8Bounds DEF Fits
<1>4. \A g \in Carried(P) : Weight[g] \in StatusBits(P) <=> g \in P
  BY CarriedFlags DEF StatusBits
<1>5. Bits(GetRegisterValue(P)) = StatusBits(P)
  BY <1>1, BitsOfByte DEF GetRegisterValue
<1>6. Marked(P, GetRegisterValue(P)) = Shown(P)
  BY <1>4, <1>5 DEF Marked, Shown
<1>. QED BY <1>3, <1>5, <1>6

LEMMA StatusRestored ==
  ASSUME NEW P \in SUBSET Flags
  PROVE  SetRegisterValue(P, GetRegisterValue(P)) =
           P \ (IF "e" \in P THEN {"m"} ELSE {})
<1>1. SetRegisterValue(P, GetRegisterValue(P)) =
        (P \cap Carried(P)) \cup
        (P \cap (IF "e" \in P THEN {"e", "x"} ELSE {"b"}))
  BY StatusByte DEF SetRegisterValue, SetRegisterBits, Marked, Shown
<1>2. CASE "e" \in P
  <2>1. \A g \in Flags : g \in Carried(P) \/ g \in {"e", "x", "m"}
    BY <1>2 DEF Carried, Flags
  <2>. QED BY <1>1, <1>2, <2>1, CarriedFlags
<1>3. CASE "e" \notin P
  <2>1. \A g \in Flags : g \in Carried(P) \/ g \in {"e", "b"}
    BY <1>3 DEF Carried, Flags
  <2>. QED BY <1>1, <1>3, <2>1, CarriedFlags
<1>. QED BY <1>2, <1>3

\* What SetRegisterValue makes of a byte.
LEMMA StatusSet ==
  ASSUME NEW P \in SUBSET Flags, NEW byte,
         NEW R, R = SetRegisterValue(P, byte)
  PROVE  /\ R \in SUBSET Flags /\ ("e" \in R <=> "e" \in P)
         /\ Carried(R) = Carried(P)
         /\ Shown(R) = Marked(P, byte)
<1>1. /\ R = Marked(P, byte) \cup
                (P \cap (IF "e" \in P THEN {"e", "x"} ELSE {"b"}))
      /\ Marked(P, byte) \subseteq Carried(P)
  BY DEF Marked, SetRegisterValue, SetRegisterBits
<1>2. R \in SUBSET Flags /\ ("e" \in R <=> "e" \in P)
  BY <1>1, CarriedFlags
<1>3. Carried(R) = Carried(P)
  BY <1>2 DEF Carried
<1>4. \A g \in P \cap (IF "e" \in P THEN {"e", "x"} ELSE {"b"}) :
        g \notin Carried(P)
  BY CarriedFlags
<1>5. R \cap Carried(P) = Marked(P, byte)
  BY <1>1, <1>4
<1>. QED BY <1>2, <1>3, <1>5 DEF Shown

-----------------------------------------------------------------------------
(* A context on the stack.                                                 *)

Content(kind, bank, return, status) ==
  [kind |-> kind, bank |-> bank, return |-> return, status |-> status]

LEMMA DecodeIs ==
  ASSUME NEW ram, NEW kind, NEW s \in Int, NEW f, f = Frame(kind, s)
  PROVE  /\ kind = "jsr" => Decode(ram, f) =
              Content(kind, 0, Wrap(Word(ram[s], ram[s - 1]) + 1), {})
         /\ kind = "jsl" => Decode(ram, f) =
              Content(kind, ram[s], Wrap(Word(ram[s - 1], ram[s - 2]) + 1), {})
         /\ kind = "emulation" => Decode(ram, f) =
              Content(kind, 0, Word(ram[s], ram[s - 1]),
                      Marked({"e"}, ram[s - 2]))
         /\ kind = "native" => Decode(ram, f) =
              Content(kind, ram[s], Word(ram[s - 1], ram[s - 2]),
                      Marked({}, ram[s - 3]))
<1>1. f.kind = kind /\ f.sp = s /\ s - 0 = s
  BY DEF Frame
<1>2. CASE kind = "jsr"
  BY <1>1, <1>2 DEF Decode, Content, Marked
<1>3. CASE kind = "jsl"
  BY <1>1, <1>3 DEF Decode, Content, Marked
<1>4. CASE kind = "emulation"
  BY <1>1, <1>4 DEF Decode, Content, Marked
<1>5. CASE kind = "native"
  BY <1>1, <1>5 DEF Decode, Content, Marked
<1>. QED BY <1>2, <1>3, <1>4, <1>5

\* The stack between two offsets of the area.
LEMMA Between ==
  ASSUME NEW s \in StackArea, NEW t \in StackArea, NEW a \in Int, t <= a, a <= s
  PROVE  a \in StackArea
BY AreaIsInt, CpuFramesAssumption

LEMMA EmulationContext ==
  ASSUME NEW c \in Processors, Emulation(c), c.sp >= 3, NEW r \in Int,
         NEW d, d = PushContext(c, r)
  PROVE  /\ Place(c, d) /\ d.sp = c.sp - 3
         /\ \A a \in StackArea : a > c.sp => d.ram[a] = c.ram[a]
         /\ c.sp \in StackArea /\ d.sp \in StackArea =>
              Decode(d.ram, Frame("emulation", c.sp)) =
                Content("emulation", 0, Wrap(r), Shown(c.P))
<1> DEFINE w == Wrap(r)
           g == GetRegisterValue(c.P)
           e == Push16(c, w)
<1>1. c.sp \in Int /\ c.sp >= 2
  BY UInt16Bounds DEF Processors
<1>2. w \in UInt16 /\ g \in UInt8
  BY Wrapped, StatusByte
<1>3. d = Push8(e, g)
  BY DEF PushContext
<1>. HIDE DEF w, g, e
<1>4. /\ Place(c, e) /\ e.sp = c.sp - 2
      /\ \A a \in StackArea :
           e.ram[a] = IF a = c.sp THEN High(w)
                      ELSE IF a = c.sp - 1 THEN Low(w) ELSE c.ram[a]
  BY <1>1, <1>2, Pushed16 DEF e
<1>5. e \in Processors /\ e.sp >= 1
  BY <1>1, <1>4 DEF Place
<1>6. /\ Place(e, d) /\ d.sp = e.sp - 1
      /\ \A a \in StackArea : d.ram[a] = IF a = e.sp THEN g ELSE e.ram[a]
  BY <1>2, <1>3, <1>5, Pushed8
<1>7. Place(c, d) /\ d.sp = c.sp - 3
  BY <1>1, <1>4, <1>6 DEF Place
<1>8. \A a \in StackArea : a > c.sp => d.ram[a] = c.ram[a]
  BY <1>1, <1>4, <1>6, AreaIsInt
<1>9. ASSUME c.sp \in StackArea, d.sp \in StackArea
      PROVE  Decode(d.ram, Frame("emulation", c.sp)) =
               Content("emulation", 0, Wrap(r), Shown(c.P))
  <2>1. c.sp - 1 \in StackArea /\ c.sp - 2 \in StackArea
    BY <1>1, <1>7, <1>9, Between
  <2>2. d.ram[c.sp] = High(w) /\ d.ram[c.sp - 1] = Low(w) /\ d.ram[c.sp - 2] = g
    BY <1>1, <1>4, <1>6, <1>9, <2>1
  <2>3. Decode(d.ram, Frame("emulation", c.sp)) =
          Content("emulation", 0, Word(High(w), Low(w)),
                  Marked({"e"}, g))
    <3> DEFINE f == Frame("emulation", c.sp)
               m == d.ram
    <3>. HIDE DEF f, m
    <3>1. Decode(m, f) =
            Content("emulation", 0, Word(m[c.sp], m[c.sp - 1]),
                    Marked({"e"}, m[c.sp - 2]))
      BY <1>1, DecodeIs DEF f
    <3>. QED BY <2>2, <3>1 DEF f, m
  <2>4. Word(High(w), Low(w)) = w
    BY <1>2, BytesOfWord
  <2>5. Marked({"e"}, g) = Marked(c.P, g)
    BY DEF Marked, Carried, Emulation
  <2>6. Marked(c.P, g) = Shown(c.P)
    BY StatusByte DEF g
  <2>. QED BY <2>3, <2>4, <2>5, <2>6 DEF w
<1>. QED BY <1>7, <1>8, <1>9

LEMMA NativeContext ==
  ASSUME NEW c \in Processors, ~Emulation(c), c.sp >= 4, NEW r \in Int,
         NEW d, d = PushContext(c, r)
  PROVE  /\ Place(c, d) /\ d.sp = c.sp - 4
         /\ \A a \in StackArea : a > c.sp => d.ram[a] = c.ram[a]
         /\ c.sp \in StackArea /\ d.sp \in StackArea =>
              Decode(d.ram, Frame("native", c.sp)) =
                Content("native", c.pb, Wrap(r), Shown(c.P))
<1> DEFINE w == Wrap(r)
           g == GetRegisterValue(c.P)
           b == Push8(c, c.pb)
           e == Push16(b, w)
<1>1. c.sp \in Int /\ c.sp >= 1 /\ c.pb \in UInt8
  BY UInt16Bounds DEF Processors
<1>2. w \in UInt16 /\ g \in UInt8
  BY Wrapped, StatusByte
<1>3. d = Push8(e, g)
  BY DEF PushContext
<1>. HIDE DEF w, g, b, e
<1>4. /\ Place(c, b) /\ b.sp = c.sp - 1
      /\ \A a \in StackArea : b.ram[a] = IF a = c.sp THEN c.pb ELSE c.ram[a]
  BY <1>1, Pushed8 DEF b
<1>5. b \in Processors /\ b.sp >= 2
  BY <1>1, <1>4 DEF Place
<1>6. /\ Place(b, e) /\ e.sp = b.sp - 2
      /\ \A a \in StackArea :
           e.ram[a] = IF a = b.sp THEN High(w)
                      ELSE IF a = b.sp - 1 THEN Low(w) ELSE b.ram[a]
  BY <1>2, <1>5, Pushed16 DEF e
<1>7. e \in Processors /\ e.sp >= 1
  BY <1>1, <1>4, <1>6 DEF Place
<1>8. /\ Place(e, d) /\ d.sp = e.sp - 1
      /\ \A a \in StackArea : d.ram[a] = IF a = e.sp THEN g ELSE e.ram[a]
  BY <1>2, <1>3, <1>7, Pushed8
<1>9. Place(c, d) /\ d.sp = c.sp - 4
  BY <1>1, <1>4, <1>6, <1>8 DEF Place
<1>10. \A a \in StackArea : a > c.sp => d.ram[a] = c.ram[a]
  BY <1>1, <1>4, <1>6, <1>8, AreaIsInt
<1>11. ASSUME c.sp \in StackArea, d.sp \in StackArea
       PROVE  Decode(d.ram, Frame("native", c.sp)) =
                Content("native", c.pb, Wrap(r), Shown(c.P))
  <2>1. /\ c.sp - 1 \in StackArea /\ c.sp - 2 \in StackArea
        /\ c.sp - 3 \in StackArea
    BY <1>1, <1>9, <1>11, Between
  <2>2. /\ d.ram[c.sp] = c.pb /\ d.ram[c.sp - 1] = High(w)
        /\ d.ram[c.sp - 2] = Low(w) /\ d.ram[c.sp - 3] = g
    BY <1>1, <1>4, <1>6, <1>8, <1>11, <2>1
  <2>3. Decode(d.ram, Frame("native", c.sp)) =
          Content("native", c.pb, Word(High(w), Low(w)),
                  Marked({}, g))
    <3> DEFINE f == Frame("native", c.sp)
               m == d.ram
    <3>. HIDE DEF f, m
    <3>1. Decode(m, f) =
            Content("native", m[c.sp], Word(m[c.sp - 1], m[c.sp - 2]),
                    Marked({}, m[c.sp - 3]))
      BY <1>1, DecodeIs DEF f
    <3>. QED BY <2>2, <3>1 DEF f, m
  <2>4. Word(High(w), Low(w)) = w
    BY <1>2, BytesOfWord
  <2>5. Marked({}, g) = Marked(c.P, g)
    BY DEF Marked, Carried, Emulation
  <2>6. Marked(c.P, g) = Shown(c.P)
    BY StatusByte DEF g
  <2>. QED BY <2>3, <2>4, <2>5, <2>6 DEF w
<1>. QED BY <1>9, <1>10, <1>11

LEMMA ContextPushed ==
  ASSUME NEW c \in Processors, c.sp >= 4, NEW r \in Int,
         NEW d, d = PushContext(c, r)
  PROVE  /\ Place(c, d) /\ d.sp = c.sp - Size[Mode(c)] /\ Mode(c) \in Kinds
         /\ \A a \in StackArea : a > c.sp => d.ram[a] = c.ram[a]
         /\ c.sp \in StackArea /\ d.sp \in StackArea =>
              Decode(d.ram, Frame(Mode(c), c.sp)) =
                Content(Mode(c), IF Mode(c) = "native" THEN c.pb ELSE 0,
                        Wrap(r), Shown(c.P))
<1>1. CASE Emulation(c)
  <2>1. c.sp >= 3
    BY UInt16Bounds DEF Processors
  <2>2. Mode(c) = "emulation"
    BY <1>1 DEF Mode
  <2>3. /\ Place(c, d) /\ d.sp = c.sp - 3
        /\ \A a \in StackArea : a > c.sp => d.ram[a] = c.ram[a]
        /\ c.sp \in StackArea /\ d.sp \in StackArea =>
             Decode(d.ram, Frame("emulation", c.sp)) =
               Content("emulation", 0, Wrap(r), Shown(c.P))
    BY <1>1, <2>1, EmulationContext
  <2>4. (IF Mode(c) = "native" THEN c.pb ELSE 0) = 0
    BY <2>2
  <2>5. Mode(c) \in Kinds /\ Size[Mode(c)] = 3
    BY <2>2, Sizes DEF Kinds
  <2>. QED BY <2>2, <2>3, <2>4, <2>5
<1>2. CASE ~Emulation(c)
  <2>2. Mode(c) = "native"
    BY <1>2 DEF Mode
  <2>3. /\ Place(c, d) /\ d.sp = c.sp - 4
        /\ \A a \in StackArea : a > c.sp => d.ram[a] = c.ram[a]
        /\ c.sp \in StackArea /\ d.sp \in StackArea =>
             Decode(d.ram, Frame("native", c.sp)) =
               Content("native", c.pb, Wrap(r), Shown(c.P))
    BY <1>2, NativeContext
  <2>4. (IF Mode(c) = "native" THEN c.pb ELSE 0) = c.pb
    BY <2>2
  <2>5. Mode(c) \in Kinds /\ Size[Mode(c)] = 4
    BY <2>2, Sizes DEF Kinds
  <2>. QED BY <2>2, <2>3, <2>4, <2>5
<1>. QED BY <1>1, <1>2

-----------------------------------------------------------------------------
(* The processor and its frames.                                           *)

Sound(c, fs) == c \in Processors /\ c.sp \in StackArea /\ Stacked(fs, c.sp)

\* What lies above both stack pointers stays.
Above(c, d) ==
  \A a \in StackArea : a > c.sp /\ a > d.sp => d.ram[a] = c.ram[a]

LEMMA Kept ==
  ASSUME NEW c, NEW fs, Sound(c, fs),
         NEW d \in Processors, d.sp \in StackArea, Stacked(fs, d.sp),
         Above(c, d)
  PROVE  Sound(d, fs) /\ DecodeAll(d.ram, fs) = DecodeAll(c.ram, fs)
<1> DEFINE s == IF c.sp <= d.sp THEN d.sp ELSE c.sp
           m == d.ram
           n == c.ram
<1>1. s \in StackArea /\ Stacked(fs, s)
  BY DEF Sound
<1>2. \A a \in StackArea : a > s => m[a] = n[a]
  BY AreaIsInt DEF Above, Sound
<1>. HIDE DEF s, m, n
<1>3. DecodeAll(m, fs) = DecodeAll(n, fs)
  BY <1>1, <1>2, DecodeAllKept
<1>. QED BY <1>3 DEF m, n, Sound

LEMMA Called ==
  ASSUME NEW c, NEW fs, Sound(c, fs), NEW k \in Kinds,
         NEW d \in Processors, d.sp \in StackArea, d.sp = c.sp - Size[k],
         \A a \in StackArea : a > c.sp => d.ram[a] = c.ram[a]
  PROVE  /\ Sound(d, Append(fs, Frame(k, c.sp)))
         /\ DecodeAll(d.ram, Append(fs, Frame(k, c.sp))) =
              Append(DecodeAll(c.ram, fs), Decode(d.ram, Frame(k, c.sp)))
<1> DEFINE f == Frame(k, c.sp)
           m == d.ram
           n == c.ram
           s == c.sp
<1>1. /\ s \in StackArea /\ Stacked(fs, s)
      /\ f \in FrameSet /\ fs \in Seq(FrameSet)
  BY DEF Sound, Stacked, Frame, FrameSet
<1>2. \A a \in StackArea : a > s => m[a] = n[a]
  OBVIOUS
<1>. HIDE DEF f, m, n, s
<1>3. DecodeAll(m, fs) = DecodeAll(n, fs)
  BY <1>1, <1>2, DecodeAllKept
<1>4. DecodeAll(m, Append(fs, f)) = Append(DecodeAll(m, fs), Decode(m, f))
  BY <1>1, DecodedAppend
<1>5. Stacked(Append(fs, f), s - Size[k])
  BY <1>1, StackedAppend DEF f, s
<1>. QED BY <1>3, <1>4, <1>5 DEF f, m, n, s, Sound

LEMMA FloorIs ==
  ASSUME NEW fs, fs # <<>>
  PROVE  Floor(fs) = Room(Last(fs))
BY DEF Floor, Room

LEMMA Returned ==
  ASSUME NEW c \in Processors, NEW fs, fs \in Seq(FrameSet), fs # <<>>,
         Stacked(fs, c.sp),
         NEW d \in Processors, d.sp = Last(fs).sp, d.ram = c.ram
  PROVE  /\ Sound(d, Front(fs))
         /\ DecodeAll(d.ram, Front(fs)) = Front(DecodeAll(c.ram, fs))
         /\ DecodeAll(c.ram, fs) # <<>>
         /\ Last(DecodeAll(c.ram, fs)) = Decode(c.ram, Last(fs))
<1>1. c.sp \in Int
  BY UInt16Bounds DEF Processors
<1>2. Stacked(Front(fs), Last(fs).sp) /\ Last(fs) \in FrameSet
  BY <1>1, StackedFront
<1>3. Last(fs).sp \in StackArea
  BY <1>2 DEF FrameSet
<1>4. Sound(d, Front(fs))
  BY <1>2, <1>3 DEF Sound
<1>. QED BY <1>4, DecodedFront

LEMMA Lived ==
  ASSUME NEW c, NEW fs, Sound(c, fs), NEW d, d = Live(c)
  PROVE  /\ Sound(d, fs) /\ DecodeAll(d.ram, fs) = DecodeAll(c.ram, fs)
         /\ Place(c, d) /\ d.sp = c.sp
<1> DEFINE r == [a \in StackArea |-> IF a > c.sp THEN c.ram[a] ELSE 0]
<1>1. c \in Processors /\ c.sp \in StackArea /\ Stacked(fs, c.sp)
  BY DEF Sound
<1>2. d = [c EXCEPT !.ram = r]
  BY DEF Live
<1>3. r \in [StackArea -> UInt8]
  BY <1>1, UInt8Bounds DEF Processors
<1>4. \A a \in StackArea : a > c.sp => r[a] = c.ram[a]
  OBVIOUS
<1>. HIDE DEF r
<1>5. /\ d \in Processors /\ d.P = c.P /\ d.pb = c.pb /\ d.pc = c.pc
      /\ d.sp = c.sp /\ d.ram = r
  BY <1>1, <1>2, <1>3 DEF Processors
<1>6. Above(c, d)
  BY <1>4, <1>5 DEF Above
<1>7. Place(c, d)
  BY <1>5 DEF Place
<1>. QED BY <1>1, <1>5, <1>6, <1>7, Kept

-----------------------------------------------------------------------------
(* The instructions.                                                       *)

\* They leave the stack alone,
Quiet(c, d) == d \in Processors /\ d.sp = c.sp /\ d.ram = c.ram

\* or push n bytes, and stay in the mode.
Pushes(c, d, n) ==
  /\ d \in Processors /\ d.sp = c.sp - n /\ Mode(d) = Mode(c)
  /\ \A a \in StackArea : a > c.sp => d.ram[a] = c.ram[a]

LEMMA Typed ==
  ASSUME NEW c \in Processors
  PROVE  /\ c.P \in SUBSET Flags /\ c.pc \in Int /\ c.sp \in Int
         /\ c.pc \in UInt16 /\ c.sp \in UInt16 /\ c.pb \in UInt8
         /\ c.sp <= 65535 /\ c.ram \in [StackArea -> UInt8]
BY UInt16Bounds DEF Processors

LEMMA Advances ==
  ASSUME NEW c \in Processors, NEW n \in Int, NEW d, d = Advance(c, n)
  PROVE  /\ Quiet(c, d) /\ d.P = c.P /\ d.pb = c.pb
<1>1. Wrap(c.pc + n) \in UInt16
  BY Typed, Wrapped
<1>. QED BY <1>1 DEF Quiet, Advance, Processors

LEMMA QuietTransitive ==
  ASSUME NEW c, NEW d, NEW e, Quiet(c, d), Quiet(d, e)
  PROVE  Quiet(c, e)
BY DEF Quiet

LEMMA FlagsQuiet ==
  ASSUME NEW c \in Processors, NEW f \in Flags
  PROVE  Quiet(c, SetFlag(c, f)) /\ Quiet(c, ClearFlag(c, f))
<1>1. ASSUME NEW R \in SUBSET Flags
      PROVE  Quiet(c, Advance([c EXCEPT !.P = R], 1))
  <2>1. Quiet(c, [c EXCEPT !.P = R])
    BY DEF Quiet, Processors
  <2>2. [c EXCEPT !.P = R] \in Processors
    BY <2>1 DEF Quiet
  <2>3. Quiet([c EXCEPT !.P = R], Advance([c EXCEPT !.P = R], 1))
    BY <2>2, Advances
  <2>. QED BY <2>1, <2>3, QuietTransitive
<1>2. c.P \cup {f} \in SUBSET Flags /\ c.P \ {f} \in SUBSET Flags
  BY Typed
<1>. QED BY <1>1, <1>2 DEF SetFlag, ClearFlag

LEMMA JumpQuiet ==
  ASSUME NEW c \in Processors, NEW bank \in UInt8, NEW to \in UInt16
  PROVE  Quiet(c, JMP(c, bank, to))
BY DEF Quiet, JMP, Processors

LEMMA IdleQuiet ==
  ASSUME NEW c \in Processors
  PROVE  Quiet(c, NOP(c)) /\ Quiet(c, WDM(c)) /\ Quiet(c, WAI(c))
<1>1. Quiet(c, NOP(c)) /\ Quiet(c, WDM(c))
  BY Advances DEF NOP, WDM
<1>. QED BY <1>1 DEF WAI, Quiet

LEMMA SwitchQuiet ==
  ASSUME NEW c \in Processors, XCE(c).sp = c.sp
  PROVE  Quiet(c, XCE(c))
<1> DEFINE P == (c.P \ {"c", "e"}) \cup (IF "c" \in c.P THEN {"e"} ELSE {})
                                  \cup (IF Emulation(c) THEN {"c"} ELSE {})
           t == SetEmulation(c.sp)
           b == [c EXCEPT !.P = P \cup {"m", "x"}, !.X = Low(@), !.Y = Low(@),
                          !.sp = t]
           n == [c EXCEPT !.P = P]
<1>1. P \in SUBSET Flags /\ P \cup {"m", "x"} \in SUBSET Flags
  BY Typed DEF Flags
<1>2. Low(c.X) \in UInt16 /\ Low(c.Y) \in UInt16
  BY UInt8Bounds, UInt16Bounds DEF Processors, Low
<1>3. t \in UInt16
  <2>1. Low(c.sp) \in UInt8 /\ 1 \in UInt8
    BY Typed, BytesOfWord, UInt8Bounds
  <2>. QED BY <2>1, WordType DEF SetEmulation
<1>4. XCE(c) = Advance(IF "e" \in P THEN b ELSE n, 1)
  BY DEF XCE
<1>. HIDE DEF P, t
<1>5. n \in Processors /\ n.sp = c.sp /\ n.ram = c.ram
  BY <1>1 DEF Processors
<1>6. b \in Processors /\ b.sp = t /\ b.ram = c.ram
  BY <1>1, <1>2, <1>3 DEF Processors
<1>. HIDE DEF b, n
<1>7. CASE "e" \in P
  <2>1. XCE(c) = Advance(b, 1)
    BY <1>4, <1>7
  <2>2. Quiet(b, XCE(c))
    BY <1>6, <2>1, Advances
  <2>. QED BY <1>6, <2>2 DEF Quiet
<1>8. CASE "e" \notin P
  <2>1. XCE(c) = Advance(n, 1)
    BY <1>4, <1>8
  <2>2. Quiet(n, XCE(c))
    BY <1>5, <2>1, Advances
  <2>. QED BY <1>5, <2>2 DEF Quiet
<1>. QED BY <1>7, <1>8

LEMMA BytePushes ==
  ASSUME NEW c \in Processors, c.sp >= 4
  PROVE  Pushes(c, PHK(c), 1) /\ Pushes(c, PHP(c), 1)
<1>1. ASSUME NEW v \in UInt8
      PROVE  Pushes(c, Advance(Push8(c, v), 1), 1)
  <2> DEFINE e == Push8(c, v)
             d == Advance(e, 1)
  <2>1. c.sp \in Int /\ c.sp >= 1
    BY Typed
  <2>. HIDE DEF e
  <2>2. /\ Place(c, e) /\ e.sp = c.sp - 1
        /\ \A a \in StackArea : e.ram[a] = IF a = c.sp THEN v ELSE c.ram[a]
    BY <2>1, Pushed8 DEF e
  <2>3. e \in Processors /\ e.P = c.P
    BY <2>2 DEF Place
  <2>. HIDE DEF d
  <2>4. Quiet(e, d) /\ d.P = e.P
    BY <2>3, Advances DEF d
  <2>5. d \in Processors /\ d.sp = c.sp - 1 /\ d.ram = e.ram /\ d.P = c.P
    BY <2>2, <2>3, <2>4 DEF Quiet
  <2>6. \A a \in StackArea : a > c.sp => d.ram[a] = c.ram[a]
    BY <2>1, <2>2, <2>5, AreaIsInt
  <2>7. Mode(d) = Mode(c)
    BY <2>5 DEF Mode, Emulation
  <2>8. Pushes(c, d, 1)
    BY <2>5, <2>6, <2>7 DEF Pushes
  <2>. QED BY <2>8 DEF d, e
<1>2. c.pb \in UInt8 /\ GetRegisterValue(c.P) \in UInt8
  BY Typed, StatusByte
<1>. QED BY <1>1, <1>2 DEF PHK, PHP

\* A call is a push that leaves a frame of the kind k, which says in content
\* where the program goes on.
Calling(c, d, k, content) ==
  /\ Pushes(c, d, Size[k]) /\ k \in Kinds
  /\ c.sp \in StackArea /\ d.sp \in StackArea =>
       Decode(d.ram, Frame(k, c.sp)) = content

LEMMA WrapNext == ASSUME NEW v \in Int PROVE Wrap(Wrap(v) + 1) = Wrap(v + 1)
BY DEF Wrap

LEMMA NearCall ==
  ASSUME NEW c \in Processors, c.sp >= 4, NEW to \in UInt16,
         NEW d, d = JSR(c, to)
  PROVE  /\ Calling(c, d, "jsr", Content("jsr", 0, Wrap(c.pc + 3), {}))
         /\ d.P = c.P /\ d.pb = c.pb
<1> DEFINE w == Wrap(c.pc + 2)
           e == Push16(c, w)
<1>1. c.sp \in Int /\ c.sp >= 2 /\ c.pc \in Int /\ c.pb \in UInt8
  BY Typed
<1>2. w \in UInt16 /\ Wrap(w + 1) = Wrap(c.pc + 3)
  <2>1. c.pc + 2 \in Int /\ (c.pc + 2) + 1 = c.pc + 3
    BY <1>1
  <2>. QED BY <2>1, Wrapped, WrapNext
<1>3. d = [e EXCEPT !.pc = to]
  BY DEF JSR
<1>. HIDE DEF w, e
<1>4. /\ Place(c, e) /\ e.sp = c.sp - 2
      /\ \A a \in StackArea :
           e.ram[a] = IF a = c.sp THEN High(w)
                      ELSE IF a = c.sp - 1 THEN Low(w) ELSE c.ram[a]
  BY <1>1, <1>2, Pushed16 DEF e
<1>5. e \in Processors /\ e.P = c.P /\ e.pb = c.pb
  BY <1>4 DEF Place
<1>6. /\ d \in Processors /\ d.sp = e.sp /\ d.ram = e.ram /\ d.P = e.P
      /\ d.pb = e.pb
  BY <1>3, <1>5 DEF Processors
<1>7. \A a \in StackArea : a > c.sp => d.ram[a] = c.ram[a]
  BY <1>1, <1>4, <1>6, AreaIsInt
<1>8. Pushes(c, d, Size["jsr"])
  <2>1. Mode(d) = Mode(c)
    BY <1>5, <1>6 DEF Mode, Emulation
  <2>2. d.sp = c.sp - Size["jsr"]
    BY <1>1, <1>4, <1>6, Sizes
  <2>. QED BY <1>6, <1>7, <2>1, <2>2 DEF Pushes
<1>9. ASSUME c.sp \in StackArea, d.sp \in StackArea
      PROVE  Decode(d.ram, Frame("jsr", c.sp)) =
               Content("jsr", 0, Wrap(c.pc + 3), {})
  <2>1. c.sp - 1 \in StackArea
    BY <1>1, <1>4, <1>6, <1>9, Between
  <2>2. d.ram[c.sp] = High(w) /\ d.ram[c.sp - 1] = Low(w)
    BY <1>1, <1>4, <1>6, <1>9, <2>1
  <2>3. Word(d.ram[c.sp], d.ram[c.sp - 1]) = w
    BY <1>2, <2>2, BytesOfWord
  <2>4. Decode(d.ram, Frame("jsr", c.sp)) =
          Content("jsr", 0, Wrap(Word(d.ram[c.sp], d.ram[c.sp - 1]) + 1), {})
    BY <1>1, DecodeIs
  <2>. QED BY <1>2, <2>3, <2>4
<1>. QED BY <1>5, <1>6, <1>8, <1>9 DEF Calling, Kinds

LEMMA FarCall ==
  ASSUME NEW c \in Processors, c.sp >= 4, NEW to \in UInt16,
         NEW bank \in UInt8, NEW d, d = JSL(c, bank, to)
  PROVE  /\ Calling(c, d, "jsl", Content("jsl", c.pb, Wrap(c.pc + 4), {}))
         /\ d.P = c.P
<1> DEFINE w == Wrap(c.pc + 3)
           b == Push8(c, c.pb)
           e == Push16(b, w)
<1>1. c.sp \in Int /\ c.sp >= 1 /\ c.pc \in Int /\ c.pb \in UInt8
  BY Typed
<1>2. w \in UInt16 /\ Wrap(w + 1) = Wrap(c.pc + 4)
  <2>1. c.pc + 3 \in Int /\ (c.pc + 3) + 1 = c.pc + 4
    BY <1>1
  <2>. QED BY <2>1, Wrapped, WrapNext
<1>3. d = [e EXCEPT !.pb = bank, !.pc = to]
  BY DEF JSL
<1>. HIDE DEF w, b, e
<1>4. /\ Place(c, b) /\ b.sp = c.sp - 1
      /\ \A a \in StackArea : b.ram[a] = IF a = c.sp THEN c.pb ELSE c.ram[a]
  BY <1>1, Pushed8 DEF b
<1>5. b \in Processors /\ b.sp >= 2
  BY <1>1, <1>4 DEF Place
<1>6. /\ Place(b, e) /\ e.sp = b.sp - 2
      /\ \A a \in StackArea :
           e.ram[a] = IF a = b.sp THEN High(w)
                      ELSE IF a = b.sp - 1 THEN Low(w) ELSE b.ram[a]
  BY <1>2, <1>5, Pushed16 DEF e
<1>7. e \in Processors /\ e.P = c.P
  BY <1>4, <1>6 DEF Place
<1>8. /\ d \in Processors /\ d.sp = e.sp /\ d.ram = e.ram /\ d.P = c.P
      /\ Mode(d) = Mode(c)
  <2>1. d \in Processors /\ d.sp = e.sp /\ d.ram = e.ram /\ d.P = e.P
    BY <1>3, <1>7 DEF Processors
  <2>. QED BY <1>7, <2>1 DEF Mode, Emulation
<1>9. \A a \in StackArea : a > c.sp => d.ram[a] = c.ram[a]
  BY <1>1, <1>4, <1>6, <1>8, AreaIsInt
<1>10. Pushes(c, d, Size["jsl"])
  BY <1>1, <1>4, <1>6, <1>8, <1>9, Sizes DEF Pushes
<1>11. ASSUME c.sp \in StackArea, d.sp \in StackArea
       PROVE  Decode(d.ram, Frame("jsl", c.sp)) =
                Content("jsl", c.pb, Wrap(c.pc + 4), {})
  <2>1. c.sp - 1 \in StackArea /\ c.sp - 2 \in StackArea
    BY <1>1, <1>4, <1>6, <1>8, <1>11, Between
  <2>2. /\ d.ram[c.sp] = c.pb /\ d.ram[c.sp - 1] = High(w)
        /\ d.ram[c.sp - 2] = Low(w)
    BY <1>1, <1>4, <1>6, <1>8, <1>11, <2>1
  <2>3. Word(d.ram[c.sp - 1], d.ram[c.sp - 2]) = w
    BY <1>2, <2>2, BytesOfWord
  <2>4. Decode(d.ram, Frame("jsl", c.sp)) =
          Content("jsl", d.ram[c.sp],
                  Wrap(Word(d.ram[c.sp - 1], d.ram[c.sp - 2]) + 1), {})
    BY <1>1, DecodeIs
  <2>. QED BY <1>2, <2>2, <2>3, <2>4
<1>. QED BY <1>8, <1>10, <1>11 DEF Calling, Kinds

\* The entry of a handler, after the context is pushed.
Masked(P)       == (P \cup {"i"}) \ {"d"}
Target(c, v, w) == Vector[IF Emulation(c) THEN v ELSE w]

LEMMA HandlerEntered ==
  ASSUME NEW e \in Processors, NEW v \in DOMAIN Vector, NEW w \in DOMAIN Vector,
         NEW d, d = EnterHandler(e, v, w)
  PROVE  /\ d \in Processors /\ d.sp = e.sp /\ d.ram = e.ram
         /\ d.P = Masked(e.P) /\ d.pb = 0 /\ Mode(d) = Mode(e)
         /\ d.pc = Target(e, v, w)
<1> DEFINE to == Target(e, v, w)
           R  == Masked(e.P)
<1>1. to \in UInt16
  BY CpuAssumption DEF Target
<1>2. R \in SUBSET Flags /\ ("e" \in R <=> "e" \in e.P)
  BY Typed DEF Flags, Masked
<1>3. 0 \in UInt8
  BY UInt8Bounds
<1>4. d = [e EXCEPT !.P = R, !.pb = 0, !.pc = to]
  BY DEF EnterHandler, Target, Masked
<1>. HIDE DEF to, R
<1>5. /\ d \in Processors /\ d.sp = e.sp /\ d.ram = e.ram
      /\ d.P = R /\ d.pb = 0 /\ d.pc = to
  BY <1>1, <1>2, <1>3, <1>4 DEF Processors
<1>6. Mode(d) = Mode(e)
  BY <1>2, <1>5 DEF Mode, Emulation
<1>. QED BY <1>5, <1>6 DEF to, R

\* What BRK, COP and IRQ push.
Context(c, r, status) ==
  Content(Mode(c), IF Mode(c) = "native" THEN c.pb ELSE 0, Wrap(r), status)

LEMMA ContextCall ==
  ASSUME NEW c \in Processors, c.sp >= 4, NEW r \in Int,
         NEW v \in DOMAIN Vector, NEW w \in DOMAIN Vector,
         NEW d, d = EnterHandler(PushContext(c, r), v, w)
  PROVE  /\ Calling(c, d, Mode(c), Context(c, r, Shown(c.P)))
         /\ d.P = Masked(c.P) /\ d.pb = 0
         /\ d.pc = Target(c, v, w)
<1> DEFINE e == PushContext(c, r)
           content == Context(c, r, Shown(c.P))
<1>. HIDE DEF e, content
<1>1. /\ Place(c, e) /\ e.sp = c.sp - Size[Mode(c)] /\ Mode(c) \in Kinds
      /\ \A a \in StackArea : a > c.sp => e.ram[a] = c.ram[a]
      /\ c.sp \in StackArea /\ e.sp \in StackArea =>
           Decode(e.ram, Frame(Mode(c), c.sp)) = content
  BY ContextPushed DEF e, content, Context
<1>2. e \in Processors /\ e.P = c.P
  BY <1>1 DEF Place
<1>3. /\ d \in Processors /\ d.sp = e.sp /\ d.ram = e.ram
      /\ d.P = Masked(e.P) /\ d.pb = 0 /\ Mode(d) = Mode(e)
      /\ d.pc = Target(e, v, w)
  <2>1. d = EnterHandler(e, v, w)
    BY DEF e
  <2>. QED BY <1>2, <2>1, HandlerEntered
<1>4. Mode(e) = Mode(c) /\ Target(e, v, w) = Target(c, v, w)
  BY <1>2 DEF Mode, Target, Emulation
<1>5. Calling(c, d, Mode(c), content)
  BY <1>1, <1>3, <1>4 DEF Calling, Pushes
<1>. QED BY <1>2, <1>3, <1>4, <1>5 DEF content

LEMMA MaskedShown ==
  ASSUME NEW P
  PROVE  Shown(Masked(P)) = (Shown(P) \cup {"i"}) \ {"d"}
<1>1. Carried(Masked(P)) = Carried(P)
  BY DEF Carried, Masked
<1>. QED BY <1>1, CarriedFlags DEF Shown, Masked

LEMMA SoftwareCall ==
  ASSUME NEW c \in Processors, c.sp >= 4, NEW d, d = BRK(c) \/ d = COP(c)
  PROVE  /\ \E saved \in {Shown(c.P), Shown(c.P) \cup {"b"}} :
              Calling(c, d, Mode(c), Context(c, c.pc + 2, saved))
         /\ d.pb = 0
         /\ \/ Shown(d.P) = (Shown(c.P) \cup {"i"}) \ {"d"}
            \/ Shown(d.P) = (Shown(c.P) \cup {"i", "b"}) \ {"d"}
<1> DEFINE r == c.pc + 2
<1>1. /\ r \in Int /\ {"EIRQ", "NBRK", "ECOP", "NCOP"} \subseteq DOMAIN Vector
      /\ c.P \in SUBSET Flags
  BY Typed, CpuAssumption
<1>. HIDE DEF r
<1>2. ASSUME NEW m \in Processors, m.sp >= 4,
             NEW v \in DOMAIN Vector, NEW w \in DOMAIN Vector,
             d = EnterHandler(PushContext(m, r), v, w)
      PROVE  /\ Calling(m, d, Mode(m), Context(m, r, Shown(m.P)))
             /\ d.pb = 0 /\ Shown(d.P) = (Shown(m.P) \cup {"i"}) \ {"d"}
  <2>1. /\ Calling(m, d, Mode(m), Context(m, r, Shown(m.P)))
        /\ d.pb = 0 /\ d.P = Masked(m.P)
    BY <1>1, <1>2, ContextCall
  <2>. QED BY <2>1, MaskedShown
<1>3. CASE d = COP(c)
  <2>1. d = EnterHandler(PushContext(c, r), "ECOP", "NCOP")
    BY <1>3 DEF COP, r
  <2>. QED BY <1>1, <1>2, <2>1 DEF r
<1>4. CASE d = BRK(c) /\ ~Emulation(c)
  <2>1. d = EnterHandler(PushContext(c, r), "EIRQ", "NBRK")
    BY <1>4 DEF BRK, r
  <2>. QED BY <1>1, <1>2, <2>1 DEF r
<1>5. CASE d = BRK(c) /\ Emulation(c)
  <2> DEFINE m == [c EXCEPT !.P = @ \cup {"b"}]
  <2>1. d = EnterHandler(PushContext(m, r), "EIRQ", "NBRK")
    BY <1>5 DEF BRK, r
  <2>2. /\ m \in Processors /\ m.sp = c.sp /\ m.pb = c.pb /\ m.ram = c.ram
        /\ m.P = c.P \cup {"b"}
    BY <1>1 DEF Processors, Flags
  <2>8. m.sp >= 4
    BY <2>2
  <2>3. Mode(m) = Mode(c) /\ Carried(m.P) = Carried(c.P) /\ "b" \in Carried(c.P)
    BY <1>5, <2>2 DEF Mode, Emulation, Carried
  <2>4. Shown(m.P) = Shown(c.P) \cup {"b"}
    BY <2>2, <2>3 DEF Shown
  <2>. HIDE DEF m
  <2>5. /\ Calling(m, d, Mode(m), Context(m, r, Shown(m.P)))
        /\ d.pb = 0 /\ Shown(d.P) = (Shown(m.P) \cup {"i"}) \ {"d"}
    BY <1>1, <1>2, <2>1, <2>2, <2>8
  <2>6. Calling(c, d, Mode(c), Context(c, r, Shown(c.P) \cup {"b"}))
    BY <2>2, <2>3, <2>4, <2>5 DEF Calling, Pushes, Context
  <2>7. Shown(d.P) = (Shown(c.P) \cup {"i", "b"}) \ {"d"}
    BY <2>4, <2>5
  <2>. QED BY <2>5, <2>6, <2>7 DEF r
<1>. QED BY <1>3, <1>4, <1>5

\* A return takes the frame at s off the stack,
Returning(c, d, s) ==
  /\ d \in Processors /\ d.sp = s /\ d.ram = c.ram /\ Mode(d) = Mode(c)

\* and goes on where f, which is of the kind k, says.
Resuming(c, d, k, f) ==
  /\ d.pc = f.return
  /\ d.pb = IF k \in {"jsl", "native"} THEN f.bank ELSE c.pb
  /\ k \in {"emulation", "native"} => Shown(d.P) = f.status

LEMMA Peeks ==
  ASSUME NEW c \in Processors, NEW n \in Int
  PROVE  /\ Peek(c, n) \in UInt8 /\ Peek16(c, n) \in UInt16
         /\ c.sp + n \in StackArea => Peek(c, n) = c.ram[c.sp + n]
<1>1. ASSUME NEW m \in Int PROVE Peek(c, m) \in UInt8
  BY Typed, UInt8Bounds DEF Peek
<1>2. Peek(c, n) \in UInt8 /\ Peek(c, n + 1) \in UInt8
  BY <1>1
<1>3. Peek16(c, n) \in UInt16
  BY <1>2, WordType DEF Peek16
<1>4. ASSUME c.sp + n \in StackArea
      PROVE  Peek(c, n) = c.ram[c.sp + n]
  <2>1. Wrap(c.sp + n) = c.sp + n
    BY <1>4, CpuFramesAssumption, Wrapped
  <2>2. DOMAIN c.ram = StackArea
    BY Typed
  <2>. QED BY <1>4, <2>1, <2>2 DEF Peek
<1>. QED BY <1>2, <1>3, <1>4

LEMMA NearReturn ==
  ASSUME NEW c \in Processors, NEW s \in StackArea, c.sp = s - 2,
         NEW d, d = RTS(c)
  PROVE  /\ Returning(c, d, s)
         /\ PULL_LOW_FIRST /\ c.sp \in StackArea =>
              Resuming(c, d, "jsr", Decode(c.ram, Frame("jsr", s)))
<1> DEFINE w == Peek16(c, 1)
           f == Decode(c.ram, Frame("jsr", s))
<1>1. /\ c.sp \in Int /\ s \in Int /\ s \in UInt16 /\ c.sp + 2 = s
  BY Typed, AreaIsInt, CpuFramesAssumption
<1>2. w \in UInt16 /\ w + 1 \in Int
  BY Peeks, UInt16Bounds
<1>3. Wrap(c.sp + 2) = s
  BY <1>1, Wrapped
<1>. HIDE DEF w, f
<1>4. Wrap(w + 1) \in UInt16
  BY <1>2, Wrapped
<1>5. d = [c EXCEPT !.sp = s, !.pc = Wrap(w + 1)]
  BY <1>3 DEF RTS, Drop, w
<1>6. /\ d \in Processors /\ d.sp = s /\ d.ram = c.ram /\ d.P = c.P
      /\ d.pb = c.pb /\ d.pc = Wrap(w + 1)
  BY <1>1, <1>4, <1>5 DEF Processors
<1>7. Returning(c, d, s)
  BY <1>6 DEF Returning, Mode, Emulation
<1>8. ASSUME PULL_LOW_FIRST, c.sp \in StackArea
      PROVE  Resuming(c, d, "jsr", f)
  <2>1. c.sp + 1 = s - 1 /\ c.sp + 2 = s /\ s - 1 \in Int
    BY <1>1
  <2>2. s - 1 \in StackArea
    BY <1>1, <1>8, <2>1, Between
  <2>3. Peek(c, 1) = c.ram[s - 1] /\ Peek(c, 2) = c.ram[s]
    BY <2>1, <2>2, Peeks
  <2>4. w = Word(c.ram[s], c.ram[s - 1])
    BY <1>8, <2>3 DEF w, Peek16
  <2>5. f = Content("jsr", 0, Wrap(w + 1), {})
    BY <1>1, <2>4, DecodeIs DEF f
  <2>. QED BY <1>6, <2>5 DEF Resuming, Content
<1>. QED BY <1>7, <1>8 DEF f

LEMMA FarReturn ==
  ASSUME NEW c \in Processors, NEW s \in StackArea, c.sp = s - 3,
         NEW d, d = RTL(c)
  PROVE  /\ Returning(c, d, s)
         /\ PULL_LOW_FIRST /\ c.sp \in StackArea =>
              Resuming(c, d, "jsl", Decode(c.ram, Frame("jsl", s)))
<1> DEFINE w == Peek16(c, 1)
           b == Peek(c, 3)
           f == Decode(c.ram, Frame("jsl", s))
<1>1. c.sp \in Int /\ s \in Int /\ s \in UInt16 /\ c.sp + 3 = s
  BY Typed, AreaIsInt, CpuFramesAssumption
<1>2. w \in UInt16 /\ w + 1 \in Int /\ b \in UInt8
  BY Peeks, UInt16Bounds
<1>3. Wrap(c.sp + 3) = s
  BY <1>1, Wrapped
<1>. HIDE DEF w, b, f
<1>4. Wrap(w + 1) \in UInt16
  BY <1>2, Wrapped
<1>5. d = [c EXCEPT !.sp = s, !.pc = Wrap(w + 1), !.pb = b]
  BY <1>3 DEF RTL, Drop, w, b
<1>6. /\ d \in Processors /\ d.sp = s /\ d.ram = c.ram /\ d.P = c.P
      /\ d.pb = b /\ d.pc = Wrap(w + 1)
  BY <1>1, <1>2, <1>4, <1>5 DEF Processors
<1>7. Returning(c, d, s)
  BY <1>6 DEF Returning, Mode, Emulation
<1>8. ASSUME PULL_LOW_FIRST, c.sp \in StackArea
      PROVE  Resuming(c, d, "jsl", f)
  <2>1. /\ c.sp + 1 = s - 2 /\ c.sp + 2 = s - 1 /\ s - 1 \in Int
        /\ s - 2 \in Int
    BY <1>1
  <2>2. s - 1 \in StackArea /\ s - 2 \in StackArea
    BY <1>1, <1>8, <2>1, Between
  <2>3. /\ Peek(c, 1) = c.ram[s - 2] /\ Peek(c, 2) = c.ram[s - 1]
        /\ b = c.ram[s]
    BY <1>1, <2>1, <2>2, Peeks DEF b
  <2>4. w = Word(c.ram[s - 1], c.ram[s - 2])
    BY <1>8, <2>3 DEF w, Peek16
  <2>5. f = Content("jsl", b, Wrap(w + 1), {})
    BY <1>1, <2>3, <2>4, DecodeIs DEF f
  <2>. QED BY <1>6, <2>5 DEF Resuming, Content
<1>. QED BY <1>7, <1>8 DEF f

LEMMA InterruptReturn ==
  ASSUME NEW c \in Processors, NEW s \in StackArea, c.sp = s - Size[Mode(c)],
         NEW d, d = RTI(c)
  PROVE  /\ Returning(c, d, s)
         /\ PULL_LOW_FIRST /\ c.sp \in StackArea =>
              Resuming(c, d, Mode(c), Decode(c.ram, Frame(Mode(c), s)))
<1> DEFINE w == Peek16(c, 2)
           g == Peek(c, 1)
           R == SetRegisterValue(c.P, g)
           f == Decode(c.ram, Frame(Mode(c), s))
<1>1. c.sp \in Int /\ s \in Int /\ s \in UInt16 /\ s <= 65535
  BY Typed, AreaIsInt, CpuFramesAssumption
<1>2. w \in UInt16 /\ g \in UInt8
  BY Peeks
<1>3. /\ R \in SUBSET Flags /\ ("e" \in R <=> "e" \in c.P)
      /\ Shown(R) = Marked(c.P, g)
  <2> DEFINE Q == c.P
  <2>1. Q \in SUBSET Flags
    BY Typed
  <2>. HIDE DEF Q, g
  <2>2. R = SetRegisterValue(Q, g)
    BY DEF Q
  <2>. HIDE DEF R
  <2>3. /\ R \in SUBSET Flags /\ ("e" \in R <=> "e" \in Q)
        /\ Shown(R) = Marked(Q, g)
    BY <2>1, <2>2, StatusSet
  <2>. QED BY <2>3 DEF Q
<1> DEFINE e == Drop(c, IF Emulation(c) THEN 3 ELSE 4)
<1>. HIDE DEF w, g, R, f
<1>6. /\ e \in Processors /\ e.sp = s /\ e.ram = c.ram /\ e.P = c.P
      /\ e.pb = c.pb
  <2> DEFINE n == IF Emulation(c) THEN 3 ELSE 4
  <2>1. c.sp + n = s
    BY <1>1, Sizes DEF Mode
  <2>. HIDE DEF n
  <2>2. Wrap(c.sp + n) = s
    BY <1>1, <2>1, Wrapped
  <2>3. e = [c EXCEPT !.sp = s]
    BY <2>2 DEF Drop, n
  <2>. QED BY <1>1, <2>3 DEF Processors
<1>7. d = [e EXCEPT !.P = R, !.pc = w,
                    !.pb = IF Emulation(c) THEN c.pb ELSE Peek(c, 4)]
  <2>1. d = [e EXCEPT !.P = SetRegisterValue(e.P, g), !.pc = w,
                      !.pb = IF Emulation(c) THEN e.pb ELSE Peek(c, 4)]
    BY DEF RTI, w, g
  <2>. HIDE DEF e
  <2>. QED BY <1>6, <2>1 DEF R
<1>. HIDE DEF e
<1>8. ASSUME NEW b \in UInt8, d = [e EXCEPT !.P = R, !.pc = w, !.pb = b]
      PROVE  /\ d \in Processors /\ d.sp = s /\ d.ram = c.ram /\ d.P = R
             /\ d.pb = b /\ d.pc = w
  BY <1>2, <1>3, <1>6, <1>8 DEF Processors
<1>4. CASE Emulation(c)
  <2>1. Mode(c) = "emulation" /\ c.sp + 3 = s /\ c.sp = s - 3
    BY <1>1, <1>4, Sizes DEF Mode
  <2>3. d = [e EXCEPT !.P = R, !.pc = w, !.pb = c.pb]
    BY <1>4, <1>6, <1>7
  <2>4. /\ d \in Processors /\ d.sp = s /\ d.ram = c.ram /\ d.P = R
        /\ d.pb = c.pb /\ d.pc = w
    <3> DEFINE b == c.pb
    <3>1. b \in UInt8
      BY Typed
    <3>. HIDE DEF b
    <3>2. d = [e EXCEPT !.P = R, !.pc = w, !.pb = b]
      BY <2>3 DEF b
    <3>. QED BY <1>8, <3>1, <3>2 DEF b
  <2>5. Returning(c, d, s)
    BY <1>3, <2>4 DEF Returning, Mode, Emulation
  <2>6. ASSUME PULL_LOW_FIRST, c.sp \in StackArea
        PROVE  Resuming(c, d, Mode(c), f)
    <3>1. /\ c.sp + 1 = s - 2 /\ c.sp + 2 = s - 1 /\ s - 1 \in Int
          /\ s - 2 \in Int
      BY <1>1, <2>1
    <3>2. s - 1 \in StackArea /\ s - 2 \in StackArea
      BY <1>1, <2>6, <3>1, Between
    <3>3. /\ Peek(c, 2) = c.ram[s - 1] /\ Peek(c, 3) = c.ram[s]
          /\ g = c.ram[s - 2]
      BY <1>1, <2>1, <3>1, <3>2, Peeks DEF g
    <3>4. w = Word(c.ram[s], c.ram[s - 1])
      BY <2>6, <3>3 DEF w, Peek16
    <3>5. f = Content("emulation", 0, w, Marked({"e"}, g))
      BY <1>1, <2>1, <3>3, <3>4, DecodeIs DEF f
    <3>6. Marked({"e"}, g) = Marked(c.P, g)
      BY <1>4 DEF Marked, Carried, Emulation
    <3>. QED BY <1>3, <2>1, <2>4, <3>5, <3>6 DEF Resuming, Content
  <2>. QED BY <2>5, <2>6 DEF f
<1>5. CASE ~Emulation(c)
  <2> DEFINE b == Peek(c, 4)
  <2>1. Mode(c) = "native" /\ c.sp + 4 = s /\ c.sp = s - 4
    BY <1>1, <1>5, Sizes DEF Mode
  <2>7. b \in UInt8
    BY Peeks
  <2>. HIDE DEF b
  <2>3. d = [e EXCEPT !.P = R, !.pc = w, !.pb = b]
    BY <1>5, <1>7 DEF b
  <2>4. /\ d \in Processors /\ d.sp = s /\ d.ram = c.ram /\ d.P = R
        /\ d.pb = b /\ d.pc = w
    BY <1>8, <2>3, <2>7
  <2>5. Returning(c, d, s)
    BY <1>3, <2>4 DEF Returning, Mode, Emulation
  <2>6. ASSUME PULL_LOW_FIRST, c.sp \in StackArea
        PROVE  Resuming(c, d, Mode(c), f)
    <3>1. /\ c.sp + 1 = s - 3 /\ c.sp + 2 = s - 2 /\ c.sp + 3 = s - 1
          /\ s - 1 \in Int /\ s - 2 \in Int /\ s - 3 \in Int
      BY <1>1, <2>1
    <3>2. s - 1 \in StackArea /\ s - 2 \in StackArea /\ s - 3 \in StackArea
      BY <1>1, <2>6, <3>1, Between
    <3>3. /\ Peek(c, 2) = c.ram[s - 2] /\ Peek(c, 3) = c.ram[s - 1]
          /\ g = c.ram[s - 3] /\ b = c.ram[s]
      BY <1>1, <2>1, <3>1, <3>2, Peeks DEF g, b
    <3>4. w = Word(c.ram[s - 1], c.ram[s - 2])
      BY <2>6, <3>3 DEF w, Peek16
    <3>5. f = Content("native", b, w, Marked({}, g))
      BY <1>1, <2>1, <3>3, <3>4, DecodeIs DEF f
    <3>6. Marked({}, g) = Marked(c.P, g)
      BY <1>5 DEF Marked, Carried, Emulation
    <3>. QED BY <1>3, <2>1, <2>4, <3>5, <3>6 DEF Resuming, Content
  <2>. QED BY <2>5, <2>6 DEF f
<1>. QED BY <1>4, <1>5

-----------------------------------------------------------------------------
(* One instruction, from the processor now and the frames fs on which it   *)
(* is executed.                                                            *)

\* What is known then.  The stack pointer is in the area, or an interrupt has
\* just been entered.
Ready(now, fs) ==
  /\ now \in Processors /\ now.sp >= 4 /\ Stacked(fs, now.sp)
  /\ cpu.sp \in StackArea /\ now.sp <= cpu.sp /\ Mode(now) = Mode(cpu)
  /\ now.sp \in StackArea \/ (fs # <<>> /\ now.sp = Room(Last(fs)))

\* What it leaves, and the step of CallStack that it is.
Outcome(now, fs) ==
  /\ now.sp \in StackArea
  /\ Sound(cpu', frames')
  /\ PULL_LOW_FIRST =>
       Calls!Execute(now.pb, now.pc, Shown(now.P), DecodeAll(now.ram, fs))

LEMMA DoneIs ==
  ASSUME NEW next \in Processors, NEW gs, Do(next, gs)
  PROVE  /\ cpu' = Live(next) /\ frames' = gs /\ next.sp \in StackArea
<1>1. cpu' = Live(next) /\ frames' = gs /\ cpu'.sp \in StackArea
  BY DEF Do
<1>2. Live(next).sp = next.sp
  BY DEF Live, Processors
<1>. QED BY <1>1, <1>2

\* It leaves the frames alone.
LEMMA Runs ==
  ASSUME NEW now, NEW fs, Ready(now, fs), NEW next \in Processors, Do(next, fs),
         Above(now, next), Stacked(fs, next.sp), now.sp \in StackArea
  PROVE  Outcome(now, fs)
<1>1. cpu' = Live(next) /\ frames' = fs /\ next.sp \in StackArea
  BY DoneIs
<1>2. Sound(now, fs)
  BY DEF Ready, Sound
<1>3. Sound(next, fs) /\ DecodeAll(next.ram, fs) = DecodeAll(now.ram, fs)
  BY <1>1, <1>2, Kept
<1>4. /\ Sound(cpu', frames')
      /\ DecodeAll(cpu'.ram, frames') = DecodeAll(now.ram, fs)
  BY <1>1, <1>3, Lived
<1>5. Calls!Execute(now.pb, now.pc, Shown(now.P), DecodeAll(now.ram, fs))
  BY <1>4 DEF Calls!Execute, Calls!Run
<1>. QED BY <1>4, <1>5 DEF Outcome

LEMMA QuietRuns ==
  ASSUME NEW now, NEW fs, Ready(now, fs), NEW next, Do(next, fs),
         Quiet(now, next) \/ Pushes(now, next, 1)
  PROVE  Outcome(now, fs)
<1>1. /\ next \in Processors /\ next.sp <= now.sp /\ next.sp \in Int
      /\ now.sp \in Int /\ Above(now, next) /\ now \in Processors
  BY Typed DEF Ready, Quiet, Pushes, Above
<1>2. next.sp \in StackArea
  BY <1>1, DoneIs
<1>3. now.sp \in StackArea
  BY <1>1, <1>2, Between DEF Ready
<1>4. Stacked(fs, next.sp)
  BY <1>1, StackedLower DEF Ready
<1>. QED BY <1>1, <1>3, <1>4, Runs

\* It calls.
LEMMA CallsOn ==
  ASSUME NEW now, NEW fs, Ready(now, fs), NEW k, NEW next, NEW content,
         Call(k, now, next, fs), Calling(now, next, k, content)
  PROVE  /\ now.sp \in StackArea /\ Sound(cpu', frames')
         /\ DecodeAll(cpu'.ram, frames') =
              Append(DecodeAll(now.ram, fs), content)
         /\ Place(next, cpu') /\ Mode(cpu') = Mode(cpu)
<1> DEFINE gs == Append(fs, Frame(k, now.sp))
<1>1. /\ next \in Processors /\ next.sp = now.sp - Size[k] /\ k \in Kinds
      /\ Mode(next) = Mode(now)
      /\ \A a \in StackArea : a > now.sp => next.ram[a] = now.ram[a]
  BY DEF Calling, Pushes
<1>2. next.sp \in Int /\ now.sp \in Int /\ next.sp <= now.sp
  BY <1>1, Typed, Sizes DEF Ready, Kinds
<1>. HIDE DEF gs
<1>3. cpu' = Live(next) /\ frames' = gs /\ next.sp \in StackArea
  BY <1>1, DoneIs DEF Call, gs
<1>4. now.sp \in StackArea
  BY <1>2, <1>3, Between DEF Ready
<1>5. Sound(now, fs)
  BY <1>4 DEF Ready, Sound
<1>6. /\ Sound(next, gs)
      /\ DecodeAll(next.ram, gs) =
           Append(DecodeAll(now.ram, fs), Decode(next.ram, Frame(k, now.sp)))
  BY <1>1, <1>3, <1>5, Called DEF gs
<1>7. Decode(next.ram, Frame(k, now.sp)) = content
  BY <1>3, <1>4 DEF Calling
<1>8. /\ Sound(cpu', gs) /\ DecodeAll(cpu'.ram, gs) = DecodeAll(next.ram, gs)
      /\ Place(next, cpu')
  BY <1>3, <1>6, Lived
<1>9. Mode(cpu') = Mode(cpu)
  BY <1>1, <1>8 DEF Place, Mode, Emulation, Ready
<1>. QED BY <1>3, <1>4, <1>6, <1>7, <1>8, <1>9

\* It returns.
LEMMA Returns ==
  ASSUME NEW now \in Processors, NEW fs, Stacked(fs, now.sp), fs # <<>>,
         NEW next, Do(next, Front(fs)), Returning(now, next, Last(fs).sp)
  PROVE  /\ Sound(cpu', frames') /\ frames' = Front(fs)
         /\ DecodeAll(cpu'.ram, frames') = Front(DecodeAll(now.ram, fs))
         /\ DecodeAll(now.ram, fs) # <<>>
         /\ Last(DecodeAll(now.ram, fs)) = Decode(now.ram, Last(fs))
         /\ Place(next, cpu') /\ Mode(cpu') = Mode(now)
<1>1. /\ next \in Processors /\ next.sp = Last(fs).sp /\ next.ram = now.ram
      /\ Mode(next) = Mode(now) /\ fs \in Seq(FrameSet)
  BY DEF Returning, Stacked
<1>2. cpu' = Live(next) /\ frames' = Front(fs)
  BY <1>1, DoneIs
<1>3. /\ Sound(next, Front(fs))
      /\ DecodeAll(next.ram, Front(fs)) = Front(DecodeAll(now.ram, fs))
      /\ DecodeAll(now.ram, fs) # <<>>
      /\ Last(DecodeAll(now.ram, fs)) = Decode(now.ram, Last(fs))
  BY <1>1, Returned
<1>4. /\ Sound(cpu', Front(fs)) /\ Place(next, cpu')
      /\ DecodeAll(cpu'.ram, Front(fs)) = DecodeAll(next.ram, Front(fs))
  BY <1>2, <1>3, Lived
<1>5. Mode(cpu') = Mode(now)
  BY <1>1, <1>4 DEF Place, Mode, Emulation
<1>. QED BY <1>2, <1>3, <1>4, <1>5

LEMMA PushStep ==
  ASSUME NEW now, NEW fs, Ready(now, fs), Push(now, fs)
  PROVE  Outcome(now, fs)
<1>1. Pushes(now, PHK(now), 1) /\ Pushes(now, PHP(now), 1)
  BY BytePushes DEF Ready
<1>2. CASE Do(PHK(now), fs)
  BY <1>1, <1>2, QuietRuns
<1>3. CASE Do(PHP(now), fs)
  BY <1>1, <1>3, QuietRuns
<1>. QED BY <1>2, <1>3 DEF Push

LEMMA MaskStep ==
  ASSUME NEW now, NEW fs, Ready(now, fs), Mask(now, fs)
  PROVE  Outcome(now, fs)
<1>1. Quiet(now, SetFlag(now, "i")) /\ Quiet(now, ClearFlag(now, "i"))
  BY FlagsQuiet DEF Ready, Flags
<1>2. CASE Do(SetFlag(now, "i"), fs)
  BY <1>1, <1>2, QuietRuns
<1>3. CASE Do(ClearFlag(now, "i"), fs)
  BY <1>1, <1>3, QuietRuns
<1>. QED BY <1>2, <1>3 DEF Mask

LEMMA IdleStep ==
  ASSUME NEW now, NEW fs, Ready(now, fs), Idle(now, fs)
  PROVE  Outcome(now, fs)
<1>1. Quiet(now, NOP(now)) /\ Quiet(now, WDM(now)) /\ Quiet(now, WAI(now))
  BY IdleQuiet DEF Ready
<1>2. CASE Do(NOP(now), fs)
  BY <1>1, <1>2, QuietRuns
<1>3. CASE Do(WDM(now), fs)
  BY <1>1, <1>3, QuietRuns
<1>4. CASE Do(WAI(now), fs)
  BY <1>1, <1>4, QuietRuns
<1>. QED BY <1>2, <1>3, <1>4 DEF Idle

LEMMA SwitchStep ==
  ASSUME NEW now, NEW fs, Ready(now, fs), Switch(now, fs)
  PROVE  Outcome(now, fs)
<1>1. Quiet(now, XCE(now)) /\ Do(XCE(now), fs)
  BY SwitchQuiet DEF Switch, Ready
<1>. QED BY <1>1, QuietRuns

\* PLP pulls only what lies below the innermost frame.
LEMMA PullStep ==
  ASSUME NEW now, NEW fs, Ready(now, fs), Pull(now, fs)
  PROVE  Outcome(now, fs)
<1> DEFINE R == SetRegisterValue(Drop(now, 1).P, Peek(now, 1))
           d == [Drop(now, 1) EXCEPT !.P = R]
           next == PLP(now)
<1>1. /\ now \in Processors /\ now.sp \in Int /\ now.sp < Floor(fs)
      /\ Do(next, fs) /\ now.P \in SUBSET Flags
  BY Typed DEF Pull, Ready
<1>2. now.sp \in StackArea
  BY <1>1, FloorIs DEF Ready
<1>3. Wrap(now.sp + 1) \in UInt16
  BY <1>1, Wrapped
<1>4. R \in SUBSET Flags
  <2>1. Drop(now, 1).P \in SUBSET Flags
    BY <1>1 DEF Drop, Processors
  <2>. QED BY <2>1, StatusSet
<1>5. d \in Processors /\ d.sp = Wrap(now.sp + 1) /\ d.ram = now.ram
  BY <1>1, <1>3, <1>4 DEF Drop, Processors
<1>6. next = Advance(d, 1)
  BY DEF PLP
<1>. HIDE DEF R, d, next
<1>7. Quiet(d, next)
  BY <1>5, <1>6, Advances
<1>8. /\ next \in Processors /\ next.sp = Wrap(now.sp + 1)
      /\ next.ram = now.ram
  BY <1>5, <1>7 DEF Quiet
<1>9. Above(now, next)
  BY <1>8 DEF Above
<1>10. Stacked(fs, next.sp)
  <2>1. CASE fs = <<>>
    <3>1. \A i \in 1..Len(fs) : FALSE
      BY <2>1
    <3>2. fs \in Seq(FrameSet)
      BY DEF Ready, Stacked
    <3>. QED BY <3>1, <3>2 DEF Stacked
  <2>2. CASE fs # <<>>
    <3> DEFINE l == Last(fs)
    <3>1. now.sp + 1 <= Room(l) /\ l \in FrameSet /\ Stacked(Front(fs), l.sp)
      <4>1. Stacked(fs, now.sp)
        BY DEF Ready
      <4>2. l \in FrameSet /\ Room(l) \in Int
        BY <1>1, <2>2, <4>1, StackedFront, RoomIsInt
      <4>. QED BY <1>1, <2>2, <4>1, <4>2, StackedFront, FloorIs
    <3>2. now.sp + 1 \in UInt16
      <4>1. Room(l) \in Int /\ Room(l) <= l.sp - 2 /\ l.sp \in Int
        BY <3>1, RoomIsInt
      <4>2. l.sp <= 65535 /\ now.sp >= 4
        BY <3>1, AreaIsInt DEF FrameSet, Ready
      <4>. QED BY <1>1, <3>1, <4>1, <4>2, UInt16Bounds
    <3>3. next.sp = now.sp + 1
      BY <1>8, <3>2, Wrapped
    <3>4. Stacked(fs, now.sp + 1)
      BY <1>1, <2>2, <3>1, StackedRaise DEF Ready
    <3>. QED BY <3>3, <3>4
  <2>. QED BY <2>1, <2>2
<1>. QED BY <1>1, <1>2, <1>8, <1>9, <1>10, Runs

\* What a call leaves is a call of CallStack.
LEMMA CallsExecute ==
  ASSUME NEW b, NEW o, NEW s, NEW gs, NEW content,
         DecodeAll(cpu'.ram, frames') = Append(gs, content),
         Mode(cpu') = Mode(cpu),
         \/ content = Content("jsr", 0, Wrap(o + 3), {}) /\ cpu'.pb = b
         \/ content = Content("jsl", b, Wrap(o + 4), {})
         \/ /\ \E saved \in {s, s \cup {"b"}} :
                 content = Content(Mode(cpu), IF Mode(cpu) = "native"
                                              THEN b ELSE 0,
                                   Wrap(o + 2), saved)
            /\ cpu'.pb = 0
            /\ \/ Shown(cpu'.P) = (s \cup {"i"}) \ {"d"}
               \/ Shown(cpu'.P) = (s \cup {"i", "b"}) \ {"d"}
  PROVE  Calls!Execute(b, o, s, gs)
<1>1. CASE content = Content("jsr", 0, Wrap(o + 3), {}) /\ cpu'.pb = b
  <2>1. Calls!Call(b, o, s, gs)
    BY <1>1 DEF Calls!Call, Calls!Saved, Content, Wrap
  <2>. QED BY <2>1 DEF Calls!Execute
<1>2. CASE content = Content("jsl", b, Wrap(o + 4), {})
  <2>1. Calls!Call(b, o, s, gs)
    BY <1>2 DEF Calls!Call, Calls!Saved, Content, Wrap
  <2>. QED BY <2>1 DEF Calls!Execute
<1>3. ASSUME NEW saved \in {s, s \cup {"b"}},
             content = Content(Mode(cpu),
                               IF Mode(cpu) = "native" THEN b ELSE 0,
                               Wrap(o + 2), saved),
             cpu'.pb = 0,
             \/ Shown(cpu'.P) = (s \cup {"i"}) \ {"d"}
             \/ Shown(cpu'.P) = (s \cup {"i", "b"}) \ {"d"}
      PROVE  Calls!Execute(b, o, s, gs)
  <2>1. content = Calls!Context(b, o + 2, saved)
    BY <1>3 DEF Calls!Context, Calls!Saved, Content, Wrap
  <2>2. Calls!Call(b, o, s, gs)
    BY <1>3, <2>1 DEF Calls!Call, Shown
  <2>. QED BY <2>2 DEF Calls!Execute
<1>. QED BY <1>1, <1>2, <1>3

LEMMA JumpStep ==
  ASSUME NEW now, NEW fs, Ready(now, fs), Jump(now, fs)
  PROVE  Outcome(now, fs)
<1>1. PICK bank \in Banks, to \in Code :
        \/ bank = now.pb /\ Do(JMP(now, bank, to), fs)
        \/ bank = now.pb /\ Call("jsr", now, JSR(now, to), fs)
        \/ bank # now.pb /\ Call("jsl", now, JSL(now, bank, to), fs)
  BY DEF Jump
<1>2. bank \in UInt8 /\ to \in UInt16 /\ now \in Processors /\ now.sp >= 4
  BY CpuFramesAssumption DEF Ready
<1>3. CASE Do(JMP(now, bank, to), fs)
  BY <1>2, <1>3, JumpQuiet, QuietRuns
<1>4. CASE Call("jsr", now, JSR(now, to), fs)
  <2> DEFINE next == JSR(now, to)
             content == Content("jsr", 0, Wrap(now.pc + 3), {})
  <2>. HIDE DEF next, content
  <2>1. Calling(now, next, "jsr", content) /\ next.pb = now.pb
    BY <1>2, NearCall DEF next, content
  <2>2. Call("jsr", now, next, fs)
    BY <1>4 DEF next
  <2>3. /\ now.sp \in StackArea /\ Sound(cpu', frames')
        /\ DecodeAll(cpu'.ram, frames') =
             Append(DecodeAll(now.ram, fs), content)
        /\ Place(next, cpu') /\ Mode(cpu') = Mode(cpu)
    BY <2>1, <2>2, CallsOn
  <2>4. cpu'.pb = now.pb
    BY <2>1, <2>3 DEF Place
  <2>. QED BY <2>3, <2>4, CallsExecute DEF Outcome, content
<1>5. CASE Call("jsl", now, JSL(now, bank, to), fs)
  <2> DEFINE next == JSL(now, bank, to)
             content == Content("jsl", now.pb, Wrap(now.pc + 4), {})
  <2>. HIDE DEF next, content
  <2>1. Calling(now, next, "jsl", content)
    BY <1>2, FarCall DEF next, content
  <2>2. Call("jsl", now, next, fs)
    BY <1>5 DEF next
  <2>3. /\ now.sp \in StackArea /\ Sound(cpu', frames')
        /\ DecodeAll(cpu'.ram, frames') =
             Append(DecodeAll(now.ram, fs), content)
        /\ Mode(cpu') = Mode(cpu)
    BY <2>1, <2>2, CallsOn
  <2>. QED BY <2>3, CallsExecute DEF Outcome, content
<1>. QED BY <1>1, <1>3, <1>4, <1>5

LEMMA SoftwareStep ==
  ASSUME NEW now, NEW fs, Ready(now, fs), Software(now, fs)
  PROVE  Outcome(now, fs)
<1>1. PICK next : /\ next = BRK(now) \/ next = COP(now)
                  /\ Call(Mode(now), now, next, fs)
  BY DEF Software
<1>2. now \in Processors /\ now.sp >= 4 /\ Mode(now) = Mode(cpu)
  BY DEF Ready
<1>3. /\ \E saved \in {Shown(now.P), Shown(now.P) \cup {"b"}} :
           Calling(now, next, Mode(now), Context(now, now.pc + 2, saved))
      /\ next.pb = 0
      /\ \/ Shown(next.P) = (Shown(now.P) \cup {"i"}) \ {"d"}
         \/ Shown(next.P) = (Shown(now.P) \cup {"i", "b"}) \ {"d"}
  BY <1>1, <1>2, SoftwareCall
<1>4. PICK saved \in {Shown(now.P), Shown(now.P) \cup {"b"}} :
        Calling(now, next, Mode(now), Context(now, now.pc + 2, saved))
  BY <1>3
<1> DEFINE content == Context(now, now.pc + 2, saved)
<1>. HIDE DEF content
<1>5. /\ now.sp \in StackArea /\ Sound(cpu', frames')
      /\ DecodeAll(cpu'.ram, frames') = Append(DecodeAll(now.ram, fs), content)
      /\ Place(next, cpu') /\ Mode(cpu') = Mode(cpu)
  <2>1. Calling(now, next, Mode(now), content)
    BY <1>4 DEF content
  <2>. QED BY <1>1, <2>1, CallsOn
<1>6. cpu'.pb = 0 /\ cpu'.P = next.P
  BY <1>3, <1>5 DEF Place
<1>7. content = Content(Mode(cpu), IF Mode(cpu) = "native" THEN now.pb ELSE 0,
                        Wrap(now.pc + 2), saved)
  BY <1>2 DEF content, Context
<1> DEFINE s == Shown(now.P)
<1>8. \E t \in {s, s \cup {"b"}} :
        content = Content(Mode(cpu), IF Mode(cpu) = "native" THEN now.pb ELSE 0,
                          Wrap(now.pc + 2), t)
  BY <1>7
<1>9. \/ Shown(cpu'.P) = (s \cup {"i"}) \ {"d"}
      \/ Shown(cpu'.P) = (s \cup {"i", "b"}) \ {"d"}
  BY <1>3, <1>6
<1>. HIDE DEF s
<1>10. Calls!Execute(now.pb, now.pc, s, DecodeAll(now.ram, fs))
  BY <1>5, <1>6, <1>8, <1>9, CallsExecute
<1>. QED BY <1>5, <1>10 DEF Outcome, s

LEMMA KindKept ==
  ASSUME NEW ram, NEW f \in FrameSet
  PROVE  Decode(ram, f).kind = f.kind /\ f = Frame(f.kind, f.sp)
<1>1. f.kind \in Kinds /\ f.sp \in Int /\ f = Frame(f.kind, f.sp)
  BY AreaIsInt DEF FrameSet, Frame
<1>2. \E b, r, s : Decode(ram, f) = Content(f.kind, b, r, s)
  <2> DEFINE k == f.kind
             s == f.sp
             d == Decode(ram, f)
  <2>1. k \in Kinds /\ s \in Int /\ f = Frame(k, s)
    BY <1>1
  <2>. HIDE DEF k, s
  <2>2. /\ k = "jsr" => d =
             Content(k, 0, Wrap(Word(ram[s], ram[s - 1]) + 1), {})
        /\ k = "jsl" => d =
             Content(k, ram[s], Wrap(Word(ram[s - 1], ram[s - 2]) + 1), {})
        /\ k = "emulation" => d =
             Content(k, 0, Word(ram[s], ram[s - 1]), Marked({"e"}, ram[s - 2]))
        /\ k = "native" => d =
             Content(k, ram[s], Word(ram[s - 1], ram[s - 2]),
                     Marked({}, ram[s - 3]))
    BY <2>1, DecodeIs
  <2>. HIDE DEF d
  <2>3. \E b, r, u : d = Content(k, b, r, u)
    BY <2>1, <2>2 DEF Kinds
  <2>. QED BY <2>3 DEF k, d
<1>. QED BY <1>1, <1>2 DEF Content

\* What is left when the innermost frame has been taken off.
Left(now, fs) ==
  /\ Sound(cpu', frames') /\ fs # <<>> /\ frames' = Front(fs)
  /\ DecodeAll(cpu'.ram, frames') = Front(DecodeAll(now.ram, fs))
  /\ now.sp \in StackArea => Outcome(now, fs)

LEMMA LeaveBy ==
  ASSUME NEW now, NEW fs, Ready(now, fs), NEW k, NEW next,
         Return(k, now, next, fs),
         Returning(now, next, Last(fs).sp),
         PULL_LOW_FIRST /\ now.sp \in StackArea =>
           Resuming(now, next, k, Decode(now.ram, Last(fs)))
  PROVE  Left(now, fs)
<1> DEFINE gs == DecodeAll(now.ram, fs)
<1>1. /\ now \in Processors /\ Stacked(fs, now.sp) /\ fs # <<>>
      /\ Do(next, Front(fs)) /\ Last(fs).kind = k /\ now.sp \in Int
  BY Typed DEF Ready, Return
<1>2. /\ Sound(cpu', frames') /\ frames' = Front(fs)
      /\ DecodeAll(cpu'.ram, frames') = Front(gs)
      /\ gs # <<>> /\ Last(gs) = Decode(now.ram, Last(fs))
      /\ Place(next, cpu')
  BY <1>1, Returns
<1>3. Last(gs).kind = k
  BY <1>1, <1>2, StackedFront, KindKept
<1>. HIDE DEF gs
<1>4. ASSUME PULL_LOW_FIRST, now.sp \in StackArea
      PROVE  Calls!Execute(now.pb, now.pc, Shown(now.P), gs)
  <2>1. Resuming(now, next, k, Last(gs))
    BY <1>2, <1>4
  <2>2. /\ cpu'.pc = Last(gs).return
        /\ cpu'.pb = IF k \in {"jsl", "native"} THEN Last(gs).bank ELSE now.pb
        /\ k \in {"emulation", "native"} => Shown(cpu'.P) = Last(gs).status
    BY <1>2, <2>1 DEF Place, Resuming
  <2>3. Calls!Return(now.pb, gs)
    BY <1>2, <1>3, <2>2 DEF Calls!Return, Calls!Front, Calls!Last, Shown,
                            Front, Last
  <2>4. Mode(cpu') = Mode(cpu)
    BY <1>2 DEF Place, Returning, Ready, Mode, Emulation
  <2>. QED BY <2>3, <2>4 DEF Calls!Execute
<1>. QED BY <1>1, <1>2, <1>4 DEF Left, Outcome, gs

\* What an instruction that returns needs to find its frame.
LEMMA Innermost ==
  ASSUME NEW now, NEW fs, Ready(now, fs), NEW k, NEW next,
         Return(k, now, next, fs)
  PROVE  /\ now \in Processors /\ Last(fs).sp \in StackArea
         /\ now.sp = Last(fs).sp - Size[k]
         /\ Last(fs) = Frame(k, Last(fs).sp)
<1>1. /\ now \in Processors /\ Stacked(fs, now.sp) /\ fs # <<>>
      /\ Last(fs).kind = k /\ now.sp = Floor(fs) /\ now.sp \in Int
  BY Typed DEF Ready, Return
<1>2. Last(fs) \in FrameSet
  BY <1>1, StackedFront
<1>3. Last(fs).sp \in StackArea /\ Last(fs) = Frame(Last(fs).kind, Last(fs).sp)
  BY <1>2, KindKept DEF FrameSet
<1>. QED BY <1>1, <1>3, FloorIs DEF Room

LEMMA LeaveStep ==
  ASSUME NEW now, NEW fs, Ready(now, fs), Leave(now, fs)
  PROVE  Left(now, fs)
<1> DEFINE s == Last(fs).sp
<1>1. CASE Return("jsr", now, RTS(now), fs)
  <2>1. /\ now \in Processors /\ s \in StackArea /\ now.sp = s - 2
        /\ Last(fs) = Frame("jsr", s)
    BY <1>1, Innermost, Sizes
  <2>. QED BY <1>1, <2>1, NearReturn, LeaveBy
<1>2. CASE Return("jsl", now, RTL(now), fs)
  <2>1. /\ now \in Processors /\ s \in StackArea /\ now.sp = s - 3
        /\ Last(fs) = Frame("jsl", s)
    BY <1>2, Innermost, Sizes
  <2>. QED BY <1>2, <2>1, FarReturn, LeaveBy
<1>3. CASE Return(Mode(now), now, RTI(now), fs)
  <2>1. /\ now \in Processors /\ s \in StackArea
        /\ now.sp = s - Size[Mode(now)] /\ Last(fs) = Frame(Mode(now), s)
    BY <1>3, Innermost
  <2>. QED BY <1>3, <2>1, InterruptReturn, LeaveBy
<1>. QED BY <1>1, <1>2, <1>3 DEF Leave

-----------------------------------------------------------------------------
(* The instruction as fetched, and every step.                             *)

\* Of any instruction but a return.
LEMMA InstructionStep ==
  ASSUME NEW now, NEW fs, Ready(now, fs),
         \/ Push(now, fs) \/ Pull(now, fs) \/ Jump(now, fs) \/ Software(now, fs)
         \/ Mask(now, fs) \/ Switch(now, fs) \/ Idle(now, fs)
  PROVE  Outcome(now, fs)
BY PushStep, PullStep, JumpStep, SoftwareStep, MaskStep, SwitchStep, IdleStep

LEMMA InterruptCall ==
  ASSUME NEW c \in Processors, c.sp >= 4, NEW irq, IrqTaken(c, irq),
         NEW d, d = Fetch(c, irq)
  PROVE  /\ Calling(c, d, Mode(c), Context(c, c.pc, Shown(c.P)))
         /\ d.P = Masked(c.P) /\ d.pb = 0 /\ d.pc = Target(c, "EIRQ", "NIRQ")
<1>1. ASSUME NEW r \in Int, NEW v \in DOMAIN Vector, NEW w \in DOMAIN Vector,
             d = EnterHandler(PushContext(c, r), v, w)
      PROVE  /\ Calling(c, d, Mode(c), Context(c, r, Shown(c.P)))
             /\ d.P = Masked(c.P) /\ d.pb = 0 /\ d.pc = Target(c, v, w)
  BY <1>1, ContextCall
<1> DEFINE r == c.pc
<1>2. r \in Int /\ "EIRQ" \in DOMAIN Vector /\ "NIRQ" \in DOMAIN Vector
  BY Typed, CpuAssumption
<1>3. d = EnterHandler(PushContext(c, r), "EIRQ", "NIRQ")
  BY DEF Fetch
<1>. HIDE DEF r
<1>4. /\ Calling(c, d, Mode(c), Context(c, r, Shown(c.P)))
      /\ d.P = Masked(c.P) /\ d.pb = 0 /\ d.pc = Target(c, "EIRQ", "NIRQ")
  BY <1>1, <1>2, <1>3
<1>. QED BY <1>4 DEF r

\* The entry of the interrupt handler, on the way to its first instruction.
Entering(c, fs, now, gs) ==
  /\ now \in Processors /\ now.sp >= 4 /\ now.sp <= c.sp
  /\ Mode(now) = Mode(c) /\ Stacked(gs, now.sp)
  /\ gs # <<>> /\ now.sp = Room(Last(gs))
  /\ now.pb = 0 /\ now.pc = Target(c, "EIRQ", "NIRQ")
  /\ Shown(now.P) = (Shown(c.P) \cup {"i"}) \ {"d"}
  /\ \A a \in StackArea : a > c.sp => now.ram[a] = c.ram[a]
  /\ now.sp \in StackArea =>
       DecodeAll(now.ram, gs) =
         Append(DecodeAll(c.ram, fs), Context(c, c.pc, Shown(c.P)))

LEMMA Fetched ==
  ASSUME NEW c, NEW fs, Sound(c, fs), NEW irq, IrqTaken(c, irq),
         NEW now, now = Fetch(c, irq),
         NEW gs, gs = Append(fs, Frame(Mode(c), c.sp))
  PROVE  Entering(c, fs, now, gs)
<1> DEFINE k == Mode(c)
           s == c.sp
           content == Context(c, c.pc, Shown(c.P))
<1>1. /\ c \in Processors /\ s \in StackArea /\ Stacked(fs, s)
      /\ s \in Int /\ s >= 8
  <2>1. c \in Processors /\ s \in StackArea /\ Stacked(fs, s)
    BY DEF Sound
  <2>. QED BY <2>1, AreaIsInt
<1>3. /\ Calling(c, now, k, content)
      /\ now.P = Masked(c.P) /\ now.pb = 0 /\ now.pc = Target(c, "EIRQ", "NIRQ")
  <2>1. c.sp >= 4
    BY <1>1
  <2>. QED BY <1>1, <2>1, InterruptCall
<1>. HIDE DEF content, k
<1>4. /\ now \in Processors /\ now.sp = s - Size[k] /\ Mode(now) = Mode(c)
      /\ k \in Kinds /\ \A a \in StackArea : a > s => now.ram[a] = c.ram[a]
      /\ s \in StackArea /\ now.sp \in StackArea =>
           Decode(now.ram, Frame(k, s)) = content
  BY <1>3 DEF Calling, Pushes, k
<1>5. now.sp >= 4 /\ now.sp <= s
  <2> DEFINE n == Size[k]
  <2>1. n \in Int /\ 2 <= n /\ n <= 4
    BY <1>4, Sizes DEF Kinds
  <2>2. s \in Int /\ s >= 8 /\ now.sp = s - n
    BY <1>1, <1>4
  <2>. HIDE DEF s, n
  <2>. QED BY <2>1, <2>2, Z3
<1>6. Stacked(gs, now.sp)
  <2>1. gs = Append(fs, Frame(k, s))
    BY DEF k
  <2>. HIDE DEF s
  <2>. QED BY <1>1, <1>4, <2>1, StackedAppend
<1>7. gs # <<>> /\ Last(gs) = Frame(k, s) /\ Room(Last(gs)) = now.sp
  <2> DEFINE f == Frame(k, s)
  <2>1. fs \in Seq(FrameSet) /\ f \in FrameSet /\ Room(f) = s - Size[k]
    BY <1>1, <1>4, Zenon DEF Stacked, Frame, FrameSet, Room
  <2>. HIDE DEF f, k, s
  <2>2. gs = Append(fs, f)
    BY DEF f, k, s
  <2>3. gs # <<>> /\ gs[Len(gs)] = f
    BY <2>1, <2>2, AppendProperties
  <2>. QED BY <1>4, <2>1, <2>3 DEF Last, f
<1>8. Shown(now.P) = (Shown(c.P) \cup {"i"}) \ {"d"}
  BY <1>3, MaskedShown
<1>9. ASSUME now.sp \in StackArea
      PROVE  DecodeAll(now.ram, gs) = Append(DecodeAll(c.ram, fs), content)
  <2>1. /\ gs = Append(fs, Frame(k, c.sp)) /\ now.sp = c.sp - Size[k]
        /\ \A a \in StackArea : a > c.sp => now.ram[a] = c.ram[a]
        /\ Decode(now.ram, Frame(k, c.sp)) = content
    BY <1>1, <1>4, <1>9 DEF k
  <2>2. DecodeAll(now.ram, Append(fs, Frame(k, c.sp))) =
          Append(DecodeAll(c.ram, fs), Decode(now.ram, Frame(k, c.sp)))
    BY <1>4, <1>9, <2>1, Called
  <2>. QED BY <2>1, <2>2
<1>. QED BY <1>3, <1>4, <1>5, <1>6, <1>7, <1>8, <1>9
          DEF content, Entering

LEMMA FrontOfAppend ==
  ASSUME NEW S, NEW fs \in Seq(S), NEW f \in S
  PROVE  Front(Append(fs, f)) = fs
<1> DEFINE gs == Append(fs, f)
<1>1. /\ gs \in Seq(S) /\ Len(gs) = Len(fs) + 1 /\ gs # <<>>
      /\ \A i \in 1..Len(fs) : gs[i] = fs[i]
      /\ Len(fs) \in Nat
  BY AppendProperties, LenProperties
<1>. HIDE DEF gs
<1>2. /\ Front(gs) \in Seq(S) /\ Len(Front(gs)) = Len(gs) - 1
      /\ \A i \in 1..(Len(gs) - 1) : Front(gs)[i] = gs[i]
  BY <1>1, FrontOf
<1>3. Len(gs) - 1 = Len(fs)
  BY <1>1
<1>4. \A i \in 1..Len(fs) : Front(gs)[i] = fs[i]
  BY <1>1, <1>2, <1>3
<1>. QED BY <1>2, <1>3, <1>4, SeqEqual DEF gs

\* An instruction that no interrupt precedes.
LEMMA PlainStep ==
  ASSUME Sound(cpu, frames), NEW irq \in BOOLEAN, ~IrqTaken(cpu, irq),
         ExecuteNextInstruction(irq)
  PROVE  /\ Sound(cpu', frames')
         /\ PULL_LOW_FIRST => Calls!Next
<1> DEFINE c == cpu
           fs == frames
<1>1. Fetch(cpu, irq) = c /\ Entered(irq) = fs
  BY DEF Fetch, Entered
<1>2. \/ Push(c, fs) \/ Pull(c, fs) \/ Jump(c, fs) \/ Software(c, fs)
      \/ Leave(c, fs) \/ Mask(c, fs) \/ Switch(c, fs) \/ Idle(c, fs)
  BY <1>1 DEF ExecuteNextInstruction
<1>3. Ready(c, fs) /\ c.sp \in StackArea
  <2>1. c \in Processors /\ c.sp \in StackArea /\ Stacked(fs, c.sp)
    BY DEF Sound
  <2>2. c.sp >= 4 /\ c.sp <= cpu.sp
    BY <2>1, AreaIsInt
  <2>. QED BY <2>1, <2>2 DEF Ready
<1>. HIDE DEF c, fs
<1>4. Outcome(c, fs)
  <2>1. CASE Leave(c, fs)
    BY <1>3, <2>1, LeaveStep DEF Left
  <2>. QED BY <1>2, <1>3, <2>1, InstructionStep
<1>5. Sound(cpu', frames')
  BY <1>4 DEF Outcome
<1>6. ASSUME PULL_LOW_FIRST PROVE Calls!Next
  <2>1. Calls!Execute(c.pb, c.pc, Shown(c.P), DecodeAll(c.ram, fs))
    BY <1>4, <1>6 DEF Outcome
  <2>. QED BY <2>1 DEF Calls!Next, Shown, c, fs
<1>. QED BY <1>5, <1>6

\* An instruction after the entry of the interrupt handler.  Where that has
\* left the stack area, only a return from it keeps to the rules.
LEMMA InterruptedStep ==
  ASSUME Sound(cpu, frames), NEW irq \in BOOLEAN, IrqTaken(cpu, irq),
         ExecuteNextInstruction(irq)
  PROVE  /\ Sound(cpu', frames')
         /\ PULL_LOW_FIRST => Calls!Next
<1> DEFINE c == cpu
           fs == frames
           f == Frame(Mode(cpu), cpu.sp)
           now == Fetch(cpu, irq)
           gs == Append(frames, Frame(Mode(cpu), cpu.sp))
<1>1. Entered(irq) = gs
  BY DEF Entered
<1>2. \/ Push(now, gs) \/ Pull(now, gs) \/ Jump(now, gs) \/ Software(now, gs)
      \/ Leave(now, gs) \/ Mask(now, gs) \/ Switch(now, gs) \/ Idle(now, gs)
  BY <1>1 DEF ExecuteNextInstruction
<1>3. c \in Processors /\ c.sp \in StackArea /\ Stacked(fs, c.sp)
  BY DEF Sound
<1>. HIDE DEF now, gs
<1>4. /\ now \in Processors /\ now.sp >= 4 /\ now.sp <= c.sp
      /\ Mode(now) = Mode(c) /\ Stacked(gs, now.sp)
      /\ gs # <<>> /\ now.sp = Room(Last(gs))
      /\ now.pb = 0 /\ now.pc = Target(c, "EIRQ", "NIRQ")
      /\ Shown(now.P) = (Shown(c.P) \cup {"i"}) \ {"d"}
      /\ \A a \in StackArea : a > c.sp => now.ram[a] = c.ram[a]
      /\ now.sp \in StackArea =>
           DecodeAll(now.ram, gs) =
             Append(DecodeAll(c.ram, fs), Context(c, c.pc, Shown(c.P)))
  <2>1. /\ Sound(c, fs) /\ IrqTaken(c, irq) /\ now = Fetch(c, irq)
        /\ gs = Append(fs, Frame(Mode(c), c.sp))
    BY DEF now, gs
  <2>. HIDE DEF c, fs
  <2>2. Entering(c, fs, now, gs)
    BY <2>1, Fetched
  <2>. QED BY <2>2 DEF Entering
<1>5. Ready(now, gs)
  BY <1>3, <1>4 DEF Ready
<1>6. CASE Outcome(now, gs)
  <2>1. Sound(cpu', frames') /\ now.sp \in StackArea
    BY <1>6 DEF Outcome
  <2>2. ASSUME PULL_LOW_FIRST PROVE Calls!Next
    <3>1. Calls!Execute(0, Target(c, "EIRQ", "NIRQ"),
                        (Shown(c.P) \cup {"i"}) \ {"d"},
                        Append(DecodeAll(c.ram, fs),
                               Context(c, c.pc, Shown(c.P))))
      BY <1>4, <1>6, <2>1, <2>2 DEF Outcome
    <3>2. Context(c, c.pc, Shown(c.P)) =
            Calls!Context(cpu.pb, cpu.pc, Shown(c.P))
      BY DEF Context, Content, Wrap, Calls!Context, Calls!Saved
    <3>3. "i" \notin Shown(c.P)
      BY DEF IrqTaken, Shown
    <3>4. Target(c, "EIRQ", "NIRQ") =
            [emulation |-> Vector["EIRQ"], native |-> Vector["NIRQ"]][Mode(cpu)]
      BY DEF Target, Mode
    <3>5. Calls!Interrupt
      BY <3>1, <3>2, <3>3, <3>4 DEF Calls!Interrupt, Shown
    <3>. QED BY <3>5 DEF Calls!Next
  <2>. QED BY <2>1, <2>2
<1>7. CASE now.sp \notin StackArea
  <2>1. ~Outcome(now, gs)
    BY <1>7 DEF Outcome
  <2>2. Leave(now, gs)
    BY <1>2, <1>5, <2>1, InstructionStep
  <2>3. /\ Sound(cpu', frames') /\ frames' = Front(gs)
        /\ DecodeAll(cpu'.ram, frames') = Front(DecodeAll(now.ram, gs))
    BY <1>5, <2>2, LeaveStep DEF Left
  <2>4. fs \in Seq(FrameSet) /\ f \in FrameSet /\ gs = Append(fs, f)
    <3>1. Mode(cpu) \in Kinds
      BY DEF Mode, Kinds
    <3>. QED BY <1>3, <3>1 DEF Stacked, Frame, FrameSet, gs
  <2>. HIDE DEF f
  <2>5. Front(DecodeAll(now.ram, gs)) = DecodeAll(now.ram, Front(gs))
    BY <2>4, AppendProperties, DecodedFront, <1>4 DEF Stacked
  <2>6. Front(gs) = fs
    BY <2>4, FrontOfAppend
  <2>7. DecodeAll(now.ram, fs) = DecodeAll(c.ram, fs)
    BY <1>3, <1>4, DecodeAllKept
  <2>8. DecodeAll(cpu'.ram, frames') = DecodeAll(c.ram, fs)
    BY <2>3, <2>5, <2>6, <2>7
  <2>9. Calls!Execute(cpu.pb, cpu.pc, cpu.P \cap Carried(cpu.P),
                      DecodeAll(cpu.ram, frames))
    BY <2>8 DEF Calls!Execute, Calls!Run
  <2>. QED BY <2>3, <2>9 DEF Calls!Next
<1>8. CASE now.sp \in StackArea
  <2>1. CASE Leave(now, gs)
    BY <1>5, <1>6, <1>8, <2>1, LeaveStep DEF Left
  <2>. QED BY <1>2, <1>5, <1>6, <2>1, InstructionStep
<1>. QED BY <1>7, <1>8

LEMMA Booted ==
  ASSUME Init
  PROVE  /\ Sound(cpu, frames) /\ DecodeAll(cpu.ram, frames) = <<>>
<1>1. PICK low \in StackLows : cpu = Reset(PowerOn, low) /\ frames = <<>>
  BY DEF Init
<1> DEFINE c == PowerOn
           R == c.P \cup {"e", "m", "x"}
           s == SetEmulation(low)
           to == Vector["ERES"]
           x == Low(c.X)
<1>2. /\ R \in SUBSET Flags /\ s \in StackArea /\ s \in UInt16 /\ to \in UInt16
      /\ x \in UInt16
  BY CpuAssumption, CpuFramesAssumption, UInt16Bounds
     DEF PowerOn, Flags, Low
<1>3. c \in Processors /\ c.Y = c.X
  BY UInt16Bounds, UInt8Bounds DEF PowerOn, Processors, Flags
<1>4. cpu = [c EXCEPT !.P = R, !.X = x, !.Y = x, !.D = 0, !.sp = s, !.pb = 0,
                      !.pc = to, !.RES = FALSE]
  BY <1>1, <1>3 DEF Reset
<1>. HIDE DEF c, R, s, to, x
<1>5. cpu \in Processors /\ cpu.sp = s
  <2>1. 0 \in UInt8 /\ 0 \in UInt16 /\ FALSE \in BOOLEAN
    BY UInt16Bounds, UInt8Bounds
  <2>. QED BY <1>2, <1>3, <1>4, <2>1 DEF Processors
<1>6. Stacked(frames, cpu.sp)
  <2>1. frames \in Seq(FrameSet) /\ \A i \in 1..Len(frames) : FALSE
    BY <1>1
  <2>. QED BY <2>1 DEF Stacked
<1>7. DecodeAll(cpu.ram, frames) = <<>>
  <2> DEFINE r == cpu.ram
             d == DecodeAll(r, frames)
  <2>1. frames \in Seq(FrameSet) /\ Len(frames) = 0
    BY <1>1
  <2>. HIDE DEF r, d
  <2>2. d \in Seq(Contents(r)) /\ Len(d) = 0
    BY <2>1, Decoded DEF d
  <2>3. d = <<>>
    BY <2>2, EmptySeq
  <2>. QED BY <2>3 DEF d, r
<1>. QED BY <1>2, <1>5, <1>6, <1>7 DEF Sound

LEMMA SoundStep ==
  ASSUME Sound(cpu, frames), [Next]_vars
  PROVE  /\ Sound(cpu', frames')
         /\ PULL_LOW_FIRST => [Calls!Next]_(Calls!vars)
<1>1. CASE Next
  <2>1. PICK irq \in BOOLEAN : ExecuteNextInstruction(irq)
    BY <1>1 DEF Next
  <2>2. CASE IrqTaken(cpu, irq)
    BY <2>1, <2>2, InterruptedStep
  <2>3. CASE ~IrqTaken(cpu, irq)
    BY <2>1, <2>3, PlainStep
  <2>. QED BY <2>2, <2>3
<1>2. CASE UNCHANGED vars
  BY <1>2 DEF vars, Calls!vars
<1>. QED BY <1>1, <1>2

-----------------------------------------------------------------------------
(* The theorems.                                                           *)

LEMMA FramesAreSound == Spec => []Sound(cpu, frames)
<1>1. Init => Sound(cpu, frames)
  BY Booted
<1>2. Sound(cpu, frames) /\ [Next]_vars => Sound(cpu, frames)'
  BY SoundStep
<1>. QED BY <1>1, <1>2, PTL DEF Spec

\* Registers hold values of their widths, whatever was pulled or restored, and
\* the stack pointer stays below every frame.
THEOREM FramesTyped == Spec => []FramesTypeOK
<1>1. Sound(cpu, frames) => FramesTypeOK
  <2>. SUFFICES ASSUME Sound(cpu, frames) PROVE FramesTypeOK
    OBVIOUS
  <2>1. cpu \in Processors /\ Stacked(frames, cpu.sp)
    BY DEF Sound
  <2>2. DOMAIN Weight \cup {"e"} = Flags
    BY DEF Weight, Flags
  <2>3. \A i \in DOMAIN frames :
          cpu.sp <= frames[i].sp - Size[frames[i].kind]
    <3>1. DOMAIN frames = 1..Len(frames)
      BY <2>1, LenProperties DEF Stacked
    <3>. QED BY <2>1, <3>1 DEF Stacked, Room
  <2>4. /\ {cpu.A, cpu.X, cpu.Y, cpu.D, cpu.pc, cpu.sp} \subseteq UInt16
        /\ {cpu.DB, cpu.pb} \subseteq UInt8
        /\ cpu.P \subseteq Flags
        /\ cpu.ram \in [StackArea -> UInt8]
    BY <2>1 DEF Processors
  <2>. QED BY <2>2, <2>3, <2>4 DEF FramesTypeOK
<1>. QED BY <1>1, FramesAreSound, PTL

\* The byte that PHP or an interrupt pushes says everything that PLP or RTI in
\* the same mode needs to give the flags back, but for m in emulation mode.
THEOREM StatusIsRestored == Spec => []StatusSurvivesStack
<1>1. Sound(cpu, frames) => StatusSurvivesStack
  <2>. SUFFICES ASSUME Sound(cpu, frames) PROVE StatusSurvivesStack
    OBVIOUS
  <2>1. cpu.P \in SUBSET Flags
    BY Typed DEF Sound
  <2>. QED BY <2>1, StatusRestored DEF StatusSurvivesStack, Emulation
<1>. QED BY <1>1, FramesAreSound, PTL

\* With the order in which common compilers evaluate the two pulls of
\* pull16Bit, every return resumes where its call or interrupt left off, in
\* the bank, and after an interrupt with the flags, of then.
THEOREM CallsReturn ==
  ASSUME PULL_LOW_FIRST
  PROVE  Spec => CallStackSpec
<1>1. Init => Calls!Init
  BY Booted DEF Calls!Init
<1>2. Sound(cpu, frames) /\ [Next]_vars => [Calls!Next]_(Calls!vars)
  BY SoundStep
<1>. QED BY <1>1, <1>2, FramesAreSound, PTL DEF Spec, CallStackSpec, Calls!Spec

=============================================================================
