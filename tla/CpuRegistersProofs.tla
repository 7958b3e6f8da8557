------------------------- MODULE CpuRegistersProofs -------------------------
(***************************************************************************)
(* What CpuRegisters' properties say holds for all operands, masks, stack  *)
(* areas and contents of the stack, and any number of instructions.        *)
(*                                                                         *)
(* IndexFitsEmulation is not inductive alone: that loads, pulls and        *)
(* transfers leave a byte in a narrow index register depends on the types, *)
(* and on an index being a byte already when it is narrow.  The argument   *)
(* is one relation, Moves, between the processor before and after an       *)
(* instruction; each instruction is a load of one register, or leaves the  *)
(* four parts alone that Same names, or has a step of its own.             *)
(***************************************************************************)
EXTENDS CpuRegisters, TLAPS

\* The values of the two unsigned types by their bounds.
LEMMA Bounds ==
  /\ \A i : i \in UInt8 <=> i \in Int /\ 0 <= i /\ i <= 255
  /\ \A i : i \in UInt16 <=> i \in Int /\ 0 <= i /\ i <= 65535
<1>1. UINT8_MAX \in Int /\ UINT16_MAX \in Int
  BY DEF UINT8_MAX, UINT16_MAX
<1>2. \A i : i \in UInt8 <=> i \in Int /\ 0 <= i /\ i <= UINT8_MAX
  BY <1>1 DEF UInt8
<1>3. \A i : i \in UInt16 <=> i \in Int /\ 0 <= i /\ i <= UINT16_MAX
  BY <1>1 DEF UInt16
<1>. QED BY <1>2, <1>3 DEF UINT8_MAX, UINT16_MAX

\* A word is its two bytes.
LEMMA BytesOfWord ==
  ASSUME NEW v \in UInt16
  PROVE  Low(v) \in UInt8 /\ High(v) \in UInt8
BY Bounds DEF Low, High

LEMMA WordOfBytes ==
  ASSUME NEW hi \in UInt8, NEW lo \in UInt8
  PROVE  /\ Word(hi, lo) \in UInt16
         /\ High(Word(hi, lo)) = hi /\ Low(Word(hi, lo)) = lo
BY Bounds DEF Word, High, Low

\* A register is a byte if its high byte is zero.
LEMMA ByteIfHighIsZero ==
  ASSUME NEW v \in UInt16
  PROVE  v < 256 <=> High(v) = 0
BY Bounds DEF High

LEMMA ByteIsWord == UInt8 \subseteq UInt16
BY Bounds

LEMMA WrapType == ASSUME NEW v \in Int PROVE Wrap(v) \in UInt16
BY Bounds DEF Wrap

-----------------------------------------------------------------------------
(* The processor's type, and what an instruction does to it.               *)

Flags == {"c", "z", "i", "d", "b", "x", "m", "v", "n", "e"}
Processors ==
  [A : UInt16, X : UInt16, Y : UInt16, D : UInt16, DB : UInt8,
   P : SUBSET Flags, pb : UInt8, pc : UInt16, sp : UInt16,
   ram : [StackArea -> UInt8], RES : BOOLEAN, RDY : BOOLEAN]

Fits(c) == Emulation(c) => High(c.X) = 0 /\ High(c.Y) = 0

\* The properties' demands on one instruction.
Moves(c, d) ==
  /\ d \in Processors
  /\ Fits(c) => Fits(d)
  /\ A8(c) /\ High(d.A) # High(c.A) =>
       d.A \in {c.D, c.sp, Word(Low(c.A), High(c.A))}
  /\ X8(c) /\ ~Emulation(d) => High(d.X) = High(c.X) /\ High(d.Y) = High(c.Y)

\* Flags after an instruction that leaves modes and widths alone.
Updated(Q, R) == /\ R \in SUBSET Flags
                 /\ \A f \in {"e", "m", "x"} : f \in R <=> f \in Q

\* Only the stack, D, DB, the program address or other flags differ.
Same(c, d) ==
  /\ d \in Processors
  /\ d.A = c.A /\ d.X = c.X /\ d.Y = c.Y /\ Updated(c.P, d.P)

LEMMA SameMoves ==
  ASSUME NEW c \in Processors, NEW d, Same(c, d)
  PROVE  Moves(c, d)
BY DEF Same, Moves, Fits, Emulation, Updated

LEMMA SameAfter ==
  ASSUME NEW c \in Processors, NEW d, NEW e, Moves(c, d), Same(d, e)
  PROVE  Moves(c, e)
BY DEF Same, Moves, Fits, Emulation, Updated

LEMMA SameTransitive ==
  ASSUME NEW c, NEW d, NEW e, Same(c, d), Same(d, e)
  PROVE  Same(c, e)
BY DEF Same, Updated

LEMMA Advanced ==
  ASSUME NEW c \in Processors, NEW n \in Int
  PROVE  Same(c, Advance(c, n))
<1>1. c.pc \in Int
  BY Bounds DEF Processors
<1>2. Wrap(c.pc + n) \in UInt16
  BY <1>1, WrapType
<1>. QED BY <1>2 DEF Same, Updated, Advance, Processors

LEMMA MovesOn ==
  ASSUME NEW c \in Processors, NEW d, Moves(c, d), NEW n \in Int
  PROVE  Moves(c, Advance(d, n))
<1>1. d \in Processors
  BY DEF Moves
<1>. QED BY <1>1, Advanced, SameAfter

LEMMA SameOn ==
  ASSUME NEW c \in Processors, NEW d, Same(c, d), NEW n \in Int
  PROVE  Moves(c, Advance(d, n))
BY SameMoves, MovesOn

-----------------------------------------------------------------------------
(* The stack.                                                              *)

LEMMA Pushed8 ==
  ASSUME NEW c \in Processors, NEW v \in UInt8
  PROVE  Same(c, Push8(c, v))
<1>1. c.sp \in Int
  BY Bounds DEF Processors
<1>2. Wrap(c.sp - 1) \in UInt16
  BY <1>1, WrapType
<1>3. ASSUME NEW f \in [StackArea -> UInt8], NEW s
      PROVE  [f EXCEPT ![s] = v] \in [StackArea -> UInt8]
  OBVIOUS
<1>. QED BY <1>2, <1>3 DEF Same, Updated, Push8, Processors

LEMMA Pushed16 ==
  ASSUME NEW c \in Processors, NEW v \in UInt16
  PROVE  Same(c, Push16(c, v))
<1>1. Same(c, Push8(c, High(v)))
  BY BytesOfWord, Pushed8
<1>2. Push8(c, High(v)) \in Processors
  BY <1>1 DEF Same
<1>3. Same(Push8(c, High(v)), Push8(Push8(c, High(v)), Low(v)))
  BY <1>2, BytesOfWord, Pushed8
<1>. QED BY <1>1, <1>3, SameTransitive DEF Push16

LEMMA Peeked ==
  ASSUME NEW c \in Processors, NEW n \in Int
  PROVE  Peek(c, n) \in UInt8
<1>1. c.ram \in [StackArea -> UInt8]
  BY DEF Processors
<1>2. 0 \in UInt8
  BY Bounds
<1>. QED BY <1>1, <1>2 DEF Peek

LEMMA Peeked16 ==
  ASSUME NEW c \in Processors
  PROVE  Peek16(c, 1) \in UInt16
<1>1. Peek(c, 1) \in UInt8 /\ Peek(c, 1 + 1) \in UInt8
  BY Peeked
<1>. QED BY <1>1, WordOfBytes DEF Peek16

LEMMA Dropped ==
  ASSUME NEW c \in Processors, NEW n \in Int
  PROVE  Same(c, Drop(c, n))
<1>1. c.sp \in Int
  BY Bounds DEF Processors
<1>2. Wrap(c.sp + n) \in UInt16
  BY <1>1, WrapType
<1>. QED BY <1>2 DEF Same, Updated, Drop, Processors

-----------------------------------------------------------------------------
(* The flags.                                                              *)

LEMMA SignZeroType ==
  ASSUME NEW Q \in SUBSET Flags, NEW v, NEW W
  PROVE  /\ SignZero(Q, v, W) \in SUBSET Flags
         /\ \A f \in {"e", "m", "x"} : f \in SignZero(Q, v, W) <=> f \in Q
BY DEF SignZero, Put, Flags

LEMMA Updates ==
  ASSUME NEW Q \in SUBSET Flags, NEW v
  PROVE  Updated(Q, Update8(Q, v)) /\ Updated(Q, Update16(Q, v))
BY SignZeroType DEF Updated, Update8, Update16

LEMMA StatusByte == \A bits : ByteOf(bits) \in UInt8
BY Bounds DEF ByteOf

LEMMA RegisterBitsType ==
  ASSUME NEW Q \in SUBSET Flags, NEW bits
  PROVE  /\ SetRegisterBits(Q, bits) \in SUBSET Flags
         /\ "e" \in SetRegisterBits(Q, bits) <=> "e" \in Q
BY DEF SetRegisterBits, Carried, Flags

-----------------------------------------------------------------------------
(* Loads: d is c, or c after its stack pointer moved.                      *)

LEMMA LoadedA ==
  ASSUME NEW c \in Processors, NEW d, Same(c, d), NEW v \in UInt16
  PROVE  Moves(c, LoadReg(d, "A", A8(c), v))
<1> DEFINE Q8  == Update8(d.P, Low(v))
           Q16 == Update16(d.P, v)
           new == Word(High(d.A), Low(v))
<1>1. /\ d \in Processors /\ d.P \in SUBSET Flags /\ d.A \in UInt16
      /\ d.A = c.A /\ d.X = c.X /\ d.Y = c.Y /\ Updated(c.P, d.P)
  BY DEF Same, Processors
<1>2. Updated(d.P, Q8) /\ Updated(d.P, Q16)
  BY <1>1, Updates
<1>3. new \in UInt16 /\ High(new) = High(c.A)
  BY <1>1, BytesOfWord, WordOfBytes
<1>. HIDE DEF Q8, Q16, new
<1>4. CASE A8(c)
  <2>1. LoadReg(d, "A", A8(c), v) = [d EXCEPT !.A = new, !.P = Q8]
    BY <1>4 DEF LoadReg, new, Q8
  <2>. QED BY <2>1, <1>1, <1>2, <1>3
       DEF Moves, Fits, Emulation, Updated, Processors
<1>5. CASE ~A8(c)
  <2>1. LoadReg(d, "A", A8(c), v) = [d EXCEPT !.A = v, !.P = Q16]
    BY <1>5 DEF LoadReg, Q16
  <2>. QED BY <2>1, <1>1, <1>2, <1>5
       DEF Moves, Fits, Emulation, Updated, Processors
<1>. QED BY <1>4, <1>5

LEMMA LoadedX ==
  ASSUME NEW c \in Processors, NEW d, Same(c, d), NEW v \in UInt16
  PROVE  Moves(c, LoadReg(d, "X", X8(c), v))
<1> DEFINE Q8  == Update8(d.P, Low(v))
           Q16 == Update16(d.P, v)
           new == Word(High(d.X), Low(v))
<1>1. /\ d \in Processors /\ d.P \in SUBSET Flags /\ d.X \in UInt16
      /\ d.A = c.A /\ d.X = c.X /\ d.Y = c.Y /\ Updated(c.P, d.P)
  BY DEF Same, Processors
<1>2. Updated(d.P, Q8) /\ Updated(d.P, Q16)
  BY <1>1, Updates
<1>3. new \in UInt16 /\ High(new) = High(c.X)
  BY <1>1, BytesOfWord, WordOfBytes
<1>. HIDE DEF Q8, Q16, new
<1>4. CASE X8(c)
  <2>1. LoadReg(d, "X", X8(c), v) = [d EXCEPT !.X = new, !.P = Q8]
    BY <1>4 DEF LoadReg, new, Q8
  <2>. QED BY <2>1, <1>1, <1>2, <1>3
       DEF Moves, Fits, Emulation, Updated, Processors
<1>5. CASE ~X8(c)
  <2>1. LoadReg(d, "X", X8(c), v) = [d EXCEPT !.X = v, !.P = Q16]
    BY <1>5 DEF LoadReg, Q16
  <2>. QED BY <2>1, <1>1, <1>2, <1>5
       DEF Moves, Fits, Emulation, X8, Updated, Processors
<1>. QED BY <1>4, <1>5

LEMMA LoadedY ==
  ASSUME NEW c \in Processors, NEW d, Same(c, d), NEW v \in UInt16
  PROVE  Moves(c, LoadReg(d, "Y", X8(c), v))
<1> DEFINE Q8  == Update8(d.P, Low(v))
           Q16 == Update16(d.P, v)
           new == Word(High(d.Y), Low(v))
<1>1. /\ d \in Processors /\ d.P \in SUBSET Flags /\ d.Y \in UInt16
      /\ d.A = c.A /\ d.X = c.X /\ d.Y = c.Y /\ Updated(c.P, d.P)
  BY DEF Same, Processors
<1>2. Updated(d.P, Q8) /\ Updated(d.P, Q16)
  BY <1>1, Updates
<1>3. new \in UInt16 /\ High(new) = High(c.Y)
  BY <1>1, BytesOfWord, WordOfBytes
<1>. HIDE DEF Q8, Q16, new
<1>4. CASE X8(c)
  <2>1. LoadReg(d, "Y", X8(c), v) = [d EXCEPT !.Y = new, !.P = Q8]
    BY <1>4 DEF LoadReg, new, Q8
  <2>. QED BY <2>1, <1>1, <1>2, <1>3
       DEF Moves, Fits, Emulation, Updated, Processors
<1>5. CASE ~X8(c)
  <2>1. LoadReg(d, "Y", X8(c), v) = [d EXCEPT !.Y = v, !.P = Q16]
    BY <1>5 DEF LoadReg, Q16
  <2>. QED BY <2>1, <1>1, <1>2, <1>5
       DEF Moves, Fits, Emulation, X8, Updated, Processors
<1>. QED BY <1>4, <1>5

-----------------------------------------------------------------------------
(* The instructions, one lemma for each group of Next.                     *)

LEMMA SelfSame == ASSUME NEW c \in Processors PROVE Same(c, c)
BY DEF Same, Updated, Processors

\* What the instructions read of a processor.
LEMMA Read ==
  ASSUME NEW c \in Processors
  PROVE  /\ {c.A, c.X, c.Y, c.D, c.sp} \subseteq UInt16
         /\ {Low(c.A), Low(c.X), Low(c.Y)} \subseteq UInt16
         /\ {Low(c.A), Low(c.X), Low(c.Y), High(c.A), c.DB} \subseteq UInt8
         /\ {c.A, c.X, c.Y, c.pc} \subseteq Int /\ c.P \in SUBSET Flags
<1>1. /\ {c.A, c.X, c.Y, c.D, c.sp, c.pc} \subseteq UInt16
      /\ c.DB \in UInt8 /\ c.P \in SUBSET Flags
  BY DEF Processors
<1>2. {Low(c.A), Low(c.X), Low(c.Y), High(c.A)} \subseteq UInt8
  BY <1>1, BytesOfWord
<1>3. UInt16 \subseteq Int
  BY Bounds
<1>. QED BY <1>1, <1>2, <1>3, ByteIsWord

LEMMA LoadMoves ==
  ASSUME NEW c \in Processors, NEW v \in UInt16
  PROVE  Moves(c, LDA(c, v)) /\ Moves(c, LDX(c, v)) /\ Moves(c, LDY(c, v))
<1>1. /\ Moves(c, LoadReg(c, "A", A8(c), v))
      /\ Moves(c, LoadReg(c, "X", X8(c), v))
      /\ Moves(c, LoadReg(c, "Y", X8(c), v))
  BY SelfSame, LoadedA, LoadedX, LoadedY
<1>. QED BY <1>1, MovesOn DEF LDA, LDX, LDY

LEMMA CountMoves ==
  ASSUME NEW c \in Processors, NEW by \in {1, -1}
  PROVE  /\ Moves(c, INCDEC_A(c, by))
         /\ Moves(c, INCDEC_X(c, by)) /\ Moves(c, INCDEC_Y(c, by))
<1>1. Wrap(c.A + by) \in UInt16
  BY Read, WrapType
<1>2. Wrap(c.X + by) \in UInt16
  BY Read, WrapType
<1>3. Wrap(c.Y + by) \in UInt16
  BY Read, WrapType
<1>4. /\ Moves(c, LoadReg(c, "A", A8(c), Wrap(c.A + by)))
      /\ Moves(c, LoadReg(c, "X", X8(c), Wrap(c.X + by)))
      /\ Moves(c, LoadReg(c, "Y", X8(c), Wrap(c.Y + by)))
  BY <1>1, <1>2, <1>3, SelfSame, LoadedA, LoadedX, LoadedY
<1>. QED BY <1>4, MovesOn DEF INCDEC_A, INCDEC_X, INCDEC_Y, Step

LEMMA TransferMoves ==
  ASSUME NEW c \in Processors
  PROVE  /\ Moves(c, TAX(c)) /\ Moves(c, TAY(c)) /\ Moves(c, TXY(c))
         /\ Moves(c, TYX(c)) /\ Moves(c, TSX(c))
<1>1. {c.A, c.X, c.Y, c.sp} \subseteq UInt16
  BY Read
<1>2. /\ Moves(c, LoadReg(c, "X", X8(c), c.A))
      /\ Moves(c, LoadReg(c, "Y", X8(c), c.A))
      /\ Moves(c, LoadReg(c, "Y", X8(c), c.X))
      /\ Moves(c, LoadReg(c, "X", X8(c), c.Y))
      /\ Moves(c, LoadReg(c, "X", X8(c), c.sp))
  BY <1>1, SelfSame, LoadedX, LoadedY
<1>. QED BY <1>2, MovesOn DEF TAX, TAY, TXY, TYX, TSX

\* Registers put whole into the accumulator, with flags Q.
LEMMA WholeA ==
  ASSUME NEW c \in Processors, NEW v \in UInt16, NEW Q, Updated(c.P, Q),
         A8(c) => High(v) = High(c.A) \/
                  v \in {c.D, c.sp, Word(Low(c.A), High(c.A))}
  PROVE  Moves(c, [c EXCEPT !.A = v, !.P = Q])
BY DEF Moves, Fits, Emulation, Updated, Processors

LEMMA IndexToAMoves ==
  ASSUME NEW c \in Processors
  PROVE  Moves(c, TXA(c)) /\ Moves(c, TYA(c))
<1>1. ASSUME NEW v \in UInt16
      PROVE  Moves(c, IndexToA(c, v))
  <2>1. Moves(c, LoadReg(c, "A", A8(c), v))
    BY SelfSame, LoadedA
  <2>2. ASSUME ~A8(c)
        PROVE  Moves(c, [c EXCEPT !.A = Low(v), !.P = Update8(@, Low(v))])
    <3>1. Low(v) \in UInt16
      BY BytesOfWord, ByteIsWord
    <3>2. Updated(c.P, Update8(c.P, Low(v)))
      BY Read, Updates
    <3>. QED BY <2>2, <3>1, <3>2, WholeA
  <2>. QED BY <2>1, <2>2, MovesOn DEF IndexToA
<1>. QED BY <1>1, Read DEF TXA, TYA

LEMMA WholeMoves ==
  ASSUME NEW c \in Processors
  PROVE  Moves(c, TDC(c)) /\ Moves(c, TSC(c)) /\ Moves(c, XBA(c))
<1>1. ASSUME NEW v \in {c.D, c.sp}
      PROVE  Moves(c, Advance(LoadReg(c, "A", FALSE, v), 1))
  <2>1. v \in UInt16
    BY Read
  <2>2. Updated(c.P, Update16(c.P, v))
    BY Read, Updates
  <2>3. Moves(c, [c EXCEPT !.A = v, !.P = Update16(c.P, v)])
    BY <2>1, <2>2, WholeA
  <2>4. Moves(c, Advance([c EXCEPT !.A = v, !.P = Update16(c.P, v)], 1))
    BY <2>3, MovesOn
  <2>. QED BY <2>4 DEF LoadReg
<1>2. Moves(c, XBA(c))
  <2>1. Word(Low(c.A), High(c.A)) \in UInt16
    BY Read, WordOfBytes
  <2>2. Updated(c.P, Update8(c.P, High(c.A)))
    BY Read, Updates
  <2>3. Moves(c, [c EXCEPT !.A = Word(Low(c.A), High(c.A)),
                           !.P = Update8(c.P, High(c.A))])
    BY <2>1, <2>2, WholeA
  <2>. QED BY <2>3, MovesOn DEF XBA
<1>. QED BY <1>1, <1>2 DEF TDC, TSC

LEMMA PointerMoves ==
  ASSUME NEW c \in Processors
  PROVE  Moves(c, TCD(c)) /\ Moves(c, TCS(c)) /\ Moves(c, TXS(c))
<1>1. Same(c, [c EXCEPT !.D = c.A, !.P = Update16(c.P, c.A)])
  <2>1. Updated(c.P, Update16(c.P, c.A))
    BY Read, Updates
  <2>. QED BY <2>1 DEF Same, Updated, Processors
<1>2. ASSUME NEW v \in UInt16
      PROVE  Same(c, [c EXCEPT !.sp = v])
  BY DEF Same, Updated, Processors
<1>3. Word(High(c.sp), Low(c.A)) \in UInt16
  BY Read, BytesOfWord, WordOfBytes
<1>4. SetEmulation(c.X) \in UInt16
  <2>1. 1 \in UInt8
    BY Bounds
  <2>. QED BY <2>1, Read, WordOfBytes DEF SetEmulation
<1>5. Moves(c, TCD(c))
  BY <1>1, SameOn DEF TCD
<1>6. Moves(c, TCS(c))
  <2> DEFINE v == IF Emulation(c) THEN Word(High(c.sp), Low(c.A)) ELSE c.A
  <2>1. v \in UInt16
    BY <1>3, Read
  <2>. HIDE DEF v
  <2>2. Same(c, [c EXCEPT !.sp = v])
    BY <1>2, <2>1
  <2>. QED BY <2>2, SameOn DEF TCS, v
<1>7. Moves(c, TXS(c))
  <2> DEFINE v == IF Emulation(c) THEN SetEmulation(c.X)
                  ELSE IF X8(c) THEN Low(c.X) ELSE c.X
  <2>1. v \in UInt16
    BY <1>4, Read
  <2>. HIDE DEF v
  <2>2. Same(c, [c EXCEPT !.sp = v])
    BY <1>2, <2>1
  <2>. QED BY <2>2, SameOn DEF TXS, v
<1>. QED BY <1>5, <1>6, <1>7

LEMMA PushMoves ==
  ASSUME NEW c \in Processors
  PROVE  /\ \A v \in UInt16 : /\ Moves(c, PEA(c, v)) /\ Moves(c, PEI(c, v))
                              /\ Moves(c, PER(c, Wrap(v - 3)))
         /\ Moves(c, PHA(c)) /\ Moves(c, PHX(c)) /\ Moves(c, PHY(c))
         /\ Moves(c, PHB(c)) /\ Moves(c, PHD(c)) /\ Moves(c, PHP(c))
<1>1. ASSUME NEW v \in UInt16
      PROVE  /\ Moves(c, PEA(c, v)) /\ Moves(c, PEI(c, v))
             /\ Moves(c, PER(c, Wrap(v - 3)))
  <2>1. Same(c, Push16(c, v))
    BY Pushed16
  <2>2. v - 3 \in Int
    BY Bounds
  <2>3. Wrap(v - 3) \in Int
    BY <2>2, WrapType, Bounds
  <2>4. Wrap(Wrap(v - 3) + 3 + c.pc) \in UInt16
    BY <2>3, Read, WrapType
  <2>5. Same(c, Push16(c, Wrap(Wrap(v - 3) + 3 + c.pc)))
    BY <2>4, Pushed16
  <2>. QED BY <2>1, <2>5, SameOn DEF PEA, PEI, PER
<1>2. /\ Same(c, Push8(c, Low(c.A))) /\ Same(c, Push16(c, c.A))
      /\ Same(c, Push8(c, Low(c.X))) /\ Same(c, Push16(c, c.X))
      /\ Same(c, Push8(c, Low(c.Y))) /\ Same(c, Push16(c, c.Y))
      /\ Same(c, Push8(c, c.DB)) /\ Same(c, Push16(c, c.D))
  BY Read, Pushed8, Pushed16
<1>3. Moves(c, PHA(c))
  BY <1>2, SameOn DEF PHA
<1>4. Moves(c, PHX(c))
  BY <1>2, SameOn DEF PHX
<1>5. Moves(c, PHY(c))
  BY <1>2, SameOn DEF PHY
<1>6. Moves(c, PHB(c)) /\ Moves(c, PHD(c))
  BY <1>2, SameOn DEF PHB, PHD
<1>7. Moves(c, PHP(c))
  <2>1. GetRegisterValue(c.P) \in UInt8
    BY StatusByte DEF GetRegisterValue, StatusBits
  <2>2. Same(c, Push8(c, GetRegisterValue(c.P)))
    BY <2>1, Pushed8
  <2>. QED BY <2>2, SameOn DEF PHP
<1>. QED BY <1>1, <1>3, <1>4, <1>5, <1>6, <1>7

\* A pulled register is a load into the processor whose stack was dropped.
LEMMA PullRegMoves ==
  ASSUME NEW c \in Processors
  PROVE  Moves(c, PLA(c)) /\ Moves(c, PLX(c)) /\ Moves(c, PLY(c))
<1>1. ASSUME NEW narrow \in BOOLEAN
      PROVE  /\ Same(c, Drop(c, IF narrow THEN 1 ELSE 2))
             /\ (IF narrow THEN Peek(c, 1) ELSE Peek16(c, 1)) \in UInt16
  <2>1. Same(c, Drop(c, 1)) /\ Same(c, Drop(c, 2))
    BY Dropped
  <2>2. Peek(c, 1) \in UInt16 /\ Peek16(c, 1) \in UInt16
    BY Peeked, Peeked16, ByteIsWord
  <2>. QED BY <2>1, <2>2
<1>2. A8(c) \in BOOLEAN /\ X8(c) \in BOOLEAN
  BY DEF A8, X8, Emulation
<1>3. Moves(c, PLA(c))
  <2> DEFINE d == Drop(c, IF A8(c) THEN 1 ELSE 2)
             v == IF A8(c) THEN Peek(c, 1) ELSE Peek16(c, 1)
  <2>1. Same(c, d) /\ v \in UInt16
    BY <1>1, <1>2
  <2>. HIDE DEF d, v
  <2>2. Moves(c, LoadReg(d, "A", A8(c), v))
    BY <2>1, LoadedA
  <2>. QED BY <2>2, MovesOn DEF PLA, PullReg, d, v
<1>4. Moves(c, PLX(c)) /\ Moves(c, PLY(c))
  <2> DEFINE d == Drop(c, IF X8(c) THEN 1 ELSE 2)
             v == IF X8(c) THEN Peek(c, 1) ELSE Peek16(c, 1)
  <2>1. Same(c, d) /\ v \in UInt16
    BY <1>1, <1>2
  <2>. HIDE DEF d, v
  <2>2. /\ Moves(c, LoadReg(d, "X", X8(c), v))
        /\ Moves(c, LoadReg(d, "Y", X8(c), v))
    BY <2>1, LoadedX, LoadedY
  <2>. QED BY <2>2, MovesOn DEF PLX, PLY, PullReg, d, v
<1>. QED BY <1>3, <1>4

LEMMA PullMoves ==
  ASSUME NEW c \in Processors
  PROVE  Moves(c, PLB(c)) /\ Moves(c, PLD(c))
<1>1. Same(c, Drop(c, 1)) /\ Same(c, Drop(c, 2))
  BY Dropped
<1>2. Peek(c, 1) \in UInt8 /\ Peek16(c, 1) \in UInt16
  BY Peeked, Peeked16
<1>3. ASSUME NEW d, Same(c, d), NEW v \in UInt8
      PROVE  Same(c, [d EXCEPT !.DB = v, !.P = Update8(d.P, v)])
  <2>1. d.P \in SUBSET Flags
    BY <1>3 DEF Same, Updated
  <2>2. Updated(d.P, Update8(d.P, v))
    BY <2>1, Updates
  <2>. QED BY <1>3, <2>2 DEF Same, Updated, Processors
<1>4. ASSUME NEW d, Same(c, d), NEW v \in UInt16
      PROVE  Same(c, [d EXCEPT !.D = v, !.P = Update16(d.P, v)])
  <2>1. d.P \in SUBSET Flags
    BY <1>4 DEF Same, Updated
  <2>2. Updated(d.P, Update16(d.P, v))
    BY <2>1, Updates
  <2>. QED BY <1>4, <2>2 DEF Same, Updated, Processors
<1>5. Moves(c, PLB(c))
  <2> DEFINE d == Drop(c, 1)
             v == Peek(c, 1)
  <2>1. Same(c, d) /\ v \in UInt8
    BY <1>1, <1>2
  <2>. HIDE DEF d, v
  <2>2. Same(c, [d EXCEPT !.DB = v, !.P = Update8(d.P, v)])
    BY <1>3, <2>1
  <2>. QED BY <2>2, SameOn DEF PLB, d, v
<1>6. Moves(c, PLD(c))
  <2> DEFINE d == Drop(c, 2)
             v == Peek16(c, 1)
  <2>1. Same(c, d) /\ v \in UInt16
    BY <1>1, <1>2
  <2>. HIDE DEF d, v
  <2>2. Same(c, [d EXCEPT !.D = v, !.P = Update16(d.P, v)])
    BY <1>4, <2>1
  <2>. QED BY <2>2, SameOn DEF PLD, d, v
<1>. QED BY <1>5, <1>6

\* PLP may change both widths, whatever byte lies on the stack, but not the
\* mode.
LEMMA PullStatusMoves ==
  ASSUME NEW c \in Processors
  PROVE  Moves(c, PLP(c))
<1> DEFINE d == Drop(c, 1)
           Q == SetRegisterValue(d.P, Peek(c, 1))
<1>1. Same(c, d)
  BY Dropped
<1>2. d.P \in SUBSET Flags /\ d.P = c.P
  BY <1>1, Read DEF Same, Updated, Drop
<1>3. Q \in SUBSET Flags /\ ("e" \in Q <=> "e" \in c.P)
  BY <1>2, RegisterBitsType DEF SetRegisterValue
<1>4. PLP(c) = Advance([d EXCEPT !.P = Q], 1)
  BY DEF PLP
<1>. HIDE DEF d, Q
<1>5. Moves(c, [d EXCEPT !.P = Q])
  BY <1>1, <1>3 DEF Moves, Same, Fits, Emulation, Processors
<1>. QED BY <1>4, <1>5, MovesOn

\* REP and SEP may change a width, but not the mode.
LEMMA MaskMoves ==
  ASSUME NEW c \in Processors, NEW byte
  PROVE  Moves(c, REP(c, byte)) /\ Moves(c, SEP(c, byte))
<1>1. ASSUME NEW bits
      PROVE  Moves(c, [c EXCEPT !.P = SetRegisterBits(c.P, bits)])
  <2> DEFINE Q == SetRegisterBits(c.P, bits)
  <2>1. Q \in SUBSET Flags /\ ("e" \in Q <=> "e" \in c.P)
    BY Read, RegisterBitsType
  <2>. HIDE DEF Q
  <2>2. Moves(c, [c EXCEPT !.P = Q])
    BY <2>1 DEF Moves, Fits, Emulation, Processors
  <2>. QED BY <2>2 DEF Q
<1>2. Moves(c, REP(c, byte))
  BY <1>1, MovesOn DEF REP
<1>3. Moves(c, SEP(c, byte))
  <2> DEFINE bits == StatusBits(c.P) \cup
               (IF Emulation(c) THEN Bits(byte) \ {16, 32} ELSE Bits(byte))
  <2>1. Moves(c, [c EXCEPT !.P = SetRegisterBits(c.P, bits)])
    BY <1>1
  <2>. HIDE DEF bits
  <2>2. Moves(c, Advance([c EXCEPT !.P = SetRegisterBits(c.P, bits)], 2))
    BY <2>1, MovesOn
  <2>. QED BY <2>2 DEF SEP, bits
<1>. QED BY <1>2, <1>3

LEMMA CarryMoves ==
  ASSUME NEW c \in Processors
  PROVE  Moves(c, SetFlag(c, "c")) /\ Moves(c, ClearFlag(c, "c"))
<1>1. /\ Updated(c.P, c.P \cup {"c"}) /\ Updated(c.P, c.P \ {"c"})
  BY Read DEF Updated, Flags
<1>2. ASSUME NEW Q, Updated(c.P, Q)
      PROVE  Same(c, [c EXCEPT !.P = Q])
  BY <1>2 DEF Same, Updated, Processors
<1>3. /\ Same(c, [c EXCEPT !.P = c.P \cup {"c"}])
      /\ Same(c, [c EXCEPT !.P = c.P \ {"c"}])
  BY <1>1, <1>2
<1>. QED BY <1>3, SameOn DEF SetFlag, ClearFlag

\* XCE: what the index registers held in native mode plays no part, since
\* their high bytes are cleared on the way into emulation mode.
LEMMA ExchangeMoves ==
  ASSUME NEW c \in Processors
  PROVE  Moves(c, XCE(c))
<1> DEFINE Q == (c.P \ {"c", "e"}) \cup (IF "c" \in c.P THEN {"e"} ELSE {})
                                   \cup (IF Emulation(c) THEN {"c"} ELSE {})
           R == Q \cup {"m", "x"}
           x == Low(c.X)
           y == Low(c.Y)
           sp == SetEmulation(c.sp)
<1>1. Q \in SUBSET Flags /\ R \in SUBSET Flags
  BY Read DEF Flags
<1>2. x \in UInt16 /\ y \in UInt16 /\ High(x) = 0 /\ High(y) = 0
  BY Read, ByteIfHighIsZero, Bounds
<1>3. sp \in UInt16
  <2>1. 1 \in UInt8 /\ Low(c.sp) \in UInt8
    BY Bounds, Read, BytesOfWord
  <2>. QED BY <2>1, WordOfBytes DEF SetEmulation
<1>4. XCE(c) = Advance(IF "e" \in Q
                       THEN [c EXCEPT !.P = R, !.X = x, !.Y = y, !.sp = sp]
                       ELSE [c EXCEPT !.P = Q], 1)
  BY DEF XCE
<1>5. "e" \in Q => "e" \in R
  OBVIOUS
<1>. HIDE DEF Q, R, x, y, sp
<1>6. "e" \in Q => Moves(c, [c EXCEPT !.P = R, !.X = x, !.Y = y, !.sp = sp])
  BY <1>1, <1>2, <1>3, <1>5 DEF Moves, Fits, Emulation, Processors
<1>7. "e" \notin Q => Moves(c, [c EXCEPT !.P = Q])
  BY <1>1 DEF Moves, Fits, Emulation, Processors
<1>. QED BY <1>4, <1>6, <1>7, MovesOn

LEMMA StopMoves ==
  ASSUME NEW c \in Processors
  PROVE  Moves(c, STP(c))
<1>1. Same(c, Advance(c, 1))
  BY Advanced
<1>2. Same(Advance(c, 1), STP(c))
  BY <1>1 DEF STP, Same, Updated, Processors
<1>. QED BY <1>1, <1>2, SameMoves, SameAfter

-----------------------------------------------------------------------------
(* Every step, and the theorems.                                           *)

LEMMA DoMoves ==
  ASSUME cpu \in Processors, NEW next, Moves(cpu, next), Do(next)
  PROVE  Moves(cpu, cpu')
<1>1. next \in Processors
  BY DEF Moves
<1>2. cpu' = [next EXCEPT !.pc = 0]
  BY DEF Do
<1>3. 0 \in UInt16
  BY Bounds
<1>4. Same(next, cpu')
  BY <1>1, <1>2, <1>3 DEF Same, Updated, Processors
<1>. QED BY <1>4, SameAfter

LEMMA NextMoves ==
  ASSUME cpu \in Processors, Next
  PROVE  Moves(cpu, cpu')
<1>0. /\ Words \subseteq UInt16
      /\ \A d : Moves(cpu, d) /\ Do(d) => Moves(cpu, cpu')
  BY DoMoves, CpuRegistersAssumption
<1>1. CASE Load
  BY <1>0, <1>1, LoadMoves DEF Load
<1>2. CASE Count
  BY <1>0, <1>2, CountMoves DEF Count
<1>3. CASE Transfer
  BY <1>0, <1>3, TransferMoves, IndexToAMoves, WholeMoves, PointerMoves
     DEF Transfer
<1>4. CASE Push
  BY <1>0, <1>4, PushMoves DEF Push
<1>5. CASE Pull
  BY <1>0, <1>5, PullRegMoves, PullMoves, PullStatusMoves DEF Pull
<1>6. CASE Mode
  BY <1>0, <1>6, MaskMoves, CarryMoves, ExchangeMoves DEF Mode
<1>7. CASE Do(STP(cpu))
  BY <1>0, <1>7, StopMoves
<1>8. CASE Stopped
  BY <1>8, SelfSame, SameMoves DEF Stopped
<1>. QED BY <1>1, <1>2, <1>3, <1>4, <1>5, <1>6, <1>7, <1>8 DEF Next

\* The inductive invariant.
Inv == cpu \in Processors /\ Fits(cpu)

LEMMA InitInv == Init => Inv
<1>1. SUFFICES ASSUME NEW low \in StackLows, cpu = Reset(PowerOn, low)
               PROVE  Inv
  BY DEF Init
<1>2. 0 \in UInt8 /\ 0 \in UInt16 /\ 1 \in UInt8 /\ Low(0) = 0
  BY Bounds DEF Low
<1>3. low \in UInt16
  BY CpuRegistersAssumption, ByteIsWord
<1>4. SetEmulation(low) \in UInt16
  BY <1>2, <1>3, BytesOfWord, WordOfBytes DEF SetEmulation
<1>5. Vector["ERES"] \in UInt16
  BY CpuAssumption
<1>6. cpu = [A |-> 0, X |-> 0, Y |-> 0, D |-> 0, DB |-> 0,
             P |-> {"e"} \cup {"e", "m", "x"}, pb |-> 0,
             pc |-> Vector["ERES"], sp |-> SetEmulation(low),
             ram |-> [at \in StackArea |-> 0], RES |-> FALSE, RDY |-> FALSE]
  BY <1>1, <1>2 DEF Reset, PowerOn
<1>7. [at \in StackArea |-> 0] \in [StackArea -> UInt8]
  BY <1>2
<1>8. {"e"} \cup {"e", "m", "x"} \in SUBSET Flags
  BY DEF Flags
<1>9. cpu \in Processors
  BY <1>2, <1>4, <1>5, <1>6, <1>7, <1>8 DEF Processors
<1>10. High(cpu.X) = 0 /\ High(cpu.Y) = 0
  BY <1>6, <1>2, ByteIfHighIsZero
<1>. QED BY <1>9, <1>10 DEF Inv, Fits

LEMMA NextInv == Inv /\ [Next]_cpu => Inv'
<1>1. ASSUME Inv, Next
      PROVE  Inv'
  <2>1. Moves(cpu, cpu')
    BY <1>1, NextMoves DEF Inv
  <2>. QED BY <1>1, <2>1 DEF Inv, Moves, Fits, Emulation
<1>2. ASSUME Inv, UNCHANGED cpu
      PROVE  Inv'
  BY <1>2 DEF Inv, Fits, Emulation
<1>. QED BY <1>1, <1>2

LEMMA InvHolds == Spec => []Inv
BY InitInv, NextInv, PTL DEF Spec

\* Through any sequence of instructions, whatever their operands and however
\* large the stack, registers keep their widths (Cpu65816.hpp:78).
THEOREM RegistersTypeCorrect == Spec => []RegistersTypeOK
<1>1. Inv => RegistersTypeOK
  <2>1. DOMAIN Weight = {"c", "z", "i", "d", "b", "x", "m", "v", "n"}
    BY DEF Weight
  <2>. QED BY <2>1 DEF Inv, RegistersTypeOK, Processors, Flags
<1>. QED BY <1>1, InvHolds, PTL

\* Emulation mode always finds the index registers bytes
\* (OpCode_StatusReg.cpp:107).
THEOREM IndexesFitEmulation == Spec => []IndexFitsEmulation
<1>1. Inv => IndexFitsEmulation
  <2>1. ASSUME cpu \in Processors
        PROVE  cpu.X \in UInt16 /\ cpu.Y \in UInt16
    BY <2>1 DEF Processors
  <2>. QED BY <2>1, ByteIfHighIsZero DEF Inv, Fits, IndexFitsEmulation
<1>. QED BY <1>1, InvHolds, PTL

\* No instruction disturbs the hidden half of a narrow register, but those
\* that HiddenByteKept names (Binary.cpp:52).
THEOREM HiddenBytesKept == Spec => HiddenByteKept
<1> DEFINE Kept ==
      /\ A8(cpu) /\ High(cpu'.A) # High(cpu.A) =>
           cpu'.A \in {cpu.D, cpu.sp, Word(Low(cpu.A), High(cpu.A))}
      /\ X8(cpu) /\ ~Emulation(cpu') =>
           High(cpu'.X) = High(cpu.X) /\ High(cpu'.Y) = High(cpu.Y)
<1>1. Inv /\ [Next]_cpu => [Kept]_cpu
  <2>1. ASSUME Inv, Next
        PROVE  Kept
    <3>1. Moves(cpu, cpu')
      BY <2>1, NextMoves DEF Inv
    <3>2. Emulation(cpu)' = Emulation(cpu')
      BY DEF Emulation
    <3>. QED BY <3>1, <3>2 DEF Moves
  <2>. QED BY <2>1
<1>. QED BY <1>1, InvHolds, PTL DEF Spec, HiddenByteKept
=============================================================================
