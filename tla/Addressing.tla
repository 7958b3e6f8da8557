----------------------------- MODULE Addressing -----------------------------
(***************************************************************************)
(* The addressing modes (Addressing.cpp, OpCodeTable.cpp), the             *)
(* instructions that use them to load, store, count in memory, jump and    *)
(* branch, the block moves, and what Cpu65816Debugger's trace reads of an  *)
(* instruction before the processor executes it.                           *)
(*                                                                         *)
(* An instruction is a record: op and mode, named as the opcode table      *)
(* names them, and its operand n, a number of as many bytes as the mode    *)
(* has.  Immediate operands and the cycles of a page crossing are left     *)
(* out.                                                                    *)
(*                                                                         *)
(* An operator named like Narrow_StoreByIndex is the one before the         *)
(* underscore with a plausible fault, against which the properties are     *)
(* tried; no other definition uses it.                                     *)
(***************************************************************************)
EXTENDS Cpu65816, SystemBus

\* indexWithXRegister, indexWithYRegister.
IndexX(c) == IF X8(c) THEN Low(c.X) ELSE c.X
IndexY(c) == IF X8(c) THEN Low(c.Y) ELSE c.Y

DirectPage(c, n) == Address(0, Wrap(c.D + n))

\* Where the mode finds the address of its data, when that is in memory.
Pointer(c, mode, n) ==
  CASE mode \in {"AbsoluteIndirect", "AbsoluteIndirectLong"} -> Address(0, n)
    [] mode = "AbsoluteIndexedIndirectWithX" ->
         SumNoWrapAround(Address(c.pb, n), IndexX(c))
    [] mode = "DirectPageIndexedIndirectWithX" ->
         DirectPage(c, n + IndexX(c))
    [] mode = "StackRelativeIndirectIndexedWithY" ->
         Address(0, Wrap(c.sp + n))
    [] OTHER -> DirectPage(c, n)

LongPointers == {"AbsoluteIndirectLong", "DirectPageIndirectLong",
                 "DirectPageIndirectLongIndexedWithY"}
PointerModes == LongPointers \cup
  {"AbsoluteIndirect", "AbsoluteIndexedIndirectWithX", "DirectPageIndirect",
   "DirectPageIndexedIndirectWithX", "DirectPageIndirectIndexedWithY",
   "StackRelativeIndirectIndexedWithY"}

\* The bank of an address of which memory holds the offset.
PointerBank(c, mode) ==
  IF mode \in {"AbsoluteIndirect", "AbsoluteIndexedIndirectWithX"}
  THEN c.pb ELSE c.DB

FollowPointer(board, mem, c, mode, n) ==
  LET at == Pointer(c, mode, n)
  IN IF mode \in LongPointers THEN ReadAddressAt(board, mem, at)
     ELSE Address(PointerBank(c, mode), ReadTwoBytes(board, mem, at))

LongAddress(n) == Address(n \div BANK_SIZE, n % BANK_SIZE)

\* getAddressOfOpCodeData.
Target(board, mem, c, mode, n) ==
  LET through == FollowPointer(board, mem, c, mode, n)
  IN CASE mode = "Absolute"     -> Address(c.DB, n)
       [] mode = "AbsoluteLong" -> LongAddress(n)
       [] mode = "AbsoluteIndexedWithX" ->
            SumNoWrapAround(Address(c.DB, n), IndexX(c))
       [] mode = "AbsoluteIndexedWithY" ->
            SumNoWrapAround(Address(c.DB, n), IndexY(c))
       [] mode = "AbsoluteLongIndexedWithX" ->
            SumNoWrapAround(LongAddress(n), IndexX(c))
       [] mode = "DirectPage" ->
            IF Emulation(c) THEN Address(0, n) ELSE DirectPage(c, n)
       [] mode = "DirectPageIndexedWithX" -> DirectPage(c, n + IndexX(c))
       [] mode = "DirectPageIndexedWithY" -> DirectPage(c, n + IndexY(c))
       [] mode = "StackRelative"          -> Address(0, Wrap(c.sp + n))
       [] mode \in {"DirectPageIndirectIndexedWithY",
                    "DirectPageIndirectLongIndexedWithY",
                    "StackRelativeIndirectIndexedWithY"} ->
            SumNoWrapAround(through, IndexY(c))
       [] OTHER -> through

-----------------------------------------------------------------------------
(* OpCodeTable.cpp: the modes of the instructions modelled here.           *)

DataModes ==
  {"Absolute", "AbsoluteLong", "AbsoluteIndexedWithX", "AbsoluteIndexedWithY",
   "AbsoluteLongIndexedWithX", "DirectPage", "DirectPageIndexedWithX",
   "DirectPageIndirect", "DirectPageIndirectLong",
   "DirectPageIndexedIndirectWithX", "DirectPageIndirectIndexedWithY",
   "DirectPageIndirectLongIndexedWithY", "StackRelative",
   "StackRelativeIndirectIndexedWithY"}

ModesOf ==
  LET Plain   == {"Absolute", "DirectPage"}
      WithX   == Plain \cup {"AbsoluteIndexedWithX", "DirectPageIndexedWithX"}
  IN [LDA |-> DataModes, STA |-> DataModes,
      LDX |-> Plain \cup {"AbsoluteIndexedWithY", "DirectPageIndexedWithY"},
      LDY |-> WithX, STZ |-> WithX, INC |-> WithX, DEC |-> WithX,
      STX |-> Plain \cup {"DirectPageIndexedWithY"},
      STY |-> Plain \cup {"DirectPageIndexedWithX"},
      JMP |-> {"Absolute", "AbsoluteLong", "AbsoluteIndirect",
               "AbsoluteIndirectLong", "AbsoluteIndexedIndirectWithX"}]

\* By how much the handlers advance the program address.
Length(mode) ==
  CASE mode \in {"AbsoluteLong", "AbsoluteLongIndexedWithX"} -> 4
    [] mode \in {"Absolute", "AbsoluteIndexedWithX",
                 "AbsoluteIndexedWithY"} -> 3
    [] OTHER -> 2

-----------------------------------------------------------------------------
(* OpCode_LDA, LDX, LDY, STA, STX, STY, STZ, INC_DEC, JumpReturn.          *)

\* Whether the access is to one byte; the accumulator decides for every
\* store, of whichever register.
Narrow_StoreByIndex(c, op) ==
  IF op \in {"LDX", "LDY", "STX", "STY"} THEN X8(c) ELSE A8(c)
Narrow(c, op) == IF op \in {"LDX", "LDY"} THEN X8(c) ELSE A8(c)

Fetched(board, mem, a, narrow) ==
  IF narrow THEN ReadByte(board, mem, a) ELSE ReadTwoBytes(board, mem, a)
Stored_WholeRegister(board, mem, a, narrow, v) ==
  IF narrow THEN StoreByte(board, mem, a, v)
            ELSE StoreTwoBytes(board, mem, a, v)
Stored(board, mem, a, narrow, v) ==
  IF narrow THEN StoreByte(board, mem, a, Low(v))
            ELSE StoreTwoBytes(board, mem, a, v)

Loads  == [LDA |-> "A", LDX |-> "X", LDY |-> "Y"]
Stores == {"STA", "STX", "STY", "STZ"}

Load(board, mem, c, op, mode, n) ==
  LET a == Target(board, mem, c, mode, n)
  IN Advance(LoadReg(c, Loads[op], Narrow(c, op),
                     Fetched(board, mem, a, Narrow(c, op))), Length(mode))

ToStore(c, op) ==
  CASE op = "STA" -> c.A [] op = "STX" -> c.X [] op = "STY" -> c.Y
    [] op = "STZ" -> 0
Store(board, mem, c, op, mode, n) ==
  Stored(board, mem, Target(board, mem, c, mode, n), Narrow(c, op),
         ToStore(c, op))

\* INC and DEC of memory.
Counted(board, mem, c, op, mode, n) ==
  INCDEC(c.P, Fetched(board, mem, Target(board, mem, c, mode, n), A8(c)),
         IF op = "INC" THEN 1 ELSE -1, IF A8(c) THEN 256 ELSE 65536)

\* JMP Absolute keeps the bank of the program.
Jump(board, mem, c, mode, n) ==
  LET a == Target(board, mem, c, mode, n)
  IN JMP(c, IF mode = "Absolute" THEN c.pb ELSE a.bank, a.offset)

-----------------------------------------------------------------------------
(* OpCode_Branch.cpp                                                       *)

\* The flag a branch tests, and the value of it that takes the branch.
BranchFlag == [BNE |-> "z", BEQ |-> "z", BCC |-> "c", BCS |-> "c",
               BPL |-> "n", BMI |-> "n", BVC |-> "v", BVS |-> "v"]
BranchIfSet == {"BEQ", "BCS", "BMI", "BVS"}
Taken(c, op) ==
  op = "BRA" \/ (BranchFlag[op] \in c.P <=> op \in BranchIfSet)

\* executeBranchShortOnCondition: 0xFF00 | destination is the sign extended.
Branch(c, op, d) ==
  Advance(c, 2 + (IF ~Taken(c, op) THEN 0
                  ELSE IF d >= 128 THEN 65280 + d ELSE d))
BRL(c, d) == Advance(c, 3 + d)

-----------------------------------------------------------------------------
(* OpCode_Misc.cpp: MVN (by = 1) and MVP (by = -1), n the banks.  Bytes go *)
(* one after the other, while A is not $FFFF; X and Y stay as they were.   *)

MovedBytes(c) == (c.A + 1) % 65536
MoveFrom(c, bank, by, i) == Address(bank, (c.X + by * i) % BANK_SIZE)
MoveTo(c, bank, by, i)   == Address(bank, (c.Y + by * i) % BANK_SIZE)

MoveBytes(board, mem, c, to, from, by) ==
  LET after[i \in 0..MovedBytes(c)] ==
        IF i = 0 THEN mem
        ELSE StoreByte(board, after[i - 1], MoveTo(c, to, by, i - 1),
                       ReadByte(board, after[i - 1],
                                MoveFrom(c, from, by, i - 1)))
  IN after[MovedBytes(c)]
Moved(c, to) == Advance([c EXCEPT !.A = 65535, !.DB = to], 3)

-----------------------------------------------------------------------------
(* The bytes of data that Cpu65816Debugger::logOpCode reads: of most modes *)
(* it reads no more than the operand.                                      *)

TraceWidth(mode) ==
  CASE mode = "AbsoluteLongIndexedWithX" -> 3
    [] mode = "AbsoluteIndexedWithY" -> 2
    [] mode \in {"DirectPageIndirectLong", "StackRelative",
                 "DirectPageIndirectLongIndexedWithY"} -> 1
    [] OTHER -> 0
=============================================================================
