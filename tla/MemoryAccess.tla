---------------------------- MODULE MemoryAccess ----------------------------
(***************************************************************************)
(* The processor running any sequence of the instructions that reach       *)
(* memory through an addressing mode, on the board of main.cpp.  As in     *)
(* Cpu65816Debugger::step an instruction is first traced, which reads      *)
(* through the bus, and then executed.                                     *)
(*                                                                         *)
(* What a UART register holds is Uart's subject: no instruction here reads *)
(* one, and a store to one changes no memory.  The trace may read one, for *)
(* the log.                                                                *)
(***************************************************************************)
EXTENDS Addressing

CONSTANTS
  BOARD,    \* the devices on the bus
  PROGRAM,  \* the instructions the program may consist of
  STARTS,   \* processors with which it may begin
  CONTENTS, \* what the memory may hold then
  WATCHED,  \* bound: addresses of the bytes a program may change
  STEPS,    \* bound: instructions executed
  MOVE      \* bound: bytes a block move moves

VARIABLES
  cpu, mem,
  ir,       \* the instruction traced and not yet executed, or None
  touched,  \* history: the cells of the last step's reads and stores
  steps     \* instructions executed

accessVars == <<cpu, mem, ir, touched, steps>>

None == [op |-> "none"]

Init ==
  /\ cpu \in STARTS /\ mem \in CONTENTS
  /\ ir = None /\ touched = {} /\ steps = 0

-----------------------------------------------------------------------------
Cells(a, n) == {Cell(BOARD, a, k) : k \in 0..n-1}
Kind(cell)  == IF cell.device = 0 THEN "none" ELSE BOARD[cell.device].kind

CellOf == [b \in WATCHED |->
             Cell(BOARD, Address(b \div BANK_SIZE, b % BANK_SIZE), 0)]
WatchedCells == {CellOf[b] : b \in WATCHED}

\* The board: a device that begins within a bank ends in it, RAM is a number
\* of banks from address 0 on (Ram::Ram), and there is some.
ASSUME BoardAssumption ==
  /\ BOARD \in Seq([kind : {"rom", "uart", "ram"}, base : Nat, size : Nat])
  /\ \A d \in DOMAIN BOARD :
       \/ BOARD[d].base % BANK_SIZE = 0
       \/ (BOARD[d].base % BANK_SIZE) + BOARD[d].size <= BANK_SIZE
  /\ \A d \in DOMAIN BOARD :
       BOARD[d].kind = "ram" =>
         BOARD[d].base = 0 /\ BOARD[d].size % BANK_SIZE = 0
  /\ \E d \in DOMAIN BOARD : BOARD[d].base = 0 /\ BOARD[d].size >= BANK_SIZE

\* The instructions are those of the opcode table, with operands of no more
\* bytes than theirs may have.
ASSUME ProgramAssumption ==
  \A i \in PROGRAM :
    /\ IF i.op \in DOMAIN ModesOf THEN i.mode \in ModesOf[i.op]
       ELSE i.mode = IF i.op \in {"MVN", "MVP"} THEN "BlockMove"
                     ELSE IF i.op = "BRL" THEN "ProgramCounterRelativeLong"
                     ELSE "ProgramCounterRelative"
    /\ i.n \in 0 .. (CASE Length(i.mode) = 4 -> BANKS * BANK_SIZE - 1
                       [] i.mode = "ProgramCounterRelative" -> UINT8_MAX
                       [] OTHER -> UINT16_MAX)

\* The stack is part of the memory here, and not of the processor.
Processors ==
  [A : UInt16, X : UInt16, Y : UInt16, D : UInt16, DB : UInt8,
   P : SUBSET (DOMAIN Weight \cup {"e"}), pb : UInt8, pc : UInt16,
   sp : UInt16, ram : {<<>>}, RES : BOOLEAN, RDY : BOOLEAN]

\* A cell that has an address; those of RAM under another device have none,
\* nor have those that follow the array of a device.
Visible(cell) ==
  Cell(BOARD, LongAddress(BOARD[cell.device].base + cell.index), 0) = cell

\* A memory.  What a read after the array of a device finds, C++ leaves
\* undefined; a memory may have anything there.
Memory(m) ==
  \A cell \in DOMAIN m :
    /\ m[cell] \in UInt8 /\ Kind(cell) # "none"
    /\ Visible(cell) => cell \in WatchedCells

ASSUME MemoryAccessAssumption ==
  /\ STARTS \subseteq Processors
  /\ WATCHED \subseteq 0 .. BANKS * BANK_SIZE - 1
  /\ \A m \in CONTENTS : Memory(m)
  /\ STEPS \in Nat /\ MOVE \in Nat

AddressOf(i)   == Target(BOARD, mem, cpu, i.mode, i.n)
Width(i)       == IF Narrow(cpu, i.op) THEN 1 ELSE 2
PointerWidth(i) == IF i.mode \notin PointerModes THEN 0
                   ELSE IF i.mode \in LongPointers THEN 3 ELSE 2
PointerCells(i) == Cells(Pointer(cpu, i.mode, i.n), PointerWidth(i))

MoveTarget(i) == i.n % 256
MoveSource(i) == i.n \div 256
By(i)         == IF i.op = "MVN" THEN 1 ELSE -1
MoveCells(i)  ==
  UNION {Cells(MoveFrom(cpu, MoveSource(i), By(i), k), 1)
           \cup Cells(MoveTo(cpu, MoveTarget(i), By(i), k), 1) :
         k \in 0..MovedBytes(cpu)-1}

\* The instructions followed: a block move moves no more than MOVE bytes, a
\* store changes no RAM that has an address but WatchedCells, and a UART
\* register is read only by the trace.  An access may begin and end anywhere.
NoRegisterRead(cells) == \A cell \in cells : Kind(cell) # "uart"
Watched(cells) ==
  \A cell \in cells :
    Kind(cell) = "ram" /\ Visible(cell) => cell \in WatchedCells
Followed(i) ==
  \/ i.op \in {"MVN", "MVP"} /\ MovedBytes(cpu) <= MOVE
     /\ Watched(MoveCells(i))
     /\ \A k \in 0..MovedBytes(cpu)-1 :
          NoRegisterRead(Cells(MoveFrom(cpu, MoveSource(i), By(i), k), 1))
  \/ /\ i.op \in DOMAIN ModesOf
     /\ NoRegisterRead(PointerCells(i))
     /\ i.op \notin DOMAIN Loads \cup {"JMP"} =>
          Watched(Cells(AddressOf(i), Width(i)))
     /\ i.op \in DOMAIN Loads \cup {"INC", "DEC"} =>
          NoRegisterRead(Cells(AddressOf(i), Width(i)))
  \/ i.op \in DOMAIN BranchFlag \cup {"BRA", "BRL"}

-----------------------------------------------------------------------------
(* Cpu65816Debugger::step                                                  *)

\* logOpCode.
TracedCells(i) ==
  IF TraceWidth(i.mode) = 0 THEN {}
  ELSE PointerCells(i) \cup Cells(AddressOf(i), TraceWidth(i.mode))
Trace ==
  /\ ir = None /\ steps < STEPS
  /\ \E i \in PROGRAM :
       /\ Followed(i)
       /\ ir' = i
       /\ touched' = TracedCells(i)
  /\ UNCHANGED <<cpu, mem, steps>>

DataCells(i) == PointerCells(i) \cup Cells(AddressOf(i), Width(i))

Loading ==
  /\ ir.op \in DOMAIN Loads
  /\ cpu' = Load(BOARD, mem, cpu, ir.op, ir.mode, ir.n)
  /\ touched' = DataCells(ir)
  /\ UNCHANGED mem

Storing ==
  /\ ir.op \in Stores
  /\ mem' = Store(BOARD, mem, cpu, ir.op, ir.mode, ir.n)
  /\ cpu' = Advance(cpu, Length(ir.mode))
  /\ touched' = DataCells(ir)

Counting ==
  /\ ir.op \in {"INC", "DEC"}
  /\ LET res == Counted(BOARD, mem, cpu, ir.op, ir.mode, ir.n)
     IN /\ mem' = Stored(BOARD, mem, AddressOf(ir), A8(cpu), res.r)
        /\ cpu' = Advance([cpu EXCEPT !.P = res.P], Length(ir.mode))
  /\ touched' = DataCells(ir)

Jumping ==
  /\ ir.op = "JMP"
  /\ cpu' = Jump(BOARD, mem, cpu, ir.mode, ir.n)
  /\ touched' = PointerCells(ir)
  /\ UNCHANGED mem

Branching ==
  /\ ir.op \in DOMAIN BranchFlag \cup {"BRA", "BRL"}
  /\ cpu' = IF ir.op = "BRL" THEN BRL(cpu, ir.n) ELSE Branch(cpu, ir.op, ir.n)
  /\ touched' = {}
  /\ UNCHANGED mem

Moving ==
  /\ ir.op \in {"MVN", "MVP"}
  /\ mem' = MoveBytes(BOARD, mem, cpu, MoveTarget(ir), MoveSource(ir), By(ir))
  /\ cpu' = Moved(cpu, MoveTarget(ir))
  /\ touched' = MoveCells(ir)

Execute ==
  /\ ir # None
  /\ Loading \/ Storing \/ Counting \/ Jumping \/ Branching \/ Moving
  /\ ir' = None /\ steps' = steps + 1

Next == Trace \/ Execute
Spec == Init /\ [][Next]_accessVars

-----------------------------------------------------------------------------
\* Registers, memory and cells are what the others take them for.
MemTypeOK ==
  /\ {cpu.A, cpu.X, cpu.Y, cpu.D, cpu.sp, cpu.pc} \subseteq UInt16
  /\ {cpu.DB, cpu.pb} \subseteq UInt8
  /\ \A cell \in DOMAIN mem : mem[cell] \in UInt8 /\ Kind(cell) # "none"
  /\ ir = None \/ ir \in PROGRAM

\* What holds of every access, although only its first byte is decoded and
\* Ram and Rom do not check: RAM, whose bytes a store changes, is never left,
\* nor is a device of whole banks, since the offset wraps before its end; of
\* any other only the two bytes after the end can be reached, by the carry of
\* an index, a pointer that memory holds or the second byte of a word.
\* (SystemBusDevice.hpp promises its operations more, an "address as returned
\* from decodeAddress", which those two bytes are not.)
LeftOnlyAtTheEnd ==
  \A cell \in touched :
    Inside(BOARD, cell) \/
      /\ Kind(cell) # "ram"
      /\ BOARD[cell.device].size % BANK_SIZE # 0
      /\ cell.index < BOARD[cell.device].size + 2

\* The program sees one flat array of bytes under 24-bit addresses
\* (FlatMachine): whatever the mode, the bank carries, the pointers and the
\* device that answers, loads, stores, jumps, branches and block moves do
\* what the sums of that machine say.  A step is compared if the bytes of its
\* access lie in one device and one bank, and if its block move does not
\* overwrite what it has yet to read; after any other step the next is
\* compared again.
Whole(a, n) ==
  \A k \in 0..n-1 :
    /\ a.offset + k < BANK_SIZE
    /\ Serving(BOARD, IncrementOffset(a, k)) = Serving(BOARD, a)
Ahead(i) ==
  MoveTarget(i) = MoveSource(i) =>
    \A j, k \in 0..MovedBytes(cpu)-1 :
      j < k => MoveTo(cpu, MoveTarget(i), By(i), j) #
               MoveFrom(cpu, MoveSource(i), By(i), k)
Plain(i) ==
  /\ i.op \in {"MVN", "MVP"} => Ahead(i)
  /\ i.op \in DOMAIN ModesOf =>
       /\ Whole(Pointer(cpu, i.mode, i.n), PointerWidth(i))
       /\ i.op # "JMP" => Whole(AddressOf(i), Width(i))

FlatRegisters ==
  [A |-> cpu.A, X |-> cpu.X, Y |-> cpu.Y, D |-> cpu.D, S |-> cpu.sp,
   DB |-> cpu.DB, P |-> cpu.P, PC |-> cpu.pb * BANK_SIZE + cpu.pc]
FlatBytes == [b \in WATCHED |-> Content(mem, CellOf[b])]
FlatWritable == {b \in WATCHED : Kind(CellOf[b]) = "ram"}
Flat == INSTANCE FlatMachine WITH
          r <- FlatRegisters, m <- FlatBytes, i <- ir,
          WRITABLE <- FlatWritable
FlatSpec ==
  /\ Flat!FlatInit
  /\ [][(ir = None \/ Plain(ir)) => Flat!FlatNext]_(Flat!flatVars)
=============================================================================
