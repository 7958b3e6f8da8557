--------------------------- MODULE MCMemoryAccess ---------------------------
(* The devices of main.cpp, and operands, pointers and registers chosen so *)
(* that an index carries into the next bank (also from bank $FF to 0), the *)
(* direct page and the program counter wrap, pointers lead to RAM, ROM and *)
(* a UART, the hidden byte of a narrow index is not zero, and words and    *)
(* pointers begin at the last byte of the kernel ROM, of a UART, of the    *)
(* RAM and of a bank of it, and just below a UART.                         *)
EXTENDS MemoryAccess

Device(kind, base, size) == [kind |-> kind, base |-> base, size |-> size]
MCBoard ==
  <<Device("rom", 49152, 16384), Device("rom", 14680064, 1048576),
    Device("rom", 15728640, 1048576), Device("uart", 45056, 8),
    Device("uart", 45312, 8), Device("ram", 0, 8388608)>>

Instr(ops, modes, ns) == [op : ops, mode : modes, n : ns]
Indexed == {"AbsoluteIndexedWithX", "AbsoluteIndexedWithY"}
DirectModes == {m \in DataModes : Length(m) = 2}
OperandsOf(m) ==
  CASE m = "Absolute" -> {16, 45055, 45063, 49152, 65535}
    [] m = "AbsoluteLong" -> {131071, 8388607, 14680064, 15728639}
    [] m \in Indexed -> {45060, 65535}
    [] m = "AbsoluteLongIndexedWithX" -> {131071, 16777215}
    [] m = "AbsoluteIndirect" -> {16, 65535}
    [] m = "AbsoluteIndirectLong" -> {19, 65534}
    [] m = "AbsoluteIndexedIndirectWithX" -> {15, 65535}
    [] m \in {"StackRelative", "StackRelativeIndirectIndexedWithY"} -> {4, 7}
    [] OTHER -> {15, 16, 32}
MCProgram ==
  UNION {Instr({op}, {m}, OperandsOf(m)) :
         op \in {"LDA", "STA", "INC", "JMP", "STX"},
         m \in DataModes \cup ModesOf.STX \cup ModesOf.JMP}
    \cup Instr({"LDX", "LDY", "DEC", "STY", "STZ"}, {"DirectPage"}, {16})
    \cup Instr({"LDX"}, {"DirectPageIndexedWithY"}, {32})
    \cup Instr(DOMAIN BranchFlag \cup {"BRA"},
               {"ProgramCounterRelative"}, {16, 240})
    \cup Instr({"BRL"}, {"ProgramCounterRelativeLong"}, {65520})
    \cup Instr({"MVN", "MVP"}, {"BlockMove"}, {0, 1, 257, 57345})
MCTabled ==
  {i \in MCProgram : i.op \in DOMAIN ModesOf => i.mode \in ModesOf[i.op]}

Start(P, A, X, Y, D, DB, pc) ==
  [A |-> A, X |-> X, Y |-> Y, D |-> D, DB |-> DB, P |-> P, pb |-> 0,
   pc |-> pc, sp |-> 496, ram |-> <<>>, RES |-> FALSE, RDY |-> FALSE]
MCStarts ==
  {Start({}, 4660, 1, 2, 0, 1, 0),
   Start({"m", "c"}, 2, 257, 3, 0, 0, 65534),
   Start({"m", "x"}, 2, 257, 257, 65520, 255, 65500),
   Start({"x"}, 65535, 257, 258, 65520, 1, 100),
   Start({"e", "m", "x"}, 258, 1, 4, 256, 0, 250)}

CellAt(bank, offset) == Cell(MCBoard, Address(bank, offset), 0)
MCKnown ==
  LET Long(a, lo, hi, bank) == CellAt(0, a) :> lo @@ CellAt(0, a + 1) :> hi
                                 @@ CellAt(0, a + 2) :> bank
  IN Long(16, 255, 255, 1) @@ Long(19, 17, 0, 1) @@ Long(272, 255, 191, 224)
     @@ Long(500, 0, 176, 0) @@ Long(503, 254, 255, 1)
     @@ CellAt(0, 49152) :> 90 @@ CellAt(0, 49153) :> 165
     @@ CellAt(224, 0) :> 7 @@ CellAt(1, 65535) :> 129 @@ CellAt(1, 0) :> 16
     @@ CellAt(0, 65534) :> 0 @@ CellAt(0, 65535) :> 224
\* With what follows the array of the kernel ROM.
MCContents ==
  {MCKnown @@ [device |-> 1, index |-> 16384] :> v
           @@ [device |-> 1, index |-> 16385] :> v : v \in {0, 255}}

MCVector == [ERES |-> 0, EIRQ |-> 0, ECOP |-> 0, NIRQ |-> 0, NBRK |-> 0,
             NCOP |-> 0]
MCWatched ==
  (496..510) \cup (256..304) \cup (49152..49153) \cup (65500..65535)
    \cup {65536 * bank + o : bank \in {0, 1, 2, 224},
                            o \in (0..48) \cup (45056..45064)}
    \cup (131060..131071) \cup (65552..65584) \cup {8323072, 8388607}
    \cup {45055}
=============================================================================
