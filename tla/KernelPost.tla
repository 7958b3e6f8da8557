----------------------------- MODULE KernelPost -----------------------------
(***************************************************************************)
(* The kernel's power-on self-test (kernel/dt65pc.s, emul_resetb and       *)
(* hiram_test; kernel/math.s, m_rom_test) on the processor and the bus,    *)
(* on boards with more or less RAM and with math ROMs that are missing or  *)
(* not the right ones.  A step is a stretch of instructions up to a        *)
(* branch; the program address is replaced by the label it stands at.      *)
(*                                                                         *)
(* The stack lies in cpu.ram, the rest of memory in mem.  What the kernel  *)
(* does to the UARTs and to the terminal is KernelSerial's subject, how a  *)
(* number is printed KernelMath's: their routines appear here with what    *)
(* they do to the stack, to Y and to the data bank.  The temporary and the *)
(* scratchpad, which they overwrite, are written again before they are     *)
(* read; so are the flags that m_rom_test and the end of the POST leave,   *)
(* which stay as they were here.                                           *)
(*                                                                         *)
(* An operator named like EndBanks_NoDecrement is the one before the       *)
(* underscore with a plausible fault, against which the properties are     *)
(* tried; no action uses it.                                               *)
(***************************************************************************)
EXTENDS Addressing

CONSTANTS
  RAM_BANKS, \* how many banks of RAM the boards considered have
  ROM_SIZES, \* how many bytes the files of the math ROMs have, 0 if missing
  STACK,     \* bound: the offsets of the stack followed
  StackLows  \* low bytes of the stack pointer at power-on

\* The kernel keeps its stack within the 16 bytes below its buffers; Ram's
\* size is a byte; a ROM of an odd size would be read beyond its end.
ASSUME KernelPostAssumption ==
  /\ 1008..1023 \subseteq STACK /\ STACK \subseteq UInt16
  /\ StackLows \subseteq UInt8
  /\ RAM_BANKS \subseteq UInt8
  /\ \A size \in ROM_SIZES : size \in Nat /\ size % 2 = 0

\* The devices of main.cpp, in the order in which it registers them.
Device(kind, base, size) == [kind |-> kind, base |-> base, size |-> size]
Board(ramBanks, size0, size1) ==
  <<Device("rom", 49152, 16384), Device("rom", 14680064, size0),
    Device("rom", 15728640, size1), Device("uart", 45056, 8),
    Device("uart", 45312, 8), Device("ram", 0, 65536 * ramBanks)>>
BOARDS == {Board(n, size0, size1) :
             n \in RAM_BANKS, size0 \in ROM_SIZES, size1 \in ROM_SIZES}

VARIABLES
  board,    \* the devices; does not change
  tables,   \* the ROM tables of which the tested word is right
  working,  \* the UARTs that pass the loopback test, left open here
  cpu, mem,
  at,       \* the label of the next instruction
  report,   \* the number printed, [hi, lo], or None
  high      \* history: how many banks of high RAM the board has

postVars == <<board, tables, working, cpu, mem, at, report, high>>

None == [hi |-> -1, lo |-> -1]

(* Addresses and constants of dt65pc.s and math.s.                         *)
banks  == 0
flags  == 1
temp   == 2
K_ZERO == 22 \* .sizeof(k_zero)
k_base == 1024
k_buf1 == 1280
msg_bytes_free == 49423 \* $C100, and msg_ready before it
BYTES_FREE == 14        \* its length
PATTERN1 == 43605 \* $AA55
PATTERN2 == 21930 \* $55AA
UartAddr(u) == 45056 + 256 * u
Tested ==
  [sin |-> [index |-> 8192,  table |-> 232, word |-> 23170, flag |-> 1],
   mul |-> [index |-> 61448, table |-> 254, word |-> 1920,  flag |-> 2]]

PowerOn == [A |-> 0, X |-> 0, Y |-> 0, D |-> 0, DB |-> 0, P |-> {"e"},
            pb |-> 0, pc |-> 0, sp |-> 0, ram |-> [a \in STACK |-> 0],
            RES |-> TRUE, RDY |-> FALSE]

\* Where the word tested of a table is, and what memory holds of it: the
\* word, if something answers there and is the right table.
TableAddress(t) == LongAddress(65536 * Tested[t].table + 2 * Tested[t].index)
TableCell(t, n) == Cell(board, TableAddress(t), n)
Present(t)      == t \in tables /\ Serving(board, TableAddress(t)) # 0
TableCells(t) ==
  IF Present(t) THEN {TableCell(t, 0), TableCell(t, 1)} ELSE {}
TableByte(t, cell) ==
  IF cell = TableCell(t, 0) THEN Low(Tested[t].word)
                            ELSE High(Tested[t].word)

\* A bank is present if what answers at its first byte is RAM; the high
\* banks are those from 1 on without a gap.
IsRam(bank) ==
  LET i == Serving(board, Address(bank, 0)) IN i # 0 /\ board[i].kind = "ram"
HighBanks == CHOOSE n \in UInt8 : /\ n = 255 \/ ~IsRam(n + 1)
                                  /\ \A bank \in 1..n : IsRam(bank)

Init ==
  /\ board \in BOARDS /\ tables \in SUBSET DOMAIN Tested
  /\ working \in SUBSET {0, 1}
  /\ \E low \in StackLows : cpu = [Reset(PowerOn, low) EXCEPT !.pc = 0]
  /\ mem = [cell \in TableCells("sin") \cup TableCells("mul") |->
              IF cell \in TableCells("sin") THEN TableByte("sin", cell)
                                            ELSE TableByte("mul", cell)]
  /\ at = "reset" /\ report = None /\ high = HighBanks

Goto(label, c) == at' = label /\ cpu' = [c EXCEPT !.pc = 0]
Zero(c) == "z" \in c.P

ZeroPageByte(n) == ReadByte(board, mem, Address(0, n))
ZeroPageWord(n) == ReadTwoBytes(board, mem, Address(0, n))

-----------------------------------------------------------------------------
(* emul_resetb                                                             *)

\* clc, xce, set16a.
GoNative ==
  /\ at = "reset"
  /\ Goto("low1", REP(XCE(ClearFlag(cpu, "c")), 32))
  /\ UNCHANGED <<mem, report>>

\* lda #v, sta a:0, lda a:0, cmp #v and the branch.
Probe(here, v, kept, lost) ==
  /\ at = here
  /\ mem' = StoreTwoBytes(board, mem, Address(cpu.DB, 0), v)
  /\ LET got == ReadTwoBytes(board, mem', Address(cpu.DB, 0))
     IN Goto(IF got = v THEN kept ELSE lost,
             [cpu EXCEPT !.A = got, !.P = CMP(@, got, v, 65536)])
  /\ UNCHANGED report

LowProbe == \/ Probe("low1", PATTERN1, "low2", "post_fail")
            \/ Probe("low2", PATTERN2, "stack", "post_fail")

\* lda #k_base - 1, tcs, ldx #.sizeof(k_zero).
SetStack_AtBase ==
  /\ at = "stack"
  /\ Goto("clear", LDX(TCS(LDA(cpu, k_base)), K_ZERO))
  /\ UNCHANGED <<mem, report>>
SetStack ==
  /\ at = "stack"
  /\ Goto("clear", LDX(TCS(LDA(cpu, k_base - 1)), K_ZERO))
  /\ UNCHANGED <<mem, report>>

\* dex, stz 0,x, bne: the store is of a word.
ClearByte ==
  /\ at = "clear"
  /\ LET c == INCDEC_X(cpu, -1)
     IN /\ mem' = Store(board, mem, c, "STZ", "DirectPageIndexedWithX", 0)
        /\ Goto(IF Zero(c) THEN "uart0" ELSE "clear", c)
  /\ UNCHANGED report

\* pea, jsr u_loop_test, pla: the test leaves 0 in Y, and in the place of
\* the address a zero if the UART works.
LoopTested(c, u) ==
  LET called == JSR(PEA(c, UartAddr(u)), 0)
      zeroed == [called EXCEPT !.ram =
                   [a \in STACK |-> IF a - called.sp \in {3, 4} THEN 0
                                    ELSE @[a]]]
  IN PLA(RTS(LDY(IF u \in working THEN zeroed ELSE called, 0)))
TestUart(here, u, next) ==
  /\ at = here
  /\ LET c == LoopTested(cpu, u)
     IN Goto(IF Zero(c) THEN next ELSE "post_fail", c)
  /\ UNCHANGED <<mem, report>>

\* The last value that Y takes in the set-up of UART0 is uMCR_DTR.
SetUpUart0 ==
  /\ at = "setup"
  /\ Goto("uart1", LDY(cpu, 1))
  /\ UNCHANGED <<mem, report>>

TestUarts == \/ TestUart("uart0", 0, "setup")
             \/ TestUart("uart1", 1, "hiram")

-----------------------------------------------------------------------------
(* hiram_test                                                              *)

CallHiram ==
  /\ at = "hiram"
  /\ Goto("next_bank", LDX(JSR(cpu, 0), 1))
  /\ UNCHANGED <<mem, report>>

\* phx, plb.
NextBank ==
  /\ at = "next_bank"
  /\ Goto("high1", PLB(PHX(cpu)))
  /\ UNCHANGED <<mem, report>>

HighProbe == \/ Probe("high1", PATTERN1, "high2", "end_banks")
             \/ Probe("high2", PATTERN2, "more", "end_banks")

\* inx, bra next_bank.
MoreBanks ==
  /\ at = "more"
  /\ Goto("next_bank", INCDEC_X(cpu, 1))
  /\ UNCHANGED <<mem, report>>

\* dex, stx k_zero::banks (a word), phy, plb, rts.
EndBanks_NoDecrement ==
  /\ at = "end_banks"
  /\ mem' = Store(board, mem, cpu, "STX", "DirectPage", banks)
  /\ Goto("print", RTS(PLB(PHY(cpu))))
  /\ UNCHANGED report
EndBanks_StaysInBank ==
  /\ at = "end_banks"
  /\ LET c == INCDEC_X(cpu, -1)
     IN /\ mem' = Store(board, mem, c, "STX", "DirectPage", banks)
        /\ Goto("print", RTS(c))
  /\ UNCHANGED report
EndBanks ==
  /\ at = "end_banks"
  /\ LET c == INCDEC_X(cpu, -1)
     IN /\ mem' = Store(board, mem, c, "STX", "DirectPage", banks)
        /\ Goto("print", RTS(PLB(PHY(c))))
  /\ UNCHANGED report

\* pea k_buf1, pei (k_zero::banks), pea 0, jsr m_ul2a, three times pla, and
\* the three messages.  The number is what m_ul2a, its status byte pushed,
\* finds at 4,S and 6,S.  What is printed leaves its first character in X,
\* that of a zero being the terminator, and in A and Y the address and the
\* length of the last message.
PrintRam ==
  /\ at = "print"
  /\ LET called  == PHP(JSR(PEA(PEI(PEA(cpu, k_buf1), ZeroPageWord(banks)),
                                0), 0))
         dropped == PLA(PLA(PLA(RTS(PLP(called)))))
     IN /\ report' = [hi |-> Word(Peek(called, 7), Peek(called, 6)),
                      lo |-> Word(Peek(called, 5), Peek(called, 4))]
        /\ \E first \in IF report'.hi = 0 THEN {0} ELSE 49..57 :
             Goto("rom_test", [dropped EXCEPT !.A = msg_bytes_free,
                                              !.X = first, !.Y = BYTES_FREE])
  /\ UNCHANGED mem

-----------------------------------------------------------------------------
(* m_rom_test and the end of the POST                                      *)

CallRomTest ==
  /\ at = "rom_test"
  /\ Goto("rom0", JSR(cpu, 0))
  /\ UNCHANGED <<mem, report>>

\* The index doubled in temp, the table's bank and the carry after it.
Pointing(t) ==
  LET shifted == ASL(cpu.P, Tested[t].index, 65536)
      table   == ADC(shifted.P, Tested[t].table, 0, 65536)
  IN StoreTwoBytes(board,
                   StoreTwoBytes(board, mem, Address(0, temp), shifted.r),
                   Address(0, temp + 2), table.r)

\* tsb k_zero::flags with the accumulator narrow.
SetFlagBit_Overwrites(byte, flag) == flag
SetFlagBit(byte, flag) == ByteOf(Bits(byte) \cup {flag})

\* lda [temp], cmp and the branch over the tsb.
TestTable(here, t, next) ==
  /\ at = here
  /\ LET pointing == Pointing(t)
         got == ReadTwoBytes(board, pointing,
                  Target(board, pointing, cpu, "DirectPageIndirectLong", temp))
         right == got = Tested[t].word
     IN /\ mem' = IF right
                  THEN StoreByte(board, pointing, Address(0, flags),
                         SetFlagBit(ZeroPageByte(flags), Tested[t].flag))
                  ELSE pointing
        /\ Goto(next,
                [cpu EXCEPT !.A = IF right THEN Word(High(got), Tested[t].flag)
                                  ELSE got])
  /\ UNCHANGED report

TestTables == \/ TestTable("rom0", "sin", "rom1")
              \/ TestTable("rom1", "mul", "rom_done")

ReturnRomTest ==
  /\ at = "rom_done"
  /\ Goto("flags", RTS(cpu))
  /\ UNCHANGED <<mem, report>>

\* lda k_zero::flags (a word), and #3, cmp #3; ldy k_zero::flags.
Judge ==
  /\ at = "flags"
  /\ LET masked == Bits(Low(ZeroPageWord(flags))) \cap {1, 2}
         c == [cpu EXCEPT !.A = ByteOf(masked)]
     IN IF masked = {1, 2}
        THEN Goto("mon_start", LDY(c, ZeroPageByte(flags)))
        ELSE Goto("post_fail", c)
  /\ UNCHANGED <<mem, report>>

\* The monitor and post_fail both are stp.
Stop ==
  /\ at \in {"mon_start", "post_fail"} /\ ~cpu.RES
  /\ Goto(at, STP(cpu))
  /\ UNCHANGED <<mem, report>>

Next ==
  /\ \/ GoNative \/ LowProbe \/ SetStack \/ ClearByte \/ TestUarts
     \/ SetUpUart0 \/ CallHiram \/ NextBank \/ HighProbe \/ MoreBanks
     \/ EndBanks \/ PrintRam \/ CallRomTest \/ TestTables \/ ReturnRomTest
     \/ Judge \/ Stop
  /\ UNCHANGED <<board, tables, working, high>>

\* main.cpp calls the debugger's step until an stp is executed: weak fairness
\* of Next, which is enabled exactly until then.
Stepping == []<>cpu.RES \/ []<><<TRUE>>_postVars
Spec == Init /\ [][Next]_postVars /\ Stepping

-----------------------------------------------------------------------------
\* Labels at which no subroutine is under way and the stack is set.
Outside == {"clear", "uart0", "setup", "uart1", "hiram", "print", "rom_test",
            "flags", "mon_start"}
Labels == Outside \cup
  {"reset", "low1", "low2", "stack", "next_bank", "high1", "high2", "more",
   "end_banks", "rom0", "rom1", "rom_done", "post_fail"}

\* Registers hold values of their width, and once the kernel has set its
\* stack nothing it pushes lies outside the page below its buffers.
PostTypeOK ==
  /\ at \in Labels
  /\ {cpu.A, cpu.X, cpu.Y} \subseteq UInt16
  /\ cpu.DB \in UInt8
  /\ at \notin {"reset", "low1", "low2", "stack", "post_fail"} =>
       cpu.sp \in STACK
  /\ \A cell \in DOMAIN mem : mem[cell] \in UInt8

\* Between subroutines the stack is empty and the data bank is 0, where the
\* strings, the buffers and the UARTs are that the kernel addresses without
\* a bank: hiram_test gets back to it only because "Y is still zero after
\* UART tests" (dt65pc.s:232), though the set-up of UART0 in between ends
\* with another Y.
BalancedInBankZero ==
  at \in Outside => cpu.sp = k_base - 1 /\ cpu.DB = 0

\* The bytes of the kernel's zero page keep apart, though the accumulator is
\* 16 bits wide and most stores to them are of words: after the memory test
\* banks counts the consecutive banks of RAM above bank 0, and flags has
\* exactly the bits of the tables found, each a word of a ROM.
Found == {t \in DOMAIN Tested : Present(t) /\
            \/ at \in {"rom_done", "flags", "mon_start"}
            \/ at = "rom1" /\ t = "sin"}
ZeroPageKept ==
  at \in {"print", "rom_test", "rom0", "rom1", "rom_done", "flags",
          "mon_start"} =>
    /\ ZeroPageByte(banks) = high
    /\ Bits(ZeroPageByte(flags)) = {Tested[t].flag : t \in Found}

\* The self-test ends on every board, finds it sound exactly if low RAM, both
\* UARTs and both math ROMs are, and has before reported all of the high RAM
\* and no other number (SelfTest): 65536 bytes for each bank.
Sound == /\ IsRam(0) /\ working = {0, 1}
         /\ \A t \in DOMAIN Tested : Present(t)
Verdict == IF ~cpu.RES THEN "testing"
           ELSE IF at = "mon_start" THEN "ready" ELSE "failed"
Post == INSTANCE SelfTest WITH
          sound <- Sound, banks <- [hi |-> high, lo |-> 0],
          reported <- report, verdict <- Verdict
SelfTestSpec == Post!TestSpec
=============================================================================
