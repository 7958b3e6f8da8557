# DT65PC in TLA+

A verification project for the DT65PC: the kernel of a 65C816 computer
(`src/kernel`, ca65 assembly) and the simulator it runs on (`src/simulator`,
C++). The modules are translated from the source, TLC checks them on small
instances, and TLAPS proves theorems about the UART, the serial boot, the
printing of numbers, the arithmetic, the processor's registers, its calls and
interrupts, addressing and the power-on self-test for every value of the
constants.

## The system

One thread runs everything. `main` builds a system bus with the kernel ROM,
two ROMs of mathematical tables, two UARTs and RAM, then calls
`Cpu65816Debugger::step` until an `STP` is fetched. A step traces the
instruction, enters a pending IRQ, fetches, and executes the handler that the
opcode table names. A handler reads and writes memory through the bus; it ends
with `addToCycles`, which makes the bus tell every device how many clocks have
passed. That call is the only way anything but the CPU acts:
`UartPC16550D::addCycles` counts a byte time down, sends the byte that is due
to the terminal and polls the keyboard. So the interleaving that matters is
between the program's accesses to the UART and the byte times and keys that
come after each instruction.

| Component | State | Operations | Interacts with | What makes it correct |
|---|---|---|---|---|
| UART (`Uart.cpp`) | two FIFOs, RBR, THR, twelve registers, byte timer | register writes and reads, `addCycles` | bus, terminal | bytes leave in order; LSR agrees with the queues; losses show as OE |
| Terminal (`Terminal.cpp`) | none (the console) | `write`, `read` | UART0 | - |
| Processor (`Cpu65816.cpp`, `CpuStatus.cpp`, `Stack.cpp`, `opcodes/`) | A, X, Y, D, DB, program address, flags, stack pointer, pins | one handler per instruction, IRQ entry, reset | bus | calls and interrupts nest; 8-bit operations leave hidden halves alone; arithmetic is exact |
| Addressing (`Addressing.cpp`, `opcodes/`) | none | effective address per mode, loads, stores, branches, block moves | bus, processor | a program sees one flat array of bytes; indexes carry into the next bank, the direct page, the stack and the program counter wrap |
| Bus, RAM, ROM (`SystemBus*.cpp`, `Ram.cpp`, `Rom.cpp`, `main.cpp`) | memory, device list | accesses of one, two and three bytes, `addCycles` | all devices | the bytes of an access are those of its addresses; RAM is never left |
| Debugger (`Cpu65816Debugger.cpp`) | breakpoint | `step`, trace | processor, bus | a trace reads what the instruction is about to read |
| Logging (`Log.cpp`) | a stream | output | all | - |
| Kernel POST (`dt65pc.s`, `uart.s`, `math.s`) | zero page, stack, data bank | loopback test, UART set-up, `TERM_writes`, `m_ul2a`, RAM and ROM tests | UARTs, RAM, ROMs | every message complete and in order; the boot ends, with the right verdict and the right amount of RAM |

What is hard to test here: a key that arrives between two instructions of the
kernel, sequences of FIFO resets and changes of mode, the byte timer against
the polling loop, interrupts between any two instructions of code that switches
modes, registers of which half is hidden, carries at the edges of digits,
words, banks and devices, stores that are wider than the variable they are
meant for, a trace that reads device registers, and members that the
constructors leave uninitialised. `PROJECT.json`
lists each such hazard at its line with the properties that cover it.

## Modules

| Module | Models | State and actions |
|---|---|---|
| `SerialPort` | what a UART promises | two bounded queues, the byte held, the overrun flag, and what passed in the last step (`io`) |
| `Uart` | `Uart.cpp` | the members of `UartPC16550D` by their names; one action per register written or read, and `AddCycles` |
| `UartBus` | the UART under any CPU | `StoreByte`, `ReadByte`, `PassCycles`, with what each passed as the history `io`; the mapping to `SerialPort` |
| `SerialConsole` | what the boot promises on the terminal | phase, number of the message, the line shown |
| `KernelSerial` | `u_loop_test`, UART0 set-up, `TERM_writes` over `Uart` | `pc` is the next access to the UART, `ticks` the calls of `addCycles` before it |
| `SerialProofs` | - | what each operation of `Uart` does to its inductive invariant, and the theorems about `UartBus` and `KernelSerial` |
| `Alu` | arithmetic, comparison, shifts, decimal digits | operators from flags and operands to result and flags |
| `AluMachine` | the instructions over `Alu`, logic and bit tests | accumulator, memory operand, flags |
| `AluLemmas` | - | facts about words, digits and the operators of `Alu` |
| `AluProofs` | - | the theorems about `AluMachine` |
| `CpuRegistersProofs` | - | the theorems about `CpuRegisters` |
| `KernelMath` | `m_ul2a`, `m_ultemp2bcd`, `m_b2a`, `m_xdigit` over `Alu` | temp, scratchpad, index registers, buffer |
| `KernelMathProofs` | - | the theorems about `KernelMath` |
| `Cpu65816` | handlers for control, stack, transfers, status | operators from processor to processor |
| `CallStack` | what calls and interrupts promise | program place, mode, status, saved frames |
| `CpuFrames` | `executeNextInstruction` with the IRQ pin, on programs that keep their stack in order | the processor and a history of frames; mapping to `CallStack` |
| `CpuFramesProofs` | - | the theorems about `CpuFrames` |
| `CpuRegisters` | the data-moving instructions in any order | the processor |
| `SystemBus` | devices, decoding, accesses of one to three bytes | no state of its own: operators on a board and a memory |
| `Addressing` | addressing modes, loads, stores, memory counts, jumps, branches, MVN and MVP, the widths of the trace | operators over `Cpu65816` and `SystemBus` |
| `FlatMachine` | what addressing promises a program | registers, one array of bytes, the next instruction |
| `MemoryAccess` | `Cpu65816Debugger::step` on programs of those instructions | `Trace`, then `Execute`; mapping to `FlatMachine` |
| `MemoryAccessProofs` | - | the theorems about `MemoryAccess` |
| `SelfTest` | what the POST promises its user | board, report, verdict |
| `KernelPost` | `emul_resetb`, `hiram_test`, `m_rom_test` over `Addressing` | `at` is the label of the next stretch of code; mapping to `SelfTest` |
| `KernelPostProofs` | - | the theorems about `KernelPost` |
| `MC...` | - | values of the constants for TLC |

A register of the UART or the processor status is the set of its bits that are
1. Bits that the code never sets (line errors, MSR deltas) are left out. A
member that no constructor initialises starts with any value of a constant
(`PowerOn`, `PowerOnClocks`, `StackLows`). Popping an empty `std::deque` is
undefined: the model sets `undef` and stops saying anything. `pull16Bit` has
two pulls as operands of one `|`, whose order C++ leaves open:
`PULL_LOW_FIRST` chooses, and the run takes the order in which common
compilers evaluate it; with `FALSE` the property `CallStackSpec` fails, since
every return address has its bytes swapped.

`SerialPort` ties every byte to a queue. Its steps are told apart by `io`, the
byte written, sent, typed or read or the control asked for in that step, which
`UartBus` records from the values of the code (`ReadRBRValue`, `Printed`, the
bits of FCR). So a byte sent or read that is not the head of its queue is no
step of the port, and neither is a queue emptied without a write of FCR that
asks for it. Two things the code does had to be told there: when the FIFOs are
switched off with a byte due, the byte held in THR is due instead, even if it
was sent before, which is the only way for a byte to be sent twice
(`Control`); and after `Misuse`, a FIFO read or transmission that pops an
empty deque, nothing is promised.

`KernelSerial` steps from one access of UART0 to the next. An instruction's
cycles are drawn from `Cycles`, the number of instructions between two
accesses is that of the code where it is short, and drawn from `Idle` where
the kernel does something else. The history variable `typed` remembers whether
a key came during the loopback test. Each `STY` of the set-up stores two
bytes, because `executeSTY` looks at the accumulator's width.

`CpuFrames` constrains the program, not the processor: it pulls only what it
pushed, returns with the instruction that fits the frame and in its mode, and
switches modes only where that leaves the stack pointer alone. Interrupts may
come between any two instructions. Memory below the stack pointer is shown as
zero; nothing reads it.

`SystemBus` names what an access reaches by a cell: the device that the first
byte's address selects, and the index in it. The second and the third byte go to
the same device without decoding again, as in `SystemBus.cpp`. A program of
`MemoryAccess` may begin and end its accesses anywhere, also over the end of a
device or a bank; what follows the array of a ROM is part of `CONTENTS`, and may
be anything. Only the trace reads UART registers there (`Uart` and `UartBus` say
what one holds), and the bounds `WATCHED` and `MOVE` keep the memory that can
change finite. `LeftOnlyAtTheEnd` says where accesses over the end lead.
`FlatSpec` compares a step with `FlatMachine` if it is `Plain`: its access lies
in one device and one bank, and its block move does not overwrite bytes it has
yet to read. A step that is not, such as a word at the end of a bank, whose
second byte the code takes from the start of that bank, is made all the same,
and the steps after it are compared again. On plain steps devices, banks,
decoding and the order of bytes do not show. What the code does and
`FlatMachine` therefore says too: the plain direct page mode ignores D in
emulation mode; STX, STY and STZ take their width from the accumulator; MVN and
MVP leave X and Y as they were, and copy nothing when A is $FFFF.

`KernelPost` runs the kernel's instructions, with the operators of `Cpu65816`
and `Addressing`, on a board: which devices it has, which UARTs pass the
loopback test and which math ROMs hold the right word are chosen at the start.
A step is a stretch of straight code up to a branch. The routines that
`KernelSerial` and `KernelMath` model appear with what they do to the stack,
the registers and the data bank; of the number printed, its first character
is left open, which is where the kernel leaves X.

## Runs

| Run | Question | Bounds and why they are enough |
|---|---|---|
| `uart_bus` | is LSR true of the queues, and is each byte sent or read the one a `SerialPort` would send or return, under any accesses, ticks and keys? | FIFOs of two bytes (empty, one, full), two byte values (order can be told), byte time of two clocks or none, floor of -3 for the timer |
| `kernel_serial` | does every message appear complete and in order, and does the boot end, whatever is typed? does the loopback test fail only for a key? | two messages of two and one characters; ticks shorter and longer than a byte time of 32 clocks; uninitialised registers that are, or are not, the test byte |
| `kernel_math` | is the printed numeral the number? | 196 numbers at the edges of words and digits, including 127 banks |
| `cpu_frames` | do calls and interrupts nest and return properly? | nine bytes of stack, of which sp leaves eight to push: two native contexts, entered one after the other or by an interrupt and a `BRK` in one step; `MAX_SAVED` = 2: any two of frames and saved bytes, in any order; code at both ends of a bank (the offset wraps), two banks, with places for BRK, JSR and JSL to return to |
| `cpu_registers` | are hidden halves kept, and do index registers fit emulation mode? | words of bytes 0 and $FF, so that counting wraps in both widths; three bytes of stack across a page; `Statuses` 0 and $FF, with the words the bytes that `PLP` finds, so that it clears or sets both widths, which `REP` and `SEP` change one by one; `MAX_HELD` = 2: two of A, X, Y and D are other than 0 at once, since no instruction moves a value between more |
| `alu` | is the arithmetic exact? | bytes at the edges of sign, digit and nibble in both halves of a word, every setting of C, D, M; operands are enumerated, one instruction each, and the laws are checked on what it leaves too |
| `memory_access` | do all addressing modes, with any index, pointer and width, do what a flat memory would? where does an access over the end of a device lead? | `STEPS` = 2: an access after one that changed registers, pointers or memory; five processors (both modes, every pair of widths that matters, D at 0, page- and bank-end, DB 0, 1 and $FF) whose indexes carry from bank to bank and from $FF to 0; `MOVE` = 3 bytes, up and down, over the end of a bank; words and pointers that begin at the last byte of the kernel ROM, of a UART, of a bank of RAM and of all RAM, with two contents of the bytes behind the ROM; `WATCHED` holds every RAM byte with an address that these programs may store to, which is a guard (`Followed`) |
| `kernel_post` | does the POST end on every board with the right verdict and the right number? | `RAM_BANKS`: 0, 1, 3, 128 (the default) and 255; `ROM_SIZES`: either math ROM complete or missing; any subset of UARTs working and of tables right; `STACK` is the 16 bytes below the kernel's buffers, and `PostTypeOK` shows that it uses no others |

The runs that find a violation are disagreements between a comment or the
intent of the code and what it does:

| Run | Disagreement |
|---|---|
| `uart_overrun` | RBR read does not clear `rbrFull`: the next byte raises OE though nothing was lost |
| `kernel_keypress` | a key during the loopback test makes the POST fail |
| `kernel_databits` | the two-byte `STY` to FCR clears LCR: five data bits, not eight |
| `alu_sbc_words` | 16-bit SBC takes its borrow from bit 8 |

Three more that the models show and no run repeats: THRE may be clear over an
empty transmit FIFO, and `addCycles` ("There is something to transmit",
`Uart.cpp:304`) then pops an empty deque, which is `undef` in `Uart`; the
second byte of a word at the end of a ROM or UART is asked of the device at an
offset that its `decodeAddress` would not return (`SystemBusDevice.hpp:80` says
"address as returned from decodeAddress"), which `LeftOnlyAtTheEnd` bounds; and
SEP in emulation mode, whose comment says that bits 4 and 5 are not affected
(`OpCode_StatusReg.cpp:68`), clears m through `setRegisterValue`, as
`SetRegisterBits` has it.

Every property of a passing run has a mutant in `PROJECT.json`: a definition
replaced by one with a plausible fault (the operators with an underscore in
their name), under which TLC finds the property violated.

## Fairness

`KernelSerial` and `KernelPost` need it: `WF_kernelVars(Step)`, and
`Stepping`. There is one thread, and `main` calls `step` until `STP`, so that
an instruction that can execute does. `Stepping` is weak fairness of
`KernelPost`'s `Next`, with its ENABLED written out: a next step exists
exactly while no `STP` has been executed. TLC would otherwise evaluate the
whole kernel to find out. Nothing is assumed about keys or about how many
cycles an instruction takes: that `TERM_writes` leaves its polling loop
follows from `addCycles` counting down at every instruction. `ConsoleSpec`
includes the fairness of `SerialConsole` (the boot makes progress), and
`SelfTestSpec` that of `SelfTest` (a verdict is reached); TLC checks both. The
other specifications state safety only: nothing obliges an arbitrary program
to go on.

## Proofs

The first part of `SerialProofs`, which uses only the assumptions of `Uart` and
`UartBus`, proves, for every FIFO capacity of at least 1, every set of bytes,
keys and register inputs, and every clock:

- `TypeCorrect`, `ModesAreSeparate`, `QueuedBytesAreDue`,
  `WaitingBytesAreAnnounced`: the four invariants of the run `uart_bus`;
- `ImplementsPort`: `Spec => PortSpec`, the refinement of `SerialPort`.

The assumptions are `UartAssumption` and `UartBusAssumption`, the types of the
constants. The inductive invariant `Inv` is the conjunction of the four: no
overflow of a FIFO can be shown without knowing which mode is on, a pop keeps
THRE right only because THRE and TEMT agree, and the refinement of a change of
mode needs both `OneModeAtATime` (nothing is lost that nobody resets) and the
types. In the refinement `io` carries the value of each step, so that a read or
a transmission is shown to be of its queue's head. The lemmas follow the code:
`ReceiveInv`, `SendOneInv`, then one lemma per action that moves bytes
(`StoreTHRMoved`, `StoreFCRMoved`, `ReadRBRMoved`, `AddCyclesMoved`), the others
only touching control registers. The refinement has one lemma per action in the
same way, each showing to which step of `SerialPort` the action maps.

The second part of `SerialProofs` proves, for every list of messages, test bytes
and divisor, every keyboard, every number of cycles an instruction may take and
every content of the registers at power-on, from `UartAssumption` and
`KernelSerialAssumption`:

- `KernelTypeCorrect`, `NeverPopsEmpty`, `SetupIsComplete`, `BytesGoSingly` and
  `OnlyAKeyFails`: the five invariants of the run `kernel_serial`;
- `ImplementsConsole`: the boot starts and steps as `SerialConsole` does. This
  is `ConsoleSpec` without its fairness, which TLC checks.

The lemmas about `Uart` are used here too: whatever the kernel does, the
UART's own invariant holds. It is not enough. That nothing pops an empty deque
depends on what the program did before, so the inductive invariant `BootInv`
adds one conjunct per stage of the boot: `LoopTested` (a byte read back is the
byte written unless a key was typed), `SettingUp` (what the first y stores
have left, the register next to each included), `Ready` (what all of them
left), `UnderWay` (what is shown and what is queued are together the first y
characters, and the timer of a byte on its way does not exceed a byte time)
and `Complete`. `Quiet` joins the stages: outside `TERM_writes` nothing waits
for the transmitter, so that the FIFO resets of the setup cannot leave THRE
clear over an empty FIFO.

`AluProofs` proves, for every operand of both widths and every setting of the
flags, from `AluMachineAssumption` (operands are words, initial flags are flags)
what the run `alu` checks at the edges of bytes and digits:

- `AluTypeCorrect`: `Spec => []AluTypeOK`. The type is inductive as it stands;
  every instruction either writes back a `Valid` result or only tests, and one
  lemma per operator of `Alu` bounds its result.
- `AdditionsAreExact`, `SubtractionsOfBytesAreExact`, `ComparisonsSubtract`,
  `RotationsUndoOneAnother`, `DecimalAdditionsAreExact`, `AdditionsChain`.
  A comparison of bytes is compared with one SBC, one of words with two SBC of
  bytes chained by the carry, since SBC of words borrows wrongly.
  Each property speaks of the operators applied to the accumulator and the
  operand, so that it follows from `AluTypeOK` and a fact about the operators
  on words. That fact is proved once per width. For decimal numerals it is
  built from the digit up: `DigitSum` is exact and leaves a digit, then two
  digits, then two bytes.
- `TestBitsFollowTheMask`: the action property about `TSB` and `TRB`, which
  set and clear all of the accumulator's bits and no other. A
  byte is taken apart into its bits and put together again (`BitsOfByte`,
  `ByteOfBits`), so that masks are sets, and the bits of `255 - n` are those
  that n lacks.

`KernelMathProofs` proves, for every 32-bit number, from
`KernelMathAssumption`:

- `PrintsItsNumeral`: `Spec => []NumeralIsExact`. The run `kernel_math` tries
  196 numbers; the theorem is about all of them. While bits move (`Shifting`,
  `Doubling`), the scratchpad's decimal value times 2^32 plus what is left in
  `temp` is the number times 2^(32 - y). No doubling overflows twelve digits,
  because the scratch value stays below 2^(32 - y): that bound is the
  strengthening, and it is why 32 rounds are as many as fit. After them the
  scratch value is the number (`Complete`). `Written` follows the buffer: two
  characters per byte, then only zeros skipped. Each word of a doubling is a
  sum of numerals from `AluLemmas`, which also carries from byte to byte. Sums
  and multiples have no induction here: the powers of two are a table, and the
  numeral has twelve places.
- `PrefixesAreExact`: `Spec => []PrefixInDecimal`. What the two together hold
  has only one division into a scratch value and a rest below 2^32 (`Unique`,
  `UniqueWords`); `FirstWord` and `SecondWord` name it, for up to 16 bits and
  from 16 bits on, so that the scratch value is the prefix and `temp` the other
  bits (`PrefixHeld`). `PrefixGrows` relates a prefix to the one before, as
  the property's tens and last digit do, and a value below 2^32 has ten digits
  (`TenDigits`).

`CpuRegistersProofs` proves, for every set of words to load, every set of masks
of `REP` and `SEP` and every stack area, from `CpuAssumption` and
`CpuRegistersAssumption`:

- `RegistersTypeCorrect`, `IndexesFitEmulation`, `HiddenBytesKept`: the type,
  the high bytes of X and Y that are zero in emulation mode, and the high byte
  of the accumulator that an 8-bit instruction keeps. The first two are one
  inductive invariant: `IndexFitsEmulation` alone does not survive a transfer
  into an index, which copies eight bits only because `X` is set in emulation
  mode and the registers are words. `PLP` of any byte is among the instructions
  (`PullStatusMoves`): it may change both widths, never the mode. The third is an
  action property: the lemmas bound what one instruction may do to a processor
  (`Moves`), and it follows.

`CpuFramesProofs` proves, from `CpuAssumption` and `CpuFramesAssumption` (the
stack area is any set of offsets without gaps from 8 up, and the stack starts
in it), for every such area, every program place and all vectors:

- `FramesTyped`, `StatusIsRestored`: the two invariants of the run `cpu_frames`;
- `CallsReturn`: `Spec => CallStackSpec`, the refinement of `CallStack`, under
  the hypothesis `PULL_LOW_FIRST`; with the other order it is false.

The inductive invariant is `Sound`: types, and that the frames the history
remembers lie on the stack one below the other, with the stack pointer below
all of them. It says nothing of what they hold, which is the abstract state; a
step keeps it because it writes no byte above the lower of the stack pointers
before and after it. One step may be two: an interrupt is entered and its
handler's first instruction runs. The entry may leave the stack area for that
moment, and then only `RTI` brings the processor back. Below offset 8 two
contexts would wrap around offset 0, hence the assumption. Flags and status
bytes are sets and numbers, for which `AluLemmas` has the lemmas.

`MemoryAccessProofs` proves, for every board, program, content of memory and
number of steps, from `BoardAssumption` (devices begin at a bank or end in the
bank they begin in, and RAM is a number of banks from address 0 on, as in
`main.cpp`), `ProgramAssumption` (instructions of the opcode table, operands of
the bytes theirs may have), `MemoryAccessAssumption` (types) and
`CpuAssumption`:

- `MemoryTyped`, `DevicesLeftOnlyAtTheEnd`: the two invariants of the run
  `memory_access`; the second for any operands, pointers and registers, since
  nothing keeps a program from the end of a device;
- `SeesFlatMemory`: `Spec => FlatSpec`, the refinement of `FlatMachine` in its
  plain steps.

The inductive invariant is `Sound`: the types, that a traced instruction may
be executed as things stand, and that the cells touched are its own. The long
part is about addresses. An address is the number 65536 * bank + offset, and
the carry of `IncrementAbsolute` is a sum modulo 2^24 (`SumIs`); two addresses
with the same cell are one (`CellsDiffer`), and an access that is `Whole`
touches the cells of consecutive numbers (`WholeCell`), which is where the
hypothesis on boards is needed. On that rest `PointerIs`, `ThroughIs` and
`TargetIs`, which say mode by mode that `Target` is `EA`, and one lemma per
operation for what it finds and leaves. The overlap of a block move is
followed byte by byte: `Arrived` says which bytes are in place after n of
them, `ArrivedOne` that one more keeps it so because the program writes no
byte it has yet to read (`Ahead`). The induction over n uses that a set of
naturals has a least element.

`KernelPostProofs` proves, for every board of `main.cpp` with up to 255 banks
of RAM and math ROMs of any even size, every set of working UARTs and of right
tables, every stack pointer at power-on, both orders of `pull16Bit` and every
stack area that includes the kernel's 16 bytes, from `KernelPostAssumption`
and `CpuAssumption`:

- `PostTypeCorrect`, `AlwaysBalanced`, `BytesKeepApart`: the three invariants of
  the run `kernel_post`;
- `ImplementsSelfTest`: the self-test starts and steps as `SelfTest` does.
  This is `SelfTestSpec` without its fairness, which TLC checks.

The inductive invariant is `PostInv`, one conjunct per kind of knowledge, each
by labels. None of the three invariants is inductive alone: that `hiram_test`
returns to bank 0 takes the 0 in Y from the second UART's test on
(`Balanced`); that its count is that of the board takes that all banks below X
are RAM (`Counts`), the uniqueness of the place where they end
(`HighBanksAre`) and that Ram's size is a byte, so that `INX` cannot wrap;
that the verdict is right takes what each test passed has shown (`Passed`),
and that the flags are those of the tables takes that no store of the test
reaches a table (`MemoryOK`). The lemmas come in three layers. The first
decodes addresses on every such board: which device answers a bank's first
bytes (`ServingLow`, `RamIs`), that a pattern written there is read again
exactly if it is RAM (`Probes`), and that the words of the zero page do not
overlap (`StoreZeroPage`). The second has one lemma per instruction (`PEAIs`
to `GoNativeIs`) and per routine (`LoopTestedIs`, `PrintedIs`), for a
processor in native mode with a wide accumulator and narrow index registers
(`Native`). The third has one lemma per action.

Only model-checked: that the boot and the self-test end (the liveness halves of
`ConsoleSpec` and `SelfTestSpec`), since liveness is out of TLAPS's reach. Every
invariant and action property that a passing run checks is also a theorem.

## Not modelled, and the plan

Done: the UART, the serial boot, decimal printing, the processor's control,
registers and arithmetic, addressing and the bus, the memory and ROM tests, each
with its proofs. What could follow:

1. One composition of `KernelPost` with `KernelSerial` and `KernelMath`, in
   which the loopback test runs on `Uart` in place of the choice `working`. Its
   states are the product of what the two runs reach now, and the parts share
   only the stack, Y and the data bank, which `KernelPost` keeps.
2. The rows of the opcode table that `Addressing` leaves out: arithmetic through
   each mode, which is `AluMachine` on the operand that `Addressing` finds.

Left out for good: logging and the trace's wording, exact cycle counts per
instruction (only that some pass), interrupts from the UART (a TODO in the
source), RDY, NMI and ABORT (pins nobody reads), the contents of the table
ROMs, and the 32-bit overflow of the byte timer, which takes 2^31 clocks to
reach.
