---------------------------- MODULE KernelSerial ----------------------------
(***************************************************************************)
(* The kernel's boot as far as UART0 and the terminal are concerned        *)
(* (kernel/dt65pc.s, kernel/uart.s): the loopback test, the configuration  *)
(* of the UART and the calls of TERM_writes, running on the simulated CPU. *)
(* An instruction that accesses the UART is one step; then come as many    *)
(* steps of addCycles as that instruction and those up to the next access  *)
(* make, each of which may poll the keyboard.                              *)
(*                                                                         *)
(* An operator named like PollTHRE_NoWait is the one before the underscore *)
(* with a plausible fault, against which the properties are tried; no      *)
(* action uses it.                                                         *)
(***************************************************************************)
EXTENDS Uart

CONSTANTS
  Messages,     \* the strings printed, each a sequence of non-zero bytes
  TEST1, TEST2, \* the bytes of the loopback test, $55 and $AA
  DIVISOR,      \* the divisor latch's low byte for 19200 baud, 16
  Idle          \* how many addCycles pass where no UART access is made

ASSUME KernelSerialAssumption ==
  /\ Messages \in Seq(Seq(Byte \ {0})) /\ Messages # <<>>
  /\ {0, TEST1, TEST2, DIVISOR} \subseteq Byte
  /\ TEST1 # TEST2 /\ DIVISOR # 0
  /\ Idle \subseteq Nat

VARIABLES
  pc,     \* the next access
  y,      \* the Y register: index into the message, or the setup step
  ticks,  \* calls of addCycles still to come before it
  call,   \* number of the call of TERM_writes
  line,   \* what the terminal shows of the current message
  typed   \* history: a key arrived during the loopback test

uart == vars
kernelVars == <<vars, pc, y, ticks, call, line, typed>>

KInit ==
  /\ Init
  /\ pc = "loop.MCR" /\ ticks \in Idle
  /\ y = 0 /\ call = 0 /\ line = <<>> /\ typed = FALSE

Goto(label, n) == pc' = label /\ ticks' = n

-----------------------------------------------------------------------------
(* u_loop_test on UART0.                                                   *)

LoopMode ==
  /\ pc = "loop.MCR"
  /\ StoreMCR({"LOOPBACK"})
  /\ Goto("loop.write1", 3)
  /\ UNCHANGED <<y, call, line>>

\* A write to offset 0, the divisor latch or the transmitter.
Store0(val) == StoreDLL(val) \/ StoreTHR(val)

LoopWrite ==
  \/ /\ pc = "loop.write1" /\ Store0(TEST1)
     /\ Goto("loop.read1", 2)
     /\ UNCHANGED <<y, call, line>>
  \/ /\ pc = "loop.write2" /\ Store0(TEST2)
     /\ Goto("loop.read2", 2)
     /\ UNCHANGED <<y, call, line>>

LoopRead ==
  /\ pc \in {"loop.read1", "loop.read2"}
  /\ ReadRBR
  /\ \/ /\ pc = "loop.read1" /\ ReadRBRValue = TEST1
        /\ Goto("loop.write2", 4)
     \/ /\ pc = "loop.read2" /\ ReadRBRValue = TEST2
        /\ \E n \in Idle : Goto("setup", n)
     \/ /\ ReadRBRValue # (IF pc = "loop.read1" THEN TEST1 ELSE TEST2)
        /\ Goto("post_fail", 0)
  /\ UNCHANGED <<y, call, line>>

-----------------------------------------------------------------------------
(* Configuration of UART0.  The accumulator is 16 bits wide here, so that  *)
(* executeSTY stores two bytes: the register meant and the one after it.   *)

SetupStore ==
  \/ y = 0  /\ StoreLCR({"DLAB"})
  \/ y = 1  /\ StoreMCR({})
  \/ y = 2  /\ Store0(DIVISOR)
  \/ y = 3  /\ (StoreDLM(0) \/ StoreIER({}))
  \/ y = 4  /\ (StoreDLM(0) \/ StoreIER({}))
  \/ y = 5  /\ StoreFCR({})
  \/ y = 6  /\ StoreLCR({"8BITS"})
  \/ y = 7  /\ StoreMCR({})
  \/ y = 8  /\ StoreFCR({"FIFO_ENABLE"})
  \/ y = 9  /\ StoreLCR({})
  \/ y = 10 /\ StoreMCR({"DTR"})
  \/ y = 11 /\ UNCHANGED uart

Setup ==
  /\ pc = "setup"
  /\ SetupStore
  /\ IF y < 11
     THEN y' = y + 1 /\ Goto("setup", IF y % 2 = 0 THEN 0 ELSE 3)
     ELSE y' = 0 /\ \E n \in Idle : Goto("call", n)
  /\ UNCHANGED <<call, line>>

-----------------------------------------------------------------------------
(* TERM_writes, called once per message.                                   *)

Call_OnceMore ==
  /\ pc = "call" /\ call <= Len(Messages)
  /\ call' = call + 1
  /\ y' = 0
  /\ line' = <<>>
  /\ Goto("poll", 1)
  /\ UNCHANGED uart
Call ==
  /\ pc = "call" /\ call < Len(Messages)
  /\ call' = call + 1
  /\ y' = 0
  /\ line' = <<>>
  /\ Goto("poll", 1)
  /\ UNCHANGED uart

PollTHRE_NoWait ==
  /\ pc = "poll"
  /\ ReadLSR
  /\ Goto("next", 5)
  /\ UNCHANGED <<y, call, line>>
PollTHRE ==
  /\ pc = "poll"
  /\ ReadLSR
  /\ IF "THRE" \in mLSR THEN Goto("next", 5) ELSE Goto("poll", 3)
  /\ UNCHANGED <<y, call, line>>

\* lda (3,s),y has fetched the next character; the terminating zero returns.
NextChar ==
  /\ pc = "next"
  /\ \/ /\ y < Len(Messages[call])
        /\ Store0(Messages[call][y + 1])
        /\ y' = y + 1
        /\ Goto("poll", 3)
     \/ /\ y = Len(Messages[call])
        /\ UNCHANGED <<uart, y>>
        /\ \E n \in Idle : Goto("call", n)
  /\ UNCHANGED <<call, line>>

\* The monitor, or a later failure of the POST, stops the processor.
Finish ==
  /\ pc = "call" /\ call = Len(Messages)
  /\ Goto("stp", 0)
  /\ UNCHANGED <<uart, y, call, line>>

-----------------------------------------------------------------------------
LoopTest == LoopMode \/ LoopWrite \/ LoopRead

Execute ==
  /\ LoopTest \/ Setup \/ Call \/ PollTHRE \/ NextChar \/ Finish
  /\ UNCHANGED typed

Testing == pc \in {"loop.MCR", "loop.write1", "loop.read1", "loop.write2",
                   "loop.read2"}

\* addToCycles, at the end of every instruction.
Tick ==
  /\ ticks' = ticks - 1
  /\ \E cycles \in Cycles, key \in Keys :
       /\ AddCycles(cycles, key)
       /\ line' = line \o Printed(cycles)
       /\ typed' = (typed \/ (Testing /\ ByteTime(cycles) /\ key # 0))
  /\ UNCHANGED <<pc, y, call>>

\* STP: the simulation loop has ended.
Stopped == pc \in {"stp", "post_fail"} /\ UNCHANGED kernelVars

Step == ~undef /\ IF ticks = 0 THEN Execute ELSE Tick

KNext == Step \/ Stopped

\* One thread executes instruction after instruction until STP.
KSpec == KInit /\ [][KNext]_kernelVars /\ WF_kernelVars(Step)

-----------------------------------------------------------------------------
Writing == pc \in {"poll", "next"}

\* Every variable of the kernel has a value of its type.
KTypeOK ==
  /\ TypeOK
  /\ pc \in {"loop.MCR", "loop.write1", "loop.read1", "loop.write2",
             "loop.read2", "setup", "call", "poll", "next", "stp", "post_fail"}
  /\ y \in Nat /\ ticks \in Nat
  /\ call \in 0..Len(Messages)
  /\ line \in Seq(Byte) /\ typed \in BOOLEAN

\* The kernel's use of the UART never makes it pop an empty deque.
NeverUndefined == ~undef

\* When TERM_writes runs, the UART sends at 19200 baud, outside loopback and
\* with the divisor latch closed, although each STY of the setup also
\* overwrites the register after the one it means.
ConfiguredForWriting ==
  pc = "call" \/ Writing =>
    /\ FifoEnabled /\ ~Loopback /\ ~LatchAccess
    /\ mClocksPerByte = 2 * DIVISOR

\* TERM_writes never has more than one byte on its way, and that byte leaves
\* within one byte time: polling THRE before each store keeps the store from
\* restarting the timer of an earlier byte.
OneByteAtATime ==
  Writing =>
    /\ Len(line) + Len(mXmitFifo) = y
    /\ Len(mXmitFifo) <= 1
    /\ Transmitting => mClocksUntilSend <= mClocksPerByte

\* What someone at the terminal would say the kernel is doing.
Status == CASE pc \in {"poll", "next"} -> "printing"
            [] pc = "call" /\ call > 0 -> "idle"
            [] pc = "stp"              -> "finished"
            [] pc = "post_fail"        -> "failed"
            [] OTHER                   -> "post"

Console == INSTANCE SerialConsole WITH status <- Status

\* What the terminal shows is each message, complete and in order, and the
\* boot ends whatever keys are pressed.
ConsoleSpec == Console!Spec

\* The loopback test fails only if a key came in between: whatever registers
\* and byte timer hold at power-on, and however long the instructions take.
FailsOnlyForAKey == pc = "post_fail" => typed

\* uart.s:131-132, "write a couple bytes to the transmit register and verify
\* they read back correctly": a working UART passes its loopback test.
LoopTestPasses == pc # "post_fail"

\* dt65pc.s:140, "ldy #uLCR_8BITS | uLCR_1STOP": the messages are sent with
\* eight data bits.
EightDataBits == Writing => "8BITS" \in mLCR
=============================================================================
