-------------------------------- MODULE Uart --------------------------------
(***************************************************************************)
(* The simulated PC16550D UART (simulator/src/Uart.cpp), seen from the     *)
(* system bus: one action per register the CPU can write or read, and      *)
(* AddCycles, the call by which the bus tells every device that an         *)
(* instruction has taken some clock cycles.                                *)
(*                                                                         *)
(* A control or status register is the set of its bits that are 1, by the  *)
(* names the source gives them; bits without any effect are left out.      *)
(* Line errors (PE, FE, BI, FIFO_ERR) and MSR's delta bits are never set   *)
(* by the code, so they do not appear.                                     *)
(*                                                                         *)
(* An operator named like Rest_PopBack is the one before the underscore    *)
(* with a plausible fault, against which the properties are tried; no      *)
(* action uses it.                                                         *)
(***************************************************************************)
EXTENDS Integers, Sequences

CONSTANTS
  Byte,         \* the values of the data registers and of the divisor latch
  FIFO_SIZE,    \* capacity of both FIFOs
  Keys,         \* what Terminal::read may return; 0 is "no key was pressed"
  Cycles,       \* what one call of addCycles may report
  PowerOn,      \* the values an uninitialised byte may hold
  PowerOnClocks \* the values the uninitialised mClocksUntilSend may hold

ASSUME UartAssumption ==
  /\ Byte \subseteq 0..255
  /\ Keys \subseteq Byte \cup {0}
  /\ FIFO_SIZE \in Nat \ {0}
  /\ Cycles \subseteq Nat \ {0}
  /\ PowerOn \subseteq Byte
  /\ PowerOnClocks \subseteq Int

VARIABLES
  mRcvrFifo, mXmitFifo,   \* the two std::deques
  mRBR, mTHR, mSCR,       \* receiver buffer, transmitter holding, scratch
  mIER, mIIR, mFCR, mLCR, mMCR, mLSR, mMSR,
  mDLL, mDLM,             \* divisor latch, low and high byte
  mClocksPerByte,         \* the 32-bit 0xFFFFFFFF of the constructor is -1
  mClocksUntilSend,
  rbrFull,
  undef                   \* an empty deque was popped: behaviour undefined

queues    == <<mRcvrFifo, mXmitFifo>>
data      == <<mRBR, mTHR>>
timing    == <<mClocksPerByte, mClocksUntilSend>>
divisor   == <<mDLL, mDLM>>
interrupt == <<mIER, mIIR>>
vars == <<queues, data, timing, divisor, interrupt, mSCR, mFCR, mLCR, mMCR,
          mLSR, mMSR, rbrFull, undef>>

Empty            == {"THRE", "TEMT"}     \* always set and cleared together
InterruptEnables == {"ERBFI", "ETBEI", "ELSI", "EDSSI"}
LineControl      == {"DLAB", "8BITS"}
FifoControl      == {"FIFO_ENABLE", "RCVR_FIFO_RESET", "XMIT_FIFO_RESET"}
ModemInputs      == {"CTS", "DSR", "RI", "DCD"}
ModemControl     == {"DTR", "RTS", "OUT1", "OUT2", "LOOPBACK"}

FifoEnabled == "FIFO_ENABLE" \in mFCR
Loopback    == "LOOPBACK" \in mMCR
LatchAccess == "DLAB" \in mLCR

(***************************************************************************)
(* The constructor.  The members it leaves out hold whatever the memory    *)
(* held.                                                                   *)
(***************************************************************************)
Init ==
  /\ mRcvrFifo = <<>> /\ mXmitFifo = <<>>
  /\ mRBR \in PowerOn /\ mTHR \in PowerOn /\ mSCR \in PowerOn
  /\ mDLL \in PowerOn /\ mDLM \in PowerOn
  /\ mIER = {} /\ mIIR = {} /\ mFCR = {} /\ mLCR = {} /\ mMCR = {}
  /\ mLSR = Empty
  /\ mMSR = {}
  /\ mClocksPerByte = -1
  /\ mClocksUntilSend \in PowerOnClocks
  /\ rbrFull = FALSE
  /\ undef = FALSE

-----------------------------------------------------------------------------
(* The helpers of a transfer.                                              *)

\* The byte the transmitter sends next, and what it leaves, when its queue
\* is xmit, its holding register thr and the line status lsr.
NextOut_HoldingRegister(xmit, thr) == thr
NextOut(xmit, thr) == IF FifoEnabled THEN Head(xmit) ELSE thr
Rest_PopBack(xmit) == IF FifoEnabled THEN SubSeq(xmit, 1, Len(xmit) - 1)
                      ELSE xmit
Rest(xmit)         == IF FifoEnabled THEN Tail(xmit) ELSE xmit
StatusAfterSend_Always(xmit, lsr) == lsr \cup Empty
StatusAfterSend_Never(xmit, lsr) ==
  IF FifoEnabled THEN lsr ELSE lsr \cup Empty
StatusAfterSend(xmit, lsr) ==
  IF FifoEnabled /\ Tail(xmit) # <<>> THEN lsr ELSE lsr \cup Empty

\* receive(val), with the line status lsr that the caller has computed.
Receive(val, lsr) ==
  IF FifoEnabled
  THEN LET full == Len(mRcvrFifo) >= FIFO_SIZE IN
       /\ mRcvrFifo' = IF full THEN mRcvrFifo ELSE Append(mRcvrFifo, val)
       /\ mLSR' = lsr \cup {"DR"} \cup (IF full THEN {"OE"} ELSE {})
       /\ UNCHANGED <<mRBR, rbrFull>>
  ELSE /\ mLSR' = lsr \cup {"DR"} \cup (IF rbrFull THEN {"OE"} ELSE {})
       /\ mRBR' = val
       /\ rbrFull' = TRUE
       /\ UNCHANGED mRcvrFifo

\* send(), after the CPU's write has left the queue at xmit, the holding
\* register at thr and the line status at lsr.
Send(xmit, thr, lsr) ==
  \/ /\ Loopback
     /\ mXmitFifo' = Rest(xmit)
     /\ Receive(NextOut(xmit, thr), StatusAfterSend(xmit, lsr))
     /\ UNCHANGED mClocksUntilSend
  \/ /\ ~Loopback
     /\ mClocksUntilSend' = mClocksPerByte
     /\ mXmitFifo' = xmit
     /\ mLSR' = lsr
     /\ UNCHANGED <<mRcvrFifo, mRBR, rbrFull>>

\* setByteRate(): two clocks per unit of the divisor.
ByteRate(dll, dlm) == 2 * (256 * dlm + dll)

-----------------------------------------------------------------------------
(* storeByte, by register.                                                 *)

\* What a byte offered to the transmitter leaves in the FIFO: a full FIFO
\* drops it without a trace.
Queued_Unlimited(val) ==
  IF FifoEnabled THEN Append(mXmitFifo, val) ELSE mXmitFifo
Queued(val) ==
  IF FifoEnabled /\ Len(mXmitFifo) < FIFO_SIZE
  THEN Append(mXmitFifo, val) ELSE mXmitFifo

StoreTHR(val) ==
  /\ ~LatchAccess
  /\ mTHR' = IF FifoEnabled THEN mTHR ELSE val
  /\ Send(Queued(val), val, mLSR \ Empty)
  /\ UNCHANGED <<mClocksPerByte, divisor, interrupt, mSCR, mFCR, mLCR, mMCR,
                 mMSR, undef>>

StoreDLL(val) ==
  /\ LatchAccess
  /\ mDLL' = val
  /\ mClocksPerByte' = ByteRate(val, mDLM)
  /\ UNCHANGED <<queues, data, mClocksUntilSend, mDLM, interrupt, mSCR, mFCR,
                 mLCR, mMCR, mLSR, mMSR, rbrFull, undef>>

StoreDLM(val) ==
  /\ LatchAccess
  /\ mDLM' = val
  /\ mClocksPerByte' = ByteRate(mDLL, val)
  /\ UNCHANGED <<queues, data, mClocksUntilSend, mDLL, interrupt, mSCR, mFCR,
                 mLCR, mMCR, mLSR, mMSR, rbrFull, undef>>

StoreIER(bits) ==
  /\ ~LatchAccess
  /\ mIER' = bits
  /\ UNCHANGED <<queues, data, timing, divisor, mIIR, mSCR, mFCR, mLCR, mMCR,
                 mLSR, mMSR, rbrFull, undef>>

\* The FIFO control register: reset bits count only when the FIFOs were and
\* stay enabled; changing the mode empties both.  LSR is never touched.
ModeChange_OnlyOn(bits) == ~FifoEnabled /\ "FIFO_ENABLE" \in bits
ModeChange(bits) == FifoEnabled # ("FIFO_ENABLE" \in bits)

StoreFCR(bits) ==
  LET on    == "FIFO_ENABLE" \in bits
      reset == ModeChange(bits) IN
  /\ mRcvrFifo' = IF reset \/ (on /\ "RCVR_FIFO_RESET" \in bits)
                  THEN <<>> ELSE mRcvrFifo
  /\ mXmitFifo' = IF reset \/ (on /\ "XMIT_FIFO_RESET" \in bits)
                  THEN <<>> ELSE mXmitFifo
  /\ mFCR' = IF on THEN {"FIFO_ENABLE"} ELSE {}
  /\ mIIR' = IF on THEN {"FIFO_INT"} ELSE {}
  /\ rbrFull' = IF on /\ ~FifoEnabled THEN FALSE ELSE rbrFull
  /\ UNCHANGED <<data, timing, divisor, mIER, mSCR, mLCR, mMCR, mLSR, mMSR,
                 undef>>

StoreLCR_Sticky(bits) ==
  /\ mLCR' = mLCR \cup bits
  /\ UNCHANGED <<queues, data, timing, divisor, interrupt, mSCR, mFCR, mMCR,
                 mLSR, mMSR, rbrFull, undef>>
StoreLCR(bits) ==
  /\ mLCR' = bits
  /\ UNCHANGED <<queues, data, timing, divisor, interrupt, mSCR, mFCR, mMCR,
                 mLSR, mMSR, rbrFull, undef>>

\* setMSR for the four modem inputs: in loopback they follow the outputs.
LoopedInputs(bits) ==
  {i \in ModemInputs : \/ i = "CTS" /\ "RTS" \in bits
                       \/ i = "DSR" /\ "DTR" \in bits
                       \/ i = "RI" /\ "OUT1" \in bits
                       \/ i = "DCD" /\ "OUT2" \in bits}

ModemControlBits_LowNibble(bits) == bits \ {"LOOPBACK"}
ModemControlBits(bits) == bits \cap ModemControl

StoreMCR(bits) ==
  /\ mMCR' = ModemControlBits(bits)
  /\ mMSR' = IF "LOOPBACK" \in bits THEN LoopedInputs(bits) ELSE mMSR
  /\ UNCHANGED <<queues, data, timing, divisor, interrupt, mSCR, mFCR, mLCR,
                 mLSR, rbrFull, undef>>

StoreSCR(val) ==
  /\ mSCR' = val
  /\ UNCHANGED <<queues, data, timing, divisor, interrupt, mFCR, mLCR, mMCR,
                 mLSR, mMSR, rbrFull, undef>>

-----------------------------------------------------------------------------
(* readByte, by register.  Reading DLL, DLM, IER, IIR, LCR, MCR or SCR     *)
(* returns the register and changes nothing.                               *)

\* What a read of offset 0 returns with DLAB clear, and 0 stands for "no
\* byte": in FIFO mode the code looks at the transmit FIFO.
ReadRBRValue ==
  IF ~FifoEnabled THEN mRBR
  ELSE IF mXmitFifo # <<>> THEN Head(mRcvrFifo) ELSE 0

StatusAfterRead_Always(rest) == mLSR \ {"DR"}
StatusAfterRead(rest) == IF rest = <<>> THEN mLSR \ {"DR"} ELSE mLSR

ReadRBR ==
  /\ ~LatchAccess
  /\ \/ /\ ~FifoEnabled
        /\ mLSR' = mLSR \ {"DR"}
        /\ UNCHANGED <<mRcvrFifo, undef>>
     \/ /\ FifoEnabled /\ mXmitFifo = <<>>
        /\ UNCHANGED <<mRcvrFifo, mLSR, undef>>
     \/ /\ FifoEnabled /\ mXmitFifo # <<>>
        /\ mRcvrFifo # <<>>
        /\ mRcvrFifo' = Tail(mRcvrFifo)
        /\ mLSR' = StatusAfterRead(mRcvrFifo')
        /\ UNCHANGED undef
     \/ /\ FifoEnabled /\ mXmitFifo # <<>>
        /\ mRcvrFifo = <<>>
        /\ undef' = TRUE
        /\ UNCHANGED <<mRcvrFifo, mLSR>>
  /\ UNCHANGED <<mXmitFifo, data, timing, divisor, interrupt, mSCR, mFCR,
                 mLCR, mMCR, mMSR, rbrFull>>

ReadLSR ==
  /\ mLSR' = mLSR \ {"OE"}
  /\ UNCHANGED <<queues, data, timing, divisor, interrupt, mSCR, mFCR, mLCR,
                 mMCR, mMSR, rbrFull, undef>>

ReadMSR ==
  /\ mMSR' = ModemInputs
  /\ UNCHANGED <<queues, data, timing, divisor, interrupt, mSCR, mFCR, mLCR,
                 mMCR, mLSR, rbrFull, undef>>

-----------------------------------------------------------------------------
(* addCycles(cycles); key is what Terminal::read returns should this call  *)
(* poll it (always 0 for a UART without a terminal).                       *)

ByteTime(cycles)  == mClocksUntilSend - cycles <= 0
Transmitting      == "THRE" \notin mLSR
Underrun          == Transmitting /\ FifoEnabled /\ mXmitFifo = <<>>

\* The byte this call writes to the terminal, as a sequence of length 0 or 1.
Printed(cycles) ==
  IF ByteTime(cycles) /\ Transmitting /\ ~Underrun
  THEN <<NextOut(mXmitFifo, mTHR)>> ELSE <<>>

\* The terminal's key, if there is one, arrives after the byte has left.
Poll(key, lsr) ==
  IF key = 0
  THEN mLSR' = lsr /\ UNCHANGED <<mRcvrFifo, mRBR, rbrFull>>
  ELSE Receive(key, lsr)

AddCycles(cycles, key) ==
  /\ \/ /\ ~ByteTime(cycles)
        /\ mClocksUntilSend' = mClocksUntilSend - cycles
        /\ UNCHANGED <<queues, mRBR, mLSR, rbrFull, undef>>
     \/ /\ ByteTime(cycles) /\ Underrun
        /\ undef' = TRUE
        /\ UNCHANGED <<queues, mRBR, mLSR, rbrFull, mClocksUntilSend>>
     \/ /\ ByteTime(cycles) /\ ~Underrun
        /\ mClocksUntilSend' = mClocksUntilSend - cycles + mClocksPerByte
        /\ IF Transmitting
           THEN /\ mXmitFifo' = Rest(mXmitFifo)
                /\ Poll(key, StatusAfterSend(mXmitFifo, mLSR))
           ELSE /\ UNCHANGED mXmitFifo
                /\ Poll(key, mLSR)
        /\ UNCHANGED undef
  /\ UNCHANGED <<mTHR, mClocksPerByte, divisor, interrupt, mSCR, mFCR, mLCR,
                 mMCR, mMSR>>

-----------------------------------------------------------------------------
(* Properties of the device, whoever drives it.                            *)

\* Every variable holds a value of its type; no FIFO exceeds its capacity.
TypeOK ==
  /\ mRcvrFifo \in Seq(Byte) /\ Len(mRcvrFifo) <= FIFO_SIZE
  /\ mXmitFifo \in Seq(Byte) /\ Len(mXmitFifo) <= FIFO_SIZE
  /\ mRBR \in Byte /\ mTHR \in Byte /\ mSCR \in Byte
  /\ mDLL \in Byte /\ mDLM \in Byte
  /\ mIER \subseteq InterruptEnables /\ mIIR \subseteq {"FIFO_INT"}
  /\ mFCR \subseteq {"FIFO_ENABLE"} /\ mLCR \subseteq LineControl
  /\ mMCR \subseteq ModemControl /\ mMSR \subseteq ModemInputs
  /\ mLSR \subseteq Empty \cup {"DR", "OE"}
  /\ mClocksPerByte \in Int /\ mClocksUntilSend \in Int
  /\ rbrFull \in BOOLEAN /\ undef \in BOOLEAN

\* The FIFOs are in use only in FIFO mode and RBR is marked full only outside
\* it: no switch of mode, and no byte that arrives after one, leaves a byte
\* where nobody will look for it.
OneModeAtATime ==
  IF FifoEnabled THEN ~rbrFull ELSE mRcvrFifo = <<>> /\ mXmitFifo = <<>>

\* While a byte waits in the transmit FIFO, LSR does not report an empty
\* transmitter, so that addCycles will not skip it; THRE and TEMT agree.
QueuedByteIsDue ==
  /\ mXmitFifo # <<>> => "THRE" \notin mLSR
  /\ "THRE" \in mLSR <=> "TEMT" \in mLSR

\* While a byte waits in the receive FIFO, LSR announces it.
WaitingByteIsAnnounced == mRcvrFifo # <<>> => "DR" \in mLSR
=============================================================================
