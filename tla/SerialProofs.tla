---------------------------- MODULE SerialProofs ----------------------------
(***************************************************************************)
(* For every set of byte values, FIFO capacity, keyboard, cycle count and  *)
(* set of values the CPU may write: the UART keeps its types and its       *)
(* queues consistent with the line status, and implements SerialPort.      *)
(* The first part says what every operation of Uart preserves, whoever     *)
(* calls it and with whatever values; it uses no assumption about the      *)
(* kernel.                                                                 *)
(*                                                                         *)
(* For every list of messages, keyboard, speed of the processor and state  *)
(* of the UART at power-on: the boot configures the UART before it writes, *)
(* never pops an empty deque, has at most one byte on its way, fails only  *)
(* for a key, and takes no step that SerialConsole does not allow.         *)
(***************************************************************************)
EXTENDS KernelSerial, UartBus, TLAPS


\* The inductive invariant.  The types alone do not bound the FIFOs' contents
\* by their mode, and the mode decides which of the conjuncts applies.
Inv == TypeOK /\ OneModeAtATime /\ QueuedByteIsDue /\ WaitingByteIsAnnounced

\* Queue operations stay within the type and the capacity of a FIFO.
LEMMA AppendFits ==
  ASSUME NEW q \in Seq(Byte), NEW b \in Byte, Len(q) < FIFO_SIZE
  PROVE  /\ Append(q, b) \in Seq(Byte) /\ Len(Append(q, b)) <= FIFO_SIZE
         /\ Append(q, b) # <<>>
BY UartAssumption

LEMMA TailFits ==
  ASSUME NEW q \in Seq(Byte), q # <<>>, Len(q) <= FIFO_SIZE
  PROVE  /\ Tail(q) \in Seq(Byte) /\ Len(Tail(q)) <= FIFO_SIZE
         /\ Head(q) \in Byte
BY UartAssumption

LEMMA EmptyFits == <<>> \in Seq(Byte) /\ Len(<<>>) <= FIFO_SIZE
BY UartAssumption

\* The device starts in the invariant.
LEMMA InitInv == Init => Inv
<1>. SUFFICES ASSUME Init PROVE Inv
  OBVIOUS
<1>1. TypeOK
  <2>1. /\ mRcvrFifo \in Seq(Byte) /\ Len(mRcvrFifo) <= FIFO_SIZE
        /\ mXmitFifo \in Seq(Byte) /\ Len(mXmitFifo) <= FIFO_SIZE
    BY EmptyFits DEF Init
  <2>2. /\ mRBR \in Byte /\ mTHR \in Byte /\ mSCR \in Byte
        /\ mDLL \in Byte /\ mDLM \in Byte
        /\ mClocksPerByte \in Int /\ mClocksUntilSend \in Int
    BY UartAssumption DEF Init
  <2>3. /\ mIER \subseteq InterruptEnables /\ mIIR \subseteq {"FIFO_INT"}
        /\ mFCR \subseteq {"FIFO_ENABLE"} /\ mLCR \subseteq LineControl
        /\ mMCR \subseteq ModemControl /\ mMSR \subseteq ModemInputs
        /\ mLSR \subseteq Empty \cup {"DR", "OE"}
    BY DEF Init
  <2>4. rbrFull \in BOOLEAN /\ undef \in BOOLEAN
    BY DEF Init
  <2>. QED BY <2>1, <2>2, <2>3, <2>4 DEF TypeOK
<1>2. OneModeAtATime /\ QueuedByteIsDue /\ WaitingByteIsAnnounced
  BY DEF Init, OneModeAtATime, QueuedByteIsDue, WaitingByteIsAnnounced,
         Empty
<1>. QED BY <1>1, <1>2 DEF Inv

\* receive() keeps the receiver's part of the invariant, from whatever line
\* status the caller has computed.
LEMMA ReceiveInv ==
  ASSUME Inv, NEW val \in Byte, NEW lsr \in SUBSET (Empty \cup {"DR", "OE"}),
         Receive(val, lsr)
  PROVE  /\ mRcvrFifo' \in Seq(Byte) /\ Len(mRcvrFifo') <= FIFO_SIZE
         /\ mRBR' \in Byte /\ rbrFull' \in BOOLEAN
         /\ mLSR' \in SUBSET (Empty \cup {"DR", "OE"})
         /\ "DR" \in mLSR'
         /\ \A f \in Empty : f \in mLSR' <=> f \in lsr
         /\ ~FifoEnabled => mRcvrFifo' = mRcvrFifo
         /\ FifoEnabled => (rbrFull' <=> rbrFull)
<1>1. CASE FifoEnabled
  <2>1. CASE Len(mRcvrFifo) >= FIFO_SIZE
    BY <1>1, <2>1 DEF Receive, Inv, TypeOK, Empty
  <2>2. CASE Len(mRcvrFifo) < FIFO_SIZE
    <3>1. /\ mRcvrFifo' = Append(mRcvrFifo, val)
          /\ mLSR' = lsr \cup {"DR"}
          /\ UNCHANGED <<mRBR, rbrFull>>
      BY <1>1, <2>2, UartAssumption DEF Receive, Inv, TypeOK
    <3>2. mRcvrFifo' \in Seq(Byte) /\ Len(mRcvrFifo') <= FIFO_SIZE
      BY <2>2, <3>1, AppendFits DEF Inv, TypeOK
    <3>3. \A f \in Empty : f \in mLSR' <=> f \in lsr
      BY <3>1 DEF Empty
    <3>. QED BY <1>1, <3>1, <3>2, <3>3 DEF Inv, TypeOK
  <2>. QED BY <2>1, <2>2, UartAssumption DEF Inv, TypeOK
<1>2. CASE ~FifoEnabled
  <2>1. /\ mRcvrFifo' \in Seq(Byte) /\ Len(mRcvrFifo') <= FIFO_SIZE
        /\ mRBR' \in Byte /\ rbrFull' \in BOOLEAN
        /\ mRcvrFifo' = mRcvrFifo
    BY <1>2 DEF Receive, Inv, TypeOK
  <2>2. mLSR' \in SUBSET (Empty \cup {"DR", "OE"}) /\ "DR" \in mLSR'
    BY <1>2 DEF Receive
  <2>3. \A f \in Empty : f \in mLSR' <=> f \in lsr
    BY <1>2 DEF Receive, Empty
  <2>. QED BY <1>2, <2>1, <2>2, <2>3
<1>. QED BY <1>1, <1>2

\* The transmitter gives up one byte: its queue shrinks and the line status
\* reports it empty only when nothing is left.
LEMMA SendOneInv ==
  ASSUME Inv, NEW xmit \in Seq(Byte), Len(xmit) <= FIFO_SIZE,
         FifoEnabled => xmit # <<>>, ~FifoEnabled => xmit = <<>>,
         NEW thr \in Byte,
         NEW lsr \in SUBSET (Empty \cup {"DR", "OE"}),
         "THRE" \notin lsr, "TEMT" \notin lsr
  PROVE  /\ Rest(xmit) \in Seq(Byte) /\ Len(Rest(xmit)) <= FIFO_SIZE
         /\ NextOut(xmit, thr) \in Byte
         /\ StatusAfterSend(xmit, lsr) \in SUBSET (Empty \cup {"DR", "OE"})
         /\ Rest(xmit) # <<>> => "THRE" \notin StatusAfterSend(xmit, lsr)
         /\ "THRE" \in StatusAfterSend(xmit, lsr)
              <=> "TEMT" \in StatusAfterSend(xmit, lsr)
         /\ "DR" \in lsr <=> "DR" \in StatusAfterSend(xmit, lsr)
         /\ ~FifoEnabled => Rest(xmit) = <<>>
<1>1. CASE FifoEnabled
  BY <1>1, TailFits DEF Rest, NextOut, StatusAfterSend, Empty
<1>2. CASE ~FifoEnabled
  BY <1>2 DEF Rest, NextOut, StatusAfterSend, Empty
<1>. QED BY <1>1, <1>2

-----------------------------------------------------------------------------
(* The actions that move bytes, one lemma each.                            *)

\* The parts of the invariant that a transfer can disturb; the control
\* registers are the caller's business.
Moved ==
  /\ mRcvrFifo \in Seq(Byte) /\ Len(mRcvrFifo) <= FIFO_SIZE
  /\ mXmitFifo \in Seq(Byte) /\ Len(mXmitFifo) <= FIFO_SIZE
  /\ mRBR \in Byte /\ rbrFull \in BOOLEAN
  /\ mLSR \in SUBSET (Empty \cup {"DR", "OE"})
  /\ OneModeAtATime /\ QueuedByteIsDue /\ WaitingByteIsAnnounced

LEMMA StoreTHRMoved ==
  ASSUME Inv, NEW val \in Byte, StoreTHR(val)
  PROVE  Moved'
<1>. DEFINE xmit == Queued(val)
            lsr  == mLSR \ Empty
<1>1. /\ xmit \in Seq(Byte) /\ Len(xmit) <= FIFO_SIZE
      /\ FifoEnabled => xmit # <<>>
      /\ ~FifoEnabled => xmit = <<>>
  <2>1. CASE FifoEnabled /\ Len(mXmitFifo) < FIFO_SIZE
    BY <2>1, AppendFits DEF Queued, Inv, TypeOK
  <2>2. CASE FifoEnabled /\ ~(Len(mXmitFifo) < FIFO_SIZE)
    <3>1. xmit = mXmitFifo
      BY <2>2 DEF Queued
    <3>2. mXmitFifo # <<>>
      BY <2>2, UartAssumption DEF Inv, TypeOK
    <3>. QED BY <2>2, <3>1, <3>2 DEF Inv, TypeOK
  <2>3. CASE ~FifoEnabled
    BY <2>3 DEF Queued, Inv, TypeOK, OneModeAtATime
  <2>. QED BY <2>1, <2>2, <2>3
<1>2. /\ lsr \in SUBSET (Empty \cup {"DR", "OE"})
      /\ "THRE" \notin lsr /\ "TEMT" \notin lsr
      /\ "DR" \in mLSR => "DR" \in lsr
  BY DEF Inv, TypeOK, Empty
<1>3. Send(xmit, val, lsr) /\ UNCHANGED mFCR
  BY DEF StoreTHR
<1>4. CASE Loopback
  <2>1. /\ mXmitFifo' = Rest(xmit)
        /\ Receive(NextOut(xmit, val), StatusAfterSend(xmit, lsr))
    BY <1>3, <1>4 DEF Send
  <2>2. /\ Rest(xmit) \in Seq(Byte) /\ Len(Rest(xmit)) <= FIFO_SIZE
        /\ NextOut(xmit, val) \in Byte
        /\ StatusAfterSend(xmit, lsr) \in SUBSET (Empty \cup {"DR", "OE"})
        /\ Rest(xmit) # <<>> => "THRE" \notin StatusAfterSend(xmit, lsr)
        /\ "THRE" \in StatusAfterSend(xmit, lsr)
             <=> "TEMT" \in StatusAfterSend(xmit, lsr)
        /\ ~FifoEnabled => Rest(xmit) = <<>>
    BY <1>1, <1>2, SendOneInv
  <2>3. /\ mRcvrFifo' \in Seq(Byte) /\ Len(mRcvrFifo') <= FIFO_SIZE
        /\ mRBR' \in Byte /\ rbrFull' \in BOOLEAN
        /\ mLSR' \in SUBSET (Empty \cup {"DR", "OE"})
        /\ "DR" \in mLSR'
        /\ \A f \in Empty : f \in mLSR' <=> f \in StatusAfterSend(xmit, lsr)
        /\ ~FifoEnabled => mRcvrFifo' = mRcvrFifo
        /\ FifoEnabled => (rbrFull' <=> rbrFull)
    BY <2>1, <2>2, ReceiveInv
  <2>4. OneModeAtATime'
    BY <1>3, <2>1, <2>2, <2>3
       DEF Inv, OneModeAtATime, FifoEnabled
  <2>5. QueuedByteIsDue'
    BY <2>1, <2>2, <2>3 DEF QueuedByteIsDue, Empty
  <2>6. WaitingByteIsAnnounced'
    BY <2>3 DEF WaitingByteIsAnnounced
  <2>. QED BY <2>1, <2>2, <2>3, <2>4, <2>5, <2>6 DEF Moved
<1>5. CASE ~Loopback
  <2>1. /\ mXmitFifo' = xmit /\ mLSR' = lsr
        /\ UNCHANGED <<mRcvrFifo, mRBR, rbrFull>>
    BY <1>3, <1>5 DEF Send
  <2>2. OneModeAtATime'
    BY <1>1, <1>3, <2>1 DEF Inv, OneModeAtATime, FifoEnabled
  <2>3. QueuedByteIsDue' /\ WaitingByteIsAnnounced'
    BY <1>2, <2>1 DEF Inv, QueuedByteIsDue, WaitingByteIsAnnounced
  <2>. QED BY <1>1, <1>2, <2>1, <2>2, <2>3 DEF Moved, Inv, TypeOK
<1>. QED BY <1>4, <1>5

LEMMA StoreFCRMoved ==
  ASSUME Inv, NEW bits, StoreFCR(bits)
  PROVE  Moved'
<1>1. /\ mRcvrFifo' = mRcvrFifo \/ mRcvrFifo' = <<>>
      /\ mXmitFifo' = mXmitFifo \/ mXmitFifo' = <<>>
      /\ rbrFull' \in BOOLEAN
      /\ UNCHANGED <<mRBR, mLSR>>
  BY DEF StoreFCR, ModeChange, data, Inv, TypeOK
<1>2. OneModeAtATime'
  BY DEF StoreFCR, ModeChange, Inv, OneModeAtATime, FifoEnabled
<1>3. QueuedByteIsDue' /\ WaitingByteIsAnnounced'
  BY <1>1 DEF Inv, QueuedByteIsDue, WaitingByteIsAnnounced
<1>4. /\ mRcvrFifo' \in Seq(Byte) /\ Len(mRcvrFifo') <= FIFO_SIZE
      /\ mXmitFifo' \in Seq(Byte) /\ Len(mXmitFifo') <= FIFO_SIZE
  BY <1>1, EmptyFits DEF Inv, TypeOK
<1>. QED BY <1>1, <1>2, <1>3, <1>4 DEF Moved, Inv, TypeOK

LEMMA ReadRBRMoved ==
  ASSUME Inv, ReadRBR
  PROVE  Moved'
<1>1. /\ UNCHANGED <<mXmitFifo, mRBR, rbrFull, mFCR>>
      /\ mLSR' = mLSR \/ mLSR' = mLSR \ {"DR"}
  BY DEF ReadRBR, StatusAfterRead, data
<1>2. /\ mRcvrFifo' \in Seq(Byte) /\ Len(mRcvrFifo') <= FIFO_SIZE
      /\ OneModeAtATime'
      /\ WaitingByteIsAnnounced'
  <2>1. CASE FifoEnabled /\ mXmitFifo # <<>> /\ mRcvrFifo # <<>>
    BY <1>1, <2>1, TailFits
       DEF ReadRBR, StatusAfterRead, Inv, TypeOK, OneModeAtATime, FifoEnabled,
           WaitingByteIsAnnounced
  <2>2. CASE ~(FifoEnabled /\ mXmitFifo # <<>> /\ mRcvrFifo # <<>>)
    BY <1>1, <2>2
       DEF ReadRBR, StatusAfterRead, Inv, TypeOK, OneModeAtATime, FifoEnabled,
           WaitingByteIsAnnounced
  <2>. QED BY <2>1, <2>2
<1>3. QueuedByteIsDue'
  BY <1>1 DEF Inv, QueuedByteIsDue
<1>. QED BY <1>1, <1>2, <1>3 DEF Moved, Inv, TypeOK

LEMMA AddCyclesMoved ==
  ASSUME Inv, NEW cycles \in Cycles, NEW key \in Keys, AddCycles(cycles, key)
  PROVE  Moved'
<1>1. UNCHANGED mFCR
  BY DEF AddCycles
<1>2. CASE UNCHANGED <<mRcvrFifo, mXmitFifo, mRBR, mLSR, rbrFull>>
  BY <1>1, <1>2 DEF Moved, Inv, TypeOK, OneModeAtATime, FifoEnabled,
                    QueuedByteIsDue, WaitingByteIsAnnounced
<1>3. CASE ByteTime(cycles) /\ ~Underrun
  <2>. DEFINE lsr == IF Transmitting THEN StatusAfterSend(mXmitFifo, mLSR)
                                     ELSE mLSR
  <2>1. /\ mXmitFifo' = IF Transmitting THEN Rest(mXmitFifo) ELSE mXmitFifo
        /\ Poll(key, lsr)
    BY <1>3 DEF AddCycles
  <2>2. /\ mXmitFifo' \in Seq(Byte) /\ Len(mXmitFifo') <= FIFO_SIZE
        /\ lsr \in SUBSET (Empty \cup {"DR", "OE"})
        /\ mXmitFifo' # <<>> => "THRE" \notin lsr
        /\ "THRE" \in lsr <=> "TEMT" \in lsr
        /\ "DR" \in mLSR <=> "DR" \in lsr
        /\ ~FifoEnabled => mXmitFifo' = <<>>
    <3>1. CASE Transmitting
      BY <1>3, <2>1, <3>1, SendOneInv
         DEF Inv, TypeOK, OneModeAtATime, QueuedByteIsDue, Underrun,
             Transmitting
    <3>2. CASE ~Transmitting
      BY <2>1, <3>2 DEF Inv, TypeOK, OneModeAtATime, QueuedByteIsDue
    <3>. QED BY <3>1, <3>2
  <2>3. /\ mRcvrFifo' \in Seq(Byte) /\ Len(mRcvrFifo') <= FIFO_SIZE
        /\ mRBR' \in Byte /\ rbrFull' \in BOOLEAN
        /\ mLSR' \in SUBSET (Empty \cup {"DR", "OE"})
        /\ mRcvrFifo' # <<>> => "DR" \in mLSR'
        /\ \A f \in Empty : f \in mLSR' <=> f \in lsr
        /\ ~FifoEnabled => mRcvrFifo' = mRcvrFifo
        /\ FifoEnabled => (rbrFull' <=> rbrFull)
    <3>1. CASE key = 0
      BY <2>1, <2>2, <3>1 DEF Poll, Inv, TypeOK, WaitingByteIsAnnounced
    <3>2. CASE key # 0
      BY <2>1, <2>2, <3>2, ReceiveInv, UartAssumption DEF Poll
    <3>. QED BY <3>1, <3>2
  <2>4. OneModeAtATime'
    BY <1>1, <2>2, <2>3 DEF Inv, OneModeAtATime, FifoEnabled
  <2>5. QueuedByteIsDue'
    BY <2>2, <2>3 DEF QueuedByteIsDue, Empty
  <2>6. WaitingByteIsAnnounced'
    BY <2>3 DEF WaitingByteIsAnnounced
  <2>. QED BY <2>2, <2>3, <2>4, <2>5, <2>6 DEF Moved
<1>. QED BY <1>2, <1>3 DEF AddCycles, queues

-----------------------------------------------------------------------------
(* Every operation keeps the invariant.                                    *)

\* The types of what no transfer touches: the control registers, the latch,
\* the clocks and the data registers the CPU writes.
Control ==
  /\ mTHR \in Byte /\ mSCR \in Byte
  /\ mDLL \in Byte /\ mDLM \in Byte
  /\ mIER \subseteq InterruptEnables /\ mIIR \subseteq {"FIFO_INT"}
  /\ mFCR \subseteq {"FIFO_ENABLE"} /\ mLCR \subseteq LineControl
  /\ mMCR \subseteq ModemControl /\ mMSR \subseteq ModemInputs
  /\ mClocksPerByte \in Int /\ mClocksUntilSend \in Int
  /\ undef \in BOOLEAN

LEMMA InvParts == Control' /\ Moved' => Inv'
BY DEF Inv, Control, Moved, TypeOK

\* An operation that moves no byte keeps Moved.
LEMMA NothingMoved ==
  ASSUME Inv, UNCHANGED <<mRcvrFifo, mXmitFifo, mRBR, mLSR, rbrFull, mFCR>>
  PROVE  Moved'
BY DEF Moved, Inv, TypeOK, OneModeAtATime, FifoEnabled, QueuedByteIsDue,
       WaitingByteIsAnnounced

LEMMA StoreTHRInv ==
  ASSUME Inv, NEW val \in Byte, StoreTHR(val)
  PROVE  Inv'
<1>1. Control'
  BY DEF StoreTHR, Send, Control, Inv, TypeOK, divisor, interrupt
<1>. QED BY <1>1, StoreTHRMoved, InvParts

LEMMA StoreLatchInv ==
  ASSUME Inv, NEW val \in Byte, StoreDLL(val) \/ StoreDLM(val)
  PROVE  Inv'
<1>1. ByteRate(val, mDLM) \in Int /\ ByteRate(mDLL, val) \in Int
  BY UartAssumption DEF ByteRate, Inv, TypeOK
<1>2. Control'
  BY <1>1 DEF StoreDLL, StoreDLM, Control, Inv, TypeOK, data, interrupt
<1>3. Moved'
  BY NothingMoved DEF StoreDLL, StoreDLM, queues, data
<1>. QED BY <1>2, <1>3, InvParts

LEMMA StoreFCRInv ==
  ASSUME Inv, NEW bits, StoreFCR(bits)
  PROVE  Inv'
<1>1. Control'
  BY DEF StoreFCR, ModeChange, Control, Inv, TypeOK, data, timing, divisor
<1>. QED BY <1>1, StoreFCRMoved, InvParts

LEMMA StoreControlInv ==
  ASSUME Inv, NEW bits,
         \/ StoreIER(bits) /\ bits \subseteq InterruptEnables
         \/ StoreLCR(bits) /\ bits \subseteq LineControl
         \/ StoreMCR(bits)
         \/ StoreSCR(bits) /\ bits \in Byte
  PROVE  Inv'
<1>1. Control'
  BY DEF StoreIER, StoreLCR, StoreMCR, StoreSCR, ModemControlBits,
         LoopedInputs, Control, Inv, TypeOK, data, timing, divisor, interrupt
<1>2. Moved'
  BY NothingMoved
     DEF StoreIER, StoreLCR, StoreMCR, StoreSCR, queues, data
<1>. QED BY <1>1, <1>2, InvParts

LEMMA ReadRBRInv ==
  ASSUME Inv, ReadRBR
  PROVE  Inv'
<1>1. Control'
  BY DEF ReadRBR, StatusAfterRead, Control, Inv, TypeOK, data, timing,
         divisor, interrupt
<1>. QED BY <1>1, ReadRBRMoved, InvParts

LEMMA ReadStatusInv ==
  ASSUME Inv, ReadLSR \/ ReadMSR
  PROVE  Inv'
<1>1. Control'
  BY DEF ReadLSR, ReadMSR, Control, Inv, TypeOK, data, timing, divisor,
         interrupt
<1>2. Moved'
  BY DEF ReadLSR, ReadMSR, queues, data, Moved, Inv, TypeOK, OneModeAtATime,
         FifoEnabled, QueuedByteIsDue, WaitingByteIsAnnounced
<1>. QED BY <1>1, <1>2, InvParts

LEMMA AddCyclesInv ==
  ASSUME Inv, NEW cycles \in Cycles, NEW key \in Keys, AddCycles(cycles, key)
  PROVE  Inv'
<1>1. mClocksUntilSend' \in Int /\ undef' \in BOOLEAN
  <2>1. cycles \in Int /\ mClocksPerByte \in Int /\ mClocksUntilSend \in Int
    BY UartAssumption DEF Inv, TypeOK
  <2>2. \/ mClocksUntilSend' = mClocksUntilSend - cycles
        \/ mClocksUntilSend' = mClocksUntilSend
        \/ mClocksUntilSend' = mClocksUntilSend - cycles + mClocksPerByte
    BY DEF AddCycles
  <2>3. undef' = undef \/ undef' = TRUE
    BY DEF AddCycles
  <2>4. mClocksUntilSend' \in Int
    BY <2>1, <2>2
  <2>5. undef' \in BOOLEAN
    BY <2>3 DEF Inv, TypeOK
  <2>. QED BY <2>4, <2>5
<1>2. Control'
  BY <1>1 DEF AddCycles, Control, Inv, TypeOK, divisor, interrupt
<1>. QED BY <1>2, AddCyclesMoved, InvParts

LEMMA StutterInv ==
  ASSUME Inv, UNCHANGED vars
  PROVE  Inv'
BY DEF vars, queues, data, timing, divisor, interrupt, Inv, TypeOK,
       OneModeAtATime, FifoEnabled, QueuedByteIsDue, WaitingByteIsAnnounced

-----------------------------------------------------------------------------
(* Any CPU on the bus.                                                     *)

LEMMA NextInv ==
  ASSUME Inv, [Next]_busVars
  PROVE  Inv'
<1>1. CASE StoreByte
  BY <1>1, StoreTHRInv, StoreLatchInv, StoreFCRInv, StoreControlInv,
     UartBusAssumption DEF StoreByte
<1>2. CASE ReadByte
  BY <1>2, ReadRBRInv, ReadStatusInv DEF ReadByte
<1>3. CASE PassCycles
  BY <1>3, AddCyclesInv DEF PassCycles
<1>4. CASE UNCHANGED vars
  BY <1>4, StutterInv
<1>. QED BY <1>1, <1>2, <1>3, <1>4 DEF Next, Halted, busVars

\* Every register keeps its type, and neither FIFO ever exceeds its capacity.
THEOREM TypeCorrect == Spec => []TypeOK
<1>1. Inv => TypeOK
  BY DEF Inv
<1>. QED BY InitInv, NextInv, <1>1, PTL DEF Spec, BusInit

\* THRE is never reported while a byte waits to be sent, so that addCycles
\* always takes it up.
THEOREM QueuedBytesAreDue == Spec => []QueuedByteIsDue
<1>1. Inv => QueuedByteIsDue
  BY DEF Inv
<1>. QED BY InitInv, NextInv, <1>1, PTL DEF Spec, BusInit

\* Whatever order the modes are switched in, no byte is left in a FIFO that is
\* off or in an RBR that the FIFOs have replaced.
THEOREM ModesAreSeparate == Spec => []OneModeAtATime
<1>1. Inv => OneModeAtATime
  BY DEF Inv
<1>. QED BY InitInv, NextInv, <1>1, PTL DEF Spec, BusInit

\* DR is never clear while a byte waits in the receive FIFO, whatever resets,
\* changes of mode and reads came before.
THEOREM WaitingBytesAreAnnounced == Spec => []WaitingByteIsAnnounced
<1>1. Inv => WaitingByteIsAnnounced
  BY DEF Inv
<1>. QED BY InitInv, NextInv, <1>1, PTL DEF Spec, BusInit

-----------------------------------------------------------------------------
(* The refinement: every step of the device is a step of the abstract port *)
(* or leaves the port unchanged.                                           *)

PortState == <<FifoEnabled, Loopback, TxQueue, RxQueue, Transmitting, mTHR,
               "OE" \in mLSR>>

\* The abstract initial state.
LEMMA InitPort == Init /\ io = Nothing => Port!Init
<1>. SUFFICES ASSUME Init, io = Nothing PROVE Port!Init
  OBVIOUS
<1>1. FifoEnabled = FALSE /\ Loopback = FALSE /\ Transmitting = FALSE
  BY DEF Init, FifoEnabled, Loopback, Transmitting, Empty
<1>2. TxQueue = <<>> /\ RxQueue = <<>>
  BY <1>1 DEF Init, TxQueue, RxQueue
<1>3. mTHR \in Byte
  BY UartAssumption DEF Init
<1>4. ("OE" \in mLSR) = FALSE
  BY DEF Init, Empty
<1>5. io = Port!Nothing
  BY DEF Nothing, Port!Nothing
<1>. QED BY <1>1, <1>2, <1>3, <1>4, <1>5 DEF Port!Init

\* receive() leaves the transmitter's status as the caller computed it.
LEMMA ReceiveKeepsStatus ==
  ASSUME NEW val, NEW lsr, Receive(val, lsr)
  PROVE  "THRE" \in mLSR' <=> "THRE" \in lsr
<1>1. CASE FifoEnabled
  BY <1>1 DEF Receive
<1>2. CASE ~FifoEnabled
  BY <1>2 DEF Receive
<1>. QED BY <1>1, <1>2

\* receive() is an arrival at the abstract port.
LEMMA ReceiveIsArrival ==
  ASSUME Inv, UNCHANGED mFCR, NEW val \in Byte,
         NEW lsr \in SUBSET (Empty \cup {"DR", "OE"}),
         "OE" \in lsr <=> "OE" \in mLSR,
         "DR" \in lsr <=> "DR" \in mLSR,
         Receive(val, lsr)
  PROVE  Port!Arrive(val)
<1>1. CASE FifoEnabled
  <2>1. RxQueue = mRcvrFifo /\ RxQueue' = mRcvrFifo' /\ Port!Room = FIFO_SIZE
    BY <1>1 DEF RxQueue, FifoEnabled, Port!Room
  <2>2. CASE Len(mRcvrFifo) >= FIFO_SIZE
    <3>1. Len(mRcvrFifo) = FIFO_SIZE
      BY <2>2, UartAssumption DEF Inv, TypeOK
    <3>2. mRcvrFifo' = mRcvrFifo /\ "OE" \in mLSR'
      BY <1>1, <2>2 DEF Receive
    <3>. QED BY <1>1, <2>1, <3>1, <3>2 DEF Port!Arrive
  <2>3. CASE ~(Len(mRcvrFifo) >= FIFO_SIZE)
    <3>1. Len(mRcvrFifo) < FIFO_SIZE
      BY <2>3, UartAssumption DEF Inv, TypeOK
    <3>2. mRcvrFifo' = Append(mRcvrFifo, val) /\ mLSR' = lsr \cup {"DR"}
      BY <1>1, <2>3 DEF Receive
    <3>3. "OE" \in mLSR' <=> "OE" \in mLSR
      BY <3>2
    <3>. QED BY <2>1, <3>1, <3>2, <3>3 DEF Port!Arrive
  <2>. QED BY <2>2, <2>3
<1>2. CASE ~FifoEnabled
  <2>1. /\ mRBR' = val /\ rbrFull' = TRUE
        /\ "DR" \in mLSR'
        /\ rbrFull => "OE" \in mLSR'
        /\ "OE" \in mLSR => "OE" \in mLSR'
    BY <1>2 DEF Receive
  <2>2. ~FifoEnabled' /\ Port!Room = 1
    BY <1>2 DEF FifoEnabled, Port!Room
  <2>3. RxQueue' = <<val>>
    BY <2>1, <2>2 DEF RxQueue
  <2>4. CASE rbrFull /\ "DR" \in mLSR
    <3>1. RxQueue = <<mRBR>> /\ Len(RxQueue) = 1
      BY <1>2, <2>4 DEF RxQueue
    <3>. QED BY <1>2, <2>1, <2>2, <2>3, <2>4, <3>1 DEF Port!Arrive
  <2>5. CASE ~(rbrFull /\ "DR" \in mLSR)
    <3>1. RxQueue = <<>> /\ Len(RxQueue) < 1
      BY <1>2, <2>5 DEF RxQueue
    <3>2. RxQueue' = Append(RxQueue, val)
      BY <2>3, <3>1
    <3>. QED BY <1>2, <2>1, <2>2, <3>1, <3>2 DEF Port!Arrive
  <2>. QED BY <2>4, <2>5
<1>. QED BY <1>1, <1>2

\* A write of the transmitter offers that byte, which in loopback returns the
\* one that has waited longest.
LEMMA StoreTHRRefines ==
  ASSUME Inv, NEW val \in Byte, StoreTHR(val),
         io' = [op |-> "write", val |-> val]
  PROVE  Port!Write(val)
<1>. DEFINE xmit    == Queued(val)
            lsr     == mLSR \ Empty
            offered == Port!Offered(val)
<1>1. /\ Send(xmit, val, lsr)
      /\ mTHR' = IF FifoEnabled THEN mTHR ELSE val
      /\ UNCHANGED <<mFCR, mMCR>>
      /\ FifoEnabled' = FifoEnabled /\ Loopback' = Loopback
  BY DEF StoreTHR, FifoEnabled, Loopback
<1>2. /\ FifoEnabled => offered = xmit
      /\ ~FifoEnabled => offered = <<val>>
  BY DEF Port!Offered, Queued, TxQueue, Port!Room
<1>3. /\ "OE" \in lsr <=> "OE" \in mLSR
      /\ "DR" \in lsr <=> "DR" \in mLSR
      /\ "THRE" \notin lsr
      /\ lsr \in SUBSET (Empty \cup {"DR", "OE"})
  BY DEF Empty, Inv, TypeOK
<1>4. CASE ~Loopback
  <2>1. /\ mXmitFifo' = xmit /\ mLSR' = lsr
        /\ UNCHANGED <<mRcvrFifo, mRBR, rbrFull>>
    BY <1>1, <1>4 DEF Send
  <2>2. TxQueue' = offered /\ Transmitting' = TRUE
    BY <1>1, <1>2, <1>3, <2>1 DEF TxQueue, Transmitting
  <2>3. RxQueue' = RxQueue
    BY <1>1, <1>3, <2>1 DEF RxQueue
  <2>4. ("OE" \in mLSR)' = ("OE" \in mLSR)
    BY <1>3, <2>1
  <2>. QED BY <1>1, <1>4, <2>2, <2>3, <2>4 DEF Port!Write
<1>5. CASE Loopback
  <2>1. /\ mXmitFifo' = Rest(xmit)
        /\ Receive(NextOut(xmit, val), StatusAfterSend(xmit, lsr))
    BY <1>1, <1>5 DEF Send
  <2>2. /\ NextOut(xmit, val) = Head(offered)
        /\ NextOut(xmit, val) \in Byte
    <3>1. CASE FifoEnabled
      <4>1. xmit \in Seq(Byte) /\ xmit # <<>>
        <5>1. CASE Len(mXmitFifo) < FIFO_SIZE
          BY <3>1, <5>1, AppendFits DEF Queued, Inv, TypeOK
        <5>2. CASE ~(Len(mXmitFifo) < FIFO_SIZE)
          BY <3>1, <5>2, UartAssumption DEF Queued, Inv, TypeOK
        <5>. QED BY <5>1, <5>2
      <4>. QED BY <1>2, <3>1, <4>1 DEF NextOut
    <3>2. CASE ~FifoEnabled
      BY <1>2, <3>2 DEF NextOut
    <3>. QED BY <3>1, <3>2
  <2>3. /\ StatusAfterSend(xmit, lsr) \in SUBSET (Empty \cup {"DR", "OE"})
        /\ "OE" \in StatusAfterSend(xmit, lsr) <=> "OE" \in mLSR
        /\ "DR" \in StatusAfterSend(xmit, lsr) <=> "DR" \in mLSR
    BY <1>3 DEF StatusAfterSend, Empty
  <2>4. Port!Arrive(NextOut(xmit, val))
    BY <1>1, <2>1, <2>2, <2>3, ReceiveIsArrival
  <2>5. "THRE" \in mLSR' <=> "THRE" \in StatusAfterSend(xmit, lsr)
    BY <2>1, ReceiveKeepsStatus
  <2>6. TxQueue' = Tail(offered) /\ Transmitting' = (TxQueue' # <<>>)
    <3>1. CASE FifoEnabled
      <4>1. "THRE" \in StatusAfterSend(xmit, lsr) <=> Tail(xmit) = <<>>
        BY <1>3, <3>1 DEF StatusAfterSend, Empty
      <4>. QED BY <1>1, <1>2, <2>1, <2>5, <3>1, <4>1
               DEF TxQueue, Rest, Transmitting
    <3>2. CASE ~FifoEnabled
      <4>1. "THRE" \in StatusAfterSend(xmit, lsr)
        BY <3>2 DEF StatusAfterSend, Empty
      <4>2. "THRE" \in mLSR'
        BY <2>5, <4>1
      <4>3. TxQueue' = <<>> /\ Transmitting' = FALSE
        BY <1>1, <3>2, <4>2 DEF TxQueue, Transmitting
      <4>4. Tail(<<val>>) = <<>>
        OBVIOUS
      <4>. QED BY <1>2, <3>2, <4>3, <4>4
    <3>. QED BY <3>1, <3>2
  <2>. QED BY <1>1, <1>5, <2>2, <2>4, <2>6 DEF Port!Write
<1>. QED BY <1>4, <1>5

\* A write of FCR empties the queues it names, or switches the mode.
LEMMA StoreFCRRefines ==
  ASSUME Inv, NEW bits, StoreFCR(bits), NEW on \in BOOLEAN,
         NEW clearRx \in BOOLEAN, NEW clearTx \in BOOLEAN,
         on = ("FIFO_ENABLE" \in bits),
         clearRx = ("RCVR_FIFO_RESET" \in bits),
         clearTx = ("XMIT_FIFO_RESET" \in bits),
         io' = [op |-> "control", on |-> on, rx |-> clearRx, tx |-> clearTx]
  PROVE  Port!Control(on, clearRx, clearTx)
<1>. DEFINE switch == FifoEnabled # on
<1>. FifoEnabled \in BOOLEAN
  BY DEF FifoEnabled
<1>1. /\ UNCHANGED <<mRBR, mTHR, mLSR, mMCR>>
      /\ FifoEnabled' = on
      /\ mRcvrFifo' = IF switch \/ (on /\ clearRx) THEN <<>> ELSE mRcvrFifo
      /\ mXmitFifo' = IF switch \/ (on /\ clearTx) THEN <<>> ELSE mXmitFifo
      /\ rbrFull' = IF on /\ ~FifoEnabled THEN FALSE ELSE rbrFull
  <2>1. /\ UNCHANGED <<mRBR, mTHR, mLSR, mMCR>>
        /\ mFCR' = IF on THEN {"FIFO_ENABLE"} ELSE {}
    BY DEF StoreFCR, data
  <2>2. FifoEnabled' = on
    <3>1. on => FifoEnabled'
      BY <2>1 DEF FifoEnabled
    <3>2. ~on => ~FifoEnabled'
      BY <2>1 DEF FifoEnabled
    <3>3. FifoEnabled' \in BOOLEAN
      BY DEF FifoEnabled
    <3>. QED BY <3>1, <3>2, <3>3
  <2>3. ModeChange(bits) = switch
    BY DEF ModeChange
  <2>. QED BY <2>1, <2>2, <2>3 DEF StoreFCR
<1>2. /\ UNCHANGED <<Loopback, Transmitting>>
      /\ ("OE" \in mLSR)' = ("OE" \in mLSR)
  BY <1>1 DEF Loopback, Transmitting
<1>3. FifoEnabled => ~rbrFull
  BY DEF Inv, OneModeAtATime
<1>4. RxQueue' = IF switch \/ (on /\ clearRx) THEN <<>> ELSE RxQueue
  <2>1. CASE FifoEnabled /\ on
    BY <1>1, <2>1 DEF RxQueue
  <2>2. CASE FifoEnabled /\ ~on
    BY <1>1, <1>3, <2>2 DEF RxQueue
  <2>3. CASE ~FifoEnabled /\ on
    BY <1>1, <2>3 DEF RxQueue
  <2>4. CASE ~FifoEnabled /\ ~on
    BY <1>1, <2>4 DEF RxQueue
  <2>. QED BY <2>1, <2>2, <2>3, <2>4
<1>5. TxQueue' = IF switch /\ ~on /\ Transmitting THEN <<mTHR>>
                 ELSE IF switch \/ (on /\ clearTx) THEN <<>> ELSE TxQueue
  <2>1. CASE FifoEnabled /\ on
    BY <1>1, <2>1 DEF TxQueue
  <2>2. CASE FifoEnabled /\ ~on
    BY <1>1, <1>2, <2>2 DEF TxQueue
  <2>3. CASE ~FifoEnabled /\ on
    BY <1>1, <2>3 DEF TxQueue
  <2>4. CASE ~FifoEnabled /\ ~on
    BY <1>1, <1>2, <2>4 DEF TxQueue
  <2>. QED BY <2>1, <2>2, <2>3, <2>4
<1>. QED BY <1>1, <1>2, <1>4, <1>5 DEF Port!Control

\* A read of the receiver returns the byte that has waited longest and takes
\* it, returns 0 and takes nothing, or pops an empty deque.
LEMMA ReadRBRRefines ==
  ASSUME Inv, ReadRBR, ~undef,
         io' = IF undef' THEN Undefined
               ELSE [op |-> "read", val |-> ReadRBRValue]
  PROVE  Port!Next
<1>1. /\ UNCHANGED <<mXmitFifo, mRBR, mTHR, rbrFull, mFCR, mMCR>>
      /\ mLSR' = mLSR \/ mLSR' = mLSR \ {"DR"}
  BY DEF ReadRBR, StatusAfterRead, data
<1>2. UNCHANGED <<FifoEnabled, Loopback, TxQueue, Transmitting, mTHR,
                  "OE" \in mLSR>>
  BY <1>1 DEF FifoEnabled, Loopback, TxQueue, Transmitting
<1>3. SUFFICES ASSUME ~Port!Misuse
               PROVE  \E val \in Byte \cup {0} : Port!Read(val)
  BY DEF Port!Next
<1>4. CASE ~FifoEnabled
  <2>1. /\ mLSR' = mLSR \ {"DR"} /\ ~undef'
        /\ ReadRBRValue = mRBR /\ mRBR \in Byte
    BY <1>4 DEF ReadRBR, ReadRBRValue, Inv, TypeOK
  <2>2. io' = [op |-> "read", val |-> mRBR]
    BY <2>1
  <2>3. RxQueue' = <<>>
    BY <1>1, <1>4, <2>1 DEF RxQueue, FifoEnabled
  <2>4. RxQueue = <<>> \/ RxQueue = <<mRBR>>
    BY <1>4 DEF RxQueue
  <2>5. /\ RxQueue # <<>> => mRBR = Head(RxQueue)
        /\ RxQueue' = IF RxQueue = <<>> THEN RxQueue ELSE Tail(RxQueue)
    <3>1. mRBR = Head(<<mRBR>>) /\ Tail(<<mRBR>>) = <<>>
      OBVIOUS
    <3>. QED BY <2>3, <2>4, <3>1
  <2>6. Port!Read(mRBR)
    BY <1>2, <1>4, <2>2, <2>5 DEF Port!Read
  <2>. QED BY <2>1, <2>6
<1>5. CASE FifoEnabled /\ mXmitFifo = <<>>
  <2>1. /\ mLSR' = mLSR /\ mRcvrFifo' = mRcvrFifo /\ ~undef'
        /\ ReadRBRValue = 0
    BY <1>5 DEF ReadRBR, ReadRBRValue
  <2>2. io' = [op |-> "read", val |-> 0]
    BY <2>1
  <2>3. TxQueue = <<>> /\ RxQueue' = RxQueue
    BY <1>1, <1>5, <2>1 DEF TxQueue, RxQueue, FifoEnabled
  <2>4. Port!Read(0)
    BY <1>2, <1>5, <2>2, <2>3 DEF Port!Read
  <2>. QED BY <2>4
<1>6. CASE FifoEnabled /\ mXmitFifo # <<>> /\ mRcvrFifo # <<>>
  <2>1. mRcvrFifo' = Tail(mRcvrFifo) /\ ~undef'
    BY <1>6 DEF ReadRBR
  <2>2. ReadRBRValue = Head(mRcvrFifo) /\ Head(mRcvrFifo) \in Byte
    BY <1>6 DEF ReadRBRValue, Inv, TypeOK
  <2>3. io' = [op |-> "read", val |-> Head(mRcvrFifo)]
    BY <2>1, <2>2
  <2>4. TxQueue # <<>> /\ RxQueue = mRcvrFifo /\ RxQueue' = Tail(mRcvrFifo)
    BY <1>1, <1>6, <2>1 DEF TxQueue, RxQueue, FifoEnabled
  <2>5. Port!Read(Head(mRcvrFifo))
    BY <1>2, <1>6, <2>3, <2>4 DEF Port!Read
  <2>. QED BY <2>2, <2>5
<1>7. CASE FifoEnabled /\ mXmitFifo # <<>> /\ mRcvrFifo = <<>>
  <2>1. undef' = TRUE /\ mLSR' = mLSR /\ mRcvrFifo' = mRcvrFifo
    BY <1>7 DEF ReadRBR
  <2>2. io' = Undefined
    BY <2>1
  <2>3. TxQueue # <<>> /\ RxQueue = <<>> /\ RxQueue' = RxQueue
    BY <1>1, <1>7, <2>1 DEF TxQueue, RxQueue, FifoEnabled
  <2>4. Port!Misuse
    BY <1>2, <1>7, <2>2, <2>3
       DEF Port!Misuse, Port!state, Port!Undefined, Undefined
  <2>. QED BY <1>3, <2>4
<1>. QED BY <1>4, <1>5, <1>6, <1>7

\* A call of addCycles is a Transfer once per byte time, sending what is due
\* and letting the key polled arrive; between the byte times it is nothing.
LEMMA AddCyclesRefines ==
  ASSUME Inv, ~undef, NEW cycles \in Cycles, NEW key \in Keys,
         AddCycles(cycles, key),
         io' = IF undef' THEN Undefined
               ELSE IF ~ByteTime(cycles) THEN Nothing
               ELSE [op |-> "time", sent |-> Printed(cycles), key |-> key]
  PROVE  Port!Next
<1>1. /\ UNCHANGED <<mFCR, mTHR, mMCR>>
      /\ FifoEnabled' = FifoEnabled /\ Loopback' = Loopback
  BY DEF AddCycles, FifoEnabled, Loopback
<1>2. CASE ~ByteTime(cycles)
  <2>1. UNCHANGED <<mRcvrFifo, mXmitFifo, mRBR, mLSR, rbrFull, undef>>
    BY <1>2 DEF AddCycles, queues
  <2>2. UNCHANGED PortState /\ io' = Nothing
    BY <1>1, <1>2, <2>1 DEF PortState, RxQueue, TxQueue, Transmitting
  <2>3. Loopback' \in BOOLEAN
    BY <1>1 DEF Loopback
  <2>4. Port!Configure
    BY <2>2, <2>3 DEF Port!Configure, PortState, Port!Nothing, Nothing
  <2>. QED BY <2>4 DEF Port!Next
<1>3. CASE ByteTime(cycles) /\ Underrun
  <2>1. /\ UNCHANGED <<mRcvrFifo, mXmitFifo, mRBR, mLSR, rbrFull>>
        /\ undef' = TRUE
    BY <1>3 DEF AddCycles, queues
  <2>2. UNCHANGED PortState /\ io' = Undefined
    BY <1>1, <2>1 DEF PortState, RxQueue, TxQueue, Transmitting
  <2>3. FifoEnabled /\ Transmitting /\ TxQueue = <<>>
    BY <1>3 DEF Underrun, TxQueue
  <2>4. Port!Misuse
    BY <2>2, <2>3
       DEF Port!Misuse, Port!state, PortState, Port!Undefined, Undefined
  <2>. QED BY <2>4 DEF Port!Next
<1>4. CASE ByteTime(cycles) /\ ~Underrun
  <2>. DEFINE lsr == IF Transmitting THEN StatusAfterSend(mXmitFifo, mLSR)
                                     ELSE mLSR
  <2>1. /\ mXmitFifo' = IF Transmitting THEN Rest(mXmitFifo) ELSE mXmitFifo
        /\ Poll(key, lsr)
        /\ ~undef'
    BY <1>4 DEF AddCycles
  <2>2. /\ lsr \in SUBSET (Empty \cup {"DR", "OE"})
        /\ "OE" \in lsr <=> "OE" \in mLSR
        /\ "DR" \in lsr <=> "DR" \in mLSR
        /\ ~FifoEnabled => "THRE" \in lsr
    BY DEF StatusAfterSend, Empty, Inv, TypeOK, Transmitting
  <2>3. "THRE" \in lsr <=> "THRE" \in mLSR'
    BY <2>1 DEF Poll, Receive
  <2>4. Transmitting <=> TxQueue # <<>>
    <3>1. CASE FifoEnabled
      BY <1>4, <3>1 DEF Inv, QueuedByteIsDue, Transmitting, Underrun, TxQueue
    <3>2. CASE ~FifoEnabled
      BY <3>2 DEF TxQueue
    <3>. QED BY <3>1, <3>2
  <2>5. TxQueue' = IF Transmitting THEN Tail(TxQueue) ELSE TxQueue
    <3>1. CASE FifoEnabled
      BY <1>1, <2>1, <3>1 DEF TxQueue, Rest
    <3>2. CASE ~FifoEnabled
      <4>1. TxQueue' = <<>>
        BY <1>1, <2>2, <2>3, <3>2 DEF TxQueue, Transmitting
      <4>2. TxQueue = <<>> \/ TxQueue = <<mTHR>>
        BY <3>2 DEF TxQueue
      <4>3. Tail(<<mTHR>>) = <<>>
        OBVIOUS
      <4>. QED BY <2>4, <4>1, <4>2, <4>3
    <3>. QED BY <3>1, <3>2
  <2>6. Transmitting' = (TxQueue' # <<>>)
    <3>1. CASE FifoEnabled
      <4>1. TxQueue' = mXmitFifo' /\ TxQueue = mXmitFifo
        BY <1>1, <3>1 DEF TxQueue
      <4>2. CASE Transmitting
        <5>1. "THRE" \in lsr <=> Tail(mXmitFifo) = <<>>
          BY <3>1, <4>2 DEF StatusAfterSend, Transmitting, Empty
        <5>. QED BY <2>3, <2>5, <4>1, <4>2, <5>1 DEF Transmitting
      <4>3. CASE ~Transmitting
        BY <2>3, <2>4, <2>5, <4>1, <4>3 DEF Transmitting
      <4>. QED BY <4>2, <4>3
    <3>2. CASE ~FifoEnabled
      BY <1>1, <2>2, <2>3, <3>2 DEF TxQueue, Transmitting
    <3>. QED BY <3>1, <3>2
  <2>7. IF key = 0 THEN UNCHANGED <<RxQueue, "OE" \in mLSR>>
        ELSE Port!Arrive(key)
    <3>1. CASE key = 0
      <4>1. mLSR' = lsr /\ UNCHANGED <<mRcvrFifo, mRBR, rbrFull>>
        BY <2>1, <3>1 DEF Poll
      <4>2. ("DR" \in mLSR)' = ("DR" \in mLSR)
        BY <2>2, <4>1
      <4>. QED BY <1>1, <2>2, <3>1, <4>1, <4>2 DEF RxQueue
    <3>2. CASE key # 0
      <4>1. key \in Byte
        BY <3>2, UartAssumption
      <4>2. Receive(key, lsr)
        BY <2>1, <3>2 DEF Poll
      <4>3. Port!Arrive(key)
        BY <1>1, <2>2, <4>1, <4>2, ReceiveIsArrival
      <4>. QED BY <3>2, <4>3
    <3>. QED BY <3>1, <3>2
  <2>8. io' = [op |-> "time",
               sent |-> IF Transmitting THEN <<Head(TxQueue)>> ELSE <<>>,
               key |-> key]
    <3>1. Printed(cycles) = IF Transmitting THEN <<Head(TxQueue)>> ELSE <<>>
      <4>1. CASE FifoEnabled
        BY <1>4, <4>1 DEF Printed, NextOut, TxQueue
      <4>2. CASE ~FifoEnabled
        BY <1>4, <4>2 DEF Printed, NextOut, TxQueue
      <4>. QED BY <4>1, <4>2
    <3>. QED BY <1>4, <2>1, <3>1
  <2>9. Port!Transfer(key)
    BY <1>1, <2>4, <2>5, <2>6, <2>7, <2>8 DEF Port!Transfer
  <2>. QED BY <2>9 DEF Port!Next
<1>. QED BY <1>2, <1>3, <1>4

\* A store or a read that moves no byte is a Configure.
LEMMA ConfigureRefines ==
  ASSUME UNCHANGED <<queues, data, mLSR, rbrFull, mFCR>>, io' = Nothing
  PROVE  Port!Next
<1>1. UNCHANGED <<FifoEnabled, TxQueue, RxQueue, Transmitting, mTHR,
                  "OE" \in mLSR>>
  BY DEF queues, data, FifoEnabled, TxQueue, RxQueue, Transmitting
<1>2. Loopback' \in BOOLEAN
  BY DEF Loopback
<1>3. Port!Configure
  BY <1>1, <1>2 DEF Port!Configure, Port!Nothing, Nothing
<1>. QED BY <1>3 DEF Port!Next

\* Every step of the device is a step of the port, or invisible to it.
LEMMA NextPort ==
  ASSUME Inv, [Next]_busVars
  PROVE  [Port!Next]_Port!vars
<1>1. CASE UNCHANGED busVars
  <2>1. UNCHANGED <<FifoEnabled, Loopback, TxQueue, RxQueue, Transmitting,
                    mTHR, "OE" \in mLSR, io>>
    BY <1>1 DEF busVars, vars, queues, data, FifoEnabled, Loopback, TxQueue,
                RxQueue, Transmitting
  <2>. QED BY <2>1 DEF Port!vars, Port!state
<1>2. CASE ~undef /\ StoreByte
  <2>1. CASE \E val \in Byte : /\ StoreTHR(val)
                               /\ io' = [op |-> "write", val |-> val]
    BY <2>1, StoreTHRRefines DEF Port!Next
  <2>2. CASE \E bits \in FCRs :
               /\ StoreFCR(bits)
               /\ io' = [op |-> "control", on |-> "FIFO_ENABLE" \in bits,
                         rx |-> "RCVR_FIFO_RESET" \in bits,
                         tx |-> "XMIT_FIFO_RESET" \in bits]
    <3>1. PICK bits \in FCRs :
               /\ StoreFCR(bits)
               /\ io' = [op |-> "control", on |-> "FIFO_ENABLE" \in bits,
                         rx |-> "RCVR_FIFO_RESET" \in bits,
                         tx |-> "XMIT_FIFO_RESET" \in bits]
      BY <2>2
    <3>2. PICK on : on = ("FIFO_ENABLE" \in bits)
      OBVIOUS
    <3>3. PICK clearRx : clearRx = ("RCVR_FIFO_RESET" \in bits)
      OBVIOUS
    <3>4. PICK clearTx : clearTx = ("XMIT_FIFO_RESET" \in bits)
      OBVIOUS
    <3>5. on \in BOOLEAN /\ clearRx \in BOOLEAN /\ clearTx \in BOOLEAN
      BY <3>2, <3>3, <3>4
    <3>6. io' = [op |-> "control", on |-> on, rx |-> clearRx, tx |-> clearTx]
      BY <3>1, <3>2, <3>3, <3>4
    <3>7. Port!Control(on, clearRx, clearTx)
      BY <3>1, <3>2, <3>3, <3>4, <3>5, <3>6, StoreFCRRefines
    <3>. QED BY <3>5, <3>7 DEF Port!Next
  <2>3. CASE /\ \/ \E val \in Byte : StoreSCR(val)
                \/ \E val \in DLLs : StoreDLL(val)
                \/ \E val \in DLMs : StoreDLM(val)
                \/ \E bits \in IERs : StoreIER(bits)
                \/ \E bits \in LCRs : StoreLCR(bits)
                \/ \E bits \in MCRs : StoreMCR(bits)
             /\ io' = Nothing
    <3>1. UNCHANGED <<queues, data, mLSR, rbrFull, mFCR>>
      BY <2>3 DEF StoreSCR, StoreDLL, StoreDLM, StoreIER, StoreLCR, StoreMCR
    <3>. QED BY <2>3, <3>1, ConfigureRefines
  <2>. QED BY <1>2, <2>1, <2>2, <2>3 DEF StoreByte
<1>3. CASE ~undef /\ ReadByte
  <2>1. CASE /\ ReadLSR
             /\ io' = [op |-> "status", overrun |-> "OE" \in mLSR,
                       due |-> Transmitting]
    <3>1. /\ UNCHANGED <<queues, data, rbrFull, mFCR, mMCR>>
          /\ mLSR' = mLSR \ {"OE"}
      BY <2>1 DEF ReadLSR
    <3>2. /\ ("DR" \in mLSR)' = ("DR" \in mLSR)
          /\ ("OE" \in mLSR)' = FALSE
          /\ Transmitting' = Transmitting
      BY <3>1 DEF Transmitting
    <3>3. UNCHANGED <<FifoEnabled, Loopback, TxQueue, RxQueue, mTHR>>
      BY <3>1, <3>2
         DEF FifoEnabled, Loopback, TxQueue, RxQueue, queues, data
    <3>4. Port!ReadStatus
      BY <2>1, <3>2, <3>3 DEF Port!ReadStatus
    <3>. QED BY <3>4 DEF Port!Next
  <2>2. CASE ReadMSR /\ io' = Nothing
    BY <2>2, ConfigureRefines DEF ReadMSR
  <2>. QED BY <1>3, <2>1, <2>2, ReadRBRRefines DEF ReadByte
<1>4. CASE ~undef /\ PassCycles
  BY <1>4, AddCyclesRefines DEF PassCycles
<1>. QED BY <1>1, <1>2, <1>3, <1>4 DEF Next, Halted

\* The simulated UART implements the abstract port: what is sent and what is
\* read is the oldest byte that waits, and none is lost without an overrun or
\* a write of FCR that asks for it.
THEOREM ImplementsPort == Spec => PortSpec
<1>. QED BY InitInv, NextInv, InitPort, NextPort, PTL
         DEF Spec, BusInit, PortSpec, Port!Spec

-----------------------------------------------------------------------------
(* The inductive invariant, by the stages of the boot.                     *)

\* Outside TERM_writes no byte waits for the transmitter.
Quiet == ~Writing => "THRE" \in mLSR

\* The loopback test runs with the UART as it was at power-on, except for
\* loopback, so that a byte written is the byte read unless a key came.
LoopTested ==
  Testing \/ pc = "post_fail" =>
    /\ y = 0 /\ call = 0 /\ line = <<>>
    /\ ~FifoEnabled /\ ~LatchAccess
    /\ pc # "loop.MCR" => Loopback
    /\ pc = "loop.read1" /\ ~typed => mRBR = TEST1
    /\ pc = "loop.read2" /\ ~typed => mRBR = TEST2
    /\ pc = "post_fail" => typed

\* What the setup has done before step y.
SettingUp ==
  pc = "setup" =>
    /\ y <= 11 /\ call = 0 /\ line = <<>>
    /\ FifoEnabled = (y >= 9)
    /\ y \in 1..6 => LatchAccess
    /\ y >= 7 => ~LatchAccess
    /\ y >= 2 => ~Loopback
    /\ y >= 3 => mDLL = DIVISOR
    /\ y >= 4 => mClocksPerByte = 2 * DIVISOR

\* What it has left.
Ready ==
  pc = "call" \/ pc = "stp" \/ Writing =>
    /\ FifoEnabled /\ ~Loopback /\ ~LatchAccess
    /\ mClocksPerByte = 2 * DIVISOR

\* The terminal shows the beginning of the message; the character that
\* follows is the one on its way, if there is any.
Shows(text) ==
  /\ Len(line) <= Len(text)
  /\ \A i \in 1..Len(line) : line[i] = text[i]

UnderWay ==
  Writing =>
    /\ call \in 1..Len(Messages) /\ y <= Len(Messages[call])
    /\ Shows(Messages[call])
    /\ Len(line) + Len(mXmitFifo) = y
    /\ mXmitFifo # <<>> => mXmitFifo = <<Messages[call][y]>>
    /\ Transmitting => mXmitFifo # <<>> /\ mClocksUntilSend <= mClocksPerByte
    /\ pc = "next" => ~Transmitting

\* Between two messages the last one is complete.
Complete ==
  pc \in {"call", "stp"} =>
    /\ IF call = 0 THEN line = <<>> ELSE line = Messages[call]
    /\ pc = "stp" => call = Len(Messages)

BootInv ==
  /\ Inv /\ KTypeOK /\ ~undef
  /\ Quiet /\ LoopTested /\ SettingUp /\ Ready /\ UnderWay /\ Complete

\* The parts of the invariant that speak of the kernel's own state.
KernelOK ==
  /\ pc \in {"loop.MCR", "loop.write1", "loop.read1", "loop.write2",
             "loop.read2", "setup", "call", "poll", "next", "stp", "post_fail"}
  /\ y \in Nat /\ ticks \in Nat
  /\ call \in 0..Len(Messages)
  /\ line \in Seq(Byte) /\ typed \in BOOLEAN

LEMMA Assembled ==
  Inv' /\ KernelOK' /\ ~undef' /\ Quiet' /\ LoopTested' /\ SettingUp'
    /\ Ready' /\ UnderWay' /\ Complete' => BootInv'
BY DEF BootInv, Inv, KTypeOK, KernelOK

\* A message is a sequence of bytes other than zero.
LEMMA MessageType ==
  ASSUME NEW n \in 1..Len(Messages)
  PROVE  /\ Messages[n] \in Seq(Byte)
         /\ \A i \in 1..Len(Messages[n]) : Messages[n][i] \in Byte
<1>1. Messages[n] \in Seq(Byte \ {0})
  BY KernelSerialAssumption
<1>. QED BY <1>1

\* The constants as the proofs use them.
LEMMA Constants ==
  /\ TEST1 \in Byte /\ TEST2 \in Byte /\ DIVISOR \in Byte /\ 0 \in Byte
  /\ DIVISOR \in Int /\ Len(Messages) \in Nat /\ Len(Messages) > 0
  /\ \A n \in Idle : n \in Nat
<1>1. Len(Messages) \in Nat /\ Len(Messages) > 0
  BY KernelSerialAssumption
<1>2. TEST1 \in Byte /\ TEST2 \in Byte /\ DIVISOR \in Byte /\ 0 \in Byte
  BY KernelSerialAssumption
<1>3. DIVISOR \in Int
  BY <1>2, UartAssumption
<1>. QED BY <1>1, <1>2, <1>3, KernelSerialAssumption

LEMMA KInitBoot == KInit => BootInv
<1>. SUFFICES ASSUME KInit PROVE BootInv
  OBVIOUS
<1>1. Inv
  BY InitInv DEF KInit
<1>2. KTypeOK
  <2>1. 0 \in 0..Len(Messages) /\ ticks \in Nat
    BY Constants DEF KInit
  <2>2. line \in Seq(Byte)
    BY EmptyFits DEF KInit
  <2>. QED BY <1>1, <2>1, <2>2 DEF KInit, KTypeOK, Inv
<1>3. ~undef /\ Quiet /\ LoopTested
  BY DEF KInit, Init, Quiet, Empty, LoopTested, FifoEnabled, LatchAccess
<1>4. SettingUp /\ Ready /\ UnderWay /\ Complete
  BY DEF KInit, SettingUp, Ready, UnderWay, Complete, Writing
<1>. QED BY <1>1, <1>2, <1>3, <1>4 DEF BootInv

\* An idle transmitter holds no byte.
LEMMA NothingQueued ==
  ASSUME BootInv, "THRE" \in mLSR
  PROVE  mXmitFifo = <<>> /\ "TEMT" \in mLSR
BY DEF BootInv, Inv, QueuedByteIsDue

-----------------------------------------------------------------------------
(* One lemma per action.                                                   *)

\* A byte written in loopback is in RBR at once, and the transmitter is idle.
LEMMA LoopedBack ==
  ASSUME BootInv, ~FifoEnabled, Loopback, "THRE" \in mLSR,
         NEW val, StoreTHR(val)
  PROVE  /\ mRBR' = val /\ "THRE" \in mLSR'
         /\ UNCHANGED <<mFCR, mLCR, mMCR, undef>>
<1>. DEFINE lsr == StatusAfterSend(Queued(val), mLSR \ Empty)
<1>1. Receive(NextOut(Queued(val), val), lsr)
  BY DEF StoreTHR, Send
<1>2. NextOut(Queued(val), val) = val /\ "THRE" \in lsr
  BY DEF NextOut, StatusAfterSend, Empty
<1>3. mRBR' = val /\ "THRE" \in mLSR'
  BY <1>1, <1>2 DEF Receive
<1>. QED BY <1>3 DEF StoreTHR

LEMMA LoopModeBoot ==
  ASSUME BootInv, LoopMode, UNCHANGED typed
  PROVE  BootInv'
<1>1. Inv'
  BY StoreControlInv DEF LoopMode, BootInv
<1>2. /\ pc = "loop.MCR" /\ pc' = "loop.write1" /\ ticks' = 3
      /\ UNCHANGED <<y, call, line, typed, mFCR, mLCR, mLSR, undef>>
      /\ mMCR' = {"LOOPBACK"}
  BY DEF LoopMode, Goto, StoreMCR, ModemControlBits, ModemControl
<1>3. KernelOK' /\ ~undef'
  BY <1>2 DEF KernelOK, BootInv, KTypeOK
<1>4. Quiet' /\ LoopTested'
  BY <1>2 DEF BootInv, Quiet, Writing, LoopTested, Testing, FifoEnabled,
              LatchAccess, Loopback
<1>5. SettingUp' /\ Ready' /\ UnderWay' /\ Complete'
  BY <1>2 DEF SettingUp, Ready, UnderWay, Complete, Writing
<1>. QED BY <1>1, <1>3, <1>4, <1>5, Assembled

LEMMA LoopWriteBoot ==
  ASSUME BootInv, LoopWrite, UNCHANGED typed
  PROVE  BootInv'
<1>. DEFINE val == IF pc = "loop.write1" THEN TEST1 ELSE TEST2
<1>1. /\ pc \in {"loop.write1", "loop.write2"} /\ ticks' = 2
      /\ pc' = IF pc = "loop.write1" THEN "loop.read1" ELSE "loop.read2"
      /\ Store0(val)
      /\ UNCHANGED <<y, call, line, typed>>
  BY DEF LoopWrite, Goto
<1>2. val \in Byte
  BY Constants
<1>3. ~FifoEnabled /\ ~LatchAccess /\ Loopback /\ "THRE" \in mLSR
  BY <1>1 DEF BootInv, LoopTested, Testing, Quiet, Writing
<1>4. StoreTHR(val)
  BY <1>1, <1>3 DEF Store0, StoreDLL
<1>5. Inv'
  BY <1>2, <1>4, StoreTHRInv DEF BootInv
<1>6. /\ mRBR' = val /\ "THRE" \in mLSR'
      /\ UNCHANGED <<mFCR, mLCR, mMCR, undef>>
  BY <1>3, <1>4, LoopedBack
<1>7. KernelOK' /\ ~undef'
  BY <1>1, <1>6 DEF KernelOK, BootInv, KTypeOK
<1>8. Quiet' /\ LoopTested'
  BY <1>1, <1>3, <1>6 DEF BootInv, Quiet, Writing, LoopTested, Testing,
                          FifoEnabled, LatchAccess, Loopback
<1>9. SettingUp' /\ Ready' /\ UnderWay' /\ Complete'
  BY <1>1 DEF SettingUp, Ready, UnderWay, Complete, Writing
<1>. QED BY <1>5, <1>7, <1>8, <1>9, Assembled

LEMMA LoopReadBoot ==
  ASSUME BootInv, LoopRead, UNCHANGED typed
  PROVE  BootInv'
<1>1. Inv'
  BY ReadRBRInv DEF LoopRead, BootInv
<1>2. ~FifoEnabled /\ ~LatchAccess /\ Loopback /\ "THRE" \in mLSR
  BY DEF LoopRead, BootInv, LoopTested, Testing, Quiet, Writing
<1>3. /\ mLSR' = mLSR \ {"DR"}
      /\ UNCHANGED <<mRBR, mFCR, mLCR, mMCR, undef>>
      /\ ReadRBRValue = mRBR
  BY <1>2 DEF LoopRead, ReadRBR, ReadRBRValue, data
<1>4. /\ pc \in {"loop.read1", "loop.read2"}
      /\ UNCHANGED <<y, call, line, typed>>
      /\ ticks' \in Nat
      /\ \/ pc = "loop.read1" /\ pc' = "loop.write2"
         \/ pc = "loop.read2" /\ pc' = "setup"
         \/ /\ pc' = "post_fail"
            /\ mRBR # IF pc = "loop.read1" THEN TEST1 ELSE TEST2
  BY <1>3, Constants DEF LoopRead, Goto
<1>5. KernelOK' /\ ~undef'
  BY <1>3, <1>4 DEF KernelOK, BootInv, KTypeOK
<1>6. typed \/ pc' # "post_fail"
  BY <1>4 DEF BootInv, LoopTested, Testing
<1>7. Quiet' /\ LoopTested'
  BY <1>2, <1>3, <1>4, <1>6
     DEF BootInv, Quiet, Writing, LoopTested, Testing, FifoEnabled,
         LatchAccess, Loopback
<1>8. SettingUp'
  BY <1>2, <1>3, <1>4
     DEF BootInv, LoopTested, Testing, SettingUp, FifoEnabled
<1>9. Ready' /\ UnderWay' /\ Complete'
  BY <1>4 DEF Ready, UnderWay, Complete, Writing
<1>. QED BY <1>1, <1>5, <1>7, <1>8, <1>9, Assembled

\* What one store of the setup leaves of the registers it is about.
LEMMA SetupRegisters ==
  ASSUME BootInv, pc = "setup", SetupStore
  PROVE  /\ "THRE" \in mLSR' /\ ~undef' /\ y \in 0..11
         /\ FifoEnabled' = (y >= 8)
         /\ y \in 0..5 => LatchAccess'
         /\ y >= 6 => ~LatchAccess'
         /\ y >= 1 => ~Loopback'
         /\ y >= 2 => mDLL' = DIVISOR
         /\ y >= 3 => mClocksPerByte' = 2 * DIVISOR
<1>. USE DEF queues, data, timing, divisor, interrupt, vars
<1>1. /\ y \in Nat /\ y <= 11 /\ FifoEnabled = (y >= 9)
      /\ y \in 1..6 => LatchAccess
      /\ y >= 7 => ~LatchAccess
      /\ y >= 2 => ~Loopback
      /\ y >= 3 => mDLL = DIVISOR
      /\ y >= 4 => mClocksPerByte = 2 * DIVISOR
      /\ "THRE" \in mLSR /\ ~undef
  BY DEF BootInv, KTypeOK, SettingUp, Quiet, Writing
<1>2. CASE y = 0 /\ StoreLCR({"DLAB"})
  BY <1>1, <1>2 DEF StoreLCR, FifoEnabled, LatchAccess
<1>3. CASE y \in {1, 7} /\ StoreMCR({})
  BY <1>1, <1>3
     DEF StoreMCR, ModemControlBits, FifoEnabled, LatchAccess, Loopback
<1>4. CASE y = 2 /\ Store0(DIVISOR)
  <2>1. StoreDLL(DIVISOR)
    BY <1>1, <1>4 DEF Store0, StoreTHR
  <2>. QED BY <1>1, <1>4, <2>1
           DEF StoreDLL, FifoEnabled, LatchAccess, Loopback
<1>5. CASE y \in {3, 4} /\ (StoreDLM(0) \/ StoreIER({}))
  <2>1. StoreDLM(0)
    BY <1>1, <1>5 DEF StoreIER
  <2>2. ByteRate(mDLL, 0) = 2 * DIVISOR
    BY <1>1, <1>5, Constants DEF ByteRate
  <2>. QED BY <1>1, <1>5, <2>1, <2>2
           DEF StoreDLM, FifoEnabled, LatchAccess, Loopback
<1>6. CASE y = 5 /\ StoreFCR({})
  BY <1>1, <1>6 DEF StoreFCR, FifoEnabled, LatchAccess, Loopback
<1>7. CASE y = 6 /\ StoreLCR({"8BITS"})
  BY <1>1, <1>7 DEF StoreLCR, FifoEnabled, LatchAccess, Loopback
<1>8. CASE y = 8 /\ StoreFCR({"FIFO_ENABLE"})
  BY <1>1, <1>8 DEF StoreFCR, FifoEnabled, LatchAccess, Loopback
<1>9. CASE y = 9 /\ StoreLCR({})
  BY <1>1, <1>9 DEF StoreLCR, FifoEnabled, LatchAccess, Loopback
<1>10. CASE y = 10 /\ StoreMCR({"DTR"})
  BY <1>1, <1>10
     DEF StoreMCR, ModemControlBits, FifoEnabled, LatchAccess, Loopback
<1>11. CASE y = 11 /\ UNCHANGED uart
  BY <1>1, <1>11 DEF uart, FifoEnabled, LatchAccess, Loopback
<1>. QED BY <1>2, <1>3, <1>4, <1>5, <1>6, <1>7, <1>8, <1>9, <1>10, <1>11
         DEF SetupStore

LEMMA SetupInv ==
  ASSUME BootInv, SetupStore
  PROVE  Inv'
<1>1. Inv /\ {0, DIVISOR} \subseteq Byte
  BY Constants DEF BootInv
<1>2. CASE \E bits : StoreFCR(bits)
  BY <1>1, <1>2, StoreFCRInv
<1>3. CASE \E bits \in {{"DLAB"}, {"8BITS"}, {}} : StoreLCR(bits)
  BY <1>1, <1>3, StoreControlInv DEF LineControl
<1>4. CASE StoreIER({}) \/ \E bits : StoreMCR(bits)
  BY <1>1, <1>4, StoreControlInv
<1>5. CASE Store0(DIVISOR) \/ StoreDLM(0)
  BY <1>1, <1>5, StoreTHRInv, StoreLatchInv DEF Store0
<1>6. CASE UNCHANGED uart
  BY <1>1, <1>6, StutterInv DEF uart
<1>. QED BY <1>2, <1>3, <1>4, <1>5, <1>6 DEF SetupStore

LEMMA SetupBoot ==
  ASSUME BootInv, Setup, UNCHANGED typed
  PROVE  BootInv'
<1>1. Inv'
  BY SetupInv DEF Setup
<1>2. /\ "THRE" \in mLSR' /\ ~undef' /\ y \in 0..11
      /\ FifoEnabled' = (y >= 8)
      /\ y \in 0..5 => LatchAccess'
      /\ y >= 6 => ~LatchAccess'
      /\ y >= 1 => ~Loopback'
      /\ y >= 2 => mDLL' = DIVISOR
      /\ y >= 3 => mClocksPerByte' = 2 * DIVISOR
  BY SetupRegisters DEF Setup
<1>3. /\ pc = "setup" /\ UNCHANGED <<call, line, typed>>
      /\ ticks' \in Nat /\ call = 0 /\ line = <<>>
      /\ \/ y < 11 /\ y' = y + 1 /\ pc' = "setup"
         \/ y = 11 /\ y' = 0 /\ pc' = "call"
  BY <1>2, Constants DEF Setup, Goto, BootInv, SettingUp
<1>4. KernelOK'
  BY <1>2, <1>3 DEF KernelOK, BootInv, KTypeOK
<1>5. Quiet' /\ LoopTested' /\ UnderWay' /\ Complete'
  BY <1>2, <1>3 DEF Quiet, LoopTested, Testing, UnderWay, Complete, Writing
<1>6. SettingUp' /\ Ready'
  BY <1>2, <1>3 DEF SettingUp, Ready, Writing, FifoEnabled, LatchAccess,
                    Loopback
<1>. QED BY <1>1, <1>2, <1>4, <1>5, <1>6, Assembled

LEMMA CallBoot ==
  ASSUME BootInv, Call, UNCHANGED typed
  PROVE  BootInv'
<1>1. Inv /\ UNCHANGED vars /\ Inv'
  BY StutterInv DEF Call, BootInv, uart
<1>2. /\ pc = "call" /\ pc' = "poll" /\ ticks' = 1 /\ y' = 0
      /\ line' = <<>> /\ call' = call + 1 /\ call' \in 1..Len(Messages)
      /\ UNCHANGED typed
  BY Constants DEF Call, Goto, BootInv, KTypeOK
<1>3. "THRE" \in mLSR /\ mXmitFifo = <<>> /\ ~undef
  BY <1>2, NothingQueued DEF BootInv, Quiet, Writing
<1>4. KernelOK' /\ ~undef'
  BY <1>1, <1>2, <1>3, EmptyFits DEF KernelOK, vars, BootInv, KTypeOK
<1>5. Quiet' /\ LoopTested' /\ SettingUp' /\ Complete'
  BY <1>2 DEF Quiet, LoopTested, Testing, SettingUp, Complete, Writing
<1>6. Ready'
  BY <1>1, <1>2 DEF BootInv, Ready, Writing, vars, FifoEnabled, Loopback,
                    LatchAccess, timing
<1>7. Messages[call']  \in Seq(Byte)
  BY <1>2, MessageType
<1>8. UnderWay'
  BY <1>1, <1>2, <1>3, <1>7
     DEF UnderWay, Shows, Writing, vars, queues, Transmitting
<1>. QED BY <1>1, <1>4, <1>5, <1>6, <1>8, Assembled

LEMMA PollBoot ==
  ASSUME BootInv, PollTHRE, UNCHANGED typed
  PROVE  BootInv'
<1>1. Inv'
  BY ReadStatusInv DEF PollTHRE, BootInv
<1>2. /\ pc = "poll" /\ ticks' \in Nat
      /\ UNCHANGED <<y, call, line, typed, mXmitFifo, mFCR, mLCR, mMCR,
                     mClocksPerByte, mClocksUntilSend, undef>>
      /\ mLSR' = mLSR \ {"OE"}
      /\ \/ "THRE" \in mLSR /\ pc' = "next"
         \/ pc' = "poll"
  BY DEF PollTHRE, Goto, ReadLSR, queues, timing
<1>3. KernelOK' /\ ~undef'
  BY <1>2 DEF KernelOK, BootInv, KTypeOK
<1>4. Quiet' /\ LoopTested' /\ SettingUp' /\ Complete'
  BY <1>2 DEF Quiet, LoopTested, Testing, SettingUp, Complete, Writing
<1>5. Ready'
  BY <1>2 DEF BootInv, Ready, Writing, FifoEnabled, Loopback, LatchAccess
<1>6. UnderWay'
  BY <1>2 DEF BootInv, UnderWay, Shows, Writing, Transmitting
<1>. QED BY <1>1, <1>3, <1>4, <1>5, <1>6, Assembled

\* The next character goes to an idle transmitter.
LEMMA CharQueued ==
  ASSUME BootInv, pc = "next", y < Len(Messages[call]),
         Store0(Messages[call][y + 1])
  PROVE  /\ Messages[call][y + 1] \in Byte
         /\ StoreTHR(Messages[call][y + 1])
         /\ mXmitFifo = <<>>
         /\ mXmitFifo' = <<Messages[call][y + 1]>>
         /\ mLSR' = mLSR \ Empty
         /\ mClocksUntilSend' = mClocksPerByte
         /\ UNCHANGED <<mFCR, mLCR, mMCR, mClocksPerByte, undef>>
<1>. DEFINE char == Messages[call][y + 1]
<1>1. call \in 1..Len(Messages) /\ y \in Nat
  BY DEF BootInv, UnderWay, Writing, KTypeOK
<1>2. Messages[call] \in Seq(Byte) /\ y + 1 \in 1..Len(Messages[call])
  BY <1>1, MessageType
<1>3. char \in Byte
  BY <1>1, <1>2, MessageType
<1>4. FifoEnabled /\ ~Loopback /\ ~LatchAccess /\ "THRE" \in mLSR
  BY DEF BootInv, Ready, Writing, UnderWay, Transmitting
<1>5. StoreTHR(char)
  BY <1>4 DEF Store0, StoreDLL
<1>6. mXmitFifo = <<>>
  BY <1>4, NothingQueued
<1>. HIDE DEF char
<1>7. Queued(char) = <<char>>
  BY <1>4, <1>6, UartAssumption DEF Queued
<1>8. Send(<<char>>, char, mLSR \ Empty)
  BY <1>5, <1>7 DEF StoreTHR
<1>9. /\ mXmitFifo' = <<char>> /\ mLSR' = mLSR \ Empty
      /\ mClocksUntilSend' = mClocksPerByte
  BY <1>4, <1>8 DEF Send
<1>10. UNCHANGED <<mFCR, mLCR, mMCR, mClocksPerByte, undef>>
  BY <1>5 DEF StoreTHR
<1>. QED BY <1>3, <1>5, <1>6, <1>9, <1>10 DEF char

\* Two sequences of one length and with the same elements are one.
LEMMA SameSequence ==
  ASSUME NEW s \in Seq(Byte), NEW t \in Seq(Byte), Len(s) = Len(t),
         \A i \in 1..Len(s) : s[i] = t[i]
  PROVE  s = t
OBVIOUS

LEMMA NextCharBoot ==
  ASSUME BootInv, NextChar, UNCHANGED typed
  PROVE  BootInv'
<1>1. /\ pc = "next" /\ UNCHANGED <<call, line, typed>> /\ y \in Nat
      /\ call \in 1..Len(Messages) /\ y <= Len(Messages[call])
      /\ Shows(Messages[call]) /\ Len(line) + Len(mXmitFifo) = y
      /\ "THRE" \in mLSR /\ mXmitFifo = <<>> /\ ~undef
  BY NothingQueued
     DEF NextChar, BootInv, UnderWay, Writing, KTypeOK, Transmitting
<1>2. Messages[call] \in Seq(Byte) /\ line \in Seq(Byte) /\ Len(line) = y
  BY <1>1, MessageType DEF BootInv, KTypeOK
<1>3. LoopTested' /\ SettingUp'
  BY <1>1 DEF NextChar, Goto, LoopTested, Testing, SettingUp
<1>4. CASE y < Len(Messages[call])
  <2>1. /\ Store0(Messages[call][y + 1])
        /\ y' = y + 1 /\ pc' = "poll" /\ ticks' = 3
    BY <1>1, <1>4 DEF NextChar, Goto
  <2>2. /\ Messages[call][y + 1] \in Byte
        /\ StoreTHR(Messages[call][y + 1])
        /\ mXmitFifo' = <<Messages[call][y + 1]>>
        /\ mLSR' = mLSR \ Empty
        /\ mClocksUntilSend' = mClocksPerByte
        /\ UNCHANGED <<mFCR, mLCR, mMCR, mClocksPerByte, undef>>
    BY <1>1, <1>4, <2>1, CharQueued
  <2>3. Inv'
    BY <2>2, StoreTHRInv DEF BootInv
  <2>4. KernelOK' /\ ~undef'
    BY <1>1, <2>1, <2>2 DEF KernelOK, BootInv, KTypeOK
  <2>5. Quiet' /\ Complete'
    BY <2>1 DEF Quiet, Complete, Writing
  <2>6. Ready'
    BY <1>1, <2>1, <2>2
       DEF BootInv, Ready, Writing, FifoEnabled, Loopback, LatchAccess
  <2>7. mXmitFifo' # <<>> /\ Len(mXmitFifo') = 1 /\ ~(pc' = "next")
        /\ mClocksUntilSend' <= mClocksPerByte'
    BY <2>1, <2>2 DEF BootInv, KTypeOK, TypeOK
  <2>8. UnderWay'
    BY <1>1, <1>2, <1>4, <2>1, <2>2, <2>7
       DEF UnderWay, Shows, Writing, Transmitting
  <2>. QED BY <1>3, <2>3, <2>4, <2>5, <2>6, <2>8, Assembled
<1>5. CASE y = Len(Messages[call])
  <2>1. /\ UNCHANGED <<vars, y>> /\ pc' = "call" /\ ticks' \in Nat
    BY <1>1, <1>5, Constants DEF NextChar, Goto, uart
  <2>2. Inv'
    BY <2>1, StutterInv DEF BootInv
  <2>3. line = Messages[call]
    BY <1>1, <1>2, <1>5, SameSequence DEF Shows
  <2>4. KernelOK' /\ ~undef'
    BY <1>1, <2>1 DEF KernelOK, BootInv, KTypeOK, vars
  <2>5. Quiet' /\ UnderWay'
    BY <1>1, <2>1 DEF Quiet, UnderWay, Writing, vars
  <2>6. Ready'
    BY <1>1, <2>1
       DEF BootInv, Ready, Writing, FifoEnabled, Loopback, LatchAccess, vars,
           timing
  <2>7. Complete'
    BY <1>1, <2>1, <2>3 DEF Complete
  <2>. QED BY <1>3, <2>2, <2>4, <2>5, <2>6, <2>7, Assembled
<1>. QED BY <1>1, <1>2, <1>4, <1>5

LEMMA FinishBoot ==
  ASSUME BootInv, Finish, UNCHANGED typed
  PROVE  BootInv'
<1>1. /\ pc = "call" /\ call = Len(Messages) /\ pc' = "stp" /\ ticks' = 0
      /\ UNCHANGED <<vars, y, call, line, typed>>
  BY DEF Finish, Goto, uart
<1>2. Inv'
  BY <1>1, StutterInv DEF BootInv
<1>3. KernelOK' /\ ~undef'
  BY <1>1 DEF KernelOK, BootInv, KTypeOK, vars
<1>4. Quiet' /\ LoopTested' /\ SettingUp' /\ UnderWay'
  BY <1>1 DEF BootInv, Quiet, LoopTested, Testing, SettingUp, UnderWay,
              Writing, vars
<1>5. Ready'
  BY <1>1 DEF BootInv, Ready, Writing, FifoEnabled, Loopback, LatchAccess,
              vars, timing
<1>6. Complete'
  BY <1>1, Constants DEF BootInv, Complete
<1>. QED BY <1>2, <1>3, <1>4, <1>5, <1>6, Assembled

\* A key leaves the transmitter's status as the transfer has left it.
LEMMA PollKeepsTransmitter ==
  ASSUME NEW key, NEW lsr, Poll(key, lsr)
  PROVE  /\ "THRE" \in mLSR' <=> "THRE" \in lsr
         /\ key = 0 => UNCHANGED mRBR
BY DEF Poll, Receive

\* What addCycles does while the transmitter is idle.
LEMMA TickIdle ==
  ASSUME BootInv, "THRE" \in mLSR, NEW cycles, NEW key, AddCycles(cycles, key)
  PROVE  /\ Printed(cycles) = <<>> /\ mXmitFifo' = mXmitFifo
         /\ "THRE" \in mLSR' /\ UNCHANGED undef
         /\ mRBR' = mRBR \/ (ByteTime(cycles) /\ key # 0)
<1>1. ~Transmitting /\ ~Underrun /\ Printed(cycles) = <<>>
  BY DEF Transmitting, Underrun, Printed
<1>2. CASE ~ByteTime(cycles)
  BY <1>1, <1>2 DEF AddCycles, queues
<1>3. CASE ByteTime(cycles)
  <2>1. Poll(key, mLSR) /\ UNCHANGED <<mXmitFifo, undef>>
    BY <1>1, <1>3 DEF AddCycles
  <2>. QED BY <1>1, <1>3, <2>1, PollKeepsTransmitter
<1>. QED BY <1>2, <1>3

\* What it does while a byte is on its way: it counts the byte time down, or
\* the byte reaches the terminal and the transmitter is idle.
LEMMA TickBusy ==
  ASSUME BootInv, Writing, "THRE" \notin mLSR,
         NEW cycles \in Cycles, NEW key, AddCycles(cycles, key)
  PROVE  /\ UNCHANGED undef
         /\ \/ /\ Printed(cycles) = <<>>
               /\ UNCHANGED <<mXmitFifo, mLSR>>
               /\ mClocksUntilSend' <= mClocksPerByte
            \/ /\ Printed(cycles) = mXmitFifo
               /\ mXmitFifo' = <<>> /\ "THRE" \in mLSR'
<1>1. /\ mXmitFifo = <<Messages[call][y]>> /\ Transmitting /\ FifoEnabled
      /\ mClocksUntilSend <= mClocksPerByte
  BY DEF BootInv, UnderWay, Ready, Transmitting
<1>2. ~Underrun
  BY <1>1 DEF Underrun
<1>3. CASE ~ByteTime(cycles)
  <2>1. mClocksUntilSend' = mClocksUntilSend - cycles
    BY <1>3 DEF AddCycles
  <2>2. mClocksUntilSend' <= mClocksPerByte
    BY <1>1, <2>1, UartAssumption DEF BootInv, KTypeOK, TypeOK
  <2>. QED BY <1>3, <2>2 DEF AddCycles, queues, Printed
<1>4. CASE ByteTime(cycles)
  <2>1. /\ Poll(key, StatusAfterSend(mXmitFifo, mLSR))
        /\ mXmitFifo' = Rest(mXmitFifo) /\ UNCHANGED undef
    BY <1>1, <1>2, <1>4 DEF AddCycles
  <2>2. mXmitFifo' = <<>>
    BY <1>1, <2>1 DEF Rest
  <2>3. "THRE" \in StatusAfterSend(mXmitFifo, mLSR)
    BY <1>1 DEF StatusAfterSend, Empty
  <2>4. Printed(cycles) = mXmitFifo
    BY <1>1, <1>2, <1>4 DEF Printed, NextOut
  <2>. QED BY <2>1, <2>2, <2>3, <2>4, PollKeepsTransmitter
<1>. QED BY <1>3, <1>4

\* The byte that is on its way is the one the terminal is to show next.
LEMMA ShowsOneMore ==
  ASSUME BootInv, Writing, mXmitFifo # <<>>, line' = line \o mXmitFifo
  PROVE  /\ Len(line) + 1 = y /\ Len(line') = y
         /\ line' = Append(line, Messages[call][Len(line) + 1])
         /\ line' \in Seq(Byte)
         /\ \A i \in 1..Len(line') : line'[i] = Messages[call][i]
<1>1. /\ mXmitFifo = <<Messages[call][y]>> /\ line \in Seq(Byte)
      /\ Len(line) + Len(mXmitFifo) = y /\ y \in Nat
      /\ call \in 1..Len(Messages) /\ y <= Len(Messages[call])
      /\ \A i \in 1..Len(line) : line[i] = Messages[call][i]
  BY DEF BootInv, UnderWay, KTypeOK, Shows
<1>2. Len(line) + 1 = y
  BY <1>1
<1>. DEFINE char == Messages[call][y]
<1>3. char \in Byte
  <2>1. Messages[call] \in Seq(Byte) /\ y \in 1..Len(Messages[call])
    BY <1>1, <1>2, MessageType
  <2>. QED BY <1>1, <2>1, MessageType
<1>. HIDE DEF char
<1>4. mXmitFifo = <<char>>
  BY <1>1 DEF char
<1>5. line' = Append(line, char)
  BY <1>1, <1>3, <1>4
<1>6. line' \in Seq(Byte) /\ Len(line') = y
  BY <1>1, <1>2, <1>3, <1>5
<1>7. \A i \in 1..Len(line') : line'[i] = Messages[call][i]
  <2>. TAKE i \in 1..Len(line')
  <2>1. CASE i = y
    BY <1>1, <1>2, <1>3, <1>5, <2>1 DEF char
  <2>2. CASE i # y
    BY <1>1, <1>2, <1>3, <1>5, <1>6, <2>2
  <2>. QED BY <2>1, <2>2
<1>. QED BY <1>2, <1>5, <1>6, <1>7 DEF char

LEMMA TickBoot ==
  ASSUME BootInv, ticks # 0, Tick
  PROVE  BootInv'
<1>1. PICK cycles \in Cycles, key \in Keys :
        /\ AddCycles(cycles, key)
        /\ line' = line \o Printed(cycles)
        /\ typed' = (typed \/ (Testing /\ ByteTime(cycles) /\ key # 0))
  BY DEF Tick
<1>2. /\ ticks' \in Nat /\ typed' \in BOOLEAN
      /\ UNCHANGED <<pc, y, call>> /\ line \in Seq(Byte)
  BY <1>1 DEF Tick, BootInv, KTypeOK
<1>3. UNCHANGED <<mFCR, mLCR, mMCR, mDLL, mClocksPerByte>>
  BY <1>1 DEF AddCycles, divisor
<1>4. Inv'
  BY <1>1, AddCyclesInv DEF BootInv
<1>5. Ready'
  BY <1>2, <1>3 DEF BootInv, Ready, Writing, FifoEnabled, Loopback,
                    LatchAccess
<1>6. CASE "THRE" \in mLSR
  <2>1. /\ Printed(cycles) = <<>> /\ mXmitFifo' = mXmitFifo
        /\ "THRE" \in mLSR' /\ UNCHANGED undef
        /\ mRBR' = mRBR \/ (ByteTime(cycles) /\ key # 0)
    BY <1>1, <1>6, TickIdle
  <2>2. line' = line
    BY <1>1, <1>2, <2>1
  <2>3. KernelOK' /\ ~undef'
    BY <1>2, <2>1, <2>2 DEF KernelOK, BootInv, KTypeOK
  <2>4. Quiet' /\ Complete'
    BY <1>2, <2>1, <2>2 DEF BootInv, Quiet, Complete
  <2>5. LoopTested'
    <3>1. /\ Testing => mRBR' = mRBR \/ typed'
          /\ typed => typed'
      BY <1>1, <2>1
    <3>. QED BY <1>2, <1>3, <2>2, <3>1, Zenon
             DEF BootInv, LoopTested, Testing, FifoEnabled, LatchAccess,
                 Loopback
  <2>6. SettingUp'
    BY <1>2, <1>3, <2>2 DEF BootInv, SettingUp, FifoEnabled, LatchAccess,
                            Loopback
  <2>7. UnderWay'
    BY <1>2, <2>1, <2>2, <1>6
       DEF BootInv, UnderWay, Shows, Writing, Transmitting
  <2>. QED BY <1>4, <1>5, <2>3, <2>4, <2>5, <2>6, <2>7, Assembled
<1>7. CASE "THRE" \notin mLSR
  <2>1. Writing /\ pc = "poll" /\ ~undef /\ mXmitFifo # <<>>
    BY <1>7 DEF BootInv, Quiet, UnderWay, Transmitting, Writing
  <2>2. /\ UNCHANGED undef
        /\ \/ /\ Printed(cycles) = <<>>
              /\ UNCHANGED <<mXmitFifo, mLSR>>
              /\ mClocksUntilSend' <= mClocksPerByte
           \/ /\ Printed(cycles) = mXmitFifo
              /\ mXmitFifo' = <<>> /\ "THRE" \in mLSR'
    BY <1>1, <1>7, <2>1, TickBusy
  <2>3. Quiet' /\ LoopTested' /\ SettingUp' /\ Complete'
    BY <1>2, <2>1
       DEF Quiet, LoopTested, Testing, SettingUp, Complete, Writing
  <2>4. CASE UNCHANGED <<mXmitFifo, mLSR>> /\ Printed(cycles) = <<>>
    <3>1. line' = line
      BY <1>1, <1>2, <2>4
    <3>2. KernelOK' /\ ~undef'
      BY <1>2, <2>1, <2>2, <3>1 DEF KernelOK, BootInv, KTypeOK
    <3>3. mClocksUntilSend' <= mClocksPerByte'
      BY <1>3, <2>1, <2>2, <2>4
    <3>4. UnderWay'
      BY <1>2, <2>1, <2>4, <3>1, <3>3
         DEF BootInv, UnderWay, Shows, Writing, Transmitting
    <3>. QED BY <1>4, <1>5, <2>3, <3>2, <3>4, Assembled
  <2>5. CASE /\ Printed(cycles) = mXmitFifo
             /\ mXmitFifo' = <<>> /\ "THRE" \in mLSR'
    <3>1. /\ line' \in Seq(Byte) /\ Len(line') = y
          /\ \A i \in 1..Len(line') : line'[i] = Messages[call][i]
      BY <1>1, <2>1, <2>5, ShowsOneMore
    <3>2. KernelOK' /\ ~undef'
      BY <1>2, <2>1, <2>2, <3>1 DEF KernelOK, BootInv, KTypeOK
    <3>3. /\ call \in 1..Len(Messages) /\ y <= Len(Messages[call]) 
          /\ y \in Nat
      BY <2>1 DEF BootInv, UnderWay, KTypeOK
    <3>4. Len(line') + Len(mXmitFifo') = y'
      BY <1>2, <2>5, <3>1, <3>3
    <3>5. UnderWay'
      BY <1>2, <2>1, <2>5, <3>1, <3>3, <3>4
         DEF UnderWay, Shows, Writing, Transmitting
    <3>. QED BY <1>4, <1>5, <2>3, <3>2, <3>5, Assembled
  <2>. QED BY <2>2, <2>4, <2>5
<1>. QED BY <1>6, <1>7

\* Every step of the boot keeps the invariant.
LEMMA NextBoot ==
  ASSUME BootInv, [KNext]_kernelVars
  PROVE  BootInv'
<1>1. CASE ticks # 0 /\ Tick
  BY <1>1, TickBoot
<1>2. CASE Execute
  BY <1>2, LoopModeBoot, LoopWriteBoot, LoopReadBoot, SetupBoot, CallBoot,
     PollBoot, NextCharBoot, FinishBoot DEF Execute, LoopTest
<1>3. CASE UNCHANGED kernelVars
  <2>1. Inv'
    BY <1>3, StutterInv DEF kernelVars, BootInv
  <2>2. KernelOK' /\ ~undef'
    BY <1>3 DEF kernelVars, vars, BootInv, KTypeOK, KernelOK
  <2>3. Quiet' /\ LoopTested' /\ SettingUp' /\ Ready' /\ UnderWay'
          /\ Complete'
    BY <1>3 DEF kernelVars, vars, queues, data, timing, divisor, BootInv,
                Quiet, LoopTested, Testing, SettingUp, Ready, UnderWay, Shows,
                Complete, Writing, FifoEnabled, LatchAccess, Loopback,
                Transmitting
  <2>. QED BY <2>1, <2>2, <2>3, Assembled
<1>. QED BY <1>1, <1>2, <1>3 DEF KNext, Step, Stopped

-----------------------------------------------------------------------------
(* Each step of the boot is a step of SerialConsole, or none.              *)

ConsoleVars == <<Status, call, line>>

LEMMA InitConsole == KInit => Console!Init
BY DEF KInit, Console!Init, Status

\* While the kernel's own state stays as it is, so does the console.
LEMMA SamePlace ==
  ASSUME UNCHANGED <<pc, call, line>>
  PROVE  UNCHANGED ConsoleVars
BY DEF ConsoleVars, Status

LEMMA TickConsole ==
  ASSUME BootInv, Tick
  PROVE  Console!Next \/ UNCHANGED ConsoleVars
<1>1. PICK cycles \in Cycles, key \in Keys :
        /\ AddCycles(cycles, key)
        /\ line' = line \o Printed(cycles)
  BY DEF Tick
<1>2. UNCHANGED <<pc, call>> /\ line \in Seq(Byte)
  BY DEF Tick, BootInv, KTypeOK
<1>3. CASE Printed(cycles) = <<>>
  <2>1. line' = line
    BY <1>1, <1>2, <1>3
  <2>. QED BY <1>2, <2>1, SamePlace
<1>4. CASE Printed(cycles) # <<>>
  <2>1. "THRE" \notin mLSR
    BY <1>4 DEF Printed, Transmitting
  <2>2. Writing
    BY <2>1 DEF BootInv, Quiet
  <2>3. Printed(cycles) = mXmitFifo
    BY <1>1, <1>4, <2>1, <2>2, TickBusy
  <2>4. /\ Len(line) + 1 = y
        /\ line' = Append(line, Messages[call][Len(line) + 1])
    BY <1>1, <1>4, <2>2, <2>3, ShowsOneMore
  <2>5. /\ y <= Len(Messages[call]) /\ y \in Nat
        /\ call \in 1..Len(Messages)
    BY <2>2 DEF BootInv, UnderWay, KTypeOK
  <2>6. Len(line) < Len(Messages[call])
    <3>1. Messages[call] \in Seq(Byte)
      BY <2>5, MessageType
    <3>. QED BY <1>2, <2>4, <2>5, <3>1
  <2>7. Status = "printing" /\ UNCHANGED Status
    BY <1>2, <2>2 DEF Status, Writing
  <2>. QED BY <1>2, <2>4, <2>6, <2>7 DEF Console!Next, Console!ShowChar
<1>. QED BY <1>3, <1>4

LEMMA ExecuteConsole ==
  ASSUME BootInv, BootInv', Execute
  PROVE  Console!Next \/ UNCHANGED ConsoleVars
<1>1. CASE LoopMode \/ LoopWrite
  BY <1>1 DEF LoopMode, LoopWrite, Goto, ConsoleVars, Status
<1>2. CASE LoopRead
  <2>1. CASE pc' = "post_fail"
    BY <1>2, <2>1
       DEF LoopRead, Status, Console!Next, Console!Fail
  <2>2. CASE pc' # "post_fail"
    BY <1>2, <2>2 DEF LoopRead, Goto, ConsoleVars, Status
  <2>. QED BY <2>1, <2>2
<1>3. CASE Setup
  <2>1. pc = "setup" /\ call = 0 /\ UNCHANGED <<call, line>>
    BY <1>3 DEF Setup, BootInv, SettingUp
  <2>2. pc' \in {"setup", "call"}
    BY <1>3 DEF Setup, Goto
  <2>. QED BY <2>1, <2>2 DEF ConsoleVars, Status
<1>4. CASE Call
  <2>1. /\ pc = "call" /\ call \in Nat /\ call < Len(Messages)
        /\ pc' = "poll" /\ call' = call + 1 /\ line' = <<>>
    BY <1>4, Constants DEF Call, Goto, BootInv, KTypeOK
  <2>2. Status \in {"post", "idle"} /\ Status' = "printing"
    BY <2>1 DEF Status
  <2>. QED BY <2>1, <2>2 DEF Console!Next, Console!Begin
<1>5. CASE PollTHRE
  BY <1>5 DEF PollTHRE, Goto, ConsoleVars, Status
<1>6. CASE NextChar
  <2>1. CASE pc' = "poll"
    BY <1>6, <2>1 DEF NextChar, ConsoleVars, Status
  <2>2. CASE pc' = "call"
    <3>1. pc = "next" /\ UNCHANGED <<call, line>> /\ call > 0
      <4>1. pc = "next" /\ UNCHANGED <<call, line>>
        BY <1>6 DEF NextChar
      <4>2. call > 0
        BY <4>1 DEF BootInv, UnderWay, Writing
      <4>. QED BY <4>1, <4>2
    <3>2. Status = "printing" /\ Status' = "idle"
      BY <2>2, <3>1 DEF Status
    <3>3. line = Messages[call]
      BY <2>2, <3>1, Constants DEF BootInv, Complete, KTypeOK
    <3>. QED BY <3>1, <3>2, <3>3 DEF Console!Next, Console!Return
  <2>. QED BY <1>6, <2>1, <2>2 DEF NextChar, Goto
<1>7. CASE Finish
  <2>1. /\ pc = "call" /\ call = Len(Messages) /\ call > 0
        /\ pc' = "stp" /\ UNCHANGED <<call, line>>
    BY <1>7, Constants DEF Finish, Goto
  <2>2. Status = "idle" /\ Status' = "finished"
    BY <2>1 DEF Status
  <2>. QED BY <2>1, <2>2 DEF Console!Next, Console!Finish
<1>. QED BY <1>1, <1>2, <1>3, <1>4, <1>5, <1>6, <1>7 DEF Execute, LoopTest

LEMMA NextConsole ==
  ASSUME BootInv, BootInv', [KNext]_kernelVars
  PROVE  [Console!Next]_ConsoleVars
<1>1. CASE Tick
  BY <1>1, TickConsole
<1>2. CASE Execute
  BY <1>2, ExecuteConsole
<1>3. CASE UNCHANGED kernelVars
  BY <1>3, SamePlace DEF kernelVars
<1>. QED BY <1>1, <1>2, <1>3 DEF KNext, Step, Stopped

-----------------------------------------------------------------------------
(* The theorems.                                                           *)

LEMMA Booting == KSpec => []BootInv
BY KInitBoot, NextBoot, PTL DEF KSpec

\* Every variable of the kernel and of its UART keeps its type.
THEOREM KernelTypeCorrect == KSpec => []KTypeOK
<1>1. BootInv => KTypeOK
  BY DEF BootInv
<1>. QED BY Booting, <1>1, PTL

\* No read of RBR and no byte time finds an empty deque to pop.
THEOREM NeverPopsEmpty == KSpec => []NeverUndefined
<1>1. BootInv => NeverUndefined
  BY DEF BootInv, NeverUndefined
<1>. QED BY Booting, <1>1, PTL

\* The setup, though each of its stores hits two registers, leaves the UART
\* in the mode, out of loopback and at the rate that writing needs.
THEOREM SetupIsComplete == KSpec => []ConfiguredForWriting
<1>1. BootInv => ConfiguredForWriting
  BY DEF BootInv, Ready, ConfiguredForWriting
<1>. QED BY Booting, <1>1, PTL

\* TERM_writes never has a second byte on its way, however slow or fast the
\* processor is with respect to the byte time.
THEOREM BytesGoSingly == KSpec => []OneByteAtATime
<1>1. BootInv => OneByteAtATime
  <2>. SUFFICES ASSUME BootInv, Writing PROVE OneByteAtATime
    BY DEF OneByteAtATime
  <2>1. /\ Len(line) + Len(mXmitFifo) = y
        /\ mXmitFifo # <<>> => mXmitFifo = <<Messages[call][y]>>
        /\ Transmitting => mClocksUntilSend <= mClocksPerByte
    BY DEF BootInv, UnderWay
  <2>2. Len(mXmitFifo) <= 1
    <3>1. CASE mXmitFifo = <<>>
      BY <3>1
    <3>2. CASE mXmitFifo # <<>>
      <4>1. \A char : Len(<<char>>) = 1
        OBVIOUS
      <4>2. Len(mXmitFifo) = 1
        BY <2>1, <3>2, <4>1, Zenon
      <4>. QED BY <4>2
    <3>. QED BY <3>1, <3>2
  <2>. QED BY <2>1, <2>2 DEF OneByteAtATime
<1>. QED BY Booting, <1>1, PTL

\* Whatever the registers held at power-on, only a key fails the test.
THEOREM OnlyAKeyFails == KSpec => []FailsOnlyForAKey
<1>1. BootInv => FailsOnlyForAKey
  BY DEF BootInv, LoopTested, FailsOnlyForAKey
<1>. QED BY Booting, <1>1, PTL

\* The messages reach the terminal one after the other, every character once
\* and in order, and the boot goes on only when a message is complete; that it
\* does go on is the part of ConsoleSpec that stays with TLC.
THEOREM ImplementsConsole ==
  KSpec => Console!Init /\ [][Console!Next]_ConsoleVars
<1>1. KSpec => KInit /\ [][KNext]_kernelVars
  BY PTL DEF KSpec
<1>2. KInit => Console!Init
  BY InitConsole
<1>3. BootInv /\ BootInv' /\ [KNext]_kernelVars => [Console!Next]_ConsoleVars
  BY NextConsole
<1>. QED BY Booting, <1>1, <1>2, <1>3, PTL
=============================================================================
