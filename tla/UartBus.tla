------------------------------ MODULE UartBus ------------------------------
(***************************************************************************)
(* The UART on a bus whose CPU may access any register in any order, at    *)
(* any time, with values drawn from the constants, while instructions take *)
(* cycles and keys arrive.                                                 *)
(***************************************************************************)
EXTENDS Uart

CONSTANTS
  IERs, FCRs, LCRs, MCRs, \* what the CPU may write to the control registers
  DLLs, DLMs,             \* and to the two halves of the divisor latch
  CLOCK_FLOOR             \* bound: how far mClocksUntilSend may fall

ASSUME UartBusAssumption ==
  /\ IERs \subseteq SUBSET InterruptEnables
  /\ FCRs \subseteq SUBSET FifoControl
  /\ LCRs \subseteq SUBSET LineControl
  /\ MCRs \subseteq SUBSET ModemControl
  /\ DLLs \subseteq Byte /\ DLMs \subseteq Byte
  /\ CLOCK_FLOOR \in Int

VARIABLE io \* history: what the last step was about, as SerialPort has it

busVars == <<vars, io>>

Nothing == [op |-> "none"]
Undefined  == [op |-> "undefined"]

\* storeByte: the switch on the offset.
StoreByte ==
  \/ \E val \in Byte : StoreTHR(val) /\ io' = [op |-> "write", val |-> val]
  \/ \E bits \in FCRs :
       /\ StoreFCR(bits)
       /\ io' = [op |-> "control", on |-> "FIFO_ENABLE" \in bits,
                 rx |-> "RCVR_FIFO_RESET" \in bits,
                 tx |-> "XMIT_FIFO_RESET" \in bits]
  \/ /\ \/ \E val \in Byte : StoreSCR(val)
        \/ \E val \in DLLs : StoreDLL(val)
        \/ \E val \in DLMs : StoreDLM(val)
        \/ \E bits \in IERs : StoreIER(bits)
        \/ \E bits \in LCRs : StoreLCR(bits)
        \/ \E bits \in MCRs : StoreMCR(bits)
     /\ io' = Nothing

\* readByte: the offsets whose reading changes the device.
ReadByte ==
  \/ /\ ReadRBR
     /\ io' = IF undef' THEN Undefined
              ELSE [op |-> "read", val |-> ReadRBRValue]
  \/ /\ ReadLSR
     /\ io' = [op |-> "status", overrun |-> "OE" \in mLSR,
               due |-> Transmitting]
  \/ ReadMSR /\ io' = Nothing

\* A key is polled only when the byte time has come.
PassCycles ==
  \E cycles \in Cycles, key \in Keys :
    /\ mClocksUntilSend - cycles >= CLOCK_FLOOR
    /\ AddCycles(cycles, key)
    /\ io' = IF undef' THEN Undefined
             ELSE IF ~ByteTime(cycles) THEN Nothing
             ELSE [op |-> "time", sent |-> Printed(cycles), key |-> key]

\* After undefined behaviour nothing more is said about the device.
Halted == undef /\ UNCHANGED busVars

Next ==
  \/ ~undef /\ (StoreByte \/ ReadByte \/ PassCycles)
  \/ Halted

BusInit == Init /\ io = Nothing

Spec == BusInit /\ [][Next]_busVars

-----------------------------------------------------------------------------
(* The device implements the abstract port: in FIFO mode the queues are    *)
(* the deques; otherwise the transmitter holds THR while THRE is clear,    *)
(* and the receiver RBR while it is marked full and DR announces it.       *)

TxQueue ==
  IF FifoEnabled THEN mXmitFifo
  ELSE IF Transmitting THEN <<mTHR>> ELSE <<>>

RxQueue ==
  IF FifoEnabled THEN mRcvrFifo
  ELSE IF rbrFull /\ "DR" \in mLSR THEN <<mRBR>> ELSE <<>>

Port == INSTANCE SerialPort WITH
          Depth <- FIFO_SIZE, fifo <- FifoEnabled, loop <- Loopback,
          tx <- TxQueue, rx <- RxQueue, due <- Transmitting, held <- mTHR,
          overrun <- "OE" \in mLSR

\* Each byte sent to the terminal is the oldest one written and not yet sent,
\* each byte a read returns is the oldest one that arrived, from the keyboard
\* or in loopback; only a write of FCR that asks for it drops what waits, only
\* switching the FIFOs off can send a byte again, and every loss in the
\* receiver raises OE until LSR is read.
PortSpec == Port!Spec

-----------------------------------------------------------------------------
(* What comments of the source say, and the code does not do.              *)

\* Uart.cpp:402, "Set RBR not read before filled error": outside FIFO mode OE
\* rises only when a byte arrives at an RBR that still holds an unread one.
OverrunMeansLoss ==
  [][ ~FifoEnabled /\ "OE" \notin mLSR /\ "OE" \in mLSR' => "DR" \in mLSR ]_vars
=============================================================================
