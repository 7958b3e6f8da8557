----------------------------- MODULE SerialPort -----------------------------
(***************************************************************************)
(* What a UART does for the program that drives it and for the line, told  *)
(* without registers: two first-in first-out queues, of capacity 1 (the    *)
(* holding and the buffer register) or Depth (the FIFOs).  A byte is sent  *)
(* in the order it was accepted and read in the order it arrived; queues   *)
(* are emptied only by a write that asks for it; a byte that arrives at a  *)
(* full receiver is lost or replaces the one there, and then the overrun   *)
(* flag is up until the program reads the status.                          *)
(*                                                                         *)
(* io is what passed between the port, its program and the line in the     *)
(* last step, so that each step is tied to the byte it was about.          *)
(***************************************************************************)
EXTENDS Integers, Sequences

CONSTANTS Byte, Keys, Depth

VARIABLES
  fifo, loop, \* the FIFOs are enabled; bytes sent come back at once
  tx, rx,     \* bytes accepted and not yet sent; arrived and not yet read
  due,        \* something is to be sent at the next byte time
  held,       \* the byte last offered while the FIFOs were off
  overrun, io

state == <<fifo, loop, tx, rx, due, held, overrun>>
vars  == <<state, io>>

Room == IF fifo THEN Depth ELSE 1

Nothing == [op |-> "none"]
Undefined  == [op |-> "undefined"]

Init ==
  /\ fifo = FALSE /\ loop = FALSE /\ tx = <<>> /\ rx = <<>>
  /\ due = FALSE /\ held \in Byte /\ overrun = FALSE /\ io = Nothing

\* What the transmitter holds once the program has offered it a byte: a full
\* FIFO refuses the byte, the holding register takes the newer one.
Offered(b) ==
  IF ~fifo THEN <<b>>
  ELSE IF Len(tx) < Room THEN Append(tx, b) ELSE tx

\* A byte arrives.  The flag rises when a byte is lost; outside FIFO mode
\* the code may also raise it when none is.
Arrive(b) ==
  \/ /\ Len(rx) < Room
     /\ rx' = Append(rx, b)
     /\ overrun' \in BOOLEAN /\ (overrun => overrun')
     /\ fifo => overrun' = overrun
  \/ /\ Len(rx) = Room
     /\ rx' = IF fifo THEN rx ELSE <<b>>
     /\ overrun' = TRUE

\* The program offers a byte.  In loopback the one that waited longest
\* arrives at once.
Write(b) ==
  /\ io' = [op |-> "write", val |-> b]
  /\ held' = IF fifo THEN held ELSE b
  /\ \/ /\ ~loop
        /\ tx' = Offered(b) /\ due' = TRUE
        /\ UNCHANGED <<rx, overrun>>
     \/ /\ loop
        /\ tx' = Tail(Offered(b)) /\ due' = (tx' # <<>>)
        /\ Arrive(Head(Offered(b)))
  /\ UNCHANGED <<fifo, loop>>

\* One byte time passes: the byte that waited longest is sent, and then a
\* key, if there is one, arrives.
Transfer(key) ==
  /\ due <=> tx # <<>>
  /\ io' = [op |-> "time", sent |-> IF due THEN <<Head(tx)>> ELSE <<>>,
            key |-> key]
  /\ tx' = IF due THEN Tail(tx) ELSE tx
  /\ due' = (tx' # <<>>)
  /\ IF key = 0 THEN UNCHANGED <<rx, overrun>> ELSE Arrive(key)
  /\ UNCHANGED <<fifo, loop, held>>

\* The program reads a byte: the one that waited longest.  With the FIFOs on
\* and nothing to send it is given 0 instead, and nothing is taken.
Read(val) ==
  /\ io' = [op |-> "read", val |-> val]
  /\ IF fifo /\ tx = <<>>
     THEN val = 0 /\ UNCHANGED rx
     ELSE /\ rx = <<>> => ~fifo
          /\ rx # <<>> => val = Head(rx)
          /\ rx' = IF rx = <<>> THEN rx ELSE Tail(rx)
  /\ UNCHANGED <<fifo, loop, tx, due, held, overrun>>

ReadStatus ==
  /\ io' = [op |-> "status", overrun |-> overrun, due |-> due]
  /\ overrun' = FALSE
  /\ UNCHANGED <<fifo, loop, tx, rx, due, held>>

\* The program turns the FIFOs on or off, which empties both queues, or asks
\* for one of them to be emptied while they stay on.  What is due stays due:
\* turned off, the port has the held byte to send, though it may have been
\* sent before; that is the only way for a byte to be sent twice.
Control(on, clearRx, clearTx) ==
  LET switch == fifo # on IN
  /\ io' = [op |-> "control", on |-> on, rx |-> clearRx, tx |-> clearTx]
  /\ fifo' = on
  /\ rx' = IF switch \/ (on /\ clearRx) THEN <<>> ELSE rx
  /\ tx' = IF switch /\ ~on /\ due THEN <<held>>
           ELSE IF switch \/ (on /\ clearTx) THEN <<>> ELSE tx
  /\ UNCHANGED <<loop, due, held, overrun>>

\* Nothing is promised once the program has, with the FIFOs on, emptied a
\* transmitter that has a byte due, or read while bytes wait to be sent and
\* none to be read.
Misuse ==
  /\ fifo
  /\ (due /\ tx = <<>>) \/ (tx # <<>> /\ rx = <<>>)
  /\ io' = Undefined /\ UNCHANGED state

\* What does not concern the bytes; the program may turn loopback on or off.
Configure ==
  /\ loop' \in BOOLEAN
  /\ io' = Nothing
  /\ UNCHANGED <<fifo, tx, rx, due, held, overrun>>

Next ==
  \/ \E b \in Byte : Write(b)
  \/ \E key \in Keys : Transfer(key)
  \/ \E val \in Byte \cup {0} : Read(val)
  \/ ReadStatus
  \/ \E on, clearRx, clearTx \in BOOLEAN : Control(on, clearRx, clearTx)
  \/ Misuse \/ Configure

Spec == Init /\ [][Next]_vars
=============================================================================
