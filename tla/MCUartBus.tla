----------------------------- MODULE MCUartBus -----------------------------
(* A small UART: two-byte FIFOs, two byte values, a byte time of two or no *)
(* cycles, and every mode the control registers select.                    *)
EXTENDS UartBus

MCFCRs == {{}, {"FIFO_ENABLE"}, {"FIFO_ENABLE", "RCVR_FIFO_RESET"},
           {"FIFO_ENABLE", "XMIT_FIFO_RESET"}}
MCLCRs == {{}, {"DLAB"}}
MCMCRs == {{}, {"LOOPBACK", "DTR"}}
MCFloor == -3
MCIERs == {{}} \* IER changes nothing but itself
=============================================================================
