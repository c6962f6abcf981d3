----------------------------- MODULE MCDevices -----------------------------
\* Two tasks: two requests and an interrupt can meet.  A message of one byte
\* and one of two for the UART.
EXTENDS Devices

CONSTANTS short, long

Sizes == [b \in Buffer |-> IF b = short THEN 1 ELSE 2]
=============================================================================
