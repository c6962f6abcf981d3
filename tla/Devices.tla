------------------------------- MODULE Devices -------------------------------
(***************************************************************************)
(* What tasks get from the kernel through their calls: the pins, timer     *)
(* requests, mutexes and semaphores of Resources, and the mini UART of     *)
(* Muart.  They share no variable but the tasks that call: in every        *)
(* behaviour the calls of one part are made, and the other part stays in   *)
(* an initial state of its own.                                            *)
(***************************************************************************)
EXTENDS Resources, Sequences

CONSTANTS Alien, Buffer, Size, MaxRead   \* Muart

VARIABLES
  part,
  holder, locked, wbuf, wlen, written, rbuf, rmax, rlen,
  upc, passed, irq, clean, job, out, base, filled

uartVars == <<holder, locked, wbuf, wlen, written, rbuf, rmax, rlen,
              upc, passed, irq, clean, job, out, base, filled>>

Uart == INSTANCE Muart WITH owner <- holder, pc <- upc, arg <- passed

ASSUME DevicesAssumption == Uart!MuartAssumption

DevicesInit ==
  /\ part \in {"bank", "uart"}
  /\ Init
  /\ Uart!Init
  /\ part # "uart" => ~locked

\* Whose calls are made; the variables of the other part stay as they are.
Only(p) ==
  /\ part = p /\ UNCHANGED part
  /\ p # "bank" => UNCHANGED vars
  /\ p # "uart" => UNCHANGED uartVars

DevicesNext ==
  \/ Only("bank") /\ Next
  \/ Only("uart") /\ Uart!Next

DevicesSpec == DevicesInit /\ [][DevicesNext]_<<part, vars, uartVars>>

-----------------------------------------------------------------------------
\* The properties of the UART under names of their own; what each says of the
\* code (irq.c:25-59, schaduler.c:7-15) stands where it is defined.
SentFromTheSecond == Uart!SentFromTheSecond
DoneMeansSent     == Uart!DoneMeansSent
ReadGoesOn        == Uart!ReadGoesOn
=============================================================================
