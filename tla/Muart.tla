------------------------------- MODULE Muart -------------------------------
(***************************************************************************)
(* The mini UART: one block of metadata shared by the system calls of the  *)
(* tasks (svc.c, svc.s), the kernel's own first message (kernel.c) and the *)
(* transmit and receive interrupt handlers (irq.c), which run on one core  *)
(* while the tasks of the other cores are in their calls.  One action per  *)
(* access to the metadata.                                                 *)
(*                                                                         *)
(* A task is a caller of its own here, named by its id; task 0 first acts  *)
(* for the kernel.  What the line status, the data register and a pointer  *)
(* taken from the wrong table hold is arbitrary.  A buffer is its size:    *)
(* its bytes have the indices 0 to Size[b] - 1.                            *)
(***************************************************************************)
EXTENDS Naturals, Sequences

CONSTANTS
  Task,      \* ids of the tasks that call, 0 among them
  Alien,     \* an id of none of them
  Buffer,    \* the buffers the callers pass
  Size,      \* Size[b]: the length passed with buffer b
  MaxRead,   \* bound: input is taken while read_length is below it
  NULL

\* Assumed of the constants.
MuartAssumption ==
  /\ 0 \in Task /\ Task \subseteq Nat /\ Alien \in Nat \ Task
  /\ Size \in [Buffer -> Nat \ {0}]
  /\ MaxRead \in Nat
  /\ NULL \notin Buffer

VARIABLES
  owner,                  \* owner_task, 0 when nobody has the UART
  locked,                 \* the word at offset 72 is 1: nothing initialises it
  wbuf, wlen, written,    \* write_buffer, write_length, written_length
  rbuf, rmax, rlen,       \* read_buffer, read_maximum_length, read_length
  pc,                     \* where each task is
  arg,                    \* the buffer each task passes
  irq,                    \* where the interrupt handler is
  clean,                  \* history: one write, begun while the UART was idle,
  job, out,               \* ... its length, and the indices sent for it
  base, filled            \* history: read_length when the current read buffer
                          \* was set, and the indices stored into it since

writing == <<wbuf, wlen, written>>
reading == <<rbuf, rmax, rlen>>
sent    == <<clean, job, out>>
taken   == <<base, filled>>
vars    == <<owner, locked, writing, reading, pc, arg, irq, sent, taken>>

Init ==
  /\ owner = 0 /\ locked \in BOOLEAN
  /\ wbuf = NULL /\ wlen = 0 /\ written = 0
  /\ rbuf = NULL /\ rmax = 0 /\ rlen = 0
  /\ pc = [t \in Task |-> IF t = 0 THEN "boot" ELSE "out"]
  /\ arg = [t \in Task |-> NULL]
  /\ irq = "idle"
  /\ clean = FALSE /\ job = 0 /\ out = <<>>
  /\ base = 0 /\ filled = {}

Goto(t, label) == pc' = [pc EXCEPT ![t] = label]

-----------------------------------------------------------------------------
\* The mutex routine of svc.s.  It goes on with any word but 1, and without
\* having written anything.  A 1 sends it to set_mutex, whose link register
\* names the branch that went there: it stays in between for ever.  The store
\* of set_mutex has one register for its status and its value and may leave
\* any word.
GainMutex(t, next) ==
  \/ ~locked /\ Goto(t, next) /\ UNCHANGED locked
  \/ locked /\ Goto(t, "spinning") /\ locked' \in BOOLEAN

\* svc_muart_alloc: refused while there is an owner.
Alloc(t) ==
  /\ pc[t] = "out" /\ owner = 0
  /\ GainMutex(t, "alloc_store")
  /\ UNCHANGED <<owner, writing, reading, arg, irq, sent, taken>>

\* The id is read through a pointer taken from behind the table of the
\* current tasks.
AllocStore(t) ==
  /\ pc[t] = "alloc_store"
  /\ \E id \in Task \union {Alien} : owner' = id
  /\ Goto(t, "out")
  /\ UNCHANGED <<locked, writing, reading, arg, irq, sent, taken>>

\* svc_muart_free: refused while there IS an owner.  Otherwise the same mutex
\* routine, and a loop that clears nothing: it loads into the zero register.
Free(t) ==
  /\ pc[t] = "out" /\ owner = 0
  /\ GainMutex(t, "out")
  /\ UNCHANGED <<owner, writing, reading, arg, irq, sent, taken>>

\* kernel() writes its greeting without asking for an owner.
Greet(t) ==
  /\ pc[t] = "boot"
  /\ \E b \in Buffer : arg' = [arg EXCEPT ![t] = b]
  /\ Goto(t, "write_buffer")
  /\ UNCHANGED <<owner, locked, writing, reading, irq, sent, taken>>

\* svc_muart_write, svc_muart_read: refused unless owner_task is the caller.
Call(t, label) ==
  /\ pc[t] = "out" /\ owner = t
  /\ \E b \in Buffer : arg' = [arg EXCEPT ![t] = b]
  /\ Goto(t, label)
  /\ UNCHANGED <<owner, locked, writing, reading, irq, sent, taken>>

\* ... write_buffer, then write_length; written_length keeps its value.
WriteBuffer(t) ==
  /\ pc[t] = "write_buffer"
  /\ wbuf' = arg[t]
  /\ clean' = (/\ wbuf = NULL /\ wlen = 0 /\ written = 0
               /\ \A u \in Task : pc[u] # "write_length")
  /\ job' = IF clean' THEN Size[arg[t]] ELSE 0
  /\ out' = <<>>
  /\ Goto(t, "write_length")
  /\ UNCHANGED <<owner, locked, wlen, written, reading, arg, irq, taken>>

WriteLength(t) ==
  /\ pc[t] = "write_length"
  /\ wlen' = Size[arg[t]]
  /\ arg' = [arg EXCEPT ![t] = NULL]
  /\ Goto(t, "out")
  /\ UNCHANGED <<owner, locked, wbuf, written, reading, irq, sent, taken>>

\* ... read_buffer, then read_maximum_length; read_length keeps its value.
ReadBuffer(t) ==
  /\ pc[t] = "read_buffer"
  /\ rbuf' = arg[t]
  /\ base' = IF irq = "rx_test" THEN rlen + 1 ELSE rlen
  /\ filled' = {}
  /\ Goto(t, "read_length")
  /\ UNCHANGED <<owner, locked, writing, rmax, rlen, arg, irq, sent>>

ReadLength(t) ==
  /\ pc[t] = "read_length"
  /\ rmax' = Size[arg[t]]
  /\ arg' = [arg EXCEPT ![t] = NULL]
  /\ Goto(t, "out")
  /\ UNCHANGED <<owner, locked, writing, rbuf, rlen, irq, sent, taken>>

System(t) ==
  \/ Alloc(t) \/ AllocStore(t) \/ Free(t)
  \/ Greet(t) \/ Call(t, "write_buffer") \/ Call(t, "read_buffer")
  \/ WriteBuffer(t) \/ WriteLength(t) \/ ReadBuffer(t) \/ ReadLength(t)

-----------------------------------------------------------------------------
Handler(from, to) == irq = from /\ irq' = to /\ UNCHANGED <<owner, locked, pc, arg>>

\* muart_tx_empty: without a buffer or a length there is nothing to do.
TxEnter ==
  /\ wbuf # NULL /\ wlen # 0
  /\ Handler("idle", "tx_loop")
  /\ UNCHANGED <<writing, reading, sent, taken>>

\* written_length++ while the line has room ...
TxCount ==
  /\ written < wlen
  /\ written' = written + 1
  /\ Handler("tx_loop", "tx_send")
  /\ UNCHANGED <<wbuf, wlen, reading, sent, taken>>

\* Mutation of TxSend: the byte is dropped when the line has filled up.
TxSendOrDrop ==
  /\ \E gone \in {<<>>, <<written>>} : out' = IF clean THEN out \o gone ELSE out
  /\ Handler("tx_send", "tx_loop")
  /\ UNCHANGED <<writing, reading, clean, job, taken>>

\* ... and then the byte at that index.
TxSend ==
  /\ out' = IF clean THEN Append(out, written) ELSE out
  /\ Handler("tx_send", "tx_loop")
  /\ UNCHANGED <<writing, reading, clean, job, taken>>

\* Everything is counted, or the line has no room.
TxLeave ==
  /\ Handler("tx_loop", "tx_check")
  /\ UNCHANGED <<writing, reading, sent, taken>>

\* The end of a message: three stores of 0.
TxCheck ==
  /\ Handler("tx_check", IF written = wlen THEN "clear_buffer" ELSE "idle")
  /\ UNCHANGED <<writing, reading, sent, taken>>

ClearBuffer ==
  /\ wbuf' = NULL
  /\ Handler("clear_buffer", "clear_length")
  /\ UNCHANGED <<wlen, written, reading, sent, taken>>

ClearLength ==
  /\ wlen' = 0
  /\ Handler("clear_length", "clear_written")
  /\ UNCHANGED <<wbuf, written, reading, sent, taken>>

ClearWritten ==
  /\ written' = 0
  /\ Handler("clear_written", "idle")
  /\ UNCHANGED <<wbuf, wlen, reading, sent, taken>>

\* muart_valid_byte: without a buffer or a length a byte is discarded, but
\* the loop is entered all the same.
RxEnter ==
  /\ Handler("idle", "rx_loop")
  /\ UNCHANGED <<writing, reading, sent, taken>>

RxRoom ==
  /\ rlen <= rmax /\ rlen < MaxRead
  /\ Handler("rx_loop", "rx_store")
  /\ UNCHANGED <<writing, reading, sent, taken>>

RxStore ==
  /\ filled' = filled \union {rlen}
  /\ Handler("rx_store", "rx_test")
  /\ UNCHANGED <<writing, reading, sent, base>>

\* Mutation of RxTest: read_length starts again after a delimiter.
RxTestResetting ==
  /\ \E delimiter \in BOOLEAN :
       /\ rlen' = IF delimiter THEN 0 ELSE rlen + 1
       /\ Handler("rx_test", IF delimiter THEN "rx_end" ELSE "rx_loop")
  /\ UNCHANGED <<writing, rbuf, rmax, sent, taken>>

\* Any byte counts; a delimiter also ends the loop ...
RxTest ==
  /\ rlen' = rlen + 1
  /\ \E delimiter \in BOOLEAN :
       Handler("rx_test", IF delimiter THEN "rx_end" ELSE "rx_loop")
  /\ UNCHANGED <<writing, rbuf, rmax, sent, taken>>

\* ... and makes the length read so far the maximum.
RxEnd ==
  /\ rmax' = rlen
  /\ Handler("rx_end", "idle")
  /\ UNCHANGED <<writing, rbuf, rlen, sent, taken>>

RxLeave ==
  /\ Handler("rx_loop", "idle")
  /\ UNCHANGED <<writing, reading, sent, taken>>

Interrupt ==
  \/ TxEnter \/ TxCount \/ TxSend \/ TxLeave \/ TxCheck
  \/ ClearBuffer \/ ClearLength \/ ClearWritten
  \/ RxEnter \/ RxRoom \/ RxStore \/ RxTest \/ RxEnd \/ RxLeave

Next == (\E t \in Task : System(t)) \/ Interrupt

Spec == Init /\ [][Next]_vars

-----------------------------------------------------------------------------
\* irq.c:25-35: a message that no other write disturbed is, when its buffer is
\* given up, sent from its second byte on, in order and without a gap, up to
\* the byte behind its end.
SentFromTheSecond ==
  clean /\ irq = "clear_buffer" => out = [i \in 1..job |-> i]

\* __built_in_task_waiting, reason 0: write_length equals written_length.
WriteDone == wlen = written

\* A task that waits for its message (schaduler.c:7-15) is not woken before
\* the interrupt handler has taken every byte: at most the last one is still
\* to be put on the line.
DoneMeansSent ==
  clean /\ WriteDone /\ (\A t \in Task : pc[t] # "write_length") => Len(out) + 1 >= job

\* irq.c:50-59, svc.c:48-62: the input goes into a read buffer without a gap,
\* from the index that the input before the request had reached: read_length
\* starts again neither with a request nor with the end of a line.
ReadGoesOn ==
  filled = base .. (IF irq = "rx_test" THEN rlen ELSE rlen - 1)
=============================================================================
