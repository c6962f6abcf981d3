------------------------------ MODULE MuartLine ------------------------------
(***************************************************************************)
(* The registers of the mini UART: initialize_muart (drivers/muart.c) and  *)
(* the calls of the tasks that set them, svc_muart_settings, or wait for   *)
(* them, svc_muart_write_char and svc_muart_read_char (svc.c).             *)
(*                                                                         *)
(* A settings call edits the registers with six read-modify-writes, each a *)
(* load and a store; the calls of other cores fall in between.  A waiting  *)
(* call loads the enable register, then the interrupt register once for    *)
(* each bit it tests.  A register is the set of its bits that are 1; bits  *)
(* above 1, the baud rate and the data are left out, and the SPI units,    *)
(* which share AUX_ENABLES, are off.                                       *)
(***************************************************************************)
EXTENDS Naturals

CONSTANTS
  Task,        \* the callers, each on a core of its own
  Nobody,      \* owner_task of a UART that nobody has
  Enablation   \* the values of the argument enablation, as sets of bits

\* Assumed of the constants.
MuartLineAssumption ==
  /\ Nobody \notin Task
  /\ Enablation \subseteq SUBSET (0..7)

VARIABLES
  en, cntl, ier,   \* AUX_ENABLES, AUX_MU_CNTL, AUX_IER
  owner, level,    \* who owns the UART, and which tasks have a permission level
  pc, step,        \* where a task is, and at which edit of a settings call
  seen,            \* per task: what its last load returned
  arg,             \* per task: the argument enablation of its settings call
  overlap,         \* history: two settings calls overlapped; until then,
  last, asked      \* ... the last argument, and whether one had bit 1

registers == <<en, cntl, ier>>
rights    == <<owner, level>>
local     == <<pc, step, seen, arg>>
history   == <<overlap, last, asked>>
vars      == <<registers, rights, local, history>>

Calling == {"load", "store"}
NoCall  == {8}   \* not a value of an 8-bit argument

\* The interrupt register is 0 at power on; the others hold what the firmware
\* left.  Only core 0 runs.
Init ==
  /\ en \in SUBSET {0} /\ cntl \in SUBSET {0, 1} /\ ier = {}
  /\ owner \in Task \union {Nobody} /\ level \in [Task -> BOOLEAN]
  /\ pc = [t \in Task |-> "boot"] /\ step = [t \in Task |-> 1]
  /\ seen = [t \in Task |-> {}] /\ arg = [t \in Task |-> {}]
  /\ overlap = FALSE /\ last = NoCall /\ asked = FALSE

Goto(t, label) == pc' = [pc EXCEPT ![t] = label]

\* initialize_muart: the unit is enabled, its interrupts are left alone.
Initialize ==
  /\ \A t \in Task : pc[t] = "boot"
  /\ en' = en \union {0}
  /\ pc' = [t \in Task |-> "out"]
  /\ UNCHANGED <<cntl, ier, rights, step, seen, arg, history>>

-----------------------------------------------------------------------------
\* svc_muart_settings refuses a task WITH a permission level that is not the
\* owner; the other calls refuse a task WITHOUT one.
MaySet(t)  == owner = t \/ ~level[t]

MayWait(t) == owner = t \/ level[t]

Settings(t) ==
  /\ pc[t] = "out" /\ MaySet(t)
  /\ \E e \in Enablation : arg' = [arg EXCEPT ![t] = e]
  /\ overlap' = (overlap \/ \E u \in Task : pc[u] \in Calling)
  /\ last' = IF overlap' THEN NoCall ELSE last
  /\ asked' = (asked /\ ~overlap')
  /\ Goto(t, "load")
  /\ UNCHANGED <<registers, rights, step, seen>>

\* The register each of the six edits works on ...
Edited(n) == IF n \in {1, 3, 4} THEN "cntl" ELSE IF n = 2 THEN "en" ELSE "ier"

Value(r) == CASE r = "en" -> en [] r = "cntl" -> cntl [] r = "ier" -> ier

With(v, bit, on) == IF on THEN v \union {bit} ELSE v \ {bit}

\* Mutation of Edit: the complement is and-ed.
EditAnding(n, d, e, v) ==
  CASE n = 1 -> With(v, 0, d)
    [] n = 2 -> With(v, 0, 0 \in e)
    [] n = 3 -> IF 1 \in e THEN v \union {1} ELSE v \ {1}
    [] n = 4 -> With(v, 0, 2 \in e)
    [] n = 5 -> With(v, 0, 3 \in e)
    [] n = 6 -> With(v, 1, e \intersect 0..3 # {})

\* ... and what it makes of the value v, where e is enablation: data bits, unit,
\* transmitter (the `|=` with the complement sets bit 0 and keeps bit 1), bit 0
\* again, and the two interrupts, the second for any of the four lowest bits.
\* Only the first edit uses data_bits, d, which is chosen there.
Edit(n, d, e, v) ==
  CASE n = 1 -> With(v, 0, d)
    [] n = 2 -> With(v, 0, 0 \in e)
    [] n = 3 -> v \union (IF 1 \in e THEN {1} ELSE {0})
    [] n = 4 -> With(v, 0, 2 \in e)
    [] n = 5 -> With(v, 0, 3 \in e)
    [] n = 6 -> With(v, 1, e \intersect 0..3 # {})

EditLoad(t) ==
  /\ pc[t] = "load"
  /\ seen' = [seen EXCEPT ![t] = Value(Edited(step[t]))]
  /\ Goto(t, "store")
  /\ UNCHANGED <<registers, rights, step, arg, history>>

\* After the last store the record of the settings is written, through a
\* pointer that nothing sets, and the call answers 0.
EditStore(t) ==
  /\ pc[t] = "store"
  /\ \E d \in BOOLEAN :
     LET n == step[t]  r == Edited(n)  v == Edit(n, d, arg[t], seen[t]) IN
       /\ en'   = IF r = "en" THEN v ELSE en
       /\ cntl' = IF r = "cntl" THEN v ELSE cntl
       /\ ier'  = IF r = "ier" THEN v ELSE ier
       /\ last' = IF n = 6 /\ ~overlap THEN arg[t] ELSE last
       /\ asked' = (asked \/ (n = 3 /\ 1 \in arg[t] /\ ~overlap))
       /\ step' = [step EXCEPT ![t] = IF n = 6 THEN 1 ELSE n + 1]
       /\ arg' = IF n = 6 THEN [arg EXCEPT ![t] = {}] ELSE arg
       /\ Goto(t, IF n = 6 THEN "out" ELSE "load")
  /\ seen' = [seen EXCEPT ![t] = {}]
  /\ UNCHANGED <<rights, overlap>>

-----------------------------------------------------------------------------
\* svc_muart_write_char, svc_muart_read_char: a call that is let in waits.
WriteChar(t) ==
  /\ pc[t] = "out" /\ MayWait(t)
  /\ Goto(t, "tx_enabled")
  /\ UNCHANGED <<registers, rights, step, seen, arg, history>>

ReadChar(t) ==
  /\ pc[t] = "out" /\ MayWait(t)
  /\ Goto(t, "rx_enabled")
  /\ UNCHANGED <<registers, rights, step, seen, arg, history>>

\* One load of svc_muart_availablity; the wait begins anew when it tells no.
Test(t, here, start, yes, next) ==
  /\ pc[t] = here
  /\ Goto(t, IF yes THEN next ELSE start)
  /\ UNCHANGED <<registers, rights, step, seen, arg, history>>

Enabled(t) == Test(t, "tx_enabled", "tx_enabled", en # {}, "tx_bit0")
Bit0(t)    == Test(t, "tx_bit0", "tx_enabled", 0 \in ier, "tx_bit1")

\* Mutation of Bit1: the loop is left only when the test fails.
Bit1Negated(t) == Test(t, "tx_bit1", "tx_enabled", 1 \notin ier, "send")

Bit1(t) == Test(t, "tx_bit1", "tx_enabled", 1 \in ier, "send")

\* A reader tests the line status instead, which may be anything.
RxEnabled(t) == Test(t, "rx_enabled", "rx_enabled", en # {}, "rx_line")
RxLine(t)    == \E valid \in BOOLEAN : Test(t, "rx_line", "rx_enabled", valid, "out")

Send(t) == Test(t, "send", "out", TRUE, "out")

\* The steps of a call once it has begun.
Work(t) ==
  \/ EditLoad(t) \/ EditStore(t)
  \/ Enabled(t) \/ Bit0(t) \/ Bit1(t) \/ Send(t)
  \/ RxEnabled(t) \/ RxLine(t)

Next ==
  \/ Initialize
  \/ \E t \in Task : Settings(t) \/ WriteChar(t) \/ ReadChar(t) \/ Work(t)

Spec == Init /\ [][Next]_vars

\* A core goes on with the call it is in.
Fairness == \A t \in Task : WF_vars(Work(t))

FairSpec == Spec /\ Fairness

-----------------------------------------------------------------------------
\* svc.c:149-174: while no two settings calls overlap, the registers at rest
\* are what the last one makes of them, the transmitter excepted, which no call
\* turns off.
SettingsTakeEffect ==
  LET e == last IN
  (/\ last # NoCall
   /\ \A t \in Task : pc[t] \notin Calling) =>
     /\ 0 \in en <=> 0 \in e
     /\ 0 \in cntl <=> 2 \in e
     /\ asked => 1 \in cntl
     /\ 0 \in ier <=> 3 \in e
     /\ 1 \in ier <=> e \intersect 0..3 # {}

Ready == 0 \in en /\ ier = {0, 1}

\* A writer comes back once the unit and both interrupts stay enabled, however
\* often others wait, read or set.
WriterReturns ==
  \A t \in Task :
    <>[]Ready => (pc[t] \in {"tx_enabled", "tx_bit0", "tx_bit1"} ~> pc[t] = "out")
=============================================================================
