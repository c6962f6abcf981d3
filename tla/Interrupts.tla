------------------------------ MODULE Interrupts ------------------------------
(***************************************************************************)
(* Interrupts, from the priorities that every core sets (kernel.c:328-333, *)
(* gic400_priorityirq) to the routine an interrupt is answered with        *)
(* (boot.s, irq_routine_router).                                           *)
(*                                                                         *)
(* A word is the set of its bits that are 1.  Nothing calls gic400_typer:  *)
(* the number of lines, from which register and shift are computed, is     *)
(* whatever its memory holds.  The registers of the first 32 interrupts    *)
(* are banked, one for each core.  An entry of the table stands for the    *)
(* routine it names; what lies behind the table may do anything.           *)
(***************************************************************************)
EXTENDS Integers

CONSTANTS
  Core,
  Lines,     \* values interrup_lines_number may have
  Word,      \* values the register may have
  Id         \* the interrupts that may come

\* Assumed of the constants.
InterruptsAssumption ==
  /\ Lines \subseteq 0..255 /\ Word \subseteq SUBSET (0..31)
  /\ Id \subseteq 0..1023

VARIABLES
  lines,    \* interrup_lines_number
  word,     \* per core: what it finds in the register that all calls go to
  pc, call, \* where each core is, and in which of its four calls
  loaded,   \* per core: what its last load returned
  x0,       \* per core: the value that it acknowledged
  first     \* history: the words as they were

vars == <<lines, word, pc, call, loaded, x0, first>>

Zero == [c \in Core |-> 0]

Register == IF lines + 1 < 4 THEN 0 ELSE (lines + 1) \div 4 - 1
Shift    == (lines + 1) % 32
Banked   == Register < 8

\* The calls of kernel(), with the bits of their priorities 0x80 to 0xB0.
Calls == << [id |-> 125, priority |-> {7}],    [id |-> 89, priority |-> {7, 4}],
            [id |-> 30,  priority |-> {7, 5}], [id |-> 97, priority |-> {7, 5, 4}] >>

Init ==
  /\ lines \in Lines
  /\ word \in [Core -> Word]
  /\ ~Banked => \A c, d \in Core : word[c] = word[d]
  /\ first = word
  /\ pc = [c \in Core |-> "call"] /\ call = [c \in Core |-> 1]
  /\ loaded = [c \in Core |-> {}] /\ x0 = Zero

Goto(c, label) == pc' = [pc EXCEPT ![c] = label]

\* After the last call the core lets interrupts in and runs a task.
NextCall(c) ==
  /\ call' = [call EXCEPT ![c] = IF call[c] = 4 THEN 1 ELSE call[c] + 1]
  /\ Goto(c, IF call[c] = 4 THEN "task" ELSE "call")

\* The only use of the id: beyond the lines there are, nothing is done.
Begin(c) ==
  /\ pc[c] = "call"
  /\ IF Calls[call[c]].id \div 32 > (lines + 1) \div 32
     THEN NextCall(c)
     ELSE Goto(c, "and_load") /\ UNCHANGED call
  /\ UNCHANGED <<lines, word, loaded, x0, first>>

Load(c, from, to) ==
  /\ pc[c] = from
  /\ loaded' = [loaded EXCEPT ![c] = word[c]]
  /\ Goto(c, to)
  /\ UNCHANGED <<lines, word, call, x0, first>>

Store(c, bits) ==
  /\ word' = IF Banked THEN [word EXCEPT ![c] = bits] ELSE [d \in Core |-> bits]
  /\ loaded' = [loaded EXCEPT ![c] = {}]
  /\ UNCHANGED <<lines, x0, first>>

Shifted(bits) == {bit + Shift : bit \in bits} \intersect 0..31

AndLoad(c) == Load(c, "and_load", "and_store")

\* Mutation of AndStore: the field is cleared, and the rest kept.
AndStoreMeant(c) ==
  /\ pc[c] = "and_store"
  /\ Store(c, loaded[c] \ Shifted(0..7))
  /\ Goto(c, "or_load") /\ UNCHANGED call

\* &= 0xFF << shift: keeps the field, and clears the rest.
AndStore(c) ==
  /\ pc[c] = "and_store"
  /\ Store(c, loaded[c] \intersect Shifted(0..7))
  /\ Goto(c, "or_load") /\ UNCHANGED call

OrLoad(c) == Load(c, "or_load", "or_store")

OrStore(c) ==
  /\ pc[c] = "or_store"
  /\ Store(c, loaded[c] \union Shifted(Calls[call[c]].priority))
  /\ NextCall(c)

SetUp(c) == Begin(c) \/ AndLoad(c) \/ AndStore(c) \/ OrLoad(c) \/ OrStore(c)

-----------------------------------------------------------------------------
\* The value acknowledged: an SGI carries its sender in bits 10 to 12.
Take(c) ==
  /\ pc[c] = "task"
  /\ \E id \in Id, sender \in 0..3 :
       x0' = [x0 EXCEPT ![c] = IF id < 16 THEN id + 1024 * sender ELSE id]
  /\ Goto(c, "router")
  /\ UNCHANGED <<lines, word, call, loaded, first>>

Cset(test) == IF test THEN 1 ELSE 0

\* Mutation of Entry: the id survives its comparisons.
EntryKept(id) ==
  Cset(id # 30) + Cset(id # 125) + Cset(id # 97) + Cset(id # 153) + Cset(id <= 15)

\* The five comparisons, of which each cset puts its result into x1, where the
\* id was, so that the next comparison is with 0 or 1; x3 is their sum.
Entry(id) ==
  LET first30   == Cset(id # 30)
      second125 == Cset(first30 # 125)
      third97   == Cset(second125 # 97)
      fourth153 == Cset(third97 # 153)
      last15    == Cset(fourth153 <= 15)
  IN  first30 + second125 + third97 + fourth153 + last15

\* The table of the routines: entries 0 to 4.
Routines == << "core_generic_timer", "aux_main_routine", "system_timer1",
               "uart_main_routine", "sgi_main_routine" >>

Route(c) ==
  /\ pc[c] = "router"
  /\ LET e == Entry(x0[c] % 1024) IN
       \/ e <= 4 /\ Goto(c, Routines[e + 1])
       \/ e > 4 /\ Goto(c, "beyond")
  /\ UNCHANGED <<lines, word, call, loaded, x0, first>>

\* A routine that ends; that of the SGIs goes round for ever for a value other
\* than 7, 8 and 9, since its link register names its own comparison, and may
\* do so for these.
Serve(c) ==
  /\ \/ pc[c] \in {"core_generic_timer", "aux_main_routine", "system_timer1",
                   "uart_main_routine", "beyond"}
     \/ pc[c] = "sgi_main_routine" /\ x0[c] \in 7..9
  /\ Goto(c, "task")
  /\ x0' = [x0 EXCEPT ![c] = 0]
  /\ UNCHANGED <<lines, word, call, loaded, first>>

Next == \E c \in Core : SetUp(c) \/ Take(c) \/ Route(c) \/ Serve(c)

Spec == Init /\ [][Next]_vars

-----------------------------------------------------------------------------
\* gic400.c:83-84: once every core is through, the one field that all calls
\* went to holds what it held and all priorities together, and the rest of its
\* word is 0.  The updates of two cores get lost, but only to be made again: what
\* can be missing is bit 4, where the last call of a core is that for 30.
PrioritiesAddUp ==
  LET block    == (lines + 1) \div 32
      asked    == IF block < 2 THEN {7, 5} ELSE {7, 5, 4}
      lastOnes == IF block < 3 THEN {7, 5} ELSE {7, 5, 4}
      settingUp == {"call", "and_load", "and_store", "or_load", "or_store"}
      kept(c)  == first[c] \intersect Shifted(0..7)
  IN  (\A c \in Core : pc[c] \notin settingUp) =>
        \A c \in Core :
          /\ kept(c) \union Shifted(lastOnes) \subseteq word[c]
          /\ word[c] \subseteq kept(c) \union Shifted(asked)

\* boot.s:353-376: no interrupt reaches the routine the table has for it: those
\* of the timers, of the UARTs and, for an SGI, of the SGIs.
NoneIsAnswered ==
  \A c \in Core :
    /\ pc[c] \notin {"core_generic_timer", "aux_main_routine", "system_timer1",
                     "uart_main_routine"}
    /\ pc[c] = "sgi_main_routine" => x0[c] = 30
=============================================================================
