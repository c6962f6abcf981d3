-------------------------------- MODULE Parts --------------------------------
(***************************************************************************)
(* Four small components that several cores use at a time: the mutex       *)
(* routines (Mutex), the priorities and the routing of interrupts          *)
(* (Interrupts), the address space ids (Asids) and the registers of the    *)
(* mini UART (MuartLine).  No two of them share a variable, so that the    *)
(* interleavings of two show nothing that one alone does not: in every     *)
(* behaviour one component runs, the part, and the others stay in an       *)
(* initial state of theirs.                                                *)
(***************************************************************************)
EXTENDS Mutex

CONSTANTS
  Cores, Lines, Contents, Id,   \* Interrupts: Contents is its Word
  A, Owner,                     \* Asids
  Caller, Nobody, Enablation    \* MuartLine: Caller is its Task

VARIABLES
  part,
  ipc, lines, reg, call, loaded, x0, first,
  spc, bank, word, serial, got,
  lpc, en, cntl, ier, owner, level, step, seen, arg, overlap, last, asked

irqVars   == <<ipc, lines, reg, call, loaded, x0, first>>
asidVars  == <<spc, bank, word, serial, got>>
lineVars  == <<lpc, en, cntl, ier, owner, level, step, seen, arg, overlap, last, asked>>

Irq  == INSTANCE Interrupts WITH pc <- ipc, word <- reg, Core <- Cores, Word <- Contents
Asid == INSTANCE Asids WITH pc <- spc
Line == INSTANCE MuartLine WITH pc <- lpc, Task <- Caller

ASSUME PartsAssumption ==
  /\ Irq!InterruptsAssumption
  /\ Asid!AsidsAssumption
  /\ Line!MuartLineAssumption

PartsInit ==
  /\ part \in {"mutex", "irq", "asid", "line"}
  /\ Init
  /\ part # "mutex" => lock = 0
  /\ Irq!Init
  /\ part # "irq" => \A n \in Lines : lines <= n
  /\ part # "irq" => \A c \in Cores : reg[c] = {}
  /\ Asid!Init
  /\ part # "asid" => word = 0 /\ serial = 0 /\ \A e \in 0..A-1 : bank[e] = 0
  /\ Line!Init
  /\ part # "line" => en = {} /\ cntl = {} /\ owner = Nobody /\ \A t \in Caller : ~level[t]

\* Who takes a step; the variables of the others stay as they are.
Only(p) ==
  /\ part = p /\ UNCHANGED part
  /\ p # "mutex" => UNCHANGED vars
  /\ p # "irq"   => UNCHANGED irqVars
  /\ p # "asid"  => UNCHANGED asidVars
  /\ p # "line"  => UNCHANGED lineVars

PartsNext ==
  \/ Only("mutex") /\ Next
  \/ Only("irq")   /\ Irq!Next
  \/ Only("asid")  /\ Asid!Next
  \/ Only("line")  /\ Line!Next

partsVars == <<part, vars, irqVars, asidVars, lineVars>>

PartsSpec == PartsInit /\ [][PartsNext]_partsVars /\ Line!Fairness

-----------------------------------------------------------------------------
\* The properties of the parts under names of their own; what each says of the
\* code stands where it is defined.  Interrupts (gic400.c:72-85, boot.s:345-382):
PrioritiesAddUp == Irq!PrioritiesAddUp
NoneIsAnswered  == Irq!NoneIsAnswered

\* Address space ids (core.c:280-303):
ServicesShareOne == Asid!ServicesShareOne

\* The registers of the UART (svc.c:64-180):
SettingsTakeEffect == Line!SettingsTakeEffect
WriterReturns      == Line!WriterReturns
=============================================================================
