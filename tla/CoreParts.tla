----------------------------- MODULE CoreParts -----------------------------
(***************************************************************************)
(* What the cores do on their own account once they are up: stop           *)
(* (Shutdown), write the dump of a task that ends (Dumps) and answer the   *)
(* data abort of a task (DataAbort).  No two of these share a variable, so *)
(* that the interleavings of two show nothing that one alone does not: in  *)
(* every behaviour one of them runs, the part, and the others stay in an   *)
(* initial state of theirs.                                                *)
(***************************************************************************)
EXTENDS Integers

CONSTANTS
  K,                 \* Shutdown: its cores
  Space, KB, Syndrome, MaxCount, NULL, Page, Stray,
                     \* DataAbort: Space is its Word
  Cores, Task, D, MaxTime
                     \* Dumps

VARIABLES
  part,
  spc, byte, seen, valid, powerful, order, sender, asked, matched,
  apc, back, pages, next, temp, count, far, left, status, fault, given,
  dpc, id, body, stime, now, at, task, met

stopVars  == <<spc, byte, seen, valid, powerful, order, sender, asked, matched>>
abortVars == <<apc, back, pages, next, temp, count, far, left, status, fault, given>>
bankVars  == <<dpc, id, body, stime, now, at, task, met>>

Stop  == INSTANCE Shutdown WITH N <- K, pc <- spc, loaded <- seen, polled <- asked
Abort == INSTANCE DataAbort WITH pc <- apc, Word <- Space
Bank  == INSTANCE Dumps WITH pc <- dpc, Core <- Cores

ASSUME CorePartsAssumption ==
  /\ Stop!ShutdownAssumption
  /\ Abort!DataAbortAssumption
  /\ Bank!DumpsAssumption

PartsInit ==
  /\ part \in {"stop", "abort", "bank"}
  /\ Stop!Init
  /\ part # "stop" => \A c \in 0..K-1 : valid[c] /\ ~powerful[c]
  /\ Abort!Init
  /\ part # "abort" => pages = NULL /\ next = NULL
  /\ Bank!Init

\* Who takes a step; the variables of the others stay as they are.
Only(p) ==
  /\ part = p /\ UNCHANGED part
  /\ p # "stop"  => UNCHANGED stopVars
  /\ p # "abort" => UNCHANGED abortVars
  /\ p # "bank"  => UNCHANGED bankVars

PartsNext ==
  \/ Only("stop")  /\ Stop!Next
  \/ Only("abort") /\ Abort!Next
  \/ Only("bank")  /\ Bank!Next

partsVars == <<part, stopVars, abortVars, bankVars>>

PartsSpec == PartsInit /\ [][PartsNext]_partsVars

-----------------------------------------------------------------------------
\* The properties of the parts under names of their own; what each says of the
\* code stands where it is defined.  The end of the system (svc.c:538-598):
StopsOnlyByAuthority == Stop!StopsOnlyByAuthority
RequesterEndsFirst   == Stop!RequesterEndsFirst
NeverPoweredOff      == Stop!NeverPoweredOff

\* Data aborts (synchronous.c:115-313, 434-460):
AbortOutcomes            == Abort!AbortOutcomes
NullLinkIsCountedForEver == Abort!NullLinkIsCountedForEver

\* Dumps of ended tasks (core.c:166-207):
OutsideOnlyWhenFull == Bank!OutsideOnlyWhenFull
FirstDumpsStay      == Bank!FirstDumpsStay
=============================================================================
