-------------------------------- MODULE Asids --------------------------------
(***************************************************************************)
(* The address space ids of one core: allocate_asid (core.c:280-303), as   *)
(* kernel() calls it for its two services (kernel.c:293-321).              *)
(*                                                                         *)
(* Every core has a bank and a lock of its own, in memory that nothing     *)
(* clears, so that one core shows everything.  The block of the serial     *)
(* service is NULL (create_ktask gives one block, see Scheduler): its id   *)
(* is whatever lies there.                                                 *)
(***************************************************************************)
EXTENDS Integers

CONSTANTS
  A,       \* entries of a bank (128)
  Owner    \* values that owner_task may hold, 0 among them

\* Assumed of the constants.
AsidsAssumption == A \in Nat \ {0} /\ Owner \subseteq Nat /\ 0 \in Owner

Entry == 0..A-1
None  == -1

VARIABLES
  bank,    \* owner_task of each entry, 0 for a free one
  word,    \* the lock of the bank
  serial,  \* the id read through NULL
  got,     \* what each service was given
  pc

vars == <<bank, word, serial, got, pc>>

Init ==
  /\ bank \in [Entry -> Owner] /\ word \in {0, 1}
  /\ serial \in Owner
  /\ got = [s \in {"power", "serial"} |-> None]
  /\ pc = "power"

\* Mutation of PowerId: ids begin at 1, and 0 means nobody.
PowerIdFromOne == 1

\* The first block of the bank of tasks has id 0.
PowerId == 0

\* The search, without a break: every free entry is taken, and the last one of
\* them is given (None if there is none, NULL in the code).
Taken(id) == [e \in Entry |-> IF bank[e] = 0 THEN id ELSE bank[e]]
Last(free) == IF free = {} THEN None ELSE CHOOSE e \in free : \A f \in free : f <= e

\* A core that finds the lock free stays in the loop; one that does not passes
\* and leaves the word alone (see KernelLock).
Allocate(s, id, here, next) ==
  /\ pc = here
  /\ IF word = 0
     THEN word' = 1 /\ pc' = "stuck" /\ UNCHANGED <<bank, got>>
     ELSE /\ bank' = Taken(id)
          /\ got' = [got EXCEPT ![s] = Last({e \in Entry : bank[e] = 0})]
          /\ pc' = next /\ UNCHANGED word
  /\ UNCHANGED serial

Next ==
  \/ Allocate("power", PowerId, "power", "serial")
  \/ Allocate("serial", serial, "serial", "both")

Spec == Init /\ [][Next]_vars

-----------------------------------------------------------------------------
\* core.c:294-297, kernel.c:295, 311: the two services are given one and the
\* same address space id, whatever the bank held: the entry taken for task 0
\* remains free.
ServicesShareOne == pc = "both" => got["power"] = got["serial"]
=============================================================================
