------------------------------- MODULE Mutex -------------------------------
(***************************************************************************)
(* gain_mutex, release_mutex and spinwait_mutex of lib/softwarelock.s, one *)
(* action per memory access of a core, called by the cores in any order on *)
(* one mutex word (svc_mutex_gain and svc_mutex_release hand them to every *)
(* task; KernelLock adds the order in which the kernel calls them).        *)
(*                                                                         *)
(* The instructions are read as they stand:                                *)
(*   - release_mutex branches to clear_mutex when the word is FREE, with   *)
(*     x30 = the address of that very branch (adr x30,. plus 8), so that   *)
(*     the ret of clear_mutex comes back to the branch, whose condition    *)
(*     still holds: the core never leaves.  A word that is not free is     *)
(*     left alone and 0 is returned;                                       *)
(*   - clear_mutex uses one register as the status and as the data of its  *)
(*     store exclusive, for which the architecture leaves the stored value *)
(*     open;                                                               *)
(*   - spinwait_mutex compares the ADDRESS of the mutex with 1.            *)
(***************************************************************************)
EXTENDS Naturals, FiniteSets

CONSTANTS
  Core,   \* the cores that share the word
  Word    \* values of the 64-bit word: 0 is free, gain_mutex writes 1

ASSUME WordAssumption == {0, 1} \subseteq Word

VARIABLES
  lock,     \* the mutex word, mutex_t
  monitor,  \* the cores whose exclusive monitor is armed on the word
  pc,       \* where each core is
  answer,   \* what the last call returned: "ok" (x0 = 0) or "failed" (x0 = 1)
  winners   \* history: the cores whose gain_mutex has succeeded

vars == <<lock, monitor, pc, answer, winners>>

\* The words the kernel uses are reserved, never initialised (linker.ld
\* .queues and .banks are NOLOAD), so any value is possible at first.
Init ==
  /\ lock \in Word
  /\ monitor = {}
  /\ pc = [c \in Core |-> "out"]
  /\ answer = [c \in Core |-> "none"]
  /\ winners = {}

Goto(c, label) == pc' = [pc EXCEPT ![c] = label]

Return(c, result) ==
  /\ Goto(c, "out")
  /\ answer' = [answer EXCEPT ![c] = result]

Enter(c, entry) ==
  /\ pc[c] = "out"
  /\ Goto(c, entry)
  /\ UNCHANGED <<lock, monitor, answer, winners>>

\* cas x1,x2,[x0] with x1 = 0 and x2 = 1 ; cset x0,NE
GainCas(c) ==
  /\ pc[c] = "gain"
  /\ \/ /\ lock = 0
        /\ lock' = 1
        /\ monitor' = {}
        /\ Return(c, "ok")
        /\ winners' = winners \union {c}
     \/ /\ lock # 0
        /\ Return(c, "failed")
        /\ UNCHANGED <<lock, monitor, winners>>

\* ldaxr x1,[x0] ; cmp x1,#0 ; b.eq clear_mutex ; cset, and, cmp, cset: on
\* the path not taken x2 is 0, hence x0 is 0 whatever the word holds.
ReleaseLoad(c) ==
  /\ pc[c] = "release"
  /\ monitor' = monitor \union {c}
  /\ \/ lock = 0 /\ Goto(c, "clear") /\ UNCHANGED answer
     \/ lock # 0 /\ Return(c, "ok")
  /\ UNCHANGED <<lock, winners>>

\* Mutation of ClearStore: the store does not depend on the monitor.
ClearStorePlain(c) ==
  /\ pc[c] = "clear"
  /\ lock' = 0
  /\ monitor' = {}
  /\ UNCHANGED <<pc, answer, winners>>

\* mov x1,#0 ; stxr w1,x1,[x0] ; ret, and back to the b.eq that came here.
ClearStore(c) ==
  /\ pc[c] = "clear"
  /\ \/ c \in monitor /\ lock' \in Word /\ monitor' = {}
     \/ monitor' = monitor \ {c} /\ UNCHANGED lock
  /\ UNCHANGED <<pc, answer, winners>>

\* ldr x1,[x0] ; cmp x0,#1 ; b.ne spinwait_mutex: x0 is an address, so the
\* branch is always taken.
SpinwaitLoad(c) ==
  /\ pc[c] = "spinwait"
  /\ UNCHANGED vars

Step(c) == GainCas(c) \/ ReleaseLoad(c) \/ ClearStore(c) \/ SpinwaitLoad(c)

Next ==
  \E c \in Core :
    \/ \E entry \in {"gain", "release", "spinwait"} : Enter(c, entry)
    \/ Step(c)

Spec == Init /\ [][Next]_vars

-----------------------------------------------------------------------------
\* Every variable stays in its range.
TypeOK ==
  /\ lock \in Word
  /\ monitor \subseteq Core
  /\ pc \in [Core -> {"out", "gain", "release", "clear", "spinwait"}]
  /\ answer \in [Core -> {"none", "ok", "failed"}]
  /\ winners \subseteq Core

\* A mutex word is gained at most once in its life: whoever calls gain_mutex
\* (softwarelock.s:4-18) later, and however releases and gains interleave, at
\* most one core is ever told 0.
OneWinner == \A c, d \in winners : c = d

\* No routine, release_mutex included, ever changes a word that is not free:
\* the store of clear_mutex (softwarelock.s:20-23) is armed on a free word
\* only, and a gain that gets in between disarms it.
HeldStaysHeld == [][lock # 0 => lock' = lock]_vars
=============================================================================
