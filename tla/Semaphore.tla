----------------------------- MODULE Semaphore -----------------------------
(***************************************************************************)
(* gain_semaphore, release_semaphore and spinwait_semaphore of             *)
(* lib/softwarelock.s, one action per memory access of a core.  Any number *)
(* of cores call them on one semaphore word, in any order: nothing in the  *)
(* code ties a release to an earlier gain.                                 *)
(*                                                                         *)
(* LDAXR arms the core's exclusive monitor; a store to the word by any     *)
(* core disarms every monitor; STXR writes only while the core's monitor   *)
(* is armed, and even then the architecture lets it fail (an interrupt     *)
(* taken in between ends in ERET, which disarms the monitor).  The STXR of *)
(* both routines has one register for its status and its address, which    *)
(* the architecture leaves open: the address is taken here to be read      *)
(* before the status is written.                                           *)
(***************************************************************************)
EXTENDS Naturals

CONSTANTS
  Core,      \* the cores that share the word
  MaxWord    \* largest value of the 64-bit word (2^64 - 1 on the machine)

ASSUME MaxWordAssumption == MaxWord \in Nat \ {0}

VARIABLES
  sem,       \* the semaphore word, semaphore_t
  monitor,   \* the cores whose exclusive monitor is armed on the word
  pc,        \* where each core is
  x1,        \* register x1 of each core: the value its LDAXR or LDR read
  answer     \* what the last call returned: "ok" (x0 = 0) or "refused" (x0 = 1)

vars == <<sem, monitor, pc, x1, answer>>

Word == 0..MaxWord

\* `add x1,x1,#1` on a 64-bit register.
Incremented(n) == IF n = MaxWord THEN 0 ELSE n + 1

Init ==
  /\ sem \in Word
  /\ monitor = {}
  /\ pc = [c \in Core |-> "out"]
  /\ x1 = [c \in Core |-> 0]
  /\ answer = [c \in Core |-> "none"]

Goto(c, label) == pc' = [pc EXCEPT ![c] = label]

Return(c, result) ==
  /\ Goto(c, "out")
  /\ answer' = [answer EXCEPT ![c] = result]

\* A task or the kernel branches to one of the three entry points.
Enter(c) ==
  /\ pc[c] = "out"
  /\ \E entry \in {"gain", "release", "spinwait"} : Goto(c, entry)
  /\ UNCHANGED <<sem, monitor, x1, answer>>

\* Mutation of GainLoad: the cbz on an empty semaphore is missing.
GainLoadUnchecked(c) ==
  /\ pc[c] = "gain"
  /\ x1' = [x1 EXCEPT ![c] = sem]
  /\ monitor' = monitor \union {c}
  /\ Goto(c, "gain_store")
  /\ UNCHANGED <<sem, answer>>

LoadExclusive(c) ==
  /\ x1' = [x1 EXCEPT ![c] = sem]
  /\ monitor' = monitor \union {c}
  /\ UNCHANGED sem

\* ldaxr x1,[x0] ; cbz x1,gain_semaphore_ret: an empty semaphore is left
\* through gain_semaphore_ret, with the monitor still armed.
GainLoad(c) ==
  /\ pc[c] = "gain"
  /\ LoadExclusive(c)
  /\ \/ sem = 0 /\ Return(c, "refused")
     \/ sem # 0 /\ Goto(c, "gain_store") /\ UNCHANGED answer

\* Mutation of StoreExclusive: an ordinary store, which other cores' monitors
\* do not notice.
StoreUnnoticed(c, value) ==
  /\ c \in monitor
  /\ sem' = value
  /\ monitor' = monitor \ {c}
  /\ Return(c, "ok")

\* STXR while the monitor is armed: the store happens and every monitor on
\* the word is disarmed.
StoreExclusive(c, value) ==
  /\ c \in monitor
  /\ sem' = value
  /\ monitor' = {}
  /\ Return(c, "ok")

\* sub x1,x1,#1 ; stxr w0,x1,[x0]
GainStore(c) ==
  /\ pc[c] = "gain_store"
  /\ StoreExclusive(c, x1[c] - 1)
  /\ UNCHANGED x1

ReleaseLoad(c) ==
  /\ pc[c] = "release"
  /\ LoadExclusive(c)
  /\ Goto(c, "release_store")
  /\ UNCHANGED answer

\* Mutation of ReleaseStore: str instead of stxr.
ReleaseStorePlain(c) ==
  /\ pc[c] = "release_store"
  /\ sem' = Incremented(x1[c])
  /\ monitor' = {}
  /\ Return(c, "ok")
  /\ UNCHANGED x1

\* add x1,x1,#1 ; stxr x0,x1,[x0]
ReleaseStore(c) ==
  /\ pc[c] = "release_store"
  /\ StoreExclusive(c, Incremented(x1[c]))
  /\ UNCHANGED x1

\* The exclusive store of a gain or of a release fails: the call makes no
\* second attempt, the status of the store is its answer.
StoreFails(c) ==
  /\ pc[c] \in {"gain_store", "release_store"}
  /\ monitor' = monitor \ {c}
  /\ Return(c, "refused")
  /\ UNCHANGED <<sem, x1>>

\* Mutation of SpinwaitLoad: the value read is not what the branch tests (the
\* comparison spinwait_mutex makes).
SpinwaitLoadUntested(c) ==
  /\ pc[c] = "spinwait"
  /\ x1' = [x1 EXCEPT ![c] = sem]
  /\ UNCHANGED <<sem, monitor, pc, answer>>

\* ldr x1,[x0] ; cbz x1,spinwait_semaphore
SpinwaitLoad(c) ==
  /\ pc[c] = "spinwait"
  /\ x1' = [x1 EXCEPT ![c] = sem]
  /\ \/ sem = 0 /\ UNCHANGED <<pc, answer>>
     \/ sem # 0 /\ Return(c, "ok")
  /\ UNCHANGED <<sem, monitor>>

Step(c) ==
  \/ GainLoad(c) \/ GainStore(c)
  \/ ReleaseLoad(c) \/ ReleaseStore(c)
  \/ StoreFails(c)
  \/ SpinwaitLoad(c)

Next == \E c \in Core : Enter(c) \/ Step(c)

Spec == Init /\ [][Next]_vars

\* A core inside a routine keeps executing instructions; nothing obliges it
\* to call again.
LiveSpec == Spec /\ \A c \in Core : WF_vars(Step(c))

-----------------------------------------------------------------------------
Labels == {"out", "gain", "gain_store", "release", "release_store", "spinwait"}

\* Every variable stays in its range; in particular the word of
\* gain_semaphore's `sub x1,x1,#1` never leaves 0..MaxWord.
TypeOK ==
  /\ sem \in Word
  /\ monitor \subseteq Core
  /\ pc \in [Core -> Labels]
  /\ x1 \in [Core -> Word]
  /\ answer \in [Core -> {"none", "ok", "refused"}]

\* What makes the load/store pairs of lib/softwarelock.s atomic: a core that
\* is about to store and whose monitor is still armed holds the current value
\* of the word in x1, and a gain in that position has seen a free unit.
PairsAreAtomic ==
  \A c \in Core :
    /\ (pc[c] \in {"gain_store", "release_store"} /\ c \in monitor) => x1[c] = sem
    /\ pc[c] = "gain_store" => x1[c] > 0

\* A caller of spinwait_semaphore (softwarelock.s:92-102) does not spin for
\* ever unless the semaphore is found empty again and again.
SpinwaitReturns ==
  \A c \in Core : []<>(sem = 0) \/ (pc[c] = "spinwait" ~> pc[c] = "out")

-----------------------------------------------------------------------------
\* The abstract view: a call is in progress from Enter to Return, and its
\* effect on the word happens at the store (or at the load that ends it).
Status(c) ==
  CASE pc[c] \in {"gain", "gain_store"}       -> "gain"
    [] pc[c] \in {"release", "release_store"} -> "release"
    [] pc[c] = "spinwait"                     -> "spinwait"
    [] pc[c] = "out"                          -> answer[c]

Abstract == INSTANCE CountingSemaphore
              WITH units <- sem, status <- [c \in Core |-> Status(c)]

\* The instruction sequences implement the counting semaphore: under every
\* interleaving of the cores a unit leaves or enters the word exactly when a
\* call answers 0, and no gain takes a unit from an empty word.
ImplementsCountingSemaphore == Abstract!Spec
=============================================================================
