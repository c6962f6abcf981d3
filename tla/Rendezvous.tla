----------------------------- MODULE Rendezvous -----------------------------
(***************************************************************************)
(* The start of the cores: minit and the count of the cores (boot.s), the  *)
(* wake-up of the secondary cores by core 0 (multi_core_enable, core.s),   *)
(* and the part of kernel() in which every secondary core announces itself *)
(* in the cores-signal word and core 0 waits for all of them               *)
(* (kernel.c:139-159).                                                     *)
(*                                                                         *)
(* The signal word holds one byte per core, in memory that nothing clears  *)
(* (linker.ld:11).  The count of boot.s:73-81 is kept in the same word.    *)
(* kernel() changes it with `*cores_signal &= ...` and                     *)
(* `*cores_signal |= ...` on a volatile word: each is a load and a store,  *)
(* and a store writes the bytes of all cores.  The test of core 0 loads    *)
(* the word anew for every byte.  Only whether a byte is zero matters, so  *)
(* the word is the set of cores with a nonzero byte.                       *)
(*                                                                         *)
(* Scope: the first pass of every core, with no core context to restore.   *)
(***************************************************************************)
EXTENDS Integers, FiniteSets

CONSTANTS
  N,       \* number of cores (4 on the machine)
  Tested   \* the register that `cmp w1,#0` of the count tests: "w1" in the
           \* code; "w0", the status of the store, is what the loop is for

Core == 0..N-1
Secondary == 1..N-1

ASSUME RendezvousAssumption ==
  /\ N \in Nat /\ N >= 2
  /\ Tested \in {"w0", "w1"}

VARIABLES
  signal,     \* the signal word: the cores whose byte is nonzero
  loaded,     \* per secondary core: the word its last load returned
  coreTasks,  \* the core_tasks table: the cores whose entry is nonzero
  polled,     \* core 0: the cores whose byte it has found nonzero
  cleared,    \* per core in minit: the entries it has zeroed so far
  pc,         \* where each core is
  collided    \* history: the cores that loaded the word while another core was
              \* between a load and a store of it

vars == <<signal, loaded, coreTasks, polled, cleared, pc, collided>>

\* The section is NOLOAD: the word and the table hold anything at power on.
Init ==
  /\ signal \in SUBSET Core
  /\ loaded = [c \in Secondary |-> {}]
  /\ coreTasks \in SUBSET Core
  /\ polled = 0
  /\ cleared = [c \in Core |-> 0]
  /\ pc = [c \in Core |-> IF c = 0 THEN "minit" ELSE "parked"]
  /\ collided = {}

Goto(c, label) == pc' = [pc EXCEPT ![c] = label]

\* One of the `str xzr,[x0],#8` of minit: it zeroes the entries of ALL cores,
\* one after the other, whichever core runs it.
MinitStore(c) ==
  /\ pc[c] = "minit"
  /\ coreTasks' = coreTasks \ {cleared[c]}
  /\ cleared' = [cleared EXCEPT ![c] = @ + 1]
  /\ Goto(c, IF cleared[c] = N - 1 THEN "count" ELSE "minit")
  /\ UNCHANGED <<signal, loaded, polled, collided>>

\* Mutation of Count: the store goes to a word of its own.
CountElsewhere(c) ==
  /\ pc[c] = "count"
  /\ Goto(c, IF Tested = "w0" THEN "kernel" ELSE "count")
  /\ UNCHANGED <<signal, loaded, coreTasks, polled, cleared, collided>>

\* retry_to_count: the count that is loaded and incremented in w0 is lost, for
\* `stxr w0,w1,[x2,#64]` stores w1, which boot.s:54-55 left as ~(1<<21): no
\* byte of it is zero.  A store that fails changes nothing.  w1 is never zero,
\* so that `cmp w1,#0; b.ne` never leaves the loop.
Count(c) ==
  /\ pc[c] = "count"
  /\ signal' = Core
  /\ Goto(c, IF Tested = "w0" THEN "kernel" ELSE "count")
  /\ UNCHANGED <<loaded, coreTasks, polled, cleared, collided>>

\* multi_core_enable: the entry points are written, the event wakes the cores.
MultiCoreEnable ==
  /\ pc[0] = "kernel"
  /\ pc' = [c \in Core |-> IF c = 0 THEN "poll"
                           ELSE IF pc[c] = "parked" THEN "minit" ELSE pc[c]]
  /\ UNCHANGED <<signal, loaded, coreTasks, polled, cleared, collided>>

\* Between a load and a store of the signal word.
Updating == {"clear", "set"}

Load(c, from, to) ==
  /\ pc[c] = from
  /\ loaded' = [loaded EXCEPT ![c] = signal]
  /\ collided' = IF \E d \in Secondary \ {c} : pc[d] \in Updating THEN collided \union {c} ELSE collided
  /\ Goto(c, to)
  /\ UNCHANGED <<signal, coreTasks, polled, cleared>>

Store(c, from, to, word) ==
  /\ pc[c] = from
  /\ signal' = word
  /\ Goto(c, to)
  /\ UNCHANGED <<loaded, coreTasks, polled, cleared, collided>>

\* *cores_signal &= ~(0xFF << cid * 8)
ClearLoad(c)  == Load(c, "kernel", "clear")
ClearStore(c) == Store(c, "clear", "cleared", loaded[c] \ {c})

\* *cores_signal |= (0x1 << cid * 8)
SetLoad(c)  == Load(c, "cleared", "set")

\* Mutation of SetStore: = instead of |=.
SetStoreAlone(c) == Store(c, "set", "running", {c})

SetStore(c) == Store(c, "set", "running", loaded[c] \union {c})

Announce(c) == ClearLoad(c) \/ ClearStore(c) \/ SetLoad(c) \/ SetStore(c)

\* One operand of the condition of kernel.c:153: byte 1, then 2, then 3, each
\* from a load of its own; a zero byte starts the condition again.
Poll ==
  /\ pc[0] = "poll"
  /\ LET byte == polled + 1 IN
       /\ polled' = IF byte \in signal THEN byte ELSE 0
       /\ Goto(0, IF byte \in signal /\ byte = N - 1 THEN "running" ELSE "poll")
  /\ UNCHANGED <<signal, loaded, coreTasks, cleared, collided>>

\* The dispatcher gives a core that is up its first task (core_tasks[cid] = ).
Dispatch(c) ==
  /\ pc[c] = "running"
  /\ coreTasks' = coreTasks \union {c}
  /\ UNCHANGED <<signal, loaded, polled, cleared, pc, collided>>

Boot(c) == MinitStore(c) \/ Count(c) \/ (c # 0 /\ Announce(c)) \/ (c = 0 /\ (MultiCoreEnable \/ Poll))

Next == \E c \in Core : Boot(c) \/ Dispatch(c)

Spec == Init /\ [][Next]_vars

\* Interrupts are masked during start-up (daifset), nothing stops a core, and
\* an exclusive store that is tried again and again is not refused for ever.
LiveSpec == Spec /\ \A c \in Core : WF_vars(Boot(c))

-----------------------------------------------------------------------------
\* Every variable stays in its range.
TypeOK ==
  /\ signal \subseteq Core
  /\ loaded \in [Secondary -> SUBSET Core]
  /\ coreTasks \subseteq Core
  /\ polled \in 0..N-1
  /\ cleared \in [Core -> 0..N]
  /\ pc \in [Core -> {"parked", "minit", "count", "kernel", "clear", "cleared", "set",
                       "poll", "running"}]
  /\ collided \subseteq Core


\* Before the store of a word without the core's own byte (kernel.c:143).
Absent == {"parked", "minit", "count", "kernel", "clear"}

\* What is in the way of AllAcknowledged: from the count of core 0 on
\* (boot.s:77), the byte of every secondary core that has not begun its
\* announcement is nonzero, in the word and in every copy of it that a core is
\* about to write back, whatever the word held at power on.  So the wait of
\* kernel.c:152-154 is never a wait for a core that has not come up.
AbsentSeemReady ==
  pc[0] \in {"kernel", "poll", "running"} =>
    \A c \in Secondary : pc[c] \in Absent =>
      /\ c \in signal
      /\ \A d \in Secondary : pc[d] \in Updating => c \in loaded[d]

\* The announcement of a core (kernel.c:143-144) stays in the word, through the
\* updates of all other cores and their late counts, until two cores meet
\* between a load and a store: only then is a byte lost.
LostOnlyByMeeting ==
  collided = {} => \A c \in Secondary : pc[c] = "running" => c \in signal

\* kernel.c:152 "wait until all cores are ready": the wait of core 0 ends if
\* no two updates of the word meet; if they do, the later store may take back
\* the byte of the other core for good.
CoreZeroStarts == [](collided = {}) => (pc[0] = "poll" ~> pc[0] = "running")

\* boot.s:60 "increment core count." is a step on the way to boot.s:68 "load
\* kernel": core 0 gets through it.
CoreZeroIsCounted == (pc[0] = "count") ~> (pc[0] # "count")
=============================================================================
