------------------------------ MODULE Shutdown ------------------------------
(***************************************************************************)
(* Stopping the machine: svc_system_shutdown and svc_system_reboot (svc.c),*)
(* core_terminate (core.c), the SGI 8 they broadcast and the handler that  *)
(* the other cores run for it (irq.s, sgi_main_routine).                   *)
(*                                                                         *)
(* Every core keeps one byte of the cores-signal word; core_terminate      *)
(* writes 2 into its own with two read-modify-writes of the whole word, so *)
(* the cores overwrite each other's bytes.  The requester then compares    *)
(* each byte, masked but not shifted down, with 2 (shutdown) or 3 (reboot).*)
(*                                                                         *)
(* The handler compares the whole acknowledge value with 8; for an SGI     *)
(* that value also carries the sending core in bits 10 to 12.  On the path *)
(* of an unknown SGI its link register names the comparison itself, and    *)
(* the core stays in the handler.                                          *)
(***************************************************************************)
EXTENDS Integers

CONSTANT N   \* number of cores (4 on the machine)

Core == 0..N-1

\* Assumed of the constant.
ShutdownAssumption == N \in Nat /\ N >= 2

VARIABLES
  byte,     \* the signal word, byte by byte
  loaded,   \* per core: the word its last load returned
  valid,    \* per core: the valid field of its context block
  powerful, \* per core: its current task has permission level 2
  order,    \* per core: what its task asked for
  sender,   \* per core: the core whose SGI 8 is pending, or -1
  polled,   \* per requester: the byte it compares next
  matched,  \* per requester: how many bytes matched in this round
  pc

vars == <<byte, loaded, valid, powerful, order, sender, polled, matched, pc>>

Event == 0..4             \* 0 none, 1 up, 2 terminated, 3 both bits, 4 any other
Dead == [c \in Core |-> 0]   \* a register nobody reads again
WithBit2(e) == CASE e \in {0, 2} -> 2 [] e \in {1, 3} -> 3 [] OTHER -> 4

\* The machine is up: kernel() has left 1 in the bytes of the secondary cores,
\* and the byte of core 0 is as the count of the cores left it (boot.s:77).
Init ==
  /\ byte = [c \in Core |-> IF c = 0 THEN 4 ELSE 1]
  /\ loaded = [c \in Core |-> Dead]
  /\ valid \in [Core -> BOOLEAN]
  /\ powerful \in [Core -> BOOLEAN]
  /\ order = [c \in Core |-> "none"]
  /\ sender = [c \in Core |-> -1]
  /\ polled = [c \in Core |-> 0]
  /\ matched = [c \in Core |-> 0]
  /\ pc = [c \in Core |-> "task"]

Goto(c, label) == pc' = [pc EXCEPT ![c] = label]

\* Mutation of Request: the permission level is not tested.
RequestUnchecked(c, what) ==
  /\ pc[c] = "task"
  /\ order' = [order EXCEPT ![c] = what]
  /\ Goto(c, "clear_load")
  /\ UNCHANGED <<byte, loaded, valid, powerful, sender, polled, matched>>

\* The entry of svc_system_shutdown / svc_system_reboot; a task below level 2
\* is sent back with 1.
Request(c, what) ==
  /\ pc[c] = "task"
  /\ powerful[c]
  /\ order' = [order EXCEPT ![c] = what]
  /\ Goto(c, "clear_load")
  /\ UNCHANGED <<byte, loaded, valid, powerful, sender, polled, matched>>

Load(c, from, to) ==
  /\ pc[c] = from
  /\ loaded' = [loaded EXCEPT ![c] = byte]
  /\ Goto(c, to)
  /\ UNCHANGED <<byte, valid, powerful, order, sender, polled, matched>>

Store(c, from, to, event) ==
  /\ pc[c] = from
  /\ byte' = [loaded[c] EXCEPT ![c] = event]
  /\ loaded' = [loaded EXCEPT ![c] = Dead]
  /\ Goto(c, to)
  /\ UNCHANGED <<valid, powerful, order, sender, polled, matched>>

\* core_terminate: *core_signals &= ~(0xFF << cid * 8) ...
ClearLoad(c)  == Load(c, "clear_load", "clear_store")
ClearStore(c) == Store(c, "clear_store", "set_load", 0)

\* ... *core_signals |= (0x2 << cid * 8) ...
SetLoad(c)  == Load(c, "set_load", "set_store")

SetStore(c) == Store(c, "set_store", "invalidate", WithBit2(loaded[c][c]))

\* ... ccontext->valid = 0 and terminate_context of the current task.  The
\* requester goes on to its SGI; a core that came here from the SGI returns to
\* the comparisons of the handler, with whatever core_terminate left in x0.
Invalidate(c) ==
  /\ pc[c] = "invalidate"
  /\ valid' = [valid EXCEPT ![c] = FALSE]
  /\ \/ order[c] # "none" /\ Goto(c, "broadcast")
     \/ order[c] = "none" /\ \E x0 \in {"clear_load", "handler"} : Goto(c, x0)
  /\ UNCHANGED <<byte, loaded, powerful, order, sender, polled, matched>>

CoreTerminate(c) ==
  ClearLoad(c) \/ ClearStore(c) \/ SetLoad(c) \/ SetStore(c) \/ Invalidate(c)

\* Mutation of Broadcast: the SGI is sent before core_terminate.
BroadcastFirst(c) ==
  /\ pc[c] = "clear_load" /\ order[c] # "none"
  /\ sender' = [d \in Core |-> IF d = c THEN sender[d] ELSE c]
  /\ UNCHANGED <<byte, loaded, valid, powerful, order, polled, matched, pc>>

\* gic400_sgi(8, ...): the SGI becomes pending on every other core; a second
\* one from another core is a distinct interrupt, the first taken decides.
Broadcast(c) ==
  /\ pc[c] = "broadcast"
  /\ sender' = [d \in Core |-> IF d # c /\ sender[d] = -1 THEN c ELSE sender[d]]
  /\ Goto(c, "poll")
  /\ UNCHANGED <<byte, loaded, valid, powerful, order, polled, matched>>

\* sgi_main_routine: x0 is 8 plus the sender in bits 10-12.
TakeSgi(c) ==
  /\ pc[c] = "task"
  /\ sender[c] # -1
  /\ Goto(c, IF sender[c] * 1024 + 8 = 8 THEN "clear_load" ELSE "handler")
  /\ UNCHANGED <<byte, loaded, valid, powerful, order, sender, polled, matched>>

\* What the masked word is compared with ...
Wanted(c) == IF order[c] = "shutdown" THEN 2 ELSE 3

\* ... and a word that is 0 but for the byte i, which is e.
OnlyByte(i, e) == [j \in Core |-> IF j = i THEN e ELSE 0]

\* Mutation of Poll: the masked byte is shifted down before the comparison.
PollShifted(c) ==
  /\ pc[c] = "poll"
  /\ LET i     == polled[c]
         found == matched[c] + IF byte[i] = Wanted(c) THEN 1 ELSE 0
     IN  /\ polled' = [polled EXCEPT ![c] = (i + 1) % N]
         /\ matched' = [matched EXCEPT ![c] = IF i = N - 1 THEN 0 ELSE found]
         /\ Goto(c, IF i = N - 1 /\ found = N THEN "powered_off" ELSE "poll")
  /\ UNCHANGED <<byte, loaded, valid, powerful, order, sender>>

\* One comparison of the loop: (*cores_signal & (0xFF << i * 8)) == 2, and
\* after the last byte the test of the count.
Poll(c) ==
  /\ pc[c] = "poll"
  /\ LET i     == polled[c]
         found == matched[c] + IF OnlyByte(i, byte[i]) = OnlyByte(0, Wanted(c)) THEN 1 ELSE 0
     IN  /\ polled' = [polled EXCEPT ![c] = (i + 1) % N]
         /\ matched' = [matched EXCEPT ![c] = IF i = N - 1 THEN 0 ELSE found]
         /\ Goto(c, IF i = N - 1 /\ found = N THEN "powered_off" ELSE "poll")
  /\ UNCHANGED <<byte, loaded, valid, powerful, order, sender>>

Step(c) == CoreTerminate(c) \/ Broadcast(c) \/ TakeSgi(c) \/ Poll(c)

Next ==
  \E c \in Core :
    \/ \E what \in {"shutdown", "reboot"} : Request(c, what)
    \/ Step(c)

Spec == Init /\ [][Next]_vars

-----------------------------------------------------------------------------
Ended == {"broadcast", "poll", "powered_off"}

\* No core, the requester's or any other, begins to terminate its task unless
\* a task of permission level 2 has asked for it (svc.c:546, 573): neither the
\* SGI nor a race on the way stops a core of its own accord.
StopsOnlyByAuthority ==
  (\E c \in Core : pc[c] # "task")
     => \E r \in Core : order[r] # "none" /\ powerful[r]

\* Order of svc.c:549-550: when another core can hear of the end of the
\* system, the core that asked for it has recorded its own and given up its
\* context.
RequesterEndsFirst ==
  \A c \in Core : sender[c] # -1 => /\ pc[sender[c]] \in Ended
                                    /\ ~valid[sender[c]]

\* svc.c:552-564, 579-591: neither request ever reaches PSCI, whatever the
\* cores signal and in whatever order their updates of the word fall.  A byte
\* other than the first is compared in place, as a multiple of 256, with 2 or
\* 3, so that the loop never counts every core.
NeverPoweredOff == \A c \in Core : pc[c] # "powered_off"
=============================================================================
