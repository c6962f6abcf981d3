----------------------------- MODULE KernelLock -----------------------------
(***************************************************************************)
(* The way the kernel takes its own locks, the same lines at every place   *)
(* (lib/schaduler.c, lib/kmem.c, lib/core.c, lib/ipcmailbox.c, irq.c):     *)
(*                                                                         *)
(*     while (!gain_mutex(lock)) { spinwait_mutex(lock); }                 *)
(*     ...                                                                 *)
(*     release_mutex(lock);                                                *)
(*                                                                         *)
(* gain_mutex returns 0 to the core that changed the word, so the loop     *)
(* body is for the winner and the core that failed walks on.               *)
(***************************************************************************)
EXTENDS Mutex

VARIABLE site   \* where each core is in the lines above

kvars == <<vars, site>>

KInit == Init /\ site = [c \in Core |-> "outside"]

Move(c, from, to) == site[c] = from /\ site' = [site EXCEPT ![c] = to]

\* The call of gain_mutex in the loop condition.
TryGain(c) == Move(c, "outside", "gaining") /\ Enter(c, "gain")

\* Mutation of LoopTest: the polarity the comments ask for.
LoopTestMeant(c) ==
  /\ pc[c] = "out"
  /\ \/ answer[c] = "ok" /\ Move(c, "gaining", "critical") /\ UNCHANGED vars
     \/ answer[c] = "failed" /\ Move(c, "gaining", "waiting") /\ Enter(c, "spinwait")

\* `!gain_mutex(lock)`: 0 enters the loop body, anything else leaves it.
LoopTest(c) ==
  /\ pc[c] = "out"
  /\ \/ answer[c] = "ok" /\ Move(c, "gaining", "waiting") /\ Enter(c, "spinwait")
     \/ answer[c] = "failed" /\ Move(c, "gaining", "critical") /\ UNCHANGED vars

\* The end of the critical section.
Leave(c) == Move(c, "critical", "releasing") /\ Enter(c, "release")

Left(c) == pc[c] = "out" /\ Move(c, "releasing", "outside") /\ UNCHANGED vars

\* The instructions of the routine the core is in.
Inside(c) == (GainCas(c) \/ ReleaseLoad(c) \/ SpinwaitLoad(c)) /\ UNCHANGED site

\* What a core does on its own once it has asked for the lock.
Progress(c) == LoopTest(c) \/ Leave(c) \/ Left(c) \/ Inside(c)

KNext == \E c \in Core : TryGain(c) \/ Progress(c)

KSpec == KInit /\ [][KNext]_kvars

\* A core keeps executing instructions; an interrupt taken on the way returns.
KLiveSpec == KSpec /\ \A c \in Core : WF_kvars(Progress(c))

-----------------------------------------------------------------------------
\* The type invariant of Mutex and the places of a call site.
KTypeOK ==
  /\ TypeOK
  /\ site \in [Core -> {"outside", "gaining", "waiting", "critical", "releasing"}]

\* schaduler.c:83 and irq.c:66 say "gain queue lock", but nobody enters a
\* critical section while the word is free, and the one core that ever changes
\* the word is not among those that enter: it stays in the loop
\* (schaduler.c:84-87, 192-195, irq.c:67-70, core.c:287-290).  The others
\* enter together.
InsideWithoutLock ==
  \A c \in Core :
    /\ site[c] = "critical" => lock # 0
    /\ c \in winners => site[c] \in {"gaining", "waiting"}

\* A core that finds the word taken is never held up by the core that took it
\* (it takes the failure for success).
LoserProceeds ==
  \A c \in Core : (site[c] = "gaining" /\ lock # 0 /\ c \notin winners) ~> site[c] = "critical"
=============================================================================
