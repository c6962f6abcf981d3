----------------------------- MODULE CoreProofs -----------------------------
(***************************************************************************)
(* Proofs about what a core does on its own account: start (Rendezvous),   *)
(* stop (Shutdown), write the dump of a task (Dumps), and answer a data    *)
(* abort (DataAbort).  All are for every value of the constants.           *)
(*                                                                         *)
(* The start-up results hold for every word the memory holds at power on.  *)
(* The other three are instances that CoreParts makes, each with constants and *)
(* variables of its own.                                                   *)
(***************************************************************************)
EXTENDS Rendezvous, CoreParts, TLAPS

\* How far the loops of minit and of core 0 have got, as their labels say.
Progress ==
  /\ pc[0] \in {"minit", "count", "kernel", "poll", "running"}
  /\ pc[0] # "running" => polled < N - 1
  /\ \A c \in Core : pc[c] = "parked" => cleared[c] = 0
  /\ \A c \in Core : pc[c] = "minit" => cleared[c] < N

Inv == TypeOK /\ Progress

LEMMA CoreFacts == 0 \in Core /\ Secondary \subseteq Core /\ 0 \notin Secondary
                   /\ \A c \in Core : c # 0 => c \in Secondary
  BY RendezvousAssumption DEF Core, Secondary

LEMMA InitInv == Init => Inv
  BY RendezvousAssumption, CoreFacts DEF Init, Inv, TypeOK, Progress, Core

LEMMA MinitInv ==
  ASSUME Inv, NEW c \in Core, MinitStore(c)
  PROVE  Inv'
<1>1. /\ cleared[c] \in 0..N-1 /\ N \in Nat
      /\ pc' = [pc EXCEPT ![c] = IF cleared[c] = N - 1 THEN "count" ELSE "minit"]
      /\ cleared' = [cleared EXCEPT ![c] = cleared[c] + 1]
      /\ UNCHANGED <<signal, loaded, polled, collided>>
  BY RendezvousAssumption DEF Inv, TypeOK, Progress, MinitStore, Goto
<1>2. cleared' \in [Core -> 0..N]
  BY <1>1 DEF Inv, TypeOK
<1>3. pc' \in [Core -> {"parked", "minit", "count", "kernel", "clear", "cleared", "set",
                          "poll", "running"}]
  BY <1>1 DEF Inv, TypeOK
<1>4. TypeOK'
  BY <1>1, <1>2, <1>3 DEF Inv, TypeOK, MinitStore
<1>5. /\ pc'[0] \in {"minit", "count", "kernel", "poll", "running"}
      /\ pc'[0] # "running" => polled' < N - 1
  BY <1>1, CoreFacts DEF Inv, TypeOK, Progress, MinitStore
<1>6. ASSUME NEW d \in Core
      PROVE  /\ pc'[d] = "parked" => cleared'[d] = 0
             /\ pc'[d] = "minit" => cleared'[d] < N
  <2>1. CASE d = c
    BY <1>1, <2>1 DEF Inv, TypeOK
  <2>2. CASE d # c
    BY <1>1, <2>2 DEF Inv, TypeOK, Progress
  <2> QED BY <2>1, <2>2
<1> QED BY <1>4, <1>5, <1>6 DEF Inv, Progress

LEMMA CountInv ==
  ASSUME Inv, NEW c \in Core, Count(c)
  PROVE  Inv'
<1>1. pc' = [pc EXCEPT ![c] = IF Tested = "w0" THEN "kernel" ELSE "count"]
  BY DEF Count, Goto
<1>2. TypeOK'
  BY <1>1, CoreFacts DEF Inv, TypeOK, Count
<1> QED BY <1>1, <1>2, CoreFacts DEF Inv, TypeOK, Progress, Count

LEMMA EnableInv ==
  ASSUME Inv, MultiCoreEnable
  PROVE  Inv'
  BY RendezvousAssumption, CoreFacts DEF Inv, TypeOK, Progress, MultiCoreEnable, Core

LEMMA AnnounceInv ==
  ASSUME Inv, NEW c \in Core, c # 0, Announce(c)
  PROVE  Inv'
<1>1. c \in Secondary
  BY CoreFacts
<1>2. CASE ClearLoad(c) \/ SetLoad(c)
  BY <1>1, <1>2, CoreFacts DEF Inv, TypeOK, Progress, ClearLoad, SetLoad, Load, Goto
<1>3. CASE ClearStore(c) \/ SetStore(c)
  <2>1. loaded[c] \subseteq Core
    BY <1>1 DEF Inv, TypeOK
  <2> QED
    BY <1>1, <1>3, <2>1, CoreFacts
    DEF Inv, TypeOK, Progress, ClearStore, SetStore, Store, Goto
<1> QED BY <1>2, <1>3 DEF Announce

LEMMA PollInv ==
  ASSUME Inv, Poll
  PROVE  Inv'
  BY RendezvousAssumption, CoreFacts DEF Inv, TypeOK, Progress, Poll, Goto

LEMMA DispatchInv ==
  ASSUME Inv, NEW c \in Core, Dispatch(c)
  PROVE  Inv'
  BY CoreFacts DEF Inv, TypeOK, Progress, Dispatch

LEMMA NextInv == Inv /\ [Next]_vars => Inv'
<1> SUFFICES ASSUME Inv, [Next]_vars
             PROVE  Inv'
  OBVIOUS
<1>1. ASSUME NEW c \in Core, Boot(c)
      PROVE  Inv'
  BY <1>1, MinitInv, CountInv, EnableInv, AnnounceInv, PollInv DEF Boot
<1>2. CASE UNCHANGED vars
  BY <1>2 DEF vars, Inv, TypeOK, Progress
<1> QED BY <1>1, <1>2, DispatchInv DEF Next

LEMMA InvHolds == Spec => []Inv
  BY InitInv, NextInv, PTL DEF Spec

\* The start-up of boot.s:4-36 and kernel.c:139-159 keeps every variable in
\* its range, for every number of cores and every initial word.
THEOREM TypeCorrect == Spec => []TypeOK
<1>1. Inv => TypeOK
  BY DEF Inv
<1> QED BY <1>1, InvHolds, PTL

-----------------------------------------------------------------------------
(* The signal word.                                                        *)

Up == {"kernel", "poll", "running"}

\* Until core 0 is past its count the other cores are in the firmware.
Parked == pc[0] \notin Up => \A c \in Secondary : pc[c] = "parked"

\* What an update that has not met another one keeps: the bytes of the cores
\* that run are in the word and in the copy of the one core that updates it.
Kept ==
  collided = {} =>
    /\ \A c, d \in Secondary : pc[c] \in Updating /\ pc[d] \in Updating => c = d
    /\ \A c \in Secondary : pc[c] = "running" =>
         /\ c \in signal
         /\ \A d \in Secondary : pc[d] \in Updating => c \in loaded[d]

WordInv == Inv /\ Parked /\ AbsentSeemReady /\ Kept

LEMMA InitWord == Init => WordInv
  BY InitInv, CoreFacts
  DEF Init, WordInv, Parked, AbsentSeemReady, Kept, Up, Secondary, Updating

\* AbsentSeemReady and Kept need a step only to keep three things of the other
\* cores: who is absent, who updates the word, and who runs.
LEMMA CountWord ==
  ASSUME WordInv, NEW c \in Core, Count(c)
  PROVE  WordInv'
<1>1. Inv' /\ Inv /\ Parked /\ AbsentSeemReady /\ Kept
  BY CountInv DEF WordInv
<1>2. /\ pc[c] = "count" /\ signal' = Core /\ pc'[c] \in {"kernel", "count"}
      /\ \A d \in Core : d # c => pc'[d] = pc[d]
      /\ loaded' = loaded /\ collided' = collided
  BY <1>1 DEF Count, Goto, Inv, TypeOK
<1>3. ASSUME NEW d \in Core
      PROVE  /\ pc'[d] \in Updating => pc[d] \in Updating
             /\ pc'[d] \in Absent => pc[d] \in Absent
             /\ pc'[d] = "running" => pc[d] = "running"
  <2>1. CASE d = c
    BY <1>2, <2>1 DEF Updating, Absent
  <2>2. CASE d # c
    BY <1>2, <2>2
  <2> QED BY <2>1, <2>2
<1>4. Parked'
  BY <1>1, <1>2, CoreFacts DEF Parked, Up, Inv, TypeOK
<1>5. ASSUME pc'[0] \in Up, NEW e \in Secondary, pc'[e] \in Absent,
             NEW d \in Secondary, pc'[d] \in Updating
      PROVE  e \in loaded'[d]
  <2>1. pc[e] \in Absent /\ pc[d] \in Updating
    BY <1>3, <1>5, CoreFacts
  <2>2. CASE pc[0] \in Up
    BY <1>1, <1>2, <2>1, <2>2 DEF AbsentSeemReady, Up
  <2>3. CASE pc[0] \notin Up
    BY <1>1, <2>1, <2>3 DEF Parked, Updating
  <2> QED BY <2>2, <2>3
<1>6. AbsentSeemReady'
  BY <1>2, <1>5, CoreFacts DEF AbsentSeemReady, Up
<1>7. Kept'
  <2>1. ASSUME collided = {}, NEW d \in Secondary, NEW e \in Secondary,
               pc'[d] \in Updating, pc'[e] \in Updating
        PROVE  d = e
    BY <1>1, <1>3, <2>1, CoreFacts DEF Kept
  <2>2. ASSUME collided = {}, NEW e \in Secondary, pc'[e] = "running",
               NEW d \in Secondary, pc'[d] \in Updating
        PROVE  e \in loaded'[d]
    BY <1>1, <1>2, <1>3, <2>2, CoreFacts DEF Kept
  <2> QED BY <1>2, <2>1, <2>2, CoreFacts DEF Kept
<1> QED BY <1>1, <1>4, <1>6, <1>7 DEF WordInv

LEMMA LoadWord ==
  ASSUME WordInv, NEW c \in Secondary, ClearLoad(c) \/ SetLoad(c), Inv'
  PROVE  WordInv'
<1>1. Inv /\ Parked /\ AbsentSeemReady /\ Kept
  BY DEF WordInv
<1>2. /\ \A d \in Secondary : loaded'[d] = IF d = c THEN signal ELSE loaded[d]
      /\ signal' = signal
      /\ collided' = IF \E d \in Secondary \ {c} : pc[d] \in Updating
                      THEN collided \union {c} ELSE collided
      /\ \A d \in Core : d # c => pc'[d] = pc[d]
      /\ pc'[0] = pc[0]
  BY <1>1, CoreFacts DEF Inv, TypeOK, ClearLoad, SetLoad, Load, Goto
<1>3. /\ pc'[c] \in Absent => pc[c] \in Absent
      /\ pc'[c] # "running" /\ pc[c] # "parked"
  BY <1>1, CoreFacts DEF Inv, TypeOK, ClearLoad, SetLoad, Load, Goto, Absent
<1>4. ASSUME NEW d \in Secondary
      PROVE  /\ pc'[d] \in Absent => pc[d] \in Absent
             /\ pc'[d] = "running" => pc[d] = "running"
  BY <1>2, <1>3, CoreFacts
<1>5. Parked'
  BY <1>1, <1>2, <1>3 DEF Parked
<1>6. ASSUME pc[0] \in Up, NEW e \in Secondary, pc'[e] \in Absent
      PROVE  e \in signal' /\ \A d \in Secondary : pc'[d] \in Updating => e \in loaded'[d]
  <2>1. e \in signal /\ \A d \in Secondary : pc[d] \in Updating => e \in loaded[d]
    BY <1>1, <1>4, <1>6 DEF AbsentSeemReady, Up
  <2> QED BY <1>2, <2>1, CoreFacts
<1>7. AbsentSeemReady'
  BY <1>2, <1>6 DEF AbsentSeemReady, Up
<1>8. ASSUME collided' = {}
      PROVE  /\ collided = {}
             /\ \A d \in Secondary : pc'[d] \in Updating => d = c
  BY <1>2, <1>8, CoreFacts
<1>9. ASSUME collided' = {}, NEW e \in Secondary, pc'[e] = "running"
      PROVE  e \in signal' /\ \A d \in Secondary : pc'[d] \in Updating => e \in loaded'[d]
  <2>1. e \in signal
    BY <1>1, <1>4, <1>8, <1>9 DEF Kept
  <2> QED BY <1>2, <1>8, <1>9, <2>1
<1>10. Kept'
  BY <1>8, <1>9 DEF Kept
<1> QED BY <1>5, <1>7, <1>10 DEF WordInv

LEMMA StoreWord ==
  ASSUME WordInv, NEW c \in Secondary, ClearStore(c) \/ SetStore(c), Inv'
  PROVE  WordInv'
<1>1. Inv /\ Parked /\ AbsentSeemReady /\ Kept
  BY DEF WordInv
<1>2. /\ loaded' = loaded /\ collided' = collided
      /\ \A d \in Core : d # c => pc'[d] = pc[d]
      /\ pc'[0] = pc[0]
      /\ pc[c] \in Updating /\ pc[c] # "parked"
      /\ pc'[c] \notin Updating /\ pc'[c] \notin Absent
      /\ pc'[c] = "running" => c \in signal'
      /\ \A d \in Core : d # c => (d \in signal' <=> d \in loaded[c])
  BY <1>1, CoreFacts
  DEF Inv, TypeOK, ClearStore, SetStore, Store, Goto, Updating, Absent
<1>3. Parked'
  BY <1>1, <1>2 DEF Parked
<1>4. ASSUME pc[0] \in Up, NEW e \in Secondary, pc'[e] \in Absent
      PROVE  e \in signal' /\ \A d \in Secondary : pc'[d] \in Updating => e \in loaded'[d]
  <2>1. e # c /\ pc[e] \in Absent
    BY <1>2, <1>4, CoreFacts
  <2>2. \A d \in Secondary : pc[d] \in Updating => e \in loaded[d]
    BY <1>1, <1>4, <2>1 DEF AbsentSeemReady, Up
  <2> QED BY <1>2, <2>1, <2>2, CoreFacts
<1>5. AbsentSeemReady'
  BY <1>2, <1>4 DEF AbsentSeemReady, Up
<1>6. ASSUME collided = {}, NEW d \in Secondary
      PROVE  pc'[d] \notin Updating
  <2>1. CASE d = c
    BY <1>2, <2>1
  <2>2. CASE d # c
    BY <1>1, <1>2, <1>6, <2>2, CoreFacts DEF Kept
  <2> QED BY <2>1, <2>2
<1>7. ASSUME collided = {}, NEW e \in Secondary, pc'[e] = "running"
      PROVE  e \in signal'
  <2>1. CASE e = c
    BY <1>2, <1>7, <2>1
  <2>2. CASE e # c
    <3>1. pc[e] = "running"
      BY <1>2, <1>7, <2>2, CoreFacts
    <3>2. e \in loaded[c]
      BY <1>1, <1>2, <1>7, <3>1 DEF Kept
    <3> QED BY <1>2, <2>2, <3>2, CoreFacts
  <2> QED BY <2>1, <2>2
<1>8. Kept'
  BY <1>2, <1>6, <1>7 DEF Kept
<1> QED BY <1>3, <1>5, <1>8 DEF WordInv

LEMMA OtherWord ==
  ASSUME WordInv, NEW c \in Core,
         MinitStore(c) \/ MultiCoreEnable \/ Poll \/ Dispatch(c) \/ UNCHANGED vars
  PROVE  WordInv'
<1>1. Inv' /\ Inv /\ Parked /\ AbsentSeemReady /\ Kept
  BY NextInv, CoreFacts DEF WordInv, Next, Boot
<1>2. signal' = signal /\ loaded' = loaded /\ collided' = collided
  BY DEF MinitStore, MultiCoreEnable, Poll, Dispatch, vars
<1>3. ASSUME NEW d \in Secondary
      PROVE  /\ pc'[d] \in Updating => pc[d] \in Updating
             /\ pc'[d] \in Absent => pc[d] \in Absent
             /\ pc'[d] = "running" => pc[d] = "running"
  <2>1. CASE MinitStore(c)
    BY <1>1, <2>1, CoreFacts DEF Inv, TypeOK, Updating, Absent, MinitStore, Goto
  <2>2. CASE MultiCoreEnable
    BY <1>1, <2>2, CoreFacts DEF Inv, TypeOK, Updating, Absent, MultiCoreEnable
  <2>3. CASE Poll \/ Dispatch(c) \/ UNCHANGED vars
    BY <1>1, <2>3, CoreFacts DEF Inv, TypeOK, Poll, Dispatch, vars, Goto
  <2> QED BY <2>1, <2>2, <2>3
<1>4. pc'[0] \in Up <=> pc[0] \in Up
  BY <1>1, CoreFacts
  DEF Inv, TypeOK, Up, MinitStore, MultiCoreEnable, Poll, Dispatch, vars, Goto
<1>5. Parked'
  <2>1. CASE MultiCoreEnable
    BY <1>4, <2>1 DEF MultiCoreEnable, Parked, Up
  <2>2. CASE MinitStore(c)
    BY <1>1, <1>4, <2>2, CoreFacts DEF Inv, TypeOK, Parked, Up, MinitStore, Goto
  <2>3. CASE Poll \/ Dispatch(c) \/ UNCHANGED vars
    BY <1>1, <1>4, <2>3, CoreFacts DEF Inv, TypeOK, Parked, Up, Poll, Dispatch, vars, Goto
  <2> QED BY <2>1, <2>2, <2>3
<1>6. ASSUME pc[0] \in Up, NEW e \in Secondary, pc'[e] \in Absent
      PROVE  e \in signal' /\ \A d \in Secondary : pc'[d] \in Updating => e \in loaded'[d]
  BY <1>1, <1>2, <1>3, <1>6 DEF AbsentSeemReady, Up
<1>7. AbsentSeemReady'
  BY <1>4, <1>6 DEF AbsentSeemReady, Up
<1>8. ASSUME collided = {}
      PROVE  /\ \A d, e \in Secondary : pc'[d] \in Updating /\ pc'[e] \in Updating => d = e
             /\ \A e \in Secondary : pc'[e] = "running" =>
                  /\ e \in signal'
                  /\ \A d \in Secondary : pc'[d] \in Updating => e \in loaded'[d]
  BY <1>1, <1>2, <1>3, <1>8 DEF Kept
<1>9. Kept'
  BY <1>2, <1>8 DEF Kept
<1> QED BY <1>1, <1>5, <1>7, <1>9 DEF WordInv

LEMMA NextWord == WordInv /\ [Next]_vars => WordInv'
<1> SUFFICES ASSUME WordInv, [Next]_vars
             PROVE  WordInv'
  OBVIOUS
<1>1. CASE UNCHANGED vars
  BY <1>1, OtherWord, CoreFacts
<1>2. ASSUME NEW c \in Core, Boot(c) \/ Dispatch(c)
      PROVE  WordInv'
  <2>1. Inv'
    BY NextInv DEF WordInv
  <2>2. CASE c # 0 /\ Announce(c)
    BY <2>1, <2>2, LoadWord, StoreWord, CoreFacts DEF Announce
  <2> QED BY <1>2, <2>2, CountWord, OtherWord DEF Boot
<1> QED BY <1>1, <1>2 DEF Next

LEMMA WordHolds == Spec => []WordInv
  BY InitWord, NextWord, PTL DEF Spec

\* With the word that boot.s:77 stores, every core that has not begun its
\* announcement looks announced to the wait of kernel.c:152-154, for every
\* number of cores and whatever the word held at power on.
THEOREM AbsentAlwaysSeemReady == Spec => []AbsentSeemReady
<1>1. WordInv => AbsentSeemReady
  BY DEF WordInv
<1> QED BY <1>1, WordHolds, PTL

\* The announcement of kernel.c:143-144 is lost only if two cores met at the
\* word, for every number of cores and whatever the word held at power on.
THEOREM OnlyMeetingsLose == Spec => []LostOnlyByMeeting
<1>1. WordInv => LostOnlyByMeeting
  BY DEF WordInv, Kept, LostOnlyByMeeting
<1> QED BY <1>1, WordHolds, PTL

\* Nobody is past the count.
BeforeKernel == \A c \in Core : pc[c] \in {"parked", "minit", "count"}

\* As it is written, with `cmp w1,#0` after a store of w1 (boot.s:77-78), no
\* core ever leaves the count for kernel() and no secondary core is started.
THEOREM CountNeverEnds ==
  ASSUME Tested = "w1"
  PROVE  Spec => []BeforeKernel
<1>1. Init => BeforeKernel
  BY CoreFacts DEF Init, BeforeKernel
<1>2. Inv /\ BeforeKernel /\ [Next]_vars => BeforeKernel'
  <2> SUFFICES ASSUME Inv, BeforeKernel, [Next]_vars
               PROVE  BeforeKernel'
    OBVIOUS
  <2>1. ASSUME NEW c \in Core, MinitStore(c) \/ Count(c)
        PROVE  BeforeKernel'
    BY <2>1 DEF Inv, TypeOK, BeforeKernel, MinitStore, Count, Goto
  <2>2. CASE UNCHANGED vars
    BY <2>2 DEF BeforeKernel, vars
  <2>3. ASSUME NEW c \in Core, Announce(c) \/ MultiCoreEnable \/ Poll \/ Dispatch(c)
        PROVE  FALSE
    BY <2>3, CoreFacts DEF BeforeKernel, Announce, ClearLoad, ClearStore, SetLoad, SetStore,
                           Load, Store, MultiCoreEnable, Poll, Dispatch
  <2> QED BY <2>1, <2>2, <2>3 DEF Next, Boot
<1> QED BY <1>1, <1>2, InvHolds, PTL DEF Spec

-----------------------------------------------------------------------------
(* Data aborts.                                                            *)

\* A walk over one page without a successor never holds a frame; and whoever is
\* about to be granted a page has been ended.
AbortInv ==
  /\ Abort!TypeOK
  /\ apc = "walk" /\ pages = Page /\ next = NULL => temp = NULL
  /\ apc = "grow" => left = 0 \/ status = 3
  /\ apc \in {"link", "size", "kframe"} => left > 0 /\ status = 3
  /\ apc = "dispatch" => /\ status = 3 /\ back # "walk"
                         /\ back \in {"link", "size", "kframe"} => left > 0
  /\ Abort!LackOfPagesOnly /\ Abort!GrantsToTheEnded

\* Nothing below bit 31 is left.
LEMMA NoStatus ==
  ASSUME NEW iss \in SUBSET Nat
  PROVE  /\ ~Abort!External(Abort!Dscf(iss))
         /\ ~Abort!Permission(Abort!Dscf(iss))
         /\ ~Abort!Alignment(Abort!Dscf(iss))
<1>1. Abort!Dscf(iss) = {}
  BY DEF Abort!Dscf, Abort!Masked
<1> QED BY <1>1 DEF Abort!External, Abort!Permission, Abort!Alignment

\* A number of pages below 3 is 0.
LEMMA NoneOrMany ==
  ASSUME Abort!DataAbortAssumption, NEW address \in Nat, NEW n \in Nat
  PROVE  Abort!Attempted(address, n) > 2 \/ Abort!Attempted(address, n) = 0
<1> DEFINE q == ((address - n * 4 * KB) % Space) \div 4
           m == Space \div KB
           d == (q * KB) \div Space
           r == (q * KB) % Space
           i == q - m * d
<1>1. KB \in Nat /\ KB > 2 /\ Space \in Nat \ {0} /\ Space = m * KB /\ m \in Nat
  BY DEF Abort!DataAbortAssumption
<1>2. q \in Nat
  BY <1>1
<1>3. q * KB \in Nat
  BY <1>1, <1>2
<1>4. r \in Nat /\ d \in Nat /\ q * KB = Space * d + r
  <2> HIDE DEF q, m
  <2> QED BY <1>1, <1>3
<1>5. r = i * KB /\ i \in Int
  <2> HIDE DEF q, m, d, r
  <2> QED BY <1>1, <1>2, <1>4
<1>6. i = 0 \/ i >= 1
  <2> HIDE DEF q, m, d, r, i
  <2> QED BY <1>1, <1>4, <1>5
<1>7. r = 0 \/ r > 2
  <2> HIDE DEF q, m, d, r, i
  <2> QED BY <1>1, <1>4, <1>5, <1>6
<1> QED BY <1>7 DEF Abort!Attempted

LEMMA AttemptedRange ==
  ASSUME Abort!DataAbortAssumption, NEW address \in Nat, NEW n \in Nat
  PROVE  Abort!Attempted(address, n) \in 0..Space-1
<1> DEFINE p == (((address - n * 4 * KB) % Space) \div 4) * KB
<1>1. Space \in Nat \ {0} /\ KB \in Nat
  BY DEF Abort!DataAbortAssumption
<1>2. p \in Int
  BY <1>1
<1>3. p % Space \in 0..Space-1
  <2> HIDE DEF p
  <2> QED BY <1>1, <1>2
<1> QED BY <1>3 DEF Abort!Attempted

LEMMA AbortInit ==
  ASSUME Abort!DataAbortAssumption, Abort!Init
  PROVE  AbortInv
  BY DEF Abort!DataAbortAssumption, Abort!Init, AbortInv, Abort!TypeOK, Abort!Frames,
         Abort!LackOfPagesOnly, Abort!GrantsToTheEnded

LEMMA FaultStep ==
  ASSUME Abort!DataAbortAssumption, AbortInv, NEW iss \in SUBSET Syndrome,
         NEW address \in 0..Space-1,
         Abort!TaskFault(iss, address) \/ Abort!KernelFault(iss)
  PROVE  AbortInv' /\ apc # "walk"
<1> USE DEF AbortInv, Abort!TypeOK, Abort!LackOfPagesOnly, Abort!GrantsToTheEnded
<1>1. iss \in SUBSET Nat /\ 0 \in 0..MaxCount
  BY DEF Abort!DataAbortAssumption
<1>2. CASE Abort!TaskFault(iss, address)
  <2>1. /\ apc' = "walk" /\ temp' = NULL /\ count' = 0 /\ far' = address
        /\ UNCHANGED <<back, pages, next, left, status, fault, given>>
    BY <1>1, <1>2, NoStatus DEF Abort!TaskFault
  <2>2. apc = "task"
    BY <1>2 DEF Abort!TaskFault
  <2> QED
    BY <1>1, <2>1, <2>2 DEF Abort!Frames
<1>3. CASE Abort!KernelFault(iss)
  BY <1>1, <1>3, NoStatus DEF Abort!KernelFault
<1> QED BY <1>2, <1>3

LEMMA WalkStep ==
  ASSUME Abort!DataAbortAssumption, AbortInv, Abort!WalkTurn \/ Abort!WalkEnd
  PROVE  AbortInv' /\ (pages = Page /\ next = NULL => apc' = "walk")
<1> USE DEF AbortInv, Abort!TypeOK, Abort!LackOfPagesOnly, Abort!GrantsToTheEnded
<1>1. CASE Abort!WalkTurn
  <2>1. temp' \in Abort!Frames /\ (pages = Page /\ next = NULL => temp' = NULL)
    BY <1>1 DEF Abort!WalkTurn, Abort!NextFrame
  <2>2. count' \in 0..MaxCount
    BY <1>1 DEF Abort!WalkTurn, Abort!DataAbortAssumption
  <2> QED BY <1>1, <2>1, <2>2 DEF Abort!WalkTurn
<1>2. CASE Abort!WalkEnd
  BY <1>2 DEF Abort!WalkEnd, Abort!Frames
<1> QED BY <1>1, <1>2

LEMMA AttemptStep ==
  ASSUME Abort!DataAbortAssumption, AbortInv, Abort!Attempt
  PROVE  AbortInv'
<1> USE DEF AbortInv, Abort!TypeOK, Abort!LackOfPagesOnly, Abort!GrantsToTheEnded
<1>1. far \in Nat /\ count \in Nat /\ 0 \in 0..MaxCount /\ 0 \in 0..Space-1
  BY DEF Abort!DataAbortAssumption
<1>2. /\ left' = Abort!Attempted(far, count)
      /\ left' \in 0..Space-1 /\ (left' > 2 \/ left' = 0)
  BY <1>1, NoneOrMany, AttemptedRange DEF Abort!Attempt
<1>3. CASE left' > 2
  <2>1. status' = 3 /\ fault' = 6 /\ apc' = "dispatch" /\ back' = "grow"
    BY <1>3 DEF Abort!Attempt, Abort!Ended
  <2> QED BY <1>1, <1>2, <2>1 DEF Abort!Attempt
<1>4. CASE left' = 0
  <2>1. apc' = "grow" /\ UNCHANGED <<back, status, fault>>
    BY <1>4 DEF Abort!Attempt
  <2> QED BY <1>1, <1>2, <1>4, <2>1 DEF Abort!Attempt
<1> QED BY <1>2, <1>3, <1>4

LEMMA DispatchStep ==
  ASSUME Abort!DataAbortAssumption, AbortInv, Abort!Dispatch
  PROVE  AbortInv'
<1> USE DEF AbortInv, Abort!TypeOK, Abort!LackOfPagesOnly, Abort!GrantsToTheEnded
<1>1. 0 \in 0..Space-1
  BY DEF Abort!DataAbortAssumption
<1>2. CASE apc' = back /\ UNCHANGED <<pages, next, temp, left, status, fault, given>>
  BY <1>2 DEF Abort!Dispatch
<1>3. CASE /\ apc' = "task" /\ status' = 2 /\ fault' = 0 /\ given' = {}
           /\ pages' \in {NULL, Page} /\ next' \in Abort!Frames
           /\ temp' = NULL /\ left' = 0
  BY <1>1, <1>3 DEF Abort!Dispatch, Abort!Frames
<1> QED BY <1>2, <1>3 DEF Abort!Dispatch

LEMMA GrowStep ==
  ASSUME Abort!DataAbortAssumption, AbortInv,
         \/ \E frame \in {NULL, Stray} : Abort!Grow(frame)
         \/ Abort!GrowEnd \/ Abort!Link \/ Abort!Size \/ Abort!Kframe
  PROVE  AbortInv' /\ apc # "walk"
<1> USE DEF AbortInv, Abort!TypeOK, Abort!LackOfPagesOnly, Abort!GrantsToTheEnded
<1>1. ASSUME NEW frame \in {NULL, Stray}, Abort!Grow(frame)
      PROVE  AbortInv'
  <2>1. /\ apc = "grow" /\ left > 0 /\ status = 3 /\ temp' = frame
        /\ UNCHANGED <<pages, next, count, far, left>>
    BY <1>1 DEF Abort!Grow
  <2>2. CASE frame = NULL
    <3>1. status' = 3 /\ fault' = 13 /\ apc' = "dispatch" /\ back' = "link" /\ given' = given
      BY <1>1, <2>2 DEF Abort!Grow, Abort!Ended
    <3> QED BY <2>1, <3>1 DEF Abort!Frames
  <2>3. CASE frame = Stray
    <3>1. apc' = "link" /\ given' = given \union {frame} /\ UNCHANGED <<back, status, fault>>
      BY <1>1, <2>3 DEF Abort!Grow, Abort!DataAbortAssumption
    <3> QED BY <2>1, <2>3, <3>1 DEF Abort!Frames
  <2> QED BY <2>2, <2>3
<1>2. CASE Abort!GrowEnd
  BY <1>2 DEF Abort!GrowEnd, Abort!Frames
<1>3. CASE Abort!Link
  <2>1. /\ apc = "link" /\ next' \in Abort!Frames
        /\ UNCHANGED <<pages, temp, count, far, left, given>>
    BY <1>3 DEF Abort!Link
  <2>2. \/ apc' = "size" /\ UNCHANGED <<back, status, fault>>
        \/ status' = 3 /\ fault' = 14 /\ apc' = "dispatch" /\ back' = "size"
    BY <1>3 DEF Abort!Link, Abort!Ended
  <2> QED BY <2>1, <2>2
<1>4. CASE Abort!Size
  <2>1. left - 1 \in 0..Space-1
    BY <1>4 DEF Abort!Size, Abort!DataAbortAssumption
  <2> QED BY <1>4, <2>1 DEF Abort!Size
<1>5. CASE Abort!Kframe
  <2>1. left - 1 \in 0..Space-1
    BY <1>5 DEF Abort!Kframe, Abort!DataAbortAssumption
  <2> QED BY <1>5, <2>1 DEF Abort!Kframe
<1>6. apc # "walk"
  BY DEF Abort!Grow, Abort!GrowEnd, Abort!Link, Abort!Size, Abort!Kframe
<1> QED BY <1>1, <1>2, <1>3, <1>4, <1>5, <1>6

LEMMA AbortNext ==
  ASSUME Abort!DataAbortAssumption, AbortInv, [Abort!Next]_Abort!vars
  PROVE  AbortInv' /\ (apc = "walk" /\ pages = Page /\ next = NULL => apc' = "walk")
<1>1. ASSUME NEW iss \in SUBSET Syndrome, Abort!KernelFault(iss)
      PROVE  AbortInv' /\ apc # "walk"
  <2>1. 0 \in 0..Space-1
    BY DEF Abort!DataAbortAssumption
  <2> QED BY <1>1, <2>1, FaultStep
<1>2. CASE Abort!Attempt \/ Abort!Dispatch
  BY <1>2, AttemptStep, DispatchStep DEF Abort!Attempt, Abort!Dispatch
<1>3. CASE UNCHANGED Abort!vars
  BY <1>3 DEF Abort!vars, AbortInv, Abort!TypeOK, Abort!LackOfPagesOnly, Abort!GrantsToTheEnded
<1> QED BY <1>1, <1>2, <1>3, FaultStep, WalkStep, GrowStep DEF Abort!Next

\* synchronous.c:115-313, 434-460: whatever faults, and whatever the syndrome, in
\* words and pages of any size, no abort stops the machine or ends a task for
\* anything but a lack of pages, and pages are granted only to a task that has
\* been ended.
THEOREM OutcomesOfAborts == Abort!Spec => []AbortOutcomes
<1> USE CorePartsAssumption
<1>1. AbortInv => AbortOutcomes
  BY DEF AbortInv, AbortOutcomes, Abort!AbortOutcomes
<1> QED BY <1>1, AbortInit, AbortNext, PTL DEF Abort!Spec

\* synchronous.c:168-183: the walk over one page whose next_frame is NULL has no
\* end.
THEOREM NullLinkNeverCounted == Abort!Spec => NullLinkIsCountedForEver
<1> USE CorePartsAssumption
<1>1. ASSUME AbortInv, [Abort!Next]_Abort!vars
      PROVE  [apc = "walk" /\ pages = Page /\ next = NULL => apc' = "walk"]_Abort!vars
  BY <1>1, AbortNext
<1> QED
  BY <1>1, AbortInit, AbortNext, PTL
  DEF Abort!Spec, NullLinkIsCountedForEver, Abort!NullLinkIsCountedForEver

-----------------------------------------------------------------------------
(* Dumps.                                                                  *)

BankTypeOK ==
  /\ id \in [Bank!Slot -> Nat] /\ body \in [Bank!Slot -> Nat]
  /\ stime \in [Bank!Slot -> Nat] /\ now \in Nat
  /\ dpc \in [Cores -> {"run", "scan"} \union Bank!Filling]
  /\ at \in [Cores -> Bank!Slot]
  /\ task \in [Cores -> Task]
  /\ met \subseteq Bank!Slot
  /\ \A c \in Cores : dpc[c] = "scan" => at[c] \in Bank!Entry

At(c, e) == dpc[c] \in Bank!Filling /\ at[c] = e

\* At a slot where nobody has met, a core is alone and sees its own stores.
OwnStores ==
  \A c \in Cores : dpc[c] \in Bank!Filling /\ at[c] \notin met =>
    /\ \A d \in Cores : At(d, at[c]) => d = c
    /\ at[c] \in Bank!Entry =>
         /\ dpc[c] = "id" => id[at[c]] = 0
         /\ dpc[c] # "id" => id[at[c]] = task[c]
         /\ dpc[c] = "stime" => body[at[c]] = task[c]

\* Behind a scan every entry is taken, and ids of taken entries stay.
Behind ==
  met \subseteq {-1} => \A c \in Cores : dpc[c] = "scan" =>
                          \A e \in Bank!Entry : e < at[c] => id[e] # 0

BankInv ==
  /\ BankTypeOK /\ OwnStores /\ Behind
  /\ Bank!DumpsTellOfOneTask /\ Bank!OutsideOnlyWhenFull

LEMMA NoOldest ==
  ASSUME Bank!DumpsAssumption, BankTypeOK
  PROVE  Bank!Oldest = -1
<1>1. D - 1 \in Bank!Slot
  BY DEF Bank!DumpsAssumption, Bank!Slot
<1>2. stime[D - 1] \in Nat
  BY <1>1 DEF BankTypeOK
<1> QED BY <1>2 DEF Bank!Oldest

LEMMA BankInit ==
  ASSUME Bank!DumpsAssumption, Bank!Init
  PROVE  BankInv
  BY DEF Bank!DumpsAssumption, Bank!Init, BankInv, BankTypeOK, OwnStores, Behind, At,
         Bank!DumpsTellOfOneTask, Bank!OutsideOnlyWhenFull, Bank!Settled,
         Bank!Filler, Bank!Filling, Bank!Slot, Bank!Entry

\* The three things a scan may come to.
LEMMA ScanCases ==
  ASSUME Bank!DumpsAssumption, BankTypeOK, NEW c \in Cores, Bank!Scan(c)
  PROVE  \/ id[at[c]] = 0 /\ Bank!Take(c, at[c])
         \/ at[c] = D - 1 /\ id[at[c]] # 0 /\ Bank!Take(c, -1)
         \/ /\ at[c] # D - 1 /\ id[at[c]] # 0
            /\ Bank!Move(c, at[c] + 1, "scan") /\ UNCHANGED met
  BY NoOldest DEF Bank!Scan

LEMMA ScanInv ==
  ASSUME Bank!DumpsAssumption, BankInv, NEW c \in Cores, Bank!Scan(c)
  PROVE  BankInv'
<1> USE DEF Bank!Filling
<1>1. /\ dpc[c] = "scan" /\ at[c] \in Bank!Entry
      /\ UNCHANGED <<id, body, stime, now, task>>
  BY DEF Bank!Scan, BankInv, BankTypeOK
<1>2. ASSUME NEW e \in Bank!Slot, Bank!Take(c, e),
             e \in Bank!Entry => id[e] = 0,
             e = -1 => (met \subseteq {-1} => \A f \in Bank!Entry : id[f] # 0)
      PROVE  BankInv'
  <2>1. /\ dpc' = [dpc EXCEPT ![c] = "id"] /\ at' = [at EXCEPT ![c] = e]
        /\ met \subseteq met' /\ met' \subseteq met \union {e}
        /\ e \notin met' => \A d \in Cores : ~At(d, e)
    BY <1>2 DEF Bank!Take, Bank!Move, Bank!Goto, Bank!Filler, At
  <2>2. BankTypeOK'
    BY <1>1, <2>1 DEF BankInv, BankTypeOK
  <2>3. \A d \in Cores : d # c => dpc'[d] = dpc[d] /\ at'[d] = at[d]
    BY <2>1 DEF BankInv, BankTypeOK
  <2>4. dpc'[c] = "id" /\ at'[c] = e
    BY <2>1 DEF BankInv, BankTypeOK
  <2>5. OwnStores'
    BY <1>1, <1>2, <2>1, <2>3, <2>4 DEF BankInv, OwnStores, At
  <2>6. Behind'
    BY <1>1, <2>1, <2>3, <2>4 DEF BankInv, Behind
  <2>7. Bank!DumpsTellOfOneTask'
    <3> SUFFICES ASSUME NEW f \in Bank!Entry, f \notin met', id[f] # 0,
                        \A d \in Cores : ~At(d, f)'
                 PROVE  body[f] = id[f]
      BY <1>1 DEF Bank!DumpsTellOfOneTask, Bank!Settled, Bank!Filler, At
    <3>1. \A d \in Cores : ~At(d, f)
      BY <1>1, <2>3 DEF At
    <3> QED
      BY <2>1, <3>1 DEF BankInv, Bank!DumpsTellOfOneTask, Bank!Settled, Bank!Filler, At
  <2>8. Bank!OutsideOnlyWhenFull'
    <3> SUFFICES ASSUME met' \subseteq {-1}, NEW d \in Cores, At(d, -1)',
                        NEW f \in Bank!Entry
                 PROVE  id[f] # 0
      BY <1>1 DEF Bank!OutsideOnlyWhenFull, Bank!Filler, At
    <3>1. CASE d = c
      BY <1>2, <2>1, <2>4, <3>1 DEF At
    <3>2. CASE d # c
      BY <2>1, <2>3, <3>2 DEF At, BankInv, Bank!OutsideOnlyWhenFull, Bank!Filler
    <3> QED BY <3>1, <3>2
  <2> QED BY <2>2, <2>5, <2>6, <2>7, <2>8 DEF BankInv
<1>3. CASE id[at[c]] = 0 /\ Bank!Take(c, at[c])
  BY <1>1, <1>2, <1>3 DEF Bank!Entry, Bank!Slot
<1>4. CASE at[c] = D - 1 /\ id[at[c]] # 0 /\ Bank!Take(c, -1)
  <2>1. met \subseteq {-1} => \A f \in Bank!Entry : id[f] # 0
    BY <1>1, <1>4 DEF BankInv, Behind, Bank!Entry, Bank!DumpsAssumption
  <2>2. -1 \in Bank!Slot /\ -1 \notin Bank!Entry
    BY DEF Bank!Slot, Bank!Entry, Bank!DumpsAssumption
  <2> QED BY <1>2, <1>4, <2>1, <2>2
<1>5. CASE /\ at[c] # D - 1 /\ id[at[c]] # 0
           /\ Bank!Move(c, at[c] + 1, "scan") /\ UNCHANGED met
  <2>1. /\ dpc' = [dpc EXCEPT ![c] = "scan"] /\ at' = [at EXCEPT ![c] = at[c] + 1]
    BY <1>5 DEF Bank!Move, Bank!Goto
  <2>2. at[c] + 1 \in Bank!Entry /\ at[c] + 1 \in Bank!Slot
    BY <1>1, <1>5 DEF Bank!Entry, Bank!Slot, Bank!DumpsAssumption
  <2>3. BankTypeOK'
    BY <1>1, <1>5, <2>1, <2>2 DEF BankInv, BankTypeOK
  <2>4. /\ \A d \in Cores : d # c => dpc'[d] = dpc[d] /\ at'[d] = at[d]
        /\ dpc'[c] = "scan" /\ at'[c] = at[c] + 1
    BY <2>1 DEF BankInv, BankTypeOK
  <2>5. \A d \in Cores, e \in Bank!Slot : At(d, e)' = At(d, e)
    BY <1>1, <2>4 DEF At
  <2>6. OwnStores'
    BY <1>1, <1>5, <2>4 DEF BankInv, OwnStores, At
  <2>7. Behind'
    BY <1>1, <1>5, <2>4 DEF BankInv, Behind, Bank!Entry
  <2>8. Bank!DumpsTellOfOneTask' /\ Bank!OutsideOnlyWhenFull'
    BY <1>1, <1>5, <2>4
    DEF BankInv, Bank!DumpsTellOfOneTask, Bank!OutsideOnlyWhenFull, Bank!Settled, Bank!Filler
  <2> QED BY <2>3, <2>6, <2>7, <2>8 DEF BankInv
<1> QED BY <1>3, <1>4, <1>5, ScanCases DEF BankInv

LEMMA FillInv ==
  ASSUME Bank!DumpsAssumption, BankInv, NEW c \in Cores, Bank!Fill(c)
  PROVE  BankInv'
<1> USE DEF Bank!Filling
<1> DEFINE e == at[c]
<1>1. /\ dpc[c] \in {"id", "body", "stime"} /\ e \in Bank!Slot /\ At(c, e)
      /\ task[c] \in Task /\ task[c] \in Nat
      /\ UNCHANGED <<now, met>>
  BY DEF Bank!Fill, Bank!StoreId, Bank!StoreBody, Bank!StoreTime, Bank!Move, BankInv,
         BankTypeOK, At, Bank!DumpsAssumption
<1>2. CASE Bank!StoreId(c)
  <2>1. /\ dpc[c] = "id" /\ dpc' = [dpc EXCEPT ![c] = "body"]
        /\ id' = [id EXCEPT ![e] = task[c]]
        /\ UNCHANGED <<body, stime, at, task>>
    BY <1>2 DEF Bank!StoreId, Bank!Goto
  <2>2. BankTypeOK'
    BY <1>1, <2>1 DEF BankInv, BankTypeOK
  <2>3. /\ \A d \in Cores : d # c => dpc'[d] = dpc[d]
        /\ dpc'[c] = "body" /\ id'[e] = task[c]
        /\ \A f \in Bank!Slot : f # e => id'[f] = id[f]
        /\ Bank!Entry \subseteq Bank!Slot
    BY <1>1, <2>1 DEF BankInv, BankTypeOK, Bank!Entry, Bank!Slot
  <2>4. \A d \in Cores, f \in Bank!Slot : At(d, f)' = At(d, f)
    BY <2>1, <2>3 DEF At
  <2>5. OwnStores'
    BY <1>1, <2>1, <2>3 DEF BankInv, OwnStores, At
  <2>6. met \subseteq {-1} => \A f \in Bank!Entry : id[f] # 0 => id'[f] # 0
    BY <1>1, <2>1, <2>3 DEF BankInv, OwnStores, Bank!Entry, Bank!DumpsAssumption
  <2>7. Behind'
    BY <1>1, <2>1, <2>3, <2>6 DEF BankInv, Behind
  <2>8. Bank!DumpsTellOfOneTask'
    <3> SUFFICES ASSUME NEW f \in Bank!Entry, f \notin met, id'[f] # 0,
                        \A d \in Cores : ~At(d, f)'
                 PROVE  body[f] = id'[f]
      BY <1>1, <2>1 DEF Bank!DumpsTellOfOneTask, Bank!Settled, Bank!Filler, At
    <3>1. f # e /\ \A d \in Cores : ~At(d, f)
      BY <1>1, <2>3, <2>4
    <3> QED
      BY <2>3, <3>1 DEF BankInv, Bank!DumpsTellOfOneTask, Bank!Settled, Bank!Filler, At
  <2>9. Bank!OutsideOnlyWhenFull'
    BY <1>1, <2>1, <2>3, <2>6 DEF BankInv, Bank!OutsideOnlyWhenFull, Bank!Filler
  <2> QED BY <2>2, <2>5, <2>7, <2>8, <2>9 DEF BankInv
<1>3. CASE Bank!StoreBody(c)
  <2>1. /\ dpc[c] = "body" /\ dpc' = [dpc EXCEPT ![c] = "stime"]
        /\ body' = [body EXCEPT ![e] = task[c]]
        /\ UNCHANGED <<id, stime, at, task>>
    BY <1>3 DEF Bank!StoreBody, Bank!Goto
  <2>2. BankTypeOK'
    BY <1>1, <2>1 DEF BankInv, BankTypeOK
  <2>3. /\ \A d \in Cores : d # c => dpc'[d] = dpc[d]
        /\ dpc'[c] = "stime" /\ body'[e] = task[c]
        /\ \A f \in Bank!Slot : f # e => body'[f] = body[f]
        /\ Bank!Entry \subseteq Bank!Slot
    BY <1>1, <2>1 DEF BankInv, BankTypeOK, Bank!Entry, Bank!Slot
  <2>4. \A d \in Cores, f \in Bank!Slot : At(d, f)' = At(d, f)
    BY <2>1, <2>3 DEF At
  <2>5. OwnStores'
    BY <1>1, <2>1, <2>3 DEF BankInv, OwnStores, At
  <2>6. Behind'
    BY <1>1, <2>1, <2>3 DEF BankInv, Behind
  <2>7. Bank!DumpsTellOfOneTask'
    <3> SUFFICES ASSUME NEW f \in Bank!Entry, f \notin met, id[f] # 0,
                        \A d \in Cores : ~At(d, f)'
                 PROVE  body'[f] = id[f]
      BY <1>1, <2>1 DEF Bank!DumpsTellOfOneTask, Bank!Settled, Bank!Filler, At
    <3>1. f # e /\ \A d \in Cores : ~At(d, f)
      BY <1>1, <2>3, <2>4
    <3> QED
      BY <2>3, <3>1 DEF BankInv, Bank!DumpsTellOfOneTask, Bank!Settled, Bank!Filler, At
  <2>8. Bank!OutsideOnlyWhenFull'
    BY <1>1, <2>1, <2>3 DEF BankInv, Bank!OutsideOnlyWhenFull, Bank!Filler
  <2> QED BY <2>2, <2>5, <2>6, <2>7, <2>8 DEF BankInv
<1>4. CASE Bank!StoreTime(c)
  <2>1. /\ dpc[c] = "stime" /\ dpc' = [dpc EXCEPT ![c] = "run"]
        /\ at' = [at EXCEPT ![c] = 0] /\ task' = [task EXCEPT ![c] = 0]
        /\ stime' = [stime EXCEPT ![e] = now]
        /\ UNCHANGED <<id, body>>
    BY <1>4 DEF Bank!StoreTime, Bank!Move, Bank!Goto
  <2>2. BankTypeOK'
    <3>1. 0 \in Bank!Slot /\ 0 \in Task
      BY DEF Bank!DumpsAssumption, Bank!Slot
    <3>2. /\ stime' \in [Bank!Slot -> Nat] /\ at' \in [Cores -> Bank!Slot]
          /\ dpc' \in [Cores -> {"run", "scan"} \union Bank!Filling]
          /\ task' \in [Cores -> Task]
      BY <1>1, <2>1, <3>1 DEF BankInv, BankTypeOK
    <3>3. \A d \in Cores : dpc'[d] = "scan" => at'[d] \in Bank!Entry
      BY <2>1 DEF BankInv, BankTypeOK
    <3> QED BY <1>1, <2>1, <3>2, <3>3 DEF BankInv, BankTypeOK
  <2>3. /\ \A d \in Cores : d # c => dpc'[d] = dpc[d] /\ at'[d] = at[d] /\ task'[d] = task[d]
        /\ dpc'[c] = "run"
        /\ Bank!Entry \subseteq Bank!Slot
    BY <1>1, <2>1 DEF BankInv, BankTypeOK, Bank!Entry, Bank!Slot
  <2>4. OwnStores'
    BY <1>1, <2>1, <2>3 DEF BankInv, OwnStores, At
  <2>5. Behind'
    BY <1>1, <2>1, <2>3 DEF BankInv, Behind
  <2>6. Bank!DumpsTellOfOneTask'
    <3> SUFFICES ASSUME NEW f \in Bank!Entry, f \notin met, id[f] # 0,
                        \A d \in Cores : ~At(d, f)'
                 PROVE  body[f] = id[f]
      BY <1>1, <2>1 DEF Bank!DumpsTellOfOneTask, Bank!Settled, Bank!Filler, At
    <3>1. CASE f = e
      BY <1>1, <2>1, <3>1 DEF BankInv, OwnStores
    <3>2. CASE f # e
      <4>1. \A d \in Cores : ~At(d, f)
        BY <2>3, <3>2 DEF At
      <4> QED
        BY <4>1 DEF BankInv, Bank!DumpsTellOfOneTask, Bank!Settled, Bank!Filler, At
    <3> QED BY <3>1, <3>2
  <2>7. Bank!OutsideOnlyWhenFull'
    BY <1>1, <2>1, <2>3 DEF BankInv, Bank!OutsideOnlyWhenFull, Bank!Filler
  <2> QED BY <2>2, <2>4, <2>5, <2>6, <2>7 DEF BankInv
<1> QED BY <1>2, <1>3, <1>4 DEF Bank!Fill

LEMMA OtherInv ==
  ASSUME Bank!DumpsAssumption, BankInv,
         Bank!Clock \/ (\E c \in Cores : Bank!Terminate(c)) \/ UNCHANGED Bank!vars
  PROVE  BankInv'
<1> USE DEF Bank!Filling
<1>1. CASE Bank!Clock \/ UNCHANGED Bank!vars
  BY <1>1
  DEF BankInv, BankTypeOK, OwnStores, Behind, At, Bank!DumpsTellOfOneTask,
      Bank!OutsideOnlyWhenFull, Bank!Settled, Bank!Filler, Bank!Clock, Bank!vars
<1>2. ASSUME NEW c \in Cores, Bank!Terminate(c)
      PROVE  BankInv'
  <2>1. PICK t \in Task : task' = [task EXCEPT ![c] = t]
    BY <1>2 DEF Bank!Terminate
  <2>2. /\ dpc[c] = "run" /\ dpc' = [dpc EXCEPT ![c] = "scan"]
        /\ at' = [at EXCEPT ![c] = 0]
        /\ UNCHANGED <<id, body, stime, now, met>>
        /\ 0 \in Bank!Entry /\ 0 \in Bank!Slot
        /\ \A e \in Bank!Entry : ~(e < 0)
    BY <1>2
    DEF Bank!Terminate, Bank!Move, Bank!Goto, Bank!Entry, Bank!Slot, Bank!DumpsAssumption
  <2>3. BankTypeOK'
    BY <2>1, <2>2 DEF BankInv, BankTypeOK
  <2>4. /\ \A d \in Cores : d # c => dpc'[d] = dpc[d] /\ at'[d] = at[d] /\ task'[d] = task[d]
        /\ dpc'[c] = "scan" /\ at'[c] = 0
    BY <2>1, <2>2 DEF BankInv, BankTypeOK
  <2>5. OwnStores' /\ Behind'
    BY <2>2, <2>4 DEF BankInv, OwnStores, Behind, At
  <2>6. Bank!DumpsTellOfOneTask' /\ Bank!OutsideOnlyWhenFull'
    BY <2>2, <2>4
    DEF BankInv, Bank!DumpsTellOfOneTask, Bank!OutsideOnlyWhenFull, Bank!Settled, Bank!Filler
  <2> QED BY <2>3, <2>5, <2>6 DEF BankInv
<1> QED BY <1>1, <1>2

LEMMA BankNext ==
  ASSUME Bank!DumpsAssumption, BankInv, [Bank!Next]_Bank!vars
  PROVE  BankInv'
  BY ScanInv, FillInv, OtherInv DEF Bank!Next

\* core.c:168-177: a dump tells of one task unless two cores have met at its
\* entry, for any cores, tasks and size of the bank.
THEOREM DumpsAreWhole == Bank!Spec => []Bank!DumpsTellOfOneTask
<1> USE CorePartsAssumption
<1>1. BankInv => Bank!DumpsTellOfOneTask
  BY DEF BankInv
<1> QED BY <1>1, BankInit, BankNext, PTL DEF Bank!Spec

\* core.c:180: no core writes before the bank while an entry is free and no two
\* cores have met.
THEOREM OutsideIsLast == Bank!Spec => []OutsideOnlyWhenFull
<1> USE CorePartsAssumption
<1>1. BankInv => OutsideOnlyWhenFull
  BY DEF BankInv, OutsideOnlyWhenFull
<1> QED BY <1>1, BankInit, BankNext, PTL DEF Bank!Spec

\* core.c:166-208: the first dumps stay for ever, unless two cores have met
\* at the entry.
THEOREM FirstDumpsAreKept == Bank!Spec => FirstDumpsStay
<1> USE CorePartsAssumption
<1> USE DEF Bank!Filling
<1>1. ASSUME BankInv, [Bank!Next]_Bank!vars, NEW e \in Bank!Entry, Bank!Settled(e)
      PROVE  Bank!Settled(e)' /\ UNCHANGED <<id[e], body[e], stime[e]>>
  <2>1. id[e] # 0 /\ \A d \in Cores : ~At(d, e)
    BY <1>1 DEF Bank!Settled, Bank!Filler, At
  <2>2. ASSUME NEW c \in Cores, Bank!Scan(c)
        PROVE  UNCHANGED <<id, body, stime>> /\ \A d \in Cores : ~At(d, e)'
    <3>1. UNCHANGED <<id, body, stime>> /\ e # -1
      BY <2>2 DEF Bank!Scan, Bank!Entry
    <3>2. \/ dpc'[c] = "id" /\ at'[c] # e
          \/ dpc'[c] = "scan"
      <4>1. BankTypeOK
        BY <1>1 DEF BankInv
      <4>2. ASSUME NEW f, f # e, Bank!Take(c, f)
            PROVE  dpc'[c] = "id" /\ at'[c] # e
        BY <4>1, <4>2 DEF Bank!Take, Bank!Move, Bank!Goto, BankTypeOK
      <4>3. ASSUME Bank!Move(c, at[c] + 1, "scan")
            PROVE  dpc'[c] = "scan"
        BY <4>1, <4>3 DEF Bank!Move, Bank!Goto, BankTypeOK
      <4> QED
        BY <2>1, <2>2, <3>1, <4>1, <4>2, <4>3, ScanCases
    <3>3. \A d \in Cores : d # c => dpc'[d] = dpc[d] /\ at'[d] = at[d]
      <4>1. BankTypeOK
        BY <1>1 DEF BankInv
      <4> QED
        BY <2>2, <4>1, ScanCases DEF Bank!Take, Bank!Move, Bank!Goto, BankTypeOK
    <3> QED BY <2>1, <3>1, <3>2, <3>3 DEF At
  <2>3. ASSUME NEW c \in Cores, Bank!Fill(c)
        PROVE  /\ UNCHANGED <<id[e], body[e], stime[e]>>
               /\ \A d \in Cores : ~At(d, e)'
    <3>1. at[c] # e /\ dpc[c] \in {"id", "body", "stime"} /\ BankTypeOK
      BY <1>1, <2>1, <2>3
      DEF Bank!Fill, Bank!StoreId, Bank!StoreBody, Bank!StoreTime, At, BankInv
    <3>2. CASE Bank!StoreId(c) \/ Bank!StoreBody(c)
      <4>1. UNCHANGED <<id[e], body[e], stime[e], at>>
        <5>1. e \in Bank!Slot
          BY DEF Bank!Entry, Bank!Slot, Bank!DumpsAssumption
        <5>2. CASE Bank!StoreId(c)
          BY <3>1, <5>1, <5>2 DEF Bank!StoreId, BankTypeOK
        <5>3. CASE Bank!StoreBody(c)
          BY <3>1, <5>1, <5>3 DEF Bank!StoreBody, BankTypeOK
        <5> QED BY <3>2, <5>2, <5>3
      <4>2. \A d \in Cores : d # c => dpc'[d] = dpc[d]
        BY <3>1, <3>2 DEF Bank!StoreId, Bank!StoreBody, Bank!Goto, BankTypeOK
      <4> QED BY <2>1, <3>1, <4>1, <4>2 DEF At
    <3>3. CASE Bank!StoreTime(c)
      BY <2>1, <3>1, <3>3
      DEF Bank!StoreTime, Bank!Move, Bank!Goto, At, BankTypeOK, Bank!Entry, Bank!Slot
    <3> QED BY <2>3, <3>2, <3>3 DEF Bank!Fill
  <2>4. ASSUME NEW c \in Cores, Bank!Terminate(c)
        PROVE  UNCHANGED <<id, body, stime>> /\ \A d \in Cores : ~At(d, e)'
    BY <1>1, <2>1, <2>4
    DEF Bank!Terminate, Bank!Move, Bank!Goto, At, BankInv, BankTypeOK
  <2>5. CASE Bank!Clock \/ UNCHANGED Bank!vars
    BY <2>1, <2>5 DEF Bank!Clock, Bank!vars, At, Bank!Settled, Bank!Filler
  <2>6. /\ UNCHANGED <<id[e], body[e], stime[e]>>
        /\ \A d \in Cores : ~At(d, e)'
    BY <1>1, <2>1, <2>2, <2>3, <2>4, <2>5 DEF Bank!Next, Bank!Clock, Bank!vars, At
  <2> QED BY <2>1, <2>6 DEF Bank!Settled, Bank!Filler, At
<1>2. ASSUME BankInv, [Bank!Next]_Bank!vars
      PROVE  [\A e \in Bank!Entry \ met : Bank!Settled(e) =>
                Bank!Settled(e)' /\ UNCHANGED <<id[e], body[e], stime[e]>>]_Bank!vars
  BY <1>1, <1>2
<1> QED BY <1>2, BankInit, BankNext, PTL
  DEF Bank!Spec, FirstDumpsStay, Bank!FirstDumpsStay
-----------------------------------------------------------------------------
(***************************************************************************)
(* Shutdown.  An order is given by a task of permission level 2 and never  *)
(* withdrawn; an SGI 8 comes from a core whose own end is behind it.       *)
(***************************************************************************)
StopTypeOK ==
  /\ valid \in [Stop!Core -> BOOLEAN] /\ powerful \in [Stop!Core -> BOOLEAN]
  /\ DOMAIN order = Stop!Core
  /\ sender \in [Stop!Core -> Stop!Core \union {-1}]
  /\ DOMAIN spc = Stop!Core

Authority == \E r \in Stop!Core : order[r] # "none" /\ powerful[r]

\* Strengthening: a pending SGI has an authority too, and a core that has come
\* as far as its SGI has given up its context.
StopInv ==
  /\ StopTypeOK
  /\ Stop!StopsOnlyByAuthority
  /\ \A c \in Stop!Core : sender[c] # -1 => Authority
  /\ \A c \in Stop!Core : spc[c] \in Stop!Ended => ~valid[c]
  /\ Stop!RequesterEndsFirst

LEMMA StopInit == Stop!Init => StopInv
  BY DEF Stop!Init, StopInv, StopTypeOK, Stop!StopsOnlyByAuthority,
         Stop!RequesterEndsFirst, Stop!Ended

\* A step of a core that has been ordered, or called by an SGI, to stop: it
\* leaves the orders and the SGIs alone.
LEMMA StopOnward ==
  ASSUME StopInv, NEW c \in Stop!Core, Authority,
         UNCHANGED <<powerful, order, sender>>,
         valid' = valid \/ valid' = [valid EXCEPT ![c] = FALSE],
         NEW to, spc' = [spc EXCEPT ![c] = to],
         spc[c] \in Stop!Ended => to \in Stop!Ended,
         to \in Stop!Ended => ~valid'[c]
  PROVE  StopInv'
<1>1. StopTypeOK' /\ Authority'
  BY DEF StopInv, StopTypeOK, Authority
<1>2. \A d \in Stop!Core : ~valid[d] => ~valid'[d]
  BY DEF StopInv, StopTypeOK
<1>3. \A d \in Stop!Core : spc[d] \in Stop!Ended => spc'[d] \in Stop!Ended
  BY DEF StopInv, StopTypeOK
<1>4. Stop!StopsOnlyByAuthority'
  BY <1>1 DEF Stop!StopsOnlyByAuthority, Authority
<1>5. \A d \in Stop!Core : spc'[d] \in Stop!Ended => ~valid'[d]
  BY <1>2 DEF StopInv, StopTypeOK
<1>6. Stop!RequesterEndsFirst'
  <2> SUFFICES ASSUME NEW d \in Stop!Core, sender[d] # -1
               PROVE  spc'[sender[d]] \in Stop!Ended /\ ~valid'[sender[d]]
    BY DEF Stop!RequesterEndsFirst, Stop!Ended
  <2>1. sender[d] \in Stop!Core
    BY DEF StopInv, StopTypeOK
  <2> QED BY <1>2, <1>3, <2>1 DEF StopInv, Stop!RequesterEndsFirst
<1> QED BY <1>1, <1>4, <1>5, <1>6 DEF StopInv

LEMMA RequestInv ==
  ASSUME StopInv, NEW c \in Stop!Core, NEW what \in {"shutdown", "reboot"},
         Stop!Request(c, what)
  PROVE  StopInv'
<1>1. /\ spc[c] = "task" /\ powerful[c] /\ order' = [order EXCEPT ![c] = what]
      /\ spc' = [spc EXCEPT ![c] = "clear_load"]
      /\ UNCHANGED <<valid, powerful, sender>>
  BY DEF Stop!Request, Stop!Goto
<1>2. StopTypeOK' /\ Authority'
  BY <1>1 DEF StopInv, StopTypeOK, Authority
<1>3. /\ "clear_load" \notin Stop!Ended /\ "task" \notin Stop!Ended
      /\ \A d \in Stop!Core : d # c => spc'[d] = spc[d]
      /\ spc'[c] = "clear_load"
  BY <1>1 DEF StopInv, StopTypeOK, Stop!Ended
<1>4. Stop!RequesterEndsFirst'
  <2> SUFFICES ASSUME NEW d \in Stop!Core, sender[d] # -1
               PROVE  spc'[sender[d]] \in Stop!Ended /\ ~valid[sender[d]]
    BY <1>1 DEF Stop!RequesterEndsFirst
  <2>1. /\ sender[d] \in Stop!Core
        /\ spc[sender[d]] \in Stop!Ended /\ ~valid[sender[d]]
    BY DEF StopInv, StopTypeOK, Stop!RequesterEndsFirst
  <2> QED BY <1>1, <1>3, <2>1
<1> QED BY <1>1, <1>2, <1>3, <1>4 DEF StopInv, Stop!StopsOnlyByAuthority, Authority

LEMMA BroadcastInv ==
  ASSUME StopInv, NEW c \in Stop!Core, Stop!Broadcast(c)
  PROVE  StopInv'
<1>1. /\ spc[c] = "broadcast" /\ spc' = [spc EXCEPT ![c] = "poll"]
      /\ sender' = [d \in Stop!Core |->
                      IF d # c /\ sender[d] = -1 THEN c ELSE sender[d]]
      /\ UNCHANGED <<valid, powerful, order>>
  BY DEF Stop!Broadcast, Stop!Goto
<1>2. Authority
  BY <1>1 DEF StopInv, Stop!StopsOnlyByAuthority, Authority
<1>3. ~valid[c] /\ "poll" \in Stop!Ended
  BY <1>1 DEF StopInv, Stop!Ended
<1>4. StopTypeOK' /\ Authority'
  BY <1>1, <1>2 DEF StopInv, StopTypeOK, Authority
<1>5. \A d \in Stop!Core : spc[d] \in Stop!Ended => spc'[d] \in Stop!Ended
  BY <1>1, <1>3 DEF StopInv, StopTypeOK
<1>6. \A d \in Stop!Core : spc'[d] \in Stop!Ended => ~valid'[d]
  BY <1>1, <1>3 DEF StopInv, StopTypeOK
<1>7. Stop!RequesterEndsFirst'
  <2> SUFFICES ASSUME NEW d \in Stop!Core, sender'[d] # -1
               PROVE  spc'[sender'[d]] \in Stop!Ended /\ ~valid'[sender'[d]]
    BY DEF Stop!RequesterEndsFirst, Stop!Ended
  <2>1. CASE sender'[d] = c
    BY <1>1, <1>3, <2>1 DEF StopInv, StopTypeOK
  <2>2. CASE sender'[d] = sender[d]
    <3>1. sender[d] \in Stop!Core
      BY <2>2 DEF StopInv, StopTypeOK
    <3> QED BY <1>1, <1>5, <2>2, <3>1 DEF StopInv, Stop!RequesterEndsFirst
  <2> QED BY <1>1, <2>1, <2>2
<1> QED
  BY <1>4, <1>6, <1>7 DEF StopInv, Stop!StopsOnlyByAuthority, Authority

LEMMA StepInv ==
  ASSUME StopInv, NEW c \in Stop!Core, Stop!Step(c)
  PROVE  StopInv'
<1> USE DEF Stop!Goto, Stop!Ended
<1>1. ASSUME spc[c] # "task"
      PROVE  Authority
  BY <1>1 DEF StopInv, Stop!StopsOnlyByAuthority, Authority
<1>2. CASE Stop!ClearLoad(c) \/ Stop!SetLoad(c)
  BY <1>1, <1>2, StopOnward DEF Stop!ClearLoad, Stop!SetLoad, Stop!Load
<1>3. CASE Stop!ClearStore(c) \/ Stop!SetStore(c)
  BY <1>1, <1>3, StopOnward DEF Stop!ClearStore, Stop!SetStore, Stop!Store
<1>4. CASE Stop!Invalidate(c)
  <2>1. /\ spc[c] = "invalidate" /\ valid' = [valid EXCEPT ![c] = FALSE]
        /\ UNCHANGED <<powerful, order, sender>> /\ ~valid'[c]
        /\ \E to : spc' = [spc EXCEPT ![c] = to]
    BY <1>4 DEF Stop!Invalidate, StopInv, StopTypeOK
  <2> QED BY <1>1, <2>1, StopOnward
<1>5. CASE Stop!Broadcast(c)
  BY <1>5, BroadcastInv
<1>6. CASE Stop!TakeSgi(c)
  <2>1. /\ spc[c] = "task" /\ sender[c] # -1
        /\ UNCHANGED <<valid, powerful, order, sender>>
        /\ \E to \in {"clear_load", "handler"} : spc' = [spc EXCEPT ![c] = to]
    BY <1>6 DEF Stop!TakeSgi
  <2>2. Authority
    BY <2>1 DEF StopInv
  <2> QED BY <2>1, <2>2, StopOnward
<1>7. CASE Stop!Poll(c)
  <2>1. /\ spc[c] = "poll" /\ UNCHANGED <<valid, powerful, order, sender>>
        /\ \E to \in {"powered_off", "poll"} : spc' = [spc EXCEPT ![c] = to]
    BY <1>7 DEF Stop!Poll
  <2>2. ~valid'[c]
    BY <2>1 DEF StopInv
  <2> QED BY <1>1, <2>1, <2>2, StopOnward
<1> QED BY <1>2, <1>3, <1>4, <1>5, <1>6, <1>7 DEF Stop!Step, Stop!CoreTerminate

LEMMA StopNext ==
  ASSUME StopInv, [Stop!Next]_Stop!vars
  PROVE  StopInv'
<1>1. CASE UNCHANGED Stop!vars
  BY <1>1
  DEF StopInv, StopTypeOK, Stop!StopsOnlyByAuthority, Stop!RequesterEndsFirst,
      Stop!vars, Stop!Ended, Authority
<1> QED BY <1>1, RequestInv, StepInv DEF Stop!Next

\* svc.c:546, 573: no core ever stops without an order of permission level 2,
\* on any number of cores.
THEOREM StopsByAuthority == Stop!Spec => []StopsOnlyByAuthority
<1>1. StopInv => StopsOnlyByAuthority
  BY DEF StopInv, StopsOnlyByAuthority
<1> QED BY <1>1, StopInit, StopNext, PTL DEF Stop!Spec

\* svc.c:549-550: a core that others hear of has ended its own task.
THEOREM RequesterHasEnded == Stop!Spec => []RequesterEndsFirst
<1>1. StopInv => RequesterEndsFirst
  BY DEF StopInv, RequesterEndsFirst
<1> QED BY <1>1, StopInit, StopNext, PTL DEF Stop!Spec

\* A round of comparisons counts at most one byte, the first: a word that is 0
\* there is not the wanted one, whatever its other byte is.
StopCounts ==
  /\ DOMAIN spc = Stop!Core
  /\ asked \in [Stop!Core -> Stop!Core]
  /\ matched \in [Stop!Core -> {0, 1}]
  /\ \A c \in Stop!Core : asked[c] = 0 => matched[c] = 0
  /\ NeverPoweredOff

LEMMA OnlyTheFirstByte ==
  ASSUME NEW c, NEW i \in Stop!Core \ {0}, NEW e
  PROVE  Stop!OnlyByte(i, e) # Stop!OnlyByte(0, Stop!Wanted(c))
<1>1. 0 \in Stop!Core
  BY CorePartsAssumption DEF Stop!ShutdownAssumption, Stop!Core
<1>2. Stop!OnlyByte(i, e)[0] = 0
  BY <1>1 DEF Stop!OnlyByte
<1>3. Stop!OnlyByte(0, Stop!Wanted(c))[0] # 0
  BY <1>1 DEF Stop!OnlyByte, Stop!Wanted
<1> QED BY <1>2, <1>3

LEMMA PollCounts ==
  ASSUME StopCounts, NEW c \in Stop!Core, Stop!Poll(c)
  PROVE  StopCounts'
<1> DEFINE i     == asked[c]
           found == matched[c] + IF Stop!OnlyByte(i, byte[i]) = Stop!OnlyByte(0, Stop!Wanted(c))
                                 THEN 1 ELSE 0
<1>1. /\ asked' = [asked EXCEPT ![c] = (i + 1) % K]
      /\ matched' = [matched EXCEPT ![c] = IF i = K - 1 THEN 0 ELSE found]
      /\ spc' = [spc EXCEPT ![c] = IF i = K - 1 /\ found = K THEN "powered_off" ELSE "poll"]
  BY DEF Stop!Poll, Stop!Goto
<1>2. /\ K \in Nat /\ K >= 2 /\ i \in 0..K-1 /\ matched[c] \in {0, 1}
      /\ i = 0 => matched[c] = 0
  BY CorePartsAssumption DEF Stop!ShutdownAssumption, StopCounts, Stop!Core
<1>3. found \in {0, 1} /\ (i # 0 => found = matched[c])
  BY <1>2, OnlyTheFirstByte DEF Stop!Core
<1> HIDE DEF found
<1>4. (i + 1) % K \in Stop!Core /\ ((i + 1) % K = 0 => i = K - 1)
  <2>1. CASE i = K - 1
    BY <1>2, <2>1 DEF Stop!Core
  <2>2. CASE i # K - 1
    <3>1. i + 1 \in 1..K-1 /\ (i + 1) % K = i + 1
      BY <1>2, <2>2
    <3> QED BY <1>2, <3>1 DEF Stop!Core
  <2> QED BY <2>1, <2>2
<1>5. spc' = [spc EXCEPT ![c] = "poll"]
  <2>1. found # K
    BY <1>2, <1>3
  <2> QED BY <1>1, <2>1
<1>6. /\ asked' \in [Stop!Core -> Stop!Core]
      /\ matched' \in [Stop!Core -> {0, 1}]
      /\ asked'[c] = 0 => matched'[c] = 0
  BY <1>1, <1>3, <1>4 DEF StopCounts
<1>7. \A d \in Stop!Core \ {c} : asked'[d] = asked[d] /\ matched'[d] = matched[d]
  BY <1>1 DEF StopCounts
<1> QED
  BY <1>5, <1>6, <1>7 DEF StopCounts, NeverPoweredOff, Stop!NeverPoweredOff

\* No other step counts, or ends where the machine is switched off.
LEMMA StopCountsNext ==
  ASSUME StopCounts, [Stop!Next]_Stop!vars
  PROVE  StopCounts'
<1> USE DEF Stop!Goto
<1>1. SUFFICES ASSUME UNCHANGED <<asked, matched>>,
                      UNCHANGED spc \/ \E c \in Stop!Core : \E to :
                        to # "powered_off" /\ spc' = [spc EXCEPT ![c] = to]
               PROVE  StopCounts'
  <2>1. CASE UNCHANGED Stop!vars
    BY <1>1, <2>1 DEF Stop!vars
  <2>2. ASSUME NEW c \in Stop!Core, NEW what, Stop!Request(c, what)
        PROVE  StopCounts'
    BY <1>1, <2>2 DEF Stop!Request
  <2>3. ASSUME NEW c \in Stop!Core, Stop!CoreTerminate(c)
        PROVE  StopCounts'
    BY <1>1, <2>3
    DEF Stop!CoreTerminate, Stop!ClearLoad, Stop!ClearStore, Stop!SetLoad,
        Stop!SetStore, Stop!Load, Stop!Store, Stop!Invalidate
  <2>4. ASSUME NEW c \in Stop!Core, Stop!Broadcast(c) \/ Stop!TakeSgi(c)
        PROVE  StopCounts'
    BY <1>1, <2>4 DEF Stop!Broadcast, Stop!TakeSgi
  <2> QED BY <2>1, <2>2, <2>3, <2>4, PollCounts DEF Stop!Next, Stop!Step
<1> QED BY <1>1 DEF StopCounts, NeverPoweredOff, Stop!NeverPoweredOff

\* svc.c:552-564, 579-591: no order of requests, signals and comparisons ever
\* switches the machine off, on any number of cores.
THEOREM NothingSwitchesOff == Stop!Spec => []NeverPoweredOff
<1>1. Stop!Init => StopCounts
  BY CorePartsAssumption
  DEF Stop!ShutdownAssumption, Stop!Init, Stop!Core, StopCounts, NeverPoweredOff,
      Stop!NeverPoweredOff
<1>2. StopCounts => NeverPoweredOff
  BY DEF StopCounts
<1> QED BY <1>1, <1>2, StopCountsNext, PTL DEF Stop!Spec

-----------------------------------------------------------------------------
\* The behaviours in which one part runs and the others stay as they are are
\* behaviours of each of them, so that what is proved of a part holds in all.
THEOREM CorePartsImplement == PartsSpec => Stop!Spec /\ Abort!Spec /\ Bank!Spec
<1>1. PartsInit => Stop!Init /\ Abort!Init /\ Bank!Init
  BY DEF PartsInit
<1>2. ASSUME [PartsNext]_partsVars
      PROVE  [Stop!Next]_Stop!vars /\ [Abort!Next]_Abort!vars /\ [Bank!Next]_Bank!vars
  <2>1. /\ Stop!Next \/ UNCHANGED stopVars
        /\ Abort!Next \/ UNCHANGED abortVars
        /\ Bank!Next \/ UNCHANGED bankVars
    BY <1>2 DEF PartsNext, Only, partsVars
  <2>2. /\ UNCHANGED stopVars => UNCHANGED Stop!vars
        /\ UNCHANGED abortVars => UNCHANGED Abort!vars
        /\ UNCHANGED bankVars => UNCHANGED Bank!vars
    BY DEF stopVars, abortVars, bankVars, Stop!vars, Abort!vars, Bank!vars
  <2> QED BY <2>1, <2>2
<1> QED BY <1>1, <1>2, PTL DEF PartsSpec, Stop!Spec, Abort!Spec, Bank!Spec
=============================================================================
