----------------------------- MODULE LockProofs -----------------------------
(***************************************************************************)
(* Proofs about the mutex routines and about the kernel's way of calling   *)
(* them, for every set of cores and every range of the word, and about the *)
(* parts that the cores share beside them: the registers of the interrupt  *)
(* controller and the router, the ids of address spaces, and the registers *)
(* of the mini UART.                                                       *)
(***************************************************************************)
EXTENDS KernelLock, Parts, Integers, TLAPS

-----------------------------------------------------------------------------
(* The routines, called in any order.                                      *)

\* The inductive invariant: a word with a winner is not free, and an armed
\* store of clear_mutex faces a free word.
MutexInv ==
  /\ TypeOK
  /\ OneWinner
  /\ winners # {} => lock # 0
  /\ \A c \in Core : (pc[c] = "clear" /\ c \in monitor) => lock = 0

LEMMA MutexInit == Init => MutexInv
  BY DEF Init, MutexInv, TypeOK, OneWinner

LEMMA EnterPreserves ==
  ASSUME MutexInv, NEW c \in Core, NEW entry \in {"gain", "release", "spinwait"},
         Enter(c, entry)
  PROVE  MutexInv'
  BY DEF MutexInv, TypeOK, OneWinner, Enter, Goto

LEMMA GainPreserves ==
  ASSUME MutexInv, NEW c \in Core, GainCas(c)
  PROVE  MutexInv'
<1> USE DEF MutexInv, Goto, Return
<1>1. TypeOK'
  BY WordAssumption DEF TypeOK, GainCas
<1>2. CASE lock = 0
  <2>1. winners = {} /\ winners' = {c} /\ lock' = 1 /\ monitor' = {}
    BY <1>2 DEF GainCas
  <2> QED BY <1>1, <2>1 DEF OneWinner
<1>3. CASE lock # 0
  BY <1>1, <1>3 DEF GainCas, OneWinner, TypeOK
<1> QED BY <1>2, <1>3

LEMMA ReleasePreserves ==
  ASSUME MutexInv, NEW c \in Core, ReleaseLoad(c)
  PROVE  MutexInv'
  BY DEF MutexInv, TypeOK, OneWinner, ReleaseLoad, Goto, Return

LEMMA ClearPreserves ==
  ASSUME MutexInv, NEW c \in Core, ClearStore(c)
  PROVE  MutexInv'
  BY DEF MutexInv, TypeOK, OneWinner, ClearStore

LEMMA SpinwaitPreserves ==
  ASSUME MutexInv, NEW c \in Core, SpinwaitLoad(c)
  PROVE  MutexInv'
  BY DEF MutexInv, TypeOK, OneWinner, SpinwaitLoad, vars

LEMMA MutexNext == MutexInv /\ [Next]_vars => MutexInv'
<1> SUFFICES ASSUME MutexInv, [Next]_vars
             PROVE  MutexInv'
  OBVIOUS
<1>1. ASSUME NEW c \in Core, Step(c)
      PROVE  MutexInv'
  BY <1>1, GainPreserves, ReleasePreserves, ClearPreserves, SpinwaitPreserves DEF Step
<1>2. CASE UNCHANGED vars
  BY <1>2 DEF vars, MutexInv, TypeOK, OneWinner
<1> QED BY <1>1, <1>2, EnterPreserves DEF Next

LEMMA MutexInvHolds == Spec => []MutexInv
  BY MutexInit, MutexNext, PTL DEF Spec

\* gain_mutex (softwarelock.s:4-18) answers 0 to at most one core in the life
\* of a word, however the calls of the three routines interleave.
THEOREM AtMostOneWinner == Spec => []OneWinner
<1>1. MutexInv => OneWinner
  BY DEF MutexInv
<1> QED BY <1>1, MutexInvHolds, PTL

\* No routine of softwarelock.s:4-58 ever changes a mutex word that is not
\* free.
THEOREM NeverFreed == Spec => HeldStaysHeld
<1>1. MutexInv /\ [Next]_vars => [lock # 0 => lock' = lock]_vars
  BY DEF MutexInv, Next, vars, Enter, Step, GainCas, ReleaseLoad, ClearStore, SpinwaitLoad
<1> QED BY <1>1, MutexInvHolds, PTL DEF Spec, HeldStaysHeld

-----------------------------------------------------------------------------
(* The kernel's loop around them.                                          *)

\* What a core at each place of the loop knows.
Place(c) ==
  /\ site[c] = "outside" => pc[c] = "out"
  /\ site[c] = "gaining" => \/ pc[c] = "gain" /\ c \notin winners
                            \/ pc[c] = "out" /\ answer[c] = "ok"
                            \/ pc[c] = "out" /\ answer[c] = "failed" /\ lock # 0 /\ c \notin winners
  /\ site[c] = "waiting" => pc[c] = "spinwait"
  /\ site[c] = "critical" => pc[c] = "out" /\ lock # 0
  /\ site[c] = "releasing" => pc[c] \in {"release", "out"} /\ lock # 0
  /\ c \in winners => \/ site[c] = "gaining" /\ pc[c] = "out" /\ answer[c] = "ok"
                      \/ site[c] = "waiting"

LoopInv == MutexInv /\ KTypeOK /\ \A c \in Core : Place(c)

LEMMA LoopInit == KInit => LoopInv
  BY MutexInit DEF KInit, Init, LoopInv, KTypeOK, Place, MutexInv

\* Every step of the loop is a step of the routines or leaves them alone.
LEMMA LoopSteps ==
  ASSUME LoopInv, NEW c \in Core, TryGain(c) \/ Progress(c)
  PROVE  MutexInv'
<1>1. MutexInv
  BY DEF LoopInv
<1>2. [Next]_vars
  <2>1. CASE UNCHANGED vars
    BY <2>1
  <2>2. CASE \E entry \in {"gain", "release", "spinwait"} : Enter(c, entry)
    BY <2>2 DEF Next
  <2>3. CASE Step(c)
    BY <2>3 DEF Next
  <2> QED
    BY <2>1, <2>2, <2>3 DEF TryGain, Progress, LoopTest, Leave, Left, Inside, Step
<1> QED BY <1>1, <1>2, MutexNext

LEMMA LoopTypes ==
  ASSUME LoopInv, NEW c \in Core, TryGain(c) \/ Progress(c)
  PROVE  KTypeOK'
<1>1. TypeOK'
  BY LoopSteps DEF MutexInv
<1>2. site' \in [Core -> {"outside", "gaining", "waiting", "critical", "releasing"}]
  BY DEF LoopInv, KTypeOK, TryGain, Progress, LoopTest, Leave, Left, Inside, Move
<1> QED BY <1>1, <1>2 DEF KTypeOK

LEMMA TryGainPlaces ==
  ASSUME LoopInv, NEW c \in Core, TryGain(c)
  PROVE  \A d \in Core : Place(d)'
<1> SUFFICES ASSUME NEW d \in Core PROVE Place(d)'
  OBVIOUS
<1> QED
  BY DEF LoopInv, KTypeOK, TypeOK, Place, TryGain, Move, Enter, Goto

LEMMA LoopTestPlaces ==
  ASSUME LoopInv, NEW c \in Core, LoopTest(c)
  PROVE  \A d \in Core : Place(d)'
<1> SUFFICES ASSUME NEW d \in Core PROVE Place(d)'
  OBVIOUS
<1> QED
  BY DEF LoopInv, KTypeOK, TypeOK, Place, LoopTest, Move, Enter, Goto, vars

LEMMA LeavePlaces ==
  ASSUME LoopInv, NEW c \in Core, Leave(c) \/ Left(c)
  PROVE  \A d \in Core : Place(d)'
<1> SUFFICES ASSUME NEW d \in Core PROVE Place(d)'
  OBVIOUS
<1> QED
  BY DEF LoopInv, KTypeOK, TypeOK, Place, Leave, Left, Move, Enter, Goto, vars

LEMMA InsidePlaces ==
  ASSUME LoopInv, NEW c \in Core, Inside(c)
  PROVE  \A d \in Core : Place(d)'
<1> SUFFICES ASSUME NEW d \in Core PROVE Place(d)'
  OBVIOUS
<1> USE DEF LoopInv, KTypeOK, TypeOK, Place, Inside
<1>1. CASE GainCas(c)
  <2>1. site[c] = "gaining"
    BY <1>1 DEF GainCas
  <2>2. CASE d = c
    BY <1>1, <2>1, <2>2 DEF GainCas, Goto, Return
  <2>3. CASE d # c
    <3>1. pc'[d] = pc[d] /\ answer'[d] = answer[d] /\ site'[d] = site[d]
      BY <1>1, <2>3 DEF GainCas, Goto, Return
    <3>2. (lock # 0 => lock' # 0) /\ (d \in winners' => d \in winners)
      BY <1>1, <2>3 DEF GainCas
    <3>3. d \in winners => d \in winners'
      BY <1>1 DEF GainCas
    <3> QED BY <3>1, <3>2, <3>3
  <2> QED BY <2>2, <2>3
<1>2. CASE ReleaseLoad(c)
  BY <1>2 DEF ReleaseLoad, Goto, Return
<1>3. CASE SpinwaitLoad(c)
  BY <1>3 DEF SpinwaitLoad, vars
<1> QED BY <1>1, <1>2, <1>3

LEMMA LoopNext == LoopInv /\ [KNext]_kvars => LoopInv'
<1> SUFFICES ASSUME LoopInv, [KNext]_kvars
             PROVE  LoopInv'
  OBVIOUS
<1>1. ASSUME NEW c \in Core, TryGain(c) \/ Progress(c)
      PROVE  LoopInv'
  BY <1>1, LoopSteps, LoopTypes, TryGainPlaces, LoopTestPlaces, LeavePlaces, InsidePlaces
  DEF LoopInv, Progress
<1>2. CASE UNCHANGED kvars
  <2>1. UNCHANGED vars /\ site' = site
    BY <1>2 DEF kvars
  <2> QED
    BY <2>1 DEF vars, LoopInv, MutexInv, KTypeOK, TypeOK, OneWinner, Place
<1> QED BY <1>1, <1>2 DEF KNext

\* With the kernel's loop (schaduler.c:84-87 and the other places), whatever
\* the number of cores and whatever the word held at power on, a critical
\* section is only ever entered by cores that did not gain the word, and the
\* core that did is still in the loop.
THEOREM NobodyInsideHoldsTheLock == KSpec => []InsideWithoutLock
<1>1. LoopInv => InsideWithoutLock
  BY DEF LoopInv, Place, InsideWithoutLock
<1> QED BY LoopInit, LoopNext, <1>1, PTL DEF KSpec

-----------------------------------------------------------------------------
(* The routing of interrupts.                                              *)

\* An acknowledged value above 1023 is that of an SGI with its sender, and the
\* one interrupt that is sent to the routine of the SGIs is 30.
Routed ==
  /\ DOMAIN ipc = Cores
  /\ x0 \in [Cores -> Nat]
  /\ \A c \in Cores : x0[c] > 1023 => x0[c] % 1024 < 16
  /\ NoneIsAnswered

LEMMA EntryCases ==
  ASSUME NEW i \in Nat
  PROVE  Irq!Entry(i) = IF i = 30 THEN 4 ELSE 5
  BY DEF Irq!Entry, Irq!Cset

LEMMA TakeRouted ==
  ASSUME Routed, NEW c \in Cores, Irq!Take(c)
  PROVE  Routed'
<1>1. PICK i \in Id, sender \in 0..3 :
        x0' = [x0 EXCEPT ![c] = IF i < 16 THEN i + 1024 * sender ELSE i]
  BY DEF Irq!Take
<1>2. i \in 0..1023
  BY PartsAssumption DEF Irq!InterruptsAssumption
<1>3. x0'[c] \in Nat /\ (x0'[c] > 1023 => x0'[c] % 1024 < 16)
  <2>1. CASE i < 16
    <3>1. x0'[c] = i + 1024 * sender
      BY <1>1, <2>1 DEF Routed
    <3>2. (i + 1024 * sender) % 1024 = i
      BY <1>2, <2>1
    <3> QED BY <1>2, <2>1, <3>1, <3>2
  <2>2. CASE ~(i < 16)
    BY <1>1, <1>2, <2>2 DEF Routed
  <2> QED BY <2>1, <2>2
<1>4. ipc' = [ipc EXCEPT ![c] = "router"]
  BY DEF Irq!Take, Irq!Goto
<1>5. x0' \in [Cores -> Nat]
  <2> DEFINE value == IF i < 16 THEN i + 1024 * sender ELSE i
  <2>1. x0' = [x0 EXCEPT ![c] = value] /\ value \in Nat
    BY <1>1, <1>2
  <2> HIDE DEF value
  <2> QED BY <2>1 DEF Routed
<1>6. \A d \in Cores \ {c} : x0'[d] = x0[d]
  BY <1>1 DEF Routed
<1>7. \A d \in Cores : x0'[d] > 1023 => x0'[d] % 1024 < 16
  BY <1>3, <1>6 DEF Routed
<1>8. NoneIsAnswered'
  BY <1>4, <1>6 DEF Routed, NoneIsAnswered, Irq!NoneIsAnswered
<1> QED BY <1>4, <1>5, <1>7, <1>8 DEF Routed

LEMMA RouteRouted ==
  ASSUME Routed, NEW c \in Cores, Irq!Route(c)
  PROVE  Routed'
<1>1. x0[c] \in Nat /\ x0[c] % 1024 \in Nat /\ UNCHANGED x0
  BY DEF Routed, Irq!Route
<1>2. Irq!Entry(x0[c] % 1024) = IF x0[c] % 1024 = 30 THEN 4 ELSE 5
  BY <1>1, EntryCases
<1>3. x0[c] % 1024 = 30 => x0[c] = 30
  BY <1>1 DEF Routed
<1>4. \/ x0[c] = 30 /\ ipc' = [ipc EXCEPT ![c] = "sgi_main_routine"]
      \/ ipc' = [ipc EXCEPT ![c] = "beyond"]
  <2>1. CASE x0[c] % 1024 = 30
    <3>1. Irq!Entry(x0[c] % 1024) = 4
      BY <1>2, <2>1
    <3>2. ipc' = [ipc EXCEPT ![c] = "sgi_main_routine"]
      BY <3>1 DEF Irq!Route, Irq!Goto, Irq!Routines
    <3> QED BY <1>3, <2>1, <3>2
  <2>2. CASE x0[c] % 1024 # 30
    <3>1. Irq!Entry(x0[c] % 1024) = 5
      BY <1>2, <2>2
    <3>2. ipc' = [ipc EXCEPT ![c] = "beyond"]
      BY <3>1 DEF Irq!Route, Irq!Goto, Irq!Routines
    <3> QED BY <3>2
  <2> QED BY <2>1, <2>2
<1> QED BY <1>1, <1>4 DEF Routed, NoneIsAnswered, Irq!NoneIsAnswered

\* The calls that set the priorities, and the end of a routine.
LEMMA OtherRouted ==
  ASSUME Routed, NEW c \in Cores, Irq!SetUp(c) \/ Irq!Serve(c)
  PROVE  Routed'
<1> USE DEF Irq!Goto
<1>1. CASE Irq!SetUp(c)
  <2>1. UNCHANGED x0 /\ \E label \in {"call", "task", "and_load", "and_store",
                                      "or_load", "or_store"} : ipc' = [ipc EXCEPT ![c] = label]
    BY <1>1 DEF Irq!SetUp, Irq!Begin, Irq!AndLoad, Irq!AndStore, Irq!OrLoad, Irq!OrStore,
                Irq!Load, Irq!Store, Irq!NextCall
  <2> QED BY <2>1 DEF Routed, NoneIsAnswered, Irq!NoneIsAnswered
<1>2. CASE Irq!Serve(c)
  <2>1. ipc' = [ipc EXCEPT ![c] = "task"] /\ x0' = [x0 EXCEPT ![c] = 0]
    BY <1>2 DEF Irq!Serve
  <2> QED BY <2>1 DEF Routed, NoneIsAnswered, Irq!NoneIsAnswered
<1> QED BY <1>1, <1>2

LEMMA RoutedNext ==
  ASSUME Routed, [Irq!Next]_Irq!vars
  PROVE  Routed'
<1>1. CASE UNCHANGED Irq!vars
  BY <1>1 DEF Irq!vars, Routed, NoneIsAnswered, Irq!NoneIsAnswered
<1> QED BY <1>1, TakeRouted, RouteRouted, OtherRouted DEF Irq!Next

\* boot.s:353-376: for any interrupts, any senders and any number of cores, no
\* interrupt reaches its own routine, and only 30 reaches one of the table.
THEOREM NoInterruptIsAnswered == Irq!Spec => []NoneIsAnswered
<1>1. Irq!Init => Routed
  BY DEF Irq!Init, Irq!Zero, Routed, NoneIsAnswered, Irq!NoneIsAnswered
<1>2. Routed => NoneIsAnswered
  BY DEF Routed
<1> QED BY <1>1, <1>2, RoutedNext, PTL DEF Irq!Spec

-----------------------------------------------------------------------------
(* The priorities of interrupts.                                           *)

Block   == (lines + 1) \div 32
Kept(c) == first[c] \intersect Irq!Shifted(0..7)
Asked   == Irq!Shifted(IF Block < 2 THEN {7, 5} ELSE {7, 5, 4})
Ones    == Irq!Shifted(IF Block < 3 THEN {7, 5} ELSE {7, 5, 4})
Bits(c) == Irq!Shifted(Irq!Calls[call[c]].priority)

\* The cores that find in the register what core c stores.
Sharers(c) == IF Irq!Banked THEN {c} ELSE Cores

Between   == {"and_load", "and_store", "or_load", "or_store"}
SettingUp == {"call"} \union Between

\* The first call that does anything is behind the clearing store of c; the
\* last one that does is behind c altogether.
Cleared(c) ==
  \/ ipc[c] \in {"or_load", "or_store"} \/ ipc[c] \notin SettingUp
  \/ call[c] > IF Block < 2 THEN 3 ELSE IF Block = 2 THEN 2 ELSE 1
Through(c) == ipc[c] \notin SettingUp \/ (ipc[c] = "call" /\ call[c] = 4 /\ Block < 3)

IrqTypes ==
  /\ lines \in Nat
  /\ ipc = [c \in Cores |-> ipc[c]] /\ call \in [Cores -> 1..4]
  /\ reg = [c \in Cores |-> reg[c]] /\ loaded = [c \in Cores |-> loaded[c]]
  /\ \A c \in Cores, d \in Cores :
       d \in Sharers(c) => reg[d] = reg[c] /\ first[d] = first[c]
  /\ \A c \in Cores :
       ipc[c] \in Between => Irq!Calls[call[c]].id \div 32 <= Block

\* Of what was in the field nothing is lost, ...
KeptStays ==
  \A c \in Cores :
    /\ Kept(c) \subseteq reg[c]
    /\ ipc[c] \in {"and_store", "or_store"} => Kept(c) \subseteq loaded[c]

\* ... nothing else comes in but what is asked for, and nothing is left outside
\* of the field by the first clearing store, ...
NothingElse ==
  \A c \in Cores :
    /\ reg[c] \subseteq first[c] \union Asked
    /\ Cleared(c) => reg[c] \subseteq Kept(c) \union Asked
    /\ ipc[c] = "and_store" => loaded[c] \subseteq first[c] \union Asked
    /\ ipc[c] = "or_store" => loaded[c] \subseteq Kept(c) \union Asked

\* ... and the last store of all is one of the last call.
LastStore ==
  \A c \in Cores : (\A d \in Sharers(c) : Through(d)) => Ones \subseteq reg[c]

IrqInv == IrqTypes /\ KeptStays /\ NothingElse /\ LastStore

LEMMA Fixed ==
  ASSUME UNCHANGED <<lines, first>>
  PROVE  /\ Block' = Block /\ Asked' = Asked /\ Ones' = Ones
         /\ Irq!Banked' = Irq!Banked
         /\ Irq!Calls' = Irq!Calls
         /\ \A c \in Cores : Kept(c)' = Kept(c) /\ Sharers(c)' = Sharers(c)
  BY DEF Irq!Calls, Block, Asked, Ones, Kept, Sharers, Irq!Banked, Irq!Register, Irq!Shifted, Irq!Shift

LEMMA Sharing ==
  ASSUME IrqTypes, NEW c \in Cores, NEW d \in Sharers(c)
  PROVE  d \in Cores /\ c \in Sharers(d) /\ Kept(d) = Kept(c) /\ c \in Sharers(c)
  BY DEF IrqTypes, Sharers, Kept

\* The calls that do something, as far as the number of lines tells.
LEMMA CallBits ==
  ASSUME IrqTypes, NEW c \in Cores, Irq!Calls[call[c]].id \div 32 <= Block
  PROVE  /\ Bits(c) \subseteq Asked
         /\ call[c] = 4 \/ (call[c] = 3 /\ Block < 3) => Bits(c) = Ones
         /\ call[c] >= IF Block < 2 THEN 3 ELSE IF Block = 2 THEN 2 ELSE 1
<1>1. call[c] \in 1..4 /\ Block \in Int
  BY DEF IrqTypes, Block
<1>2. CASE call[c] = 1
  <2>1. Bits(c) = Irq!Shifted({7}) /\ Block >= 3
    BY <1>1, <1>2 DEF Bits, Irq!Calls
  <2>2. Asked = Irq!Shifted({7, 5, 4})
    BY <1>1, <2>1 DEF Asked
  <2> QED BY <1>1, <1>2, <2>1, <2>2 DEF Irq!Shifted
<1>3. CASE call[c] = 2
  <2>1. Bits(c) = Irq!Shifted({7, 4}) /\ Block >= 2
    BY <1>1, <1>3 DEF Bits, Irq!Calls
  <2> QED BY <1>1, <1>3, <2>1 DEF Asked, Irq!Shifted
<1>4. CASE call[c] = 3
  <2>1. Bits(c) = Irq!Shifted({7, 5})
    BY <1>4 DEF Bits, Irq!Calls
  <2> QED BY <1>1, <1>4, <2>1 DEF Asked, Ones, Irq!Shifted
<1>5. CASE call[c] = 4
  <2>1. Bits(c) = Irq!Shifted({7, 5, 4}) /\ Block >= 3
    BY <1>1, <1>5 DEF Bits, Irq!Calls
  <2> QED BY <1>1, <1>5, <2>1 DEF Asked, Ones, Irq!Shifted
<1> QED BY <1>1, <1>2, <1>3, <1>4, <1>5

LEMMA CallIds ==
  ASSUME IrqTypes, NEW c \in Cores
  PROVE  Irq!Calls[call[c]].id \in Nat /\ Block \in Int
<1>1. call[c] \in {1, 2, 3, 4} /\ Block \in Int
  BY DEF IrqTypes, Block
<1>2. \A n \in {1, 2, 3, 4} : Irq!Calls[n].id \in Nat
  BY DEF Irq!Calls
<1> QED BY <1>1, <1>2

LEMMA SkippedCall ==
  ASSUME IrqTypes, NEW c \in Cores, ~(Irq!Calls[call[c]].id \div 32 <= Block)
  PROVE  /\ call[c] # 3 /\ Block < 3
         /\ call[c] # 4 => call[c] + 1 <= IF Block < 2 THEN 3 ELSE 2
  BY DEF IrqTypes, Block, Irq!Calls

\* A step of c that stores nothing: if it takes c behind its clearing stores or
\* through its calls, c was there already.
LEMMA NothingStored ==
  ASSUME IrqInv, NEW c \in Cores, UNCHANGED <<lines, first, reg>>,
         NEW label, ipc' = [ipc EXCEPT ![c] = label],
         call' \in [Cores -> 1..4], \A d \in Cores \ {c} : call'[d] = call[d],
         loaded' = [loaded EXCEPT ![c] = loaded'[c]],
         Cleared(c)' => Cleared(c), Through(c)' => Through(c),
         label \in Between => Irq!Calls[call'[c]].id \div 32 <= Block,
         label \in {"and_store", "or_store"} => loaded'[c] = reg[c],
         label = "or_store" => Cleared(c)
  PROVE  IrqInv'
<1>1. \A d \in Cores \ {c} : /\ ipc'[d] = ipc[d] /\ loaded'[d] = loaded[d]
                             /\ Cleared(d)' = Cleared(d) /\ Through(d)' = Through(d)
  BY Fixed DEF IrqInv, IrqTypes, Cleared, Through
<1>2. ipc'[c] = label
  BY DEF IrqInv, IrqTypes
<1>3. IrqTypes'
  <2>1. \A d \in Cores : ipc'[d] \in Between => Irq!Calls[call'[d]].id \div 32 <= Block
    BY <1>1, <1>2 DEF IrqInv, IrqTypes
  <2>2. /\ ipc' = [d \in Cores |-> ipc'[d]] /\ reg' = [d \in Cores |-> reg'[d]]
        /\ loaded' = [d \in Cores |-> loaded'[d]]
    BY DEF IrqInv, IrqTypes
  <2> QED BY <2>1, <2>2, Fixed DEF IrqInv, IrqTypes
<1>4. KeptStays'
  BY <1>1, <1>2, Fixed DEF IrqInv, KeptStays
<1>5. NothingElse'
  BY <1>1, <1>2, Fixed DEF IrqInv, NothingElse
<1>6. LastStore'
  <2>1. SUFFICES ASSUME NEW d \in Cores, \A e \in Sharers(d) : Through(e)'
                 PROVE  Ones \subseteq reg[d]
    BY Fixed DEF LastStore
  <2>2. \A e \in Sharers(d) : Through(e)
    BY <1>1, <2>1, Sharing DEF IrqInv
  <2> QED BY <2>2 DEF IrqInv, LastStore
<1> QED BY <1>3, <1>4, <1>5, <1>6 DEF IrqInv

\* A step of c that stores: what was in the field is kept, nothing comes in but
\* what is asked for, and the last call leaves its bits.
LEMMA Stored ==
  ASSUME IrqInv, NEW c \in Cores, NEW bits, Irq!Store(c, bits), ipc[c] \in Between,
         Kept(c) \subseteq bits, bits \subseteq Kept(c) \union Asked,
         NEW label, ipc' = [ipc EXCEPT ![c] = label],
         label \notin {"and_store", "or_store"},
         call' \in [Cores -> 1..4], \A d \in Cores \ {c} : call'[d] = call[d],
         label \in Between => Irq!Calls[call'[c]].id \div 32 <= Block,
         Through(c)' => Ones \subseteq bits
  PROVE  IrqInv'
<1>1. UNCHANGED <<lines, first>> /\ loaded' = [loaded EXCEPT ![c] = {}]
  BY DEF Irq!Store
<1>2. \A d \in Cores : reg'[d] = IF d \in Sharers(c) THEN bits ELSE reg[d]
  BY DEF Irq!Store, Sharers, IrqInv, IrqTypes
<1>3. reg' = [d \in Cores |-> reg'[d]]
  BY DEF Irq!Store, IrqInv, IrqTypes
<1>4. \A d \in Cores \ {c} : /\ ipc'[d] = ipc[d] /\ loaded'[d] = loaded[d]
                             /\ Cleared(d)' = Cleared(d) /\ Through(d)' = Through(d)
  BY <1>1, Fixed DEF IrqInv, IrqTypes, Cleared, Through
<1>5. ipc'[c] = label
  BY DEF IrqInv, IrqTypes
<1>6. \A d \in Sharers(c) : d \in Cores /\ Kept(d) = Kept(c) /\ c \in Sharers(d)
  BY Sharing DEF IrqInv
<1>7. \A d \in Cores, e \in Cores : e \in Sharers(d) => (d \in Sharers(c) <=> e \in Sharers(c))
  BY DEF Sharers
<1>8. IrqTypes'
  <2>1. \A d \in Cores, e \in Cores : e \in Sharers(d) => reg'[e] = reg'[d] /\ first[e] = first[d]
    BY <1>2, <1>7 DEF IrqInv, IrqTypes
  <2>2. \A d \in Cores : ipc'[d] \in Between => Irq!Calls[call'[d]].id \div 32 <= Block
    BY <1>4, <1>5 DEF IrqInv, IrqTypes
  <2>3. /\ ipc' = [d \in Cores |-> ipc'[d]]
        /\ loaded' = [d \in Cores |-> loaded'[d]]
    BY <1>1 DEF IrqInv, IrqTypes
  <2> QED BY <1>1, <1>3, <2>1, <2>2, <2>3, Fixed DEF IrqInv, IrqTypes
<1>9. KeptStays'
  BY <1>1, <1>2, <1>4, <1>5, <1>6, Fixed DEF IrqInv, KeptStays
<1>10. NothingElse'
  <2>1. SUFFICES ASSUME NEW d \in Cores
                 PROVE  /\ reg'[d] \subseteq first[d] \union Asked
                        /\ Cleared(d)' => reg'[d] \subseteq Kept(d) \union Asked
                        /\ ipc'[d] = "and_store" => loaded'[d] \subseteq first[d] \union Asked
                        /\ ipc'[d] = "or_store" => loaded'[d] \subseteq Kept(d) \union Asked
    BY <1>1, Fixed DEF NothingElse
  <2>2. CASE d \in Sharers(c)
    <3>1. reg'[d] \subseteq Kept(d) \union Asked
      BY <1>2, <1>6, <2>2
    <3>2. Kept(d) \subseteq first[d]
      BY DEF Kept
    <3> QED BY <1>4, <1>5, <3>1, <3>2 DEF IrqInv, NothingElse
  <2>3. CASE d \notin Sharers(c)
    <3>1. d # c
      BY <2>3 DEF Sharers
    <3> QED BY <1>2, <1>4, <2>3, <3>1 DEF IrqInv, NothingElse
  <2> QED BY <2>2, <2>3
<1>11. LastStore'
  <2>1. SUFFICES ASSUME NEW d \in Cores, \A e \in Sharers(d) : Through(e)'
                 PROVE  Ones \subseteq reg'[d]
    BY <1>1, Fixed DEF LastStore
  <2>2. CASE d \in Sharers(c)
    BY <1>2, <1>6, <2>1, <2>2
  <2>3. CASE d \notin Sharers(c)
    <3>1. \A e \in Sharers(d) : e # c
      BY <2>3, Sharing DEF IrqInv
    <3>2. \A e \in Sharers(d) : Through(e)
      BY <1>4, <2>1, <3>1, Sharing DEF IrqInv
    <3> QED BY <1>2, <2>3, <3>2 DEF IrqInv, LastStore
  <2> QED BY <2>2, <2>3
<1> QED BY <1>8, <1>9, <1>10, <1>11 DEF IrqInv

LEMMA BeginInv ==
  ASSUME IrqInv, NEW c \in Cores, Irq!Begin(c)
  PROVE  IrqInv'
<1> USE DEF Irq!Goto, SettingUp, Between
<1>1. /\ ipc[c] = "call" /\ UNCHANGED <<lines, reg, loaded, first>>
      /\ call[c] \in 1..4 /\ loaded' = [loaded EXCEPT ![c] = loaded'[c]]
  BY DEF Irq!Begin, IrqInv, IrqTypes
<1>2. CASE ~(Irq!Calls[call[c]].id \div 32 <= Block)
  <2>1. /\ call' = [call EXCEPT ![c] = IF call[c] = 4 THEN 1 ELSE call[c] + 1]
        /\ ipc' = [ipc EXCEPT ![c] = IF call[c] = 4 THEN "task" ELSE "call"]
    <3>1. Irq!Calls[call[c]].id \div 32 > (lines + 1) \div 32
      BY <1>2, CallIds DEF IrqInv, Block
    <3> QED BY <3>1 DEF Irq!Begin, Irq!NextCall
  <2>2. /\ call[c] # 3 /\ Block < 3
        /\ call[c] # 4 => call[c] + 1 <= IF Block < 2 THEN 3 ELSE 2
    BY <1>2, SkippedCall DEF IrqInv
  <2>3. call' \in [Cores -> 1..4] /\ \A d \in Cores \ {c} : call'[d] = call[d]
    <3>1. (IF call[c] = 4 THEN 1 ELSE call[c] + 1) \in 1..4
      BY <1>1
    <3> QED BY <2>1, <3>1 DEF IrqInv, IrqTypes
  <2>4. CASE call[c] = 4
    <3>1. ipc' = [ipc EXCEPT ![c] = "task"]
      BY <2>1, <2>4
    <3>2. Cleared(c) /\ Through(c)
      BY <1>1, <2>2, <2>4 DEF Cleared, Through
    <3> QED BY <1>1, <2>3, <3>1, <3>2, NothingStored
  <2>5. CASE call[c] # 4
    <3>1. ipc' = [ipc EXCEPT ![c] = "call"] /\ ipc'[c] = "call" /\ call'[c] = call[c] + 1
      BY <2>1, <2>5 DEF IrqInv, IrqTypes
    <3>2. ~Cleared(c)'
      BY <1>1, <2>2, <2>5, <3>1, Fixed, CallIds DEF Cleared, IrqInv
    <3>3. ~Through(c)'
      BY <1>1, <2>2, <2>5, <3>1 DEF Through
    <3> QED BY <1>1, <2>3, <3>1, <3>2, <3>3, NothingStored
  <2> QED BY <2>4, <2>5
<1>3. CASE Irq!Calls[call[c]].id \div 32 <= Block
  <2>1. ipc' = [ipc EXCEPT ![c] = "and_load"] /\ UNCHANGED call
    <3>1. ~(Irq!Calls[call[c]].id \div 32 > (lines + 1) \div 32)
      BY <1>3, CallIds DEF IrqInv, Block
    <3> QED BY <3>1 DEF Irq!Begin
  <2>2. ipc'[c] = "and_load"
    BY <2>1 DEF IrqInv, IrqTypes
  <2>3. (Cleared(c)' => Cleared(c)) /\ ~Through(c)'
    BY <1>1, <2>1, <2>2, Fixed DEF Cleared, Through
  <2>4. call' \in [Cores -> 1..4]
    BY <2>1 DEF IrqInv, IrqTypes
  <2> QED BY <1>1, <1>3, <2>1, <2>3, <2>4, NothingStored
<1> QED BY <1>2, <1>3

LEMMA LoadsInv ==
  ASSUME IrqInv, NEW c \in Cores, Irq!AndLoad(c) \/ Irq!OrLoad(c)
  PROVE  IrqInv'
<1> USE DEF Irq!Goto, SettingUp, Between
<1>1. /\ \/ ipc[c] = "and_load" /\ ipc' = [ipc EXCEPT ![c] = "and_store"]
         \/ ipc[c] = "or_load" /\ ipc' = [ipc EXCEPT ![c] = "or_store"]
      /\ loaded' = [loaded EXCEPT ![c] = reg[c]]
      /\ UNCHANGED <<lines, reg, call, first>>
  BY DEF Irq!AndLoad, Irq!OrLoad, Irq!Load
<1>2. /\ call' \in [Cores -> 1..4] /\ loaded'[c] = reg[c]
      /\ Irq!Calls[call[c]].id \div 32 <= Block
  BY <1>1 DEF IrqInv, IrqTypes
<1>3. (Cleared(c)' => Cleared(c)) /\ ~Through(c)'
  BY <1>1, Fixed DEF Cleared, Through, IrqInv, IrqTypes
<1>4. ipc[c] = "or_load" => Cleared(c)
  BY DEF Cleared
<1> QED BY <1>1, <1>2, <1>3, <1>4, NothingStored

LEMMA AndStoreInv ==
  ASSUME IrqInv, NEW c \in Cores, Irq!AndStore(c)
  PROVE  IrqInv'
<1> USE DEF Irq!Goto, SettingUp, Between
<1> DEFINE bits == loaded[c] \intersect Irq!Shifted(0..7)
<1>1. /\ ipc[c] = "and_store" /\ Irq!Store(c, bits) /\ UNCHANGED call
      /\ ipc' = [ipc EXCEPT ![c] = "or_load"]
  BY DEF Irq!AndStore
<1>2. Irq!Shifted({7, 5, 4}) \subseteq Irq!Shifted(0..7)
  BY DEF Irq!Shifted
<1>3. Kept(c) \subseteq bits /\ bits \subseteq Kept(c) \union Asked
  BY <1>1 DEF IrqInv, KeptStays, NothingElse, Kept
<1>4. ipc'[c] = "or_load" /\ call' \in [Cores -> 1..4]
  BY <1>1 DEF IrqInv, IrqTypes
<1>5. ~Through(c)'
  BY <1>4 DEF Through
<1>6. Irq!Calls[call[c]].id \div 32 <= Block
  BY <1>1 DEF IrqInv, IrqTypes
<1> HIDE DEF bits
<1> QED BY <1>1, <1>3, <1>4, <1>5, <1>6, Stored

LEMMA OrStoreInv ==
  ASSUME IrqInv, NEW c \in Cores, Irq!OrStore(c)
  PROVE  IrqInv'
<1> USE DEF Irq!Goto, SettingUp, Between
<1> DEFINE bits == loaded[c] \union Bits(c)
           label == IF call[c] = 4 THEN "task" ELSE "call"
<1>1. /\ ipc[c] = "or_store" /\ Irq!Store(c, bits)
      /\ ipc' = [ipc EXCEPT ![c] = label]
      /\ call' = [call EXCEPT ![c] = IF call[c] = 4 THEN 1 ELSE call[c] + 1]
  BY DEF Irq!OrStore, Irq!NextCall, Bits
<1>2. Irq!Calls[call[c]].id \div 32 <= Block /\ call[c] \in 1..4
  BY <1>1 DEF IrqInv, IrqTypes
<1>3. Bits(c) \subseteq Asked /\ (call[c] = 4 \/ (call[c] = 3 /\ Block < 3) => Bits(c) = Ones)
  BY <1>2, CallBits DEF IrqInv
<1>4. Kept(c) \subseteq bits /\ bits \subseteq Kept(c) \union Asked
  BY <1>1, <1>3 DEF IrqInv, KeptStays, NothingElse
<1>5. call' \in [Cores -> 1..4] /\ \A d \in Cores \ {c} : call'[d] = call[d]
  <2>1. (IF call[c] = 4 THEN 1 ELSE call[c] + 1) \in 1..4
    BY <1>2
  <2> QED BY <1>1, <2>1 DEF IrqInv, IrqTypes
<1>6. Through(c)' => Ones \subseteq bits
  <2>1. CASE call[c] = 4
    BY <1>3, <2>1
  <2>2. CASE call[c] # 4
    <3>1. ipc'[c] = "call" /\ call'[c] = call[c] + 1 /\ Block' = Block
      BY <1>1, <1>2, <2>2, Fixed DEF IrqInv, IrqTypes, Irq!Store
    <3> QED BY <1>2, <1>3, <2>2, <3>1 DEF Through
  <2> QED BY <2>1, <2>2
<1>7. label \in {"task", "call"}
  OBVIOUS
<1> HIDE DEF bits, label
<1> QED BY <1>1, <1>4, <1>5, <1>6, <1>7, Stored

\* Interrupts come when a core is through.
LEMMA TaskInv ==
  ASSUME IrqInv, NEW c \in Cores, Irq!Take(c) \/ Irq!Route(c) \/ Irq!Serve(c)
  PROVE  IrqInv'
<1>1. /\ ipc[c] \notin SettingUp /\ UNCHANGED <<lines, reg, call, loaded, first>>
      /\ \E label : label \notin SettingUp /\ ipc' = [ipc EXCEPT ![c] = label]
  <2>1. CASE Irq!Take(c) \/ Irq!Serve(c)
    BY <2>1 DEF Irq!Take, Irq!Serve, Irq!Goto, SettingUp, Between
  <2>2. CASE Irq!Route(c)
    <3>1. Irq!Entry(x0[c] % 1024) \in {0, 1, 2, 3, 4, 5}
      BY DEF Irq!Entry, Irq!Cset
    <3>2. \A e \in {0, 1, 2, 3, 4} : Irq!Routines[e + 1] \notin SettingUp
      BY DEF Irq!Routines, SettingUp, Between
    <3>3. CASE ipc' = [ipc EXCEPT ![c] = "beyond"]
      BY <2>2, <3>3 DEF Irq!Route, SettingUp, Between
    <3>4. CASE \E e \in {0, 1, 2, 3, 4} : ipc' = [ipc EXCEPT ![c] = Irq!Routines[e + 1]]
      <4>1. PICK e \in {0, 1, 2, 3, 4} : ipc' = [ipc EXCEPT ![c] = Irq!Routines[e + 1]]
        BY <3>4
      <4> DEFINE label == Irq!Routines[e + 1]
      <4>2. label \notin SettingUp /\ ipc' = [ipc EXCEPT ![c] = label]
        BY <3>2, <4>1
      <4>3. ipc[c] \notin SettingUp /\ UNCHANGED <<lines, reg, call, loaded, first>>
        BY <2>2 DEF Irq!Route, SettingUp, Between
      <4> HIDE DEF label
      <4> QED BY <4>2, <4>3
    <3>5. \/ ipc' = [ipc EXCEPT ![c] = "beyond"]
          \/ \E e \in {0, 1, 2, 3, 4} : ipc' = [ipc EXCEPT ![c] = Irq!Routines[e + 1]]
      <4> DEFINE e == Irq!Entry(x0[c] % 1024)
      <4>1. \/ e <= 4 /\ ipc' = [ipc EXCEPT ![c] = Irq!Routines[e + 1]]
            \/ e > 4 /\ ipc' = [ipc EXCEPT ![c] = "beyond"]
        BY <2>2 DEF Irq!Route, Irq!Goto
      <4>2. e \in {0, 1, 2, 3, 4, 5}
        BY <3>1
      <4> HIDE DEF e
      <4>3. e <= 4 => e \in {0, 1, 2, 3, 4}
        BY <4>2
      <4> QED BY <4>1, <4>3
    <3> QED BY <3>3, <3>4, <3>5
  <2> QED BY <2>1, <2>2
<1>2. Cleared(c) /\ Through(c)
  BY <1>1 DEF Cleared, Through
<1>3. call' \in [Cores -> 1..4] /\ loaded' = [loaded EXCEPT ![c] = loaded'[c]]
  BY <1>1 DEF IrqInv, IrqTypes
<1> QED BY <1>1, <1>2, <1>3, NothingStored DEF SettingUp, Between

LEMMA IrqNext ==
  ASSUME IrqInv, [Irq!Next]_Irq!vars
  PROVE  IrqInv'
<1>1. CASE UNCHANGED Irq!vars
  <2>1. UNCHANGED <<lines, first, ipc, reg, call, loaded>>
    BY <1>1 DEF Irq!vars
  <2>2. \A c \in Cores : Cleared(c)' = Cleared(c) /\ Through(c)' = Through(c)
    BY <2>1, Fixed DEF Cleared, Through
  <2>3. IrqTypes'
    BY <2>1, Fixed DEF IrqInv, IrqTypes
  <2>4. KeptStays' /\ NothingElse'
    BY <2>1, <2>2, Fixed DEF IrqInv, KeptStays, NothingElse
  <2>5. LastStore'
    <3>1. SUFFICES ASSUME NEW c \in Cores, \A d \in Sharers(c) : Through(d)'
                   PROVE  Ones \subseteq reg[c]
      BY <2>1, Fixed DEF LastStore
    <3>2. \A d \in Sharers(c) : Through(d)
      BY <2>2, <3>1, Sharing DEF IrqInv
    <3> QED BY <3>2 DEF IrqInv, LastStore
  <2> QED BY <2>3, <2>4, <2>5 DEF IrqInv
<1> QED
  BY <1>1, BeginInv, LoadsInv, AndStoreInv, OrStoreInv, TaskInv DEF Irq!Next, Irq!SetUp

\* gic400.c:83-84: for any number of cores and of lines, once every core is
\* through, the field holds what it held and all priorities together, but for
\* the bit that updates of other cores may take back, and the rest is 0.
THEOREM PrioritiesAllAddUp == Irq!Spec => []PrioritiesAddUp
<1>1. Irq!Init => IrqInv
  <2> SUFFICES ASSUME Irq!Init
               PROVE  IrqInv
    OBVIOUS
  <2>1. lines \in Nat
    BY PartsAssumption DEF Irq!Init, Irq!InterruptsAssumption
  <2>2. \A c \in Cores : ipc[c] = "call" /\ call[c] = 1 /\ first[c] = reg[c]
    BY DEF Irq!Init
  <2>3. \A c, d \in Cores : d \in Sharers(c) => reg[d] = reg[c] /\ first[d] = first[c]
    BY <2>2 DEF Irq!Init, Sharers
  <2>4. \A c \in Cores : ~Cleared(c) /\ ~Through(c) /\ c \in Sharers(c)
    BY <2>1, <2>2 DEF Cleared, Through, SettingUp, Between, Block, Sharers
  <2>5. IrqTypes
    BY <2>1, <2>2, <2>3 DEF Irq!Init, IrqTypes, Between
  <2> QED
    BY <2>2, <2>4, <2>5 DEF IrqInv, KeptStays, NothingElse, LastStore, Kept
<1>2. IrqInv => PrioritiesAddUp
  <2> SUFFICES ASSUME IrqInv, \A c \in Cores : ipc[c] \notin SettingUp, NEW c \in Cores
               PROVE  Kept(c) \union Ones \subseteq reg[c] /\ reg[c] \subseteq Kept(c) \union Asked
    BY DEF PrioritiesAddUp, Irq!PrioritiesAddUp, SettingUp, Between, Kept, Ones, Asked, Block
  <2>1. \A d \in Cores : Cleared(d) /\ Through(d)
    BY DEF Cleared, Through
  <2>2. \A d \in Sharers(c) : d \in Cores
    BY DEF Sharers
  <2> QED BY <2>1, <2>2 DEF IrqInv, KeptStays, NothingElse, LastStore
<1> QED BY <1>1, <1>2, IrqNext, PTL DEF Irq!Spec

-----------------------------------------------------------------------------
(* Address space ids.                                                      *)

\* What a search of the bank as it is would give.
Given == Asid!Last({e \in Asid!Entry : bank[e] = 0})

\* The first service takes nothing from the free entries: its id is 0, which
\* is what a free entry has.
AsidInv ==
  /\ bank \in [Asid!Entry -> Owner] /\ serial \in Owner
  /\ DOMAIN got = {"power", "serial"}
  /\ spc = "serial" => got["power"] = Given
  /\ ServicesShareOne

LEMMA AsidNext ==
  ASSUME AsidInv, [Asid!Next]_Asid!vars
  PROVE  AsidInv'
<1> USE DEF AsidInv, ServicesShareOne, Asid!ServicesShareOne
<1>1. CASE UNCHANGED Asid!vars
  BY <1>1 DEF Asid!vars, Given
<1>2. CASE Asid!Allocate("power", Asid!PowerId, "power", "serial")
  <2>1. CASE word = 0
    BY <1>2, <2>1 DEF Asid!Allocate
  <2>2. CASE word # 0
    <3>1. Asid!Taken(0) = bank
      BY DEF Asid!Taken
    <3>2. /\ bank' = bank /\ spc' = "serial"
          /\ got' = [got EXCEPT !["power"] = Given]
      BY <1>2, <2>2, <3>1 DEF Asid!Allocate, Asid!PowerId, Given
    <3>3. Given' = Given
      BY <3>2 DEF Given
    <3>4. UNCHANGED serial
      BY <1>2 DEF Asid!Allocate
    <3> QED BY <3>2, <3>3, <3>4
  <2> QED BY <2>1, <2>2
<1>3. CASE Asid!Allocate("serial", serial, "serial", "both")
  <2>1. CASE word = 0
    BY <1>3, <2>1 DEF Asid!Allocate
  <2>2. CASE word # 0
    <3>1. /\ bank' = Asid!Taken(serial) /\ spc' = "both" /\ spc = "serial"
          /\ got' = [got EXCEPT !["serial"] = Given]
          /\ UNCHANGED serial
      BY <1>3, <2>2 DEF Asid!Allocate, Given
    <3>2. Asid!Taken(serial) \in [Asid!Entry -> Owner]
      BY <3>1 DEF Asid!Taken
    <3> QED BY <3>1, <3>2
  <2> QED BY <2>1, <2>2
<1> QED BY <1>1, <1>2, <1>3 DEF Asid!Next

\* core.c:294-297, kernel.c:295, 311: for any size of the bank and whatever it
\* held, the two services are given one address space id.
THEOREM ServicesAlwaysShare == Asid!Spec => []ServicesShareOne
<1>1. Asid!Init => AsidInv
  BY DEF Asid!Init, AsidInv, ServicesShareOne, Asid!ServicesShareOne
<1>2. AsidInv => ServicesShareOne
  BY DEF AsidInv
<1> QED BY <1>1, <1>2, AsidNext, PTL DEF Asid!Spec

-----------------------------------------------------------------------------
(* The registers of the mini UART.                                         *)

\* The registers that the call of t has passed hold what it makes of them, and
\* what it has loaded is what the next register holds.
Passed(t) ==
  /\ step[t] > 2 => (0 \in en <=> 0 \in arg[t])
  /\ step[t] > 4 => (0 \in cntl <=> 2 \in arg[t])
  /\ step[t] > 5 => (0 \in ier <=> 3 \in arg[t])
  /\ lpc[t] = "store" => seen[t] = Line!Value(Line!Edited(step[t]))

LineTypes ==
  /\ lpc = [t \in Caller |-> lpc[t]] /\ seen = [t \in Caller |-> seen[t]]
  /\ arg = [t \in Caller |-> arg[t]] /\ step \in [Caller -> 1..6]
  /\ overlap \in BOOLEAN /\ asked \in BOOLEAN
  /\ \A t \in Caller : lpc[t] \notin Line!Calling => step[t] = 1
  /\ \A t, u \in Caller : lpc[t] = "boot" => lpc[u] = "boot"
  /\ (\A t \in Caller : lpc[t] = "boot") => last = Line!NoCall /\ ~asked

\* Until two calls overlap, one call at most is on its way; the history is
\* empty from then on; no edit takes bit 1 from the control register.
LineInv ==
  /\ LineTypes
  /\ overlap => last = Line!NoCall /\ ~asked
  /\ ~overlap => /\ \A t, u \in Caller :
                      lpc[t] \in Line!Calling /\ lpc[u] \in Line!Calling => t = u
                 /\ \A t \in Caller : lpc[t] \in Line!Calling => Passed(t)
  /\ asked => 1 \in cntl
  /\ SettingsTakeEffect

\* A step that leaves the registers alone and after which the same tasks are in
\* a settings call, at the same edit and before their load if they were.
LEMMA Bystander ==
  ASSUME LineInv, UNCHANGED <<en, cntl, ier, step, seen, arg, overlap, last, asked>>,
         NEW t \in Caller, lpc[t] \notin Line!Calling, lpc[t] # "boot",
         NEW label, lpc' = [lpc EXCEPT ![t] = label],
         label \notin Line!Calling, label # "boot"
  PROVE  LineInv'
<1>1. LineTypes'
  BY DEF LineInv, LineTypes
<1>2. \A u \in Caller : lpc'[u] \in Line!Calling <=> lpc[u] \in Line!Calling
  BY DEF LineInv, LineTypes
<1>3. \A u \in Caller : lpc'[u] \in Line!Calling => lpc'[u] = lpc[u] /\ (Passed(u) => Passed(u)')
  BY DEF LineInv, LineTypes, Passed, Line!Value, Line!Edited, Line!Calling
<1>4. SettingsTakeEffect'
  BY <1>2 DEF LineInv, SettingsTakeEffect, Line!SettingsTakeEffect, Line!NoCall
<1> QED BY <1>1, <1>2, <1>3, <1>4 DEF LineInv, Line!NoCall

LEMMA InitializeInv ==
  ASSUME LineInv, Line!Initialize
  PROVE  LineInv'
<1>1. /\ \A t \in Caller : lpc[t] = "boot"
      /\ lpc' = [t \in Caller |-> "out"]
      /\ UNCHANGED <<cntl, ier, step, seen, arg, overlap, last, asked>>
  BY DEF Line!Initialize, Line!rights, Line!history
<1>2. LineTypes' /\ \A t \in Caller : lpc'[t] \notin Line!Calling
  BY <1>1 DEF LineInv, LineTypes, Line!Calling
<1> QED
  BY <1>1, <1>2
  DEF LineInv, LineTypes, SettingsTakeEffect, Line!SettingsTakeEffect, Line!NoCall

\* A call begins: alone, or overlapping, which ends the history.
LEMMA SettingsInv ==
  ASSUME LineInv, NEW t \in Caller, Line!Settings(t)
  PROVE  LineInv'
<1>1. PICK e \in Enablation : arg' = [arg EXCEPT ![t] = e]
  BY DEF Line!Settings
<1>2. /\ lpc[t] = "out" /\ lpc' = [lpc EXCEPT ![t] = "load"]
      /\ overlap' = (overlap \/ \E u \in Caller : lpc[u] \in Line!Calling)
      /\ last' = IF overlap' THEN Line!NoCall ELSE last
      /\ asked' = (asked /\ ~overlap')
      /\ UNCHANGED <<en, cntl, ier, step, seen>>
  BY DEF Line!Settings, Line!Goto, Line!registers
<1>3. LineTypes'
  BY <1>1, <1>2 DEF LineInv, LineTypes, Line!Calling
<1>4. overlap' => last' = Line!NoCall /\ ~asked'
  BY <1>2
<1>5. ASSUME ~overlap'
      PROVE  \A u \in Caller : lpc'[u] \in Line!Calling => u = t /\ Passed(u)'
  <2>1. \A u \in Caller : lpc[u] \notin Line!Calling
    BY <1>2, <1>5
  <2>2. \A u \in Caller \ {t} : lpc'[u] = lpc[u]
    BY <1>2 DEF LineInv, LineTypes
  <2>3. step'[t] = 1 /\ lpc'[t] = "load"
    BY <1>2, <2>1 DEF LineInv, LineTypes
  <2>4. Passed(t)'
    BY <2>3 DEF Passed
  <2> QED BY <2>1, <2>2, <2>4
<1>6. asked' => 1 \in cntl'
  BY <1>2 DEF LineInv
<1>7. lpc'[t] \in Line!Calling
  BY <1>2 DEF LineInv, LineTypes, Line!Calling
<1>8. SettingsTakeEffect'
  BY <1>7 DEF SettingsTakeEffect, Line!SettingsTakeEffect
<1> QED BY <1>3, <1>4, <1>5, <1>6, <1>8 DEF LineInv

LEMMA LoadInv ==
  ASSUME LineInv, NEW t \in Caller, Line!EditLoad(t)
  PROVE  LineInv'
<1>1. /\ lpc[t] = "load" /\ lpc' = [lpc EXCEPT ![t] = "store"]
      /\ seen' = [seen EXCEPT ![t] = Line!Value(Line!Edited(step[t]))]
      /\ UNCHANGED <<en, cntl, ier, step, arg, overlap, last, asked>>
  BY DEF Line!EditLoad, Line!Goto, Line!registers, Line!history
<1>2. LineTypes'
  BY <1>1 DEF LineInv, LineTypes, Line!Calling
<1>3. \A u \in Caller : lpc'[u] \in Line!Calling <=> lpc[u] \in Line!Calling
  BY <1>1 DEF LineInv, LineTypes, Line!Calling
<1>4. seen'[t] = Line!Value(Line!Edited(step[t])) /\ lpc'[t] = "store"
  BY <1>1 DEF LineInv, LineTypes
<1>5. Line!Value(Line!Edited(step[t]))' = Line!Value(Line!Edited(step[t]))
  BY <1>1 DEF Line!Value, Line!Edited
<1>6. Passed(t) => Passed(t)'
  BY <1>1, <1>4, <1>5 DEF Passed
<1>7. lpc[t] \in Line!Calling
  BY <1>1 DEF Line!Calling
<1>8. \A u \in Caller : ~overlap /\ lpc[u] \in Line!Calling => u = t /\ Passed(t)
  BY <1>7 DEF LineInv
<1>9. SettingsTakeEffect'
  BY <1>3, <1>7 DEF SettingsTakeEffect, Line!SettingsTakeEffect
<1> QED BY <1>1, <1>2, <1>3, <1>6, <1>8, <1>9 DEF LineInv

\* What an edit does to the two bits that the property speaks of.
LEMMA EditBits ==
  ASSUME NEW n \in 1..6, NEW d \in BOOLEAN, NEW e, NEW v
  PROVE  LET w == Line!Edit(n, d, e, v) IN
           /\ n = 2 => (0 \in w <=> 0 \in e)
           /\ n = 4 => (0 \in w <=> 2 \in e)
           /\ n = 5 => (0 \in w <=> 3 \in e)
           /\ n = 6 => (1 \in w <=> e \intersect 0..3 # {}) /\ (0 \in w <=> 0 \in v)
           /\ n = 3 /\ 1 \in e => 1 \in w
           /\ n \in {1, 3, 4} /\ 1 \in v => 1 \in w
  BY DEF Line!Edit, Line!With

\* A store of the only call there is.
LEMMA StoreAlone ==
  ASSUME LineInv, NEW t \in Caller, Line!EditStore(t), ~overlap
  PROVE  /\ \A u \in Caller \ {t} : lpc'[u] \notin Line!Calling
         /\ lpc'[t] \in Line!Calling => Passed(t)'
         /\ asked' => 1 \in cntl'
         /\ SettingsTakeEffect'
<1> DEFINE n == step[t]
           e == arg[t]
           r == Line!Edited(n)
<1>1. PICK d \in BOOLEAN :
        LET v == Line!Edit(n, d, e, seen[t]) IN
          /\ en'   = IF r = "en" THEN v ELSE en
          /\ cntl' = IF r = "cntl" THEN v ELSE cntl
          /\ ier'  = IF r = "ier" THEN v ELSE ier
          /\ last' = IF n = 6 /\ ~overlap THEN e ELSE last
          /\ asked' = (asked \/ (n = 3 /\ 1 \in e /\ ~overlap))
          /\ step' = [step EXCEPT ![t] = IF n = 6 THEN 1 ELSE n + 1]
          /\ arg' = IF n = 6 THEN [arg EXCEPT ![t] = {}] ELSE arg
          /\ lpc' = [lpc EXCEPT ![t] = IF n = 6 THEN "out" ELSE "load"]
  BY DEF Line!EditStore, Line!Goto
<1> DEFINE v == Line!Edit(n, d, e, seen[t])
<1>2. lpc[t] = "store" /\ n \in 1..6
  BY DEF Line!EditStore, LineInv, LineTypes
<1>3. \A u \in Caller \ {t} : lpc[u] \notin Line!Calling /\ lpc'[u] = lpc[u]
  BY <1>1, <1>2 DEF LineInv, LineTypes, Line!Calling
<1>4. Passed(t) /\ seen[t] = Line!Value(r)
  BY <1>2 DEF LineInv, Passed, Line!Calling
<1>5. asked => 1 \in cntl
  BY DEF LineInv
<1>6. CASE n = 6
  <2>1. /\ en' = en /\ cntl' = cntl /\ ier' = v /\ last' = e /\ asked' = asked
        /\ lpc'[t] = "out" /\ seen[t] = ier
    BY <1>1, <1>4, <1>6 DEF Line!Edited, Line!Value, LineInv, LineTypes
  <2>2. (1 \in ier' <=> e \intersect 0..3 # {}) /\ (0 \in ier' <=> 0 \in ier)
    BY <1>2, <1>6, <2>1, EditBits
  <2>3. (0 \in en <=> 0 \in e) /\ (0 \in cntl <=> 2 \in e) /\ (0 \in ier <=> 3 \in e)
    BY <1>4, <1>6 DEF Passed
  <2>4. lpc'[t] \notin Line!Calling
    BY <2>1 DEF Line!Calling
  <2>5. SettingsTakeEffect'
    BY <1>5, <2>1, <2>2, <2>3 DEF SettingsTakeEffect, Line!SettingsTakeEffect
  <2> QED BY <1>3, <1>5, <2>1, <2>4, <2>5
<1>7. CASE n # 6
  <2>1. /\ lpc'[t] = "load" /\ step'[t] = n + 1 /\ arg'[t] = e
    BY <1>1, <1>2, <1>7 DEF LineInv, LineTypes
  <2>2. SettingsTakeEffect'
    BY <2>1 DEF SettingsTakeEffect, Line!SettingsTakeEffect, Line!Calling
  <2>3. asked' => 1 \in cntl'
    <3>1. CASE n \in {1, 3, 4}
      <4>1. cntl' = v /\ seen[t] = cntl
        BY <1>1, <1>4, <3>1 DEF Line!Edited, Line!Value
      <4> QED BY <1>1, <1>2, <1>5, <4>1, <3>1, EditBits
    <3>2. CASE n \notin {1, 3, 4}
      <4>1. cntl' = cntl /\ asked' = asked
        BY <1>1, <3>2 DEF Line!Edited, LineInv, LineTypes
      <4> QED BY <1>5, <4>1
    <3> QED BY <3>1, <3>2
  <2>4. n > 1 => (0 \in en' <=> 0 \in e)
    <3>1. CASE n = 2
      BY <1>1, <1>2, <3>1, EditBits DEF Line!Edited
    <3>2. CASE n # 2
      BY <1>1, <1>2, <1>4, <1>7, <3>2 DEF Line!Edited, Passed
    <3> QED BY <3>1, <3>2
  <2>5. n > 3 => (0 \in cntl' <=> 2 \in e)
    <3>1. CASE n = 4
      BY <1>1, <1>2, <3>1, EditBits DEF Line!Edited
    <3>2. CASE n # 4
      BY <1>1, <1>2, <1>4, <1>7, <3>2 DEF Line!Edited, Passed
    <3> QED BY <3>1, <3>2
  <2>6. n > 4 => (0 \in ier' <=> 3 \in e)
    BY <1>1, <1>2, <1>7, EditBits DEF Line!Edited
  <2>7. Passed(t)'
    BY <1>2, <2>1, <2>4, <2>5, <2>6 DEF Passed
  <2> QED BY <1>3, <2>2, <2>3, <2>7
<1> QED BY <1>6, <1>7

LEMMA StoreInv ==
  ASSUME LineInv, NEW t \in Caller, Line!EditStore(t)
  PROVE  LineInv'
<1>1. /\ lpc[t] = "store" /\ step[t] \in 1..6 /\ UNCHANGED overlap
      /\ seen' = [seen EXCEPT ![t] = {}]
      /\ arg' = IF step[t] = 6 THEN [arg EXCEPT ![t] = {}] ELSE arg
      /\ step' = [step EXCEPT ![t] = IF step[t] = 6 THEN 1 ELSE step[t] + 1]
      /\ lpc' = [lpc EXCEPT ![t] = IF step[t] = 6 THEN "out" ELSE "load"]
      /\ last' = IF step[t] = 6 /\ ~overlap THEN arg[t] ELSE last
      /\ asked' = (asked \/ (step[t] = 3 /\ 1 \in arg[t] /\ ~overlap))
  BY DEF Line!EditStore, Line!Goto, LineInv, LineTypes
<1>2. LineTypes'
  <2>1. /\ step'[t] \in 1..6 /\ lpc'[t] \in {"out", "load"}
        /\ lpc'[t] = "out" => step'[t] = 1
    BY <1>1 DEF LineInv, LineTypes
  <2>2. /\ \A u \in Caller \ {t} : lpc'[u] = lpc[u] /\ step'[u] = step[u]
        /\ lpc' = [u \in Caller |-> lpc'[u]] /\ seen' = [u \in Caller |-> seen'[u]]
        /\ arg' = [u \in Caller |-> arg'[u]] /\ step' \in [Caller -> 1..6]
    BY <1>1, <2>1 DEF LineInv, LineTypes
  <2>3. asked' \in BOOLEAN /\ overlap' \in BOOLEAN
    BY <1>1 DEF LineInv, LineTypes
  <2>4. ~\A u \in Caller : lpc'[u] = "boot"
    BY <2>1
  <2> QED BY <1>1, <2>1, <2>2, <2>3, <2>4 DEF LineInv, LineTypes, Line!Calling
<1>3. CASE overlap
  BY <1>1, <1>2, <1>3 DEF LineInv, SettingsTakeEffect, Line!SettingsTakeEffect
<1>4. CASE ~overlap
  BY <1>1, <1>2, <1>4, StoreAlone DEF LineInv
<1> QED BY <1>3, <1>4

LEMMA LineNext ==
  ASSUME LineInv, [Line!Next]_Line!vars
  PROVE  LineInv'
<1>1. CASE UNCHANGED Line!vars
  BY <1>1
  DEF Line!vars, Line!registers, Line!local, Line!history, LineInv, LineTypes, Passed,
      Line!Value, Line!Edited, SettingsTakeEffect, Line!SettingsTakeEffect
<1>2. ASSUME NEW t \in Caller, Line!WriteChar(t) \/ Line!ReadChar(t)
      PROVE  LineInv'
  <2>1. /\ lpc[t] = "out"
        /\ \E label \in {"tx_enabled", "rx_enabled"} : lpc' = [lpc EXCEPT ![t] = label]
        /\ UNCHANGED <<en, cntl, ier, step, seen, arg, overlap, last, asked>>
    BY <1>2 DEF Line!WriteChar, Line!ReadChar, Line!Goto, Line!registers, Line!history
  <2> QED BY <2>1, Bystander DEF Line!Calling
<1>3. ASSUME NEW t \in Caller, Line!Enabled(t) \/ Line!Bit0(t) \/ Line!Bit1(t)
                               \/ Line!Send(t) \/ Line!RxEnabled(t) \/ Line!RxLine(t)
      PROVE  LineInv'
  <2>1. /\ lpc[t] \notin {"boot", "load", "store"}
        /\ \E label : /\ label \notin {"boot", "load", "store"}
                      /\ lpc' = [lpc EXCEPT ![t] = label]
        /\ UNCHANGED <<en, cntl, ier, step, seen, arg, overlap, last, asked>>
    BY <1>3 DEF Line!Enabled, Line!Bit0, Line!Bit1, Line!Send, Line!RxEnabled,
      Line!RxLine, Line!Test, Line!Goto, Line!registers, Line!history
  <2> QED BY <2>1, Bystander DEF Line!Calling
<1> QED
  BY <1>1, <1>2, <1>3, InitializeInv, SettingsInv, LoadInv, StoreInv
  DEF Line!Next, Line!Work

\* svc.c:149-174: for any callers and arguments, once a settings call that met
\* no other one is over the registers are as its argument says, but for the
\* transmitter, which stays on.
THEOREM SettingsAlwaysTakeEffect == Line!Spec => []SettingsTakeEffect
<1>1. Line!Init => LineInv
  <2> SUFFICES ASSUME Line!Init
               PROVE  LineInv
    OBVIOUS
  <2>1. /\ last = Line!NoCall /\ asked = FALSE /\ overlap = FALSE
        /\ \A t \in Caller : lpc[t] = "boot" /\ lpc[t] \notin Line!Calling
    BY DEF Line!Init, Line!Calling
  <2>2. LineTypes
    <3>1. /\ lpc = [t \in Caller |-> "boot"] /\ step = [t \in Caller |-> 1]
          /\ seen = [t \in Caller |-> {}] /\ arg = [t \in Caller |-> {}]
      BY DEF Line!Init
    <3>2. /\ lpc = [t \in Caller |-> lpc[t]] /\ seen = [t \in Caller |-> seen[t]]
          /\ arg = [t \in Caller |-> arg[t]]
      BY <3>1
    <3>3. step \in [Caller -> 1..6] /\ \A t \in Caller : step[t] = 1
      BY <3>1
    <3>4. overlap \in BOOLEAN /\ asked \in BOOLEAN
      BY <2>1
    <3> QED BY <2>1, <3>2, <3>3, <3>4 DEF LineTypes
  <2> QED
    BY <2>1, <2>2 DEF LineInv, SettingsTakeEffect, Line!SettingsTakeEffect
<1>2. LineInv => SettingsTakeEffect
  BY DEF LineInv
<1> QED BY <1>1, <1>2, LineNext, PTL DEF Line!Spec

-----------------------------------------------------------------------------
\* The behaviours in which one part runs and the others stay as they are are
\* behaviours of each of them, so that what is proved of a part holds in all.
THEOREM PartsImplement == PartsSpec => Spec /\ Irq!Spec /\ Asid!Spec /\ Line!Spec
<1>1. PartsInit => Init /\ Irq!Init /\ Asid!Init /\ Line!Init
  BY DEF PartsInit
<1>2. ASSUME [PartsNext]_partsVars
      PROVE  [Next]_vars /\ [Irq!Next]_Irq!vars /\ [Asid!Next]_Asid!vars /\ [Line!Next]_Line!vars
  <2>1. /\ Next \/ UNCHANGED vars
        /\ Irq!Next \/ UNCHANGED irqVars
        /\ Asid!Next \/ UNCHANGED asidVars
        /\ Line!Next \/ UNCHANGED lineVars
    BY <1>2 DEF PartsNext, Only, partsVars
  <2>2. /\ UNCHANGED irqVars => UNCHANGED Irq!vars
        /\ UNCHANGED asidVars => UNCHANGED Asid!vars
        /\ UNCHANGED lineVars => UNCHANGED Line!vars
    <3>1. UNCHANGED irqVars => UNCHANGED Irq!vars
      BY DEF irqVars, Irq!vars
    <3>2. UNCHANGED asidVars => UNCHANGED Asid!vars
      BY DEF asidVars, Asid!vars
    <3>3. UNCHANGED lineVars => UNCHANGED Line!vars
      BY DEF lineVars, Line!vars, Line!registers, Line!rights, Line!local, Line!history
    <3> QED BY <3>1, <3>2, <3>3
  <2> QED BY <2>1, <2>2
<1> QED BY <1>1, <1>2, PTL DEF PartsSpec, Spec, Irq!Spec, Asid!Spec, Line!Spec
=============================================================================
