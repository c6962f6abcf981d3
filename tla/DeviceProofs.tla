---------------------------- MODULE DeviceProofs ----------------------------
(***************************************************************************)
(* Proofs about what tasks get through their calls, for any tasks: the     *)
(* GPIO bank, the queue of timer requests and the semaphore of Resources,  *)
(* and the messages and the input of the mini UART (Muart).                *)
(***************************************************************************)
EXTENDS Devices, FiniteSetTheorems, TLAPS

-----------------------------------------------------------------------------
(* The GPIO bank.                                                          *)

Working(t, e) == pc[t] \in InGpio /\ at[t] = e
Alone(t)      == t \in Task \ (mixed \union {0})

Typed ==
  /\ GpioTypeOK
  /\ pc = [t \in Task |-> pc[t]] /\ at = [t \in Task |-> at[t]]
  /\ arg = [t \in Task |-> arg[t]]
  /\ \A t \in Task : pc[t] \in InGpio => at[t] \in Entry /\ arg[t] \in Pin

\* Whoever has met nobody is the only one at its entry, and at each entry it
\* owns.
NobodyElse ==
  \A t, u \in Task : Alone(t) /\ t # u =>
    \A e \in Entry : Working(u, e) => ~Working(t, e) /\ owner[e] # t

\* What it owns has no pin, or a pin it has asked for, but for the entry that
\* is still to be given its pin.
PinsAsked ==
  \A t \in Task : Alone(t) =>
    /\ pc[t] \in {"alloc_owner", "alloc_pin"} => arg[t] \in asked[t]
    /\ \A e \in Entry : owner[e] = t =>
         pin[e] \in asked[t] \union {0} \/ (pc[t] = "alloc_pin" /\ at[t] = e)

GpioInv == Typed /\ NobodyElse /\ PinsAsked /\ DrivenByAsker

GpioStep(t) ==
  \/ \E p \in Pin : AllocScan(t, p) \/ FreeCheck(t, p) \/ Drive(t, p)
  \/ AllocOwner(t)
  \/ AllocPin(t)
  \/ FreeOwner(t)
  \/ FreePin(t)

\* A step of another call: the GPIO bank is as it was, and the task is in no
\* call on it before and after.
OtherStep(t) ==
  /\ UNCHANGED gpio
  /\ pc[t] \notin InGpio
  /\ \E label : label \notin InGpio /\ pc' = [pc EXCEPT ![t] = label]
  /\ \E x : at' = [at EXCEPT ![t] = x]
  /\ \E x : arg' = [arg EXCEPT ![t] = x]

LEMMA Steps ==
  ASSUME Typed, Next
  PROVE  \E t \in Task : GpioStep(t) \/ OtherStep(t)
<1>1. PICK t \in Task :
        \/ GpioStep(t)
        \/ Sleep(t)
        \/ (\E l \in Lock : MutexGain(t, l)) \/ SemaphoreGain(t)
           \/ SemaphoreGainFails(t) \/ SemaphoreRelease(t)
  BY DEF Next, GpioStep
<1>2. CASE Sleep(t)
  <2> USE DEF Goto, At, InGpio, Typed
  <2>1. UNCHANGED gpio
    BY <1>2 DEF Sleep, SleepScan, SleepStore, PushTest, PushHead, PushOnly, PushNext, PushTail
  <2>2. CASE SleepScan(t)
    <3>1. /\ pc[t] = "idle" /\ pc' = [pc EXCEPT ![t] = "store"]
          /\ \E r : at' = [at EXCEPT ![t] = r]
          /\ arg' = [arg EXCEPT ![t] = NULL]
      BY <2>2 DEF SleepScan, Start, Call
    <3> QED BY <2>1, <3>1 DEF OtherStep
  <2>3. CASE SleepStore(t) \/ PushTest(t) \/ PushHead(t) \/ PushNext(t)
    <3>1. UNCHANGED <<at, arg>> /\ pc[t] \in {"store", "test", "head", "next"}
      BY <2>3 DEF SleepStore, PushTest, PushHead, PushNext
    <3>2. at' = [at EXCEPT ![t] = at[t]] /\ arg' = [arg EXCEPT ![t] = arg[t]]
      BY <3>1
    <3>3. \E label : label \notin InGpio /\ pc' = [pc EXCEPT ![t] = label]
      BY <2>3 DEF SleepStore, PushTest, PushHead, PushNext
    <3> QED BY <2>1, <3>1, <3>2, <3>3 DEF OtherStep
  <2>4. CASE PushOnly(t) \/ PushTail(t)
    <3>1. /\ pc[t] \in {"only", "tail"} /\ pc' = [pc EXCEPT ![t] = "idle"]
          /\ at' = [at EXCEPT ![t] = NULL] /\ arg' = [arg EXCEPT ![t] = NULL]
      BY <2>4 DEF PushOnly, PushTail, Return
    <3> QED BY <2>1, <3>1 DEF OtherStep
  <2> QED BY <1>2, <2>2, <2>3, <2>4 DEF Sleep
<1>3. CASE (\E l \in Lock : MutexGain(t, l)) \/ SemaphoreGain(t)
           \/ SemaphoreGainFails(t) \/ SemaphoreRelease(t)
  <2>1. UNCHANGED <<gpio, pc, at, arg>> /\ pc[t] = "idle"
    BY <1>3 DEF MutexGain, SemaphoreGain, SemaphoreGainFails, SemaphoreRelease, AtOnce, Call, At
  <2>2. /\ pc' = [pc EXCEPT ![t] = "idle"] /\ at' = [at EXCEPT ![t] = at[t]]
        /\ arg' = [arg EXCEPT ![t] = arg[t]]
    BY <2>1 DEF Typed
  <2> QED BY <2>1, <2>2 DEF OtherStep, InGpio
<1> QED BY <1>1, <1>2, <1>3

\* What a step on the bank does to the places of the calls.
LEMMA Places ==
  ASSUME Typed, NEW t \in Task, GpioStep(t)
  PROVE  /\ \A u \in Task \ {t} : pc'[u] = pc[u] /\ at'[u] = at[u] /\ arg'[u] = arg[u]
         /\ mixed \subseteq mixed' /\ (\A u \in Task : asked[u] \subseteq asked'[u])
         /\ \A e \in Entry : Working(t, e)' =>
              \/ Working(t, e)
              \/ mixed' = mixed \union Meets(t, e) /\ owner[e] \in {0, t}
<1> USE DEF Typed, GpioTypeOK, Goto, At, Working, InGpio
<1>1. CASE \E p \in Pin : AllocScan(t, p)
  BY <1>1 DEF AllocScan, Start, Call, IsFirst
<1>2. CASE \E p \in Pin : FreeCheck(t, p)
  BY <1>2 DEF FreeCheck, FirstOwned, Start, Call, IsFirst
<1>3. CASE \E p \in Pin : Drive(t, p)
  BY <1>3 DEF Drive, AtOnce, Call
<1>4. CASE AllocOwner(t) \/ FreeOwner(t)
  BY <1>4 DEF AllocOwner, FreeOwner
<1>5. CASE AllocPin(t) \/ FreePin(t)
  BY <1>5 DEF AllocPin, FreePin, Return
<1> QED BY <1>1, <1>2, <1>3, <1>4, <1>5 DEF GpioStep

LEMMA StepTyped ==
  ASSUME Typed, NEW t \in Task, GpioStep(t) \/ OtherStep(t)
  PROVE  Typed'
<1> USE ResourcesAssumption DEF Typed, GpioTypeOK, Goto, At, InGpio
<1>1. CASE \E p \in Pin : AllocScan(t, p)
  <2>1. PICK p \in Pin, e \in Entry :
          /\ Start(t, "alloc_owner", e, p) /\ mixed' = mixed \union Meets(t, e)
          /\ asked' = [asked EXCEPT ![t] = @ \union {p}] /\ UNCHANGED <<owner, pin, driver>>
    BY <1>1 DEF AllocScan
  <2>2. Meets(t, e) \subseteq Task
    BY DEF Meets
  <2> QED BY <2>1, <2>2 DEF Start
<1>2. CASE \E p \in Pin : FreeCheck(t, p)
  <2>1. PICK p \in Pin, e \in Entry :
          /\ Start(t, "free_owner", e, p) /\ mixed' = mixed \union Meets(t, e)
          /\ UNCHANGED <<owner, pin, driver, asked>>
    BY <1>2 DEF FreeCheck
  <2>2. Meets(t, e) \subseteq Task
    BY DEF Meets
  <2> QED BY <2>1, <2>2 DEF Start
<1>3. CASE \E p \in Pin : Drive(t, p)
  BY <1>3 DEF Drive, AtOnce, Call
<1>4. CASE AllocOwner(t) \/ FreeOwner(t)
  BY <1>4 DEF AllocOwner, FreeOwner
<1>5. CASE AllocPin(t) \/ FreePin(t)
  BY <1>5 DEF AllocPin, FreePin, Return
<1>6. CASE OtherStep(t)
  BY <1>6 DEF OtherStep, gpio
<1> QED BY <1>1, <1>2, <1>3, <1>4, <1>5, <1>6 DEF GpioStep

-----------------------------------------------------------------------------
LEMMA StepNobody ==
  ASSUME Typed, NobodyElse, NEW t \in Task, GpioStep(t)
  PROVE  NobodyElse'
<1>1. SUFFICES ASSUME NEW u \in Task, NEW v \in Task, Alone(u)', u # v,
                      NEW e \in Entry, Working(v, e)'
               PROVE  ~Working(u, e)' /\ owner'[e] # u
  BY DEF NobodyElse, Alone
<1> USE ResourcesAssumption DEF Typed, GpioTypeOK, Alone
<1>2. Alone(u)
  BY <1>1, Places
<1>3. CASE t = v
  <2>1. CASE Working(v, e)
    <3>1. ~Working(u, e) /\ owner[e] # u
      BY <1>1, <1>2, <2>1 DEF NobodyElse
    <3>2. ~Working(u, e)'
      BY <1>1, <1>3, <3>1, Places DEF Working
    <3>3. owner'[e] # u
      BY <1>1, <1>3, <3>1 DEF GpioStep, AllocScan, FreeCheck, Drive, AllocOwner, AllocPin, FreeOwner, FreePin
    <3> QED BY <3>2, <3>3
  <2>2. CASE ~Working(v, e)
    <3>1. mixed' = mixed \union Meets(v, e) /\ owner[e] \in {0, v}
      BY <1>1, <1>3, <2>2, Places
    <3>2. ~Working(u, e)
      BY <1>1, <3>1 DEF Meets, Working
    <3>3. owner'[e] # u
      BY <1>1, <1>2, <1>3, <3>1
        DEF GpioStep, AllocScan, FreeCheck, Drive, AllocOwner, AllocPin, FreeOwner, FreePin
    <3> QED BY <1>1, <1>3, <3>2, <3>3, Places DEF Working
  <2> QED BY <2>1, <2>2
<1>4. CASE t = u
  <2>1. Working(v, e)
    BY <1>1, <1>4, Places DEF Working
  <2>2. ~Working(u, e) /\ owner[e] # u
    BY <1>1, <1>2, <2>1 DEF NobodyElse
  <2>3. ~Working(u, e)'
    <3>1. SUFFICES ASSUME Working(u, e)' PROVE u \in mixed'
      BY <1>1
    <3>2. mixed' = mixed \union Meets(u, e)
      BY <1>4, <2>2, <3>1, Places
    <3> QED BY <1>1, <2>1, <3>2 DEF Meets, Working
  <2>4. owner'[e] # u
    BY <1>1, <1>4, <2>2 DEF GpioStep, AllocScan, FreeCheck, Drive, AllocOwner, AllocPin,
      FreeOwner, FreePin, Working, InGpio, At
  <2> QED BY <2>3, <2>4
<1>5. CASE t # u /\ t # v
  <2>1. Working(v, e)
    BY <1>1, <1>5, Places DEF Working
  <2>2. ~Working(u, e) /\ owner[e] # u
    BY <1>1, <1>2, <2>1 DEF NobodyElse
  <2>3. owner'[e] # u
    BY <1>1, <1>5, <2>2 DEF GpioStep, AllocScan, FreeCheck, Drive, AllocOwner, AllocPin, FreeOwner, FreePin
  <2> QED BY <1>5, <2>2, <2>3, Places DEF Working
<1> QED BY <1>3, <1>4, <1>5

LEMMA StepAsked ==
  ASSUME Typed, NobodyElse, PinsAsked, NEW t \in Task, GpioStep(t)
  PROVE  PinsAsked'
<1>1. SUFFICES ASSUME NEW u \in Task, Alone(u)'
      PROVE /\ pc'[u] \in {"alloc_owner", "alloc_pin"} => arg'[u] \in asked'[u]
            /\ \A e \in Entry : owner'[e] = u =>
                 pin'[e] \in asked'[u] \union {0} \/ (pc'[u] = "alloc_pin" /\ at'[u] = e)
  BY DEF PinsAsked
<1> USE ResourcesAssumption DEF Typed, GpioTypeOK, Alone, Goto, At
<1>2. Alone(u) /\ asked[u] \subseteq asked'[u]
  BY <1>1, Places
<1>3. /\ pc[u] \in {"alloc_owner", "alloc_pin"} => arg[u] \in asked[u]
      /\ \A e \in Entry : owner[e] = u =>
           pin[e] \in asked[u] \union {0} \/ (pc[u] = "alloc_pin" /\ at[u] = e)
  BY <1>2 DEF PinsAsked
<1>4. CASE t # u
  <2>1. pc'[u] = pc[u] /\ at'[u] = at[u] /\ arg'[u] = arg[u]
    BY <1>4, Places
  <2>2. ASSUME NEW e \in Entry, owner'[e] = u PROVE owner[e] = u /\ pin'[e] = pin[e]
    <3>1. owner[e] = u
      BY <1>2, <1>4, <2>2 DEF GpioStep, AllocScan, FreeCheck, Drive, AllocOwner, AllocPin, FreeOwner, FreePin
    <3>2. ~Working(t, e)
      BY <1>2, <1>4, <3>1 DEF NobodyElse
    <3>3. pin'[e] = pin[e]
      BY <3>2 DEF Working, InGpio, GpioStep, AllocScan, FreeCheck, Drive, AllocOwner, AllocPin, FreeOwner,
        FreePin
    <3> QED BY <3>1, <3>3
  <2> QED BY <1>2, <1>3, <2>1, <2>2
<1>5. CASE t = u
  <2> USE <1>2, <1>3, <1>5
  <2>1. CASE \E p \in Pin : AllocScan(t, p)
    BY <2>1 DEF AllocScan, Start, Call
  <2>2. CASE \E p \in Pin : FreeCheck(t, p)
    BY <2>2 DEF FreeCheck, Start, Call
  <2>3. CASE \E p \in Pin : Drive(t, p)
    BY <2>3 DEF Drive, AtOnce, Call
  <2>4. CASE AllocOwner(t)
    BY <2>4 DEF AllocOwner, InGpio
  <2>5. CASE FreeOwner(t)
    BY <2>5 DEF FreeOwner, InGpio
  <2>6. CASE AllocPin(t)
    BY <2>6 DEF AllocPin, Return, InGpio
  <2>7. CASE FreePin(t)
    BY <2>7 DEF FreePin, Return, InGpio
  <2> QED BY <2>1, <2>2, <2>3, <2>4, <2>5, <2>6, <2>7 DEF GpioStep
<1> QED BY <1>4, <1>5

LEMMA StepDriven ==
  ASSUME Typed, PinsAsked, DrivenByAsker, NEW t \in Task, GpioStep(t)
  PROVE  DrivenByAsker'
<1> USE ResourcesAssumption DEF Typed, GpioTypeOK, DrivenByAsker
<1>1. CASE \E p \in Pin : Drive(t, p)
  <2>1. PICK p \in Pin : Drive(t, p)
    BY <1>1
  <2>2. t \in Privileged \union mixed \union {0} \/ p \in asked[t]
    BY <2>1 DEF Drive, MayDrive, FirstOwned, IsFirst, AtOnce, Call, At, PinsAsked, Alone
  <2> QED BY <2>1, <2>2 DEF Drive
<1>2. CASE ~\E p \in Pin : Drive(t, p)
  <2>1. driver' = driver
    BY <1>2 DEF GpioStep, AllocScan, FreeCheck, AllocOwner, AllocPin, FreeOwner, FreePin
  <2> QED BY <2>1, Places
<1> QED BY <1>1, <1>2

LEMMA InvInductive ==
  ASSUME GpioInv, [Next]_vars
  PROVE  GpioInv'
<1> USE DEF GpioInv
<1>1. CASE UNCHANGED vars
  BY <1>1 DEF vars, gpio, Typed, GpioTypeOK, NobodyElse, PinsAsked, DrivenByAsker, Alone, Working
<1>2. ASSUME NEW t \in Task, GpioStep(t) PROVE GpioInv'
  BY <1>2, StepTyped, StepNobody, StepAsked, StepDriven
<1>3. ASSUME NEW t \in Task, OtherStep(t) PROVE GpioInv'
  <2>1. UNCHANGED <<owner, pin, driver, asked, mixed>>
    BY <1>3 DEF OtherStep, gpio
  <2>2. /\ \A u \in Task \ {t} : pc'[u] = pc[u] /\ at'[u] = at[u] /\ arg'[u] = arg[u]
        /\ pc[t] \notin InGpio /\ pc'[t] \notin InGpio
    BY <1>3 DEF OtherStep, Typed
  <2>3. Typed'
    BY <1>3, StepTyped
  <2>4. NobodyElse'
    BY <2>1, <2>2 DEF NobodyElse, Alone, Working
  <2>5. PinsAsked'
    BY <2>1, <2>2 DEF PinsAsked, Alone, InGpio
  <2>6. DrivenByAsker'
    BY <2>1 DEF DrivenByAsker
  <2> QED BY <2>3, <2>4, <2>5, <2>6
<1> QED BY <1>1, <1>2, <1>3, Steps

LEMMA InitInv == Init => GpioInv
  BY ResourcesAssumption DEF Init, GpioInv, Typed, GpioTypeOK, NobodyElse, PinsAsked,
     DrivenByAsker, Alone, Working, InGpio

\* For any tasks, pins and size of the bank: a task without privilege that has
\* met nobody at an entry of the bank drives only pins it has asked for,
\* whatever entries it holds and whatever pins the others have left behind
\* (svc.c:219-265, 287-293).
THEOREM AskedOrMet == Spec => []DrivenByAsker
<1>1. GpioInv => DrivenByAsker
  BY DEF GpioInv
<1> QED BY InitInv, InvInductive, <1>1, PTL DEF Spec

-----------------------------------------------------------------------------
(* The queue of timer requests.                                            *)

InQueue == {"head", "only", "next", "tail"}

QueueTypes ==
  /\ pc = [t \in Task |-> pc[t]] /\ at = [t \in Task |-> at[t]]
  /\ used \subseteq Request
  /\ queue \in [head : Request \union {NULL}, tail : Request \union {NULL},
                next : [Request -> Request \union {NULL}]]
  /\ \A t \in Sleepers : at[t] \in Request

\* Each call has a request of its own, in use from its store on and linked to
\* nothing, and one call at most is in the queue.
OwnRequests ==
  /\ \A t, u \in Sleepers : at[t] = at[u] => t = u
  /\ \A t \in Sleepers : queue.next[at[t]] = NULL /\ (at[t] \in used <=> pc[t] # "store")
  /\ \A t, u \in Task : pc[t] \in InQueue /\ pc[u] \in InQueue => t = u

\* The requests that are in the queue: those in use, but for the ones whose
\* calls have not come to link them.
Unlinked == {at[t] : t \in {u \in Task : pc[u] \in {"test", "head", "next"}}}
Queued   == used \ Unlinked

\* The queue leads to these and to no other, and its tail is the last of them,
\* but for the store that the call in the queue has still to make.
Chained ==
  /\ Closed(Queued)
  /\ \A led \in SUBSET Request : Closed(led) => Queued \subseteq led
  /\ Queued = {} => queue.head = NULL /\ queue.tail = NULL
  /\ Queued # {} => queue.head # NULL
  /\ \A t \in Task : pc[t] = "head" => Queued = {}
  /\ \A t \in Task : pc[t] = "next" => Queued # {}
  /\ \A t \in Task : pc[t] = "only" => Queued = {at[t]} /\ queue.head = at[t]
  /\ \A t \in Task : pc[t] = "tail" => at[t] \in Queued
  /\ Queued # {} /\ (\A t \in Task : pc[t] \notin {"only", "tail"}) =>
       queue.tail \in Queued /\ queue.next[queue.tail] = NULL

QueueInv == QueueTypes /\ (~met => OwnRequests /\ Chained)

\* A step of another call: the task is in no call on the queue before and after.
Elsewhere(t) ==
  /\ UNCHANGED <<used, queue, met>>
  /\ pc[t] \notin InSleep
  /\ \E label : label \notin InSleep /\ pc' = [pc EXCEPT ![t] = label]
  /\ \E x : at' = [at EXCEPT ![t] = x]

LEMMA SleepersAre == Sleepers \subseteq Task /\ Sleepers' \subseteq Task
  BY DEF Sleepers

LEMMA NoRequest == NULL \notin Request
  BY ResourcesAssumption DEF Request

LEMMA QueueSteps ==
  ASSUME QueueTypes, Next
  PROVE  \E t \in Task : Sleep(t) \/ Elsewhere(t)
<1> USE DEF At, Goto, InSleep
<1>1. PICK t \in Task :
        \/ GpioStep(t)
        \/ Sleep(t)
        \/ (\E l \in Lock : MutexGain(t, l)) \/ SemaphoreGain(t)
           \/ SemaphoreGainFails(t) \/ SemaphoreRelease(t)
  BY DEF Next, GpioStep
<1>2. at = [at EXCEPT ![t] = at[t]] /\ pc = [pc EXCEPT ![t] = pc[t]]
  BY DEF QueueTypes
<1>3. CASE \E p \in Pin : AllocScan(t, p) \/ FreeCheck(t, p)
  <2>1. UNCHANGED <<used, queue, met>> /\ pc[t] = "idle"
    BY <1>3 DEF AllocScan, FreeCheck, Start, Call, timers
  <2>2. \E label \in {"alloc_owner", "free_owner"} : \E e :
          pc' = [pc EXCEPT ![t] = label] /\ at' = [at EXCEPT ![t] = e]
    BY <1>3 DEF AllocScan, FreeCheck, Start
  <2> QED BY <2>1, <2>2 DEF Elsewhere
<1>4. CASE AllocOwner(t) \/ FreeOwner(t)
  <2>1. UNCHANGED <<used, queue, met, at>> /\ pc[t] \in {"alloc_owner", "free_owner"}
    BY <1>4 DEF AllocOwner, FreeOwner, timers
  <2>2. \E label \in {"alloc_pin", "free_pin"} : pc' = [pc EXCEPT ![t] = label]
    BY <1>4 DEF AllocOwner, FreeOwner
  <2> QED BY <1>2, <2>1, <2>2 DEF Elsewhere
<1>5. CASE AllocPin(t) \/ FreePin(t)
  <2>1. /\ UNCHANGED <<used, queue, met>> /\ pc[t] \in {"alloc_pin", "free_pin"}
        /\ pc' = [pc EXCEPT ![t] = "idle"] /\ at' = [at EXCEPT ![t] = NULL]
    BY <1>5 DEF AllocPin, FreePin, timers, Return
  <2> QED BY <2>1 DEF Elsewhere
<1>6. CASE \/ \E p \in Pin : Drive(t, p)
           \/ (\E l \in Lock : MutexGain(t, l)) \/ SemaphoreGain(t)
           \/ SemaphoreGainFails(t) \/ SemaphoreRelease(t)
  <2>1. UNCHANGED <<used, queue, met, pc, at>> /\ pc[t] = "idle"
    BY <1>6 DEF Drive, MutexGain, SemaphoreGain, SemaphoreGainFails, SemaphoreRelease, AtOnce, Call, timers
  <2> QED BY <1>2, <2>1 DEF Elsewhere
<1> QED BY <1>1, <1>3, <1>4, <1>5, <1>6 DEF GpioStep

LEMMA ElsewhereInv ==
  ASSUME QueueInv, NEW t \in Task, Elsewhere(t)
  PROVE  QueueInv'
<1>1. /\ UNCHANGED <<used, queue, met>> /\ Sleepers' = Sleepers
      /\ pc' = [u \in Task |-> pc'[u]] /\ at' = [u \in Task |-> at'[u]]
      /\ \A u \in Task : u \in Sleepers => pc'[u] = pc[u] /\ at'[u] = at[u]
      /\ \A u \in Task : u \notin Sleepers => pc[u] \notin InSleep /\ pc'[u] \notin InSleep
  BY DEF Elsewhere, QueueInv, QueueTypes, Sleepers
<1>2. Unlinked' = Unlinked
  BY <1>1 DEF Unlinked, Sleepers, InSleep
<1>3. QueueTypes'
  BY <1>1, SleepersAre DEF QueueInv, QueueTypes
<1>4. OwnRequests => OwnRequests'
  BY <1>1, SleepersAre DEF OwnRequests, InQueue, InSleep
<1>5. Queued' = Queued
  BY <1>1, <1>2 DEF Queued
<1>6. \A led : Closed(led)' <=> Closed(led)
  BY <1>1 DEF Closed
<1>7. \A u \in Task : \A label \in InSleep : (pc'[u] = label <=> pc[u] = label) /\ (pc[u] = label => at'[u] = at[u])
  BY <1>1
<1>8. Chained => Chained'
  BY <1>1, <1>5, <1>6, <1>7 DEF Chained, InSleep
<1> QED BY <1>1, <1>3, <1>4, <1>8 DEF QueueInv

-----------------------------------------------------------------------------
\* A call that takes a request, which nobody else has taken unless two have met.
LEMMA ScanInv ==
  ASSUME QueueInv, NEW t \in Task, SleepScan(t)
  PROVE  QueueInv'
<1> USE ResourcesAssumption DEF QueueInv, QueueTypes
<1>1. PICK r \in Request :
        /\ queue.next[r] = NULL /\ r \notin used
        /\ pc[t] = "idle" /\ pc' = [pc EXCEPT ![t] = "store"] /\ at' = [at EXCEPT ![t] = r]
        /\ met' = (met \/ \E u \in Sleepers : at[u] = r)
        /\ UNCHANGED <<used, queue>>
  BY DEF SleepScan, IsFirst, Vacant, Start, Call, At, Goto
<1>2. Sleepers' = Sleepers \union {t} /\ t \notin Sleepers
  BY <1>1 DEF Sleepers, InSleep
<1>3. QueueTypes'
  BY <1>1, <1>2, SleepersAre
<1>4. SUFFICES ASSUME ~met' PROVE OwnRequests' /\ Chained'
  BY <1>3
<1>5. ~met /\ \A u \in Sleepers : at[u] # r
  BY <1>1, <1>4
<1>6. /\ at'[t] = r /\ pc'[t] = "store"
      /\ \A u \in Task : u # t => pc'[u] = pc[u] /\ at'[u] = at[u]
  BY <1>1
<1>7. OwnRequests'
  <2>1. \A u, v \in Sleepers' : at'[u] = at'[v] => u = v
    BY <1>2, <1>5, <1>6, SleepersAre DEF OwnRequests
  <2>2. \A u \in Sleepers' : queue.next[at'[u]] = NULL /\ (at'[u] \in used <=> pc'[u] # "store")
    BY <1>1, <1>2, <1>5, <1>6, SleepersAre DEF OwnRequests
  <2>3. \A u, v \in Task : pc'[u] \in InQueue /\ pc'[v] \in InQueue => u = v
    BY <1>5, <1>6 DEF OwnRequests, InQueue
  <2>4. used' = used /\ queue' = queue
    BY <1>1
  <2> QED BY <2>1, <2>2, <2>3, <2>4 DEF OwnRequests
<1>8. Unlinked' = Unlinked
  <2>1. {u \in Task : pc'[u] \in {"test", "head", "next"}} = {u \in Task : pc[u] \in {"test", "head", "next"}}
    BY <1>1, <1>6
  <2> QED BY <1>1, <1>6, <2>1 DEF Unlinked
<1>9. Queued' = Queued /\ \A led : Closed(led)' <=> Closed(led)
  BY <1>1, <1>8 DEF Queued, Closed
<1>10. Chained'
  BY <1>1, <1>5, <1>6, <1>9 DEF Chained
<1> QED BY <1>7, <1>10

LEMMA StoreInv ==
  ASSUME QueueInv, NEW t \in Task, SleepStore(t)
  PROVE  QueueInv'
<1> USE DEF QueueInv, QueueTypes
<1>1. /\ pc[t] = "store" /\ pc' = [pc EXCEPT ![t] = "test"]
      /\ used' = used \union {at[t]} /\ UNCHANGED <<queue, met, at>>
  BY DEF SleepStore, At, Goto
<1>2. /\ pc'[t] = "test" /\ \A u \in Task : u # t => pc'[u] = pc[u]
      /\ Sleepers' = Sleepers /\ t \in Sleepers
  BY <1>1 DEF Sleepers, InSleep
<1>3. QueueTypes'
  BY <1>1, <1>2, SleepersAre
<1>4. SUFFICES ASSUME ~met PROVE OwnRequests' /\ Chained'
  BY <1>1, <1>3
<1>5. at[t] \notin used /\ \A u \in Sleepers : u # t => at[u] # at[t]
  BY <1>1, <1>2, <1>4 DEF OwnRequests
<1>6. OwnRequests'
  BY <1>1, <1>2, <1>4, <1>5 DEF OwnRequests, InQueue
<1>7. Unlinked' = Unlinked \union {at[t]}
  BY <1>1, <1>2 DEF Unlinked
<1>8. Queued' = Queued /\ \A led : Closed(led)' <=> Closed(led)
  BY <1>1, <1>5, <1>7 DEF Queued, Closed
<1>9. Chained'
  BY <1>1, <1>2, <1>4, <1>8 DEF Chained
<1> QED BY <1>6, <1>9

LEMMA TestInv ==
  ASSUME QueueInv, NEW t \in Task, PushTest(t)
  PROVE  QueueInv'
<1> USE DEF QueueInv, QueueTypes
<1> DEFINE label == IF queue.head = NULL /\ queue.tail = NULL THEN "head" ELSE "next"
<1>1. /\ pc[t] = "test" /\ pc' = [pc EXCEPT ![t] = label]
      /\ met' = (met \/ \E u \in Sleepers : pc[u] \notin {"store", "test"})
      /\ UNCHANGED <<used, queue, at>>
  BY DEF PushTest, At, Goto
<1>2. /\ pc'[t] = label /\ \A u \in Task : u # t => pc'[u] = pc[u]
      /\ Sleepers' = Sleepers /\ t \in Sleepers
  BY <1>1 DEF Sleepers, InSleep
<1>3. QueueTypes'
  BY <1>1, <1>2, SleepersAre
<1>4. SUFFICES ASSUME ~met' PROVE OwnRequests' /\ Chained'
  BY <1>3
<1>5. ~met /\ \A u \in Task : pc[u] \notin InQueue
  BY <1>1, <1>4 DEF Sleepers, InQueue, InSleep
<1>6. label \in {"head", "next"}
  OBVIOUS
<1>7. OwnRequests'
  <2> HIDE DEF label
  <2> QED BY <1>1, <1>2, <1>5, <1>6, SleepersAre DEF OwnRequests, InQueue
<1>8. Unlinked' = Unlinked
  <2> HIDE DEF label
  <2> QED BY <1>1, <1>2, <1>6 DEF Unlinked
<1>9. Queued' = Queued /\ \A led : Closed(led)' <=> Closed(led)
  BY <1>1, <1>8 DEF Queued, Closed
<1>10. (label = "head" => Queued = {}) /\ (label = "next" => Queued # {})
  BY <1>5 DEF Chained
<1>11. Chained'
  <2> HIDE DEF label
  <2> QED BY <1>1, <1>2, <1>5, <1>6, <1>9, <1>10 DEF Chained, InQueue
<1> QED BY <1>7, <1>11

\* The store that links the request: the queue leads to what it led to and to
\* the request.
LEMMA LinkInv ==
  ASSUME QueueInv, NEW t \in Task, PushHead(t) \/ PushNext(t)
  PROVE  QueueInv'
<1> USE DEF QueueInv, QueueTypes
<1> DEFINE r == at[t]
<1>1. /\ pc[t] \in {"head", "next"} /\ UNCHANGED <<used, met, at>>
      /\ pc' = [pc EXCEPT ![t] = IF pc[t] = "head" THEN "only" ELSE "tail"]
  BY DEF PushHead, PushNext, At, Goto
<1>2. /\ pc'[t] = (IF pc[t] = "head" THEN "only" ELSE "tail")
      /\ \A u \in Task : u # t => pc'[u] = pc[u]
      /\ t \in Sleepers /\ r \in Request
  BY <1>1 DEF Sleepers, InSleep
<1>3. Sleepers' = Sleepers
  BY <1>1, <1>2 DEF Sleepers, InSleep
<1>4. /\ queue'.tail = queue.tail
      /\ pc[t] = "head" => queue'.head = r /\ queue'.next = queue.next
      /\ pc[t] = "next" =>
           /\ queue'.head = queue.head
           /\ queue'.next = [q \in Request |-> IF q = queue.tail THEN r ELSE queue.next[q]]
  BY DEF PushHead, PushNext, At
<1>5. QueueTypes'
  <2>1. queue' \in [head : Request \union {NULL}, tail : Request \union {NULL},
                    next : [Request -> Request \union {NULL}]]
    BY <1>2 DEF PushHead, PushNext
  <2> QED BY <1>1, <1>2, <1>3, <2>1
<1>6. SUFFICES ASSUME ~met PROVE OwnRequests' /\ Chained'
  BY <1>1, <1>5
<1>7. /\ r \in used /\ queue.next[r] = NULL
      /\ \A u \in Sleepers : u # t => at[u] # r
      /\ \A u \in Task : u # t => pc[u] \notin InQueue
  BY <1>1, <1>2, <1>6 DEF OwnRequests, InQueue
<1>8. Unlinked' = Unlinked \ {r} /\ r \in Unlinked
  <2>1. \A u \in Task : pc[u] \in {"test", "head", "next"} => u \in Sleepers
    BY DEF Sleepers, InSleep
  <2>2. {u \in Task : pc'[u] \in {"test", "head", "next"}}
          = {u \in Task : pc[u] \in {"test", "head", "next"}} \ {t}
    BY <1>1, <1>2
  <2>3. r \in Unlinked
    BY <1>1 DEF Unlinked
  <2>4. Unlinked' = {at[u] : u \in {v \in Task : pc[v] \in {"test", "head", "next"}} \ {t}}
    BY <1>1, <2>2 DEF Unlinked
  <2>5. \A u \in Task : pc[u] \in {"test", "head", "next"} /\ u # t => at[u] # r
    BY <1>7, <2>1
  <2>6. Unlinked' \subseteq Unlinked \ {r}
    BY <2>4, <2>5 DEF Unlinked
  <2>7. Unlinked \ {r} \subseteq Unlinked'
    BY <2>4 DEF Unlinked
  <2> QED BY <2>3, <2>6, <2>7
<1>9. Queued' = Queued \union {r} /\ r \notin Queued
  BY <1>1, <1>7, <1>8 DEF Queued
<1>10. pc[t] = "next" => queue.tail \in Queued /\ queue.next[queue.tail] = NULL
  BY <1>1, <1>6, <1>7 DEF Chained, InQueue
<1>11. \A u \in Sleepers : u # t /\ pc[t] = "next" => at[u] # queue.tail
  <2>1. SUFFICES ASSUME NEW u \in Sleepers, u # t, pc[t] = "next"
                 PROVE  at[u] \notin Queued
    BY <1>10
  <2>2. u \in Task /\ pc[u] \in {"store", "test"}
    BY <1>7, <2>1 DEF Sleepers, InSleep, InQueue
  <2>3. CASE pc[u] = "store"
    BY <1>6, <2>3 DEF OwnRequests, Queued
  <2>4. CASE pc[u] = "test"
    BY <2>2, <2>4 DEF Queued, Unlinked
  <2> QED BY <2>2, <2>3, <2>4
<1>12. OwnRequests'
  <2>1. \A u \in Sleepers : queue'.next[at[u]] = NULL
    BY <1>1, <1>4, <1>6, <1>7, <1>9, <1>10, <1>11 DEF OwnRequests
  <2>2. \A u \in Sleepers : at[u] \in used <=> pc'[u] # "store"
    BY <1>1, <1>2, <1>6, SleepersAre DEF OwnRequests
  <2>3. \A u, v \in Task : pc'[u] \in InQueue /\ pc'[v] \in InQueue => u = v
    BY <1>2, <1>7
  <2> QED BY <1>1, <1>3, <1>6, <2>1, <2>2, <2>3 DEF OwnRequests
<1>13. Chained'
  <2> HIDE DEF r
  <2>1. Closed(Queued)'
    <3>1. CASE pc[t] = "head"
      BY <1>4, <1>6, <1>7, <1>9, <3>1 DEF Closed, Chained
    <3>2. CASE pc[t] = "next"
      BY <1>4, <1>6, <1>7, <1>9, <3>2 DEF Closed, Chained
    <3> QED BY <1>1, <3>1, <3>2
  <2>2. ASSUME NEW led \in SUBSET Request, Closed(led)' PROVE Queued' \subseteq led
    <3>1. CASE pc[t] = "head"
      BY <1>2, <1>4, <1>6, <1>9, <2>2, <3>1, NoRequest DEF Closed, Chained
    <3>2. CASE pc[t] = "next"
      <4>1. Closed(led)
        BY <1>4, <1>10, <2>2, <3>2 DEF Closed
      <4>2. Queued \subseteq led
        BY <1>6, <4>1 DEF Chained
      <4>3. r \in led
        BY <1>2, <1>4, <1>10, <2>2, <3>2, <4>2, NoRequest DEF Closed
      <4> QED BY <1>9, <4>2, <4>3
    <3> QED BY <1>1, <3>1, <3>2
  <2>3. Queued' # {} /\ queue'.head # NULL
    BY <1>1, <1>2, <1>4, <1>6, <1>9, NoRequest DEF Chained
  <2>4. \A u \in Task : pc'[u] \notin {"head", "next"}
    BY <1>1, <1>2, <1>7 DEF InQueue
  <2>5. \A u \in Task : pc'[u] = "only" => Queued' = {at'[u]} /\ queue'.head = at'[u]
    BY <1>1, <1>2, <1>4, <1>6, <1>7, <1>9 DEF InQueue, Chained, r
  <2>6. \A u \in Task : pc'[u] = "tail" => at'[u] \in Queued'
    BY <1>1, <1>2, <1>7, <1>9 DEF InQueue, r
  <2>7. \E u \in Task : pc'[u] \in {"only", "tail"}
    BY <1>1, <1>2
  <2> QED BY <2>1, <2>2, <2>3, <2>4, <2>5, <2>6, <2>7 DEF Chained
<1> QED BY <1>12, <1>13

\* The last store of a call: its request is the tail.
LEMMA EndInv ==
  ASSUME QueueInv, NEW t \in Task, PushOnly(t) \/ PushTail(t)
  PROVE  QueueInv'
<1> USE DEF QueueInv, QueueTypes
<1>1. /\ pc[t] \in {"only", "tail"} /\ pc' = [pc EXCEPT ![t] = "idle"]
      /\ at' = [at EXCEPT ![t] = NULL] /\ UNCHANGED <<used, met>>
      /\ queue'.head = queue.head /\ queue'.next = queue.next
      /\ queue'.tail = (IF pc[t] = "only" THEN queue.head ELSE at[t])
  BY DEF PushOnly, PushTail, At, Goto, Return
<1>2. /\ pc'[t] = "idle" /\ \A u \in Task : u # t => pc'[u] = pc[u] /\ at'[u] = at[u]
      /\ t \in Sleepers /\ Sleepers' = Sleepers \ {t}
  BY <1>1 DEF Sleepers, InSleep
<1>3. QueueTypes'
  <2>1. queue' \in [head : Request \union {NULL}, tail : Request \union {NULL},
                    next : [Request -> Request \union {NULL}]]
    BY <1>2 DEF PushOnly, PushTail
  <2> QED BY <1>1, <1>2, <2>1, SleepersAre
<1>4. SUFFICES ASSUME ~met PROVE OwnRequests' /\ Chained'
  BY <1>1, <1>3
<1>5. \A u \in Task : u # t => pc[u] \notin InQueue
  BY <1>1, <1>4 DEF OwnRequests, InQueue
<1>6. OwnRequests'
  BY <1>1, <1>2, <1>4, <1>5 DEF OwnRequests
<1>7. Unlinked' = Unlinked
  BY <1>1, <1>2 DEF Unlinked
<1>8. Queued' = Queued /\ \A led : Closed(led)' <=> Closed(led)
  BY <1>1, <1>7 DEF Queued, Closed
<1>9. /\ queue'.tail = at[t] /\ at[t] \in Queued /\ queue.next[at[t]] = NULL
      /\ queue.head # NULL
  BY <1>1, <1>2, <1>4 DEF Chained, OwnRequests
<1>10. \A u \in Task : pc'[u] \notin InQueue
  BY <1>2, <1>5 DEF InQueue
<1>11. Chained'
  BY <1>1, <1>4, <1>8, <1>9, <1>10 DEF Chained, InQueue
<1> QED BY <1>6, <1>11

LEMMA QueueInductive ==
  ASSUME QueueInv, [Next]_vars
  PROVE  QueueInv'
<1>1. CASE UNCHANGED vars
  <2>1. UNCHANGED <<used, queue, met, pc, at>>
    BY <1>1 DEF vars, timers
  <2>2. Unlinked' = Unlinked /\ Queued' = Queued /\ Sleepers' = Sleepers
    BY <2>1 DEF Unlinked, Queued, Sleepers
  <2>3. \A led : Closed(led)' <=> Closed(led)
    BY <2>1 DEF Closed
  <2> QED BY <2>1, <2>2, <2>3 DEF QueueInv, QueueTypes, OwnRequests, Chained
<1>2. CASE Next
  <2>1. PICK t \in Task : Sleep(t) \/ Elsewhere(t)
    BY <1>2, QueueSteps DEF QueueInv
  <2> QED BY <2>1, ElsewhereInv, ScanInv, StoreInv, TestInv, LinkInv, EndInv DEF Sleep
<1> QED BY <1>1, <1>2

LEMMA QueueStarts == Init => QueueInv
<1> SUFFICES ASSUME Init PROVE QueueInv
  OBVIOUS
<1>1. /\ used = {} /\ queue = [head |-> NULL, tail |-> NULL, next |-> [r \in Request |-> NULL]]
      /\ pc = [t \in Task |-> "idle"] /\ at = [t \in Task |-> NULL] /\ met = FALSE
  BY DEF Init
<1>2. queue.head = NULL /\ queue.tail = NULL /\ queue.next = [r \in Request |-> NULL]
  BY <1>1
<1>3. Sleepers = {} /\ Queued = {}
  BY <1>1 DEF Sleepers, InSleep, Queued
<1>4. QueueTypes
  BY <1>1, <1>2, <1>3 DEF QueueTypes
<1>5. OwnRequests /\ Chained
  BY <1>1, <1>2, <1>3 DEF OwnRequests, Chained, Closed, InQueue
<1> QED BY <1>4, <1>5 DEF QueueInv

\* svc.c:189-198, fwlist.c:109-120: for any tasks and size of the bank, as long
\* as no two calls have had one request or have met in the queue, the queue
\* leads to the requests in use, to all of them and to no other, and its tail is
\* the last one, whenever no call is at work.
THEOREM UsedRequestsAreQueued == Spec => []RequestsAreQueued
<1>1. QueueInv => RequestsAreQueued
  <2>1. SUFFICES ASSUME QueueInv, Sleepers = {}, ~met
                 PROVE  /\ Reached = used
                        /\ used # {} => queue.tail \in used /\ queue.next[queue.tail] = NULL
    BY DEF RequestsAreQueued
  <2>2. \A t \in Task : pc[t] \notin InSleep
    BY <2>1 DEF Sleepers
  <2>3. Queued = used
    BY <2>2 DEF Queued, Unlinked, InSleep
  <2>4. Chained /\ used \in SUBSET Request
    BY <2>1 DEF QueueInv, QueueTypes
  <2>5. Reached = used
    BY <2>3, <2>4 DEF Reached, Chained
  <2> QED BY <2>2, <2>3, <2>4, <2>5 DEF Chained, InSleep
<1> QED BY QueueStarts, QueueInductive, <1>1, PTL DEF Spec

-----------------------------------------------------------------------------
(* The semaphore.                                                          *)

\* Units may be lost once a list is full, and a list never shrinks.
UnitsInv ==
  /\ value \in Nat /\ made \in Nat /\ holds \in [Task -> Nat] /\ count \in [Task -> Nat]
  /\ IsFiniteSet(Held)
  /\ value + Cardinality(Held) <= Units + made
  /\ (\A t \in Task : count[t] < Limit) => value + Cardinality(Held) = Units + made

LEMMA HeldAre ==
  ASSUME holds \in [Task -> Nat]
  PROVE  \A x : x \in Held <=> \E t \in Task, n \in Nat : x = <<t, n>> /\ 1 <= n /\ n <= holds[t]
  BY DEF Held

\* One unit more, one unit less.
LEMMA OneMore ==
  ASSUME UnitsInv, NEW t \in Task, holds' = [holds EXCEPT ![t] = @ + 1]
  PROVE  IsFiniteSet(Held') /\ Cardinality(Held') = Cardinality(Held) + 1
<1> DEFINE x == <<t, holds[t] + 1>>
<1>1. holds' \in [Task -> Nat] /\ holds[t] \in Nat
  BY DEF UnitsInv
<1>2. x \notin Held
  BY <1>1, HeldAre DEF UnitsInv
<1>3. Held' = Held \union {x}
  <2>1. ASSUME NEW u \in Task, NEW n \in Nat
        PROVE  n <= holds'[u] <=> n <= holds[u] \/ (u = t /\ n = holds[t] + 1)
    BY <1>1 DEF UnitsInv
  <2>2. Held' = UNION {{u} \X (1..holds'[u]) : u \in Task}
    BY DEF Held
  <2>3. \A u \in Task : holds'[u] \in Nat /\ holds[u] \in Nat
    BY <1>1 DEF UnitsInv
  <2>4. Held' \subseteq Held \union {x}
    BY <2>1, <2>2, <2>3 DEF Held
  <2>5. Held \subseteq Held'
    BY <2>1, <2>2, <2>3 DEF Held
  <2>6. x \in Held'
    BY <1>1, <2>1, <2>2, <2>3
  <2> QED BY <2>4, <2>5, <2>6
<1> HIDE DEF x
<1> QED BY <1>2, <1>3, FS_AddElement DEF UnitsInv

LEMMA OneLess ==
  ASSUME UnitsInv, NEW t \in Task, holds[t] > 0, holds' = [holds EXCEPT ![t] = @ - 1]
  PROVE  IsFiniteSet(Held') /\ Cardinality(Held') = Cardinality(Held) - 1
<1> DEFINE x == <<t, holds[t]>>
<1>1. holds' \in [Task -> Nat] /\ holds[t] \in Nat
  BY DEF UnitsInv
<1>2. x \in Held
  BY <1>1, HeldAre DEF UnitsInv
<1>3. Held' = Held \ {x}
  <2>1. ASSUME NEW u \in Task, NEW n \in Nat
        PROVE  n <= holds'[u] <=> n <= holds[u] /\ ~(u = t /\ n = holds[t])
    BY <1>1 DEF UnitsInv
  <2>2. Held' = UNION {{u} \X (1..holds'[u]) : u \in Task}
    BY DEF Held
  <2>3. \A u \in Task : holds'[u] \in Nat /\ holds[u] \in Nat
    BY <1>1 DEF UnitsInv
  <2>4. Held' \subseteq Held
    BY <2>1, <2>2, <2>3 DEF Held
  <2>5. x \notin Held'
    BY <1>1, <2>1, <2>2, <2>3
  <2>6. Held \ {x} \subseteq Held'
    BY <2>1, <2>2, <2>3 DEF Held
  <2> QED BY <2>4, <2>5, <2>6
<1> HIDE DEF x
<1> QED BY <1>2, <1>3, FS_RemoveElement DEF UnitsInv

LEMMA UnitsInductive ==
  ASSUME UnitsInv, [Next]_vars
  PROVE  UnitsInv'
<1> USE ResourcesAssumption DEF UnitsInv
<1>1. Cardinality(Held) \in Nat /\ Units \in Nat /\ Limit \in Nat
  BY FS_CardinalityType
<1>2. CASE \E t \in Task : SemaphoreGain(t)
  <2>1. PICK t \in Task : SemaphoreGain(t)
    BY <1>2
  <2>2. value > 0 /\ value' = value - 1 /\ made' = made
    BY <2>1 DEF SemaphoreGain
  <2>3. CASE count[t] >= Limit
    <3>1. holds' = holds /\ count' = count /\ Held' = Held
      BY <2>1, <2>3 DEF SemaphoreGain, Held
    <3>2. ~ \A u \in Task : count[u] < Limit
      BY <1>1, <2>3
    <3> QED BY <1>1, <2>2, <3>1, <3>2
  <2>4. CASE ~(count[t] >= Limit)
    <3>1. holds' = [holds EXCEPT ![t] = @ + 1] /\ count' = [count EXCEPT ![t] = @ + 1]
      BY <2>1, <2>4 DEF SemaphoreGain
    <3>2. IsFiniteSet(Held') /\ Cardinality(Held') = Cardinality(Held) + 1
      BY <3>1, OneMore
    <3>3. \A u \in Task : count[u] <= count'[u]
      BY <3>1
    <3>4. (\A u \in Task : count'[u] < Limit) => \A u \in Task : count[u] < Limit
      BY <1>1, <3>1, <3>3
    <3>5. holds' \in [Task -> Nat] /\ count' \in [Task -> Nat]
      BY <3>1
    <3>6. value' + Cardinality(Held)' = value + Cardinality(Held) /\ value' \in Nat
      BY <1>1, <2>2, <3>2
    <3> QED BY <1>1, <2>2, <3>2, <3>4, <3>5, <3>6
  <2> QED BY <2>3, <2>4
<1>3. CASE \E t \in Task : SemaphoreRelease(t)
  <2>1. PICK t \in Task : SemaphoreRelease(t)
    BY <1>3
  <2>2. value' = value + 1 /\ count' = count
    BY <2>1 DEF SemaphoreRelease
  <2>3. CASE holds[t] > 0
    <3>1. holds' = [holds EXCEPT ![t] = @ - 1] /\ made' = made
      BY <2>1, <2>3 DEF SemaphoreRelease
    <3>2. IsFiniteSet(Held') /\ Cardinality(Held') = Cardinality(Held) - 1
      BY <2>3, <3>1, OneLess
    <3>3. holds' \in [Task -> Nat]
      BY <2>3, <3>1
    <3> QED BY <1>1, <2>2, <3>1, <3>2, <3>3
  <2>4. CASE ~(holds[t] > 0)
    <3>1. holds' = holds /\ made' = made + 1 /\ Held' = Held
      BY <2>1, <2>4 DEF SemaphoreRelease, Held
    <3> QED BY <1>1, <2>2, <3>1
  <2> QED BY <2>3, <2>4
<1>7. CASE \E t \in Task : SemaphoreGainFails(t)
  <2>1. PICK t \in Task : SemaphoreGainFails(t)
    BY <1>7
  <2>2. PICK told \in {0, 1} :
          holds' = [holds EXCEPT ![t] = @ + told] /\ made' = made + told
    BY <2>1 DEF SemaphoreGainFails
  <2>3. value' = value /\ count' = count
    BY <2>1 DEF SemaphoreGainFails
  <2>4. CASE told = 0
    <3>1. holds' = holds /\ made' = made
      BY <2>2, <2>4
    <3>2. Held' = Held
      BY <3>1 DEF Held
    <3> QED BY <2>3, <3>1, <3>2
  <2>5. CASE told = 1
    <3>1. holds' = [holds EXCEPT ![t] = @ + 1] /\ made' = made + 1
      BY <2>2, <2>5
    <3>2. IsFiniteSet(Held') /\ Cardinality(Held') = Cardinality(Held) + 1
      BY <3>1, OneMore
    <3>3. holds' \in [Task -> Nat]
      BY <3>1
    <3> QED BY <1>1, <2>3, <3>1, <3>2, <3>3
  <2> QED BY <2>4, <2>5
<1>4. CASE \E t \in Task, l \in Lock : MutexGain(t, l)
  <2>1. PICK t \in Task : UNCHANGED <<value, holds, made>> /\ count' = [count EXCEPT ![t] = @ + 1]
    BY <1>4 DEF MutexGain
  <2>2. count' \in [Task -> Nat] /\ \A u \in Task : count[u] <= count'[u]
    BY <2>1
  <2>3. (\A u \in Task : count'[u] < Limit) => \A u \in Task : count[u] < Limit
    BY <1>1, <2>2
  <2>4. Held' = Held
    BY <2>1 DEF Held
  <2> QED BY <2>1, <2>2, <2>3, <2>4
<1>5. CASE UNCHANGED <<value, holds, made, count>>
  BY <1>5 DEF Held
<1>6. \/ \E t \in Task : SemaphoreGain(t)
           \/ SemaphoreGainFails(t) \/ SemaphoreRelease(t)
      \/ \E t \in Task, l \in Lock : MutexGain(t, l)
      \/ UNCHANGED <<value, holds, made, count>>
  BY DEF Next, vars, locks, AllocScan, FreeCheck, Drive, AllocOwner, AllocPin, FreeOwner, FreePin, Sleep,
    SleepScan, SleepStore, PushTest, PushHead, PushOnly, PushNext, PushTail
<1> QED BY <1>2, <1>3, <1>4, <1>5, <1>6, <1>7

\* svc.c:516-538: for any tasks, units and length of the list, no unit is lost
\* while no list is full, and none comes from anywhere but a release without a
\* unit or a gain without an answer.
THEOREM UnitsAreConserved == Spec => []UnitsConserved
<1>1. Init => UnitsInv
  <2> SUFFICES ASSUME Init PROVE UnitsInv
    OBVIOUS
  <2>1. value = Units /\ made = 0 /\ holds = [t \in Task |-> 0] /\ count = [t \in Task |-> 0]
    BY DEF Init
  <2>2. Held = {}
    BY <2>1 DEF Held
  <2> QED BY <2>1, <2>2, FS_EmptySet, ResourcesAssumption DEF UnitsInv
<1>2. UnitsInv => UnitsConserved
  BY DEF UnitsInv, UnitsConserved
<1> QED BY <1>1, <1>2, UnitsInductive, PTL DEF Spec

-----------------------------------------------------------------------------
(* The mini UART.                                                          *)

Upto(n) == [i \in 1..n |-> i]
Writing == {t \in Task : upc[t] = "write_length"}

UartTypes ==
  /\ upc = [t \in Task |-> upc[t]] /\ passed = [t \in Task |-> passed[t]]
  /\ \A t \in Task : upc[t] \in {"write_buffer", "write_length"} => passed[t] \in Buffer
  /\ wlen \in Nat /\ written \in Nat /\ job \in Nat /\ clean \in BOOLEAN

\* While the handler is on a message, there is one.
HandlerBusy ==
  /\ irq \in {"tx_loop", "tx_send", "tx_check", "clear_buffer"} => wbuf # NULL
  /\ irq \in {"tx_loop", "tx_send", "tx_check", "clear_buffer", "clear_length"} => wlen # 0
  /\ irq \in {"clear_buffer", "clear_length", "clear_written"} => written # 0

\* The three stages of a message that no other write disturbs: its buffer is
\* set and its length is not; it is being sent; it is over.
Requested ==
  /\ \E t \in Task : Writing = {t} /\ Size[passed[t]] = job
  /\ wbuf # NULL /\ wlen = 0 /\ written = 0 /\ out = Upto(0)

UnderWay ==
  /\ Writing = {}
  /\ wbuf # NULL /\ wlen = job /\ written <= job
  /\ irq \notin {"clear_length", "clear_written"}
  /\ irq = "tx_send" => written > 0 /\ out = Upto(written - 1)
  /\ irq # "tx_send" => out = Upto(written)
  /\ irq = "clear_buffer" => written = job

Over ==
  /\ Writing = {}
  /\ wbuf = NULL /\ out = Upto(job)
  /\ irq \notin {"tx_loop", "tx_send", "tx_check", "clear_buffer"}
  /\ wlen = IF irq = "clear_length" THEN job ELSE 0
  /\ written = IF irq \in {"clear_length", "clear_written"} THEN job ELSE 0

UartInv == UartTypes /\ HandlerBusy /\ (clean => Requested \/ UnderWay \/ Over)

ReadInv ==
  /\ rlen \in Nat /\ base \in Nat
  /\ base <= IF irq = "rx_test" THEN rlen + 1 ELSE rlen
  /\ ReadGoesOn

LEMMA Message ==
  /\ Upto(0) = << >>
  /\ \A n \in Nat : Len(Upto(n)) = n /\ Append(Upto(n), n + 1) = Upto(n + 1)
<1>1. Upto(0) = << >>
  BY DEF Upto
<1>2. ASSUME NEW n \in Nat PROVE Len(Upto(n)) = n /\ Append(Upto(n), n + 1) = Upto(n + 1)
  <2>1. Upto(n) \in Seq(Nat) /\ Len(Upto(n)) = n
    BY DEF Upto
  <2>2. Append(Upto(n), n + 1) \in Seq(Nat) /\ Len(Append(Upto(n), n + 1)) = n + 1
    BY <2>1
  <2>3. \A i \in 1..(n + 1) : Append(Upto(n), n + 1)[i] = i
    BY <2>1 DEF Upto
  <2> QED BY <2>2, <2>3 DEF Upto
<1> QED BY <1>1, <1>2

\* A step of task t that neither begins nor ends a request to write.
Bystander(t) ==
  /\ UNCHANGED <<wbuf, wlen, written, irq, clean, job, out>>
  /\ upc[t] # "write_length"
  /\ \E label, x :
       /\ label # "write_length" /\ (label = "write_buffer" => x \in Buffer)
       /\ upc' = [upc EXCEPT ![t] = label] /\ passed' = [passed EXCEPT ![t] = x]

LEMMA Bystanders ==
  ASSUME UartInv, NEW t \in Task,
         \/ Uart!Alloc(t) \/ Uart!AllocStore(t) \/ Uart!Free(t) \/ Uart!Greet(t)
         \/ Uart!Call(t, "write_buffer") \/ Uart!Call(t, "read_buffer")
         \/ Uart!ReadBuffer(t) \/ Uart!ReadLength(t)
  PROVE  Bystander(t)
<1> USE DEF Uart!Goto
<1>1. passed = [passed EXCEPT ![t] = passed[t]]
  BY DEF UartInv, UartTypes
<1>2. CASE Uart!Alloc(t) \/ Uart!Free(t) \/ Uart!AllocStore(t)
  <2>1. /\ UNCHANGED <<wbuf, wlen, written, irq, clean, job, out, passed>>
        /\ upc[t] # "write_length"
    BY <1>2 DEF Uart!Alloc, Uart!Free, Uart!AllocStore, Uart!writing, Uart!sent
  <2>2. \E label \in {"alloc_store", "out", "spinning"} : upc' = [upc EXCEPT ![t] = label]
    BY <1>2 DEF Uart!Alloc, Uart!Free, Uart!AllocStore, Uart!GainMutex
  <2> QED BY <1>1, <2>1, <2>2 DEF Bystander
<1>3. CASE Uart!Greet(t) \/ Uart!Call(t, "write_buffer") \/ Uart!Call(t, "read_buffer")
  <2>1. /\ UNCHANGED <<wbuf, wlen, written, irq, clean, job, out>>
        /\ upc[t] # "write_length"
    BY <1>3 DEF Uart!Greet, Uart!Call, Uart!writing, Uart!sent
  <2>2. \E label \in {"write_buffer", "read_buffer"}, x \in Buffer :
          upc' = [upc EXCEPT ![t] = label] /\ passed' = [passed EXCEPT ![t] = x]
    BY <1>3 DEF Uart!Greet, Uart!Call
  <2> QED BY <2>1, <2>2 DEF Bystander
<1>4. CASE Uart!ReadBuffer(t)
  <2>1. /\ UNCHANGED <<wbuf, wlen, written, irq, clean, job, out, passed>>
        /\ upc[t] # "write_length" /\ upc' = [upc EXCEPT ![t] = "read_length"]
    BY <1>4 DEF Uart!ReadBuffer, Uart!writing, Uart!sent
  <2> QED BY <1>1, <2>1 DEF Bystander
<1>5. CASE Uart!ReadLength(t)
  <2>1. /\ UNCHANGED <<wbuf, wlen, written, irq, clean, job, out>>
        /\ upc[t] # "write_length" /\ upc' = [upc EXCEPT ![t] = "out"]
        /\ passed' = [passed EXCEPT ![t] = NULL]
    BY <1>5 DEF Uart!ReadLength, Uart!writing, Uart!sent
  <2> QED BY <2>1 DEF Bystander
<1> QED BY <1>2, <1>3, <1>4, <1>5

LEMMA BystanderInv ==
  ASSUME UartInv, NEW t \in Task, Bystander(t)
  PROVE  UartInv'
<1>1. PICK label, x :
        /\ label # "write_length" /\ (label = "write_buffer" => x \in Buffer)
        /\ upc' = [upc EXCEPT ![t] = label] /\ passed' = [passed EXCEPT ![t] = x]
  BY DEF Bystander
<1>2. UNCHANGED <<wbuf, wlen, written, irq, clean, job, out>> /\ upc[t] # "write_length"
  BY DEF Bystander
<1>3. UartTypes'
  BY <1>1, <1>2 DEF UartInv, UartTypes
<1>4. HandlerBusy'
  BY <1>2 DEF UartInv, HandlerBusy
<1>5. Writing' = Writing /\ \A u \in Writing : passed'[u] = passed[u]
  BY <1>1, <1>2 DEF Writing, UartInv, UartTypes
<1>6. (Requested => Requested') /\ (UnderWay => UnderWay') /\ (Over => Over')
  BY <1>2, <1>5 DEF Requested, UnderWay, Over, Upto
<1> QED BY <1>2, <1>3, <1>4, <1>6 DEF UartInv

LEMMA WriteInv ==
  ASSUME UartInv, NEW t \in Task, Uart!WriteBuffer(t) \/ Uart!WriteLength(t)
  PROVE  UartInv'
<1> USE DevicesAssumption DEF Uart!MuartAssumption, Uart!Goto
<1>1. CASE Uart!WriteBuffer(t)
  <2>1. /\ upc[t] = "write_buffer" /\ wbuf' = passed[t] /\ passed[t] \in Buffer
        /\ out' = << >> /\ upc' = [upc EXCEPT ![t] = "write_length"]
        /\ UNCHANGED <<wlen, written, passed, irq>>
        /\ job' = IF clean' THEN Size[passed[t]] ELSE 0
    BY <1>1 DEF Uart!WriteBuffer, UartInv, UartTypes
  <2>2. /\ clean' \in BOOLEAN
        /\ clean' => wbuf = NULL /\ wlen = 0 /\ written = 0 /\ Writing = {}
    BY <1>1 DEF Uart!WriteBuffer, Writing
  <2>3. Size[passed[t]] \in Nat /\ wbuf' # NULL
    BY <2>1
  <2>4. job' \in Nat /\ (clean' => job' = Size[passed[t]])
    BY <2>1, <2>2, <2>3
  <2>5. UartTypes'
    BY <2>1, <2>2, <2>4 DEF UartInv, UartTypes
  <2>6. HandlerBusy'
    BY <2>1, <2>3 DEF UartInv, HandlerBusy
  <2>7. clean' => Requested'
    <3>1. SUFFICES ASSUME clean' PROVE Requested'
      OBVIOUS
    <3>2. Writing' = {t}
      BY <2>1, <2>2, <3>1 DEF Writing, UartInv, UartTypes
    <3> QED BY <2>1, <2>2, <2>3, <2>4, <3>1, <3>2, Message DEF Requested, Upto
  <2> QED BY <2>5, <2>6, <2>7 DEF UartInv
<1>2. CASE Uart!WriteLength(t)
  <2>1. /\ t \in Writing /\ wlen' = Size[passed[t]] /\ Size[passed[t]] \in Nat \ {0}
        /\ passed' = [passed EXCEPT ![t] = NULL] /\ upc' = [upc EXCEPT ![t] = "out"]
        /\ UNCHANGED <<wbuf, written, irq, clean, job, out>>
    BY <1>2 DEF Uart!WriteLength, Uart!sent, Writing, UartInv, UartTypes
  <2>2. UartTypes'
    BY <2>1 DEF UartInv, UartTypes
  <2>3. HandlerBusy'
    BY <2>1 DEF UartInv, HandlerBusy
  <2>4. clean' => UnderWay'
    <3>1. SUFFICES ASSUME clean PROVE UnderWay'
      BY <2>1
    <3>2. Requested
      BY <2>1, <3>1 DEF UartInv, UnderWay, Over
    <3>3. Writing' = {} /\ wlen' = job /\ job \in Nat
      BY <2>1, <3>2 DEF Requested, Writing, UartInv, UartTypes
    <3>4. irq \notin {"tx_send", "clear_buffer", "clear_length", "clear_written"}
      BY <3>2 DEF Requested, UartInv, HandlerBusy
    <3> QED BY <2>1, <3>2, <3>3, <3>4 DEF Requested, UnderWay, Upto
  <2> QED BY <2>2, <2>3, <2>4 DEF UartInv
<1> QED BY <1>1, <1>2

\* The transmit handler.
LEMMA TxInv ==
  ASSUME UartInv, Uart!TxEnter \/ Uart!TxCount \/ Uart!TxSend \/ Uart!TxLeave \/ Uart!TxCheck
  PROVE  UartInv'
<1> USE DEF Uart!Handler, UartInv
<1>1. UNCHANGED <<upc, passed, wbuf, wlen, clean, job>> /\ Writing' = Writing
  BY DEF Uart!TxEnter, Uart!TxCount, Uart!TxSend, Uart!TxLeave, Uart!TxCheck, Uart!writing, Uart!sent,
    Writing
<1>2. written' \in Nat
  BY DEF UartTypes, Uart!TxEnter, Uart!TxCount, Uart!TxSend, Uart!TxLeave, Uart!TxCheck, Uart!writing
<1>3. UartTypes'
  BY <1>1, <1>2 DEF UartTypes
<1>4. HandlerBusy'
  BY <1>1 DEF HandlerBusy, UartTypes, Uart!TxEnter, Uart!TxCount, Uart!TxSend, Uart!TxLeave, Uart!TxCheck,
    Uart!writing
<1>5. ASSUME clean PROVE UnderWay'
  <2>1. UnderWay
    BY <1>5 DEF Requested, Over, HandlerBusy,
      Uart!TxEnter, Uart!TxCount, Uart!TxSend, Uart!TxLeave, Uart!TxCheck
  <2>2. CASE Uart!TxEnter \/ Uart!TxLeave
    BY <1>1, <2>1, <2>2 DEF UnderWay, Upto, Uart!TxEnter, Uart!TxLeave, Uart!writing, Uart!sent
  <2>3. CASE Uart!TxCount
    BY <1>1, <2>1, <2>3 DEF UnderWay, UartTypes, Upto, Uart!TxCount, Uart!sent
  <2>4. CASE Uart!TxSend
    <3>1. written - 1 \in Nat /\ out = Upto(written - 1) /\ out' = Append(out, written)
      BY <1>5, <2>1, <2>4 DEF UnderWay, UartTypes, Uart!TxSend
    <3>2. ASSUME NEW n \in Nat, n + 1 = written, n = written - 1 PROVE out' = Upto(written)
      BY <3>1, <3>2, Message
    <3>3. out' = Upto(written)
      BY <3>1, <3>2 DEF UartTypes
    <3> QED BY <1>1, <2>1, <2>4, <3>3 DEF UnderWay, Upto, Uart!TxSend, Uart!writing
  <2>5. CASE Uart!TxCheck
    BY <1>1, <2>1, <2>5 DEF UnderWay, Upto, Uart!TxCheck, Uart!writing, Uart!sent
  <2> QED BY <2>2, <2>3, <2>4, <2>5
<1> QED BY <1>1, <1>3, <1>4, <1>5

LEMMA ClearInv ==
  ASSUME UartInv, Uart!ClearBuffer \/ Uart!ClearLength \/ Uart!ClearWritten
  PROVE  UartInv'
<1> USE DEF Uart!Handler, UartInv
<1>1. UNCHANGED <<upc, passed, clean, job, out>> /\ Writing' = Writing
  BY DEF Uart!ClearBuffer, Uart!ClearLength, Uart!ClearWritten, Uart!sent, Writing
<1>2. UartTypes'
  BY <1>1 DEF UartTypes, Uart!ClearBuffer, Uart!ClearLength, Uart!ClearWritten
<1>3. HandlerBusy'
  BY DEF HandlerBusy, Uart!ClearBuffer, Uart!ClearLength, Uart!ClearWritten
<1>4. ASSUME clean PROVE Over'
  <2>1. ~Requested
    BY DEF Requested, HandlerBusy, Uart!ClearBuffer, Uart!ClearLength, Uart!ClearWritten
  <2>2. CASE UnderWay
    BY <1>1, <2>2 DEF UnderWay, Over, Upto, Uart!ClearBuffer, Uart!ClearLength, Uart!ClearWritten
  <2>3. CASE Over
    BY <1>1, <2>3 DEF Over, Upto, Uart!ClearBuffer, Uart!ClearLength, Uart!ClearWritten
  <2> QED BY <1>4, <2>1, <2>2, <2>3
<1> QED BY <1>1, <1>2, <1>3, <1>4

Input ==
  \/ Uart!RxEnter \/ Uart!RxRoom \/ Uart!RxStore \/ Uart!RxTest \/ Uart!RxEnd \/ Uart!RxLeave

LEMMA InputInv ==
  ASSUME UartInv, Input \/ UNCHANGED Uart!vars
  PROVE  UartInv'
<1>1. UNCHANGED <<upc, passed, wbuf, wlen, written, clean, job, out>> /\ Writing' = Writing
  BY DEF Input, Uart!vars, Uart!writing, Uart!sent, Uart!Handler, Writing,
    Uart!RxEnter, Uart!RxRoom, Uart!RxStore, Uart!RxTest, Uart!RxEnd, Uart!RxLeave
<1>2. \/ irq' = irq
      \/ {irq, irq'} \subseteq {"idle", "rx_loop", "rx_store", "rx_test", "rx_end"}
  BY DEF Input, Uart!vars, Uart!Handler,
    Uart!RxEnter, Uart!RxRoom, Uart!RxStore, Uart!RxTest, Uart!RxEnd, Uart!RxLeave
<1>3. UartTypes' /\ HandlerBusy'
  BY <1>1, <1>2 DEF UartInv, UartTypes, HandlerBusy
<1>4. (Requested => Requested') /\ (UnderWay => UnderWay') /\ (Over => Over')
  BY <1>1, <1>2 DEF Requested, UnderWay, Over, Upto
<1> QED BY <1>1, <1>3, <1>4 DEF UartInv

LEMMA UartInductive ==
  ASSUME UartInv, [Uart!Next]_Uart!vars
  PROVE  UartInv'
<1>1. ASSUME NEW t \in Task, Uart!System(t) PROVE UartInv'
  BY <1>1, Bystanders, BystanderInv, WriteInv DEF Uart!System
<1>2. CASE Uart!Interrupt
  BY <1>2, TxInv, ClearInv, InputInv DEF Uart!Interrupt, Input
<1>3. CASE UNCHANGED Uart!vars
  BY <1>3, InputInv
<1> QED BY <1>1, <1>2, <1>3 DEF Uart!Next

LEMMA UartStarts == Uart!Init => UartInv
  BY DevicesAssumption DEF Uart!MuartAssumption, Uart!Init, UartInv, UartTypes, HandlerBusy

\* irq.c:25-35: for any tasks and messages, one that no other write disturbed
\* is sent from its second byte on up to the byte behind its end, when its
\* buffer is given up.
THEOREM AllSentFromTheSecond == Uart!Spec => []SentFromTheSecond
<1>1. UartInv => SentFromTheSecond
  BY DEF UartInv, UartTypes, Requested, UnderWay, Over, HandlerBusy, Upto, SentFromTheSecond,
    Uart!SentFromTheSecond
<1> QED BY UartStarts, UartInductive, <1>1, PTL DEF Uart!Spec

\* schaduler.c:7-15: for any tasks and messages, the task that waits for such
\* a message is woken when all its bytes are taken: at most the last one is
\* still to be put on the line.
THEOREM WokenWhenSent == Uart!Spec => []DoneMeansSent
<1>1. UartInv => DoneMeansSent
  <2>1. SUFFICES ASSUME UartInv, clean, wlen = written, Writing = {}
                 PROVE  Len(out) + 1 >= job
    BY DEF DoneMeansSent, Uart!DoneMeansSent, Uart!WriteDone, Writing
  <2>2. CASE UnderWay
    <3>1. written = job /\ job \in Nat
      BY <2>1, <2>2 DEF UartInv, UartTypes, UnderWay
    <3>2. CASE irq = "tx_send"
      <4>1. job - 1 \in Nat /\ out = Upto(job - 1)
        BY <2>2, <3>1, <3>2 DEF UnderWay
      <4>2. Len(out) = job - 1
        BY <4>1, Message
      <4> QED BY <3>1, <4>2
    <3>3. CASE irq # "tx_send"
      <4>1. Len(out) = job
        BY <2>2, <3>1, <3>3, Message DEF UnderWay
      <4> QED BY <3>1, <4>1
    <3> QED BY <3>2, <3>3
  <2>3. CASE Over
    BY <2>1, <2>3, Message DEF UartInv, UartTypes, Over
  <2> QED BY <2>1, <2>2, <2>3 DEF UartInv, Requested
<1> QED BY UartStarts, UartInductive, <1>1, PTL DEF Uart!Spec

\* irq.c:50-59, svc.c:48-62: for any tasks and any input, a read buffer is
\* filled without a gap from the index the input before had reached.
THEOREM ReadingGoesOn == Uart!Spec => []ReadGoesOn
<1>1. Uart!Init => ReadInv
  BY DEF Uart!Init, ReadInv, ReadGoesOn, Uart!ReadGoesOn
<1>2. ASSUME ReadInv, [Uart!Next]_Uart!vars PROVE ReadInv'
  <2> USE <1>2 DEF ReadInv, ReadGoesOn, Uart!ReadGoesOn, Uart!Handler
  <2>1. CASE \E t \in Task : Uart!ReadBuffer(t)
    BY <2>1 DEF Uart!ReadBuffer
  <2>2. CASE Uart!RxStore \/ Uart!RxTest
    <3>1. CASE Uart!RxStore
      <4>1. /\ irq # "rx_test" /\ irq' = "rx_test" /\ base' = base
            /\ filled' = filled \union {rlen} /\ rlen' = rlen
        BY <3>1 DEF Uart!RxStore, Uart!reading
      <4>2. base .. (rlen - 1) \union {rlen} = base .. rlen
        BY <4>1
      <4> QED BY <4>1, <4>2
    <3>2. CASE Uart!RxTest
      <4>1. irq = "rx_test" /\ irq' # "rx_test" /\ base' = base /\ filled' = filled /\ rlen' = rlen + 1
        BY <3>2 DEF Uart!RxTest, Uart!taken
      <4> QED BY <4>1
    <3> QED BY <2>2, <3>1, <3>2
  <2>3. CASE /\ UNCHANGED <<rlen, base, filled>>
             /\ irq' = irq \/ (irq # "rx_test" /\ irq' # "rx_test")
    BY <2>3
  <2>4. \/ \E t \in Task : Uart!ReadBuffer(t)
        \/ Uart!RxStore \/ Uart!RxTest
        \/ /\ UNCHANGED <<rlen, base, filled>>
           /\ irq' = irq \/ (irq # "rx_test" /\ irq' # "rx_test")
    BY <1>2 DEF Uart!Next, Uart!vars, Uart!reading, Uart!taken, Uart!System, Uart!Interrupt,
      Uart!Alloc, Uart!AllocStore, Uart!Free, Uart!Greet, Uart!Call, Uart!WriteBuffer, Uart!WriteLength,
      Uart!ReadLength, Uart!TxEnter, Uart!TxCount, Uart!TxSend, Uart!TxLeave, Uart!TxCheck,
      Uart!ClearBuffer, Uart!ClearLength, Uart!ClearWritten, Uart!RxEnter, Uart!RxRoom, Uart!RxEnd,
      Uart!RxLeave
  <2> QED BY <2>1, <2>2, <2>3, <2>4
<1>3. ReadInv => ReadGoesOn
  BY DEF ReadInv
<1> QED BY <1>1, <1>2, <1>3, PTL DEF Uart!Spec

-----------------------------------------------------------------------------
\* The behaviours in which one part runs and the other stays as it is are
\* behaviours of both, so that what is proved of a part holds in all.
THEOREM DevicesImplement == DevicesSpec => Spec /\ Uart!Spec
<1>1. DevicesInit => Init /\ Uart!Init
  BY DEF DevicesInit
<1>2. ASSUME [DevicesNext]_<<part, vars, uartVars>>
      PROVE  [Next]_vars /\ [Uart!Next]_Uart!vars
  <2>1. /\ Next \/ UNCHANGED vars
        /\ Uart!Next \/ UNCHANGED uartVars
    BY <1>2 DEF DevicesNext, Only
  <2>2. UNCHANGED uartVars => UNCHANGED Uart!vars
    BY DEF uartVars, Uart!vars, Uart!writing, Uart!reading, Uart!sent, Uart!taken
  <2> QED BY <2>1, <2>2
<1> QED BY <1>1, <1>2, PTL DEF DevicesSpec, Spec, Uart!Spec
=============================================================================
