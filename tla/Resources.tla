----------------------------- MODULE Resources -----------------------------
(***************************************************************************)
(* What a task may get from the kernel through its calls: GPIO pins, timer *)
(* requests, mutexes and semaphores.  The banks are shared by the tasks of *)
(* all cores and nothing guards them: a call scans its bank in one step    *)
(* and stores in later ones.  The list of peripherals of a task is kept as *)
(* its length only: the length never shrinks, because release calls do not *)
(* touch it, and free_flag_preiph compares 0xF with the flag, not with the *)
(* entry, so that it clears nothing.                                       *)
(*                                                                         *)
(* gain_mutex, gain_semaphore and release_semaphore are one step each, as  *)
(* Mutex and Semaphore describe them; release_mutex frees no mutex.  The   *)
(* clean-up functions of core.c (__free_gpio and the rest) are never       *)
(* called: terminate_context clears the length before it reads it.         *)
(***************************************************************************)
EXTENDS Naturals, FiniteSets

CONSTANTS
  Task,       \* ids of the tasks; each is on a core of its own
  Privileged, \* those whose permission level is not 0
  Pin,
  E, R,       \* sizes of the banks of GPIO entries and timer requests (64)
  Lock,       \* the mutexes of the tasks
  Units,      \* units of the one semaphore
  Limit,      \* length of the list of peripherals (16)
  Calls,      \* bound: calls of a task
  NULL

Entry   == 0..E-1
Request == 0..R-1

ASSUME ResourcesAssumption ==
  /\ Task \subseteq Nat /\ Privileged \subseteq Task
  /\ Pin \subseteq Nat \ {0} /\ NULL \notin Nat
  /\ {E, R, Units, Limit, Calls} \subseteq Nat /\ E > 0 /\ R > 0

VARIABLES
  owner, pin,  \* the GPIO bank: task_id (0 when free) and pin_number
  driver,      \* per pin: the task that drove it last
  asked,       \* history: the pins a task has asked for
  mixed,       \* history: tasks that worked on one GPIO entry at the same time
  used,        \* the timer requests with a wake time
  queue,       \* the queue of timer requests
  met,         \* history: two calls have had one request, or met in the queue
  mutex,       \* the mutexes that are taken
  value,       \* the semaphore
  holds,       \* per task: units it takes itself to have
  made,        \* history: units that came from nowhere
  count,       \* preipherals_count
  pc, at, arg, \* per task: its call, the entry and the pin it works on
  calls        \* per task: calls made

gpio   == <<owner, pin, driver, asked, mixed>>
timers == <<used, queue, met>>
locks  == <<mutex, value, holds, made, count>>
vars   == <<gpio, timers, locks, pc, at, arg, calls>>

Init ==
  /\ owner = [e \in Entry |-> 0] /\ pin = [e \in Entry |-> 0]
  /\ driver = [p \in Pin |-> NULL]
  /\ asked = [t \in Task |-> {}] /\ mixed = {}
  /\ used = {} /\ met = FALSE
  /\ queue = [head |-> NULL, tail |-> NULL, next |-> [r \in Request |-> NULL]]
  /\ mutex = {} /\ value = Units
  /\ made = 0
  /\ holds = [t \in Task |-> 0] /\ count = [t \in Task |-> 0]
  /\ pc = [t \in Task |-> "idle"] /\ at = [t \in Task |-> NULL]
  /\ arg = [t \in Task |-> NULL] /\ calls = [t \in Task |-> 0]

At(t, label) == pc[t] = label
Goto(t, label) == pc' = [pc EXCEPT ![t] = label]
IsFirst(n, N) == n \in N /\ \A k \in N : n <= k

\* A new call, and the end of one.
Call(t) ==
  /\ At(t, "idle") /\ calls[t] < Calls
  /\ calls' = [calls EXCEPT ![t] = @ + 1]

Start(t, label, entry, p) ==
  /\ Call(t)
  /\ Goto(t, label)
  /\ at' = [at EXCEPT ![t] = entry] /\ arg' = [arg EXCEPT ![t] = p]

AtOnce(t) == Call(t) /\ UNCHANGED <<pc, at, arg>>

Return(t) ==
  /\ Goto(t, "idle")
  /\ at' = [at EXCEPT ![t] = NULL] /\ arg' = [arg EXCEPT ![t] = NULL]
  /\ UNCHANGED calls

-----------------------------------------------------------------------------
InGpio == {"alloc_owner", "alloc_pin", "free_owner", "free_pin"}

\* History: who else is at entry e.
Meets(t, e) ==
  LET others == {u \in Task \ {t} : pc[u] \in InGpio /\ at[u] = e}
  IN  IF others = {} THEN {} ELSE others \union {t}

\* svc_gpalloc: the first entry without an owner; the id 0 leaves it free.
AllocScan(t, p) ==
  /\ \E e \in Entry :
       /\ IsFirst(e, {k \in Entry : owner[k] = 0})
       /\ Start(t, "alloc_owner", e, p)
       /\ mixed' = mixed \union Meets(t, e)
  /\ asked' = [asked EXCEPT ![t] = @ \union {p}]
  /\ UNCHANGED <<owner, pin, driver, timers, locks>>

AllocOwner(t) ==
  /\ At(t, "alloc_owner")
  /\ owner' = [owner EXCEPT ![at[t]] = t]
  /\ Goto(t, "alloc_pin")
  /\ UNCHANGED <<pin, driver, asked, mixed, timers, locks, at, arg, calls>>

AllocPin(t) ==
  /\ At(t, "alloc_pin")
  /\ pin' = [pin EXCEPT ![at[t]] = arg[t]]
  /\ Return(t)
  /\ UNCHANGED <<owner, driver, asked, mixed, timers, locks>>

\* The only entry that svc_gpfree and the calls that drive a pin look at.
FirstOwned(t, e) == IsFirst(e, {k \in Entry : owner[k] = t})

FreeCheck(t, p) ==
  /\ \E e \in Entry :
       /\ FirstOwned(t, e) /\ pin[e] = p
       /\ Start(t, "free_owner", e, p)
       /\ mixed' = mixed \union Meets(t, e)
  /\ UNCHANGED <<owner, pin, driver, asked, timers, locks>>

FreeOwner(t) ==
  /\ At(t, "free_owner")
  /\ owner' = [owner EXCEPT ![at[t]] = 0]
  /\ Goto(t, "free_pin")
  /\ UNCHANGED <<pin, driver, asked, mixed, timers, locks, at, arg, calls>>

FreePin(t) ==
  /\ At(t, "free_pin")
  /\ pin' = [pin EXCEPT ![at[t]] = 0]
  /\ Return(t)
  /\ UNCHANGED <<owner, driver, asked, mixed, timers, locks>>

\* Mutation of MayDrive: an entry of the task or one with the pin will do.
MayDriveEither(t, p) ==
  t \in Privileged \/ \E e \in Entry : owner[e] = t \/ pin[e] = p

\* svc_gpfunction, svc_gpset, svc_gpclear, svc_gpvalue: one test for all.
MayDrive(t, p) ==
  t \in Privileged \/ \E e \in Entry : FirstOwned(t, e) /\ pin[e] = p

Drive(t, p) ==
  /\ MayDrive(t, p)
  /\ AtOnce(t)
  /\ driver' = [driver EXCEPT ![p] = t]
  /\ UNCHANGED <<owner, pin, asked, mixed, timers, locks>>

-----------------------------------------------------------------------------
\* svc_tsleep_ms.  The id that is stored is read through the saved status
\* register of the task, and may be any; the wake time is what marks a
\* request as used.  Requests leave the queue in wakeup_service only, for
\* tasks of the waiting queue, which has none.

\* Mutation of Vacant: only the link is tested.
VacantUnlinked(r) == queue.next[r] = NULL

Vacant(r) == queue.next[r] = NULL /\ r \notin used

InSleep == {"store", "test", "head", "only", "next", "tail"}
Sleepers == {t \in Task : pc[t] \in InSleep}

\* History: a call that finds the request of another one, or meets it in the
\* queue.
SleepScan(t) ==
  /\ \E r \in Request :
       /\ IsFirst(r, {k \in Request : Vacant(k)})
       /\ Start(t, "store", r, NULL)
       /\ met' = (met \/ \E u \in Sleepers : at[u] = r)
  /\ UNCHANGED <<gpio, used, queue, locks>>

SleepStore(t) ==
  /\ At(t, "store")
  /\ used' = used \union {at[t]}
  /\ Goto(t, "test")
  /\ UNCHANGED <<gpio, queue, met, locks, at, arg, calls>>

\* tfw_push_back, access by access.
PushTest(t) ==
  /\ At(t, "test")
  /\ Goto(t, IF queue.head = NULL /\ queue.tail = NULL THEN "head" ELSE "next")
  /\ met' = (met \/ \E u \in Sleepers : pc[u] \notin {"store", "test"})
  /\ UNCHANGED <<gpio, used, queue, locks, at, arg, calls>>

PushHead(t) ==
  /\ At(t, "head")
  /\ queue' = [queue EXCEPT !.head = at[t]]
  /\ Goto(t, "only")
  /\ UNCHANGED <<gpio, used, met, locks, at, arg, calls>>

PushOnly(t) ==
  /\ At(t, "only")
  /\ queue' = [queue EXCEPT !.tail = queue.head]
  /\ Return(t)
  /\ UNCHANGED <<gpio, used, met, locks>>

PushNext(t) ==
  /\ At(t, "next")
  /\ queue' = [queue EXCEPT !.next = [r \in Request |-> IF r = queue.tail THEN at[t] ELSE @[r]]]
  /\ Goto(t, "tail")
  /\ UNCHANGED <<gpio, used, met, locks, at, arg, calls>>

PushTail(t) ==
  /\ At(t, "tail")
  /\ queue' = [queue EXCEPT !.tail = at[t]]
  /\ Return(t)
  /\ UNCHANGED <<gpio, used, met, locks>>

Sleep(t) ==
  \/ SleepScan(t)
  \/ SleepStore(t)
  \/ PushTest(t)
  \/ PushHead(t)
  \/ PushOnly(t)
  \/ PushNext(t)
  \/ PushTail(t)

-----------------------------------------------------------------------------
\* svc_mutex_gain: the limit comes first; what is gained is never free again.
MutexGain(t, l) ==
  /\ count[t] < Limit /\ l \notin mutex
  /\ AtOnce(t)
  /\ mutex' = mutex \union {l}
  /\ count' = [count EXCEPT ![t] = @ + 1]
  /\ UNCHANGED <<gpio, timers, value, holds, made>>

\* Mutation of SemaphoreGain: the limit is met one entry early.
SemaphoreGainEarly(t) ==
  /\ value > 0
  /\ AtOnce(t)
  /\ value' = value - 1
  /\ IF count[t] + 1 >= Limit
     THEN UNCHANGED <<holds, count>>
     ELSE /\ holds' = [holds EXCEPT ![t] = @ + 1]
          /\ count' = [count EXCEPT ![t] = @ + 1]
  /\ UNCHANGED <<gpio, timers, mutex, made>>

\* svc_semaphore_gain: the unit comes first; beyond the limit the answer is 2,
\* and the unit is gone.
SemaphoreGain(t) ==
  /\ value > 0
  /\ AtOnce(t)
  /\ value' = value - 1
  /\ IF count[t] >= Limit
     THEN UNCHANGED <<holds, count>>
     ELSE /\ holds' = [holds EXCEPT ![t] = @ + 1]
          /\ count' = [count EXCEPT ![t] = @ + 1]
  /\ UNCHANGED <<gpio, timers, mutex, made>>

\* With no unit the call ends without a return statement: the caller may take
\* what it finds for a 0, and itself to have a unit.
SemaphoreGainFails(t) ==
  /\ value = 0
  /\ AtOnce(t)
  /\ \E told \in {0, 1} :
       /\ holds' = [holds EXCEPT ![t] = @ + told]
       /\ made' = made + told
  /\ UNCHANGED <<gpio, timers, mutex, value, count>>

\* svc_semaphore_release asks nobody whether it has a unit: a task without one
\* makes one.
SemaphoreRelease(t) ==
  /\ AtOnce(t)
  /\ value' = value + 1
  /\ IF holds[t] > 0
     THEN holds' = [holds EXCEPT ![t] = @ - 1] /\ UNCHANGED made
     ELSE made' = made + 1 /\ UNCHANGED holds
  /\ UNCHANGED <<gpio, timers, mutex, count>>

Next ==
  \E t \in Task :
    \/ \E p \in Pin : AllocScan(t, p) \/ FreeCheck(t, p) \/ Drive(t, p)
    \/ AllocOwner(t)
    \/ AllocPin(t)
    \/ FreeOwner(t)
    \/ FreePin(t)
    \/ Sleep(t)
    \/ \E l \in Lock : MutexGain(t, l)
    \/ SemaphoreGain(t)
    \/ SemaphoreGainFails(t)
    \/ SemaphoreRelease(t)

Spec == Init /\ [][Next]_vars

-----------------------------------------------------------------------------
\* Type invariant.
GpioTypeOK ==
  /\ owner \in [Entry -> Task \union {0}] /\ pin \in [Entry -> Pin \union {0}]
  /\ driver \in [Pin -> Task \union {NULL}]
  /\ asked \in [Task -> SUBSET Pin] /\ mixed \subseteq Task

TypeOK ==
  /\ GpioTypeOK
  /\ queue \in [head : Request \union {NULL}, tail : Request \union {NULL},
                next : [Request -> Request \union {NULL}]]
  /\ used \subseteq Request /\ mutex \subseteq Lock
  /\ {value, made} \subseteq Nat /\ holds \in [Task -> Nat]
  /\ count \in [Task -> 0..Limit]
  /\ at \in [Task -> Entry \union Request \union {NULL}]

\* A task without privilege drives a pin only if it has asked for that pin,
\* unless its allocation or its freeing met another one at the same entry, or
\* it is task 0, which a free entry seems to belong to (svc.c:226-232,
\* 249-258, 287-293).
DrivenByAsker ==
  \A p \in Pin : driver[p] # NULL =>
    driver[p] \in Privileged \union mixed \union {0} \/ p \in asked[driver[p]]

\* The requests that the queue leads to: those in every set that has its head
\* and the next one of each of its members.
Closed(led) ==
  /\ {queue.head} \ {NULL} \subseteq led
  /\ \A r \in led : {queue.next[r]} \ {NULL} \subseteq led

Reached == {r \in Request : \A led \in SUBSET Request : Closed(led) => r \in led}

\* When no call is at work, every request in use is in the queue, and its tail
\* is the end of it, unless two calls have had one request or have met in the
\* queue (svc.c:189-198, fwlist.c:109-120).
RequestsAreQueued ==
  Sleepers = {} /\ ~met =>
    /\ Reached = used
    /\ used # {} => queue.tail \in used /\ queue.next[queue.tail] = NULL

\* The units that tasks take themselves to have, each by its task and number.
Held == UNION {{t} \X (1..holds[t]) : t \in Task}

\* The units of the semaphore and of the tasks are those of the start and those
\* that came from nowhere, by a release without a unit or a gain without an
\* answer, as long as no list of peripherals is full: then units get lost, and
\* nothing tells how many (svc.c:516-529, 531-538).
UnitsConserved ==
  LET total == value + Cardinality(Held)
  IN  /\ total <= Units + made
      /\ (\A t \in Task : count[t] < Limit) => total = Units + made
=============================================================================
