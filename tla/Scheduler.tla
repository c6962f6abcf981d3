----------------------------- MODULE Scheduler -----------------------------
(***************************************************************************)
(* task_schaduler and task_dispatcher over the eight ready queues: how a   *)
(* task gets from the set-up in kernel() to a core, and where it is after  *)
(* a tick, a wait, a fault or a request to end.  All cores share the       *)
(* queues, the task blocks and the word pri_map; queues_lock is gained and *)
(* released, and keeps nobody out (module KernelLock): the core that finds *)
(* it free stays in its loop, the others pass.                             *)
(*                                                                         *)
(* One step of a core is one call of a queue function, or one access to    *)
(* pri_map, to a head or to the lock.  The queue functions are those of    *)
(* FwList, here on the bare links: the callers put one task in two queues  *)
(* and push NULL.  No code pushes to the created, waiting and terminated   *)
(* queues, and none sets bit 4 ("accessed before") of a task's flags: the  *)
(* walks over those queues and the migration branch have nothing to work   *)
(* on.  sch_ticks is compared as a pointer, so every call moves the level. *)
(* A field read through NULL may hold anything, but next, which is taken   *)
(* to be zero there; what is written through NULL hits nothing modelled.   *)
(*                                                                         *)
(* Nothing clears the headers of the queues: a ready queue may hold a task *)
(* block at power on (Memory);  the created, waiting and terminated queues *)
(* are taken to be empty.  When the dispatcher finds no successor, its     *)
(* caller goes on: kernel() returns to the end of retry_to_count and is    *)
(* entered again, svc_wait and a fault return to the task, and a tick runs *)
(* into the handler of the system timer, whose wakeup_service returns to   *)
(* that handler's start.  A tick in the last three calls of kernel() is    *)
(* left out.                                                               *)
(***************************************************************************)
EXTENDS Naturals

CONSTANTS
  Core,     \* the cores
  Task,     \* the task blocks; create_ktask looks at block 0 only
  NULL,
  Memory,   \* what the memory of the queues and the tasks may hold at power on
  Victim,   \* the tasks that memoryvisor may pick
  Walk      \* turns of the walk over a ready queue (128)

Level == 0..7

ASSUME SchedulerAssumption ==
  /\ Core \subseteq 0..3 /\ 0 \in Core
  /\ 0 \in Task /\ NULL \notin Task
  /\ Memory \subseteq [head : [Level -> Task \union {NULL}],
                      tail : [Level -> Task \union {NULL}],
                      status : [Task -> 0..3], tasks : [Core -> Task \union {NULL}],
                      lock : 0..1]
  /\ Walk \in Nat \ {0}

VARIABLES
  links,     \* head and tail of the ready queues, next of the tasks
  status,    \* 0 created, 1 ready, 2 running or waiting, 3 terminated
  priority,
  byte,      \* pri_map: the byte of core 0, the only one that is read back
  lock,      \* the word behind queues_lock
  tasks,     \* core_tasks
  valid,     \* whether block 0 is in use
  stale,     \* history: the ready queues that were not empty at power on
  pc,        \* where each core is
  back,      \* per core: where the dispatcher returns to
  services,  \* per core: what create_ktask returned
  cpri,      \* per core: the level it works on
  reg,       \* per core: the byte of pri_map between a load and a store
  here, turn \* per core: tmptask and i

bank   == <<valid, stale>>
kept   == <<services, back>>
shared == <<links, status, priority, byte, lock, tasks, bank>>
local  == <<kept, cpri, reg, here, turn>>
vars   == <<shared, pc, local>>

Pointer == Task \union {NULL}

\* Nothing clears the headers, the status of a block and core_tasks; next,
\* priority, pri_map and valid get their values before they are read.
Init ==
  /\ \E m \in Memory :
       /\ links = [head |-> m.head, tail |-> m.tail, next |-> [t \in Task |-> NULL]]
       /\ stale = {q \in Level : m.head[q] # NULL \/ m.tail[q] # NULL}
       /\ status = m.status /\ tasks = m.tasks /\ lock = m.lock
  /\ priority = [t \in Task |-> 7]
  /\ byte = 0
  /\ valid = FALSE
  /\ pc = [c \in Core |-> "setup"] /\ back = [c \in Core |-> "reset"]
  /\ services = [c \in Core |-> <<NULL, NULL>>]
  /\ cpri = [c \in Core |-> 0] /\ reg = [c \in Core |-> 0]
  /\ here = [c \in Core |-> NULL] /\ turn = [c \in Core |-> 0]

At(c, label) == pc[c] = label
Goto(c, label) == pc' = [pc EXCEPT ![c] = label]

\* The end of a call: its variables are forgotten.
Return(c, label) ==
  /\ Goto(c, label)
  /\ cpri' = [cpri EXCEPT ![c] = 0] /\ reg' = [reg EXCEPT ![c] = 0]
  /\ here' = [here EXCEPT ![c] = NULL] /\ turn' = [turn EXCEPT ![c] = 0]
  /\ UNCHANGED kept
With(f, t, value) == [u \in Task |-> IF u = t THEN value ELSE f[u]]

-----------------------------------------------------------------------------
\* The queue functions.
PushBack(L, q, t) ==
  IF L.head[q] = NULL /\ L.tail[q] = NULL
  THEN [L EXCEPT !.head[q] = t, !.tail[q] = t]
  ELSE [L EXCEPT !.next = With(@, L.tail[q], t), !.tail[q] = t]

\* fw_rm's walk: the task before and the task at index i (the last one when
\* i is the length); <<NULL, NULL>> when the queue is shorter.
Place(L, q, i) ==
  LET place[k \in 0..i] ==
        IF k = 0 THEN <<NULL, L.head[q]>>
        ELSE LET p == place[k - 1]
             IN  CASE p[2] = NULL -> p
                   [] L.next[p[2]] # NULL -> <<p[2], L.next[p[2]]>>
                   [] OTHER -> IF k = i THEN p ELSE <<NULL, NULL>>
  IN  place[i]

Rm(L, q, i) ==
  LET prev == Place(L, q, i)[1]
      t    == Place(L, q, i)[2]
  IN  IF L.head[q] = NULL \/ t = NULL THEN L
      ELSE CASE t = L.head[q] /\ t = L.tail[q] ->
                  [L EXCEPT !.head[q] = NULL, !.tail[q] = NULL]
             [] t = L.head[q] /\ t # L.tail[q] ->
                  [L EXCEPT !.head[q] = L.next[t], !.next = With(@, t, NULL)]
             [] t # L.head[q] /\ t = L.tail[q] ->
                  [L EXCEPT !.tail[q] = prev, !.next = With(@, prev, NULL)]
             [] OTHER -> L

Cut(L, t) == [L EXCEPT !.next = With(@, t, NULL)]

-----------------------------------------------------------------------------
\* kernel(): pri_map and the task blocks; every core does it, at its own time,
\* and again whenever its dispatcher comes back to kernel().
SetUp(c) ==
  /\ At(c, "setup")
  /\ byte' = 0
  /\ links' = [links EXCEPT !.next = [t \in Task |-> NULL]]
  /\ priority' = [t \in Task |-> 7]
  /\ valid' = FALSE
  /\ Goto(c, "create_power")
  /\ UNCHANGED <<status, lock, tasks, stale, local>>

\* create_ktask returns in the first turn of its loop: with block 0, or with
\* NULL if that is in use.  The status is left as it was.
CreateTask(c, k, pri) ==
  /\ services' = [services EXCEPT ![c][k] = IF valid THEN NULL ELSE 0]
  /\ priority' = IF valid THEN priority ELSE With(priority, 0, pri)
  /\ valid' = TRUE
  /\ UNCHANGED <<links, status, byte, lock, tasks, stale, back, cpri, reg, here, turn>>

CreatePower(c)  == At(c, "create_power") /\ Goto(c, "create_serial") /\ CreateTask(c, 1, 3)
CreateSerial(c) == At(c, "create_serial") /\ Goto(c, "push_power") /\ CreateTask(c, 2, 4)

\* kernel(): both services go to the ready queue of priority 3.
PushPower(c) ==
  /\ At(c, "push_power")
  /\ links' = PushBack(links, 3, services[c][1])
  /\ Goto(c, "push_serial")
  /\ UNCHANGED <<status, priority, byte, lock, tasks, bank, local>>

\* Mutation of PushSerial: the service goes to the queue of its priority.
PushSerialByPriority(c) ==
  /\ At(c, "push_serial")
  /\ links' = PushBack(links, 4, services[c][2])
  /\ services' = [services EXCEPT ![c] = <<NULL, NULL>>]
  /\ back' = [back EXCEPT ![c] = "setup"]
  /\ Goto(c, "visor")
  /\ UNCHANGED <<status, priority, byte, lock, tasks, bank, cpri, reg, here, turn>>

\* After the last push the interrupts are enabled.
PushSerial(c) ==
  /\ At(c, "push_serial")
  /\ links' = PushBack(links, 3, services[c][2])
  /\ services' = [services EXCEPT ![c] = <<NULL, NULL>>]
  /\ back' = [back EXCEPT ![c] = "setup"]
  /\ Goto(c, "visor")
  /\ UNCHANGED <<status, priority, byte, lock, tasks, bank, cpri, reg, here, turn>>

Boot(c) ==
  \/ SetUp(c)
  \/ CreatePower(c)
  \/ CreateSerial(c)
  \/ PushPower(c)
  \/ PushSerial(c)

-----------------------------------------------------------------------------
\* memoryvisor: some block is told to end (Tasks says which).
Visor(c) ==
  /\ At(c, "visor")
  /\ \E victim \in Victim : status' = With(status, victim, 3)
  /\ Goto(c, "level")
  /\ UNCHANGED <<links, priority, byte, lock, tasks, bank, local>>

\* *pri_map & (0xFF << cid * 8) in a u8_t: the byte of core 0, else 0.
LevelOf(c) == IF c = 0 THEN byte ELSE 0

\* task_schaduler and task_dispatcher read it before they ask for the lock.
ReadLevel(c, from, to) ==
  /\ At(c, from)
  /\ cpri' = [cpri EXCEPT ![c] = LevelOf(c)]
  /\ Goto(c, to)
  /\ UNCHANGED <<shared, kept, reg, here, turn>>

\* The lock idiom, as KernelLock describes it.
Gain(c, from, to) ==
  /\ At(c, from)
  /\ lock' = 1
  /\ Goto(c, IF lock = 0 THEN "stuck" ELSE to)
  /\ UNCHANGED <<links, status, priority, byte, tasks, bank, local>>

\* tmptask = ready_queues[NULL->priority]->head, compared with the task of the
\* core by their ids.
SameId(t, u) == IF NULL \in {t, u} /\ t # u THEN BOOLEAN ELSE {t = u}

\* Turn i of the comparing loop, when it finds the ids equal.  The task goes
\* from the queue p of its priority to the queue built_in_max(p + 1, 7) ...
Punish(c, p, i) ==
  /\ p < 7
  /\ status' = With(status, tasks[c], 1)
  /\ priority' = With(priority, tasks[c], 7)
  /\ links' = PushBack(Cut(Rm(links, p, i), tasks[c]), 7, tasks[c])
  /\ turn' = [turn EXCEPT ![c] = 1]
  /\ Goto(c, "punished")

\* ... and with priority 7, at the next turn, to ready_queues[8]: the core is
\* lost (priorities beyond 8 count as 8).
PunishBeyond(c, p, i) ==
  /\ p >= 7
  /\ status' = With(status, tasks[c], 1)
  /\ priority' = With(priority, tasks[c], 8)
  /\ links' = IF p = 7 THEN Cut(Rm(links, 7, i), tasks[c]) ELSE links
  /\ turn' = [turn EXCEPT ![c] = 0]
  /\ Goto(c, "astray")

PriorityOf(t) == IF t = NULL THEN Level ELSE {priority[t]}

PunishTurn(c, i) ==
  \E p \in PriorityOf(tasks[c]) : Punish(c, p, i) \/ PunishBeyond(c, p, i)

Compare(c) ==
  /\ At(c, "compare")
  /\ \E q \in Level :
       \/ /\ FALSE \in SameId(links.head[q], tasks[c])
          /\ Goto(c, "and_load")
          /\ UNCHANGED <<links, status, priority, turn>>
       \/ /\ TRUE \in SameId(links.head[q], tasks[c])
          /\ PunishTurn(c, 0)
  /\ UNCHANGED <<byte, lock, tasks, bank, kept, cpri, reg, here>>

\* Mutation of CompareAgain: the loop ends with the first match.
CompareOnce(c) ==
  /\ At(c, "punished")
  /\ Goto(c, "and_load")
  /\ turn' = [turn EXCEPT ![c] = 0]
  /\ UNCHANGED <<shared, kept, cpri, reg, here>>

\* Turns after the first, all at index 1.
CompareAgain(c) ==
  /\ At(c, "punished")
  /\ PunishTurn(c, turn[c])
  /\ UNCHANGED <<byte, lock, tasks, bank, kept, cpri, reg, here>>

\* *pri_map &= (0xFF << cid * 8), then *pri_map |= (cpri << cid * 8).
MapLoad(c, from, to) ==
  /\ At(c, from)
  /\ reg' = [reg EXCEPT ![c] = byte]
  /\ Goto(c, to)
  /\ UNCHANGED <<shared, kept, cpri, here, turn>>

AndStore(c) ==
  /\ At(c, "and_store")
  /\ byte' = IF c = 0 THEN reg[c] ELSE 0
  /\ cpri' = [cpri EXCEPT ![c] = (@ + 1) % 8]
  /\ Goto(c, "or_load")
  /\ reg' = [reg EXCEPT ![c] = 0]
  /\ UNCHANGED <<links, status, priority, lock, tasks, bank, kept, here, turn>>

Bit(n, weight) == (n \div weight) % 2
Or(m, n) ==
  LET bit(weight) == IF Bit(m, weight) + Bit(n, weight) = 0 THEN 0 ELSE weight
  IN  bit(1) + bit(2) + bit(4)

OrStore(c) ==
  /\ At(c, "or_store")
  /\ byte' = IF c = 0 THEN Or(reg[c], cpri[c]) ELSE reg[c]
  /\ reg' = [reg EXCEPT ![c] = 0]
  /\ Goto(c, "first")
  /\ UNCHANGED <<links, status, priority, lock, tasks, bank, kept, cpri, here, turn>>

\* The walk over the ready queue of the level.  A task in status 0 goes to
\* the queue with the number of the core, one in status 2 is dropped.
First(c) ==
  /\ At(c, "first")
  /\ here' = [here EXCEPT ![c] = links.head[cpri[c]]]
  /\ turn' = [turn EXCEPT ![c] = 0]
  /\ Goto(c, "walk")
  /\ UNCHANGED <<shared, kept, cpri, reg>>

HasNext(t) == t # NULL /\ links.next[t] # NULL

WalkTurn(c) ==
  LET t == here[c]
  IN  /\ At(c, "walk")
      /\ turn[c] < Walk /\ HasNext(t)
      /\ links' = CASE status[t] = 0 -> PushBack(Cut(links, t), c, t)
                    [] status[t] = 2 -> Cut(Rm(links, c, turn[c]), t)
                    [] OTHER -> links
      /\ here' = [here EXCEPT ![c] = links.next[t]]
      /\ turn' = [turn EXCEPT ![c] = @ + 1]
      /\ UNCHANGED <<status, priority, byte, lock, tasks, bank, pc, kept, cpri, reg>>

WalkEnd(c) ==
  /\ At(c, "walk")
  /\ turn[c] = Walk \/ ~HasNext(here[c])
  /\ Return(c, "dispatch")
  /\ UNCHANGED shared

Schaduler(c) ==
  \/ ReadLevel(c, "level", "gain")
  \/ Gain(c, "gain", "compare")
  \/ Compare(c)
  \/ CompareAgain(c)
  \/ MapLoad(c, "and_load", "and_store")
  \/ AndStore(c)
  \/ MapLoad(c, "or_load", "or_store")
  \/ OrStore(c)
  \/ First(c)
  \/ WalkTurn(c)
  \/ WalkEnd(c)

-----------------------------------------------------------------------------
\* task_dispatcher reads the head of the queue before it asks for the lock;
\* it runs that task if the task has a successor by then, and takes off the
\* head the queue has in the end.
ReadHead(c) ==
  /\ At(c, "head")
  /\ here' = [here EXCEPT ![c] = links.head[cpri[c]]]
  /\ Goto(c, "dgain")
  /\ UNCHANGED <<shared, kept, cpri, reg, turn>>

Choose(c) ==
  /\ At(c, "choose")
  /\ IF HasNext(here[c]) THEN Goto(c, "start") /\ UNCHANGED local
                         ELSE Return(c, back[c])
  /\ UNCHANGED shared

Start(c) ==
  /\ At(c, "start")
  /\ status' = [status EXCEPT ![here[c]] = 2]
  /\ tasks' = [tasks EXCEPT ![c] = here[c]]
  /\ links' = Cut(Rm(links, cpri[c], 0), here[c])
  /\ Return(c, "run")
  /\ UNCHANGED <<priority, byte, lock, bank>>

Dispatcher(c) ==
  \/ ReadLevel(c, "dispatch", "head")
  \/ ReadHead(c)
  \/ Gain(c, "dgain", "choose")
  \/ Choose(c)
  \/ Start(c)

-----------------------------------------------------------------------------
Booting == {"setup", "create_power", "create_serial", "push_power", "push_serial"}

\* Where the core takes interrupts.
Open(c) ==
  \/ pc[c] \in {"run", "ending"}
  \/ pc[c] \in Booting /\ back[c] # "reset"

\* The generic timer of the core; what was interrupted is gone, unless it is
\* the task of the core.
Tick(c) ==
  /\ Open(c)
  /\ Goto(c, "visor")
  /\ back' = [back EXCEPT ![c] = "timer"]
  /\ services' = [services EXCEPT ![c] = <<NULL, NULL>>]
  /\ UNCHANGED <<shared, cpri, reg, here, turn>>

\* svc_wait; built_in_max compares with sign, and 0 stays 0.
Wait(c) ==
  /\ At(c, "run")
  /\ status' = [status EXCEPT ![tasks[c]] = 2]
  /\ priority' = [priority EXCEPT ![tasks[c]] = IF @ = 0 THEN 0 ELSE @ - 1]
  /\ Goto(c, "level")
  /\ back' = [back EXCEPT ![c] = "run"]
  /\ UNCHANGED <<links, byte, lock, tasks, bank, services, cpri, reg, here, turn>>

\* The task is told to end; the core goes on from there.
End(c, to) ==
  /\ At(c, "run")
  /\ status' = [status EXCEPT ![tasks[c]] = 3]
  /\ Goto(c, to)
  /\ back' = [back EXCEPT ![c] = "run"]
  /\ UNCHANGED <<links, priority, byte, lock, tasks, bank, services, cpri, reg, here, turn>>

\* A fault of the task schedules at once, svc_termination_request waits for
\* the tick.
Fault(c)              == End(c, "level")
TerminationRequest(c) == End(c, "ending")

\* Mutation of Wakeup: the tasks that wait are put back into queue 3.
WakeupSweeping(c) ==
  /\ Open(c)
  /\ \E t \in Task : status[t] = 2 /\ links' = PushBack(links, 3, t)
  /\ UNCHANGED <<status, priority, byte, lock, tasks, bank, pc, local>>

\* wakeup_service, at a tick of the system timer and in every turn of the loop
\* that a tick without a successor leads to: the waiting queue is empty.
Wakeup(c) ==
  /\ Open(c) \/ At(c, "timer")
  /\ lock' = 1
  /\ pc' = [pc EXCEPT ![c] = IF lock = 0 THEN "stuck" ELSE @]
  /\ UNCHANGED <<links, status, priority, byte, tasks, bank, local>>

Next ==
  \E c \in Core :
    \/ Boot(c)
    \/ Visor(c)
    \/ Schaduler(c)
    \/ Dispatcher(c)
    \/ Tick(c)
    \/ Wait(c)
    \/ Fault(c)
    \/ TerminationRequest(c)
    \/ Wakeup(c)

Spec == Init /\ [][Next]_vars

-----------------------------------------------------------------------------
\* Type invariant.
TypeOK ==
  /\ links \in [head : [Level -> Pointer], tail : [Level -> Pointer],
                next : [Task -> Pointer]]
  /\ status \in [Task -> 0..3] /\ priority \in [Task -> 0..8]
  /\ byte \in 0..7 /\ lock \in 0..1
  /\ tasks \in [Core -> Pointer]
  /\ valid \in BOOLEAN /\ stale \subseteq Level
  /\ back \in [Core -> {"reset", "setup", "run", "timer"}]
  /\ services \in [Core -> Pointer \X Pointer]
  /\ cpri \in [Core -> Level] /\ reg \in [Core -> 0..7]
  /\ here \in [Core -> Pointer] /\ turn \in [Core -> 0..Walk]

\* The priority of a task decides nothing: a ready queue that is empty at power
\* on stays so, whatever priority a task was created with (4 for the serial
\* service) or was rewarded with by svc_wait, unless its number is 3, 7 or that
\* of a core (schaduler.c:98-100, 142, kernel.c:318-319).
OtherQueuesStayEmpty ==
  \A q \in Level \ (Core \union {3, 7} \union stale) : links.head[q] = NULL

\* A task gets to queue 7, if that is empty at power on, or to a priority that
\* is none, only through the punishment in task_schaduler, and the core that
\* punished it does not come back from there (schaduler.c:90-102).
PunishmentCostsACore ==
  (links.head[7] # NULL /\ 7 \notin stale) \/ (\E t \in Task : priority[t] = 8)
    => \E c \in Core : pc[c] \in {"punished", "astray"}

\* The tasks of led are all that the queues, cores and calls can get at.
Closed(led) ==
  /\ \A c \in Core : {tasks[c], here[c]} \ {NULL} \subseteq led
  /\ \A q \in Level : links.head[q] \in led \union {NULL}
  /\ \A t \in led : links.next[t] \in led \union {NULL}

Lost(t) == \E led \in SUBSET (Task \ {t}) : Closed(led)

\* After the start-up a task that is in no queue, is not the current task of
\* a core and is not held by a call stays so for ever: neither the end of a
\* wait nor a tick brings a task back that has once lost its core
\* (schaduler.c:142-148, svc.c:594-607).
LostStaysLost ==
  [][(\A c \in Core : pc[c] \notin Booting) => \A t \in Task : Lost(t) => Lost(t)']_vars

=============================================================================
