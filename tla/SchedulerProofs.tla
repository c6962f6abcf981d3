-------------------------- MODULE SchedulerProofs --------------------------
(***************************************************************************)
(* Proofs about Scheduler, for any cores, tasks and victims and whatever   *)
(* the memory of the queues holds at power on: which ready queues can come *)
(* into use, and what the punishment in task_schaduler costs.              *)
(*                                                                         *)
(* The walk of fw_rm (Place) stays opaque: whatever task it finds, fw_rm   *)
(* changes the ends of the queue it is given only, and nothing if that     *)
(* queue has no head.                                                      *)
(***************************************************************************)
EXTENDS Scheduler, TLAPS

\* The queues that come into use by a push, and those that must stay empty.
Pushed == Core \union {3, 7}
Idle   == Level \ (Pushed \union stale)

\* The links, whatever they lead to.
Links(V) == [head : [Level -> V], tail : [Level -> V], next : [Task -> V]]

Shape(L) == \E V : L \in Links(V)

Registers ==
  /\ pc = [c \in Core |-> pc[c]]
  /\ cpri = [c \in Core |-> cpri[c]]
  /\ here = [c \in Core |-> here[c]]
  /\ tasks = [c \in Core |-> tasks[c]]
  /\ back \in [Core -> {"reset", "setup", "run", "timer"}]

\* The queues of qs have no head.
Headless(L, qs) == \A q \in qs : L.head[q] = NULL

QueueInv ==
  /\ Shape(links) /\ Headless(links, Idle)
  /\ Registers

-----------------------------------------------------------------------------
\* M has the ends of L, but for those of queue q.
Others(L, M, q) ==
  \A p \in Level : p # q => M.head[p] = L.head[p] /\ M.tail[p] = L.tail[p]

\* The push changes the ends of its own queue only.
LEMMA PushOthers ==
  ASSUME NEW L, Shape(L), NEW q, NEW t
  PROVE  Shape(PushBack(L, q, t)) /\ Others(L, PushBack(L, q, t), q)
<1>1. PICK V : L \in Links(V)
  BY DEF Shape
<1>2. PushBack(L, q, t) \in Links(V \union {t})
  BY <1>1 DEF Links, PushBack, With
<1>3. Others(L, PushBack(L, q, t), q)
  BY <1>1 DEF Links, PushBack, With, Others
<1> QED BY <1>2, <1>3 DEF Shape

\* Cutting a task off changes no end.
LEMMA CutEnds ==
  ASSUME NEW L, Shape(L), NEW t
  PROVE  Shape(Cut(L, t)) /\ Cut(L, t).head = L.head /\ Cut(L, t).tail = L.tail
<1>1. PICK V : L \in Links(V)
  BY DEF Shape
<1>2. /\ Cut(L, t) \in Links(V \union {NULL})
      /\ Cut(L, t).head = L.head /\ Cut(L, t).tail = L.tail
  BY <1>1 DEF Links, Cut, With
<1> QED BY <1>2 DEF Shape

\* fw_rm changes the ends of its own queue only, and nothing if that queue has
\* no head.
LEMMA RmOthers ==
  ASSUME NEW L, Shape(L), NEW q, NEW i
  PROVE  /\ Shape(Rm(L, q, i)) /\ Others(L, Rm(L, q, i), q)
         /\ L.head[q] = NULL => Rm(L, q, i) = L
<1> DEFINE prev  == Place(L, q, i)[1]
           t     == Place(L, q, i)[2]
           only  == [L EXCEPT !.head[q] = NULL, !.tail[q] = NULL]
           first == [L EXCEPT !.head[q] = L.next[t], !.next = With(@, t, NULL)]
           last  == [L EXCEPT !.tail[q] = prev, !.next = With(@, prev, NULL)]
<1>1. PICK V : L \in Links(V)
  BY DEF Shape
<1>2. /\ Rm(L, q, i) \in {L, only, first, last}
      /\ L.head[q] = NULL => Rm(L, q, i) = L
  BY DEF Rm
<1>3. Shape(L) /\ Others(L, L, q)
  BY DEF Others
<1>4. Shape(only) /\ Others(L, only, q)
  <2>1. only \in Links(V \union {NULL}) /\ Others(L, only, q)
    BY <1>1 DEF Links, Others
  <2> QED BY <2>1 DEF Shape
<1>5. Shape(first) /\ Others(L, first, q)
  <2> DEFINE x == L.next[t]
  <2>1. first \in Links(V \union {NULL, x}) /\ Others(L, first, q)
    <3> HIDE DEF t
    <3> QED BY <1>1 DEF Links, Others, With
  <2> QED BY <2>1 DEF Shape
<1>6. Shape(last) /\ Others(L, last, q)
  <2>1. last \in Links(V \union {NULL, prev}) /\ Others(L, last, q)
    <3> HIDE DEF prev
    <3> QED BY <1>1 DEF Links, Others, With
  <2> QED BY <2>1 DEF Shape
<1> HIDE DEF only, first, last
<1> QED BY <1>2, <1>3, <1>4, <1>5, <1>6

-----------------------------------------------------------------------------
LEMMA RmHeadless ==
  ASSUME NEW L, Shape(L), NEW qs \in SUBSET Level, Headless(L, qs), NEW q, NEW i
  PROVE  Shape(Rm(L, q, i)) /\ Headless(Rm(L, q, i), qs)
<1> SUFFICES ASSUME NEW p \in qs PROVE Rm(L, q, i).head[p] = NULL
  BY RmOthers DEF Headless
<1>1. CASE p = q
  BY <1>1, RmOthers DEF Headless
<1>2. CASE p # q
  BY <1>2, RmOthers DEF Headless, Others
<1> QED BY <1>1, <1>2

LEMMA CutHeadless ==
  ASSUME NEW L, Shape(L), NEW qs \in SUBSET Level, Headless(L, qs), NEW t
  PROVE  Shape(Cut(L, t)) /\ Headless(Cut(L, t), qs)
  BY CutEnds DEF Headless

LEMMA PushHeadless ==
  ASSUME NEW L, Shape(L), NEW qs \in SUBSET Level, Headless(L, qs), NEW q, q \notin qs, NEW t
  PROVE  Shape(PushBack(L, q, t)) /\ Headless(PushBack(L, q, t), qs)
  BY PushOthers DEF Headless, Others

\* The punishment puts a task into queue 7 or into none.
LEMMA PunishHeadless ==
  ASSUME QueueInv, NEW c \in Core, NEW i, PunishTurn(c, i),
         NEW qs \in SUBSET Level, Headless(links, qs), 7 \notin qs
  PROVE  Shape(links') /\ Headless(links', qs)
<1>1. PICK p \in PriorityOf(tasks[c]) : Punish(c, p, i) \/ PunishBeyond(c, p, i)
  BY DEF PunishTurn
<1> DEFINE L1 == Rm(links, p, i)
           L2 == Cut(L1, tasks[c])
           L3 == PushBack(L2, 7, tasks[c])
           M1 == Rm(links, 7, i)
           M2 == Cut(M1, tasks[c])
<1>2. links' \in {links, L3, M2}
  BY <1>1 DEF Punish, PunishBeyond
<1>3. Shape(links)
  BY DEF QueueInv
<1>4. Shape(L1) /\ Headless(L1, qs)
  BY <1>3, RmHeadless
<1>5. Shape(L2) /\ Headless(L2, qs)
  <2> HIDE DEF L1
  <2> QED BY <1>4, CutHeadless
<1>6. Shape(L3) /\ Headless(L3, qs)
  <2> HIDE DEF L2
  <2> QED BY <1>5, PushHeadless
<1>7. Shape(M1) /\ Headless(M1, qs)
  BY <1>3, RmHeadless
<1>8. Shape(M2) /\ Headless(M2, qs)
  <2> HIDE DEF M1
  <2> QED BY <1>7, CutHeadless
<1> HIDE DEF L3, M2
<1> QED BY <1>2, <1>3, <1>6, <1>8

\* Every step but a punishment: the queues it does not push to and that have no
\* head get none.
LEMMA OtherSteps ==
  ASSUME QueueInv, NEW c \in Core,
         SetUp(c) \/ PushPower(c) \/ PushSerial(c) \/ WalkTurn(c) \/ Start(c),
         NEW qs \in SUBSET Level, Headless(links, qs), qs \intersect (Core \union {3}) = {}
  PROVE  Shape(links') /\ Headless(links', qs)
<1>1. Shape(links)
  BY DEF QueueInv
<1>2. CASE SetUp(c)
  <2>1. PICK V : links \in Links(V)
    BY <1>1 DEF Shape
  <2>2. links' \in Links(V \union {NULL}) /\ links'.head = links.head
    BY <1>2, <2>1 DEF SetUp, Links
  <2> QED BY <2>2 DEF Shape, Headless
<1>3. CASE PushPower(c) \/ PushSerial(c)
  <2>1. \E t : links' = PushBack(links, 3, t)
    BY <1>3 DEF PushPower, PushSerial
  <2> QED BY <1>1, <2>1, PushHeadless
<1>4. CASE WalkTurn(c)
  <2> DEFINE t == here[c]
             L1 == Rm(links, c, turn[c])
             L2 == Cut(links, t)
             L3 == PushBack(L2, c, t)
             M2 == Cut(L1, t)
  <2>1. links' \in {L3, M2, links}
    BY <1>4 DEF WalkTurn
  <2>2. Shape(L1) /\ Headless(L1, qs)
    BY <1>1, RmHeadless
  <2>3. Shape(M2) /\ Headless(M2, qs)
    <3> HIDE DEF L1
    <3> QED BY <2>2, CutHeadless
  <2>4. Shape(L2) /\ Headless(L2, qs)
    BY <1>1, CutHeadless
  <2>5. Shape(L3) /\ Headless(L3, qs)
    <3> HIDE DEF L2
    <3> QED BY <2>4, PushHeadless
  <2> HIDE DEF L3, M2
  <2> QED BY <1>1, <2>1, <2>3, <2>5
<1>5. CASE Start(c)
  <2> DEFINE L1 == Rm(links, cpri[c], 0)
  <2>1. Shape(L1) /\ Headless(L1, qs)
    BY <1>1, RmHeadless
  <2>2. Shape(Cut(L1, here[c])) /\ Headless(Cut(L1, here[c]), qs)
    <3> HIDE DEF L1
    <3> QED BY <2>1, CutHeadless
  <2> QED BY <1>5, <2>2 DEF Start
<1> QED BY <1>2, <1>3, <1>4, <1>5

\* What was in the queues at power on is not written again.
LEMMA StaleStays == [Next]_vars => UNCHANGED stale
  BY DEF Next, vars, shared, bank, local, Boot, SetUp, CreateTask, CreatePower, CreateSerial,
     PushPower, PushSerial, Visor, Schaduler, Dispatcher, ReadLevel, Gain, Compare, CompareAgain,
     MapLoad, AndStore, OrStore, First, WalkTurn, WalkEnd, ReadHead, Choose, Start, Tick,
     Wait, End, Fault, TerminationRequest, Wakeup

\* Every step keeps the idle queues empty.
LEMMA LinksStep ==
  ASSUME QueueInv, [Next]_vars
  PROVE  Shape(links') /\ Headless(links', Idle)
<1>1. Shape(links) /\ Headless(links, Idle)
  BY DEF QueueInv
<1>2. CASE UNCHANGED links
  BY <1>1, <1>2 DEF Shape, Headless
<1> SUFFICES ASSUME NEW c \in Core, links' # links,
                    SetUp(c) \/ PushPower(c) \/ PushSerial(c) \/ Compare(c)
                      \/ CompareAgain(c) \/ WalkTurn(c) \/ Start(c)
             PROVE  Shape(links') /\ Headless(links', Idle)
  BY <1>2 DEF Next, vars, shared, Boot, CreateTask, CreatePower, CreateSerial, Visor, Schaduler,
     Dispatcher, ReadLevel, Gain, MapLoad, AndStore, OrStore, First, WalkEnd, ReadHead,
     Choose, Tick, Wait, End, Fault, TerminationRequest, Wakeup
<1>3. CASE Compare(c) \/ CompareAgain(c)
  <2>1. PunishTurn(c, 0) \/ PunishTurn(c, turn[c])
    BY <1>3 DEF Compare, CompareAgain
  <2> QED BY <1>1, <2>1, PunishHeadless DEF Idle, Pushed
<1> QED BY <1>1, <1>3, OtherSteps DEF Idle, Pushed

\* The registers stay functions of the cores.
LEMMA RegistersStep ==
  ASSUME QueueInv, [Next]_vars
  PROVE  Registers'
<1>1. CASE UNCHANGED vars
  BY <1>1 DEF QueueInv, vars, shared, local, kept, Registers
<1> SUFFICES ASSUME NEW c \in Core,
                    Boot(c) \/ Visor(c) \/ Schaduler(c) \/ Dispatcher(c) \/ Tick(c)
                      \/ Wait(c) \/ Fault(c) \/ TerminationRequest(c) \/ Wakeup(c)
             PROVE  Registers'
  BY <1>1 DEF Next
<1> USE DEF QueueInv, Registers, Goto, At, Return, local, shared, kept
<1>2. CASE Boot(c) \/ Visor(c)
  BY <1>2 DEF Boot, SetUp, CreateTask, CreatePower, CreateSerial, PushPower, PushSerial, Visor
<1>3. CASE \/ ReadLevel(c, "level", "gain") \/ ReadLevel(c, "dispatch", "head")
           \/ Gain(c, "gain", "compare") \/ Gain(c, "dgain", "choose")
  BY <1>3 DEF ReadLevel, Gain
<1>4. CASE Compare(c) \/ CompareAgain(c)
  BY <1>4 DEF Compare, CompareAgain, PunishTurn, Punish, PunishBeyond
<1>5. CASE \/ MapLoad(c, "and_load", "and_store") \/ MapLoad(c, "or_load", "or_store")
           \/ AndStore(c) \/ OrStore(c)
  BY <1>5 DEF MapLoad, AndStore, OrStore
<1>6. CASE First(c) \/ WalkTurn(c) \/ WalkEnd(c)
  BY <1>6 DEF First, WalkTurn, WalkEnd
<1>7. CASE ReadHead(c) \/ Choose(c) \/ Start(c)
  BY <1>7 DEF ReadHead, Choose, Start
<1>8. CASE Tick(c) \/ Wait(c) \/ Fault(c) \/ TerminationRequest(c) \/ Wakeup(c)
  BY <1>8 DEF Tick, Wait, End, Fault, TerminationRequest, Wakeup
<1> QED
  BY <1>2, <1>3, <1>4, <1>5, <1>6, <1>7, <1>8 DEF Schaduler, Dispatcher

LEMMA QueueInit == Init => QueueInv
<1> SUFFICES ASSUME Init PROVE QueueInv
  OBVIOUS
<1>1. PICK m \in Memory :
        /\ links = [head |-> m.head, tail |-> m.tail, next |-> [t \in Task |-> NULL]]
        /\ stale = {q \in Level : m.head[q] # NULL \/ m.tail[q] # NULL}
        /\ status = m.status /\ tasks = m.tasks /\ lock = m.lock
  BY DEF Init
<1>2. /\ m.head \in [Level -> Pointer] /\ m.tail \in [Level -> Pointer]
      /\ m.tasks \in [Core -> Pointer]
  BY SchedulerAssumption DEF Pointer
<1>3. links \in Links(Pointer)
  BY <1>1, <1>2 DEF Links, Pointer
<1>4. Headless(links, Idle)
  BY <1>1 DEF Headless, Idle
<1>5. Registers
  BY <1>1, <1>2 DEF Init, Registers
<1> QED BY <1>3, <1>4, <1>5 DEF QueueInv, Shape

LEMMA QueueStep == QueueInv /\ [Next]_vars => QueueInv'
<1> SUFFICES ASSUME QueueInv, [Next]_vars PROVE QueueInv'
  OBVIOUS
<1>1. Idle' = Idle
  BY StaleStays DEF Idle
<1> QED BY <1>1, LinksStep, RegistersStep DEF QueueInv, Headless, Shape

LEMMA QueueInvHolds == Spec => []QueueInv
  BY QueueInit, QueueStep, PTL DEF Spec

\* For any number of cores and tasks, and whatever is left in the other queues:
\* a ready queue that is empty at power on stays empty, unless it is 3, 7 or
\* has the number of a core (schaduler.c:98-100, 142, kernel.c:318-319).
THEOREM OthersStayEmpty == Spec => []OtherQueuesStayEmpty
<1>1. QueueInv => OtherQueuesStayEmpty
  BY DEF QueueInv, OtherQueuesStayEmpty, Headless, Idle, Pushed
<1> QED BY QueueInvHolds, <1>1, PTL

-----------------------------------------------------------------------------
\* A core that has punished a task does not leave that loop.
Struck == \E c \in Core : pc[c] \in {"punished", "astray"}

PriorityInv ==
  /\ priority \in [Task -> 0..8]
  /\ ~Struck => /\ Headless(links, {7} \ stale)
                /\ \A t \in Task : priority[t] # 8

LEMMA StruckStays ==
  ASSUME QueueInv, [Next]_vars, Struck
  PROVE  Struck'
<1>1. PICK c \in Core : pc[c] \in {"punished", "astray"}
  BY DEF Struck
<1>2. CASE UNCHANGED vars
  BY <1>1, <1>2 DEF Struck, vars
<1>3. ASSUME NEW d \in Core,
             Boot(d) \/ Visor(d) \/ Schaduler(d) \/ Dispatcher(d) \/ Tick(d)
               \/ Wait(d) \/ Fault(d) \/ TerminationRequest(d) \/ Wakeup(d)
      PROVE  pc'[c] \in {"punished", "astray"}
  <2> USE <1>1, <1>3 DEF QueueInv, Registers, Goto, At, Return
  <2>1. CASE Boot(d) \/ Visor(d)
    BY <2>1 DEF Boot, SetUp, CreateTask, CreatePower, CreateSerial, PushPower, PushSerial, Visor
  <2>2. CASE Schaduler(d)
    BY <2>2 DEF Schaduler, ReadLevel, Gain, Compare, CompareAgain, PunishTurn,
       Punish, PunishBeyond, MapLoad, AndStore, OrStore, First, WalkTurn, WalkEnd
  <2>3. CASE Dispatcher(d)
    BY <2>3 DEF Dispatcher, ReadLevel, ReadHead, Gain, Choose, Start, local
  <2>4. CASE Tick(d) \/ Wait(d) \/ Fault(d) \/ TerminationRequest(d) \/ Wakeup(d)
    BY <2>4 DEF Tick, Wait, End, Fault, TerminationRequest, Wakeup, Open, Booting
  <2> QED BY <2>1, <2>2, <2>3, <2>4
<1> QED BY <1>2, <1>3 DEF Next, Struck

LEMMA PriorityType ==
  ASSUME PriorityInv, [Next]_vars
  PROVE  priority' \in [Task -> 0..8]
<1> USE DEF PriorityInv
<1>1. CASE UNCHANGED priority
  BY <1>1
<1>2. ASSUME NEW c \in Core, SetUp(c) \/ CreatePower(c) \/ CreateSerial(c)
      PROVE  priority' \in [Task -> 0..8]
  BY <1>2 DEF SetUp, CreateTask, CreatePower, CreateSerial, With
<1>3. ASSUME NEW c \in Core, Compare(c) \/ CompareAgain(c)
      PROVE  priority' \in [Task -> 0..8]
  <2>1. UNCHANGED priority \/ \E t : \E n \in {7, 8} : priority' = With(priority, t, n)
    BY <1>3 DEF Compare, CompareAgain, PunishTurn, Punish, PunishBeyond
  <2> QED BY <2>1 DEF With
<1>4. ASSUME NEW c \in Core, Wait(c)
      PROVE  priority' \in [Task -> 0..8]
  <2> DEFINE t == tasks[c]
             n == IF priority[t] = 0 THEN 0 ELSE priority[t] - 1
  <2>1. priority' = [priority EXCEPT ![t] = n]
    BY <1>4 DEF Wait
  <2>2. t \in Task => n \in 0..8
    OBVIOUS
  <2> QED BY <2>1, <2>2
<1> QED
  BY <1>1, <1>2, <1>3, <1>4 DEF Next, vars, shared, Boot, PushPower, PushSerial,
     Visor, Schaduler, Dispatcher, ReadLevel, Gain, MapLoad, AndStore, OrStore,
     First, WalkTurn, WalkEnd, ReadHead, Choose, Start, Tick, End,
     Fault, TerminationRequest, Wakeup

\* Without a punishment nothing gets to queue 7 or to priority 8.
LEMMA Unpunished ==
  ASSUME QueueInv, PriorityInv, ~Struck, [Next]_vars, ~Struck'
  PROVE  Headless(links', {7} \ stale) /\ \A t \in Task : priority'[t] # 8
<1>1. Headless(links, {7} \ stale) /\ \A t \in Task : priority[t] # 8
  BY DEF PriorityInv
<1>2. CASE UNCHANGED <<links, priority>>
  BY <1>1, <1>2 DEF Headless
<1>3. ASSUME NEW c \in Core, Compare(c) \/ CompareAgain(c)
      PROVE  UNCHANGED <<links, priority>>
  BY <1>3 DEF Compare, CompareAgain, PunishTurn, Punish, PunishBeyond, Goto,
     Struck, QueueInv, Registers, At
<1>4. ASSUME NEW c \in Core, CreatePower(c) \/ CreateSerial(c) \/ Wait(c)
      PROVE  UNCHANGED links /\ \A t \in Task : priority'[t] # 8
  BY <1>1, <1>4 DEF CreateTask, CreatePower, CreateSerial, Wait, With, PriorityInv
<1>5. ASSUME NEW c \in Core,
             SetUp(c) \/ PushPower(c) \/ PushSerial(c) \/ WalkTurn(c) \/ Start(c)
      PROVE  Headless(links', {7} \ stale) /\ \A t \in Task : priority'[t] # 8
  <2>1. Headless(links', {7} \ stale)
    BY <1>1, <1>5, OtherSteps, SchedulerAssumption DEF Level
  <2>2. \A t \in Task : priority'[t] # 8
    BY <1>1, <1>5 DEF SetUp, PushPower, PushSerial, WalkTurn, Start
  <2> QED BY <2>1, <2>2
<1> QED
  BY <1>1, <1>2, <1>3, <1>4, <1>5
     DEF Headless, Next, vars, shared, Boot, Visor, Schaduler, Dispatcher, ReadLevel, Gain,
     MapLoad, AndStore, OrStore, First, WalkEnd, ReadHead, Choose, Tick, End,
     Fault, TerminationRequest, Wakeup

LEMMA PriorityStep == QueueInv /\ PriorityInv /\ [Next]_vars => PriorityInv'
<1> SUFFICES ASSUME QueueInv, PriorityInv, [Next]_vars PROVE PriorityInv'
  OBVIOUS
<1>1. CASE Struck
  BY <1>1, StruckStays, PriorityType DEF PriorityInv
<1>2. CASE ~Struck
  <2>1. ~Struck' => Headless(links', {7} \ stale') /\ \A t \in Task : priority'[t] # 8
    BY <1>2, Unpunished, StaleStays
  <2> QED BY <2>1, PriorityType DEF PriorityInv, Headless
<1> QED BY <1>1, <1>2

\* Queue 7, and a priority beyond the last, are reached only at the price of a
\* core (schaduler.c:90-102), for any number of cores and tasks.
THEOREM PunishmentPaid == Spec => []PunishmentCostsACore
<1>1. Init /\ QueueInv => PriorityInv
  <2> SUFFICES ASSUME Init, QueueInv PROVE PriorityInv
    OBVIOUS
  <2>1. Headless(links, {7} \ stale)
    BY DEF Init, Headless, Level
  <2> QED BY <2>1 DEF Init, PriorityInv
<1>2. QueueInv /\ PriorityInv /\ [Next]_vars => PriorityInv'
  BY PriorityStep
<1>3. PriorityInv => PunishmentCostsACore
  BY DEF PriorityInv, PunishmentCostsACore, Struck, Headless
<1> QED BY <1>1, <1>2, <1>3, QueueInvHolds, PTL DEF Spec

-----------------------------------------------------------------------------
(* What a set of tasks that has all there is to get at keeps: after the     *)
(* start-up every pointer that a step stores comes from that set.           *)

\* The ends and the links of L lead into W only.
Good(L, W) ==
  /\ \A q \in Level : L.head[q] \in W \union {NULL}
  /\ \A t \in W : L.next[t] \in W \union {NULL}

LEMMA PushGood ==
  ASSUME NEW L, Shape(L), NEW W \in SUBSET Task, Good(L, W), NEW q, NEW t \in W \union {NULL}
  PROVE  Shape(PushBack(L, q, t)) /\ Good(PushBack(L, q, t), W)
<1>1. PICK V : L \in Links(V)
  BY DEF Shape
<1>2. Good(PushBack(L, q, t), W)
  BY <1>1 DEF Links, PushBack, With, Good
<1> QED BY <1>2, PushOthers

LEMMA CutGood ==
  ASSUME NEW L, Shape(L), NEW W \in SUBSET Task, Good(L, W), NEW t
  PROVE  Shape(Cut(L, t)) /\ Good(Cut(L, t), W)
<1>1. PICK V : L \in Links(V)
  BY DEF Shape
<1>2. Good(Cut(L, t), W)
  BY <1>1 DEF Links, Cut, With, Good
<1> QED BY <1>2, CutEnds

\* A head that is taken off leaves its successor.
LEMMA RmGood ==
  ASSUME NEW L, Shape(L), NEW W \in SUBSET Task, Good(L, W), NEW q \in Level, NEW i
  PROVE  Shape(Rm(L, q, i)) /\ Good(Rm(L, q, i), W)
<1> DEFINE prev  == Place(L, q, i)[1]
           t     == Place(L, q, i)[2]
           only  == [L EXCEPT !.head[q] = NULL, !.tail[q] = NULL]
           first == [L EXCEPT !.head[q] = L.next[t], !.next = With(@, t, NULL)]
           last  == [L EXCEPT !.tail[q] = prev, !.next = With(@, prev, NULL)]
<1>1. PICK V : L \in Links(V)
  BY DEF Shape
<1>2. \/ Rm(L, q, i) \in {L, only, last}
      \/ Rm(L, q, i) = first /\ t = L.head[q] /\ t # NULL
  BY DEF Rm
<1>3. Good(only, W)
  BY <1>1 DEF Links, Good
<1>4. Good(last, W)
  <2> HIDE DEF prev
  <2> QED BY <1>1 DEF Links, Good, With
<1>5. t = L.head[q] /\ t # NULL => Good(first, W)
  <2> SUFFICES ASSUME t = L.head[q], t # NULL PROVE Good(first, W)
    OBVIOUS
  <2>1. t \in W /\ L.next[t] \in W \union {NULL}
    BY DEF Good
  <2> HIDE DEF t
  <2> QED BY <1>1, <2>1 DEF Links, Good, With
<1> HIDE DEF only, first, last
<1> QED BY <1>2, <1>3, <1>4, <1>5, RmOthers

\* All the pointers of the system lead into W.
Led(W) == Good(links, W) /\ \A c \in Core : {tasks[c], here[c]} \subseteq W \union {NULL}

LEMMA PunishGood ==
  ASSUME QueueInv, PriorityInv, NEW W \in SUBSET Task, Led(W), NEW c \in Core, NEW i, PunishTurn(c, i)
  PROVE  Good(links', W)
<1>1. PICK p \in PriorityOf(tasks[c]) : Punish(c, p, i) \/ PunishBeyond(c, p, i)
  BY DEF PunishTurn
<1> DEFINE L1 == Rm(links, p, i)
           L2 == Cut(L1, tasks[c])
           L3 == PushBack(L2, 7, tasks[c])
           M1 == Rm(links, 7, i)
           M2 == Cut(M1, tasks[c])
<1>2. \/ links' = links \/ links' = M2
      \/ links' = L3 /\ p < 7
  BY <1>1 DEF Punish, PunishBeyond
<1>3. Shape(links) /\ Good(links, W) /\ tasks[c] \in W \union {NULL}
  BY DEF QueueInv, Led
<1>4. Shape(M1) /\ Good(M1, W)
  BY <1>3, RmGood DEF Level
<1>5. Good(M2, W)
  <2> HIDE DEF M1
  <2> QED BY <1>4, CutGood
<1>6. p \in Level => Shape(L1) /\ Good(L1, W)
  BY <1>3, RmGood
<1>7. p \in Level => Shape(L2) /\ Good(L2, W)
  <2> HIDE DEF L1
  <2> QED BY <1>6, CutGood
<1>8. p \in Level => Good(L3, W)
  <2> HIDE DEF L2
  <2> QED BY <1>3, <1>7, PushGood
<1>9. p < 7 => p \in Level
  BY <1>3 DEF PriorityOf, PriorityInv, Level
<1> HIDE DEF L3, M2
<1> QED BY <1>2, <1>3, <1>5, <1>8, <1>9

\* The level of a core, whatever the updates of pri_map lose, is a level.
LevelInv ==
  /\ byte \in 0..7
  /\ cpri \in [Core -> Level] /\ reg \in [Core -> 0..7]

LEMMA OrType ==
  ASSUME NEW m, NEW n
  PROVE  Or(m, n) \in 0..7
  BY DEF Or

LEMMA LevelStep == LevelInv /\ [Next]_vars => LevelInv'
<1> SUFFICES ASSUME LevelInv, [Next]_vars PROVE LevelInv'
  OBVIOUS
<1> USE DEF LevelInv, Level
<1>1. CASE UNCHANGED <<byte, cpri, reg>>
  BY <1>1
<1>2. SUFFICES ASSUME NEW c \in Core,
                      SetUp(c) \/ Schaduler(c) \/ Dispatcher(c)
               PROVE  LevelInv'
  BY <1>1 DEF Next, vars, shared, local, Boot, CreateTask, CreatePower, CreateSerial,
     PushPower, PushSerial, Visor, Tick, Wait, End, Fault, TerminationRequest, Wakeup
<1> USE DEF shared, local, Return
<1>3. CASE SetUp(c)
  BY <1>3 DEF SetUp
<1>4. CASE Schaduler(c)
  <2>1. CASE ReadLevel(c, "level", "gain")
    BY <2>1 DEF ReadLevel, LevelOf
  <2>2. CASE \/ Gain(c, "gain", "compare") \/ Compare(c) \/ CompareAgain(c)
             \/ First(c) \/ WalkTurn(c)
    BY <1>1, <2>2 DEF Gain, Compare, CompareAgain, First, WalkTurn
  <2>3. CASE MapLoad(c, "and_load", "and_store") \/ MapLoad(c, "or_load", "or_store")
    BY <2>3 DEF MapLoad
  <2>4. CASE AndStore(c)
    BY <2>4 DEF AndStore
  <2>5. CASE OrStore(c)
    <3>1. byte' \in 0..7
      BY <2>5, OrType DEF OrStore
    <3> QED BY <2>5, <3>1 DEF OrStore
  <2>6. CASE WalkEnd(c)
    BY <2>6 DEF WalkEnd
  <2> QED BY <1>4, <2>1, <2>2, <2>3, <2>4, <2>5, <2>6 DEF Schaduler
<1>5. CASE Dispatcher(c)
  BY <1>5 DEF Dispatcher, ReadLevel, LevelOf, Gain, ReadHead, Choose, Start
<1> QED BY <1>2, <1>3, <1>4, <1>5

\* A step after the start-up stores no pointer from elsewhere.
LEMMA StepLed ==
  ASSUME QueueInv, PriorityInv, LevelInv, NEW W \in SUBSET Task, Led(W),
         \A c \in Core : pc[c] \notin Booting, [Next]_vars
  PROVE  Led(W)'
<1>1. Good(links, W) /\ Shape(links) /\ \A c \in Core : {tasks[c], here[c]} \subseteq W \union {NULL}
  BY DEF Led, QueueInv
<1>2. CASE UNCHANGED <<links, tasks, here>>
  BY <1>2 DEF Led, Good
<1>3. SUFFICES ASSUME NEW c \in Core,
                      Schaduler(c) \/ Dispatcher(c)
               PROVE  Led(W)'
  BY <1>2 DEF Next, vars, shared, local, Boot, SetUp, CreateTask, CreatePower, CreateSerial, PushPower, PushSerial, At, Booting, Visor,
     Tick, Wait, End, Fault, TerminationRequest, Wakeup
<1> USE DEF QueueInv, Registers, shared, local, Return, Goto, At
<1>4. CASE \/ ReadLevel(c, "level", "gain") \/ ReadLevel(c, "dispatch", "head")
           \/ Gain(c, "gain", "compare") \/ Gain(c, "dgain", "choose")
           \/ MapLoad(c, "and_load", "and_store") \/ MapLoad(c, "or_load", "or_store")
           \/ AndStore(c) \/ OrStore(c)
  BY <1>2, <1>4 DEF ReadLevel, Gain, MapLoad, AndStore, OrStore
<1>5. CASE Compare(c) \/ CompareAgain(c)
  <2>1. UNCHANGED <<tasks, here>>
    BY <1>5 DEF Compare, CompareAgain
  <2>2. UNCHANGED links \/ PunishTurn(c, 0) \/ PunishTurn(c, turn[c])
    BY <1>5 DEF Compare, CompareAgain
  <2>3. Good(links', W)
    BY <1>1, <2>2, PunishGood
  <2> QED BY <1>1, <2>1, <2>3 DEF Led, Good
<1>6. CASE First(c) \/ ReadHead(c)
  <2>1. /\ UNCHANGED <<links, tasks>>
        /\ \E x : here' = [here EXCEPT ![c] = x] /\ x = links.head[cpri[c]]
    BY <1>6 DEF First, ReadHead
  <2>2. cpri[c] \in Level
    BY DEF LevelInv
  <2> QED BY <1>1, <2>1, <2>2 DEF Led, Good
<1>7. CASE WalkTurn(c)
  <2> DEFINE t == here[c]
             L1 == Cut(links, t)
             L2 == PushBack(L1, c, t)
             M1 == Rm(links, c, turn[c])
             M2 == Cut(M1, t)
  <2>1. links' \in {links, L2, M2} /\ tasks' = tasks /\ t # NULL
    BY <1>7 DEF WalkTurn, HasNext
  <2>2. t \in W /\ here' = [here EXCEPT ![c] = links.next[t]] /\ links.next[t] \in W \union {NULL}
    BY <1>1, <1>7, <2>1 DEF WalkTurn, Good
  <2>3. c \in Level
    BY SchedulerAssumption DEF Level
  <2>4. Shape(L1) /\ Good(L1, W)
    BY <1>1, CutGood
  <2>5. Good(L2, W)
    <3> HIDE DEF L1
    <3> QED BY <2>2, <2>4, PushGood
  <2>6. Shape(M1) /\ Good(M1, W)
    BY <1>1, <2>3, RmGood
  <2>7. Good(M2, W)
    <3> HIDE DEF M1
    <3> QED BY <2>6, CutGood
  <2>8. Good(links', W)
    <3> HIDE DEF L2, M2
    <3> QED BY <1>1, <2>1, <2>5, <2>7
  <2> HIDE DEF t
  <2> QED BY <1>1, <2>1, <2>2, <2>8 DEF Led, Good
<1>8. CASE WalkEnd(c) \/ Choose(c)
  <2>1. UNCHANGED <<links, tasks>> /\ (here' = here \/ here' = [here EXCEPT ![c] = NULL])
    BY <1>8 DEF WalkEnd, Choose
  <2> QED BY <1>1, <2>1 DEF Led, Good
<1>9. CASE Start(c)
  <2> DEFINE M1 == Rm(links, cpri[c], 0)
             M2 == Cut(M1, here[c])
  <2>1. links' = M2 /\ tasks' = [tasks EXCEPT ![c] = here[c]] /\ here' = [here EXCEPT ![c] = NULL]
    BY <1>9 DEF Start
  <2>2. cpri[c] \in Level
    BY DEF LevelInv
  <2>3. Shape(M1) /\ Good(M1, W)
    BY <1>1, <2>2, RmGood
  <2>4. Good(M2, W)
    <3> HIDE DEF M1
    <3> QED BY <2>3, CutGood
  <2> HIDE DEF M2
  <2> QED BY <1>1, <2>1, <2>4 DEF Led, Good
<1> QED BY <1>3, <1>4, <1>5, <1>6, <1>7, <1>8, <1>9 DEF Schaduler, Dispatcher

\* schaduler.c:142-148, svc.c:594-607: for any cores, tasks, victims and turns,
\* a step after the start-up gets at no task that no queue, core or call could
\* get at before.
THEOREM NoneIsFoundAgain == Spec => LostStaysLost
<1>1. ASSUME QueueInv, PriorityInv, LevelInv, [Next]_vars, \A c \in Core : pc[c] \notin Booting,
             NEW t \in Task, Lost(t)
      PROVE  Lost(t)'
  <2>1. PICK W \in SUBSET (Task \ {t}) : Closed(W)
    BY <1>1 DEF Lost
  <2>2. Led(W)
    BY <2>1 DEF Closed, Led, Good
  <2>3. Led(W)'
    BY <1>1, <2>2, StepLed
  <2>4. Closed(W)'
    BY <2>3 DEF Closed, Led, Good
  <2> QED BY <2>4 DEF Lost
<1>2. Init => PriorityInv /\ LevelInv
  BY DEF Init, PriorityInv, LevelInv, Level, Headless
<1>3. QueueInv /\ PriorityInv /\ [Next]_vars => PriorityInv'
  BY PriorityStep
<1>4. QueueInv /\ PriorityInv /\ LevelInv /\ [Next]_vars
        => [(\A c \in Core : pc[c] \notin Booting) => \A t \in Task : Lost(t) => Lost(t)']_vars
  BY <1>1
<1> QED BY <1>2, <1>3, <1>4, LevelStep, QueueInvHolds, PTL DEF Spec, LostStaysLost
=============================================================================
