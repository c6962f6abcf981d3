------------------------------- MODULE Tasks -------------------------------
(***************************************************************************)
(* The bank of task blocks (PCBs) and the bank of user memory frames, and  *)
(* every routine that takes from them or gives back: the set-up that each  *)
(* core runs in kernel(), create_ktask, svc_spawn_task, alloc_page,        *)
(* terminate_context, and memoryvisor, which runs at the end of kernel()   *)
(* and at every tick of a core's generic timer.                            *)
(*                                                                         *)
(* None of them holds a lock that the others respect.  The scan of a bank  *)
(* for a free entry is one step here and taking the entry another; the     *)
(* sweep of memoryvisor goes frame by frame.  Which task a core runs, and  *)
(* the status and the priority of a task, are the scheduler's business:    *)
(* they take any value when they are read.  Reads and writes through NULL  *)
(* touch nothing modelled here, and what they read is unspecified.         *)
(***************************************************************************)
EXTENDS Naturals

CONSTANTS
  Core,   \* the cores; core 0 sets up the frame table
  P,      \* number of task blocks (128)
  F,      \* number of memory frames
  NULL

Task  == 0..P-1
Frame == 0..F-1

ASSUME TasksAssumption ==
  /\ Core \subseteq Nat /\ 0 \in Core
  /\ P \in Nat \ {0} /\ F \in Nat \ {0}
  /\ NULL \notin Nat

VARIABLES
  valid, level, \* fields of the task blocks
  page,       \* pages.head = pages.tail of a block
  owner,      \* owner_task_id of each frame, 0 when it is free
  swept,      \* memory_paging_settings->pages_count has been set
  pc,         \* where each core is
  slot,       \* per core: an index into a bank, or the block it fills
  found,      \* per core: the frame its scan found
  service,    \* per core: what create_ktask returned for the two services
  disturbed   \* history: frames swept while owned, or taken by two cores at once

bank  == <<valid, level, page>>
local == <<slot, found, service>>
vars  == <<bank, owner, swept, pc, local, disturbed>>

NoService == [which \in {"power", "serial"} |-> NULL]

\* Memory is zero when the cores enter kernel()'s initialisation.
Init ==
  /\ valid = [t \in Task |-> FALSE] /\ level = [t \in Task |-> 0]
  /\ page = [t \in Task |-> NULL]
  /\ owner = [f \in Frame |-> 0] /\ swept = FALSE
  /\ pc = [c \in Core |-> IF c = 0 THEN "frames" ELSE "reset"]
  /\ slot = [c \in Core |-> 0] /\ found = [c \in Core |-> NULL]
  /\ service = [c \in Core |-> NoService]
  /\ disturbed = {}

At(c, label) == pc[c] = label
Goto(c, label) == pc' = [pc EXCEPT ![c] = label]

-----------------------------------------------------------------------------
\* kernel(): the frame table (core 0 only).  The loop over the frames writes
\* every record to the first one, so that only frame 0 is set up.
SetUpFrames(c) ==
  /\ At(c, "frames")
  /\ owner' = [owner EXCEPT ![0] = 0]
  /\ disturbed' = disturbed \union {f \in {0} : owner[f] # 0}
  /\ swept' = TRUE
  /\ Goto(c, "reset")
  /\ UNCHANGED <<bank, local>>

\* kernel(): every core initialises the whole bank of task blocks; the valid
\* field is written before the others, and status is not written at all.
ResetValid(c) ==
  /\ At(c, "reset")
  /\ valid' = [valid EXCEPT ![slot[c]] = FALSE]
  /\ Goto(c, "reset_rest")
  /\ UNCHANGED <<level, page, owner, swept, local, disturbed>>

ResetRest(c) ==
  /\ At(c, "reset_rest")
  /\ level' = [level EXCEPT ![slot[c]] = 0]
  /\ page' = [page EXCEPT ![slot[c]] = NULL]
  /\ slot' = [slot EXCEPT ![c] = IF @ = P - 1 THEN 0 ELSE @ + 1]
  /\ Goto(c, IF slot[c] = P - 1 THEN "power_check" ELSE "reset")
  /\ UNCHANGED <<valid, owner, swept, found, service, disturbed>>

\* create_ktask returns from the first turn of its loop: block 0 or NULL.
CreateCheck(c, here, claim, next) ==
  /\ At(c, here)
  /\ Goto(c, IF valid[0] THEN next ELSE claim)
  /\ UNCHANGED <<bank, owner, swept, local, disturbed>>

\* Mutation of CreateClaim: the block is not validated.
CreateClaimUnmarked(c, here, which, next) ==
  /\ At(c, here)
  /\ service' = [service EXCEPT ![c][which] = 0]
  /\ Goto(c, next)
  /\ UNCHANGED <<valid, level, page, owner, swept, slot, found, disturbed>>

CreateClaim(c, here, which, next) ==
  /\ At(c, here)
  /\ valid' = [valid EXCEPT ![0] = TRUE]
  /\ service' = [service EXCEPT ![c][which] = 0]
  /\ Goto(c, next)
  /\ UNCHANGED <<level, page, owner, swept, slot, found, disturbed>>

CreateServices(c) ==
  \/ CreateCheck(c, "power_check", "power_claim", "serial_check")
  \/ CreateClaim(c, "power_claim", "power", "serial_check")
  \/ CreateCheck(c, "serial_check", "serial_claim", "power_level")
  \/ CreateClaim(c, "serial_claim", "serial", "power_level")

\* power_service->perimision_level = 2, then serial_service->... = 0.
SetLevel(c, here, which, value, next) ==
  /\ At(c, here)
  /\ level' = [t \in Task |-> IF t = service[c][which] THEN value ELSE level[t]]
  /\ Goto(c, next)
  /\ UNCHANGED <<valid, page, owner, swept, local, disturbed>>

-----------------------------------------------------------------------------
Free == {f \in Frame : owner[f] = 0}
IsFirst(n, S) == n \in S /\ \A m \in S : n <= m

\* Mutation of AllocLoad: the owner of the frame is not tested.
AllocLoadAny(c, here, store, none) ==
  /\ At(c, here)
  /\ found' = [found EXCEPT ![c] = 0]
  /\ Goto(c, store)
  /\ UNCHANGED <<bank, owner, swept, slot, service, disturbed>>

\* alloc_page: the first frame without an owner, or 0 ...
AllocLoad(c, here, store, none) ==
  /\ At(c, here)
  /\ \/ /\ Free = {}
        /\ found' = [found EXCEPT ![c] = NULL]
        /\ Goto(c, none)
     \/ /\ \E f \in Frame : IsFirst(f, Free) /\ found' = [found EXCEPT ![c] = f]
        /\ Goto(c, store)
  /\ UNCHANGED <<bank, owner, swept, slot, service, disturbed>>

Storing == {"power_store", "serial_store", "spawn_store"}

\* ... which then gets the id as its owner; the id of task 0 leaves it free.
AllocStore(c, here, id, next) ==
  /\ At(c, here)
  /\ owner' = [owner EXCEPT ![found[c]] = id]
  /\ disturbed' = disturbed \union
       {f \in Frame : \E d \in Core \ {c} : pc[d] \in Storing /\ f = found[c] /\ f = found[d]}
  /\ Goto(c, next)
  /\ UNCHANGED <<bank, swept, local>>

\* The id read through what create_ktask returned; NULL->id can be anything
\* (P stands for the ids of no task).
Ids(c, which) == IF service[c][which] = NULL THEN 0..P ELSE {0}

\* The frames of the two services.  mh_push_back gets the header of the page
\* list by value and leaves it empty.
AllocForServices(c) ==
  \/ AllocLoad(c, "power_frame", "power_store", "serial_frame")
  \/ \E id \in Ids(c, "power") : AllocStore(c, "power_store", id, "serial_frame")
  \/ AllocLoad(c, "serial_frame", "serial_store", "sweep")
  \/ \E id \in Ids(c, "serial") : AllocStore(c, "serial_store", id, "sweep")

SetUp(c) ==
  \/ SetUpFrames(c) \/ ResetValid(c) \/ ResetRest(c)
  \/ CreateServices(c)
  \/ SetLevel(c, "power_level", "power", 2, "serial_level")
  \/ SetLevel(c, "serial_level", "serial", 0, "power_frame")
  \/ AllocForServices(c)

-----------------------------------------------------------------------------
Unused == {t \in Task : ~valid[t]}

\* svc_spawn_task: the first block that is not valid (128 when there is none).
\* The comparison that looks for the parent, of an id with a pointer, never
\* holds.
SpawnScan(c) ==
  /\ At(c, "task")
  /\ \E t \in Task : IsFirst(t, Unused) /\ slot' = [slot EXCEPT ![c] = t]
  /\ Goto(c, "spawn_load")
  /\ UNCHANGED <<bank, owner, swept, found, service, disturbed>>

\* The frame is allocated before either failure is looked at: 129 when
\* alloc_kframe had no frame for the tables, 130 without a memory frame, and
\* nothing is given back.
SpawnPublish(c) ==
  /\ At(c, "spawn_publish")
  /\ \/ /\ found[c] # NULL
        /\ page' = [page EXCEPT ![slot[c]] = found[c]]
        /\ valid' = [valid EXCEPT ![slot[c]] = TRUE]
     \/ UNCHANGED <<page, valid>>
  /\ slot' = [slot EXCEPT ![c] = 0]
  /\ found' = [found EXCEPT ![c] = NULL]
  /\ Goto(c, "task")
  /\ UNCHANGED <<level, owner, swept, service, disturbed>>

Spawn(c) ==
  \/ SpawnScan(c)
  \/ AllocLoad(c, "spawn_load", "spawn_store", "spawn_publish")
  \/ AllocStore(c, "spawn_store", slot[c], "spawn_publish")
  \/ SpawnPublish(c)

-----------------------------------------------------------------------------
\* The timer interrupt of a core that runs a task.
Tick(c) ==
  /\ At(c, "task")
  /\ Goto(c, "sweep")
  /\ UNCHANGED <<bank, owner, swept, local, disturbed>>

\* memoryvisor: `if (memory_frames[i].owner_task_id = 0)` frees the frame and
\* does not count it.  Before core 0 has set pages_count there is no frame.
Sweep(c) ==
  /\ At(c, "sweep")
  /\ LET i == slot[c]
         last == ~swept \/ i = F - 1
     IN  /\ owner' = IF swept THEN [owner EXCEPT ![i] = 0] ELSE owner
         /\ disturbed' = disturbed \union {f \in {i} : swept /\ owner[f] # 0}
         /\ slot' = [slot EXCEPT ![c] = IF last THEN 0 ELSE i + 1]
         /\ Goto(c, IF last THEN "choose" ELSE "sweep")
  /\ found' = [found EXCEPT ![c] = NULL]         \* nobody reads again what
  /\ service' = [service EXCEPT ![c] = NoService] \* kernel() left there
  /\ UNCHANGED <<bank, swept>>

\* Where the search for a victim among blocks 0 to n can end: it moves on from
\* a user task that is ready or running to a later one of lower priority, and
\* the priorities compare either way.
Victims(n, active) ==
  LET v[i \in Task] ==
        IF i = 0 THEN {0}
        ELSE v[i-1] \union {t \in {i} : \E w \in v[i-1] : level[w] = 0 /\ w \in active}
  IN  v[n]

\* Nothing was counted, so there is always a victim.  Any tasks are active,
\* ready or running, at that moment.
Choose(c) ==
  /\ At(c, "choose")
  /\ \E active \in SUBSET Task :
       \E t \in Task \cap Victims(P - 1, active) : slot' = [slot EXCEPT ![c] = t]
  /\ Goto(c, "evict")
  /\ UNCHANGED <<bank, owner, swept, found, service, disturbed>>

\* The victim gets status 3 and fault code 17, and the core goes back to its
\* task.
Evict(c) ==
  /\ At(c, "evict")
  /\ slot' = [slot EXCEPT ![c] = 0]
  /\ Goto(c, "task")
  /\ UNCHANGED <<bank, owner, swept, found, service, disturbed>>

Visor(c) == Tick(c) \/ Sweep(c) \/ Choose(c) \/ Evict(c)

-----------------------------------------------------------------------------
\* Mutation of TerminateContext: the page list is read before it is wiped.
TerminateContextFreeing(c, t) ==
  /\ At(c, "task") /\ valid[t]
  /\ page' = [page EXCEPT ![t] = NULL]
  /\ owner' = [f \in Frame |-> IF f = page[t] THEN 0 ELSE owner[f]]
  /\ Goto(c, "ended")
  /\ UNCHANGED <<valid, level, swept, local, disturbed>>

\* core_terminate on a core that runs t: terminate_context wipes the block,
\* valid and level excepted, before it walks the list of pages, which is then
\* empty: no frame is given back.
TerminateContext(c, t) ==
  /\ At(c, "task") /\ valid[t]
  /\ page' = [page EXCEPT ![t] = NULL]
  /\ Goto(c, "ended")
  /\ UNCHANGED <<valid, level, owner, swept, local, disturbed>>

Next ==
  \/ \E c \in Core : SetUp(c) \/ Spawn(c) \/ Visor(c)
  \/ \E c \in Core, t \in Task : TerminateContext(c, t)

Spec == Init /\ [][Next]_vars

-----------------------------------------------------------------------------
Creating == {"frames", "reset", "reset_rest", "power_check", "power_claim"}
SettingUp == Creating \union {"serial_check", "serial_claim", "power_level",
               "serial_level", "power_frame", "power_store", "serial_frame", "serial_store"}
Up(c) == pc[c] \notin SettingUp

\* Every variable stays in its range.
TypeOK ==
  /\ valid \in [Task -> BOOLEAN]
  /\ level \in [Task -> {0, 2}]
  /\ page \in [Task -> Frame \union {NULL}]
  /\ owner \in [Frame -> 0..P]
  /\ swept \in BOOLEAN
  /\ pc \in [Core -> SettingUp \union
       {"task", "sweep", "choose", "evict", "ended", "spawn_load",
        "spawn_store", "spawn_publish"}]
  /\ slot \in [Core -> Task \union Frame]
  /\ found \in [Core -> Frame \union {NULL}]
  /\ service \in [Core -> [{"power", "serial"} -> {0, NULL}]]
  /\ disturbed \subseteq Frame

\* However the cores' initialisations of the one bank overlap
\* (kernel.c:201-224, core.c:242-273), the block of the power service is
\* allocated when every core has got past its own create_ktask.
PowerServiceExists == (\A c \in Core : pc[c] \notin Creating) => valid[0]

\* svc.c:609-663, memory.c:3-17: a task that was spawned owns the frame it was
\* given, unless that frame was swept by memoryvisor, set up under its owner,
\* or taken by two cores at once.  (Two tasks share a frame in no other way.)
PagesOwned ==
  \A t \in Task \ {0} :
    valid[t] /\ page[t] # NULL /\ page[t] \notin disturbed => owner[page[t]] = t

\* No frame in use becomes free again but by the sweep of memoryvisor, by the
\* set-up of frame 0, or by the allocation of a frame for task 0 racing with
\* another one: nothing a task does, and not its end (core.c:150-164, "clear
\* memory pages"), gives memory back.
FreedBySweepOnly ==
  [][\A f \in Frame : owner[f] # 0 /\ owner'[f] = 0 =>
       \E c \in Core : \/ pc[c] \in {"sweep", "frames"}
                       \/ pc[c] \in Storing /\ found[c] = f /\ pc'[c] # pc[c]]_vars

\* A block that holds a task is made free by kernel()'s initialisation only:
\* when every core is up, the bank fills up for good.
BlocksFillUp ==
  [][\A t \in Task : valid[t] /\ ~valid'[t] =>
       \E c \in Core : pc[c] = "reset" /\ slot[c] = t]_vars
=============================================================================
