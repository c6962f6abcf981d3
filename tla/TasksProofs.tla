---------------------------- MODULE TasksProofs ----------------------------
(***************************************************************************)
(* Proofs about Tasks, for any number of cores, task blocks and frames.    *)
(*                                                                         *)
(* The inductive invariant adds to the properties where the index of each  *)
(* core points at each place (Places) and what a core that is about to     *)
(* store the owner of a frame, or to publish a block, may rely on unless   *)
(* somebody has disturbed the frame (Claims).                              *)
(***************************************************************************)
EXTENDS Tasks, TLAPS

Filling == {"reset", "reset_rest", "evict", "spawn_load", "spawn_store", "spawn_publish"}

Places ==
  \A c \in Core :
    /\ pc[c] \in Filling => slot[c] \in Task
    /\ pc[c] = "sweep" => slot[c] \in Frame
    /\ pc[c] \notin Filling \union {"sweep"} => slot[c] = 0
    /\ pc[c] \in Storing => found[c] \in Frame

Types == TypeOK /\ Places

Claims ==
  \A c \in Core : found[c] # NULL /\ found[c] \notin disturbed =>
    /\ pc[c] \in Storing => owner[found[c]] = 0
    /\ pc[c] = "spawn_publish" /\ slot[c] # 0 => owner[found[c]] = slot[c]

Inv == Types /\ Claims /\ PowerServiceExists /\ PagesOwned

-----------------------------------------------------------------------------
(* Types.                                                                  *)

LEMMA Zero == 0 \in Task /\ 0 \in Frame /\ NULL \notin Task /\ NULL \notin Frame
  BY TasksAssumption DEF Task, Frame

LEMMA InitTypes == Init => Types
<1> SUFFICES ASSUME Init PROVE Types
  OBVIOUS
<1>1. NoService \in [{"power", "serial"} -> {0, NULL}]
  BY DEF NoService
<1>2. service \in [Core -> [{"power", "serial"} -> {0, NULL}]]
  BY <1>1 DEF Init
<1>3. TypeOK
  <2>1. 0 \in 0..P
    BY TasksAssumption
  <2> QED
    BY <1>2, <2>1, Zero DEF Init, TypeOK, SettingUp, Creating
<1>4. Places
  BY Zero DEF Init, Places, Filling, Storing
<1> QED
  BY <1>3, <1>4 DEF Types

LEMMA FramesTypes ==
  ASSUME Types, NEW c \in Core, SetUpFrames(c)
  PROVE  Types'
  BY TasksAssumption, Zero DEF SetUpFrames, Types, TypeOK, Places, Filling, Storing, SettingUp,
     Creating, At, Goto, bank, local

LEMMA ResetValidTypes ==
  ASSUME Types, NEW c \in Core, ResetValid(c)
  PROVE  Types'
  BY TasksAssumption, Zero DEF ResetValid, Types, TypeOK, Places, Filling, Storing, SettingUp,
     Creating, At, Goto, bank, local

LEMMA ResetRestTypes ==
  ASSUME Types, NEW c \in Core, ResetRest(c)
  PROVE  Types'
<1>1. slot[c] \in 0..P-1 /\ P \in Nat \ {0}
  BY TasksAssumption DEF ResetRest, Types, Places, Filling, At, Task
<1>2. (IF slot[c] = P - 1 THEN 0 ELSE slot[c] + 1) \in Task
  BY <1>1 DEF Task
<1> QED
  BY <1>2, Zero DEF ResetRest, Types, TypeOK, Places, Filling, Storing, SettingUp,
     Creating, At, Goto, bank, local

LEMMA CreateTypes ==
  ASSUME Types, NEW c \in Core, CreateServices(c)
  PROVE  Types'
<1>1. CASE \/ CreateCheck(c, "power_check", "power_claim", "serial_check")
           \/ CreateCheck(c, "serial_check", "serial_claim", "power_level")
  BY <1>1 DEF CreateCheck, Types, TypeOK, Places, Filling, Storing, SettingUp,
     Creating, At, Goto, bank, local
<1>2. CASE \/ CreateClaim(c, "power_claim", "power", "serial_check")
           \/ CreateClaim(c, "serial_claim", "serial", "power_level")
  <2>1. PICK which \in {"power", "serial"} : service' = [service EXCEPT ![c][which] = 0]
    BY <1>2 DEF CreateClaim
  <2>2. service' \in [Core -> [{"power", "serial"} -> {0, NULL}]]
    BY <2>1 DEF Types, TypeOK
  <2>3. valid' \in [Task -> BOOLEAN]
    BY <1>2 DEF CreateClaim, Types, TypeOK
  <2> QED
    BY <1>2, <2>2, <2>3 DEF CreateClaim, Types, TypeOK, Places, Filling, Storing, SettingUp,
       Creating, At, Goto
<1> QED
  BY <1>1, <1>2 DEF CreateServices

LEMMA LevelTypes ==
  ASSUME Types, NEW c \in Core,
         \/ SetLevel(c, "power_level", "power", 2, "serial_level")
         \/ SetLevel(c, "serial_level", "serial", 0, "power_frame")
  PROVE  Types'
  BY TasksAssumption, Zero DEF SetLevel, Types, TypeOK, Places,
     Filling, Storing, SettingUp, Creating, At, Goto, bank, local

LEMMA LoadTypes ==
  ASSUME Types, NEW c \in Core,
         \/ AllocLoad(c, "power_frame", "power_store", "serial_frame")
         \/ AllocLoad(c, "serial_frame", "serial_store", "sweep")
         \/ AllocLoad(c, "spawn_load", "spawn_store", "spawn_publish")
  PROVE  Types'
  BY TasksAssumption, Zero DEF AllocLoad, Types, TypeOK, Places,
     Filling, Storing, SettingUp, Creating, At, Goto, bank, local

LEMMA IdsInRange ==
  ASSUME Types, NEW c \in Core, NEW which \in {"power", "serial"}, NEW id \in Ids(c, which)
  PROVE  id \in 0..P
  BY TasksAssumption DEF Ids

LEMMA StoreTypes ==
  ASSUME Types, NEW c \in Core,
         \/ \E id \in Ids(c, "power") : AllocStore(c, "power_store", id, "serial_frame")
         \/ \E id \in Ids(c, "serial") : AllocStore(c, "serial_store", id, "sweep")
         \/ AllocStore(c, "spawn_store", slot[c], "spawn_publish")
  PROVE  Types'
<1>1. PICK here \in Storing, id \in 0..P,
           next \in {"serial_frame", "sweep", "spawn_publish"} :
        /\ AllocStore(c, here, id, next)
        /\ \/ here = "power_store" /\ next = "serial_frame"
           \/ here = "serial_store" /\ next = "sweep"
           \/ here = "spawn_store" /\ next = "spawn_publish"
  <2>1. CASE \E id \in Ids(c, "power") : AllocStore(c, "power_store", id, "serial_frame")
    BY <2>1, IdsInRange DEF Storing
  <2>2. CASE \E id \in Ids(c, "serial") : AllocStore(c, "serial_store", id, "sweep")
    BY <2>2, IdsInRange DEF Storing
  <2>3. CASE AllocStore(c, "spawn_store", slot[c], "spawn_publish")
    <3>1. slot[c] \in 0..P
      BY <2>3, TasksAssumption DEF AllocStore, At, Types, Places, Filling, Task
    <3> QED
      BY <2>3, <3>1 DEF Storing
  <2> QED
    BY <2>1, <2>2, <2>3
<1> QED
  BY <1>1, TasksAssumption, Zero DEF AllocStore, Types, TypeOK, Places,
     Filling, Storing, SettingUp, Creating, At, Goto, bank, local

LEMMA SpawnTypes ==
  ASSUME Types, NEW c \in Core, SpawnScan(c) \/ SpawnPublish(c)
  PROVE  Types'
<1>1. CASE SpawnScan(c)
  BY <1>1 DEF SpawnScan, Types, TypeOK, Places, Filling, Storing, SettingUp,
     Creating, At, Goto, bank
<1>2. CASE SpawnPublish(c)
  <2>1. slot[c] \in Task
    BY <1>2 DEF SpawnPublish, Types, Places, Filling, At
  <2>2. page' \in [Task -> Frame \union {NULL}] /\ valid' \in [Task -> BOOLEAN]
    BY <1>2, <2>1 DEF SpawnPublish, Types, TypeOK
  <2> QED
    BY <1>2, <2>2, Zero DEF SpawnPublish, Types, TypeOK, Places, Filling, Storing,
       SettingUp, Creating, At, Goto
<1> QED
  BY <1>1, <1>2

LEMMA SweepTypes ==
  ASSUME Types, NEW c \in Core, Sweep(c)
  PROVE  Types'
<1>1. slot[c] \in 0..F-1 /\ F \in Nat \ {0}
  BY TasksAssumption DEF Sweep, Types, Places, At, Frame
<1>2. slot[c] # F - 1 => slot[c] + 1 \in Frame
  BY <1>1 DEF Frame
<1>3. NoService \in [{"power", "serial"} -> {0, NULL}]
  BY DEF NoService
<1> QED
  BY <1>1, <1>2, <1>3, TasksAssumption, Zero DEF Sweep, Types, TypeOK, Places,
     Filling, Storing, SettingUp, Creating, At, Goto, bank, local

LEMMA VisorTypes ==
  ASSUME Types, NEW c \in Core, Tick(c) \/ Choose(c) \/ Evict(c)
  PROVE  Types'
  BY TasksAssumption, Zero DEF Tick, Choose, Evict, Types, TypeOK, Places,
     Filling, Storing, SettingUp, Creating, At, Goto, bank, local

LEMMA TerminateTypes ==
  ASSUME Types, NEW c \in Core, NEW t \in Task, TerminateContext(c, t)
  PROVE  Types'
  BY TasksAssumption, Zero DEF TerminateContext, Types, TypeOK, Places,
     Filling, Storing, SettingUp, Creating, At, Goto, bank, local

-----------------------------------------------------------------------------
(* Owners.  A step that leaves the frames and the blocks alone keeps what  *)
(* every other core may rely on.                                           *)

Owned == Claims /\ PowerServiceExists /\ PagesOwned

LEMMA InitOwned == Init => Owned
<1> SUFFICES ASSUME Init PROVE Owned
  OBVIOUS
<1>1. Claims /\ PagesOwned
  BY DEF Init, Claims, PagesOwned
<1>2. pc[0] = "frames"
  BY TasksAssumption DEF Init
<1>3. PowerServiceExists
  BY <1>2, TasksAssumption DEF PowerServiceExists, Creating
<1> QED
  BY <1>1, <1>3 DEF Owned

LEMMA FramesOwned ==
  ASSUME Inv, NEW c \in Core, SetUpFrames(c)
  PROVE  Owned'
<1> USE DEF SetUpFrames, Inv, Types, TypeOK, At, Goto, bank, local
<1>1. \A f \in Frame \ disturbed' : owner'[f] = owner[f]
  BY Zero
<1>2. Claims'
  BY <1>1, Zero DEF Claims, Places, Storing
<1>3. PowerServiceExists'
  BY DEF PowerServiceExists, Creating
<1>4. PagesOwned'
  BY <1>1 DEF PagesOwned
<1> QED
  BY <1>2, <1>3, <1>4 DEF Owned

LEMMA ResetOwned ==
  ASSUME Inv, NEW c \in Core, ResetValid(c) \/ ResetRest(c)
  PROVE  Owned'
<1> USE DEF ResetValid, ResetRest, Inv, Types, TypeOK, At, Goto, bank, local
<1>1. Claims'
  BY DEF Claims, Storing
<1>2. PowerServiceExists'
  BY DEF PowerServiceExists, Creating
<1>3. PagesOwned'
  BY DEF PagesOwned
<1> QED
  BY <1>1, <1>2, <1>3 DEF Owned

LEMMA CreateOwned ==
  ASSUME Inv, NEW c \in Core, CreateServices(c)
  PROVE  Owned'
<1> USE DEF CreateServices, CreateCheck, CreateClaim, Inv, Types, TypeOK, At, Goto, bank, local
<1>1. Claims'
  BY DEF Claims, Storing
<1>2. PowerServiceExists'
  BY Zero DEF PowerServiceExists, Creating
<1>3. PagesOwned'
  BY Zero DEF PagesOwned
<1> QED
  BY <1>1, <1>2, <1>3 DEF Owned

LEMMA LevelOwned ==
  ASSUME Inv, NEW c \in Core,
         \/ SetLevel(c, "power_level", "power", 2, "serial_level")
         \/ SetLevel(c, "serial_level", "serial", 0, "power_frame")
  PROVE  Owned'
<1> USE DEF SetLevel, Inv, Types, TypeOK, At, Goto, bank, local
<1>1. Claims'
  BY DEF Claims, Storing
<1>2. PowerServiceExists'
  BY DEF PowerServiceExists, Creating
<1>3. PagesOwned'
  BY DEF PagesOwned
<1> QED
  BY <1>1, <1>2, <1>3 DEF Owned

LEMMA LoadOwned ==
  ASSUME Inv, NEW c \in Core,
         \/ AllocLoad(c, "power_frame", "power_store", "serial_frame")
         \/ AllocLoad(c, "serial_frame", "serial_store", "sweep")
         \/ AllocLoad(c, "spawn_load", "spawn_store", "spawn_publish")
  PROVE  Owned'
<1> USE DEF AllocLoad, Inv, Types, TypeOK, At, Goto, bank
<1>1. Claims'
  BY DEF Claims, Storing, IsFirst, Free
<1>2. PowerServiceExists'
  BY DEF PowerServiceExists, Creating
<1>3. PagesOwned'
  BY DEF PagesOwned
<1> QED
  BY <1>1, <1>2, <1>3 DEF Owned

(* The frame was free when it was found; whoever else has found it since   *)
(* is either still about to store or has disturbed it.                     *)
LEMMA StoreOwned ==
  ASSUME Inv, NEW c \in Core, NEW here \in Storing, NEW id, NEW next,
         AllocStore(c, here, id, next),
         next \notin Storing \union Creating,
         next = "spawn_publish" => id = slot[c]
  PROVE  Owned'
<1> DEFINE f == found[c]
<1> USE DEF AllocStore, Inv, Types, TypeOK, At, Goto, bank, local
<1>1. f \in Frame /\ f # NULL /\ pc[c] \in Storing
  BY Zero DEF Places
<1>2. owner' = [owner EXCEPT ![f] = id] /\ disturbed \subseteq disturbed'
  OBVIOUS
<1>3. f \notin disturbed' => owner[f] = 0
  BY <1>1, <1>2 DEF Claims
<1>4. Claims'
  <2> SUFFICES ASSUME NEW d \in Core, found[d] # NULL, found[d] \notin disturbed'
               PROVE  /\ pc'[d] \in Storing => owner'[found[d]] = 0
                      /\ pc'[d] = "spawn_publish" /\ slot[d] # 0 => owner'[found[d]] = slot[d]
    BY DEF Claims
  <2>1. CASE d = c
    BY <2>1, <1>1, <1>2
  <2>2. CASE d # c /\ found[d] = f
    <3>1. pc[d] \notin Storing
      BY <2>2, <1>1
    <3>2. ~(pc[d] = "spawn_publish" /\ slot[d] # 0)
      BY <2>2, <1>2, <1>3 DEF Claims
    <3> QED
      BY <2>2, <3>1, <3>2
  <2>3. CASE d # c /\ found[d] # f
    BY <2>3, <1>2 DEF Claims
  <2> QED
    BY <2>1, <2>2, <2>3
<1>5. PowerServiceExists'
  BY DEF PowerServiceExists, Creating, Storing
<1>6. PagesOwned'
  <2> SUFFICES ASSUME NEW t \in Task \ {0}, valid[t], page[t] # NULL, page[t] \notin disturbed'
               PROVE  owner'[page[t]] = t
    BY DEF PagesOwned
  <2>1. owner[page[t]] = t
    BY <1>2 DEF PagesOwned
  <2>2. page[t] # f
    BY <2>1, <1>3
  <2> QED
    BY <2>1, <2>2, <1>2
<1> QED
  BY <1>4, <1>5, <1>6 DEF Owned

LEMMA StoresOwned ==
  ASSUME Inv, NEW c \in Core,
         \/ \E id \in Ids(c, "power") : AllocStore(c, "power_store", id, "serial_frame")
         \/ \E id \in Ids(c, "serial") : AllocStore(c, "serial_store", id, "sweep")
         \/ AllocStore(c, "spawn_store", slot[c], "spawn_publish")
  PROVE  Owned'
<1>1. {"power_store", "serial_store", "spawn_store"} = Storing
  BY DEF Storing
<1>2. \A next \in {"serial_frame", "sweep", "spawn_publish"} : next \notin Storing \union Creating
  BY DEF Storing, Creating
<1>3. CASE \E id \in Ids(c, "power") : AllocStore(c, "power_store", id, "serial_frame")
  BY <1>1, <1>2, <1>3, StoreOwned
<1>4. CASE \E id \in Ids(c, "serial") : AllocStore(c, "serial_store", id, "sweep")
  BY <1>1, <1>2, <1>4, StoreOwned
<1>5. CASE AllocStore(c, "spawn_store", slot[c], "spawn_publish")
  BY <1>1, <1>2, <1>5, StoreOwned
<1> QED
  BY <1>3, <1>4, <1>5

LEMMA SpawnOwned ==
  ASSUME Inv, NEW c \in Core, SpawnScan(c) \/ SpawnPublish(c)
  PROVE  Owned'
<1> USE DEF SpawnScan, SpawnPublish, Inv, Types, TypeOK, At, Goto, bank
<1>1. Claims'
  BY DEF Claims, Storing
<1>2. PowerServiceExists'
  BY Zero DEF PowerServiceExists, Creating
<1>3. PagesOwned'
  BY DEF PagesOwned, Claims, Places, Filling
<1> QED
  BY <1>1, <1>2, <1>3 DEF Owned

LEMMA SweepOwned ==
  ASSUME Inv, NEW c \in Core, Sweep(c)
  PROVE  Owned'
<1> USE DEF Sweep, Inv, Types, TypeOK, At, Goto, bank
<1>1. \A f \in Frame \ disturbed' : owner'[f] = owner[f]
  BY DEF Places
<1>2. Claims'
  BY <1>1 DEF Claims, Storing
<1>3. PowerServiceExists'
  BY DEF PowerServiceExists, Creating
<1>4. PagesOwned'
  BY <1>1 DEF PagesOwned
<1> QED
  BY <1>2, <1>3, <1>4 DEF Owned

LEMMA VisorOwned ==
  ASSUME Inv, NEW c \in Core, Tick(c) \/ Choose(c) \/ Evict(c)
  PROVE  Owned'
<1> USE DEF Tick, Choose, Evict, Inv, Types, TypeOK, At, Goto, bank, local
<1>1. Claims'
  BY DEF Claims, Storing
<1>2. PowerServiceExists'
  BY DEF PowerServiceExists, Creating
<1>3. PagesOwned'
  BY DEF PagesOwned
<1> QED
  BY <1>1, <1>2, <1>3 DEF Owned

LEMMA TerminateOwned ==
  ASSUME Inv, NEW c \in Core, NEW t \in Task, TerminateContext(c, t)
  PROVE  Owned'
<1> USE DEF TerminateContext, Inv, Types, TypeOK, At, Goto, local
<1>1. Claims'
  BY DEF Claims, Storing
<1>2. PowerServiceExists'
  BY DEF PowerServiceExists, Creating
<1>3. PagesOwned'
  BY DEF PagesOwned
<1> QED
  BY <1>1, <1>2, <1>3 DEF Owned

-----------------------------------------------------------------------------
LEMMA SetUpInv ==
  ASSUME Inv, NEW c \in Core, SetUp(c)
  PROVE  Inv'
<1>0. Types
  BY DEF Inv
<1>1. CASE SetUpFrames(c)
  BY <1>0, <1>1, FramesTypes, FramesOwned DEF Inv, Owned
<1>2. CASE ResetValid(c) \/ ResetRest(c)
  BY <1>0, <1>2, ResetValidTypes, ResetRestTypes, ResetOwned DEF Inv, Owned
<1>3. CASE CreateServices(c)
  BY <1>0, <1>3, CreateTypes, CreateOwned DEF Inv, Owned
<1>4. CASE \/ SetLevel(c, "power_level", "power", 2, "serial_level")
           \/ SetLevel(c, "serial_level", "serial", 0, "power_frame")
  BY <1>0, <1>4, LevelTypes, LevelOwned DEF Inv, Owned
<1>5. CASE AllocForServices(c)
  BY <1>0, <1>5, LoadTypes, LoadOwned, StoreTypes, StoresOwned DEF AllocForServices, Inv, Owned
<1> QED
  BY <1>1, <1>2, <1>3, <1>4, <1>5 DEF SetUp

LEMMA SpawnInv ==
  ASSUME Inv, NEW c \in Core, Spawn(c)
  PROVE  Inv'
<1>0. Types
  BY DEF Inv
<1>1. CASE SpawnScan(c) \/ SpawnPublish(c)
  BY <1>0, <1>1, SpawnTypes, SpawnOwned DEF Inv, Owned
<1>2. CASE AllocLoad(c, "spawn_load", "spawn_store", "spawn_publish")
  BY <1>0, <1>2, LoadTypes, LoadOwned DEF Inv, Owned
<1>3. CASE AllocStore(c, "spawn_store", slot[c], "spawn_publish")
  BY <1>0, <1>3, StoreTypes, StoresOwned DEF Inv, Owned
<1> QED
  BY <1>1, <1>2, <1>3 DEF Spawn

LEMMA VisorInv ==
  ASSUME Inv, NEW c \in Core, Visor(c)
  PROVE  Inv'
<1>0. Types
  BY DEF Inv
<1>1. CASE Sweep(c)
  BY <1>0, <1>1, SweepTypes, SweepOwned DEF Inv, Owned
<1>2. CASE Tick(c) \/ Choose(c) \/ Evict(c)
  BY <1>0, <1>2, VisorTypes, VisorOwned DEF Inv, Owned
<1> QED
  BY <1>1, <1>2 DEF Visor

LEMMA NextInv == Inv /\ [Next]_vars => Inv'
<1> SUFFICES ASSUME Inv, [Next]_vars PROVE Inv'
  OBVIOUS
<1>1. CASE \E c \in Core : SetUp(c) \/ Spawn(c) \/ Visor(c)
  BY <1>1, SetUpInv, SpawnInv, VisorInv
<1>2. CASE \E c \in Core, t \in Task : TerminateContext(c, t)
  BY <1>2, TerminateTypes, TerminateOwned DEF Inv, Owned
<1>3. CASE UNCHANGED vars
  BY <1>3 DEF Inv, Types, TypeOK, Places, Claims, PowerServiceExists, PagesOwned,
     vars, bank, local
<1> QED
  BY <1>1, <1>2, <1>3 DEF Next

LEMMA InvHolds == Spec => []Inv
<1>1. Init => Inv
  BY InitTypes, InitOwned DEF Inv, Owned
<1> QED
  BY <1>1, NextInv, PTL DEF Spec

-----------------------------------------------------------------------------
\* Indices into the banks stay inside them, and every other variable in its
\* range, for any sizes of the banks and any number of cores.
THEOREM TypeCorrect == Spec => []TypeOK
<1>1. Inv => TypeOK
  BY DEF Inv, Types
<1> QED
  BY <1>1, InvHolds, PTL

\* However the initialisations of any number of cores overlap
\* (kernel.c:201-224), the power service has its block when all are past
\* create_ktask.
THEOREM PowerServiceIsCreated == Spec => []PowerServiceExists
<1>1. Inv => PowerServiceExists
  BY DEF Inv
<1> QED
  BY <1>1, InvHolds, PTL

\* A spawned task owns its frame (svc.c:643-661) unless the frame was
\* disturbed by the sweep, by the set-up, or by two allocations at once.
THEOREM SpawnedTasksOwnTheirFrames == Spec => []PagesOwned
<1>1. Inv => PagesOwned
  BY DEF Inv
<1> QED
  BY <1>1, InvHolds, PTL

-----------------------------------------------------------------------------
(* What a step may do to a frame in use and to a block in use.             *)

FreedOnlyBySweep ==
  \A f \in Frame : owner[f] # 0 /\ owner'[f] = 0 =>
    \E c \in Core : \/ pc[c] \in {"sweep", "frames"}
                    \/ pc[c] \in Storing /\ found[c] = f /\ pc'[c] # pc[c]

InvalidatedByReset ==
  \A t \in Task : valid[t] /\ ~valid'[t] =>
    \E c \in Core : pc[c] = "reset" /\ slot[c] = t

LEMMA StoreFrees ==
  ASSUME Types, NEW c \in Core, NEW here \in Storing, NEW id, NEW next,
         AllocStore(c, here, id, next), next # here
  PROVE  FreedOnlyBySweep
  BY DEF AllocStore, FreedOnlyBySweep, Types, TypeOK, At, Goto

LEMMA OwnerUntouched == owner' = owner => FreedOnlyBySweep
  BY DEF FreedOnlyBySweep

LEMMA NextFrees == Types /\ [Next]_vars => FreedOnlyBySweep
<1> SUFFICES ASSUME Types, [Next]_vars PROVE FreedOnlyBySweep
  OBVIOUS
<1>1. ASSUME NEW c \in Core, SetUp(c) PROVE FreedOnlyBySweep
  <2>1. CASE SetUpFrames(c)
    BY <2>1 DEF SetUpFrames, At, FreedOnlyBySweep
  <2>2. CASE \/ \E id \in Ids(c, "power") : AllocStore(c, "power_store", id, "serial_frame")
             \/ \E id \in Ids(c, "serial") : AllocStore(c, "serial_store", id, "sweep")
    BY <2>2, StoreFrees DEF Storing
  <2>3. CASE \/ ResetValid(c) \/ ResetRest(c) \/ CreateServices(c)
             \/ SetLevel(c, "power_level", "power", 2, "serial_level")
             \/ SetLevel(c, "serial_level", "serial", 0, "power_frame")
             \/ AllocLoad(c, "power_frame", "power_store", "serial_frame")
             \/ AllocLoad(c, "serial_frame", "serial_store", "sweep")
    BY <2>3, OwnerUntouched DEF ResetValid, ResetRest, CreateServices, CreateCheck,
       CreateClaim, SetLevel, AllocLoad
  <2> QED
    BY <1>1, <2>1, <2>2, <2>3 DEF SetUp, AllocForServices
<1>2. ASSUME NEW c \in Core, Spawn(c) PROVE FreedOnlyBySweep
  <2>1. CASE AllocStore(c, "spawn_store", slot[c], "spawn_publish")
    BY <2>1, StoreFrees DEF Storing
  <2>2. CASE \/ SpawnScan(c) \/ SpawnPublish(c)
             \/ AllocLoad(c, "spawn_load", "spawn_store", "spawn_publish")
    BY <2>2, OwnerUntouched DEF SpawnScan, SpawnPublish, AllocLoad
  <2> QED
    BY <1>2, <2>1, <2>2 DEF Spawn
<1>3. ASSUME NEW c \in Core, Visor(c) PROVE FreedOnlyBySweep
  <2>1. CASE Sweep(c)
    BY <2>1 DEF Sweep, At, FreedOnlyBySweep
  <2>2. CASE Tick(c) \/ Choose(c) \/ Evict(c)
    BY <2>2, OwnerUntouched DEF Tick, Choose, Evict
  <2> QED
    BY <1>3, <2>1, <2>2 DEF Visor
<1>4. ASSUME NEW c \in Core, NEW t \in Task, TerminateContext(c, t) PROVE FreedOnlyBySweep
  BY <1>4, OwnerUntouched DEF TerminateContext
<1>5. CASE UNCHANGED vars
  BY <1>5, OwnerUntouched DEF vars
<1> QED
  BY <1>1, <1>2, <1>3, <1>4, <1>5 DEF Next

LEMMA ValidUntouched == valid' = valid => InvalidatedByReset
  BY DEF InvalidatedByReset

LEMMA NextInvalidates == Types /\ [Next]_vars => InvalidatedByReset
<1> SUFFICES ASSUME Types, [Next]_vars PROVE InvalidatedByReset
  OBVIOUS
<1>1. ASSUME NEW c \in Core, SetUp(c) PROVE InvalidatedByReset
  <2>1. CASE ResetValid(c)
    BY <2>1 DEF ResetValid, At, InvalidatedByReset, Types, TypeOK
  <2>2. CASE CreateServices(c)
    BY <2>2 DEF CreateServices, CreateCheck, CreateClaim, bank, InvalidatedByReset, Types, TypeOK
  <2>3. CASE \/ SetUpFrames(c) \/ ResetRest(c) \/ AllocForServices(c)
             \/ SetLevel(c, "power_level", "power", 2, "serial_level")
             \/ SetLevel(c, "serial_level", "serial", 0, "power_frame")
    BY <2>3, ValidUntouched DEF SetUpFrames, ResetRest, SetLevel, AllocForServices,
       AllocLoad, AllocStore, bank
  <2> QED
    BY <1>1, <2>1, <2>2, <2>3 DEF SetUp
<1>2. ASSUME NEW c \in Core, Spawn(c) PROVE InvalidatedByReset
  <2>1. CASE SpawnPublish(c)
    BY <2>1 DEF SpawnPublish, InvalidatedByReset, Types, TypeOK
  <2>2. CASE \/ SpawnScan(c)
             \/ AllocLoad(c, "spawn_load", "spawn_store", "spawn_publish")
             \/ AllocStore(c, "spawn_store", slot[c], "spawn_publish")
    BY <2>2, ValidUntouched DEF SpawnScan, AllocLoad, AllocStore, bank
  <2> QED
    BY <1>2, <2>1, <2>2 DEF Spawn
<1>3. ASSUME NEW c \in Core, Visor(c) PROVE InvalidatedByReset
  BY <1>3, ValidUntouched DEF Visor, Tick, Sweep, Choose, Evict, bank
<1>4. ASSUME NEW c \in Core, NEW t \in Task, TerminateContext(c, t) PROVE InvalidatedByReset
  BY <1>4, ValidUntouched DEF TerminateContext
<1>5. CASE UNCHANGED vars
  BY <1>5, ValidUntouched DEF vars, bank
<1> QED
  BY <1>1, <1>2, <1>3, <1>4, <1>5 DEF Next

\* Nothing but the sweep, the set-up of frame 0 and a race for a frame makes a
\* frame in use free (core.c:150-164 frees none).
THEOREM OnlyTheSweepFrees == Spec => FreedBySweepOnly
<1>1. Types /\ [Next]_vars => [FreedOnlyBySweep]_vars
  BY NextFrees
<1>2. Inv => Types
  BY DEF Inv
<1> QED
  BY <1>1, <1>2, InvHolds, PTL DEF Spec, FreedBySweepOnly, FreedOnlyBySweep

\* Nothing but the initialisation in kernel() makes a block in use free.
THEOREM BlocksAreNeverReused == Spec => BlocksFillUp
<1>1. Types /\ [Next]_vars => [InvalidatedByReset]_vars
  BY NextInvalidates
<1>2. Inv => Types
  BY DEF Inv
<1> QED
  BY <1>1, <1>2, InvHolds, PTL DEF Spec, BlocksFillUp, InvalidatedByReset

=============================================================================
