-------------------------------- MODULE Dumps --------------------------------
(***************************************************************************)
(* The bank of dumps: the end of terminate_context (core.c:167-208), which *)
(* every core may run at any time, for any task, and which nothing guards. *)
(*                                                                         *)
(* An entry is free while its task_id is 0.  The scan reads one id at a    *)
(* time; an entry that is free is then filled, the id first.  When the     *)
(* last entry is taken, a second loop is to find the oldest.  The index    *)
(* it comes to is that of the words before the bank, slot -1.              *)
(*                                                                         *)
(* The time is read and stored in one step, and the two reads of a         *)
(* comparison are one.  Only at an entry that two cores fill together can  *)
(* the time go back between them; FirstDumpsStay leaves such entries out.  *)
(***************************************************************************)
EXTENDS Integers

CONSTANTS
  Core,
  Task,      \* ids of the tasks, 0 among them
  D,         \* number of entries (32)
  MaxTime    \* bound: the system timer is followed up to here

Entry == 0..D-1
Slot  == -1..D-1

\* Assumed of the constants.
DumpsAssumption ==
  /\ Task \subseteq Nat /\ 0 \in Task
  /\ D \in Nat \ {0} /\ MaxTime \in Nat

VARIABLES
  id,      \* task_id of each slot
  body,    \* the fields stored after it: whose they are
  stime,   \* ... and the time, the last one stored
  now,     \* the system timer
  pc, at,  \* where each core is, and the entry it looks at or fills
  task,    \* per core: the task it ends
  met      \* history: the slots at which two cores were at once

vars == <<id, body, stime, now, pc, at, task, met>>

\* The bank is zeroed memory; what lies before it is somebody else's.
Init ==
  /\ id = [e \in Slot |-> 0] /\ body = [e \in Slot |-> 0]
  /\ stime = [e \in Slot |-> 0] /\ now = 0
  /\ pc = [c \in Core |-> "run"] /\ at = [c \in Core |-> 0]
  /\ task = [c \in Core |-> 0]
  /\ met = {}

Filling == {"id", "body", "stime"}
Filler(e) == {c \in Core : pc[c] \in Filling /\ at[c] = e}

Goto(c, label) == pc' = [pc EXCEPT ![c] = label]

Move(c, e, label) == at' = [at EXCEPT ![c] = e] /\ Goto(c, label)

\* Core c goes to fill slot e.
Take(c, e) ==
  /\ Move(c, e, "id")
  /\ met' = IF Filler(e) = {} THEN met ELSE met \union {e}

Clock ==
  /\ now < MaxTime /\ now' = now + 1
  /\ UNCHANGED <<id, body, stime, pc, at, task, met>>

Terminate(c) ==
  /\ pc[c] = "run"
  /\ \E t \in Task : task' = [task EXCEPT ![c] = t]
  /\ Move(c, 0, "scan")
  /\ UNCHANGED <<id, body, stime, now, met>>

\* Mutation of Oldest: the least time is kept from turn to turn.
OldestMeant == CHOOSE e \in Entry : \A f \in Entry : stime[e] <= stime[f]

\* The loop of core.c:182-205: least_time and idx begin anew in every turn, with
\* the time that they are compared with, so that the last turn alone decides.
Oldest ==
  LET least == stime[D - 1] IN IF least > stime[D - 1] THEN D - 1 ELSE -1

\* Mutation of Scan: the last entry is never found free.
ScanShort(c) ==
  /\ pc[c] = "scan"
  /\ IF at[c] = D - 1 THEN Take(c, Oldest)
     ELSE IF id[at[c]] = 0 THEN Take(c, at[c])
     ELSE Move(c, at[c] + 1, "scan") /\ UNCHANGED met
  /\ UNCHANGED <<id, body, stime, now, task>>

Scan(c) ==
  /\ pc[c] = "scan"
  /\ IF id[at[c]] = 0 THEN Take(c, at[c])
     ELSE IF at[c] = D - 1 THEN Take(c, Oldest)
     ELSE Move(c, at[c] + 1, "scan") /\ UNCHANGED met
  /\ UNCHANGED <<id, body, stime, now, task>>

StoreId(c) ==
  /\ pc[c] = "id"
  /\ id' = [id EXCEPT ![at[c]] = task[c]]
  /\ Goto(c, "body")
  /\ UNCHANGED <<body, stime, now, at, task, met>>

\* preipherals, preipherals_count, fault_code, fault_dump and flags.
StoreBody(c) ==
  /\ pc[c] = "body"
  /\ body' = [body EXCEPT ![at[c]] = task[c]]
  /\ Goto(c, "stime")
  /\ UNCHANGED <<id, stime, now, at, task, met>>

StoreTime(c) ==
  /\ pc[c] = "stime"
  /\ stime' = [stime EXCEPT ![at[c]] = now]
  /\ Move(c, 0, "run")
  /\ task' = [task EXCEPT ![c] = 0]
  /\ UNCHANGED <<id, body, now, met>>

Fill(c) == StoreId(c) \/ StoreBody(c) \/ StoreTime(c)

Next == Clock \/ \E c \in Core : Terminate(c) \/ Scan(c) \/ Fill(c)

Spec == Init /\ [][Next]_vars

-----------------------------------------------------------------------------
Settled(e) == id[e] # 0 /\ Filler(e) = {}

\* core.c:166-208: a dump of a task other than 0, once it is complete, is there
\* for ever, unless two cores have found its entry free at the same time: a bank
\* that has run full never takes another one.
FirstDumpsStay ==
  [][\A e \in Entry \ met : Settled(e) =>
       Settled(e)' /\ UNCHANGED <<id[e], body[e], stime[e]>>]_vars

\* core.c:168-177: a complete entry tells of one task, unless two cores have
\* found it free at the same time.
DumpsTellOfOneTask ==
  \A e \in Entry \ met : Settled(e) => body[e] = id[e]

\* core.c:180: a core fills the words before the bank only when every entry is
\* taken, unless two cores have found one entry free at the same time.
OutsideOnlyWhenFull ==
  met \subseteq {-1} => \A c \in Filler(-1) : \A e \in Entry : id[e] # 0
=============================================================================
