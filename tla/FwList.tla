------------------------------- MODULE FwList -------------------------------
(***************************************************************************)
(* The linked queues of lib/fwlist.c: fw_push_back, fw_push_front, fw_rm,  *)
(* fw_at and tfw_find, one action per straight piece of code and one per   *)
(* loop iteration, on any number of queues that share their nodes (a task  *)
(* moves between the created, ready, waiting and terminated queues).  The  *)
(* tfw_ functions on timer requests are the same text on another type.     *)
(*                                                                         *)
(* One call runs at a time, and a caller pushes only a task that is in no  *)
(* queue: this is the contract the functions can be used under.  KernelLock*)
(* tells what the kernel's locking makes of the first half.                *)
(*                                                                         *)
(* fw_rm finds the task at an index and unlinks it when it is the first or *)
(* the last; one in the middle is left where it is, with the same answer.  *)
(* Index Len stands for the last task too: the walk stops at the node      *)
(* without successor and complains only if more than one step is left.     *)
(***************************************************************************)
EXTENDS Integers, Sequences, Functions

CONSTANTS
  Queue,     \* the headers, fwlist_header_t
  Task,      \* the nodes, pcb_t or timer_request_t
  NULL,
  MaxIndex   \* bound: the largest index asked for

ASSUME FwListAssumption == NULL \notin Task /\ MaxIndex \in Nat

VARIABLES
  head, tail,   \* the two fields of each header
  next,         \* the next field of each task
  pc,           \* idle, or the routine in progress
  q,            \* its header
  idx,          \* its loop counter; -1 is the all-ones u64
  pointed,      \* pointed_task, target_task or temp_request
  prev,         \* prev_task
  asked,        \* the index or the task it was called with
  answer,       \* what the last routine returned
  queue         \* history: the tasks in each queue, in order

heap == <<head, tail, next>>
call == <<pc, q, idx, pointed, prev, asked, answer>>
vars == <<heap, call, queue>>

Queued == UNION {Range(queue[p]) : p \in Queue}

Init ==
  /\ head = [p \in Queue |-> NULL]
  /\ tail = [p \in Queue |-> NULL]
  /\ next = [t \in Task |-> NULL]
  /\ pc = "idle" /\ q \in Queue /\ idx = -1
  /\ pointed = NULL /\ prev = NULL /\ asked = 0 /\ answer = "none"
  /\ queue = [p \in Queue |-> <<>>]

Empty(p) == head[p] = NULL /\ tail[p] = NULL

\* A routine without a loop returns nothing.
Pushed == answer' = "none" /\ UNCHANGED <<pc, q, idx, pointed, prev, asked>>

PushFirst(p, t) ==
  /\ Empty(p)
  /\ head' = [head EXCEPT ![p] = t]
  /\ tail' = [tail EXCEPT ![p] = t]
  /\ UNCHANGED next

\* fw_push_back(header, task): the successor of the task is not written.
PushBack(p, t) ==
  /\ pc = "idle" /\ t \notin Queued
  /\ \/ PushFirst(p, t)
     \/ /\ ~Empty(p)
        /\ next' = [next EXCEPT ![tail[p]] = t]
        /\ tail' = [tail EXCEPT ![p] = t]
        /\ UNCHANGED head
  /\ queue' = [queue EXCEPT ![p] = Append(@, t)]
  /\ Pushed

\* fw_push_front(header, task)
PushFront(p, t) ==
  /\ pc = "idle" /\ t \notin Queued
  /\ \/ PushFirst(p, t)
     \/ /\ ~Empty(p)
        /\ next' = [next EXCEPT ![t] = head[p]]
        /\ head' = [head EXCEPT ![p] = t]
        /\ UNCHANGED tail
  /\ queue' = [queue EXCEPT ![p] = <<t>> \o @]
  /\ Pushed

\* The entry of fw_rm and fw_at: `idx--` on a u64, and 1 for an empty queue.
Begin(p, n, walk) ==
  /\ pc = "idle"
  /\ q' = p /\ asked' = n /\ idx' = n - 1
  /\ pointed' = head[p] /\ prev' = NULL
  /\ \/ head[p] = NULL /\ answer' = "empty" /\ UNCHANGED pc
     \/ head[p] # NULL /\ answer' = "none" /\ pc' = walk
  /\ UNCHANGED <<heap, queue>>

Rm(p, n) == Begin(p, n, "rm")
At(p, n) == Begin(p, n, "at")

\* Mutation of Iterate: the last task is taken whatever the index.
IterateLenient ==
  /\ pc \in {"rm", "at"} /\ idx # -1
  /\ \/ /\ next[pointed] # NULL
        /\ prev' = pointed /\ pointed' = next[pointed] /\ idx' = idx - 1
        /\ UNCHANGED <<pc, answer>>
     \/ /\ next[pointed] = NULL
        /\ idx' = -1 /\ UNCHANGED <<pc, pointed, prev, answer>>
  /\ UNCHANGED <<heap, q, asked, queue>>

\* One iteration of `for (; idx != -1; idx--)`; the break leaves the loop
\* with idx 0, which ends it like -1 does.
Iterate ==
  /\ pc \in {"rm", "at"} /\ idx # -1
  /\ \/ /\ next[pointed] # NULL
        /\ prev' = pointed /\ pointed' = next[pointed] /\ idx' = idx - 1
        /\ UNCHANGED <<pc, answer>>
     \/ /\ next[pointed] = NULL /\ idx = 0
        /\ idx' = -1 /\ UNCHANGED <<pc, pointed, prev, answer>>
     \/ /\ next[pointed] = NULL /\ idx # 0
        /\ pc' = "idle" /\ answer' = "beyond" /\ UNCHANGED <<idx, pointed, prev>>
  /\ UNCHANGED <<heap, q, asked, queue>>

\* return target_task
Found ==
  /\ pc = "at" /\ idx = -1
  /\ pc' = "idle" /\ answer' = "found"
  /\ UNCHANGED <<heap, q, idx, pointed, prev, asked, queue>>

\* Mutation of UnlinkLast: prev_task keeps its successor.
UnlinkLastDangling ==
  /\ pointed # head[q] /\ pointed = tail[q]
  /\ tail' = [tail EXCEPT ![q] = prev]
  /\ UNCHANGED <<head, next>>

UnlinkOnly ==
  /\ pointed = tail[q] /\ pointed = head[q]
  /\ head' = [head EXCEPT ![q] = NULL]
  /\ tail' = [tail EXCEPT ![q] = NULL]
  /\ UNCHANGED next

UnlinkFirst ==
  /\ pointed = head[q] /\ pointed # tail[q]
  /\ head' = [head EXCEPT ![q] = next[pointed]]
  /\ next' = [next EXCEPT ![pointed] = NULL]
  /\ UNCHANGED tail

UnlinkLast ==
  /\ pointed # head[q] /\ pointed = tail[q]
  /\ tail' = [tail EXCEPT ![q] = prev]
  /\ next' = [next EXCEPT ![prev] = NULL]
  /\ UNCHANGED head

UnlinkNothing == pointed \notin {head[q], tail[q]} /\ UNCHANGED heap

\* What fw_rm leaves of a queue when it answers 0.
Without(s, n) ==
  IF n = 0 THEN Tail(s)
  ELSE IF n + 1 >= Len(s) THEN SubSeq(s, 1, Len(s) - 1)
  ELSE s

\* The part of fw_rm after its loop, and return 0.
Unlink ==
  /\ pc = "rm" /\ idx = -1
  /\ UnlinkOnly \/ UnlinkFirst \/ UnlinkLast \/ UnlinkNothing
  /\ queue' = [queue EXCEPT ![q] = Without(@, asked)]
  /\ pc' = "idle" /\ answer' = "removed"
  /\ UNCHANGED <<q, idx, pointed, prev, asked>>

\* tfw_find(header, id): 1 for an empty queue.
Find(p, t) ==
  /\ pc = "idle"
  /\ q' = p /\ asked' = t /\ pointed' = head[p]
  /\ \/ head[p] = NULL /\ answer' = "absent" /\ UNCHANGED pc
     \/ head[p] # NULL /\ answer' = "none" /\ pc' = "find"
  /\ UNCHANGED <<heap, idx, prev, queue>>

\* Mutation of Seek: the successor is tested before the task.
SeekShort ==
  /\ pc = "find"
  /\ \/ next[pointed] = NULL /\ pc' = "idle" /\ answer' = "absent" /\ UNCHANGED pointed
     \/ /\ next[pointed] # NULL
        /\ \/ pointed = asked /\ pc' = "idle" /\ answer' = "present" /\ UNCHANGED pointed
           \/ pointed # asked /\ pointed' = next[pointed] /\ UNCHANGED <<pc, answer>>
  /\ UNCHANGED <<heap, q, idx, prev, asked, queue>>

\* One iteration of its loop.
Seek ==
  /\ pc = "find"
  /\ \/ pointed = asked /\ pc' = "idle" /\ answer' = "present" /\ UNCHANGED pointed
     \/ /\ pointed # asked
        /\ \/ next[pointed] = NULL /\ pc' = "idle" /\ answer' = "absent" /\ UNCHANGED pointed
           \/ next[pointed] # NULL /\ pointed' = next[pointed] /\ UNCHANGED <<pc, answer>>
  /\ UNCHANGED <<heap, q, idx, prev, asked, queue>>

Next ==
  \/ \E p \in Queue, t \in Task : PushBack(p, t) \/ PushFront(p, t) \/ Find(p, t)
  \/ \E p \in Queue, n \in 0..MaxIndex : Rm(p, n) \/ At(p, n)
  \/ Iterate \/ Found \/ Unlink \/ Seek

Spec == Init /\ [][Next]_vars

-----------------------------------------------------------------------------
Link == Task \union {NULL}

\* Every variable stays in its range.
TypeOK ==
  /\ head \in [Queue -> Link] /\ tail \in [Queue -> Link]
  /\ next \in [Task -> Link]
  /\ pc \in {"idle", "rm", "at", "find"}
  /\ q \in Queue /\ idx \in -1..MaxIndex
  /\ pointed \in Link /\ prev \in Link
  /\ asked \in Task \union 0..MaxIndex
  /\ answer \in {"none", "empty", "beyond", "found", "removed", "present", "absent"}
  /\ queue \in [Queue -> Seq(Task)]

\* The links spell one queue.
Spells(p) ==
  LET s == queue[p] IN
    /\ s = <<>> => head[p] = NULL /\ tail[p] = NULL
    /\ s # <<>> => head[p] = s[1] /\ tail[p] = s[Len(s)] /\ next[s[Len(s)]] = NULL
    /\ \A i \in 1..Len(s) - 1 : next[s[i]] = s[i + 1]

\* The heap spells the queues (fwlist.c:3-70): from head to tail the successors
\* are the tasks that were pushed and not taken from an end, the last one has
\* none, and a task outside every queue has none either, so that the next
\* fw_push_back, which does not write it, ends in NULL.
Represents ==
  /\ \A p \in Queue : Spells(p)
  /\ \A t \in Task \ Queued : next[t] = NULL

\* The walks over the links (fwlist.c:33-46, 75-88, 130-139) find what they
\* should: index n < Len the task there, n = Len the last one, anything
\* greater is refused; and a timer request is found exactly when it is queued.
WalksFind ==
  LET s == queue[q] IN
    /\ (answer = "found" \/ (pc = "rm" /\ idx = -1)) =>
         pointed = s[IF asked < Len(s) THEN asked + 1 ELSE Len(s)]
    /\ (pc = "rm" /\ idx = -1) => asked <= Len(s)
    /\ answer = "beyond" => asked > Len(s)
    /\ answer = "empty" => s = <<>>
    /\ answer = "present" => asked \in Range(s)
    /\ answer = "absent" => asked \notin Range(s)
=============================================================================
