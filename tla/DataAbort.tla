------------------------------ MODULE DataAbort ------------------------------
(***************************************************************************)
(* The data aborts of one core: lower_el_d_abort_lower_handler, which      *)
(* should give a task more pages, and same_el_d_abort_same_handler, which  *)
(* should stop the machine (synchronous.c).                                *)
(*                                                                         *)
(* A register is the set of its bits that are 1, an address a number below *)
(* Word.  A task has the page it was spawned with, or, as the services     *)
(* have (mh_push_back gets the list by value and changes nothing), none;   *)
(* reads through NULL give anything.  Frames lie in memory that nothing    *)
(* clears (linker.ld:204): next_frame is NULL where the frame was freed    *)
(* before (memory.c:24), and anything where it was not.                    *)
(*                                                                         *)
(* task_dispatcher returns when the queue of the core has nothing to run   *)
(* (schaduler.c:189-262), and no call of it here is followed by a return:  *)
(* the handler goes on behind it, which is the label `back`.  Scope: the   *)
(* translation tables (synchronous.c:252-312) are left out.                *)
(***************************************************************************)
EXTENDS Integers

CONSTANTS
  Word,       \* 2^64: addresses and counts are taken modulo Word
  KB,         \* 1024
  Syndrome,   \* the bits of the syndrome register that TLC varies
  MaxCount,   \* bound: the walk over the pages is followed for so many turns
  NULL, Page, Stray   \* no page, the page of the task, any other frame

\* Assumed of the constants.
DataAbortAssumption ==
  /\ KB \in Nat /\ KB > 2
  /\ Word \in Nat \ {0} /\ Word % KB = 0
  /\ Syndrome \subseteq Nat
  /\ MaxCount \in Nat
  /\ NULL # Page /\ NULL # Stray /\ Page # Stray

VARIABLES
  pc,      \* where the core is
  back,    \* where it goes on when task_dispatcher returns
  pages,   \* pages.head = pages.tail of the task that runs
  next,    \* next_frame of that page
  temp,    \* temp_page; behind the walk, allocated_page
  count,   \* pages_count
  far,     \* the address that faulted
  left,    \* turns left of the loop that grants pages
  status,  \* status of the task: 2 running, 3 terminated
  fault,   \* fault_code of the task, 0 for none
  given    \* history: the frames granted to the task

vars == <<pc, back, pages, next, temp, count, far, left, status, fault, given>>

Frames == {NULL, Page, Stray}

TypeOK ==
  /\ pc \in {"task", "walk", "attempt", "grow", "link", "size", "kframe", "dispatch", "panic"}
  /\ back \in {"task", "walk", "grow", "link", "size", "kframe"}
  /\ pages \in {NULL, Page} /\ next \in Frames /\ temp \in Frames
  /\ count \in 0..MaxCount /\ far \in 0..Word-1 /\ left \in 0..Word-1
  /\ status \in {2, 3} /\ fault \in {0, 6, 13, 14, 15, 16}
  /\ given \subseteq {Stray}

Init ==
  /\ pc = "task" /\ back = "task"
  /\ pages \in {NULL, Page} /\ next \in Frames /\ temp = NULL
  /\ count = 0 /\ far = 0 /\ left = 0
  /\ status = 2 /\ fault = 0 /\ given = {}

-----------------------------------------------------------------------------
\* Mutation of Masked: the mask is not shifted.
MaskedMeant(iss) == {bit \in iss : bit < 24}

\* iss &= 0xffffff << 31: the constant has 32 bits, and keeps its sign bit and,
\* widened, everything above it.
Masked(iss) == {bit \in iss : bit >= 31}

\* iss & 0x1f; and bits 11 and 12, in a byte.
Dscf(iss)  == Masked(iss) \intersect 0..4
State(iss) == Masked(iss) \intersect {11, 12} \intersect 0..7

\* dscf > 0b010000 && dscf > 0b011000
External(d) == {3, 4} \subseteq d /\ d \intersect 0..2 # {}
\* dscf >= 0b001100 && dscf <= 0b001111
Permission(d) == {2, 3} \subseteq d /\ 4 \notin d
\* dscf == 0b100001
Alignment(d) == d = {0, 5}

\* The task is ended and task_dispatcher called; what follows is at `to`.
Ended(code, to) ==
  /\ status' = 3 /\ fault' = code
  /\ pc' = "dispatch" /\ back' = to

\* The core goes on with another task, or there is none and it returns.
Dispatch ==
  /\ pc = "dispatch"
  /\ \/ /\ pc' = "task" /\ status' = 2 /\ fault' = 0 /\ given' = {}
        /\ pages' \in {NULL, Page} /\ next' \in Frames
        /\ temp' = NULL /\ left' = 0
     \/ pc' = back /\ UNCHANGED <<pages, next, temp, left, status, fault, given>>
  /\ back' = "task"
  /\ UNCHANGED <<count, far>>

\* A task touches an address it may not touch.
TaskFault(iss, address) ==
  /\ pc = "task"
  /\ far' = address /\ temp' = NULL /\ count' = 0
  /\ LET d == Dscf(iss) IN
       IF External(d) THEN
         /\ pc' = IF State(iss) = {0, 1} THEN "task" ELSE "panic"
         /\ UNCHANGED <<back, status, fault>>
       ELSE IF Permission(d) THEN Ended(15, "walk")
       ELSE IF Alignment(d) THEN Ended(16, "walk")
       ELSE pc' = "walk" /\ UNCHANGED <<back, status, fault>>
  /\ UNCHANGED <<pages, next, left, given>>

\* The kernel does: an external abort stops the machine, and from any other
\* the handler returns to where it came from.
KernelFault(iss) ==
  /\ pc = "task"
  /\ pc' = IF External(Dscf(iss)) /\ State(iss) # {0, 1} THEN "panic" ELSE "task"
  /\ UNCHANGED <<back, pages, next, temp, count, far, left, status, fault, given>>

\* What a read of next_frame may give.
NextFrame(p) == IF p = Page THEN {next} ELSE Frames

\* Mutation of WalkTurn: the walk also ends where there is no next frame.
WalkTurnEnding ==
  /\ pc = "walk" /\ count < MaxCount
  /\ count' = count + 1
  /\ temp' \in NextFrame(IF temp = NULL THEN pages ELSE temp)
  /\ pc' = IF temp' = NULL THEN "attempt" ELSE "walk"
  /\ UNCHANGED <<back, pages, next, far, left, status, fault, given>>

\* One turn of the count.  NULL means that the walk has not begun, and a frame
\* counts once more whenever its successor is NULL.
WalkTurn ==
  /\ pc = "walk" /\ count < MaxCount
  /\ count' = count + 1
  /\ temp' \in NextFrame(IF temp = NULL THEN pages ELSE temp)
  /\ UNCHANGED <<pc, back, pages, next, far, left, status, fault, given>>

\* The walk ends at a frame with the id of the last one.
SameId(p) == IF p = Page /\ pages = Page THEN {TRUE} ELSE BOOLEAN

WalkEnd ==
  /\ pc = "walk" /\ temp # NULL
  /\ TRUE \in SameId(temp)
  /\ pc' = "attempt" /\ temp' = NULL
  /\ UNCHANGED <<back, pages, next, count, far, left, status, fault, given>>

\* Mutation of Attempted: the quotient by 4 KB.
AttemptedMeant(address, n) == ((address - n * 4 * KB) % Word) \div (4 * KB)

\* (far - pages_count * 4 * KB) / 4 * KB: divided by 4, then multiplied by KB.
Attempted(address, n) == ((((address - n * 4 * KB) % Word) \div 4) * KB) % Word

\* More than two pages end the task; then the loop has as many turns, for a
\* task that has been ended too.
Attempt ==
  /\ pc = "attempt"
  /\ left' = Attempted(far, count)
  /\ IF left' > 2 THEN Ended(6, "grow")
     ELSE pc' = "grow" /\ UNCHANGED <<back, status, fault>>
  /\ count' = 0 /\ far' = 0
  /\ UNCHANGED <<pages, next, temp, given>>

\* alloc_page; without a page the task is ended, and the loop goes on.
Grow(frame) ==
  /\ pc = "grow" /\ left > 0
  /\ temp' = frame
  /\ IF frame = NULL
     THEN Ended(13, "link") /\ UNCHANGED given
     ELSE /\ pc' = "link" /\ given' = given \union {frame}
          /\ UNCHANGED <<back, status, fault>>
  /\ UNCHANGED <<pages, next, count, far, left>>

\* The handler returns, to a task that it may have ended.
GrowEnd ==
  /\ pc = "grow" /\ left = 0
  /\ pc' = "task" /\ temp' = NULL
  /\ UNCHANGED <<back, pages, next, count, far, left, status, fault, given>>

\* mh_push_back(head, head, allocated_page), which sets next_frame of the head
\* and leaves the tail; then the frame of the tables, if ttbr is in one.
Link ==
  /\ pc = "link"
  /\ next' = IF pages = Page THEN temp ELSE next
  /\ \/ pc' = "size" /\ UNCHANGED <<back, status, fault>>
     \/ Ended(14, "size")
  /\ UNCHANGED <<pages, temp, count, far, left, given>>

\* The tables have room; or they are as large as can be (the status is not
\* set, though the comment says so); or they need a larger frame.
Size ==
  /\ pc = "size"
  /\ \/ pc' = "grow" /\ left' = left - 1 /\ UNCHANGED <<back, fault>>
     \/ fault' = 14 /\ pc' = "dispatch" /\ back' = "kframe" /\ UNCHANGED left
     \/ pc' = "kframe" /\ UNCHANGED <<back, left, fault>>
  /\ UNCHANGED <<pages, next, temp, count, far, status, given>>

\* alloc_kframe never finds one (kmem.c:125): the tables are written through
\* NULL, and the next turn comes.
Kframe ==
  /\ pc = "kframe"
  /\ fault' = 14 /\ pc' = "dispatch" /\ back' = "grow"
  /\ left' = left - 1
  /\ UNCHANGED <<pages, next, temp, count, far, status, given>>

Next ==
  \/ \E iss \in SUBSET Syndrome :
       KernelFault(iss) \/ \E address \in 0..Word-1 : TaskFault(iss, address)
  \/ WalkTurn \/ WalkEnd \/ Attempt \/ Dispatch
  \/ (\E frame \in {NULL, Stray} : Grow(frame)) \/ GrowEnd \/ Link \/ Size \/ Kframe

Spec == Init /\ [][Next]_vars

-----------------------------------------------------------------------------
\* synchronous.c:133-162, 434-459: no abort is told from a lack of pages, since
\* the mask leaves no bit of the fault status: none stops the machine, and no
\* task ends for a permission (15) or an alignment (16) fault.
LackOfPagesOnly == pc # "panic" /\ fault \in {0, 6, 13, 14}

\* synchronous.c:183-209: pages are granted only to tasks that the same handler
\* has ended.  The number of attempted pages, a multiple of KB even when the
\* subtraction wraps, is 0 or above 2: there is nothing to grant, or the task
\* is ended and, when task_dispatcher returns, gets pages all the same.
GrantsToTheEnded == given # {} => status = 3

\* What can come of a data abort (synchronous.c:115-313): nothing but the end of
\* a task for a lack of pages, or a return with no page granted to a task that
\* goes on.
AbortOutcomes == LackOfPagesOnly /\ GrantsToTheEnded

\* synchronous.c:168-183: when next_frame of the one page of a task is NULL, as
\* free_page leaves it and as a grant that failed stores it, the count never
\* ends, and the core never runs anything again.
NullLinkIsCountedForEver ==
  [][pc = "walk" /\ pages = Page /\ next = NULL => pc' = "walk"]_vars
=============================================================================
