----------------------------- MODULE MCScheduler -----------------------------
(* Two cores and two task blocks: block 0, the only one that create_ktask    *)
(* gives, and block 1, which a queue may still hold at power on.             *)
EXTENDS Scheduler

\* Block 1 is the head and the tail of the queues in qs; n is left in every
\* status, and free in the word of the lock.
Holding(qs, n, free) ==
  LET end == [q \in Level |-> IF q \in qs THEN 1 ELSE NULL]
  IN  [head |-> end, tail |-> end, status |-> [t \in Task |-> n],
       tasks |-> [c \in Core |-> NULL], lock |-> free]

MCMemory == {Holding({}, 2, 1), Holding({3}, 0, 0), Holding({3}, 2, 0), Holding({0, 3, 7}, 0, 0)}
=============================================================================
