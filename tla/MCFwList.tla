------------------------------ MODULE MCFwList ------------------------------
(***************************************************************************)
(* Instance of FwList for TLC: two queues over four tasks, so that a queue *)
(* of three has a middle and a task left over to be pushed elsewhere, and  *)
(* indices up to one beyond the last task of the longest queue.            *)
(***************************************************************************)
EXTENDS FwList, TLC

CONSTANTS t1, t2, t3, t4, ready, waiting

Symmetry == Permutations(Task) \union Permutations(Queue)
=============================================================================
