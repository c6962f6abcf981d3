------------------------- MODULE CountingSemaphore -------------------------
(***************************************************************************)
(* What lib/softwarelock.s promises about a counting semaphore, seen by    *)
(* its callers: every call takes effect in one atomic step.  A gain either *)
(* takes one unit and answers 0 or takes nothing and answers 1; a release  *)
(* either returns one unit and answers 0 or returns nothing and answers 1; *)
(* a spinwait comes back only at an instant at which a unit is free.       *)
(*                                                                         *)
(* A gain may answer 1 although units are free: the code tries its         *)
(* exclusive store once and reports the failure of that store.             *)
(***************************************************************************)
EXTENDS Naturals

CONSTANTS
  Core,      \* the callers
  MaxWord    \* largest value of the 64-bit semaphore word

VARIABLES
  units,     \* the semaphore word
  status     \* per caller: the call in progress, or the last answer

vars == <<units, status>>

Calls   == {"gain", "release", "spinwait"}
Answers == {"none", "ok", "refused"}

\* One unit more in a 64-bit word: `add x1,x1,#1` wraps at the top.
Successor(n) == IF n = MaxWord THEN 0 ELSE n + 1

Init ==
  /\ units \in 0..MaxWord
  /\ status = [c \in Core |-> "none"]

Call(c) ==
  /\ status[c] \in Answers
  /\ \E op \in Calls : status' = [status EXCEPT ![c] = op]
  /\ UNCHANGED units

Take(c) ==
  /\ status[c] = "gain"
  /\ units > 0
  /\ units' = units - 1
  /\ status' = [status EXCEPT ![c] = "ok"]

Put(c) ==
  /\ status[c] = "release"
  /\ units' = Successor(units)
  /\ status' = [status EXCEPT ![c] = "ok"]

Refuse(c) ==
  /\ status[c] \in {"gain", "release"}
  /\ status' = [status EXCEPT ![c] = "refused"]
  /\ UNCHANGED units

SeeFree(c) ==
  /\ status[c] = "spinwait"
  /\ units > 0
  /\ status' = [status EXCEPT ![c] = "ok"]
  /\ UNCHANGED units

Next == \E c \in Core : Call(c) \/ Take(c) \/ Put(c) \/ Refuse(c) \/ SeeFree(c)

Spec == Init /\ [][Next]_vars
=============================================================================
