---------------------------- MODULE MCKernelLock ----------------------------
(***************************************************************************)
(* Instances of KernelLock for TLC: three cores on a word that may be      *)
(* uninitialised; symmetry would be unsound for the liveness property.     *)
(***************************************************************************)
EXTENDS KernelLock

CONSTANTS c1, c2, c3
=============================================================================
