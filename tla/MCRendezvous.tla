--------------------------- MODULE MCRendezvous ---------------------------
(***************************************************************************)
(* Instances of Rendezvous for TLC: the four cores of the machine.         *)
(***************************************************************************)
EXTENDS Rendezvous

FourCores == 4
=============================================================================
