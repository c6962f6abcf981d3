---------------------------- MODULE MCSemaphore ----------------------------
(***************************************************************************)
(* Instance of Semaphore for TLC: three cores on one word of three values, *)
(* so that a release at the top of the word wraps and a gain meets both an *)
(* empty word and a word another core has just changed.                    *)
(***************************************************************************)
EXTENDS Semaphore

CONSTANTS c1, c2, c3
=============================================================================
