------------------------------ MODULE MCParts ------------------------------
(***************************************************************************)
(* An instance of Parts for TLC.                                           *)
(***************************************************************************)
EXTENDS Parts

CONSTANTS t1, t2

\* A register of zeros, of ones, or with every other bit.
Registers == {{}, 0..31, {bit \in 0..31 : bit % 2 = 1}}

\* Of the values of enablation those that tell every edit from its neighbours:
\* nothing, all of 0x1F, and the unit with one interrupt.
Enablations == {{}, 0..4, {0, 3}}

\* Two callers are alike, and the firmware leaves both bits or none.
MCInit ==
  /\ PartsInit
  /\ owner # t2 /\ cntl \in {{}, {0, 1}}

MCSpec == MCInit /\ [][PartsNext]_partsVars /\ Line!Fairness
=============================================================================
