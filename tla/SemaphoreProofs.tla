-------------------------- MODULE SemaphoreProofs --------------------------
(***************************************************************************)
(* Proofs about Semaphore for every set of cores and every word size: the  *)
(* types, the invariant that makes the exclusive pairs atomic, and that    *)
(* the instruction sequences implement CountingSemaphore.                  *)
(***************************************************************************)
EXTENDS Semaphore, TLAPS

LEMMA IncrementedInWord ==
  ASSUME NEW n \in Word
  PROVE  Incremented(n) \in Word
  BY MaxWordAssumption DEF Incremented, Word

\* The inductive invariant: types and the content of armed monitors.
Inv == TypeOK /\ PairsAreAtomic

LEMMA InitInv == Init => Inv
  BY MaxWordAssumption DEF Init, Inv, TypeOK, PairsAreAtomic, Word, Labels

LEMMA EnterInv ==
  ASSUME Inv, NEW c \in Core, Enter(c)
  PROVE  Inv'
  BY DEF Enter, Goto, Inv, TypeOK, PairsAreAtomic, Labels

LEMMA LoadInv ==
  ASSUME Inv, NEW c \in Core, GainLoad(c) \/ ReleaseLoad(c) \/ SpinwaitLoad(c)
  PROVE  Inv'
<1> USE DEF Inv, Goto, Return
<1>1. TypeOK'
  BY DEF TypeOK, Labels, GainLoad, ReleaseLoad, SpinwaitLoad, LoadExclusive
<1>2. PairsAreAtomic'
  <2>1. CASE GainLoad(c)
    BY <2>1 DEF TypeOK, PairsAreAtomic, GainLoad, LoadExclusive, Word
  <2>2. CASE ReleaseLoad(c)
    BY <2>2 DEF TypeOK, PairsAreAtomic, ReleaseLoad, LoadExclusive
  <2>3. CASE SpinwaitLoad(c)
    BY <2>3 DEF TypeOK, PairsAreAtomic, SpinwaitLoad
  <2> QED BY <2>1, <2>2, <2>3
<1> QED BY <1>1, <1>2

LEMMA StoreInv ==
  ASSUME Inv, NEW c \in Core, GainStore(c) \/ ReleaseStore(c) \/ StoreFails(c)
  PROVE  Inv'
<1> USE DEF Inv, Goto, Return
<1>1. CASE GainStore(c)
  <2>1. x1[c] - 1 \in Word
    BY <1>1, MaxWordAssumption DEF TypeOK, PairsAreAtomic, GainStore, Word
  <2> QED
    BY <1>1, <2>1 DEF TypeOK, PairsAreAtomic, Labels, GainStore, StoreExclusive
<1>2. CASE ReleaseStore(c)
  <2>1. Incremented(x1[c]) \in Word
    BY IncrementedInWord DEF TypeOK
  <2> QED
    BY <1>2, <2>1 DEF TypeOK, PairsAreAtomic, Labels, ReleaseStore, StoreExclusive
<1>3. CASE StoreFails(c)
  BY <1>3 DEF TypeOK, PairsAreAtomic, Labels, StoreFails
<1> QED BY <1>1, <1>2, <1>3

LEMMA NextInv == Inv /\ [Next]_vars => Inv'
<1> SUFFICES ASSUME Inv, [Next]_vars
             PROVE  Inv'
  OBVIOUS
<1>1. ASSUME NEW c \in Core, Enter(c) \/ Step(c)
      PROVE  Inv'
  BY <1>1, EnterInv, LoadInv, StoreInv DEF Step
<1>2. CASE UNCHANGED vars
  BY <1>2 DEF vars, Inv, TypeOK, PairsAreAtomic
<1> QED BY <1>1, <1>2 DEF Next

LEMMA InvHolds == Spec => []Inv
  BY InitInv, NextInv, PTL DEF Spec

\* Every variable of the semaphore routines (softwarelock.s:60-102) keeps its
\* type, for every set of cores and every word size.
THEOREM TypeCorrect == Spec => []TypeOK
<1>1. Inv => TypeOK
  BY DEF Inv
<1> QED BY <1>1, InvHolds, PTL

\* An armed monitor guards the current value of the word: no interleaving of
\* cores lets a stale LDAXR value be stored (softwarelock.s:68-72, 83-85).
THEOREM ExclusivePairs == Spec => []PairsAreAtomic
<1>1. Inv => PairsAreAtomic
  BY DEF Inv
<1> QED BY <1>1, InvHolds, PTL

-----------------------------------------------------------------------------
(* The refinement.  Status(c) of the mapping changes for the acting core   *)
(* only; each lemma gives the abstract step a concrete step stands for.    *)

abstractStatus == [c \in Core |-> Status(c)]

LEMMA InitRefines == Init => Abstract!Init
  BY DEF Init, Abstract!Init, Status, Word

LEMMA StatusOfOthers ==
  ASSUME NEW c \in Core, TypeOK, TypeOK',
         \A d \in Core \ {c} : pc'[d] = pc[d] /\ answer'[d] = answer[d]
  PROVE  abstractStatus' = [abstractStatus EXCEPT ![c] = Status(c)']
<1>1. \A d \in Core \ {c} : Status(d)' = Status(d)
  BY DEF Status
<1> QED BY <1>1 DEF abstractStatus

LEMMA StepRefines ==
  ASSUME Inv, Inv', NEW c \in Core, Enter(c) \/ Step(c)
  PROVE  Abstract!Next \/ UNCHANGED Abstract!vars
<1> USE DEF Inv, Goto, Return
<1>0. /\ TypeOK /\ TypeOK'
      /\ \A d \in Core \ {c} : pc'[d] = pc[d] /\ answer'[d] = answer[d]
  BY DEF TypeOK, Enter, Step, GainLoad, GainStore, ReleaseLoad, ReleaseStore,
         StoreFails, SpinwaitLoad, StoreExclusive
<1>1. abstractStatus' = [abstractStatus EXCEPT ![c] = Status(c)']
  BY <1>0, StatusOfOthers
<1>s. abstractStatus[c] = Status(c)
  BY DEF abstractStatus
<1>2. CASE Enter(c)
  <2>1. Status(c) \in {"none", "ok", "refused"}
    BY <1>2 DEF Enter, Status, TypeOK
  <2>2. Status(c)' \in {"gain", "release", "spinwait"} /\ sem' = sem
    BY <1>2 DEF Enter, Status, TypeOK
  <2>3. Abstract!Call(c)
    BY <1>1, <1>s, <2>1, <2>2 DEF abstractStatus, Abstract!Call, Abstract!Calls, Abstract!Answers
  <2> QED BY <2>3 DEF Abstract!Next
<1>3. CASE GainLoad(c)
  <2>1. Status(c) = "gain" /\ sem' = sem
    BY <1>3 DEF GainLoad, LoadExclusive, Status
  <2>2. CASE sem = 0
    <3>1. Status(c)' = "refused"
      BY <1>3, <2>2 DEF GainLoad, Status, TypeOK
    <3>2. Abstract!Refuse(c)
      BY <1>1, <1>s, <2>1, <3>1 DEF abstractStatus, Abstract!Refuse
    <3> QED BY <3>2 DEF Abstract!Next
  <2>3. CASE sem # 0
    <3>1. Status(c)' = "gain"
      BY <1>3, <2>3 DEF GainLoad, Status, TypeOK
    <3> QED BY <1>1, <1>s, <2>1, <3>1 DEF abstractStatus, Abstract!vars
  <2> QED BY <2>2, <2>3
<1>4. CASE GainStore(c)
  <2>1. Status(c) = "gain" /\ Status(c)' = "ok"
    BY <1>4 DEF GainStore, StoreExclusive, Status, TypeOK
  <2>2. sem > 0 /\ sem' = sem - 1
    BY <1>4 DEF GainStore, StoreExclusive, PairsAreAtomic, TypeOK, Word
  <2>3. Abstract!Take(c)
    BY <1>1, <1>s, <2>1, <2>2 DEF abstractStatus, Abstract!Take
  <2> QED BY <2>3 DEF Abstract!Next
<1>5. CASE ReleaseLoad(c)
  <2>1. Status(c) = "release" /\ Status(c)' = "release" /\ sem' = sem
    BY <1>5 DEF ReleaseLoad, LoadExclusive, Status, TypeOK
  <2> QED BY <1>1, <1>s, <2>1 DEF abstractStatus, Abstract!vars
<1>6. CASE ReleaseStore(c)
  <2>1. Status(c) = "release" /\ Status(c)' = "ok"
    BY <1>6 DEF ReleaseStore, StoreExclusive, Status, TypeOK
  <2>2. sem' = Abstract!Successor(sem)
    BY <1>6 DEF ReleaseStore, StoreExclusive, PairsAreAtomic, Incremented, Abstract!Successor
  <2>3. Abstract!Put(c)
    BY <1>1, <1>s, <2>1, <2>2 DEF abstractStatus, Abstract!Put
  <2> QED BY <2>3 DEF Abstract!Next
<1>7. CASE StoreFails(c)
  <2>1. Status(c) \in {"gain", "release"} /\ Status(c)' = "refused" /\ sem' = sem
    BY <1>7 DEF StoreFails, Status, TypeOK
  <2>2. Abstract!Refuse(c)
    BY <1>1, <1>s, <2>1 DEF abstractStatus, Abstract!Refuse
  <2> QED BY <2>2 DEF Abstract!Next
<1>8. CASE SpinwaitLoad(c)
  <2>1. Status(c) = "spinwait" /\ sem' = sem
    BY <1>8 DEF SpinwaitLoad, Status
  <2>2. CASE sem = 0
    <3>1. Status(c)' = Status(c)
      BY <1>8, <2>2 DEF SpinwaitLoad, Status
    <3> QED BY <1>1, <1>s, <2>1, <3>1 DEF abstractStatus, Abstract!vars
  <2>3. CASE sem # 0
    <3>1. Status(c)' = "ok" /\ sem > 0
      BY <1>8, <2>3 DEF SpinwaitLoad, Status, TypeOK, Word
    <3>2. Abstract!SeeFree(c)
      BY <1>1, <1>s, <2>1, <3>1 DEF abstractStatus, Abstract!SeeFree
    <3> QED BY <3>2 DEF Abstract!Next
  <2> QED BY <2>2, <2>3
<1> QED BY <1>2, <1>3, <1>4, <1>5, <1>6, <1>7, <1>8 DEF Step

\* lib/softwarelock.s implements the counting semaphore CountingSemaphore:
\* each call moves one unit and answers 0, or moves none and answers 1, in
\* one atomic step, whatever the other cores do in between.
THEOREM Refinement == Spec => ImplementsCountingSemaphore
<1>1. Inv /\ Inv' /\ [Next]_vars => [Abstract!Next]_(Abstract!vars)
  <2> SUFFICES ASSUME Inv, Inv', [Next]_vars
               PROVE  Abstract!Next \/ UNCHANGED Abstract!vars
    OBVIOUS
  <2>1. CASE Next
    BY <2>1, StepRefines DEF Next
  <2>2. CASE UNCHANGED vars
    BY <2>2 DEF vars, Abstract!vars, Status
  <2> QED BY <2>1, <2>2
<1> QED
  BY InitRefines, InvHolds, <1>1, PTL
  DEF Spec, ImplementsCountingSemaphore, Abstract!Spec
=============================================================================
