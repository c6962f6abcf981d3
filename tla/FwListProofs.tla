---------------------------- MODULE FwListProofs ----------------------------
(***************************************************************************)
(* Proofs about FwList, for every set of queues and tasks and every bound  *)
(* on the index.                                                           *)
(***************************************************************************)
EXTENDS FwList, SequenceTheorems, TLAPS

\* No task is in two places.
Distinct ==
  \A p, r \in Queue :
    \A i \in 1..Len(queue[p]), j \in 1..Len(queue[r]) :
      queue[p][i] = queue[r][j] => p = r /\ i = j

\* What a walk knows of its queue.
WalkInv ==
  LET s == queue[q] IN
    /\ pc \in {"rm", "at"} =>
         /\ s # <<>> /\ asked \in 0..MaxIndex
         /\ \E k \in 1..Len(s) :
              /\ pointed = s[k]
              /\ k > 1 => prev = s[k - 1]
              /\ \/ idx = asked - k
                 \/ idx = -1 /\ asked = k /\ k = Len(s)
    /\ pc = "find" =>
         /\ s # <<>> /\ asked \in Task
         /\ \E k \in 1..Len(s) :
              /\ pointed = s[k]
              /\ \A i \in 1..k - 1 : s[i] # asked

HeapInv == TypeOK /\ Represents /\ Distinct

\* What an answer says of the queue, until the next call.
AnswerInv ==
  LET s == queue[q] IN
    /\ pc # "idle" => answer = "none"
    /\ answer = "found" => pointed = s[IF asked < Len(s) THEN asked + 1 ELSE Len(s)]
    /\ answer = "beyond" => asked > Len(s)
    /\ answer = "empty" => s = <<>>
    /\ answer = "present" => asked \in Range(s)
    /\ answer = "absent" => asked \notin Range(s)

Inv == HeapInv /\ WalkInv /\ AnswerInv

LEMMA QueuedMeans ==
  ASSUME TypeOK, NEW t
  PROVE  t \in Queued <=> \E p \in Queue : \E i \in 1..Len(queue[p]) : queue[p][i] = t
<1>1. \A p \in Queue : DOMAIN queue[p] = 1..Len(queue[p])
  BY LenProperties DEF TypeOK
<1> QED BY <1>1 DEF Queued, Range

LEMMA SeqFacts ==
  ASSUME TypeOK, NEW p \in Queue
  PROVE  /\ queue[p] \in Seq(Task)
         /\ Len(queue[p]) \in Nat
         /\ queue[p] # <<>> <=> Len(queue[p]) > 0
         /\ \A i \in 1..Len(queue[p]) : queue[p][i] \in Task /\ queue[p][i] # NULL
<1>1. queue[p] \in Seq(Task)
  BY DEF TypeOK
<1>2. \A i \in 1..Len(queue[p]) : queue[p][i] \in Task
  BY <1>1, ElementOfSeq
<1> QED BY <1>1, <1>2, LenProperties, EmptySeq, FwListAssumption

LEMMA InitInv == Init => Inv
<1> SUFFICES ASSUME Init PROVE Inv
  OBVIOUS
<1>1. TypeOK
  <2>1. <<>> \in Seq(Task)
    OBVIOUS
  <2> QED BY <2>1, FwListAssumption DEF Init, TypeOK, Link
<1>2. Represents /\ Distinct
  BY DEF Init, Represents, Spells, Distinct
<1>3. WalkInv /\ AnswerInv
  BY DEF Init, WalkInv, AnswerInv
<1> QED BY <1>1, <1>2, <1>3 DEF Inv, HeapInv

-----------------------------------------------------------------------------
(* The routines that change the links.                                     *)

\* What a task that may be pushed is like.
LEMMA FreeTask ==
  ASSUME HeapInv, NEW t \in Task, t \notin Queued
  PROVE  /\ next[t] = NULL
         /\ t # NULL
         /\ \A r \in Queue : \A i \in 1..Len(queue[r]) : queue[r][i] # t
  BY QueuedMeans, FwListAssumption DEF HeapInv, Represents

\* A task outside the queues after a push was outside them before it.
LEMMA StillFree ==
  ASSUME TypeOK, TypeOK', NEW p \in Queue, NEW t \in Task,
         \A r \in Queue : r # p => queue'[r] = queue[r],
         \A i \in 1..Len(queue[p]) :
           \E j \in 1..Len(queue'[p]) : queue'[p][j] = queue[p][i],
         t \notin Queued'
  PROVE  t \notin Queued
<1>1. \A r \in Queue : \A i \in 1..Len(queue'[r]) : queue'[r][i] # t
  <2>1. \A r \in Queue : DOMAIN queue'[r] = 1..Len(queue'[r])
    BY LenProperties DEF TypeOK
  <2> QED BY <2>1 DEF Queued, Range
<1>2. \A r \in Queue : \A i \in 1..Len(queue[r]) : queue[r][i] # t
  BY <1>1
<1> QED BY <1>2, QueuedMeans

\* What a queue holds after a step is queued after it.
LEMMA QueuedInNew ==
  ASSUME TypeOK', NEW p \in Queue, NEW i \in 1..Len(queue'[p])
  PROVE  queue'[p][i] \in Queued'
<1>1. DOMAIN queue'[p] = 1..Len(queue'[p])
  BY LenProperties DEF TypeOK
<1> QED BY <1>1 DEF Queued, Range

LEMMA PushBackHeap ==
  ASSUME HeapInv, NEW p \in Queue, NEW t \in Task, PushBack(p, t)
  PROVE  HeapInv'
<1> DEFINE s == queue[p]
           n == Len(s)
<1>1. TypeOK /\ Distinct /\ \A r \in Queue : Spells(r)
  BY DEF HeapInv, Represents
<1>2. /\ s \in Seq(Task) /\ n \in Nat
      /\ s # <<>> <=> n > 0
      /\ \A i \in 1..n : s[i] \in Task /\ s[i] # NULL
  BY <1>1, SeqFacts
<1>3. /\ next[t] = NULL /\ t # NULL
      /\ \A r \in Queue : \A i \in 1..Len(queue[r]) : queue[r][i] # t
  BY FreeTask DEF PushBack
<1>4. /\ queue' = [queue EXCEPT ![p] = Append(s, t)]
      /\ queue'[p] = Append(s, t)
      /\ \A r \in Queue : r # p => queue'[r] = queue[r]
  BY <1>1 DEF PushBack, TypeOK
<1>5. /\ Append(s, t) \in Seq(Task)
      /\ Len(queue'[p]) = n + 1
      /\ \A i \in 1..n : queue'[p][i] = s[i]
      /\ queue'[p][n + 1] = t
      /\ queue'[p] # <<>>
  BY <1>2, <1>4, AppendProperties
<1>6. TypeOK'
  <2>1. queue' \in [Queue -> Seq(Task)]
    BY <1>1, <1>4, <1>5 DEF TypeOK
  <2>2. head' \in [Queue -> Link] /\ tail' \in [Queue -> Link] /\ next' \in [Task -> Link]
    BY <1>1 DEF TypeOK, PushBack, PushFirst, Link
  <2>3. answer' = "none" /\ UNCHANGED <<pc, q, idx, pointed, prev, asked>>
    BY DEF PushBack, Pushed
  <2> QED BY <1>1, <2>1, <2>2, <2>3 DEF TypeOK
<1>7. Distinct'
  <2> SUFFICES ASSUME NEW a \in Queue, NEW b \in Queue,
                      NEW i \in 1..Len(queue'[a]), NEW j \in 1..Len(queue'[b]),
                      queue'[a][i] = queue'[b][j]
               PROVE  a = b /\ i = j
    BY DEF Distinct
  <2>1. CASE a = p /\ b = p
    <3>1. i \in 1..n + 1 /\ j \in 1..n + 1
      BY <1>5, <2>1
    <3>2. CASE i = n + 1
      BY <1>2, <1>3, <1>5, <2>1, <3>1, <3>2
    <3>3. CASE j = n + 1
      BY <1>2, <1>3, <1>5, <2>1, <3>1, <3>3
    <3>4. CASE i # n + 1 /\ j # n + 1
      <4>1. i \in 1..n /\ j \in 1..n /\ s[i] = s[j]
        BY <1>2, <1>5, <2>1, <3>1, <3>4
      <4> QED BY <1>1, <2>1, <4>1 DEF Distinct
    <3> QED BY <3>2, <3>3, <3>4
  <2>2. CASE a = p /\ b # p
    BY <1>1, <1>2, <1>3, <1>4, <1>5, <2>2 DEF Distinct
  <2>3. CASE a # p /\ b = p
    BY <1>1, <1>2, <1>3, <1>4, <1>5, <2>3 DEF Distinct
  <2>4. CASE a # p /\ b # p
    BY <1>1, <1>4, <2>4 DEF Distinct
  <2> QED BY <2>1, <2>2, <2>3, <2>4
<1>8. CASE Empty(p)
  <2>1. n = 0 /\ s = <<>>
    BY <1>1, <1>2, <1>8 DEF Empty, Spells
  <2>2. /\ head' = [head EXCEPT ![p] = t] /\ tail' = [tail EXCEPT ![p] = t]
        /\ next' = next
    BY <1>8 DEF PushBack, PushFirst
  <2>3. ASSUME NEW r \in Queue PROVE Spells(r)'
    <3>1. CASE r = p
      <4>1. head'[p] = t /\ tail'[p] = t
        BY <1>1, <2>2 DEF TypeOK
      <4> QED BY <1>3, <1>5, <2>1, <2>2, <3>1, <4>1 DEF Spells
    <3>2. CASE r # p
      <4>1. head'[r] = head[r] /\ tail'[r] = tail[r] /\ queue'[r] = queue[r]
        BY <1>1, <1>4, <2>2, <3>2 DEF TypeOK
      <4>2. Spells(r)
        BY <1>1
      <4> QED BY <2>2, <4>1, <4>2 DEF Spells
    <3> QED BY <3>1, <3>2
  <2>4. ASSUME NEW u \in Task, u \notin Queued' PROVE next'[u] = NULL
    BY <1>1, <1>4, <1>6, <2>1, <2>2, <2>4, StillFree DEF HeapInv, Represents
  <2> QED BY <1>6, <1>7, <2>3, <2>4 DEF HeapInv, Represents
<1>9. CASE ~Empty(p)
  <2>1. n > 0 /\ tail[p] = s[n] /\ s[n] \in Task /\ head[p] = s[1]
    BY <1>1, <1>2, <1>9 DEF Empty, Spells
  <2>2. /\ head' = head /\ tail' = [tail EXCEPT ![p] = t]
        /\ next' = [next EXCEPT ![s[n]] = t]
    BY <1>9, <2>1 DEF PushBack, PushFirst
  <2>3. /\ next'[s[n]] = t
        /\ \A u \in Task : u # s[n] => next'[u] = next[u]
    BY <1>1, <2>1, <2>2 DEF TypeOK
  <2>4. ASSUME NEW r \in Queue PROVE Spells(r)'
    <3>1. CASE r = p
      <4>1. head'[p] = s[1] /\ tail'[p] = t
        BY <1>1, <2>1, <2>2 DEF TypeOK
      <4>2. t # s[n]
        BY <1>2, <1>3, <2>1
      <4>3. \A i \in 1..n - 1 : next'[s[i]] = s[i + 1]
        <5> SUFFICES ASSUME NEW i \in 1..n - 1 PROVE next'[s[i]] = s[i + 1]
          OBVIOUS
        <5>1. s[i] # s[n]
          BY <1>1, <1>2, <2>1 DEF Distinct
        <5> QED BY <1>1, <1>2, <2>3, <5>1 DEF Spells
      <4>4. \A i \in 1..n : next'[queue'[p][i]] = queue'[p][i + 1]
        <5> SUFFICES ASSUME NEW i \in 1..n
                     PROVE  next'[queue'[p][i]] = queue'[p][i + 1]
          OBVIOUS
        <5>1. CASE i = n
          BY <1>2, <1>5, <2>1, <2>3, <5>1
        <5>2. CASE i # n
          BY <1>2, <1>5, <4>3, <5>2
        <5> QED BY <5>1, <5>2
      <4> QED BY <1>2, <1>3, <1>5, <2>1, <2>3, <3>1, <4>1, <4>2, <4>4 DEF Spells
    <3>2. CASE r # p
      <4>1. head'[r] = head[r] /\ tail'[r] = tail[r] /\ queue'[r] = queue[r]
        BY <1>1, <1>4, <2>2, <3>2 DEF TypeOK
      <4>2. \A i \in 1..Len(queue[r]) : next'[queue[r][i]] = next[queue[r][i]]
        <5> SUFFICES ASSUME NEW i \in 1..Len(queue[r])
                     PROVE  next'[queue[r][i]] = next[queue[r][i]]
          OBVIOUS
        <5>1. queue[r][i] # s[n]
          BY <1>1, <1>2, <2>1, <3>2 DEF Distinct
        <5> QED BY <1>1, <2>3, <5>1, SeqFacts
      <4>3. Len(queue[r]) \in Nat /\ (queue[r] # <<>> <=> Len(queue[r]) > 0)
        BY <1>1, SeqFacts
      <4> QED BY <1>1, <4>1, <4>2, <4>3 DEF Spells
    <3> QED BY <3>1, <3>2
  <2>5. ASSUME NEW u \in Task, u \notin Queued' PROVE next'[u] = NULL
    <3>1. u \notin Queued
      BY <1>1, <1>2, <1>4, <1>5, <1>6, <2>5, StillFree
    <3>2. u # s[n]
      BY <1>1, <1>2, <2>1, <3>1, QueuedMeans
    <3> QED BY <2>3, <3>1, <3>2 DEF HeapInv, Represents
  <2> QED BY <1>6, <1>7, <2>4, <2>5 DEF HeapInv, Represents
<1> QED BY <1>8, <1>9

LEMMA PushFrontHeap ==
  ASSUME HeapInv, NEW p \in Queue, NEW t \in Task, PushFront(p, t)
  PROVE  HeapInv'
<1> DEFINE s == queue[p]
           n == Len(s)
<1>1. TypeOK /\ Distinct /\ \A r \in Queue : Spells(r)
  BY DEF HeapInv, Represents
<1>2. /\ s \in Seq(Task) /\ n \in Nat
      /\ s # <<>> <=> n > 0
      /\ \A i \in 1..n : s[i] \in Task /\ s[i] # NULL
  BY <1>1, SeqFacts
<1>3. /\ next[t] = NULL /\ t # NULL
      /\ \A r \in Queue : \A i \in 1..Len(queue[r]) : queue[r][i] # t
  BY FreeTask DEF PushFront
<1>4. /\ queue' = [queue EXCEPT ![p] = <<t>> \o s]
      /\ queue'[p] = <<t>> \o s
      /\ \A r \in Queue : r # p => queue'[r] = queue[r]
  BY <1>1 DEF PushFront, TypeOK
<1>5. /\ <<t>> \o s \in Seq(Task)
      /\ Len(queue'[p]) = n + 1
      /\ queue'[p][1] = t
      /\ \A i \in 1..n : queue'[p][i + 1] = s[i]
      /\ queue'[p] # <<>>
  <2>1. <<t>> \in Seq(Task) /\ Len(<<t>>) = 1 /\ <<t>>[1] = t
    OBVIOUS
  <2>2. /\ <<t>> \o s \in Seq(Task)
        /\ Len(<<t>> \o s) = 1 + n
        /\ \A i \in 1..1 + n : (<<t>> \o s)[i] = IF i <= 1 THEN <<t>>[i] ELSE s[i - 1]
    BY <1>2, <2>1, ConcatProperties
  <2>3. Len(<<t>> \o s) = n + 1 /\ n + 1 > 0
    BY <1>2, <2>2
  <2>4. (<<t>> \o s)[1] = t
    BY <1>2, <2>1, <2>2
  <2>5. \A i \in 1..n : (<<t>> \o s)[i + 1] = s[i]
    BY <1>2, <2>2
  <2>6. <<t>> \o s # <<>>
    BY <2>2, <2>3, EmptySeq
  <2> QED BY <1>4, <2>2, <2>3, <2>4, <2>5, <2>6
<1>6. TypeOK'
  <2>1. queue' \in [Queue -> Seq(Task)]
    BY <1>1, <1>4, <1>5 DEF TypeOK
  <2>2. head' \in [Queue -> Link] /\ tail' \in [Queue -> Link] /\ next' \in [Task -> Link]
    BY <1>1 DEF TypeOK, PushFront, PushFirst, Link
  <2>3. answer' = "none" /\ UNCHANGED <<pc, q, idx, pointed, prev, asked>>
    BY DEF PushFront, Pushed
  <2> QED BY <1>1, <2>1, <2>2, <2>3 DEF TypeOK
<1>7. \A i \in 1..n + 1 : i # 1 => i - 1 \in 1..n /\ queue'[p][i] = s[i - 1]
  <2> SUFFICES ASSUME NEW i \in 1..n + 1, i # 1
               PROVE  i - 1 \in 1..n /\ queue'[p][i] = s[i - 1]
    OBVIOUS
  <2>1. i - 1 \in 1..n /\ i = (i - 1) + 1
    BY <1>2
  <2> QED BY <1>5, <2>1
<1>8. Distinct'
  <2> SUFFICES ASSUME NEW a \in Queue, NEW b \in Queue,
                      NEW i \in 1..Len(queue'[a]), NEW j \in 1..Len(queue'[b]),
                      queue'[a][i] = queue'[b][j]
               PROVE  a = b /\ i = j
    BY DEF Distinct
  <2>1. CASE a = p /\ b = p
    <3>1. i \in 1..n + 1 /\ j \in 1..n + 1
      BY <1>5, <2>1
    <3>2. CASE i = 1
      BY <1>2, <1>3, <1>5, <1>7, <2>1, <3>1, <3>2
    <3>3. CASE j = 1
      BY <1>2, <1>3, <1>5, <1>7, <2>1, <3>1, <3>3
    <3>4. CASE i # 1 /\ j # 1
      <4>1. i - 1 \in 1..n /\ j - 1 \in 1..n /\ s[i - 1] = s[j - 1]
        BY <1>7, <2>1, <3>1, <3>4
      <4>2. i - 1 = j - 1
        BY <1>1, <4>1 DEF Distinct
      <4> QED BY <2>1, <3>1, <4>2
    <3> QED BY <3>2, <3>3, <3>4
  <2>2. CASE a = p /\ b # p
    <3>1. i \in 1..n + 1 /\ j \in 1..Len(queue[b]) /\ queue[b][j] = queue'[p][i]
      BY <1>4, <1>5, <2>2
    <3>2. i # 1
      BY <1>3, <1>5, <3>1
    <3>3. i - 1 \in 1..n /\ queue[b][j] = s[i - 1]
      BY <1>7, <3>1, <3>2
    <3> QED BY <1>1, <2>2, <3>3, <3>1 DEF Distinct
  <2>3. CASE a # p /\ b = p
    <3>1. j \in 1..n + 1 /\ i \in 1..Len(queue[a]) /\ queue[a][i] = queue'[p][j]
      BY <1>4, <1>5, <2>3
    <3>2. j # 1
      BY <1>3, <1>5, <3>1
    <3>3. j - 1 \in 1..n /\ queue[a][i] = s[j - 1]
      BY <1>7, <3>1, <3>2
    <3> QED BY <1>1, <2>3, <3>3, <3>1 DEF Distinct
  <2>4. CASE a # p /\ b # p
    BY <1>1, <1>4, <2>4 DEF Distinct
  <2> QED BY <2>1, <2>2, <2>3, <2>4
<1>9. \A i \in 1..n : \E j \in 1..Len(queue'[p]) : queue'[p][j] = s[i]
  BY <1>2, <1>5
<1>10. CASE Empty(p)
  <2>1. n = 0 /\ s = <<>>
    BY <1>1, <1>2, <1>10 DEF Empty, Spells
  <2>2. /\ head' = [head EXCEPT ![p] = t] /\ tail' = [tail EXCEPT ![p] = t]
        /\ next' = next
    BY <1>10 DEF PushFront, PushFirst
  <2>3. ASSUME NEW r \in Queue PROVE Spells(r)'
    <3>1. CASE r = p
      <4>1. head'[p] = t /\ tail'[p] = t
        BY <1>1, <2>2 DEF TypeOK
      <4> QED BY <1>3, <1>5, <2>1, <2>2, <3>1, <4>1 DEF Spells
    <3>2. CASE r # p
      <4>1. head'[r] = head[r] /\ tail'[r] = tail[r] /\ queue'[r] = queue[r]
        BY <1>1, <1>4, <2>2, <3>2 DEF TypeOK
      <4>2. Spells(r)
        BY <1>1
      <4> QED BY <2>2, <4>1, <4>2 DEF Spells
    <3> QED BY <3>1, <3>2
  <2>4. ASSUME NEW u \in Task, u \notin Queued' PROVE next'[u] = NULL
    BY <1>1, <1>4, <1>6, <1>9, <2>2, <2>4, StillFree DEF HeapInv, Represents
  <2> QED BY <1>6, <1>8, <2>3, <2>4 DEF HeapInv, Represents
<1>11. CASE ~Empty(p)
  <2>1. n > 0 /\ tail[p] = s[n] /\ head[p] = s[1] /\ next[s[n]] = NULL
    BY <1>1, <1>2, <1>11 DEF Empty, Spells
  <2>2. /\ tail' = tail /\ head' = [head EXCEPT ![p] = t]
        /\ next' = [next EXCEPT ![t] = s[1]]
    BY <1>11, <2>1 DEF PushFront, PushFirst
  <2>3. /\ next'[t] = s[1]
        /\ \A u \in Task : u # t => next'[u] = next[u]
    BY <1>1, <2>2 DEF TypeOK
  <2>4. \A r \in Queue : \A i \in 1..Len(queue[r]) : next'[queue[r][i]] = next[queue[r][i]]
    BY <1>1, <1>3, <2>3, SeqFacts
  <2>5. ASSUME NEW r \in Queue PROVE Spells(r)'
    <3>1. CASE r = p
      <4>1. head'[p] = t /\ tail'[p] = s[n]
        BY <1>1, <2>1, <2>2 DEF TypeOK
      <4>2. queue'[p][n + 1] = s[n] /\ next'[s[n]] = NULL
        BY <1>2, <1>5, <2>1, <2>4
      <4>3. \A i \in 1..n : next'[queue'[p][i]] = queue'[p][i + 1]
        <5> SUFFICES ASSUME NEW i \in 1..n
                     PROVE  next'[queue'[p][i]] = queue'[p][i + 1]
          OBVIOUS
        <5>1. CASE i = 1
          BY <1>5, <2>1, <2>3, <5>1
        <5>2. CASE i # 1
          <6>1. i - 1 \in 1..n - 1 /\ (i - 1) + 1 = i
            BY <1>2, <5>2
          <6>2. next[s[i - 1]] = s[i]
            BY <1>1, <6>1 DEF Spells
          <6>3. queue'[p][i] = s[i - 1] /\ queue'[p][i + 1] = s[i]
            BY <1>2, <1>5, <1>7, <5>2
          <6> QED BY <1>2, <2>4, <6>1, <6>2, <6>3
        <5> QED BY <5>1, <5>2
      <4> QED BY <1>2, <1>5, <3>1, <4>1, <4>2, <4>3 DEF Spells
    <3>2. CASE r # p
      <4>1. head'[r] = head[r] /\ tail'[r] = tail[r] /\ queue'[r] = queue[r]
        BY <1>1, <1>4, <2>2, <3>2 DEF TypeOK
      <4>2. Len(queue[r]) \in Nat /\ (queue[r] # <<>> <=> Len(queue[r]) > 0)
        BY <1>1, SeqFacts
      <4> QED BY <1>1, <2>4, <4>1, <4>2 DEF Spells
    <3> QED BY <3>1, <3>2
  <2>6. ASSUME NEW u \in Task, u \notin Queued' PROVE next'[u] = NULL
    <3>1. u \notin Queued
      BY <1>1, <1>4, <1>6, <1>9, <2>6, StillFree
    <3>2. u # t
      BY <1>2, <1>5, <1>6, <2>6, QueuedInNew
    <3> QED BY <2>3, <3>1, <3>2 DEF HeapInv, Represents
  <2> QED BY <1>6, <1>8, <2>5, <2>6 DEF HeapInv, Represents
<1> QED BY <1>10, <1>11

\* Where the walk of fw_rm has ended: at index asked, or at the last task.
LEMMA Position ==
  ASSUME HeapInv, WalkInv, pc \in {"rm", "at"}, idx = -1
  PROVE  \E k \in 1..Len(queue[q]) :
           /\ pointed = queue[q][k]
           /\ k > 1 => prev = queue[q][k - 1]
           /\ k = asked + 1 \/ (k = asked /\ k = Len(queue[q]))
           /\ head[q] = queue[q][1] /\ tail[q] = queue[q][Len(queue[q])]
           /\ pointed = head[q] <=> k = 1
           /\ pointed = tail[q] <=> k = Len(queue[q])
<1> DEFINE s == queue[q]
<1>1. q \in Queue /\ s \in Seq(Task) /\ Len(s) \in Nat /\ s # <<>> /\ Len(s) > 0 /\ asked \in Nat
  BY SeqFacts, FwListAssumption DEF HeapInv, TypeOK, WalkInv
<1>2. head[q] = s[1] /\ tail[q] = s[Len(s)]
  BY <1>1 DEF HeapInv, Represents, Spells
<1>3. PICK k \in 1..Len(s) : /\ pointed = s[k]
                             /\ k > 1 => prev = s[k - 1]
                             /\ \/ idx = asked - k
                                \/ idx = -1 /\ asked = k /\ k = Len(s)
  BY DEF WalkInv
<1>4. k = asked + 1 \/ (k = asked /\ k = Len(s))
  BY <1>1, <1>3
<1>5. (s[k] = s[1] <=> k = 1) /\ (s[k] = s[Len(s)] <=> k = Len(s))
  BY <1>1 DEF HeapInv, Distinct
<1> QED BY <1>2, <1>3, <1>4, <1>5

LEMMA UnlinkTypes ==
  ASSUME HeapInv, WalkInv, Unlink
  PROVE  TypeOK'
<1>1. TypeOK /\ queue[q] \in Seq(Task) /\ queue[q] # <<>> /\ asked \in Nat /\ q \in Queue
  BY SeqFacts, FwListAssumption DEF HeapInv, WalkInv, Unlink, TypeOK
<1>2. Without(queue[q], asked) \in Seq(Task)
  <2>1. Tail(queue[q]) \in Seq(Task)
    BY <1>1, HeadTailProperties
  <2>2. SubSeq(queue[q], 1, Len(queue[q]) - 1) \in Seq(Task)
    <3>1. \A i \in 1..Len(queue[q]) - 1 : queue[q][i] \in Task
      BY <1>1, SeqFacts
    <3>2. Len(queue[q]) - 1 \in Int
      BY <1>1, SeqFacts
    <3>3. \A m \in Int : (\A i \in 1..m : queue[q][i] \in Task) => SubSeq(queue[q], 1, m) \in Seq(Task)
      BY SubSeqProperties
    <3> QED BY <3>1, <3>2, <3>3
  <2>3. Without(queue[q], asked) \in {Tail(queue[q]), SubSeq(queue[q], 1, Len(queue[q]) - 1), queue[q]}
    BY DEF Without
  <2> QED BY <1>1, <2>1, <2>2, <2>3
<1>3. queue' \in [Queue -> Seq(Task)]
  BY <1>1, <1>2 DEF Unlink, TypeOK
<1>4. PICK k \in 1..Len(queue[q]) :
           /\ pointed = queue[q][k]
           /\ k > 1 => prev = queue[q][k - 1]
           /\ pointed = head[q] <=> k = 1
  BY Position DEF Unlink
<1>5. pointed \in Task
  BY <1>1, <1>4, SeqFacts
<1>6. head' \in [Queue -> Link] /\ tail' \in [Queue -> Link] /\ next' \in [Task -> Link]
  BY <1>1, <1>5 DEF TypeOK, Unlink, UnlinkOnly, UnlinkFirst, UnlinkLast, UnlinkNothing, heap, Link
<1>7. answer' = "removed" /\ pc' = "idle" /\ UNCHANGED <<q, idx, pointed, prev, asked>>
  BY DEF Unlink
<1> QED BY <1>1, <1>3, <1>6, <1>7 DEF TypeOK

\* A queue that loses its ends keeps its tasks apart.
LEMMA PartDistinct ==
  ASSUME Distinct, NEW p \in Queue, NEW d \in {0, 1},
         \A r \in Queue : r # p => queue'[r] = queue[r],
         \A i \in 1..Len(queue'[p]) : i + d \in 1..Len(queue[p]) /\ queue'[p][i] = queue[p][i + d],
         Len(queue'[p]) \in Nat
  PROVE  Distinct'
<1> SUFFICES ASSUME NEW a \in Queue, NEW b \in Queue,
                    NEW i \in 1..Len(queue'[a]), NEW j \in 1..Len(queue'[b]),
                    queue'[a][i] = queue'[b][j]
             PROVE  a = b /\ i = j
  BY DEF Distinct
<1>1. CASE a = p /\ b = p
  <2>1. i + d \in 1..Len(queue[p]) /\ j + d \in 1..Len(queue[p])
        /\ queue[p][i + d] = queue[p][j + d]
    BY <1>1
  <2>2. i + d = j + d
    BY <2>1 DEF Distinct
  <2>3. i \in Int /\ j \in Int /\ d \in Int
    BY <1>1
  <2> QED BY <1>1, <2>2, <2>3
<1>2. CASE a = p /\ b # p
  <2>1. i + d \in 1..Len(queue[p]) /\ j \in 1..Len(queue[b])
        /\ queue[p][i + d] = queue[b][j]
    BY <1>2
  <2> QED BY <1>2, <2>1 DEF Distinct
<1>3. CASE a # p /\ b = p
  <2>1. j + d \in 1..Len(queue[p]) /\ i \in 1..Len(queue[a])
        /\ queue[p][j + d] = queue[a][i]
    BY <1>3
  <2> QED BY <1>3, <2>1 DEF Distinct
<1>4. CASE a # p /\ b # p
  BY <1>4 DEF Distinct
<1> QED BY <1>1, <1>2, <1>3, <1>4

\* A prefix of a sequence.
LEMMA FrontFacts ==
  ASSUME NEW s \in Seq(Task), NEW m \in Nat, \A i \in 1..m : s[i] \in Task
  PROVE  /\ SubSeq(s, 1, m) \in Seq(Task)
         /\ Len(SubSeq(s, 1, m)) = m
         /\ \A i \in 1..m : SubSeq(s, 1, m)[i] = s[i]
<1>1. /\ SubSeq(s, 1, m) \in Seq(Task)
      /\ Len(SubSeq(s, 1, m)) = IF 1 <= m THEN m - 1 + 1 ELSE 0
      /\ \A i \in 1..m - 1 + 1 : SubSeq(s, 1, m)[i] = s[1 + i - 1]
  BY SubSeqProperties
<1> QED BY <1>1

\* The part of s that fw_rm leaves, by the case of the code.
LEMMA WithoutFacts ==
  ASSUME NEW s \in Seq(Task), s # <<>>, NEW n \in Nat
  PROVE  /\ (Len(s) = 1 /\ n <= 1) => Without(s, n) = <<>>
         /\ n = 0 => /\ Len(Without(s, n)) = Len(s) - 1
                     /\ \A i \in 1..Len(s) - 1 : Without(s, n)[i] = s[i + 1]
         /\ (n # 0 /\ n + 1 >= Len(s)) =>
               /\ Len(Without(s, n)) = Len(s) - 1
               /\ \A i \in 1..Len(s) - 1 : Without(s, n)[i] = s[i]
         /\ (n # 0 /\ n + 1 < Len(s)) => Without(s, n) = s
<1>1. Len(s) \in Nat /\ Len(s) > 0
  BY EmptySeq, LenProperties
<1>2. /\ Tail(s) \in Seq(Task) /\ Len(Tail(s)) = Len(s) - 1
      /\ \A i \in 1..Len(s) - 1 : Tail(s)[i] = s[i + 1]
  BY HeadTailProperties
<1> DEFINE f == SubSeq(s, 1, Len(s) - 1)
<1>3. f \in Seq(Task) /\ Len(f) = Len(s) - 1 /\ \A i \in 1..Len(s) - 1 : f[i] = s[i]
  <2>1. \A i \in 1..Len(s) - 1 : s[i] \in Task
    <3>1. \A i \in 1..Len(s) : s[i] \in Task
      BY ElementOfSeq
    <3> QED BY <1>1, <3>1
  <2>2. Len(s) - 1 \in Nat
    BY <1>1
  <2> QED BY <1>1, <2>1, <2>2, FrontFacts
<1>4. n # 0 /\ n + 1 >= Len(s) => Without(s, n) = f
  BY DEF Without
<1>5. n = 0 => Without(s, n) = Tail(s)
  BY DEF Without
<1>6. n # 0 /\ n + 1 < Len(s) => Without(s, n) = s
  BY <1>1 DEF Without
<1>7. \A u \in Seq(Task) : Len(u) = 0 => u = <<>>
  BY EmptySeq
<1>8. Len(s) = 1 /\ n <= 1 => Without(s, n) = <<>>
  <2> SUFFICES ASSUME Len(s) = 1, n <= 1 PROVE Without(s, n) = <<>>
    OBVIOUS
  <2>1. Without(s, n) \in Seq(Task) /\ Len(Without(s, n)) = 0
    <3>1. n = 0 \/ (n # 0 /\ n + 1 >= Len(s))
      BY <1>1
    <3> QED BY <1>2, <1>3, <1>4, <1>5, <3>1
  <2> QED BY <1>7, <2>1
<1> QED BY <1>2, <1>3, <1>4, <1>5, <1>6, <1>8

LEMMA UnlinkHeap ==
  ASSUME HeapInv, WalkInv, Unlink
  PROVE  HeapInv'
<1> DEFINE s == queue[q]
           n == Len(s)
           w == queue'[q]
<1>1. TypeOK /\ Distinct /\ \A r \in Queue : Spells(r)
  BY DEF HeapInv, Represents
<1>2. /\ q \in Queue /\ s \in Seq(Task) /\ n \in Nat /\ s # <<>> /\ n > 0 /\ asked \in Nat
      /\ \A i \in 1..n : s[i] \in Task /\ s[i] # NULL
  BY <1>1, SeqFacts, FwListAssumption DEF TypeOK, WalkInv, Unlink
<1>3. PICK k \in 1..n :
           /\ pointed = s[k]
           /\ k > 1 => prev = s[k - 1]
           /\ k = asked + 1 \/ (k = asked /\ k = n)
           /\ head[q] = s[1] /\ tail[q] = s[n]
           /\ pointed = head[q] <=> k = 1
           /\ pointed = tail[q] <=> k = n
  BY Position DEF Unlink
<1>4. /\ w = Without(s, asked)
      /\ \A r \in Queue : r # q => queue'[r] = queue[r]
      /\ q' = q
  BY <1>1, <1>2 DEF Unlink, TypeOK
<1>5. TypeOK'
  BY UnlinkTypes
<1>6. w \in Seq(Task) /\ Len(w) \in Nat /\ (w # <<>> <=> Len(w) > 0)
  BY <1>2, <1>5, EmptySeq, LenProperties DEF TypeOK
<1>7. ASSUME NEW u \in Task, u \notin Queued',
             \A i \in 1..n : s[i] = u => \E j \in 1..Len(w) : w[j] = s[i]
      PROVE  next[u] = NULL
  <2>1. \A i \in 1..n : s[i] # u
    BY <1>2, <1>5, <1>7, QueuedInNew
  <2>2. \A r \in Queue : r # q => \A i \in 1..Len(queue[r]) : queue[r][i] # u
    BY <1>4, <1>5, <1>7, QueuedInNew
  <2>3. u \notin Queued
    BY <1>1, <2>1, <2>2, QueuedMeans
  <2> QED BY <2>3 DEF HeapInv, Represents
<1>8. ASSUME NEW r \in Queue, r # q,
             head'[r] = head[r], tail'[r] = tail[r],
             \A i \in 1..Len(queue[r]) : next'[queue[r][i]] = next[queue[r][i]]
      PROVE  Spells(r)'
  <2>1. Len(queue[r]) \in Nat /\ (queue[r] # <<>> <=> Len(queue[r]) > 0) /\ queue'[r] = queue[r]
    BY <1>1, <1>4, <1>8, SeqFacts
  <2>2. Spells(r)
    BY <1>1
  <2> QED BY <1>8, <2>1, <2>2 DEF Spells
<1>9. CASE UnlinkOnly
  <2>1. k = 1 /\ n = 1 /\ asked <= 1
    BY <1>2, <1>3, <1>9 DEF UnlinkOnly
  <2>2. w = <<>>
    BY <1>2, <1>4, <2>1, WithoutFacts
  <2>3. /\ head' = [head EXCEPT ![q] = NULL] /\ tail' = [tail EXCEPT ![q] = NULL]
        /\ next' = next
    BY <1>9 DEF UnlinkOnly
  <2>4. Distinct'
    <3>1. Len(w) = 0
      BY <2>2
    <3> QED BY <1>1, <1>2, <1>4, <3>1, PartDistinct
  <2>5. ASSUME NEW r \in Queue PROVE Spells(r)'
    <3>1. CASE r = q
      <4>1. head'[q] = NULL /\ tail'[q] = NULL
        BY <1>1, <1>2, <2>3 DEF TypeOK
      <4> QED BY <2>2, <3>1, <4>1 DEF Spells
    <3>2. CASE r # q
      BY <1>1, <1>2, <1>8, <2>3, <3>2 DEF TypeOK
    <3> QED BY <3>1, <3>2
  <2>6. ASSUME NEW u \in Task, u \notin Queued' PROVE next'[u] = NULL
    <3>1. CASE u = s[1]
      BY <1>1, <1>2, <2>1, <2>3, <3>1 DEF Spells
    <3>2. CASE u # s[1]
      BY <1>7, <2>1, <2>3, <2>6, <3>2
    <3> QED BY <3>1, <3>2
  <2> QED BY <1>5, <2>4, <2>5, <2>6 DEF HeapInv, Represents
<1>10. CASE UnlinkFirst
  <2>1. k = 1 /\ n > 1 /\ asked = 0 /\ pointed = s[1]
    BY <1>2, <1>3, <1>10 DEF UnlinkFirst
  <2>2. Len(w) = n - 1 /\ \A i \in 1..n - 1 : w[i] = s[i + 1]
    BY <1>2, <1>4, <2>1, WithoutFacts
  <2>3. next[s[1]] = s[2] /\ next[s[n]] = NULL /\ \A i \in 1..n - 1 : next[s[i]] = s[i + 1]
    BY <1>1, <1>2, <2>1 DEF Spells
  <2>4. /\ head' = [head EXCEPT ![q] = s[2]] /\ tail' = tail
        /\ next' = [next EXCEPT ![s[1]] = NULL]
    BY <1>10, <2>1, <2>3 DEF UnlinkFirst
  <2>5. /\ next'[s[1]] = NULL
        /\ \A u \in Task : u # s[1] => next'[u] = next[u]
    BY <1>1, <1>2, <2>4 DEF TypeOK
  <2>6. Distinct'
    <3>1. \A i \in 1..Len(w) : i + 1 \in 1..n /\ w[i] = s[i + 1]
      BY <1>2, <2>2
    <3> QED BY <1>1, <1>2, <1>4, <1>6, <3>1, PartDistinct
  <2>7. \A i \in 2..n : next'[s[i]] = next[s[i]]
    <3> SUFFICES ASSUME NEW i \in 2..n PROVE next'[s[i]] = next[s[i]]
      OBVIOUS
    <3>1. s[i] # s[1]
      BY <1>1, <1>2, <2>1 DEF Distinct
    <3> QED BY <1>2, <2>5, <3>1
  <2>8. ASSUME NEW r \in Queue PROVE Spells(r)'
    <3>1. CASE r = q
      <4>1. head'[q] = w[1] /\ tail'[q] = w[Len(w)] /\ w # <<>>
        BY <1>1, <1>2, <1>3, <1>6, <2>1, <2>2, <2>4 DEF TypeOK
      <4>2. next'[w[Len(w)]] = NULL
        <5>1. n - 1 \in 1..n - 1 /\ (n - 1) + 1 = n /\ n \in 2..n
          BY <1>2, <2>1
        <5>2. w[n - 1] = s[n]
          BY <2>2, <5>1
        <5> QED BY <2>2, <2>3, <2>7, <5>1, <5>2
      <4>3. \A i \in 1..Len(w) - 1 : next'[w[i]] = w[i + 1]
        <5> SUFFICES ASSUME NEW i \in 1..Len(w) - 1 PROVE next'[w[i]] = w[i + 1]
          OBVIOUS
        <5>1. i + 1 \in 2..n /\ i + 1 \in 1..n - 1
          BY <1>2, <2>2
        <5>2. w[i] = s[i + 1] /\ w[i + 1] = s[(i + 1) + 1]
          BY <1>2, <2>2, <5>1
        <5> QED BY <2>3, <2>7, <5>1, <5>2
      <4> QED BY <3>1, <4>1, <4>2, <4>3 DEF Spells
    <3>2. CASE r # q
      <4>1. \A i \in 1..Len(queue[r]) : queue[r][i] # s[1] /\ queue[r][i] \in Task
        BY <1>1, <1>2, <3>2, SeqFacts DEF Distinct
      <4> QED BY <1>1, <1>2, <1>8, <2>4, <2>5, <3>2, <4>1 DEF TypeOK
    <3> QED BY <3>1, <3>2
  <2>9. ASSUME NEW u \in Task, u \notin Queued' PROVE next'[u] = NULL
    <3>1. CASE u = s[1]
      BY <2>5, <3>1
    <3>2. CASE u # s[1]
      <4>1. \A i \in 1..n : s[i] = u => \E j \in 1..Len(w) : w[j] = s[i]
        <5> SUFFICES ASSUME NEW i \in 1..n, s[i] = u PROVE \E j \in 1..Len(w) : w[j] = s[i]
          OBVIOUS
        <5>1. i # 1
          BY <3>2
        <5>2. i - 1 \in 1..Len(w) /\ i - 1 \in 1..n - 1 /\ (i - 1) + 1 = i
          BY <1>2, <2>2, <5>1
        <5>3. w[i - 1] = s[i]
          BY <2>2, <5>2
        <5> QED BY <5>2, <5>3
      <4> QED BY <1>7, <2>5, <2>9, <3>2, <4>1
    <3> QED BY <3>1, <3>2
  <2> QED BY <1>5, <2>6, <2>8, <2>9 DEF HeapInv, Represents
<1>11. CASE UnlinkLast
  <2>1. k = n /\ n > 1 /\ asked # 0 /\ asked + 1 >= n /\ pointed = s[n] /\ prev = s[n - 1]
    BY <1>2, <1>3, <1>11 DEF UnlinkLast
  <2>2. Len(w) = n - 1 /\ \A i \in 1..n - 1 : w[i] = s[i]
    <3>1. (asked # 0 /\ asked + 1 >= Len(s)) =>
            /\ Len(Without(s, asked)) = Len(s) - 1
            /\ \A i \in 1..Len(s) - 1 : Without(s, asked)[i] = s[i]
      BY <1>2, WithoutFacts
    <3> HIDE DEF s, w
    <3> QED BY <1>4, <2>1, <3>1
  <2>3. next[s[n]] = NULL /\ \A i \in 1..n - 1 : next[s[i]] = s[i + 1]
    <3>1. s # <<>> => next[s[Len(s)]] = NULL
      BY <1>1, <1>2 DEF Spells
    <3>2. \A i \in 1..Len(s) - 1 : next[s[i]] = s[i + 1]
      BY <1>1, <1>2 DEF Spells
    <3> QED BY <1>2, <3>1, <3>2
  <2>4. /\ tail' = [tail EXCEPT ![q] = s[n - 1]] /\ head' = head
        /\ next' = [next EXCEPT ![s[n - 1]] = NULL]
    BY <1>11, <2>1 DEF UnlinkLast
  <2>5. /\ n - 1 \in 1..n
        /\ next'[s[n - 1]] = NULL
        /\ \A u \in Task : u # s[n - 1] => next'[u] = next[u]
    BY <1>1, <1>2, <2>1, <2>4 DEF TypeOK
  <2>6. Distinct'
    <3>1. \A i \in 1..Len(w) : i + 0 \in 1..n /\ w[i] = s[i + 0]
      BY <1>2, <2>2
    <3> QED BY <1>1, <1>2, <1>4, <1>6, <3>1, PartDistinct
  <2>7. \A i \in 1..n : i # n - 1 => next'[s[i]] = next[s[i]]
    <3> SUFFICES ASSUME NEW i \in 1..n, i # n - 1 PROVE next'[s[i]] = next[s[i]]
      OBVIOUS
    <3>1. s[i] # s[n - 1]
      BY <1>1, <1>2, <2>5 DEF Distinct
    <3> QED BY <1>2, <2>5, <3>1
  <2>8. ASSUME NEW r \in Queue PROVE Spells(r)'
    <3>1. CASE r = q
      <4>1. head'[q] = w[1] /\ tail'[q] = w[Len(w)] /\ w # <<>>
        BY <1>1, <1>2, <1>3, <1>6, <2>1, <2>2, <2>4 DEF TypeOK
      <4>2. next'[w[Len(w)]] = NULL
        BY <1>2, <2>1, <2>2, <2>5
      <4>3. \A i \in 1..Len(w) - 1 : next'[w[i]] = w[i + 1]
        <5> SUFFICES ASSUME NEW i \in 1..Len(w) - 1 PROVE next'[w[i]] = w[i + 1]
          OBVIOUS
        <5>1. i \in 1..n - 1 /\ i # n - 1 /\ i + 1 \in 1..n - 1 /\ i \in 1..n
          BY <1>2, <2>2
        <5>2. w[i] = s[i] /\ w[i + 1] = s[i + 1]
          BY <2>2, <5>1
        <5> QED BY <2>3, <2>7, <5>1, <5>2
      <4> QED BY <3>1, <4>1, <4>2, <4>3 DEF Spells
    <3>2. CASE r # q
      <4>1. \A i \in 1..Len(queue[r]) : queue[r][i] # s[n - 1] /\ queue[r][i] \in Task
        BY <1>1, <1>2, <2>5, <3>2, SeqFacts DEF Distinct
      <4> QED BY <1>1, <1>2, <1>8, <2>4, <2>5, <3>2, <4>1 DEF TypeOK
    <3> QED BY <3>1, <3>2
  <2>9. ASSUME NEW u \in Task, u \notin Queued' PROVE next'[u] = NULL
    <3>1. CASE u = s[n]
      BY <1>2, <2>1, <2>3, <2>7, <3>1
    <3>2. CASE u # s[n]
      <4>1. \A i \in 1..n : s[i] = u => \E j \in 1..Len(w) : w[j] = s[i]
        BY <1>2, <2>2, <3>2
      <4>2. next[u] = NULL
        BY <1>7, <2>9, <4>1
      <4> QED BY <2>5, <4>2
    <3> QED BY <3>1, <3>2
  <2> QED BY <1>5, <2>6, <2>8, <2>9 DEF HeapInv, Represents
<1>12. CASE UnlinkNothing
  <2>1. asked # 0 /\ asked + 1 < n
    BY <1>2, <1>3, <1>12 DEF UnlinkNothing
  <2>2. w = s
    BY <1>2, <1>4, <2>1, WithoutFacts
  <2>3. head' = head /\ tail' = tail /\ next' = next
    BY <1>12 DEF UnlinkNothing, heap
  <2>4. queue' = queue
    BY <1>1, <1>2, <1>5, <1>4, <2>2 DEF TypeOK
  <2>5. Distinct'
    BY <1>1, <2>4 DEF Distinct
  <2>6. \A r \in Queue : Spells(r)'
    BY <1>1, <2>3, <2>4 DEF Spells
  <2>7. Queued' = Queued
    BY <2>4 DEF Queued
  <2> QED BY <1>5, <2>3, <2>5, <2>6, <2>7 DEF HeapInv, Represents
<1> QED BY <1>9, <1>10, <1>11, <1>12 DEF Unlink

-----------------------------------------------------------------------------
(* The walks.                                                              *)

LEMMA HeapKept ==
  ASSUME HeapInv, TypeOK', UNCHANGED <<head, tail, next, queue>>
  PROVE  HeapInv'
<1>1. \A p \in Queue : Spells(p)'
  BY DEF HeapInv, Represents, Spells
<1>2. Queued' = Queued
  BY DEF Queued
<1>3. Distinct'
  BY DEF HeapInv, Distinct
<1> QED BY <1>1, <1>2, <1>3 DEF HeapInv, Represents

\* The links of one queue, read by a walk.
LEMMA Links ==
  ASSUME HeapInv, NEW p \in Queue
  PROVE  /\ head[p] = NULL <=> queue[p] = <<>>
         /\ queue[p] # <<>> => head[p] = queue[p][1] /\ 1 \in 1..Len(queue[p])
         /\ Len(queue[p]) \in Nat
         /\ \A k \in 1..Len(queue[p]) :
              /\ queue[p][k] \in Task
              /\ next[queue[p][k]] = NULL <=> k = Len(queue[p])
              /\ k # Len(queue[p]) =>
                   k + 1 \in 1..Len(queue[p]) /\ next[queue[p][k]] = queue[p][k + 1]
<1> DEFINE s == queue[p]
<1>1. TypeOK /\ Spells(p)
  BY DEF HeapInv, Represents
<1>2. /\ Len(s) \in Nat /\ (s # <<>> <=> Len(s) > 0)
      /\ \A i \in 1..Len(s) : s[i] \in Task /\ s[i] # NULL
  BY <1>1, SeqFacts
<1>3. s # <<>> => head[p] = s[1] /\ 1 \in 1..Len(s)
  BY <1>1, <1>2 DEF Spells
<1>4. head[p] = NULL <=> s = <<>>
  BY <1>1, <1>2, <1>3 DEF Spells
<1>5. ASSUME NEW k \in 1..Len(s)
      PROVE  /\ next[s[k]] = NULL <=> k = Len(s)
             /\ k # Len(s) => k + 1 \in 1..Len(s) /\ next[s[k]] = s[k + 1]
  <2>1. next[s[Len(s)]] = NULL
    BY <1>1, <1>2 DEF Spells
  <2>2. k # Len(s) => k + 1 \in 1..Len(s) /\ k \in 1..Len(s) - 1
    BY <1>2
  <2>3. \A i \in 1..Len(s) - 1 : next[s[i]] = s[i + 1]
    BY <1>1 DEF Spells
  <2> QED BY <1>2, <2>1, <2>2, <2>3
<1> QED BY <1>2, <1>3, <1>4, <1>5

\* The task at which the walk of fw_rm or fw_at has ended.
LEMMA WalkEnd ==
  ASSUME Inv, pc \in {"rm", "at"}, idx = -1
  PROVE  /\ pointed = queue[q][IF asked < Len(queue[q]) THEN asked + 1 ELSE Len(queue[q])]
         /\ asked <= Len(queue[q])
<1> DEFINE n == Len(queue[q])
<1>1. n \in Nat /\ asked \in Nat
  BY SeqFacts, FwListAssumption DEF Inv, HeapInv, TypeOK, WalkInv
<1>2. PICK k \in 1..n : pointed = queue[q][k] /\ (k = asked + 1 \/ (k = asked /\ k = n))
  BY Position DEF Inv
<1>3. k = (IF asked < n THEN asked + 1 ELSE n) /\ asked <= n
  BY <1>1, <1>2
<1> QED BY <1>2, <1>3

LEMMA PushInv ==
  ASSUME Inv, NEW p \in Queue, NEW t \in Task, PushBack(p, t) \/ PushFront(p, t)
  PROVE  Inv'
<1>1. HeapInv'
  BY PushBackHeap, PushFrontHeap DEF Inv
<1>2. pc' = "idle" /\ answer' = "none"
  BY DEF PushBack, PushFront, Pushed
<1>3. WalkInv' /\ AnswerInv'
  BY <1>2 DEF WalkInv, AnswerInv
<1> QED BY <1>1, <1>3 DEF Inv

LEMMA BeginInv ==
  ASSUME Inv, NEW p \in Queue, NEW n \in 0..MaxIndex, NEW walk \in {"rm", "at"},
         Begin(p, n, walk)
  PROVE  Inv'
<1> DEFINE s == queue[p]
<1>1. HeapInv /\ TypeOK /\ UNCHANGED <<head, tail, next, queue>>
  BY DEF Inv, HeapInv, Begin, heap
<1>2. TypeOK'
  <2>1. n - 1 \in -1..MaxIndex
    BY FwListAssumption
  <2>2. head[p] \in Link
    BY <1>1 DEF TypeOK
  <2> QED BY <1>1, <2>1, <2>2, FwListAssumption DEF TypeOK, Begin, Link
<1>3. HeapInv'
  BY <1>1, <1>2, HeapKept
<1>4. q' = p /\ queue' = queue /\ asked' = n /\ pointed' = head[p] /\ idx' = n - 1
  BY <1>1 DEF Begin
<1>5. CASE head[p] = NULL
  <2>1. pc' = "idle" /\ answer' = "empty" /\ s = <<>>
    BY <1>1, <1>5, Links DEF Begin
  <2> QED BY <1>3, <1>4, <2>1 DEF Inv, WalkInv, AnswerInv
<1>6. CASE head[p] # NULL
  <2>1. pc' = walk /\ answer' = "none" /\ s # <<>> /\ 1 \in 1..Len(s) /\ head[p] = s[1]
    BY <1>1, <1>6, Links DEF Begin
  <2>2. WalkInv'
    <3> SUFFICES \E k \in 1..Len(s) :
                   /\ pointed' = s[k]
                   /\ k > 1 => prev' = s[k - 1]
                   /\ \/ idx' = asked' - k
                      \/ idx' = -1 /\ asked' = k /\ k = Len(s)
      BY <1>4, <2>1 DEF WalkInv
    <3> QED BY <1>4, <2>1
  <2>3. AnswerInv'
    BY <2>1 DEF AnswerInv
  <2> QED BY <1>3, <2>2, <2>3 DEF Inv
<1> QED BY <1>5, <1>6

LEMMA IterateInv ==
  ASSUME Inv, Iterate
  PROVE  Inv'
<1> DEFINE s == queue[q]
<1>1. HeapInv /\ TypeOK /\ q \in Queue /\ pc # "idle"
      /\ UNCHANGED <<head, tail, next, queue, q, asked>>
  BY DEF Inv, HeapInv, TypeOK, Iterate, heap
<1>2. PICK k \in 1..Len(s) : pointed = s[k] /\ idx = asked - k
  BY DEF Inv, WalkInv, Iterate
<1>3. s # <<>> /\ asked \in 0..MaxIndex /\ asked \in Int /\ answer = "none"
  BY <1>1, FwListAssumption DEF Inv, WalkInv, AnswerInv, Iterate
<1>4. /\ pointed \in Task /\ Len(s) \in Nat
      /\ next[pointed] = NULL <=> k = Len(s)
      /\ k # Len(s) => k + 1 \in 1..Len(s) /\ next[pointed] = s[k + 1]
  BY <1>1, <1>2, Links
<1>5. TypeOK'
  <2>1. next[pointed] \in Link
    BY <1>1, <1>4 DEF TypeOK
  <2>2. idx # -1 /\ idx \in -1..MaxIndex => idx - 1 \in -1..MaxIndex
    BY FwListAssumption
  <2>3. -1 \in -1..MaxIndex
    BY FwListAssumption
  <2> QED BY <1>1, <1>4, <2>1, <2>2, <2>3 DEF TypeOK, Iterate, Link
<1>6. HeapInv'
  BY <1>1, <1>5, HeapKept
<1>7. CASE next[pointed] # NULL
  <2>1. prev' = s[k] /\ pointed' = s[k + 1] /\ idx' = idx - 1
        /\ pc' = pc /\ answer' = "none" /\ k + 1 \in 1..Len(s)
    BY <1>2, <1>3, <1>4, <1>7 DEF Iterate
  <2>2. WalkInv'
    <3>1. \E j \in 1..Len(s) :
             /\ pointed' = s[j]
             /\ j > 1 => prev' = s[j - 1]
             /\ \/ idx' = asked - j
                \/ idx' = -1 /\ asked = j /\ j = Len(s)
      <4>1. (k + 1) - 1 = k /\ idx' = asked - (k + 1)
        BY <1>2, <1>3, <1>4, <2>1
      <4>2. /\ k + 1 \in 1..Len(s) /\ pointed' = s[k + 1]
            /\ prev' = s[(k + 1) - 1]
        BY <2>1, <4>1
      <4> QED BY <4>1, <4>2
    <3> QED BY <1>1, <1>3, <2>1, <3>1 DEF WalkInv, Iterate
  <2>3. AnswerInv'
    BY <2>1 DEF AnswerInv
  <2> QED BY <1>6, <2>2, <2>3 DEF Inv
<1>8. CASE next[pointed] = NULL /\ idx = 0
  <2>1. idx' = -1 /\ UNCHANGED <<pc, pointed, prev, answer>> /\ k = Len(s) /\ asked = k
    BY <1>2, <1>3, <1>4, <1>8 DEF Iterate
  <2>2. k > 1 => prev = s[k - 1]
    <3>1. PICK j \in 1..Len(s) : pointed = s[j] /\ (j > 1 => prev = s[j - 1])
      BY DEF Inv, WalkInv, Iterate
    <3>2. j = k
      BY <1>1, <1>2, <3>1 DEF HeapInv, Distinct
    <3> QED BY <3>1, <3>2
  <2>3. WalkInv'
    <3>1. \E j \in 1..Len(s) :
             /\ pointed' = s[j]
             /\ j > 1 => prev' = s[j - 1]
             /\ \/ idx' = asked - j
                \/ idx' = -1 /\ asked = j /\ j = Len(s)
      BY <1>2, <2>1, <2>2
    <3> QED BY <1>1, <1>3, <2>1, <3>1 DEF WalkInv, Iterate
  <2>4. AnswerInv'
    BY <1>3, <2>1 DEF AnswerInv
  <2> QED BY <1>6, <2>3, <2>4 DEF Inv
<1>9. CASE next[pointed] = NULL /\ idx # 0
  <2>1. pc' = "idle" /\ answer' = "beyond" /\ k = Len(s)
    BY <1>4, <1>9 DEF Iterate
  <2>2. idx > 0
    BY <1>1, <1>9, FwListAssumption DEF TypeOK, Iterate
  <2>3. asked > Len(s)
    BY <1>2, <1>3, <1>4, <2>1, <2>2
  <2>4. WalkInv' /\ AnswerInv'
    BY <1>1, <2>1, <2>3 DEF WalkInv, AnswerInv
  <2> QED BY <1>6, <2>4 DEF Inv
<1> QED BY <1>7, <1>8, <1>9

LEMMA FoundInv ==
  ASSUME Inv, Found
  PROVE  Inv'
<1> DEFINE s == queue[q]
<1>1. HeapInv /\ WalkInv /\ TypeOK /\ UNCHANGED <<head, tail, next, queue, q, asked, pointed>>
  BY DEF Inv, HeapInv, Found, heap
<1>2. pc' = "idle" /\ answer' = "found"
  BY DEF Found
<1>3. TypeOK'
  BY <1>1 DEF TypeOK, Found
<1>4. HeapInv'
  BY <1>1, <1>3, HeapKept
<1>5. pointed = s[IF asked < Len(s) THEN asked + 1 ELSE Len(s)]
  BY WalkEnd DEF Inv, Found
<1>6. WalkInv' /\ AnswerInv'
  BY <1>1, <1>2, <1>5 DEF WalkInv, AnswerInv
<1> QED BY <1>4, <1>6 DEF Inv

LEMMA UnlinkInv ==
  ASSUME Inv, Unlink
  PROVE  Inv'
<1>1. HeapInv'
  BY UnlinkHeap DEF Inv
<1>2. pc' = "idle" /\ answer' = "removed"
  BY DEF Unlink
<1>3. WalkInv' /\ AnswerInv'
  BY <1>2 DEF WalkInv, AnswerInv
<1> QED BY <1>1, <1>3 DEF Inv

LEMMA FindInv ==
  ASSUME Inv, NEW p \in Queue, NEW t \in Task, Find(p, t)
  PROVE  Inv'
<1> DEFINE s == queue[p]
<1>1. HeapInv /\ TypeOK /\ UNCHANGED <<head, tail, next, queue>>
  BY DEF Inv, HeapInv, Find, heap
<1>2. TypeOK'
  <2>1. head[p] \in Link
    BY <1>1 DEF TypeOK
  <2> QED BY <1>1, <2>1 DEF TypeOK, Find
<1>3. HeapInv'
  BY <1>1, <1>2, HeapKept
<1>4. q' = p /\ queue' = queue /\ asked' = t /\ pointed' = head[p]
  BY <1>1 DEF Find
<1>5. CASE head[p] = NULL
  <2>1. pc' = "idle" /\ answer' = "absent" /\ s = <<>>
    BY <1>1, <1>5, Links DEF Find
  <2>2. t \notin Range(s)
    BY <2>1 DEF Range
  <2>3. WalkInv' /\ AnswerInv'
    BY <1>4, <2>1, <2>2 DEF WalkInv, AnswerInv
  <2> QED BY <1>3, <2>3 DEF Inv
<1>6. CASE head[p] # NULL
  <2>1. pc' = "find" /\ answer' = "none" /\ s # <<>> /\ 1 \in 1..Len(s) /\ head[p] = s[1]
    BY <1>1, <1>6, Links DEF Find
  <2>2. \E k \in 1..Len(s) : pointed' = s[k] /\ \A i \in 1..k - 1 : s[i] # asked'
    BY <1>4, <2>1
  <2>3. WalkInv' /\ AnswerInv'
    BY <1>4, <2>1, <2>2 DEF WalkInv, AnswerInv
  <2> QED BY <1>3, <2>3 DEF Inv
<1> QED BY <1>5, <1>6

LEMMA SeekInv ==
  ASSUME Inv, Seek
  PROVE  Inv'
<1> DEFINE s == queue[q]
<1>1. HeapInv /\ TypeOK /\ q \in Queue /\ pc = "find"
      /\ UNCHANGED <<head, tail, next, queue, q, asked>>
  BY DEF Inv, HeapInv, TypeOK, Seek, heap
<1>2. PICK k \in 1..Len(s) : pointed = s[k] /\ \A i \in 1..k - 1 : s[i] # asked
  BY <1>1 DEF Inv, WalkInv
<1>3. s # <<>> /\ asked \in Task /\ answer = "none"
  BY <1>1 DEF Inv, WalkInv, AnswerInv
<1>4. /\ pointed \in Task /\ Len(s) \in Nat
      /\ next[pointed] = NULL <=> k = Len(s)
      /\ k # Len(s) => k + 1 \in 1..Len(s) /\ next[pointed] = s[k + 1]
  BY <1>1, <1>2, Links
<1>5. TypeOK'
  <2>1. next[pointed] \in Link
    BY <1>1, <1>4 DEF TypeOK
  <2> QED BY <1>1, <2>1 DEF TypeOK, Seek
<1>6. HeapInv'
  BY <1>1, <1>5, HeapKept
<1>7. DOMAIN s = 1..Len(s)
  BY <1>1, SeqFacts, LenProperties
<1>8. CASE pointed = asked
  <2>1. pc' = "idle" /\ answer' = "present"
    BY <1>8 DEF Seek
  <2>2. asked \in Range(s)
    BY <1>2, <1>7, <1>8 DEF Range
  <2>3. WalkInv' /\ AnswerInv'
    BY <1>1, <2>1, <2>2 DEF WalkInv, AnswerInv
  <2> QED BY <1>6, <2>3 DEF Inv
<1>9. CASE pointed # asked /\ next[pointed] = NULL
  <2>1. pc' = "idle" /\ answer' = "absent"
    BY <1>9 DEF Seek
  <2>2. asked \notin Range(s)
    <3>1. ASSUME NEW i \in 1..Len(s) PROVE s[i] # asked
      <4>1. i = k \/ i \in 1..k - 1
        BY <1>4, <1>9
      <4> QED BY <1>2, <1>9, <4>1
    <3> QED BY <1>7, <3>1 DEF Range
  <2>3. WalkInv' /\ AnswerInv'
    BY <1>1, <2>1, <2>2 DEF WalkInv, AnswerInv
  <2> QED BY <1>6, <2>3 DEF Inv
<1>10. CASE pointed # asked /\ next[pointed] # NULL
  <2>1. pc' = "find" /\ answer' = "none" /\ pointed' = s[k + 1] /\ k + 1 \in 1..Len(s)
    BY <1>1, <1>3, <1>4, <1>10 DEF Seek
  <2>2. \A i \in 1..(k + 1) - 1 : s[i] # asked
    <3> SUFFICES ASSUME NEW i \in 1..(k + 1) - 1 PROVE s[i] # asked
      OBVIOUS
    <3>1. i = k \/ i \in 1..k - 1
      BY <1>4
    <3> QED BY <1>2, <1>10, <3>1
  <2>3. \E j \in 1..Len(s) : pointed' = s[j] /\ \A i \in 1..j - 1 : s[i] # asked
    BY <2>1, <2>2
  <2>4. WalkInv'
    BY <1>1, <1>3, <2>1, <2>3 DEF WalkInv
  <2>5. AnswerInv'
    BY <2>1 DEF AnswerInv
  <2> QED BY <1>6, <2>4, <2>5 DEF Inv
<1> QED BY <1>8, <1>9, <1>10

LEMMA NextInv == Inv /\ [Next]_vars => Inv'
<1> SUFFICES ASSUME Inv, [Next]_vars PROVE Inv'
  OBVIOUS
<1>1. CASE \E p \in Queue, t \in Task : PushBack(p, t) \/ PushFront(p, t) \/ Find(p, t)
  BY <1>1, PushInv, FindInv
<1>2. CASE \E p \in Queue, n \in 0..MaxIndex : Rm(p, n) \/ At(p, n)
  BY <1>2, BeginInv DEF Rm, At
<1>3. CASE Iterate \/ Found \/ Unlink \/ Seek
  BY <1>3, IterateInv, FoundInv, UnlinkInv, SeekInv
<1>4. CASE UNCHANGED vars
  <2>1. /\ UNCHANGED <<head, tail, next, queue>>
        /\ UNCHANGED <<pc, q, idx, pointed, prev, asked, answer>>
    BY <1>4 DEF vars, heap, call
  <2>2. TypeOK'
    BY <2>1 DEF Inv, HeapInv, TypeOK
  <2>3. HeapInv'
    BY <2>1, <2>2, HeapKept DEF Inv
  <2>4. WalkInv'
    BY <2>1 DEF Inv, WalkInv
  <2>5. AnswerInv'
    BY <2>1 DEF Inv, AnswerInv
  <2> QED BY <2>3, <2>4, <2>5 DEF Inv
<1> QED BY <1>1, <1>2, <1>3, <1>4 DEF Next

LEMMA Invariant == Spec => []Inv
BY InitInv, NextInv, PTL DEF Spec

-----------------------------------------------------------------------------
\* Whatever the calls and their indices, the walks dereference only tasks and
\* every variable of the model stays in its range.
THEOREM TypeCorrect == Spec => []TypeOK
<1>1. Inv => TypeOK
  BY DEF Inv, HeapInv
<1> QED BY <1>1, Invariant, PTL

\* fw_push_back, fw_push_front and fw_rm keep the links of every queue equal
\* to the tasks that were pushed and not taken from an end, for any number of
\* queues and tasks.
THEOREM LinksSpellTheQueues == Spec => []Represents
<1>1. Inv => Represents
  BY DEF Inv, HeapInv
<1> QED BY <1>1, Invariant, PTL

\* fw_rm, fw_at and tfw_find come to the task they were asked for, or to the
\* refusal that is due.
THEOREM WalksAreRight == Spec => []WalksFind
<1>1. Inv => WalksFind
  <2> SUFFICES ASSUME Inv PROVE WalksFind
    OBVIOUS
  <2>1. (pc = "rm" /\ idx = -1) =>
          /\ pointed = queue[q][IF asked < Len(queue[q]) THEN asked + 1 ELSE Len(queue[q])]
          /\ asked <= Len(queue[q])
    BY WalkEnd
  <2> QED BY <2>1 DEF Inv, AnswerInv, WalksFind
<1> QED BY <1>1, Invariant, PTL
=============================================================================
