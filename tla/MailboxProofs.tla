--------------------------- MODULE MailboxProofs ---------------------------
(***************************************************************************)
(* Proofs about Mailbox, for any clients, banks of any sizes, any locks,   *)
(* lists, values of accessibility and requests.                            *)
(***************************************************************************)
EXTENDS Mailbox, TLAPS

Typed == TypeOK /\ pc = [t \in Task |-> pc[t]]

\* Once its mailbox is being created, the service has its address, and it is not
\* the mailbox that look-ups find.
ServiceOwns ==
  /\ pc[Service] # "idle"
  /\ pc[Service] \in {"create", "ended"} \/ at[Service] \in Box \ {Last}

\* What a call edits is what the look-up has found.
EditsFound ==
  \A t \in Task : pc[t] \in {"edit_gain", "edit_store"} => at[t] \in LookUps

\* The service blacklists nobody but the author of the empty message.
BlackLists(m) == m.b1 \subseteq {0} /\ m.b2 = {}
OnlyZeroListed == BlackLists(settings) /\ \A m \in Box \ {Last} : BlackLists(box[m])

\* A mailbox that can be allocated is 'filling' only while a call fills it.
FilledByCalls ==
  \A m \in Box \ {Last} : box[m].filling =>
    \E u \in Task : at[u] = m /\ pc[u] = "create_store"

\* What a task does in one step.
Step(t) ==
  \/ CreateScan(t)
  \/ Gain(t, "create_gain", "create_fill")
  \/ CreateFill(t)
  \/ CreateStore(t)
  \/ WriteScan(t)
  \/ Gain(t, "write_gain", "write_store")
  \/ WriteStore(t)
  \/ Read(t)
  \/ EditCall(t)
  \/ Gain(t, "edit_gain", "edit_store")
  \/ EditStore(t)
  \/ Gain(t, "service_gain", "service_store")
  \/ t = Service /\ (ServiceRead \/ ServiceLists \/ ServiceEdit)

LEMMA Steps == Next => \E t \in Task : Step(t)
  BY DEF Next, Step, Task

-----------------------------------------------------------------------------
LEMMA WordType ==
  ASSUME NEW id \in Id
  PROVE  Lower(id) \in Word /\ (id > 63 => Upper(id) \in Word)
  BY DEF Id, Lower, Upper, Shifted, Word

\* The search of a reader meets no segment of the bank.
LEMMA NothingReadable == Messages = {NoMessage}
  BY MailboxAssumption DEF Messages, Readable, Segment, Searched

LEMMA Constants ==
  /\ Blank \in Mailbox /\ NoMessage \in Message
  /\ \A t \in Task : t \in Id
  /\ Service \in Task
  BY MailboxAssumption DEF Blank, NoMessage, Mailbox, Message, Id, Word, Task, Service

LEMMA InitTyped == Init => Typed /\ ServiceOwns
<1> SUFFICES ASSUME Init PROVE Typed /\ ServiceOwns
  OBVIOUS
<1>1. TypeOK
  BY Constants DEF Init, TypeOK
<1>2. ServiceOwns
  BY Constants DEF Init, ServiceOwns
<1> QED BY <1>1, <1>2 DEF Typed, Init

LEMMA StepTyped ==
  ASSUME Typed, ServiceOwns, NEW t \in Task, Step(t)
  PROVE  Typed'
<1>0. \/ CreateScan(t) \/ WriteScan(t) \/ EditCall(t)
      \/ \/ Gain(t, "create_gain", "create_fill") \/ Gain(t, "write_gain", "write_store")
         \/ Gain(t, "edit_gain", "edit_store") \/ Gain(t, "service_gain", "service_store")
      \/ CreateFill(t) \/ CreateStore(t) \/ WriteStore(t) \/ EditStore(t)
      \/ Read(t) \/ (t = Service /\ ServiceRead)
      \/ (t = Service /\ ServiceLists)
      \/ (t = Service /\ ServiceEdit)
  BY DEF Step
<1> USE MailboxAssumption DEF Typed, TypeOK, Goto, Return, banks
<1>1. CASE CreateScan(t) \/ WriteScan(t) \/ EditCall(t)
  BY <1>1 DEF CreateScan, WriteScan, EditCall, Editable, LookUps, Last, Box
<1>2. CASE \/ Gain(t, "create_gain", "create_fill") \/ Gain(t, "write_gain", "write_store")
           \/ Gain(t, "edit_gain", "edit_store") \/ Gain(t, "service_gain", "service_store")
  BY <1>2 DEF Gain
<1>3. CASE CreateFill(t)
  BY <1>3 DEF CreateFill, Mailbox
<1>4. CASE CreateStore(t)
  <2>1. PICK access \in SUBSET (0..2), white \in Word :
          box' = [box EXCEPT ![at[t]] =
                   [@ EXCEPT !.owner = t, !.filling = FALSE, !.access = access,
                             !.w1 = white, !.w2 = white]]
    <3>1. {0, 1} \in SUBSET (0..2) /\ {} \in Word
      BY DEF Word
    <3>2. PICK access \in IF t = Service THEN {{0, 1}} ELSE Access,
               white \in IF t = Service THEN {{}} ELSE Lists :
            box' = [box EXCEPT ![at[t]] =
                     [@ EXCEPT !.owner = t, !.filling = FALSE, !.access = access,
                               !.w1 = white, !.w2 = white]]
      BY <1>4 DEF CreateStore
    <3>3. access \in SUBSET (0..2) /\ white \in Word
      BY <3>1
    <3> QED BY <3>2, <3>3
  <2>2. \A m \in Mailbox :
          [m EXCEPT !.owner = t, !.filling = FALSE, !.access = access,
                    !.w1 = white, !.w2 = white] \in Mailbox
    BY Constants DEF Mailbox
  <2>3. box' \in [Box -> Mailbox]
    BY <2>1, <2>2
  <2> QED BY <1>4, <2>3 DEF CreateStore
<1>5. CASE WriteStore(t)
  <2>1. \A r \in Request : [author |-> t, content |-> r] \in Message
    BY Constants DEF Message
  <2>2. segment' \in [Segment -> [status : 0..2, message : Message]]
    <3>1. PICK r \in Request : segment' = [segment EXCEPT ![at[t]] =
                                [status |-> 1, message |-> [author |-> t, content |-> r]]]
      BY <1>5 DEF WriteStore
    <3>2. \A m \in Message : [status |-> 1, message |-> m] \in [status : 0..2, message : Message]
      OBVIOUS
    <3>3. [status |-> 1, message |-> [author |-> t, content |-> r]]
            \in [status : 0..2, message : Message]
      BY <2>1, <3>2, Zenon
    <3> DEFINE filled == [status |-> 1, message |-> [author |-> t, content |-> r]]
    <3>4. segment' = [segment EXCEPT ![at[t]] = filled]
      BY <3>1, Zenon
    <3>5. filled \in [status : 0..2, message : Message]
      BY <3>3
    <3> HIDE DEF filled
    <3> QED BY <3>4, <3>5
  <2> QED BY <1>5, <2>2 DEF WriteStore
<1>6. CASE Read(t) \/ (t = Service /\ ServiceRead)
  <2>1. got' = [got EXCEPT ![t] = NoMessage]
    BY <1>6, NothingReadable DEF Read, ServiceRead
  <2>2. got' \in [Task -> Message]
    BY <2>1, Constants
  <2> QED BY <1>6, <2>2 DEF Read, ServiceRead
<1>7. CASE EditStore(t)
  <2>1. PICK s \in Mailbox : EditBox(at[t], s)
    <3>1. \A owner \in Task, filling \in BOOLEAN, access \in Access,
             b1 \in Lists, b2 \in Lists, w2 \in Lists :
            [owner |-> owner, filling |-> filling, access |-> access,
             b1 |-> b1, b2 |-> b2, w1 |-> {}, w2 |-> w2] \in Mailbox
      BY Constants DEF Mailbox, Word
    <3> QED BY <1>7, <3>1 DEF EditStore
  <2>2. box' \in [Box -> Mailbox]
    BY <2>1 DEF EditBox, Edited, Mailbox
  <2> QED BY <1>7, <2>2 DEF EditStore
<1>8. CASE t = Service /\ ServiceLists
  <2> DEFINE author == got[Service].author
             own    == box[at[Service]]
  <2>1. author \in Id
    BY <1>8 DEF Message
  <2>2. own \in Mailbox
    BY <1>8 DEF ServiceOwns, ServiceLists, At
  <2>3. settings' \in Mailbox
    <3>1. CASE author > 63
      <4>1. [own EXCEPT !.b2 = @ \union Upper(author)] \in Mailbox
        BY <2>1, <2>2, <3>1, WordType DEF Mailbox, Word
      <4> QED BY <1>8, <3>1, <4>1 DEF ServiceLists
    <3>2. CASE ~(author > 63)
      <4>1. [own EXCEPT !.b1 = @ \union Lower(author)] \in Mailbox
        BY <2>1, <2>2, WordType DEF Mailbox, Word
      <4> QED BY <1>8, <3>2, <4>1 DEF ServiceLists
    <3> QED BY <3>1, <3>2
  <2> QED BY <1>8, <2>3 DEF ServiceLists
<1>9. CASE t = Service /\ ServiceEdit
  <2>1. box' \in [Box -> Mailbox]
    BY <1>9 DEF ServiceEdit, EditBox, Edited, Mailbox
  <2> QED BY <1>9, <2>1, Constants DEF ServiceEdit
<1> QED BY <1>0, <1>1, <1>2, <1>3, <1>4, <1>5, <1>6, <1>7, <1>8, <1>9

LEMMA StepOwns ==
  ASSUME Typed, ServiceOwns, NEW t \in Task, Step(t)
  PROVE  ServiceOwns'
<1> USE MailboxAssumption, Constants
    DEF Typed, TypeOK, ServiceOwns, Goto, Return, Failed, At, Step
<1>1. CASE t # Service
  BY <1>1 DEF CreateScan, Gain, CreateFill, CreateStore, WriteScan, WriteStore, Read,
     EditCall, EditStore
<1>2. CASE t = Service
  <2>1. Vacant \subseteq Box \ {Last}
    BY DEF Vacant, Box, Last
  <2> QED BY <1>2, <2>1 DEF CreateScan, Gain, CreateFill, CreateStore, WriteScan, WriteStore,
     Read, EditCall, EditStore, ServiceRead, ServiceLists, ServiceEdit, First
<1> QED BY <1>1, <1>2

LEMMA Unchanged ==
  ASSUME UNCHANGED vars
  PROVE  /\ Typed => Typed'
         /\ ServiceOwns => ServiceOwns'
         /\ EditsFound => EditsFound'
         /\ NothingDelivered => NothingDelivered'
         /\ OnlyZeroListed => OnlyZeroListed'
         /\ FilledByCalls => FilledByCalls'
  BY DEF vars, Typed, TypeOK, ServiceOwns, EditsFound, NothingDelivered, OnlyZeroListed,
     FilledByCalls, BlackLists

LEMMA TypedHolds == Spec => [](Typed /\ ServiceOwns)
<1>1. ASSUME Typed, ServiceOwns, [Next]_vars PROVE Typed' /\ ServiceOwns'
  <2>1. CASE Next
    BY <1>1, <2>1, Steps, StepTyped, StepOwns
  <2>2. CASE UNCHANGED vars
    BY <1>1, <2>2, Unchanged
  <2> QED BY <1>1, <2>1, <2>2
<1> QED BY InitTyped, <1>1, PTL DEF Spec

-----------------------------------------------------------------------------
\* The mailboxes, the segments, what the service edits and what a task was
\* given have their types, for every bank and every caller: in particular the
\* service has a mailbox whenever it reads or edits (power.c:5-46).
THEOREM TypeCorrect == Spec => []TypeOK
<1>1. Typed => TypeOK
  BY DEF Typed
<1> QED BY TypedHolds, <1>1, PTL

\* However large the banks are, no message that was written is ever read, and
\* the power service never serves a request (ipcmailbox.c:78, 87).
THEOREM NeverDelivered == Spec => []NothingDelivered
<1>1. Init => NothingDelivered
  BY Constants DEF Init, NothingDelivered
<1>2. ASSUME Typed, NothingDelivered, [Next]_vars PROVE NothingDelivered'
  <2>1. ASSUME NEW t \in Task, Step(t) PROVE NothingDelivered'
    <3> USE <1>2, Constants DEF NothingDelivered, Typed, banks
    <3>1. CASE Read(t)
      BY <3>1, NothingReadable DEF Read, TypeOK
    <3>2. CASE t = Service /\ ServiceRead
      BY <3>2, NothingReadable DEF ServiceRead, Goto, NoMessage, TypeOK
    <3>3. CASE ~Read(t) /\ ~(t = Service /\ ServiceRead)
      <4>1. CASE CreateFill(t) \/ CreateStore(t) \/ WriteStore(t) \/ EditStore(t)
        <5>1. got' = got /\ (Goto(t, "create_store") \/ Return(t))
          BY <4>1 DEF CreateFill, CreateStore, WriteStore, EditStore
        <5> QED BY <5>1 DEF Goto, Return
      <4>2. CASE t = Service /\ (ServiceLists \/ ServiceEdit)
        <5>1. got' = got /\ (Goto(t, "service_gain") \/ Return(t))
          BY <4>2 DEF ServiceLists, ServiceEdit
        <5> QED BY <5>1 DEF Goto, Return
      <4>3. CASE \/ Gain(t, "create_gain", "create_fill") \/ Gain(t, "write_gain", "write_store")
                 \/ Gain(t, "edit_gain", "edit_store") \/ Gain(t, "service_gain", "service_store")
        BY <4>3 DEF Gain, Goto
      <4>4. CASE CreateScan(t) \/ WriteScan(t) \/ EditCall(t)
        BY <4>4 DEF CreateScan, WriteScan, EditCall, Goto, Failed
      <4> QED BY <2>1, <3>3, <4>1, <4>2, <4>3, <4>4 DEF Step
    <3> QED BY <3>1, <3>2, <3>3
  <2> QED BY <1>2, <2>1, Steps, Unchanged
<1> QED BY <1>1, <1>2, TypedHolds, PTL DEF Spec

-----------------------------------------------------------------------------
LEMMA FoundHolds == Spec => []EditsFound
<1>1. Init => EditsFound
  BY DEF Init, EditsFound
<1>2. ASSUME Typed, EditsFound, [Next]_vars PROVE EditsFound'
  <2>1. ASSUME NEW t \in Task, Step(t) PROVE EditsFound'
    <3> USE <1>2 DEF EditsFound, Typed, TypeOK, Goto
    <3>1. CASE EditCall(t)
      BY <3>1 DEF EditCall, Editable
    <3>2. CASE ~EditCall(t)
      BY <2>1, <3>2 DEF Step, CreateScan, Gain, CreateFill, CreateStore, WriteScan,
         WriteStore, Read, EditStore, ServiceRead, ServiceLists, ServiceEdit, Return, Failed, At
    <3> QED BY <3>1, <3>2
  <2> QED BY <1>2, <2>1, Steps, Unchanged
<1> QED BY <1>1, <1>2, TypedHolds, PTL DEF Spec

\* No edit changes a mailbox but the last of the bank.
LEMMA OnlyTheLast ==
  ASSUME Typed, EditsFound, NEW t \in Task, Step(t), NEW m \in Box \ {Last}, box'[m] # box[m]
  PROVE  (CreateFill(t) \/ CreateStore(t)) /\ at[t] = m
<1> USE MailboxAssumption DEF Typed, TypeOK, Box, Last
<1>1. CASE CreateFill(t) \/ CreateStore(t)
  BY <1>1 DEF CreateFill, CreateStore
<1>2. CASE EditStore(t)
  BY <1>2 DEF EditStore, EditBox, EditsFound, LookUps, At
<1>3. CASE t = Service /\ ServiceEdit
  BY <1>3 DEF ServiceEdit, EditBox
<1>4. CASE ~(CreateFill(t) \/ CreateStore(t)) /\ ~EditStore(t) /\ ~(t = Service /\ ServiceEdit)
  BY <1>4 DEF Step, CreateScan, Gain, WriteScan, WriteStore, Read, EditCall, ServiceRead,
     ServiceLists, banks
<1> QED BY <1>1, <1>2, <1>3, <1>4

\* In a bank of any size the mailboxes that can be created are never edited:
\* the look-up by id ends at the last one (svc.c:403-407, ipcmailbox.c:7).
THEOREM EditedIsTheLast == Spec => EditsGoToTheLast
<1>1. ASSUME Typed, EditsFound, [Next]_vars
      PROVE [\A m \in Box \ {Last} : box'[m] # box[m] =>
               \E t \in Task : pc[t] \in {"create_fill", "create_store"} /\ at[t] = m]_vars
  <2>1. ASSUME Next, NEW m \in Box \ {Last}, box'[m] # box[m]
        PROVE \E t \in Task : pc[t] \in {"create_fill", "create_store"} /\ at[t] = m
    <3>1. PICK t \in Task : Step(t)
      BY <2>1, Steps
    <3>2. (CreateFill(t) \/ CreateStore(t)) /\ at[t] = m
      BY <1>1, <2>1, <3>1, OnlyTheLast
    <3> QED BY <3>2 DEF CreateFill, CreateStore, At
  <2> QED BY <1>1, <2>1
<1> QED BY <1>1, TypedHolds, FoundHolds, PTL DEF Spec, EditsGoToTheLast

-----------------------------------------------------------------------------
LEMMA ListedHolds == Spec => []OnlyZeroListed
<1>1. Init => OnlyZeroListed
  BY DEF Init, OnlyZeroListed, BlackLists, Blank
<1>2. ASSUME Typed, ServiceOwns, NothingDelivered, OnlyZeroListed, EditsFound, [Next]_vars
      PROVE OnlyZeroListed'
  <2>1. ASSUME NEW t \in Task, Step(t) PROVE OnlyZeroListed'
    <3> USE <1>2 DEF OnlyZeroListed
    <3>0. ASSUME NEW m \in Box \ {Last}, EditStore(t) \/ (t = Service /\ ServiceEdit)
          PROVE  box'[m] = box[m]
      <4>1. ~(CreateFill(t) \/ CreateStore(t))
        BY <3>0 DEF EditStore, ServiceEdit, CreateFill, CreateStore, At
      <4> QED BY <2>1, <3>0, <4>1, OnlyTheLast
    <3>1. CASE CreateFill(t) \/ CreateStore(t)
      <4>1. settings' = settings
        BY <3>1 DEF CreateFill, CreateStore
      <4>2. CASE CreateFill(t)
        <5>1. box' = [box EXCEPT ![at[t]] = [@ EXCEPT !.filling = TRUE]]
          BY <4>2 DEF CreateFill
        <5>2. \A r \in Mailbox : BlackLists(r) => BlackLists([r EXCEPT !.filling = TRUE])
          BY DEF BlackLists, Mailbox
        <5>3. \A m \in Box \ {Last} : BlackLists(box'[m])
          BY <5>1, <5>2 DEF Typed, TypeOK
        <5> QED BY <4>1, <5>3
      <4>3. CASE CreateStore(t)
        <5>1. PICK access, white :
                box' = [box EXCEPT ![at[t]] =
                         [@ EXCEPT !.owner = t, !.filling = FALSE, !.access = access,
                                   !.w1 = white, !.w2 = white]]
          BY <4>3 DEF CreateStore
        <5>2. \A r \in Mailbox : BlackLists(r) =>
                BlackLists([r EXCEPT !.owner = t, !.filling = FALSE, !.access = access,
                                     !.w1 = white, !.w2 = white])
          BY DEF BlackLists, Mailbox
        <5>3. \A m \in Box \ {Last} : BlackLists(box'[m])
          BY <5>1, <5>2 DEF Typed, TypeOK
        <5> QED BY <4>1, <5>3
      <4> QED BY <3>1, <4>2, <4>3
    <3>2. CASE EditStore(t)
      <4>1. settings' = settings
        BY <3>2 DEF EditStore
      <4> QED BY <3>0, <3>2, <4>1
    <3>3. CASE t = Service /\ ServiceEdit
      <4>1. settings' = Blank
        BY <3>3 DEF ServiceEdit
      <4> QED BY <3>0, <3>3, <4>1 DEF BlackLists, Blank
    <3>4. CASE t = Service /\ ServiceLists
      <4>1. box' = box
        BY <3>4 DEF ServiceLists, banks
      <4>2. got[Service].author = 0
        BY Constants DEF NothingDelivered, NoMessage
      <4>3. settings' = [box[at[Service]] EXCEPT !.b1 = @ \union Lower(0)]
        BY <3>4, <4>2 DEF ServiceLists
      <4>4. Lower(0) = {0}
        BY DEF Lower, Shifted
      <4>5. at[Service] \in Box \ {Last} /\ box[at[Service]] \in Mailbox
        BY <3>4 DEF ServiceLists, ServiceOwns, At, Typed, TypeOK
      <4>6. BlackLists(settings')
        BY <4>3, <4>4, <4>5 DEF BlackLists, Mailbox
      <4> QED BY <4>1, <4>6
    <3>5. CASE ~(CreateFill(t) \/ CreateStore(t)) /\ ~EditStore(t)
               /\ ~(t = Service /\ (ServiceEdit \/ ServiceLists))
      <4>1. UNCHANGED <<box, settings>>
        BY <2>1, <3>5 DEF Step, CreateScan, Gain, WriteScan, WriteStore, Read, EditCall,
           ServiceRead, banks
      <4> QED BY <4>1
    <3> QED BY <3>1, <3>2, <3>3, <3>4, <3>5
  <2> QED BY <1>2, <2>1, Steps, Unchanged
<1> QED BY <1>1, <1>2, TypedHolds, FoundHolds, NeverDelivered, PTL DEF Spec

\* Whatever the clients have edited before, when the service has edited, the
\* black list refuses those tasks only whose id has the same bit of a 32-bit
\* shift as id 0, for banks of any size (power.c:32-46, svc.c:415).
THEOREM ServiceListsZero == Spec => ServiceRefusesAliasesOfZero
<1>1. ASSUME NEW m, BlackLists(m), NEW id \in Id, Refusal(m, id, 0) = 3
      PROVE  id % 32 = 0 /\ id < 63
  <2>1. id < 63 /\ Lower(id) \intersect m.b1 # {}
    BY <1>1 DEF Refusal, BlackLists, Id
  <2>2. 0 \in Shifted(id)
    BY <1>1, <2>1 DEF BlackLists, Lower
  <2> QED BY <2>1, <2>2 DEF Shifted, Id
<1>2. ASSUME Typed, OnlyZeroListed, Next, pc[Service] = "service_store", pc'[Service] = "loop"
      PROVE  BlackLists(box'[Last])
  <2>1. PICK t \in Task : Step(t)
    BY <1>2, Steps
  <2>2. t = Service
    <3> SUFFICES ASSUME t # Service PROVE pc'[Service] = pc[Service]
      BY <1>2
    <3>1. pc' = pc \/ \E label : pc' = [pc EXCEPT ![t] = label]
      BY <1>2, <2>1 DEF Step, CreateScan, Gain, CreateFill, CreateStore, WriteScan,
         WriteStore, Read, EditCall, EditStore, Goto, Return
    <3> QED BY <1>2, <3>1, Constants DEF Typed
  <2>3. ServiceEdit
    BY <1>2, <2>1, <2>2 DEF Step, CreateScan, Gain, CreateFill, CreateStore, WriteScan,
         WriteStore, Read, EditCall, EditStore, ServiceRead, ServiceLists, At
  <2>4. box'[Last] = Edited(box[Last], settings)
    BY <2>3, MailboxAssumption DEF ServiceEdit, EditBox, Last, Box
  <2>5. settings \in Mailbox /\ BlackLists(settings)
    BY <1>2 DEF Typed, TypeOK, OnlyZeroListed
  <2> QED BY <2>4, <2>5 DEF Edited, BlackLists, Mailbox
<1>3. ASSUME Typed, OnlyZeroListed, [Next]_vars
      PROVE  [pc[Service] = "service_store" /\ pc'[Service] = "loop" =>
                \A id \in Id : Refusal(box'[Last], id, 0) = 3 => id % 32 = 0 /\ id < 63]_vars
  BY <1>1, <1>2, <1>3
<1> QED BY <1>3, TypedHolds, ListedHolds, PTL DEF Spec, ServiceRefusesAliasesOfZero

-----------------------------------------------------------------------------
LEMMA FilledHolds == Spec => []FilledByCalls
<1>1. Init => FilledByCalls
  BY DEF Init, FilledByCalls, Blank
<1>2. ASSUME Typed, EditsFound, FilledByCalls, [Next]_vars PROVE FilledByCalls'
  <2>1. ASSUME NEW t \in Task, Step(t) PROVE FilledByCalls'
    <3>1. SUFFICES ASSUME NEW m \in Box \ {Last}, box'[m].filling
                   PROVE \E u \in Task : at'[u] = m /\ pc'[u] = "create_store"
      BY DEF FilledByCalls
    <3> USE <1>2, <2>1
    <3>2. CASE CreateFill(t) /\ at[t] = m
      BY <3>2 DEF CreateFill, Goto, Typed
    <3>3. CASE CreateStore(t) /\ at[t] = m
      BY <3>1, <3>3 DEF CreateStore, Typed, TypeOK, Mailbox
    <3>4. CASE ~((CreateFill(t) \/ CreateStore(t)) /\ at[t] = m)
      <4>1. box'[m] = box[m]
        BY <3>4, OnlyTheLast
      <4>2. PICK u \in Task : at[u] = m /\ pc[u] = "create_store"
        BY <3>1, <4>1 DEF FilledByCalls
      <4>3. CASE u # t
        BY <4>2, <4>3 DEF Step, CreateScan, Gain, CreateFill, CreateStore, WriteScan, WriteStore,
           Read, EditCall, EditStore, ServiceRead, ServiceLists, ServiceEdit, Goto, Return, Typed,
           TypeOK
      <4>4. CASE u = t
        <5>1. CreateStore(t)
          BY <4>2, <4>4 DEF Step, CreateScan, Gain, CreateFill, WriteScan, WriteStore, Read,
             EditCall, EditStore, ServiceRead, ServiceLists, ServiceEdit, At
        <5> QED BY <3>4, <4>2, <4>4, <5>1
      <4> QED BY <4>3, <4>4
    <3> QED BY <3>2, <3>3, <3>4
  <2> QED BY <1>2, <2>1, Steps, Unchanged
<1> QED BY <1>1, <1>2, TypedHolds, FoundHolds, PTL DEF Spec

\* In every bank: the search passes by an open mailbox only while a call
\* fills it, so that a mailbox which has an owner is handed out again
\* (ipcmailbox.c:9, svc.c:389-397).
THEOREM CreatedIsReused == Spec => FirstIsReused
<1>1. ASSUME Typed, FilledByCalls, [Next]_vars
      PROVE [\A t \in Task : pc[t] # "create_gain" /\ pc'[t] = "create_gain" =>
               \A m \in OpenBox : m < at'[t] =>
                 \E u \in Task : at[u] = m /\ pc[u] = "create_store"]_vars
  <2>1. ASSUME Next, NEW t \in Task, pc[t] # "create_gain", pc'[t] = "create_gain",
               NEW m \in OpenBox, m < at'[t]
        PROVE \E u \in Task : at[u] = m /\ pc[u] = "create_store"
    <3>1. PICK w \in Task : Step(w)
      BY <2>1, Steps
    <3>2. CreateScan(w) /\ w = t
      BY <1>1, <2>1, <3>1 DEF Step, CreateScan, Gain, CreateFill, CreateStore, WriteScan,
         WriteStore, Read, EditCall, EditStore, ServiceRead, ServiceLists, ServiceEdit, Goto,
         Return, Typed, Failed
    <3>3. First(at'[t], Vacant) /\ at'[t] \in Box
      BY <1>1, <2>1, <3>2 DEF CreateScan, Goto, Failed, Typed, TypeOK
    <3>4. m \notin Vacant /\ m \in 0..B-2
      BY <2>1, <3>3, MailboxAssumption DEF First, Vacant, Box
    <3>5. box[m].filling /\ m \in Box \ {Last}
      BY <2>1, <3>4, MailboxAssumption DEF Vacant, Box, Last
    <3> QED BY <1>1, <3>5 DEF FilledByCalls
  <2> QED BY <1>1, <2>1
<1> QED BY <1>1, TypedHolds, FilledHolds, PTL DEF Spec, FirstIsReused
=============================================================================
