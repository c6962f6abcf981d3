------------------------------ MODULE Mailbox ------------------------------
(***************************************************************************)
(* The IPC mailboxes: the bank of mailboxes, the bank of message segments, *)
(* the four calls on them, and the power service, the one task of the      *)
(* kernel that owns a mailbox.  The calls of the tasks interleave; a call  *)
(* takes one step per scan of a bank, per lock and per group of stores     *)
(* behind a lock.                                                          *)
(*                                                                         *)
(* Nothing writes the id of a mailbox, so all ids are 0, and a look-up     *)
(* ends at the last mailbox of the bank.  access_mutex is passed to        *)
(* gain_mutex as an address: the word it names lies outside the two banks, *)
(* and by KernelLock a caller that finds it free never returns, while the  *)
(* others pass.  The memory behind the bank of segments, where the search  *)
(* of a reader goes, is taken to hold no filled segment.  Fields read      *)
(* through a mailbox pointer that is NULL hold anything.  A receiver above *)
(* 127 is refused before anything is looked up.  The two banks are taken   *)
(* to start as zeros, which is what their memory holds after a cold start  *)
(* that clears it: the code itself does not.                               *)
(***************************************************************************)
EXTENDS Naturals

CONSTANTS
  Client,   \* ids of the tasks of level 0 that call; the power service is 0
  B, S,     \* sizes of the banks (64 and 512 here)
  Lists,    \* the lists of tasks, as sets of bits, that a caller may pass
  Access,   \* the values of accessibility, as sets of bits, that it may pass
  Request,  \* the first words of the messages
  OpenBox, OpenSegment,  \* the entries whose access_mutex is not zero
  NULL

Box     == 0..B-1
Segment == 0..S-1
Service == 0
Task    == Client \union {Service}
Id      == 0..127
Word    == SUBSET (0..63)
Last    == B - 1

ASSUME MailboxAssumption ==
  /\ Client \subseteq Id \ {Service}
  /\ B \in Nat \ {0, 1} /\ S \in Nat \ {0, 1}
  /\ OpenBox \subseteq Box /\ OpenSegment \subseteq Segment
  /\ Lists \subseteq Word /\ Access \subseteq SUBSET (0..2)
  /\ Request \subseteq Nat /\ NULL \notin Nat

VARIABLES
  box,       \* the bank of mailboxes
  segment,   \* the bank of segments
  pc,
  at,        \* per task: the entry its call works on
  settings,  \* what the service passes to mxedit
  got        \* per task: the last message it was given

vars == <<box, segment, pc, at, settings, got>>

Mailbox == [owner : Id, filling : BOOLEAN, access : SUBSET (0..2),
            b1 : Word, b2 : Word, w1 : Word, w2 : Word]
Message == [author : Id, content : Request \union {0}]
Blank   == [owner |-> 0, filling |-> FALSE, access |-> {},
            b1 |-> {}, b2 |-> {}, w1 |-> {}, w2 |-> {}]
NoMessage == [author |-> 0, content |-> 0]

Init ==
  /\ box = [m \in Box |-> Blank]
  /\ segment = [s \in Segment |-> [status |-> 0, message |-> NoMessage]]
  /\ pc = [t \in Task |-> IF t = Service THEN "create" ELSE "idle"]
  /\ at = [t \in Task |-> NULL]
  /\ settings = Blank
  /\ got = [t \in Task |-> NoMessage]

At(t, label) == pc[t] = label
Goto(t, label) == pc' = [pc EXCEPT ![t] = label]
First(n, N) == n \in N /\ \A k \in N : n <= k
\* The end of a call; the service keeps the address of its mailbox.
Return(t) ==
  /\ Goto(t, IF t = Service THEN "loop" ELSE "idle")
  /\ at' = [at EXCEPT ![t] = IF t = Service THEN @ ELSE NULL]

banks == <<box, segment>>

\* A loop on access_mutex: on to the next step, or for ever in the loop.
Gain(t, from, to) ==
  /\ At(t, from)
  /\ Goto(t, to) \/ Goto(t, "stuck")
  /\ UNCHANGED <<banks, at, settings, got>>

-----------------------------------------------------------------------------
\* Mutation of Vacant: a mailbox with an owner is not vacant.
VacantMeant == {m \in 0..B-2 : m \in OpenBox /\ ~box[m].filling /\ box[m].owner = 0}

\* alloc_ipcmailbox: the first mailbox but the last whose status is 0, where
\* the mask for the status covers bit 2 only: 'filling', never 'fill'.
Vacant == {m \in 0..B-2 : m \in OpenBox /\ ~box[m].filling}

Failed(t) == IF t = Service THEN "ended" ELSE "idle"

CreateScan(t) ==
  /\ pc[t] \in {"idle", "create"}
  /\ IF Vacant = {}
     THEN Goto(t, Failed(t)) /\ UNCHANGED at
     ELSE /\ \E m \in Box : First(m, Vacant) /\ at' = [at EXCEPT ![t] = m]
          /\ Goto(t, "create_gain")
  /\ UNCHANGED <<banks, settings, got>>

CreateFill(t) ==
  /\ At(t, "create_fill")
  /\ box' = [box EXCEPT ![at[t]].filling = TRUE]
  /\ Goto(t, "create_store")
  /\ UNCHANGED <<segment, at, settings, got>>

\* The black list that the caller passes is not used; mxcreate of the power
\* service passes no white list and allows to write and to read.
CreateStore(t) ==
  /\ At(t, "create_store")
  /\ \E access \in IF t = Service THEN {{0, 1}} ELSE Access,
        white \in IF t = Service THEN {{}} ELSE Lists :
       box' = [box EXCEPT ![at[t]] =
                [@ EXCEPT !.owner = t, !.filling = FALSE, !.access = access,
                          !.w1 = white, !.w2 = white]]
  /\ Return(t)
  /\ UNCHANGED <<segment, settings, got>>

-----------------------------------------------------------------------------
\* 1 << n on a 32-bit int, widened to a word with its sign.
Shifted(n) == IF n % 32 = 31 THEN 31..63 ELSE {n % 32}
Lower(id)  == Shifted(id)
Upper(id)  == Shifted(id - 63)

\* The tests of svc_write_ipcmailbox, svc_read_ipcmailbox and
\* ipc_not_allowed_in_lists; id 63 is in neither half.
Refusal(m, id, bit) ==
  LET half(lower, upper) == IF id < 63 THEN lower ELSE IF id > 63 THEN upper ELSE {}
      mask  == half(Lower(id), Upper(id))
      black == half(m.b1, m.b2)
      white == half(m.w1, m.w2)
  IN  IF m.b1 \union m.b2 # {} /\ m.w1 \union m.w2 # {} THEN 2
      ELSE IF black \intersect mask # {} THEN 3
      ELSE IF white # {} /\ white \intersect mask = {} THEN 4
      ELSE IF bit \notin m.access THEN 5 ELSE 0

\* A look-up by id finds the last mailbox or none; the service is of level 2.
LookUps == {Last, NULL}
Passes(t, bit) == {m \in LookUps : t = Service \/ m = NULL \/ Refusal(box[m], t, bit) = 0}

\* alloc_ipcmailboxsegment: the last segment is left out.
Empty == {s \in 0..S-2 : s \in OpenSegment /\ segment[s].status = 0}

WriteScan(t) ==
  /\ At(t, "idle")
  /\ Passes(t, 0) # {}
  /\ Empty # {}
  /\ \E s \in Segment : First(s, Empty) /\ at' = [at EXCEPT ![t] = s]
  /\ Goto(t, "write_gain")
  /\ UNCHANGED <<banks, settings, got>>

\* The status stays 'filling': it is mailbox_type that is set to 2.
WriteStore(t) ==
  /\ At(t, "write_store")
  /\ \E r \in Request :
       segment' = [segment EXCEPT ![at[t]] =
                    [status |-> 1, message |-> [author |-> t, content |-> r]]]
  /\ Return(t)
  /\ UNCHANGED <<box, settings, got>>

-----------------------------------------------------------------------------
\* read_ipcmailbox searches 512 segments downwards from the bank's base plus
\* 56 * 511 segments, for one that is 'fill'.
Searched == 55 * (S - 1) .. 56 * (S - 1)
Readable == {s \in Segment \intersect Searched : s \in OpenSegment /\ segment[s].status = 2}

\* Mutation of Messages: the filled segments of the bank are found.
MessagesMeant ==
  {segment[s].message : s \in {s \in Segment : segment[s].status = 1}} \union {NoMessage}

Messages == IF Readable = {} THEN {NoMessage} ELSE {segment[s].message : s \in Readable}

Read(t) ==
  /\ At(t, "idle")
  /\ Passes(t, 1) # {}
  /\ \E message \in Messages : got' = [got EXCEPT ![t] = message]
  /\ UNCHANGED <<banks, pc, at, settings>>

-----------------------------------------------------------------------------
Editable(t) ==
  {m \in LookUps : t = Service \/ m = NULL \/ 2 \in box[m].access \/ box[m].owner = t}

EditCall(t) ==
  /\ At(t, "idle")
  /\ \E m \in Editable(t) : at' = [at EXCEPT ![t] = m]
  /\ Goto(t, "edit_gain")
  /\ UNCHANGED <<banks, settings, got>>

\* Mutation of Edited: the owner is left to the id that no task has.
EditedOwnerless(m, s) == [s EXCEPT !.w1 = m.w1, !.owner = 128]

\* edit_ipcmailbox writes every field but the lower half of the white list.
Edited(m, s) == [s EXCEPT !.w1 = m.w1]

EditBox(m, s) ==
  box' = [k \in Box |-> IF k = m THEN Edited(box[k], s) ELSE box[k]]

\* svc_edit_ipcmailbox stores what the settings of the caller say.
EditStore(t) ==
  /\ At(t, "edit_store")
  /\ \E owner \in Task, filling \in BOOLEAN, access \in Access,
        b1 \in Lists, b2 \in Lists, w2 \in Lists :
       EditBox(at[t], [owner |-> owner, filling |-> filling, access |-> access,
                       b1 |-> b1, b2 |-> b2, w1 |-> {}, w2 |-> w2])
  /\ Return(t)
  /\ UNCHANGED <<segment, settings, got>>

-----------------------------------------------------------------------------
\* kernel_service_power, level 2, whose create call is above: read, then serve requests 1 and 2 ...
ServiceRead ==
  /\ At(Service, "loop")
  /\ \E message \in Messages :
       /\ got' = [got EXCEPT ![Service] = message]
       /\ Goto(Service, IF message.content \in {1, 2} THEN "serve" ELSE "lists")
  /\ UNCHANGED <<banks, at, settings>>

\* ... or add the author to the black list of its mailbox; mxedit gets the id
\* of that mailbox, and edits the one the look-up finds.
ServiceLists ==
  LET own    == box[at[Service]]
      author == got[Service].author
  IN  /\ At(Service, "lists")
      /\ settings' = IF author > 63 THEN [own EXCEPT !.b2 = @ \union Upper(author)]
                                    ELSE [own EXCEPT !.b1 = @ \union Lower(author)]
      /\ Goto(Service, "service_gain")
      /\ UNCHANGED <<banks, at, got>>

\* Mutation of ServiceEdit: the mailbox of the service itself is edited.
ServiceEditOwn ==
  /\ At(Service, "service_store")
  /\ EditBox(at[Service], settings)
  /\ settings' = Blank
  /\ Return(Service)
  /\ UNCHANGED <<segment, got>>

ServiceEdit ==
  /\ At(Service, "service_store")
  /\ EditBox(Last, settings)
  /\ settings' = Blank
  /\ Return(Service)
  /\ UNCHANGED <<segment, got>>

Next ==
  \/ \E t \in Task :
       \/ CreateScan(t)
       \/ Gain(t, "create_gain", "create_fill")
       \/ CreateFill(t)
       \/ CreateStore(t)
       \/ WriteScan(t)
       \/ Gain(t, "write_gain", "write_store")
       \/ WriteStore(t)
       \/ Read(t)
       \/ EditCall(t)
       \/ Gain(t, "edit_gain", "edit_store")
       \/ EditStore(t)
  \/ ServiceRead
  \/ ServiceLists
  \/ Gain(Service, "service_gain", "service_store")
  \/ ServiceEdit

Spec == Init /\ [][Next]_vars

-----------------------------------------------------------------------------
\* Type invariant.
TypeOK ==
  /\ box \in [Box -> Mailbox]
  /\ segment \in [Segment -> [status : 0..2, message : Message]]
  /\ at \in [Task -> Box \union Segment \union {NULL}]
  /\ settings \in Mailbox
  /\ got \in [Task -> Message]

\* What is written is never read: every read gives the empty message, so that
\* the power service never sees a request (ipcmailbox.c:61-72, 78, 87).
NothingDelivered ==
  /\ \A t \in Task : got[t] = NoMessage
  /\ pc[Service] # "serve"

\* The mailbox that every look-up finds is no mailbox that was created: apart
\* from their creation the others do not change (svc.c:379, 403-407,
\* ipcmailbox.c:7).
EditsGoToTheLast ==
  [][\A m \in Box \ {Last} : box'[m] # box[m] =>
       \E t \in Task : pc[t] \in {"create_fill", "create_store"} /\ at[t] = m]_vars

\* A mailbox that has been created is handed out again to the next caller:
\* another one is used only while the first is being filled
\* (ipcmailbox.c:9, svc.c:389-397).
FirstIsReused ==
  [][\A t \in Task : pc[t] # "create_gain" /\ pc'[t] = "create_gain" =>
       \A m \in OpenBox : m < at'[t] =>
         \E u \in Task : at[u] = m /\ pc[u] = "create_store"]_vars

\* When the power service has edited, whatever the clients had put on the lists
\* is gone, and whoever is refused by the black list is no author of a wrong
\* request but a task whose id equals 0 in its low five bits, below 63: the
\* service puts the author of the empty message on a copy of the list of its own
\* mailbox, which is not the one it edits, and the shifts have 32 bits
\* (power.c:32-46, svc.c:415).
ServiceRefusesAliasesOfZero ==
  [][pc[Service] = "service_store" /\ pc'[Service] = "loop" =>
       \A id \in Id : Refusal(box'[Last], id, 0) = 3 => id % 32 = 0 /\ id < 63]_vars
=============================================================================
