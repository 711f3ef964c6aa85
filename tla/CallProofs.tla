----------------------------- MODULE CallProofs -----------------------------
(***************************************************************************)
(* What admits a call: theorems about LocalCalls, for every number of      *)
(* calls, signatures, approvals, keys and policies, and at the end about   *)
(* AccessRequests and Sessions.  One approval starts one call; what        *)
(* starts was granted by the journal and by nobody who was told that the   *)
(* decision is unconfirmed; a reservation has one owner; what has ended    *)
(* does not come back.                                                     *)
(*                                                                         *)
(* The proof has three layers.  Lemmas about the table say what each of    *)
(* its operations does to an entry (EntryStep, Bystander, NoGrant).  Sound *)
(* adds the types, where a task can be and who holds the coordinator.      *)
(* OwnInv says who owns a reservation or a claim, JournalInv what the      *)
(* journal says of every entry, decision and basis.                        *)
(***************************************************************************)
EXTENDS LocalCalls, FiniteSetTheorems, TLAPS

\* An entry of the table, with the ids that are not or no longer in it.
Entry == [state : {"absent", "removed"} \cup LocalApprovalState,
          reserved : BOOLEAN, key : Key, policy : 0..MaxPolicy]
\* A table of approvals.
Table == [Approval -> Entry]

\* An hour that has passed can still be opened.
RateInv == rate.elapsed => rate.start < MaxHours

\* Refreshing an entry expires it when its deadline has passed, and that is all.
LEMMA RefreshedIsEntry ==
    ASSUME TypeOK, NEW a \in Approval
    PROVE  /\ Refreshed(a) \in Entry
           /\ Refreshed(a).reserved = approval[a].reserved
           /\ Refreshed(a).key = approval[a].key
           /\ Refreshed(a).policy = approval[a].policy
           /\ Refreshed(a).state = IF a \in lapsed /\ approval[a].state \in Live
                                   THEN "Expired" ELSE approval[a].state
  BY DEF TypeOK, Refreshed, Entry, Live, LocalApprovalState

\* Looking an entry up refreshes that entry only.
LEMMA LookedIsTable ==
    ASSUME TypeOK, NEW a \in Approval
    PROVE  /\ Looked(a) \in Table
           /\ Looked(a)[a] = Refreshed(a)
           /\ \A b \in Approval \ {a} : Looked(a)[b] = approval[b]
  BY RefreshedIsEntry DEF TypeOK, Looked, Table, Entry

\* Refreshing the table refreshes every entry.
LEMMA AllRefreshedIsTable ==
    ASSUME TypeOK
    PROVE  /\ AllRefreshed \in Table
           /\ \A a \in Approval : AllRefreshed[a] = Refreshed(a)
  BY RefreshedIsEntry DEF AllRefreshed, Table

\* Discarded ids are removed and no longer reserved; the others stay.
LEMMA DiscardIsTable ==
    ASSUME NEW table \in Table, NEW ids
    PROVE  /\ Discard(table, ids) \in Table
           /\ \A a \in Approval :
                /\ a \notin ids => Discard(table, ids)[a] = table[a]
                /\ a \in ids =>
                     /\ Discard(table, ids)[a].state = "removed"
                     /\ ~Discard(table, ids)[a].reserved
                     /\ Discard(table, ids)[a].key = table[a].key
                     /\ Discard(table, ids)[a].policy = table[a].policy
  BY DEF Discard, Table, Entry, LocalApprovalState

\* Cancelling an unconfirmed request changes the state of that entry only.
LEMMA CancelIsTable ==
    ASSUME NEW table \in Table, NEW a \in Approval
    PROVE  /\ CancelUnconfirmed(table, a) \in Table
           /\ \A b \in Approval \ {a} : CancelUnconfirmed(table, a)[b] = table[b]
           /\ CancelUnconfirmed(table, a)[a].reserved = table[a].reserved
           /\ CancelUnconfirmed(table, a)[a].key = table[a].key
           /\ CancelUnconfirmed(table, a)[a].policy = table[a].policy
           /\ CancelUnconfirmed(table, a)[a].state =
                IF table[a].state \in LocalApprovalState THEN "Cancelled" ELSE table[a].state
  BY DEF CancelUnconfirmed, Table, Entry, LocalApprovalState

\* Dropping a reservation frees the entry it finds and refreshes it.
LEMMA UnreservedIsTable ==
    ASSUME TypeOK, NEW a \in Approval
    PROVE  /\ Unreserved(approval, a) \in Table
           /\ \A b \in Approval \ {a} : Unreserved(approval, a)[b] = approval[b]
           /\ Unreserved(approval, a)[a].key = approval[a].key
           /\ Unreserved(approval, a)[a].policy = approval[a].policy
           /\ approval[a].state \notin LocalApprovalState => Unreserved(approval, a) = approval
           /\ approval[a].state \in LocalApprovalState =>
                /\ ~Unreserved(approval, a)[a].reserved
                /\ Unreserved(approval, a)[a].state = Refreshed(a).state
  BY RefreshedIsEntry DEF TypeOK, Unreserved, Table, Entry

\* Committing a reservation consumes the entry only while it is reserved.
LEMMA ConsumedIsTable ==
    ASSUME NEW table \in Table, NEW a \in Approval
    PROVE  /\ Consumed(table, a) \in Table
           /\ \A b \in Approval \ {a} : Consumed(table, a)[b] = table[b]
           /\ Consumed(table, a)[a].key = table[a].key
           /\ Consumed(table, a)[a].policy = table[a].policy
           /\ table[a].state \in LocalApprovalState /\ table[a].reserved =>
                /\ ~Consumed(table, a)[a].reserved
                /\ Consumed(table, a)[a].state = "Consumed"
           /\ ~(table[a].state \in LocalApprovalState /\ table[a].reserved) =>
                Consumed(table, a) = table
  BY DEF Consumed, Table, Entry, LocalApprovalState

\* Setting the state of an entry keeps the rest of the table.
LEMMA StateIsTable ==
    ASSUME TypeOK, NEW a \in Approval, NEW state \in LocalApprovalState,
           approval' = [approval EXCEPT ![a].state = state]
    PROVE  /\ approval' \in Table
           /\ \A b \in Approval \ {a} : approval'[b] = approval[b]
           /\ approval'[a].state = state
           /\ approval'[a].reserved = approval[a].reserved
           /\ approval'[a].key = approval[a].key
           /\ approval'[a].policy = approval[a].policy
  BY DEF TypeOK, Table, Entry

-----------------------------------------------------------------------------
(* What a step may do to an entry.                                         *)

\* The states an approval does not leave.
Ended == {"Consumed", "Cancelled", "Expired", "removed"}

\* An entry keeps its key and policy, ends for good and is pending only when it
\* is new.
EntryStep(a) ==
    /\ approval[a].state # "absent" =>
          /\ approval'[a].state # "absent"
          /\ approval'[a].key = approval[a].key /\ approval'[a].policy = approval[a].policy
    /\ approval[a].state \in Ended => approval'[a].state \in Ended
    /\ approval'[a].state = "Pending" => approval[a].state \in {"absent", "Pending"}

\* A step of somebody who holds no reservation.
Bystander(a) ==
    /\ EntryStep(a)
    /\ approval[a].state = "absent" => approval'[a].state = "absent"
    /\ \/ approval'[a].reserved = approval[a].reserved /\ approval'[a].state # "removed"
       \/ approval'[a] = approval[a]
       \/ ~approval'[a].reserved /\ approval'[a].state = "removed"

\* A step that approves nothing.
NoGrant ==
    \A a \in Approval : approval'[a].state = "Approved" => approval[a].state = "Approved"

\* The typed table, as the lemmas below use it.
LEMMA TableFacts ==
    ASSUME TypeOK
    PROVE  /\ approval \in Table
           /\ \A a \in Approval : approval[a] \in Entry
  BY DEF TypeOK, Table, Entry

\* A step that leaves the table alone is a bystander.
LEMMA UnchangedTable ==
    ASSUME TypeOK, approval' = approval
    PROVE  approval' \in Table /\ NoGrant /\ \A a \in Approval : Bystander(a)
  BY TableFacts DEF Bystander, EntryStep, Ended, NoGrant

\* So is one that clears entries.
LEMMA ClearTable ==
    ASSUME TypeOK, NEW ids \in SUBSET Entries, approval' = Discard(approval, ids)
    PROVE  approval' \in Table /\ NoGrant /\ \A a \in Approval : Bystander(a)
<1>1. ids \subseteq Approval /\ \A a \in ids : approval[a].state # "absent"
  BY DEF Entries, LocalApprovalState, Live
<1> QED
  BY <1>1, TableFacts, DiscardIsTable
  DEF Bystander, EntryStep, Ended, Entry, NoGrant

\* So is one that refreshes the table and drops entries.
LEMMA RefreshTable ==
    ASSUME TypeOK, NEW ids \in SUBSET Entries, approval' = Discard(AllRefreshed, ids)
    PROVE  approval' \in Table /\ NoGrant /\ \A a \in Approval : Bystander(a)
<1>1. ids \subseteq Approval /\ \A a \in ids : approval[a].state # "absent"
  BY DEF Entries, LocalApprovalState, Live
<1> QED
  BY <1>1, TableFacts, AllRefreshedIsTable, DiscardIsTable, RefreshedIsEntry, NoGrant
  DEF Bystander, EntryStep, Ended, Entry, Live, NoGrant

\* So is one that cancels an unconfirmed request.
LEMMA CancelTable ==
    ASSUME TypeOK, NEW a \in Approval, approval' = CancelUnconfirmed(approval, a)
    PROVE  approval' \in Table /\ NoGrant /\ \A b \in Approval : Bystander(b)
<1>1. approval' \in Table /\ \A b \in Approval \ {a} : Bystander(b)
  BY TableFacts, CancelIsTable DEF Bystander, EntryStep, Ended
<1>2. CASE approval[a].state \in LocalApprovalState
  BY <1>1, <1>2, TableFacts, CancelIsTable
  DEF Bystander, EntryStep, Ended, LocalApprovalState, Live, NoGrant
<1>3. CASE approval[a].state \notin LocalApprovalState
  BY <1>3, UnchangedTable DEF CancelUnconfirmed
<1> QED
  BY <1>2, <1>3

\* So is one that looks an entry up.
LEMMA LookTable ==
    ASSUME TypeOK, NEW a \in Approval, approval' = Looked(a)
    PROVE  approval' \in Table /\ NoGrant /\ \A b \in Approval : Bystander(b)
<1>1. approval' \in Table /\ \A b \in Approval \ {a} : Bystander(b)
  BY TableFacts, LookedIsTable DEF Bystander, EntryStep, Ended
<1>2. Bystander(a)
  BY TableFacts, LookedIsTable, RefreshedIsEntry DEF Bystander, EntryStep, Ended, Entry, LocalApprovalState, Live, NoGrant
<1>3. NoGrant
  BY LookedIsTable, RefreshedIsEntry DEF NoGrant
<1> QED
  BY <1>1, <1>2, <1>3

\* An entry that was pending or approved is decided, cancelled or consumed.
LEMMA SetTable ==
    ASSUME TypeOK, NEW a \in Approval, Refreshed(a).state \in Live,
           NEW state \in LocalApprovalState \ {"Pending"},
           approval' = [approval EXCEPT ![a].state = state]
    PROVE  approval' \in Table /\ \A b \in Approval : Bystander(b)
<1>1. approval' \in Table /\ \A b \in Approval \ {a} : Bystander(b)
  BY TableFacts, StateIsTable DEF Bystander, EntryStep, Ended
<1>2. approval[a].state \in Live
  BY RefreshedIsEntry DEF Live
<1>3. Bystander(a)
  BY <1>2, TableFacts, StateIsTable DEF Bystander, EntryStep, Ended, Entry, LocalApprovalState, Live
<1> QED
  BY <1>1, <1>3

\* A step that sets a state other than Approved grants nothing.
LEMMA SetNoGrant ==
    ASSUME TypeOK, NEW a \in Approval, NEW state \in LocalApprovalState \ {"Approved"},
           approval' = [approval EXCEPT ![a].state = state]
    PROVE  NoGrant
  BY TableFacts, StateIsTable DEF NoGrant

\* Reserving an approved entry touches that entry only and keeps it approved.
LEMMA ReserveTable ==
    ASSUME TypeOK, NEW a \in Approval, approval[a].state = "Approved", Refreshed(a).state = "Approved",
           approval' = [Looked(a) EXCEPT ![a].reserved = TRUE]
    PROVE  /\ approval' \in Table /\ NoGrant
           /\ \A b \in Approval \ {a} : Bystander(b)
           /\ EntryStep(a) /\ approval'[a].reserved /\ approval'[a].state = "Approved"
           /\ approval'[a].key = approval[a].key
<1>1. approval' \in Table /\ \A b \in Approval \ {a} : approval'[b] = approval[b]
  <2>1. Looked(a) \in Table /\ \A b \in Approval \ {a} : Looked(a)[b] = approval[b]
    BY LookedIsTable
  <2> QED
    BY <2>1 DEF Table, Entry
<1>2. approval'[a] = [Refreshed(a) EXCEPT !.reserved = TRUE]
  BY LookedIsTable DEF Table
<1>3. /\ approval'[a].reserved /\ approval'[a].state = "Approved"
      /\ approval'[a].key = approval[a].key /\ approval'[a].policy = approval[a].policy
  BY <1>2, RefreshedIsEntry DEF Entry
<1> QED
  BY <1>1, <1>3, TableFacts DEF Bystander, EntryStep, Ended, NoGrant

\* Dropping or committing a reservation leaves the entry free, if it still exists.
LEMMA ReleaseTable ==
    ASSUME TypeOK, NEW a \in Approval,
           approval' \in {Unreserved(approval, a), Consumed(approval, a)}
    PROVE  /\ approval' \in Table /\ NoGrant
           /\ \A b \in Approval \ {a} : Bystander(b)
           /\ EntryStep(a)
           /\ approval[a].state \in LocalApprovalState => ~approval'[a].reserved
           /\ approval[a].state \notin LocalApprovalState => approval' = approval
<1>1. CASE approval' = Unreserved(approval, a)
  BY <1>1, TableFacts, UnreservedIsTable, RefreshedIsEntry
  DEF NoGrant, Bystander, EntryStep, Ended, LocalApprovalState, Live
<1>2. CASE approval' = Consumed(approval, a)
  BY <1>2, TableFacts, ConsumedIsTable
  DEF NoGrant, Bystander, EntryStep, Ended, LocalApprovalState, Live, Entry
<1> QED
  BY <1>1, <1>2

\* Registering a request refreshes the table, drops what has ended and adds a
\* pending entry under a fresh id.
LEMMA InsertTable ==
    ASSUME TypeOK, NEW c \in Actor, NEW a \in Approval, Insert(c, a)
    PROVE  /\ approval' \in Table /\ NoGrant
           /\ approval[a].state = "absent"
           /\ \A b \in Approval \ {a} : Bystander(b)
           /\ EntryStep(a) /\ ~approval'[a].reserved /\ approval'[a].state = "Pending"
           /\ approval'[a].key = KeyOf[c]
<1> DEFINE dead == {b \in Entries : Refreshed(b).state \notin Live}
           table == Discard(AllRefreshed, dead)
           new == [state |-> "Pending", reserved |-> FALSE, key |-> KeyOf[c], policy |-> policy]
<1>1. dead \in SUBSET Approval /\ \A b \in dead : approval[b].state # "absent"
  BY DEF Entries, LocalApprovalState, Live
<1>2. approval[a].state = "absent" /\ approval' = [table EXCEPT ![a] = new]
  BY DEF Insert
<1>3. new \in Entry
  BY LocalCallsAssumption DEF Entry, LocalApprovalState, Live, TypeOK
<1>4. table \in Table
  BY AllRefreshedIsTable, DiscardIsTable
<1>5. approval' \in Table /\ approval'[a] = new /\ \A b \in Approval \ {a} : approval'[b] = table[b]
  BY <1>2, <1>3, <1>4 DEF Table
<1>6. \A b \in Approval \ {a} : Bystander(b)
  <2> SUFFICES ASSUME NEW b \in Approval \ {a} PROVE Bystander(b)
    OBVIOUS
  <2>1. approval[b] \in Entry /\ approval'[b] = table[b]
    BY <1>5, TableFacts
  <2>2. AllRefreshed \in Table /\ AllRefreshed[b] = Refreshed(b)
    BY AllRefreshedIsTable
  <2>3. CASE b \in dead
    BY <1>1, <2>1, <2>2, <2>3, DiscardIsTable, RefreshedIsEntry
    DEF Bystander, EntryStep, Ended
  <2>4. CASE b \notin dead
    <3>1. approval'[b] = Refreshed(b)
      BY <2>1, <2>2, <2>4, DiscardIsTable
    <3> QED
      BY <2>1, <3>1, RefreshedIsEntry DEF Bystander, EntryStep, Ended, Entry, Live
  <2> QED
    BY <2>3, <2>4
<1>7. ASSUME NEW b \in Approval, approval'[b].state = "Approved"
      PROVE  approval[b].state = "Approved"
  <2>1. b # a /\ approval'[b] = table[b]
    BY <1>5, <1>7
  <2>2. AllRefreshed \in Table /\ AllRefreshed[b] = Refreshed(b)
    BY AllRefreshedIsTable
  <2>3. Refreshed(b).state = "Approved"
    BY <1>7, <2>1, <2>2, DiscardIsTable
  <2> QED
    BY <2>3, RefreshedIsEntry
<1> QED
  BY <1>2, <1>5, <1>6, <1>7 DEF EntryStep, Ended, NoGrant

-----------------------------------------------------------------------------
(* The tasks: what each holds, and where it is.                            *)

\* The places of a task that has started, and of a call that owns a reservation.
Past == {"durable", "running", "done"}
Holding == {"waiting", "owner", "queued", "durable"}

\* A task has a basis once it is admitted, only a signature waits for its
\* request, what a task started is its basis, and it holds the coordinator
\* from the acquisition to the durable start.
ActorInv ==
    \A c \in Actor :
        /\ pc[c] = "idle" => basis[c] = None
        /\ pc[c] = "awaiting" => c \in Signer /\ basis[c].kind = "approval"
        /\ started[c] = IF pc[c] \in Past THEN basis[c] ELSE [kind |-> "not"]
        /\ pc[c] \in {"owner", "queued", "durable"} <=> coordinator = c

\* A decision in progress holds the coordinator.
CoordinatorInv == decision.step # "none" <=> coordinator = "admin"

\* The types, where a task can be, and who holds the coordinator.
Sound == TypeOK /\ RateInv /\ ActorInv /\ CoordinatorInv

\* What a task has in hand.
LEMMA BasisFacts ==
    ASSUME TypeOK, NEW c \in Actor
    PROVE  /\ basis[c] \in Basis
           /\ basis[c].kind \in {"none", "approval", "window"}
           /\ basis[c].kind = "approval" =>
                basis[c].id \in Approval /\ basis[c] = OneTime(basis[c].id)
           /\ basis[c].kind = "window" => basis[c].id \in Approval
  BY DEF TypeOK, Basis, OneTime

\* A decision in progress is about an approval and goes on step by step.
LEMMA DecisionFacts ==
    ASSUME TypeOK, decision.step # "none"
    PROVE  /\ decision.id \in Approval /\ decision.approve \in BOOLEAN
           /\ decision.window \in BOOLEAN /\ decision.step \in Steps
           /\ \A s \in Steps : [decision EXCEPT !.step = s] =
                [step |-> s, id |-> decision.id, approve |-> decision.approve,
                 window |-> decision.window]
  BY DEF TypeOK, NoDecision, Steps

\* A task that gives up frees what it reserved and touches no other entry.
LEMMA GiveBackTable ==
    ASSUME TypeOK, NEW c \in Actor, approval' = GiveBack(c)
    PROVE  /\ approval' \in Table /\ NoGrant
           /\ \A a \in Approval : EntryStep(a)
           /\ \A a \in Approval :
                c \notin Call \/ basis[c].kind # "approval" \/ a # basis[c].id => Bystander(a)
           /\ c \in Call /\ basis[c].kind = "approval" =>
                LET a == basis[c].id IN
                /\ approval[a].state \in LocalApprovalState => ~approval'[a].reserved
                /\ approval[a].state \notin LocalApprovalState => approval' = approval
<1>1. CASE basis[c].kind # "approval"
  BY <1>1, UnchangedTable DEF GiveBack, Bystander
<1>2. CASE basis[c].kind = "approval" /\ c \in Call
  BY <1>2, BasisFacts, ReleaseTable DEF GiveBack, Bystander
<1>3. CASE basis[c].kind = "approval" /\ c \notin Call
  BY <1>3, BasisFacts, CancelTable DEF GiveBack, Bystander
<1> QED
  BY <1>1, <1>2, <1>3

\* Steps in which nobody takes or returns a reservation.
LEMMA BystanderStep ==
    ASSUME Sound,
           \/ \E c \in Actor :
                \/ AdmitAllowed(c) \/ AdmitWindow(c) \/ SignConsume(c) \/ Acquire(c) \/ Submit(c)
                \/ DurableStart(c) \/ Finish(c)
           \/ Decision
           \/ Environment
           \/ UNCHANGED vars
    PROVE  /\ approval' \in Table
           /\ \A a \in Approval : Bystander(a)
           /\ NoGrant \/ Publish \/ \E a \in Approval : ApproveExternal(a)
<1> USE DEF Sound
<1>1. CASE approval' = approval
  BY <1>1, UnchangedTable
<1>2. ASSUME NEW s \in Actor, SignConsume(s)
      PROVE  approval' \in Table /\ NoGrant /\ \A a \in Approval : Bystander(a)
  <2>1. PICK a \in Approval : a = basis[s].id
    BY <1>2, BasisFacts DEF SignConsume, ActorInv
  <2>2. Refreshed(a).state = "Approved" /\ approval' = [approval EXCEPT ![a].state = "Consumed"]
    BY <1>2, <2>1 DEF SignConsume
  <2> QED
    BY <2>2, SetTable, SetNoGrant DEF Live, LocalApprovalState
<1>3. ASSUME NEW a \in Approval, NEW approve \in BOOLEAN, NEW window \in BOOLEAN,
             DecideBegin(a, approve, window)
      PROVE  approval' \in Table /\ NoGrant /\ \A b \in Approval : Bystander(b)
  BY <1>3, LookTable DEF DecideBegin
<1>4. CASE AuthorizeUnconfirmed \/ GrantWindowFailed
  <2>1. decision.id \in Approval
    BY <1>4, DecisionFacts DEF AuthorizeUnconfirmed, GrantWindowFailed
  <2> QED
    BY <1>4, <2>1, CancelTable DEF AuthorizeUnconfirmed, GrantWindowFailed
<1>5. CASE WindowAuditFailed
  <2> DEFINE a == decision.id
             table == CancelUnconfirmed(approval, a)
  <2>1. a \in Approval
    BY <1>5, DecisionFacts DEF WindowAuditFailed
  <2>2. table \in Table
    BY <2>1, TableFacts, CancelIsTable
  <2>3. approval' = Discard(table, Entries)
    BY <1>5 DEF WindowAuditFailed
  <2>4. approval' \in Table
    BY <2>2, <2>3, DiscardIsTable
  <2>5. ASSUME NEW b \in Approval PROVE Bystander(b)
    <3>1. CASE b \in Entries
      <4>1. /\ approval'[b].state = "removed" /\ ~approval'[b].reserved
            /\ approval'[b].key = table[b].key /\ approval'[b].policy = table[b].policy
        BY <2>2, <2>3, <3>1, DiscardIsTable
      <4>2. table[b].key = approval[b].key /\ table[b].policy = approval[b].policy
        BY <2>1, TableFacts, CancelIsTable
      <4>3. approval[b].state # "absent"
        BY <3>1 DEF Entries, LocalApprovalState, Live
      <4> QED
        BY <4>1, <4>2, <4>3 DEF Bystander, EntryStep, Ended
    <3>2. CASE b \notin Entries
      <4>1. approval'[b] = table[b]
        BY <2>2, <2>3, <3>2, DiscardIsTable
      <4>2. table[b] = approval[b]
        BY <2>1, <3>2, TableFacts, CancelIsTable DEF Entries, CancelUnconfirmed
      <4> QED
        BY <4>1, <4>2, TableFacts DEF Bystander, EntryStep, Ended
    <3> QED
      BY <3>1, <3>2
  <2>6. NoGrant
    <3>1. \A b \in Entries : approval'[b].state = "removed"
      BY <2>2, <2>3, DiscardIsTable DEF Entries
    <3>2. \A b \in Approval \ Entries : approval'[b] = table[b]
      BY <2>2, <2>3, DiscardIsTable
    <3>3. \A b \in Approval \ Entries : table[b] = approval[b]
      BY <2>1, TableFacts, CancelIsTable DEF Entries, CancelUnconfirmed
    <3> QED
      BY <3>1, <3>2, <3>3 DEF NoGrant, Entries
  <2> QED
    BY <2>4, <2>5, <2>6
<1>6. CASE Publish
  <2>1. PICK a \in Approval : a = decision.id
    BY <1>6, DecisionFacts DEF Publish
  <2>2. CASE approval' = CancelUnconfirmed(approval, a)
    BY <2>2, CancelTable, <1>6
  <2>3. ASSUME NEW state \in {"Approved", "Cancelled"}, Refreshed(a).state = "Pending",
               approval' = [approval EXCEPT ![a].state = state]
        PROVE  approval' \in Table /\ \A b \in Approval : Bystander(b)
    BY <2>3, SetTable DEF Live, LocalApprovalState
  <2> QED
    BY <1>6, <2>1, <2>2, <2>3 DEF Publish
<1>7. ASSUME NEW a \in Approval, ApproveExternal(a)
      PROVE  approval' \in Table /\ \A b \in Approval : Bystander(b)
  BY <1>7, SetTable DEF ApproveExternal, Live, LocalApprovalState
<1>8. ASSUME NEW a \in Approval, Cancel(a)
      PROVE  approval' \in Table /\ NoGrant /\ \A b \in Approval : Bystander(b)
  <2>1. CASE Refreshed(a).state = "Pending"
    BY <1>8, <2>1, SetTable, SetNoGrant DEF Cancel, Live, LocalApprovalState
  <2>2. CASE Refreshed(a).state # "Pending"
    BY <1>8, <2>2, LookTable DEF Cancel
  <2> QED
    BY <2>1, <2>2
<1>9. CASE LockBegin \/ Fault
  BY <1>9, ClearTable DEF LockBegin, Fault, Clear
<1>10. CASE \E c \in Actor :
              AdmitAllowed(c) \/ AdmitWindow(c) \/ Acquire(c) \/ Submit(c) \/ DurableStart(c)
              \/ Finish(c)
  BY <1>1, <1>10 DEF AdmitAllowed, AdmitWindow, Acquire, Submit, DurableStart, Finish, tableVars
<1>11. CASE Authorized \/ AuthorizeRefused \/ WindowAudited \/ GrantWindow
  BY <1>1, <1>11 DEF Authorized, AuthorizeRefused, WindowAudited, GrantWindow
<1>12. CASE LockEnd \/ Unlock \/ ActivatePolicy \/ HourPasses
  BY <1>1, <1>12 DEF LockEnd, Unlock, ActivatePolicy, HourPasses, tableVars
<1>13. CASE (\E a \in Approval : Lapse(a)) \/ (\E w \in windows : LapseWindow(w))
  BY <1>1, <1>13 DEF Lapse, LapseWindow
<1>14. CASE UNCHANGED vars
  BY <1>1, <1>14 DEF vars, tableVars
<1> QED
  BY <1>2, <1>3, <1>4, <1>5, <1>6, <1>7, <1>8, <1>9, <1>10, <1>11, <1>12, <1>13, <1>14
  DEF Decision, Environment

\* Presenting an approval: it is reserved, or only looked at.
LEMMA AdmitApprovedTable ==
    ASSUME TypeOK, NEW c \in Call, NEW a \in Approval, AdmitApproved(c, a)
    PROVE  /\ approval' \in Table /\ NoGrant
           /\ \A b \in Approval \ {a} : Bystander(b)
           /\ EntryStep(a)
           /\ \/ /\ approval[a].state = "Approved" /\ ~approval[a].reserved
                 /\ approval'[a].state = "Approved" /\ approval'[a].reserved
                 /\ approval'[a].key = KeyOf[c]
                 /\ To(c, OneTime(a))
              \/ Bystander(a) /\ UNCHANGED <<pc, basis>>
<1> DEFINE e == Refreshed(a)
<1>1. CASE Matches(c, e) /\ Reservable(e) /\ approval' = [Looked(a) EXCEPT ![a].reserved = TRUE]
           /\ To(c, OneTime(a))
  <2>1. /\ e.state = "Approved" /\ e.key = KeyOf[c] /\ ~e.reserved
        /\ approval' = [Looked(a) EXCEPT ![a].reserved = TRUE]
    BY <1>1 DEF Matches, Reservable
  <2>2. approval[a].state = "Approved" /\ approval[a].key = KeyOf[c] /\ ~approval[a].reserved
    BY <2>1, RefreshedIsEntry
  <2> HIDE DEF e
  <2> QED
    BY <1>1, <2>1, <2>2, ReserveTable DEF e
<1>2. CASE approval' = Looked(a) /\ UNCHANGED <<pc, basis>>
  BY <1>2, LookTable DEF Bystander
<1> QED
  BY <1>1, <1>2 DEF AdmitApproved

\* Registering a request: an entry for it exists, none is free, or it gets a
\* fresh one, which a signature then waits for.
LEMMA AdmitRegisterTable ==
    ASSUME TypeOK, NEW c \in Actor, AdmitRegister(c)
    PROVE  /\ approval' \in Table /\ NoGrant
           /\ \/ (\A a \in Approval : Bystander(a)) /\ UNCHANGED <<pc, basis>>
              \/ \E a \in Approval :
                   /\ approval[a].state = "absent"
                   /\ \A b \in Approval \ {a} : Bystander(b)
                   /\ EntryStep(a)
                   /\ approval'[a].state = "Pending" /\ ~approval'[a].reserved
                   /\ approval'[a].key = KeyOf[c]
                   /\ IF c \in Call THEN UNCHANGED <<pc, basis>>
                      ELSE /\ pc' = [pc EXCEPT ![c] = "awaiting"]
                           /\ basis' = [basis EXCEPT ![c] = OneTime(a)]
<1>1. CASE approval' = AllRefreshed /\ UNCHANGED <<pc, basis>>
  <2>1. Discard(AllRefreshed, {}) = AllRefreshed
    BY AllRefreshedIsTable DEF Discard, Table
  <2> QED
    BY <1>1, <2>1, RefreshTable
<1>2. CASE /\ approval' = Discard(AllRefreshed, {b \in Entries : Refreshed(b).state \notin Live})
           /\ UNCHANGED <<pc, basis>>
  BY <1>2, RefreshTable
<1>3. ASSUME NEW a \in Approval, Insert(c, a),
             IF c \in Call THEN UNCHANGED <<pc, basis>>
             ELSE /\ pc' = [pc EXCEPT ![c] = "awaiting"]
                  /\ basis' = [basis EXCEPT ![c] = OneTime(a)]
      PROVE  /\ approval' \in Table /\ NoGrant
             /\ approval[a].state = "absent"
             /\ \A b \in Approval \ {a} : Bystander(b)
             /\ EntryStep(a)
             /\ approval'[a].state = "Pending" /\ ~approval'[a].reserved
             /\ approval'[a].key = KeyOf[c]
  BY <1>3, InsertTable
<1> QED
  BY <1>1, <1>2, <1>3 DEF AdmitRegister

\* The audit worker's commit consumes the reservation of the call it commits
\* and touches no other entry.
LEMMA CommitTable ==
    ASSUME TypeOK, NEW c \in Actor, CommitAdmission(c)
    PROVE  /\ approval' \in Table /\ NoGrant
           /\ \A a \in Approval : EntryStep(a)
           /\ \A a \in Approval :
                c \notin Call \/ basis[c].kind # "approval" \/ a # basis[c].id => Bystander(a)
           /\ c \in Call /\ basis[c].kind = "approval" =>
                approval' = Consumed(approval, basis[c].id)
<1>1. CASE c \in Call /\ basis[c].kind = "approval"
  BY <1>1, BasisFacts, ReleaseTable DEF CommitAdmission, Bystander
<1>2. CASE ~(c \in Call /\ basis[c].kind = "approval")
  <2>1. approval' = approval
    BY <1>2 DEF CommitAdmission
  <2> QED
    BY <1>2, <2>1, UnchangedTable DEF Bystander
<1> QED
  BY <1>1, <1>2

\* Every step keeps the table and moves its entries one way.
LEMMA TableStep ==
    ASSUME Sound, [Next]_vars
    PROVE  approval' \in Table /\ \A a \in Approval : EntryStep(a)
<1> USE DEF Sound
<1>1. ASSUME NEW c \in Actor, \/ AcquireTimeout(c) \/ Refuse(c) \/ SignGiveUp(c)
                              \/ RejectStart(c)
      PROVE  approval' \in Table /\ \A a \in Approval : EntryStep(a)
  <2>1. approval' = approval \/ approval' = GiveBack(c)
    BY <1>1 DEF AcquireTimeout, Refuse, SignGiveUp, RejectStart
  <2> QED
    BY <2>1, UnchangedTable, GiveBackTable DEF Bystander
<1>2. ASSUME NEW c \in Actor, NEW a \in Approval, AdmitApproved(c, a)
      PROVE  approval' \in Table /\ \A b \in Approval : EntryStep(b)
  <2>1. c \in Call
    BY <1>2 DEF AdmitApproved
  <2> QED
    BY <1>2, <2>1, AdmitApprovedTable DEF Bystander
<1>3. ASSUME NEW c \in Actor, AdmitRegister(c)
      PROVE  approval' \in Table /\ \A a \in Approval : EntryStep(a)
  BY <1>3, AdmitRegisterTable DEF Bystander
<1>4. ASSUME NEW c \in Actor, CommitAdmission(c)
      PROVE  approval' \in Table /\ \A a \in Approval : EntryStep(a)
  BY <1>4, CommitTable
<1>5. CASE \/ \E c \in Actor :
                \/ AdmitAllowed(c) \/ AdmitWindow(c) \/ SignConsume(c) \/ Acquire(c) \/ Submit(c)
                \/ DurableStart(c) \/ Finish(c)
           \/ Decision
           \/ Environment
           \/ UNCHANGED vars
  BY <1>5, BystanderStep DEF Bystander
<1> QED
  BY <1>1, <1>2, <1>3, <1>4, <1>5 DEF Next, Admission, Execution

-----------------------------------------------------------------------------
(* Types, and where each task is.                                          *)

\* The parts of the type invariant other than the table.
RestTyped ==
    /\ lapsed \subseteq Approval /\ windowLapsed \subseteq Approval
    /\ windows \subseteq [policy : 0..MaxPolicy, rule : Rule, id : Approval, epoch : 0..MaxLocks]
    /\ rate \in [start : 0..MaxHours, count : 0..MaxRequests, elapsed : BOOLEAN]
    /\ RateInv
    /\ pc \in [Actor -> ActorPc]
    /\ read \in [Actor -> 0..MaxPolicy]
    /\ basis \in [Actor -> Basis]
    /\ slot \in [Actor -> 0..MaxHours]
    /\ started \in [Actor -> Basis \cup {[kind |-> "not"]}]
    /\ policy \in 0..MaxPolicy
    /\ phase \in {"Locked", "Running", "Draining"}
    /\ closed \in BOOLEAN
    /\ coordinator \in {"free", "admin", "lock"} \cup Actor
    /\ decision \in {NoDecision} \cup
           [step : Steps, id : Approval, approve : BOOLEAN, window : BOOLEAN]
    /\ evidence \in [Approval -> SUBSET {"approved", "rejected", "window", "external",
                                         "unconfirmed"}]
    /\ locks \in 0..MaxLocks

\* The table and the rest make up the types.
LEMMA TypeParts ==
    /\ TypeOK /\ RateInv <=> approval \in Table /\ RestTyped
    /\ (TypeOK /\ RateInv <=> approval \in Table /\ RestTyped)'
  BY DEF TypeOK, RestTyped, Table, Entry, RateInv

\* A task that fails is idle again.
LEMMA FailTyped ==
    ASSUME TypeOK, NEW c \in Actor, Fail(c)
    PROVE  pc' \in [Actor -> ActorPc] /\ basis' \in [Actor -> Basis]
  BY DEF TypeOK, Fail, ActorPc, Basis, None

\* Admission keeps the rest typed.
LEMMA AdmissionTyped ==
    ASSUME TypeOK, RestTyped, ActorInv, NEW c \in Actor, Admission(c)
    PROVE  RestTyped'
<1> USE DEF RestTyped, tableVars, runtimeVars, adminVars, RateInv
<1>1. CASE AdmitAllowed(c)
  BY <1>1 DEF AdmitAllowed, Begin, To, ActorPc, Basis, None
<1>2. CASE AdmitWindow(c)
  <2>1. PICK w \in windows : To(c, Window(w))
    BY <1>2 DEF AdmitWindow, WindowsFor
  <2>2. Window(w) \in Basis
    BY <2>1 DEF Window, Basis
  <2> QED
    BY <1>2, <2>1, <2>2 DEF AdmitWindow, Begin, To, ActorPc
<1>3. CASE AdmitRegister(c)
  <2>1. \/ UNCHANGED <<pc, basis>>
        \/ \E a \in Approval : /\ pc' = [pc EXCEPT ![c] = "awaiting"]
                               /\ basis' = [basis EXCEPT ![c] = OneTime(a)]
    BY <1>3, Zenon DEF AdmitRegister
  <2>2. "awaiting" \in ActorPc /\ \A a \in Approval : OneTime(a) \in Basis
    BY DEF ActorPc, Basis, OneTime
  <2>3. pc \in [Actor -> ActorPc] /\ basis \in [Actor -> Basis]
    OBVIOUS
  <2>4. pc' \in [Actor -> ActorPc] /\ basis' \in [Actor -> Basis]
    BY <2>1, <2>2, <2>3
  <2> QED
    BY <1>3, <2>4 DEF AdmitRegister, Begin
<1>4. ASSUME NEW a \in Approval, AdmitApproved(c, a) PROVE RestTyped'
  <2>1. pc' \in [Actor -> ActorPc] /\ basis' \in [Actor -> Basis]
    BY <1>4 DEF AdmitApproved, ActorPc, Basis, OneTime, To
  <2> QED
    BY <1>4, <2>1 DEF AdmitApproved, Begin
<1>5. CASE SignConsume(c)
  BY <1>5 DEF SignConsume, ActorPc
<1>6. CASE SignGiveUp(c) \/ AcquireTimeout(c)
  BY <1>6, FailTyped DEF SignGiveUp, AcquireTimeout
<1>7. CASE Refuse(c)
  BY <1>7, FailTyped DEF Refuse
<1>8. CASE Acquire(c)
  BY <1>8 DEF Acquire, ActorPc
<1>9. CASE Submit(c)
  <2>1. pc' \in [Actor -> ActorPc]
    BY <1>9 DEF Submit, ActorPc
  <2>2. /\ CurrentRate \in [start : 0..MaxHours, count : 0..MaxRequests, elapsed : BOOLEAN]
        /\ ~CurrentRate.elapsed
    BY LocalCallsAssumption DEF CurrentRate
  <2>3. CASE c \in Call
    <3>1. CurrentRate.count < MaxRequests
      BY <1>9, <2>3 DEF Submit, Admissible
    <3>2. rate' = [CurrentRate EXCEPT !.count = @ + 1] /\ slot' = [slot EXCEPT ![c] = CurrentRate.start]
      BY <1>9, <2>3 DEF Submit
    <3>3. /\ rate' \in [start : 0..MaxHours, count : 0..MaxRequests, elapsed : BOOLEAN]
          /\ ~rate'.elapsed
      BY <2>2, <3>1, <3>2, LocalCallsAssumption
    <3>4. slot' \in [Actor -> 0..MaxHours]
      BY <2>2, <3>2
    <3> QED
      BY <1>9, <2>1, <3>3, <3>4 DEF Submit
  <2>4. CASE c \notin Call
    BY <1>9, <2>1, <2>4 DEF Submit
  <2> QED
    BY <2>3, <2>4
<1> QED
  BY <1>1, <1>2, <1>3, <1>4, <1>5, <1>6, <1>7, <1>8, <1>9 DEF Admission

\* So does execution,
LEMMA ExecutionTyped ==
    ASSUME TypeOK, RestTyped, NEW c \in Actor, Execution(c)
    PROVE  RestTyped'
<1> USE DEF RestTyped, tableVars, runtimeVars, adminVars, RateInv
<1>1. CASE DurableStart(c)
  BY <1>1 DEF DurableStart, ActorPc
<1>2. CASE CommitAdmission(c)
  BY <1>2 DEF CommitAdmission, ActorPc
<1>3. CASE RejectStart(c)
  <2>1. pc' \in [Actor -> ActorPc] /\ basis' \in [Actor -> Basis]
    BY <1>3, FailTyped DEF RejectStart
  <2>2. /\ rate' \in [start : 0..MaxHours, count : 0..MaxRequests, elapsed : BOOLEAN]
        /\ rate'.start = rate.start /\ rate'.elapsed = rate.elapsed
    BY <1>3, LocalCallsAssumption DEF RejectStart, RateReturned
  <2>3. closed' \in BOOLEAN
    BY <1>3 DEF RejectStart
  <2>4. RateInv'
    BY <2>2
  <2> QED
    BY <1>3, <2>1, <2>2, <2>3, <2>4 DEF RejectStart
<1>4. CASE Finish(c)
  BY <1>4 DEF Finish, ActorPc
<1> QED
  BY <1>1, <1>2, <1>3, <1>4 DEF Execution

\* A record adds to the evidence of one approval.
LEMMA RecordTyped ==
    ASSUME RestTyped, NEW a \in Approval,
           NEW what \in SUBSET {"approved", "rejected", "window", "external", "unconfirmed"},
           Record(a, what)
    PROVE  /\ evidence' \in [Approval -> SUBSET {"approved", "rejected", "window", "external",
                                                 "unconfirmed"}]
           /\ evidence'[a] = evidence[a] \cup what
           /\ \A b \in Approval \ {a} : evidence'[b] = evidence[b]
  BY DEF RestTyped, Record

\* so does a decision,
LEMMA DecisionTyped ==
    ASSUME TypeOK, RestTyped, Decision
    PROVE  RestTyped'
<1> USE DEF RestTyped, tableVars, runtimeVars, adminVars, actorVars, RateInv
<1>1. ASSUME NEW a \in Approval, NEW approve \in BOOLEAN, NEW window \in BOOLEAN,
             DecideBegin(a, approve, window)
      PROVE  RestTyped'
  BY <1>1 DEF DecideBegin, Steps
<1>2. CASE Authorized
  BY <1>2, RecordTyped, DecisionFacts DEF Authorized, Undecided, Steps
<1>3. CASE AuthorizeUnconfirmed
  <2>1. PICK durable \in {{}, {IF decision.approve THEN "approved" ELSE "rejected"}} :
           Record(decision.id, durable \cup {"unconfirmed"})
    BY <1>3 DEF AuthorizeUnconfirmed
  <2>2. decision.id \in Approval
    BY <1>3, DecisionFacts DEF AuthorizeUnconfirmed
  <2>3. evidence' \in [Approval -> SUBSET {"approved", "rejected", "window", "external",
                                           "unconfirmed"}]
    BY <2>1, <2>2, RecordTyped
  <2> QED
    BY <1>3, <2>3 DEF AuthorizeUnconfirmed, DecideEnd, Undecided
<1>4. CASE AuthorizeRefused
  BY <1>4 DEF AuthorizeRefused, DecideEnd, Undecided
<1>5. CASE WindowAudited
  BY <1>5, RecordTyped, DecisionFacts DEF WindowAudited, Undecided, Steps
<1>6. CASE WindowAuditFailed
  <2>1. evidence' \in [Approval -> SUBSET {"approved", "rejected", "window", "external",
                                           "unconfirmed"}]
    BY <1>6, RecordTyped, DecisionFacts DEF WindowAuditFailed
  <2> QED
    BY <1>6, <2>1 DEF WindowAuditFailed, DecideEnd
<1>7. CASE Publish
  <2>1. decision.id \in Approval /\ [decision EXCEPT !.step = "grant"] \in
           [step : Steps, id : Approval, approve : BOOLEAN, window : BOOLEAN]
    BY <1>7, DecisionFacts DEF Publish, Steps
  <2>2. evidence' \in [Approval -> SUBSET {"approved", "rejected", "window", "external",
                                           "unconfirmed"}]
    BY <1>7, <2>1, RecordTyped DEF Publish
  <2>3. /\ decision' \in {NoDecision, [decision EXCEPT !.step = "grant"]}
        /\ coordinator' \in {coordinator, "free"}
    BY <1>7 DEF Publish, DecideEnd
  <2> QED
    BY <1>7, <2>1, <2>2, <2>3 DEF Publish, Undecided
<1>8. CASE GrantWindow
  <2> DEFINE a == decision.id
             w == [policy |-> approval[a].policy, rule |-> RuleOf[approval[a].key],
                   id |-> a, epoch |-> locks]
  <2>1. a \in Approval
    BY <1>8, DecisionFacts DEF GrantWindow
  <2>2. w \in [policy : 0..MaxPolicy, rule : Rule, id : Approval, epoch : 0..MaxLocks]
    BY <2>1, TableFacts DEF Entry, Rule
  <2>3. windows' = {v \in windows : v.policy # w.policy \/ v.rule # w.rule} \cup {w}
    BY <1>8 DEF GrantWindow
  <2> HIDE DEF w
  <2>4. windows' \subseteq [policy : 0..MaxPolicy, rule : Rule, id : Approval, epoch : 0..MaxLocks]
    BY <2>2, <2>3
  <2> QED
    BY <1>8, <2>4 DEF GrantWindow, DecideEnd
<1>9. CASE GrantWindowFailed
  <2>1. evidence' \in [Approval -> SUBSET {"approved", "rejected", "window", "external",
                                           "unconfirmed"}]
    BY <1>9, RecordTyped, DecisionFacts DEF GrantWindowFailed
  <2> QED
    BY <1>9, <2>1 DEF GrantWindowFailed, DecideEnd, Undecided
<1>10. ASSUME NEW a \in Approval, ApproveExternal(a) PROVE RestTyped'
  BY <1>10, RecordTyped DEF ApproveExternal
<1>11. ASSUME NEW a \in Approval, Cancel(a) PROVE RestTyped'
  BY <1>11 DEF Cancel
<1> QED
  BY <1>1, <1>2, <1>3, <1>4, <1>5, <1>6, <1>7, <1>8, <1>9, <1>10, <1>11 DEF Decision

\* and so do locks, policies, faults and time.
LEMMA EnvironmentTyped ==
    ASSUME TypeOK, RestTyped, Environment
    PROVE  RestTyped'
<1> USE LocalCallsAssumption
    DEF RestTyped, tableVars, runtimeVars, adminVars, actorVars, RateInv
<1>1. CASE LockBegin
  BY <1>1 DEF LockBegin, Clear
<1>2. CASE LockEnd \/ Unlock
  BY <1>2 DEF LockEnd, Unlock
<1>3. CASE ActivatePolicy
  BY <1>3 DEF ActivatePolicy
<1>4. CASE Fault
  BY <1>4 DEF Fault, Clear
<1>5. CASE HourPasses
  BY <1>5 DEF HourPasses
<1>6. ASSUME NEW a \in Approval, Lapse(a) PROVE RestTyped'
  BY <1>6 DEF Lapse
<1>7. ASSUME NEW w \in windows, LapseWindow(w) PROVE RestTyped'
  BY <1>7 DEF LapseWindow
<1> QED
  BY <1>1, <1>2, <1>3, <1>4, <1>5, <1>6, <1>7 DEF Environment

\* A task that fails, from a place where it has started nothing.
LEMMA FailActor ==
    ASSUME Sound, NEW c \in Actor, Fail(c), pc[c] \notin Past, started' = started,
           \/ pc[c] \notin {"owner", "queued"} /\ coordinator' = coordinator
           \/ pc[c] \in {"owner", "queued"} /\ coordinator' = "free"
    PROVE  ActorInv'
<1> USE DEF Sound
<1>1. pc' = [pc EXCEPT ![c] = "idle"] /\ basis' = [basis EXCEPT ![c] = None]
  BY DEF Fail
<1>2. c # "free"
  BY LocalCallsAssumption
<1>3. pc[c] \in {"owner", "queued"} => coordinator = c
  BY DEF ActorInv
<1>4. ASSUME NEW d \in Actor \ {c} PROVE pc'[d] = pc[d] /\ basis'[d] = basis[d]
  BY <1>1 DEF TypeOK
<1>5. pc'[c] = "idle" /\ basis'[c] = None
  BY <1>1 DEF TypeOK
<1>6. started[c] = [kind |-> "not"]
  BY DEF ActorInv
<1>7. coordinator' # c
  BY <1>2 DEF ActorInv, Past
<1>8. \A d \in Actor \ {c} : coordinator' = d <=> coordinator = d
  BY <1>3, LocalCallsAssumption
<1> QED
  BY <1>4, <1>5, <1>6, <1>7, <1>8 DEF ActorInv, Past

\* A task that goes on, without the coordinator or with it.
LEMMA MoveActor ==
    ASSUME Sound, NEW c \in Actor, NEW next \in ActorPc \ {"idle", "awaiting"},
           pc[c] \notin Past \/ next \in Past,
           pc' = [pc EXCEPT ![c] = next],
           \A d \in Actor \ {c} : basis'[d] = basis[d] /\ started'[d] = started[d],
           started'[c] = IF next \in Past THEN basis'[c] ELSE [kind |-> "not"],
           \A d \in Actor \ {c} : coordinator' = d <=> coordinator = d,
           next \in {"owner", "queued", "durable"} <=> coordinator' = c
    PROVE  ActorInv'
<1>1. \A d \in Actor \ {c} : pc'[d] = pc[d]
  BY DEF Sound, TypeOK
<1>2. pc'[c] = next
  BY DEF Sound, TypeOK
<1> QED
  BY <1>1, <1>2 DEF Sound, ActorInv

\* A step in which no task moves.
LEMMA SameActor ==
    ASSUME ActorInv, UNCHANGED <<pc, basis, started>>,
           \A d \in Actor : coordinator' = d <=> coordinator = d
    PROVE  ActorInv'
  BY DEF ActorInv

\* Admission keeps every task where it may be,
LEMMA AdmissionActor ==
    ASSUME Sound, NEW c \in Actor, Admission(c)
    PROVE  ActorInv' /\ CoordinatorInv'
<1> USE DEF tableVars, runtimeVars, adminVars
<1>0. /\ c \notin {"free", "admin", "lock"}
      /\ pc[c] \in ActorPc
      /\ pc[c] \in {"idle", "awaiting", "waiting", "owner"} => started[c] = [kind |-> "not"]
      /\ pc[c] \in {"idle", "awaiting", "waiting"} => coordinator # c
      /\ pc[c] = "owner" => coordinator = c
      /\ pc[c] = "idle" => basis[c] = None
  BY LocalCallsAssumption DEF Sound, ActorInv, TypeOK, Past
<1>1. ASSUME pc[c] = "idle", NEW b, To(c, b), UNCHANGED <<started, coordinator, decision>>
      PROVE  ActorInv' /\ CoordinatorInv'
  <2>1. ActorInv'
    <3>1. pc' = [pc EXCEPT ![c] = "waiting"] /\ basis' = [basis EXCEPT ![c] = b]
      BY <1>1 DEF To
    <3>2. \A d \in Actor \ {c} : basis'[d] = basis[d]
      BY <3>1 DEF Sound, TypeOK
    <3> QED
      BY <1>0, <1>1, <3>1, <3>2, MoveActor DEF ActorPc, Past
  <2> QED
    BY <1>1, <2>1 DEF Sound, CoordinatorInv
<1>2. CASE AdmitAllowed(c)
  BY <1>1, <1>2 DEF AdmitAllowed, Begin
<1>3. CASE AdmitWindow(c)
  BY <1>1, <1>3 DEF AdmitWindow, Begin
<1>4. ASSUME NEW a \in Approval, AdmitApproved(c, a) PROVE ActorInv' /\ CoordinatorInv'
  <2>1. CASE To(c, OneTime(a))
    BY <1>1, <1>4, <2>1 DEF AdmitApproved, Begin
  <2>2. CASE UNCHANGED <<pc, basis>>
    BY <1>4, <2>2, SameActor DEF AdmitApproved, Sound, CoordinatorInv
  <2> QED
    BY <1>4, <2>1, <2>2 DEF AdmitApproved
<1>5. CASE AdmitRegister(c)
  <2>1. UNCHANGED <<started, coordinator, decision>> /\ pc[c] = "idle"
    BY <1>5 DEF AdmitRegister, Begin
  <2>2. CASE UNCHANGED <<pc, basis>>
    BY <2>1, <2>2, SameActor DEF Sound, CoordinatorInv
  <2>3. ASSUME NEW a \in Approval, c \notin Call, pc' = [pc EXCEPT ![c] = "awaiting"],
               basis' = [basis EXCEPT ![c] = OneTime(a)]
        PROVE  ActorInv' /\ CoordinatorInv'
    <3>1. pc'[c] = "awaiting" /\ basis'[c].kind = "approval" /\ c \in Signer
      BY <2>3 DEF Sound, TypeOK, OneTime, Actor
    <3>2. \A d \in Actor \ {c} : pc'[d] = pc[d] /\ basis'[d] = basis[d]
      BY <2>3 DEF Sound, TypeOK
    <3> QED
      BY <1>0, <2>1, <3>1, <3>2 DEF Sound, ActorInv, CoordinatorInv, Past
  <2> QED
    BY <1>5, <2>2, <2>3, AdmitRegisterTable DEF Sound
<1>6. CASE SignConsume(c)
  <2>1. /\ pc' = [pc EXCEPT ![c] = "waiting"] /\ pc[c] = "awaiting"
        /\ UNCHANGED <<basis, started, coordinator, decision>>
    BY <1>6 DEF SignConsume
  <2> QED
    BY <1>0, <2>1, MoveActor DEF Sound, CoordinatorInv, ActorPc, Past
<1>7. CASE SignGiveUp(c) \/ AcquireTimeout(c)
  BY <1>7, FailActor DEF SignGiveUp, AcquireTimeout, Sound, CoordinatorInv, Past
<1>8. CASE Refuse(c)
  <2>1. coordinator = c /\ coordinator' = "free" /\ decision' = decision
    BY <1>0, <1>8 DEF Refuse
  <2>2. CoordinatorInv'
    BY <1>0, <2>1 DEF Sound, CoordinatorInv
  <2> QED
    BY <1>8, <2>1, <2>2, FailActor DEF Refuse, Past
<1>9. CASE Acquire(c)
  <2>1. /\ pc' = [pc EXCEPT ![c] = "owner"] /\ pc[c] = "waiting"
        /\ coordinator = "free" /\ coordinator' = c
        /\ UNCHANGED <<basis, started, decision>>
    BY <1>9 DEF Acquire
  <2>2. \A d \in Actor \ {c} : coordinator' = d <=> coordinator = d
    BY <2>1, LocalCallsAssumption
  <2> QED
    BY <1>0, <2>1, <2>2, MoveActor DEF Sound, CoordinatorInv, ActorPc, Past
<1>10. CASE Submit(c)
  <2>1. /\ pc' = [pc EXCEPT ![c] = "queued"] /\ pc[c] = "owner"
        /\ UNCHANGED <<basis, started, decision, coordinator>>
    BY <1>10 DEF Submit
  <2> QED
    BY <1>0, <2>1, MoveActor DEF Sound, CoordinatorInv, ActorPc, Past
<1> QED
  BY <1>2, <1>3, <1>4, <1>5, <1>6, <1>7, <1>8, <1>9, <1>10 DEF Admission

\* so does execution,
LEMMA ExecutionActor ==
    ASSUME Sound, NEW c \in Actor, Execution(c)
    PROVE  ActorInv' /\ CoordinatorInv'
<1> USE DEF tableVars, runtimeVars, adminVars
<1>0. /\ c \notin {"free", "admin", "lock"}
      /\ pc[c] = "queued" => started[c] = [kind |-> "not"]
      /\ pc[c] \in {"queued", "durable"} => coordinator = c
      /\ pc[c] \in {"durable", "running"} => started[c] = basis[c]
      /\ pc[c] = "running" => coordinator # c
  BY LocalCallsAssumption DEF Sound, ActorInv, TypeOK, Past
<1>1. CASE DurableStart(c)
  <2>1. /\ pc' = [pc EXCEPT ![c] = "durable"] /\ pc[c] = "queued"
        /\ started' = [started EXCEPT ![c] = basis[c]]
        /\ UNCHANGED <<basis, decision, coordinator>>
    BY <1>1 DEF DurableStart
  <2>2. started'[c] = basis[c] /\ \A d \in Actor \ {c} : started'[d] = started[d]
    BY <2>1 DEF Sound, TypeOK
  <2> QED
    BY <1>0, <2>1, <2>2, MoveActor DEF Sound, CoordinatorInv, ActorPc, Past
<1>2. CASE CommitAdmission(c)
  <2>1. /\ pc' = [pc EXCEPT ![c] = "running"] /\ pc[c] = "durable"
        /\ coordinator = c /\ coordinator' = "free"
        /\ UNCHANGED <<basis, decision, started>>
    BY <1>0, <1>2 DEF CommitAdmission
  <2>2. \A d \in Actor \ {c} : coordinator' = d <=> coordinator = d
    BY <2>1, LocalCallsAssumption
  <2>3. ActorInv'
    BY <1>0, <2>1, <2>2, MoveActor DEF ActorPc, Past
  <2> QED
    BY <1>0, <2>1, <2>3 DEF Sound, CoordinatorInv
<1>3. CASE RejectStart(c)
  <2>1. coordinator = c /\ coordinator' = "free" /\ decision' = decision
    BY <1>0, <1>3 DEF RejectStart
  <2>2. CoordinatorInv'
    BY <1>0, <2>1 DEF Sound, CoordinatorInv
  <2> QED
    BY <1>3, <2>1, <2>2, FailActor DEF RejectStart, Past
<1>4. CASE Finish(c)
  <2>1. /\ pc' = [pc EXCEPT ![c] = "done"] /\ pc[c] = "running"
        /\ UNCHANGED <<basis, decision, started, coordinator>>
    BY <1>4 DEF Finish
  <2> QED
    BY <1>0, <2>1, MoveActor DEF Sound, CoordinatorInv, ActorPc, Past
<1> QED
  BY <1>1, <1>2, <1>3, <1>4 DEF Execution

\* and so do decisions and the environment.
LEMMA OtherActor ==
    ASSUME Sound, Decision \/ Environment
    PROVE  ActorInv' /\ CoordinatorInv'
<1> USE LocalCallsAssumption DEF tableVars, runtimeVars, adminVars, actorVars, Undecided
<1>1. ASSUME UNCHANGED <<pc, basis, started>>,
             /\ coordinator \in {"free", "admin", "lock"}
             /\ coordinator' \in {"free", "admin", "lock"}
             \/ coordinator' = coordinator
      PROVE  ActorInv'
  BY <1>1, SameActor DEF Sound
<1>2. ASSUME NEW a \in Approval, NEW approve \in BOOLEAN, NEW window \in BOOLEAN,
             DecideBegin(a, approve, window)
      PROVE  ActorInv' /\ CoordinatorInv'
  BY <1>1, <1>2 DEF DecideBegin, Sound, CoordinatorInv
<1>3. CASE Authorized
  <2>1. decision.step = "authorize" /\ decision' = [decision EXCEPT !.step = IF decision.window THEN "window" ELSE "publish"]
        /\ UNCHANGED <<pc, basis, started, coordinator>>
    BY <1>3 DEF Authorized
  <2>2. decision'.step # "none"
    BY <2>1, DecisionFacts DEF Sound, Steps
  <2> QED
    BY <1>1, <2>1, <2>2 DEF Sound, CoordinatorInv
<1>4. ASSUME decision.step # "none", DecideEnd, UNCHANGED <<pc, basis, started>>
      PROVE  ActorInv' /\ CoordinatorInv'
  BY <1>1, <1>4 DEF DecideEnd, NoDecision, Sound, CoordinatorInv
<1>5. CASE AuthorizeUnconfirmed \/ AuthorizeRefused
  BY <1>4, <1>5 DEF AuthorizeUnconfirmed, AuthorizeRefused
<1>6. CASE WindowAudited
  <2>1. decision.step = "window" /\ decision' = [decision EXCEPT !.step = "publish"]
        /\ UNCHANGED <<pc, basis, started, coordinator>>
    BY <1>6 DEF WindowAudited
  <2>2. decision'.step # "none"
    BY <2>1, DecisionFacts DEF Sound, Steps
  <2> QED
    BY <1>1, <2>1, <2>2 DEF Sound, CoordinatorInv
<1>7. CASE WindowAuditFailed \/ GrantWindow \/ GrantWindowFailed
  BY <1>4, <1>7 DEF WindowAuditFailed, GrantWindow, GrantWindowFailed
<1>8. CASE Publish
  <2>1. decision.step = "publish" /\ UNCHANGED <<pc, basis, started>>
    BY <1>8 DEF Publish
  <2>2. CASE DecideEnd
    BY <1>4, <2>1, <2>2
  <2>3. CASE decision' = [decision EXCEPT !.step = "grant"] /\ coordinator' = coordinator
    <3>1. decision'.step # "none"
      BY <2>1, <2>3, DecisionFacts DEF Sound, Steps
    <3> QED
      BY <1>1, <2>1, <2>3, <3>1 DEF Sound, CoordinatorInv
  <2> QED
    BY <1>8, <2>2, <2>3 DEF Publish
<1>9. ASSUME NEW a \in Approval, ApproveExternal(a) \/ Cancel(a)
      PROVE  ActorInv' /\ CoordinatorInv'
  BY <1>1, <1>9 DEF ApproveExternal, Cancel, Sound, CoordinatorInv
<1>10. CASE LockBegin \/ LockEnd
  <2>1. /\ UNCHANGED <<pc, basis, started, decision>>
        /\ coordinator \in {"free", "lock"} /\ coordinator' \in {"free", "lock"}
    BY <1>10 DEF LockBegin, LockEnd
  <2> QED
    BY <1>1, <2>1 DEF Sound, CoordinatorInv
<1>11. CASE Unlock \/ ActivatePolicy \/ Fault \/ HourPasses
  BY <1>1, <1>11 DEF Unlock, ActivatePolicy, Fault, HourPasses, Sound, CoordinatorInv
<1>12. CASE (\E a \in Approval : Lapse(a)) \/ (\E w \in windows : LapseWindow(w))
  BY <1>1, <1>12 DEF Lapse, LapseWindow, Sound, CoordinatorInv
<1> QED
  BY <1>2, <1>3, <1>5, <1>6, <1>7, <1>8, <1>9, <1>10, <1>11, <1>12
  DEF Decision, Environment

\* Every step keeps Sound.
LEMMA SoundStep ==
    ASSUME Sound, [Next]_vars
    PROVE  Sound'
<1>1. RestTyped
  BY TypeParts DEF Sound
<1>2. CASE UNCHANGED vars
  <2>1. RestTyped' /\ ActorInv' /\ CoordinatorInv'
    BY <1>1, <1>2 DEF Sound, RestTyped, RateInv, ActorInv, CoordinatorInv, vars, tableVars, actorVars,
       runtimeVars, adminVars
  <2> QED
    BY <2>1, TableStep, TypeParts DEF Sound
<1>3. CASE Next
  <2>1. RestTyped'
    BY <1>1, <1>3, AdmissionTyped, ExecutionTyped, DecisionTyped, EnvironmentTyped
    DEF Next, Sound
  <2>2. ActorInv' /\ CoordinatorInv'
    BY <1>3, AdmissionActor, ExecutionActor, OtherActor DEF Next
  <2> QED
    BY <2>1, <2>2, TableStep, TypeParts DEF Sound
<1> QED
  BY <1>2, <1>3

\* Sound holds at first.
LEMMA InitSound == Init => Sound
<1> SUFFICES ASSUME Init PROVE Sound
  OBVIOUS
<1>1. approval \in Table
  <2>1. PICK k \in Key : k = CHOOSE l \in Key : TRUE
    BY LocalCallsAssumption
  <2>2. approval = [a \in Approval |-> [state |-> "absent", reserved |-> FALSE,
                                        key |-> k, policy |-> 0]]
    BY <2>1 DEF Init
  <2> QED
    BY <2>2, LocalCallsAssumption DEF Table, Entry
<1>2. TypeOK /\ RateInv
  <2>1. None \in Basis
    BY DEF None, Basis
  <2>2. /\ basis \in [Actor -> Basis]
        /\ started \in [Actor -> Basis \cup {[kind |-> "not"]}]
    BY <2>1 DEF Init
  <2>3. /\ pc \in [Actor -> ActorPc]
        /\ read \in [Actor -> 0..MaxPolicy]
        /\ slot \in [Actor -> 0..MaxHours]
    BY LocalCallsAssumption DEF Init, ActorPc
  <2>4. rate \in [start : 0..MaxHours, count : 0..MaxRequests, elapsed : BOOLEAN] /\ RateInv
    BY LocalCallsAssumption DEF Init, RateInv
  <2>5. evidence \in [Approval -> SUBSET {"approved", "rejected", "window", "external",
                                          "unconfirmed"}]
    BY DEF Init
  <2>6. /\ lapsed = {} /\ windowLapsed = {} /\ windows = {}
        /\ policy = 0 /\ locks = 0 /\ phase = "Running" /\ closed = FALSE
        /\ coordinator = "free" /\ decision = NoDecision
    BY DEF Init
  <2>7. policy \in 0..MaxPolicy /\ locks \in 0..MaxLocks
    BY <2>6, LocalCallsAssumption
  <2>8. RestTyped
    BY <2>2, <2>3, <2>4, <2>5, <2>6, <2>7, Zenon DEF RestTyped
  <2> QED
    BY <1>1, <2>8, TypeParts
<1>3. ActorInv
  BY LocalCallsAssumption DEF Init, ActorInv, None, Past
<1>4. CoordinatorInv
  BY DEF Init, CoordinatorInv, NoDecision
<1> QED
  BY <1>2, <1>3, <1>4 DEF Sound

\* Sound is invariant.
LEMMA AlwaysSound == Spec => []Sound
  BY InitSound, SoundStep, PTL DEF Spec

\* An entry that has expired, or been cancelled, consumed or cleared, does not
\* come back to life: every use of it by refresh, drop, commit, decide, register
\* and clear moves it one way.
THEOREM EndedApprovalsStayEnded == Spec => NoRevival
<1>1. ASSUME Sound, [Next]_vars
      PROVE  [\A a \in Approval :
                approval[a].state \notin Live \cup {"absent"} => approval'[a].state \notin Live]_vars
  <2>1. SUFFICES ASSUME NEW a \in Approval, approval[a].state \notin Live \cup {"absent"}
                 PROVE  approval'[a].state \notin Live
    OBVIOUS
  <2>2. approval[a].state \in Ended
    BY <1>1, <2>1, TableFacts DEF Sound, Entry, Ended, LocalApprovalState
  <2>3. approval'[a].state \in Ended
    BY <1>1, <2>2, TableStep DEF EntryStep
  <2> QED
    BY <2>3 DEF Ended, Live
<1> QED
  BY <1>1, AlwaysSound, PTL DEF Spec, NoRevival

-----------------------------------------------------------------------------
(* Reservations and what they are for.                                     *)

\* A task's approval is an entry for its own request and nobody else's; a call
\* has it reserved until the entry has ended or been cleared away; and nothing
\* is reserved but by a call on its way.
OwnInv ==
    /\ \A a \in Approval : approval[a].reserved => approval[a].state \in LocalApprovalState
    /\ \A c \in Actor : basis[c].kind = "approval" =>
          /\ approval[basis[c].id].state # "absent"
          /\ approval[basis[c].id].key = KeyOf[c]
    /\ \A c \in Call : basis[c].kind = "approval" =>
          \/ pc[c] \in Holding /\ approval[basis[c].id].reserved
          \/ approval[basis[c].id].state \in Ended /\ ~approval[basis[c].id].reserved
    /\ \A c, d \in Actor : basis[c].kind = "approval" /\ basis[c] = basis[d] => c = d
    /\ \A a \in Approval : approval[a].reserved =>
          \E c \in Call : basis[c] = OneTime(a) /\ pc[c] \in Holding

\* A bystander never reserves an entry and never reserves one that is gone.
LEMMA BystanderFacts ==
    ASSUME Sound, approval' \in Table, NEW a \in Approval, Bystander(a)
    PROVE  /\ approval'[a].reserved => approval[a].reserved
           /\ approval[a].state \in LocalApprovalState => 
                approval'[a].state \in LocalApprovalState \cup {"removed"}
           /\ (approval[a].reserved => approval[a].state \in LocalApprovalState) =>
              (approval'[a].reserved => approval'[a].state \in LocalApprovalState)
           /\ approval[a].reserved => 
                approval'[a].reserved \/ (approval'[a].state \in Ended /\ ~approval'[a].reserved)
           /\ approval[a].state \in Ended /\ ~approval[a].reserved =>
                approval'[a].state \in Ended /\ ~approval'[a].reserved
           /\ approval[a].state # "absent" =>
                approval'[a].state # "absent" /\ approval'[a].key = approval[a].key
<1>1. approval[a] \in Entry /\ approval'[a] \in Entry
  BY TableFacts DEF Sound, Table
<1> QED
  BY <1>1 DEF Bystander, EntryStep, Entry, Ended, LocalApprovalState, Live

\* A step in which no approval changes hands.
LEMMA OwnBystander ==
    ASSUME Sound, OwnInv, Sound', approval' \in Table, \A a \in Approval : Bystander(a),
           \A d \in Actor : \/ basis'[d] = basis[d]
                            \/ basis'[d].kind # "approval" /\ (d \in Call => basis[d].kind # "approval"),
           \A d \in Call : pc[d] \in Holding /\ basis[d].kind = "approval" => pc'[d] \in Holding
    PROVE  OwnInv'
<1>1. \A a \in Approval : approval'[a].reserved => approval'[a].state \in LocalApprovalState
  BY BystanderFacts DEF OwnInv
<1>2. ASSUME NEW c \in Actor, basis'[c].kind = "approval"
      PROVE  /\ basis'[c] = basis[c] /\ basis[c].id \in Approval
             /\ approval'[basis'[c].id].state # "absent"
             /\ approval'[basis'[c].id].key = KeyOf[c]
  <2>1. basis'[c] = basis[c] /\ basis[c].id \in Approval
    BY <1>2, BasisFacts DEF Sound
  <2> QED
    BY <1>2, <2>1, BystanderFacts DEF OwnInv
<1>3. ASSUME NEW c \in Call, basis'[c].kind = "approval"
      PROVE  \/ pc'[c] \in Holding /\ approval'[basis'[c].id].reserved
             \/ approval'[basis'[c].id].state \in Ended /\ ~approval'[basis'[c].id].reserved
  <2>1. c \in Actor /\ basis'[c] = basis[c] /\ basis[c].id \in Approval
    BY <1>2, <1>3 DEF Actor
  <2> QED
    BY <1>3, <2>1, BystanderFacts DEF OwnInv
<1>4. \A c, d \in Actor : basis'[c].kind = "approval" /\ basis'[c] = basis'[d] => c = d
  BY <1>2 DEF OwnInv
<1>5. ASSUME NEW a \in Approval, approval'[a].reserved
      PROVE  \E c \in Call : basis'[c] = OneTime(a) /\ pc'[c] \in Holding
  <2>1. approval[a].reserved
    BY <1>5, BystanderFacts
  <2>2. PICK c \in Call : basis[c] = OneTime(a) /\ pc[c] \in Holding
    BY <2>1 DEF OwnInv
  <2>3. basis'[c] = basis[c] /\ basis[c].kind = "approval"
    BY <2>2 DEF Actor, OneTime
  <2> QED
    BY <2>2, <2>3
<1> QED
  BY <1>1, <1>2, <1>3, <1>4, <1>5 DEF OwnInv

\* A task that gives its claim up, with the reservation or without one.
LEMMA OwnRelease ==
    ASSUME Sound, OwnInv, Sound', NEW c \in Actor,
           approval' \in Table,
           \A a \in Approval :
               c \notin Call \/ basis[c].kind # "approval" \/ a # basis[c].id => Bystander(a),
           c \in Call /\ basis[c].kind = "approval" =>
               /\ EntryStep(basis[c].id)
               /\ ~approval'[basis[c].id].reserved,
           \A d \in Actor \ {c} : basis'[d] = basis[d] /\ pc'[d] = pc[d],
           \/ basis'[c].kind # "approval"
           \/ /\ c \in Call /\ basis'[c] = basis[c]
              /\ basis[c].kind = "approval" => approval'[basis[c].id].state \in Ended
    PROVE  OwnInv'
<1>0. CASE ~(c \in Call /\ basis[c].kind = "approval")
  <2>1. \A a \in Approval : Bystander(a)
    BY <1>0
  <2>2. \A d \in Call : pc[d] \in Holding /\ basis[d].kind = "approval" => pc'[d] \in Holding
    BY <1>0 DEF Actor
  <2> QED
    BY <1>0, <2>1, <2>2, OwnBystander
<1>1. CASE c \in Call /\ basis[c].kind = "approval"
  <2> DEFINE own == basis[c].id
  <2>1. own \in Approval /\ basis[c] = OneTime(own)
    BY <1>1, BasisFacts DEF Sound
  <2>2. ASSUME NEW d \in Actor \ {c}, basis[d].kind = "approval"
        PROVE  basis[d].id \in Approval \ {own} /\ basis[d] = OneTime(basis[d].id)
    <3>1. basis[d].id \in Approval /\ basis[d] = OneTime(basis[d].id)
      BY <2>2, BasisFacts DEF Sound
    <3>2. basis[d] # basis[c]
      BY <1>1, <2>2 DEF OwnInv
    <3> QED
      BY <2>1, <3>1, <3>2
  <2>3. \A a \in Approval \ {own} : Bystander(a)
    BY <1>1
  <2>4. /\ ~approval'[own].reserved /\ approval'[own].state # "absent"
        /\ approval'[own].key = KeyOf[c]
    BY <1>1, <2>1 DEF EntryStep, OwnInv, Actor
  <2>5. \A a \in Approval : approval'[a].reserved => approval'[a].state \in LocalApprovalState
    BY <2>3, <2>4, BystanderFacts DEF OwnInv
  <2>6. ASSUME NEW d \in Actor, basis'[d].kind = "approval"
        PROVE  /\ basis'[d] = basis[d]
               /\ approval'[basis'[d].id].state # "absent"
               /\ approval'[basis'[d].id].key = KeyOf[d]
               /\ d \in Call =>
                    \/ pc'[d] \in Holding /\ approval'[basis'[d].id].reserved
                    \/ approval'[basis'[d].id].state \in Ended /\ ~approval'[basis'[d].id].reserved
    <3>1. CASE d = c
      BY <1>1, <2>4, <2>6, <3>1
    <3>2. CASE d # c
      <4>1. /\ basis'[d] = basis[d] /\ basis[d].id \in Approval \ {own}
            /\ pc'[d] = pc[d] /\ Bystander(basis[d].id)
        BY <2>2, <2>3, <2>6, <3>2
      <4> QED
        BY <2>6, <3>2, <4>1, BystanderFacts DEF OwnInv
    <3> QED
      BY <3>1, <3>2
  <2>7. ASSUME NEW a \in Approval, approval'[a].reserved
        PROVE  \E d \in Call : basis'[d] = OneTime(a) /\ pc'[d] \in Holding
    <3>1. a # own
      BY <2>4, <2>7
    <3>2. approval[a].reserved
      BY <2>3, <2>7, <3>1, BystanderFacts
    <3>3. PICK d \in Call : basis[d] = OneTime(a) /\ pc[d] \in Holding
      BY <3>2 DEF OwnInv
    <3>4. d # c /\ d \in Actor
      BY <2>1, <3>1, <3>3 DEF OneTime, Actor
    <3> QED
      BY <3>3, <3>4
  <2> QED
    BY <2>5, <2>6, <2>7 DEF OwnInv, Actor
<1> QED
  BY <1>0, <1>1

\* Every step keeps the ownership of reservations and claims.
LEMMA OwnStep ==
    ASSUME Sound, OwnInv, [Next]_vars, Sound'
    PROVE  OwnInv'
<1>1. ASSUME NEW c \in Actor, AdmitAllowed(c) \/ AdmitWindow(c) PROVE OwnInv'
  <2>1. /\ pc[c] = "idle" /\ basis[c] = None
        /\ \E b : b.kind # "approval" /\ To(c, b)
    BY <1>1 DEF AdmitAllowed, AdmitWindow, Begin, None, Window, Sound, ActorInv
  <2>2. PICK b : b.kind # "approval" /\ To(c, b)
    BY <2>1
  <2>3. basis'[c] = b /\ \A d \in Actor \ {c} : basis'[d] = basis[d] /\ pc'[d] = pc[d]
    BY <2>2 DEF To, Sound, TypeOK
  <2>4. \A d \in Call : pc[d] \in Holding /\ basis[d].kind = "approval" => pc'[d] \in Holding
    BY <2>1, <2>3 DEF None, Actor
  <2> QED
    BY <1>1, <2>1, <2>2, <2>3, <2>4, BystanderStep, OwnBystander DEF None
<1>2. ASSUME NEW c \in Actor, NEW a \in Approval, AdmitApproved(c, a) PROVE OwnInv'
  <2>1. c \in Call /\ pc[c] = "idle" /\ basis[c] = None /\ basis[c].kind # "approval"
    BY <1>2 DEF AdmitApproved, Begin, Sound, ActorInv, None
  <2>2. CASE Bystander(a) /\ UNCHANGED <<pc, basis>>
    BY <1>2, <2>1, <2>2, AdmitApprovedTable, OwnBystander DEF Sound
  <2>3. CASE /\ approval[a].state = "Approved" /\ ~approval[a].reserved
             /\ approval'[a].state = "Approved" /\ approval'[a].reserved
             /\ approval'[a].key = KeyOf[c]
             /\ To(c, OneTime(a))
    <3>1. /\ basis'[c] = OneTime(a) /\ pc'[c] = "waiting"
          /\ \A d \in Actor \ {c} : basis'[d] = basis[d] /\ pc'[d] = pc[d]
      BY <2>3 DEF To, Sound, TypeOK
    <3>2. approval' \in Table /\ (\A b \in Approval \ {a} : Bystander(b)) /\ EntryStep(a)
      BY <1>2, <2>1, AdmitApprovedTable DEF Sound
    <3>3. ASSUME NEW d \in Actor, basis[d].kind = "approval"
          PROVE  d # c /\ basis[d].id \in Approval \ {a} /\ basis[d] # OneTime(a)
      <4>1. d # c /\ basis[d].id \in Approval /\ basis[d] = OneTime(basis[d].id)
        BY <2>1, <3>3, BasisFacts DEF Sound
      <4>2. CASE d \in Call
        BY <2>3, <3>3, <4>1, <4>2 DEF OwnInv, Ended, OneTime
      <4>3. CASE d \notin Call
        <5>1. approval[a].key = KeyOf[c]
          BY <2>3, <3>2 DEF EntryStep
        <5>2. KeyOf[d] # KeyOf[c]
          BY <2>1, <4>3, LocalCallsAssumption DEF Actor
        <5>3. basis[d].id # a
          BY <3>3, <5>1, <5>2 DEF OwnInv
        <5> QED
          BY <4>1, <5>3 DEF OneTime
      <4> QED
        BY <4>2, <4>3
    <3>4. \A b \in Approval : approval'[b].reserved => approval'[b].state \in LocalApprovalState
      BY <2>3, <3>2, BystanderFacts DEF OwnInv, LocalApprovalState, Live
    <3>5. ASSUME NEW d \in Actor, basis'[d].kind = "approval"
          PROVE  /\ approval'[basis'[d].id].state # "absent"
                 /\ approval'[basis'[d].id].key = KeyOf[d]
                 /\ d \in Call =>
                      \/ pc'[d] \in Holding /\ approval'[basis'[d].id].reserved
                      \/ approval'[basis'[d].id].state \in Ended /\ ~approval'[basis'[d].id].reserved
      <4>1. CASE d = c
        BY <2>3, <3>1, <4>1 DEF OneTime, Holding
      <4>2. CASE d # c
        <5>1. /\ basis'[d] = basis[d] /\ pc'[d] = pc[d]
              /\ basis[d].id \in Approval /\ Bystander(basis[d].id)
          BY <3>1, <3>2, <3>3, <3>5, <4>2
        <5> QED
          BY <3>2, <3>5, <5>1, BystanderFacts DEF OwnInv
      <4> QED
        BY <4>1, <4>2
    <3>6. \A d, e \in Actor : basis'[d].kind = "approval" /\ basis'[d] = basis'[e] => d = e
      BY <3>1, <3>3 DEF OwnInv, OneTime
    <3>7. ASSUME NEW b \in Approval, approval'[b].reserved
          PROVE  \E d \in Call : basis'[d] = OneTime(b) /\ pc'[d] \in Holding
      <4>1. CASE b = a
        BY <2>1, <3>1, <4>1 DEF Holding
      <4>2. CASE b # a
        <5>1. approval[b].reserved
          BY <3>2, <3>7, <4>2, BystanderFacts
        <5>2. PICK d \in Call : basis[d] = OneTime(b) /\ pc[d] \in Holding
          BY <5>1 DEF OwnInv
        <5>3. d \in Actor \ {c}
          BY <2>1, <5>2 DEF OneTime, Actor
        <5> QED
          BY <3>1, <5>2, <5>3
      <4> QED
        BY <4>1, <4>2
    <3> QED
      BY <3>4, <3>5, <3>6, <3>7 DEF OwnInv, Actor
  <2> QED
    BY <1>2, <2>1, <2>2, <2>3, AdmitApprovedTable DEF Sound
<1>3. ASSUME NEW c \in Actor, AdmitRegister(c) PROVE OwnInv'
  <2>1. pc[c] = "idle" /\ basis[c] = None /\ basis[c].kind # "approval"
    BY <1>3 DEF AdmitRegister, Begin, Sound, ActorInv, None
  <2>2. CASE (\A a \in Approval : Bystander(a)) /\ UNCHANGED <<pc, basis>>
    BY <1>3, <2>2, AdmitRegisterTable, OwnBystander DEF Sound
  <2>3. ASSUME NEW a \in Approval, approval[a].state = "absent",
               \A b \in Approval \ {a} : Bystander(b), EntryStep(a),
               approval'[a].state = "Pending", ~approval'[a].reserved,
               approval'[a].key = KeyOf[c],
               IF c \in Call THEN UNCHANGED <<pc, basis>>
               ELSE /\ pc' = [pc EXCEPT ![c] = "awaiting"]
                    /\ basis' = [basis EXCEPT ![c] = OneTime(a)]
        PROVE  OwnInv'
    <3>1. approval' \in Table
      BY <1>3, AdmitRegisterTable DEF Sound
    <3>2. ASSUME NEW d \in Actor, basis[d].kind = "approval"
          PROVE  d # c /\ basis[d].id \in Approval \ {a} /\ basis[d] # OneTime(a)
      <4>1. d # c /\ basis[d].id \in Approval
        BY <2>1, <3>2, BasisFacts DEF Sound
      <4>2. basis[d].id # a
        BY <2>3, <3>2 DEF OwnInv
      <4> QED
        BY <4>1, <4>2 DEF OneTime
    <3>3. /\ \A d \in Actor \ {c} : basis'[d] = basis[d] /\ pc'[d] = pc[d]
          /\ basis'[c] = basis[c] \/ (c \notin Call /\ basis'[c] = OneTime(a))
      BY <2>3 DEF Sound, TypeOK
    <3>4. \A b \in Approval : approval'[b].reserved => approval'[b].state \in LocalApprovalState
      BY <2>3, <3>1, BystanderFacts DEF OwnInv
    <3>5. ASSUME NEW d \in Actor, basis'[d].kind = "approval"
          PROVE  /\ approval'[basis'[d].id].state # "absent"
                 /\ approval'[basis'[d].id].key = KeyOf[d]
                 /\ d \in Call =>
                      \/ pc'[d] \in Holding /\ approval'[basis'[d].id].reserved
                      \/ approval'[basis'[d].id].state \in Ended /\ ~approval'[basis'[d].id].reserved
      <4>1. CASE d = c
        BY <2>1, <2>3, <3>3, <3>5, <4>1 DEF OneTime
      <4>2. CASE d # c
        <5>1. /\ basis'[d] = basis[d] /\ pc'[d] = pc[d]
              /\ basis[d].id \in Approval /\ Bystander(basis[d].id)
          BY <2>3, <3>2, <3>3, <3>5, <4>2
        <5> QED
          BY <3>1, <3>5, <5>1, BystanderFacts DEF OwnInv
      <4> QED
        BY <4>1, <4>2
    <3>6. \A d, e \in Actor : basis'[d].kind = "approval" /\ basis'[d] = basis'[e] => d = e
      BY <2>1, <3>2, <3>3 DEF OwnInv, OneTime
    <3>7. ASSUME NEW b \in Approval, approval'[b].reserved
          PROVE  \E d \in Call : basis'[d] = OneTime(b) /\ pc'[d] \in Holding
      <4>1. approval[b].reserved
        BY <2>3, <3>1, <3>7, BystanderFacts
      <4>2. PICK d \in Call : basis[d] = OneTime(b) /\ pc[d] \in Holding
        BY <4>1 DEF OwnInv
      <4>3. d \in Actor \ {c}
        BY <2>1, <4>2 DEF OneTime, Actor
      <4> QED
        BY <3>3, <4>2, <4>3
    <3> QED
      BY <3>4, <3>5, <3>6, <3>7 DEF OwnInv, Actor
  <2> QED
    BY <1>3, <2>2, <2>3, AdmitRegisterTable DEF Sound
<1>4. ASSUME NEW c \in Actor, \/ AcquireTimeout(c) \/ Refuse(c) \/ SignGiveUp(c)
                              \/ RejectStart(c)
      PROVE  OwnInv'
  <2>1. Fail(c) /\ (approval' = GiveBack(c) \/ (c \notin Call /\ approval' = approval))
    BY <1>4 DEF AcquireTimeout, Refuse, SignGiveUp, RejectStart
  <2>2. /\ basis'[c].kind # "approval"
        /\ \A d \in Actor \ {c} : basis'[d] = basis[d] /\ pc'[d] = pc[d]
    BY <2>1 DEF Fail, None, Sound, TypeOK
  <2>3. CASE approval' = GiveBack(c)
    <3>1. /\ approval' \in Table
          /\ \A a \in Approval : EntryStep(a)
          /\ \A a \in Approval :
                c \notin Call \/ basis[c].kind # "approval" \/ a # basis[c].id => Bystander(a)
      BY <2>3, GiveBackTable DEF Sound
    <3>2. c \in Call /\ basis[c].kind = "approval" => ~approval'[basis[c].id].reserved
      BY <2>3, GiveBackTable, BasisFacts DEF Sound, OwnInv
    <3>3. c \in Call /\ basis[c].kind = "approval" => EntryStep(basis[c].id)
      BY <3>1, BasisFacts DEF Sound
    <3> QED
      BY <2>2, <3>1, <3>2, <3>3, OwnRelease
  <2>4. CASE c \notin Call /\ approval' = approval
    BY <2>2, <2>4, UnchangedTable, OwnRelease DEF Sound
  <2> QED
    BY <2>1, <2>3, <2>4
<1>5. ASSUME NEW c \in Actor, CommitAdmission(c) PROVE OwnInv'
  <2>1. /\ pc[c] = "durable" /\ basis' = basis
        /\ \A d \in Actor \ {c} : pc'[d] = pc[d]
    BY <1>5 DEF CommitAdmission, Sound, TypeOK
  <2>2. /\ approval' \in Table
        /\ \A a \in Approval : EntryStep(a)
        /\ \A a \in Approval :
              c \notin Call \/ basis[c].kind # "approval" \/ a # basis[c].id => Bystander(a)
    BY <1>5, CommitTable DEF Sound
  <2>3. CASE c \in Call /\ basis[c].kind = "approval"
    <3>1. PICK a \in Approval : a = basis[c].id
      BY <2>3, BasisFacts DEF Sound
    <3>2. approval' = Consumed(approval, a)
      BY <1>5, <2>3, <3>1, CommitTable DEF Sound
    <3>3. CASE approval[a].reserved
      <4>1. approval[a].state \in LocalApprovalState
        BY <3>3 DEF OwnInv
      <4>2. ~approval'[a].reserved /\ approval'[a].state = "Consumed"
        BY <3>2, <3>3, <4>1, ConsumedIsTable, TableFacts DEF Sound
      <4> QED
        BY <2>1, <2>2, <2>3, <3>1, <4>2, OwnRelease DEF Ended
    <3>4. CASE ~approval[a].reserved
      <4>1. approval' = approval
        BY <3>2, <3>4, ConsumedIsTable, TableFacts DEF Sound
      <4>2. approval[a].state \in Ended
        BY <2>3, <3>1, <3>4 DEF OwnInv
      <4> QED
        BY <2>1, <2>2, <2>3, <3>1, <3>4, <4>1, <4>2, OwnRelease
    <3> QED
      BY <3>3, <3>4
  <2>4. CASE ~(c \in Call /\ basis[c].kind = "approval")
    <3>1. \A d \in Call : pc[d] \in Holding /\ basis[d].kind = "approval" => pc'[d] \in Holding
      BY <2>1, <2>4 DEF Actor
    <3> QED
      BY <2>1, <2>2, <2>4, <3>1, OwnBystander
  <2> QED
    BY <2>3, <2>4
<1>6. CASE \/ \E c \in Actor :
                SignConsume(c) \/ Acquire(c) \/ Submit(c) \/ DurableStart(c) \/ Finish(c)
           \/ Decision
           \/ Environment
           \/ UNCHANGED vars
  <2>1. approval' \in Table /\ \A a \in Approval : Bystander(a)
    BY <1>6, BystanderStep
  <2>2. ASSUME NEW c \in Actor,
               SignConsume(c) \/ Acquire(c) \/ Submit(c) \/ DurableStart(c) \/ Finish(c)
        PROVE  /\ basis' = basis
               /\ \A d \in Call : pc[d] \in Holding => pc'[d] \in Holding
    BY <2>2 DEF SignConsume, Acquire, Submit, DurableStart, Finish, Holding, Sound, TypeOK, Actor
  <2>3. CASE UNCHANGED <<pc, basis>>
    BY <2>1, <2>3, OwnBystander
  <2>4. CASE \/ Decision
             \/ Environment
             \/ UNCHANGED vars
    BY <2>3, <2>4 DEF Decision, Environment, vars, actorVars, DecideBegin, Authorized, AuthorizeUnconfirmed,
       AuthorizeRefused, WindowAudited, WindowAuditFailed, Publish, GrantWindow, GrantWindowFailed,
       ApproveExternal, Cancel, LockBegin, LockEnd, Unlock, ActivatePolicy, Fault, HourPasses,
       Lapse, LapseWindow, Undecided
  <2> QED
    BY <1>6, <2>1, <2>2, <2>4, OwnBystander
<1> QED
  BY <1>1, <1>2, <1>3, <1>4, <1>5, <1>6 DEF Next, Admission, Execution

\* OwnInv is invariant.
LEMMA AlwaysOwn == Spec => []OwnInv
<1>1. Init => OwnInv
  <2> SUFFICES ASSUME Init PROVE OwnInv
    OBVIOUS
  <2>1. \A a \in Approval : ~approval[a].reserved
    BY DEF Init
  <2>2. \A c \in Actor : basis[c].kind # "approval"
    BY DEF Init, None
  <2> QED
    BY <2>1, <2>2 DEF OwnInv, Actor
<1>2. ASSUME Sound, OwnInv, [Next]_vars, Sound' PROVE OwnInv'
  BY <1>2, OwnStep
<1> QED
  BY <1>1, <1>2, AlwaysSound, PTL DEF Spec

\* A one-time approval starts at most one call or signature, whatever retries,
\* rejections, clears and late commits interleave: reserve_approval refuses a
\* reserved entry, commit consumes it, and a dropped LocalApprovalReservation
\* returns an entry that no call has started under.
THEOREM OneApprovalOneStart == Spec => []ApprovalUsedOnce
<1>1. Sound /\ OwnInv => ApprovalUsedOnce
  BY DEF Sound, ActorInv, OwnInv, ApprovalUsedOnce
<1> QED
  BY <1>1, AlwaysSound, AlwaysOwn, PTL

-----------------------------------------------------------------------------
(* What the journal says of the approvals.                                 *)

\* What the decision in progress and the journal say of an approval.
Deciding(a) == decision.step # "none" /\ decision.id = a
Granted(a) == evidence[a] \cap {"approved", "external"} # {} /\ "rejected" \notin evidence[a]
WindowGranted(a) == {"approved", "window"} \subseteq evidence[a]

\* The decision in progress has recorded exactly what its step comes after.
DecisionInv ==
    /\ decision.step # "none" =>
          /\ approval[decision.id].state # "absent"
          /\ decision.window => decision.approve
    /\ decision.step = "authorize" => evidence[decision.id] = {}
    /\ decision.step = "window" => decision.window /\ evidence[decision.id] = {"approved"}
    /\ decision.step = "publish" =>
          evidence[decision.id] = IF ~decision.approve THEN {"rejected"}
                                  ELSE IF decision.window THEN {"approved", "window"}
                                  ELSE {"approved"}
    /\ decision.step = "grant" =>
          /\ approval[decision.id].state # "Pending"
          /\ evidence[decision.id] = {"approved", "window"}

\* A request nobody is deciding has no record; what is approved, taken up or in
\* force as a window has its record.
GrantInv ==
    /\ \A a \in Approval :
          /\ approval[a].state = "absent" => evidence[a] = {}
          /\ approval[a].state = "Pending" /\ ~Deciding(a) => evidence[a] = {}
          /\ approval[a].state = "Approved" => Granted(a)
    /\ \A c \in Actor :
          /\ basis[c].kind = "approval" /\ pc[c] # "awaiting" => Granted(basis[c].id)
          /\ basis[c].kind = "window" => WindowGranted(basis[c].id)
    /\ \A w \in windows : WindowGranted(w.id)

\* Its decision is over and was confirmed.
Confirmed(a) ==
    /\ "unconfirmed" \notin evidence[a]
    /\ approval[a].state \notin {"absent", "Pending"}
    /\ ~Deciding(a)

\* What is approved was not called unconfirmed; a window in force, and the
\* approval of a call that has looked at it under the coordinator, are confirmed.
ConfirmInv ==
    /\ \A a \in Approval : approval[a].state = "Approved" => "unconfirmed" \notin evidence[a]
    /\ \A w \in windows : Confirmed(w.id)
    /\ \A c \in Actor : basis[c].kind = "window" => Confirmed(basis[c].id)
    /\ \A c \in Call :
          basis[c].kind = "approval" /\ pc[c] \in Past \cup {"queued"} => Confirmed(basis[c].id)

\* The journal's part of the invariant.
JournalInv == DecisionInv /\ GrantInv /\ ConfirmInv

\* A step of which the journal and the administrator know nothing.
LEMMA QuietJournal ==
    ASSUME Sound, Sound', JournalInv, \A a \in Approval : EntryStep(a), NoGrant,
           UNCHANGED <<decision, evidence>>, windows' \subseteq windows,
           \A c \in Actor :
               /\ basis'[c].kind = "approval" /\ pc'[c] # "awaiting" => Granted(basis'[c].id)
               /\ basis'[c].kind = "window" =>
                     WindowGranted(basis'[c].id) /\ Confirmed(basis'[c].id)
               /\ c \in Call /\ basis'[c].kind = "approval" /\ pc'[c] \in Past \cup {"queued"} =>
                     Confirmed(basis'[c].id)
    PROVE  JournalInv'
<1>1. decision.step # "none" => decision.id \in Approval
  BY DecisionFacts DEF Sound
<1>2. DecisionInv'
  BY <1>1 DEF JournalInv, DecisionInv, EntryStep
<1>3. \A a \in Approval :
         /\ Deciding(a)' <=> Deciding(a)
         /\ Granted(a)' <=> Granted(a)
         /\ WindowGranted(a)' <=> WindowGranted(a)
         /\ Confirmed(a) => Confirmed(a)'
  BY DEF Deciding, Granted, WindowGranted, Confirmed, EntryStep
<1>4. \A w \in windows : w.id \in Approval
  BY DEF Sound, TypeOK
<1>5. \A c \in Actor : basis'[c].kind \in {"approval", "window"} => basis'[c].id \in Approval
  BY DEF Sound, TypeOK, Basis
<1>6. \A a \in Approval :
         /\ approval'[a].state = "absent" => evidence'[a] = {}
         /\ approval'[a].state = "Pending" /\ ~Deciding(a)' => evidence'[a] = {}
         /\ approval'[a].state = "Approved" => Granted(a)'
  BY <1>3 DEF JournalInv, GrantInv, EntryStep, NoGrant
<1>7. GrantInv'
  BY <1>3, <1>4, <1>5, <1>6 DEF JournalInv, GrantInv
<1>8. ConfirmInv'
  BY <1>3, <1>4, <1>5 DEF JournalInv, ConfirmInv, NoGrant, Actor
<1> QED
  BY <1>2, <1>7, <1>8 DEF JournalInv

\* What JournalInv says of a task's basis as it stands.
LEMMA BasisJournaled ==
    ASSUME JournalInv, NEW c \in Actor
    PROVE  /\ basis[c].kind = "approval" /\ pc[c] # "awaiting" => Granted(basis[c].id)
           /\ basis[c].kind = "window" =>
                 WindowGranted(basis[c].id) /\ Confirmed(basis[c].id)
           /\ c \in Call /\ basis[c].kind = "approval" /\ pc[c] \in Past \cup {"queued"} =>
                 Confirmed(basis[c].id)
  BY DEF JournalInv, GrantInv, ConfirmInv

\* The steps of calls and signatures.
LEMMA ActorJournal ==
    ASSUME Sound, Sound', JournalInv, NEW c \in Actor, Admission(c) \/ Execution(c)
    PROVE  JournalInv'
<1> DEFINE Fits(d) ==
      /\ basis'[d].kind = "approval" /\ pc'[d] # "awaiting" => Granted(basis'[d].id)
      /\ basis'[d].kind = "window" =>
            WindowGranted(basis'[d].id) /\ Confirmed(basis'[d].id)
      /\ d \in Call /\ basis'[d].kind = "approval" /\ pc'[d] \in Past \cup {"queued"} =>
            Confirmed(basis'[d].id)
<1>1. \A a \in Approval : EntryStep(a)
  BY TableStep DEF Next
<1>2. UNCHANGED <<decision, evidence, windows>>
  BY DEF Admission, Execution, AdmitAllowed, AdmitWindow, AdmitRegister, AdmitApproved, SignConsume,
     SignGiveUp, Acquire, AcquireTimeout, Submit, Refuse, DurableStart, CommitAdmission,
     RejectStart, Finish, tableVars, adminVars
<1>3. NoGrant
  <2>1. ASSUME AcquireTimeout(c) \/ Refuse(c) \/ SignGiveUp(c) \/ RejectStart(c) PROVE NoGrant
    <3>1. approval' = approval \/ approval' = GiveBack(c)
      BY <2>1 DEF AcquireTimeout, Refuse, SignGiveUp, RejectStart
    <3> QED
      BY <3>1, UnchangedTable, GiveBackTable DEF Sound
  <2>2. ASSUME NEW a \in Approval, AdmitApproved(c, a) PROVE NoGrant
    <3>1. c \in Call
      BY <2>2 DEF AdmitApproved
    <3> QED
      BY <2>2, <3>1, AdmitApprovedTable DEF Sound
  <2>3. CASE AdmitRegister(c)
    BY <2>3, AdmitRegisterTable DEF Sound
  <2>4. CASE CommitAdmission(c)
    BY <2>4, CommitTable DEF Sound
  <2>5. CASE AdmitAllowed(c) \/ AdmitWindow(c) \/ Acquire(c) \/ Submit(c) \/ DurableStart(c)
             \/ Finish(c)
    BY <2>5, UnchangedTable
    DEF AdmitAllowed, AdmitWindow, Acquire, Submit, DurableStart, Finish, tableVars, Sound
  <2>6. CASE SignConsume(c)
    <3>1. PICK a \in Approval : a = basis[c].id
      BY <2>6, BasisFacts DEF SignConsume, Sound, ActorInv
    <3>2. approval' = [approval EXCEPT ![a].state = "Consumed"]
      BY <2>6, <3>1 DEF SignConsume
    <3> QED
      BY <3>2, SetNoGrant DEF LocalApprovalState, Sound
  <2> QED
    BY <2>1, <2>2, <2>3, <2>4, <2>5, <2>6 DEF Admission, Execution
<1>4. ASSUME UNCHANGED <<pc, basis>> PROVE \A d \in Actor : Fits(d)
  BY <1>4, BasisJournaled
<1>5. ASSUME \A d \in Actor \ {c} : pc'[d] = pc[d] /\ basis'[d] = basis[d], Fits(c)
      PROVE  \A d \in Actor : Fits(d)
  BY <1>5, BasisJournaled
<1>6. ASSUME NEW b, To(c, b)
      PROVE  /\ \A d \in Actor \ {c} : pc'[d] = pc[d] /\ basis'[d] = basis[d]
             /\ pc'[c] = "waiting" /\ basis'[c] = b
  BY <1>6 DEF To, Sound, TypeOK
<1>7. \A d \in Actor : Fits(d)
  <2>1. CASE AdmitAllowed(c)
    <3>1. To(c, None)
      BY <2>1 DEF AdmitAllowed
    <3> QED
      BY <1>5, <1>6, <3>1 DEF None
  <2>2. CASE AdmitWindow(c)
    <3>1. PICK w \in windows : To(c, Window(w))
      BY <2>2 DEF AdmitWindow, WindowsFor
    <3>2. WindowGranted(w.id) /\ Confirmed(w.id)
      BY DEF JournalInv, GrantInv, ConfirmInv
    <3>3. basis'[c].kind = "window" /\ basis'[c].id = w.id
      BY <1>6, <3>1 DEF Window
    <3> QED
      BY <1>5, <1>6, <3>1, <3>2, <3>3
  <2>3. ASSUME NEW a \in Approval, AdmitApproved(c, a) PROVE \A d \in Actor : Fits(d)
    <3>1. c \in Call
      BY <2>3 DEF AdmitApproved
    <3>2. CASE UNCHANGED <<pc, basis>>
      BY <1>4, <3>2
    <3>3. CASE approval[a].state = "Approved" /\ To(c, OneTime(a))
      <4>1. Granted(a)
        BY <3>3 DEF JournalInv, GrantInv
      <4>2. basis'[c].kind = "approval" /\ basis'[c].id = a /\ pc'[c] = "waiting"
        BY <1>6, <3>3 DEF OneTime
      <4> QED
        BY <1>5, <1>6, <3>3, <4>1, <4>2 DEF Past
    <3> QED
      BY <2>3, <3>1, <3>2, <3>3, AdmitApprovedTable DEF Sound
  <2>4. CASE AdmitRegister(c)
    <3>1. CASE UNCHANGED <<pc, basis>>
      BY <1>4, <3>1
    <3>2. ASSUME NEW a \in Approval, c \notin Call, pc' = [pc EXCEPT ![c] = "awaiting"],
                 basis' = [basis EXCEPT ![c] = OneTime(a)]
          PROVE  \A d \in Actor : Fits(d)
      <4>1. /\ \A d \in Actor \ {c} : pc'[d] = pc[d] /\ basis'[d] = basis[d]
            /\ pc'[c] = "awaiting" /\ basis'[c].kind = "approval"
        BY <3>2 DEF Sound, TypeOK, OneTime
      <4> QED
        BY <1>5, <3>2, <4>1
    <3> QED
      BY <2>4, <3>1, <3>2, AdmitRegisterTable DEF Sound
  <2>5. CASE SignConsume(c)
    <3>1. PICK a \in Approval : a = basis[c].id
      BY <2>5, BasisFacts DEF SignConsume, Sound, ActorInv
    <3>2. Refreshed(a).state = "Approved" /\ c \in Signer /\ basis' = basis
      BY <2>5, <3>1 DEF SignConsume
    <3>3. Granted(a)
      BY <3>2, RefreshedIsEntry DEF Sound, JournalInv, GrantInv
    <3>4. /\ \A d \in Actor \ {c} : pc'[d] = pc[d] /\ basis'[d] = basis[d]
          /\ c \notin Call /\ basis'[c] = basis[c] /\ basis[c].kind = "approval"
      BY <2>5, <3>2, LocalCallsAssumption DEF SignConsume, Sound, TypeOK, ActorInv
    <3> QED
      BY <1>5, <3>1, <3>3, <3>4
  <2>6. CASE SignGiveUp(c) \/ AcquireTimeout(c) \/ Refuse(c) \/ RejectStart(c)
    <3>0. Fail(c)
      BY <2>6 DEF SignGiveUp, AcquireTimeout, Refuse, RejectStart
    <3>1. /\ \A d \in Actor \ {c} : pc'[d] = pc[d] /\ basis'[d] = basis[d]
          /\ basis'[c].kind = "none"
      BY <3>0 DEF Fail, None, Sound, TypeOK
    <3> QED
      BY <1>5, <3>1
  <2>7. CASE Submit(c)
    <3>1. /\ \A d \in Actor \ {c} : pc'[d] = pc[d]
          /\ pc[c] = "owner" /\ pc'[c] = "queued" /\ basis' = basis
      BY <2>7 DEF Submit, Sound, TypeOK
    <3>2. ASSUME c \in Call, basis[c].kind = "approval" PROVE Confirmed(basis[c].id)
      <4>1. PICK a \in Approval : a = basis[c].id
        BY <3>2, BasisFacts DEF Sound
      <4>2. Refreshed(a).state = "Approved"
        BY <2>7, <3>2, <4>1 DEF Submit, Admissible, Valid
      <4>3. approval[a].state = "Approved"
        BY <4>2, RefreshedIsEntry DEF Sound
      <4>4. decision.step = "none"
        BY <3>1, LocalCallsAssumption DEF Sound, ActorInv, CoordinatorInv
      <4> QED
        BY <4>1, <4>3, <4>4 DEF Confirmed, Deciding, JournalInv, ConfirmInv
    <3> QED
      BY <1>5, <3>1, <3>2, BasisJournaled
  <2>8. CASE Acquire(c) \/ DurableStart(c) \/ CommitAdmission(c) \/ Finish(c)
    <3>1. /\ \A d \in Actor \ {c} : pc'[d] = pc[d]
          /\ basis' = basis /\ pc[c] # "awaiting"
          /\ pc'[c] \in Past \cup {"queued"} => pc[c] \in Past \cup {"queued"}
      BY <2>8 DEF Acquire, DurableStart, CommitAdmission, Finish, Past, Sound, TypeOK
    <3> QED
      BY <1>5, <3>1, BasisJournaled
  <2> QED
    BY <2>1, <2>2, <2>3, <2>4, <2>5, <2>6, <2>7, <2>8 DEF Admission, Execution
<1> QED
  BY <1>1, <1>2, <1>3, <1>7, QuietJournal

\* A step that decides about one request, a, which nobody has started on.
LEMMA DecidedJournal ==
    ASSUME Sound, Sound', JournalInv, DecisionInv', \A b \in Approval : EntryStep(b),
           UNCHANGED <<pc, basis>>, NEW a \in Approval,
           \A b \in Approval \ {a} :
               /\ evidence'[b] = evidence[b]
               /\ Deciding(b)' => Deciding(b)
               /\ Deciding(b) => Deciding(b)'
               /\ approval'[b].state = "Approved" => approval[b].state = "Approved",
           evidence[a] \subseteq evidence'[a],
           Granted(a) => "rejected" \notin evidence'[a],
           ~Confirmed(a),
           approval[a].state # "absent",
           approval'[a].state = "Pending" /\ ~Deciding(a)' => evidence'[a] = {},
           approval'[a].state = "Approved" => Granted(a)' /\ "unconfirmed" \notin evidence'[a],
           \A w \in windows' : w \in windows \/ (w.id = a /\ WindowGranted(a)' /\ Confirmed(a)')
    PROVE  JournalInv'
<1>1. \A b \in Approval :
         /\ Granted(b) => Granted(b)'
         /\ WindowGranted(b) => WindowGranted(b)'
  BY DEF Granted, WindowGranted
<1>2. \A b \in Approval : Confirmed(b) => Confirmed(b)'
  <2> SUFFICES ASSUME NEW b \in Approval, Confirmed(b) PROVE Confirmed(b)'
    OBVIOUS
  <2>1. b # a
    OBVIOUS
  <2>2. approval'[b].state \notin {"absent", "Pending"}
    BY DEF EntryStep, Confirmed
  <2> QED
    BY <2>1, <2>2 DEF Confirmed
<1>3. /\ \A w \in windows : w.id \in Approval
      /\ \A c \in Actor : basis[c].kind \in {"approval", "window"} => basis[c].id \in Approval
  BY DEF Sound, TypeOK, Basis
<1>4. ASSUME NEW b \in Approval
      PROVE  /\ approval'[b].state = "absent" => evidence'[b] = {}
             /\ approval'[b].state = "Pending" /\ ~Deciding(b)' => evidence'[b] = {}
             /\ approval'[b].state = "Approved" => Granted(b)' /\ "unconfirmed" \notin evidence'[b]
  <2>1. CASE b = a
    BY <2>1 DEF EntryStep
  <2>2. CASE b # a
    BY <1>1, <2>2 DEF EntryStep, JournalInv, GrantInv, ConfirmInv
  <2> QED
    BY <2>1, <2>2
<1>5. \A w \in windows' : WindowGranted(w.id)' /\ Confirmed(w.id)'
  BY <1>1, <1>2, <1>3 DEF JournalInv, GrantInv, ConfirmInv
<1>6. \A c \in Actor :
         /\ basis[c].kind = "approval" /\ pc[c] # "awaiting" => Granted(basis[c].id)'
         /\ basis[c].kind = "window" => WindowGranted(basis[c].id)' /\ Confirmed(basis[c].id)'
         /\ c \in Call /\ basis[c].kind = "approval" /\ pc[c] \in Past \cup {"queued"} =>
              Confirmed(basis[c].id)'
  BY <1>1, <1>2, <1>3, BasisJournaled
<1>7. GrantInv'
  BY <1>4, <1>5, <1>6 DEF GrantInv
<1>8. ConfirmInv'
  BY <1>4, <1>5, <1>6 DEF ConfirmInv, Actor
<1> QED
  BY <1>7, <1>8 DEF JournalInv

\* A cancelled request is neither pending nor approved, and nothing else is granted.
LEMMA CancelledFacts ==
    ASSUME TypeOK, NEW a \in Approval, approval[a].state # "absent",
           \/ approval' = CancelUnconfirmed(approval, a)
           \/ approval' = Discard(CancelUnconfirmed(approval, a), Entries)
    PROVE  /\ approval'[a].state \notin {"Pending", "Approved"}
           /\ \A b \in Approval \ {a} :
                approval'[b].state = "Approved" => approval[b].state = "Approved"
<1> DEFINE table == CancelUnconfirmed(approval, a)
<1>1. table \in Table /\ \A b \in Approval \ {a} : table[b] = approval[b]
  BY TableFacts, CancelIsTable
<1>2. table[a].state \notin {"Pending", "Approved"}
  BY TableFacts, CancelIsTable DEF LocalApprovalState, Live
<1>3. CASE approval' = table
  BY <1>1, <1>2, <1>3
<1>4. CASE approval' = Discard(table, Entries)
  <2> HIDE DEF table
  <2>1. \A b \in Approval : approval'[b].state \in {"removed", table[b].state}
    BY <1>1, <1>4, DiscardIsTable
  <2> QED
    BY <1>1, <1>2, <2>1
<1> QED
  BY <1>3, <1>4

\* The steps of a decision.
LEMMA DecisionJournal ==
    ASSUME Sound, Sound', JournalInv, Decision
    PROVE  JournalInv'
<1>1. \A a \in Approval : EntryStep(a)
  BY TableStep DEF Next
<1>2. RestTyped
  BY TypeParts DEF Sound
<1>3. ASSUME NEW a \in Approval, NEW approve \in BOOLEAN, NEW window \in BOOLEAN,
             DecideBegin(a, approve, window)
      PROVE  JournalInv'
  <2>1. /\ approval' = Looked(a) /\ UNCHANGED <<pc, basis, evidence, windows>>
        /\ coordinator = "free" /\ (window => approve)
    BY <1>3 DEF DecideBegin, actorVars
  <2>2. NoGrant
    BY <2>1, LookTable DEF Sound
  <2>3. CASE decision' = decision
    BY <1>1, <2>1, <2>2, <2>3, BasisJournaled, QuietJournal
  <2>4. CASE /\ Refreshed(a).state = "Pending"
             /\ decision' = [step |-> "authorize", id |-> a, approve |-> approve,
                             window |-> window]
    <3>1. approval[a].state = "Pending" /\ approval'[a].state # "absent"
      BY <1>1, <2>4, RefreshedIsEntry DEF Sound, EntryStep
    <3>2. decision.step = "none"
      BY <2>1 DEF Sound, CoordinatorInv
    <3>3. evidence[a] = {}
      BY <3>1, <3>2 DEF JournalInv, GrantInv, Deciding
    <3>4. DecisionInv'
      BY <2>1, <2>4, <3>1, <3>3 DEF DecisionInv
    <3>5. /\ \A b \in Approval \ {a} : Deciding(b)' <=> Deciding(b)
          /\ Deciding(a)'
      BY <2>4, <3>2 DEF Deciding
    <3>6. ~Confirmed(a) /\ approval'[a].state # "Approved"
      BY <2>2, <3>1 DEF Confirmed, NoGrant
    <3>7. Granted(a) => "rejected" \notin evidence'[a]
      BY <2>1 DEF Granted
    <3> QED
      BY <1>1, <2>1, <2>2, <3>1, <3>4, <3>5, <3>6, <3>7, DecidedJournal DEF NoGrant
  <2> QED
    BY <1>3, <2>3, <2>4 DEF DecideBegin
<1>4. ASSUME NEW a \in Approval, Cancel(a) PROVE JournalInv'
  <2>1. UNCHANGED <<pc, basis, evidence, windows, decision>>
    BY <1>4 DEF Cancel, actorVars, adminVars
  <2>2. CASE Refreshed(a).state = "Pending"
    BY <1>1, <1>4, <2>1, <2>2, SetNoGrant, BasisJournaled, QuietJournal
    DEF Cancel, LocalApprovalState, Sound
  <2>3. CASE Refreshed(a).state # "Pending"
    BY <1>1, <1>4, <2>1, <2>3, LookTable, BasisJournaled, QuietJournal DEF Cancel, Sound
  <2> QED
    BY <2>2, <2>3
<1>5. ASSUME NEW a \in Approval, ApproveExternal(a) PROVE JournalInv'
  <2>1. /\ UNCHANGED <<pc, basis, windows, decision>>
        /\ Refreshed(a).state = "Pending" /\ coordinator = "free"
        /\ approval' = [approval EXCEPT ![a].state = "Approved"]
        /\ Record(a, {"external"})
    BY <1>5 DEF ApproveExternal, actorVars
  <2>2. approval[a].state = "Pending" /\ decision.step = "none"
    BY <2>1, RefreshedIsEntry DEF Sound, CoordinatorInv
  <2>3. evidence[a] = {}
    BY <2>2 DEF JournalInv, GrantInv, Deciding
  <2>4. evidence'[a] = {"external"} /\ \A b \in Approval \ {a} : evidence'[b] = evidence[b]
    BY <1>2, <2>1, <2>3, RecordTyped
  <2>5. approval'[a].state = "Approved" /\ \A b \in Approval \ {a} : approval'[b] = approval[b]
    BY <2>1, StateIsTable DEF LocalApprovalState, Live, Sound
  <2>6. DecisionInv'
    BY <2>1, <2>2 DEF DecisionInv
  <2>7. \A b \in Approval : Deciding(b)' <=> Deciding(b)
    BY <2>1 DEF Deciding
  <2>8. ~Confirmed(a) /\ Granted(a)'
    BY <2>2, <2>4 DEF Confirmed, Granted
  <2> QED
    BY <1>1, <2>1, <2>2, <2>3, <2>4, <2>5, <2>6, <2>7, <2>8, DecidedJournal
\* The rest is about the request in hand.
<1>6. ASSUME decision.step # "none"
      PROVE  /\ decision.id \in Approval /\ Deciding(decision.id) /\ ~Confirmed(decision.id)
             /\ approval[decision.id].state # "absent"
             /\ \A b \in Approval \ {decision.id} : ~Deciding(b)
             /\ decision'.step = "none" =>
                  /\ DecisionInv'
                  /\ \A b \in Approval : ~Deciding(b)'
             /\ decision'.id = decision.id => \A b \in Approval \ {decision.id} : ~Deciding(b)'
  BY <1>6, DecisionFacts DEF Deciding, Confirmed, DecisionInv, JournalInv, Sound
<1>7. CASE Authorized
  <2> DEFINE a == decision.id
             what == IF decision.approve THEN "approved" ELSE "rejected"
             next == IF decision.window THEN "window" ELSE "publish"
  <2>1. /\ decision.step = "authorize" /\ UNCHANGED <<approval, pc, basis, windows>>
        /\ Record(a, {what}) /\ decision' = [decision EXCEPT !.step = next]
    BY <1>7 DEF Authorized, Undecided, actorVars
  <2>2. /\ decision'.step = next /\ decision'.id = a /\ decision'.approve = decision.approve
        /\ decision'.window = decision.window
    BY <2>1, DecisionFacts DEF Sound, Steps
  <2>3. evidence[a] = {} /\ (decision.window => decision.approve)
    BY <2>1 DEF JournalInv, DecisionInv
  <2>4. evidence'[a] = {what} /\ \A b \in Approval \ {a} : evidence'[b] = evidence[b]
    BY <1>2, <1>6, <2>1, <2>3, RecordTyped
  <2>5. DecisionInv'
    <3>1. approval'[a].state # "absent" /\ decision'.id = a /\ a \in Approval
      BY <1>6, <2>1, <2>2
    <3>2. CASE decision.window
      BY <2>2, <2>3, <2>4, <3>1, <3>2 DEF DecisionInv
    <3>3. CASE ~decision.window
      BY <2>2, <2>3, <2>4, <3>1, <3>3 DEF DecisionInv
    <3> QED
      BY <3>2, <3>3
  <2>6. ~Granted(a) /\ approval[a].state # "Approved" /\ Deciding(a)'
    BY <1>6, <2>1, <2>2, <2>3 DEF Granted, JournalInv, GrantInv, Deciding
  <2> QED
    BY <1>1, <1>6, <2>1, <2>2, <2>3, <2>4, <2>5, <2>6, DecidedJournal
<1>8. CASE AuthorizeUnconfirmed
  <2> DEFINE a == decision.id
  <2>1. /\ decision.step = "authorize" /\ UNCHANGED <<pc, basis, windows>>
        /\ approval' = CancelUnconfirmed(approval, a) /\ decision' = NoDecision
    BY <1>8 DEF AuthorizeUnconfirmed, Undecided, actorVars, DecideEnd
  <2>2. PICK durable \in {{}, {IF decision.approve THEN "approved" ELSE "rejected"}} :
           Record(a, durable \cup {"unconfirmed"})
    BY <1>8 DEF AuthorizeUnconfirmed
  <2>3. evidence[a] = {}
    BY <2>1 DEF JournalInv, DecisionInv
  <2>4. \A b \in Approval \ {a} : evidence'[b] = evidence[b]
    BY <1>2, <1>6, <2>1, <2>2, RecordTyped
  <2>5. ~Granted(a)
    BY <2>3 DEF Granted
  <2> QED
    BY <1>1, <1>6, <2>1, <2>3, <2>4, <2>5, CancelledFacts, DecidedJournal DEF NoDecision, Sound
<1>9. CASE AuthorizeRefused
  <2>1. /\ decision.step = "authorize" /\ UNCHANGED <<approval, evidence, pc, basis, windows>>
        /\ decision' = NoDecision
    BY <1>9 DEF AuthorizeRefused, Undecided, actorVars, DecideEnd
  <2>2. evidence[decision.id] = {}
    BY <2>1 DEF JournalInv, DecisionInv
  <2>3. ~Granted(decision.id) /\ approval[decision.id].state # "Approved"
    BY <1>6, <2>1, <2>2 DEF Granted, JournalInv, GrantInv
  <2> QED
    BY <1>1, <1>6, <2>1, <2>2, <2>3, DecidedJournal DEF NoDecision
<1>10. CASE WindowAudited
  <2> DEFINE a == decision.id
  <2>1. /\ decision.step = "window" /\ UNCHANGED <<approval, pc, basis, windows>>
        /\ Record(a, {"window"}) /\ decision' = [decision EXCEPT !.step = "publish"]
    BY <1>10 DEF WindowAudited, Undecided, actorVars
  <2>2. /\ decision'.step = "publish" /\ decision'.id = a /\ decision'.approve = decision.approve
        /\ decision'.window = decision.window
    BY <2>1, DecisionFacts DEF Sound, Steps
  <2>3. evidence[a] = {"approved"} /\ decision.window /\ decision.approve
    BY <2>1 DEF JournalInv, DecisionInv
  <2>4. evidence'[a] = {"approved", "window"} /\ \A b \in Approval \ {a} : evidence'[b] = evidence[b]
    BY <1>2, <1>6, <2>1, <2>3, RecordTyped
  <2>5. DecisionInv'
    BY <1>6, <2>1, <2>2, <2>3, <2>4 DEF DecisionInv
  <2>6. Granted(a)' /\ Deciding(a)'
    BY <2>2, <2>4 DEF Granted, Deciding
  <2> QED
    BY <1>1, <1>6, <2>1, <2>2, <2>3, <2>4, <2>5, <2>6, DecidedJournal
<1>11. CASE WindowAuditFailed
  <2> DEFINE a == decision.id
  <2>1. /\ decision.step = "window" /\ UNCHANGED <<pc, basis>> /\ windows' = {}
        /\ approval' = Discard(CancelUnconfirmed(approval, a), Entries)
        /\ Record(a, {"unconfirmed"}) /\ decision' = NoDecision
    BY <1>11 DEF WindowAuditFailed, actorVars, DecideEnd
  <2>2. evidence[a] = {"approved"}
    BY <2>1 DEF JournalInv, DecisionInv
  <2>3. evidence'[a] = {"approved", "unconfirmed"}
        /\ \A b \in Approval \ {a} : evidence'[b] = evidence[b]
    BY <1>2, <1>6, <2>1, <2>2, RecordTyped
  <2> QED
    BY <1>1, <1>6, <2>1, <2>2, <2>3, CancelledFacts, DecidedJournal DEF NoDecision, Sound
<1>12. CASE Publish
  <2>0. PICK a \in Approval : a = decision.id
    BY <1>6, <1>12 DEF Publish
  <2>1. decision.step = "publish" /\ UNCHANGED <<pc, basis, windows>>
    BY <1>12 DEF Publish, Undecided, actorVars
  <2>2. evidence[a] = IF ~decision.approve THEN {"rejected"}
                      ELSE IF decision.window THEN {"approved", "window"} ELSE {"approved"}
    BY <2>0, <2>1 DEF JournalInv, DecisionInv
  <2>3. CASE /\ approval' = CancelUnconfirmed(approval, a) /\ Record(a, {"unconfirmed"})
             /\ decision' = NoDecision
    <3>1. evidence'[a] = evidence[a] \cup {"unconfirmed"}
          /\ \A b \in Approval \ {a} : evidence'[b] = evidence[b]
      BY <1>2, <2>1, <2>3, RecordTyped
    <3>2. Granted(a) => "rejected" \notin evidence'[a]
      BY <3>1 DEF Granted
    <3> QED
      BY <1>1, <1>6, <2>0, <2>1, <2>3, <3>1, <3>2, CancelledFacts, DecidedJournal
      DEF NoDecision, Sound
  <2>4. ASSUME NEW state \in {"Approved", "Cancelled"}, state = "Approved" <=> decision.approve,
               evidence' = evidence, approval' = [approval EXCEPT ![a].state = state],
               IF decision.window THEN decision' = [decision EXCEPT !.step = "grant"]
               ELSE decision' = NoDecision
        PROVE  JournalInv'
    <3>1. approval'[a].state = state /\ \A d \in Approval \ {a} : approval'[d] = approval[d]
      BY <2>4, StateIsTable DEF LocalApprovalState, Live, Sound
    <3>2. decision.window => decision.approve
      BY <2>1 DEF JournalInv, DecisionInv
    <3>3. approval'[a].state = "Approved" => Granted(a)' /\ "unconfirmed" \notin evidence'[a]
      BY <2>2, <2>4, <3>1 DEF Granted
    <3>4. Granted(a) => "rejected" \notin evidence'[a]
      BY <2>4 DEF Granted
    <3>5. CASE decision.window
      <4>1. /\ decision'.step = "grant" /\ decision'.id = a
            /\ decision'.approve = decision.approve /\ decision'.window = decision.window
        BY <2>0, <2>1, <2>4, <3>5, DecisionFacts DEF Sound, Steps
      <4>2. DecisionInv'
        BY <2>2, <2>4, <3>1, <3>2, <3>5, <4>1 DEF DecisionInv
      <4>3. Deciding(a)'
        BY <4>1 DEF Deciding
      <4> QED
        BY <1>1, <1>6, <2>0, <2>1, <2>4, <3>1, <3>3, <3>4, <4>1, <4>2, <4>3, DecidedJournal
    <3>6. CASE ~decision.window
      <4>1. decision'.step = "none"
        BY <2>4, <3>6 DEF NoDecision
      <4> QED
        BY <1>1, <1>6, <2>0, <2>1, <2>4, <3>1, <3>3, <3>4, <4>1, DecidedJournal
    <3> QED
      BY <3>5, <3>6
  <2> QED
    BY <1>12, <2>0, <2>3, <2>4 DEF Publish, DecideEnd
<1>13. CASE GrantWindow
  <2>0. PICK a \in Approval : a = decision.id
    BY <1>6, <1>13 DEF GrantWindow
  <2>1. /\ decision.step = "grant" /\ UNCHANGED <<approval, evidence, pc, basis>>
        /\ decision' = NoDecision
    BY <1>13 DEF GrantWindow, actorVars, DecideEnd
  <2>2. evidence[a] = {"approved", "window"} /\ approval[a].state # "Pending"
    BY <2>0, <2>1 DEF JournalInv, DecisionInv
  <2>3. \A v \in windows' : v \in windows \/ v.id = a
    <3>1. PICK w : /\ w.id = a
                   /\ windows' = {v \in windows : v.policy # w.policy \/ v.rule # w.rule} \cup {w}
      BY <1>13, <2>0 DEF GrantWindow
    <3> QED
      BY <3>1
  <2>4. WindowGranted(a)' /\ Granted(a)' /\ ~Deciding(a)'
    BY <2>1, <2>2 DEF WindowGranted, Granted, Deciding, NoDecision
  <2>5. Confirmed(a)'
    BY <1>6, <2>0, <2>1, <2>2, <2>4 DEF Confirmed
  <2>6. decision'.step = "none"
    BY <2>1 DEF NoDecision
  <2>7. Granted(a) => "rejected" \notin evidence'[a]
    BY <2>1 DEF Granted
  <2> QED
    BY <1>1, <1>6, <2>0, <2>1, <2>2, <2>3, <2>4, <2>5, <2>6, <2>7, DecidedJournal
<1>14. CASE GrantWindowFailed
  <2> DEFINE a == decision.id
  <2>1. /\ decision.step = "grant" /\ UNCHANGED <<pc, basis, windows>>
        /\ approval' = CancelUnconfirmed(approval, a)
        /\ Record(a, {"unconfirmed"}) /\ decision' = NoDecision
    BY <1>14 DEF GrantWindowFailed, actorVars, DecideEnd, Undecided
  <2>2. evidence[a] = {"approved", "window"}
    BY <2>1 DEF JournalInv, DecisionInv
  <2>3. evidence'[a] = {"approved", "window", "unconfirmed"}
        /\ \A b \in Approval \ {a} : evidence'[b] = evidence[b]
    BY <1>2, <1>6, <2>1, <2>2, RecordTyped
  <2> QED
    BY <1>1, <1>6, <2>1, <2>2, <2>3, CancelledFacts, DecidedJournal DEF NoDecision, Sound
<1> QED
  BY <1>3, <1>4, <1>5, <1>7, <1>8, <1>9, <1>10, <1>11, <1>12, <1>13, <1>14 DEF Decision

\* Every step keeps what the journal says true.
LEMMA JournalStep ==
    ASSUME Sound, Sound', JournalInv, [Next]_vars
    PROVE  JournalInv'
<1>1. CASE Environment \/ UNCHANGED vars
  <2>1. /\ UNCHANGED <<pc, basis, decision, evidence>> /\ windows' \subseteq windows
    BY <1>1 DEF Environment, vars, tableVars, actorVars, adminVars, LockBegin, LockEnd, Unlock,
       ActivatePolicy, Fault, HourPasses, Lapse, LapseWindow, Clear
  <2>2. NoGrant
    <3>1. CASE approval' = approval
      BY <3>1, UnchangedTable DEF Sound
    <3>2. CASE approval' = Discard(approval, Entries)
      BY <3>2, ClearTable DEF Sound
    <3> QED
      BY <1>1, <3>1, <3>2 DEF Environment, vars, tableVars, LockBegin, LockEnd, Unlock,
         ActivatePolicy, Fault, HourPasses, Lapse, LapseWindow, Clear
  <2>3. \A a \in Approval : EntryStep(a)
    BY TableStep
  <2> QED
    BY <2>1, <2>2, <2>3, BasisJournaled, QuietJournal
<1> QED
  BY <1>1, ActorJournal, DecisionJournal DEF Next

\* JournalInv is invariant.
LEMMA AlwaysJournaled == Spec => []JournalInv
<1>1. Init => JournalInv
  <2> SUFFICES ASSUME Init PROVE JournalInv
    OBVIOUS
  <2>1. /\ \A a \in Approval : approval[a].state = "absent" /\ evidence[a] = {}
        /\ windows = {} /\ decision.step = "none"
    BY DEF Init, NoDecision
  <2>2. \A c \in Actor : basis[c].kind = "none"
    BY DEF Init, None
  <2> QED
    BY <2>1, <2>2 DEF JournalInv, DecisionInv, GrantInv, ConfirmInv, Actor
<1>2. ASSUME Sound, Sound', JournalInv, [Next]_vars PROVE JournalInv'
  BY <1>2, JournalStep
<1> QED
  BY <1>1, <1>2, AlwaysSound, PTL DEF Spec

\* What starts under an approval or a window follows a durable decision row or
\* the signed external grants, and the journal never says it was rejected: the
\* administrator's handler records before it publishes (decide, grant_window).
THEOREM StartsFollowGrants == Spec => []StartsAreGranted
<1>1. Sound /\ JournalInv => StartsAreGranted
  <2> SUFFICES ASSUME Sound, JournalInv, NEW c \in Actor, started[c].kind \in {"approval", "window"}
               PROVE  /\ started[c].kind = "approval" => Granted(started[c].id)
                      /\ started[c].kind = "window" => WindowGranted(started[c].id)
    BY DEF StartsAreGranted, Granted, WindowGranted
  <2>1. pc[c] \in Past /\ started[c] = basis[c]
    BY DEF Sound, ActorInv
  <2> QED
    BY <2>1, BasisJournaled DEF Past
<1> QED
  BY <1>1, AlwaysSound, AlwaysJournaled, PTL

\* No call starts under a decision the administrator was told is unconfirmed:
\* cancel_unconfirmed runs under the coordinator, and a call looks at its
\* approval again after it has acquired the coordinator.
THEOREM UnconfirmedStartNothing == Spec => []UnconfirmedNeverStarts
<1>1. Sound /\ JournalInv => UnconfirmedNeverStarts
  <2> SUFFICES ASSUME Sound, JournalInv, NEW c \in Call, started[c].kind \in {"approval", "window"}
               PROVE  Confirmed(started[c].id)
    BY DEF UnconfirmedNeverStarts, Confirmed
  <2>1. c \in Actor /\ pc[c] \in Past /\ started[c] = basis[c]
    BY DEF Sound, ActorInv, Actor
  <2> QED
    BY <2>1, BasisJournaled
<1> QED
  BY <1>1, AlwaysSound, AlwaysJournaled, PTL

\* A reserved entry belongs to exactly one call that is still on its way: the
\* flag never outlives the LocalApprovalReservation that set it.
THEOREM ReservationsAreOwned == Spec => []ReservationsOwned
<1>1. OwnInv => ReservationsOwned
  <2> SUFFICES ASSUME OwnInv, NEW a \in Approval
               PROVE  LET holders == {c \in Call : basis[c] = OneTime(a) /\ pc[c] \in Holding}
                      IN  /\ Cardinality(holders) <= 1
                          /\ approval[a].reserved => holders # {}
    BY DEF ReservationsOwned, Holding
  <2> DEFINE holders == {c \in Call : basis[c] = OneTime(a) /\ pc[c] \in Holding}
  <2>1. approval[a].reserved => holders # {}
    BY DEF OwnInv
  <2>2. Cardinality(holders) <= 1
    <3>1. CASE holders = {}
      BY <3>1, FS_EmptySet
    <3>2. ASSUME NEW c \in holders PROVE holders = {c}
      BY <3>2 DEF OwnInv, OneTime, Actor
    <3>3. CASE holders # {}
      <4>1. PICK c \in holders : holders = {c}
        BY <3>2, <3>3
      <4> QED
        BY <4>1, FS_Singleton
    <3> QED
      BY <3>1, <3>3
  <2> QED
    BY <2>1, <2>2
<1> QED
  BY <1>1, AlwaysOwn, PTL

-----------------------------------------------------------------------------
(* What is counted: the hour's slots and the table's live requests.        *)

\* The calls the hour in force counts.
Counted == {c \in Call : /\ pc[c] \in {"queued", "durable", "running", "done"}
                         /\ slot[c] = rate.start}

\* The count is exact because no slot is of an hour that is still to come.
CountInv ==
    /\ IsFiniteSet(Counted)
    /\ rate.count = Cardinality(Counted)
    /\ \A c \in Actor : slot[c] <= rate.start

\* A step in which no call takes or returns a slot.
LEMMA SameCount ==
    ASSUME CountInv, UNCHANGED slot, rate'.start = rate.start, rate'.count = rate.count,
           \A c \in Call : pc'[c] \in {"queued", "durable", "running", "done"} <=>
                           pc[c] \in {"queued", "durable", "running", "done"}
    PROVE  CountInv'
<1>1. Counted' = Counted
  BY DEF Counted
<1> QED
  BY <1>1 DEF CountInv

\* Taking a slot opens a new hour if the last one is over, and counts the call.
LEMMA SubmitCount ==
    ASSUME Sound, CountInv, NEW c \in Actor, Submit(c)
    PROVE  CountInv'
<1>1. /\ pc[c] = "owner" /\ pc' = [pc EXCEPT ![c] = "queued"]
      /\ pc \in [Actor -> ActorPc] /\ slot \in [Actor -> 0..MaxHours]
      /\ rate \in [start : 0..MaxHours, count : 0..MaxRequests, elapsed : BOOLEAN]
      /\ c \notin Counted
  BY DEF Submit, Sound, TypeOK, Counted
<1>2. CASE c \notin Call
  BY <1>1, <1>2, SameCount DEF Submit
<1>3. CASE c \in Call
  <2>1. /\ rate' = [CurrentRate EXCEPT !.count = @ + 1]
        /\ slot' = [slot EXCEPT ![c] = CurrentRate.start]
    BY <1>3 DEF Submit
  <2>2. CASE rate.elapsed
    <3>1. /\ CurrentRate = [start |-> rate.start + 1, count |-> 0, elapsed |-> FALSE]
      BY <2>2 DEF CurrentRate
    <3>2. /\ rate'.start = rate.start + 1 /\ rate'.count = 1
          /\ slot' = [slot EXCEPT ![c] = rate.start + 1]
      BY <2>1, <3>1
    <3>3. Counted' = {c}
      BY <1>1, <1>3, <3>2, LocalCallsAssumption DEF Counted, CountInv, Actor
    <3>4. IsFiniteSet({c}) /\ Cardinality({c}) = 1
      BY FS_Singleton
    <3>5. \A d \in Actor : slot'[d] <= rate'.start
      BY <1>1, <3>2, LocalCallsAssumption DEF CountInv
    <3> QED
      BY <3>2, <3>3, <3>4, <3>5 DEF CountInv
  <2>3. CASE ~rate.elapsed
    <3>1. CurrentRate = rate
      BY <2>3 DEF CurrentRate
    <3>2. /\ rate'.start = rate.start /\ rate'.count = rate.count + 1
          /\ slot' = [slot EXCEPT ![c] = rate.start]
      BY <1>1, <2>1, <3>1
    <3>3. Counted' = Counted \cup {c}
      BY <1>1, <1>3, <3>2 DEF Counted, Actor
    <3>4. IsFiniteSet(Counted') /\ Cardinality(Counted') = Cardinality(Counted) + 1
      BY <1>1, <3>3, FS_AddElement DEF CountInv
    <3>5. \A d \in Actor : slot'[d] <= rate'.start
      BY <1>1, <3>2, LocalCallsAssumption DEF CountInv
    <3> QED
      BY <3>2, <3>4, <3>5 DEF CountInv
  <2> QED
    BY <2>2, <2>3
<1> QED
  BY <1>2, <1>3

\* A rejected call returns its own slot, and never one of an hour it was not in.
LEMMA RejectCount ==
    ASSUME Sound, CountInv, NEW c \in Actor, RejectStart(c)
    PROVE  CountInv'
<1>1. /\ pc[c] = "queued" /\ pc' = [pc EXCEPT ![c] = "idle"] /\ slot' = slot
      /\ pc \in [Actor -> ActorPc] /\ slot \in [Actor -> 0..MaxHours]
      /\ rate \in [start : 0..MaxHours, count : 0..MaxRequests, elapsed : BOOLEAN]
  BY DEF RejectStart, Fail, Sound, TypeOK
<1>2. CASE c \notin Call
  BY <1>1, <1>2, SameCount DEF RejectStart
<1>3. CASE c \in Call /\ slot[c] # rate.start
  <2>1. rate' = rate
    BY <1>3 DEF RejectStart, RateReturned
  <2>2. Counted' = Counted
    BY <1>1, <1>3, <2>1 DEF Counted, Actor
  <2> QED
    BY <1>1, <2>1, <2>2 DEF CountInv
<1>4. CASE c \in Call /\ slot[c] = rate.start
  <2>1. c \in Counted
    BY <1>1, <1>4 DEF Counted
  <2>2. /\ IsFiniteSet(Counted \ {c})
        /\ Cardinality(Counted \ {c}) = Cardinality(Counted) - 1
        /\ Cardinality(Counted) # 0
    BY <2>1, FS_RemoveElement, FS_EmptySet DEF CountInv
  <2>3. rate.count > 0
    BY <1>1, <2>2, LocalCallsAssumption DEF CountInv
  <2>4. rate'.start = rate.start /\ rate'.count = rate.count - 1
    BY <1>1, <1>4, <2>3 DEF RejectStart, RateReturned
  <2>5. Counted' = Counted \ {c}
    BY <1>1, <1>4, <2>4 DEF Counted, Actor
  <2> QED
    BY <1>1, <2>2, <2>4, <2>5 DEF CountInv
<1> QED
  BY <1>2, <1>3, <1>4

\* Every step keeps the count exact.
LEMMA CountStep ==
    ASSUME Sound, CountInv, [Next]_vars
    PROVE  CountInv'
<1>0. pc \in [Actor -> ActorPc]
      /\ rate \in [start : 0..MaxHours, count : 0..MaxRequests, elapsed : BOOLEAN]
  BY DEF Sound, TypeOK
<1>1. ASSUME NEW c \in Actor, Admission(c), ~Submit(c) PROVE CountInv'
  <2>1. UNCHANGED <<rate, slot>>
    BY <1>1 DEF Admission, AdmitAllowed, AdmitWindow, AdmitRegister, AdmitApproved, SignConsume,
       SignGiveUp, Acquire, AcquireTimeout, Refuse
  <2>2. \/ pc' = pc
        \/ \E next \in {"idle", "awaiting", "waiting", "owner"} :
              pc[c] \in {"idle", "awaiting", "waiting", "owner"} /\ pc' = [pc EXCEPT ![c] = next]
    BY <1>1 DEF Admission, AdmitAllowed, AdmitWindow, AdmitRegister, AdmitApproved, SignConsume,
       SignGiveUp, Acquire, AcquireTimeout, Refuse, Begin, To, Fail
  <2>3. \A d \in Call : pc'[d] \in {"queued", "durable", "running", "done"} <=>
                        pc[d] \in {"queued", "durable", "running", "done"}
    BY <1>0, <2>2 DEF Actor
  <2> QED
    BY <2>1, <2>3, SameCount
<1>2. ASSUME NEW c \in Actor, DurableStart(c) \/ CommitAdmission(c) \/ Finish(c) PROVE CountInv'
  <2>1. /\ UNCHANGED <<rate, slot>>
        /\ \E next \in {"durable", "running", "done"} :
             pc[c] \in {"queued", "durable", "running"} /\ pc' = [pc EXCEPT ![c] = next]
    BY <1>2 DEF DurableStart, CommitAdmission, Finish
  <2> QED
    BY <1>0, <2>1, SameCount
<1>3. CASE Decision
  <2>1. UNCHANGED <<pc, rate, slot>>
    BY <1>3 DEF Decision, DecideBegin, Authorized, AuthorizeUnconfirmed, AuthorizeRefused,
       WindowAudited, WindowAuditFailed, Publish, GrantWindow, GrantWindowFailed, ApproveExternal,
       Cancel, Undecided, actorVars
  <2> QED
    BY <2>1, SameCount
<1>4. CASE Environment \/ UNCHANGED vars
  <2>1. /\ UNCHANGED <<pc, slot>>
        /\ rate'.start = rate.start /\ rate'.count = rate.count
    BY <1>0, <1>4 DEF Environment, LockBegin, LockEnd, Unlock, ActivatePolicy, Fault, HourPasses,
       Lapse, LapseWindow, actorVars, vars
  <2> QED
    BY <2>1, SameCount
<1> QED
  BY <1>1, <1>2, <1>3, <1>4, SubmitCount, RejectCount DEF Next, Execution

\* The hourly count is exactly the calls of the hour in force that started or
\* still may: take_rate counts a call once, a dropped LocalRateReservation
\* returns a slot only to the hour it was taken from.
THEOREM HourlyCountIsExact == Spec => []RateExact
<1>1. Init => CountInv
  <2> SUFFICES ASSUME Init PROVE CountInv
    OBVIOUS
  <2>1. Counted = {}
    BY DEF Init, Counted, Actor
  <2>2. rate.count = 0 /\ rate.start = 0 /\ \A c \in Actor : slot[c] = 0
    BY DEF Init
  <2> QED
    BY <2>1, <2>2, FS_EmptySet DEF CountInv
<1>2. CountInv => RateExact
  BY DEF CountInv, Counted, RateExact
<1> QED
  BY <1>1, <1>2, CountStep, AlwaysSound, PTL DEF Spec

\* The requests that take a place in the table.
Lives == {a \in Approval : approval[a].state \in Live}

\* The entries that wait are finitely many, within the limit.
PendingInv == IsFiniteSet(Lives) /\ PendingBounded

\* A step that adds no request.
NoneNew == \A a \in Approval : approval[a].state = "absent" => approval'[a].state = "absent"

\* Steps other than a registration add no request.
LEMMA OnlyRegisterAdds ==
    ASSUME Sound, [Next]_vars,
           ~ \E c \in Actor, a \in Approval :
                Insert(c, a) /\ SamePending(c) = {} /\ Registrable /\ UNCHANGED lapsed
    PROVE  NoneNew
<1> USE DEF Sound, NoneNew
<1>1. ASSUME NEW c \in Actor, \/ AcquireTimeout(c) \/ Refuse(c) \/ SignGiveUp(c)
                              \/ RejectStart(c)
      PROVE  NoneNew
  <2>1. approval' = approval \/ approval' = GiveBack(c)
    BY <1>1 DEF AcquireTimeout, Refuse, SignGiveUp, RejectStart
  <2>2. CASE approval' = GiveBack(c)
    BY <2>2, GiveBackTable DEF Bystander, LocalApprovalState, Live
  <2> QED
    BY <2>1, <2>2
<1>2. ASSUME NEW c \in Actor, NEW a \in Approval, AdmitApproved(c, a)
      PROVE  NoneNew
  <2>1. c \in Call /\ approval[a].state # "absent"
    BY <1>2 DEF AdmitApproved, Entries, LocalApprovalState, Live
  <2> QED
    BY <1>2, <2>1, AdmitApprovedTable DEF Bystander
<1>3. ASSUME NEW c \in Actor, AdmitRegister(c)
      PROVE  NoneNew
  <2>1. CASE approval' = AllRefreshed
    BY <2>1, AllRefreshedIsTable, RefreshedIsEntry DEF Live
  <2>2. CASE approval' = Discard(AllRefreshed, {b \in Entries : Refreshed(b).state \notin Live})
    BY <2>2, RefreshTable DEF Bystander
  <2> QED
    BY <1>3, <2>1, <2>2 DEF AdmitRegister
<1>4. ASSUME NEW c \in Actor, CommitAdmission(c)
      PROVE  NoneNew
  <2>1. CASE c \in Call /\ basis[c].kind = "approval"
    <3>1. PICK a \in Approval : a = basis[c].id
      BY <2>1, BasisFacts
    <3>2. approval' = Consumed(approval, a)
      BY <1>4, <2>1, <3>1, CommitTable
    <3> QED
      BY <3>2, ReleaseTable DEF Bystander, LocalApprovalState, Live
  <2>2. CASE ~(c \in Call /\ basis[c].kind = "approval")
    BY <1>4, <2>2 DEF CommitAdmission
  <2> QED
    BY <2>1, <2>2
<1>5. CASE \/ \E c \in Actor :
                \/ AdmitAllowed(c) \/ AdmitWindow(c) \/ SignConsume(c) \/ Acquire(c) \/ Submit(c)
                \/ DurableStart(c) \/ Finish(c)
           \/ Decision
           \/ Environment
           \/ UNCHANGED vars
  BY <1>5, BystanderStep DEF Bystander
<1> QED
  BY <1>1, <1>2, <1>3, <1>4, <1>5 DEF Next, Admission, Execution

\* Without a new request the table stays within its limit, and a question asked
\* once stays asked once.
LEMMA KeptPending ==
    ASSUME Sound, PendingInv, approval' \in Table, \A a \in Approval : EntryStep(a), NoneNew,
           lapsed \subseteq lapsed', Sound'
    PROVE  PendingInv'
<1>1. \A a \in Approval :
        /\ approval'[a].state \in Live => approval[a].state \in Live
        /\ approval'[a].state = "Pending" => approval[a].state = "Pending"
  <2> TAKE a \in Approval
  <2>1. approval[a].state \in {"absent", "removed"} \cup LocalApprovalState
    BY TableFacts DEF Sound, Entry
  <2> QED
    BY <2>1 DEF NoneNew, EntryStep, Ended, Live, LocalApprovalState
<1>2. /\ Lives' \subseteq Lives
  BY <1>1 DEF Lives
<1>3. /\ IsFiniteSet(Lives') /\ Cardinality(Lives') <= MaxPending
  <2>1. /\ IsFiniteSet(Lives) /\ Cardinality(Lives) <= MaxPending
    BY DEF PendingInv, PendingBounded, Lives
  <2>2. /\ IsFiniteSet(Lives') /\ Cardinality(Lives') <= Cardinality(Lives)
    BY <1>2, <2>1, FS_Subset
  <2>3. Cardinality(Lives') \in Nat /\ Cardinality(Lives) \in Nat
    BY <2>1, <2>2, FS_CardinalityType
  <2> QED
    BY <2>1, <2>2, <2>3, LocalCallsAssumption
<1>4. ASSUME NEW a \in Entries', NEW b \in Entries',
             Refreshed(a)'.state = "Pending", Refreshed(b)'.state = "Pending",
             approval'[a].key = approval'[b].key, approval'[a].policy = approval'[b].policy,
             NEW c \in Call, approval'[a].key = KeyOf[c]
      PROVE  a = b
  <2>1. a \in Approval /\ b \in Approval
    BY DEF Entries
  <2>2. /\ approval'[a].state = "Pending" /\ a \notin lapsed'
        /\ approval'[b].state = "Pending" /\ b \notin lapsed'
    BY <1>4, <2>1 DEF Refreshed, Live, Table, Entry
  <2>3. /\ approval[a].state = "Pending" /\ a \notin lapsed
        /\ approval[b].state = "Pending" /\ b \notin lapsed
    BY <1>1, <2>1, <2>2
  <2>4. /\ approval[a].key = approval'[a].key /\ approval[a].policy = approval'[a].policy
        /\ approval[b].key = approval'[b].key /\ approval[b].policy = approval'[b].policy
    BY <2>1, <2>3 DEF EntryStep
  <2>5. a \in Entries /\ b \in Entries /\ Refreshed(a).state = "Pending" /\ Refreshed(b).state = "Pending"
    BY <2>1, <2>3 DEF Entries, LocalApprovalState, Live, Refreshed
  <2> QED
    BY <1>4, <2>4, <2>5 DEF PendingInv, PendingBounded
<1> QED
  BY <1>3, <1>4 DEF PendingInv, PendingBounded, Lives

\* A registration refreshes the table first, stays below the limit and asks a
\* call's question only if it is not being asked.
LEMMA InsertPending ==
    ASSUME Sound, Sound', PendingInv, NEW c \in Actor, NEW a \in Approval, Insert(c, a),
           SamePending(c) = {}, Registrable, UNCHANGED lapsed
    PROVE  PendingInv'
<1> DEFINE dead == {b \in Entries : Refreshed(b).state \notin Live}
           kept == {b \in Entries : Refreshed(b).state \in Live}
<1>1. /\ approval' \in Table /\ approval[a].state = "absent"
      /\ \A b \in Approval \ {a} : Bystander(b)
      /\ approval'[a].state = "Pending" /\ approval'[a].key = KeyOf[c]
      /\ approval'[a].policy = policy
  <2>1. approval'[a].policy = policy
    <3>1. Discard(AllRefreshed, dead) \in Table
      BY AllRefreshedIsTable, DiscardIsTable DEF Sound
    <3> QED
      BY <3>1 DEF Insert, Table
  <2> QED
    BY <2>1, InsertTable DEF Sound
<1>2. ASSUME NEW b \in Approval \ {a}, approval'[b].state \in Live
      PROVE  b \in kept /\ approval'[b] = Refreshed(b)
  <2>1. AllRefreshed \in Table /\ AllRefreshed[b] = Refreshed(b)
    BY AllRefreshedIsTable DEF Sound
  <2>2. Discard(AllRefreshed, dead) \in Table
    BY <2>1, DiscardIsTable
  <2>3. approval'[b] = Discard(AllRefreshed, dead)[b]
    BY <1>2, <2>2 DEF Insert, Table
  <2>4. b \notin dead
    BY <1>2, <2>1, <2>3, DiscardIsTable DEF Live
  <2>5. approval'[b] = Refreshed(b)
    BY <2>1, <2>3, <2>4, DiscardIsTable
  <2>6. approval[b].state \in Live
    BY <1>2, <2>5, RefreshedIsEntry DEF Sound, Live
  <2> QED
    BY <1>2, <2>4, <2>5, <2>6 DEF Entries, LocalApprovalState
<1>3. IsFiniteSet(Lives') /\ Cardinality(Lives') <= MaxPending
  <2>1. kept \subseteq Lives
    BY RefreshedIsEntry DEF Lives, Entries, Sound, Live
  <2>2. IsFiniteSet(kept) /\ Cardinality(kept) \in Nat
    BY <2>1, FS_Subset, FS_CardinalityType DEF PendingInv
  <2>3. Cardinality(kept) < MaxPending
    BY DEF Registrable
  <2>4. /\ IsFiniteSet(kept \cup {a}) /\ Cardinality(kept \cup {a}) \in Nat
        /\ Cardinality(kept \cup {a}) <= Cardinality(kept) + 1
    <3> HIDE DEF kept
    <3>1. /\ IsFiniteSet(kept \cup {a})
          /\ Cardinality(kept \cup {a}) = IF a \in kept THEN Cardinality(kept)
                                          ELSE Cardinality(kept) + 1
      BY <2>2, FS_AddElement
    <3> QED
      BY <2>2, <3>1
  <2>5. Lives' \subseteq kept \cup {a}
    BY <1>2 DEF Lives
  <2>6. /\ IsFiniteSet(Lives') /\ Cardinality(Lives') \in Nat
        /\ Cardinality(Lives') <= Cardinality(kept \cup {a})
    BY <2>4, <2>5, FS_Subset, FS_CardinalityType
  <2> QED
    BY <2>2, <2>3, <2>4, <2>6, LocalCallsAssumption
<1>4. ASSUME NEW b \in Approval \ {a}, approval'[b].state = "Pending", b \notin lapsed
      PROVE  /\ b \in Entries /\ Refreshed(b).state = "Pending" /\ approval'[b] = approval[b]
  <2>1. b \in kept /\ approval'[b] = Refreshed(b)
    BY <1>2, <1>4 DEF Live
  <2> QED
    BY <1>4, <2>1 DEF Refreshed
<1>5. ASSUME NEW b \in Approval \ {a}, approval'[b].state = "Pending", b \notin lapsed,
             approval'[b].key = KeyOf[c], approval'[b].policy = policy
      PROVE  c \notin Call
  BY <1>4, <1>5 DEF SamePending
<1>6. ASSUME NEW d \in Call, KeyOf[c] = KeyOf[d]
      PROVE  c \in Call
  BY <1>6, LocalCallsAssumption DEF Actor
<1>7. ASSUME NEW x \in Entries', NEW y \in Entries',
             Refreshed(x)'.state = "Pending", Refreshed(y)'.state = "Pending",
             approval'[x].key = approval'[y].key, approval'[x].policy = approval'[y].policy,
             NEW d \in Call, approval'[x].key = KeyOf[d]
      PROVE  x = y
  <2>1. /\ x \in Approval /\ approval'[x].state = "Pending" /\ x \notin lapsed
        /\ y \in Approval /\ approval'[y].state = "Pending" /\ y \notin lapsed
    BY <1>1, <1>7 DEF Entries, Refreshed, Live, Table, Entry
  <2>2. CASE x = a
    BY <1>1, <1>5, <1>6, <1>7, <2>1, <2>2
  <2>3. CASE y = a
    BY <1>1, <1>5, <1>6, <1>7, <2>1, <2>3
  <2>4. CASE x # a /\ y # a
    <3>1. /\ x \in Entries /\ Refreshed(x).state = "Pending" /\ approval'[x] = approval[x]
          /\ y \in Entries /\ Refreshed(y).state = "Pending" /\ approval'[y] = approval[y]
      BY <1>4, <2>1, <2>4
    <3> QED
      BY <1>7, <3>1 DEF PendingInv, PendingBounded
  <2> QED
    BY <2>2, <2>3, <2>4
<1> QED
  BY <1>3, <1>7 DEF PendingInv, PendingBounded, Lives

\* Every step keeps the table bounded.
LEMMA PendingStep ==
    ASSUME Sound, Sound', PendingInv, [Next]_vars
    PROVE  PendingInv'
<1>1. CASE \E c \in Actor, a \in Approval :
              Insert(c, a) /\ SamePending(c) = {} /\ Registrable /\ UNCHANGED lapsed
  BY <1>1, InsertPending
<1>2. CASE ~ \E c \in Actor, a \in Approval :
              Insert(c, a) /\ SamePending(c) = {} /\ Registrable /\ UNCHANGED lapsed
  <2>1. lapsed \subseteq lapsed'
    BY DEF Next, vars, tableVars, Admission, AdmitAllowed, AdmitWindow, AdmitRegister, AdmitApproved,
       SignConsume, SignGiveUp, Acquire, AcquireTimeout, Submit, Refuse, Execution, DurableStart,
       CommitAdmission, RejectStart, Finish, Decision, DecideBegin, Authorized,
       AuthorizeUnconfirmed, AuthorizeRefused, WindowAudited, WindowAuditFailed, Publish,
       GrantWindow, GrantWindowFailed, ApproveExternal, Cancel, Undecided, Environment, LockBegin,
       LockEnd, Unlock, ActivatePolicy, Fault, HourPasses, Lapse, LapseWindow
  <2> QED
    BY <1>2, <2>1, TableStep, OnlyRegisterAdds, KeptPending
<1> QED
  BY <1>1, <1>2

\* The table never holds more live requests than APPROVAL_PENDING_MAX, and a
\* call is never asked about twice at the same time: register refreshes, returns
\* the pending entry of the same request, and refuses at the limit.
THEOREM PendingIsBounded == Spec => []PendingBounded
<1>1. Init => PendingInv
  <2> SUFFICES ASSUME Init PROVE PendingInv
    OBVIOUS
  <2>1. \A a \in Approval : approval[a].state = "absent"
    BY DEF Init
  <2>2. Lives = {} /\ Entries = {}
    BY <2>1 DEF Lives, Entries, LocalApprovalState, Live
  <2>3. Cardinality(Lives) <= MaxPending /\ IsFiniteSet(Lives)
    BY <2>2, FS_EmptySet, LocalCallsAssumption
  <2> QED
    BY <2>2, <2>3 DEF PendingInv, PendingBounded, Lives
<1>2. PendingInv => PendingBounded
  BY DEF PendingInv
<1> QED
  BY <1>1, <1>2, PendingStep, AlwaysSound, PTL DEF Spec

\* The tables of LocalCalls, its tasks and the decision in progress keep their
\* types in every instance.
THEOREM CallsTypeCorrect == Spec => []TypeOK
  BY AlwaysSound, PTL DEF Sound

-----------------------------------------------------------------------------
(***************************************************************************)
(* Access requests (AccessRequests), for any number of requests and        *)
(* callers.  AccessInv counts the calls of a window as a set, so that the  *)
(* rate is its cardinality; what an administrator resolved is in the       *)
(* journal before it is in the table.                                      *)
(***************************************************************************)
CONSTANTS Request, Caller, CallerOf, MaxAccess, MaxEntries, MaxMinutes

VARIABLES access, overdue, blocked, quota, accessPc, minute, answer, admin, journal

\* The table, the block list, the rates and the administrator's handler,
\* for any sets of requests and callers.
Access == INSTANCE AccessRequests WITH
    status <- access, lapsed <- overdue, rate <- quota, pc <- accessPc

\* The instance counts sets as this module does.
LEMMA AccessCounts ==
    \A S : (Access!IsFiniteSet(S) <=> IsFiniteSet(S)) /\ Access!Cardinality(S) = Cardinality(S)
<1>1. ASSUME NEW S PROVE Access!IsFiniteSet(S) <=> IsFiniteSet(S)
  BY DEF Access!IsFiniteSet, IsFiniteSet
<1>2. ASSUME NEW S PROVE Access!Cardinality(S) = Cardinality(S)
  BY <1>1 DEF Access!Cardinality, Cardinality
<1>. QED BY <1>1, <1>2

\* The call was counted, whatever became of it.
Admitted(r) == accessPc[r] = "counted" \/ answer[r] \in {"created", "AUTHORITY_BUSY"}
\* The calls of a caller that its present rate window counted.
AccessWindow(c) == {r \in Request : CallerOf[r] = c /\ minute[r] = quota[c].start /\ Admitted(r)}

\* What a call has left behind at each of its steps
CallRight(r) ==
    /\ accessPc[r] # "answered" => access[r] = "absent" /\ answer[r] = "none"
    /\ Admitted(r) => minute[r] <= quota[CallerOf[r]].start

\* The count of a window is the calls it admitted.
RateRight(c) ==
    /\ quota[c].elapsed => quota[c].start < MaxMinutes
    /\ IsFiniteSet(AccessWindow(c)) /\ quota[c].count = Cardinality(AccessWindow(c))

\* The administrator's decision in progress is already in the journal.
AdminRight == admin # Access!NoAdmin => admin.status \in journal[admin.id]

\* The invariant: types, calls, counts, and what the journal says.
AccessInv ==
    /\ Access!TypeOK
    /\ \A r \in Request : CallRight(r)
    /\ \A c \in Caller : RateRight(c)
    /\ AdminRight /\ Access!ResolutionJournaled

\* It holds when the broker starts.
LEMMA AccessInit ==
    ASSUME Access!AccessAssumption
    PROVE  Access!Init => AccessInv
<1>. SUFFICES ASSUME Access!Init PROVE AccessInv OBVIOUS
<1>1. Access!TypeOK BY DEF Access!AccessAssumption, Access!Init, Access!TypeOK, Access!NoAdmin
<1>2. \A r \in Request : CallRight(r) BY DEF Access!Init, CallRight, Admitted
<1>3. ASSUME NEW c \in Caller PROVE RateRight(c)
  <2>1. AccessWindow(c) = {} BY DEF Access!Init, AccessWindow, Admitted
  <2>. QED BY <2>1, FS_EmptySet DEF Access!Init, RateRight
<1>4. AdminRight /\ Access!ResolutionJournaled
  BY DEF Access!Init, AdminRight, Access!ResolutionJournaled
<1>. QED BY <1>1, <1>2, <1>3, <1>4 DEF AccessInv

\* A step that moves no call between the steps of create_access and no window
LEMMA WindowsKept ==
    ASSUME AccessInv, NEW c \in Caller,
           quota'[c].start = quota[c].start, quota'[c].count = quota[c].count,
           quota'[c].elapsed => quota'[c].start < MaxMinutes,
           \A r \in Request : Admitted(r)' <=> Admitted(r),
           \A r \in Request : Admitted(r) => minute'[r] = minute[r]
    PROVE  RateRight(c)'
<1>1. AccessWindow(c)' = AccessWindow(c) BY DEF AccessWindow
<1>2. RateRight(c) BY DEF AccessInv
<1>. QED BY <1>1, <1>2 DEF RateRight

\* The block list is only read.
LEMMA CheckBlockedRight ==
    ASSUME AccessInv, NEW r \in Request, Access!CheckBlocked(r)
    PROVE  AccessInv'
<1>1. Access!TypeOK' BY DEF AccessInv, Access!TypeOK, Access!CheckBlocked, Access!Answered
<1>2. \A q \in Request : CallRight(q)' /\ (Admitted(q)' <=> Admitted(q))
  BY DEF AccessInv, Access!TypeOK, Access!CheckBlocked, Access!Answered, CallRight, Admitted
<1>3. \A c \in Caller : RateRight(c)'
  BY <1>2, WindowsKept DEF Access!CheckBlocked, AccessInv, RateRight
<1>4. (AdminRight /\ Access!ResolutionJournaled)'
  BY DEF AccessInv, Access!CheckBlocked, AdminRight, Access!ResolutionJournaled
<1>. QED BY <1>1, <1>2, <1>3, <1>4 DEF AccessInv

\* A new window starts empty; a window in force has what its count says.
LEMMA CountRateRight ==
    ASSUME Access!AccessAssumption,
           AccessInv, NEW r \in Request, Access!CountRate(r)
    PROVE  AccessInv'
<1>. DEFINE c == CallerOf[r]
<1>0. /\ c \in Caller /\ MaxAccess \in Nat \ {0} /\ MaxMinutes \in Nat
      /\ CallerOf \in [Request -> Caller] /\ Access!TypeOK
  BY DEF Access!AccessAssumption, AccessInv
<1>1. /\ Access!CurrentRate(c) \in [start : 0..MaxMinutes, count : 0..MaxAccess, elapsed : BOOLEAN]
      /\ Access!CurrentRate(c).elapsed = FALSE
      /\ quota[c].elapsed => Access!CurrentRate(c).start = quota[c].start + 1 /\ Access!CurrentRate(c).count = 0
      /\ ~quota[c].elapsed => Access!CurrentRate(c) = quota[c]
  <2>1. RateRight(c) BY <1>0 DEF AccessInv
  <2>2. quota[c] \in [start : 0..MaxMinutes, count : 0..MaxAccess, elapsed : BOOLEAN]
    BY <1>0 DEF Access!TypeOK
  <2>3. CASE quota[c].elapsed
    <3>1. quota[c].start + 1 \in 0..MaxMinutes BY <2>1, <2>2, <2>3, <1>0 DEF RateRight
    <3>. QED BY <3>1, <2>2, <2>3, <1>0 DEF Access!CurrentRate
  <2>4. CASE ~quota[c].elapsed BY <2>2, <2>4 DEF Access!CurrentRate
  <2>. QED BY <2>3, <2>4
<1>. HIDE DEF c
<1>2. CASE ~Access!RateLeft(c)
  <2>1. quota' = quota /\ Access!Answered(r, Access!Converted(Access!BudgetExceeded)) /\ accessPc[r] = "checked" /\ minute' = minute
        /\ access' = access /\ overdue' = overdue /\ blocked' = blocked /\ admin' = admin
        /\ journal' = journal
    <3>1. Access!CurrentRate(c) = quota[c] BY <1>0, <1>1, <1>2 DEF Access!RateLeft
    <3>2. quota' = [quota EXCEPT ![c] = Access!CurrentRate(c)] /\ Access!Answered(r, Access!Converted(Access!BudgetExceeded))
          /\ accessPc[r] = "checked" /\ minute' = minute
      BY <1>2 DEF Access!CountRate, c
    <3>3. quota' = quota BY <3>1, <3>2, <1>0 DEF Access!TypeOK
    <3>. QED BY <3>2, <3>3 DEF Access!CountRate
  <2>2. Access!Converted(Access!BudgetExceeded) = "BUDGET_EXCEEDED"
    BY DEF Access!Converted, Access!BudgetExceeded
  <2>3. Access!TypeOK' BY <1>0, <2>1, <2>2 DEF Access!TypeOK, Access!Answered
  <2>4. \A q \in Request : CallRight(q)' /\ (Admitted(q)' <=> Admitted(q))
    BY <1>0, <2>1, <2>2 DEF AccessInv, Access!TypeOK, Access!Answered, CallRight, Admitted
  <2>5. \A d \in Caller : RateRight(d)'
    BY <2>1, <2>4, WindowsKept DEF AccessInv, RateRight
  <2>6. (AdminRight /\ Access!ResolutionJournaled)'
    BY <2>1 DEF AccessInv, AdminRight, Access!ResolutionJournaled
  <2>. QED BY <2>3, <2>4, <2>5, <2>6 DEF AccessInv
<1>3. CASE Access!RateLeft(c)
  <2>1. /\ quota' = [quota EXCEPT ![c] = [Access!CurrentRate(c) EXCEPT !.count = @ + 1]]
        /\ minute' = [minute EXCEPT ![r] = Access!CurrentRate(c).start]
        /\ accessPc[r] = "checked" /\ accessPc' = [accessPc EXCEPT ![r] = "counted"] /\ answer' = answer
        /\ access' = access /\ overdue' = overdue /\ blocked' = blocked /\ admin' = admin
        /\ journal' = journal
    BY <1>3 DEF Access!CountRate, c
  <2>2. Access!CurrentRate(c).count + 1 \in 0..MaxAccess BY <1>0, <1>1, <1>3 DEF Access!RateLeft
  <2>3. /\ quota'[c] \in [start : 0..MaxMinutes, count : 0..MaxAccess, elapsed : BOOLEAN]
        /\ quota'[c].start = Access!CurrentRate(c).start
        /\ quota'[c].count = Access!CurrentRate(c).count + 1
        /\ quota'[c].elapsed = FALSE
    BY <1>0, <1>1, <2>1, <2>2 DEF Access!TypeOK
  <2>4. \A d \in Caller : d # c => quota'[d] = quota[d] BY <1>0, <2>1 DEF Access!TypeOK
  <2>5. Access!TypeOK' BY <1>0, <1>1, <2>1, <2>3, <2>4 DEF Access!TypeOK
  <2>6. \A q \in Request : Admitted(q)' <=> Admitted(q) \/ q = r
    BY <1>0, <2>1 DEF Access!TypeOK, Admitted
  <2>7. ~Admitted(r)
    BY <2>1 DEF AccessInv, CallRight, Admitted
  <2>8. \A q \in Request : q # r => minute'[q] = minute[q]
    BY <1>0, <2>1 DEF Access!TypeOK
  <2>9. \A d \in Caller : quota[d].start \in Nat /\ quota'[d].start \in Nat /\ quota[d].start <= quota'[d].start
    BY <1>0, <1>1, <2>3, <2>4 DEF Access!TypeOK
  <2>10. minute'[r] = quota'[c].start BY <1>0, <2>1, <2>3 DEF Access!TypeOK
  <2>11. \A q \in Request : CallRight(q)'
    <3>. SUFFICES ASSUME NEW q \in Request PROVE CallRight(q)' OBVIOUS
    <3>1. CallRight(q) BY DEF AccessInv
    <3>2. accessPc'[q] # "answered" => access'[q] = "absent" /\ answer'[q] = "none"
      BY <3>1, <1>0, <2>1 DEF CallRight, Access!TypeOK
    <3>3. CASE q = r BY <3>2, <3>3, <2>10, <2>9, <1>0 DEF CallRight, c
    <3>4. CASE q # r
      <4>1. Admitted(q)' => minute'[q] <= quota[CallerOf[q]].start
        BY <3>1, <3>4, <2>6, <2>8 DEF CallRight
      <4>2. CallerOf[q] \in Caller /\ minute'[q] \in Nat BY <1>0, <2>5 DEF Access!TypeOK
      <4>. QED BY <4>1, <4>2, <3>2, <2>9 DEF CallRight
    <3>. QED BY <3>3, <3>4
  <2>12. ASSUME NEW d \in Caller PROVE RateRight(d)'
    <3>0. RateRight(d) BY DEF AccessInv
    <3>1. CASE d # c
      <4>1. AccessWindow(d)' = AccessWindow(d)
        BY <3>1, <2>4, <2>6, <2>8 DEF AccessWindow, c
      <4>. QED BY <4>1, <3>0, <3>1, <2>4 DEF RateRight
    <3>2. CASE d = c /\ quota[c].elapsed
      <4>1. \A q \in Request : CallerOf[q] = c /\ Admitted(q) => minute[q] < quota'[c].start
        <5>. SUFFICES ASSUME NEW q \in Request, CallerOf[q] = c, Admitted(q)
                      PROVE  minute[q] < quota'[c].start
          OBVIOUS
        <5>1. minute[q] <= quota[c].start BY DEF AccessInv, CallRight
        <5>2. minute[q] \in Nat BY <1>0 DEF Access!TypeOK
        <5>. QED BY <5>1, <5>2, <2>9, <3>2, <1>0, <1>1, <2>3
      <4>2. AccessWindow(c)' = {r}
        <5>1. r \in AccessWindow(c)' BY <2>10, <2>6 DEF AccessWindow, c
        <5>2. ASSUME NEW q \in AccessWindow(c)' PROVE q = r
          <6>1. q \in Request /\ CallerOf[q] = c /\ minute'[q] = quota'[c].start /\ Admitted(q)'
            BY DEF AccessWindow
          <6>2. minute'[q] \in Nat BY <6>1, <2>5 DEF Access!TypeOK
          <6>. QED BY <6>1, <6>2, <2>6, <2>8, <4>1
        <5>. QED BY <5>1, <5>2
      <4>3. IsFiniteSet({r}) /\ Cardinality({r}) = 1 BY FS_Singleton
      <4>4. quota'[c].count = 1 BY <2>3, <3>2, <1>1
      <4>. QED BY <4>2, <4>3, <4>4, <3>2, <2>3 DEF RateRight
    <3>3. CASE d = c /\ ~quota[c].elapsed
      <4>1. AccessWindow(c)' = AccessWindow(c) \cup {r} /\ r \notin AccessWindow(c)
        <5>1. quota'[c].start = quota[c].start BY <3>3, <2>3, <1>1
        <5>2. r \notin AccessWindow(c) BY <2>7 DEF AccessWindow
        <5>. QED BY <5>1, <5>2, <2>6, <2>8, <2>10 DEF AccessWindow, c
      <4>2. IsFiniteSet(AccessWindow(c)) /\ quota[c].count = Cardinality(AccessWindow(c))
        BY <3>0, <3>3 DEF RateRight
      <4>3. IsFiniteSet(AccessWindow(c)') /\ Cardinality(AccessWindow(c)') = Cardinality(AccessWindow(c)) + 1
        BY <4>1, <4>2, FS_AddElement
      <4>. QED BY <4>2, <4>3, <3>3, <2>3, <1>1 DEF RateRight
    <3>. QED BY <3>1, <3>2, <3>3
  <2>13. (AdminRight /\ Access!ResolutionJournaled)'
    BY <2>1 DEF AccessInv, AdminRight, Access!ResolutionJournaled
  <2>. QED BY <2>5, <2>11, <2>12, <2>13 DEF AccessInv
<1>. QED BY <1>2, <1>3

\* The last of create_access's steps fills the table and changes no count.
LEMMA CreateAccessRight ==
    ASSUME AccessInv, NEW r \in Request, Access!CreateAccess(r)
    PROVE  AccessInv'
<1>1. \E code \in {"created", "AUTHORITY_BUSY"} : Access!Answered(r, code)
  BY DEF Access!CreateAccess
<1>2. \A q \in Request : \/ access'[q] \in {access[q], "removed"}
                         \/ q = r /\ access'[q] = "Pending"
  BY DEF Access!CreateAccess, AccessInv, Access!TypeOK
<1>3. /\ accessPc[r] = "counted" /\ access' \in [Request -> {"absent", "removed"} \cup Access!AccessRequestStatus]
      /\ \A q \in Request : access[q] = "absent" => access'[q] = "absent" \/ q = r
  BY DEF Access!CreateAccess, AccessInv, Access!TypeOK, Access!AccessRequestStatus,
         Access!Entries
<1>4. Access!TypeOK' BY <1>1, <1>3
                        DEF AccessInv, Access!TypeOK, Access!CreateAccess, Access!Answered
<1>5. \A q \in Request : CallRight(q)' /\ (Admitted(q)' <=> Admitted(q))
  BY <1>1, <1>3
     DEF AccessInv, Access!TypeOK, Access!CreateAccess, Access!Answered, CallRight, Admitted
<1>6. \A c \in Caller : RateRight(c)'
  BY <1>5, WindowsKept DEF Access!CreateAccess, AccessInv, RateRight
<1>7. (AdminRight /\ Access!ResolutionJournaled)'
  BY <1>2 DEF AccessInv, Access!CreateAccess, AdminRight, Access!ResolutionJournaled
<1>. QED BY <1>4, <1>5, <1>6, <1>7 DEF AccessInv

\* A resolution writes its event before the table changes.
LEMMA ResolveRight ==
    ASSUME Access!AccessAssumption,
           AccessInv,
           \/ Access!ResolveAccess
           \/ \E r \in Request : \/ Access!ResolveUnaudited(r) \/ Access!Look(r)
                                 \/ \E granted, block \in BOOLEAN : Access!ResolveAudited(r, granted, block)
    PROVE  AccessInv'
<1>1. UNCHANGED <<overdue, quota, accessPc, minute, answer>>
  BY DEF Access!ResolveAccess, Access!ResolveUnaudited, Access!Look, Access!ResolveAudited
<1>2. Access!TypeOK'
  <2>1. CASE Access!ResolveAccess
    <3>1. /\ admin # Access!NoAdmin /\ admin' = Access!NoAdmin /\ Access!TypeOK /\ journal' = journal
          /\ CallerOf \in [Request -> Caller]
      BY <2>1 DEF Access!ResolveAccess, AccessInv, Access!AccessAssumption
    <3>2. admin.id \in Request /\ admin.status \in {"Granted", "Rejected"} /\ admin.block \in BOOLEAN
      BY <3>1 DEF Access!TypeOK
    <3>3. access' \in [Request -> {"absent", "removed"} \cup Access!AccessRequestStatus]
      BY <2>1, <3>1, <3>2
         DEF Access!ResolveAccess, Access!TypeOK, Access!Refreshed, Access!AccessRequestStatus
    <3>4. blocked' \subseteq Caller BY <2>1, <3>1, <3>2 DEF Access!ResolveAccess, Access!TypeOK
    <3>. HIDE DEF Access!NoAdmin
    <3>. QED BY <3>1, <3>3, <3>4, <1>1 DEF Access!TypeOK
  <2>2. ASSUME NEW r \in Request, Access!ResolveUnaudited(r) \/ Access!Look(r) PROVE Access!TypeOK'
    BY <2>2
       DEF AccessInv, Access!TypeOK, Access!ResolveUnaudited, Access!Look, Access!Refreshed,
           Access!AccessRequestStatus
  <2>3. ASSUME NEW r \in Request, NEW granted \in BOOLEAN, NEW block \in BOOLEAN,
               Access!ResolveAudited(r, granted, block)
        PROVE  Access!TypeOK'
    BY <2>3
       DEF AccessInv, Access!TypeOK, Access!ResolveAudited, Access!Refreshed,
           Access!AccessRequestStatus
  <2>. QED BY <2>1, <2>2, <2>3
<1>3. \A q \in Request : access[q] = "absent" => access'[q] = "absent"
  <2>1. CASE Access!ResolveAccess
    BY <2>1 DEF AccessInv, Access!TypeOK, Access!ResolveAccess, Access!Refreshed
  <2>. QED BY <2>1
              DEF AccessInv, Access!TypeOK, Access!ResolveUnaudited, Access!Look,
                  Access!ResolveAudited, Access!Refreshed
<1>4. \A q \in Request : CallRight(q)' /\ (Admitted(q)' <=> Admitted(q))
  BY <1>1, <1>3 DEF AccessInv, CallRight, Admitted
<1>5. \A c \in Caller : RateRight(c)'
  BY <1>1, <1>4, WindowsKept DEF AccessInv, RateRight
<1>6. (AdminRight /\ Access!ResolutionJournaled)'
  <2>1. CASE Access!ResolveAccess
    BY <2>1
       DEF AccessInv, Access!TypeOK, Access!ResolveAccess, Access!Refreshed, AdminRight,
           Access!ResolutionJournaled
  <2>2. ASSUME NEW r \in Request, Access!ResolveUnaudited(r) \/ Access!Look(r)
        PROVE (AdminRight /\ Access!ResolutionJournaled)'
    BY <2>2
       DEF AccessInv, Access!TypeOK, Access!ResolveUnaudited, Access!Look, Access!Refreshed,
           AdminRight, Access!ResolutionJournaled
  <2>3. ASSUME NEW r \in Request, NEW granted \in BOOLEAN, NEW block \in BOOLEAN,
               Access!ResolveAudited(r, granted, block)
        PROVE  (AdminRight /\ Access!ResolutionJournaled)'
    BY <2>3
       DEF AccessInv, Access!TypeOK, Access!ResolveAudited, Access!Refreshed, AdminRight,
           Access!ResolutionJournaled
  <2>. QED BY <2>1, <2>2, <2>3
<1>. QED BY <1>2, <1>4, <1>5, <1>6 DEF AccessInv

\* Time passes, and callers are blocked, without a change to a request's answer.
LEMMA TimeRight ==
    ASSUME Access!AccessAssumption,
           AccessInv,
           \/ \E r \in Request : Access!Lapse(r)
           \/ \E c \in Caller : Access!MinutePasses(c) \/ \E block \in BOOLEAN : Access!BlockCaller(c, block)
           \/ UNCHANGED Access!vars
    PROVE  AccessInv'
<1>1. /\ UNCHANGED <<access, accessPc, minute, answer, admin, journal>>
      /\ \A c \in Caller : /\ quota'[c].start = quota[c].start /\ quota'[c].count = quota[c].count
                           /\ quota'[c].elapsed => quota'[c].start < MaxMinutes
  BY DEF AccessInv, RateRight, Access!TypeOK, Access!Lapse, Access!MinutePasses,
         Access!BlockCaller, Access!vars
<1>2. Access!TypeOK'
  <2>1. CASE \E c \in Caller : Access!MinutePasses(c)
    <3>1. PICK c \in Caller : Access!MinutePasses(c) BY <2>1
    <3>2. quota'[c] \in [start : 0..MaxMinutes, count : 0..MaxAccess, elapsed : BOOLEAN]
      BY <3>1 DEF AccessInv, Access!TypeOK, Access!MinutePasses
    <3>. QED BY <3>1, <3>2, <1>1 DEF AccessInv, Access!TypeOK, Access!MinutePasses
  <2>. QED BY <2>1
              DEF AccessInv, Access!TypeOK, Access!Lapse, Access!BlockCaller, Access!vars,
                  Access!Entries
<1>3. \A q \in Request : CallRight(q)' /\ (Admitted(q)' <=> Admitted(q))
  BY <1>1 DEF AccessInv, CallRight, Admitted, Access!AccessAssumption
<1>4. \A c \in Caller : RateRight(c)'
  BY <1>1, <1>3, WindowsKept
<1>5. (AdminRight /\ Access!ResolutionJournaled)'
  BY <1>1 DEF AccessInv, AdminRight, Access!ResolutionJournaled
<1>. QED BY <1>2, <1>3, <1>4, <1>5 DEF AccessInv

\* Every step keeps the invariant.
LEMMA AccessAlways ==
    ASSUME Access!AccessAssumption
    PROVE  Access!Spec => []AccessInv
<1>1. AccessInv /\ [Access!Next]_Access!vars => AccessInv'
  BY CheckBlockedRight, CountRateRight, CreateAccessRight, ResolveRight, TimeRight
     DEF Access!Next
<1>. QED BY <1>1, AccessInit, PTL DEF Access!Spec

\* Types hold in every state; in particular no caller's count exceeds the
\* requests per minute that create_access allows (take_rate).
THEOREM AccessTypeCorrect ==
    ASSUME Access!AccessAssumption
    PROVE  Access!Spec => []Access!TypeOK
<1>1. AccessInv => Access!TypeOK BY DEF AccessInv
<1>. QED BY <1>1, AccessAlways, PTL

\* An access request is granted or rejected only when its
\* access_request.resolved event says the same (access_admin, resolve_access).
THEOREM ResolutionsAreJournaled ==
    ASSUME Access!AccessAssumption
    PROVE  Access!Spec => []Access!ResolutionJournaled
<1>1. AccessInv => Access!ResolutionJournaled BY DEF AccessInv
<1>. QED BY <1>1, AccessAlways, PTL

\* A caller's count is the calls of its window that passed take_rate, although
\* the block list, the rates and the table are locked one after the other
\* (create_access).
THEOREM AccessCountIsExact ==
    ASSUME Access!AccessAssumption
    PROVE  Access!Spec => []Access!AccessRateExact
<1>1. AccessInv => Access!AccessRateExact
  BY AccessCounts DEF AccessInv, RateRight, AccessWindow, Admitted, Access!AccessRateExact
<1>. QED BY <1>1, AccessAlways, PTL

\* A request that was resolved, or expired, is never resolved again, although
\* its event is written between the look-up and the update (resolve_access).
THEOREM RequestsResolveOnce ==
    ASSUME Access!AccessAssumption
    PROVE  Access!Spec => [][Access!ResolvedOnce]_Access!vars
<1>1. AccessInv /\ [Access!Next]_Access!vars => [Access!ResolvedOnce]_Access!vars
  <2>. SUFFICES ASSUME AccessInv, Access!Next PROVE Access!ResolvedOnce OBVIOUS
  <2>1. ASSUME NEW r \in Request, Access!CreateAccess(r) PROVE Access!ResolvedOnce
    <3>1. access[r] = "absent" BY <2>1 DEF AccessInv, CallRight, Access!CreateAccess
    <3>. QED BY <2>1, <3>1
                DEF Access!CreateAccess, Access!ResolvedOnce, AccessInv, Access!TypeOK
  <2>2. CASE Access!ResolveAccess
    BY <2>2
       DEF Access!ResolveAccess, Access!ResolvedOnce, AccessInv, Access!TypeOK, Access!Refreshed
  <2>3. ASSUME NEW r \in Request, Access!ResolveUnaudited(r) \/ Access!Look(r) PROVE Access!ResolvedOnce
    BY <2>3
       DEF Access!ResolveUnaudited, Access!Look, Access!ResolvedOnce, AccessInv, Access!TypeOK,
           Access!Refreshed
  <2>4. ASSUME NEW r \in Request, NEW granted \in BOOLEAN, NEW block \in BOOLEAN,
               Access!ResolveAudited(r, granted, block)
        PROVE  Access!ResolvedOnce
    BY <2>4
       DEF Access!ResolveAudited, Access!ResolvedOnce, AccessInv, Access!TypeOK,
           Access!Refreshed
  <2>5. ASSUME access' = access PROVE Access!ResolvedOnce BY <2>5 DEF Access!ResolvedOnce
  <2>. QED BY <2>1, <2>2, <2>3, <2>4, <2>5
              DEF Access!Next, Access!CheckBlocked, Access!CountRate, Access!Lapse,
                  Access!MinutePasses, Access!BlockCaller
<1>. QED BY <1>1, AccessAlways, PTL DEF Access!Spec

-----------------------------------------------------------------------------
(***************************************************************************)
(* The session registry (Sessions), for any sessions, requests, approvals  *)
(* and approvers.  Lemmas say what each operation does to an entry         *)
(* (LifeStep, Tame), to a request (Moves) and to an approval record (Ages, *)
(* Filed).  Three invariants build on each other: SessionInv has the       *)
(* types, the slots and the uses; ApprovalInv says what the records mean   *)
(* and that nobody is asked twice; SpentInv pays every start of a signed   *)
(* approval with the uses of its grants, counted as a set of pairs of an   *)
(* approver and the number of the use.                                     *)
(***************************************************************************)
CONSTANTS Session, Exec, Challenge, Approver, SessionKey, Profile, Workload, Need,
          MaxUses, MaxConcurrent, OwnerLimit, PendingMax, Threshold, GrantUses, MaxReopen

VARIABLES registryClosed, entry, challenge, uses, expired, guard, exec, sessionCoordinator,
          sessionDecision, wall, late, effects, starts, refused, reopened

\* The registry with everything that calls it, for any sets of sessions,
\* requests, challenges and approvers.
Reg == INSTANCE Sessions WITH
    Key <- SessionKey, closed <- registryClosed, coordinator <- sessionCoordinator,
    decision <- sessionDecision

\* The instance counts sets as this module does.
LEMMA RegCounts ==
    \A S : (Reg!IsFiniteSet(S) <=> IsFiniteSet(S)) /\ Reg!Cardinality(S) = Cardinality(S)
<1>1. ASSUME NEW S PROVE Reg!IsFiniteSet(S) <=> IsFiniteSet(S)
  BY DEF Reg!IsFiniteSet, IsFiniteSet
<1>2. ASSUME NEW S PROVE Reg!Cardinality(S) = Cardinality(S)
  BY <1>1 DEF Reg!Cardinality, Cardinality
<1>. QED BY <1>1, <1>2

\* An entry of the registry, an approval record and a running request.
SessionEntry == [state : {"none", "minted", "live", "gone"}, uses : 0..MaxUses,
                 inFlight : 0..MaxConcurrent, revoked : BOOLEAN, exhausted : BOOLEAN]
PendingRecord == [state : {"none", "Consumed", "Cancelled", "Expired"} \cup Reg!Live,
           session : Session, key : SessionKey, local : BOOLEAN]
Running == [pc : Reg!ExecPc \ {"idle"}, session : Session, key : SessionKey,
            refunded : BOOLEAN, wanted : SUBSET Challenge]

\* The type invariant in terms of these sets.
LEMMA TypesOpen ==
    Reg!TypeOK <=>
    /\ registryClosed \in BOOLEAN
    /\ entry \in [Session -> SessionEntry]
    /\ challenge \in [Challenge -> PendingRecord]
    /\ uses \in [Challenge \X Approver -> Nat]
    /\ expired \subseteq Challenge \X Approver
    /\ guard \subseteq Profile
    /\ exec \in [Exec -> {Reg!Idle} \cup Running]
    /\ sessionCoordinator \in {"free", "admin"} \cup Exec
    /\ sessionDecision \in SUBSET [id : Challenge, approve : BOOLEAN]
    /\ wall \in 0..3 /\ late \subseteq Session \cup Challenge
    /\ effects \in [Session -> Nat] /\ starts \in [Challenge -> Nat]
    /\ refused \subseteq Session \cup (Challenge \X Approver)
    /\ reopened \in 0..MaxReopen
BY DEF Reg!TypeOK, SessionEntry, PendingRecord, Running

\* Compaction changes nothing but the state of an entry that nobody uses any more.
LEMMA CompactFacts ==
    ASSUME Reg!SessionsAssumption,
           NEW ent \in [Session -> SessionEntry]
    PROVE  /\ Reg!Compact(ent) \in [Session -> SessionEntry]
           /\ \A s \in Session :
                /\ Reg!Compact(ent)[s].uses = ent[s].uses
                /\ Reg!Compact(ent)[s].inFlight = ent[s].inFlight
                /\ Reg!Compact(ent)[s].revoked = ent[s].revoked
                /\ Reg!Compact(ent)[s].exhausted = ent[s].exhausted
                /\ \/ Reg!Compact(ent)[s].state = ent[s].state
                   \/ /\ ent[s].state \in {"minted", "live"} /\ Reg!Compact(ent)[s].state = "gone"
                      /\ ent[s].inFlight = 0
                      /\ \/ ent[s].revoked \/ s \in late
                         \/ \A c \in Reg!Held(s) : ~challenge[c].local
<1>. DEFINE T == Reg!Compact(ent)
<1>1. ASSUME NEW s \in Session
      PROVE  /\ T[s] \in SessionEntry
             /\ T[s].uses = ent[s].uses
             /\ T[s].inFlight = ent[s].inFlight
             /\ T[s].revoked = ent[s].revoked
             /\ T[s].exhausted = ent[s].exhausted
             /\ \/ T[s].state = ent[s].state
                \/ /\ ent[s].state \in {"minted", "live"} /\ T[s].state = "gone"
                   /\ ent[s].inFlight = 0
                   /\ \/ ent[s].revoked \/ s \in late
                      \/ \A c \in Reg!Held(s) : ~challenge[c].local
  <2>0. MaxConcurrent \in Nat BY DEF Reg!SessionsAssumption
  <2>1. T[s] = IF ent[s].state \in {"minted", "live"} /\ ~Reg!Retained(ent, s)
               THEN [ent[s] EXCEPT !.state = "gone"] ELSE ent[s]
    BY DEF Reg!Compact
  <2>2. CASE ent[s].state \in {"minted", "live"} /\ ~Reg!Retained(ent, s)
    <3>1. T[s] = [ent[s] EXCEPT !.state = "gone"] BY <2>1, <2>2
    <3>2. ent[s] \in SessionEntry OBVIOUS
    <3>3. ent[s].inFlight = 0 BY <2>0, <2>2, <3>2 DEF Reg!Retained, SessionEntry
    <3>4. ent[s].revoked \/ s \in late \/ \A c \in Reg!Held(s) : ~challenge[c].local
      BY <2>2 DEF Reg!Retained
    <3>. HIDE DEF T
    <3>. QED BY <3>1, <3>2, <3>3, <3>4, <2>2 DEF SessionEntry
  <2>3. CASE ~(ent[s].state \in {"minted", "live"} /\ ~Reg!Retained(ent, s))
    BY <2>1, <2>3
  <2>. QED BY <2>2, <2>3
<1>2. T \in [Session -> SessionEntry]
  <2>1. T = [s \in Session |-> T[s]] BY DEF Reg!Compact
  <2>. HIDE DEF T
  <2>. QED BY <1>1, <2>1
<1>. QED BY <1>1, <1>2

\* What a revocation leaves of an entry
LEMMA RevokedFacts ==
    ASSUME Reg!SessionsAssumption,
           Reg!TypeOK, NEW ids
    PROVE  /\ Reg!Revoked(ids) \in [Session -> SessionEntry]
           /\ \A s \in Session :
                /\ Reg!Revoked(ids)[s].uses = entry[s].uses
                /\ Reg!Revoked(ids)[s].inFlight = entry[s].inFlight
                /\ Reg!Revoked(ids)[s].exhausted = entry[s].exhausted
                /\ Reg!Revoked(ids)[s].revoked = (entry[s].revoked \/ (s \in ids /\ Reg!Present(s)))
                /\ \/ Reg!Revoked(ids)[s].state = entry[s].state
                   \/ /\ Reg!Present(s) /\ Reg!Revoked(ids)[s].state = "gone"
                      /\ Reg!Revoked(ids)[s].inFlight = 0
                      /\ \/ Reg!Revoked(ids)[s].revoked \/ s \in late
                         \/ \A c \in Reg!Held(s) : ~challenge[c].local
<1>. DEFINE ent == [s \in Session |-> IF s \in ids /\ Reg!Present(s)
                                      THEN [entry[s] EXCEPT !.revoked = TRUE] ELSE entry[s]]
<1>0. entry \in [Session -> SessionEntry] BY TypesOpen
<1>1. ASSUME NEW s \in Session
      PROVE  /\ ent[s] \in SessionEntry
             /\ ent[s].uses = entry[s].uses /\ ent[s].inFlight = entry[s].inFlight
             /\ ent[s].exhausted = entry[s].exhausted /\ ent[s].state = entry[s].state
             /\ ent[s].revoked = (entry[s].revoked \/ (s \in ids /\ Reg!Present(s)))
  <2>1. CASE s \in ids /\ Reg!Present(s)
    <3>1. ent[s] = [entry[s] EXCEPT !.revoked = TRUE] BY <2>1
    <3>. HIDE DEF ent
    <3>. QED BY <3>1, <2>1, <1>0 DEF SessionEntry
  <2>2. CASE ~(s \in ids /\ Reg!Present(s)) 
    <3>1. ent[s] = entry[s] BY <2>2
    <3>. HIDE DEF ent
    <3>2. entry[s].revoked \in BOOLEAN BY <1>0 DEF SessionEntry
    <3>. QED BY <3>1, <3>2, <2>2, <1>0
  <2>. QED BY <2>1, <2>2
<1>2. ent \in [Session -> SessionEntry] BY <1>1
<1>3. Reg!Revoked(ids) = Reg!Compact(ent) BY DEF Reg!Revoked
<1>. HIDE DEF ent
<1>. QED BY <1>1, <1>2, <1>3, CompactFacts DEF Reg!Present

\* What the end of an execution leaves of the entries
LEMMA FinishedFacts ==
    ASSUME Reg!SessionsAssumption,
           Reg!TypeOK, NEW t \in Session
    PROVE  /\ Reg!Finished(t) \in [Session -> SessionEntry]
           /\ Reg!Finished(t)[t].inFlight = IF entry[t].inFlight = 0 THEN 0 ELSE entry[t].inFlight - 1
           /\ \A s \in Session :
                /\ s # t => Reg!Finished(t)[s].inFlight = entry[s].inFlight
                /\ Reg!Finished(t)[s].uses = entry[s].uses
                /\ Reg!Finished(t)[s].exhausted = entry[s].exhausted
                /\ Reg!Finished(t)[s].revoked = entry[s].revoked
                /\ \/ Reg!Finished(t)[s].state = entry[s].state
                   \/ /\ Reg!Present(s) /\ Reg!Finished(t)[s].state = "gone"
                      /\ Reg!Finished(t)[s].inFlight = 0
                      /\ \/ Reg!Finished(t)[s].revoked \/ s \in late
                         \/ \A c \in Reg!Held(s) : ~challenge[c].local
<1>. DEFINE n == IF entry[t].inFlight = 0 THEN 0 ELSE entry[t].inFlight - 1
            ent == [entry EXCEPT ![t].inFlight = n]
<1>0. entry \in [Session -> SessionEntry] /\ MaxConcurrent \in Nat
  BY TypesOpen DEF Reg!SessionsAssumption
<1>1. n \in 0..MaxConcurrent BY <1>0 DEF SessionEntry
<1>2. Reg!Finished(t) = Reg!Compact(ent) BY DEF Reg!Finished
<1>. HIDE DEF n
<1>3. /\ ent \in [Session -> SessionEntry] /\ ent[t].inFlight = n
      /\ \A s \in Session : /\ s # t => ent[s] = entry[s]
                            /\ ent[s].uses = entry[s].uses /\ ent[s].exhausted = entry[s].exhausted
                            /\ ent[s].revoked = entry[s].revoked /\ ent[s].state = entry[s].state
  BY <1>0, <1>1 DEF SessionEntry
<1>. HIDE DEF ent
<1>4. \A s \in Session : s # t => Reg!Compact(ent)[s].inFlight = entry[s].inFlight
  BY <1>3, CompactFacts
<1>5. Reg!Compact(ent)[t].inFlight = n BY <1>3, CompactFacts
<1>6. Reg!Compact(ent) \in [Session -> SessionEntry] BY <1>3, CompactFacts
<1>7. ASSUME NEW s \in Session
      PROVE /\ Reg!Compact(ent)[s].uses = entry[s].uses
                /\ Reg!Compact(ent)[s].exhausted = entry[s].exhausted
                /\ Reg!Compact(ent)[s].revoked = entry[s].revoked
                /\ \/ Reg!Compact(ent)[s].state = entry[s].state
                   \/ /\ Reg!Present(s) /\ Reg!Compact(ent)[s].state = "gone"
                      /\ Reg!Compact(ent)[s].inFlight = 0
                      /\ \/ Reg!Compact(ent)[s].revoked \/ s \in late
                         \/ \A c \in Reg!Held(s) : ~challenge[c].local
  BY <1>3, CompactFacts DEF Reg!Present
<1>. QED BY <1>2, <1>4, <1>5, <1>6, <1>7 DEF n

-----------------------------------------------------------------------------
(* Where requests are, and what they hold *)

\* The requests that still hold a use: neither refunded nor handed off.
Working(s) == {e \in Reg!Permits(s) : ~exec[e].refunded /\ exec[e].pc # "closing"}

\* Where a request can be; one that publishes holds the coordinator.
ExecRight(e) ==
    /\ exec[e].pc # "idle" => /\ exec[e].refunded => exec[e].pc = "closing"
                              /\ exec[e].pc \in {"publishing", "approved"} =>
                                     Need[exec[e].key] = "local"
    /\ exec[e].pc = "publishing" <=> sessionCoordinator = e

\* The slots of an entry are its permits, and it stays while it has some.
SlotsRight(s) ==
    /\ IsFiniteSet(Reg!Permits(s)) /\ entry[s].inFlight = Cardinality(Reg!Permits(s))
    /\ entry[s].inFlight > 0 => Reg!Present(s)

\* The uses left, handed off and held never exceed those granted.
Budget(s) == entry[s].uses + effects[s] + Cardinality(Working(s)) <= MaxUses

\* The first invariant: types, requests, the decision, slots and uses.
SessionInv ==
    /\ Reg!TypeOK
    /\ \A e \in Exec : ExecRight(e)
    /\ sessionDecision # {} => sessionCoordinator = "admin"
    /\ \A s \in Session : SlotsRight(s) /\ Budget(s)

\* It holds when the broker starts, with the registry closed.
LEMMA SessionInit ==
    ASSUME Reg!SessionsAssumption
    PROVE  Reg!Init => SessionInv
<1>. SUFFICES ASSUME Reg!Init PROVE SessionInv OBVIOUS
<1>0. /\ Session # {} /\ SessionKey # {} /\ MaxUses \in Nat /\ MaxConcurrent \in Nat /\ MaxReopen \in Nat
      /\ "free" \notin Exec
  BY DEF Reg!SessionsAssumption
<1>1. Reg!TypeOK
  <2>1. entry \in [Session -> SessionEntry] BY <1>0 DEF Reg!Init, SessionEntry
  <2>2. challenge \in [Challenge -> PendingRecord]
    <3>1. (CHOOSE s \in Session : TRUE) \in Session /\ (CHOOSE k \in SessionKey : TRUE) \in SessionKey
        BY <1>0
    <3>. QED BY <3>1 DEF Reg!Init, PendingRecord
  <2>3. exec \in [Exec -> {Reg!Idle} \cup Running] BY DEF Reg!Init
  <2>4. reopened \in 0..MaxReopen /\ wall \in 0..3 /\ uses \in [Challenge \X Approver -> Nat]
        /\ effects \in [Session -> Nat] /\ starts \in [Challenge -> Nat]
    BY <1>0 DEF Reg!Init
  <2>. QED BY <2>1, <2>2, <2>3, <2>4, TypesOpen DEF Reg!Init
<1>2. \A e \in Exec : ExecRight(e) BY <1>0 DEF Reg!Init, ExecRight, Reg!Idle
<1>3. ASSUME NEW s \in Session PROVE SlotsRight(s) /\ Budget(s)
  <2>1. Reg!Permits(s) = {} /\ Working(s) = {} BY DEF Reg!Init, Reg!Permits, Working, Reg!Idle
  <2>2. IsFiniteSet({}) /\ Cardinality({}) = 0 BY FS_EmptySet
  <2>. QED BY <2>1, <2>2, <1>0 DEF Reg!Init, SlotsRight, Budget
<1>. QED BY <1>1, <1>2, <1>3 DEF Reg!Init, SessionInv

\* What is known of a request that is not idle
LEMMA RunningFacts ==
    ASSUME Reg!TypeOK, NEW e \in Exec, exec[e].pc # "idle"
    PROVE  /\ exec[e] \in Running /\ exec[e].session \in Session /\ exec[e].key \in SessionKey
           /\ exec[e].refunded \in BOOLEAN /\ exec[e].wanted \subseteq Challenge
           /\ exec[e].pc \in Reg!ExecPc \ {"idle"}
<1>1. exec[e] \in {Reg!Idle} \cup Running BY TypesOpen
<1>2. exec[e] # Reg!Idle BY DEF Reg!Idle
<1>. QED BY <1>1, <1>2 DEF Running

\* A request goes on under the permit it has.
Moves(e) ==
    /\ exec' \in [Exec -> {Reg!Idle} \cup Running]
    /\ exec[e].pc # "idle" /\ exec'[e].pc # "idle"
    /\ exec'[e].session = exec[e].session /\ exec'[e].key = exec[e].key
    /\ exec'[e].wanted = exec[e].wanted
    /\ \A f \in Exec : f # e => exec'[f] = exec[f]

\* A change of place moves that request only.
LEMMA ToMoves ==
    ASSUME Reg!TypeOK, NEW e \in Exec, exec[e].pc # "idle", NEW p \in Reg!ExecPc \ {"idle"}, Reg!To(e, p)
    PROVE  Moves(e) /\ exec'[e].pc = p /\ exec'[e].refunded = exec[e].refunded
<1>1. exec \in [Exec -> {Reg!Idle} \cup Running] /\ exec[e] \in Running
  BY TypesOpen, RunningFacts
<1>2. exec' = [exec EXCEPT ![e].pc = p] BY DEF Reg!To
<1>3. exec'[e] = [exec[e] EXCEPT !.pc = p] /\ (\A f \in Exec : f # e => exec'[f] = exec[f])
      /\ exec' = [f \in Exec |-> exec'[f]]
  BY <1>1, <1>2
<1>4. /\ exec'[e] \in Running /\ exec'[e].pc = p
      /\ exec'[e].session = exec[e].session /\ exec'[e].key = exec[e].key
      /\ exec'[e].wanted = exec[e].wanted /\ exec'[e].refunded = exec[e].refunded
  BY <1>1, <1>3 DEF Running
<1>5. exec' \in [Exec -> {Reg!Idle} \cup Running] BY <1>1, <1>3, <1>4
<1>. QED BY <1>3, <1>4, <1>5 DEF Moves

\* A request that gets its use back, or keeps it and goes on
LEMMA RefundMoves ==
    ASSUME Reg!TypeOK, NEW e \in Exec, exec[e].pc # "idle", NEW p \in Reg!ExecPc \ {"idle"},
           NEW b \in BOOLEAN, exec' = [exec EXCEPT ![e].refunded = b, ![e].pc = p]
    PROVE  Moves(e) /\ exec'[e].pc = p /\ exec'[e].refunded = b
<1>1. exec \in [Exec -> {Reg!Idle} \cup Running] /\ exec[e] \in Running
  BY TypesOpen, RunningFacts
<1>3. exec'[e] = [exec[e] EXCEPT !.refunded = b, !.pc = p]
      /\ (\A f \in Exec : f # e => exec'[f] = exec[f]) /\ exec' = [f \in Exec |-> exec'[f]]
  BY <1>1
<1>4. /\ exec'[e] \in Running /\ exec'[e].pc = p
      /\ exec'[e].session = exec[e].session /\ exec'[e].key = exec[e].key
      /\ exec'[e].wanted = exec[e].wanted /\ exec'[e].refunded = b
  BY <1>1, <1>3 DEF Running
<1>5. exec' \in [Exec -> {Reg!Idle} \cup Running] BY <1>1, <1>3, <1>4
<1>. QED BY <1>3, <1>4, <1>5 DEF Moves

\* A request that stays in its session keeps the permits of every session.
LEMMA MovesKeepPermits ==
    ASSUME NEW e \in Exec, Moves(e)
    PROVE  \A s \in Session :
             /\ Reg!Permits(s)' = Reg!Permits(s)
             /\ Working(s)' \subseteq Working(s) \cup {e}
             /\ exec'[e].pc = "closing" => Working(s)' = Working(s) \ {e}
             /\ exec'[e].refunded = exec[e].refunded /\ exec[e].pc # "closing"
                  /\ exec'[e].pc # "closing" => Working(s)' = Working(s)
  BY DEF Moves, Reg!Permits, Working

\* A request that is at work counts one use of its session.
LEMMA WorkingCounts ==
    ASSUME Reg!SessionsAssumption,
           SessionInv, NEW e \in Exec, exec[e].pc \notin {"idle", "closing"}
    PROVE  LET s == exec[e].session IN
           /\ s \in Session /\ e \in Working(s) /\ IsFiniteSet(Working(s))
           /\ IsFiniteSet(Working(s) \ {e})
           /\ Cardinality(Working(s) \ {e}) = Cardinality(Working(s)) - 1
           /\ Cardinality(Working(s)) \in Nat \ {0}
           /\ entry[s].uses \in Nat /\ entry[s].uses + 1 <= MaxUses
<1>. DEFINE s == exec[e].session
<1>1. s \in Session /\ ~exec[e].refunded BY RunningFacts DEF SessionInv, ExecRight
<1>2. e \in Working(s) BY <1>1 DEF Working, Reg!Permits
<1>3. IsFiniteSet(Working(s))
  BY <1>1, FS_Subset DEF SessionInv, SlotsRight, Working
<1>. HIDE DEF s
<1>4. /\ IsFiniteSet(Working(s) \ {e}) /\ Cardinality(Working(s) \ {e}) = Cardinality(Working(s)) - 1
  BY <1>2, <1>3, FS_RemoveElement
<1>5. Cardinality(Working(s)) \in Nat /\ Cardinality(Working(s)) # 0
  BY <1>2, <1>3, FS_CardinalityType, FS_EmptySet
<1>6. entry[s].uses \in Nat /\ effects[s] \in Nat /\ MaxUses \in Nat
  BY <1>1, TypesOpen DEF SessionInv, SessionEntry, Reg!SessionsAssumption
<1>7. Budget(s) BY <1>1 DEF SessionInv
<1>8. entry[s].uses + 1 <= MaxUses BY <1>5, <1>6, <1>7 DEF Budget
<1>. QED BY <1>1, <1>2, <1>3, <1>4, <1>5, <1>6, <1>8 DEF s

-----------------------------------------------------------------------------
(* What a step does to an entry *)

\* An entry is revoked and gone for good, and goes only when nobody runs in it
\* and it has ended or nothing waits in it.
LifeStep(s) ==
    /\ entry[s].revoked => entry'[s].revoked
    /\ entry'[s].revoked => entry[s].revoked \/ Reg!Present(s)
    /\ \/ entry'[s].state = entry[s].state
       \/ entry[s].state = "none" /\ entry'[s].state = "minted"
       \/ entry[s].state = "minted" /\ entry'[s].state = "live"
       \/ /\ Reg!Present(s) /\ entry'[s].state = "gone" /\ entry'[s].inFlight = 0
          /\ \/ entry'[s].revoked \/ s \in late
             \/ \A c \in Reg!Held(s) : ~challenge[c].local

\* ... and neither its uses nor its slots change.
Tame == /\ entry' \in [Session -> SessionEntry]
        /\ \A s \in Session : /\ LifeStep(s)
                              /\ entry'[s].uses = entry[s].uses
                              /\ entry'[s].inFlight = entry[s].inFlight

\* The operations of the registry are tame, one by one.
LEMMA SameIsTame ==
    ASSUME Reg!TypeOK, entry' = entry
    PROVE  Tame
<1>1. entry' \in [Session -> SessionEntry] BY TypesOpen
<1>2. \A s \in Session : LifeStep(s) BY Zenon DEF LifeStep
<1>. QED BY <1>1, <1>2 DEF Tame

\* compact_entries
LEMMA CompactIsTame ==
    ASSUME Reg!SessionsAssumption,
           Reg!TypeOK, entry' = Reg!Compact(entry)
    PROVE  Tame
<1>1. entry \in [Session -> SessionEntry] BY TypesOpen
<1>2. entry' \in [Session -> SessionEntry] BY <1>1, CompactFacts
<1>3. ASSUME NEW s \in Session
      PROVE  LifeStep(s) /\ entry'[s].uses = entry[s].uses /\ entry'[s].inFlight = entry[s].inFlight
  BY <1>1, CompactFacts DEF LifeStep, Reg!Present
<1>. QED BY <1>2, <1>3 DEF Tame

\* A revocation.
LEMMA RevokedIsTame ==
    ASSUME Reg!SessionsAssumption,
           Reg!TypeOK, NEW ids, entry' = Reg!Revoked(ids)
    PROVE  Tame
<1>1. entry' \in [Session -> SessionEntry] BY RevokedFacts
<1>2. ASSUME NEW s \in Session
      PROVE  LifeStep(s) /\ entry'[s].uses = entry[s].uses /\ entry'[s].inFlight = entry[s].inFlight
  <2>. DEFINE R == Reg!Revoked(ids)
  <2>1. /\ R[s].uses = entry[s].uses /\ R[s].inFlight = entry[s].inFlight
        /\ R[s].revoked = (entry[s].revoked \/ (s \in ids /\ Reg!Present(s)))
        /\ \/ R[s].state = entry[s].state
           \/ /\ Reg!Present(s) /\ R[s].state = "gone" /\ R[s].inFlight = 0
              /\ R[s].revoked \/ s \in late \/ \A c \in Reg!Held(s) : ~challenge[c].local
    BY RevokedFacts
  <2>2. entry' = R OBVIOUS
  <2>. HIDE DEF R
  <2>3. (entry[s].revoked => R[s].revoked) /\ (R[s].revoked => entry[s].revoked \/ Reg!Present(s))
    BY <2>1, Zenon
  <2>. QED BY <2>1, <2>2, <2>3 DEF LifeStep
<1>. QED BY <1>1, <1>2 DEF Tame

\* An entry that is found exhausted.
LEMMA LatchIsTame ==
    ASSUME Reg!TypeOK, NEW t \in Session, Reg!Present(t), entry' = [entry EXCEPT ![t].revoked = TRUE]
    PROVE  Tame
<1>1. entry \in [Session -> SessionEntry] BY TypesOpen
<1>2. /\ entry' \in [Session -> SessionEntry] /\ \A s \in Session : s # t => entry'[s] = entry[s]
      /\ entry'[t].revoked /\ entry'[t].uses = entry[t].uses
      /\ entry'[t].inFlight = entry[t].inFlight /\ entry'[t].state = entry[t].state
  BY <1>1 DEF SessionEntry
<1>. QED BY <1>2 DEF Tame, LifeStep

\* A session that is admitted or delivered.
LEMMA StateIsTame ==
    ASSUME Reg!TypeOK, NEW t \in Session, NEW ent \in [Session -> SessionEntry],
           \A s \in Session : /\ ent[s].uses = entry[s].uses /\ ent[s].inFlight = entry[s].inFlight
                              /\ ent[s].revoked = entry[s].revoked
                              /\ \/ ent[s].state = entry[s].state
                                 \/ /\ Reg!Present(s) /\ ent[s].state = "gone" /\ ent[s].inFlight = 0
                                    /\ \/ ent[s].revoked \/ s \in late
                                       \/ \A c \in Reg!Held(s) : ~challenge[c].local,
           \/ ent[t].state = "none" /\ entry' = [ent EXCEPT ![t].state = "minted"]
           \/ ent[t].state = "minted" /\ entry' = [ent EXCEPT ![t].state = "live"]
    PROVE  Tame
<1>1. /\ entry' \in [Session -> SessionEntry] /\ \A s \in Session : s # t => entry'[s] = ent[s]
      /\ entry'[t].revoked = ent[t].revoked /\ entry'[t].uses = ent[t].uses
      /\ entry'[t].inFlight = ent[t].inFlight
      /\ \/ ent[t].state = "none" /\ entry'[t].state = "minted"
         \/ ent[t].state = "minted" /\ entry'[t].state = "live"
  BY DEF SessionEntry
<1>2. ASSUME NEW s \in Session
      PROVE  LifeStep(s) /\ entry'[s].uses = entry[s].uses /\ entry'[s].inFlight = entry[s].inFlight
  <2>1. CASE s = t BY <1>1, <2>1 DEF LifeStep
  <2>2. CASE s # t BY <1>1, <2>2 DEF LifeStep
  <2>. QED BY <2>1, <2>2
<1>. QED BY <1>1, <1>2 DEF Tame

\* All of them.
LEMMA RegistryIsTame ==
    ASSUME Reg!SessionsAssumption,
           Reg!TypeOK, Reg!Registry
    PROVE  Tame
<1>1. ASSUME NEW s \in Session, Reg!Admit(s) PROVE Tame
  <2>1. /\ entry \in [Session -> SessionEntry] /\ entry[s].state = "none"
        /\ entry' = [Reg!Compact(entry) EXCEPT ![s].state = "minted"]
    BY <1>1, TypesOpen DEF Reg!Admit
  <2>2. Reg!Compact(entry)[s].state = "none" BY <2>1, CompactFacts
  <2>3. Reg!Compact(entry) \in [Session -> SessionEntry] BY <2>1, CompactFacts
  <2>4. \A t \in Session : /\ Reg!Compact(entry)[t].uses = entry[t].uses
                           /\ Reg!Compact(entry)[t].inFlight = entry[t].inFlight
                           /\ Reg!Compact(entry)[t].revoked = entry[t].revoked
                           /\ \/ Reg!Compact(entry)[t].state = entry[t].state
                              \/ /\ Reg!Present(t) /\ Reg!Compact(entry)[t].state = "gone"
                                 /\ Reg!Compact(entry)[t].inFlight = 0
                                 /\ \/ Reg!Compact(entry)[t].revoked \/ t \in late
                                    \/ \A c \in Reg!Held(t) : ~challenge[c].local
    BY <2>1, CompactFacts DEF Reg!Present
  <2>. QED BY <2>1, <2>2, <2>3, <2>4, StateIsTame
<1>2. ASSUME NEW s \in Session, Reg!Deliver(s) PROVE Tame
  <2>1. entry \in [Session -> SessionEntry] /\ entry[s].state = "minted"
    BY <1>2, TypesOpen DEF Reg!Deliver
  <2>2. CASE entry' = [entry EXCEPT ![s].state = "live"] BY <2>1, <2>2, StateIsTame
  <2>3. CASE entry' = Reg!Revoked({s}) BY <2>3, RevokedIsTame
  <2>. QED BY <1>2, <2>2, <2>3 DEF Reg!Deliver
<1>3. ASSUME NEW s \in Session, Reg!Revoke(s) \/ Reg!DropGuard(s) PROVE Tame
  BY <1>3, RevokedIsTame DEF Reg!Revoke, Reg!DropGuard
<1>4. ASSUME NEW s \in Session, Reg!WaitRevoked(s) PROVE Tame
  BY <1>4, LatchIsTame DEF Reg!WaitRevoked
<1>5. CASE Reg!RevokeWorkload BY <1>5, RevokedIsTame DEF Reg!RevokeWorkload
<1>6. CASE Reg!CloseAndRevokeAll BY <1>6, RevokedIsTame DEF Reg!CloseAndRevokeAll
<1>7. CASE Reg!OpenForAdmission BY <1>7, SameIsTame DEF Reg!OpenForAdmission
<1>. QED BY <1>1, <1>2, <1>3, <1>4, <1>5, <1>6, <1>7 DEF Reg!Registry

\* A tame step that lets no request begin, end or hand off keeps the counts.
LEMMA CountsKept ==
    ASSUME Reg!SessionsAssumption,
           SessionInv, Tame, effects' = effects,
           \A s \in Session : Reg!Permits(s)' = Reg!Permits(s) /\ Working(s)' \subseteq Working(s)
    PROVE  \A s \in Session : SlotsRight(s)' /\ Budget(s)'
<1>. SUFFICES ASSUME NEW s \in Session PROVE SlotsRight(s)' /\ Budget(s)' OBVIOUS
<1>1. SlotsRight(s) /\ Budget(s) /\ LifeStep(s) /\ Reg!Permits(s)' = Reg!Permits(s)
      /\ Working(s)' \subseteq Working(s)
      /\ entry'[s].uses = entry[s].uses /\ entry'[s].inFlight = entry[s].inFlight
  BY DEF SessionInv, Tame
<1>2. entry[s].inFlight \in Nat /\ entry[s].uses \in Nat /\ effects[s] \in Nat /\ MaxUses \in Nat
  BY TypesOpen DEF SessionInv, SessionEntry, Reg!SessionsAssumption
<1>3. SlotsRight(s)' BY <1>1, <1>2 DEF SlotsRight, LifeStep, Reg!Present
<1>4. IsFiniteSet(Working(s)) BY <1>1, FS_Subset DEF SlotsRight, Working
<1>5. Cardinality(Working(s)') <= Cardinality(Working(s)) /\ Cardinality(Working(s)) \in Nat
      /\ Cardinality(Working(s)') \in Nat
  BY <1>1, <1>4, FS_Subset, FS_CardinalityType
<1>6. Budget(s)' BY <1>1, <1>2, <1>5 DEF Budget
<1>. QED BY <1>3, <1>6

\* ... and its next-state form.
LEMMA TypesClose ==
    ASSUME registryClosed' \in BOOLEAN,
           entry' \in [Session -> SessionEntry],
           challenge' \in [Challenge -> PendingRecord],
           uses' \in [Challenge \X Approver -> Nat],
           expired' \subseteq Challenge \X Approver,
           guard' \subseteq Profile,
           exec' \in [Exec -> {Reg!Idle} \cup Running],
           sessionCoordinator' \in {"free", "admin"} \cup Exec,
           sessionDecision' \in SUBSET [id : Challenge, approve : BOOLEAN],
           wall' \in 0..3, late' \subseteq Session \cup Challenge,
           effects' \in [Session -> Nat], starts' \in [Challenge -> Nat],
           refused' \subseteq Session \cup (Challenge \X Approver),
           reopened' \in 0..MaxReopen
    PROVE  Reg!TypeOK'
BY DEF Reg!TypeOK, SessionEntry, PendingRecord, Running

\* The registry's own operations keep the first invariant.
LEMMA RegistryKeeps ==
    ASSUME Reg!SessionsAssumption,
           SessionInv, Reg!Registry
    PROVE  SessionInv'
<1>1. Tame BY RegistryIsTame DEF SessionInv
<1>2. UNCHANGED <<challenge, uses, expired, exec, sessionCoordinator, sessionDecision, wall, late, effects, starts>>
  BY DEF Reg!Registry, Reg!Admit, Reg!Deliver, Reg!Revoke, Reg!WaitRevoked, Reg!DropGuard,
         Reg!RevokeWorkload, Reg!CloseAndRevokeAll, Reg!OpenForAdmission, Reg!clockVars,
         Reg!history
<1>3. /\ registryClosed' \in BOOLEAN /\ guard' \subseteq Profile
      /\ refused' \subseteq Session \cup (Challenge \X Approver) /\ reopened' \in 0..MaxReopen
  <2>1. /\ registryClosed \in BOOLEAN /\ guard \subseteq Profile
        /\ refused \subseteq Session \cup (Challenge \X Approver) /\ reopened \in 0..MaxReopen
        /\ MaxReopen \in Nat
    BY TypesOpen DEF SessionInv, Reg!SessionsAssumption
  <2>2. ASSUME NEW s \in Session, Reg!Admit(s) \/ Reg!Deliver(s) \/ Reg!Revoke(s) \/ Reg!DropGuard(s)
        PROVE  registryClosed' = registryClosed /\ guard' \subseteq Profile /\ refused' = refused /\ reopened' = reopened
    BY <2>1, <2>2 DEF Reg!Admit, Reg!Deliver, Reg!Revoke, Reg!DropGuard, Reg!history
  <2>3. ASSUME NEW s \in Session, Reg!WaitRevoked(s)
        PROVE  registryClosed' = registryClosed /\ guard' = guard /\ refused' = refused \cup {s} /\ reopened' = reopened
    BY <2>3 DEF Reg!WaitRevoked
  <2>4. ASSUME Reg!RevokeWorkload \/ Reg!CloseAndRevokeAll \/ Reg!OpenForAdmission
        PROVE  /\ registryClosed' \in BOOLEAN /\ guard' = guard /\ refused' = refused
               /\ reopened' \in 0..MaxReopen
    <3>1. CASE Reg!RevokeWorkload BY <2>1, <3>1 DEF Reg!RevokeWorkload, Reg!history
    <3>2. CASE Reg!CloseAndRevokeAll BY <2>1, <3>2 DEF Reg!CloseAndRevokeAll, Reg!history
    <3>3. CASE Reg!OpenForAdmission
      <4>1. registryClosed' = FALSE /\ guard' = guard /\ refused' = refused
        BY <3>3 DEF Reg!OpenForAdmission, Reg!history
      <4>2. reopened < MaxReopen /\ reopened' = reopened + 1 BY <3>3 DEF Reg!OpenForAdmission
      <4>3. reopened' \in 0..MaxReopen BY <4>2, <2>1
      <4>. QED BY <4>1, <4>3
    <3>. QED BY <2>4, <3>1, <3>2, <3>3
  <2>. QED BY <2>1, <2>2, <2>3, <2>4 DEF Reg!Registry
<1>4. Reg!TypeOK' BY <1>1, <1>2, <1>3, TypesOpen, TypesClose DEF SessionInv, Tame
<1>5. \A e \in Exec : ExecRight(e)' BY <1>2 DEF SessionInv, ExecRight
<1>6. \A s \in Session : SlotsRight(s)' /\ Budget(s)'
  BY <1>1, <1>2, CountsKept DEF Reg!Permits, Working
<1>. QED BY <1>2, <1>4, <1>5, <1>6 DEF SessionInv

\* So do the clocks.
LEMMA TickKeeps ==
    ASSUME Reg!SessionsAssumption,
           SessionInv, Reg!Tick
    PROVE  SessionInv'
<1>2. UNCHANGED <<Reg!registryVars, exec, sessionCoordinator, sessionDecision, Reg!history, reopened>>
  BY DEF Reg!Tick, Reg!SetWall, Reg!Late
<1>3. wall' \in 0..3 /\ late' \subseteq Session \cup Challenge
  BY TypesOpen DEF SessionInv, Reg!Tick, Reg!SetWall, Reg!Late
<1>4. Reg!TypeOK' BY <1>2, <1>3, TypesOpen, TypesClose
                     DEF SessionInv, Reg!registryVars, Reg!history
<1>5. \A e \in Exec : ExecRight(e)' BY <1>2 DEF SessionInv, ExecRight
<1>6. \A s \in Session : SlotsRight(s)' /\ Budget(s)'
  BY <1>2, CountsKept, SameIsTame
     DEF Reg!Permits, Working, Reg!registryVars, Reg!history, SessionInv
<1>. QED BY <1>2, <1>4, <1>5, <1>6 DEF SessionInv

-----------------------------------------------------------------------------
(* What a step does to a challenge *)

\* A challenge stays, or changes its state in one of the allowed ways: it
\* is approved in time only, and consumed only when approved or signed for.
Ages(c) ==
    \/ challenge'[c] = challenge[c]
    \/ /\ challenge[c].state # "none"
       /\ challenge'[c].session = challenge[c].session /\ challenge'[c].key = challenge[c].key
       /\ challenge'[c].local = challenge[c].local
       /\ \/ challenge'[c].state = "Expired"
          \/ challenge[c].state \in Reg!Live /\ challenge'[c].state = "Cancelled"
          \/ /\ challenge[c].state = "Pending" /\ challenge'[c].state = "Approved"
             /\ challenge[c].local /\ ~Reg!TimedOut(c) /\ ~registryClosed
             /\ ~entry[challenge[c].session].revoked
          \/ /\ challenge'[c].state = "Consumed"
             /\ challenge[c].state = "Approved" \/ Need[challenge[c].key] = "signed"

\* A new challenge of a request.
Filed(c, e, loc) ==
    /\ challenge[c].state = "none" /\ challenge'[c].state = "Pending"
    /\ challenge'[c].session = exec[e].session /\ challenge'[c].key = exec[e].key
    /\ challenge'[c].local = loc

\* Refreshing expires what has timed out and changes nothing else.
LEMMA RefreshedFacts ==
    ASSUME Reg!TypeOK, NEW ids
    PROVE  /\ Reg!Refreshed(ids) \in [Challenge -> PendingRecord]
           /\ \A c \in Challenge :
                \/ Reg!Refreshed(ids)[c] = challenge[c]
                \/ /\ challenge[c].state \in Reg!Live /\ Reg!Refreshed(ids)[c].state = "Expired"
                   /\ Reg!Refreshed(ids)[c].session = challenge[c].session
                   /\ Reg!Refreshed(ids)[c].key = challenge[c].key
                   /\ Reg!Refreshed(ids)[c].local = challenge[c].local
           /\ \A c \in ids \cap Challenge : Reg!Refreshed(ids)[c].state \in Reg!Live => ~Reg!TimedOut(c)
<1>. DEFINE R == Reg!Refreshed(ids)
<1>0. challenge \in [Challenge -> PendingRecord] BY TypesOpen
<1>1. ASSUME NEW c \in Challenge
      PROVE  /\ R[c] \in PendingRecord
             /\ \/ R[c] = challenge[c]
                \/ /\ challenge[c].state \in Reg!Live /\ R[c].state = "Expired"
                   /\ R[c].session = challenge[c].session
                   /\ R[c].key = challenge[c].key
                   /\ R[c].local = challenge[c].local
             /\ c \in ids /\ R[c].state \in Reg!Live => ~Reg!TimedOut(c)
  <2>1. CASE c \in ids /\ Reg!Lapsed(c)
    <3>1. R[c] = [challenge[c] EXCEPT !.state = "Expired"] /\ challenge[c].state \in Reg!Live
      BY <2>1 DEF Reg!Refreshed, Reg!Lapsed
    <3>. HIDE DEF R
    <3>. QED BY <3>1, <1>0 DEF PendingRecord, Reg!Live
  <2>2. CASE ~(c \in ids /\ Reg!Lapsed(c))
    <3>1. R[c] = challenge[c] BY <2>2 DEF Reg!Refreshed
    <3>. HIDE DEF R
    <3>. QED BY <3>1, <1>0, <2>2 DEF Reg!Lapsed
  <2>. QED BY <2>1, <2>2
<1>2. R = [c \in Challenge |-> R[c]] BY DEF Reg!Refreshed
<1>. HIDE DEF R
<1>3. R \in [Challenge -> PendingRecord] BY <1>1, <1>2
<1>. QED BY <1>1, <1>3 DEF R

\* So a refreshed challenge has aged.
LEMMA RefreshedAges ==
    ASSUME Reg!TypeOK, NEW ids, challenge' = Reg!Refreshed(ids)
    PROVE  challenge' \in [Challenge -> PendingRecord] /\ \A c \in Challenge : Ages(c)
<1>1. challenge' \in [Challenge -> PendingRecord] BY RefreshedFacts
<1>2. ASSUME NEW c \in Challenge PROVE Ages(c)
  <2>1. \/ challenge'[c] = challenge[c]
        \/ /\ challenge[c].state \in Reg!Live /\ challenge'[c].state = "Expired"
           /\ challenge'[c].session = challenge[c].session
           /\ challenge'[c].key = challenge[c].key
           /\ challenge'[c].local = challenge[c].local
    BY RefreshedFacts
  <2>. QED BY <2>1 DEF Ages, Reg!Live
<1>. QED BY <1>1, <1>2

\* Storing a challenge files one and ages the others.
LEMMA StoredFiles ==
    ASSUME Reg!TypeOK, NEW e \in Exec, exec[e].pc # "idle", NEW c \in Challenge, NEW loc \in BOOLEAN,
           challenge[c].state = "none", challenge' = Reg!Stored(Reg!Listed, c, e, loc)
    PROVE  /\ challenge' \in [Challenge -> PendingRecord] /\ Filed(c, e, loc)
           /\ \A d \in Challenge : d # c => Ages(d) /\ challenge'[d] = Reg!Listed[d]
<1>. DEFINE L == Reg!Listed
<1>1. L \in [Challenge -> PendingRecord] BY RefreshedFacts DEF Reg!Listed
<1>2. \A d \in Challenge :
        \/ L[d] = challenge[d]
        \/ /\ challenge[d].state \in Reg!Live /\ L[d].state = "Expired"
           /\ L[d].session = challenge[d].session
           /\ L[d].key = challenge[d].key /\ L[d].local = challenge[d].local
  BY RefreshedFacts DEF Reg!Listed
<1>3. challenge' = [L EXCEPT ![c] = [state |-> "Pending", session |-> exec[e].session,
                                    key |-> exec[e].key, local |-> loc]]
  BY DEF Reg!Stored
<1>. HIDE DEF L
<1>4. exec[e].session \in Session /\ exec[e].key \in SessionKey BY RunningFacts
<1>5. challenge' \in [Challenge -> PendingRecord]
  BY <1>1, <1>3, <1>4 DEF PendingRecord, Reg!Live
<1>6. Filed(c, e, loc) BY <1>1, <1>3 DEF Filed
<1>7. ASSUME NEW d \in Challenge, d # c PROVE Ages(d) /\ challenge'[d] = L[d]
  <2>1. challenge'[d] = L[d] BY <1>1, <1>3, <1>7
  <2>. QED BY <2>1, <1>2 DEF Ages, Reg!Live
<1>. QED BY <1>5, <1>6, <1>7 DEF L

\* A challenge whose state alone changes has aged if the change is allowed.
LEMMA StateAges ==
    ASSUME Reg!TypeOK, NEW c \in Challenge,
           NEW st \in {"none", "Consumed", "Cancelled", "Expired"} \cup Reg!Live,
           challenge' = [challenge EXCEPT ![c].state = st]
    PROVE  /\ challenge' \in [Challenge -> PendingRecord]
           /\ challenge'[c].state = st
           /\ challenge'[c].session = challenge[c].session /\ challenge'[c].key = challenge[c].key
           /\ challenge'[c].local = challenge[c].local
           /\ \A d \in Challenge : d # c => challenge'[d] = challenge[d]
<1>1. challenge \in [Challenge -> PendingRecord] BY TypesOpen
<1>. QED BY <1>1 DEF PendingRecord

\* One that does not change has aged.
LEMMA SameAges ==
    ASSUME Reg!TypeOK, challenge' = challenge
    PROVE  challenge' \in [Challenge -> PendingRecord] /\ \A c \in Challenge : Ages(c)
  BY TypesOpen DEF Ages

\* The administrator's decisions age challenges.
LEMMA DecisionsAge ==
    ASSUME Reg!TypeOK, Reg!Decisions
    PROVE  challenge' \in [Challenge -> PendingRecord] /\ \A c \in Challenge : Ages(c)
<1>0. sessionDecision \subseteq [id : Challenge, approve : BOOLEAN] BY TypesOpen
<1>1. ASSUME NEW c \in Challenge, Reg!CancelApproval(c)
      PROVE  challenge' \in [Challenge -> PendingRecord] /\ \A d \in Challenge : Ages(d)
  <2>1. challenge' = [challenge EXCEPT ![c].state = "Cancelled"] BY <1>1 DEF Reg!CancelApproval
  <2>2. challenge[c].state \in Reg!Live
    <3>1. Reg!Refreshed({c})[c].state \in Reg!Live BY <1>1 DEF Reg!CancelApproval
    <3>. QED BY <3>1, RefreshedFacts
  <2>. QED BY <2>1, <2>2, StateAges DEF Ages, Reg!Live
<1>2. ASSUME NEW c \in Challenge, NEW b \in BOOLEAN, Reg!DecideBegin(c, b)
      PROVE  challenge' \in [Challenge -> PendingRecord] /\ \A d \in Challenge : Ages(d)
  BY <1>2, RefreshedAges DEF Reg!DecideBegin
<1>3. ASSUME Reg!DecidePublish
      PROVE  challenge' \in [Challenge -> PendingRecord] /\ \A d \in Challenge : Ages(d)
  <2>. DEFINE st(d) == IF challenge[d.id].state \in Reg!Live
                       THEN IF d.approve THEN "Approved" ELSE "Cancelled"
                       ELSE challenge[d.id].state
  <2>0. challenge \in [Challenge -> PendingRecord] BY TypesOpen
  <2>1. PICK d \in sessionDecision : 
          /\ Reg!Decidable(d.id) /\ ~Reg!TimedOut(d.id)
          /\ challenge[d.id].state = "Pending" \/ ~d.approve
          /\ challenge' = [challenge EXCEPT ![d.id].state = st(d)]
    BY <1>3 DEF Reg!DecidePublish
  <2>2. d.id \in Challenge /\ d.approve \in BOOLEAN BY <1>0
  <2>3. st(d) \in {"none", "Consumed", "Cancelled", "Expired"} \cup Reg!Live
    BY <2>0, <2>2 DEF Reg!Live, PendingRecord
  <2>4. /\ challenge[d.id].state # "none" /\ challenge[d.id].local /\ ~registryClosed
        /\ ~entry[challenge[d.id].session].revoked
    BY <2>1 DEF Reg!Decidable
  <2>5. /\ challenge' \in [Challenge -> PendingRecord] /\ challenge'[d.id].state = st(d)
        /\ challenge'[d.id].session = challenge[d.id].session
        /\ challenge'[d.id].key = challenge[d.id].key /\ challenge'[d.id].local = challenge[d.id].local
        /\ \A c \in Challenge : c # d.id => challenge'[c] = challenge[c]
    <3>. HIDE DEF st
    <3>. QED BY <2>1, <2>2, <2>3, StateAges
  <2>6. CASE challenge[d.id].state \in Reg!Live /\ d.approve
    <3>1. challenge[d.id].state = "Pending" BY <2>1, <2>6
    <3>2. st(d) = "Approved" BY <2>6
    <3>3. Ages(d.id) BY <2>1, <2>4, <2>5, <3>1, <3>2 DEF Ages
    <3>. QED BY <3>3, <2>5 DEF Ages
  <2>7. CASE challenge[d.id].state \in Reg!Live /\ ~d.approve
    <3>2. st(d) = "Cancelled" BY <2>7
    <3>3. Ages(d.id) BY <2>4, <2>5, <2>7, <3>2 DEF Ages
    <3>. QED BY <3>3, <2>5 DEF Ages
  <2>8. CASE challenge[d.id].state \notin Reg!Live
    <3>2. st(d) = challenge[d.id].state BY <2>8
    <3>3. challenge'[d.id] = challenge[d.id]
      <4>. HIDE DEF st
      <4>1. challenge'[d.id] = [challenge[d.id] EXCEPT !.state = st(d)] BY <2>0, <2>1, <2>2
      <4>. QED BY <4>1, <3>2, <2>0, <2>2 DEF PendingRecord
    <3>. QED BY <3>3, <2>5 DEF Ages
  <2>. QED BY <2>6, <2>7, <2>8
<1>4. ASSUME Reg!DecideUnconfirmed
      PROVE  challenge' \in [Challenge -> PendingRecord] /\ \A d \in Challenge : Ages(d)
  <2>0. challenge \in [Challenge -> PendingRecord] BY TypesOpen
  <2>1. PICK d \in sessionDecision :
          challenge' = [challenge EXCEPT ![d.id].state =
               IF @ \in Reg!Live /\ Reg!Present(challenge[d.id].session) THEN "Cancelled" ELSE @]
    BY <1>4 DEF Reg!DecideUnconfirmed
  <2>2. d.id \in Challenge BY <1>0
  <2>3. CASE challenge[d.id].state \in Reg!Live /\ Reg!Present(challenge[d.id].session)
    <3>1. challenge' = [challenge EXCEPT ![d.id].state = "Cancelled"] BY <2>1, <2>3
    <3>2. "Cancelled" \in {"none", "Consumed", "Cancelled", "Expired"} \cup Reg!Live OBVIOUS
    <3>3. /\ challenge' \in [Challenge -> PendingRecord] /\ challenge'[d.id].state = "Cancelled"
          /\ challenge'[d.id].session = challenge[d.id].session
          /\ challenge'[d.id].key = challenge[d.id].key
          /\ challenge'[d.id].local = challenge[d.id].local
          /\ \A c \in Challenge : c # d.id => challenge'[c] = challenge[c]
      BY <2>2, <3>1, <3>2, StateAges
    <3>4. Ages(d.id) BY <2>3, <3>3 DEF Ages, Reg!Live
    <3>. QED BY <3>3, <3>4 DEF Ages
  <2>4. CASE ~(challenge[d.id].state \in Reg!Live /\ Reg!Present(challenge[d.id].session))
    <3>1. challenge' = [challenge EXCEPT ![d.id].state = challenge[d.id].state] BY <2>1, <2>4
    <3>2. challenge' = challenge BY <2>0, <2>2, <3>1 DEF PendingRecord
    <3>. QED BY <3>2, SameAges
  <2>. QED BY <2>3, <2>4
<1>5. CASE Reg!DecideRefused BY <1>5, SameAges DEF Reg!DecideRefused, Reg!registryVars
<1>. QED BY <1>1, <1>2, <1>3, <1>4, <1>5 DEF Reg!Decisions

\* They keep the first invariant.
LEMMA DecisionsKeep ==
    ASSUME Reg!SessionsAssumption,
           SessionInv, Reg!Decisions
    PROVE  SessionInv'
<1>0. Reg!TypeOK /\ "free" \notin Exec /\ "admin" \notin Exec
  BY DEF SessionInv, Reg!SessionsAssumption
<1>1. UNCHANGED <<registryClosed, entry, uses, expired, guard, exec, wall, late, effects, starts, refused, reopened>>
  BY DEF Reg!Decisions, Reg!CancelApproval, Reg!DecideBegin, Reg!DecidePublish,
         Reg!DecideUnconfirmed, Reg!DecideRefused, Reg!registryVars, Reg!clockVars, Reg!history
<1>2. \/ sessionCoordinator' = sessionCoordinator /\ sessionDecision' = sessionDecision
      \/ sessionCoordinator = "free" /\ sessionCoordinator' = "admin"
      \/ sessionDecision # {} /\ sessionDecision' = {} /\ sessionCoordinator' = "free"
  BY DEF Reg!Decisions, Reg!CancelApproval, Reg!DecideBegin, Reg!DecidePublish,
         Reg!DecideUnconfirmed, Reg!DecideRefused
<1>3. sessionDecision' \in SUBSET [id : Challenge, approve : BOOLEAN]
  <2>1. sessionDecision \in SUBSET [id : Challenge, approve : BOOLEAN] BY <1>0, TypesOpen
  <2>2. ASSUME NEW c \in Challenge, NEW b \in BOOLEAN, Reg!DecideBegin(c, b)
        PROVE  sessionDecision' \in SUBSET [id : Challenge, approve : BOOLEAN]
    <3>1. sessionDecision' = {[id |-> c, approve |-> b]} BY <2>2 DEF Reg!DecideBegin
    <3>2. [id |-> c, approve |-> b] \in [id : Challenge, approve : BOOLEAN] OBVIOUS
    <3>. QED BY <3>1, <3>2
  <2>3. ASSUME Reg!DecidePublish \/ Reg!DecideUnconfirmed \/ Reg!DecideRefused PROVE sessionDecision' = {}
    BY <2>3 DEF Reg!DecidePublish, Reg!DecideUnconfirmed, Reg!DecideRefused
  <2>4. ASSUME NEW c \in Challenge, Reg!CancelApproval(c) PROVE sessionDecision' = sessionDecision
    BY <2>4 DEF Reg!CancelApproval
  <2>. QED BY <2>1, <2>2, <2>3, <2>4 DEF Reg!Decisions
<1>4. challenge' \in [Challenge -> PendingRecord] BY <1>0, DecisionsAge
<1>5. sessionCoordinator' \in {"free", "admin"} \cup Exec BY <1>0, <1>2, TypesOpen
<1>6. Reg!TypeOK' BY <1>0, <1>1, <1>3, <1>4, <1>5, TypesOpen, TypesClose
<1>7. sessionDecision' # {} => sessionCoordinator' = "admin" BY <1>2 DEF SessionInv
<1>8. \A e \in Exec : sessionCoordinator' = e <=> sessionCoordinator = e
  BY <1>0, <1>2 DEF SessionInv
<1>9. \A e \in Exec : ExecRight(e)' BY <1>1, <1>8 DEF SessionInv, ExecRight
<1>10. \A s \in Session : SlotsRight(s)' /\ Budget(s)'
  BY <1>0, <1>1, CountsKept, SameIsTame DEF Reg!Permits, Working
<1>. QED BY <1>6, <1>7, <1>9, <1>10 DEF SessionInv

-----------------------------------------------------------------------------
(* A request *)

\* A request that moves to a place it may be in.
LEMMA MoveRight ==
    ASSUME SessionInv, NEW e \in Exec, Moves(e),
           exec'[e].refunded => exec'[e].pc = "closing",
           exec'[e].pc \in {"publishing", "approved"} => Need[exec[e].key] = "local",
           exec'[e].pc = "publishing" <=> sessionCoordinator' = e,
           \A f \in Exec : f # e => (sessionCoordinator' = f <=> sessionCoordinator = f)
    PROVE  \A f \in Exec : ExecRight(f)'
  BY DEF Moves, SessionInv, ExecRight

\* A use goes back to the session, or into an effect.
LEMMA SpentKept ==
    ASSUME Reg!SessionsAssumption,
           SessionInv, NEW e \in Exec, exec[e].pc \notin {"idle", "closing"}, Moves(e),
           exec'[e].pc = "closing", entry' \in [Session -> SessionEntry], effects' \in [Session -> Nat],
           \A s \in Session :
             /\ LifeStep(s) /\ entry'[s].inFlight = entry[s].inFlight
             /\ s # exec[e].session => entry'[s].uses = entry[s].uses /\ effects'[s] = effects[s],
           LET s == exec[e].session IN entry'[s].uses + effects'[s] = entry[s].uses + effects[s] + 1
    PROVE  \A s \in Session : SlotsRight(s)' /\ Budget(s)'
<1>. SUFFICES ASSUME NEW s \in Session PROVE SlotsRight(s)' /\ Budget(s)' OBVIOUS
<1>1. SlotsRight(s) /\ Budget(s) /\ LifeStep(s) /\ Reg!Permits(s)' = Reg!Permits(s)
      /\ Working(s)' = Working(s) \ {e} /\ entry'[s].inFlight = entry[s].inFlight
  BY MovesKeepPermits DEF SessionInv
<1>2. /\ entry[s].inFlight \in Nat /\ entry[s].uses \in Nat /\ effects[s] \in Nat /\ MaxUses \in Nat
      /\ entry'[s].uses \in Nat /\ effects'[s] \in Nat
  BY TypesOpen DEF SessionInv, SessionEntry, Reg!SessionsAssumption
<1>3. SlotsRight(s)' BY <1>1, <1>2 DEF SlotsRight, LifeStep, Reg!Present
<1>4. CASE s = exec[e].session
  <2>1. /\ Cardinality(Working(s)') = Cardinality(Working(s)) - 1
        /\ Cardinality(Working(s)) \in Nat \ {0}
    BY <1>1, <1>4, WorkingCounts
  <2>2. entry'[s].uses + effects'[s] = entry[s].uses + effects[s] + 1 BY <1>4
  <2>. QED BY <1>1, <1>2, <1>3, <2>1, <2>2 DEF Budget
<1>5. CASE s # exec[e].session
  <2>1. Working(s)' = Working(s) BY <1>1, <1>5 DEF Working, Reg!Permits
  <2>2. entry'[s].uses = entry[s].uses /\ effects'[s] = effects[s] BY <1>5
  <2>. QED BY <1>1, <1>3, <2>1, <2>2 DEF Budget
<1>. QED BY <1>4, <1>5

\* refund_local_wait returns one use, to the request's session only.
LEMMA RefundFacts ==
    ASSUME Reg!SessionsAssumption,
           SessionInv, NEW e \in Exec, exec[e].pc \notin {"idle", "closing"}, Reg!Refund(e)
    PROVE  /\ entry' \in [Session -> SessionEntry]
           /\ \A s \in Session :
                /\ LifeStep(s) /\ entry'[s].inFlight = entry[s].inFlight
                /\ entry'[s].state = entry[s].state /\ entry'[s].revoked = entry[s].revoked
                /\ s # exec[e].session => entry'[s].uses = entry[s].uses
           /\ LET s == exec[e].session IN entry'[s].uses = entry[s].uses + 1
<1>. DEFINE t == exec[e].session
<1>1. entry \in [Session -> SessionEntry] /\ MaxUses \in Nat
  BY TypesOpen DEF SessionInv, Reg!SessionsAssumption
<1>2. t \in Session /\ entry[t].uses \in Nat /\ entry[t].uses + 1 <= MaxUses BY WorkingCounts
<1>3. entry' = [entry EXCEPT ![t].uses = @ + 1, ![t].exhausted = FALSE] BY DEF Reg!Refund
<1>. HIDE DEF t
<1>4. entry[t].uses + 1 \in 0..MaxUses BY <1>1, <1>2
<1>5. /\ entry' \in [Session -> SessionEntry] /\ \A s \in Session : s # t => entry'[s] = entry[s]
      /\ entry'[t].uses = entry[t].uses + 1 /\ entry'[t].inFlight = entry[t].inFlight
      /\ entry'[t].revoked = entry[t].revoked /\ entry'[t].state = entry[t].state
  BY <1>1, <1>2, <1>3, <1>4 DEF SessionEntry
<1>6. ASSUME NEW s \in Session
      PROVE  /\ LifeStep(s) /\ entry'[s].inFlight = entry[s].inFlight
             /\ entry'[s].state = entry[s].state /\ entry'[s].revoked = entry[s].revoked
             /\ s # t => entry'[s].uses = entry[s].uses
  <2>1. /\ entry'[s].inFlight = entry[s].inFlight
        /\ entry'[s].state = entry[s].state /\ entry'[s].revoked = entry[s].revoked
        /\ s # t => entry'[s].uses = entry[s].uses
    BY <1>5
  <2>. QED BY <2>1 DEF LifeStep
<1>. QED BY <1>5, <1>6 DEF t

\* The requests that move without getting a use back or handing off
Plain(e) ==
    \/ Reg!Allowed(e) \/ Reg!GiveUp(e) \/ Reg!RequestLocal(e)
    \/ \E c \in Challenge :
          \/ Reg!StoreChallenge(e, c) \/ Reg!ReserveLapsed(e, c) \/ Reg!ConsumeLocal(e, c)
          \/ \E a \in Approver : Reg!ReserveExpired(e, c, a)
          \/ \E q \in SUBSET Approver : Reg!ReserveApprovals(e, c, q)

\* The steps of a request that change neither uses nor permits: they move it,
LEMMA PlainMoves ==
    ASSUME SessionInv, NEW e \in Exec, Plain(e)
    PROVE  /\ Moves(e) /\ exec'[e].refunded = exec[e].refunded
           /\ exec[e].pc \notin {"idle", "closing"}
           /\ exec'[e].pc \in {"closing", "admitted", "publishing"}
           /\ exec'[e].pc = "publishing" => Need[exec[e].key] = "local"
<1>0. Reg!TypeOK BY DEF SessionInv
<1>1. \E p \in {"closing", "admitted", "publishing"} :
        /\ Reg!To(e, p) /\ exec[e].pc \notin {"idle", "closing"}
        /\ p = "publishing" => Need[exec[e].key] = "local"
  BY DEF Plain, Reg!Allowed, Reg!GiveUp, Reg!RequestLocal, Reg!StoreChallenge,
         Reg!ReserveLapsed, Reg!ConsumeLocal, Reg!ReserveExpired, Reg!ReserveApprovals
<1>2. {"closing", "admitted", "publishing"} \subseteq Reg!ExecPc \ {"idle"} BY DEF Reg!ExecPc
<1>3. PICK p \in {"closing", "admitted", "publishing"} :
        /\ Reg!To(e, p) /\ exec[e].pc \notin {"idle", "closing"}
        /\ p = "publishing" => Need[exec[e].key] = "local"
  BY <1>1
<1>4. Moves(e) /\ exec'[e].pc = p /\ exec'[e].refunded = exec[e].refunded
  BY <1>0, <1>2, <1>3, ToMoves
<1>. QED BY <1>3, <1>4

\* are tame,
LEMMA PlainTame ==
    ASSUME Reg!SessionsAssumption,
           SessionInv, NEW e \in Exec, Plain(e)
    PROVE  Tame
<1>1. entry' = entry \/ entry' = Reg!Compact(entry)
  BY DEF Plain, Reg!Allowed, Reg!GiveUp, Reg!RequestLocal, Reg!StoreChallenge,
         Reg!ReserveLapsed, Reg!ConsumeLocal, Reg!ReserveExpired, Reg!ReserveApprovals,
         Reg!registryVars
<1>. QED BY <1>1, SameIsTame, CompactIsTame DEF SessionInv

\* age challenges,
LEMMA PlainAges ==
    ASSUME SessionInv, NEW e \in Exec, Plain(e)
    PROVE  /\ challenge' \in [Challenge -> PendingRecord]
           /\ \A c \in Challenge : Ages(c) \/ (Reg!StoreChallenge(e, c) /\ Filed(c, e, FALSE))
<1>0. Reg!TypeOK BY DEF SessionInv
<1>1. CASE Reg!Allowed(e) \/ Reg!GiveUp(e)
  BY <1>0, <1>1, SameAges DEF Reg!Allowed, Reg!GiveUp, Reg!registryVars
<1>2. CASE Reg!RequestLocal(e) BY <1>0, <1>2, RefreshedAges DEF Reg!RequestLocal
<1>3. ASSUME NEW c \in Challenge, Reg!StoreChallenge(e, c)
      PROVE  /\ challenge' \in [Challenge -> PendingRecord]
             /\ \A d \in Challenge : Ages(d) \/ (Reg!StoreChallenge(e, d) /\ Filed(d, e, FALSE))
  <2>1. exec[e].pc # "idle" /\ challenge[c].state = "none" /\ challenge' = Reg!Stored(Reg!Listed, c, e, FALSE)
    BY <1>3 DEF Reg!StoreChallenge
  <2>2. /\ challenge' \in [Challenge -> PendingRecord] /\ Filed(c, e, FALSE)
        /\ \A d \in Challenge : d # c => Ages(d)
    BY <1>0, <2>1, StoredFiles
  <2>. QED BY <1>3, <2>2
<1>4. ASSUME NEW c \in Challenge, Reg!ReserveLapsed(e, c)
      PROVE  challenge' \in [Challenge -> PendingRecord] /\ \A d \in Challenge : Ages(d)
  <2>1. challenge' = [challenge EXCEPT ![c].state = "Expired"] /\ challenge[c].state # "none"
    BY <1>4 DEF Reg!ReserveLapsed, Reg!Reservable
  <2>. QED BY <1>0, <2>1, StateAges DEF Ages
<1>5. ASSUME NEW c \in Challenge, Reg!ConsumeLocal(e, c)
      PROVE  challenge' \in [Challenge -> PendingRecord] /\ \A d \in Challenge : Ages(d)
  <2>1. challenge' = [challenge EXCEPT ![c].state = "Consumed"] /\ challenge[c].state = "Approved"
    BY <1>5 DEF Reg!ConsumeLocal
  <2>. QED BY <1>0, <2>1, StateAges DEF Ages
<1>6. ASSUME NEW c \in Challenge, NEW a \in Approver, Reg!ReserveExpired(e, c, a)
      PROVE  challenge' \in [Challenge -> PendingRecord] /\ \A d \in Challenge : Ages(d)
  BY <1>0, <1>6, SameAges DEF Reg!ReserveExpired
<1>7. ASSUME NEW c \in Challenge, NEW q \in SUBSET Approver, Reg!ReserveApprovals(e, c, q)
      PROVE  challenge' \in [Challenge -> PendingRecord] /\ \A d \in Challenge : Ages(d)
  <2>1. /\ challenge' = [challenge EXCEPT ![c].state = "Consumed"] /\ challenge[c].state # "none"
        /\ Need[challenge[c].key] = "signed"
    BY <1>7 DEF Reg!ReserveApprovals, Reg!Reservable
  <2>. QED BY <1>0, <2>1, StateAges DEF Ages
<1>. QED BY <1>1, <1>2, <1>3, <1>4, <1>5, <1>6, <1>7 DEF Plain

\* and keep the first invariant.
LEMMA PlainKeeps ==
    ASSUME Reg!SessionsAssumption,
           SessionInv, NEW e \in Exec, Plain(e)
    PROVE  SessionInv'
<1>0. Reg!TypeOK /\ "free" \notin Exec BY DEF SessionInv, Reg!SessionsAssumption
<1>1. /\ Moves(e) /\ exec'[e].refunded = exec[e].refunded
      /\ exec[e].pc \notin {"idle", "closing"}
      /\ exec'[e].pc \in {"closing", "admitted", "publishing"}
      /\ exec'[e].pc = "publishing" => Need[exec[e].key] = "local"
  BY PlainMoves
<1>2. UNCHANGED <<registryClosed, guard, sessionDecision, wall, late, effects, reopened>>
  BY DEF Plain, Reg!Allowed, Reg!GiveUp, Reg!RequestLocal, Reg!StoreChallenge,
         Reg!ReserveLapsed, Reg!ConsumeLocal, Reg!ReserveExpired, Reg!ReserveApprovals,
         Reg!registryVars, Reg!clockVars, Reg!history
<1>3. /\ uses' \in [Challenge \X Approver -> Nat] /\ expired' \subseteq Challenge \X Approver
      /\ starts' \in [Challenge -> Nat] /\ refused' \subseteq Session \cup (Challenge \X Approver)
  <2>0. /\ uses \in [Challenge \X Approver -> Nat] /\ expired \subseteq Challenge \X Approver
        /\ starts \in [Challenge -> Nat] /\ refused \subseteq Session \cup (Challenge \X Approver)
    BY <1>0, TypesOpen
  <2>1. CASE UNCHANGED <<uses, expired, starts, refused>> BY <2>0, <2>1
  <2>2. ASSUME NEW c \in Challenge, Reg!ConsumeLocal(e, c)
        PROVE  UNCHANGED <<uses, expired, refused>> /\ starts' \in [Challenge -> Nat]
    BY <2>0, <2>2 DEF Reg!ConsumeLocal
  <2>3. ASSUME NEW c \in Challenge, NEW a \in Approver, Reg!ReserveExpired(e, c, a)
        PROVE  /\ expired' \subseteq Challenge \X Approver /\ starts' = starts /\ uses' = uses
               /\ refused' \subseteq Session \cup (Challenge \X Approver)
    BY <2>0, <2>3 DEF Reg!ReserveExpired
  <2>4. ASSUME NEW c \in Challenge, NEW q \in SUBSET Approver, Reg!ReserveApprovals(e, c, q)
        PROVE  /\ uses' \in [Challenge \X Approver -> Nat] /\ starts' \in [Challenge -> Nat]
               /\ UNCHANGED <<expired, refused>>
    BY <2>0, <2>4 DEF Reg!ReserveApprovals, Reg!CountUses
  <2>. QED
    BY <2>0, <2>1, <2>2, <2>3, <2>4
       DEF Plain, Reg!Allowed, Reg!GiveUp, Reg!RequestLocal, Reg!StoreChallenge,
           Reg!ReserveLapsed, Reg!registryVars, Reg!history
<1>4. /\ sessionCoordinator' \in {sessionCoordinator, "free", e}
      /\ sessionCoordinator' = e <=> exec'[e].pc = "publishing"
      /\ \A f \in Exec : f # e => (sessionCoordinator' = f <=> sessionCoordinator = f)
  <2>1. exec[e].pc = "publishing" <=> sessionCoordinator = e BY DEF SessionInv, ExecRight
  <2>2. CASE Reg!RequestLocal(e)
    <3>1. sessionCoordinator = "free" /\ sessionCoordinator' = e /\ Reg!To(e, "publishing")
        BY <2>2 DEF Reg!RequestLocal
    <3>2. exec'[e].pc = "publishing" BY <1>0, <1>1, <3>1, ToMoves DEF Reg!ExecPc
    <3>. QED BY <1>0, <3>1, <3>2
  <2>3. CASE Reg!GiveUp(e)
    <3>1. Reg!To(e, "closing") /\ sessionCoordinator' = IF sessionCoordinator = e THEN "free" ELSE sessionCoordinator
      BY <2>3 DEF Reg!GiveUp
    <3>2. exec'[e].pc = "closing" BY <1>0, <1>1, <3>1, ToMoves DEF Reg!ExecPc
    <3>. QED BY <1>0, <3>1, <3>2
  <2>4. CASE ~Reg!RequestLocal(e) /\ ~Reg!GiveUp(e)
    <3>1. \E p \in {"closing", "admitted"} :
             Reg!To(e, p) /\ exec[e].pc \in {"evaluating", "approved"} /\ sessionCoordinator' = sessionCoordinator
      BY <2>4
         DEF Plain, Reg!Allowed, Reg!StoreChallenge, Reg!ReserveLapsed, Reg!ConsumeLocal,
             Reg!ReserveExpired, Reg!ReserveApprovals
    <3>2. exec'[e].pc \in {"closing", "admitted"}
      BY <1>0, <1>1, <3>1, ToMoves DEF Reg!ExecPc
    <3>. QED BY <2>1, <3>1, <3>2
  <2>. QED BY <2>2, <2>3, <2>4
<1>5. Reg!TypeOK'
  <2>1. sessionCoordinator' \in {"free", "admin"} \cup Exec BY <1>0, <1>4, TypesOpen
  <2>2. entry' \in [Session -> SessionEntry] /\ challenge' \in [Challenge -> PendingRecord]
        /\ exec' \in [Exec -> {Reg!Idle} \cup Running]
    BY <1>1, PlainTame, PlainAges DEF Tame, Moves
  <2>. QED BY <1>0, <1>2, <1>3, <2>1, <2>2, TypesOpen, TypesClose
<1>6. ~exec'[e].refunded BY <1>1 DEF SessionInv, ExecRight
<1>7. \A f \in Exec : ExecRight(f)' BY <1>1, <1>4, <1>6, MoveRight
<1>8. \A s \in Session : Reg!Permits(s)' = Reg!Permits(s) /\ Working(s)' \subseteq Working(s)
  BY <1>1, MovesKeepPermits
<1>9. \A s \in Session : SlotsRight(s)' /\ Budget(s)' BY <1>2, <1>8, CountsKept, PlainTame
<1>10. sessionDecision' # {} => sessionCoordinator' = "admin"
  <2>1. ASSUME sessionDecision # {} PROVE sessionCoordinator' = "admin"
    <3>1. sessionCoordinator = "admin" BY <2>1 DEF SessionInv
    <3>2. sessionCoordinator # e BY <3>1 DEF Reg!SessionsAssumption
    <3>. QED
      BY <3>1, <3>2
         DEF Plain, Reg!Allowed, Reg!GiveUp, Reg!RequestLocal, Reg!StoreChallenge,
             Reg!ReserveLapsed, Reg!ConsumeLocal, Reg!ReserveExpired, Reg!ReserveApprovals
  <2>. QED BY <1>2, <2>1
<1>. QED BY <1>5, <1>7, <1>9, <1>10 DEF SessionInv

\* A handoff turns a held use into an effect (with_live_handoff).
LEMMA HandoffKeeps ==
    ASSUME Reg!SessionsAssumption,
           SessionInv, NEW e \in Exec, Reg!Handoff(e)
    PROVE  SessionInv'
<1>. DEFINE t == exec[e].session
<1>0. Reg!TypeOK BY DEF SessionInv
<1>1. /\ exec[e].pc = "admitted" /\ Reg!To(e, "closing") /\ effects' = [effects EXCEPT ![t] = @ + 1]
      /\ UNCHANGED <<registryClosed, entry, challenge, uses, expired, guard, sessionCoordinator, sessionDecision, wall, late,
                     starts, refused, reopened>>
  BY DEF Reg!Handoff, Reg!registryVars, Reg!clockVars
<1>2. Moves(e) /\ exec'[e].pc = "closing" BY <1>0, <1>1, ToMoves DEF Reg!ExecPc
<1>3. t \in Session BY <1>0, <1>1, RunningFacts
<1>4. effects \in [Session -> Nat] /\ entry \in [Session -> SessionEntry] BY <1>0, TypesOpen
<1>. HIDE DEF t
<1>5. /\ effects' \in [Session -> Nat] /\ effects'[t] = effects[t] + 1
      /\ \A s \in Session : s # t => effects'[s] = effects[s]
  BY <1>1, <1>3, <1>4
<1>6. entry'[t].uses + effects'[t] = entry[t].uses + effects[t] + 1
  BY <1>1, <1>3, <1>4, <1>5 DEF SessionEntry
<1>7. \A s \in Session : /\ LifeStep(s) /\ entry'[s].inFlight = entry[s].inFlight
                         /\ s # t => entry'[s].uses = entry[s].uses /\ effects'[s] = effects[s]
  BY <1>0, <1>1, <1>5, SameIsTame DEF Tame
<1>8. \A s \in Session : SlotsRight(s)' /\ Budget(s)'
  BY <1>1, <1>2, <1>4, <1>5, <1>6, <1>7, SpentKept DEF t
<1>9. Reg!TypeOK' BY <1>0, <1>1, <1>2, <1>5, TypesOpen, TypesClose DEF Moves
<1>10. \A f \in Exec : ExecRight(f)'
  <2>1. sessionCoordinator # e BY <1>1 DEF SessionInv, ExecRight
  <2>. QED BY <2>1, <1>1, <1>2, MoveRight
<1>. QED BY <1>1, <1>8, <1>9, <1>10 DEF SessionInv

\* A request that publishes its approval returns its use.
LEMMA PublishKeeps ==
    ASSUME Reg!SessionsAssumption,
           SessionInv, NEW e \in Exec, NEW c \in Challenge, Reg!PublishLocal(e, c)
    PROVE  SessionInv'
<1>0. Reg!TypeOK /\ "free" \notin Exec /\ "admin" \notin Exec
  BY DEF SessionInv, Reg!SessionsAssumption
<1>1. /\ exec[e].pc = "publishing" /\ challenge[c].state = "none"
      /\ challenge' = Reg!Stored(Reg!Listed, c, e, TRUE) /\ Reg!Refund(e) /\ sessionCoordinator' = "free"
      /\ exec' = [exec EXCEPT ![e].refunded = TRUE, ![e].pc = "closing"]
      /\ UNCHANGED <<registryClosed, uses, expired, guard, sessionDecision, wall, late, effects, starts, refused, reopened>>
  BY DEF Reg!PublishLocal, Reg!clockVars, Reg!history
<1>2. Moves(e) /\ exec'[e].pc = "closing" /\ exec'[e].refunded
  BY <1>0, <1>1, RefundMoves DEF Reg!ExecPc
<1>3. sessionCoordinator = e BY <1>1 DEF SessionInv, ExecRight
<1>4. /\ entry' \in [Session -> SessionEntry]
      /\ \A s \in Session : /\ LifeStep(s) /\ entry'[s].inFlight = entry[s].inFlight
                            /\ s # exec[e].session => entry'[s].uses = entry[s].uses
      /\ LET s == exec[e].session IN entry'[s].uses = entry[s].uses + 1
  BY <1>1, RefundFacts
<1>5. LET s == exec[e].session IN entry'[s].uses + effects'[s] = entry[s].uses + effects[s] + 1
  <2>1. exec[e].session \in Session BY <1>0, <1>1, RunningFacts
  <2>. QED BY <1>0, <1>1, <1>4, <2>1, TypesOpen DEF SessionEntry
<1>6. effects' \in [Session -> Nat] BY <1>0, <1>1, TypesOpen
<1>7. \A s \in Session : SlotsRight(s)' /\ Budget(s)'
  BY <1>1, <1>2, <1>4, <1>5, <1>6, SpentKept
<1>8. challenge' \in [Challenge -> PendingRecord] BY <1>0, <1>1, StoredFiles
<1>9. Reg!TypeOK' BY <1>0, <1>1, <1>2, <1>4, <1>8, TypesOpen, TypesClose DEF Moves
<1>10. \A f \in Exec : ExecRight(f)' BY <1>0, <1>1, <1>2, <1>3, MoveRight
<1>11. sessionDecision' = {} BY <1>0, <1>1, <1>3 DEF SessionInv
<1>. QED BY <1>7, <1>9, <1>10, <1>11 DEF SessionInv

\* A request that finds an open approval returns its use and waits.
LEMMA AwaitKeeps ==
    ASSUME Reg!SessionsAssumption,
           SessionInv, NEW e \in Exec, NEW c \in Challenge, Reg!AwaitLocal(e, c)
    PROVE  SessionInv'
<1>. DEFINE fresh == Reg!Refreshed({c})
            waits == exec[e].wanted = {} \/ fresh[c].state = "Pending"
<1>0. Reg!TypeOK /\ "free" \notin Exec BY DEF SessionInv, Reg!SessionsAssumption
<1>1. /\ exec[e].pc = "evaluating" /\ Need[exec[e].key] = "local" /\ sessionCoordinator = "free"
      /\ challenge' = fresh /\ IF waits THEN Reg!Refund(e) ELSE entry' = entry
      /\ exec' = [exec EXCEPT ![e].refunded = waits, ![e].pc = IF waits THEN "closing" ELSE "approved"]
      /\ UNCHANGED <<registryClosed, uses, expired, guard, sessionCoordinator, sessionDecision, wall, late, effects, starts,
                     refused, reopened>>
  BY DEF Reg!AwaitLocal, Reg!clockVars, Reg!history
<1>2. challenge' \in [Challenge -> PendingRecord] BY <1>0, <1>1, RefreshedAges
<1>. HIDE DEF fresh
<1>3. CASE waits
  <2>1. exec' = [exec EXCEPT ![e].refunded = TRUE, ![e].pc = "closing"] /\ Reg!Refund(e)
    BY <1>1, <1>3
  <2>2. Moves(e) /\ exec'[e].pc = "closing" /\ exec'[e].refunded
    BY <1>0, <1>1, <2>1, RefundMoves DEF Reg!ExecPc
  <2>4. /\ entry' \in [Session -> SessionEntry]
        /\ \A s \in Session : /\ LifeStep(s) /\ entry'[s].inFlight = entry[s].inFlight
                              /\ s # exec[e].session => entry'[s].uses = entry[s].uses
        /\ LET s == exec[e].session IN entry'[s].uses = entry[s].uses + 1
    BY <1>1, <2>1, RefundFacts
  <2>5. LET s == exec[e].session IN entry'[s].uses + effects'[s] = entry[s].uses + effects[s] + 1
    <3>1. exec[e].session \in Session BY <1>0, <1>1, RunningFacts
    <3>. QED BY <1>0, <1>1, <2>4, <3>1, TypesOpen DEF SessionEntry
  <2>6. effects' \in [Session -> Nat] BY <1>0, <1>1, TypesOpen
  <2>7. \A s \in Session : SlotsRight(s)' /\ Budget(s)'
    BY <1>1, <2>2, <2>4, <2>5, <2>6, SpentKept
  <2>9. Reg!TypeOK' BY <1>0, <1>1, <1>2, <2>2, <2>4, TypesOpen, TypesClose DEF Moves
  <2>10. \A f \in Exec : ExecRight(f)' BY <1>0, <1>1, <2>2, MoveRight
  <2>. QED BY <1>1, <2>7, <2>9, <2>10 DEF SessionInv
<1>4. CASE ~waits
  <2>1. exec' = [exec EXCEPT ![e].refunded = FALSE, ![e].pc = "approved"] /\ entry' = entry
    BY <1>1, <1>4
  <2>2. Moves(e) /\ exec'[e].pc = "approved" /\ exec'[e].refunded = FALSE
    BY <1>0, <1>1, <2>1, RefundMoves DEF Reg!ExecPc
  <2>3. exec[e].refunded = FALSE
    <3>1. ~exec[e].refunded BY <1>1 DEF SessionInv, ExecRight
    <3>. QED BY <1>0, <1>1, <3>1, RunningFacts
  <2>4. \A s \in Session : Reg!Permits(s)' = Reg!Permits(s) /\ Working(s)' \subseteq Working(s)
    BY <1>1, <2>2, <2>3, MovesKeepPermits
  <2>5. \A s \in Session : SlotsRight(s)' /\ Budget(s)'
    BY <1>0, <1>1, <2>1, <2>4, CountsKept, SameIsTame
  <2>6. Reg!TypeOK' BY <1>0, <1>1, <1>2, <2>1, <2>2, TypesOpen, TypesClose DEF Moves
  <2>7. \A f \in Exec : ExecRight(f)' BY <1>0, <1>1, <2>2, MoveRight
  <2>. QED BY <1>1, <2>5, <2>6, <2>7 DEF SessionInv
<1>. QED BY <1>3, <1>4

\* begin takes a use and a slot.
LEMMA AcquireFacts ==
    ASSUME Reg!SessionsAssumption,
           Reg!TypeOK, NEW e \in Exec, NEW t \in Session, NEW k \in SessionKey, NEW w \in SUBSET Challenge,
           Reg!Acquire(e, t, k, w)
    PROVE  /\ entry' \in [Session -> SessionEntry]
           /\ entry'[t].uses = entry[t].uses - 1 /\ entry'[t].inFlight = entry[t].inFlight + 1
           /\ \A s \in Session : LifeStep(s)
           /\ \A s \in Session : s # t => entry'[s] = entry[s]
           /\ exec' \in [Exec -> {Reg!Idle} \cup Running]
           /\ exec[e].pc = "idle" /\ exec'[e].pc = "evaluating" /\ exec'[e].session = t
           /\ exec'[e].refunded = FALSE
           /\ \A f \in Exec : f # e => exec'[f] = exec[f]
<1>0. /\ entry \in [Session -> SessionEntry] /\ exec \in [Exec -> {Reg!Idle} \cup Running]
      /\ MaxUses \in Nat /\ MaxConcurrent \in Nat
  BY TypesOpen DEF Reg!SessionsAssumption
<1>1. /\ exec[e] = Reg!Idle /\ entry[t].uses > 0 /\ entry[t].inFlight < MaxConcurrent
      /\ entry' = [entry EXCEPT ![t].uses = @ - 1, ![t].inFlight = @ + 1,
                                ![t].exhausted = entry[t].uses = 1]
      /\ exec' = [exec EXCEPT ![e] = [pc |-> "evaluating", session |-> t, key |-> k,
                                      refunded |-> FALSE, wanted |-> w]]
  BY DEF Reg!Acquire, Reg!Usable
<1>2. entry[t].uses - 1 \in 0..MaxUses /\ entry[t].inFlight + 1 \in 0..MaxConcurrent
  BY <1>0, <1>1 DEF SessionEntry
<1>3. /\ entry' \in [Session -> SessionEntry]
      /\ entry'[t].uses = entry[t].uses - 1 /\ entry'[t].inFlight = entry[t].inFlight + 1
      /\ entry'[t].revoked = entry[t].revoked /\ entry'[t].state = entry[t].state
      /\ \A s \in Session : s # t => entry'[s] = entry[s]
  BY <1>0, <1>1, <1>2 DEF SessionEntry
<1>4. \A s \in Session : LifeStep(s)
  <2>1. \A s \in Session : entry'[s].revoked = entry[s].revoked /\ entry'[s].state = entry[s].state
    BY <1>3
  <2>. QED BY <2>1 DEF LifeStep
<1>5. [pc |-> "evaluating", session |-> t, key |-> k, refunded |-> FALSE, wanted |-> w] \in Running
  BY DEF Running, Reg!ExecPc
<1>6. exec' \in [Exec -> {Reg!Idle} \cup Running] BY <1>0, <1>1, <1>5
<1>7. exec'[e].pc = "evaluating" /\ exec'[e].session = t /\ exec'[e].refunded = FALSE
      /\ \A f \in Exec : f # e => exec'[f] = exec[f]
  BY <1>0, <1>1
<1>8. exec[e].pc = "idle" BY <1>1 DEF Reg!Idle
<1>. QED BY <1>3, <1>4, <1>6, <1>7, <1>8

\* It keeps the first invariant.
LEMMA AcquireKeeps ==
    ASSUME Reg!SessionsAssumption,
           SessionInv, NEW e \in Exec, NEW t \in Session, NEW k \in SessionKey, NEW w \in SUBSET Challenge,
           Reg!Acquire(e, t, k, w)
    PROVE  SessionInv'
<1>0. Reg!TypeOK BY DEF SessionInv
<1>1. UNCHANGED <<registryClosed, challenge, uses, expired, guard, sessionCoordinator, sessionDecision, wall, late, effects,
                  starts, refused, reopened>>
  BY DEF Reg!Acquire, Reg!clockVars, Reg!history
<1>2. /\ entry' \in [Session -> SessionEntry]
      /\ entry'[t].uses = entry[t].uses - 1 /\ entry'[t].inFlight = entry[t].inFlight + 1
      /\ \A s \in Session : LifeStep(s)
      /\ \A s \in Session : s # t => entry'[s] = entry[s]
      /\ exec' \in [Exec -> {Reg!Idle} \cup Running]
      /\ exec[e].pc = "idle" /\ exec'[e].pc = "evaluating" /\ exec'[e].session = t
      /\ exec'[e].refunded = FALSE
      /\ \A f \in Exec : f # e => exec'[f] = exec[f]
  BY <1>0, AcquireFacts
<1>3. Reg!TypeOK' BY <1>0, <1>1, <1>2, TypesOpen, TypesClose
<1>4. \A f \in Exec : ExecRight(f)' BY <1>1, <1>2 DEF SessionInv, ExecRight
<1>5. ASSUME NEW s \in Session PROVE SlotsRight(s)' /\ Budget(s)'
  <2>1. SlotsRight(s) /\ Budget(s) BY DEF SessionInv
  <2>2. CASE s # t
    <3>1. Reg!Permits(s)' = Reg!Permits(s) /\ Working(s)' = Working(s)
      BY <1>2, <2>2 DEF Reg!Permits, Working
    <3>2. entry'[s] = entry[s] /\ effects'[s] = effects[s] BY <1>1, <1>2, <2>2
    <3>. QED BY <2>1, <3>1, <3>2 DEF SlotsRight, Budget, Reg!Present
  <2>3. CASE s = t
    <3>1. /\ Reg!Permits(s)' = Reg!Permits(s) \cup {e} /\ e \notin Reg!Permits(s)
          /\ Working(s)' = Working(s) \cup {e} /\ e \notin Working(s)
      BY <1>2, <2>3 DEF Reg!Permits, Working
    <3>2. IsFiniteSet(Reg!Permits(s)) /\ IsFiniteSet(Working(s))
      BY <2>1, FS_Subset DEF SlotsRight, Working
    <3>3. /\ IsFiniteSet(Reg!Permits(s)') /\ Cardinality(Reg!Permits(s)') = Cardinality(Reg!Permits(s)) + 1
          /\ Cardinality(Working(s)') = Cardinality(Working(s)) + 1
          /\ Cardinality(Working(s)) \in Nat
      <4>1. /\ IsFiniteSet(Reg!Permits(s) \cup {e})
            /\ Cardinality(Reg!Permits(s) \cup {e}) = Cardinality(Reg!Permits(s)) + 1
        BY <3>1, <3>2, FS_AddElement
      <4>2. Cardinality(Working(s) \cup {e}) = Cardinality(Working(s)) + 1
        BY <3>1, <3>2, FS_AddElement
      <4>3. Cardinality(Working(s)) \in Nat BY <3>2, FS_CardinalityType
      <4>. QED BY <3>1, <4>1, <4>2, <4>3
    <3>4. entry[s].uses \in Nat /\ entry[s].inFlight \in Nat /\ effects[s] \in Nat /\ MaxUses \in Nat
          /\ effects'[s] = effects[s]
      BY <1>0, <1>1, TypesOpen DEF SessionEntry, Reg!SessionsAssumption
    <3>5. entry'[s].state = "live"
      <4>1. entry[t].state = "live" /\ entry' = [entry EXCEPT ![t].uses = @ - 1, ![t].inFlight = @ + 1,
                                ![t].exhausted = entry[t].uses = 1]
        BY DEF Reg!Acquire
      <4>. QED BY <4>1, <2>3, <1>0, TypesOpen DEF SessionEntry
    <3>6. SlotsRight(s)' BY <1>2, <2>1, <2>3, <3>3, <3>5 DEF SlotsRight, Reg!Present
    <3>7. Budget(s)' BY <1>2, <2>1, <2>3, <3>3, <3>4 DEF Budget
    <3>. QED BY <3>6, <3>7
  <2>. QED BY <2>2, <2>3
<1>. QED BY <1>1, <1>3, <1>4, <1>5 DEF SessionInv

\* finish gives the slot back.
LEMMA FinishFacts ==
    ASSUME Reg!SessionsAssumption,
           SessionInv, NEW e \in Exec, Reg!Finish(e)
    PROVE  LET t == exec[e].session IN
           /\ t \in Session /\ entry' \in [Session -> SessionEntry]
           /\ entry'[t].inFlight = entry[t].inFlight - 1
           /\ \A s \in Session : LifeStep(s) /\ entry'[s].uses = entry[s].uses
           /\ \A s \in Session : s # t => entry'[s].inFlight = entry[s].inFlight
           /\ exec' \in [Exec -> {Reg!Idle} \cup Running]
           /\ exec[e].pc = "closing" /\ exec'[e].pc = "idle"
           /\ \A f \in Exec : f # e => exec'[f] = exec[f]
           /\ e \in Reg!Permits(t) /\ Cardinality(Reg!Permits(t)) # 0
<1>. DEFINE t == exec[e].session
<1>0. Reg!TypeOK /\ exec \in [Exec -> {Reg!Idle} \cup Running] BY TypesOpen DEF SessionInv
<1>1. exec[e].pc = "closing" /\ entry' = Reg!Finished(t) /\ exec' = [exec EXCEPT ![e] = Reg!Idle]
  BY DEF Reg!Finish
<1>2. t \in Session BY <1>0, <1>1, RunningFacts
<1>3. e \in Reg!Permits(t) BY <1>1 DEF Reg!Permits
<1>. HIDE DEF t
<1>4. IsFiniteSet(Reg!Permits(t)) /\ entry[t].inFlight = Cardinality(Reg!Permits(t))
  BY <1>2 DEF SessionInv, SlotsRight
<1>5. Cardinality(Reg!Permits(t)) # 0 BY <1>3, <1>4, FS_EmptySet
<1>6. entry' \in [Session -> SessionEntry] /\ entry'[t].inFlight = entry[t].inFlight - 1
      /\ \A s \in Session : s # t => entry'[s].inFlight = entry[s].inFlight
  BY <1>0, <1>1, <1>2, <1>4, <1>5, FinishedFacts
<1>7. ASSUME NEW s \in Session PROVE LifeStep(s) /\ entry'[s].uses = entry[s].uses
  <2>1. /\ entry'[s].uses = entry[s].uses /\ entry'[s].revoked = entry[s].revoked
        /\ \/ entry'[s].state = entry[s].state
           \/ /\ Reg!Present(s) /\ entry'[s].state = "gone" /\ entry'[s].inFlight = 0
              /\ entry'[s].revoked \/ s \in late \/ \A c \in Reg!Held(s) : ~challenge[c].local
    BY <1>0, <1>1, <1>2, FinishedFacts
  <2>. QED BY <2>1 DEF LifeStep
<1>8. /\ exec' \in [Exec -> {Reg!Idle} \cup Running] /\ exec'[e].pc = "idle"
      /\ \A f \in Exec : f # e => exec'[f] = exec[f]
  BY <1>0, <1>1 DEF Reg!Idle
<1>. QED BY <1>1, <1>2, <1>3, <1>5, <1>6, <1>7, <1>8 DEF t

\* It keeps the first invariant.
LEMMA FinishKeeps ==
    ASSUME Reg!SessionsAssumption,
           SessionInv, NEW e \in Exec, Reg!Finish(e)
    PROVE  SessionInv'
<1>. DEFINE t == exec[e].session
<1>0. Reg!TypeOK BY DEF SessionInv
<1>1. UNCHANGED <<registryClosed, challenge, uses, expired, guard, sessionCoordinator, sessionDecision, wall, late, effects,
                  starts, refused, reopened>>
  BY DEF Reg!Finish, Reg!clockVars, Reg!history
<1>2. /\ t \in Session /\ entry' \in [Session -> SessionEntry]
      /\ entry'[t].inFlight = entry[t].inFlight - 1
      /\ \A s \in Session : LifeStep(s) /\ entry'[s].uses = entry[s].uses
      /\ \A s \in Session : s # t => entry'[s].inFlight = entry[s].inFlight
      /\ exec' \in [Exec -> {Reg!Idle} \cup Running]
      /\ exec[e].pc = "closing" /\ exec'[e].pc = "idle"
      /\ \A f \in Exec : f # e => exec'[f] = exec[f]
      /\ e \in Reg!Permits(t) /\ Cardinality(Reg!Permits(t)) # 0
  BY FinishFacts
<1>3. Reg!TypeOK' BY <1>0, <1>1, <1>2, TypesOpen, TypesClose
<1>4. \A f \in Exec : ExecRight(f)' BY <1>1, <1>2 DEF SessionInv, ExecRight
<1>5. ASSUME NEW s \in Session PROVE SlotsRight(s)' /\ Budget(s)'
  <2>1. SlotsRight(s) /\ Budget(s) /\ LifeStep(s) BY <1>2 DEF SessionInv
  <2>2. Working(s)' = Working(s) BY <1>2 DEF Working, Reg!Permits
  <2>3. Budget(s)' BY <1>1, <1>2, <2>1, <2>2 DEF Budget
  <2>4. entry[s].inFlight \in Nat /\ entry'[s].inFlight \in Nat
    BY <1>0, <1>2, TypesOpen DEF SessionEntry
  <2>5. CASE s # t
    <3>1. Reg!Permits(s)' = Reg!Permits(s) BY <1>2, <2>5 DEF Reg!Permits
    <3>. QED BY <1>2, <2>1, <2>3, <2>4, <2>5, <3>1 DEF SlotsRight, LifeStep, Reg!Present
  <2>6. CASE s = t
    <3>1. Reg!Permits(s)' = Reg!Permits(s) \ {e} /\ e \in Reg!Permits(s)
      BY <1>2, <2>6 DEF Reg!Permits
    <3>2. /\ IsFiniteSet(Reg!Permits(s)') /\ Cardinality(Reg!Permits(s)') = Cardinality(Reg!Permits(s)) - 1
      BY <2>1, <3>1, FS_RemoveElement DEF SlotsRight
    <3>3. entry'[s].inFlight = entry[s].inFlight - 1 /\ entry[s].inFlight # 0
      BY <1>2, <2>1, <2>6 DEF SlotsRight
    <3>4. entry'[s].inFlight > 0 => entry'[s].state \in {"minted", "live"}
      BY <2>1, <2>4, <3>3 DEF SlotsRight, LifeStep, Reg!Present
    <3>. QED BY <2>1, <2>3, <3>2, <3>3, <3>4 DEF SlotsRight, Reg!Present
  <2>. QED BY <2>5, <2>6
<1>. QED BY <1>1, <1>3, <1>4, <1>5 DEF SessionInv

\* So does a begin that finds its session expired.
LEMMA BeginExpiredKeeps ==
    ASSUME Reg!SessionsAssumption,
           SessionInv, NEW e \in Exec, NEW t \in Session, Reg!BeginExpired(e, t)
    PROVE  SessionInv' /\ Tame
<1>0. Reg!TypeOK BY DEF SessionInv
<1>1. UNCHANGED <<registryClosed, challenge, uses, expired, guard, exec, sessionCoordinator, sessionDecision, wall, late, effects,
                  starts, reopened>>
  BY DEF Reg!BeginExpired, Reg!clockVars
<1>2. Tame BY <1>0, LatchIsTame DEF Reg!BeginExpired, Reg!Present
<1>3. refused' \subseteq Session \cup (Challenge \X Approver)
  BY <1>0, TypesOpen DEF Reg!BeginExpired
<1>4. Reg!TypeOK' BY <1>0, <1>1, <1>2, <1>3, TypesOpen, TypesClose DEF Tame
<1>5. \A f \in Exec : ExecRight(f)' BY <1>1 DEF SessionInv, ExecRight
<1>6. \A s \in Session : SlotsRight(s)' /\ Budget(s)'
  BY <1>1, <1>2, CountsKept DEF Reg!Permits, Working
<1>. QED BY <1>1, <1>2, <1>4, <1>5, <1>6 DEF SessionInv

\* The steps of a request, by what they do
LEMMA ExecutionCases ==
    ASSUME NEW e \in Exec, Reg!Execution(e)
    PROVE  \/ Plain(e) \/ Reg!Handoff(e) \/ Reg!Finish(e)
           \/ \E c \in Challenge : Reg!AwaitLocal(e, c) \/ Reg!PublishLocal(e, c)
           \/ \E s \in Session, k \in SessionKey, w \in SUBSET Challenge : Reg!Acquire(e, s, k, w)
           \/ \E s \in Session : Reg!BeginExpired(e, s)
<1>1. {{}} \cup {{c} : c \in Challenge} \subseteq SUBSET Challenge OBVIOUS
<1>. QED BY <1>1 DEF Reg!Execution, Plain

\* Every step keeps the first invariant.
LEMMA SessionStep ==
    ASSUME Reg!SessionsAssumption
    PROVE  SessionInv /\ [Reg!Next]_Reg!vars => SessionInv'
<1>. SUFFICES ASSUME SessionInv, [Reg!Next]_Reg!vars PROVE SessionInv' OBVIOUS
<1>1. ASSUME NEW e \in Exec, Reg!Execution(e) PROVE SessionInv'
  BY <1>1, ExecutionCases, PlainKeeps, HandoffKeeps, FinishKeeps, AwaitKeeps, PublishKeeps,
     AcquireKeeps, BeginExpiredKeeps
<1>2. CASE UNCHANGED Reg!vars
  <2>1. UNCHANGED <<registryClosed, entry, challenge, uses, expired, guard, exec, sessionCoordinator, sessionDecision, wall, late,
                    effects, starts, refused, reopened>>
    BY <1>2 DEF Reg!vars, Reg!registryVars, Reg!clockVars, Reg!history
  <2>2. Reg!TypeOK' BY <2>1, TypesOpen, TypesClose DEF SessionInv
  <2>3. \A f \in Exec : ExecRight(f)' BY <2>1 DEF SessionInv, ExecRight
  <2>4. \A s \in Session : SlotsRight(s)' /\ Budget(s)'
    BY <2>1, CountsKept, SameIsTame DEF Reg!Permits, Working, SessionInv
  <2>. QED BY <2>1, <2>2, <2>3, <2>4 DEF SessionInv
<1>. QED BY <1>1, <1>2, RegistryKeeps, DecisionsKeep, TickKeeps DEF Reg!Next

\* The first invariant holds in every state.
LEMMA SessionAlways ==
    ASSUME Reg!SessionsAssumption
    PROVE  Reg!Spec => []SessionInv
<1>. QED BY SessionInit, SessionStep, PTL DEF Reg!Spec

\* Types hold in every state: uses_left never exceeds max_uses although a
\* local wait returns its use (refund_local_wait).
THEOREM SessionTypeCorrect ==
    ASSUME Reg!SessionsAssumption
    PROVE  Reg!Spec => []Reg!TypeOK
<1>1. SessionInv => Reg!TypeOK BY DEF SessionInv
<1>. QED BY <1>1, SessionAlways, PTL

\* The concurrency slots an entry counts are exactly the permits alive, and
\* no entry is compacted away under a running execution (begin, finish,
\* compact_entries).
THEOREM SlotsAreExact ==
    ASSUME Reg!SessionsAssumption
    PROVE  Reg!Spec => []Reg!InFlightExact
<1>1. SessionInv => Reg!InFlightExact BY RegCounts DEF SessionInv, SlotsRight, Reg!InFlightExact
<1>. QED BY <1>1, SessionAlways, PTL

\* The uses left, those of running requests and those handed off never exceed
\* max_uses, although a request that waits for an approval returns the use it
\* reserved (begin, refund_local_wait, with_live_handoff).
THEOREM UsesAreConserved ==
    ASSUME Reg!SessionsAssumption
    PROVE  Reg!Spec => []Reg!UsesConserved
<1>1. SessionInv => Reg!UsesConserved
  BY RegCounts DEF SessionInv, Budget, Working, Reg!UsesConserved
<1>. QED BY <1>1, SessionAlways, PTL

-----------------------------------------------------------------------------
(* What has ended stays ended *)

\* Every step treats every entry so.
LEMMA LifeNext ==
    ASSUME Reg!SessionsAssumption,
           SessionInv, Reg!Next
    PROVE  entry' \in [Session -> SessionEntry] /\ \A s \in Session : LifeStep(s)
<1>0. Reg!TypeOK BY DEF SessionInv
<1>1. CASE Reg!Registry BY <1>0, <1>1, RegistryIsTame DEF Tame
<1>2. CASE Reg!Decisions \/ Reg!Tick
  <2>1. entry' = entry
    BY <1>2
       DEF Reg!Decisions, Reg!CancelApproval, Reg!DecideBegin, Reg!DecidePublish,
           Reg!DecideUnconfirmed, Reg!DecideRefused, Reg!Tick, Reg!SetWall, Reg!Late,
           Reg!registryVars
  <2>. QED BY <1>0, <2>1, SameIsTame DEF Tame
<1>3. ASSUME NEW e \in Exec, Reg!Execution(e)
      PROVE  entry' \in [Session -> SessionEntry] /\ \A s \in Session : LifeStep(s)
  <2>1. CASE Plain(e) BY <2>1, PlainTame DEF Tame
  <2>2. CASE Reg!Handoff(e)
    <3>1. entry' = entry BY <2>2 DEF Reg!Handoff, Reg!registryVars
    <3>. QED BY <1>0, <3>1, SameIsTame DEF Tame
  <2>3. CASE Reg!Finish(e) BY <2>3, FinishFacts
  <2>4. ASSUME NEW c \in Challenge, Reg!AwaitLocal(e, c)
        PROVE  entry' \in [Session -> SessionEntry] /\ \A s \in Session : LifeStep(s)
    <3>1. (entry' = entry \/ Reg!Refund(e)) /\ exec[e].pc = "evaluating"
      BY <2>4 DEF Reg!AwaitLocal
    <3>. QED BY <1>0, <3>1, SameIsTame, RefundFacts DEF Tame
  <2>5. ASSUME NEW c \in Challenge, Reg!PublishLocal(e, c)
        PROVE  entry' \in [Session -> SessionEntry] /\ \A s \in Session : LifeStep(s)
    BY <2>5, RefundFacts DEF Reg!PublishLocal
  <2>6. ASSUME NEW s \in Session, NEW k \in SessionKey, NEW w \in SUBSET Challenge, Reg!Acquire(e, s, k, w)
        PROVE  entry' \in [Session -> SessionEntry] /\ \A t \in Session : LifeStep(t)
    BY <1>0, <2>6, AcquireFacts
  <2>7. ASSUME NEW s \in Session, Reg!BeginExpired(e, s)
        PROVE  entry' \in [Session -> SessionEntry] /\ \A t \in Session : LifeStep(t)
    BY <2>7, BeginExpiredKeeps DEF Tame
  <2>. QED BY <1>3, <2>1, <2>2, <2>3, <2>4, <2>5, <2>6, <2>7, ExecutionCases
<1>. QED BY <1>1, <1>2, <1>3 DEF Reg!Next

\* A step with an effect finds its session alive.
LEMMA EffectsNext ==
    ASSUME SessionInv, Reg!Next, NEW s \in Session, effects'[s] # effects[s]
    PROVE  Reg!Present(s) /\ ~entry[s].revoked
<1>1. PICK e \in Exec : Reg!Handoff(e)
  <2>1. effects' # effects OBVIOUS
  <2>2. ~Reg!Registry
    BY <2>1
       DEF Reg!Registry, Reg!Admit, Reg!Deliver, Reg!Revoke, Reg!WaitRevoked, Reg!DropGuard,
           Reg!RevokeWorkload, Reg!CloseAndRevokeAll, Reg!OpenForAdmission, Reg!history
  <2>3. ~Reg!Decisions
    BY <2>1
       DEF Reg!Decisions, Reg!CancelApproval, Reg!DecideBegin, Reg!DecidePublish,
           Reg!DecideUnconfirmed, Reg!DecideRefused, Reg!history
  <2>4. ~Reg!Tick BY <2>1 DEF Reg!Tick, Reg!SetWall, Reg!Late, Reg!history
  <2>5. ASSUME NEW e \in Exec, Reg!Execution(e) PROVE Reg!Handoff(e)
    BY <2>1, <2>5
       DEF Reg!Execution, Reg!Acquire, Reg!BeginExpired, Reg!Allowed, Reg!GiveUp, Reg!Finish,
           Reg!RequestLocal, Reg!StoreChallenge, Reg!ReserveLapsed, Reg!AwaitLocal,
           Reg!PublishLocal, Reg!ConsumeLocal, Reg!ReserveExpired, Reg!ReserveApprovals,
           Reg!history
  <2>. QED BY <2>2, <2>3, <2>4, <2>5 DEF Reg!Next
<1>2. effects' = [effects EXCEPT ![exec[e].session] = @ + 1] BY <1>1 DEF Reg!Handoff
<1>3. effects \in [Session -> Nat] BY TypesOpen DEF SessionInv
<1>4. s = exec[e].session BY <1>2, <1>3
<1>. QED BY <1>1, <1>4 DEF Reg!Handoff

\* Revoked, or no longer in the registry.
SessionEnded(s) == entry[s].revoked \/ entry[s].state = "gone"

\* A session that was reported expired has ended.
EndedInv ==
    /\ \A s \in Session : entry[s].state = "none" => ~entry[s].revoked
    /\ \A s \in refused \cap Session : SessionEnded(s)

\* What has ended stays so.
LEMMA EndedStays ==
    ASSUME Reg!SessionsAssumption,
           SessionInv, EndedInv, Reg!Next, NEW s \in Session, SessionEnded(s)
    PROVE  SessionEnded(s)'
<1>1. LifeStep(s) BY LifeNext
<1>. QED BY <1>1 DEF LifeStep, SessionEnded, Reg!Present

\* Every step keeps EndedInv.
LEMMA EndedStep ==
    ASSUME Reg!SessionsAssumption
    PROVE  SessionInv /\ EndedInv /\ [Reg!Next]_Reg!vars => EndedInv'
<1>. SUFFICES ASSUME SessionInv, EndedInv, [Reg!Next]_Reg!vars PROVE EndedInv' OBVIOUS
<1>1. CASE UNCHANGED Reg!vars
  BY <1>1 DEF Reg!vars, Reg!registryVars, Reg!history, EndedInv, SessionEnded
<1>2. CASE Reg!Next
  <2>1. ASSUME NEW s \in Session, entry'[s].state = "none" PROVE ~entry'[s].revoked
    <3>1. LifeStep(s) BY <1>2, LifeNext
    <3>. QED BY <2>1, <3>1 DEF LifeStep, EndedInv, Reg!Present
  <2>2. ASSUME NEW s \in refused' \cap Session PROVE SessionEnded(s)'
    <3>1. CASE s \in refused BY <1>2, <3>1, EndedStays DEF EndedInv
    <3>2. CASE s \notin refused
      <4>0. entry \in [Session -> SessionEntry] BY TypesOpen DEF SessionInv
      <4>1. s \notin Challenge \X Approver BY DEF Reg!SessionsAssumption
      <4>2. ~(Reg!Decisions \/ Reg!Tick)
        BY <3>2
           DEF Reg!Decisions, Reg!CancelApproval, Reg!DecideBegin, Reg!DecidePublish,
               Reg!DecideUnconfirmed, Reg!DecideRefused, Reg!Tick, Reg!SetWall, Reg!Late,
               Reg!history
      <4>3. \/ Reg!WaitRevoked(s) \/ \E e \in Exec : Reg!BeginExpired(e, s)
        <5>1. CASE Reg!Registry
          BY <3>2, <5>1
             DEF Reg!Registry, Reg!Admit, Reg!Deliver, Reg!Revoke, Reg!WaitRevoked,
                 Reg!DropGuard, Reg!RevokeWorkload, Reg!CloseAndRevokeAll, Reg!OpenForAdmission,
                 Reg!history
        <5>2. ASSUME NEW e \in Exec, Reg!Execution(e) PROVE Reg!BeginExpired(e, s)
          <6>1. CASE UNCHANGED refused BY <3>2, <6>1
          <6>2. ASSUME NEW c \in Challenge, NEW a \in Approver, Reg!ReserveExpired(e, c, a) PROVE FALSE
            BY <3>2, <4>1, <6>2 DEF Reg!ReserveExpired
          <6>3. ASSUME NEW t \in Session, Reg!BeginExpired(e, t) PROVE Reg!BeginExpired(e, s)
            BY <3>2, <6>3 DEF Reg!BeginExpired
          <6>. QED
            BY <5>2, <6>1, <6>2, <6>3
               DEF Reg!Execution, Reg!Acquire, Reg!Allowed, Reg!GiveUp, Reg!Handoff, Reg!Finish,
                   Reg!RequestLocal, Reg!StoreChallenge, Reg!ReserveLapsed, Reg!AwaitLocal,
                   Reg!PublishLocal, Reg!ConsumeLocal, Reg!ReserveApprovals, Reg!history
        <5>. QED BY <1>2, <4>2, <5>1, <5>2 DEF Reg!Next
      <4>4. entry' = [entry EXCEPT ![s].revoked = TRUE]
        BY <4>3 DEF Reg!WaitRevoked, Reg!BeginExpired
      <4>5. entry'[s].revoked BY <4>0, <4>4 DEF SessionEntry
      <4>. QED BY <4>5 DEF SessionEnded
    <3>. QED BY <3>1, <3>2
  <2>. QED BY <2>1, <2>2 DEF EndedInv
<1>. QED BY <1>1, <1>2

\* EndedInv holds in every state.
LEMMA EndedAlways ==
    ASSUME Reg!SessionsAssumption
    PROVE  Reg!Spec => []EndedInv
<1>1. Reg!Init => EndedInv BY DEF Reg!Init, EndedInv
<1>. QED BY <1>1, EndedStep, SessionAlways, PTL DEF Reg!Spec

\* A revoked session, or one that has left the registry, never starts an
\* effect again, not even after the next unlock (revoke, close_and_revoke_all,
\* ProfileSessionGuard::drop against with_live_handoff).
THEOREM RevokedSessionsAreSilent ==
    ASSUME Reg!SessionsAssumption
    PROVE  Reg!Spec => [][Reg!RevokedNeverActs]_Reg!vars
<1>1. SessionInv /\ EndedInv /\ [Reg!Next]_Reg!vars => [Reg!RevokedNeverActs]_Reg!vars
  <2>. SUFFICES ASSUME SessionInv, EndedInv, Reg!Next, NEW s \in Session, SessionEnded(s)
                PROVE  effects'[s] = effects[s] /\ SessionEnded(s)'
    BY DEF Reg!RevokedNeverActs, SessionEnded
  <2>1. SessionEnded(s)' BY EndedStays
  <2>2. effects'[s] = effects[s] BY EffectsNext DEF SessionEnded, Reg!Present
  <2>. QED BY <2>1, <2>2
<1>. QED BY <1>1, EndedAlways, SessionAlways, PTL DEF Reg!Spec

\* A session that was reported expired starts no effect later, even when the
\* wall clock is set back (begin, inventory_live, wait_revoked).
THEOREM ExpiredSessionsAreSilent ==
    ASSUME Reg!SessionsAssumption
    PROVE  Reg!Spec => [][Reg!ExpiryIsFinal]_Reg!vars
<1>1. SessionInv /\ EndedInv /\ [Reg!Next]_Reg!vars => [Reg!ExpiryIsFinal]_Reg!vars
  <2>. SUFFICES ASSUME SessionInv, EndedInv, Reg!Next, NEW s \in refused \cap Session
                PROVE  effects'[s] = effects[s]
    BY DEF Reg!ExpiryIsFinal
  <2>1. SessionEnded(s) BY DEF EndedInv
  <2>. QED BY <2>1, EffectsNext DEF SessionEnded, Reg!Present
<1>. QED BY <1>1, EndedAlways, SessionAlways, PTL DEF Reg!Spec

-----------------------------------------------------------------------------
(* Grants *)

\* A grant refused as expired is remembered, and none is overdrawn.
GrantExpiryInv ==
    /\ refused \cap (Challenge \X Approver) \subseteq expired
    /\ \A g \in Challenge \X Approver : uses[g] <= GrantUses

\* Only an accepted quorum uses grants, and each of them had a use left.
LEMMA GrantNext ==
    ASSUME SessionInv, Reg!Next, NEW g \in Challenge \X Approver
    PROVE  \/ uses'[g] = uses[g]
           \/ g \notin expired /\ uses[g] < GrantUses /\ uses'[g] = uses[g] + 1
<1>1. CASE uses' = uses BY <1>1
<1>2. CASE uses' # uses
  <2>1. ~(Reg!Registry \/ Reg!Decisions \/ Reg!Tick)
    BY <1>2
       DEF Reg!Registry, Reg!Admit, Reg!Deliver, Reg!Revoke, Reg!WaitRevoked, Reg!DropGuard,
           Reg!RevokeWorkload, Reg!CloseAndRevokeAll, Reg!OpenForAdmission, Reg!Decisions,
           Reg!CancelApproval, Reg!DecideBegin, Reg!DecidePublish, Reg!DecideUnconfirmed,
           Reg!DecideRefused, Reg!Tick, Reg!SetWall, Reg!Late, Reg!registryVars
  <2>2. PICK e \in Exec : Reg!Execution(e) BY <2>1 DEF Reg!Next
  <2>3. PICK c \in Challenge, q \in SUBSET Approver : Reg!ReserveApprovals(e, c, q)
    BY <1>2, <2>2
       DEF Reg!Execution, Reg!Acquire, Reg!BeginExpired, Reg!Allowed, Reg!GiveUp, Reg!Handoff,
           Reg!Finish, Reg!RequestLocal, Reg!StoreChallenge, Reg!ReserveLapsed, Reg!AwaitLocal,
           Reg!PublishLocal, Reg!ConsumeLocal, Reg!ReserveExpired, Reg!registryVars
  <2>4. /\ \A a \in q : Reg!Unspent(c, a) /\ uses' = Reg!CountUses(c, q)
    BY <2>3 DEF Reg!ReserveApprovals
  <2>5. uses'[g] = IF g[1] = c /\ g[2] \in q THEN uses[g] + 1 ELSE uses[g]
    BY <2>3, <2>4 DEF Reg!ReserveApprovals, Reg!CountUses
  <2>6. g = <<g[1], g[2]>> OBVIOUS
  <2>7. CASE g[1] = c /\ g[2] \in q
    <3>1. Reg!Unspent(c, g[2]) /\ g = <<c, g[2]>> BY <2>3, <2>6, <2>7 DEF Reg!ReserveApprovals
    <3>. QED BY <2>5, <2>7, <3>1 DEF Reg!Unspent
  <2>. QED BY <2>5, <2>7
<1>. QED BY <1>1, <1>2

\* Every step keeps GrantExpiryInv.
LEMMA GrantStep ==
    ASSUME Reg!SessionsAssumption
    PROVE  SessionInv /\ GrantExpiryInv /\ [Reg!Next]_Reg!vars => GrantExpiryInv'
<1>. SUFFICES ASSUME SessionInv, GrantExpiryInv, [Reg!Next]_Reg!vars PROVE GrantExpiryInv' OBVIOUS
<1>1. CASE UNCHANGED Reg!vars BY <1>1
                                 DEF Reg!vars, Reg!registryVars, Reg!history, GrantExpiryInv
<1>2. CASE Reg!Next
  <2>0. uses \in [Challenge \X Approver -> Nat] /\ GrantUses \in Nat
    BY TypesOpen DEF SessionInv, Reg!SessionsAssumption
  <2>1. ASSUME NEW g \in Challenge \X Approver PROVE uses'[g] <= GrantUses
    <3>1. uses[g] \in Nat /\ uses[g] <= GrantUses BY <2>0 DEF GrantExpiryInv
    <3>. QED BY <1>2, <2>0, <3>1, GrantNext
  <2>2. refused' \cap (Challenge \X Approver) \subseteq expired'
    <3>1. \A s \in Session : s \notin Challenge \X Approver BY DEF Reg!SessionsAssumption
    <3>2. CASE Reg!Registry
      <4>1. expired' = expired /\ (refused' = refused \/ \E s \in Session : refused' = refused \cup {s})
        BY <3>2
           DEF Reg!Registry, Reg!Admit, Reg!Deliver, Reg!Revoke, Reg!WaitRevoked, Reg!DropGuard,
               Reg!RevokeWorkload, Reg!CloseAndRevokeAll, Reg!OpenForAdmission, Reg!history
      <4>. QED BY <3>1, <4>1 DEF GrantExpiryInv
    <3>3. CASE Reg!Decisions \/ Reg!Tick
      <4>1. expired' = expired /\ refused' = refused
        BY <3>3
           DEF Reg!Decisions, Reg!CancelApproval, Reg!DecideBegin, Reg!DecidePublish,
               Reg!DecideUnconfirmed, Reg!DecideRefused, Reg!Tick, Reg!SetWall, Reg!Late,
               Reg!registryVars, Reg!history
      <4>. QED BY <4>1 DEF GrantExpiryInv
    <3>4. ASSUME NEW e \in Exec, Reg!Execution(e) PROVE refused' \cap (Challenge \X Approver) \subseteq expired'
      <4>1. \/ expired' = expired /\ (refused' = refused \/ \E s \in Session : refused' = refused \cup {s})
            \/ \E g \in Challenge \X Approver : expired' = expired \cup {g} /\ refused' = refused \cup {g}
        BY <3>4
           DEF Reg!Execution, Reg!Acquire, Reg!BeginExpired, Reg!Allowed, Reg!GiveUp,
               Reg!Handoff, Reg!Finish, Reg!RequestLocal, Reg!StoreChallenge, Reg!ReserveLapsed,
               Reg!AwaitLocal, Reg!PublishLocal, Reg!ConsumeLocal, Reg!ReserveExpired,
               Reg!ReserveApprovals, Reg!registryVars, Reg!history
      <4>. QED BY <3>1, <4>1 DEF GrantExpiryInv
    <3>. QED BY <1>2, <3>2, <3>3, <3>4 DEF Reg!Next
  <2>. QED BY <2>1, <2>2 DEF GrantExpiryInv
<1>. QED BY <1>1, <1>2

\* GrantExpiryInv holds in every state.
LEMMA GrantAlways ==
    ASSUME Reg!SessionsAssumption
    PROVE  Reg!Spec => []GrantExpiryInv
<1>1. Reg!Init => GrantExpiryInv BY DEF Reg!Init, GrantExpiryInv, Reg!SessionsAssumption
<1>. QED BY <1>1, GrantStep, SessionAlways, PTL DEF Reg!Spec

\* A signed grant that was refused as expired is never used later, even when
\* the wall clock is set back (expired_approvals, reserve_approvals).
THEOREM ExpiredGrantsStayRefused ==
    ASSUME Reg!SessionsAssumption
    PROVE  Reg!Spec => [][Reg!ExpiredGrantIsFinal]_Reg!vars
<1>1. SessionInv /\ GrantExpiryInv /\ [Reg!Next]_Reg!vars => [Reg!ExpiredGrantIsFinal]_Reg!vars
  <2>. SUFFICES ASSUME SessionInv, GrantExpiryInv, Reg!Next, NEW g \in refused \cap (Challenge \X Approver)
                PROVE  uses'[g] = uses[g]
    BY DEF Reg!ExpiredGrantIsFinal
  <2>1. g \in expired BY DEF GrantExpiryInv
  <2>. QED BY <2>1, GrantNext
<1>. QED BY <1>1, GrantAlways, SessionAlways, PTL DEF Reg!Spec

\* No grant is used more often than it was signed for (reserve_approvals).
THEOREM GrantsAreBounded ==
    ASSUME Reg!SessionsAssumption
    PROVE  Reg!Spec => [](\A g \in Challenge \X Approver : uses[g] <= GrantUses)
<1>1. GrantExpiryInv => \A g \in Challenge \X Approver : uses[g] <= GrantUses
    BY DEF GrantExpiryInv
<1>. QED BY <1>1, GrantAlways, PTL

-----------------------------------------------------------------------------
(* Approvals *)

\* A challenge ages, or is filed by a request.
LEMMA ChallengeNext ==
    ASSUME SessionInv, Reg!Next, NEW c \in Challenge
    PROVE  \/ Ages(c)
           \/ \E e \in Exec : \/ Reg!StoreChallenge(e, c) /\ Filed(c, e, FALSE)
                              \/ Reg!PublishLocal(e, c) /\ Filed(c, e, TRUE)
<1>0. Reg!TypeOK BY DEF SessionInv
<1>1. CASE Reg!Registry \/ Reg!Tick
  BY <1>1
     DEF Reg!Registry, Reg!Admit, Reg!Deliver, Reg!Revoke, Reg!WaitRevoked, Reg!DropGuard,
         Reg!RevokeWorkload, Reg!CloseAndRevokeAll, Reg!OpenForAdmission, Reg!Tick, Reg!SetWall,
         Reg!Late, Reg!registryVars, Ages
<1>2. CASE Reg!Decisions BY <1>0, <1>2, DecisionsAge
<1>3. ASSUME NEW e \in Exec, Reg!Execution(e)
      PROVE  \/ Ages(c)
             \/ Reg!StoreChallenge(e, c) /\ Filed(c, e, FALSE)
             \/ Reg!PublishLocal(e, c) /\ Filed(c, e, TRUE)
  <2>1. CASE Plain(e) BY <2>1, PlainAges
  <2>2. CASE challenge' = challenge BY <2>2 DEF Ages
  <2>3. ASSUME NEW d \in Challenge, Reg!AwaitLocal(e, d) PROVE Ages(c)
    BY <1>0, <2>3, RefreshedAges DEF Reg!AwaitLocal
  <2>4. ASSUME NEW d \in Challenge, Reg!PublishLocal(e, d)
        PROVE  Ages(c) \/ (Reg!PublishLocal(e, c) /\ Filed(c, e, TRUE))
    <3>1. exec[e].pc # "idle" /\ challenge[d].state = "none" /\ challenge' = Reg!Stored(Reg!Listed, d, e, TRUE)
      BY <2>4 DEF Reg!PublishLocal
    <3>. QED BY <1>0, <2>4, <3>1, StoredFiles
  <2>. QED BY <1>3, <2>1, <2>2, <2>3, <2>4, ExecutionCases
              DEF Reg!Handoff, Reg!Finish, Reg!Acquire, Reg!BeginExpired, Reg!registryVars
<1>. QED BY <1>1, <1>2, <1>3 DEF Reg!Next

\* A challenge becomes approved only while it is open, its session is not
\* revoked and the registry not closed, however late the Authority confirms
\* (local_approval_decision).
THEOREM ApprovalsAreInTime ==
    ASSUME Reg!SessionsAssumption
    PROVE  Reg!Spec => [][Reg!NoLateApproval]_Reg!vars
<1>1. SessionInv /\ [Reg!Next]_Reg!vars => [Reg!NoLateApproval]_Reg!vars
  <2>. SUFFICES ASSUME SessionInv, Reg!Next, NEW c \in Challenge,
                       challenge[c].state # "Approved", challenge'[c].state = "Approved"
                PROVE  /\ challenge[c].state = "Pending" /\ ~Reg!TimedOut(c) /\ ~registryClosed
                       /\ ~entry[challenge[c].session].revoked
    BY DEF Reg!NoLateApproval
  <2>1. Ages(c) BY ChallengeNext DEF Filed
  <2>. QED BY <2>1 DEF Ages
<1>. QED BY <1>1, SessionAlways, PTL DEF Reg!Spec

\* What an approval record can say of its session, its rule and its starts.
RecordRight(c) ==
    /\ challenge[c].state = "none" => ~challenge[c].local /\ starts[c] = 0
    /\ challenge[c].state # "none" => entry[challenge[c].session].state # "none"
    /\ challenge[c].local => /\ Need[challenge[c].key] = "local"
                             /\ starts[c] <= 1
                             /\ challenge[c].state \in Reg!Live => starts[c] = 0

\* An open local approval of a session for a key.
OpenLocal(c, s, k) ==
    /\ challenge[c].state \in Reg!Live /\ challenge[c].local
    /\ challenge[c].session = s /\ challenge[c].key = k

\* While a request waits for its APPROVAL_REQUESTED, nobody else asks for the same.
Quiet(e) ==
    exec[e].pc = "publishing" =>
        \A c \in Challenge : ~OpenLocal(c, exec[e].session, exec[e].key)

\* Two open local approvals are never for the same.
OneAsked ==
    \A c, d \in Challenge : \A s \in Session, k \in SessionKey :
        OpenLocal(c, s, k) /\ OpenLocal(d, s, k) => c = d

\* The second invariant: the approval records.
ApprovalInv ==
    /\ \A c \in Challenge : RecordRight(c)
    /\ \A e \in Exec : Quiet(e)
    /\ OneAsked
    /\ Reg!OpenApprovalKept

\* An open local record was open before, or has just been asked for.
LEMMA OpenNext ==
    ASSUME SessionInv, Reg!Next, NEW c \in Challenge, NEW s \in Session, NEW k \in SessionKey, OpenLocal(c, s, k)'
    PROVE  \/ OpenLocal(c, s, k)
           \/ \E e \in Exec : Reg!PublishLocal(e, c) /\ exec[e].session = s /\ exec[e].key = k
<1>1. CASE Ages(c) BY <1>1 DEF Ages, OpenLocal, Reg!Live
<1>2. ASSUME NEW e \in Exec, Reg!PublishLocal(e, c), Filed(c, e, TRUE)
      PROVE  exec[e].session = s /\ exec[e].key = k
  BY <1>2 DEF Filed, OpenLocal
<1>3. ASSUME NEW e \in Exec, Filed(c, e, FALSE) PROVE FALSE BY <1>3 DEF Filed, OpenLocal
<1>. QED BY <1>1, <1>2, <1>3, ChallengeNext

\* The session of a request that asks is in the registry.
LEMMA AskersArePresent ==
    ASSUME SessionInv, NEW e \in Exec, exec[e].pc # "idle", entry[exec[e].session].inFlight > 0
    PROVE  exec[e].session \in Session /\ Reg!Present(exec[e].session)
<1>1. exec[e].session \in Session BY RunningFacts DEF SessionInv
<1>. QED BY <1>1 DEF SessionInv, SlotsRight

\* Only an accepted approval starts a request.
LEMMA StartersNext ==
    ASSUME SessionInv, Reg!Next, NEW c \in Challenge, starts'[c] # starts[c]
    PROVE  \E e \in Exec : Reg!ConsumeLocal(e, c) \/ \E q \in SUBSET Approver : Reg!ReserveApprovals(e, c, q)
<1>0. starts \in [Challenge -> Nat] /\ starts' # starts BY TypesOpen DEF SessionInv
<1>1. ~(Reg!Registry \/ Reg!Decisions \/ Reg!Tick)
  BY <1>0
     DEF Reg!Registry, Reg!Admit, Reg!Deliver, Reg!Revoke, Reg!WaitRevoked, Reg!DropGuard,
         Reg!RevokeWorkload, Reg!CloseAndRevokeAll, Reg!OpenForAdmission, Reg!Decisions,
         Reg!CancelApproval, Reg!DecideBegin, Reg!DecidePublish, Reg!DecideUnconfirmed,
         Reg!DecideRefused, Reg!Tick, Reg!SetWall, Reg!Late, Reg!history
<1>2. PICK e \in Exec : Reg!Execution(e) BY <1>1 DEF Reg!Next
<1>3. PICK d \in Challenge : Reg!ConsumeLocal(e, d) \/ \E q \in SUBSET Approver : Reg!ReserveApprovals(e, d, q)
  BY <1>0, <1>2
     DEF Reg!Execution, Reg!Acquire, Reg!BeginExpired, Reg!Allowed, Reg!GiveUp, Reg!Handoff,
         Reg!Finish, Reg!RequestLocal, Reg!StoreChallenge, Reg!ReserveLapsed, Reg!AwaitLocal,
         Reg!PublishLocal, Reg!ReserveExpired, Reg!history
<1>4. starts' = [starts EXCEPT ![d] = @ + 1] BY <1>3 DEF Reg!ConsumeLocal, Reg!ReserveApprovals
<1>5. c = d BY <1>0, <1>4
<1>. QED BY <1>3, <1>5

\* A start consumes a local approval or a quorum of grants.
LEMMA StartsNext ==
    ASSUME SessionInv, Reg!Next, NEW c \in Challenge
    PROVE  \/ starts'[c] = starts[c]
           \/ /\ starts'[c] = starts[c] + 1 /\ challenge'[c].state = "Consumed"
              /\ challenge[c].state = "Approved" \/ Need[challenge[c].key] = "signed"
              /\ challenge'[c].local = challenge[c].local /\ challenge[c].state # "none"
<1>0. starts \in [Challenge -> Nat] /\ Reg!TypeOK BY TypesOpen DEF SessionInv
<1>. SUFFICES ASSUME starts'[c] # starts[c]
              PROVE  /\ starts'[c] = starts[c] + 1 /\ challenge'[c].state = "Consumed"
                     /\ challenge[c].state = "Approved" \/ Need[challenge[c].key] = "signed"
                     /\ challenge'[c].local = challenge[c].local /\ challenge[c].state # "none"
  OBVIOUS
<1>1. PICK e \in Exec : Reg!ConsumeLocal(e, c) \/ \E q \in SUBSET Approver : Reg!ReserveApprovals(e, c, q)
  BY StartersNext
<1>2. /\ challenge' = [challenge EXCEPT ![c].state = "Consumed"]
      /\ starts' = [starts EXCEPT ![c] = @ + 1]
      /\ challenge[c].state # "none"
      /\ challenge[c].state = "Approved" \/ Need[challenge[c].key] = "signed"
  BY <1>1 DEF Reg!ConsumeLocal, Reg!ReserveApprovals, Reg!Reservable
<1>3. challenge'[c].state = "Consumed" /\ challenge'[c].local = challenge[c].local
  BY <1>0, <1>2, StateAges
<1>. QED BY <1>0, <1>2, <1>3

\* Every step keeps RecordRight,
LEMMA RecordStep ==
    ASSUME Reg!SessionsAssumption,
           SessionInv, ApprovalInv, Reg!Next, NEW c \in Challenge
    PROVE  RecordRight(c)'
<1>0. challenge \in [Challenge -> PendingRecord] /\ starts \in [Challenge -> Nat]
  BY TypesOpen DEF SessionInv
<1>1. RecordRight(c) BY DEF ApprovalInv
<1>2. \A s \in Session : entry[s].state # "none" => entry'[s].state # "none"
  BY LifeNext DEF LifeStep
<1>3. CASE Ages(c)
  <2>1. challenge'[c].state = "none" <=> challenge[c].state = "none" BY <1>3 DEF Ages, Reg!Live
  <2>2. /\ challenge'[c].session = challenge[c].session /\ challenge'[c].key = challenge[c].key
        /\ challenge'[c].local = challenge[c].local
    BY <1>3 DEF Ages
  <2>3. challenge'[c].state \in Reg!Live => challenge[c].state \in Reg!Live
    BY <1>3 DEF Ages, Reg!Live
  <2>4. challenge[c].session \in Session BY <1>0 DEF PendingRecord
  <2>5. CASE starts'[c] = starts[c]
    BY <1>1, <1>2, <2>1, <2>2, <2>3, <2>4, <2>5 DEF RecordRight
  <2>6. CASE starts'[c] # starts[c]
    <3>1. /\ starts'[c] = starts[c] + 1 /\ challenge'[c].state = "Consumed"
          /\ challenge[c].state = "Approved" \/ Need[challenge[c].key] = "signed"
      BY <2>6, StartsNext
    <3>2. challenge[c].local => starts[c] = 0 BY <1>1, <3>1 DEF RecordRight, Reg!Live
    <3>3. challenge'[c].local => starts'[c] <= 1 BY <2>2, <3>1, <3>2
    <3>. QED BY <1>1, <1>2, <2>1, <2>2, <2>4, <3>1, <3>3 DEF RecordRight, Reg!Live
  <2>. QED BY <2>5, <2>6
<1>4. ASSUME NEW e \in Exec, NEW loc \in BOOLEAN, Filed(c, e, loc),
             exec[e].pc # "idle", entry[exec[e].session].inFlight > 0,
             loc => Need[exec[e].key] = "local"
      PROVE  RecordRight(c)'
  <2>1. challenge[c].state = "none" /\ challenge'[c].state = "Pending"
        /\ challenge'[c].session = exec[e].session /\ challenge'[c].key = exec[e].key
        /\ challenge'[c].local = loc
    BY <1>4 DEF Filed
  <2>2. starts[c] = 0 BY <1>1, <2>1 DEF RecordRight
  <2>3. starts'[c] = 0 BY <2>1, <2>2, StartsNext
  <2>4. exec[e].session \in Session /\ entry'[exec[e].session].state # "none"
    BY <1>2, <1>4, AskersArePresent DEF Reg!Present
  <2>. QED BY <1>4, <2>1, <2>3, <2>4 DEF RecordRight
<1>5. ASSUME NEW e \in Exec, Reg!StoreChallenge(e, c), Filed(c, e, FALSE) PROVE RecordRight(c)'
  BY <1>4, <1>5 DEF Reg!StoreChallenge
<1>6. ASSUME NEW e \in Exec, Reg!PublishLocal(e, c), Filed(c, e, TRUE) PROVE RecordRight(c)'
  <2>1. exec[e].pc = "publishing" /\ entry[exec[e].session].inFlight > 0
    BY <1>6 DEF Reg!PublishLocal
  <2>2. Need[exec[e].key] = "local" BY <2>1 DEF SessionInv, ExecRight
  <2>. QED BY <1>4, <1>6, <2>1, <2>2
<1>. QED BY <1>3, <1>5, <1>6, ChallengeNext

\* Who is publishing after a step was before, or has found no open record.
LEMMA PublishingNext ==
    ASSUME Reg!SessionsAssumption,
           SessionInv, Reg!Next, NEW e \in Exec, exec'[e].pc = "publishing"
    PROVE  \/ Reg!RequestLocal(e)
           \/ /\ exec[e].pc = "publishing" /\ exec'[e] = exec[e]
              /\ \A f \in Exec, c \in Challenge : ~Reg!PublishLocal(f, c)
<1>0. Reg!TypeOK BY DEF SessionInv
<1>1. ASSUME NEW f \in Exec, Reg!Execution(f), ~Reg!RequestLocal(f)
      PROVE  /\ f # e /\ exec'[e] = exec[e]
  <2>1. CASE Plain(f)
    <3>1. exec'[f].pc # "publishing"
      <4>1. \E p \in {"closing", "admitted"} : Reg!To(f, p) /\ exec[f].pc # "idle"
        BY <1>1, <2>1
           DEF Plain, Reg!Allowed, Reg!GiveUp, Reg!StoreChallenge, Reg!ReserveLapsed,
               Reg!ConsumeLocal, Reg!ReserveExpired, Reg!ReserveApprovals
      <4>. QED BY <1>0, <4>1, ToMoves DEF Reg!ExecPc
    <3>. QED BY <2>1, <3>1, PlainMoves DEF Moves
  <2>2. CASE Reg!Handoff(f)
    <3>1. Moves(f) /\ exec'[f].pc = "closing" BY <1>0, <2>2, ToMoves DEF Reg!Handoff, Reg!ExecPc
    <3>. QED BY <3>1 DEF Moves
  <2>3. CASE Reg!Finish(f) BY <2>3, FinishFacts
  <2>4. ASSUME NEW c \in Challenge, Reg!AwaitLocal(f, c) PROVE f # e /\ exec'[e] = exec[e]
    <3>1. \E b \in BOOLEAN, p \in {"closing", "approved"} :
            exec' = [exec EXCEPT ![f].refunded = b, ![f].pc = p] /\ exec[f].pc # "idle"
      BY <2>4 DEF Reg!AwaitLocal
    <3>2. Moves(f) /\ exec'[f].pc \in {"closing", "approved"}
      BY <1>0, <3>1, RefundMoves DEF Reg!ExecPc
    <3>. QED BY <3>2 DEF Moves
  <2>5. ASSUME NEW c \in Challenge, Reg!PublishLocal(f, c) PROVE f # e /\ exec'[e] = exec[e]
    <3>1. exec' = [exec EXCEPT ![f].refunded = TRUE, ![f].pc = "closing"] /\ exec[f].pc # "idle"
      BY <2>5 DEF Reg!PublishLocal
    <3>2. Moves(f) /\ exec'[f].pc = "closing" BY <1>0, <3>1, RefundMoves DEF Reg!ExecPc
    <3>. QED BY <3>2 DEF Moves
  <2>6. ASSUME NEW s \in Session, NEW k \in SessionKey, NEW w \in SUBSET Challenge, Reg!Acquire(f, s, k, w)
        PROVE  f # e /\ exec'[e] = exec[e]
    BY <1>0, <2>6, AcquireFacts
  <2>7. ASSUME NEW s \in Session, Reg!BeginExpired(f, s) PROVE exec' = exec
    BY <2>7 DEF Reg!BeginExpired
  <2>8. ASSUME NEW s \in Session, Reg!BeginExpired(f, s) PROVE f # e
    BY <2>7, <2>8 DEF Reg!BeginExpired, Reg!Idle
  <2>. QED BY <1>1, <2>1, <2>2, <2>3, <2>4, <2>5, <2>6, <2>7, <2>8, ExecutionCases
<1>3. Reg!RequestLocal(e) \/ exec'[e] = exec[e]
  <2>1. ASSUME NEW f \in Exec, Reg!RequestLocal(f), f # e PROVE exec'[e] = exec[e]
    BY <2>1, PlainMoves DEF Plain, Moves
  <2>2. CASE Reg!Registry \/ Reg!Decisions \/ Reg!Tick
    BY <2>2
       DEF Reg!Registry, Reg!Admit, Reg!Deliver, Reg!Revoke, Reg!WaitRevoked, Reg!DropGuard,
           Reg!RevokeWorkload, Reg!CloseAndRevokeAll, Reg!OpenForAdmission, Reg!Decisions,
           Reg!CancelApproval, Reg!DecideBegin, Reg!DecidePublish, Reg!DecideUnconfirmed,
           Reg!DecideRefused, Reg!Tick, Reg!SetWall, Reg!Late
  <2>. QED BY <1>1, <2>1, <2>2 DEF Reg!Next
<1>4. ASSUME NEW f \in Exec, NEW c \in Challenge, Reg!PublishLocal(f, c), exec'[e] = exec[e] PROVE FALSE
  <2>1. /\ exec[f].pc = "publishing" /\ exec[e].pc = "publishing"
        /\ exec' = [exec EXCEPT ![f].refunded = TRUE, ![f].pc = "closing"]
    BY <1>4 DEF Reg!PublishLocal
  <2>2. f = e BY <2>1 DEF SessionInv, ExecRight
  <2>3. exec'[f].pc = "closing" BY <1>0, <2>1, RefundMoves DEF Reg!ExecPc
  <2>. QED BY <2>2, <2>3
<1>. QED BY <1>3, <1>4

\* Quiet,
LEMMA QuietStep ==
    ASSUME Reg!SessionsAssumption,
           SessionInv, ApprovalInv, Reg!Next, NEW e \in Exec
    PROVE  Quiet(e)'
<1>. SUFFICES ASSUME exec'[e].pc = "publishing" PROVE Quiet(e)' BY DEF Quiet
<1>0. Reg!TypeOK BY DEF SessionInv
<1>1. /\ exec[e].pc # "idle" /\ exec'[e].session = exec[e].session /\ exec'[e].key = exec[e].key
  BY PublishingNext, PlainMoves DEF Plain, Moves, Reg!RequestLocal
<1>2. exec[e].session \in Session /\ exec[e].key \in SessionKey BY <1>0, <1>1, RunningFacts
<1>3. PICK s \in Session, k \in SessionKey : s = exec[e].session /\ k = exec[e].key BY <1>2
<1>4. ASSUME NEW c \in Challenge, OpenLocal(c, s, k)' PROVE FALSE
  <2>1. CASE Reg!RequestLocal(e)
    <3>1. /\ challenge' = Reg!Refreshed(Reg!Matching(e)) /\ exec[e].wanted = {}
          /\ \A d \in Reg!Matching(e) : Reg!Refreshed(Reg!Matching(e))[d].state \notin Reg!Live
      BY <2>1 DEF Reg!RequestLocal
    <3>2. c \notin Reg!Matching(e) BY <1>4, <3>1 DEF OpenLocal
    <3>3. /\ challenge'[c].session = challenge[c].session /\ challenge'[c].key = challenge[c].key
          /\ challenge'[c].local = challenge[c].local
          /\ challenge'[c].state \in Reg!Live => challenge[c].state \in Reg!Live
      BY <1>0, <3>1, RefreshedFacts DEF Reg!Live
    <3>4. OpenLocal(c, s, k) BY <1>4, <3>3 DEF OpenLocal
    <3>5. c \in Reg!Matching(e)
      BY <1>3, <3>1, <3>4 DEF OpenLocal, Reg!Matching, Reg!Held, Reg!Live
    <3>. QED BY <3>2, <3>5
  <2>2. CASE ~Reg!RequestLocal(e)
    <3>1. exec[e].pc = "publishing" /\ \A f \in Exec, d \in Challenge : ~Reg!PublishLocal(f, d)
      BY <2>2, PublishingNext
    <3>2. OpenLocal(c, s, k) BY <1>4, <3>1, OpenNext
    <3>. QED BY <1>3, <3>1, <3>2 DEF ApprovalInv, Quiet
  <2>. QED BY <2>1, <2>2
<1>. QED BY <1>1, <1>3, <1>4 DEF Quiet, OpenLocal

\* OneAsked
LEMMA OneAskedStep ==
    ASSUME SessionInv, ApprovalInv, Reg!Next
    PROVE  OneAsked'
<1>. SUFFICES ASSUME NEW c \in Challenge, NEW d \in Challenge, NEW s \in Session, NEW k \in SessionKey,
                     OpenLocal(c, s, k)', OpenLocal(d, s, k)'
              PROVE  c = d
  BY DEF OneAsked
<1>0. Reg!TypeOK BY DEF SessionInv
\* Only one record is filed in a step, and none like it was open.
<1>1. ASSUME NEW a \in Challenge, NEW b \in Challenge, NEW e \in Exec, Reg!PublishLocal(e, a), a # b,
             exec[e].session = s, exec[e].key = k, OpenLocal(b, s, k)'
      PROVE  FALSE
  <2>1. exec[e].pc = "publishing" /\ challenge[a].state = "none" /\ challenge' = Reg!Stored(Reg!Listed, a, e, TRUE)
    BY <1>1 DEF Reg!PublishLocal
  <2>2. Ages(b) BY <1>0, <1>1, <2>1, StoredFiles
  <2>3. OpenLocal(b, s, k) BY <1>1, <2>2 DEF Ages, OpenLocal, Reg!Live
  <2>. QED BY <1>1, <2>1, <2>3 DEF ApprovalInv, Quiet
<1>2. CASE OpenLocal(c, s, k) /\ OpenLocal(d, s, k) BY <1>2 DEF ApprovalInv, OneAsked
<1>. QED BY <1>1, <1>2, OpenNext

\* The monotonic clock only advances.
LEMMA LateGrows ==
    ASSUME Reg!Next
    PROVE  late \subseteq late'
<1>1. CASE Reg!Tick BY <1>1 DEF Reg!Tick, Reg!SetWall, Reg!Late
<1>2. CASE Reg!Registry
  BY <1>2
     DEF Reg!Registry, Reg!Admit, Reg!Deliver, Reg!Revoke, Reg!WaitRevoked, Reg!DropGuard,
         Reg!RevokeWorkload, Reg!CloseAndRevokeAll, Reg!OpenForAdmission, Reg!clockVars
<1>3. CASE Reg!Decisions
  BY <1>3
     DEF Reg!Decisions, Reg!CancelApproval, Reg!DecideBegin, Reg!DecidePublish,
         Reg!DecideUnconfirmed, Reg!DecideRefused, Reg!clockVars
<1>4. ASSUME NEW e \in Exec, Reg!Execution(e) PROVE late' = late
  BY <1>4
     DEF Reg!clockVars, Reg!Execution, Reg!Acquire, Reg!BeginExpired, Reg!Allowed, Reg!GiveUp,
         Reg!Handoff, Reg!Finish, Reg!RequestLocal, Reg!StoreChallenge, Reg!ReserveLapsed,
         Reg!AwaitLocal, Reg!PublishLocal, Reg!ConsumeLocal, Reg!ReserveExpired,
         Reg!ReserveApprovals
<1>. QED BY <1>1, <1>2, <1>3, <1>4 DEF Reg!Next

\* and OpenApprovalKept.
LEMMA KeptStep ==
    ASSUME Reg!SessionsAssumption,
           SessionInv, ApprovalInv, Reg!Next
    PROVE  Reg!OpenApprovalKept'
<1>. SUFFICES ASSUME NEW c \in Challenge, challenge'[c].local, challenge'[c].state \in Reg!Live,
                     entry'[challenge'[c].session].state = "gone"
              PROVE  entry'[challenge'[c].session].revoked \/ challenge'[c].session \in late'
  BY DEF Reg!OpenApprovalKept
<1>. DEFINE s == challenge'[c].session
<1>0. Reg!TypeOK /\ challenge \in [Challenge -> PendingRecord] BY TypesOpen DEF SessionInv
<1>1. ASSUME NEW e \in Exec, Reg!PublishLocal(e, c), Filed(c, e, TRUE) PROVE FALSE
  <2>1. s = exec[e].session BY <1>1 DEF Filed
  <2>2. exec[e].pc = "publishing" /\ entry[exec[e].session].inFlight > 0 /\ Reg!Refund(e)
    BY <1>1 DEF Reg!PublishLocal
  <2>3. exec[e].session \in Session /\ Reg!Present(exec[e].session) BY <2>2, AskersArePresent
  <2>4. entry'[exec[e].session].state = entry[exec[e].session].state BY <2>2, <2>3, RefundFacts
  <2>. QED BY <2>1, <2>3, <2>4 DEF Reg!Present
<1>2. ASSUME NEW e \in Exec, Filed(c, e, FALSE) PROVE FALSE BY <1>2 DEF Filed
<1>3. CASE Ages(c)
  <2>1. /\ challenge[c].state \in Reg!Live /\ challenge[c].local /\ challenge[c].session = s
    BY <1>3 DEF Ages, Reg!Live
  <2>2. s \in Session BY <1>0, <2>1 DEF PendingRecord
  <2>3. LifeStep(s) BY <2>2, LifeNext
  <2>4. late \subseteq late' BY LateGrows
  <2>5. c \in Reg!Held(s) BY <2>1 DEF Reg!Held, Reg!Live
  <2>6. entry'[s].state = "gone" OBVIOUS
  <2>. HIDE DEF s
  <2>7. CASE entry[s].state = "gone"
    <3>1. entry[s].revoked \/ s \in late BY <2>1, <2>7 DEF ApprovalInv, Reg!OpenApprovalKept
    <3>. QED BY <2>3, <2>4, <3>1 DEF LifeStep, s
  <2>8. CASE entry[s].state # "gone"
    <3>1. entry'[s].revoked \/ s \in late \/ \A x \in Reg!Held(s) : ~challenge[x].local
      BY <2>3, <2>6, <2>8 DEF LifeStep
    <3>. QED BY <2>1, <2>4, <2>5, <3>1 DEF s
  <2>. QED BY <2>7, <2>8
<1>. QED BY <1>1, <1>2, <1>3, ChallengeNext

\* Together: every step keeps the second invariant.
LEMMA ApprovalStep ==
    ASSUME Reg!SessionsAssumption
    PROVE  SessionInv /\ ApprovalInv /\ [Reg!Next]_Reg!vars => ApprovalInv'
<1>. SUFFICES ASSUME SessionInv, ApprovalInv, [Reg!Next]_Reg!vars PROVE ApprovalInv' OBVIOUS
<1>1. CASE UNCHANGED Reg!vars
  BY <1>1
     DEF Reg!vars, Reg!registryVars, Reg!clockVars, Reg!history, ApprovalInv, RecordRight,
         Quiet, OneAsked, OpenLocal, Reg!OpenApprovalKept
<1>2. CASE Reg!Next BY <1>2, RecordStep, QuietStep, OneAskedStep, KeptStep DEF ApprovalInv
<1>. QED BY <1>1, <1>2

\* The second invariant holds in every state.
LEMMA ApprovalAlways ==
    ASSUME Reg!SessionsAssumption
    PROVE  Reg!Spec => []ApprovalInv
<1>1. Reg!Init => ApprovalInv
  BY DEF Reg!Init, ApprovalInv, RecordRight, Quiet, OneAsked, OpenLocal, Reg!OpenApprovalKept,
         Reg!Live, Reg!Idle
<1>. QED BY <1>1, ApprovalStep, SessionAlways, PTL DEF Reg!Spec

\* An open local approval is lost only with its session: an exhausted session
\* is kept for it (compact_entries).
THEOREM OpenApprovalsAreKept ==
    ASSUME Reg!SessionsAssumption
    PROVE  Reg!Spec => []Reg!OpenApprovalKept
<1>1. ApprovalInv => Reg!OpenApprovalKept BY DEF ApprovalInv
<1>. QED BY <1>1, ApprovalAlways, PTL

\* Two requests for the same thing share one open local approval, although
\* the first one publishes it after an await (local_for_execution and
\* publish_local_pending).
THEOREM OneOpenApproval ==
    ASSUME Reg!SessionsAssumption
    PROVE  Reg!Spec => []Reg!OneLivePerRequest
<1>1. SessionInv /\ ApprovalInv => Reg!OneLivePerRequest
  <2>. SUFFICES ASSUME SessionInv, ApprovalInv, NEW c \in Challenge, NEW d \in Challenge,
                       challenge[c].local, challenge[d].local,
                       challenge[c].state \in Reg!Live, challenge[d].state \in Reg!Live,
                       challenge[c].session = challenge[d].session,
                       challenge[c].key = challenge[d].key
                PROVE  c = d
    BY DEF Reg!OneLivePerRequest
  <2>1. challenge[c].session \in Session /\ challenge[c].key \in SessionKey
    BY TypesOpen DEF SessionInv, PendingRecord
  <2>. QED BY <2>1 DEF ApprovalInv, OneAsked, OpenLocal
<1>. QED BY <1>1, ApprovalAlways, SessionAlways, PTL

-----------------------------------------------------------------------------
(* Starts and signed grants *)

\* The uses of grants that were spent on a challenge, counted as a set
Spent(c) == {u \in Approver \X (1..GrantUses) : u[2] <= uses[<<c, u[1]>>]}

\* Every start of a signed approval has spent a threshold of uses.
SpentRight(c) ==
    ~challenge[c].local => /\ challenge[c].state # "none" => Need[challenge[c].key] = "signed"
                           /\ Threshold * starts[c] <= Cardinality(Spent(c))

\* The third invariant.
SpentInv == \A c \in Challenge : SpentRight(c)

\* There are no more uses than approvers times uses per grant.
LEMMA SpentIsFinite ==
    ASSUME Reg!SessionsAssumption,
           NEW S \in SUBSET (Approver \X (1..GrantUses))
    PROVE  /\ IsFiniteSet(S) /\ Cardinality(S) \in Nat
           /\ Cardinality(S) <= Cardinality(Approver) * GrantUses
<1>1. IsFiniteSet(Approver) /\ GrantUses \in Nat \ {0} BY RegCounts DEF Reg!SessionsAssumption
<1>2. IsFiniteSet(1..GrantUses) /\ Cardinality(1..GrantUses) = GrantUses
  BY <1>1, FS_Interval
<1>3. /\ IsFiniteSet(Approver \X (1..GrantUses))
      /\ Cardinality(Approver \X (1..GrantUses)) = Cardinality(Approver) * GrantUses
  BY <1>1, <1>2, FS_Product
<1>. QED BY <1>3, FS_Subset, FS_CardinalityType

\* A quorum spends as many uses as it has approvers.
LEMMA QuorumSpends ==
    ASSUME Reg!SessionsAssumption,
           SessionInv, NEW e \in Exec, NEW c \in Challenge, NEW q \in SUBSET Approver,
           Reg!ReserveApprovals(e, c, q)
    PROVE  Cardinality(Spent(c)') >= Cardinality(Spent(c)) + Threshold
<1>. DEFINE f == [a \in q |-> <<a, uses[<<c, a>>] + 1>>]
            F == {f[a] : a \in q}
<1>0. /\ uses \in [Challenge \X Approver -> Nat] /\ GrantUses \in Nat /\ Threshold \in 1..2
      /\ IsFiniteSet(Approver)
  BY TypesOpen, RegCounts DEF SessionInv, Reg!SessionsAssumption
<1>1. \A a \in q : Reg!Unspent(c, a) BY DEF Reg!ReserveApprovals
<1>2. uses' = Reg!CountUses(c, q) /\ Cardinality(q) \in Threshold..2
  BY RegCounts DEF Reg!ReserveApprovals
<1>3. \A a \in Approver : uses'[<<c, a>>] = IF a \in q THEN uses[<<c, a>>] + 1 ELSE uses[<<c, a>>]
  BY <1>2 DEF Reg!CountUses
<1>4. \A a \in q : uses[<<c, a>>] \in Nat /\ uses[<<c, a>>] + 1 \in 1..GrantUses
  BY <1>0, <1>1 DEF Reg!Unspent
<1>5. F \subseteq Approver \X (1..GrantUses)
  <2>. SUFFICES ASSUME NEW a \in q PROVE f[a] \in Approver \X (1..GrantUses) OBVIOUS
  <2>1. f[a] = <<a, uses[<<c, a>>] + 1>> OBVIOUS
  <2>. QED BY <2>1, <1>4
<1>6. F \cap Spent(c) = {}
  <2>. SUFFICES ASSUME NEW a \in q, f[a] \in Spent(c) PROVE FALSE OBVIOUS
  <2>1. f[a] = <<a, uses[<<c, a>>] + 1>> OBVIOUS
  <2>2. uses[<<c, a>>] + 1 <= uses[<<c, a>>] BY <2>1 DEF Spent
  <2>. QED BY <2>2, <1>4
<1>7. F \cup Spent(c) \subseteq Spent(c)'
  <2>1. ASSUME NEW a \in q PROVE f[a] \in Spent(c)'
    <3>1. f[a] = <<a, uses[<<c, a>>] + 1>> /\ f[a] \in Approver \X (1..GrantUses) BY <1>5
    <3>2. uses'[<<c, a>>] = uses[<<c, a>>] + 1 BY <1>3
    <3>. QED BY <1>4, <3>1, <3>2 DEF Spent
  <2>2. ASSUME NEW u \in Spent(c) PROVE u \in Spent(c)'
    <3>1. u \in Approver \X (1..GrantUses) /\ u[1] \in Approver /\ u[2] \in Nat
          /\ u[2] <= uses[<<c, u[1]>>]
      BY DEF Spent
    <3>2. uses[<<c, u[1]>>] \in Nat /\ uses'[<<c, u[1]>>] >= uses[<<c, u[1]>>]
      BY <1>0, <1>3, <3>1
    <3>3. uses'[<<c, u[1]>>] \in Nat BY <1>0, <1>3, <3>1, <3>2
    <3>. QED BY <3>1, <3>2, <3>3 DEF Spent
  <2>. QED BY <2>1, <2>2
<1>8. IsFiniteSet(F) /\ Cardinality(F) \in Nat BY <1>5, SpentIsFinite
<1>9. IsFiniteSet(Spent(c)) /\ Cardinality(Spent(c)) \in Nat BY SpentIsFinite DEF Spent
<1>10. IsFiniteSet(Spent(c)') /\ Cardinality(Spent(c)') \in Nat
  <2>1. Spent(c)' \subseteq Approver \X (1..GrantUses) BY DEF Spent
  <2>. QED BY <2>1, SpentIsFinite
<1>11. Cardinality(q) <= Cardinality(F)
  <2>1. f \in [q -> F] OBVIOUS
  <2>2. ASSUME NEW a \in q, NEW b \in q, f[a] = f[b] PROVE a = b
    <3>1. f[a] = <<a, uses[<<c, a>>] + 1>> /\ f[b] = <<b, uses[<<c, b>>] + 1>> OBVIOUS
    <3>. QED BY <2>2, <3>1
  <2>3. f \in Injection(q, F) BY <2>1, <2>2 DEF Injection, IsInjective
  <2>. QED BY <2>3, <1>8, FS_Injection
<1>12. Cardinality(F \cup Spent(c)) = Cardinality(F) + Cardinality(Spent(c))
  <2>1. Cardinality(F \cup Spent(c)) = Cardinality(F) + Cardinality(Spent(c)) - Cardinality(F \cap Spent(c))
    BY <1>8, <1>9, FS_Union
  <2>2. Cardinality(F \cap Spent(c)) = 0 BY <1>6, FS_EmptySet
  <2>. QED BY <2>1, <2>2, <1>8, <1>9
<1>13. Cardinality(F \cup Spent(c)) <= Cardinality(Spent(c)') BY <1>7, <1>10, FS_Subset
<1>. HIDE DEF F
<1>. QED BY <1>0, <1>2, <1>8, <1>9, <1>10, <1>11, <1>12, <1>13

\* Uses are spent for good.
LEMMA SpentGrows ==
    ASSUME Reg!SessionsAssumption,
           SessionInv, Reg!Next, NEW c \in Challenge
    PROVE  Cardinality(Spent(c)) <= Cardinality(Spent(c)')
<1>0. uses \in [Challenge \X Approver -> Nat] BY TypesOpen DEF SessionInv
<1>1. Spent(c) \subseteq Spent(c)'
  <2>. SUFFICES ASSUME NEW u \in Spent(c) PROVE u \in Spent(c)' OBVIOUS
  <2>1. u \in Approver \X (1..GrantUses) /\ u[1] \in Approver /\ u[2] \in Nat
        /\ u[2] <= uses[<<c, u[1]>>]
    BY DEF Spent
  <2>2. uses[<<c, u[1]>>] \in Nat BY <1>0, <2>1
  <2>3. uses'[<<c, u[1]>>] \in {uses[<<c, u[1]>>], uses[<<c, u[1]>>] + 1} BY <2>1, GrantNext
  <2>. QED BY <2>1, <2>2, <2>3 DEF Spent
<1>2. Spent(c)' \subseteq Approver \X (1..GrantUses) BY DEF Spent
<1>3. IsFiniteSet(Spent(c)') BY <1>2, SpentIsFinite
<1>. QED BY <1>1, <1>3, FS_Subset

\* Every step keeps the third invariant.
LEMMA SpentStep ==
    ASSUME Reg!SessionsAssumption
    PROVE  SessionInv /\ ApprovalInv /\ SpentInv /\ [Reg!Next]_Reg!vars => SpentInv'
<1>. SUFFICES ASSUME SessionInv, ApprovalInv, SpentInv, [Reg!Next]_Reg!vars, NEW c \in Challenge
              PROVE  SpentRight(c)'
  BY DEF SpentInv
<1>0. SpentRight(c) /\ RecordRight(c) /\ starts \in [Challenge -> Nat] /\ Threshold \in 1..2
  BY TypesOpen DEF SpentInv, ApprovalInv, SessionInv, Reg!SessionsAssumption
<1>1. CASE UNCHANGED Reg!vars
  <2>1. UNCHANGED <<challenge, starts, uses>>
    BY <1>1 DEF Reg!vars, Reg!registryVars, Reg!history
  <2>. QED BY <1>0, <2>1 DEF SpentRight, Spent
<1>2. CASE Reg!Next
  <2>1. Cardinality(Spent(c)) \in Nat /\ Cardinality(Spent(c)') \in Nat
    <3>1. Spent(c) \subseteq Approver \X (1..GrantUses) /\ Spent(c)' \subseteq Approver \X (1..GrantUses)
      BY DEF Spent
    <3>. QED BY <3>1, SpentIsFinite
  <2>2. Cardinality(Spent(c)) <= Cardinality(Spent(c)') BY <1>2, SpentGrows
  <2>3. CASE Ages(c)
    <3>1. /\ challenge'[c].local = challenge[c].local /\ challenge'[c].key = challenge[c].key
          /\ challenge'[c].state = "none" <=> challenge[c].state = "none"
      BY <2>3 DEF Ages, Reg!Live
    <3>2. SUFFICES ASSUME ~challenge[c].local
                   PROVE  Threshold * starts'[c] <= Cardinality(Spent(c)')
      BY <1>0, <3>1 DEF SpentRight
    <3>3. Threshold * starts[c] <= Cardinality(Spent(c)) BY <1>0, <3>2 DEF SpentRight
    <3>4. CASE starts'[c] = starts[c]
      BY <1>0, <2>1, <2>2, <3>3, <3>4
    <3>5. CASE starts'[c] # starts[c]
      <4>1. PICK e \in Exec : Reg!ConsumeLocal(e, c) \/ \E q \in SUBSET Approver : Reg!ReserveApprovals(e, c, q)
        BY <1>2, <3>5, StartersNext
      <4>2. ASSUME Reg!ConsumeLocal(e, c) PROVE FALSE
        <5>1. /\ exec[e].pc = "approved" /\ challenge[c].state = "Approved"
              /\ challenge[c].key = exec[e].key
          BY <4>2 DEF Reg!ConsumeLocal, Reg!Reservable
        <5>2. Need[exec[e].key] = "local" BY <5>1 DEF SessionInv, ExecRight
        <5>. QED BY <1>0, <3>2, <5>1, <5>2 DEF SpentRight
      <4>3. PICK q \in SUBSET Approver : Reg!ReserveApprovals(e, c, q) BY <4>1, <4>2
      <4>4. Cardinality(Spent(c)') >= Cardinality(Spent(c)) + Threshold BY <4>3, QuorumSpends
      <4>5. starts'[c] = starts[c] + 1 /\ starts[c] \in Nat BY <1>0, <1>2, <3>5, StartsNext
      <4>. QED BY <1>0, <2>1, <3>3, <4>4, <4>5
    <3>. QED BY <3>4, <3>5
  <2>4. ASSUME NEW e \in Exec, Reg!StoreChallenge(e, c), Filed(c, e, FALSE) PROVE SpentRight(c)'
    <3>1. /\ challenge[c].state = "none" /\ challenge'[c].key = exec[e].key
          /\ Need[exec[e].key] = "signed"
      BY <2>4 DEF Filed, Reg!StoreChallenge
    <3>2. starts'[c] = 0 BY <1>0, <1>2, <3>1, StartsNext DEF RecordRight
    <3>3. Threshold * starts'[c] <= Cardinality(Spent(c)') BY <1>0, <2>1, <3>2
    <3>. QED BY <3>1, <3>3 DEF SpentRight
  <2>5. ASSUME NEW e \in Exec, Filed(c, e, TRUE) PROVE SpentRight(c)'
    BY <2>5 DEF Filed, SpentRight
  <2>. QED BY <1>2, <2>3, <2>4, <2>5, ChallengeNext
<1>. QED BY <1>1, <1>2

\* The third invariant holds in every state.
LEMMA SpentAlways ==
    ASSUME Reg!SessionsAssumption
    PROVE  Reg!Spec => []SpentInv
<1>1. Reg!Init => SpentInv
  <2>. SUFFICES ASSUME Reg!Init, NEW c \in Challenge PROVE SpentRight(c) BY DEF SpentInv
  <2>1. Cardinality(Spent(c)) \in Nat BY SpentIsFinite DEF Spent
  <2>2. starts[c] = 0 /\ challenge[c].state = "none" /\ Threshold \in 1..2
    BY DEF Reg!Init, Reg!SessionsAssumption
  <2>. QED BY <2>1, <2>2 DEF SpentRight
<1>. QED BY <1>1, SpentStep, ApprovalAlways, SessionAlways, PTL DEF Reg!Spec

\* A local approval starts one execution, and a signed one no more than its
\* approvers' grants allow when every start takes a quorum (consume_local,
\* reserve_approvals).
THEOREM ApprovalsBoundStarts ==
    ASSUME Reg!SessionsAssumption
    PROVE  Reg!Spec => []Reg!StartsWithinApproval
<1>1. SessionInv /\ ApprovalInv /\ SpentInv => Reg!StartsWithinApproval
  <2>. SUFFICES ASSUME SessionInv, ApprovalInv, SpentInv, NEW c \in Challenge
                PROVE  starts[c] <= IF challenge[c].local THEN 1
                                    ELSE (Cardinality(Approver) * GrantUses) \div Threshold
    BY RegCounts DEF Reg!StartsWithinApproval
  <2>1. CASE challenge[c].local BY <2>1 DEF ApprovalInv, RecordRight
  <2>2. CASE ~challenge[c].local
    <3>. DEFINE n == Cardinality(Approver) * GrantUses
    <3>1. Threshold * starts[c] <= Cardinality(Spent(c)) BY <2>2 DEF SpentInv, SpentRight
    <3>2. Cardinality(Spent(c)) \in Nat /\ Cardinality(Spent(c)) <= n BY SpentIsFinite DEF Spent
    <3>3. starts[c] \in Nat /\ Threshold \in 1..2
      BY TypesOpen DEF SessionInv, Reg!SessionsAssumption
    <3>4. n \in Nat
      <4>1. IsFiniteSet(Approver) /\ GrantUses \in Nat BY RegCounts DEF Reg!SessionsAssumption
      <4>2. Cardinality(Approver) \in Nat BY <4>1, FS_CardinalityType
      <4>. QED BY <4>1, <4>2
    <3>. HIDE DEF n
    <3>5. starts[c] <= n \div Threshold
      <4>1. CASE Threshold = 1 BY <3>1, <3>2, <3>3, <3>4, <4>1
      <4>2. CASE Threshold = 2 BY <3>1, <3>2, <3>3, <3>4, <4>2
      <4>. QED BY <3>3, <4>1, <4>2
    <3>. QED BY <2>2, <3>5 DEF n
  <2>. QED BY <2>1, <2>2
<1>. QED BY <1>1, SpentAlways, ApprovalAlways, SessionAlways, PTL

-----------------------------------------------------------------------------
(* Limits *)

\* The records that count are finitely many and within the limit.
RecordsInv == IsFiniteSet(Reg!Counted(challenge)) /\ Reg!RecordsBounded

\* A record that counts after a step counted before with the same challenge.
LEMMA CountedNext ==
    ASSUME Reg!SessionsAssumption,
           SessionInv, ApprovalInv, Reg!Next, NEW ch \in [Challenge -> PendingRecord], NEW d \in Challenge,
           d \in Reg!Counted(challenge)', challenge'[d] = ch[d], challenge[d].state # "none",
           ch[d].session = challenge[d].session
    PROVE  d \in Reg!Counted(ch)
<1>. DEFINE s == ch[d].session
<1>0. challenge \in [Challenge -> PendingRecord] BY TypesOpen DEF SessionInv
<1>1. s \in Session BY DEF PendingRecord
<1>2. entry[s].state # "none" BY DEF ApprovalInv, RecordRight
<1>3. LifeStep(s) BY <1>1, LifeNext
<1>4. /\ ch[d].state # "none" /\ entry'[s].state \in {"minted", "live"} /\ ~entry'[s].revoked
      /\ ch[d].local \/ ch[d].state = "Pending"
  BY DEF Reg!Counted, Reg!Present
<1>5. Reg!Present(s) /\ ~entry[s].revoked BY <1>2, <1>3, <1>4 DEF LifeStep, Reg!Present
<1>. QED BY <1>4, <1>5 DEF Reg!Counted

\* Every step keeps RecordsInv.
LEMMA RecordsStep ==
    ASSUME Reg!SessionsAssumption
    PROVE  SessionInv /\ ApprovalInv /\ RecordsInv /\ [Reg!Next]_Reg!vars => RecordsInv'
<1>. SUFFICES ASSUME SessionInv, ApprovalInv, RecordsInv, [Reg!Next]_Reg!vars PROVE RecordsInv' OBVIOUS
<1>0. Reg!TypeOK /\ challenge \in [Challenge -> PendingRecord] /\ PendingMax \in Nat
  BY TypesOpen DEF SessionInv, Reg!SessionsAssumption
<1>1. CASE UNCHANGED Reg!vars
  BY <1>1, RegCounts
     DEF Reg!vars, Reg!registryVars, RecordsInv, Reg!RecordsBounded, Reg!Counted, Reg!Present
<1>2. CASE Reg!Next /\ \A c \in Challenge : Ages(c)
  <2>1. Reg!Counted(challenge)' \subseteq Reg!Counted(challenge)
    <3>. SUFFICES ASSUME NEW d \in Challenge, d \in Reg!Counted(challenge)' PROVE d \in Reg!Counted(challenge)
      BY DEF Reg!Counted
    <3>1. challenge' \in [Challenge -> PendingRecord]
      <4>1. SessionInv' BY SessionStep
      <4>. QED BY <4>1 DEF SessionInv, Reg!TypeOK, PendingRecord
    <3>2. /\ challenge'[d].session = challenge[d].session /\ challenge'[d].local = challenge[d].local
          /\ challenge[d].state # "none"
          /\ challenge'[d].state = "Pending" => challenge[d].state = "Pending"
      BY <1>2 DEF Ages, Reg!Counted, Reg!Live
    <3>. DEFINE s == challenge[d].session
    <3>3. s \in Session BY <1>0 DEF PendingRecord
    <3>4. entry[s].state # "none" BY <3>2 DEF ApprovalInv, RecordRight
    <3>5. LifeStep(s) BY <1>2, <3>3, LifeNext
    <3>6. /\ entry'[s].state \in {"minted", "live"} /\ ~entry'[s].revoked
          /\ challenge[d].local \/ challenge[d].state = "Pending"
      BY <3>2 DEF Reg!Counted, Reg!Present
    <3>7. Reg!Present(s) /\ ~entry[s].revoked BY <3>4, <3>5, <3>6 DEF LifeStep, Reg!Present
    <3>. QED BY <3>2, <3>6, <3>7 DEF Reg!Counted
  <2>2. IsFiniteSet(Reg!Counted(challenge)) /\ Cardinality(Reg!Counted(challenge)) <= PendingMax
    BY RegCounts DEF RecordsInv, Reg!RecordsBounded
  <2>3. /\ IsFiniteSet(Reg!Counted(challenge)') /\ Cardinality(Reg!Counted(challenge)') <= Cardinality(Reg!Counted(challenge))
        /\ Cardinality(Reg!Counted(challenge)') \in Nat /\ Cardinality(Reg!Counted(challenge)) \in Nat
    BY <2>1, <2>2, FS_Subset, FS_CardinalityType
  <2>. QED BY <1>0, <2>2, <2>3, RegCounts DEF RecordsInv, Reg!RecordsBounded
<1>3. ASSUME NEW e \in Exec, NEW c \in Challenge, NEW loc \in BOOLEAN, Reg!Next,
             exec[e].pc # "idle", challenge[c].state = "none",
             challenge' = Reg!Stored(Reg!Listed, c, e, loc), Cardinality(Reg!Counted(Reg!Listed)) < PendingMax
      PROVE  RecordsInv'
  <2>0. /\ Reg!Listed \in [Challenge -> PendingRecord]
        /\ \A d \in Challenge : \/ Reg!Listed[d] = challenge[d]
                                \/ /\ challenge[d].state \in Reg!Live /\ Reg!Listed[d].state = "Expired"
                                   /\ Reg!Listed[d].session = challenge[d].session
                                   /\ Reg!Listed[d].local = challenge[d].local
    BY <1>0, RefreshedFacts DEF Reg!Listed
  <2>1. Reg!Counted(Reg!Listed) \subseteq Reg!Counted(challenge)
    BY <2>0 DEF Reg!Counted, Reg!Live
  <2>2. IsFiniteSet(Reg!Counted(challenge)) BY DEF RecordsInv
  <2>3. IsFiniteSet(Reg!Counted(Reg!Listed)) /\ Cardinality(Reg!Counted(Reg!Listed)) \in Nat
    BY <2>1, <2>2, FS_Subset, FS_CardinalityType
  <2>4. Reg!Counted(challenge)' \subseteq Reg!Counted(Reg!Listed) \cup {c}
    <3>. SUFFICES ASSUME NEW d \in Challenge, d \in Reg!Counted(challenge)', d # c PROVE d \in Reg!Counted(Reg!Listed)
      BY DEF Reg!Counted
    <3>1. challenge'[d] = Reg!Listed[d] BY <1>0, <1>3, StoredFiles
    <3>2. Reg!Listed[d].session = challenge[d].session /\ challenge[d].state # "none"
      BY <2>0, <3>1 DEF Reg!Counted, Reg!Live
    <3>. QED BY <1>3, <2>0, <3>1, <3>2, CountedNext
  <2>5. /\ IsFiniteSet(Reg!Counted(Reg!Listed) \cup {c}) /\ Cardinality(Reg!Counted(Reg!Listed) \cup {c}) \in Nat
        /\ Cardinality(Reg!Counted(Reg!Listed) \cup {c}) <= Cardinality(Reg!Counted(Reg!Listed)) + 1
    <3>1. /\ IsFiniteSet(Reg!Counted(Reg!Listed) \cup {c})
          /\ Cardinality(Reg!Counted(Reg!Listed) \cup {c}) = IF c \in Reg!Counted(Reg!Listed) THEN Cardinality(Reg!Counted(Reg!Listed))
                                                             ELSE Cardinality(Reg!Counted(Reg!Listed)) + 1
      BY <2>3, FS_AddElement
    <3>. QED BY <2>3, <3>1
  <2>6. /\ IsFiniteSet(Reg!Counted(challenge)') /\ Cardinality(Reg!Counted(challenge)') \in Nat
        /\ Cardinality(Reg!Counted(challenge)') <= Cardinality(Reg!Counted(Reg!Listed) \cup {c})
    BY <2>4, <2>5, FS_Subset, FS_CardinalityType
  <2>7. Cardinality(Reg!Counted(challenge)') <= PendingMax BY <1>0, <1>3, <2>3, <2>5, <2>6
  <2>. QED BY <2>6, <2>7, RegCounts DEF RecordsInv, Reg!RecordsBounded
<1>4. ASSUME NEW e \in Exec, NEW c \in Challenge, Reg!Next, Reg!StoreChallenge(e, c) PROVE RecordsInv'
  BY <1>3, <1>4, RegCounts DEF Reg!StoreChallenge
<1>5. ASSUME NEW e \in Exec, NEW c \in Challenge, Reg!Next, Reg!PublishLocal(e, c) PROVE RecordsInv'
  BY <1>3, <1>5, RegCounts DEF Reg!PublishLocal
<1>. QED BY <1>1, <1>2, <1>4, <1>5, ChallengeNext

\* The approval records of the sessions in use never exceed
\* APPROVAL_PENDING_MAX, although the capacity is checked before an await
\* (publish_local_pending, store_approval_challenge).
THEOREM PendingRecordsAreBounded ==
    ASSUME Reg!SessionsAssumption
    PROVE  Reg!Spec => []Reg!RecordsBounded
<1>1. Reg!Init => RecordsInv
  <2>. SUFFICES ASSUME Reg!Init PROVE RecordsInv OBVIOUS
  <2>1. Reg!Counted(challenge) = {} BY DEF Reg!Init, Reg!Counted
  <2>. QED BY <2>1, FS_EmptySet, RegCounts
              DEF RecordsInv, Reg!RecordsBounded, Reg!SessionsAssumption
<1>2. RecordsInv => Reg!RecordsBounded BY DEF RecordsInv
<1>. QED BY <1>1, <1>2, RecordsStep, ApprovalAlways, SessionAlways, PTL DEF Reg!Spec

\* The owners are finitely many and within the limit.
OwnersInv == IsFiniteSet(Reg!Owners) /\ Cardinality(Reg!Owners) <= OwnerLimit

\* Only the admission of a Profile session makes a new owner.
LEMMA OwnersNext ==
    ASSUME Reg!SessionsAssumption,
           SessionInv, Reg!Next
    PROVE  \/ Reg!Owners' \subseteq Reg!Owners
           \/ \E s \in Profile : Cardinality(Reg!Owners) < OwnerLimit /\ Reg!Owners' \subseteq Reg!Owners \cup {s}
<1>0. Reg!TypeOK BY DEF SessionInv
<1>1. CASE Reg!Registry
  <2>1. exec' = exec
    BY <1>1
       DEF Reg!Registry, Reg!Admit, Reg!Deliver, Reg!Revoke, Reg!WaitRevoked, Reg!DropGuard,
           Reg!RevokeWorkload, Reg!CloseAndRevokeAll, Reg!OpenForAdmission
  <2>2. \A s \in Session : Reg!Permits(s)' = Reg!Permits(s) BY <2>1 DEF Reg!Permits
  <2>3. Profile \subseteq Session BY DEF Reg!SessionsAssumption
  <2>4. \/ guard' \subseteq guard
        \/ \E s \in Profile : guard' = guard \cup {s} /\ Cardinality(Reg!Owners) < OwnerLimit
    BY <1>1, RegCounts
       DEF Reg!Registry, Reg!Admit, Reg!Deliver, Reg!Revoke, Reg!WaitRevoked, Reg!DropGuard,
           Reg!RevokeWorkload, Reg!CloseAndRevokeAll, Reg!OpenForAdmission
  <2>. QED BY <2>2, <2>3, <2>4 DEF Reg!Owners
<1>2. CASE Reg!Decisions \/ Reg!Tick
  <2>1. exec' = exec /\ guard' = guard
    BY <1>2
       DEF Reg!Decisions, Reg!CancelApproval, Reg!DecideBegin, Reg!DecidePublish,
           Reg!DecideUnconfirmed, Reg!DecideRefused, Reg!Tick, Reg!SetWall, Reg!Late,
           Reg!registryVars
  <2>. QED BY <2>1 DEF Reg!Owners, Reg!Permits
<1>3. ASSUME NEW e \in Exec, Reg!Execution(e) PROVE Reg!Owners' \subseteq Reg!Owners
  <2>1. guard' = guard
    BY <1>3
       DEF Reg!Execution, Reg!Acquire, Reg!BeginExpired, Reg!Allowed, Reg!GiveUp, Reg!Handoff,
           Reg!Finish, Reg!RequestLocal, Reg!StoreChallenge, Reg!ReserveLapsed, Reg!AwaitLocal,
           Reg!PublishLocal, Reg!ConsumeLocal, Reg!ReserveExpired, Reg!ReserveApprovals,
           Reg!registryVars
  <2>2. Profile \subseteq Session BY DEF Reg!SessionsAssumption
  <2>3. ASSUME Moves(e) PROVE Reg!Owners' \subseteq Reg!Owners
    BY <2>1, <2>2, <2>3, MovesKeepPermits DEF Reg!Owners
  <2>4. CASE Plain(e) BY <2>3, <2>4, PlainMoves
  <2>5. CASE Reg!Handoff(e) BY <1>0, <2>3, <2>5, ToMoves DEF Reg!Handoff, Reg!ExecPc
  <2>6. CASE Reg!Finish(e)
    <3>1. exec'[e].pc = "idle" /\ \A f \in Exec : f # e => exec'[f] = exec[f]
      BY <2>6, FinishFacts
    <3>2. \A s \in Session : Reg!Permits(s)' \subseteq Reg!Permits(s) BY <3>1 DEF Reg!Permits
    <3>. QED BY <2>1, <2>2, <3>2 DEF Reg!Owners
  <2>7. ASSUME NEW c \in Challenge, Reg!AwaitLocal(e, c) PROVE Reg!Owners' \subseteq Reg!Owners
    <3>1. \E b \in BOOLEAN, p \in {"closing", "approved"} :
            exec' = [exec EXCEPT ![e].refunded = b, ![e].pc = p] /\ exec[e].pc # "idle"
      BY <2>7 DEF Reg!AwaitLocal
    <3>2. Moves(e) BY <1>0, <3>1, RefundMoves DEF Reg!ExecPc
    <3>. QED BY <2>3, <3>2
  <2>8. ASSUME NEW c \in Challenge, Reg!PublishLocal(e, c) PROVE Reg!Owners' \subseteq Reg!Owners
    <3>1. exec' = [exec EXCEPT ![e].refunded = TRUE, ![e].pc = "closing"] /\ exec[e].pc # "idle"
      BY <2>8 DEF Reg!PublishLocal
    <3>2. Moves(e) BY <1>0, <3>1, RefundMoves DEF Reg!ExecPc
    <3>. QED BY <2>3, <3>2
  <2>9. ASSUME NEW s \in Session, NEW k \in SessionKey, NEW w \in SUBSET Challenge, Reg!Acquire(e, s, k, w)
        PROVE  Reg!Owners' \subseteq Reg!Owners
    <3>1. s \in Profile => s \in Reg!Owners BY <2>9 DEF Reg!Acquire, Reg!Usable
    <3>2. exec'[e].session = s /\ \A f \in Exec : f # e => exec'[f] = exec[f]
      BY <1>0, <2>9, AcquireFacts
    <3>3. \A t \in Session : t # s => Reg!Permits(t)' \subseteq Reg!Permits(t)
      BY <3>2 DEF Reg!Permits
    <3>. QED BY <2>1, <2>2, <3>1, <3>3 DEF Reg!Owners
  <2>10. ASSUME NEW s \in Session, Reg!BeginExpired(e, s) PROVE Reg!Owners' \subseteq Reg!Owners
    BY <2>10 DEF Reg!BeginExpired, Reg!Owners, Reg!Permits
  <2>. QED BY <1>3, <2>4, <2>5, <2>6, <2>7, <2>8, <2>9, <2>10, ExecutionCases
<1>. QED BY <1>1, <1>2, <1>3 DEF Reg!Next

\* Every step keeps OwnersInv.
LEMMA OwnersStep ==
    ASSUME Reg!SessionsAssumption
    PROVE  SessionInv /\ OwnersInv /\ [Reg!Next]_Reg!vars => OwnersInv'
<1>. SUFFICES ASSUME SessionInv, OwnersInv, [Reg!Next]_Reg!vars PROVE OwnersInv' OBVIOUS
<1>0. IsFiniteSet(Reg!Owners) /\ Cardinality(Reg!Owners) \in Nat /\ OwnerLimit \in Nat
      /\ Cardinality(Reg!Owners) <= OwnerLimit
  BY FS_CardinalityType DEF OwnersInv, Reg!SessionsAssumption
<1>1. CASE UNCHANGED Reg!vars BY <1>1
                                 DEF Reg!vars, Reg!registryVars, OwnersInv, Reg!Owners,
                                     Reg!Permits
<1>2. CASE Reg!Owners' \subseteq Reg!Owners
  <2>1. /\ IsFiniteSet(Reg!Owners') /\ Cardinality(Reg!Owners') <= Cardinality(Reg!Owners)
        /\ Cardinality(Reg!Owners') \in Nat
    BY <1>0, <1>2, FS_Subset, FS_CardinalityType
  <2>. QED BY <1>0, <2>1 DEF OwnersInv
<1>3. ASSUME NEW s \in Profile, Cardinality(Reg!Owners) < OwnerLimit, Reg!Owners' \subseteq Reg!Owners \cup {s}
      PROVE  OwnersInv'
  <2>1. /\ IsFiniteSet(Reg!Owners \cup {s})
        /\ Cardinality(Reg!Owners \cup {s}) = IF s \in Reg!Owners THEN Cardinality(Reg!Owners) ELSE Cardinality(Reg!Owners) + 1
    BY <1>0, FS_AddElement
  <2>2. /\ IsFiniteSet(Reg!Owners') /\ Cardinality(Reg!Owners') <= Cardinality(Reg!Owners \cup {s})
        /\ Cardinality(Reg!Owners') \in Nat
    BY <1>3, <2>1, FS_Subset, FS_CardinalityType
  <2>. QED BY <1>0, <1>3, <2>1, <2>2 DEF OwnersInv
<1>. QED BY <1>1, <1>2, <1>3, OwnersNext

\* Profile connections and the executions that outlive them together stay
\* within CONTROL_OWNER_LIMIT (reserve_control_owner, begin).
THEOREM ControlsAreBounded ==
    ASSUME Reg!SessionsAssumption
    PROVE  Reg!Spec => []Reg!ControlsBounded
<1>1. Reg!Init => OwnersInv
  <2>. SUFFICES ASSUME Reg!Init PROVE OwnersInv OBVIOUS
  <2>1. Reg!Owners = {} BY DEF Reg!Init, Reg!Owners, Reg!Permits, Reg!Idle
  <2>. QED BY <2>1, FS_EmptySet DEF OwnersInv, Reg!SessionsAssumption
<1>2. OwnersInv => Reg!ControlsBounded
  BY RegCounts DEF OwnersInv, Reg!ControlsBounded, Reg!Owners
<1>. QED BY <1>1, <1>2, OwnersStep, SessionAlways, PTL DEF Reg!Spec

-----------------------------------------------------------------------------
(***************************************************************************)
(* The control connections of Profiles (ProfileControl), for any number of *)
(* them.  A creation holds the coordinator, so that the policy and the     *)
(* actions it saw stay in force until its session is in the registry       *)
(* (CreatingRight); a live session has a task that owns it (LiveRight);    *)
(* the rows follow the place of the task (RowRight).                       *)
(***************************************************************************)
CONSTANTS Control, Confirm, ControlLimit, MaxActivations

VARIABLES brokerPhase, shutdown, faulted, profilePolicy, policyExpired, bound,
          profileCoordinator, peer, task, connected, passed, seen, session, aged, row, told

\* The connections with their broker.
Ctl == INSTANCE ProfileControl WITH
    OwnerLimit <- ControlLimit, MaxPolicy <- MaxActivations,
    phase <- brokerPhase, policy <- profilePolicy, expired <- policyExpired,
    coordinator <- profileCoordinator, pc <- task, late <- passed

\* The instance counts sets as this module does.
LEMMA CtlCounts ==
    \A S : (Ctl!IsFiniteSet(S) <=> IsFiniteSet(S)) /\ Ctl!Cardinality(S) = Cardinality(S)
<1>1. ASSUME NEW S PROVE Ctl!IsFiniteSet(S) <=> IsFiniteSet(S)
  BY DEF Ctl!IsFiniteSet, IsFiniteSet
<1>2. ASSUME NEW S PROVE Ctl!Cardinality(S) = Cardinality(S)
  BY <1>1 DEF Ctl!Cardinality, Cardinality
<1>. QED BY <1>1, <1>2

\* A task before the admission of its session.
Unminted == {"idle", "coordinate", "proof", "actions", "status"}

\* Types, without the limit
ControlTypes ==
    /\ brokerPhase \in {"running", "locked", "stopped"}
    /\ shutdown \in BOOLEAN /\ faulted \in BOOLEAN
    /\ profilePolicy \in 0..MaxActivations /\ policyExpired \in BOOLEAN /\ bound \in BOOLEAN
    /\ profileCoordinator \in Control \cup {"free"}
    /\ peer \in [Control -> {"here", "gone"}]
    /\ task \in [Control -> Ctl!States]
    /\ connected \in [Control -> BOOLEAN] /\ passed \in [Control -> BOOLEAN]
    /\ seen \in [Control -> 0..MaxActivations]
    /\ session \in [Control -> {"none", "live", "revoked"}]
    /\ aged \in [Control -> BOOLEAN]
    /\ row \in [Control -> {"none", "created", "ended"}]
    /\ told \in [Control -> BOOLEAN]

\* A creation holds the coordinator, so policy and actions stay as it saw them.
CreatingRight(c) ==
    /\ task[c] \in Ctl!Creating <=> profileCoordinator = c
    /\ task[c] \in Ctl!Creating => seen[c] = profilePolicy
    /\ task[c] \in {"status", "journal"} => bound

\* A live session is of the policy in force, and its task owns it.
LiveRight(c) ==
    session[c] = "live" => /\ seen[c] = profilePolicy /\ bound /\ brokerPhase = "running"
                           /\ task[c] \in {"journal"} \cup Ctl!Holding

\* The rows and the token of a session, by the place of its task.
RowRight(c) ==
    /\ task[c] \in Unminted \cup {"journal"} => row[c] = "none" 
    /\ task[c] \in Unminted \cup {"journal", "undo"} => ~told[c]
    /\ task[c] \in Ctl!Holding => row[c] = "created"
    /\ task[c] \in {"error", "done"} /\ row[c] = "created" => faulted
    /\ told[c] => row[c] # "none" /\ connected[c]

\* The control owners are within the limit.
OwnersRight == IsFiniteSet(Ctl!Owners) /\ Cardinality(Ctl!Owners) <= ControlLimit

\* The invariant of the connections.
ControlInv ==
    /\ ControlTypes /\ OwnersRight
    /\ \A c \in Control : CreatingRight(c) /\ LiveRight(c) /\ RowRight(c)

\* It holds when the broker starts.
LEMMA ControlInit ==
    ASSUME Ctl!ProfileControlAssumption
    PROVE  Ctl!Init => ControlInv
<1>. SUFFICES ASSUME Ctl!Init PROVE ControlInv OBVIOUS
<1>1. ControlTypes
  <2>1. 0 \in 0..MaxActivations BY DEF Ctl!ProfileControlAssumption
  <2>. QED BY <2>1 DEF Ctl!Init, ControlTypes, Ctl!States
<1>2. Ctl!Owners = {} BY DEF Ctl!Init, Ctl!Owners
<1>3. OwnersRight BY <1>2, FS_EmptySet DEF OwnersRight, Ctl!ProfileControlAssumption
<1>4. \A c \in Control : CreatingRight(c) /\ LiveRight(c) /\ RowRight(c)
  BY DEF Ctl!Init, CreatingRight, LiveRight, RowRight, Ctl!Creating, Ctl!Holding, Unminted,
         Ctl!ProfileControlAssumption
<1>. QED BY <1>1, <1>3, <1>4 DEF ControlInv

\* Revoking takes sessions away and mints none.
LEMMA ControlRevoked ==
    ASSUME ControlTypes, NEW set
    PROVE  /\ Ctl!Revoked(set) \in [Control -> {"none", "live", "revoked"}]
           /\ \A c \in Control : /\ Ctl!Revoked(set)[c] = "live" => session[c] = "live" /\ c \notin set
                                 /\ c \notin set => Ctl!Revoked(set)[c] = session[c]
  BY DEF ControlTypes, Ctl!Revoked

\* An owner is counted before it starts, and stops being one when it is done.
LEMMA OwnersKept ==
    ASSUME Ctl!ProfileControlAssumption,
           ControlInv,
           \/ task' = task
           \/ \E c \in Control, p \in Ctl!States :
                 /\ task' = [task EXCEPT ![c] = p] /\ task[c] # "done"
                 /\ task[c] = "idle" /\ p # "done" => Cardinality(Ctl!Owners) < ControlLimit
    PROVE  OwnersRight'
<1>1. /\ IsFiniteSet(Ctl!Owners) /\ Cardinality(Ctl!Owners) \in Nat
      /\ Cardinality(Ctl!Owners) <= ControlLimit /\ ControlLimit \in Nat
  BY FS_CardinalityType DEF ControlInv, OwnersRight, Ctl!ProfileControlAssumption
<1>2. CASE Ctl!Owners' \subseteq Ctl!Owners
  <2>1. /\ IsFiniteSet(Ctl!Owners') /\ Cardinality(Ctl!Owners') \in Nat
        /\ Cardinality(Ctl!Owners') <= Cardinality(Ctl!Owners)
    BY <1>1, <1>2, FS_Subset, FS_CardinalityType
  <2>. QED BY <1>1, <2>1 DEF OwnersRight
<1>3. ASSUME NEW c \in Control, Ctl!Owners' \subseteq Ctl!Owners \cup {c},
             Cardinality(Ctl!Owners) < ControlLimit
      PROVE  OwnersRight'
  <2>1. /\ IsFiniteSet(Ctl!Owners \cup {c})
        /\ Cardinality(Ctl!Owners \cup {c}) =
             IF c \in Ctl!Owners THEN Cardinality(Ctl!Owners) ELSE Cardinality(Ctl!Owners) + 1
    BY <1>1, FS_AddElement
  <2>2. /\ IsFiniteSet(Ctl!Owners') /\ Cardinality(Ctl!Owners') \in Nat
        /\ Cardinality(Ctl!Owners') <= Cardinality(Ctl!Owners \cup {c})
    BY <2>1, <1>3, FS_Subset, FS_CardinalityType
  <2>. QED BY <1>1, <1>3, <2>1, <2>2 DEF OwnersRight
<1>4. CASE task' = task BY <1>2, <1>4 DEF Ctl!Owners
<1>5. ASSUME NEW c \in Control, NEW p \in Ctl!States, task' = [task EXCEPT ![c] = p],
             task[c] = "idle" /\ p # "done" => Cardinality(Ctl!Owners) < ControlLimit, task[c] # "done"
      PROVE  OwnersRight'
  <2>0. task \in [Control -> Ctl!States] BY DEF ControlInv, ControlTypes
  <2>1. \A d \in Control : d # c => task'[d] = task[d] BY <1>5, <2>0
  <2>2. task'[c] = p BY <1>5, <2>0
  <2>3. CASE task[c] # "idle" \/ p = "done" BY <1>2, <1>5, <2>1, <2>2, <2>3 DEF Ctl!Owners
  <2>4. CASE task[c] = "idle" /\ p # "done"
    <3>1. Ctl!Owners' \subseteq Ctl!Owners \cup {c} BY <2>1 DEF Ctl!Owners
    <3>. QED BY <1>3, <1>5, <2>4, <3>1
  <2>. QED BY <2>3, <2>4
<1>. QED BY <1>4, <1>5

\* The steps of the environment
LEMMA EnvironmentRight ==
    ASSUME Ctl!ProfileControlAssumption,
           ControlInv, Ctl!Environment
    PROVE  ControlInv'
<1>0. ControlTypes BY DEF ControlInv
<1>1. UNCHANGED Ctl!taskVars
  BY DEF Ctl!Environment, Ctl!PeerGoes, Ctl!DeadlinePasses, Ctl!SessionAges, Ctl!PolicyExpires,
         Ctl!PolicyChange, Ctl!ActionChange, Ctl!Lock, Ctl!Unlock, Ctl!Stop
<1>2. OwnersRight' BY <1>1, OwnersKept DEF Ctl!taskVars
<1>3. ControlTypes'
  <2>. USE <1>0 DEF ControlTypes, Ctl!taskVars, Ctl!envVars
  <2>1. ASSUME NEW c \in Control, Ctl!PeerGoes(c) \/ Ctl!DeadlinePasses(c) \/ Ctl!SessionAges(c)
        PROVE  ControlTypes'
    BY <2>1 DEF Ctl!PeerGoes, Ctl!DeadlinePasses, Ctl!SessionAges
  <2>2. CASE Ctl!PolicyExpires BY <2>2 DEF Ctl!PolicyExpires
  <2>3. CASE Ctl!PolicyChange
    <3>1. profilePolicy' \in 0..MaxActivations
      BY <2>3 DEF Ctl!PolicyChange, Ctl!ProfileControlAssumption
    <3>. QED BY <2>3, <3>1, ControlRevoked DEF Ctl!PolicyChange
  <2>4. CASE Ctl!ActionChange BY <2>4, ControlRevoked DEF Ctl!ActionChange
  <2>5. CASE Ctl!Lock \/ Ctl!Unlock BY <2>5, ControlRevoked DEF Ctl!Lock, Ctl!Unlock
  <2>6. CASE Ctl!Stop BY <2>6, ControlRevoked DEF Ctl!Stop
  <2>. QED BY <2>1, <2>2, <2>3, <2>4, <2>5, <2>6 DEF Ctl!Environment
<1>4. ASSUME NEW c \in Control PROVE CreatingRight(c)' /\ LiveRight(c)' /\ RowRight(c)'
  <2>1. CreatingRight(c) /\ LiveRight(c) /\ RowRight(c) BY DEF ControlInv
  <2>2. /\ profileCoordinator' = profileCoordinator /\ faulted' = faulted
        /\ profileCoordinator # "free" => profilePolicy' = profilePolicy /\ bound' = bound
    BY DEF Ctl!Environment, Ctl!PeerGoes, Ctl!DeadlinePasses, Ctl!SessionAges,
           Ctl!PolicyExpires, Ctl!PolicyChange, Ctl!ActionChange, Ctl!Lock, Ctl!Unlock,
           Ctl!Stop, Ctl!envVars
  <2>3. session'[c] = "live" =>
           /\ session[c] = "live" /\ profilePolicy' = profilePolicy /\ bound' = bound 
           /\ brokerPhase = "running" => brokerPhase' = "running"
    BY <1>0, ControlRevoked
       DEF Ctl!Environment, Ctl!PeerGoes, Ctl!DeadlinePasses, Ctl!SessionAges,
           Ctl!PolicyExpires, Ctl!PolicyChange, Ctl!ActionChange, Ctl!Lock, Ctl!Unlock,
           Ctl!Stop, Ctl!envVars
  <2>4. c # "free" BY DEF Ctl!ProfileControlAssumption
  <2>5. CreatingRight(c)' 
    BY <1>1, <2>1, <2>2, <2>4 DEF CreatingRight, Ctl!taskVars, Ctl!Creating
  <2>6. LiveRight(c)' BY <1>1, <2>1, <2>3 DEF LiveRight, Ctl!taskVars
  <2>7. RowRight(c)' BY <1>1, <2>1, <2>2 DEF RowRight, Ctl!taskVars
  <2>. QED BY <2>5, <2>6, <2>7
<1>. QED BY <1>2, <1>3, <1>4 DEF ControlInv

\* What a step of one task leaves alone
Apart(c) ==
    /\ \A d \in Control : d # c => /\ task'[d] = task[d] /\ connected'[d] = connected[d] 
                                   /\ seen'[d] = seen[d] /\ row'[d] = row[d] /\ told'[d] = told[d]
                                   /\ session'[d] = "live" => session[d] = "live"
                                   /\ session'[d] = "live" => brokerPhase' = brokerPhase
                                   /\ profileCoordinator' = d <=> profileCoordinator = d
    /\ profilePolicy' = profilePolicy /\ bound' = bound /\ (faulted => faulted')

\* The other connections keep what they have.
LEMMA ApartKeeps ==
    ASSUME ControlInv, NEW c \in Control, Apart(c), ControlTypes', OwnersRight',
           CreatingRight(c)', LiveRight(c)', RowRight(c)'
    PROVE  ControlInv'
<1>1. ASSUME NEW d \in Control, d # c PROVE CreatingRight(d)' /\ LiveRight(d)' /\ RowRight(d)'
  <2>1. CreatingRight(d) /\ LiveRight(d) /\ RowRight(d) BY DEF ControlInv
  <2>2. CreatingRight(d)' BY <1>1, <2>1 DEF Apart, CreatingRight
  <2>3. LiveRight(d)' BY <1>1, <2>1 DEF Apart, LiveRight
  <2>4. RowRight(d)' BY <1>1, <2>1 DEF Apart, RowRight
  <2>. QED BY <2>2, <2>3, <2>4
<1>. QED BY <1>1 DEF ControlInv

\* The steps of a task up to the admission of its session
LEMMA CreationRight ==
    ASSUME Ctl!ProfileControlAssumption,
           ControlInv, NEW c \in Control,
           Ctl!Connect(c) \/ Ctl!Coordinate(c) \/ Ctl!Proof(c) \/ Ctl!Actions(c) \/ Ctl!AdmitProfile(c)
           \/ Ctl!Cancel(c) \/ Ctl!Report(c)
    PROVE  ControlInv'
<1>0. ControlTypes /\ CreatingRight(c) /\ LiveRight(c) /\ RowRight(c) /\ "free" \notin Control
  BY DEF ControlInv, Ctl!ProfileControlAssumption
<1>. USE DEF Ctl!States, Ctl!Creating, Ctl!Holding, Unminted
<1>1. ControlTypes'
  <2>. USE <1>0 DEF ControlTypes, Ctl!Advance, Ctl!Fail, Ctl!Goto, Ctl!envVars
  <2>1. CASE Ctl!Connect(c) BY <2>1 DEF Ctl!Connect
  <2>2. CASE Ctl!Coordinate(c) BY <2>2 DEF Ctl!Coordinate
  <2>3. CASE Ctl!Proof(c) BY <2>3 DEF Ctl!Proof
  <2>4. CASE Ctl!Actions(c) BY <2>4 DEF Ctl!Actions
  <2>5. CASE Ctl!AdmitProfile(c) BY <2>5 DEF Ctl!AdmitProfile
  <2>6. CASE Ctl!Cancel(c) BY <2>6 DEF Ctl!Cancel
  <2>7. CASE Ctl!Report(c) BY <2>7 DEF Ctl!Report
  <2>. QED BY <2>1, <2>2, <2>3, <2>4, <2>5, <2>6, <2>7
<1>2. OwnersRight'
  <2>1. PICK p \in Ctl!States : \/ task' = task 
                                \/ /\ task' = [task EXCEPT ![c] = p] /\ task[c] # "done"
                                   /\ task[c] = "idle" /\ p # "done" => Cardinality(Ctl!Owners) < ControlLimit
    BY CtlCounts
       DEF Ctl!Connect, Ctl!Coordinate, Ctl!Proof, Ctl!Actions, Ctl!AdmitProfile, Ctl!Cancel,
           Ctl!Report, Ctl!Advance, Ctl!Fail, Ctl!Goto
  <2>. QED BY <2>1, OwnersKept
<1>3. Apart(c)
  <2>. USE <1>0 DEF ControlTypes, Apart, Ctl!Advance, Ctl!Fail, Ctl!Goto, Ctl!envVars,
      CreatingRight
  <2>1. CASE Ctl!Connect(c) BY <2>1 DEF Ctl!Connect
  <2>2. CASE Ctl!Coordinate(c) BY <2>2 DEF Ctl!Coordinate
  <2>3. CASE Ctl!Proof(c) BY <2>3 DEF Ctl!Proof
  <2>4. CASE Ctl!Actions(c) BY <2>4 DEF Ctl!Actions
  <2>5. CASE Ctl!AdmitProfile(c)
    <3>1. CASE Ctl!Fail(c) BY <2>5, <3>1 DEF Ctl!AdmitProfile
    <3>2. CASE /\ session' = [session EXCEPT ![c] = "live"] /\ Ctl!Goto(c, "journal")
               /\ UNCHANGED <<Ctl!envVars, profileCoordinator, peer, connected, passed, seen, aged, row, told>>
      BY <3>2
    <3>. QED BY <2>5, <3>1, <3>2 DEF Ctl!AdmitProfile
  <2>6. CASE Ctl!Cancel(c) BY <2>6 DEF Ctl!Cancel
  <2>7. CASE Ctl!Report(c) BY <2>7 DEF Ctl!Report
  <2>. QED BY <2>1, <2>2, <2>3, <2>4, <2>5, <2>6, <2>7
<1>4. CreatingRight(c)'
  BY <1>0
     DEF ControlTypes, CreatingRight, Ctl!Connect, Ctl!Coordinate, Ctl!Proof, Ctl!Actions,
         Ctl!AdmitProfile, Ctl!Cancel, Ctl!Report, Ctl!Advance, Ctl!Fail, Ctl!Goto, Ctl!envVars
<1>5. LiveRight(c)'
  BY <1>0
     DEF ControlTypes, CreatingRight, LiveRight, Ctl!Connect, Ctl!Coordinate, Ctl!Proof,
         Ctl!Actions, Ctl!AdmitProfile, Ctl!Cancel, Ctl!Report, Ctl!Advance, Ctl!Fail, Ctl!Goto,
         Ctl!envVars, Ctl!CheckLive
<1>6. RowRight(c)'
  BY <1>0
     DEF ControlTypes, RowRight, Ctl!Connect, Ctl!Coordinate, Ctl!Proof, Ctl!Actions,
         Ctl!AdmitProfile, Ctl!Cancel, Ctl!Report, Ctl!Advance, Ctl!Fail, Ctl!Goto, Ctl!envVars
<1>. QED BY <1>1, <1>2, <1>3, <1>4, <1>5, <1>6, ApartKeeps

\* The steps of a task that owns a session
LEMMA OwnershipRight ==
    ASSUME Ctl!ProfileControlAssumption,
           ControlInv, NEW c \in Control,
           Ctl!JournalOk(c) \/ Ctl!JournalFails(c) \/ Ctl!Undo(c) \/ Ctl!WriteToken(c)
           \/ Ctl!Release(c) \/ Ctl!RevokeAudit(c)
    PROVE  ControlInv'
<1>0. ControlTypes /\ CreatingRight(c) /\ LiveRight(c) /\ RowRight(c) /\ "free" \notin Control
  BY DEF ControlInv, Ctl!ProfileControlAssumption
<1>. USE DEF Ctl!States, Ctl!Creating, Ctl!Holding, Unminted
<1>r. /\ session' \in [Control -> {"none", "live", "revoked"}]
      /\ \A d \in Control : session'[d] = "live" => session[d] = "live" /\ brokerPhase' = brokerPhase
      /\ session'[c] = "live" => task[c] \in {"journal", "write"} /\ task'[c] \in Ctl!Holding
  BY <1>0, ControlRevoked
     DEF ControlTypes, Ctl!JournalOk, Ctl!JournalFails, Ctl!Undo, Ctl!WriteToken, Ctl!Release,
         Ctl!RevokeAudit, Ctl!Fault, Ctl!Goto, Ctl!envVars, LiveRight
<1>1. ControlTypes'
  <2>. USE <1>0, <1>r DEF ControlTypes, Ctl!Fault, Ctl!Goto, Ctl!envVars
  <2>1. CASE Ctl!JournalOk(c) BY <2>1 DEF Ctl!JournalOk
  <2>2. CASE Ctl!JournalFails(c) BY <2>2 DEF Ctl!JournalFails
  <2>3. CASE Ctl!Undo(c) BY <2>3 DEF Ctl!Undo
  <2>4. CASE Ctl!WriteToken(c) BY <2>4 DEF Ctl!WriteToken
  <2>5. CASE Ctl!Release(c) BY <2>5 DEF Ctl!Release
  <2>6. CASE Ctl!RevokeAudit(c) BY <2>6 DEF Ctl!RevokeAudit
  <2>. QED BY <2>1, <2>2, <2>3, <2>4, <2>5, <2>6
<1>2. OwnersRight'
  <2>1. PICK p \in Ctl!States : task' = [task EXCEPT ![c] = p] /\ task[c] \notin {"idle", "done"}
    BY DEF Ctl!JournalOk, Ctl!JournalFails, Ctl!Undo, Ctl!WriteToken, Ctl!Release,
           Ctl!RevokeAudit, Ctl!Goto
  <2>. QED BY <2>1, OwnersKept
<1>3. Apart(c)
  <2>. USE <1>0, <1>r DEF ControlTypes, Apart, Ctl!Fault, Ctl!Goto, Ctl!envVars, CreatingRight
  <2>1. CASE Ctl!JournalOk(c) BY <2>1 DEF Ctl!JournalOk
  <2>2. CASE Ctl!JournalFails(c) BY <2>2 DEF Ctl!JournalFails
  <2>3. CASE Ctl!Undo(c) BY <2>3 DEF Ctl!Undo
  <2>4. CASE Ctl!WriteToken(c) BY <2>4 DEF Ctl!WriteToken
  <2>5. CASE Ctl!Release(c) BY <2>5 DEF Ctl!Release
  <2>6. CASE Ctl!RevokeAudit(c) BY <2>6 DEF Ctl!RevokeAudit
  <2>. QED BY <2>1, <2>2, <2>3, <2>4, <2>5, <2>6
<1>4. CreatingRight(c)'
  BY <1>0
     DEF ControlTypes, CreatingRight, Ctl!JournalOk, Ctl!JournalFails, Ctl!Undo, Ctl!WriteToken,
         Ctl!Release, Ctl!RevokeAudit, Ctl!Fault, Ctl!Goto, Ctl!envVars
<1>5. LiveRight(c)'
  BY <1>0, <1>r
     DEF ControlTypes, LiveRight, Ctl!JournalOk, Ctl!JournalFails, Ctl!Undo, Ctl!WriteToken,
         Ctl!Release, Ctl!RevokeAudit, Ctl!Fault, Ctl!Goto, Ctl!envVars
<1>6. RowRight(c)'
  BY <1>0
     DEF ControlTypes, RowRight, Ctl!JournalOk, Ctl!JournalFails, Ctl!Undo, Ctl!WriteToken,
         Ctl!Release, Ctl!RevokeAudit, Ctl!Fault, Ctl!Goto, Ctl!envVars
<1>. QED BY <1>1, <1>2, <1>3, <1>4, <1>5, <1>6, ApartKeeps

\* Every step keeps the invariant.
LEMMA ControlAlways ==
    ASSUME Ctl!ProfileControlAssumption
    PROVE  Ctl!Spec => []ControlInv
<1>1. ControlInv /\ [Ctl!Next]_Ctl!vars => ControlInv'
  <2>. SUFFICES ASSUME ControlInv, [Ctl!Next]_Ctl!vars PROVE ControlInv' OBVIOUS
  <2>1. CASE UNCHANGED Ctl!vars
    BY <2>1
       DEF Ctl!vars, Ctl!envVars, Ctl!taskVars, ControlInv, ControlTypes, OwnersRight,
           Ctl!Owners, CreatingRight, LiveRight, RowRight
  <2>. QED BY <2>1, EnvironmentRight, CreationRight, OwnershipRight DEF Ctl!Next, Ctl!Task
<1>. QED BY <1>1, ControlInit, PTL DEF Ctl!Spec

\* Types hold in every state, and no more than CONTROL_OWNER_LIMIT connections
\* are served at once (reserve_control_owner).
THEOREM ControlTypeCorrect ==
    ASSUME Ctl!ProfileControlAssumption
    PROVE  Ctl!Spec => []Ctl!TypeOK
<1>1. ControlInv => Ctl!TypeOK
  BY CtlCounts DEF ControlInv, ControlTypes, OwnersRight, Ctl!TypeOK
<1>. QED BY <1>1, ControlAlways, PTL

\* Every session a control connection minted belongs to the policy that is
\* active now, its actions are the current ones and the broker runs: nothing
\* slips between the checks of profile_create_until and its admission.
THEOREM ProfileSessionsAreCurrent ==
    ASSUME Ctl!ProfileControlAssumption
    PROVE  Ctl!Spec => []Ctl!LiveSessionsAreCurrent
<1>1. ControlInv => Ctl!LiveSessionsAreCurrent
  BY DEF ControlInv, LiveRight, Ctl!LiveSessionsAreCurrent
<1>. QED BY <1>1, ControlAlways, PTL

\* A token is told only of a session whose SESSION_CREATED row is on disk, and
\* never by a creation its peer had abandoned (handle_control).
THEOREM TokensFollowRows ==
    ASSUME Ctl!ProfileControlAssumption
    PROVE  Ctl!Spec => []Ctl!TokenAfterRow
<1>1. ControlInv => Ctl!TokenAfterRow BY DEF ControlInv, RowRight, Ctl!TokenAfterRow
<1>. QED BY <1>1, ControlAlways, PTL

\* A session is in the registry only while the task of its connection holds
\* its guard, and is out of it before its second row is written.
THEOREM NoSessionIsOrphaned ==
    ASSUME Ctl!ProfileControlAssumption
    PROVE  Ctl!Spec => []Ctl!NoOrphanSession
<1>1. ControlInv => Ctl!NoOrphanSession
  BY DEF ControlInv, LiveRight, RowRight, Ctl!NoOrphanSession, Unminted
<1>. QED BY <1>1, ControlAlways, PTL

\* A connection ends with both rows of its session on disk, or the broker is
\* faulted (profile_create_until, handle_control).
THEOREM RowsArePaired ==
    ASSUME Ctl!ProfileControlAssumption
    PROVE  Ctl!Spec => []Ctl!RowsPaired
<1>1. ControlInv => Ctl!RowsPaired BY DEF ControlInv, RowRight, Ctl!RowsPaired
<1>. QED BY <1>1, ControlAlways, PTL

=============================================================================
