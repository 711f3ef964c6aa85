----------------------------- MODULE LocalCalls -----------------------------
(***************************************************************************)
(* rekey-broker/src/runtime/local_calls.rs with its callers: the           *)
(* process-local approvals, approval windows and hourly rate of signed     *)
(* Connection calls (executor/local.rs) and of ssh-agent signatures        *)
(* (ssh_agent.rs), the administrator's decision (ipc/admin.rs) and the     *)
(* audit worker that commits or rejects an admission (audit.rs).           *)
(*                                                                         *)
(* A request is named by its key: caller, parameter hash and rule.  Time   *)
(* is abstracted to the sets of approvals and windows whose deadline has   *)
(* passed.  Lock, unlock and fault appear by what they do to this state;   *)
(* module Broker models them in full.                                      *)
(***************************************************************************)
EXTENDS Naturals, FiniteSets

CONSTANTS
    Call,          \* signed Connection calls (RequestId)
    Signer,        \* ssh-agent sign requests
    Approval,      \* approval request ids, drawn fresh by random_id
    Key,           \* request keys: caller, canonical parameters, rule
    KeyOf,         \* Call \cup Signer -> Key
    RuleOf,        \* Key -> the (connection, rule, caller) a window covers
    NeedsApproval, \* the keys whose rule has effect Approve (others: Allow)
    ExternalKey,   \* ssh keys whose approver is a signer, not local presence
    MaxPending,    \* APPROVAL_PENDING_MAX
    MaxRequests,   \* requests_per_hour of the connection
    MaxHours,      \* bound: rate windows opened
    MaxPolicy,     \* bound: policies activated
    MaxLocks       \* bound: locks of the vault

Actor == Call \cup Signer
Rule == {RuleOf[k] : k \in Key}

ASSUME LocalCallsAssumption ==
    /\ Call \cap Signer = {}
    /\ {"free", "admin", "lock"} \cap Actor = {}
    /\ KeyOf \in [Actor -> Key]
    /\ Key # {} /\ NeedsApproval \subseteq Key
    /\ {KeyOf[c] : c \in Call} \cap {KeyOf[s] : s \in Signer} = {}
    /\ ExternalKey \subseteq {KeyOf[s] : s \in Signer}
    /\ MaxPending \in Nat \ {0} /\ MaxRequests \in Nat
    /\ MaxHours \in Nat /\ MaxPolicy \in Nat /\ MaxLocks \in Nat

VARIABLES
    approval,      \* LocalCalls.approvals, with the ids not or no longer in it
    lapsed,        \* approvals whose deadline or wall-clock expiry is past
    windows,       \* LocalCalls.windows
    windowLapsed,  \* window grants whose deadline is past
    rate,          \* LocalCalls.rates of the connection
    pc,            \* where each call or signature is
    read,          \* the policy each actor evaluated
    basis,         \* what authorizes the actor: an approval, a window or none
    slot,          \* LocalRateReservation.window_start
    policy,        \* the active policy
    phase,         \* BrokerPhase
    closed,        \* an audit failure or a fault has closed admission
    coordinator,   \* who holds the lifecycle coordinator
    decision,      \* the administrator's decision in progress
    evidence,      \* what the journal and the grants say of each approval
    started,       \* the basis of each durably started call or signature
    locks          \* locks of the vault so far

tableVars == <<approval, lapsed, windows, windowLapsed>>
actorVars == <<pc, read, basis, slot, started>>
runtimeVars == <<policy, phase, closed, coordinator, locks>>
adminVars == <<decision, evidence>>
vars == <<tableVars, rate, actorVars, runtimeVars, adminVars>>

Live == {"Pending", "Approved"}
LocalApprovalState == Live \cup {"Consumed", "Cancelled", "Expired"}
Entries == {a \in Approval : approval[a].state \in LocalApprovalState}

Basis ==
    [kind : {"none"}] \cup [kind : {"approval"}, id : Approval]
        \cup [kind : {"window"}, id : Approval, epoch : 0..MaxLocks]
None == [kind |-> "none"]
OneTime(a) == [kind |-> "approval", id |-> a]
Window(w) == [kind |-> "window", id |-> w.id, epoch |-> w.epoch]

ActorPc == {"idle", "awaiting", "waiting", "owner", "queued", "durable", "running", "done"}
Steps == {"none", "authorize", "window", "publish", "grant"}
NoDecision == [step |-> "none"]

\* Every field stays in its type: in particular the hourly count never exceeds
\* requests_per_hour (take_rate) and an actor is at one await point at a time.
TypeOK ==
    /\ approval \in [Approval -> [state : {"absent", "removed"} \cup LocalApprovalState,
                                  reserved : BOOLEAN, key : Key, policy : 0..MaxPolicy]]
    /\ lapsed \subseteq Approval /\ windowLapsed \subseteq Approval
    /\ windows \subseteq [policy : 0..MaxPolicy, rule : Rule, id : Approval, epoch : 0..MaxLocks]
    /\ rate \in [start : 0..MaxHours, count : 0..MaxRequests, elapsed : BOOLEAN]
    /\ pc \in [Actor -> ActorPc]
    /\ read \in [Actor -> 0..MaxPolicy]
    /\ basis \in [Actor -> Basis]
    /\ slot \in [Actor -> 0..MaxHours]
    /\ started \in [Actor -> Basis \cup {[kind |-> "not"]}]
    /\ policy \in 0..MaxPolicy
    /\ phase \in {"Locked", "Running", "Draining"}
    /\ closed \in BOOLEAN
    /\ coordinator \in {"free", "admin", "lock"} \cup Actor
    /\ decision \in {NoDecision} \cup
           [step : Steps, id : Approval, approve : BOOLEAN, window : BOOLEAN]
    /\ evidence \in [Approval -> SUBSET {"approved", "rejected", "window", "external",
                                         "unconfirmed"}]
    /\ locks \in 0..MaxLocks

Init ==
    /\ approval = [a \in Approval |-> [state |-> "absent", reserved |-> FALSE,
                                       key |-> CHOOSE k \in Key : TRUE, policy |-> 0]]
    /\ lapsed = {} /\ windows = {} /\ windowLapsed = {}
    /\ rate = [start |-> 0, count |-> 0, elapsed |-> FALSE]
    /\ pc = [c \in Actor |-> "idle"]
    /\ read = [c \in Actor |-> 0]
    /\ basis = [c \in Actor |-> None]
    /\ slot = [c \in Actor |-> 0]
    /\ started = [c \in Actor |-> [kind |-> "not"]]
    /\ policy = 0 /\ phase = "Running" /\ closed = FALSE
    /\ coordinator = "free" /\ decision = NoDecision
    /\ evidence = [a \in Approval |-> {}]
    /\ locks = 0

-----------------------------------------------------------------------------
(* LocalCalls *)

\* LocalCallApproval::refresh
Refreshed(a) ==
    IF a \in lapsed /\ approval[a].state \in Live
    THEN [approval[a] EXCEPT !.state = "Expired"]
    ELSE approval[a]

\* Any operation that looks an entry up refreshes it, whatever it answers.
Looked(a) == [approval EXCEPT ![a] = Refreshed(a)]

\* LocalCalls::clear, and the entries register discards
Discard(table, ids) ==
    [a \in Approval |->
        IF a \in ids THEN [table[a] EXCEPT !.state = "removed", !.reserved = FALSE]
        ELSE table[a]]

Clear ==
    /\ approval' = Discard(approval, Entries)
    /\ windows' = {}

AllRefreshed == [a \in Approval |-> Refreshed(a)]

\* register: the pending entry of the same request, if there is one.  Two
\* ssh requests never share an entry: the entry names their own correlation id.
SamePending(c) ==
    {a \in Entries : /\ c \in Call
                     /\ Refreshed(a).state = "Pending"
                     /\ approval[a].key = KeyOf[c]
                     /\ approval[a].policy = policy}

\* register: retain what is live, refuse at the limit, insert a fresh id
Registrable ==
    Cardinality({a \in Entries : Refreshed(a).state \in Live}) < MaxPending

Insert(c, a) ==
    /\ approval[a].state = "absent"
    /\ approval' = [Discard(AllRefreshed, {b \in Entries : Refreshed(b).state \notin Live})
                        EXCEPT ![a] = [state |-> "Pending", reserved |-> FALSE,
                                       key |-> KeyOf[c], policy |-> policy]]

\* LocalCalls::cancel_unconfirmed
CancelUnconfirmed(table, a) ==
    IF table[a].state \in LocalApprovalState
    THEN [table EXCEPT ![a].state = "Cancelled"]
    ELSE table

\* LocalCalls::window: unexpired, same policy and rule
WindowsFor(c) ==
    {w \in windows : /\ w.id \notin windowLapsed
                     /\ w.policy = policy
                     /\ w.rule = RuleOf[KeyOf[c]]}

\* reserve_approval and consume: the entry is approved for exactly this request
Matches(c, e) ==
    /\ e.key = KeyOf[c]
    /\ e.policy = policy
    /\ e.state = "Approved"

\* Mutant of Reservable: the reserved flag is not read.
ReservableTwice(e) == TRUE

\* reserve_approval: busy while another call holds the reservation
Reservable(e) == ~e.reserved

\* take_rate: the window in force, reopened once it has elapsed
CurrentRate ==
    IF rate.elapsed
    THEN [start |-> rate.start + 1, count |-> 0, elapsed |-> FALSE]
    ELSE rate

\* LocalRateReservation::drop returns a slot of the window it was taken from
RateReturned(c) ==
    IF rate.start = slot[c] /\ rate.count > 0
    THEN [rate EXCEPT !.count = @ - 1]
    ELSE rate

\* Mutant of Unreserved: a rollback approves the entry again.
UnreservedRevived(table, a) ==
    IF table[a].state \in LocalApprovalState
    THEN [table EXCEPT ![a] = [Refreshed(a) EXCEPT !.reserved = FALSE, !.state = "Approved"]]
    ELSE table

\* LocalApprovalReservation::drop
Unreserved(table, a) ==
    IF table[a].state \in LocalApprovalState
    THEN [table EXCEPT ![a] = [Refreshed(a) EXCEPT !.reserved = FALSE]]
    ELSE table

\* Mutant of Consumed: the entry is released but stays approved.
ConsumedUnmarked(table, a) ==
    IF table[a].state \in LocalApprovalState /\ table[a].reserved
    THEN [table EXCEPT ![a].reserved = FALSE]
    ELSE table

\* LocalApprovalReservation::commit: never re-creates what a clear removed
Consumed(table, a) ==
    IF table[a].state \in LocalApprovalState /\ table[a].reserved
    THEN [table EXCEPT ![a].state = "Consumed", ![a].reserved = FALSE]
    ELSE table

\* What a failed admission gives back: a call its reservation, a signature the
\* whole approval (PendingApproval::drop cancels it).
GiveBack(c) ==
    IF basis[c].kind # "approval" THEN approval
    ELSE IF c \in Call THEN Unreserved(approval, basis[c].id)
    ELSE CancelUnconfirmed(approval, basis[c].id)

Fail(c) ==
    /\ pc' = [pc EXCEPT ![c] = "idle"]
    /\ basis' = [basis EXCEPT ![c] = None]

-----------------------------------------------------------------------------
(* executor/local.rs: admit_connection *)

Begin(c) ==
    /\ pc[c] = "idle"
    /\ phase = "Running"
    /\ read' = [read EXCEPT ![c] = policy]

To(c, b) ==
    /\ pc' = [pc EXCEPT ![c] = "waiting"]
    /\ basis' = [basis EXCEPT ![c] = b]

\* The rule allows the request and no approval was presented.
AdmitAllowed(c) ==
    /\ Begin(c) /\ c \in Call
    /\ KeyOf[c] \notin NeedsApproval
    /\ To(c, None)
    /\ UNCHANGED <<tableVars, rate, slot, started, runtimeVars, adminVars>>

\* The caller presents an approval id: reserve it or be refused.
AdmitApproved(c, a) ==
    /\ Begin(c) /\ c \in Call
    /\ KeyOf[c] \in NeedsApproval
    /\ a \in Entries
    /\ \/ /\ Matches(c, Refreshed(a)) /\ Reservable(Refreshed(a))
          /\ approval' = [Looked(a) EXCEPT ![a].reserved = TRUE]
          /\ To(c, OneTime(a))
       \/ /\ ~(Matches(c, Refreshed(a)) /\ Reservable(Refreshed(a)))
          /\ approval' = Looked(a)
          /\ UNCHANGED <<pc, basis>>
    /\ UNCHANGED <<lapsed, windows, windowLapsed, rate, slot, started, runtimeVars, adminVars>>

\* No id: a window of the same rule and policy authorizes the call or signature.
AdmitWindow(c) ==
    /\ Begin(c)
    /\ KeyOf[c] \in NeedsApproval
    /\ \E w \in WindowsFor(c) : To(c, Window(w))
    /\ UNCHANGED <<tableVars, rate, slot, started, runtimeVars, adminVars>>

\* No id and no window: register a request for approval.  The call is answered
\* ApprovalRequired (or AuthorityBusy); a signature waits for the decision.
AdmitRegister(c) ==
    /\ Begin(c)
    /\ KeyOf[c] \in NeedsApproval
    /\ WindowsFor(c) = {}
    /\ \/ /\ SamePending(c) # {}
          /\ approval' = AllRefreshed
          /\ UNCHANGED <<pc, basis>>
       \/ /\ SamePending(c) = {} /\ ~Registrable
          /\ approval' = Discard(AllRefreshed, {b \in Entries : Refreshed(b).state \notin Live})
          /\ UNCHANGED <<pc, basis>>
       \/ /\ SamePending(c) = {} /\ Registrable
          /\ \E a \in Approval :
                /\ Insert(c, a)
                /\ IF c \in Call THEN UNCHANGED <<pc, basis>>
                   ELSE /\ pc' = [pc EXCEPT ![c] = "awaiting"]
                        /\ basis' = [basis EXCEPT ![c] = OneTime(a)]
    /\ UNCHANGED <<lapsed, windows, windowLapsed, rate, slot, started, runtimeVars, adminVars>>

\* Mutant of SignConsume: the state of the entry is not looked at.
SignConsumePending(s) ==
    /\ s \in Signer /\ pc[s] = "awaiting"
    /\ approval' = [approval EXCEPT ![basis[s].id].state = "Consumed"]
    /\ pc' = [pc EXCEPT ![s] = "waiting"]
    /\ UNCHANGED <<lapsed, windows, windowLapsed, rate, read, basis, slot, started,
                   runtimeVars, adminVars>>

\* ssh_agent.rs sign: the awaited approval is granted and consumed at once, or
\* the wait ends without it (refused, expired, peer closed, draining).
SignConsume(s) ==
    /\ s \in Signer /\ pc[s] = "awaiting"
    /\ LET a == basis[s].id
           e == Refreshed(a)
       IN  /\ e.key = KeyOf[s] /\ e.policy = read[s]
           /\ e.state = "Approved" /\ ~e.reserved
           /\ approval' = [approval EXCEPT ![a].state = "Consumed"]
    /\ pc' = [pc EXCEPT ![s] = "waiting"]
    /\ UNCHANGED <<lapsed, windows, windowLapsed, rate, read, basis, slot, started,
                   runtimeVars, adminVars>>

SignGiveUp(s) ==
    /\ s \in Signer /\ pc[s] = "awaiting"
    /\ approval' = GiveBack(s)
    /\ Fail(s)
    /\ UNCHANGED <<lapsed, windows, windowLapsed, rate, read, slot, started,
                   runtimeVars, adminVars>>

\* coordinate_until
Acquire(c) ==
    /\ pc[c] = "waiting" /\ coordinator = "free"
    /\ coordinator' = c
    /\ pc' = [pc EXCEPT ![c] = "owner"]
    /\ UNCHANGED <<tableVars, rate, read, basis, slot, started, policy, phase, closed, locks,
                   adminVars>>

AcquireTimeout(c) ==
    /\ pc[c] = "waiting" /\ coordinator # "free"
    /\ approval' = GiveBack(c)
    /\ Fail(c)
    /\ UNCHANGED <<lapsed, windows, windowLapsed, rate, read, slot, started,
                   runtimeVars, adminVars>>

\* LocalApprovalReservation::validate, under the coordinator
Valid(c) ==
    basis[c].kind = "approval" /\ c \in Call =>
        LET e == Refreshed(basis[c].id)
        IN  e.reserved /\ e.state = "Approved"

\* Phase, policy identity, the reservation and the gate, in that order; then
\* the rate, which only a Connection call takes.
Admissible(c) ==
    /\ phase = "Running"
    /\ policy = read[c]
    /\ Valid(c)
    /\ ~closed
    /\ c \in Call => CurrentRate.count < MaxRequests

Submit(c) ==
    /\ pc[c] = "owner" /\ Admissible(c)
    /\ IF c \in Call
       THEN /\ rate' = [CurrentRate EXCEPT !.count = @ + 1]
            /\ slot' = [slot EXCEPT ![c] = CurrentRate.start]
       ELSE UNCHANGED <<rate, slot>>
    /\ pc' = [pc EXCEPT ![c] = "queued"]
    /\ UNCHANGED <<tableVars, read, basis, started, runtimeVars, adminVars>>

Refuse(c) ==
    /\ pc[c] = "owner" /\ ~Admissible(c)
    /\ approval' = GiveBack(c)
    /\ Fail(c)
    /\ coordinator' = "free"
    /\ UNCHANGED <<lapsed, windows, windowLapsed, rate, read, slot, started,
                   policy, phase, closed, locks, adminVars>>

-----------------------------------------------------------------------------
(* audit.rs worker and Authority *)

\* A Connection call's started event is committed only before the deadlines
\* of its approval or window; a signature carries its request's deadline.
InTime(c) ==
    c \in Call =>
        CASE basis[c].kind = "approval" -> basis[c].id \notin lapsed
          [] basis[c].kind = "window" -> basis[c].id \notin windowLapsed
          [] OTHER -> TRUE

DurableStart(c) ==
    /\ pc[c] = "queued" /\ InTime(c)
    /\ started' = [started EXCEPT ![c] = basis[c]]
    /\ pc' = [pc EXCEPT ![c] = "durable"]
    /\ UNCHANGED <<tableVars, rate, read, basis, slot, runtimeVars, adminVars>>

\* ConnectionAdmission::commit and the reply that frees the coordinator
CommitAdmission(c) ==
    /\ pc[c] = "durable"
    /\ approval' = IF c \in Call /\ basis[c].kind = "approval"
                   THEN Consumed(approval, basis[c].id)
                   ELSE approval
    /\ pc' = [pc EXCEPT ![c] = "running"]
    /\ coordinator' = "free"
    /\ UNCHANGED <<lapsed, windows, windowLapsed, rate, read, basis, slot, started,
                   policy, phase, closed, locks, adminVars>>

\* The commit is refused (deadline, budget) or fails: the admission is dropped
\* before the answer; a failure that is not "busy" closes admission.  A
\* signature has handed its approval over (pending.id = None).
RejectStart(c) ==
    /\ pc[c] = "queued"
    /\ approval' = IF c \in Call THEN GiveBack(c) ELSE approval
    /\ rate' = IF c \in Call THEN RateReturned(c) ELSE rate
    /\ closed' \in {closed, TRUE}
    /\ Fail(c)
    /\ coordinator' = "free"
    /\ UNCHANGED <<lapsed, windows, windowLapsed, read, slot, started, policy, phase, locks,
                   adminVars>>

\* The execution ends and its permit is returned.
Finish(c) ==
    /\ pc[c] = "running"
    /\ pc' = [pc EXCEPT ![c] = "done"]
    /\ UNCHANGED <<tableVars, rate, read, basis, slot, started, runtimeVars, adminVars>>

-----------------------------------------------------------------------------
(* ipc/admin.rs: the administrator's decision, under the coordinator *)

\* connection_approval_decision up to the authority call
DecideBegin(a, approve, window) ==
    /\ coordinator = "free" /\ phase = "Running"
    /\ a \in Entries
    /\ window => approve
    /\ approval' = Looked(a)
    /\ approval[a].key \notin ExternalKey
    /\ IF Refreshed(a).state = "Pending" /\ approval[a].policy = policy
       THEN /\ coordinator' = "admin"
            /\ decision' = [step |-> "authorize", id |-> a, approve |-> approve,
                            window |-> window]
       ELSE UNCHANGED <<coordinator, decision>>
    /\ UNCHANGED <<lapsed, windows, windowLapsed, rate, actorVars, policy, phase, closed, locks,
                   evidence>>

Record(a, what) == evidence' = [evidence EXCEPT ![a] = @ \cup what]

DecideEnd ==
    /\ decision' = NoDecision
    /\ coordinator' = "free"

Undecided == UNCHANGED <<lapsed, windows, windowLapsed, rate, actorVars, policy, phase, locks>>

\* authorize_local_approval_with: proof and durable record, before the deadline
Authorized ==
    /\ decision.step = "authorize"
    /\ decision.id \notin lapsed
    /\ Record(decision.id, {IF decision.approve THEN "approved" ELSE "rejected"})
    /\ decision' = [decision EXCEPT !.step = IF decision.window THEN "window" ELSE "publish"]
    /\ UNCHANGED <<approval, coordinator, closed>> /\ Undecided

\* AuthorityBusy: the outcome is unknown, the request is cancelled.
AuthorizeUnconfirmed ==
    /\ decision.step = "authorize"
    /\ \E durable \in {{}, {IF decision.approve THEN "approved" ELSE "rejected"}} :
          Record(decision.id, durable \cup {"unconfirmed"})
    /\ approval' = CancelUnconfirmed(approval, decision.id)
    /\ DecideEnd
    /\ UNCHANGED closed /\ Undecided

\* Any other error: the entry stays pending.
AuthorizeRefused ==
    /\ decision.step = "authorize"
    /\ DecideEnd
    /\ UNCHANGED <<approval, closed, evidence>> /\ Undecided

WindowAudited ==
    /\ decision.step = "window"
    /\ Record(decision.id, {"window"})
    /\ decision' = [decision EXCEPT !.step = "publish"]
    /\ UNCHANGED <<approval, coordinator, closed>> /\ Undecided

\* request_fault: the daemon is on its way out with everything cleared.
WindowAuditFailed ==
    /\ decision.step = "window"
    /\ Record(decision.id, {"unconfirmed"})
    /\ approval' = Discard(CancelUnconfirmed(approval, decision.id), Entries)
    /\ windows' = {}
    /\ closed' = TRUE
    /\ DecideEnd
    /\ UNCHANGED <<lapsed, windowLapsed, rate, actorVars, policy, phase, locks>>

\* The publication: decide, only on a request still pending and in time.  It
\* also fails when the administrator's own deadline has passed.
Publish ==
    /\ decision.step = "publish"
    /\ LET a == decision.id IN
       \/ /\ Refreshed(a).state = "Pending"
          /\ approval' = [approval EXCEPT ![a].state =
                              IF decision.approve THEN "Approved" ELSE "Cancelled"]
          /\ IF decision.window
             THEN decision' = [decision EXCEPT !.step = "grant"] /\ UNCHANGED coordinator
             ELSE DecideEnd
          /\ UNCHANGED evidence
       \/ /\ approval' = CancelUnconfirmed(approval, a)
          /\ Record(a, {"unconfirmed"})
          /\ DecideEnd
    /\ UNCHANGED closed /\ Undecided

\* grant_window replaces the window of the same policy and rule.
GrantWindow ==
    /\ decision.step = "grant"
    /\ LET a == decision.id
           w == [policy |-> approval[a].policy, rule |-> RuleOf[approval[a].key],
                 id |-> a, epoch |-> locks]
       IN  windows' = {v \in windows : v.policy # w.policy \/ v.rule # w.rule} \cup {w}
    /\ DecideEnd
    /\ UNCHANGED <<approval, lapsed, windowLapsed, rate, actorVars, policy, phase, closed, locks,
                   evidence>>

\* The policy lock is contended: the request just approved is cancelled.
GrantWindowFailed ==
    /\ decision.step = "grant"
    /\ approval' = CancelUnconfirmed(approval, decision.id)
    /\ Record(decision.id, {"unconfirmed"})
    /\ DecideEnd
    /\ UNCHANGED closed /\ Undecided

\* APPROVAL_EXTERNAL_SUBMIT: signed grants for an ssh request
ApproveExternal(a) ==
    /\ coordinator = "free" /\ phase = "Running"
    /\ a \in Entries
    /\ approval[a].policy = policy
    /\ approval[a].key \in ExternalKey
    /\ Refreshed(a).state = "Pending"
    /\ approval' = [approval EXCEPT ![a].state = "Approved"]
    /\ Record(a, {"external"})
    /\ UNCHANGED <<lapsed, windows, windowLapsed, rate, actorVars, runtimeVars, decision>>

\* LocalCalls::cancel by the requesting caller: pending requests only
Cancel(a) ==
    /\ a \in Entries
    /\ approval' = IF Refreshed(a).state = "Pending"
                   THEN [approval EXCEPT ![a].state = "Cancelled"]
                   ELSE Looked(a)
    /\ UNCHANGED <<lapsed, windows, windowLapsed, rate, actorVars, runtimeVars, adminVars>>

-----------------------------------------------------------------------------
(* The rest of the broker, by what it does to this state *)

LockBegin ==
    /\ coordinator = "free" /\ phase = "Running" /\ locks < MaxLocks
    /\ coordinator' = "lock"
    /\ phase' = "Draining"
    /\ locks' = locks + 1
    /\ Clear
    /\ UNCHANGED <<lapsed, windowLapsed, rate, actorVars, policy, closed, adminVars>>

LockEnd ==
    /\ coordinator = "lock"
    /\ \A c \in Actor : pc[c] \notin {"queued", "durable", "running"}
    /\ phase' = "Locked"
    /\ coordinator' = "free"
    /\ UNCHANGED <<tableVars, rate, actorVars, policy, closed, locks, adminVars>>

\* unlock_with_desktop reloads the persisted policy.
Unlock ==
    /\ coordinator = "free" /\ phase = "Locked" /\ ~closed
    /\ phase' = "Running"
    /\ UNCHANGED <<tableVars, rate, actorVars, policy, closed, coordinator, locks, adminVars>>

ActivatePolicy ==
    /\ coordinator = "free" /\ phase = "Running" /\ policy < MaxPolicy
    /\ policy' = policy + 1
    /\ UNCHANGED <<tableVars, rate, actorVars, phase, closed, coordinator, locks, adminVars>>

\* close_fault_admission and request_fault do not wait for the coordinator.
Fault ==
    /\ ~closed
    /\ closed' = TRUE
    /\ Clear
    /\ UNCHANGED <<lapsed, windowLapsed, rate, actorVars, policy, phase, coordinator, locks,
                   adminVars>>

\* Time: deadlines pass, the hour ends.
Lapse(a) ==
    /\ a \in Entries \ lapsed
    /\ lapsed' = lapsed \cup {a}
    /\ UNCHANGED <<approval, windows, windowLapsed, rate, actorVars, runtimeVars, adminVars>>

LapseWindow(w) ==
    /\ w.id \notin windowLapsed
    /\ windowLapsed' = windowLapsed \cup {w.id}
    /\ UNCHANGED <<approval, lapsed, windows, rate, actorVars, runtimeVars, adminVars>>

HourPasses ==
    /\ ~rate.elapsed /\ rate.start < MaxHours
    /\ rate' = [rate EXCEPT !.elapsed = TRUE]
    /\ UNCHANGED <<tableVars, actorVars, runtimeVars, adminVars>>

Admission(c) ==
    \/ AdmitAllowed(c) \/ AdmitWindow(c) \/ AdmitRegister(c)
    \/ \E a \in Approval : AdmitApproved(c, a)
    \/ SignConsume(c) \/ SignGiveUp(c)
    \/ Acquire(c) \/ AcquireTimeout(c) \/ Submit(c) \/ Refuse(c)

Execution(c) ==
    DurableStart(c) \/ CommitAdmission(c) \/ RejectStart(c) \/ Finish(c)

Decision ==
    \/ \E a \in Approval, approve, window \in BOOLEAN : DecideBegin(a, approve, window)
    \/ Authorized \/ AuthorizeUnconfirmed \/ AuthorizeRefused
    \/ WindowAudited \/ WindowAuditFailed
    \/ Publish \/ GrantWindow \/ GrantWindowFailed
    \/ \E a \in Approval : ApproveExternal(a) \/ Cancel(a)

Environment ==
    \/ LockBegin \/ LockEnd \/ Unlock \/ ActivatePolicy \/ Fault \/ HourPasses
    \/ \E a \in Approval : Lapse(a)
    \/ \E w \in windows : LapseWindow(w)

Next ==
    \/ \E c \in Actor : Admission(c) \/ Execution(c)
    \/ Decision
    \/ Environment

Spec == Init /\ [][Next]_vars

-----------------------------------------------------------------------------
(* Properties *)

\* A one-time approval starts at most one Connection call or signature, however
\* the retries of the caller interleave with reservations, rejections, clears
\* and the audit worker (reserve_approval, consume, LocalApprovalReservation).
ApprovalUsedOnce ==
    \A c, d \in Actor :
        started[c].kind = "approval" /\ started[c] = started[d] => c = d

\* A reserved entry belongs to exactly one call that is still on its way: the
\* flag never outlives the LocalApprovalReservation that set it, and no other
\* call holds that reservation.
ReservationsOwned ==
    \A a \in Approval :
        LET holders == {c \in Call : /\ basis[c] = OneTime(a)
                                    /\ pc[c] \in {"waiting", "owner", "queued", "durable"}}
        IN  /\ Cardinality(holders) <= 1
            /\ approval[a].reserved => holders # {}

\* The hourly count is exactly the calls of the window in force that are
\* started or still may be: a rejected call returns its own slot and never one
\* of a later window (LocalRateReservation::drop).
RateExact ==
    rate.count = Cardinality({c \in Call : /\ pc[c] \in {"queued", "durable", "running", "done"}
                                           /\ slot[c] = rate.start})

\* What starts under an approval or a window was granted by a durable record
\* or by signed external grants, and the journal never says it was rejected.
StartsAreGranted ==
    \A c \in Actor :
        /\ started[c].kind = "approval" =>
               /\ evidence[started[c].id] \cap {"approved", "external"} # {}
               /\ "rejected" \notin evidence[started[c].id]
        /\ started[c].kind = "window" =>
               {"approved", "window"} \subseteq evidence[started[c].id]

\* No Connection call starts under an approval whose decision the administrator
\* was told is unconfirmed (ApprovalOutcomeUnconfirmed), although the approval
\* may have been published and reserved before the publication failed.
UnconfirmedNeverStarts ==
    \A c \in Call :
        started[c].kind \in {"approval", "window"} =>
            "unconfirmed" \notin evidence[started[c].id]

\* The table never holds more than APPROVAL_PENDING_MAX live requests, nor two
\* pending ones for the same call and policy, so one question is asked once.
PendingBounded ==
    /\ Cardinality({a \in Approval : approval[a].state \in Live}) <= MaxPending
    /\ \A a, b \in Entries :
          /\ Refreshed(a).state = "Pending" /\ Refreshed(b).state = "Pending"
          /\ approval[a].key = approval[b].key /\ approval[a].policy = approval[b].policy
          /\ \E c \in Call : approval[a].key = KeyOf[c]
          => a = b

\* An expired, cancelled, consumed or cleared approval never becomes pending or
\* approved again, whatever reservation is dropped or decision published late.
NoRevival ==
    [][\A a \in Approval :
          approval[a].state \notin Live \cup {"absent"} => approval'[a].state \notin Live]_vars

\* docs/user-guide.md:216: locking ends the local authorizations and approval
\* windows at once.  A call that starts under a window starts in the unlocked
\* period that granted it.
WindowEndsWithLock ==
    \A c \in Actor :
        pc[c] = "durable" /\ started[c].kind = "window" => started[c].epoch = locks

=============================================================================
