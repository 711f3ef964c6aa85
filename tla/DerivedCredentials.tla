-------------------------- MODULE DerivedCredentials --------------------------
(***************************************************************************)
(* runtime/derived.rs and derived.rs: a caller asks for a temporary        *)
(* credential of a signed target.  The request is admitted under the       *)
(* coordinator, the provider issues while the policy, the gate and the     *)
(* caller may change, and the body leaves only after its rows are written. *)
(*                                                                         *)
(* One signed grant per policy.  The table of approvals is LocalCalls' and *)
(* the way of a submitted terminal row to the disk is Broker's.            *)
(***************************************************************************)
EXTENDS Naturals, FiniteSets

CONSTANTS
    Req,            \* requests; the approval a request registers has its name
    Caller,         \* [Req -> callers]
    MaxPolicy,      \* bound: policies activated
    Effect,         \* [policies -> effects]
    Target,         \* [policies -> kinds of target]
    Expires,        \* [policies -> the time a policy ends]
    Ttl,            \* [policies -> the signed lifetime]
    Short, Long,    \* the shortest and the longest lifetime of any target
    Wait,           \* a request's own time limit
    Second,         \* milliseconds of a second
    Sub,            \* the provider's units in a millisecond
    MaxNow          \* bound: time

Policies == 1..MaxPolicy
Kind == {"aws", "eks", "github"}
None == "none"

\* validate_ttl
TtlValid(kind, ttl) ==
    CASE kind = "aws" -> ttl \in Short..Long
      [] kind = "eks" -> ttl = Short
      [] kind = "github" -> ttl = Long

ASSUME DerivedAssumption ==
    /\ None \notin Req /\ MaxPolicy \in Nat \ {0}
    /\ Effect \in [Policies -> {"allow", "approve", "deny"}]
    /\ Target \in [Policies -> Kind] /\ Expires \in [Policies -> Nat]
    /\ Short \in Nat /\ Long \in Nat
    /\ \A p \in Policies : TtlValid(Target[p], Ttl[p])
    /\ Wait \in Nat /\ MaxNow \in Nat
    /\ Second \in Nat \ {0} /\ Sub \in Nat \ {0}

VARIABLES
    policy, gate, owner, now,
    ended,          \* policies whose time is over by the wall clock
    approval,       \* [Req -> the approval registered under that name]
    pc,
    req,            \* what the handler of a request keeps
    rows,           \* its rows in the journal
    terminal,       \* the terminal row it has submitted
    remote,         \* whether a credential of it exists, for reference
    delivered       \* requests whose body has left

world == <<policy, gate, now, ended>>
vars == <<world, owner, approval, pc, req, rows, terminal, remote, delivered>>

NoApproval == [state |-> "none", caller |-> None, policy |-> 0]
NoRequest == [policy |-> 0, accepted |-> None, deadline |-> 0, begun |-> 0,
              at |-> 0, expires |-> 0, scope |-> "signed"]

Init ==
    /\ policy = 1 /\ gate = "running" /\ owner = None /\ now = 0 /\ ended = {}
    /\ approval = [r \in Req |-> NoApproval]
    /\ pc = [r \in Req |-> "new"] /\ req = [r \in Req |-> NoRequest]
    /\ rows = [r \in Req |-> {}] /\ terminal = [r \in Req |-> None]
    /\ remote = {} /\ delivered = {}

Running == gate = "running"
\* ~ActivePolicy::is_expired: neither the time counted from the activation nor the
\* wall clock, which may be set, has reached the end; once expired, always.
Live(p) == now < Expires[p] /\ p \notin ended
Go(r, where) == pc' = [pc EXCEPT ![r] = where]
Row(r, names) == rows' = [rows EXCEPT ![r] = @ \cup names]
Free(r) == owner' = IF owner = r THEN None ELSE owner
\* The request is over; its guard submits the terminal unless one was.
End(r, last) ==
    /\ Go(r, "ended") /\ Free(r)
    /\ terminal' = [terminal EXCEPT ![r] = IF @ = None THEN last ELSE @]

(***************************************************************************)
(* derive_credential: the decision                                         *)
(***************************************************************************)
\* An approval of the same request that still waits is shared.
Waiting(r) == {a \in Req : /\ approval[a].state = "pending"
                           /\ approval[a].caller = Caller[r]
                           /\ approval[a].policy = req[r].policy}

Consumable(r, id, p) ==
    /\ approval[id].state = "approved"
    /\ approval[id].caller = Caller[r] /\ approval[id].policy = p

\* With or without (None) the name of an approval.
Begin(r, id) ==
    /\ pc[r] = "new"
    /\ req' = [req EXCEPT ![r].policy = policy, ![r].accepted = id,
                          ![r].deadline = IF now + Wait < Expires[policy]
                                          THEN now + Wait ELSE Expires[policy]]
    /\ LET effect == Effect[policy]
           consumed == effect = "approve" /\ id # None /\ Consumable(r, id, policy)
           open == Running /\ Live(policy)
       IN  /\ Go(r, IF ~open THEN "ended"
                    ELSE IF (effect = "allow" /\ id = None) \/ consumed THEN "admitting"
                    ELSE IF effect = "approve" /\ id = None THEN "asking" ELSE "ended")
           /\ approval' = IF open /\ consumed
                          THEN [approval EXCEPT ![id].state = "consumed"] ELSE approval
           /\ IF open /\ effect = "deny" THEN Row(r, {"blocked"}) ELSE UNCHANGED rows
    /\ UNCHANGED <<world, owner, terminal, remote, delivered>>

\* register, and the row of a new approval.
Ask(r) ==
    /\ pc[r] = "asking"
    /\ Go(r, "ended")
    /\ IF Waiting(r) = {}
       THEN /\ approval' = [approval EXCEPT ![r] = [state |-> "pending", caller |-> Caller[r],
                                                    policy |-> req[r].policy]]
            /\ Row(r, {"requested"})
       ELSE UNCHANGED <<approval, rows>>
    /\ UNCHANGED <<world, owner, req, terminal, remote, delivered>>

\* LOCAL_APPROVE and LOCAL_REJECT, by the person at the machine (LocalCalls).
Decide(a, state) ==
    /\ approval[a].state = "pending"
    /\ approval' = [approval EXCEPT ![a].state = state]
    /\ UNCHANGED <<world, owner, pc, req, rows, terminal, remote, delivered>>

(***************************************************************************)
(* Admission under the coordinator                                         *)
(***************************************************************************)
Admissible(r) == Running /\ policy = req[r].policy /\ Live(policy)

TakeOwner(r) ==
    /\ pc[r] = "admitting" /\ owner = None /\ now < req[r].deadline
    /\ IF Admissible(r) THEN owner' = r /\ Go(r, "committing")
       ELSE Go(r, "ended") /\ UNCHANGED owner
    /\ UNCHANGED <<world, approval, req, rows, terminal, remote, delivered>>

OwnerTooLate(r) ==
    /\ pc[r] = "admitting" /\ now >= req[r].deadline
    /\ Go(r, "ended")
    /\ UNCHANGED <<world, owner, approval, req, rows, terminal, remote, delivered>>

\* commit_started: the accepted approval and the start, in one commit.
CommitStarted(r) ==
    /\ pc[r] = "committing" /\ now < req[r].deadline /\ Live(req[r].policy)
    /\ Row(r, {"started"} \cup IF req[r].accepted = None THEN {} ELSE {"accepted"})
    /\ Go(r, "started") /\ Free(r)
    /\ UNCHANGED <<world, approval, req, terminal, remote, delivered>>

CommitFails(r) ==
    /\ pc[r] = "committing"
    /\ Go(r, "ended") /\ Free(r)
    /\ UNCHANGED <<world, approval, req, rows, terminal, remote, delivered>>

\* try_begin_remote_effect, after the look at the cancellation.
BeginEffect(r) ==
    /\ pc[r] = "started"
    /\ IF Running THEN /\ Go(r, "issuing") /\ req' = [req EXCEPT ![r].begun = now]
                       /\ UNCHANGED <<owner, terminal>>
       ELSE End(r, "blocked") /\ UNCHANGED req
    /\ UNCHANGED <<world, approval, rows, remote, delivered>>

(***************************************************************************)
(* issue                                                                   *)
(***************************************************************************)
\* AwsRoot::parse, GitHubRoot::parse, and the target's own conditions on the root;
\* only the network targets go to the provider.
PrepareRoot(r, usable) ==
    /\ pc[r] = "issuing" /\ Target[req[r].policy] # "eks"
    /\ IF usable /\ Running THEN Go(r, "sent") /\ UNCHANGED <<owner, terminal>>
       ELSE End(r, "indeterminate")
    /\ UNCHANGED <<world, approval, req, rows, remote, delivered>>

\* expiry: in whole milliseconds, rounded up.
Expiry(units) == (units + Sub - 1) \div Sub
InTime(units, ttl) == units > now * Sub /\ units <= (now + ttl) * Sub

\* The provider's answer: its status and form, its expiry, its scope as signed
\* (github only lists one), and none of the root's material in it.
AnswerFine(a, ttl) == a.ok /\ InTime(a.units, ttl) /\ ~a.root /\ a.scope = "signed"

Answers == [ok : BOOLEAN, units : 0..(MaxNow + Long) * Sub + 1, scope : {"signed", "other"}, root : BOOLEAN]

\* The provider issues and its answer arrives.
Respond(r, a) ==
    /\ pc[r] = "sent" /\ now < req[r].deadline
    /\ a.scope = "other" => Target[req[r].policy] = "github"
    /\ remote' = IF a.ok THEN remote \cup {r} ELSE remote
    /\ IF AnswerFine(a, Ttl[req[r].policy])
       THEN /\ Go(r, "issued")
            /\ req' = [req EXCEPT ![r].expires = Expiry(a.units), ![r].at = now,
                                  ![r].scope = a.scope]
            /\ UNCHANGED <<owner, terminal>>
       ELSE End(r, "indeterminate") /\ UNCHANGED req
    /\ UNCHANGED <<world, approval, rows, delivered>>

\* KubernetesEks: a token made here, from the time the issue began.
Presign(r, usable) ==
    /\ pc[r] = "issuing" /\ Target[req[r].policy] = "eks"
    /\ IF usable /\ Running
       THEN /\ Go(r, "issued") /\ remote' = remote \cup {r}
            /\ req' = [req EXCEPT ![r].expires = (req[r].begun \div Second) * Second + Short, ![r].at = now]
            /\ UNCHANGED <<owner, terminal>>
       ELSE End(r, "indeterminate") /\ UNCHANGED <<req, remote>>
    /\ UNCHANGED <<world, approval, rows, delivered>>

\* The transport failed or the time is over; the provider may have issued.
IssueFails(r, issued) ==
    /\ pc[r] \in {"issuing", "sent"}
    /\ pc[r] = "issuing" => ~issued /\ now >= req[r].deadline
    /\ remote' = IF issued THEN remote \cup {r} ELSE remote
    /\ End(r, "indeterminate")
    /\ UNCHANGED <<world, approval, req, rows, delivered>>

(***************************************************************************)
(* Delivery                                                                *)
(***************************************************************************)

Deliverable(r) == Running /\ policy = req[r].policy

\* The coordinator again, and under it the gate and the policy again.
TakeDelivery(r) ==
    /\ pc[r] = "issued" /\ owner = None /\ now < req[r].deadline
    /\ IF Deliverable(r) THEN owner' = r /\ Go(r, "recording") /\ UNCHANGED terminal
       ELSE End(r, "indeterminate")
    /\ UNCHANGED <<world, approval, req, rows, remote, delivered>>

DeliveryTooLate(r) ==
    /\ pc[r] = "issued" /\ now >= req[r].deadline
    /\ End(r, "indeterminate")
    /\ UNCHANGED <<world, approval, req, rows, remote, delivered>>

\* The row of the issued credential, then the terminal row is submitted.
RecordIssued(r) ==
    /\ pc[r] = "recording"
    /\ Row(r, {"issued"})
    /\ terminal' = [terminal EXCEPT ![r] = "finished"]
    /\ Go(r, "finishing")
    /\ UNCHANGED <<world, owner, approval, req, remote, delivered>>

RecordFails(r) ==
    /\ pc[r] = "recording"
    /\ End(r, "indeterminate")
    /\ UNCHANGED <<world, approval, req, rows, remote, delivered>>

\* Mutant: the answer does not wait for the terminal row.
FinishEarly(r) ==
    /\ pc[r] = "finishing"
    /\ delivered' = delivered \cup {r}
    /\ Go(r, "ended") /\ Free(r)
    /\ UNCHANGED <<world, approval, req, rows, terminal, remote>>

\* finished_until: the terminal row is on disk before the deadline.
Finish(r) ==
    /\ pc[r] = "finishing" /\ now < req[r].deadline
    /\ Row(r, {"finished"})
    /\ delivered' = delivered \cup {r}
    /\ Go(r, "ended") /\ Free(r)
    /\ UNCHANGED <<world, approval, req, terminal, remote>>

FinishFails(r) ==
    /\ pc[r] = "finishing"
    /\ Go(r, "ended") /\ Free(r)
    /\ UNCHANGED <<world, approval, req, rows, terminal, remote, delivered>>

\* Mutant: a guard that is dropped calls everything blocked.
DroppedBlocked(r) == "blocked"

\* Drop for StartedAuditGuard
Dropped(r) == IF pc[r] = "started" THEN "blocked" ELSE "indeterminate"

\* The drain is seen, or the caller's connection ends; the guard is dropped.
Abandon(r) ==
    /\ pc[r] \in {"started", "issuing", "sent", "issued", "recording", "finishing"}
    /\ End(r, Dropped(r))
    /\ UNCHANGED <<world, approval, req, rows, remote, delivered>>

(***************************************************************************)
(* The world                                                               *)
(***************************************************************************)
Activate ==
    /\ owner = None /\ Running /\ policy < MaxPolicy
    /\ policy' = policy + 1
    /\ UNCHANGED <<gate, now, ended, owner, approval, pc, req, rows, terminal, remote, delivered>>

Drain ==
    /\ Running
    /\ gate' = "draining"
    /\ UNCHANGED <<policy, now, ended, owner, approval, pc, req, rows, terminal, remote, delivered>>

\* The wall clock passes the end of the active policy ahead of its time.
ClockSet ==
    /\ policy \notin ended
    /\ ended' = ended \cup {policy}
    /\ UNCHANGED <<policy, gate, now, owner, approval, pc, req, rows, terminal, remote, delivered>>

Tick ==
    /\ now < MaxNow
    /\ now' = now + 1
    /\ UNCHANGED <<policy, gate, ended, owner, approval, pc, req, rows, terminal, remote, delivered>>

Request(r) ==
    \/ \E id \in Req \cup {None} : Begin(r, id)
    \/ Ask(r)
    \/ TakeOwner(r) \/ OwnerTooLate(r)
    \/ CommitStarted(r) \/ CommitFails(r)
    \/ BeginEffect(r)
    \/ \E usable \in BOOLEAN : PrepareRoot(r, usable) \/ Presign(r, usable)
    \/ \E a \in Answers : Respond(r, a)
    \/ \E issued \in BOOLEAN : IssueFails(r, issued)
    \/ TakeDelivery(r) \/ DeliveryTooLate(r)
    \/ RecordIssued(r) \/ RecordFails(r)
    \/ Finish(r) \/ FinishFails(r)
    \/ Abandon(r)

Next ==
    \/ \E r \in Req : Request(r)
    \/ \E a \in Req : \E state \in {"approved", "denied"} : Decide(a, state)
    \/ Activate \/ Drain \/ ClockSet \/ Tick

Over == \A r \in Req : pc[r] = "ended"
Idle == Over /\ now = MaxNow /\ UNCHANGED vars
Spec == Init /\ [][Next \/ Idle]_vars

(***************************************************************************)
(* Properties                                                              *)
(***************************************************************************)
\* The types; a request's approval is one that was registered, and the holder of
\* the coordinator is between its checks and its commit.
TypeOK ==
    /\ policy \in Policies /\ gate \in {"running", "draining"} /\ now \in 0..MaxNow
    /\ ended \subseteq Policies
    /\ owner \in Req \cup {None}
    /\ \A r \in Req : (owner = r) <=> pc[r] \in {"committing", "recording", "finishing"}
    /\ approval \in [Req -> [state : {"none", "pending", "approved", "denied", "consumed"},
                             caller : {Caller[r] : r \in Req} \cup {None}, policy : 0..MaxPolicy]]
    /\ terminal \in [Req -> {None, "blocked", "indeterminate", "finished"}]
    /\ rows \in [Req -> SUBSET {"blocked", "requested", "accepted", "started", "issued", "finished"}]

\* A body leaves derive_credential only for a request whose start, issue and finish
\* are all in the journal, and with the accepted approval where the policy that
\* admitted it asks for one.
DeliveredIsJournaled ==
    \A r \in delivered :
        /\ {"started", "issued", "finished"} \subseteq rows[r]
        /\ Effect[req[r].policy] = "approve" => "accepted" \in rows[r]
        /\ Effect[req[r].policy] # "deny"

\* A request that may have left a credential at the provider never ends in the
\* journal as blocked, or with no terminal row, whatever ended it.
IssuedIsNotBlocked ==
    \A r \in remote : pc[r] = "ended" => terminal[r] \in {"indeterminate", "finished"}

\* An approval starts one request of its own caller, under the policy it was
\* given for.
ApprovalUsedOnce ==
    LET users(a) == {r \in Req : "started" \in rows[r] /\ req[r].accepted = a}
    IN  \A a \in Req : /\ Cardinality(users(a)) <= 1
                       /\ \A r \in users(a) : /\ approval[a].caller = Caller[r]
                                              /\ approval[a].policy = req[r].policy

\* What issue returns is alive, or was when it was made, ends within the signed
\* lifetime of that moment even after rounding, and has the signed scope.
IssuedAsSigned ==
    \A r \in Req : pc[r] \in {"issued", "recording", "finishing"} =>
        /\ req[r].expires <= req[r].at + Ttl[req[r].policy]
        /\ Target[req[r].policy] # "eks" => req[r].expires > req[r].at
        /\ req[r].scope = "signed"

\* A body leaves only under the policy that admitted its request, and before the
\* end of that policy as counted from its activation.  (The delivery compares the
\* digest and keeps the deadline; it does not ask is_expired, so a wall clock that
\* has passed the end meanwhile does not keep the body back.)
DeliveredUnderItsPolicy ==
    \A r \in Req : r \in delivered' \ delivered =>
        policy = req[r].policy /\ now < Expires[policy]

===============================================================================
