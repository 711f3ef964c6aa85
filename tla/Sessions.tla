------------------------------ MODULE Sessions ------------------------------
(***************************************************************************)
(* rekey-broker/src/session.rs and session/approval.rs: the capability     *)
(* session registry, with the callers that create sessions (ipc/admin.rs,  *)
(* runtime/profile.rs, runtime/workload.rs), spend them (executor.rs,      *)
(* executor/approval.rs) and decide their approvals (ipc/admin.rs,         *)
(* ipc/agent.rs).                                                          *)
(*                                                                         *)
(* Every registry operation runs under the registry mutex and is one step; *)
(* what happens between two operations of one caller is an await.  Time is *)
(* abstracted to what the two clocks say.  The wall clock may be set back: *)
(* wall is 0 before a challenge was created, 1 while everything is valid,  *)
(* 2 once signed grants are past their expiry and 3 once challenges and    *)
(* sessions are.  The monotonic clock only advances: late holds the        *)
(* sessions and challenges whose monotonic deadline is past.               *)
(***************************************************************************)
EXTENDS Naturals, FiniteSets

CONSTANTS
    Session,       \* session ids, each drawn once by random_id
    Exec,          \* agent requests; each may run again
    Challenge,     \* approval request ids
    Approver,      \* the Ed25519 approvers of the policy rule
    Key,           \* the tuple a challenge is bound to: action, parameters, rule
    Profile,       \* the sessions created for a Profile
    Workload,      \* the sessions with provenance Workload
    Need,          \* Key -> "none", "local" or "signed": the policy's decision
    MaxUses,       \* SessionGrant.max_uses
    MaxConcurrent, \* SESSION_MAX_CONCURRENT_EXECUTIONS
    OwnerLimit,    \* CONTROL_OWNER_LIMIT
    PendingMax,    \* APPROVAL_PENDING_MAX
    Threshold,     \* ApproverSpec::Ed25519.threshold
    GrantUses,     \* max_uses of a signed grant
    MaxReopen      \* bound: lock and unlock cycles

SessionsAssumption ==
    /\ Session # {} /\ Key # {}
    /\ \A s \in Session, c \in Challenge, a \in Approver : s # <<c, a>>
    /\ Profile \subseteq Session /\ Workload \subseteq Session \ Profile
    /\ Need \in [Key -> {"none", "local", "signed"}]
    /\ "free" \notin Exec /\ "admin" \notin Exec
    /\ IsFiniteSet(Approver)
    /\ MaxUses \in Nat \ {0} /\ MaxConcurrent \in Nat \ {0}
    /\ OwnerLimit \in Nat /\ PendingMax \in Nat
    /\ Threshold \in 1..2 /\ GrantUses \in Nat \ {0} /\ MaxReopen \in Nat

VARIABLES
    closed,        \* Inner.closed
    entry,         \* Inner.entries, with the sessions not or no longer in it
    challenge,     \* the entries' approval_challenges
    uses,          \* approval_uses: how often each approver's grant was used
    expired,       \* expired_approvals: grants refused as expired
    guard,         \* the Profile sessions whose ProfileSessionGuard is alive
    exec,          \* each request: where it is, its session, key and challenge
    coordinator,   \* who holds the lifecycle coordinator
    decision,      \* the administrator's decision awaiting the Authority
    wall, late,    \* the clocks
    effects,       \* history: effects handed off under each session
    starts,        \* history: executions admitted on each challenge
    refused,       \* history: sessions and grants reported expired
    reopened       \* unlocks so far

registryVars == <<closed, entry, challenge, uses, expired, guard>>
clockVars == <<wall, late>>
history == <<effects, starts, refused>>
vars == <<registryVars, exec, coordinator, decision, clockVars, history, reopened>>

Live == {"Pending", "Approved"}
ExecPc == {"idle", "evaluating", "publishing", "approved", "admitted", "closing"}
Idle == [pc |-> "idle"]

\* The requests that hold an ExecutionPermit of session s
Permits(s) == {e \in Exec : exec[e].pc # "idle" /\ exec[e].session = s}

\* Every field stays in its type; uses_left never exceeds max_uses although a
\* local wait returns its use (refund_local_wait).
TypeOK ==
    /\ closed \in BOOLEAN
    /\ entry \in [Session -> [state : {"none", "minted", "live", "gone"}, uses : 0..MaxUses,
                              inFlight : 0..MaxConcurrent, revoked : BOOLEAN,
                              exhausted : BOOLEAN]]
    /\ challenge \in [Challenge ->
           [state : {"none", "Consumed", "Cancelled", "Expired"} \cup Live,
            session : Session, key : Key, local : BOOLEAN]]
    /\ uses \in [Challenge \X Approver -> Nat]
    /\ expired \subseteq Challenge \X Approver
    /\ guard \subseteq Profile
    /\ exec \in [Exec -> {Idle} \cup [pc : ExecPc \ {"idle"}, session : Session, key : Key,
                                      refunded : BOOLEAN, wanted : SUBSET Challenge]]
    /\ coordinator \in {"free", "admin"} \cup Exec
    /\ decision \in SUBSET [id : Challenge, approve : BOOLEAN]
    /\ wall \in 0..3 /\ late \subseteq Session \cup Challenge
    /\ effects \in [Session -> Nat] /\ starts \in [Challenge -> Nat]
    /\ refused \subseteq Session \cup (Challenge \X Approver)
    /\ reopened \in 0..MaxReopen

Init ==
    /\ closed = TRUE
    /\ entry = [s \in Session |-> [state |-> "none", uses |-> MaxUses, inFlight |-> 0,
                                   revoked |-> FALSE, exhausted |-> FALSE]]
    /\ challenge = [c \in Challenge |-> [state |-> "none", session |-> CHOOSE s \in Session : TRUE,
                                         key |-> CHOOSE k \in Key : TRUE, local |-> FALSE]]
    /\ uses = [g \in Challenge \X Approver |-> 0] /\ expired = {} /\ guard = {}
    /\ exec = [e \in Exec |-> Idle]
    /\ coordinator = "free" /\ decision = {}
    /\ wall = 1 /\ late = {}
    /\ effects = [s \in Session |-> 0] /\ starts = [c \in Challenge |-> 0] /\ refused = {}
    /\ reopened = 0

-----------------------------------------------------------------------------
(* The registry *)

Present(s) == entry[s].state \in {"minted", "live"}
Held(s) == {c \in Challenge : challenge[c].state # "none" /\ challenge[c].session = s}
Expires(s) == wall = 3 \/ s \in late

\* compact_entries: what a registry keeps of its entries
Retained(ent, s) ==
    \/ ent[s].inFlight > 0
    \/ /\ ~ent[s].revoked /\ s \notin late
       /\ ~ent[s].exhausted \/ s \in Profile \/ \E c \in Held(s) : challenge[c].local

Compact(ent) ==
    [s \in Session |-> IF ent[s].state \in {"minted", "live"} /\ ~Retained(ent, s)
                       THEN [ent[s] EXCEPT !.state = "gone"] ELSE ent[s]]

\* revoke, revoke_all, revoke_workload, revoke_by_actions, revoke_principal
Revoked(ids) ==
    Compact([s \in Session |-> IF s \in ids /\ Present(s) THEN [entry[s] EXCEPT !.revoked = TRUE]
                               ELSE entry[s]])

\* ExecutionPermit::drop calls finish
Finished(s) ==
    Compact([entry EXCEPT ![s].inFlight = IF @ = 0 THEN 0 ELSE @ - 1])

\* A control owner is held by its guard and by every permit of its session.
Owners == {s \in Profile : s \in guard \/ Permits(s) # {}}

\* admit_inner: insert an entry; its token is not delivered yet
Admit(s) ==
    /\ entry[s].state = "none" /\ ~closed /\ wall = 1
    /\ s \in Profile => Cardinality(Owners) < OwnerLimit
    /\ entry' = [Compact(entry) EXCEPT ![s].state = "minted"]
    /\ guard' = IF s \in Profile THEN guard \cup {s} ELSE guard
    /\ UNCHANGED <<closed, challenge, uses, expired, exec, coordinator, decision, clockVars,
                   history, reopened>>

\* SESSION_CREATED is durable and the token is delivered, or the session is revoked.
Deliver(s) ==
    /\ entry[s].state = "minted"
    /\ \/ entry' = [entry EXCEPT ![s].state = "live"] /\ guard' = guard
       \/ entry' = Revoked({s}) /\ guard' = guard \ {s}
    /\ UNCHANGED <<closed, challenge, uses, expired, exec, coordinator, decision, clockVars,
                   history, reopened>>

\* The administrator revokes a session, or its actions are disabled.
Revoke(s) ==
    /\ Present(s) /\ ~entry[s].revoked
    /\ entry' = Revoked({s})
    /\ UNCHANGED <<closed, challenge, uses, expired, guard, exec, coordinator, decision,
                   clockVars, history, reopened>>

\* A policy change that ends workload trust revokes every workload session.
RevokeWorkload ==
    /\ \E s \in Workload : Present(s) /\ ~entry[s].revoked
    /\ entry' = Revoked(Workload)
    /\ UNCHANGED <<closed, challenge, uses, expired, guard, exec, coordinator, decision,
                   clockVars, history, reopened>>

\* The Profile connection ends: ProfileSessionGuard::drop revokes before the
\* control owner is released.
DropGuard(s) ==
    /\ s \in guard
    /\ entry' = Revoked({s})
    /\ guard' = guard \ {s}
    /\ UNCHANGED <<closed, challenge, uses, expired, exec, coordinator, decision, clockVars,
                   history, reopened>>

\* Drain, fault and shutdown: close_and_revoke_all
CloseAndRevokeAll ==
    /\ ~closed
    /\ closed' = TRUE
    /\ entry' = Revoked(Session)
    /\ UNCHANGED <<challenge, uses, expired, guard, exec, coordinator, decision, clockVars,
                   history, reopened>>

\* The next unlock: open_for_admission.  Entries still in flight stay revoked.
OpenForAdmission ==
    /\ closed /\ reopened < MaxReopen
    /\ closed' = FALSE /\ reopened' = reopened + 1
    /\ UNCHANGED <<entry, challenge, uses, expired, guard, exec, coordinator, decision,
                   clockVars, history>>

\* wait_revoked, by the Profile connection or a running execution, notices the
\* expiry of its session.
WaitRevoked(s) ==
    /\ s \in guard \/ Permits(s) # {}
    /\ Present(s) /\ ~entry[s].revoked /\ Expires(s)
    /\ entry' = [entry EXCEPT ![s].revoked = TRUE]
    /\ refused' = refused \cup {s}
    /\ UNCHANGED <<closed, challenge, uses, expired, guard, exec, coordinator, decision,
                   clockVars, effects, starts, reopened>>

-----------------------------------------------------------------------------
(* An execution *)

To(e, pc) == exec' = [exec EXCEPT ![e].pc = pc]

\* begin: the checks that a token passes, in order
Usable(s) == /\ ~entry[s].revoked /\ ~Expires(s)
             /\ entry[s].uses > 0
             /\ entry[s].inFlight < MaxConcurrent
             /\ s \in Profile => s \in Owners

Acquire(e, s, k, wanted) ==
    /\ exec[e] = Idle
    /\ entry[s].state = "live" /\ Usable(s)
    /\ Need[k] = "none" => wanted = {}
    /\ entry' = [entry EXCEPT ![s].uses = @ - 1, ![s].inFlight = @ + 1,
                              ![s].exhausted = entry[s].uses = 1]
    /\ exec' = [exec EXCEPT ![e] = [pc |-> "evaluating", session |-> s, key |-> k,
                                    refunded |-> FALSE, wanted |-> wanted]]
    /\ UNCHANGED <<closed, challenge, uses, expired, guard, coordinator, decision, clockVars,
                   history, reopened>>

\* begin, inventory_live and local_state_for_owner latch an expiry they see.
BeginExpired(e, s) ==
    /\ exec[e] = Idle /\ entry[s].state = "live" /\ ~entry[s].revoked /\ Expires(s)
    /\ entry' = [entry EXCEPT ![s].revoked = TRUE]
    /\ refused' = refused \cup {s}
    /\ UNCHANGED <<closed, challenge, uses, expired, guard, exec, coordinator, decision,
                   clockVars, effects, starts, reopened>>

\* evaluate_request answers Allow: no approval is needed.
Allowed(e) ==
    /\ exec[e].pc = "evaluating" /\ Need[exec[e].key] = "none"
    /\ To(e, "admitted")
    /\ UNCHANGED <<registryVars, coordinator, decision, clockVars, history, reopened>>

\* Any refusal or timeout before the start is durable ends the request.
GiveUp(e) ==
    /\ exec[e].pc \in {"evaluating", "publishing", "approved", "admitted"}
    /\ To(e, "closing")
    /\ coordinator' = IF coordinator = e THEN "free" ELSE coordinator
    /\ UNCHANGED <<registryVars, decision, clockVars, history, reopened>>

\* Mutant of Handoff: the registry lock is taken, the revocation is not looked at.
HandoffBlind(e) ==
    LET s == exec[e].session IN
    /\ exec[e].pc = "admitted"
    /\ ~closed /\ Present(s) /\ entry[s].inFlight > 0 /\ ~Expires(s)
    /\ effects' = [effects EXCEPT ![s] = @ + 1]
    /\ To(e, "closing")
    /\ UNCHANGED <<registryVars, coordinator, decision, clockVars, starts, refused, reopened>>

\* with_live_handoff: the effect starts while the registry is locked.
Handoff(e) ==
    LET s == exec[e].session IN
    /\ exec[e].pc = "admitted"
    /\ ~closed /\ Present(s) /\ ~entry[s].revoked /\ entry[s].inFlight > 0 /\ ~Expires(s)
    /\ effects' = [effects EXCEPT ![s] = @ + 1]
    /\ To(e, "closing")
    /\ UNCHANGED <<registryVars, coordinator, decision, clockVars, starts, refused, reopened>>

Finish(e) ==
    /\ exec[e].pc = "closing"
    /\ entry' = Finished(exec[e].session)
    /\ exec' = [exec EXCEPT ![e] = Idle]
    /\ UNCHANGED <<closed, challenge, uses, expired, guard, coordinator, decision, clockVars,
                   history, reopened>>

-----------------------------------------------------------------------------
(* Challenges *)

\* refresh_local, challenge_is_pending and validate_challenge latch an expiry
\* they see, so that a clock set back cannot revive a challenge.
TimedOut(c) == wall = 3 \/ c \in late \/ (challenge[c].local /\ wall = 0)
Lapsed(c) == challenge[c].state \in Live /\ TimedOut(c)
Refreshed(ids) ==
    [c \in Challenge |-> IF c \in ids /\ Lapsed(c) THEN [challenge[c] EXCEPT !.state = "Expired"]
                         ELSE challenge[c]]

\* pending_count, after it has latched the expired signed challenges.  A local
\* record counts whatever its state.
Counted(ch) ==
    {c \in Challenge : /\ ch[c].state # "none"
                       /\ Present(ch[c].session) /\ ~entry[ch[c].session].revoked
                       /\ ch[c].local \/ ch[c].state = "Pending"}
Listed == Refreshed({c \in Challenge : /\ Present(challenge[c].session)
                                       /\ ~entry[challenge[c].session].revoked
                                       /\ ~challenge[c].local})

Stored(ch, c, e, loc) ==
    [ch EXCEPT ![c] = [state |-> "Pending", session |-> exec[e].session,
                       key |-> exec[e].key, local |-> loc]]

\* prepare_approval of a signed rule: store_approval_challenge.  The use that
\* acquire reserved is spent.
StoreChallenge(e, c) ==
    LET s == exec[e].session IN
    /\ exec[e].pc = "evaluating" /\ Need[exec[e].key] = "signed" /\ exec[e].wanted = {}
    /\ challenge[c].state = "none" /\ wall = 1
    /\ ~entry[s].revoked /\ entry[s].inFlight > 0
    /\ Cardinality(Counted(Listed)) < PendingMax
    /\ entry' = Compact(entry)
    /\ challenge' = Stored(Listed, c, e, FALSE)
    /\ To(e, "closing")
    /\ UNCHANGED <<closed, uses, expired, guard, coordinator, decision, clockVars, history,
                   reopened>>

\* The entry and the challenge that a reservation finds
Reservable(e, c) ==
    LET s == exec[e].session IN
    /\ Present(s) /\ ~entry[s].revoked /\ entry[s].inFlight > 0
    /\ challenge[c].state # "none"
    /\ challenge[c].session = s /\ challenge[c].key = exec[e].key

Unspent(c, a) == <<c, a>> \notin expired /\ uses[<<c, a>>] < GrantUses

CountUses(c, quorum) ==
    [g \in Challenge \X Approver |->
        IF g[1] = c /\ g[2] \in quorum THEN uses[g] + 1 ELSE uses[g]]

\* reserve_approvals succeeds: a quorum of distinct approvers, none of whose
\* grants is expired or used up.
ReserveApprovals(e, c, quorum) ==
    /\ exec[e].pc = "evaluating" /\ Need[exec[e].key] = "signed" /\ exec[e].wanted = {c}
    /\ Reservable(e, c) /\ challenge[c].state # "Expired"
    /\ wall \in {0, 1} /\ c \notin late
    /\ Cardinality(quorum) \in Threshold..2
    /\ \A a \in quorum : Unspent(c, a)
    /\ uses' = CountUses(c, quorum)
    /\ challenge' = [challenge EXCEPT ![c].state = "Consumed"]
    /\ starts' = [starts EXCEPT ![c] = @ + 1]
    /\ To(e, "admitted")
    /\ UNCHANGED <<closed, entry, expired, guard, coordinator, decision, clockVars, effects,
                   refused, reopened>>

\* reserve_approvals meets an expired grant and remembers it.
ReserveExpired(e, c, a) ==
    /\ exec[e].pc = "evaluating" /\ Need[exec[e].key] = "signed" /\ exec[e].wanted = {c}
    /\ Reservable(e, c) /\ challenge[c].state # "Expired" /\ wall = 2 /\ c \notin late
    /\ expired' = expired \cup {<<c, a>>}
    /\ refused' = refused \cup {<<c, a>>}
    /\ To(e, "closing")
    /\ UNCHANGED <<closed, entry, challenge, uses, guard, coordinator, decision, clockVars,
                   effects, starts, reopened>>

\* reserve_approvals or consume_local meets a challenge past its expiry.
ReserveLapsed(e, c) ==
    /\ exec[e].pc \in {"evaluating", "approved"} /\ exec[e].wanted = {c}
    /\ Need[exec[e].key] # "none" /\ Reservable(e, c)
    /\ Need[exec[e].key] = "local" => coordinator = "free"
    /\ wall = 3 \/ c \in late
    /\ challenge' = [challenge EXCEPT ![c].state = "Expired"]
    /\ To(e, "closing")
    /\ UNCHANGED <<closed, entry, uses, expired, guard, coordinator, decision, clockVars,
                   history, reopened>>

-----------------------------------------------------------------------------
(* Local approvals, decided by the person at the machine *)

Matching(e) ==
    {c \in Held(exec[e].session) : /\ challenge[c].local /\ challenge[c].key = exec[e].key
                                   /\ exec[e].wanted = {} \/ c \in exec[e].wanted}

\* refund_local_wait returns the use that acquire reserved, once.
Refund(e) ==
    /\ ~exec[e].refunded
    /\ entry' = [entry EXCEPT ![exec[e].session].uses = @ + 1,
                              ![exec[e].session].exhausted = FALSE]

\* ensure_local_approval finds a live record of the same request.  A request
\* that has to wait gets its use back; one whose approval was given keeps it
\* and goes on to consume the approval.
AwaitLocal(e, c) ==
    LET fresh == Refreshed({c})
        waits == exec[e].wanted = {} \/ fresh[c].state = "Pending"
    IN
    /\ exec[e].pc = "evaluating" /\ Need[exec[e].key] = "local" /\ coordinator = "free"
    /\ ~closed /\ ~entry[exec[e].session].revoked /\ c \in Matching(e)
    /\ fresh[c].state \in Live
    /\ challenge' = fresh
    /\ IF waits THEN Refund(e) ELSE entry' = entry
    /\ exec' = [exec EXCEPT ![e].refunded = waits,
                            ![e].pc = IF waits THEN "closing" ELSE "approved"]
    /\ UNCHANGED <<closed, uses, expired, guard, coordinator, decision, clockVars, history,
                   reopened>>

\* ensure_local_approval finds none: it keeps the coordinator over the await
\* that makes APPROVAL_REQUESTED durable.
RequestLocal(e) ==
    LET mine == Matching(e) IN
    /\ exec[e].pc = "evaluating" /\ Need[exec[e].key] = "local" /\ exec[e].wanted = {}
    /\ coordinator = "free"
    /\ ~closed /\ ~entry[exec[e].session].revoked
    /\ \A c \in mine : Refreshed(mine)[c].state \notin Live
    /\ Cardinality(Counted(Refreshed(mine))) < PendingMax
    /\ challenge' = Refreshed(mine)
    /\ entry' = Compact(entry)
    /\ coordinator' = e
    /\ To(e, "publishing")
    /\ UNCHANGED <<closed, uses, expired, guard, decision, clockVars, history, reopened>>

\* publish_local_pending
PublishLocal(e, c) ==
    LET s == exec[e].session IN
    /\ exec[e].pc = "publishing" /\ challenge[c].state = "none" /\ wall = 1
    /\ ~closed /\ ~entry[s].revoked /\ entry[s].inFlight > 0
    /\ Cardinality(Counted(Listed)) < PendingMax
    /\ challenge' = Stored(Listed, c, e, TRUE)
    /\ Refund(e)
    /\ exec' = [exec EXCEPT ![e].refunded = TRUE, ![e].pc = "closing"]
    /\ coordinator' = "free"
    /\ UNCHANGED <<closed, uses, expired, guard, decision, clockVars, history, reopened>>

\* commit_local_started: consume_local and the durable start, under the coordinator
ConsumeLocal(e, c) ==
    /\ exec[e].pc = "approved" /\ exec[e].wanted = {c} /\ coordinator = "free"
    /\ ~closed /\ Reservable(e, c)
    /\ challenge[c].state = "Approved" /\ ~TimedOut(c)
    /\ challenge' = [challenge EXCEPT ![c].state = "Consumed"]
    /\ starts' = [starts EXCEPT ![c] = @ + 1]
    /\ To(e, "admitted")
    /\ UNCHANGED <<closed, entry, uses, expired, guard, coordinator, decision, clockVars,
                   effects, refused, reopened>>

\* local_stored: the record a decision finds
Decidable(c) ==
    LET s == challenge[c].session IN
    /\ challenge[c].state # "none" /\ challenge[c].local
    /\ ~closed /\ Present(s) /\ ~entry[s].revoked /\ s \notin late

\* local_approval_decision asks the Authority to make the decision durable.
DecideBegin(c, approve) ==
    /\ coordinator = "free" /\ Decidable(c)
    /\ Refreshed({c})[c].state = "Pending"
        \/ (~approve /\ Refreshed({c})[c].state = "Approved")
    /\ challenge' = Refreshed({c})
    /\ coordinator' = "admin"
    /\ decision' = {[id |-> c, approve |-> approve]}
    /\ UNCHANGED <<closed, entry, uses, expired, guard, exec, clockVars, history, reopened>>

\* The decision is durable and still in time: decide_local publishes it.
DecidePublish ==
    \E d \in decision :
        /\ Decidable(d.id) /\ ~TimedOut(d.id)
        /\ challenge[d.id].state = "Pending" \/ ~d.approve
        /\ challenge' = [challenge EXCEPT ![d.id].state =
               IF @ \in Live THEN IF d.approve THEN "Approved" ELSE "Cancelled" ELSE @]
        /\ coordinator' = "free" /\ decision' = {}
        /\ UNCHANGED <<closed, entry, uses, expired, guard, exec, clockVars, history, reopened>>

\* The Authority's answer is unknown or too late: cancel_local_unconfirmed.
DecideUnconfirmed ==
    \E d \in decision :
        /\ challenge' = [challenge EXCEPT ![d.id].state =
               IF @ \in Live /\ Present(challenge[d.id].session) THEN "Cancelled" ELSE @]
        /\ coordinator' = "free" /\ decision' = {}
        /\ UNCHANGED <<closed, entry, uses, expired, guard, exec, clockVars, history, reopened>>

\* The Authority refuses the proof: nothing changes.
DecideRefused ==
    /\ decision # {}
    /\ coordinator' = "free" /\ decision' = {}
    /\ UNCHANGED <<registryVars, exec, clockVars, history, reopened>>

\* CANCEL_APPROVAL from the agent that owns the session
CancelApproval(c) ==
    /\ coordinator = "free" /\ Decidable(c) /\ wall # 3
    /\ entry[challenge[c].session].state = "live"
    /\ Refreshed({c})[c].state \in Live
    /\ challenge' = [challenge EXCEPT ![c].state = "Cancelled"]
    /\ UNCHANGED <<closed, entry, uses, expired, guard, exec, coordinator, decision, clockVars,
                   history, reopened>>

-----------------------------------------------------------------------------
(* The clocks *)

SetWall(w) ==
    /\ w # wall /\ wall' = w
    /\ UNCHANGED <<registryVars, exec, coordinator, decision, late, history, reopened>>

\* A local challenge's deadline is capped by its session's.
Late(x) ==
    /\ x \notin late
    /\ \/ x \in Session /\ Present(x)
       \/ x \in Challenge /\ challenge[x].state # "none"
    /\ late' = late \cup {x} \cup {c \in Challenge : challenge[c].state # "none"
                                      /\ challenge[c].local /\ challenge[c].session = x}
    /\ UNCHANGED <<registryVars, exec, coordinator, decision, wall, history, reopened>>

Tick == \/ \E w \in 0..3 : SetWall(w)
        \/ \E x \in Session \cup Challenge : Late(x)

Registry ==
    \/ \E s \in Session : Admit(s) \/ Deliver(s) \/ Revoke(s) \/ WaitRevoked(s) \/ DropGuard(s)
    \/ RevokeWorkload \/ CloseAndRevokeAll \/ OpenForAdmission

Execution(e) ==
    \/ \E s \in Session, k \in Key, w \in {{}} \cup {{c} : c \in Challenge} : Acquire(e, s, k, w)
    \/ \E s \in Session : BeginExpired(e, s)
    \/ Allowed(e) \/ GiveUp(e) \/ Handoff(e) \/ Finish(e) \/ RequestLocal(e)
    \/ \E c \in Challenge :
          \/ StoreChallenge(e, c) \/ ReserveLapsed(e, c)
          \/ AwaitLocal(e, c) \/ PublishLocal(e, c) \/ ConsumeLocal(e, c)
          \/ \E a \in Approver : ReserveExpired(e, c, a)
          \/ \E q \in SUBSET Approver : ReserveApprovals(e, c, q)

Decisions ==
    \/ \E c \in Challenge : CancelApproval(c) \/ \E b \in BOOLEAN : DecideBegin(c, b)
    \/ DecidePublish \/ DecideUnconfirmed \/ DecideRefused

Next == Registry \/ (\E e \in Exec : Execution(e)) \/ Decisions \/ Tick

Spec == Init /\ [][Next]_vars

-----------------------------------------------------------------------------
(* Properties *)

\* A Profile connection that has closed keeps its control slot until its last
\* execution ends: connections and their executions together stay within
\* CONTROL_OWNER_LIMIT (reserve_control_owner, begin).
ControlsBounded ==
    Cardinality({s \in Profile : s \in guard \/ Permits(s) # {}}) <= OwnerLimit

\* The concurrency slots an entry counts are exactly the permits alive, and no
\* entry is compacted away under a running execution (begin, finish,
\* compact_entries).
InFlightExact ==
    \A s \in Session : /\ entry[s].inFlight = Cardinality(Permits(s))
                       /\ entry[s].inFlight > 0 => Present(s)

\* Every use is accounted for: the uses left, those of running requests and
\* those handed off never exceed max_uses, although a request that waits for a
\* local approval returns the use it reserved and its session may be used
\* again meanwhile (begin, refund_local_wait, with_live_handoff).
UsesConserved ==
    \A s \in Session :
        entry[s].uses + effects[s]
            + Cardinality({e \in Permits(s) : ~exec[e].refunded /\ exec[e].pc # "closing"})
            <= MaxUses

\* A revoked session, or one that has left the registry, never starts an
\* effect again, not even after the next unlock (revoke, close_and_revoke_all,
\* ProfileSessionGuard::drop against with_live_handoff).
RevokedNeverActs ==
    \A s \in Session : entry[s].revoked \/ entry[s].state = "gone"
          => effects'[s] = effects[s] /\ (entry'[s].revoked \/ entry'[s].state = "gone")

\* A session that was reported expired starts no effect later, even when the
\* wall clock is set back (begin, inventory_live, wait_revoked).
ExpiryIsFinal == \A s \in refused \cap Session : effects'[s] = effects[s]

\* A signed grant that was refused as expired is never accepted later, even
\* when the wall clock is set back (expired_approvals).
ExpiredGrantIsFinal ==
    \A g \in refused \cap (Challenge \X Approver) : uses'[g] = uses[g]

\* A local approval starts one execution, and a signed one no more than its
\* approvers' grants allow when every start takes a quorum (consume_local,
\* reserve_approvals).
StartsWithinApproval ==
    \A c \in Challenge :
        starts[c] <= IF challenge[c].local THEN 1
                     ELSE (Cardinality(Approver) * GrantUses) \div Threshold

\* Two requests for the same thing share one open local approval: the person
\* is not asked twice (local_for_execution and publish_local_pending).
OneLivePerRequest ==
    \A c, d \in Challenge :
        /\ challenge[c].local /\ challenge[d].local
        /\ challenge[c].state \in Live /\ challenge[d].state \in Live
        /\ challenge[c].session = challenge[d].session /\ challenge[c].key = challenge[d].key
        => c = d \/ Lapsed(c) \/ Lapsed(d) \/ wall = 0

\* The approval records of the sessions in use never exceed
\* APPROVAL_PENDING_MAX, although the capacity is checked before an await.
RecordsBounded == Cardinality(Counted(challenge)) <= PendingMax

\* An open local approval is lost only with its session: an exhausted session
\* is kept for it (compact_entries).
OpenApprovalKept ==
    \A c \in Challenge :
        /\ challenge[c].local /\ challenge[c].state \in Live
        /\ entry[challenge[c].session].state = "gone"
        => entry[challenge[c].session].revoked \/ challenge[c].session \in late

\* A decision whose outcome the Authority did not confirm in time never leaves
\* an approval usable: what is published is the person's last decision while
\* the challenge was open (local_approval_decision).
NoLateApproval ==
    \A c \in Challenge :
          challenge[c].state # "Approved" /\ challenge'[c].state = "Approved"
          => challenge[c].state = "Pending" /\ ~TimedOut(c) /\ ~closed
             /\ ~entry[challenge[c].session].revoked

=============================================================================
