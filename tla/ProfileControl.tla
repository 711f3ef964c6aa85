--------------------------- MODULE ProfileControl ---------------------------
(***************************************************************************)
(* ipc/admin/profile.rs, ipc/owner.rs and profile_create_until of          *)
(* runtime/profile.rs: one control connection mints one Profile session    *)
(* and owns it.  The session lives as long as the process that asked for   *)
(* it, its connection and the broker do; the token is written only after   *)
(* the session's row is on disk, and the session is taken back before its  *)
(* second row is.                                                          *)
(*                                                                         *)
(* A step is what runs between two awaits.  The peer, the clocks, other    *)
(* administrators and the stop signal move at any moment.                  *)
(***************************************************************************)
EXTENDS Naturals, FiniteSets

CONSTANTS
    Control,       \* control connections
    Confirm,       \* those whose Profile has confirm_each_run
    OwnerLimit,    \* CONTROL_OWNER_LIMIT
    MaxPolicy      \* bound: policy activations

ProfileControlAssumption ==
    /\ Confirm \subseteq Control /\ "free" \notin Control
    /\ OwnerLimit \in Nat \ {0} /\ MaxPolicy \in Nat

VARIABLES
    phase,         \* "running", "locked" or "stopped": the gate and the registry
    shutdown,      \* the shutdown watch has changed
    faulted,       \* request_fault was called
    policy,        \* number of the active policy
    expired,       \* the active policy is past its expiry
    bound,         \* the Profile's actions are current and of the released form
    coordinator,   \* the connection that holds the lifecycle coordinator
    peer,          \* each connection's process and socket: "here" or "gone"
    pc,            \* where its task is
    connected,     \* the task has not yet seen its peer go
    late,          \* the mutation deadline has passed
    seen,          \* the policy the creation captured
    session,       \* "none", "live" or "revoked"
    aged,          \* the session is past its expiry
    row,           \* rows on disk: "none", "created" or "ended"
    told           \* the token was written to the peer

envVars == <<phase, shutdown, faulted, policy, expired, bound>>
taskVars == <<pc, connected, seen, row, told>>
vars == <<envVars, coordinator, peer, taskVars, late, session, aged>>

\* Inside profile_create_until, with the coordinator.
Creating == {"proof", "actions", "status", "journal", "undo"}
Holding == {"write", "hold"}
States == {"idle", "coordinate", "error", "revoke", "done"} \cup Creating \cup Holding

Init ==
    /\ phase = "running" /\ shutdown = FALSE /\ faulted = FALSE
    /\ policy = 0 /\ expired = FALSE /\ bound = TRUE
    /\ coordinator = "free"
    /\ peer = [c \in Control |-> "here"]
    /\ pc = [c \in Control |-> "idle"]
    /\ connected = [c \in Control |-> TRUE]
    /\ late = [c \in Control |-> FALSE]
    /\ seen = [c \in Control |-> 0]
    /\ session = [c \in Control |-> "none"]
    /\ aged = [c \in Control |-> FALSE]
    /\ row = [c \in Control |-> "none"]
    /\ told = [c \in Control |-> FALSE]

Goto(c, where) == pc' = [pc EXCEPT ![c] = where]

(***************************************************************************)
(* The registry.                                                           *)
(***************************************************************************)
Revoked(set) ==
    [c \in Control |-> IF c \in set /\ session[c] = "live" THEN "revoked" ELSE session[c]]

Owners == {c \in Control : pc[c] \notin {"idle", "done"}}

\* ctx.sessions.reserve_control_owner, then PeerProcess::from_peer: a process
\* already gone, or of another user, is never watched.
Connect(c) ==
    /\ pc[c] = "idle"
    /\ Goto(c, IF Cardinality(Owners) < OwnerLimit /\ peer[c] = "here"
               THEN "coordinate" ELSE "done")
    /\ UNCHANGED <<envVars, coordinator, peer, connected, late, seen, session, aged,
                   row, told>>

(***************************************************************************)
(* profile_create_until.                                                   *)
(***************************************************************************)
CheckLive(c) == connected[c] /\ phase = "running" /\ ~late[c] /\ ~expired

\* The creation returns an error: the coordinator is dropped with it.
Fail(c) ==
    /\ Goto(c, "error")
    /\ coordinator' = "free"
    /\ UNCHANGED <<envVars, peer, connected, late, seen, session, aged, row, told>>

Advance(c, where) ==
    /\ Goto(c, where)
    /\ UNCHANGED <<envVars, coordinator, peer, connected, late, seen, session, aged,
                   row, told>>

\* coordinate_until gives up at the deadline; active_profile and the first
\* check follow without an await in between.
Coordinate(c) ==
    /\ pc[c] = "coordinate"
    /\ \/ /\ coordinator = "free"
          /\ CheckLive(c)
          /\ coordinator' = c
          /\ seen' = [seen EXCEPT ![c] = policy]
          /\ Goto(c, IF c \in Confirm THEN "proof" ELSE "actions")
          /\ UNCHANGED <<envVars, peer, connected, late, session, aged, row, told>>
       \/ /\ coordinator = "free"
          /\ ~CheckLive(c)
          /\ Fail(c)
       \/ /\ late[c]
          /\ Goto(c, "error")
          /\ UNCHANGED <<envVars, coordinator, peer, connected, late, seen, session,
                         aged, row, told>>

\* authority.verify_proof.
Proof(c) ==
    /\ pc[c] = "proof"
    /\ \/ CheckLive(c) /\ Advance(c, "actions")
       \/ Fail(c)

\* action_list, then validate_profiles and require_supported_profile on what it
\* returned.
Actions(c) ==
    /\ pc[c] = "actions"
    /\ \/ CheckLive(c) /\ bound /\ Advance(c, "status")
       \/ Fail(c)

\* authority.status, the last check, and the session is in the registry, owned
\* by its guard.  A closed registry refuses it.
AdmitProfile(c) ==
    /\ pc[c] = "status"
    /\ \/ /\ CheckLive(c)
          /\ session' = [session EXCEPT ![c] = "live"]
          /\ Goto(c, "journal")
          /\ UNCHANGED <<envVars, coordinator, peer, connected, late, seen, aged, row,
                         told>>
       \/ Fail(c)

\* request_fault: every admission is closed and every session revoked.
Fault ==
    /\ faulted' = TRUE
    /\ phase' = "stopped"
    /\ session' = Revoked(Control)

\* The created row fails: the guard is dropped and the broker faulted.  The
\* failure does not say whether the row is on disk.
JournalFails(c) ==
    /\ pc[c] = "journal"
    /\ Fault
    /\ \E on \in {"none", "created"} : row' = [row EXCEPT ![c] = on]
    /\ Goto(c, "error")
    /\ coordinator' = "free"
    /\ UNCHANGED <<shutdown, policy, expired, bound, peer, connected, late, seen, aged,
                   told>>

\* The created row is on disk.  Everything is checked once more; the session is
\* handed to the task, or taken back before its second row is asked for.
JournalOk(c) ==
    /\ pc[c] = "journal"
    /\ row' = [row EXCEPT ![c] = "created"]
    /\ IF CheckLive(c) /\ ~aged[c]
       THEN /\ Goto(c, "write")
            /\ coordinator' = "free"
            /\ UNCHANGED session
       ELSE /\ Goto(c, "undo")
            /\ session' = Revoked({c})
            /\ UNCHANGED coordinator
    /\ UNCHANGED <<envVars, peer, connected, late, seen, aged, told>>

\* The second row of a session that was never handed out.
Undo(c) ==
    /\ pc[c] = "undo"
    /\ Goto(c, "error")
    /\ coordinator' = "free"
    /\ \/ /\ row' = [row EXCEPT ![c] = "ended"]
          /\ UNCHANGED <<phase, faulted, session>>
       \/ Fault /\ UNCHANGED row
    /\ UNCHANGED <<shutdown, policy, expired, bound, peer, connected, late, seen, aged,
                   told>>

(***************************************************************************)
(* handle_control around it.                                               *)
(***************************************************************************)
PeerEvent(c) == peer[c] = "gone" \/ shutdown

\* The select of the creation: the task remembers that nobody listens any more,
\* cancels, and goes on waiting for the creation with the owner permit in hand.
Cancel(c) ==
    /\ pc[c] \in {"coordinate"} \cup Creating
    /\ connected[c] /\ PeerEvent(c)
    /\ connected' = [connected EXCEPT ![c] = FALSE]
    /\ UNCHANGED <<envVars, coordinator, peer, pc, late, seen, session, aged, row, told>>

\* An error is written to a peer that is still there; nothing else is owed.
Report(c) == pc[c] = "error" /\ Advance(c, "done")

\* write_ok of the token.  A write that fails may still have delivered it.
\* A creation that finished although its peer had gone writes nothing.
WriteToken(c) ==
    /\ pc[c] = "write"
    /\ connected[c]
    /\ session[c] = "live"
    /\ \/ /\ told' = [told EXCEPT ![c] = TRUE]
          /\ Goto(c, "hold")
          /\ UNCHANGED session
       \/ /\ told' \in {told, [told EXCEPT ![c] = TRUE]}
          /\ session' = Revoked({c})
          /\ Goto(c, "revoke")
    /\ UNCHANGED <<envVars, coordinator, peer, connected, late, seen, aged, row>>

\* Mutant: the guard is kept until the row is written.
ReleaseLate(c) ==
    /\ pc[c] \in Holding
    /\ PeerEvent(c) \/ session[c] = "revoked" \/ aged[c] \/ ~connected[c]
    /\ Goto(c, "revoke")
    /\ UNCHANGED <<envVars, coordinator, peer, connected, late, seen, session, aged, row,
                   told>>

\* Owner exit, end of file, shutdown or wait_revoked: the guard is dropped
\* before anything is awaited.
Release(c) ==
    /\ pc[c] \in Holding
    /\ \/ PeerEvent(c)
       \/ session[c] = "revoked"
       \/ aged[c]
       \/ ~connected[c]
    /\ session' = Revoked({c})
    /\ Goto(c, "revoke")
    /\ UNCHANGED <<envVars, coordinator, peer, connected, late, seen, aged, row, told>>

\* The second row; the broker is faulted when it cannot be written.
RevokeAudit(c) ==
    /\ pc[c] = "revoke"
    /\ Goto(c, "done")
    /\ \/ row' = [row EXCEPT ![c] = "ended"] /\ UNCHANGED <<phase, faulted, session>>
       \/ Fault /\ UNCHANGED row
    /\ UNCHANGED <<shutdown, policy, expired, bound, coordinator, peer, connected, late,
                   seen, aged, told>>

(***************************************************************************)
(* Everything else.                                                        *)
(***************************************************************************)
\* PeerProcess::wait_exit and the end of file are independent and both final.
PeerGoes(c) ==
    /\ peer[c] = "here"
    /\ peer' = [peer EXCEPT ![c] = "gone"]
    /\ UNCHANGED <<envVars, coordinator, taskVars, late, session, aged>>

DeadlinePasses(c) ==
    /\ pc[c] \in {"coordinate"} \cup Creating
    /\ ~late[c]
    /\ late' = [late EXCEPT ![c] = TRUE]
    /\ UNCHANGED <<envVars, coordinator, peer, taskVars, session, aged>>

\* The session's ttl, cut to what the policy has left.
SessionAges(c) ==
    /\ session[c] = "live" /\ ~aged[c]
    /\ aged' = [aged EXCEPT ![c] = TRUE]
    /\ UNCHANGED <<envVars, coordinator, peer, taskVars, late, session>>

PolicyExpires ==
    /\ ~expired
    /\ expired' = TRUE
    /\ aged' = [c \in Control |-> aged[c] \/ session[c] = "live"]
    /\ UNCHANGED <<phase, shutdown, faulted, policy, bound, coordinator, peer, taskVars,
                   late, session>>

\* policy_bundle_activate: all sessions are revoked before the new policy is in
\* force.
PolicyChange ==
    /\ coordinator = "free" /\ phase = "running" /\ policy < MaxPolicy
    /\ policy' = policy + 1
    /\ expired' = FALSE
    /\ bound' \in BOOLEAN
    /\ session' = Revoked(Control)
    /\ UNCHANGED <<phase, shutdown, faulted, coordinator, peer, taskVars, late, aged>>

\* An action of the Profile is updated or disabled: revoke_by_actions.
ActionChange ==
    /\ coordinator = "free" /\ phase = "running" /\ bound
    /\ bound' = FALSE
    /\ session' = Revoked(Control)
    /\ UNCHANGED <<phase, shutdown, faulted, policy, expired, coordinator, peer,
                   taskVars, late, aged>>

\* run_drain_lock.
Lock ==
    /\ coordinator = "free" /\ phase = "running"
    /\ phase' = "locked"
    /\ session' = Revoked(Control)
    /\ UNCHANGED <<shutdown, faulted, policy, expired, bound, coordinator, peer,
                   taskVars, late, aged>>

Unlock ==
    /\ coordinator = "free" /\ phase = "locked"
    /\ phase' = "running"
    /\ UNCHANGED <<shutdown, faulted, policy, expired, bound, coordinator, peer,
                   taskVars, late, session, aged>>

\* A signal or a fault elsewhere closes the gate and the registry at once, and
\* the stop publishes the shutdown.
Stop ==
    /\ ~shutdown
    /\ phase' = "stopped"
    /\ shutdown' = TRUE
    /\ session' = Revoked(Control)
    /\ UNCHANGED <<faulted, policy, expired, bound, coordinator, peer, taskVars, late,
                   aged>>

Task(c) ==
    \/ Connect(c) \/ Coordinate(c) \/ Proof(c) \/ Actions(c) \/ AdmitProfile(c)
    \/ JournalOk(c) \/ JournalFails(c) \/ Undo(c) \/ Cancel(c) \/ Report(c)
    \/ WriteToken(c) \/ Release(c) \/ RevokeAudit(c)

Environment ==
    \/ \E c \in Control : PeerGoes(c) \/ DeadlinePasses(c) \/ SessionAges(c)
    \/ PolicyExpires \/ PolicyChange \/ ActionChange \/ Lock \/ Unlock \/ Stop

Next == Environment \/ \E c \in Control : Task(c)

Spec == Init /\ [][Next]_vars

\* A task runs on whenever it can: the Authority answers every command, and the
\* deadline of a mutation passes.  Nothing is assumed of the peer.
Works(c) ==
    \/ Coordinate(c) \/ Proof(c) \/ Actions(c) \/ AdmitProfile(c) \/ JournalOk(c)
    \/ JournalFails(c) \/ Undo(c) \/ Report(c) \/ Release(c) \/ RevokeAudit(c)

Fairness == \A c \in Control : WF_vars(Works(c)) /\ WF_vars(DeadlinePasses(c))

FairSpec == Spec /\ Fairness

(***************************************************************************)
(* Properties.                                                             *)
(***************************************************************************)
TypeOK ==
    /\ phase \in {"running", "locked", "stopped"}
    /\ shutdown \in BOOLEAN /\ faulted \in BOOLEAN
    /\ policy \in 0..MaxPolicy /\ expired \in BOOLEAN /\ bound \in BOOLEAN
    /\ coordinator \in Control \cup {"free"}
    /\ peer \in [Control -> {"here", "gone"}]
    /\ pc \in [Control -> States]
    /\ connected \in [Control -> BOOLEAN] /\ late \in [Control -> BOOLEAN]
    /\ seen \in [Control -> 0..MaxPolicy]
    /\ session \in [Control -> {"none", "live", "revoked"}]
    /\ aged \in [Control -> BOOLEAN]
    /\ row \in [Control -> {"none", "created", "ended"}]
    /\ told \in [Control -> BOOLEAN]
    /\ Cardinality(Owners) <= OwnerLimit

\* Every session a control connection minted belongs to the policy that is
\* active now, its actions are the current ones and the broker runs: no
\* activation, action change, lock or fault can slip between the checks of
\* profile_create_until and its admission.
LiveSessionsAreCurrent ==
    \A c \in Control :
        session[c] = "live" => seen[c] = policy /\ bound /\ phase = "running"

\* A token is told only of a session whose SESSION_CREATED row is on disk, and
\* never by a creation its peer had already abandoned.
TokenAfterRow ==
    \A c \in Control : told[c] => row[c] # "none" /\ connected[c]

\* A session is in the registry only while the task of its connection holds its
\* guard; its SESSION_REVOKED row is written once it is out.
NoOrphanSession ==
    \A c \in Control :
        session[c] = "live" => pc[c] \in {"journal"} \cup Holding /\ row[c] # "ended"

\* A connection ends with both rows of its session on disk, or the broker is
\* faulted and says so.
RowsPaired ==
    \A c \in Control : pc[c] = "done" /\ row[c] = "created" => faulted

=============================================================================
