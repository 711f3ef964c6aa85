------------------------------- MODULE Broker -------------------------------
(***************************************************************************)
(* The broker as a whole: the execution path of rekey-broker and           *)
(* everything that may stop it.                                            *)
(*                                                                         *)
(* An execution is admitted (executor.rs, executor/local.rs), its          *)
(* `execution.started` row is made durable by the audit worker (audit.rs), *)
(* its request is handed to the transport under the coordinator, and the   *)
(* StartedAuditGuard owns exactly one terminal row from then on.  A        *)
(* panicking child, an aborted supervisor and a failing Authority run      *)
(* against it, and so do the control operations that own the coordinator:  *)
(* unlock, drain, idle lock, retention fault (runtime.rs), the central     *)
(* stop (runtime/shutdown.rs), and a crash followed by a restart           *)
(* (rekey-vault/src/authority.rs).                                         *)
(*                                                                         *)
(* The first part is lifecycle.rs: the broker phase, the remote-effect     *)
(* gate, the coordinator mutex and the cancellation watch channel, with    *)
(* the Lifecycle methods as functions of the state they read.  `stage` is  *)
(* the next await point of the operation that holds the coordinator.       *)
(***************************************************************************)
EXTENDS Naturals, FiniteSets, Sequences

CONSTANTS
    Exec,              \* execution requests (RequestId)
    Session,           \* capability sessions (SessionId)
    NoSession,         \* the session of a signed Connection execution
    SessionOf,         \* Exec -> Session \cup {NoSession}
    Connection,        \* Connection names
    ConnectionOf,      \* Exec -> Connection (read for Connection executions)
    MaxConnectionExecutions,     \* MAX_CONNECTION_EXECUTIONS (120 in the code)
    MaxExecutionsPerConnection   \* MAX_EXECUTIONS_PER_CONNECTION (4 in the code)

ASSUME LifecycleAssumption ==
    /\ NoSession \notin Session
    /\ SessionOf \in [Exec -> Session \cup {NoSession}]
    /\ ConnectionOf \in [Exec -> Connection]
    /\ MaxConnectionExecutions \in Nat \ {0}
    /\ MaxExecutionsPerConnection \in Nat \ {0}
    /\ {"free", "control"} \cap Exec = {}

VARIABLES
    phase,        \* BrokerPhase
    gate,         \* remote_effect_gate
    cancelled,    \* the value held by cancel_tx
    coordinator   \* who holds the coordinator mutex

BrokerPhase == {"Locked", "Running", "Draining", "ShuttingDown"}
RemoteEffectGate == {"CLOSED", "OPEN", "STOP_PENDING"}
CoordinatorOwner == {"free", "control"} \cup Exec

lifeVars == <<phase, gate, cancelled, coordinator>>

LifecycleTypeOK ==
    /\ phase \in BrokerPhase
    /\ gate \in RemoteEffectGate
    /\ cancelled \in BOOLEAN
    /\ coordinator \in CoordinatorOwner

LifecycleInit ==
    /\ phase = "Locked"
    /\ gate = "CLOSED"
    /\ cancelled = FALSE
    /\ coordinator = "free"

-----------------------------------------------------------------------------
IsConnection(e) == SessionOf[e] = NoSession

\* reject_if_not_running, and the executor's refuse_unless_running
RejectIfNotRunning == phase = "Running"

\* reject_if_busy: unlock is admitted from Locked or Running, never while a
\* drain owns the lifecycle or a stop is pending.
RejectIfBusy ==
    /\ gate # "STOP_PENDING"
    /\ phase \in {"Locked", "Running"}

TryBeginRemoteEffect == gate = "OPEN"

\* close_remote_effect_admission: compare_exchange(OPEN -> CLOSED)
CloseRemoteEffectAdmission(g) == IF g = "OPEN" THEN "CLOSED" ELSE g

\* signal_cancel uses watch::Sender::send, which stores nothing when no
\* receiver exists; `others` says whether a receiver outside the executions
\* (a control connection, a waiting caller) is subscribed.
SignalCancel(subscribed, others) == cancelled \/ subscribed \/ others

EnterDraining ==
    /\ gate' = CloseRemoteEffectAdmission(gate)
    /\ phase' = "Draining"

EnterLocked ==
    /\ gate' = CloseRemoteEffectAdmission(gate)
    /\ cancelled' = FALSE
    /\ phase' = "Locked"

EnterShuttingDown(subscribed, others) ==
    /\ gate' = CloseRemoteEffectAdmission(gate)
    /\ phase' = "ShuttingDown"
    /\ cancelled' = SignalCancel(subscribed, others)

\* enter_running publishes Running and clears the cancellation first ...
PublishRunning ==
    /\ cancelled' = FALSE
    /\ phase' = "Running"

\* ... and only then consults the gate: a pending stop restores the previous
\* phase and fails the transition.
ConfirmRunning(previous) ==
    \/ /\ gate = "STOP_PENDING"
       /\ phase' = previous
       /\ gate' = gate
    \/ /\ gate # "STOP_PENDING"
       /\ gate' = "OPEN"
       /\ phase' = phase

\* connection_permit: capacity per Connection and over all Connections, given
\* the executions that hold a Connection permit.
ConnectionCapacity(holders, e) ==
    /\ Cardinality(holders) < MaxConnectionExecutions
    /\ Cardinality({f \in holders : ConnectionOf[f] = ConnectionOf[e]})
         < MaxExecutionsPerConnection

-----------------------------------------------------------------------------

CONSTANTS
    Metered,       \* executions whose rows go through profile usage
    OAuth,         \* Connection executions that refresh an OAuth grant first
    StopCause,     \* the stops that occur: by admin, signal or fault
    MaxBoots       \* bound: process starts after the first one

ASSUME ExecutionAssumption ==
    /\ Metered \subseteq Exec
    /\ OAuth \subseteq {e \in Exec : SessionOf[e] = NoSession}
    /\ StopCause \subseteq {"admin", "signal", "fault"}
    /\ MaxBoots \in Nat

VARIABLES
    closed,      \* SessionRegistry.inner.closed
    session,     \* Session -> absent, live or revoked
    pc,          \* where each execution's task is
    permit,      \* its ExecutionPermit or ConnectionExecutionPermit
    effect,      \* StartedAuditGuard.remote_effect_started
    refreshed,   \* the OAuth refresh of this execution completed
    queue,       \* AuditSubmissionQueue: submissions not yet committed
    failed,      \* AuditSubmissionQueue.failed
    journal,     \* durable rows of each execution, in commit order
    authority,   \* the Authority's vault state
    stage,       \* what the control holder of the coordinator does next
    previous,    \* enter_running: the phase to restore
    drainOk,     \* wait_idle_until result kept by run_drain_lock
    drained,     \* the last drain_lock returned Ok and no unlock followed
    stopCause,   \* the stop selected by the serve loop
    stopError,   \* central_stop: first_error.is_some()
    stopLock,    \* central_stop: the Authority is to be locked
    faultQueued, \* a StopCommand::Fault waits in stop_rx
    faulting,    \* close_fault_admission still has to close the registry
    supervisor,  \* ExecutionSupervisor: accepting, closed, panicked, aborted
    exit,        \* result of serve
    reached,     \* history: endpoints that received a request of e
    delivered,   \* history: executions whose caller was told of success
    boots        \* process starts after the first one

regVars  == <<closed, session>>
execVars == <<pc, permit, effect, refreshed>>
auditVars == <<queue, failed, journal>>
ctlVars  == <<stage, previous, drainOk, drained>>
stopVars == <<stopCause, stopError, stopLock, faultQueued, faulting, exit>>
histVars == <<reached, delivered>>
vars == <<lifeVars, regVars, execVars, auditVars, authority, ctlVars,
          stopVars, supervisor, histVars, boots>>

-----------------------------------------------------------------------------
SessionState == {"absent", "live", "revoked"}
Row == {"started", "blocked", "indeterminate", "finished"}
TerminalRow == Row \ {"started"}
Submission == [exec : Exec, row : Row]
PermitState == {"none", "held", "armed"}
AuthorityState == {"locked", "unlocked", "faulted", "down"}
Endpoint == {"provider", "target"}

Admitting == {"acquired", "waiting"}
Guarded == {"replied", "admitted", "running", "queued", "refreshGate",
            "refresh", "handing", "inflight"}
Submitted == {"finishing", "awaiting", "closing", "confirmed"}
AtRest == {"idle", "abandoned", "done"}
ExecPc == Admitting \cup {"committing", "rejected"} \cup Guarded
            \cup Submitted \cup AtRest

Stage == {"none", "unlock", "activate", "entering", "opening", "rollback",
          "drain-revoke", "drain-wait", "drain-cancelled", "drain-idle",
          "drain-lock", "stop-proof", "stop-begin", "stop-revoke",
          "stop-wait", "stop-cancelled", "stop-join", "stop-idle",
          "stop-lock", "stop-final"}

RegistryTypeOK ==
    /\ closed \in BOOLEAN
    /\ session \in [Session -> SessionState]

TaskTypeOK ==
    /\ pc \in [Exec -> ExecPc]
    /\ permit \in [Exec -> PermitState]
    /\ effect \in [Exec -> BOOLEAN]
    /\ refreshed \in [Exec -> BOOLEAN]
    /\ queue \in Seq(Submission)
    /\ failed \in BOOLEAN
    /\ journal \in [Exec -> Seq(Row)]
    /\ supervisor \in {"accepting", "closed", "panicked", "aborted"}
    /\ reached \in [Exec -> SUBSET Endpoint]
    /\ delivered \subseteq Exec
    /\ boots \in 0..MaxBoots

ControlTypeOK ==
    /\ stage \in Stage
    /\ previous \in BrokerPhase
    /\ drainOk \in BOOLEAN /\ drained \in BOOLEAN

StopTypeOK ==
    /\ stopCause \in {"none", "admin", "signal", "fault"}
    /\ stopError \in BOOLEAN /\ stopLock \in BOOLEAN
    /\ faultQueued \in BOOLEAN /\ faulting \in BOOLEAN
    /\ exit \in {"none", "clean", "error"}

\* Every variable stays in its type: in particular the gate is one of the
\* three values of the AtomicU8 and every queued submission is a row of an
\* execution (lifecycle.rs, audit.rs).
TypeOK ==
    /\ LifecycleTypeOK
    /\ RegistryTypeOK
    /\ TaskTypeOK
    /\ authority \in AuthorityState
    /\ ControlTypeOK
    /\ StopTypeOK

Init ==
    /\ LifecycleInit
    /\ closed = TRUE
    /\ session = [s \in Session |-> "absent"]
    /\ pc = [e \in Exec |-> "idle"]
    /\ permit = [e \in Exec |-> "none"]
    /\ effect = [e \in Exec |-> FALSE]
    /\ refreshed = [e \in Exec |-> FALSE]
    /\ queue = <<>>
    /\ failed = FALSE
    /\ journal = [e \in Exec |-> <<>>]
    /\ authority = "locked"
    /\ stage = "none"
    /\ previous = "Locked"
    /\ drainOk = FALSE /\ drained = FALSE
    /\ stopCause = "none" /\ stopError = FALSE /\ stopLock = FALSE
    /\ faultQueued = FALSE /\ faulting = FALSE
    /\ supervisor = "accepting"
    /\ exit = "none"
    /\ reached = [e \in Exec |-> {}]
    /\ delivered = {}
    /\ boots = 0

-----------------------------------------------------------------------------
(* Helpers shared by the actions.                                          *)

\* sessions.in_flight_total() + lifecycle.local_in_flight()
InFlight == {e \in Exec : permit[e] # "none"}
ConnectionHolders == {e \in InFlight : IsConnection(e)}

\* receivers of cancel_tx held by run_inner
Subscribed ==
    \E e \in Exec : pc[e] \in (Guarded \ {"replied", "admitted"})
                                \cup {"finishing", "awaiting"}

\* with_live_handoff keeps the registry mutex for the whole handoff
RegistryFree == \A e \in Exec : pc[e] = "handing" => IsConnection(e)

\* with_live_handoff: the registry is open and the entry is not revoked
SessionLive(e) == ~closed /\ session[SessionOf[e]] = "live"

CloseAndRevokeAll ==
    /\ closed' = TRUE
    /\ session' = [s \in Session |->
                     IF session[s] = "live" THEN "revoked" ELSE session[s]]

\* What an owner that gives up reports: indeterminate once a remote effect
\* may have started, blocked before.
Fallback(e) == IF effect[e] THEN "indeterminate" ELSE "blocked"

Enqueue(e, row) == queue' = Append(queue, [exec |-> e, row |-> row])

Release(e) == coordinator' = IF coordinator = e THEN "free" ELSE coordinator

\* Drop of ExecutionPermit; a Connection's permit travels with its terminal.
DropExecutionPermit(e) ==
    permit' = IF IsConnection(e) THEN permit
              ELSE [permit EXCEPT ![e] = "none"]

Goto(e, next) == pc' = [pc EXCEPT ![e] = next]

-----------------------------------------------------------------------------
(* Sessions, as far as the execution path sees them.                       *)

\* SessionCreate: needs a running broker and an open registry
CreateSession(s) ==
    /\ RejectIfNotRunning /\ ~closed /\ RegistryFree
    /\ session[s] = "absent"
    /\ session' = [session EXCEPT ![s] = "live"]
    /\ UNCHANGED <<lifeVars, closed, execVars, auditVars, authority, ctlVars,
                   stopVars, supervisor, histVars, boots>>

\* revoke, an expiry noticed by begin or wait_revoked, a dropped
\* ProfileSessionGuard
RevokeSession(s) ==
    /\ RegistryFree
    /\ session[s] = "live"
    /\ session' = [session EXCEPT ![s] = "revoked"]
    /\ UNCHANGED <<lifeVars, closed, execVars, auditVars, authority, ctlVars,
                   stopVars, supervisor, histVars, boots>>

-----------------------------------------------------------------------------
(* Admission: from the accepted job to the durable execution.started.      *)

\* admit_for_response: refuse_unless_running, then acquire reserves the slot
Acquire(e) ==
    /\ pc[e] = "idle" /\ ~IsConnection(e)
    /\ supervisor = "accepting" /\ RejectIfNotRunning
    /\ RegistryFree /\ session[SessionOf[e]] = "live"
    /\ permit' = [permit EXCEPT ![e] = "held"]
    /\ Goto(e, "acquired")
    /\ UNCHANGED <<lifeVars, regVars, effect, refreshed, auditVars, authority,
                   ctlVars, stopVars, supervisor, histVars, boots>>

\* admit_connection up to coordinate_until: no permit is held while waiting
AcquireConnection(e) ==
    /\ pc[e] = "idle" /\ IsConnection(e)
    /\ supervisor = "accepting" /\ RejectIfNotRunning
    /\ Goto(e, "waiting")
    /\ UNCHANGED <<lifeVars, regVars, permit, effect, refreshed, auditVars,
                   authority, ctlVars, stopVars, supervisor, histVars, boots>>

\* commit_started_with_usage: try_coordinate fails while Running, so wait
WaitForCoordinator(e) ==
    /\ pc[e] = "acquired"
    /\ coordinator # "free" /\ RejectIfNotRunning
    /\ Goto(e, "waiting")
    /\ UNCHANGED <<lifeVars, regVars, permit, effect, refreshed, auditVars,
                   authority, ctlVars, stopVars, supervisor, histVars, boots>>

\* A denial, an expired deadline or a broker that is no longer running ends
\* admission; the reserved slot is released.
RefuseAdmission(e) ==
    /\ pc[e] \in Admitting
    /\ Goto(e, "done") /\ DropExecutionPermit(e)
    /\ UNCHANGED <<lifeVars, regVars, effect, refreshed, auditVars, authority,
                   ctlVars, stopVars, supervisor, histVars, boots>>

\* admit_connection under the coordinator: the sticky audit failure, the
\* remote-effect gate and the Connection capacity are checked.
ConnectionAdmissible(e) ==
    /\ ~failed
    /\ TryBeginRemoteEffect
    /\ ConnectionCapacity(ConnectionHolders, e)

\* Owning the coordinator, the phase is checked again and the started row is
\* handed to the audit worker; the coordinator is kept across its commit.
SubmitStarted(e) ==
    /\ pc[e] \in Admitting /\ coordinator = "free" /\ RejectIfNotRunning
    /\ IsConnection(e) => ConnectionAdmissible(e)
    /\ coordinator' = e
    /\ permit' = [permit EXCEPT ![e] = "held"]
    /\ Goto(e, "committing") /\ Enqueue(e, "started")
    /\ UNCHANGED <<phase, gate, cancelled, regVars, effect, refreshed, failed,
                   journal, authority, ctlVars, stopVars, supervisor, histVars,
                   boots>>

\* The worker's reply reaches the caller: with the guard, or with an error.
ReceiveStarted(e) ==
    /\ pc[e] \in {"replied", "rejected"}
    /\ Release(e)
    /\ \/ pc[e] = "replied" /\ Goto(e, "admitted") /\ UNCHANGED permit
       \/ pc[e] = "rejected" /\ Goto(e, "done") /\ DropExecutionPermit(e)
    /\ UNCHANGED <<phase, gate, cancelled, regVars, effect, refreshed,
                   auditVars, authority, ctlVars, stopVars, supervisor,
                   histVars, boots>>

\* admit_for_response wraps the commit in its admission deadline.  Before the
\* reply the worker keeps the submission; after it the guard is dropped with
\* the channel and queues its fallback terminal.
AdmissionTimeout(e) ==
    /\ ~IsConnection(e)
    /\ pc[e] \in {"committing", "replied"}
    /\ Release(e) /\ DropExecutionPermit(e)
    /\ \/ /\ pc[e] = "committing" /\ Goto(e, "abandoned")
          /\ UNCHANGED queue
       \/ /\ pc[e] = "replied" /\ Goto(e, "done")
          /\ Enqueue(e, Fallback(e))
    /\ UNCHANGED <<phase, gate, cancelled, regVars, effect, refreshed, failed,
                   journal, authority, ctlVars, stopVars, supervisor, histVars,
                   boots>>

-----------------------------------------------------------------------------
(* Running an admitted execution.                                          *)

\* A step of e that queues its terminal row and moves on.
SubmitTerminal(e, row, next) ==
    /\ Enqueue(e, row) /\ Goto(e, next)
    /\ UNCHANGED <<phase, gate, cancelled, regVars, permit, refreshed, failed,
                   journal, authority, ctlVars, stopVars, supervisor, histVars,
                   boots>>

\* run_inner subscribes, and gives up at once if already cancelled
Subscribe(e) ==
    /\ pc[e] = "admitted"
    /\ UNCHANGED <<coordinator, effect>>
    /\ \/ cancelled /\ SubmitTerminal(e, "blocked", "closing")
       \/ /\ ~cancelled /\ Goto(e, "running")
          /\ UNCHANGED <<phase, gate, cancelled, regVars, permit, refreshed,
                         auditVars, authority, ctlVars, stopVars, supervisor,
                         histVars, boots>>

\* Mutant of Cancel: the row is queued and the refresh goes on by itself.
CancelLeavesRefresh(e) ==
    /\ cancelled /\ pc[e] = "refreshGate"
    /\ \A i \in 1..Len(queue) : queue[i].exec # e
    /\ UNCHANGED <<coordinator, effect>>
    /\ SubmitTerminal(e, "indeterminate", "refreshGate")

\* run_inner: the cancellation arm.  A completed guard is left alone; an
\* ordinary HTTP effect is reported as indeterminate, anything else blocked.
Cancel(e) ==
    /\ cancelled
    /\ UNCHANGED <<coordinator, effect>>
    /\ \/ /\ pc[e] \in {"running", "queued", "refresh", "inflight"}
          /\ SubmitTerminal(e, Fallback(e), "closing")
       \/ /\ pc[e] \in {"finishing", "awaiting"} /\ Goto(e, "closing")
          /\ UNCHANGED <<phase, gate, cancelled, regVars, permit, refreshed,
                         auditVars, authority, ctlVars, stopVars, supervisor,
                         histVars, boots>>

\* Preparation fails before any handoff: the credential is unavailable, the
\* stream shape or a header is wrong, the deadline passed.  The terminal is
\* queued and either awaited or not.
FailBeforeHandoff(e) ==
    /\ pc[e] \in {"running", "queued"}
    /\ UNCHANGED <<coordinator, effect>>
    /\ \/ pc[e] = "running" /\ SubmitTerminal(e, Fallback(e), "awaiting")
       \/ SubmitTerminal(e, Fallback(e), "closing")

\* oauth::Manager::bearer: the gate is read without the coordinator ...
RefreshGate(e) ==
    /\ pc[e] = "running" /\ e \in OAuth /\ ~refreshed[e]
    /\ UNCHANGED <<coordinator, effect>>
    /\ \/ /\ TryBeginRemoteEffect /\ Goto(e, "refreshGate")
          /\ UNCHANGED <<phase, gate, cancelled, regVars, permit, refreshed,
                         auditVars, authority, ctlVars, stopVars, supervisor,
                         histVars, boots>>
       \/ /\ ~TryBeginRemoteEffect
          /\ SubmitTerminal(e, Fallback(e), "awaiting")

\* ... then the effect is marked and the exchange is first polled, which only
\* starts to resolve the provider's name.
RefreshSend(e) ==
    /\ pc[e] = "refreshGate"
    /\ Goto(e, "refresh")
    /\ effect' = [effect EXCEPT ![e] = TRUE]
    /\ UNCHANGED <<lifeVars, regVars, permit, refreshed, auditVars, authority,
                   ctlVars, stopVars, supervisor, histVars, boots>>

RefreshDone(e) ==
    /\ pc[e] = "refresh" /\ "provider" \in reached[e]
    /\ Goto(e, "running")
    /\ refreshed' = [refreshed EXCEPT ![e] = TRUE]
    /\ UNCHANGED <<lifeVars, regVars, permit, effect, auditVars, authority,
                   ctlVars, stopVars, supervisor, histVars, boots>>

\* The refresh fails; a refusal before sending proves that nothing was sent.
RefreshFail(e) ==
    /\ pc[e] = "refresh" /\ UNCHANGED coordinator
    /\ \/ /\ SubmitTerminal(e, "indeterminate", "awaiting") /\ UNCHANGED effect
       \/ /\ "provider" \notin reached[e]
          /\ SubmitTerminal(e, "blocked", "awaiting")
          /\ effect' = [effect EXCEPT ![e] = FALSE]

ReadyForTarget(e) == pc[e] = "running" /\ (e \in OAuth => refreshed[e])

\* poll_http_while_live without a session permit: an open gate lets the
\* Connection execution queue for the coordinator, a closed one refuses it.
JoinCoordinator(e) ==
    /\ ReadyForTarget(e) /\ IsConnection(e)
    /\ UNCHANGED <<coordinator, effect>>
    /\ \/ /\ TryBeginRemoteEffect /\ Goto(e, "queued")
          /\ UNCHANGED <<phase, gate, cancelled, regVars, permit, refreshed,
                         auditVars, authority, ctlVars, stopVars, supervisor,
                         histVars, boots>>
       \/ /\ ~TryBeginRemoteEffect /\ SubmitTerminal(e, Fallback(e), "closing")

\* wait_revoked wins the race for the coordinator
HandoffRevoked(e) ==
    /\ ReadyForTarget(e) /\ ~IsConnection(e)
    /\ session[SessionOf[e]] # "live"
    /\ UNCHANGED <<coordinator, effect>>
    /\ SubmitTerminal(e, Fallback(e), "closing")

WantsHandoff(e) ==
    IF IsConnection(e) THEN pc[e] = "queued" ELSE ReadyForTarget(e)

\* Mutant of HandoffAllowed: the phase is trusted, the gate is not read.
HandoffIgnoresGate(e) ==
    /\ ~IsConnection(e) => SessionLive(e)
    /\ RejectIfNotRunning

\* The protected recheck: live session, open gate, running broker.
HandoffAllowed(e) ==
    /\ ~IsConnection(e) => SessionLive(e)
    /\ TryBeginRemoteEffect
    /\ RejectIfNotRunning

\* Mutant of HandoffEnter: the handoff does not take the coordinator.
HandoffWithoutCoordinator(e) ==
    /\ WantsHandoff(e) /\ RegistryFree
    /\ \/ /\ HandoffAllowed(e) /\ Goto(e, "handing")
          /\ UNCHANGED <<phase, gate, cancelled, coordinator, regVars, permit,
                         effect, refreshed, auditVars, authority, ctlVars,
                         stopVars, supervisor, histVars, boots>>
       \/ /\ ~HandoffAllowed(e) /\ UNCHANGED <<coordinator, effect>>
          /\ SubmitTerminal(e, Fallback(e), "closing")

\* The coordinator is taken and the recheck is made; a refusal releases it.
HandoffEnter(e) ==
    /\ WantsHandoff(e) /\ coordinator = "free" /\ RegistryFree
    /\ \/ /\ HandoffAllowed(e) /\ coordinator' = e /\ Goto(e, "handing")
          /\ UNCHANGED <<phase, gate, cancelled, regVars, permit, effect,
                         refreshed, auditVars, authority, ctlVars, stopVars,
                         supervisor, histVars, boots>>
       \/ /\ ~HandoffAllowed(e) /\ UNCHANGED <<coordinator, effect>>
          /\ SubmitTerminal(e, Fallback(e), "closing")

\* The effect is marked, the transport future constructed and first polled;
\* then coordinator and registry are let go and the future is awaited.
HandoffSend(e) ==
    /\ pc[e] = "handing"
    /\ Release(e) /\ Goto(e, "inflight")
    /\ effect' = [effect EXCEPT ![e] = TRUE]
    /\ UNCHANGED <<phase, gate, cancelled, regVars, permit, refreshed,
                   auditVars, authority, ctlVars, stopVars, supervisor,
                   histVars, boots>>

\* The endpoint a polled future of e is on its way to.
Heading(e) == IF pc[e] = "refresh" THEN "provider" ELSE "target"

\* The name is resolved, the connection made and the request sent: any time
\* after the first poll, under no lock, whatever the gate says by then.  A
\* future that ends or is dropped before has contacted nobody.
Contact(e) ==
    /\ pc[e] \in {"refresh", "inflight"}
    /\ Heading(e) \notin reached[e]
    /\ reached' = [reached EXCEPT ![e] = @ \cup {Heading(e)}]
    /\ UNCHANGED <<lifeVars, regVars, execVars, auditVars, authority, ctlVars,
                   stopVars, supervisor, delivered, boots>>

\* A sealed, filtered response: the finished row is queued and awaited.
Respond(e) ==
    /\ pc[e] = "inflight" /\ "target" \in reached[e]
    /\ UNCHANGED <<coordinator, effect>>
    /\ SubmitTerminal(e, "finished", "finishing")

\* A failure or a timeout that cannot exclude an effect, a reflected secret,
\* an oversized response.
FailIndeterminate(e) ==
    /\ pc[e] = "inflight" /\ UNCHANGED <<coordinator, effect>>
    /\ \E next \in {"awaiting", "closing"} :
         SubmitTerminal(e, "indeterminate", next)

\* The transport proves that this target received nothing; an earlier
\* refresh is still an effect (record_target_no_effect).
FailNoEffect(e) ==
    /\ pc[e] = "inflight" /\ "target" \notin reached[e]
    /\ UNCHANGED coordinator
    /\ effect' = [effect EXCEPT ![e] = refreshed[e]]
    /\ SubmitTerminal(e, IF refreshed[e] THEN "indeterminate" ELSE "blocked",
                      "awaiting")

\* commit_terminal_until: the caller stops waiting, the commit goes on
TerminalTimeout(e) ==
    /\ pc[e] \in {"finishing", "awaiting"}
    /\ Goto(e, "closing")
    /\ UNCHANGED <<lifeVars, regVars, permit, effect, refreshed, auditVars,
                   authority, ctlVars, stopVars, supervisor, histVars, boots>>

\* run_inner returns; guard and permit are dropped, the caller is answered
Return(e) ==
    /\ pc[e] \in {"closing", "confirmed"}
    /\ Goto(e, "done") /\ DropExecutionPermit(e)
    /\ delivered' = IF pc[e] = "confirmed" THEN delivered \cup {e}
                    ELSE delivered
    /\ UNCHANGED <<lifeVars, regVars, effect, refreshed, auditVars, authority,
                   ctlVars, stopVars, supervisor, reached, boots>>

-----------------------------------------------------------------------------
(* An execution task that unwinds: child panic or aborted supervisor.      *)

\* Everything the task owns is dropped: the coordinator, the session permit
\* and the guard, which queues its fallback unless it is completed.  The
\* audit worker keeps a submission that is already queued.
DropTask(e) ==
    /\ Release(e)
    /\ permit' = IF pc[e] \in Admitting \cup {"rejected"} \/ ~IsConnection(e)
                 THEN [permit EXCEPT ![e] = "none"] ELSE permit
    /\ Goto(e, IF pc[e] = "committing" THEN "abandoned" ELSE "done")
    /\ IF pc[e] \in Guarded THEN Enqueue(e, Fallback(e)) ELSE UNCHANGED queue

\* ExecutionSupervisor::run: a panicking child stops the job intake and makes
\* the supervisor end with an error
Panic(e) ==
    /\ pc[e] \in {"running", "handing", "inflight"}
    /\ DropTask(e)
    /\ supervisor' = IF supervisor = "aborted" THEN "aborted" ELSE "panicked"
    /\ UNCHANGED <<phase, gate, cancelled, regVars, effect, refreshed, failed,
                   journal, authority, ctlVars, stopVars, histVars, boots>>

\* execution_task.abort(): the JoinSet drops every child, some time later
Abort(e) ==
    /\ supervisor = "aborted" /\ pc[e] \notin AtRest
    /\ DropTask(e)
    /\ UNCHANGED <<phase, gate, cancelled, regVars, effect, refreshed, failed,
                   journal, authority, ctlVars, stopVars, supervisor, histVars,
                   boots>>

-----------------------------------------------------------------------------
(* The audit worker, first in first out.                                   *)

\* Metered rows are settled with the root key, plain rows in any state of a
\* running Authority.
CanCommit(e) ==
    /\ authority # "down"
    /\ e \in Metered => authority = "unlocked"

Head1 == Head(queue)

\* A storage failure faults the Authority.
AuthorityAfterError(storage) ==
    IF storage /\ authority # "down" THEN "faulted" ELSE authority

\* Mutant of StartedCommitted: a vanished receiver drops the row's ownership.
StartedCommittedDropsOrphan(e) ==
    /\ journal' = [journal EXCEPT ![e] = Append(@, "started")]
    /\ permit' = IF IsConnection(e) THEN [permit EXCEPT ![e] = "armed"]
                 ELSE permit
    /\ Goto(e, IF pc[e] = "abandoned" THEN "done" ELSE "replied")
    /\ queue' = Tail(queue)

\* The started row is durable: ConnectionAdmission::commit arms the permit,
\* and the guard goes to the caller or, when it is gone, queues its fallback
\* before this submission stops being pending.
StartedCommitted(e) ==
    /\ journal' = [journal EXCEPT ![e] = Append(@, "started")]
    /\ permit' = IF IsConnection(e) THEN [permit EXCEPT ![e] = "armed"]
                 ELSE permit
    /\ \/ /\ pc[e] = "abandoned" /\ Goto(e, "done")
          /\ queue' = Append(Tail(queue), [exec |-> e, row |-> "blocked"])
       \/ /\ pc[e] # "abandoned" /\ Goto(e, "replied")
          /\ queue' = Tail(queue)

\* The started row is refused; a Connection admission is rolled back before
\* the caller hears of it.
StartedRefused(e) ==
    /\ queue' = Tail(queue)
    /\ permit' = IF IsConnection(e) THEN [permit EXCEPT ![e] = "none"] ELSE permit
    /\ Goto(e, IF pc[e] = "abandoned" THEN "done" ELSE "rejected")
    /\ UNCHANGED journal

\* The worker commits a started row, or is refused by a budget, by an expired
\* deadline (AuthorityBusy) or by an error, which is sticky.
WorkStarted ==
    /\ queue # <<>> /\ Head1.row = "started"
    /\ LET e == Head1.exec IN
       \/ CanCommit(e) /\ StartedCommitted(e) /\ UNCHANGED <<failed, authority>>
       \/ /\ StartedRefused(e) /\ authority # "down"
          /\ UNCHANGED <<failed, authority>>
       \/ /\ StartedRefused(e) /\ failed' = TRUE
          /\ \E storage \in BOOLEAN : authority' = AuthorityAfterError(storage)
    /\ UNCHANGED <<lifeVars, regVars, effect, refreshed, ctlVars, stopVars,
                   supervisor, histVars, boots>>

\* Mutant of LoseTerminal: an armed permit is dropped like any other.
LoseTerminalQuietly(e) == gate' = gate

\* Drop of an armed ConnectionExecutionPermit: mark_stop_pending first
LoseTerminal(e) ==
    gate' = IF permit[e] = "armed" THEN "STOP_PENDING" ELSE gate

\* The worker commits a terminal row and completes the permit, or fails: the
\* failure is sticky and an armed permit closes the gate before its capacity
\* is returned.  Only a committed finished row confirms the caller.
WorkTerminal ==
    /\ queue # <<>> /\ Head1.row # "started"
    /\ LET e == Head1.exec IN
       /\ queue' = Tail(queue)
       /\ permit' = IF IsConnection(e) THEN [permit EXCEPT ![e] = "none"]
                    ELSE permit
       /\ \/ /\ CanCommit(e)
             /\ journal' = [journal EXCEPT ![e] = Append(@, Head1.row)]
             /\ pc' = [pc EXCEPT ![e] =
                         CASE @ = "finishing" -> "confirmed"
                           [] @ = "awaiting" -> "closing"
                           [] OTHER -> @]
             /\ UNCHANGED <<failed, authority, gate>>
          \/ /\ failed' = TRUE /\ LoseTerminal(e)
             /\ \E storage \in BOOLEAN :
                  authority' = AuthorityAfterError(storage)
             /\ pc' = [pc EXCEPT ![e] =
                         IF @ \in {"finishing", "awaiting"} THEN "closing"
                         ELSE @]
             /\ UNCHANGED journal
    /\ UNCHANGED <<phase, cancelled, coordinator, regVars, effect, refreshed,
                   ctlVars, stopVars, supervisor, histVars, boots>>

-----------------------------------------------------------------------------
(* The control operations.                                                 *)

\* what a control operation leaves alone unless it says otherwise
taskVars == <<execVars, auditVars, supervisor, histVars, boots>>

ServeLoop == exit = "none"

TakeCoordinator(next) ==
    /\ ServeLoop /\ coordinator = "free"
    /\ coordinator' = "control" /\ stage' = next

ReleaseCoordinator == coordinator' = "free" /\ stage' = "none"

At(s) == stage = s

StopStage == {"stop-proof", "stop-begin", "stop-revoke", "stop-wait",
              "stop-cancelled", "stop-join", "stop-idle", "stop-lock",
              "stop-final"}

\* AuthorityHandle::lock: a faulted Authority refuses; the closing audit row
\* may fault it.
AuthorityLock(ok) ==
    \/ ok /\ authority # "faulted" /\ authority' = "locked"
    \/ ~ok /\ authority' \in {authority, "faulted"}

-----------------------------------------------------------------------------
(* Unlock and desktop resume: unlock_with_desktop, activate_unlocked.      *)

UnlockBegin ==
    /\ TakeCoordinator("unlock") /\ RejectIfBusy
    /\ drained' = FALSE
    /\ UNCHANGED <<phase, gate, cancelled, regVars, authority, previous,
                   drainOk, stopVars, taskVars>>

\* The Authority verifies the proof; a failed one changes nothing, a failed
\* integrity check faults it.
UnlockAuthority ==
    /\ At("unlock")
    /\ \/ /\ authority # "faulted" /\ authority' = "unlocked"
          /\ stage' = "activate" /\ UNCHANGED coordinator
       \/ authority' \in {authority, "faulted"} /\ ReleaseCoordinator
    /\ UNCHANGED <<phase, gate, cancelled, regVars, previous, drainOk, drained,
                   stopVars, taskVars>>

\* Policy reload or lease recovery failed: admission is closed at once.
ActivateFailed ==
    /\ At("activate") /\ RegistryFree /\ CloseAndRevokeAll
    /\ stage' = "rollback"
    /\ UNCHANGED <<lifeVars, authority, previous, drainOk, drained, stopVars,
                   taskVars>>

\* enter_running, first half
EnterRunning ==
    /\ At("activate")
    /\ previous' = phase /\ PublishRunning
    /\ stage' = "entering"
    /\ UNCHANGED <<gate, coordinator, regVars, authority, drainOk, drained,
                   stopVars, taskVars>>

\* enter_running, second half; a pending stop closes admission again
FinishRunning ==
    /\ At("entering") /\ ConfirmRunning(previous)
    /\ \/ gate = "STOP_PENDING" /\ RegistryFree /\ CloseAndRevokeAll
          /\ stage' = "rollback"
       \/ gate # "STOP_PENDING" /\ stage' = "opening" /\ UNCHANGED regVars
    /\ previous' = "Locked"
    /\ UNCHANGED <<cancelled, coordinator, authority, drainOk, drained,
                   stopVars, taskVars>>

\* open_for_admission
OpenAdmission ==
    /\ At("opening") /\ RegistryFree
    /\ closed' = FALSE /\ ReleaseCoordinator
    /\ UNCHANGED <<phase, gate, cancelled, session, authority, previous,
                   drainOk, drained, stopVars, taskVars>>

\* The failed unlock locks the Authority and enters Locked; when even that
\* fails the runtime requests a fault stop.
Rollback ==
    /\ At("rollback") /\ ReleaseCoordinator
    /\ \/ /\ AuthorityLock(TRUE) /\ EnterLocked
          /\ UNCHANGED <<regVars, stopVars>>
       \/ /\ AuthorityLock(FALSE) /\ RegistryFree /\ CloseAndRevokeAll
          /\ phase' = "Locked" /\ gate' = "STOP_PENDING"
          /\ \E others \in BOOLEAN : cancelled' = (Subscribed \/ others)
          /\ faultQueued' = TRUE
          /\ UNCHANGED <<stopCause, stopError, stopLock, faulting, exit>>
    /\ UNCHANGED <<previous, drainOk, drained, taskVars>>

-----------------------------------------------------------------------------
(* drain_lock, try_idle_lock and the drains of confirm_rollback and        *)
(* settle_failed_admin: run_drain_lock under the coordinator.              *)

\* Locked: only the Authority is locked again.
DrainLocked ==
    /\ ServeLoop /\ coordinator = "free" /\ phase = "Locked"
    /\ \E ok \in BOOLEAN : AuthorityLock(ok)
    /\ UNCHANGED <<lifeVars, regVars, ctlVars, stopVars, taskVars>>

\* Running: the gate is closed and Draining published before sessions are
\* revoked.  A drain that gave up left Draining behind and is retried here.
DrainBegin ==
    /\ UNCHANGED <<cancelled, regVars, authority, previous, drainOk, drained,
                   stopVars, taskVars>>
    /\ \/ phase = "Running" /\ EnterDraining /\ TakeCoordinator("drain-revoke")
       \/ phase = "Draining" /\ TakeCoordinator("drain-wait")
          /\ UNCHANGED <<phase, gate>>

\* try_idle_lock starts the drain only if nothing is in flight.
IdleDrain ==
    /\ phase = "Running" /\ authority = "unlocked" /\ InFlight = {}
    /\ EnterDraining /\ TakeCoordinator("drain-revoke")
    /\ UNCHANGED <<cancelled, regVars, authority, previous, drainOk, drained,
                   stopVars, taskVars>>

DrainRevoke ==
    /\ At("drain-revoke") /\ RegistryFree /\ CloseAndRevokeAll
    /\ stage' = "drain-wait"
    /\ UNCHANGED <<lifeVars, authority, previous, drainOk, drained, stopVars,
                   taskVars>>

\* Mutant of Quiescent: only session executions are counted.
QuiescentSessions == \A e \in InFlight : IsConnection(e)

\* wait_in_flight_until ended without reaching its deadline
Quiescent == InFlight = {}

\* wait_executes_drained_until: the natural deadline signals cancellation,
\* the stop deadline gives up and leaves Draining behind.
DrainWait ==
    /\ At("drain-wait") \/ At("drain-cancelled")
    /\ \/ /\ Quiescent /\ stage' = "drain-idle"
          /\ UNCHANGED <<cancelled, coordinator>>
       \/ /\ ~Quiescent /\ stage = "drain-wait" /\ stage' = "drain-cancelled"
          /\ \E others \in BOOLEAN : cancelled' = SignalCancel(Subscribed, others)
          /\ UNCHANGED coordinator
       \/ /\ ~Quiescent /\ stage = "drain-cancelled" /\ ReleaseCoordinator
          /\ UNCHANGED cancelled
    /\ UNCHANGED <<phase, gate, regVars, authority, previous, drainOk, drained,
                   stopVars, taskVars>>

\* wait_idle_until: nothing pending and no sticky failure, or an error at the
\* deadline.
AuditIdle(ok) ==
    \/ ok /\ queue = <<>> /\ ~failed
    \/ ~ok /\ (queue # <<>> \/ failed)

DrainIdle ==
    /\ At("drain-idle") /\ stage' = "drain-lock"
    /\ drainOk' \in BOOLEAN /\ AuditIdle(drainOk')
    /\ UNCHANGED <<lifeVars, regVars, authority, previous, drained, stopVars,
                   taskVars>>

\* The Authority is locked whatever the audit said; the drain reports the
\* audit's result.  A failed lock leaves Draining behind; one that only timed
\* out may still lock the Authority.
DrainLock ==
    /\ At("drain-lock") /\ ReleaseCoordinator
    /\ \/ /\ AuthorityLock(TRUE) /\ EnterLocked /\ drained' = drainOk
       \/ /\ authority' \in {authority, "faulted"}
                              \cup IF authority = "faulted" THEN {} ELSE {"locked"}
          /\ UNCHANGED <<phase, gate, cancelled, drained>>
    /\ drainOk' = FALSE
    /\ UNCHANGED <<regVars, previous, stopVars, taskVars>>

-----------------------------------------------------------------------------
(* Faults.                                                                 *)

\* close_fault_admission takes neither the coordinator nor, at first, the
\* registry mutex.  A failed admin mutation, an idle poll or a maintenance
\* task that cannot learn the Authority's state calls it.  Bound: one fault
\* at a time.
RequestFault ==
    /\ ServeLoop /\ ~faulting /\ ~faultQueued
    /\ faulting' = TRUE /\ gate' = "STOP_PENDING"
    /\ \E others \in BOOLEAN : cancelled' = SignalCancel(Subscribed, others)
    /\ UNCHANGED <<phase, coordinator, regVars, authority, ctlVars, stopCause,
                   stopError, stopLock, faultQueued, exit, taskVars>>

\* ... then revokes every session and sends StopCommand::Fault.
FaultRevoke ==
    /\ faulting /\ RegistryFree /\ CloseAndRevokeAll
    /\ faulting' = FALSE /\ faultQueued' = TRUE
    /\ UNCHANGED <<lifeVars, authority, ctlVars, stopCause, stopError, stopLock,
                   exit, taskVars>>

\* try_audit_retention: a maintenance failure closes every admission while
\* the coordinator is held.
RetentionFault ==
    /\ ServeLoop /\ coordinator = "free"
    /\ RejectIfNotRunning /\ RejectIfBusy
    /\ phase' = "Draining" /\ gate' = "STOP_PENDING" /\ CloseAndRevokeAll
    /\ \E others \in BOOLEAN : cancelled' = SignalCancel(Subscribed, others)
    /\ faultQueued' = TRUE /\ authority' \in {authority, "faulted"}
    /\ UNCHANGED <<coordinator, ctlVars, stopCause, stopError, stopLock,
                   faulting, exit, taskVars>>

-----------------------------------------------------------------------------
(* The serve loop and central_stop.                                        *)

\* select_stop: every cause but an unauthenticated admin request marks the
\* stop as pending at once.
SelectStop(cause) ==
    /\ ServeLoop /\ stopCause = "none"
    /\ cause = "fault" =>
         \/ faultQueued
         \/ supervisor = "panicked" /\ \A e \in Exec : pc[e] \in AtRest
    /\ stopCause' = cause
    /\ gate' = IF cause = "admin" THEN gate ELSE "STOP_PENDING"
    /\ faultQueued' = (faultQueued /\ cause # "fault")
    /\ UNCHANGED <<phase, cancelled, coordinator, regVars, authority, ctlVars,
                   stopError, stopLock, faulting, exit, taskVars>>

\* The stop deadline passes before the coordinator is free: an admin request
\* is rejected and serving continues, anything else aborts the executions.
StopTimeout ==
    /\ ServeLoop /\ stopCause # "none"
    /\ coordinator # "free" /\ stage \notin StopStage
    /\ \/ /\ stopCause = "admin" /\ stopCause' = "none"
          /\ UNCHANGED <<exit, supervisor>>
       \/ /\ stopCause # "admin" /\ exit' = "error" /\ supervisor' = "aborted"
          /\ UNCHANGED stopCause
    /\ UNCHANGED <<lifeVars, regVars, execVars, auditVars, authority, ctlVars,
                   stopError, stopLock, faultQueued, faulting, histVars, boots>>

\* The first error is a sticky audit failure, the fault itself or a status
\* that could not be read; the status decides whether an admin stop has a root
\* key to lock away.
StopAcquire ==
    /\ stopCause # "none"
    /\ TakeCoordinator(IF stopCause = "admin" THEN "stop-proof" ELSE "stop-begin")
    /\ \E status \in BOOLEAN :
         /\ stopError' = (failed \/ stopCause = "fault" \/ ~status)
         /\ stopLock' = (stopCause # "admin" \/ (status /\ authority = "unlocked"))
    /\ UNCHANGED <<phase, gate, cancelled, regVars, authority, previous,
                   drainOk, drained, stopCause, faultQueued, faulting, exit,
                   taskVars>>

\* Mutant of RejectStop: the serve loop keeps the rejected request.
RejectStopKeepsCause ==
    /\ ReleaseCoordinator /\ UNCHANGED <<stopCause, stopError, stopLock>>

\* StopDisposition::Rejected: the serve loop selects the next stop.
RejectStop ==
    /\ ReleaseCoordinator /\ stopCause' = "none"
    /\ stopError' = FALSE /\ stopLock' = FALSE

\* Only an authenticated admin request marks the stop; a refused one leaves
\* the broker serving, unless verification met a faulted Authority.
StopProof ==
    /\ At("stop-proof")
    /\ \/ /\ authority # "faulted" /\ gate' = "STOP_PENDING"
          /\ stage' = "stop-begin"
          /\ UNCHANGED <<coordinator, stopCause, stopError, stopLock, authority,
                         cancelled, regVars, faultQueued>>
       \/ /\ authority # "faulted" /\ RejectStop
          /\ UNCHANGED <<authority, gate, cancelled, regVars, faultQueued>>
       \/ /\ RegistryFree /\ RejectStop
          /\ authority' = "faulted" /\ gate' = "STOP_PENDING"
          /\ \E others \in BOOLEAN : cancelled' = SignalCancel(Subscribed, others)
          /\ CloseAndRevokeAll /\ faultQueued' = TRUE
    /\ UNCHANGED <<phase, previous, drainOk, drained, faulting, exit, taskVars>>

StopBegin ==
    /\ At("stop-begin") /\ stage' = "stop-revoke"
    /\ IF phase = "Running" THEN EnterDraining ELSE UNCHANGED <<phase, gate>>
    /\ UNCHANGED <<cancelled, coordinator, regVars, authority, previous,
                   drainOk, drained, stopVars, taskVars>>

\* Sessions are revoked and publish_shutdown closes the job intake.
StopRevoke ==
    /\ At("stop-revoke") /\ RegistryFree /\ CloseAndRevokeAll
    /\ stage' = "stop-wait"
    /\ supervisor' = IF supervisor = "accepting" THEN "closed" ELSE supervisor
    /\ UNCHANGED <<lifeVars, execVars, auditVars, authority, previous, drainOk,
                   drained, stopVars, histVars, boots>>

\* The natural deadline signals cancellation, the stop deadline records that
\* something is still in flight and goes on.
StopWait ==
    /\ At("stop-wait") \/ At("stop-cancelled")
    /\ \/ /\ Quiescent /\ stage' = "stop-join"
          /\ UNCHANGED <<cancelled, stopError>>
       \/ /\ ~Quiescent /\ stage = "stop-wait" /\ stage' = "stop-cancelled"
          /\ \E others \in BOOLEAN : cancelled' = SignalCancel(Subscribed, others)
          /\ UNCHANGED stopError
       \/ /\ ~Quiescent /\ stage = "stop-cancelled" /\ stage' = "stop-join"
          /\ stopError' = TRUE /\ UNCHANGED cancelled
    /\ UNCHANGED <<phase, gate, coordinator, regVars, authority, previous,
                   drainOk, drained, stopCause, stopLock, faultQueued, faulting,
                   exit, taskVars>>

\* The supervisor has joined its children, or is aborted at the deadline.
StopJoin ==
    /\ At("stop-join") /\ stage' = "stop-idle"
    /\ \/ /\ \A e \in Exec : pc[e] \in AtRest
          /\ stopError' = (stopError \/ supervisor = "panicked")
          /\ UNCHANGED supervisor
       \/ /\ \E e \in Exec : pc[e] \notin AtRest
          /\ stopError' = TRUE /\ supervisor' = "aborted"
    /\ UNCHANGED <<lifeVars, regVars, execVars, auditVars, authority, previous,
                   drainOk, drained, stopCause, stopLock, faultQueued, faulting,
                   exit, histVars, boots>>

\* Mutant of StopIdle: pending terminals are locked away like any others.
StopIdleIgnoresPending ==
    /\ At("stop-idle") /\ stage' = "stop-lock"
    /\ stopError' = (stopError \/ failed)
    /\ UNCHANGED <<lifeVars, regVars, authority, previous, drainOk, drained,
                   stopCause, stopLock, faultQueued, faulting, exit, taskVars>>

\* wait_idle_until and has_pending: with rows still pending the stop ends in
\* an error and leaves the Authority to the terminal worker.
StopIdle ==
    /\ At("stop-idle")
    /\ \/ /\ queue = <<>> /\ stage' = "stop-lock"
          /\ stopError' \in {stopError \/ failed, TRUE}
          /\ UNCHANGED <<phase, gate, cancelled, coordinator, exit>>
       \/ /\ queue # <<>> /\ ReleaseCoordinator /\ exit' = "error"
          /\ \E others \in BOOLEAN : EnterShuttingDown(Subscribed, others)
          /\ UNCHANGED stopError
    /\ UNCHANGED <<regVars, authority, previous, drainOk, drained, stopCause,
                   stopLock, faultQueued, faulting, taskVars>>

\* lock or lock_for_restart
StopLock ==
    /\ At("stop-lock") /\ stage' = "stop-final"
    /\ \/ /\ ~stopLock /\ UNCHANGED <<authority, phase, gate, cancelled, stopError>>
       \/ /\ stopLock /\ AuthorityLock(TRUE) /\ EnterLocked
          /\ UNCHANGED stopError
       \/ /\ stopLock /\ AuthorityLock(FALSE) /\ stopError' = TRUE
          /\ UNCHANGED <<phase, gate, cancelled>>
    /\ UNCHANGED <<coordinator, regVars, previous, drainOk, drained, stopCause,
                   stopLock, faultQueued, faulting, exit, taskVars>>

\* enter_shutting_down, then Authority shutdown, which an unlocked Authority
\* refuses; without an error the stop is clean.
StopFinal ==
    /\ At("stop-final") /\ ReleaseCoordinator
    /\ \E others \in BOOLEAN : EnterShuttingDown(Subscribed, others)
    /\ \/ /\ authority # "unlocked" /\ authority' = "down"
          /\ exit' = IF stopError THEN "error" ELSE "clean"
       \/ /\ authority' \in {authority} \cup
                   (IF authority = "unlocked" THEN {} ELSE {"down"})
          /\ exit' = "error"
    /\ UNCHANGED <<regVars, previous, drainOk, drained, stopCause, stopError,
                   stopLock, faultQueued, faulting, taskVars>>

-----------------------------------------------------------------------------
(* A crash, or an exit, and the next start.                                *)

\* reconcile_abandoned_executions
Reconcile ==
    [e \in Exec |-> IF Len(journal[e]) = 1
                    THEN Append(journal[e], "indeterminate") ELSE journal[e]]

\* Everything but the journal is volatile; request ids are not reused.
Restart ==
    /\ boots < MaxBoots /\ boots' = boots + 1
    /\ journal' = Reconcile
    /\ phase' = "Locked" /\ gate' = "CLOSED" /\ cancelled' = FALSE
    /\ coordinator' = "free" /\ closed' = TRUE
    /\ session' = [s \in Session |->
                     IF session[s] = "absent" THEN "absent" ELSE "revoked"]
    /\ pc' = [e \in Exec |-> IF pc[e] = "idle" THEN "idle" ELSE "done"]
    /\ permit' = [e \in Exec |-> "none"]
    /\ queue' = <<>> /\ failed' = FALSE /\ authority' = "locked"
    /\ stage' = "none" /\ previous' = "Locked"
    /\ drainOk' = FALSE /\ drained' = FALSE
    /\ stopCause' = "none" /\ stopError' = FALSE /\ stopLock' = FALSE
    /\ faultQueued' = FALSE /\ faulting' = FALSE /\ exit' = "none"
    /\ supervisor' = "accepting"
    /\ UNCHANGED <<effect, refreshed, histVars>>

-----------------------------------------------------------------------------
Admission(e) ==
    \/ Acquire(e) \/ AcquireConnection(e) \/ WaitForCoordinator(e)
    \/ RefuseAdmission(e) \/ SubmitStarted(e) \/ ReceiveStarted(e)
    \/ AdmissionTimeout(e)

Running(e) ==
    \/ Subscribe(e) \/ Cancel(e) \/ FailBeforeHandoff(e)
    \/ RefreshGate(e) \/ RefreshSend(e) \/ RefreshDone(e) \/ RefreshFail(e)
    \/ JoinCoordinator(e) \/ HandoffRevoked(e) \/ HandoffEnter(e)
    \/ HandoffSend(e) \/ Contact(e)
    \/ Respond(e) \/ FailIndeterminate(e) \/ FailNoEffect(e)
    \/ TerminalTimeout(e) \/ Return(e)

Worker == WorkStarted \/ WorkTerminal

Unlock ==
    \/ UnlockBegin \/ UnlockAuthority \/ ActivateFailed \/ EnterRunning
    \/ FinishRunning \/ OpenAdmission \/ Rollback

Drain ==
    \/ DrainLocked \/ DrainBegin \/ IdleDrain \/ DrainRevoke \/ DrainWait
    \/ DrainIdle \/ DrainLock

Fault == RequestFault \/ FaultRevoke \/ RetentionFault

Stop ==
    \/ \E cause \in StopCause : SelectStop(cause)
    \/ StopTimeout \/ StopAcquire \/ StopProof \/ StopBegin \/ StopRevoke
    \/ StopWait \/ StopJoin \/ StopIdle \/ StopLock \/ StopFinal

Next ==
    \/ \E s \in Session : CreateSession(s) \/ RevokeSession(s)
    \/ \E e \in Exec : Admission(e) \/ Running(e) \/ Panic(e) \/ Abort(e)
    \/ Worker \/ Unlock \/ Drain \/ Fault \/ Stop \/ Restart

Spec == Init /\ [][Next]_vars

\* Every await in these operations is bounded by a deadline or answered by a
\* thread that keeps running, and tokio polls a woken task eventually.  The
\* environment (sessions, unlock requests, stops, faults, crashes) is not fair.
FairSpec ==
    /\ Spec
    /\ \A e \in Exec :
         /\ WF_vars(Running(e)) /\ WF_vars(Abort(e))
         /\ WF_vars(ReceiveStarted(e) \/ RefuseAdmission(e))
    /\ WF_vars(Worker)
    /\ WF_vars(UnlockAuthority \/ ActivateFailed \/ EnterRunning
               \/ FinishRunning \/ OpenAdmission \/ Rollback)
    /\ WF_vars(DrainRevoke \/ DrainWait \/ DrainIdle \/ DrainLock)
    /\ WF_vars(FaultRevoke)
    /\ WF_vars(StopTimeout \/ StopAcquire \/ StopProof \/ StopBegin
               \/ StopRevoke \/ StopWait \/ StopJoin \/ StopIdle \/ StopLock
               \/ StopFinal)

-----------------------------------------------------------------------------
(* Properties.                                                             *)

Unterminated(e) == Len(journal[e]) = 1

\* Durable evidence never lies about the remote side.  A committed
\* `execution.blocked` row means no endpoint received a request of that
\* execution, a committed `execution.finished` row means the target did: the
\* executor chooses the row from the effect marker, which is set before the
\* transport future is constructed (executor.rs, audit.rs).
TerminalTruthful ==
    \A e \in Exec : Len(journal[e]) = 2 =>
        /\ journal[e][2] = "blocked" => reached[e] = {}
        /\ journal[e][2] = "finished" => "target" \in reached[e]

\* Each execution's evidence is nothing, a started row, or a started row and
\* one terminal row, whatever timeouts, panics, aborts and restarts do: the
\* guard, the audit worker and reconciliation never both write the terminal.
JournalWellFormed ==
    \A e \in Exec :
        \/ journal[e] \in {<<>>, <<"started">>}
        \/ \E row \in TerminalRow : journal[e] = <<"started", row>>

\* No endpoint is contacted for an execution whose started row is not
\* durable (commit_started returns the guard only after the commit).
EffectsAreStarted ==
    \A e \in Exec : reached[e] # {} => journal[e] # <<>>

\* A caller is told of success only when the finished row is durable
\* (finish_buffered_response awaits the commit before it returns).
ResponsesAreEvidenced ==
    \A e \in delivered : journal[e] = <<"started", "finished">>

\* A started row is never orphaned: until its terminal is durable, a guard, a
\* queued terminal or the sticky audit failure answers for it (the Drop of
\* StartedAuditGuard, the worker's pending count, AuditSubmissionQueue.failed).
TerminalOwned ==
    \A e \in Exec : Unterminated(e) =>
        \/ pc[e] \in Guarded
        \/ \E i \in 1..Len(queue) : queue[i].exec = e
        \/ failed

\* The evidence as a whole, under one execution's every interleaving with
\* cancellation, lock, stop, fault, abort and restart: well formed, before the
\* effect, before the answer, truthful and never orphaned.
EvidenceIsTrue ==
    /\ JournalWellFormed /\ EffectsAreStarted /\ ResponsesAreEvidenced
    /\ TerminalTruthful /\ TerminalOwned

\* While an execution is in its protected handoff nobody can stop, lock or
\* revoke under it: it owns the coordinator, the broker is running and its
\* session is live.
HandoffProtected ==
    \A e \in Exec : pc[e] = "handing" =>
        /\ coordinator = e /\ phase = "Running"
        /\ ~IsConnection(e) => ~closed /\ session[SessionOf[e]] = "live"

\* A drain_lock that reported success left nothing behind: no execution holds
\* a permit, no row is pending, every started row has its terminal and the
\* broker is not serving, until the next unlock begins.
DrainComplete ==
    drained => /\ \A e \in Exec : ~Unterminated(e) /\ permit[e] = "none"
               /\ queue = <<>> /\ phase # "Running"

\* A clean exit of serve means complete evidence, a stopped Authority, no
\* running execution task and a closed gate.
CleanExitComplete ==
    exit = "clean" =>
        /\ \A e \in Exec : pc[e] \in AtRest /\ ~Unterminated(e)
        /\ queue = <<>> /\ ~failed
        /\ authority = "down" /\ phase = "ShuttingDown" /\ gate # "OPEN"

\* Whoever is told that the broker is closed, the administrator who locks it or
\* the supervisor that sees serve return cleanly, finds nothing left to settle.
ClosedIsComplete == DrainComplete /\ CleanExitComplete

\* A Connection execution whose terminal could not be recorded closes the
\* gate before its capacity is returned (Drop of ConnectionExecutionPermit),
\* so a Connection never serves on top of unrecorded effects.
LostTerminalClosesGate ==
    \A e \in Exec :
        IsConnection(e) /\ Unterminated(e) /\ permit[e] = "none"
            => gate = "STOP_PENDING"

\* Connection capacity counts evidence, not tasks: an execution keeps its slot
\* until its terminal is committed, and the slots never exceed the limits.
ConnectionBounded ==
    /\ Cardinality(ConnectionHolders) <= MaxConnectionExecutions
    /\ \A e \in ConnectionHolders :
         Cardinality({f \in ConnectionHolders : ConnectionOf[f] = ConnectionOf[e]})
           <= MaxExecutionsPerConnection
    /\ \A e \in Exec : IsConnection(e) /\ Unterminated(e)
                         => permit[e] = "armed" \/ failed

\* A pending stop is never forgotten within a process: no unlock, drain or
\* late enter_running overwrites STOP_PENDING (compare_exchange in
\* close_remote_effect_admission and enter_running).
StopPendingSticky ==
    [][gate = "STOP_PENDING" => gate' = "STOP_PENDING" \/ boots' # boots]_vars

\* Once a drain_lock has reported success, or serve has ended cleanly, nothing
\* admitted before contacts any endpoint: not the handoff that was queued for
\* the coordinator, nor the OAuth refresh that read the gate without it.  The
\* next unlock ends the promise of a drain.
NoEffectAfterDrain ==
    [][drained \/ exit = "clean" => reached' = reached]_vars

\* The executions past their last look at the gate: in the protected handoff or
\* on the way to it in a refresh, and those whose future has been polled and
\* goes on without any lock.
MayContact ==
    {e \in Exec : pc[e] \in {"refreshGate", "refresh", "handing", "inflight"}}

\* A pending stop ends the effects of this process from behind: nobody passes
\* the gate any more, so the executions that may still contact an endpoint only
\* become fewer, and an endpoint contacted after the stop was contacted by one
\* of them.  A refresh that finishes meanwhile does not go on to its target
\* (poll_http_while_live and oauth::Manager::bearer read the gate; neither a
\* fault nor a stop waits for the polled futures, which the natural deadline
\* cancels).
NoEffectAfterStop ==
    [][gate = "STOP_PENDING" =>
         \/ boots' # boots
         \/ /\ MayContact' \subseteq MayContact
            /\ \A e \in Exec : reached'[e] # reached[e] => e \in MayContact]_vars

\* A started row eventually gets its terminal, or the failure is recorded as
\* sticky.
StartedIsTerminated ==
    \A e \in Exec : Unterminated(e) ~> (~Unterminated(e) \/ failed)

\* A selected stop ends: the process exits or the admin request is rejected.
StopsEnd == stopCause # "none" ~> (stopCause = "none" \/ exit # "none")

\* The broker implements the ledger of effects: whatever interleaving of
\* admission, cancellation, drain, stop, fault, panic and restart, each
\* execution is started before it contacts anyone, is terminated once and
\* truthfully, contacts nobody afterwards, and success is told only then.
Ledger == INSTANCE EffectLedger WITH rows <- journal, told <- delivered

ImplementsLedger == Ledger!Spec
=============================================================================
