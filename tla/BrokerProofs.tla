---------------------------- MODULE BrokerProofs ----------------------------
(***************************************************************************)
(* Theorems about Broker, for every set of executions, sessions and        *)
(* Connections and every capacity: type correctness, the handoff, the end  *)
(* of effects with a pending stop, and the evidence an execution leaves.   *)
(***************************************************************************)
EXTENDS Broker, TLAPS

-----------------------------------------------------------------------------
(* Types of the helpers.                                                   *)

\* A queued submission keeps the queue a sequence of submissions.
LEMMA EnqueueType ==
    ASSUME NEW e \in Exec, NEW row \in Row, queue \in Seq(Submission),
           Enqueue(e, row)
    PROVE  queue' \in Seq(Submission)
<1>1. [exec |-> e, row |-> row] \in Submission
  BY DEF Submission
<1> QED
  BY <1>1 DEF Enqueue

\* The row of an owner that gives up is a row.
LEMMA FallbackType == ASSUME NEW e \in Exec PROVE Fallback(e) \in Row
BY DEF Fallback, Row

\* Queueing a terminal keeps the types, given those its caller fixes.
LEMMA SubmitTerminalType ==
    ASSUME TypeOK, NEW e \in Exec, NEW row \in Row, NEW next \in ExecPc,
           SubmitTerminal(e, row, next),
           coordinator' \in CoordinatorOwner, effect' \in [Exec -> BOOLEAN]
    PROVE  TypeOK'
<1>1. queue' \in Seq(Submission)
  BY EnqueueType DEF SubmitTerminal, TypeOK, TaskTypeOK
<1>2. pc' \in [Exec -> ExecPc]
  BY DEF SubmitTerminal, TypeOK, TaskTypeOK, Goto
<1> QED
  BY <1>1, <1>2 DEF SubmitTerminal, TypeOK, LifecycleTypeOK, RegistryTypeOK,
     TaskTypeOK, ControlTypeOK,
       StopTypeOK, lifeVars, regVars, execVars, auditVars, ctlVars, stopVars, histVars

\* A step that only moves an execution keeps the types.
LEMMA MoveType ==
    ASSUME TypeOK, NEW e \in Exec, NEW next \in ExecPc, Goto(e, next),
           UNCHANGED <<lifeVars, regVars, permit, effect, refreshed, auditVars,
                       authority, ctlVars, stopVars, supervisor, histVars,
                       boots>>
    PROVE  TypeOK'
BY DEF Goto, TypeOK, LifecycleTypeOK, RegistryTypeOK, TaskTypeOK, ControlTypeOK,
       StopTypeOK, lifeVars, regVars, execVars, auditVars, ctlVars, stopVars, histVars

\* The program counters by name.
LEMMA PcNames ==
    ExecPc = {"acquired", "waiting", "committing", "rejected", "replied",
              "admitted", "running", "queued", "refreshGate", "refresh",
              "handing", "inflight", "finishing", "awaiting", "closing",
              "confirmed", "idle", "abandoned", "done"}
BY DEF ExecPc, Admitting, Guarded, Submitted, AtRest

\* What dropping a task, a permit or the coordinator yields is typed.
LEMMA DropTypes ==
    ASSUME TypeOK, NEW e \in Exec
    PROVE  /\ Release(e) => coordinator' \in CoordinatorOwner
           /\ DropExecutionPermit(e) => permit' \in [Exec -> PermitState]
           /\ DropTask(e) => /\ coordinator' \in CoordinatorOwner
                             /\ permit' \in [Exec -> PermitState]
                             /\ pc' \in [Exec -> ExecPc]
                             /\ queue' \in Seq(Submission)
<1> USE DEF TypeOK, TaskTypeOK, LifecycleTypeOK
<1>1. Release(e) => coordinator' \in CoordinatorOwner
  BY DEF Release, CoordinatorOwner
<1>2. DropExecutionPermit(e) => permit' \in [Exec -> PermitState]
  BY DEF DropExecutionPermit, PermitState
<1>3. ASSUME DropTask(e)
      PROVE  /\ permit' \in [Exec -> PermitState]
             /\ pc' \in [Exec -> ExecPc]
             /\ queue' \in Seq(Submission)
  <2>1. permit' \in [Exec -> PermitState]
    BY <1>3 DEF DropTask, PermitState
  <2>2. pc' \in [Exec -> ExecPc]
    BY <1>3, PcNames DEF DropTask, Goto
  <2>3. queue' \in Seq(Submission)
    <3>1. CASE pc[e] \in Guarded
      BY <1>3, <3>1, EnqueueType, FallbackType DEF DropTask
    <3>2. CASE pc[e] \notin Guarded
      BY <1>3, <3>2 DEF DropTask
    <3> QED
      BY <3>1, <3>2
  <2> QED
    BY <2>1, <2>2, <2>3
<1> QED
  BY <1>1, <1>2, <1>3 DEF DropTask

-----------------------------------------------------------------------------
(* Every action keeps the types.                                           *)

\* Every admission step (executor.rs, executor/local.rs) keeps the types.
LEMMA AdmissionType ==
    ASSUME TypeOK, NEW e \in Exec, Admission(e)
    PROVE  TypeOK'
<1> USE DEF TypeOK, LifecycleTypeOK, RegistryTypeOK, TaskTypeOK, ControlTypeOK,
       StopTypeOK, lifeVars, regVars, execVars, auditVars, ctlVars, stopVars, histVars
<1>1. CASE Acquire(e)
  BY <1>1, PcNames DEF Acquire, PermitState, Goto
<1>2. CASE AcquireConnection(e)
  BY <1>2, PcNames DEF AcquireConnection, Goto
<1>3. CASE WaitForCoordinator(e)
  BY <1>3, PcNames DEF WaitForCoordinator, Goto
<1>4. CASE RefuseAdmission(e)
  BY <1>4, PcNames, DropTypes DEF RefuseAdmission, Goto
<1>5. CASE SubmitStarted(e)
  <2>1. queue' \in Seq(Submission)
    BY <1>5, EnqueueType DEF SubmitStarted, Row
  <2> QED
    BY <1>5, <2>1, PcNames DEF SubmitStarted, PermitState, CoordinatorOwner,
       Goto
<1>6. CASE ReceiveStarted(e)
  <2>1. permit' \in [Exec -> PermitState] /\ coordinator' \in CoordinatorOwner
    BY <1>6, DropTypes DEF ReceiveStarted
  <2>2. pc' \in [Exec -> ExecPc]
    BY <1>6, PcNames DEF ReceiveStarted, Goto
  <2> QED
    BY <1>6, <2>1, <2>2 DEF ReceiveStarted
<1>7. CASE AdmissionTimeout(e)
  <2>1. permit' \in [Exec -> PermitState] /\ coordinator' \in CoordinatorOwner
    BY <1>7, DropTypes DEF AdmissionTimeout
  <2>2. queue' \in Seq(Submission)
    BY <1>7, EnqueueType, FallbackType DEF AdmissionTimeout
  <2>3. pc' \in [Exec -> ExecPc]
    BY <1>7, PcNames DEF AdmissionTimeout, Goto
  <2> QED
    BY <1>7, <2>1, <2>2, <2>3 DEF AdmissionTimeout
<1> QED
  BY <1>1, <1>2, <1>3, <1>4, <1>5, <1>6, <1>7 DEF Admission

\* Every step of an admitted execution (run_inner and below) keeps the types.
LEMMA RunningType ==
    ASSUME TypeOK, NEW e \in Exec, Running(e)
    PROVE  TypeOK'
<1>0. /\ Fallback(e) \in Row
      /\ {"blocked", "indeterminate", "finished"} \subseteq Row
      /\ {"running", "queued", "refreshGate", "refresh", "handing", "inflight",
          "finishing", "awaiting", "closing", "done"} \subseteq ExecPc
  BY FallbackType, PcNames DEF Row
<1>1. CASE UNCHANGED <<coordinator, effect>> /\ \E row \in Row, next \in ExecPc :
             SubmitTerminal(e, row, next)
  BY <1>1, SubmitTerminalType DEF TypeOK, TaskTypeOK, LifecycleTypeOK
<1>2. CASE \E next \in ExecPc : Goto(e, next)
             /\ UNCHANGED <<lifeVars, regVars, permit, effect, refreshed,
                            auditVars, authority, ctlVars, stopVars, supervisor,
                            histVars, boots>>
  BY <1>2, MoveType
<1>3. CASE Subscribe(e)
  BY <1>3, <1>0, <1>1, <1>2 DEF Subscribe, lifeVars
<1>4. CASE Cancel(e)
  BY <1>4, <1>0, <1>1, <1>2 DEF Cancel, lifeVars
<1>5. CASE FailBeforeHandoff(e)
  BY <1>5, <1>0, <1>1 DEF FailBeforeHandoff
<1>6. CASE RefreshGate(e)
  BY <1>6, <1>0, <1>1, <1>2 DEF RefreshGate, lifeVars
<1>7. CASE JoinCoordinator(e)
  BY <1>7, <1>0, <1>1, <1>2 DEF JoinCoordinator, lifeVars
<1>8. CASE HandoffRevoked(e)
  BY <1>8, <1>0, <1>1 DEF HandoffRevoked
<1>9. CASE Respond(e)
  BY <1>9, <1>0, <1>1 DEF Respond
<1>10. CASE FailIndeterminate(e)
  BY <1>10, <1>0, <1>1 DEF FailIndeterminate
<1>11. CASE TerminalTimeout(e)
  BY <1>11, <1>0, <1>2 DEF TerminalTimeout
<1>12. CASE RefreshSend(e)
  <2>1. pc' \in [Exec -> ExecPc] /\ effect' \in [Exec -> BOOLEAN]
    BY <1>12, <1>0 DEF RefreshSend, TypeOK, TaskTypeOK, Goto
  <2> QED
    BY <1>12, <2>1 DEF RefreshSend, TypeOK, LifecycleTypeOK,
       RegistryTypeOK, TaskTypeOK,
       ControlTypeOK, StopTypeOK, lifeVars, regVars, execVars, auditVars, ctlVars,
       stopVars, histVars
<1>13. CASE RefreshDone(e)
  <2>1. pc' \in [Exec -> ExecPc] /\ refreshed' \in [Exec -> BOOLEAN]
    BY <1>13, <1>0 DEF RefreshDone, TypeOK, TaskTypeOK, Goto
  <2> QED
    BY <1>13, <2>1 DEF RefreshDone, TypeOK, LifecycleTypeOK, RegistryTypeOK,
       TaskTypeOK,
       ControlTypeOK, StopTypeOK, lifeVars, regVars, execVars, auditVars, ctlVars,
       stopVars, histVars
<1>14. CASE RefreshFail(e)
  <2>1. effect' \in [Exec -> BOOLEAN] /\ coordinator' \in CoordinatorOwner
    BY <1>14 DEF RefreshFail, TypeOK, TaskTypeOK, LifecycleTypeOK
  <2> QED
    BY <1>14, <2>1, <1>0, SubmitTerminalType DEF RefreshFail
<1>15. CASE HandoffEnter(e)
  <2>1. CASE HandoffAllowed(e) /\ coordinator' = e /\ Goto(e, "handing")
    <3>1. pc' \in [Exec -> ExecPc] /\ coordinator' \in CoordinatorOwner
      BY <2>1, <1>0 DEF TypeOK, TaskTypeOK, Goto, CoordinatorOwner
    <3>2. UNCHANGED <<phase, gate, cancelled, regVars, permit, effect,
                      refreshed, auditVars, authority, ctlVars, stopVars,
                      supervisor, histVars, boots>>
      BY <1>15, <2>1 DEF HandoffEnter
    <3> QED
      BY <3>1, <3>2 DEF TypeOK, LifecycleTypeOK, RegistryTypeOK, TaskTypeOK,
       ControlTypeOK, StopTypeOK, lifeVars, regVars, execVars, auditVars, ctlVars,
       stopVars, histVars
  <2>2. CASE ~HandoffAllowed(e)
    BY <1>15, <2>2, <1>0, <1>1 DEF HandoffEnter
  <2> QED
    BY <1>15, <2>1, <2>2 DEF HandoffEnter
<1>16. CASE HandoffSend(e)
  <2>1. pc' \in [Exec -> ExecPc] /\ effect' \in [Exec -> BOOLEAN]
    BY <1>16, <1>0 DEF HandoffSend, TypeOK, TaskTypeOK, Goto
  <2>2. coordinator' \in CoordinatorOwner
    BY <1>16, DropTypes DEF HandoffSend
  <2> QED
    BY <1>16, <2>1, <2>2 DEF HandoffSend, TypeOK, LifecycleTypeOK,
       RegistryTypeOK, TaskTypeOK,
       ControlTypeOK, StopTypeOK, lifeVars, regVars, execVars, auditVars, ctlVars,
       stopVars, histVars
<1>c. CASE Contact(e)
  <2>1. reached[e] \cup {Heading(e)} \in SUBSET Endpoint
    BY DEF TypeOK, TaskTypeOK, Endpoint, Heading
  <2>2. reached' \in [Exec -> SUBSET Endpoint]
    BY <1>c, <2>1 DEF Contact, TypeOK, TaskTypeOK
  <2> QED
    BY <1>c, <2>2 DEF Contact, TypeOK, LifecycleTypeOK, RegistryTypeOK, TaskTypeOK,
       ControlTypeOK, StopTypeOK, lifeVars, regVars, execVars, auditVars, ctlVars,
       stopVars
<1>17. CASE FailNoEffect(e)
  <2>1. effect' \in [Exec -> BOOLEAN] /\ coordinator' \in CoordinatorOwner
    BY <1>17 DEF FailNoEffect, TypeOK, TaskTypeOK, LifecycleTypeOK
  <2> QED
    BY <1>17, <2>1, <1>0, SubmitTerminalType DEF FailNoEffect
<1>18. CASE Return(e)
  <2>1. pc' \in [Exec -> ExecPc] /\ delivered' \subseteq Exec
    BY <1>18, <1>0 DEF Return, TypeOK, TaskTypeOK, Goto
  <2>2. permit' \in [Exec -> PermitState]
    BY <1>18, DropTypes DEF Return
  <2> QED
    BY <1>18, <2>1, <2>2 DEF Return, TypeOK, LifecycleTypeOK, RegistryTypeOK,
       TaskTypeOK,
       ControlTypeOK, StopTypeOK, lifeVars, regVars, execVars, auditVars, ctlVars,
       stopVars, histVars
<1> QED
  BY <1>3, <1>4, <1>5, <1>6, <1>7, <1>8, <1>9, <1>10, <1>11, <1>12, <1>13,
     <1>14, <1>15, <1>16, <1>17, <1>c, <1>18 DEF Running

\* A panicking or aborted execution task keeps the types.
LEMMA UnwindType ==
    ASSUME TypeOK, NEW e \in Exec, Panic(e) \/ Abort(e)
    PROVE  TypeOK'
<1>1. DropTask(e)
  BY DEF Panic, Abort
<1>2. /\ coordinator' \in CoordinatorOwner
      /\ permit' \in [Exec -> PermitState]
      /\ pc' \in [Exec -> ExecPc]
      /\ queue' \in Seq(Submission)
  BY <1>1, DropTypes
<1>3. CASE Panic(e)
  BY <1>2, <1>3 DEF Panic, TypeOK, LifecycleTypeOK, RegistryTypeOK, TaskTypeOK,
       ControlTypeOK, StopTypeOK, lifeVars, regVars, execVars, auditVars, ctlVars,
       stopVars, histVars
<1>4. CASE Abort(e)
  BY <1>2, <1>4 DEF Abort, TypeOK, LifecycleTypeOK, RegistryTypeOK, TaskTypeOK,
       ControlTypeOK, StopTypeOK, lifeVars, regVars, execVars, auditVars, ctlVars,
       stopVars, histVars
<1> QED
  BY <1>3, <1>4

\* What the worker takes from the queue is a row of an execution.
LEMMA HeadType ==
    ASSUME TypeOK, Worker
    PROVE  /\ queue # <<>> /\ Tail(queue) \in Seq(Submission)
           /\ Head1.exec \in Exec /\ Head1.row \in Row
<1>1. queue # <<>> /\ Head(queue) \in Submission /\ Tail(queue) \in Seq(Submission)
  BY DEF Worker, WorkStarted, WorkTerminal, TypeOK, TaskTypeOK
<1> QED
  BY <1>1 DEF Head1, Submission

\* Both commits of the audit worker, successful or failed, keep the types.
LEMMA WorkerType ==
    ASSUME TypeOK, Worker
    PROVE  TypeOK'
<1> DEFINE e == Head1.exec
<1>1. queue # <<>> /\ Tail(queue) \in Seq(Submission)
  BY HeadType
<1>2. e \in Exec /\ Head1.row \in Row
  BY HeadType
<1>3. /\ {"replied", "rejected", "confirmed", "closing", "done"} \subseteq ExecPc
      /\ "started" \in Row
      /\ "none" \in PermitState /\ "armed" \in PermitState
  BY PcNames DEF Row, PermitState
<1>4. AuthorityAfterError(TRUE) \in AuthorityState /\ AuthorityAfterError(FALSE) \in AuthorityState
  BY DEF AuthorityAfterError, AuthorityState, TypeOK, TaskTypeOK
<1>5. CASE WorkStarted
  <2>1. pc' \in [Exec -> ExecPc]
    BY <1>2, <1>3, <1>5 DEF WorkStarted, StartedCommitted, StartedRefused,
       Goto, TypeOK, TaskTypeOK
  <2>2. permit' \in [Exec -> PermitState]
    BY <1>2, <1>3, <1>5 DEF WorkStarted, StartedCommitted, StartedRefused,
       TypeOK, TaskTypeOK
  <2>3. journal' \in [Exec -> Seq(Row)]
    <3>1. Append(journal[e], "started") \in Seq(Row)
      BY <1>2, <1>3 DEF TypeOK, TaskTypeOK
    <3> QED
      BY <1>2, <1>5, <3>1 DEF WorkStarted, StartedCommitted, StartedRefused,
         TypeOK, TaskTypeOK
  <2>4. queue' \in Seq(Submission)
    <3>1. [exec |-> e, row |-> "blocked"] \in Submission
      BY <1>2 DEF Submission, Row
    <3>2. Append(Tail(queue), [exec |-> e, row |-> "blocked"]) \in Seq(Submission)
      BY <1>1, <3>1
    <3> QED
      BY <1>1, <1>5, <3>2 DEF WorkStarted, StartedCommitted, StartedRefused
  <2>5. failed' \in BOOLEAN /\ authority' \in AuthorityState
    BY <1>4, <1>5 DEF WorkStarted, TypeOK, TaskTypeOK
  <2> QED
    BY <1>5, <2>1, <2>2, <2>3, <2>4, <2>5 DEF WorkStarted, TypeOK,
       LifecycleTypeOK, RegistryTypeOK, TaskTypeOK,
       ControlTypeOK, StopTypeOK, lifeVars, regVars, execVars, auditVars, ctlVars,
       stopVars, histVars
<1>6. CASE WorkTerminal
  <2>1. pc' \in [Exec -> ExecPc]
    BY <1>2, <1>3, <1>6 DEF WorkTerminal, TypeOK, TaskTypeOK
  <2>2. permit' \in [Exec -> PermitState]
    BY <1>2, <1>3, <1>6 DEF WorkTerminal, TypeOK, TaskTypeOK
  <2>3. journal' \in [Exec -> Seq(Row)]
    <3>1. Append(journal[e], Head1.row) \in Seq(Row)
      BY <1>2, <1>3 DEF TypeOK, TaskTypeOK
    <3> QED
      BY <1>2, <1>6, <3>1 DEF WorkTerminal, TypeOK, TaskTypeOK
  <2>4. queue' \in Seq(Submission)
    BY <1>1, <1>6 DEF WorkTerminal
  <2>5. failed' \in BOOLEAN /\ authority' \in AuthorityState
    BY <1>4, <1>6 DEF WorkTerminal, TypeOK, TaskTypeOK
  <2>6. gate' \in RemoteEffectGate
    BY <1>6 DEF WorkTerminal, LoseTerminal, TypeOK, TaskTypeOK,
       LifecycleTypeOK, RemoteEffectGate
  <2> QED
    BY <1>6, <2>1, <2>2, <2>3, <2>4, <2>5, <2>6 DEF WorkTerminal, TypeOK,
       LifecycleTypeOK, RegistryTypeOK, TaskTypeOK,
       ControlTypeOK, StopTypeOK, lifeVars, regVars, execVars, auditVars, ctlVars,
       stopVars, histVars
<1> QED
  BY <1>5, <1>6 DEF Worker

\* What a step leaves alone stays typed; what the control operations write is
\* typed.
LEMMA FrameTypes ==
    ASSUME TypeOK
    PROVE  /\ UNCHANGED lifeVars => LifecycleTypeOK'
           /\ UNCHANGED regVars => RegistryTypeOK'
           /\ CloseAndRevokeAll => RegistryTypeOK'
           /\ UNCHANGED taskVars => TaskTypeOK'
           /\ UNCHANGED ctlVars => ControlTypeOK'
           /\ UNCHANGED stopVars => StopTypeOK'
<1>1. UNCHANGED lifeVars => LifecycleTypeOK'
  BY DEF TypeOK, LifecycleTypeOK, lifeVars
<1>2. UNCHANGED regVars => RegistryTypeOK'
  BY DEF TypeOK, RegistryTypeOK, regVars
<1>3. CloseAndRevokeAll => RegistryTypeOK'
  BY DEF TypeOK, RegistryTypeOK, CloseAndRevokeAll, SessionState
<1>4. UNCHANGED taskVars => TaskTypeOK'
  BY DEF TypeOK, TaskTypeOK, taskVars, execVars, auditVars, histVars
<1>5. UNCHANGED ctlVars => ControlTypeOK'
  BY DEF TypeOK, ControlTypeOK, ctlVars
<1>6. UNCHANGED stopVars => StopTypeOK'
  BY DEF TypeOK, StopTypeOK, stopVars
<1> QED
  BY <1>1, <1>2, <1>3, <1>4, <1>5, <1>6

\* What closing the gate, signalling cancellation and locking the Authority
\* write is typed.
LEMMA WrittenTypes ==
    ASSUME TypeOK
    PROVE  /\ CloseRemoteEffectAdmission(gate) \in RemoteEffectGate
           /\ \A others \in BOOLEAN : SignalCancel(Subscribed, others) \in BOOLEAN
           /\ AuthorityLock(TRUE) => authority' \in AuthorityState
           /\ AuthorityLock(FALSE) => authority' \in AuthorityState
<1>1. CloseRemoteEffectAdmission(gate) \in RemoteEffectGate
  BY DEF TypeOK, LifecycleTypeOK, CloseRemoteEffectAdmission, RemoteEffectGate
<1>2. \A others \in BOOLEAN : SignalCancel(Subscribed, others) \in BOOLEAN
  BY DEF SignalCancel
<1>3. AuthorityLock(TRUE) => authority' \in AuthorityState
  BY DEF TypeOK, AuthorityLock, AuthorityState
<1>4. AuthorityLock(FALSE) => authority' \in AuthorityState
  BY DEF TypeOK, AuthorityLock, AuthorityState
<1> QED
  BY <1>1, <1>2, <1>3, <1>4

\* Every step of an unlock and of its rollback keeps the types.
LEMMA UnlockType ==
    ASSUME TypeOK, Unlock
    PROVE  TypeOK'
<1>1. CASE UnlockBegin
  <2>1. LifecycleTypeOK'
    BY <1>1, FrameTypes, WrittenTypes DEF UnlockBegin, TypeOK,
       LifecycleTypeOK, BrokerPhase,
       RemoteEffectGate, CoordinatorOwner, TakeCoordinator, ReleaseCoordinator
  <2>2. ControlTypeOK'
    BY <1>1, FrameTypes, WrittenTypes DEF UnlockBegin, ctlVars, TypeOK,
       LifecycleTypeOK, ControlTypeOK,
       Stage, TakeCoordinator, ReleaseCoordinator
  <2> QED
    BY <1>1, <2>1, <2>2, FrameTypes DEF UnlockBegin, TypeOK
<1>2. CASE UnlockAuthority
  <2>1. LifecycleTypeOK'
    BY <1>2, FrameTypes, WrittenTypes DEF UnlockAuthority, lifeVars, TypeOK,
       LifecycleTypeOK, BrokerPhase,
       RemoteEffectGate, CoordinatorOwner, TakeCoordinator, ReleaseCoordinator
  <2>2. authority' \in AuthorityState
    BY <1>2, FrameTypes, WrittenTypes DEF UnlockAuthority, TypeOK,
       AuthorityState
  <2>3. ControlTypeOK'
    BY <1>2, FrameTypes, WrittenTypes DEF UnlockAuthority, TypeOK,
       LifecycleTypeOK, ControlTypeOK,
       Stage, TakeCoordinator, ReleaseCoordinator
  <2> QED
    BY <1>2, <2>1, <2>2, <2>3, FrameTypes DEF UnlockAuthority, TypeOK
<1>3. CASE ActivateFailed
  <2>1. ControlTypeOK'
    BY <1>3, FrameTypes, WrittenTypes DEF ActivateFailed, TypeOK,
       LifecycleTypeOK, ControlTypeOK,
       Stage, TakeCoordinator, ReleaseCoordinator
  <2> QED
    BY <1>3, <2>1, FrameTypes DEF ActivateFailed, TypeOK
<1>4. CASE EnterRunning
  <2>1. LifecycleTypeOK'
    BY <1>4, FrameTypes, WrittenTypes DEF EnterRunning, PublishRunning,
       TypeOK, LifecycleTypeOK, BrokerPhase,
       RemoteEffectGate, CoordinatorOwner, TakeCoordinator, ReleaseCoordinator
  <2>2. ControlTypeOK'
    BY <1>4, FrameTypes, WrittenTypes DEF EnterRunning, TypeOK,
       LifecycleTypeOK, ControlTypeOK,
       Stage, TakeCoordinator, ReleaseCoordinator
  <2> QED
    BY <1>4, <2>1, <2>2, FrameTypes DEF EnterRunning, TypeOK
<1>5. CASE FinishRunning
  <2>1. LifecycleTypeOK'
    BY <1>5, FrameTypes, WrittenTypes DEF FinishRunning, ConfirmRunning,
       ControlTypeOK, TypeOK, LifecycleTypeOK, BrokerPhase,
       RemoteEffectGate, CoordinatorOwner, TakeCoordinator, ReleaseCoordinator
  <2>2. RegistryTypeOK'
    BY <1>5, FrameTypes, WrittenTypes DEF FinishRunning, TypeOK, RegistryTypeOK
  <2>3. ControlTypeOK'
    BY <1>5, FrameTypes, WrittenTypes DEF FinishRunning, BrokerPhase, TypeOK,
       LifecycleTypeOK, ControlTypeOK,
       Stage, TakeCoordinator, ReleaseCoordinator
  <2> QED
    BY <1>5, <2>1, <2>2, <2>3, FrameTypes DEF FinishRunning, TypeOK
<1>6. CASE OpenAdmission
  <2>1. LifecycleTypeOK'
    BY <1>6, FrameTypes, WrittenTypes DEF OpenAdmission, TypeOK,
       LifecycleTypeOK, BrokerPhase,
       RemoteEffectGate, CoordinatorOwner, TakeCoordinator, ReleaseCoordinator
  <2>2. RegistryTypeOK'
    BY <1>6, FrameTypes, WrittenTypes DEF OpenAdmission, TypeOK, RegistryTypeOK
  <2>3. ControlTypeOK'
    BY <1>6, FrameTypes, WrittenTypes DEF OpenAdmission, TypeOK,
       LifecycleTypeOK, ControlTypeOK,
       Stage, TakeCoordinator, ReleaseCoordinator
  <2> QED
    BY <1>6, <2>1, <2>2, <2>3, FrameTypes DEF OpenAdmission, TypeOK
<1>7. CASE Rollback
  <2>1. LifecycleTypeOK'
    BY <1>7, FrameTypes, WrittenTypes DEF Rollback, EnterLocked, TypeOK,
       LifecycleTypeOK, BrokerPhase,
       RemoteEffectGate, CoordinatorOwner, TakeCoordinator, ReleaseCoordinator
  <2>2. RegistryTypeOK'
    BY <1>7, FrameTypes, WrittenTypes DEF Rollback, TypeOK, RegistryTypeOK
  <2>3. authority' \in AuthorityState
    BY <1>7, FrameTypes, WrittenTypes DEF Rollback, TypeOK, AuthorityState
  <2>4. ControlTypeOK'
    BY <1>7, FrameTypes, WrittenTypes DEF Rollback, TypeOK, LifecycleTypeOK,
       ControlTypeOK,
       Stage, TakeCoordinator, ReleaseCoordinator
  <2>5. StopTypeOK'
    BY <1>7, FrameTypes, WrittenTypes DEF Rollback, TypeOK, StopTypeOK
  <2> QED
    BY <1>7, <2>1, <2>2, <2>3, <2>4, <2>5, FrameTypes DEF Rollback, TypeOK
<1> QED
  BY <1>1, <1>2, <1>3, <1>4, <1>5, <1>6, <1>7 DEF Unlock

\* Every step of a drain (run_drain_lock) keeps the types.
LEMMA DrainType ==
    ASSUME TypeOK, Drain
    PROVE  TypeOK'
<1>1. CASE DrainLocked
  <2>1. authority' \in AuthorityState
    BY <1>1, FrameTypes, WrittenTypes DEF DrainLocked, TypeOK, AuthorityState
  <2> QED
    BY <1>1, <2>1, FrameTypes DEF DrainLocked, TypeOK
<1>2. CASE DrainBegin
  <2>1. LifecycleTypeOK'
    BY <1>2, FrameTypes, WrittenTypes DEF DrainBegin, EnterDraining, TypeOK,
       LifecycleTypeOK, BrokerPhase,
       RemoteEffectGate, CoordinatorOwner, TakeCoordinator, ReleaseCoordinator
  <2>2. ControlTypeOK'
    BY <1>2, FrameTypes, WrittenTypes DEF DrainBegin, TypeOK, LifecycleTypeOK,
       ControlTypeOK,
       Stage, TakeCoordinator, ReleaseCoordinator
  <2> QED
    BY <1>2, <2>1, <2>2, FrameTypes DEF DrainBegin, TypeOK
<1>3. CASE IdleDrain
  <2>1. LifecycleTypeOK'
    BY <1>3, FrameTypes, WrittenTypes DEF IdleDrain, EnterDraining, TypeOK,
       LifecycleTypeOK, BrokerPhase,
       RemoteEffectGate, CoordinatorOwner, TakeCoordinator, ReleaseCoordinator
  <2>2. ControlTypeOK'
    BY <1>3, FrameTypes, WrittenTypes DEF IdleDrain, TypeOK, LifecycleTypeOK,
       ControlTypeOK,
       Stage, TakeCoordinator, ReleaseCoordinator
  <2> QED
    BY <1>3, <2>1, <2>2, FrameTypes DEF IdleDrain, TypeOK
<1>4. CASE DrainRevoke
  <2>1. ControlTypeOK'
    BY <1>4, FrameTypes, WrittenTypes DEF DrainRevoke, TypeOK,
       LifecycleTypeOK, ControlTypeOK,
       Stage, TakeCoordinator, ReleaseCoordinator
  <2> QED
    BY <1>4, <2>1, FrameTypes DEF DrainRevoke, TypeOK
<1>5. CASE DrainWait
  <2>1. LifecycleTypeOK'
    BY <1>5, FrameTypes, WrittenTypes DEF DrainWait, TypeOK, LifecycleTypeOK,
       BrokerPhase,
       RemoteEffectGate, CoordinatorOwner, TakeCoordinator, ReleaseCoordinator
  <2>2. ControlTypeOK'
    BY <1>5, FrameTypes, WrittenTypes DEF DrainWait, TypeOK, LifecycleTypeOK,
       ControlTypeOK,
       Stage, TakeCoordinator, ReleaseCoordinator
  <2> QED
    BY <1>5, <2>1, <2>2, FrameTypes DEF DrainWait, TypeOK
<1>6. CASE DrainIdle
  <2>1. ControlTypeOK'
    BY <1>6, FrameTypes, WrittenTypes DEF DrainIdle, TypeOK, LifecycleTypeOK,
       ControlTypeOK,
       Stage, TakeCoordinator, ReleaseCoordinator
  <2> QED
    BY <1>6, <2>1, FrameTypes DEF DrainIdle, TypeOK
<1>7. CASE DrainLock
  <2>1. LifecycleTypeOK'
    BY <1>7, FrameTypes, WrittenTypes DEF DrainLock, EnterLocked, TypeOK,
       LifecycleTypeOK, BrokerPhase,
       RemoteEffectGate, CoordinatorOwner, TakeCoordinator, ReleaseCoordinator
  <2>2. authority' \in AuthorityState
    BY <1>7, FrameTypes, WrittenTypes DEF DrainLock, TypeOK, AuthorityState
  <2>3. ControlTypeOK'
    BY <1>7, FrameTypes, WrittenTypes DEF DrainLock, TypeOK, LifecycleTypeOK,
       ControlTypeOK,
       Stage, TakeCoordinator, ReleaseCoordinator
  <2> QED
    BY <1>7, <2>1, <2>2, <2>3, FrameTypes DEF DrainLock, TypeOK
<1> QED
  BY <1>1, <1>2, <1>3, <1>4, <1>5, <1>6, <1>7 DEF Drain

\* Requesting a fault and the retention fault keep the types.
LEMMA FaultType ==
    ASSUME TypeOK, Fault
    PROVE  TypeOK'
<1>1. CASE RequestFault
  <2>1. LifecycleTypeOK'
    BY <1>1, FrameTypes, WrittenTypes DEF RequestFault, TypeOK,
       LifecycleTypeOK, BrokerPhase,
       RemoteEffectGate, CoordinatorOwner, TakeCoordinator, ReleaseCoordinator
  <2>2. StopTypeOK'
    BY <1>1, FrameTypes, WrittenTypes DEF RequestFault, TypeOK, StopTypeOK
  <2> QED
    BY <1>1, <2>1, <2>2, FrameTypes DEF RequestFault, TypeOK
<1>2. CASE FaultRevoke
  <2>1. StopTypeOK'
    BY <1>2, FrameTypes, WrittenTypes DEF FaultRevoke, TypeOK, StopTypeOK
  <2> QED
    BY <1>2, <2>1, FrameTypes DEF FaultRevoke, TypeOK
<1>3. CASE RetentionFault
  <2>1. LifecycleTypeOK'
    BY <1>3, FrameTypes, WrittenTypes DEF RetentionFault, TypeOK,
       LifecycleTypeOK, BrokerPhase,
       RemoteEffectGate, CoordinatorOwner, TakeCoordinator, ReleaseCoordinator
  <2>2. authority' \in AuthorityState
    BY <1>3, FrameTypes, WrittenTypes DEF RetentionFault, TypeOK, AuthorityState
  <2>3. StopTypeOK'
    BY <1>3, FrameTypes, WrittenTypes DEF RetentionFault, TypeOK, StopTypeOK
  <2> QED
    BY <1>3, <2>1, <2>2, <2>3, FrameTypes DEF RetentionFault, TypeOK
<1> QED
  BY <1>1, <1>2, <1>3 DEF Fault

\* Every step of the serve loop and the central stop keeps the types.
LEMMA StopType ==
    ASSUME TypeOK, Stop
    PROVE  TypeOK'
<1>1. CASE \E cause \in StopCause : SelectStop(cause)
  <2>1. LifecycleTypeOK'
    BY <1>1, FrameTypes, WrittenTypes DEF SelectStop, TypeOK, LifecycleTypeOK,
       BrokerPhase,
       RemoteEffectGate, CoordinatorOwner, TakeCoordinator, ReleaseCoordinator
  <2>2. StopTypeOK'
    BY <1>1, FrameTypes, WrittenTypes, ExecutionAssumption DEF SelectStop, TypeOK, StopTypeOK
  <2> QED
    BY <1>1, <2>1, <2>2, FrameTypes DEF SelectStop, TypeOK
<1>2. CASE StopTimeout
  <2>1. TaskTypeOK'
    BY <1>2, FrameTypes, WrittenTypes DEF StopTimeout, TypeOK, TaskTypeOK,
       execVars, auditVars, histVars
  <2>2. StopTypeOK'
    BY <1>2, FrameTypes, WrittenTypes DEF StopTimeout, TypeOK, StopTypeOK
  <2> QED
    BY <1>2, <2>1, <2>2, FrameTypes DEF StopTimeout, TypeOK
<1>3. CASE StopAcquire
  <2>1. LifecycleTypeOK'
    BY <1>3, FrameTypes, WrittenTypes DEF StopAcquire, TypeOK,
       LifecycleTypeOK, BrokerPhase,
       RemoteEffectGate, CoordinatorOwner, TakeCoordinator, ReleaseCoordinator
  <2>2. ControlTypeOK'
    BY <1>3, FrameTypes, WrittenTypes DEF StopAcquire, TypeOK,
       LifecycleTypeOK, ControlTypeOK,
       Stage, TakeCoordinator, ReleaseCoordinator
  <2>3. StopTypeOK'
    BY <1>3, FrameTypes, WrittenTypes DEF StopAcquire, TypeOK, StopTypeOK
  <2> QED
    BY <1>3, <2>1, <2>2, <2>3, FrameTypes DEF StopAcquire, TypeOK
<1>4. CASE StopProof
  <2>1. LifecycleTypeOK'
    BY <1>4, FrameTypes, WrittenTypes DEF StopProof, RejectStop, TypeOK,
       LifecycleTypeOK, BrokerPhase,
       RemoteEffectGate, CoordinatorOwner, TakeCoordinator, ReleaseCoordinator
  <2>2. RegistryTypeOK'
    BY <1>4, FrameTypes, WrittenTypes DEF StopProof, TypeOK, RegistryTypeOK
  <2>3. authority' \in AuthorityState
    BY <1>4, FrameTypes, WrittenTypes DEF StopProof, TypeOK, AuthorityState
  <2>4. ControlTypeOK'
    BY <1>4, FrameTypes, WrittenTypes DEF StopProof, RejectStop, TypeOK,
       LifecycleTypeOK, ControlTypeOK,
       Stage, TakeCoordinator, ReleaseCoordinator
  <2>5. StopTypeOK'
    BY <1>4, FrameTypes, WrittenTypes DEF StopProof, RejectStop, TypeOK,
       StopTypeOK
  <2> QED
    BY <1>4, <2>1, <2>2, <2>3, <2>4, <2>5, FrameTypes DEF StopProof, TypeOK
<1>5. CASE StopBegin
  <2>1. LifecycleTypeOK'
    BY <1>5, FrameTypes, WrittenTypes DEF StopBegin, EnterDraining, TypeOK,
       LifecycleTypeOK, BrokerPhase,
       RemoteEffectGate, CoordinatorOwner, TakeCoordinator, ReleaseCoordinator
  <2>2. ControlTypeOK'
    BY <1>5, FrameTypes, WrittenTypes DEF StopBegin, TypeOK, LifecycleTypeOK,
       ControlTypeOK,
       Stage, TakeCoordinator, ReleaseCoordinator
  <2> QED
    BY <1>5, <2>1, <2>2, FrameTypes DEF StopBegin, TypeOK
<1>6. CASE StopRevoke
  <2>1. TaskTypeOK'
    BY <1>6, FrameTypes, WrittenTypes DEF StopRevoke, TypeOK, TaskTypeOK,
       execVars, auditVars, histVars
  <2>2. ControlTypeOK'
    BY <1>6, FrameTypes, WrittenTypes DEF StopRevoke, TypeOK, LifecycleTypeOK,
       ControlTypeOK,
       Stage, TakeCoordinator, ReleaseCoordinator
  <2> QED
    BY <1>6, <2>1, <2>2, FrameTypes DEF StopRevoke, TypeOK
<1>7. CASE StopWait
  <2>1. LifecycleTypeOK'
    BY <1>7, FrameTypes, WrittenTypes DEF StopWait, TypeOK, LifecycleTypeOK,
       BrokerPhase,
       RemoteEffectGate, CoordinatorOwner, TakeCoordinator, ReleaseCoordinator
  <2>2. ControlTypeOK'
    BY <1>7, FrameTypes, WrittenTypes DEF StopWait, TypeOK, LifecycleTypeOK,
       ControlTypeOK,
       Stage, TakeCoordinator, ReleaseCoordinator
  <2>3. StopTypeOK'
    BY <1>7, FrameTypes, WrittenTypes DEF StopWait, TypeOK, StopTypeOK
  <2> QED
    BY <1>7, <2>1, <2>2, <2>3, FrameTypes DEF StopWait, TypeOK
<1>8. CASE StopJoin
  <2>1. TaskTypeOK'
    BY <1>8, FrameTypes, WrittenTypes DEF StopJoin, TypeOK, TaskTypeOK,
       execVars, auditVars, histVars
  <2>2. ControlTypeOK'
    BY <1>8, FrameTypes, WrittenTypes DEF StopJoin, TypeOK, LifecycleTypeOK,
       ControlTypeOK,
       Stage, TakeCoordinator, ReleaseCoordinator
  <2>3. StopTypeOK'
    BY <1>8, FrameTypes, WrittenTypes DEF StopJoin, TypeOK, StopTypeOK
  <2> QED
    BY <1>8, <2>1, <2>2, <2>3, FrameTypes DEF StopJoin, TypeOK
<1>9. CASE StopIdle
  <2>1. LifecycleTypeOK'
    BY <1>9, FrameTypes, WrittenTypes DEF StopIdle, EnterShuttingDown, TypeOK,
       LifecycleTypeOK, BrokerPhase,
       RemoteEffectGate, CoordinatorOwner, TakeCoordinator, ReleaseCoordinator
  <2>2. ControlTypeOK'
    BY <1>9, FrameTypes, WrittenTypes DEF StopIdle, TypeOK, LifecycleTypeOK,
       ControlTypeOK,
       Stage, TakeCoordinator, ReleaseCoordinator
  <2>3. StopTypeOK'
    BY <1>9, FrameTypes, WrittenTypes DEF StopIdle, TypeOK, StopTypeOK
  <2> QED
    BY <1>9, <2>1, <2>2, <2>3, FrameTypes DEF StopIdle, TypeOK
<1>10. CASE StopLock
  <2>1. LifecycleTypeOK'
    BY <1>10, FrameTypes, WrittenTypes DEF StopLock, EnterLocked, TypeOK,
       LifecycleTypeOK, BrokerPhase,
       RemoteEffectGate, CoordinatorOwner, TakeCoordinator, ReleaseCoordinator
  <2>2. authority' \in AuthorityState
    BY <1>10, FrameTypes, WrittenTypes DEF StopLock, TypeOK, AuthorityState
  <2>3. ControlTypeOK'
    BY <1>10, FrameTypes, WrittenTypes DEF StopLock, TypeOK, LifecycleTypeOK,
       ControlTypeOK,
       Stage, TakeCoordinator, ReleaseCoordinator
  <2>4. StopTypeOK'
    BY <1>10, FrameTypes, WrittenTypes DEF StopLock, TypeOK, StopTypeOK
  <2> QED
    BY <1>10, <2>1, <2>2, <2>3, <2>4, FrameTypes DEF StopLock, TypeOK
<1>11. CASE StopFinal
  <2>1. LifecycleTypeOK'
    BY <1>11, FrameTypes, WrittenTypes DEF StopFinal, EnterShuttingDown,
       TypeOK, LifecycleTypeOK, BrokerPhase,
       RemoteEffectGate, CoordinatorOwner, TakeCoordinator, ReleaseCoordinator
  <2>2. authority' \in AuthorityState
    BY <1>11, FrameTypes, WrittenTypes DEF StopFinal, TypeOK, AuthorityState
  <2>3. ControlTypeOK'
    BY <1>11, FrameTypes, WrittenTypes DEF StopFinal, TypeOK, LifecycleTypeOK,
       ControlTypeOK,
       Stage, TakeCoordinator, ReleaseCoordinator
  <2>4. StopTypeOK'
    BY <1>11, FrameTypes, WrittenTypes DEF StopFinal, TypeOK, StopTypeOK
  <2> QED
    BY <1>11, <2>1, <2>2, <2>3, <2>4, FrameTypes DEF StopFinal, TypeOK
<1> QED
  BY <1>1, <1>2, <1>3, <1>4, <1>5, <1>6, <1>7, <1>8, <1>9, <1>10, <1>11 DEF Stop

\* Creating and revoking sessions, and a restart, keep the types.
LEMMA SessionRestartType ==
    ASSUME TypeOK,
           (\E s \in Session : CreateSession(s) \/ RevokeSession(s)) \/ Restart
    PROVE  TypeOK'
<1>1. CASE \E s \in Session : CreateSession(s) \/ RevokeSession(s)
  <2>1. RegistryTypeOK'
    BY <1>1 DEF CreateSession, RevokeSession, TypeOK, RegistryTypeOK, SessionState
  <2> QED
    BY <1>1, <2>1, FrameTypes DEF CreateSession, RevokeSession, TypeOK, taskVars
<1>2. CASE Restart
  <2>1. LifecycleTypeOK'
    BY <1>2 DEF Restart, LifecycleTypeOK, BrokerPhase, RemoteEffectGate,
       CoordinatorOwner
  <2>2. RegistryTypeOK'
    BY <1>2 DEF Restart, RegistryTypeOK, SessionState
  <2>3. journal' \in [Exec -> Seq(Row)]
    <3>1. \A e \in Exec : Append(journal[e], "indeterminate") \in Seq(Row)
      BY DEF TypeOK, TaskTypeOK, Row
    <3> QED
      BY <1>2, <3>1 DEF Restart, Reconcile, TypeOK, TaskTypeOK
  <2>4. pc' \in [Exec -> ExecPc] /\ permit' \in [Exec -> PermitState]
    BY <1>2, PcNames DEF Restart, PermitState
  <2>5. boots' \in 0..MaxBoots
    BY <1>2, ExecutionAssumption DEF Restart, TypeOK, TaskTypeOK
  <2>6. TaskTypeOK'
    <3>1. queue' \in Seq(Submission)
      BY <1>2 DEF Restart
    <3>2. /\ effect' \in [Exec -> BOOLEAN] /\ refreshed' \in [Exec -> BOOLEAN]
          /\ reached' \in [Exec -> SUBSET Endpoint] /\ delivered' \subseteq Exec
      BY <1>2 DEF Restart, TypeOK, TaskTypeOK, histVars
    <3>3. failed' \in BOOLEAN
          /\ supervisor' \in {"accepting", "closed", "panicked", "aborted"}
      BY <1>2 DEF Restart
    <3> QED
      BY <2>3, <2>4, <2>5, <3>1, <3>2, <3>3 DEF TaskTypeOK
  <2>7. ControlTypeOK' /\ StopTypeOK' /\ authority' \in AuthorityState
    BY <1>2 DEF Restart, ControlTypeOK, StopTypeOK, AuthorityState, Stage,
       BrokerPhase
  <2> QED
    BY <2>1, <2>2, <2>6, <2>7 DEF TypeOK
<1> QED
  BY <1>1, <1>2

\* Type correctness for every instance: whatever the executions, the control
\* operations, failures and restarts do, every variable stays in its type.
THEOREM TypeCorrect == Spec => []TypeOK
<1>1. Init => TypeOK
  <2> SUFFICES ASSUME Init PROVE TypeOK
    OBVIOUS
  <2>1. LifecycleTypeOK /\ RegistryTypeOK
    BY DEF Init, LifecycleInit, LifecycleTypeOK, RegistryTypeOK, BrokerPhase,
       RemoteEffectGate, CoordinatorOwner, SessionState
  <2>2. TaskTypeOK
    <3>1. pc \in [Exec -> ExecPc] /\ permit \in [Exec -> PermitState]
      BY PcNames DEF Init, PermitState
    <3>2. queue \in Seq(Submission) /\ journal \in [Exec -> Seq(Row)]
      BY DEF Init
    <3>3. boots \in 0..MaxBoots
      BY ExecutionAssumption DEF Init
    <3>4. reached \in [Exec -> SUBSET Endpoint] /\ delivered \subseteq Exec
      BY DEF Init
    <3> QED
      BY <3>1, <3>2, <3>3, <3>4 DEF Init, TaskTypeOK
  <2>3. ControlTypeOK /\ StopTypeOK /\ authority \in AuthorityState
    BY DEF Init, ControlTypeOK, StopTypeOK, AuthorityState, Stage, BrokerPhase
  <2> QED
    BY <2>1, <2>2, <2>3 DEF TypeOK
<1>2. TypeOK /\ [Next]_vars => TypeOK'
  <2> SUFFICES ASSUME TypeOK, [Next]_vars PROVE TypeOK'
    OBVIOUS
  <2>1. CASE UNCHANGED vars
    BY <2>1, FrameTypes DEF vars, TypeOK, taskVars
  <2>2. CASE Next
    BY <2>2, AdmissionType, RunningType, UnwindType, WorkerType, UnlockType,
       DrainType, FaultType, StopType, SessionRestartType DEF Next
  <2> QED
    BY <2>1, <2>2
<1> QED
  BY <1>1, <1>2, PTL DEF Spec

-----------------------------------------------------------------------------
(***************************************************************************)
(* The protected handoff: an execution in its handoff owns the coordinator *)
(* of a running broker and its session is live; a pending stop is never    *)
(* forgotten and ends the effects of the process.                          *)
(***************************************************************************)

\* HandoffProtected is inductive together with: whoever is between two steps
\* of a control operation holds the coordinator.
HandoffInv ==
    /\ stage # "none" => coordinator = "control"
    /\ HandoffProtected

\* Without an execution holding the coordinator nobody is in a handoff.
LEMMA NoHandoff ==
    ASSUME HandoffInv, coordinator \in {"free", "control"}
    PROVE  \A e \in Exec : pc[e] # "handing"
BY LifecycleAssumption DEF HandoffInv, HandoffProtected

\* A step keeps the invariant if it keeps the control stages coordinated and
\* leaves alone what the executions in their handoff rely on.
LEMMA HandoffStep ==
    ASSUME HandoffInv,
           stage' # "none" => coordinator' = "control",
           \A e \in Exec : pc'[e] = "handing" =>
               /\ pc[e] = "handing"
               /\ coordinator' = coordinator /\ phase' = phase
               /\ IsConnection(e) \/ (closed' = closed /\ session' = session)
    PROVE  HandoffInv'
BY DEF HandoffInv, HandoffProtected, IsConnection

\* A step of the coordinator's control holder, or one that takes it.
LEMMA ControlStep ==
    ASSUME HandoffInv, UNCHANGED pc,
           coordinator = "free" \/ stage # "none",
           stage' # "none" => coordinator' = "control"
    PROVE  HandoffInv'
<1>1. coordinator \in {"free", "control"}
  BY DEF HandoffInv
<1> QED
  BY <1>1, NoHandoff, HandoffStep

\* Unlock and its rollback run under the coordinator, so outside any handoff.
LEMMA UnlockHandoff == ASSUME HandoffInv, Unlock PROVE HandoffInv'
<1>1. UNCHANGED pc
  BY DEF Unlock, UnlockBegin, UnlockAuthority, ActivateFailed, EnterRunning,
     FinishRunning, OpenAdmission, Rollback, taskVars, execVars
<1>2. coordinator = "free" \/ stage # "none"
  BY DEF Unlock, UnlockBegin, UnlockAuthority, ActivateFailed, EnterRunning,
     FinishRunning, OpenAdmission, Rollback, TakeCoordinator, At
<1>3. stage' # "none" => coordinator' = "control"
  BY DEF Unlock, UnlockBegin, UnlockAuthority, ActivateFailed, EnterRunning,
     FinishRunning, OpenAdmission, Rollback, TakeCoordinator,
     ReleaseCoordinator, At, HandoffInv, lifeVars
<1> QED
  BY <1>1, <1>2, <1>3, ControlStep

\* A drain begins without a handoff and keeps the coordinator while it revokes.
LEMMA DrainHandoff == ASSUME HandoffInv, Drain PROVE HandoffInv'
<1>1. UNCHANGED pc
  BY DEF Drain, DrainLocked, DrainBegin, IdleDrain, DrainRevoke, DrainWait,
     DrainIdle, DrainLock, taskVars, execVars
<1>2. coordinator = "free" \/ stage # "none"
  BY DEF Drain, DrainLocked, DrainBegin, IdleDrain, DrainRevoke, DrainWait,
     DrainIdle, DrainLock, TakeCoordinator, At
<1>3. stage' # "none" => coordinator' = "control"
  BY DEF Drain, DrainLocked, DrainBegin, IdleDrain, DrainRevoke, DrainWait,
     DrainIdle, DrainLock, TakeCoordinator, ReleaseCoordinator, At, HandoffInv,
     lifeVars, ctlVars
<1> QED
  BY <1>1, <1>2, <1>3, ControlStep

\* A fault takes neither the coordinator nor a registry that a handoff holds.
LEMMA FaultHandoff == ASSUME HandoffInv, Fault PROVE HandoffInv'
<1>1. CASE RequestFault
  BY <1>1, HandoffStep DEF RequestFault, HandoffInv, taskVars, execVars, regVars,
     ctlVars
<1>2. CASE FaultRevoke
  BY <1>2, HandoffStep DEF FaultRevoke, HandoffInv, RegistryFree, taskVars,
     execVars, lifeVars, ctlVars
<1>3. CASE RetentionFault
  <2>1. UNCHANGED pc /\ coordinator = "free" /\ stage' = stage
    BY <1>3 DEF RetentionFault, taskVars, execVars, ctlVars
  <2> QED
    BY <2>1, <1>3, ControlStep DEF RetentionFault, HandoffInv
<1> QED
  BY <1>1, <1>2, <1>3 DEF Fault

\* The central stop owns the coordinator from its proof to its last step.
LEMMA StopHandoff == ASSUME HandoffInv, Stop PROVE HandoffInv'
<1>1. CASE \E cause \in StopCause : SelectStop(cause)
  BY <1>1, HandoffStep DEF SelectStop, HandoffInv, taskVars, execVars, regVars,
     ctlVars
<1>2. CASE StopTimeout
  BY <1>2, HandoffStep DEF StopTimeout, HandoffInv, execVars, regVars, ctlVars,
     lifeVars
<1>3. CASE \/ StopAcquire \/ StopProof \/ StopBegin \/ StopRevoke \/ StopWait
           \/ StopJoin \/ StopIdle \/ StopLock \/ StopFinal
  <2>1. UNCHANGED pc
    BY <1>3 DEF StopAcquire, StopProof, StopBegin, StopRevoke, StopWait,
       StopJoin, StopIdle, StopLock, StopFinal, taskVars, execVars
  <2>2. coordinator = "free" \/ stage # "none"
    BY <1>3 DEF StopAcquire, StopProof, StopBegin, StopRevoke, StopWait,
       StopJoin, StopIdle, StopLock, StopFinal, TakeCoordinator, At
  <2>3. stage' # "none" => coordinator' = "control"
    BY <1>3 DEF StopAcquire, StopProof, StopBegin, StopRevoke, StopWait,
       StopJoin, StopIdle, StopLock, StopFinal, TakeCoordinator,
       ReleaseCoordinator, RejectStop, At, HandoffInv, lifeVars
  <2> QED
    BY <2>1, <2>2, <2>3, ControlStep
<1> QED
  BY <1>1, <1>2, <1>3 DEF Stop

\* Sessions change only while no session execution is in its handoff; a
\* restart ends every execution.
LEMMA SessionRestartHandoff ==
    ASSUME HandoffInv,
           (\E s \in Session : CreateSession(s) \/ RevokeSession(s)) \/ Restart
    PROVE  HandoffInv'
<1>1. CASE \E s \in Session : CreateSession(s) \/ RevokeSession(s)
  BY <1>1, HandoffStep DEF CreateSession, RevokeSession, RegistryFree, HandoffInv,
     execVars, lifeVars, ctlVars
<1>2. CASE Restart
  <2>1. \A e \in Exec : pc'[e] # "handing"
    BY <1>2 DEF Restart
  <2> QED
    BY <1>2, <2>1 DEF Restart, HandoffInv, HandoffProtected
<1> QED
  BY <1>1, <1>2

\* A step of execution e that does not enter the handoff, and takes or
\* releases the coordinator only for e.
LEMMA ExecutionStep ==
    ASSUME TypeOK, HandoffInv, NEW e \in Exec,
           NEW next \in ExecPc \ {"handing"},
           Goto(e, next), UNCHANGED <<phase, regVars, stage>>,
           \/ UNCHANGED coordinator
           \/ Release(e)
           \/ coordinator = "free" /\ coordinator' = e
    PROVE  HandoffInv'
<1>1. \A f \in Exec : pc'[f] = "handing" => f # e /\ pc[f] = "handing"
  BY DEF TypeOK, TaskTypeOK, Goto
<1>2. \A f \in Exec : pc'[f] = "handing" => coordinator' = coordinator
  BY <1>1, LifecycleAssumption DEF HandoffInv, HandoffProtected, Release
<1>3. stage' # "none" => coordinator' = "control"
  BY LifecycleAssumption DEF HandoffInv, Release
<1> QED
  BY <1>1, <1>2, <1>3, HandoffStep DEF regVars

\* Admission takes the coordinator only when it is free.
LEMMA AdmissionHandoff ==
    ASSUME TypeOK, HandoffInv, NEW e \in Exec, Admission(e)
    PROVE  HandoffInv'
<1>1. /\ UNCHANGED <<phase, regVars, stage>>
      /\ \/ UNCHANGED coordinator
         \/ Release(e)
         \/ coordinator = "free" /\ coordinator' = e
  BY DEF Admission, Acquire, AcquireConnection, WaitForCoordinator,
     RefuseAdmission, SubmitStarted, ReceiveStarted, AdmissionTimeout, lifeVars,
     regVars, ctlVars
<1>2. \E next \in {"acquired", "waiting", "committing", "admitted", "abandoned",
                   "done"} : Goto(e, next)
  BY DEF Admission, Acquire, AcquireConnection, WaitForCoordinator,
     RefuseAdmission, SubmitStarted, ReceiveStarted, AdmissionTimeout
<1> QED
  BY <1>1, <1>2, PcNames, ExecutionStep

\* A contact is made by a task that stays where it is.
LEMMA ContactStays ==
    ASSUME TypeOK, NEW e \in Exec, Contact(e)
    PROVE  pc[e] \in {"refresh", "inflight"} /\ Goto(e, pc[e]) /\ UNCHANGED pc
BY DEF Contact, Goto, execVars, TypeOK, TaskTypeOK

\* The handoff itself is entered with the coordinator, after the recheck.
LEMMA RunningHandoff ==
    ASSUME TypeOK, HandoffInv, NEW e \in Exec, Running(e)
    PROVE  HandoffInv'
<1>1. CASE HandoffEnter(e) /\ HandoffAllowed(e)
  <2>1. /\ coordinator = "free" /\ coordinator' = e /\ Goto(e, "handing")
        /\ UNCHANGED <<phase, regVars, stage>>
    BY <1>1 DEF HandoffEnter, ctlVars
  <2>2. stage' = "none"
    BY <2>1 DEF HandoffInv
  <2>3. \A f \in Exec : pc'[f] = "handing" => f = e
    BY <2>1, NoHandoff DEF Goto, TypeOK, TaskTypeOK
  <2> QED
    BY <1>1, <2>1, <2>2, <2>3 DEF HandoffInv, HandoffProtected, HandoffAllowed,
       SessionLive, RejectIfNotRunning, regVars, IsConnection
<1>2. CASE ~(HandoffEnter(e) /\ HandoffAllowed(e))
  <2>1. UNCHANGED <<phase, regVars, stage>>
    BY <1>2 DEF Running, Subscribe, Cancel, FailBeforeHandoff, RefreshGate,
       RefreshSend, RefreshDone, RefreshFail, JoinCoordinator, HandoffRevoked,
       HandoffEnter, HandoffSend, Contact, Respond, FailIndeterminate, FailNoEffect,
       TerminalTimeout, Return, SubmitTerminal, lifeVars, regVars, ctlVars
  <2>2. UNCHANGED coordinator \/ Release(e)
    BY <1>2 DEF Running, Subscribe, Cancel, FailBeforeHandoff, RefreshGate,
       RefreshSend, RefreshDone, RefreshFail, JoinCoordinator, HandoffRevoked,
       HandoffEnter, HandoffSend, Contact, Respond, FailIndeterminate, FailNoEffect,
       TerminalTimeout, Return, lifeVars
  <2>3. \E next \in {"running", "queued", "refreshGate", "refresh", "inflight",
                     "finishing", "awaiting", "closing", "done"} : Goto(e, next)
    BY <1>2, ContactStays DEF Running, Subscribe, Cancel, FailBeforeHandoff,
       RefreshGate, RefreshSend, RefreshDone, RefreshFail, JoinCoordinator,
       HandoffRevoked, HandoffEnter, HandoffSend, Respond, FailIndeterminate,
       FailNoEffect, TerminalTimeout, Return, SubmitTerminal
  <2> QED
    BY <2>1, <2>2, <2>3, PcNames, ExecutionStep
<1> QED
  BY <1>1, <1>2

\* A task that panics or is aborted releases only its own coordinator.
LEMMA UnwindHandoff ==
    ASSUME TypeOK, HandoffInv, NEW e \in Exec, Panic(e) \/ Abort(e)
    PROVE  HandoffInv'
<1>1. UNCHANGED <<phase, regVars, stage>> /\ Release(e)
  BY DEF Panic, Abort, DropTask, ctlVars
<1>2. \E next \in {"abandoned", "done"} : Goto(e, next)
  BY DEF Panic, Abort, DropTask
<1> QED
  BY <1>1, <1>2, PcNames, ExecutionStep

\* The audit worker moves executions only between states outside the handoff.
LEMMA WorkerHandoff ==
    ASSUME TypeOK, HandoffInv, Worker
    PROVE  HandoffInv'
<1> DEFINE e == Head1.exec
<1>1. UNCHANGED <<phase, coordinator, regVars, stage>>
  BY DEF Worker, WorkStarted, WorkTerminal, lifeVars, ctlVars
<1>2. \A f \in Exec : pc'[f] = "handing" => pc[f] = "handing"
  <2>1. e \in Exec
    BY HeadType
  <2>2. CASE WorkStarted
    BY <2>1, <2>2 DEF WorkStarted, StartedCommitted, StartedRefused, Goto,
       TypeOK, TaskTypeOK
  <2>3. CASE WorkTerminal
    BY <2>1, <2>3 DEF WorkTerminal, TypeOK, TaskTypeOK
  <2> QED
    BY <2>2, <2>3 DEF Worker
<1> QED
  BY <1>1, <1>2, HandoffStep DEF HandoffInv, regVars

\* Every step of the broker keeps the control stages coordinated and the
\* handoffs protected.
LEMMA HandoffHolds == Spec => []HandoffInv
<1>1. Init => HandoffInv
  BY DEF Init, HandoffInv, HandoffProtected
<1>2. TypeOK /\ HandoffInv /\ [Next]_vars => HandoffInv'
  <2> SUFFICES ASSUME TypeOK, HandoffInv, [Next]_vars PROVE HandoffInv'
    OBVIOUS
  <2>1. CASE UNCHANGED vars
    BY <2>1, HandoffStep DEF vars, lifeVars, regVars, execVars, ctlVars, HandoffInv
  <2>2. CASE Next
    BY <2>2, AdmissionHandoff, RunningHandoff, UnwindHandoff, WorkerHandoff,
       UnlockHandoff, DrainHandoff, FaultHandoff, StopHandoff,
       SessionRestartHandoff DEF Next
  <2> QED
    BY <2>1, <2>2
<1> QED
  BY <1>1, <1>2, TypeCorrect, PTL DEF Spec

\* Nobody can lock, drain, stop or revoke under an execution in its handoff.
THEOREM HandoffIsProtected == Spec => []HandoffProtected
<1>1. HandoffInv => HandoffProtected
  BY DEF HandoffInv
<1> QED
  BY <1>1, HandoffHolds, PTL

-----------------------------------------------------------------------------
(* Action properties.                                                      *)

\* A pending stop survives every step of the process.
LEMMA StopPendingStep ==
    ASSUME TypeOK, Next, gate = "STOP_PENDING"
    PROVE  gate' = "STOP_PENDING" \/ boots' # boots
<1>1. CASE \E s \in Session : CreateSession(s) \/ RevokeSession(s)
  BY <1>1 DEF CreateSession, RevokeSession, lifeVars
<1>2. CASE \E e \in Exec : Admission(e)
  BY <1>2 DEF Admission, Acquire, AcquireConnection, WaitForCoordinator,
     RefuseAdmission, SubmitStarted, ReceiveStarted, AdmissionTimeout, lifeVars
<1>3. CASE \E e \in Exec : Running(e)
  BY <1>3 DEF Running, Subscribe, Cancel, FailBeforeHandoff, RefreshGate,
     RefreshSend, RefreshDone, RefreshFail, JoinCoordinator, HandoffRevoked,
     HandoffEnter, HandoffSend, Contact, Respond, FailIndeterminate, FailNoEffect,
     TerminalTimeout, Return, SubmitTerminal, lifeVars
<1>4. CASE \E e \in Exec : Panic(e) \/ Abort(e)
  BY <1>4 DEF Panic, Abort
<1>5. CASE Worker
  BY <1>5 DEF Worker, WorkStarted, WorkTerminal, LoseTerminal, lifeVars
<1>6. CASE Unlock
  BY <1>6 DEF Unlock, UnlockBegin, UnlockAuthority, ActivateFailed,
     EnterRunning, FinishRunning, OpenAdmission, Rollback, ConfirmRunning,
     EnterLocked, CloseRemoteEffectAdmission, lifeVars
<1>7. CASE Drain
  BY <1>7 DEF Drain, DrainLocked, DrainBegin, IdleDrain, DrainRevoke, DrainWait,
     DrainIdle, DrainLock, EnterDraining, EnterLocked,
     CloseRemoteEffectAdmission, lifeVars
<1>8. CASE Fault
  BY <1>8 DEF Fault, RequestFault, FaultRevoke, RetentionFault, lifeVars
<1>9. CASE Stop
  BY <1>9 DEF Stop, SelectStop, StopTimeout, StopAcquire, StopProof, StopBegin,
     StopRevoke, StopWait, StopJoin, StopIdle, StopLock, StopFinal,
     EnterDraining, EnterLocked, EnterShuttingDown, CloseRemoteEffectAdmission,
     lifeVars
<1>10. CASE Restart
  BY <1>10 DEF Restart, TypeOK, TaskTypeOK
<1> QED
  BY <1>1, <1>2, <1>3, <1>4, <1>5, <1>6, <1>7, <1>8, <1>9, <1>10 DEF Next

\* A pending stop is never forgotten before the process restarts.
THEOREM PendingStopIsSticky == Spec => StopPendingSticky
<1>1. TypeOK /\ [Next]_vars =>
        [gate = "STOP_PENDING" => gate' = "STOP_PENDING" \/ boots' # boots]_vars
  BY StopPendingStep
<1> QED
  BY <1>1, TypeCorrect, PTL DEF Spec, StopPendingSticky

\* Where a task may be that has passed the gate for the last time.
Past == {"refreshGate", "refresh", "handing", "inflight"}

\* A move to somewhere before the gate, or within what lies past it, adds
\* nobody who may contact an endpoint.
LEMMA PastMove ==
    ASSUME TypeOK, NEW e \in Exec, NEW next \in ExecPc, Goto(e, next),
           next \in Past => pc[e] \in Past
    PROVE  MayContact' \subseteq MayContact
BY DEF Goto, TypeOK, TaskTypeOK, MayContact, Past

\* With a stop pending no running execution passes the gate, and only one that
\* has passed it contacts an endpoint.
LEMMA StoppedRunning ==
    ASSUME TypeOK, NEW e \in Exec, Running(e), gate = "STOP_PENDING"
    PROVE  /\ MayContact' \subseteq MayContact
           /\ \A f \in Exec : reached'[f] # reached[f] => f \in MayContact
<1>1. CASE Contact(e)
  BY <1>1, ContactStays DEF Contact, MayContact, TypeOK, TaskTypeOK
<1>2. CASE ~Contact(e)
  <2>1. UNCHANGED reached
    BY <1>2 DEF Running, Subscribe, Cancel, FailBeforeHandoff, RefreshGate,
       RefreshSend, RefreshDone, RefreshFail, JoinCoordinator, HandoffRevoked,
       HandoffEnter, HandoffSend, Respond, FailIndeterminate, FailNoEffect,
       TerminalTimeout, Return, SubmitTerminal, histVars
  <2>2. ~TryBeginRemoteEffect /\ ~HandoffAllowed(e)
    BY DEF TryBeginRemoteEffect, HandoffAllowed
  <2>3. \/ \E next \in {"running", "queued", "finishing", "awaiting", "closing",
                        "done"} : Goto(e, next)
        \/ pc[e] = "refreshGate" /\ Goto(e, "refresh")
        \/ pc[e] = "handing" /\ Goto(e, "inflight")
    BY <1>2, <2>2 DEF Running, Subscribe, Cancel, FailBeforeHandoff, RefreshGate,
       RefreshSend, RefreshDone, RefreshFail, JoinCoordinator, HandoffRevoked,
       HandoffEnter, HandoffSend, Respond, FailIndeterminate, FailNoEffect,
       TerminalTimeout, Return, SubmitTerminal
  <2>4. \E next \in ExecPc : Goto(e, next) /\ (next \in Past => pc[e] \in Past)
    BY <2>3, PcNames DEF Past
  <2> QED
    BY <2>1, <2>4, PastMove
<1> QED
  BY <1>1, <1>2

\* With a stop pending no step lets another execution past the gate, short of a
\* restart.
LEMMA StoppedStep ==
    ASSUME TypeOK, Next, gate = "STOP_PENDING"
    PROVE  \/ boots' # boots
           \/ /\ MayContact' \subseteq MayContact
              /\ \A e \in Exec : reached'[e] # reached[e] => e \in MayContact
<1>1. CASE \E e \in Exec : Running(e)
  BY <1>1, StoppedRunning
<1>2. CASE \E e \in Exec : Admission(e)
  <2>1. \E e \in Exec, next \in {"acquired", "waiting", "committing",
                                 "admitted", "abandoned", "done"} : Goto(e, next)
    BY <1>2 DEF Admission, Acquire, AcquireConnection, WaitForCoordinator,
       RefuseAdmission, SubmitStarted, ReceiveStarted, AdmissionTimeout
  <2>2. \E e \in Exec, next \in ExecPc \ Past : Goto(e, next)
    BY <2>1, PcNames DEF Past
  <2>3. UNCHANGED reached
    BY <1>2 DEF Admission, Acquire, AcquireConnection, WaitForCoordinator,
       RefuseAdmission, SubmitStarted, ReceiveStarted, AdmissionTimeout, histVars
  <2> QED
    BY <2>2, <2>3, PastMove
<1>3. CASE \E e \in Exec : Panic(e) \/ Abort(e)
  <2>1. \E e \in Exec, next \in {"abandoned", "done"} : Goto(e, next)
    BY <1>3 DEF Panic, Abort, DropTask
  <2>2. \E e \in Exec, next \in ExecPc \ Past : Goto(e, next)
    BY <2>1, PcNames DEF Past
  <2>3. UNCHANGED reached
    BY <1>3 DEF Panic, Abort, histVars
  <2> QED
    BY <2>2, <2>3, PastMove
<1>4. CASE Worker
  <2>1. Head1.exec \in Exec
    BY <1>4, HeadType
  <2>2. CASE WorkStarted
    BY <2>1, <2>2 DEF WorkStarted, StartedCommitted, StartedRefused, Goto,
       TypeOK, TaskTypeOK, histVars, MayContact
  <2>3. CASE WorkTerminal
    BY <2>1, <2>3 DEF WorkTerminal, TypeOK, TaskTypeOK, histVars, MayContact
  <2> QED
    BY <1>4, <2>2, <2>3 DEF Worker
<1>5. CASE \/ \E s \in Session : CreateSession(s) \/ RevokeSession(s)
           \/ Unlock \/ Drain \/ Fault \/ Stop
  <2>1. UNCHANGED <<pc, reached>>
    BY <1>5 DEF CreateSession, RevokeSession, Unlock, UnlockBegin,
       UnlockAuthority, ActivateFailed, EnterRunning, FinishRunning,
       OpenAdmission, Rollback, Drain, DrainLocked, DrainBegin, IdleDrain,
       DrainRevoke, DrainWait, DrainIdle, DrainLock, Fault, RequestFault,
       FaultRevoke, RetentionFault, Stop, SelectStop, StopTimeout, StopAcquire,
       StopProof, StopBegin, StopRevoke, StopWait, StopJoin, StopIdle, StopLock,
       StopFinal, taskVars, execVars, histVars
  <2> QED
    BY <2>1 DEF MayContact
<1>6. CASE Restart
  BY <1>6 DEF Restart, TypeOK, TaskTypeOK
<1> QED
  BY <1>1, <1>2, <1>3, <1>4, <1>5, <1>6 DEF Next

\* Once a stop is pending, the executions that may still contact an endpoint
\* only become fewer, and no other contacts one, until the process restarts.
THEOREM StopEndsEffects == Spec => NoEffectAfterStop
<1>1. TypeOK /\ [Next]_vars =>
        [gate = "STOP_PENDING" =>
           \/ boots' # boots
           \/ /\ MayContact' \subseteq MayContact
              /\ \A e \in Exec : reached'[e] # reached[e] => e \in MayContact]_vars
  BY StoppedStep
<1> QED
  BY <1>1, TypeCorrect, PTL DEF Spec, NoEffectAfterStop

-----------------------------------------------------------------------------
(***************************************************************************)
(* The journal, for every instance of Broker: each execution's rows are    *)
(* well formed, owned until they are complete, and true to what the remote *)
(* side received; and what a drain and a stop leave of them.               *)
(***************************************************************************)

\* Before the started row is durable.
Unstarted == {"idle", "committing", "rejected", "abandoned"} \cup Admitting

\* A queued row has an owner that wrote it and waits for it, or is gone: a
\* started row belongs to an admission, a terminal row follows a durable
\* started row, is the response's if the task waits for a response, and says
\* nothing false of the endpoints.
RowOwned(e, row) ==
    /\ row = "started" => pc[e] \in {"committing", "abandoned"}
    /\ row # "started" => /\ pc[e] \in {"finishing", "awaiting", "closing", "done"}
                          /\ journal[e] = <<"started">>
    /\ pc[e] = "finishing" => row = "finished"
    /\ row = "blocked" => reached[e] = {}
    /\ row = "finished" => "target" \in reached[e]

\* Every row in the queue has its owner.
QueueOwned ==
    \A i \in 1..Len(queue) : RowOwned(queue[i].exec, queue[i].row)

\* No execution has two rows in the queue.
QueueOnce ==
    \A i, j \in 1..Len(queue) : queue[i].exec = queue[j].exec => i = j

\* What is durable, given where the task is.
Recorded(e) ==
    /\ \/ journal[e] \in {<<>>, <<"started">>}
       \/ \E row \in TerminalRow : journal[e] = <<"started", row>>
    /\ pc[e] \in Unstarted => journal[e] = <<>>
    /\ pc[e] \in Guarded => journal[e] = <<"started">>
    /\ pc[e] = "confirmed" \/ e \in delivered
         => journal[e] = <<"started", "finished">>

\* What the endpoints received, given where the task is: the effect marker is
\* set before a request can leave, and the target comes after the provider.
Marked(e) ==
    /\ reached[e] # {} => journal[e] # <<>>
    /\ pc[e] \in Guarded /\ ~effect[e] => reached[e] = {}
    /\ pc[e] \in {"refresh", "inflight"} => effect[e]
    /\ pc[e] \in {"replied", "admitted"} => reached[e] = {}
    /\ pc[e] \in Guarded \ {"inflight"} => "target" \notin reached[e]
    /\ pc[e] \in {"running", "queued", "handing", "inflight"}
         /\ "provider" \in reached[e] => refreshed[e]
    /\ journal[e] = <<"started", "blocked">> => reached[e] = {}
    /\ journal[e] = <<"started", "finished">> => "target" \in reached[e]

\* A started row without its terminal is answered for.
Answered(e) ==
    journal[e] = <<"started">> =>
        \/ pc[e] \in Guarded
        \/ \E i \in 1..Len(queue) : queue[i].exec = e
        \/ failed

\* What the invariant says of one execution.
Evidence(e) == Recorded(e) /\ Marked(e) /\ Answered(e)

\* The inductive invariant of the journal.
EvidenceInv ==
    /\ QueueOwned
    /\ QueueOnce
    /\ \A e \in Exec : Evidence(e)

-----------------------------------------------------------------------------
(* Sequences and rows.                                                     *)

\* The entries of a queue after one more is appended.
LEMMA AppendEntries ==
    ASSUME NEW q \in Seq(Submission), NEW x \in Submission
    PROVE  /\ Append(q, x) \in Seq(Submission)
           /\ Len(Append(q, x)) = Len(q) + 1
           /\ \A i \in 1..Len(q) : Append(q, x)[i] = q[i]
           /\ Append(q, x)[Len(q) + 1] = x
OBVIOUS

\* The entries of a queue after its head is taken.
LEMMA TailEntries ==
    ASSUME NEW q \in Seq(Submission), q # <<>>
    PROVE  /\ Tail(q) \in Seq(Submission)
           /\ Len(q) \in Nat /\ Len(q) >= 1
           /\ Len(Tail(q)) = Len(q) - 1
           /\ \A i \in 1..Len(Tail(q)) : Tail(q)[i] = q[i + 1]
           /\ Head(q) = q[1] /\ Head(q) \in Submission
OBVIOUS

\* The rows of a journal after one more is appended.
LEMMA AppendRow ==
    ASSUME NEW q \in Seq(Row), NEW x \in Row
    PROVE  /\ Append(q, x) \in Seq(Row)
           /\ Len(Append(q, x)) = Len(q) + 1
           /\ \A i \in 1..Len(q) : Append(q, x)[i] = q[i]
           /\ Append(q, x)[Len(q) + 1] = x
OBVIOUS

\* Sequences of rows with the same length and the same entries are the same.
LEMMA SeqEqual ==
    ASSUME NEW p \in Seq(Row), NEW q \in Seq(Row), Len(p) = Len(q),
           \A i \in 1..Len(p) : p[i] = q[i]
    PROVE  p = q
OBVIOUS

\* The journals of one execution are told apart by their rows.
LEMMA Journals ==
    /\ <<"started">> # <<>>
    /\ \A row \in Row : /\ <<"started", row>> # <<>>
                        /\ <<"started", row>> # <<"started">>
                        /\ Append(<<"started">>, row) = <<"started", row>>
                        /\ Len(<<"started", row>>) = 2
                        /\ <<"started", row>>[2] = row
    /\ \A row1, row2 \in Row : <<"started", row1>> = <<"started", row2>> => row1 = row2
    /\ Append(<<>>, "started") = <<"started">>
    /\ Len(<<>>) = 0 /\ Len(<<"started">>) = 1
<1>1. <<"started">> # <<>> /\ Len(<<>>) = 0 /\ Len(<<"started">>) = 1
  OBVIOUS
<1>2. Append(<<>>, "started") = <<"started">>
  OBVIOUS
<1>3. ASSUME NEW row \in Row
      PROVE  /\ <<"started", row>> # <<>>
             /\ <<"started", row>> # <<"started">>
             /\ Append(<<"started">>, row) = <<"started", row>>
             /\ Len(<<"started", row>>) = 2
             /\ <<"started", row>>[2] = row
  <2>1. Len(<<"started", row>>) = 2 /\ <<"started", row>>[2] = row
    OBVIOUS
  <2>2. <<"started", row>> # <<>> /\ <<"started", row>> # <<"started">>
    BY <2>1, <1>1
  <2>3. Append(<<"started">>, row) = <<"started", row>>
    <3> DEFINE one == <<"started">>
               two == <<"started", row>>
    <3>1. one \in Seq(Row) /\ two \in Seq(Row) /\ Len(one) = 1 /\ one[1] = "started"
      BY DEF Row
    <3>2. Len(two) = 2 /\ two[1] = "started" /\ two[2] = row
      OBVIOUS
    <3> HIDE DEF one, two
    <3>3. /\ Append(one, row) \in Seq(Row) /\ Len(Append(one, row)) = Len(one) + 1
          /\ \A i \in 1..Len(one) : Append(one, row)[i] = one[i]
          /\ Append(one, row)[Len(one) + 1] = row
      BY <3>1, AppendRow
    <3>4. 1 \in 1..Len(one)
      BY <3>1
    <3>5. /\ Append(one, row) \in Seq(Row) /\ Len(Append(one, row)) = 2
          /\ Append(one, row)[1] = "started" /\ Append(one, row)[2] = row
      BY <3>1, <3>3, <3>4
    <3>6. Append(one, row) = two
      BY <3>1, <3>2, <3>5, SeqEqual
    <3> QED
      BY <3>6 DEF one, two
  <2> QED
    BY <2>1, <2>2, <2>3
<1>4. ASSUME NEW row1 \in Row, NEW row2 \in Row,
             <<"started", row1>> = <<"started", row2>>
      PROVE  row1 = row2
  BY <1>3, <1>4
<1> QED
  BY <1>1, <1>2, <1>3, <1>4

\* An execution that neither waits for a row nor has ended has none queued.
LEMMA NoEntry ==
    ASSUME QueueOwned, NEW e \in Exec,
           pc[e] \notin {"committing", "abandoned", "finishing", "awaiting",
                         "closing", "done"}
    PROVE  \A i \in 1..Len(queue) : queue[i].exec # e
BY DEF QueueOwned, RowOwned

-----------------------------------------------------------------------------
(* The shapes of a step.                                                   *)

\* What the evidence of the executions other than e depends on stays.
Apart(e) ==
    /\ \A f \in Exec \ {e} :
         /\ pc'[f] = pc[f] /\ reached'[f] = reached[f] /\ effect'[f] = effect[f]
         /\ refreshed'[f] = refreshed[f] /\ journal'[f] = journal[f]
         /\ f \in delivered' <=> f \in delivered

\* A step of e that neither queues nor commits a row.
LEMMA LocalStep ==
    ASSUME EvidenceInv, queue \in Seq(Submission), NEW e \in Exec, Apart(e),
           UNCHANGED <<queue, failed>>, Recorded(e)', Marked(e)', Answered(e)',
           \A i \in 1..Len(queue) : queue[i].exec = e => RowOwned(e, queue[i].row)'
    PROVE  EvidenceInv'
<1>1. QueueOwned'
  <2> SUFFICES ASSUME NEW i \in 1..Len(queue)
               PROVE  RowOwned(queue[i].exec, queue[i].row)'
    BY DEF QueueOwned
  <2>1. queue[i] \in Submission
    OBVIOUS
  <2>2. CASE queue[i].exec = e
    BY <2>2
  <2>3. CASE queue[i].exec # e
    BY <2>1, <2>3 DEF EvidenceInv, QueueOwned, RowOwned, Apart, Submission
  <2> QED
    BY <2>2, <2>3
<1>2. QueueOnce'
  BY DEF EvidenceInv, QueueOnce
<1>3. ASSUME NEW f \in Exec PROVE Evidence(f)'
  <2>1. CASE f = e
    BY <2>1 DEF Evidence
  <2>2. CASE f # e
    BY <2>2 DEF EvidenceInv, Evidence, Recorded, Marked, Answered, Apart
  <2> QED
    BY <2>1, <2>2
<1> QED
  BY <1>1, <1>2, <1>3 DEF EvidenceInv

\* A step of e that queues a row.
LEMMA QueueStep ==
    ASSUME EvidenceInv, queue \in Seq(Submission), NEW e \in Exec,
           NEW row \in Row, Apart(e), Enqueue(e, row), failed' = failed,
           Recorded(e)', Marked(e)', RowOwned(e, row)',
           \A i \in 1..Len(queue) : queue[i].exec # e
    PROVE  EvidenceInv'
<1> DEFINE x == [exec |-> e, row |-> row]
<1>0. x \in Submission /\ x.exec = e /\ x.row = row
  BY DEF Submission
<1>q. /\ queue' \in Seq(Submission)
      /\ Len(queue) \in Nat
      /\ Len(queue') = Len(queue) + 1
      /\ \A i \in 1..Len(queue) : queue'[i] = queue[i]
      /\ queue'[Len(queue) + 1] = x
  BY <1>0, AppendEntries DEF Enqueue
<1> HIDE DEF x
<1>1. QueueOwned'
  <2> SUFFICES ASSUME NEW i \in 1..Len(queue')
               PROVE  RowOwned(queue[i].exec, queue[i].row)'
    BY DEF QueueOwned
  <2>1. CASE i = Len(queue) + 1
    BY <2>1, <1>0, <1>q DEF RowOwned
  <2>2. CASE i \in 1..Len(queue)
    <3>1. queue'[i] = queue[i] /\ queue[i] \in Submission /\ queue[i].exec # e
      BY <2>2, <1>q
    <3>2. RowOwned(queue[i].exec, queue[i].row)
      BY <2>2 DEF EvidenceInv, QueueOwned
    <3> QED
      BY <3>1, <3>2 DEF RowOwned, Apart, Submission
  <2> QED
    BY <2>1, <2>2, <1>q
<1>2. QueueOnce'
  <2> SUFFICES ASSUME NEW i \in 1..Len(queue'), NEW j \in 1..Len(queue'),
                      queue'[i].exec = queue'[j].exec
               PROVE  i = j
    BY DEF QueueOnce
  <2>1. CASE i \in 1..Len(queue) /\ j \in 1..Len(queue)
    BY <2>1, <1>q DEF EvidenceInv, QueueOnce
  <2>2. CASE i \in 1..Len(queue) /\ j = Len(queue) + 1
    BY <2>2, <1>q, <1>0
  <2>3. CASE i = Len(queue) + 1 /\ j \in 1..Len(queue)
    BY <2>3, <1>q, <1>0
  <2>4. CASE i = Len(queue) + 1 /\ j = Len(queue) + 1
    BY <2>4
  <2> QED
    BY <2>1, <2>2, <2>3, <2>4, <1>q
<1>3. ASSUME NEW f \in Exec PROVE Evidence(f)'
  <2>1. CASE f = e
    <3>1. Answered(e)'
      BY <1>0, <1>q DEF Answered
    <3> QED
      BY <2>1, <3>1 DEF Evidence
  <2>2. CASE f # e
    <3>1. Recorded(f)' /\ Marked(f)'
      BY <2>2 DEF EvidenceInv, Evidence, Recorded, Marked, Apart
    <3>2. Answered(f)'
      <4>1. ASSUME NEW i \in 1..Len(queue), queue[i].exec = f
            PROVE  i \in 1..Len(queue') /\ queue'[i].exec = f
        BY <4>1, <1>q
      <4> QED
        BY <2>2, <4>1 DEF EvidenceInv, Evidence, Answered, Apart
    <3> QED
      BY <3>1, <3>2 DEF Evidence
  <2> QED
    BY <2>1, <2>2
<1> QED
  BY <1>1, <1>2, <1>3 DEF EvidenceInv

\* A step that leaves the executions, the queue and the journal alone.
LEMMA FrameStep ==
    ASSUME EvidenceInv, UNCHANGED <<pc, effect, refreshed, auditVars, histVars>>
    PROVE  EvidenceInv'
BY DEF EvidenceInv, QueueOwned, QueueOnce, RowOwned, Evidence, Recorded, Marked,
       Answered, auditVars, histVars

-----------------------------------------------------------------------------
(* The steps of one execution.                                             *)

\* Moving one execution leaves the others where they are.
LEMMA GotoApart ==
    ASSUME TypeOK, NEW e \in Exec, NEW next, Goto(e, next)
    PROVE  pc'[e] = next /\ \A f \in Exec \ {e} : pc'[f] = pc[f]
BY DEF TypeOK, TaskTypeOK, Goto

\* Everything an execution's evidence depends on but its program counter.
evidenceVars == <<effect, refreshed, auditVars, histVars>>

\* A move before the started row is durable: through admission, or out of it.
LEMMA AdmitStep ==
    ASSUME TypeOK, EvidenceInv, NEW e \in Exec, NEW next, Goto(e, next),
           UNCHANGED evidenceVars, pc[e] \in Unstarted,
           \/ pc[e] \in {"idle", "rejected"} \cup Admitting
              /\ next \in Admitting \cup {"done"}
           \/ pc[e] = "committing" /\ next = "abandoned"
    PROVE  EvidenceInv'
<1>1. Apart(e) /\ pc'[e] = next /\ UNCHANGED <<queue, failed>>
  BY GotoApart DEF Apart, evidenceVars, auditVars, histVars
<1>2. journal[e] = <<>> /\ journal'[e] = <<>> /\ reached[e] = {} /\ reached'[e] = {}
      /\ e \notin delivered /\ e \notin delivered'
  BY Journals DEF EvidenceInv, Evidence, Recorded, Marked, evidenceVars, auditVars,
     histVars, Row
<1>3. next \notin Guarded /\ next # "confirmed"
  BY DEF Guarded, Admitting
<1>4. Recorded(e)'
  BY <1>1, <1>2, <1>3 DEF Recorded
<1>5. Marked(e)'
  BY <1>1, <1>2, <1>3, Journals DEF Marked, Row, Guarded, Admitting
<1>6. Answered(e)'
  BY <1>2, Journals DEF Answered
<1>7. ASSUME NEW i \in 1..Len(queue), queue[i].exec = e
      PROVE  RowOwned(e, queue[i].row)'
  <2>1. RowOwned(e, queue[i].row)
    BY <1>7 DEF EvidenceInv, QueueOwned
  <2>2. pc[e] = "committing" /\ next = "abandoned"
    BY <2>1 DEF RowOwned, Unstarted, Admitting
  <2> QED
    BY <2>1, <2>2, <1>1, <1>2 DEF RowOwned
<1> QED
  BY <1>1, <1>4, <1>5, <1>6, <1>7, LocalStep DEF TypeOK, TaskTypeOK

\* A move of an execution that keeps its guard.
LEMMA GuardedStep ==
    ASSUME TypeOK, EvidenceInv, NEW e \in Exec, pc[e] \in Guarded,
           pc'[e] \in Guarded, Apart(e), UNCHANGED <<auditVars, delivered>>,
           Marked(e)'
    PROVE  EvidenceInv'
<1>1. journal'[e] = <<"started">> /\ e \notin delivered'
  BY Journals DEF EvidenceInv, Evidence, Recorded, auditVars, Row
<1>2. Recorded(e)' /\ Answered(e)'
  BY <1>1 DEF Recorded, Answered, Guarded, Unstarted, Admitting
<1>3. \A i \in 1..Len(queue) : queue[i].exec # e
  BY NoEntry DEF EvidenceInv, Guarded
<1> QED
  BY <1>2, <1>3, LocalStep DEF TypeOK, TaskTypeOK, auditVars

\* A guard queues its terminal and the execution leaves it to the worker.
LEMMA TerminalStep ==
    ASSUME TypeOK, EvidenceInv, NEW e \in Exec, pc[e] \in Guarded,
           NEW row \in TerminalRow, Enqueue(e, row), Apart(e),
           pc'[e] \in {"finishing", "awaiting", "closing", "done"},
           UNCHANGED <<failed, journal, reached, delivered>>,
           pc'[e] = "finishing" => row = "finished",
           row = "blocked" => reached[e] = {},
           row = "finished" => "target" \in reached[e]
    PROVE  EvidenceInv'
<1>1. journal'[e] = <<"started">> /\ e \notin delivered'
  BY Journals DEF EvidenceInv, Evidence, Recorded, Row
<1>2. Recorded(e)'
  BY <1>1 DEF Recorded, Guarded, Unstarted, Admitting
<1>3. Marked(e)'
  BY <1>1, Journals DEF Marked, Guarded, Row
<1>4. RowOwned(e, row)'
  BY <1>1 DEF RowOwned, TerminalRow
<1>5. \A i \in 1..Len(queue) : queue[i].exec # e
  BY NoEntry DEF EvidenceInv, Guarded
<1> QED
  BY <1>2, <1>3, <1>4, <1>5, QueueStep DEF TypeOK, TaskTypeOK, TerminalRow

\* What a guard that gives up reports is true.
LEMMA FallbackTrue ==
    ASSUME EvidenceInv, NEW e \in Exec, pc[e] \in Guarded
    PROVE  /\ Fallback(e) \in TerminalRow /\ Fallback(e) # "finished"
           /\ Fallback(e) = "blocked" => reached[e] = {}
BY DEF Fallback, TerminalRow, Row, EvidenceInv, Evidence, Marked

\* A move of an execution whose terminal is queued or committed.
LEMMA RetireStep ==
    ASSUME TypeOK, EvidenceInv, NEW e \in Exec, pc[e] \in Submitted,
           NEW next \in {"closing", "done"}, Goto(e, next),
           UNCHANGED <<effect, refreshed, auditVars, reached>>,
           delivered' = delivered
             \/ (pc[e] = "confirmed" /\ delivered' = delivered \cup {e})
    PROVE  EvidenceInv'
<1>1. Apart(e) /\ pc'[e] = next /\ UNCHANGED <<queue, failed>>
  BY GotoApart DEF Apart, auditVars
<1>2. Recorded(e) /\ Marked(e) /\ Answered(e)
  BY DEF EvidenceInv, Evidence
<1>3. Recorded(e)'
  BY <1>1, <1>2 DEF Recorded, Guarded, Unstarted, Admitting, auditVars
<1>4. Marked(e)'
  BY <1>1, <1>2 DEF Marked, Guarded, auditVars
<1>5. Answered(e)'
  BY <1>1, <1>2 DEF Answered, Guarded, Submitted, auditVars
<1>6. ASSUME NEW i \in 1..Len(queue), queue[i].exec = e
      PROVE  RowOwned(e, queue[i].row)'
  <2>1. RowOwned(e, queue[i].row)
    BY <1>6 DEF EvidenceInv, QueueOwned
  <2> QED
    BY <2>1, <1>1 DEF RowOwned, Submitted, auditVars
<1> QED
  BY <1>1, <1>3, <1>4, <1>5, <1>6, LocalStep DEF TypeOK, TaskTypeOK

-----------------------------------------------------------------------------
(* Every action keeps the evidence.                                        *)

\* Admission: the started row is queued once, and dropped with its caller or
\* handed to it (executor.rs, executor/local.rs, audit.rs).
LEMMA AdmissionEvidence ==
    ASSUME TypeOK, EvidenceInv, NEW e \in Exec, Admission(e)
    PROVE  EvidenceInv'
<1> USE DEF evidenceVars, auditVars, histVars
<1>1. CASE Acquire(e) \/ AcquireConnection(e) \/ WaitForCoordinator(e)
  BY <1>1, AdmitStep DEF Acquire, AcquireConnection, WaitForCoordinator,
     Unstarted, Admitting
<1>2. CASE RefuseAdmission(e)
  BY <1>2, AdmitStep DEF RefuseAdmission, Unstarted
<1>3. CASE SubmitStarted(e)
  <2>1. Apart(e) /\ pc'[e] = "committing" /\ failed' = failed
    BY <1>3, GotoApart DEF SubmitStarted, Apart
  <2>2. /\ journal[e] = <<>> /\ journal'[e] = <<>> /\ reached'[e] = {}
        /\ e \notin delivered'
    BY <1>3, Journals DEF SubmitStarted, EvidenceInv, Evidence, Recorded, Marked,
       Unstarted, Row
  <2>3. Recorded(e)'
    BY <2>1, <2>2 DEF Recorded, Guarded
  <2>4. Marked(e)'
    BY <2>1, <2>2, Journals DEF Marked, Guarded, Row
  <2>5. RowOwned(e, "started")'
    BY <2>1 DEF RowOwned
  <2>6. \A i \in 1..Len(queue) : queue[i].exec # e
    BY <1>3, NoEntry DEF SubmitStarted, EvidenceInv, Admitting
  <2>7. "started" \in Row /\ Enqueue(e, "started")
    BY <1>3 DEF SubmitStarted, Row
  <2> QED
    BY <2>1, <2>3, <2>4, <2>5, <2>6, <2>7, QueueStep DEF TypeOK, TaskTypeOK
<1>4. CASE ReceiveStarted(e) /\ pc[e] = "replied"
  <2>1. pc'[e] = "admitted" /\ Apart(e)
    BY <1>4, GotoApart DEF ReceiveStarted, Apart
  <2>2. Marked(e)'
    BY <1>4, <2>1 DEF ReceiveStarted, EvidenceInv, Evidence, Marked, Guarded
  <2> QED
    BY <1>4, <2>1, <2>2, GuardedStep DEF ReceiveStarted, Guarded
<1>5. CASE ReceiveStarted(e) /\ pc[e] = "rejected"
  BY <1>5, AdmitStep DEF ReceiveStarted, Unstarted
<1>6. CASE AdmissionTimeout(e) /\ pc[e] = "committing"
  BY <1>6, AdmitStep DEF AdmissionTimeout, Unstarted
<1>7. CASE AdmissionTimeout(e) /\ pc[e] = "replied"
  <2>1. pc[e] \in Guarded
    BY <1>7 DEF Guarded
  <2>2. pc'[e] = "done" /\ Apart(e) /\ Enqueue(e, Fallback(e))
    BY <1>7, GotoApart DEF AdmissionTimeout, Apart
  <2> QED
    BY <1>7, <2>1, <2>2, FallbackTrue, TerminalStep DEF AdmissionTimeout
<1> QED
  BY <1>1, <1>2, <1>3, <1>4, <1>5, <1>6, <1>7 DEF Admission, ReceiveStarted,
     AdmissionTimeout

\* A step that queues the terminal of a guarded execution keeps the evidence,
\* if the row is true.
LEMMA SubmitTerminalEvidence ==
    ASSUME TypeOK, EvidenceInv, NEW e \in Exec, pc[e] \in Guarded,
           NEW row \in TerminalRow, NEW next \in {"finishing", "awaiting", "closing"},
           SubmitTerminal(e, row, next),
           \A f \in Exec \ {e} : effect'[f] = effect[f],
           next = "finishing" => row = "finished",
           row = "blocked" => reached[e] = {},
           row = "finished" => "target" \in reached[e]
    PROVE  EvidenceInv'
<1>1. pc'[e] = next /\ Apart(e) /\ Enqueue(e, row)
  BY GotoApart DEF SubmitTerminal, Apart, histVars
<1> QED
  BY <1>1, TerminalStep DEF SubmitTerminal, histVars

\* A guarded execution that gives up keeps the evidence.
LEMMA GiveUpEvidence ==
    ASSUME TypeOK, EvidenceInv, NEW e \in Exec, pc[e] \in Guarded,
           NEW next \in {"awaiting", "closing"},
           SubmitTerminal(e, Fallback(e), next), UNCHANGED effect
    PROVE  EvidenceInv'
BY FallbackTrue, SubmitTerminalEvidence

\* A guarded execution that only moves towards its handoff keeps the evidence.
LEMMA PassEvidence ==
    ASSUME TypeOK, EvidenceInv, NEW e \in Exec,
           pc[e] \in {"admitted", "running", "queued"},
           NEW next \in {"running", "queued", "refreshGate", "handing"},
           Goto(e, next), UNCHANGED evidenceVars
    PROVE  EvidenceInv'
<1>1. pc'[e] = next /\ Apart(e)
  BY GotoApart DEF Apart, evidenceVars, auditVars, histVars
<1>2. Marked(e)
  BY DEF EvidenceInv, Evidence
<1>3. Marked(e)'
  BY <1>1, <1>2 DEF Marked, Guarded, evidenceVars, auditVars, histVars
<1> QED
  BY <1>1, <1>3, GuardedStep DEF Guarded, evidenceVars, histVars

\* Running: the guard is kept until its one terminal is queued, and the row
\* chosen is true (executor.rs, oauth.rs).
LEMMA RunningEvidence ==
    ASSUME TypeOK, EvidenceInv, NEW e \in Exec, Running(e)
    PROVE  EvidenceInv'
<1>0. Marked(e) /\ reached[e] \subseteq Endpoint
  BY DEF EvidenceInv, Evidence, TypeOK, TaskTypeOK
<1>r. "blocked" \in TerminalRow /\ "indeterminate" \in TerminalRow
      /\ "finished" \in TerminalRow
  BY DEF TerminalRow, Row
<1>1. CASE Subscribe(e)
  <2>1. CASE SubmitTerminal(e, "blocked", "closing")
    BY <1>1, <2>1, <1>0, <1>r, SubmitTerminalEvidence DEF Subscribe, Marked, Guarded
  <2>2. CASE Goto(e, "running") /\ UNCHANGED evidenceVars
    BY <1>1, <2>2, PassEvidence DEF Subscribe
  <2> QED
    BY <1>1, <2>1, <2>2 DEF Subscribe, evidenceVars
<1>2. CASE Cancel(e)
  <2>1. CASE pc[e] \in {"running", "queued", "refresh", "inflight"}
    BY <1>2, <2>1, GiveUpEvidence DEF Cancel, Guarded
  <2>2. CASE pc[e] \in {"finishing", "awaiting"}
    BY <1>2, <2>2, RetireStep DEF Cancel, Submitted, histVars
  <2> QED
    BY <1>2, <2>1, <2>2 DEF Cancel
<1>3. CASE FailBeforeHandoff(e)
  BY <1>3, GiveUpEvidence DEF FailBeforeHandoff, Guarded
<1>4. CASE RefreshGate(e)
  <2>1. CASE SubmitTerminal(e, Fallback(e), "awaiting")
    BY <1>4, <2>1, GiveUpEvidence DEF RefreshGate, Guarded
  <2>2. CASE Goto(e, "refreshGate") /\ UNCHANGED evidenceVars
    BY <1>4, <2>2, PassEvidence DEF RefreshGate
  <2> QED
    BY <1>4, <2>1, <2>2 DEF RefreshGate, evidenceVars
<1>5. CASE RefreshSend(e)
  <2>1. pc[e] = "refreshGate" /\ pc'[e] = "refresh" /\ Apart(e) /\ effect'[e] = TRUE
    BY <1>5, GotoApart DEF RefreshSend, Apart, TypeOK, TaskTypeOK, auditVars, histVars
  <2>2. "target" \notin reached'[e] /\ journal'[e] = <<"started">>
    BY <1>5, <1>0 DEF RefreshSend, Marked, Guarded, TypeOK, TaskTypeOK, EvidenceInv,
       Evidence, Recorded, auditVars, histVars
  <2>3. Marked(e)'
    BY <2>1, <2>2, Journals DEF Marked, Guarded, Row
  <2> QED
    BY <1>5, <2>1, <2>3, GuardedStep DEF RefreshSend, Guarded, histVars
<1>6. CASE RefreshDone(e)
  <2>1. pc[e] = "refresh" /\ pc'[e] = "running" /\ Apart(e) /\ refreshed'[e] = TRUE
    BY <1>6, GotoApart DEF RefreshDone, Apart, TypeOK, TaskTypeOK, auditVars, histVars
  <2>2. Marked(e)'
    BY <1>6, <1>0, <2>1 DEF RefreshDone, Marked, Guarded, auditVars, histVars
  <2> QED
    BY <1>6, <2>1, <2>2, GuardedStep DEF RefreshDone, Guarded, histVars
<1>7. CASE RefreshFail(e)
  <2>0. pc[e] \in Guarded /\ \A f \in Exec \ {e} : effect'[f] = effect[f]
    BY <1>7 DEF RefreshFail, Guarded, TypeOK, TaskTypeOK
  <2>1. CASE SubmitTerminal(e, "indeterminate", "awaiting")
    BY <2>0, <2>1, <1>r, SubmitTerminalEvidence
  <2>2. CASE "provider" \notin reached[e] /\ SubmitTerminal(e, "blocked", "awaiting")
    <3>1. reached[e] = {}
      BY <1>7, <2>2, <1>0 DEF RefreshFail, Marked, Guarded, Endpoint
    <3> QED
      BY <2>0, <2>2, <3>1, <1>r, SubmitTerminalEvidence
  <2> QED
    BY <1>7, <2>1, <2>2 DEF RefreshFail
<1>8. CASE JoinCoordinator(e)
  <2>1. CASE SubmitTerminal(e, Fallback(e), "closing")
    BY <1>8, <2>1, GiveUpEvidence DEF JoinCoordinator, ReadyForTarget, Guarded
  <2>2. CASE Goto(e, "queued") /\ UNCHANGED evidenceVars
    BY <1>8, <2>2, PassEvidence DEF JoinCoordinator, ReadyForTarget
  <2> QED
    BY <1>8, <2>1, <2>2 DEF JoinCoordinator, evidenceVars
<1>9. CASE HandoffRevoked(e)
  BY <1>9, GiveUpEvidence DEF HandoffRevoked, ReadyForTarget, Guarded
<1>10. CASE HandoffEnter(e)
  <2>0. pc[e] \in {"running", "queued"}
    BY <1>10 DEF HandoffEnter, WantsHandoff, ReadyForTarget
  <2>1. CASE SubmitTerminal(e, Fallback(e), "closing")
    BY <1>10, <2>0, <2>1, GiveUpEvidence DEF HandoffEnter, Guarded, SubmitTerminal
  <2>2. CASE Goto(e, "handing") /\ UNCHANGED evidenceVars
    BY <2>0, <2>2, PassEvidence
  <2> QED
    BY <1>10, <2>1, <2>2 DEF HandoffEnter, evidenceVars
<1>11. CASE HandoffSend(e)
  <2>1. pc[e] = "handing" /\ pc'[e] = "inflight" /\ Apart(e) /\ effect'[e] = TRUE
    BY <1>11, GotoApart DEF HandoffSend, Apart, TypeOK, TaskTypeOK, auditVars, histVars
  <2>2. /\ "provider" \in reached'[e] => refreshed'[e]
        /\ journal'[e] = <<"started">>
    BY <1>11, <1>0 DEF HandoffSend, Marked, Guarded, TypeOK, TaskTypeOK, EvidenceInv,
       Evidence, Recorded, auditVars, histVars
  <2>3. Marked(e)'
    BY <2>1, <2>2, Journals DEF Marked, Guarded, Row
  <2> QED
    BY <1>11, <2>1, <2>3, GuardedStep DEF HandoffSend, Guarded, histVars
<1>c. CASE Contact(e)
  <2>1. /\ pc[e] \in {"refresh", "inflight"} /\ UNCHANGED <<pc, effect, refreshed>>
        /\ reached'[e] = reached[e] \cup {Heading(e)}
        /\ UNCHANGED <<auditVars, delivered>> /\ Apart(e)
    BY <1>c DEF Contact, execVars, Apart, TypeOK, TaskTypeOK, auditVars
  <2>2. journal[e] = <<"started">> /\ journal'[e] = <<"started">>
    BY <2>1 DEF EvidenceInv, Evidence, Recorded, Guarded, auditVars
  <2>3. effect[e]
    BY <1>c, <2>1, <1>0 DEF Marked
  <2>4. Marked(e)'
    BY <2>1, <2>2, <2>3, <1>0, Journals DEF Marked, Guarded, Row, Heading
  <2> QED
    BY <2>1, <2>4, GuardedStep DEF Guarded
<1>12. CASE Respond(e)
  BY <1>12, <1>r, SubmitTerminalEvidence DEF Respond, Guarded
<1>13. CASE FailIndeterminate(e)
  BY <1>13, <1>r, SubmitTerminalEvidence DEF FailIndeterminate, Guarded
<1>14. CASE FailNoEffect(e)
  <2>0. pc[e] \in Guarded /\ \A f \in Exec \ {e} : effect'[f] = effect[f]
    BY <1>14 DEF FailNoEffect, Guarded, TypeOK, TaskTypeOK
  <2>1. CASE refreshed[e]
    BY <1>14, <2>0, <2>1, <1>r, SubmitTerminalEvidence DEF FailNoEffect
  <2>2. CASE ~refreshed[e]
    <3>1. reached[e] = {}
      BY <1>14, <2>2, <1>0 DEF FailNoEffect, Marked, Endpoint
    <3> QED
      BY <1>14, <2>0, <2>2, <3>1, <1>r, SubmitTerminalEvidence DEF FailNoEffect
  <2> QED
    BY <2>1, <2>2
<1>15. CASE TerminalTimeout(e)
  BY <1>15, RetireStep DEF TerminalTimeout, Submitted, histVars
<1>16. CASE Return(e)
  BY <1>16, RetireStep DEF Return, Submitted
<1> QED
  BY <1>1, <1>2, <1>3, <1>4, <1>5, <1>6, <1>7, <1>8, <1>9, <1>10, <1>11, <1>12,
     <1>13, <1>14, <1>15, <1>16, <1>c DEF Running

\* A task that unwinds leaves its evidence to the worker: the guard queues its
\* fallback once, a queued row stays queued.
LEMMA UnwindEvidence ==
    ASSUME TypeOK, EvidenceInv, NEW e \in Exec, Panic(e) \/ Abort(e)
    PROVE  EvidenceInv'
<1>1. /\ DropTask(e) /\ pc[e] \notin AtRest
      /\ UNCHANGED <<effect, refreshed, failed, journal, histVars>>
  BY DEF Panic, Abort, AtRest
<1>2. CASE pc[e] \in Guarded
  <2>1. pc'[e] = "done" /\ Apart(e) /\ Enqueue(e, Fallback(e))
    BY <1>1, <1>2, GotoApart DEF DropTask, Guarded, Apart, histVars
  <2> QED
    BY <1>1, <1>2, <2>1, FallbackTrue, TerminalStep DEF histVars
<1>3. CASE pc[e] \in Submitted
  <2>1. Goto(e, "done") /\ UNCHANGED queue
    BY <1>1, <1>3 DEF DropTask, Submitted, Guarded
  <2> QED
    BY <1>1, <1>3, <2>1, RetireStep DEF auditVars, histVars
<1>4. CASE pc[e] \in Admitting \cup {"committing", "rejected"}
  <2>1. UNCHANGED evidenceVars
    BY <1>1, <1>4 DEF DropTask, Guarded, Admitting, evidenceVars, auditVars
  <2>2. Goto(e, IF pc[e] = "committing" THEN "abandoned" ELSE "done")
    BY <1>1 DEF DropTask
  <2>3. CASE pc[e] = "committing"
    BY <2>1, <2>2, <2>3, AdmitStep DEF Unstarted
  <2>4. CASE pc[e] # "committing"
    BY <1>4, <2>1, <2>2, <2>4, AdmitStep DEF Unstarted
  <2> QED
    BY <2>3, <2>4
<1> QED
  BY <1>1, <1>2, <1>3, <1>4 DEF TypeOK, TaskTypeOK, ExecPc

-----------------------------------------------------------------------------
(* The audit worker.                                                       *)

\* What is left of the queue without its head: no row of the head's
\* execution, and every row of the others.
LEMMA TailFacts ==
    ASSUME TypeOK, EvidenceInv, queue # <<>>
    PROVE  /\ Head1.exec \in Exec /\ Head1.row \in Row
           /\ RowOwned(Head1.exec, Head1.row)
           /\ Tail(queue) \in Seq(Submission) /\ Len(Tail(queue)) \in Nat
           /\ \A i \in 1..Len(Tail(queue)) :
                /\ Tail(queue)[i] \in Submission
                /\ Tail(queue)[i].exec # Head1.exec
                /\ RowOwned(Tail(queue)[i].exec, Tail(queue)[i].row)
           /\ \A i, j \in 1..Len(Tail(queue)) :
                Tail(queue)[i].exec = Tail(queue)[j].exec => i = j
           /\ \A i \in 1..Len(queue) : queue[i].exec # Head1.exec =>
                i - 1 \in 1..Len(Tail(queue)) /\ Tail(queue)[i - 1] = queue[i]
<1> DEFINE q == Tail(queue)
<1>1. /\ q \in Seq(Submission) /\ Len(queue) \in Nat /\ Len(queue) >= 1
      /\ Len(q) = Len(queue) - 1
      /\ \A i \in 1..Len(q) : q[i] = queue[i + 1]
      /\ Head1 = queue[1] /\ Head1 \in Submission
  BY TailEntries DEF TypeOK, TaskTypeOK, Head1
<1> HIDE DEF q
<1>2. /\ \A i \in 1..Len(queue) : RowOwned(queue[i].exec, queue[i].row)
      /\ \A i, j \in 1..Len(queue) : queue[i].exec = queue[j].exec => i = j
  BY DEF EvidenceInv, QueueOwned, QueueOnce
<1>3. Head1.exec \in Exec /\ Head1.row \in Row /\ RowOwned(Head1.exec, Head1.row)
  BY <1>1, <1>2 DEF Submission
<1>4. ASSUME NEW i \in 1..Len(q)
      PROVE  q[i] \in Submission /\ q[i].exec # Head1.exec /\ RowOwned(q[i].exec, q[i].row)
  <2>1. i + 1 \in 1..Len(queue) /\ 1 \in 1..Len(queue) /\ i + 1 # 1 /\ q[i] = queue[i + 1]
    BY <1>1
  <2>2. queue[i + 1].exec # queue[1].exec
    BY <2>1, <1>2
  <2> QED
    BY <1>1, <1>2, <2>1, <2>2
<1>5. ASSUME NEW i \in 1..Len(q), NEW j \in 1..Len(q), q[i].exec = q[j].exec
      PROVE  i = j
  <2>1. /\ i + 1 \in 1..Len(queue) /\ q[i] = queue[i + 1]
        /\ j + 1 \in 1..Len(queue) /\ q[j] = queue[j + 1]
    BY <1>1
  <2>2. i + 1 = j + 1
    BY <1>2, <1>5, <2>1
  <2> QED
    BY <2>2
<1>6. ASSUME NEW i \in 1..Len(queue), queue[i].exec # Head1.exec
      PROVE  i - 1 \in 1..Len(q) /\ q[i - 1] = queue[i]
  <2>1. i # 1
    BY <1>1, <1>6
  <2>2. i - 1 \in 1..Len(q)
    BY <1>1, <2>1
  <2> QED
    BY <1>1, <2>2
<1> QED
  BY <1>1, <1>3, <1>4, <1>5, <1>6 DEF q

\* The worker takes a row off the queue.
LEMMA TakeStep ==
    ASSUME TypeOK, EvidenceInv, queue # <<>>, NEW e \in Exec, e = Head1.exec,
           Apart(e), queue' = Tail(queue), failed => failed',
           Recorded(e)', Marked(e)',
           journal'[e] = <<"started">> => pc'[e] \in Guarded \/ failed'
    PROVE  EvidenceInv'
<1> DEFINE q == Tail(queue)
<1>t. /\ q \in Seq(Submission) /\ queue' = q
      /\ \A i \in 1..Len(q) : /\ q[i] \in Submission /\ q[i].exec # e
                              /\ RowOwned(q[i].exec, q[i].row)
      /\ \A i, j \in 1..Len(q) : q[i].exec = q[j].exec => i = j
      /\ \A i \in 1..Len(queue) : queue[i].exec # e =>
           i - 1 \in 1..Len(q) /\ q[i - 1] = queue[i]
  BY TailFacts
<1>e. pc'[e] \in Guarded \/ failed' \/ journal'[e] # <<"started">>
  OBVIOUS
<1> HIDE DEF q
<1>1. QueueOwned'
  <2> SUFFICES ASSUME NEW i \in 1..Len(q) PROVE RowOwned(queue[i].exec, queue[i].row)'
    BY <1>t DEF QueueOwned
  <2>1. q[i] \in Submission /\ q[i].exec # e /\ RowOwned(q[i].exec, q[i].row)
    BY <1>t
  <2>2. PICK f \in Exec \ {e} : f = q[i].exec
    BY <2>1 DEF Submission
  <2>3. queue'[i].exec = f /\ queue'[i].row = q[i].row
    BY <1>t, <2>2
  <2>4. pc'[f] = pc[f] /\ journal'[f] = journal[f] /\ reached'[f] = reached[f]
    BY DEF Apart
  <2>5. RowOwned(f, q[i].row)
    BY <2>1, <2>2
  <2> QED
    BY <2>3, <2>4, <2>5 DEF RowOwned
<1>2. QueueOnce'
  BY <1>t DEF QueueOnce
<1>3. ASSUME NEW f \in Exec, f # e PROVE Evidence(f)'
  <2>1. Recorded(f)' /\ Marked(f)'
    BY <1>3, <1>t DEF EvidenceInv, Evidence, Recorded, Marked, Apart
  <2>2. Answered(f)'
    <3>1. ASSUME NEW i \in 1..Len(queue), queue[i].exec = f
          PROVE  i - 1 \in 1..Len(queue') /\ queue'[i - 1].exec = f
      BY <1>3, <3>1, <1>t
    <3>2. Answered(f)
      BY DEF EvidenceInv, Evidence
    <3>3. journal'[f] = journal[f] /\ pc'[f] = pc[f]
      BY <1>3, <1>t DEF Apart
    <3> QED
      BY <3>1, <3>2, <3>3 DEF Answered
  <2> QED
    BY <2>1, <2>2 DEF Evidence
<1>4. Evidence(e)'
  <2>1. Answered(e)'
    BY <1>e DEF Answered
  <2> QED
    BY <2>1 DEF Evidence
<1> QED
  BY <1>1, <1>2, <1>3, <1>4 DEF EvidenceInv

\* The worker takes a row off the queue and its orphaned guard queues another.
LEMMA ReplaceStep ==
    ASSUME TypeOK, EvidenceInv, queue # <<>>, NEW e \in Exec, e = Head1.exec,
           NEW row \in Row, Apart(e),
           queue' = Append(Tail(queue), [exec |-> e, row |-> row]),
           failed' = failed, Recorded(e)', Marked(e)', RowOwned(e, row)'
    PROVE  EvidenceInv'
<1> DEFINE q == Tail(queue)
           x == [exec |-> e, row |-> row]
<1>0. x \in Submission /\ x.exec = e /\ x.row = row
  BY DEF Submission
<1>t. /\ q \in Seq(Submission) /\ Len(q) \in Nat
      /\ \A i \in 1..Len(q) : /\ q[i] \in Submission /\ q[i].exec # e
                              /\ RowOwned(q[i].exec, q[i].row)
      /\ \A i, j \in 1..Len(q) : q[i].exec = q[j].exec => i = j
      /\ \A i \in 1..Len(queue) : queue[i].exec # e =>
           i - 1 \in 1..Len(q) /\ q[i - 1] = queue[i]
  BY TailFacts
<1>q. queue' = Append(q, x)
  OBVIOUS
<1> HIDE DEF q, x
<1>a. /\ Len(queue') = Len(q) + 1
      /\ \A i \in 1..Len(q) : queue'[i] = q[i]
      /\ queue'[Len(q) + 1] = x
  <2>1. q \in Seq(Submission) /\ x \in Submission
    BY <1>0, <1>t
  <2>2. /\ Len(Append(q, x)) = Len(q) + 1
        /\ \A i \in 1..Len(q) : Append(q, x)[i] = q[i]
        /\ Append(q, x)[Len(q) + 1] = x
    BY <2>1, AppendEntries
  <2> QED
    BY <1>q, <2>2
<1>1. QueueOwned'
  <2> SUFFICES ASSUME NEW i \in 1..Len(queue')
               PROVE  RowOwned(queue[i].exec, queue[i].row)'
    BY DEF QueueOwned
  <2>1. CASE i = Len(q) + 1
    BY <2>1, <1>0, <1>a DEF RowOwned
  <2>2. CASE i \in 1..Len(q)
    <3>1. /\ queue'[i] = q[i] /\ q[i] \in Submission /\ q[i].exec # e
          /\ RowOwned(q[i].exec, q[i].row)
      BY <2>2, <1>a, <1>t
    <3> QED
      BY <3>1 DEF RowOwned, Apart, Submission
  <2> QED
    BY <2>1, <2>2, <1>a, <1>t
<1>2. QueueOnce'
  <2> SUFFICES ASSUME NEW i \in 1..Len(queue'), NEW j \in 1..Len(queue'),
                      queue'[i].exec = queue'[j].exec
               PROVE  i = j
    BY DEF QueueOnce
  <2>1. CASE i \in 1..Len(q) /\ j \in 1..Len(q)
    BY <2>1, <1>a, <1>t
  <2>2. CASE i \in 1..Len(q) /\ j = Len(q) + 1
    BY <2>2, <1>a, <1>t, <1>0
  <2>3. CASE i = Len(q) + 1 /\ j \in 1..Len(q)
    BY <2>3, <1>a, <1>t, <1>0
  <2>4. CASE i = Len(q) + 1 /\ j = Len(q) + 1
    BY <2>4
  <2> QED
    BY <2>1, <2>2, <2>3, <2>4, <1>a, <1>t
<1>3. ASSUME NEW f \in Exec, f # e PROVE Evidence(f)'
  <2>1. Recorded(f)' /\ Marked(f)'
    BY <1>3 DEF EvidenceInv, Evidence, Recorded, Marked, Apart
  <2>2. Answered(f)'
    <3>1. ASSUME NEW i \in 1..Len(queue), queue[i].exec = f
          PROVE  i - 1 \in 1..Len(queue') /\ queue'[i - 1].exec = f
      BY <1>3, <3>1, <1>t, <1>a
    <3>2. Answered(f)
      BY DEF EvidenceInv, Evidence
    <3>3. journal'[f] = journal[f] /\ pc'[f] = pc[f]
      BY <1>3 DEF Apart
    <3> QED
      BY <3>1, <3>2, <3>3 DEF Answered
  <2> QED
    BY <2>1, <2>2 DEF Evidence
<1>4. Evidence(e)'
  <2>1. Answered(e)'
    BY <1>0, <1>a, <1>t DEF Answered
  <2> QED
    BY <2>1 DEF Evidence
<1> QED
  BY <1>1, <1>2, <1>3, <1>4 DEF EvidenceInv

\* A started row is committed, and its guard goes to the caller or queues its
\* fallback; or it is refused, and nothing of it remains.
LEMMA WorkStartedEvidence ==
    ASSUME TypeOK, EvidenceInv, WorkStarted
    PROVE  EvidenceInv'
<1>1. PICK e \in Exec : e = Head1.exec
  BY TailFacts DEF WorkStarted
<1>2. /\ queue # <<>> /\ pc[e] \in {"committing", "abandoned"}
      /\ journal[e] = <<>> /\ reached[e] = {} /\ e \notin delivered
  <2>1. queue # <<>> /\ Head1.row = "started"
    BY DEF WorkStarted
  <2>2. pc[e] \in {"committing", "abandoned"}
    BY <1>1, <2>1, TailFacts DEF RowOwned
  <2>3. Recorded(e) /\ Marked(e)
    BY DEF EvidenceInv, Evidence
  <2> QED
    BY <2>1, <2>2, <2>3, Journals DEF Recorded, Marked, Unstarted, Row
<1>3. /\ UNCHANGED <<effect, refreshed, reached, delivered>>
      /\ failed \in BOOLEAN
  BY DEF WorkStarted, histVars, TypeOK, TaskTypeOK
<1>4. CASE StartedCommitted(e) /\ UNCHANGED failed
  <2>1. journal'[e] = <<"started">> /\ \A f \in Exec \ {e} : journal'[f] = journal[f]
    BY <1>2, <1>4, Journals DEF StartedCommitted, TypeOK, TaskTypeOK
  <2>2. CASE pc[e] = "abandoned"
    <3>1. /\ pc'[e] = "done" /\ Apart(e)
          /\ queue' = Append(Tail(queue), [exec |-> e, row |-> "blocked"])
      BY <1>3, <1>4, <2>1, <2>2, GotoApart DEF StartedCommitted, Apart
    <3>2. Recorded(e)'
      BY <1>2, <1>3, <2>1, <3>1 DEF Recorded, Guarded, Unstarted, Admitting
    <3>3. Marked(e)' /\ RowOwned(e, "blocked")'
      BY <1>2, <1>3, <2>1, <3>1, Journals DEF Marked, Guarded, RowOwned, Row
    <3> QED
      BY <1>1, <1>2, <1>4, <3>1, <3>2, <3>3, ReplaceStep DEF Row
  <2>3. CASE pc[e] # "abandoned"
    <3>1. pc'[e] = "replied" /\ Apart(e) /\ queue' = Tail(queue)
      BY <1>3, <1>4, <2>1, <2>3, GotoApart DEF StartedCommitted, Apart
    <3>2. Recorded(e)'
      BY <1>2, <1>3, <2>1, <3>1 DEF Recorded, Guarded, Unstarted, Admitting
    <3>3. Marked(e)' /\ pc'[e] \in Guarded
      BY <1>2, <1>3, <2>1, <3>1, Journals DEF Marked, Guarded, Row
    <3> QED
      BY <1>1, <1>2, <1>4, <3>1, <3>2, <3>3, TakeStep
  <2> QED
    BY <2>2, <2>3
<1>5. CASE StartedRefused(e) /\ (failed => failed')
  <2>1. pc'[e] \in {"done", "rejected"} /\ Apart(e) /\ queue' = Tail(queue)
    BY <1>3, <1>5, GotoApart DEF StartedRefused, Apart
  <2>2. journal'[e] = <<>>
    BY <1>2, <1>5 DEF StartedRefused
  <2>3. Recorded(e)'
    BY <1>2, <1>3, <2>1, <2>2 DEF Recorded, Guarded
  <2>4. Marked(e)' /\ journal'[e] # <<"started">>
    BY <1>2, <1>3, <2>1, <2>2, Journals DEF Marked, Guarded, Row
  <2> QED
    BY <1>1, <1>2, <1>5, <2>1, <2>3, <2>4, TakeStep
<1> QED
  <2>1. \/ StartedCommitted(e) /\ UNCHANGED failed
        \/ StartedRefused(e) /\ (failed => failed')
    BY <1>1 DEF WorkStarted
  <2> QED
    BY <2>1, <1>4, <1>5

\* A terminal row is committed once, behind its started row; or it is lost and
\* the failure is sticky.
LEMMA WorkTerminalEvidence ==
    ASSUME TypeOK, EvidenceInv, WorkTerminal
    PROVE  EvidenceInv'
<1>1. PICK e \in Exec : e = Head1.exec
  BY TailFacts DEF WorkTerminal
<1>2. PICK row \in TerminalRow : row = Head1.row
  BY TailFacts DEF WorkTerminal, TerminalRow
<1>3. queue # <<>> /\ RowOwned(e, row) /\ Recorded(e) /\ Marked(e)
  BY <1>1, <1>2, TailFacts DEF WorkTerminal, EvidenceInv, Evidence
<1>4. /\ pc[e] \in {"finishing", "awaiting", "closing", "done"}
      /\ journal[e] = <<"started">> /\ e \notin delivered
      /\ pc[e] = "finishing" => row = "finished"
  BY <1>3, Journals DEF RowOwned, Recorded, TerminalRow, Row
<1>5. /\ UNCHANGED <<effect, refreshed, reached, delivered>>
      /\ queue' = Tail(queue) /\ failed \in BOOLEAN
  BY DEF WorkTerminal, histVars, TypeOK, TaskTypeOK
<1>6. CASE /\ journal' = [journal EXCEPT ![e] = Append(@, row)]
           /\ pc' = [pc EXCEPT ![e] =
                       CASE @ = "finishing" -> "confirmed"
                         [] @ = "awaiting" -> "closing"
                         [] OTHER -> @]
           /\ UNCHANGED failed
  <2>1. \A f \in Exec \ {e} : pc'[f] = pc[f]
    BY <1>6 DEF TypeOK, TaskTypeOK
  <2>2. /\ pc[e] = "finishing" => pc'[e] = "confirmed"
        /\ pc[e] = "awaiting" => pc'[e] = "closing"
        /\ pc[e] \in {"closing", "done"} => pc'[e] = pc[e]
    BY <1>6 DEF TypeOK, TaskTypeOK
  <2>3. /\ journal'[e] = <<"started", row>>
        /\ \A f \in Exec \ {e} : journal'[f] = journal[f]
    BY <1>4, <1>6, Journals DEF TypeOK, TaskTypeOK, TerminalRow
  <2>4. Apart(e)
    BY <1>5, <2>1, <2>3 DEF Apart
  <2>5. /\ pc'[e] \in {"confirmed", "closing", "done"}
        /\ pc'[e] = "confirmed" => row = "finished"
    BY <1>4, <2>2
  <2>6. Recorded(e)'
    BY <1>4, <1>5, <2>3, <2>5 DEF Recorded, Guarded, Unstarted, Admitting
  <2>7. Marked(e)' /\ journal'[e] # <<"started">>
    BY <1>3, <1>5, <2>3, <2>5, Journals DEF Marked, RowOwned, Guarded, TerminalRow, Row
  <2> QED
    BY <1>1, <1>3, <1>5, <1>6, <2>4, <2>6, <2>7, TakeStep
<1>7. CASE /\ failed' = TRUE /\ UNCHANGED journal
           /\ pc' = [pc EXCEPT ![e] =
                       IF @ \in {"finishing", "awaiting"} THEN "closing" ELSE @]
  <2>1. Apart(e) /\ pc'[e] \in {"closing", "done"} /\ journal'[e] = <<"started">>
    BY <1>4, <1>5, <1>7 DEF Apart, TypeOK, TaskTypeOK
  <2>2. Recorded(e)'
    BY <1>4, <1>5, <2>1 DEF Recorded, Guarded, Unstarted, Admitting
  <2>3. Marked(e)'
    BY <1>5, <2>1, Journals DEF Marked, Guarded, Row
  <2> QED
    BY <1>1, <1>3, <1>5, <1>7, <2>1, <2>2, <2>3, TakeStep
<1> QED
  BY <1>1, <1>2, <1>6, <1>7 DEF WorkTerminal

-----------------------------------------------------------------------------
(* Control operations, sessions and the restart.                           *)

\* No control operation and no session touches executions or evidence.
LEMMA ControlEvidence ==
    ASSUME EvidenceInv,
           \/ \E s \in Session : CreateSession(s) \/ RevokeSession(s)
           \/ Unlock \/ Drain \/ Fault \/ Stop
    PROVE  EvidenceInv'
<1> DEFINE Frame == UNCHANGED <<pc, effect, refreshed, auditVars, histVars>>
<1>1. ASSUME NEW s \in Session, CreateSession(s) \/ RevokeSession(s) PROVE Frame
  BY <1>1 DEF CreateSession, RevokeSession, execVars
<1>2. ASSUME Unlock PROVE Frame
  BY <1>2 DEF Unlock, UnlockBegin, UnlockAuthority, ActivateFailed, EnterRunning,
     FinishRunning, OpenAdmission, Rollback, taskVars, execVars
<1>3. ASSUME Drain PROVE Frame
  BY <1>3 DEF Drain, DrainLocked, DrainBegin, IdleDrain, DrainRevoke, DrainWait,
     DrainIdle, DrainLock, taskVars, execVars
<1>4. ASSUME Fault PROVE Frame
  BY <1>4 DEF Fault, RequestFault, FaultRevoke, RetentionFault, taskVars, execVars
<1>5. ASSUME Stop PROVE Frame
  BY <1>5 DEF Stop, SelectStop, StopTimeout, StopAcquire, StopProof, StopBegin,
     StopRevoke, StopWait, StopJoin, StopIdle, StopLock, StopFinal, taskVars,
     execVars
<1> QED
  BY <1>1, <1>2, <1>3, <1>4, <1>5, FrameStep

\* reconcile_abandoned_executions closes every open row as indeterminate, and
\* nothing of the old process writes any more.
LEMMA RestartEvidence ==
    ASSUME TypeOK, EvidenceInv, Restart
    PROVE  EvidenceInv'
<1>1. queue' = <<>> /\ UNCHANGED <<effect, refreshed, reached, delivered>>
  BY DEF Restart, histVars
<1>2. QueueOwned' /\ QueueOnce'
  BY <1>1 DEF QueueOwned, QueueOnce
<1>3. ASSUME NEW e \in Exec PROVE Evidence(e)'
  <2>0. Recorded(e) /\ Marked(e)
    BY DEF EvidenceInv, Evidence
  <2>1. pc'[e] \in {"idle", "done"} /\ (pc'[e] = "idle" => pc[e] = "idle")
    BY DEF Restart
  <2>2. CASE journal[e] = <<"started">>
    <3>1. journal'[e] = <<"started", "indeterminate">>
      BY <2>2, Journals DEF Restart, Reconcile, Row
    <3>2. pc'[e] = "done" /\ e \notin delivered'
      BY <2>0, <2>1, <2>2, <1>1, Journals DEF Recorded, Unstarted, Row
    <3>3. Recorded(e)'
      BY <3>1, <3>2 DEF Recorded, Unstarted, Admitting, Guarded, TerminalRow, Row
    <3>4. Marked(e)' /\ Answered(e)'
      BY <3>1, <3>2, Journals DEF Marked, Answered, Guarded, Row
    <3> QED
      BY <3>3, <3>4 DEF Evidence
  <2>3. CASE journal[e] # <<"started">>
    <3>1. Len(journal[e]) # 1
      BY <2>0, <2>3, Journals DEF Recorded, TerminalRow
    <3>2. journal'[e] = journal[e]
      BY <3>1 DEF Restart, Reconcile
    <3>3. Recorded(e)'
      BY <1>1, <2>0, <2>1, <3>2 DEF Recorded, Unstarted, Admitting, Guarded
    <3>4. Marked(e)' /\ Answered(e)'
      BY <1>1, <2>0, <2>1, <2>3, <3>2 DEF Marked, Answered, Guarded
    <3> QED
      BY <3>3, <3>4 DEF Evidence
  <2> QED
    BY <2>2, <2>3
<1> QED
  BY <1>2, <1>3 DEF EvidenceInv

-----------------------------------------------------------------------------
(* The theorems.                                                           *)

\* The evidence invariant holds in every reachable state.
LEMMA EvidenceHolds == Spec => []EvidenceInv
<1>1. Init => EvidenceInv
  <2> SUFFICES ASSUME Init PROVE EvidenceInv
    OBVIOUS
  <2>1. QueueOwned /\ QueueOnce
    BY DEF Init, QueueOwned, QueueOnce
  <2>2. ASSUME NEW e \in Exec PROVE Evidence(e)
    <3>1. pc[e] = "idle" /\ journal[e] = <<>> /\ reached[e] = {} /\ delivered = {}
      BY DEF Init
    <3>2. Recorded(e)
      BY <3>1 DEF Recorded, Guarded
    <3>3. Marked(e) /\ Answered(e)
      BY <3>1, Journals DEF Marked, Answered, Guarded, Row
    <3> QED
      BY <3>2, <3>3 DEF Evidence
  <2> QED
    BY <2>1, <2>2 DEF EvidenceInv
<1>2. TypeOK /\ EvidenceInv /\ [Next]_vars => EvidenceInv'
  <2> SUFFICES ASSUME TypeOK, EvidenceInv, [Next]_vars PROVE EvidenceInv'
    OBVIOUS
  <2>1. CASE UNCHANGED vars
    BY <2>1, FrameStep DEF vars, execVars
  <2>2. CASE Next
    BY <2>2, AdmissionEvidence, RunningEvidence, UnwindEvidence,
       WorkStartedEvidence, WorkTerminalEvidence, ControlEvidence,
       RestartEvidence DEF Next, Worker
  <2> QED
    BY <2>1, <2>2
<1> QED
  BY <1>1, <1>2, TypeCorrect, PTL DEF Spec

\* For any number of executions, each one's journal is nothing, a started row
\* or a started row and one terminal row.
THEOREM EvidenceWellFormed == Spec => []JournalWellFormed
<1>1. EvidenceInv => JournalWellFormed
  BY DEF EvidenceInv, Evidence, Recorded, JournalWellFormed
<1> QED
  BY <1>1, EvidenceHolds, PTL

\* A started row without its terminal is always answered for by a guard, by a
\* queued row or by the sticky audit failure.
THEOREM EvidenceIsOwned == Spec => []TerminalOwned
<1>1. EvidenceInv => TerminalOwned
  <2> SUFFICES ASSUME EvidenceInv, NEW e \in Exec, Unterminated(e)
               PROVE  \/ pc[e] \in Guarded
                      \/ \E i \in 1..Len(queue) : queue[i].exec = e
                      \/ failed
    BY DEF TerminalOwned
  <2>1. Recorded(e) /\ Answered(e)
    BY DEF EvidenceInv, Evidence
  <2>2. journal[e] = <<"started">>
    BY <2>1, Journals DEF Recorded, Unterminated, TerminalRow
  <2> QED
    BY <2>1, <2>2 DEF Answered
<1> QED
  BY <1>1, EvidenceHolds, PTL

\* Durable terminals tell the truth about what the endpoints received.
THEOREM EvidenceIsTruthful == Spec => []TerminalTruthful
<1>1. EvidenceInv => TerminalTruthful
  <2> SUFFICES ASSUME EvidenceInv, NEW e \in Exec, Len(journal[e]) = 2
               PROVE  /\ journal[e][2] = "blocked" => reached[e] = {}
                      /\ journal[e][2] = "finished" => "target" \in reached[e]
    BY DEF TerminalTruthful
  <2>1. Recorded(e) /\ Marked(e)
    BY DEF EvidenceInv, Evidence
  <2>2. PICK row \in TerminalRow : journal[e] = <<"started", row>>
    BY <2>1, Journals DEF Recorded
  <2>3. journal[e][2] = row
    BY <2>2, Journals DEF TerminalRow
  <2> QED
    BY <2>1, <2>2, <2>3 DEF Marked
<1> QED
  BY <1>1, EvidenceHolds, PTL

\* Nothing reaches an endpoint before its started row is durable.
THEOREM EvidencePrecedesEffects == Spec => []EffectsAreStarted
<1>1. EvidenceInv => EffectsAreStarted
  BY DEF EvidenceInv, Evidence, Marked, EffectsAreStarted
<1> QED
  BY <1>1, EvidenceHolds, PTL

\* No caller is told of success before the finished row is durable.
THEOREM EvidencePrecedesResponses == Spec => []ResponsesAreEvidenced
<1>1. TypeOK /\ EvidenceInv => ResponsesAreEvidenced
  BY DEF EvidenceInv, Evidence, Recorded, ResponsesAreEvidenced, TypeOK, TaskTypeOK
<1> QED
  BY <1>1, EvidenceHolds, TypeCorrect, PTL

-----------------------------------------------------------------------------
(***************************************************************************)
(* Broker implements EffectLedger: each step of the broker is a step of    *)
(* the ledger or leaves it alone.                                          *)
(***************************************************************************)

\* The variables the ledger sees.
Seen == <<journal, reached, delivered>>

\* A step of the ledger, or none.
LedgerStep == Ledger!Next \/ UNCHANGED Seen

\* An endpoint is contacted after the started row and before any terminal one.
LEMMA ContactLedger ==
    ASSUME TypeOK, EvidenceInv, NEW e \in Exec, Contact(e)
    PROVE  LedgerStep
<1>1. journal[e] = <<"started">> /\ UNCHANGED <<journal, delivered>>
  BY DEF Contact, EvidenceInv, Evidence, Recorded, Guarded, auditVars
<1>2. Heading(e) \in Endpoint /\ Ledger!Contact(e, Heading(e))
  BY <1>1 DEF Contact, Heading, Endpoint, Ledger!Contact, Ledger!Started
<1> QED
  BY <1>2 DEF LedgerStep, Ledger!Next

\* Success is told only of an execution whose finished row is durable.
LEMMA ReturnLedger ==
    ASSUME EvidenceInv, NEW e \in Exec, Return(e)
    PROVE  LedgerStep
<1>1. UNCHANGED <<journal, reached>>
  BY DEF Return, auditVars
<1>2. CASE pc[e] = "confirmed"
  <2>1. journal[e] = <<"started", "finished">>
    BY <1>2 DEF EvidenceInv, Evidence, Recorded
  <2>2. delivered' = delivered \cup {e}
    BY <1>2 DEF Return
  <2>3. Ledger!Tell(e)
    BY <1>1, <2>1, <2>2 DEF Ledger!Tell
  <2> QED
    BY <2>3 DEF LedgerStep, Ledger!Next
<1>3. CASE pc[e] # "confirmed"
  BY <1>1, <1>3 DEF Return, LedgerStep, Seen
<1> QED
  BY <1>2, <1>3

\* A running execution contacts an endpoint, is told, or is not seen.
LEMMA RunningLedger ==
    ASSUME TypeOK, EvidenceInv, NEW e \in Exec, Running(e)
    PROVE  LedgerStep
<1>1. CASE Contact(e)
  BY <1>1, ContactLedger
<1>2. CASE RefreshSend(e) \/ HandoffSend(e)
  <2>1. UNCHANGED <<journal, histVars>>
    BY <1>2 DEF RefreshSend, HandoffSend, auditVars
  <2> QED
    BY <2>1 DEF LedgerStep, Seen, histVars
<1>3. CASE Return(e)
  BY <1>3, ReturnLedger
<1>4. CASE \/ Subscribe(e) \/ Cancel(e) \/ FailBeforeHandoff(e) \/ RefreshGate(e)
           \/ RefreshDone(e) \/ RefreshFail(e) \/ JoinCoordinator(e) \/ HandoffRevoked(e)
  <2>1. UNCHANGED <<journal, histVars>>
    BY <1>4 DEF Subscribe, Cancel, FailBeforeHandoff, RefreshGate, RefreshDone,
       RefreshFail, JoinCoordinator, HandoffRevoked, SubmitTerminal, auditVars
  <2> QED
    BY <2>1 DEF LedgerStep, Seen, histVars
<1>5. CASE \/ HandoffEnter(e) \/ Respond(e) \/ FailIndeterminate(e) \/ FailNoEffect(e)
           \/ TerminalTimeout(e)
  <2>1. UNCHANGED <<journal, histVars>>
    BY <1>5 DEF HandoffEnter, Respond, FailIndeterminate, FailNoEffect,
       TerminalTimeout, SubmitTerminal, auditVars
  <2> QED
    BY <2>1 DEF LedgerStep, Seen, histVars
<1> QED
  BY <1>1, <1>2, <1>3, <1>4, <1>5 DEF Running

\* The worker's commits are the ledger's rows: a started row opens it, a
\* terminal row closes it and says nothing false.
LEMMA WorkerLedger ==
    ASSUME TypeOK, EvidenceInv, Worker
    PROVE  LedgerStep
<1>0. UNCHANGED <<reached, delivered>> /\ journal \in [Exec -> Seq(Row)]
  BY DEF Worker, WorkStarted, WorkTerminal, histVars, TypeOK, TaskTypeOK
<1>1. CASE WorkStarted
  <2>1. PICK e \in Exec : e = Head1.exec
    BY <1>1, TailFacts DEF WorkStarted
  <2>2. CASE StartedCommitted(e)
    <3>1. journal[e] = <<>>
      <4>1. pc[e] \in {"committing", "abandoned"}
        BY <1>1, <2>1, TailFacts DEF WorkStarted, RowOwned
      <4> QED
        BY <4>1 DEF EvidenceInv, Evidence, Recorded, Unstarted
    <3>2. journal' = [journal EXCEPT ![e] = <<"started">>]
      BY <1>0, <2>2, <3>1, Journals DEF StartedCommitted
    <3>3. Ledger!Start(e)
      BY <1>0, <3>1, <3>2 DEF Ledger!Start
    <3> QED
      BY <3>3 DEF LedgerStep, Ledger!Next
  <2>3. CASE StartedRefused(e)
    BY <1>0, <2>3 DEF StartedRefused, LedgerStep, Seen
  <2> QED
    BY <1>1, <2>1, <2>2, <2>3 DEF WorkStarted
<1>2. CASE WorkTerminal
  <2>1. PICK e \in Exec : e = Head1.exec
    BY <1>2, TailFacts DEF WorkTerminal
  <2>2. PICK row \in TerminalRow : row = Head1.row
    BY <1>2, TailFacts DEF WorkTerminal, TerminalRow
  <2>3. RowOwned(e, row)
    BY <1>2, <2>1, <2>2, TailFacts DEF WorkTerminal
  <2>4. CASE journal' = [journal EXCEPT ![e] = Append(@, row)]
    <3>1. journal[e] = <<"started">> /\ row \in Row
      BY <2>2, <2>3 DEF RowOwned, TerminalRow
    <3>2. journal' = [journal EXCEPT ![e] = <<"started", row>>]
      BY <1>0, <2>4, <3>1, Journals
    <3>3. row \in {"blocked", "indeterminate", "finished"}
      BY <2>2 DEF TerminalRow, Row
    <3>4. Ledger!True(e, row)
      BY <2>3, <3>3 DEF RowOwned, Ledger!True
    <3>5. Ledger!Terminate(e, row)
      BY <1>0, <3>1, <3>2, <3>4 DEF Ledger!Terminate, Ledger!Started
    <3> QED
      BY <3>3, <3>5 DEF LedgerStep, Ledger!Next
  <2>5. CASE UNCHANGED journal
    BY <1>0, <2>5 DEF LedgerStep, Seen
  <2> QED
    BY <1>2, <2>1, <2>2, <2>4, <2>5 DEF WorkTerminal
<1> QED
  BY <1>1, <1>2 DEF Worker

\* Reconciliation at the next start is the ledger's: every open execution is
\* closed as indeterminate, no other is touched.
LEMMA RestartLedger ==
    ASSUME TypeOK, EvidenceInv, Restart
    PROVE  LedgerStep
<1>1. UNCHANGED <<reached, delivered>>
  BY DEF Restart, histVars
<1>2. ASSUME NEW e \in Exec
      PROVE  (IF Len(journal[e]) = 1 THEN Append(journal[e], "indeterminate") ELSE journal[e])
               = (IF Ledger!Started(e) THEN <<"started", "indeterminate">> ELSE journal[e])
  <2>1. Recorded(e)
    BY DEF EvidenceInv, Evidence
  <2>2. CASE journal[e] = <<"started">>
    BY <2>2, Journals DEF Ledger!Started, Row
  <2>3. CASE journal[e] # <<"started">>
    BY <2>1, <2>3, Journals DEF Recorded, TerminalRow, Ledger!Started
  <2> QED
    BY <2>2, <2>3
<1>3. journal' = [e \in Exec |-> IF Ledger!Started(e) THEN <<"started", "indeterminate">>
                                 ELSE journal[e]]
  BY <1>2 DEF Restart, Reconcile
<1>4. Ledger!Abandon
  BY <1>1, <1>3 DEF Ledger!Abandon
<1> QED
  BY <1>4 DEF LedgerStep, Ledger!Next

\* Every other step is invisible to the ledger.
LEMMA ControlLedger ==
    ASSUME \/ \E s \in Session : CreateSession(s) \/ RevokeSession(s)
           \/ \E e \in Exec : Admission(e) \/ Panic(e) \/ Abort(e)
           \/ Unlock \/ Drain \/ Fault \/ Stop
    PROVE  LedgerStep
<1> DEFINE Frame == UNCHANGED <<journal, histVars>>
<1>1. ASSUME NEW s \in Session, CreateSession(s) \/ RevokeSession(s) PROVE Frame
  BY <1>1 DEF CreateSession, RevokeSession, auditVars
<1>2. ASSUME NEW e \in Exec, Admission(e) \/ Panic(e) \/ Abort(e) PROVE Frame
  BY <1>2 DEF Admission, Acquire, AcquireConnection, WaitForCoordinator, RefuseAdmission,
     SubmitStarted, ReceiveStarted, AdmissionTimeout, Panic, Abort, auditVars
<1>3. ASSUME Unlock PROVE Frame
  BY <1>3 DEF Unlock, UnlockBegin, UnlockAuthority, ActivateFailed, EnterRunning,
     FinishRunning, OpenAdmission, Rollback, taskVars, auditVars
<1>4. ASSUME Drain PROVE Frame
  BY <1>4 DEF Drain, DrainLocked, DrainBegin, IdleDrain, DrainRevoke, DrainWait,
     DrainIdle, DrainLock, taskVars, auditVars
<1>5. ASSUME Fault PROVE Frame
  BY <1>5 DEF Fault, RequestFault, FaultRevoke, RetentionFault, taskVars, auditVars
<1>6. ASSUME Stop PROVE Frame
  BY <1>6 DEF Stop, SelectStop, StopTimeout, StopAcquire, StopProof, StopBegin,
     StopRevoke, StopWait, StopJoin, StopIdle, StopLock, StopFinal, taskVars, auditVars
<1>7. Frame
  BY <1>1, <1>2, <1>3, <1>4, <1>5, <1>6
<1> QED
  BY <1>7 DEF LedgerStep, Seen, histVars

-----------------------------------------------------------------------------

\* For any number of executions and any interleaving of admission, drain, stop,
\* fault, panic and restart, the broker implements the ledger of effects.
THEOREM BrokerImplementsLedger == Spec => ImplementsLedger
<1>1. Init => Ledger!Init
  BY DEF Init, Ledger!Init
<1>2. TypeOK /\ EvidenceInv /\ [Next]_vars => [Ledger!Next]_Ledger!ledger
  <2> SUFFICES ASSUME TypeOK, EvidenceInv, [Next]_vars PROVE [Ledger!Next]_Ledger!ledger
    OBVIOUS
  <2>1. CASE UNCHANGED vars
    BY <2>1 DEF vars, auditVars, histVars, Ledger!ledger
  <2>2. CASE Next
    <3>1. LedgerStep
      BY <2>2, RunningLedger, WorkerLedger, RestartLedger, ControlLedger DEF Next
    <3> QED
      BY <3>1 DEF LedgerStep, Seen, Ledger!ledger
  <2> QED
    BY <2>1, <2>2
<1> QED
  BY <1>1, <1>2, TypeCorrect, EvidenceHolds, PTL DEF Spec, ImplementsLedger, Ledger!Spec

-----------------------------------------------------------------------------
(* What a drain, a stop and a lost terminal promise: permits outlive what  *)
(* they stand for, a reported drain and a clean exit leave nothing to      *)
(* settle and nothing that contacts anyone, and a Connection never serves  *)
(* on top of an unrecorded effect.                                         *)

\* The permit an execution holds, given where its task is.  A session's permit
\* lives as long as the task; a Connection's is armed with the durable started
\* row and travels with the terminal.
PermitRight(e) ==
    /\ ~IsConnection(e) => (permit[e] = "none" <=> pc[e] \in AtRest)
    /\ IsConnection(e) /\ pc[e] \in Guarded => permit[e] = "armed"
    /\ IsConnection(e) /\ pc[e] \in {"committing", "abandoned"}
         => permit[e] = "held"

\* A queued terminal of a Connection carries its armed permit.
QueueArmed ==
    \A i \in 1..Len(queue) :
        IsConnection(queue[i].exec) /\ queue[i].row # "started"
            => permit[queue[i].exec] = "armed"

\* The permits of all executions, and of the rows in the queue.
PermitInv ==
    /\ \A e \in Exec : PermitRight(e)
    /\ QueueArmed

\* No task runs, and no started row is open.
AllAtRest == \A e \in Exec : pc[e] \in AtRest
NoneOpen == \A e \in Exec : journal[e] # <<"started">>

\* Nobody holds a permit, no row is pending and every started row is closed.
Settled == InFlight = {} /\ queue = <<>> /\ NoneOpen

\* No task runs, no row is pending or lost, every started row is closed.
Ended == AllAtRest /\ queue = <<>> /\ ~failed /\ NoneOpen

\* The stages of an unlock and of a drain.
UnlockStage == {"unlock", "activate", "entering", "opening", "rollback"}
DrainStage == {"drain-revoke", "drain-wait", "drain-cancelled", "drain-idle",
               "drain-lock"}

\* What the drain has established when it reaches each of its stages, and what
\* it leaves until the next unlock.
DrainInv ==
    /\ stage \in DrainStage => phase = "Draining"
    /\ stage \in {"drain-idle", "drain-lock"} => InFlight = {}
    /\ drainOk => stage = "drain-lock" /\ Settled
    /\ drained => stage \notin UnlockStage /\ phase # "Running" /\ Settled

\* What an error-free stop has established when it reaches each of its stages,
\* and what a clean exit leaves.
StopInv ==
    /\ stage \in StopStage \ {"stop-proof", "stop-begin"} => phase # "Running"
    /\ stage \in {"stop-idle", "stop-lock", "stop-final"} /\ ~stopError
         => AllAtRest
    /\ stage \in {"stop-lock", "stop-final"} /\ ~stopError => Ended
    /\ exit = "clean" => /\ stage = "none" /\ Ended /\ authority = "down"
                         /\ phase = "ShuttingDown" /\ gate # "OPEN"

-----------------------------------------------------------------------------
(* Frames.                                                                 *)

\* What the control operations and the sessions leave alone.
settleVars == <<pc, permit, auditVars, reached, boots>>

\* No control operation and no session touches a task, a permit or a row.
LEMMA ControlFrame ==
    ASSUME \/ \E s \in Session : CreateSession(s) \/ RevokeSession(s)
           \/ Unlock \/ Drain \/ Fault \/ Stop
    PROVE  UNCHANGED settleVars
<1>1. ASSUME NEW s \in Session, CreateSession(s) \/ RevokeSession(s)
      PROVE  UNCHANGED settleVars
  BY <1>1 DEF CreateSession, RevokeSession, execVars, histVars, settleVars
<1>2. ASSUME Unlock PROVE UNCHANGED settleVars
  BY <1>2 DEF Unlock, UnlockBegin, UnlockAuthority, ActivateFailed, EnterRunning,
     FinishRunning, OpenAdmission, Rollback, taskVars, execVars, histVars,
     settleVars
<1>3. ASSUME Drain PROVE UNCHANGED settleVars
  BY <1>3 DEF Drain, DrainLocked, DrainBegin, IdleDrain, DrainRevoke, DrainWait,
     DrainIdle, DrainLock, taskVars, execVars, histVars, settleVars
<1>4. ASSUME Fault PROVE UNCHANGED settleVars
  BY <1>4 DEF Fault, RequestFault, FaultRevoke, RetentionFault, taskVars,
     execVars, histVars, settleVars
<1>5. ASSUME Stop PROVE UNCHANGED settleVars
  BY <1>5 DEF Stop, SelectStop, StopTimeout, StopAcquire, StopProof, StopBegin,
     StopRevoke, StopWait, StopJoin, StopIdle, StopLock, StopFinal, taskVars,
     execVars, histVars, settleVars
<1> QED
  BY <1>1, <1>2, <1>3, <1>4, <1>5

\* What a control operation may write and a task's or the worker's step never
\* does.
controlVars == <<phase, ctlVars, stopVars, boots>>

\* The tasks and the worker leave the control operations alone.
LEMMA TaskFrame ==
    ASSUME \/ \E e \in Exec : Admission(e) \/ Running(e) \/ Panic(e) \/ Abort(e)
           \/ Worker
    PROVE  UNCHANGED controlVars
<1>1. ASSUME NEW e \in Exec, Admission(e) PROVE UNCHANGED controlVars
  BY <1>1 DEF Admission, Acquire, AcquireConnection, WaitForCoordinator,
     RefuseAdmission, SubmitStarted, ReceiveStarted, AdmissionTimeout, lifeVars,
     controlVars
<1>2. ASSUME NEW e \in Exec, Running(e) PROVE UNCHANGED controlVars
  BY <1>2 DEF Running, Subscribe, Cancel, FailBeforeHandoff, RefreshGate,
     RefreshSend, RefreshDone, RefreshFail, JoinCoordinator, HandoffRevoked,
     HandoffEnter, HandoffSend, Contact, Respond, FailIndeterminate, FailNoEffect,
     TerminalTimeout, Return, SubmitTerminal, lifeVars, controlVars
<1>3. ASSUME NEW e \in Exec, Panic(e) \/ Abort(e) PROVE UNCHANGED controlVars
  BY <1>3 DEF Panic, Abort, controlVars
<1>4. ASSUME Worker PROVE UNCHANGED controlVars
  BY <1>4 DEF Worker, WorkStarted, WorkTerminal, lifeVars, controlVars
<1> QED
  BY <1>1, <1>2, <1>3, <1>4

-----------------------------------------------------------------------------
(* Permits.                                                                *)

\* A step of e that leaves the permits and the rows of the others alone.
LEMMA PermitStep ==
    ASSUME PermitInv, NEW e \in Exec,
           \A f \in Exec \ {e} : pc'[f] = pc[f] /\ permit'[f] = permit[f],
           PermitRight(e)',
           \A i \in 1..Len(queue') :
               \/ /\ queue'[i].exec = e
                  /\ IsConnection(e) /\ queue'[i].row # "started"
                       => permit'[e] = "armed"
               \/ /\ queue'[i].exec \in Exec \ {e}
                  /\ \E j \in 1..Len(queue) : queue'[i] = queue[j]
    PROVE  PermitInv'
<1>1. ASSUME NEW f \in Exec PROVE PermitRight(f)'
  BY DEF PermitInv, PermitRight, IsConnection
<1>2. QueueArmed'
  <2> SUFFICES ASSUME NEW i \in 1..Len(queue'),
                      IsConnection(queue'[i].exec), queue'[i].row # "started"
               PROVE  permit'[queue'[i].exec] = "armed"
    BY DEF QueueArmed, IsConnection
  <2>1. CASE queue'[i].exec = e
    BY <2>1
  <2>2. CASE queue'[i].exec # e
    <3>1. queue'[i].exec \in Exec \ {e}
      BY <2>2
    <3>2. PICK j \in 1..Len(queue) : queue'[i] = queue[j]
      BY <2>2
    <3>3. permit[queue'[i].exec] = "armed"
      BY <3>2 DEF PermitInv, QueueArmed
    <3> QED
      BY <3>1, <3>3
  <2> QED
    BY <2>1, <2>2
<1> QED
  BY <1>1, <1>2 DEF PermitInv

\* A step of e that queues nothing.
LEMMA PermitKeeps ==
    ASSUME TypeOK, PermitInv, NEW e \in Exec, UNCHANGED queue,
           \A f \in Exec \ {e} : pc'[f] = pc[f] /\ permit'[f] = permit[f],
           PermitRight(e)',
           \/ ~IsConnection(e) \/ permit'[e] = permit[e]
           \/ \A i \in 1..Len(queue) : queue[i].exec # e
    PROVE  PermitInv'
<1>1. ASSUME NEW i \in 1..Len(queue)
      PROVE  \/ /\ queue'[i].exec = e
                /\ IsConnection(e) /\ queue'[i].row # "started"
                     => permit'[e] = "armed"
             \/ /\ queue'[i].exec \in Exec \ {e}
                /\ \E j \in 1..Len(queue) : queue'[i] = queue[j]
  <2>0. queue \in Seq(Submission) /\ queue[i] \in Submission
    BY DEF TypeOK, TaskTypeOK
  <2>1. queue[i].exec \in Exec
    BY <2>0 DEF Submission
  <2>2. CASE queue[i].exec = e
    BY <2>2 DEF PermitInv, QueueArmed
  <2>3. CASE queue[i].exec # e
    BY <2>1, <2>3
  <2> QED
    BY <2>2, <2>3
<1> QED
  BY <1>1, PermitStep

\* A step of e that queues a row: a started row, or a terminal that carries
\* the armed permit.
LEMMA PermitQueues ==
    ASSUME TypeOK, PermitInv, NEW e \in Exec, NEW row \in Row, Enqueue(e, row),
           \A f \in Exec \ {e} : pc'[f] = pc[f] /\ permit'[f] = permit[f],
           PermitRight(e)', \A i \in 1..Len(queue) : queue[i].exec # e,
           IsConnection(e) /\ row # "started" => permit'[e] = "armed"
    PROVE  PermitInv'
<1> DEFINE x == [exec |-> e, row |-> row]
<1>0. x \in Submission /\ x.exec = e /\ x.row = row
  BY DEF Submission
<1>q. /\ queue \in Seq(Submission) /\ Len(queue) \in Nat
      /\ Len(queue') = Len(queue) + 1
      /\ \A i \in 1..Len(queue) : queue'[i] = queue[i]
      /\ queue'[Len(queue) + 1] = x
  BY <1>0, AppendEntries DEF Enqueue, TypeOK, TaskTypeOK
<1> HIDE DEF x
<1>1. ASSUME NEW i \in 1..Len(queue')
      PROVE  \/ /\ queue'[i].exec = e
                /\ IsConnection(e) /\ queue'[i].row # "started"
                     => permit'[e] = "armed"
             \/ /\ queue'[i].exec \in Exec \ {e}
                /\ \E j \in 1..Len(queue) : queue'[i] = queue[j]
  <2>1. CASE i = Len(queue) + 1
    BY <2>1, <1>0, <1>q
  <2>2. CASE i \in 1..Len(queue)
    <3>1. queue[i] \in Submission /\ queue'[i] = queue[i]
      BY <2>2, <1>q
    <3> QED
      BY <2>2, <3>1 DEF Submission
  <2> QED
    BY <2>1, <2>2, <1>q
<1> QED
  BY <1>1, PermitStep

\* Where a task's permit is what its program counter says.
LEMMA RightAt ==
    ASSUME TypeOK, PermitInv, NEW e \in Exec
    PROVE  /\ PermitRight(e)
           /\ pc[e] \in Guarded => permit[e] # "none"
           /\ IsConnection(e) /\ pc[e] \in Guarded => permit[e] = "armed"
BY DEF PermitInv, PermitRight, Guarded, AtRest

\* Admission reserves the permit, and drops it with the task.
LEMMA AdmissionPermit ==
    ASSUME TypeOK, EvidenceInv, PermitInv, NEW e \in Exec, Admission(e)
    PROVE  PermitInv'
<1>r. PermitRight(e) /\ permit \in [Exec -> PermitState]
  BY RightAt DEF TypeOK, TaskTypeOK
<1>1. CASE Acquire(e)
  <2>1. /\ pc'[e] = "acquired" /\ permit'[e] = "held" /\ UNCHANGED queue
        /\ \A f \in Exec \ {e} : pc'[f] = pc[f] /\ permit'[f] = permit[f]
    BY <1>1, <1>r, GotoApart DEF Acquire, auditVars
  <2>2. ~IsConnection(e)
    BY <1>1 DEF Acquire
  <2>3. PermitRight(e)'
    BY <2>1, <2>2 DEF PermitRight, AtRest, IsConnection
  <2> QED
    BY <2>1, <2>2, <2>3, PermitKeeps
<1>2. CASE AcquireConnection(e) \/ WaitForCoordinator(e)
  <2>1. /\ pc'[e] = "waiting" /\ UNCHANGED <<permit, queue>>
        /\ \A f \in Exec \ {e} : pc'[f] = pc[f] /\ permit'[f] = permit[f]
    BY <1>2, GotoApart DEF AcquireConnection, WaitForCoordinator, auditVars
  <2>2. IsConnection(e) \/ pc[e] = "acquired"
    BY <1>2 DEF AcquireConnection, WaitForCoordinator
  <2>3. PermitRight(e)'
    BY <1>r, <2>1, <2>2 DEF PermitRight, AtRest, Guarded, IsConnection
  <2> QED
    BY <2>1, <2>3, PermitKeeps
<1>3. CASE RefuseAdmission(e)
  <2>1. /\ pc'[e] = "done" /\ UNCHANGED queue
        /\ IsConnection(e) => permit'[e] = permit[e]
        /\ ~IsConnection(e) => permit'[e] = "none"
        /\ \A f \in Exec \ {e} : pc'[f] = pc[f] /\ permit'[f] = permit[f]
    BY <1>3, <1>r, GotoApart DEF RefuseAdmission, DropExecutionPermit, auditVars
  <2>2. PermitRight(e)'
    BY <2>1 DEF PermitRight, AtRest, Guarded, IsConnection
  <2> QED
    BY <2>1, <2>2, PermitKeeps
<1>4. CASE SubmitStarted(e)
  <2>1. /\ pc'[e] = "committing" /\ permit'[e] = "held"
        /\ Enqueue(e, "started") /\ pc[e] \in Admitting
        /\ \A f \in Exec \ {e} : pc'[f] = pc[f] /\ permit'[f] = permit[f]
    BY <1>4, <1>r, GotoApart DEF SubmitStarted
  <2>2. PermitRight(e)'
    BY <2>1 DEF PermitRight, AtRest, Guarded, IsConnection
  <2>3. \A i \in 1..Len(queue) : queue[i].exec # e
    BY <2>1, NoEntry DEF EvidenceInv, Admitting
  <2> QED
    BY <2>1, <2>2, <2>3, PermitQueues DEF Row
<1>5. CASE ReceiveStarted(e) /\ pc[e] = "replied"
  <2>1. /\ pc'[e] = "admitted" /\ UNCHANGED <<permit, queue>>
        /\ \A f \in Exec \ {e} : pc'[f] = pc[f] /\ permit'[f] = permit[f]
    BY <1>5, GotoApart DEF ReceiveStarted, auditVars
  <2>2. PermitRight(e)'
    BY <1>5, <1>r, <2>1 DEF PermitRight, AtRest, Guarded, IsConnection
  <2> QED
    BY <2>1, <2>2, PermitKeeps
<1>6. CASE ReceiveStarted(e) /\ pc[e] = "rejected"
  <2>1. /\ pc'[e] = "done" /\ UNCHANGED queue
        /\ IsConnection(e) => permit'[e] = permit[e]
        /\ ~IsConnection(e) => permit'[e] = "none"
        /\ \A f \in Exec \ {e} : pc'[f] = pc[f] /\ permit'[f] = permit[f]
    BY <1>6, <1>r, GotoApart DEF ReceiveStarted, DropExecutionPermit, auditVars
  <2>2. PermitRight(e)'
    BY <2>1 DEF PermitRight, AtRest, Guarded, IsConnection
  <2> QED
    BY <2>1, <2>2, PermitKeeps
<1>7. CASE AdmissionTimeout(e)
  <2>1. ~IsConnection(e) /\ pc[e] \in {"committing", "replied"}
    BY <1>7 DEF AdmissionTimeout
  <2>2. /\ permit'[e] = "none" /\ pc'[e] \in {"abandoned", "done"}
        /\ \A f \in Exec \ {e} : pc'[f] = pc[f] /\ permit'[f] = permit[f]
    BY <1>7, <1>r, <2>1, GotoApart DEF AdmissionTimeout, DropExecutionPermit
  <2>3. PermitRight(e)'
    BY <2>1, <2>2 DEF PermitRight, AtRest, IsConnection
  <2>4. CASE UNCHANGED queue
    BY <2>1, <2>2, <2>3, <2>4, PermitKeeps
  <2>5. CASE pc[e] = "replied" /\ Enqueue(e, Fallback(e))
    <3>1. \A i \in 1..Len(queue) : queue[i].exec # e
      BY <2>5, NoEntry DEF EvidenceInv
    <3> QED
      BY <2>1, <2>2, <2>3, <2>5, <3>1, FallbackType, PermitQueues
  <2> QED
    BY <1>7, <2>4, <2>5 DEF AdmissionTimeout
<1> QED
  BY <1>1, <1>2, <1>3, <1>4, <1>5, <1>6, <1>7 DEF Admission, ReceiveStarted

\* A running execution keeps its permit, and hands it to the terminal.
LEMMA RunningPermit ==
    ASSUME TypeOK, EvidenceInv, PermitInv, NEW e \in Exec, Running(e)
    PROVE  PermitInv'
<1>r. PermitRight(e) /\ permit \in [Exec -> PermitState]
  BY RightAt DEF TypeOK, TaskTypeOK
<1>1. CASE Return(e)
  <2>1. /\ pc'[e] = "done" /\ UNCHANGED queue
        /\ IsConnection(e) => permit'[e] = permit[e]
        /\ ~IsConnection(e) => permit'[e] = "none"
        /\ \A f \in Exec \ {e} : pc'[f] = pc[f] /\ permit'[f] = permit[f]
    BY <1>1, <1>r, GotoApart DEF Return, DropExecutionPermit, auditVars
  <2>2. PermitRight(e)'
    BY <2>1 DEF PermitRight, AtRest, Guarded, IsConnection
  <2> QED
    BY <2>1, <2>2, PermitKeeps
<1>2. ASSUME NEW next \in Guarded \cup Submitted, Goto(e, next),
             UNCHANGED permit, pc[e] \in Guarded \cup Submitted,
             next \in Guarded => pc[e] \in Guarded,
             \/ UNCHANGED queue
             \/ pc[e] \in Guarded /\ \E row \in Row : Enqueue(e, row)
      PROVE  PermitInv'
  <2>1. /\ pc'[e] = next
        /\ \A f \in Exec \ {e} : pc'[f] = pc[f] /\ permit'[f] = permit[f]
    BY <1>2, GotoApart
  <2>2. PermitRight(e)'
    BY <1>2, <1>r, <2>1 DEF PermitRight, AtRest, Guarded, Submitted, IsConnection
  <2>3. CASE UNCHANGED queue
    BY <1>2, <2>1, <2>2, <2>3, PermitKeeps
  <2>4. CASE pc[e] \in Guarded /\ \E row \in Row : Enqueue(e, row)
    <3>1. \A i \in 1..Len(queue) : queue[i].exec # e
      BY <2>4, NoEntry DEF EvidenceInv, Guarded
    <3>2. IsConnection(e) => permit'[e] = "armed"
      BY <1>2, <2>4, RightAt
    <3> QED
      BY <2>1, <2>2, <2>4, <3>1, <3>2, PermitQueues
  <2> QED
    BY <1>2, <2>3, <2>4
<1>3. CASE ~Return(e)
  <2>1. UNCHANGED permit
    BY <1>3 DEF Running, Subscribe, Cancel, FailBeforeHandoff, RefreshGate,
       RefreshSend, RefreshDone, RefreshFail, JoinCoordinator, HandoffRevoked,
       HandoffEnter, HandoffSend, Contact, Respond, FailIndeterminate, FailNoEffect,
       TerminalTimeout, SubmitTerminal, execVars
  <2>2. \/ UNCHANGED queue
        \/ pc[e] \in Guarded /\ \E row \in Row : Enqueue(e, row)
    BY <1>3, FallbackType DEF Running, Subscribe, Cancel, FailBeforeHandoff,
       RefreshGate, RefreshSend, RefreshDone, RefreshFail, JoinCoordinator,
       HandoffRevoked, HandoffEnter, HandoffSend, Contact, Respond, FailIndeterminate,
       FailNoEffect, TerminalTimeout, SubmitTerminal, WantsHandoff,
       ReadyForTarget, Guarded, Row, auditVars
  <2>3. \E next \in Guarded \cup Submitted :
          /\ Goto(e, next) /\ pc[e] \in Guarded \cup Submitted
          /\ next \in Guarded => pc[e] \in Guarded
    BY <1>3, ContactStays DEF Running, Subscribe, Cancel, FailBeforeHandoff,
       RefreshGate, RefreshSend, RefreshDone, RefreshFail, JoinCoordinator,
       HandoffRevoked, HandoffEnter, HandoffSend, Respond, FailIndeterminate,
       FailNoEffect, TerminalTimeout, SubmitTerminal, WantsHandoff, ReadyForTarget,
       Guarded, Submitted
  <2> QED
    BY <2>1, <2>2, <2>3, <1>2
<1> QED
  BY <1>1, <1>3

\* A task that unwinds drops its session's permit, leaves a Connection's with
\* the row it queues or the worker has, and drops one that was not committed.
LEMMA UnwindPermit ==
    ASSUME TypeOK, EvidenceInv, PermitInv, NEW e \in Exec, Panic(e) \/ Abort(e)
    PROVE  PermitInv'
<1>r. PermitRight(e) /\ permit \in [Exec -> PermitState]
  BY RightAt DEF TypeOK, TaskTypeOK
<1>1. DropTask(e) /\ pc[e] \notin AtRest
  BY DEF Panic, Abort, AtRest
<1>2. /\ pc'[e] = IF pc[e] = "committing" THEN "abandoned" ELSE "done"
      /\ \A f \in Exec \ {e} : pc'[f] = pc[f] /\ permit'[f] = permit[f]
  BY <1>1, <1>r, GotoApart DEF DropTask
<1>3. permit'[e] = IF pc[e] \in Admitting \cup {"rejected"} \/ ~IsConnection(e)
                   THEN "none" ELSE permit[e]
  BY <1>1, <1>r DEF DropTask
<1>4. PermitRight(e)'
  BY <1>r, <1>2, <1>3 DEF PermitRight, AtRest, Guarded, Admitting, IsConnection
<1>5. CASE pc[e] \in Guarded
  <2>1. Enqueue(e, Fallback(e))
    BY <1>1, <1>5 DEF DropTask
  <2>2. \A i \in 1..Len(queue) : queue[i].exec # e
    BY <1>5, NoEntry DEF EvidenceInv, Guarded
  <2>3. IsConnection(e) => permit'[e] = "armed"
    BY <1>3, <1>5, RightAt DEF Guarded, Admitting
  <2> QED
    BY <1>2, <1>4, <2>1, <2>2, <2>3, FallbackType, PermitQueues
<1>6. CASE pc[e] \notin Guarded
  <2>1. UNCHANGED queue
    BY <1>1, <1>6 DEF DropTask
  <2>2. CASE pc[e] \in Admitting \cup {"rejected"}
    <3>1. \A i \in 1..Len(queue) : queue[i].exec # e
      BY <2>2, NoEntry DEF EvidenceInv, Admitting
    <3> QED
      BY <1>2, <1>4, <2>1, <3>1, PermitKeeps
  <2>3. CASE pc[e] \notin Admitting \cup {"rejected"}
    BY <1>2, <1>3, <1>4, <2>1, <2>3, PermitKeeps
  <2> QED
    BY <2>2, <2>3
<1> QED
  BY <1>5, <1>6

\* The worker's step: the head is taken, and its execution's rows are the ones
\* the step adds.
LEMMA PermitTakes ==
    ASSUME TypeOK, EvidenceInv, PermitInv, queue # <<>>,
           NEW e \in Exec, e = Head1.exec, queue' = Tail(queue),
           \A f \in Exec \ {e} : pc'[f] = pc[f] /\ permit'[f] = permit[f],
           PermitRight(e)'
    PROVE  PermitInv'
<1>0. /\ queue \in Seq(Submission) /\ Len(queue) \in Nat
      /\ Len(Tail(queue)) = Len(queue) - 1
      /\ \A i \in 1..Len(Tail(queue)) : Tail(queue)[i] = queue[i + 1]
  BY TailEntries DEF TypeOK, TaskTypeOK
<1>1. \A i \in 1..Len(Tail(queue)) : /\ Tail(queue)[i] \in Submission
                                     /\ Tail(queue)[i].exec # e
  BY TailFacts
<1>2. ASSUME NEW i \in 1..Len(queue')
      PROVE  /\ queue'[i].exec \in Exec \ {e}
             /\ \E j \in 1..Len(queue) : queue'[i] = queue[j]
  <2>1. i + 1 \in 1..Len(queue) /\ queue'[i] = queue[i + 1]
    BY <1>0
  <2>2. queue'[i].exec \in Exec \ {e}
    BY <1>1 DEF Submission
  <2> QED
    BY <2>1, <2>2
<1> QED
  BY <1>2, PermitStep

\* The started row arms a Connection's permit, its refusal returns it.
LEMMA WorkStartedPermit ==
    ASSUME TypeOK, EvidenceInv, PermitInv, WorkStarted
    PROVE  PermitInv'
<1>1. PICK e \in Exec : e = Head1.exec
  BY TailFacts DEF WorkStarted
<1>2. queue # <<>> /\ pc[e] \in {"committing", "abandoned"}
  BY <1>1, TailFacts DEF WorkStarted, RowOwned
<1>r. PermitRight(e) /\ permit \in [Exec -> PermitState]
  BY RightAt DEF TypeOK, TaskTypeOK
<1>3. CASE StartedCommitted(e)
  <2>1. /\ IsConnection(e) => permit'[e] = "armed"
        /\ ~IsConnection(e) => permit'[e] = permit[e]
        /\ \A f \in Exec \ {e} : permit'[f] = permit[f]
    BY <1>3, <1>r DEF StartedCommitted
  <2>2. CASE pc[e] # "abandoned"
    <3>1. /\ pc'[e] = "replied" /\ queue' = Tail(queue)
          /\ \A f \in Exec \ {e} : pc'[f] = pc[f]
      BY <1>3, <2>2, GotoApart DEF StartedCommitted
    <3>2. PermitRight(e)'
      BY <1>2, <1>r, <2>1, <2>2, <3>1 DEF PermitRight, AtRest, Guarded, IsConnection
    <3> QED
      BY <1>1, <1>2, <2>1, <3>1, <3>2, PermitTakes
  <2>3. CASE pc[e] = "abandoned"
    <3> DEFINE q == Tail(queue)
               x == [exec |-> e, row |-> "blocked"]
    <3>1. /\ pc'[e] = "done" /\ queue' = Append(q, x)
          /\ \A f \in Exec \ {e} : pc'[f] = pc[f]
      BY <1>3, <2>3, GotoApart DEF StartedCommitted
    <3>2. PermitRight(e)'
      BY <1>r, <2>1, <2>3, <3>1 DEF PermitRight, AtRest, Guarded, IsConnection
    <3>3. x \in Submission /\ x.exec = e
      BY DEF Submission, Row
    <3>4. /\ q \in Seq(Submission) /\ Len(queue) \in Nat /\ Len(q) = Len(queue) - 1
          /\ \A i \in 1..Len(q) : q[i] = queue[i + 1]
      BY <1>2, TailEntries DEF TypeOK, TaskTypeOK
    <3>5. \A i \in 1..Len(q) : q[i] \in Submission /\ q[i].exec # e
      BY <1>1, <1>2, TailFacts
    <3> HIDE DEF q, x
    <3>6. /\ Len(queue') = Len(q) + 1 /\ queue'[Len(q) + 1] = x
          /\ \A i \in 1..Len(q) : queue'[i] = q[i]
      BY <3>1, <3>3, <3>4, AppendEntries
    <3>7. ASSUME NEW i \in 1..Len(queue')
          PROVE  \/ /\ queue'[i].exec = e
                    /\ IsConnection(e) /\ queue'[i].row # "started"
                         => permit'[e] = "armed"
                 \/ /\ queue'[i].exec \in Exec \ {e}
                    /\ \E j \in 1..Len(queue) : queue'[i] = queue[j]
      <4>1. CASE i = Len(q) + 1
        BY <4>1, <2>1, <3>3, <3>6
      <4>2. CASE i \in 1..Len(q)
        <5>1. i + 1 \in 1..Len(queue) /\ queue'[i] = queue[i + 1]
          BY <4>2, <3>4, <3>6
        <5>2. queue'[i].exec \in Exec \ {e}
          BY <4>2, <3>5, <3>6 DEF Submission
        <5> QED
          BY <5>1, <5>2
      <4> QED
        BY <4>1, <4>2, <3>4, <3>6
    <3> QED
      BY <2>1, <3>1, <3>2, <3>7, PermitStep
  <2> QED
    BY <2>2, <2>3
<1>4. CASE StartedRefused(e)
  <2>1. /\ IsConnection(e) => permit'[e] = "none"
        /\ ~IsConnection(e) => permit'[e] = permit[e]
        /\ \A f \in Exec \ {e} : permit'[f] = permit[f]
    BY <1>4, <1>r DEF StartedRefused
  <2>2. /\ pc'[e] = IF pc[e] = "abandoned" THEN "done" ELSE "rejected"
        /\ queue' = Tail(queue)
        /\ \A f \in Exec \ {e} : pc'[f] = pc[f]
    BY <1>4, GotoApart DEF StartedRefused
  <2>3. PermitRight(e)'
    BY <1>2, <1>r, <2>1, <2>2 DEF PermitRight, AtRest, Guarded, IsConnection
  <2> QED
    BY <1>1, <1>2, <2>1, <2>2, <2>3, PermitTakes
<1> QED
  BY <1>1, <1>3, <1>4 DEF WorkStarted

\* Where the worker's terminal, durable or lost, leaves its execution.
LEMMA WorkTerminalFacts ==
    ASSUME TypeOK, EvidenceInv, WorkTerminal, NEW e \in Exec, e = Head1.exec
    PROVE  /\ queue # <<>> /\ queue' = Tail(queue)
           /\ pc[e] \in {"finishing", "awaiting", "closing", "done"}
           /\ pc'[e] = "done" <=> pc[e] = "done"
           /\ pc'[e] \in {"confirmed", "closing", "done"}
           /\ permit'[e] = IF IsConnection(e) THEN "none" ELSE permit[e]
           /\ \A f \in Exec \ {e} : pc'[f] = pc[f] /\ permit'[f] = permit[f]
<1>1. queue # <<>> /\ queue' = Tail(queue)
  BY DEF WorkTerminal
<1>2. pc[e] \in {"finishing", "awaiting", "closing", "done"}
  BY TailFacts DEF WorkTerminal, RowOwned
<1>3. /\ permit'[e] = IF IsConnection(e) THEN "none" ELSE permit[e]
      /\ \A f \in Exec \ {e} : permit'[f] = permit[f]
  BY DEF WorkTerminal, TypeOK, TaskTypeOK
<1>4. pc \in [Exec -> ExecPc]
  BY DEF TypeOK, TaskTypeOK
<1>5. CASE pc' = [pc EXCEPT ![e] = CASE @ = "finishing" -> "confirmed"
                                     [] @ = "awaiting" -> "closing"
                                     [] OTHER -> @]
  <2>1. \A f \in Exec \ {e} : pc'[f] = pc[f]
    BY <1>4, <1>5
  <2>2. /\ pc[e] = "finishing" => pc'[e] = "confirmed"
        /\ pc[e] = "awaiting" => pc'[e] = "closing"
        /\ pc[e] \in {"closing", "done"} => pc'[e] = pc[e]
    BY <1>4, <1>5
  <2> QED
    BY <1>1, <1>2, <1>3, <2>1, <2>2
<1>6. CASE pc' = [pc EXCEPT ![e] = IF @ \in {"finishing", "awaiting"}
                                   THEN "closing" ELSE @]
  BY <1>1, <1>2, <1>3, <1>4, <1>6
<1> QED
  BY <1>5, <1>6 DEF WorkTerminal

\* The terminal returns a Connection's permit.
LEMMA WorkTerminalPermit ==
    ASSUME TypeOK, EvidenceInv, PermitInv, WorkTerminal
    PROVE  PermitInv'
<1>1. PICK e \in Exec : e = Head1.exec
  BY TailFacts DEF WorkTerminal
<1>2. PermitRight(e)
  BY RightAt
<1>3. PermitRight(e)'
  BY <1>1, <1>2, WorkTerminalFacts DEF PermitRight, AtRest, Guarded, IsConnection
<1> QED
  BY <1>1, <1>3, WorkTerminalFacts, PermitTakes

\* The permits agree with the tasks and the queue in every reachable state.
LEMMA PermitHolds == Spec => []PermitInv
<1>1. Init => PermitInv
  BY DEF Init, PermitInv, PermitRight, QueueArmed, AtRest, Guarded
<1>2. TypeOK /\ EvidenceInv /\ PermitInv /\ [Next]_vars => PermitInv'
  <2> SUFFICES ASSUME TypeOK, EvidenceInv, PermitInv, [Next]_vars
               PROVE  PermitInv'
    OBVIOUS
  <2>1. CASE UNCHANGED <<pc, permit, queue>>
    BY <2>1 DEF PermitInv, PermitRight, QueueArmed, IsConnection
  <2>2. CASE UNCHANGED vars
    BY <2>1, <2>2 DEF vars, execVars, auditVars
  <2>3. CASE \/ \E s \in Session : CreateSession(s) \/ RevokeSession(s)
             \/ Unlock \/ Drain \/ Fault \/ Stop
    BY <2>1, <2>3, ControlFrame DEF settleVars, auditVars
  <2>4. CASE Restart
    BY <2>4 DEF Restart, PermitInv, PermitRight, QueueArmed, AtRest, Guarded
  <2> QED
    BY <2>2, <2>3, <2>4, AdmissionPermit, RunningPermit, UnwindPermit,
       WorkStartedPermit, WorkTerminalPermit DEF Next, Worker
<1> QED
  BY <1>1, <1>2, TypeCorrect, EvidenceHolds, PTL DEF Spec

-----------------------------------------------------------------------------
(* A lost terminal.                                                        *)

\* A step that opens no row and returns no permit of an open row, and does not
\* restart the process.
LEMMA LostFrame ==
    ASSUME TypeOK, LostTerminalClosesGate, Next, UNCHANGED boots,
           \A e \in Exec : IsConnection(e) /\ Unterminated(e)' /\ permit'[e] = "none"
               => \/ Unterminated(e) /\ permit[e] = "none"
                  \/ gate' = "STOP_PENDING"
    PROVE  LostTerminalClosesGate'
<1>1. gate = "STOP_PENDING" => gate' = "STOP_PENDING"
  BY StopPendingStep
<1> QED
  BY <1>1 DEF LostTerminalClosesGate, IsConnection

\* A started row without its terminal, told by its journal.
LEMMA OpenRow ==
    ASSUME EvidenceInv, NEW e \in Exec
    PROVE  Unterminated(e) <=> journal[e] = <<"started">>
<1>1. Recorded(e)
  BY DEF EvidenceInv, Evidence
<1> QED
  BY <1>1, Journals DEF Recorded, Unterminated, TerminalRow

\* A task returns a Connection's permit only before its started row is queued.
LEMMA TaskLost ==
    ASSUME TypeOK, EvidenceInv, LostTerminalClosesGate, Next, NEW e \in Exec,
           Admission(e) \/ Running(e) \/ Panic(e) \/ Abort(e)
    PROVE  LostTerminalClosesGate'
<1>1. UNCHANGED <<journal, boots>>
  <2>1. CASE Admission(e)
    BY <2>1 DEF Admission, Acquire, AcquireConnection, WaitForCoordinator,
       RefuseAdmission, SubmitStarted, ReceiveStarted, AdmissionTimeout, auditVars
  <2>2. CASE Running(e)
    BY <2>2 DEF Running, Subscribe, Cancel, FailBeforeHandoff, RefreshGate,
       RefreshSend, RefreshDone, RefreshFail, JoinCoordinator, HandoffRevoked,
       HandoffEnter, HandoffSend, Contact, Respond, FailIndeterminate, FailNoEffect,
       TerminalTimeout, Return, SubmitTerminal, auditVars
  <2>3. CASE Panic(e) \/ Abort(e)
    BY <2>3 DEF Panic, Abort
  <2> QED
    BY <2>1, <2>2, <2>3
<1>p. permit \in [Exec -> PermitState]
  BY DEF TypeOK, TaskTypeOK
<1>2. \A f \in Exec :
        IsConnection(f) /\ permit'[f] = "none" /\ pc[f] \notin Admitting \cup {"rejected"}
          => permit[f] = "none"
  <2>1. CASE Admission(e)
    BY <1>p, <2>1 DEF Admission, Acquire, AcquireConnection, WaitForCoordinator,
       RefuseAdmission, SubmitStarted, ReceiveStarted, AdmissionTimeout,
       DropExecutionPermit
  <2>2. CASE Running(e)
    BY <1>p, <2>2 DEF Running, Subscribe, Cancel, FailBeforeHandoff, RefreshGate,
       RefreshSend, RefreshDone, RefreshFail, JoinCoordinator, HandoffRevoked,
       HandoffEnter, HandoffSend, Contact, Respond, FailIndeterminate, FailNoEffect,
       TerminalTimeout, Return, SubmitTerminal, DropExecutionPermit, execVars
  <2>3. CASE Panic(e) \/ Abort(e)
    <3>1. DropTask(e)
      BY <2>3 DEF Panic, Abort
    <3> QED
      BY <1>p, <3>1 DEF DropTask
  <2> QED
    BY <2>1, <2>2, <2>3
<1>3. \A f \in Exec : pc[f] \in Admitting \cup {"rejected"} => ~Unterminated(f)
  BY OpenRow, Journals DEF EvidenceInv, Evidence, Recorded, Unstarted
<1> QED
  BY <1>1, <1>2, <1>3, LostFrame DEF Unterminated

\* The worker returns a permit with a durable terminal, or closes the gate.
LEMMA WorkerLost ==
    ASSUME TypeOK, EvidenceInv, EvidenceInv', PermitInv, LostTerminalClosesGate,
           Next, Worker
    PROVE  LostTerminalClosesGate'
<1>p. permit \in [Exec -> PermitState] /\ journal \in [Exec -> Seq(Row)]
  BY DEF TypeOK, TaskTypeOK
<1>b. UNCHANGED boots
  BY TaskFrame DEF controlVars
<1>o. \A f \in Exec : Unterminated(f)' <=> journal'[f] = <<"started">>
  <2> SUFFICES ASSUME NEW f \in Exec
               PROVE  Unterminated(f)' <=> journal'[f] = <<"started">>
    OBVIOUS
  <2>1. Recorded(f)'
    BY DEF EvidenceInv, Evidence
  <2> QED
    BY <2>1, Journals DEF Recorded, Unterminated, TerminalRow
<1>1. CASE WorkStarted
  <2>1. PICK e \in Exec : e = Head1.exec
    BY <1>1, TailFacts DEF WorkStarted
  <2>2. journal[e] = <<>>
    <3>1. pc[e] \in {"committing", "abandoned"}
      BY <1>1, <2>1, TailFacts DEF WorkStarted, RowOwned
    <3> QED
      BY <3>1 DEF EvidenceInv, Evidence, Recorded, Unstarted
  <2>3. \A f \in Exec \ {e} : journal'[f] = journal[f] /\ permit'[f] = permit[f]
    BY <1>1, <1>p, <2>1 DEF WorkStarted, StartedCommitted, StartedRefused
  <2>4. IsConnection(e) /\ permit'[e] = "none" => journal'[e] = <<>>
    BY <1>1, <1>p, <2>1, <2>2 DEF WorkStarted, StartedCommitted, StartedRefused
  <2> QED
    BY <1>b, <1>o, <2>3, <2>4, LostFrame, OpenRow, Journals
<1>2. CASE WorkTerminal
  <2>1. PICK e \in Exec : e = Head1.exec
    BY <1>2, TailFacts DEF WorkTerminal
  <2>2. IsConnection(e) => permit[e] = "armed"
    <3>1. 1 \in 1..Len(queue) /\ Head1 = queue[1]
      BY <1>2, TailEntries DEF WorkTerminal, Head1, TypeOK, TaskTypeOK
    <3> QED
      BY <1>2, <2>1, <3>1 DEF PermitInv, QueueArmed, WorkTerminal
  <2>3. \A f \in Exec \ {e} : permit'[f] = permit[f]
    BY <1>2, <2>1, WorkTerminalFacts
  <2>4. CASE journal' = [journal EXCEPT ![e] = Append(@, Head1.row)]
    <3>1. \A f \in Exec \ {e} : journal'[f] = journal[f]
      BY <1>p, <2>4
    <3>2. PICK row \in TerminalRow : row = Head1.row
      BY <1>2, TailFacts DEF WorkTerminal, TerminalRow
    <3>3. journal[e] = <<"started">>
      BY <1>2, <2>1, <3>2, TailFacts DEF WorkTerminal, RowOwned
    <3>4. journal'[e] = <<"started", row>>
      BY <1>p, <2>4, <3>2, <3>3, Journals DEF TerminalRow
    <3>5. journal'[e] # <<"started">>
      BY <3>4, Journals DEF TerminalRow
    <3> QED
      BY <1>b, <1>o, <2>3, <3>1, <3>5, LostFrame, OpenRow
  <2>5. CASE UNCHANGED journal /\ LoseTerminal(e)
    <3>1. IsConnection(e) => gate' = "STOP_PENDING"
      BY <2>2, <2>5 DEF LoseTerminal
    <3> QED
      BY <1>b, <1>o, <2>3, <2>5, <3>1, LostFrame, OpenRow
  <2> QED
    BY <1>2, <2>1, <2>4, <2>5 DEF WorkTerminal
<1> QED
  BY <1>1, <1>2 DEF Worker

\* A Connection whose terminal was lost keeps the gate closed, for any number
\* of executions and Connections.
THEOREM LostTerminalIsNoticed == Spec => []LostTerminalClosesGate
<1>1. Init => LostTerminalClosesGate
  BY Journals DEF Init, LostTerminalClosesGate, Unterminated
<1>2. TypeOK /\ EvidenceInv /\ EvidenceInv' /\ PermitInv /\ LostTerminalClosesGate
        /\ [Next]_vars => LostTerminalClosesGate'
  <2> SUFFICES ASSUME TypeOK, EvidenceInv, EvidenceInv', PermitInv,
                      LostTerminalClosesGate, [Next]_vars
               PROVE  LostTerminalClosesGate'
    OBVIOUS
  <2>1. CASE UNCHANGED vars
    BY <2>1 DEF vars, lifeVars, execVars, auditVars, LostTerminalClosesGate,
       Unterminated, IsConnection
  <2>2. CASE Next /\ (\/ \E s \in Session : CreateSession(s) \/ RevokeSession(s)
                      \/ Unlock \/ Drain \/ Fault \/ Stop)
    <3>1. UNCHANGED <<journal, permit, boots>>
      BY <2>2, ControlFrame DEF settleVars, auditVars
    <3> QED
      BY <2>2, <3>1, LostFrame DEF Unterminated
  <2>3. CASE Restart
    <3>1. ASSUME NEW e \in Exec PROVE Len(journal'[e]) # 1
      <4>1. journal'[e] = IF Len(journal[e]) = 1
                          THEN Append(journal[e], "indeterminate") ELSE journal[e]
        BY <2>3 DEF Restart, Reconcile
      <4>2. CASE journal[e] = <<"started">>
        <5>1. journal'[e] = <<"started", "indeterminate">>
          BY <4>1, <4>2, Journals DEF Row
        <5> QED
          BY <5>1, Journals DEF Row
      <4>3. CASE journal[e] # <<"started">>
        BY <4>1, <4>3, OpenRow DEF Unterminated
      <4> QED
        BY <4>2, <4>3
    <3> QED
      BY <3>1 DEF LostTerminalClosesGate, Unterminated
  <2> QED
    BY <2>1, <2>2, <2>3, TaskLost, WorkerLost DEF Next
<1> QED
  BY <1>1, <1>2, TypeCorrect, EvidenceHolds, PermitHolds, PTL DEF Spec

-----------------------------------------------------------------------------
(* Nothing starts again while the broker is not running.                   *)

\* A task of a broker that is not running takes no permit, and without permits
\* it has no guard and queues nothing.
LEMMA TaskQuiet ==
    ASSUME TypeOK, EvidenceInv, PermitInv, phase # "Running", InFlight = {},
           NEW e \in Exec, Admission(e) \/ Running(e) \/ Panic(e) \/ Abort(e)
    PROVE  InFlight' = {} /\ UNCHANGED <<queue, failed, journal, reached>>
<1>1. permit \in [Exec -> PermitState] /\ \A f \in Exec : permit[f] = "none"
  BY DEF InFlight, TypeOK, TaskTypeOK
<1>2. pc[e] \notin Guarded
  BY <1>1, RightAt
<1>3. CASE Admission(e)
  <2>1. UNCHANGED permit \/ DropExecutionPermit(e)
    BY <1>3 DEF Admission, Acquire, AcquireConnection, WaitForCoordinator,
       RefuseAdmission, SubmitStarted, ReceiveStarted, AdmissionTimeout,
       RejectIfNotRunning
  <2>2. UNCHANGED <<queue, failed, journal, reached>>
    BY <1>2, <1>3 DEF Admission, Acquire, AcquireConnection, WaitForCoordinator,
       RefuseAdmission, SubmitStarted, ReceiveStarted, AdmissionTimeout,
       RejectIfNotRunning, Guarded, auditVars, histVars
  <2> QED
    BY <1>1, <2>1, <2>2 DEF InFlight, DropExecutionPermit
<1>4. CASE Running(e)
  <2>1. TerminalTimeout(e) \/ Return(e) \/ Cancel(e)
    BY <1>2, <1>4 DEF Running, Subscribe, FailBeforeHandoff, RefreshGate,
       RefreshSend, RefreshDone, RefreshFail, JoinCoordinator, HandoffRevoked,
       HandoffEnter, HandoffSend, Contact, Respond, FailIndeterminate, FailNoEffect,
       WantsHandoff, ReadyForTarget, Guarded
  <2>2. CASE Cancel(e)
    <3>1. UNCHANGED <<permit, auditVars, histVars>>
      BY <1>2, <2>2 DEF Cancel, Guarded
    <3> QED
      BY <3>1 DEF InFlight, auditVars, histVars
  <2>3. CASE TerminalTimeout(e)
    BY <2>3 DEF TerminalTimeout, InFlight, auditVars, histVars
  <2>4. CASE Return(e)
    BY <1>1, <2>4 DEF Return, DropExecutionPermit, InFlight, auditVars, histVars
  <2> QED
    BY <2>1, <2>2, <2>3, <2>4
<1>5. CASE Panic(e) \/ Abort(e)
  <2>1. DropTask(e) /\ UNCHANGED <<failed, journal, reached>>
    BY <1>5 DEF Panic, Abort, histVars
  <2> QED
    BY <1>1, <1>2, <2>1 DEF DropTask, InFlight
<1> QED
  BY <1>3, <1>4, <1>5

\* The worker gives out no permit that was not there.
LEMMA WorkerQuiet ==
    ASSUME TypeOK, EvidenceInv, PermitInv, InFlight = {}, Worker
    PROVE  InFlight' = {}
<1>1. permit \in [Exec -> PermitState] /\ \A f \in Exec : permit[f] = "none"
  BY DEF InFlight, TypeOK, TaskTypeOK
<1>2. CASE WorkStarted
  <2>1. PICK e \in Exec : e = Head1.exec
    BY <1>2, TailFacts DEF WorkStarted
  <2>2. pc[e] \in {"committing", "abandoned"}
    BY <1>2, <2>1, TailFacts DEF WorkStarted, RowOwned
  <2>3. ~IsConnection(e)
    BY <1>1, <2>2, RightAt DEF PermitRight
  <2> QED
    BY <1>1, <1>2, <2>1, <2>3 DEF WorkStarted, StartedCommitted, StartedRefused, InFlight
<1>3. CASE WorkTerminal
  BY <1>1, <1>3 DEF WorkTerminal, InFlight
<1> QED
  BY <1>2, <1>3 DEF Worker

\* A step of a broker that is not running keeps it without permits, and leaves
\* a settled journal settled.
LEMMA QuietStep ==
    ASSUME TypeOK, EvidenceInv, PermitInv, phase # "Running", InFlight = {}, Next
    PROVE  InFlight' = {} /\ (Settled => Settled')
<1>1. CASE \/ \E s \in Session : CreateSession(s) \/ RevokeSession(s)
           \/ Unlock \/ Drain \/ Fault \/ Stop
  BY <1>1, ControlFrame DEF settleVars, auditVars, InFlight, Settled, NoneOpen
<1>2. CASE \E e \in Exec : Admission(e) \/ Running(e) \/ Panic(e) \/ Abort(e)
  BY <1>2, TaskQuiet DEF Settled, NoneOpen
<1>3. CASE Worker
  <2>1. queue # <<>>
    BY <1>3 DEF Worker, WorkStarted, WorkTerminal
  <2> QED
    BY <1>3, <2>1, WorkerQuiet DEF Settled
<1>4. CASE Restart
  <2>1. InFlight' = {} /\ queue' = <<>>
    BY <1>4 DEF Restart, InFlight
  <2>2. Settled => journal' = journal
    <3>1. Settled => \A e \in Exec : Len(journal[e]) # 1
      BY OpenRow DEF Settled, NoneOpen, Unterminated
    <3>2. journal \in [Exec -> Seq(Row)]
      BY DEF TypeOK, TaskTypeOK
    <3> QED
      BY <1>4, <3>1, <3>2 DEF Restart, Reconcile
  <2> QED
    BY <2>1, <2>2 DEF Settled, NoneOpen
<1> QED
  BY <1>1, <1>2, <1>3, <1>4 DEF Next

\* In a broker that is not running a task at rest does not move.
LEMMA RestingTask ==
    ASSUME phase # "Running", AllAtRest, NEW e \in Exec,
           Admission(e) \/ Running(e) \/ Panic(e) \/ Abort(e)
    PROVE  FALSE
<1>1. pc[e] \in {"idle", "abandoned", "done"}
  BY DEF AllAtRest, AtRest
<1>2. CASE Admission(e)
  BY <1>1, <1>2 DEF Admission, Acquire, AcquireConnection, WaitForCoordinator,
     RefuseAdmission, SubmitStarted, ReceiveStarted, AdmissionTimeout,
     RejectIfNotRunning, Admitting
<1>3. CASE Running(e)
  BY <1>1, <1>3 DEF Running, Subscribe, Cancel, FailBeforeHandoff, RefreshGate,
     RefreshSend, RefreshDone, RefreshFail, JoinCoordinator, HandoffRevoked,
     HandoffEnter, HandoffSend, Contact, Respond, FailIndeterminate, FailNoEffect,
     TerminalTimeout, Return, WantsHandoff, ReadyForTarget
<1>4. CASE Panic(e) \/ Abort(e)
  BY <1>1, <1>4 DEF Panic, Abort, AtRest
<1> QED
  BY <1>2, <1>3, <1>4

\* Tasks at rest stay at rest in a broker that is not running.
LEMMA RestStep ==
    ASSUME TypeOK, EvidenceInv, phase # "Running", AllAtRest, Next
    PROVE  AllAtRest'
<1>1. CASE \/ \E s \in Session : CreateSession(s) \/ RevokeSession(s)
           \/ Unlock \/ Drain \/ Fault \/ Stop
  BY <1>1, ControlFrame DEF settleVars, AllAtRest
<1>3. CASE WorkStarted
  <2>1. PICK e \in Exec : e = Head1.exec
    BY <1>3, TailFacts DEF WorkStarted
  <2>2. pc[e] = "abandoned"
    BY <1>3, <2>1, TailFacts DEF WorkStarted, RowOwned, AllAtRest, AtRest
  <2>3. Goto(e, "done")
    BY <1>3, <2>1, <2>2 DEF WorkStarted, StartedCommitted, StartedRefused
  <2> QED
    BY <2>3, GotoApart DEF AllAtRest, AtRest
<1>4. CASE WorkTerminal
  <2>1. PICK e \in Exec : e = Head1.exec
    BY <1>4, TailFacts DEF WorkTerminal
  <2>2. pc[e] \in AtRest
    BY DEF AllAtRest
  <2>3. pc'[e] = "done" /\ \A f \in Exec \ {e} : pc'[f] = pc[f]
    BY <1>4, <2>1, <2>2, WorkTerminalFacts DEF AtRest
  <2> QED
    BY <2>3 DEF AllAtRest, AtRest
<1>5. CASE Restart
  BY <1>5 DEF Restart, AllAtRest, AtRest
<1> QED
  BY <1>1, <1>3, <1>4, <1>5, RestingTask DEF Next, Worker

\* What has ended stays ended in a broker that is not running: no task moves
\* and the worker has nothing to do.
LEMMA EndedStep ==
    ASSUME TypeOK, EvidenceInv, phase # "Running", Ended, Next, ~Restart
    PROVE  /\ Ended'
           /\ ~Worker /\ \A e \in Exec : ~(Admission(e) \/ Running(e) \/ Panic(e) \/ Abort(e))
<1>1. AllAtRest'
  BY RestStep DEF Ended
<1>2. ~Worker
  BY DEF Worker, WorkStarted, WorkTerminal, Ended
<1>3. \A e \in Exec : ~(Admission(e) \/ Running(e) \/ Panic(e) \/ Abort(e))
  BY RestingTask DEF Ended
<1>4. UNCHANGED auditVars
  BY <1>2, <1>3, ControlFrame DEF Next, settleVars
<1> QED
  BY <1>1, <1>2, <1>3, <1>4 DEF Ended, NoneOpen, auditVars

-----------------------------------------------------------------------------
(* The drain.                                                              *)

\* With nobody in flight, nothing pending and no failure every row is closed.
LEMMA IdleIsSettled ==
    ASSUME TypeOK, EvidenceInv, PermitInv, queue = <<>>, ~failed,
           InFlight = {} \/ AllAtRest
    PROVE  NoneOpen
<1> SUFFICES ASSUME NEW e \in Exec PROVE journal[e] # <<"started">>
  BY DEF NoneOpen
<1>1. pc[e] \notin Guarded
  <2>1. CASE InFlight = {}
    BY <2>1, RightAt DEF InFlight
  <2>2. CASE AllAtRest
    BY <2>2 DEF AllAtRest, AtRest, Guarded
  <2> QED
    BY <2>1, <2>2
<1>2. \A i \in 1..Len(queue) : FALSE
  OBVIOUS
<1> QED
  BY <1>1, <1>2 DEF EvidenceInv, Evidence, Answered

\* A step outside the control operations keeps what the drain established.
LEMMA DrainFrame ==
    ASSUME TypeOK, EvidenceInv, PermitInv, DrainInv, Next,
           UNCHANGED <<phase, stage, drainOk, drained>>
    PROVE  DrainInv'
<1>1. stage \in {"drain-idle", "drain-lock"} \/ drained => phase # "Running" /\ InFlight = {}
  BY DEF DrainInv, DrainStage, Settled
<1>2. stage \in {"drain-idle", "drain-lock"} \/ drained
        => InFlight' = {} /\ (Settled => Settled')
  BY <1>1, QuietStep
<1> QED
  BY <1>2 DEF DrainInv

\* An unlock ends the promise of the last drain.
LEMMA UnlockDrain ==
    ASSUME TypeOK, HandoffInv, DrainInv, Unlock
    PROVE  DrainInv'
<1>1. stage' \in UnlockStage \cup {"none"}
  BY DEF Unlock, UnlockBegin, UnlockAuthority, ActivateFailed, EnterRunning,
     FinishRunning, OpenAdmission, Rollback, TakeCoordinator, ReleaseCoordinator,
     At, UnlockStage
<1>2. /\ drainOk' = drainOk
      /\ stage \in UnlockStage \/ coordinator = "free"
      /\ drained' = FALSE \/ (drained' = drained /\ stage \in UnlockStage)
  BY DEF Unlock, UnlockBegin, UnlockAuthority, ActivateFailed, EnterRunning,
     FinishRunning, OpenAdmission, Rollback, TakeCoordinator, At, UnlockStage
<1>3. stage # "drain-lock" /\ ~drained'
  BY <1>2, LifecycleAssumption DEF HandoffInv, DrainInv, UnlockStage
<1> QED
  BY <1>1, <1>2, <1>3 DEF DrainInv, UnlockStage, DrainStage

\* The drain itself: it waits until nobody is in flight, asks the audit whether
\* it is idle, and reports what it was told.
LEMMA DrainDrain ==
    ASSUME TypeOK, EvidenceInv, PermitInv, HandoffInv, DrainInv, Next, Drain
    PROVE  DrainInv'
<1>s. UNCHANGED <<permit, queue, journal>>
  BY ControlFrame DEF settleVars, auditVars
<1>k. (InFlight' = {} <=> InFlight = {}) /\ (Settled' <=> Settled)
  BY <1>s DEF InFlight, Settled, NoneOpen
<1>1. CASE DrainLocked
  BY <1>1, DrainFrame DEF DrainLocked, lifeVars, ctlVars
<1>2. CASE DrainBegin \/ IdleDrain
  <2>1. stage = "none"
    BY <1>2 DEF DrainBegin, IdleDrain, TakeCoordinator, HandoffInv
  <2>2. /\ stage' \in {"drain-revoke", "drain-wait"} /\ phase' = "Draining"
        /\ UNCHANGED <<drainOk, drained>>
    BY <1>2 DEF DrainBegin, IdleDrain, TakeCoordinator, EnterDraining
  <2> QED
    BY <1>k, <2>1, <2>2 DEF DrainInv, DrainStage, UnlockStage
<1>3. CASE DrainRevoke
  BY <1>3, <1>k DEF DrainRevoke, At, lifeVars, DrainInv, DrainStage, UnlockStage
<1>4. CASE DrainWait
  <2>1. /\ stage \in {"drain-wait", "drain-cancelled"}
        /\ UNCHANGED <<phase, drainOk, drained>>
        /\ \/ InFlight = {} /\ stage' = "drain-idle"
           \/ stage' \in {"drain-cancelled", "none"}
    BY <1>4 DEF DrainWait, At, Quiescent, ReleaseCoordinator
  <2> QED
    BY <1>k, <2>1 DEF DrainInv, DrainStage, UnlockStage
<1>5. CASE DrainIdle
  <2>1. /\ stage = "drain-idle" /\ stage' = "drain-lock" /\ UNCHANGED <<phase, drained>>
        /\ drainOk' => queue = <<>> /\ ~failed
    BY <1>5 DEF DrainIdle, At, AuditIdle, lifeVars
  <2>2. InFlight = {} /\ phase = "Draining"
    BY <2>1 DEF DrainInv, DrainStage
  <2>3. drainOk' => Settled
    BY <2>1, <2>2, IdleIsSettled DEF Settled
  <2> QED
    BY <1>k, <2>1, <2>2, <2>3 DEF DrainInv, DrainStage, UnlockStage
<1>6. CASE DrainLock
  <2>1. /\ stage = "drain-lock" /\ stage' = "none" /\ drainOk' = FALSE
        /\ \/ drained' = drainOk /\ phase' = "Locked"
           \/ drained' = drained /\ phase' = phase
    BY <1>6 DEF DrainLock, At, ReleaseCoordinator, EnterLocked
  <2> QED
    BY <1>k, <2>1 DEF DrainInv, DrainStage, UnlockStage
<1> QED
  BY <1>1, <1>2, <1>3, <1>4, <1>5, <1>6 DEF Drain

\* Faults and stops serve nobody: what the last drain left stays.
LEMMA FaultStopDrain ==
    ASSUME TypeOK, EvidenceInv, PermitInv, HandoffInv, DrainInv, Next, Fault \/ Stop
    PROVE  DrainInv'
<1>s. UNCHANGED <<permit, queue, journal>>
  BY ControlFrame DEF settleVars, auditVars
<1>k. (InFlight' = {} <=> InFlight = {}) /\ (Settled' <=> Settled)
  BY <1>s DEF InFlight, Settled, NoneOpen
<1>1. CASE RequestFault \/ FaultRevoke
  BY <1>1, DrainFrame DEF RequestFault, FaultRevoke, lifeVars, ctlVars
<1>2. CASE RetentionFault
  <2>1. /\ stage = "none" /\ phase = "Running" /\ phase' = "Draining"
        /\ UNCHANGED <<stage, drainOk, drained>>
    BY <1>2 DEF RetentionFault, HandoffInv, RejectIfNotRunning, ctlVars
  <2> QED
    BY <2>1 DEF DrainInv, DrainStage
<1>3. CASE StopTimeout \/ \E cause \in StopCause : SelectStop(cause)
  BY <1>3, DrainFrame DEF StopTimeout, SelectStop, lifeVars, ctlVars
<1>4. CASE \/ StopAcquire \/ StopProof \/ StopBegin \/ StopRevoke \/ StopWait
           \/ StopJoin \/ StopIdle \/ StopLock \/ StopFinal
  <2>1. stage \in StopStage \/ stage = "none"
    BY <1>4 DEF StopAcquire, StopProof, StopBegin, StopRevoke, StopWait,
       StopJoin, StopIdle, StopLock, StopFinal, TakeCoordinator, At, StopStage,
       HandoffInv
  <2>2. stage' \in StopStage \cup {"none"}
    BY <1>4 DEF StopAcquire, StopProof, StopBegin, StopRevoke, StopWait,
       StopJoin, StopIdle, StopLock, StopFinal, TakeCoordinator,
       ReleaseCoordinator, RejectStop, StopStage
  <2>3. UNCHANGED <<drainOk, drained>>
    BY <1>4 DEF StopAcquire, StopProof, StopBegin, StopRevoke, StopWait,
       StopJoin, StopIdle, StopLock, StopFinal
  <2>4. phase' = phase \/ phase' # "Running"
    BY <1>4 DEF StopAcquire, StopProof, StopBegin, StopRevoke, StopWait,
       StopJoin, StopIdle, StopLock, StopFinal, EnterDraining, EnterLocked,
       EnterShuttingDown, lifeVars
  <2> QED
    BY <1>k, <2>1, <2>2, <2>3, <2>4 DEF DrainInv, DrainStage, UnlockStage, StopStage
<1> QED
  BY <1>1, <1>2, <1>3, <1>4 DEF Fault, Stop

\* What the drain establishes holds in every reachable state.
LEMMA DrainHolds == Spec => []DrainInv
<1>1. Init => DrainInv
  BY DEF Init, DrainInv, DrainStage
<1>2. TypeOK /\ EvidenceInv /\ PermitInv /\ HandoffInv /\ DrainInv /\ [Next]_vars
        => DrainInv'
  <2> SUFFICES ASSUME TypeOK, EvidenceInv, PermitInv, HandoffInv, DrainInv,
                      [Next]_vars
               PROVE  DrainInv'
    OBVIOUS
  <2>1. CASE UNCHANGED vars
    BY <2>1 DEF vars, lifeVars, execVars, auditVars, ctlVars, DrainInv, Settled,
       NoneOpen, InFlight
  <2>2. CASE Next /\ \E s \in Session : CreateSession(s) \/ RevokeSession(s)
    <3>1. UNCHANGED <<phase, stage, drainOk, drained>>
      BY <2>2 DEF CreateSession, RevokeSession, lifeVars, ctlVars
    <3> QED
      BY <2>2, <3>1, DrainFrame
  <2>3. CASE Next /\ (\/ \E e \in Exec : Admission(e) \/ Running(e) \/ Panic(e) \/ Abort(e)
                      \/ Worker)
    BY <2>3, TaskFrame, DrainFrame DEF controlVars, ctlVars
  <2>4. CASE Restart
    BY <2>4 DEF Restart, DrainInv, DrainStage
  <2> QED
    BY <2>1, <2>2, <2>3, <2>4, UnlockDrain, DrainDrain, FaultStopDrain DEF Next
<1> QED
  BY <1>1, <1>2, TypeCorrect, EvidenceHolds, PermitHolds, HandoffHolds, PTL DEF Spec

-----------------------------------------------------------------------------
(* The stop.                                                               *)

\* A step that leaves the stop's own state alone, and an ended broker's
\* Authority and gate, keeps what the stop established.
LEMMA StopFrame ==
    ASSUME TypeOK, EvidenceInv, StopInv, Next, ~Restart,
           UNCHANGED <<phase, stage, stopError, exit>>,
           exit = "clean" => UNCHANGED <<authority, gate>>
    PROVE  StopInv'
<1>1. phase # "Running" /\ AllAtRest => AllAtRest'
  BY RestStep
<1>2. phase # "Running" /\ Ended => Ended'
  BY EndedStep
<1> QED
  BY <1>1, <1>2 DEF StopInv, StopStage

\* The other control operations run only while the broker serves, and leave no
\* stage of the stop behind.
LEMMA ServingStop ==
    ASSUME TypeOK, EvidenceInv, HandoffInv, StopInv, Next, ~Restart,
           Unlock \/ Drain \/ Fault
    PROVE  StopInv'
<1>1. CASE Unlock
  <2>1. exit # "clean" /\ UNCHANGED exit
    BY <1>1 DEF Unlock, UnlockBegin, UnlockAuthority, ActivateFailed, EnterRunning,
       FinishRunning, OpenAdmission, Rollback, TakeCoordinator, ServeLoop, At,
       StopInv, stopVars
  <2>2. stage' \notin StopStage
    BY <1>1 DEF Unlock, UnlockBegin, UnlockAuthority, ActivateFailed, EnterRunning,
       FinishRunning, OpenAdmission, Rollback, TakeCoordinator,
       ReleaseCoordinator, StopStage
  <2> QED
    BY <2>1, <2>2 DEF StopInv, StopStage
<1>2. CASE DrainLocked
  BY <1>2, StopFrame DEF DrainLocked, ServeLoop, lifeVars, ctlVars, stopVars
<1>3. CASE Drain /\ ~DrainLocked
  <2>1. exit # "clean" /\ UNCHANGED exit
    BY <1>3 DEF Drain, DrainBegin, IdleDrain, DrainRevoke, DrainWait, DrainIdle,
       DrainLock, TakeCoordinator, ServeLoop, At, StopInv, stopVars
  <2>2. stage' \notin StopStage
    BY <1>3 DEF Drain, DrainBegin, IdleDrain, DrainRevoke, DrainWait, DrainIdle,
       DrainLock, TakeCoordinator, ReleaseCoordinator, StopStage
  <2> QED
    BY <2>1, <2>2 DEF StopInv, StopStage
<1>4. CASE RequestFault
  BY <1>4, StopFrame DEF RequestFault, ServeLoop, ctlVars
<1>5. CASE FaultRevoke
  BY <1>5, StopFrame DEF FaultRevoke, lifeVars, ctlVars
<1>6. CASE RetentionFault
  <2>1. exit # "clean" /\ UNCHANGED <<exit, stage>> /\ stage = "none"
    BY <1>6 DEF RetentionFault, ServeLoop, HandoffInv, ctlVars
  <2> QED
    BY <2>1 DEF StopInv, StopStage
<1> QED
  BY <1>1, <1>2, <1>3, <1>4, <1>5, <1>6 DEF Drain, Fault

\* The stop itself, await point by await point.
LEMMA StopStop ==
    ASSUME TypeOK, EvidenceInv, PermitInv, HandoffInv, StopInv, Next, ~Restart, Stop
    PROVE  StopInv'
<1>s. UNCHANGED <<pc, auditVars>>
  BY ControlFrame DEF settleVars
<1>k. (AllAtRest' <=> AllAtRest) /\ (Ended' <=> Ended)
  BY <1>s DEF AllAtRest, Ended, NoneOpen, auditVars
<1>1. CASE \E cause \in StopCause : SelectStop(cause)
  BY <1>1, StopFrame DEF SelectStop, ServeLoop, ctlVars
<1>2. CASE StopTimeout
  <2>1. stage \notin StopStage /\ UNCHANGED stage /\ exit' # "clean"
    BY <1>2 DEF StopTimeout, ServeLoop, ctlVars
  <2> QED
    BY <2>1 DEF StopInv, StopStage
<1>3. CASE StopAcquire \/ StopProof
  <2>1. exit # "clean" /\ UNCHANGED exit
    BY <1>3 DEF StopAcquire, StopProof, TakeCoordinator, ServeLoop, At, StopInv
  <2>2. stage' \in {"stop-proof", "stop-begin", "none"}
    BY <1>3 DEF StopAcquire, StopProof, TakeCoordinator, RejectStop,
       ReleaseCoordinator
  <2> QED
    BY <2>1, <2>2 DEF StopInv, StopStage
<1>4. CASE StopBegin
  <2>1. exit # "clean" /\ UNCHANGED exit /\ stage' = "stop-revoke" /\ phase' # "Running"
    BY <1>4 DEF StopBegin, At, EnterDraining, StopInv, stopVars
  <2> QED
    BY <2>1 DEF StopInv, StopStage
<1>5. CASE StopRevoke
  <2>1. /\ exit # "clean" /\ UNCHANGED <<exit, phase>> /\ stage' = "stop-wait"
        /\ phase # "Running"
    BY <1>5 DEF StopRevoke, At, StopInv, StopStage, lifeVars, stopVars
  <2> QED
    BY <2>1 DEF StopInv, StopStage
<1>6. CASE StopWait
  <2>1. /\ exit # "clean" /\ UNCHANGED <<exit, phase>> /\ phase # "Running"
        /\ stage' \in {"stop-cancelled", "stop-join"}
    BY <1>6 DEF StopWait, At, StopInv, StopStage
  <2> QED
    BY <2>1 DEF StopInv, StopStage
<1>7. CASE StopJoin
  <2>1. /\ exit # "clean" /\ UNCHANGED <<exit, phase>> /\ phase # "Running"
        /\ stage' = "stop-idle" /\ (~stopError' => AllAtRest)
    BY <1>7 DEF StopJoin, At, StopInv, StopStage, lifeVars, AllAtRest
  <2> QED
    BY <1>k, <2>1 DEF StopInv, StopStage
<1>8. CASE StopIdle
  <2>1. exit # "clean" /\ phase # "Running" /\ (~stopError => AllAtRest)
    BY <1>8 DEF StopIdle, At, StopInv, StopStage
  <2>2. CASE queue # <<>>
    BY <1>8, <2>2 DEF StopIdle, ReleaseCoordinator, StopInv, StopStage
  <2>3. CASE queue = <<>>
    <3>1. UNCHANGED <<exit, phase>> /\ stage' = "stop-lock"
      BY <1>8, <2>3 DEF StopIdle
    <3>2. ~stopError' => ~stopError /\ ~failed
      BY <1>8, <2>3 DEF StopIdle, TypeOK, TaskTypeOK, StopTypeOK
    <3>3. ~stopError' => Ended
      BY <2>1, <2>3, <3>2, IdleIsSettled DEF Ended
    <3> QED
      BY <1>k, <2>1, <3>1, <3>3 DEF StopInv, StopStage, Ended
  <2> QED
    BY <2>2, <2>3
<1>9. CASE StopLock
  <2>1. /\ exit # "clean" /\ UNCHANGED exit /\ stage' = "stop-final"
        /\ phase # "Running" /\ (~stopError => Ended)
    BY <1>9 DEF StopLock, At, StopInv, StopStage
  <2>2. phase' # "Running"
    BY <1>9, <2>1 DEF StopLock, EnterLocked
  <2>3. stopError' \in {stopError, TRUE}
    BY <1>9 DEF StopLock
  <2> QED
    BY <1>k, <2>1, <2>2, <2>3 DEF StopInv, StopStage, Ended
<1>10. CASE StopFinal
  <2>1. stage' = "none" /\ (~stopError => Ended)
    BY <1>10 DEF StopFinal, At, ReleaseCoordinator, StopInv
  <2>2. /\ phase' = "ShuttingDown" /\ gate' # "OPEN"
        /\ exit' = "clean" => ~stopError /\ authority' = "down"
    BY <1>10 DEF StopFinal, EnterShuttingDown, CloseRemoteEffectAdmission
  <2> QED
    BY <1>k, <2>1, <2>2 DEF StopInv, StopStage
<1> QED
  BY <1>1, <1>2, <1>3, <1>4, <1>5, <1>6, <1>7, <1>8, <1>9, <1>10 DEF Stop

\* What the stop establishes holds in every reachable state.
LEMMA StopHolds == Spec => []StopInv
<1>1. Init => StopInv
  BY DEF Init, StopInv, StopStage
<1>2. TypeOK /\ EvidenceInv /\ PermitInv /\ HandoffInv /\ StopInv /\ [Next]_vars
        => StopInv'
  <2> SUFFICES ASSUME TypeOK, EvidenceInv, PermitInv, HandoffInv, StopInv,
                      [Next]_vars
               PROVE  StopInv'
    OBVIOUS
  <2>1. CASE UNCHANGED vars
    BY <2>1 DEF vars, lifeVars, execVars, auditVars, ctlVars, stopVars, StopInv,
       Ended, NoneOpen, AllAtRest
  <2>2. CASE Restart
    BY <2>2 DEF Restart, StopInv, StopStage
  <2>3. CASE Next /\ ~Restart /\ \E s \in Session : CreateSession(s) \/ RevokeSession(s)
    <3>1. UNCHANGED <<phase, stage, stopError, exit, authority, gate>>
      BY <2>3 DEF CreateSession, RevokeSession, lifeVars, ctlVars, stopVars
    <3> QED
      BY <2>3, <3>1, StopFrame
  <2>4. CASE Next /\ ~Restart /\
             (\/ \E e \in Exec : Admission(e) \/ Running(e) \/ Panic(e) \/ Abort(e)
              \/ Worker)
    <3>1. UNCHANGED <<phase, stage, stopError, exit>>
      BY <2>4, TaskFrame DEF controlVars, ctlVars, stopVars
    <3>2. exit # "clean"
      BY <2>4, EndedStep DEF StopInv
    <3> QED
      BY <2>4, <3>1, <3>2, StopFrame
  <2> QED
    BY <2>1, <2>2, <2>3, <2>4, ServingStop, StopStop DEF Next
<1> QED
  BY <1>1, <1>2, TypeCorrect, EvidenceHolds, PermitHolds, HandoffHolds, PTL DEF Spec

-----------------------------------------------------------------------------
(* The theorems.                                                           *)

\* A drain that reported success and a clean exit leave nothing to settle, for
\* any number of executions, sessions and Connections.
THEOREM ClosedMeansComplete == Spec => []ClosedIsComplete
<1>1. EvidenceInv /\ DrainInv => DrainComplete
  <2> SUFFICES ASSUME EvidenceInv, DrainInv, drained
               PROVE  /\ \A e \in Exec : ~Unterminated(e) /\ permit[e] = "none"
                      /\ queue = <<>> /\ phase # "Running"
    BY DEF DrainComplete
  <2>1. Settled /\ phase # "Running"
    BY DEF DrainInv
  <2> QED
    BY <2>1, OpenRow DEF Settled, NoneOpen, InFlight
<1>2. EvidenceInv /\ StopInv => CleanExitComplete
  <2> SUFFICES ASSUME EvidenceInv, StopInv, exit = "clean"
               PROVE  /\ \A e \in Exec : pc[e] \in AtRest /\ ~Unterminated(e)
                      /\ queue = <<>> /\ ~failed
                      /\ authority = "down" /\ phase = "ShuttingDown" /\ gate # "OPEN"
    BY DEF CleanExitComplete
  <2>1. /\ Ended /\ authority = "down" /\ phase = "ShuttingDown" /\ gate # "OPEN"
    BY DEF StopInv
  <2> QED
    BY <2>1, OpenRow DEF Ended, NoneOpen, AllAtRest
<1> QED
  BY <1>1, <1>2, EvidenceHolds, DrainHolds, StopHolds, PTL DEF ClosedIsComplete

\* After a reported drain or a clean exit no request leaves the broker.
THEOREM ClosedMeansSilent == Spec => NoEffectAfterDrain
<1>1. TypeOK /\ EvidenceInv /\ PermitInv /\ DrainInv /\ StopInv /\ [Next]_vars
        => [drained \/ exit = "clean" => reached' = reached]_vars
  <2> SUFFICES ASSUME TypeOK, EvidenceInv, PermitInv, DrainInv, StopInv, Next,
                      drained \/ exit = "clean"
               PROVE  reached' = reached
    OBVIOUS
  <2>1. CASE Restart
    BY <2>1 DEF Restart, histVars
  <2>2. CASE \/ \E s \in Session : CreateSession(s) \/ RevokeSession(s)
             \/ Unlock \/ Drain \/ Fault \/ Stop
    BY <2>2, ControlFrame DEF settleVars
  <2>3. CASE Worker
    BY <2>3 DEF Worker, WorkStarted, WorkTerminal, histVars
  <2>4. CASE ~Restart /\ \E e \in Exec : Admission(e) \/ Running(e) \/ Panic(e) \/ Abort(e)
    <3>1. CASE drained
      BY <2>4, <3>1, TaskQuiet DEF DrainInv, Settled
    <3>2. CASE exit = "clean"
      BY <2>4, <3>2, EndedStep DEF StopInv
    <3> QED
      BY <3>1, <3>2
  <2> QED
    BY <2>1, <2>2, <2>3, <2>4 DEF Next
<1> QED
  BY <1>1, TypeCorrect, EvidenceHolds, PermitHolds, DrainHolds, StopHolds, PTL
     DEF Spec, NoEffectAfterDrain

\* The evidence as a whole.
THEOREM EvidenceIsTrueAlways == Spec => []EvidenceIsTrue
BY EvidenceWellFormed, EvidencePrecedesEffects, EvidencePrecedesResponses,
   EvidenceIsTruthful, EvidenceIsOwned, PTL DEF EvidenceIsTrue
=============================================================================
