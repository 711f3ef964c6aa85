---------------------------- MODULE MtlsExecution ----------------------------
(***************************************************************************)
(* Executions that authenticate with a private key of the vault            *)
(* (crates/rekey-broker/src/executor/mtls.rs): a request registers as an   *)
(* owner of its credential, connects, has the Authority open the key under *)
(* the coordinator, and then performs TLS and HTTP with every single poll  *)
(* under a fresh check of the live gate.  Rotation and revocation of the   *)
(* credential, and activation of another policy, commit under the same     *)
(* coordinator, cancel the owners and answer only when all have closed     *)
(* (lifecycle.rs, ipc/admin.rs, runtime/admin.rs).                         *)
(*                                                                         *)
(* The bytes of a response are small numbers; the private key reflected by *)
(* a server is the sequence Secret.  A deadline that has passed is the     *)
(* flag `late' of its owner.                                               *)
(***************************************************************************)
EXTENDS Integers, FiniteSets, Sequences

CONSTANTS Requests,      \* admitted executions
          CredentialOf,  \* Requests -> the mTLS credential of its connection
          MaxVersion,    \* bound on versions of a credential
          MaxPolicy,     \* bound on activated policies
          MaxOps,        \* bound on administrator requests
          Frames,        \* what a data frame of a response may hold
          MaxBody,       \* response_policy.max_body_bytes
          CanLate,       \* whether deadlines pass
          CanFault       \* whether the broker drains or faults, policies expire

MtlsAssumption ==
    /\ IsFiniteSet(Requests) /\ DOMAIN CredentialOf = Requests
    /\ MaxVersion \in Nat \ {0} /\ MaxPolicy \in Nat \ {0} /\ MaxOps \in Nat
    /\ MaxBody \in Nat /\ CanLate \in BOOLEAN /\ CanFault \in BOOLEAN

VARIABLES phase,      \* Lifecycle.phase
          open,       \* the remote effect gate admits effects
          stop,       \* Lifecycle.cancel_tx
          coord,      \* holder of the coordinator
          policy,     \* the policy in memory, 0 for none
          stored,     \* the policy in the vault
          expired,    \* policies past their expiry
          cred,       \* the credentials in the vault
          owners,     \* Lifecycle.private_credentials
          cancelled,  \* owners whose cancel channel holds true
          ex,         \* the executions
          adm,        \* the administrator's request in progress
          ops,        \* administrator requests so far
          answered    \* history: mutations answered with success

vars == <<phase, open, stop, coord, policy, stored, expired, cred, owners,
          cancelled, ex, adm, ops, answered>>
lifecycle == <<phase, open, stop>>
vault == <<stored, cred>>
admin == <<adm, ops, answered>>

Credentials == {CredentialOf[r] : r \in Requests}
Secret == <<1, 2>>
Reflects(body) ==
    \E i \in 1..Len(body) - 1 : SubSeq(body, i, i + 1) = Secret

Idle == [op |-> "none", on |-> {}, pc |-> "idle", to |-> 0]

\* pc: the next step; key: the version of the key held, 0 for none; effect:
\* the guard's remote_effect_started; signed: history, the key was used.
Fresh == [pc |-> "new", digest |-> 0, key |-> 0, effect |-> FALSE,
          late |-> FALSE, body |-> <<>>, driver |-> "running",
          result |-> "none", row |-> "none", answer |-> "none",
          signed |-> FALSE]

Polls == {"screen", "connect", "tls", "handshake", "response", "body"}
Calls == {"consume", "construct", "http", "enqueue"}
Gated == Polls \cup Calls \cup {"prepare"}
Owning == Gated \cup {"preparing", "closing"}

After == [screen |-> "connect", connect |-> "prepare",
          consume |-> "construct", construct |-> "tls", tls |-> "http",
          http |-> "handshake", handshake |-> "enqueue",
          enqueue |-> "response", response |-> "body", body |-> "closing"]

Init ==
    /\ phase = "running" /\ open = TRUE /\ stop = FALSE /\ coord = "free"
    /\ policy = 1 /\ stored = 1 /\ expired = {}
    /\ cred = [c \in Credentials |-> [version |-> 1, active |-> TRUE]]
    /\ owners = {} /\ cancelled = {}
    /\ ex = [r \in Requests |-> Fresh]
    /\ adm = Idle /\ ops = 0 /\ answered = {}

Set(r, f) == ex' = [ex EXCEPT ![r] = f]

----------------------------------------------------------------------------
(* The live gate.                                                          *)

\* live(): the coordinator is free and nothing has been withdrawn.
Live(r) ==
    /\ r \notin cancelled /\ ~stop /\ coord = "free"
    /\ phase = "running" /\ open
    /\ policy = ex[r].digest /\ policy \notin expired /\ ~ex[r].late

\* What ends a wait for the gate: cancellation without waiting for the
\* coordinator, the deadline, or a check made once the coordinator is held.
Refused(r) ==
    \/ r \in cancelled \/ stop \/ ex[r].late
    \/ /\ coord = "free"
       /\ \/ phase # "running" \/ ~open
          \/ policy # ex[r].digest \/ policy \in expired

Quiet == UNCHANGED <<lifecycle, policy, expired, vault, admin>>

----------------------------------------------------------------------------
(* An execution.                                                           *)

\* The started row is committed under the policy in memory.
Admit(r) ==
    /\ ex[r].pc = "new" /\ phase = "running" /\ coord = "free"
    /\ policy # 0 /\ policy \notin expired
    /\ Set(r, [ex[r] EXCEPT !.pc = "register", !.digest = policy])
    /\ UNCHANGED <<coord, owners, cancelled>> /\ Quiet

\* run(): registration under the coordinator; from here on the supervisor
\* leaves the cleanup to the execution.
Register(r) ==
    /\ ex[r].pc = "register" /\ coord = "free" /\ phase = "running" /\ ~stop
    /\ ~ex[r].late
    /\ owners' = owners \cup {r}
    /\ Set(r, [ex[r] EXCEPT !.pc = "screen"])
    /\ UNCHANGED <<coord, cancelled>> /\ Quiet

\* Before registration a failure, or the drop of the execution, only blocks.
NotRegistered(r) ==
    /\ ex[r].pc = "register"
    /\ stop \/ ex[r].late \/ (coord = "free" /\ phase # "running")
    /\ Set(r, [ex[r] EXCEPT !.pc = "done", !.row = "blocked",
                            !.answer = "error"])
    /\ UNCHANGED <<coord, owners, cancelled>> /\ Quiet

FailTo(r) == [ex[r] EXCEPT !.pc = "closing", !.result = "error"]

\* A step of the protocol ended in an error, or its gate did.
GateRefuses(r) ==
    /\ ex[r].pc \in Gated /\ Refused(r)
    /\ Set(r, FailTo(r))
    /\ UNCHANGED <<coord, owners, cancelled>> /\ Quiet

\* Gate::call, and a poll of screening, connecting and the HTTP handshake.
Step(r) ==
    /\ ex[r].pc \in Calls \cup {"screen", "connect", "handshake"} /\ Live(r)
    /\ \/ Set(r, [ex[r] EXCEPT !.pc = After[@]])
       \/ Set(r, FailTo(r))
    /\ UNCHANGED <<coord, owners, cancelled>> /\ Quiet

\* The key is asked for while the coordinator is held.
PrepareEnter(r) ==
    /\ ex[r].pc = "prepare" /\ Live(r)
    /\ coord' = r
    /\ Set(r, [ex[r] EXCEPT !.pc = "preparing"])
    /\ UNCHANGED <<owners, cancelled>> /\ Quiet

\* prepare_mtls_connection: the vault's own policy and credential decide.
MayPrepare(r) ==
    /\ stored = ex[r].digest /\ stored \notin expired
    /\ cred[CredentialOf[r]].active

PrepareServed(r) ==
    /\ ex[r].pc = "preparing" /\ adm.pc # "orphan"
    /\ coord' = "free"
    /\ IF MayPrepare(r) /\ ~ex[r].late
       THEN Set(r, [ex[r] EXCEPT !.pc = "consume",
                                 !.key = cred[CredentialOf[r]].version])
       ELSE Set(r, FailTo(r))
    /\ UNCHANGED <<owners, cancelled>> /\ Quiet

PrepareLate(r) ==
    /\ ex[r].pc = "preparing" /\ ex[r].late
    /\ coord' = "free" /\ Set(r, FailTo(r))
    /\ UNCHANGED <<owners, cancelled>> /\ Quiet

\* Polling the TLS connection signs with the key: the effect is marked first.
PollTls(r) ==
    /\ ex[r].pc = "tls" /\ Live(r)
    /\ \E to \in {"tls", "http", "closing"} :
           Set(r, [ex[r] EXCEPT !.pc = to, !.effect = TRUE, !.signed = TRUE,
                                !.result = IF to = "closing" THEN "error" ELSE @])
    /\ UNCHANGED <<coord, owners, cancelled>> /\ Quiet

\* The connection driver is polled with every poll of the response.
DriverEnds(r) ==
    /\ ex[r].pc \in {"response", "body"} /\ Live(r) /\ ex[r].driver = "running"
    /\ \E d \in {"done", "failed"} : Set(r, [ex[r] EXCEPT !.driver = d])
    /\ UNCHANGED <<coord, owners, cancelled>> /\ Quiet

\* Headers: a redirect, a reflected key or a driver that ended fail.
PollResponse(r) ==
    /\ ex[r].pc = "response" /\ Live(r)
    /\ \/ Set(r, [ex[r] EXCEPT !.pc = "body"])
       \/ Set(r, FailTo(r))
    /\ UNCHANGED <<coord, owners, cancelled>> /\ Quiet

\* One frame of the body; what was gathered may not outgrow the limit.
PollFrame(r) ==
    /\ ex[r].pc = "body" /\ Live(r)
    /\ \E f \in Frames :
           IF Len(ex[r].body) + Len(f) > MaxBody
           THEN Set(r, FailTo(r))
           ELSE Set(r, [ex[r] EXCEPT !.body = @ \o f])
    /\ UNCHANGED <<coord, owners, cancelled>> /\ Quiet

\* A reflected trailer, a transport error, or a driver gone while pending.
PollFails(r) ==
    /\ ex[r].pc = "body" /\ Live(r)
    /\ Set(r, FailTo(r))
    /\ UNCHANGED <<coord, owners, cancelled>> /\ Quiet

\* The end of the body: the driver must not have failed, and the whole body
\* is screened; what fits the metadata limits is the outcome.
Accepted(r) == ex[r].driver # "failed" /\ ~Reflects(ex[r].body)

BodyEnds(r) ==
    /\ ex[r].pc = "body" /\ Live(r)
    /\ \/ /\ Accepted(r)
          /\ Set(r, [ex[r] EXCEPT !.pc = "closing", !.result = "ok"])
       \/ Set(r, FailTo(r))
    /\ UNCHANGED <<coord, owners, cancelled>> /\ Quiet

\* Protocol owners, key and TCP close, and only then the owner is removed.
DropKey(r) ==
    /\ ex[r].pc = "closing"
    /\ Set(r, [ex[r] EXCEPT !.pc = "closed", !.key = 0])
    /\ owners' = owners \ {r} /\ cancelled' = cancelled \ {r}
    /\ UNCHANGED coord /\ Quiet

\* The terminal row, and the answer the caller gets.
Finish(r) ==
    /\ ex[r].pc = "closed"
    /\ Set(r, [ex[r] EXCEPT !.pc = "done",
           !.row = IF ex[r].result = "ok" THEN "finished"
                   ELSE IF ex[r].effect THEN "indeterminate" ELSE "blocked",
           !.answer = IF ex[r].result = "ok" /\ ~ex[r].late THEN "ok"
                      ELSE "error"])
    /\ UNCHANGED <<coord, owners, cancelled>> /\ Quiet

Late(r) ==
    /\ CanLate /\ ex[r].pc \notin {"new", "done"} /\ ~ex[r].late
    /\ Set(r, [ex[r] EXCEPT !.late = TRUE])
    /\ UNCHANGED <<coord, owners, cancelled>> /\ Quiet

----------------------------------------------------------------------------
(* The administrator.                                                      *)

Still == UNCHANGED <<lifecycle, expired, ex>>

\* A request holds the coordinator from its check of the phase to its answer.
Begin(op, on) ==
    /\ adm.pc = "idle" /\ ops < MaxOps /\ coord = "free" /\ phase = "running"
    /\ coord' = "admin" /\ ops' = ops + 1
    /\ adm' = [Idle EXCEPT !.op = op, !.on = on, !.pc = "commit"]
    /\ UNCHANGED <<policy, vault, owners, cancelled, answered>> /\ Still

BeginAny ==
    \/ \E c \in Credentials : Begin("rotate", {c}) \/ Begin("revoke", {c})
    \/ Begin("activate", Credentials)

\* What the Authority commits.
Rotates(c) ==
    /\ cred[c].active /\ cred[c].version < MaxVersion
    /\ cred' = [cred EXCEPT ![c].version = @ + 1]
    /\ UNCHANGED stored
Revokes(c) ==
    /\ cred[c].active
    /\ cred' = [cred EXCEPT ![c].active = FALSE]
    /\ UNCHANGED stored
Activates ==
    /\ stored < MaxPolicy /\ stored' = stored + 1 /\ UNCHANGED cred

Commits ==
    \/ adm.op = "rotate" /\ \A c \in adm.on : Rotates(c)
    \/ adm.op = "revoke" /\ \A c \in adm.on : Revokes(c)
    \/ adm.op = "activate" /\ Activates

Commit ==
    /\ adm.pc = "commit" /\ Commits
    /\ adm' = [adm EXCEPT !.pc = "cancel"]
    /\ UNCHANGED <<coord, policy, owners, cancelled, ops, answered>> /\ Still

Refuse ==
    /\ adm.pc = "commit"
    /\ adm' = Idle /\ coord' = "free"
    /\ UNCHANGED <<policy, vault, owners, cancelled, ops, answered>> /\ Still

\* authority_until gives up: the coordinator is released although the
\* Authority may still commit what is in its mailbox.
CommitLate ==
    /\ CanLate /\ adm.pc = "commit" /\ adm.op # "activate"
    /\ adm' = [adm EXCEPT !.pc = "orphan"] /\ coord' = "free"
    /\ UNCHANGED <<policy, vault, owners, cancelled, ops, answered>> /\ Still

Orphan ==
    /\ adm.pc = "orphan" /\ adm' = Idle
    /\ Commits \/ UNCHANGED vault
    /\ UNCHANGED <<coord, policy, owners, cancelled, ops, answered>> /\ Still

\* A lost reply to an activation is reconciled: the stored policy is read
\* back, published, and the owners are cancelled all the same.
Reconcile ==
    /\ CanLate /\ adm.pc = "commit" /\ adm.op = "activate"
    /\ Activates \/ UNCHANGED vault
    /\ policy' = stored'
    /\ adm' = [adm EXCEPT !.pc = "cancel", !.op = "reconciled"]
    /\ UNCHANGED <<coord, owners, cancelled, ops, answered>> /\ Still

\* cancel_private_credentials_until: every owner of the credential.
Owned == {r \in owners : CredentialOf[r] \in adm.on}

CancelPrivate ==
    /\ adm.pc = "cancel"
    /\ cancelled' = cancelled \cup Owned
    /\ adm' = [adm EXCEPT !.pc = "wait"]
    /\ UNCHANGED <<coord, policy, vault, owners, ops, answered>> /\ Still

AnswerAtOnce ==
    /\ adm.pc = "wait"
    /\ policy' = IF adm.op = "activate" THEN stored ELSE policy
    /\ answered' = IF adm.op = "reconciled" THEN answered
                   ELSE answered \cup
                        {[op |-> adm.op, on |-> c, version |-> cred[c].version,
                          policy |-> stored] : c \in adm.on}
    /\ adm' = Idle /\ coord' = "free"
    /\ UNCHANGED <<vault, owners, cancelled, ops>> /\ Still

\* The answer: the owners have closed.  An activation is published last.
Answer ==
    /\ adm.pc = "wait" /\ Owned = {}
    /\ policy' = IF adm.op = "activate" THEN stored ELSE policy
    /\ answered' = IF adm.op = "reconciled" THEN answered
                   ELSE answered \cup
                        {[op |-> adm.op, on |-> c, version |-> cred[c].version,
                          policy |-> stored] : c \in adm.on}
    /\ adm' = Idle /\ coord' = "free"
    /\ UNCHANGED <<vault, owners, cancelled, ops>> /\ Still

\* The owners did not close in time: no success, the cancellation stands.
WaitLate ==
    /\ CanLate /\ adm.pc = "wait" /\ Owned # {}
    /\ adm' = Idle /\ coord' = "free"
    /\ UNCHANGED <<policy, vault, owners, cancelled, ops, answered>> /\ Still

----------------------------------------------------------------------------
(* The broker's lifecycle around them.                                     *)

Unowned == UNCHANGED <<vault, owners, cancelled, ex, admin>>

InFlight == {r \in Requests : ex[r].pc \notin {"new", "done"}}

\* A drain holds the coordinator while it waits for executions; when they do
\* not end by themselves it signals cancellation.
Drain ==
    /\ CanFault /\ phase = "running" /\ coord = "free"
    /\ phase' = "draining" /\ coord' = "drain"
    /\ UNCHANGED <<open, stop, policy, expired>> /\ Unowned

SignalCancel ==
    /\ coord = "drain" /\ InFlight # {} /\ ~stop
    /\ stop' = TRUE
    /\ UNCHANGED <<phase, open, coord, policy, expired>> /\ Unowned

Drained ==
    /\ coord = "drain" /\ InFlight = {}
    /\ phase' = "locked" /\ policy' = 0 /\ coord' = "free"
    /\ UNCHANGED <<open, stop, expired>> /\ Unowned

\* close_fault_admission needs no coordinator.
Fault ==
    /\ CanFault /\ open
    /\ open' = FALSE /\ stop' = TRUE
    /\ UNCHANGED <<phase, coord, policy, expired>> /\ Unowned

Expire ==
    /\ CanFault /\ expired' = expired \cup {stored} /\ stored \notin expired
    /\ UNCHANGED <<lifecycle, coord, policy>> /\ Unowned

----------------------------------------------------------------------------

Execution(r) ==
    \/ Admit(r) \/ Register(r) \/ NotRegistered(r) \/ GateRefuses(r)
    \/ Step(r) \/ PrepareEnter(r) \/ PrepareServed(r) \/ PrepareLate(r)
    \/ PollTls(r) \/ DriverEnds(r) \/ PollResponse(r) \/ PollFrame(r)
    \/ PollFails(r) \/ BodyEnds(r) \/ DropKey(r) \/ Finish(r) \/ Late(r)

Administrator ==
    \/ BeginAny \/ Commit \/ Refuse \/ CommitLate \/ Orphan \/ Reconcile
    \/ CancelPrivate \/ Answer \/ WaitLate

Next ==
    \/ \E r \in Requests : Execution(r)
    \/ Administrator
    \/ Drain \/ SignalCancel \/ Drained \/ Fault \/ Expire

Spec == Init /\ [][Next]_vars

----------------------------------------------------------------------------
(* Properties.                                                             *)

\* The registered owners are exactly the executions between registration and
\* close, only they are cancelled, and only they may hold a key; the
\* coordinator has one holder, which is at work.
TypeOK ==
    /\ phase \in {"running", "draining", "locked"}
    /\ coord \in {"free", "admin", "drain"} \cup Requests
    /\ policy \in 0..MaxPolicy /\ stored \in 1..MaxPolicy
    /\ \A c \in Credentials : cred[c].version \in 1..MaxVersion
    /\ owners = {r \in Requests : ex[r].pc \in Owning}
    /\ cancelled \subseteq owners
    /\ \A r \in Requests :
           /\ (ex[r].key # 0) => r \in owners
           /\ (coord = r) <=> (ex[r].pc = "preparing")
           /\ Len(ex[r].body) <= MaxBody
    /\ (coord = "admin") <=> (adm.pc \in {"commit", "cancel", "wait"})
    /\ (coord = "drain") <=> (phase = "draining")

\* Once a rotation has been answered with success no execution holds an older
\* key of that credential, after a revocation none holds any, and after an
\* activation none holds a key prepared under another policy
\* (cancel_private_credentials_until, registration and preparation under the
\* coordinator, and the order in which owners close).
AnsweredMutationIsFinal ==
    \A r \in Requests, a \in answered :
        (ex[r].key # 0 /\ a.on = CredentialOf[r]) =>
            CASE a.op = "rotate" -> ex[r].key >= a.version
              [] a.op = "revoke" -> FALSE
              [] a.op = "activate" -> ex[r].digest >= a.policy

\* A key that took part in a TLS handshake leaves a row that says so: the
\* terminal row is never "blocked" (Gate::poll marks the effect before the
\* poll, run's choice of the row).
AuthenticationIsRecorded ==
    \A r \in Requests : ex[r].signed => ex[r].row # "blocked"

\* An answer handed to the caller has a complete body without the private
\* key in it, however the frames split it, and its row says finished
\* (execute's screening of the whole body and the driver's result).
DeliveredIsWholeAndSealed ==
    \A r \in Requests :
        ex[r].answer = "ok" =>
            /\ ~Reflects(ex[r].body) /\ ex[r].driver # "failed"
            /\ ex[r].row = "finished"

\* A mutation that waits for the owners of a key is answered although it
\* holds the coordinator every step of theirs waits for, and with no deadline
\* to help: cancellation reaches an owner without the coordinator.
WaitForOwnersEnds == (adm.pc = "wait") ~> (adm.pc = "idle")

\* A drain that found private executions at work gets to its end.
DrainEnds == (phase = "draining") ~> (phase = "locked")
=============================================================================
