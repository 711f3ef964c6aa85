--------------------------- MODULE AdminRequests ---------------------------
(***************************************************************************)
(* The administrator's channel (rekey-broker ipc/admin.rs and ipc/admin/): *)
(* a connection reads one frame at a time, takes a request permit,         *)
(* dispatches the operation, settles a failed one and answers.  An         *)
(* operation is a row of Handler: what it checks, how it waits for the     *)
(* coordinator and which Authority commands and local effects it performs, *)
(* in order.  Not here: METRICS, which only reads counters, and what other *)
(* modules have: OIDC_* (OidcAdmin), PROFILE_SESSION_CREATE                *)
(* (ProfileControl), POLICY_ACTIVATE and POLICY_TRUST_INSTALL              *)
(* (WorkloadAdmission, PolicySnapshots), APPROVAL_EXTERNAL_SUBMIT          *)
(* (LocalCalls).  The Authority is one worker behind a first-in-first-out  *)
(* queue; a caller that gives up leaves its command in it.                 *)
(***************************************************************************)
EXTENDS Integers, Sequences, FiniteSets, TLC, SequencesExt

CONSTANTS Conns,
          Operations,   \* the operations the clients send in this instance
          Permits,      \* admin_requests
          CatalogMax,   \* entries that fit a list response
          MaxRequests,  \* bound: requests in all
          Faults,       \* whether commits may fail and settlements time out
          Deadlines     \* whether ADMIN_MUTATION_TIMEOUT may pass

AdminAssumption ==
    /\ Permits \in Nat \ {0} /\ CatalogMax \in Nat /\ MaxRequests \in Nat \ {0}
    /\ Faults \in BOOLEAN /\ Deadlines \in BOOLEAN

-----------------------------------------------------------------------------
(* The handlers.                                                           *)
(*                                                                         *)
(* early: the phase is checked before the coordinator too.                 *)
(* coord: until the deadline, without one, an attempt only, or not at all. *)
(* gate:  Running only, Running or Locked, any, or Locked only.            *)
(* wait:  whether a command is given up at the deadline (authority_until)  *)
(*        or its definitive result is awaited.                             *)
(* steps: commands of the Authority and effects of the broker.             *)

Row(e, c, g, w, s) == [early |-> e, coord |-> c, gate |-> g, wait |-> w, steps |-> s]
Mutation(s) == Row(FALSE, "until", "running", "until", s)
Checked(s) == Row(TRUE, "until", "running", "until", s)

DesktopHandlers ==
    "DESKTOP_REMEMBER" :> Row(FALSE, "until", "running", "definite", <<"mutate">>)
    @@ "DESKTOP_LOCK" :> Row(FALSE, "until", "any", "definite", <<"privacy">>)
    @@ "DESKTOP_ADD" :> Mutation(<<"list", "fits", "add">>)
    @@ "DESKTOP_REVEAL" :> Mutation(<<"read">>)

UnlockHandlers ==
    "UNLOCK_PASSWORD" :> Row(FALSE, "try", "busy", "definite", <<"unlock", "activate">>)
    @@ "UNLOCK_RECOVERY" :> Row(FALSE, "try", "busy", "definite", <<"unlock", "activate">>)
    @@ "DESKTOP_LOGIN" :> Row(FALSE, "try", "busy", "definite", <<"unlock", "activate", "read">>)
    @@ "DESKTOP_RESUME" :> Row(FALSE, "try", "busy", "definite", <<"unlock", "undo", "issue", "activate">>)

\* A confirmed rollback leaves a drained, locked vault.
RollbackHandlers ==
    "ROLLBACK_CONFIRM" :> Row(FALSE, "until", "busy", "until",
                              <<"suspected", "drain", "lock", "locked", "confirm">>)

StatusHandlers ==
    "STATUS" :> Row(FALSE, "always", "any", "definite", <<"read">>)
    @@ "PASSIVE_STATUS" :> Row(FALSE, "always", "any", "definite", <<"read">>)

CredentialAddHandlers ==
    "CREDENTIAL_ADD" :> Checked(<<"verify", "check", "list", "fits", "add">>)

OAuthLoginHandlers ==
    "OAUTH_LOGIN" :> Row(FALSE, "until", "running", "until", <<"verify", "check", "record">>)

CredentialListHandlers ==
    "CREDENTIAL_LIST" :> Row(FALSE, "always", "any", "definite", <<"list">>)

CredentialRotateHandlers ==
    "CREDENTIAL_ROTATE" :> Checked(<<"list", "check", "mutate">>)
    @@ "CREDENTIAL_ROTATE_MTLS" :> Mutation(<<"mutate", "cancel">>)

PkiHandlers ==
    "PKI_GENERATE_CRL" :> Checked(<<"mutate">>)
    @@ "PKI_REVOKE_CERTIFICATE" :> Checked(<<"mutate">>)
    @@ "PKI_ISSUE_CLIENT_CSR" :> Checked(<<"mutate">>)
    @@ "CREDENTIAL_ROTATE_CA" :> Checked(<<"mutate">>)

GitHubHandlers ==
    "CREDENTIAL_ROTATE_GITHUB_APP" :> Checked(<<"verify", "list", "check", "mutate">>)
    @@ "GITHUB_WEBHOOK_APPLY" :> Checked(<<"verify", "check", "read", "check", "mutate">>)

SourceHandlers ==
    [m \in {"KEYCLOAK", "VAULT_KV", "GCP_SECRET_MANAGER", "AZURE_KEY_VAULT",
            "ONEPASSWORD_CONNECT", "AWS_SECRETS_MANAGER", "VAULT_DYNAMIC"} |->
        Checked(<<"verify", "list", "check", "mutate">>)]
    @@ "CREDENTIAL_ROTATE_MACOS_KEYCHAIN" :> Checked(<<"mutate">>)

CredentialRevokeHandlers ==
    "CREDENTIAL_REVOKE" :> Checked(<<"read", "mutate", "cut", "cancel">>)

TemplateHandlers ==
    "TEMPLATE_CATALOG" :> Row(FALSE, "until", "busy", "until", <<"read">>)
    @@ "TEMPLATE_INSTALL" :> Mutation(<<"install">>)

ActionHandlers ==
    "ACTION_CREATE" :> Mutation(<<"read", "check", "mutate">>)
    @@ "ACTION_UPDATE" :> Mutation(<<"read", "check", "mutate">>)
    @@ "ACTION_DISABLE" :> Mutation(<<"disable", "cut">>)
    @@ "ACTION_LIST" :> Row(FALSE, "always", "any", "definite", <<"read">>)

SessionCreateHandlers ==
    "SESSION_CREATE" :> Checked(<<"verify", "active", "late", "admit", "created", "intime">>)

SessionRevokeHandlers ==
    "SESSION_REVOKE" :> Checked(<<"verify", "late", "revoke", "revoked", "late">>)

PasswordHandlersUntil ==
    [m \in {"PASSWORD_CHANGE", "RECOVERY_ROTATE", "KEY_ROTATE_DEK", "KEY_ROTATE_VRK"} |->
        Checked(<<"factor">>)]
PasswordHandlers ==
    "PASSWORD_CHANGE" :> Row(TRUE, "until", "running", "definite", <<"factor">>)
    @@ "RECOVERY_ROTATE" :> Row(TRUE, "until", "running", "definite", <<"factor">>)
    @@ "KEY_ROTATE_DEK" :> Row(TRUE, "until", "running", "definite", <<"factor">>)
    @@ "KEY_ROTATE_VRK" :> Row(FALSE, "until", "locked", "definite", <<"factor">>)

AuditHandlers ==
    "AUDIT_QUERY" :> Row(FALSE, "always", "any", "definite", <<"read">>)
    @@ "AUDIT_PRUNE" :> Row(TRUE, "until", "running", "definite", <<"mutate">>)
    @@ "AUDIT_RETENTION_SET" :> Row(TRUE, "until", "running", "definite", <<"mutate">>)
    @@ "AUDIT_RETENTION_STATUS" :> Row(FALSE, "always", "busy", "definite", <<"read">>)

ApprovalHandlers ==
    "APPROVAL_ORIGIN" :> Row(TRUE, "always", "running", "definite", <<"read">>)
    @@ "APPROVAL_LOCAL_REVIEW" :> Mutation(<<>>)
    @@ "APPROVAL_PENDING" :> Row(TRUE, "always", "running", "definite", <<>>)
    @@ "APPROVAL_GET" :> Row(TRUE, "always", "running", "definite", <<"read">>)

\* A decision at the owner's own prompt, with or without a window.
DecisionHandlers ==
    "APPROVAL_LOCAL_REJECT" :> Mutation(<<"check", "decide", "publish">>)
    @@ "APPROVAL_LOCAL_APPROVE" :> Mutation(<<"check", "decide", "window", "publish">>)

PolicyHandlers ==
    "PERSONAL_POLICY_DRAFT" :> Mutation(<<"read", "list", "read", "late">>)
    @@ "PROFILE_LIST" :> Mutation(<<"read">>)
    @@ "PROFILE_GET" :> Row(FALSE, "until", "any", "until", <<>>)
    @@ "POLICY_STATUS" :> Row(FALSE, "always", "any", "definite", <<"read">>)

AccessHandlers == "ACCESS_RESOLVE" :> Mutation(<<"verify", "check", "record">>)
ImportHandlers == "IMPORT_ENV" :> Mutation(<<"add">>)
RewriteHandlers == "IMPORT_ENV_REWRITE" :> Mutation(<<"verify", "check", "record", "rewrite", "rewritten">>)
SshHandlers == "SSH_KEY" :> Mutation(<<"add">>)

BackupHandlers ==
    "BACKUP" :> Row(TRUE, "always", "running", "definite", <<"mutate">>)

LockHandlers == "LOCK" :> Row(FALSE, "until", "any", "definite", <<"drain", "lock", "locked">>)

ShutdownHandlers == "SHUTDOWN" :> Row(FALSE, "none", "any", "definite", <<"stop", "stopped">>)

Handler ==
    DesktopHandlers @@ UnlockHandlers @@ RollbackHandlers @@ DecisionHandlers @@ StatusHandlers @@ CredentialAddHandlers
    @@ OAuthLoginHandlers @@ CredentialListHandlers @@ CredentialRotateHandlers @@ PkiHandlers
    @@ GitHubHandlers @@ SourceHandlers @@ CredentialRevokeHandlers @@ TemplateHandlers
    @@ ActionHandlers @@ SessionCreateHandlers @@ SessionRevokeHandlers @@ PasswordHandlers
    @@ AuditHandlers @@ ApprovalHandlers @@ PolicyHandlers @@ AccessHandlers @@ ImportHandlers
    @@ RewriteHandlers @@ SshHandlers @@ BackupHandlers @@ LockHandlers @@ ShutdownHandlers

OperationsAssumption == Operations \subseteq DOMAIN Handler

-----------------------------------------------------------------------------

VARIABLES conn,      \* the connections; one that has ended makes room for another
          req,       \* what became of every request
          next,      \* the next request's number
          coord,     \* the request that owns the coordinator, or 0
          late,      \* requests whose deadline has passed
          queue,     \* the Authority's commands: [id, cmd]
          begun,     \* the first of them has passed its checks and is being committed
          vault,     \* the Authority's state
          phase,     \* BrokerPhase
          stopping,  \* a fault or a shutdown was requested
          shut,      \* the shutdown notice is published
          sessions,  \* the registry, by the request that created them
          journal,   \* audit rows about sessions
          disabled,  \* the Action is disabled
          catalog    \* credentials in the list

vars == <<conn, req, next, coord, late, queue, begun, vault, phase, stopping, shut, sessions,
          journal, disabled, catalog>>
broker == <<phase, stopping, shut, sessions>>
store == <<begun, vault, journal, disabled, catalog>>

Requests == 1..MaxRequests
NoReply == [res |-> "none", n |-> 0]
Idle == [pc |-> "idle", id |-> 0, k |-> 1, arg |-> 0, reply |-> NoReply, res |-> "none",
         fault |-> FALSE, handler |-> Row(FALSE, "none", "any", "definite", <<>>)]
NoRequest == [op |-> "none", res |-> "none", done |-> FALSE, over |-> FALSE]

Init ==
    /\ conn = [c \in Conns |-> Idle]
    /\ req = [i \in Requests |-> NoRequest]
    /\ next = 1 /\ coord = 0 /\ late = {} /\ queue = <<>> /\ begun = FALSE
    /\ vault = "unlocked" /\ phase = "running" /\ stopping = FALSE /\ shut = FALSE
    /\ sessions = {} /\ journal = {} /\ disabled = FALSE /\ catalog = 0

Op(c) == req[conn[c].id].op
H(c) == conn[c].handler
Busy == {c \in Conns : conn[c].pc # "idle"}
Late(c) == conn[c].id \in late
Running == phase = "running"

\* The owner of the coordinator is dropped with the dispatch.
Freed(c) == IF coord = conn[c].id THEN 0 ELSE coord

\* A deadline is of interest while its request or its command is there.
Pending(i) == \E k \in 1..Len(queue) : queue[k].id = i
Forget(i) == late' = IF Pending(i) THEN late ELSE late \ {i}
ForgetTaken ==
    late' = IF \E c \in Conns : conn[c].id = Head(queue).id THEN late
            ELSE late \ {Head(queue).id}

-----------------------------------------------------------------------------
(* Reading a frame, the permit, the checks and the coordinator. *)

\* The dispatch has ended with r; only an error of the Authority's is settled.
Settled == {"busy", "error"}
Settles(r) == r \in Settled

End(c, r) ==
    /\ conn' = [conn EXCEPT ![c].pc = IF Settles(r) THEN "settle" ELSE "answer",
                            ![c].res = r, ![c].reply = NoReply]
    /\ coord' = Freed(c)

\* A frame is read, checked and decoded without an await.  A malformed one is
\* answered and changes nothing.  A session's random identifier is known once its
\* creation was recorded; any other (0) names no session.
Read(c, op, arg) ==
    /\ conn[c].pc = "idle" /\ ~shut /\ next <= MaxRequests
    /\ (arg # 0 => op = "SESSION_REVOKE" /\ <<"created", arg>> \in journal)
    /\ next' = next + 1
    /\ IF Cardinality(Busy) = Permits
       THEN /\ req' = [req EXCEPT ![next] = [NoRequest EXCEPT !.op = op, !.res = "refused"]]
            /\ UNCHANGED conn
       ELSE /\ req' = [req EXCEPT ![next].op = op]
            /\ LET h == Handler[op] IN
               conn' = [conn EXCEPT ![c] =
                           IF h.early /\ ~Running
                           THEN [Idle EXCEPT !.pc = "answer", !.id = next, !.res = "refused"]
                           ELSE [Idle EXCEPT !.pc = IF h.coord = "none" THEN "at" ELSE "waiting",
                                             !.id = next, !.arg = arg, !.handler = h]]
    /\ UNCHANGED <<coord, late, queue, broker, store>>

Admitted(g) ==
    CASE g = "running" -> Running
      [] g = "busy"    -> phase \in {"running", "locked"} /\ ~stopping
      [] g = "locked"  -> phase = "locked" /\ ~stopping
      [] g = "any"     -> TRUE

Coordinate(c) ==
    /\ conn[c].pc = "waiting" /\ coord = 0
    /\ IF Admitted(H(c).gate)
       THEN conn' = [conn EXCEPT ![c].pc = "at"] /\ coord' = conn[c].id
       ELSE End(c, IF H(c).gate = "locked" THEN "invalid" ELSE "refused")
    /\ UNCHANGED <<req, next, late, queue, broker, store>>

\* coordinate_until at its deadline, and try_coordinate on a held coordinator.
CoordinateRefused(c) ==
    /\ conn[c].pc = "waiting"
    /\ \/ H(c).coord = "until" /\ Late(c)
       \/ H(c).coord = "try" /\ coord # 0
    /\ End(c, "refused")
    /\ UNCHANGED <<req, next, late, queue, broker, store>>

-----------------------------------------------------------------------------
(* The steps of a handler. *)

Commands == {"verify", "list", "read", "active", "mutate", "add", "disable", "install",
             "factor", "privacy", "record", "unlock", "lock", "created", "revoked",
             "rewritten", "decide", "window", "suspected", "confirm", "issue"}
AwaitedAudits == {"created", "revoked", "record", "rewritten"}

\* A failure of these closes the broker, and of these leaves the outcome open.
Fatal == {"created", "revoked", "rewritten", "window", "intime", "issue"}
Unconfirming == {"rewritten", "decide", "window"}

Step(c) == IF conn[c].k <= Len(H(c).steps) THEN H(c).steps[conn[c].k] ELSE "end"
AtStep(c, s) == conn[c].pc = "at" /\ Step(c) = s
Advance(c) == conn' = [conn EXCEPT ![c].k = @ + 1, ![c].pc = "at"]

Definite(c) == H(c).wait = "definite" \/ Step(c) \in AwaitedAudits

Send(c) ==
    /\ conn[c].pc = "at" /\ Step(c) \in Commands
    /\ queue' = Append(queue, [id |-> conn[c].id, cmd |-> Step(c)])
    /\ conn' = [conn EXCEPT ![c].pc = "sent", ![c].reply = NoReply]
    /\ UNCHANGED <<req, next, coord, late, broker, store>>

\* close_fault_admission, and the fault's stop command.
Faulted == stopping' = TRUE /\ sessions' = {} /\ UNCHANGED <<phase, shut>>

\* What was done is taken back, then r is told.
TakeBack(c, cmd, r) ==
    /\ queue' = Append(queue, [id |-> conn[c].id, cmd |-> cmd])
    /\ conn' = [conn EXCEPT ![c].pc = "sent", ![c].reply = NoReply, ![c].res = r]

\* A step has failed with r.  An unlock without a desktop session is locked
\* again; a decision that is not made for sure is not told to be retried.
Fail(c, r) ==
    IF Step(c) = "issue" /\ conn[c].res = "none"
    THEN TakeBack(c, "lock", r) /\ UNCHANGED <<coord, broker>>
    ELSE /\ End(c, IF Step(c) \in Unconfirming /\ (r = "busy" \/ Step(c) # "decide")
                   THEN "unconfirmed" ELSE r)
         /\ IF Step(c) \in Fatal THEN Faulted ELSE UNCHANGED broker
         /\ UNCHANGED queue

\* The queue is full: nothing was sent.
SendRefused(c) ==
    /\ conn[c].pc = "at" /\ Step(c) \in Commands /\ queue # <<>> /\ Fail(c, "busy")
    /\ UNCHANGED <<req, next, late, store>>

\* authority_until: the command stays in the queue.
GiveUp(c) ==
    /\ conn[c].pc = "sent" /\ conn[c].reply = NoReply /\ ~Definite(c) /\ Late(c)
    /\ Fail(c, "busy")
    /\ UNCHANGED <<req, next, late, store>>

Reply(c) ==
    /\ conn[c].pc = "sent" /\ conn[c].reply # NoReply
    /\ \/ /\ conn[c].reply.res = "ok"
          /\ IF conn[c].res # "none" THEN End(c, conn[c].res) ELSE Advance(c) /\ UNCHANGED coord
          /\ UNCHANGED <<broker, queue>>
       \/ conn[c].reply.res # "ok" /\ Fail(c, conn[c].reply.res)
    /\ UNCHANGED <<req, next, late, store>>

\* A local validation: of a profile, a catalogue, an active policy.
Check(c) ==
    /\ AtStep(c, "check")
    /\ (Advance(c) /\ UNCHANGED coord) \/ End(c, "invalid")
    /\ UNCHANGED <<req, next, late, queue, broker, store>>

\* ensure_credential_catalog_fits: the list with one more entry.
Fits(n) == n + 1 <= CatalogMax

CheckFits(c) ==
    /\ AtStep(c, "fits")
    /\ IF Fits(conn[c].reply.n) THEN Advance(c) /\ UNCHANGED coord ELSE End(c, "invalid")
    /\ UNCHANGED <<req, next, late, queue, broker, store>>

RejectIfLate(c) ==
    /\ AtStep(c, "late")
    /\ IF Late(c) THEN End(c, "busy") ELSE Advance(c) /\ UNCHANGED coord
    /\ UNCHANGED <<req, next, late, queue, broker, store>>

Admit(c) ==
    /\ AtStep(c, "admit")
    /\ IF stopping
       THEN End(c, "error") /\ UNCHANGED broker
       ELSE /\ sessions' = sessions \cup {conn[c].id} /\ Advance(c)
            /\ UNCHANGED <<coord, phase, stopping, shut>>
    /\ UNCHANGED <<req, next, late, queue, store>>

\* A session that was recorded too late is withdrawn, and that is recorded.
InTime(c) ==
    /\ AtStep(c, "intime")
    /\ IF Late(c)
       THEN sessions' = sessions \ {conn[c].id} /\ TakeBack(c, "withdrawn", "busy")
       ELSE Advance(c) /\ UNCHANGED <<sessions, queue>>
    /\ UNCHANGED <<req, next, coord, late, phase, stopping, shut, store>>

\* A ticket's unlock that came too late is locked again.
Undo(c) ==
    /\ AtStep(c, "undo")
    /\ IF Late(c)
       THEN TakeBack(c, "lock", "busy") ELSE Advance(c) /\ UNCHANGED queue
    /\ UNCHANGED <<req, next, coord, late, broker, store>>

\* decide of the local calls: what was recorded is published in time, or the
\* request is cancelled as unconfirmed.
Publish(c) ==
    /\ AtStep(c, "publish")
    /\ IF Late(c) THEN End(c, "unconfirmed") ELSE Advance(c) /\ UNCHANGED coord
    /\ UNCHANGED <<req, next, late, queue, broker, store>>

Revoke(c) ==
    /\ AtStep(c, "revoke")
    /\ sessions' = sessions \ {conn[c].arg} /\ Advance(c)
    /\ UNCHANGED <<req, next, coord, late, queue, phase, stopping, shut, store>>

\* revoke_by_actions: every session of the model pins the Action.
Cut(c) ==
    /\ AtStep(c, "cut")
    /\ sessions' = {} /\ Advance(c)
    /\ UNCHANGED <<req, next, coord, late, queue, phase, stopping, shut, store>>

\* cancel_private_credentials_until
CancelOwners(c) ==
    /\ AtStep(c, "cancel")
    /\ \/ Advance(c) /\ UNCHANGED coord
       \/ Late(c) /\ End(c, "busy")
    /\ UNCHANGED <<req, next, late, queue, broker, store>>

Rewrite(c) ==
    /\ AtStep(c, "rewrite")
    /\ \/ Advance(c) /\ req' = [req EXCEPT ![conn[c].id].done = TRUE] /\ UNCHANGED coord
       \/ End(c, "error") /\ UNCHANGED req
    /\ UNCHANGED <<next, late, queue, broker, store>>

\* run_drain_lock, enter_locked and enter_running; Broker has their details.
Drain(c) ==
    /\ AtStep(c, "drain") /\ sessions' = {} /\ Advance(c)
    /\ phase' = IF phase = "running" THEN "draining" ELSE phase
    /\ UNCHANGED <<req, next, coord, late, queue, stopping, shut, store>>

Locked(c) ==
    /\ AtStep(c, "locked") /\ Advance(c)
    /\ phase' = IF phase = "stopped" THEN phase ELSE "locked"
    /\ UNCHANGED <<req, next, coord, late, queue, stopping, shut, sessions, store>>

Activate(c) ==
    /\ AtStep(c, "activate")
    /\ IF stopping
       THEN End(c, "error") /\ UNCHANGED phase
       ELSE Advance(c) /\ phase' = "running" /\ UNCHANGED coord
    /\ UNCHANGED <<req, next, late, queue, stopping, shut, sessions, store>>

\* The stop command with its proof; the reply comes when the stop is complete.
Stop(c) ==
    /\ AtStep(c, "stop")
    /\ \/ Advance(c) /\ stopping' = TRUE /\ sessions' = {} /\ UNCHANGED coord
       \/ End(c, "error") /\ UNCHANGED <<stopping, sessions>>
    /\ UNCHANGED <<req, next, late, queue, phase, shut, store>>

Stopped(c) ==
    /\ AtStep(c, "stopped") /\ shut /\ Advance(c)
    /\ UNCHANGED <<req, next, coord, late, queue, broker, store>>

Complete(c) ==
    /\ AtStep(c, "end") /\ End(c, "ok")
    /\ UNCHANGED <<req, next, late, queue, broker, store>>

-----------------------------------------------------------------------------
(* The Authority's worker.  It answers whoever still waits. *)

Cmd == Head(queue).cmd
Answered(r, n) ==
    [c \in Conns |-> IF conn[c].pc \in {"sent", "settling"} /\ conn[c].id = Head(queue).id
                     THEN [conn[c] EXCEPT !.reply = [res |-> r, n |-> n]]
                     ELSE conn[c]]

NotAfter == {"mutate", "add", "disable", "install", "factor", "privacy", "created", "revoked",
             "decide", "window", "confirm"}
Changing == NotAfter \cup {"record", "rewritten", "withdrawn"}
NeedUnlocked == {"mutate", "add", "disable", "install", "decide"}

\* A command that is refused, or that only reads.
WorkerAnswers(r) ==
    /\ queue # <<>> /\ ~begun /\ queue' = Tail(queue)
    /\ CASE r = "ok" -> /\ Cmd \in {"verify", "list", "read", "active", "suspected", "issue"}
                        /\ vault # "faulted"
                        /\ (Cmd = "suspected" => vault = "rollback-suspected")
                        /\ (Cmd = "active" => vault = "unlocked" /\ ~disabled)
         [] r = "invalid" -> Cmd = "active" /\ disabled
         [] r = "error" -> Cmd \notin {"created", "revoked", "withdrawn", "status"}
                           \/ (vault = "faulted" /\ Cmd # "status")
         [] r = "busy" -> /\ Head(queue).id \in late
                          /\ Cmd \in NotAfter
    /\ conn' = Answered(r, catalog)
    /\ ForgetTaken
    /\ UNCHANGED <<req, next, coord, broker, store>>

Event(cmd, i) ==
    IF cmd = "created" THEN {<<"created", i>>}
    ELSE IF cmd = "withdrawn" THEN {<<"revoked", i>>} ELSE {}

RevokedBy(i) == {<<"revoked", conn[c].arg>> : c \in {c \in Conns : conn[c].id = i}}

\* The deadline is looked at before the commit, and may pass during it.
WorkerBegins ==
    /\ queue # <<>> /\ ~begun /\ begun' = TRUE
    /\ Cmd \in NotAfter /\ Head(queue).id \notin late
    /\ vault # "faulted" /\ (Cmd \in NeedUnlocked => vault = "unlocked")
    /\ (Cmd = "confirm" => vault = "rollback-suspected")
    /\ UNCHANGED <<conn, req, next, coord, late, queue, broker, vault, journal, disabled, catalog>>

Committing ==
    /\ queue # <<>> /\ Cmd \in Changing /\ vault # "faulted" /\ queue' = Tail(queue)
    /\ begun = (Cmd \in NotAfter) /\ begun' = FALSE

\* A privacy lock looks at its deadline again after the commit.
CommitAnswer == IF Cmd = "privacy" /\ Head(queue).id \in late THEN "busy" ELSE "ok"

WorkerCommits ==
    /\ Committing
    /\ LET i == Head(queue).id IN
       /\ req' = [req EXCEPT ![i].done = @ \/ Cmd \notin {"record", "created", "withdrawn"},
                             ![i].over = @ \/ (Cmd = "add" /\ catalog >= CatalogMax)]
       /\ journal' = journal \cup Event(Cmd, i)
                              \cup (IF Cmd = "revoked" THEN RevokedBy(i) ELSE {})
       /\ catalog' = catalog + (IF Cmd = "add" THEN 1 ELSE 0)
       /\ disabled' = (disabled \/ Cmd = "disable")
    /\ conn' = Answered(CommitAnswer, catalog)
    /\ vault' = IF Cmd = "confirm" THEN "locked" ELSE vault
    /\ ForgetTaken
    /\ UNCHANGED <<next, coord, broker>>

\* A commit that fails faults the vault, or makes it suspect a rollback.
WorkerFails ==
    /\ Faults /\ Committing /\ vault' \in {"faulted", "rollback-suspected"}
    /\ conn' = Answered("error", catalog)
    /\ ForgetTaken
    /\ UNCHANGED <<req, next, coord, broker, journal, disabled, catalog>>

WorkerLocks ==
    /\ queue # <<>> /\ queue' = Tail(queue) /\ vault # "faulted"
    /\ \/ Cmd = "lock" /\ vault' = IF vault = "unlocked" THEN "locked" ELSE vault
       \/ Cmd = "unlock" /\ vault \in {"locked", "unlocked"} /\ vault' = "unlocked"
    /\ conn' = Answered("ok", catalog)
    /\ ForgetTaken
    /\ UNCHANGED <<req, next, coord, begun, broker, journal, disabled, catalog>>

\* Authority::status, asked by a settlement.
WorkerStatus ==
    /\ queue # <<>> /\ Cmd = "status" /\ queue' = Tail(queue)
    /\ conn' = Answered(vault, catalog)
    /\ ForgetTaken
    /\ UNCHANGED <<req, next, coord, broker, store>>

Worker ==
    \/ \E r \in {"ok", "invalid", "error", "busy"} : WorkerAnswers(r)
    \/ WorkerBegins \/ WorkerCommits \/ WorkerFails \/ WorkerLocks \/ WorkerStatus

-----------------------------------------------------------------------------
(* settle_failed_admin, the answer, and the end of a connection. *)

SettleAsk(c) ==
    /\ conn[c].pc = "settle" /\ coord = 0 /\ coord' = conn[c].id
    /\ queue' = Append(queue, [id |-> conn[c].id, cmd |-> "status"])
    /\ conn' = [conn EXCEPT ![c].pc = "settling", ![c].reply = NoReply]
    /\ UNCHANGED <<req, next, late, broker, store>>

SettleHealthy(c) ==
    /\ conn[c].pc = "settling" /\ conn[c].reply.res \in {"locked", "unlocked"}
    /\ conn' = [conn EXCEPT ![c].pc = "answer", ![c].reply = NoReply] /\ coord' = Freed(c)
    /\ UNCHANGED <<req, next, late, queue, broker, store>>

\* run_drain_lock under the settlement's coordinator
SettleRollback(c) ==
    /\ conn[c].pc = "settling" /\ conn[c].reply.res = "rollback-suspected"
    /\ conn' = [conn EXCEPT ![c].pc = "answer", ![c].reply = NoReply] /\ coord' = Freed(c)
    /\ sessions' = {} /\ phase' = IF phase = "stopped" THEN phase ELSE "locked"
    /\ UNCHANGED <<req, next, late, queue, stopping, shut, store>>

\* Five seconds have passed, the vault is faulted, or its drain has failed.
SettleFault(c) ==
    /\ \/ conn[c].pc \in {"settle", "settling"} /\ conn[c].reply = NoReply /\ Faults
       \/ conn[c].pc = "settling" /\ conn[c].reply.res \in {"faulted", "rollback-suspected"}
    /\ conn' = [conn EXCEPT ![c].pc = "answer", ![c].fault = TRUE, ![c].reply = NoReply]
    /\ coord' = Freed(c) /\ Faulted
    /\ UNCHANGED <<req, next, late, queue, store>>

\* The answer; a fault is requested after it.
Answer(c) ==
    /\ conn[c].pc = "answer"
    /\ req' = [req EXCEPT ![conn[c].id].res = conn[c].res]
    /\ conn' = [conn EXCEPT ![c] = Idle]
    /\ IF conn[c].fault THEN Faulted ELSE UNCHANGED broker
    /\ Forget(conn[c].id)
    /\ UNCHANGED <<next, coord, queue, store>>

\* The client is gone: nothing is told, the connection ends.
AnswerLost(c) ==
    /\ conn[c].pc = "answer"
    /\ conn' = [conn EXCEPT ![c] = Idle]
    /\ IF conn[c].fault THEN Faulted ELSE UNCHANGED broker
    /\ Forget(conn[c].id)
    /\ UNCHANGED <<req, next, coord, queue, store>>

\* The shutdown notice drops the dispatch, wherever it is.
Dropped(c) ==
    /\ shut /\ conn[c].pc \in {"waiting", "at", "sent", "answer"}
    /\ Op(c) # "SHUTDOWN" /\ ~conn[c].fault
    /\ conn' = [conn EXCEPT ![c] = Idle] /\ coord' = Freed(c)
    /\ Forget(conn[c].id)
    /\ UNCHANGED <<req, next, queue, broker, store>>

\* The central stop, as far as the connections see it.
StopRuntime ==
    /\ stopping /\ ~shut /\ shut' = TRUE /\ phase' = "stopped" /\ sessions' = {}
    /\ UNCHANGED <<conn, req, next, coord, late, queue, stopping, store>>

Deadline(i) ==
    /\ Deadlines /\ i \notin late /\ \E c \in Conns : conn[c].id = i
    /\ late' = late \cup {i}
    /\ UNCHANGED <<conn, req, next, coord, queue, broker, store>>

Steps(c) ==
    \/ Coordinate(c) \/ CoordinateRefused(c)
    \/ Send(c) \/ SendRefused(c) \/ GiveUp(c) \/ Reply(c)
    \/ Check(c) \/ CheckFits(c) \/ RejectIfLate(c) \/ Admit(c) \/ InTime(c) \/ Revoke(c)
    \/ Undo(c) \/ Publish(c)
    \/ Cut(c) \/ CancelOwners(c) \/ Rewrite(c) \/ Drain(c) \/ Locked(c) \/ Activate(c)
    \/ Stop(c) \/ Stopped(c) \/ Complete(c)
    \/ SettleAsk(c) \/ SettleHealthy(c) \/ SettleRollback(c) \/ SettleFault(c)
    \/ Answer(c) \/ AnswerLost(c) \/ Dropped(c)

Next ==
    \/ \E c \in Conns :
          Steps(c) \/ \E op \in Operations, a \in 0..MaxRequests : Read(c, op, a)
    \/ Worker \/ StopRuntime
    \/ \E i \in Requests : Deadline(i)

Spec == Init /\ [][Next]_vars

-----------------------------------------------------------------------------
(* Properties *)

TypeOK ==
    /\ coord \in 0..MaxRequests /\ late \subseteq Requests /\ sessions \subseteq Requests
    /\ \A i \in 1..Len(queue) : queue[i].id \in Requests
    /\ vault \in {"unlocked", "locked", "faulted", "rollback-suspected"}
    /\ phase \in {"running", "draining", "locked", "stopped"}
    /\ \A c \in Conns : conn[c].pc \in {"idle", "waiting", "at", "sent",
                                       "settle", "settling", "answer"}
    /\ \A c \in Conns : conn[c].pc \in {"at", "sent", "settling"} /\ conn[c].id # 0 =>
          coord = conn[c].id \/ Op(c) = "SHUTDOWN" \/ shut

\* "A committed factor change is never reported Busy" (password_lifecycle.rs):
\* whatever is awaited to its definitive result, though the deadline passes in
\* the queue and other requests come and go, is not busy when it was done, and is
\* never done once it was called busy.
FactorChangeNeverBusy ==
    \A i \in Requests :
        req[i].op \in DOMAIN PasswordHandlers /\ req[i].res \in {"busy", "refused"}
            => ~req[i].done

\* A decision on an approval that was recorded is never reported as not made,
\* though its caller gave up, found the queue full or came too late to publish
\* it (connection_approval_decision: busy becomes "outcome is unconfirmed").
DecisionIsNeverDenied ==
    \A i \in Requests :
        req[i].op \in DOMAIN DecisionHandlers /\ req[i].done
            => req[i].res \in {"ok", "unconfirmed", "none"}

\* A session that a client was told of was recorded before; and a session is
\* in the registry without that record only while its request is still at it
\* (SESSION_CREATE: admit, commit_audit_before, revoke on failure).
SessionsAreRecorded ==
    /\ \A i \in Requests :
          req[i].op = "SESSION_CREATE" /\ req[i].res = "ok" => <<"created", i>> \in journal
    /\ \A i \in sessions :
          <<"created", i>> \in journal \/ \E c \in Busy : conn[c].id = i

\* After an Action was disabled, or a session revoked, and the client was told
\* so, no session of it is in the registry, neither one that was being created
\* meanwhile nor one created later (revoke_by_actions, SESSION_REVOKE).
RevocationHolds ==
    /\ (\E i \in Requests : req[i].op = "ACTION_DISABLE" /\ req[i].res = "ok") => sessions = {}
    /\ \A i \in Requests :
          (<<"revoked", i>> \in journal /\ <<"created", i>> \in journal) => i \notin sessions

\* However many additions are in flight, given up or queued, unchecked ones of
\* SSH_KEY and IMPORT_ENV too, an addition that asked whether the list of the
\* credentials still fits its response (ensure_credential_catalog_fits) leaves
\* one that does.
CheckedAddsFit ==
    \A i \in Requests : req[i].op \in {"CREDENTIAL_ADD", "DESKTOP_ADD"} => ~req[i].over

\* A vault that was faulted by the command of an administrator, even one that
\* was given up before, has its broker closed once the requests are over
\* (settle_failed_admin, "Worker errors still reconcile under the coordinator").
\* Only an unconfirmed decision, which is no error of the Authority's for the
\* connection, settles nothing: its fault is left to the next request or to the
\* maintenance of the audit.
FaultIsNoticed ==
    vault = "faulted" /\ Busy = {} =>
        \/ stopping
        \/ \E i \in Requests : /\ req[i].op \in DOMAIN DecisionHandlers
                               /\ req[i].res \in {"unconfirmed", "none"}

====
