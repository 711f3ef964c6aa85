--------------------------- MODULE AuthorityMailbox ---------------------------
(***************************************************************************)
(* The Authority's command queue (rekey-vault handle.rs, command.rs,       *)
(* authority/dispatch.rs and the worker in authority.rs): one thread takes *)
(* bounded, queued commands in order; callers wait for one-shot replies,   *)
(* give up at their deadline, or find the queue full.                      *)
(*                                                                         *)
(* The commands are named as in the code and told apart by what decides    *)
(* how they are sent, checked and counted as activity; what each one does  *)
(* to the records is the subject of the other modules.                     *)
(***************************************************************************)
EXTENDS Integers, Sequences, FiniteSets, SequencesExt, TLAPS

CONSTANTS Callers,
          Calls,       \* the commands that callers send in this instance
          Capacity,    \* queue_capacity
          Free,        \* FREE_UNLOCK_FAILURES
          Base,        \* unlock_backoff_base
          Cap,         \* UNLOCK_BACKOFF_CAP
          IdleLock,    \* idle_lock
          Patience,    \* how far ahead of now a caller sets not_after
          MaxTime,     \* bound: the clock
          MaxGuesses,  \* bound: wrong proofs in a row
          StoreFails   \* whether a commit may fail

ASSUME MailboxAssumption ==
    /\ {Capacity, Free, Base, Cap, IdleLock, Patience, MaxTime, MaxGuesses} \subseteq Nat
    /\ Capacity > 0 /\ StoreFails \in BOOLEAN
    /\ {"none", "tick"} \cap Callers = {}

-----------------------------------------------------------------------------
(* The commands. *)

OAuthCommands == {"OAuthGrantCreate", "OAuthGrantUpdate", "RotateOAuthGrant",
                  "PrepareOAuthGrant", "PrepareAwsStatic"}
SshCommands == {"SshGenerate", "SshImport", "PrepareMtlsConnection", "SshSign",
                "PrepareExecutionCredential", "PrepareCredential"}
HygieneCommands == {"ScanCredentials", "ImportEnv"}
LeaseCommands == {"LeaseAcquireBegin", "LeaseIssued", "LeaseAcquireAbortDefinite",
                  "LeaseRenewBegin", "LeaseRenewResult", "LeaseCleanupPrepare",
                  "LeaseCleanupFinish", "LeaseRecoveryBatch"}
DesktopCommands == {"DesktopRemember", "DesktopLock", "DesktopResume", "DesktopIssue",
                    "DesktopAdd", "DesktopReveal"}
VaultCommands == {"Unlock", "Lock", "Shutdown", "VerifyShutdownProof", "VerifyProof",
                  "AuthorizeLocalApproval", "RotateVrk", "RotateDek", "PasswordChange",
                  "RecoveryRotate"}
StatusCommands == {"Status", "AdminStatus", "ConfirmRollback", "CheckIdle"}
CredentialCommands == {"CredentialAdd", "CredentialList", "CredentialRotate",
                       "CredentialRotateTyped", "PkiGenerateCrl", "PkiRevokeCertificate",
                       "PkiIssueClientCsr", "CredentialRevoke"}
ActionCommands == {"TemplateCatalog", "TemplateInstall", "ActionUpsert", "ActionDisable",
                   "ActionList", "ActionGet", "ActionIdsForCredential"}
UsageCommands == {"BeginProfileExecution", "SettleProfileExecution", "ProfileUsage"}
AuditCommands == {"AppendAudit", "AuditPrune", "AuditRetentionSet", "AuditRetentionStatus",
                  "AuditRetentionMaintenance", "AuditQuery"}
CommitCommands == {"AppendAudits", "CommitAudit", "ConsumeWorkloadToken"}
PolicyCommands == {"PolicyMaterial", "PolicyTrustInstall", "PolicyBundleActivate",
                   "FaultIntegrity"}
OtherCommands == {"Backup", "ApprovalOriginPublicKey", "SignApprovalOrigin"}

AuthorityCommand ==
    OAuthCommands \cup SshCommands \cup HygieneCommands \cup LeaseCommands
    \cup DesktopCommands \cup VaultCommands \cup StatusCommands \cup CredentialCommands
    \cup ActionCommands \cup UsageCommands \cup AuditCommands \cup CommitCommands
    \cup PolicyCommands \cup OtherCommands

ASSUME CommandsAssumption == Calls \subseteq AuthorityCommand

\* Sent with send().await: they wait for room instead of being refused.
WaitForRoom == {"CommitAudit", "SettleProfileExecution"}

\* Those that carry a proof of presence, password or recovery.
Proved ==
    {"OAuthGrantCreate", "OAuthGrantUpdate", "SshGenerate", "SshImport", "ImportEnv",
     "DesktopRemember", "DesktopReveal", "Unlock", "VerifyShutdownProof", "VerifyProof",
     "AuthorizeLocalApproval", "RotateVrk", "RotateDek", "PasswordChange", "RecoveryRotate",
     "CredentialAdd", "CredentialRotate", "CredentialRotateTyped", "CredentialRevoke",
     "PkiGenerateCrl", "PkiRevokeCertificate", "PkiIssueClientCsr", "TemplateInstall",
     "ActionUpsert", "ActionDisable", "AuditPrune", "AuditRetentionSet",
     "PolicyTrustInstall", "PolicyBundleActivate", "Backup", "ConfirmRollback"}

\* Those that need no unlocked vault; RotateVrk needs a locked one.
InAnyState == {"Unlock", "VerifyShutdownProof", "Lock", "Status", "AdminStatus", "CheckIdle",
               "AppendAudit", "AppendAudits", "CommitAudit", "AuditQuery"}

\* What a caller asks to be changed: everything with a proof but an unlock and
\* the mere proofs, and the changes that need none.  A ticket that unlocks or
\* locks (DesktopResume, DesktopLock) is the subject of DesktopUnlock.
Unproved == {"RotateOAuthGrant", "LeaseAcquireBegin", "LeaseIssued", "LeaseAcquireAbortDefinite",
             "LeaseRenewBegin", "LeaseRenewResult", "LeaseCleanupFinish", "DesktopAdd", "SshSign",
             "BeginProfileExecution", "AuditRetentionMaintenance"}

\* These look at their deadline again before they commit.
Mutating == (Proved \ {"Unlock", "VerifyShutdownProof", "VerifyProof"}) \cup Unproved

Records == Mutating \cup {"AppendAudit", "AppendAudits", "CommitAudit", "ConsumeWorkloadToken",
                          "SettleProfileExecution"}

\* Those that commit more than once, or look at the deadline also after they
\* committed: what they did may stand although they answer with an error.
InParts == {"PkiIssueClientCsr", "PkiGenerateCrl", "PkiRevokeCertificate", "DesktopRemember",
            "DesktopReveal", "SshSign", "ImportEnv"}

\* What a success of each command does to the idle clock, arm by arm.
FirstTouching == (OAuthCommands \cup SshCommands \cup HygieneCommands)
                     \ {"PrepareMtlsConnection"}
LeaseTouching == LeaseCommands \ {"LeaseRecoveryBatch"}
DesktopTouching == {"DesktopRemember", "DesktopAdd", "DesktopReveal"}
StatusTouching == {"AdminStatus", "Unlock"}
ProofTouching == {"VerifyProof", "AuthorizeLocalApproval", "RotateDek", "PasswordChange",
                  "RecoveryRotate"}
CredentialTouching == CredentialCommands
ActionTouching == {"TemplateInstall", "ActionUpsert", "ActionDisable", "ActionList"}
UsageTouching == UsageCommands \ {"ProfileUsage"}
AuditTouching == {"CommitAudit", "ConsumeWorkloadToken"}
RetentionTouching == {"AuditRetentionSet", "AuditPrune", "AuditQuery"}
PolicyTouching == {"PolicyMaterial", "PolicyTrustInstall", "PolicyBundleActivate"}
                      \cup OtherCommands

Touching ==
    FirstTouching \cup LeaseTouching \cup DesktopTouching \cup StatusTouching
    \cup ProofTouching \cup CredentialTouching \cup ActionTouching \cup UsageTouching
    \cup AuditTouching \cup RetentionTouching \cup PolicyTouching

-----------------------------------------------------------------------------

VARIABLES now,
          queue,     \* the channel's commands, by caller
          waiting,   \* senders that wait for room, in order
          call,      \* every caller's call
          cur,       \* the command being handled, between its proof and its commit
          checked,   \* its deadline has been looked at again
          vault,     \* VaultState, or "stopped" when the worker has ended
          fails,     \* failed_unlocks
          nextAt,    \* next_unlock_at
          activity,  \* last_activity
          applied,   \* callers whose present command has changed the records
          tried,     \* when the wrong proofs since the last right one were tried
          used       \* when a caller was last served what counts as use

vars == <<now, queue, waiting, call, cur, checked, vault, fails, nextAt, activity, applied, tried,
          used>>

None == "none"
Never == MaxTime + 1
NewCall == [pc |-> "idle", cmd |-> "Status", until |-> Never, good |-> TRUE, res |-> None]

Told(k, r) == [NewCall EXCEPT !.cmd = k, !.res = r]

Init ==
    /\ now = 0 /\ queue = <<>> /\ waiting = <<>> /\ call = [c \in Callers |-> NewCall]
    /\ cur = None /\ checked = FALSE /\ vault = "locked" /\ fails = 0 /\ nextAt = 0 /\ activity = 0
    /\ applied = {} /\ tried = <<>> /\ used = 0

Worker == <<cur, checked, vault, fails, nextAt, activity, tried, used>>

-----------------------------------------------------------------------------
(* Callers. *)

\* The call! macro: refused at once when the queue is full or closed.
TrySend(c, k, u, g) ==
    LET new == [pc |-> "queued", cmd |-> k, until |-> u, good |-> g, res |-> None]
    IN IF vault = "stopped"
       THEN call' = [call EXCEPT ![c] = Told(k, "closed")]
            /\ UNCHANGED <<queue, waiting>>
       ELSE IF Len(queue) >= Capacity
       THEN call' = [call EXCEPT ![c] = Told(k, "busy")]
            /\ UNCHANGED <<queue, waiting>>
       ELSE /\ call' = [call EXCEPT ![c] = new] /\ queue' = Append(queue, c)
            /\ UNCHANGED waiting

\* send().await: in line for the next free place.
Send(c, k, u, g) ==
    IF vault # "stopped" /\ Len(queue) >= Capacity
    THEN /\ call' = [call EXCEPT ![c] = [pc |-> "waiting", cmd |-> k, until |-> u, good |-> g,
                                         res |-> None]]
         /\ waiting' = Append(waiting, c) /\ UNCHANGED queue
    ELSE TrySend(c, k, u, g)

\* not_after, which a backup and what is no change do not have, and which an
\* audit may have.
NotAfter(k) ==
    IF k \in (Mutating \ {"Backup"}) \cup {"ConsumeWorkloadToken"} THEN {now + Patience}
    ELSE IF k \in {"AppendAudit", "AppendAudits"} THEN {now + Patience, Never}
    ELSE {Never}

Call(c) ==
    /\ call[c].pc = "idle"
    /\ \E k \in Calls \ {"CheckIdle"}, g \in BOOLEAN : \E u \in NotAfter(k) :
          /\ k \notin Proved => g
          /\ IF k \in WaitForRoom THEN Send(c, k, u, g) ELSE TrySend(c, k, u, g)
    /\ applied' = applied \ {c}
    /\ UNCHANGED <<now, Worker>>

\* The caller's own timeout, at the deadline it gave or for any other reason.
GiveUp(c) ==
    /\ call[c].pc = "queued"
    /\ call' = [call EXCEPT ![c].pc = "gone"]
    /\ UNCHANGED <<now, queue, waiting, applied, Worker>>

-----------------------------------------------------------------------------
(* The worker. *)

\* The place of the command that was taken goes to the first in line.
Taken ==
    IF waiting = <<>> THEN queue' = Tail(queue) /\ UNCHANGED waiting
    ELSE queue' = Append(Tail(queue), Head(waiting)) /\ waiting' = Tail(waiting)

Arrived(cs) == IF waiting = <<>> THEN cs
               ELSE [cs EXCEPT ![Head(waiting)].pc = IF @ = "waiting" THEN "queued" ELSE @]

\* The reply; nobody listens when the caller is gone.
Reply(c, r) ==
    [call EXCEPT ![c] = Told(@.cmd, IF @.pc = "gone" THEN "unknown" ELSE r)]

Next1 == Head(queue)
Cmd(c) == call[c].cmd

TakeOne ==
    /\ cur = None /\ queue # <<>> /\ vault # "stopped" /\ Next1 \in Callers

Expired(c) == now >= call[c].until

\* A vault that suspects a rollback, the only one ConfirmRollback is for, is in
\* the module of the generations.
Open(c) ==
    \/ vault = "unlocked" /\ Cmd(c) \notin {"RotateVrk", "ConfirmRollback"}
    \/ vault = "locked" /\ Cmd(c) = "RotateVrk"
    \/ Cmd(c) \in InAnyState /\ (vault # "faulted" \/ Cmd(c) \notin {"Unlock", "Lock",
                                     "VerifyShutdownProof", "AuditQuery"})

\* mutation_expired, or a vault that is not open for this command.
RefuseAtDispatch ==
    /\ TakeOne
    /\ Expired(Next1) \/ ~Open(Next1)
    /\ Taken
    /\ call' = Arrived(Reply(Next1, IF Expired(Next1) THEN "busy" ELSE "refused"))
    /\ UNCHANGED <<now, applied, Worker>>

Delay(f) ==
    LET d == Base * 2 ^ (f - Free)
    IN IF f < Free THEN 0 ELSE IF d < Cap THEN d ELSE Cap

\* The delays are durations.
ASSUME DelaysAssumption == \A f \in 0 .. MaxGuesses : Delay(f) \in Nat

RateLimited(c) == now < nextAt

RefuseRate ==
    /\ TakeOne /\ ~Expired(Next1) /\ Open(Next1) /\ Cmd(Next1) \in Proved /\ RateLimited(Next1)
    /\ Taken /\ call' = Arrived(Reply(Next1, "limited"))
    /\ UNCHANGED <<now, applied, Worker>>

\* record_unlock_failure: the delay grows, and the failure is recorded or the
\* vault faults.
WrongProof ==
    /\ TakeOne /\ ~Expired(Next1) /\ Open(Next1) /\ Cmd(Next1) \in Proved
    /\ ~RateLimited(Next1) /\ ~call[Next1].good
    /\ LET f == IF fails < MaxGuesses THEN fails + 1 ELSE fails
       IN /\ fails' = f
          /\ nextAt' = IF f >= Free THEN now + Delay(f) ELSE nextAt
          /\ tried' = IF fails < MaxGuesses THEN Append(tried, now) ELSE tried
    /\ vault' \in {vault} \cup (IF StoreFails THEN {"faulted"} ELSE {})
    /\ Taken /\ call' = Arrived(Reply(Next1, "refused"))
    /\ UNCHANGED <<now, cur, checked, activity, applied, used>>

\* A right proof: the counters start over; an unlock is complete with it, what
\* changes the records goes on to its commit.
RightProof ==
    /\ TakeOne /\ ~Expired(Next1) /\ Open(Next1) /\ Cmd(Next1) \in Proved
    /\ ~RateLimited(Next1) /\ call[Next1].good
    /\ fails' = 0 /\ nextAt' = now /\ tried' = <<>>
    /\ IF Cmd(Next1) \in Mutating
       THEN Taken /\ cur' = Next1 /\ call' = Arrived(call) /\ UNCHANGED <<vault, activity, used>>
       ELSE /\ vault' = IF Cmd(Next1) = "Unlock" THEN "unlocked" ELSE vault
            /\ activity' = IF Cmd(Next1) \in Touching THEN now ELSE activity
            /\ used' = IF Cmd(Next1) \in {"Unlock", "VerifyProof"} THEN now ELSE used
            /\ Taken /\ call' = Arrived(Reply(Next1, "ok")) /\ UNCHANGED cur
    /\ UNCHANGED <<now, applied, checked>>

\* A change that needs no proof goes on in the same way.
TakeUnproved ==
    /\ TakeOne /\ ~Expired(Next1) /\ Open(Next1) /\ Cmd(Next1) \in Unproved
    /\ Taken /\ cur' = Next1 /\ call' = Arrived(call)
    /\ UNCHANGED <<now, applied, checked, vault, fails, nextAt, activity, tried, used>>

\* ensure_mutation_current, and check_deadline of the generation's commit: the
\* last look at the clock before the transaction, which begins after it.
Recheck ==
    /\ cur # None /\ ~checked
    /\ IF Expired(cur) THEN call' = Reply(cur, "busy") /\ cur' = None /\ UNCHANGED checked
       ELSE checked' = TRUE /\ UNCHANGED <<call, cur>>
    /\ UNCHANGED <<now, queue, waiting, vault, fails, nextAt, activity, applied, tried, used>>

CommitBeforeCheck ==
    /\ cur # None /\ checked
    /\ call' = Reply(cur, IF Expired(cur) THEN "busy" ELSE "ok")
    /\ applied' = applied \cup {cur} /\ activity' = now /\ used' = now
    /\ cur' = None /\ checked' = FALSE
    /\ UNCHANGED <<now, queue, waiting, vault, fails, nextAt, tried>>

\* The answer to a change that was made.
Outcomes(c) ==
    IF Cmd(c) \notin InParts THEN {"ok"}
    ELSE {"refused", IF Expired(c) THEN "busy" ELSE "ok"}

\* The transaction; one that fails faults.
Commit ==
    /\ cur # None /\ checked
    /\ \/ /\ vault' = vault /\ applied' = applied \cup {cur}
          /\ \E r \in Outcomes(cur) :
                /\ call' = Reply(cur, r)
                /\ activity' = IF r = "ok" /\ Cmd(cur) \in Touching THEN now ELSE activity
                /\ used' = IF r = "ok" THEN now ELSE used
       \/ /\ StoreFails /\ vault' = "faulted" /\ call' = Reply(cur, "refused")
          /\ UNCHANGED <<activity, applied, used>>
    /\ cur' = None /\ checked' = FALSE
    /\ UNCHANGED <<now, queue, waiting, fails, nextAt, tried>>

\* A command without a proof that is done with the look at its dispatch.
HandlePlain ==
    LET c == Next1
        k == Cmd(c)
    IN /\ TakeOne /\ ~Expired(c) /\ Open(c) /\ k \notin Proved \cup Unproved
       /\ vault' \in IF k = "Lock" THEN {"locked"}
                     ELSE IF k = "Shutdown" /\ call[c].good THEN {"stopped"}
                     ELSE {vault} \cup (IF StoreFails /\ k \in Records THEN {"faulted"} ELSE {})
       /\ applied' = IF k \in Records /\ vault' = vault THEN applied \cup {c} ELSE applied
       /\ activity' = IF k \in Touching /\ vault' = vault /\ vault = "unlocked" THEN now
                      ELSE activity
       /\ used' = IF k \in {"AdminStatus", "CommitAudit"} /\ vault' = vault
                     /\ vault = "unlocked" THEN now ELSE used
       /\ IF vault' = "stopped"
          THEN /\ queue' = <<>> /\ waiting' = <<>>
               /\ call' = [d \in Callers |->
                      IF d = c THEN Reply(c, "ok")[d]
                      ELSE IF call[d].pc = "idle" THEN call[d]
                      ELSE Told(call[d].cmd, "closed")]
          ELSE Taken /\ call' = Arrived(Reply(c, IF vault' = "faulted" /\ vault # "faulted"
                                                 THEN "refused" ELSE "ok"))
       /\ UNCHANGED <<now, cur, checked, fails, nextAt, tried>>

-----------------------------------------------------------------------------
(* The idle lock and the clock. *)

\* check_idle: dropped when the queue is full.
CheckIdle ==
    /\ "CheckIdle" \in Calls /\ vault # "stopped"
    /\ Len(queue) < Capacity /\ "tick" \notin Range(queue)
    /\ queue' = Append(queue, "tick")
    /\ UNCHANGED <<now, waiting, call, applied, Worker>>

HandleIdle ==
    /\ cur = None /\ queue # <<>> /\ Next1 = "tick"
    /\ Taken /\ call' = Arrived(call)
    /\ vault' = IF vault = "unlocked" /\ now - activity >= IdleLock THEN "locked" ELSE vault
    /\ UNCHANGED <<now, cur, checked, fails, nextAt, activity, applied, tried, used>>

Tick ==
    /\ now < MaxTime /\ now' = now + 1
    /\ UNCHANGED <<queue, waiting, call, applied, Worker>>

Handle ==
    \/ RefuseAtDispatch \/ RefuseRate \/ WrongProof \/ RightProof \/ TakeUnproved
    \/ Recheck \/ Commit \/ HandlePlain \/ HandleIdle

Next == Handle \/ CheckIdle \/ Tick \/ (\E c \in Callers : Call(c) \/ GiveUp(c))

Spec == Init /\ [][Next]_vars

\* The worker's thread takes the next command when there is one.
FairSpec == Spec /\ WF_vars(Handle)

-----------------------------------------------------------------------------
(* Properties. *)

TypeOK ==
    /\ Len(queue) <= Capacity /\ Range(queue) \subseteq Callers \cup {"tick"}
    /\ Range(waiting) \subseteq Callers /\ (waiting # <<>> => Len(queue) = Capacity)
    /\ cur \in Callers \cup {None}
    /\ vault \in {"locked", "unlocked", "faulted", "stopped"}
    /\ \A c \in Callers : call[c].cmd \in AuthorityCommand

\* What a caller is told is what happened: an answer of success to a command
\* that changes the records means they were changed, any other answer that they
\* were not, whether the command was refused at the queue, at its dispatch or at
\* its second look at the clock.  A deadline that passes between that look and
\* the commit stops nothing, and makes no answer false.  Only commands that are
\* done in parts (an environment imported name by name, a certificate's intent
\* and its result) may have changed the records and still answer with an error.
AnswersAreTrue ==
    \A c \in Callers : call[c].pc = "idle" /\ call[c].cmd \in Records =>
        /\ call[c].res = "ok" => c \in applied
        /\ call[c].res \in {"busy", "limited", "refused", "closed"}
             => c \notin applied \/ call[c].cmd \in InParts

\* A terminal audit is never refused for want of room in the queue.
TerminalsAreNeverBusy ==
    \A c \in Callers : call[c].cmd \in WaitForRoom => call[c].res # "busy"

\* Wrong proofs are spaced by the growing delay, whichever commands carry them:
\* no command is a way around the others' limit.
GuessesAreSpaced ==
    \A i \in 1 .. Len(tried) - 1 : tried[i + 1] - tried[i] >= Delay(i)

OnlyUseCounts == vault = "unlocked" => activity <= used

-----------------------------------------------------------------------------
(* Proofs.  Where every command is: a caller whose command is queued, waits *)
(* for room or is being handled has exactly one, and it has changed nothing *)
(* yet.                                                                     *)

Answers == {None, "ok", "busy", "limited", "refused", "closed", "unknown"}
CallRecord == [pc : {"idle", "queued", "waiting", "gone"}, cmd : AuthorityCommand,
               until : Nat, good : BOOLEAN, res : Answers]

Distinct(s) == \A i, j \in 1 .. Len(s) : s[i] = s[j] => i = j

MailboxType ==
    /\ now \in 0 .. MaxTime
    /\ queue \in Seq(Callers \cup {"tick"}) /\ waiting \in Seq(Callers)
    /\ Len(queue) <= Capacity /\ (waiting # <<>> => Len(queue) = Capacity)
    /\ call \in [Callers -> CallRecord]
    /\ cur \in Callers \cup {None}
    /\ vault \in {"locked", "unlocked", "faulted", "stopped"}
    /\ applied \subseteq Callers

\* A command is in one place, and its caller's call says which.
Placed ==
    /\ Distinct(queue) /\ Distinct(waiting)
    /\ \A i \in 1 .. Len(queue) :
          queue[i] \in Callers => /\ call[queue[i]].pc \in {"queued", "gone"}
                                  /\ cur # queue[i]
    /\ \A i \in 1 .. Len(waiting) : call[waiting[i]].pc = "waiting"
    /\ cur # None => call[cur].pc \in {"queued", "gone"} /\ call[cur].cmd \in Mutating

\* What a caller's record says: nothing was changed while its command is on
\* its way, and its answer is the truth.
CallRight(c, r, a) ==
    /\ r.pc # "idle" => c \notin a
    /\ r.pc = "idle" /\ r.cmd \in Records =>
          /\ r.res = "ok" => c \in a
          /\ r.res \in {"busy", "limited", "refused", "closed"} => c \notin a \/ r.cmd \in InParts
    /\ r.cmd \in WaitForRoom => r.until = Never /\ r.res # "busy"

CallsRight == \A c \in Callers : CallRight(c, call[c], applied)

MailboxInv == MailboxType /\ Placed /\ CallsRight

\* How the sets of commands lie to each other: what a proof admits and does not
\* commit changes no record, and what waits for room is never a mutation.
LEMMA CommandFacts ==
    /\ Mutating \subseteq Records /\ Unproved \subseteq Mutating
    /\ \A k \in Proved \ Mutating : k \notin Records
    /\ \A k \in WaitForRoom : /\ k \notin Mutating /\ k \notin Proved
                             /\ k \notin {"ConsumeWorkloadToken", "AppendAudit", "AppendAudits"}
    /\ "Lock" \notin Records /\ "Shutdown" \notin Records
    /\ "Status" \in AuthorityCommand /\ "Status" \notin Records
    /\ "Status" \notin WaitForRoom
BY DEF Mutating, Records, Proved, Unproved, WaitForRoom, AuthorityCommand, StatusCommands

\* The answer to a command, and the record a new one leaves.
LEMMA ToldFacts ==
    ASSUME NEW k \in AuthorityCommand, NEW r \in Answers
    PROVE  /\ Told(k, r) \in CallRecord
           /\ Told(k, r).pc = "idle" /\ Told(k, r).cmd = k /\ Told(k, r).res = r
           /\ Told(k, r).until = Never
<1>1. /\ NewCall \in CallRecord /\ NewCall.pc = "idle" /\ NewCall.until = Never
  BY CommandFacts, MailboxAssumption DEF NewCall, CallRecord, Never, Answers
<1>. HIDE DEF NewCall
<1>. QED BY <1>1 DEF Told, CallRecord

LEMMA SentFacts ==
    ASSUME NEW k \in AuthorityCommand, NEW u \in Nat, NEW g \in BOOLEAN,
           NEW p \in {"queued", "waiting"},
           NEW r, r = [pc |-> p, cmd |-> k, until |-> u, good |-> g, res |-> None]
    PROVE  /\ r \in CallRecord
           /\ r.pc = p /\ r.cmd = k /\ r.until = u /\ r.res = None
BY DEF CallRecord, Answers

\* A record whose command moves on within the queue keeps all but its place.
Moved(r, s) ==
    /\ s.cmd = r.cmd /\ s.until = r.until /\ s.good = r.good /\ s.res = r.res
    /\ s.pc = "queued" /\ r.pc = "waiting"

LEMMA ArrivedFacts ==
    ASSUME NEW cs \in [Callers -> CallRecord], waiting \in Seq(Callers)
    PROVE  /\ Arrived(cs) \in [Callers -> CallRecord]
           /\ \A d \in Callers : Arrived(cs)[d] = cs[d] \/ Moved(cs[d], Arrived(cs)[d])
           /\ \A d \in Callers : waiting = <<>> \/ d # Head(waiting) => Arrived(cs)[d] = cs[d]
           /\ waiting # <<>> /\ cs[Head(waiting)].pc = "waiting"
                => Arrived(cs)[Head(waiting)].pc = "queued"
<1>1. CASE waiting = <<>>
  BY <1>1 DEF Arrived
<1>2. CASE waiting # <<>>
  <2>1. Head(waiting) \in Callers BY <1>2
  <2>. DEFINE h == Head(waiting)
              s == [cs[h] EXCEPT !.pc = IF @ = "waiting" THEN "queued" ELSE @]
  <2>2. Arrived(cs) = [cs EXCEPT ![h] = s] BY <1>2, <2>1 DEF Arrived
  <2>3. cs[h] \in CallRecord BY <2>1
  <2>4. s \in CallRecord /\ (s = cs[h] \/ Moved(cs[h], s))
        /\ (cs[h].pc = "waiting" => s.pc = "queued")
    BY <2>3 DEF CallRecord, Moved
  <2>. QED BY <1>2, <2>1, <2>2, <2>4
<1>. QED BY <1>1, <1>2

\* A record that moves on within the queue stays right.
LEMMA MovedRight ==
    ASSUME NEW c, NEW r, NEW s, NEW a, CallRight(c, r, a), Moved(r, s)
    PROVE  CallRight(c, s, a)
BY DEF CallRight, Moved

\* The worker takes the first command and the first in line gets its place,
\* whatever becomes of the command's own record.
LEMMA TakenPlaces ==
    ASSUME MailboxType, Placed, cur = None, queue # <<>>, Taken,
           NEW cs \in [Callers -> CallRecord],
           \A d \in Callers : d # Head(queue) => cs[d] = call[d],
           call' = Arrived(cs),
           \/ cur' = None
           \/ /\ cur' = Head(queue) /\ Head(queue) \in Callers
              /\ cs = call /\ call[Head(queue)].cmd \in Mutating
    PROVE  /\ queue' \in Seq(Callers \cup {"tick"}) /\ waiting' \in Seq(Callers)
           /\ Len(queue') <= Capacity /\ (waiting' # <<>> => Len(queue') = Capacity)
           /\ call' \in [Callers -> CallRecord]
           /\ Placed'
<1>. DEFINE n == Len(queue)
            h == Head(queue)
<1>1. /\ n \in Nat \ {0} /\ h = queue[1] /\ h \in Callers \cup {"tick"}
      /\ Tail(queue) \in Seq(Callers \cup {"tick"}) /\ Len(Tail(queue)) = n - 1
      /\ \A i \in 1 .. n - 1 : Tail(queue)[i] = queue[i + 1]
  BY DEF MailboxType
<1>2. /\ call' \in [Callers -> CallRecord]
      /\ \A d \in Callers : call'[d] = cs[d] \/ Moved(cs[d], call'[d])
      /\ \A d \in Callers : waiting = <<>> \/ d # Head(waiting) => call'[d] = cs[d]
      /\ waiting # <<>> /\ cs[Head(waiting)].pc = "waiting" => call'[Head(waiting)].pc = "queued"
  BY ArrivedFacts DEF MailboxType
<1>3. \A i \in 2 .. n : queue[i] # h
  BY <1>1 DEF Placed, Distinct
<1>4. \A i \in 2 .. n : queue[i] \in Callers => call'[queue[i]].pc \in {"queued", "gone"}
  <2>. TAKE i \in 2 .. n
  <2>. HAVE queue[i] \in Callers
  <2>1. cs[queue[i]] = call[queue[i]] BY <1>3
  <2>2. call[queue[i]].pc \in {"queued", "gone"} BY <1>1 DEF Placed
  <2>. QED BY <2>1, <2>2, <1>2 DEF Moved
<1>5. \A i \in 2 .. n : queue[i] # cur' \/ queue[i] \notin Callers
  BY <1>3, MailboxAssumption DEF None
<1>6. cur' # None => call'[cur'].pc \in {"queued", "gone"} /\ call'[cur'].cmd \in Mutating
  <2>. HAVE cur' # None
  <2>1. cur' = h /\ h \in Callers /\ cs[h] = call[h] /\ call[h].cmd \in Mutating OBVIOUS
  <2>2. call[h].pc \in {"queued", "gone"} BY <1>1, <2>1 DEF Placed
  <2>. QED BY <2>1, <2>2, <1>2 DEF Moved
<1>7. CASE waiting = <<>>
  <2>1. queue' = Tail(queue) /\ waiting' = <<>> BY <1>7 DEF Taken
  <2>2. Distinct(queue')
    BY <1>1, <2>1 DEF Placed, Distinct
  <2>3. \A i \in 1 .. Len(queue') : queue'[i] \in Callers =>
           call'[queue'[i]].pc \in {"queued", "gone"} /\ cur' # queue'[i]
    <3>. TAKE i \in 1 .. Len(queue')
    <3>1. i + 1 \in 2 .. n /\ queue'[i] = queue[i + 1] BY <1>1, <2>1
    <3>. QED BY <3>1, <1>4, <1>5
  <2>4. Distinct(waiting') /\ \A i \in 1 .. Len(waiting') : call'[waiting'[i]].pc = "waiting"
    BY <2>1 DEF Distinct
  <2>5. /\ queue' \in Seq(Callers \cup {"tick"}) /\ waiting' \in Seq(Callers)
        /\ Len(queue') <= Capacity /\ (waiting' # <<>> => Len(queue') = Capacity)
    BY <1>1, <2>1, MailboxAssumption DEF MailboxType
  <2>. QED BY <1>2, <1>6, <2>2, <2>3, <2>4, <2>5 DEF Placed
<1>8. CASE waiting # <<>>
  <2>. DEFINE w == Head(waiting)
              m == Len(waiting)
  <2>1. /\ m \in Nat \ {0} /\ w = waiting[1] /\ w \in Callers
        /\ Tail(waiting) \in Seq(Callers) /\ Len(Tail(waiting)) = m - 1
        /\ \A i \in 1 .. m - 1 : Tail(waiting)[i] = waiting[i + 1]
    BY <1>8 DEF MailboxType
  <2>2. queue' = Append(Tail(queue), w) /\ waiting' = Tail(waiting) BY <1>8 DEF Taken
  <2>3. /\ queue' \in Seq(Callers \cup {"tick"}) /\ Len(queue') = n /\ queue'[n] = w
        /\ \A i \in 1 .. n - 1 : queue'[i] = queue[i + 1]
    BY <1>1, <2>1, <2>2
  <2>4. call[w].pc = "waiting" BY <2>1 DEF Placed
  <2>5. \A i \in 1 .. n : queue[i] # w
    BY <2>1, <2>4, <1>1 DEF Placed
  <2>6. cs[w] = call[w] /\ call'[w].pc = "queued" BY <1>1, <1>2, <1>8, <2>1, <2>4, <2>5
  <2>7. Distinct(queue')
    <3>. SUFFICES ASSUME NEW i \in 1 .. n, NEW j \in 1 .. n, queue'[i] = queue'[j] PROVE i = j
      BY <2>3 DEF Distinct
    <3>1. CASE i = n /\ j = n BY <3>1
    <3>2. CASE i # n /\ j # n
      <4>1. i + 1 \in 1 .. n /\ j + 1 \in 1 .. n /\ queue[i + 1] = queue[j + 1]
        BY <3>2, <2>3, <1>1
      <4>. QED BY <4>1 DEF Placed, Distinct
    <3>3. CASE i = n /\ j # n
      <4>1. j + 1 \in 1 .. n /\ queue[j + 1] = w BY <3>3, <2>3, <1>1
      <4>. QED BY <4>1, <2>5
    <3>4. CASE i # n /\ j = n
      <4>1. i + 1 \in 1 .. n /\ queue[i + 1] = w BY <3>4, <2>3, <1>1
      <4>. QED BY <4>1, <2>5
    <3>. QED BY <3>1, <3>2, <3>3, <3>4
  <2>8. \A i \in 1 .. Len(queue') : queue'[i] \in Callers =>
           call'[queue'[i]].pc \in {"queued", "gone"} /\ cur' # queue'[i]
    <3>. TAKE i \in 1 .. Len(queue')
    <3>1. CASE i = n
      <4>1. w # h BY <2>5, <1>1
      <4>2. cur' # w BY <4>1, <2>1, MailboxAssumption DEF None
      <4>. QED BY <3>1, <2>3, <2>6, <4>2
    <3>2. CASE i # n
      <4>1. i + 1 \in 2 .. n /\ queue'[i] = queue[i + 1] BY <3>2, <2>3, <1>1
      <4>. QED BY <4>1, <1>4, <1>5
    <3>. QED BY <3>1, <3>2
  <2>9. Distinct(waiting')
    BY <2>1, <2>2 DEF Placed, Distinct
  <2>10. \A i \in 1 .. Len(waiting') : call'[waiting'[i]].pc = "waiting"
    <3>. TAKE i \in 1 .. Len(waiting')
    <3>1. i + 1 \in 2 .. m /\ waiting'[i] = waiting[i + 1] /\ waiting[i + 1] \in Callers
      BY <2>1, <2>2 DEF MailboxType
    <3>2. waiting[i + 1] # w BY <3>1, <2>1 DEF Placed, Distinct
    <3>3. call[waiting[i + 1]].pc = "waiting" BY <3>1, <2>1 DEF Placed
    <3>4. waiting[i + 1] # h BY <3>1, <3>3, <1>1 DEF Placed
    <3>. QED BY <3>1, <3>2, <3>3, <3>4, <1>2
  <2>11. Len(queue) = Capacity BY <1>8 DEF MailboxType
  <2>. QED BY <1>2, <1>6, <2>1, <2>2, <2>3, <2>7, <2>8, <2>9, <2>10, <2>11 DEF Placed, MailboxType
<1>. QED BY <1>7, <1>8

\* The same command answered: the other callers' records stay right.
LEMMA Answered ==
    ASSUME MailboxType, Placed, CallsRight, TakeOne, Taken, cur' = cur,
           NEW r \in Answers, call' = Arrived(Reply(Next1, r)),
           applied' \in {applied, applied \cup {Next1}},
           Cmd(Next1) \in Records =>
               /\ r = "ok" => Next1 \in applied'
               /\ r \in {"busy", "limited", "refused", "closed"} => applied' = applied,
           Cmd(Next1) \in WaitForRoom => r # "busy"
    PROVE  /\ queue' \in Seq(Callers \cup {"tick"}) /\ waiting' \in Seq(Callers)
           /\ Len(queue') <= Capacity /\ (waiting' # <<>> => Len(queue') = Capacity)
           /\ call' \in [Callers -> CallRecord]
           /\ Placed' /\ CallsRight' /\ applied' \subseteq Callers
<1>. DEFINE c == Next1
            q == IF call[c].pc = "gone" THEN "unknown" ELSE r
            t == Told(call[c].cmd, q)
            cs == [call EXCEPT ![c] = t]
<1>1. c \in Callers /\ queue # <<>> /\ cur = None BY DEF TakeOne
<1>2. call[c] \in CallRecord /\ call[c].cmd \in AuthorityCommand /\ q \in Answers
  BY <1>1 DEF MailboxType, CallRecord, Answers
<1>3. /\ t \in CallRecord /\ t.pc = "idle" /\ t.cmd = call[c].cmd /\ t.res = q
      /\ t.until = Never
  BY <1>2, ToldFacts
<1>4. Reply(c, r) = cs BY DEF Reply
<1>5. cs \in [Callers -> CallRecord] /\ (\A d \in Callers : d # c => cs[d] = call[d]) /\ cs[c] = t
  BY <1>1, <1>3 DEF MailboxType
<1>6. call' = Arrived(cs) BY <1>4
<1>7. /\ queue' \in Seq(Callers \cup {"tick"}) /\ waiting' \in Seq(Callers)
      /\ Len(queue') <= Capacity /\ (waiting' # <<>> => Len(queue') = Capacity)
      /\ call' \in [Callers -> CallRecord] /\ Placed'
  BY <1>1, <1>5, <1>6, TakenPlaces DEF Next1
<1>8. call[c].pc \in {"queued", "gone"}
  BY <1>1 DEF Placed, MailboxType, Next1
<1>9. c \notin applied BY <1>1, <1>8 DEF CallsRight, CallRight
<1>10. CallRight(c, t, applied')
  BY <1>3, <1>9 DEF CallRight, Cmd
<1>11. \A d \in Callers : CallRight(d, cs[d], applied')
  <2>. TAKE d \in Callers
  <2>1. CASE d = c BY <2>1, <1>5, <1>10
  <2>2. CASE d # c
    <3>1. cs[d] = call[d] /\ (d \in applied' <=> d \in applied) BY <2>2, <1>5
    <3>. QED BY <3>1 DEF CallsRight, CallRight
  <2>. QED BY <2>1, <2>2
<1>12. \A d \in Callers : call'[d] = cs[d] \/ Moved(cs[d], call'[d])
  BY <1>5, <1>6, ArrivedFacts DEF MailboxType
<1>13. CallsRight'
  BY <1>11, <1>12, MovedRight DEF CallsRight
<1>14. applied' \subseteq Callers BY <1>1 DEF MailboxType
<1>. QED BY <1>7, <1>13, <1>14

\* A command that waits for room never expires: its deadline lies beyond time.
LEMMA WaitingNeverExpires ==
    ASSUME MailboxType, CallsRight, NEW c \in Callers, call[c].cmd \in WaitForRoom
    PROVE  ~Expired(c)
BY MailboxAssumption DEF MailboxType, CallsRight, CallRight, Expired, Never

LEMMA InitInv == Init => MailboxInv
<1>. SUFFICES ASSUME Init PROVE MailboxInv OBVIOUS
<1>1. /\ NewCall \in CallRecord /\ NewCall.pc = "idle" /\ NewCall.cmd = "Status"
      /\ NewCall.res = None
  BY CommandFacts, MailboxAssumption DEF NewCall, CallRecord, Never, Answers
<1>2. MailboxType
  BY <1>1, MailboxAssumption DEF Init, MailboxType
<1>3. Placed
  BY DEF Init, Placed, Distinct
<1>4. CallsRight
  BY <1>1, CommandFacts DEF Init, CallsRight, CallRight
<1>. QED BY <1>2, <1>3, <1>4 DEF MailboxInv

\* The commands that are taken and answered at once.
LEMMA AnsweredSteps ==
    ASSUME MailboxInv, RefuseAtDispatch \/ RefuseRate \/ WrongProof
    PROVE  MailboxInv'
<1>. USE DEF MailboxInv
<1>1. CASE RefuseAtDispatch
  <2>. DEFINE r == IF Expired(Next1) THEN "busy" ELSE "refused"
  <2>1. /\ TakeOne /\ Taken /\ call' = Arrived(Reply(Next1, r)) /\ applied' = applied
        /\ cur' = cur /\ now' = now /\ vault' = vault
    BY <1>1 DEF RefuseAtDispatch, Worker
  <2>2. Next1 \in Callers BY <2>1 DEF TakeOne
  <2>3. Cmd(Next1) \in WaitForRoom => r # "busy"
    BY <2>2, WaitingNeverExpires DEF Cmd
  <2>4. r \in Answers BY DEF Answers
  <2>5. Cmd(Next1) \in Records =>
           /\ r = "ok" => Next1 \in applied'
           /\ r \in {"busy", "limited", "refused", "closed"} => applied' = applied
    BY <2>1
  <2>6. applied' \in {applied, applied \cup {Next1}} BY <2>1
  <2>. HIDE DEF r
  <2>. QED BY <2>1, <2>3, <2>4, <2>5, <2>6, Answered DEF MailboxType
<1>2. CASE RefuseRate
  <2>1. /\ TakeOne /\ Taken /\ call' = Arrived(Reply(Next1, "limited")) /\ applied' = applied
        /\ cur' = cur /\ now' = now /\ vault' = vault
    BY <1>2 DEF RefuseRate, Worker
  <2>2. "limited" \in Answers /\ applied' \in {applied, applied \cup {Next1}}
    BY <2>1 DEF Answers
  <2>. QED BY <2>1, <2>2, Answered DEF MailboxType
<1>3. CASE WrongProof
  <2>1. /\ TakeOne /\ Taken /\ call' = Arrived(Reply(Next1, "refused")) /\ applied' = applied
        /\ cur' = cur /\ now' = now /\ vault' \in {vault, "faulted"}
    BY <1>3 DEF WrongProof
  <2>2. "refused" \in Answers /\ applied' \in {applied, applied \cup {Next1}}
    BY <2>1 DEF Answers
  <2>. QED BY <2>1, <2>2, Answered DEF MailboxType
<1>. QED BY <1>1, <1>2, <1>3

\* A change that goes on to its commit keeps its record and is now the
\* worker's.
LEMMA TakenUp ==
    ASSUME MailboxInv, TakeOne, Taken, Cmd(Next1) \in Mutating, cur' = Next1,
           call' = Arrived(call), applied' = applied, now' = now, vault' = vault
    PROVE  MailboxInv'
<1>. USE DEF MailboxInv
<1>1. Next1 \in Callers /\ queue # <<>> /\ cur = None BY DEF TakeOne
<1>2. call \in [Callers -> CallRecord] /\ waiting \in Seq(Callers) BY DEF MailboxType
<1>3. /\ queue' \in Seq(Callers \cup {"tick"}) /\ waiting' \in Seq(Callers)
      /\ Len(queue') <= Capacity /\ (waiting' # <<>> => Len(queue') = Capacity)
      /\ call' \in [Callers -> CallRecord] /\ Placed'
  BY <1>1, <1>2, TakenPlaces DEF Next1, Cmd
<1>4. \A d \in Callers : call'[d] = call[d] \/ Moved(call[d], call'[d])
  BY <1>2, ArrivedFacts
<1>5. CallsRight' BY <1>4, MovedRight DEF CallsRight
<1>. QED BY <1>1, <1>3, <1>5 DEF MailboxType

LEMMA RightProofStep ==
    ASSUME MailboxInv, RightProof \/ TakeUnproved
    PROVE  MailboxInv'
<1>. USE DEF MailboxInv
<1>1. CASE TakeUnproved
  <2>1. Cmd(Next1) \in Mutating BY <1>1, CommandFacts DEF TakeUnproved
  <2>. QED BY <1>1, <2>1, TakenUp DEF TakeUnproved
<1>2. CASE RightProof /\ Cmd(Next1) \in Mutating
  BY <1>2, TakenUp DEF RightProof
<1>3. CASE RightProof /\ Cmd(Next1) \notin Mutating
  <2>1. /\ TakeOne /\ Taken /\ applied' = applied /\ now' = now /\ Cmd(Next1) \in Proved
        /\ call' = Arrived(Reply(Next1, "ok")) /\ cur' = cur /\ vault' \in {vault, "unlocked"}
    BY <1>3 DEF RightProof
  <2>2. "ok" \in Answers /\ applied' \in {applied, applied \cup {Next1}} /\ Cmd(Next1) \notin Records
    BY <2>1, <1>3, CommandFacts DEF Answers
  <2>. QED BY <2>1, <2>2, Answered DEF MailboxType
<1>. QED BY <1>1, <1>2, <1>3

LEMMA CommitStep ==
    ASSUME MailboxInv, Commit \/ (Recheck /\ Expired(cur))
    PROVE  MailboxInv'
<1>. USE DEF MailboxInv
<1>. DEFINE c == cur
<1>1. /\ c \in Callers /\ cur' = None /\ queue' = queue /\ waiting' = waiting /\ now' = now
      /\ vault' \in {vault, "faulted"}
  BY DEF Commit, Recheck, MailboxType
<1>2. /\ call[c].pc \in {"queued", "gone"} /\ call[c].cmd \in Mutating
      /\ call[c].cmd \in Records /\ call[c].cmd \notin WaitForRoom
  BY <1>1, CommandFacts, MailboxAssumption DEF Placed, None
<1>3. PICK r \in Answers : /\ call' = Reply(c, r)
                           /\ \/ r = "ok" /\ applied' = applied \cup {c}
                              \/ r \in {"busy", "refused"} /\ applied' = applied
                              \/ /\ call[c].cmd \in InParts
                                 /\ r \in {"busy", "refused"} /\ applied' = applied \cup {c}
  <2>1. CASE Commit
    <3>1. CASE /\ applied' = applied \cup {cur}
               /\ \E r \in Outcomes(cur) : call' = Reply(cur, r)
      <4>1. PICK r \in Outcomes(cur) : call' = Reply(cur, r) BY <3>1
      <4>2. r = "ok" \/ (call[c].cmd \in InParts /\ r \in {"busy", "refused"})
        BY DEF Outcomes, Cmd
      <4>3. r \in Answers BY <4>2 DEF Answers
      <4>. QED BY <3>1, <4>1, <4>2, <4>3
    <3>2. CASE call' = Reply(cur, "refused") /\ applied' = applied
      BY <3>2 DEF Answers
    <3>. QED BY <2>1, <3>1, <3>2 DEF Commit
  <2>2. CASE Recheck /\ Expired(cur)
    BY <2>2 DEF Recheck, Answers
  <2>. QED BY <2>1, <2>2
<1>. DEFINE q == IF call[c].pc = "gone" THEN "unknown" ELSE r
            t == Told(call[c].cmd, q)
<1>4. call[c] \in CallRecord /\ call[c].cmd \in AuthorityCommand /\ q \in Answers
  BY <1>1 DEF MailboxType, CallRecord, Answers
<1>5. t \in CallRecord /\ t.pc = "idle" /\ t.cmd = call[c].cmd /\ t.res = q
  BY <1>4, ToldFacts
<1>6. call' = [call EXCEPT ![c] = t] BY <1>3 DEF Reply
<1>7. call' \in [Callers -> CallRecord] /\ call'[c] = t
      /\ \A d \in Callers : d # c => call'[d] = call[d]
  BY <1>1, <1>5, <1>6 DEF MailboxType
<1>8. c \notin applied BY <1>1, <1>2 DEF CallsRight, CallRight
<1>9. \A d \in Callers : CallRight(d, call'[d], applied')
  <2>. TAKE d \in Callers
  <2>1. CASE d = c
    <3>1. CallRight(c, t, applied') BY <1>2, <1>3, <1>5, <1>8 DEF CallRight
    <3>. QED BY <2>1, <3>1, <1>7
  <2>2. CASE d # c
    <3>1. call'[d] = call[d] /\ (d \in applied' <=> d \in applied) BY <2>2, <1>3, <1>7
    <3>. QED BY <3>1 DEF CallsRight, CallRight
  <2>. QED BY <2>1, <2>2
<1>10. \A i \in 1 .. Len(queue) : queue[i] \in Callers =>
          queue[i] # c /\ call'[queue[i]].pc \in {"queued", "gone"} /\ cur' # queue[i]
  BY <1>1, <1>7, MailboxAssumption DEF Placed, None
<1>11. \A i \in 1 .. Len(waiting) : call'[waiting[i]].pc = "waiting"
  <2>. TAKE i \in 1 .. Len(waiting)
  <2>1. waiting[i] \in Callers /\ call[waiting[i]].pc = "waiting" BY DEF Placed, MailboxType
  <2>2. waiting[i] # c BY <2>1, <1>2
  <2>. QED BY <2>1, <2>2, <1>7
<1>12. Placed' BY <1>1, <1>10, <1>11 DEF Placed
<1>13. MailboxType' BY <1>1, <1>3, <1>7 DEF MailboxType
<1>. QED BY <1>9, <1>12, <1>13 DEF CallsRight

\* The worker stops: every command that was on its way is told so.
LEMMA StopStep ==
    ASSUME MailboxInv, HandlePlain, vault' = "stopped"
    PROVE  MailboxInv'
<1>. USE DEF MailboxInv
<1>. DEFINE c == Next1
<1>1. /\ TakeOne /\ c \in Callers /\ cur = None /\ cur' = None /\ now' = now /\ vault # "stopped"
      /\ queue' = <<>> /\ waiting' = <<>>
      /\ call' = [d \in Callers |-> IF d = c THEN Reply(c, "ok")[d]
                                    ELSE IF call[d].pc = "idle" THEN call[d]
                                    ELSE Told(call[d].cmd, "closed")]
  BY DEF HandlePlain, TakeOne
<1>2. Cmd(c) = "Shutdown"
  BY <1>1 DEF HandlePlain
<1>3. applied' = applied
  BY <1>2, CommandFacts DEF HandlePlain
<1>. DEFINE q == IF call[c].pc = "gone" THEN "unknown" ELSE "ok"
            t == Told(call[c].cmd, q)
<1>4. call[c] \in CallRecord /\ call[c].cmd \in AuthorityCommand /\ q \in Answers
  BY <1>1 DEF MailboxType, CallRecord, Answers
<1>5. t \in CallRecord /\ t.pc = "idle" /\ t.cmd = call[c].cmd /\ t.res = q
  BY <1>4, ToldFacts
<1>6. Reply(c, "ok")[c] = t BY <1>1 DEF Reply, MailboxType
<1>7. \A d \in Callers : call'[d] \in CallRecord /\ CallRight(d, call'[d], applied')
  <2>. TAKE d \in Callers
  <2>1. CASE d = c
    <3>1. CallRight(c, t, applied')
      BY <1>2, <1>5, CommandFacts DEF CallRight, Cmd, WaitForRoom
    <3>. QED BY <2>1, <3>1, <1>1, <1>5, <1>6
  <2>2. CASE d # c /\ call[d].pc = "idle"
    BY <2>2, <1>1, <1>3 DEF MailboxType, CallsRight
  <2>3. CASE d # c /\ call[d].pc # "idle"
    <3>1. call[d].cmd \in AuthorityCommand /\ "closed" \in Answers
      BY DEF MailboxType, CallRecord, Answers
    <3>. DEFINE u == Told(call[d].cmd, "closed")
    <3>2. u \in CallRecord /\ u.pc = "idle" /\ u.cmd = call[d].cmd /\ u.res = "closed"
          /\ u.until = Never
      BY <3>1, ToldFacts
    <3>3. d \notin applied BY <2>3 DEF CallsRight, CallRight
    <3>4. call'[d] = u BY <2>3, <1>1
    <3>. HIDE DEF u
    <3>. QED BY <3>2, <3>3, <3>4, <1>3 DEF CallRight
  <2>. QED BY <2>1, <2>2, <2>3
<1>8. call' \in [Callers -> CallRecord] BY <1>1, <1>7
<1>9. MailboxType' BY <1>1, <1>3, <1>8, MailboxAssumption DEF MailboxType
<1>10. Placed' BY <1>1 DEF Placed, Distinct
<1>. QED BY <1>7, <1>9, <1>10 DEF CallsRight

LEMMA PlainStep ==
    ASSUME MailboxInv, HandlePlain
    PROVE  MailboxInv'
<1>. USE DEF MailboxInv
<1>1. CASE vault' = "stopped" BY <1>1, StopStep
<1>2. CASE vault' # "stopped"
  <2>. DEFINE r == IF vault' = "faulted" /\ vault # "faulted" THEN "refused" ELSE "ok"
  <2>1. /\ TakeOne /\ Taken /\ call' = Arrived(Reply(Next1, r)) /\ cur' = cur /\ now' = now
        /\ vault # "stopped" /\ Next1 \in Callers
    BY <1>2 DEF HandlePlain, TakeOne
  <2>2. applied' = IF Cmd(Next1) \in Records /\ vault' = vault THEN applied \cup {Next1} ELSE applied
    BY DEF HandlePlain
  <2>3. vault' \in {"locked", vault, "faulted"}
    BY <1>2 DEF HandlePlain
  <2>4. Cmd(Next1) \in Records => vault' \in {vault, "faulted"}
    BY CommandFacts DEF HandlePlain
  <2>5. /\ r \in Answers /\ applied' \in {applied, applied \cup {Next1}} /\ r # "busy"
        /\ Cmd(Next1) \in Records =>
               /\ r = "ok" => Next1 \in applied'
               /\ r \in {"busy", "limited", "refused", "closed"} => applied' = applied
    BY <2>2, <2>4 DEF Answers
  <2>. HIDE DEF r
  <2>6. /\ queue' \in Seq(Callers \cup {"tick"}) /\ waiting' \in Seq(Callers)
        /\ Len(queue') <= Capacity /\ (waiting' # <<>> => Len(queue') = Capacity)
        /\ call' \in [Callers -> CallRecord]
        /\ Placed' /\ CallsRight' /\ applied' \subseteq Callers
    BY <2>1, <2>5, Answered
  <2>. QED BY <2>1, <2>3, <2>6 DEF MailboxType
<1>. QED BY <1>1, <1>2

LEMMA IdleSteps ==
    ASSUME MailboxInv, HandleIdle \/ CheckIdle
    PROVE  MailboxInv'
<1>. USE DEF MailboxInv
<1>1. CASE HandleIdle
  <2>1. /\ cur = None /\ cur' = None /\ queue # <<>> /\ Taken /\ call' = Arrived(call)
        /\ applied' = applied /\ now' = now /\ vault' \in {vault, "locked"}
    BY <1>1 DEF HandleIdle
  <2>2. call \in [Callers -> CallRecord] /\ waiting \in Seq(Callers) BY DEF MailboxType
  <2>3. /\ queue' \in Seq(Callers \cup {"tick"}) /\ waiting' \in Seq(Callers)
        /\ Len(queue') <= Capacity /\ (waiting' # <<>> => Len(queue') = Capacity)
        /\ call' \in [Callers -> CallRecord] /\ Placed'
    BY <2>1, <2>2, TakenPlaces
  <2>4. \A d \in Callers : call'[d] = call[d] \/ Moved(call[d], call'[d])
    BY <2>1, <2>2, ArrivedFacts
  <2>5. CallsRight' BY <2>1, <2>4, MovedRight DEF CallsRight
  <2>. QED BY <2>1, <2>3, <2>5 DEF MailboxType
<1>2. CASE CheckIdle
  <2>1. /\ queue' = Append(queue, "tick") /\ Len(queue) < Capacity /\ "tick" \notin Range(queue)
        /\ UNCHANGED <<now, waiting, call, applied, cur, vault>>
    BY <1>2 DEF CheckIdle, Worker
  <2>2. /\ queue \in Seq(Callers \cup {"tick"}) /\ Len(queue) \in Nat
        /\ \A i \in 1 .. Len(queue) : queue[i] # "tick"
    BY <2>1 DEF MailboxType, Range
  <2>3. /\ queue' \in Seq(Callers \cup {"tick"}) /\ Len(queue') = Len(queue) + 1
        /\ queue'[Len(queue) + 1] = "tick"
        /\ \A i \in 1 .. Len(queue) : queue'[i] = queue[i]
    BY <2>1, <2>2
  <2>4. Distinct(queue')
    BY <2>2, <2>3 DEF Placed, Distinct
  <2>5. "tick" \notin Callers BY MailboxAssumption
  <2>6. \A i \in 1 .. Len(queue') : queue'[i] \in Callers =>
           call'[queue'[i]].pc \in {"queued", "gone"} /\ cur' # queue'[i]
    BY <2>1, <2>2, <2>3, <2>5 DEF Placed
  <2>7. Placed' BY <2>1, <2>4, <2>6 DEF Placed
  <2>8. Capacity \in Nat BY MailboxAssumption
  <2>9. MailboxType' BY <2>1, <2>2, <2>3, <2>8 DEF MailboxType
  <2>. QED BY <2>1, <2>7, <2>9 DEF CallsRight
<1>. QED BY <1>1, <1>2

\* A command is sent: it goes to the end of the queue, waits in line or is
\* answered at once.
LEMMA CallStep ==
    ASSUME MailboxInv, NEW c \in Callers, Call(c)
    PROVE  MailboxInv'
<1>. USE DEF MailboxInv
<1>1. PICK k \in Calls, g \in BOOLEAN : \E u \in NotAfter(k) :
         IF k \in WaitForRoom THEN Send(c, k, u, g) ELSE TrySend(c, k, u, g)
  BY DEF Call
<1>0. PICK u \in NotAfter(k) :
         IF k \in WaitForRoom THEN Send(c, k, u, g) ELSE TrySend(c, k, u, g)
  BY <1>1
<1>2. /\ call[c].pc = "idle" /\ applied' = applied \ {c}
      /\ now' = now /\ cur' = cur /\ vault' = vault
  BY DEF Call, Worker
<1>. DEFINE sent(p) == [pc |-> p, cmd |-> k, until |-> u, good |-> g, res |-> None]
<1>3. k \in AuthorityCommand /\ u \in Nat
  BY CommandsAssumption, MailboxAssumption DEF MailboxType, Never, NotAfter
<1>4. \/ /\ \E r \in {"closed", "busy"} :
               /\ call' = [call EXCEPT ![c] = Told(k, r)]
               /\ k \in WaitForRoom => r # "busy"
         /\ queue' = queue /\ waiting' = waiting
      \/ /\ call' = [call EXCEPT ![c] = sent("queued")] /\ queue' = Append(queue, c)
         /\ waiting' = waiting /\ Len(queue) < Capacity
      \/ /\ call' = [call EXCEPT ![c] = sent("waiting")] /\ queue' = queue
         /\ waiting' = Append(waiting, c) /\ Len(queue) >= Capacity
  <2>1. Len(queue) \in Nat /\ Capacity \in Nat BY MailboxAssumption DEF MailboxType
  <2>2. CASE k \in WaitForRoom BY <1>0, <2>1, <2>2 DEF Send, TrySend
  <2>3. CASE k \notin WaitForRoom BY <1>0, <2>1, <2>3 DEF TrySend
  <2>. QED BY <2>2, <2>3
<1>5. /\ \A i \in 1 .. Len(queue) : queue[i] # c
      /\ \A i \in 1 .. Len(waiting) : waiting[i] # c
      /\ cur # c
  BY <1>2, MailboxAssumption DEF Placed, None
<1>6. PICK t \in CallRecord :
         /\ call' = [call EXCEPT ![c] = t] /\ t.cmd = k
         /\ \/ t.pc = "idle" /\ t.res \in {"closed", "busy"} /\ queue' = queue /\ waiting' = waiting
               /\ (k \in WaitForRoom => t.res # "busy") /\ t.until = Never
            \/ t.pc = "queued" /\ t.res = None /\ queue' = Append(queue, c) /\ waiting' = waiting
               /\ Len(queue) < Capacity /\ t.until = u
            \/ t.pc = "waiting" /\ t.res = None /\ queue' = queue /\ waiting' = Append(waiting, c)
               /\ Len(queue) >= Capacity /\ t.until = u
  <2>1. ASSUME NEW r \in {"closed", "busy"}
        PROVE  /\ Told(k, r) \in CallRecord /\ Told(k, r).pc = "idle" /\ Told(k, r).cmd = k
               /\ Told(k, r).res = r /\ Told(k, r).until = Never
    <3>1. r \in Answers BY DEF Answers
    <3>. QED BY <1>3, <3>1, ToldFacts
  <2>2. ASSUME NEW p \in {"queued", "waiting"}
        PROVE  /\ sent(p) \in CallRecord /\ sent(p).pc = p /\ sent(p).cmd = k
               /\ sent(p).until = u /\ sent(p).res = None
    BY <1>3, SentFacts
  <2>. HIDE DEF sent
  <2>. QED BY <1>4, <2>1, <2>2
<1>7. /\ call' \in [Callers -> CallRecord] /\ call'[c] = t
      /\ \A d \in Callers : d # c => call'[d] = call[d]
  BY <1>6 DEF MailboxType
<1>8. CallsRight'
  <2>. SUFFICES ASSUME NEW d \in Callers PROVE CallRight(d, call'[d], applied')
    BY DEF CallsRight
  <2>1. CASE d = c
    <3>1. None # "ok" /\ None \notin {"busy", "limited", "refused", "closed"} BY DEF None
    <3>2. k \in WaitForRoom => u = Never BY CommandFacts DEF NotAfter
    <3>3. CallRight(c, t, applied') BY <1>2, <1>6, <3>1, <3>2 DEF CallRight
    <3>. QED BY <2>1, <3>3, <1>7
  <2>2. CASE d # c
    <3>1. call'[d] = call[d] /\ (d \in applied' <=> d \in applied) BY <2>2, <1>2, <1>7
    <3>. QED BY <3>1 DEF CallsRight, CallRight
  <2>. QED BY <2>1, <2>2
<1>9. /\ queue' \in Seq(Callers \cup {"tick"}) /\ waiting' \in Seq(Callers)
      /\ Len(queue') <= Capacity /\ (waiting' # <<>> => Len(queue') = Capacity)
  <2>1. Capacity \in Nat BY MailboxAssumption
  <2>2. CASE queue' = queue /\ waiting' = waiting BY <2>2 DEF MailboxType
  <2>3. CASE queue' = Append(queue, c) /\ waiting' = waiting /\ Len(queue) < Capacity
    BY <2>1, <2>3 DEF MailboxType
  <2>4. CASE queue' = queue /\ waiting' = Append(waiting, c) /\ Len(queue) >= Capacity
    BY <2>1, <2>4 DEF MailboxType
  <2>. QED BY <1>6, <2>2, <2>3, <2>4
<1>10. MailboxType' BY <1>2, <1>7, <1>9 DEF MailboxType
<1>11. /\ \A i \in 1 .. Len(queue) : queue[i] \in Callers =>
            call'[queue[i]].pc \in {"queued", "gone"} /\ cur' # queue[i]
       /\ \A i \in 1 .. Len(waiting) : call'[waiting[i]].pc = "waiting"
       /\ cur' # None => call'[cur'].pc \in {"queued", "gone"} /\ call'[cur'].cmd \in Mutating
  BY <1>2, <1>5, <1>7 DEF Placed, MailboxType
<1>12. Placed'
  <2>1. CASE queue' = queue /\ waiting' = waiting BY <2>1, <1>11 DEF Placed
  <2>2. CASE t.pc = "queued" /\ queue' = Append(queue, c) /\ waiting' = waiting
    <3>1. /\ Len(queue') = Len(queue) + 1 /\ queue'[Len(queue) + 1] = c /\ Len(queue) \in Nat
          /\ \A i \in 1 .. Len(queue) : queue'[i] = queue[i]
      BY <2>2 DEF MailboxType
    <3>2. Distinct(queue') BY <3>1, <1>5 DEF Placed, Distinct
    <3>3. \A i \in 1 .. Len(queue') : queue'[i] \in Callers =>
             call'[queue'[i]].pc \in {"queued", "gone"} /\ cur' # queue'[i]
      BY <3>1, <2>2, <1>2, <1>5, <1>7, <1>11
    <3>. QED BY <2>2, <3>2, <3>3, <1>11 DEF Placed
  <2>3. CASE t.pc = "waiting" /\ queue' = queue /\ waiting' = Append(waiting, c)
    <3>1. /\ Len(waiting') = Len(waiting) + 1 /\ waiting'[Len(waiting) + 1] = c
          /\ Len(waiting) \in Nat /\ \A i \in 1 .. Len(waiting) : waiting'[i] = waiting[i]
      BY <2>3 DEF MailboxType
    <3>2. Distinct(waiting') BY <3>1, <1>5 DEF Placed, Distinct
    <3>3. \A i \in 1 .. Len(waiting') : call'[waiting'[i]].pc = "waiting"
      BY <3>1, <2>3, <1>7, <1>11
    <3>. QED BY <2>3, <3>2, <3>3, <1>11 DEF Placed
  <2>. QED BY <1>6, <2>1, <2>2, <2>3
<1>. QED BY <1>8, <1>10, <1>12

LEMMA GiveUpStep ==
    ASSUME MailboxInv, NEW c \in Callers, GiveUp(c)
    PROVE  MailboxInv'
<1>. USE DEF MailboxInv
<1>. DEFINE t == [call[c] EXCEPT !.pc = "gone"]
<1>1. /\ call[c].pc = "queued" /\ call' = [call EXCEPT ![c] = t]
      /\ UNCHANGED <<now, queue, waiting, applied, cur, vault>>
  BY DEF GiveUp, Worker, MailboxType
<1>2. call[c] \in CallRecord BY DEF MailboxType
<1>3. /\ t \in CallRecord /\ t.pc = "gone" /\ t.cmd = call[c].cmd
      /\ t.until = call[c].until /\ t.res = call[c].res
  BY <1>2 DEF CallRecord
<1>. HIDE DEF t
<1>4. /\ call' \in [Callers -> CallRecord] /\ call'[c] = t
      /\ \A d \in Callers : d # c => call'[d] = call[d]
  BY <1>1, <1>3 DEF MailboxType
<1>5. MailboxType' BY <1>1, <1>4 DEF MailboxType
<1>6. CallRight(c, t, applied) BY <1>1, <1>3 DEF CallsRight, CallRight
<1>7. CallsRight' BY <1>1, <1>4, <1>6 DEF CallsRight
<1>8. \A d \in Callers :
         /\ call[d].pc \in {"queued", "gone"} => call'[d].pc \in {"queued", "gone"}
         /\ call[d].pc = "waiting" => call'[d].pc = "waiting"
         /\ call'[d].cmd = call[d].cmd
  BY <1>1, <1>3, <1>4
<1>9. \A i \in 1 .. Len(waiting) : waiting[i] \in Callers BY DEF MailboxType
<1>10. cur # None => cur \in Callers BY DEF MailboxType
<1>11. Placed' BY <1>1, <1>8, <1>9, <1>10 DEF Placed
<1>. QED BY <1>5, <1>7, <1>11

LEMMA NextInv == MailboxInv /\ [Next]_vars => MailboxInv'
<1>. SUFFICES ASSUME MailboxInv, [Next]_vars PROVE MailboxInv' OBVIOUS
<1>1. CASE RefuseAtDispatch \/ RefuseRate \/ WrongProof BY <1>1, AnsweredSteps
<1>2. CASE RightProof \/ TakeUnproved BY <1>2, RightProofStep
<1>3. CASE Commit \/ (Recheck /\ Expired(cur)) BY <1>3, CommitStep
<1>4. CASE HandlePlain BY <1>4, PlainStep
<1>5. CASE HandleIdle \/ CheckIdle BY <1>5, IdleSteps
<1>6. ASSUME NEW c \in Callers, Call(c) PROVE MailboxInv' BY <1>6, CallStep
<1>7. ASSUME NEW c \in Callers, GiveUp(c) PROVE MailboxInv' BY <1>7, GiveUpStep
<1>8. CASE Tick
  <2>1. /\ now < MaxTime /\ now' = now + 1
        /\ UNCHANGED <<queue, waiting, call, applied, cur, vault>>
    BY <1>8 DEF Tick, Worker
  <2>2. now' \in 0 .. MaxTime BY <2>1, MailboxAssumption DEF MailboxInv, MailboxType
  <2>. QED BY <2>1, <2>2 DEF MailboxInv, MailboxType, Placed, CallsRight
<1>9. CASE UNCHANGED vars
  BY <1>9 DEF vars, MailboxInv, MailboxType, Placed, CallsRight
<1>10. CASE Recheck /\ ~Expired(cur)
  BY <1>10 DEF Recheck, MailboxInv, MailboxType, Placed, CallsRight
<1>. QED BY <1>1, <1>2, <1>3, <1>4, <1>5, <1>6, <1>7, <1>8, <1>9, <1>10 DEF Next, Handle

LEMMA AlwaysMailbox == Spec => []MailboxInv
BY InitInv, NextInv, PTL DEF Spec

\* The queue holds no more commands than it has room for, callers wait only for
\* a full one, and the command being handled is a caller's (handle.rs, the
\* worker in authority.rs), for every capacity and any number of callers.
THEOREM MailboxTypeCorrect == Spec => []TypeOK
<1>1. MailboxInv => TypeOK
  BY DEF MailboxInv, MailboxType, TypeOK, Range, CallRecord
<1>. QED BY <1>1, AlwaysMailbox, PTL

\* What a caller is told is what happened to its command, wherever the answer
\* comes from: the full queue, the deadline at dispatch, the proof, the second
\* look at the deadline, a failed commit or the stop of the worker, and although
\* time passes between that look and the commit; for every command but those
\* that are done in parts.
THEOREM AnswersAreTrueAlways == Spec => []AnswersAreTrue
<1>1. MailboxInv => AnswersAreTrue
  BY DEF MailboxInv, CallsRight, CallRight, AnswersAreTrue
<1>. QED BY <1>1, AlwaysMailbox, PTL

\* A terminal audit that waits for room is never refused for want of it, nor
\* for a deadline (commit_audit, settle_profile_execution in handle.rs).
THEOREM TerminalsFindRoom == Spec => []TerminalsAreNeverBusy
<1>1. MailboxInv => TerminalsAreNeverBusy
  BY DEF MailboxInv, CallsRight, CallRight, TerminalsAreNeverBusy
<1>. QED BY <1>1, AlwaysMailbox, PTL

\* The count of wrong proofs is that of their times, and the next one is not
\* looked at before the delay after the last.
GuessInv ==
    /\ fails \in 0 .. MaxGuesses /\ nextAt \in Nat
    /\ tried \in Seq(Nat) /\ Len(tried) = fails
    /\ fails > 0 => /\ tried[fails] <= now
                    /\ fails >= Free => tried[fails] + Delay(fails) <= nextAt
    /\ GuessesAreSpaced

LEMMA WrongProofSpaced ==
    ASSUME MailboxInv, GuessInv, WrongProof
    PROVE  GuessInv'
<1>1. now \in Nat /\ now' = now /\ now >= nextAt /\ Free \in Nat /\ MaxGuesses \in Nat
  BY MailboxAssumption DEF WrongProof, RateLimited, MailboxInv, MailboxType, GuessInv
<1>. DEFINE f == IF fails < MaxGuesses THEN fails + 1 ELSE fails
<1>2. /\ fails' = f /\ nextAt' = (IF f >= Free THEN now + Delay(f) ELSE nextAt)
      /\ tried' = (IF fails < MaxGuesses THEN Append(tried, now) ELSE tried)
  BY DEF WrongProof
<1>3. f \in 0 .. MaxGuesses /\ Delay(f) \in Nat /\ Delay(fails) \in Nat
  BY <1>1, DelaysAssumption DEF GuessInv
<1>4. nextAt' \in Nat BY <1>1, <1>2, <1>3 DEF GuessInv
<1>5. CASE fails < MaxGuesses
  <2>. DEFINE n == fails
  <2>1. /\ n \in Nat /\ tried' = Append(tried, now) /\ f = n + 1 /\ Len(tried) = n
        /\ tried \in Seq(Nat)
    BY <1>2, <1>5 DEF GuessInv
  <2>2. /\ tried' \in Seq(Nat) /\ Len(tried') = n + 1 /\ tried'[n + 1] = now
        /\ \A i \in 1 .. n : tried'[i] = tried[i]
    BY <1>1, <2>1
  <2>3. n > 0 => now - tried[n] >= Delay(n)
    <3>. HAVE n > 0
    <3>1. tried[n] \in Nat /\ tried[n] <= now BY <2>1 DEF GuessInv
    <3>2. CASE n >= Free
      <4>1. tried[n] + Delay(n) <= nextAt BY <3>2 DEF GuessInv
      <4>2. nextAt \in Nat BY DEF GuessInv
      <4>. QED BY <3>1, <4>1, <4>2, <1>1, <1>3
    <3>3. CASE n < Free
      <4>1. Delay(n) = 0 BY <3>3 DEF Delay
      <4>. QED BY <3>1, <4>1, <1>1
    <3>. QED BY <3>2, <3>3, <1>1, <2>1
  <2>4. GuessesAreSpaced'
    <3>. SUFFICES ASSUME NEW i \in 1 .. n PROVE tried'[i + 1] - tried'[i] >= Delay(i)
      BY <2>1, <2>2 DEF GuessesAreSpaced
    <3>1. CASE i = n BY <3>1, <2>1, <2>2, <2>3
    <3>2. CASE i < n
      <4>1. i \in 1 .. Len(tried) - 1 /\ tried'[i] = tried[i] /\ tried'[i + 1] = tried[i + 1]
        BY <3>2, <2>1, <2>2
      <4>. QED BY <4>1 DEF GuessInv, GuessesAreSpaced
    <3>. QED BY <3>1, <3>2, <2>1
  <2>5. fails' > 0 => /\ tried'[fails'] <= now'
                      /\ fails' >= Free => tried'[fails'] + Delay(fails') <= nextAt'
    BY <1>1, <1>2, <1>3, <2>1, <2>2
  <2>. QED BY <1>2, <1>3, <1>4, <2>1, <2>2, <2>4, <2>5 DEF GuessInv
<1>6. CASE ~(fails < MaxGuesses)
  <2>1. tried' = tried /\ f = fails /\ fails' = fails BY <1>2, <1>6
  <2>2. fails > 0 => tried[fails] \in Nat /\ tried[fails] <= now BY DEF GuessInv
  <2>3. fails > 0 /\ fails >= Free => tried[fails] + Delay(fails) <= nextAt'
    BY <1>1, <1>2, <1>3, <2>1, <2>2
  <2>. QED BY <1>1, <1>4, <2>1, <2>2, <2>3 DEF GuessInv, GuessesAreSpaced
<1>. QED BY <1>5, <1>6

LEMMA GuessStep == MailboxInv /\ GuessInv /\ [Next]_vars => GuessInv'
<1>. SUFFICES ASSUME MailboxInv, GuessInv, [Next]_vars PROVE GuessInv' OBVIOUS
<1>1. CASE WrongProof BY <1>1, WrongProofSpaced
<1>2. CASE RightProof
  <2>1. fails' = 0 /\ nextAt' = now /\ tried' = <<>> BY <1>2 DEF RightProof
  <2>2. now \in Nat /\ MaxGuesses \in Nat BY MailboxAssumption DEF MailboxInv, MailboxType
  <2>. QED BY <2>1, <2>2 DEF GuessInv, GuessesAreSpaced
<1>3. CASE Tick
  <2>1. now' = now + 1 /\ UNCHANGED <<fails, nextAt, tried>> BY <1>3 DEF Tick, Worker
  <2>2. now \in Nat BY MailboxAssumption DEF MailboxInv, MailboxType
  <2>3. fails > 0 => tried[fails] \in Nat BY DEF GuessInv
  <2>. QED BY <2>1, <2>2, <2>3 DEF GuessInv, GuessesAreSpaced
<1>4. CASE UNCHANGED <<now, fails, nextAt, tried>>
  BY <1>4 DEF GuessInv, GuessesAreSpaced
<1>5. WrongProof \/ RightProof \/ Tick \/ UNCHANGED <<now, fails, nextAt, tried>>
  BY DEF Next, Handle, RefuseAtDispatch, RefuseRate, TakeUnproved, Recheck, Commit, HandlePlain,
         HandleIdle, CheckIdle, Call, GiveUp, Worker, vars
<1>. QED BY <1>1, <1>2, <1>3, <1>4, <1>5

\* Wrong proofs are spaced by the growing delay of record_unlock_failure, over
\* all the commands that carry one and for every delay table: no command is a
\* way around another's limit.
THEOREM GuessesAreSpacedAlways == Spec => []GuessesAreSpaced
<1>1. Init => GuessInv
  BY MailboxAssumption DEF Init, GuessInv, GuessesAreSpaced
<1>2. GuessInv => GuessesAreSpaced BY DEF GuessInv
<1>. QED BY <1>1, <1>2, GuessStep, AlwaysMailbox, PTL DEF Spec

=============================================================================
