----------------------------- MODULE CallSuite ------------------------------
(***************************************************************************)
(* What admits a call, checked in one run: the local approvals, windows    *)
(* and rates (LocalCalls, extended), access requests, the session registry *)
(* and the control connections of Profiles.  They share no state here.  A  *)
(* behaviour runs the one `part' names; the others stay as they start.     *)
(***************************************************************************)
EXTENDS LocalCalls

CONSTANTS
    Parts,
    workload   \* the session of a workload, a model value

VARIABLES part,
    access, overdue, blocked, quota, accessPc, minute, answer, admin, journal,
    registryClosed, entry, challenge, uses, expired, guard, exec, sessionCoordinator,
    sessionDecision, wall, late, effects, starts, refused, reopened,
    brokerPhase, shutdown, faulted, profilePolicy, policyExpired, bound, profileCoordinator,
    peer, task, connected, passed, seen, session, aged, row, told

accessVars == <<access, overdue, blocked, quota, accessPc, minute, answer, admin, journal>>
sessionVars == <<registryClosed, entry, challenge, uses, expired, guard, exec, sessionCoordinator,
                 sessionDecision, wall, late, effects, starts, refused, reopened>>
profileVars == <<brokerPhase, shutdown, faulted, profilePolicy, policyExpired, bound,
                 profileCoordinator, peer, task, connected, passed, seen, session, aged, row, told>>
suiteVars == <<part, vars, accessVars, sessionVars, profileVars>>

OneKey == {"request"}
SameKey == [c \in Actor |-> "request"]
SameRule == [k \in Key |-> k]

\* Two ssh signatures, one approved at the host and one by a signer.
SignKey == [s \in Actor |-> IF s = "x" THEN "host" ELSE "signed"]
Signers == INSTANCE LocalCalls WITH
    Call <- {}, Signer <- {"x", "y"}, Key <- {"host", "signed"}, KeyOf <- SignKey,
    RuleOf <- [k \in {"host", "signed"} |-> k], NeedsApproval <- {"host", "signed"},
    ExternalKey <- {"signed"}, MaxPending <- 1

\* Three calls that need no approval share an hourly rate of two.
Rate == INSTANCE LocalCalls WITH
    Call <- {"x", "y", "z"}, KeyOf <- [c \in {"x", "y", "z"} |-> "request"],
    NeedsApproval <- {}, MaxRequests <- 2, MaxHours <- 2, MaxPolicy <- 0, MaxLocks <- 0

\* Two requests of one caller, one per window, a table of one.
Access == INSTANCE AccessRequests WITH
    Request <- {"q", "r"}, Caller <- {"agent"}, CallerOf <- [r \in {"q", "r"} |-> "agent"],
    MaxAccess <- 1, MaxEntries <- 1, MaxMinutes <- 1,
    status <- access, lapsed <- overdue, rate <- quota, pc <- accessPc

\* Two executions of one session: with a rule that needs the person's presence,
\* with two of them and room for one record, with a rule for two signers; and
\* executions of two Profile sessions.
Local == INSTANCE Sessions WITH
    Session <- {"s"}, Exec <- {"x", "y"}, Challenge <- {"c", "d"}, Approver <- {},
    Key <- {"ask"}, Profile <- {}, Workload <- {}, Need <- [k \in {"ask"} |-> "local"],
    MaxUses <- 1, MaxConcurrent <- 2, OwnerLimit <- 1, PendingMax <- 2,
    Threshold <- 1, GrantUses <- 1, MaxReopen <- 1,
    closed <- registryClosed, coordinator <- sessionCoordinator, decision <- sessionDecision
Crowded == INSTANCE Sessions WITH
    Session <- {"s"}, Exec <- {"x", "y"}, Challenge <- {"c", "d"}, Approver <- {},
    Key <- {"ask", "more"}, Profile <- {}, Workload <- {},
    Need <- [k \in {"ask", "more"} |-> "local"],
    MaxUses <- 1, MaxConcurrent <- 2, OwnerLimit <- 1, PendingMax <- 1,
    Threshold <- 1, GrantUses <- 1, MaxReopen <- 1,
    closed <- registryClosed, coordinator <- sessionCoordinator, decision <- sessionDecision
Signed == INSTANCE Sessions WITH
    Session <- {workload}, Exec <- {"x", "y"}, Challenge <- {"c"}, Approver <- {"a", "b"},
    Key <- {"sign"}, Profile <- {}, Workload <- {workload}, Need <- [k \in {"sign"} |-> "signed"],
    MaxUses <- 2, MaxConcurrent <- 2, OwnerLimit <- 1, PendingMax <- 1,
    Threshold <- 2, GrantUses <- 1, MaxReopen <- 1,
    closed <- registryClosed, coordinator <- sessionCoordinator, decision <- sessionDecision
Owners == INSTANCE Sessions WITH
    Session <- {"p", "q"}, Exec <- {"x", "y"}, Challenge <- {}, Approver <- {},
    Key <- {"free"}, Profile <- {"p", "q"}, Workload <- {}, Need <- [k \in {"free"} |-> "none"],
    MaxUses <- 1, MaxConcurrent <- 2, OwnerLimit <- 1, PendingMax <- 1,
    Threshold <- 1, GrantUses <- 1, MaxReopen <- 1,
    closed <- registryClosed, coordinator <- sessionCoordinator, decision <- sessionDecision

\* Two control connections, one of a Profile that confirms each run, with
\* room for both or for one.
Controls == INSTANCE ProfileControl WITH
    Control <- {"c", "d"}, Confirm <- {"c"}, OwnerLimit <- 2, MaxPolicy <- 0,
    phase <- brokerPhase, policy <- profilePolicy, expired <- policyExpired,
    coordinator <- profileCoordinator, pc <- task, late <- passed
OneControl == INSTANCE ProfileControl WITH
    Control <- {"c", "d"}, Confirm <- {"c"}, OwnerLimit <- 1, MaxPolicy <- 1,
    phase <- brokerPhase, policy <- profilePolicy, expired <- policyExpired,
    coordinator <- profileCoordinator, pc <- task, late <- passed

ASSUME /\ Signers!LocalCallsAssumption /\ Rate!LocalCallsAssumption
       /\ Access!AccessAssumption
       /\ Local!SessionsAssumption /\ Crowded!SessionsAssumption
       /\ Signed!SessionsAssumption /\ Owners!SessionsAssumption
       /\ Controls!ProfileControlAssumption /\ OneControl!ProfileControlAssumption

-----------------------------------------------------------------------------
SuiteInit ==
    /\ part \in Parts
    /\ CASE part = "signers" -> Signers!Init [] part = "rate" -> Rate!Init [] OTHER -> Init
    /\ Access!Init
    /\ CASE part = "crowded" -> Crowded!Init [] part = "signed" -> Signed!Init
         [] part = "owners" -> Owners!Init [] OTHER -> Local!Init
    /\ Controls!Init

SuiteNext ==
    /\ part' = part
    /\ CASE part = "calls" -> Next [] part = "signers" -> Signers!Next [] part = "rate" -> Rate!Next
         [] OTHER -> UNCHANGED vars
    /\ IF part = "access" THEN Access!Next ELSE UNCHANGED accessVars
    /\ CASE part = "local" -> Local!Next [] part = "crowded" -> Crowded!Next
         [] part = "signed" -> Signed!Next
         [] part = "owners" -> Owners!Next [] OTHER -> UNCHANGED sessionVars
    /\ CASE part = "profile" -> Controls!Next [] part = "limit" -> OneControl!Next
         [] OTHER -> UNCHANGED profileVars

SuiteSpec == SuiteInit /\ [][SuiteNext]_suiteVars

-----------------------------------------------------------------------------
\* The bounded tables of the broker are exact under every interleaving: a
\* reservation has one owner, the hourly count is the calls that started or
\* still may, a use of a session is returned at most once, a session counts
\* the executions that run in it, and an approval starts no more executions
\* than it was given for.
CountsAreExact ==
    /\ part = "calls" => /\ TypeOK /\ ReservationsOwned /\ UnconfirmedNeverStarts
                         /\ PendingBounded
    /\ part = "signers" => Signers!TypeOK /\ Signers!PendingBounded
    /\ part = "rate" => Rate!TypeOK /\ Rate!RateExact
    /\ part = "access" => Access!TypeOK /\ Access!AccessRateExact
    /\ part = "local" => /\ Local!TypeOK /\ Local!InFlightExact /\ Local!UsesConserved
                         /\ Local!StartsWithinApproval /\ Local!OneLivePerRequest
                         /\ Local!OpenApprovalKept
    /\ part = "crowded" => Crowded!RecordsBounded
    /\ part = "signed" => Signed!TypeOK /\ Signed!StartsWithinApproval
    /\ part = "owners" => Owners!InFlightExact /\ Owners!ControlsBounded

\* What an administrator or a Profile's owner is told is on disk: a session a
\* control connection minted is of the policy in force, its token follows its
\* row, it does not outlive its connection and both rows are written or the
\* broker is faulted; an access request is answered as its event says.
ToldIsJournaled ==
    /\ part = "profile" => /\ Controls!TypeOK /\ Controls!LiveSessionsAreCurrent
                           /\ Controls!TokenAfterRow /\ Controls!NoOrphanSession
                           /\ Controls!RowsPaired
    /\ part = "limit" => OneControl!TypeOK /\ OneControl!LiveSessionsAreCurrent
    /\ part = "access" => Access!ResolutionJournaled

\* What has ended stays ended: a revoked or compacted session starts no effect,
\* nor one reported expired or a grant refused as expired, although the wall
\* clock is set back; an unconfirmed decision is not published late; an access
\* request keeps its answer.
EndedStaysEnded ==
    [][/\ part = "local" => Local!RevokedNeverActs /\ Local!NoLateApproval
       /\ part = "signed" => Signed!ExpiredGrantIsFinal
       /\ part = "owners" => Owners!RevokedNeverActs /\ Owners!ExpiryIsFinal
       /\ part = "access" => Access!ResolvedOnce]_suiteVars
=============================================================================
