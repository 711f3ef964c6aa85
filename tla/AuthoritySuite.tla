--------------------------- MODULE AuthoritySuite ---------------------------
(***************************************************************************)
(* What administrators ask and who they are, checked in one run: the queue *)
(* of the Authority (AuthorityMailbox, extended), the requests of the      *)
(* administration channel and the OIDC logins of administrators.  They     *)
(* share no state here.  A behaviour runs the one `part' names; the others *)
(* stay as they start.                                                     *)
(***************************************************************************)
EXTENDS AuthorityMailbox

CONSTANTS Parts

VARIABLES part,
    conn, req, next, coord, overdue, commands, begun, authority, phase, stopping, shut,
    capabilities, journal, disabled, catalog,
    gate, registry, coordinator, faulting, member, epoch, gen, flow, sent, late, cancelled,
    seenEpoch, seenGen, pc, who, aged, sessions, mint, by, cap, poll, affected, job, asked, left,
    leaving, logged, unlogged, won

adminVars == <<conn, req, next, coord, overdue, commands, begun, authority, phase, stopping, shut,
               capabilities, journal, disabled, catalog>>
oidcVars == <<gate, registry, coordinator, faulting, member, epoch, gen, flow, sent, late, cancelled,
              seenEpoch, seenGen, pc, who, aged, sessions, mint, by, cap, poll, affected, job, asked,
              left, leaving, logged, unlogged, won>>
suiteVars == <<part, vars, adminVars, oidcVars>>

\* Commands that only look beside ones that count as use; wrong proofs carried
\* by several commands.
Idles == INSTANCE AuthorityMailbox WITH
    Calls <- {"Unlock", "Lock", "AdminStatus", "Status", "CheckIdle"},
    Free <- 2, IdleLock <- 2, StoreFails <- FALSE
Proofs == INSTANCE AuthorityMailbox WITH
    Calls <- {"RotateVrk", "VerifyShutdownProof", "Unlock"},
    Free <- 2, IdleLock <- 2, MaxGuesses <- 3, StoreFails <- FALSE

\* Two administrators who add credentials and lock; who create, revoke and
\* disable; whose commits fail; one request of every operation of the table.
Adding == INSTANCE AdminRequests WITH
    Conns <- {"c", "d"}, Permits <- 2, CatalogMax <- 1, MaxRequests <- 2, Faults <- FALSE,
    Deadlines <- TRUE, Operations <- {"CREDENTIAL_ADD", "DESKTOP_ADD", "SSH_KEY", "LOCK"},
    late <- overdue, queue <- commands, vault <- authority, sessions <- capabilities
Creating == INSTANCE AdminRequests WITH
    Conns <- {"c", "d"}, Permits <- 2, CatalogMax <- 1, MaxRequests <- 2, Faults <- FALSE,
    Deadlines <- TRUE, Operations <- {"SESSION_CREATE", "SESSION_REVOKE", "ACTION_DISABLE"},
    late <- overdue, queue <- commands, vault <- authority, sessions <- capabilities
Failing == INSTANCE AdminRequests WITH
    Conns <- {"c", "d"}, Permits <- 2, CatalogMax <- 2, MaxRequests <- 2, Faults <- TRUE,
    Deadlines <- TRUE, Operations <- {"PASSWORD_CHANGE", "APPROVAL_LOCAL_APPROVE", "ROLLBACK_CONFIRM", "SHUTDOWN"},
    late <- overdue, queue <- commands, vault <- authority, sessions <- capabilities
Every == INSTANCE AdminRequests WITH
    Conns <- {"c"}, Permits <- 1, CatalogMax <- 1, MaxRequests <- 1, Faults <- TRUE,
    Deadlines <- TRUE, Operations <- DOMAIN Adding!Handler,
    late <- overdue, queue <- commands, vault <- authority, sessions <- capabilities

\* Two logins of one administrator; a login, a lock and failures, whose session
\* admits a managed request.
Logins == INSTANCE OidcAdmin WITH
    Flow <- {"f", "g"}, Admin <- {"a"}, Mint <- {}, MaxFlows <- 1, MaxSessions <- 1, PollWidth <- 1,
    CanFail <- FALSE, MaxLocks <- 0, phase <- gate
Minting == INSTANCE OidcAdmin WITH
    Flow <- {"f"}, Admin <- {"a"}, Mint <- {"m"}, MaxFlows <- 2, MaxSessions <- 1, PollWidth <- 1,
    CanFail <- TRUE, MaxLocks <- 1, phase <- gate

ASSUME /\ Idles!MailboxAssumption /\ Proofs!MailboxAssumption
       /\ Idles!CommandsAssumption /\ Proofs!CommandsAssumption
       /\ Idles!DelaysAssumption /\ Proofs!DelaysAssumption
       /\ Adding!AdminAssumption /\ Creating!AdminAssumption /\ Failing!AdminAssumption
       /\ Every!AdminAssumption /\ Adding!OperationsAssumption /\ Creating!OperationsAssumption
       /\ Failing!OperationsAssumption /\ Every!OperationsAssumption
       /\ Logins!OidcAdminAssumption /\ Minting!OidcAdminAssumption

-----------------------------------------------------------------------------
SuiteInit ==
    /\ part \in Parts
    /\ Init
    /\ CASE part = "creating" -> Creating!Init [] part = "every" -> Every!Init [] OTHER -> Adding!Init
    /\ IF part = "minting" THEN Minting!Init ELSE Logins!Init

SuiteNext ==
    /\ part' = part
    /\ CASE part = "mailbox" -> Next [] part = "idle" -> Idles!Next [] part = "proofs" -> Proofs!Next
         [] OTHER -> UNCHANGED vars
    /\ CASE part = "adding" -> Adding!Next [] part = "creating" -> Creating!Next
         [] part = "failing" -> Failing!Next [] part = "every" -> Every!Next
         [] OTHER -> UNCHANGED adminVars
    /\ CASE part = "logins" -> Logins!Next [] part = "minting" -> Minting!Next
         [] OTHER -> UNCHANGED oidcVars

SuiteSpec == SuiteInit /\ [][SuiteNext]_suiteVars

-----------------------------------------------------------------------------
\* What an administrator is told holds although deadlines pass and commands are
\* given up in the queue: a factor change called busy was not made, a decision
\* that was recorded is never denied, a session told of is recorded and one
\* revoked is gone, an addition that was checked keeps the catalog listable, a
\* fault of the vault is noticed unless a decision is left unconfirmed; terminals
\* are never refused for want of room, and wrong proofs are spaced whichever
\* commands carry them.
RequestsAreTrue ==
    /\ part = "mailbox" => TypeOK /\ TerminalsAreNeverBusy
    /\ part = "idle" => Idles!TypeOK /\ Idles!OnlyUseCounts
    /\ part = "proofs" => Proofs!TypeOK /\ Proofs!GuessesAreSpaced
    /\ part = "adding" => Adding!TypeOK /\ Adding!CheckedAddsFit
    /\ part = "creating" => Creating!TypeOK /\ Creating!SessionsAreRecorded /\ Creating!RevocationHolds
    /\ part = "failing" => /\ Failing!TypeOK /\ Failing!FactorChangeNeverBusy
                           /\ Failing!DecisionIsNeverDenied /\ Failing!FaultIsNoticed
    /\ part = "every" => /\ Every!TypeOK /\ Every!FactorChangeNeverBusy
                         /\ Every!DecisionIsNeverDenied /\ Every!FaultIsNoticed

\* An administrator's login opens no session once its administrator was closed,
\* its manager cleared or itself cancelled; its row precedes it, a closed gate
\* leaves no identity behind, capabilities end with their session and closings
\* are recorded.
LoginsAreCurrent ==
    /\ part = "logins" => /\ Logins!TypeOK /\ Logins!NothingResurrected /\ Logins!CancelWins
                          /\ Logins!LoggedFirst /\ Logins!ClosedGateIsEmpty
                          /\ Logins!ClosingsAreRecorded
    /\ part = "minting" => /\ Minting!CapabilitiesHaveSessions /\ Minting!ClosingsAreRecorded
                           /\ Minting!ClosedGateIsEmpty /\ Minting!NothingResurrected
=============================================================================
