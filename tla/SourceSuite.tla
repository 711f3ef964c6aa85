---------------------------- MODULE SourceSuite -----------------------------
(***************************************************************************)
(* The components that obtain credentials outside the vault, checked in    *)
(* one run: leases (LeaseJournal, extended), reads of external sources,    *)
(* short-lived revocable tokens, OAuth grants and executions over mTLS.    *)
(* They share no state.  A behaviour runs the one `part' names; the others *)
(* stay as they start.                                                     *)
(***************************************************************************)
EXTENDS LeaseJournal

CONSTANTS Parts

VARIABLES part,
    mono, wall, readGate, read, readRows, asked,
    time, tokenGate, holder, tokens, tokenRows,
    grant, valid, issued, cache, epoch, clears, mutex, grantCoord, grantPhase, binding, exe, flow, lost,
    phase, open, stop, coord, policy, stored, expired, cred, owners, cancelled, ex, adm, ops, answered

readVars == <<mono, wall, readGate, read, readRows, asked>>
tokenVars == <<time, tokenGate, holder, tokens, tokenRows>>
grantVars == <<grant, valid, issued, cache, epoch, clears, mutex, grantCoord, grantPhase, binding, exe, flow, lost>>
mtlsVars == <<phase, open, stop, coord, policy, stored, expired, cred, owners, cancelled, ex, adm, ops, answered>>
suiteVars == <<part, vars, readVars, tokenVars, grantVars, mtlsVars>>

OneSource == [e \in Execs |-> "s"]
PairSource == [e \in Execs |-> IF e = "x" THEN "s" ELSE "t"]

\* Two sources, and a wall clock that steps.
Clocked == INSTANCE LeaseJournal WITH
    SourceOf <- PairSource, Stuck <- {}, ClockSteps <- TRUE

\* Tokens that expire before the parse, during the read and after the
\* deadline; the clock steps by one or further than a token may live.
Reads == INSTANCE SourceReads WITH
    MaxTime <- 4, Deadline <- 3, Lifetime <- 6, Expiries <- {0, 2, 5}, Steps <- {-5, -1, 1},
    gate <- readGate, ex <- read, rows <- readRows

\* More different tokens than Limit.
Tokens == INSTANCE RevocableTokens WITH
    Tokens <- {"t1", "t2", "t3"}, Limit <- 2, Kinds <- {"approle", "keycloak", "list", "write"},
    gate <- tokenGate, ex <- holder, prov <- tokens, rows <- tokenRows

\* Two executions and a login, with a lock and a fault; an execution and two
\* logins over two bindings.
Grants == INSTANCE OAuthGrants WITH
    Exes <- {"x", "y"}, Logins <- {"l"}, Bindings <- {"a"}, MaxFlows <- 1, MaxToken <- 2, MaxEpoch <- 1,
    Persists <- FALSE, CanFault <- TRUE, coord <- grantCoord, phase <- grantPhase, policy <- binding
Logins == INSTANCE OAuthGrants WITH
    Exes <- {"e"}, Logins <- {"x", "y"}, Bindings <- {"a", "b"}, MaxFlows <- 1, MaxToken <- 2, MaxEpoch <- 0,
    Persists <- TRUE, CanFault <- FALSE, coord <- grantCoord, phase <- grantPhase, policy <- binding

\* Two executions with one key; one execution and frames that hold nothing,
\* half of the key or all of it.
Mtls == INSTANCE MtlsExecution WITH
    Requests <- {"x", "y"}, CredentialOf <- [r \in {"x", "y"} |-> 1], MaxVersion <- 2, MaxPolicy <- 2,
    MaxOps <- 1, Frames <- {<<0>>}, MaxBody <- 0, CanLate <- TRUE, CanFault <- FALSE
Body == INSTANCE MtlsExecution WITH
    Requests <- {"x"}, CredentialOf <- [r \in {"x"} |-> 1], MaxVersion <- 2, MaxPolicy <- 2,
    MaxOps <- 1, Frames <- {<<0>>, <<1>>, <<2>>, <<1, 2>>}, MaxBody <- 3, CanLate <- TRUE, CanFault <- TRUE

\* A mutation, a drain and an owner of the key, with no deadline to help.
Waiting == INSTANCE MtlsExecution WITH
    Requests <- {"x"}, CredentialOf <- [r \in {"x"} |-> 1],
    MaxVersion <- 2, MaxPolicy <- 2, MaxOps <- 1, Frames <- {<<0>>}, MaxBody <- 0,
    CanLate <- FALSE, CanFault <- TRUE

ASSUME /\ Clocked!LeaseAssumption /\ Reads!SourceAssumption /\ Tokens!TokenAssumption
       /\ Grants!OAuthAssumption /\ Logins!OAuthAssumption
       /\ Mtls!MtlsAssumption /\ Body!MtlsAssumption /\ Waiting!MtlsAssumption

-----------------------------------------------------------------------------
SuiteInit ==
    /\ part \in Parts
    /\ Init
    /\ Reads!Init /\ (part # "reads" => read.kind = "kv" /\ read.shape /\ read.expires = 5 /\ read.exact)
    /\ Tokens!Init /\ (part # "tokens" => holder.kind = "list")
    /\ IF part = "logins" THEN Logins!Init ELSE Grants!Init
    /\ part \notin {"grants", "logins"} => grant.rt = 1
    /\ CASE part = "body" -> Body!Init [] part = "waiting" -> Waiting!Init [] OTHER -> Mtls!Init

SuiteNext ==
    /\ part' = part
    /\ CASE part = "leases" -> Next [] part = "clocked" -> Clocked!Next [] OTHER -> UNCHANGED vars
    /\ IF part = "reads" THEN Reads!Next ELSE UNCHANGED readVars
    /\ IF part = "tokens" THEN Tokens!Next ELSE UNCHANGED tokenVars
    /\ CASE part = "grants" -> Grants!Next [] part = "logins" -> Logins!Next [] OTHER -> UNCHANGED grantVars
    /\ CASE part = "mtls" -> Mtls!Next [] part = "body" -> Body!Next
         [] part = "waiting" -> Waiting!Next [] OTHER -> UNCHANGED mtlsVars

SuiteSpec == SuiteInit /\ [][SuiteNext]_suiteVars

\* Recoveries run when they were started, and the provider revokes what is not
\* stuck (LeaseJournal); tasks that can run do, the Authority answers what it
\* accepts and a drain's grace ends (MtlsExecution); the execution that holds
\* tokens goes on (RevocableTokens).  Servers and deadlines owe nothing.
Recovers(A(_), e) == part = "leases" /\ A(e)
SuiteFairness ==
    /\ WF_vars(part = "leases" /\ Recovered)
    /\ WF_vars(part = "leases" /\ \E e \in Execs : Recovery(e))
    /\ \A e \in Execs : SF_vars(Recovers(RecoverPrepared, e))
    /\ \A e \in Execs \ Stuck :
          SF_vars(Recovers(RecoverConfirmed, e)) /\ SF_vars(Recovers(RecoverFinished, e))
    /\ WF_mtlsVars(part = "waiting" /\ (\/ Waiting!NotRegistered("x") \/ Waiting!GateRefuses("x")
                                        \/ Waiting!PrepareServed("x") \/ Waiting!DropKey("x")
                                        \/ Waiting!Finish("x")))
    /\ WF_mtlsVars(part = "waiting" /\ (\/ Waiting!Commit \/ Waiting!Refuse \/ Waiting!Orphan
                                        \/ Waiting!CancelPrivate \/ Waiting!Answer))
    /\ WF_mtlsVars(part = "waiting" /\ (Waiting!SignalCancel \/ Waiting!Drained))
    /\ WF_tokenVars(part = "tokens" /\ Tokens!Step)

SuiteLiveSpec == SuiteSpec /\ SuiteFairness

-----------------------------------------------------------------------------
\* What a success says of the secrets it used up: the lease of an execution
\* that succeeded is revoked at the provider, and so is every token a mint
\* returned; the terminal row tells which tokens may still live, each one held
\* was tried, a write is sent once, and the journal never takes a legal change
\* for corruption.
NothingLeftAlive ==
    /\ part = "leases" => TypeOK /\ SuccessMeansRevoked /\ OneAcquisitionPerSource /\ NoIntegrityFault
    /\ part = "clocked" => Clocked!SuccessMeansRevoked /\ Clocked!LiveLeasesAreJournaled
    /\ part = "tokens" => /\ Tokens!TypeOK /\ Tokens!SuccessMeansRevoked /\ Tokens!TerminalTellsTokens
                          /\ Tokens!EveryTokenTried /\ Tokens!NoRetryAfterEffect /\ Tokens!WritesSentOnce

\* Nothing is used without evidence, nor after it was withdrawn: a source is
\* asked only after its row and inside the token's window, an answer is used
\* only verified, and Blocked is written only when nothing was sent; a TLS key
\* that took part in a handshake leaves a terminal row other than Blocked, and
\* no execution holds one once its rotation or revocation has been answered; a
\* cached access token is of this unlock, a served one is of the grant it is
\* served for, and a login is asked for only when nothing else is left.
UseIsEvidenced ==
    /\ part = "reads" => /\ Reads!TypeOK /\ Reads!EvidenceBeforeUse /\ Reads!AskedInWindow
                         /\ Reads!UsedIsVerified /\ Reads!BlockedIsTrue
    /\ part = "mtls" => Mtls!TypeOK /\ Mtls!AuthenticationIsRecorded /\ Mtls!AnsweredMutationIsFinal
    /\ part = "body" => Body!TypeOK /\ Body!AuthenticationIsRecorded /\ Body!DeliveredIsWholeAndSealed
    /\ part = "grants" => /\ Grants!TypeOK /\ Grants!CacheOfThisEpoch /\ Grants!ServedTokenIsOwn
                          /\ Grants!StoredTokenIsValid /\ Grants!ReauthOnlyAfterLoss
    /\ part = "logins" => Logins!ServedTokenIsOwn /\ Logins!FlowsBounded

\* What was obtained is given back in the end: every known lease the provider
\* is able to revoke is revoked as long as recoveries keep being started, even
\* behind a batch of leases that cannot be; a rotation or revocation of a TLS
\* key is answered although it holds the coordinator its owners wait for, and
\* a drain with such owners ends; an execution that owns tokens ends.
CleanupEnds ==
    /\ RecoveryReachesAll
    /\ Waiting!WaitForOwnersEnds /\ Waiting!DrainEnds
    /\ part = "tokens" ~> holder.pc = "done"
=============================================================================
