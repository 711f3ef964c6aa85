--------------------------- MODULE WorkloadAdmission ---------------------------
(***************************************************************************)
(* Admission of a workload by an identity token, and the policy that token *)
(* is verified under: verification of the token                            *)
(* (crates/rekey-policy/src/workload.rs), the admission itself             *)
(* (crates/rekey-broker/src/runtime/workload.rs), the durable record of    *)
(* used tokens (crates/rekey-vault/src/store/workload.rs), and activation, *)
(* reload and expiry of the policy (crates/rekey-broker/src/runtime/       *)
(* admin.rs, active_policy.rs).                                            *)
(*                                                                         *)
(* An attempt reads the policy, may fetch keys from the issuer, waits for  *)
(* the coordinator, and only then verifies, admits a session and has the   *)
(* Authority consume the token.  Time passes between any two of these.     *)
(***************************************************************************)
EXTENDS Integers, FiniteSets, Sequences

CONSTANTS Attempts,       \* calls of create_workload_session
          Tokens,         \* the tokens presented, see Verifies
          Policies,       \* signed policies that may be activated
          KeySets,        \* what the issuer may publish: sets of <<kid, key>>
          Ttl,            \* the lifetime asked for
          Humans,         \* principals bound to an administrator login
          HumanExpiry,    \* when the login of such a principal ends
          Slots,          \* MAX_ONLINE_JWKS_FETCHES
          MaxRows,        \* WORKLOAD_REPLAY_MAX_ROWS
          PrivateOwners,  \* whether requests that own a private key occur
          CanFail,        \* whether crashes, faults and lost replies occur
          MaxTime,        \* bound on both clocks
          MaxBack,        \* bound on steps the wall clock is set back
          MaxPubs         \* bound on publications of a policy in memory

WorkloadAssumption ==
    /\ Slots \in Nat \ {0} /\ MaxRows \in Nat \ {0} /\ Ttl \in Nat \ {0}
    /\ MaxTime \in Nat /\ MaxBack \in Nat /\ MaxPubs \in Nat
    /\ PrivateOwners \in BOOLEAN /\ CanFail \in BOOLEAN

VARIABLES phase,     \* locked, running, draining, stopped, down
          policy,    \* BrokerCtx.policy: the active policy
          stored,    \* the id of the bundle in the vault, 0 for none
          rows,      \* workload_token_uses
          coord,     \* holder of the lifecycle coordinator
          at,        \* the attempts
          sessions,  \* live workload sessions
          adm,       \* the activation in progress
          owners,    \* a request owns a private credential
          wall, mono,
          hist       \* history, see Init

vars == <<phase, policy, stored, rows, coord, at, sessions, adm, owners,
          wall, mono, hist>>
time == <<wall, mono>>

None == [pub |-> 0, id |-> 0, latched |-> FALSE, deadline |-> 0]
Idle == [pc |-> "idle", id |-> 0, had |-> FALSE, was |-> FALSE]
NoToken == [iss |-> "", sub |-> "", aud |-> {}, jti |-> "", alg |-> "",
            kid |-> "", key |-> "", iat |-> 0, nbf |-> 0, exp |-> 0]
Fresh == [pc |-> "new", token |-> NoToken, seen |-> 0, id |-> 0, jwks |-> {},
          who |-> "", expiry |-> 0, now |-> 0, cmd |-> "none", late |-> FALSE]

\* hist.accepted: every consumption the Authority committed, with the policy,
\* the replay key and the attempt; hist.pubs: publications so far; hist.dead:
\* policies seen expired since the broker was last locked or started;
\* hist.kept: policies that stayed active although the vault has a later one.
Init ==
    /\ phase = "locked" /\ policy = None /\ stored = 0 /\ rows = {}
    /\ coord = "free" /\ at = [a \in Attempts |-> Fresh] /\ sessions = {}
    /\ adm = Idle /\ owners = FALSE /\ wall = 0 /\ mono = 0
    /\ hist = [accepted |-> {}, pubs |-> 0, dead |-> {}, back |-> 0, kept |-> {}]

PolicyOf(i) == CHOOSE p \in Policies : p.id = i

-----------------------------------------------------------------------------
(* Verification of a token. *)

Identities(p) == {p.ids[n] : n \in DOMAIN p.ids}

\* subject_for_profile is part of the identity: sub below.

\* WorkloadCatalog::compile: principals and external identities are unique,
\* keys come from the policy or from the issuer but not both, and one key id
\* of an issuer means one key.
Compiles(p) ==
    /\ \A i \in Identities(p) :
         /\ i.maxAge > 0 /\ p.may[i.who] # {}
         /\ i.online <=> i.keys = {}
         /\ \A k, l \in i.keys : k # l => k.kid # l.kid /\ k.key # l.key
    /\ \A i, j \in Identities(p) : i # j =>
         /\ i.who # j.who
         /\ <<i.iss, i.sub, i.aud>> # <<j.iss, j.sub, j.aud>>
         /\ \A k \in i.keys, l \in j.keys :
              (i.iss = j.iss /\ k.kid = l.kid /\ k.alg = l.alg) => k.key = l.key

Matching(p, t) ==
    {i \in Identities(p) : i.iss = t.iss /\ i.sub = t.sub /\ i.aud = t.aud}

\* The catalogue of keys, in the order of the policy: the first one stays.
CatalogKey(p, iss, kid, alg) ==
    LET has(n) == \E k \in p.ids[n].keys :
                     p.ids[n].iss = iss /\ k.kid = kid /\ k.alg = alg
        first == CHOOSE n \in DOMAIN p.ids :
                    has(n) /\ \A m \in DOMAIN p.ids : has(m) => n <= m
    IN (CHOOSE k \in p.ids[first].keys : k.kid = kid /\ k.alg = alg).key

\* The key a token must be signed with: one the issuer published, or one the
\* identity itself selects.
SelectedKeys(p, i, t, jwks) ==
    IF i.online
    THEN {k[2] : k \in {k \in jwks : k[1] = t.kid /\ t.alg = "RS256"}}
    ELSE {CatalogKey(p, i.iss, t.kid, t.alg) :
             k \in {k \in i.keys : k.kid = t.kid /\ k.alg = t.alg}}

InWindow(i, t) ==
    /\ t.iat <= wall /\ t.nbf <= wall /\ wall < t.exp
    /\ t.iat < t.exp /\ t.exp - t.iat <= i.maxAge

\* WorkloadCatalog::verify.
Verifies(p, t, jwks) ==
    /\ Cardinality(Matching(p, t)) = 1
    /\ \A i \in Matching(p, t) :
          t.key \in SelectedKeys(p, i, t, jwks) /\ InWindow(i, t)

Subject(p, t) == CHOOSE i \in Matching(p, t) : TRUE

\* replay_digest, apart from the policy's digest.
ReplayKey(t) == <<t.iss, t.sub, t.jti>>

-----------------------------------------------------------------------------
(* The active policy. *)

\* is_expired.
Expired == policy.latched \/ PolicyOf(policy.id).expires <= wall
           \/ mono >= policy.deadline

Latch ==
    /\ policy' = [policy EXCEPT !.latched = TRUE]
    /\ hist' = [hist EXCEPT !.dead = @ \cup {policy.id}]

Forget == hist' = [hist EXCEPT !.dead = {}]

\* activate_bundle, load_bundle: the latch is set at once for a bundle that
\* has expired on the wall clock.
Publication(i) ==
    LET left == PolicyOf(i).expires - wall IN
    [pub |-> hist.pubs + 1, id |-> i, latched |-> left <= 0,
     deadline |-> mono + IF left > 0 THEN left ELSE 0]

Publish(i) ==
    /\ hist.pubs < MaxPubs
    /\ policy' = Publication(i)
    /\ hist' = [hist EXCEPT !.pubs = @ + 1,
                  !.dead = IF policy'.latched THEN @ \cup {i} ELSE @]

\* reload_policy_after_unlock: a bundle that is active already keeps its
\* publication, and with it the expiry latch.
Reload ==
    IF stored = 0 THEN policy' = None /\ UNCHANGED hist
    ELSE IF policy.id = stored THEN UNCHANGED <<policy, hist>>
    ELSE Publish(stored)

Running == phase = "running"

-----------------------------------------------------------------------------
(* create_workload_session. *)

Set(a, r) == at' = [at EXCEPT ![a] = r]
End(a, how) == Set(a, [at[a] EXCEPT !.pc = how])
Fetching == {a \in Attempts : at[a].pc = "fetch"}

\* online_jwks_slots.try_acquire_owned.
SlotFree == Cardinality(Fetching) < Slots

\* Before the coordinator: the policy is read, the identity is looked up, and
\* an online identity needs a slot, which is not waited for.
Begin(a, t) ==
    LET p == PolicyOf(policy.id) IN
    /\ at[a].pc = "new" /\ Running /\ policy # None
    /\ IF Expired
       THEN Latch /\ End(a, "refused")
       ELSE /\ UNCHANGED <<policy, hist>>
            /\ IF \/ Cardinality(Matching(p, t)) # 1
                  \/ Subject(p, t).online /\ ~SlotFree
               THEN End(a, "refused")
               ELSE Set(a, [at[a] EXCEPT
                       !.pc = IF Subject(p, t).online THEN "fetch" ELSE "wait",
                       !.token = t, !.seen = policy.pub, !.id = policy.id])
    /\ UNCHANGED <<phase, stored, rows, coord, sessions, adm, owners, time>>

\* GithubActionsJwks::parse: some keys, each key id once.
WellFormed(jwks) ==
    jwks # {} /\ \A k, l \in jwks : k[1] = l[1] => k = l

\* The answer of the issuer; a failure or a late one ends the attempt.
Fetch(a) ==
    /\ at[a].pc = "fetch"
    /\ \/ \E k \in KeySets : ~at[a].late /\ WellFormed(k)
             /\ Set(a, [at[a] EXCEPT !.pc = "wait", !.jwks = k])
       \/ (CanFail \/ at[a].late) /\ End(a, "refused")
    /\ UNCHANGED <<phase, policy, stored, rows, coord, sessions, adm, owners,
                   time, hist>>

\* Arc::ptr_eq of the policy read at the start and the one read now.
SamePolicy(a) == policy # None /\ policy.pub = at[a].seen

\* With the coordinator: the gate, the policy and its expiry are looked at
\* again, and the token is verified at the present time.
Coordinate(a, act) ==
    LET p == PolicyOf(at[a].id)
        t == at[a].token
    IN
    /\ at[a].pc = "wait" /\ coord = "free"
    /\ IF at[a].late \/ ~Running \/ ~SamePolicy(a)
       THEN UNCHANGED <<policy, hist, coord>> /\ End(a, "refused")
       ELSE IF Expired THEN Latch /\ End(a, "refused") /\ UNCHANGED coord
       ELSE /\ UNCHANGED <<policy, hist>>
            /\ IF Verifies(p, t, at[a].jwks) /\ act \in p.may[Subject(p, t).who]
               THEN /\ coord' = a
                    /\ Set(a, [at[a] EXCEPT !.pc = "verified", !.now = wall,
                                            !.who = Subject(p, t).who])
               ELSE End(a, "refused") /\ UNCHANGED coord
    /\ UNCHANGED <<phase, stored, rows, sessions, adm, owners, time>>

LeastOf(S) == CHOOSE x \in S : \A y \in S : x <= y

Bounds(a) ==
    {at[a].now + Ttl, at[a].token.exp, PolicyOf(at[a].id).expires}
    \cup (IF at[a].who \in Humans THEN {HumanExpiry} ELSE {})

\* Answers of the Authority and of the administrator login that end it here.
AdmitRefused(a) ==
    /\ at[a].pc = "verified"
    /\ CanFail \/ at[a].late \/ LeastOf(Bounds(a)) <= at[a].now \/ phase # "running"
    /\ End(a, "refused") /\ coord' = "free"
    /\ UNCHANGED <<phase, policy, stored, rows, sessions, adm, owners, time, hist>>

\* admit_with_provenance puts the session into the registry, unless that was
\* closed meanwhile, and the consumption of the token is sent.
Admit(a) ==
    /\ at[a].pc = "verified" /\ ~at[a].late
    /\ LeastOf(Bounds(a)) > at[a].now /\ Running
    /\ sessions' = sessions \cup {a}
    /\ Set(a, [at[a] EXCEPT !.pc = "consuming", !.cmd = "queued",
                            !.expiry = LeastOf(Bounds(a))])
    /\ UNCHANGED <<phase, policy, stored, rows, coord, adm, owners, time, hist>>

\* Worker, ConsumeWorkloadToken: the deadline is looked at once, on the way in.
AuthorityTakes(a) ==
    /\ at[a].cmd = "queued"
    /\ Set(a, [at[a] EXCEPT !.cmd = IF at[a].late THEN "busy"
                                    ELSE IF phase = "locked" THEN "locked"
                                    ELSE "working"])
    /\ UNCHANGED <<phase, policy, stored, rows, coord, sessions, adm, owners,
                   time, hist>>

RowOf(a) == <<at[a].id, ReplayKey(at[a].token)>>

ConsumesAnyway(a) == Cardinality(rows) < MaxRows /\ at[a].token.exp > wall

\* consume_workload_token: refuses a full table, an expired token and a row
\* that is there.
Consumes(a) ==
    Cardinality(rows) < MaxRows /\ RowOf(a) \notin rows /\ at[a].token.exp > wall

\* The row and the audit event are one transaction.
AuthorityConsumes(a) ==
    /\ at[a].cmd = "working"
    /\ IF Consumes(a)
       THEN /\ rows' = rows \cup {RowOf(a)}
            /\ Set(a, [at[a] EXCEPT !.cmd = "ok"])
            /\ hist' = [hist EXCEPT !.accepted = @ \cup {<<RowOf(a), a>>}]
       ELSE /\ Set(a, [at[a] EXCEPT !.cmd = "invalid"])
            /\ UNCHANGED <<rows, hist>>
    /\ UNCHANGED <<phase, policy, stored, coord, sessions, adm, owners, time>>

\* The caller waits no longer: whether the token was consumed is unknown, so
\* the session goes and the broker faults, which closes every session.
ConsumeTimeout(a) ==
    /\ at[a].pc = "consuming" /\ at[a].late
    /\ End(a, "refused") /\ coord' = "free"
    /\ sessions' = {} /\ phase' = "stopped"
    /\ UNCHANGED <<policy, stored, rows, adm, owners, time, hist>>

\* consume_error_requires_fault: a refusal is not a fault, anything else is.
ConsumeFailed(a) ==
    /\ at[a].pc = "consuming" /\ at[a].cmd \in {"busy", "invalid", "locked"}
    /\ End(a, "refused") /\ coord' = "free"
    /\ IF at[a].cmd = "locked"
       THEN sessions' = {} /\ phase' = "stopped"
       ELSE sessions' = sessions \ {a} /\ UNCHANGED phase
    /\ UNCHANGED <<policy, stored, rows, adm, owners, time, hist>>

\* Consumed.  A response that comes too late leaves the session as it is; for
\* an administrator's principal, publication may have been closed meanwhile.
Consumed(a) ==
    /\ at[a].pc = "consuming" /\ at[a].cmd = "ok" /\ coord' = "free"
    /\ \/ End(a, IF at[a].late THEN "unheard" ELSE "done") /\ UNCHANGED sessions
       \/ at[a].who \in Humans /\ ~at[a].late /\ CanFail
          /\ End(a, "refused") /\ sessions' = sessions \ {a}
    /\ UNCHANGED <<phase, policy, stored, rows, adm, owners, time, hist>>

\* WORKLOAD_ADMISSION_TIMEOUT runs out.
Deadline(a) ==
    /\ at[a].pc \in {"fetch", "wait", "verified", "consuming"} /\ ~at[a].late
    /\ at' = [at EXCEPT ![a].late = TRUE]
    /\ UNCHANGED <<phase, policy, stored, rows, coord, sessions, adm, owners,
                   time, hist>>

-----------------------------------------------------------------------------
(* Activation of a policy. *)

StoredVersion == IF stored = 0 THEN 0 ELSE PolicyOf(stored).version

\* activate_policy_until up to the call of the Authority.
ActivateBegin(p) ==
    /\ adm.pc = "idle" /\ coord = "free" /\ Running /\ hist.pubs < MaxPubs
    /\ Compiles(p) /\ p.expires > wall
    /\ coord' = "admin"
    /\ adm' = [pc |-> "activating", id |-> p.id, had |-> policy # None,
               was |-> policy.id = p.id]
    /\ UNCHANGED <<phase, policy, stored, rows, at, sessions, owners, time, hist>>

\* activate_policy_bundle deletes the rows of all used tokens; an exact retry
\* returns before that.
StoreBundle(i) ==
    IF i = stored THEN UNCHANGED <<stored, rows>>
    ELSE stored' = i /\ rows' = {}

Accepts(i) == i = stored \/ PolicyOf(i).version = StoredVersion + 1

ActivateCommit ==
    /\ adm.pc = "activating"
    /\ IF Accepts(adm.id)
       THEN StoreBundle(adm.id) /\ adm' = [adm EXCEPT !.pc = "committed"]
            /\ UNCHANGED coord
       ELSE adm' = Idle /\ coord' = "free" /\ UNCHANGED <<stored, rows>>
    /\ UNCHANGED <<phase, policy, at, sessions, owners, time, hist>>

\* The reply is late: the Authority has stored the bundle or will not.
ActivateTimeout ==
    /\ adm.pc = "activating" /\ CanFail
    /\ adm' = [adm EXCEPT !.pc = "reconciling"]
    /\ \/ Accepts(adm.id) /\ StoreBundle(adm.id)
       \/ UNCHANGED <<stored, rows>>
    /\ UNCHANGED <<phase, policy, coord, at, sessions, owners, time, hist>>

\* Reconciliation after a timeout: the policy is loaded again.
Reconcile ==
    /\ adm.pc = "reconciling"
    /\ Reload
    /\ sessions' = IF ~adm.was /\ policy'.id = adm.id THEN {} ELSE sessions
    /\ adm' = Idle /\ coord' = "free"
    /\ UNCHANGED <<phase, stored, rows, at, owners, time>>

\* Reconciliation fails: everything is closed and the broker faults.
ReconcileFailed ==
    /\ adm.pc = "reconciling"
    /\ policy' = None /\ sessions' = {} /\ phase' = "stopped"
    /\ adm' = Idle /\ coord' = "free" /\ Forget
    /\ UNCHANGED <<stored, rows, at, owners, time>>

\* cancel_private_credentials_until gives up at the deadline: activate_policy_until
\* returns the error with the bundle stored and the old policy still active.
CancelLate ==
    /\ adm.pc = "committed" /\ owners
    /\ adm' = Idle /\ coord' = "free"
    /\ hist' = [hist EXCEPT !.kept = IF policy.id = stored THEN @ ELSE @ \cup {policy.id}]
    /\ UNCHANGED <<phase, policy, stored, rows, at, sessions, owners, time>>

\* Sessions go before the new policy is published.
ActivatePublish ==
    /\ adm.pc = "committed" /\ ~owners
    /\ IF adm.was THEN UNCHANGED <<sessions, policy, hist>>
       ELSE sessions' = {} /\ Publish(adm.id)
    /\ adm' = Idle /\ coord' = "free"
    /\ UNCHANGED <<phase, stored, rows, at, owners, time>>

\* A request that owns a private key starts under the coordinator and ends
\* some time after it is cancelled.
OwnerStarts ==
    /\ PrivateOwners /\ Running /\ coord = "free" /\ ~owners
    /\ owners' = TRUE
    /\ UNCHANGED <<phase, policy, stored, rows, coord, at, sessions, adm, time, hist>>

OwnerEnds ==
    /\ owners /\ owners' = FALSE
    /\ UNCHANGED <<phase, policy, stored, rows, coord, at, sessions, adm, time, hist>>

-----------------------------------------------------------------------------
(* Lock, unlock, fault, crash. *)

Unlock ==
    /\ phase = "locked" /\ coord = "free" /\ Reload /\ phase' = "running"
    /\ UNCHANGED <<stored, rows, coord, at, sessions, adm, owners, time>>

\* run_drain_lock: under the coordinator; no attempt can be past it.
Lock ==
    /\ CanFail /\ Running /\ coord = "free" /\ ~owners
    /\ phase' = "locked" /\ sessions' = {} /\ policy' = None
    /\ Forget
    /\ UNCHANGED <<stored, rows, coord, at, adm, owners, time>>

\* request_fault from elsewhere.
Fault ==
    /\ CanFail /\ Running
    /\ phase' = "stopped" /\ sessions' = {}
    /\ UNCHANGED <<policy, stored, rows, coord, at, adm, owners, time, hist>>

\* The process ends and starts again; only the vault's rows are left.
Restart ==
    /\ CanFail /\ phase' = "locked" /\ policy' = None /\ sessions' = {}
    /\ coord' = "free" /\ adm' = Idle /\ owners' = FALSE
    /\ at' = [a \in Attempts |->
                IF at[a].pc = "new" THEN at[a]
                ELSE [at[a] EXCEPT !.pc = "lost", !.cmd = "none"]]
    /\ Forget
    /\ UNCHANGED <<stored, rows, time>>

Tick ==
    /\ wall < MaxTime /\ mono < MaxTime
    /\ wall' = wall + 1 /\ mono' = mono + 1
    /\ UNCHANGED <<phase, policy, stored, rows, coord, at, sessions, adm, owners, hist>>

WallSetBack ==
    /\ hist.back < MaxBack /\ wall > 0 /\ wall' = wall - 1
    /\ hist' = [hist EXCEPT !.back = @ + 1]
    /\ UNCHANGED <<phase, policy, stored, rows, coord, at, sessions, adm, owners, mono>>

Step(a) ==
    \/ Fetch(a) \/ Coordinate(a, "act") \/ AdmitRefused(a) \/ Admit(a)
    \/ ConsumeTimeout(a) \/ ConsumeFailed(a) \/ Consumed(a)

Activation ==
    ActivateTimeout \/ Reconcile \/ ReconcileFailed \/ CancelLate \/ ActivatePublish

Next ==
    \/ \E a \in Attempts :
          (\E t \in Tokens : Begin(a, t)) \/ Step(a) \/ Deadline(a)
          \/ Coordinate(a, "other") \/ AuthorityTakes(a) \/ AuthorityConsumes(a)
    \/ \E p \in Policies : ActivateBegin(p)
    \/ ActivateCommit \/ Activation
    \/ OwnerStarts \/ OwnerEnds \/ Unlock \/ Lock \/ Fault \/ Restart
    \/ Tick \/ WallSetBack

Spec == Init /\ [][Next]_vars

\* Every await of an attempt ends at its deadline or before; the coordinator
\* is a fair mutex, and the administrator's call ends at its own deadline.
\* Nothing is assumed of the Authority, which may never answer.
Fairness ==
    /\ \A a \in Attempts : WF_vars(Deadline(a)) /\ SF_vars(Step(a))
    /\ WF_vars(Activation)
FairSpec == Spec /\ Fairness

-----------------------------------------------------------------------------
(* Properties. *)

TypeOK ==
    /\ phase \in {"locked", "running", "stopped"}
    /\ policy.id \in {0} \cup {p.id : p \in Policies}
    /\ sessions \subseteq Attempts /\ coord \in Attempts \cup {"free", "admin"}
    /\ Cardinality(rows) <= MaxRows
    /\ Cardinality(Fetching) <= Slots

\* Under one policy a token is consumed for one session only, whatever is
\* retried, restarted or activated again in between, and when the wall clock
\* is set back (consume_workload_token).  The rows are deleted when a later
\* policy is stored; the exception is a policy that stays active after that,
\* because the activation gave up waiting for the private credentials
\* (activate_policy_until, CancelLate): its tokens can be used again.
TokenUsedOnce ==
    \A x, y \in hist.accepted : x[1] = y[1] => x = y \/ x[1][1] \in hist.kept

\* A session that its attempt has left behind has its token recorded as used
\* (a refused, late or lost consumption takes the session with it).
SessionsAreRecorded ==
    \A a \in sessions :
        at[a].pc # "consuming" => \E x \in hist.accepted : x[2] = a

\* Every live workload session was admitted under the policy that is active
\* (the policy is compared again under the coordinator; activation revokes
\* before it publishes), or under one that was kept active too long: when that
\* one's activation is then retried and times out, the reconciliation publishes
\* the later policy and looks only for the one it was asked for.
SessionsUnderActivePolicy ==
    \A a \in sessions : at[a].seen = policy.pub \/ at[a].id \in hist.kept

\* A session ends no later than its token, the policy it was verified under
\* and the login of its principal.
SessionsAreBounded ==
    \A a \in sessions :
        /\ at[a].expiry <= at[a].token.exp
        /\ at[a].expiry <= PolicyOf(at[a].id).expires
        /\ at[a].who \in Humans => at[a].expiry <= HumanExpiry

\* A workload gets a session only with a token signed by a key of its own
\* identity: a key another identity of the same issuer lists does not do
\* (compile, key_selectors).
SignedByItsIdentity ==
    \A a \in sessions :
        LET i == CHOOSE i \in Identities(PolicyOf(at[a].id)) : i.who = at[a].who
        IN IF i.online THEN <<at[a].token.kid, at[a].token.key>> \in at[a].jwks
           ELSE at[a].token.key \in {k.key : k \in i.keys}

\* A policy that was once seen expired admits nobody until the broker is
\* locked or restarted, even if the wall clock is set back and the policy is
\* activated again or reconciled (is_expired, preserve_expiry_latch).
ExpiryIsFinal ==
    \A a \in Attempts :
          (at[a].pc = "wait" /\ at'[a].pc = "verified")
              => at[a].id \notin hist.dead

\* While the broker runs and no activation is under way, the active policy is
\* the one in the vault, or one that an activation left active when it gave up
\* after its commit (reload_policy_after_unlock, activate_policy_until).
ActiveIsStored ==
    (Running /\ adm.pc = "idle") => policy.id = stored \/ policy.id \in hist.kept

=============================================================================
