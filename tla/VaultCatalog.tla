----------------------------- MODULE VaultCatalog -----------------------------
(***************************************************************************)
(* What the vault stores and the operations of its single worker thread    *)
(* that change it: credentials and their versions, actions and their       *)
(* versions, the two wrappers of the root key, the signed policy, and the  *)
(* replacement of the root key itself                                      *)
(* (crates/rekey-vault/src/authority and store).                           *)
(*                                                                         *)
(* One command is one step, because one thread serves the mailbox and each *)
(* command commits one SQLite transaction.  Cryptography is kept as what   *)
(* it decides: a record carries the root it is sealed under, and a wrapper *)
(* the secret that opens it.                                               *)
(***************************************************************************)
EXTENDS Naturals, FiniteSets

CONSTANTS Credentials, \* identifiers of credentials
          KindOf,      \* the kind each credential is created with
          ActionIds,   \* identifiers of actions
          Secrets,     \* passwords and recovery keys an administrator knows
          Signers,     \* policy signers that can be offered
          ModeSigners, \* the signers whose key algorithm fits the vault's mode
          Digests,     \* contents a policy bundle can have
          Deadlines,   \* whether commands carry a deadline that may pass
          MaxVersion,  \* bound on versions of a credential or an action
          MaxPolicy,   \* bound on policy versions
          MaxRoots     \* bound on root keys

Kinds == {"opaque", "github-app", "aws", "oauth", "ssh", "mtls"}
WrapperKinds == {"password", "recovery"}
Versions == 1..MaxVersion
None == "none"

CatalogAssumption ==
    /\ KindOf \in [Credentials -> Kinds]
    /\ MaxVersion \in Nat \ {0} /\ MaxPolicy \in Nat /\ MaxRoots \in Nat \ {0}
    /\ Deadlines \in BOOLEAN /\ ModeSigners \subseteq Signers
    /\ None \notin Secrets \cup Signers \cup Digests \cup Credentials

VARIABLES st,    \* VaultState of the worker: locked, unlocked or faulted
          mem,   \* the root key in memory, 0 when there is none
          db,    \* the committed contents of the vault database
          said,  \* the answer to the last command
          past   \* history: policy bundles activated, secrets given up

vars == <<st, mem, db, said, past>>

-----------------------------------------------------------------------------
(* Records. *)

NoVersion == [state |-> None, seal |-> 0]
NoAction == [state |-> None, cred |-> None, seal |-> 0]
NoCredential == [state |-> None, cur |-> 0, seal |-> 0]
Say(r) == [what |-> r, cred |-> None, ver |-> 0]
NoBundle == [version |-> 0, digest |-> None]

\* initialize_vault_records: root 1, one password and one recovery key.
Init ==
    /\ st = "locked" /\ mem = 0 /\ said = Say("ok")
    /\ \E p, r \in Secrets :
        db = [root |-> 1,
              cred |-> [c \in Credentials |-> NoCredential],
              ver |-> [c \in Credentials |-> [v \in Versions |-> NoVersion]],
              act |-> [a \in ActionIds |-> [v \in Versions |-> NoAction]],
              wrap |-> {[kind |-> "password", secret |-> p, root |-> 1],
                        [kind |-> "recovery", secret |-> r, root |-> 1]},
              policy |-> [trust |-> None, bundle |-> NoBundle, seal |-> 1]]
    /\ past = [bundles |-> {}, dead |-> {}]

-----------------------------------------------------------------------------
(* What the worker verifies before it relies on a record. *)

\* validate_credential_version_invariants.
VersionsConsistent(d) ==
    /\ \A c \in Credentials : d.cred[c].state # None =>
          LET current == d.ver[c][d.cred[c].cur]
          IN  /\ d.cred[c].state = "active" => current.state = "active"
              /\ d.cred[c].state = "revoked" => current.state = "revoked"
    /\ \A c \in Credentials, v \in Versions :
          d.ver[c][v].state = "active" =>
              d.cred[c].state = "active" /\ d.cred[c].cur = v

\* credential_state::verify and decrypt_credential_payload under a root.
CredentialOpens(d, c, root) ==
    /\ d.cred[c].seal = root
    /\ \A v \in Versions : d.ver[c][v].state # None => d.ver[c][v].seal = root

\* verified_metadata and verified_record_to_action under a root.
ActionsOpen(d, root) ==
    \A a \in ActionIds, v \in Versions :
        d.act[a][v].state # None => d.act[a][v].seal = root

\* verified_policy_material under a root.
PolicyOpens(d, root) ==
    /\ d.policy.seal = root
    /\ d.policy.bundle.version # 0 => d.policy.trust # None

\* active_wrapper, kek_for_wrapper and unwrap_vrk: the root a secret opens.
Unwrapped(kind, s) ==
    {w.root : w \in {x \in db.wrap : x.kind = kind /\ x.secret = s}}

\* verify_proof_inner: what the secret opens is the root in memory.
Proves(kind, s) == mem \in Unwrapped(kind, s)

-----------------------------------------------------------------------------
(* How a command ends. *)

Answer(r) == said' = Say(r) /\ UNCHANGED <<st, mem, db, past>>

\* Worker::fault: the root is dropped and nothing but a restart helps.
Fault ==
    /\ st' = "faulted" /\ mem' = 0 /\ said' = Say("failed")
    /\ UNCHANGED <<db, past>>

TransactEarly(new) ==
    \/ db' = new /\ said' = Say("ok") /\ UNCHANGED <<st, mem>>
    \/ Deadlines /\ db' = new /\ said' = Say("busy") /\ UNCHANGED <<st, mem>>
    \/ st' = "faulted" /\ mem' = 0 /\ said' = Say("failed") /\ UNCHANGED db

\* ensure_mutation_current, GenerationAttempt and complete_generation: the
\* deadline may have passed before the generation is reserved, and then
\* nothing has changed; after that a failure to commit faults the worker.
Transact(new) ==
    \/ db' = new /\ said' = Say("ok") /\ UNCHANGED <<st, mem>>
    \/ Deadlines /\ said' = Say("busy") /\ UNCHANGED <<st, mem, db>>
    \/ st' = "faulted" /\ mem' = 0 /\ said' = Say("failed") /\ UNCHANGED db

\* require_unlocked and verify_proof, passed.
Prove(kind, s) == st = "unlocked" /\ Proves(kind, s)

\* verify_proof refuses: nothing changes but the failure count.
RefuseProof(kind, s) ==
    /\ st = "unlocked" /\ ~Proves(kind, s)
    /\ Answer("invalid-proof")

-----------------------------------------------------------------------------
(* Credentials. *)

Live(c) == db.cred[c].state = "active"

\* load_verified_credential: the whole catalogue is consistent and the record
\* opens under the root in memory.
Loads(c) ==
    /\ db.cred[c].state # None
    /\ VersionsConsistent(db) /\ CredentialOpens(db, c, mem)

\* insert_credential and encrypt_new_version.
InsertCredential(c) ==
    [db EXCEPT !.cred[c] = [state |-> "active", cur |-> 1, seal |-> mem],
               !.ver[c][1] = [state |-> "active", seal |-> mem]]

\* An identifier is random: it is never one the vault already holds.
CredentialAdd(c, kind, s) ==
    /\ Prove(kind, s) /\ db.cred[c].state = None
    /\ KindOf[c] \notin {"ssh", "oauth"}
    /\ Transact(InsertCredential(c)) /\ UNCHANGED past

\* oauth_grant_create, ssh_generate and ssh_import.
CredentialSourceAdd(c, kind, s) ==
    /\ Prove(kind, s) /\ db.cred[c].state = None
    /\ KindOf[c] \in {"ssh", "oauth"}
    /\ Transact(InsertCredential(c)) /\ UNCHANGED past

\* store rotate_credential: the active versions retire, the next is inserted
\* and becomes current, in one transaction.
RotatedCredential(c) ==
    LET next == db.cred[c].cur + 1
    IN [db EXCEPT !.ver[c] = [v \in Versions |->
                      IF v = next THEN [state |-> "active", seal |-> mem]
                      ELSE IF db.ver[c][v].state = "active"
                           THEN [db.ver[c][v] EXCEPT !.state = "retired"]
                           ELSE db.ver[c][v]],
                  !.cred[c] = [state |-> "active", cur |-> next, seal |-> mem]]

\* rotate_credential_inner; an expected version of 0 is none.
RotateCredentialInner(c, expected) ==
    /\ Loads(c) /\ Live(c)
    /\ KindOf[c] # "ssh"
    /\ expected # 0 => expected = db.cred[c].cur
    /\ KindOf[c] = "mtls" => expected # 0
    /\ db.cred[c].cur < MaxVersion
    /\ Transact(RotatedCredential(c)) /\ UNCHANGED past

CredentialRotate(c, expected, kind, s) ==
    /\ Prove(kind, s) /\ KindOf[c] # "oauth"
    /\ RotateCredentialInner(c, expected)

\* oauth_grant_update by an administrator, or rotate_oauth_grant by the
\* broker's refresh, which brings no proof but always an expected version.
RotateOauthGrant(c, expected) ==
    /\ st = "unlocked" /\ KindOf[c] = "oauth" /\ expected # 0
    /\ RotateCredentialInner(c, expected)

\* store revoke_credential: the record and its active version together.
RevokedCredential(c) ==
    [db EXCEPT !.cred[c] = [@ EXCEPT !.state = "revoked", !.seal = mem],
               !.ver[c] = [v \in Versions |->
                   IF db.ver[c][v].state = "active"
                   THEN [db.ver[c][v] EXCEPT !.state = "revoked"]
                   ELSE db.ver[c][v]]]

\* credential_revoke; the store refuses one that is revoked already.
CredentialRevoke(c, kind, s) ==
    /\ Prove(kind, s) /\ Loads(c) /\ Live(c)
    /\ Transact(RevokedCredential(c)) /\ UNCHANGED past

\* prepare_credential_inner, prepare_oauth_grant, prepare_aws_static and
\* prepare_mtls_connection: who may be handed the plaintext of a kind.
PurposeOf(kind) ==
    CASE kind \in {"opaque", "github-app"} -> "execution"
      [] kind = "oauth" -> "oauth-manager"
      [] kind = "aws" -> "aws-connector"
      [] kind = "ssh" -> "ssh-signature"
      [] kind = "mtls" -> "mtls-connection"

\* The plaintext of the current version leaves the worker.
PrepareCredential(c, purpose) ==
    /\ st = "unlocked" /\ Loads(c) /\ Live(c)
    /\ purpose = PurposeOf(KindOf[c])
    /\ db.ver[c][db.cred[c].cur].state = "active"
    /\ said' = [what |-> "secret", cred |-> c, ver |-> db.cred[c].cur]
    /\ UNCHANGED <<st, mem, db, past>>

\* rotated_version_ciphertexts: every version under a new data key, wrapped
\* by the given root.
ResealedVersions(d, root) ==
    [c \in Credentials |-> [v \in Versions |->
        IF d.ver[c][v].state = None THEN NoVersion
        ELSE [d.ver[c][v] EXCEPT !.seal = root]]]

\* rotate_dek and store replace_version_ciphertexts.
RotateDek(kind, s) ==
    /\ Prove(kind, s) /\ VersionsConsistent(db)
    /\ \A c \in Credentials :
          db.cred[c].state # None => CredentialOpens(db, c, mem)
    /\ Transact([db EXCEPT !.ver = ResealedVersions(db, mem)])
    /\ UNCHANGED past

-----------------------------------------------------------------------------
(* Actions. *)

ActionVersions(a) == {v \in Versions : db.act[a][v].state # None}

NewAction(c) == [state |-> "active", cred |-> c, seal |-> mem]

\* The checks of action_upsert on the credential a definition names.
Bindable(c) ==
    /\ Loads(c) /\ Live(c) /\ KindOf[c] # "mtls"

\* insert_action: every version that is not retired retires, under a seal of
\* the root in memory, and the next version is inserted.
Upserted(a, c) ==
    LET top == CHOOSE v \in ActionVersions(a) : \A w \in ActionVersions(a) : w <= v
    IN [db EXCEPT !.act[a] = [v \in Versions |->
           IF v = top + 1 THEN NewAction(c)
           ELSE IF db.act[a][v].state \in {"active", "disabled"}
                THEN [db.act[a][v] EXCEPT !.state = "retired", !.seal = mem]
                ELSE db.act[a][v]]]

\* action_upsert of an existing action: a new version of it.
ActionUpdate(a, c, kind, s) ==
    /\ Prove(kind, s) /\ Bindable(c) /\ ActionsOpen(db, mem)
    /\ ActionVersions(a) # {} /\ MaxVersion \notin ActionVersions(a)
    /\ Transact(Upserted(a, c)) /\ UNCHANGED past

\* insert_actions_before: all of them, in one transaction.
Inserted(as, c) ==
    [db EXCEPT !.act = [a \in ActionIds |->
        IF a \in as THEN [db.act[a] EXCEPT ![1] = NewAction(c)]
        ELSE db.act[a]]]

\* action_upsert without an identifier, and template_install, which inserts
\* all the actions of its bindings or none.
ActionInsert(as, c, kind, s) ==
    /\ Prove(kind, s) /\ Bindable(c) /\ ActionsOpen(db, mem)
    /\ Cardinality(as) > 1 => KindOf[c] = "opaque"
    /\ \A a \in as : ActionVersions(a) = {}
    /\ Transact(Inserted(as, c)) /\ UNCHANGED past

\* store disable_action.
Disabled(a, v) ==
    [db EXCEPT !.act[a][v] = [@ EXCEPT !.state = "disabled", !.seal = mem]]

\* action_disable: only an active version can be disabled.
ActionDisable(a, kind, s) ==
    /\ Prove(kind, s) /\ ActionsOpen(db, mem)
    /\ \E v \in Versions :
        /\ db.act[a][v].state = "active"
        /\ Transact(Disabled(a, v))
    /\ UNCHANGED past

-----------------------------------------------------------------------------
(* Wrappers. *)

\* replace_wrapper: the active wrapper of the kind is disabled and erased,
\* and the new one wraps the root in memory.
ReplaceWrapper(kind, new) ==
    [db EXCEPT !.wrap = {w \in @ : w.kind # kind}
                        \cup {[kind |-> kind, secret |-> new, root |-> mem]}]

Secret(kind) == (CHOOSE w \in db.wrap : w.kind = kind).secret

\* The secret that the change makes worthless.
GiveUp(kind, new) ==
    past' = [past EXCEPT !.dead =
                IF db' # db
                THEN (@ \cup {<<kind, Secret(kind)>>}) \ {<<kind, new>>}
                ELSE @]

\* password_change, under either proof.
PasswordChange(new, kind, s) ==
    /\ Prove(kind, s)
    /\ Transact(ReplaceWrapper("password", new))
    /\ GiveUp("password", new)

\* recovery_rotate, under the password only; the new key is random.
RecoveryRotate(new, s) ==
    /\ Prove("password", s)
    /\ new # Secret("recovery") /\ <<"recovery", new>> \notin past.dead
    /\ Transact(ReplaceWrapper("recovery", new))
    /\ GiveUp("recovery", new)

-----------------------------------------------------------------------------
(* Signed policy. *)

\* store install_policy_trust and activate_policy_bundle, with update_state.
TrustInstalled(g) ==
    [db EXCEPT !.policy = [trust |-> g, bundle |-> NoBundle, seal |-> mem]]

BundleActivated(offered) ==
    [db EXCEPT !.policy = [@ EXCEPT !.bundle = offered, !.seal = mem]]

\* policy_trust_install; offering the installed signer again changes nothing.
PolicyTrustInstall(g, kind, s) ==
    /\ Prove(kind, s) /\ PolicyOpens(db, mem)
    /\ g \in ModeSigners
    /\ IF db.policy.trust = None
       THEN Transact(TrustInstalled(g))
       ELSE Answer(IF g = db.policy.trust THEN "ok" ELSE "trust-conflict")
    /\ UNCHANGED past

\* The version rule of policy_bundle_activate: 1 first, then one more.
BundleFollows(version, digest) == version = db.policy.bundle.version + 1

\* policy_bundle_activate of a bundle signed by g; the active bundle offered
\* again is answered without a change, any other repetition is a conflict,
\* and so is a bundle that has expired meanwhile.
PolicyBundleActivate(g, version, digest, expired, kind, s) ==
    LET held == db.policy.bundle
        offered == [version |-> version, digest |-> digest]
    IN
    /\ Prove(kind, s) /\ PolicyOpens(db, mem)
    /\ db.policy.trust # None
    /\ IF g # db.policy.trust THEN Answer("version-conflict")
       ELSE IF held = offered THEN Answer("ok")
       ELSE IF ~BundleFollows(version, digest) \/ expired
            THEN Answer("version-conflict")
       ELSE /\ Transact(BundleActivated(offered))
            /\ past' = IF db' = db THEN past
                       ELSE [past EXCEPT !.bundles = @ \cup {offered}]

-----------------------------------------------------------------------------
(* The root key. *)

\* replace_root_ciphertexts: one transaction reseals every record and wraps
\* the new root under the two secrets that were proved.
ReplaceRoot(root, p, r) ==
    [db EXCEPT !.root = root,
        !.cred = [c \in Credentials |-> IF db.cred[c].state = None
                     THEN NoCredential ELSE [db.cred[c] EXCEPT !.seal = root]],
        !.ver = ResealedVersions(db, root),
        !.act = [a \in ActionIds |-> [v \in Versions |->
                     IF db.act[a][v].state = None THEN NoAction
                     ELSE [db.act[a][v] EXCEPT !.seal = root]]],
        !.wrap = {[kind |-> "password", secret |-> p, root |-> root],
                  [kind |-> "recovery", secret |-> r, root |-> root]},
        !.policy = [@ EXCEPT !.seal = root]]

\* Everything a root must open before the vault is served or resealed.
Opens(d, root) ==
    /\ d.root = root /\ VersionsConsistent(d)
    /\ \A c \in Credentials :
          d.cred[c].state # None => CredentialOpens(d, c, root)
    /\ ActionsOpen(d, root) /\ PolicyOpens(d, root)

\* rotate_vrk: only on a locked vault, with both secrets, which must open the
\* same root; neither root is installed in the worker.
RotateVrk(p, r) ==
    LET roots == Unwrapped("password", p) \cap Unwrapped("recovery", r) IN
    /\ st = "locked" /\ db.root < MaxRoots
    /\ IF roots = {} THEN Answer("invalid-proof")
       ELSE /\ \A root \in roots : Opens(db, root)
            /\ Transact(ReplaceRoot(db.root + 1, p, r))
            /\ UNCHANGED past

\* unlock: what the wrapper opens must prove the header's integrity.
Unlock(kind, s) ==
    /\ st # "faulted"
    /\ IF Unwrapped(kind, s) = {} THEN Answer("invalid-proof")
       ELSE \E root \in Unwrapped(kind, s) :
            /\ db.root = root /\ PolicyOpens(db, root)
            /\ st' = "unlocked" /\ mem' = root /\ said' = Say("ok")
            /\ UNCHANGED <<db, past>>

Lock ==
    /\ st = "unlocked"
    /\ st' = "locked" /\ mem' = 0 /\ said' = Say("ok")
    /\ UNCHANGED <<db, past>>

\* The process ends and starts again: the database is all that is left.
Restart ==
    /\ st # "locked"
    /\ st' = "locked" /\ mem' = 0 /\ said' = Say("ok")
    /\ UNCHANGED <<db, past>>

-----------------------------------------------------------------------------
CredentialNext(kind, s) ==
    \/ \E c \in Credentials :
        \/ CredentialAdd(c, kind, s)
        \/ CredentialSourceAdd(c, kind, s)
        \/ \E v \in 0..MaxVersion : CredentialRotate(c, v, kind, s)
        \/ CredentialRevoke(c, kind, s)
    \/ RotateDek(kind, s)

ActionNext(kind, s) ==
    \/ \E a \in ActionIds, c \in Credentials : ActionUpdate(a, c, kind, s)
    \/ \E as \in SUBSET ActionIds \ {{}}, c \in Credentials :
          ActionInsert(as, c, kind, s)
    \/ \E a \in ActionIds : ActionDisable(a, kind, s)

PolicyNext(kind, s) ==
    \/ \E g \in Signers : PolicyTrustInstall(g, kind, s)
    \/ \E g \in Signers, v \in 1..MaxPolicy, d \in Digests, e \in BOOLEAN :
          PolicyBundleActivate(g, v, d, e, kind, s)

KeyNext(kind, s) ==
    \/ \E new \in Secrets : PasswordChange(new, kind, s)
    \/ \E r \in Secrets : kind = "password" /\ RotateVrk(s, r)
    \/ Unlock(kind, s)
    \/ RefuseProof(kind, s)

Next ==
    \/ \E kind \in WrapperKinds, s \in Secrets :
        CredentialNext(kind, s) \/ ActionNext(kind, s)
        \/ PolicyNext(kind, s) \/ KeyNext(kind, s)
    \/ \E new, s \in Secrets : RecoveryRotate(new, s)
    \/ \E c \in Credentials, v \in 1..MaxVersion : RotateOauthGrant(c, v)
    \/ \E c \in Credentials : PrepareCredential(c, PurposeOf(KindOf[c]))
    \/ Lock
    \/ Restart

Spec == Init /\ [][Next]_vars

-----------------------------------------------------------------------------
(* Properties. *)

TypeOK ==
    /\ st \in {"locked", "unlocked", "faulted"}
    /\ mem \in 0..MaxRoots /\ db.root \in 1..MaxRoots
    /\ \A w \in db.wrap : w.kind \in WrapperKinds /\ w.secret \in Secrets
    /\ said.cred \in Credentials \cup {None} /\ said.ver \in 0..MaxVersion

\* Whatever has been committed, the next unlock and every later command find
\* a vault they can open: all records are sealed under the root the header
\* proves, exactly one wrapper of each kind opens it, the root in memory is
\* that root, and each action has at most one version that is not retired,
\* its newest (prove_integrity, validate_credential_version_invariants,
\* verified_metadata and verified_policy_material never fault on the
\* worker's own writes).
StoredStateVerifies ==
    /\ Opens(db, db.root)
    /\ \A k \in WrapperKinds :
          /\ Cardinality({w \in db.wrap : w.kind = k}) = 1
          /\ \A w \in db.wrap : w.root = db.root
    /\ st = "unlocked" => mem = db.root
    /\ \A a \in ActionIds, v, w \in Versions :
          (v < w /\ db.act[a][w].state # None) => db.act[a][v].state = "retired"

\* A password or recovery key that was replaced opens nothing any more, even
\* after the root was replaced in between (replace_wrapper, rotate_vrk).
OldProofsDead ==
    \A x \in past.dead : Unwrapped(x[1], x[2]) = {}

\* A policy version names one bundle for ever: versions are activated in
\* sequence without gaps and the stored one is the latest
\* (policy_bundle_activate).
PolicyVersionNamesOneBundle ==
    /\ \A b \in past.bundles : b.version <= db.policy.bundle.version
    /\ Cardinality(past.bundles) = db.policy.bundle.version

\* The secret handed out is that of the newest version, and its credential
\* has not been revoked (prepare_credential_inner with rotate_credential and
\* revoke_credential).
SecretIsCurrent ==
    said.what = "secret" =>
        /\ db.cred[said.cred].state = "active"
        /\ \A v \in Versions :
              db.ver[said.cred][v].state # None => v <= said.ver

\* History is only ever added to: a revoked credential stays revoked, a
\* version that has left the active state never returns, and a version of
\* an action names the same definition for ever, so what a policy, a session
\* or an audit row refers to by version cannot change under it.
HistoryOnlyGrows ==
    /\ \A c \in Credentials :
          /\ db.cred[c].state = "revoked" => db'.cred[c].state = "revoked"
          /\ \A v \in Versions : db.ver[c][v].state \in {"retired", "revoked"}
                => db'.ver[c][v].state = db.ver[c][v].state
    /\ \A a \in ActionIds, v \in Versions : db.act[a][v].state # None =>
          /\ db'.act[a][v].cred = db.act[a][v].cred
          /\ db.act[a][v].state = "retired" => db'.act[a][v].state = "retired"
          /\ db.act[a][v].state = "disabled" => db'.act[a][v].state # "active"
    /\ db.policy.trust # None => db'.policy.trust = db.policy.trust

\* A command that is not answered "ok" has changed nothing: a passed deadline
\* is answered before the generation is reserved, and a failed commit leaves
\* the database as it was and the worker faulted.
RefusedChangesNothing ==
    said'.what # "ok" => db' = db
=============================================================================
