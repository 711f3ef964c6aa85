--------------------------- MODULE PolicySnapshots ---------------------------
(***************************************************************************)
(* Signed policy: what makes a snapshot valid, what it decides for a       *)
(* request, and how two editors of a personal policy draft, review, sign   *)
(* and activate its successors.                                            *)
(*                                                                         *)
(* The rules half: the owner of the trusted key writes a snapshot rule by  *)
(* rule (`raw`).  The drafts half: an editor reads the active snapshot,    *)
(* asks for a draft against it, shows the difference and activates what    *)
(* was signed.  Names, hashes and keys are abstract; numbers pass the      *)
(* canonical encoding, which rounds them beyond Exact.                     *)
(***************************************************************************)
EXTENDS Naturals, Sequences, FiniteSets, SequencesExt

CONSTANTS
    Principals, Actions,
    Hashes,        \* parameter hashes of the requests
    Keys,          \* public keys of approvers, ordered as numbers
    RuleIds,       \* rule ids, ordered as numbers
    MaxRules,      \* bound on the rules of the snapshot written by hand
    Capabilities, ChoiceRules, Budgets, MaxProfiles,
    Names,         \* names of connections, SSH keys and derived credentials
    Editors,
    Exact,         \* the largest number whose canonical form is itself
    Expiries, MaxNow

BoundsAssumption ==
    /\ MaxRules \in Nat /\ MaxProfiles \in Nat /\ Exact \in Nat
    /\ MaxNow \in Nat
    /\ Keys \subseteq Nat /\ RuleIds \subseteq Nat /\ Expiries \subseteq Nat

VARIABLES
    now,
    trust,      \* the algorithm of the installed trust root
    active,     \* the active snapshot, Empty before the first
    raw,        \* the snapshot the key's owner writes by hand
    editor,     \* per editor: what it read, selected and drafted
    origin      \* history: where the active snapshot comes from

vars == <<now, trust, active, raw, editor, origin>>

None == "none"
Omitted == {"omitted"}

-----------------------------------------------------------------------------
(* Snapshots. *)

Presence == [kind |-> "presence", keys |-> <<>>, threshold |-> 0]
ByKeys(keys, threshold) ==
    [kind |-> "ed25519", keys |-> keys, threshold |-> threshold]
NoApprover == [kind |-> None, keys |-> <<>>, threshold |-> 0]

OneTime == [mode |-> "one-time", uses |-> 1, window |-> None]
Window == [mode |-> "window", uses |-> 2, window |-> "hour"]
NoRequirement == [mode |-> None, uses |-> 0, window |-> None]

AnyValidated == "any"

\* What a rule says of the requests it matches.  Some are malformed: an
\* approval of nobody, a key named twice.
Effects ==
    {[effect |-> f, approver |-> NoApprover, approval |-> NoRequirement] :
        f \in {"permit", "forbid", "approval"}}
    \cup {[effect |-> "approval", approver |-> who, approval |-> how] :
        who \in {Presence} \cup {ByKeys(ks, t) : ks \in [1..2 -> Keys], t \in 1..2},
        how \in {OneTime, Window}}

PolicyRule ==
    {[id |-> i, principal |-> p, action |-> a, scope |-> s, effect |-> f.effect,
      approver |-> f.approver, approval |-> f.approval] :
        i \in RuleIds, p \in Principals, a \in Actions,
        s \in Hashes \cup {AnyValidated}, f \in Effects}

Snapshot(version, expires, approvers, profiles, connections, ssh, derived, bindings, rules) ==
    [version |-> version, expires |-> expires, approvers |-> approvers,
     profiles |-> profiles, connections |-> connections, ssh_keys |-> ssh,
     derived |-> derived, bindings |-> bindings, rules |-> rules]

Empty == Snapshot(0, 0, {}, {}, {}, {}, {}, {}, {})

\* What the canonical encoding leaves of a number: a double keeps only every
\* second one past Exact.
Jcs(n) == IF n <= Exact THEN n ELSE 2 * (n \div 2)

-----------------------------------------------------------------------------
(* Validity. *)

ScopeMatches(scope, hash) == scope \in {AnyValidated, hash}

ScopesOverlapExactly(left, right) == left = right

ScopesOverlap(left, right) ==
    AnyValidated \in {left, right} \/ left = right

\* resolve_approver_ids: one known approver per key, none of them twice.
Resolves(keys, approvers) ==
    /\ keys # <<>>
    /\ ToSet(keys) \subseteq approvers
    /\ IsInjective(keys)

RequirementValid(approver, requirement, approvers) ==
    /\ CASE approver.kind = "presence" -> requirement.mode = "one-time"
         [] approver.kind = "ed25519" ->
                /\ Resolves(approver.keys, approvers)
                /\ approver.threshold \in 1..2
                /\ approver.threshold <= Len(approver.keys)
         [] OTHER -> FALSE
    /\ requirement \in {OneTime, Window}

RequirementsEquivalent(left, right) ==
    /\ left.approver.kind = right.approver.kind
    /\ left.approver.threshold = right.approver.threshold
    /\ ToSet(left.approver.keys) = ToSet(right.approver.keys)
    /\ left.approval = right.approval

RuleValid(rule, s) ==
    /\ rule.action \in s.bindings
    /\ IF rule.effect = "approval"
       THEN RequirementValid(rule.approver, rule.approval, s.approvers)
       ELSE rule.approver = NoApprover /\ rule.approval = NoRequirement

SameSubject(left, right) ==
    left.principal = right.principal /\ left.action = right.action

\* Overlapping approval rules of one subject must demand the same.
ApprovalsAgree(rules) ==
    \A left, right \in {r \in rules : r.effect = "approval"} :
        SameSubject(left, right) /\ ScopesOverlap(left.scope, right.scope)
            => RequirementsEquivalent(left, right)

\* AgentProfile.validate: a profile grants something and no action twice.
ProfileValid(p) ==
    /\ p.grants # {}
    /\ \A g \in p.grants : g.actions # {}
    /\ \A g, h \in p.grants :
        g # h => g.capability # h.capability /\ g.actions \cap h.actions = {}

ActionRefs(p) == UNION {g.actions : g \in p.grants}

\* validate_profiles: every action of a profile is bound and has a rule for
\* its principal; profiles of one principal agree on what a capability means
\* and on the budget of the instance.
ProfilesValid(s) ==
    /\ \A p \in s.profiles :
        /\ ProfileValid(p)
        /\ \A a \in ActionRefs(p) :
            /\ a \in s.bindings
            /\ \E r \in s.rules : r.principal = p.principal /\ r.action = a
    /\ \A p, q \in s.profiles :
        /\ p.name = q.name => p = q
        /\ p.principal = q.principal =>
            /\ p.budget = q.budget
            /\ \A g \in p.grants, h \in q.grants :
                g.capability = h.capability => g.actions = h.actions

\* parse_and_validate_snapshot: with a clock the snapshot must not be over,
\* without one (at load) only its shape counts.
SnapshotValid(s) ==
    /\ \A r \in s.rules : RuleValid(r, s)
    /\ \A left, right \in s.rules : left.id = right.id => left = right
    /\ ApprovalsAgree(s.rules)
    /\ s.connections \cap s.ssh_keys = {}
    /\ s.derived \cap (s.connections \cup s.ssh_keys) = {}
    /\ ProfilesValid(s)

-----------------------------------------------------------------------------
(* Decisions. *)

Matching(s, principal, action, hash) ==
    {r \in s.rules : r.principal = principal /\ r.action = action
                       /\ ScopeMatches(r.scope, hash)}

FirstRule(rules) == CHOOSE r \in rules : \A q \in rules : r.id <= q.id

\* An approval's demand, its keys in their canonical order.
Demand(r) == [kind |-> r.approver.kind, keys |-> ToSet(r.approver.keys),
              threshold |-> r.approver.threshold, approval |-> r.approval]

NoDemand == [kind |-> None, keys |-> {}, threshold |-> 0,
             approval |-> NoRequirement]

Answer(kind, demand) == [kind |-> kind, demand |-> demand]

\* evaluate: a forbid before an approval before a permit, the lowest id of
\* each; a snapshot that is over decides nothing.
Evaluate(s, principal, action, hash) ==
    LET m == Matching(s, principal, action, hash)
        of(effect) == {r \in m : r.effect = effect}
    IN  IF s.expires <= now \/ of("forbid") # {} THEN Answer("deny", NoDemand)
        ELSE IF of("approval") # {}
             THEN Answer("approval", Demand(FirstRule(of("approval"))))
        ELSE IF of("permit") # {} THEN Answer("allow", NoDemand)
        ELSE Answer("deny", NoDemand)

\* workload_principal_may_request: whether a login may name the action at all.
MayRequest(s, principal, action) ==
    /\ action \in s.bindings
    /\ \E r \in s.rules : /\ r.principal = principal /\ r.action = action
                          /\ r.effect \in {"permit", "approval"}

-----------------------------------------------------------------------------
(* Drafts. *)

DefaultRule(action) ==
    IF action = CHOOSE a \in Actions : TRUE THEN "permit" ELSE "approval"

RuleOf(action, choice) ==
    CASE choice = "default" -> DefaultRule(action)
      [] choice = "allow" -> "permit"
      [] OTHER -> "approval"

\* What the profiles choose for a principal and an action.
ChoicesFor(profiles, principal, action) ==
    {g.rule : g \in {h \in UNION {p.grants : p \in {q \in profiles :
                                      q.principal = principal}} :
                       action \in h.actions}}

Granted(profiles) == UNION {ActionRefs(p) : p \in profiles}

\* The rule of a personal draft for one principal and action.  Its id is a
\* digest of both: here their place in any order of the pairs.
ChosenRule(principal, action, effect) ==
    LET pairs == SetToSeq(Principals \X Actions) IN
    [id |-> CHOOSE i \in DOMAIN pairs : pairs[i] = <<principal, action>>,
     effect |-> effect, principal |-> principal, action |-> action,
     scope |-> AnyValidated,
     approver |-> IF effect = "approval" THEN Presence ELSE NoApprover,
     approval |-> IF effect = "approval" THEN OneTime ELSE NoRequirement]

\* Every principal's rule for an action carries the choice it made.
ChosenRules(profiles) ==
    UNION {{ChosenRule(p, a, RuleOf(a, c)) : c \in ChoicesFor(profiles, p, a)} :
               p \in Principals, a \in Actions}

PreviousVersion == active.version

\* A conflicting choice for one principal and action refuses the draft.
ChoicesAgree(profiles) ==
    \A p \in Principals, a \in Actions :
        Cardinality(ChoicesFor(profiles, p, a)) <= 1

PersonalDraft(profiles, expires) ==
    Snapshot(PreviousVersion + 1, expires, {}, profiles, {}, {}, {},
             Granted(profiles), ChosenRules(profiles))

\* generate_connection_draft_with_grants: an omitted section is carried over.
ConnectionDraft(connections, ssh, derived, expires) ==
    Snapshot(PreviousVersion + 1, expires, {}, {}, connections,
             IF ssh = Omitted THEN active.ssh_keys ELSE ssh,
             IF derived = Omitted THEN active.derived ELSE derived, {}, {})

Encoded(s) == [s EXCEPT !.version = Jcs(@), !.expires = Jcs(@)]

Diff(before, after) ==
    {f \in DOMAIN after : before = Empty \/ before[f] # after[f]}

\* finish_draft: what is signed reads back as what was asked for.
FinishDraft(s) ==
    /\ SnapshotValid(Encoded(s)) /\ Encoded(s).expires > now
    /\ Encoded(s).version = s.version /\ Encoded(s).expires = s.expires

-----------------------------------------------------------------------------
NoEditor == [phase |-> "idle", read |-> Empty, profiles |-> {},
             draft |-> Empty, diff |-> {}, asked |-> 0, personal |-> FALSE,
             kept |-> [ssh_keys |-> FALSE, derived |-> FALSE]]

Algorithm == {"ed25519", "p256"}

Init ==
    /\ now = 0
    /\ trust \in Algorithm
    /\ active = Empty
    /\ raw = [Empty EXCEPT !.approvers = Keys, !.bindings = Actions,
                           !.version = 1, !.expires = 1]
    /\ editor = [e \in Editors |-> NoEditor]
    /\ origin = [by |-> None, profiles |-> {}]

Tick ==
    /\ now < MaxNow /\ now' = now + 1
    /\ UNCHANGED <<trust, active, raw, editor, origin>>

\* A snapshot written outside gains a rule.
AddRule(rule) ==
    /\ Cardinality(raw.rules) < MaxRules
    /\ \A r \in raw.rules : r.id # rule.id
    /\ raw' = [raw EXCEPT !.rules = @ \cup {rule}]
    /\ UNCHANGED <<now, trust, active, editor, origin>>

\* What activation asks of a bundle signed by the trusted key: it parses, is
\* not over and follows the active one.
Accepts(s) ==
    /\ SnapshotValid(s) /\ s.expires > now
    /\ s.version = PreviousVersion + 1

\* The snapshot written outside, signed and activated.
ActivateRaw ==
    /\ raw.rules # {} /\ Accepts(Encoded(raw))
    /\ active' = Encoded(raw)
    /\ origin' = [by |-> "signer", profiles |-> {}]
    /\ UNCHANGED <<now, trust, raw, editor>>

\* CONNECTION_LIST: the editor shows the active snapshot and keeps its digest.
Read(e) ==
    /\ editor[e].phase = "idle"
    /\ editor' = [editor EXCEPT ![e] =
                      [NoEditor EXCEPT !.phase = "reading", !.read = active]]
    /\ UNCHANGED <<now, trust, active, raw, origin>>

Select(e, p) ==
    /\ editor[e].phase = "reading"
    /\ Cardinality(editor[e].profiles) < MaxProfiles
    /\ p \notin editor[e].profiles
    /\ editor' = [editor EXCEPT ![e].profiles = @ \cup {p}]
    /\ UNCHANGED <<now, trust, active, raw, origin>>

Offer(e, s, kept, personal) ==
    editor' = [editor EXCEPT ![e] =
        [@ EXCEPT !.phase = "review", !.draft = Encoded(s),
                  !.diff = Diff(active, Encoded(s)), !.asked = s.expires,
                  !.kept = kept, !.personal = personal]]

NothingKept == [ssh_keys |-> FALSE, derived |-> FALSE]

GiveUp(e) == editor' = [editor EXCEPT ![e] = NoEditor]

\* generate_personal_draft, which tools outside the broker call: only for a
\* Secure Enclave trust root and a previous bundle that it signed (ours); an
\* empty selection takes back everything.
DraftProfiles(e, expires, ours) ==
    /\ editor[e].phase = "reading"
    /\ IF /\ trust = "p256" /\ ours
          /\ \A p \in editor[e].profiles : ProfileValid(p)
          /\ ChoicesAgree(editor[e].profiles)
          /\ FinishDraft(PersonalDraft(editor[e].profiles, expires))
       THEN Offer(e, PersonalDraft(editor[e].profiles, expires), NothingKept, TRUE)
       ELSE GiveUp(e)
    /\ UNCHANGED <<now, trust, active, raw, origin>>

StillCurrentAlways(e) == TRUE

\* PERSONAL_POLICY_DRAFT: the caller's expected digest is the active one's.
StillCurrent(e) == editor[e].read = active

DraftConnections(e, connections, ssh, derived, expires) ==
    LET s == ConnectionDraft(connections, ssh, derived, expires) IN
    /\ editor[e].phase = "reading" /\ editor[e].profiles = {}
    /\ IF trust = "p256" /\ StillCurrent(e) /\ FinishDraft(s)
       THEN Offer(e, s, [ssh_keys |-> ssh = Omitted, derived |-> derived = Omitted], FALSE)
       ELSE GiveUp(e)
    /\ UNCHANGED <<now, trust, active, raw, origin>>

\* The reviewed bytes are signed and activated.
Activate(e) ==
    /\ editor[e].phase = "review"
    /\ active # editor[e].draft
    /\ IF Accepts(editor[e].draft)
       THEN /\ active' = editor[e].draft
            /\ origin' = [by |-> "editor", profiles |-> editor[e].profiles]
       ELSE UNCHANGED <<active, origin>>
    /\ GiveUp(e)
    /\ UNCHANGED <<now, trust, raw>>

\* The active bundle offered again changes nothing.
ActivateAgain(e) ==
    /\ editor[e].phase = "review" /\ active = editor[e].draft
    /\ GiveUp(e)
    /\ UNCHANGED <<now, trust, active, raw, origin>>

Grants == [capability : Capabilities, rule : ChoiceRules,
           actions : (SUBSET Actions) \ {{}}]

Profiles == [name : {"p1", "p2"}, principal : Principals,
             grants : {gs \in SUBSET Grants : Cardinality(gs) \in 1..Cardinality(Capabilities)},
             budget : Budgets]

Next ==
    \/ Tick
    \/ \E rule \in PolicyRule : AddRule(rule)
    \/ ActivateRaw
    \/ \E e \in Editors :
        \/ Read(e) \/ Activate(e) \/ ActivateAgain(e)
        \/ \E p \in Profiles : Select(e, p)
        \/ \E x \in Expiries :
            \/ \E ours \in BOOLEAN : DraftProfiles(e, x, ours)
            \/ \E c \in SUBSET Names, s, d \in (SUBSET Names) \cup {Omitted} :
                DraftConnections(e, c, s, d, x)

Spec == Init /\ [][Next]_vars

-----------------------------------------------------------------------------
(* Properties. *)

\* The active snapshot is a valid one with a version that its encoding keeps;
\* an editor holds a draft exactly while it is under review.
TypeOK ==
    /\ now \in 0..MaxNow /\ trust \in Algorithm
    /\ SnapshotValid(active) /\ active.version \in 0..Exact
    /\ \A e \in Editors :
        /\ editor[e].phase \in {"idle", "reading", "review"}
        /\ editor[e].phase = "review" <=> editor[e].draft # Empty

\* In a snapshot that passes validation the approval asked of a request does
\* not depend on which of several matching approval rules is looked at.
OneRequirement ==
    SnapshotValid(raw) =>
        \A p \in Principals, a \in Actions, h \in Hashes :
            \A r \in Matching(raw, p, a, h) :
                (r.effect = "approval" /\ Evaluate(raw, p, a, h).kind = "approval")
                    => Evaluate(raw, p, a, h).demand = Demand(r)

\* A permit never overrides: whatever its id, adding one changes no answer
\* to a request that a forbid or an approval rule matches.
PermitNeverOverrides ==
    \A p \in Principals, a \in Actions, h \in Hashes :
       /\ \A rule \in raw'.rules \ raw.rules : rule.effect = "permit"
       /\ \E r \in Matching(raw, p, a, h) : r.effect # "permit"
       => Evaluate(raw', p, a, h) = Evaluate(raw, p, a, h)

\* Whatever a request is answered, other than a denial, a workload of that
\* principal may name the action in its login.
AllowedIsRequestable ==
    \A p \in Principals, a \in Actions, h \in Hashes :
        SnapshotValid(raw) /\ Evaluate(raw, p, a, h).kind # "deny"
            => MayRequest(raw, p, a)

\* A personal policy decides exactly what its profiles chose, and denies
\* everything else, what earlier policies granted included.
DecidesAsChosen ==
    origin.by = "editor" =>
        \A p \in Principals, a \in Actions, h \in Hashes :
            LET chosen == ChoicesFor(origin.profiles, p, a)
                kind == Evaluate(active, p, a, h).kind
            IN  IF chosen = {} \/ active.expires <= now THEN kind = "deny"
                ELSE \A c \in chosen :
                    kind = IF RuleOf(a, c) = "permit" THEN "allow" ELSE "approval"

Activated(e) == editor[e].phase = "review" /\ active' # active
                    /\ editor'[e].phase = "idle"

\* The difference the user reviewed is the difference the activation makes.
ReviewedIsActivated ==
    \A e \in Editors : Activated(e) =>
       editor[e].diff = {f \in DOMAIN active' :
           active = Empty \/ active[f] # active'[f]}

\* What is activated expires when it was asked to and is the next version,
\* in spite of the rounding of the canonical encoding.
SignedAsAsked ==
    \A e \in Editors : Activated(e) =>
       /\ active'.expires = editor[e].asked
       /\ active'.version = PreviousVersion + 1

\* A section the editor left out is what it was in the policy it replaces.
OmittedSectionsKept ==
    \A e \in Editors : Activated(e) =>
       /\ editor[e].kept.ssh_keys => active'.ssh_keys = active.ssh_keys
       /\ editor[e].kept.derived => active'.derived = active.derived

\* A connection policy replaces the very policy its editor had read: no
\* other editor's change in between is lost.
NoLostUpdate ==
    \A e \in Editors :
       Activated(e) /\ ~editor[e].personal => editor[e].read = active
=============================================================================
