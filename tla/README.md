# Verification of rekey

rekey keeps credentials in an encrypted vault and executes HTTP requests, ssh
signatures and other actions on behalf of agents that never see the secrets. A
daemon (`rekeyd`) serves an administrator socket, an agent socket, local
Connections, an ssh agent and a gateway. This directory models the daemon where
its correctness depends on the order of events: who may cause a remote effect,
when a lock or a stop really ends effects, whether the durable journal tells the
truth about them, and whether what administrators and agents are told is so.

All line references are to `src/`; `B/` stands for `src/crates/rekey-broker/src/`,
`V/` for `src/crates/rekey-vault/src/`, `P/` for `src/crates/rekey-policy/src/`.
`PROJECT.json` maps definitions to the lines they model: every operation, and every
helper that stands for lines of its own. A small helper, or a sibling outcome of the
same lines, is covered by the entry of the definition that uses those lines.

Reproduce a run with `tlc -config Pair.cfg MCBroker` or
`tlc -config Calls.cfg CallSuite`, a proof with `tlapm BrokerProofs.tla`.

## 1. The system and its models

| Component | State it keeps | Module |
|---|---|---|
| Lifecycle, executions, audit tracker, supervisor (`B/lifecycle.rs`, `B/executor.rs`, `B/audit.rs`, `B/execution_supervisor.rs`) | phase, remote-effect gate, coordinator mutex, cancellation watch; the task, permit and effect marker of each execution; FIFO of journal rows, sticky failure | `Broker` |
| Runtime control and central stop (`B/runtime.rs`, `B/runtime/shutdown.rs`) | the stage of unlock, drain, idle lock, retention; the selected stop | `Broker`, with the abstract `EffectLedger` |
| Session registry (`B/session.rs`) | sessions, uses, permits, challenges and approvals | `Sessions` |
| Local calls (`B/runtime/local_calls.rs`, `B/executor/local.rs`) | approvals, windows, hourly rates | `LocalCalls` |
| Access requests (same, `B/ipc/agent.rs`) | request table, blocked callers, quota | `AccessRequests` |
| Profile control connections (`B/runtime/profile.rs`) | minted sessions, owners, rows | `ProfileControl` |
| Dynamic leases (`B/executor/vault_dynamic*.rs`, `V/`) | lease journal, provider leases | `LeaseJournal` |
| External sources (`B/executor/*_source.rs`) | one read, its token and rows | `SourceReads`, `RevocableTokens` |
| OAuth manager (`B/oauth.rs`) | cached tokens, epoch, logins | `OAuthGrants` |
| mTLS executions (`B/executor/`, private keys) | key owners, cancellation, frames | `MtlsExecution` |
| Certificate authority (`V/authority/pki.rs`, `B/`) | reservations, certificates, revocation lists | `CertificateAuthority` |
| Generation anchor, backup, restore (`V/generation_anchor.rs`) | database, anchor file, protected anchor | `VaultGeneration` |
| Catalog, wrappers, root key (`V/authority/credential.rs`, `V/store/`) | credentials, versions, actions, policy bundles | `VaultCatalog` |
| Desktop unlock (`V/authority/desktop.rs`) | tickets, marker, back-off | `DesktopUnlock` |
| Audit journal, budgets, prune, export (`V/authority/audit.rs`, `usage.rs`) | rows, charges, snapshots | `AuditJournal` |
| Authority's command queue (`V/handle.rs`, `V/authority.rs`) | bounded queue, deadlines, proofs | `AuthorityMailbox` |
| Administrator channel (`B/ipc/admin.rs`) | connections, requests in progress | `AdminRequests` |
| Administrator OIDC login (`B/oidc_admin.rs`) | flows, sessions, polls | `OidcAdmin` |
| Agent channel (`B/ipc/agent.rs`, gateway, supervisor's queue) | connections, jobs, streams | `AgentChannel` |
| ssh agent (`B/ssh_agent.rs`) | bindings, budgets, signatures | `SshAgent` |
| Workload admission (`B/runtime/`, `P/`) | policies, token uses, sessions | `WorkloadAdmission` |
| Derived credentials (`B/runtime/derived.rs`) | approvals, grants, rows | `DerivedCredentials` |
| Client of the sockets, MCP server (`rekey-cli`, `B/bin/rekey-mcp.rs`) | one exchange; tool list | `IpcClient`, `McpServer` |
| Upstream transport (`B/upstream.rs`) | resolution, pin, response | `UpstreamTransport` |
| Request canonicalization, model bodies (`B/executor/`, `rekey-domain`) | envelope, headers, numbers | `RequestBinding` |
| LLM streams (`B/executor/llm_stream.rs`) | tails, snapshots, usage | `LlmStream` |
| Connection rules and presets (`rekey-connector`, `P/`) | rules, overrides, operations | `ConnectionRules` |
| Policy snapshots and drafts (`P/`) | snapshot, drafts, editors | `PolicySnapshots` |
| Approval relay (`rekey-approval-relay`) | files, tombstones, events | `ApprovalRelay` |
| Plugin process tree (`B/github_issue_plugin/linux.rs`) | broker, guardian, leaf | `PluginTree` |

How they interact: an IPC handler hands a job to the supervisor, whose child
admits the execution, takes the coordinator, submits the started row to the audit
worker and waits for its reply. Control operations (unlock, drain, stop, policy
activation) take the same coordinator, close the gate, revoke sessions, signal
cancellation and wait for executions and for the audit worker, all under
deadlines. Faults do none of this waiting: they store `STOP_PENDING` in the gate
from any thread. The Authority is one actor behind a bounded queue of commands; it
faults on a storage error and then refuses. Local approvals live in tables behind
their own mutexes and are reserved before, and validated after, the coordinator
is taken.

What is hard, in one place (the list with lines is `hazards` in `PROJECT.json`):

- the handoff: an execution passes its checks, waits for the coordinator, and must
  look again before its first byte, since a drain, a stop, a fault or a revocation
  may have happened in between;
- evidence: a started row exists, the caller is gone, the worker fails, a child
  panics, the process dies: exactly one terminal must follow, and it must not say
  `blocked` when something was sent;
- stop, drain and unlock against each other and against faults that take no lock;
- reservations (approvals, rate slots, uses, capacity) that must be returned
  exactly once, on every failure path, and never revive what has ended;
- secrets obtained outside: leases, tokens and grants that must be given back
  after lost answers, crashes and clocks that step;
- state read before an await and used after it: policies, tickets, versions,
  memberships, anchors;
- what crosses a boundary in pieces: credentials split over stream events, answers
  cut off, requests written in two ways.

## 2. Modules

`Broker` has the lifecycle's methods as operators and one action per step between
two await points of an execution, the audit worker's two actions and the unwinding
of a task; then the control operations, `Restart`, `Next`, the specifications and the
properties. `EffectLedger` is the abstract
specification: an execution is recorded as started, may contact its endpoints, is
recorded once and truthfully, and success is told only then; `Broker` implements it
(`ImplementsLedger`). `MCBroker` instantiates `Broker` for TLC.

Every other component is a specification of its own. Seven suites check them:
`CallSuite`, `SourceSuite`, `VaultSuite`, `AuthoritySuite`, `ChannelSuite`,
`ExecutorSuite` and `PolicySuite`. A suite EXTENDS one component and INSTANCEs the
others, some of them several times with different constants. The instances share
no state: the variable `part`, chosen once by `SuiteInit`, names the instance whose
steps the behaviour takes, and the variables of all others keep their initial
values. The state graph of a suite is therefore the disjoint union of the graphs
of its instances, and a property of the suite is the conjunction of what is asked
of each of them. What a component does to others appears in its own model as
actions of its environment (a policy is activated, a lock, a fault, the worker
answers), with the guards the code has for them.

### Broker: state and steps

- `pc[e]` is where the task of execution `e` is: `acquired`/`waiting` (admission),
  `committing` (started row with the worker), `replied`/`rejected` (the worker has
  answered, the task has not run), `admitted`, `running`, `refreshGate`/`refresh`
  (OAuth), `queued` (a Connection waits for the coordinator), `handing` (inside the
  protected handoff), `inflight`, `finishing`/`awaiting` (terminal queued and
  awaited, with or without a response), `confirmed`, `closing`, `abandoned` (the
  caller left while the worker owned the started row), `done`.
- `stage` is the next await point of the control operation that owns the
  coordinator. Each stage is one step, so every other actor can run between two of
  them. A deadline is a nondeterministic alternative of the step that waits.
- `queue` is the FIFO of submissions that are not committed. The code's pending
  count is its length: the worker takes the head, commits, publishes the reply and
  decrements in one step here, since nothing else reads the count between except
  waits that would only go on waiting.
- `journal[e]` holds the durable rows of `e`; only it survives `Restart`.
- `reached[e]` and `delivered` are history: which endpoints received a request, and
  which callers were told of success. `HandoffSend` and `RefreshSend` only poll the
  transport's future for the first time, which begins with DNS; the request leaves in a
  step of its own, `Contact`, any time later and under no lock, or never.
- `permit[e]`: a session permit is `held` from acquire to the end of the task; a
  Connection permit is `held` from submission, `armed` from the durable started row
  until its terminal is committed, and closes the gate if it is dropped armed.
- the registry mutex is not a variable: it is held across a wait only by
  `with_live_handoff`, so `RegistryFree` derives it from `pc`.
- `signal_cancel` uses `watch::Sender::send`, which stores nothing without a
  receiver; `SignalCancel` keeps this.
- `enter_running` is two steps (`PublishRunning`, `ConfirmRunning`), because a fault
  may store `STOP_PENDING` between them without the coordinator.
- the Authority is its vault state. A commit of a profile-metered row needs the
  root key; any commit may fail, with or without faulting the Authority.

`Metered` executions use `begin_/settle_profile_execution`; `OAuth` executions
refresh first. Both are constants, so one specification covers every kind.

### What the other modules abstract

Each module's head says what it models. The abstractions a reader should know:

- `LocalCalls`: time is a set of lapsed approvals and windows plus an hour counter; a
  deadline passes at any moment. `evidence` and `started` are history.
- `Sessions`: two clocks, a wall clock that is set back and a monotonic one.
- `ProfileControl`: a failing journal leaves it unknown whether the row is on disk. The
  macOS peer watch is left out.
- `LeaseJournal`: a renewal whose wall clock was stepped back faults the vault, as in
  the code. The provider may hold a lease behind an answer that refuses it; such a lease
  is `denied`, and the properties speak of the others (section 5).
  `SourceReads`: single executions whose kind is chosen at the start.
  `RevocableTokens`: tokens past `Limit` are outside the cleanup's guarantee, as in the
  code; a list that is asked to wait (Retry-After) is sent again in a step of its own.
  `OAuthGrants`: a grant may have no refresh token and the provider may withdraw one.
  `MtlsExecution`: a mutation whose reply timed out does not cancel the owners.
- `VaultGeneration`, `DesktopUnlock`: durable and volatile state are told apart; a
  crash or power failure may come between any two writes, and a sync may fail twice. `AuditJournal`: the seal of
  exported pages is left out.
- `CertificateAuthority`: the parsing of requests is abstract; serials are reserved
  before the key is used.
- `AuthorityMailbox`: the worker looks at the deadline some time before it commits, so a
  change may be later than its deadline; the commands that commit in parts (`InParts`: PKI
  and `DesktopRemember`) may answer busy after their first commit, and AnswersAreTrue
  excepts them by name. The command table is given as sets.
- `AdminRequests`: every kind of handler is a row that says which checks, commands and
  effects it has and whether it holds the coordinator; `IMPORT_ENV` and `SSH_KEY` add
  credentials without `ensure_credential_catalog_fits`, and so they do here. `METRICS`,
  which only reads counters, is left out; OIDC publication is in `OidcAdmin`, Profile
  sessions in `ProfileControl`, policy activation in `WorkloadAdmission` and
  `PolicySnapshots`, external approvals in `LocalCalls`; what a resume, an unlock and a
  confirmed rollback do to the store is in `DesktopUnlock`, `VaultGeneration` and `Broker`.
- `OidcAdmin`: signatures and keys are external; logout takes its snapshot and closes in
  one step.
- `IpcClient`: one connection and one call; `Trusted` is the owner that passes the
  socket contract. `McpServer`: the inventory may differ at each read; operations whose
  names collide with the generic tools are left out.
- `SshAgent`: one registered key; approval windows are in `LocalCalls`.
  `DerivedCredentials`: one signed grant per policy; the gate only drains; the end of a
  policy is counted on two clocks, as `ActivePolicy` does, and the wall clock may pass it
  ahead of time.
- `UpstreamTransport`: three classes of addresses; resolvers fail or answer as they like.
- `RequestBinding`: how a provider reads a limit is external; schema validation and
  size limits are abstract. `LlmStream`: a frame is one event (how chunks are cut into
  frames, and the scan of a frame's own bytes, are left out); text is a sequence of
  symbols, and one escape of fixed width stands for JSON and percent escapes; JSON parsing
  is abstract, an absent count is -1.
- `ConnectionRules`: the narrower-rule property is about literal and wildcard patterns;
  regional presets are left out. `PolicySnapshots`: workload identities are in
  `WorkloadAdmission`.
- `ApprovalRelay`: the directory reads its record in one step and its answer is
  complete in another, up to `AnswerTime` later; the expiry of the relay's own token at
  the directory is left out.
- `PluginTree`: Linux; `Explicit` says whether the registration names a digest (the
  packaged plugin names none); the case that broker and guardian both die is exempted, as the
  code cannot handle it.

## 3. Runs

| Run | Module, cfg | Question |
|---|---|---|
| solo | `MCBroker`, `Solo.cfg` | One execution of a Connection that refreshes an OAuth grant, against every lock, stop, fault, panic, abort and one restart: its evidence is true, a drain that reported success ends its effects, and the broker implements the ledger of effects. Checks EvidenceIsTrue, LostTerminalClosesGate, NoEffectAfterDrain, ImplementsLedger. |
| pair | `MCBroker`, `Pair.cfg` | A session execution and a Connection execution share coordinator, audit queue and stop: handoffs are protected, whoever is told that the broker is closed finds nothing left to settle, and once a stop is pending only executions that had passed the gate before it may still contact an endpoint, and they only become fewer. Checks HandoffProtected, ClosedIsComplete, NoEffectAfterStop. |
| live | `MCBroker`, `Live.cfg` | Under the fairness of the runtime's scheduler, a metered session execution's started row gets its terminal or the sticky failure, and a selected stop ends. Checks StartedIsTerminated, StopsEnd. |
| calls | `CallSuite`, `Calls.cfg` | What admits a call: local approvals, windows and rates, ssh signers, access requests, sessions with local and signed approvals, and Profile control connections, in ten small instances. Checks ApprovalUsedOnce, StartsAreGranted, CountsAreExact, ToldIsJournaled, NoRevival, EndedStaysEnded. |
| window | `CallSuite`, `Window.cfg` | A call that looked its window up before a lock and unlock starts under it afterwards, although the user guide says that locking ends windows at once. Checks WindowEndsWithLock (must be violated). |
| sources | `SourceSuite`, `Sources.cfg` | Credentials obtained outside the vault: dynamic leases with crashes, refusals and a stepping clock, reads of external sources, revocable tokens, OAuth grants and keys of mTLS executions. Checks LiveLeasesAreJournaled, NothingLeftAlive, UseIsEvidenced. |
| cleanup | `SourceSuite`, `Cleanup.cfg` | Under fairness: recovery reaches every lease that can be revoked though another is stuck, mutations and drains that wait for the owners of a TLS key end, and an execution that owns tokens ends. Checks CleanupEnds. |
| vault | `VaultSuite`, `Vault.cfg` | What the vault keeps: certificates and revocation lists, generation anchors with crashes, copies and restores, the catalog and its root key, desktop tickets over crashes and clock steps, budgets, prunes and exports of the journal. Checks CrlNamesTheRevoked, StoredIsTrusted, TicketsExpire, RevocationIsFinal, HistoryIsKept. |
| authority | `AuthoritySuite`, `Authority.cfg` | What administrators are told: the Authority's queue with deadlines, busy answers, commands done in parts, wrong proofs and idle locks; two administrators' requests of every kind of handler, rollbacks and decisions included; OIDC logins beside offboarding, locks and failures. Checks AnswersAreTrue, RequestsAreTrue, LoginsAreCurrent. |
| channel | `ChannelSuite`, `Channel.cfg` | What agents, hosts and workloads ask of the broker: derived credentials, the agent channel and its clients, ssh signatures and workload admissions, while policies are replaced and time passes. Checks DeliveredIsJournaled, IssuedIsNotBlocked, AnswersAreTrue, ActsAsSigned, UnderCurrentPolicy. |
| executor | `ExecutorSuite`, `Executor.cfg` | What is sent and relayed: resolution, pinning and deadlines of the transport, and what its caller is told through late and failing rows; requests and model bodies against what was approved; credentials split over the events of three streaming protocols, and their usage. Checks TransportIsScreened, SentAsApproved, ToldAsRecorded, StreamsAreInspected. |
| policy | `PolicySuite`, `Policy.cfg` | Who may do what: connection rules and presets, snapshots written by hand, drafted and edited, the approval relay with removals seen through a directory that may answer late, a store that fails also after its commit, and expiries; and the process tree of a plugin with every death. Checks SuccessMeansEmpty, DecidesAsWritten, NothingOverridden. |

A property's comment in its module says what it means; each has a mutant (an
operator named after its mistake, next to the definition it replaces) that makes TLC
report exactly that property.

Bounds. Two executions contend for everything there is to contend for (coordinator,
registry, queue, capacity), and one is enough for a property about one execution's
evidence, where restart, abort and panic are added instead. One restart suffices
because nothing but the journal survives and reconciliation leaves no started row
open, so a second start begins from a state of the same shape. `pair` leaves out the
stops by signal and fault, which take the same path; `solo` and `live` have them. In the
suites each instance is as small as its question allows: two of whatever competes, a
table or queue with one place fewer than its users, a clock that reaches one unit past
the last deadline, and one step back where the code must survive it. Where one instance
that has everything would be too large, several parts have some of it each: the relay is
checked with a removal in time and two events (`removing`), with a store that fails
(`failing`) and with retention (`expiring`); workload admission with private owners and
activations that fail after their commit (`owners`) and without; the largest runs have
about two and a half million states (`channel`, `policy`) and take two to three minutes.
Names beginning with `Max` bound counters and appear only in guards. Deadlock is not checked, because
these systems do stop: a served instance ends with all requests answered.

Fairness. `live` (`FairSpec`): weak fairness of each execution's own steps, of the worker,
and of the steps of an operation that already owns the coordinator or an already
selected stop. The code justifies it: tokio polls a woken task, every await in these
paths is under `timeout_at`/`coordinate_until` or is answered by a thread that runs on,
and a deadline is a step of the model that is enabled while the wait lasts. Not fair:
sessions, unlock and drain requests, stops, faults, panics, crashes. `cleanup`
(`SuiteLiveSpec`): recoveries keep being started. The code has no timer for them: only
`activate_unlocked` starts one, so CleanupEnds is a promise to an operator who goes on
unlocking the vault. The provider sooner or later revokes a lease that is not stuck (strong fairness, because each recovery
tries each lease again); the tasks of mTLS executions and of token holders run on;
servers and deadlines owe nothing.

## 4. Proofs

Proved with TLAPS for every value of the constants, from `LifecycleAssumption`
and `ExecutionAssumption` (executions are not named like the two other owners of
the coordinator, `SessionOf`/`ConnectionOf` are functions, limits are positive):

- `BrokerProofs!TypeCorrect`: `Spec => []TypeOK`. One lemma per group of actions,
  resting on lemmas about queueing a row (`EnqueueType`, `SubmitTerminalType`),
  moving a program counter (`MoveType`) and the worker's head (`HeadType`).
- `BrokerProofs!HandoffIsProtected`: `Spec => []HandoffProtected`. The inductive
  invariant is `HandoffInv`: HandoffProtected and "a control operation between two of
  its steps holds the coordinator". HandoffProtected alone is not inductive: an unlock
  or a drain in the middle changes phase or sessions without taking the coordinator in
  that step, and only the second conjunct says that no handoff is under way then. A
  fault's revocation takes no coordinator; it is excluded by the registry mutex
  (`RegistryFree`).
- `BrokerProofs!PendingStopIsSticky`: no step forgets a pending stop, action by action.
- `BrokerProofs!StopEndsEffects`: `Spec => NoEffectAfterStop`. Only `Contact` reaches an
  endpoint, from the two places of a polled future; every way to these places reads the
  gate, which a pending stop has closed for good, so `MayContact` can only shrink.
- `BrokerProofs!EvidenceWellFormed`, `EvidenceIsOwned`, `EvidenceIsTruthful`,
  `EvidencePrecedesEffects`, `EvidencePrecedesResponses`: the five parts of
  EvidenceIsTrue, all from one inductive invariant, `EvidenceInv`. None of the five is
  inductive alone, because what the worker will commit is decided earlier, when the row
  is queued. The invariant therefore speaks about the queue: every queued row is owned
  by a program counter that explains it and is already true of the endpoints
  (`QueueOwned`), no execution has two rows queued (`QueueOnce`), and per execution the
  journal, the effect marker and the endpoints match the program counter (`Recorded`,
  `Marked`, `Answered`). The proof reduces every action to one of a few shapes of step
  (`AdmitStep`, `GuardedStep`, `TerminalStep`, `RetireStep`, `TakeStep`, `ReplaceStep`,
  `FrameStep`).
- `BrokerProofs!BrokerImplementsLedger`: `Spec => ImplementsLedger`, step by step: each
  action of the broker is a step of `EffectLedger` or leaves its variables alone.
- `BrokerProofs!LostTerminalIsNoticed`, `ClosedMeansComplete`, `ClosedMeansSilent`,
  `EvidenceIsTrueAlways`: what drains, stops and lost terminals promise
  (LostTerminalClosesGate, ClosedIsComplete, NoEffectAfterDrain, EvidenceIsTrue).
  `PermitInv` says which permit an execution holds at each place of its task and that a
  queued terminal of a Connection carries its armed permit; without it a drain that saw no
  permits would not know that no task runs. `DrainInv` and `StopInv` say what each
  stage of the drain and of an error-free stop has established so far; the promise made
  at the end is not inductive without what the earlier stages left.

About `LocalCalls`, from `LocalCallsAssumption` (calls and signatures have different keys
and are not named like the other owners of the coordinator; there is a key; limits are
naturals). Any number of calls, signatures, approvals, keys, policies:

- `CallProofs!EndedApprovalsStayEnded` (NoRevival), `OneApprovalOneStart`
  (ApprovalUsedOnce), `StartsFollowGrants` (StartsAreGranted), `UnconfirmedStartNothing`,
  `ReservationsAreOwned`, `HourlyCountIsExact` (RateExact), `PendingIsBounded`
  (PendingBounded), `CallsTypeCorrect`.
- Every operation of the table is first reduced to what it does to one entry:
  `EntryStep` (it keeps its key, ends for good, is pending only when new), `Bystander`
  (nobody but the owner of a reservation changes the flag of an entry that stays) and
  `NoGrant`.
- `Sound` is the types, where a task can be, and who holds the coordinator.
- `OwnInv` is what ApprovalUsedOnce lacks: a task's approval is an entry for its own
  request and nobody else's, a call has it reserved until the entry has ended or been
  cleared away, and nothing is reserved but by a call on its way.
- `JournalInv` is what StartsAreGranted lacks: at each step of a decision, what the
  journal says of the request (`DecisionInv`); an entry is approved only if it was
  granted (`GrantInv`); and a task that has passed its second look under the coordinator
  rests on a decision that no handler will cancel any more (`ConfirmInv`).
- `CountInv` adds to RateExact that no call has a slot of a window still to come; each
  step adds, returns or keeps one call of the window, and the lemmas about cardinality
  do the rest. `PendingInv` adds that the live entries are a finite set, which only a
  registration (`OnlyRegisterAdds`) extends, below its limit.

About `UpstreamTransport`, from `TransportAssumption`:

- `UpstreamTransport!ContactedIsScreened` (TransportIsScreened) and `CallerIsToldTheRow`
  (ToldAsRecorded: whatever transport, filters and audit worker made of it, success is told
  only with a stored finished row, and what can be repeated only if nothing left), at
  the end of the module itself. `TransportInv` adds that an answer in hand is a
  sequence of addresses, that a client exists only for a screened address, and that once a
  request left, the result is one of those that do not deny it.

About `CertificateAuthority`, from `CertificateAuthorityAssumption`: any serials, keys, versions and times.

- `CertificateProofs!ListsNameTheRevoked` (CrlNamesTheRevoked), `RevocationsAreFinal`
  (RevocationIsFinal), `ListsKnowEveryLeaf`, `NumbersIncrease`, `HeldIsRecorded`.
- A list is signed some steps after it was reserved, so the promise about it is not
  inductive: `ListRight` says that a list in progress still equals the authenticated
  table, that nothing in it is open and that its number is the last one; `IssueRight` says
  that an issue owns its reserved row and that no leaf of it exists before it is signed;
  `TableInv` that every leaf is of the key its row names. The file's own table is in the
  invariant only through `Verified`: whatever another program wrote, a transaction
  starts from the table of the header or not at all.

About `DerivedCredentials`, from `DerivedAssumption` (there is a policy, signed lifetimes
are valid as `validate_ttl` says, a second and a millisecond have positive length):

- `DerivedProofs!BodiesAreJournaled` (DeliveredIsJournaled), `IssuedIsNeverBlocked`
  (IssuedIsNotBlocked), both from `RequestInv`: what the rows, the terminal and the
  provider know of a request at each place of its handler. Every step is one of three
  shapes, `GoStep`, `OnStep` and `EndStep`.
- `CredentialsAreAsSigned` (IssuedAsSigned), from `Signed` and the lemmas `Division`,
  `Multiples`, `ExpiryFacts`: an expiry rounded up to a millisecond is still within the
  lifetime because now and the lifetime are whole milliseconds.
- `CoordinatorIsHeld` (TypeOK) and `BodiesLeaveUnderTheirPolicy` (DeliveredUnderItsPolicy),
  from `Held`: one holder, at known places; what is being recorded is under the current
  policy, because activation needs the coordinator; and a deadline is never after the end
  of the policy, which is why the look at the deadline in Finish is enough.
- `ApprovalsStartOneRequest` (ApprovalUsedOnce), from `OnceInv`: an approval that a
  request took is consumed, belongs to the request's caller and policy, and was taken by no
  other; a name that no request has asked under stands for no approval, so registering
  never replaces one that was taken.

About `LeaseJournal`, for any executions and any assignment of them to sources:

- `LeaseProofs!LiveIsJournaled` (LiveLeasesAreJournaled), `SourcesHaveOneAcquisition`
  (OneAcquisitionPerSource), `SuccessIsRevoked` (SuccessMeansRevoked), all from `LeaseInv`.
- A registration is completed some steps after the revocation it reports, so none of the
  three is inductive. `LeaseRight` says what is known meanwhile: a registration that names
  its lease has no second live one, a confirmed cleanup has no live lease, a request that is
  taken back was never sent. `RecoveryRight` says that a recovery works while no execution
  does, and the same of the registration at its head; `OnePending` that registrations of one
  source follow one another. A call is reduced to what it makes of the row (`CallFacts`),
  heard or not, and a revocation to what it may leave alive (`RevokeFacts`).
- NoIntegrityFault and RecoveryReachesAll stay with TLC: the first is about the sequence
  that a filter makes of the journal's order, the second is liveness.

About `PluginTree`, from `RegisteredAssumption`, for any number of executions and whether or
not broker and guardian may die:

- `PluginProofs!SuccessIsEmpty` (SuccessMeansEmpty), `GuardiansLeaveNone`
  (GuardianLeavesNone), `PinnedIsExecuted` (ExecutesRegistered), `LeavesAreDelegated`
  (LeafUnderDelegatedRoot), `PluginTypeCorrect` (TypeOK), all from `PluginInv`.
- `LeafRight` says what is in the leaf at each place of launcher and broker: success rests on
  a launcher that has exited before the broker kills, waits and removes. `GuardRight` is what
  GuardianLeavesNone lacks: a guardian begins its cleanup only when the deadline has passed,
  the broker is gone or the launcher cannot go on, and before the deadline nothing lives in
  the leaf after its kill; so what joins later is refused at the last look before exec.
- Kills, exits and drops are reduced to what they do to an execution's record (`KillRight`,
  `LauncherExitRight`, `FailRight`), then every action to `SetStep`.

About `AuthorityMailbox`, from `MailboxAssumption`, `CommandsAssumption` and
`DelaysAssumption`, for any callers, any queue length and any delay function; the proofs are
at the end of the module:

- `AuthorityMailbox!AnswersAreTrueAlways` (AnswersAreTrue), `TerminalsFindRoom`, `MailboxTypeCorrect`, from `MailboxInv`, and
  `GuessesAreSpacedAlways`, from `GuessInv`.
- An answer is given in one step and the change it speaks of is made in another, so
  AnswersAreTrue is not inductive. `MailboxInv` says where a command can be: waiting for
  room, in the queue once, at the worker, or answered; and that it has changed nothing
  before the worker commits it. `GuessInv` relates the counter of wrong proofs to the time
  before which the next one is not looked at.

About `AccessRequests`, `Sessions` and `ProfileControl`. `CallProofs` instantiates each of
them once (`Access`, `Reg`, `Ctl`), with constants and variables of its own that nothing is
assumed of; a theorem has the component's assumption as its only hypothesis
(`ASSUME Reg!SessionsAssumption PROVE Reg!Spec => []...`). These are the components whose
properties CountsAreExact, ToldIsJournaled and EndedStaysEnded join in the run `calls`; every
conjunct of the three is a theorem for every value of the constants.

- `AccessRequests`: `AccessTypeCorrect`, `ResolutionsAreJournaled`, `AccessCountIsExact`
  (AccessRateExact), `RequestsResolveOnce` (ResolvedOnce). `AccessInv` adds that no request
  was counted in a window still to come and that the resolution an administrator is about to
  publish is in the journal.
- `Sessions`: `SessionTypeCorrect`, `SlotsAreExact` (InFlightExact), `UsesAreConserved`
  (UsesConserved), from `SessionInv`: what a permit holds at each place of its execution, and
  that the sets of permits behind slots and uses change by one execution a step.
  `RevokedSessionsAreSilent` (RevokedNeverActs) and `ExpiredSessionsAreSilent`
  (ExpiryIsFinal), from `EndedInv`; `ExpiredGrantsStayRefused` (ExpiredGrantIsFinal) and
  `GrantsAreBounded`, from `GrantExpiryInv`; `OneOpenApproval` (OneLivePerRequest) and
  `OpenApprovalsAreKept` (OpenApprovalKept), from `ApprovalInv`, which says what the owner
  of the coordinator found before its await; `ApprovalsAreInTime` (NoLateApproval);
  `PendingRecordsAreBounded` (RecordsBounded, `RecordsInv`) and `ControlsAreBounded`
  (ControlsBounded, `OwnersInv`).
- `ApprovalsBoundStarts` (StartsWithinApproval) is a statement about sums: the starts of a
  signed approval times the threshold are at most the uses of all grants. A sum needs
  induction over data; `SpentInv` counts a set instead, the pairs of an approver and a use it
  has spent, which every accepted quorum makes larger by its size (`Spent`).
- `ProfileControl`: `ControlTypeCorrect`, `ProfileSessionsAreCurrent`
  (LiveSessionsAreCurrent), `TokensFollowRows` (TokenAfterRow), `NoSessionIsOrphaned`
  (NoOrphanSession), `RowsArePaired` (RowsPaired), from `ControlInv`: who owns a slot
  (`OwnersRight`), what a creation has read under the coordinator (`CreatingRight`), where
  the task of a live session is (`LiveRight`) and which rows it has written (`RowRight`).
- The assumptions are those the code justifies: ids of the registry's tables are distinct,
  there is a session and a request to speak about, approvers are finitely many, limits are
  positive.

About `RevocableTokens`, which `LeaseProofs` instantiates as `Tok` in the same way, from
`TokenAssumption` (a positive limit, known kinds of source):

- `LeaseProofs!TokensAreRevoked` (SuccessMeansRevoked), `TerminalsTellTokens`
  (TerminalTellsTokens), `TokensAreTried` (EveryTokenTried), `RetriesAreSafe`
  (NoRetryAfterEffect), `TokenTypeCorrect` (TypeOK) and `WritesAreSentOnce` (WritesSentOnce),
  all from `TokenInv`.
- The promises are made when the execution ends, about tokens minted many steps before.
  `LiveRight` carries them there: as long as no revocation has failed and the answer was
  understood, what lives at the provider is on the list of tokens still to be revoked.
  `HeldRight` says that each token kept is on that list or was tried.
- It begins with what is kept of an answer: the first occurrences, up to the limit, in
  order. That this covers what was minted is `CapturedCovers`, from `InOrderCovers` (the
  ranks of a finite set of positions are a bijection) and `FirstCovers`, for answers of up to
  three values (`Bodies`); that longer ones have first occurrences too needs induction.

The invariants of `Broker`, `LocalCalls`, `UpstreamTransport`, `PluginTree` and
`AuthorityMailbox` were checked by TLC on small instances before their proofs; what the
theorems of the others state is checked by the runs `calls`, `vault`, `channel` and `sources`.

Only model-checked: liveness (StartedIsTerminated, StopsEnd, CleanupEnds: fairness
and ENABLED are outside the prover); every property of a suite as a whole (a conjunction over
instances with fixed constants, even where each conjunct is proved);
the components named in the plan; what the recursive definitions of
`LlmStream`, `RequestBinding` and `ConnectionRules` compute, which needs induction over
data.

## 5. Findings and observations

Finding (run `window`, quoted in `PROJECT.json`): a Connection call that looked its window
up, and stalled before it queued for the coordinator across a complete lock and unlock,
starts under a window the lock has cleared. One-time approvals are validated again
under the coordinator; windows are not.

Observations, without a run of their own:

- `signal_cancel` without a subscriber is lost; executions that subscribe later are
  ended by revocation, gate or deadline instead.
- `enter_running` shows Running for a moment with a stop pending; the gate, not the
  phase, keeps effects out.
- `open_for_admission` may reopen the registry after a fault closed it during the same
  unlock; nothing started then passes the gate (NoEffectAfterStop).
- a stop does not wait for a future that was polled before it: an endpoint may be contacted
  after `STOP_PENDING`. NoEffectAfterStop says by whom: by those already past the gate, who
  only become fewer. A drain, and a clean stop, do wait (NoEffectAfterDrain).
- an unlock repeated while Running that fails in activation locks the Authority without
  draining the executions in flight.
- the OAuth refresh reads the gate without the coordinator; MayContact counts it from that
  look on.
- a resolution of an access request is journaled before the table is asked whether it
  is still pending, so the journal can record a grant that the caller never sees.
- an access request over its limit is answered `BUDGET_EXCEEDED` where the call model
  (docs/superpowers/specs, "agent call model") speaks of `RATE_LIMITED`.
- an ssh signature consumes its approval without the coordinator, so a decision
  reported as unconfirmed may already have been used; UnconfirmedNeverStarts is
  therefore stated for Connection calls only.
- activating a policy does not clear approvals; they are bound to the policy's hash and
  simply stop matching.
- any answer of the provider but 200, and without a lease id, completes a lease's row as
  definitely not acquired (`vault_dynamic.rs` 240-246), a 5xx too, where
  `docs/superpowers/specs/2026-09-03-vault-dynamic-lease-source-p07b.md` (243-245) asks for indeterminate. A lease behind such an
  answer is in no journal; the lease properties are stated for the others.
- an activation may fail after its bundle is committed (`B/runtime/admin.rs` 499-501). The
  rows of used tokens are deleted by then and the old policy stays active, so a token may be
  used twice under it, and a retry publishes the new one without revoking sessions.
  TokenUsedOnce excepts a policy that stays active after a later one was stored.
- forgetting a desktop ticket that is already gone (`V/authority/desktop.rs` 189) does not
  sync the directory: after a removal whose sync failed, a ticket reported as forgotten may
  return with a power failure that comes after a clean stop has removed the crash marker.
  ForgottenTicketIsGone excepts exactly this.
- the Connection that executes with a private key may be told `AUTHORITY_BUSY` after its
  TLS handshake, never after its HTTP request left; an approved call told so after its
  started row has used its approval (BusyHasNoEffect: such an execution is over and handed nothing to the transport).
- a local decision whose row is unconfirmed is not settled; the caller is told so.
- `SSH_KEY` and `IMPORT_ENV` add credentials without the fit check, so the list of
  credentials may outgrow its response (CheckedAddsFit is about the other adds).
- delivery of a derived credential and of a signature compares the policy's digest and not
  its end; only the request's deadline, counted from the activation, bounds it, so a wall
  clock that has passed the end meanwhile does not keep the body back.
- the Responses protocol releases a part at its `part_done`: a credential joined over two
  parts is found only after its first half was relayed. StreamsAreInspected is about single
  channels.
- a member removed from the directory is cut off at the relay only after the answer under
  way, the observation and the request's token have aged (RemovedIsCutOff has the sum, and
  one less is violated).

## 6. Not modelled

Cryptographic primitives and their encodings; the classification of single addresses
(`ip_is_public`); the frame scanner and the sealer of text streams, the rewriting of
environment files, the repository list of a GitHub installation, the formats of ssh keys,
of CSRs and of OIDC tokens: pure functions over bytes or records with unit tests of their
own; the macOS sandbox, seccomp and profile sandboxes, the command line and the
application's views. Of the code behind the `lab` feature, the administrator's OIDC login
(`OidcAdmin`), the managed admissions of Profile sessions (`ProfileControl`) and
`SESSION_CREATE`/`SESSION_REVOKE` (`AdminRequests`, `Sessions`) are modelled; metrics and
the sealer of text streams are not.

## 7. Plan

The model is complete in the sense of section 3: what is left is more proof. In this order:

1. `SshAgent` and `WorkloadAdmission`: the coordinator's invariant of
   `DerivedCredentials` again, for signatures and for the admission of workloads.
2. `SourceReads`, `OAuthGrants`, `MtlsExecution`: what their run checks of evidence and use.
3. `VaultGeneration`, `DesktopUnlock`, `OidcAdmin`, `AdminRequests`: crash by crash, what is
   on disk before it is trusted.

Liveness and what recursive definitions compute stay with TLC.
