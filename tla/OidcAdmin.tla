------------------------------ MODULE OidcAdmin ------------------------------
(***************************************************************************)
(* oidc_admin.rs of the broker: the logins of administrators at the        *)
(* company's OpenID provider, the management sessions they open, the       *)
(* managed operations those sessions admit, and the poll that asks the     *)
(* directory again for every administrator who holds one.                  *)
(*                                                                         *)
(* The manager's mutex is held for one step at a time; the provider, the   *)
(* directory, the journal and the clocks answer between steps.  A flow id  *)
(* names one login, its finishing request and the session it opens.        *)
(***************************************************************************)
EXTENDS Naturals, FiniteSets, Sequences

CONSTANTS
    Flow,           \* logins
    Admin,          \* administrators of the profile
    Mint,           \* managed requests that publish a capability
    MaxFlows,       \* 8: flows and exchanges at once
    MaxSessions,    \* 32
    PollWidth,      \* 4: proofs of a poll at once
    CanFail,        \* bound: whether a row may fail to be written and the broker stop
    MaxLocks        \* bound: locks of the vault

OidcAdminAssumption ==
    /\ {"free", "drain"} \cap Flow = {}
    /\ MaxFlows \in Nat \ {0} /\ MaxSessions \in Nat \ {0}
    /\ PollWidth \in Nat \ {0} /\ MaxLocks \in Nat /\ CanFail \in BOOLEAN

VARIABLES
    phase,          \* the gate: "running", "locked", "faulted" or "stopped"
    registry,       \* the session registry admits capabilities
    coordinator,    \* who holds the lifecycle coordinator
    faulting,       \* request_fault was called and has not closed the gate yet
    member,         \* what the directory says of each administrator
    epoch, gen,     \* state.epoch, state.principal_generations
    flow,           \* "none", "open", "exchanging" or "gone" from the manager
    sent,           \* what the browser's callback put into the flow's channel
    late,           \* the flow's deadline has passed
    cancelled,      \* the flag of an exchange
    seenEpoch, seenGen,  \* what begin captured
    pc, who,        \* where the finishing request is; the administrator it proved
    aged,           \* the login's tokens, or its session, are past their end
    sessions,       \* state.sessions: the flows that opened them, in order
    mint, by,       \* where a managed request is; the session that admitted it
    cap,            \* its capability: "none", "hidden", "live" or "revoked"
    poll, affected, job, asked, left,   \* the poll, its batch and its tasks
    leaving,        \* the administrator whose logout waits for its row
    logged,         \* logins whose login_success row is on disk
    unlogged,       \* administrators closed since their last row
    won             \* cancellations that were answered with success

gateVars == <<phase, registry, coordinator, faulting>>
flowVars == <<flow, sent, late, seenEpoch, seenGen>>
taskVars == <<pc, who, aged>>
mintVars == <<mint, by>>
pollVars == <<poll, affected, job, asked, left>>
vars == <<gateVars, member, epoch, gen, flowVars, cancelled, taskVars, sessions, mintVars, cap,
          pollVars, leaving, logged, unlogged, won>>

Nobody == "nobody"
Phases == {"running", "locked", "faulted", "stopped"}
Tasks == {"idle", "beginning", "waiting", "exchange", "proof", "proved", "refused", "closing",
          "success", "install", "failed", "done"}
MintTasks == {"idle", "proof", "proved", "refused", "closing", "insert", "row", "publish", "done"}
JobStates == {"none", "pending", "proof", "proved", "refused", "closing"}

Init ==
    /\ phase = "running" /\ registry = TRUE /\ coordinator = "free" /\ faulting = FALSE
    /\ member = [p \in Admin |-> TRUE]
    /\ epoch = 0 /\ gen = [p \in Admin |-> 0]
    /\ flow = [f \in Flow |-> "none"] /\ sent = [f \in Flow |-> "empty"]
    /\ late = [f \in Flow |-> FALSE] /\ cancelled = [f \in Flow |-> FALSE]
    /\ seenEpoch = [f \in Flow |-> 0] /\ seenGen = [f \in Flow |-> gen]
    /\ pc = [f \in Flow |-> "idle"] /\ who = [f \in Flow |-> Nobody]
    /\ aged = [f \in Flow |-> FALSE]
    /\ sessions = <<>>
    /\ mint = [m \in Mint |-> "idle"] /\ by = [m \in Mint |-> Nobody]
    /\ cap = [m \in Mint |-> "none"]
    /\ poll = "idle" /\ affected = {} /\ job = [p \in Admin |-> "none"]
    /\ asked = [p \in Admin |-> Nobody] /\ left = {}
    /\ leaving = Nobody
    /\ logged = {} /\ unlogged = {} /\ won = {}

(***************************************************************************)
(* What the manager's mutex protects.                                      *)
(***************************************************************************)
Installed == {sessions[i] : i \in DOMAIN sessions}
Holders == {who[f] : f \in Installed}
SessionOf(p) == sessions[CHOOSE i \in DOMAIN sessions :
                    /\ who[sessions[i]] = p
                    /\ \A j \in 1..(i - 1) : who[sessions[j]] # p]
Revoked(owners) ==
    [m \in Mint |-> IF cap[m] \in {"hidden", "live"} /\ who[by[m]] \in owners
                    THEN "revoked" ELSE cap[m]]
Running == phase = "running"

Clear ==
    /\ epoch' = epoch + 1
    /\ flow' = [f \in Flow |-> IF flow[f] = "none" THEN "none" ELSE "gone"]
    /\ cancelled' = [f \in Flow |-> cancelled[f] \/ flow[f] = "exchanging"]
    /\ sessions' = <<>>

\* close_principal and the batch of the poll: the identities go and with them,
\* under the same lock, the capabilities.
Close(owners) ==
    /\ gen' = [p \in Admin |-> IF p \in owners THEN gen[p] + 1 ELSE gen[p]]
    /\ sessions' = SelectSeq(sessions, LAMBDA f : who[f] \notin owners)
    /\ cap' = Revoked(owners)
    /\ unlogged' = unlogged \cup owners

\* Manager::publish: the session that admitted the request still stands.
Stands(f) == Running /\ f \in Installed /\ ~aged[f]

\* The journal refused or was late: everything is dropped before the fault is
\* asked for.
Fault ==
    /\ Clear
    /\ cap' = Revoked(Admin)
    /\ registry' = FALSE
    /\ faulting' = TRUE
    /\ UNCHANGED <<phase, coordinator, member, gen, sent, late, seenEpoch, seenGen, who, aged,
                   by, affected, asked, unlogged, won>>

(***************************************************************************)
(* begin, cancel and the browser's callback.                               *)
(***************************************************************************)
BeginEnter(f) ==
    /\ pc[f] = "idle" /\ flow[f] = "none"
    /\ coordinator = "free" /\ Running
    /\ coordinator' = f
    /\ pc' = [pc EXCEPT ![f] = "beginning"]
    /\ UNCHANGED <<phase, registry, faulting, member, epoch, gen, flowVars, cancelled, who, aged,
                   sessions, mintVars, cap, pollVars, leaving, logged, unlogged, won>>

Kept == {f \in Flow : flow[f] = "exchanging" \/ (flow[f] = "open" /\ ~late[f])}

BeginInsert(f) ==
    /\ pc[f] = "beginning"
    /\ coordinator' = "free"
    /\ pc' = [pc EXCEPT ![f] = "idle"]
    /\ flow' = [g \in Flow |->
                  CASE g = f -> IF Cardinality(Kept) >= MaxFlows THEN "none" ELSE "open"
                    [] g # f /\ flow[g] = "open" /\ late[g] -> "gone"
                    [] OTHER -> flow[g]]
    /\ seenEpoch' = [seenEpoch EXCEPT ![f] = epoch]
    /\ seenGen' = [seenGen EXCEPT ![f] = gen]
    /\ UNCHANGED <<phase, registry, faulting, member, epoch, gen, sent, late, cancelled, who,
                   aged, sessions, mintVars, cap, pollVars, leaving, logged, unlogged, won>>

Cancel(f) ==
    /\ flow[f] \in {"open", "exchanging"}
    /\ flow' = [flow EXCEPT ![f] = "gone"]
    /\ cancelled' = [cancelled EXCEPT ![f] = flow[f] = "exchanging"]
    /\ won' = won \cup {f}
    /\ UNCHANGED <<gateVars, member, epoch, gen, sent, late, seenEpoch, seenGen, taskVars,
                   sessions, mintVars, cap, pollVars, leaving, logged, unlogged>>

Callback(f, result) ==
    /\ flow[f] = "open" /\ ~late[f] /\ sent[f] = "empty"
    /\ sent' = [sent EXCEPT ![f] = result]
    /\ UNCHANGED <<gateVars, member, epoch, gen, flow, late, cancelled, seenEpoch, seenGen,
                   taskVars, sessions, mintVars, cap, pollVars, leaving, logged, unlogged, won>>

(***************************************************************************)
(* finish: the flow leaves the map before the code is spent.               *)
(***************************************************************************)
TaskGoes(f, where) ==
    /\ pc' = [pc EXCEPT ![f] = where]
    /\ UNCHANGED <<gateVars, member, epoch, sent, late, seenEpoch, seenGen, aged, mintVars,
                   pollVars, leaving, won>>

\* The exchange is over: it cannot be cancelled any more.
Ends(f) == flow' = [flow EXCEPT ![f] = "gone"]

Finish(f) ==
    /\ pc[f] = "idle" /\ flow[f] = "open" /\ Running
    /\ TaskGoes(f, "waiting")
    /\ UNCHANGED <<flow, cancelled, who, gen, sessions, cap, unlogged, logged>>

Wake(f) ==
    /\ pc[f] = "waiting"
    /\ sent[f] # "empty" \/ late[f] \/ flow[f] # "open"
    /\ IF flow[f] = "open" /\ sent[f] = "code" /\ seenEpoch[f] = epoch
       THEN flow' = [flow EXCEPT ![f] = "exchanging"] /\ TaskGoes(f, "exchange")
       ELSE Ends(f) /\ TaskGoes(f, "failed")
    /\ UNCHANGED <<cancelled, who, gen, sessions, cap, unlogged, logged>>

\* The token endpoint, the keys and the ID token; the subject is one of the
\* profile's administrators.
Exchange(f, p) ==
    /\ pc[f] = "exchange"
    /\ who' = [who EXCEPT ![f] = p]
    /\ TaskGoes(f, "proof")
    /\ UNCHANGED <<flow, cancelled, gen, sessions, cap, unlogged, logged>>

ExchangeFails(f) ==
    /\ pc[f] = "exchange"
    /\ Ends(f)
    /\ TaskGoes(f, "failed")
    /\ UNCHANGED <<cancelled, who, gen, sessions, cap, unlogged, logged>>

\* The directory answers for the moment it was asked; an answer may be lost.
Proof(f, ok) ==
    /\ pc[f] = "proof"
    /\ ok => member[who[f]] /\ ~late[f]
    /\ TaskGoes(f, IF ok THEN "proved" ELSE "refused")
    /\ UNCHANGED <<flow, cancelled, who, gen, sessions, cap, unlogged, logged>>

ProofRefused(f) ==
    /\ pc[f] = "refused"
    /\ \/ /\ Running
          /\ Close({who[f]})
          /\ TaskGoes(f, "closing")
          /\ UNCHANGED flow
       \/ /\ ~Running
          /\ Ends(f)
          /\ TaskGoes(f, "failed")
          /\ UNCHANGED <<gen, sessions, cap, unlogged>>
    /\ UNCHANGED <<cancelled, who, logged>>

ClosingLogged(f) ==
    /\ pc[f] = "closing"
    /\ unlogged' = unlogged \ {who[f]}
    /\ Ends(f)
    /\ TaskGoes(f, "failed")
    /\ UNCHANGED <<cancelled, who, gen, sessions, cap, logged>>

Current(f) ==
    /\ seenEpoch[f] = epoch /\ ~cancelled[f]
    /\ seenGen[f][who[f]] = gen[who[f]]
    /\ ~late[f] /\ ~aged[f]

Proved(f) ==
    /\ pc[f] = "proved"
    /\ IF Current(f) /\ Running
       THEN TaskGoes(f, "success") /\ UNCHANGED flow
       ELSE TaskGoes(f, "failed") /\ Ends(f)
    /\ UNCHANGED <<cancelled, who, gen, sessions, cap, unlogged, logged>>

SuccessLogged(f) ==
    /\ pc[f] = "success"
    /\ ~late[f]
    /\ logged' = logged \cup {f}
    /\ TaskGoes(f, "install")
    /\ UNCHANGED <<flow, cancelled, who, gen, sessions, cap, unlogged>>

\* Mutant: the administrator's generation is not asked again after the row.
InstallUnchecked(f) ==
    /\ pc[f] = "install"
    /\ Ends(f)
    /\ IF /\ seenEpoch[f] = epoch /\ ~cancelled[f] /\ ~late[f] /\ ~aged[f]
          /\ Running /\ Len(sessions) < MaxSessions
       THEN sessions' = Append(sessions, f) /\ TaskGoes(f, "done")
       ELSE UNCHANGED sessions /\ TaskGoes(f, "failed")
    /\ UNCHANGED <<cancelled, who, gen, cap, unlogged, logged>>

Install(f) ==
    /\ pc[f] = "install"
    /\ Ends(f)
    /\ IF Current(f) /\ Running /\ Len(sessions) < MaxSessions
       THEN sessions' = Append(sessions, f) /\ TaskGoes(f, "done")
       ELSE UNCHANGED sessions /\ TaskGoes(f, "failed")
    /\ UNCHANGED <<cancelled, who, gen, cap, unlogged, logged>>

FailureLogged(f) ==
    /\ pc[f] = "failed"
    /\ TaskGoes(f, "done")
    /\ UNCHANGED <<flow, cancelled, who, gen, sessions, cap, unlogged, logged>>

\* The row of a login that succeeded may be on disk although its answer is late.
TaskFaults(f) ==
    /\ pc[f] \in {"success", "closing", "failed"}
    /\ pc' = [pc EXCEPT ![f] = "done"]
    /\ logged' \in {logged, IF pc[f] = "success" THEN logged \cup {f} ELSE logged}
    /\ Fault
    /\ UNCHANGED <<mint, poll, job, left, leaving>>

(***************************************************************************)
(* Managed operations: admit (or human_admission), then the mint.          *)
(***************************************************************************)
MintGoes(m, where) ==
    /\ mint' = [mint EXCEPT ![m] = where]
    /\ UNCHANGED <<gateVars, member, epoch, flowVars, cancelled, taskVars, pollVars, leaving,
                   logged, won>>

Snapshot(m, f) ==
    /\ mint[m] = "idle"
    /\ f \in Installed
    /\ by' = [by EXCEPT ![m] = f]
    /\ MintGoes(m, "proof")
    /\ UNCHANGED <<gen, sessions, cap, unlogged>>

AdmissionProof(m, ok) ==
    /\ mint[m] = "proof"
    /\ ok => member[who[by[m]]]
    /\ MintGoes(m, IF ok THEN "proved" ELSE "refused")
    /\ UNCHANGED <<by, gen, sessions, cap, unlogged>>

Admit(m) ==
    /\ mint[m] \in {"proved", "refused"}
    /\ \/ /\ mint[m] = "proved" /\ Stands(by[m])
          /\ MintGoes(m, "insert")
          /\ UNCHANGED <<gen, sessions, cap, unlogged>>
       \/ /\ mint[m] = "refused" \/ ~Stands(by[m])
          /\ ~Running
          /\ MintGoes(m, "done")
          /\ UNCHANGED <<gen, sessions, cap, unlogged>>
       \/ /\ mint[m] = "refused" \/ ~Stands(by[m])
          /\ Running
          /\ Close({who[by[m]]})
          /\ MintGoes(m, "closing")
    /\ UNCHANGED by

AdmitLogged(m) ==
    /\ mint[m] = "closing"
    /\ unlogged' = unlogged \ {who[by[m]]}
    /\ MintGoes(m, "done")
    /\ UNCHANGED <<by, gen, sessions, cap>>

\* The registry takes the capability before its row is written; its token is not
\* told yet.
Insert(m) ==
    /\ mint[m] = "insert"
    /\ IF registry THEN cap' = [cap EXCEPT ![m] = "hidden"] /\ MintGoes(m, "row")
                   ELSE UNCHANGED cap /\ MintGoes(m, "done")
    /\ UNCHANGED <<by, gen, sessions, unlogged>>

RowCommitted(m) ==
    /\ mint[m] = "row"
    /\ MintGoes(m, "publish")
    /\ UNCHANGED <<by, gen, sessions, cap, unlogged>>

Publish(m) ==
    /\ mint[m] = "publish"
    /\ cap' = [cap EXCEPT ![m] = IF Stands(by[m]) /\ cap[m] = "hidden" THEN "live" ELSE "revoked"]
    /\ MintGoes(m, "done")
    /\ UNCHANGED <<by, gen, sessions, unlogged>>

MintFaults(m) ==
    /\ mint[m] \in {"closing", "row"}
    /\ mint' = [mint EXCEPT ![m] = "done"]
    /\ Fault
    /\ UNCHANGED <<pc, poll, job, left, leaving, logged>>

(***************************************************************************)
(* logout.                                                                 *)
(***************************************************************************)
Logout(f) ==
    /\ leaving = Nobody
    /\ f \in Installed
    /\ Close({who[f]})
    /\ leaving' = who[f]
    /\ UNCHANGED <<gateVars, member, epoch, flowVars, cancelled, taskVars, mintVars, pollVars,
                   logged, won>>

LogoutLogged ==
    /\ leaving # Nobody
    /\ unlogged' = unlogged \ {leaving}
    /\ leaving' = Nobody
    /\ UNCHANGED <<gateVars, member, epoch, gen, flowVars, cancelled, taskVars, sessions,
                   mintVars, cap, pollVars, logged, won>>

LogoutFaults ==
    /\ leaving # Nobody
    /\ leaving' = Nobody
    /\ Fault
    /\ UNCHANGED <<pc, mint, poll, job, left, logged>>

(***************************************************************************)
(* The poll: every 30 seconds the directory is asked for every holder.     *)
(***************************************************************************)
PollKeeps == UNCHANGED <<gateVars, member, epoch, flowVars, cancelled, taskVars, mintVars,
                         leaving, logged, won>>

PollStarts ==
    /\ poll = "idle" /\ Running /\ Holders # {}
    /\ poll' = "batch"
    /\ affected' = Holders
    /\ job' = [p \in Admin |-> IF p \in Holders THEN "pending" ELSE "none"]
    /\ PollKeeps
    /\ UNCHANGED <<gen, sessions, cap, unlogged, asked, left>>

Active == {p \in Admin : job[p] \notin {"none", "pending"}}

JobStarts(p) ==
    /\ poll = "batch" /\ job[p] = "pending"
    /\ Cardinality(Active) < PollWidth
    /\ IF p \in Holders
       THEN /\ asked' = [asked EXCEPT ![p] = SessionOf(p)]
            /\ job' = [job EXCEPT ![p] = "proof"]
       ELSE job' = [job EXCEPT ![p] = "none"] /\ UNCHANGED asked
    /\ PollKeeps
    /\ UNCHANGED <<poll, affected, left, gen, sessions, cap, unlogged>>

JobProof(p, ok) ==
    /\ job[p] = "proof"
    /\ ok => member[p]
    /\ job' = [job EXCEPT ![p] = IF ok THEN "proved" ELSE "refused"]
    /\ PollKeeps
    /\ UNCHANGED <<poll, affected, left, asked, gen, sessions, cap, unlogged>>

JobEnds(p) ==
    /\ job[p] \in {"proved", "refused"}
    /\ IF (job[p] = "proved" /\ Stands(asked[p])) \/ ~Running
       THEN job' = [job EXCEPT ![p] = "none"] /\ UNCHANGED <<gen, sessions, cap, unlogged>>
       ELSE job' = [job EXCEPT ![p] = "closing"] /\ Close({p})
    /\ PollKeeps
    /\ UNCHANGED <<poll, affected, left, asked>>

JobLogged(p) ==
    /\ job[p] = "closing"
    /\ unlogged' = unlogged \ {p}
    /\ job' = [job EXCEPT ![p] = "none"]
    /\ PollKeeps
    /\ UNCHANGED <<poll, affected, left, asked, gen, sessions, cap>>

PollEnds ==
    /\ poll = "batch" /\ \A p \in Admin : job[p] = "none"
    /\ poll' = "idle"
    /\ affected' = {}
    /\ PollKeeps
    /\ UNCHANGED <<job, asked, left, gen, sessions, cap, unlogged>>

\* The batch did not end in 10 seconds: its tasks are dropped and all of it is
\* closed before the first row.
PollTimesOut ==
    /\ poll = "batch" /\ \E p \in Admin : job[p] # "none"
    /\ Close(affected)
    /\ left' = affected
    /\ poll' = "closing"
    /\ job' = [p \in Admin |-> "none"]
    /\ PollKeeps
    /\ UNCHANGED <<affected, asked>>

BatchLogged(p) ==
    /\ poll = "closing" /\ p \in left
    /\ unlogged' = unlogged \ {p}
    /\ left' = left \ {p}
    /\ poll' = IF left = {p} THEN "idle" ELSE "closing"
    /\ affected' = IF left = {p} THEN {} ELSE affected
    /\ PollKeeps
    /\ UNCHANGED <<job, asked, gen, sessions, cap>>

PollFaults ==
    /\ \/ /\ poll = "closing"
          /\ poll' = "idle" /\ left' = {}
          /\ UNCHANGED job
       \/ \E p \in Admin :
          /\ job[p] = "closing"
          /\ job' = [job EXCEPT ![p] = "none"]
          /\ UNCHANGED <<poll, left>>
    /\ Fault
    /\ UNCHANGED <<pc, mint, leaving, logged>>

(***************************************************************************)
(* The broker around the manager.                                          *)
(***************************************************************************)
Surroundings == UNCHANGED <<member, gen, sent, late, seenEpoch, seenGen, taskVars, mintVars,
                            leaving, logged, unlogged, won>>

\* run_drain_lock clears the manager first and closes the gate after it, holding
\* the coordinator throughout.
DrainClears ==
    /\ coordinator = "free" /\ Running /\ ~faulting /\ epoch < MaxLocks
    /\ coordinator' = "drain"
    /\ Clear
    /\ Surroundings
    /\ UNCHANGED <<phase, registry, faulting, cap, pollVars>>

DrainCloses ==
    /\ coordinator = "drain" /\ Running
    /\ phase' = "locked" /\ registry' = FALSE
    /\ coordinator' = "free"
    /\ cap' = Revoked(Admin)
    /\ Surroundings
    /\ UNCHANGED <<faulting, epoch, flow, cancelled, sessions, pollVars>>

Unlock ==
    /\ coordinator = "free" /\ phase = "locked" /\ ~faulting
    /\ phase' = "running" /\ registry' = TRUE
    /\ Surroundings
    /\ UNCHANGED <<coordinator, faulting, epoch, flow, cancelled, sessions, cap, pollVars>>

FaultCloses ==
    /\ faulting
    /\ phase' = IF phase = "stopped" THEN "stopped" ELSE "faulted"
    /\ registry' = FALSE
    /\ faulting' = FALSE
    /\ coordinator' = IF coordinator = "drain" THEN "free" ELSE coordinator
    /\ Clear
    /\ cap' = Revoked(Admin)
    /\ Surroundings
    /\ UNCHANGED pollVars

\* The stop drops the poll wherever it is.
Stop ==
    /\ coordinator = "free" /\ phase # "stopped"
    /\ phase' = "stopped" /\ registry' = FALSE
    /\ Clear
    /\ cap' = Revoked(Admin)
    /\ poll' = "idle" /\ left' = {} /\ affected' = {}
    /\ job' = [p \in Admin |-> "none"]
    /\ Surroundings
    /\ UNCHANGED <<coordinator, faulting, asked>>

Leaves(p) ==
    /\ member[p]
    /\ member' = [member EXCEPT ![p] = FALSE]
    /\ UNCHANGED <<gateVars, epoch, gen, flowVars, cancelled, taskVars, sessions, mintVars, cap,
                   pollVars, leaving, logged, unlogged, won>>

\* A deadline matters while the login is under way, an expiry while its tokens
\* are used.
FlowLate(f) ==
    /\ flow[f] # "none" /\ pc[f] \notin {"failed", "done"} /\ ~late[f]
    /\ late' = [late EXCEPT ![f] = TRUE]
    /\ UNCHANGED <<gateVars, member, epoch, gen, flow, sent, seenEpoch, seenGen, cancelled,
                   taskVars, sessions, mintVars, cap, pollVars, leaving, logged, unlogged, won>>

Ages(f) ==
    /\ f \in Installed \/ pc[f] \in {"proof", "proved", "success", "install"}
    /\ ~aged[f]
    /\ aged' = [aged EXCEPT ![f] = TRUE]
    /\ UNCHANGED <<gateVars, member, epoch, gen, flowVars, cancelled, pc, who, sessions, mintVars,
                   cap, pollVars, leaving, logged, unlogged, won>>

Login(f) ==
    \/ BeginEnter(f) \/ BeginInsert(f) \/ Cancel(f)
    \/ \E r \in {"code", "error"} : Callback(f, r)
    \/ Finish(f) \/ Wake(f) \/ (\E p \in Admin : Exchange(f, p)) \/ ExchangeFails(f)
    \/ \E ok \in BOOLEAN : Proof(f, ok)
    \/ ProofRefused(f) \/ ClosingLogged(f) \/ Proved(f) \/ SuccessLogged(f) \/ Install(f)
    \/ FailureLogged(f)

Managed(m) ==
    \/ \E f \in Flow : Snapshot(m, f)
    \/ \E ok \in BOOLEAN : AdmissionProof(m, ok)
    \/ Admit(m) \/ AdmitLogged(m) \/ Insert(m) \/ RowCommitted(m) \/ Publish(m)

Polling ==
    \/ PollStarts \/ PollEnds
    \/ \E p \in Admin : JobStarts(p) \/ JobEnds(p) \/ JobLogged(p) \/ BatchLogged(p)
    \/ \E p \in Admin, ok \in BOOLEAN : JobProof(p, ok)

Failures ==
    \/ \E f \in Flow : TaskFaults(f)
    \/ \E m \in Mint : MintFaults(m)
    \/ LogoutFaults \/ PollFaults \/ Stop

Next ==
    \/ \E f \in Flow : Login(f) \/ Logout(f) \/ FlowLate(f) \/ Ages(f)
    \/ \E m \in Mint : Managed(m)
    \/ LogoutLogged \/ Polling \/ PollTimesOut
    \/ DrainClears \/ DrainCloses \/ Unlock \/ FaultCloses
    \/ CanFail /\ Failures
    \/ \E p \in Admin : Leaves(p)

Spec == Init /\ [][Next]_vars

(***************************************************************************)
(* The poll task and the requests run; every proof has its 3 seconds and   *)
(* every flow its 120.                                                     *)
(***************************************************************************)

(***************************************************************************)
(* Properties.                                                             *)
(***************************************************************************)
\* The types, with the limits of the manager, whichever side of the exchange its
\* logins are on.  (301-304, 679)
TypeOK ==
    /\ Cardinality({f \in Flow : flow[f] \in {"open", "exchanging"}}) <= MaxFlows
    /\ Len(sessions) <= MaxSessions
    /\ phase \in Phases /\ registry \in BOOLEAN /\ faulting \in BOOLEAN
    /\ coordinator \in Flow \cup {"free", "drain"}
    /\ member \in [Admin -> BOOLEAN] /\ epoch \in Nat /\ gen \in [Admin -> Nat]
    /\ flow \in [Flow -> {"none", "open", "exchanging", "gone"}]
    /\ sent \in [Flow -> {"empty", "code", "error"}]
    /\ late \in [Flow -> BOOLEAN] /\ cancelled \in [Flow -> BOOLEAN]
    /\ seenEpoch \in [Flow -> Nat] /\ seenGen \in [Flow -> [Admin -> Nat]]
    /\ pc \in [Flow -> Tasks] /\ who \in [Flow -> Admin \cup {Nobody}]
    /\ aged \in [Flow -> BOOLEAN] /\ sessions \in Seq(Flow)
    /\ mint \in [Mint -> MintTasks] /\ by \in [Mint -> Flow \cup {Nobody}]
    /\ cap \in [Mint -> {"none", "hidden", "live", "revoked"}]
    /\ poll \in {"idle", "batch", "closing"} /\ affected \subseteq Admin
    /\ job \in [Admin -> JobStates] /\ asked \in [Admin -> Flow \cup {Nobody}]
    /\ left \subseteq Admin /\ leaving \in Admin \cup {Nobody}
    /\ logged \subseteq Flow /\ unlogged \subseteq Admin /\ won \subseteq Flow

\* A login that was under way when its administrator was closed, or when the
\* manager was cleared, opens no session afterwards: every session was begun
\* after the last closing.  (publish_login's checks, 638-714)
NothingResurrected ==
    \A f \in Installed : seenEpoch[f] = epoch /\ seenGen[f][who[f]] = gen[who[f]]

\* A capability that was told lives only under the session that admitted it,
\* except while a drain or a fault is between its two steps.  (publish, 837-855)
CapabilitiesHaveSessions ==
    \A m \in Mint :
        cap[m] = "live" => by[m] \in Installed \/ coordinator = "drain" \/ faulting

\* A cancellation that succeeded leaves no session of that login behind.
\* (cancel, 362-372, and the removal of the exchange at 697-699)
CancelWins == \A f \in won : f \notin Installed

\* The row of the login is on disk before its session is installed.  (651-658)
LoggedFirst == Installed \subseteq logged

\* A gate that is closed has no management identity and no capability behind it.
\* (clear, 285-297, in run_drain_lock, request_fault and the stop)
ClosedGateIsEmpty ==
    phase # "running" => sessions = <<>> /\ \A m \in Mint : cap[m] # "live"

\* An administrator who was closed has a row that says so, or somebody is
\* writing it, or its loss has faulted the broker.  A poll that drops its tasks
\* writes the rows of the whole batch.  (close_incomplete_batch, 1010-1049)
ClosingsAreRecorded ==
    \A p \in unlogged :
        \/ \E f \in Flow : pc[f] = "closing" /\ who[f] = p
        \/ \E m \in Mint : mint[m] = "closing" /\ who[by[m]] = p
        \/ job[p] = "closing" \/ p \in left \/ leaving = p
        \/ faulting \/ phase \in {"faulted", "stopped"}

=============================================================================
