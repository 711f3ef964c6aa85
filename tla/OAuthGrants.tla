------------------------------ MODULE OAuthGrants ------------------------------
(***************************************************************************)
(* The OAuth manager (crates/rekey-broker/src/oauth.rs): access tokens are *)
(* cached in memory and dropped by a lock, refresh tokens are rotated in   *)
(* the vault under an expected version, and browser logins run as tasks    *)
(* beside the executions.                                                  *)
(*                                                                         *)
(* A lock clears the manager in three steps (epoch, cache, flows) while    *)
(* refreshes and logins are between any two of theirs; the provider takes  *)
(* a refresh token once and its answer may be lost.                        *)
(***************************************************************************)
EXTENDS Integers, FiniteSets

CONSTANTS Exes,        \* executions that ask for a bearer
          Logins,      \* administrators' logins
          Bindings,    \* OAuth bindings a signed policy may name
          MaxFlows,    \* logins at a time (4)
          MaxToken,    \* bound: refresh tokens the provider issues
          MaxEpoch,    \* bound: times the manager is cleared
          Persists,    \* whether access tokens are stored with the grant (Notion)
          CanFault     \* whether the broker may fault

OAuthAssumption ==
    /\ MaxFlows \in Nat \ {0} /\ MaxToken \in Nat \ {0} /\ MaxEpoch \in Nat
    /\ Persists \in BOOLEAN /\ CanFault \in BOOLEAN

VARIABLES grant,   \* the stored grant: version, refresh token (or 0), scopes, access token
          valid,   \* refresh tokens the provider still takes
          issued,  \* refresh tokens the provider has issued
          cache,   \* Manager::cache
          epoch,   \* Manager::epoch
          clears,  \* calls of Manager::clear that are under way
          mutex,   \* Manager::refresh, its owner
          coord,   \* the lifecycle coordinator, its owner
          phase,   \* the broker's phase
          policy,  \* the binding of the active policy
          exe, flow,
          lost     \* an exchange took a refresh token whose successor was not stored,
                   \* or the provider withdrew it

vars == <<grant, valid, issued, cache, epoch, clears, mutex, coord, phase, policy, exe, flow, lost>>

Nobody == "nobody"
NoRefresh == 0  \* a grant that was imported, or answered, without a refresh token
NoToken == [ver |-> 0, bind |-> "none", ep |-> 0]
Empty == [ver |-> 0, token |-> NoToken, bind |-> "none", fresh |-> FALSE]
NewExe == [pc |-> "new", ep |-> 0, ver |-> 0, rt |-> 0, at |-> FALSE, bind |-> "none", next |-> 0,
           res |-> "none", got |-> NoToken]
NewFlow == [pc |-> "new", ep |-> 0, ver |-> 0, rt |-> 0, bind |-> "none", next |-> 0, aborted |-> FALSE]

Init ==
    /\ \E b \in Bindings, rt \in {NoRefresh, 1} :
          /\ grant = [ver |-> 1, rt |-> rt, bind |-> b, at |-> FALSE]
          /\ policy = b
    /\ valid = {1} /\ issued = 1 /\ cache = Empty /\ epoch = 0
    /\ clears = [t \in {"lock", "fault"} |-> "off"]
    /\ mutex = Nobody /\ coord = Nobody /\ phase = "running"
    /\ exe = [x \in Exes |-> NewExe] /\ flow = [l \in Logins |-> NewFlow]
    /\ lost = FALSE

Up == phase \in {"running", "draining", "faulted"}  \* the Authority is unlocked

-----------------------------------------------------------------------------
(* The provider. *)

\* A refresh token is taken once, a code at once; each gives a new pair.  Some
\* providers answer without a refresh token, and go on taking the old one.
Takes(rt) == rt \in valid
Issues(old) ==
    /\ issued < MaxToken /\ issued' = issued + 1
    /\ valid' = (valid \ {old}) \cup {issued + 1}

\* The account's owner withdraws what was granted.
Withdraw ==
    /\ ~lost /\ grant.rt \in valid
    /\ valid' = {} /\ lost' = TRUE
    /\ UNCHANGED <<grant, issued, cache, epoch, clears, mutex, coord, phase, policy, exe, flow>>

-----------------------------------------------------------------------------
(* rotate_oauth_grant: the Authority stores a grant under an expected version. *)

Expected(ver) == Up /\ grant.ver = ver
Rotate(rt, b) ==
    grant' = [ver |-> grant.ver + 1, rt |-> rt, bind |-> b, at |-> Persists]

-----------------------------------------------------------------------------
(* bearer. *)

Exe(x, r) == exe' = [exe EXCEPT ![x] = r]
Leave(x, res) ==
    /\ Exe(x, [exe[x] EXCEPT !.pc = "end", !.res = res])
    /\ mutex' = IF mutex = x THEN Nobody ELSE mutex

\* An execution of the Connection is admitted under the active policy.
Ask(x) ==
    /\ exe[x].pc = "new" /\ phase = "running"
    /\ Exe(x, [exe[x] EXCEPT !.pc = "queue", !.bind = policy])
    /\ UNCHANGED <<grant, valid, issued, cache, epoch, clears, mutex, coord, phase, policy, flow, lost>>

\* The refresh mutex, and the epoch the rest is compared with.
TakeRefresh(x) ==
    /\ exe[x].pc = "queue" /\ mutex = Nobody
    /\ mutex' = x /\ Exe(x, [exe[x] EXCEPT !.pc = "locked", !.ep = epoch])
    /\ UNCHANGED <<grant, valid, issued, cache, epoch, clears, coord, phase, policy, flow, lost>>

\* prepare_oauth_grant, and the stored scopes compared with the policy's.
Prepare(x) ==
    /\ exe[x].pc = "locked"
    /\ IF Up /\ grant.bind = exe[x].bind
       THEN /\ Exe(x, [exe[x] EXCEPT !.pc = "prepared", !.ver = grant.ver, !.rt = grant.rt,
                                     !.at = grant.at, !.got.bind = grant.bind])
            /\ UNCHANGED mutex
       ELSE Leave(x, "refused")
    /\ UNCHANGED <<grant, valid, issued, cache, epoch, clears, coord, phase, policy, flow, lost>>

\* A cached token of the version that was just read.
Hit(x) == cache.ver = exe[x].ver /\ cache.bind = exe[x].bind /\ cache.fresh

ServeCached(x) ==
    /\ exe[x].pc = "prepared" /\ Hit(x)
    /\ Exe(x, [exe[x] EXCEPT !.pc = "end", !.res = "served", !.got = cache.token])
    /\ mutex' = IF mutex = x THEN Nobody ELSE mutex
    /\ UNCHANGED <<grant, valid, issued, cache, epoch, clears, coord, phase, policy, flow, lost>>

\* A stored access token, of the grant that was just read.
ServeStored(x) ==
    /\ exe[x].pc = "prepared" /\ ~Hit(x) /\ exe[x].at
    /\ Exe(x, [exe[x] EXCEPT !.pc = "end", !.res = "served",
                             !.got = [ver |-> exe[x].ver, bind |-> exe[x].got.bind, ep |-> exe[x].ep]])
    /\ mutex' = IF mutex = x THEN Nobody ELSE mutex
    /\ UNCHANGED <<grant, valid, issued, cache, epoch, clears, coord, phase, policy, flow, lost>>

\* Nothing to refresh with.
NothingToRefresh(x) ==
    /\ exe[x].pc = "prepared" /\ ~Hit(x) /\ ~exe[x].at /\ exe[x].rt = NoRefresh
    /\ Leave(x, "reauth")
    /\ UNCHANGED <<grant, valid, issued, cache, epoch, clears, coord, phase, policy, flow, lost>>

\* try_begin_remote_effect: the gate is closed as soon as a drain begins.
Gate(x) ==
    /\ exe[x].pc = "prepared" /\ ~Hit(x) /\ ~exe[x].at /\ exe[x].rt # NoRefresh
    /\ IF phase = "running" THEN Exe(x, [exe[x] EXCEPT !.pc = "sending"]) /\ UNCHANGED mutex
                            ELSE Leave(x, "blocked")
    /\ UNCHANGED <<grant, valid, issued, cache, epoch, clears, coord, phase, policy, flow, lost>>

\* exchange with an answer: a new pair, an access token alone (the grant keeps
\* its refresh token), or the provider's refusal.
ExchangeOk(x) ==
    /\ exe[x].pc = "sending" /\ Takes(exe[x].rt)
    /\ \/ Issues(exe[x].rt) /\ Exe(x, [exe[x] EXCEPT !.pc = "answered", !.next = issued + 1])
       \/ /\ Exe(x, [exe[x] EXCEPT !.pc = "answered", !.next = exe[x].rt])
          /\ UNCHANGED <<valid, issued>>
    /\ UNCHANGED <<grant, cache, epoch, clears, mutex, coord, phase, policy, flow, lost>>

NeedsReauth(x) ==
    /\ exe[x].pc = "sending" /\ ~Takes(exe[x].rt)
    /\ Leave(x, "reauth")
    /\ UNCHANGED <<grant, valid, issued, cache, epoch, clears, coord, phase, policy, flow, lost>>

\* An answer whose refresh token is empty leaves the grant without one.
AnswerEmpty(x) ==
    /\ exe[x].pc = "sending" /\ Takes(exe[x].rt) /\ ~Persists
    /\ valid' = valid \ {exe[x].rt} /\ lost' = TRUE
    /\ Leave(x, "reauth")
    /\ UNCHANGED <<grant, issued, cache, epoch, clears, coord, phase, policy, flow>>

\* A transport failure, an unusable answer or the deadline: the provider may
\* have taken the token.
ExchangeLost(x) ==
    /\ exe[x].pc = "sending"
    /\ \/ Takes(exe[x].rt) /\ Issues(exe[x].rt) /\ lost' = TRUE
       \/ UNCHANGED <<valid, issued, lost>>
    /\ Leave(x, "indeterminate")
    /\ UNCHANGED <<grant, cache, epoch, clears, coord, phase, policy, flow>>

\* The epoch is compared before the rotation.
CompareBefore(x) ==
    /\ exe[x].pc = "answered"
    /\ IF epoch = exe[x].ep
       THEN Exe(x, [exe[x] EXCEPT !.pc = "rotate"]) /\ UNCHANGED <<mutex, lost>>
       ELSE Leave(x, "locked") /\ lost' = TRUE
    /\ UNCHANGED <<grant, valid, issued, cache, epoch, clears, coord, phase, policy, flow>>

RotateOk(x) ==
    /\ exe[x].pc = "rotate" /\ Expected(exe[x].ver)
    /\ Rotate(exe[x].next, exe[x].bind)
    /\ Exe(x, [exe[x] EXCEPT !.pc = "rotated", !.ver = grant.ver + 1])
    /\ UNCHANGED <<valid, issued, cache, epoch, clears, mutex, coord, phase, policy, flow, lost>>

\* Another version, a locked vault, a deadline, or a lost answer.
RotateFailed(x) ==
    /\ exe[x].pc = "rotate"
    /\ \/ Expected(exe[x].ver) /\ Rotate(exe[x].next, exe[x].bind) /\ UNCHANGED lost
       \/ UNCHANGED grant /\ lost' = TRUE
    /\ Leave(x, "indeterminate")
    /\ UNCHANGED <<valid, issued, cache, epoch, clears, coord, phase, policy, flow>>

CompareAfter(x) ==
    /\ exe[x].pc = "rotated"
    /\ IF epoch = exe[x].ep
       THEN Exe(x, [exe[x] EXCEPT !.pc = "insert"]) /\ UNCHANGED mutex
       ELSE Leave(x, "locked")
    /\ UNCHANGED <<grant, valid, issued, cache, epoch, clears, coord, phase, policy, flow, lost>>

Entry(ver, b, e) ==
    [ver |-> ver, token |-> [ver |-> ver, bind |-> b, ep |-> e], bind |-> b, fresh |-> TRUE]

\* With the cache's lock held: compare once more, insert, return.
Insert(x) ==
    /\ exe[x].pc = "insert"
    /\ IF epoch = exe[x].ep
       THEN LET e == Entry(exe[x].ver, exe[x].bind, exe[x].ep)
            IN /\ cache' = e
               /\ Exe(x, [exe[x] EXCEPT !.pc = "end", !.res = "served", !.got = e.token])
               /\ mutex' = IF mutex = x THEN Nobody ELSE mutex
       ELSE Leave(x, "locked") /\ UNCHANGED cache
    /\ UNCHANGED <<grant, valid, issued, epoch, clears, coord, phase, policy, flow, lost>>

\* The execution is cancelled or its deadline passes while it waits.
Abandon(x) ==
    /\ exe[x].pc \in {"queue", "locked", "prepared"}
    /\ Leave(x, "cancelled")
    /\ UNCHANGED <<grant, valid, issued, cache, epoch, clears, coord, phase, policy, flow, lost>>

-----------------------------------------------------------------------------
(* begin and its task. *)

Flow(l, r) == flow' = [flow EXCEPT ![l] = r]
Alive(l) == flow[l].pc \in {"code", "redeem", "store", "storing", "flowInsert"}
Listed(l) == Alive(l) /\ ~flow[l].aborted

\* Finished flows are dropped, the others counted.
FlowSlot == Cardinality({l \in Logins : Listed(l)}) < MaxFlows

\* OAUTH_LOGIN holds the coordinator until begin returns.
BeginLogin(l) ==
    /\ flow[l].pc = "new" /\ coord = Nobody /\ phase = "running" /\ FlowSlot
    /\ coord' = l
    /\ Flow(l, [flow[l] EXCEPT !.pc = "reading", !.bind = policy])
    /\ UNCHANGED <<grant, valid, issued, cache, epoch, clears, mutex, phase, policy, exe, lost>>

ReadGrant(l) ==
    /\ flow[l].pc = "reading"
    /\ \/ /\ Up /\ Flow(l, [flow[l] EXCEPT !.pc = "spawn", !.ver = grant.ver, !.rt = grant.rt,
                                            !.ep = epoch])
          /\ UNCHANGED coord
       \/ coord' = Nobody /\ Flow(l, [flow[l] EXCEPT !.pc = "end"])
    /\ UNCHANGED <<grant, valid, issued, cache, epoch, clears, mutex, phase, policy, exe, lost>>

\* The task is listed unless a clear came since the epoch was read.
Spawn(l) ==
    /\ flow[l].pc = "spawn"
    /\ Flow(l, [flow[l] EXCEPT !.pc = IF epoch = flow[l].ep THEN "code" ELSE "end"])
    /\ coord' = Nobody
    /\ UNCHANGED <<grant, valid, issued, cache, epoch, clears, mutex, phase, policy, exe, lost>>

\* callback_code: a request with this login's state and a code.
Callback(l) ==
    /\ flow[l].pc = "code"
    /\ Flow(l, [flow[l] EXCEPT !.pc = "redeem"])
    /\ UNCHANGED <<grant, valid, issued, cache, epoch, clears, mutex, coord, phase, policy, exe, lost>>

\* With a refresh token or without: then that of the grant is kept, which only
\* Notion's may lack.
RedeemCode(l) ==
    /\ flow[l].pc = "redeem"
    /\ \/ Issues(NoRefresh) /\ Flow(l, [flow[l] EXCEPT !.pc = "store", !.next = issued + 1])
       \/ /\ flow[l].rt # NoRefresh \/ Persists
          /\ Flow(l, [flow[l] EXCEPT !.pc = "store", !.next = flow[l].rt])
          /\ UNCHANGED <<valid, issued>>
    /\ UNCHANGED <<grant, cache, epoch, clears, mutex, coord, phase, policy, exe, lost>>

\* A cancelled or expired authorization, a failed exchange, an abort at an
\* await: the task ends, and gives the coordinator back if it has it.
FlowFails(l) ==
    /\ Alive(l) /\ flow[l].pc # "flowInsert"
    /\ Flow(l, [flow[l] EXCEPT !.pc = "end"])
    /\ coord' = IF coord = l THEN Nobody ELSE coord
    /\ UNCHANGED <<grant, valid, issued, cache, epoch, clears, mutex, phase, policy, exe, lost>>

\* Under the coordinator: running, the epoch of the login, and its Connection
\* still in the active policy.
MayStore(l) == phase = "running" /\ epoch = flow[l].ep /\ policy = flow[l].bind

CoordinateLogin(l) ==
    /\ flow[l].pc = "store" /\ coord = Nobody
    /\ IF MayStore(l)
       THEN coord' = l /\ Flow(l, [flow[l] EXCEPT !.pc = "storing"])
       ELSE Flow(l, [flow[l] EXCEPT !.pc = "end"]) /\ UNCHANGED coord
    /\ UNCHANGED <<grant, valid, issued, cache, epoch, clears, mutex, phase, policy, exe, lost>>

StoreLogin(l) ==
    /\ flow[l].pc = "storing" /\ Expected(flow[l].ver)
    /\ Rotate(flow[l].next, flow[l].bind)
    /\ Flow(l, [flow[l] EXCEPT !.pc = "flowInsert", !.ver = grant.ver + 1])
    /\ UNCHANGED <<valid, issued, cache, epoch, clears, mutex, coord, phase, policy, exe, lost>>

InsertLogin(l) ==
    /\ flow[l].pc = "flowInsert"
    /\ cache' = IF epoch = flow[l].ep THEN Entry(flow[l].ver, flow[l].bind, flow[l].ep) ELSE cache
    /\ Flow(l, [flow[l] EXCEPT !.pc = "end"]) /\ coord' = Nobody
    /\ UNCHANGED <<grant, valid, issued, epoch, clears, mutex, phase, policy, exe, lost>>

-----------------------------------------------------------------------------
(* Manager::clear, by a drain under the coordinator and by a fault without. *)

ClearEpoch(t) ==
    /\ epoch' = epoch + 1 /\ clears' = [clears EXCEPT ![t] = "cache"]

ClearCache(t) ==
    /\ clears[t] = "cache" /\ cache' = Empty
    /\ clears' = [clears EXCEPT ![t] = "flows"]
    /\ UNCHANGED <<grant, valid, issued, epoch, mutex, coord, phase, policy, exe, flow, lost>>

ClearFlows(t) ==
    /\ clears[t] = "flows" /\ clears' = [clears EXCEPT ![t] = "off"]
    /\ flow' = [l \in Logins |-> [flow[l] EXCEPT !.aborted = @ \/ Alive(l)]]
    /\ UNCHANGED <<grant, valid, issued, cache, epoch, mutex, coord, phase, policy, exe, lost>>

DrainBegins ==
    /\ phase = "running" /\ coord = Nobody /\ epoch < MaxEpoch
    /\ phase' = "draining" /\ coord' = "lock" /\ ClearEpoch("lock")
    /\ UNCHANGED <<grant, valid, issued, cache, mutex, policy, exe, flow, lost>>

\* The executions are gone; login tasks are not waited for.
Drained == \A x \in Exes : exe[x].pc \in {"new", "end"}
Lock ==
    /\ phase = "draining" /\ clears["lock"] = "off" /\ Drained
    /\ phase' = "locked" /\ coord' = Nobody
    /\ UNCHANGED <<grant, valid, issued, cache, epoch, clears, mutex, policy, exe, flow, lost>>

Unlock ==
    /\ phase = "locked" /\ coord = Nobody
    /\ phase' = "running"
    /\ UNCHANGED <<grant, valid, issued, cache, epoch, clears, mutex, coord, policy, exe, flow, lost>>

Fault ==
    /\ CanFault /\ phase \in {"running", "draining"} /\ clears["fault"] = "off" /\ epoch < MaxEpoch
    /\ phase' = "faulted" /\ ClearEpoch("fault")
    /\ UNCHANGED <<grant, valid, issued, cache, mutex, coord, policy, exe, flow, lost>>

-----------------------------------------------------------------------------
(* What else changes. *)

\* activate_policy_until publishes a policy with another binding.
ActivatePolicy(b) ==
    /\ phase = "running" /\ coord = Nobody /\ b # policy
    /\ policy' = b
    /\ UNCHANGED <<grant, valid, issued, cache, epoch, clears, mutex, coord, phase, exe, flow, lost>>

\* CREDENTIAL_ROTATE of an OAuth grant: the administrator brings a token of his own.
GrantUpdate ==
    /\ phase = "running" /\ coord = Nobody /\ issued < MaxToken
    /\ issued' = issued + 1 /\ valid' = valid \cup {issued + 1}
    /\ grant' = [grant EXCEPT !.ver = @ + 1, !.rt = issued + 1, !.at = FALSE]
    /\ UNCHANGED <<cache, epoch, clears, mutex, coord, phase, policy, exe, flow, lost>>

TokenExpires ==
    /\ cache.fresh \/ grant.at
    /\ cache' = [cache EXCEPT !.fresh = FALSE] /\ grant' = [grant EXCEPT !.at = FALSE]
    /\ UNCHANGED <<valid, issued, epoch, clears, mutex, coord, phase, policy, exe, flow, lost>>

Bearer(x) ==
    \/ Ask(x) \/ TakeRefresh(x) \/ Prepare(x) \/ ServeCached(x) \/ ServeStored(x)
    \/ NothingToRefresh(x) \/ Gate(x) \/ ExchangeOk(x) \/ NeedsReauth(x) \/ AnswerEmpty(x) \/ ExchangeLost(x)
    \/ CompareBefore(x) \/ RotateOk(x) \/ RotateFailed(x) \/ CompareAfter(x)
    \/ Insert(x) \/ Abandon(x)

Login(l) ==
    \/ BeginLogin(l) \/ ReadGrant(l) \/ Spawn(l) \/ Callback(l) \/ RedeemCode(l)
    \/ FlowFails(l) \/ CoordinateLogin(l) \/ StoreLogin(l) \/ InsertLogin(l)

Next ==
    \/ \E x \in Exes : Bearer(x)
    \/ \E l \in Logins : Login(l)
    \/ \E t \in {"lock", "fault"} : ClearCache(t) \/ ClearFlows(t)
    \/ DrainBegins \/ Lock \/ Unlock \/ Fault
    \/ \E b \in Bindings : ActivatePolicy(b)
    \/ GrantUpdate \/ TokenExpires \/ Withdraw

Spec == Init /\ [][Next]_vars

-----------------------------------------------------------------------------
(* Properties. *)

TypeOK ==
    /\ grant.rt \in 0 .. issued /\ valid \subseteq 1 .. issued /\ issued <= MaxToken
    /\ epoch \in 0 .. MaxEpoch /\ cache.ver \in 0 .. grant.ver
    /\ phase \in {"running", "draining", "locked", "faulted"}
    /\ mutex \in Exes \cup {Nobody} /\ coord \in Logins \cup {Nobody, "lock"}
    /\ \A t \in DOMAIN clears : clears[t] \in {"off", "cache", "flows"}

\* A token that was asked for before a lock is not in the cache after it: the
\* cache holds nothing of an older epoch, except while a clear is about to
\* empty it (bearer compares the epoch with the cache's lock held).
CacheOfThisEpoch ==
    (cache.ver # 0 /\ \A t \in DOMAIN clears : clears[t] # "cache") => cache.token.ep = epoch

\* The token an execution is given was obtained for the version of the grant
\* and for the binding the execution was prepared with, never for a grant that
\* an administrator has replaced since.
ServedTokenIsOwn ==
    \A x \in Exes : exe[x].res = "served" =>
        exe[x].got.ver = exe[x].ver /\ exe[x].got.bind = exe[x].bind

\* As long as the outcome of every exchange was or is about to be stored and the
\* provider withdraws nothing, a stored refresh token is one that it takes: concurrent executions and logins do
\* not use up each other's tokens (Manager::refresh, the expected version).
StoredTokenIsValid ==
    \/ lost \/ grant.rt \in valid \cup {NoRefresh}
    \/ \E x \in Exes : exe[x].pc \in {"answered", "rotate"} /\ exe[x].rt = grant.rt

\* An execution is told to authorize again only when there is no other way: the
\* grant it read has no refresh token, or its token was withdrawn or used up by
\* an exchange whose outcome was lost; never because another execution or a
\* login had refreshed meanwhile.
ReauthOnlyAfterLoss == \A x \in Exes : exe[x].res = "reauth" => lost \/ exe[x].rt = NoRefresh

\* At most MaxFlows logins listen for a browser at a time.
FlowsBounded == Cardinality({l \in Logins : Listed(l)}) <= MaxFlows

=============================================================================
