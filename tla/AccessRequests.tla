--------------------------- MODULE AccessRequests ---------------------------
(***************************************************************************)
(* The access-request half of rekey-broker/src/runtime/local_calls.rs      *)
(* (create_access, resolve_access, block_caller) with the handlers that    *)
(* call it: REQUEST_ACCESS (ipc/agent.rs) and access_admin (ipc/admin.rs). *)
(* create_access takes three locks one after the other (blocked callers,   *)
(* rates, requests), so it is three steps.                                 *)
(***************************************************************************)
EXTENDS Naturals, FiniteSets

CONSTANTS
    Request,     \* access requests (RequestId), one REQUEST_ACCESS call each
    Caller,      \* caller labels
    CallerOf,    \* Request -> Caller
    MaxAccess,   \* requests a caller may make per window (3 in the code)
    MaxEntries,  \* APPROVAL_PENDING_MAX
    MaxMinutes   \* bound: rate windows opened per caller

AccessAssumption ==
    /\ CallerOf \in [Request -> Caller]
    /\ MaxAccess \in Nat \ {0} /\ MaxEntries \in Nat \ {0} /\ MaxMinutes \in Nat

VARIABLES
    status,    \* LocalCalls.access, with the ids not or no longer in it
    lapsed,    \* requests whose ten minutes are over
    blocked,   \* LocalCalls.blocked
    rate,      \* LocalCalls.rates of "access:<caller>"
    pc,        \* where each REQUEST_ACCESS call is
    minute,    \* the rate window that counted the call
    answer,    \* what the call was answered
    admin,     \* the administrator's resolution in progress
    journal    \* access_request.resolved events per request

vars == <<status, lapsed, blocked, rate, pc, minute, answer, admin, journal>>

AccessRequestStatus == {"Pending", "Granted", "Rejected", "Expired"}
NoAdmin == [step |-> "none"]

\* Every variable stays in its type: in particular a caller's count never exceeds
\* the three requests per minute that create_access allows (take_rate).
TypeOK ==
    /\ status \in [Request -> {"absent", "removed"} \cup AccessRequestStatus]
    /\ lapsed \subseteq Request
    /\ blocked \subseteq Caller
    /\ rate \in [Caller -> [start : 0..MaxMinutes, count : 0..MaxAccess, elapsed : BOOLEAN]]
    /\ pc \in [Request -> {"new", "checked", "counted", "answered"}]
    /\ minute \in [Request -> 0..MaxMinutes]
    /\ answer \in [Request -> {"none", "created", "DENIED", "BUDGET_EXCEEDED", "RATE_LIMITED",
                            "AUTHORITY_BUSY"}]
    /\ admin \in {NoAdmin} \cup [step : {"resolve"}, id : Request, status : {"Granted", "Rejected"},
                                 block : BOOLEAN]
    /\ journal \in [Request -> SUBSET {"Granted", "Rejected"}]

Init ==
    /\ status = [r \in Request |-> "absent"]
    /\ lapsed = {} /\ blocked = {}
    /\ rate = [c \in Caller |-> [start |-> 0, count |-> 0, elapsed |-> FALSE]]
    /\ pc = [r \in Request |-> "new"]
    /\ minute = [r \in Request |-> 0]
    /\ answer = [r \in Request |-> "none"]
    /\ admin = NoAdmin
    /\ journal = [r \in Request |-> {}]

-----------------------------------------------------------------------------
Answered(r, code) ==
    /\ pc' = [pc EXCEPT ![r] = "answered"]
    /\ answer' = [answer EXCEPT ![r] = code]

\* AccessRequest::refresh
Refreshed(r) == IF r \in lapsed /\ status[r] = "Pending" THEN "Expired" ELSE status[r]

Entries == {r \in Request : status[r] \in AccessRequestStatus}

\* create_access: the block list
CheckBlocked(r) ==
    /\ pc[r] = "new"
    /\ \/ /\ CallerOf[r] \in blocked
          /\ Answered(r, "DENIED")
       \/ /\ CallerOf[r] \notin blocked
          /\ pc' = [pc EXCEPT ![r] = "checked"]
          /\ UNCHANGED answer
    /\ UNCHANGED <<status, lapsed, blocked, rate, minute, admin, journal>>

\* take_rate for "access:<caller>"
CurrentRate(c) ==
    IF rate[c].elapsed
    THEN [start |-> rate[c].start + 1, count |-> 0, elapsed |-> FALSE]
    ELSE rate[c]

RateLeft(c) == CurrentRate(c).count < MaxAccess

\* The error of take_rate, and create_access's conversion of it
BudgetExceeded == [variant |-> "BudgetExceeded", code |-> "BUDGET_EXCEEDED"]

Converted(error) ==
    IF error.variant = "LocalCall" /\ error.code = "BUDGET_EXCEEDED"
    THEN "RATE_LIMITED"
    ELSE error.code

\* create_access: the rate
CountRate(r) ==
    LET c == CallerOf[r] IN
    /\ pc[r] = "checked"
    /\ \/ /\ ~RateLeft(c)
          /\ rate' = [rate EXCEPT ![c] = CurrentRate(c)]
          /\ Answered(r, Converted(BudgetExceeded))
          /\ UNCHANGED minute
       \/ /\ RateLeft(c)
          /\ rate' = [rate EXCEPT ![c] = [CurrentRate(c) EXCEPT !.count = @ + 1]]
          /\ minute' = [minute EXCEPT ![r] = CurrentRate(c).start]
          /\ pc' = [pc EXCEPT ![r] = "counted"]
          /\ UNCHANGED answer
    /\ UNCHANGED <<status, lapsed, blocked, admin, journal>>

\* create_access: requests past their deadline leave the table; the rest,
\* resolved ones included, count against the limit.
CreateAccess(r) ==
    /\ pc[r] = "counted"
    /\ LET kept == [q \in Request |-> IF q \in Entries \cap lapsed THEN "removed" ELSE status[q]]
       IN  \/ /\ Cardinality(Entries \ lapsed) >= MaxEntries
              /\ status' = kept
              /\ Answered(r, "AUTHORITY_BUSY")
           \/ /\ Cardinality(Entries \ lapsed) < MaxEntries
              /\ status' = [kept EXCEPT ![r] = "Pending"]
              /\ Answered(r, "created")
    /\ UNCHANGED <<lapsed, blocked, rate, minute, admin, journal>>

\* access_admin Resolve, up to and including its audit event: under the
\* coordinator, of a request the table knows, whatever its status.
ResolveAudited(r, granted, block) ==
    /\ admin = NoAdmin
    /\ r \in Entries
    /\ LET outcome == IF granted THEN "Granted" ELSE "Rejected"
       IN  /\ journal' = [journal EXCEPT ![r] = @ \cup {outcome}]
           /\ admin' = [step |-> "resolve", id |-> r, status |-> outcome, block |-> block]
    /\ status' = [status EXCEPT ![r] = Refreshed(r)]
    /\ UNCHANGED <<lapsed, blocked, rate, pc, minute, answer>>

\* The audit append fails: nothing is resolved.
ResolveUnaudited(r) ==
    /\ admin = NoAdmin
    /\ r \in Entries
    /\ status' = [status EXCEPT ![r] = Refreshed(r)]
    /\ UNCHANGED <<lapsed, blocked, rate, pc, minute, answer, admin, journal>>

\* resolve_access, then block_caller only when it succeeded
ResolveAccess ==
    /\ admin # NoAdmin
    /\ LET r == admin.id IN
       \/ /\ Refreshed(r) = "Pending"
          /\ status' = [status EXCEPT ![r] = admin.status]
          /\ blocked' = IF admin.block THEN blocked \cup {CallerOf[r]} ELSE blocked
       \/ /\ Refreshed(r) # "Pending"
          /\ status' = [status EXCEPT ![r] = Refreshed(r)]
          /\ UNCHANGED blocked
    /\ admin' = NoAdmin
    /\ UNCHANGED <<lapsed, rate, pc, minute, answer, journal>>

\* access_admin Block, under the coordinator
BlockCaller(c, block) ==
    /\ admin = NoAdmin
    /\ blocked' = IF block THEN blocked \cup {c} ELSE blocked \ {c}
    /\ UNCHANGED <<status, lapsed, rate, pc, minute, answer, admin, journal>>

\* access_list, access_get, await_access: a look refreshes the entry.
Look(r) ==
    /\ Refreshed(r) # status[r]
    /\ status' = [status EXCEPT ![r] = Refreshed(r)]
    /\ UNCHANGED <<lapsed, blocked, rate, pc, minute, answer, admin, journal>>

Lapse(r) ==
    /\ r \in Entries \ lapsed
    /\ lapsed' = lapsed \cup {r}
    /\ UNCHANGED <<status, blocked, rate, pc, minute, answer, admin, journal>>

MinutePasses(c) ==
    /\ ~rate[c].elapsed /\ rate[c].start < MaxMinutes
    /\ rate' = [rate EXCEPT ![c].elapsed = TRUE]
    /\ UNCHANGED <<status, lapsed, blocked, pc, minute, answer, admin, journal>>

Next ==
    \/ \E r \in Request :
          \/ CheckBlocked(r) \/ CountRate(r) \/ CreateAccess(r)
          \/ ResolveUnaudited(r) \/ Look(r) \/ Lapse(r)
          \/ \E granted, block \in BOOLEAN : ResolveAudited(r, granted, block)
    \/ ResolveAccess
    \/ \E c \in Caller : MinutePasses(c) \/ \E block \in BOOLEAN : BlockCaller(c, block)

Spec == Init /\ [][Next]_vars

-----------------------------------------------------------------------------
(* Properties *)

\* The count of a caller's window in force is exactly the requests it admitted:
\* concurrent create_access calls that interleave between the block list, the
\* rate and the table lose none, and an old window leaves nothing behind.
AccessRateExact ==
    \A c \in Caller :
        rate[c].count =
            Cardinality({r \in Request :
                /\ CallerOf[r] = c /\ minute[r] = rate[c].start
                /\ pc[r] = "counted" \/ answer[r] \in {"created", "AUTHORITY_BUSY"}})

\* What a caller is told of a resolved request is what the journal recorded:
\* the event precedes the change of status (access_admin).
ResolutionJournaled ==
    \A r \in Request : status[r] \in {"Granted", "Rejected"} => status[r] \in journal[r]

\* A request is resolved once: granted, rejected or expired, it keeps that
\* answer until it leaves the table, although it is audited between the
\* administrator's look and resolve_access.
ResolvedOnce ==
    \A r \in Request :
          status[r] \in {"Granted", "Rejected", "Expired"} =>
              status'[r] \in {status[r], "removed"}

=============================================================================
