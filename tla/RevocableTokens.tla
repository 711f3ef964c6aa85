----------------------------- MODULE RevocableTokens -----------------------------
(***************************************************************************)
(* One execution that acquires a short-lived token, uses it for its        *)
(* business request and revokes it before it may succeed: a Vault AppRole  *)
(* login, a Keycloak token exchange, a GitHub App installation token       *)
(* (crates/rekey-broker/src/executor/vault_source.rs, executor/keycloak.rs,*)
(* executor/github_run.rs, github_app.rs).                                 *)
(*                                                                         *)
(* The provider may mint tokens and lose its answer, answer with several   *)
(* tokens, or with a malformed body; audits may fail; a cancellation may   *)
(* come at any step.  time is before the business deadline, between it and *)
(* the deadline of the effect (the cleanup budget), or after both.         *)
(***************************************************************************)
EXTENDS Integers, Sequences, FiniteSets, SequencesExt

CONSTANTS Tokens,   \* what the provider may mint
          Limit,    \* TOKEN_CAPTURE_LIMIT (4)
          Kinds     \* approle, keycloak, list and write (of GitHub)

TokenAssumption ==
    Limit \in Nat \ {0} /\ Kinds \subseteq {"approle", "keycloak", "list", "write"}

VARIABLES time,   \* business, cleanup, over
          gate,   \* open, closed, cancelled
          ex,     \* the execution
          prov,   \* the tokens at the provider
          rows    \* the audit rows of the execution

vars == <<time, gate, ex, prov, rows>>

Github == {"list", "write"}
Bootstrap == "bootstrap"  \* the long-lived secret, echoed
Before(pc) == pc \in {"new", "authorized"}

Init ==
    /\ time = "business" /\ gate = "open" /\ prov = [t \in Tokens |-> "none"] /\ rows = <<>>
    /\ \E k \in Kinds :
          ex = [kind |-> k, pc |-> "new", held |-> <<>>, todo |-> <<>>, tried |-> {},
                res |-> "ok", sends |-> 0, admitted |-> FALSE, refused |-> FALSE,
                clean |-> TRUE, reply |-> "none"]

-----------------------------------------------------------------------------
(* What is read from the provider's answer: the tokens in the order they    *)
(* occur, before its status and form are looked at.                         *)

First(s) == {i \in DOMAIN s : \A j \in 1..i-1 : s[j] # s[i]}
Rank(I, i) == Cardinality({j \in I : j <= i})
InOrder(s, I) == [n \in 1..Cardinality(I) |-> s[CHOOSE i \in I : Rank(I, i) = n]]
UpToLimit(I) == {i \in I : Rank(I, i) <= Limit}
NotBootstrap(s, I) == {i \in I : s[i] # Bootstrap}

\* Every client_token that is not a secret of the profile, once.
LoginProbe(body) == InOrder(body, NotBootstrap(body, First(body)))
\* captured_tokens: at most Limit different ones.
KeycloakTokens(body) == InOrder(body, UpToLimit(First(body)))
\* probe_tokens, and then those that are the bootstrap secret are put aside.
ProbeTokens(body) == InOrder(body, NotBootstrap(body, UpToLimit(First(body))))

Captured(body) ==
    CASE ex.kind = "approle" -> LoginProbe(body)
      [] ex.kind = "keycloak" -> KeycloakTokens(body)
      [] ex.kind \in Github -> ProbeTokens(body)

\* An answer of the right form and scope, with one token: the login's must be
\* the only client_token, the others count every occurrence.
LoginValid(body, form) == form /\ Len(body) = 1 /\ LoginProbe(body) = body
KeycloakValid(body, form) == form /\ Len(body) = 1 /\ body # <<Bootstrap>>
GithubValid(body, form) == form /\ Len(body) = 1 /\ ProbeTokens(body) = body
Valid(body, form) ==
    CASE ex.kind = "approle" -> LoginValid(body, form)
      [] ex.kind = "keycloak" -> KeycloakValid(body, form)
      [] ex.kind \in Github -> GithubValid(body, form)

Bodies == {<<>>, <<Bootstrap>>} \cup {<<t>> : t \in Tokens}
          \cup {<<t, u>> : t, u \in Tokens} \cup {<<Bootstrap, t>> : t \in Tokens}
          \cup {<<t, u, v>> : t, u, v \in Tokens}

-----------------------------------------------------------------------------
To(pc) == ex' = [ex EXCEPT !.pc = pc]
Row(r) == rows' = Append(rows, r)

\* The terminal row and the answer to the caller.  When the row is not
\* acknowledged in time the caller learns that, and may try again only if
\* nothing has been sent.

Ends(row, reply) ==
    /\ \E r \in {reply, IF Before(ex.pc) THEN "retry" ELSE "final"} :
          ex' = [ex EXCEPT !.pc = "done", !.reply = r]
    /\ Row(row) /\ UNCHANGED <<time, gate, prov>>

\* The profile and the request are checked, and the intent is audited
\* (AppRole: login.started, GitHub: authorized).
Authorize ==
    /\ ex.pc = "new"
    /\ \/ \E r \in {"retry", "final"} : Ends("blocked", r)
       \/ /\ (ex.kind = "approle" => time = "business") /\ (ex.kind \in Github => time # "over")
          /\ To("authorized") /\ UNCHANGED <<time, gate, prov>>
          /\ IF ex.kind = "keycloak" THEN UNCHANGED rows ELSE Row("intent")

\* Admission of the remote effect; from here a cancellation waits for the run.
BeginRemote ==
    /\ ex.pc = "authorized"
    /\ \/ gate # "open" /\ Ends("blocked", "final")
       \/ ex.kind = "approle" /\ time # "business" /\ Ends("blocked", "retry")
       \/ ex.kind = "approle" /\ Ends("blocked", "final")
       \/ /\ gate = "open" /\ (ex.kind = "approle" => time = "business")
          /\ To("owned") /\ UNCHANGED <<time, gate, prov, rows>>

\* The token is asked for.  Not sent at all: the deadline has passed, or the
\* transport proves that it refused.
NotSent ==
    /\ ex.pc = "owned"
    /\ CASE ex.kind = "approle" -> \E r \in {"retry", "final"} : Ends("blocked", r)
         [] ex.kind = "keycloak" -> Ends("indeterminate", "final")
         [] ex.kind \in Github -> time # "business" /\ Ends("blocked", "retry")

\* Sent, and the answer lost: what was minted is not known.
Minted(S) == prov' = [t \in Tokens |-> IF t \in S THEN "live" ELSE prov[t]]
AnswerLost(S) ==
    /\ ex.pc = "owned" /\ time = "business"
    /\ Minted(S) /\ Row("indeterminate")
    /\ ex' = [ex EXCEPT !.pc = "done", !.reply = "final"]
    /\ UNCHANGED <<time, gate>>

\* An answer: its tokens are kept first.  An answer that comes after the
\* business deadline is kept by the AppRole login alone.

Answer(body, form) ==
    /\ ex.pc = "owned" /\ (time = "business" \/ ex.kind = "approle")
    /\ Minted(ToSet(body) \ {Bootstrap})
    /\ UNCHANGED <<time, gate>>
    /\ IF Captured(body) = <<>>
       THEN /\ ex' = [ex EXCEPT !.pc = "done", !.reply = "final"] /\ Row("indeterminate")
       ELSE /\ ex' = [ex EXCEPT !.pc = "minted", !.held = Captured(body), !.todo = Captured(body),
                        !.res = IF Valid(body, form) /\ time = "business" THEN "ok" ELSE "unknown"]
            /\ UNCHANGED rows

\* The result is audited (not by GitHub, whose effect is one call).  A failure
\* ends the use, not the revocation.
RecordIssue ==
    /\ ex.pc = "minted"
    /\ UNCHANGED <<time, gate, prov>>
    /\ \/ ex.kind \in Github /\ To("issued") /\ UNCHANGED rows
       \/ ex.kind \notin Github /\ time = "business" /\ To("issued") /\ Row("issued")
       \/ /\ ex.kind \notin Github
          /\ \E r \in {"retry", "final"} :
                ex' = [ex EXCEPT !.pc = "issued",
                          !.res = IF ex.kind = "keycloak" THEN "unknown" ELSE r]
          /\ UNCHANGED rows

\* AppRole only: the secret is read with the token, audited before and after.
Read ==
    /\ ex.pc = "issued" /\ ex.kind = "approle" /\ ex.res = "ok"
    /\ UNCHANGED <<time, gate, prov>>
    /\ \/ /\ gate = "open" /\ time = "business" /\ To("read")
          /\ rows' = rows \o <<"reading", "resolved">>
       \/ \E r \in {"retry", "final", "unknown"}, done \in {<<>>, <<"reading">>} :
             /\ ex' = [ex EXCEPT !.pc = "used", !.res = r] /\ rows' = rows \o done

\* The business request.  Only the AppRole run asks the gate again.
CanSend ==
    /\ time = "business" /\ ex.res = "ok"
    /\ IF ex.kind = "approle" THEN ex.pc = "read" /\ gate = "open" ELSE ex.pc = "issued"

Sent(n, r) ==
    /\ ex' = [ex EXCEPT !.pc = "used", !.res = r, !.sends = n, !.admitted = TRUE]
    /\ UNCHANGED <<time, gate, prov, rows>>

UseSecret ==
    ex.kind = "approle" /\ CanSend /\ \E r \in {"ok", "unknown", "final"} : Sent(1, r)
UseExchanged ==
    ex.kind = "keycloak" /\ CanSend /\ \E r \in {"ok", "unknown"} : Sent(1, r)

\* What GitHub answers must name what was asked for, and nothing else: the
\* repositories of the profile, the issue or the comment that was created.
InScope(answer) == answer = "as asked"
AnswerTo(n) ==
    \E answer \in {"as asked", "other", "none"} : Sent(n, IF InScope(answer) THEN "ok" ELSE "unknown")

\* A list that is answered 403 or 429 with a delay that fits waits for it.
UseResource ==
    /\ ex.kind \in Github /\ CanSend
    /\ \/ AnswerTo(1)
       \/ /\ ex.kind = "list"
          /\ ex' = [ex EXCEPT !.pc = "waiting", !.sends = 1, !.admitted = TRUE]
          /\ UNCHANGED <<time, gate, prov, rows>>

\* The delay is over: the list is sent again, unless the deadline has come or
\* the transport refuses.  Nothing but the time left is looked at again.
ResendResource ==
    /\ ex.pc = "waiting"
    /\ \/ time = "business" /\ AnswerTo(2)
       \/ Sent(1, "unknown")

\* The transport proves that nothing was sent; only the AppRole run takes that
\* for a denial.
UseRefused ==
    /\ CanSend
    /\ ex' = [ex EXCEPT !.pc = "used", !.refused = (ex.kind = "approle"),
                 !.res = IF ex.kind = "approle" THEN "retry" ELSE "unknown"]
    /\ UNCHANGED <<time, gate, prov, rows>>

\* The request is not sent: no valid token, no audit, no time, a closed gate
\* or a header that is not valid.
NotUsed ==
    /\ \/ ex.pc = "issued" /\ ex.res # "ok"
       \/ ex.pc = "issued" /\ ex.kind # "approle" /\ time # "business"
       \/ ex.pc = "read"
    /\ \E r \in {"final", "unknown"} :
          ex' = [ex EXCEPT !.pc = "used", !.res = IF ex.res = "ok" THEN r ELSE ex.res]
    /\ UNCHANGED <<time, gate, prov, rows>>

\* AppRole: the cleanup is announced; that the audit fails is remembered.
BeginCleanup ==
    /\ ex.pc = "used" /\ UNCHANGED <<time, gate, prov>>
    /\ IF ex.kind = "approle"
       THEN \/ To("revoking") /\ Row("cleanup")
            \/ ex' = [ex EXCEPT !.pc = "revoking", !.clean = FALSE] /\ UNCHANGED rows
       ELSE To("revoking") /\ UNCHANGED rows

\* Every token that was kept gets its own attempt; a failure is remembered and
\* the next one is tried.
Attempt(t, gone, confirmed) ==
    /\ prov' = [u \in Tokens |-> IF u = t /\ gone /\ prov[u] = "live" THEN "gone" ELSE prov[u]]
    /\ ex' = [ex EXCEPT !.todo = Tail(@), !.tried = @ \cup {t}, !.clean = @ /\ confirmed]

Revoke ==
    /\ ex.pc = "revoking" /\ ex.todo # <<>>
    /\ \/ time # "over" /\ Attempt(Head(ex.todo), TRUE, TRUE)
       \/ \E gone \in BOOLEAN :
             (gone => time # "over") /\ Attempt(Head(ex.todo), gone, FALSE)
    /\ UNCHANGED <<time, gate, rows>>

\* The audit of the cleanup.
RecordRevoke ==
    /\ ex.pc = "revoking" /\ ex.todo = <<>> /\ UNCHANGED <<time, gate, prov>>
    /\ \/ time # "over" /\ To("closing") /\ Row(IF ex.clean THEN "revoked" ELSE "unrevoked")
       \/ ex' = [ex EXCEPT !.pc = "closing", !.clean = FALSE] /\ UNCHANGED rows

\* The terminal row: finished only when the tokens are known to be revoked.
Unsure == ex.kind # "approle" \/ ex.admitted \/ ex.res = "unknown"
          \/ (ex.res = "retry" /\ ~ex.refused)

CloseUnrevoked ==
    /\ ex.pc = "closing"
    /\ \/ ex.res = "ok" /\ Ends("finished", "ok")
       \/ ex.res # "ok" /\ Ends("indeterminate", "final")

Close ==
    /\ ex.pc = "closing"
    /\ \/ ~ex.clean /\ Ends("indeterminate", "final")
       \/ ex.clean /\ ex.res = "ok" /\ Ends("finished", "ok")
       \/ ex.clean /\ ex.res = "ok" /\ Ends("indeterminate", "final")  \* headers too large
       \/ ex.clean /\ ex.res # "ok" /\ Unsure /\ Ends("indeterminate", "final")
       \/ ex.clean /\ ex.res # "ok" /\ ~Unsure
          /\ Ends("blocked", IF ex.refused THEN "retry" ELSE "final")

-----------------------------------------------------------------------------
\* run_inner: a cancelled execution is dropped, unless it owns a cleanup.
Cancel == gate = "cancelled" /\ Before(ex.pc) /\ Ends("blocked", "final")

CloseGate ==
    /\ \/ gate = "open" /\ gate' = "closed"
       \/ gate = "closed" /\ gate' = "cancelled"
    /\ UNCHANGED <<time, ex, prov, rows>>

Tick ==
    /\ ex.pc # "done"
    /\ \/ time = "business" /\ time' = "cleanup"
       \/ time = "cleanup" /\ time' = "over"
    /\ UNCHANGED <<gate, ex, prov, rows>>

Ended == ex.pc = "done" /\ UNCHANGED vars

Step ==
    \/ Authorize \/ BeginRemote \/ NotSent \/ RecordIssue \/ Read \/ UseSecret \/ UseExchanged
    \/ UseResource \/ ResendResource \/ UseRefused
    \/ NotUsed \/ BeginCleanup \/ Revoke \/ RecordRevoke \/ Close \/ Cancel
    \/ (\E S \in SUBSET Tokens : AnswerLost(S))
    \/ (\E body \in Bodies, form \in BOOLEAN : Answer(body, form))

Next == Step \/ CloseGate \/ Tick \/ Ended

Spec == Init /\ [][Next]_vars

\* The task runs and every call of it returns by its deadline.
FairSpec == Spec /\ WF_vars(Step)

-----------------------------------------------------------------------------
Live == {t \in Tokens : prov[t] = "live"}
Has(r) == \E i \in DOMAIN rows : rows[i] = r
Terminals == {"blocked", "indeterminate", "finished"}

TypeOK ==
    /\ time \in {"business", "cleanup", "over"} /\ gate \in {"open", "closed", "cancelled"}
    /\ prov \in [Tokens -> {"none", "live", "gone"}]
    /\ ex.kind \in Kinds /\ ex.sends \in 0..2 /\ ex.reply \in {"none", "ok", "retry", "final"}
    /\ ex.res \in {"ok", "unknown", "retry", "final"}
    /\ ToSet(ex.held) \subseteq Tokens \cup {Bootstrap} /\ Len(ex.todo) <= Len(ex.held)
    /\ Cardinality({i \in DOMAIN rows : rows[i] \in Terminals}) = (IF ex.pc = "done" THEN 1 ELSE 0)

\* An execution that succeeds leaves no token behind at the provider, and says
\* so in its audit before it finishes.
SuccessMeansRevoked ==
    ex.reply = "ok" \/ Has("finished") => Live = {} /\ Has("revoked")

\* A terminal row other than indeterminate means that no token is left alive,
\* and blocked means as well that the business request was not sent.
TerminalTellsTokens ==
    ex.pc = "done" /\ ~Has("indeterminate") =>
        Live = {} /\ (Has("blocked") => ~ex.admitted)

\* Whatever fails on the way (audits, the read, the business request, a
\* cancellation), every token that was kept has had its own attempt.
EveryTokenTried == ex.pc = "done" => ex.tried = ToSet(ex.held)

\* The caller is invited to try again only if neither a token nor the business
\* request can have taken effect.
NoRetryAfterEffect == ex.reply = "retry" => Live = {} /\ ~ex.admitted

\* A request that writes is sent at most once: the retry of a list that was
\* turned away is no retry of a write.
WritesSentOnce == ex.kind # "list" => ex.sends <= 1

=============================================================================
