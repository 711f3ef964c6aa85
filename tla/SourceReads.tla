------------------------------- MODULE SourceReads -------------------------------
(***************************************************************************)
(* One execution whose credential only refers to a secret kept elsewhere:  *)
(* a Vault KV entry, AWS Secrets Manager, Azure Key Vault, GCP Secret      *)
(* Manager, 1Password Connect (crates/rekey-broker/src/executor/*_source.rs)*)
(* or a macOS keychain item (crates/rekey-vault/src/authority/             *)
(* keychain_source.rs).  The secret is read once, the read is journaled    *)
(* before and after, and only then the business request is built from it.  *)
(*                                                                         *)
(* Deadlines run on the monotonic clock, the validity of the imported      *)
(* token and of the value on the wall clock, which may step.  Terminal     *)
(* rows are shown as submitted: their way to the disk is Broker's.         *)
(***************************************************************************)
EXTENDS Integers, Sequences, FiniteSets

CONSTANTS MaxTime,     \* bound on the monotonic clock
          Deadline,    \* effect_deadline of the execution
          Expiries,    \* wall times at which an imported token may expire
          Lifetime,    \* longest remaining life of an imported token (an hour)
          Steps        \* by how much the wall clock may step, once

SourceAssumption ==
    /\ MaxTime \in Nat /\ Deadline \in 1..MaxTime /\ Lifetime \in Nat \ {0}
    /\ Expiries \subseteq Int /\ Steps \subseteq Int

VARIABLES mono, wall,  \* Instant::now and now_ts
          gate,        \* open, closed (no remote effect any more), cancelled
          ex,          \* the execution
          rows,        \* its audit rows
          asked        \* when the source was asked: its clocks at each request

vars == <<mono, wall, gate, ex, rows, asked>>

Kinds == {"kv", "aws", "azure", "gcp", "op", "keychain"}
ValueLimit == 2

\* What a source may answer, by the fields the parsers look at.
Good == [status |-> 200, reflects |-> "no", ref |-> "pinned", live |-> TRUE, size |-> 1,
         sum |-> "match", fields |-> <<"pinned">>, field |-> "text", from |-> 0, until |-> MaxTime + 9]
Answers ==
    {Good, [Good EXCEPT !.status = 403], [Good EXCEPT !.reflects = "raw"],
     [Good EXCEPT !.reflects = "decoded"], [Good EXCEPT !.ref = "other"],
     [Good EXCEPT !.live = FALSE], [Good EXCEPT !.size = 0],
     [Good EXCEPT !.size = ValueLimit + 1], [Good EXCEPT !.sum = "differs"],
     [Good EXCEPT !.fields = <<"pinned", "pinned">>], [Good EXCEPT !.fields = <<"other">>],
     [Good EXCEPT !.field = "otp"], [Good EXCEPT !.field = "not a header"]}
    \cup {[Good EXCEPT !.until = t] : t \in Expiries}
    \cup {[Good EXCEPT !.from = t] : t \in Expiries}

Init ==
    /\ mono = 0 /\ wall = 0 /\ gate = "open"
    /\ \E k \in Kinds, shape \in BOOLEAN, t \in Expiries :
       \E exact \in IF k = "kv" THEN BOOLEAN ELSE {TRUE} :
          ex = [kind |-> k, pc |-> "new", shape |-> shape, expires |-> t, exact |-> exact,
                until |-> 0, lapse |-> 0, answer |-> Good, used |-> FALSE, stepped |-> FALSE]
    /\ rows = <<"started">> /\ asked = <<>>

-----------------------------------------------------------------------------
(* What the parsers accept. *)

\* An imported token is valid for an hour at most from when it is parsed.
TokenLives(p) == p.expires - wall \in 1..Lifetime

KvProfile(p) == p.shape
AwsProfile(p) == p.shape /\ TokenLives(p)
AzureProfile(p) == p.shape /\ TokenLives(p)
GcpProfile(p) == p.shape /\ TokenLives(p)
OnePasswordProfile(p) == p.shape /\ TokenLives(p)
\* Reference::decode trusts what import has accepted, which has no limit of an hour.
KeychainReference(p) == p.shape

Sized(a) == a.size \in 1..ValueLimit

\* The entry may be named by its version or as the latest one.
KvResolve(a) ==
    /\ a.status = 200 /\ (ex.exact => a.ref = "pinned") /\ a.live
    /\ a.fields = <<"pinned">> /\ Sized(a) /\ a.field # "not a header"
AwsResolve(a) == a.status = 200 /\ a.ref = "pinned" /\ Sized(a)
Eligible(a) == a.from <= wall /\ wall < a.until
AzureResolve(a) == a.status = 200 /\ a.ref = "pinned" /\ Sized(a) /\ a.live /\ Eligible(a)
GcpResolve(a) == a.status = 200 /\ a.ref = "pinned" /\ Sized(a) /\ a.sum = "match"

FieldIds(a) == {a.fields[i] : i \in DOMAIN a.fields}
OnePasswordResolve(a) ==
    /\ a.status = 200 /\ a.ref = "pinned" /\ a.live
    /\ "pinned" \in FieldIds(a) /\ Cardinality(FieldIds(a)) = Len(a.fields)
    /\ a.field = "text" /\ Sized(a)

\* The bytes of the item: one match, printable, of bounded size.
KeychainValue(a) == a.status = 200 /\ a.fields = <<"pinned">> /\ a.field = "text" /\ Sized(a)

-----------------------------------------------------------------------------
(* The steps the sources share. *)

Row(r) == rows' = Append(rows, r)
Finish(r) ==
    /\ ex' = [ex EXCEPT !.pc = "done"] /\ Row(r)
    /\ UNCHANGED <<mono, wall, gate, asked>>
Blocked == Finish("blocked")
To(pc) == ex' = [ex EXCEPT !.pc = pc]

\* source_deadline: the remaining life of the token, anchored now.
Least(a, b) == IF a < b THEN a ELSE b
SourceDeadline == Least(Deadline, mono + (ex.expires - wall))

\* The profile is parsed, the deadline anchored, and the audit of the read
\* submitted.
Begin(accepted, deadline, lives) ==
    /\ ex.pc = "new"
    /\ \/ (~accepted \/ ~lives) /\ Blocked
       \/ accepted /\ lives
          /\ ex' = [ex EXCEPT !.pc = "announcing", !.until = deadline,
                              !.lapse = mono + (ex.expires - wall)]
          /\ UNCHANGED <<mono, wall, gate, rows, asked>>

\* commit_until: the row is durable and the caller knows in time; or the call
\* fails, with or without the row, and the guard is dropped.
Announce ==
    /\ ex.pc = "announcing"
    /\ \/ mono < ex.until /\ To("announced") /\ Row("reading")
          /\ UNCHANGED <<mono, wall, gate, asked>>
       \/ \E late \in {<<>>, <<"reading">>} :
             /\ To("done") /\ rows' = rows \o late \o <<"blocked">>
             /\ UNCHANGED <<mono, wall, gate, asked>>

ExpiryValid == mono < ex.until /\ wall < ex.expires
DeadlineValid == mono < ex.until

\* The request is built and sent; its headers hold what the profile was
\* accepted with.
Ask(valid) ==
    /\ ex.pc = "announced"
    /\ \/ (~valid \/ gate # "open") /\ Blocked
       \/ valid /\ gate = "open"
          /\ To("asked") /\ asked' = Append(asked, [mono |-> mono, wall |-> wall])
          /\ UNCHANGED <<mono, wall, gate, rows>>

\* The transport fails or the timeout passes.
AskFails == ex.pc = "asked" /\ Blocked
Receive(a) ==
    /\ ex.pc = "asked" /\ mono < ex.until
    /\ ex' = [ex EXCEPT !.pc = "answered", !.answer = a]
    /\ UNCHANGED <<mono, wall, gate, rows, asked>>

\* Every byte of the response, and of the value decoded from it, is searched
\* for the imported token.
Reveals(a) == a.reflects \in {"raw", "decoded"}

\* build_upstream and the header check of the business request.
Buildable(a) == a.field # "not a header"

Inspect(resolved, valid) ==
    /\ ex.pc = "answered"
    /\ IF ~Reveals(ex.answer) /\ resolved /\ valid /\ Buildable(ex.answer)
       THEN To("noting") /\ UNCHANGED <<mono, wall, gate, rows, asked>>
       ELSE Blocked

Note ==
    /\ ex.pc = "noting"
    /\ \/ mono < ex.until /\ To("noted") /\ Row("resolved")
          /\ UNCHANGED <<mono, wall, gate, asked>>
       \/ \E late \in {<<>>, <<"resolved">>} :
             /\ To("done") /\ rows' = rows \o late \o <<"blocked">>
             /\ UNCHANGED <<mono, wall, gate, asked>>

\* The checks after the second row: its commit took time.
Recheck(valid) ==
    /\ ex.pc = "noted"
    /\ IF valid THEN To("handed") /\ UNCHANGED <<mono, wall, gate, rows, asked>> ELSE Blocked

-----------------------------------------------------------------------------
(* The sources. *)

ResolveVaultSource ==
    /\ ex.kind = "kv"
    /\ \/ Begin(KvProfile(ex), Deadline, mono < Deadline) \/ Announce
       \/ Ask(DeadlineValid) \/ Inspect(KvResolve(ex.answer), TRUE) \/ Note \/ Recheck(TRUE)

ResolveAwsSource ==
    /\ ex.kind = "aws"
    /\ \/ Begin(AwsProfile(ex), SourceDeadline, wall < ex.expires) \/ Announce
       \/ Ask(ExpiryValid) \/ Inspect(AwsResolve(ex.answer), ExpiryValid)
       \/ Note \/ Recheck(ExpiryValid)

ResolveAzureSource ==
    /\ ex.kind = "azure"
    /\ \/ Begin(AzureProfile(ex), SourceDeadline, wall < ex.expires) \/ Announce
       \/ Ask(ExpiryValid) \/ Inspect(AzureResolve(ex.answer), ExpiryValid)
       \/ Note \/ Recheck(ExpiryValid /\ Eligible(ex.answer))

ResolveGcpSource ==
    /\ ex.kind = "gcp"
    /\ \/ Begin(GcpProfile(ex), SourceDeadline, wall < ex.expires) \/ Announce
       \/ Ask(ExpiryValid) \/ Inspect(GcpResolve(ex.answer), ExpiryValid)
       \/ Note \/ Recheck(ExpiryValid)

ResolveOnePasswordSource ==
    /\ ex.kind = "op"
    /\ \/ Begin(OnePasswordProfile(ex), SourceDeadline, wall < ex.expires) \/ Announce
       \/ Ask(ExpiryValid) \/ Inspect(OnePasswordResolve(ex.answer), ExpiryValid)
       \/ Note \/ Recheck(ExpiryValid)

\* The Authority's own thread looks the item up: nothing but time passes
\* between its steps.  A failure refuses the preparation, which is audited as
\* blocked; the second row tells whether the lookup and the check after it
\* were good.
KeychainCurrent == mono < Deadline /\ wall < ex.expires
ResolveKeychain ==
    /\ ex.kind = "keychain"
    /\ \/ /\ ex.pc = "new"
          /\ IF KeychainReference(ex) /\ KeychainCurrent
             THEN /\ ex' = [ex EXCEPT !.pc = "announced", !.until = Deadline,
                                      !.lapse = mono + (ex.expires - wall)]
                  /\ Row("reading") /\ UNCHANGED <<mono, wall, gate, asked>>
             ELSE Blocked
       \/ /\ ex.pc = "announced"
          /\ IF KeychainCurrent
             THEN /\ To("asked") /\ asked' = Append(asked, [mono |-> mono, wall |-> wall])
                  /\ UNCHANGED <<mono, wall, gate, rows>>
             ELSE Blocked
       \/ /\ ex.pc = "answered"
          /\ IF KeychainValue(ex.answer) /\ KeychainCurrent
             THEN To("noted") /\ Row("resolved") /\ UNCHANGED <<mono, wall, gate, asked>>
             ELSE /\ To("done") /\ rows' = rows \o <<"unresolved", "blocked">>
                  /\ UNCHANGED <<mono, wall, gate, asked>>
       \/ Recheck(KeychainCurrent)

-----------------------------------------------------------------------------
(* The business request, and what happens to the execution from outside. *)

\* The request is sent with the deadline of the action, whatever the life of
\* the token that fetched the value.
Send ==
    /\ ex.pc = "handed"
    /\ IF mono < Deadline /\ gate = "open"
       THEN /\ ex' = [ex EXCEPT !.pc = "sent", !.used = TRUE]
            /\ UNCHANGED <<mono, wall, gate, rows, asked>>
       ELSE Blocked

Answered == ex.pc = "sent" /\ \E r \in {"finished", "indeterminate"} : Finish(r)

\* run_inner: a cancelled execution is dropped where it is.
Cancel ==
    /\ gate = "cancelled" /\ ex.pc # "done"
    /\ Finish(IF ex.pc = "sent" THEN "indeterminate" ELSE "blocked")

CloseGate ==
    /\ \/ gate = "open" /\ gate' = "closed"
       \/ gate = "closed" /\ gate' = "cancelled"
    /\ UNCHANGED <<mono, wall, ex, rows, asked>>

Tick ==
    /\ ex.pc # "done" /\ mono < MaxTime
    /\ mono' = mono + 1 /\ wall' = wall + 1
    /\ UNCHANGED <<gate, ex, rows, asked>>

WallSteps ==
    /\ ex.pc # "done" /\ ~ex.stepped
    /\ \E d \in Steps : wall' = wall + d
    /\ ex' = [ex EXCEPT !.stepped = TRUE]
    /\ UNCHANGED <<mono, gate, rows, asked>>

Ended == ex.pc = "done" /\ UNCHANGED vars

Source ==
    \/ ResolveVaultSource \/ ResolveAwsSource \/ ResolveAzureSource
    \/ ResolveGcpSource \/ ResolveOnePasswordSource \/ ResolveKeychain

Next ==
    \/ Source \/ AskFails \/ (\E a \in Answers : Receive(a))
    \/ Send \/ Answered \/ Cancel \/ CloseGate \/ Tick \/ WallSteps \/ Ended

Spec == Init /\ [][Next]_vars

\* Calls return by their timeouts, and the executor's task is run.
FairSpec ==
    /\ Spec /\ WF_vars(Source) /\ WF_vars(AskFails) /\ WF_vars(Send)
    /\ WF_vars(Answered) /\ WF_vars(Cancel)

-----------------------------------------------------------------------------
Terminals == {"blocked", "indeterminate", "finished"}
Count(S) == Cardinality({i \in DOMAIN rows : rows[i] \in S})

TypeOK ==
    /\ mono \in 0..MaxTime /\ wall \in Int /\ gate \in {"open", "closed", "cancelled"}
    /\ ex.kind \in Kinds /\ ex.answer \in Answers /\ ex.until \in Int /\ ex.lapse \in Int
    /\ ex.pc \in {"new", "announcing", "announced", "asked", "answered", "noting",
                  "noted", "handed", "sent", "done"}
    /\ rows \in Seq(Terminals \cup {"started", "reading", "resolved", "unresolved"})
    /\ asked \in Seq([mono : 0..MaxTime, wall : Int]) /\ Len(asked) <= 1

\* The business request is sent only when the read has been announced and its
\* result recorded, in that order, and the source asked once.
EvidenceBeforeUse ==
    ex.used => /\ Len(rows) >= 3 /\ SubSeq(rows, 1, 3) = <<"started", "reading", "resolved">>
               /\ Len(asked) = 1

\* The source is asked within the life of the imported token: not once the
\* wall clock has passed its expiry, and, however the wall clock steps, not
\* later than the remaining life that was anchored when the execution began.
AskedInWindow ==
    \A i \in DOMAIN asked :
        ex.kind # "kv" =>
            /\ asked[i].wall < ex.expires
            /\ ex.kind # "keychain" => asked[i].mono < ex.lapse

\* The value that is used is the one the credential names, complete, usable
\* in a header, and does not hold the token it was fetched with.
UsedIsVerified ==
    ex.used =>
        /\ ex.answer.size \in 1..ValueLimit /\ ex.answer.status = 200
        /\ (ex.kind # "keychain" => ex.answer.reflects = "no")
        /\ (ex.kind # "keychain" /\ ex.exact) => ex.answer.ref = "pinned"
        /\ ex.kind = "gcp" => ex.answer.sum = "match"
        /\ ex.kind \in {"op", "kv", "keychain"} => ex.answer.fields = <<"pinned">>
        /\ ex.answer.field # "not a header"

\* An execution audited as blocked never sent its business request, and there
\* is one terminal row.
BlockedIsTrue ==
    /\ (\E i \in DOMAIN rows : rows[i] = "blocked") => ~ex.used
    /\ Count(Terminals) = (IF ex.pc = "done" THEN 1 ELSE 0)

=============================================================================
