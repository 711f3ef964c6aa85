------------------------------ MODULE LeaseJournal ------------------------------
(***************************************************************************)
(* Dynamic secrets of an external vault: every lease is announced in a     *)
(* durable journal before it is asked for, recorded once it is known, and  *)
(* revoked before its execution may succeed                                *)
(* (crates/rekey-broker/src/executor/vault_dynamic_run.rs,                 *)
(* vault_dynamic.rs; crates/rekey-vault/src/authority/lease_journal.rs,    *)
(* store/lease_journal.rs).  What a crash leaves behind, the next unlock   *)
(* revokes, a bounded batch at a time.                                     *)
(*                                                                         *)
(* Every call of the Authority has three outcomes: committed and answered, *)
(* committed with the answer lost, or refused without effect (deadline,    *)
(* full mailbox).  Every call of the provider can be lost either way.      *)
(***************************************************************************)
EXTENDS Integers, FiniteSets, Sequences, SequencesExt

CONSTANTS Execs,       \* executions; each registers at most one acquisition
          SourceOf,    \* the source (origin, mount, role) of each of them
          Batch,       \* receipts a recovery takes at a time (8)
          Stuck,       \* executions whose lease the provider never revokes
          ClockSteps,  \* whether the wall clock may step during a renewal
          CanCrash     \* whether the process may end at any point

ASSUME LeaseAssumption ==
    /\ Batch \in Nat \ {0} /\ Stuck \subseteq Execs
    /\ ClockSteps \in BOOLEAN /\ CanCrash \in BOOLEAN

VARIABLES rows,   \* vault_lease_journal: one row for each registration
          order,  \* the registrations by updated_at_ms
          run,    \* the executions
          prov,   \* the provider's leases: live, or live and denied, or gone
          up,     \* locked, recovering, running, faulted
          rec     \* recover_vault_leases

vars == <<rows, order, run, prov, up, rec>>

Leases == Execs \X {1, 2}
NoRow == [phase |-> "none", lease |-> 0, renewable |-> FALSE]
Off == [pc |-> "off", todo |-> <<>>]

Init ==
    /\ rows = [e \in Execs |-> NoRow] /\ order = <<>>
    /\ run = [e \in Execs |-> [pc |-> "new", held |-> {}, sent |-> FALSE, res |-> "none"]]
    /\ prov = [l \in Leases |-> "none"]
    /\ up = "locked" /\ rec = Off

-----------------------------------------------------------------------------
(* The journal. *)

Pending(e) == rows[e].phase \notin {"none", "complete"}
Known(e) == rows[e].phase \in {"issued", "renewing", "cleanup"}

\* Which change the Authority accepts; any other one is taken for a corrupted
\* journal and faults the vault (invalid).

Legal(r, ch) ==
    CASE ch \in {"issued", "renewable", "abort"} -> r.phase = "intent"
      [] ch = "renew" -> r.phase = "issued" /\ r.renewable
      [] ch \in {"renewed", "unrenewed"} -> r.phase = "renewing"
      [] ch = "renewed early" -> FALSE
      [] ch = "cleanup" ->
            r.phase \in {"issued", "renewing", "cleanup"} /\ r.lease # 0
      [] ch \in {"revoked", "unrevoked"} -> r.phase = "cleanup"

\* lease_change.
Changed(r, ch) ==
    CASE ch \in {"issued", "renewable"} ->
            [r EXCEPT !.phase = "issued", !.lease = 1, !.renewable = (ch = "renewable")]
      [] ch = "abort" -> [r EXCEPT !.phase = "complete"]
      [] ch = "renew" -> [r EXCEPT !.phase = "renewing"]
      [] ch \in {"renewed", "unrenewed"} -> [r EXCEPT !.phase = "issued"]
      [] ch = "cleanup" -> [r EXCEPT !.phase = "cleanup"]
      [] ch = "revoked" -> [r EXCEPT !.phase = "complete", !.lease = 0]
      [] ch = "unrevoked" -> r

KeepsPlace(e) == IF e \in ToSet(order) THEN order ELSE Append(order, e)

\* updated_at_ms: the registration changed last is the last to be taken.
Touched(e) == Append(Remove(order, e), e)

Commit(e, ch) ==
    /\ rows' = [rows EXCEPT ![e] = Changed(@, ch)]
    /\ order' = Touched(e)

\* One call of lease_update for a row that exists: done tells the caller's
\* view.  A refusal for a locked or faulted vault is one without effect.
CallDone(e, ch) ==
    up \in {"running", "recovering"} /\ Legal(rows[e], ch) /\ Commit(e, ch)
    /\ UNCHANGED up
CallUnheard(e, ch) ==
    \/ CallDone(e, ch)
    \/ up \in {"running", "recovering"} /\ ~Legal(rows[e], ch)
       /\ up' = "faulted" /\ UNCHANGED <<rows, order>>
    \/ UNCHANGED <<rows, order, up>>

-----------------------------------------------------------------------------
(* The provider. *)

\* revoke_one for a set of leases: confirmed means that they are gone;
\* otherwise each of them may be gone or not.
Revoked(S) == prov' = [l \in Leases |-> IF l \in S /\ prov[l] = "live" THEN "gone" ELSE prov[l]]
RevokeConfirmed(e, S) == e \notin Stuck /\ Revoked(S)
RevokeUnconfirmed(e, S) ==
    \/ UNCHANGED prov
    \/ e \notin Stuck /\ \E T \in SUBSET S : Revoked(T)

Issue(S) == prov' = [l \in Leases |-> IF l \in S THEN "live" ELSE prov[l]]

\* A lease ends by itself.
Expire(l) ==
    /\ prov[l] \in {"live", "denied"} /\ prov' = [prov EXCEPT ![l] = "gone"]
    /\ UNCHANGED <<rows, order, run, up, rec>>

-----------------------------------------------------------------------------
(* run_vault_dynamic. *)

To(e, pc) == run' = [run EXCEPT ![e].pc = pc]
Ends(e, res) == run' = [run EXCEPT ![e].pc = "end", ![e].res = res]
Held(e) == {e} \X run[e].held

\* lease_begin refuses a source that has any row which is not complete.
Admits(e) == \A f \in Execs : SourceOf[f] = SourceOf[e] => ~Pending(f)

\* lease_acquire_begin; an answer that is lost ends the execution.
AcquireBegin(e) ==
    /\ run[e].pc = "new" /\ up = "running"
    /\ \/ /\ Admits(e)
          /\ rows' = [rows EXCEPT ![e] = [NoRow EXCEPT !.phase = "intent"]]
          /\ order' = Touched(e)
          /\ To(e, "begun") \/ Ends(e, "failed")
       \/ Ends(e, "failed") /\ UNCHANGED <<rows, order>>
    /\ UNCHANGED <<prov, up, rec>>

\* The gate is closed or no time is left: nothing was sent, and the
\* registration is taken back.
Withdraw(e) ==
    /\ run[e].pc \in {"begun", "aborting"}
    /\ \/ CallDone(e, "abort") /\ Ends(e, "blocked")
       \/ CallUnheard(e, "abort") /\ Ends(e, "indeterminate")
    /\ UNCHANGED <<prov, rec>>

\* The provider issues a lease and says so in one piece.
AcquireOk(e) ==
    /\ run[e].pc = "begun"
    /\ Issue({<<e, 1>>})
    /\ run' = [run EXCEPT ![e].pc = "acquired", ![e].held = {1}]
    /\ UNCHANGED <<rows, order, up, rec>>

\* probe_lease_ids finds the leases that a damaged response still names: all,
\* some or none of them.
Probed(S) == SUBSET S

\* A response that does not name exactly one lease, reflects a secret, or is
\* not recorded: what it names is revoked, the registration stays unknown.
AcquireMalformed(e) ==
    /\ run[e].pc = "begun"
    /\ \E S \in SUBSET {1, 2} : \E T \in Probed(S) :
          /\ S # {} /\ Issue({e} \X S)
          /\ run' = [run EXCEPT ![e].pc = "emergency", ![e].held = T]
    /\ UNCHANGED <<rows, order, up, rec>>

AcquireUncertainAborts(e) ==
    /\ run[e].pc = "begun"
    /\ Issue({<<e, 1>>}) \/ UNCHANGED prov
    /\ To(e, "aborting")
    /\ UNCHANGED <<rows, order, up, rec>>

\* No response: issued or not, nobody knows.
AcquireUncertain(e) ==
    /\ run[e].pc = "begun"
    /\ Issue({<<e, 1>>}) \/ UNCHANGED prov
    /\ Ends(e, "indeterminate")
    /\ UNCHANGED <<rows, order, up, rec>>

\* Blocked before anything was sent, or answered by a status other than 200
\* that names no lease, which is taken for a proof that there is none: a server
\* or a proxy that fails after the lease was made denies a lease that lives.
AcquireDefinite(e) ==
    /\ run[e].pc = "begun"
    /\ prov' = [prov EXCEPT ![<<e, 1>>] = "denied"] \/ UNCHANGED prov
    /\ To(e, "aborting")
    /\ UNCHANGED <<rows, order, up, rec>>

\* lease_record_issued; without an answer, the lease is revoked at once.
RecordIssued(e) ==
    /\ run[e].pc = "acquired"
    /\ \E ch \in {"issued", "renewable"} :
          \/ CallDone(e, ch) /\ To(e, "issued")
          \/ CallUnheard(e, ch) /\ To(e, "emergency")
    /\ UNCHANGED <<prov, rec>>

\* revoke_all outside the journal.
Emergency(e) ==
    /\ run[e].pc = "emergency"
    /\ RevokeConfirmed(e, Held(e)) \/ RevokeUnconfirmed(e, Held(e))
    /\ Ends(e, "indeterminate")
    /\ UNCHANGED <<rows, order, up, rec>>

\* renew_dynamic_lease, when the lease would end before the action may; a
\* renewal that fails leads straight to the cleanup.
RenewBegin(e) ==
    /\ run[e].pc = "issued" /\ rows[e].renewable
    /\ \/ CallDone(e, "renew") /\ To(e, "renewing")
       \/ CallUnheard(e, "renew") /\ To(e, "cleanup")
    /\ UNCHANGED <<prov, rec>>

RenewResult(e) ==
    /\ run[e].pc = "renewing"
    /\ \/ CallDone(e, "renewed") /\ To(e, "send")
       \/ CallUnheard(e, "renewed") /\ To(e, "cleanup")
       \/ ClockSteps /\ CallUnheard(e, "renewed early") /\ To(e, "cleanup")
       \/ CallUnheard(e, "unrenewed") /\ To(e, "cleanup")
    /\ UNCHANGED <<prov, rec>>

\* send_dynamic_action, with or without a renewal first: sent or not, the
\* cleanup follows.
SendDynamicAction(e) ==
    /\ run[e].pc \in {"send", "issued"}
    /\ \E ok \in BOOLEAN :
          run' = [run EXCEPT ![e].pc = "cleanup", ![e].sent = ok]
    /\ UNCHANGED <<rows, order, prov, up, rec>>

\* cleanup_registered: prepare, revoke, finish.
PrepareCleanup(e) ==
    /\ run[e].pc = "cleanup"
    /\ \/ CallDone(e, "cleanup") /\ To(e, "prepared")
       \/ CallUnheard(e, "cleanup") /\ To(e, "emergency")
    /\ UNCHANGED <<prov, rec>>

CleanupRevoke(e) ==
    /\ run[e].pc = "prepared"
    /\ \/ RevokeConfirmed(e, {<<e, rows[e].lease>>}) /\ To(e, "confirmed")
       \/ RevokeUnconfirmed(e, {<<e, rows[e].lease>>}) /\ To(e, "unconfirmed")
    /\ UNCHANGED <<rows, order, up, rec>>

\* Success needs the revocation confirmed and that fact recorded.
FinishCleanup(e) ==
    /\ run[e].pc \in {"confirmed", "unconfirmed"}
    /\ \/ /\ run[e].pc = "confirmed" /\ CallDone(e, "revoked")
          /\ Ends(e, IF run[e].sent THEN "success" ELSE "failed")
       \/ /\ run[e].pc = "confirmed" /\ CallUnheard(e, "revoked")
          /\ Ends(e, "indeterminate")
       \/ /\ run[e].pc = "unconfirmed" /\ CallUnheard(e, "unrevoked")
          /\ Ends(e, "indeterminate")
    /\ UNCHANGED <<prov, rec>>

-----------------------------------------------------------------------------
(* recover_vault_leases, at an unlock and before executions are admitted. *)

\* lease_batch: the known registrations that were changed longest ago.
KnownOrder == SelectSeq(order, Known)
Todo == SubSeq(KnownOrder, 1, IF Len(KnownOrder) < Batch THEN Len(KnownOrder) ELSE Batch)

RecoveryBatch ==
    /\ up = "locked" /\ up' = "recovering"
    /\ rec' = [pc |-> "next", todo |-> Todo]
    /\ UNCHANGED <<rows, order, run, prov>>

\* An unlock that was asked not to recover.
UnlockOnly ==
    /\ up = "locked" /\ up' = "running"
    /\ UNCHANGED <<rows, order, run, prov, rec>>

RecoverPrepared(e) ==
    /\ rec.pc = "next" /\ rec.todo # <<>> /\ e = Head(rec.todo)
    /\ CallDone(e, "cleanup") /\ rec' = [rec EXCEPT !.pc = "prepared"]
    /\ UNCHANGED <<run, prov>>

\* No time left, or a late answer: the lease is left for another recovery.
RecoverDeferred(e) ==
    /\ rec.pc = "next" /\ rec.todo # <<>> /\ e = Head(rec.todo)
    /\ CallUnheard(e, "cleanup") /\ rec' = [rec EXCEPT !.todo = Tail(@)]
    /\ UNCHANGED <<run, prov>>

RecoverConfirmed(e) ==
    /\ rec.pc = "prepared" /\ e = Head(rec.todo)
    /\ RevokeConfirmed(e, {<<e, rows[e].lease>>})
    /\ rec' = [rec EXCEPT !.pc = "confirmed"]
    /\ UNCHANGED <<rows, order, run, up>>

RecoverUnconfirmed(e) ==
    /\ rec.pc = "prepared" /\ e = Head(rec.todo)
    /\ RevokeUnconfirmed(e, {<<e, rows[e].lease>>})
    /\ rec' = [rec EXCEPT !.pc = "unconfirmed"]
    /\ UNCHANGED <<rows, order, run, up>>

RecoverFinished(e) ==
    /\ rec.pc = "confirmed" /\ e = Head(rec.todo) /\ CallDone(e, "revoked")
    /\ rec' = [pc |-> "next", todo |-> Tail(rec.todo)]
    /\ UNCHANGED <<run, prov>>

RecoverUnfinished(e) ==
    /\ rec.pc \in {"confirmed", "unconfirmed"} /\ e = Head(rec.todo)
    /\ CallUnheard(e, IF rec.pc = "confirmed" THEN "revoked" ELSE "unrevoked")
    /\ rec' = [pc |-> "next", todo |-> Tail(rec.todo)]
    /\ UNCHANGED <<run, prov>>

\* enter_running after the last one; an error locks the vault again.
Recovered ==
    /\ rec.pc = "next" /\ rec.todo = <<>> /\ rec' = Off
    /\ up' = IF up = "recovering" THEN "running" ELSE up
    /\ UNCHANGED <<rows, order, run, prov>>

RecoveryFailed ==
    /\ rec.pc = "next" /\ rec.todo # <<>> /\ up = "recovering"
    /\ rec' = Off /\ up' = "locked"
    /\ UNCHANGED <<rows, order, run, prov>>

Lock ==
    /\ up = "running" /\ \A e \in Execs : run[e].pc \in {"new", "end"}
    /\ up' = "locked"
    /\ UNCHANGED <<rows, order, run, prov, rec>>

\* The process ends and is started again, locked.
Restart ==
    /\ CanCrash \/ up = "faulted"
    /\ up' = "locked" /\ rec' = Off
    /\ run' = [e \in Execs |-> IF run[e].pc \in {"new", "end"} THEN run[e]
                               ELSE [run[e] EXCEPT !.pc = "end", !.res = "lost"]]
    /\ UNCHANGED <<rows, order, prov>>

Step(e) ==
    \/ AcquireBegin(e) \/ Withdraw(e) \/ AcquireOk(e) \/ AcquireMalformed(e)
    \/ AcquireUncertain(e) \/ AcquireDefinite(e) \/ RecordIssued(e) \/ Emergency(e)
    \/ RenewBegin(e) \/ RenewResult(e) \/ SendDynamicAction(e)
    \/ PrepareCleanup(e) \/ CleanupRevoke(e) \/ FinishCleanup(e)

Recovery(e) ==
    \/ RecoverPrepared(e) \/ RecoverDeferred(e) \/ RecoverConfirmed(e)
    \/ RecoverUnconfirmed(e) \/ RecoverFinished(e) \/ RecoverUnfinished(e)

Next ==
    \/ \E e \in Execs : Step(e) \/ Recovery(e)
    \/ \E l \in Leases : Expire(l)
    \/ RecoveryBatch \/ UnlockOnly \/ Recovered \/ RecoveryFailed \/ Lock \/ Restart

Spec == Init /\ [][Next]_vars

\* A recovery goes on, and its task has no step that waits for ever (every call
\* has a deadline).  The Authority and the provider are not always late: what
\* can succeed again and again succeeds sometimes.
Fairness ==
    /\ WF_vars(Recovered)
    /\ WF_vars(\E e \in Execs : Recovery(e))
    /\ \A e \in Execs : SF_vars(RecoverPrepared(e))
    /\ \A e \in Execs \ Stuck : SF_vars(RecoverConfirmed(e)) /\ SF_vars(RecoverFinished(e))
FairSpec == Spec /\ Fairness

-----------------------------------------------------------------------------
(* Properties. *)

TypeOK ==
    /\ \A e \in Execs :
         /\ rows[e].phase \in {"none", "intent", "issued", "renewing", "cleanup", "complete"}
         /\ run[e].res \in {"none", "failed", "blocked", "indeterminate", "lost", "success"}
    /\ up \in {"locked", "recovering", "running", "faulted"}
    /\ IsInjective(order) /\ ToSet(order) = {e \in Execs : rows[e].phase # "none"}

\* A lease that is alive at the provider, and that the provider has not denied,
\* is never forgotten: its registration is in the journal and not complete,
\* whatever was lost, cancelled or crashed since the lease was asked for
\* (lease_begin before acquire; CleanupFinish only on proof).  For a lease that
\* a refusal denies this does not hold: lease_abort_definite completes its row.
LiveLeasesAreJournaled ==
    \A l \in Leases : prov[l] = "live" => Pending(l[1])

\* A source has leases alive from one acquisition only, but for those that the
\* provider denied (lease_begin refuses a source with a row that is not
\* complete).
OneAcquisitionPerSource ==
    \A k, l \in Leases :
        (prov[k] = "live" /\ prov[l] = "live" /\ SourceOf[k[1]] = SourceOf[l[1]])
            => k[1] = l[1]

\* An execution only succeeds when its lease is gone and the journal says so
\* (cleanup_registered comes before finished_until).
SuccessMeansRevoked ==
    \A e \in Execs : run[e].res = "success" =>
        rows[e].phase = "complete" /\ \A n \in {1, 2} : prov[<<e, n>>] \notin {"live", "denied"}

\* The broker never asks for a change that the Authority takes for a corrupted
\* journal: lost answers, restarts and recoveries do not fault the vault.
NoIntegrityFault == up # "faulted"

\* As long as recoveries keep being started, every known lease that the
\* provider is able to revoke is revoked, even when a batch is full of leases
\* that cannot be (lease_batch takes the registration changed longest ago).
RecoveryReachesAll ==
    \A e \in Execs \ Stuck :
        ([]<>(up = "recovering")) => (Known(e) ~> ~Known(e))
=============================================================================
