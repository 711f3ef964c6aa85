---------------------------- MODULE LeaseProofs ----------------------------
(***************************************************************************)
(* The leases of dynamic sources, for every instance of LeaseJournal: what *)
(* is alive at the provider, and not denied by it, is in the journal and   *)
(* not complete, a source has such leases of one acquisition only, and     *)
(* success means revoked.  Then the same of short-lived tokens, for every  *)
(* instance of RevocableTokens.                                            *)
(***************************************************************************)
EXTENDS LeaseJournal, FiniteSetTheorems, TLAPS

\* The phases of a registration, its row, and the positions of an execution:
\* those in which it has a lease that the journal knows, and those of its
\* cleanup.
Phases == {"none", "intent", "issued", "renewing", "cleanup", "complete"}
RowType == [phase : Phases, lease : {0, 1}, renewable : BOOLEAN]
Leased == {"issued", "renewing", "send", "cleanup"}
Cleaning == {"prepared", "confirmed", "unconfirmed"}
RunPc == {"new", "end", "begun", "aborting", "acquired", "emergency"} \cup Leased \cup Cleaning
RunType == [pc : RunPc, held : SUBSET {1, 2}, sent : BOOLEAN,
            res : {"none", "failed", "blocked", "indeterminate", "lost", "success"}]

\* A lease at the provider; `denied': alive behind a refusal.
LeaseState == {"none", "live", "denied", "gone"}

\* The types; the recovery's list is whatever lease_batch made of the order.
Types ==
    /\ rows \in [Execs -> RowType] /\ run \in [Execs -> RunType]
    /\ prov \in [Leases -> LeaseState]
    /\ rec = [pc |-> rec.pc, todo |-> rec.todo]
    /\ rec.pc \in {"off", "next"} \cup Cleaning

\* A lease that the provider never issued, that it denied, or that is revoked or
\* expired.
Dead(e, n) == prov[<<e, n>>] # "live"
Denied(e, n) == prov[<<e, n>>] = "denied"

\* What the journal and the provider know of a registration, given where its
\* execution is.  A known registration has its one lease; a second one exists
\* only under a registration that stays unknown.
LeaseRight(e) ==
    /\ run[e].pc = "new" => rows[e].phase = "none"
    /\ run[e].pc \in {"begun", "aborting"} => rows[e].phase = "intent" /\ Dead(e, 1) /\ Dead(e, 2)
    /\ run[e].pc = "acquired" => rows[e].phase = "intent" /\ Dead(e, 2)
    /\ run[e].pc \in Leased => Known(e)
    /\ run[e].pc \in Cleaning => rows[e].phase = "cleanup"
    /\ run[e].pc = "confirmed" => Dead(e, 1)
    /\ Known(e) => rows[e].lease = 1 /\ Dead(e, 2)
    /\ ~Pending(e) => Dead(e, 1) /\ Dead(e, 2)
    /\ run[e].res = "success" => rows[e].phase = "complete"
    /\ \A n \in {1, 2} : Denied(e, n) => run[e].pc \in {"aborting", "end"} /\ run[e].res # "success"

\* A recovery runs while no execution does; the registration it cleans up is
\* prepared, and confirmed only when its lease is gone.
RecoveryRight ==
    /\ up \in {"locked", "recovering"} => \A e \in Execs : run[e].pc \in {"new", "end"}
    /\ rec.pc # "off" => /\ up \in {"recovering", "faulted"}
                         /\ \A e \in Execs : run[e].pc \in {"new", "end"}
    /\ \A e \in Execs : rec.pc \in Cleaning /\ e = Head(rec.todo) => rows[e].phase = "cleanup"
    /\ \A e \in Execs : rec.pc = "confirmed" /\ e = Head(rec.todo) => Dead(e, 1)

\* Registrations of one source follow one another.
OnePending ==
    \A e \in Execs, f \in Execs :
        Pending(e) /\ Pending(f) /\ SourceOf[e] = SourceOf[f] => e = f

\* The inductive invariant.
LeaseInv == Types /\ (\A e \in Execs : LeaseRight(e)) /\ RecoveryRight /\ OnePending

\* The changes a caller asks for, and what each makes of a row that it is legal
\* for.
Changes == {"issued", "renewable", "abort", "renew", "renewed", "unrenewed", "renewed early",
            "cleanup", "revoked", "unrevoked"}
Moves(ch, r, s) ==
    \/ ch \in {"issued", "renewable"} /\ r.phase = "intent" /\ s.phase = "issued" /\ s.lease = 1
    \/ ch = "abort" /\ r.phase = "intent" /\ s.phase = "complete"
    \/ ch = "renew" /\ r.phase = "issued" /\ s.phase = "renewing" /\ s.lease = r.lease
    \/ ch \in {"renewed", "unrenewed"} /\ r.phase = "renewing" /\ s.phase = "issued" /\ s.lease = r.lease
    \/ ch = "cleanup" /\ r.phase \in {"issued", "renewing", "cleanup"} /\ s.phase = "cleanup" /\ s.lease = r.lease
    \/ ch = "revoked" /\ r.phase = "cleanup" /\ s.phase = "complete"
    \/ ch = "unrevoked" /\ r.phase = "cleanup" /\ s = r

\* lease_change does what Moves says.
LEMMA ChangeFacts ==
    ASSUME NEW r \in RowType, NEW ch \in Changes, Legal(r, ch)
    PROVE  Changed(r, ch) \in RowType /\ Moves(ch, r, Changed(r, ch))
<1>1. CASE ch \in {"issued", "renewable"}
  BY <1>1 DEF Legal, Changed, RowType, Phases, Moves
<1>2. CASE ch = "abort"
  BY <1>2 DEF Legal, Changed, RowType, Phases, Moves
<1>3. CASE ch = "renew"
  BY <1>3 DEF Legal, Changed, RowType, Phases, Moves
<1>4. CASE ch \in {"renewed", "unrenewed"}
  BY <1>4 DEF Legal, Changed, RowType, Phases, Moves
<1>5. CASE ch = "cleanup"
  BY <1>5 DEF Legal, Changed, RowType, Phases, Moves
<1>6. CASE ch = "revoked"
  BY <1>6 DEF Legal, Changed, RowType, Phases, Moves
<1>7. CASE ch = "unrevoked"
  BY <1>7 DEF Legal, Changed, RowType, Phases, Moves
<1>8. CASE ch = "renewed early"
  BY <1>8 DEF Legal
<1> QED
  BY <1>1, <1>2, <1>3, <1>4, <1>5, <1>6, <1>7, <1>8 DEF Changes

\* A call, heard or not, changes the row of its registration as the Authority
\* allows, or leaves the journal alone; one that is answered has changed it.
LEMMA CallFacts ==
    ASSUME LeaseInv, NEW e \in Execs, NEW ch \in Changes, CallUnheard(e, ch)
    PROVE  /\ rows' \in [Execs -> RowType]
           /\ \A f \in Execs \ {e} : rows'[f] = rows[f]
           /\ rows'[e] = rows[e] \/ Moves(ch, rows[e], rows'[e])
           /\ up' = up \/ (up \in {"running", "recovering"} /\ up' = "faulted")
           /\ CallDone(e, ch) => Moves(ch, rows[e], rows'[e]) /\ up' = up
<1>1. rows \in [Execs -> RowType] /\ rows[e] \in RowType
  BY DEF LeaseInv, Types
<1>2. CASE CallDone(e, ch)
  <2>1. PICK s \in RowType : s = Changed(rows[e], ch) /\ Moves(ch, rows[e], s)
    BY <1>1, <1>2, ChangeFacts DEF CallDone
  <2>2. rows' = [rows EXCEPT ![e] = s] /\ up' = up
    BY <1>2, <2>1 DEF CallDone, Commit
  <2> QED
    BY <1>1, <2>1, <2>2
<1>3. CASE ~CallDone(e, ch)
  BY <1>1, <1>3 DEF CallUnheard
<1> QED
  BY <1>2, <1>3

\* An execution that is under way runs in an unlocked vault without a recovery.
LEMMA Active ==
    ASSUME LeaseInv, NEW e \in Execs, run[e].pc \notin {"new", "end"} \/ up = "running"
    PROVE  up \notin {"locked", "recovering"} /\ rec.pc = "off"
BY DEF LeaseInv, RecoveryRight

\* A step of one execution.
LEMMA ExecStep ==
    ASSUME LeaseInv, NEW e \in Execs, run[e].pc \notin {"new", "end"} \/ up = "running",
           rows' \in [Execs -> RowType], run' \in [Execs -> RunType],
           prov' \in [Leases -> LeaseState], rec' = rec,
           up' = up \/ up' = "faulted",
           \A f \in Execs \ {e} : rows'[f] = rows[f] /\ run'[f] = run[f],
           \A f \in Execs \ {e}, n \in {1, 2} : prov'[<<f, n>>] = prov[<<f, n>>],
           LeaseRight(e)', Pending(e)' => Pending(e) \/ Admits(e)
    PROVE  LeaseInv'
<1>1. up \notin {"locked", "recovering"} /\ rec.pc = "off"
  BY Active
<1>2. Types'
  BY DEF LeaseInv, Types
<1>3. ASSUME NEW f \in Execs \ {e} PROVE LeaseRight(f)' /\ (Pending(f)' <=> Pending(f))
  <2>1. LeaseRight(f)
    BY DEF LeaseInv
  <2> QED
    BY <2>1 DEF LeaseRight, Known, Pending, Dead, Denied
<1>4. RecoveryRight'
  BY <1>1 DEF RecoveryRight, Cleaning
<1>5. OnePending'
  <2> SUFFICES ASSUME NEW f \in Execs, NEW g \in Execs, Pending(f)', Pending(g)', SourceOf[f] = SourceOf[g]
               PROVE  f = g
    BY DEF OnePending
  <2>1. CASE f # e /\ g # e
    BY <1>3, <2>1 DEF LeaseInv, OnePending
  <2>2. CASE f = e /\ g # e
    BY <1>3, <2>2 DEF LeaseInv, OnePending, Admits
  <2>3. CASE f # e /\ g = e
    BY <1>3, <2>3 DEF LeaseInv, OnePending, Admits
  <2> QED
    BY <2>1, <2>2, <2>3
<1> QED
  BY <1>2, <1>3, <1>4, <1>5 DEF LeaseInv

\* Where an execution goes, with what it holds and says.
LEMMA RunFacts ==
    ASSUME LeaseInv, NEW e \in Execs, NEW pc \in RunPc
    PROVE  /\ To(e, pc) => /\ run' \in [Execs -> RunType] /\ \A f \in Execs \ {e} : run'[f] = run[f]
                           /\ run'[e].pc = pc /\ run'[e].res = run[e].res
           /\ \A res \in {"failed", "blocked", "indeterminate", "success"} : Ends(e, res) =>
                /\ run' \in [Execs -> RunType] /\ \A f \in Execs \ {e} : run'[f] = run[f]
                /\ run'[e].pc = "end" /\ run'[e].res = res
<1>1. run \in [Execs -> RunType] /\ run[e] \in RunType
  BY DEF LeaseInv, Types
<1>2. To(e, pc) => /\ run' \in [Execs -> RunType] /\ \A f \in Execs \ {e} : run'[f] = run[f]
                   /\ run'[e].pc = pc /\ run'[e].res = run[e].res
  BY <1>1 DEF To, RunType
<1>3. ASSUME NEW res \in {"failed", "blocked", "indeterminate", "success"}, Ends(e, res)
      PROVE  /\ run' \in [Execs -> RunType] /\ \A f \in Execs \ {e} : run'[f] = run[f]
             /\ run'[e].pc = "end" /\ run'[e].res = res
  BY <1>1, <1>3 DEF Ends, RunType, RunPc
<1> QED
  BY <1>2, <1>3

\* What the provider does for one execution leaves the leases of the others alone;
\* a revocation brings nothing to life, and one that is confirmed ends its leases.
LEMMA RevokeFacts ==
    ASSUME LeaseInv, NEW e \in Execs, NEW S \in SUBSET ({e} \X {1, 2}),
           RevokeConfirmed(e, S) \/ RevokeUnconfirmed(e, S)
    PROVE  /\ prov' \in [Leases -> LeaseState]
           /\ \A f \in Execs \ {e}, n \in {1, 2} : prov'[<<f, n>>] = prov[<<f, n>>]
           /\ \A n \in {1, 2} : (Dead(e, n) => Dead(e, n)') /\ (Denied(e, n)' => Denied(e, n))
           /\ RevokeConfirmed(e, S) => \A n \in {1, 2} : <<e, n>> \in S => Dead(e, n)'
<1>1. prov \in [Leases -> LeaseState]
  BY DEF LeaseInv, Types
<1>2. ASSUME NEW T \in SUBSET ({e} \X {1, 2}), Revoked(T)
      PROVE  /\ prov' \in [Leases -> LeaseState]
             /\ \A f \in Execs \ {e}, n \in {1, 2} : prov'[<<f, n>>] = prov[<<f, n>>]
             /\ \A n \in {1, 2} : (Dead(e, n) => Dead(e, n)') /\ (Denied(e, n)' => Denied(e, n))
             /\ \A n \in {1, 2} : <<e, n>> \in T => Dead(e, n)'
  BY <1>1, <1>2 DEF Revoked, Leases, LeaseState, Dead, Denied
<1>3. CASE RevokeConfirmed(e, S)
  BY <1>2, <1>3 DEF RevokeConfirmed
<1>4. CASE UNCHANGED prov /\ ~RevokeConfirmed(e, S)
  BY <1>1, <1>4 DEF Dead, Denied
<1>5. CASE ~UNCHANGED prov /\ ~RevokeConfirmed(e, S)
  <2>1. PICK T \in SUBSET S : Revoked(T)
    BY <1>5 DEF RevokeUnconfirmed
  <2> QED
    BY <1>2, <1>5, <2>1
<1> QED
  BY <1>3, <1>4, <1>5

\* What the provider issues to one execution leaves the others' leases alone.
LEMMA IssueFacts ==
    ASSUME LeaseInv, NEW e \in Execs, NEW S \in SUBSET ({e} \X {1, 2}), Issue(S) \/ UNCHANGED prov
    PROVE  /\ prov' \in [Leases -> LeaseState]
           /\ \A f \in Execs \ {e}, n \in {1, 2} : prov'[<<f, n>>] = prov[<<f, n>>]
           /\ \A n \in {1, 2} : <<e, n>> \notin S => prov'[<<e, n>>] = prov[<<e, n>>]
           /\ \A n \in {1, 2} : Denied(e, n)' => Denied(e, n)
BY DEF LeaseInv, Types, Leases, LeaseState, Issue, Denied

\* The registration, and taking it back.
LEMMA BeginStep ==
    ASSUME LeaseInv, NEW e \in Execs, AcquireBegin(e) \/ Withdraw(e)
    PROVE  LeaseInv'
<1>0. LeaseRight(e) /\ rows \in [Execs -> RowType] /\ prov \in [Leases -> LeaseState]
  BY DEF LeaseInv, Types
<1>1. CASE AcquireBegin(e)
  <2>1. /\ run[e].pc = "new" /\ up = "running" /\ UNCHANGED <<prov, up, rec>>
        /\ rows[e].phase = "none" /\ Dead(e, 1) /\ Dead(e, 2) /\ ~Pending(e)
        /\ \A n \in {1, 2} : ~Denied(e, n)
    BY <1>0, <1>1 DEF AcquireBegin, LeaseRight, Pending
  <2>2. /\ run' \in [Execs -> RunType] /\ \A f \in Execs \ {e} : run'[f] = run[f]
        /\ run'[e].pc \in {"begun", "end"} /\ (run'[e].pc = "begun" => run'[e].res = run[e].res)
        /\ run'[e].pc = "end" => run'[e].res = "failed"
    BY <1>1, RunFacts DEF AcquireBegin, RunPc
  <2>3. run[e].res # "success"
    BY <1>0, <2>1 DEF LeaseRight
  <2>4. CASE rows' = [rows EXCEPT ![e] = [NoRow EXCEPT !.phase = "intent"]] /\ Admits(e)
    <3>1. /\ rows' \in [Execs -> RowType] /\ rows'[e].phase = "intent"
          /\ \A f \in Execs \ {e} : rows'[f] = rows[f]
      BY <1>0, <2>4 DEF NoRow, RowType, Phases
    <3>2. LeaseRight(e)'
      BY <2>1, <2>2, <2>3, <3>1 DEF LeaseRight, Known, Pending, Dead, Denied, Leased, Cleaning
    <3> QED
      BY <1>0, <2>1, <2>2, <2>4, <3>1, <3>2, ExecStep
  <2>5. CASE UNCHANGED rows /\ Ends(e, "failed")
    <3>1. run'[e].pc = "end" /\ run'[e].res = "failed"
      BY <2>5, RunFacts DEF RunPc
    <3>2. LeaseRight(e)' /\ (Pending(e)' <=> Pending(e))
      BY <2>1, <2>5, <3>1 DEF LeaseRight, Known, Pending, Dead, Denied, Leased, Cleaning
    <3> QED
      BY <1>0, <2>1, <2>2, <2>5, <3>2, ExecStep
  <2> QED
    BY <1>1, <2>4, <2>5 DEF AcquireBegin
<1>2. CASE Withdraw(e)
  <2>1. /\ run[e].pc \in {"begun", "aborting"} /\ UNCHANGED <<prov, rec>> /\ CallUnheard(e, "abort")
        /\ Ends(e, "blocked") \/ Ends(e, "indeterminate")
    BY <1>2 DEF Withdraw, CallUnheard
  <2>2. /\ rows' \in [Execs -> RowType] /\ \A f \in Execs \ {e} : rows'[f] = rows[f]
        /\ rows'[e] = rows[e] \/ Moves("abort", rows[e], rows'[e])
        /\ up' = up \/ up' = "faulted"
    BY <2>1, CallFacts DEF Changes
  <2>3. /\ run' \in [Execs -> RunType] /\ \A f \in Execs \ {e} : run'[f] = run[f]
        /\ run'[e].pc = "end" /\ run'[e].res \in {"blocked", "indeterminate"}
    BY <2>1, RunFacts DEF RunPc
  <2>4. rows'[e].phase \in {"intent", "complete"} /\ rows[e].phase = "intent" /\ Dead(e, 1) /\ Dead(e, 2)
    BY <1>0, <2>1, <2>2 DEF LeaseRight, Moves
  <2>5. LeaseRight(e)' /\ (Pending(e)' => Pending(e))
    BY <2>1, <2>3, <2>4 DEF LeaseRight, Known, Pending, Dead, Denied, Leased, Cleaning
  <2> QED
    BY <1>0, <2>1, <2>2, <2>3, <2>5, ExecStep
<1> QED
  BY <1>1, <1>2

\* Asking for the lease.
LEMMA AcquireStep ==
    ASSUME LeaseInv, NEW e \in Execs,
           AcquireOk(e) \/ AcquireMalformed(e) \/ AcquireUncertain(e) \/ AcquireDefinite(e)
    PROVE  LeaseInv'
<1>0. /\ LeaseRight(e) /\ rows \in [Execs -> RowType] /\ run \in [Execs -> RunType] /\ run[e] \in RunType
      /\ run[e].pc = "begun" /\ UNCHANGED <<rows, up, rec>>
  BY DEF LeaseInv, Types, AcquireOk, AcquireMalformed, AcquireUncertain, AcquireDefinite
<1>1. /\ rows[e].phase = "intent" /\ Dead(e, 1) /\ Dead(e, 2) /\ run[e].res # "success" /\ Pending(e)
      /\ \A n \in {1, 2} : ~Denied(e, n)
  BY <1>0 DEF LeaseRight, Pending
<1>2. ASSUME NEW S \in SUBSET ({e} \X {1, 2}), Issue(S) \/ UNCHANGED prov,
             run' \in [Execs -> RunType], \A f \in Execs \ {e} : run'[f] = run[f],
             run'[e].res # "success",
             \/ run'[e].pc = "acquired" /\ <<e, 2>> \notin S
             \/ run'[e].pc = "aborting" /\ UNCHANGED prov
             \/ run'[e].pc \in {"emergency", "end"}
      PROVE  LeaseInv'
  <2>1. /\ prov' \in [Leases -> LeaseState]
        /\ \A f \in Execs \ {e}, n \in {1, 2} : prov'[<<f, n>>] = prov[<<f, n>>]
        /\ \A n \in {1, 2} : <<e, n>> \notin S => prov'[<<e, n>>] = prov[<<e, n>>]
        /\ \A n \in {1, 2} : Denied(e, n)' => Denied(e, n)
    BY <1>2, IssueFacts
  <2>2. LeaseRight(e)' /\ (Pending(e)' => Pending(e))
    BY <1>0, <1>1, <1>2, <2>1 DEF LeaseRight, Known, Pending, Dead, Denied, Leased, Cleaning
  <2> QED
    BY <1>0, <1>2, <2>1, <2>2, ExecStep
<1>3. CASE AcquireOk(e)
  <2>1. {<<e, 1>>} \in SUBSET ({e} \X {1, 2}) /\ <<e, 2>> \notin {<<e, 1>>}
    OBVIOUS
  <2>2. /\ run' \in [Execs -> RunType] /\ \A f \in Execs \ {e} : run'[f] = run[f]
        /\ run'[e].pc = "acquired" /\ run'[e].res = run[e].res
    BY <1>0, <1>3 DEF AcquireOk, RunType, RunPc
  <2> QED
    BY <1>1, <1>2, <1>3, <2>1, <2>2 DEF AcquireOk
<1>4. CASE AcquireMalformed(e)
  <2>1. PICK S \in SUBSET {1, 2}, T \in SUBSET {1, 2} :
            Issue({e} \X S) /\ run' = [run EXCEPT ![e].pc = "emergency", ![e].held = T]
    BY <1>4 DEF AcquireMalformed, Probed
  <2>2. {e} \X S \in SUBSET ({e} \X {1, 2})
    OBVIOUS
  <2>3. /\ run' \in [Execs -> RunType] /\ \A f \in Execs \ {e} : run'[f] = run[f]
        /\ run'[e].pc = "emergency" /\ run'[e].res = run[e].res
    BY <1>0, <2>1 DEF RunType, RunPc
  <2> QED
    BY <1>1, <1>2, <2>1, <2>2, <2>3
<1>5. CASE AcquireUncertain(e)
  <2>1. {<<e, 1>>} \in SUBSET ({e} \X {1, 2})
    OBVIOUS
  <2>2. /\ run' \in [Execs -> RunType] /\ \A f \in Execs \ {e} : run'[f] = run[f]
        /\ run'[e].pc = "end" /\ run'[e].res = "indeterminate"
    BY <1>5, RunFacts DEF AcquireUncertain, RunPc
  <2> QED
    BY <1>2, <1>5, <2>1, <2>2 DEF AcquireUncertain
<1>6. CASE AcquireDefinite(e)
  <2>1. /\ run' \in [Execs -> RunType] /\ \A f \in Execs \ {e} : run'[f] = run[f]
        /\ run'[e].pc = "aborting" /\ run'[e].res = run[e].res
    BY <1>6, RunFacts DEF AcquireDefinite, RunPc
  <2>2. /\ prov' \in [Leases -> LeaseState] /\ Dead(e, 1)' /\ Dead(e, 2)'
        /\ \A f \in Execs \ {e}, n \in {1, 2} : prov'[<<f, n>>] = prov[<<f, n>>]
    BY <1>1, <1>6 DEF AcquireDefinite, LeaseInv, Types, LeaseState, Leases, Dead
  <2>3. LeaseRight(e)' /\ (Pending(e)' => Pending(e))
    BY <1>0, <1>1, <2>1, <2>2 DEF LeaseRight, Known, Pending, Leased, Cleaning
  <2> QED
    BY <1>0, <2>1, <2>2, <2>3, ExecStep
<1> QED
  BY <1>3, <1>4, <1>5, <1>6

\* The journal's steps of a lease that was acquired: recorded, renewed, cleaned up.
LEMMA JournalStep ==
    ASSUME LeaseInv, NEW e \in Execs,
           RecordIssued(e) \/ RenewBegin(e) \/ RenewResult(e) \/ PrepareCleanup(e) \/ FinishCleanup(e)
    PROVE  LeaseInv'
<1>0. /\ LeaseRight(e) /\ UNCHANGED <<prov, rec>> /\ prov \in [Leases -> LeaseState]
      /\ \A n \in {1, 2} : ~Denied(e, n)
  BY DEF LeaseInv, LeaseRight, Types, RecordIssued, RenewBegin, RenewResult, PrepareCleanup, FinishCleanup
<1>1. ASSUME NEW ch \in Changes, CallUnheard(e, ch), run[e].pc \notin {"new", "end"},
             run' \in [Execs -> RunType], \A f \in Execs \ {e} : run'[f] = run[f],
             LeaseRight(e)', Pending(e)' => Pending(e)
      PROVE  LeaseInv'
  <2>1. /\ rows' \in [Execs -> RowType] /\ \A f \in Execs \ {e} : rows'[f] = rows[f]
        /\ up' = up \/ up' = "faulted"
    BY <1>1, CallFacts
  <2> QED
    BY <1>0, <1>1, <2>1, ExecStep
<1>2. ASSUME NEW ch, CallDone(e, ch) PROVE CallUnheard(e, ch)
  BY <1>2 DEF CallUnheard
<1>3. CASE RecordIssued(e)
  <2>1. PICK ch \in {"issued", "renewable"} :
            \/ CallDone(e, ch) /\ To(e, "issued")
            \/ CallUnheard(e, ch) /\ To(e, "emergency")
    BY <1>3 DEF RecordIssued
  <2>2. /\ CallUnheard(e, ch) /\ ch \in Changes /\ run[e].pc = "acquired"
        /\ rows'[e] = rows[e] \/ Moves(ch, rows[e], rows'[e])
        /\ CallDone(e, ch) => Moves(ch, rows[e], rows'[e])
    BY <1>2, <1>3, <2>1, CallFacts DEF RecordIssued, Changes
  <2>3. /\ run' \in [Execs -> RunType] /\ (\A f \in Execs \ {e} : run'[f] = run[f])
        /\ run'[e].res = run[e].res
        /\ \/ CallDone(e, ch) /\ run'[e].pc = "issued"
           \/ run'[e].pc = "emergency"
    BY <2>1, RunFacts DEF RunPc, Leased
  <2>4. rows[e].phase = "intent" /\ Dead(e, 2) /\ run[e].res # "success" /\ Pending(e)
    BY <1>0, <2>2 DEF LeaseRight, Pending
  <2>5. \/ rows'[e] = rows[e] /\ run'[e].pc = "emergency"
        \/ rows'[e].phase = "issued" /\ rows'[e].lease = 1
    BY <2>1, <2>2, <2>3 DEF Moves
  <2>6. LeaseRight(e)' /\ (Pending(e)' => Pending(e))
    BY <1>0, <2>3, <2>4, <2>5 DEF LeaseRight, Known, Pending, Dead, Denied, Leased, Cleaning
  <2> QED
    BY <1>1, <2>2, <2>3, <2>6
<1>4. CASE RenewBegin(e) \/ RenewResult(e) \/ PrepareCleanup(e)
  <2>1. PICK ch \in {"renew", "renewed", "renewed early", "unrenewed", "cleanup"} :
            \/ CallUnheard(e, ch) /\ (To(e, "cleanup") \/ To(e, "emergency"))
            \/ ch \in {"renew", "renewed"} /\ CallDone(e, ch) /\ (To(e, "renewing") \/ To(e, "send"))
            \/ ch = "cleanup" /\ CallDone(e, ch) /\ To(e, "prepared")
    BY <1>4 DEF RenewBegin, RenewResult, PrepareCleanup
  <2>2. /\ CallUnheard(e, ch) /\ ch \in Changes /\ run[e].pc \in Leased
        /\ rows'[e] = rows[e] \/ Moves(ch, rows[e], rows'[e])
        /\ CallDone(e, ch) => Moves(ch, rows[e], rows'[e])
    BY <1>2, <1>4, <2>1, CallFacts DEF RenewBegin, RenewResult, PrepareCleanup, Changes, Leased
  <2>3. /\ run' \in [Execs -> RunType] /\ (\A f \in Execs \ {e} : run'[f] = run[f])
        /\ run'[e].res = run[e].res
        /\ \/ run'[e].pc \in {"cleanup", "emergency", "renewing", "send"}
           \/ ch = "cleanup" /\ CallDone(e, ch) /\ run'[e].pc = "prepared"
    BY <2>1, RunFacts DEF RunPc, Leased, Cleaning
  <2>4. Known(e) /\ rows[e].lease = 1 /\ Dead(e, 2) /\ run[e].res # "success" /\ Pending(e)
    BY <1>0, <2>2 DEF LeaseRight, Pending, Known
  <2>5. /\ Known(e)' /\ rows'[e].lease = 1
        /\ run'[e].pc = "prepared" => rows'[e].phase = "cleanup"
    BY <2>2, <2>3, <2>4 DEF Moves, Known
  <2>6. LeaseRight(e)'
    BY <1>0, <2>3, <2>4, <2>5 DEF LeaseRight, Known, Pending, Dead, Denied, Leased, Cleaning
  <2> QED
    BY <1>1, <2>2, <2>3, <2>4, <2>6 DEF Leased
<1>5. CASE FinishCleanup(e)
  <2>1. PICK ch \in {"revoked", "unrevoked"} :
            /\ CallUnheard(e, ch) /\ run[e].pc = (IF ch = "revoked" THEN "confirmed" ELSE "unconfirmed")
            /\ \/ ch = "revoked" /\ CallDone(e, ch) /\ Ends(e, IF run[e].sent THEN "success" ELSE "failed")
               \/ Ends(e, "indeterminate")
    BY <1>2, <1>5 DEF FinishCleanup
  <2>2. /\ ch \in Changes
        /\ rows'[e] = rows[e] \/ Moves(ch, rows[e], rows'[e])
        /\ CallDone(e, ch) => Moves(ch, rows[e], rows'[e])
    BY <2>1, CallFacts DEF Changes
  <2>3. /\ run' \in [Execs -> RunType] /\ (\A f \in Execs \ {e} : run'[f] = run[f])
        /\ run'[e].pc = "end"
        /\ run'[e].res = "success" => ch = "revoked" /\ CallDone(e, ch)
    BY <2>1, RunFacts DEF RunPc
  <2>4. /\ rows[e].phase = "cleanup" /\ rows[e].lease = 1 /\ Dead(e, 2) /\ Pending(e)
        /\ ch = "revoked" => Dead(e, 1)
    BY <1>0, <2>1 DEF LeaseRight, Pending, Known, Cleaning
  <2>5. /\ rows'[e] = rows[e] \/ (ch = "revoked" /\ rows'[e].phase = "complete")
        /\ run'[e].res = "success" => rows'[e].phase = "complete"
    BY <2>1, <2>2, <2>3 DEF Moves
  <2>6. LeaseRight(e)'
    BY <1>0, <2>3, <2>4, <2>5 DEF LeaseRight, Known, Pending, Dead, Denied, Leased, Cleaning
  <2> QED
    BY <1>1, <2>1, <2>2, <2>3, <2>4, <2>6
<1> QED
  BY <1>3, <1>4, <1>5

\* The action itself, and the revocations.
LEMMA EffectStep ==
    ASSUME LeaseInv, NEW e \in Execs, Emergency(e) \/ SendDynamicAction(e) \/ CleanupRevoke(e)
    PROVE  LeaseInv'
<1>0. /\ LeaseRight(e) /\ rows \in [Execs -> RowType] /\ run \in [Execs -> RunType] /\ run[e] \in RunType
      /\ prov \in [Leases -> LeaseState] /\ UNCHANGED <<rows, up, rec>>
  BY DEF LeaseInv, Types, Emergency, SendDynamicAction, CleanupRevoke
<1>1. Pending(e)' <=> Pending(e)
  BY <1>0 DEF Pending
<1>2. CASE Emergency(e)
  <2>1. /\ run' \in [Execs -> RunType] /\ (\A f \in Execs \ {e} : run'[f] = run[f])
        /\ run'[e].pc = "end" /\ run'[e].res = "indeterminate" /\ run[e].pc = "emergency"
    BY <1>2, RunFacts DEF Emergency, RunPc
  <2>2. Held(e) \in SUBSET ({e} \X {1, 2})
    BY <1>0 DEF Held, RunType
  <2>3. /\ prov' \in [Leases -> LeaseState]
        /\ \A f \in Execs \ {e}, n \in {1, 2} : prov'[<<f, n>>] = prov[<<f, n>>]
        /\ \A n \in {1, 2} : (Dead(e, n) => Dead(e, n)') /\ (Denied(e, n)' => Denied(e, n))
    BY <1>2, <2>2, RevokeFacts DEF Emergency
  <2>4. LeaseRight(e)'
    BY <1>0, <1>1, <2>1, <2>3 DEF LeaseRight, Known, Leased, Cleaning
  <2> QED
    BY <1>0, <1>1, <2>1, <2>3, <2>4, ExecStep
<1>3. CASE SendDynamicAction(e)
  <2>1. PICK ok \in BOOLEAN : run' = [run EXCEPT ![e].pc = "cleanup", ![e].sent = ok]
    BY <1>3 DEF SendDynamicAction
  <2>2. /\ run' \in [Execs -> RunType] /\ (\A f \in Execs \ {e} : run'[f] = run[f])
        /\ run'[e].pc = "cleanup" /\ run'[e].res = run[e].res /\ run[e].pc \in {"send", "issued"}
        /\ UNCHANGED prov
    BY <1>0, <1>3, <2>1 DEF RunType, RunPc, Leased, SendDynamicAction
  <2>3. LeaseRight(e)'
    BY <1>0, <1>1, <2>2 DEF LeaseRight, Known, Dead, Denied, Leased, Cleaning
  <2> QED
    BY <1>0, <1>1, <2>2, <2>3, ExecStep
<1>4. CASE CleanupRevoke(e)
  <2>1. run[e].pc = "prepared" /\ rows[e].phase = "cleanup" /\ rows[e].lease = 1 /\ Dead(e, 2)
    BY <1>0, <1>4 DEF CleanupRevoke, LeaseRight, Cleaning, Known
  <2>2. {<<e, rows[e].lease>>} \in SUBSET ({e} \X {1, 2}) /\ <<e, 1>> \in {<<e, rows[e].lease>>}
    BY <2>1
  <2>3. /\ prov' \in [Leases -> LeaseState]
        /\ \A f \in Execs \ {e}, n \in {1, 2} : prov'[<<f, n>>] = prov[<<f, n>>]
        /\ \A n \in {1, 2} : (Dead(e, n) => Dead(e, n)') /\ (Denied(e, n)' => Denied(e, n))
        /\ RevokeConfirmed(e, {<<e, rows[e].lease>>}) => Dead(e, 1)'
    BY <1>4, <2>2, RevokeFacts DEF CleanupRevoke
  <2>4. /\ run' \in [Execs -> RunType] /\ (\A f \in Execs \ {e} : run'[f] = run[f])
        /\ run'[e].res = run[e].res
        /\ \/ run'[e].pc = "confirmed" /\ RevokeConfirmed(e, {<<e, rows[e].lease>>})
           \/ run'[e].pc = "unconfirmed"
    BY <1>4, RunFacts DEF CleanupRevoke, RunPc, Cleaning
  <2>5. LeaseRight(e)'
    BY <1>0, <1>1, <2>1, <2>3, <2>4 DEF LeaseRight, Known, Leased, Cleaning
  <2> QED
    BY <1>0, <1>1, <2>1, <2>3, <2>4, <2>5, ExecStep
<1> QED
  BY <1>2, <1>3, <1>4

\* A step of a recovery with the registration at hand.
LEMMA RecoverStep ==
    ASSUME LeaseInv, NEW e \in Execs, rec.pc # "off", run' = run,
           rows' \in [Execs -> RowType], \A f \in Execs \ {e} : rows'[f] = rows[f],
           prov' \in [Leases -> LeaseState],
           \A f \in Execs \ {e}, n \in {1, 2} : prov'[<<f, n>>] = prov[<<f, n>>],
           LeaseRight(e)', Pending(e)' => Pending(e), up' = up \/ up' = "faulted",
           rec' = [pc |-> rec'.pc, todo |-> rec'.todo], rec'.pc \in {"next"} \cup Cleaning,
           rec'.pc \in Cleaning => Head(rec'.todo) = e /\ rows'[e].phase = "cleanup",
           rec'.pc = "confirmed" => Dead(e, 1)'
    PROVE  LeaseInv'
<1>1. Types'
  BY DEF LeaseInv, Types
<1>2. ASSUME NEW f \in Execs \ {e} PROVE LeaseRight(f)' /\ (Pending(f)' <=> Pending(f))
  <2>1. LeaseRight(f)
    BY DEF LeaseInv
  <2> QED
    BY <2>1 DEF LeaseRight, Known, Pending, Dead, Denied
<1>3. RecoveryRight'
  BY DEF LeaseInv, RecoveryRight, Cleaning
<1>4. OnePending'
  BY <1>2 DEF LeaseInv, OnePending
<1> QED
  BY <1>1, <1>2, <1>3, <1>4 DEF LeaseInv

\* A recovery's calls and revocations.
LEMMA RecoveryStep ==
    ASSUME LeaseInv, NEW e \in Execs, Recovery(e)
    PROVE  LeaseInv'
<1>0. /\ LeaseRight(e) /\ rows \in [Execs -> RowType] /\ prov \in [Leases -> LeaseState]
      /\ rec = [pc |-> rec.pc, todo |-> rec.todo] /\ run' = run /\ rec.pc # "off" /\ e = Head(rec.todo)
  BY DEF LeaseInv, Types, Recovery, RecoverPrepared, RecoverDeferred, RecoverConfirmed,
         RecoverUnconfirmed, RecoverFinished, RecoverUnfinished
<1>1. run[e].pc \in {"new", "end"}
  BY <1>0 DEF LeaseInv, RecoveryRight
<1>2. CASE RecoverPrepared(e) \/ RecoverDeferred(e)
  <2>1. CallUnheard(e, "cleanup") /\ UNCHANGED prov
    BY <1>2 DEF RecoverPrepared, RecoverDeferred, CallUnheard
  <2>2. /\ rows' \in [Execs -> RowType] /\ \A f \in Execs \ {e} : rows'[f] = rows[f]
        /\ rows'[e] = rows[e] \/ Moves("cleanup", rows[e], rows'[e])
        /\ up' = up \/ up' = "faulted"
        /\ CallDone(e, "cleanup") => Moves("cleanup", rows[e], rows'[e])
    BY <2>1, CallFacts DEF Changes
  <2>3. /\ rec' = [pc |-> rec'.pc, todo |-> rec'.todo]
        /\ \/ rec'.pc = "next"
           \/ CallDone(e, "cleanup") /\ rec'.pc = "prepared" /\ rec'.todo = rec.todo
    BY <1>0, <1>2 DEF RecoverPrepared, RecoverDeferred
  <2>4. \/ rows'[e] = rows[e]
        \/ /\ Known(e) /\ rows'[e].phase = "cleanup" /\ rows'[e].lease = rows[e].lease
    BY <2>2 DEF Moves, Known
  <2>5. rec'.pc = "prepared" => rows'[e].phase = "cleanup"
    BY <2>2, <2>3 DEF Moves
  <2>6. LeaseRight(e)' /\ (Pending(e)' => Pending(e))
    BY <1>0, <1>1, <2>1, <2>4 DEF LeaseRight, Known, Pending, Dead, Denied, Leased, Cleaning
  <2> QED
    BY <1>0, <2>1, <2>2, <2>3, <2>5, <2>6, RecoverStep DEF Cleaning
<1>3. CASE RecoverConfirmed(e) \/ RecoverUnconfirmed(e)
  <2>1. rec.pc = "prepared" /\ UNCHANGED <<rows, up>>
    BY <1>3 DEF RecoverConfirmed, RecoverUnconfirmed
  <2>2. rows[e].phase = "cleanup" /\ rows[e].lease = 1 /\ Dead(e, 2)
    BY <1>0, <2>1 DEF LeaseInv, RecoveryRight, Cleaning, LeaseRight, Known
  <2>3. {<<e, rows[e].lease>>} \in SUBSET ({e} \X {1, 2}) /\ <<e, 1>> \in {<<e, rows[e].lease>>}
    BY <2>2
  <2>4. /\ prov' \in [Leases -> LeaseState]
        /\ \A f \in Execs \ {e}, n \in {1, 2} : prov'[<<f, n>>] = prov[<<f, n>>]
        /\ \A n \in {1, 2} : (Dead(e, n) => Dead(e, n)') /\ (Denied(e, n)' => Denied(e, n))
        /\ RevokeConfirmed(e, {<<e, rows[e].lease>>}) => Dead(e, 1)'
    BY <1>3, <2>3, RevokeFacts DEF RecoverConfirmed, RecoverUnconfirmed
  <2>5. /\ rec' = [pc |-> rec'.pc, todo |-> rec'.todo] /\ rec'.todo = rec.todo
        /\ \/ rec'.pc = "confirmed" /\ RevokeConfirmed(e, {<<e, rows[e].lease>>})
           \/ rec'.pc = "unconfirmed"
    BY <1>0, <1>3 DEF RecoverConfirmed, RecoverUnconfirmed
  <2>6. LeaseRight(e)' /\ (Pending(e)' => Pending(e))
    BY <1>0, <1>1, <2>1, <2>4 DEF LeaseRight, Known, Pending, Leased, Cleaning
  <2> QED
    BY <1>0, <2>1, <2>2, <2>4, <2>5, <2>6, RecoverStep DEF Cleaning
<1>4. CASE RecoverFinished(e) \/ RecoverUnfinished(e)
  <2>1. PICK ch \in {"revoked", "unrevoked"} :
            CallUnheard(e, ch) /\ rec.pc = (IF ch = "revoked" THEN "confirmed" ELSE "unconfirmed")
    BY <1>4 DEF RecoverFinished, RecoverUnfinished, CallUnheard
  <2>2. UNCHANGED prov /\ rec' = [pc |-> "next", todo |-> Tail(rec.todo)]
    BY <1>4 DEF RecoverFinished, RecoverUnfinished
  <2>3. /\ rows' \in [Execs -> RowType] /\ \A f \in Execs \ {e} : rows'[f] = rows[f]
        /\ rows'[e] = rows[e] \/ Moves(ch, rows[e], rows'[e])
        /\ up' = up \/ up' = "faulted"
    BY <2>1, CallFacts DEF Changes
  <2>4. /\ rows[e].phase = "cleanup" /\ rows[e].lease = 1 /\ Dead(e, 2)
        /\ ch = "revoked" => Dead(e, 1)
    BY <1>0, <2>1 DEF LeaseInv, RecoveryRight, Cleaning, LeaseRight, Known
  <2>5. rows'[e] = rows[e] \/ (ch = "revoked" /\ rows'[e].phase = "complete")
    BY <2>1, <2>3 DEF Moves
  <2>6. LeaseRight(e)' /\ (Pending(e)' => Pending(e))
    BY <1>0, <1>1, <2>2, <2>4, <2>5 DEF LeaseRight, Known, Pending, Dead, Denied, Leased, Cleaning
  <2>7. rec'.pc = "next" /\ rec' = [pc |-> rec'.pc, todo |-> rec'.todo]
    BY <2>2
  <2> QED
    BY <1>0, <2>2, <2>3, <2>6, <2>7, RecoverStep DEF Cleaning
<1> QED
  BY <1>2, <1>3, <1>4 DEF Recovery

\* Every step keeps the invariant.
LEMMA LeaseStep ==
    ASSUME LeaseInv, [Next]_vars
    PROVE  LeaseInv'
<1>1. ASSUME NEW e \in Execs, Step(e) PROVE LeaseInv'
  BY <1>1, BeginStep, AcquireStep, JournalStep, EffectStep DEF Step
<1>2. CASE \E e \in Execs : Recovery(e)
  BY <1>2, RecoveryStep
<1>3. ASSUME NEW l \in Leases, Expire(l) PROVE LeaseInv'
  <2>1. UNCHANGED <<rows, run, up, rec>> /\ prov' = [prov EXCEPT ![l] = "gone"]
    BY <1>3 DEF Expire
  <2>2. /\ prov' \in [Leases -> LeaseState]
        /\ \A e \in Execs, n \in {1, 2} : (Dead(e, n) => Dead(e, n)') /\ (Denied(e, n)' => Denied(e, n))
    BY <2>1 DEF LeaseInv, Types, Dead, Denied, Leases, LeaseState
  <2>3. ASSUME NEW e \in Execs PROVE LeaseRight(e)' /\ (Pending(e)' <=> Pending(e))
    <3>1. LeaseRight(e)
      BY DEF LeaseInv
    <3> QED
      BY <2>1, <2>2, <3>1 DEF LeaseRight, Known, Pending
  <2>4. Types' /\ RecoveryRight' /\ OnePending'
    BY <2>1, <2>2, <2>3 DEF LeaseInv, Types, RecoveryRight, OnePending
  <2> QED
    BY <2>3, <2>4 DEF LeaseInv
<1>4. ASSUME UNCHANGED <<rows, prov>>,
             \A e \in Execs : run'[e].pc = run[e].pc \/ run'[e].pc = "end",
             \A e \in Execs : run'[e].res = "success" => run[e].res = "success",
             Types', RecoveryRight'
      PROVE  LeaseInv'
  <2>1. ASSUME NEW e \in Execs PROVE LeaseRight(e)' /\ (Pending(e)' <=> Pending(e))
    <3>1. LeaseRight(e)
      BY DEF LeaseInv
    <3> QED
      BY <1>4, <3>1 DEF LeaseRight, Known, Pending, Dead, Denied, Leased, Cleaning
  <2> QED
    BY <1>4, <2>1 DEF LeaseInv, OnePending
<1>5. CASE RecoveryBatch \/ UnlockOnly \/ Recovered \/ RecoveryFailed \/ Lock
  <2>1. UNCHANGED <<rows, prov, run>>
    BY <1>5 DEF RecoveryBatch, UnlockOnly, Recovered, RecoveryFailed, Lock
  <2>2. rec' = rec \/ rec' = Off \/ rec' = [pc |-> "next", todo |-> Todo]
    BY <1>5 DEF RecoveryBatch, UnlockOnly, Recovered, RecoveryFailed, Lock
  <2>3. Types'
    BY <2>1, <2>2 DEF LeaseInv, Types, Off
  <2>4. RecoveryRight'
    BY <1>5 DEF RecoveryBatch, UnlockOnly, Recovered, RecoveryFailed, Lock, LeaseInv, RecoveryRight, Off,
                Cleaning, Dead, Denied
  <2> QED
    BY <1>4, <2>1, <2>3, <2>4
<1>6. CASE Restart
  <2>1. UNCHANGED <<rows, prov>> /\ up' = "locked" /\ rec' = Off
    BY <1>6 DEF Restart
  <2>2. ASSUME NEW e \in Execs
        PROVE  /\ run'[e] \in RunType /\ run'[e].pc \in {"new", "end"}
               /\ run'[e].pc = run[e].pc \/ run'[e].pc = "end"
               /\ run'[e].res = "success" => run[e].res = "success"
    <3>1. run[e] \in RunType
      BY DEF LeaseInv, Types
    <3>2. run'[e] = IF run[e].pc \in {"new", "end"} THEN run[e]
                    ELSE [run[e] EXCEPT !.pc = "end", !.res = "lost"]
      BY <1>6 DEF Restart
    <3> QED
      BY <3>1, <3>2 DEF RunType, RunPc
  <2>3. run' \in [Execs -> RunType]
    BY <1>6, <2>2 DEF Restart
  <2>4. Types' /\ RecoveryRight'
    BY <2>1, <2>2, <2>3 DEF LeaseInv, Types, Off, RecoveryRight, Cleaning
  <2> QED
    BY <1>4, <2>1, <2>2, <2>4
<1>7. CASE UNCHANGED vars
  BY <1>4, <1>7 DEF vars, LeaseInv, Types, RecoveryRight, Dead, Denied
<1> QED
  BY <1>1, <1>2, <1>3, <1>5, <1>6, <1>7 DEF Next

\* The invariant holds always.
LEMMA AlwaysLease == Spec => []LeaseInv
<1>1. Init => LeaseInv
  <2> SUFFICES ASSUME Init PROVE LeaseInv
    OBVIOUS
  <2>1. Types
    BY DEF Init, Types, LeaseState, NoRow, RowType, Phases, RunType, RunPc, Off
  <2>2. \A e \in Execs : LeaseRight(e) /\ ~Pending(e)
    BY DEF Init, LeaseRight, Known, Pending, Dead, Denied, NoRow, Leases, Leased, Cleaning
  <2>3. RecoveryRight
    BY DEF Init, RecoveryRight, Off, Cleaning
  <2> QED
    BY <2>1, <2>2, <2>3 DEF LeaseInv, OnePending
<1> QED
  BY <1>1, LeaseStep, PTL DEF Spec

\* The registration of a live lease is not complete.
LEMMA LiveIsPending ==
    ASSUME LeaseInv, NEW l \in Leases, prov[l] = "live"
    PROVE  l[1] \in Execs /\ Pending(l[1])
<1>1. PICK e \in Execs, n \in {1, 2} : l = <<e, n>>
  BY DEF Leases
<1>2. LeaseRight(e) /\ ~Dead(e, n) /\ l[1] = e
  BY <1>1 DEF LeaseInv, Dead, Denied
<1> QED
  BY <1>2 DEF LeaseRight

\* A lease that is alive at the provider, and that the provider did not deny in
\* its answer, is in the journal and not complete, whatever was lost, cancelled
\* or crashed since it was asked for: the intent is durable before the request,
\* and only a refusal or a confirmed revocation completes a registration.
THEOREM LiveIsJournaled == Spec => []LiveLeasesAreJournaled
<1>1. LeaseInv => LiveLeasesAreJournaled
  BY LiveIsPending DEF LiveLeasesAreJournaled
<1> QED
  BY <1>1, AlwaysLease, PTL

\* A source has leases alive from one acquisition only, but for those that the
\* provider denied: lease_begin refuses a source with a registration that is
\* not complete.
THEOREM SourcesHaveOneAcquisition == Spec => []OneAcquisitionPerSource
<1>1. LeaseInv => OneAcquisitionPerSource
  <2> SUFFICES ASSUME LeaseInv, NEW k \in Leases, NEW l \in Leases, prov[k] = "live", prov[l] = "live",
                      SourceOf[k[1]] = SourceOf[l[1]]
               PROVE  k[1] = l[1]
    BY DEF OneAcquisitionPerSource
  <2>1. Pending(k[1]) /\ Pending(l[1]) /\ k[1] \in Execs /\ l[1] \in Execs
    BY LiveIsPending
  <2> QED
    BY <2>1 DEF LeaseInv, OnePending
<1> QED
  BY <1>1, AlwaysLease, PTL

\* An execution succeeds only when its leases are gone and the journal says so.
THEOREM SuccessIsRevoked == Spec => []SuccessMeansRevoked
<1>1. LeaseInv => SuccessMeansRevoked
  BY DEF LeaseInv, LeaseRight, SuccessMeansRevoked, Pending, Dead, Denied
<1> QED
  BY <1>1, AlwaysLease, PTL

-----------------------------------------------------------------------------
(***************************************************************************)
(* Short-lived tokens (RevocableTokens): one execution that acquires what  *)
(* it must revoke, for any tokens, any limit and any kind of source.       *)
(* TokenInv relates the tokens alive at the provider to those that are     *)
(* still to be revoked, as long as nothing has failed (LiveRight): what    *)
(* the answer's parser kept covers what was minted (CapturedCovers).       *)
(***************************************************************************)
CONSTANTS Tokens, Limit, Kinds

VARIABLES time, tokenGate, holder, tokens, tokenRows

\* The execution, the provider of its tokens and its audit rows.
Tok == INSTANCE RevocableTokens WITH
    gate <- tokenGate, ex <- holder, prov <- tokens, rows <- tokenRows

\* The instance counts sets as this module does.
LEMMA TokCounts ==
    \A S : (Tok!IsFiniteSet(S) <=> IsFiniteSet(S)) /\ Tok!Cardinality(S) = Cardinality(S)
<1>1. ASSUME NEW S PROVE Tok!IsFiniteSet(S) <=> IsFiniteSet(S)
  BY DEF Tok!IsFiniteSet, IsFiniteSet
<1>2. ASSUME NEW S PROVE Tok!Cardinality(S) = Cardinality(S)
  BY <1>1 DEF Tok!Cardinality, Cardinality
<1>. QED BY <1>1, <1>2

\* What an answer may hold: tokens, and the secret they were asked for with.
TokenValue == Tokens \cup {Tok!Bootstrap}

\* The rank of an occurrence counts those up to it.
LEMMA RankType ==
    ASSUME NEW n \in Nat, NEW I \in SUBSET (1..n), NEW i \in I
    PROVE  /\ IsFiniteSet(I) /\ Cardinality(I) \in Nat
           /\ Tok!Rank(I, i) \in 1..Cardinality(I)
           /\ IsFiniteSet({j \in I : j <= i})
<1>1. IsFiniteSet(1..n) BY FS_Interval
<1>2. IsFiniteSet(I) /\ Cardinality(I) \in Nat BY <1>1, FS_Subset, FS_CardinalityType
<1>3. {j \in I : j <= i} \in SUBSET I OBVIOUS
<1>4. /\ IsFiniteSet({j \in I : j <= i})
      /\ Cardinality({j \in I : j <= i}) <= Cardinality(I)
      /\ Cardinality({j \in I : j <= i}) \in Nat
  BY <1>2, <1>3, FS_Subset, FS_CardinalityType
<1>5. i \in {j \in I : j <= i} OBVIOUS
<1>6. Cardinality({j \in I : j <= i}) # 0
  BY <1>4, <1>5, FS_EmptySet
<1>. QED BY <1>2, <1>4, <1>6, TokCounts DEF Tok!Rank

\* Two occurrences have different ranks,
LEMMA RankIsInjective ==
    ASSUME NEW n \in Nat, NEW I \in SUBSET (1..n), NEW i \in I, NEW j \in I, Tok!Rank(I, i) = Tok!Rank(I, j)
    PROVE  i = j
<1>. DEFINE P(k) == {m \in I : m <= k}
<1>1. ASSUME NEW a \in I, NEW b \in I, a <= b, Tok!Rank(I, a) = Tok!Rank(I, b) PROVE a = b
  <2>1. IsFiniteSet(P(b)) BY RankType
  <2>0. I \subseteq Nat OBVIOUS
  <2>2. P(a) \in SUBSET P(b)
    <3>. SUFFICES ASSUME NEW m \in P(a) PROVE m \in P(b) OBVIOUS
    <3>1. m \in Nat /\ a \in Nat /\ b \in Nat /\ m <= a BY <2>0
    <3>. QED BY <1>1, <3>1
  <2>3. Cardinality(P(b)) = Cardinality(P(a)) BY <1>1, TokCounts DEF Tok!Rank
  <2>. HIDE DEF P
  <2>4. P(b) = P(a) BY <2>1, <2>2, <2>3, FS_Subset
  <2>. USE DEF P
  <2>5. b \in P(b) OBVIOUS
  <2>. QED BY <2>4, <2>5, <1>1
<1>2. i <= j \/ j <= i OBVIOUS
<1>. QED BY <1>1, <1>2

\* and every rank is that of an occurrence: a set that maps injectively into one
\* of its own size is mapped onto it.
LEMMA RankIsOnto ==
    ASSUME NEW n \in Nat, NEW I \in SUBSET (1..n), NEW m \in 1..Cardinality(I)
    PROVE  \E i \in I : Tok!Rank(I, i) = m
<1>. DEFINE f == [i \in I |-> Tok!Rank(I, i)]
<1>1. IsFiniteSet(I) /\ Cardinality(I) \in Nat
  <2>1. IsFiniteSet(1..n) BY FS_Interval
  <2>. QED BY <2>1, FS_Subset, FS_CardinalityType
<1>2. IsFiniteSet(1..Cardinality(I)) /\ Cardinality(1..Cardinality(I)) = Cardinality(I)
  BY <1>1, FS_Interval
<1>3. f \in [I -> 1..Cardinality(I)] BY RankType
<1>4. \A a, b \in I : f[a] = f[b] => a = b BY RankIsInjective
<1>. HIDE DEF f
<1>5. f \in Injection(I, 1..Cardinality(I)) BY <1>3, <1>4 DEF Injection, IsInjective
<1>6. f \in Surjection(I, 1..Cardinality(I)) BY <1>1, <1>2, <1>5, FS_Injection
<1>7. \E i \in I : f[i] = m BY <1>6 DEF Surjection
<1>. QED BY <1>7 DEF f

\* InOrder therefore lists exactly the occurrences chosen.
LEMMA InOrderCovers ==
    ASSUME NEW s \in Seq(TokenValue), NEW I \in SUBSET DOMAIN s
    PROVE  /\ Tok!InOrder(s, I) \in Seq(TokenValue)
           /\ Tok!ToSet(Tok!InOrder(s, I)) = {s[i] : i \in I}
<1>. DEFINE g(m) == CHOOSE i \in I : Tok!Rank(I, i) = m
            t == Tok!InOrder(s, I)
<1>0. Len(s) \in Nat /\ DOMAIN s = 1..Len(s) OBVIOUS
<1>1. Cardinality(I) \in Nat
  <2>1. IsFiniteSet(1..Len(s)) BY <1>0, FS_Interval
  <2>. QED BY <1>0, <2>1, FS_Subset, FS_CardinalityType
<1>2. \A m \in 1..Cardinality(I) : g(m) \in I /\ Tok!Rank(I, g(m)) = m
  BY <1>0, RankIsOnto
<1>3. t = [m \in 1..Cardinality(I) |-> s[g(m)]] BY TokCounts DEF Tok!InOrder
<1>. HIDE DEF g, t
<1>4. \A m \in 1..Cardinality(I) : s[g(m)] \in TokenValue BY <1>0, <1>2
<1>5. t \in Seq(TokenValue) BY <1>1, <1>3, <1>4
<1>6. DOMAIN t = 1..Cardinality(I) BY <1>3
<1>7. ASSUME NEW i \in I PROVE s[i] \in Tok!ToSet(t)
  <2>1. Tok!Rank(I, i) \in 1..Cardinality(I) BY <1>0, RankType
  <2>2. g(Tok!Rank(I, i)) = i BY <1>0, <1>2, <2>1, RankIsInjective
  <2>3. t[Tok!Rank(I, i)] = s[i] BY <1>3, <2>1, <2>2
  <2>. QED BY <1>6, <2>1, <2>3 DEF Tok!ToSet
<1>8. ASSUME NEW m \in DOMAIN t PROVE t[m] \in {s[i] : i \in I}
  BY <1>2, <1>3, <1>6
<1>9. Tok!ToSet(t) = {s[i] : i \in I} BY <1>7, <1>8 DEF Tok!ToSet
<1>. QED BY <1>5, <1>9 DEF t

\* The answers that are looked at hold up to three values.
LEMMA BodyFacts ==
    ASSUME NEW body \in Tok!Bodies
    PROVE  /\ body \in Seq(TokenValue) /\ Len(body) <= 3
<1>0. CASE body = <<>> BY <1>0
<1>1. CASE body = <<Tok!Bootstrap>> BY <1>1 DEF TokenValue
<1>2. CASE \E t \in Tokens : body = <<t>> BY <1>2 DEF TokenValue
<1>3. CASE \E t, u \in Tokens : body = <<t, u>> BY <1>3 DEF TokenValue
<1>4. CASE \E t \in Tokens : body = <<Tok!Bootstrap, t>> BY <1>4 DEF TokenValue
<1>5. CASE \E t, u, v \in Tokens : body = <<t, u, v>> BY <1>5 DEF TokenValue
<1>. QED BY <1>0, <1>1, <1>2, <1>3, <1>4, <1>5 DEF Tok!Bodies

\* Every value of an answer has its first occurrence.
LEMMA FirstCovers ==
    ASSUME NEW body \in Tok!Bodies
    PROVE  /\ Tok!First(body) \in SUBSET DOMAIN body
           /\ \A i \in DOMAIN body : \E j \in Tok!First(body) : body[j] = body[i]
<1>1. body \in Seq(TokenValue) /\ Len(body) <= 3 BY BodyFacts
<1>2. DOMAIN body \in SUBSET {1, 2, 3} /\ DOMAIN body = 1..Len(body) BY <1>1
<1>3. ASSUME NEW i \in DOMAIN body PROVE \E j \in Tok!First(body) : body[j] = body[i]
  <2>1. CASE i = 1
    <3>1. 1 \in Tok!First(body) BY <1>2, <2>1 DEF Tok!First
    <3>. QED BY <2>1, <3>1
  <2>2. CASE i = 2
    <3>1. 1 \in DOMAIN body /\ 1 \in Tok!First(body) BY <1>1, <1>2, <2>2 DEF Tok!First
    <3>2. CASE body[2] = body[1] BY <2>2, <3>1, <3>2
    <3>3. CASE body[2] # body[1]
      <4>1. 2 \in Tok!First(body) BY <1>2, <2>2, <3>3 DEF Tok!First
      <4>. QED BY <2>2, <4>1
    <3>. QED BY <3>2, <3>3
  <2>3. CASE i = 3
    <3>1. 1 \in DOMAIN body /\ 2 \in DOMAIN body /\ 1 \in Tok!First(body) BY <1>1, <1>2, <2>3
        DEF Tok!First
    <3>2. CASE body[3] = body[1] BY <2>3, <3>1, <3>2
    <3>3. CASE body[3] # body[1] /\ body[3] = body[2]
      <4>1. 2 \in Tok!First(body) BY <1>2, <3>1, <3>3 DEF Tok!First
      <4>. QED BY <2>3, <3>3, <4>1
    <3>4. CASE body[3] # body[1] /\ body[3] # body[2]
      <4>1. 3 \in Tok!First(body) BY <1>2, <2>3, <3>4 DEF Tok!First
      <4>. QED BY <2>3, <4>1
    <3>. QED BY <3>2, <3>3, <3>4
  <2>. QED BY <1>2, <2>1, <2>2, <2>3
<1>. QED BY <1>3 DEF Tok!First

\* What is kept of an answer is a sequence of such values.
LEMMA CapturedType ==
    ASSUME NEW body \in Tok!Bodies, holder.kind \in {"approle", "keycloak", "list", "write"}
    PROVE  Tok!Captured(body) \in Seq(TokenValue)
<1>1. body \in Seq(TokenValue) BY BodyFacts
<1>2. Tok!First(body) \in SUBSET DOMAIN body BY FirstCovers
<1>3. Tok!NotBootstrap(body, Tok!First(body)) \in SUBSET DOMAIN body BY <1>2
    DEF Tok!NotBootstrap
<1>4. Tok!UpToLimit(Tok!First(body)) \in SUBSET DOMAIN body BY <1>2 DEF Tok!UpToLimit
<1>5. Tok!NotBootstrap(body, Tok!UpToLimit(Tok!First(body))) \in SUBSET DOMAIN body BY <1>4
    DEF Tok!NotBootstrap
<1>6. Tok!LoginProbe(body) \in Seq(TokenValue) BY <1>1, <1>3, InOrderCovers DEF Tok!LoginProbe
<1>7. Tok!KeycloakTokens(body) \in Seq(TokenValue) BY <1>1, <1>4, InOrderCovers
    DEF Tok!KeycloakTokens
<1>8. Tok!ProbeTokens(body) \in Seq(TokenValue) BY <1>1, <1>5, InOrderCovers DEF Tok!ProbeTokens
<1>. QED BY <1>6, <1>7, <1>8 DEF Tok!Captured, Tok!Github

\* What is kept covers what was minted, always for an AppRole login
\* (login_probe keeps all), and for the others if the answer was valid
\* (captured_tokens and probe_tokens keep up to Limit).
LEMMA CapturedCovers ==
    ASSUME Tok!TokenAssumption,
           NEW body \in Tok!Bodies, NEW form, holder.kind \in {"approle", "keycloak", "list", "write"},
           holder.kind = "approle" \/ Tok!Valid(body, form)
    PROVE  Tok!ToSet(body) \ {Tok!Bootstrap} \subseteq Tok!ToSet(Tok!Captured(body))
<1>1. body \in Seq(TokenValue) BY BodyFacts
<1>2. Tok!First(body) \in SUBSET DOMAIN body BY FirstCovers
<1>3. CASE holder.kind = "approle"
  <2>. DEFINE I == Tok!NotBootstrap(body, Tok!First(body))
  <2>1. I \in SUBSET DOMAIN body BY <1>2 DEF Tok!NotBootstrap
  <2>2. Tok!ToSet(Tok!LoginProbe(body)) = {body[i] : i \in I} BY <1>1, <2>1, InOrderCovers
      DEF Tok!LoginProbe
  <2>3. ASSUME NEW i \in DOMAIN body, body[i] # Tok!Bootstrap PROVE body[i] \in {body[j] : j \in I}
    <3>1. PICK j \in Tok!First(body) : body[j] = body[i] BY FirstCovers
    <3>2. j \in I BY <2>3, <3>1 DEF Tok!NotBootstrap
    <3>. QED BY <3>1, <3>2
  <2>4. Tok!Captured(body) = Tok!LoginProbe(body) BY <1>3 DEF Tok!Captured, Tok!Github
  <2>. HIDE DEF I
  <2>. QED BY <2>2, <2>3, <2>4 DEF Tok!ToSet
<1>4. CASE holder.kind = "keycloak"
  <2>. DEFINE I == Tok!UpToLimit(Tok!First(body))
  <2>1. Len(body) = 1 BY <1>4 DEF Tok!Valid, Tok!KeycloakValid, Tok!Github
  <2>2. DOMAIN body = {1} BY <1>1, <2>1
  <2>3. Tok!First(body) = {1} BY <2>2 DEF Tok!First
  <2>4. {j \in {1} : j <= 1} = {1} OBVIOUS
  <2>5. Tok!Rank({1}, 1) = 1 BY <2>4, FS_Singleton, TokCounts DEF Tok!Rank
  <2>6. 1 <= Limit BY DEF Tok!TokenAssumption
  <2>7. I = {1} BY <2>3, <2>5, <2>6 DEF Tok!UpToLimit
  <2>8. Tok!ToSet(Tok!KeycloakTokens(body)) = {body[i] : i \in I}
    BY <1>1, <2>2, <2>7, InOrderCovers DEF Tok!KeycloakTokens
  <2>9. Tok!Captured(body) = Tok!KeycloakTokens(body) BY <1>4 DEF Tok!Captured, Tok!Github
  <2>. QED BY <2>2, <2>7, <2>8, <2>9 DEF Tok!ToSet
<1>5. CASE holder.kind \in Tok!Github
  <2>1. Tok!Captured(body) = Tok!ProbeTokens(body) BY <1>5 DEF Tok!Captured, Tok!Github
  <2>2. Tok!ProbeTokens(body) = body BY <1>5 DEF Tok!Valid, Tok!GithubValid, Tok!Github
  <2>. QED BY <2>1, <2>2
<1>. QED BY <1>3, <1>4, <1>5 DEF Tok!Github

\* The places of an execution before a token is asked for, those before its
\* business request, and those with tokens in hand.
Early == {"new", "authorized", "owned"}
Unsent == Early \cup {"minted", "issued", "read"}
Owning == {"minted", "issued", "read", "waiting", "used", "revoking", "closing"}
\* The record of the execution.
Holder == [kind : {"approle", "keycloak", "list", "write"}, pc : Early \cup Owning \cup {"done"},
           held : Seq(TokenValue), todo : Seq(TokenValue), tried : SUBSET TokenValue,
           res : {"ok", "unknown", "retry", "final"}, sends : 0..2, admitted : BOOLEAN,
           refused : BOOLEAN, clean : BOOLEAN, reply : {"none", "ok", "retry", "final"}]

\* The names of its rows.
RowName == {"intent", "issued", "reading", "resolved", "cleanup", "revoked", "unrevoked"} \cup Tok!Terminals

\* The types.
TokenTypes ==
    /\ time \in {"business", "cleanup", "over"} /\ tokenGate \in {"open", "closed", "cancelled"}
    /\ tokens \in [Tokens -> {"none", "live", "gone"}]
    /\ tokenRows \in Seq(RowName) /\ holder \in Holder /\ holder.kind \in Kinds

\* Each token that was kept is still to be revoked or was tried; before the
\* provider is asked, nothing lives.
HeldRight ==
    /\ holder.tried \cup Tok!ToSet(holder.todo) = Tok!ToSet(holder.held)
    /\ Len(holder.todo) <= Len(holder.held)
    /\ holder.pc \in {"closing", "done"} => holder.todo = <<>>
    /\ holder.pc \in Early => holder.held = <<>> /\ holder.todo = <<>> /\ Tok!Live = {}

\* The business request is sent on the way to "used"; only a list waits to be
\* sent again, and it has asked with a valid token.
SentRight ==
    /\ holder.pc \in Unsent => holder.sends = 0 /\ ~holder.admitted
    /\ holder.pc = "waiting" => holder.kind = "list" /\ holder.res = "ok"

\* While no revocation has failed, what lives at the provider is still to be
\* revoked, unless the answer was not understood.
LiveRight ==
    /\ holder.pc \in Owning /\ holder.clean /\ (holder.kind = "approle" \/ holder.res # "unknown")
    => Tok!Live \subseteq Tok!ToSet(holder.todo)

\* What the rows say at each place; exactly one terminal row, at the end.
RowsRight ==
    /\ holder.pc = "closing" /\ holder.clean => Tok!Has("revoked")
    /\ holder.pc # "done" => holder.reply = "none" /\ \A i \in DOMAIN tokenRows : tokenRows[i] \notin Tok!Terminals
    /\ holder.pc = "done" => \E i \in DOMAIN tokenRows : {j \in DOMAIN tokenRows : tokenRows[j] \in Tok!Terminals} = {i}

\* The inductive invariant: none of the three promises at its end is inductive
\* without what the earlier places have established.
TokenInv ==
    /\ TokenTypes /\ HeldRight /\ SentRight /\ LiveRight /\ RowsRight
    /\ Tok!SuccessMeansRevoked /\ Tok!TerminalTellsTokens /\ Tok!NoRetryAfterEffect

\* It holds when the execution starts.
LEMMA TokenInit ==
    ASSUME Tok!TokenAssumption
    PROVE  Tok!Init => TokenInv
<1>. SUFFICES ASSUME Tok!Init PROVE TokenInv OBVIOUS
<1>1. PICK k \in Kinds :
          holder = [kind |-> k, pc |-> "new", held |-> <<>>, todo |-> <<>>, tried |-> {},
                res |-> "ok", sends |-> 0, admitted |-> FALSE, refused |-> FALSE,
                clean |-> TRUE, reply |-> "none"]
  BY DEF Tok!Init
<1>2. k \in {"approle", "keycloak", "list", "write"} BY DEF Tok!TokenAssumption
<1>3. holder \in Holder
  <2>1. <<>> \in Seq(TokenValue) OBVIOUS
  <2>. QED BY <1>1, <1>2, <2>1 DEF Holder, Early, Owning
<1>4. TokenTypes BY <1>1, <1>3 DEF Tok!Init, TokenTypes
<1>5. tokenRows = <<>> /\ Tok!Live = {} BY DEF Tok!Init, Tok!Live
<1>6. Tok!ToSet(<<>>) = {} BY DEF Tok!ToSet
<1>7. HeldRight /\ SentRight /\ LiveRight
  BY <1>1, <1>5, <1>6 DEF HeldRight, SentRight, LiveRight, Owning, Early
<1>8. RowsRight BY <1>1, <1>5 DEF RowsRight, Tok!Terminals
<1>9. Tok!SuccessMeansRevoked /\ Tok!TerminalTellsTokens /\ Tok!NoRetryAfterEffect
  BY <1>1, <1>5 DEF Tok!SuccessMeansRevoked, Tok!TerminalTellsTokens, Tok!NoRetryAfterEffect,
      Tok!Has
<1>. QED BY <1>4, <1>7, <1>8, <1>9 DEF TokenInv

\* Rows that are not terminal were added, or none.
RowsOn ==
    /\ tokenRows' \in Seq(RowName)
    /\ (\A i \in DOMAIN tokenRows : tokenRows[i] \notin Tok!Terminals) =>
           (\A i \in DOMAIN tokenRows' : tokenRows'[i] \notin Tok!Terminals)

\* One row is added,
LEMMA RowAdded ==
    ASSUME tokenRows \in Seq(RowName), NEW r \in RowName \ Tok!Terminals, Tok!Row(r)
    PROVE  RowsOn /\ Tok!Has(r)'
<1>1. /\ tokenRows' \in Seq(RowName) /\ DOMAIN tokenRows' = 1..(Len(tokenRows) + 1) /\ Len(tokenRows) \in Nat
      /\ \A i \in DOMAIN tokenRows : tokenRows'[i] = tokenRows[i]
      /\ DOMAIN tokenRows = 1..Len(tokenRows)
      /\ tokenRows'[Len(tokenRows) + 1] = r
  BY DEF Tok!Row
<1>2. Len(tokenRows) + 1 \in DOMAIN tokenRows' BY <1>1
<1>3. \A i \in DOMAIN tokenRows' : i \in DOMAIN tokenRows \/ tokenRows'[i] = r BY <1>1
<1>4. RowsOn BY <1>1, <1>3 DEF RowsOn
<1>5. Tok!Has(r)' BY <1>1, <1>2 DEF Tok!Has
<1>. QED BY <1>4, <1>5

\* or those of the read of the secret (vault_source).
LEMMA RowsAdded ==
    ASSUME tokenRows \in Seq(RowName), NEW more \in {<<>>, <<"reading">>, <<"reading", "resolved">>},
           tokenRows' = tokenRows \o more
    PROVE  RowsOn
<1>1. /\ more \in Seq(RowName) /\ Len(more) \in Nat /\ DOMAIN more = 1..Len(more)
      /\ \A i \in 1..Len(more) : more[i] \notin Tok!Terminals
  <2>1. CASE more = <<>> BY <2>1
  <2>2. CASE more = <<"reading">> BY <2>2 DEF RowName, Tok!Terminals
  <2>3. CASE more = <<"reading", "resolved">> BY <2>3 DEF RowName, Tok!Terminals
  <2>. QED BY <2>1, <2>2, <2>3
<1>2. /\ tokenRows' \in Seq(RowName) /\ Len(tokenRows') = Len(tokenRows) + Len(more)
      /\ \A i \in 1..Len(tokenRows) : tokenRows'[i] = tokenRows[i]
      /\ \A i \in 1..Len(more) : tokenRows'[Len(tokenRows) + i] = more[i]
      /\ DOMAIN tokenRows = 1..Len(tokenRows) /\ DOMAIN tokenRows' = 1..(Len(tokenRows) + Len(more))
      /\ Len(tokenRows) \in Nat
  BY <1>1
<1>3. ASSUME NEW i \in DOMAIN tokenRows', \A j \in DOMAIN tokenRows : tokenRows[j] \notin Tok!Terminals
      PROVE  tokenRows'[i] \notin Tok!Terminals
  <2>1. CASE i <= Len(tokenRows) BY <1>2, <1>3, <2>1
  <2>2. CASE i > Len(tokenRows)
    <3>1. i - Len(tokenRows) \in 1..Len(more) /\ Len(tokenRows) + (i - Len(tokenRows)) = i
        BY <1>1, <1>2, <2>2
    <3>. QED BY <1>1, <1>2, <3>1
  <2>. QED BY <1>2, <2>1, <2>2
<1>. QED BY <1>2, <1>3 DEF RowsOn

\* A step that only goes on: tokens and their list stay.
LEMMA TokenMove ==
    ASSUME TokenInv, holder.pc # "done", holder' \in Holder, holder'.pc # "done",
           holder'.kind = holder.kind, holder'.held = holder.held, holder'.todo = holder.todo, holder'.tried = holder.tried,
           holder'.reply = holder.reply,
           UNCHANGED <<time, tokenGate, tokens>>,
           RowsOn,
           holder'.pc \in Early => holder.pc \in Early,
           holder'.pc \in Owning => holder.pc \in Owning,
           holder'.pc \in Unsent => holder.pc \in Unsent /\ holder'.sends = holder.sends /\ holder'.admitted = holder.admitted,
           holder'.pc = "waiting" => holder.kind = "list" /\ holder'.res = "ok",
           holder'.pc = "closing" =>
               holder.todo = <<>> /\ (holder'.clean => Tok!Has("revoked")'),
           holder'.clean => holder.clean,
           holder.kind # "approle" /\ holder'.res # "unknown" => holder.res # "unknown"
    PROVE  TokenInv'
<1>1. TokenTypes /\ HeldRight /\ SentRight /\ LiveRight /\ RowsRight BY DEF TokenInv
<1>2. Tok!Live' = Tok!Live BY DEF Tok!Live
<1>3. /\ tokenRows' \in Seq(RowName)
      /\ \A i \in DOMAIN tokenRows' : tokenRows'[i] \notin Tok!Terminals
  BY <1>1 DEF RowsOn, TokenTypes, RowsRight
<1>4. TokenTypes' BY <1>1, <1>3 DEF TokenTypes
<1>5. HeldRight' BY <1>1, <1>2 DEF HeldRight
<1>6. SentRight' BY <1>1 DEF SentRight
<1>7. LiveRight' BY <1>1, <1>2 DEF LiveRight
<1>8. RowsRight' BY <1>1, <1>3 DEF RowsRight
<1>9. ~Tok!Has("finished")' /\ holder'.reply = "none"
  BY <1>1, <1>3 DEF RowsRight, Tok!Has, Tok!Terminals
<1>10. (Tok!SuccessMeansRevoked /\ Tok!TerminalTellsTokens /\ Tok!NoRetryAfterEffect)'
  BY <1>9 DEF Tok!SuccessMeansRevoked, Tok!TerminalTellsTokens, Tok!NoRetryAfterEffect
<1>. QED BY <1>4, <1>5, <1>6, <1>7, <1>8, <1>10 DEF TokenInv

\* A terminal row is added to rows that have none.
LEMMA OneTerminal ==
    ASSUME tokenRows \in Seq(RowName), \A i \in DOMAIN tokenRows : tokenRows[i] \notin Tok!Terminals,
           NEW r \in Tok!Terminals, Tok!Row(r)
    PROVE  /\ tokenRows' \in Seq(RowName)
           /\ \E i \in DOMAIN tokenRows' : {j \in DOMAIN tokenRows' : tokenRows'[j] \in Tok!Terminals} = {i}
           /\ \A q : Tok!Has(q)' <=> Tok!Has(q) \/ q = r
<1>0. r \in RowName BY DEF RowName
<1>1. /\ tokenRows' \in Seq(RowName) /\ DOMAIN tokenRows' = 1..(Len(tokenRows) + 1) /\ Len(tokenRows) \in Nat
      /\ \A i \in DOMAIN tokenRows : tokenRows'[i] = tokenRows[i]
      /\ DOMAIN tokenRows = 1..Len(tokenRows)
      /\ tokenRows'[Len(tokenRows) + 1] = r
  BY <1>0 DEF Tok!Row
<1>2. {j \in DOMAIN tokenRows' : tokenRows'[j] \in Tok!Terminals} = {Len(tokenRows) + 1}
  BY <1>1
<1>3. Len(tokenRows) + 1 \in DOMAIN tokenRows' BY <1>1
<1>4. ASSUME NEW q PROVE Tok!Has(q)' <=> Tok!Has(q) \/ q = r
  BY <1>1, <1>3 DEF Tok!Has
<1>. QED BY <1>1, <1>2, <1>3, <1>4

\* An end with its row and its reply, under what each of them promises.
LEMMA TokenEnds ==
    ASSUME TokenInv, holder.pc # "done", holder.todo = <<>>,
           NEW row \in Tok!Terminals, NEW reply \in {"ok", "retry", "final"}, Tok!Ends(row, reply),
           row # "indeterminate" => Tok!Live = {},
           row = "blocked" => ~holder.admitted,
           row = "finished" => Tok!Has("revoked"),
           reply = "ok" => row = "finished",
           reply = "retry" => Tok!Live = {} /\ ~holder.admitted
    PROVE  TokenInv'
<1>1. TokenTypes /\ HeldRight /\ SentRight /\ LiveRight /\ RowsRight BY DEF TokenInv
<1>2. PICK r \in {reply, IF Tok!Before(holder.pc) THEN "retry" ELSE "final"} :
          holder' = [holder EXCEPT !.pc = "done", !.reply = r]
  BY DEF Tok!Ends
<1>3. Tok!Row(row) /\ UNCHANGED <<time, tokenGate, tokens>> BY DEF Tok!Ends
<1>4. Tok!Live' = Tok!Live BY <1>3 DEF Tok!Live
<1>5. holder' \in Holder /\ holder'.kind = holder.kind /\ holder'.held = holder.held /\ holder'.todo = holder.todo
      /\ holder'.tried = holder.tried /\ holder'.admitted = holder.admitted /\ holder'.pc = "done" /\ holder'.reply = r
  BY <1>1, <1>2 DEF TokenTypes, Holder
<1>6. /\ tokenRows' \in Seq(RowName)
      /\ \E i \in DOMAIN tokenRows' : {j \in DOMAIN tokenRows' : tokenRows'[j] \in Tok!Terminals} = {i}
      /\ \A q : Tok!Has(q)' <=> Tok!Has(q) \/ q = row
  BY <1>1, <1>3, OneTerminal DEF TokenTypes, RowsRight
<1>7. \A q \in Tok!Terminals : ~Tok!Has(q) BY <1>1 DEF RowsRight, Tok!Has
<1>8. r = "retry" => Tok!Live = {} /\ ~holder.admitted
  BY <1>1, <1>2 DEF Tok!Before, HeldRight, SentRight, Early, Unsent
<1>9. r = "ok" => row = "finished" BY <1>2
<1>10. TokenTypes' BY <1>1, <1>3, <1>5, <1>6 DEF TokenTypes
<1>11. HeldRight' BY <1>1, <1>5 DEF HeldRight, Early
<1>12. SentRight' /\ LiveRight' BY <1>5 DEF SentRight, LiveRight, Unsent, Early, Owning
<1>13. RowsRight' BY <1>5, <1>6 DEF RowsRight
<1>14. Tok!SuccessMeansRevoked'
  BY <1>4, <1>5, <1>6, <1>7, <1>9 DEF Tok!SuccessMeansRevoked, Tok!Terminals
<1>15. Tok!TerminalTellsTokens'
  BY <1>4, <1>5, <1>6, <1>7 DEF Tok!TerminalTellsTokens, Tok!Terminals
<1>16. Tok!NoRetryAfterEffect' BY <1>4, <1>5, <1>8 DEF Tok!NoRetryAfterEffect
<1>. QED BY <1>10, <1>11, <1>12, <1>13, <1>14, <1>15, <1>16 DEF TokenInv
\* The steps, one by one: the intent,
LEMMA AuthorizeKeeps ==
    ASSUME TokenInv, Tok!Authorize
    PROVE  TokenInv'
<1>1. TokenTypes /\ HeldRight /\ SentRight /\ holder.pc = "new" BY DEF TokenInv, Tok!Authorize
<1>2. holder.todo = <<>> /\ Tok!Live = {} /\ ~holder.admitted
  BY <1>1 DEF HeldRight, SentRight, Early, Unsent
<1>3. CASE \E r \in {"retry", "final"} : Tok!Ends("blocked", r)
  BY <1>1, <1>2, <1>3, TokenEnds DEF Tok!Terminals
<1>4. CASE Tok!To("authorized") /\ UNCHANGED <<time, tokenGate, tokens>> /\ (tokenRows' = tokenRows \/ Tok!Row("intent"))
  <2>1. /\ holder' \in Holder /\ holder'.pc = "authorized" /\ holder'.kind = holder.kind /\ holder'.held = holder.held
        /\ holder'.todo = holder.todo /\ holder'.tried = holder.tried /\ holder'.reply = holder.reply
        /\ holder'.sends = holder.sends /\ holder'.admitted = holder.admitted /\ holder'.clean = holder.clean
        /\ holder'.res = holder.res
    BY <1>1, <1>4 DEF TokenTypes, Holder, Tok!To, Early
  <2>2. RowsOn
    <3>1. CASE tokenRows' = tokenRows BY <1>1, <3>1 DEF TokenTypes, RowsOn
    <3>2. CASE Tok!Row("intent") BY <1>1, <3>2, RowAdded DEF TokenTypes, RowName, Tok!Terminals
    <3>. QED BY <1>4, <3>1, <3>2
  <2>. QED BY <1>1, <1>4, <2>1, <2>2, TokenMove DEF Early, Unsent, Owning
<1>. QED BY <1>3, <1>4 DEF Tok!Authorize

\* the admission of the remote effect,
LEMMA BeginRemoteKeeps ==
    ASSUME TokenInv, Tok!BeginRemote
    PROVE  TokenInv'
<1>1. TokenTypes /\ HeldRight /\ SentRight /\ holder.pc = "authorized" BY DEF TokenInv,
    Tok!BeginRemote
<1>2. holder.todo = <<>> /\ Tok!Live = {} /\ ~holder.admitted
  BY <1>1 DEF HeldRight, SentRight, Early, Unsent
<1>3. CASE \E r \in {"retry", "final"} : Tok!Ends("blocked", r)
  BY <1>1, <1>2, <1>3, TokenEnds DEF Tok!Terminals
<1>4. CASE Tok!To("owned") /\ UNCHANGED <<time, tokenGate, tokens, tokenRows>>
  <2>1. /\ holder' \in Holder /\ holder'.pc = "owned" /\ holder'.kind = holder.kind /\ holder'.held = holder.held
        /\ holder'.todo = holder.todo /\ holder'.tried = holder.tried /\ holder'.reply = holder.reply
        /\ holder'.sends = holder.sends /\ holder'.admitted = holder.admitted /\ holder'.clean = holder.clean
        /\ holder'.res = holder.res
    BY <1>1, <1>4 DEF TokenTypes, Holder, Tok!To, Early
  <2>2. RowsOn BY <1>1, <1>4 DEF TokenTypes, RowsOn
  <2>. QED BY <1>1, <1>4, <2>1, <2>2, TokenMove DEF Early, Unsent, Owning
<1>. QED BY <1>3, <1>4 DEF Tok!BeginRemote

\* a request that was not sent,
LEMMA NotSentKeeps ==
    ASSUME TokenInv, Tok!NotSent
    PROVE  TokenInv'
<1>1. TokenTypes /\ HeldRight /\ SentRight /\ holder.pc = "owned" BY DEF TokenInv, Tok!NotSent
<1>2. holder.todo = <<>> /\ Tok!Live = {} /\ ~holder.admitted
  BY <1>1 DEF HeldRight, SentRight, Early, Unsent
<1>3. ASSUME NEW row \in {"blocked", "indeterminate"}, NEW r \in {"retry", "final"}, Tok!Ends(row, r)
      PROVE  TokenInv'
  BY <1>1, <1>2, <1>3, TokenEnds DEF Tok!Terminals
<1>4. holder.kind \in {"approle", "keycloak", "list", "write"} BY <1>1 DEF TokenTypes, Holder
<1>5. CASE holder.kind = "approle" BY <1>3, <1>5 DEF Tok!NotSent
<1>6. CASE holder.kind = "keycloak" BY <1>3, <1>6 DEF Tok!NotSent, Tok!Github
<1>7. CASE holder.kind \in Tok!Github BY <1>3, <1>7 DEF Tok!NotSent, Tok!Github
<1>. QED BY <1>4, <1>5, <1>6, <1>7 DEF Tok!Github

\* a cancellation before anything is owned,
LEMMA CancelKeeps ==
    ASSUME TokenInv, Tok!Cancel
    PROVE  TokenInv'
<1>1. TokenTypes /\ HeldRight /\ SentRight /\ Tok!Before(holder.pc) BY DEF TokenInv, Tok!Cancel
<1>2. holder.todo = <<>> /\ Tok!Live = {} /\ ~holder.admitted /\ holder.pc # "done"
  BY <1>1 DEF HeldRight, SentRight, Early, Unsent, Tok!Before
<1>. QED BY <1>2, TokenEnds DEF Tok!Terminals, Tok!Cancel

\* the terminal row after the cleanup,
LEMMA CloseKeeps ==
    ASSUME TokenInv, Tok!Close
    PROVE  TokenInv'
<1>1. TokenTypes /\ HeldRight /\ LiveRight /\ RowsRight /\ holder.pc = "closing"
    BY DEF TokenInv, Tok!Close
<1>2. holder.todo = <<>> BY <1>1 DEF HeldRight
<1>3. Tok!ToSet(<<>>) = {} BY DEF Tok!ToSet
<1>4. holder.clean /\ (holder.kind = "approle" \/ holder.res # "unknown") => Tok!Live = {}
  BY <1>1, <1>2, <1>3 DEF LiveRight, Owning
<1>5. holder.clean => Tok!Has("revoked") BY <1>1 DEF RowsRight
<1>6. CASE Tok!Ends("indeterminate", "final") BY <1>1, <1>2, <1>6, TokenEnds DEF Tok!Terminals
<1>7. CASE holder.clean /\ holder.res = "ok" /\ Tok!Ends("finished", "ok")
  BY <1>1, <1>2, <1>4, <1>5, <1>7, TokenEnds DEF Tok!Terminals
<1>8. CASE holder.clean /\ holder.res # "ok" /\ ~Tok!Unsure /\ Tok!Ends("blocked", IF holder.refused THEN "retry" ELSE "final")
  <2>1. holder.kind = "approle" /\ ~holder.admitted BY <1>8 DEF Tok!Unsure
  <2>2. Tok!Live = {} BY <1>4, <1>8, <2>1
  <2>3. \E r \in {"retry", "final"} : Tok!Ends("blocked", r) BY <1>8
  <2>. QED BY <1>1, <1>2, <2>1, <2>2, <2>3, TokenEnds DEF Tok!Terminals
<1>. QED BY <1>6, <1>7, <1>8 DEF Tok!Close
\* the audit of the issue,
LEMMA RecordIssueKeeps ==
    ASSUME TokenInv, Tok!RecordIssue
    PROVE  TokenInv'
<1>1. TokenTypes /\ holder.pc = "minted" /\ UNCHANGED <<time, tokenGate, tokens>>
    BY DEF TokenInv, Tok!RecordIssue
<1>2. PICK r \in {"ok", "unknown", "retry", "final"} :
          /\ holder' = [holder EXCEPT !.pc = "issued", !.res = r]
          /\ holder.kind # "approle" => r \in {holder.res, "unknown"}
  <2>1. CASE Tok!To("issued")
    <3>1. holder.res \in {"ok", "unknown", "retry", "final"} /\ holder' = [holder EXCEPT !.pc = "issued", !.res = holder.res]
      BY <1>1, <2>1 DEF Tok!To, TokenTypes, Holder
    <3>. QED BY <3>1
  <2>2. ASSUME holder.kind \notin Tok!Github, NEW r \in {"retry", "final"},
               holder' = [holder EXCEPT !.pc = "issued", !.res = IF holder.kind = "keycloak" THEN "unknown" ELSE r]
        PROVE  \E q \in {"ok", "unknown", "retry", "final"} :
                  /\ holder' = [holder EXCEPT !.pc = "issued", !.res = q]
                  /\ holder.kind # "approle" => q \in {holder.res, "unknown"}
    <3>1. holder.kind \in {"approle", "keycloak"} BY <1>1, <2>2
        DEF TokenTypes, Holder, Tok!Github
    <3>. QED BY <2>2, <3>1
  <2>. QED BY <2>1, <2>2 DEF Tok!RecordIssue
<1>3. /\ holder' \in Holder /\ holder'.pc = "issued" /\ holder'.kind = holder.kind /\ holder'.held = holder.held
      /\ holder'.todo = holder.todo /\ holder'.tried = holder.tried /\ holder'.reply = holder.reply
      /\ holder'.sends = holder.sends /\ holder'.admitted = holder.admitted /\ holder'.clean = holder.clean
      /\ holder'.res = r
  BY <1>1, <1>2 DEF TokenTypes, Holder, Owning
<1>4. RowsOn
  <2>1. CASE tokenRows' = tokenRows BY <1>1, <2>1 DEF TokenTypes, RowsOn
  <2>2. CASE Tok!Row("issued") BY <1>1, <2>2, RowAdded DEF TokenTypes, RowName, Tok!Terminals
  <2>. QED BY <2>1, <2>2 DEF Tok!RecordIssue
<1>. QED BY <1>1, <1>2, <1>3, <1>4, TokenMove DEF Early, Unsent, Owning

\* the read of the secret,
LEMMA ReadKeeps ==
    ASSUME TokenInv, Tok!Read
    PROVE  TokenInv'
<1>1. TokenTypes /\ holder.pc = "issued" /\ holder.kind = "approle" /\ UNCHANGED <<time, tokenGate, tokens>>
  BY DEF TokenInv, Tok!Read
<1>2. CASE Tok!To("read") /\ tokenRows' = tokenRows \o <<"reading", "resolved">>
  <2>1. /\ holder' \in Holder /\ holder'.pc = "read" /\ holder'.kind = holder.kind /\ holder'.held = holder.held
        /\ holder'.todo = holder.todo /\ holder'.tried = holder.tried /\ holder'.reply = holder.reply
        /\ holder'.sends = holder.sends /\ holder'.admitted = holder.admitted /\ holder'.clean = holder.clean
    BY <1>1, <1>2 DEF TokenTypes, Holder, Owning, Tok!To
  <2>2. RowsOn BY <1>1, <1>2, RowsAdded DEF TokenTypes
  <2>. QED BY <1>1, <2>1, <2>2, TokenMove DEF Early, Unsent, Owning
<1>3. ASSUME NEW r \in {"retry", "final", "unknown"}, NEW done \in {<<>>, <<"reading">>},
             holder' = [holder EXCEPT !.pc = "used", !.res = r], tokenRows' = tokenRows \o done
      PROVE  TokenInv'
  <2>1. /\ holder' \in Holder /\ holder'.pc = "used" /\ holder'.kind = holder.kind /\ holder'.held = holder.held
        /\ holder'.todo = holder.todo /\ holder'.tried = holder.tried /\ holder'.reply = holder.reply
        /\ holder'.clean = holder.clean
    BY <1>1, <1>3 DEF TokenTypes, Holder, Owning
  <2>2. RowsOn BY <1>1, <1>3, RowsAdded DEF TokenTypes
  <2>. QED BY <1>1, <2>1, <2>2, TokenMove DEF Early, Unsent, Owning
<1>. QED BY <1>2, <1>3 DEF Tok!Read

\* the business request,
LEMMA SentKeeps ==
    ASSUME TokenInv, holder.pc \in {"issued", "read", "waiting"}, holder.res = "ok",
           NEW n \in 0..2, NEW r \in {"ok", "unknown", "final"}, Tok!Sent(n, r)
    PROVE  TokenInv'
<1>1. TokenTypes /\ UNCHANGED <<time, tokenGate, tokens, tokenRows>>
  BY DEF TokenInv, Tok!Sent
<1>2. /\ holder' \in Holder /\ holder'.pc = "used" /\ holder'.kind = holder.kind /\ holder'.held = holder.held
      /\ holder'.todo = holder.todo /\ holder'.tried = holder.tried /\ holder'.reply = holder.reply
      /\ holder'.clean = holder.clean
  BY <1>1 DEF TokenTypes, Holder, Owning, Tok!Sent
<1>3. RowsOn BY <1>1 DEF TokenTypes, RowsOn
<1>. QED BY <1>1, <1>2, <1>3, TokenMove DEF Early, Unsent, Owning

\* (whatever the resource answers,)
LEMMA AnswerToIsSent ==
    ASSUME NEW m \in 0..2, Tok!AnswerTo(m)
    PROVE  \E n \in 0..2, r \in {"ok", "unknown", "final"} : Tok!Sent(n, r)
<1>1. PICK answer \in {"as asked", "other", "none"} :
          Tok!Sent(m, IF Tok!InScope(answer) THEN "ok" ELSE "unknown")
  BY DEF Tok!AnswerTo
<1>2. (IF Tok!InScope(answer) THEN "ok" ELSE "unknown") \in {"ok", "unknown", "final"} OBVIOUS
<1>. QED BY <1>1, <1>2

\* of each kind of source,
LEMMA UseKeeps ==
    ASSUME TokenInv, Tok!UseSecret \/ Tok!UseExchanged \/ Tok!UseResource
    PROVE  TokenInv'
<1>0. TokenTypes /\ SentRight BY DEF TokenInv
<1>1. holder.pc \in {"issued", "read"} /\ holder.res = "ok"
  BY DEF Tok!UseSecret, Tok!UseExchanged, Tok!UseResource, Tok!CanSend
<1>2. CASE \E n \in 0..2, r \in {"ok", "unknown", "final"} : Tok!Sent(n, r) BY <1>1, <1>2, SentKeeps
<1>3. CASE Tok!UseSecret \/ Tok!UseExchanged
  BY <1>2, <1>3 DEF Tok!UseSecret, Tok!UseExchanged
<1>4. CASE Tok!UseResource
  <2>1. CASE Tok!AnswerTo(1) BY <1>2, <2>1, AnswerToIsSent
  <2>2. CASE /\ holder' = [holder EXCEPT !.pc = "waiting", !.sends = 1, !.admitted = TRUE]
             /\ holder.kind = "list" /\ UNCHANGED <<time, tokenGate, tokens, tokenRows>>
    <3>1. /\ holder' \in Holder /\ holder'.pc = "waiting" /\ holder'.kind = holder.kind /\ holder'.held = holder.held
          /\ holder'.todo = holder.todo /\ holder'.tried = holder.tried /\ holder'.reply = holder.reply
          /\ holder'.clean = holder.clean /\ holder'.res = holder.res
      <4>1. holder \in Holder BY <1>0 DEF TokenTypes
      <4>2. 1 \in 0..2 OBVIOUS
      <4>. QED BY <2>2, <4>1, <4>2 DEF Holder, Owning
    <3>2. RowsOn BY <1>0, <2>2 DEF TokenTypes, RowsOn
    <3>3. holder.pc # "done" /\ holder.pc \in Owning BY <1>1 DEF Owning
    <3>4. holder'.pc \notin Early \cup Unsent \cup {"done", "closing"} BY <3>1 DEF Early, Unsent
    <3>5. holder.kind = "list" BY <2>2
    <3>. QED BY <1>1, <2>2, <3>1, <3>2, <3>3, <3>4, <3>5, TokenMove
  <2>. QED BY <1>4, <2>1, <2>2 DEF Tok!UseResource
<1>. QED BY <1>3, <1>4

\* sent a second time,
LEMMA ResendKeeps ==
    ASSUME TokenInv, Tok!ResendResource
    PROVE  TokenInv'
<1>1. holder.pc = "waiting" /\ holder.res = "ok"
  BY DEF Tok!ResendResource, TokenInv, SentRight
<1>2. \E n \in 0..2, r \in {"ok", "unknown", "final"} : Tok!Sent(n, r)
  <2>0. 1 \in 0..2 /\ 2 \in 0..2 OBVIOUS
  <2>1. CASE Tok!AnswerTo(2) BY <2>0, <2>1, AnswerToIsSent
  <2>2. CASE Tok!Sent(1, "unknown") BY <2>0, <2>2
  <2>. QED BY <2>1, <2>2 DEF Tok!ResendResource
<1>. QED BY <1>1, <1>2, SentKeeps

\* or not sent,
LEMMA UnusedKeeps ==
    ASSUME TokenInv, Tok!UseRefused \/ Tok!NotUsed
    PROVE  TokenInv'
<1>1. TokenTypes /\ holder.pc \in {"issued", "read"} /\ UNCHANGED <<time, tokenGate, tokens, tokenRows>>
  BY DEF TokenInv, Tok!CanSend, Tok!UseRefused, Tok!NotUsed
<1>2. PICK r \in {"ok", "unknown", "retry", "final"}, b \in BOOLEAN :
          /\ holder' = [holder EXCEPT !.pc = "used", !.res = r, !.refused = b]
          /\ holder.kind # "approle" /\ r # "unknown" => holder.res # "unknown"
  <2>1. CASE Tok!UseRefused
    <3>1. holder' = [holder EXCEPT !.pc = "used", !.refused = (holder.kind = "approle"),
                 !.res = IF holder.kind = "approle" THEN "retry" ELSE "unknown"]
      BY <2>1 DEF Tok!UseRefused
    <3>. DEFINE r == IF holder.kind = "approle" THEN "retry" ELSE "unknown"
                b == holder.kind = "approle"
    <3>2. holder' = [holder EXCEPT !.pc = "used", !.res = r, !.refused = b] BY <1>1, <3>1
        DEF TokenTypes, Holder
    <3>3. r \in {"ok", "unknown", "retry", "final"} /\ b \in BOOLEAN
      <4>1. r \in {"ok", "unknown", "retry", "final"} OBVIOUS
      <4>2. b \in BOOLEAN BY Zenon
      <4>. QED BY <4>1, <4>2
    <3>4. holder.kind # "approle" /\ r # "unknown" => holder.res # "unknown" OBVIOUS
    <3>. HIDE DEF r, b
    <3>. QED BY <3>2, <3>3, <3>4
  <2>2. CASE Tok!NotUsed
    <3>1. PICK q \in {"final", "unknown"} :
            holder' = [holder EXCEPT !.pc = "used", !.res = IF holder.res = "ok" THEN q ELSE holder.res]
      BY <2>2 DEF Tok!NotUsed
    <3>. DEFINE r == IF holder.res = "ok" THEN q ELSE holder.res
                b == holder.refused
    <3>2. holder' = [holder EXCEPT !.pc = "used", !.res = r, !.refused = b] BY <1>1, <3>1
        DEF TokenTypes, Holder
    <3>3. r \in {"ok", "unknown", "retry", "final"} /\ b \in BOOLEAN BY <1>1
        DEF TokenTypes, Holder
    <3>4. holder.kind # "approle" /\ r # "unknown" => holder.res # "unknown" OBVIOUS
    <3>. HIDE DEF r, b
    <3>. QED BY <3>2, <3>3, <3>4
  <2>. QED BY <2>1, <2>2
<1>3. /\ holder' \in Holder /\ holder'.pc = "used" /\ holder'.kind = holder.kind /\ holder'.held = holder.held
      /\ holder'.todo = holder.todo /\ holder'.tried = holder.tried /\ holder'.reply = holder.reply
      /\ holder'.clean = holder.clean /\ holder'.res = r
  BY <1>1, <1>2 DEF TokenTypes, Holder, Owning
<1>4. RowsOn BY <1>1 DEF TokenTypes, RowsOn
<1>. QED BY <1>1, <1>2, <1>3, <1>4, TokenMove DEF Early, Unsent, Owning

\* the announcement of the cleanup,
LEMMA BeginCleanupKeeps ==
    ASSUME TokenInv, Tok!BeginCleanup
    PROVE  TokenInv'
<1>1. TokenTypes /\ holder.pc = "used" /\ UNCHANGED <<time, tokenGate, tokens>> BY DEF TokenInv,
    Tok!BeginCleanup
<1>2. /\ holder' \in Holder /\ holder'.pc = "revoking" /\ holder'.kind = holder.kind /\ holder'.held = holder.held
      /\ holder'.todo = holder.todo /\ holder'.tried = holder.tried /\ holder'.reply = holder.reply
      /\ holder'.clean \in {holder.clean, FALSE} /\ holder'.res = holder.res
  <2>1. CASE Tok!To("revoking") BY <1>1, <2>1 DEF TokenTypes, Holder, Owning, Tok!To
  <2>2. CASE holder' = [holder EXCEPT !.pc = "revoking", !.clean = FALSE]
    BY <1>1, <2>2 DEF TokenTypes, Holder, Owning
  <2>. QED BY <2>1, <2>2 DEF Tok!BeginCleanup
<1>3. RowsOn
  <2>1. CASE tokenRows' = tokenRows BY <1>1, <2>1 DEF TokenTypes, RowsOn
  <2>2. CASE Tok!Row("cleanup") BY <1>1, <2>2, RowAdded DEF TokenTypes, RowName, Tok!Terminals
  <2>. QED BY <2>1, <2>2 DEF Tok!BeginCleanup
<1>. QED BY <1>1, <1>2, <1>3, TokenMove DEF Early, Unsent, Owning

\* and its audit.
LEMMA RecordRevokeKeeps ==
    ASSUME TokenInv, Tok!RecordRevoke
    PROVE  TokenInv'
<1>1. TokenTypes /\ holder.pc = "revoking" /\ holder.todo = <<>> /\ UNCHANGED <<time, tokenGate, tokens>>
  BY DEF TokenInv, Tok!RecordRevoke
<1>2. CASE Tok!To("closing") /\ Tok!Row(IF holder.clean THEN "revoked" ELSE "unrevoked")
  <2>1. /\ holder' \in Holder /\ holder'.pc = "closing" /\ holder'.kind = holder.kind /\ holder'.held = holder.held
        /\ holder'.todo = holder.todo /\ holder'.tried = holder.tried /\ holder'.reply = holder.reply
        /\ holder'.clean = holder.clean /\ holder'.res = holder.res
    BY <1>1, <1>2 DEF TokenTypes, Holder, Owning, Tok!To
  <2>2. RowsOn /\ (holder.clean => Tok!Has("revoked")')
    <3>1. CASE holder.clean
      <4>1. Tok!Row("revoked") BY <1>2, <3>1
      <4>. QED BY <1>1, <4>1, RowAdded DEF TokenTypes, RowName, Tok!Terminals
    <3>2. CASE ~holder.clean
      <4>1. Tok!Row("unrevoked") BY <1>2, <3>2
      <4>. QED BY <1>1, <3>2, <4>1, RowAdded DEF TokenTypes, RowName, Tok!Terminals
    <3>. QED BY <3>1, <3>2
  <2>. QED BY <1>1, <2>1, <2>2, TokenMove DEF Early, Unsent, Owning
<1>3. CASE holder' = [holder EXCEPT !.pc = "closing", !.clean = FALSE] /\ UNCHANGED tokenRows
  <2>1. /\ holder' \in Holder /\ holder'.pc = "closing" /\ holder'.kind = holder.kind /\ holder'.held = holder.held
        /\ holder'.todo = holder.todo /\ holder'.tried = holder.tried /\ holder'.reply = holder.reply
        /\ holder'.clean = FALSE /\ holder'.res = holder.res
    BY <1>1, <1>3 DEF TokenTypes, Holder, Owning
  <2>2. RowsOn BY <1>1, <1>3 DEF TokenTypes, RowsOn
  <2>. QED BY <1>1, <2>1, <2>2, TokenMove DEF Early, Unsent, Owning
<1>. QED BY <1>2, <1>3 DEF Tok!RecordRevoke
\* A list's values are its head and those of its tail.
LEMMA TailSet ==
    ASSUME NEW s \in Seq(TokenValue), s # <<>>
    PROVE  /\ Head(s) \in TokenValue /\ Tail(s) \in Seq(TokenValue) /\ Len(Tail(s)) <= Len(s)
           /\ Tok!ToSet(s) = {Head(s)} \cup Tok!ToSet(Tail(s))
<1>1. /\ Len(s) \in Nat \ {0} /\ DOMAIN s = 1..Len(s) /\ Head(s) = s[1]
      /\ Tail(s) \in Seq(TokenValue) /\ Len(Tail(s)) = Len(s) - 1
      /\ \A i \in 1..Len(s) - 1 : Tail(s)[i] = s[i + 1]
      /\ DOMAIN Tail(s) = 1..Len(s) - 1
  OBVIOUS
<1>2. ASSUME NEW i \in DOMAIN s PROVE s[i] \in {Head(s)} \cup Tok!ToSet(Tail(s))
  <2>1. CASE i = 1 BY <1>1, <2>1
  <2>2. CASE i # 1
    <3>1. i - 1 \in DOMAIN Tail(s) /\ Tail(s)[i - 1] = s[i] BY <1>1, <2>2
    <3>. QED BY <3>1 DEF Tok!ToSet
  <2>. QED BY <2>1, <2>2
<1>3. ASSUME NEW i \in DOMAIN Tail(s) PROVE Tail(s)[i] \in Tok!ToSet(s)
  <2>1. i + 1 \in DOMAIN s /\ Tail(s)[i] = s[i + 1] BY <1>1
  <2>. QED BY <2>1 DEF Tok!ToSet
<1>4. Head(s) \in Tok!ToSet(s)
  <2>1. 1 \in DOMAIN s BY <1>1
  <2>. QED BY <1>1, <2>1 DEF Tok!ToSet
<1>5. Tok!ToSet(s) = {Head(s)} \cup Tok!ToSet(Tail(s)) BY <1>2, <1>3, <1>4 DEF Tok!ToSet
<1>6. Head(s) \in TokenValue BY <1>1
<1>. QED BY <1>1, <1>5, <1>6

\* A revocation, confirmed or not, takes one token off the list; only a
\* confirmed one keeps the promise that the others are all that lives.
LEMMA RevokeKeeps ==
    ASSUME TokenInv, Tok!Revoke
    PROVE  TokenInv'
<1>1. /\ TokenTypes /\ HeldRight /\ LiveRight /\ RowsRight /\ holder.pc = "revoking" /\ holder.todo # <<>>
      /\ UNCHANGED <<time, tokenGate, tokenRows>>
  BY DEF TokenInv, Tok!Revoke
<1>. DEFINE t == Head(holder.todo)
<1>2. PICK gone \in BOOLEAN, confirmed \in BOOLEAN :
          Tok!Attempt(t, gone, confirmed) /\ (confirmed => gone)
  BY DEF Tok!Revoke
<1>3. holder \in Holder /\ holder.todo \in Seq(TokenValue) /\ holder.tried \in SUBSET TokenValue
    BY <1>1 DEF TokenTypes, Holder
<1>4. /\ t \in TokenValue /\ Tail(holder.todo) \in Seq(TokenValue) /\ Len(Tail(holder.todo)) <= Len(holder.todo)
      /\ Tok!ToSet(holder.todo) = {t} \cup Tok!ToSet(Tail(holder.todo))
  BY <1>1, <1>3, TailSet
<1>. HIDE DEF t
<1>5. holder' = [holder EXCEPT !.todo = Tail(@), !.tried = @ \cup {t}, !.clean = @ /\ confirmed]
  BY <1>2 DEF Tok!Attempt
<1>6. /\ holder'.pc = "revoking" /\ holder'.kind = holder.kind /\ holder'.held = holder.held /\ holder'.reply = holder.reply
      /\ holder'.todo = Tail(holder.todo) /\ holder'.tried = holder.tried \cup {t} /\ holder'.res = holder.res
      /\ holder'.clean = (holder.clean /\ confirmed)
  BY <1>1, <1>3, <1>5 DEF Holder
<1>7. holder' \in Holder
  <2>1. (holder.clean /\ confirmed) \in BOOLEAN BY Zenon
  <2>. QED BY <1>3, <1>4, <1>5, <2>1 DEF Holder
<1>8. tokens' \in [Tokens -> {"none", "live", "gone"}] /\ Tok!Live' \subseteq Tok!Live
      /\ (gone => Tok!Live' = Tok!Live \ {t})
  <2>1. tokens' = [u \in Tokens |-> IF u = t /\ gone /\ tokens[u] = "live" THEN "gone" ELSE tokens[u]]
    BY <1>2 DEF Tok!Attempt
  <2>2. tokens \in [Tokens -> {"none", "live", "gone"}] BY <1>1 DEF TokenTypes
  <2>. QED BY <2>1, <2>2 DEF Tok!Live
<1>9. TokenTypes' BY <1>1, <1>6, <1>7, <1>8 DEF TokenTypes
<1>10. HeldRight'
  <2>1. Len(holder.todo) \in Nat /\ Len(holder.held) \in Nat /\ Len(Tail(holder.todo)) \in Nat
    BY <1>3, <1>4 DEF Holder
  <2>. QED BY <1>1, <1>4, <1>6, <2>1 DEF HeldRight, Early
<1>11. SentRight' BY <1>6 DEF SentRight, Unsent, Early
<1>12. LiveRight' BY <1>1, <1>2, <1>4, <1>6, <1>8 DEF LiveRight, Owning
<1>13. RowsRight' BY <1>1, <1>6 DEF RowsRight
<1>14. ~Tok!Has("finished")' /\ holder'.reply = "none" BY <1>1, <1>6
    DEF RowsRight, Tok!Has, Tok!Terminals
<1>15. (Tok!SuccessMeansRevoked /\ Tok!TerminalTellsTokens /\ Tok!NoRetryAfterEffect)'
  BY <1>6, <1>14 DEF Tok!SuccessMeansRevoked, Tok!TerminalTellsTokens, Tok!NoRetryAfterEffect
<1>. QED BY <1>9, <1>10, <1>11, <1>12, <1>13, <1>15 DEF TokenInv

\* Tokens were minted that nobody knows: the row says so.
LEMMA UnknownKeeps ==
    ASSUME TokenInv, holder.pc = "owned", NEW S \in SUBSET Tokens, Tok!Minted(S), UNCHANGED <<time, tokenGate>>,
           holder' = [holder EXCEPT !.pc = "done", !.reply = "final"], Tok!Row("indeterminate")
    PROVE  TokenInv'
<1>1. TokenTypes /\ HeldRight /\ RowsRight BY DEF TokenInv
<1>2. /\ holder' \in Holder /\ holder'.kind = holder.kind /\ holder'.held = holder.held /\ holder'.todo = holder.todo
      /\ holder'.tried = holder.tried /\ holder'.pc = "done" /\ holder'.reply = "final" /\ holder'.todo = <<>>
  BY <1>1 DEF TokenTypes, HeldRight, Holder, Early
<1>3. /\ tokenRows' \in Seq(RowName)
      /\ \E i \in DOMAIN tokenRows' : {j \in DOMAIN tokenRows' : tokenRows'[j] \in Tok!Terminals} = {i}
      /\ \A q : Tok!Has(q)' <=> Tok!Has(q) \/ q = "indeterminate"
  BY <1>1, OneTerminal DEF TokenTypes, RowsRight, Tok!Terminals
<1>4. ~Tok!Has("finished") BY <1>1 DEF RowsRight, Tok!Has, Tok!Terminals
<1>5. tokens' \in [Tokens -> {"none", "live", "gone"}] BY <1>1 DEF TokenTypes, Tok!Minted
<1>6. TokenTypes' BY <1>1, <1>2, <1>3, <1>5 DEF TokenTypes
<1>7. HeldRight' /\ SentRight' /\ LiveRight'
  BY <1>1, <1>2 DEF HeldRight, SentRight, LiveRight, Early, Unsent, Owning
<1>8. RowsRight' BY <1>2, <1>3 DEF RowsRight
<1>9. (Tok!SuccessMeansRevoked /\ Tok!TerminalTellsTokens /\ Tok!NoRetryAfterEffect)'
  BY <1>2, <1>3, <1>4 DEF Tok!SuccessMeansRevoked, Tok!TerminalTellsTokens,
      Tok!NoRetryAfterEffect
<1>. QED BY <1>6, <1>7, <1>8, <1>9 DEF TokenInv

\* An answer: what it minted is kept before it is judged.
LEMMA AnswerKeeps ==
    ASSUME Tok!TokenAssumption,
           TokenInv, NEW body \in Tok!Bodies, NEW form \in BOOLEAN, Tok!Answer(body, form)
    PROVE  TokenInv'
<1>1. /\ TokenTypes /\ HeldRight /\ SentRight /\ RowsRight /\ holder.pc = "owned" /\ UNCHANGED <<time, tokenGate>>
      /\ Tok!Minted(Tok!ToSet(body) \ {Tok!Bootstrap})
  BY DEF TokenInv, Tok!Answer
<1>2. holder.kind \in {"approle", "keycloak", "list", "write"} BY <1>1 DEF TokenTypes, Holder
<1>3. Tok!ToSet(body) \ {Tok!Bootstrap} \in SUBSET Tokens
  <2>1. body \in Seq(TokenValue) BY BodyFacts
  <2>2. \A i \in DOMAIN body : body[i] \in TokenValue BY <2>1
  <2>. QED BY <2>2 DEF TokenValue, Tok!ToSet
<1>4. CASE Tok!Captured(body) = <<>>
  <2>1. holder' = [holder EXCEPT !.pc = "done", !.reply = "final"] /\ Tok!Row("indeterminate")
    BY <1>4 DEF Tok!Answer
  <2>. QED BY <1>1, <1>3, <2>1, UnknownKeeps
<1>5. CASE Tok!Captured(body) # <<>>
  <2>. DEFINE c == Tok!Captured(body)
              r == IF Tok!Valid(body, form) /\ time = "business" THEN "ok" ELSE "unknown"
  <2>1. holder' = [holder EXCEPT !.pc = "minted", !.held = c, !.todo = c, !.res = r] /\ tokenRows' = tokenRows
    BY <1>5 DEF Tok!Answer
  <2>2. c \in Seq(TokenValue) BY <1>2, CapturedType
  <2>3. r \in {"ok", "unknown"} OBVIOUS
  <2>4. holder.kind = "approle" \/ r # "unknown" => Tok!ToSet(body) \ {Tok!Bootstrap} \subseteq Tok!ToSet(c)
    BY <1>2, CapturedCovers
  <2>. HIDE DEF c, r
  <2>5. /\ holder' \in Holder /\ holder'.kind = holder.kind /\ holder'.held = c /\ holder'.todo = c
        /\ holder'.tried = holder.tried /\ holder'.pc = "minted" /\ holder'.reply = holder.reply /\ holder'.res = r
        /\ holder'.sends = holder.sends /\ holder'.admitted = holder.admitted
    BY <1>1, <2>1, <2>2, <2>3 DEF TokenTypes, Holder, Owning
  <2>6. holder.tried = {}
    <3>1. Tok!ToSet(<<>>) = {} BY DEF Tok!ToSet
    <3>. QED BY <1>1, <3>1 DEF HeldRight, Early
  <2>7. Tok!Live' = Tok!ToSet(body) \ {Tok!Bootstrap}
    BY <1>1, <1>3 DEF Tok!Live, Tok!Minted, HeldRight, Early
  <2>8. tokens' \in [Tokens -> {"none", "live", "gone"}] BY <1>1 DEF TokenTypes, Tok!Minted
  <2>9. TokenTypes' BY <1>1, <2>1, <2>5, <2>8 DEF TokenTypes
  <2>10. HeldRight' BY <2>2, <2>5, <2>6 DEF HeldRight, Early
  <2>11. SentRight' BY <1>1, <2>5 DEF SentRight, Early, Unsent
  <2>12. LiveRight' BY <2>4, <2>5, <2>7 DEF LiveRight
  <2>13. RowsRight' BY <1>1, <2>1, <2>5 DEF RowsRight
  <2>14. ~Tok!Has("finished")' /\ holder'.reply = "none" BY <1>1, <2>1, <2>5
      DEF RowsRight, Tok!Has, Tok!Terminals
  <2>15. (Tok!SuccessMeansRevoked /\ Tok!TerminalTellsTokens /\ Tok!NoRetryAfterEffect)'
    BY <2>5, <2>14 DEF Tok!SuccessMeansRevoked, Tok!TerminalTellsTokens, Tok!NoRetryAfterEffect
  <2>. QED BY <2>9, <2>10, <2>11, <2>12, <2>13, <2>15 DEF TokenInv
<1>. QED BY <1>4, <1>5

\* The clock and the gate.
LEMMA OutsideKeeps ==
    ASSUME TokenInv, UNCHANGED <<holder, tokens, tokenRows>>,
           time' \in {"business", "cleanup", "over"}, tokenGate' \in {"open", "closed", "cancelled"}
    PROVE  TokenInv'
<1>. QED BY DEF TokenInv, TokenTypes, HeldRight, SentRight, LiveRight, RowsRight,
                Tok!SuccessMeansRevoked, Tok!TerminalTellsTokens, Tok!NoRetryAfterEffect,
                Tok!Live, Tok!Has

\* Every step keeps the invariant.
LEMMA TokenNext ==
    ASSUME Tok!TokenAssumption
    PROVE  TokenInv /\ [Tok!Next]_Tok!vars => TokenInv'
<1>. SUFFICES ASSUME TokenInv, [Tok!Next]_Tok!vars PROVE TokenInv' OBVIOUS
<1>0. TokenTypes BY DEF TokenInv
<1>1. CASE Tok!Step
  <2>1. ASSUME NEW S \in SUBSET Tokens, Tok!AnswerLost(S) PROVE TokenInv'
    BY <2>1, UnknownKeeps DEF Tok!AnswerLost
  <2>. QED BY <1>1, <2>1, AuthorizeKeeps, BeginRemoteKeeps, NotSentKeeps, RecordIssueKeeps,
      ReadKeeps,
              UseKeeps, ResendKeeps, UnusedKeeps, BeginCleanupKeeps, RevokeKeeps, RecordRevokeKeeps,
              CloseKeeps,
              CancelKeeps, AnswerKeeps DEF Tok!Step
<1>2. CASE Tok!CloseGate BY <1>0, <1>2, OutsideKeeps DEF Tok!CloseGate, TokenTypes
<1>3. CASE Tok!Tick BY <1>0, <1>3, OutsideKeeps DEF Tok!Tick, TokenTypes
<1>4. CASE UNCHANGED Tok!vars BY <1>0, <1>4, OutsideKeeps DEF Tok!vars, TokenTypes
<1>. QED BY <1>1, <1>2, <1>3, <1>4 DEF Tok!Next, Tok!Ended

\* The invariant, for every value of the constants.
THEOREM TokenAlways ==
    ASSUME Tok!TokenAssumption
    PROVE  Tok!Spec => []TokenInv
<1>. QED BY TokenInit, TokenNext, PTL DEF Tok!Spec

\* Types hold in every state, and the execution writes exactly one terminal row,
\* when it ends.
THEOREM TokenTypeCorrect ==
    ASSUME Tok!TokenAssumption
    PROVE  Tok!Spec => []Tok!TypeOK
<1>1. TokenInv => Tok!TypeOK
  <2>. SUFFICES ASSUME TokenInv PROVE Tok!TypeOK OBVIOUS
  <2>1. TokenTypes /\ HeldRight /\ RowsRight BY DEF TokenInv
  <2>2. Tok!ToSet(holder.held) \subseteq Tokens \cup {Tok!Bootstrap}
    <3>1. holder.held \in Seq(TokenValue) BY <2>1 DEF TokenTypes, Holder
    <3>2. \A i \in DOMAIN holder.held : holder.held[i] \in TokenValue BY <3>1
    <3>. QED BY <3>2 DEF TokenValue, Tok!ToSet
  <2>3. Cardinality({i \in DOMAIN tokenRows : tokenRows[i] \in Tok!Terminals}) = (IF holder.pc = "done" THEN 1 ELSE 0)
    <3>1. CASE holder.pc = "done"
      <4>1. PICK i \in DOMAIN tokenRows : {j \in DOMAIN tokenRows : tokenRows[j] \in Tok!Terminals} = {i}
        BY <2>1, <3>1 DEF RowsRight
      <4>. QED BY <3>1, <4>1, FS_Singleton
    <3>2. CASE holder.pc # "done"
      <4>1. {j \in DOMAIN tokenRows : tokenRows[j] \in Tok!Terminals} = {} BY <2>1, <3>2
          DEF RowsRight
      <4>. QED BY <3>2, <4>1, FS_EmptySet
    <3>. QED BY <3>1, <3>2
  <2>. QED BY <2>1, <2>2, <2>3, TokCounts DEF Tok!TypeOK, TokenTypes, Holder, HeldRight
<1>. QED BY <1>1, TokenAlways, PTL

\* An execution that succeeds, or whose row says finished, leaves no token alive
\* at the provider, and its rows say revoked before (vault_source, keycloak,
\* github_run).
THEOREM TokensAreRevoked ==
    ASSUME Tok!TokenAssumption
    PROVE  Tok!Spec => []Tok!SuccessMeansRevoked
<1>. QED BY TokenAlways, PTL DEF TokenInv

\* An execution whose terminal row is not indeterminate has left no token alive,
\* and one that is blocked has not sent its business request.
THEOREM TerminalsTellTokens ==
    ASSUME Tok!TokenAssumption
    PROVE  Tok!Spec => []Tok!TerminalTellsTokens
<1>. QED BY TokenAlways, PTL DEF TokenInv

\* Whatever fails on the way, every token that was kept has had its own attempt
\* of revocation when the execution ends.
THEOREM TokensAreTried ==
    ASSUME Tok!TokenAssumption
    PROVE  Tok!Spec => []Tok!EveryTokenTried
<1>1. TokenInv => Tok!EveryTokenTried
  <2>1. Tok!ToSet(<<>>) = {} BY DEF Tok!ToSet
  <2>. QED BY <2>1 DEF TokenInv, HeldRight, Tok!EveryTokenTried
<1>. QED BY <1>1, TokenAlways, PTL

\* The caller is invited to try again only if neither a token nor the business
\* request can have taken effect.
THEOREM RetriesAreSafe ==
    ASSUME Tok!TokenAssumption
    PROVE  Tok!Spec => []Tok!NoRetryAfterEffect
<1>. QED BY TokenAlways, PTL DEF TokenInv

\* A request that writes is sent at most once: only a list is sent again, after
\* the delay the resource asked for (github_app.rs, resource).
THEOREM WritesAreSentOnce ==
    ASSUME Tok!TokenAssumption
    PROVE  Tok!Spec => []Tok!WritesSentOnce
<1>. DEFINE W == Tok!WritesSentOnce
<1>0. Tok!Init => W BY DEF Tok!Init, Tok!WritesSentOnce
<1>1. ASSUME TokenInv, TokenInv', W, [Tok!Next]_Tok!vars PROVE W'
  <2>1. TokenTypes /\ SentRight BY <1>1 DEF TokenInv
  <2>2. ASSUME NEW n \in 0..2, NEW r, Tok!Sent(n, r), n = 2 => holder.kind = "list" PROVE W'
    <3>1. holder'.sends = n /\ holder'.kind = holder.kind BY <2>1, <2>2 DEF Tok!Sent, TokenTypes, Holder
    <3>. QED BY <2>2, <3>1 DEF Tok!WritesSentOnce
  <2>3. CASE Tok!UseSecret \/ Tok!UseExchanged \/ Tok!UseResource \/ Tok!ResendResource
    <3>1. ASSUME NEW n \in 0..2, Tok!AnswerTo(n), n = 2 => holder.kind = "list" PROVE W'
      BY <2>2, <3>1 DEF Tok!AnswerTo
    <3>2. CASE Tok!UseSecret \/ Tok!UseExchanged BY <2>2, <3>2 DEF Tok!UseSecret, Tok!UseExchanged
    <3>3. CASE Tok!UseResource
      <4>1. CASE Tok!AnswerTo(1) BY <3>1, <4>1
      <4>2. CASE holder' = [holder EXCEPT !.pc = "waiting", !.sends = 1, !.admitted = TRUE]
        BY <2>1, <4>2 DEF TokenTypes, Holder, Tok!WritesSentOnce
      <4>. QED BY <3>3, <4>1, <4>2 DEF Tok!UseResource
    <3>4. CASE Tok!ResendResource BY <2>1, <2>2, <3>1, <3>4 DEF Tok!ResendResource, SentRight
    <3>. QED BY <2>3, <3>2, <3>3, <3>4
  <2>5. ASSUME ~(Tok!UseSecret \/ Tok!UseExchanged \/ Tok!UseResource \/ Tok!ResendResource)
        PROVE  holder'.sends = holder.sends /\ holder'.kind = holder.kind
    <3>0. holder \in Holder BY <2>1 DEF TokenTypes
    <3>1. CASE Tok!Authorize \/ Tok!BeginRemote \/ Tok!NotSent \/ Tok!Cancel \/ Tok!Close
      <4>1. CASE \E row, reply : Tok!Ends(row, reply) BY <3>0, <4>1 DEF Tok!Ends, Holder
      <4>2. CASE \E p : Tok!To(p) BY <3>0, <4>2 DEF Tok!To, Holder
      <4>3. CASE Tok!NotSent
        <5>1. CASE holder.kind = "approle" BY <4>1, <4>3, <5>1 DEF Tok!NotSent
        <5>2. CASE holder.kind = "keycloak" BY <4>1, <4>3, <5>2 DEF Tok!NotSent
        <5>3. CASE holder.kind \in Tok!Github BY <4>1, <4>3, <5>3 DEF Tok!NotSent, Tok!Github
        <5>. QED BY <3>0, <5>1, <5>2, <5>3 DEF Holder, Tok!Github
      <4>4. CASE Tok!Close BY <4>1, <4>4 DEF Tok!Close
      <4>5. CASE Tok!Authorize \/ Tok!BeginRemote \/ Tok!Cancel
        BY <4>1, <4>2, <4>5 DEF Tok!Authorize, Tok!BeginRemote, Tok!Cancel
      <4>. QED BY <3>1, <4>3, <4>4, <4>5
    <3>2. CASE Tok!RecordIssue \/ Tok!Read \/ Tok!UseRefused \/ Tok!NotUsed
      BY <3>0, <3>2 DEF Tok!RecordIssue, Tok!Read, Tok!UseRefused, Tok!NotUsed, Tok!To, Holder
    <3>3. CASE Tok!BeginCleanup \/ Tok!Revoke \/ Tok!RecordRevoke
      BY <3>0, <3>3 DEF Tok!BeginCleanup, Tok!Revoke, Tok!RecordRevoke, Tok!Attempt, Tok!To,
          Holder
    <3>4. CASE \E S \in SUBSET Tokens : Tok!AnswerLost(S) BY <3>0, <3>4
        DEF Tok!AnswerLost, Holder
    <3>5. CASE \E body \in Tok!Bodies, form \in BOOLEAN : Tok!Answer(body, form)
      BY <3>0, <3>5 DEF Tok!Answer, Holder
    <3>6. CASE Tok!CloseGate \/ Tok!Tick \/ UNCHANGED Tok!vars BY <3>6
        DEF Tok!CloseGate, Tok!Tick, Tok!vars
    <3>. QED BY <1>1, <2>5, <3>1, <3>2, <3>3, <3>4, <3>5, <3>6 DEF Tok!Next, Tok!Step, Tok!Ended
  <2>6. CASE holder'.sends = holder.sends /\ holder'.kind = holder.kind
    BY <1>1, <2>6 DEF Tok!WritesSentOnce
  <2>. QED BY <2>3, <2>5, <2>6
<1>. QED BY <1>0, <1>1, TokenAlways, PTL DEF Tok!Spec

=============================================================================
