--------------------------- MODULE VaultGeneration ---------------------------
(***************************************************************************)
(* The generation of a vault and the anchors outside its database that     *)
(* make a rollback visible (rekey-vault: generation_anchor.rs,             *)
(* store/generation.rs, bootstrap.rs, the vault states of authority.rs).   *)
(*                                                                         *)
(* A state directory holds the database, an anchor file and the markers of *)
(* an unfinished initialisation or restore; a protected anchor, where the  *)
(* platform has one, is kept per vault and so is shared by every directory *)
(* that holds a copy of it.  Every administrative transaction reserves the *)
(* next generation in the anchors before it commits.  A process may die    *)
(* between any two durable writes, and while nobody owns a directory an    *)
(* older copy of its database may be put back.                             *)
(*                                                                         *)
(* The contents of a database are the set of committed changes it holds.   *)
(***************************************************************************)
EXTENDS Naturals, FiniteSets, FiniteSetsExt

CONSTANTS
    Dirs,               \* state directories that may hold a copy of the vault
    ProtectedRequired,  \* whether the platform keeps a protected anchor
    FileReplaced,       \* whether old copies bring their anchor file along
    MaxGen,             \* bound on generations
    MaxFaults           \* bound on crashes, I/O failures and old copies

ConstantsAssumption ==
    /\ Dirs # {} /\ IsFiniteSet(Dirs)
    /\ ProtectedRequired \in BOOLEAN /\ FileReplaced \in BOOLEAN
    /\ MaxGen \in Nat /\ MaxFaults \in Nat

VARIABLES
    db,         \* the installed database of each directory
    file,       \* the generation in each directory's anchor file, 0 if absent
    prot,       \* the generation in the protected anchor, 0 if absent
    entries,    \* the other entries of each directory
    own,        \* who holds broker.lock: a bootstrap command or a worker
    hdr,        \* the generation in the worker's cached header
    shown,      \* the rollback context last shown to the person
    att,        \* the generation attempt under way in each directory
    backups,    \* copies of the database kept elsewhere
    acked,      \* the newest database reported as committed
    commits,    \* every committed database
    disturbed,  \* directories whose history a fault or a copy has touched
    faults      \* faults so far

vars == <<db, file, prot, entries, own, hdr, shown, att, backups, acked,
          commits, disturbed, faults>>

NoDb == [gen |-> 0, log |-> {}]
NoContext == [src |-> 0, high |-> 0, missing |-> FALSE]
Idle == [pc |-> "idle", kind |-> "none", obs |-> [file |-> 0, prot |-> 0],
         next |-> 0, log |-> {}, prior |-> 0, inherited |-> FALSE]

Worker == {"locked", "unlocked", "faulted", "rollback"}

-----------------------------------------------------------------------------
(***************************************************************************)
(* Observations.                                                           *)
(***************************************************************************)

\* GenerationAnchors::observe
Observed(d) == [file |-> file[d], prot |-> prot]

\* rollback_context: what a person is shown before accepting a database
Context(gen, d) ==
    [src |-> gen, high |-> Max({file[d], prot}),
     missing |-> file[d] = 0 \/ (ProtectedRequired /\ prot = 0)]


\* current: the anchors name exactly the header's generation
Current(gen, d) ==
    file[d] = gen /\ (ProtectedRequired => prot = gen)

\* dir_is_restore_empty: nothing but broker.lock
DirEmpty(d) == entries[d] = {} /\ file[d] = 0

\* The change a commit adds; changes are numbered as they are committed.
Fresh == Cardinality(UNION {c.log : c \in commits}) + 1

\* GenerationAttempt::new, with the observation made just before it
Attempt(d, kind, base, next, inherited) ==
    [pc |-> "ready", kind |-> kind, obs |-> Observed(d),
     next |-> next, log |-> base.log, prior |-> base.gen,
     inherited |-> inherited]

Init ==
    /\ db = [d \in Dirs |-> NoDb]
    /\ file = [d \in Dirs |-> 0]
    /\ prot = 0
    /\ entries = [d \in Dirs |-> {}]
    /\ own = [d \in Dirs |-> "none"]
    /\ hdr = [d \in Dirs |-> 0]
    /\ shown = [d \in Dirs |-> NoContext]
    /\ att = [d \in Dirs |-> Idle]
    /\ backups = {}
    /\ acked = [d \in Dirs |-> NoDb]
    /\ commits = {}
    /\ disturbed = {}
    /\ faults = 0

-----------------------------------------------------------------------------
(***************************************************************************)
(* One attempt: prepare the transaction, take generation.lock and observe  *)
(* again, advance the protected anchor, install the anchor file, commit.   *)
(***************************************************************************)

\* Directories that see the anchors a step in d moves
Sharing(d) == IF ProtectedRequired THEN Dirs ELSE {d}

\* The transaction replaces the header it was prepared from, or fails
HeaderMatches(d) ==
    att[d].kind \in {"mutation", "confirm"} => db[d].gen = att[d].prior

\* GenerationAnchors::lock: the lock file is created and never removed
GenerationLock(d) == entries' = [entries EXCEPT ![d] = @ \cup {"lock"}]

\* reserve / create_new up to the flag that marks the anchors as touched
Observe(d) ==
    /\ att[d].pc = "ready" /\ HeaderMatches(d)
    /\ Observed(d) = att[d].obs
    /\ att[d].next > file[d] /\ att[d].next > prot
    /\ GenerationLock(d)
    /\ att' = [att EXCEPT ![d].pc = "held"]
    /\ UNCHANGED <<db, file, prot, own, hdr, shown, backups, acked, commits,
                   disturbed, faults>>


\* Protected::advance: compare and swap in the keychain, nothing without one
AdvanceProtected(d) ==
    /\ att[d].pc = "held"
    /\ ProtectedRequired => prot = att[d].obs.prot
    /\ prot' = IF ProtectedRequired THEN att[d].next ELSE prot
    /\ att' = [att EXCEPT ![d].pc = "reserved"]
    /\ disturbed' = disturbed \cup (Sharing(d) \ {d})
    /\ UNCHANGED <<db, file, entries, own, hdr, shown, backups, acked,
                   commits, faults>>


\* install_file: a synced temporary is linked or renamed over the anchor
InstallFile(d) ==
    /\ att[d].pc = "reserved"
    /\ file' = [file EXCEPT ![d] = att[d].next]
    /\ att' = [att EXCEPT ![d].pc = "anchored"]
    /\ UNCHANGED <<db, prot, entries, own, hdr, shown, backups, acked,
                   commits, disturbed, faults>>


\* commit_audited, then complete_generation and what follows it in the caller
Commit(d) ==
    LET new == [gen |-> att[d].next, log |-> att[d].log \cup {Fresh}]
        kind == att[d].kind IN
    /\ att[d].pc = "anchored"
    /\ commits' = commits \cup {new}
    /\ acked' = [e \in Dirs |->
                   IF e \in Sharing(d) /\ new.gen > acked[e].gen
                   THEN new ELSE acked[e]]
    /\ \/ /\ kind \in {"mutation", "confirm", "init"}
          /\ db' = [db EXCEPT ![d] = new]
          /\ att' = [att EXCEPT ![d] = Idle]
       \/ /\ kind = "restore"      \* the header is updated in the staged copy
          /\ att' = [att EXCEPT ![d].pc = "staged", ![d].log = new.log]
          /\ db' = db
    /\ hdr' = [hdr EXCEPT ![d] = IF kind \in {"mutation", "confirm"}
                                 THEN new.gen ELSE @]
    /\ own' = [own EXCEPT ![d] = CASE kind = "confirm" -> "locked"
                                   [] kind = "init" -> "none"
                                   [] OTHER -> @]
    /\ shown' = [shown EXCEPT ![d] = NoContext]
    /\ UNCHANGED <<file, prot, entries, backups, disturbed, faults>>


\* cleanup_unreserved_init and cleanup_failed_restore
Cleaned(d, reserved) ==
    CASE att[d].kind = "init" /\ ~reserved -> entries[d] \ {"db", "init"}
      [] att[d].kind = "restore" /\ ~reserved /\ ~att[d].inherited ->
            entries[d] \ {"scratch", "restore", "db"}
      [] att[d].kind = "restore" -> entries[d] \ {"scratch"}
      [] OTHER -> entries[d]

\* An attempt gives up with an error.  complete_generation faults the worker
\* when the anchors may have moved, fault_on_integrity when they disagree.
GiveUp(d, reserved, integrity) ==
    /\ own' = [own EXCEPT ![d] = IF att[d].kind \in {"init", "restore"}
                                 THEN "none"
                                 ELSE IF reserved \/ integrity THEN "faulted"
                                      ELSE @]
    /\ entries' = [entries EXCEPT ![d] =
                     Cleaned(d, reserved) \cup
                        IF integrity THEN {"lock"} ELSE {}]
    /\ att' = [att EXCEPT ![d] = Idle]
    /\ UNCHANGED <<db, hdr, shown, backups, acked, commits>>

\* reserve refuses an observation that is stale, the swap a value that moved
AnchorsMoved(d) ==
    /\ \/ /\ att[d].pc = "ready"
          /\ ~HeaderMatches(d) \/ Observed(d) # att[d].obs
          /\ GiveUp(d, FALSE, TRUE)
       \/ att[d].pc = "held" /\ ProtectedRequired /\ prot # att[d].obs.prot
          /\ GiveUp(d, TRUE, TRUE)
    /\ disturbed' = disturbed \cup {d}
    /\ UNCHANGED <<file, prot, faults>>

\* An I/O failure or a deadline that passed, at any point of the attempt; a
\* keychain update that reports an error may still have happened.
Fail(d) ==
    /\ faults < MaxFaults
    /\ faults' = faults + 1
    /\ disturbed' = disturbed \cup {d}
    /\ \/ att[d].pc \in {"begun", "ready"} /\ GiveUp(d, FALSE, FALSE) /\ prot' = prot
       \/ att[d].pc = "held" /\ GiveUp(d, TRUE, FALSE)
          /\ \/ prot' = prot
             \/ ProtectedRequired /\ prot = att[d].obs.prot /\ prot' = att[d].next
       \/ att[d].pc \in {"reserved", "anchored", "staged", "installed"}
          /\ GiveUp(d, TRUE, FALSE) /\ prot' = prot
    /\ UNCHANGED file

\* The process dies; what it had synced stays
Crash(d) ==
    /\ own[d] # "none" /\ faults < MaxFaults
    /\ faults' = faults + 1
    /\ disturbed' = IF att[d].pc = "idle" THEN disturbed ELSE disturbed \cup {d}
    /\ own' = [own EXCEPT ![d] = "none"]
    /\ att' = [att EXCEPT ![d] = Idle]
    /\ shown' = [shown EXCEPT ![d] = NoContext]
    /\ UNCHANGED <<db, file, prot, entries, hdr, backups, acked, commits>>

-----------------------------------------------------------------------------
(***************************************************************************)
(* Offline commands.                                                       *)
(***************************************************************************)

\* init_vault_inner up to the marker
InitVault(d) ==
    /\ own[d] = "none" /\ DirEmpty(d)
    /\ commits = {} /\ prot = 0 /\ \A e \in Dirs : own[e] = "none" /\ DirEmpty(e)
    /\ own' = [own EXCEPT ![d] = "init"]
    /\ entries' = [entries EXCEPT ![d] = {"init"}]
    /\ att' = [att EXCEPT ![d] = [Idle EXCEPT !.pc = "begun", !.kind = "init"]]
    /\ UNCHANGED <<db, file, prot, hdr, shown, backups, acked, commits,
                   disturbed, faults>>

\* SqliteRecordStore::initialize: the header of a new vault has generation 1
FirstAttempt(d) == Attempt(d, "init", NoDb, 1, FALSE)

\* initialize_vault_records: the records of the first transaction
InitRecords(d) ==
    /\ att[d].kind = "init" /\ att[d].pc = "begun"
    /\ entries' = [entries EXCEPT ![d] = @ \cup {"db"}]
    /\ att' = [att EXCEPT ![d] = FirstAttempt(d)]
    /\ UNCHANGED <<db, file, prot, own, hdr, shown, backups, acked, commits,
                   disturbed, faults>>

\* confirm_vault_init: the recovery key was kept, the vault may be served
ConfirmVaultInit(d) ==
    /\ own[d] = "none" /\ "init" \in entries[d] /\ db[d].gen # 0
    /\ Current(db[d].gen, d)
    /\ entries' = [entries EXCEPT ![d] = @ \ {"init"}]
    /\ UNCHANGED <<db, file, prot, own, hdr, shown, att, backups, acked,
                   commits, disturbed, faults>>

\* authenticate_restore: only a database the vault itself committed carries
\* its seals
Authentic(b) == b \in commits

\* inspect_restore: authenticate a copy and show what it would replace
InspectRestore(d, b) ==
    /\ own[d] = "none" /\ Authentic(b)
    /\ shown' = [shown EXCEPT ![d] = Context(b.gen, d)]
    /\ shown' # shown
    /\ UNCHANGED <<db, file, prot, entries, own, hdr, att, backups, acked,
                   commits, disturbed, faults>>

\* restore_vault up to the private copy in its staging directory
RestoreVault(d, b) ==
    /\ own[d] = "none" /\ shown[d].src = b.gen
    /\ "restore" \in entries[d] \/ DirEmpty(d)
    /\ own' = [own EXCEPT ![d] = "restore"]
    /\ att' = [att EXCEPT ![d] = [Idle EXCEPT
                  !.pc = "begun", !.kind = "restore", !.log = b.log,
                  !.prior = b.gen, !.inherited = "restore" \in entries[d]]]
    /\ entries' = [entries EXCEPT ![d] = @ \cup {"scratch"}]
    /\ UNCHANGED <<db, file, prot, hdr, shown, backups, acked, commits,
                   disturbed, faults>>


\* restore_inner: the shown context must still hold; then the marker, and
\* what an interrupted restore left is replaced
RestoreMark(d) ==
    LET a == att[d]
        next == Max({shown[d].high, a.prior}) + 1 IN
    /\ a.kind = "restore" /\ a.pc = "begun"
    /\ Context(a.prior, d) = shown[d] /\ next <= MaxGen
    /\ att' = [att EXCEPT ![d] = Attempt(d, "restore",
                    [gen |-> a.prior, log |-> a.log], next, a.inherited)]
    /\ entries' = [entries EXCEPT ![d] =
                     IF a.inherited THEN @ \ {"db"} ELSE @ \cup {"restore"}]
    /\ db' = [db EXCEPT ![d] = NoDb]
    /\ UNCHANGED <<file, prot, own, hdr, shown, backups, acked, commits,
                   disturbed, faults>>

\* restore_inner: RollbackSuspected, the anchors are not what was shown
RestoreStale(d) ==
    /\ att[d].kind = "restore" /\ att[d].pc = "begun"
    /\ Context(att[d].prior, d) # shown[d]
    /\ GiveUp(d, FALSE, FALSE)
    /\ UNCHANGED <<file, prot, disturbed, faults>>

\* install_staging: the staged database is renamed into place
RestoreInstall(d) ==
    /\ att[d].pc = "staged"
    /\ db' = [db EXCEPT ![d] = [gen |-> att[d].next, log |-> att[d].log]]
    /\ entries' = [entries EXCEPT ![d] = @ \cup {"db"}]
    /\ att' = [att EXCEPT ![d].pc = "installed"]
    /\ UNCHANGED <<file, prot, own, hdr, shown, backups, acked, commits,
                   disturbed, faults>>

\* The staging directory and then the marker are removed
RestoreFinish(d) ==
    /\ att[d].pc = "installed"
    /\ \/ /\ "scratch" \in entries[d]
          /\ entries' = [entries EXCEPT ![d] = @ \ {"scratch"}]
          /\ UNCHANGED <<own, att>>
       \/ /\ "scratch" \notin entries[d]
          /\ entries' = [entries EXCEPT ![d] = @ \ {"restore"}]
          /\ own' = [own EXCEPT ![d] = "none"]
          /\ att' = [att EXCEPT ![d] = Idle]
    /\ UNCHANGED <<db, file, prot, hdr, shown, backups, acked, commits,
                   disturbed, faults>>

-----------------------------------------------------------------------------
(***************************************************************************)
(* The worker of a running broker.                                         *)
(***************************************************************************)

\* spawn_authority: never over an unfinished initialisation or restore
SpawnAuthority(d) ==
    /\ own[d] = "none" /\ "db" \in entries[d]
    /\ entries[d] \cap {"init", "restore"} = {}
    /\ own' = [own EXCEPT ![d] = "locked"]
    /\ hdr' = [hdr EXCEPT ![d] = db[d].gen]
    /\ shown' = [shown EXCEPT ![d] = NoContext]
    /\ UNCHANGED <<db, file, prot, entries, att, backups, acked, commits,
                   disturbed, faults>>

\* unlock with a right proof: the stored header is checked against the
\* anchors; a suspected rollback stays one until it is confirmed
Unlock(d) ==
    LET accepted == Current(db[d].gen, d) /\ own[d] # "rollback" IN
    /\ own[d] \in {"locked", "unlocked", "rollback"} /\ att[d] = Idle
    /\ own' = [own EXCEPT ![d] = IF accepted THEN "unlocked" ELSE "rollback"]
    /\ hdr' = [hdr EXCEPT ![d] = IF accepted THEN db[d].gen ELSE @]
    /\ shown' = [shown EXCEPT ![d] = IF accepted THEN @
                                     ELSE Context(db[d].gen, d)]
    /\ UNCHANGED <<db, file, prot, entries, att, backups, acked, commits,
                   disturbed, faults>>

\* lock, idle lock and the stop of the process
Lock(d) ==
    /\ own[d] = "unlocked" /\ att[d] = Idle
    /\ own' = [own EXCEPT ![d] = "locked"]
    /\ UNCHANGED <<db, file, prot, entries, hdr, shown, att, backups, acked,
                   commits, disturbed, faults>>

Stop(d) ==
    /\ own[d] \in Worker /\ att[d] = Idle
    /\ own' = [own EXCEPT ![d] = "none"]
    /\ shown' = [shown EXCEPT ![d] = NoContext]
    /\ UNCHANGED <<db, file, prot, entries, hdr, att, backups, acked, commits,
                   disturbed, faults>>

\* mutation_observation and the attempt of any administrative change
Mutate(d) ==
    /\ own[d] = "unlocked" /\ att[d] = Idle
    /\ \/ /\ Current(hdr[d], d) /\ hdr[d] < MaxGen
          /\ att' = [att EXCEPT ![d] =
                       Attempt(d, "mutation", [db[d] EXCEPT !.gen = hdr[d]],
                               hdr[d] + 1, FALSE)]
          /\ UNCHANGED <<own, shown>>
       \/ /\ ~Current(hdr[d], d)
          /\ own' = [own EXCEPT ![d] = "rollback"]
          /\ shown' = [shown EXCEPT ![d] = Context(hdr[d], d)]
          /\ UNCHANGED att
    /\ UNCHANGED <<db, file, prot, entries, hdr, backups, acked, commits,
                   disturbed, faults>>

\* confirm_rollback: the person accepts exactly what was shown
ConfirmRollback(d) ==
    LET next == Max({db[d].gen, shown[d].high}) + 1 IN
    /\ own[d] = "rollback" /\ att[d] = Idle
    /\ Context(db[d].gen, d) = shown[d] /\ next <= MaxGen
    /\ att' = [att EXCEPT ![d] = Attempt(d, "confirm", db[d], next, FALSE)]
    /\ UNCHANGED <<db, file, prot, entries, own, hdr, shown, backups, acked,
                   commits, disturbed, faults>>

\* backup: an authenticated snapshot leaves the state directory
Backup(d) ==
    /\ own[d] = "unlocked" /\ att[d] = Idle /\ db[d] \notin backups
    /\ backups' = backups \cup {db[d]}
    /\ UNCHANGED <<db, file, prot, entries, own, hdr, shown, att, acked,
                   commits, disturbed, faults>>

\* Somebody puts an older copy of the database back while nothing runs.  The
\* anchor file alone tells copies of one directory's own history apart.
OldCopy(d, b) ==
    /\ own[d] = "none" /\ "db" \in entries[d] /\ b # db[d]
    /\ ProtectedRequired \/ b.log \subseteq acked[d].log
    /\ entries[d] \cap {"init", "restore"} = {}
    /\ faults < MaxFaults
    /\ faults' = faults + 1
    /\ db' = [db EXCEPT ![d] = b]
    /\ \/ file' = file
       \/ FileReplaced /\ file' = [file EXCEPT ![d] = b.gen]
    /\ disturbed' = disturbed \cup {d}
    /\ UNCHANGED <<prot, entries, own, hdr, shown, att, backups, acked, commits>>

Next ==
    \E d \in Dirs :
        \/ Observe(d) \/ AdvanceProtected(d) \/ InstallFile(d) \/ Commit(d)
        \/ AnchorsMoved(d) \/ Fail(d) \/ Crash(d)
        \/ InitVault(d) \/ InitRecords(d) \/ ConfirmVaultInit(d)
        \/ RestoreMark(d) \/ RestoreStale(d) \/ RestoreInstall(d)
        \/ RestoreFinish(d)
        \/ SpawnAuthority(d) \/ Unlock(d) \/ Lock(d) \/ Stop(d)
        \/ Mutate(d) \/ ConfirmRollback(d) \/ Backup(d)
        \/ \E b \in backups : \/ InspectRestore(d, b) \/ RestoreVault(d, b)
                              \/ OldCopy(d, b)

Spec == Init /\ [][Next]_vars

-----------------------------------------------------------------------------
Gens == 0 .. MaxGen
Logs == SUBSET (1 .. MaxGen * Cardinality(Dirs) + 1)

\* Every variable has its type; the anchors and the worker states are those
\* of AnchorObservation and VaultState.
TypeOK ==
    /\ \A d \in Dirs : db[d].gen \in Gens /\ db[d].log \in Logs
    /\ file \in [Dirs -> Gens] /\ prot \in Gens
    /\ entries \in [Dirs -> SUBSET {"db", "lock", "scratch", "init", "restore"}]
    /\ own \in [Dirs -> Worker \cup {"none", "init", "restore"}]
    /\ hdr \in [Dirs -> Gens]
    /\ \A d \in Dirs : att[d].pc \in {"idle", "begun", "ready", "held",
            "reserved", "anchored", "staged", "installed"}
    /\ disturbed \subseteq Dirs /\ faults \in 0 .. MaxFaults

(***************************************************************************)
(* An unlock, and every change that becomes the newest history, stands on  *)
(* all that was reported as committed: an older database put back, a copy restored  *)
(* elsewhere or an interrupted commit is never served silently             *)
(* (check_generation).                                                     *)
(***************************************************************************)
Unlocks(d) == own[d] # "unlocked" /\ own'[d] = "unlocked"
Changes(d) == att[d].kind = "mutation" /\ acked'[d] # acked[d] /\ att'[d] = Idle

NoSilentRollback ==
    \A d \in Dirs :
         /\ Unlocks(d) => acked[d].log \subseteq db[d].log
         /\ Changes(d) => acked[d].log \subseteq att[d].log

(***************************************************************************)
(* A confirmed rollback or a restore that becomes the newest history gives *)
(* up no change committed after the person was shown what it replaces      *)
(* (confirm_rollback_inner, restore_inner).                                *)
(***************************************************************************)
ConfirmedAsShown ==
    \A d \in Dirs :
         (att[d].kind \in {"confirm", "restore"} /\ att[d].pc = "anchored"
             /\ acked'[d] # acked[d] /\ att'[d] # att[d])
           => acked[d].gen <= shown[d].high

(***************************************************************************)
(* With the protected anchor a generation names one history: no two        *)
(* commits, in one directory or in two, carry the same number              *)
(* (reserve, ProtectedAnchor::advance).                                    *)
(***************************************************************************)
GenerationNamesOneHistory ==
    ProtectedRequired =>
        \A b, c \in commits : b.gen = c.gen => b = c

(***************************************************************************)
(* Without an interruption, a failure or a foreign copy a vault is neither *)
(* suspected nor faulted: its own changes, backups, locks and restarts     *)
(* keep header and anchors equal.                                          *)
(***************************************************************************)
UndisturbedIsTrusted ==
    \A d \in Dirs \ disturbed : own[d] \notin {"rollback", "faulted"}

(***************************************************************************)
(* A restore that stopped after its marker leaves a directory another      *)
(* restore may take over, or a complete vault; no directory is left with   *)
(* an anchor, no database and no way on (restore_inner's write order).     *)
(***************************************************************************)
RestoreStaysRetryable ==
    \A d \in Dirs :
        (own[d] = "none" /\ file[d] # 0 /\ "init" \notin entries[d])
            => "restore" \in entries[d] \/ db[d].gen # 0

(***************************************************************************)
(* A restore that failed before it reserved anything cleans what it left,  *)
(* so that the directory can be restored into again.                       *)
(***************************************************************************)
=============================================================================
