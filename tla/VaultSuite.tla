----------------------------- MODULE VaultSuite -----------------------------
(***************************************************************************)
(* What the vault keeps, checked in one run: the certificate authority     *)
(* (CertificateAuthority, extended), generations and rollback, the catalog *)
(* and its keys, the desktop ticket and the audit journal.  They share no  *)
(* state here.  A behaviour runs the one `part' names; the others stay as  *)
(* they start.                                                             *)
(***************************************************************************)
EXTENDS CertificateAuthority, Integers, Sequences

CONSTANTS Parts

VARIABLES part,
    db, file, prot, entries, own, hdr, shown, att, backups, acked, commits, disturbed, faults,
    worker, mem, catalog, said, past,
    st, vol, dur, grant, session, resumed, failed, nextAt, wall, mono, hist,
    today, open, journal, next, ledger, retention, clock, running, export, ever

generationVars == <<db, file, prot, entries, own, hdr, shown, att, backups, acked, commits,
                    disturbed, faults>>
catalogVars == <<worker, mem, catalog, said, past>>
desktopVars == <<st, vol, dur, grant, session, resumed, failed, nextAt, wall, mono, hist>>
journalVars == <<today, open, journal, next, ledger, retention, clock, running, export, ever>>
suiteVars == <<part, vars, generationVars, catalogVars, desktopVars, journalVars>>

\* The authority's credential: rotated once with the same key, once with another.
Rotations == <<"k", "k", "l">>

\* Two directories: with an anchor file alone, or with the protected anchor and
\* old copies that bring their anchor file along.
Plain == INSTANCE VaultGeneration WITH
    Dirs <- {"d", "e"}, ProtectedRequired <- FALSE, FileReplaced <- FALSE, MaxGen <- 3, MaxFaults <- 1
Protected == INSTANCE VaultGeneration WITH
    Dirs <- {"d", "e"}, ProtectedRequired <- TRUE, FileReplaced <- TRUE, MaxGen <- 3, MaxFaults <- 2

\* Two credentials with an action each; a TLS key with secrets, signers and
\* policy bundles.
Catalog == INSTANCE VaultCatalog WITH
    Credentials <- {"c", "d"}, KindOf <- [c \in {"c", "d"} |-> IF c = "c" THEN "opaque" ELSE "oauth"],
    ActionIds <- {"a", "b"}, Secrets <- {"s"}, Signers <- {}, ModeSigners <- {}, Digests <- {},
    Deadlines <- TRUE, MaxVersion <- 2, MaxPolicy <- 0, MaxRoots <- 2, st <- worker, db <- catalog
Keys == INSTANCE VaultCatalog WITH
    Credentials <- {"c"}, KindOf <- [c \in {"c"} |-> "mtls"],
    ActionIds <- {}, Secrets <- {"s", "t", "u"}, Signers <- {"g"}, ModeSigners <- {"g"},
    Digests <- {"m", "n"}, Deadlines <- TRUE, MaxVersion <- 1, MaxPolicy <- 2, MaxRoots <- 2,
    st <- worker, db <- catalog

\* Two tickets and a wall clock that is set back; a disk that fails.
Desktop == INSTANCE DesktopUnlock WITH
    Lifetimes <- {1, 2}, SessionLife <- 3, Free <- 2, BackoffCap <- 2, DiskFails <- FALSE,
    MaxTickets <- 2, MaxTime <- 2, MaxBack <- 1, MaxEnds <- 1
Disk == INSTANCE DesktopUnlock WITH
    Lifetimes <- {1, 2}, SessionLife <- 3, Free <- 1, BackoffCap <- 1, DiskFails <- TRUE,
    MaxTickets <- 2, MaxTime <- 1, MaxBack <- 0, MaxEnds <- 2

\* Requests charged to a day with room for one, crashes and a clock set back;
\* an export with filters between prunes and a retention that changes.
Sizes == [k \in {"finished", "blocked", "indeterminate", "opened", "accepted", "started", "lease",
                 "pruned", "retention"} |-> IF k \in {"finished", "retention"} THEN 2 ELSE 1]
Budget == INSTANCE AuditJournal WITH
    Req <- {"q", "r"}, EndKinds <- {"finished"}, Metered <- {"q", "r"}, Approved <- {}, Caps <- {0, 2},
    Measures <- {1}, MaxRequests <- 1, MaxTokens <- 2, Day <- 1, RetentionDays <- {}, Cutoffs <- {1},
    Limit <- 2, ScanMax <- 3, PageBytes <- 3, Weight <- Sizes, Filters <- {}, ClockBack <- TRUE,
    CrashAllowed <- TRUE, MaxNow <- 1, MaxRows <- 8, now <- today
Export == INSTANCE AuditJournal WITH
    Req <- {"q", "r"}, EndKinds <- {"finished"}, Metered <- {}, Approved <- {"r"}, Caps <- {0},
    Measures <- {}, MaxRequests <- 1, MaxTokens <- 1, Day <- 1, RetentionDays <- {0, 1}, Cutoffs <- {1},
    Limit <- 2, ScanMax <- 3, PageBytes <- 2, Weight <- Sizes, Filters <- {"none", "q"},
    ClockBack <- FALSE, CrashAllowed <- TRUE, MaxNow <- 1, MaxRows <- 8, now <- today

ASSUME /\ Plain!ConstantsAssumption /\ Protected!ConstantsAssumption
       /\ Catalog!CatalogAssumption /\ Keys!CatalogAssumption
       /\ Desktop!DesktopAssumption /\ Disk!DesktopAssumption
       /\ Budget!AuditJournalAssumption /\ Export!AuditJournalAssumption

-----------------------------------------------------------------------------
SuiteInit ==
    /\ part \in Parts
    /\ Init
    /\ Plain!Init
    /\ IF part = "keys" THEN Keys!Init ELSE Catalog!Init
    /\ Desktop!Init
    /\ IF part = "export" THEN Export!Init ELSE Budget!Init

SuiteNext ==
    /\ part' = part
    /\ IF part = "pki" THEN Next ELSE UNCHANGED vars
    /\ CASE part = "plain" -> Plain!Next [] part = "protected" -> Protected!Next
         [] OTHER -> UNCHANGED generationVars
    /\ CASE part = "catalog" -> Catalog!Next [] part = "keys" -> Keys!Next
         [] OTHER -> UNCHANGED catalogVars
    /\ CASE part = "desktop" -> Desktop!Next [] part = "disk" -> Disk!Next
         [] OTHER -> UNCHANGED desktopVars
    /\ CASE part = "budget" -> Budget!Next [] part = "export" -> Export!Next
         [] OTHER -> UNCHANGED journalVars

SuiteSpec == SuiteInit /\ [][SuiteNext]_suiteVars

-----------------------------------------------------------------------------
\* What the vault keeps can be relied on after any crash, retry or copy: its own
\* changes are never suspected, a restore stays possible, a generation names
\* one history under the protected anchor; the catalog opens under its one root,
\* a replaced secret opens nothing and a policy version names one bundle; a day
\* is not overcharged, a charge has its rows and an export is the moment its
\* first page was read.
StoredIsTrusted ==
    /\ part = "pki" => TypeOK /\ CrlKnowsEveryLeaf
    /\ part = "plain" => Plain!TypeOK /\ Plain!UndisturbedIsTrusted /\ Plain!RestoreStaysRetryable
    /\ part = "protected" => Protected!GenerationNamesOneHistory
    /\ part = "catalog" => Catalog!TypeOK /\ Catalog!StoredStateVerifies /\ Catalog!SecretIsCurrent
    /\ part = "keys" => /\ Keys!OldProofsDead /\ Keys!StoredStateVerifies
                        /\ Keys!PolicyVersionNamesOneBundle
    /\ part = "budget" => /\ Budget!TypeOK /\ Budget!DayBudgetHolds /\ Budget!ChargedOnce
                          /\ Budget!NoAbandonedCharge
    /\ part = "export" => Export!TypeOK /\ Export!ExportIsTheSnapshot

\* A desktop ticket gives presence once and no longer than it was issued for:
\* a forgotten one is not found again after a crash, nor after a removal that
\* failed, but for the one moment ForgottenTicketIsGone names; a session ends
\* with it, presence is fresh since the last lock, and wrong guesses stay spaced.
TicketsExpire ==
    /\ part = "desktop" => /\ Desktop!TypeOK /\ Desktop!ForgottenTicketIsGone
                           /\ Desktop!TicketNotExtended /\ Desktop!PresenceIsFresh
                           /\ Desktop!SessionWithinTicket /\ Desktop!GuessesAreSpaced
    /\ part = "disk" => Disk!ForgottenTicketIsGone /\ Disk!PresenceIsFresh /\ Disk!SessionWithinTicket

\* No step takes history back: an older database is not served silently and a
\* confirmed rollback gives up only what was shown; a revoked credential, a
\* retired version and an action's definition stay, a refused command changes
\* nothing, and a prune removes whole requests that have ended and says so.
HistoryIsKept ==
    [][/\ part = "plain" => Plain!NoSilentRollback
       /\ part = "protected" => Protected!NoSilentRollback /\ Protected!ConfirmedAsShown
       /\ part = "catalog" => Catalog!HistoryOnlyGrows /\ Catalog!RefusedChangesNothing
       /\ part = "budget" => Budget!PruneIsWhole
       /\ part = "export" => Export!PruneIsWhole
       /\ part = "pki" => CrlNumbersIncrease]_suiteVars
=============================================================================
