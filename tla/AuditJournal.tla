---------------------------- MODULE AuditJournal ----------------------------
(***************************************************************************)
(* The audit journal and the usage ledger of one vault: authority/audit.rs,*)
(* authority/usage.rs, store/usage.rs, store/audit_prune.rs,               *)
(* store/audit_query.rs, and the export loop of the command line.  One     *)
(* worker runs one command at a time; between the pages of an export other *)
(* commands write, prune and change the retention, the process may end,    *)
(* and the wall clock may be set back.                                     *)
(*                                                                         *)
(* A row is its number, request, kind and time, and whether it names an    *)
(* approval; the size of a row is a constant of its kind.  The seal over   *)
(* the ledger is left out (only the worker writes it).                     *)
(***************************************************************************)
EXTENDS Integers, FiniteSets, Sequences, FiniteSetsExt

CONSTANTS
    Req,
    Metered,            \* requests that are charged to a budget
    Approved,           \* requests admitted by an approval
    Caps,               \* generation_max_output a metered request may have; 0: none
    EndKinds,           \* terminal rows that requests end with
    Measures,           \* output tokens a provider may report
    MaxRequests, MaxTokens,     \* of a day
    Day,                \* ticks of a day
    RetentionDays,      \* settings of the retention; 0: none
    Cutoffs,            \* cutoffs an operator may ask for
    Limit, ScanMax, PageBytes,  \* of a page
    Weight,             \* [kinds of rows -> size]
    Filters,            \* requests an export may select; None: all
    ClockBack, CrashAllowed,
    MaxNow, MaxRows     \* bounds

None == "none"
Terminals == {"finished", "blocked", "indeterminate"}
Kinds == Terminals \cup {"opened", "accepted", "started", "lease", "pruned", "retention"}

AuditJournalAssumption ==
    /\ Metered \subseteq Req /\ Approved \subseteq Req /\ None \notin Req
    /\ EndKinds \subseteq Terminals /\ Caps \subseteq Nat /\ Measures \subseteq Nat /\ MaxRequests \in Nat /\ MaxTokens \in Nat
    /\ Day \in Nat \ {0} /\ RetentionDays \subseteq Nat /\ Cutoffs \subseteq Nat
    /\ Limit \in Nat \ {0} /\ ScanMax \in Nat \ {0, 1} /\ PageBytes \in Nat
    /\ Weight \in [Kinds -> Nat] /\ Filters \subseteq Req \cup {None}

VARIABLES
    now,
    open,           \* whether the vault is unlocked
    journal,        \* the rows of audit_events
    next,           \* the next number; numbers are never given twice
    ledger,         \* [Req -> the row of profile_usage]
    retention,      \* the retention record
    clock,          \* retention_last_clock_ms of this process; MaxNow + 1: none yet
    running,        \* requests between their start and their terminal row
    export,         \* the command line's export; truth, for reference: the rows at its
                    \* first page
    ever            \* every row ever written, for reference

vars == <<now, open, journal, next, ledger, retention, clock, running, export, ever>>

NoCharge == [held |-> FALSE, day |-> 0, cap |-> 0, settled |-> FALSE, tokens |-> 0, terminal |-> None]
NoExport == [step |-> "idle", filter |-> None, snapshot |-> 0, before |-> 0, rows |-> {},
             truth |-> {}, valid |-> TRUE]
NoClock == MaxNow + 1

Row(seq, r, kind, at, approval) == [seq |-> seq, req |-> r, kind |-> kind, at |-> at, approval |-> approval]

Init ==
    /\ now = 0 /\ open = TRUE
    /\ journal = {Row(1, None, "opened", 0, FALSE)} /\ ever = journal /\ next = 2
    /\ ledger = [r \in Req |-> NoCharge]
    /\ retention = [days |-> 0, updated |-> 0] /\ clock = NoClock
    /\ running = {} /\ export = NoExport

\* store::audit::insert, of several rows in one commit.
Insert(rows) == journal' = journal \cup rows /\ ever' = ever \cup rows

RowsOf(r) == {row \in journal : row.req = r}
Unused(r) == {row \in ever : row.req = r} = {}

(***************************************************************************)
(* authority/usage.rs and store/usage.rs                                   *)
(***************************************************************************)
Charges(day) == {r \in Req : ledger[r].held /\ ledger[r].day = day}

\* totals
RequestsOf(day) == Cardinality(Charges(day))
TokensOf(day) == FoldSet(LAMBDA r, sum : ledger[r].tokens + sum, 0, Charges(day))

\* The accepted approval and the start, numbered in one commit.
StartRows(r) ==
    LET first == IF r \in Approved THEN {Row(next, r, "accepted", now, TRUE)} ELSE {}
    IN  first \cup {Row(next + Cardinality(first), r, "started", now, FALSE)}

\* begin_profile_execution: the rows are made before the transaction, which reads
\* the clock again for the day that is charged.
Admit(r, cap, later) ==
    /\ open /\ r \in Metered /\ Unused(r) /\ now + later <= MaxNow /\ next + 2 <= MaxRows
    /\ now' = now + later
    /\ LET day == now' \div Day
           admitted == RequestsOf(day) < MaxRequests /\ TokensOf(day) < MaxTokens
           rows == IF admitted THEN StartRows(r) ELSE {Row(next, r, "blocked", now, FALSE)}
       IN  /\ Insert(rows)
           /\ next' = next + Cardinality(rows)
           /\ ledger' = IF admitted THEN [ledger EXCEPT ![r] = [NoCharge EXCEPT !.held = TRUE,
                                                                 !.day = day, !.cap = cap]]
                        ELSE ledger
           /\ running' = IF admitted THEN running \cup {r} ELSE running
    /\ UNCHANGED <<open, retention, clock, export>>

\* settle_row
Settled(charge, kind, measured) ==
    [charge EXCEPT !.settled = TRUE, !.terminal = kind,
                   !.tokens = IF charge.cap = 0 THEN 0 ELSE IF measured = {} THEN charge.cap ELSE Max(measured)]

\* Mutant: a settlement that was already made is made again.
SettlesAgain(charge, kind, measured) == {Settled(charge, kind, measured)}

\* What a settlement changes: nothing when it was made, whether it repeats it or not.
Settles(charge, kind, measured) ==
    IF charge.settled THEN {} ELSE {Settled(charge, kind, measured)}

\* settle_profile_execution; a measure needs a generation, and the terminal row may be
\* submitted more than once.
Settle(r, kind, measured) ==
    /\ open /\ ledger[r].held /\ (r \in running \/ ledger[r].settled) /\ next < MaxRows
    /\ measured # {} => ledger[r].cap # 0
    /\ LET new == Settles(ledger[r], kind, measured)
       IN  IF new = {} THEN UNCHANGED <<ledger, journal, ever, next>>
           ELSE /\ ledger' = [ledger EXCEPT ![r] = CHOOSE c \in new : TRUE]
                /\ Insert({Row(next, r, kind, now, FALSE)}) /\ next' = next + 1
    /\ running' = running \ {r}
    /\ UNCHANGED <<now, open, retention, clock, export>>

(***************************************************************************)
(* Requests without a budget: append_audits                                *)
(***************************************************************************)
Start(r) ==
    /\ open /\ r \notin Metered /\ Unused(r) /\ next + 1 < MaxRows
    /\ Insert(StartRows(r)) /\ next' = next + Cardinality(StartRows(r))
    /\ running' = running \cup {r}
    /\ UNCHANGED <<now, open, ledger, retention, clock, export>>

\* Rows of a lease may come after the terminal row.
LeaseRow(r) ==
    /\ open /\ r \notin Metered /\ ~Unused(r) /\ next < MaxRows
    /\ \A row \in ever : row.req = r => row.kind # "lease"
    /\ Insert({Row(next, r, "lease", now, FALSE)}) /\ next' = next + 1
    /\ UNCHANGED <<now, open, ledger, retention, clock, running, export>>

End(r, kind) ==
    /\ open /\ r \in running \ Metered /\ next < MaxRows
    /\ Insert({Row(next, r, kind, now, FALSE)}) /\ next' = next + 1
    /\ running' = running \ {r}
    /\ UNCHANGED <<now, open, ledger, retention, clock, export>>

(***************************************************************************)
(* store/audit_prune.rs                                                    *)
(***************************************************************************)
OfKind(rows, kinds) == {row \in rows : row.kind \in kinds}

\* A group of one start, one later terminal row and lease rows, all old, none of
\* them about an approval.
Prunable(rows, before) ==
    /\ \A row \in rows : row.at < before /\ ~row.approval
    /\ Cardinality(OfKind(rows, {"started"})) = 1 /\ Cardinality(OfKind(rows, Terminals)) = 1
    /\ \A s \in OfKind(rows, {"started"}), t \in OfKind(rows, Terminals) : s.seq < t.seq
    /\ OfKind(rows, Kinds \ (Terminals \cup {"started", "lease"})) = {}

\* audit_prune: the rows of every group that may go.
Pruned(before) ==
    UNION {RowsOf(r) : r \in {q \in Req : Prunable(RowsOf(q), before)}}

\* The rows go and the marker comes in one commit, or nothing happens.
Prune(before) ==
    IF Pruned(before) = {} THEN UNCHANGED <<journal, ever, next>>
    ELSE LET marker == Row(next, None, "pruned", now, FALSE)
         IN  /\ journal' = (journal \ Pruned(before)) \cup {marker}
             /\ ever' = ever \cup {marker}
             /\ next' = next + 1

\* AUDIT_PRUNE; one past its deadline changes nothing.
AuditPrune(before) ==
    /\ open /\ next < MaxRows /\ before <= now
    /\ Prune(before)
    /\ UNCHANGED <<now, open, ledger, retention, clock, running, export>>

\* observe_retention_clock
ClockFine == now >= retention.updated /\ (clock = NoClock \/ now >= clock)
CutoffOf(days) == now - days * Day
CutoffFine(days) == days * Day <= now

\* audit_retention_set: the clock is observed even when nothing changes.
RetentionSet(days) ==
    /\ open /\ next < MaxRows /\ ClockFine
    /\ clock' = now
    /\ IF CutoffFine(days) /\ days # retention.days
       THEN /\ retention' = [days |-> days, updated |-> now]
            /\ Insert({Row(next, None, "retention", now, FALSE)}) /\ next' = next + 1
       ELSE UNCHANGED <<retention, journal, ever, next>>
    /\ UNCHANGED <<now, open, ledger, running, export>>

\* audit_retention_maintenance
Maintain ==
    /\ open /\ next < MaxRows /\ retention.days # 0 /\ ClockFine
    /\ clock' = now
    /\ IF CutoffFine(retention.days) THEN Prune(CutoffOf(retention.days))
       ELSE UNCHANGED <<journal, ever, next>>
    /\ UNCHANGED <<now, open, ledger, retention, running, export>>

(***************************************************************************)
(* store/audit_query.rs                                                    *)
(***************************************************************************)
Matches(row, filter) == filter = None \/ row.req = filter
LatestPrune == Max({0} \cup {row.seq : row \in OfKind(journal, {"pruned"})})
Newest == Max({row.seq : row \in journal})

\* Newest first; one row more than is scanned tells whether there are more.
Raw(top) ==
    LET rows == {row \in journal : row.seq <= top}
        newer(row) == Cardinality({o \in rows : o.seq >= row.seq})
        n == IF Cardinality(rows) < ScanMax + 1 THEN Cardinality(rows) ELSE ScanMax + 1
    IN  [i \in 1..n |-> CHOOSE row \in rows : newer(row) = i]

\* The cursor before a row that did not fit.
CursorAt(row) == row.seq + 1

\* audit_query: the rows of a page and the cursor of the next; 0 when there is none.
Page(top, filter) ==
    LET raw == Raw(top)
        scanned == IF Len(raw) < ScanMax THEN Len(raw) ELSE ScanMax
        found(i) == {raw[k] : k \in {j \in 1..i : Matches(raw[j], filter)}}
        bytes(i) == FoldSet(LAMBDA row, sum : Weight[row.kind] + sum, 0, found(i))
        stops == {i \in 1..scanned : Matches(raw[i], filter)
                    /\ (bytes(i) > PageBytes \/ Cardinality(found(i)) = Limit)}
        stop == Min(stops)
        page(rows, cursor) == [fits |-> TRUE, rows |-> rows, next |-> cursor]
    IN  IF stops = {}
        THEN page(found(scanned), IF Len(raw) > scanned THEN raw[scanned].seq ELSE 0)
        ELSE IF bytes(stop) > PageBytes
        THEN [page(found(stop - 1), CursorAt(raw[stop])) EXCEPT !.fits = found(stop - 1) # {}]
        ELSE page(found(stop), IF stop < Len(raw) THEN raw[stop].seq ELSE 0)

\* AuditPage::validate_for; a page that fails it is an integrity failure.
PageValid(page, snapshot, before) ==
    /\ Cardinality(page.rows) <= Limit
    /\ \A row \in page.rows : row.seq <= snapshot /\ (before # 0 => row.seq < before)
    /\ page.next # 0 => /\ page.next <= snapshot /\ (before # 0 => page.next < before)
                        /\ \A row \in page.rows : row.seq >= page.next
                        /\ page.rows # {} \/ page.next < snapshot

SnapshotFine(snapshot) == snapshot = 0 \/ snapshot >= LatestPrune

(***************************************************************************)
(* audit_export of the command line                                        *)
(***************************************************************************)
BeginExport(filter) ==
    /\ export.step = "idle"
    /\ export' = [NoExport EXCEPT !.step = "paging", !.filter = filter]
    /\ UNCHANGED <<now, open, journal, next, ledger, retention, clock, running, ever>>

\* One page; without a next cursor the trailer is written.
FetchPage ==
    /\ export.step = "paging" /\ open
    /\ LET snapshot == IF export.snapshot = 0 THEN Newest ELSE export.snapshot
           top == IF export.before = 0 THEN snapshot ELSE export.before - 1
           page == Page(top, export.filter)
       IN  export' =
             IF ~SnapshotFine(export.snapshot) \/ ~page.fits THEN [export EXCEPT !.step = "failed"]
             ELSE [export EXCEPT !.snapshot = snapshot, !.before = page.next,
                                 !.rows = @ \cup page.rows,
                                 !.truth = IF export.snapshot = 0
                                           THEN {row \in journal : Matches(row, export.filter)} ELSE @,
                                 !.valid = @ /\ PageValid(page, snapshot, export.before),
                                 !.step = IF page.next = 0 THEN "complete" ELSE "paging"]
    /\ UNCHANGED <<now, open, journal, next, ledger, retention, clock, running, ever>>

Orders(S) == {f \in [S -> 0..Cardinality(S) - 1] : \A a, b \in S : f[a] = f[b] => a = b}

(***************************************************************************)
(* The process and the clock                                               *)
(***************************************************************************)
\* The process ends at any moment.
Crash ==
    /\ CrashAllowed /\ open
    /\ open' = FALSE /\ running' = {} /\ clock' = NoClock
    /\ export' = IF export.step = "paging" THEN [export EXCEPT !.step = "failed"] ELSE export
    /\ UNCHANGED <<now, journal, next, ledger, retention, ever>>

Abandoned == {r \in Req : ledger[r].held /\ ~ledger[r].settled}

\* Unlock with recover_profile_usage: what the last process left is charged in full,
\* its rows numbered in the order of the ledger's keys.
Unlock(order) ==
    /\ ~open /\ next + Cardinality(Req) <= MaxRows
    /\ open' = TRUE
    /\ Insert({Row(next + order[r], r, "indeterminate", now, FALSE) : r \in Abandoned})
    /\ next' = next + Cardinality(Abandoned)
    /\ ledger' = [r \in Req |-> IF r \in Abandoned THEN Settled(ledger[r], "indeterminate", {})
                                ELSE ledger[r]]
    /\ UNCHANGED <<now, retention, clock, running, export>>

Tick ==
    /\ now < MaxNow
    /\ now' = now + 1
    /\ UNCHANGED <<open, journal, next, ledger, retention, clock, running, export, ever>>

StepBack ==
    /\ ClockBack /\ now > 0
    /\ now' = now - 1
    /\ UNCHANGED <<open, journal, next, ledger, retention, clock, running, export, ever>>

Next ==
    \/ \E r \in Req : \E cap \in Caps : \E later \in {0, 1} : Admit(r, cap, later)
    \/ \E r \in Req : \E kind \in EndKinds :
          \E measured \in {{}} \cup {{m} : m \in Measures} : Settle(r, kind, measured)
    \/ \E r \in Req : Start(r) \/ LeaseRow(r) \/ \E kind \in EndKinds : End(r, kind)
    \/ \E before \in Cutoffs : AuditPrune(before)
    \/ \E days \in RetentionDays : RetentionSet(days)
    \/ Maintain
    \/ \E filter \in Filters : BeginExport(filter)
    \/ FetchPage
    \/ \E order \in Orders(Abandoned) : Unlock(order)
    \/ Crash \/ Tick \/ StepBack

Spec == Init /\ [][Next]_vars

(***************************************************************************)
(* Properties                                                              *)
(***************************************************************************)
\* The types; a number names one row, the rows kept were written, and the pages
\* the store builds all pass their own check.
TypeOK ==
    /\ now \in 0..MaxNow /\ open \in BOOLEAN /\ next \in 1..MaxRows + 1
    /\ journal \subseteq ever
    /\ \A a, b \in ever : a.seq = b.seq => a = b
    /\ \A row \in ever : row.seq < next /\ row.kind \in Kinds
    /\ export.valid

\* An export that ends with its trailer has exactly the rows that its filter selects
\* of the moment its first page was read: none is missing, repeated or from later,
\* whatever was written, pruned or retained between its pages.
ExportIsTheSnapshot == export.step = "complete" => export.rows = export.truth

\* No day is charged more requests than its limit, over crashes, retries and prunes.
DayBudgetHolds == \A day \in 0..MaxNow \div Day : Cardinality(Charges(day)) <= MaxRequests

\* A charged request has one start ever and, once settled, one terminal row ever,
\* the one its charge names; before, none.  A refused one has its blocked row only.
ChargedOnce ==
    \A r \in Metered :
        LET rows == {row \in ever : row.req = r}
            ends == OfKind(rows, Terminals)
        IN  /\ ledger[r].held => Cardinality(OfKind(rows, {"started"})) = 1
            /\ ledger[r].settled => {row.kind : row \in ends} = {ledger[r].terminal}
            /\ ledger[r].held => Cardinality(ends) = IF ledger[r].settled THEN 1 ELSE 0
            /\ ~ledger[r].held => OfKind(rows, {"started"}) = {}

\* While the vault is open, every charge that is not settled is of a request that
\* still runs.
NoAbandonedCharge == open => Abandoned \subseteq running

\* A step that removes rows removes whole requests that have ended, keeps every row
\* about an approval, and leaves a marker newer than all of them.
PruneIsWhole ==
    LET gone == journal \ journal'
       IN  gone # {} =>
            /\ \A row \in gone : /\ row.req \in Req /\ row.req \notin running /\ ~row.approval
                                 /\ {o \in journal : o.req = row.req} \subseteq gone
            /\ \E mark \in journal' \ journal : mark.kind = "pruned"
=============================================================================
