----------------------------- MODULE DesktopUnlock -----------------------------
(***************************************************************************)
(* How a person gets back into the vault: passwords with their back-off,   *)
(* the remembered desktop ticket, the presence grant it gives for step-up  *)
(* proofs, and the desktop session                                         *)
(* (crates/rekey-vault/src/authority/desktop.rs, authority.rs).            *)
(*                                                                         *)
(* The ticket is a file that seals the root key under a bearer key held by *)
(* the desktop application.  It outlives a clean stop of the broker and    *)
(* nothing else: a marker file tells an unclean end from a clean one.  Two *)
(* clocks matter, the wall clock, which can be set back, and the monotonic *)
(* clock of the process.  Directory entries are durable only after fsync.  *)
(***************************************************************************)
EXTENDS Integers, FiniteSets

CONSTANTS Lifetimes,      \* lifetimes a ticket can be asked for
          SessionLife,    \* LIFETIME_MS, the longest desktop session
          Free,           \* FREE_UNLOCK_FAILURES
          BackoffCap,     \* UNLOCK_BACKOFF_CAP, in units of unlock_backoff_base
          DiskFails,      \* whether removing the ticket or fsync may fail
          MaxTickets,     \* bound on tickets issued
          MaxTime,        \* bound on both clocks
          MaxBack,        \* bound on the steps the wall clock is set back
          MaxEnds         \* bound on ends of the process

DesktopAssumption ==
    /\ Lifetimes \subseteq Nat \ {0} /\ SessionLife \in Nat \ {0}
    /\ Free \in Nat \ {0} /\ BackoffCap \in Nat \ {0}
    /\ DiskFails \in BOOLEAN
    /\ MaxTickets \in Nat /\ MaxTime \in Nat /\ MaxBack \in Nat
    /\ MaxEnds \in Nat

VARIABLES st,       \* down, starting, locked, unlocked, faulted, stopping
          vol,      \* the state directory as the process sees it
          dur,      \* the state directory as a power failure may find it
          grant,    \* presence_grant
          session,  \* desktop_session: a deadline, or -1
          resumed,  \* desktop_resume_expiry, or -1
          failed,   \* failed_unlocks
          nextAt,   \* next_unlock_at
          wall, mono,
          hist      \* history, see Init

vars == <<st, vol, dur, grant, session, resumed, failed, nextAt, wall, mono, hist>>
desk == <<grant, session, resumed>>
tries == <<failed, nextAt>>
disk == <<vol, dur>>
clocks == <<wall, mono>>

NoFile == [key |-> 0, issued |-> 0, expires |-> 0, stepUp |-> FALSE]
NoGrant == [mode |-> "none", key |-> 0, issued |-> 0, expires |-> 0,
            deadline |-> 0, stepUp |-> FALSE]

\* hist.born: monotonic time at which a ticket was first granted by this
\* process, with its lifetime; hist.gone: tickets that were forgotten or whose
\* process ended uncleanly; hist.guesses and hist.since: wrong secrets since
\* the last right one; hist.fresh: presence was granted in this unlock;
\* hist.torn: the machine failed when a removal was not durable and the marker
\* that makes up for it had been removed.
Init ==
    /\ st = "down" /\ wall = 0 /\ mono = 0
    /\ vol = [file |-> NoFile, marker |-> FALSE] /\ dur = vol
    /\ grant = NoGrant /\ session = -1 /\ resumed = -1
    /\ failed = 0 /\ nextAt = 0
    /\ hist = [issued |-> 0, born |-> [k \in 1..MaxTickets |-> -1],
               life |-> [k \in 1..MaxTickets |-> 0], gone |-> {},
               guesses |-> 0, since |-> 0, fresh |-> FALSE, torn |-> FALSE,
               back |-> 0, ends |-> 0]

-----------------------------------------------------------------------------
(* The state directory. *)

\* The tickets that a forgetting takes out of circulation: all so far.
Gone == 1..hist.issued

\* forget_desktop: remove_file of the ticket and fsync of the directory; a
\* ticket that is not there is taken for forgotten, without an fsync.  They
\* can fail in two ways: the entry stays, or it is removed but not durably.
Removed ==
    IF vol.file = NoFile THEN UNCHANGED disk
    ELSE vol' = [vol EXCEPT !.file = NoFile] /\ dur' = vol'
RemoveFailed ==
    /\ DiskFails /\ vol.file # NoFile
    /\ \/ UNCHANGED disk
       \/ vol' = [vol EXCEPT !.file = NoFile] /\ UNCHANGED dur

BeginRuntimeUnmarked ==
    vol' = [vol EXCEPT !.marker = TRUE] /\ dur' = vol'

\* begin_runtime: a marker left behind means an unclean end, and the ticket
\* goes before anything else happens; the marker itself stays.
BeginRuntime ==
    /\ vol' = IF vol.marker THEN [vol EXCEPT !.file = NoFile]
              ELSE [vol EXCEPT !.marker = TRUE]
    /\ dur' = vol'

\* spawn_authority: everything in memory starts over.
Start ==
    /\ st = "down" /\ hist.ends <= MaxEnds
    /\ BeginRuntime
    /\ st' = "locked" /\ grant' = NoGrant /\ session' = -1 /\ resumed' = -1
    /\ failed' = 0 /\ nextAt' = mono
    /\ hist' = [hist EXCEPT !.guesses = 0, !.since = mono, !.fresh = FALSE,
                            !.born = [k \in 1..MaxTickets |-> -1]]
    /\ UNCHANGED clocks

\* begin_runtime whose fsync fails: the broker does not start.
StartFails ==
    /\ st = "down" /\ DiskFails
    /\ vol' = IF vol.marker THEN [vol EXCEPT !.file = NoFile] ELSE [vol EXCEPT !.marker = TRUE]
    /\ UNCHANGED <<st, dur, desk, tries, clocks, hist>>

\* The process dies: what it had written it still finds.
Crash ==
    /\ st # "down" /\ hist.ends < MaxEnds
    /\ st' = "down"
    /\ hist' = [hist EXCEPT !.gone = IF st = "stopping" THEN @ ELSE Gone,
                            !.ends = @ + 1]
    /\ UNCHANGED <<disk, desk, tries, clocks>>

\* The machine dies: an entry that was not synced is found old or new.
PowerFailure ==
    /\ hist.ends < MaxEnds
    /\ st' = "down"
    /\ \E f \in {vol.file, dur.file}, m \in {vol.marker, dur.marker} :
          /\ vol' = [file |-> f, marker |-> m]
          /\ hist' = [hist EXCEPT
                !.gone = IF st \in {"down", "stopping"} THEN @ ELSE Gone,
                !.torn = @ \/ (vol.file # dur.file /\ ~vol.marker),
                !.ends = @ + 1]
    /\ dur' = vol'
    /\ UNCHANGED <<desk, tries, clocks>>

\* Shutdown of the worker at a clean stop, which preserves the ticket; then
\* finish_runtime removes the marker.
Shutdown ==
    /\ st \in {"locked", "unlocked"} /\ hist.ends < MaxEnds
    /\ st' = "stopping" /\ grant' = NoGrant /\ session' = -1
    /\ UNCHANGED <<disk, resumed, tries, clocks, hist>>

\* finish_runtime removes the marker of a clean stop ...
RemoveMarker ==
    /\ st = "stopping" /\ vol.marker
    /\ vol' = [vol EXCEPT !.marker = FALSE]
    /\ UNCHANGED <<st, dur, desk, tries, clocks, hist>>

\* ... and makes that durable; when it cannot, the ticket goes as well, unless
\* it is not there.  That removal, or its own fsync, may fail too: the stop
\* returns an error, and the directory is as it is.
FinishRuntime ==
    /\ st = "stopping" /\ ~vol.marker
    /\ st' = "down"
    /\ \/ /\ dur' = vol /\ UNCHANGED vol
          /\ hist' = [hist EXCEPT !.ends = @ + 1]
       \/ /\ DiskFails
          /\ vol' = [vol EXCEPT !.file = NoFile]
          /\ \/ vol.file # NoFile /\ dur' = vol'
             \/ UNCHANGED dur
          /\ hist' = [hist EXCEPT !.gone = Gone, !.ends = @ + 1]
       \/ /\ DiskFails /\ vol.file # NoFile
          /\ UNCHANGED disk
          /\ hist' = [hist EXCEPT !.ends = @ + 1]
    /\ UNCHANGED <<desk, tries, clocks>>

-----------------------------------------------------------------------------
(* Forgetting. *)

\* Worker::fault after forget_desktop has failed or anything else went wrong;
\* it tries to remove the ticket once more and ignores the outcome.
FaultForgetting ==
    /\ st' = "faulted" /\ grant' = NoGrant
    /\ Removed
    /\ hist' = [hist EXCEPT !.gone = Gone]
    /\ UNCHANGED <<session, resumed, tries, clocks>>

\* Worker::fault whose removal fails as well.
FaultHolding ==
    /\ st' = "faulted" /\ grant' = NoGrant
    /\ RemoveFailed
    /\ hist' = [hist EXCEPT !.gone = Gone]
    /\ UNCHANGED <<session, resumed, tries, clocks>>

Fault == st \in {"locked", "unlocked"} /\ (FaultForgetting \/ FaultHolding)

-----------------------------------------------------------------------------
(* Secrets and back-off. *)

Double(n) == IF n = 0 THEN 1 ELSE IF n = 1 THEN 2 ELSE IF n = 2 THEN 4 ELSE 8

\* advance_unlock_backoff.
Delay(n) ==
    IF n < Free THEN 0
    ELSE LET d == Double(n - Free) IN IF d > BackoffCap THEN BackoffCap ELSE d

AdvanceUnlockBackoff ==
    /\ failed' = failed + 1
    /\ nextAt' = IF Delay(failed + 1) = 0 THEN nextAt
                 ELSE mono + Delay(failed + 1)
    /\ hist' = [hist EXCEPT !.guesses = @ + 1]

MayTry == mono >= nextAt

\* A wrong password or recovery key, at unlock, verify_proof,
\* verify_shutdown_proof or rotate_vrk.
WrongSecret ==
    /\ st \in {"locked", "unlocked"} /\ MayTry
    /\ AdvanceUnlockBackoff
    /\ UNCHANGED <<st, disk, desk, clocks>>

\* verify_proof or verify_shutdown_proof with the right secret.
ProveSecret ==
    /\ st \in {"locked", "unlocked"} /\ MayTry
    /\ failed' = 0 /\ nextAt' = mono
    /\ hist' = [hist EXCEPT !.guesses = 0, !.since = mono]
    /\ UNCHANGED <<st, disk, desk, clocks>>

\* suspend_presence.
Suspended == IF grant.mode = "none" THEN grant
             ELSE [grant EXCEPT !.mode = "deadline-only"]

\* unlock with the right secret, also of an unlocked vault.
Unlock ==
    /\ st \in {"locked", "unlocked"} /\ MayTry
    /\ st' = "unlocked"
    /\ grant' = Suspended /\ resumed' = -1 /\ session' = -1
    /\ failed' = 0 /\ nextAt' = mono
    /\ hist' = [hist EXCEPT !.guesses = 0, !.since = mono, !.fresh = FALSE]
    /\ UNCHANGED <<disk, clocks>>

\* set_locked that preserves the ticket (a restart of the service).
LockPreserving ==
    /\ st \in {"locked", "unlocked"}
    /\ st' = "locked"
    /\ grant' = Suspended /\ resumed' = -1 /\ session' = -1
    /\ hist' = [hist EXCEPT !.fresh = FALSE]
    /\ UNCHANGED <<disk, tries, clocks>>

\* set_locked by the person or by the idle timer: the ticket is forgotten.
LockForgetting ==
    /\ st \in {"locked", "unlocked"}
    /\ st' = "locked" /\ Removed
    /\ grant' = NoGrant /\ resumed' = -1 /\ session' = -1
    /\ hist' = [hist EXCEPT !.gone = Gone, !.fresh = FALSE]
    /\ UNCHANGED <<tries, clocks>>

\* password_change and recovery_rotate forget the ticket before they commit;
\* when that fails they return the error and the vault stays unlocked.
ChangeSecret ==
    /\ st = "unlocked" /\ MayTry
    /\ failed' = 0 /\ nextAt' = mono
    /\ grant' = NoGrant
    /\ \/ /\ Removed
          /\ hist' = [hist EXCEPT !.gone = Gone, !.guesses = 0, !.since = mono,
                                  !.fresh = FALSE]
       \/ /\ RemoveFailed
          /\ hist' = [hist EXCEPT !.guesses = 0, !.since = mono, !.fresh = FALSE]
    /\ UNCHANGED <<st, session, resumed, clocks>>

-----------------------------------------------------------------------------
(* The ticket. *)

\* PresenceGrant::new at the present time.
NewGrant(t) ==
    [mode |-> "active", key |-> t.key, issued |-> t.issued,
     expires |-> t.expires, deadline |-> mono + (t.expires - wall),
     stepUp |-> t.stepUp]

Born(k, l) ==
    [hist EXCEPT !.born[k] = IF @ = -1 THEN mono ELSE @, !.life[k] = l]

\* remember_desktop_with: the old ticket is forgotten first, one way; then a
\* new key seals the root and the grant is published.
RememberDesktop(life, stepUp) ==
    LET k == hist.issued + 1
        t == [key |-> k, issued |-> wall, expires |-> wall + life,
              stepUp |-> stepUp]
    IN
    /\ st = "unlocked" /\ MayTry /\ hist.issued < MaxTickets
    /\ failed' = 0 /\ nextAt' = mono
    /\ vol' = [vol EXCEPT !.file = t] /\ dur' = vol'
    /\ grant' = NewGrant(t)
    /\ session' = IF session > mono + life THEN mono + life ELSE session
    /\ hist' = [Born(k, life) EXCEPT !.issued = k, !.gone = Gone,
                    !.guesses = 0, !.since = mono, !.fresh = TRUE]
    /\ UNCHANGED <<st, resumed, clocks>>

\* remember_desktop_with fails after the old ticket is gone: a passed
\* deadline, a full disk; whatever was written is removed again.
RememberFailed ==
    /\ st = "unlocked" /\ MayTry
    /\ failed' = 0 /\ nextAt' = mono
    /\ Removed /\ grant' = NoGrant
    /\ hist' = [hist EXCEPT !.gone = Gone, !.guesses = 0, !.since = mono,
                            !.fresh = FALSE]
    /\ UNCHANGED <<st, session, resumed, clocks>>

\* cap_to_same_ticket: the same ticket never gets a later deadline.
Cap(g) ==
    IF /\ grant.mode # "none" /\ grant.key = g.key
       /\ grant.issued = g.issued /\ grant.expires = g.expires
       /\ grant.deadline < g.deadline
    THEN [g EXCEPT !.deadline = grant.deadline] ELSE g

\* verify_at, for the key that the ticket belongs to.
Alive(g) == g.issued <= wall /\ wall < g.expires /\ mono < g.deadline

\* resume_desktop with the bearer key of ticket k.
ResumeDesktop(k) ==
    LET g == Cap(NewGrant(vol.file)) IN
    /\ st \in {"locked", "unlocked"}
    /\ vol.file # NoFile /\ vol.file.key = k /\ Alive(g)
    /\ st' = "unlocked" /\ session' = -1 /\ resumed' = g.expires
    /\ grant' = g
    /\ hist' = [Born(k, g.expires - g.issued) EXCEPT !.fresh = TRUE]
    /\ UNCHANGED <<disk, tries, clocks>>

\* resume_desktop that is verified but runs out of time before it is
\* published: the cap is kept, the authority is not.
ResumeLate(k) ==
    LET g == Cap(NewGrant(vol.file)) IN
    /\ st \in {"locked", "unlocked"}
    /\ vol.file # NoFile /\ vol.file.key = k /\ Alive(g)
    /\ grant' = [g EXCEPT !.mode = "deadline-only"]
    /\ hist' = [Born(k, g.expires - g.issued) EXCEPT !.fresh = FALSE]
    /\ UNCHANGED <<st, disk, session, resumed, tries, clocks>>

\* resume_desktop with anything else: the grant is suspended all the same.
ResumeRefused(k) ==
    /\ st \in {"locked", "unlocked"}
    /\ \/ vol.file.key # k
       \/ ~Alive(Cap(NewGrant(vol.file)))
    /\ grant' = Suspended
    /\ hist' = [hist EXCEPT !.fresh = FALSE]
    /\ UNCHANGED <<st, disk, session, resumed, tries, clocks>>

\* verify_proof with a presence proof: it does not reset the back-off.
VerifyPresence ==
    /\ st = "unlocked" /\ MayTry
    /\ grant.mode = "active" /\ grant.stepUp /\ Alive(grant)
    /\ UNCHANGED vars

\* A presence proof that is refused counts as a failure.
WrongPresence ==
    /\ st = "unlocked" /\ MayTry
    /\ AdvanceUnlockBackoff
    /\ UNCHANGED <<st, disk, desk, clocks>>

-----------------------------------------------------------------------------
(* The desktop session. *)

MinOf(a, b) == IF a < b THEN a ELSE b

\* desktop_session_duration.
SessionDuration ==
    LET d == IF resumed = -1 THEN SessionLife
             ELSE MinOf(resumed - wall, SessionLife)
    IN IF grant.mode = "active" /\ resumed # -1
       THEN MinOf(d, grant.deadline - mono) ELSE d

\* DesktopIssue.
DesktopIssue ==
    /\ st = "unlocked" /\ (resumed # -1 => resumed > wall)
    /\ session' = mono + SessionDuration
    /\ UNCHANGED <<st, disk, grant, resumed, tries, clocks, hist>>

\* verify_desktop.
SessionValid == st = "unlocked" /\ mono < session /\ (resumed # -1 => wall < resumed)

\* lock_desktop with the session's token, keeping or forgetting the ticket.
LockDesktop(forget) ==
    /\ SessionValid
    /\ session' = -1
    /\ IF forget
       THEN /\ Removed /\ grant' = NoGrant
            /\ hist' = [hist EXCEPT !.gone = Gone, !.fresh = FALSE]
       ELSE UNCHANGED <<disk, grant, hist>>
    /\ UNCHANGED <<st, resumed, tries, clocks>>

-----------------------------------------------------------------------------
Tick ==
    /\ wall < MaxTime /\ mono < MaxTime
    /\ wall' = wall + 1 /\ mono' = mono + 1
    /\ UNCHANGED <<st, disk, desk, tries, hist>>

WallSetBack ==
    /\ hist.back < MaxBack /\ wall > 0
    /\ wall' = wall - 1
    /\ hist' = [hist EXCEPT !.back = @ + 1]
    /\ UNCHANGED <<st, disk, desk, tries, mono>>

Next ==
    \/ Start \/ StartFails \/ Crash \/ PowerFailure \/ Shutdown \/ RemoveMarker \/ FinishRuntime \/ Fault
    \/ WrongSecret \/ ProveSecret \/ Unlock \/ LockPreserving \/ LockForgetting
    \/ ChangeSecret \/ RememberFailed
    \/ \E l \in Lifetimes, u \in BOOLEAN : RememberDesktop(l, u)
    \/ \E k \in 1..hist.issued :
          ResumeDesktop(k) \/ ResumeLate(k) \/ ResumeRefused(k)
    \/ VerifyPresence \/ WrongPresence
    \/ DesktopIssue \/ \E f \in BOOLEAN : LockDesktop(f)
    \/ Tick \/ WallSetBack

Spec == Init /\ [][Next]_vars

-----------------------------------------------------------------------------
(* Properties. *)

TypeOK ==
    /\ st \in {"down", "locked", "unlocked", "faulted", "stopping"}
    /\ vol.file.key \in 0..MaxTickets /\ vol.marker \in BOOLEAN
    /\ grant.mode \in {"none", "active", "deadline-only"}
    /\ session \in -1..(MaxTime + SessionLife)
    /\ failed \in Nat /\ nextAt \in 0..(MaxTime + BackoffCap)

\* A ticket that was forgotten, replaced, or open when the process or the
\* machine died is never found by a running broker again, whatever the
\* directory looked like when the power went and although removals and fsync
\* fail: what an unsynced removal leaves behind, the crash marker makes up for
\* (begin_runtime keeps it until a clean stop has made the deletion durable).
\* The exception is the one moment without either: a clean stop has removed the
\* marker, the removal of the ticket before it was never synced (forget_desktop
\* takes a missing file for forgotten, finish_runtime's second fsync may fail),
\* and the machine fails before the directory is.
ForgottenTicketIsGone ==
    st \in {"locked", "unlocked"} => vol.file.key \notin hist.gone \/ hist.torn

\* Within one run of the broker a ticket lives no longer than its lifetime on
\* the monotonic clock, however often it is resumed and however the wall
\* clock is set back in between (cap_to_same_ticket, suspend_presence).
TicketNotExtended ==
    grant.mode # "none" =>
        grant.deadline <= hist.born[grant.key] + hist.life[grant.key]

\* A presence proof can only succeed if the ticket was remembered or resumed
\* since the vault was last locked or unlocked by other means (unlock,
\* set_locked and a failed resume suspend the grant).
PresenceIsFresh ==
    (st = "unlocked" /\ grant.mode = "active") => hist.fresh

\* A desktop session opened from a ticket ends with that ticket, also when a
\* shorter ticket replaces it meanwhile (desktop_session_duration,
\* remember_desktop_with).
SessionWithinTicket ==
    (session # -1 /\ resumed # -1 /\ grant.mode = "active") =>
        session <= grant.deadline

\* The delays after the first n failures, together.
Waits[n \in Nat] == IF n = 0 THEN 0 ELSE Delay(n) + Waits[n - 1]

\* Wrong guesses are spaced by the back-off: n of them since the last right
\* secret take at least the delays of the first n - 1, and a presence proof in
\* between buys no new free attempts (advance_unlock_backoff, verify_proof).
GuessesAreSpaced ==
    hist.guesses > 0 => mono - hist.since >= Waits[hist.guesses - 1]

=============================================================================
