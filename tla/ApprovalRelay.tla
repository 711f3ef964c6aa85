----------------------------- MODULE ApprovalRelay -----------------------------
(***************************************************************************)
(* The approval relay (crates/rekey-approval-relay): it carries a signed   *)
(* challenge from the operator to one approver and the approver's grant    *)
(* back, as immutable files, to members that the directory has recently    *)
(* confirmed.                                                              *)
(*                                                                         *)
(* A request is authenticated, its body awaited, its transaction committed *)
(* under the store's mutex and its answer given after that; directory      *)
(* polls, the retention and faults come between any two of these.          *)
(***************************************************************************)
EXTENDS Integers, FiniteSets, Functions

CONSTANTS Uploader,    \* uploader_subject
          Approvers,   \* configured approvers' subjects
          Movable,     \* bound: the members whom the directory removes and takes back
          Ids,         \* approval request ids
          Files,       \* challenges and grants
          ExpiryOf,    \* when a file expires
          Operations,  \* bound: the operations asked for
          Requests,    \* requests handled at the same time (16)
          FreshFor,    \* how long an observation admits (60 s)
          AnswerTime,  \* how long a request to the directory may take (3 s)
          TokenTime,   \* how long a caller's token and its request are good
          Retention,   \* how long rows and events are kept (24 h)
          MaxRows,     \* MAX_REQUESTS, MAX_BLOBS
          MaxEvents,   \* MAX_EVENTS
          MaxTime,     \* bound: the clock
          StoreFails   \* whether a transaction of the store may fail

Operation == {"put challenge", "put grant", "get challenge", "get grant", "metadata", "directory"}

RelayAssumption ==
    /\ Uploader \notin Approvers /\ Movable \subseteq Approvers \cup {Uploader}
    /\ ExpiryOf \in [Files -> Nat] /\ Operations \subseteq Operation
    /\ {FreshFor, AnswerTime, TokenTime, Retention, MaxRows, MaxEvents, MaxTime} \subseteq Nat
    /\ StoreFails \in BOOLEAN

Subjects == Approvers \cup {Uploader}

VARIABLES now,
          gone,     \* the directory: since when the member is removed (-1: active)
          obs,      \* a directory request under way, or its result not yet applied
          fresh,    \* Store::fresh: when each member was last confirmed (-1: not)
          tomb,     \* directory_subjects.tombstone
          affected, \* directory_revocations.affected_ids
          rows,     \* requests
          events,   \* transport_events: how many were created when
          fault,    \* Service::fault
          req,      \* requests under way
          told      \* members whose removal the relay was told of and has not forgotten

vars == <<now, gone, obs, fresh, tomb, affected, rows, events, fault, req, told>>

NoFile == "none"
NoRow == [ch |-> NoFile, to |-> Uploader, at |-> 0, gr |-> NoFile, gat |-> 0]
Idle == [pc |-> "idle", who |-> Uploader, op |-> "none", id |-> CHOOSE i \in Ids : TRUE,
         file |-> NoFile, to |-> Uploader, exp |-> 0, out |-> NoFile]
NoObs == [state |-> "none", says |-> "none", at |-> 0]

Init ==
    /\ now = 0 /\ gone = [s \in Subjects |-> -1]
    /\ obs = [s \in Subjects |-> NoObs] /\ fresh = [s \in Subjects |-> -1]
    /\ tomb = {} /\ affected = [s \in Subjects |-> {}]
    /\ rows = [i \in Ids |-> NoRow] /\ events = [t \in 0 .. MaxTime |-> 0]
    /\ fault = FALSE /\ req = [r \in Requests |-> Idle]
    /\ told = {}

-----------------------------------------------------------------------------
(* The directory. *)

\* A member is removed, or taken back.
DirectoryChanges(s) ==
    /\ s \in Movable
    /\ gone' = [gone EXCEPT ![s] = IF @ = -1 THEN now ELSE -1]
    /\ UNCHANGED <<now, obs, fresh, tomb, affected, rows, events, fault, req, told>>

\* poll: a request for each member; without a token of its own the relay knows
\* nothing about anybody.
PollBegins ==
    /\ ~fault /\ \A s \in Subjects : obs[s].state = "none"
    /\ \E st \in {"asked", "unknown"} :
          obs' = [s \in Subjects |-> [NoObs EXCEPT !.state = st,
                                                  !.at = IF st = "asked" THEN now ELSE 0]]
    /\ UNCHANGED <<now, gone, fresh, tomb, affected, rows, events, fault, req, told>>

\* The directory looks its record up; its answer is then on the way.
DirectoryReads(s) ==
    /\ obs[s].state = "asked"
    /\ obs' = [obs EXCEPT ![s].state = "read",
                          ![s].says = IF gone[s] = -1 THEN "active" ELSE "removed"]
    /\ UNCHANGED <<now, gone, fresh, tomb, affected, rows, events, fault, req, told>>

\* Consumer::get: the answer is complete, in the time the client allows, and
\* the observation counts from this moment.
Get(s) ==
    /\ obs[s].state = "read" /\ now - obs[s].at <= AnswerTime
    /\ obs' = [obs EXCEPT ![s] = [state |-> obs[s].says, says |-> "none", at |-> now]]
    /\ UNCHANGED <<now, gone, fresh, tomb, affected, rows, events, fault, req, told>>

\* No answer, or none that can be believed, or the poll's own deadline.
GetFails(s) ==
    /\ obs[s].state \in {"asked", "read", "active", "removed"}
    /\ obs' = [obs EXCEPT ![s] = [NoObs EXCEPT !.state = "unknown"]]
    /\ UNCHANGED <<now, gone, fresh, tomb, affected, rows, events, fault, req, told>>

\* The moment the answer was complete, not the one at which it is applied.
Confirmed(s) == obs[s].at

\* A removal is final.
Tombstoned(s) == IF obs[s].state = "removed" THEN tomb \cup {s} ELSE tomb

Parties(i) == IF rows[i].ch = NoFile THEN {} ELSE {Uploader, rows[i].to}

Completed(s) == obs[s].state \in {"active", "removed", "unknown"} /\ ~fault

\* apply_directory up to its commit, and what is held in memory.
Applied(s) ==
    /\ tomb' = Tombstoned(s)
    /\ fresh' = [fresh EXCEPT ![s] =
                    IF obs[s].state = "active" /\ s \notin tomb THEN Confirmed(s) ELSE -1]
    /\ affected' = IF obs[s].state = "removed" /\ s \notin tomb
                   THEN [affected EXCEPT ![s] = {i \in Ids : s \in Parties(i)}]
                   ELSE affected

\* The observation is used up, whether it could be applied or not.
Told(s) ==
    /\ told' = IF obs[s].state = "removed" THEN told \cup {s} ELSE told
    /\ obs' = [obs EXCEPT ![s] = NoObs]

Apply(s) ==
    /\ Completed(s) /\ Applied(s) /\ Told(s)
    /\ UNCHANGED <<now, gone, rows, events, fault, req>>

\* A failure, before the commit or of the files after it, latches the fault
\* while the store is still locked.
ApplyFails(s) ==
    /\ StoreFails /\ Completed(s) /\ Told(s)
    /\ Applied(s) \/ UNCHANGED <<fresh, tomb, affected>>
    /\ fault' = TRUE
    /\ UNCHANGED <<now, gone, rows, events, req>>

-----------------------------------------------------------------------------
(* Requests. *)

\* Store::gate.
Gate(s) == s \notin tomb /\ fresh[s] >= 0 /\ now - fresh[s] <= FreshFor

\* authenticate: who asks, until when the token is good, and for what.
Authenticate(r) ==
    /\ req[r].pc = "idle" /\ ~fault
    /\ \E w \in Subjects, i \in Ids, o \in Operations :
       \E f \in IF o \in {"put challenge", "put grant"} THEN Files ELSE {NoFile},
          t \in IF o = "put challenge" THEN Approvers ELSE {Uploader} :
          req' = [req EXCEPT ![r] = [Idle EXCEPT !.pc = "body", !.who = w, !.op = o, !.id = i,
                                         !.exp = now + TokenTime, !.file = f, !.to = t]]
    /\ UNCHANGED <<now, gone, obs, fresh, tomb, affected, rows, events, fault, told>>

Recheck(r) == now < req[r].exp
InTime(r) == Recheck(r) /\ (req[r].out # NoFile => ExpiryOf[req[r].out] > now)
Back(r) == req' = [req EXCEPT ![r] = Idle]

\* Store::event: a full table refuses.
Count(e) == FoldFunction(+, 0, e)
Room == Count(events) < MaxEvents
Event == events' = [events EXCEPT ![now] = @ + 1]

\* denied: the refusal is recorded too, also that of a request from nobody
\* known, unless there is no room; a failure to record it stops the relay.
Denied(r) ==
    /\ \/ req[r].pc = "idle" /\ ~fault
       \/ req[r].pc = "body"
       \/ req[r].pc = "answer" /\ ~InTime(r)
    /\ \/ (IF Room /\ ~fault THEN Event ELSE UNCHANGED events) /\ UNCHANGED fault
       \/ StoreFails /\ fault' = TRUE /\ UNCHANGED events
    /\ Back(r)
    /\ UNCHANGED <<now, gone, obs, fresh, tomb, affected, rows, told>>

IsParty(r) == req[r].who \in Parties(req[r].id)

Admitted(r, parties) ==
    /\ req[r].pc = "body" /\ ~fault /\ Recheck(r) /\ Room
    /\ \A s \in parties \cup {req[r].who} : Gate(s)

\* The transaction committed, and the answer on its way; or the files are no
\* longer as they should be after it, which stops the relay instead.
Answer(r, out) ==
    \/ /\ req' = [req EXCEPT ![r] = [Idle EXCEPT !.pc = "answer", !.who = req[r].who,
                                                 !.exp = req[r].exp, !.out = out]]
       /\ UNCHANGED fault
    \/ StoreFails /\ fault' = TRUE /\ Back(r)

\* operate: a new challenge, for an approver whom the directory confirms.
PutChallenge(r) ==
    LET q == req[r]
    IN /\ q.op = "put challenge" /\ q.who = Uploader /\ rows[q.id].ch = NoFile
       /\ Admitted(r, {q.to}) /\ ExpiryOf[q.file] > now
       /\ Cardinality({i \in Ids : rows[i].ch # NoFile}) < MaxRows
       /\ rows' = [rows EXCEPT ![q.id] = [NoRow EXCEPT !.ch = q.file, !.to = q.to, !.at = now]]
       /\ Event
       /\ Answer(r, NoFile)
       /\ UNCHANGED <<now, gone, obs, fresh, tomb, affected, told>>

\* The grant of the approver it was addressed to, within the challenge's time.
PutGrant(r) ==
    LET q == req[r]
    IN /\ q.op = "put grant" /\ rows[q.id].ch # NoFile /\ q.who = rows[q.id].to
       /\ rows[q.id].gr = NoFile /\ Admitted(r, Parties(q.id))
       /\ ExpiryOf[q.file] <= ExpiryOf[rows[q.id].ch] /\ ExpiryOf[q.file] > now
       /\ rows' = [rows EXCEPT ![q.id].gr = q.file, ![q.id].gat = now]
       /\ Event
       /\ Answer(r, NoFile)
       /\ UNCHANGED <<now, gone, obs, fresh, tomb, affected, told>>

\* The same file once more, a receipt or a page of the inbox: an event only.
Repeat(r) ==
    LET q == req[r]
    IN /\ \/ q.op = "put challenge" /\ rows[q.id].ch = q.file /\ rows[q.id].to = q.to
             /\ q.who = Uploader
          \/ q.op = "put grant" /\ rows[q.id].gr = q.file /\ q.who = rows[q.id].to
          \/ q.op = "metadata" /\ IsParty(r)
       /\ Admitted(r, Parties(q.id))
       /\ Event /\ Answer(r, NoFile)
       /\ UNCHANGED <<now, gone, obs, fresh, tomb, affected, rows, told>>

\* revocations for the uploader, admin_identity: about the directory, not a file.
ReadDirectory(r) ==
    /\ req[r].op = "directory" /\ Admitted(r, {})
    /\ Event /\ Answer(r, NoFile)
    /\ UNCHANGED <<now, gone, obs, fresh, tomb, affected, rows, told>>

Wanted(q) == IF q.op = "get challenge" THEN rows[q.id].ch ELSE rows[q.id].gr

Download(r) ==
    LET q == req[r]
    IN /\ q.op \in {"get challenge", "get grant"} /\ IsParty(r)
       /\ Wanted(q) # NoFile /\ ExpiryOf[Wanted(q)] > now
       /\ Admitted(r, Parties(q.id))
       /\ Event /\ Answer(r, Wanted(q))
       /\ UNCHANGED <<now, gone, obs, fresh, tomb, affected, rows, told>>

\* After the commit the file's time is looked at once more and, last, the token;
\* the members are not, they were when it committed.
Respond(r) ==
    /\ req[r].pc = "answer" /\ Recheck(r)
    /\ Back(r)
    /\ UNCHANGED <<now, gone, obs, fresh, tomb, affected, rows, events, fault, told>>

\* A transaction that fails before its commit stops the relay.
OperateFails(r) ==
    /\ StoreFails /\ req[r].pc = "body" /\ ~fault
    /\ fault' = TRUE /\ Back(r)
    /\ UNCHANGED <<now, gone, obs, fresh, tomb, affected, rows, events, told>>

-----------------------------------------------------------------------------
(* Retention, stop and start. *)

Old(i) ==
    /\ rows[i].ch # NoFile /\ rows[i].at < now - Retention
    /\ rows[i].gr = NoFile \/ rows[i].gat < now - Retention

Kept == [t \in DOMAIN events |-> IF t < now - Retention THEN 0 ELSE events[t]]
Obsolete == (\E i \in Ids : Old(i)) \/ Kept # events

\* Service::cleanup: with the record of the cleanup, in one transaction; no room
\* for that record is an error, and an error of the cleanup stops the relay.
Cleanup ==
    /\ ~fault /\ Obsolete
    /\ IF Count(Kept) < MaxEvents
       THEN /\ rows' = [i \in Ids |-> IF Old(i) THEN NoRow ELSE rows[i]]
            /\ events' = [Kept EXCEPT ![now] = @ + 1]
            /\ UNCHANGED fault
       ELSE fault' = TRUE /\ UNCHANGED <<rows, events>>
    /\ UNCHANGED <<now, gone, obs, fresh, tomb, affected, req, told>>

\* The process ends and is started again; what is in memory is gone.
Restart ==
    /\ fault
    /\ fault' = FALSE /\ fresh' = [s \in Subjects |-> -1] /\ told' = told \cap tomb
    /\ obs' = [s \in Subjects |-> NoObs] /\ req' = [r \in Requests |-> Idle]
    /\ UNCHANGED <<now, gone, tomb, affected, rows, events>>

Tick ==
    /\ now < MaxTime /\ now' = now + 1
    /\ UNCHANGED <<gone, obs, fresh, tomb, affected, rows, events, fault, req, told>>

Handle(r) ==
    \/ Authenticate(r) \/ Denied(r) \/ PutChallenge(r) \/ PutGrant(r) \/ Repeat(r)
    \/ ReadDirectory(r) \/ Download(r) \/ Respond(r) \/ OperateFails(r)

Next ==
    \/ \E r \in Requests : Handle(r)
    \/ \E s \in Subjects : 
          \/ DirectoryChanges(s) \/ DirectoryReads(s) \/ Get(s) \/ GetFails(s)
          \/ Apply(s) \/ ApplyFails(s)
    \/ PollBegins \/ Cleanup \/ Restart \/ Tick

Spec == Init /\ [][Next]_vars

-----------------------------------------------------------------------------
(* Properties. *)

TypeOK ==
    /\ \A s \in Subjects : fresh[s] \in -1 .. now
    /\ tomb \subseteq Subjects /\ Count(events) <= MaxEvents
    /\ \A i \in Ids : rows[i].ch \in Files \cup {NoFile} /\ rows[i].gr \in Files \cup {NoFile}

\* A file goes to nobody whom the directory removed longer ago than its last
\* answer may have been on the way, an observation lasts and a request already
\* admitted may take: an observation is as old as its answer, whenever it is
\* applied, and every transaction looks at it again.
RemovedIsCutOff ==
    \A r \in Requests :
      Respond(r) /\ req[r].out # NoFile =>
          gone[req[r].who] = -1 \/ now - gone[req[r].who] < AnswerTime + FreshFor + TokenTime

\* From the moment the relay has been told of a removal, whether that could be
\* stored or not, no transaction on the member's behalf is answered or changes
\* a row: a failed application faults before the store is free again.
ToldIsFinal ==
    \A r \in Requests :
      (req[r].pc = "body" /\ req' # req /\ (req'[r].pc = "answer" \/ rows' # rows)) =>
          told \cap ({req[r].who} \cup
              (IF req[r].op = "directory" THEN {} ELSE Parties(req[r].id))) = {}

\* The revocation record names every exchange of the removed member that is
\* still stored: none can be added after the removal, whoever uploads it, and
\* though the directory takes the member back or the relay restarts.
RevocationIsComplete ==
    \A s \in tomb, i \in Ids : s \in Parties(i) => i \in affected[s]

\* A stored file is never replaced: who fetched it and who fetches it later
\* have the same bytes, until the retention removes the whole exchange.
FilesAreImmutable ==
    \A i \in Ids :
      rows[i].ch # NoFile /\ rows'[i].ch # NoFile =>
         /\ rows'[i].ch = rows[i].ch /\ rows'[i].to = rows[i].to
         /\ rows[i].gr # NoFile => rows'[i].gr = rows[i].gr

\* A grant that is handed in late keeps its exchange for the whole retention.
GrantsAreRetained ==
    \A i \in Ids :
      rows[i].gr # NoFile /\ rows'[i].gr = NoFile => rows[i].gat < now - Retention
=============================================================================
