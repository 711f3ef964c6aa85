---------------------------- MODULE AgentChannel ----------------------------
(***************************************************************************)
(* How an execution's answer reaches a client: the accept loop with its    *)
(* slots and capacity replies (runtime/connections.rs), a connection that  *)
(* serves one frame at a time (ipc/agent.rs), the HTTP service             *)
(* (runtime/gateway.rs) and the execution supervisor with its queue, its   *)
(* tasks and a channel of one event per streamed answer                    *)
(* (execution_supervisor.rs, executor/text_stream.rs).  Broker has what an *)
(* execution does; here it is admitted, sends its request, produces chunks *)
(* and settles.                                                            *)
(***************************************************************************)
EXTENDS Integers, Sequences, FiniteSets, TLC, SequencesExt

CONSTANTS Clients, 
          Kinds,         \* what the clients send: subset of AllKinds
          Slots,         \* MAX_AGENT_REQUEST_CONNECTIONS
          Replies,       \* CAPACITY_REPLY_CONNECTIONS_PER_CHANNEL
          QueueCapacity, \* EXECUTION_QUEUE_CAPACITY
          MaxTasks,      \* MAX_EXECUTION_TASKS
          MaxChunks,     \* bound: chunks of one streamed answer
          MaxRequests,   \* bound: requests in all
          Stops          \* whether the runtime stops, a task panics or the listener fails

\* EXECUTE_TEXT_STREAM, EXECUTE_FIXED_HTTP_ACTION, CALL, a request of the HTTP
\* service, and the wait for an approval, an access or an unlock.
AllKinds == {"stream", "execute", "call", "http", "await"}

ChannelAssumption ==
    /\ Kinds \subseteq AllKinds /\ Stops \in BOOLEAN
    /\ {Slots, QueueCapacity, MaxTasks, MaxRequests} \subseteq Nat \ {0}
    /\ {Replies, MaxChunks} \subseteq Nat

VARIABLES conn,      \* the connections of the clients
          job,       \* the executions, by request
          next,      \* the next request
          queue,     \* jobs the supervisor has not taken
          taking,    \* the supervisor takes jobs
          listening, \* the accept loop runs
          shut,      \* the shutdown notice
          decided    \* the approval that is awaited has been decided

vars == <<conn, job, next, queue, taking, listening, shut, decided>>
runtime == <<taking, listening, shut, decided>>

Requests == 1..MaxRequests
NoFrame == [type |-> "none", n |-> 0]
Frame(t, n) == [type |-> t, n |-> n]

\* r: its request; admitted: the stream was; n: chunks taken; frame: to be
\* written; woken: the notification it waits for was given; late: its deadline
\* has passed; gone: the client has left without the broker knowing
Away == [st |-> "away", r |-> 0, admitted |-> FALSE, n |-> 0, frame |-> NoFrame,
         woken |-> FALSE, late |-> FALSE, gone |-> FALSE]
Idle == [Away EXCEPT !.st = "idle"]

\* raw: the answer is streamed; ch: the channel; rx and tx: its ends; out: what
\* the client got; effect: its request was handed to the transport
NoJob == [st |-> "none", kind |-> "none", raw |-> FALSE, ch |-> <<>>, rx |-> FALSE, tx |-> FALSE,
          admitted |-> FALSE, effect |-> FALSE, sent |-> 0, status |-> "none", out |-> <<>>]

Init ==
    /\ conn = [c \in Clients |-> Away]
    /\ job = [r \in Requests |-> NoJob] /\ next = 1 /\ queue = <<>>
    /\ taking = TRUE /\ listening = TRUE /\ shut = FALSE /\ decided = FALSE

R(c) == conn[c].r
Kind(c) == job[R(c)].kind

-----------------------------------------------------------------------------
(* The accept loop. *)

Held == {c \in Clients : conn[c].st \notin {"away", "backlog", "refused"}}
Refused == {c \in Clients : conn[c].st = "refused"}

Connect(c) ==
    /\ conn[c].st = "away" /\ listening /\ next <= MaxRequests
    /\ conn' = [conn EXCEPT ![c].st = "backlog"]
    /\ UNCHANGED <<job, next, queue, runtime>>

Accept(c) ==
    /\ conn[c].st = "backlog" /\ listening
    /\ Cardinality(Held) < Slots \/ Cardinality(Refused) < Replies
    /\ conn' = [conn EXCEPT ![c] = [@ EXCEPT !.st = IF Cardinality(Held) < Slots THEN "idle"
                                                    ELSE "refused"]]
    /\ UNCHANGED <<job, next, queue, runtime>>

\* reject_over_capacity, or a peer that is not allowed: nothing is dispatched.
CapacityReply(c) ==
    /\ conn[c].st \in {"refused", "backlog"}
    /\ conn' = [conn EXCEPT ![c] = Away]
    /\ UNCHANGED <<job, next, queue, runtime>>

\* An error of the listener: the loop returns and its connections are dropped.
ListenerFails ==
    /\ Stops /\ listening /\ listening' = FALSE
    /\ conn' = [c \in Clients |-> Away]
    /\ job' = [r \in Requests |-> [job[r] EXCEPT !.rx = FALSE]]
    /\ UNCHANGED <<next, queue, taking, shut, decided>>

Leave(c) ==
    /\ conn[c].st # "away" /\ ~conn[c].gone /\ conn' = [conn EXCEPT ![c].gone = TRUE]
    /\ UNCHANGED <<job, next, queue, runtime>>

\* The task of a connection ends: its receiver goes with it.
Ends(c) ==
    /\ conn' = [conn EXCEPT ![c] = Away]
    /\ job' = [r \in Requests |-> IF r = R(c) THEN [job[r] EXCEPT !.rx = FALSE] ELSE job[r]]

Closed(c) ==
    /\ \/ conn[c].st = "idle" /\ conn[c].gone
       \/ shut /\ conn[c].st # "away"
    /\ Ends(c)
    /\ UNCHANGED <<next, queue, runtime>>

-----------------------------------------------------------------------------
(* A frame, or a request of the HTTP service that passed its checks; one    *)
(* that does not is answered and changes nothing.                           *)

Read(c, k) ==
    /\ conn[c].st = "idle" /\ ~conn[c].gone /\ ~shut /\ next <= MaxRequests
    /\ next' = next + 1
    /\ conn' = [conn EXCEPT ![c] = [Idle EXCEPT !.st = IF k = "await" THEN "ask" ELSE "submit",
                                                !.r = next]]
    /\ job' = [job EXCEPT ![next] = [NoJob EXCEPT !.kind = k, !.rx = TRUE,
                                                  !.tx = k # "await", !.raw = k = "stream"]]
    /\ UNCHANGED <<queue, runtime>>

Answer(c, f) == conn' = [conn EXCEPT ![c].st = "write", ![c].frame = f]

\* submit, submit_stream and submit_local wait for room in the queue.
Submit(c) ==
    /\ conn[c].st = "submit" /\ taking /\ Len(queue) < QueueCapacity
    /\ queue' = Append(queue, R(c)) /\ conn' = [conn EXCEPT ![c].st = "serve"]
    /\ job' = [job EXCEPT ![R(c)].st = "queued"]
    /\ UNCHANGED <<next, runtime>>

SubmitClosed(c) ==
    /\ conn[c].st = "submit" /\ ~taking /\ Answer(c, Frame("error", 0))
    /\ UNCHANGED <<job, next, queue, runtime>>

\* write_frame, or a chunk of the HTTP body; the write may stall for too long.
IsLast(t) == t \in {"error", "busy", "ok", "completed", "failed", "end", "abort"}

Write(c) ==
    /\ conn[c].st = "write" /\ ~conn[c].gone
    /\ LET f == conn[c].frame IN
       /\ job' = [job EXCEPT ![R(c)].out = Append(@, f),
                             ![R(c)].rx = @ /\ ~IsLast(f.type)]
       /\ conn' = [conn EXCEPT ![c] = IF ~IsLast(f.type)
                                      THEN [conn[c] EXCEPT !.st = "serve", !.frame = NoFrame]
                                      ELSE IF Kind(c) = "http" THEN Away ELSE Idle]
    /\ UNCHANGED <<next, queue, runtime>>

WriteFails(c) ==
    /\ conn[c].st = "write" /\ Ends(c)
    /\ UNCHANGED <<next, queue, runtime>>

-----------------------------------------------------------------------------
(* The supervisor and its tasks. *)

Tasks == {r \in Requests : job[r].st \in {"admitting", "running", "settled"}}

\* An event goes into the channel if anyone can still receive it.
Sent(r, e) == [job[r] EXCEPT !.ch = IF job[r].rx THEN Append(@, e) ELSE @]
End(r, e) == [Sent(r, e) EXCEPT !.st = "ended", !.tx = FALSE]

\* admit_job: with all tasks taken the job is refused, never kept.
TakeJob ==
    /\ taking /\ queue # <<>> /\ queue' = Tail(queue)
    /\ LET r == Head(queue) IN
       job' = [job EXCEPT ![r] = IF Cardinality(Tasks) < MaxTasks
                                 THEN [@ EXCEPT !.st = "admitting"]
                                 ELSE End(r, Frame("busy", 0))]
    /\ UNCHANGED <<conn, next, runtime>>

\* An error, or AUTHORITY_BUSY: the coordinator or the authority's queue.
AdmitFails(r, how) ==
    /\ job[r].st = "admitting" /\ job' = [job EXCEPT ![r] = End(r, Frame(how, 0))]
    /\ UNCHANGED <<conn, next, queue, runtime>>

\* Whether a call is answered by a stream shows when it is admitted.
Admits(r, raw) ==
    /\ job[r].st = "admitting"
    /\ (job[r].kind = "stream" => raw) /\ (job[r].kind = "execute" => ~raw)
    /\ job' = [job EXCEPT ![r] =
                  [(IF raw THEN Sent(r, Frame("admitted", 0)) ELSE job[r])
                       EXCEPT !.st = "running", !.admitted = TRUE, !.raw = raw]]
    /\ UNCHANGED <<conn, next, queue, runtime>>

\* The handoff of poll_http_while_live, after the credential was prepared.
Contact(r) ==
    /\ job[r].st = "running" /\ ~job[r].effect /\ job' = [job EXCEPT ![r].effect = TRUE]
    /\ UNCHANGED <<conn, next, queue, runtime>>

\* Sealer::release_through: a client that has left does not stop the execution,
\* one that does not read holds it until its connection is given up.
Produce(r) ==
    /\ job[r].st = "running" /\ job[r].effect /\ job[r].raw /\ job[r].sent < MaxChunks
    /\ job[r].ch = <<>> \/ ~job[r].rx
    /\ job' = [job EXCEPT ![r] = [Sent(r, Frame("chunk", job[r].sent)) EXCEPT !.sent = @ + 1]]
    /\ UNCHANGED <<conn, next, queue, runtime>>

\* The execution has its terminal row.  A streamed one may find an HTTP error
\* response that is buffered.  The authority may be too busy to prepare the
\* credential or to take the terminal: an execution that has started its effect
\* is then unconfirmed and no longer told AUTHORITY_BUSY.
Unsent == {"busy", "error"}
Statuses == {"completed", "incomplete", "buffered"} \cup Unsent
MaySettle(r, s) == IF job[r].effect THEN s # "busy" ELSE s \in Unsent

Settle(r, s) ==
    /\ job[r].st = "running" /\ MaySettle(r, s)
    /\ (~job[r].raw => s \notin {"incomplete", "buffered"})
    /\ (s = "buffered" => job[r].sent = 0)
    /\ job' = [job EXCEPT ![r].st = "settled", ![r].status = s]
    /\ UNCHANGED <<conn, next, queue, runtime>>

\* What the supervisor sends after run, run_stream.
FinalEvent(r) ==
    LET s == job[r].status IN
    CASE ~job[r].raw -> Frame(IF s = "completed" THEN "ok" ELSE s, 0)
      [] job[r].raw /\ job[r].kind = "stream" ->
            Frame(IF s = "completed" THEN "completed"
                  ELSE IF s = "incomplete" THEN "incomplete" ELSE "failed", 0)
      [] OTHER -> Frame(IF s = "buffered" THEN "ok" ELSE s, 0)

Finish(r) ==
    /\ job[r].st = "settled" /\ (job[r].ch = <<>> \/ ~job[r].rx)
    /\ job' = [job EXCEPT ![r] = End(r, FinalEvent(r))]
    /\ UNCHANGED <<conn, next, queue, runtime>>

\* One second has passed and the channel is still full.
FinishTimesOut(r) ==
    /\ job[r].st = "settled" /\ job[r].ch # <<>> /\ job[r].rx
    /\ job' = [job EXCEPT ![r].st = "ended", ![r].tx = FALSE]
    /\ UNCHANGED <<conn, next, queue, runtime>>

\* The jobs left in the queue are dropped with their senders.
CloseQueue ==
    /\ taking' = FALSE /\ queue' = <<>>
Dropped(j) == [r \in Requests |-> IF j[r].st = "queued"
                                  THEN [j[r] EXCEPT !.st = "ended", !.tx = FALSE] ELSE j[r]]

Panics(r) ==
    /\ Stops /\ taking /\ r \in Tasks /\ CloseQueue
    /\ job' = Dropped([job EXCEPT ![r].st = "ended", ![r].tx = FALSE, ![r].status = "lost"])
    /\ UNCHANGED <<conn, next, listening, shut, decided>>

Shutdown ==
    /\ Stops /\ ~shut /\ shut' = TRUE /\ listening' = FALSE
    /\ UNCHANGED <<conn, job, next, queue, taking, decided>>

SupervisorCloses ==
    /\ shut /\ taking /\ CloseQueue /\ job' = Dropped(job)
    /\ UNCHANGED <<conn, next, listening, shut, decided>>

-----------------------------------------------------------------------------
(* The receivers. *)

Waiting(c, k) == conn[c].st = "serve" /\ Kind(c) = k
Received(c) == job[R(c)].ch # <<>>
Event(c) == Head(job[R(c)].ch)
Over(c) == job[R(c)].ch = <<>> /\ ~job[R(c)].tx
Take(c) == job' = [job EXCEPT ![R(c)].ch = Tail(@)]
TakeAndClose(c) == job' = [job EXCEPT ![R(c)].ch = <<>>, ![R(c)].rx = FALSE]
Finals == {"completed", "incomplete", "failed", "error", "ok", "busy"}

\* EXECUTE_FIXED_HTTP_ACTION: a single answer; a sender that is gone is FAULTED.
ReceiveExecute(c) ==
    /\ Waiting(c, "execute")
    /\ \/ Received(c) /\ Answer(c, Event(c)) /\ TakeAndClose(c)
       \/ Over(c) /\ Answer(c, Frame("error", 0)) /\ UNCHANGED job
    /\ UNCHANGED <<next, queue, runtime>>

\* dispatch_stream: an error is answered only while nothing was admitted or
\* written; the stream is closed without its terminal otherwise.
Refusable(c) == ~conn[c].admitted /\ conn[c].n = 0

ReceiveStream(c) ==
    /\ Waiting(c, "stream") /\ Received(c)
    /\ LET e == Event(c) IN
       \/ /\ e.type \in {"error", "busy"} /\ Refusable(c) /\ Answer(c, e) /\ TakeAndClose(c)
       \/ /\ (e.type \in {"error", "busy"} /\ ~Refusable(c)) \/ (e.type = "admitted" /\ conn[c].admitted)
          /\ Ends(c)
       \/ /\ e.type = "admitted" /\ ~conn[c].admitted /\ Take(c)
          /\ conn' = [conn EXCEPT ![c].admitted = TRUE]
       \/ /\ e.type = "chunk" /\ Take(c)
          /\ conn' = [conn EXCEPT ![c].st = "write", ![c].n = @ + 1,
                                  ![c].frame = Frame("chunk", conn[c].n)]
       \/ /\ e.type \in {"completed", "incomplete", "failed"} /\ Take(c)
          /\ Answer(c, Frame(IF e.type = "completed" THEN "completed" ELSE "failed", 0))
    /\ UNCHANGED <<next, queue, runtime>>

\* The deadline, or the end of the events without a terminal.
StreamEnds(c) ==
    /\ Waiting(c, "stream") /\ (Over(c) \/ conn[c].admitted) /\ Ends(c)
    /\ UNCHANGED <<next, queue, runtime>>

\* CALL: a streamed answer is collected and told as a whole.
ReceiveCall(c) ==
    /\ Waiting(c, "call")
    /\ \/ /\ Received(c)
          /\ LET e == Event(c) IN
             \/ e.type = "admitted" /\ Take(c) /\ UNCHANGED conn
             \/ e.type = "chunk" /\ Take(c) /\ conn' = [conn EXCEPT ![c].n = @ + 1]
             \/ e.type = "chunk" /\ TakeAndClose(c) /\ Answer(c, Frame("error", 0))
             \/ /\ e.type \in Finals /\ TakeAndClose(c)
                /\ Answer(c, IF e.type \in {"completed", "ok"} THEN Frame("ok", conn[c].n)
                             ELSE IF e.type = "busy" THEN e ELSE Frame("error", 0))
       \/ Over(c) /\ Answer(c, Frame("error", 0)) /\ UNCHANGED job
    /\ UNCHANGED <<next, queue, runtime>>

\* handle_request: until the first chunk there can be an error, and
\* GatewayBody: after it the body ends, or is cut.
HttpEnd(t) == t \in {"completed", "incomplete"}

ReceiveHttp(c) ==
    /\ Waiting(c, "http") /\ Received(c)
    /\ LET e == Event(c) IN
       \/ e.type = "admitted" /\ Take(c) /\ UNCHANGED conn
       \/ /\ e.type = "chunk" /\ Take(c)
          /\ conn' = [conn EXCEPT ![c].st = "write", ![c].n = @ + 1, ![c].frame = e]
       \/ /\ e.type \in Finals /\ conn[c].n = 0 /\ TakeAndClose(c)
          /\ Answer(c, IF e.type \in {"ok", "busy"} THEN e ELSE Frame("error", 0))
       \/ /\ e.type \in Finals /\ conn[c].n > 0 /\ TakeAndClose(c)
          /\ Answer(c, Frame(IF HttpEnd(e.type) THEN "end" ELSE "abort", 0))
    /\ UNCHANGED <<next, queue, runtime>>

HttpEnds(c) ==
    /\ Waiting(c, "http") /\ Over(c)
    /\ Answer(c, Frame(IF conn[c].n = 0 THEN "error" ELSE "abort", 0))
    /\ UNCHANGED <<job, next, queue, runtime>>

-----------------------------------------------------------------------------
(* await_state, await_access, AWAIT_APPROVAL and await_unlock: subscribe,   *)
(* look, and wait for a change or the deadline.                             *)

Subscribe(c) ==
    /\ conn[c].st = "ask" /\ conn' = [conn EXCEPT ![c].st = "look", ![c].woken = FALSE]
    /\ UNCHANGED <<job, next, queue, runtime>>

Look(c) ==
    /\ conn[c].st = "look"
    /\ IF decided \/ conn[c].late
       THEN Answer(c, Frame(IF decided THEN "ok" ELSE "error", 0))
       ELSE conn' = [conn EXCEPT ![c].st = "seen"]
    /\ UNCHANGED <<job, next, queue, runtime>>

Park(c) ==
    /\ conn[c].st = "seen" /\ conn' = [conn EXCEPT ![c].st = "parked"]
    /\ UNCHANGED <<job, next, queue, runtime>>

Wake(c) ==
    /\ conn[c].st = "parked" /\ conn[c].woken /\ conn' = [conn EXCEPT ![c].st = "ask"]
    /\ UNCHANGED <<job, next, queue, runtime>>

WaitTimesOut(c) ==
    /\ conn[c].st = "parked"
    /\ conn' = [conn EXCEPT ![c].st = "ask", ![c].late = TRUE]
    /\ UNCHANGED <<job, next, queue, runtime>>

\* The wait for an approval ends with its client (stream.read in the select).
WaitAbandoned(c) ==
    /\ conn[c].st = "parked" /\ conn[c].gone /\ Ends(c)
    /\ UNCHANGED <<next, queue, runtime>>

\* notify_waiters reaches everyone who has subscribed.
Decide ==
    /\ "await" \in Kinds /\ ~decided /\ decided' = TRUE
    /\ conn' = [c \in Clients |-> [conn[c] EXCEPT !.woken = @ \/ conn[c].st \in {"look", "seen", "parked"}]]
    /\ UNCHANGED <<job, next, queue, taking, listening, shut>>

-----------------------------------------------------------------------------

Serve(c) ==
    \/ Accept(c) \/ CapacityReply(c) \/ Closed(c)
    \/ Submit(c) \/ SubmitClosed(c) \/ Write(c) \/ WriteFails(c)
    \/ ReceiveExecute(c) \/ ReceiveStream(c) \/ StreamEnds(c) \/ ReceiveCall(c)
    \/ ReceiveHttp(c) \/ HttpEnds(c)
    \/ Subscribe(c) \/ Look(c) \/ Park(c) \/ Wake(c) \/ WaitAbandoned(c)

Run(r) ==
    \/ \E how \in Unsent : AdmitFails(r, how)
    \/ \E raw \in BOOLEAN : Admits(r, raw)
    \/ Contact(r) \/ Produce(r) \/ \E s \in Statuses : Settle(r, s)
    \/ Finish(r) \/ FinishTimesOut(r)

Supervise == TakeJob \/ SupervisorCloses

Next ==
    \/ \E c \in Clients :
          \/ Serve(c) \/ WaitTimesOut(c) \/ Connect(c) \/ Leave(c)
          \/ \E k \in Kinds : Read(c, k)
    \/ \E r \in Requests : Run(r) \/ Panics(r)
    \/ Supervise \/ ListenerFails \/ Shutdown \/ Decide

Spec == Init /\ [][Next]_vars

-----------------------------------------------------------------------------
(* Properties *)

Told(r, t) == \E i \in 1..Len(job[r].out) : job[r].out[i].type = t
ChunksTold(r) == SelectSeq(job[r].out, LAMBDA f : f.type = "chunk")

TypeOK ==
    /\ Cardinality(Held) <= Slots /\ Cardinality(Refused) <= Replies
    /\ Cardinality(Tasks) <= MaxTasks /\ Len(queue) <= QueueCapacity
    /\ \A r \in Requests : Len(job[r].ch) <= 1 /\ job[r].sent <= MaxChunks
    /\ \A c \in Clients : conn[c].st \in {"away", "backlog", "refused", "idle", "submit", "serve",
                                         "write", "ask", "look", "seen", "parked"}

\* What a client takes for a complete answer is one: the execution has settled
\* with it, and every chunk it produced has reached the client in order, though
\* the channel holds one event, the final one may time out and tasks are lost
\* (TextStreamEvent, dispatch_stream, GatewayBody, call_response).
SuccessIsTrue ==
    \A r \in Requests : LET j == job[r] IN
        /\ Told(r, "completed") => j.status = "completed" /\ Len(ChunksTold(r)) = j.sent
        /\ Told(r, "end") => j.status \in {"completed", "incomplete"} /\ Len(ChunksTold(r)) = j.sent
        /\ (Told(r, "ok") /\ j.kind # "await") =>
              /\ j.status \in {"completed", "buffered"}
              /\ j.kind = "call" => j.out[Len(j.out)].n = j.sent
        /\ \A i \in 1..Len(ChunksTold(r)) : ChunksTold(r)[i].n = i - 1

\* "Never append a legacy ERROR after CHUNKs" (agent.rs): an error is the only
\* frame of its request, and nothing follows a last frame.
FramesWellFormed ==
    \A r \in Requests : \A i \in 1..Len(job[r].out) :
        /\ IsLast(job[r].out[i].type) => i = Len(job[r].out)
        /\ job[r].out[i].type \in {"error", "busy"} => i = 1

\* A client that is told AUTHORITY_BUSY (retryable) can repeat its request: its
\* execution may have been admitted and have its Started row, but it is over and
\* never handed its request to the transport (reject_busy, the credential's
\* preparation, commit_terminal_until).
BusyHasNoEffect ==
    \A r \in Requests : Told(r, "busy") => ~job[r].effect /\ job[r].st = "ended"

=============================================================================
