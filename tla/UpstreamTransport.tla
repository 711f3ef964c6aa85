-------------------------- MODULE UpstreamTransport --------------------------
(***************************************************************************)
(* One outbound request (crates/rekey-broker/src/upstream.rs) and what the *)
(* executor makes of its result (executor.rs, executor/http.rs): the name  *)
(* is resolved, a resolver of fake addresses is replaced by public DNS,    *)
(* every address of the answer is screened, the first one is pinned, the   *)
(* request with its credential is sent once, and the response is read      *)
(* within its byte limit and deadline.  A source of the vault may instead  *)
(* be bound to private addresses.                                          *)
(*                                                                         *)
(* Addresses are model values in the three classes that ip_is_public tells *)
(* apart.  A lookup may answer differently every time.                     *)
(***************************************************************************)
EXTENDS Integers, Sequences, FiniteSets, TLAPS

CONSTANTS PublicAddrs,   \* addresses ip_is_public accepts
          PrivateAddrs,  \* addresses it refuses
          FakeAddrs,     \* 198.18/15, refused too: what a fake-IP proxy answers
          BoundAddrs,    \* allowed_ips of the source's binding
          MaxAnswer,     \* bound on addresses in one answer
          Defaults,      \* Len(DEFAULT_PUBLIC_DOH)
          Limit,         \* response_max_bytes
          Chunks,        \* sizes a chunk may have
          Deadline       \* effect_deadline, in ticks

ASSUME TransportAssumption ==
    /\ BoundAddrs \subseteq PrivateAddrs
    /\ PublicAddrs \cap (PrivateAddrs \cup FakeAddrs) = {}
    /\ MaxAnswer \in Nat /\ Defaults \in Nat /\ Limit \in Nat
    /\ Chunks \subseteq Nat \ {0} /\ Deadline \in Nat \ {0}

VARIABLES kind,      \* buffered, stream, source
          literal,   \* the host is an address literal
          explicit,  \* REKEY_DOH_URL is set
          prior,     \* an effect came before: a completed OAuth refresh
          now,
          pc,
          addrs,     \* the answer in hand
          tried,     \* public resolvers tried
          last,      \* the error of the last one
          pinned,    \* the one address the client may use
          reached,   \* history: the address a connection was opened to
          asked,     \* history: answers that were screened, public DNS's too
          sent,      \* history: the request with its credential left
          body,      \* bytes read
          result,    \* what the transport returned
          row,       \* terminal row, submitted
          answer,    \* what the caller is told once the row is written
          stored,    \* the row is known to be written
          told       \* what the caller is told

vars == <<kind, literal, explicit, prior, now, pc, addrs, tried, last, pinned,
          reached, asked, sent, body, result, row, answer, stored, told>>
fixed == <<kind, literal, explicit, prior>>
ends == <<row, answer, stored, told>>

Nowhere == "nowhere"
Addrs == PublicAddrs \cup PrivateAddrs \cup FakeAddrs
Answers == UNION {[1..n -> Addrs] : n \in 0..MaxAnswer}
Members(a) == {a[i] : i \in DOMAIN a}

Init ==
    /\ kind \in {"buffered", "stream", "source"}
    /\ literal \in BOOLEAN /\ explicit \in BOOLEAN /\ prior \in BOOLEAN
    /\ now = 0 /\ pc = (IF kind = "source" THEN "resolve" ELSE "prepared")
    /\ addrs = <<>> /\ tried = 0
    /\ last = "fake-ip-dns" /\ pinned = Nowhere /\ reached = {} /\ asked = {}
    /\ sent = FALSE /\ body = 0 /\ result = "none" /\ row = "none"
    /\ answer = "none" /\ stored = FALSE /\ told = "none"

\* A deadline is passed at the instant it names.
Expired == now >= Deadline

Tick == /\ now < Deadline + 1 /\ pc # "done" /\ now' = now + 1
        /\ UNCHANGED <<fixed, pc, addrs, tried, last, pinned, reached, asked,
                       sent, body, result, ends>>

\* The terminal row goes to the journal and is waited for, or only submitted.
Submit(r, a) ==
    /\ row' = r /\ answer' = a /\ pc' = "recording"
    /\ UNCHANGED <<stored, told>>
SubmitOnly(r, a) ==
    /\ row' = r /\ answer' = a /\ told' = a /\ pc' = "done"
    /\ UNCHANGED stored

Returns(r) == pc' = "returned" /\ result' = r
Asked == UNCHANGED <<asked, reached, sent, body>>

----------------------------------------------------------------------------
(* The handoff.                                                            *)

\* poll_http_while_live (Broker has its gate): from here on an effect counts.
HandOff ==
    /\ pc = "prepared" /\ ~Expired /\ pc' = "resolve"
    /\ UNCHANGED <<fixed, now, addrs, tried, last, pinned, result, ends>> /\ Asked

\* The deadline has passed, a header cannot be sent, or the handoff is refused:
\* the row keeps a refresh that came before, whatever the caller is told.
NotHandedOff ==
    /\ pc = "prepared"
    /\ LET kept == IF prior THEN "indeterminate" ELSE "blocked" IN
       \/ Expired /\ SubmitOnly(kept, IF prior THEN "unconfirmed" ELSE "refused")
       \/ Submit(kept, "denied")
       \/ SubmitOnly(kept, "denied")
    /\ UNCHANGED <<fixed, now, addrs, tried, last, pinned, result>> /\ Asked

----------------------------------------------------------------------------
(* Resolution and screening.                                               *)

\* lookup_host: an answer of the system's resolver, or an error.
Lookup ==
    /\ pc = "resolve" /\ ~Expired
    /\ \/ /\ \E a \in Answers : addrs' = a
          /\ pc' = "answered" /\ UNCHANGED result
       \/ Returns("transport") /\ UNCHANGED addrs
    /\ UNCHANGED <<fixed, now, tried, last, pinned, ends>> /\ Asked

\* needs_public_dns: a name all of whose addresses are fake.
NeedsPublicDns ==
    ~literal /\ addrs # <<>> /\ Members(addrs) \subseteq FakeAddrs

\* select_public_endpoint and select_source_endpoint: every address of the
\* answer must pass, and the first is used.
Passes == IF kind = "source" THEN BoundAddrs ELSE PublicAddrs
ScreenedAny(a) == a # <<>> /\ Members(a) \cap Passes # {}
Screened(a) == a # <<>> /\ Members(a) \subseteq Passes

Refusal == IF kind = "source" THEN "source-address" ELSE "private-address"
Judge(a) == IF a = <<>> THEN "transport" ELSE Refusal

\* The system's answer is final unless it is fake.
Screen ==
    /\ pc = "answered" /\ (kind = "source" \/ ~NeedsPublicDns)
    /\ asked' = asked \cup {addrs}
    /\ IF Screened(addrs)
       THEN /\ pinned' = addrs[1] /\ pc' = "connect"
            /\ UNCHANGED <<result, addrs>>
       ELSE Returns(Judge(addrs)) /\ UNCHANGED <<pinned, addrs>>
    /\ UNCHANGED <<fixed, now, tried, last, reached, sent, body, ends>>

\* The next public resolver; an explicit one is the only one.
Resolvers == IF explicit THEN 1 ELSE Defaults

\* The resolver's URL, its own addresses, the A and the AAAA query, the
\* screening of both: any of them may fail.
AskPublicDns ==
    /\ pc = "answered" /\ kind # "source" /\ NeedsPublicDns /\ ~Expired
    /\ tried < Resolvers /\ tried' = tried + 1
    /\ \/ \E a \in Answers :
            /\ asked' = asked \cup {a}
            /\ IF Screened(a)
               THEN pinned' = a[1] /\ pc' = "connect" /\ UNCHANGED last
               ELSE last' = Judge(a) /\ UNCHANGED <<pinned, pc>>
       \/ /\ \E e \in {"transport", "timeout", "private-address"} \cup
                      (IF explicit THEN {"invalid-doh-url"} ELSE {}) : last' = e
          /\ UNCHANGED <<asked, pinned, pc>>
    /\ UNCHANGED <<fixed, now, addrs, reached, sent, body, result, ends>>

NoResolverLeft ==
    /\ pc = "answered" /\ kind # "source" /\ NeedsPublicDns
    /\ tried = Resolvers
    /\ Returns(last)
    /\ UNCHANGED <<fixed, now, addrs, tried, last, pinned, ends>> /\ Asked

----------------------------------------------------------------------------
(* The request.                                                            *)

\* The client connects to the pinned address only, follows no redirect and
\* uses no proxy; a failure may come before or after the request has left.
Connect ==
    /\ pc = "connect" /\ ~Expired
    /\ reached' = reached \cup {pinned}
    /\ \/ sent' = TRUE /\ pc' = "response" /\ UNCHANGED result
       \/ sent' \in BOOLEAN /\ Returns("transport")
    /\ UNCHANGED <<fixed, now, addrs, tried, last, pinned, asked, body, ends>>

Respond ==
    /\ pc = "response" /\ ~Expired
    /\ \/ pc' = "body" /\ UNCHANGED result
       \/ Returns("redirect")
       \/ Returns("transport")
    /\ UNCHANGED <<fixed, now, addrs, tried, last, pinned, ends>> /\ Asked

\* next_chunk: what remains of the limit is checked before the bytes count.
NextChunk ==
    /\ pc = "body" /\ ~Expired
    /\ \/ \E n \in Chunks :
            IF body + n > Limit
            THEN Returns("response-too-large") /\ UNCHANGED body
            ELSE body' = body + n /\ UNCHANGED <<pc, result>>
       \/ Returns("transport") /\ UNCHANGED body
       \/ Returns("ok") /\ UNCHANGED body
    /\ UNCHANGED <<fixed, now, addrs, tried, last, pinned, reached, asked,
                   sent, ends>>

\* The deadline ends every wait, those for a resolver too.
Timeout ==
    /\ pc \in {"resolve", "answered", "connect", "response", "body"} /\ Expired
    /\ Returns("timeout")
    /\ UNCHANGED <<fixed, now, addrs, tried, last, pinned, ends>> /\ Asked

----------------------------------------------------------------------------
(* What the executor makes of it.                                          *)

\* upstream_failure_is_indeterminate: the request may have left.
Indeterminate(r) ==
    r \in {"timeout", "transport", "response-too-large", "redirect"}

\* A result that comes after the deadline is a timeout to whoever waits.
Final == IF Expired THEN "timeout" ELSE result

\* What a result may come to: a row and an answer.  A response in hand may still
\* show a secret, have metadata that does not fit, or be a stream that ends
\* early or breaks; a refusal that proves nothing was sent only keeps what came
\* before.
Outcome(r, a) == [row |-> r, told |-> a]
Outcomes(r) ==
    LET cut == IF kind = "stream" THEN {Outcome("indeterminate", "unconfirmed")} ELSE {} IN
    CASE r = "ok" -> {Outcome("finished", "ok"), Outcome("indeterminate", "violation"),
                      Outcome("indeterminate", "too-large")} \cup cut
                     \cup IF kind = "stream" THEN {Outcome("indeterminate", "incomplete")} ELSE {}
      [] r = "response-too-large" -> {Outcome("indeterminate", "too-large")} \cup cut
      [] r \notin {"ok", "response-too-large"} ->
            IF prior \/ Indeterminate(r) THEN {Outcome("indeterminate", "unconfirmed")}
            ELSE {Outcome("blocked", "refused")}

\* The row of a stream that broke is submitted and not waited for.
Settle ==
    /\ pc = "returned" /\ kind # "source"
    /\ \E o \in Outcomes(Final) :
          \/ Submit(o.row, o.told)
          \/ /\ kind = "stream" /\ o.row = "indeterminate" /\ o.told # "incomplete"
             /\ SubmitOnly(o.row, o.told)
    /\ result' = Final
    /\ UNCHANGED <<fixed, now, addrs, tried, last, pinned>> /\ Asked

\* commit_terminal_until: the row is written in time.
Recorded ==
    /\ pc = "recording" /\ ~Expired /\ pc' = "done"
    /\ stored' = TRUE /\ told' = answer
    /\ UNCHANGED <<fixed, now, addrs, tried, last, pinned, result, row, answer>> /\ Asked

\* Mutant: what can be repeated is told whether or not an effect had started.
AnyRetry == "refused"

\* The error a caller may act on: it can be repeated only if no effect started.
Retry == IF row = "blocked" THEN "refused" ELSE "unconfirmed"

\* The row is late, or a client holds the last of a stream up beyond the
\* deadline; the row is written all the same, some time.
RecordedLate ==
    /\ pc = "recording" /\ Expired /\ pc' = "done"
    /\ stored' \in BOOLEAN /\ told' = Retry
    /\ UNCHANGED <<fixed, now, addrs, tried, last, pinned, result, row, answer>> /\ Asked

\* The Authority refuses the row, for good or for now.
RecordFails ==
    /\ pc = "recording" /\ pc' = "done"
    /\ told' \in {"audit-failed", Retry}
    /\ UNCHANGED <<fixed, now, addrs, tried, last, pinned, result, row, answer, stored>> /\ Asked

\* send_source hands the result to its reader, which settles it.
SourceReturns ==
    /\ pc = "returned" /\ kind = "source" /\ pc' = "done"
    /\ result' = Final
    /\ UNCHANGED <<fixed, now, addrs, tried, last, pinned, ends>> /\ Asked

Step == HandOff \/ NotHandedOff \/ Lookup \/ Screen \/ AskPublicDns \/ NoResolverLeft
        \/ Connect \/ Respond \/ NextChunk \/ Timeout
        \/ Settle \/ Recorded \/ RecordedLate \/ RecordFails \/ SourceReturns

Next == Tick \/ Step

Spec == Init /\ [][Next]_vars

----------------------------------------------------------------------------
(* Properties.                                                             *)

\* What is read never outgrows the limit, at most the configured resolvers
\* are asked, and a request that left was pinned to an address first.
TypeOK ==
    /\ now \in 0..Deadline + 1 /\ body \in 0..Limit
    /\ tried \in 0..(IF explicit THEN 1 ELSE Defaults)
    /\ pinned \in Addrs \cup {Nowhere}
    /\ (sent => pinned # Nowhere)
    /\ (pc \in {"recording", "done"} /\ kind # "source") <=> (row # "none")

\* Every connection goes to an address of an answer that passed as a whole:
\* a mixed answer is never used in part, a later answer of the resolver never
\* replaces the screened one, and a source's private binding serves nobody
\* else (select_public_endpoint, select_source_endpoint, the pinned client).
ReachesOnlyScreened ==
    \A x \in reached :
        \E a \in asked :
            /\ x \in Members(a)
            /\ Members(a) \subseteq
                   IF kind = "source" THEN BoundAddrs ELSE PublicAddrs

\* A row that says blocked is true: the request never left, and nothing had
\* left before it (upstream_failure_is_indeterminate, prior_remote_effect).
BlockedMeansNothingLeft == (row = "blocked") => (~sent /\ ~prior)

\* The transport's promise to the executor: what is contacted was screened, and
\* what is called blocked was never sent.
TransportIsScreened == ReachesOnlyScreened /\ BlockedMeansNothingLeft

\* What the caller is told agrees with the row it leaves: success, or a stream's
\* early end, only with the row written; an error that says the request can be
\* repeated only when the row says blocked and nothing left, however late the row
\* is or if it cannot be written; an unconfirmed outcome never with a row that
\* says blocked (Settle's errors, commit_terminal_until, finished_until).
ToldAsRecorded ==
    /\ told = "ok" => row = "finished" /\ stored
    /\ told = "incomplete" => row = "indeterminate" /\ stored
    /\ told = "refused" => row = "blocked" /\ ~sent /\ ~prior
    /\ told = "unconfirmed" => row # "blocked"

\* Success is told only before the deadline.
InTime == told = "ok" => now < Deadline

-----------------------------------------------------------------------------
(* Proofs, for every set of addresses, every answer a resolver may give    *)
(* and every limit.                                                        *)

\* The address a client may use belongs to an answer that passed as a whole.
Safe(x) ==
    \E a \in asked :
        /\ x \in Members(a)
        /\ Members(a) \subseteq (IF kind = "source" THEN BoundAddrs ELSE PublicAddrs)

Sent == {"ok", "timeout", "transport", "response-too-large", "redirect"}

Places == {"prepared", "resolve", "answered", "connect", "response", "body",
           "returned", "recording", "done"}

\* What may be told with a row.
Agrees(r, a) ==
    /\ a = "ok" => r = "finished"
    /\ a = "incomplete" => r = "indeterminate"
    /\ a = "refused" => r = "blocked"
    /\ a = "unconfirmed" => r # "blocked"

\* An answer in hand is one; a client exists only for a screened address and
\* uses no other; a request that left is followed by a result that does not
\* deny it; rows are submitted last, and what the caller will be told agrees with
\* the row before it is told.
TransportInv ==
    /\ kind \in {"buffered", "stream", "source"}
    /\ addrs \in Answers /\ now \in Nat
    /\ pc = "connect" => Safe(pinned)
    /\ \A x \in reached : Safe(x)
    /\ pc \in Places
    /\ sent => /\ pc \in {"response", "body", "returned", "recording", "done"}
               /\ pc = "returned" => result \in Sent
    /\ row # "none" => pc \in {"recording", "done"}
    /\ pc # "done" => told = "none"
    /\ pc = "recording" => Agrees(row, answer)
    /\ BlockedMeansNothingLeft
    /\ ToldAsRecorded
    /\ InTime

\* The first address of a screened answer is one of its members.
LEMMA FirstIsMember ==
    ASSUME NEW a \in Answers, a # <<>>
    PROVE  a[1] \in Members(a) /\ a[1] \in Addrs
<1>1. PICK n \in 0..MaxAnswer : a \in [1..n -> Addrs]
  BY DEF Answers
<1>2. MaxAnswer \in Nat
  BY TransportAssumption
<1>3. a \in Seq(Addrs) /\ Len(a) = n
  BY <1>1, <1>2
<1>4. n # 0
  BY <1>3
<1> QED
  BY <1>1, <1>2, <1>4 DEF Members

\* A screened answer that is noted makes its first address safe.
LEMMA ScreenedIsSafe ==
    ASSUME NEW a \in Answers, Screened(a), asked' = asked \cup {a}, kind' = kind
    PROVE  Safe(a[1])'
<1>1. a # <<>> /\ Members(a) \subseteq (IF kind = "source" THEN BoundAddrs ELSE PublicAddrs)
  BY DEF Screened, Passes
<1> QED
  BY <1>1, FirstIsMember DEF Safe

\* What is safe stays safe: answers are only added.
LEMMA SafeStays ==
    ASSUME NEW x, Safe(x), asked \subseteq asked', kind' = kind
    PROVE  Safe(x)'
BY DEF Safe

\* Every step of a lookup, an exchange or a settlement keeps TransportInv.
LEMMA TransportStep ==
    ASSUME TransportInv, [Next]_vars
    PROVE  TransportInv'
<1> USE DEF fixed, ends, BlockedMeansNothingLeft, ToldAsRecorded, InTime, Sent, Places, Agrees
<1>1. \A x : Safe(x) /\ asked \subseteq asked' /\ kind' = kind => Safe(x)'
  BY SafeStays
<1>2. CASE Tick
  <2>1. /\ UNCHANGED <<fixed, pc, addrs, pinned, reached, asked, sent, result, ends>>
        /\ pc # "done" /\ now' \in Nat
    BY <1>2 DEF Tick, TransportInv
  <2> QED
    BY <1>1, <2>1 DEF TransportInv
<1>3. CASE Lookup
  <2>1. addrs' \in Answers
    BY <1>3 DEF Lookup, TransportInv
  <2> QED
    BY <1>1, <1>3, <2>1 DEF Lookup, Asked, Returns, TransportInv
<1>4. CASE Screen
  <2>1. /\ pc = "answered" /\ asked' = asked \cup {addrs}
        /\ UNCHANGED <<fixed, now, addrs, reached, sent, ends>>
    BY <1>4 DEF Screen
  <2>2. CASE Screened(addrs) /\ pinned' = addrs[1] /\ pc' = "connect" /\ UNCHANGED result
    <3>1. Safe(pinned)'
      BY <2>1, <2>2, ScreenedIsSafe DEF TransportInv
    <3> QED
      BY <1>1, <2>1, <2>2, <3>1 DEF TransportInv
  <2>3. CASE Returns(Judge(addrs))
    BY <1>1, <2>1, <2>3 DEF Returns, TransportInv
  <2> QED
    BY <1>4, <2>2, <2>3 DEF Screen
<1>5. CASE AskPublicDns
  <2>1. pc = "answered" /\ UNCHANGED <<fixed, now, addrs, reached, sent, result, ends>>
    BY <1>5 DEF AskPublicDns
  <2>2. ASSUME NEW a \in Answers, Screened(a), asked' = asked \cup {a}, pinned' = a[1],
               pc' = "connect"
        PROVE  TransportInv'
    <3>1. Safe(pinned)'
      BY <2>1, <2>2, ScreenedIsSafe
    <3> QED
      BY <1>1, <2>1, <2>2, <3>1 DEF TransportInv
  <2>3. CASE asked \subseteq asked' /\ UNCHANGED pc
    BY <1>1, <2>1, <2>3 DEF TransportInv
  <2> QED
    BY <1>5, <2>2, <2>3 DEF AskPublicDns
<1>6. CASE NoResolverLeft
  BY <1>1, <1>6 DEF NoResolverLeft, Returns, Asked, TransportInv
<1>7. CASE Connect
  <2>1. /\ pc = "connect" /\ reached' = reached \cup {pinned}
        /\ UNCHANGED <<fixed, now, addrs, pinned, asked, ends>>
        /\ \/ pc' = "response"
           \/ pc' = "returned" /\ result' = "transport"
    BY <1>7 DEF Connect, Returns
  <2>2. \A x \in reached' : Safe(x)'
    BY <1>1, <2>1 DEF TransportInv
  <2> QED
    BY <2>1, <2>2 DEF TransportInv
<1>8. CASE Respond
  BY <1>1, <1>8 DEF Respond, Returns, Asked, TransportInv
<1>9. CASE NextChunk
  <2>1. /\ pc = "body" /\ UNCHANGED <<fixed, now, addrs, pinned, reached, asked, sent, ends>>
        /\ \/ pc' = "body" /\ result' = result
           \/ pc' = "returned" /\ result' \in Sent
    BY <1>9 DEF NextChunk, Returns
  <2> QED
    BY <1>1, <2>1 DEF TransportInv
<1>10. CASE Timeout
  BY <1>1, <1>10 DEF Timeout, Returns, Asked, TransportInv
<1>11. CASE Settle
  <2>1. /\ pc = "returned" /\ result' = Final
        /\ UNCHANGED <<fixed, now, addrs, pinned, reached, asked, sent>>
    BY <1>11 DEF Settle, Asked
  <2>2. sent => Final \in Sent
    BY <2>1 DEF TransportInv, Final
  <2>3. PICK o \in Outcomes(Final) :
           \/ Submit(o.row, o.told)
           \/ o.row = "indeterminate" /\ o.told # "incomplete" /\ SubmitOnly(o.row, o.told)
    BY <1>11 DEF Settle
  <2>4. /\ Agrees(o.row, o.told) /\ o.row # "none"
        /\ o.row = "blocked" => ~prior /\ Final \notin Sent
    BY DEF Outcomes, Outcome, Indeterminate
  <2>5. PICK r, a : r = o.row /\ a = o.told
    OBVIOUS
  <2>6. CASE Submit(r, a)
    BY <1>1, <2>1, <2>2, <2>4, <2>5, <2>6 DEF TransportInv, Submit
  <2>7. CASE r = "indeterminate" /\ a # "incomplete" /\ SubmitOnly(r, a)
    BY <1>1, <2>1, <2>2, <2>4, <2>5, <2>7 DEF TransportInv, SubmitOnly
  <2> QED
    BY <2>3, <2>5, <2>6, <2>7
<1>12. CASE SourceReturns
  <2>1. /\ pc = "returned" /\ pc' = "done" /\ result' = Final
        /\ UNCHANGED <<fixed, now, addrs, pinned, reached, asked, sent, ends>>
    BY <1>12 DEF SourceReturns, Asked
  <2> QED
    BY <1>1, <2>1 DEF TransportInv
<1>14. CASE HandOff
  BY <1>1, <1>14 DEF HandOff, Asked, TransportInv
<1>15. CASE NotHandedOff
  <2>1. /\ pc = "prepared" /\ ~sent
        /\ UNCHANGED <<fixed, now, addrs, pinned, reached, asked, sent, result>>
    BY <1>15 DEF NotHandedOff, Asked, TransportInv
  <2>2. PICK kept : kept = IF prior THEN "indeterminate" ELSE "blocked"
    OBVIOUS
  <2>3. \/ \E a \in {"denied", IF prior THEN "unconfirmed" ELSE "refused"} : SubmitOnly(kept, a)
        \/ Submit(kept, "denied")
    BY <1>15, <2>2 DEF NotHandedOff
  <2>4. CASE Submit(kept, "denied")
    BY <1>1, <2>1, <2>2, <2>4 DEF Submit, TransportInv
  <2>5. ASSUME NEW a \in {"denied", IF prior THEN "unconfirmed" ELSE "refused"}, SubmitOnly(kept, a)
        PROVE  TransportInv'
    BY <1>1, <2>1, <2>2, <2>5 DEF SubmitOnly, TransportInv
  <2> QED
    BY <2>3, <2>4, <2>5
<1>16. CASE Recorded
  <2>1. now < Deadline
    BY <1>16, TransportAssumption DEF Recorded, Expired, TransportInv
  <2> QED
    BY <1>1, <1>16, <2>1 DEF Recorded, Asked, TransportInv
<1>17. CASE RecordedLate \/ RecordFails
  <2>1. /\ pc = "recording" /\ pc' = "done" /\ told' \in {"audit-failed", Retry}
        /\ UNCHANGED <<fixed, now, addrs, pinned, reached, asked, sent, row>>
    BY <1>17 DEF RecordedLate, RecordFails, Asked
  <2> QED
    BY <1>1, <2>1 DEF Retry, TransportInv
<1>13. CASE UNCHANGED vars
  BY <1>1, <1>13 DEF vars, TransportInv
<1> QED
  BY <1>2, <1>3, <1>4, <1>5, <1>6, <1>7, <1>8, <1>9, <1>10, <1>11, <1>12, <1>13,
     <1>14, <1>15, <1>16, <1>17
  DEF Next, Step

\* TransportInv is invariant.
LEMMA AlwaysTransport == Spec => []TransportInv
<1>1. Init => TransportInv
  <2> SUFFICES ASSUME Init PROVE TransportInv
    OBVIOUS
  <2>1. addrs \in Answers
    <3>1. <<>> \in [1..0 -> Addrs] /\ 0 \in 0..MaxAnswer
      BY TransportAssumption
    <3> QED
      BY <3>1 DEF Init, Answers
  <2> QED
    BY <2>1 DEF Init, TransportInv, BlockedMeansNothingLeft, ToldAsRecorded, InTime,
             Places
<1> QED
  BY <1>1, TransportStep, PTL DEF Spec

\* An address is contacted only if every address of the answer it came from
\* passed the screening of its kind, and a call that is recorded or reported as
\* blocked never sent its request (resolve_public, the pinned client, the
\* mapping of errors to outcomes).
THEOREM ContactedIsScreened == Spec => []TransportIsScreened
<1>1. TransportInv => TransportIsScreened
  BY DEF TransportInv, TransportIsScreened, ReachesOnlyScreened, Safe
<1> QED
  BY <1>1, AlwaysTransport, PTL

\* What the caller is told agrees with the row, through late and failing rows:
\* success only with the row written and before the deadline, a repeatable error
\* only when nothing left, nothing unconfirmed with a row that says blocked.
THEOREM CallerIsToldTheRow == Spec => [](ToldAsRecorded /\ InTime)
<1>1. TransportInv => ToldAsRecorded /\ InTime
  BY DEF TransportInv
<1> QED
  BY <1>1, AlwaysTransport, PTL
=============================================================================
