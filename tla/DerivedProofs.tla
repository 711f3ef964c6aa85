--------------------------- MODULE DerivedProofs ---------------------------
(***************************************************************************)
(* Theorems about DerivedCredentials, for every number of requests,        *)
(* callers and policies: a body leaves only with its rows in the journal,  *)
(* what may exist at a provider is never called blocked, an approval       *)
(* starts one request, and what is issued ends within its signed lifetime. *)
(***************************************************************************)
EXTENDS DerivedCredentials, FiniteSetTheorems, TLAPS

\* Where a handler is after its start is committed, after it is let through, and
\* at all.
Begun == {"started", "issuing", "sent", "issued", "recording", "finishing"}
Decided == {"admitting", "committing"} \cup Begun
Places == {"new", "asking", "ended"} \cup Decided

\* The rows, the approvals and what a handler keeps.
Names == {"blocked", "requested", "accepted", "started", "issued", "finished"}
Approvals == [state : {"none", "pending", "approved", "denied", "consumed"},
              caller : {Caller[r] : r \in Req} \cup {None}, policy : 0..MaxPolicy]
Requests == [policy : 0..MaxPolicy, accepted : Req \cup {None}, deadline : Nat, begun : Nat,
             at : Nat, expires : Nat, scope : {"signed", "other"}]

\* The types, but for the coordinator and the gate (Held).
Types ==
    /\ policy \in Policies /\ now \in Nat /\ ended \subseteq Policies
    /\ approval \in [Req -> Approvals]
    /\ pc \in [Req -> Places] /\ req \in [Req -> Requests]
    /\ rows \in [Req -> SUBSET Names]
    /\ terminal \in [Req -> {None, "blocked", "indeterminate", "finished"}]
    /\ remote \subseteq Req /\ delivered \subseteq Req

\* The policy that was read lets the request through, with its approval if it
\* asks for one.
Allowed(r) ==
    \/ Effect[req[r].policy] = "allow"
    \/ Effect[req[r].policy] = "approve" /\ req[r].accepted # None

\* The start is in the journal, and with it the approval it was let through with.
Started(r) ==
    /\ "started" \in rows[r]
    /\ req[r].accepted # None => "accepted" \in rows[r]

\* What the rows, the terminal and the provider know of a request, given where
\* its handler is.
RequestInv(r) ==
    /\ pc[r] \in Decided => Allowed(r) /\ req[r].policy \in Policies
    /\ pc[r] \in Begun => Started(r)
    /\ "started" \in rows[r] => pc[r] \in Begun \cup {"ended"}
    /\ pc[r] = "finishing" => "issued" \in rows[r] /\ terminal[r] = "finished"
    /\ pc[r] \notin {"finishing", "ended"} => terminal[r] = None
    /\ r \in remote => pc[r] \in {"issued", "recording", "finishing", "ended"}
    /\ r \in remote /\ pc[r] = "ended" => terminal[r] \in {"indeterminate", "finished"}
    /\ r \in delivered => /\ pc[r] = "ended" /\ Allowed(r) /\ Started(r)
                          /\ {"issued", "finished"} \subseteq rows[r]

\* The invariant of the journal and the provider.
Inv == Types /\ \A r \in Req : RequestInv(r)

-----------------------------------------------------------------------------
(* Lifetimes, in whole milliseconds.                                       *)

\* Whole division leaves less than the divisor.
LEMMA Division ==
    ASSUME NEW n \in Nat, NEW m \in Nat \ {0}
    PROVE  /\ n \div m \in Nat
           /\ m * (n \div m) <= n /\ n < m * (n \div m) + m
<1>1. n \div m \in Nat
  OBVIOUS
<1>2. m * (n \div m) <= n
  OBVIOUS
<1>3. n < m * (n \div m) + m
  OBVIOUS
<1> QED
  BY <1>1, <1>2, <1>3

\* Multiples are a divisor apart.
LEMMA Multiples ==
    ASSUME NEW m \in Nat \ {0}, NEW a \in Nat, NEW b \in Nat, m * a < m * b + m
    PROVE  a <= b
<1> SUFFICES ASSUME b < a PROVE FALSE
  OBVIOUS
<1>1. PICK d \in Nat : a = b + 1 + d
  <2>1. a - b - 1 \in Nat /\ a = b + 1 + (a - b - 1)
    OBVIOUS
  <2> QED
    BY <2>1
<1>2. m * a = m * b + m + m * d
  BY <1>1, Z3
<1>3. m * d \in Nat /\ m * b \in Nat
  OBVIOUS
<1> QED
  BY <1>2, <1>3

\* An expiry in the provider's units, rounded up, is after the moment it was
\* checked at and within the lifetime.
LEMMA ExpiryFacts ==
    ASSUME NEW a \in Answers
    PROVE  /\ Expiry(a.units) \in Nat
           /\ \A t \in Nat, ttl \in Nat : 
                 a.units > t * Sub /\ a.units <= (t + ttl) * Sub =>
                     Expiry(a.units) > t /\ Expiry(a.units) <= t + ttl
<1>1. PICK u \in Nat : u = a.units
  BY DEF Answers
<1>2. PICK v \in Nat : v = u + Sub - 1
  BY <1>1, DerivedAssumption
<1>3. PICK q \in Nat : q = Expiry(u) /\ Sub * q <= v /\ v < Sub * q + Sub
  BY <1>2, DerivedAssumption, Division DEF Expiry
<1>4. ASSUME NEW t \in Nat, NEW ttl \in Nat, u > t * Sub, u <= (t + ttl) * Sub
      PROVE  q > t /\ q <= t + ttl
  <2>1. /\ t * Sub = Sub * t /\ (t + ttl) * Sub = Sub * (t + ttl) /\ t + ttl \in Nat
        /\ Sub * t \in Nat /\ Sub * (t + ttl) \in Nat /\ Sub * q \in Nat /\ Sub \in Nat \ {0}
    BY DerivedAssumption
  <2>2. Sub * q < Sub * (t + ttl) + Sub
    BY <1>2, <1>3, <1>4, <2>1
  <2>3. q <= t + ttl
    BY <2>1, <2>2, Multiples
  <2>4. Sub * t < Sub * q
    BY <1>2, <1>3, <1>4, <2>1
  <2>5. CASE q <= t
    <3>1. PICK d \in Nat : t = q + d
      <4>1. t - q \in Nat /\ t = q + (t - q)
        BY <2>5
      <4> QED
        BY <4>1
    <3>2. Sub * t = Sub * q + Sub * d /\ Sub * d \in Nat
      BY <2>1, <3>1
    <3> QED
      BY <2>1, <2>4, <3>2
  <2> QED
    BY <2>3, <2>5
<1> QED
  BY <1>1, <1>3, <1>4

-----------------------------------------------------------------------------
(* The journal, the terminal and the provider.                             *)

\* A step of one request leaves the others alone.
LEMMA OthersKept ==
    ASSUME Inv, NEW r \in Req, NEW x \in Req \ {r},
           pc'[x] = pc[x], req'[x] = req[x], rows'[x] = rows[x], terminal'[x] = terminal[x],
           x \in remote' <=> x \in remote, x \in delivered' <=> x \in delivered
    PROVE  RequestInv(x)'
<1>1. RequestInv(x)
  BY DEF Inv
<1> QED
  BY <1>1 DEF RequestInv, Allowed, Started

\* The end of a request, with the terminal it had or the last word it got.
LEMMA EndStep ==
    ASSUME Inv, NEW r \in Req, NEW last \in {"blocked", "indeterminate"}, End(r, last),
           UNCHANGED <<policy, now, ended, approval, rows, delivered>>,
           req' = req, remote' = remote \/ (remote' = remote \cup {r} /\ last = "indeterminate"),
           pc[r] \in Begun, pc[r] = "started" \/ last = "indeterminate"
    PROVE  Inv'
<1>1. /\ pc'[r] = "ended" /\ pc' \in [Req -> Places]
      /\ terminal'[r] = IF terminal[r] = None THEN last ELSE terminal[r]
      /\ terminal' \in [Req -> {None, "blocked", "indeterminate", "finished"}]
      /\ \A x \in Req \ {r} : pc'[x] = pc[x] /\ terminal'[x] = terminal[x]
  BY DEF End, Go, Inv, Types, Places
<1>2. \A x \in Req \ {r} : RequestInv(x)'
  BY <1>1, OthersKept
<1>3. RequestInv(r)
  BY DEF Inv
<1>4. RequestInv(r)'
  <2>1. r \notin delivered
    BY <1>3 DEF RequestInv, Begun
  <2>2. terminal'[r] # None /\ (r \in remote' => terminal'[r] \in {"indeterminate", "finished"})
    BY <1>1, <1>3, DerivedAssumption DEF RequestInv, Begun, None, Inv, Types
  <2> QED
    BY <1>1, <1>3, <2>1, <2>2 DEF RequestInv, Allowed, Started, Begun, Decided
<1>5. Types'
  BY <1>1 DEF Inv, Types
<1> QED
  BY <1>2, <1>4, <1>5 DEF Inv

\* A step of one handler that goes on, or ends before it has begun.
LEMMA GoStep ==
    ASSUME Inv, NEW r \in Req, NEW where \in Places, Go(r, where), Types',
           \A x \in Req \ {r} : req'[x] = req[x] /\ rows'[x] = rows[x] /\ terminal'[x] = terminal[x],
           \A x \in Req \ {r} : /\ x \in remote' <=> x \in remote
                                /\ x \in delivered' <=> x \in delivered,
           RequestInv(r)'
    PROVE  Inv'
<1>1. \A x \in Req \ {r} : pc'[x] = pc[x]
  BY DEF Go, Inv, Types
<1>2. \A x \in Req \ {r} : RequestInv(x)'
  BY <1>1, OthersKept
<1> QED
  BY <1>2 DEF Inv

\* The decision about a request: let through, asked for, or refused.
LEMMA BeginStep ==
    ASSUME Inv, NEW r \in Req, NEW id \in Req \cup {None}, Begin(r, id)
    PROVE  Inv'
<1>1. RequestInv(r) /\ pc[r] = "new" /\ policy \in Policies /\ req[r] \in Requests
  BY DEF Begin, Inv, Types
<1>2. /\ UNCHANGED <<policy, now, ended, terminal, remote, delivered>>
      /\ \E where \in Places : Go(r, where)
      /\ \A x \in Req \ {r} : req'[x] = req[x] /\ rows'[x] = rows[x]
  BY DEF Begin, Go, Row, Inv, Types, world, Places, Decided
<1>3. PICK deadline \in Nat : deadline = IF now + Wait < Expires[policy] THEN now + Wait ELSE Expires[policy]
  BY <1>1, DerivedAssumption DEF Inv, Types
<1>4. /\ req'[r] = [req[r] EXCEPT !.policy = policy, !.accepted = id, !.deadline = deadline]
      /\ req' = [req EXCEPT ![r] = [req[r] EXCEPT !.policy = policy, !.accepted = id,
                                                   !.deadline = deadline]]
  BY <1>1, <1>3 DEF Begin, Inv, Types, Requests
<1>5. req'[r] \in Requests /\ req'[r].policy = policy /\ req'[r].accepted = id
  <2>1. policy \in 0..MaxPolicy
    BY <1>1, DerivedAssumption DEF Policies
  <2>2. PICK q \in Requests, p \in 0..MaxPolicy : q = req[r] /\ p = policy
    BY <1>1, <2>1
  <2>3. PICK s1 \in Requests : s1 = [q EXCEPT !.policy = p]
    BY DEF Requests
  <2>4. PICK s2 \in Requests : s2 = [s1 EXCEPT !.accepted = id]
    BY DEF Requests
  <2>5. PICK s \in Requests : s = [s2 EXCEPT !.deadline = deadline]
    BY DEF Requests
  <2>6. req'[r] = s
    BY <1>4, <2>2, <2>3, <2>4, <2>5
  <2>7. s1.policy = p
    BY <2>3 DEF Requests
  <2>8. s2.policy = p /\ s2.accepted = id
    BY <2>4, <2>7 DEF Requests
  <2>9. s.policy = p /\ s.accepted = id
    BY <2>5, <2>8 DEF Requests
  <2> QED
    BY <2>2, <2>6, <2>9
<1>6. req' \in [Req -> Requests]
  BY <1>4, <1>5 DEF Inv, Types
<1>7. approval' \in [Req -> Approvals]
  BY DEF Begin, Inv, Types, Approvals, Consumable
<1>8. /\ rows' \in [Req -> SUBSET Names] /\ ("started" \in rows'[r] <=> "started" \in rows[r])
  BY DEF Begin, Row, Inv, Types, Names
<1>9. pc' \in [Req -> Places]
  BY <1>2 DEF Go, Inv, Types
<1>10. Types'
  BY <1>1, <1>2, <1>6, <1>7, <1>8, <1>9 DEF Inv, Types
<1>11. /\ pc'[r] \in {"admitting", "asking", "ended"}
       /\ pc'[r] = "admitting" => \/ Effect[policy] = "allow"
                                  \/ Effect[policy] = "approve" /\ id # None
  BY DEF Begin, Go, Inv, Types
<1>12. r \notin remote /\ r \notin delivered /\ "started" \notin rows[r] /\ terminal[r] = None
  BY <1>1 DEF RequestInv, Begun
<1>13. RequestInv(r)'
  BY <1>1, <1>2, <1>5, <1>8, <1>11, <1>12 DEF RequestInv, Allowed, Begun, Decided
<1> QED
  BY <1>2, <1>10, <1>13, GoStep

\* Registering an approval ends the request.
LEMMA AskStep ==
    ASSUME Inv, NEW r \in Req, Ask(r)
    PROVE  Inv'
<1>1. RequestInv(r) /\ pc[r] = "asking" /\ req[r].policy \in 0..MaxPolicy
  BY DEF Ask, Inv, Types, Requests
<1>2. /\ UNCHANGED <<policy, now, ended, req, terminal, remote, delivered>> /\ Go(r, "ended")
      /\ \A x \in Req \ {r} : rows'[x] = rows[x]
      /\ rows' \in [Req -> SUBSET Names] /\ ("started" \in rows'[r] <=> "started" \in rows[r])
  BY DEF Ask, Row, Inv, Types, Names, world
<1>3. approval' \in [Req -> Approvals]
  BY <1>1 DEF Ask, Inv, Types, Approvals
<1>4. Types' /\ pc'[r] = "ended"
  BY <1>2, <1>3 DEF Inv, Types, Go, Places
<1>5. r \notin remote /\ r \notin delivered /\ "started" \notin rows[r]
  BY <1>1 DEF RequestInv, Begun
<1>6. RequestInv(r)'
  BY <1>2, <1>4, <1>5 DEF RequestInv, Begun, Decided
<1> QED
  BY <1>2, <1>4, <1>6, GoStep DEF Places

\* Waiting for the coordinator and the commit that starts a request.
LEMMA AdmitStep ==
    ASSUME Inv, NEW r \in Req,
           TakeOwner(r) \/ OwnerTooLate(r) \/ CommitStarted(r) \/ CommitFails(r)
    PROVE  Inv'
<1>1. RequestInv(r) /\ pc[r] \in {"admitting", "committing"}
  BY DEF TakeOwner, OwnerTooLate, CommitStarted, CommitFails, Inv
<1>2. UNCHANGED <<policy, now, ended, approval, req, terminal, remote, delivered>>
  BY DEF TakeOwner, OwnerTooLate, CommitStarted, CommitFails, world
<1>3. /\ Allowed(r) /\ r \notin remote /\ r \notin delivered /\ "started" \notin rows[r]
      /\ terminal[r] = None /\ req[r].policy \in Policies
  BY <1>1 DEF RequestInv, Begun, Decided
<1>4. CASE TakeOwner(r) \/ OwnerTooLate(r) \/ CommitFails(r)
  <2>1. rows' = rows /\ \E where \in {"committing", "ended"} : Go(r, where)
    BY <1>4 DEF TakeOwner, OwnerTooLate, CommitFails
  <2> PICK where \in {"committing", "ended"} : Go(r, where)
    BY <2>1
  <2>2. Types' /\ pc'[r] = where
    BY <1>2, <2>1 DEF Inv, Types, Go, Places, Decided
  <2>3. RequestInv(r)'
    BY <1>2, <1>3, <2>1, <2>2 DEF RequestInv, Begun, Decided, Allowed
  <2> QED
    BY <1>2, <2>1, <2>2, <2>3, GoStep DEF Places, Decided
<1>5. CASE CommitStarted(r)
  <2>1. /\ rows'[r] = rows[r] \cup {"started"} \cup (IF req[r].accepted = None THEN {} ELSE {"accepted"})
        /\ rows' \in [Req -> SUBSET Names] /\ \A x \in Req \ {r} : rows'[x] = rows[x]
        /\ Go(r, "started")
    BY <1>5 DEF CommitStarted, Row, Inv, Types, Names
  <2>2. Types' /\ pc'[r] = "started"
    BY <1>2, <2>1 DEF Inv, Types, Go, Places, Decided, Begun
  <2>3. RequestInv(r)'
    BY <1>2, <1>3, <2>1, <2>2 DEF RequestInv, Begun, Decided, Allowed, Started
  <2> QED
    BY <1>2, <2>1, <2>2, <2>3, GoStep DEF Places, Decided, Begun
<1> QED
  BY <1>4, <1>5

\* A begun handler that goes on, keeping what it was admitted with.
LEMMA OnStep ==
    ASSUME Inv, NEW r \in Req, NEW where \in Begun \ {"finishing"}, Go(r, where),
           pc[r] \in Begun \ {"finishing"},
           UNCHANGED <<policy, now, ended, approval, rows, terminal, delivered>>,
           req' \in [Req -> Requests], \A x \in Req \ {r} : req'[x] = req[x],
           req'[r].policy = req[r].policy, req'[r].accepted = req[r].accepted,
           \/ remote' = remote /\ (where = pc[r] \/ r \notin remote
                                   \/ where \in {"issued", "recording"})
           \/ remote' = remote \cup {r} /\ where = "issued"
    PROVE  Inv'
<1>1. RequestInv(r)
  BY DEF Inv
<1>2. Types' /\ pc'[r] = where
  BY DEF Inv, Types, Go, Places, Decided, Begun
<1>3. RequestInv(r)'
  BY <1>1, <1>2 DEF RequestInv, Begun, Decided, Allowed, Started
<1>4. \A x \in Req \ {r} : x \in remote' <=> x \in remote
  OBVIOUS
<1> QED
  BY <1>2, <1>3, <1>4, GoStep DEF Places, Decided, Begun

\* Going to the provider, its answer, and the answers that never come.
LEMMA IssueStep ==
    ASSUME Inv, NEW r \in Req,
           \/ BeginEffect(r)
           \/ \E usable \in BOOLEAN : PrepareRoot(r, usable) \/ Presign(r, usable)
           \/ \E a \in Answers : Respond(r, a)
           \/ \E issued \in BOOLEAN : IssueFails(r, issued)
    PROVE  Inv'
<1>0. RequestInv(r) /\ req[r] \in Requests /\ now \in Nat
  BY DEF Inv, Types
<1>1. CASE BeginEffect(r)
  <2>1. CASE Running
    <3>1. req' = [req EXCEPT ![r].begun = now]
      BY <1>1, <2>1 DEF BeginEffect
    <3>2. /\ req' \in [Req -> Requests] /\ \A x \in Req \ {r} : req'[x] = req[x]
          /\ req'[r].policy = req[r].policy /\ req'[r].accepted = req[r].accepted
      BY <1>0, <3>1 DEF Inv, Types, Requests
    <3>3. pc[r] = "started" /\ r \notin remote
      BY <1>0, <1>1 DEF BeginEffect, RequestInv
    <3> QED
      BY <1>1, <2>1, <3>2, <3>3, OnStep DEF BeginEffect, Begun, world
  <2>2. CASE ~Running
    BY <1>1, <2>2, EndStep DEF BeginEffect, world, Begun
  <2> QED
    BY <2>1, <2>2
<1>2. ASSUME NEW usable \in BOOLEAN, PrepareRoot(r, usable) PROVE Inv'
  <2>1. pc[r] = "issuing" /\ r \notin remote /\ req' = req /\ req \in [Req -> Requests]
    BY <1>0, <1>2 DEF PrepareRoot, RequestInv, Inv, Types
  <2>2. CASE usable /\ Running
    BY <1>2, <2>1, <2>2, OnStep DEF PrepareRoot, Begun, world
  <2>3. CASE ~(usable /\ Running)
    BY <1>2, <2>1, <2>3, EndStep DEF PrepareRoot, world, Begun
  <2> QED
    BY <2>2, <2>3
<1>3. ASSUME NEW usable \in BOOLEAN, Presign(r, usable) PROVE Inv'
  <2>1. pc[r] = "issuing"
    BY <1>3 DEF Presign
  <2>2. CASE usable /\ Running
    <3>1. PICK at \in Nat : at = (req[r].begun \div Second) * Second + Short
      <4>1. req[r].begun \in Nat /\ Second \in Nat \ {0} /\ Short \in Nat
        BY <1>0, DerivedAssumption DEF Requests
      <4>2. req[r].begun \div Second \in Nat
        BY <4>1
      <4> QED
        BY <4>1, <4>2
    <3>2. req' = [req EXCEPT ![r].expires = at, ![r].at = now]
      BY <1>3, <2>2, <3>1 DEF Presign
    <3>3. /\ req' \in [Req -> Requests] /\ \A x \in Req \ {r} : req'[x] = req[x]
          /\ req'[r].policy = req[r].policy /\ req'[r].accepted = req[r].accepted
      BY <1>0, <3>1, <3>2 DEF Inv, Types, Requests
    <3> QED
      BY <1>3, <2>1, <2>2, <3>3, OnStep DEF Presign, Begun, world
  <2>3. CASE ~(usable /\ Running)
    BY <1>3, <2>1, <2>3, EndStep DEF Presign, world, Begun
  <2> QED
    BY <2>2, <2>3
<1>4. ASSUME NEW a \in Answers, Respond(r, a) PROVE Inv'
  <2>1. pc[r] = "sent" /\ (remote' = remote \/ remote' = remote \cup {r})
    BY <1>4 DEF Respond
  <2>2. CASE AnswerFine(a, Ttl[req[r].policy])
    <3>1. PICK at \in Nat : at = Expiry(a.units)
      BY <1>4, ExpiryFacts
    <3>2. PICK scope \in {"signed", "other"} : scope = a.scope
      BY <1>4 DEF Answers
    <3>3. req' = [req EXCEPT ![r].expires = at, ![r].at = now, ![r].scope = scope]
      BY <1>4, <2>2, <3>1, <3>2 DEF Respond
    <3>4. /\ req' \in [Req -> Requests] /\ \A x \in Req \ {r} : req'[x] = req[x]
          /\ req'[r].policy = req[r].policy /\ req'[r].accepted = req[r].accepted
      BY <1>0, <3>1, <3>2, <3>3 DEF Inv, Types, Requests
    <3>5. remote' = remote \cup {r}
      BY <1>4, <2>2 DEF Respond, AnswerFine
    <3> QED
      BY <1>4, <2>1, <2>2, <3>4, <3>5, OnStep DEF Respond, Begun, world
  <2>3. CASE ~AnswerFine(a, Ttl[req[r].policy])
    BY <1>4, <2>1, <2>3, EndStep DEF Respond, world, Begun
  <2> QED
    BY <2>2, <2>3
<1>5. ASSUME NEW issued \in BOOLEAN, IssueFails(r, issued) PROVE Inv'
  BY <1>5, EndStep DEF IssueFails, world, Begun
<1> QED
  BY <1>1, <1>2, <1>3, <1>4, <1>5

\* Recording, delivery and what ends a request before it.
LEMMA DeliveryStep ==
    ASSUME Inv, NEW r \in Req,
           \/ TakeDelivery(r) \/ DeliveryTooLate(r) \/ RecordIssued(r) \/ RecordFails(r)
           \/ Finish(r) \/ FinishFails(r) \/ Abandon(r)
    PROVE  Inv'
<1>0. RequestInv(r) /\ req \in [Req -> Requests]
  BY DEF Inv, Types
<1>1. CASE TakeDelivery(r)
  <2>1. CASE Deliverable(r)
    BY <1>0, <1>1, <2>1, OnStep DEF TakeDelivery, Begun, world
  <2>2. CASE ~Deliverable(r)
    BY <1>1, <2>2, EndStep DEF TakeDelivery, world, Begun
  <2> QED
    BY <2>1, <2>2
<1>2. CASE DeliveryTooLate(r) \/ RecordFails(r)
  BY <1>2, EndStep DEF DeliveryTooLate, RecordFails, world, Begun
<1>3. CASE Abandon(r)
  BY <1>3, EndStep DEF Abandon, Dropped, world, Begun
<1>4. CASE RecordIssued(r)
  <2>1. /\ pc[r] = "recording" /\ UNCHANGED <<policy, now, ended, approval, req, remote, delivered>>
        /\ rows'[r] = rows[r] \cup {"issued"} /\ rows' \in [Req -> SUBSET Names]
        /\ terminal'[r] = "finished"
        /\ terminal' \in [Req -> {None, "blocked", "indeterminate", "finished"}]
        /\ \A x \in Req \ {r} : rows'[x] = rows[x] /\ terminal'[x] = terminal[x]
        /\ Go(r, "finishing")
    BY <1>4 DEF RecordIssued, Row, Inv, Types, Names, world
  <2>2. Types' /\ pc'[r] = "finishing"
    BY <2>1 DEF Inv, Types, Go, Places, Decided, Begun
  <2>3. RequestInv(r)'
    BY <1>0, <2>1, <2>2 DEF RequestInv, Allowed, Started, Begun, Decided
  <2> QED
    BY <2>1, <2>2, <2>3, GoStep DEF Places, Decided, Begun
<1>5. CASE Finish(r)
  <2>1. /\ pc[r] = "finishing" /\ UNCHANGED <<policy, now, ended, approval, req, terminal, remote>>
        /\ rows'[r] = rows[r] \cup {"finished"} /\ rows' \in [Req -> SUBSET Names]
        /\ \A x \in Req \ {r} : rows'[x] = rows[x]
        /\ delivered' = delivered \cup {r} /\ Go(r, "ended")
    BY <1>5 DEF Finish, Row, Inv, Types, Names, world
  <2>2. Types' /\ pc'[r] = "ended"
    BY <2>1 DEF Inv, Types, Go, Places
  <2>3. RequestInv(r)'
    BY <1>0, <2>1, <2>2 DEF RequestInv, Allowed, Started, Begun, Decided
  <2> QED
    BY <2>1, <2>2, <2>3, GoStep DEF Places
<1>6. CASE FinishFails(r)
  <2>1. /\ pc[r] = "finishing" /\ Go(r, "ended")
        /\ UNCHANGED <<policy, now, ended, approval, req, rows, terminal, remote, delivered>>
    BY <1>6 DEF FinishFails, world
  <2>2. Types' /\ pc'[r] = "ended"
    BY <2>1 DEF Inv, Types, Go, Places
  <2>3. RequestInv(r)'
    BY <1>0, <2>1, <2>2 DEF RequestInv, Allowed, Started, Begun, Decided
  <2> QED
    BY <2>1, <2>2, <2>3, GoStep DEF Places
<1> QED
  BY <1>1, <1>2, <1>3, <1>4, <1>5, <1>6

\* Every step keeps the invariant.
LEMMA InvStep ==
    ASSUME Inv, [Next \/ Idle]_vars
    PROVE  Inv'
<1>1. ASSUME UNCHANGED <<pc, req, rows, terminal, remote, delivered>>, Types' PROVE Inv'
  BY <1>1 DEF Inv, RequestInv, Allowed, Started
<1>2. CASE \E r \in Req : Request(r)
  BY <1>2, BeginStep, AskStep, AdmitStep, IssueStep, DeliveryStep DEF Request
<1>3. ASSUME NEW a \in Req, NEW state \in {"approved", "denied"}, Decide(a, state) PROVE Inv'
  <2>1. approval' \in [Req -> Approvals]
    BY <1>3 DEF Decide, Inv, Types, Approvals
  <2> QED
    BY <1>1, <1>3, <2>1 DEF Decide, Inv, Types, world
<1>4. CASE Activate \/ Drain \/ ClockSet \/ Tick
  <2>1. policy' \in Policies /\ now' \in Nat
    BY <1>4, DerivedAssumption DEF Activate, Drain, ClockSet, Tick, Inv, Types, Policies
  <2> QED
    BY <1>1, <1>4, <2>1 DEF Activate, Drain, ClockSet, Tick, Inv, Types
<1>5. CASE Idle \/ UNCHANGED vars
  BY <1>1, <1>5 DEF Idle, vars, world, Inv, Types
<1> QED
  BY <1>2, <1>3, <1>4, <1>5 DEF Next

\* The invariant holds always.
LEMMA AlwaysInv == Spec => []Inv
<1>1. Init => Inv
  <2> SUFFICES ASSUME Init PROVE Inv
    OBVIOUS
  <2>1. 1 \in Policies /\ 0 \in 0..MaxPolicy
    BY DerivedAssumption DEF Policies
  <2>2. NoRequest \in Requests /\ NoApproval \in Approvals
    BY <2>1 DEF NoRequest, NoApproval, Requests, Approvals
  <2>3. Types
    BY <2>1, <2>2 DEF Init, Types, Places
  <2>4. ASSUME NEW r \in Req PROVE RequestInv(r)
    BY DEF Init, RequestInv, Decided, Begun
  <2> QED
    BY <2>3, <2>4 DEF Inv
<1> QED
  BY <1>1, InvStep, PTL DEF Spec

\* A body leaves derive_credential only for a request whose start, issue and
\* finish are in the journal, with the accepted approval where the policy that
\* admitted it asks for one: RecordIssued and Finish write before the body goes.
THEOREM BodiesAreJournaled == Spec => []DeliveredIsJournaled
<1>1. Inv => DeliveredIsJournaled
  <2> SUFFICES ASSUME Inv, NEW r \in delivered
               PROVE  /\ {"started", "issued", "finished"} \subseteq rows[r]
                      /\ Effect[req[r].policy] = "approve" => "accepted" \in rows[r]
                      /\ Effect[req[r].policy] # "deny"
    BY DEF DeliveredIsJournaled
  <2>1. RequestInv(r)
    BY DEF Inv, Types
  <2> QED
    BY <2>1 DEF RequestInv, Allowed, Started
<1> QED
  BY <1>1, AlwaysInv, PTL

\* A request that may have left a credential at the provider never ends as
\* blocked, or without a terminal row: the guard of a started request says
\* blocked only before the gate was passed (Drop for StartedAuditGuard).
THEOREM IssuedIsNeverBlocked == Spec => []IssuedIsNotBlocked
<1>1. Inv => IssuedIsNotBlocked
  BY DEF Inv, Types, RequestInv, IssuedIsNotBlocked
<1> QED
  BY <1>1, AlwaysInv, PTL

-----------------------------------------------------------------------------
(* What is issued is what was signed.                                      *)

\* Where a handler has a credential in hand.
Issued == {"issued", "recording", "finishing"}

\* What the handler of a request keeps of its credential; the time it began at
\* is not after now.
SignedInv(r) ==
    /\ req[r].scope = "signed"
    /\ pc[r] = "issuing" => req[r].begun <= now
    /\ pc[r] \in Issued => /\ req[r].expires <= req[r].at + Ttl[req[r].policy]
                           /\ Target[req[r].policy] # "eks" => req[r].expires > req[r].at

\* Every credential in hand is as it was signed.
Signed == \A r \in Req : SignedInv(r)

\* A signed lifetime is a whole number; that of an EKS token is the shortest.
LEMMA Lifetimes ==
    ASSUME NEW p \in Policies
    PROVE  Ttl[p] \in Nat /\ (Target[p] = "eks" => Ttl[p] = Short)
<1>1. TtlValid(Target[p], Ttl[p]) /\ Target[p] \in Kind /\ Short \in Nat /\ Long \in Nat
  BY DerivedAssumption
<1>2. CASE Target[p] = "aws"
  BY <1>1, <1>2 DEF TtlValid
<1>3. CASE Target[p] = "eks"
  BY <1>1, <1>3 DEF TtlValid
<1>4. CASE Target[p] = "github"
  BY <1>1, <1>4 DEF TtlValid
<1> QED
  BY <1>1, <1>2, <1>3, <1>4 DEF Kind

\* A step that takes one request further keeps the others' credentials.
LEMMA SignedStep ==
    ASSUME Inv, Signed, NEW r \in Req, now' = now, SignedInv(r)',
           \A x \in Req \ {r} : pc'[x] = pc[x] /\ req'[x] = req[x]
    PROVE  Signed'
BY DEF Signed, SignedInv

\* A step that leaves a request's credential alone.
LEMMA QuietStep ==
    ASSUME Inv, Signed, NEW r \in Req, now' = now,
           \A x \in Req \ {r} : pc'[x] = pc[x] /\ req'[x] = req[x],
           req'[r].scope = req[r].scope,
           pc'[r] # "issuing",
           pc'[r] \in Issued => pc[r] \in Issued /\ req'[r] = req[r]
    PROVE  Signed'
<1>1. SignedInv(r)'
  BY DEF Signed, SignedInv
<1> QED
  BY <1>1, SignedStep

\* Every step keeps the credentials as they were signed.
LEMMA SignedKept ==
    ASSUME Inv, Inv', Signed, [Next \/ Idle]_vars
    PROVE  Signed'
<1>1. ASSUME NEW r \in Req, Request(r) PROVE Signed'
  <2>0. RequestInv(r) /\ SignedInv(r) /\ req[r] \in Requests /\ now \in Nat /\ policy \in Policies
    BY DEF Inv, Types, Signed
  <2>1. ASSUME NEW id \in Req \cup {None}, Begin(r, id) PROVE Signed'
    <3>1. /\ now' = now /\ \A x \in Req \ {r} : pc'[x] = pc[x] /\ req'[x] = req[x]
      BY <2>1 DEF Begin, Go, Inv, Types, world
    <3>2. pc'[r] \notin Issued \cup {"issuing"}
      BY <2>1 DEF Begin, Go, Inv, Types, Issued
    <3>3. req'[r].scope = req[r].scope
      BY <2>0, <2>1 DEF Begin, Inv, Types, Requests
    <3> QED
      BY <3>1, <3>2, <3>3, QuietStep
  <2>2. CASE Ask(r) \/ TakeOwner(r) \/ OwnerTooLate(r) \/ CommitStarted(r) \/ CommitFails(r)
    <3>1. /\ now' = now /\ req' = req /\ \A x \in Req \ {r} : pc'[x] = pc[x]
      BY <2>2 DEF Ask, TakeOwner, OwnerTooLate, CommitStarted, CommitFails, Go, Inv, Types, world
    <3>2. pc'[r] \in {"ended", "committing", "started"}
      BY <2>2 DEF Ask, TakeOwner, OwnerTooLate, CommitStarted, CommitFails, Go, Inv, Types
    <3> QED
      BY <3>1, <3>2, QuietStep DEF Issued
  <2>3. ASSUME UNCHANGED <<now, req>>, NEW last, End(r, last) PROVE Signed'
    <3>1. pc'[r] = "ended" /\ \A x \in Req \ {r} : pc'[x] = pc[x]
      BY <2>3 DEF End, Go, Inv, Types
    <3> QED
      BY <2>3, <3>1, QuietStep DEF Issued
  <2>4. CASE BeginEffect(r)
    <3>1. CASE Running
      <4>1. /\ pc'[r] = "issuing" /\ now' = now
            /\ \A x \in Req \ {r} : pc'[x] = pc[x] /\ req'[x] = req[x]
        BY <2>4, <3>1 DEF BeginEffect, Go, Inv, Types, world
      <4>2. req'[r].begun = now /\ req'[r].scope = req[r].scope
        BY <2>0, <2>4, <3>1 DEF BeginEffect, Inv, Types, Requests
      <4>3. SignedInv(r)'
        BY <2>0, <4>1, <4>2 DEF SignedInv, Issued
      <4> QED
        BY <4>1, <4>3, SignedStep
    <3>2. CASE ~Running
      BY <2>3, <2>4, <3>2 DEF BeginEffect, world
    <3> QED
      BY <3>1, <3>2
  <2>5. ASSUME NEW usable \in BOOLEAN, PrepareRoot(r, usable) PROVE Signed'
    <3>1. CASE usable /\ Running
      <4>1. /\ pc'[r] = "sent" /\ now' = now /\ req' = req /\ \A x \in Req \ {r} : pc'[x] = pc[x]
        BY <2>5, <3>1 DEF PrepareRoot, Go, Inv, Types, world
      <4> QED
        BY <4>1, QuietStep DEF Issued
    <3>2. CASE ~(usable /\ Running)
      BY <2>3, <2>5, <3>2 DEF PrepareRoot, world
    <3> QED
      BY <3>1, <3>2
  <2>6. ASSUME NEW usable \in BOOLEAN, Presign(r, usable) PROVE Signed'
    <3>0. /\ pc[r] = "issuing" /\ Target[req[r].policy] = "eks" /\ req[r].policy \in Policies
          /\ req[r].begun \in Nat /\ req[r].begun <= now
      BY <2>0, <2>6 DEF Presign, RequestInv, SignedInv, Decided, Begun, Requests
    <3>1. CASE usable /\ Running
      <4>1. PICK start \in Nat : start = (req[r].begun \div Second) * Second /\ start <= now
        <5>1. PICK b \in Nat, m \in Nat \ {0} : b = req[r].begun /\ m = Second
          BY <3>0, DerivedAssumption
        <5>2. PICK q \in Nat : q = b \div m /\ m * q <= b
          BY Division
        <5>3. m * q = q * m /\ q * m \in Nat
          OBVIOUS
        <5> QED
          BY <2>0, <3>0, <5>1, <5>2, <5>3
      <4>2. PICK at \in Nat : at = start + Short
        BY DerivedAssumption
      <4>3. req' = [req EXCEPT ![r].expires = at, ![r].at = now]
        BY <2>6, <3>1, <4>1, <4>2 DEF Presign
      <4>4. /\ req'[r].expires = at /\ req'[r].at = now /\ req'[r].scope = req[r].scope
            /\ req'[r].policy = req[r].policy
        BY <2>0, <4>2, <4>3 DEF Inv, Types, Requests
      <4>5. /\ pc'[r] = "issued" /\ now' = now
            /\ \A x \in Req \ {r} : pc'[x] = pc[x] /\ req'[x] = req[x]
        BY <2>6, <3>1, <4>3 DEF Presign, Go, Inv, Types, world
      <4>6. at <= now + Ttl[req[r].policy]
        BY <2>0, <3>0, <4>1, <4>2, Lifetimes, DerivedAssumption
      <4>7. SignedInv(r)'
        BY <2>0, <3>0, <4>4, <4>5, <4>6 DEF SignedInv
      <4> QED
        BY <4>5, <4>7, SignedStep
    <3>2. CASE ~(usable /\ Running)
      BY <2>3, <2>6, <3>2 DEF Presign, world
    <3> QED
      BY <3>1, <3>2
  <2>7. ASSUME NEW a \in Answers, Respond(r, a) PROVE Signed'
    <3>1. CASE AnswerFine(a, Ttl[req[r].policy])
      <4>1. pc[r] = "sent" /\ req[r].policy \in Policies
        BY <2>0, <2>7 DEF Respond, RequestInv, Decided, Begun
      <4>2. PICK t \in Nat : t = Ttl[req[r].policy]
        BY <4>1, Lifetimes
      <4>3. PICK at \in Nat : at = Expiry(a.units) /\ at > now /\ at <= now + t
        <5>1. a.units > now * Sub /\ a.units <= (now + t) * Sub
          BY <3>1, <4>2 DEF AnswerFine, InTime
        <5> QED
          BY <2>0, <5>1, ExpiryFacts
      <4>4. a.scope = "signed"
        BY <3>1 DEF AnswerFine
      <4>5. req' = [req EXCEPT ![r].expires = at, ![r].at = now, ![r].scope = "signed"]
        BY <2>7, <3>1, <4>3, <4>4 DEF Respond
      <4>6. /\ req'[r].expires = at /\ req'[r].at = now /\ req'[r].scope = "signed"
            /\ req'[r].policy = req[r].policy
        BY <2>0, <4>3, <4>5 DEF Inv, Types, Requests
      <4>7. /\ pc'[r] = "issued" /\ now' = now
            /\ \A x \in Req \ {r} : pc'[x] = pc[x] /\ req'[x] = req[x]
        BY <2>7, <3>1, <4>5 DEF Respond, Go, Inv, Types, world
      <4>8. SignedInv(r)'
        BY <4>2, <4>3, <4>6, <4>7 DEF SignedInv
      <4> QED
        BY <4>7, <4>8, SignedStep
    <3>2. CASE ~AnswerFine(a, Ttl[req[r].policy])
      BY <2>3, <2>7, <3>2 DEF Respond, world
    <3> QED
      BY <3>1, <3>2
  <2>8. CASE \E issued \in BOOLEAN : IssueFails(r, issued)
    BY <2>3, <2>8 DEF IssueFails, world
  <2>9. CASE TakeDelivery(r)
    <3>1. CASE Deliverable(r)
      <4>1. /\ pc[r] = "issued" /\ pc'[r] = "recording" /\ now' = now /\ req' = req
            /\ \A x \in Req \ {r} : pc'[x] = pc[x]
        BY <2>9, <3>1 DEF TakeDelivery, Go, Inv, Types, world
      <4> QED
        BY <4>1, QuietStep DEF Issued
    <3>2. CASE ~Deliverable(r)
      BY <2>3, <2>9, <3>2 DEF TakeDelivery, world
    <3> QED
      BY <3>1, <3>2
  <2>10. CASE DeliveryTooLate(r) \/ RecordFails(r) \/ Abandon(r)
    BY <2>3, <2>10 DEF DeliveryTooLate, RecordFails, Abandon, world
  <2>11. CASE RecordIssued(r) \/ Finish(r) \/ FinishFails(r)
    <3>1. /\ now' = now /\ req' = req /\ \A x \in Req \ {r} : pc'[x] = pc[x]
          /\ pc[r] \in Issued /\ pc'[r] \in {"finishing", "ended"}
      BY <2>11 DEF RecordIssued, Finish, FinishFails, Go, Inv, Types, world, Issued
    <3> QED
      BY <3>1, QuietStep DEF Issued
  <2> QED
    BY <1>1, <2>1, <2>2, <2>4, <2>5, <2>6, <2>7, <2>8, <2>9, <2>10, <2>11 DEF Request
<1>2. ASSUME UNCHANGED <<pc, req>>, now' \in Nat, now <= now' PROVE Signed'
  <2>1. now \in Nat /\ \A r \in Req : req[r].begun \in Nat
    BY DEF Inv, Types, Requests
  <2> QED
    BY <1>2, <2>1 DEF Signed, SignedInv
<1>3. CASE \E a \in Req : \E state \in {"approved", "denied"} : Decide(a, state)
  BY <1>2, <1>3 DEF Decide, world, Inv, Types
<1>4. CASE Activate \/ Drain \/ ClockSet \/ Tick
  BY <1>2, <1>4 DEF Activate, Drain, ClockSet, Tick, Inv, Types
<1>5. CASE Idle \/ UNCHANGED vars
  BY <1>2, <1>5 DEF Idle, vars, world, Inv, Types
<1> QED
  BY <1>1, <1>3, <1>4, <1>5 DEF Next

\* What issue returns ends within the signed lifetime, counted from the moment it
\* was made and after the rounding of expiry, is alive then unless it is a token
\* made here, and has the signed scope, for every time the answer may take.
THEOREM CredentialsAreAsSigned == Spec => []IssuedAsSigned
<1>1. Init => Signed
  BY DEF Init, Signed, SignedInv, Issued, NoRequest
<1>2. Signed => IssuedAsSigned
  BY DEF Signed, SignedInv, IssuedAsSigned, Issued
<1> QED
  BY <1>1, <1>2, AlwaysInv, SignedKept, PTL DEF Spec

-----------------------------------------------------------------------------
(* The coordinator, and the policy under which a body leaves.              *)

\* Where a handler holds the coordinator.
Holding == {"committing", "recording", "finishing"}

\* The holder of the coordinator is where the code holds it, what is being
\* recorded is under the current policy, and a deadline is not after the end of
\* the policy that admitted the request.
HeldInv(r) ==
    /\ (owner = r) <=> pc[r] \in Holding
    /\ pc[r] \in {"recording", "finishing"} => policy = req[r].policy
    /\ pc[r] \in Decided => req[r].deadline <= Expires[req[r].policy]

\* The coordinator, the gate and the time.
Held ==
    /\ owner \in Req \cup {None} /\ gate \in {"running", "draining"} /\ now <= MaxNow
    /\ \A r \in Req : HeldInv(r)

\* A step that takes one request further leaves the coordinator to the others
\* that hold it.
LEMMA HeldStep ==
    ASSUME Inv, Held, NEW r \in Req, UNCHANGED world, owner' \in Req \cup {None},
           \A x \in Req \ {r} : pc'[x] = pc[x] /\ req'[x] = req[x] /\ (owner' = x <=> owner = x),
           HeldInv(r)'
    PROVE  Held'
<1>1. \A x \in Req \ {r} : HeldInv(x)'
  BY DEF Held, HeldInv, world
<1> QED
  BY <1>1 DEF Held, world

\* A request that ends, or gives back the coordinator, is no longer a holder.
LEMMA FreeStep ==
    ASSUME Inv, Held, NEW r \in Req, UNCHANGED world, Free(r), req' = req,
           \A x \in Req \ {r} : pc'[x] = pc[x],
           pc'[r] \in {"ended", "started"}, pc'[r] = "started" => pc[r] = "committing"
    PROVE  Held'
<1>1. None \notin Req
  BY DerivedAssumption
<1>2. /\ owner' \in Req \cup {None} /\ owner' # r
      /\ \A x \in Req \ {r} : owner' = x <=> owner = x
  BY <1>1 DEF Free, Held
<1>3. HeldInv(r)
  BY DEF Held
<1>4. HeldInv(r)'
  BY <1>2, <1>3 DEF HeldInv, Holding, Decided, Begun, world
<1> QED
  BY <1>2, <1>4, HeldStep

\* A request that goes on with the coordinator as it was and is no holder.
LEMMA OutsideStep ==
    ASSUME Inv, Held, NEW r \in Req, UNCHANGED world, owner' = owner,
           \A x \in Req \ {r} : pc'[x] = pc[x] /\ req'[x] = req[x],
           pc[r] \notin Holding, pc'[r] \notin Holding,
           pc'[r] \in Decided => req'[r].deadline <= Expires[req'[r].policy]
    PROVE  Held'
<1>1. HeldInv(r)
  BY DEF Held
<1>2. HeldInv(r)'
  BY <1>1 DEF HeldInv, Holding, world
<1>3. owner' \in Req \cup {None}
  BY DEF Held
<1> QED
  BY <1>2, <1>3, HeldStep

\* A request that takes the coordinator when nobody has it.
LEMMA TakeStep ==
    ASSUME Inv, Held, NEW r \in Req, UNCHANGED world, owner = None, owner' = r, req' = req,
           \A x \in Req \ {r} : pc'[x] = pc[x],
           pc'[r] \in Holding, pc[r] \in Decided, policy = req[r].policy
    PROVE  Held'
<1>1. HeldInv(r) /\ None \notin Req
  BY DerivedAssumption DEF Held
<1>2. HeldInv(r)'
  BY <1>1 DEF HeldInv, world
<1>3. owner' \in Req \cup {None} /\ \A x \in Req \ {r} : owner' = x <=> owner = x
  BY <1>1
<1> QED
  BY <1>2, <1>3, HeldStep

\* Every step keeps the coordinator with its holder.
LEMMA HeldKept ==
    ASSUME Inv, Held, [Next \/ Idle]_vars
    PROVE  Held'
<1>1. ASSUME NEW r \in Req, Request(r) PROVE Held'
  <2>0. RequestInv(r) /\ HeldInv(r) /\ req[r] \in Requests /\ now \in Nat /\ policy \in Policies
    BY DEF Inv, Types, Held
  <2>1. ASSUME NEW id \in Req \cup {None}, Begin(r, id) PROVE Held'
    <3>1. /\ UNCHANGED world /\ owner' = owner /\ pc[r] = "new"
          /\ \A x \in Req \ {r} : pc'[x] = pc[x] /\ req'[x] = req[x]
      BY <2>1 DEF Begin, Go, Inv, Types
    <3>2. pc'[r] \in {"admitting", "asking", "ended"}
      BY <2>1 DEF Begin, Go, Inv, Types
    <3>3. PICK deadline \in Nat : /\ deadline = IF now + Wait < Expires[policy] THEN now + Wait ELSE Expires[policy]
                                  /\ deadline <= Expires[policy]
      BY <2>0, DerivedAssumption
    <3>4. req' = [req EXCEPT ![r].policy = policy, ![r].accepted = id, ![r].deadline = deadline]
      BY <2>1, <3>3 DEF Begin
    <3>5. req'[r].policy = policy /\ req'[r].deadline = deadline
      BY <2>0, <3>4 DEF Inv, Types, Requests
    <3> QED
      BY <3>1, <3>2, <3>3, <3>5, OutsideStep DEF Holding
  <2>2. CASE Ask(r) \/ OwnerTooLate(r)
    <3>1. /\ UNCHANGED world /\ owner' = owner /\ req' = req /\ pc[r] \in {"asking", "admitting"}
          /\ pc'[r] = "ended" /\ \A x \in Req \ {r} : pc'[x] = pc[x]
      BY <2>2 DEF Ask, OwnerTooLate, Go, Inv, Types
    <3> QED
      BY <3>1, OutsideStep DEF Holding, Decided, Begun
  <2>3. CASE TakeOwner(r)
    <3>0. UNCHANGED world /\ req' = req /\ pc[r] = "admitting" /\ owner = None
      BY <2>3 DEF TakeOwner
    <3>1. CASE Admissible(r)
      <4>1. pc'[r] = "committing" /\ owner' = r /\ \A x \in Req \ {r} : pc'[x] = pc[x]
        BY <2>3, <3>1 DEF TakeOwner, Go, Inv, Types
      <4> QED
        BY <3>0, <3>1, <4>1, TakeStep DEF Holding, Decided, Admissible
    <3>2. CASE ~Admissible(r)
      <4>1. pc'[r] = "ended" /\ owner' = owner /\ \A x \in Req \ {r} : pc'[x] = pc[x]
        BY <2>3, <3>2 DEF TakeOwner, Go, Inv, Types
      <4> QED
        BY <3>0, <4>1, OutsideStep DEF Holding, Decided, Begun
    <3> QED
      BY <3>1, <3>2
  <2>4. CASE CommitStarted(r) \/ CommitFails(r)
    <3>1. /\ UNCHANGED world /\ req' = req /\ Free(r) /\ pc[r] = "committing"
          /\ pc'[r] \in {"started", "ended"} /\ \A x \in Req \ {r} : pc'[x] = pc[x]
      BY <2>4 DEF CommitStarted, CommitFails, Go, Inv, Types
    <3> QED
      BY <3>1, FreeStep
  <2>5. ASSUME UNCHANGED world, req' = req, NEW last, End(r, last) PROVE Held'
    <3>1. pc'[r] = "ended" /\ Free(r) /\ \A x \in Req \ {r} : pc'[x] = pc[x]
      BY <2>5 DEF End, Go, Inv, Types
    <3> QED
      BY <2>5, <3>1, FreeStep
  <2>6. CASE BeginEffect(r)
    <3>1. CASE Running
      <4>1. /\ UNCHANGED world /\ owner' = owner /\ pc[r] = "started" /\ pc'[r] = "issuing"
            /\ \A x \in Req \ {r} : pc'[x] = pc[x] /\ req'[x] = req[x]
        BY <2>6, <3>1 DEF BeginEffect, Go, Inv, Types
      <4>2. req'[r].policy = req[r].policy /\ req'[r].deadline = req[r].deadline
        BY <2>0, <2>6, <3>1 DEF BeginEffect, Inv, Types, Requests
      <4>3. req[r].deadline <= Expires[req[r].policy]
        BY <2>0, <4>1 DEF HeldInv, Decided, Begun
      <4> QED
        BY <4>1, <4>2, <4>3, OutsideStep DEF Holding
    <3>2. CASE ~Running
      BY <2>5, <2>6, <3>2 DEF BeginEffect
    <3> QED
      BY <3>1, <3>2
  <2>7. ASSUME NEW usable \in BOOLEAN, PrepareRoot(r, usable) PROVE Held'
    <3>1. CASE usable /\ Running
      <4>1. /\ UNCHANGED world /\ owner' = owner /\ req' = req /\ pc[r] = "issuing" /\ pc'[r] = "sent"
            /\ \A x \in Req \ {r} : pc'[x] = pc[x]
        BY <2>7, <3>1 DEF PrepareRoot, Go, Inv, Types
      <4>2. req[r].deadline <= Expires[req[r].policy]
        BY <2>0, <4>1 DEF HeldInv, Decided, Begun
      <4> QED
        BY <4>1, <4>2, OutsideStep DEF Holding
    <3>2. CASE ~(usable /\ Running)
      BY <2>5, <2>7, <3>2 DEF PrepareRoot
    <3> QED
      BY <3>1, <3>2
  <2>8. ASSUME NEW usable \in BOOLEAN, Presign(r, usable) PROVE Held'
    <3>1. CASE usable /\ Running
      <4>1. PICK at : at = (req[r].begun \div Second) * Second + Short
        OBVIOUS
      <4>2. req' = [req EXCEPT ![r].expires = at, ![r].at = now]
        BY <2>8, <3>1, <4>1 DEF Presign
      <4>3. /\ UNCHANGED world /\ owner' = owner /\ pc[r] = "issuing" /\ pc'[r] = "issued"
            /\ \A x \in Req \ {r} : pc'[x] = pc[x] /\ req'[x] = req[x]
        BY <2>8, <3>1, <4>2 DEF Presign, Go, Inv, Types
      <4>4. req'[r].policy = req[r].policy /\ req'[r].deadline = req[r].deadline
        BY <2>0, <4>2 DEF Inv, Types, Requests
      <4>5. req[r].deadline <= Expires[req[r].policy]
        BY <2>0, <4>3 DEF HeldInv, Decided, Begun
      <4> QED
        BY <4>3, <4>4, <4>5, OutsideStep DEF Holding
    <3>2. CASE ~(usable /\ Running)
      BY <2>5, <2>8, <3>2 DEF Presign
    <3> QED
      BY <3>1, <3>2
  <2>9. ASSUME NEW a \in Answers, Respond(r, a) PROVE Held'
    <3>1. CASE AnswerFine(a, Ttl[req[r].policy])
      <4>1. PICK at, scope : at = Expiry(a.units) /\ scope = a.scope
        OBVIOUS
      <4>2. req' = [req EXCEPT ![r].expires = at, ![r].at = now, ![r].scope = scope]
        BY <2>9, <3>1, <4>1 DEF Respond
      <4>3. /\ UNCHANGED world /\ owner' = owner /\ pc[r] = "sent" /\ pc'[r] = "issued"
            /\ \A x \in Req \ {r} : pc'[x] = pc[x] /\ req'[x] = req[x]
        BY <2>9, <3>1, <4>2 DEF Respond, Go, Inv, Types
      <4>4. req'[r].policy = req[r].policy /\ req'[r].deadline = req[r].deadline
        BY <2>0, <4>2 DEF Inv, Types, Requests
      <4>5. req[r].deadline <= Expires[req[r].policy]
        BY <2>0, <4>3 DEF HeldInv, Decided, Begun
      <4> QED
        BY <4>3, <4>4, <4>5, OutsideStep DEF Holding
    <3>2. CASE ~AnswerFine(a, Ttl[req[r].policy])
      BY <2>5, <2>9, <3>2 DEF Respond
    <3> QED
      BY <3>1, <3>2
  <2>10. CASE \E issued \in BOOLEAN : IssueFails(r, issued)
    BY <2>5, <2>10 DEF IssueFails
  <2>11. CASE TakeDelivery(r)
    <3>1. CASE Deliverable(r)
      <4>1. /\ UNCHANGED world /\ req' = req /\ owner = None /\ owner' = r /\ pc[r] = "issued"
            /\ pc'[r] = "recording" /\ \A x \in Req \ {r} : pc'[x] = pc[x]
        BY <2>11, <3>1 DEF TakeDelivery, Go, Inv, Types
      <4> QED
        BY <3>1, <4>1, TakeStep DEF Holding, Decided, Begun, Deliverable
    <3>2. CASE ~Deliverable(r)
      BY <2>5, <2>11, <3>2 DEF TakeDelivery
    <3> QED
      BY <3>1, <3>2
  <2>12. CASE DeliveryTooLate(r) \/ RecordFails(r) \/ Abandon(r)
    BY <2>5, <2>12 DEF DeliveryTooLate, RecordFails, Abandon
  <2>13. CASE RecordIssued(r)
    <3>1. /\ UNCHANGED world /\ req' = req /\ owner' = owner /\ pc[r] = "recording"
          /\ pc'[r] = "finishing" /\ \A x \in Req \ {r} : pc'[x] = pc[x]
      BY <2>13 DEF RecordIssued, Go, Inv, Types
    <3>2. HeldInv(r)'
      BY <2>0, <3>1 DEF HeldInv, Holding, Decided, Begun, world
    <3>3. owner' \in Req \cup {None}
      BY <3>1 DEF Held
    <3> QED
      BY <3>1, <3>2, <3>3, HeldStep
  <2>14. CASE Finish(r) \/ FinishFails(r)
    <3>1. /\ UNCHANGED world /\ req' = req /\ Free(r) /\ pc'[r] = "ended"
          /\ \A x \in Req \ {r} : pc'[x] = pc[x]
      BY <2>14 DEF Finish, FinishFails, Go, Inv, Types
    <3> QED
      BY <3>1, FreeStep
  <2> QED
    BY <1>1, <2>1, <2>2, <2>3, <2>4, <2>6, <2>7, <2>8, <2>9, <2>10, <2>11, <2>12, <2>13, <2>14
       DEF Request
<1>2. ASSUME UNCHANGED <<pc, req, owner>>, policy' = policy \/ owner = None,
             gate' \in {"running", "draining"}, now' <= MaxNow
      PROVE  Held'
  <2>1. ASSUME NEW r \in Req PROVE HeldInv(r)'
    <3>1. HeldInv(r) /\ None \notin Req
      BY DerivedAssumption DEF Held
    <3> QED
      BY <1>2, <3>1 DEF HeldInv, Holding
  <2> QED
    BY <1>2, <2>1 DEF Held
<1>3. CASE \E a \in Req : \E state \in {"approved", "denied"} : Decide(a, state)
  BY <1>2, <1>3 DEF Decide, world, Held
<1>4. CASE Activate \/ Drain \/ ClockSet
  BY <1>2, <1>4 DEF Activate, Drain, ClockSet, Held
<1>5. CASE Tick
  <2>1. now' <= MaxNow
    BY <1>5, DerivedAssumption DEF Tick, Inv, Types
  <2> QED
    BY <1>2, <1>5, <2>1 DEF Tick, Held
<1>6. CASE Idle \/ UNCHANGED vars
  BY <1>2, <1>6 DEF Idle, vars, world, Held
<1> QED
  BY <1>1, <1>3, <1>4, <1>5, <1>6 DEF Next

\* The coordinator's invariant holds always.
LEMMA AlwaysHeld == Spec => []Held
<1>1. Init => Held
  BY DerivedAssumption DEF Init, Held, HeldInv, Holding, Decided, Begun
<1> QED
  BY <1>1, AlwaysInv, HeldKept, PTL DEF Spec

\* The types, and the coordinator is held exactly between a request's checks and
\* the commit or the body they are for.
THEOREM CoordinatorIsHeld == Spec => []TypeOK
<1>1. Inv /\ Held => TypeOK
  BY DerivedAssumption DEF Inv, Types, Held, HeldInv, Holding, TypeOK, Approvals, Names
<1> QED
  BY <1>1, AlwaysInv, AlwaysHeld, PTL

\* A body leaves under the policy that admitted its request, which has neither
\* been replaced nor ended as counted from its activation: activation waits for
\* the coordinator that delivery holds, and the deadline of Finish is not after
\* the policy's end.
THEOREM BodiesLeaveUnderTheirPolicy == Spec => [][DeliveredUnderItsPolicy]_vars
<1>1. ASSUME Inv, Held, [Next \/ Idle]_vars, NEW r \in Req, r \in delivered', r \notin delivered
      PROVE  policy = req[r].policy /\ now < Expires[policy]
  <2>1. Finish(r)
    <3>1. CASE Activate \/ Drain \/ ClockSet \/ Tick \/ Idle \/ UNCHANGED vars
      BY <1>1, <3>1 DEF Activate, Drain, ClockSet, Tick, Idle, vars
    <3>2. ASSUME NEW a \in Req, NEW state, Decide(a, state) PROVE FALSE
      BY <1>1, <3>2 DEF Decide
    <3>3. ASSUME NEW x \in Req, Request(x) PROVE Finish(r)
      <4>1. CASE Finish(x)
        BY <1>1, <4>1 DEF Finish
      <4>2. CASE \/ \E id \in Req \cup {None} : Begin(x, id)
                 \/ Ask(x) \/ TakeOwner(x) \/ OwnerTooLate(x) \/ CommitStarted(x) \/ CommitFails(x)
        BY <1>1, <4>2 DEF Begin, Ask, TakeOwner, OwnerTooLate, CommitStarted, CommitFails
      <4>3. CASE \/ BeginEffect(x)
                 \/ \E usable \in BOOLEAN : PrepareRoot(x, usable) \/ Presign(x, usable)
                 \/ \E a \in Answers : Respond(x, a)
                 \/ \E issued \in BOOLEAN : IssueFails(x, issued)
        BY <1>1, <4>3 DEF BeginEffect, PrepareRoot, Presign, Respond, IssueFails
      <4>4. CASE \/ TakeDelivery(x) \/ DeliveryTooLate(x) \/ RecordIssued(x) \/ RecordFails(x)
                 \/ FinishFails(x) \/ Abandon(x)
        BY <1>1, <4>4 DEF TakeDelivery, DeliveryTooLate, RecordIssued, RecordFails, FinishFails, Abandon
      <4> QED
        BY <3>3, <4>1, <4>2, <4>3, <4>4 DEF Request
    <3> QED
      BY <1>1, <3>1, <3>2, <3>3 DEF Next
  <2>2. HeldInv(r) /\ RequestInv(r) /\ req[r] \in Requests /\ now \in Nat
    BY <1>1 DEF Held, Inv, Types
  <2>3. /\ policy = req[r].policy /\ req[r].deadline <= Expires[req[r].policy] /\ now < req[r].deadline
        /\ req[r].policy \in Policies
    BY <2>1, <2>2 DEF Finish, HeldInv, RequestInv, Decided, Begun
  <2>4. Expires[policy] \in Nat /\ req[r].deadline \in Nat
    BY <2>2, <2>3, DerivedAssumption DEF Requests
  <2> QED
    BY <2>2, <2>3, <2>4
<1>2. Inv /\ Held /\ [Next \/ Idle]_vars => DeliveredUnderItsPolicy
  BY <1>1 DEF DeliveredUnderItsPolicy
<1> QED
  BY <1>2, AlwaysInv, AlwaysHeld, PTL DEF Spec

-----------------------------------------------------------------------------
(* Approvals.                                                              *)

\* The request was let through with an approval, or has started with one.
Took(r) == req[r].accepted # None /\ (pc[r] \in Decided \/ "started" \in rows[r])

\* The approval a request took is consumed and its own, and no other request
\* took it; a name stands for no approval before its request has asked.
OnceInv ==
    /\ \A r \in Req : Took(r) => /\ req[r].accepted \in Req
                                 /\ approval[req[r].accepted].state = "consumed"
                                 /\ approval[req[r].accepted].caller = Caller[r]
                                 /\ approval[req[r].accepted].policy = req[r].policy
    /\ \A r \in Req, s \in Req : Took(r) /\ Took(s) /\ req[r].accepted = req[s].accepted => r = s
    /\ \A r \in Req : pc[r] \in {"new", "asking"} => approval[r] = NoApproval

\* Steps that take nothing and leave every consumed approval as it is.
LEMMA OnceStep ==
    ASSUME Inv, OnceInv,
           \A x \in Req : Took(x)' => /\ Took(x) /\ req'[x].accepted = req[x].accepted
                                      /\ req'[x].policy = req[x].policy,
           \A x \in Req : approval[x].state = "consumed" => approval'[x] = approval[x],
           \A x \in Req : pc'[x] \in {"new", "asking"} => approval'[x] = NoApproval
    PROVE  OnceInv'
<1>1. \A r \in Req : Took(r)' => /\ req'[r].accepted \in Req
                                 /\ approval'[req'[r].accepted].state = "consumed"
                                 /\ approval'[req'[r].accepted].caller = Caller[r]
                                 /\ approval'[req'[r].accepted].policy = req'[r].policy
  BY DEF OnceInv
<1>2. \A r \in Req, s \in Req : Took(r)' /\ Took(s)' /\ req'[r].accepted = req'[s].accepted => r = s
  BY DEF OnceInv
<1> QED
  BY <1>1, <1>2 DEF OnceInv

\* The decision consumes the approval it lets a request through with.
LEMMA OnceBegin ==
    ASSUME Inv, OnceInv, NEW r \in Req, NEW id \in Req \cup {None}, Begin(r, id)
    PROVE  OnceInv'
<1>1. /\ RequestInv(r) /\ pc[r] = "new" /\ approval[r] = NoApproval /\ policy \in Policies
      /\ "started" \notin rows[r]
  BY DEF Begin, Inv, Types, OnceInv, RequestInv, Begun
<1>2. req'[r].accepted = id /\ req'[r].policy = policy /\ \A x \in Req \ {r} : req'[x] = req[x]
  <2>1. PICK deadline : deadline = IF now + Wait < Expires[policy] THEN now + Wait ELSE Expires[policy]
    OBVIOUS
  <2>2. req' = [req EXCEPT ![r].policy = policy, ![r].accepted = id, ![r].deadline = deadline]
    BY <2>1 DEF Begin
  <2> QED
    BY <2>2 DEF Inv, Types, Requests
<1>3. /\ \A x \in Req \ {r} : pc'[x] = pc[x] /\ rows'[x] = rows[x]
      /\ "started" \notin rows'[r] /\ pc'[r] \in {"admitting", "asking", "ended"}
  BY <1>1 DEF Begin, Go, Row, Inv, Types
<1>4. \A x \in Req \ {r} : Took(x)' <=> Took(x)
  BY <1>2, <1>3 DEF Took
<1>5. CASE Running /\ Live(policy) /\ Effect[policy] = "approve" /\ id # None /\ Consumable(r, id, policy)
  <2>1. /\ id \in Req /\ approval[id].state = "approved" /\ approval[id].caller = Caller[r]
        /\ approval[id].policy = policy /\ approval[id] \in Approvals
    BY <1>5 DEF Consumable, Inv, Types
  <2>2. approval' = [approval EXCEPT ![id].state = "consumed"] /\ pc'[r] = "admitting"
    BY <1>5 DEF Begin, Go, Inv, Types
  <2>3. /\ approval'[id].state = "consumed" /\ approval'[id].caller = Caller[r]
        /\ approval'[id].policy = policy
        /\ \A x \in Req \ {id} : approval'[x] = approval[x]
    BY <2>1, <2>2 DEF Inv, Types, Approvals
  <2>4. \A x \in Req \ {r} : Took(x) => req[x].accepted # id
    BY <2>1 DEF OnceInv
  <2>5. \A x \in Req : pc[x] \in {"new", "asking"} => x # id
    BY <2>1 DEF OnceInv, NoApproval
  <2>6. ASSUME NEW x \in Req, Took(x)'
        PROVE  /\ req'[x].accepted \in Req
               /\ approval'[req'[x].accepted].state = "consumed"
               /\ approval'[req'[x].accepted].caller = Caller[x]
               /\ approval'[req'[x].accepted].policy = req'[x].policy
    <3>1. CASE x = r
      BY <1>2, <2>1, <2>3, <3>1
    <3>2. CASE x # r
      <4>1. /\ Took(x) /\ req'[x] = req[x] /\ req[x].accepted # id
            /\ approval'[req[x].accepted] = approval[req[x].accepted] /\ req[x].accepted \in Req
        BY <1>2, <1>4, <2>3, <2>4, <2>6, <3>2 DEF OnceInv
      <4> QED
        BY <4>1 DEF OnceInv
    <3> QED
      BY <3>1, <3>2
  <2>7. ASSUME NEW x \in Req, NEW y \in Req, Took(x)', Took(y)', req'[x].accepted = req'[y].accepted
        PROVE  x = y
    <3>1. CASE x = r \/ y = r
      BY <1>2, <1>4, <2>4, <2>7, <3>1
    <3>2. CASE x # r /\ y # r
      BY <1>2, <1>4, <2>7, <3>2 DEF OnceInv
    <3> QED
      BY <3>1, <3>2
  <2>8. \A x \in Req : pc'[x] \in {"new", "asking"} => approval'[x] = NoApproval
    <3>1. pc'[r] \notin {"new", "asking"}
      BY <2>2
    <3> QED
      BY <1>3, <2>3, <2>5, <3>1 DEF OnceInv
  <2> QED
    BY <2>6, <2>7, <2>8 DEF OnceInv
<1>6. CASE ~(Running /\ Live(policy) /\ Effect[policy] = "approve" /\ id # None /\ Consumable(r, id, policy))
  <2>1. approval' = approval
    BY <1>6 DEF Begin
  <2>2. pc'[r] = "admitting" => id = None
    BY <1>6 DEF Begin, Go, Inv, Types
  <2>3. ~Took(r)'
    BY <1>2, <1>3, <2>2 DEF Took, Decided, Begun
  <2>4. \A x \in Req : Took(x)' => /\ Took(x) /\ req'[x].accepted = req[x].accepted
                                   /\ req'[x].policy = req[x].policy
    BY <1>2, <1>4, <2>3
  <2>5. \A x \in Req : pc'[x] \in {"new", "asking"} => approval'[x] = NoApproval
    BY <1>1, <1>3, <2>1 DEF OnceInv
  <2> QED
    BY <2>1, <2>4, <2>5, OnceStep
<1> QED
  BY <1>5, <1>6

\* Every step keeps an approval with the one request that took it.
LEMMA OnceKept ==
    ASSUME Inv, OnceInv, [Next \/ Idle]_vars
    PROVE  OnceInv'
<1>1. ASSUME NEW r \in Req, Request(r) PROVE OnceInv'
  <2>0. RequestInv(r) /\ req[r] \in Requests
    BY DEF Inv, Types
  <2>1. CASE \E id \in Req \cup {None} : Begin(r, id)
    BY <2>1, OnceBegin
  <2>2. CASE Ask(r)
    <3>1. /\ pc[r] = "asking" /\ pc'[r] = "ended" /\ req' = req /\ approval[r] = NoApproval
          /\ \A x \in Req \ {r} : pc'[x] = pc[x] /\ rows'[x] = rows[x]
          /\ ("started" \in rows'[r] <=> "started" \in rows[r])
      BY <2>2 DEF Ask, Go, Row, Inv, Types, OnceInv
    <3>2. \A x \in Req : Took(x)' => Took(x)
      BY <3>1 DEF Took, Decided, Begun
    <3>3. \A x \in Req \ {r} : approval'[x] = approval[x]
      BY <2>2 DEF Ask, Inv, Types
    <3>4. approval[r].state # "consumed"
      BY <3>1 DEF NoApproval
    <3>5. \A x \in Req : pc'[x] \in {"new", "asking"} => approval'[x] = NoApproval
      BY <3>1, <3>3 DEF OnceInv
    <3> QED
      BY <3>1, <3>2, <3>3, <3>4, <3>5, OnceStep
  <2>3. ASSUME approval' = approval, pc[r] \in Decided, pc'[r] \in Decided \cup {"ended"},
               \A x \in Req \ {r} : pc'[x] = pc[x] /\ req'[x] = req[x] /\ rows'[x] = rows[x],
               req'[r].accepted = req[r].accepted, req'[r].policy = req[r].policy
        PROVE  OnceInv'
    <3>1. \A x \in Req : Took(x)' => Took(x)
      BY <2>3 DEF Took
    <3>2. \A x \in Req : pc'[x] \in {"new", "asking"} => approval'[x] = NoApproval
      BY <2>3 DEF OnceInv, Decided, Begun
    <3> QED
      BY <2>3, <3>1, <3>2, OnceStep
  <2>4. CASE TakeOwner(r) \/ OwnerTooLate(r) \/ CommitStarted(r) \/ CommitFails(r)
    <3>1. /\ approval' = approval /\ req' = req /\ pc[r] \in {"admitting", "committing"}
      BY <2>4 DEF TakeOwner, OwnerTooLate, CommitStarted, CommitFails
    <3>2. /\ pc'[r] \in {"committing", "started", "ended"}
          /\ \A x \in Req \ {r} : pc'[x] = pc[x] /\ rows'[x] = rows[x]
      BY <2>4 DEF TakeOwner, OwnerTooLate, CommitStarted, CommitFails, Go, Row, Inv, Types
    <3> QED
      BY <2>3, <3>1, <3>2 DEF Decided, Begun
  <2>5. CASE BeginEffect(r)
    <3>1. /\ approval' = approval /\ rows' = rows /\ pc[r] = "started" /\ pc'[r] \in {"issuing", "ended"}
          /\ \A x \in Req \ {r} : pc'[x] = pc[x] /\ req'[x] = req[x]
      BY <2>5 DEF BeginEffect, End, Go, Inv, Types
    <3>2. req'[r].accepted = req[r].accepted /\ req'[r].policy = req[r].policy
      BY <2>0, <2>5 DEF BeginEffect, Inv, Types, Requests
    <3> QED
      BY <2>3, <3>1, <3>2 DEF Decided, Begun
  <2>6. ASSUME NEW usable \in BOOLEAN, PrepareRoot(r, usable) PROVE OnceInv'
    <3>1. /\ approval' = approval /\ rows' = rows /\ req' = req /\ pc[r] = "issuing"
          /\ pc'[r] \in {"sent", "ended"} /\ \A x \in Req \ {r} : pc'[x] = pc[x]
      BY <2>6 DEF PrepareRoot, End, Go, Inv, Types
    <3> QED
      BY <2>3, <3>1 DEF Decided, Begun
  <2>7. ASSUME NEW usable \in BOOLEAN, Presign(r, usable) PROVE OnceInv'
    <3>1. PICK at : at = (req[r].begun \div Second) * Second + Short
      OBVIOUS
    <3>2. req' = req \/ req' = [req EXCEPT ![r].expires = at, ![r].at = now]
      BY <2>7, <3>1 DEF Presign
    <3>3. /\ approval' = approval /\ rows' = rows /\ pc[r] = "issuing" /\ pc'[r] \in {"issued", "ended"}
          /\ \A x \in Req \ {r} : pc'[x] = pc[x]
      BY <2>7 DEF Presign, End, Go, Inv, Types
    <3>4. /\ req'[r].accepted = req[r].accepted /\ req'[r].policy = req[r].policy
          /\ \A x \in Req \ {r} : req'[x] = req[x]
      BY <2>0, <3>2 DEF Inv, Types, Requests
    <3> QED
      BY <2>3, <3>3, <3>4 DEF Decided, Begun
  <2>8. ASSUME NEW a \in Answers, Respond(r, a) PROVE OnceInv'
    <3>1. PICK at, scope : at = Expiry(a.units) /\ scope = a.scope
      OBVIOUS
    <3>2. req' = req \/ req' = [req EXCEPT ![r].expires = at, ![r].at = now, ![r].scope = scope]
      BY <2>8, <3>1 DEF Respond
    <3>3. /\ approval' = approval /\ rows' = rows /\ pc[r] = "sent" /\ pc'[r] \in {"issued", "ended"}
          /\ \A x \in Req \ {r} : pc'[x] = pc[x]
      BY <2>8 DEF Respond, End, Go, Inv, Types
    <3>4. /\ req'[r].accepted = req[r].accepted /\ req'[r].policy = req[r].policy
          /\ \A x \in Req \ {r} : req'[x] = req[x]
      BY <2>0, <3>2 DEF Inv, Types, Requests
    <3> QED
      BY <2>3, <3>3, <3>4 DEF Decided, Begun
  <2>9. CASE \/ \E issued \in BOOLEAN : IssueFails(r, issued)
             \/ TakeDelivery(r) \/ DeliveryTooLate(r) \/ RecordFails(r) \/ Abandon(r)
    <3>1. /\ approval' = approval /\ rows' = rows /\ req' = req /\ pc[r] \in Begun
          /\ pc'[r] \in {"recording", "ended"} /\ \A x \in Req \ {r} : pc'[x] = pc[x]
      BY <2>9 DEF IssueFails, TakeDelivery, DeliveryTooLate, RecordFails, Abandon, End, Go, Inv, Types,
                  Begun
    <3> QED
      BY <2>3, <3>1 DEF Decided, Begun
  <2>10. CASE RecordIssued(r) \/ Finish(r) \/ FinishFails(r)
    <3>1. /\ approval' = approval /\ req' = req /\ pc[r] \in {"recording", "finishing"}
          /\ pc'[r] \in {"finishing", "ended"}
          /\ \A x \in Req \ {r} : pc'[x] = pc[x] /\ rows'[x] = rows[x]
      BY <2>10 DEF RecordIssued, Finish, FinishFails, Row, Go, Inv, Types
    <3> QED
      BY <2>3, <3>1 DEF Decided, Begun
  <2> QED
    BY <1>1, <2>1, <2>2, <2>4, <2>5, <2>6, <2>7, <2>8, <2>9, <2>10 DEF Request
<1>2. ASSUME NEW a \in Req, NEW state \in {"approved", "denied"}, Decide(a, state) PROVE OnceInv'
  <2>1. UNCHANGED <<pc, req, rows>> /\ approval[a].state = "pending"
    BY <1>2 DEF Decide
  <2>2. \A x \in Req \ {a} : approval'[x] = approval[x]
    BY <1>2 DEF Decide, Inv, Types
  <2>3. \A x \in Req : Took(x)' => Took(x)
    BY <2>1 DEF Took
  <2>4. approval[a] # NoApproval
    BY <2>1 DEF NoApproval
  <2>5. \A x \in Req : pc'[x] \in {"new", "asking"} => approval'[x] = NoApproval
    BY <2>1, <2>2, <2>4 DEF OnceInv
  <2> QED
    BY <2>1, <2>2, <2>3, <2>5, OnceStep
<1>3. CASE Activate \/ Drain \/ ClockSet \/ Tick \/ Idle \/ UNCHANGED vars
  <2>1. UNCHANGED <<pc, req, rows, approval>>
    BY <1>3 DEF Activate, Drain, ClockSet, Tick, Idle, vars
  <2> QED
    BY <2>1 DEF OnceInv, Took
<1> QED
  BY <1>1, <1>2, <1>3 DEF Next

\* An approval starts one request, of the caller and under the policy it was
\* registered for: the decision consumes it before the request is admitted, and
\* nothing gives it back.
THEOREM ApprovalsStartOneRequest == Spec => []ApprovalUsedOnce
<1>1. Init => OnceInv
  BY DEF Init, OnceInv, Took, Decided, Begun
<1>2. ASSUME OnceInv PROVE ApprovalUsedOnce
  <2> DEFINE users(a) == {r \in Req : "started" \in rows[r] /\ req[r].accepted = a}
  <2>1. ASSUME NEW a \in Req
        PROVE  /\ Cardinality(users(a)) <= 1
               /\ \A r \in users(a) : approval[a].caller = Caller[r] /\ approval[a].policy = req[r].policy
    <3>1. \A r \in users(a) : Took(r)
      BY DerivedAssumption DEF Took
    <3>2. \A r \in users(a), s \in users(a) : r = s
      BY <1>2, <3>1 DEF OnceInv
    <3>3. \A r \in users(a) : approval[a].caller = Caller[r] /\ approval[a].policy = req[r].policy
      BY <1>2, <3>1 DEF OnceInv
    <3>4. users(a) = {} \/ \E r \in users(a) : users(a) = {r}
      BY <3>2
    <3>5. PICK U : U = users(a)
      OBVIOUS
    <3>6. U = {} => Cardinality(U) <= 1
      BY FS_EmptySet
    <3>7. ASSUME NEW r \in U, U = {r} PROVE Cardinality(U) <= 1
      <4>1. Cardinality({r}) = 1
        BY FS_Singleton
      <4> QED
        BY <3>7, <4>1
    <3>8. U = {} \/ \E r \in U : U = {r}
      BY <3>4, <3>5
    <3>9. Cardinality(U) <= 1
      BY <3>6, <3>7, <3>8
    <3> QED
      BY <3>3, <3>5, <3>9
  <2> QED
    BY <2>1 DEF ApprovalUsedOnce
<1> QED
  BY <1>1, <1>2, AlwaysInv, OnceKept, PTL DEF Spec
=============================================================================
