------------------------- MODULE CertificateProofs -------------------------
(***************************************************************************)
(* Theorems about CertificateAuthority, for every set of serials, keys and *)
(* versions and every bound: a recorded revocation is final, a revocation  *)
(* list names every certificate whose revocation had been confirmed, knows *)
(* every certificate that was signed, and has a number above all before.   *)
(***************************************************************************)
EXTENDS CertificateAuthority, TLAPS

\* A row of the certificate table.
Row == [state : RowState, version : Versions \cup {0}, revoked : 0..MaxTime]

\* A leaf is of the key that its row names.
LeafRight(l) ==
    /\ l[1] \in Serial
    /\ header.certs[l[1]].state \in {"reserved", "issued"}
    /\ l[2] = KeyOf[header.certs[l[1]].version]

\* An issue in progress owns its reserved row, of the version that signs it, and
\* no leaf of it exists unless it is signed.
IssueRight ==
    /\ job = [kind |-> "issue", serial |-> job.serial, step |-> job.step]
    /\ job.serial \in Serial /\ job.step \in {"reserved", "signed", "failed"}
    /\ header.certs[job.serial].state = "reserved"
    /\ header.certs[job.serial].version = version
    /\ job.step # "signed" => \A l \in leaves : l[1] # job.serial

\* A list in progress is of the table as it is, in which nothing is open, and
\* its number is the last one.
ListRight ==
    /\ job = [kind |-> "crl", number |-> job.number, version |-> job.version, rows |-> job.rows,
              step |-> job.step]
    /\ job.rows = header.certs /\ job.version \in Versions
    /\ job.step \in {"reserved", "signed", "failed"}
    /\ \A s \in Serial : header.certs[s].state # "reserved"
    /\ job.number = header.generation
    /\ job.step = "reserved" => \A p \in published : p.number < job.number

\* The table in the header is well formed and says who has a certificate and
\* whose revocation was confirmed.
TableInv ==
    /\ header.certs \in [Serial -> Row] /\ header.generation \in Nat
    /\ certs \in [Serial -> Row]
    /\ \A s \in Serial : RowValid(header.certs[s])
    /\ version \in Versions /\ now \in 1..MaxTime
    /\ \A l \in leaves : LeafRight(l)
    /\ \A s \in delivered : s \in Serial /\ header.certs[s].state = "issued"
    /\ \A s \in acknowledged : /\ s \in Serial /\ header.certs[s].state = "issued"
                               /\ header.certs[s].revoked # 0

\* What a job in progress holds.
JobInv ==
    /\ job = Idle \/ job.kind \in {"issue", "crl"}
    /\ job.kind = "issue" => IssueRight
    /\ job.kind = "crl" => ListRight

\* The lists that were published name whom they must, and have numbers of the
\* past.
ListsInv ==
    /\ \A p \in published : p.number \in Nat /\ p.number <= header.generation
    /\ CrlNamesTheRevoked
    /\ CrlKnowsEveryLeaf

\* The inductive invariant.
Inv == TableInv /\ JobInv /\ ListsInv

\* A verified table is the one of the header.
LEMMA VerifiedTable ==
    ASSUME Inv, Verified
    PROVE  certs = header.certs /\ \A s \in Serial : RowValid(certs[s])
BY DEF Verified

\* A step that touches neither table nor ghosts.
LEMMA QuietStep ==
    ASSUME Inv, UNCHANGED <<header, ghosts>>, certs' \in [Serial -> Row],
           version' \in Versions, now' \in 1..MaxTime,
           job' = Idle \/ (UNCHANGED <<job, version>>)
    PROVE  Inv'
<1> USE DEF ghosts
<1>1. TableInv'
  BY DEF Inv, TableInv, LeafRight, RowValid
<1>2. JobInv'
  BY DEF Inv, JobInv, IssueRight, ListRight, Idle
<1>3. ListsInv'
  BY DEF Inv, ListsInv, CrlNamesTheRevoked, CrlKnowsEveryLeaf
<1> QED
  BY <1>1, <1>2, <1>3 DEF Inv

\* What a transaction may leave of the header.
LEMMA Committed ==
    ASSUME NEW newCerts, NEW newCrls, NEW result \in Outcome, Commit(newCerts, newCrls, result)
    PROVE  /\ result = "lost" => UNCHANGED <<certs, crls, header>>
           /\ result # "lost" => /\ certs' = newCerts /\ header'.certs = newCerts
                                 /\ header'.generation = header.generation + 1
BY DEF Commit, Outcome

\* Reserving a serial: nobody has a certificate of it yet.
LEMMA IssueStep ==
    ASSUME Inv, NEW s \in Serial, NEW r \in Outcome, Issue(s, r)
    PROVE  Inv'
<1> USE DEF ghosts
<1>1. certs = header.certs /\ header.certs[s].state = "absent" /\ header.certs[s].revoked = 0
  BY DEF Issue, Verified, RowValid
<1>2. PICK row \in Row : row = [state |-> "reserved", version |-> version, revoked |-> 0]
  <2>1. version \in Versions /\ 0 \in 0..MaxTime
    BY CertificateAuthorityAssumption DEF Inv, TableInv
  <2>2. [state |-> "reserved", version |-> version, revoked |-> 0] \in Row
    BY <2>1 DEF Row, RowState
  <2> QED
    BY <2>2
<1>3. PICK new \in [Serial -> Row] : new = [certs EXCEPT ![s] = row]
  BY DEF Inv, TableInv
<1>4. Commit(new, crls, r) /\ UNCHANGED <<version, now, leaves, delivered, acknowledged, published>>
  BY <1>2, <1>3 DEF Issue
<1>5. CASE r = "lost"
  <2>1. UNCHANGED <<certs, header>> /\ job' = Idle
    BY <1>4, <1>5, Committed DEF Issue
  <2> QED
    BY <1>4, <2>1, QuietStep DEF Inv, TableInv
<1>6. CASE r # "lost"
  <2>1. /\ certs' = new /\ header'.certs = new /\ header'.generation = header.generation + 1
        /\ new[s] = row /\ \A t \in Serial \ {s} : new[t] = header.certs[t]
    BY <1>1, <1>3, <1>4, <1>6, Committed DEF Inv, TableInv
  <2>2. \A l \in leaves : l[1] # s
    BY <1>1 DEF Inv, TableInv, LeafRight
  <2>3. TableInv'
    <3>1. \A t \in Serial : RowValid(new[t])
      BY <1>2, <2>1 DEF Inv, TableInv, RowValid, RowState
    <3>2. \A l \in leaves : LeafRight(l)'
      BY <1>4, <2>1, <2>2 DEF Inv, TableInv, LeafRight
    <3>3. s \notin delivered /\ s \notin acknowledged
      BY <1>1 DEF Inv, TableInv
    <3> QED
      BY <1>4, <2>1, <3>1, <3>2, <3>3 DEF Inv, TableInv
  <2>4. JobInv'
    <3>1. job' = [kind |-> "issue", serial |-> s, step |-> "reserved"] \/ job' = Idle
      BY DEF Issue
    <3> QED
      BY <1>2, <1>4, <2>1, <2>2, <3>1 DEF JobInv, IssueRight, Idle
  <2>5. ListsInv'
    BY <1>4, <2>1 DEF Inv, TableInv, ListsInv, CrlNamesTheRevoked, CrlKnowsEveryLeaf
  <2> QED
    BY <2>3, <2>4, <2>5 DEF Inv
<1> QED
  BY <1>5, <1>6

\* Signing a leaf, with the key of the version its row names.
LEMMA SignLeafStep ==
    ASSUME Inv, SignLeaf
    PROVE  Inv'
<1>1. /\ job.kind = "issue" /\ job.step = "reserved" /\ IssueRight
      /\ leaves' = leaves \cup {<<job.serial, KeyOf[version]>>}
      /\ job' = [job EXCEPT !.step = "signed"]
      /\ UNCHANGED <<certs, header, version, now, delivered, acknowledged, published>>
  BY DEF SignLeaf, Step, Inv, JobInv
<1>2. job'.kind = "issue" /\ job'.serial = job.serial /\ job'.step = "signed"
  BY <1>1 DEF IssueRight
<1>3. TableInv'
  <2>1. \A l \in leaves' : LeafRight(l)'
    BY <1>1 DEF Inv, TableInv, LeafRight, IssueRight
  <2> QED
    BY <1>1, <2>1 DEF Inv, TableInv
<1>4. JobInv'
  BY <1>1, <1>2 DEF JobInv, IssueRight
<1>5. ListsInv'
  BY <1>1 DEF Inv, ListsInv, CrlNamesTheRevoked, CrlKnowsEveryLeaf
<1> QED
  BY <1>3, <1>4, <1>5 DEF Inv

\* The end of an issue: the row says issued only if the leaf was signed.
LEMMA FinishLeafStep ==
    ASSUME Inv, NEW r \in Outcome, NEW open \in BOOLEAN, FinishLeaf(r, open)
    PROVE  Inv'
<1>1. /\ IssueRight /\ job.step \in {"signed", "failed"}
      /\ certs = header.certs /\ certs \in [Serial -> Row]
  BY DEF FinishLeaf, Inv, JobInv, TableInv, Verified
<1>2. PICK s \in Serial : s = job.serial
  BY <1>1 DEF IssueRight
<1>3. PICK state \in {"issued", "failed"} : state = IF job.step = "signed" THEN "issued" ELSE "failed"
  OBVIOUS
<1>4. PICK new \in [Serial -> Row] : new = [certs EXCEPT ![s].state = state]
  BY <1>1 DEF Row, RowState
<1>5. /\ Commit(new, crls, r) /\ job' = Idle
      /\ UNCHANGED <<version, now, leaves, acknowledged, published>>
  BY <1>2, <1>3, <1>4 DEF FinishLeaf
<1>6. delivered' = delivered \/ (job.step = "signed" /\ r = "ok" /\ delivered' = delivered \cup {s})
  BY <1>2 DEF FinishLeaf
<1>7. CASE r = "lost"
  <2>1. UNCHANGED <<certs, header, delivered>>
    BY <1>5, <1>6, <1>7, Committed
  <2> QED
    BY <1>5, <2>1, QuietStep DEF Inv, TableInv, ghosts
<1>8. CASE r # "lost"
  <2>1. /\ certs' = new /\ header'.certs = new /\ header'.generation = header.generation + 1
    BY <1>5, <1>8, Committed
  <2>2. /\ \A t \in Serial \ {s} : new[t] = header.certs[t]
        /\ new[s].state = state /\ new[s].version = header.certs[s].version
        /\ new[s].revoked = 0
    <3>1. header.certs[s].revoked = 0
      BY <1>1, <1>2 DEF Inv, TableInv, RowValid, IssueRight
    <3>2. certs[s] \in Row
      BY <1>1
    <3>3. new[s] = [certs[s] EXCEPT !.state = state]
      BY <1>1, <1>4
    <3> QED
      BY <1>1, <1>4, <3>1, <3>2, <3>3 DEF Row
  <2>3. TableInv'
    <3>1. \A t \in Serial : RowValid(new[t])
      BY <2>2 DEF Inv, TableInv, RowValid, RowState
    <3>2. \A l \in leaves : LeafRight(l)'
      <4> SUFFICES ASSUME NEW l \in leaves PROVE LeafRight(l)'
        OBVIOUS
      <4>1. LeafRight(l)
        BY DEF Inv, TableInv
      <4>2. CASE l[1] # s
        BY <2>1, <2>2, <4>1, <4>2 DEF LeafRight
      <4>3. CASE l[1] = s
        <5>1. state = "issued"
          BY <1>1, <1>2, <1>3, <4>3 DEF IssueRight
        <5> QED
          BY <2>1, <2>2, <4>1, <4>3, <5>1 DEF LeafRight
      <4> QED
        BY <4>2, <4>3
    <3>3. s \notin delivered /\ s \notin acknowledged
      BY <1>1, <1>2 DEF Inv, TableInv, IssueRight
    <3>4. \A t \in delivered' : t \in Serial /\ new[t].state = "issued"
      BY <1>3, <1>6, <2>2, <3>3 DEF Inv, TableInv
    <3> QED
      BY <1>5, <2>1, <2>2, <3>1, <3>2, <3>3, <3>4 DEF Inv, TableInv
  <2>4. JobInv'
    BY <1>5 DEF JobInv, Idle
  <2>5. ListsInv'
    BY <1>5, <2>1 DEF Inv, TableInv, ListsInv, CrlNamesTheRevoked, CrlKnowsEveryLeaf
  <2> QED
    BY <2>3, <2>4, <2>5 DEF Inv
<1> QED
  BY <1>7, <1>8

\* A revocation marks an issued row, which stays marked.
LEMMA RevokeStep ==
    ASSUME Inv, NEW s \in Serial, NEW r \in Outcome, NEW open \in BOOLEAN, Revoke(s, r, open)
    PROVE  Inv'
<1>1. /\ certs = header.certs /\ certs \in [Serial -> Row] /\ certs[s].state = "issued"
      /\ job = Idle /\ now \in 1..MaxTime
  BY DEF Revoke, Ready, Inv, TableInv, Verified
<1>2. PICK row \in Row : row = RevokedAt(certs[s])
  <2>1. certs[s] \in Row /\ now \in 0..MaxTime
    BY <1>1, CertificateAuthorityAssumption
  <2>2. [certs[s] EXCEPT !.revoked = now] \in Row
    BY <2>1 DEF Row
  <2> QED
    BY <2>1, <2>2 DEF RevokedAt
<1>3. /\ row.state = "issued" /\ row.version = certs[s].version /\ row.revoked # 0
  BY <1>1, <1>2, CertificateAuthorityAssumption DEF RevokedAt, Row
<1>4. PICK new \in [Serial -> Row] : new = [certs EXCEPT ![s] = row]
  BY <1>1
<1>5. /\ Commit(new, crls, r) /\ job' = Idle
      /\ UNCHANGED <<version, now, leaves, delivered, published>>
  BY <1>1, <1>2, <1>4 DEF Revoke
<1>6. acknowledged' = acknowledged \/ (r = "ok" /\ acknowledged' = acknowledged \cup {s})
  BY DEF Revoke
<1>7. CASE r = "lost"
  <2>1. UNCHANGED <<certs, header, acknowledged>>
    BY <1>5, <1>6, <1>7, Committed
  <2> QED
    BY <1>5, <2>1, QuietStep DEF Inv, TableInv, ghosts
<1>8. CASE r # "lost"
  <2>1. /\ certs' = new /\ header'.certs = new /\ header'.generation = header.generation + 1
        /\ new[s] = row /\ \A t \in Serial \ {s} : new[t] = header.certs[t]
    BY <1>1, <1>4, <1>5, <1>8, Committed
  <2>2. TableInv'
    <3>1. \A t \in Serial : RowValid(new[t])
      BY <1>3, <2>1 DEF Inv, TableInv, RowValid, RowState
    <3>2. \A l \in leaves : LeafRight(l)'
      BY <1>1, <1>3, <1>5, <2>1 DEF Inv, TableInv, LeafRight
    <3>3. \A t \in delivered : t \in Serial /\ new[t].state = "issued"
      BY <1>3, <2>1 DEF Inv, TableInv
    <3>4. \A t \in acknowledged' : t \in Serial /\ new[t].state = "issued" /\ new[t].revoked # 0
      BY <1>3, <1>6, <2>1 DEF Inv, TableInv
    <3> QED
      BY <1>5, <2>1, <3>1, <3>2, <3>3, <3>4 DEF Inv, TableInv
  <2>3. JobInv'
    BY <1>5 DEF JobInv, Idle
  <2>4. ListsInv'
    BY <1>5, <2>1 DEF Inv, TableInv, ListsInv, CrlNamesTheRevoked, CrlKnowsEveryLeaf
  <2> QED
    BY <2>2, <2>3, <2>4 DEF Inv
<1> QED
  BY <1>7, <1>8

\* A transaction that leaves the certificates alone.
LEMMA ListCommit ==
    ASSUME Inv, Verified, NEW r \in Outcome, NEW newCrls, Commit(certs, newCrls, r),
           UNCHANGED <<version, now, ghosts>>
    PROVE  /\ TableInv' /\ ListsInv' /\ header'.certs = header.certs
           /\ r # "lost" => header'.generation = header.generation + 1
<1> USE DEF ghosts
<1>1. /\ certs' = certs /\ header'.certs = header.certs
      /\ r # "lost" => header'.generation = header.generation + 1
      /\ r = "lost" => header' = header
  BY Committed DEF Verified
<1>2. header'.generation \in Nat /\ header'.generation >= header.generation
  BY <1>1 DEF Inv, TableInv
<1>3. TableInv'
  BY <1>1, <1>2 DEF Inv, TableInv, LeafRight, RowValid
<1>4. ListsInv'
  BY <1>2 DEF Inv, TableInv, ListsInv, CrlNamesTheRevoked, CrlKnowsEveryLeaf
<1> QED
  BY <1>1, <1>3, <1>4

\* Reserving the number of a list, with the table it is made from.
LEMMA GenerateStep ==
    ASSUME Inv, NEW v \in Versions, NEW r \in Outcome, GenerateCrl(v, r)
    PROVE  Inv'
<1>1. /\ Verified /\ UNCHANGED <<version, now, ghosts>>
      /\ \E newCrls : Commit(certs, newCrls, r)
      /\ \A s \in Serial : certs[s].state # "reserved"
  BY DEF GenerateCrl, NothingOpen
<1>2. /\ TableInv' /\ ListsInv' /\ header'.certs = header.certs
      /\ r # "lost" => header'.generation = header.generation + 1
  BY <1>1, ListCommit
<1>3. \/ job' = Idle
      \/ r = "ok" /\ job' = [kind |-> "crl", number |-> header.generation + 1, version |-> v,
                            rows |-> certs, step |-> "reserved"]
  BY DEF GenerateCrl, CrlNumber
<1>4. JobInv'
  <2>1. CASE job' = Idle
    BY <2>1 DEF JobInv, Idle
  <2>2. CASE r = "ok" /\ job' = [kind |-> "crl", number |-> header.generation + 1, version |-> v,
                                 rows |-> certs, step |-> "reserved"]
    <3>1. certs = header.certs /\ header.generation \in Nat
      BY <1>1 DEF Verified, Inv, TableInv
    <3>2. \A p \in published' : p.number < header.generation + 1
      BY <1>1, <3>1 DEF Inv, ListsInv, ghosts
    <3> QED
      BY <1>1, <1>2, <2>2, <3>1, <3>2 DEF JobInv, ListRight
  <2> QED
    BY <1>3, <2>1, <2>2
<1> QED
  BY <1>2, <1>4 DEF Inv

\* Signing a list: the table it is made from is the authenticated one.
LEMMA SignCrlStep ==
    ASSUME Inv, SignCrl
    PROVE  Inv' /\ CrlNumbersIncrease
<1>1. /\ job.kind = "crl" /\ job.step = "reserved" /\ ListRight
      /\ job' = [job EXCEPT !.step = "signed"]
      /\ UNCHANGED <<certs, header, version, now, leaves, delivered, acknowledged>>
  BY DEF SignCrl, Step, Inv, JobInv
<1>2. PICK p : /\ p = [number |-> job.number, key |-> KeyOf[job.version], revoked |-> Listed,
                       known |-> acknowledged, leaves |-> leaves,
                       rows |-> {s \in Serial : job.rows[s].state = "issued"}]
               /\ published' = published \cup {p}
  BY DEF SignCrl
<1>3. /\ job'.kind = "crl" /\ job'.step = "signed" /\ job'.rows = job.rows
      /\ job'.version = job.version /\ job'.number = job.number
  BY <1>1 DEF ListRight
<1>4. \A s \in p.known : <<s, p.key>> \in p.leaves => s \in p.revoked
  <2> SUFFICES ASSUME NEW s \in acknowledged, <<s, KeyOf[job.version]>> \in leaves
               PROVE  s \in Listed
    BY <1>2
  <2>1. s \in Serial /\ header.certs[s].state = "issued" /\ header.certs[s].revoked # 0
    BY DEF Inv, TableInv
  <2>2. KeyOf[job.version] = KeyOf[header.certs[s].version]
    BY DEF Inv, TableInv, LeafRight
  <2> QED
    BY <1>1, <2>1, <2>2 DEF ListRight, Listed, SameIssuer
<1>5. \A l \in p.leaves : l[1] \in p.rows
  BY <1>1, <1>2 DEF Inv, TableInv, LeafRight, ListRight
<1>6. p.number = header.generation /\ \A q \in published : q.number < p.number
  BY <1>1, <1>2 DEF ListRight
<1>7. TableInv'
  BY <1>1 DEF Inv, TableInv, LeafRight
<1>8. JobInv'
  BY <1>1, <1>3 DEF JobInv, ListRight
<1>9. ListsInv'
  BY <1>1, <1>2, <1>4, <1>5, <1>6 DEF Inv, TableInv, ListsInv, CrlNamesTheRevoked, CrlKnowsEveryLeaf
<1> QED
  BY <1>2, <1>6, <1>7, <1>8, <1>9 DEF Inv, CrlNumbersIncrease

\* A command that fails before it has signed.
LEMMA FailStep ==
    ASSUME Inv, SignLeafFails \/ SignCrlFails
    PROVE  Inv'
<1>1. /\ job.step = "reserved" /\ job' = [job EXCEPT !.step = "failed"]
      /\ UNCHANGED <<certs, header, version, now, ghosts>>
      /\ job.kind \in {"issue", "crl"}
      /\ job.kind = "issue" => IssueRight
      /\ job.kind = "crl" => ListRight
  BY DEF SignLeafFails, SignCrlFails, Step, Inv, JobInv
<1>3. TableInv' /\ ListsInv'
  BY <1>1 DEF Inv, TableInv, LeafRight, RowValid, ListsInv, CrlNamesTheRevoked, CrlKnowsEveryLeaf,
     ghosts
<1>4. CASE job.kind = "issue"
  <2>1. /\ job' = [kind |-> "issue", serial |-> job.serial, step |-> "failed"]
    BY <1>1, <1>4 DEF IssueRight
  <2>2. JobInv'
    BY <1>1, <1>4, <2>1 DEF JobInv, IssueRight, ghosts
  <2> QED
    BY <1>3, <2>2 DEF Inv
<1>5. CASE job.kind = "crl"
  <2>1. job' = [kind |-> "crl", number |-> job.number, version |-> job.version, rows |-> job.rows,
                step |-> "failed"]
    BY <1>1, <1>5 DEF ListRight
  <2>2. JobInv'
    BY <1>1, <1>5, <2>1 DEF JobInv, ListRight, ghosts
  <2> QED
    BY <1>3, <2>2 DEF Inv
<1> QED
  BY <1>1, <1>4, <1>5

\* The end of a list.
LEMMA FinishCrlStep ==
    ASSUME Inv, NEW r \in Outcome, FinishCrl(r)
    PROVE  Inv'
<1>1. /\ Verified /\ UNCHANGED <<version, now, ghosts>> /\ job' = Idle
      /\ \E newCrls : Commit(certs, newCrls, r)
  BY DEF FinishCrl
<1>2. TableInv' /\ ListsInv'
  BY <1>1, ListCommit
<1>3. JobInv'
  BY <1>1 DEF JobInv, Idle
<1> QED
  BY <1>2, <1>3 DEF Inv

\* Restarts, rotations, clocks, faults and changes of the file from outside.
LEMMA OtherStep ==
    ASSUME Inv,
           \/ Abandon \/ Restart \/ Rotate \/ IntegrityFault \/ UNCHANGED vars
           \/ \E t \in 1..MaxTime : SetClock(t)
           \/ \E s \in Serial : Tamper(s)
    PROVE  Inv'
<1>1. CASE \/ Abandon \/ Restart \/ Rotate \/ IntegrityFault \/ UNCHANGED vars
           \/ \E t \in 1..MaxTime : SetClock(t)
  <2>1. /\ UNCHANGED <<header, ghosts, certs>>
        /\ version' \in Versions /\ now' \in 1..MaxTime
        /\ job' = Idle \/ UNCHANGED <<job, version>>
    BY <1>1 DEF Abandon, Restart, Rotate, Ready, IntegrityFault, SetClock, vars, Inv, TableInv
  <2> QED
    BY <2>1, QuietStep DEF Inv, TableInv
<1>2. ASSUME NEW s \in Serial, Tamper(s) PROVE Inv'
  <2>1. certs \in [Serial -> Row] /\ NoCert \in Row
    BY CertificateAuthorityAssumption DEF Inv, TableInv, NoCert, Row, RowState
  <2>2. certs' \in [Serial -> Row]
    BY <1>2, <2>1, CertificateAuthorityAssumption DEF Tamper, Row
  <2> QED
    BY <1>2, <2>2, QuietStep DEF Tamper, Inv, TableInv
<1> QED
  BY <1>1, <1>2

\* Every step keeps the invariant.
LEMMA InvStep ==
    ASSUME Inv, [Next]_vars
    PROVE  Inv'
BY IssueStep, SignLeafStep, FinishLeafStep, RevokeStep, GenerateStep, SignCrlStep, FailStep,
   FinishCrlStep, OtherStep DEF Next

\* The invariant holds always.
LEMMA AlwaysInv == Spec => []Inv
<1>1. Init => Inv
  <2> SUFFICES ASSUME Init PROVE Inv
    OBVIOUS
  <2>1. NoCert \in Row /\ RowValid(NoCert)
    BY CertificateAuthorityAssumption DEF NoCert, Row, RowState, RowValid
  <2>2. /\ header.certs = [s \in Serial |-> NoCert] /\ certs = [s \in Serial |-> NoCert]
        /\ header.generation = 0 /\ version \in Versions /\ now = 1 /\ job = Idle
        /\ leaves = {} /\ delivered = {} /\ acknowledged = {} /\ published = {}
    BY DEF Init
  <2>3. TableInv
    BY <2>1, <2>2, CertificateAuthorityAssumption DEF TableInv
  <2> QED
    BY <2>2, <2>3 DEF Inv, JobInv, Idle, ListsInv, CrlNamesTheRevoked, CrlKnowsEveryLeaf
<1> QED
  BY <1>1, InvStep, PTL DEF Spec

\* A list names every certificate of its issuer whose revocation had been
\* confirmed when it was signed: pki_generate_crl reads the authenticated table,
\* compares issuers by key, and nothing is committed between the table and the
\* signature.
THEOREM ListsNameTheRevoked == Spec => []CrlNamesTheRevoked
<1>1. Inv => CrlNamesTheRevoked
  BY DEF Inv, ListsInv
<1> QED
  BY <1>1, AlwaysInv, PTL

\* No certificate is signed that a list made later could not have named: the
\* serial is reserved on disk before the key is read, and no list is made while
\* a reservation is open.
THEOREM ListsKnowEveryLeaf == Spec => []CrlKnowsEveryLeaf
<1>1. Inv => CrlKnowsEveryLeaf
  BY DEF Inv, ListsInv
<1> QED
  BY <1>1, AlwaysInv, PTL

\* The authenticated rows are well formed, and who holds a certificate is in
\* them.
THEOREM HeldIsRecorded == Spec => []TypeOK
<1>1. Inv => TypeOK
  BY DEF Inv, TableInv, TypeOK, LeafRight
<1> QED
  BY <1>1, AlwaysInv, PTL

\* The number of a list is above those of all lists signed before, over restarts
\* and lost transactions.
THEOREM NumbersIncrease == Spec => [][CrlNumbersIncrease]_vars
<1>1. ASSUME Inv, [Next]_vars PROVE [CrlNumbersIncrease]_vars
  <2>1. CASE SignCrl
    BY <1>1, <2>1, SignCrlStep
  <2>2. CASE published' = published
    BY <2>2 DEF CrlNumbersIncrease
  <2> QED
    BY <1>1, <2>1, <2>2 DEF Next, Issue, SignLeaf, SignLeafFails, FinishLeaf, Revoke, GenerateCrl,
       SignCrlFails, FinishCrl, Abandon, Restart, Rotate, IntegrityFault, SetClock, Tamper, ghosts
<1> QED
  BY <1>1, AlwaysInv, PTL DEF Spec

\* The time of a revocation, once in the header, is not moved or taken back: a
\* repeated request keeps the first time, and a changed file never reaches the
\* header because every transaction starts from a verified table.
THEOREM RevocationsAreFinal == Spec => RevocationIsFinal
<1>1. ASSUME Inv, [Next]_vars
      PROVE  [\A s \in Serial : header.certs[s].revoked # 0 =>
                header'.certs[s].revoked = header.certs[s].revoked]_vars
  <2> DEFINE Kept == \A t \in Serial : header.certs[t].revoked # 0 =>
                        header'.certs[t].revoked = header.certs[t].revoked
  <2>0. header.certs \in [Serial -> Row] /\ \A t \in Serial : RowValid(header.certs[t])
    BY <1>1 DEF Inv, TableInv
  <2>1. CASE header' = header
    BY <2>1
  <2>2. ASSUME NEW s \in Serial, NEW r \in Outcome, Issue(s, r) PROVE Kept
    <3>1. /\ certs = header.certs /\ header.certs[s].revoked = 0
          /\ \/ header' = header
             \/ header'.certs = [certs EXCEPT ![s] = [state |-> "reserved", version |-> version,
                                                      revoked |-> 0]]
      BY <2>2, Committed DEF Issue, Verified, RowValid
    <3> QED
      BY <2>0, <3>1
  <2>3. ASSUME NEW r \in Outcome, NEW o \in BOOLEAN, FinishLeaf(r, o) PROVE Kept
    <3>1. PICK state : state = IF job.step = "signed" THEN "issued" ELSE "failed"
      OBVIOUS
    <3>2. PICK s : s = job.serial
      OBVIOUS
    <3>3. /\ certs = header.certs
          /\ \/ header' = header
             \/ header'.certs = [certs EXCEPT ![s].state = state]
      BY <2>3, <3>1, <3>2, Committed DEF FinishLeaf, Verified
    <3> QED
      BY <2>0, <3>3 DEF Row
  <2>4. ASSUME NEW s \in Serial, NEW r \in Outcome, NEW o \in BOOLEAN, Revoke(s, r, o) PROVE Kept
    <3>1. PICK row : row = RevokedAt(certs[s])
      OBVIOUS
    <3>2. /\ certs = header.certs
          /\ \/ header' = header
             \/ header'.certs = [certs EXCEPT ![s] = row]
      BY <2>4, <3>1, Committed DEF Revoke, Verified
    <3>3. header.certs[s].revoked # 0 => row.revoked = header.certs[s].revoked
      BY <3>1, <3>2 DEF RevokedAt
    <3> QED
      BY <2>0, <3>2, <3>3
  <2>5. ASSUME NEW v \in Versions, NEW r \in Outcome, GenerateCrl(v, r) PROVE Kept
    <3>1. header'.certs = header.certs
      BY <2>5, Committed DEF GenerateCrl, Verified
    <3> QED
      BY <3>1
  <2>6. ASSUME NEW r \in Outcome, FinishCrl(r) PROVE Kept
    <3>1. header'.certs = header.certs
      BY <2>6, Committed DEF FinishCrl, Verified
    <3> QED
      BY <3>1
  <2> QED
    BY <1>1, <2>1, <2>2, <2>3, <2>4, <2>5, <2>6
    DEF Next, SignLeaf, SignLeafFails, SignCrl, SignCrlFails, Abandon, Restart, Rotate,
        IntegrityFault, SetClock, Tamper, vars
<1> QED
  BY <1>1, AlwaysInv, PTL DEF Spec, RevocationIsFinal
=============================================================================
