------------------------ MODULE CertificateAuthority ------------------------
(***************************************************************************)
(* authority/pki.rs and store/pki.rs: client certificates and revocation   *)
(* lists.  A serial number is on disk before the signing key is read, a    *)
(* list is made from the table alone, and the table is authenticated by    *)
(* the vault's header.                                                     *)
(*                                                                         *)
(* The worker serves one command at a time; the process may end between    *)
(* two of its transactions, a transaction may fail or its outcome stay     *)
(* unknown, the caller may have gone, the wall clock may be set back and   *)
(* the table may be changed by another program.  What a request must look  *)
(* like (client_request) is abstract.                                      *)
(***************************************************************************)
EXTENDS Naturals, FiniteSets

CONSTANTS
    Serial,
    KeyOf,              \* [versions of the authority's credential -> its key]
    MaxGeneration,      \* bound: transactions
    MaxTime             \* bound: wall clock

Versions == DOMAIN KeyOf

ASSUME CertificateAuthorityAssumption ==
    /\ MaxGeneration \in Nat /\ MaxTime \in Nat \ {0}
    /\ Versions # {} /\ Versions \subseteq Nat \ {0}

VARIABLES
    certs, crls,        \* the two tables
    header,             \* the authenticated digest of both, and the generation
    version,            \* the current version of the credential
    job,                \* the command between its two transactions
    faulted,
    now,
    tampered,           \* bound: one change from outside
    leaves,             \* certificates that were signed
    delivered,          \* certificates their requester has
    acknowledged,       \* serials whose revocation was confirmed
    published           \* lists that were signed, with what was known then

ghosts == <<leaves, delivered, acknowledged, published>>
vars == <<certs, crls, header, version, job, faulted, now, tampered, ghosts>>

NoCert == [state |-> "absent", version |-> 0, revoked |-> 0]
NoCrl == [state |-> "absent", version |-> 0]
Idle == [kind |-> "none"]

Init ==
    /\ certs = [s \in Serial |-> NoCert]
    /\ crls = [n \in 1..MaxGeneration |-> NoCrl]
    /\ header = [certs |-> certs, crls |-> crls, generation |-> 0]
    /\ version \in Versions /\ (\A v \in Versions : version <= v)
    /\ job = Idle /\ faulted = FALSE /\ now = 1 /\ tampered = FALSE
    /\ leaves = {} /\ delivered = {} /\ acknowledged = {} /\ published = {}

(***************************************************************************)
(* The store.                                                              *)
(***************************************************************************)
RowState == {"absent", "reserved", "issued", "failed"}
RowValid(row) == row.state \in RowState /\ (row.revoked # 0 => row.state = "issued")
CrlRowValid(row) == row.state \in RowState

\* verified_set: the rows are well formed and those of the header's digest.
Verified ==
    /\ \A s \in Serial : RowValid(certs[s])
    /\ \A n \in DOMAIN crls : CrlRowValid(crls[n])
    /\ certs = header.certs /\ crls = header.crls

Outcome == {"ok", "lost", "unknown"}

\* One transaction with its audit row and the next generation.  Without a
\* certain outcome the worker serves nothing more.
Commit(newCerts, newCrls, result) ==
    /\ header.generation < MaxGeneration
    /\ IF result = "lost" THEN UNCHANGED <<certs, crls, header>>
       ELSE /\ certs' = newCerts /\ crls' = newCrls
            /\ header' = [certs |-> newCerts, crls |-> newCrls,
                          generation |-> header.generation + 1]
    /\ faulted' = (result # "ok")

Ready == job = Idle /\ ~faulted

\* A set that does not verify stops the vault.
IntegrityFault ==
    /\ ~faulted /\ ~Verified
    /\ faulted' = TRUE /\ job' = Idle
    /\ UNCHANGED <<certs, crls, header, version, now, tampered, ghosts>>

(***************************************************************************)
(* pki_issue_client_csr                                                    *)
(***************************************************************************)

Issue(s, result) ==
    /\ Ready /\ Verified /\ certs[s].state = "absent"
    /\ Commit([certs EXCEPT ![s] = [state |-> "reserved", version |-> version, revoked |-> 0]],
              crls, result)
    /\ job' = IF result = "ok" THEN [kind |-> "issue", serial |-> s, step |-> "reserved"] ELSE Idle
    /\ UNCHANGED <<version, now, tampered, ghosts>>

Step(kind, step) == job.kind = kind /\ job.step = step

SignLeaf ==
    /\ Step("issue", "reserved")
    /\ leaves' = leaves \cup {<<job.serial, KeyOf[version]>>}
    /\ job' = [job EXCEPT !.step = "signed"]
    /\ UNCHANGED <<certs, crls, header, version, faulted, now, tampered, delivered, acknowledged,
                   published>>

\* Out of time, the caller gone, the authority's validity too short.
SignLeafFails ==
    /\ Step("issue", "reserved")
    /\ job' = [job EXCEPT !.step = "failed"]
    /\ UNCHANGED <<certs, crls, header, version, faulted, now, tampered, ghosts>>

\* The result is committed although nobody may be waiting for it.
FinishLeaf(result, open) ==
    /\ job.kind = "issue" /\ job.step \in {"signed", "failed"} /\ Verified
    /\ Commit([certs EXCEPT ![job.serial].state =
                  IF job.step = "signed" THEN "issued" ELSE "failed"], crls, result)
    /\ delivered' = IF job.step = "signed" /\ result = "ok" /\ open
                    THEN delivered \cup {job.serial} ELSE delivered
    /\ job' = Idle
    /\ UNCHANGED <<version, now, tampered, leaves, acknowledged, published>>

(***************************************************************************)
(* pki_revoke_certificate                                                  *)
(***************************************************************************)
\* Mutant: a repeated request moves the time.
RevokedAtLast(row) == [row EXCEPT !.revoked = now]

\* The first time stays.
RevokedAt(row) == IF row.revoked = 0 THEN [row EXCEPT !.revoked = now] ELSE row

Revoke(s, result, open) ==
    /\ Ready /\ Verified /\ certs[s].state = "issued"
    /\ Commit([certs EXCEPT ![s] = RevokedAt(@)], crls, result)
    /\ acknowledged' = IF result = "ok" /\ open THEN acknowledged \cup {s} ELSE acknowledged
    /\ UNCHANGED <<version, job, now, tampered, leaves, delivered, published>>

(***************************************************************************)
(* pki_generate_crl, with any version of the credential.                   *)
(***************************************************************************)

\* A reservation that a crash left may have its certificate.
NothingOpen == \A s \in Serial : certs[s].state # "reserved"

CrlNumber == header.generation + 1

GenerateCrl(v, result) ==
    /\ Ready /\ Verified /\ NothingOpen /\ v <= version
    /\ LET n == CrlNumber IN
       /\ n \in DOMAIN crls
       /\ Commit(certs, [crls EXCEPT ![n] = [state |-> "reserved", version |-> v]], result)
       /\ job' = IF result = "ok"
                 THEN [kind |-> "crl", number |-> n, version |-> v, rows |-> certs, step |-> "reserved"]
                 ELSE Idle
    /\ UNCHANGED <<version, now, tampered, ghosts>>

\* Mutant: only certificates of the same version are listed.
SameIssuerVersion(v, w) == v = w

\* A rotated credential may have the same key.
SameIssuer(v, w) == KeyOf[v] = KeyOf[w]

Listed == {s \in Serial : /\ job.rows[s].state = "issued" /\ job.rows[s].revoked # 0
                          /\ SameIssuer(job.rows[s].version, job.version)}

\* A revocation later than the clock is refused.
SignCrl ==
    /\ Step("crl", "reserved")
    /\ \A s \in Listed : job.rows[s].revoked <= now
    /\ published' = published \cup
         {[number |-> job.number, key |-> KeyOf[job.version], revoked |-> Listed,
           known |-> acknowledged, leaves |-> leaves,
           rows |-> {s \in Serial : job.rows[s].state = "issued"}]}
    /\ job' = [job EXCEPT !.step = "signed"]
    /\ UNCHANGED <<certs, crls, header, version, faulted, now, tampered, leaves, delivered,
                   acknowledged>>

SignCrlFails ==
    /\ Step("crl", "reserved")
    /\ job' = [job EXCEPT !.step = "failed"]
    /\ UNCHANGED <<certs, crls, header, version, faulted, now, tampered, ghosts>>

FinishCrl(result) ==
    /\ job.kind = "crl" /\ job.step \in {"signed", "failed"} /\ Verified
    /\ Commit(certs, [crls EXCEPT ![job.number].state =
                         IF job.step = "signed" THEN "issued" ELSE "failed"], result)
    /\ job' = Idle
    /\ UNCHANGED <<version, now, tampered, ghosts>>

(***************************************************************************)
(* The rest.                                                               *)
(***************************************************************************)
\* The process ends, or the clock cannot be read for the final row.
Abandon ==
    /\ job # Idle
    /\ job' = Idle
    /\ UNCHANGED <<certs, crls, header, version, faulted, now, tampered, ghosts>>

Restart ==
    /\ faulted
    /\ faulted' = FALSE
    /\ UNCHANGED <<certs, crls, header, version, job, now, tampered, ghosts>>

Rotate ==
    /\ Ready /\ version + 1 \in Versions
    /\ version' = version + 1
    /\ UNCHANGED <<certs, crls, header, job, faulted, now, tampered, ghosts>>

SetClock(t) ==
    /\ now # t
    /\ now' = t
    /\ UNCHANGED <<certs, crls, header, version, job, faulted, tampered, ghosts>>

\* Another program takes a row, or a revocation, out of the file.
Tamper(s) ==
    /\ ~tampered /\ certs[s].state = "issued"
    /\ tampered' = TRUE
    /\ certs' \in {[certs EXCEPT ![s] = NoCert], [certs EXCEPT ![s].revoked = 0]}
    /\ UNCHANGED <<crls, header, version, job, faulted, now, ghosts>>

Next ==
    \/ \E s \in Serial, r \in Outcome : Issue(s, r)
    \/ SignLeaf \/ SignLeafFails
    \/ \E r \in Outcome, o \in BOOLEAN : FinishLeaf(r, o)
    \/ \E s \in Serial, r \in Outcome, o \in BOOLEAN : Revoke(s, r, o)
    \/ \E v \in Versions, r \in Outcome : GenerateCrl(v, r)
    \/ SignCrl \/ SignCrlFails
    \/ \E r \in Outcome : FinishCrl(r)
    \/ Abandon \/ Restart \/ Rotate \/ IntegrityFault
    \/ \E t \in 1..MaxTime : SetClock(t)
    \/ \E s \in Serial : Tamper(s)

Spec == Init /\ [][Next]_vars

(***************************************************************************)
(* Properties.                                                             *)
(***************************************************************************)
\* The rows are well formed, and a certificate that anybody may hold is in the
\* authenticated table: issued if it was delivered, at least reserved once it is
\* signed.  (commit_pki_record before the key is decrypted)
TypeOK ==
    /\ \A s \in Serial : RowValid(header.certs[s])
    /\ \A l \in leaves : header.certs[l[1]].state \in {"reserved", "issued"}
    /\ \A s \in delivered : header.certs[s].state = "issued"

\* A list names every certificate of its issuer whose revocation had been
\* confirmed, over rotations, restarts and changes of the file.
CrlNamesTheRevoked ==
    \A p \in published : \A s \in p.known : <<s, p.key>> \in p.leaves => s \in p.revoked

\* No certificate exists that the list could not have named.
CrlKnowsEveryLeaf ==
    \A p \in published : \A l \in p.leaves : l[1] \in p.rows

\* The numbers of the lists increase in the order they are signed.
CrlNumbersIncrease ==
    \A p \in published' \ published, q \in published : p.number > q.number

\* A revocation's time, once recorded, is not moved or taken back.
RevocationIsFinal ==
    [][\A s \in Serial : header.certs[s].revoked # 0 =>
          header'.certs[s].revoked = header.certs[s].revoked]_vars
=============================================================================
