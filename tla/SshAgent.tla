------------------------------ MODULE SshAgent ------------------------------
(***************************************************************************)
(* ssh_agent.rs and authority/ssh.rs: connections of the ssh-agent socket. *)
(* A connection may prove once which host it speaks to, asks for one       *)
(* signature at a time, waits for an approval where the signed policy says *)
(* so, and is answered piece by piece while the policy, the vault and the  *)
(* peer may change.                                                        *)
(*                                                                         *)
(* One registered key.  The table of approvals and its windows are         *)
(* LocalCalls'; here a decision arrives or does not.  Parsing is abstract: *)
(* a packet that does not parse is "malformed".                            *)
(***************************************************************************)
EXTENDS Naturals, FiniteSets, Sequences, FiniteSetsExt

CONSTANTS
    Conn, Host, Session,    \* Session: identifiers of ssh sessions
    GitEffect,              \* [policies -> effects]
    HostEffect,             \* [policies -> [Host -> effects, or "none"]]
    Threshold,              \* signatures an external approval needs; 0: local presence
    Approver, GrantId,
    MaxSignatures, MaxSeconds, ApprovalSeconds,
    MaxNow,                 \* bound: time; every policy ends there
    MaxPolicy               \* bound: policies activated

NoHost == "none"
Policies == 1..MaxPolicy
RuleEffect == {"allow", "approve", "deny"}

SshAgentAssumption ==
    /\ NoHost \notin Host
    /\ GitEffect \in [Policies -> RuleEffect]
    /\ HostEffect \in [Policies -> [Host -> RuleEffect \cup {"none"}]]
    /\ Threshold \in 0..2 /\ MaxSignatures \in Nat \ {0}
    /\ MaxSeconds \in Nat /\ ApprovalSeconds \in Nat /\ MaxNow \in Nat

VARIABLES
    policy, expired,    \* the active policy and whether its time is over
    gate,               \* "running", "draining" or "faulted"
    owner,              \* who holds the lifecycle's coordinator
    now,
    pc, cancel,         \* of each connection's handler
    bound,              \* AgentSession.bound
    budget,             \* AgentSession.budgets of the key
    req,                \* the request being served
    rows,               \* its rows in the journal
    sent,               \* pieces of its answer the peer has
    proved,             \* what hosts have signed, for reference
    uses                \* times of the signatures that were started, for reference

agent == <<bound, budget>>
world == <<policy, expired, gate, now>>
vars == <<world, owner, pc, cancel, agent, req, rows, sent, proved, uses>>

Piece == 2      \* an answer takes two writes

NoBudget == [open |-> FALSE, start |-> 0, used |-> 0]
NoRequest == [read |-> 0, version |-> 0, effect |-> "deny", purpose |-> "other", session |-> NoHost,
              host |-> NoHost, start |-> 0, deadline |-> 0, approvers |-> {}, signature |-> FALSE]

Init ==
    /\ policy = 1 /\ expired = FALSE /\ gate = "running" /\ owner = "free" /\ now = 0
    /\ pc = [c \in Conn |-> "idle"] /\ cancel = [c \in Conn |-> FALSE]
    /\ bound = [c \in Conn |-> [host |-> NoHost, session |-> NoHost]]
    /\ budget = [c \in Conn |-> NoBudget]
    /\ req = [c \in Conn |-> NoRequest]
    /\ rows = [c \in Conn |-> {}] /\ sent = [c \in Conn |-> 0]
    /\ proved = {} /\ uses = [c \in Conn |-> <<>>]

(***************************************************************************)
(* The session of a connection.                                            *)
(***************************************************************************)
IsBound(c) == bound[c].host # NoHost

\* The answer to the packet, to be written; a request's data are its own.
Answer(c, r) ==
    /\ pc' = [pc EXCEPT ![c] = IF cancel'[c] THEN "closed" ELSE "writing"]
    /\ req' = [req EXCEPT ![c] = r]
    /\ owner' = IF owner = c THEN "free" ELSE owner

Refuse(c) ==
    /\ UNCHANGED cancel
    /\ Answer(c, [req[c] EXCEPT !.signature = FALSE])

\* handle_connection: a packet, and the policy its answer will be written under.
ReadPacket(c) ==
    /\ pc[c] = "idle"
    /\ pc' = [pc EXCEPT ![c] = "packet"]
    /\ req' = [req EXCEPT ![c] = [NoRequest EXCEPT !.read = policy]]
    /\ rows' = [rows EXCEPT ![c] = {}]
    /\ sent' = [sent EXCEPT ![c] = 0]
    /\ UNCHANGED <<world, owner, cancel, agent, proved, uses>>

\* Other messages, malformed ones, and the list of identities.
Other(c) ==
    /\ pc[c] = "packet"
    /\ Refuse(c)
    /\ UNCHANGED <<world, agent, rows, sent, proved, uses>>

\* session-bind: once, not forwarded, and signed by the host.
Bind(c, host, session, authentic, forwarded) ==
    /\ pc[c] = "packet"
    /\ Refuse(c)
    /\ proved' = IF authentic THEN proved \cup {<<host, session>>} ELSE proved
    /\ bound' = IF ~forwarded /\ ~IsBound(c) /\ authentic
                THEN [bound EXCEPT ![c] = [host |-> host, session |-> session]]
                ELSE bound
    /\ UNCHANGED <<world, budget, rows, sent, uses>>

\* purpose: data that name another session or host than the bound ones are refused.
Purpose(c, session, host) ==
    IsBound(c) => bound[c].session = session /\ host \in {NoHost, bound[c].host}

\* effect: only a proved host has a rule; anything unknown is asked for.
RuleOf(c, purpose) ==
    CASE purpose = "git" -> GitEffect[policy]
      [] purpose = "auth" /\ IsBound(c) -> HostEffect[policy][bound[c].host]
      [] OTHER -> "none"
EffectOf(c, purpose) == IF RuleOf(c, purpose) = "none" THEN "approve" ELSE RuleOf(c, purpose)

Deadline(start) == Min({start + MaxSeconds, now + ApprovalSeconds, MaxNow})
BudgetStart(c) == IF budget[c].open THEN budget[c].start ELSE now

WithinBudget(c) == budget[c].used < MaxSignatures /\ now < Deadline(BudgetStart(c))

(***************************************************************************)
(* sign                                                                    *)
(***************************************************************************)
\* Everything up to the first wait.  A covering window needs a host's own rule
\* and local presence.
Sign(c, purpose, session, host, window) ==
    /\ pc[c] = "packet"
    /\ UNCHANGED <<world, agent, rows, sent, proved, uses, cancel>>
    /\ LET r == [req[c] EXCEPT !.version = policy, !.purpose = purpose,
                 !.session = session, !.host = host, !.effect = EffectOf(c, purpose),
                 !.start = BudgetStart(c), !.deadline = Deadline(BudgetStart(c)),
                 !.approvers = IF window THEN {"window"} ELSE {}]
           refused == \/ gate # "running" \/ expired
                      \/ purpose = "auth" /\ ~Purpose(c, session, host)
                      \/ EffectOf(c, purpose) = "deny"
                      \/ ~WithinBudget(c)
       IN  /\ window => /\ Threshold = 0 /\ purpose = "auth"
                        /\ RuleOf(c, purpose) = "approve"
           /\ IF refused THEN Answer(c, r)
              ELSE /\ pc' = [pc EXCEPT ![c] = IF r.effect = "approve" /\ ~window
                                              THEN "approving" ELSE "approved"]
                   /\ req' = [req EXCEPT ![c] = r]
                   /\ UNCHANGED owner

\* The person at the machine decides.
Presence(c) ==
    /\ pc[c] = "approving" /\ Threshold = 0 /\ now < req[c].deadline
    /\ req' = [req EXCEPT ![c].approvers = {"presence"}]
    /\ pc' = [pc EXCEPT ![c] = "approved"]
    /\ UNCHANGED <<world, owner, cancel, agent, rows, sent, proved, uses>>

Grant == [approver : Approver, id : GrantId, mine : BOOLEAN, expires : 0..MaxNow]

\* verify_external_grants: for this challenge, in time, by different approvers.
GrantsValid(grants, r) ==
    /\ Len(grants) = Threshold
    /\ \A i \in DOMAIN grants : grants[i].mine /\ now < grants[i].expires
                                /\ grants[i].expires <= r.deadline
    /\ Cardinality({grants[i].approver : i \in DOMAIN grants}) = Threshold
    /\ Cardinality({grants[i].id : i \in DOMAIN grants}) = Threshold

External(c, grants) ==
    /\ pc[c] = "approving" /\ Threshold > 0 /\ now < req[c].deadline
    /\ GrantsValid(grants, req[c])
    /\ req' = [req EXCEPT ![c].approvers = {grants[i].approver : i \in DOMAIN grants},
                          ![c].deadline = Min({@} \cup {grants[i].expires : i \in DOMAIN grants})]
    /\ pc' = [pc EXCEPT ![c] = "approved"]
    /\ UNCHANGED <<world, owner, cancel, agent, rows, sent, proved, uses>>

\* Refused by the person, over time, cancelled by the peer or by a drain.
NotApproved(c) ==
    /\ pc[c] = "approving"
    /\ Refuse(c)
    /\ UNCHANGED <<world, agent, rows, sent, proved, uses>>

ApprovalExpires(c) == now >= req[c].deadline /\ NotApproved(c)

\* coordinate_until
TakeOwner(c) ==
    /\ pc[c] = "approved" /\ owner = "free" /\ now < req[c].deadline
    /\ owner' = c
    /\ pc' = [pc EXCEPT ![c] = "owner"]
    /\ UNCHANGED <<world, cancel, agent, req, rows, sent, proved, uses>>

OwnerTooLate(c) ==
    /\ pc[c] = "approved" /\ now >= req[c].deadline
    /\ Refuse(c)
    /\ UNCHANGED <<world, agent, rows, sent, proved, uses>>

StillCurrent(c) ==
    /\ gate = "running" /\ policy = req[c].version /\ ~expired
    /\ ~cancel[c] /\ now < req[c].deadline

\* The budget is charged before the worker is asked.
Charged(c) == [open |-> TRUE, start |-> req[c].start, used |-> budget[c].used + 1]

Enqueue(c) ==
    /\ pc[c] = "owner" /\ StillCurrent(c)
    /\ budget' = [budget EXCEPT ![c] = Charged(c)]
    /\ pc' = [pc EXCEPT ![c] = "queued"]
    /\ UNCHANGED <<world, owner, cancel, bound, req, rows, sent, proved, uses>>

NotCurrent(c) ==
    /\ pc[c] = "owner" /\ ~StillCurrent(c)
    /\ Refuse(c)
    /\ UNCHANGED <<world, agent, rows, sent, proved, uses>>

(***************************************************************************)
(* Worker::ssh_sign                                                        *)
(***************************************************************************)
\* The acceptances and the started row, in one transaction.
StartRow(c) ==
    /\ pc[c] = "queued" /\ now < req[c].deadline
    /\ rows' = [rows EXCEPT ![c] = {"started"} \cup req[c].approvers]
    /\ uses' = [uses EXCEPT ![c] = Append(@, now)]
    /\ pc' = [pc EXCEPT ![c] = "started"]
    /\ UNCHANGED <<world, owner, cancel, agent, req, sent, proved>>

\* The credential is read again and the key compared; a signature is made.
MakeSignature(c) ==
    /\ pc[c] = "started" /\ now < req[c].deadline
    /\ req' = [req EXCEPT ![c].signature = TRUE]
    /\ pc' = [pc EXCEPT ![c] = "signed"]
    /\ UNCHANGED <<world, owner, cancel, agent, rows, sent, proved, uses>>

NoSignature(c) ==
    /\ pc[c] = "started"
    /\ pc' = [pc EXCEPT ![c] = "signed"]
    /\ UNCHANGED <<world, owner, cancel, agent, req, rows, sent, proved, uses>>

\* The row of the signature and the terminal row.
EndRow(c) ==
    /\ pc[c] = "signed"
    /\ rows' = [rows EXCEPT ![c] = @ \cup {"finished"}
                                      \cup (IF req[c].signature THEN {"signature"} ELSE {})]
    /\ UNCHANGED cancel
    /\ Answer(c, req[c])
    /\ UNCHANGED <<world, agent, sent, proved, uses>>

\* A row that cannot be written discards what was made.
RowFails(c) ==
    /\ pc[c] \in {"queued", "signed"}
    /\ Refuse(c)
    /\ UNCHANGED <<world, agent, rows, sent, proved, uses>>

TooLate(c) ==
    /\ pc[c] = "queued" /\ now >= req[c].deadline
    /\ Refuse(c)
    /\ UNCHANGED <<world, agent, rows, sent, proved, uses>>

(***************************************************************************)
(* write_live: each write asks again.                                      *)
(***************************************************************************)
\* Mutant: what was authorized once is written whatever became of the policy.
LiveOnce(c) == gate = "running"

Live(c) == owner = "free" /\ gate = "running" /\ policy = req[c].read /\ ~expired

Write(c) ==
    /\ pc[c] = "writing" /\ Live(c)
    /\ sent' = [sent EXCEPT ![c] = @ + 1]
    /\ pc' = [pc EXCEPT ![c] = IF sent'[c] = Piece THEN "idle" ELSE "writing"]
    /\ UNCHANGED <<world, owner, cancel, agent, req, rows, proved, uses>>

\* Not live, out of time, or the peer does not read.
WriteFails(c) ==
    /\ pc[c] = "writing"
    /\ pc' = [pc EXCEPT ![c] = "closed"]
    /\ UNCHANGED <<world, owner, cancel, agent, req, rows, sent, proved, uses>>

\* The peer sends or closes while it is being served, or the agent stops.
PeerMoves(c) ==
    /\ pc[c] # "closed" /\ ~cancel[c]
    /\ cancel' = [cancel EXCEPT ![c] = TRUE]
    /\ pc' = [pc EXCEPT ![c] = IF @ \in {"idle", "writing"} THEN "closed" ELSE @]
    /\ UNCHANGED <<world, owner, agent, req, rows, sent, proved, uses>>

(***************************************************************************)
(* The rest of the broker.                                                 *)
(***************************************************************************)
Activate ==
    /\ owner = "free" /\ policy < MaxPolicy
    /\ policy' = policy + 1 /\ expired' = FALSE
    /\ UNCHANGED <<gate, now, owner, pc, cancel, agent, req, rows, sent, proved, uses>>

Expire ==
    /\ ~expired
    /\ expired' = TRUE
    /\ UNCHANGED <<policy, gate, now, owner, pc, cancel, agent, req, rows, sent, proved, uses>>

Drain ==
    /\ gate = "running" /\ owner = "free"
    /\ gate' = "draining"
    /\ UNCHANGED <<policy, expired, now, owner, pc, cancel, agent, req, rows, sent, proved, uses>>

Fault ==
    /\ gate = "running"
    /\ gate' = "faulted"
    /\ UNCHANGED <<policy, expired, now, owner, pc, cancel, agent, req, rows, sent, proved, uses>>

Tick ==
    /\ now < MaxNow
    /\ now' = now + 1
    /\ UNCHANGED <<policy, expired, gate, owner, pc, cancel, agent, req, rows, sent, proved, uses>>

Grants == UNION {[1..n -> Grant] : n \in 0..Threshold}

Next ==
    \/ \E c \in Conn :
         \/ ReadPacket(c) \/ Other(c)
         \/ \E h \in Host, s \in Session, a, f \in BOOLEAN : Bind(c, h, s, a, f)
         \/ \E p \in {"git", "auth", "other"}, s \in Session, h \in Host \cup {NoHost},
               w \in BOOLEAN :
              /\ p # "auth" => h = NoHost /\ s = CHOOSE x \in Session : TRUE
              /\ Sign(c, p, s, h, w)
         \/ Presence(c)
         \/ \E g \in Grants : External(c, g)
         \/ NotApproved(c) \/ TakeOwner(c) \/ OwnerTooLate(c) \/ Enqueue(c) \/ NotCurrent(c)
         \/ StartRow(c) \/ MakeSignature(c) \/ NoSignature(c) \/ EndRow(c) \/ RowFails(c)
         \/ TooLate(c) \/ Write(c) \/ WriteFails(c) \/ PeerMoves(c)
    \/ Activate \/ Expire \/ Drain \/ Fault \/ Tick

Spec == Init /\ [][Next]_vars

(***************************************************************************)
(* Properties.                                                             *)
(***************************************************************************)

\* The coordinator is held by the one that goes through the worker, a signature
\* exists only there or in an answer, and a busy handler's request was admitted
\* within its budget.
TypeOK ==
    /\ pc \in [Conn -> {"idle", "packet", "approving", "approved", "owner", "queued", "started",
                        "signed", "writing", "closed"}]
    /\ sent \in [Conn -> 0..Piece]
    /\ \A c \in Conn : owner = c <=> pc[c] \in {"owner", "queued", "started", "signed"}
    /\ \A c \in Conn : budget[c].used <= MaxSignatures
    /\ \A c \in Conn : pc[c] = "approved" /\ req[c].effect = "approve" => req[c].approvers # {}

\* A signature, or a part of one, that the peer has is in the journal: started,
\* made and finished, with as many different approvers as the policy asks for.
\* (ssh_sign: even a produced signature is discarded on an audit failure)
SignatureIsJournaled ==
    \A c \in Conn : sent[c] > 0 /\ req[c].signature =>
        /\ {"started", "signature", "finished"} \subseteq rows[c]
        /\ req[c].effect = "approve" =>
             IF Threshold = 0 THEN rows[c] \cap {"window", "presence"} # {}
             ELSE Cardinality(rows[c] \cap Approver) >= Threshold

\* What is signed with nobody's approval is what the policy allows: a commit, or
\* a login on the session that a host with an allowing rule has signed itself.
\* (bind, purpose, effect)
UnapprovedIsAllowed ==
    \A c \in Conn : "started" \in rows[c] /\ rows[c] \subseteq {"started", "signature", "finished"} =>
        \/ req[c].purpose = "git" /\ GitEffect[req[c].version] = "allow"
        \/ /\ req[c].purpose = "auth"
           /\ \E h \in Host : /\ HostEffect[req[c].version][h] = "allow"
                              /\ <<h, req[c].session>> \in proved
                              /\ req[c].host \in {NoHost, h}

\* No connection starts more signatures than the policy grants it, nor one later
\* than its budget's time after the first; failed ones count.  (budgets)
BudgetHolds ==
    \A c \in Conn : /\ Len(uses[c]) <= MaxSignatures
                    /\ \A i \in DOMAIN uses[c] : uses[c][i] < budget[c].start + MaxSeconds

\* A signature is started under the policy in force, not under the one its
\* approval was given for: activation waits for the coordinator.  The policy's time
\* may end between the last look and the row; what is then made is not written
\* (OutputUnderSamePolicy).  (coordinate_until, the digest read again)
StartsUnderCurrentPolicy ==
    \A c \in Conn : "started" \in rows'[c] \ rows[c] => policy = req[c].version

\* No piece of a signature is written under another policy than the one it was
\* made under, after that policy's time, or while the gate is closed, although the handler and sign read it apart.  (write_live)
OutputUnderSamePolicy ==
    \A c \in Conn : sent'[c] > sent[c] /\ req[c].signature =>
          policy = req[c].version /\ ~expired /\ gate = "running"

=============================================================================
