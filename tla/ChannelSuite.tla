---------------------------- MODULE ChannelSuite ----------------------------
(***************************************************************************)
(* What agents and hosts talk to, checked in one run: derived credentials  *)
(* (DerivedCredentials, extended), the agent channel, the ssh agent, the   *)
(* admission of workloads, the client of the socket and the MCP server.    *)
(* They share no state here.  A behaviour runs the one `part' names; the   *)
(* others stay as they start.                                              *)
(***************************************************************************)
EXTENDS DerivedCredentials, Sequences

CONSTANTS Parts

VARIABLES part,
    conn, job, next, queue, taking, listening, shut, decided,
    sshPolicy, expired, sshGate, sshOwner, clock, handler, cancel, bound, budget, sign, sshRows,
    sent, proved, uses,
    phase, active, stored, tokenUses, coord, at, sessions, adm, owners, wall, mono, hist,
    kind, file, checked, peer, clientPc, told, wire, received, sequence, output, late, result,
    initialized, ready, tools, mcpPc, lines, read, asked, answers

channelVars == <<conn, job, next, queue, taking, listening, shut, decided>>
sshVars == <<sshPolicy, expired, sshGate, sshOwner, clock, handler, cancel, bound, budget, sign,
             sshRows, sent, proved, uses>>
workloadVars == <<phase, active, stored, tokenUses, coord, at, sessions, adm, owners, wall, mono, hist>>
clientVars == <<kind, file, checked, peer, clientPc, told, wire, received, sequence, output, late, result>>
mcpVars == <<initialized, ready, tools, mcpPc, lines, read, asked, answers>>
suiteVars == <<part, vars, channelVars, sshVars, workloadVars, clientVars, mcpVars>>

\* Two requests; the first policy asks for approval and ends, the second
\* allows; the lifetime is rounded.  A request that asks, one of the same
\* caller and one of another, all with approvals.
OneCaller == [r \in Req |-> "agent"]
FirstAsks == [p \in Policies |-> IF p = 1 THEN "approve" ELSE "allow"]
Clouds == [p \in Policies |-> IF p = 1 THEN "aws" ELSE "eks"]
FirstEnds == [p \in Policies |-> IF p = 2 THEN 3 ELSE 2]
ShortTtl == [p \in Policies |-> Short]
Approvals == INSTANCE DerivedCredentials WITH
    Req <- {"x", "y", "z"}, Caller <- [r \in {"x", "y", "z"} |-> IF r = "z" THEN "other" ELSE "agent"],
    MaxPolicy <- 1, Effect <- [p \in {1} |-> "approve"], Target <- [p \in {1} |-> "github"],
    Expires <- [p \in {1} |-> 3], Ttl <- [p \in {1} |-> Long],
    Wait <- 1, Second <- 1, Sub <- 1, MaxNow <- 2

\* A client whose answers are streamed, in a runtime that stops; two clients
\* and one execution at a time.
Channel == INSTANCE AgentChannel WITH
    Clients <- {"c"}, Kinds <- {"stream", "http"}, Slots <- 1, Replies <- 1, QueueCapacity <- 1,
    MaxTasks <- 1, MaxChunks <- 2, MaxRequests <- 2, Stops <- TRUE
Pair == INSTANCE AgentChannel WITH
    Clients <- {"c", "d"}, Kinds <- {"execute", "call"}, Slots <- 1, Replies <- 1,
    QueueCapacity <- 1, MaxTasks <- 1, MaxChunks <- 1, MaxRequests <- 2, Stops <- FALSE

\* The first policy allows logins and asks for commits, the second refuses
\* logins and allows commits; or commits and logins with two signers.
Hosts == INSTANCE SshAgent WITH
    Conn <- {"c"}, Host <- {"h"}, Session <- {"s", "t"},
    GitEffect <- [p \in 1..2 |-> IF p = 1 THEN "approve" ELSE "allow"],
    HostEffect <- [p \in 1..2 |-> [h \in {"h"} |-> IF p = 1 THEN "allow" ELSE "deny"]],
    Threshold <- 0, Approver <- {"a"}, GrantId <- {"g"}, MaxSignatures <- 1, MaxSeconds <- 1,
    ApprovalSeconds <- 1, MaxNow <- 2, MaxPolicy <- 2,
    policy <- sshPolicy, gate <- sshGate, owner <- sshOwner, now <- clock, pc <- handler,
    req <- sign, rows <- sshRows
Signers == INSTANCE SshAgent WITH
    Conn <- {"c"}, Host <- {"h"}, Session <- {"s"},
    GitEffect <- [p \in 1..2 |-> IF p = 1 THEN "approve" ELSE "allow"],
    HostEffect <- [p \in 1..2 |-> [h \in {"h"} |-> IF p = 1 THEN "approve" ELSE "none"]],
    Threshold <- 2, Approver <- {"a", "b"}, GrantId <- {"g", "k"}, MaxSignatures <- 1,
    MaxSeconds <- 2, ApprovalSeconds <- 1, MaxNow <- 1, MaxPolicy <- 2,
    policy <- sshPolicy, gate <- sshGate, owner <- sshOwner, now <- clock, pc <- handler,
    req <- sign, rows <- sshRows

\* Two policies of one version and a successor that moves an identity to the
\* issuer's keys; tokens of either identity and one signed with the other's key.
Identity(who, sub, online, keys) ==
    [who |-> who, iss |-> "hub", sub |-> sub, aud |-> {"rekey"}, maxAge |-> 4,
     online |-> online, keys |-> keys]
Key(kid, key) == [kid |-> kid, alg |-> "EdDSA", key |-> key]
Token(sub, alg, kid, key, exp) ==
    [iss |-> "hub", sub |-> sub, aud |-> {"rekey"}, jti |-> "j", alg |-> alg,
     kid |-> kid, key |-> key, iat |-> 0, nbf |-> 0, exp |-> exp]
Bundle(id, version, expires, other) ==
    [id |-> id, version |-> version, expires |-> expires,
     ids |-> <<Identity("w1", "one", FALSE, {Key("k1", "m1")}), other>>,
     may |-> [w1 |-> {"act"}, w2 |-> {"act"}]]
Workloads == INSTANCE WorkloadAdmission WITH
    Attempts <- {"p", "q"},
    Policies <- {Bundle(1, 1, 2, Identity("w2", "two", FALSE, {Key("k2", "m2")})),
                 Bundle(2, 2, 3, Identity("w2", "two", TRUE, {})),
                 Bundle(3, 1, 3, Identity("w2", "two", FALSE, {Key("k1", "m2")}))},
    Tokens <- {Token("one", "EdDSA", "k1", "m1", 3), Token("two", "RS256", "k3", "m3", 3),
               Token("two", "EdDSA", "k1", "m1", 2)},
    KeySets <- {{<<"k3", "m3">>}, {<<"k3", "m4">>}},
    Ttl <- 2, Humans <- {"w2"}, HumanExpiry <- 2, Slots <- 1, MaxRows <- 2,
    PrivateOwners <- FALSE, CanFail <- TRUE, MaxTime <- 2, MaxBack <- 1, MaxPubs <- 2,
    policy <- active, rows <- tokenUses
\* One token, and requests that hold a private credential while a policy is replaced.
Keepers == INSTANCE WorkloadAdmission WITH
    Attempts <- {"p", "q"},
    Policies <- {Bundle(1, 1, 2, Identity("w2", "two", TRUE, {})),
                 Bundle(2, 2, 3, Identity("w2", "two", TRUE, {}))},
    Tokens <- {Token("one", "EdDSA", "k1", "m1", 3)}, KeySets <- {},
    Ttl <- 2, Humans <- {}, HumanExpiry <- 2, Slots <- 1, MaxRows <- 2,
    PrivateOwners <- TRUE, CanFail <- TRUE, MaxTime <- 1, MaxBack <- 0, MaxPubs <- 2,
    policy <- active, rows <- tokenUses

\* Two users, at most two frames.
Client == INSTANCE IpcClient WITH
    Owners <- {"broker", "other"}, Trusted <- "broker", Kinds <- {"call", "stream"}, MaxFrames <- 2,
    pc <- clientPc

\* Two connections; two of the operations have one tool name; two named tools
\* fit beside the generic one.
Mcp == INSTANCE McpServer WITH
    Connections <- {"k1", "k2"}, Operations <- {"a.b", "a_b", "c"}, ToolNames <- {"a_b", "c"},
    ToolName <- [o \in {"a.b", "a_b", "c"} |-> IF o = "a.b" THEN "a_b" ELSE o],
    MaxOffers <- 2, GenericTools <- 1, ToolLimit <- 2, MaxLines <- 4,
    pc <- mcpPc, sent <- asked

ASSUME /\ Approvals!DerivedAssumption
       /\ Channel!ChannelAssumption /\ Pair!ChannelAssumption
       /\ Hosts!SshAgentAssumption /\ Signers!SshAgentAssumption
       /\ Workloads!WorkloadAssumption /\ Keepers!WorkloadAssumption /\ Client!ClientAssumption /\ Mcp!McpAssumption

-----------------------------------------------------------------------------
SuiteInit ==
    /\ part \in Parts
    /\ IF part = "approvals" THEN Approvals!Init ELSE Init
    /\ IF part = "pair" THEN Pair!Init ELSE Channel!Init
    /\ Hosts!Init
    /\ Workloads!Init
    /\ Client!Init /\ (part # "client" => kind = "call")
    /\ Mcp!Init

SuiteNext ==
    /\ part' = part
    /\ CASE part = "derived" -> Next [] part = "approvals" -> Approvals!Next [] OTHER -> UNCHANGED vars
    /\ CASE part = "channel" -> Channel!Next [] part = "pair" -> Pair!Next
         [] OTHER -> UNCHANGED channelVars
    /\ CASE part = "hosts" -> Hosts!Next [] part = "signers" -> Signers!Next
         [] OTHER -> UNCHANGED sshVars
    /\ CASE part = "workloads" -> Workloads!Next [] part = "owners" -> Keepers!Next
         [] OTHER -> UNCHANGED workloadVars
    /\ IF part = "client" THEN Client!Next ELSE UNCHANGED clientVars
    /\ IF part = "mcp" THEN Mcp!Next ELSE UNCHANGED mcpVars

SuiteSpec == SuiteInit /\ [][SuiteNext]_suiteVars

-----------------------------------------------------------------------------
\* What a client is told is so: an answer it takes for complete is one, frames
\* keep their order, a busy answer means that nothing was admitted; a request
\* goes to the broker's own socket and an unknown outcome is not called
\* repeatable; the MCP server asks the broker at most once for a line, for the
\* operation the host named, and answers in order.
AnswersAreTrue ==
    /\ part = "channel" => /\ Channel!TypeOK /\ Channel!SuccessIsTrue
                           /\ Channel!FramesWellFormed /\ Channel!BusyHasNoEffect
    /\ part = "pair" => Pair!TypeOK /\ Pair!SuccessIsTrue /\ Pair!BusyHasNoEffect
    /\ part = "client" => /\ Client!TypeOK /\ Client!SentToOwner
                          /\ Client!SuccessIsWhole /\ Client!UnknownIsNotRepeatable
    /\ part = "mcp" => /\ Mcp!TypeOK /\ Mcp!NamedCallUnambiguous /\ Mcp!AtMostOneCall
                       /\ Mcp!NothingBeforeHandshake /\ Mcp!AnswersInOrder

\* Whoever acts is the one the policy means: a signature that left is in the
\* journal with its approvers, one nobody approved is allowed for the host that
\* proved the session, within the budget; a workload's session was bought with
\* a token of its own identity, once while that policy is the stored one, and
\* ends with it; a derived credential has the signed scope and lifetime and an
\* approval derives one.
ActsAsSigned ==
    /\ part = "derived" => TypeOK /\ IssuedAsSigned
    /\ part = "approvals" => Approvals!TypeOK /\ Approvals!ApprovalUsedOnce
    /\ part = "hosts" => /\ Hosts!TypeOK /\ Hosts!SignatureIsJournaled
                         /\ Hosts!UnapprovedIsAllowed /\ Hosts!BudgetHolds
    /\ part = "signers" => Signers!TypeOK /\ Signers!SignatureIsJournaled
    /\ part = "workloads" => /\ Workloads!TypeOK /\ Workloads!SignedByItsIdentity
                             /\ Workloads!TokenUsedOnce /\ Workloads!SessionsAreRecorded
                             /\ Workloads!SessionsAreBounded
                             /\ Workloads!SessionsUnderActivePolicy /\ Workloads!ActiveIsStored
    /\ part = "owners" => /\ Keepers!TypeOK /\ Keepers!TokenUsedOnce /\ Keepers!SessionsAreRecorded
                          /\ Keepers!SessionsUnderActivePolicy /\ Keepers!ActiveIsStored

\* What leaves, leaves under the policy it was let through by: no signature is
\* started under a policy that was replaced, and no piece of one is written
\* under a policy that was replaced or has ended; no body of a derived
\* credential leaves after its policy was replaced, or has ended as counted from
\* its activation; and no workload is admitted under a policy that was seen
\* expired, even when the wall clock is set back.
UnderCurrentPolicy ==
    [][/\ part = "derived" => DeliveredUnderItsPolicy
       /\ part = "approvals" => Approvals!DeliveredUnderItsPolicy
       /\ part = "hosts" => Hosts!StartsUnderCurrentPolicy /\ Hosts!OutputUnderSamePolicy
       /\ part = "workloads" => Workloads!ExpiryIsFinal]_suiteVars
=============================================================================
