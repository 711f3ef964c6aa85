------------------------------ MODULE McpServer ------------------------------
(***************************************************************************)
(* The MCP server an agent's host starts over standard input and output:   *)
(* a JSON-RPC session with a handshake, nine generic tools, and one named  *)
(* tool for each operation of the inventory the broker reports.  The       *)
(* server handles one line at a time.  The broker's inventory may change   *)
(* between any two of its answers, and any call to it may fail.            *)
(***************************************************************************)
EXTENDS Integers, Sequences, SequencesExt, FiniteSets

CONSTANTS Connections, Operations,
          ToolNames,     \* names of named tools
          ToolName,      \* an operation's name with its dots replaced
          MaxOffers,     \* bound: operations of an inventory, over all connections
          GenericTools,  \* GENERIC_TOOL_COUNT
          ToolLimit,     \* at most this many tools are listed
          MaxLines       \* bound: lines the host writes

McpAssumption ==
    /\ ToolName \in [Operations -> ToolNames]
    /\ GenericTools \in Nat /\ ToolLimit \in Nat /\ GenericTools <= ToolLimit
    /\ MaxOffers \in Nat /\ MaxLines \in Nat

VARIABLES initialized, ready,       \* the server's handshake
          tools,                    \* its named tools
          pc, lines,                \* where it is in the last line it read
          read,                     \* the inventory read for that line
          sent,                     \* what it asked of the broker
          answers                   \* what it wrote to the host

vars == <<initialized, ready, tools, pc, lines, read, sent, answers>>

Offers == Connections \X Operations
Connection(o) == o[1]
Operation(o) == o[2]
Inventories == {s \in SUBSET Offers : Cardinality(s) <= MaxOffers}
Unread == {<<>>}

\* A line: its method, whether it has an id (otherwise it is a notification),
\* whether its parameters are what the method and the tool ask for, and the tool
\* of a tools/call.
Line(method) == [method |-> method, id |-> TRUE, valid |-> TRUE, tool |-> "none"]
GenericPublic == {"list_capabilities", "describe", "request_access", "await_access",
                  "await_approval", "cancel_approval", "await_unlock"}
GenericCalls == {"call", "http"}
Lines ==
    {Line("garbage"), Line("invalid"), Line("unknown"), Line("ping")}
    \cup {[Line(m) EXCEPT !.valid = v] : m \in {"initialize", "tools/list"}, v \in BOOLEAN}
    \cup {[Line("notifications/initialized") EXCEPT !.id = i] : i \in BOOLEAN}
    \cup {[Line("tools/call") EXCEPT !.tool = t, !.valid = v] :
            t \in ToolNames \cup {"describe", "call"}, v \in BOOLEAN}
    \cup {[Line("tools/call") EXCEPT !.tool = t, !.id = FALSE] : t \in ToolNames}

\* An answer: to which line, with which id, and a result, a tool's error or an
\* error of the protocol; the number of tools listed.
Answer(kind) == [line |-> Len(lines), id |-> TRUE, kind |-> kind, listed |-> 0]
Now == Last(lines)

Init ==
    /\ initialized = FALSE /\ ready = FALSE
    /\ tools = {}
    /\ pc = "idle" /\ lines = <<>> /\ read = Unread
    /\ sent = <<>> /\ answers = <<>>

-----------------------------------------------------------------------------
\* run: a line is read and parsed; the end of the input, or a line over the
\* limit, ends the server.
ReadLine ==
    /\ pc = "idle" /\ Len(lines) < MaxLines
    /\ \E l \in Lines : lines' = Append(lines, l)
    /\ pc' = "handle" /\ read' = Unread
    /\ UNCHANGED <<initialized, ready, tools, sent, answers>>

InputEnds ==
    /\ pc = "idle"
    /\ pc' = "ended"
    /\ UNCHANGED <<initialized, ready, tools, lines, read, sent, answers>>

Reply(a) == pc' = "idle" /\ answers' = Append(answers, a)
Refuse == Reply(Answer("error"))

\* handle: what is not a request of the protocol is answered without an id.
Malformed ==
    /\ pc = "handle" /\ Now.method \in {"garbage", "invalid"}
    /\ Reply([Answer("error") EXCEPT !.id = FALSE])
    /\ UNCHANGED <<initialized, ready, tools, lines, read, sent>>

MakesReady(l) == l.method = "notifications/initialized" /\ initialized

\* A notification is never answered, and never runs a tool.
Notification ==
    /\ pc = "handle" /\ Now.method \notin {"garbage", "invalid"} /\ ~ Now.id
    /\ ready' = (ready \/ MakesReady(Now))
    /\ pc' = "idle"
    /\ UNCHANGED <<initialized, tools, lines, read, sent, answers>>

Request == pc = "handle" /\ Now.method \notin {"garbage", "invalid"} /\ Now.id

Initialize ==
    /\ Request /\ Now.method = "initialize" /\ ~ initialized
    /\ initialized' = Now.valid
    /\ IF Now.valid THEN Reply(Answer("result")) ELSE Refuse
    /\ UNCHANGED <<ready, tools, lines, read, sent>>

Ping ==
    /\ Request /\ Now.method = "ping"
    /\ Reply(Answer("result"))
    /\ UNCHANGED <<initialized, ready, tools, lines, read, sent>>

NotYet ==
    /\ Request /\ ~ ready
    /\ Now.method # "ping" /\ ~ (Now.method = "initialize" /\ ~ initialized)
    /\ Refuse
    /\ UNCHANGED <<initialized, ready, tools, lines, read, sent>>

\* A second initialize falls through to the methods the server does not have.
UnknownMethod ==
    /\ Request /\ ready
    /\ \/ Now.method \in {"unknown", "notifications/initialized"}
       \/ Now.method = "initialize" /\ initialized
    /\ Refuse
    /\ UNCHANGED <<initialized, ready, tools, lines, read, sent>>

-----------------------------------------------------------------------------
Ask(opcode, connection, operation) ==
    sent' = Append(sent, [line |-> Len(lines), opcode |-> opcode,
                          connection |-> connection, operation |-> operation])

OfferedAs(name, s) == {o \in s : ToolName[Operation(o)] = name}

\* named_tools: none when they are too many, and none when two operations would
\* share a name.
NamedTools(s) ==
    IF Cardinality(s) + GenericTools > ToolLimit THEN {}
    ELSE IF \E o \in s : Cardinality(OfferedAs(ToolName[Operation(o)], s)) > 1 THEN {}
    ELSE s

\* refresh_tools: the tools of an earlier inventory are gone whatever happens.
\* Administrators change the inventory at any time, so that each reading may
\* find another one.
RefreshTools ==
    \/ \E s \in Inventories : read' = s /\ tools' = NamedTools(s)
    \/ read' = Unread /\ tools' = {}

StartList ==
    /\ Request /\ ready /\ Now.method = "tools/list"
    /\ IF Now.valid THEN pc' = "list" /\ UNCHANGED answers ELSE Refuse
    /\ UNCHANGED <<initialized, ready, tools, lines, read, sent>>

\* tools/list: with the broker away, locked or not configured the generic tools
\* stay listed; any other failure is an error.
ListTools ==
    /\ pc = "list"
    /\ RefreshTools /\ Ask("LIST_CAPABILITIES", "none", "none")
    /\ \/ Reply([Answer("result") EXCEPT !.listed = GenericTools + Cardinality(tools')])
       \/ read' = Unread /\ Refuse
    /\ UNCHANGED <<initialized, ready, lines>>

\* What public_json and approval_result make of the broker's answer: a result, or
\* an error when the broker refused, was away or answered for something else.
PublicOutcomes == {"result", "toolError"}
\* execution_result: a result of the upstream that is not a success is an error of
\* the tool with the response in it.
CallOutcomes == {"result", "toolError"}

\* call_tool on a tool that only asks the broker: its arguments, a timeout
\* between 1 and 120 seconds among them, are checked first, its answer after.
CallPublic ==
    /\ Request /\ ready /\ Now.method = "tools/call" /\ Now.tool \in GenericPublic
    /\ IF Now.valid
       THEN /\ Ask(Now.tool, "none", "none")
            /\ \E kind \in PublicOutcomes : Reply(Answer(kind))
       ELSE Reply(Answer("toolError")) /\ UNCHANGED sent
    /\ UNCHANGED <<initialized, ready, tools, lines, read>>

\* invoke: one CALL, whose failure says nothing about its effect.
Invoke(connection, operation) ==
    /\ Ask("CALL", connection, operation)
    /\ \E kind \in CallOutcomes : Reply(Answer(kind))

\* The generic call and http tools name the connection themselves.
CallGeneric ==
    /\ Request /\ ready /\ Now.method = "tools/call" /\ Now.tool \in GenericCalls
    /\ IF Now.valid THEN \E o \in Offers : Invoke(Connection(o), Operation(o))
       ELSE Reply(Answer("toolError")) /\ UNCHANGED sent
    /\ UNCHANGED <<initialized, ready, tools, lines, read>>

Named == Request /\ ready /\ Now.method = "tools/call" /\ Now.tool \in ToolNames

\* A named tool is looked up in an inventory read for this very call.
RefreshForCall ==
    /\ Named
    /\ RefreshTools /\ Ask("LIST_CAPABILITIES", "none", "none")
    /\ IF read' = Unread THEN Reply(Answer("toolError")) ELSE pc' = "named" /\ UNCHANGED answers
    /\ UNCHANGED <<initialized, ready, lines>>

CallNamed ==
    /\ pc = "named"
    /\ IF OfferedAs(Now.tool, tools) = {} \/ ~ Now.valid
       THEN Reply(Answer("toolError")) /\ UNCHANGED sent
       ELSE \E o \in OfferedAs(Now.tool, tools) : Invoke(Connection(o), Operation(o))
    /\ UNCHANGED <<initialized, ready, tools, lines, read>>

Ended == pc = "ended" /\ UNCHANGED vars

Next ==
    \/ ReadLine \/ InputEnds
    \/ Malformed \/ Notification \/ Initialize \/ Ping \/ NotYet \/ UnknownMethod
    \/ StartList \/ ListTools \/ CallPublic \/ CallGeneric \/ RefreshForCall \/ CallNamed
    \/ Ended

Spec == Init /\ [][Next]_vars

-----------------------------------------------------------------------------
CallsOf(i) == {k \in DOMAIN sent : sent[k].line = i /\ sent[k].opcode = "CALL"}

\* The server's tools are what one whole inventory gives, and a host is never
\* shown more tools than the limit, though the inventory has no limit of its own.
TypeOK ==
    /\ pc \in {"idle", "handle", "list", "named", "ended"}
    /\ tools \in SUBSET Offers
    /\ \A i \in DOMAIN answers : answers[i].listed <= ToolLimit

\* A call of a named tool goes to a connection only when the inventory read for
\* that call had this connection alone under the tool's name.
NamedCallUnambiguous ==
    \A k \in CallsOf(Len(lines)) :
       Now.tool \in ToolNames =>
          OfferedAs(Now.tool, read) = {<<sent[k].connection, sent[k].operation>>}

\* No line makes the server call twice, whatever became of the first call, and
\* no notification makes it call at all.
AtMostOneCall ==
    \A i \in DOMAIN lines :
       Cardinality(CallsOf(i)) <= (IF lines[i].id THEN 1 ELSE 0)

\* The broker is asked nothing before the host's initialize was answered and its
\* initialized notification received, in this order.
NothingBeforeHandshake ==
    \A k \in DOMAIN sent : \E i, j \in 1..(sent[k].line - 1) :
       /\ i < j
       /\ lines[i].method = "initialize" /\ lines[i].id /\ lines[i].valid
       /\ lines[j].method = "notifications/initialized" /\ ~ lines[j].id

\* Between two lines, the host has one answer for each request and none for a
\* notification, in the order of its lines.
AnswersInOrder ==
    pc \in {"idle", "ended"} =>
       [i \in DOMAIN answers |-> answers[i].line] =
          SetToSortSeq({i \in DOMAIN lines : lines[i].id}, <)
=============================================================================
