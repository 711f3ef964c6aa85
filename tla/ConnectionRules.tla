--------------------------- MODULE ConnectionRules ---------------------------
(***************************************************************************)
(* rekey-policy connections.rs and presets.rs, rekey-domain connection.rs: *)
(* what a signed Connection lets a local caller do.  A Connection is       *)
(* edited rule by rule and operation by operation; whatever it has become, *)
(* a call is decided by its most specific rule, a deny is absolute, and a  *)
(* caller's own rules may only make the decision stricter.                 *)
(*                                                                         *)
(* A path is a sequence of segments.  A pattern's segment is a literal, a  *)
(* name bound to values, "*" (any) or a final "**" (rest).                 *)
(***************************************************************************)
EXTENDS Naturals, Sequences, FiniteSets, FiniteSetsExt, SequencesExt

CONSTANTS
    Pattern,       \* the patterns a rule may be given
    Path,          \* the paths a caller may ask for
    Bindings,      \* Connection.bindings: name -> values, "*" among them
    PresetName,    \* the built-in presets the Connection may come from
    MaxRules,      \* bound: rules added to the Connection
    MaxOverrides,  \* bound: rules added for the caller
    MaxOperations  \* bound: operations kept from the preset

VARIABLES
    preset,        \* Connection.preset
    rules,         \* Connection.rules
    overrides,     \* Connection.caller_overrides of the one caller
    operations,    \* Connection.operations
    scopes         \* OAuthBinding.scopes

vars == <<preset, rules, overrides, operations, scopes>>

Method == {"GET", "POST", "PUT", "PATCH", "DELETE"}
Effect == {"allow", "approve", "deny"}

\* RuleEffect's order: a greater effect is stricter.
Rank(effect) == CASE effect = "allow" -> 0 [] effect = "approve" -> 1 [] OTHER -> 2

Lit(text) == [kind |-> "literal", text |-> text]
Name(text) == [kind |-> "named", text |-> text]

(***************************************************************************)
(* Deciding.                                                               *)
(***************************************************************************)
SegmentMatches(segment, value) ==
    \/ segment.kind = "any"
    \/ segment.kind = "literal" /\ segment.text = value
    \/ /\ segment.kind = "named" /\ segment.text \in DOMAIN Bindings
       /\ {"*", value} \cap Bindings[segment.text] # {}

\* pattern_matches: "**" takes whatever is left, also nothing.
PatternMatches(pattern, path) ==
    LET open == pattern # <<>> /\ Last(pattern).kind = "rest"
        fixed == IF open THEN Len(pattern) - 1 ELSE Len(pattern)
    IN /\ IF open THEN Len(path) >= fixed ELSE Len(path) = fixed
       /\ \A i \in 1..fixed : SegmentMatches(pattern[i], path[i])

CountKind(pattern, kind) == Cardinality({i \in DOMAIN pattern : pattern[i].kind = kind})

\* The root pattern splits into one empty segment, which counts as a literal.
Specificity(pattern) ==
    IF pattern = <<>> THEN <<1, 1, 0, 1>>
    ELSE <<CountKind(pattern, "literal"), 1 - CountKind(pattern, "rest"),
           CountKind(pattern, "named"), Len(pattern)>>

Exceeds(a, b) ==
    \E i \in DOMAIN a : a[i] > b[i] /\ \A j \in 1..(i - 1) : a[j] = b[j]

RuleMatches(rule, method, class, path) ==
    /\ \/ rule.class = class
       \/ method \in rule.methods
    /\ PatternMatches(rule.path, path)

\* The order matches are sorted in: specificity, then effect, then the lower id.
Precedes(r, s) ==
    LET a == Specificity(r.path)
        b == Specificity(s.path)
    IN \/ Exceeds(a, b)
       \/ a = b /\ Rank(r.effect) > Rank(s.effect)
       \/ a = b /\ r.effect = s.effect /\ r.id < s.id

\* choose: the set holds the rule that decides, if any matches.
Chosen(from, method, class, path) ==
    LET matching == {r \in from : RuleMatches(r, method, class, path)}
        denies == {r \in matching : r.effect = "deny"}
    IN IF denies # {} THEN {r \in denies : \A s \in denies : r.id <= s.id}
       ELSE {r \in matching : \A s \in matching \ {r} : Precedes(r, s)}

\* decide: no rule is a deny, and an override counts only when it is stricter
\* than a rule that exists.
Decide(method, class, path) ==
    LET base == Chosen(rules, method, class, path)
        over == Chosen(overrides, method, class, path)
    IN IF base = {} THEN "deny"
       ELSE LET b == (CHOOSE r \in base : TRUE).effect
            IN IF over # {} /\ Rank((CHOOSE r \in over : TRUE).effect) > Rank(b)
               THEN (CHOOSE r \in over : TRUE).effect ELSE b

(***************************************************************************)
(* The presets: their operations, and what an OAuth operation needs.       *)
(***************************************************************************)
Op(name, method, path, read, needs) ==
    [name |-> name, method |-> method, path |-> path, read |-> read, needs |-> needs]

Repo == <<Lit("repos"), Name("owner"), Name("repo")>>
Issues == Repo \o <<Lit("issues")>>

GithubOperations ==
    <<Op("get_issue", "GET", Issues \o <<Name("number")>>, "none", "repo"),
      Op("list_issues", "GET", Issues, "none", "repo"),
      Op("create_issue", "POST", Issues, "none", "repo"),
      Op("create_comment", "POST", Issues \o <<Name("number"), Lit("comments")>>, "none", "repo"),
      Op("merge_pull", "PUT", Repo \o <<Lit("pulls"), Name("number"), Lit("merge")>>, "none", "repo"),
      Op("graphql", "POST", <<Lit("graphql")>>, "graphql", "none")>>

Files == <<Lit("drive"), Lit("v3"), Lit("files")>>
DriveOperations ==
    <<Op("list_files", "GET", Files, "none", "drive.readonly"),
      Op("get_file", "GET", Files \o <<Name("file_id")>>, "none", "drive.readonly"),
      Op("create_file", "POST", Files, "none", "drive.file"),
      Op("update_file", "PATCH", Files \o <<Name("file_id")>>, "none", "drive.file")>>

Messages == <<Lit("gmail"), Lit("v1"), Lit("users"), Lit("me"), Lit("messages")>>
GmailOperations ==
    <<Op("list_messages", "GET", Messages, "none", "gmail.readonly"),
      Op("get_message", "GET", Messages \o <<Name("message_id")>>, "none", "gmail.readonly"),
      Op("send_message", "POST", Messages \o <<Lit("send")>>, "none", "gmail.send")>>

Events == <<Lit("calendar"), Lit("v3"), Lit("calendars"), Lit("primary"), Lit("events")>>
CalendarOperations ==
    <<Op("list_events", "GET", Events, "none", "events.readonly"),
      Op("get_event", "GET", Events \o <<Name("event_id")>>, "none", "events.readonly"),
      Op("create_event", "POST", Events, "none", "events.owned"),
      Op("update_event", "PATCH", Events \o <<Name("event_id")>>, "none", "events.owned")>>

SlackOperations ==
    <<Op("list_channels", "GET", <<Lit("api"), Lit("conversations.list")>>, "none", "channels:read"),
      Op("history", "GET", <<Lit("api"), Lit("conversations.history")>>, "none", "channels:history"),
      Op("post_message", "POST", <<Lit("api"), Lit("chat.postMessage")>>, "none", "chat:write")>>

Pages == <<Lit("v1"), Lit("pages")>>
NotionOperations ==
    <<Op("search", "POST", <<Lit("v1"), Lit("search")>>, "fixed", "read_content"),
      Op("get_page", "GET", Pages \o <<Name("page_id")>>, "none", "read_content"),
      Op("get_children", "GET", <<Lit("v1"), Lit("blocks"), Name("block_id"), Lit("children")>>,
         "none", "read_content"),
      Op("create_page", "POST", Pages, "none", "insert_content"),
      Op("update_page", "PATCH", Pages \o <<Name("page_id")>>, "none", "update_content")>>

\* Where the operations of a model provider live under its origin.
OperationBase(name) ==
    CASE name \in {"openai", "deepseek", "moonshot", "anthropic"} -> <<Lit("v1")>>
      [] name \in {"glm-responses", "openrouter"} -> <<Lit("api"), Lit("v1")>>
      [] name = "qwen" -> <<Lit("compatible-mode"), Lit("v1")>>
      [] name = "gemini" -> <<Lit("v1beta"), Lit("openai")>>
      [] name = "glm" -> <<Lit("api"), Lit("anthropic"), Lit("v1")>>
      [] OTHER -> <<>>

AnthropicOperations(name) ==
    <<Op("messages", "POST", OperationBase(name) \o <<Lit("messages")>>, "fixed", "none")>>
    \o IF name = "glm" THEN <<>>
       ELSE <<Op("count_tokens", "POST", <<Lit("v1"), Lit("messages"), Lit("count_tokens")>>,
                 "fixed", "none"),
              Op("models", "GET", <<Lit("v1"), Lit("models")>>, "none", "none")>>

OpenAiOperations ==
    <<Op("responses", "POST", <<Lit("v1"), Lit("responses")>>, "fixed", "none"),
      Op("chat", "POST", <<Lit("v1"), Lit("chat"), Lit("completions")>>, "fixed", "none"),
      Op("embeddings", "POST", <<Lit("v1"), Lit("embeddings")>>, "fixed", "none"),
      Op("models", "GET", <<Lit("v1"), Lit("models")>>, "none", "none")>>

ChatOperations(name) ==
    <<Op("chat", "POST", OperationBase(name) \o <<Lit("chat"), Lit("completions")>>, "fixed", "none"),
      Op("models", "GET", IF name = "qwen" THEN <<Lit("api"), Lit("v1"), Lit("models")>>
                          ELSE OperationBase(name) \o <<Lit("models")>>, "none", "none")>>

ResponsesOperations ==
    <<Op("responses", "POST", <<Lit("api"), Lit("v1"), Lit("responses")>>, "fixed", "none")>>

\* github_git_preset.
GitOperations ==
    <<Op("info_refs", "GET", <<Name("owner"), Name("repo"), Lit("info"), Lit("refs")>>, "none", "none"),
      Op("upload_pack", "POST", <<Name("owner"), Name("repo"), Lit("git-upload-pack")>>, "fixed", "none"),
      Op("receive_pack", "POST", <<Name("owner"), Name("repo"), Lit("git-receive-pack")>>, "none", "none")>>

\* builtin_preset: what the Connection may keep.
PresetOperations(name) ==
    CASE name = "github-pat" -> GithubOperations
      [] name = "github-oauth" -> SelectSeq(GithubOperations, LAMBDA o : o.name # "graphql")
      [] name = "google-drive" -> DriveOperations
      [] name = "google-gmail" -> GmailOperations
      [] name = "google-calendar" -> CalendarOperations
      [] name = "slack" -> SlackOperations
      [] name = "notion" -> NotionOperations
      [] name \in {"anthropic", "glm"} -> AnthropicOperations(name)
      [] name = "openai" -> OpenAiOperations
      [] name \in {"deepseek", "moonshot", "qwen", "openrouter", "gemini"} -> ChatOperations(name)
      [] name = "glm-responses" -> ResponsesOperations
      [] name = "github-git" -> GitOperations
      [] OTHER -> <<>>

OAuthPreset == {"google-drive", "google-gmail", "google-calendar", "github-oauth", "slack", "notion"}
LlmPreset == {"anthropic", "openai", "glm", "glm-responses", "deepseek", "moonshot", "qwen",
              "openrouter", "gemini"}

\* connection_llm_protocol: the table the ceiling and the settlement read.
LlmProtocol(path) ==
    CASE path \in {<<"v1", "messages">>, <<"api", "anthropic", "v1", "messages">>} -> "messages"
      [] path = <<"v1", "messages", "count_tokens">> -> "count"
      [] path \in {<<"v1", "chat", "completions">>, <<"api", "v1", "chat", "completions">>,
                   <<"compatible-mode", "v1", "chat", "completions">>,
                   <<"v1beta", "openai", "chat", "completions">>} -> "chat"
      [] path \in {<<"v1", "responses">>, <<"api", "v1", "responses">>} -> "responses"
      [] path = <<"v1", "embeddings">> -> "embeddings"
      [] path \in {<<"v1", "models">>, <<"api", "v1", "models">>,
                   <<"v1beta", "openai", "models">>} -> "models"
      [] OTHER -> "none"

(***************************************************************************)
(* evaluate_connection.                                                    *)
(***************************************************************************)
\* operation_path_matches.
OperationMatches(pattern, path) ==
    /\ Len(pattern) = Len(path)
    /\ \A i \in DOMAIN path : pattern[i].kind = "named" \/ pattern[i].text = path[i]

FirstOf(found) == IF found = {} THEN 0 ELSE Min(found)

\* The operation the scopes of an OAuth call are taken from: the first of that
\* method whose path matches.
Declared(method, path) ==
    FirstOf({i \in DOMAIN operations :
                operations[i].method = method /\ OperationMatches(operations[i].path, path)})

\* The operation a generic call is: the same path to the letter, or by its form
\* for git.
Matching(method, path) ==
    FirstOf({i \in DOMAIN operations :
                /\ operations[i].method = method
                /\ \/ preset = "github-git" /\ OperationMatches(operations[i].path, path)
                   \/ operations[i].path = [k \in DOMAIN path |-> Lit(path[k])]})

\* The checks before the rules: an OAuth call needs a declared operation whose
\* scopes are granted; LLM and git Connections expose what they declare.
Admitted(method, path) ==
    /\ preset \in OAuthPreset =>
          /\ Declared(method, path) # 0
          /\ operations[Declared(method, path)].needs \in scopes
    /\ preset \in LlmPreset \cup {"github-git"} => Matching(method, path) # 0

\* How a call is classed: by its method, or as a read when the operation it is
\* (the named one, otherwise the matching one) says so.  graphql_read accepts a
\* document of queries only.
MethodClass(named, method, path, queries) ==
    LET at == IF named # 0 THEN named ELSE Matching(method, path)
        read == IF at = 0 THEN "none" ELSE operations[at].read
    IN IF \/ method = "GET"
          \/ method = "POST" /\ read = "fixed"
          \/ method = "POST" /\ read = "graphql" /\ queries
       THEN "read" ELSE "write"

\* normalize_call renders a named operation's path from its arguments; the
\* values stand for any slug, among them words the provider's paths use.
Rendered(operation) ==
    {[i \in DOMAIN operation.path |->
        IF operation.path[i].kind = "named" THEN v[i] ELSE operation.path[i].text] :
     v \in [DOMAIN operation.path -> {"v", "send"}]}

(***************************************************************************)
(* Editing a Connection.                                                   *)
(***************************************************************************)
Init ==
    /\ preset \in PresetName
    /\ rules = {} /\ overrides = {} /\ operations = <<>> /\ scopes = {}

NextId == Cardinality(rules \cup overrides) + 1

NewRules ==
    {[id |-> NextId, class |-> c, methods |-> m, path |-> p, effect |-> e] :
        <<c, m>> \in {<<"read", {}>>, <<"none", {"POST"}>>},
        p \in Pattern, e \in Effect}

\* Connection.validate: ids are unique among all rules, and a named segment has
\* its binding.
NamesBound(r) ==
    \A i \in DOMAIN r.path : r.path[i].kind = "named" => r.path[i].text \in DOMAIN Bindings

AddRule ==
    /\ Cardinality(rules) < MaxRules /\ overrides = {}
    /\ \E r \in NewRules : NamesBound(r) /\ rules' = rules \cup {r}
    /\ UNCHANGED <<preset, overrides, operations, scopes>>

AddOverride ==
    /\ Cardinality(overrides) < MaxOverrides
    /\ \E r \in NewRules : NamesBound(r) /\ overrides' = overrides \cup {r}
    /\ UNCHANGED <<preset, rules, operations, scopes>>

\* validate_oauth_connection: an operation must be the preset's own, under a
\* name of its own, in any order.
KeepOperation ==
    /\ Len(operations) < MaxOperations
    /\ \E i \in DOMAIN PresetOperations(preset) :
          LET o == PresetOperations(preset)[i]
          IN /\ \A k \in DOMAIN operations : operations[k].name # o.name
             /\ operations' = Append(operations, o)
    /\ UNCHANGED <<preset, rules, overrides, scopes>>

\* The scopes of an OAuth binding are among those its preset's operations need.
GrantScope ==
    /\ preset \in OAuthPreset /\ operations # <<>>
    /\ \E i \in DOMAIN PresetOperations(preset) :
          /\ PresetOperations(preset)[i].needs \notin scopes
          /\ scopes' = scopes \cup {PresetOperations(preset)[i].needs}
    /\ UNCHANGED <<preset, rules, overrides, operations>>

Next == AddRule \/ AddOverride \/ KeepOperation \/ GrantScope

Spec == Init /\ [][Next]_vars

(***************************************************************************)
(* Properties.                                                             *)
(***************************************************************************)
TypeOK ==
    /\ preset \in PresetName
    /\ \A r \in rules \cup overrides :
          r.id \in Nat /\ r.path \in Pattern /\ r.effect \in Effect
    /\ \A i, k \in DOMAIN operations : operations[i].name = operations[k].name => i = k

Calls == {<<"GET", "read">>, <<"POST", "read">>, <<"POST", "write">>} \X Path

\* A deny that matches decides, whatever else does and however specific it is:
\* for the caller's own rules as for the Connection's.
DenyIsAbsolute ==
    \A call \in Calls : \A r \in rules \cup overrides :
        r.effect = "deny" /\ RuleMatches(r, call[1][1], call[1][2], call[2])
            => Decide(call[1][1], call[1][2], call[2]) = "deny"

\* A caller label never grants: without the caller's rules the decision would
\* have been as lenient, and nothing is allowed that no rule of the Connection
\* allows.
CallersOnlyTighten ==
    \A call \in Calls :
        LET base == Chosen(rules, call[1][1], call[1][2], call[2])
            alone == IF base = {} THEN "deny" ELSE (CHOOSE r \in base : TRUE).effect
        IN Rank(Decide(call[1][1], call[1][2], call[2])) >= Rank(alone)

Language(pattern) == {p \in Path : PatternMatches(pattern, p)}
Plain(pattern) == CountKind(pattern, "named") = 0

\* A rule never loses to one whose paths include all of its own and more: the
\* counting of segments agrees with what patterns mean (patterns of literals
\* and wildcards; a named segment counts less than the literal it may stand
\* for).
NarrowerRuleWins ==
    \A call \in Calls : \A r \in Chosen(rules, call[1][1], call[1][2], call[2]) :
        \A s \in rules :
            /\ RuleMatches(s, call[1][1], call[1][2], call[2])
            /\ r.effect # "deny" /\ Plain(r.path) /\ Plain(s.path)
            => ~(Language(s.path) \subseteq Language(r.path)
                    /\ Language(s.path) # Language(r.path))

\* An OAuth operation is let through only with the scope it needs, although
\* the scopes are looked up from the path: no other operation of the preset
\* answers for it, in whatever order they are kept.
ScopeCoversOperation ==
    preset \in OAuthPreset =>
        \A i \in DOMAIN operations : \A path \in Rendered(operations[i]) :
            Admitted(operations[i].method, path) => operations[i].needs \in scopes

\* Every operation of a built-in LLM preset that sends a request body is known
\* to the table that caps and settles it, by the path it is sent to.
GenerationIsCapped ==
    preset \in LlmPreset =>
        \A i \in DOMAIN operations : \A path \in Rendered(operations[i]) :
            Admitted(operations[i].method, path) =>
                LlmProtocol(path) # "none"
                /\ (operations[i].method = "POST" => LlmProtocol(path) # "models")

\* What is classed a read is a GET, or an operation that was declared one: a
\* push, a mutation or a write of the same path never is.
ReadsAreDeclared ==
    \A i \in DOMAIN operations : \A path \in Rendered(operations[i]) :
        /\ MethodClass(i, operations[i].method, path, FALSE) = "read"
              => operations[i].method = "GET" \/ operations[i].read = "fixed"
        /\ (preset = "github-git" /\ operations[i].name = "receive_pack")
              => MethodClass(0, operations[i].method, path, TRUE) = "write"
=============================================================================
