---------------------------- MODULE RequestBinding ----------------------------
(***************************************************************************)
(* What an approval of a request binds.  A caller composes a request for   *)
(* an action of a template; the policy canonicalizes it, the approval is   *)
(* given for the hash of the canonical form, and a later request is sent   *)
(* under the approval when its canonical form is the same.  For a language *)
(* model the body is also brought under the signed output ceiling.         *)
(*                                                                         *)
(* Numbers are decimal tokens m * 10^e as written, `plain` when written    *)
(* as an integer; a double keeps a mantissa up to Exact.  Texts are        *)
(* abstract.                                                               *)
(***************************************************************************)
EXTENDS Integers, Sequences, FiniteSets, SequencesExt

CONSTANTS
    Tokens,        \* the numbers callers write: [m, e, plain]
    Exact,         \* mantissas up to here survive the canonical encoding
    Headers,       \* the headers callers add: [name, value]
    ParamTexts,    \* the texts callers give for the path parameter
    MaxHeaders,    \* bound on the headers of a request
    Ceiling,       \* the signed output ceiling of one generation
    Protocols,     \* the language model protocols of this instance
    Bodies         \* TRUE: compose model bodies; FALSE: compose requests

BoundsAssumption ==
    /\ Exact \in Nat /\ MaxHeaders \in Nat /\ Ceiling \in Nat \ {0}
    /\ \A t \in Tokens : t.m \in Nat /\ t.e \in -1..1 /\ t.plain \in BOOLEAN
    /\ Bodies \in BOOLEAN

VARIABLES
    stage,      \* "compose", "approved" (a second request), "sent", "refused"
    request,    \* the request being composed
    shown,      \* the request the approval was given for
    sent        \* the request sent under it

vars == <<stage, request, shown, sent>>

Absent == "absent"
NoToken == [m |-> 0, e |-> 0, plain |-> FALSE]

-----------------------------------------------------------------------------
(* Numbers. *)

\* The value of a token, in tenths.
Tenths(t) == t.m * 10^(t.e + 1)

\* The zeros at the end of the digits of m.
Zeros(m) == IF m % 100 = 0 THEN 2 ELSE IF m % 10 = 0 THEN 1 ELSE 0

\* What the canonical encoding makes of a token: the nearest double, written
\* shortest.  A double keeps significant digits up to Exact.
Canonical(t) ==
    LET kept == t.m \div 10^Zeros(t.m)
        near == IF kept <= Exact THEN kept ELSE 2 * (kept \div 2)
        tenths == near * 10^(Zeros(t.m) + t.e + 1)
    IN  IF tenths % 10 = 0 THEN [m |-> tenths \div 10, e |-> 0, plain |-> TRUE]
        ELSE [m |-> tenths, e |-> -1, plain |-> FALSE]

\* decimal_parts: significant digits and exponent, the same for every way to
\* write a value; zero has no exponent.
DecimalParts(t) ==
    IF t.m = 0 THEN [digits |-> 0, exponent |-> 0]
    ELSE [digits |-> t.m \div 10^Zeros(t.m), exponent |-> t.e + Zeros(t.m)]

\* ensure_json_number_fidelity: the canonical form is exactly what is written.
Faithful(t) == DecimalParts(t) = DecimalParts(Canonical(t))

-----------------------------------------------------------------------------
(* An action of a template, and what a caller may add to it. *)

AuthHeader == "x-api-key"
FixedHeaders == {"x-version"}
ExtraHeaders == {"x-trace", "x-note"}

Forbidden == {"host"}
Lowered(n) == IF n = "X-Trace" THEN "x-trace" ELSE n

\* The path has one parameter, an integer: "01" is another way to write "1".
NormalizedParam(p) == IF p = "01" THEN "1" ELSE p
ParamValid(p) == p \in {"1", "01", "2"}

JsonTypes == {"application/json", "APPLICATION/JSON", "application/json; charset=utf-8"}
Blank == " "
ContentTypes == JsonTypes \cup {Absent, Blank, "text/plain"}

\* normalize_content_type: JSON in several spellings, and without a body also
\* none or a blank one.
ContentTypeValid(ct, hasBody) ==
    \/ ct \in JsonTypes
    \/ ct \in {Absent, Blank} /\ ~hasBody
NormalizedContentType(ct) == IF ct \in JsonTypes THEN "application/json" ELSE Absent

NoRequest == [param |-> Absent, extra |-> FALSE, content |-> Absent,
              headers |-> <<>>, number |-> NoToken, body |-> FALSE]

\* A caller's header: in lower case, one the action lets callers set, none
\* of its own or the credential's, and no name twice.
HeaderAllowed(r, i) ==
    LET n == r.headers[i].name
    IN  /\ n = Lowered(n) /\ n \notin Forbidden
        /\ n \notin {AuthHeader, "authorization", "content-type"}
        /\ n \in ExtraHeaders
        /\ n \notin FixedHeaders \cup {r.headers[j].name : j \in 1..(i - 1)}

\* canonicalize_inner's refusals.
Accepted(r) ==
    /\ ParamValid(r.param) /\ ~r.extra
    /\ ContentTypeValid(r.content, r.body)
    /\ r.body => Faithful(r.number)
    /\ \A i \in DOMAIN r.headers : HeaderAllowed(r, i)

ActionHeaders == {[name |-> n, value |-> "fixed"] : n \in FixedHeaders}

EnvelopeWithoutHeaders(r) ==
    [path |-> NormalizedParam(r.param), content |-> NormalizedContentType(r.content),
     headers |-> ActionHeaders, body |-> r.body,
     number |-> IF r.body THEN DecimalParts(Canonical(r.number))
                          ELSE DecimalParts(NoToken)]

\* The envelope whose hash is approved.
Envelope(r) ==
    [path |-> NormalizedParam(r.param), content |-> NormalizedContentType(r.content),
     headers |-> ActionHeaders \cup ToSet(r.headers),
     body |-> r.body,
     number |-> IF r.body THEN DecimalParts(Canonical(r.number))
                          ELSE DecimalParts(NoToken)]

\* What reaches the service: the rendered path, every header, the content type
\* in the caller's spelling, and the bytes of the body, whose number the
\* service reads exactly.
ContentHeader(ct) == IF ct = Absent THEN {} ELSE {[name |-> "content-type", value |-> ct]}
OnTheWire(r) ==
    [path |-> NormalizedParam(r.param),
     headers |-> ContentHeader(r.content) \cup ActionHeaders
                   \cup {[name |-> Lowered(h.name), value |-> h.value] : h \in ToSet(r.headers)}
                   \cup {[name |-> AuthHeader, value |-> "credential"]},
     body |-> r.body,
     tenths |-> IF r.body THEN Tenths(r.number) ELSE 0]

\* The service, from what the code counts on: the spelling of a media type does
\* not matter to it, UTF-8 is what JSON is in, and a blank type is none.
AsRead(w) ==
    [w EXCEPT !.headers =
        {h \in @ : h.name # "content-type"}
            \cup UNION {ContentHeader(IF h.value \in JsonTypes THEN "application/json"
                                      ELSE IF h.value = Blank THEN Absent ELSE h.value) :
                           h \in {k \in @ : k.name = "content-type"}}]

-----------------------------------------------------------------------------
(* Bodies for a language model. *)

Flag == {Absent, "true", "false", "other"}
Num(t) == [kind |-> "number", token |-> t]
NoNum == [kind |-> Absent, token |-> NoToken]
Given(x) == x.kind # Absent

NoBody == [model |-> Absent, stream |-> Absent, background |-> Absent,
           n |-> NoNum, max_tokens |-> NoNum, max_completion_tokens |-> NoNum,
           max_output_tokens |-> NoNum]

CapFields == {"max_tokens", "max_completion_tokens", "max_output_tokens"}

\* as_u64: only a number written as a plain integer has one.
AsU64(x) == IF Given(x) /\ x.token.plain THEN {x.token.m} ELSE {}

GeneratingProtocol == {"messages", "chat", "chat-max-tokens-only", "responses"}

\* The field that carries the ceiling.  A provider that honours only
\* max_tokens gets that one.
CeilingField(p, b) ==
    CASE p = "messages" -> "max_tokens"
      [] p = "responses" -> "max_output_tokens"
      [] p = "chat-max-tokens-only" -> "max_tokens"
      [] OTHER -> IF Given(b.max_tokens) THEN "max_tokens"
                                         ELSE "max_completion_tokens"

\* What each protocol refuses besides the ceiling.
ProtocolAccepts(p, b) ==
    CASE p = "responses" -> b.background \in {Absent, "false"}
      [] p \in {"chat", "chat-max-tokens-only"} ->
            /\ ~Given(b.n) \/ AsU64(b.n) = {1}
            /\ Given(b.max_completion_tokens) =>
                  p = "chat" /\ ~Given(b.max_tokens)
      [] p \in {"embeddings", "count-tokens"} -> b.stream # "true"
      [] OTHER -> TRUE

\* normalize_profile_llm_body accepts the body.
BodyAccepted(p, b) ==
    /\ \A f \in CapFields \cup {"n"} : Given(b[f]) => Faithful(b[f].token)
    /\ b.model = "allowed"
    /\ b.stream \in {Absent, "true", "false"}
    /\ ProtocolAccepts(p, b)
    /\ p \in GeneratingProtocol /\ Given(b[CeilingField(p, b)]) =>
          \E v \in AsU64(b[CeilingField(p, b)]) : v \in 1..Ceiling

\* The output the budget is charged for in advance, and the body sent: the
\* caller's, with the ceiling added where it set none.
Reserved(p, b) ==
    IF Given(b[CeilingField(p, b)]) THEN b[CeilingField(p, b)].token.m ELSE Ceiling

Normalized(p, b) ==
    IF p \notin GeneratingProtocol \/ Given(b[CeilingField(p, b)]) THEN b
    ELSE [b EXCEPT ![CeilingField(p, b)] =
              Num([m |-> Ceiling, e |-> 0, plain |-> TRUE])]

\* The provider, from how the code treats it: how much it may generate.  A
\* cap it does not know, or none, leaves it unbounded.
Unbounded == 1000
CapOf(x) == IF Given(x) THEN Tenths(x.token) \div 10 ELSE Unbounded
LeastOf(a, b) == IF a <= b THEN a ELSE b
Generates(p, b) ==
    LET times == IF p \in {"chat", "chat-max-tokens-only"} /\ Given(b.n)
                 THEN Tenths(b.n.token) \div 10 ELSE 1
    IN  times * CASE p = "responses" -> CapOf(b.max_output_tokens)
                  [] p = "chat" -> LeastOf(CapOf(b.max_tokens),
                                           CapOf(b.max_completion_tokens))
                  [] OTHER -> CapOf(b.max_tokens)

-----------------------------------------------------------------------------
Init ==
    /\ stage = "compose"
    /\ request \in IF Bodies
                   THEN {[protocol |-> p, body |-> NoBody] : p \in Protocols}
                   ELSE {NoRequest}
    /\ shown = request /\ sent = request

Compose(r) ==
    /\ stage \in {"compose", "approved"} /\ request' = r
    /\ UNCHANGED <<stage, shown, sent>>

SetParam(p) == ~Bodies /\ request.param = Absent /\ Compose([request EXCEPT !.param = p])

\* A parameter or query key the template does not declare.
AddUndeclared == ~Bodies /\ ~request.extra /\ Compose([request EXCEPT !.extra = TRUE])

SetContent(ct) ==
    ~Bodies /\ request.content = Absent /\ Compose([request EXCEPT !.content = ct])

SetNumber(t) ==
    ~Bodies /\ ~request.body /\ Compose([request EXCEPT !.number = t, !.body = TRUE])

AddHeader(h) ==
    /\ ~Bodies /\ Len(request.headers) < MaxHeaders
    /\ Compose([request EXCEPT !.headers = Append(@, h)])

SetCap(f, t) ==
    /\ Bodies /\ request.body[f] = NoNum
    /\ Compose([request EXCEPT !.body[f] = Num(t)])

SetFlag(f, v) ==
    /\ Bodies /\ request.body[f] = Absent
    /\ Compose([request EXCEPT !.body[f] = v])

\* The first request is shown for approval; the caller then composes the one
\* it sends under it.
Ask ==
    /\ ~Bodies /\ stage = "compose" /\ Accepted(request)
    /\ stage' = "approved" /\ shown' = request /\ request' = NoRequest
    /\ UNCHANGED sent

Send ==
    /\ ~Bodies /\ stage = "approved"
    /\ Accepted(request) /\ Envelope(request) = Envelope(shown)
    /\ stage' = "sent" /\ sent' = request
    /\ UNCHANGED <<request, shown>>

Refuse ==
    /\ stage \in {"compose", "approved"}
    /\ IF Bodies THEN ~BodyAccepted(request.protocol, request.body)
       ELSE ~Accepted(request)
    /\ stage' = "refused"
    /\ UNCHANGED <<request, shown, sent>>

\* The body is normalized and sent.
SendBody ==
    /\ Bodies /\ stage = "compose"
    /\ BodyAccepted(request.protocol, request.body)
    /\ stage' = "sent"
    /\ sent' = [request EXCEPT !.body = Normalized(request.protocol, @)]
    /\ UNCHANGED <<request, shown>>

Next ==
    \/ \E p \in ParamTexts : SetParam(p)
    \/ AddUndeclared
    \/ \E ct \in ContentTypes : SetContent(ct)
    \/ \E t \in Tokens : SetNumber(t)
    \/ \E h \in Headers : AddHeader(h)
    \/ \E f \in CapFields \cup {"n"}, t \in Tokens : SetCap(f, t)
    \/ \E f \in {"stream", "background"}, v \in Flag : SetFlag(f, v)
    \/ \E v \in {"allowed", "other"} : SetFlag("model", v)
    \/ Ask \/ Send \/ Refuse \/ SendBody

Spec == Init /\ [][Next]_vars

-----------------------------------------------------------------------------
(* Properties. *)

\* The stages in their order; what is approved is an acceptable request.
TypeOK ==
    /\ stage \in {"compose", "approved", "sent", "refused"}
    /\ ~Bodies /\ stage = "approved" => Accepted(shown)

\* Whatever is sent under an approval is read by the service as the request
\* that was shown would have been: the canonical form loses the spelling of the
\* content type, which is sent as the caller wrote it, and nothing else the
\* service sees (canonicalize_inner, upstream_request).
SentIsWhatWasApproved ==
    ~Bodies /\ stage = "sent" => AsRead(OnTheWire(sent)) = AsRead(OnTheWire(shown))

\* No header has two values on the wire: a caller neither speaks for the
\* action or its credential nor sends a name twice.
OneValuePerHeader ==
    ~Bodies /\ stage = "sent" =>
        \A h, k \in OnTheWire(sent).headers : h.name = k.name => h = k

\* Every way to write a number the policy accepts as faithful, and only
\* those: the comparison of decimal parts is exact.
FidelityIsExact ==
    ~Bodies /\ request.body =>
        (Faithful(request.number)
            <=> Tenths(request.number) = Tenths(Canonical(request.number)))

\* A generation never produces more than the signed ceiling, and exactly what
\* the budget reserves for it bounds it, as the provider reads the body.
GenerationWithinCeiling ==
    Bodies /\ stage = "sent" /\ sent.protocol \in GeneratingProtocol =>
        /\ Generates(sent.protocol, sent.body) <= Ceiling
        /\ Generates(sent.protocol, sent.body) = Reserved(sent.protocol, sent.body)

\* Normalizing what was sent once more changes nothing: a retry of the
\* effective request is the same request.
NormalizedOnce ==
    Bodies /\ stage = "sent" =>
        /\ BodyAccepted(sent.protocol, sent.body)
        /\ Normalized(sent.protocol, sent.body) = sent.body
=============================================================================
