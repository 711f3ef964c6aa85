--------------------------- MODULE ExecutorSuite ---------------------------
(***************************************************************************)
(* What the executor sends upstream and relays back, checked in one run:   *)
(* the transport (UpstreamTransport, extended), the binding of a request   *)
(* to what was approved, and the inspection of language model streams.     *)
(* They share no state here.  A behaviour runs the one `part' names; the   *)
(* others stay as they start.                                              *)
(***************************************************************************)
EXTENDS UpstreamTransport

CONSTANTS Parts

VARIABLES part,
    stage, request, shown, submitted,
    protocol, obs, seen, released, status

requestVars == <<stage, request, shown, submitted>>
streamVars == <<protocol, obs, seen, released, status>>
suiteVars == <<part, vars, requestVars, streamVars>>

\* Numbers written in several ways, one of them past the precision of a double.
T(m, e, plain) == [m |-> m, e |-> e, plain |-> plain]
Header(n, v) == [name |-> n, value |-> v]

Requests == INSTANCE RequestBinding WITH
    Tokens <- {T(1, 1, FALSE), T(10, 0, TRUE), T(21, 0, TRUE), T(20, 0, TRUE)}, Exact <- 20,
    Headers <- {Header("x-api-key", "v1"), Header("x-version", "v1"), Header("x-trace", "v1"),
                Header("X-Trace", "v1"), Header("x-trace", "v2")},
    ParamTexts <- {"1", "01", "a/b"}, MaxHeaders <- 2, Ceiling <- 2, Protocols <- {},
    Bodies <- FALSE, sent <- submitted
Models == INSTANCE RequestBinding WITH
    Tokens <- {T(1, 0, TRUE), T(10, -1, FALSE), T(3, 0, TRUE)}, Exact <- 20, Headers <- {},
    ParamTexts <- {"1"}, MaxHeaders <- 0, Ceiling <- 2,
    Protocols <- {"messages", "chat", "chat-max-tokens-only", "responses", "embeddings",
                  "count-tokens"},
    Bodies <- TRUE, sent <- submitted

\* Credentials split over the events of one block, of interleaved blocks and of
\* the parts of an item, some with an escape; one whose prefix repeats; the
\* usage of an answer.
Blocks == INSTANCE LlmStream WITH
    Protocols <- {"anthropic"}, Fragments <- {<<"a">>, <<"z", "z", "z", "z", "%">>, <<"b">>},
    Needles <- {<<"a", "b">>}, Hold <- 5, Index <- {0, 1}, Part <- {0}, Counts <- {}, MaxFrames <- 5
Chat == INSTANCE LlmStream WITH
    Protocols <- {"chat"}, Fragments <- {<<"a">>, <<"b", "z">>, <<"%">>},
    Needles <- {<<"a", "a", "b">>}, Hold <- 7, Index <- {0}, Part <- {0}, Counts <- {}, MaxFrames <- 5
Items == INSTANCE LlmStream WITH
    Protocols <- {"responses"}, Fragments <- {<<"z", "z", "z", "z", "a">>, <<"b">>},
    Needles <- {<<"a", "b">>}, Hold <- 5, Index <- {0}, Part <- {0, 1}, Counts <- {}, MaxFrames <- 4
Usage == INSTANCE LlmStream WITH
    Protocols <- {"anthropic", "chat", "responses"}, Fragments <- {<<"z">>},
    Needles <- {<<"a", "b">>}, Hold <- 5, Index <- {0}, Part <- {0}, Counts <- {1, 2}, MaxFrames <- 5

ASSUME /\ Requests!BoundsAssumption /\ Models!BoundsAssumption
       /\ Blocks!LlmStreamAssumption /\ Chat!LlmStreamAssumption /\ Items!LlmStreamAssumption
       /\ Usage!LlmStreamAssumption

-----------------------------------------------------------------------------
SuiteInit ==
    /\ part \in Parts
    /\ Init
    /\ part # "transport" =>
          kind = "buffered" /\ literal = FALSE /\ explicit = FALSE /\ prior = FALSE
    /\ IF part = "models" THEN Models!Init ELSE Requests!Init
    /\ CASE part = "chat" -> Chat!Init [] part = "items" -> Items!Init [] part = "usage" -> Usage!Init
         [] OTHER -> Blocks!Init

SuiteNext ==
    /\ part' = part
    /\ IF part = "transport" THEN Next ELSE UNCHANGED vars
    /\ CASE part = "requests" -> Requests!Next [] part = "models" -> Models!Next
         [] OTHER -> UNCHANGED requestVars
    /\ CASE part = "blocks" -> Blocks!Next [] part = "chat" -> Chat!Next
         [] part = "items" -> Items!Next [] part = "usage" -> Usage!Next
         [] OTHER -> UNCHANGED streamVars

SuiteSpec == SuiteInit /\ [][SuiteNext]_suiteVars

-----------------------------------------------------------------------------
\* A request sent under an approval is read by its service as the one that was
\* approved, though numbers, headers, content type and path can be written in
\* several ways; it is sent within its deadline; and a model request is
\* normalized once and asks for no more output than was signed.
SentAsApproved ==
    /\ part = "transport" => TypeOK /\ InTime
    /\ part = "requests" => /\ Requests!TypeOK /\ Requests!SentIsWhatWasApproved
                            /\ Requests!OneValuePerHeader /\ Requests!FidelityIsExact
    /\ part = "models" => Models!NormalizedOnce /\ Models!GenerationWithinCeiling

\* A credential in the stream of a language model is found when its last
\* character arrives, wherever its events were split and also in the text a
\* client joins from several parts; of one inside a single block, part or tool
\* call nothing was relayed before; the stream ends after its usage was settled
\* as reported.
StreamsAreInspected ==
    /\ part = "blocks" => Blocks!TypeOK /\ Blocks!FoundOnArrival /\ Blocks!NoPartOfItLeft
    /\ part = "chat" => Chat!TypeOK /\ Chat!FoundOnArrival /\ Chat!NoPartOfItLeft
    /\ part = "items" => Items!TypeOK /\ Items!FoundOnArrival /\ Items!NoPartOfItLeft
    /\ part = "usage" => Usage!EndWaitsForSettlement /\ Usage!ChargedAsReported
=============================================================================
