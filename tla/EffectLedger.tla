---------------------------- MODULE EffectLedger ----------------------------
(***************************************************************************)
(* What the broker promises of an execution, whatever happens inside it: a *)
(* started row, then at most some requests to endpoints, then one terminal *)
(* row that is true to them and after which nothing is sent, then perhaps  *)
(* an answer.  Broker implements it.                                       *)
(***************************************************************************)
EXTENDS Sequences

CONSTANTS Exec, Endpoint

VARIABLES rows,      \* the durable rows of each execution
          reached,   \* the endpoints that received a request of it
          told       \* executions whose caller was told of success

ledger == <<rows, reached, told>>

Init ==
    /\ rows = [e \in Exec |-> <<>>]
    /\ reached = [e \in Exec |-> {}]
    /\ told = {}

Started(e) == rows[e] = <<"started">>

Start(e) ==
    /\ rows[e] = <<>> /\ rows' = [rows EXCEPT ![e] = <<"started">>]
    /\ UNCHANGED <<reached, told>>

Contact(e, endpoint) ==
    /\ Started(e) /\ reached' = [reached EXCEPT ![e] = @ \cup {endpoint}]
    /\ UNCHANGED <<rows, told>>

\* What a terminal row may say of the endpoints.
True(e, row) ==
    \/ row = "indeterminate"
    \/ row = "blocked" /\ reached[e] = {}
    \/ row = "finished" /\ "target" \in reached[e]

Terminate(e, row) ==
    /\ Started(e) /\ True(e, row)
    /\ rows' = [rows EXCEPT ![e] = <<"started", row>>]
    /\ UNCHANGED <<reached, told>>

\* The next start of the process closes what the last one left open.
Abandon ==
    /\ rows' = [e \in Exec |-> IF Started(e) THEN <<"started", "indeterminate">> ELSE rows[e]]
    /\ UNCHANGED <<reached, told>>

Tell(e) ==
    /\ rows[e] = <<"started", "finished">> /\ told' = told \cup {e}
    /\ UNCHANGED <<rows, reached>>

Next ==
    \/ \E e \in Exec :
          \/ Start(e) \/ Tell(e)
          \/ \E endpoint \in Endpoint : Contact(e, endpoint)
          \/ \E row \in {"blocked", "indeterminate", "finished"} : Terminate(e, row)
    \/ Abandon

Spec == Init /\ [][Next]_ledger
=============================================================================
