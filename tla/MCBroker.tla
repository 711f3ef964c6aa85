------------------------------ MODULE MCBroker ------------------------------
(***************************************************************************)
(* Instances of Broker for TLC.                                            *)
(***************************************************************************)
EXTENDS Broker, TLC

CONSTANTS s1, e1, e2, c1

\* One session with one profile-metered execution.
SoloExec == {e1}
SoloSessionOf == [e \in {e1} |-> s1]
SoloConnectionOf == [e \in {e1} |-> c1]
SoloMetered == {e1}
NoExec == {}

\* One Connection execution that refreshes an OAuth grant first.
LocalSessionOf == [e \in {e1} |-> NoSession]

\* A session execution and a Connection execution side by side.
PairExec == {e1, e2}
PairSessionOf == [e \in {e1, e2} |-> IF e = e1 THEN s1 ELSE NoSession]
PairConnectionOf == [e \in {e1, e2} |-> c1]
PairOAuth == {e2}

=============================================================================
