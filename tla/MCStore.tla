------------------------------ MODULE MCStore ------------------------------
(***************************************************************************)
(* A small instance of Store.  Two kinds of incident, so that one counts   *)
(* for every figure of the dashboard and the other for the total alone.    *)
(***************************************************************************)
EXTENDS Store

CONSTANTS r1, r2

Reported ==
    {[severity |-> "high", attack_type |-> "sqli", client_ip |-> "10.0.0.1", today |-> TRUE, acknowledged |-> FALSE],
     [severity |-> "low", attack_type |-> "", client_ip |-> "", today |-> FALSE, acknowledged |-> FALSE]}

(* One reader asks for every page, and one for a list beside it: their       *)
(* queries contend with each other and with the writers for the connection.  *)
TwoAsks == [r \in {r1, r2} |-> IF r = r1 THEN Requests ELSE {<<"blacklist">>}]
=============================================================================
