------------------------------ MODULE MCProxy ------------------------------
(* Small instances of Proxy. *)
EXTENDS Proxy

CONSTANTS attack, post, get, c1, c2

File(p, b, t) == [posture |-> p, limited |-> TRUE, burst |-> b, trusted |-> t, upstream |-> "a"]
Update(p, t, u) == [posture |-> p, limited |-> None, trusted |-> t, upstream |-> u]

(* Records: a request that a rule matches and one that none does, in one row *)
(* of the table, from a client that is let through, limited or trusted.  A   *)
(* burst of 10 and one of 0 are all a new limiter can tell apart.            *)
TwoRequests == [r \in {attack, get} |-> c1]
RecordFiles == {File("Monitor", 10, {}), File("Standard", 0, {}), File("Standard", 10, {c1})}

(* Configuration: one POST against two calls, with an update that trusts its *)
(* client and one that is found to be invalid.                               *)
OneRequest == [r \in {post} |-> c1]
ConfigFiles == {File("Monitor", 10, {}), File("UnderAttack", 10, {})}
ConfigUpdates == {Update(None, {c1}, "b"), Update("invalid", {c1}, "b")}

(* Requests of one client, none of which a rule matches, for the limiter. *)
OneClient == [r \in {attack, post, get} |-> c1]
BurstOf1 == {File("Standard", 1, {})}

MonitorFile == {File("Monitor", 10, {})}
=============================================================================
