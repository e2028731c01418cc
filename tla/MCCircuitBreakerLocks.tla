----------------------- MODULE MCCircuitBreakerLocks -----------------------
(* Small instances of CircuitBreakerLocks. *)
EXTENDS CircuitBreakerLocks

Config(threshold, timeout, halfOpenMax) ==
    [failure_threshold |-> threshold, recovery_timeout_secs |-> timeout,
     half_open_max_requests |-> halfOpenMax]

(* A threshold above and one at 1, a half-open phase of several probes, of  *)
(* one, and of none: with half_open_max_requests = 0 the breaker closes in  *)
(* is_request_allowed, which it never does otherwise.                       *)
MCConfigs == {Config(2, 1, 2), Config(1, 0, 1), Config(2, 0, 0)}
=============================================================================
