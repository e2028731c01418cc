----------------------------- MODULE BreakerConfig -----------------------------
(***************************************************************************)
(* The parameters of a circuit breaker, for the specification of what it   *)
(* promises and for the one with its locks.                                *)
(***************************************************************************)
EXTENDS Naturals

CONSTANTS Configs,   (* the BreakerConfig values a breaker may be built with *)
          None       (* Option::None, and a lock that nobody holds           *)

ASSUME ConfigsAssumption ==
    Configs \subseteq [failure_threshold      : Nat,
                       recovery_timeout_secs  : Nat,
                       half_open_max_requests : Nat]

ASSUME NoneAssumption == None \notin Nat
=============================================================================
