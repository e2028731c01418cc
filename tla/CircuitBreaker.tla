--------------------------- MODULE CircuitBreaker ---------------------------
(***************************************************************************)
(* What the circuit breaker of krsna-circuit-breaker promises to a caller, *)
(* with its four locks erased: is_request_allowed and record_success each  *)
(* happen at one instant, and a record_failure that reaches the threshold  *)
(* happens at three: it looks at the clock, restarts the recovery timeout  *)
(* from that time and opens the breaker, and time and other calls may pass *)
(* in between.                                                             *)
(*                                                                         *)
(* CircuitBreakerLocks is the same code with its locks, and implements     *)
(* this specification.                                                     *)
(***************************************************************************)
EXTENDS BreakerConfig

VARIABLES
    config,         (* BreakerConfig, fixed when the breaker is built        *)
    state,
    failure_count,
    success_count,
    last_failure,   (* None, or the seconds elapsed since the last failure   *)
                    (* that reached the threshold; it stops growing one      *)
                    (* second after the recovery timeout                     *)
    stamp,          (* the age of the Instant of a failure that has reached  *)
                    (* the threshold and has yet to store it, or None        *)
    tripping,       (* 1: there is such a failure; 2: it has restarted the   *)
                    (* timeout, and has yet to set the state                 *)
    verdict,        (* the latest answer of is_request_allowed               *)
    count_lost      (* history: a success recorded while Open has zeroed     *)
                    (* failure_count since the breaker last tripped          *)

vars == <<config, state, failure_count, success_count, last_failure, stamp,
          tripping, verdict, count_lost>>

State == {"Closed", "Open", "HalfOpen"}

Init ==
    /\ config \in Configs
    /\ state = "Closed"
    /\ failure_count = 0
    /\ success_count = 0
    /\ last_failure = None
    /\ stamp = None
    /\ tripping = 0
    /\ verdict = TRUE
    /\ count_lost = FALSE

(* time.elapsed() > Duration::from_secs(recovery_timeout_secs) *)
TimeoutElapsed ==
    /\ last_failure # None
    /\ last_failure > config.recovery_timeout_secs

(* successes < self.config.half_open_max_requests *)
ProbesWanted == success_count < config.half_open_max_requests

-----------------------------------------------------------------------------
(* is_request_allowed: one action per way out of it. *)

AllowClosed ==
    /\ state = "Closed"
    /\ verdict' = TRUE
    /\ UNCHANGED <<config, state, failure_count, success_count, last_failure,
                   stamp, tripping, count_lost>>

Refuse ==
    /\ state = "Open"
    /\ ~TimeoutElapsed
    /\ verdict' = FALSE
    /\ UNCHANGED <<config, state, failure_count, success_count, last_failure,
                   stamp, tripping, count_lost>>

StartProbing ==
    /\ state = "Open"
    /\ TimeoutElapsed
    /\ state' = "HalfOpen"
    /\ success_count' = 0
    /\ verdict' = TRUE
    /\ UNCHANGED <<config, failure_count, last_failure, stamp, tripping, count_lost>>

AllowProbe ==
    /\ state = "HalfOpen"
    /\ ProbesWanted
    /\ verdict' = TRUE
    /\ UNCHANGED <<config, state, failure_count, success_count, last_failure,
                   stamp, tripping, count_lost>>

CloseWhenAsked ==
    /\ state = "HalfOpen"
    /\ ~ProbesWanted
    /\ tripping = 0
    /\ state' = "Closed"
    /\ failure_count' = 0
    /\ verdict' = TRUE
    /\ UNCHANGED <<config, success_count, last_failure, stamp, tripping, count_lost>>

IsRequestAllowed ==
    AllowClosed \/ Refuse \/ StartProbing \/ AllowProbe \/ CloseWhenAsked

-----------------------------------------------------------------------------
(* record_success *)

CountSuccess ==
    /\ state = "HalfOpen"
    /\ success_count + 1 < config.half_open_max_requests
    /\ success_count' = success_count + 1
    /\ UNCHANGED <<config, state, failure_count, last_failure, stamp, tripping, verdict,
                   count_lost>>

CloseOnSuccess ==
    /\ state = "HalfOpen"
    /\ success_count + 1 >= config.half_open_max_requests
    /\ tripping = 0
    /\ state' = "Closed"
    /\ failure_count' = 0
    /\ success_count' = 0
    /\ UNCHANGED <<config, last_failure, stamp, tripping, verdict, count_lost>>

(* The else branch is taken when Closed and also when Open: a success that  *)
(* arrives late, after the breaker opened, forgets the failures counted.    *)
ForgetFailures ==
    /\ state # "HalfOpen"
    /\ tripping = 0
    /\ failure_count' = 0
    /\ IF state = "Open" THEN count_lost' = TRUE ELSE UNCHANGED count_lost
    /\ UNCHANGED <<config, state, success_count, last_failure, stamp, tripping, verdict>>

RecordSuccess == CountSuccess \/ CloseOnSuccess \/ ForgetFailures

-----------------------------------------------------------------------------
(* record_failure *)

CountFailure ==
    /\ tripping = 0
    /\ failure_count + 1 < config.failure_threshold
    /\ failure_count' = failure_count + 1
    /\ UNCHANGED <<config, state, success_count, last_failure, stamp, tripping, verdict,
                   count_lost>>

(* Instant::now() *)
ReachThreshold ==
    /\ tripping = 0
    /\ failure_count + 1 >= config.failure_threshold
    /\ failure_count' = failure_count + 1
    /\ stamp' = 0
    /\ tripping' = 1
    /\ UNCHANGED <<config, state, success_count, last_failure, verdict, count_lost>>

RestartTimeout ==
    /\ tripping = 1
    /\ last_failure' = stamp
    /\ stamp' = None
    /\ tripping' = 2
    /\ UNCHANGED <<config, state, failure_count, success_count, verdict, count_lost>>

Trip ==
    /\ tripping = 2
    /\ state' = "Open"
    /\ tripping' = 0
    /\ count_lost' = FALSE
    /\ UNCHANGED <<config, failure_count, success_count, last_failure, stamp, verdict>>

RecordFailure == CountFailure \/ ReachThreshold \/ RestartTimeout \/ Trip

-----------------------------------------------------------------------------
(* A second passes; past the timeout the exact age no longer matters. *)
Older(age) == IF age # None /\ age <= config.recovery_timeout_secs THEN age + 1 ELSE age

Tick ==
    /\ last_failure' = Older(last_failure)
    /\ stamp' = Older(stamp)
    /\ UNCHANGED <<config, state, failure_count, success_count, tripping, verdict,
                   count_lost>>

Next == IsRequestAllowed \/ RecordSuccess \/ RecordFailure \/ Tick

Spec == Init /\ [][Next]_vars

-----------------------------------------------------------------------------
TypeOK ==
    /\ config \in Configs
    /\ state \in State
    /\ failure_count \in Nat
    /\ success_count \in Nat
    /\ last_failure \in Nat \cup {None}
    /\ stamp \in Nat \cup {None}
    /\ tripping \in {0, 1, 2}
    /\ verdict \in BOOLEAN
    /\ count_lost \in BOOLEAN

(* A breaker that has left Closed has a recovery timeout running, so it can *)
(* always leave Open again (is_request_allowed stays in Open for ever when  *)
(* last_failure is None).                                                   *)
OpenHasTimeout == state # "Closed" \/ tripping = 2 => last_failure # None

(* A breaker that has seen failure_threshold failures in a row is not still *)
(* Closed: the failure that reaches the threshold opens it before any other *)
(* failure is counted, and every way of closing it clears the count.        *)
ClosedBelowThreshold ==
    state = "Closed" /\ tripping = 0 =>
        failure_count = 0 \/ failure_count < config.failure_threshold

(* In HalfOpen the very next failure reopens the breaker, because the count *)
(* that opened it is still there, unless a success that arrived while it    *)
(* was Open has erased that count.                                          *)
HalfOpenReopensOnFailure ==
    state = "HalfOpen" =>
        failure_count >= config.failure_threshold \/ count_lost

Safety == OpenHasTimeout /\ ClosedBelowThreshold /\ HalfOpenReopensOnFailure
=============================================================================
