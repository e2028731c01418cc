------------------------ MODULE CircuitBreakerLocks ------------------------
(***************************************************************************)
(* krsna-circuit-breaker as it is written: each field of CircuitBreaker is *)
(* behind a tokio RwLock of its own, and a call takes them one at a time,  *)
(* waiting at each .await.  A step of this specification is what a call    *)
(* does from one lock it was waiting for to the next.                      *)
(*                                                                         *)
(* is_request_allowed and record_success take state, then failure_count;   *)
(* record_failure takes failure_count, then state.                         *)
(*                                                                         *)
(* A read lock is modelled as exclusive: last_failure and success_count    *)
(* are read only by a call that holds state for writing, so no two calls   *)
(* ever read one of them together.                                         *)
(***************************************************************************)
EXTENDS BreakerConfig, FiniteSets

CONSTANTS Callers,      (* the tasks that share the breaker                  *)
          MaxFailures   (* bound: no failure is recorded past this count     *)

ASSUME CallersAssumption == None \notin Callers

ASSUME MaxFailuresAssumption == MaxFailures \in Nat

VARIABLES
    config, state, failure_count, success_count, last_failure,
    stamp,          (* the Instant record_failure has yet to store, as an age *)
    held,           (* the caller that holds each RwLock, or None            *)
    pc,             (* the .await each caller waits at                       *)
    verdict,        (* the latest answer of is_request_allowed               *)
    count_lost      (* history: see CircuitBreaker                           *)

vars == <<config, state, failure_count, success_count, last_failure, stamp, held, pc,
          verdict, count_lost>>

Locks == {"state", "failure_count", "success_count", "last_failure"}

(* Where a call can be waiting, and for which lock. *)
Wants == [ allow         |-> "state",
           allow_open    |-> "last_failure",
           allow_probing |-> "success_count",
           allow_half    |-> "success_count",
           allow_close   |-> "failure_count",
           success       |-> "state",
           success_half  |-> "success_count",
           success_close |-> "failure_count",
           success_else  |-> "failure_count",
           failure       |-> "failure_count",
           failure_stamp |-> "last_failure",
           failure_trip  |-> "state" ]

Awaits == DOMAIN Wants

HoldsState == {"allow_open", "allow_probing", "allow_half", "allow_close",
               "success_half", "success_close", "success_else"}
HoldsFailureCount == {"failure_stamp", "failure_trip"}

Init ==
    /\ config \in Configs
    /\ state = "Closed"
    /\ failure_count = 0
    /\ success_count = 0
    /\ last_failure = None
    /\ stamp = None
    /\ held = [l \in Locks |-> None]
    /\ pc = [p \in Callers |-> "idle"]
    /\ verdict = TRUE
    /\ count_lost = FALSE

TimeoutElapsed ==
    /\ last_failure # None
    /\ last_failure > config.recovery_timeout_secs

ProbesWanted == success_count < config.half_open_max_requests

-----------------------------------------------------------------------------
(* The caller waits at `from`, the lock it wants there is free, and it goes *)
(* on to wait at `to`.                                                      *)
Step(p, from, to) ==
    /\ pc[p] = from
    /\ held[Wants[from]] = None
    /\ pc' = [pc EXCEPT ![p] = to]

(* It keeps the lock it waited for until it returns. *)
Keep(p, from) == held' = [held EXCEPT ![Wants[from]] = p]

(* It returns: every guard it owns is dropped. *)
Return(p, from) ==
    /\ Step(p, from, "idle")
    /\ held' = [l \in Locks |-> IF held[l] = p THEN None ELSE held[l]]

Call(p, op) ==
    /\ pc[p] = "idle"
    /\ pc' = [pc EXCEPT ![p] = op]
    /\ UNCHANGED <<config, state, failure_count, success_count, last_failure, stamp, held,
                   verdict, count_lost>>

-----------------------------------------------------------------------------
(* is_request_allowed *)

Allow(p) ==
    \/ /\ state = "Closed"
       /\ Return(p, "allow")
       /\ verdict' = TRUE
       /\ UNCHANGED <<config, state, failure_count, success_count, last_failure, stamp,
                      count_lost>>
    \/ /\ state # "Closed"
       /\ Step(p, "allow", IF state = "Open" THEN "allow_open" ELSE "allow_half")
       /\ Keep(p, "allow")
       /\ UNCHANGED <<config, state, failure_count, success_count, last_failure, stamp, verdict,
                      count_lost>>

(* The guard of last_failure.read() lives to the end of the if let. *)
AllowOpen(p) ==
    \/ /\ TimeoutElapsed
       /\ Step(p, "allow_open", "allow_probing")
       /\ Keep(p, "allow_open")
       /\ state' = "HalfOpen"
       /\ UNCHANGED <<config, failure_count, success_count, last_failure, stamp, verdict,
                      count_lost>>
    \/ /\ ~TimeoutElapsed
       /\ Return(p, "allow_open")
       /\ verdict' = FALSE
       /\ UNCHANGED <<config, state, failure_count, success_count, last_failure, stamp,
                      count_lost>>

(* Mutant of AllowProbing: the probes of an earlier half-open phase still count. *)
AllowProbingKeepsCount(p) ==
    /\ Return(p, "allow_probing")
    /\ verdict' = TRUE
    /\ UNCHANGED <<config, state, failure_count, success_count, last_failure, stamp,
                   count_lost>>

AllowProbing(p) ==
    /\ Return(p, "allow_probing")
    /\ success_count' = 0
    /\ verdict' = TRUE
    /\ UNCHANGED <<config, state, failure_count, last_failure, stamp, count_lost>>

(* The guard of success_count.read() is dropped at once. *)
AllowHalf(p) ==
    \/ /\ ProbesWanted
       /\ Return(p, "allow_half")
       /\ verdict' = TRUE
       /\ UNCHANGED <<config, state, failure_count, success_count, last_failure, stamp,
                      count_lost>>
    \/ /\ ~ProbesWanted
       /\ Step(p, "allow_half", "allow_close")
       /\ state' = "Closed"
       /\ UNCHANGED <<config, failure_count, success_count, last_failure, stamp, held, verdict,
                      count_lost>>

AllowClose(p) ==
    /\ Return(p, "allow_close")
    /\ failure_count' = 0
    /\ verdict' = TRUE
    /\ UNCHANGED <<config, state, success_count, last_failure, stamp, count_lost>>

-----------------------------------------------------------------------------
(* record_success *)

Success(p) ==
    /\ Step(p, "success", IF state = "HalfOpen" THEN "success_half" ELSE "success_else")
    /\ Keep(p, "success")
    /\ UNCHANGED <<config, state, failure_count, success_count, last_failure, stamp, verdict,
                   count_lost>>

SuccessHalf(p) ==
    /\ success_count' = success_count + 1
    /\ \/ /\ success_count + 1 < config.half_open_max_requests
          /\ Return(p, "success_half")
          /\ UNCHANGED state
       \/ /\ success_count + 1 >= config.half_open_max_requests
          /\ Step(p, "success_half", "success_close")
          /\ Keep(p, "success_half")
          /\ state' = "Closed"
    /\ UNCHANGED <<config, failure_count, last_failure, stamp, verdict, count_lost>>

SuccessClose(p) ==
    /\ Return(p, "success_close")
    /\ failure_count' = 0
    /\ success_count' = 0
    /\ UNCHANGED <<config, state, last_failure, stamp, verdict, count_lost>>

SuccessElse(p) ==
    /\ Return(p, "success_else")
    /\ failure_count' = 0
    /\ IF state = "Open" THEN count_lost' = TRUE ELSE UNCHANGED count_lost
    /\ UNCHANGED <<config, state, success_count, last_failure, stamp, verdict>>

-----------------------------------------------------------------------------
(* record_failure *)

(* The right side of an assignment comes first: the call looks at the clock *)
(* before it waits for last_failure.                                        *)
Failure(p) ==
    /\ failure_count' = failure_count + 1
    /\ \/ /\ failure_count + 1 < config.failure_threshold
          /\ Return(p, "failure")
          /\ UNCHANGED stamp
       \/ /\ failure_count + 1 >= config.failure_threshold
          /\ Step(p, "failure", "failure_stamp")
          /\ Keep(p, "failure")
          /\ stamp' = 0
    /\ UNCHANGED <<config, state, success_count, last_failure, verdict, count_lost>>

(* Mutant of FailureStamp: the guard of last_failure is bound to a name and *)
(* lives to the end of the call.                                            *)
FailureStampKeepsGuard(p) ==
    /\ Step(p, "failure_stamp", "failure_trip")
    /\ Keep(p, "failure_stamp")
    /\ last_failure' = stamp
    /\ stamp' = None
    /\ UNCHANGED <<config, state, failure_count, success_count, verdict, count_lost>>

FailureStamp(p) ==
    /\ Step(p, "failure_stamp", "failure_trip")
    /\ last_failure' = stamp
    /\ stamp' = None
    /\ UNCHANGED <<config, state, failure_count, success_count, held, verdict,
                   count_lost>>

FailureTrip(p) ==
    /\ Return(p, "failure_trip")
    /\ state' = "Open"
    /\ count_lost' = FALSE
    /\ UNCHANGED <<config, failure_count, success_count, last_failure, stamp, verdict>>

-----------------------------------------------------------------------------
Older(age) == IF age # None /\ age <= config.recovery_timeout_secs THEN age + 1 ELSE age

Tick ==
    /\ last_failure' = Older(last_failure)
    /\ stamp' = Older(stamp)
    /\ UNCHANGED <<config, state, failure_count, success_count, held, pc, verdict,
                   count_lost>>

(* The steps of a call that has begun. *)
Advance(p) ==
    \/ Allow(p) \/ AllowOpen(p) \/ AllowProbing(p) \/ AllowHalf(p) \/ AllowClose(p)
    \/ Success(p) \/ SuccessHalf(p) \/ SuccessClose(p) \/ SuccessElse(p)
    \/ Failure(p) \/ FailureStamp(p) \/ FailureTrip(p)

(* A caller begins any method at any time: nothing in the library ties a    *)
(* recorded result to an admitted request.                                  *)
CountingFailures == {p \in Callers : pc[p] = "failure"}

Begin(p) ==
    \/ Call(p, "allow")
    \/ Call(p, "success")
    \/ /\ failure_count + Cardinality(CountingFailures) < MaxFailures
       /\ Call(p, "failure")

Next == (\E p \in Callers : Begin(p) \/ Advance(p)) \/ Tick

Spec == Init /\ [][Next]_vars

(* A tokio RwLock serves its waiters in the order they came and a guard is  *)
(* dropped by the call that owns it, so a call is granted a lock that comes *)
(* free again and again.  Nothing makes a caller begin a call.              *)
FairSpec == Spec /\ \A p \in Callers : SF_vars(Advance(p))

-----------------------------------------------------------------------------
(* A caller is at one of the places in S. *)
At(S) == \E p \in Callers : pc[p] \in S

(* Each call takes effect when it writes the last field it changes; the     *)
(* fields it has already written are hidden by the locks it still holds.    *)
CB == INSTANCE CircuitBreaker WITH
        state <- IF At({"allow_probing"}) THEN "Open"
                 ELSE IF At({"allow_close", "success_close"}) THEN "HalfOpen"
                 ELSE state,
        success_count <- IF At({"success_close"}) THEN success_count - 1
                         ELSE success_count,
        tripping <- IF At({"failure_stamp"}) THEN 1 ELSE IF At({"failure_trip"}) THEN 2 ELSE 0

TypeOK ==
    /\ config \in Configs
    /\ state \in CB!State
    /\ failure_count \in Nat
    /\ success_count \in Nat
    /\ last_failure \in Nat \cup {None}
    /\ stamp \in Nat \cup {None}
    /\ held \in [Locks -> Callers \cup {None}]
    /\ pc \in [Callers -> Awaits \cup {"idle"}]
    /\ verdict \in BOOLEAN
    /\ count_lost \in BOOLEAN

(* The locked code behaves as the lock-free specification of the breaker.   *)
BreakerImplemented == CB!Spec

(* The three promises of the breaker, seen through the locks: a breaker out *)
(* of Closed has a recovery timeout running, one that reached the threshold *)
(* is no longer Closed, and one that is HalfOpen reopens on the next        *)
(* failure unless a late success erased the count.                          *)
BreakerSafety == CB!Safety

(* The inductive invariant behind them: who holds a lock is where it should *)
(* be, and what a call has found under a lock is still so when it goes on.  *)
LockInv ==
    \A p \in Callers :
        /\ pc[p] \in HoldsState <=> held["state"] = p
        /\ pc[p] \in HoldsFailureCount <=> held["failure_count"] = p
        /\ pc[p] = "allow_probing" <=> held["last_failure"] = p
        /\ pc[p] = "success_close" <=> held["success_count"] = p

PlaceInv ==
    \A p \in Callers :
        /\ pc[p] = "allow_open" => state = "Open"
        /\ pc[p] = "allow_probing" => state = "HalfOpen" /\ TimeoutElapsed
        /\ pc[p] \in {"allow_half", "success_half"} => state = "HalfOpen"
        /\ pc[p] = "allow_close" => state = "Closed" /\ ~ProbesWanted
        /\ pc[p] = "success_close" =>
               state = "Closed" /\ success_count > 0 /\ ~ProbesWanted
        /\ pc[p] = "success_else" => state # "HalfOpen"
        /\ pc[p] \in HoldsFailureCount =>
               failure_count > 0 /\ failure_count >= config.failure_threshold

Blocked(p) == pc[p] # "idle" /\ held[Wants[pc[p]]] # None

(* One call holds failure_count and wants state, another holds state and    *)
(* wants failure_count.                                                     *)
LockInversion ==
    \E p, q \in Callers :
        /\ pc[p] = "failure_trip"
        /\ held["failure_count"] = p
        /\ pc[q] \in {"allow_close", "success_close", "success_else"}
        /\ held["state"] = q

(* record_failure can deadlock with the two other methods, and that is the  *)
(* only way calls can block each other for good: when every call in flight  *)
(* waits for a lock, two of them have taken state and failure_count in      *)
(* opposite orders.                                                         *)
StuckOnlyByLockInversion ==
    LET InFlight == {p \in Callers : pc[p] # "idle"}
    IN  InFlight # {} /\ (\A p \in InFlight : Blocked(p)) => LockInversion

(* Every call returns, or the two lock orders have met and nothing does. *)
CallsReturn ==
    \A p \in Callers : pc[p] # "idle" ~> pc[p] = "idle" \/ LockInversion
=============================================================================
