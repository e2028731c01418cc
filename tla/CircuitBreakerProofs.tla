------------------------ MODULE CircuitBreakerProofs ------------------------
(* Proofs about the circuit breaker: first its lock-free specification, as   *)
(* CB sees it through the locks, and then the code with its locks, which     *)
(* implements it.                                                            *)
EXTENDS CircuitBreakerLocks, TLAPS

LEMMA ConfigType ==
  ASSUME config \in Configs
  PROVE  /\ config.failure_threshold \in Nat
         /\ config.recovery_timeout_secs \in Nat
         /\ config.half_open_max_requests \in Nat
  BY ConfigsAssumption

(* The fields of the lock-free breaker, as CB sees them.                     *)
SeenState == IF At({"allow_probing"}) THEN "Open"
             ELSE IF At({"allow_close", "success_close"}) THEN "HalfOpen" ELSE state
Tripping == IF At({"failure_stamp"}) THEN 1 ELSE IF At({"failure_trip"}) THEN 2 ELSE 0

(* Every variable of the lock-free breaker keeps its type, for every         *)
(* configuration.                                                            *)
THEOREM SpecificationTypeCorrect == CB!Spec => []CB!TypeOK
<1> DEFINE Flags == verdict \in BOOLEAN /\ count_lost \in BOOLEAN
           Seen == /\ config \in Configs
                   /\ SeenState \in CB!State
                   /\ failure_count \in Nat
                   /\ (IF At({"success_close"}) THEN success_count - 1 ELSE success_count) \in Nat
                   /\ last_failure \in Nat \cup {None}
                   /\ stamp \in Nat \cup {None}
                   /\ Tripping \in {0, 1, 2}
<1> USE DEF CB!State, CB!AllowClosed, CB!Refuse, CB!StartProbing, CB!AllowProbe, CB!CloseWhenAsked,
            CB!CountSuccess, CB!CloseOnSuccess, CB!ForgetFailures,
            CB!CountFailure, CB!ReachThreshold, CB!RestartTimeout, CB!Trip,
            CB!Tick, CB!Older, SeenState, Tripping
<1>1. CB!Init => Seen
  BY DEF CB!Init
<1>2. CB!Init => Flags
  BY Zenon DEF CB!Init
<1>3. Seen /\ [CB!Next]_(CB!vars) => Seen'
  <2> SUFFICES ASSUME Seen, [CB!Next]_(CB!vars)
               PROVE  Seen'
    OBVIOUS
  <2>1. CASE CB!IsRequestAllowed
    BY <2>1 DEF CB!IsRequestAllowed
  <2>2. CASE CB!RecordSuccess
    BY <2>2 DEF CB!RecordSuccess
  <2>3. CASE CB!RecordFailure
    BY <2>3 DEF CB!RecordFailure
  <2>4. CASE CB!Tick
    BY <2>4
  <2>5. CASE UNCHANGED CB!vars
    BY <2>5 DEF CB!vars
  <2>. QED
    BY <2>1, <2>2, <2>3, <2>4, <2>5 DEF CB!Next
<1>4. Flags /\ [CB!Next]_(CB!vars) => Flags'
  <2> SUFFICES ASSUME Flags, [CB!Next]_(CB!vars)
               PROVE  Flags'
    OBVIOUS
  <2>1. CASE CB!IsRequestAllowed
    BY <2>1, Zenon DEF CB!IsRequestAllowed
  <2>2. CASE CB!RecordSuccess
    BY <2>2, Zenon DEF CB!RecordSuccess
  <2>3. CASE CB!RecordFailure
    BY <2>3, Zenon DEF CB!RecordFailure
  <2>4. CASE CB!Tick
    BY <2>4, Zenon
  <2>5. CASE UNCHANGED CB!vars
    BY <2>5, Zenon DEF CB!vars
  <2>. QED
    BY <2>1, <2>2, <2>3, <2>4, <2>5 DEF CB!Next
<1>5. CB!TypeOK <=> Seen /\ Flags
  BY Zenon DEF CB!TypeOK
<1>. QED
  BY <1>1, <1>2, <1>3, <1>4, <1>5, PTL DEF CB!Spec

(* Safety is not inductive: whether a failure reopens a HalfOpen breaker is *)
(* decided by what became of failure_count since it tripped.                *)
CountKept ==
    /\ Tripping # 0 => failure_count >= config.failure_threshold
    /\ Tripping = 1 => stamp # None
    /\ SeenState # "Closed" => failure_count >= config.failure_threshold \/ count_lost

SafetyInv == CB!OpenHasTimeout /\ CB!ClosedBelowThreshold /\ CountKept

LEMMA SafetyInvInductive == CB!TypeOK /\ SafetyInv /\ [CB!Next]_(CB!vars) => SafetyInv'
<1> SUFFICES ASSUME CB!TypeOK, SafetyInv, [CB!Next]_(CB!vars)
             PROVE  SafetyInv'
  OBVIOUS
<1>0. config \in Configs
  BY DEF CB!TypeOK
<1> USE <1>0, ConfigType, NoneAssumption
        DEF CB!TypeOK, CB!State, SafetyInv, CB!OpenHasTimeout, CB!ClosedBelowThreshold, CountKept,
            SeenState, Tripping
<1>1. CASE CB!IsRequestAllowed
  <2>1. CASE CB!AllowClosed
    BY <2>1 DEF CB!AllowClosed
  <2>4. CASE CB!Refuse
    BY <2>4 DEF CB!Refuse
  <2>5. CASE CB!AllowProbe
    BY <2>5 DEF CB!AllowProbe
  <2>2. CASE CB!StartProbing
    BY <2>2 DEF CB!StartProbing
  <2>3. CASE CB!CloseWhenAsked
    BY <2>3 DEF CB!CloseWhenAsked
  <2>. QED
    BY <1>1, <2>1, <2>2, <2>3, <2>4, <2>5 DEF CB!IsRequestAllowed
<1>2. CASE CB!RecordSuccess
  BY <1>2 DEF CB!RecordSuccess, CB!CountSuccess, CB!CloseOnSuccess, CB!ForgetFailures
<1>3. CASE CB!RecordFailure
  BY <1>3 DEF CB!RecordFailure, CB!CountFailure, CB!ReachThreshold, CB!RestartTimeout, CB!Trip
<1>4. CASE CB!Tick
  <2>1. (last_failure # None => last_failure' # None) /\ (stamp # None => stamp' # None)
    BY <1>4 DEF CB!Tick, CB!Older
  <2>. QED
    BY <1>4, <2>1 DEF CB!Tick
<1>5. CASE UNCHANGED CB!vars
  BY <1>5 DEF CB!vars
<1>. QED
  BY <1>1, <1>2, <1>3, <1>4, <1>5 DEF CB!Next

(* The three promises of the lock-free breaker hold for every threshold,     *)
(* timeout and number of probes.                                             *)
THEOREM SpecificationSafe == CB!Spec => []BreakerSafety
<1>1. CB!Init => SafetyInv
  BY NoneAssumption DEF CB!Init, SafetyInv, CB!OpenHasTimeout, CB!ClosedBelowThreshold, CountKept, SeenState,
         Tripping
<1>2. SafetyInv => CB!Safety
  BY DEF SafetyInv, CB!Safety, CB!OpenHasTimeout, CB!ClosedBelowThreshold, CountKept,
         CB!HalfOpenReopensOnFailure, SeenState, Tripping
<1>. QED
  BY <1>1, <1>2, SafetyInvInductive, SpecificationTypeCorrect, PTL DEF CB!Spec, BreakerSafety

-----------------------------------------------------------------------------
(* The code with its locks. *)

LEMMA WantsValue ==
  /\ DOMAIN Wants = {"allow", "allow_open", "allow_probing", "allow_half", "allow_close",
                     "success", "success_half", "success_close", "success_else",
                     "failure", "failure_stamp", "failure_trip"}
  /\ Wants["allow"] = "state"
  /\ Wants["allow_open"] = "last_failure"
  /\ Wants["allow_probing"] = "success_count"
  /\ Wants["allow_half"] = "success_count"
  /\ Wants["allow_close"] = "failure_count"
  /\ Wants["success"] = "state"
  /\ Wants["success_half"] = "success_count"
  /\ Wants["success_close"] = "failure_count"
  /\ Wants["success_else"] = "failure_count"
  /\ Wants["failure"] = "failure_count"
  /\ Wants["failure_stamp"] = "last_failure"
  /\ Wants["failure_trip"] = "state"
  BY DEF Wants

(* The types that matter to the locks; the two flags are Boolean-valued. *)
Fields ==
    /\ config \in Configs
    /\ state \in {"Closed", "Open", "HalfOpen"}
    /\ failure_count \in Nat
    /\ success_count \in Nat
    /\ last_failure \in Nat \cup {None}
    /\ stamp \in Nat \cup {None}
    /\ held \in [Locks -> Callers \cup {None}]
    /\ pc \in [Callers -> Awaits \cup {"idle"}]

LEMMA FieldsInductive == Fields /\ [Next]_vars => Fields'
<1> SUFFICES ASSUME Fields, [Next]_vars
             PROVE  Fields'
  OBVIOUS
<1> USE WantsValue DEF Fields, Awaits, Locks, Step, Keep, Return
<1>1. ASSUME NEW p \in Callers, Begin(p)
      PROVE  Fields'
  BY <1>1 DEF Begin, Call
<1>2. ASSUME NEW p \in Callers, Advance(p)
      PROVE  Fields'
  <2>1. CASE Allow(p)         BY <2>1 DEF Allow
  <2>2. CASE AllowOpen(p)     BY <2>2 DEF AllowOpen
  <2>3. CASE AllowProbing(p)  BY <2>3 DEF AllowProbing
  <2>4. CASE AllowHalf(p)     BY <2>4 DEF AllowHalf
  <2>5. CASE AllowClose(p)    BY <2>5 DEF AllowClose
  <2>6. CASE Success(p)       BY <2>6 DEF Success
  <2>7. CASE SuccessHalf(p)   BY <2>7 DEF SuccessHalf
  <2>8. CASE SuccessClose(p)  BY <2>8 DEF SuccessClose
  <2>9. CASE SuccessElse(p)   BY <2>9 DEF SuccessElse
  <2>10. CASE Failure(p)      BY <2>10 DEF Failure
  <2>11. CASE FailureStamp(p) BY <2>11 DEF FailureStamp
  <2>12. CASE FailureTrip(p)  BY <2>12 DEF FailureTrip
  <2>. QED
    BY <1>2, <2>1, <2>2, <2>3, <2>4, <2>5, <2>6, <2>7, <2>8, <2>9, <2>10, <2>11, <2>12
    DEF Advance
<1>3. CASE Tick
  BY <1>3 DEF Tick, Older
<1>4. CASE UNCHANGED vars
  BY <1>4 DEF vars
<1>. QED
  BY <1>1, <1>2, <1>3, <1>4 DEF Next

LEMMA LockInvInductive == Fields /\ LockInv /\ [Next]_vars => LockInv'
<1> SUFFICES ASSUME Fields, LockInv, [Next]_vars
             PROVE  LockInv'
  OBVIOUS
<1> USE WantsValue, NoneAssumption, CallersAssumption DEF Fields, Awaits, Locks, Step, Keep, Return, LockInv,
       HoldsState, HoldsFailureCount
<1>1. ASSUME NEW p \in Callers, Begin(p)
      PROVE  LockInv'
  BY <1>1 DEF Begin, Call
<1>2. ASSUME NEW p \in Callers, Advance(p)
      PROVE  LockInv'
  <2>1. CASE Allow(p)         BY <2>1 DEF Allow
  <2>2. CASE AllowOpen(p)     BY <2>2 DEF AllowOpen
  <2>3. CASE AllowProbing(p)  BY <2>3 DEF AllowProbing
  <2>4. CASE AllowHalf(p)     BY <2>4 DEF AllowHalf
  <2>5. CASE AllowClose(p)    BY <2>5 DEF AllowClose
  <2>6. CASE Success(p)       BY <2>6 DEF Success
  <2>7. CASE SuccessHalf(p)   BY <2>7 DEF SuccessHalf
  <2>8. CASE SuccessClose(p)  BY <2>8 DEF SuccessClose
  <2>9. CASE SuccessElse(p)   BY <2>9 DEF SuccessElse
  <2>10. CASE Failure(p)      BY <2>10 DEF Failure
  <2>11. CASE FailureStamp(p) BY <2>11 DEF FailureStamp
  <2>12. CASE FailureTrip(p)  BY <2>12 DEF FailureTrip
  <2>. QED
    BY <1>2, <2>1, <2>2, <2>3, <2>4, <2>5, <2>6, <2>7, <2>8, <2>9, <2>10, <2>11,
       <2>12 DEF Advance
<1>3. CASE Tick
  BY <1>3 DEF Tick, Older
<1>4. CASE UNCHANGED vars
  BY <1>4 DEF vars
<1>. QED
  BY <1>1, <1>2, <1>3, <1>4 DEF Next

LEMMA PlaceInvInductive == Fields /\ LockInv /\ PlaceInv /\ [Next]_vars => PlaceInv'
<1> SUFFICES ASSUME Fields, LockInv, PlaceInv, [Next]_vars
             PROVE  PlaceInv'
  OBVIOUS
<1> USE WantsValue, NoneAssumption, CallersAssumption, ConfigType DEF Fields, Awaits, Locks, Step, Keep, Return, LockInv,
       PlaceInv, HoldsState, HoldsFailureCount, TimeoutElapsed, ProbesWanted
<1>1. ASSUME NEW p \in Callers, Begin(p)
      PROVE  PlaceInv'
  BY <1>1 DEF Begin, Call
<1>2. ASSUME NEW p \in Callers, Advance(p)
      PROVE  PlaceInv'
  <2>1. CASE Allow(p)         BY <2>1 DEF Allow
  <2>2. CASE AllowOpen(p)     BY <2>2 DEF AllowOpen
  <2>3. CASE AllowProbing(p)  BY <2>3 DEF AllowProbing
  <2>4. CASE AllowHalf(p)     BY <2>4 DEF AllowHalf
  <2>5. CASE AllowClose(p)    BY <2>5 DEF AllowClose
  <2>6. CASE Success(p)       BY <2>6 DEF Success
  <2>7. CASE SuccessHalf(p)   BY <2>7 DEF SuccessHalf
  <2>8. CASE SuccessClose(p)  BY <2>8 DEF SuccessClose
  <2>9. CASE SuccessElse(p)   BY <2>9 DEF SuccessElse
  <2>10. CASE Failure(p)      BY <2>10 DEF Failure
  <2>11. CASE FailureStamp(p) BY <2>11 DEF FailureStamp
  <2>12. CASE FailureTrip(p)  BY <2>12 DEF FailureTrip
  <2>. QED
    BY <1>2, <2>1, <2>2, <2>3, <2>4, <2>5, <2>6, <2>7, <2>8, <2>9, <2>10, <2>11,
       <2>12 DEF Advance
<1>3. CASE Tick
  BY <1>3 DEF Tick, Older
<1>4. CASE UNCHANGED vars
  BY <1>4 DEF vars
<1>. QED
  BY <1>1, <1>2, <1>3, <1>4 DEF Next

LEMMA FlagsInductive ==
  ASSUME verdict \in BOOLEAN, count_lost \in BOOLEAN, [Next]_vars
  PROVE  verdict' \in BOOLEAN /\ count_lost' \in BOOLEAN
<1>1. ASSUME NEW p \in Callers, Begin(p)
      PROVE  verdict' \in BOOLEAN /\ count_lost' \in BOOLEAN
  BY <1>1, Zenon DEF Begin, Call
<1>2. ASSUME NEW p \in Callers, Advance(p)
      PROVE  verdict' \in BOOLEAN /\ count_lost' \in BOOLEAN
  <2>1. CASE Allow(p) \/ AllowOpen(p) \/ AllowProbing(p) \/ AllowHalf(p) \/ AllowClose(p)
    BY <2>1, Zenon DEF Allow, AllowOpen, AllowProbing, AllowHalf, AllowClose
  <2>2. CASE Success(p) \/ SuccessHalf(p) \/ SuccessClose(p) \/ SuccessElse(p)
    BY <2>2, Zenon DEF Success, SuccessHalf, SuccessClose, SuccessElse
  <2>3. CASE Failure(p) \/ FailureStamp(p) \/ FailureTrip(p)
    BY <2>3, Zenon DEF Failure, FailureStamp, FailureTrip
  <2>. QED
    BY <1>2, <2>1, <2>2, <2>3 DEF Advance
<1>3. CASE Tick
  BY <1>3, Zenon DEF Tick
<1>4. CASE UNCHANGED vars
  BY <1>4, Zenon DEF vars
<1>. QED
  BY <1>1, <1>2, <1>3, <1>4 DEF Next

IInv == Fields /\ LockInv /\ PlaceInv

LEMMA Invariance == Spec => []IInv
<1>1. Init => IInv
  BY NoneAssumption, CallersAssumption
     DEF Init, IInv, Fields, Awaits, Locks, LockInv, PlaceInv, HoldsState, HoldsFailureCount
<1>. QED
  BY <1>1, FieldsInductive, LockInvInductive, PlaceInvInductive, PTL DEF Spec, IInv

(* Every variable keeps its type, for any callers and configurations. *)
THEOREM TypeCorrect == Spec => []TypeOK
<1> DEFINE Flags == verdict \in BOOLEAN /\ count_lost \in BOOLEAN
<1>1. Init => Flags
  BY Zenon DEF Init
<1>2. Flags /\ [Next]_vars => Flags'
  BY FlagsInductive
<1>3. IInv /\ Flags => TypeOK
  BY Zenon DEF IInv, Fields, TypeOK, CB!State
<1>. QED
  BY <1>1, <1>2, <1>3, Invariance, PTL DEF Spec

-----------------------------------------------------------------------------
LEMMA StuckMeansInversion == IInv => StuckOnlyByLockInversion
<1> SUFFICES ASSUME IInv,
                    NEW p0 \in Callers, pc[p0] # "idle",
                    \A p \in Callers : pc[p] # "idle" => Blocked(p)
             PROVE  LockInversion
  BY DEF StuckOnlyByLockInversion
<1> USE WantsValue, NoneAssumption, CallersAssumption
<1>1. ASSUME NEW p \in Callers, pc[p] # "idle"
      PROVE  /\ pc[p] \in Awaits
             /\ held[Wants[pc[p]]] \in Callers
             /\ Wants[pc[p]] \in Locks
  BY <1>1 DEF IInv, Fields, Blocked, Awaits, Locks
<1> USE <1>1 DEF IInv, LockInv, HoldsState, HoldsFailureCount, Awaits, Locks
<1>2. ASSUME NEW p \in Callers, pc[p] \in HoldsState
      PROVE  /\ pc[p] \in {"allow_close", "success_close", "success_else"}
             /\ held["failure_count"] \in Callers
  BY <1>2
<1>3. ASSUME NEW p \in Callers, pc[p] \in HoldsFailureCount
      PROVE  /\ pc[p] = "failure_trip"
             /\ held["state"] \in Callers
  BY <1>2, <1>3
<1>4. \E p \in Callers : pc[p] \in HoldsState \cup HoldsFailureCount
  <2> DEFINE q == held[Wants[pc[p0]]]
  <2>1. q \in Callers /\ pc[q] \in HoldsState \cup HoldsFailureCount
    OBVIOUS
  <2>. QED
    BY <2>1
<1>5. \E p \in Callers : pc[p] \in HoldsFailureCount
  BY <1>2, <1>4
<1>. QED
  BY <1>2, <1>3, <1>5 DEF LockInversion

(* However many callers there are, calls block each other for good only     *)
(* when state and failure_count have been taken in opposite orders.         *)
THEOREM DeadlockCharacterised == Spec => []StuckOnlyByLockInversion
  BY Invariance, StuckMeansInversion, PTL

-----------------------------------------------------------------------------
(* A call that returns, or stamps or sets the state, takes the step of the  *)
(* specification it stands for; every other step only takes a lock, or      *)
(* writes a field that the lock still hides.                                *)
LEMMA StepRefines == IInv /\ [Next]_vars => [CB!Next]_(CB!vars)
<1> SUFFICES ASSUME IInv, [Next]_vars
             PROVE  [CB!Next]_(CB!vars)
  OBVIOUS
<1> USE WantsValue, NoneAssumption, CallersAssumption, ConfigType
    DEF IInv, Fields, LockInv, PlaceInv, HoldsState, HoldsFailureCount, Awaits, Locks,
        Step, Keep, Return, At, TimeoutElapsed, ProbesWanted, CB!vars,
        CB!TimeoutElapsed, CB!ProbesWanted
<1>1. ASSUME NEW p \in Callers, Begin(p)
      PROVE  UNCHANGED CB!vars
  BY <1>1 DEF Begin, Call
<1>2. ASSUME NEW p \in Callers, Advance(p)
      PROVE  CB!Next \/ UNCHANGED CB!vars
  <2>1. Allow(p) => CB!AllowClosed \/ UNCHANGED CB!vars
    BY DEF Allow, CB!AllowClosed
  <2>2. AllowOpen(p) => CB!Refuse \/ UNCHANGED CB!vars
    BY DEF AllowOpen, CB!Refuse
  <2>3. AllowProbing(p) => CB!StartProbing
    <3> SUFFICES ASSUME AllowProbing(p)
                 PROVE  CB!StartProbing
      OBVIOUS
    <3>1. /\ At({"allow_probing"}) /\ ~At({"allow_probing"})'
          /\ ~At({"allow_close", "success_close"})'
          /\ ~At({"success_close"}) /\ ~At({"success_close"})'
      BY DEF AllowProbing
    <3>2. /\ At({"failure_stamp"})' <=> At({"failure_stamp"})
          /\ At({"failure_trip"})' <=> At({"failure_trip"})
      BY DEF AllowProbing
    <3>3. state = "HalfOpen" /\ TimeoutElapsed
      BY DEF AllowProbing
    <3> HIDE DEF At
    <3>. QED
      BY <3>1, <3>2, <3>3 DEF AllowProbing, CB!StartProbing
  <2>4. AllowHalf(p) => CB!AllowProbe \/ UNCHANGED CB!vars
    BY DEF AllowHalf, CB!AllowProbe
  <2>5. AllowClose(p) => CB!CloseWhenAsked
    <3> SUFFICES ASSUME AllowClose(p)
                 PROVE  CB!CloseWhenAsked
      OBVIOUS
    <3>1. /\ At({"allow_close", "success_close"}) /\ ~At({"allow_close", "success_close"})'
          /\ ~At({"allow_probing"}) /\ ~At({"allow_probing"})'
          /\ ~At({"success_close"}) /\ ~At({"success_close"})'
      BY DEF AllowClose
    <3>2. /\ ~At({"failure_stamp"}) /\ ~At({"failure_stamp"})'
          /\ ~At({"failure_trip"}) /\ ~At({"failure_trip"})'
      BY DEF AllowClose
    <3>3. state = "Closed" /\ ~ProbesWanted
      BY DEF AllowClose
    <3> HIDE DEF At
    <3>. QED
      BY <3>1, <3>2, <3>3 DEF AllowClose, CB!CloseWhenAsked
  <2>6. Success(p) => UNCHANGED CB!vars
    BY DEF Success
  <2>7. SuccessHalf(p) => CB!CountSuccess \/ UNCHANGED CB!vars
    BY DEF SuccessHalf, CB!CountSuccess
  <2>8. SuccessClose(p) => CB!CloseOnSuccess \/ UNCHANGED CB!vars
    BY DEF SuccessClose, CB!CloseOnSuccess
  <2>9. SuccessElse(p) => CB!ForgetFailures \/ UNCHANGED CB!vars
    BY DEF SuccessElse, CB!ForgetFailures
  <2>10. Failure(p) => CB!CountFailure \/ CB!ReachThreshold
    BY DEF Failure, CB!CountFailure, CB!ReachThreshold
  <2>11. FailureStamp(p) => CB!RestartTimeout
    BY DEF FailureStamp, CB!RestartTimeout
  <2>12. FailureTrip(p) => CB!Trip
    BY DEF FailureTrip, CB!Trip
  <2>. QED
    BY <1>2, <2>1, <2>2, <2>3, <2>4, <2>5, <2>6, <2>7, <2>8, <2>9, <2>10, <2>11, <2>12
    DEF Advance, CB!Next, CB!IsRequestAllowed, CB!RecordSuccess, CB!RecordFailure
<1>3. CASE Tick
  BY <1>3 DEF Tick, Older, CB!Next, CB!Tick, CB!Older
<1>4. CASE UNCHANGED vars
  BY <1>4 DEF vars
<1>. QED
  BY <1>1, <1>2, <1>3, <1>4 DEF Next

(* The code with its locks implements the lock-free circuit breaker. *)
THEOREM Refinement == Spec => BreakerImplemented
<1>1. Init => CB!Init
  BY DEF Init, CB!Init, At
<1>. QED
  BY <1>1, StepRefines, Invariance, PTL DEF Spec, BreakerImplemented, CB!Spec

(* The three promises of the breaker therefore hold of the code with its    *)
(* locks, for any callers and configurations.                               *)
THEOREM SafetyThroughLocks == Spec => []BreakerSafety
BY Refinement, SpecificationSafe, PTL DEF BreakerImplemented
=============================================================================
