---------------------------- MODULE ProxyProofs ----------------------------
(* Proofs about the configuration of Proxy, for any number of requests, *)
(* calls, updates, configuration files and restarts.                    *)
EXTENDS Proxy, NaturalsInduction, FiniteSetTheorems, TLAPS

Fields ==
    /\ config \in ConfigType
    /\ call \in [Calls -> Postures \cup {"idle", "rejected", "done"}]
    /\ pc \in [Requests -> Open \cup Answers \cup {"idle", "gone"}]
    /\ writer \in Calls \cup {None}
    /\ lenient \subseteq Requests

(* The call that holds the write guard is the one that has a posture to      *)
(* store, and it is the posture in force.                                    *)
GuardInv ==
    /\ \A m \in Calls : call[m] \in Postures => writer = m
    /\ writer # None => call[writer] = config.posture

(* The dashboard's read guard and the write guard exclude each other.  (What *)
(* the queries return is of no matter here: dash is any record of its shape.) *)
ReadInv ==
    /\ dash = [at |-> dash.at, posture |-> dash.posture, total |-> dash.total,
               blocked |-> dash.blocked, incidents |-> dash.incidents, later |-> dash.later]
    /\ DashboardReads => writer = None /\ dash.posture = config.posture

(* A request not yet inspected has been noted as soon as the configuration   *)
(* had nothing against it.                                                   *)
ArrivalInv ==
    \A r \in Requests :
        pc[r] \in {"reading", "read"} /\ Lenient(config, r) => r \in lenient

IInv == /\ Fields /\ GuardInv /\ ReadInv /\ ArrivalInv
        /\ PersistedIsInForce /\ UnderAttackHolds

LEMMA Initially == Init => IInv
BY ProxyAssumption
   DEF Init, IInv, Fields, GuardInv, ReadInv, ArrivalInv, PersistedIsInForce, UnderAttackHolds,
       DashboardReads, NoReading, LetThrough, Postures, Open, Answers

-----------------------------------------------------------------------------
(* Steps of a request. *)
LEMMA HandleKeeps ==
  ASSUME IInv, NEW r \in Requests, Handle(r)
  PROVE  IInv'
<1> USE DEF Fields, Open, Answers, LetThrough, Go
<1>1. UNCHANGED configuration /\ UNCHANGED dash
  BY DEF Handle, Arrive, ReadBody, Abandon, Inspect, ReadUpstream, Forward
<1>2. Fields'
  BY <1>1 DEF IInv, configuration, Handle, Arrive, ReadBody, Abandon, Inspect, ReadUpstream, Forward,
     Trusted, UnderAttack, RuleMatches, NoRuleMatches
<1>3. GuardInv' /\ ReadInv' /\ PersistedIsInForce'
  BY <1>1 DEF IInv, GuardInv, ReadInv, PersistedIsInForce, DashboardReads, configuration
<1>4. ArrivalInv'
  BY <1>1 DEF IInv, ArrivalInv, Lenient, configuration, Handle, Arrive, ReadBody, Abandon, Inspect,
     ReadUpstream, Forward, Trusted, UnderAttack, RuleMatches, NoRuleMatches
<1>5. UnderAttackHolds'
  BY <1>1 DEF IInv, UnderAttackHolds, ArrivalInv, Lenient, Shut, configuration, Handle, Arrive, ReadBody,
     Abandon, Inspect, ReadUpstream, Forward, Trusted, UnderAttack, RuleMatches, NoRuleMatches
<1> QED BY <1>2, <1>3, <1>4, <1>5 DEF IInv

(* What putting a configuration in force does for the requests on their way. *)
LEMMA InForceKeeps ==
  ASSUME IInv, NEW c \in ConfigType, PutInForce(c), UNCHANGED pc
  PROVE  /\ config' \in ConfigType /\ lenient' \subseteq Requests
         /\ ArrivalInv' /\ UnderAttackHolds'
BY DEF IInv, Fields, PutInForce, ArrivalInv, UnderAttackHolds, Lenient

(* Steps of a management call. *)
LEMMA ManageKeeps ==
  ASSUME IInv, NEW m \in Calls, Manage(m)
  PROVE  IInv'
<1> USE ProxyAssumption
<1>1. CASE SetPosture(m)
  <2>1. PICK p \in Postures : /\ PutInForce([config EXCEPT !.posture = p])
                              /\ call' = [call EXCEPT ![m] = p]
    BY <1>1 DEF SetPosture
  <2>2. [config EXCEPT !.posture = p] \in ConfigType /\ config' = [config EXCEPT !.posture = p]
    BY <2>1 DEF IInv, Fields, ConfigType, PutInForce
  <2>3. writer = None /\ writer' = m /\ UNCHANGED <<pc, dash>> /\ ~DashboardReads /\ stale'
    BY <1>1 DEF SetPosture, CanWrite
  <2>4. config'.posture = p
    BY <2>2 DEF IInv, Fields, ConfigType
  <2>5. ArrivalInv' /\ UnderAttackHolds' /\ config' \in ConfigType /\ lenient' \subseteq Requests
    BY <2>1, <2>2, <2>3, InForceKeeps
  <2>6. Fields'
    BY <2>1, <2>3, <2>5 DEF IInv, Fields, Postures
  <2>7. GuardInv' /\ ReadInv' /\ PersistedIsInForce'
    BY <2>1, <2>3, <2>4 DEF IInv, Fields, GuardInv, ReadInv, PersistedIsInForce, DashboardReads
  <2> QED BY <2>5, <2>6, <2>7 DEF IInv
<1>2. CASE UpdateConfig(m)
  <2> DEFINE Up(u) == OrElse(u.upstream, config.upstream)
             All(u) == [config EXCEPT !.upstream = Up(u),
                                      !.posture = OrElse(u.posture, @),
                                      !.limited = OrElse(u.limited, @),
                                      !.trusted = OrElse(u.trusted, @)]
             Part(u) == [config EXCEPT !.upstream = Up(u)]
  <2>1. PICK u \in Updates :
          IF u.posture = "invalid"
          THEN /\ PutInForce(Part(u))
               /\ call' = [call EXCEPT ![m] = "rejected"]
               /\ UNCHANGED <<writer, stale>>
          ELSE /\ PutInForce(All(u))
               /\ call' = [call EXCEPT ![m] = All(u).posture]
               /\ writer' = m
               /\ stale' = TRUE
    BY <1>2 DEF UpdateConfig
  <2>2. writer = None /\ UNCHANGED <<pc, dash, persisted>> /\ ~DashboardReads
    BY <1>2 DEF UpdateConfig, CanWrite
  <2>3. u \in UpdateType /\ config \in ConfigType
    BY DEF IInv, Fields
  <2>4. CASE u.posture = "invalid"
    <3>1. Part(u) \in ConfigType /\ Part(u).posture = config.posture
      BY <2>3 DEF ConfigType, UpdateType, OrElse
    <3>2. config' = Part(u) /\ PutInForce(Part(u))
      BY <2>1, <2>4 DEF PutInForce
    <3>3. ArrivalInv' /\ UnderAttackHolds' /\ config' \in ConfigType /\ lenient' \subseteq Requests
      BY <3>1, <3>2, <2>2, InForceKeeps
    <3> HIDE DEF Part, Up, All
    <3>4. Fields'
      BY <2>1, <2>2, <2>4, <3>3 DEF IInv, Fields
    <3>5. GuardInv' /\ ReadInv' /\ PersistedIsInForce'
      BY <2>1, <2>2, <2>4, <3>1, <3>2
         DEF IInv, Fields, GuardInv, ReadInv, PersistedIsInForce, DashboardReads, Postures
    <3> QED BY <3>3, <3>4, <3>5 DEF IInv
  <2>5. CASE u.posture # "invalid"
    <3>1. All(u) \in ConfigType /\ All(u).posture \in Postures
      BY <2>3, <2>5 DEF ConfigType, UpdateType, OrElse
    <3>2. config' = All(u) /\ PutInForce(All(u))
      BY <2>1, <2>5 DEF PutInForce
    <3>3. ArrivalInv' /\ UnderAttackHolds' /\ config' \in ConfigType /\ lenient' \subseteq Requests
      BY <3>1, <3>2, <2>2, InForceKeeps
    <3> HIDE DEF Part, Up, All
    <3>4. Fields'
      BY <2>1, <2>2, <2>5, <3>1, <3>3 DEF IInv, Fields
    <3>5. GuardInv' /\ ReadInv' /\ PersistedIsInForce'
      BY <2>1, <2>2, <2>5, <3>1, <3>2
         DEF IInv, Fields, GuardInv, ReadInv, PersistedIsInForce, DashboardReads, Postures
    <3> QED BY <3>3, <3>4, <3>5 DEF IInv
  <2> QED BY <2>4, <2>5
<1>3. CASE Persist(m)
  <2>1. Fields' /\ GuardInv' /\ ReadInv'
    BY <1>3 DEF Persist, IInv, Fields, GuardInv, ReadInv, DashboardReads, handlers, Postures
  <2>2. ArrivalInv' /\ UnderAttackHolds'
    BY <1>3 DEF Persist, IInv, ArrivalInv, UnderAttackHolds, handlers, Lenient
  <2>3. PersistedIsInForce'
    BY <1>3 DEF Persist, IInv, Fields, GuardInv, PersistedIsInForce
  <2> QED BY <2>1, <2>2, <2>3 DEF IInv
<1> QED BY <1>1, <1>2, <1>3 DEF Manage

(* Steps of tasks and simulations leave everything IInv speaks of alone but  *)
(* the dashboard's count of what it has missed.                              *)
LEMMA TasksKeep ==
  ASSUME IInv,
         \/ \E r \in Requests : Record(r) \/ RecordPassed(r)
         \/ \E s \in Simulations : Simulate(s) \/ Announce(s)
  PROVE  IInv'
<1>1. UNCHANGED <<configuration, handlers>>
  BY DEF Record, RecordIncident, RecordBlocked, Broadcast, RecordPassed, Simulate, Announce
<1>2. UNCHANGED dash \/ (dash.at = "blocked" /\ \E n : dash' = [dash EXCEPT !.later = n])
  BY DEF Record, RecordIncident, RecordBlocked, Broadcast, RecordPassed, Simulate, Announce, Upsert
<1>3. ReadInv'
  <2>1. dash'.at = dash.at /\ dash'.posture = dash.posture
    BY <1>2 DEF IInv, ReadInv
  <2> QED BY <1>2, <1>1, <1>2, <2>1 DEF IInv, ReadInv, configuration, DashboardReads
<1> QED
  BY <1>1, <1>3 DEF IInv, Fields, GuardInv, ArrivalInv, PersistedIsInForce, UnderAttackHolds,
     configuration, handlers, Lenient

(* Steps of the dashboard. *)
LEMMA DashboardKeeps ==
  ASSUME IInv, OpenDashboard \/ Query
  PROVE  IInv'
<1>1. UNCHANGED <<configuration, handlers>>
  BY DEF OpenDashboard, Query, ReadTotal, ReadBlocked, ReadIncidents, DashboardFails
<1>2. ReadInv'
  <2> DEFINE Shape == dash = [at |-> dash.at, posture |-> dash.posture, total |-> dash.total,
                              blocked |-> dash.blocked, incidents |-> dash.incidents,
                              later |-> dash.later]
  <2>1. CASE OpenDashboard
    BY <1>1, <2>1 DEF IInv, ReadInv, configuration, DashboardReads, NoReading, OpenDashboard
  <2>2. CASE Query /\ ~DashboardFails
    <3>1. DashboardReads /\ Shape
      BY <2>2 DEF IInv, ReadInv, DashboardReads, Query, ReadTotal, ReadBlocked, ReadIncidents
    <3>2. Shape' /\ dash'.posture = dash.posture
      BY <2>2, <3>1 DEF Query, ReadTotal, ReadBlocked, ReadIncidents
    <3> QED BY <1>1, <3>1, <3>2 DEF IInv, ReadInv, configuration
  <2>3. CASE DashboardFails
    BY <1>1, <2>3 DEF IInv, ReadInv, configuration, DashboardReads, NoReading, DashboardFails
  <2> QED BY <2>1, <2>2, <2>3
<1> QED
  BY <1>1, <1>2 DEF IInv, Fields, GuardInv, ArrivalInv, PersistedIsInForce, UnderAttackHolds,
     configuration, handlers, Lenient

LEMMA RestartKeeps ==
  ASSUME IInv, Restart
  PROVE  IInv'
BY ProxyAssumption
   DEF Restart, IInv, Fields, GuardInv, ReadInv, ArrivalInv, PersistedIsInForce, UnderAttackHolds,
       DashboardReads, NoReading, LetThrough, Postures, Open, Answers

LEMMA AgeingKeeps ==
  ASSUME IInv, BecomeOld
  PROVE  IInv'
BY DEF BecomeOld, IInv, Fields, GuardInv, ReadInv, ArrivalInv, PersistedIsInForce, UnderAttackHolds,
       DashboardReads, configuration, Lenient

LEMMA IInvInductive == IInv /\ [Next]_vars => IInv'
<1> SUFFICES ASSUME IInv, [Next]_vars PROVE IInv'
  OBVIOUS
<1>1. CASE UNCHANGED vars
  BY <1>1 DEF vars, configuration, handlers, IInv, Fields, GuardInv, ReadInv, ArrivalInv, Lenient,
     PersistedIsInForce, UnderAttackHolds, DashboardReads
<1> QED
  BY <1>1, HandleKeeps, ManageKeeps, TasksKeep, DashboardKeeps, AgeingKeeps, RestartKeeps DEF Next

LEMMA Invariance == Spec => []IInv
BY Initially, IInvInductive, PTL DEF Spec

-----------------------------------------------------------------------------
(* The posture in the database is the one in force whenever it should be:    *)
(* two calls never store their postures in the other order.                  *)
THEOREM PersistenceCorrect == Spec => []PersistedIsInForce
BY Invariance, PTL DEF IInv

(* A dashboard shows the posture that was in force during its queries. *)
THEOREM DashboardPostureCorrect == Spec => []DashboardPostureInForce
<1>1. IInv => DashboardPostureInForce
  BY DEF IInv, ReadInv, DashboardPostureInForce
<1> QED BY <1>1, Invariance, PTL

(* No write slips through once the posture is UnderAttack. *)
THEOREM UnderAttackEnforced == Spec => []UnderAttackHolds
BY Invariance, PTL DEF IInv

-----------------------------------------------------------------------------
(* What was recorded. *)

Row == [count : Nat, blocked : Nat]

RecordTypes ==
    /\ pc \in [Requests -> Open \cup Answers \cup {"idle", "gone"}]
    /\ job \in [Requests -> {"none", "incident", "count", "send", "done"}]
    /\ tally \in [Requests -> {"none", "queued", "done"}]
    /\ simulation \in [Simulations -> {"idle", "recorded", "done"}]
    /\ incidents \subseteq Requests \cup Simulations
    /\ old \subseteq incidents
    /\ stats \in [Clients -> Row]

LostIncident(i) == <<"incident", i>> \in failed
LostCount(r) == <<"count", r>> \in failed
LostIncidents == {r \in Requests : LostIncident(r)}

(* What the tasks of a request have done says how far they have come: there  *)
(* is one of a kind at most, and none before the answer.                     *)
TaskInv ==
    \A r \in Requests :
        /\ job[r] # "none" <=> pc[r] \in {"blocked", "limited"}
        /\ pc[r] = "blocked" => r \in Attacks
        /\ pc[r] = "limited" => r \notin Attacks
        /\ tally[r] # "none" => r \notin Attacks
        /\ pc[r] \in {"idle", "reading", "read"} => tally[r] = "none"
        /\ job[r] = "count" => r \in Attacks
        /\ LostIncident(r) => job[r] \notin {"none", "incident"}
        /\ LostCount(r) => IF r \in Attacks THEN job[r] \in {"send", "done"} ELSE tally[r] = "done"

IncidentInv ==
    \A r \in Requests :
        r \in incidents <=> job[r] \notin {"none", "incident"} /\ ~LostIncident(r)

SentInv ==
    /\ \A i \in sent : i \in incidents \/ LostIncident(i)
    /\ \A s \in Simulations : simulation[s] = "recorded" => s \in incidents

BlockedOf(c) ==
    {r \in Requests : ClientOf[r] = c /\ pc[r] = "blocked" /\ job[r] \in {"send", "done"} /\ ~LostCount(r)}
PassedOf(c) ==
    {r \in Requests : ClientOf[r] = c /\ tally[r] = "done" /\ ~LostCount(r)}

CountInv ==
    \A c \in Clients :
        stats[c] = [count |-> Cardinality(BlockedOf(c)) + Cardinality(PassedOf(c)),
                    blocked |-> Cardinality(BlockedOf(c))]

RecordInv == RecordTypes /\ TaskInv /\ IncidentInv /\ SentInv /\ CountInv

(* All who were counted as blocked, by whatever client. *)
AllBlocked ==
    {r \in Requests : pc[r] = "blocked" /\ job[r] \in {"send", "done"} /\ ~LostCount(r)}

(* Steps of a request add no row and lose nothing. *)
LEMMA HandleRecords ==
  ASSUME RecordInv, NEW r \in Requests, Handle(r)
  PROVE  /\ RecordInv'
         /\ UNCHANGED <<stats, dash, incidents, failed>> /\ AllBlocked' = AllBlocked
<1> USE DEF Go, Open, Answers
<1>1. UNCHANGED <<simulation, tables, outcome, dash>>
  BY DEF Handle, Arrive, ReadBody, Abandon, Inspect, ReadUpstream, Forward, tasks
<1>2. \/ /\ UNCHANGED <<job, tally>>
         /\ \E t \in {"reading", "read", "bad_body", "gone", "refused", "passed",
                      "forwarding", "served", "unavailable"} : Go(r, Open \cup {"idle"}, t)
         /\ pc'[r] \in {"idle", "reading", "read"} => pc[r] \in {"idle", "reading", "read"}
      \/ /\ Go(r, {"read"}, "blocked") /\ r \in Attacks
         /\ job' = [job EXCEPT ![r] = "incident"] /\ UNCHANGED tally
      \/ /\ Go(r, {"read"}, "limited") /\ r \notin Attacks
         /\ job' = [job EXCEPT ![r] = "incident"] /\ tally' = [tally EXCEPT ![r] = "queued"]
      \/ /\ Go(r, {"read"}, "passed") /\ r \notin Attacks
         /\ tally' = [tally EXCEPT ![r] = "queued"] /\ UNCHANGED job
  BY DEF RecordInv, RecordTypes, Handle, Arrive, ReadBody, Abandon, Inspect, ReadUpstream, Forward, tasks,
         Trusted, UnderAttack, RuleMatches, NoRuleMatches
<1>3. RecordTypes'
  BY <1>1, <1>2 DEF RecordInv, RecordTypes, tables
<1>4. TaskInv'
  <2>1. \A q : LostIncident(q)' = LostIncident(q) /\ LostCount(q)' = LostCount(q)
    BY <1>1 DEF LostIncident, LostCount, outcome
  <2>2. \A q \in Requests : q # r => pc'[q] = pc[q] /\ job'[q] = job[q] /\ tally'[q] = tally[q]
    BY <1>2 DEF RecordInv, RecordTypes
  <2> SUFFICES ASSUME NEW q \in Requests, q = r
               PROVE  /\ job'[q] # "none" <=> pc'[q] \in {"blocked", "limited"}
                      /\ pc'[q] = "blocked" => q \in Attacks
                      /\ pc'[q] = "limited" => q \notin Attacks
                      /\ tally'[q] # "none" => q \notin Attacks
                      /\ pc'[q] \in {"idle", "reading", "read"} => tally'[q] = "none"
                      /\ job'[q] = "count" => q \in Attacks
                      /\ LostIncident(q) => job'[q] \notin {"none", "incident"}
                      /\ LostCount(q) => IF q \in Attacks THEN job'[q] \in {"send", "done"}
                                                          ELSE tally'[q] = "done"
    BY <2>1, <2>2 DEF RecordInv, TaskInv
  <2> QED BY <1>2 DEF RecordInv, RecordTypes, TaskInv
<1>5. IncidentInv' /\ SentInv'
  BY <1>1, <1>2 DEF RecordInv, RecordTypes, TaskInv, IncidentInv, SentInv, LostIncident, outcome, tables
<1>6. /\ \A c : BlockedOf(c)' = BlockedOf(c)
      /\ \A c : PassedOf(c)' = PassedOf(c)
      /\ AllBlocked' = AllBlocked
  BY <1>1, <1>2 DEF RecordInv, RecordTypes, TaskInv, BlockedOf, PassedOf, AllBlocked, LostCount, outcome
<1>7. CountInv'
  BY <1>1, <1>6 DEF RecordInv, CountInv, tables
<1> QED BY <1>1, <1>3, <1>4, <1>5, <1>6, <1>7 DEF RecordInv, tables, outcome

LEMMA IncidentRecords ==
  ASSUME RecordInv, NEW r \in Requests, RecordIncident(r)
  PROVE  /\ RecordInv'
         /\ UNCHANGED <<stats, dash>> /\ AllBlocked' = AllBlocked
         /\ incidents \subseteq incidents' /\ failed \subseteq failed'
<1>1. /\ UNCHANGED <<pc, tally, simulation, old, stats, sent, dash>>
      /\ job[r] = "incident" /\ job' = [job EXCEPT ![r] = IF r \in Attacks THEN "count" ELSE "send"]
      /\ \/ incidents' = incidents \cup {r} /\ UNCHANGED failed
         \/ failed' = failed \cup {<<"incident", r>>} /\ UNCHANGED incidents
  BY DEF RecordIncident, handlers
<1>2. RecordTypes'
  BY <1>1 DEF RecordInv, RecordTypes
<1>3. /\ \A q \in Requests : LostCount(q)' = LostCount(q)
      /\ \A q : LostIncident(q)' => LostIncident(q) \/ q = r
      /\ \A q : LostIncident(q) => LostIncident(q)'
      /\ LostIncident(r)' <=> r \notin incidents'
  <2>1. ~LostIncident(r) /\ r \notin incidents
    BY <1>1 DEF RecordInv, IncidentInv, TaskInv
  <2>2. <<"incident", r>> # <<"count", r>> /\ \A q : <<"incident", r>> # <<"count", q>>
    OBVIOUS
  <2> QED BY <1>1, <2>1, <2>2 DEF LostCount, LostIncident
<1>4. TaskInv'
  BY <1>1, <1>3 DEF RecordInv, RecordTypes, TaskInv
<1>5. IncidentInv' /\ SentInv'
  BY <1>1, <1>3, ProxyAssumption DEF RecordInv, RecordTypes, IncidentInv, SentInv
<1>6. /\ \A c : BlockedOf(c)' = BlockedOf(c)
      /\ \A c : PassedOf(c)' = PassedOf(c)
      /\ AllBlocked' = AllBlocked
  BY <1>1, <1>3 DEF RecordInv, RecordTypes, TaskInv, BlockedOf, PassedOf, AllBlocked
<1>7. CountInv'
  BY <1>1, <1>6 DEF RecordInv, CountInv
<1> QED BY <1>1, <1>2, <1>4, <1>5, <1>6, <1>7 DEF RecordInv

(* A request is counted once: its row grows by one, or its write is lost.    *)
LEMMA CountRecords ==
  ASSUME RecordInv, NEW r \in Requests, RecordBlocked(r) \/ RecordPassed(r)
  PROVE  /\ RecordInv'
         /\ UNCHANGED incidents /\ failed \subseteq failed'
         /\ LET d == IF r \in Attacks THEN 1 ELSE 0
            IN  \/ UNCHANGED <<stats, dash>> /\ AllBlocked' = AllBlocked
                \/ /\ \A c \in Clients : stats'[c].blocked = IF c = ClientOf[r] THEN stats[c].blocked + d
                                                             ELSE stats[c].blocked
                   /\ dash' = IF dash.at = "blocked" THEN [dash EXCEPT !.later = @ + d] ELSE dash
                   /\ AllBlocked' = (IF r \in Attacks THEN AllBlocked \cup {r} ELSE AllBlocked)
                   /\ r \notin AllBlocked
<1> DEFINE d == IF r \in Attacks THEN 1 ELSE 0
           a == ClientOf[r]
<1>0. a \in Clients /\ d \in {0, 1} /\ IsFiniteSet(Requests)
  BY ProxyAssumption
<1>1. /\ UNCHANGED <<pc, simulation, incidents, old, sent>>
      /\ IF r \in Attacks
         THEN job[r] = "count" /\ job' = [job EXCEPT ![r] = "send"] /\ UNCHANGED tally
         ELSE tally[r] = "queued" /\ tally' = [tally EXCEPT ![r] = "done"] /\ UNCHANGED job
      /\ \/ /\ stats' = [stats EXCEPT ![a].count = @ + 1, ![a].blocked = @ + d]
            /\ dash' = IF dash.at = "blocked" THEN [dash EXCEPT !.later = @ + d] ELSE dash
            /\ UNCHANGED failed
         \/ failed' = failed \cup {<<"count", r>>} /\ UNCHANGED <<stats, dash>>
  <2>1. CASE RecordBlocked(r)
    BY <2>1 DEF RecordInv, TaskInv, RecordBlocked, Upsert, handlers
  <2>2. CASE RecordPassed(r)
    BY <2>2 DEF RecordInv, TaskInv, RecordPassed, Upsert, handlers
  <2> QED BY <2>1, <2>2
<1> HIDE DEF d
<1>2. /\ ~LostCount(r) /\ r \notin AllBlocked
      /\ \A c : r \notin BlockedOf(c) \cup PassedOf(c)
  BY <1>1 DEF RecordInv, TaskInv, AllBlocked, BlockedOf, PassedOf
<1>3. \A q : LostIncident(q)' = LostIncident(q)
  BY <1>1 DEF LostIncident
<1>4. \A q : LostCount(q)' <=> LostCount(q) \/ (q = r /\ failed' # failed)
  BY <1>1, <1>2 DEF LostCount
<1>5. TaskInv' /\ IncidentInv' /\ SentInv'
  BY <1>1, <1>3, <1>4 DEF RecordInv, RecordTypes, TaskInv, IncidentInv, SentInv
<1>6. /\ stats' \in [Clients -> Row]
      /\ UNCHANGED stats
         \/ \A c \in Clients : stats'[c] = IF c = a THEN [count |-> stats[c].count + 1,
                                                          blocked |-> stats[c].blocked + d]
                                           ELSE stats[c]
  BY <1>0, <1>1 DEF RecordInv, RecordTypes, Row
<1>7. RecordTypes'
  BY <1>1, <1>6 DEF RecordInv, RecordTypes
<1>8. CASE failed' # failed
  <2>1. UNCHANGED <<stats, dash>>
    BY <1>1, <1>8
  <2>2. /\ \A c : BlockedOf(c)' = BlockedOf(c)
        /\ \A c : PassedOf(c)' = PassedOf(c)
        /\ AllBlocked' = AllBlocked
    BY <1>1, <1>2, <1>4, <1>8 DEF RecordInv, RecordTypes, TaskInv, BlockedOf, PassedOf, AllBlocked
  <2>3. CountInv'
    BY <2>1, <2>2 DEF RecordInv, CountInv
  <2> QED BY <1>1, <1>5, <1>7, <2>1, <2>2, <2>3 DEF RecordInv
<1>9. CASE failed' = failed
  <2>1. /\ \A c \in Clients : stats'[c] = IF c = a THEN [count |-> stats[c].count + 1,
                                                         blocked |-> stats[c].blocked + d]
                                          ELSE stats[c]
        /\ dash' = IF dash.at = "blocked" THEN [dash EXCEPT !.later = @ + d] ELSE dash
    <3>1. <<"count", r>> \notin failed'
      BY <1>2, <1>9 DEF LostCount
    <3> QED BY <1>0, <1>1, <3>1 DEF RecordInv, RecordTypes, Row
  <2>2. CASE r \in Attacks
    <3>0. job[r] = "count" /\ job' = [job EXCEPT ![r] = "send"] /\ UNCHANGED tally /\ pc[r] = "blocked"
          /\ d = 1
      BY <1>1, <2>2 DEF RecordInv, TaskInv, d
    <3>1. /\ \A c : BlockedOf(c)' = (IF c = a THEN BlockedOf(c) \cup {r} ELSE BlockedOf(c))
          /\ \A c : PassedOf(c)' = PassedOf(c)
          /\ AllBlocked' = AllBlocked \cup {r}
      BY <1>1, <1>2, <1>4, <1>9, <3>0 DEF RecordInv, RecordTypes, BlockedOf, PassedOf, AllBlocked
    <3>2. Cardinality(BlockedOf(a) \cup {r}) = Cardinality(BlockedOf(a)) + 1
      <4>1. IsFiniteSet(BlockedOf(a))
        BY <1>0, FS_Subset DEF BlockedOf
      <4> QED BY <1>2, <4>1, FS_AddElement
    <3>3. \A c : Cardinality(BlockedOf(c)) \in Nat /\ Cardinality(PassedOf(c)) \in Nat
      BY <1>0, FS_Subset, FS_CardinalityType DEF BlockedOf, PassedOf
    <3>4. CountInv'
      <4> SUFFICES ASSUME NEW c \in Clients
                   PROVE  stats'[c] = [count |-> Cardinality(BlockedOf(c)') + Cardinality(PassedOf(c)'),
                                       blocked |-> Cardinality(BlockedOf(c)')]
        BY DEF CountInv
      <4>1. stats[c] = [count |-> Cardinality(BlockedOf(c)) + Cardinality(PassedOf(c)),
                        blocked |-> Cardinality(BlockedOf(c))]
        BY DEF RecordInv, CountInv
      <4>2. CASE c = a
        <5>1. stats'[a] = [count |-> stats[a].count + 1, blocked |-> stats[a].blocked + d]
          BY <1>0, <2>1
        <5>2. stats[a].count = Cardinality(BlockedOf(a)) + Cardinality(PassedOf(a))
              /\ stats[a].blocked = Cardinality(BlockedOf(a))
          BY <4>1, <4>2
        <5>3. Cardinality(BlockedOf(a)') = Cardinality(BlockedOf(a)) + 1
              /\ Cardinality(PassedOf(a)') = Cardinality(PassedOf(a))
          BY <3>1, <3>2
        <5>4. stats[a].count + 1 = Cardinality(BlockedOf(a)) + 1 + Cardinality(PassedOf(a))
              /\ stats[a].blocked + d = Cardinality(BlockedOf(a)) + 1
          BY <3>0, <3>3, <5>2
        <5> QED BY <4>2, <5>1, <5>3, <5>4
      <4>3. CASE c # a
        BY <2>1, <3>1, <4>1, <4>3
      <4> QED BY <4>2, <4>3
    <3>5. ASSUME NEW c \in Clients
          PROVE  stats'[c].blocked = IF c = a THEN stats[c].blocked + d ELSE stats[c].blocked
      <4>1. CASE c = a
        <5>1. stats'[c] = [count |-> stats[c].count + 1, blocked |-> stats[c].blocked + d]
          BY <2>1, <4>1
        <5> QED BY <4>1, <5>1
      <4>2. CASE c # a
        BY <2>1, <4>2
      <4> QED BY <4>1, <4>2
    <3>6. AllBlocked' = (IF r \in Attacks THEN AllBlocked \cup {r} ELSE AllBlocked)
      BY <2>2, <3>1
    <3> QED BY <1>1, <1>2, <1>5, <1>7, <1>9, <2>1, <3>4, <3>5, <3>6 DEF RecordInv, d
  <2>3. CASE r \notin Attacks
    <3>0. tally[r] = "queued" /\ tally' = [tally EXCEPT ![r] = "done"] /\ UNCHANGED job /\ d = 0
      BY <1>1, <2>3 DEF d
    <3>1. /\ \A c : PassedOf(c)' = (IF c = a THEN PassedOf(c) \cup {r} ELSE PassedOf(c))
          /\ \A c : BlockedOf(c)' = BlockedOf(c)
          /\ AllBlocked' = AllBlocked
      BY <1>1, <1>2, <1>4, <1>9, <3>0 DEF RecordInv, RecordTypes, BlockedOf, PassedOf, AllBlocked
    <3>2. Cardinality(PassedOf(a) \cup {r}) = Cardinality(PassedOf(a)) + 1
      <4>1. IsFiniteSet(PassedOf(a))
        BY <1>0, FS_Subset DEF PassedOf
      <4> QED BY <1>2, <4>1, FS_AddElement
    <3>3. \A c : Cardinality(BlockedOf(c)) \in Nat /\ Cardinality(PassedOf(c)) \in Nat
      BY <1>0, FS_Subset, FS_CardinalityType DEF BlockedOf, PassedOf
    <3>4. CountInv'
      <4> SUFFICES ASSUME NEW c \in Clients
                   PROVE  stats'[c] = [count |-> Cardinality(BlockedOf(c)') + Cardinality(PassedOf(c)'),
                                       blocked |-> Cardinality(BlockedOf(c)')]
        BY DEF CountInv
      <4>1. stats[c] = [count |-> Cardinality(BlockedOf(c)) + Cardinality(PassedOf(c)),
                        blocked |-> Cardinality(BlockedOf(c))]
        BY DEF RecordInv, CountInv
      <4>2. CASE c = a
        <5>1. stats'[a] = [count |-> stats[a].count + 1, blocked |-> stats[a].blocked + d]
          BY <1>0, <2>1
        <5>2. stats[a].count = Cardinality(BlockedOf(a)) + Cardinality(PassedOf(a))
              /\ stats[a].blocked = Cardinality(BlockedOf(a))
          BY <4>1, <4>2
        <5>3. Cardinality(PassedOf(a)') = Cardinality(PassedOf(a)) + 1
              /\ Cardinality(BlockedOf(a)') = Cardinality(BlockedOf(a))
          BY <3>1, <3>2
        <5>4. stats[a].count + 1 = Cardinality(BlockedOf(a)) + (Cardinality(PassedOf(a)) + 1)
              /\ stats[a].blocked + d = Cardinality(BlockedOf(a))
          BY <3>0, <3>3, <5>2
        <5> QED BY <4>2, <5>1, <5>3, <5>4
      <4>3. CASE c # a
        BY <2>1, <3>1, <4>1, <4>3
      <4> QED BY <4>2, <4>3
    <3>5. ASSUME NEW c \in Clients
          PROVE  stats'[c].blocked = IF c = a THEN stats[c].blocked + d ELSE stats[c].blocked
      <4>1. CASE c = a
        <5>1. stats'[c] = [count |-> stats[c].count + 1, blocked |-> stats[c].blocked + d]
          BY <2>1, <4>1
        <5> QED BY <4>1, <5>1
      <4>2. CASE c # a
        BY <2>1, <4>2
      <4> QED BY <4>1, <4>2
    <3>6. AllBlocked' = (IF r \in Attacks THEN AllBlocked \cup {r} ELSE AllBlocked)
      BY <2>3, <3>1
    <3> QED BY <1>1, <1>2, <1>5, <1>7, <1>9, <2>1, <3>4, <3>5, <3>6 DEF RecordInv, d
  <2> QED BY <2>2, <2>3
<1> QED BY <1>8, <1>9

LEMMA AnnounceRecords ==
  ASSUME RecordInv, (\E r \in Requests : Broadcast(r)) \/ (\E s \in Simulations : Simulate(s) \/ Announce(s))
  PROVE  /\ RecordInv'
         /\ UNCHANGED <<stats, dash, failed>> /\ AllBlocked' = AllBlocked
         /\ incidents \subseteq incidents'
<1>1. CASE \E r \in Requests : Broadcast(r)
  <2>1. PICK r \in Requests : Broadcast(r)
    BY <1>1
  <2>2. /\ UNCHANGED <<pc, tally, simulation, incidents, old, stats, failed, dash>>
        /\ job[r] = "send" /\ job' = [job EXCEPT ![r] = "done"] /\ sent' = sent \cup {r}
    BY <2>1 DEF Broadcast, handlers, tables
  <2>3. RecordTypes' /\ TaskInv'
    BY <2>2 DEF RecordInv, RecordTypes, TaskInv, LostIncident, LostCount
  <2>4. IncidentInv' /\ SentInv'
    BY <2>2 DEF RecordInv, RecordTypes, IncidentInv, SentInv, LostIncident
  <2>5. /\ \A c : BlockedOf(c)' = BlockedOf(c)
        /\ \A c : PassedOf(c)' = PassedOf(c)
        /\ AllBlocked' = AllBlocked
    BY <2>2 DEF RecordInv, RecordTypes, BlockedOf, PassedOf, AllBlocked, LostCount
  <2> QED BY <2>2, <2>3, <2>4, <2>5 DEF RecordInv, CountInv
<1>2. CASE \E s \in Simulations : Simulate(s) \/ Announce(s)
  <2>1. PICK s \in Simulations : Simulate(s) \/ Announce(s)
    BY <1>2
  <2>2. /\ UNCHANGED <<pc, job, tally, old, stats, failed, dash>>
        /\ \/ /\ simulation' = [simulation EXCEPT ![s] = "recorded"]
              /\ incidents' = incidents \cup {s} /\ UNCHANGED sent
           \/ simulation' = [simulation EXCEPT ![s] = "done"] /\ UNCHANGED <<incidents, sent>>
           \/ /\ simulation[s] = "recorded"
              /\ simulation' = [simulation EXCEPT ![s] = "done"]
              /\ sent' = sent \cup {s} /\ UNCHANGED incidents
    BY <2>1 DEF Simulate, Announce, handlers, tables, outcome
  <2>3. RecordTypes' /\ TaskInv'
    BY <2>2 DEF RecordInv, RecordTypes, TaskInv, LostIncident, LostCount
  <2>4. s \notin Requests
    BY ProxyAssumption
  <2>5. IncidentInv'
    BY <2>2, <2>4 DEF RecordInv, IncidentInv, LostIncident
  <2>6. SentInv'
    BY <2>2 DEF RecordInv, RecordTypes, SentInv, LostIncident
  <2>7. /\ \A c : BlockedOf(c)' = BlockedOf(c)
        /\ \A c : PassedOf(c)' = PassedOf(c)
        /\ AllBlocked' = AllBlocked
    BY <2>2 DEF BlockedOf, PassedOf, AllBlocked, LostCount
  <2> QED BY <2>2, <2>3, <2>5, <2>6, <2>7 DEF RecordInv, CountInv
<1> QED BY <1>1, <1>2

(* A management call records nothing, nor does a query or the passing of time. *)
LEMMA NothingRecorded ==
  ASSUME RecordInv, UNCHANGED <<pc, job, tally, simulation, incidents, stats, sent, failed>>,
         old' \subseteq incidents
  PROVE  RecordInv' /\ AllBlocked' = AllBlocked
<1>1. /\ \A c : BlockedOf(c)' = BlockedOf(c)
      /\ \A c : PassedOf(c)' = PassedOf(c)
      /\ AllBlocked' = AllBlocked
  BY DEF BlockedOf, PassedOf, AllBlocked, LostCount
<1>2. RecordTypes' /\ TaskInv'
  BY DEF RecordInv, RecordTypes, TaskInv, LostIncident, LostCount
<1>3. IncidentInv' /\ SentInv'
  BY DEF RecordInv, IncidentInv, SentInv, LostIncident
<1>4. CountInv'
  BY <1>1 DEF RecordInv, CountInv
<1> QED BY <1>1, <1>2, <1>3, <1>4 DEF RecordInv

(* What a task has left to do when the process ends is lost. *)
LEMMA RestartRecords ==
  ASSUME RecordInv, Restart
  PROVE  /\ RecordInv'
         /\ UNCHANGED <<stats, incidents>> /\ failed \subseteq failed' /\ AllBlocked' = AllBlocked
<1>1. /\ UNCHANGED <<incidents, old, stats, sent>>
      /\ pc' = [r \in Requests |-> IF pc[r] \in Open THEN "gone" ELSE pc[r]]
      /\ job' = [r \in Requests |-> IF job[r] = "none" THEN "none" ELSE "done"]
      /\ tally' = [r \in Requests |-> IF tally[r] = "none" THEN "none" ELSE "done"]
      /\ simulation' = [s \in Simulations |-> IF simulation[s] = "idle" THEN "idle" ELSE "done"]
      /\ failed \subseteq failed'
  BY DEF Restart, tables
<1>2. /\ \A i : LostIncident(i)' <=> LostIncident(i) \/ (i \in Requests /\ job[i] = "incident")
      /\ \A r : LostCount(r)' <=> \/ LostCount(r)
                                  \/ r \in Attacks /\ r \in Requests /\ job[r] \in {"incident", "count"}
                                  \/ r \in Requests /\ tally[r] = "queued"
  <2>1. failed' = failed \cup {<<"incident", r>> : r \in {q \in Requests : job[q] = "incident"}}
                         \cup {<<"count", r>> : r \in {q \in Attacks : job[q] \in {"incident", "count"}}}
                         \cup {<<"count", r>> : r \in {q \in Requests : tally[q] = "queued"}}
    BY DEF Restart
  <2>2. Attacks \subseteq Requests /\ "incident" # "count"
    BY ProxyAssumption
  <2> QED BY <2>1, <2>2 DEF LostIncident, LostCount
<1>3. RecordTypes'
  BY <1>1 DEF RecordInv, RecordTypes, Open
<1>4. TaskInv'
  <2> SUFFICES ASSUME NEW r \in Requests
               PROVE  /\ job'[r] # "none" <=> pc'[r] \in {"blocked", "limited"}
                      /\ pc'[r] = "blocked" => r \in Attacks
                      /\ pc'[r] = "limited" => r \notin Attacks
                      /\ tally'[r] # "none" => r \notin Attacks
                      /\ pc'[r] \in {"idle", "reading", "read"} => tally'[r] = "none"
                      /\ job'[r] = "count" => r \in Attacks
                      /\ LostIncident(r)' => job'[r] \notin {"none", "incident"}
                      /\ LostCount(r)' => IF r \in Attacks THEN job'[r] \in {"send", "done"}
                                                           ELSE tally'[r] = "done"
    BY DEF TaskInv
  <2>1. /\ pc'[r] = IF pc[r] \in Open THEN "gone" ELSE pc[r]
        /\ job'[r] = IF job[r] = "none" THEN "none" ELSE "done"
        /\ tally'[r] = IF tally[r] = "none" THEN "none" ELSE "done"
    BY <1>1
  <2>2. /\ job[r] # "none" <=> pc[r] \in {"blocked", "limited"}
        /\ pc[r] = "blocked" => r \in Attacks
        /\ pc[r] = "limited" => r \notin Attacks
        /\ tally[r] # "none" => r \notin Attacks
        /\ pc[r] \in {"idle", "reading", "read"} => tally[r] = "none"
        /\ LostIncident(r) => job[r] \notin {"none", "incident"}
        /\ LostCount(r) => IF r \in Attacks THEN job[r] \in {"send", "done"} ELSE tally[r] = "done"
    BY DEF RecordInv, TaskInv
  <2> QED BY <1>2, <2>1, <2>2 DEF Open
<1>5. IncidentInv'
  BY <1>1, <1>2 DEF RecordInv, RecordTypes, TaskInv, IncidentInv
<1>6. SentInv'
  BY <1>1, <1>2 DEF RecordInv, RecordTypes, SentInv
<1>7. ASSUME NEW r \in Requests
      PROVE  /\ pc'[r] = "blocked" /\ job'[r] \in {"send", "done"} /\ ~LostCount(r)'
                <=> pc[r] = "blocked" /\ job[r] \in {"send", "done"} /\ ~LostCount(r)
             /\ tally'[r] = "done" /\ ~LostCount(r)' <=> tally[r] = "done" /\ ~LostCount(r)
  <2>1. /\ pc'[r] = IF pc[r] \in Open THEN "gone" ELSE pc[r]
        /\ job'[r] = IF job[r] = "none" THEN "none" ELSE "done"
        /\ tally'[r] = IF tally[r] = "none" THEN "none" ELSE "done"
    BY <1>1
  <2>2. /\ job[r] \in {"none", "incident", "count", "send", "done"} /\ tally[r] \in {"none", "queued", "done"}
        /\ pc[r] = "blocked" => r \in Attacks /\ job[r] # "none"
        /\ tally[r] # "none" => r \notin Attacks
    BY DEF RecordInv, RecordTypes, TaskInv
  <2> QED BY <1>2, <2>1, <2>2 DEF Open
<1>8. /\ \A c : BlockedOf(c)' = BlockedOf(c)
      /\ \A c : PassedOf(c)' = PassedOf(c)
      /\ AllBlocked' = AllBlocked
  BY <1>7 DEF BlockedOf, PassedOf, AllBlocked
<1>9. CountInv'
  BY <1>1, <1>8 DEF RecordInv, CountInv
<1> QED BY <1>1, <1>3, <1>4, <1>5, <1>6, <1>8, <1>9 DEF RecordInv

LEMMA AgeingRecords ==
  ASSUME RecordInv, BecomeOld
  PROVE  /\ RecordInv'
         /\ UNCHANGED <<incidents, stats, failed, dash>> /\ AllBlocked' = AllBlocked
<1>1. UNCHANGED <<pc, job, tally, simulation, incidents, stats, sent, failed, dash>>
  BY DEF BecomeOld, tasks, outcome
<1>2. old' \subseteq incidents
  BY DEF BecomeOld, RecordInv, RecordTypes
<1> QED BY <1>1, <1>2, NothingRecorded

(* No row is young again. *)
LEMMA OldStays == [Next]_vars => old \subseteq old'
<1> SUFFICES ASSUME [Next]_vars PROVE old \subseteq old'
  OBVIOUS
<1>1. ASSUME NEW r \in Requests, Handle(r) \/ Record(r) \/ RecordPassed(r)
      PROVE  UNCHANGED old
  BY <1>1 DEF Handle, Arrive, ReadBody, Abandon, Inspect, ReadUpstream, Forward, Record, RecordIncident,
     RecordBlocked, Broadcast, RecordPassed, tables
<1>2. ASSUME NEW m \in Calls, Manage(m)
      PROVE  UNCHANGED old
  BY <1>2 DEF Manage, SetPosture, UpdateConfig, Persist, tables
<1>3. ASSUME NEW s \in Simulations, Simulate(s) \/ Announce(s)
      PROVE  UNCHANGED old
  BY <1>3 DEF Simulate, Announce, tables
<1>4. CASE OpenDashboard \/ Query \/ Restart
  BY <1>4 DEF OpenDashboard, Query, ReadTotal, ReadBlocked, ReadIncidents, DashboardFails, Restart, tables
<1>5. CASE BecomeOld
  BY <1>5 DEF BecomeOld
<1>6. CASE UNCHANGED vars
  BY <1>6 DEF vars, tables
<1> QED BY <1>1, <1>2, <1>3, <1>4, <1>5, <1>6 DEF Next

LEMMA RecordsInitially == Init => RecordInv
<1> SUFFICES ASSUME Init PROVE RecordInv
  OBVIOUS
<1>1. RecordTypes /\ TaskInv /\ IncidentInv /\ SentInv
  BY DEF Init, RecordTypes, TaskInv, IncidentInv, SentInv, LostIncident, LostCount, Open, Answers, Row
<1>2. \A c : BlockedOf(c) = {} /\ PassedOf(c) = {}
  BY DEF Init, BlockedOf, PassedOf
<1>3. CountInv
  <2> SUFFICES ASSUME NEW c \in Clients
               PROVE  stats[c] = [count |-> Cardinality(BlockedOf(c)) + Cardinality(PassedOf(c)),
                                  blocked |-> Cardinality(BlockedOf(c))]
    BY DEF CountInv
  <2>1. stats[c] = [count |-> 0, blocked |-> 0]
    BY DEF Init
  <2>2. Cardinality(BlockedOf(c)) = 0 /\ Cardinality(PassedOf(c)) = 0
    BY <1>2, FS_EmptySet
  <2> QED BY <2>1, <2>2
<1> QED BY <1>1, <1>3 DEF RecordInv

LEMMA RecordsStep == RecordInv /\ [Next]_vars => RecordInv'
<1> SUFFICES ASSUME RecordInv, [Next]_vars PROVE RecordInv'
  OBVIOUS
<1>1. ASSUME NEW r \in Requests, Handle(r) \/ Record(r) \/ RecordPassed(r)
      PROVE  RecordInv'
  BY <1>1, HandleRecords, IncidentRecords, CountRecords, AnnounceRecords DEF Record
<1>2. ASSUME NEW m \in Calls, Manage(m)
      PROVE  RecordInv'
  BY <1>2, NothingRecorded DEF Manage, SetPosture, UpdateConfig, Persist, handlers, tasks, tables, outcome,
     RecordInv, RecordTypes
<1>3. ASSUME NEW s \in Simulations, Simulate(s) \/ Announce(s)
      PROVE  RecordInv'
  BY <1>3, AnnounceRecords
<1>4. CASE OpenDashboard \/ Query
  BY <1>4, NothingRecorded DEF OpenDashboard, Query, ReadTotal, ReadBlocked, ReadIncidents, DashboardFails,
     handlers, tasks, tables, outcome, RecordInv, RecordTypes
<1>5. CASE BecomeOld \/ Restart
  BY <1>5, AgeingRecords, RestartRecords
<1>6. CASE UNCHANGED vars
  BY <1>6, NothingRecorded DEF vars, handlers, tasks, tables, outcome, RecordInv, RecordTypes
<1> QED BY <1>1, <1>2, <1>3, <1>4, <1>5, <1>6 DEF Next

(* RecordInv is inductive. *)
LEMMA RecordsKept == Spec => []RecordInv
BY RecordsInitially, RecordsStep, PTL DEF Spec

(* A request was answered by the rules or the limiter exactly when its       *)
(* incident is stored, waits for its task or was lost; each client's row     *)
(* counts its inspected requests; and what was announced was stored first.   *)
THEOREM RecordsComplete == Spec => []RecordsMatchAnswers
<1>1. RecordInv => RecordsMatchAnswers
  <2> SUFFICES ASSUME RecordInv PROVE RecordsMatchAnswers
    OBVIOUS
  <2>1. \A r \in Requests :
            r \in incidents <=> /\ pc[r] \in {"blocked", "limited"}
                                /\ job[r] # "incident"
                                /\ ~ (<<"incident", r>> \in failed)
    BY DEF RecordInv, TaskInv, IncidentInv, LostIncident
  <2>2. \A c \in Clients :
           LET Blocked == {r \in Requests : ClientOf[r] = c /\ pc[r] = "blocked"
                              /\ job[r] \in {"send", "done"} /\ ~ (<<"count", r>> \in failed)}
               Passed == {r \in Requests : ClientOf[r] = c /\ tally[r] = "done"
                              /\ ~ (<<"count", r>> \in failed)}
           IN stats[c] = [count |-> Cardinality(Blocked) + Cardinality(Passed),
                          blocked |-> Cardinality(Blocked)]
    BY DEF RecordInv, CountInv, BlockedOf, PassedOf, LostCount
  <2>3. \A i \in sent : i \in incidents \/ <<"incident", i>> \in failed
    BY DEF RecordInv, SentInv, LostIncident
  <2> QED BY <2>1, <2>2, <2>3 DEF RecordsMatchAnswers
<1> QED BY <1>1, RecordsKept, PTL

-----------------------------------------------------------------------------
(* Sums.  The induction theorems of the library cannot be instantiated, so   *)
(* each fact is proved for a smallest subset that would contradict it.       *)

First(s) == CHOOSE x \in s : TRUE

(* g gives each subset of S the sum of the weights of its elements.          *)
Sums(g, w, S) ==
    /\ g \in [SUBSET S -> Nat]
    /\ g[{}] = 0
    /\ \A s \in SUBSET S : s # {} => g[s] = w[First(s)] + g[s \ {First(s)}]

Raised(v, a, d) == [v EXCEPT ![a] = v[a] + d]

(* f is computed as a fold computes it.                                      *)
Recurs(f, w, S) ==
    \A s \in SUBSET S : f[s] = IF s = {} THEN 0 ELSE w[First(s)] + f[s \ {First(s)}]

(* Every non-empty set of finite sets has a member none of whose parts is    *)
(* in it.                                                                    *)
LEMMA LeastSet ==
  ASSUME NEW S, IsFiniteSet(S), NEW B, B \subseteq SUBSET S, B # {}
  PROVE  \E s \in B : \A x \in s : s \ {x} \notin B
<1>1. IsWellFoundedOn(StrictSubsetOrdering(S), SUBSET S)
  BY FS_StrictSubsetOrderingWellFounded, FS_FiniteSubsetsOfFinite
<1>2. PICK s \in B : \A y \in B : ~ (<<y, s>> \in StrictSubsetOrdering(S))
  <2> HIDE DEF StrictSubsetOrdering
  <2> QED BY <1>1, WFMin, Zenon
<1>3. ASSUME NEW x \in s, s \ {x} \in B
      PROVE  FALSE
  <2>1. <<s \ {x}, s>> \in StrictSubsetOrdering(S)
    BY <1>3 DEF StrictSubsetOrdering
  <2> QED BY <1>2, <1>3, <2>1
<1> QED BY <1>3

LEMMA LeastNumber ==
  ASSUME NEW S, S \subseteq Nat, S # {}
  PROVE  \E n \in S : n = 0 \/ (n - 1 \in Nat /\ n - 1 \notin S)
<1> DEFINE Less == {ss \in Nat \X Nat : ss[1] < ss[2]}
<1>1. IsWellFoundedOn(Less, Nat)
  BY NatLessThanWellFounded DEF OpToRel
<1> HIDE DEF Less
<1>2. \E n \in S : \A i \in S : ~ (<<i, n>> \in Less)
  BY <1>1, WFMin, Zenon
<1>3. PICK n \in S : \A i \in S : ~ (<<i, n>> \in Less)
  BY <1>2
<1>4. ASSUME n # 0, n - 1 \in S
      PROVE  FALSE
  <2>1. <<n - 1, n>> \in Less
    BY <1>4 DEF Less
  <2> QED BY <1>3, <1>4, <2>1
<1> QED BY <1>4

LEMMA SumsExist ==
  ASSUME NEW S, IsFiniteSet(S), NEW w \in [S -> Nat]
  PROVE  \E g : Sums(g, w, S)
<1> DEFINE Small(n) == {s \in SUBSET S : Cardinality(s) <= n}
           Upto(n) == \E g \in [Small(n) -> Nat] :
                         /\ g[{}] = 0
                         /\ \A s \in Small(n) : s # {} => g[s] = w[First(s)] + g[s \ {First(s)}]
           B == {n \in Nat : ~ Upto(n)}
<1>1. \A s \in SUBSET S : /\ IsFiniteSet(s) /\ Cardinality(s) \in Nat
                          /\ Cardinality(s) = 0 <=> s = {}
  BY FS_Subset, FS_CardinalityType, FS_EmptySet
<1>2. \A s \in SUBSET S : s # {} =>
         /\ First(s) \in s /\ First(s) \in S
         /\ s \ {First(s)} \in SUBSET S
         /\ Cardinality(s \ {First(s)}) = Cardinality(s) - 1
  BY <1>1, FS_RemoveElement DEF First
<1>3. Upto(0)
  <2>1. Small(0) = {{}}
    BY <1>1
  <2> DEFINE g == [s \in Small(0) |-> 0]
  <2>2. g \in [Small(0) -> Nat] /\ g[{}] = 0 /\ \A s \in Small(0) : s = {}
    BY <2>1
  <2> QED BY <2>2
<1>4. ASSUME NEW n \in Nat, Upto(n)
      PROVE  Upto(n + 1)
  <2>1. PICK g \in [Small(n) -> Nat] :
           /\ g[{}] = 0
           /\ \A s \in Small(n) : s # {} => g[s] = w[First(s)] + g[s \ {First(s)}]
    BY <1>4
  <2> DEFINE h == [s \in Small(n + 1) |-> IF s \in Small(n) THEN g[s]
                                          ELSE w[First(s)] + g[s \ {First(s)}]]
  <2>2. {} \in Small(n) /\ {} \in Small(n + 1) /\ Small(n) \subseteq Small(n + 1)
    BY <1>1
  <2>3. \A s \in Small(n + 1) : s # {} => s \ {First(s)} \in Small(n)
    BY <1>1, <1>2
  <2> HIDE DEF Small
  <2>4. h \in [Small(n + 1) -> Nat]
    <3> SUFFICES ASSUME NEW s \in Small(n + 1)
                 PROVE  (IF s \in Small(n) THEN g[s] ELSE w[First(s)] + g[s \ {First(s)}]) \in Nat
      OBVIOUS
    <3>1. CASE s \in Small(n)
      BY <3>1
    <3>2. CASE s \notin Small(n)
      <4>1. s # {} /\ s \in SUBSET S
        BY <2>2, <3>2 DEF Small
      <4>2. w[First(s)] \in Nat /\ g[s \ {First(s)}] \in Nat
        BY <1>2, <2>3, <4>1
      <4> QED BY <3>2, <4>2
    <3> QED BY <3>1, <3>2
  <2>5. h[{}] = 0
    BY <2>1, <2>2
  <2>6. ASSUME NEW s \in Small(n + 1), s # {}
        PROVE  h[s] = w[First(s)] + h[s \ {First(s)}]
    BY <2>1, <2>2, <2>3, <2>6
  <2> HIDE DEF h
  <2> QED BY <2>4, <2>5, <2>6
<1> HIDE DEF Upto
<1>5. \A n \in Nat : Upto(n)
  <2> SUFFICES ASSUME B # {} PROVE FALSE
    OBVIOUS
  <2>1. PICK n \in B : n = 0 \/ (n - 1 \in Nat /\ n - 1 \notin B)
    <3>1. B \subseteq Nat
      OBVIOUS
    <3> HIDE DEF B
    <3> QED BY <3>1, LeastNumber
  <2>2. n # 0
    BY <1>3, <2>1
  <2>3. n - 1 \in Nat /\ Upto(n - 1) /\ n \in Nat /\ ~ Upto(n) /\ (n - 1) + 1 = n
    BY <2>1, <2>2
  <2>4. Upto((n - 1) + 1)
    BY <1>4, <2>3
  <2> QED BY <2>3, <2>4
<1>6. Cardinality(S) \in Nat /\ Small(Cardinality(S)) = SUBSET S
  BY <1>1, FS_Subset
<1> QED BY <1>5, <1>6 DEF Upto, Sums

(* A function that recurs as a sum does is one. *)
LEMMA SumsUnique ==
  ASSUME NEW S, IsFiniteSet(S), NEW w, NEW g, Sums(g, w, S),
         NEW f, Recurs(f, w, S)
  PROVE  f[S] = g[S]
<1> DEFINE B == {s \in SUBSET S : f[s] # g[s]}
<1> SUFFICES ASSUME B # {} PROVE FALSE
  OBVIOUS
<1>1. PICK s \in B : \A x \in s : s \ {x} \notin B
  <2>1. B \subseteq SUBSET S
    OBVIOUS
  <2> HIDE DEF B
  <2> QED BY <2>1, LeastSet
<1>2. s # {}
  BY <1>1 DEF Sums, Recurs
<1>3. First(s) \in s /\ s \in SUBSET S /\ s \ {First(s)} \in SUBSET S
  BY <1>1, <1>2 DEF First
<1>4. f[s \ {First(s)}] = g[s \ {First(s)}]
  BY <1>1, <1>3
<1>5. f[s] = w[First(s)] + f[s \ {First(s)}]
  BY <1>2, <1>3 DEF Recurs
<1> QED BY <1>1, <1>2, <1>3, <1>4, <1>5 DEF Sums

LEMMA SumsOrdered ==
  ASSUME NEW S, IsFiniteSet(S), NEW v \in [S -> Nat], NEW w \in [S -> Nat],
         NEW g, NEW h, Sums(g, v, S), Sums(h, w, S), \A x \in S : v[x] <= w[x]
  PROVE  g[S] <= h[S]
<1> DEFINE B == {s \in SUBSET S : ~ (g[s] <= h[s])}
<1>0. g[{}] = 0 /\ h[{}] = 0
  BY DEF Sums
<1> SUFFICES ASSUME B # {} PROVE FALSE
  OBVIOUS
<1>1. PICK s \in B : \A x \in s : s \ {x} \notin B
  <2>1. B \subseteq SUBSET S
    OBVIOUS
  <2> HIDE DEF B
  <2> QED BY <2>1, LeastSet
<1>2. s # {}
  <2>1. ~ (g[s] <= h[s])
    BY <1>1
  <2>2. s = {} => ~ (0 <= 0)
    BY <1>0, <2>1
  <2>3. 0 <= 0
    OBVIOUS
  <2> QED BY <2>2, <2>3
<1>3. First(s) \in s /\ First(s) \in S /\ s \in SUBSET S /\ s \ {First(s)} \in SUBSET S
  BY <1>1, <1>2 DEF First
<1>4. g[s \ {First(s)}] <= h[s \ {First(s)}]
  BY <1>1, <1>3
<1>5. /\ g[s] = v[First(s)] + g[s \ {First(s)}] /\ g[s \ {First(s)}] \in Nat
      /\ h[s] = w[First(s)] + h[s \ {First(s)}] /\ h[s \ {First(s)}] \in Nat
  BY <1>2, <1>3 DEF Sums
<1>6. v[First(s)] <= w[First(s)] /\ v[First(s)] \in Nat /\ w[First(s)] \in Nat
  BY <1>3
<1>7. g[s] <= h[s]
  BY <1>4, <1>5, <1>6
<1> QED BY <1>1, <1>7

LEMMA SumsGrow ==
  ASSUME NEW S, IsFiniteSet(S), NEW v \in [S -> Nat], NEW w \in [S -> Nat],
         NEW g, NEW h, Sums(g, v, S), Sums(h, w, S), NEW a \in S, NEW d \in Nat,
         w = Raised(v, a, d)
  PROVE  h[S] = g[S] + d
<1> DEFINE B == {s \in SUBSET S : h[s] # IF a \in s THEN g[s] + d ELSE g[s]}
<1> SUFFICES ASSUME B # {} PROVE FALSE
  OBVIOUS
<1>1. PICK s \in B : \A x \in s : s \ {x} \notin B
  <2>1. B \subseteq SUBSET S
    OBVIOUS
  <2> HIDE DEF B
  <2> QED BY <2>1, LeastSet
<1>2. s # {}
  BY <1>1 DEF Sums
<1> DEFINE x == First(s)
<1>3. x \in s /\ x \in S /\ s \in SUBSET S /\ s \ {x} \in SUBSET S
  BY <1>1, <1>2 DEF First
<1>4. h[s \ {x}] = IF a \in s \ {x} THEN g[s \ {x}] + d ELSE g[s \ {x}]
  BY <1>1, <1>3
<1>5. /\ g[s] = v[x] + g[s \ {x}] /\ g[s \ {x}] \in Nat
      /\ h[s] = w[x] + h[s \ {x}] /\ h[s \ {x}] \in Nat
  BY <1>2, <1>3 DEF Sums
<1>6. v[x] \in Nat /\ w[x] = IF x = a THEN v[x] + d ELSE v[x]
  BY <1>3 DEF Raised
<1> HIDE DEF x
<1>7. h[s] = IF a \in s THEN g[s] + d ELSE g[s]
  <2>1. CASE x = a
    BY <1>3, <1>4, <1>5, <1>6, <2>1
  <2>2. CASE x # a
    BY <1>3, <1>4, <1>5, <1>6, <2>2
  <2> QED BY <2>1, <2>2
<1> QED BY <1>1, <1>7

LEMMA SumsOfZeros ==
  ASSUME NEW S, IsFiniteSet(S), NEW w, NEW g, Sums(g, w, S), \A x \in S : w[x] = 0
  PROVE  g[S] = 0
<1> DEFINE B == {s \in SUBSET S : g[s] # 0}
<1> SUFFICES ASSUME B # {} PROVE FALSE
  OBVIOUS
<1>1. PICK s \in B : \A x \in s : s \ {x} \notin B
  <2>1. B \subseteq SUBSET S
    OBVIOUS
  <2> HIDE DEF B
  <2> QED BY <2>1, LeastSet
<1>2. s # {}
  BY <1>1 DEF Sums
<1>3. First(s) \in s /\ First(s) \in S /\ s \in SUBSET S /\ s \ {First(s)} \in SUBSET S
  BY <1>1, <1>2 DEF First
<1>4. g[s \ {First(s)}] = 0 /\ g[s] = w[First(s)] + g[s \ {First(s)}] /\ w[First(s)] = 0
  BY <1>1, <1>2, <1>3 DEF Sums
<1> QED BY <1>1, <1>4

(* SELECT SUM(f) over rows st. *)
SumIn(st, f) == MapThenSumSet(LAMBDA c : st[c][f], Clients)
Weights(st, f) == [c \in Clients |-> st[c][f]]

LEMMA SumInIs ==
  ASSUME NEW f \in {"count", "blocked"}, NEW st \in [Clients -> Row], NEW g, Sums(g, Weights(st, f), Clients)
  PROVE  SumIn(st, f) = g[Clients]
<1> DEFINE w == Weights(st, f)
           Rec(h) == h = [s \in SUBSET Clients |->
                            IF s = {} THEN 0 ELSE st[First(s)][f] + h[s \ {First(s)}]]
           it == CHOOSE h : Rec(h)
<1>1. \A s \in SUBSET Clients : s # {} => st[First(s)][f] = w[First(s)]
  BY DEF Weights, First
<1>2. Rec(g)
  <2>1. \A s \in SUBSET Clients : g[s] = IF s = {} THEN 0 ELSE st[First(s)][f] + g[s \ {First(s)}]
    BY <1>1 DEF Sums
  <2> QED BY <2>1 DEF Sums
<1>3. Rec(it)
  <2> HIDE DEF Rec
  <2> QED BY <1>2
<1>4. SumIn(st, f) = it[Clients]
  BY DEF SumIn, MapThenSumSet, MapThenFoldSet, First
<1> HIDE DEF it
<1>5. Recurs(it, w, Clients)
  BY <1>1, <1>3 DEF Recurs
<1> HIDE DEF Rec, w
<1>6. it[Clients] = g[Clients]
  BY <1>5, SumsUnique, ProxyAssumption DEF w
<1> QED BY <1>4, <1>6

LEMMA SumOfIs == \A f : SumOf(f) = SumIn(stats, f)
BY Zenon DEF SumOf, SumIn

LEMMA SumOfNext == \A f : SumOf(f)' = SumIn(stats', f)
BY SMT DEF SumOf, SumIn, MapThenSumSet, MapThenFoldSet

(* What the dashboard's two queries of request_stats return. *)
LEMMA SumOfFacts ==
  ASSUME RecordTypes, \A c \in Clients : stats[c].blocked <= stats[c].count
  PROVE  /\ SumOf("count") \in Nat /\ SumOf("blocked") \in Nat
         /\ SumOf("blocked") <= SumOf("count")
<1> DEFINE v == Weights(stats, "blocked")
           w == Weights(stats, "count")
<1>1. v \in [Clients -> Nat] /\ w \in [Clients -> Nat] /\ \A c \in Clients : v[c] <= w[c]
  BY DEF RecordTypes, Row, Weights
<1>2. IsFiniteSet(Clients) /\ stats \in [Clients -> Row]
  BY ProxyAssumption DEF RecordTypes
<1> HIDE DEF v, w
<1>3. PICK g : Sums(g, v, Clients)
  BY <1>1, <1>2, SumsExist
<1>4. PICK h : Sums(h, w, Clients)
  BY <1>1, <1>2, SumsExist
<1>5. SumOf("blocked") = g[Clients] /\ SumOf("count") = h[Clients]
  BY <1>2, <1>3, <1>4, SumOfIs, SumInIs DEF v, w
<1>6. g[Clients] <= h[Clients]
  BY <1>1, <1>2, <1>3, <1>4, SumsOrdered
<1>7. g[Clients] \in Nat /\ h[Clients] \in Nat
  BY <1>3, <1>4 DEF Sums
<1> QED BY <1>5, <1>6, <1>7

(* A client with one more blocked request makes one more of the sum. *)
LEMMA SumOfGrows ==
  ASSUME RecordTypes, RecordTypes', NEW a \in Clients, NEW d \in Nat,
         \A c \in Clients : stats'[c].blocked = IF c = a THEN stats[c].blocked + d ELSE stats[c].blocked
  PROVE  SumOf("blocked") \in Nat /\ SumOf("blocked")' = SumOf("blocked") + d
<1> DEFINE v == Weights(stats, "blocked")
           w == Weights(stats', "blocked")
<1>1. /\ v \in [Clients -> Nat] /\ w \in [Clients -> Nat]
      /\ \A c \in Clients : w[c] = IF c = a THEN v[c] + d ELSE v[c]
  BY DEF RecordTypes, Row, Weights
<1>2. IsFiniteSet(Clients) /\ stats \in [Clients -> Row] /\ stats' \in [Clients -> Row]
  BY ProxyAssumption DEF RecordTypes
<1>0. w = Raised(v, a, d)
  BY <1>1 DEF Raised
<1> HIDE DEF v, w
<1>3. PICK g : Sums(g, v, Clients)
  BY <1>1, <1>2, SumsExist
<1>4. PICK h : Sums(h, w, Clients)
  BY <1>1, <1>2, SumsExist
<1>5. SumOf("blocked") = g[Clients] /\ SumOf("blocked")' = h[Clients]
  <2>1. SumOf("blocked") = g[Clients]
    BY <1>2, <1>3, SumOfIs, SumInIs DEF v
  <2>2. SumOf("blocked")' = h[Clients]
    BY <1>2, <1>4, SumOfNext, SumInIs DEF w
  <2> QED BY <2>1, <2>2
<1>6. h[Clients] = g[Clients] + d
  BY <1>0, <1>1, <1>2, <1>3, <1>4, SumsGrow, Z3
<1>7. g[Clients] \in Nat
  BY <1>3 DEF Sums
<1> QED BY <1>5, <1>6, <1>7

LEMMA SumOfNothing ==
  ASSUME RecordTypes, \A c \in Clients : stats[c].blocked = 0
  PROVE  SumOf("blocked") = 0
<1> DEFINE v == Weights(stats, "blocked")
<1>1. v \in [Clients -> Nat] /\ \A c \in Clients : v[c] = 0
  BY DEF RecordTypes, Row, Weights
<1>2. IsFiniteSet(Clients) /\ stats \in [Clients -> Row]
  BY ProxyAssumption DEF RecordTypes
<1> HIDE DEF v
<1>3. PICK g : Sums(g, v, Clients)
  BY <1>1, <1>2, SumsExist
<1>4. SumOf("blocked") = g[Clients]
  BY <1>2, <1>3, SumOfIs, SumInIs DEF v
<1>5. g[Clients] = 0
  BY <1>1, <1>2, <1>3, SumsOfZeros
<1> QED BY <1>4, <1>5

-----------------------------------------------------------------------------
(* What the dashboard shows. *)

(* Only requests that were refused for a rule are counted as blocked. *)
SumInv ==
    /\ SumOf("blocked") \in Nat /\ SumOf("blocked") <= Cardinality(AllBlocked)

(* The incidents of requests that were stored once or lost.  Before it has   *)
(* counted the incidents, the dashboard has no more blocked requests than    *)
(* these: a row that becomes old is still one of them.                       *)
Recorded == (incidents \cap Requests) \cup LostIncidents

(* Those that the dashboard may miss. *)
Excused == {r \in Requests : LostIncident(r) \/ r \in old}

(* Between its queries the dashboard misses at most what is counted later.   *)
ReadingInv ==
    /\ dash \in [at : {"idle", "total", "blocked", "incidents", "shown"}, posture : Postures \cup {None},
                 total : Nat, blocked : Nat, incidents : Nat, later : Nat]
    /\ dash.at = "total" => dash.later = 0
    /\ dash.at = "blocked" => SumOf("blocked") <= dash.total + dash.later
    /\ dash.at \in {"incidents", "shown"} => dash.blocked <= dash.total + dash.later
    /\ dash.at = "incidents" => dash.blocked <= Cardinality(Recorded)
    /\ dash.at = "shown" => dash.blocked <= dash.incidents + Cardinality(Excused)

LEMMA RowsOrdered == RecordInv => \A c \in Clients : stats[c].blocked <= stats[c].count
<1> SUFFICES ASSUME RecordInv, NEW c \in Clients PROVE stats[c].blocked <= stats[c].count
  OBVIOUS
<1>1. Cardinality(BlockedOf(c)) \in Nat /\ Cardinality(PassedOf(c)) \in Nat
  BY ProxyAssumption, FS_Subset, FS_CardinalityType DEF BlockedOf, PassedOf
<1>2. stats[c] = [count |-> Cardinality(BlockedOf(c)) + Cardinality(PassedOf(c)),
                  blocked |-> Cardinality(BlockedOf(c))]
  BY DEF RecordInv, CountInv
<1> QED BY <1>1, <1>2

(* What is refused for a rule, stored, lost or old are finite sets. *)
LEMMA RecordsFinite ==
  ASSUME RecordInv
  PROVE  /\ IsFiniteSet(AllBlocked) /\ Cardinality(AllBlocked) \in Nat
         /\ IsFiniteSet(incidents \ old) /\ Cardinality(incidents \ old) \in Nat
         /\ IsFiniteSet(Recorded) /\ Cardinality(Recorded) \in Nat
         /\ IsFiniteSet(Excused) /\ Cardinality(Excused) \in Nat
<1>1. /\ AllBlocked \subseteq Requests
      /\ incidents \ old \subseteq Requests \cup Simulations
      /\ Recorded \subseteq Requests /\ Excused \subseteq Requests
  BY DEF RecordInv, RecordTypes, AllBlocked, Recorded, LostIncidents, Excused
<1>2. IsFiniteSet(Requests) /\ IsFiniteSet(Requests \cup Simulations)
  BY ProxyAssumption, FS_Union
<1> QED BY <1>1, <1>2, FS_Subset, FS_CardinalityType

(* What has been stored or lost stays so, and what is old stays old. *)
LEMMA RecordsStay ==
  ASSUME RecordInv, RecordInv', incidents \subseteq incidents', failed \subseteq failed',
         old \subseteq old'
  PROVE  /\ Cardinality(Recorded) <= Cardinality(Recorded')
         /\ Cardinality(Excused) <= Cardinality(Excused')
         /\ Cardinality(Recorded) \in Nat /\ Cardinality(Recorded') \in Nat
         /\ Cardinality(Excused) \in Nat /\ Cardinality(Excused') \in Nat
<1>1. Recorded \subseteq Recorded' /\ Excused \subseteq Excused'
  BY DEF Recorded, LostIncidents, LostIncident, Excused
<1>2. IsFiniteSet(Recorded') /\ IsFiniteSet(Excused')
  <2>1. Recorded' \subseteq Requests /\ Excused' \subseteq Requests
    BY DEF Recorded, LostIncidents, Excused
  <2> QED BY <2>1, ProxyAssumption, FS_Subset
<1> QED BY <1>1, <1>2, FS_Subset, FS_CardinalityType, RecordsFinite

LEMMA SumOfStays == UNCHANGED stats => \A f : SumOf(f)' = SumOf(f)
BY SumOfIs, SumOfNext

LEMMA SumInitially == Init => SumInv /\ ReadingInv
<1> SUFFICES ASSUME Init PROVE SumInv /\ ReadingInv
  OBVIOUS
<1>1. RecordInv /\ \A c \in Clients : stats[c].blocked = 0
  BY RecordsInitially DEF Init
<1>2. SumOf("blocked") = 0
  BY <1>1, SumOfNothing DEF RecordInv
<1> QED BY <1>1, <1>2, RecordsFinite DEF Init, SumInv, ReadingInv, NoReading

(* A step that counts no request for the dashboard. *)
LEMMA QuietKeeps ==
  ASSUME RecordInv, RecordInv', SumInv, ReadingInv,
         UNCHANGED <<stats, dash>>, AllBlocked' = AllBlocked,
         incidents \subseteq incidents', failed \subseteq failed', old \subseteq old'
  PROVE  SumInv' /\ ReadingInv'
<1>1. SumOf("blocked")' = SumOf("blocked")
  BY SumOfStays
<1>2. SumInv'
  BY <1>1 DEF SumInv
<1> DEFINE i == Cardinality(Recorded)
           j == Cardinality(Recorded)'
           k == Cardinality(Excused)
           l == Cardinality(Excused)'
<1>4. i <= j /\ k <= l /\ i \in Nat /\ j \in Nat /\ k \in Nat /\ l \in Nat
  BY RecordsStay
<1>5. dash.blocked \in Nat /\ dash.incidents \in Nat
  BY DEF ReadingInv
<1>6. /\ dash.at = "incidents" => dash.blocked <= i
      /\ dash.at = "shown" => dash.blocked <= dash.incidents + k
  BY DEF ReadingInv
<1> HIDE DEF i, j, k, l
<1>7. /\ dash.at = "incidents" => dash.blocked <= j
      /\ dash.at = "shown" => dash.blocked <= dash.incidents + l
  BY <1>4, <1>5, <1>6
<1>8. ReadingInv'
  BY <1>1, <1>7 DEF ReadingInv, j, l
<1> QED BY <1>2, <1>8

LEMMA CountKeeps ==
  ASSUME RecordInv, SumInv, ReadingInv, NEW r \in Requests, RecordBlocked(r) \/ RecordPassed(r),
         old \subseteq old'
  PROVE  SumInv' /\ ReadingInv'
<1> DEFINE d == IF r \in Attacks THEN 1 ELSE 0
<1>1. RecordInv' /\ UNCHANGED incidents /\ failed \subseteq failed'
  BY CountRecords
<1>2. CASE UNCHANGED <<stats, dash>> /\ AllBlocked' = AllBlocked
  BY <1>1, <1>2, QuietKeeps
<1>3. CASE /\ \A c \in Clients : stats'[c].blocked = IF c = ClientOf[r] THEN stats[c].blocked + d
                                                     ELSE stats[c].blocked
           /\ dash' = IF dash.at = "blocked" THEN [dash EXCEPT !.later = @ + d] ELSE dash
           /\ AllBlocked' = (IF r \in Attacks THEN AllBlocked \cup {r} ELSE AllBlocked)
           /\ r \notin AllBlocked
  <2>1. d \in Nat /\ ClientOf[r] \in Clients
    BY ProxyAssumption
  <2>2. SumOf("blocked") \in Nat /\ SumOf("blocked")' = SumOf("blocked") + d
    <3> HIDE DEF d
    <3> QED BY <1>1, <1>3, <2>1, SumOfGrows DEF RecordInv
  <2>3. Cardinality(AllBlocked)' = Cardinality(AllBlocked) + d /\ Cardinality(AllBlocked) \in Nat
    <3>1. IsFiniteSet(AllBlocked) /\ Cardinality(AllBlocked) \in Nat
      BY RecordsFinite
    <3>2. Cardinality(AllBlocked \cup {r}) = Cardinality(AllBlocked) + 1
      BY <1>3, <3>1, FS_AddElement
    <3>3. Cardinality(AllBlocked)' = IF r \in Attacks THEN Cardinality(AllBlocked \cup {r})
                                                      ELSE Cardinality(AllBlocked)
      BY <1>3
    <3> QED BY <3>1, <3>2, <3>3
  <2> HIDE DEF d
  <2>4. SumInv'
    BY <2>1, <2>2, <2>3 DEF SumInv
  <2>5. /\ Cardinality(Recorded) <= Cardinality(Recorded)'
        /\ Cardinality(Excused) <= Cardinality(Excused)'
        /\ Cardinality(Recorded) \in Nat /\ Cardinality(Recorded)' \in Nat
        /\ Cardinality(Excused) \in Nat /\ Cardinality(Excused)' \in Nat
    BY <1>1, RecordsStay
  <2>6. /\ dash' \in [at : {"idle", "total", "blocked", "incidents", "shown"}, posture : Postures \cup {None},
                      total : Nat, blocked : Nat, incidents : Nat, later : Nat]
        /\ dash'.at = dash.at /\ dash'.total = dash.total /\ dash'.blocked = dash.blocked
        /\ dash'.incidents = dash.incidents
        /\ dash'.later = IF dash.at = "blocked" THEN dash.later + d ELSE dash.later
    BY <1>3, <2>1 DEF ReadingInv
  <2> DEFINE i == Cardinality(Recorded)
             j == Cardinality(Recorded)'
             k == Cardinality(Excused)
             l == Cardinality(Excused)'
             s == SumOf("blocked")
  <2>7. i <= j /\ k <= l /\ i \in Nat /\ j \in Nat /\ k \in Nat /\ l \in Nat /\ s \in Nat
    BY <2>2, <2>5
  <2>8. /\ dash.at = "total" => dash.later = 0
        /\ dash.at = "blocked" => s <= dash.total + dash.later
        /\ dash.at \in {"incidents", "shown"} => dash.blocked <= dash.total + dash.later
        /\ dash.at = "incidents" => dash.blocked <= i
        /\ dash.at = "shown" => dash.blocked <= dash.incidents + k
        /\ dash.total \in Nat /\ dash.blocked \in Nat /\ dash.incidents \in Nat /\ dash.later \in Nat
    BY DEF ReadingInv
  <2>9. SumOf("blocked")' = s + d
    BY <2>2
  <2> HIDE DEF i, j, k, l, s
  <2>10. /\ dash'.at = "total" => dash'.later = 0
         /\ dash'.at = "blocked" => s + d <= dash'.total + dash'.later
         /\ dash'.at \in {"incidents", "shown"} => dash'.blocked <= dash'.total + dash'.later
         /\ dash'.at = "incidents" => dash'.blocked <= j
         /\ dash'.at = "shown" => dash'.blocked <= dash'.incidents + l
    BY <2>1, <2>6, <2>7, <2>8
  <2>11. ReadingInv'
    BY <2>6, <2>9, <2>10 DEF ReadingInv, j, l
  <2> QED BY <2>4, <2>11
<1> QED BY <1>2, <1>3, CountRecords

(* The queries of the dashboard, and what ends it. *)
LEMMA QueryKeeps ==
  ASSUME IInv, RecordInv, RecordInv', SumInv, ReadingInv, OpenDashboard \/ Query \/ Restart,
         old \subseteq old'
  PROVE  SumInv' /\ ReadingInv'
<1>1. UNCHANGED <<stats, incidents>> /\ failed \subseteq failed' /\ AllBlocked' = AllBlocked
  BY RestartRecords, NothingRecorded DEF OpenDashboard, Query, ReadTotal, ReadBlocked, ReadIncidents,
     DashboardFails, handlers, tasks, tables, outcome, RecordInv, RecordTypes
<1>2. SumOf("blocked")' = SumOf("blocked")
  BY <1>1, SumOfStays
<1>3. SumInv'
  BY <1>1, <1>2 DEF SumInv
<1>4. /\ Cardinality(Recorded) <= Cardinality(Recorded)'
      /\ Cardinality(Excused) <= Cardinality(Excused)'
      /\ Cardinality(Recorded) \in Nat /\ Cardinality(Recorded)' \in Nat
      /\ Cardinality(Excused) \in Nat /\ Cardinality(Excused)' \in Nat
  BY <1>1, RecordsStay
<1> DEFINE DashType == [at : {"idle", "total", "blocked", "incidents", "shown"}, posture : Postures \cup {None},
                        total : Nat, blocked : Nat, incidents : Nat, later : Nat]
<1>5. dash \in DashType /\ config.posture \in Postures
  BY DEF ReadingInv, IInv, Fields, ConfigType
<1>6. CASE OpenDashboard \/ DashboardFails \/ Restart
  <2>1. dash' \in DashType /\ dash'.at \in {"idle", "total"} /\ dash'.later = 0
    <3>1. dash' = NoReading \/ dash' = [NoReading EXCEPT !.at = "total", !.posture = config.posture]
      BY <1>6 DEF OpenDashboard, DashboardFails, Restart
    <3>2. \E a \in {"idle", "total"}, p \in Postures \cup {None} :
             dash' = [at |-> a, posture |-> p, total |-> 0, blocked |-> 0, incidents |-> 0, later |-> 0]
      BY <1>5, <3>1 DEF NoReading
    <3> QED BY <3>2
  <2> QED BY <1>3, <2>1 DEF ReadingInv
<1>7. CASE ReadTotal
  <2>1. SumOf("count") \in Nat /\ SumOf("blocked") \in Nat /\ SumOf("blocked") <= SumOf("count")
    BY SumOfFacts, RowsOrdered DEF RecordInv
  <2>2. dash' = [dash EXCEPT !.at = "blocked", !.total = SumOf("count")] /\ dash.later = 0
    BY <1>7 DEF ReadTotal, ReadingInv
  <2> DEFINE s == SumOf("blocked")
             t == SumOf("count")
  <2>3. s \in Nat /\ t \in Nat /\ s <= t /\ dash' = [dash EXCEPT !.at = "blocked", !.total = t]
        /\ SumOf("blocked")' = s
    BY <1>2, <2>1, <2>2
  <2> HIDE DEF s, t
  <2>4. dash' \in DashType /\ dash'.at = "blocked" /\ dash'.total = t /\ dash'.later = 0
    BY <1>5, <2>2, <2>3
  <2>5. s <= dash'.total + dash'.later
    BY <2>3, <2>4
  <2> QED BY <1>3, <2>3, <2>4, <2>5 DEF ReadingInv
<1>8. CASE ReadBlocked
  <2>1. /\ dash.at = "blocked"
        /\ dash' = [dash EXCEPT !.at = "incidents", !.blocked = SumOf("blocked")]
        /\ SumOf("blocked") <= dash.total + dash.later
        /\ SumOf("blocked") \in Nat /\ SumOf("blocked") <= Cardinality(AllBlocked)
    BY <1>8 DEF ReadBlocked, ReadingInv, SumInv
  <2>2. Cardinality(AllBlocked) <= Cardinality(Recorded)
    <3>1. AllBlocked \subseteq Recorded
      BY DEF RecordInv, IncidentInv, AllBlocked, Recorded, LostIncidents
    <3> QED BY <3>1, RecordsFinite, FS_Subset
  <2> DEFINE s == SumOf("blocked")
             b == Cardinality(AllBlocked)
             i == Cardinality(Recorded)
             j == Cardinality(Recorded)'
  <2>3. /\ dash' = [dash EXCEPT !.at = "incidents", !.blocked = s]
        /\ s <= dash.total + dash.later /\ s \in Nat /\ s <= b /\ b <= i /\ i <= j
        /\ b \in Nat /\ i \in Nat /\ j \in Nat
    BY <1>4, <2>1, <2>2, RecordsFinite
  <2> HIDE DEF s, b, i, j
  <2>4. /\ dash' \in DashType /\ dash'.at = "incidents" /\ dash'.blocked = s
        /\ dash'.total = dash.total /\ dash'.later = dash.later
    BY <1>5, <2>3
  <2>5. dash'.blocked <= dash'.total + dash'.later /\ dash'.blocked <= j
    BY <1>5, <2>3, <2>4
  <2> QED BY <1>3, <2>4, <2>5 DEF ReadingInv, j
<1>9. CASE ReadIncidents
  <2> DEFINE h == Cardinality(Recorded)
             i == Cardinality(incidents \ old)
             k == Cardinality(Excused)
             l == Cardinality(Excused)'
  <2>1. h <= i + k
    <3>1. Recorded \subseteq (incidents \ old) \cup Excused
      BY DEF Recorded, LostIncidents, Excused
    <3>2. /\ IsFiniteSet((incidents \ old) \cup Excused)
          /\ Cardinality((incidents \ old) \cup Excused)
               = Cardinality(incidents \ old) + Cardinality(Excused)
                 - Cardinality((incidents \ old) \cap Excused)
      BY RecordsFinite, FS_Union
    <3>3. Cardinality((incidents \ old) \cap Excused) \in Nat
      BY RecordsFinite, FS_Intersection, FS_CardinalityType
    <3>4. Cardinality(Recorded) <= Cardinality((incidents \ old) \cup Excused)
      BY <3>1, <3>2, FS_Subset
    <3> QED BY <3>2, <3>3, <3>4, RecordsFinite
  <2>2. /\ dash' = [dash EXCEPT !.at = "shown", !.incidents = i]
        /\ dash.blocked <= dash.total + dash.later /\ dash.blocked <= h /\ k <= l
        /\ h \in Nat /\ i \in Nat /\ k \in Nat /\ l \in Nat
    BY <1>4, <1>9, RecordsFinite DEF ReadIncidents, ReadingInv
  <2> HIDE DEF h, i, k, l
  <2>3. /\ dash' \in DashType /\ dash'.at = "shown" /\ dash'.blocked = dash.blocked
        /\ dash'.total = dash.total /\ dash'.later = dash.later /\ dash'.incidents = i
    BY <1>5, <2>2
  <2>4. dash'.blocked <= dash'.total + dash'.later /\ dash'.blocked <= dash'.incidents + l
    BY <1>5, <2>1, <2>2, <2>3
  <2> QED BY <1>3, <2>3, <2>4 DEF ReadingInv, l
<1> QED BY <1>6, <1>7, <1>8, <1>9 DEF Query

LEMMA DashStep ==
  ASSUME IInv, RecordInv, SumInv, ReadingInv, [Next]_vars
  PROVE  SumInv' /\ ReadingInv'
<1>0. RecordInv' /\ old \subseteq old'
  BY RecordsStep, OldStays
<1>1. ASSUME NEW r \in Requests, Handle(r) \/ Record(r) \/ RecordPassed(r)
      PROVE  SumInv' /\ ReadingInv'
  <2>1. CASE RecordBlocked(r) \/ RecordPassed(r)
    BY <1>0, <2>1, CountKeeps
  <2>2. CASE Handle(r) \/ RecordIncident(r) \/ Broadcast(r)
    BY <1>0, <2>2, HandleRecords, IncidentRecords, AnnounceRecords, QuietKeeps
  <2> QED BY <1>1, <2>1, <2>2 DEF Record
<1>2. ASSUME NEW m \in Calls, Manage(m)
      PROVE  SumInv' /\ ReadingInv'
  <2>1. UNCHANGED <<pc, job, tally, simulation, incidents, stats, sent, failed, dash>>
    BY <1>2 DEF Manage, SetPosture, UpdateConfig, Persist, handlers, tasks, tables, outcome
  <2> QED BY <1>0, <2>1, NothingRecorded, QuietKeeps DEF RecordInv, RecordTypes
<1>3. ASSUME NEW s \in Simulations, Simulate(s) \/ Announce(s)
      PROVE  SumInv' /\ ReadingInv'
  BY <1>0, <1>3, AnnounceRecords, QuietKeeps
<1>4. CASE OpenDashboard \/ Query \/ Restart
  BY <1>0, <1>4, QueryKeeps
<1>5. CASE UNCHANGED vars
  <2>1. UNCHANGED <<pc, job, tally, simulation, incidents, stats, sent, failed, dash>>
    BY <1>5 DEF vars, handlers, tasks, tables, outcome
  <2> QED BY <1>0, <2>1, NothingRecorded, QuietKeeps DEF RecordInv, RecordTypes
<1>6. CASE BecomeOld
  BY <1>0, <1>6, AgeingRecords, QuietKeeps
<1> QED BY <1>1, <1>2, <1>3, <1>4, <1>5, <1>6 DEF Next

(* The dashboard's three queries, at three times, never tell more blocked    *)
(* requests than requests and incidents, but for those counted between the   *)
(* first two and those whose incident could not be stored or is too old.     *)
THEOREM DashboardConsistent == Spec => []DashboardAgrees
<1>1. Init => SumInv /\ ReadingInv
  BY SumInitially
<1>2. IInv /\ RecordInv /\ SumInv /\ ReadingInv /\ [Next]_vars => SumInv' /\ ReadingInv'
  BY DashStep
<1>3. ReadingInv => DashboardAgrees
  BY DEF ReadingInv, DashboardAgrees, Excused, LostIncident
<1> QED BY <1>1, <1>2, <1>3, Invariance, RecordsKept, PTL DEF Spec
=============================================================================
