------------------------------- MODULE Proxy -------------------------------
(***************************************************************************)
(* The Rust proxy: proxy.rs and inspector.rs decide each request under the *)
(* configuration in force, background tasks record the decision in the     *)
(* database and announce it, and api.rs changes the configuration and      *)
(* reads the statistics, all at once on a pool of threads.                 *)
(*                                                                         *)
(* The configuration is behind a tokio RwLock: a management call that      *)
(* changes it holds the write guard while it persists the posture, and the *)
(* dashboard holds a read guard over all its queries.  inspect holds a     *)
(* read guard too, but waits for nothing while it does: it is one step.    *)
(*                                                                         *)
(* A request is its name: who sent it, what method and whether a rule      *)
(* matches its text are constants of it.  Time is only what makes a row of *)
(* incidents too old for the dashboard, which counts those of a day.       *)
(***************************************************************************)
EXTENDS Naturals, FiniteSetsExt

CONSTANTS Requests,     (* requests to the proxy                             *)
          Clients,      (* x-forwarded-for addresses, or "unknown"           *)
          ClientOf,     (* [Requests -> Clients]                             *)
          Attacks,      (* requests that a rule matches                      *)
          Writes,       (* requests whose method is not GET or HEAD          *)
          Simulations,  (* POST /api/simulate-attack                         *)
          Calls,        (* PUT /api/posture and PUT /api/config              *)
          Updates,      (* bodies of PUT /api/config                         *)
          FileConfigs,  (* what the configuration file may hold at a start   *)
          None,         (* no writer, no row, a field left out of an update  *)
          MaxRestarts   (* bound on the restarts of the proxy                *)

Postures == {"Monitor", "Standard", "UnderAttack"}

ConfigType == [posture : Postures, limited : BOOLEAN, burst : Nat,
               trusted : SUBSET Clients, upstream : STRING]

UpdateType == [posture : Postures \cup {"invalid", None}, limited : BOOLEAN \cup {None},
               trusted : (SUBSET Clients) \cup {None}, upstream : STRING \cup {None}]

ASSUME ProxyAssumption ==
    /\ IsFiniteSet(Requests) /\ IsFiniteSet(Simulations) /\ IsFiniteSet(Clients)
    /\ ClientOf \in [Requests -> Clients]
    /\ Attacks \subseteq Requests /\ Writes \subseteq Requests
    /\ Requests \cap Simulations = {}
    /\ FileConfigs # {} /\ FileConfigs \subseteq ConfigType
    /\ Updates \subseteq UpdateType
    /\ None \notin Calls /\ None \notin Postures
    /\ MaxRestarts \in Nat

VARIABLES
    config,     (* AppState.config                                           *)
    writer,     (* the call that holds its write guard                       *)
    call,       (* where a management call is, or the posture it is to store *)
    persisted,  (* system_config.posture                                     *)
    stale,      (* history: it need not be the posture in force              *)
    pc,         (* where a request is, or how it was answered                *)
    job,        (* the task that records a refused request                   *)
    tally,      (* the task that counts a request no rule matched            *)
    simulation, (* where a simulated attack is                               *)
    incidents,  (* rows of the table incidents                               *)
    old,        (* rows whose timestamp the dashboard's window no longer has *)
    stats,      (* rows of the table request_stats, one per client           *)
    sent,       (* history: incidents given to broadcast_tx                  *)
    failed,     (* history: writes that failed or were lost with the process *)
    lenient,    (* history: a configuration in force since the request came  *)
                (* would have let it through                                 *)
    admitted,   (* history: requests a limiter let through in this process   *)
                (* since rows last became too old                            *)
    dash,       (* the dashboard query                                       *)
    restarts

configuration == <<config, writer, call, persisted, stale>>
handlers == <<pc, lenient, admitted>>
tasks == <<job, tally, simulation>>
tables == <<incidents, old, stats>>
outcome == <<sent, failed>>
vars == <<configuration, handlers, tasks, tables, outcome, dash, restarts>>

Open == {"reading", "read", "passed", "forwarding"}
Answers == {"bad_body", "refused", "blocked", "limited", "served", "unavailable"}
LetThrough == {"passed", "forwarding", "served", "unavailable"}

NoReading == [at |-> "idle", posture |-> None, total |-> 0, blocked |-> 0,
              incidents |-> 0, later |-> 0]
DashboardReads == dash.at \in {"total", "blocked", "incidents"}

(* Nothing in the posture or the list of trusted addresses stands against r. *)
Lenient(c, r) == r \notin Writes \/ c.posture # "UnderAttack" \/ ClientOf[r] \in c.trusted

Init ==
    /\ config \in FileConfigs
    /\ writer = None
    /\ call = [m \in Calls |-> "idle"]
    /\ persisted = None
    /\ stale = TRUE
    /\ pc = [r \in Requests |-> "idle"]
    /\ job = [r \in Requests |-> "none"]
    /\ tally = [r \in Requests |-> "none"]
    /\ simulation = [s \in Simulations |-> "idle"]
    /\ incidents = {}
    /\ old = {}
    /\ stats = [c \in Clients |-> [count |-> 0, blocked |-> 0]]
    /\ sent = {}
    /\ failed = {}
    /\ lenient = {}
    /\ admitted = {}
    /\ dash = NoReading
    /\ restarts = 0

-----------------------------------------------------------------------------
(* handle_proxy_request *)

Go(r, from, to) == pc[r] \in from /\ pc' = [pc EXCEPT ![r] = to]

Arrive(r) ==
    /\ Go(r, {"idle"}, "reading")
    /\ lenient' = IF Lenient(config, r) THEN lenient \cup {r} ELSE lenient
    /\ UNCHANGED <<configuration, admitted, tasks, tables, outcome, dash, restarts>>

ReadBody(r) ==
    /\ \/ Go(r, {"reading"}, "read")
       \/ Go(r, {"reading"}, "bad_body")
    /\ UNCHANGED <<configuration, lenient, admitted, tasks, tables, outcome, dash, restarts>>

(* The client has gone, and axum drops the handler. *)
Abandon(r) ==
    /\ Go(r, Open, "gone")
    /\ UNCHANGED <<configuration, lenient, admitted, tasks, tables, outcome, dash, restarts>>

-----------------------------------------------------------------------------
(* inspect *)

(* Mutant of Shut: the posture is looked up in the database. *)
ShutByDatabase(r) == persisted = "UnderAttack" /\ r \in Writes

Shut(r) == config.posture = "UnderAttack" /\ r \in Writes

Trusted(r) ==
    /\ ClientOf[r] \in config.trusted
    /\ Go(r, {"read"}, "passed")
    /\ UNCHANGED <<job, tally, admitted>>

UnderAttack(r) ==
    /\ ClientOf[r] \notin config.trusted
    /\ Shut(r)
    /\ Go(r, {"read"}, "refused")
    /\ UNCHANGED <<job, tally, admitted>>

(* No test of the posture: Monitor blocks as well. *)
RuleMatches(r) ==
    /\ ClientOf[r] \notin config.trusted
    /\ ~Shut(r)
    /\ r \in Attacks
    /\ Go(r, {"read"}, "blocked")
    /\ job' = [job EXCEPT ![r] = "incident"]
    /\ UNCHANGED <<tally, admitted>>

(* The limiter is new, so its bucket is full: only a burst of 0 is refused. *)
(* Either way the request is counted as one that was not blocked.           *)
NoRuleMatches(r) ==
    /\ ClientOf[r] \notin config.trusted
    /\ ~Shut(r)
    /\ r \notin Attacks
    /\ tally' = [tally EXCEPT ![r] = "queued"]
    /\ IF config.posture # "Monitor" /\ config.limited /\ config.burst = 0
       THEN /\ Go(r, {"read"}, "limited")
            /\ job' = [job EXCEPT ![r] = "incident"]
            /\ UNCHANGED admitted
       ELSE /\ Go(r, {"read"}, "passed")
            /\ admitted' = IF config.posture # "Monitor" /\ config.limited
                           THEN admitted \cup {r} ELSE admitted
            /\ UNCHANGED job

Inspect(r) ==
    /\ writer = None
    /\ Trusted(r) \/ UnderAttack(r) \/ RuleMatches(r) \/ NoRuleMatches(r)
    /\ UNCHANGED <<configuration, lenient, simulation, tables, outcome, dash, restarts>>

(* A second guard, after inspect has given up the first. *)
ReadUpstream(r) ==
    /\ writer = None
    /\ Go(r, {"passed"}, "forwarding")
    /\ UNCHANGED <<configuration, lenient, admitted, tasks, tables, outcome, dash, restarts>>

(* No timeout: reqwest::Client::new() waits for the upstream for ever. *)
Forward(r) ==
    /\ \/ Go(r, {"forwarding"}, "served")
       \/ Go(r, {"forwarding"}, "unavailable")
    /\ UNCHANGED <<configuration, lenient, admitted, tasks, tables, outcome, dash, restarts>>

-----------------------------------------------------------------------------
(* The tasks inspect spawns.  A failed write is logged and the task goes on. *)

(* Mutant of RecordIncident: a failed insert ends the task. *)
RecordIncidentOrStop(r) ==
    /\ job[r] = "incident"
    /\ \/ /\ incidents' = incidents \cup {r}
          /\ job' = [job EXCEPT ![r] = IF r \in Attacks THEN "count" ELSE "send"]
          /\ UNCHANGED failed
       \/ /\ failed' = failed \cup {<<"incident", r>>}
          /\ job' = [job EXCEPT ![r] = "done"]
          /\ UNCHANGED incidents
    /\ UNCHANGED <<configuration, handlers, tally, simulation, old, stats, sent, dash, restarts>>

(* Mutant of RecordIncident: nothing is stored while the posture is Monitor. *)
RecordIncidentUnlessMonitor(r) ==
    /\ job[r] = "incident"
    /\ job' = [job EXCEPT ![r] = IF r \in Attacks THEN "count" ELSE "send"]
    /\ incidents' = IF config.posture = "Monitor" THEN incidents ELSE incidents \cup {r}
    /\ UNCHANGED <<configuration, handlers, tally, simulation, old, stats, outcome, dash, restarts>>

RecordIncident(r) ==
    /\ job[r] = "incident"
    /\ job' = [job EXCEPT ![r] = IF r \in Attacks THEN "count" ELSE "send"]
    /\ \/ incidents' = incidents \cup {r} /\ UNCHANGED failed
       \/ failed' = failed \cup {<<"incident", r>>} /\ UNCHANGED incidents
    /\ UNCHANGED <<configuration, handlers, tally, simulation, old, stats, sent, dash, restarts>>

(* record_request, and what the dashboard has missed of it. *)
Upsert(r, blocked) ==
    LET c == ClientOf[r]
    IN \/ /\ stats' = [stats EXCEPT ![c].count = @ + 1, ![c].blocked = @ + blocked]
          /\ dash' = IF dash.at = "blocked" THEN [dash EXCEPT !.later = @ + blocked] ELSE dash
          /\ UNCHANGED failed
       \/ failed' = failed \cup {<<"count", r>>} /\ UNCHANGED <<stats, dash>>

RecordBlocked(r) ==
    /\ job[r] = "count"
    /\ job' = [job EXCEPT ![r] = "send"]
    /\ Upsert(r, 1)
    /\ UNCHANGED <<configuration, handlers, tally, simulation, incidents, old, sent, restarts>>

Broadcast(r) ==
    /\ job[r] = "send"
    /\ job' = [job EXCEPT ![r] = "done"]
    /\ sent' = sent \cup {r}
    /\ UNCHANGED <<configuration, handlers, tally, simulation, tables, failed, dash, restarts>>

RecordPassed(r) ==
    /\ tally[r] = "queued"
    /\ tally' = [tally EXCEPT ![r] = "done"]
    /\ Upsert(r, 0)
    /\ UNCHANGED <<configuration, handlers, job, simulation, incidents, old, sent, restarts>>

-----------------------------------------------------------------------------
(* set_posture and update_config *)

CanWrite(m) == call[m] = "idle" /\ writer = None /\ ~DashboardReads

(* c comes into force for the requests that have not been inspected. *)
PutInForce(c) ==
    /\ config' = c
    /\ lenient' = lenient \cup {r \in Requests : pc[r] \in {"reading", "read"} /\ Lenient(c, r)}

(* Mutant of SetPosture: the guard is dropped before the posture is stored. *)
SetPostureUnlocksEarly(m) ==
    /\ CanWrite(m)
    /\ \E p \in Postures :
          /\ PutInForce([config EXCEPT !.posture = p])
          /\ call' = [call EXCEPT ![m] = p]
    /\ stale' = TRUE
    /\ UNCHANGED <<writer, persisted, pc, admitted, tasks, tables, outcome, dash, restarts>>

SetPosture(m) ==
    /\ CanWrite(m)
    /\ \E p \in Postures :
          /\ PutInForce([config EXCEPT !.posture = p])
          /\ call' = [call EXCEPT ![m] = p]
    /\ writer' = m
    /\ stale' = TRUE
    /\ UNCHANGED <<persisted, pc, admitted, tasks, tables, outcome, dash, restarts>>

OrElse(option, present) == IF option = None THEN present ELSE option

(* An invalid posture is found out after the upstream has been replaced. *)
UpdateConfig(m) ==
    /\ CanWrite(m)
    /\ \E u \in Updates :
          LET upstream == OrElse(u.upstream, config.upstream)
              all == [config EXCEPT !.upstream = upstream,
                                    !.posture = OrElse(u.posture, @),
                                    !.limited = OrElse(u.limited, @),
                                    !.trusted = OrElse(u.trusted, @)]
          IN IF u.posture = "invalid"
             THEN /\ PutInForce([config EXCEPT !.upstream = upstream])
                  /\ call' = [call EXCEPT ![m] = "rejected"]
                  /\ UNCHANGED <<writer, stale>>
             ELSE /\ PutInForce(all)
                  /\ call' = [call EXCEPT ![m] = all.posture]
                  /\ writer' = m
                  /\ stale' = TRUE
    /\ UNCHANGED <<persisted, pc, admitted, tasks, tables, outcome, dash, restarts>>

(* Mutant of Persist: a failed write leaves the guard where it is. *)
PersistKeepsGuard(m) ==
    /\ call[m] \in Postures
    /\ \/ /\ persisted' = call[m] /\ stale' = FALSE
          /\ writer' = IF writer = m THEN None ELSE writer
       \/ stale' = TRUE /\ UNCHANGED <<persisted, writer>>
    /\ call' = [call EXCEPT ![m] = "done"]
    /\ UNCHANGED <<config, handlers, tasks, tables, outcome, dash, restarts>>

(* The write guard is dropped at the end, and a failed write only logged. *)
Persist(m) ==
    /\ call[m] \in Postures
    /\ \/ persisted' = call[m] /\ stale' = FALSE
       \/ stale' = TRUE /\ UNCHANGED persisted
    /\ call' = [call EXCEPT ![m] = "done"]
    /\ writer' = IF writer = m THEN None ELSE writer
    /\ UNCHANGED <<config, handlers, tasks, tables, outcome, dash, restarts>>

-----------------------------------------------------------------------------
(* simulate_attack: a failed insert is answered 500 and not announced. *)

Simulate(s) ==
    /\ simulation[s] = "idle"
    /\ \/ /\ simulation' = [simulation EXCEPT ![s] = "recorded"]
          /\ incidents' = incidents \cup {s}
       \/ simulation' = [simulation EXCEPT ![s] = "done"] /\ UNCHANGED incidents
    /\ UNCHANGED <<configuration, handlers, job, tally, old, stats, outcome, dash, restarts>>

Announce(s) ==
    /\ simulation[s] = "recorded"
    /\ simulation' = [simulation EXCEPT ![s] = "done"]
    /\ sent' = sent \cup {s}
    /\ UNCHANGED <<configuration, handlers, job, tally, tables, failed, dash, restarts>>

-----------------------------------------------------------------------------
(* get_dashboard_stats, under one read guard of the configuration.  Each     *)
(* query sees the tables as they are at its own time.  The counters are      *)
(* those of all time, the incidents those of the last day.                   *)

SumOf(field) == MapThenSumSet(LAMBDA c : stats[c][field], Clients)

OpenDashboard ==
    /\ writer = None
    /\ ~DashboardReads
    /\ dash' = [NoReading EXCEPT !.at = "total", !.posture = config.posture]
    /\ UNCHANGED <<configuration, handlers, tasks, tables, outcome, restarts>>

ReadTotal ==
    /\ dash.at = "total"
    /\ dash' = [dash EXCEPT !.at = "blocked", !.total = SumOf("count")]
    /\ UNCHANGED <<configuration, handlers, tasks, tables, outcome, restarts>>

ReadBlocked ==
    /\ dash.at = "blocked"
    /\ dash' = [dash EXCEPT !.at = "incidents", !.blocked = SumOf("blocked")]
    /\ UNCHANGED <<configuration, handlers, tasks, tables, outcome, restarts>>

ReadIncidents ==
    /\ dash.at = "incidents"
    /\ dash' = [dash EXCEPT !.at = "shown", !.incidents = Cardinality(incidents \ old)]
    /\ UNCHANGED <<configuration, handlers, tasks, tables, outcome, restarts>>

(* A query fails: the answer is 500 and the guard is dropped. *)
DashboardFails ==
    /\ DashboardReads
    /\ dash' = NoReading
    /\ UNCHANGED <<configuration, handlers, tasks, tables, outcome, restarts>>

(* Time passes.  Rows are stamped before they are inserted, so those that    *)
(* leave the window need not be the first in the table.                      *)
BecomeOld ==
    /\ \E rows \in SUBSET (incidents \ old) : rows # {} /\ old' = old \cup rows
    /\ admitted' = {}
    /\ UNCHANGED <<configuration, pc, lenient, tasks, incidents, stats, outcome, dash, restarts>>

-----------------------------------------------------------------------------
(* The process ends and is started again: its handlers and tasks are gone,  *)
(* and Config::load reads the file, not system_config.                      *)
Restart ==
    /\ restarts < MaxRestarts
    /\ restarts' = restarts + 1
    /\ config' \in FileConfigs
    /\ writer' = None
    /\ call' = [m \in Calls |-> IF call[m] = "idle" THEN "idle" ELSE "done"]
    /\ stale' = TRUE
    /\ pc' = [r \in Requests |-> IF pc[r] \in Open THEN "gone" ELSE pc[r]]
    /\ job' = [r \in Requests |-> IF job[r] = "none" THEN "none" ELSE "done"]
    /\ tally' = [r \in Requests |-> IF tally[r] = "none" THEN "none" ELSE "done"]
    /\ simulation' = [s \in Simulations |-> IF simulation[s] = "idle" THEN "idle" ELSE "done"]
    /\ failed' = failed
          \cup {<<"incident", r>> : r \in {q \in Requests : job[q] = "incident"}}
          \cup {<<"count", r>> : r \in {q \in Attacks : job[q] \in {"incident", "count"}}}
          \cup {<<"count", r>> : r \in {q \in Requests : tally[q] = "queued"}}
    /\ admitted' = {}
    /\ dash' = NoReading
    /\ UNCHANGED <<persisted, lenient, tables, sent>>

Handle(r) == \/ Arrive(r) \/ ReadBody(r) \/ Abandon(r)
             \/ Inspect(r) \/ ReadUpstream(r) \/ Forward(r)

Record(r) == RecordIncident(r) \/ RecordBlocked(r) \/ Broadcast(r)

Manage(m) == SetPosture(m) \/ UpdateConfig(m) \/ Persist(m)

Query == ReadTotal \/ ReadBlocked \/ ReadIncidents \/ DashboardFails

Next ==
    \/ \E r \in Requests : Handle(r) \/ Record(r) \/ RecordPassed(r)
    \/ \E m \in Calls : Manage(m)
    \/ \E s \in Simulations : Simulate(s) \/ Announce(s)
    \/ OpenDashboard \/ Query
    \/ BecomeOld
    \/ Restart

Spec == Init /\ [][Next]_vars

(* Tasks are polled, and a statement ends or fails within the 30 seconds of *)
(* the pool.  The RwLock queues its callers, so a request that waits for it *)
(* gets it.  Neither clients nor the upstream need ever answer.             *)
FairSpec ==
    /\ Spec
    /\ \A r \in Requests : /\ SF_vars(Inspect(r) \/ ReadUpstream(r))
                           /\ WF_vars(Record(r))
                           /\ WF_vars(RecordPassed(r))
    /\ \A m \in Calls : WF_vars(Persist(m))
    /\ WF_vars(Query)

-----------------------------------------------------------------------------
(* Every request the rules or the limiter turned away has its incident, and *)
(* every inspected request is counted once for its client, as blocked if a  *)
(* rule matched, unless a task still has it to do or a write was lost; and  *)
(* what the stream has announced is in the table, unless its insert failed. *)
RecordsMatchAnswers ==
    LET Lost(what, r) == <<what, r>> \in failed
        Blocked(c) == {r \in Requests :
            ClientOf[r] = c /\ pc[r] = "blocked"
              /\ job[r] \in {"send", "done"} /\ ~Lost("count", r)}
        Passed(c) == {r \in Requests :
            ClientOf[r] = c /\ tally[r] = "done" /\ ~Lost("count", r)}
    IN /\ \A r \in Requests :
              r \in incidents <=> /\ pc[r] \in {"blocked", "limited"}
                                  /\ job[r] # "incident"
                                  /\ ~Lost("incident", r)
       /\ \A c \in Clients :
              stats[c] = [count |-> Cardinality(Blocked(c)) + Cardinality(Passed(c)),
                          blocked |-> Cardinality(Blocked(c))]
       /\ \A i \in sent : i \in incidents \/ Lost("incident", i)

(* The dashboard may show more blocked requests than requests, but only by  *)
(* those recorded between the two queries; and it never shows more blocked  *)
(* requests than incidents, except for incidents that could not be stored   *)
(* or are too old: the counters are of all time and the incidents of a day, *)
(* a task stores the incident first and the dashboard counts it last.       *)
DashboardAgrees ==
    dash.at = "shown" =>
        /\ dash.blocked <= dash.total + dash.later
        /\ dash.blocked <= dash.incidents
               + Cardinality({r \in Requests : <<"incident", r>> \in failed \/ r \in old})

(* The posture a dashboard shows was in force during all of its queries. *)
DashboardPostureInForce == DashboardReads => dash.posture = config.posture

(* When no call is changing it, the posture in the database is the one in   *)
(* force, unless the last write failed or the proxy has been restarted.     *)
PersistedIsInForce == writer = None /\ ~stale => persisted = config.posture

(* A write from a client that is not trusted reaches the upstream only if   *)
(* at some time since it came the posture was not UnderAttack or its client *)
(* was trusted: the posture holds from the moment it is set.                *)
UnderAttackHolds == \A r \in Requests : pc[r] \in LetThrough => r \in lenient

(* No request waits for ever for the configuration, however many calls      *)
(* change it and dashboards read it.                                        *)
RequestsAreDecided ==
    \A r \in Requests : pc[r] \in {"read", "passed"} ~> pc[r] \notin {"read", "passed"}

(* "Token bucket per IP (configurable burst)": with no time to refill it, no *)
(* client gets more than a burst through the limiter.                        *)
BurstPerClient ==
    \A c \in Clients : Cardinality({r \in admitted : ClientOf[r] = c}) <= config.burst

(* "Monitor: Log only": no request is blocked while that is the posture.  *)
MonitorOnlyLogs ==
    [][config.posture = "Monitor" =>
          \A r \in Requests : pc'[r] = "blocked" => pc[r] = "blocked"]_vars
=============================================================================
