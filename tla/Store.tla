-------------------------------- MODULE Store --------------------------------
(***************************************************************************)
(* The SQLite store of the Go API (internal/db/sqlite.go) and the handlers *)
(* over it (internal/api).  The pool has one connection: a statement waits *)
(* until it is free, and a query keeps it until its last row has been      *)
(* read.  Figures that are shown together come from statements that are    *)
(* not in a transaction: other requests run between them.                  *)
(*                                                                         *)
(* A row of incidents has its rowid as its place in a sequence (none is    *)
(* ever deleted), and uuids name the request that drew them.  Time stands  *)
(* still: "today" says that a row is of this hour and this day.            *)
(***************************************************************************)
EXTENDS Integers, Sequences, FiniteSets, FiniteSetsExt

CONSTANTS Writers,     (* requests that change a table                       *)
          Readers,     (* requests that show one, and dashboards' streams    *)
          Bodies,      (* incidents that are reported                        *)
          IPs,         (* addresses for the blacklist                        *)
          Asks,        (* [Readers -> SUBSET Requests], what each may ask    *)
          None,        (* no query has the connection                        *)
          MaxLoad      (* bound on the writers that came, busy readers, and  *)
                       (* failed statements and restarts, together           *)

(* The columns of models.Incident that some statement looks at. *)
Incident == [severity : STRING, attack_type : STRING, client_ip : STRING,
             today : BOOLEAN, acknowledged : BOOLEAN]

ASSUME StoreAssumption ==
    /\ IsFiniteSet(Writers)
    /\ Bodies \subseteq Incident
    /\ None \notin Readers
    /\ MaxLoad \in Nat

VARIABLES
    db,        (* the tables                                                 *)
    conn,      (* the query that has the connection, or None                 *)
    request,   (* where each writer is, what it has asked and is answered    *)
    reader,    (* which statements each reader runs, and which is next       *)
    shown,     (* what it has read                                           *)
    moments,   (* history: what the tables have been since it came           *)
    broken,    (* history: statements of it that failed                      *)
    counter,   (* metrics.IncidentsTotal                                     *)
    booted,    (* history: incidents there were when the process started     *)
    faults

vars == <<db, conn, request, reader, shown, moments, broken, counter, booted, faults>>
reading == <<reader, shown, broken>>
process == <<counter, booted>>

-----------------------------------------------------------------------------
(* sqlite.go, what is asked of tables t. *)

ListIncidents(t) == {<<i, t.incidents[i]>> : i \in DOMAIN t.incidents}
GetSIEMAlerts(t) == {<<i, t.incidents[i].severity, t.incidents[i].acknowledged>> : i \in DOMAIN t.incidents}
ListAgents(t) == t.agents
ListRules(t) == {<<w, t.rules[w]>> : w \in DOMAIN t.rules}
ListBlacklist(t) == t.blacklist

Count(t, P(_)) == Cardinality({i \in DOMAIN t.incidents : P(t.incidents[i])})

(* SELECT f, COUNT( * ) ... GROUP BY f, of the values in V. *)
GroupBy(t, f, V) == {<<v, Count(t, LAMBDA r : r[f] = v)>> : v \in V \cap {t.incidents[i][f] : i \in DOMAIN t.incidents}}
Values(f) == {b[f] : b \in Bodies}

GetGeoData(t) == GroupBy(t, "client_ip", Values("client_ip") \ {""})

(* The statements of GetDashboardStats and GetSIEMStats. *)
Figure(t, s) ==
    CASE s = "total"    -> Len(t.incidents)
      [] s = "blocked"  -> Count(t, LAMBDA r : r.severity \in {"critical", "high"})
      [] s = "ips"      -> Cardinality({t.incidents[i].client_ip :
                                            i \in {j \in DOMAIN t.incidents : t.incidents[j].today}})
      [] s = "today"    -> Count(t, LAMBDA r : r.today)
      [] s = "online"   -> Cardinality(t.agents)
      [] s = "active"   -> Cardinality({w \in DOMAIN t.rules : t.rules[w]})
      [] s = "unacked"  -> Count(t, LAMBDA r : ~r.acknowledged)
      [] s = "severity" -> GroupBy(t, "severity", Values("severity"))
      [] s = "attacks"  -> GroupBy(t, "attack_type", Values("attack_type") \ {""})
      [] s = "incidents" -> ListIncidents(t)
      [] s = "alerts"    -> GetSIEMAlerts(t)
      [] s = "agents"    -> ListAgents(t)
      [] s = "rules"     -> ListRules(t)
      [] s = "blacklist" -> ListBlacklist(t)
      [] s = "geo"       -> GetGeoData(t)

(* Those that give one number; the others give rows. *)
Counts == {"total", "blocked", "ips", "today", "online", "active", "unacked"}

GetDashboardStats == <<"total", "blocked", "ips", "today", "online", "active", "attacks", "incidents">>

(* Mutant of GetSIEMStats: the total is counted last. *)
TotalLast == <<"severity", "attacks", "unacked", "total">>

GetSIEMStats == <<"total", "severity", "attacks", "unacked">>

Lists == {"incidents", "alerts", "agents", "rules", "blacklist", "geo"}
Requests == {GetDashboardStats, GetSIEMStats} \cup {<<s>> : s \in Lists}

ASSUME AsksAssumption == Asks \in [Readers -> SUBSET Requests]

-----------------------------------------------------------------------------
(* sqlite.go, what is done to the tables. *)

CreateIncident(b) == [db EXCEPT !.incidents = Append(@, b)]
AcknowledgeIncident(i) == [db EXCEPT !.incidents[i].acknowledged = TRUE]
AckSIEMAlert(i) == [db EXCEPT !.incidents[i].acknowledged = TRUE]
CreateAgent(w) == [db EXCEPT !.agents = @ \cup {w}]
CreateRule(w) == [db EXCEPT !.rules = [v \in DOMAIN @ \cup {w} |-> IF v = w THEN TRUE ELSE @[v]]]
ToggleRule(w, on) == [db EXCEPT !.rules[w] = on]
DeleteRule(w) == [db EXCEPT !.rules = [v \in DOMAIN @ \ {w} |-> @[v]]]
CreateBlacklistEntry(ip) == [db EXCEPT !.blacklist = @ \cup {ip}]
DeleteBlacklistEntry(ip) == [db EXCEPT !.blacklist = @ \ {ip}]

Empty == [incidents |-> <<>>, agents |-> {}, rules |-> [w \in {} |-> TRUE], blacklist |-> {}]
NoRequest == [at |-> "new", op |-> "other", ip |-> "none", code |-> 0]
NoReader == [plan |-> <<>>, next |-> 1]

Init ==
    /\ db = Empty
    /\ conn = None
    /\ request = [w \in Writers |-> NoRequest]
    /\ reader = [r \in Readers |-> NoReader]
    /\ shown = [r \in Readers |-> [s \in {} |-> 0]]
    /\ moments = [r \in Readers |-> {}]
    /\ broken = [r \in Readers |-> {}]
    /\ counter = 0 /\ booted = 0
    /\ faults = 0

Busy(r) == reader[r].plan # <<>>
Room == Cardinality({w \in Writers : request[w].at # "new"})
            + Cardinality({r \in Readers : Busy(r)}) + faults < MaxLoad
Fault == Room /\ faults' = faults + 1

-----------------------------------------------------------------------------
(* Requests that change a table.  Those that authMiddleware turns away, or  *)
(* whose body or parameter is refused, reach no statement.                  *)

Arrive(w) ==
    /\ request[w].at = "new" /\ Room
    /\ request' = [request EXCEPT ![w].at = "waiting"]
    /\ UNCHANGED <<db, conn, reading, moments, process, faults>>

Refuse(w) ==
    /\ request[w].at = "new" /\ Room
    /\ request' = [request EXCEPT ![w].at = "answered", ![w].code = 400]
    /\ UNCHANGED <<db, conn, reading, moments, process, faults>>

(* The one statement of the request: it leaves the tables as "new" and is   *)
(* to be answered ok, or it fails, to be answered by an error like another. *)
Exec(w, op, ip, new, ok, error) ==
    LET executed(code) == [at |-> "executed", op |-> op, ip |-> ip, code |-> code]
    IN  /\ request[w].at = "waiting" /\ conn = None
        /\ \/ /\ db' = new
              /\ request' = [request EXCEPT ![w] = executed(ok)]
              /\ moments' = [r \in Readers |-> IF Busy(r) THEN moments[r] \cup {new} ELSE {}]
              /\ UNCHANGED faults
           \/ /\ Fault
              /\ request' = [request EXCEPT ![w] = executed(error)]
              /\ UNCHANGED <<db, moments>>
        /\ UNCHANGED <<conn, reading, process>>

Found(b) == IF b THEN 200 ELSE 404

(* Mutant of createIncident: a failed insert is counted like another. *)
createIncidentUnchecked(w) == \E b \in Bodies : Exec(w, "createIncident", "none", CreateIncident(b), 201, 201)

createIncident(w) == \E b \in Bodies : Exec(w, "createIncident", "none", CreateIncident(b), 201, 500)

Rowids == 1 .. Len(db.incidents)

acknowledgeIncident(w) ==
    \/ \E i \in Rowids : Exec(w, "other", "none", AcknowledgeIncident(i), 200, 404)
    \/ Exec(w, "other", "none", db, 404, 404)

ackSIEMAlert(w) ==
    \/ \E i \in Rowids : Exec(w, "other", "none", AckSIEMAlert(i), 200, 404)
    \/ Exec(w, "other", "none", db, 404, 404)

registerAgent(w) == Exec(w, "other", "none", CreateAgent(w), 201, 500)

createRule(w) == Exec(w, "other", "none", CreateRule(w), 201, 500)

toggleRule(w) ==
    \/ \E v \in DOMAIN db.rules, on \in BOOLEAN : Exec(w, "other", "none", ToggleRule(v, on), 200, 404)
    \/ Exec(w, "other", "none", db, 404, 404)

deleteRule(w) ==
    \/ \E v \in DOMAIN db.rules : Exec(w, "other", "none", DeleteRule(v), 200, 404)
    \/ Exec(w, "other", "none", db, 404, 404)

(* Mutant of addBlacklist: INSERT OR IGNORE. *)
addBlacklistIgnoring(w) ==
    \E ip \in IPs : Exec(w, "add", ip, CreateBlacklistEntry(ip), 201, 409)

(* ip_address is UNIQUE. *)
addBlacklist(w) ==
    \E ip \in IPs : Exec(w, "add", ip, CreateBlacklistEntry(ip), IF ip \in db.blacklist THEN 409 ELSE 201, 409)

removeBlacklist(w) ==
    \E ip \in IPs : Exec(w, "remove", ip, DeleteBlacklistEntry(ip), Found(ip \in db.blacklist), 404)

(* createIncident counts what it has inserted before it answers. *)
Uncounted(w) ==
    request[w].at = "executed" /\ request[w].op = "createIncident" /\ request[w].code = 201

Inc(w) ==
    /\ Uncounted(w)
    /\ request' = [request EXCEPT ![w].at = "counted"]
    /\ counter' = counter + 1
    /\ UNCHANGED <<db, conn, reading, moments, booted, faults>>

Respond(w) ==
    /\ request[w].at \in {"executed", "counted"} /\ ~Uncounted(w)
    /\ request' = [request EXCEPT ![w].at = "answered"]
    /\ UNCHANGED <<db, conn, reading, moments, process, faults>>

-----------------------------------------------------------------------------
(* Requests that show tables.  Every three seconds a stream of telemetry    *)
(* asks for the dashboard's figures as a request does.                      *)

Ask(r) ==
    /\ ~Busy(r) /\ Room
    /\ \E p \in Asks[r] : reader' = [reader EXCEPT ![r].plan = p]
    /\ moments' = [moments EXCEPT ![r] = {db}]
    /\ UNCHANGED <<db, conn, request, shown, broken, process, faults>>

Done(r) == reader[r].next > Len(reader[r].plan)
Statement(r) == reader[r].plan[reader[r].next]
Show(r, f) == shown' = [shown EXCEPT ![r] = [s \in DOMAIN @ \cup {Statement(r)} |->
                                                IF s = Statement(r) THEN f ELSE @[s]]]
Break(r) == Fault /\ broken' = [broken EXCEPT ![r] = @ \cup {Statement(r)}]
GoOn(r) == reader' = [reader EXCEPT ![r].next = @ + 1]

(* Mutant of QueryRow: unacknowledged is worked out from the total. *)
QueryRowSubtracts(r) ==
    /\ Busy(r) /\ ~Done(r) /\ Statement(r) \in Counts /\ conn = None
    /\ Show(r, IF Statement(r) = "unacked"
               THEN shown[r].total - Count(db, LAMBDA i : i.acknowledged) ELSE Figure(db, Statement(r)))
    /\ GoOn(r)
    /\ UNCHANGED <<db, conn, request, moments, broken, process, faults>>

(* A number: what Scan returns is not looked at, and the figure stays 0. *)
QueryRow(r) ==
    /\ Busy(r) /\ ~Done(r) /\ Statement(r) \in Counts /\ conn = None
    /\ \/ Show(r, Figure(db, Statement(r))) /\ UNCHANGED <<broken, faults>>
       \/ Break(r) /\ Show(r, 0)
    /\ GoOn(r)
    /\ UNCHANGED <<db, conn, request, moments, process>>

(* Rows: they are those there are now, and the connection is taken.  The    *)
(* statistics leave out a query that fails; a list of its own is answered   *)
(* 500, as what it shows of nothing.                                        *)
Query(r) ==
    /\ Busy(r) /\ ~Done(r) /\ Statement(r) \notin Counts /\ conn = None
    /\ \/ /\ Show(r, Figure(db, Statement(r)))
          /\ conn' = r
          /\ UNCHANGED <<reader, broken, faults>>
       \/ Break(r) /\ Show(r, {}) /\ GoOn(r) /\ UNCHANGED conn
    /\ UNCHANGED <<db, request, moments, process>>

(* Mutant of LastRow: the loop is left before Next has returned false. *)
LastRowLeft(r) ==
    /\ conn = r /\ ~Done(r) /\ Statement(r) \in DOMAIN shown[r]
    /\ GoOn(r)
    /\ UNCHANGED <<db, conn, request, shown, moments, broken, process, faults>>

(* Next returns false, and the connection is free before the deferred Close.*)
(* Nobody asks rows.Err(): a query that fails on its way is a shorter one.  *)
LastRow(r) ==
    /\ conn = r
    /\ conn' = None
    /\ \/ UNCHANGED <<shown, broken, faults>>
       \/ Break(r) /\ \E rows \in SUBSET shown[r][Statement(r)] : Show(r, rows)
    /\ GoOn(r)
    /\ UNCHANGED <<db, request, moments, process>>

(* The deferred Close has nothing left to free. *)
Reply(r) ==
    /\ Busy(r) /\ Done(r)
    /\ conn' = IF conn = r THEN None ELSE conn
    /\ reader' = [reader EXCEPT ![r] = NoReader]
    /\ shown' = [shown EXCEPT ![r] = [s \in {} |-> 0]]
    /\ broken' = [broken EXCEPT ![r] = {}]
    /\ moments' = [moments EXCEPT ![r] = {}]
    /\ UNCHANGED <<db, request, process, faults>>

-----------------------------------------------------------------------------
(* The process ends and is started again: what was committed is there, also *)
(* for those who have not been told, and RunMigrations creates only tables  *)
(* that are not.                                                            *)
Restart ==
    /\ Fault
    /\ conn' = None
    /\ request' = [w \in Writers |-> IF request[w].at \in {"waiting", "executed", "counted"}
                                     THEN [request[w] EXCEPT !.at = "lost"] ELSE request[w]]
    /\ reader' = [r \in Readers |-> NoReader]
    /\ shown' = [r \in Readers |-> [s \in {} |-> 0]]
    /\ broken' = [r \in Readers |-> {}]
    /\ moments' = [r \in Readers |-> {}]
    /\ counter' = 0
    /\ booted' = Len(db.incidents)
    /\ UNCHANGED db

Come(w) == Arrive(w) \/ Refuse(w)

Write(w) ==
    \/ createIncident(w) \/ acknowledgeIncident(w) \/ ackSIEMAlert(w)
    \/ registerAgent(w) \/ createRule(w) \/ toggleRule(w) \/ deleteRule(w)
    \/ addBlacklist(w) \/ removeBlacklist(w)

Read(r) == QueryRow(r) \/ Query(r)

Next ==
    \/ \E w \in Writers : Come(w) \/ Write(w) \/ Inc(w) \/ Respond(w)
    \/ \E r \in Readers : Ask(r) \/ Read(r) \/ LastRow(r) \/ Reply(r)
    \/ Restart

Spec == Init /\ [][Next]_vars

(* The pool gives a free connection to one of those who wait, at random, so *)
(* nobody is passed over for ever; who has been served goes on.  None need  *)
(* come.                                                                    *)
FairSpec ==
    /\ Spec
    /\ \A w \in Writers : SF_vars(Write(w)) /\ WF_vars(Inc(w) \/ Respond(w))
    /\ \A r \in Readers : SF_vars(Read(r)) /\ WF_vars(LastRow(r) \/ Reply(r))

-----------------------------------------------------------------------------
(* What a dashboard shows was so at some moment while its request ran, each *)
(* figure for itself, whatever was stored meanwhile.  A statement that      *)
(* failed shows a 0 or part of the rows in its place, and nothing says so.  *)
FiguresWereTrue ==
    \A r \in Readers : \A s \in DOMAIN shown[r] :
        \/ \E t \in moments[r] : shown[r][s] = Figure(t, s)
        \/ /\ s \in broken[r]
           /\ IF s \in Counts THEN shown[r][s] = 0
              ELSE \E t \in moments[r] : shown[r][s] \subseteq Figure(t, s)

(* The severities of the SIEM page add up to its total or to more, never to *)
(* less: nothing that was counted is missing from the breakdown.            *)
SeveritiesCoverTotal ==
    \A r \in Readers :
        reader[r].plan = GetSIEMStats /\ Done(r) /\ "severity" \notin broken[r] =>
            shown[r].total <= MapThenSumSet(LAMBDA p : p[2], shown[r].severity)

(* The metric is the number of incidents stored since the process started,  *)
(* less those whose handler has yet to count them.                          *)
CounterMatchesTable ==
    counter + Cardinality({w \in Writers : Uncounted(w)}) = Len(db.incidents) - booted

(* The answers to the requests about an address tell whether it is listed:  *)
(* those that said it was added are one more than those that said it was    *)
(* removed if it is, and as many if not, but for the requests that were     *)
(* carried out and have not been told, or never will be, as the process has *)
(* ended since.                                                             *)
BlacklistAnswersAddUp ==
    LET carriedOut(op, code, ip) ==
            {w \in Writers : request[w].op = op /\ request[w].code = code /\ request[w].ip = ip}
        answered == {w \in Writers : request[w].at = "answered"}
        told(op, code, ip) == Cardinality(carriedOut(op, code, ip) \cap answered)
        untold(op, code, ip) == Cardinality(carriedOut(op, code, ip) \ answered)
    IN  \A ip \in IPs :
            told("add", 201, ip) - told("remove", 200, ip)
            = (IF ip \in db.blacklist THEN 1 ELSE 0)
              - (untold("add", 201, ip) - untold("remove", 200, ip))

(* Nobody waits for a connection that is not given back. *)
EveryRequestAnswered ==
    /\ \A w \in Writers : request[w].at = "waiting" ~> request[w].at \in {"answered", "lost"}
    /\ \A r \in Readers : Busy(r) ~> ~Busy(r)
=============================================================================
