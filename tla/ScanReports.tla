----------------------------- MODULE ScanReports -----------------------------
(***************************************************************************)
(* The scan jobs of ScanJobs with the requests that show them: one scan    *)
(* with its findings, and the statistics and findings of the latest scan   *)
(* (internal/db/vapt.go and vulns.go).  A report takes two statements, and *)
(* jobs go on between them.                                                *)
(*                                                                         *)
(* startVulnScan has no body to reject and gives its row the time; the     *)
(* rows of startVaptScan all have the zero time, so that SQL does not say  *)
(* which of them comes first (SQLite's sorter keeps the oldest).           *)
(***************************************************************************)
EXTENDS ScanJobs

CONSTANT Readers  (* GET requests *)

VARIABLES
    kind,      (* the jobs are those of vapt.go or of vulns.go               *)
    started,   (* StartedAt of each scan, 0 for the zero time                *)
    clock,     (* times taken so far                                         *)
    report,    (* what each reader has read                                  *)
    inserted,  (* history: scans that got a row since a reader's first       *)
               (* statement                                                  *)
    unfinished (* history: the scan it shows was storing findings then       *)

rvars == <<vars, kind, started, clock, report, inserted, unfinished>>
reads == <<report, inserted, unfinished>>

NoReport == [at |-> "new", scan |-> None, status |-> None, of |-> None, count |-> 0]

RInit ==
    /\ Init
    /\ kind \in {"vapt", "vulns"}
    /\ started = [r \in Requests |-> 0]
    /\ clock = 0
    /\ report = [q \in Readers |-> NoReport]
    /\ inserted = [q \in Readers |-> {}]
    /\ unfinished = {}

-----------------------------------------------------------------------------
(* The jobs. *)

(* time.Now(), between the claim and the insert. *)
Stamp(r) ==
    /\ handler[r] = "claimed" /\ started[r] = 0
    /\ clock' = clock + 1
    /\ started' = [started EXCEPT ![r] = clock + 1]
    /\ UNCHANGED <<vars, kind, reads>>

(* Mutant of Insert: the row is given no time. *)
InsertTimeless(r) ==
    /\ Create(r)
    /\ inserted' = [q \in Readers |-> inserted[q] \cup {r}]
    /\ UNCHANGED <<kind, started, clock, report, unfinished>>

Insert(r) ==
    /\ kind = "vulns" => started[r] # 0
    /\ Create(r)
    /\ inserted' = [q \in Readers |-> inserted[q] \cup {r}]
    /\ UNCHANGED <<kind, started, clock, report, unfinished>>

startVaptScan(r) ==
    /\ kind = "vapt"
    /\ \/ Insert(r)
       \/ /\ Check(r) \/ Conflict(r) \/ Reject(r) \/ Claim(r) \/ CreateFails(r) \/ Start(r)
          /\ UNCHANGED <<kind, started, clock, reads>>

startVulnScan(r) ==
    /\ kind = "vulns"
    /\ \/ Stamp(r) \/ Insert(r)
       \/ /\ started[r] # 0 /\ CreateFails(r)
          /\ UNCHANGED <<kind, started, clock, reads>>
       \/ /\ Check(r) \/ Conflict(r) \/ Claim(r) \/ Start(r)
          /\ UNCHANGED <<kind, started, clock, reads>>

runScanAsync(r) == Work(r) /\ UNCHANGED <<kind, started, clock, reads>>

(* The tables are there, and the migrations leave them as they are. *)
Restart ==
    /\ Crash
    /\ report' = [q \in Readers |-> IF report[q].at \in {"row", "latest"} THEN NoReport ELSE report[q]]
    /\ UNCHANGED <<kind, started, clock, inserted, unfinished>>

-----------------------------------------------------------------------------
(* The reports. *)

ListScans == {r \in Requests : row[r] # None}

(* ORDER BY started_at DESC LIMIT 1 *)
LatestVulnScans == {r \in ListScans : \A s \in ListScans : started[s] <= started[r]}
LatestVaptScans == ListScans
Latest == IF kind = "vulns" THEN LatestVulnScans ELSE LatestVaptScans

(* The first statement of a report finds the row of scan r. *)
ReadRow(q, r, at) ==
    /\ report[q].at = "new"
    /\ report' = [report EXCEPT ![q] = [at |-> at, scan |-> r, status |-> row[r], of |-> None, count |-> 0]]
    /\ inserted' = [inserted EXCEPT ![q] = {}]
    /\ unfinished' = IF task[r] = "storing" THEN unfinished \cup {q} ELSE unfinished \ {q}
    /\ UNCHANGED <<vars, kind, started, clock>>

(* The findings of scan r; a query that fails is shown as none.             *)
CountFindings(q, r, at) ==
    /\ \E n \in {findings[r], 0} :
           report' = [report EXCEPT ![q].at = IF n = findings[r] THEN at ELSE "broken",
                                    ![q].of = r, ![q].count = n]
    /\ UNCHANGED <<vars, kind, started, clock, inserted, unfinished>>

(* Mutant of GetScan: the findings are read before the row. *)
GetScanFindingsFirst(q, r) ==
    \/ /\ row[r] # None /\ report[q].at = "new"
       /\ report' = [report EXCEPT ![q] = [at |-> "row", scan |-> r, status |-> None, of |-> r,
                                           count |-> findings[r]]]
       /\ UNCHANGED <<vars, kind, started, clock, inserted, unfinished>>
    \/ /\ report[q].at = "row" /\ report[q].scan = r
       /\ report' = [report EXCEPT ![q].at = "scan", ![q].status = row[r]]
       /\ unfinished' = IF task[r] = "storing" THEN unfinished \cup {q} ELSE unfinished \ {q}
       /\ UNCHANGED <<vars, kind, started, clock, inserted>>

(* One scan: its row (404 if there is none), and then its findings. *)
GetScan(q, r) ==
    \/ row[r] # None /\ ReadRow(q, r, "row")
    \/ report[q].at = "row" /\ report[q].scan = r /\ CountFindings(q, r, "scan")

GetVaptScan(q, r) == kind = "vapt" /\ GetScan(q, r)
GetVulnScan(q, r) == kind = "vulns" /\ GetScan(q, r)

(* The statistics: the row of the latest scan, if there is one and the      *)
(* query does not fail, and then the findings of what is the latest by then.*)
GetStats(q) ==
    \/ \E r \in Latest : ReadRow(q, r, "latest")
    \/ /\ report[q].at = "new"
       /\ report' = [report EXCEPT ![q].at = "latest"]
       /\ UNCHANGED <<vars, kind, started, clock, inserted, unfinished>>
    \/ report[q].at = "latest" /\ \E r \in Latest : CountFindings(q, r, "stats")

GetVaptStats(q) == kind = "vapt" /\ GetStats(q)
GetVulnStats(q) == kind = "vulns" /\ GetStats(q)

(* Findings alone, of one scan or of the latest. *)
ListFindings(q, r) == report[q].at = "new" /\ CountFindings(q, r, "list")
ListVaptFindings(q) == kind = "vapt" /\ \E r \in Requests : ListFindings(q, r)
ListAllVaptFindings(q) == kind = "vapt" /\ \E r \in Latest : ListFindings(q, r)
ListAllVulnFindings(q) == kind = "vulns" /\ \E r \in Latest : ListFindings(q, r)

Reply(q) ==
    /\ report[q].at \in {"scan", "stats", "list", "broken"}
    /\ report' = [report EXCEPT ![q] = NoReport]
    /\ inserted' = [inserted EXCEPT ![q] = {}]
    /\ unfinished' = unfinished \ {q}
    /\ UNCHANGED <<vars, kind, started, clock>>

Job(r) == startVaptScan(r) \/ startVulnScan(r) \/ runScanAsync(r)

Read(q) ==
    \/ \E r \in Requests : GetVaptScan(q, r) \/ GetVulnScan(q, r)
    \/ GetVaptStats(q) \/ GetVulnStats(q)
    \/ ListVaptFindings(q) \/ ListAllVaptFindings(q) \/ ListAllVulnFindings(q)
    \/ Reply(q)

RNext == (\E r \in Requests : Job(r)) \/ (\E q \in Readers : Read(q)) \/ Restart

RSpec == RInit /\ [][RNext]_rvars

RFairSpec ==
    /\ RSpec
    /\ \A r \in Requests :
           /\ WF_rvars(Launching(r) /\ (startVaptScan(r) \/ startVulnScan(r)))
           /\ WF_rvars(Finish(r) /\ UNCHANGED <<kind, started, clock, reads>>)

-----------------------------------------------------------------------------
(* A report that says a scan is completed has all that it found, unless     *)
(* findings were still being stored when its row was read, or some were     *)
(* lost to a crash or a failed write; a client that stops asking once it    *)
(* sees "completed" can miss what comes later, but one that asks again does *)
(* not.  A report that says "running" has no findings unless the scan       *)
(* completed in between.                                                    *)
ReportsAreComplete ==
    \A q \in Readers :
        report[q].at = "scan" =>
            LET r == report[q].scan
            IN  /\ report[q].status = "completed" =>
                       report[q].count = result[r] \/ q \in unfinished \/ r \in spoiled
                /\ report[q].status = "running" /\ report[q].count > 0 => row[r] = "completed"

(* The statistics of the vulnerability page join the status of one scan and *)
(* the findings of another only if the other got its row between the two    *)
(* statements, and then it is the newer one.                                *)
StatsMixOnlyByNewScan ==
    \A q \in Readers :
        kind = "vulns" /\ report[q].at = "stats" /\ report[q].scan \notin {None, report[q].of} =>
            report[q].of \in inserted[q] /\ started[report[q].scan] < started[report[q].of]
=============================================================================
