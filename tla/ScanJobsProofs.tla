--------------------------- MODULE ScanJobsProofs ---------------------------
(* Proofs about the scan slot of ScanJobs and the reports of ScanReports,    *)
(* for any number of requests, readers, findings and crashes.                *)
EXTENDS ScanReports, TLAPS

(* A goroutine exists only after its handler is done, the loop index and the *)
(* findings stay 0 until the loop, a row has the status of the place its     *)
(* scan has reached, and a release that leaves it "running" is a spoiled     *)
(* scan's.                                                                   *)
PlaceInv ==
    \A r \in Requests :
        /\ Working(r) => handler[r] = "done"
        /\ task[r] \in {"scanning", "updating"} \/ handler[r] # "done" =>
               turn[r] = 0 /\ findings[r] = 0
        /\ handler[r] \in {"new", "checked", "claimed", "conflict"} => row[r] = None
        /\ handler[r] = "created" => row[r] = "running"
        /\ task[r] \in {"scanning", "updating"} => row[r] = "running"
        /\ task[r] = "storing" => row[r] = "completed"
        /\ task[r] = "releasing" => row[r] = "completed" \/ r \in spoiled

SlotInv == SlotHasOwner /\ OnlyDisplacedScansOverlap

RowInv == RunningRowIsWorkedOn /\ CompletedScanHasFindings

IInv == TypeOK /\ PlaceInv /\ SlotInv /\ RowInv

-----------------------------------------------------------------------------
LEMMA Initially == Init => IInv
BY ScanAssumption
   DEF Init, IInv, TypeOK, HandlerAt, TaskAt, PlaceInv, Working, Launching,
       SlotInv, SlotHasOwner, OnlyDisplacedScansOverlap,
       RowInv, RunningRowIsWorkedOn, CompletedScanHasFindings

(* One step of a handler. *)
LEMMA HandlerKeeps ==
  ASSUME IInv, NEW r \in Requests, Handle(r)
  PROVE  IInv'
<1> USE ScanAssumption DEF TypeOK, HandlerAt, TaskAt, scan, tables, history, Go, Run, Displace
<1> TypeOK /\ PlaceInv /\ SlotInv /\ RowInv
  BY DEF IInv
<1>1. TypeOK'
  BY DEF Handle, Check, Conflict, Reject, Claim, Create, CreateFails, Start
<1>2. PlaceInv'
  BY DEF PlaceInv, Working, Handle, Check, Conflict, Reject, Claim, Create, CreateFails, Start
<1>3. SlotHasOwner'
  BY DEF SlotInv, SlotHasOwner, Launching, PlaceInv, Working,
         Handle, Check, Conflict, Reject, Claim, Create, CreateFails, Start
<1>4. OnlyDisplacedScansOverlap'
  BY DEF SlotInv, OnlyDisplacedScansOverlap, Launching, PlaceInv, Working,
         Handle, Check, Conflict, Reject, Claim, Create, CreateFails, Start
<1>5. RowInv'
  BY DEF RowInv, RunningRowIsWorkedOn, CompletedScanHasFindings, PlaceInv, Working,
         Handle, Check, Conflict, Reject, Claim, Create, CreateFails, Start
<1> QED BY <1>1, <1>2, <1>3, <1>4, <1>5 DEF IInv, SlotInv

(* One step of a goroutine. *)
LEMMA GoroutineKeeps ==
  ASSUME IInv, NEW r \in Requests, Work(r)
  PROVE  IInv'
<1> USE ScanAssumption DEF TypeOK, HandlerAt, TaskAt, scan, tables, history, Run
<1> TypeOK /\ PlaceInv /\ SlotInv /\ RowInv
  BY DEF IInv
<1>1. TypeOK'
  BY DEF PlaceInv, Work, Finish, ScanEnds, Update, UpdateFails, StoreFinding, Stored, Release
<1>2. PlaceInv'
  BY DEF PlaceInv, Working, Work, Finish, ScanEnds, Update, UpdateFails, StoreFinding, Stored, Release
<1>3. SlotInv'
  BY DEF SlotInv, SlotHasOwner, OnlyDisplacedScansOverlap, Launching, PlaceInv, Working,
         Work, Finish, ScanEnds, Update, UpdateFails, StoreFinding, Stored, Release
<1>4. RunningRowIsWorkedOn'
  BY DEF RowInv, RunningRowIsWorkedOn, PlaceInv, Working,
         Work, Finish, ScanEnds, Update, UpdateFails, StoreFinding, Stored, Release
<1>5. CompletedScanHasFindings'
  BY DEF RowInv, CompletedScanHasFindings, PlaceInv, Working,
         Work, Finish, ScanEnds, Update, UpdateFails, StoreFinding, Stored, Release
<1> QED BY <1>1, <1>2, <1>3, <1>4, <1>5 DEF IInv, RowInv

LEMMA CrashKeeps ==
  ASSUME IInv, Crash
  PROVE  IInv'
<1> USE ScanAssumption DEF scan, tables, Crash
<1>1. TypeOK'
  BY DEF IInv, TypeOK, HandlerAt, TaskAt
<1>2. PlaceInv'
  BY DEF IInv, TypeOK, PlaceInv, Working
<1>3. SlotInv'
  BY DEF IInv, TypeOK, SlotInv, SlotHasOwner, OnlyDisplacedScansOverlap, Working, Launching
<1>4. RowInv'
  BY DEF IInv, TypeOK, TaskAt, PlaceInv, RowInv, RunningRowIsWorkedOn, CompletedScanHasFindings, Working
<1> QED BY <1>1, <1>2, <1>3, <1>4 DEF IInv

LEMMA IInvInductive == IInv /\ [Next]_vars => IInv'
<1> SUFFICES ASSUME IInv, [Next]_vars PROVE IInv'
  OBVIOUS
<1>1. CASE UNCHANGED vars
  BY <1>1 DEF vars, IInv, TypeOK, PlaceInv, SlotInv, SlotHasOwner, Launching, Working,
              OnlyDisplacedScansOverlap, RowInv, RunningRowIsWorkedOn, CompletedScanHasFindings
<1>2. ASSUME NEW r \in Requests, Handle(r) \/ Work(r) PROVE IInv'
  BY <1>2, HandlerKeeps, GoroutineKeeps
<1> QED BY <1>1, <1>2, CrashKeeps DEF Next

LEMMA Invariance == Spec => []IInv
BY Initially, IInvInductive, PTL DEF Spec

-----------------------------------------------------------------------------
(* Handlers, goroutines, rows and the slot always have their types, and no   *)
(* loop over findings runs past their number.                                *)
THEOREM TypeCorrect == Spec => []TypeOK
BY Invariance, PTL DEF IInv

(* The slot is never left to a scan that nobody will take out of it. *)
THEOREM SlotAlwaysOwned == Spec => []SlotHasOwner
BY Invariance, PTL DEF IInv, SlotInv

(* Scans overlap only when one has displaced the other. *)
THEOREM OverlapCharacterised == Spec => []OnlyDisplacedScansOverlap
BY Invariance, PTL DEF IInv, SlotInv

(* The rows tell the truth about every scan that no crash or failed write    *)
(* has spoiled: running while it runs, and completed with its findings.      *)
THEOREM RowsCorrect == Spec => [](RunningRowIsWorkedOn /\ CompletedScanHasFindings)
BY Invariance, PTL DEF IInv, RowInv

(* The first half by itself: a row says "running" exactly while a handler or *)
(* goroutine of vapt.go or vulns.go still works on it, but for rows that a   *)
(* crash or a failed write left behind.                                      *)
THEOREM RunningRowsWorkedOn == Spec => []RunningRowIsWorkedOn
BY RowsCorrect, PTL

-----------------------------------------------------------------------------
(* The reports.  They only read: every step is one of ScanJobs, or leaves    *)
(* all of its state alone.                                                   *)
LEMMA JobStep == [RNext]_rvars => [Next]_vars
<1> SUFFICES ASSUME [RNext]_rvars PROVE [Next]_vars
  OBVIOUS
<1>1. CASE UNCHANGED rvars
  BY <1>1 DEF rvars
<1>2. CASE Restart
  BY <1>2 DEF Restart, Next
<1>3. ASSUME NEW r \in Requests, Job(r) PROVE [Next]_vars
  <2>1. CASE Stamp(r)
    BY <2>1 DEF Stamp
  <2>2. CASE ~Stamp(r)
    <3>1. Handle(r) \/ Work(r)
      BY <1>3, <2>2 DEF Job, startVaptScan, startVulnScan, runScanAsync, Insert, Handle
    <3> QED BY <3>1 DEF Next
  <2> QED BY <2>1, <2>2
<1>4. ASSUME NEW q \in Readers, Read(q) PROVE UNCHANGED vars
  BY <1>4 DEF Read, GetVaptScan, GetVulnScan, GetScan, GetVaptStats, GetVulnStats, GetStats,
              ListVaptFindings, ListAllVaptFindings, ListAllVulnFindings, ListFindings,
              ReadRow, CountFindings, Reply
<1> QED BY <1>1, <1>2, <1>3, <1>4 DEF RNext

(* The jobs of ScanReports are those of ScanJobs: what is proved of these    *)
(* holds whatever is read meanwhile.                                         *)
THEOREM RefinesJobs == RSpec => Spec
<1>1. RInit => Init
  BY DEF RInit
<1> QED BY <1>1, JobStep, PTL DEF RSpec, Spec

LEMMA JobInvariance == RSpec => []IInv
BY RefinesJobs, Invariance, PTL

(* What a step can never take back: a row stays, and so does "completed";    *)
(* what a scan found is settled by then, and when its loop is over so is     *)
(* what is stored of it.                                                     *)
Settled(r) == row[r] = "completed" /\ task[r] \in {"none", "releasing"} /\ findings[r] = result[r]

Lasts(r) ==
    /\ row[r] # None => row'[r] # None
    /\ row[r] = "completed" => row'[r] = "completed" /\ result'[r] = result[r]
    /\ r \in spoiled => r \in spoiled'
    /\ Settled(r) => Settled(r)'

LEMMA Lasting ==
  ASSUME IInv, [Next]_vars, NEW r \in Requests
  PROVE  Lasts(r)
<1> USE ScanAssumption DEF IInv, TypeOK, PlaceInv, Working, Settled, Lasts, scan, tables, history, Go, Run
<1>1. CASE UNCHANGED vars
  BY <1>1 DEF vars
<1>2. CASE Crash
  BY <1>2 DEF Crash
<1>3. ASSUME NEW s \in Requests, Handle(s) PROVE Lasts(r)
  BY <1>3 DEF Handle, Check, Conflict, Reject, Claim, Create, CreateFails, Start
<1>4. ASSUME NEW s \in Requests, Work(s) PROVE Lasts(r)
  BY <1>4 DEF Work, Finish, ScanEnds, Update, UpdateFails, StoreFinding, Stored, Release
<1> QED BY <1>1, <1>2, <1>3, <1>4 DEF Next

-----------------------------------------------------------------------------
Report == [at : {"new", "row", "latest", "scan", "stats", "list", "broken"},
           scan : Requests \cup {None}, status : {None, "running", "completed"},
           of : Requests \cup {None}, count : Nat]

ReportTypes ==
    /\ kind \in {"vapt", "vulns"}
    /\ started \in [Requests -> Nat] /\ clock \in Nat
    /\ report \in [Readers -> Report]
    /\ inserted \in [Readers -> SUBSET Requests]
    /\ unfinished \subseteq Readers

(* No two scans are given one time, and a scan of vulns.go that has a row    *)
(* has been given one.                                                       *)
StampInv ==
    \A r \in Requests :
        /\ started[r] <= clock
        /\ kind = "vulns" /\ row[r] # None => started[r] # 0
        /\ \A s \in Requests : started[r] = started[s] /\ started[r] # 0 => r = s

(* A row that was read as completed was settled unless its reader is known   *)
(* to have come too early, or the scan is spoiled.                           *)
RowReadInv ==
    \A q \in Readers :
        /\ report[q].at = "new" => report[q].scan = None
        /\ report[q].at \in {"row", "scan"} =>
               /\ report[q].scan \in Requests
               /\ report[q].status = "completed" =>
                      q \in unfinished \/ report[q].scan \in spoiled \/ Settled(report[q].scan)

(* Scans newer than the one that was read as the latest got their rows since.*)
LatestReadInv ==
    kind = "vulns" => \A q \in Readers :
        /\ report[q].at \in {"latest", "stats"} /\ report[q].scan # None =>
               row[report[q].scan] # None
        /\ report[q].at = "latest" /\ report[q].scan # None =>
               \A r \in Requests : row[r] # None /\ r \notin inserted[q] =>
                                       started[r] <= started[report[q].scan]
        /\ report[q].at = "stats" => report[q].of \in Requests /\ row[report[q].of] # None

ReportInv ==
    /\ ReportTypes /\ StampInv /\ RowReadInv /\ LatestReadInv
    /\ ReportsAreComplete /\ StatsMixOnlyByNewScan

LEMMA ReportsInitially == RInit => ReportInv
BY ScanAssumption
   DEF RInit, Init, NoReport, ReportInv, ReportTypes, Report, StampInv, RowReadInv, LatestReadInv,
       ReportsAreComplete, StatsMixOnlyByNewScan

(* A job, or nothing, while the reports stand still. *)
LEMMA JobKeepsReports ==
  ASSUME IInv, ReportInv, [Next]_vars, UNCHANGED <<kind, report, unfinished>>,
         \A q \in Readers : inserted[q] \subseteq inserted'[q],
         \A q \in Readers : \A r \in Requests : row[r] = None /\ row'[r] # None => r \in inserted'[q],
         ReportTypes', StampInv',
         \A r \in Requests : row[r] # None => started'[r] = started[r]
  PROVE  ReportInv'
<1> \A r \in Requests : Lasts(r)
  BY Lasting
<1> USE DEF ReportInv, ReportTypes, Report
<1>1. RowReadInv'
  BY DEF RowReadInv, Lasts
<1>2. LatestReadInv'
  BY DEF LatestReadInv, Lasts
<1>3. ReportsAreComplete'
  <2> SUFFICES ASSUME NEW q \in Readers, report[q].at = "scan"
               PROVE  LET r == report[q].scan
                      IN  /\ report[q].status = "completed" =>
                                 report[q].count = result'[r] \/ q \in unfinished \/ r \in spoiled'
                          /\ report[q].status = "running" /\ report[q].count > 0 => row'[r] = "completed"
    BY DEF ReportsAreComplete
  <2> DEFINE r == report[q].scan
  <2>1. r \in Requests /\ Lasts(r)
    BY DEF RowReadInv
  <2>2. report[q].status = "completed" => q \in unfinished \/ r \in spoiled \/ row[r] = "completed"
    BY DEF RowReadInv, Settled
  <2> QED BY <2>1, <2>2 DEF ReportsAreComplete, Lasts
<1>4. StatsMixOnlyByNewScan'
  BY DEF LatestReadInv, StatsMixOnlyByNewScan
<1> QED BY <1>1, <1>2, <1>3, <1>4

LEMMA StampKeepsReports ==
  ASSUME IInv, ReportInv, NEW r \in Requests, Stamp(r) PROVE ReportInv'
<1> USE DEF ReportInv, ReportTypes, Stamp, reads, vars
<1>1. row[r] = None
  BY DEF IInv, PlaceInv
<1>2. ReportTypes'
  OBVIOUS
<1>3. StampInv'
  BY DEF StampInv
<1> QED BY <1>1, <1>2, <1>3, JobKeepsReports

(* The jobs' steps that leave the clock alone. *)
LEMMA StepKeepsReports ==
  ASSUME IInv, ReportInv, NEW r \in Requests, Job(r), ~Stamp(r) PROVE ReportInv'
<1> USE DEF ReportInv, ReportTypes, reads
<1>1. [Next]_vars
  BY JobStep DEF RNext
<1>2. \/ Insert(r)
      \/ /\ \/ Check(r) \/ Conflict(r) \/ Reject(r) \/ Claim(r) \/ CreateFails(r)
            \/ Start(r) \/ Work(r)
         /\ UNCHANGED <<kind, started, clock, reads>>
  BY DEF Job, startVaptScan, startVulnScan, runScanAsync
<1>3. CASE Insert(r)
  <2> USE <1>3 DEF Insert
  <2>1. row' = [row EXCEPT ![r] = "running"] /\ UNCHANGED <<kind, started, clock, report, unfinished>>
    BY DEF Create
  <2>2. \A q \in Readers : inserted'[q] = inserted[q] \cup {r}
    OBVIOUS
  <2>3. ReportTypes'
    BY <2>1
  <2>4. StampInv'
    BY <2>1, <1>1 DEF StampInv, IInv, TypeOK
  <2> QED BY <1>1, <2>1, <2>2, <2>3, <2>4, JobKeepsReports DEF IInv, TypeOK
<1>4. CASE ~Insert(r)
  <2>1. UNCHANGED <<kind, started, clock, report, inserted, unfinished>>
    BY <1>2, <1>4
  <2>2. \A s \in Requests : row[s] = None => row'[s] = None
    BY <1>2, <1>4, ScanAssumption
       DEF IInv, TypeOK, PlaceInv, tables, Check, Conflict, Reject, Claim, CreateFails, Start, Go, Run,
           Work, Finish, ScanEnds, Update, UpdateFails, StoreFinding, Stored, Release
  <2>3. StampInv'
    BY <2>1, <2>2 DEF StampInv
  <2> QED BY <1>1, <2>1, <2>2, <2>3, JobKeepsReports
<1> QED BY <1>3, <1>4

LEMMA RestartKeepsReports ==
  ASSUME IInv, ReportInv, Restart PROVE ReportInv'
<1> USE DEF ReportInv, ReportTypes, Report, Restart
<1>1. [Next]_vars /\ \A r \in Requests : Lasts(r)
  BY Lasting DEF Next
<1>2. UNCHANGED <<row, result>>
  BY DEF Crash, tables, scan
<1>3. NoReport \in Report
  BY DEF NoReport
<1>4. \A q \in Readers :
         \/ report'[q] = NoReport
         \/ report'[q] = report[q] /\ report[q].at \notin {"row", "latest"}
  OBVIOUS
<1>5. ReportTypes'
  BY <1>3
<1>6. StampInv'
  BY <1>2 DEF StampInv
<1>7. RowReadInv'
  BY <1>1, <1>4 DEF RowReadInv, Lasts, NoReport
<1>8. LatestReadInv'
  BY <1>2, <1>4 DEF LatestReadInv, NoReport
<1>9. ReportsAreComplete'
  BY <1>1, <1>2, <1>4 DEF ReportsAreComplete, RowReadInv, Lasts, NoReport
<1>10. StatsMixOnlyByNewScan'
  BY <1>4 DEF StatsMixOnlyByNewScan, NoReport
<1> QED BY <1>5, <1>6, <1>7, <1>8, <1>9, <1>10

(* The statements of a report, and its end. *)
LEMMA ReadRowKeeps ==
  ASSUME IInv, ReportInv, NEW q \in Readers, NEW r \in Requests, NEW at \in {"row", "latest"},
         row[r] # None, ReadRow(q, r, at), at = "latest" => r \in Latest
  PROVE  ReportInv'
<1> USE DEF ReportInv, ReportTypes, Report, ReadRow, vars
<1>1. /\ report'[q] = [at |-> at, scan |-> r, status |-> row[r], of |-> None, count |-> 0]
      /\ inserted'[q] = {}
      /\ \A p \in Readers : p # q => report'[p] = report[p] /\ inserted'[p] = inserted[p]
      /\ \A p \in Readers : p # q => (p \in unfinished' <=> p \in unfinished)
      /\ q \in unfinished' <=> task[r] = "storing"
  OBVIOUS
<1>2. ReportTypes'
  <2>1. [at |-> at, scan |-> r, status |-> row[r], of |-> None, count |-> 0] \in Report
    BY DEF IInv, TypeOK
  <2>2. report' \in [Readers -> Report]
    BY <2>1
  <2>3. inserted' \in [Readers -> SUBSET Requests] /\ unfinished' \subseteq Readers
    OBVIOUS
  <2> QED BY <2>2, <2>3
<1>3. StampInv'
  BY DEF StampInv
<1>4. RowReadInv'
  <2>1. row[r] = "completed" => task[r] = "storing" \/ r \in spoiled \/ Settled(r)
    BY ScanAssumption DEF IInv, TypeOK, TaskAt, PlaceInv, RowInv, CompletedScanHasFindings, Settled
  <2> QED BY <1>1, <2>1 DEF RowReadInv, Settled
<1>5. LatestReadInv'
  <2>1. kind = "vulns" /\ at = "latest" => \A s \in Requests : row[s] # None => started[s] <= started[r]
    BY DEF Latest, LatestVulnScans, ListScans
  <2> QED BY <1>1, <2>1 DEF LatestReadInv
<1>6. ReportsAreComplete'
  BY <1>1 DEF ReportsAreComplete
<1>7. StatsMixOnlyByNewScan'
  BY <1>1 DEF StatsMixOnlyByNewScan
<1> QED BY <1>2, <1>3, <1>4, <1>5, <1>6, <1>7

LEMMA CountKeeps ==
  ASSUME IInv, ReportInv, NEW q \in Readers, NEW r \in Requests, NEW at \in {"scan", "stats", "list"},
         CountFindings(q, r, at),
         at = "scan" => report[q].at = "row" /\ report[q].scan = r,
         at = "stats" => report[q].at = "latest" /\ r \in Latest
  PROVE  ReportInv'
<1> USE DEF ReportInv, ReportTypes, Report, vars
<1>1. PICK n \in {findings[r], 0} :
          report' = [report EXCEPT ![q].at = IF n = findings[r] THEN at ELSE "broken",
                                   ![q].of = r, ![q].count = n]
  BY DEF CountFindings
<1>2. UNCHANGED <<vars, kind, started, clock, inserted, unfinished>>
  BY DEF CountFindings
<1>3. /\ report'[q].at = IF n = findings[r] THEN at ELSE "broken"
      /\ report'[q].of = r /\ report'[q].count = n
      /\ report'[q].scan = report[q].scan /\ report'[q].status = report[q].status
      /\ \A p \in Readers : p # q => report'[p] = report[p]
  BY <1>1
<1>4. n \in Nat /\ findings[r] \in Nat
  BY DEF IInv, TypeOK
<1>5. ReportTypes'
  <2> DEFINE to == IF n = findings[r] THEN at ELSE "broken"
  <2>1. to \in {"scan", "stats", "list", "broken"}
    OBVIOUS
  <2>2. report[q] \in Report
    OBVIOUS
  <2>3. [report[q] EXCEPT !.at = to, !.of = r, !.count = n] \in Report
    <3> HIDE DEF to
    <3> QED BY <1>4, <2>1, <2>2
  <2>4. report' = [report EXCEPT ![q] = [report[q] EXCEPT !.at = to, !.of = r, !.count = n]]
    <3> HIDE DEF to
    <3>1. report' = [report EXCEPT ![q].at = to, ![q].of = r, ![q].count = n]
      BY <1>1 DEF to
    <3> QED BY <3>1
  <2>5. report' \in [Readers -> Report]
    <3> HIDE DEF to
    <3> QED BY <2>3, <2>4
  <2> QED BY <1>2, <2>5
<1>6. StampInv'
  BY <1>2 DEF StampInv
<1>7. RowReadInv'
  BY <1>2, <1>3 DEF RowReadInv, Settled
<1>8. LatestReadInv'
  <2>1. at = "stats" => row[r] # None
    BY DEF Latest, LatestVulnScans, LatestVaptScans, ListScans
  <2> QED BY <1>2, <1>3, <2>1 DEF LatestReadInv
<1>9. ReportsAreComplete'
  <2>1. at = "scan" /\ n = findings[r] =>
            /\ report[q].status = "completed" => n = result[r] \/ q \in unfinished \/ r \in spoiled
            /\ n > 0 => row[r] = "completed"
    BY <1>4 DEF RowReadInv, Settled, IInv, RowInv, CompletedScanHasFindings
  <2> QED BY <1>2, <1>3, <2>1 DEF ReportsAreComplete
<1>10. StatsMixOnlyByNewScan'
  <2>1. ASSUME kind = "vulns", at = "stats", report[q].scan \notin {None, r}
        PROVE  r \in inserted[q] /\ started[report[q].scan] < started[r]
    <3> DEFINE s == report[q].scan
    <3>1. s \in Requests /\ row[s] # None /\ row[r] # None /\ s # r
      BY <2>1 DEF LatestReadInv, Latest, LatestVulnScans, ListScans
    <3>2. started[s] <= started[r]
      BY <2>1, <3>1 DEF Latest, LatestVulnScans, ListScans
    <3>3. started[s] # started[r]
      BY <2>1, <3>1 DEF StampInv
    <3>4. started[s] \in Nat /\ started[r] \in Nat
      BY <3>1
    <3>5. started[s] < started[r]
      BY <3>2, <3>3, <3>4
    <3>6. r \notin inserted[q] => started[r] <= started[s]
      BY <2>1, <3>1 DEF LatestReadInv
    <3> QED BY <3>4, <3>5, <3>6
  <2> QED BY <1>2, <1>3, <2>1 DEF StatsMixOnlyByNewScan
<1> QED BY <1>5, <1>6, <1>7, <1>8, <1>9, <1>10

(* A report that goes on without the latest row, or is sent. *)
LEMMA SkipKeeps ==
  ASSUME IInv, ReportInv, NEW q \in Readers,
         \/ /\ report[q].at = "new"
            /\ report' = [report EXCEPT ![q].at = "latest"]
            /\ UNCHANGED <<vars, kind, started, clock, inserted, unfinished>>
         \/ Reply(q)
  PROVE  ReportInv'
<1> USE DEF ReportInv, ReportTypes, Report, vars
<1>1. UNCHANGED <<vars, kind, started, clock>>
  BY DEF Reply
<1>2. /\ report'[q].scan = None /\ report'[q].at \in {"new", "latest"}
      /\ \A p \in Readers : p # q => report'[p] = report[p]
      /\ \A p \in Readers : p # q => inserted'[p] = inserted[p]
      /\ \A p \in Readers : p # q => (p \in unfinished' <=> p \in unfinished)
  <2>1. CASE Reply(q)
    BY <2>1 DEF Reply, NoReport
  <2>2. CASE ~Reply(q)
    BY <2>2 DEF RowReadInv
  <2> QED BY <2>1, <2>2
<1>3. ReportTypes'
  <2>1. NoReport \in Report
    BY DEF NoReport
  <2>2. report' \in [Readers -> Report] /\ inserted' \in [Readers -> SUBSET Requests]
    BY <2>1 DEF Reply
  <2>3. unfinished' \subseteq Readers
    BY DEF Reply
  <2> QED BY <1>1, <2>2, <2>3
<1>4. StampInv'
  BY <1>1 DEF StampInv
<1>5. RowReadInv'
  BY <1>1, <1>2 DEF RowReadInv, Settled
<1>6. LatestReadInv'
  BY <1>1, <1>2 DEF LatestReadInv
<1>7. ReportsAreComplete'
  BY <1>1, <1>2 DEF ReportsAreComplete
<1>8. StatsMixOnlyByNewScan'
  BY <1>1, <1>2 DEF StatsMixOnlyByNewScan
<1> QED BY <1>3, <1>4, <1>5, <1>6, <1>7, <1>8

LEMMA ReadKeepsReports ==
  ASSUME IInv, ReportInv, NEW q \in Readers, Read(q) PROVE ReportInv'
<1>1. ASSUME NEW r \in Requests, GetScan(q, r) PROVE ReportInv'
  BY <1>1, ReadRowKeeps, CountKeeps DEF GetScan
<1>2. CASE GetStats(q)
  <2> \A r \in Latest : r \in Requests /\ row[r] # None
    BY DEF Latest, LatestVulnScans, LatestVaptScans, ListScans
  <2> QED BY <1>2, ReadRowKeeps, CountKeeps, SkipKeeps DEF GetStats
<1>3. ASSUME NEW r \in Requests, ListFindings(q, r) PROVE ReportInv'
  BY <1>3, CountKeeps DEF ListFindings
<1>4. CASE Reply(q)
  BY <1>4, SkipKeeps
<1>5. \A r \in Latest : r \in Requests
  BY DEF Latest, LatestVulnScans, LatestVaptScans, ListScans
<1> QED BY <1>1, <1>2, <1>3, <1>4, <1>5
       DEF Read, GetVaptScan, GetVulnScan, GetVaptStats, GetVulnStats,
           ListVaptFindings, ListAllVaptFindings, ListAllVulnFindings

LEMMA ReportInvariance == RSpec => []ReportInv
<1>1. IInv /\ ReportInv /\ [RNext]_rvars => ReportInv'
  <2> SUFFICES ASSUME IInv, ReportInv, [RNext]_rvars PROVE ReportInv'
    OBVIOUS
  <2>1. CASE UNCHANGED rvars
    BY <2>1 DEF rvars, vars, ReportInv, ReportTypes, StampInv, RowReadInv, Settled, LatestReadInv,
                ReportsAreComplete, StatsMixOnlyByNewScan
  <2>2. ASSUME NEW r \in Requests, Job(r) PROVE ReportInv'
    BY <2>2, StampKeepsReports, StepKeepsReports
  <2>3. ASSUME NEW q \in Readers, Read(q) PROVE ReportInv'
    BY <2>3, ReadKeepsReports
  <2> QED BY <2>1, <2>2, <2>3, RestartKeepsReports DEF RNext
<1> QED BY ReportsInitially, JobInvariance, <1>1, PTL DEF RSpec

(* A report of a completed scan lacks nothing of it, for any number of       *)
(* scans and readers, unless its row was read while findings were still      *)
(* being stored, or a crash or a failed write had lost some.                 *)
THEOREM ReportsComplete == RSpec => []ReportsAreComplete
BY ReportInvariance, PTL DEF ReportInv

(* The statistics join two scans only if the second got its row between the  *)
(* two statements, and is newer.                                             *)
THEOREM StatsMixCharacterised == RSpec => []StatsMixOnlyByNewScan
BY ReportInvariance, PTL DEF ReportInv
=============================================================================
