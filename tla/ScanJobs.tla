------------------------------ MODULE ScanJobs ------------------------------
(***************************************************************************)
(* The scan jobs of the Go API: POST /api/vapt/scan (vapt.go) and POST     *)
(* /api/vulns/scan (vulns.go, the same code without a request body).  A    *)
(* handler looks at the slot activeVaptScan, unlocks, claims it under a    *)
(* second lock, inserts the scan's row and leaves the scan to a goroutine, *)
(* which stores the result and frees the slot if it is still its own.      *)
(*                                                                         *)
(* A request is named by the scan id it would draw.  Any write to the      *)
(* database may fail.  Only vapt_scans and vapt_findings survive a crash.  *)
(***************************************************************************)
EXTENDS Naturals, FiniteSets

CONSTANTS Requests,      (* POST requests, each with the uuid of its scan    *)
          None,          (* activeVaptScan = "", or no row                   *)
          MaxFindings,   (* bound on the findings of one scan                *)
          MaxCrashes     (* bound on the crashes of the API process          *)

ASSUME ScanAssumption ==
    /\ None \notin Requests
    /\ None \notin {"running", "completed"}
    /\ MaxFindings \in Nat /\ MaxCrashes \in Nat

VARIABLES
    active,      (* activeVaptScan                                           *)
    handler,     (* where the handler of each request is                     *)
    task,        (* where the goroutine of each scan is                      *)
    result,      (* findings the scanner returned                            *)
    turn,        (* turns made of the loop that inserts them                 *)
    row,         (* vapt_scans.status of each scan, None without a row       *)
    findings,    (* rows of vapt_findings per scan                           *)
    displaced,   (* history: scans whose slot another request took or freed  *)
    spoiled,     (* history: scans cut short by a crash or a failed write    *)
    crashes

vars == <<active, handler, task, result, turn, row, findings, displaced, spoiled, crashes>>
scan == <<result, turn>>
tables == <<row, findings>>
history == <<displaced, spoiled, crashes>>

HandlerAt == {"new", "checked", "claimed", "created", "conflict", "done"}
TaskAt == {"none", "scanning", "updating", "storing", "releasing"}

(* The goroutine of r exists, or its handler is about to start it. *)
Working(r) == task[r] # "none"
Launching(r) == handler[r] \in {"claimed", "created"}

Init ==
    /\ active = None
    /\ handler = [r \in Requests |-> "new"]
    /\ task = [r \in Requests |-> "none"]
    /\ result = [r \in Requests |-> 0]
    /\ turn = [r \in Requests |-> 0]
    /\ row = [r \in Requests |-> None]
    /\ findings = [r \in Requests |-> 0]
    /\ displaced = {}
    /\ spoiled = {}
    /\ crashes = 0

Go(r, from, to) == handler[r] = from /\ handler' = [handler EXCEPT ![r] = to]
Run(r, from, to) == task[r] = from /\ task' = [task EXCEPT ![r] = to]

(* Whoever held the slot and is not r loses it. *)
Displace(r) == displaced' = displaced \cup ({active} \ {None, r})

-----------------------------------------------------------------------------
(* startVaptScan *)

Check(r) ==
    /\ Go(r, "new", IF active = None THEN "checked" ELSE "conflict")
    /\ UNCHANGED <<active, task, scan, tables, history>>

(* 409: scan_id is read again, after the unlock, and may have changed. *)
Conflict(r) ==
    /\ Go(r, "conflict", "done")
    /\ UNCHANGED <<active, task, scan, tables, history>>

(* 400: the body is not JSON or names no target. *)
Reject(r) ==
    /\ Go(r, "checked", "done")
    /\ UNCHANGED <<active, task, scan, tables, history>>

Claim(r) ==
    /\ Go(r, "checked", "claimed")
    /\ active' = r
    /\ Displace(r)
    /\ UNCHANGED <<task, scan, tables, spoiled, crashes>>

Create(r) ==
    /\ Go(r, "claimed", "created")
    /\ row' = [row EXCEPT ![r] = "running"]
    /\ UNCHANGED <<active, task, scan, findings, history>>

(* go s.runVaptScanAsync, and 202. *)
Start(r) ==
    /\ Go(r, "created", "done")
    /\ Run(r, "none", "scanning")
    /\ UNCHANGED <<active, scan, tables, history>>

(* 500: the slot is emptied, whoever holds it by now. *)
CreateFails(r) ==
    /\ Go(r, "claimed", "done")
    /\ active' = None
    /\ Displace(r)
    /\ UNCHANGED <<task, scan, tables, spoiled, crashes>>

-----------------------------------------------------------------------------
(* runVaptScanAsync *)

ScanEnds(r) ==
    /\ Run(r, "scanning", "updating")
    /\ \E n \in 0 .. MaxFindings : result' = [result EXCEPT ![r] = n]
    /\ UNCHANGED <<active, handler, turn, tables, history>>

(* Mutant of Update: the status is left as it was. *)
UpdateKeepsStatus(r) ==
    /\ Run(r, "updating", "storing")
    /\ UNCHANGED <<active, handler, scan, tables, history>>

Update(r) ==
    /\ Run(r, "updating", "storing")
    /\ row' = [row EXCEPT ![r] = "completed"]
    /\ UNCHANGED <<active, handler, scan, findings, history>>

(* Mutant of UpdateFails: the error is logged and the loop is run. *)
UpdateFailsGoesOn(r) ==
    /\ Run(r, "updating", "storing")
    /\ spoiled' = spoiled \cup {r}
    /\ UNCHANGED <<active, handler, scan, tables, displaced, crashes>>

(* Mutant of UpdateFails: the return skips the release. *)
UpdateFailsKeepsSlot(r) ==
    /\ Run(r, "updating", "none")
    /\ spoiled' = spoiled \cup {r}
    /\ UNCHANGED <<active, handler, scan, tables, displaced, crashes>>

(* The deferred release is all that is left to do. *)
UpdateFails(r) ==
    /\ Run(r, "updating", "releasing")
    /\ spoiled' = spoiled \cup {r}
    /\ UNCHANGED <<active, handler, scan, tables, displaced, crashes>>

(* One turn of the loop over the findings: a failed insert is only logged. *)
StoreFinding(r) ==
    /\ task[r] = "storing"
    /\ turn[r] < result[r]
    /\ turn' = [turn EXCEPT ![r] = @ + 1]
    /\ \/ findings' = [findings EXCEPT ![r] = @ + 1] /\ UNCHANGED spoiled
       \/ spoiled' = spoiled \cup {r} /\ UNCHANGED findings
    /\ UNCHANGED <<active, handler, task, result, row, displaced, crashes>>

Stored(r) ==
    /\ turn[r] = result[r]
    /\ Run(r, "storing", "releasing")
    /\ UNCHANGED <<active, handler, scan, tables, history>>

(* Mutant of Release: the slot is freed without looking whose it is. *)
ReleaseAny(r) ==
    /\ Run(r, "releasing", "none")
    /\ active' = None
    /\ UNCHANGED <<handler, scan, tables, history>>

Release(r) ==
    /\ Run(r, "releasing", "none")
    /\ active' = IF active = r THEN None ELSE active
    /\ UNCHANGED <<handler, scan, tables, history>>

-----------------------------------------------------------------------------
(* The process dies and is started again.  One way is in the code: a target *)
(* that http.NewRequest refuses makes the scanner use a nil request, and a  *)
(* panic in a goroutine ends the process.  Nothing repairs rows at start.   *)
Crash ==
    /\ crashes < MaxCrashes
    /\ crashes' = crashes + 1
    /\ active' = None
    /\ handler' = [r \in Requests |-> IF handler[r] = "new" THEN "new" ELSE "done"]
    /\ task' = [r \in Requests |-> "none"]
    /\ spoiled' = spoiled \cup {r \in Requests : Working(r) \/ handler[r] = "created"}
    /\ UNCHANGED <<scan, tables, displaced>>

Handle(r) == \/ Check(r) \/ Conflict(r) \/ Reject(r) \/ Claim(r)
             \/ Create(r) \/ CreateFails(r) \/ Start(r)

(* What is left of runVaptScanAsync once the scan has returned. *)
Finish(r) == \/ Update(r) \/ UpdateFails(r) \/ StoreFinding(r)
             \/ Stored(r) \/ Release(r)

Work(r) == ScanEnds(r) \/ Finish(r)

Next == (\E r \in Requests : Handle(r) \/ Work(r)) \/ Crash

Spec == Init /\ [][Next]_vars

(* Past the claim a handler only waits for the database, and so does a      *)
(* goroutine whose scan has returned.  The scan itself may never: checkTLS  *)
(* dials without a timeout, and so run the commands of the other scanner.   *)
(* Requests need not come, and a client may take for ever to send its body. *)
FairSpec ==
    /\ Spec
    /\ \A r \in Requests : WF_vars(Launching(r) /\ Handle(r)) /\ WF_vars(Finish(r))

-----------------------------------------------------------------------------
TypeOK ==
    /\ active \in Requests \cup {None}
    /\ handler \in [Requests -> HandlerAt]
    /\ task \in [Requests -> TaskAt]
    /\ result \in [Requests -> Nat]
    /\ turn \in [Requests -> Nat]
    /\ \A r \in Requests : turn[r] <= result[r] /\ result[r] <= MaxFindings
    /\ row \in [Requests -> {None, "running", "completed"}]
    /\ findings \in [Requests -> Nat]
    /\ displaced \subseteq Requests
    /\ spoiled \subseteq Requests
    /\ crashes \in 0 .. MaxCrashes

(* The slot never names a scan that nobody will take out of it: the handler *)
(* has yet to start the goroutine, or the goroutine has yet to run its      *)
(* deferred release.  Otherwise every later POST would be answered 409.     *)
SlotHasOwner == active # None => Launching(active) \/ Working(active)

(* A scan under way that is not in the slot had the slot taken from it, by  *)
(* the claim of a request that had looked before it, or by the error path   *)
(* of one whose row could not be inserted.  No goroutine that ends frees    *)
(* the slot of another scan: without those two, scans never overlap.        *)
OnlyDisplacedScansOverlap ==
    \A r \in Requests :
        Launching(r) \/ Working(r) => active = r \/ r \in displaced

(* A row says "running" only while its scan is under way, unless a crash or *)
(* a failed update has left it so for good.                                 *)
RunningRowIsWorkedOn ==
    \A r \in Requests :
        row[r] = "running" => handler[r] = "created" \/ Working(r) \/ r \in spoiled

(* No finding is stored before its scan's row says "completed", and when    *)
(* the goroutine is past its loop they all are, unless a crash or a failed  *)
(* insert has lost some.                                                    *)
CompletedScanHasFindings ==
    \A r \in Requests :
        /\ row[r] # "completed" => findings[r] = 0
        /\ row[r] = "completed" =>
               \/ r \in spoiled
               \/ findings[r] = IF task[r] = "storing" THEN turn[r] ELSE result[r]

(* A scan leaves the slot in the end, so that another can be started,       *)
(* unless it is a scan that never returns; one that has returned does.      *)
SlotIsFreed ==
    \A r \in Requests : active = r ~> active # r \/ task[r] = "scanning"

(* What the 409 answer "vapt scan already in progress" says: at most one    *)
(* scan runs at a time.                                                     *)
OneScanAtATime == Cardinality({r \in Requests : Working(r)}) <= 1
=============================================================================
