------------------------------ MODULE Supervisor ------------------------------
(***************************************************************************)
(* The desktop application's main process (app/main.js): it starts the     *)
(* backends as children, starts a child that failed again after a delay,   *)
(* restarts one on request and stops them when the application quits.      *)
(*                                                                         *)
(* backendProcesses holds the latest child of each backend; the others are *)
(* out of its reach but their exit callbacks still run.  JavaScript runs   *)
(* one callback at a time: an action is a callback, or what a child does.  *)
(***************************************************************************)
EXTENDS Naturals, Sequences

CONSTANTS Backends,
          Installed,     (* those whose binary exists                        *)
          MAX_RETRIES,
          MaxRequests,   (* bound on the restarts asked of each backend      *)
          MaxQuits       (* bound on the attempts to quit that the tray stops *)

ASSUME SupervisorAssumption ==
    /\ Installed \subseteq Backends
    /\ MAX_RETRIES \in Nat /\ MaxRequests \in Nat /\ MaxQuits \in Nat

VARIABLES
    app,             (* where the application is                             *)
    children,        (* every child started of a backend, in order           *)
    backendRetries,
    timers,          (* calls of startBackend that setTimeout has pending    *)
    requests,        (* restarts asked of each backend                       *)
    quits,           (* attempts to quit that the tray has stopped           *)
    hasty,           (* history: backends restarted while an earlier child   *)
                     (* or timer was left                                    *)
    late             (* history: backends started since the last stopAll of  *)
                     (* an application on its way out                        *)

vars == <<app, children, backendRetries, timers, requests, quits, hasty, late>>
history == <<hasty, late>>

AppState == {"loading", "waiting", "shown", "leaving", "ended"}

(* A child that is told has been sent a signal; one that is cut as well, by *)
(* execFile, which reports an error however it exits.  One that has exited  *)
(* is failed or clean until its callback has run.                           *)
Untold == {"starting", "serving"}
Alive == Untold \cup {"told", "cut"}
ChildState == Alive \cup {"failed", "clean", "gone"}

Init ==
    /\ app = "loading"
    /\ children = [b \in Backends |-> <<>>]
    /\ backendRetries = [b \in Backends |-> 0]
    /\ timers = [b \in Backends |-> 0]
    /\ requests = [b \in Backends |-> 0]
    /\ quits = 0
    /\ hasty = {}
    /\ late = {}

(* No callback runs once the application has ended. *)
EventLoop == app \notin {"loading", "ended"}

(* Something of b's earlier life may still happen. *)
Unfinished(b) ==
    timers[b] > 0 \/ \E i \in DOMAIN children[b] : children[b][i] # "gone"

-----------------------------------------------------------------------------
(* startBackend: the children of b after it. *)
Started(b, cs) == IF b \in Installed THEN Append(cs, "starting") ELSE cs

(* Mutant of LatestTold: the child that was started first is remembered. *)
FirstTold(cs) ==
    [i \in DOMAIN cs |-> IF i = 1 /\ cs[i] \in Untold THEN "told" ELSE cs[i]]

(* kill('SIGTERM') of the latest child, which does nothing to a dead one. *)
LatestTold(cs) ==
    [i \in DOMAIN cs |-> IF i = Len(cs) /\ cs[i] \in Untold THEN "told" ELSE cs[i]]

Ready ==
    /\ app = "loading"
    /\ app' = "waiting"
    /\ children' = [b \in Backends |-> Started(b, children[b])]
    /\ UNCHANGED <<backendRetries, timers, requests, quits, history>>

(* The API has answered /health, or 15 seconds have passed. *)
ShowWindow ==
    /\ app = "waiting"
    /\ app' = "shown"
    /\ UNCHANGED <<children, backendRetries, timers, requests, quits, history>>

(* restart-backend *)
RestartBackend(b) ==
    /\ app = "shown"
    /\ requests[b] < MaxRequests
    /\ requests' = [requests EXCEPT ![b] = @ + 1]
    /\ children' = [children EXCEPT ![b] = Started(b, LatestTold(@))]
    /\ backendRetries' = [backendRetries EXCEPT ![b] = 0]
    /\ hasty' = IF Unfinished(b) THEN hasty \cup {b} ELSE hasty
    /\ UNCHANGED <<app, timers, quits, late>>

-----------------------------------------------------------------------------
(* The callback of execFile, after the child has exited. *)

(* Mutant of RetriesLeft: off by one. *)
RetriesLeftTooFew(b) == backendRetries[b] + 1 < MAX_RETRIES

RetriesLeft(b) == backendRetries[b] < MAX_RETRIES

(* Mutant of ScheduleRetry: 'error' and 'exit' both schedule a start. *)
ScheduleTwice(b) ==
    /\ timers' = [timers EXCEPT ![b] = @ + 2]
    /\ backendRetries' = [backendRetries EXCEPT ![b] = @ + 1]

ScheduleRetry(b) ==
    /\ timers' = [timers EXCEPT ![b] = @ + 1]
    /\ backendRetries' = [backendRetries EXCEPT ![b] = @ + 1]

ExitCallback(b, i) ==
    /\ EventLoop
    /\ children[b][i] \in {"failed", "clean"}
    /\ children' = [children EXCEPT ![b][i] = "gone"]
    /\ IF children[b][i] = "failed" /\ RetriesLeft(b)
       THEN ScheduleRetry(b)
       ELSE UNCHANGED <<backendRetries, timers>>
    /\ UNCHANGED <<app, requests, quits, history>>

Retry(b) ==
    /\ EventLoop
    /\ timers[b] > 0
    /\ timers' = [timers EXCEPT ![b] = @ - 1]
    /\ children' = [children EXCEPT ![b] = Started(b, @)]
    /\ late' = IF app = "leaving" THEN late \cup {b} ELSE late
    /\ UNCHANGED <<app, backendRetries, requests, quits, hasty>>

-----------------------------------------------------------------------------
(* before-quit.  The SIGKILL stopAll means to send after 5 seconds is never *)
(* sent: by then proc.killed is true, for it was sent SIGTERM.              *)
StopAll == children' = [b \in Backends |-> LatestTold(children[b])]

(* app.quit() by another way than the tray's menu or the page: the window   *)
(* refuses to close because there is a tray, and the application goes on.   *)
QuitPrevented ==
    /\ app = "shown"
    /\ quits < MaxQuits
    /\ quits' = quits + 1
    /\ StopAll
    /\ UNCHANGED <<app, backendRetries, timers, requests, history>>

Quit ==
    /\ app \in {"waiting", "shown"}
    /\ app' = "leaving"
    /\ StopAll
    /\ UNCHANGED <<backendRetries, timers, requests, quits, history>>

(* The process is gone, with its timers; its children are not. *)
End ==
    /\ app = "leaving"
    /\ app' = "ended"
    /\ timers' = [b \in Backends |-> 0]
    /\ UNCHANGED <<children, backendRetries, requests, quits, history>>

-----------------------------------------------------------------------------
(* What the children do. *)

Becomes(b, i, from, to) ==
    /\ children[b][i] \in from
    /\ children' = [children EXCEPT ![b][i] = to]
    /\ UNCHANGED <<app, backendRetries, timers, requests, quits, history>>

(* Another child still listens on the backend's port. *)
PortTaken(b, i) ==
    \E j \in DOMAIN children[b] : j # i /\ children[b][j] \in Alive \ {"starting"}

(* A child that finds the port taken fails: each of the three backends      *)
(* exits with an error when it cannot listen.                               *)
Listen(b, i) ==
    Becomes(b, i, {"starting"}, IF PortTaken(b, i) THEN "failed" ELSE "serving")

(* execFile ends a child that has written a megabyte to a stream. *)
Overflow(b, i) == app # "ended" /\ Becomes(b, i, {"serving"}, "cut")

Fail(b, i) == Becomes(b, i, Alive, "failed")

(* The C daemon handles SIGTERM and exits with 0. *)
ExitCleanly(b, i) == Becomes(b, i, {"serving", "told"}, "clean")

ChildStep(b, i) == Listen(b, i) \/ Overflow(b, i) \/ Fail(b, i) \/ ExitCleanly(b, i)

Callbacks(b) == \E i \in DOMAIN children[b] : ExitCallback(b, i)

Next ==
    \/ Ready \/ ShowWindow \/ QuitPrevented \/ Quit \/ End
    \/ \E b \in Backends :
          \/ RestartBackend(b) \/ Callbacks(b) \/ Retry(b)
          \/ \E i \in DOMAIN children[b] : ChildStep(b, i)

Spec == Init /\ [][Next]_vars

(* The event loop runs every callback that is due.  Children need not exit  *)
(* when they are told to, and the application need not quit.                *)
FairSpec == Spec /\ \A b \in Backends : WF_vars(Callbacks(b)) /\ WF_vars(Retry(b))

-----------------------------------------------------------------------------
TypeOK ==
    /\ app \in AppState
    /\ children \in [Backends -> Seq(ChildState)]
    /\ backendRetries \in [Backends -> 0 .. MAX_RETRIES]
    /\ timers \in [Backends -> Nat]
    /\ requests \in [Backends -> 0 .. MaxRequests]
    /\ quits \in 0 .. MaxQuits
    /\ hasty \subseteq Backends
    /\ late \subseteq Backends

(* A child that runs and that nothing can stop any more, because a later    *)
(* child has taken its place in backendProcesses, exists only where         *)
(* restart-backend has been used before the earlier child and its retries   *)
(* were over.  Failures, retries and prevented quits alone never lose one.  *)
OnlyHastyRestartsLoseChildren ==
    \A b \in Backends : \A i \in DOMAIN children[b] :
        children[b][i] \in Untold /\ i < Len(children[b]) => b \in hasty

(* When the application has ended, every child that runs has been told to   *)
(* stop, but for lost ones and those that a retry has started since stopAll. *)
OthersAreStopped ==
    app \in {"leaving", "ended"} =>
        \A b \in Backends : \A i \in DOMAIN children[b] :
            children[b][i] \in Untold => b \in hasty \/ b \in late

(* A backend that keeps failing is not started for ever: each request to    *)
(* restart it is worth one start and MAX_RETRIES retries, those of the      *)
(* requests before it included.                                             *)
StartsBounded ==
    \A b \in Backends :
        Len(children[b]) + timers[b] <= (1 + requests[b]) * (1 + MAX_RETRIES)

Latest(b, S) == children[b] # <<>> /\ children[b][Len(children[b])] \in S

(* A backend that fails with retries left, or that has a retry pending, is  *)
(* started again, unless the application ends.                              *)
FailedIsStartedAgain ==
    \A b \in Installed :
        (Latest(b, {"failed"}) /\ backendRetries[b] < MAX_RETRIES) \/ timers[b] > 0
            ~> Latest(b, Alive) \/ app = "ended"
=============================================================================
