# A verification project for TRAKSHYA-WAF

TLA+ specifications of this repository's own logic, the TLC configurations that
check them on small instances, and TLAPS proofs of what holds for every instance.
Paths are relative to the repository's root. `PROJECT.json` is the index: components,
runs, the source lines each definition models, hazards, findings and theorems.

    tlasany M.tla                           parse
    tlc -workers 2 -config X.cfg M          model-check
    tlapm M.tla                             check proofs

## 1. The system and its parts

Three programs, in three languages, and a desktop shell around them. A Rust proxy sits
before a web application and lets requests through or turns them away. A Go API stores
incidents and runs scans for the dashboard. A C daemon watches the host. An Electron
program starts the three and shows the dashboard.

| Part | State it keeps | Operations | What is hard |
|---|---|---|---|
| Request path of the proxy (`krsna-proxy/src/proxy.rs`, `inspector.rs`) | none of its own: reads the configuration, spawns tasks | `handle_proxy_request`, `inspect`, forwarding, two kinds of recording tasks | reads the configuration twice; tasks run after the answer, and may fail or die |
| Configuration and management API (`config.rs`, `api.rs`) | `Config` behind a tokio `RwLock`, `system_config` in SQLite | `set_posture`, `update_config`, `simulate_attack`, dashboard, rules, blacklist | the guard is held over a database write; a restart reads the file, not the table |
| Store (`db.rs`) | tables `incidents`, `request_stats`, `system_config`, rules, blacklist | one statement at a time | statistics are several queries |
| Event stream of the proxy (`api.rs`, `sse_handler`) | a tokio broadcast channel of 100 | send, receive | slow readers |
| Circuit breaker (`krsna-circuit-breaker`) | four fields, each behind its own tokio `RwLock` | `is_request_allowed`, `record_success`, `record_failure` | fine-grained locks taken in two orders, time |
| Rate limiter (`krsna-rate-limiter`) | a token bucket per key in a `DashMap` | `allow`, `reset` | refill arithmetic, windows of time |
| Rules, GeoIP, JWT crates | compiled patterns | pure | text |
| Scan jobs (`go/internal/api/vapt.go`, `vulns.go`) | the slot `activeVaptScan` behind a mutex, tables of scans and findings | start a scan, the scan's goroutine, reports of scans | check-then-act over two critical sections, crashes, failed writes, reports of two statements |
| Go store and REST handlers (`go/internal/db`, `go/internal/api`) | incidents, agents, rules, blacklist; `Config` shared with no lock | CRUD, statistics, telemetry stream | one pooled connection, statistics of several statements whose errors nobody looks at, a configuration without a lock |
| Event hubs (`go/internal/ws/sse.go`, `api/websocket.go`) | maps of clients | register, broadcast, disconnect | ids that collide, deletion under a read lock, writes that never end |
| Fleet manager (`go/internal/agents/handler.go`) | agents, command queues | register, heartbeat, prune, send command | heartbeats against the pruner, answers encoded without the lock |
| SIEM engine, webhooks (`go/internal/siem`, `webhooks`) | a sliding window of events; none | ingest, prune; post an alert | `engine.go` does not compile (see 5) |
| Active response (`c/src/active_response`) | the kernel's INPUT chain, background shells | block, timed unblock, unblock, lockdown, restore | timers that outlive what they were set for |
| HIDS, FIM (`c/src/hids`, `c/src/fim`) | arrays of fixed size, the baseline file | init, baseline, scan each minute | state carried from one scan to the next |
| Desktop supervisor (`app/main.js`) | child processes, retry counters, timers | start, exit, retry, restart, quit | callbacks of a process that has been replaced |

How they interact. Inside the proxy, requests, recording tasks, management calls and the
dashboard share the configuration's `RwLock` and the SQLite pool. The rate limiter is called
by `inspect`; the circuit breaker, GeoIP and JWT crates are configured but not called by
anybody in the repository, and neither are `NewFleetManager`, `NewSSEHub`, `BroadcastIncident`,
the SIEM engine and the webhooks: they are libraries whose callers are still to be written, so
a specification of one of them lets any caller do anything at any time. In the Go API, handlers
share the store's one connection, the configuration, and the slot of the active scan; a scan's
goroutine shares the store with the requests that report on it. The Go API and the dashboard
talk over HTTP; the supervisor only sees the exit of its children.

## 2. Modules

| Module | Models | Stands on |
|---|---|---|
| `BreakerConfig` | parameters of a breaker | |
| `CircuitBreaker` | what the breaker promises: each call at one instant, except that a failure which trips the breaker does so in three: it looks at the clock, restarts the timeout, and opens | `BreakerConfig` |
| `CircuitBreakerLocks` | the code: one step from one `.await` on a lock to the next | implements `CircuitBreaker` |
| `RateLimiter` | token buckets of many keys | |
| `Proxy` | request path, recording tasks, configuration, management calls, dashboard, restarts | |
| `ScanJobs` | handlers and goroutines of the scans, their tables, crashes | |
| `ScanReports` | the same jobs with the requests that show scans, findings and statistics | composes with `ScanJobs`, and implements it |
| `Store` | the tables of `sqlite.go` over one connection, and the handlers that run its statements | |
| `SharedConfig` | the configuration of the Go API, word by word | |
| `Fleet` | agents, heartbeats, the pruner and answers encoded without the lock | |
| `SseHub` | clients of `ws/sse.go` and their channels | |
| `WebSocketHub` | connections of `api/websocket.go`, their lock and their map | |
| `Supervisor` | the desktop's main process and its children | |
| `Hids` | the table of failed logins over many scans of a log | |
| `Fim` | baseline in memory and on disk, scans, the daemon's announcements | |
| `Firewall` | the INPUT chain under concurrent blocks, timers and lockdowns | |
| `MCShared` | small instances of `Fleet`, `SseHub`, `WebSocketHub` and `SharedConfig`, one at a time | |
| `MCDaemon` | small instances of `Hids`, `Fim` and `Firewall`, one at a time | |
| other `MC*` | small instances | the module they are named for |
| `*Proofs` | theorems | the module they are named for; `CircuitBreakerProofs`: `CircuitBreaker` and `CircuitBreakerLocks`; `SharedProofs` and `DaemonProofs`: the modules of `MCShared` and `MCDaemon` |

### Circuit breaker

`CircuitBreakerLocks` keeps the four fields, `held` (who owns each `RwLock`) and `pc` (the
lock each caller waits for; `Wants` maps a place to its lock). `is_request_allowed` and
`record_success` take `state` and, still holding it, `failure_count`; `record_failure` takes
`failure_count` and then `state`. Guards bound to a name live to the end of the call, the others
end with their statement: `Step` moves on, `Keep` retains the lock waited for, `Return` drops all.
Read locks are exclusive, which changes nothing: the two fields that are read are read by a
call that holds `state` for writing. `last_failure` is the age of the timestamp; it stops one
second past the timeout, beyond which no branch can tell ages apart. The counters are
naturals; the code's `u32` could wrap only after 2^32 failures. A call dropped at an `.await` by
its caller is not modelled here (nothing in the repository calls the breaker).

The refinement mapping of `CB` shows each call at the instant of its last write: a field
written earlier still shows its old value while the call holds the lock that hides it.
What no lock hides from the other calls is in the abstract breaker too, which is why `record_failure` trips it
in three steps. Rust evaluates `Instant::now()` of `*last_failure.write().await = ...` before it waits for the lock:
`stamp` is that instant, and it ages while the call waits, so a timeout may be restarted from the past. `tripping`
is 1 from there on, and 2 in the window between that assignment and `*state = Open`.

### Rate limiter

`Entry`, `Refilled` and `Store` are the three lines of `allow` under DashMap's entry guard,
which makes the call one step per key. Tokens are counted in units, so that the code's
`f64` refill is exact; rounding is not modelled. `window` and `since_full` are history: the
first can be restarted at any time (`Watch`), so that the bound is checked over every window
and not only over those that begin at 0.

### Proxy

A request is its name: who sent it (`ClientOf`), whether its method is a write (`Writes`) and
whether a rule matches it (`Attacks`) are constants. `Arrive`, `ReadBody`, `Inspect`,
`ReadUpstream` and `Forward` are the awaits of `handle_proxy_request`; `Abandon` is axum
dropping a handler whose client has gone. `inspect` awaits nothing while it holds its read
guard, so it is one step; its four ways out are actions of their own, in the code's order:
trusted, posture, rules, limiter. The recording tasks take one step per statement
(`RecordIncident`, `RecordBlocked`, `Broadcast`; `RecordPassed` for the other kind), each of which
may fail and be passed over, as the code does. `SetPosture` and `UpdateConfig` take the write
guard and change the configuration, `Persist` stores the posture and drops the guard;
`OpenDashboard` to `ReadIncidents` are the queries of the dashboard under its read guard.
`Restart` ends everything in flight and reads one of `FileConfigs`; `failed` remembers what was
lost. Since every request is given a new `RateLimiter`, all that matters of the limiter is
whether its burst is 0: `NoRuleMatches` says so, and the `RateLimiter` module says what the crate
would do if it were kept. `client_ip` is the primary key of `request_stats`, so that it has one row per
client, whose counts are of all time; the dashboard's incidents are those of one day. `BecomeOld` takes rows
out of that window (`old`): any of them, since a row is stamped before it is inserted, and since timestamps are
compared as text, where the `T` of the one format makes all rows of a date leave together. The rules and blacklist tables decide no request and are left out, as are the
handlers that only read.

### Scan jobs

A request is named by the uuid its scan would draw. `Check` and `Claim` are the two critical
sections of `startVaptScan`; `Conflict`, `Reject` and `CreateFails` its error paths; `Create` and
`Start` the insert and the `go` statement. `ScanEnds` to `Release` are the goroutine, with the
deferred release as a step of its own on every path. `Crash` ends handlers and goroutines and
leaves the tables; one cause is in the code (a target that `http.NewRequest` refuses gives the
scanner a nil request, and a panic in a goroutine ends the process). `vulns.go` is the same code
without a body to parse.

`ScanReports` adds what shows them. `startVulnScan` gives its row the time (`Stamp`), the rows of
`startVaptScan` all keep the zero time, so `Latest` is one scan for the one and any for the other
(SQLite's sorter keeps the oldest). `GetScan` and `GetStats` are two statements each, with everything
else free to happen between them; a query for findings that fails is answered as if there were
none. `inserted` and `unfinished` are history: scans that got a row since the reader's first statement,
and readers that came while the scan they show was still storing findings.

### Store

A statement of `sqlite.go` is a step that needs the connection. An `Exec` is over at once; a `QueryRow`
too; a `Query` keeps the connection (`conn`) until `Next` has returned false (`LastRow`), before the deferred
`Close`, which is why `GetDashboardStats` can go on to its next statement. What a handler does after its statement
has been committed is steps of its own: `Inc` counts an incident, `Respond` sends the answer, and the process can end
before either, which leaves a request "lost" whose effect is in the tables. `Requests` lists what can be
asked, `GetDashboardStats` and `GetSIEMStats` as their statements in the code's order, and `Asks` what each
reader asks for; `Figure` is what each statement says of tables. A statement may fail: for the statistics that is a 0 or
no rows, and an error in the middle of the rows is part of them, since `rows.Err()` is not looked at. `moments` holds the
tables since a reader came. The columns that no statement compares are left out; time stands still, so
that "within the hour" and "today" belong to a row. A token that `authMiddleware` refuses and a body that
a handler refuses are the same step, `Refuse`, before any statement is waited for. `Restart` loses what is in
flight and the counter, and keeps the tables.

### Shared configuration

`Config` is read and written by every handler without a lock: data races, so what the code does is
undefined by Go's rules, and what the compiled program does is to store and load the two words of
a string one by one. `StoreWord` and `LoadWord` are these; `updateConfig`, `setPosture` and `setMitigationPosture` decide
what is stored and in which order. `mixed` and `raced` are history.

### Fleet manager

What runs under `fm.mu` is one step (`Register`, `Heartbeat`, `SendCommand`, `StartPruner`). `List` copies the pointers under the
lock, and the answer is encoded without it: `EncodeStatus` and `EncodeSeen` read two fields of an agent with
anything in between. An agent is the registration that made it, so a second registration of an id leaves the
first one to whoever has its pointer. The ticker keeps one tick for a late pruner (`due`); `pruned` is history.

### Event hubs

`SseHub`: `Name` reads the number of clients without the lock, `Enter` and `Leave` take it; `Broadcast` sends under the read
lock to whoever is in the map, without waiting for a full channel. `WebSocketHub`: a handler announces itself
(`Announce`), which keeps new readers out, and has the lock when the last reader has gone (`Lock`). `Write` and
`Written` are the ends of a write, which lasts as long as its peer does not read; `WriteFails` and `Deleted` the ends of the
deletion under the read lock. `Touch` is Go's own check of maps: an access that overlaps a write may end
the process. `overlapped` is history. Peers stop reading and break off as they please (`Peer`).

### Supervisor

`children[b]` lists every child ever started of backend `b`, in order; only the last one is in
`backendProcesses`. `Started` and `LatestTold` are `startBackend` and a `kill('SIGTERM')`;
`ExitCallback`, `Retry`, `RestartBackend`, `QuitPrevented`, `Quit` and `End` are the callbacks, which
JavaScript runs one at a time. `Listen`, `Overflow`, `Fail` and `ExitCleanly` are what a child, or
execFile on its behalf, may do at any time. An attempt to quit stops the backends first and is then
refused by the window's `close` handler unless the tray is gone. `hasty` and `late` are history: they
name the backends for which the two known ways to lose track of a child have happened. The
`get-auto-launch` handlers, windows and notifications change none of this.

### Host intrusion detection

`ReadLog` is the `fread` of `hids_scan`; each of `LineOfKnown`, `LineOfNew` and `LineOfIgnored` is one line
with a failed address, by what `find_or_add_ip` does with it; `EndScan` is the rest. The next scan
reads another log, which may repeat the lines of this one: the code starts at the file's
beginning every minute and the counts of the table are kept. `failures` counts the lines of this scan
and `earlier` names the addresses counted before it, so that `ListedIsExplained` can tell failures
from recounted ones. Counts stop at the threshold, above which no branch looks. The other
counters of the report decide nothing and are left out.

### File integrity

`Create` empties the file, `HashPath` hashes one path and prints its line, `Close` flushes; `Restart` may
fall in between. `printed` is what the last call has printed, and `Flushed` what of it reaches the file: nobody looks
at the results of `fprintf` and `fclose`, so that on a full disk, or when the daemon ends in mid-call, any lines may be
missing and any hash be cut, while the call has returned 0 and memory has all of them. `ScanEntry` compares one
entry, `Announce` is what `main` prints. `Change` is anybody writing a file at any time. `MAX_FILES`
bounds the paths of one call, while the entries are appended to those already there: a write past
the array's end is undefined, and is either an entry there or the end of the daemon. Paths and
hashes are values; modification times and sizes are stored and never compared.

### Active response

A step is a command that `run_command` runs. `Callers` are whoever uses the library (several
threads, or several processes: the chain is the kernel's); nothing in the repository calls it yet.
The shell of a timed block runs in the background but holds the pipe that `run_command` reads to
its end, so the caller is `asleep` with it; when the daemon ends (`Crash`) the shell stays, in
`orphans`. Every command can fail, or be killed by a signal: `run_command` takes `WEXITSTATUS` of whatever `pclose`
returns, which is 0 for a process that was killed, so that a command that did nothing is a success
(`CheckFound`, `Add`, `UnblockIp`). `raced`, `undermined`, `feigned`, `kept` and `half_locked` are history: they name
the circumstances under which the code's promises are known to fail.

## 3. Runs

| Run | Instance | Shows |
|---|---|---|
| `circuit_breaker` | 3 callers, 3 configurations | `BreakerImplemented`: the locks hide what they should. `StuckOnlyByLockInversion`, `CallsReturn`: the code can deadlock, in exactly one way, and otherwise every call returns |
| `rate_limiter` | 2 keys, burst 2, half a token per tick, 5 ticks | `AdmissionsBounded`: at most a burst and what was earned, over every window. `NothingOvercharged`: the bucket holds what was earned and not spent, since it was last full |
| `scan_jobs` | 2 scan requests, a reader, 1 finding each, 1 crash | `SlotIsFreed`: the slot is never leaked. `OnlyDisplacedScansOverlap`: what exactly lets scans overlap. `RunningRowIsWorkedOn`, `CompletedScanHasFindings`: what a row says is so, save after a crash or a failed write. `ReportsAreComplete`, `StatsMixOnlyByNewScan`: how far a report of two statements can be from the rows |
| `scan_overlap` | 2 requests | violation: two scans at once |
| `store` | 2 writers, 2 readers, 2 kinds of incident, 1 address; 3 of writers that came, busy readers, failed statements and restarts | `FiguresWereTrue`: every figure shown was so at some moment of its request, or its statement failed. `SeveritiesCoverTotal`: the order of the statements. `CounterMatchesTable`: the metric against the rows. `BlacklistAnswersAddUp`: what racing callers are told, and what those would have been told whose process ended first. `EveryRequestAnswered`: the connection always comes back to whoever waits |
| `go_shared` | fleet: 2 ids, 2 registrations, 1 reader, 4 ticks; SSE: 3 clients, 2 events, channels of 1; WebSocket: 2 connections, 2 broadcasts; configuration: 2 changes, 1 reader, 1 restart | `OfflineIfSilent`, `OfflineIsShownWithCause`: who is offline, and how an answer can contradict itself about it. `OpenClientsHear`: the two ways to miss an event. `CrashNeedsTwoBroadcasts`, `ListedWhileServed`, `HandlersGetTheLock`: what the read lock does not protect, and who waits. `StringsTearOnlyByOverlap`: when a string is torn |
| `proxy_records` | 2 requests of one client, another client, 1 simulated attack, 1 restart, a dashboard | `RecordsMatchAnswers`: tables and stream account for the answers. `DashboardAgrees`: how far the numbers of several queries, of all time and of a day, may differ |
| `proxy_config` | 1 request, 2 management calls, a dashboard, 1 restart | `UnderAttackHolds`, `PersistedIsInForce`: enforced and stored posture. `RequestsAreDecided`: nobody waits for ever for the lock |
| `supervisor` | 1 backend that is installed and 1 that is not, 3 retries, 1 restart, 1 refused quit | `OnlyHastyRestartsLoseChildren`: only a restart that overtakes an earlier child leaves one that nothing can stop. `OthersAreStopped`: what may outlive the application untold. `FailedIsStartedAgain`: retries happen |
| `c_daemon` | HIDS: 4 addresses, a table of 3, a list of 2, logs of up to 3 failures; FIM: 2 files, 2 hashes, an array of 2 and 1 entry past it; firewall: 3 callers, 1 address, 3 rules, 1 crash | `AttackersAreListed`: only a full table or list makes a scan miss an address. `ListedIsExplained`: who is listed has failed three times, or earlier scans have counted too. `FileIsEndOfMemory`: what the last call printed is the end of memory, and what is on disk are lines of it, hashes cut or not. `ChangesAreAnnounced`: no scan passes over a file that differed throughout. `AlarmsAreExplained`: no false alarm unless a file changed during the scan or the baseline was made twice, or is torn. `DuplicatesOnlyByRace`, `PermanentBlockHolds`, `TimedBlocksEnd`: what exactly leaves an address blocked too long, not long enough or not at all. `EstablishedSurvive`: a finished lockdown keeps connections |
| `burst` | 3 requests of a client whose burst is 1 | violation: the burst is not enforced |
| `monitor` | 1 attack, posture Monitor | violation: Monitor blocks |

`c_daemon` and `go_shared` each check several components that share no state: the variable `part` says
whose behaviour it is, and the others stay in their initial states, so the states add up and do not multiply.

Bounds, and why they are enough. The breaker's deadlock needs two calls, and a third one
shows what is behind it. Its three configurations are a threshold above 1 with several
probes, a threshold of 1, and no probes at all (only then does `is_request_allowed` close the
breaker); `MaxFailures` 3 is one past the largest threshold. Half a token per tick makes a
bucket pass through empty, part full, full and capped within `MaxTime` 5; keys share nothing but
the clock. Two scan requests can race, overlap and displace one another, or follow one
another; one crash separates any two steps, and one reader stands for all, since reports change
nothing. A request of `proxy_records` is one that a rule
matches or one that none does; they share a row of the table, and the files let their client through, limit or trust
it. More requests, and the sums over clients, are left to the proofs. Bursts
of 0 and 10 are all that a new limiter distinguishes. Backends share nothing but the application, so
one is enough; a restart and its failed start make a third child displace the second, and three
retries are the code's own number. Two management calls are needed for
the stored posture to be the older one; an update that trusts a client and one that is
found invalid half-way are the two that differ from `set_posture`.

Four addresses overflow a table of 3, and three known ones a list of 2; failures past the third count for
nothing. Two files fill the array, and a second call overruns it by one entry; a call with more paths than the array has
room for is left to the proofs. Addresses of the chain share nothing but its
length, so one is enough: two callers race for it while the third blocks or opens it.

Two writers of the store make every pair of statements meet, before, between and after the statements of a
reader, or make a statement, its answer and a restart meet; two readers contend for the connection with each other, a page
of many statements with a list (`Asks`), and with a writer; `MaxLoad` bounds them together. One kind of incident counts for every figure and the other for the total alone. Two
registrations are two agents, or one that is replaced while its answer is encoded; with `Limit` 1, `Period` 2 and four
ticks an agent passes through fresh, at the limit and past it around two runs of the pruner. Without a race it takes three
SSE clients to have one name twice (the first of two leaves, and the third draws the name of the second);
channels of one event are full after one. Two broadcasts are what it takes to collide on the map.

Deadlock is checked, except where the system stops: in `circuit_breaker`, which can deadlock
(that is the property), in the scan runs and `go_shared`, once every request has been answered and the
clock has run out, in `store`, once its load is used up, and in `supervisor`, once the application and its children have ended.

### Fairness

* Breaker, `SF` on the steps of each call: tokio's `RwLock` serves its waiters in turn, so a lock
  that is free again and again is granted. Nothing makes a caller begin a call.
* Scan jobs, `WF` on a handler past its claim and on a goroutine past its scan: they wait only for the
  database. None on the scan itself: `checkTLS` dials without a timeout, so a scan may never end, and
  `SlotIsFreed` is about those that do. A client need not send its body.
* Store, `SF` on a writer's statement and on those of a reader: `database/sql` gives a connection that is free to
  one of those who wait, at random, so nobody is passed over for ever. `WF` on what follows a statement: the last row, the
  count, the answer. None on the coming or refusal of requests. `EveryRequestAnswered` then rests on the connection's coming
  back each time: under `SF` too nobody is served while somebody keeps it, which is what its mutant shows.
* WebSocket hub, `WF` on handlers and on the steps of a broadcast: goroutines that can go on do. None on peers, so a write
  may last for ever, which `HandlersGetTheLock` names as the one way to wait in vain.
* Proxy, `SF` on the two acquisitions of the configuration, for the same reason as the breaker's;
  `WF` on tasks, `Persist` and the dashboard's queries, since a statement ends or fails within the
  pool's 30 seconds. None on clients or on the upstream: `reqwest::Client::new()`, which
  `forward_to_upstream` builds for each request, has no timeout.
* Supervisor, `WF` on exit callbacks and due timers: the event loop runs them. No child need exit
  when told to, and nobody need quit.

### Findings

1. `scan_overlap`: two scans can run at once, because `startVaptScan` gives up the mutex between
   looking at the slot and claiming it. A side effect is that the scan whose slot was taken is no
   longer protected; `OnlyDisplacedScansOverlap` says that this, and an error path which empties a
   slot it may no longer own, are the only causes.
2. `burst`: `inspect` makes a rate limiter for each request, so no client is ever limited (with a
   burst of at least 1), where the landing page promises a token bucket per IP.
3. `monitor`: a matching rule blocks under every posture, where the landing page says that
   Monitor only logs.

Also shown by the passing runs, with no document to contradict: the breaker's two lock
orders deadlock; a success that arrives while the breaker is Open erases the failures that
opened it; an update that is answered 400 has already replaced the upstream; a dashboard
may show more blocked requests than requests; the stored posture is never read again; a
restarted backend can leave a child running that neither a restart nor a quit will stop; a refused
attempt to quit stops the backends although the application goes on; the `SIGKILL` of `stopAll` is
never sent, since `proc.killed` is true as soon as `SIGTERM` was sent; failed logins are counted again by
every scan, and no address ever leaves the table; a file that is deleted is in the report but `main`
does not announce it; a second baseline leaves the old hashes to be compared with and can overrun the
array; a baseline cut off leaves a part of itself; a timed `block_ip` blocks its caller for the
whole duration, and its timer deletes whatever rule it finds; `restore_posture` never opens the
chain again.

In the Go API: a WebSocket peer that stops reading holds the read lock for as long as its connection
lives, and nobody enters or leaves; two broadcasts at once can end the process; an SSE client can be
removed by another that drew its name; a string of the configuration that two changes stored at once
can stay torn until it is set again; `updateConfig` and `setMitigationPosture` accept any posture, and only
`setPosture` refuses one; a report can say "completed" with findings missing, and statistics can join
two scans; since all VAPT scans carry the zero time, the oldest is shown as the latest; a scan that
cannot run its package manager is "completed" with no findings. Met on the way, and not a matter of
behaviours: the status "failed" and the finding "Expired TLS certificate" cannot occur, the dashboard's `posture` field is
never set, `agents.status` is never updated, and the dashboard reads `res.id` of an answer that
has `scan_id`.

## 4. Proofs

Each theorem holds for every value of the constants that satisfies the module's assumptions
(types, distinctness of sentinels, and that what is counted is finite: the requests, simulations, clients, writers,
connections and callers of a run; nothing about how many).

* `CircuitBreakerProofs`: of the lock-free breaker, `SpecificationTypeCorrect` and `SpecificationSafe`. Its safety is not inductive
  alone: the invariant adds that while a failure is tripping the count is at the threshold and the instant it has
  yet to store is there, and that an Open breaker still has the count unless `count_lost`. Both are stated of `CB`, the breaker as it is seen through the
  locked one; every behaviour of `CircuitBreaker` is what `CB` sees of some values of the locked one's variables, so nothing is lost.
  Of the locked code, `TypeCorrect`, `DeadlockCharacterised`, `Refinement`, `SafetyThroughLocks`. The
  invariant is `LockInv` (a caller holds exactly the locks its place says) and `PlaceInv` (what a call
  found under a lock is still so when it goes on). `DeadlockCharacterised`: if all calls in flight
  are blocked, following who holds the wanted lock twice must come back, and only
  `state`/`failure_count` can close such a circle. `Refinement` takes each step of `Next` to a step of
  `CB!Next` or a stutter; `SafetyThroughLocks` then carries the abstract theorem over.
* `RateLimiterProofs`: `TypeCorrect`, `RateBound`, `ChargesExact`. `WindowInv` splits on whether the window began
  after the key's last refill (then nothing was admitted) or before (then tokens left and
  tokens spent are bounded by a burst and what was earned up to the refill). `FullInv`, on which the exact ledger of
  `ChargesExact` rests, says that a bucket was last full no later than its last refill.
* `ScanJobsProofs`: `TypeCorrect`, `SlotAlwaysOwned`, `OverlapCharacterised`, `RowsCorrect` and its half `RunningRowsWorkedOn` of the jobs alone, by `PlaceInv` (what the
  place of a handler or goroutine says of its row and findings). `RefinesJobs`: every step of `ScanReports` is a step of `ScanJobs` or
  leaves its variables alone, which carries them over. `ReportsComplete` and `StatsMixCharacterised` then rest on what
  a job never takes back (lemma `Lasting`: a row stays, "completed" stays, and what is stored of a settled scan stays) and on
  what a reader has seen (`RowReadInv`, `LatestReadInv`); `StampInv` says that times are distinct.
* `SharedProofs`, about the four components of `MCShared`, each by itself, for any ids, readers, limit, period, connections,
  clients, events and changes (`SharedAssumption`: `None` is no connection, and the clients are finitely many):
  `TypeCorrect`, `OfflineExactly`, `OfflineShown` of `Fleet` (`CauseRemains`: the agent a status was read from still has been silent
  for as long, or has had a heartbeat since); `CrashCharacterised`, `ConnectionsServed` of `WebSocketHub` (`WriterAlone`: who changes
  the map as a writer has met no reader; `TwoOverlap`: two walks at once have been seen); `TearingCharacterised` of `SharedConfig`
  (`StoringAlone`, `ReadingAlone`: a field on which no changes overlapped is whole or has one change under way, and a reader that
  met no change has loaded words that are still there); `MissingCharacterised` of `SseHub` (`NamesKept`: open clients of one name
  are rivals and the others are in the map under theirs; `OwedIsUnderWay`: an event not yet heard is still to be sent).
* `ProxyProofs`: `PersistenceCorrect`, `DashboardPostureCorrect`, `UnderAttackEnforced`. The invariant is
  `GuardInv` (the writer is the call with a posture left to store, and it is the posture in force),
  `ReadInv` (the dashboard's guard excludes a writer) and `ArrivalInv` (a request not yet inspected
  is in `lenient` as soon as the configuration had nothing against it).
  `RecordsComplete` is about the tables: `RecordInv` counts, for each client, the requests whose task has got as far as the count
  (`CountInv`), and says of every task how far it is, through restarts and failed writes (`TaskInv`, `IncidentInv`, `SentInv`).
  `DashboardConsistent` adds up the rows of all clients: `SumInv` (what is counted as blocked is not more than the requests
  blocked), what was recorded or excused, which only grows as rows become too old (`Recorded`, `Excused`, `AgeingKeeps`), and `ReadingInv` (how far the figures of a dashboard that is still reading may be apart). A sum over a set is a
  recursive definition, and the library's induction over finite sets cannot be instantiated. `SumsExist`, `SumsUnique`,
  `SumsOrdered` and `SumsGrow` argue instead on the least set of clients for which they would fail (`LeastSet`).
* `StoreProofs`: `FiguresTrue`, `SeveritiesCover`, `CounterCorrect`, `BlacklistAnswersCorrect`. A write
  is one statement, and what is to be answered matters to the metric or the blacklist or is `Quiet`; `CounterInv` and `BlacklistInv` count the
  writers for whom it matters, told or not, so that neither an answer nor a restart before it changes them; `ToldOrNot` takes the two apart again. `ReaderInv` says that a reader who is served has the tables of now among its `moments`, and
  holds the connection only while it reads rows: on that `FiguresWereTrue` is inductive, and no row comes between
  two of a statement. `SeverityInv` follows the SIEM page from its total to its breakdown: incidents are never deleted, and the
  groups of all severities add up to the rows. That sum, too, is over a set, and is found by the least set that could be a counterexample.
* `SupervisorProofs`: `TypeCorrect`, `ChildrenInReach`, `StoppedAtQuit`, `StartsLimited`. The invariant is
  `OneLife` (where no restart was hasty, at most one thing of a backend is unfinished: its latest
  child or one retry) and `Budget` (starts made and pending against requests and retries used).
* `DaemonProofs`, about the three engines of `MCDaemon`, each by itself (lemma `EnginesAlone`: a behaviour of the run is one of
  each). `DaemonAssumption`: the values for no content, half a hash, no address and the rule for established connections are
  no others, and the callers are finitely many.
  * Of `Hids`: `TypeCorrect`, `NoAttackerMissed`, `NobodyListedWithoutCause`. The invariant relates the table
    to the lines gone through (`CountInv`: a count is the failures of this scan, or more if earlier
    scans counted the address, and an entry at the threshold is listed or the list is full), says
    that an address without an entry failed only when the table was full (`UnknownInv`), and that
    who is listed has failed in this scan and has reached the threshold (`ListInv`).
  * Of `Firewall`: `DuplicatesCharacterised`, `BlocksForGoodHold`, `TimersMatchRules`, `LockdownLetsEstablished`. What `iptables -D`
    takes out of a chain is counted by the lemmas `FirstRemoved` and `NumberRemoved`. `OneAdder`: where no look raced, an address has
    one rule at most, and none while a caller is about to add it, who is the only one. `NoTimer`: an address blocked for good that
    nothing has undermined, and whose block was not a killed command's (`feigned`), has its rule, and no timer that runs or is about to be started. `TimedBlocksEnd` is
    inductive with the types: each command moves the rules and the timers of an address together, or puts it into `kept`.
  * Of `Fim`: `RestartFindsMemory`, and the action properties `ChangesAnnounced` and `AlarmsExplained`. `FimInv`: what the last call has
    printed is the end of what is remembered, and with the paths still to be hashed it fits into the array; the file, once no call is
    under way, has lines of it, hashes cut or not. `ScanInv` adds what the announcements rest on: every line has the
    hash its path was last given, or half of one (`CallInv`: a call has each path once, so no line is outdated by a later one of
    the same call); memory is what was printed, or loaded at the start, until a call finds a baseline in use (`SameInv`); and the report holds the
    verdicts of the entries gone through and nothing else, but for files touched meanwhile (`ReportInv`).

Only model-checked: `CallsReturn`, `SlotIsFreed`, `RequestsAreDecided`, `FailedIsStartedAgain`, `EveryRequestAnswered`,
`HandlersGetTheLock`: liveness under fairness is out of the prover's reach. Every other property that a passing run checks is
a theorem.

## 5. Not modelled

* Rule engine, GeoIP, JWT: regular expressions and text, with no state. Whether a rule matches is a constant of a
  request in `Proxy`, so every verdict is covered.
* Event stream of the proxy: `sse_handler` hands a receiver of tokio's channel to axum and keeps no state of
  its own; what is sent to it is in `Proxy` (`sent`).
* Rules and blacklist tables of the proxy: no request is decided by them; the handlers are one statement each.
* Scanners: probes and package lists, with no state from one call to the next. `ScanJobs` covers their outcomes: findings, no end, or the
  end of the process.
* SIEM engine: `engine.go` uses types of a package that it imports as blank, so it does not compile, and nothing imports
  it. A webhook is a POST that is forgotten.
* Compliance and vulnerability checks of the C daemon: straight-line parsing of command output.
* The kernel parameters of a lockdown, and the wrappers of `iptables.c`, which nothing calls.
* The supervisor's windows, tray, notifications and auto-launch file, which keep none of its state.
* Telemetry, CLI, demo server, deployment files, the dashboard's HTML: no logic of the system's own.
