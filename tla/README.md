# A TLA+ model of CymConductor

CymConductor plays user activity on lab machines. An *orchestrator* (Go, one
process, one SQLite file) keeps scenarios, turns them into *jobs*, and hands the
jobs to *agents*; an agent process on each machine polls over HTTP, executes one
job after the other and reports each result. The orchestrator retries failures,
notices when a scenario is done, and tells a scoring engine and a messenger.

This directory models what is hard to test in it: what happens to a job between its
insertion and its result when handlers interleave statement by statement, calls
are lost, agents die and the orchestrator restarts; how the orchestrator knows
which agents are there; how it starts, migrates its file, forwards events and
stops; how users are edited by several requests; how an intent becomes jobs; and
what an agent's handlers report of a machine that changes while they look.

## 1. Inventory

### Components, their state and their operations

| Component | Source (`src/`) | State | Operations | Modelled in |
|---|---|---|---|---|
| Job store | `internal/orchestrator/storage/jobs.go` | table `jobs` | insert one / a batch, select next, assign, complete, fail, cancel, count | `JobStore` |
| Scheduler | `internal/orchestrator/scheduler/scheduler.go` | a ticker; no state of its own | dispatch, process a result, completion tick, hand events to goroutines | `Dispatch`, `ScenarioFlow`, `Forwarding` |
| API | `internal/orchestrator/api/` | requests in progress | agents, jobs, scenarios, users | `Dispatch`, `ScenarioFlow`, `Registry`, `Users` |
| Agent loop | `cmd/agent/main.go` | the batch in memory | register, heartbeat, poll, execute, report | `Dispatch`, `Registry` |
| Agent client | `internal/agent/client/client.go` | connections | four calls, none of them retried by the code | `Dispatch`, `Registry` |
| Scenario store | `internal/orchestrator/storage/scenarios.go` | `scenarios`, `scenario_steps` | insert, status changes, list, delete | `ScenarioFlow` |
| Registry, agent store | `internal/orchestrator/registry`, `storage/agents.go` | table `agents`, a cache | register, heartbeat, staleness sweep, delete | `Registry` |
| SQLite, start and stop | `storage/sqlite.go`, `migrations/`, `cmd/orchestrator/main.go` | the file, `schema_version` | migrate, start loops, serve, drain, stop, close | `Startup` |
| Event forwarders | `internal/orchestrator/scoring`, `webhooks` | one goroutine per event | post with retries, map actions to events | `Forwarding`, `Observation` |
| Users | `storage/users.go`, their handlers | table `impersonation_users` | read, merge, write; bulk creation; delete | `Users` |
| Planner, validator, compiler, DSL | `internal/orchestrator/planner`, `validator`, `compiler`, `pkg/dsl` | none | plan, check a scenario, choose target agents | `Pipeline` |
| Executor, impersonation | `internal/agent/executor`, `impersonation`, `actions/registry.go` | tokens, threads | run an action, as a user if asked | `AgentExecutor` |
| Observation handlers | `internal/agent/actions/observe_*.go`, `capture_powershell.go` | none | ask a tool or the file system | `Observation` |
| Simulation handlers | `file_activity.go`, `process_activity.go`, `email_traffic.go`, `browsing.go` | what they made | repeat random operations, clean up, report | `Activity` |
| Mail handler | `email_receive*.go` | a connection, saved files | find, read, save and start attachments | `MailReceive` |
| Dashboard, configuration, audit log | `web/`, `configs/`, `internal/agent/audit` | none that decides anything | | not modelled |

### How they interact

    main --open, migrate--> SQLite; main --starts--> loops, then sets the forwarders, then the server
    agent loop --GET jobs/next--> handler --> scheduler --SELECT; BEGIN UPDATE.. COMMIT--> jobs
    agent loop --POST result----> handler --> scheduler --SELECT [SELECT] UPDATE--------> jobs --> goroutines --POST--> scoring, messenger
    ticker (1 s) --------------------------> scheduler --SELECT scenarios, SELECT jobs, UPDATE scenario--> goroutine --POST--> messenger
    client --DELETE scenario----> handler ---UPDATE jobs; DELETE scenario
    client --/api/users---------> handler ---SELECT; UPDATE | INSERT.. | DELETE--> impersonation_users
    agent loop --register, heartbeat--> handler --> registry --SELECT, INSERT or UPDATE--> agents; then the cache
    ticker (60 s) --------------------------> registry --UPDATE stale agents-------------> agents; then the cache
    planner --> validator --> compiler --online agents--> jobs
    agent loop --job--> executor --[impersonate]--> handler --> machine --> report

There is no lock in the orchestrator but the mutex of the registry's cache and
SQLite's own write lock. A statement, or a transaction, is atomic; between two
statements of a handler anything may happen. The only thing that keeps two polls
of one agent apart is that an agent has one loop, and waits.

### Behaviours that are hard

* *Interleaving.* A poll selects pending jobs and marks them assigned in a later
  statement that looks at no status. A failure report reads the row, reads it
  again, and then writes. The tick reads stats, then completes, then announces. A
  migration is decided on rows read before another process may have migrated. A
  user update writes back the row it read. The scheduler's loop runs before the
  forwarders are set.
* *Failure.* A response may be lost after its jobs were assigned; a report may be
  lost before or after it was written; the client never repeats one. An agent
  that dies takes its batch with it. Nothing ever takes a job back from
  `assigned`. DELETE goes on when its first statement fails. A bulk creation is cut
  off between two of its INSERTs. A tool the agent asks fails.
* *Ordering.* A result may arrive after its scenario was deleted, a copy of an event
  after its sender gave it up, posted another one or died.
* *Timeouts.* The client gives up after 30 s, the server's middleware cancels the
  request's context after `read_timeout` (configurable, 30 s if nothing is said), the
  shutdown waits 30 s whatever is configured, and a statement may already be on its
  way. A connection accepted before the listener closed may send its request at any
  time of that wait, or after it. The agent's ticker, its calls and the sweep each have
  a clock of their own.
* *A world that changes.* Files, processes, mails and histories come and go between
  the steps of a handler; the Go runtime moves a goroutine to another thread while
  a thread impersonates, or has COM initialised.

### What makes each component correct

* Job dispatch: no job is with two agents; every execution is counted; a job is
  executed at most once per attempt and retried at most `max_retries` times; a
  final result is final; the answer `retry_scheduled` is the truth; a job is
  settled in the end unless a fault lost it.
* Scenarios: *completed* means that all jobs are settled, and stays true; the
  completion is announced at most once, with the final numbers; a scenario that
  can complete does. Cancelled jobs stay cancelled: **they do not**, see 5.
* Registry: an agent that is there and not busy is never marked offline, one that
  was comes back, a dead one is not online for good, cache and table agree
  between the steps of those who write them.
* Start and stop: the file has exactly the migrations it says it has; a process works
  on the schema of its own release; the file is closed under no pass of a loop, and
  under a connection only after the whole wait; a start and a shutdown end.
* Forwarders: no event for a result that was not stored, and none forgotten for one
  that was; what is counted as taken was received, what is given up was posted as often
  as configured; what is announced is final.
* Users: an update keeps what it does not change, unless it worked on an old row; a
  deleted user stays deleted; the report of a bulk creation is true.
* From plan to agent: a scenario that was accepted is one the agents can carry out,
  and the compiler gives it the agents it asks for.
* Agent: what a handler reports is so; it leaves nothing behind, whichever way it
  ends; it saves and starts only what the configuration allows.

## 2. Modules

| Module | Contents |
|---|---|
| `JobStore` | the `jobs` table: columns `status`, `retry` (`retry_count`), `due` (`scheduled_at` reached), one operator per SQL statement |
| `Dispatch` | agents, requests, handlers and faults over `JobStore`; its properties and the inductive invariant |
| `JobLifecycle` | the abstract specification: what the orchestrator promises about one job, cancellation included |
| `ScenarioFlow` | scenarios, the completion tick and DELETE on top of `Dispatch` |
| `Registry` | the `agents` table, the registry's cache, registration, heartbeat and sweep against the clock |
| `Startup` | the life of orchestrator processes on one SQLite file |
| `Forwarding` | events to the scoring engine and the messenger, on top of `Startup` |
| `Users` | the table of users and the handlers of `/api/users` |
| `Observation`, `Activity`, `MailReceive` | the agent's handlers |
| `AgentExecutor` | the executor and impersonation, over the three |
| `Pipeline` | planner, validator and compiler |
| `PlannedRun` | `Pipeline` composed with `AgentExecutor` |
| `MCDispatch`, `MCScenarioFlow`, `MCStartup`, `MCForwarding`, `MCPlannedRun` | the instances TLC checks; `Registry` and `Users` need no definitions of their own for that |
| `DispatchProofs`, `LifecycleProofs`, `ScenarioProofs`, `RegistryProofs`, `StartupProofs`, `ForwardingProofs`, `UsersProofs`, `PlannedRunProofs` | theorems, checked by TLAPS |

`Dispatch` EXTENDS `JobStore`, `ScenarioFlow` EXTENDS `Dispatch`: both see one
table, as the code does. `Registry` stands alone: it shares no variable with the
jobs, and dispatching reads no agent's status. `Users` stands alone too: nothing but
its handlers reads the table. `Forwarding` EXTENDS `Startup`, because what its
goroutines survive is decided by the process they run in. `Dispatch` INSTANCEs
`JobLifecycle` with a refinement mapping, and no job to cancel; `ScenarioFlow` INSTANCEs
it with the same mapping and the jobs of deletable scenarios as `Cancellable`. Operators whose comment starts with
"Mutant" are plausible bugs kept beside the operator they distort: PROJECT.json
names which property catches each.

### JobStore

`status[j] = "absent"` is a missing row. `running` does not occur: the only
statement that writes it, `UpdateJobStarted`, is called by nobody. `owner` and
`Rank` are constants because `agent_id`, `priority` and `scheduled_at` are written
once; equal ranks are left to SQLite, so that a query may have several answers.
`UpdateJobFailed` is two operators because the code is two statements.

### Dispatch

`conn[r]` is a request together with the handler that serves it: `step` is the
statement that comes next (a poll: `select`, `assign`, `deliver`; a report: `read`,
then `complete`, or `check` and `fail`, then `ack`), `live` says that the client
still waits. `pc` and `todo` are the agent's loop and the rest of its batch;
`execs` counts executions and is read by properties only.

| Action | Code |
|---|---|
| `CreateJob` | `handlers.CreateTestJob`, `Scheduler.CreateJob` |
| `Poll`, `ExecuteJob` | `cmd/agent` `poll`, `executeJob` up to the call they wait for |
| `SelectJobs`, `AssignSelected`, `Deliver` | `Scheduler.GetNextJobsForAgent`, its two statements and the response |
| `ReadJob`, `CompleteJob`, `CheckRetry`, `FailJob`, `Acknowledge` | `Scheduler.ProcessJobResult` with `UpdateJobCompleted`, `UpdateJobFailed` |
| `CallFails` | any call that returns an error to the agent: timeout, connection lost before or after any statement, HTTP 500 |
| `Crash`, `Restart`, `OrchestratorRestart` | the processes |
| `Discard` | a handler whose client is gone, at its end |

`Linger` says whether a handler may outlive the request its client gave up. With
`FALSE` the cancelled context stops it before its next statement (what
`r.Context()` does for a closed connection when it is noticed in time); with
`TRUE` it may run on beside the next requests of the same agent.

The agent reports every failure as retryable; the API would also accept one that is
not, which no run's `Outcomes` contains.

### ScenarioFlow

`scen[s]` is the scenario's status; the statuses before `active` are one value,
`draft`, since the tick looks for `active` only. `tick` is the scheduler loop with
what it has read so far (the rest of its list, the scenario at hand and its
counts); a statement of it that fails is a fault, and the tick goes on with the rest
of its list. `deleting` holds the scenarios some DELETE handler is past its first
statement for: any number of handlers may be at one scenario, so it shrinks only when
the process ends. `announced` collects the completion events.

A DELETE cancels rows, and nobody is told: what becomes of a cancelled job depends on
who had it. The mapping to `JobLifecycle` (`Phase`, `CancelledPhase` in `Dispatch`) has
three phases for the one status. `picked`: a poll selected the job before and will assign
it all the same. `recalled`: an agent has it and its report is not written, so that it is
still settled or put back, or lost with the agent. `cancelled`: neither, and then it is
never seen again. The two violations of section 5 are the moves `picked` to `out` and
`recalled` to `waiting`; that there are no others is `ImplementsCancellable`.

In the repository nothing but tests inserts the jobs of a scenario or activates
one (`POST /api/scenarios` answers 501): these two actions are the storage and
scheduler operations a caller would use, unordered against each other.

### Registry

Time is relative: `age[a]` is the orchestrator's local time minus the text in
`last_heartbeat_at`, `timer[a]` the time to the next tick, `waited[a]` how long the
call has lasted, `stamp[a]` how long ago `RegisterAgent` read the clock; `PassTime`
moves them all. `fired[a]` is the one tick the ticker's channel holds. `call[a]` is
the handler's next statement: `check` (GetAgent), `insert` or `update`, `cache`,
`reply`. `away` is the loop executing a batch, or waiting for a call that was lost.
Ages stop counting one above `Timeout`.

The two writers of `last_heartbeat_at` do not agree on the clock: `CreateAgent`
binds a Go time, which the driver writes in local time, `UpdateAgentHeartbeat`
writes `CURRENT_TIMESTAMP`, which is UTC. `Zone` is local time minus UTC: the row's
age starts at `stamp` after the one and at `Zone` after the other.

| Action | Code |
|---|---|
| `Start`, `Beat`, `Answer`, `Return` | `cmd/agent` `register`, the ticker, `poll` |
| `GetAgent` | the check in `RegisterAgent` and `ProcessHeartbeat` |
| `CreateAgent`, `UpdateAgentHeartbeat` | the statements of `storage/agents.go` |
| `UpdateCache` | `updateCache`, `updateCacheHeartbeat` |
| `MarkStaleAgentsOffline`, `InvalidateCache` | `cleanupStaleAgents`, its two steps |
| `PassTime` | no code: the clocks |
| `CallFails`, `Crash`, `OrchestratorRestart` | a call that errors, the processes |

The agent of this repository reports `online` only; the API also takes `busy` and
`error`, and so does the run. A handler ends with its call here, except between the
statement and the cache, which does not look at the request's context.

### Startup

`file` is what is on disk: for each migration its effects and its row in
`schema_version`. `bundle[p]` is the release process `p` was built from. `stage[p]` is
how far `main` is, `known[p]` the rows it read, `left[p]` the rest of the migration
loop, `work[p]` the file as its open transaction sees it, `lock` SQLite's write
lock. `ticking` holds the processes with a loop inside a pass, `drained[p]` how long
ago the signal came. `req[q]` is a connection: `open` while its request is still to be
read, then `early` or `late` as the request begins before the signal or after it, and
its age.

`main` starts the clock of the shutdown (`Signal`) before it closes the listener
(`CloseListener`), and `http.Server.Shutdown` lets a connection that was accepted
send its first request still (it counts such a connection as idle only after five
seconds). So a request may begin at any stage, and one that begins late may be of any
age when the file is closed.

| Action | Code |
|---|---|
| `Open`, `ReadApplied`, `SkipApplied`, `RejectModified` | `storage.New`, `getAppliedMigrations`, the loop of `Migrate` |
| `Execute`, `ExecuteTwice`, `Record`, `RecordTwice`, `Commit` | `applyMigration`: BEGIN and the file's statements, the INSERT, COMMIT; the second of each pair is its error |
| `StartLoops`, `Serve`, `BindFails` | `main` from `reg.Start` to the listener's goroutine |
| `LoopPass`, `Accept`, `BeginRequest`, `EndRequest`, `PassTime` | loops, connections, handlers and deadlines |
| `Signal`, `CloseListener`, `Drained`, `StopLoops`, `Close`, `Exit` | the end of `main`: the context of the shutdown, `Shutdown`, then the deferred calls, last in first out |
| `StatementFails`, `Crash` | faults at any stage |

`Idempotent` are the migrations of nothing but IF NOT EXISTS (001); 002 adds columns
and fails when run twice. Nothing in the code keeps two processes off one file.

### Forwarding

`handling[q]` is `ProcessJobResult` from its UPDATE on; `send[g]` a goroutine of
`sendEvent` (`try`: before an attempt, `flying`: posted). A copy of an event is a
goroutine and the number of its attempt: `air` has those a receiver may still get,
`inbox` those it has got. `ProcessStep` joins the steps of `Startup` with what they do
to handlers, passes and goroutines. A copy arrives (`Receive`) at any time after it was
posted, or never: after its sender timed out, made the next attempt, or died with its
process; it may be answered with a 5xx, and the answer may be lost (`NotTaken`). That
all copies of an event carry one `event_id` (`scoring/forwarder.go:122` is before
the loop) is how they are represented and no property: the receivers' use of it is not in
the repository. `Expire` is the end of the goroutine's context. A scenario may be deleted at any time, which costs
a scoring event (no run id) and not the messenger's.

### Users

A row is its name and `put`, the columns that hold what a PUT gave them. `call[q]` is
a handler with its next statement, what it read and, for a bulk creation, its report.
`stale` marks a handler whose row another one wrote since. `Cancel` is the end of a
request's context, `Crash` that of the process. Ids are alike, so a fresh one is
chosen.

### Observation, Activity, MailReceive

One handler runs at a time (`probe`, `act`, `mail`), each step a call to a tool, to the
file system or to a server; between them the machine changes (`Change`, `Type`,
`Disappear`, `Arrive`, `Vanish`, `TakeOut`). Fields marked as history say what was
really so: the expected state `held` at some time, a match was `due` when the capture
began, somebody `meddled`. Random choices and parameters are nondeterministic,
pauses are left out. A file is one of four contents, a mail the parts of a filter it
satisfies as each backend reads them, an attachment a name.

`Sat[b][m]` is given for each backend because they do not read a filter alike: IMAP's
SEARCH looks at no more of `since` and `before` than their days, Outlook's Restrict at
their minutes, in a zone of its own. A date that does not parse is dropped from the
filter before either sees it (`BuildFilter`), and the handler does not say so: what is
asked and what is looked for are two sets. A saved file has the name of the attachment
joined to `save_directory`; the names in `Climbing` lead out of it (`PathOf`), and
nothing in the handler prevents that.

COM is initialised for a thread and counts: `com[t]`. `Connect` and `Disconnect` act
on the thread their goroutine is on (`on`), and nothing locks it there, so that a
`Disconnect` after a move leaves the count of the old thread as it is, and may lower
another's. A failing `CoInitialize` is logged and `Connect` goes on. With the process
its counts go (`ProcessDies`). Reading an item may panic (`OutlookPanics`): properties
are taken without a look at their errors, and `ReceivedTime` is asserted to be a
`float64`.

`Observation` ends with `EventType`, the scoring forwarder's mapping, since only both
together decide what the scoring engine hears. Both variants of a probe that differs by
operating system are possible.

### AgentExecutor

`job` is the action that runs and for whom, `on` the thread its goroutine is on, `as`
the threads that impersonate, `tokens` the open logon tokens. `Move` is the Go
runtime; it is remembered in `strayed`, for the impersonation it left behind and for
the initialisation of COM. `ExecuteAs` with a user is called by nothing in this version (the agent calls
`Execute`); it is modelled for what it promises. `Panic` ends the agent: nothing
recovers.

### Pipeline, PlannedRun

`Drafts` are the steps a scenario may be written with: a good one, and steps that
differ from it in one respect. `count` keeps how it is spelled, because the validator
reads it with `Sscanf` and the compiler with `Atoi`. `Answers` stands for a client of the
language model; the one in the repository always returns an error and nothing under
`cmd/` wires planner, validator and compiler, so that the runs take the client as
implemented. `PlannedRun` gives the executor a job of a compiled scenario (`Deliver`) or
one that a client posted, which nobody validated.

## 3. Runs

| Run | Instance | Shows |
|---|---|---|
| `dispatch_safety` | 2 agents with one process each, 3 jobs of one agent, batch 2, 2 retries, 2 connections, 2 faults | `TypeOK`, `FlightInv`, `AttemptsAccounted`, `SingleHolder`, `RetryPromiseKept`, `StuckOnlyByFault`, and that `Dispatch` implements `JobLifecycle` |
| `dispatch_live` | 2 agents, 2 + 1 jobs, 1 retry, `Linger`, 1 fault | `EventuallySettled`, and `IInv` (with it `AttemptsAccounted` and `RetryPromiseKept`) with handlers that outlive their call |
| `scenario_safety` | a scenario with a job on each of 2 agents, a test job, DELETE, 1 fault | `CompletedMeansDone`, `AnnouncedOnceAndTrue`, and `ImplementsCancellable`: with cancellations too, the life of a job is that of `JobLifecycle` |
| `scenario_live` | 2 scenarios on 1 agent, the older deletable, 1 fault | `ScenarioFinishes` |
| `registry` | 1 agent, timeout 8 (interval 4), latency 2, all statuses, 3 faults | `PunctualStaysOnline`, `CacheAgrees`, `DeadGoesOffline`, `LiveComesBack`, and `RInv`, the invariant of the proofs |
| `startup` | 3 processes of 2 releases, 2 migrations, 1 connection, 1 fault, time-outs 2 (request) and 1 (shutdown) | `SchemaIsRecorded`, `WorksOnItsSchema`, `ClosedOnlyAfterWaiting`, `StartsAndStops` |
| `forwarding` | 1 process, 1 result of 1 scenario, 1 retry to the scoring engine, 1 request, 1 fault | `StoredIsForwarded`, `GivenUpOnlyAfterAll`, `CompletionIsTrue`, `ForwardEnds` |
| `users` | 2 ids, 2 names, 2 columns, 2 requests, bulk creations of up to 2 | `UpdateKeepsOthers`, `DeletedStaysDeleted`, `BulkReportTrue` |
| `planned_run` | scenarios of up to 2 steps, 3 agents, all handlers, 2 threads, 2 users, 2 mails | `ScenarioIsCarriedOut`, `EventIsTrue`, `ActReportTrue`, `MailIsAsAsked`, `NothingIsLeft` |
| `registry_zone` | 1 agent, timeout 4, local time 5 ahead of UTC, no fault | violation of `PunctualStaysOnline` |
| `scenario_late_result` | 1 scenario, 1 job, no fault | violation of `CancelledIsNotRequeued` |
| `scenario_cancel_race` | 1 scenario, 1 job, no fault | violation of `AssignsOnlyPending` |

Each run but the three violations also checks the type invariant of its module, where it
checks safety.

### Bounds

Three jobs are one more than a batch, so that the `hasMore` probe, the
surplus and a second poll happen; two retries make a retry of a retry. A request
needs one connection and an agent has one at a time, so two connections are
enough for two agents; in `dispatch_live` a lingering handler takes one of them and
runs beside the next request of its agent. `MaxFaults` bounds failed calls, crashes and
restarts (and failing statements of DELETE); two are enough for a lost report after a
lost response. Connections are interchangeable, hence the symmetry, which the
liveness runs do without. Retries and executions are bounded by the protocol
itself, which is what `AttemptsAccounted` says.

In `registry`, two calls of the longest latency just fit into an interval
(2 * 2 <= 4); with the same latency and half the timeout `PunctualStaysOnline` is
violated, so that the bound is tight. A sweep may come at any time, which covers
every cleanup interval. One agent is enough because agents share only the sweep and
the emptying of the cache, and the proofs hold for any number; three faults make a
crash, a restart and a lost call of one life.

In `startup`, two processes of one release race through the migrations and then serve
side by side; the third, of a release whose first migration is another, must not start
where they have been, nor they where it has. The first migration consists of IF NOT
EXISTS, the second does not. The shutdown waits 30 s (`main.go:296`) and a request may
last `read_timeout` (`server.go:80`, from `main.go:58` and `configs/orchestrator.yaml:8`):
the run has 1 and 2, so that a request may outlast the wait by its configuration as well
as by beginning late. One connection is an early or a late request, or none yet.
Processes start again any number of times: only crashes and failing statements count as
faults, one of which hits every stage; the proofs hold
for every number. In `forwarding` one process is enough because events of different
processes share nothing but their receivers, which tell them apart; it restarts with
copies of its former life still in `air`. The two loops are the same code twice: one
retries, which makes copies overtake each other, the other does not, so that the last
attempt is the first; a statement fails once, which with the cancelled request and the
deletion gives every way an event is lost.

In `users`, two requests make every interleaving of a pair of handlers; two ids are
enough for a bulk creation of two, and for a user deleted and another created beside
an update. `MaxBulk` is also what makes the second entry depend on the first (one
name twice). In `planned_run`, two steps make duplicate ids and wrong orders, three
agents make "as many as there are" differ from all and from one; a history is one line
longer than `max_lines`; a loop has two turns, so that something made in the first is
deleted, renamed or gone in the second. Two mails are enough for "the newest" to be the
wrong one, and two attachments for a fetch by index to get another than was checked.
A name that is allowed and leads out of the directory is among them. `MaxApartments` 1
lets a thread keep its initialisation from one job to the next. Threads are
interchangeable.

### Fairness

In the liveness runs only. `dispatch_live`, `scenario_live`: the clock runs
(`TimePasses`); the agent's ticker fires while its process lives, and an action ends
(`Poll`, `ExecuteJob`); the server serves what it accepted (`ServeRequest`); the
scheduler's ticker fires (`Tick`). `registry`: a tick is taken, a batch ends, a handler
goes on, the cleanup loop sweeps again and again, and time passes. No fairness on
starting an agent, creating jobs, faults, restarts, activation or DELETE. Weak
fairness is enough for all of these: what an agent or a handler waits for stays enabled.

`startup`: `main` goes on and time passes (weak); a pass that began ends (weak); the
loop notices that it is stopped (strong: a Go `select` with two ready channels chooses
at random, so that the ticker does not win for ever). A handler need **not** end: that
the shutdown ends all the same is what `StartsAndStops` shows. `forwarding`: the HTTP
client answers or times out and timers fire, for each goroutine (weak); nothing is
assumed of the receivers.

## 4. Proofs

`DispatchProofs` proves, for every set of jobs, agents, processes and connections,
every batch size, retry limit and fault bound:

* `TypeCorrect`: `Spec => []TypeOK`.
* `AttemptsCorrect`: `Spec => []AttemptsAccounted`.
* `RetryPromiseCorrect`: `Spec => []RetryPromiseKept`.
* `SingleHolderCorrect`: `Spec => []SingleHolder`.
* `InvCorrect`, `FlightCorrect`: `Spec => []IInv`, `Spec => []FlightInv`, the invariants
  behind them.

All but the first assume `OneProcessPerAgent`, which the orchestrator does not enforce:
with two processes of one id the SELECT and the UPDATE of two polls interleave, and both
get the same jobs. They hold with `Linger` as without, but for `FlightCorrect`.

None of the three properties is inductive. The reason the protocol works, although
AssignJobs looks at no status, is that a handler somebody waits for belongs to an agent
that waits for exactly that request, and that a handler nobody waits for can do no harm.
This is what `IInv` adds: `CallInv` (the first half), `PollInv` (a job of a poll that is
waited for is pending or assigned when the poll assigns it, and assigned and not executed
in this attempt while the response is under way; a poll that was given up may hold any
job, but what it assigns goes to nobody),
`ReportInv` (until a report is written, its job is assigned, both reads of its row still
hold, and it is the only report that will write that row, whether its agent waits or went
on with other jobs) and `BatchInv` (the jobs of a batch are of the agent's own id,
assigned and not executed, but for the one it is reporting). "Assigned" here is `Out`,
assigned or cancelled: the batches and requests do not notice a DELETE, so the same
invariant serves `ScenarioProofs`. `InvInit` and `InvStep` (one step per action, one
sub-step per conjunct) establish it; the theorems follow.

`FlightInv` adds `Prompt`: every handler is waited for, and what a poll is about to assign
is still pending or cancelled. It needs `SingleFlight`, that is `~Linger` too: see the last
note on jobs in section 5.

The module assumes `JobStoreAssumption` and `DispatchAssumption`, the types of the
constants.

`LifecycleProofs` adds, under `SingleFlight` (the last one under `OneProcessPerAgent` only):

* `LifecycleCorrect`: `Spec => ImplementsLifecycle`, the refinement of `JobLifecycle`.
* `StuckOnlyByFaultCorrect`: `Spec => StuckOnlyByFault`.
* `FinalUnlessAbandoned`: a final result is overwritten by nothing but a poll that nobody
  waits for any more.

The first two rest on one lemma, `MovedStep`: a step of `Dispatch` does one of five things
to a job. It is inserted, handed out, finished or put back, each from the state the
lifecycle allows, or its row stays as it is and nobody gets it who did not have it; and
then it is dropped only in the step of a fault. `FlightInv` gives all but one fact, that the
report an agent drops from its batch has been written (`AckInv`). `PhaseStep` turns each of
the five into a move of the lifecycle. Both lemmas are stated for jobs that may be cancelled,
which `Dispatch` never does, so that they hold in `ScenarioFlow` as they are. What they
need of a cancelled job: the one agent that could have it has nothing while its poll is
about to assign (`PickedIsNotHad`), and a report that is written has its job in no other
hands (`WrittenHolder`). `FinalUnlessAbandoned` is what is left of finality with `Linger`.

`RegistryProofs` proves, for every set of agents, timeout, latency and fault bound:

* `RTypeCorrect`: `Spec => []RTypeOK`, whatever the zone.
* `RInvCorrect`: `Spec => []RInv`, the invariant.
* `PunctualCorrect`: `Spec => []PunctualStaysOnline`.
* `CacheCorrect`: `Spec => []CacheAgrees`.

The last three assume `Patient`: two calls fit into a heartbeat interval, and local
time is not ahead of UTC. The invariant `RInv` says why: `Punctual` bounds the age of
an agent's row by where its loop is (at most an interval and a call when it is
idle, and one more call while the heartbeat is under way, which is at most twice the
interval, hence at most the timeout), in step with its ticker; `Clocks` says what tickers
and calls can do; `CacheInv` adds to `CacheAgrees` that what a handler is about to
put in the cache is still what the table says, because the row is too young for a
sweep. That is why the cache depends on the clock at all. The module assumes `RegistryAssumption`.

`StartupProofs` proves, for every set of processes, releases, migrations and requests,
every time-out and fault bound:

* `LifeTypeCorrect`: `LifeSpec => []LifeTypeOK`, and with it that no migration is
  applied twice.
* `SchemaAlwaysRecorded`: `LifeSpec => []SchemaIsRecorded`.
* `AlwaysWorksOnItsSchema`: `LifeSpec => []WorksOnItsSchema`.
* `AlwaysClosedOnlyAfterWaiting`: `LifeSpec => []ClosedOnlyAfterWaiting`, for every
  request time-out and every wait, whichever is longer.

The decision to apply a migration is taken on old rows and yet is safe. `SchemaInv` says
why: `LockHeld` (a process in a transaction holds the write lock, so there is one at a
time), `WorkIsNext` (its working copy is the file *as it is now* with the next migration
and then its row, since nobody else can commit meanwhile), `KnownIsThere` (a row that was
read is still there, because none is changed or removed) and `PassedIsApplied` (what
the loop has passed is in the file with this release's checksum). When the old rows
mislead, the primary key of `schema_version` or the duplicate column ends the process
instead of the file. `StopInv` is the same for the shutdown: a request from before the
signal is at least as old as the wait, or has reached its time-out (`OldAsTheWait`); a
connection that is left once the wait is over has been waited for in full; and a loop
that was stopped is in no pass. Nothing of the kind holds for a request that begins late,
which is why `ClosedOnlyAfterWaiting` says no more of it than that `main` waited.
The module assumes `StartupAssumption`.

`UsersProofs` proves, for every set of ids, names, column values and requests, and
every length of a bulk creation:

* `UTypeCorrect`: `USpec => []UTypeOK`.
* `BulkReportCorrect`: `USpec => []BulkReportTrue`.
* `DeletedCorrect`: `USpec => DeletedStaysDeleted`.
* `UpdateCorrect`: `USpec => UpdateKeepsOthers`.

The invariant `UInv` relates what a handler carries to the table it read it from: `RowOf`
(a handler about to write holds the row itself, unless another handler wrote it since,
and its name in any case, because no statement changes a name and no id comes back),
`Tallied` (every entry a bulk creation is past is in exactly one of its lists) and
`CreatedTrue` (an entry listed as created is the row of that name, or was, and in no other
report). The module assumes `UsersAssumption`.

`ScenarioProofs` proves, for every finite set of jobs (the counts are cardinalities) and
every set of scenarios, agents, connections and faults:

* `STypeCorrect`: `SSpec => []STypeOK`.
* `CompletedCorrect`: `SSpec => []CompletedMeansDone`.
* `AnnouncedCorrect`: `SSpec => []AnnouncedOnceAndTrue`.
* `CancellationCorrect`: `SSpec => ImplementsCancellable`, the refinement of `JobLifecycle`
  with cancellation.
* `StuckOnlyByFaultWithScenarios`: `SSpec => StuckOnlyByFault`.
* `AttemptsCorrectWithScenarios`, `SingleHolderWithScenarios`,
  `FinalUnlessAbandonedWithScenarios`: `AttemptsAccounted`, `SingleHolder` and the finality
  of results, for `SSpec`.

A statement of the tick that fails is a fault and touches no job (`TickFault`), so that
it is a stutter of everything but the fault counter. The second and the third assume
`SingleFlight`; so do the fourth and the fifth, which need no
finiteness of jobs, as the last three do not either: these assume one process per agent id.
For the refinement a step of `SNext` is one of the five of `MovedStep` or a cancellation
(`SMovedStep`); a cancellation takes a waiting job to `picked` or `cancelled` and never to
`recalled`, because a job that waits while it is still in a batch has its report written
(`WaitingIsWritten`), an assigned one to `recalled` or `cancelled`, because no poll can
have picked it (`RecalledPhase`). The tick completes a scenario on counts that are
some statements old. That is sound because a settled job stays settled (`AssignJobs`
looks at no status, but by `FlightInv` what a poll holds is pending or cancelled, and what a
report settles or puts back is in an agent's hands), because no job joins a scenario later (`Whole`: its jobs
are inserted together) and because, all jobs counted, the completed and the failed are
all of them (`AllDoneIsDone`, by cardinalities). `TickInv` carries this over the tick's steps;
`Fresh` says that what the tick has still to look at was announced by nobody, which is
where it matters that there is one scheduler and that its list has no scenario twice.

`ForwardingProofs` proves, for every set of processes, requests, reports and attempts:

* `FTypeCorrect`: `FSpec => []FTypeOK`.
* `StoredAlwaysForwarded`: `FSpec => []StoredIsForwarded`.
* `GivenUpCorrect`: `FSpec => []GivenUpOnlyAfterAll`.
* `CompletionAlwaysTrue`: `FSpec => []CompletionIsTrue`.
* `SchemaHoldsUnderForwarding`: `FSpec => [](SchemaIsRecorded /\ WorksOnItsSchema)`.
* `ClosedOnlyAfterWaitingForHandlers`: `FSpec => []ClosedOnlyAfterWaiting`.

`FInv` adds that a handler at work belongs to a request some process serves, and that past
its UPDATE its result is in the file (`Working`), and that a pass past its count has
seen every result (`Counted`). `PostedOf`, on top of it, ties a goroutine to the copies
that are about: exactly the attempts up to the current one were posted, wherever they
are by now, and what it concluded fits them. Its steps do not look at where a copy is,
since `Receive` only moves it from `air` to `inbox`. The processes' own steps are those of `Startup`, so the
lemma `LifeTypeStep` of `StartupProofs` covers them. So do `SchemaStep` and `StopStep`:
`Forwarding` is no refinement of `Startup`, since a handler whose statement fails uses up
a fault and does nothing else, but every other step of it is one of `Startup` or a stutter
(`LifeStep`), and neither `SchemaInv` nor `StopInv` looks at the faults. The module assumes
`ForwardingAssumption` and `StartupAssumption`.

`PlannedRunProofs` proves, for every set of agents, drafts, mails, attachments, owners,
users and threads, every count, size and limit, and every configuration of what is allowed:

* `RunTypeCorrect`: `RunSpec => []RunTypeOK`.
* `EventCorrect`: `RunSpec => []EventIsTrue`.
* `ActReportCorrect`: `RunSpec => []ActReportTrue`.
* `MailCorrect`: `RunSpec => []MailIsAsAsked`.
* `LeavesNothingCorrect`: `RunSpec => []NothingIsLeft`.
* `CarriedOutCorrect`: `RunSpec => []ScenarioIsCarriedOut`.
* `AgentCorrect`: the four properties of the handlers for the agent by itself,
  `AgentSpec`.
* `RunImplementsAgent`: `RunSpec => AgentSpec`. Delivering a compiled job is an
  `Execute` of an action the agent knows, which follows from its having been validated;
  every other step of the pipeline is a stutter of the agent.

`RunInv` has a part for each handler, kept by its own steps and untouched by all others:

* `ProbeInv`: while a handler looks at a state, the state has been there if it is there
  now (`StateHeld`); a match that a capture owes is still ahead of it, was found, or was
  in a file that could not be read (`MatchDue`), because a history only grows.
* `ActInv`: a file or process is remembered or counted as undone (`Remembered`), the
  mails that arrived are those called sent and some that failed (`MailsCounted`), both as
  cardinalities of sets whose members are numbered in order (`Counted`); and what panics
  has sizes that are wrong (`PanicIsSized`).
* `MailInv`: what is found has been filtered and cut (`Found`, with the lemma
  `NewestBound` about the k newest); an index into the attachments still names what was
  listed under it unless somebody took one out (`StillListed`), and what is left of them
  is a subsequence of what came (`SubSeqOf`).
* `ExecInv`: only a handler run for a user holds a token, his, and only its thread
  impersonates (`Impersonating`).
* `OneHandler`: the handler under way is that of the job's action, and none is without a
  job.
* `Apartments`: COM is initialised only between `Connect` and `Disconnect`, on the thread
  the handler is on and once, unless its goroutine changed its thread there. Keeping
  it takes `OneHandler`: a `Move` is remembered for COM only while the mail handler is in
  Outlook, and with any other handler COM is initialised nowhere.
* `PipeInv`: what is compiled has been validated (`Validated`), and the compiler asks for
  the agents the steps name (`TargetsAsAsked`, `JobsOfStep`).
* `Carried`: between pipeline and executor, the job that runs for a scenario has a known
  action and a lower size of at least 1 until it is reported.

The module assumes `ObservationAssumption`, `ActivityAssumption`, `MailAssumption`,
`ExecutorAssumption` and `PipelineAssumption`: limits are positive, `Self` is one of the
owners, mails and agents are finitely many, the attachments are sequences of names, the
numbers in a draft are integers.

Only model-checked: liveness (`EventuallySettled`, `ScenarioFinishes`,
`DeadGoesOffline`, `LiveComesBack`, `StartsAndStops`, `ForwardEnds`), which is out of
the prover's reach, and the violations of section 5.

## 5. What the checks found

* `scenario_cancel_race`: `AssignJobs` "changes status from pending to assigned"
  (`jobs.go:173`) but updates by id alone. Poll selects a pending job; DELETE
  cancels it and removes the scenario; the poll's UPDATE turns `cancelled` into
  `assigned`, and the agent executes it.
* `scenario_late_result`: a job that is cancelled while its agent executes it goes
  back to `pending` when the agent reports a failure (`UpdateJobFailed` looks at the
  retry counters, not at the status), and is handed out again.
* `registry_zone`: the cutoff of the sweep is local time, the heartbeat is UTC, and
  SQLite compares the two texts (`agents.go:121`, `245`). Where local time is ahead of
  UTC by more than the timeout, every sweep marks punctual agents offline until
  their next heartbeat; where it is behind, dead agents are noticed late.

Noted without a run, because nothing in the repository promises otherwise or because
a property is stated around it:

* Jobs: an agent that reported `error` is never marked offline (the sweep looks at
  online agents only); a job whose poll response or report is lost stays `assigned` for
  ever (`EventuallySettled` and `StuckOnlyByFault` are stated around it); a DELETE whose
  second statement fails leaves an active scenario that never completes; the retry
  delay the API answers is never applied; a poll whose client gave it up between the two
  statements and which runs on all the same assigns jobs that a later poll of the agent
  has handed out and the agent has settled since, and these stay `assigned` (every
  execution is still accounted for).
* Start and forwarding: a shutdown closes the file under requests that are not over when
  `read_timeout` is configured longer than the 30 s `main` waits, or that began on a
  connection accepted before the listener closed: their statements fail, and their
  answers are lost (`ClosedOnlyAfterWaiting` is stated around both); the scheduler's loop starts before the forwarders are set
  (`main.go:227`), so that a completion found in between is announced to nobody
  (`Announce` has that branch); nothing waits for the forwarding goroutines at the end; a
  receiver that hangs uses up the 30 s of an event's context with time-outs of 10 s, so
  that the last of the configured attempts may never be made; the branch of `sendEvent`
  for a duplicate answered with 200 cannot be reached, since every answer below 300
  returns before it.
* Scenarios: the validator accepts a target count such as "2abc" and the compiler
  takes it for no agent at all: the step has no jobs, and the compilation still succeeds
  (`CompiledAsAsked` says so); a selector with an empty value is for the agents without
  that label (`Wanted`); a file size maximum
  below the minimum passes the validator and panics in the agent
  (`ScenarioIsCarriedOut` excepts it); `delay_after`, conditions and `run_as` are dropped
  by the compiler, jitter may put a step before its predecessor, and
  `relative_time_seconds` has no maximum, so that it can overflow `time.Duration`; the
  check for shell metacharacters includes the backslash, so that no Windows path passes.
* Agent: the executor hands handlers three configurations and none for mail, so that the
  mail handler of the built agent has nothing allowed; `cmd /C start` on Windows leaves a
  program running although the handler means to end all processes
  (`process_activity.go:94`; `apart` in `Activity`); a tool that fails or does not know the
  process by its name is reported as a state (`faulty`, `odd`); neither impersonation nor
  the Outlook backend calls `runtime.LockOSThread`, so that a moved goroutine leaves a
  thread that impersonates or has COM initialised, and may take COM from another
  (`strayed`); an attachment whose name has `../` in it is written outside the directory
  the configuration names (`outside`), and a history file `os.Stat` has an error for is
  not searched (`faulty`); a `since` or `before` that is not RFC 3339 is dropped without
  an error; a mail Outlook answers with unexpected values ends the agent
  (`OutlookPanics`), and when its Sort fails, which nobody looks at, "the newest" are any; the number of mails is cut before subject, sender
  and attachments are looked at, so that a read without an id may miss a mail that
  matches; an IMAP read by `message_id` never selects a mailbox and fails; the IUnknown
  of Outlook is never released (`MailHoldsNothing` excepts it).

## 6. Not modelled, and why

The contents of jobs and results, logging, HTTP parsing, formatting and the dashboard
decide nothing here. The existence check of the agent in GetNextJobs is left out: agents
are registered before they poll and the code deletes none. The heartbeat before
each poll is in `Registry` and not in `Dispatch`: an agent whose heartbeat fails does
not poll at that tick, which `Dispatch` covers since a poll may come at any later
time. `Registry` leaves out the columns no condition reads (address, labels), handlers
that outlive their call, and a second process of one agent id.

Without a caller in the program, and left out: `UpdateJobStarted`, `CleanupOldJobs`,
`RefreshCache`, `DeleteAgent`, `UpdateAgentStatus`, the scenario steps and the other
status setters of scenarios, `ForwardScenarioStarted`, the audit log and
`CreateProcessAsUser`.

`Pipeline` leaves out times, jitter, the planner's prompt and the text checks of URLs,
paths and server names, which are one bit. An unknown action reaches an agent only
from a posted job. The scoring forwarder's test for observation actions ends the
goroutine of any other event at once, which `Expire` covers; `Forwarding` has no
contents of events, `Observation` has them.

## 7. Plan

Done: `JobStore`, `Dispatch`, `JobLifecycle`, `ScenarioFlow`, `Registry`, `Startup`,
`Forwarding`, `Users`, the agent's handlers, `AgentExecutor`, `Pipeline`, `PlannedRun`,
and the proofs of section 4.

Next, in this order:

1. `ScenarioFlow` with more active scenarios than the tick looks at (`ListLimit`), once
   it is decided what the scheduler should promise then.
2. `ImplementsLifecycle` with lingering handlers, where a poll nobody waits for assigns
   jobs again that have been settled: `FinalUnlessAbandoned` says that this is the one way a
   result is overwritten; which lifecycle the phases have then is open.
