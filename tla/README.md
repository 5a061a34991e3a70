# OZAYN: TLA+ models, model checking and proofs

OZAYN is an operating-environment core written in C: a runtime with modules, events,
tasks and services (`src/core`), a security platform (`03_SECURITY`), a Control Room that
queues, orders and watches operations (`04_CONTROL_ROOM`), and a platform layer
(`02_PLATFORM`). This directory holds TLA+ modules translated from that source, the
configurations with which TLC checks them, and theorems checked by TLAPS.

Paths below are relative to the repository; in `PROJECT.json` the same files carry the prefix
`src/` (so the core's `src/core/tasks.c` is `src/src/core/tasks.c` there).

1. [The system](#1-the-system)
2. [The modules](#2-the-modules)
3. [The runs](#3-the-runs)
4. [Fairness](#4-fairness)
5. [The proofs](#5-the-proofs)
6. [Where code and documentation disagree](#6-where-code-and-documentation-disagree)
7. [What is not modelled](#7-what-is-not-modelled)
8. [Plan](#8-plan)
9. [Conventions, and how to run](#9-conventions-and-how-to-run)

## 1. The system

The program is one thread. Components are records with fixed tables, changed by function
calls that run to completion; what concurrency there is comes from a signal handler that sets a
stop flag (`src/main.c`), from child processes (`src/core/processes.c`) and from IPC clients.
The hard behaviour is therefore not a data race. It is the *order of calls*: results that are
reported after a timeout, lists that are compacted while something points into them, counters
that are kept beside the tables they count, windows of time that end between two calls, callbacks
that call back, writes of which the second fails, and state machines whose table refuses a move
that the caller assumes was made. Time is `time(NULL)` or the monotonic clock, read inside the
calls; sweeps and ticks are called from outside.

One pass of the runtime loop (`src/core/runtime.c:290`) looks at the stop flag, reaps child
processes, dispatches events, serves IPC, ticks the scheduler, collects monitoring and sleeps.

### Components

| Component | State | Operations | Hard part | What makes it correct |
|---|---|---|---|---|
| Operation queue, `04_CONTROL_ROOM/operation_queue.c` | table of operations; counts, totals | enqueue, dequeue, start, complete, fail, cancel, retry, sweeps, cleanups | late results, retries, cleanups of running operations, targets that go away | counters agree with the table, limits hold for operations and not just for counters, ended means ended, first in first out |
| Scheduler, `src/core/scheduler.c` | ready, waiting and blocked arrays | submit, cancel, block, wait, wake, set priority, tick | compaction under a pointer, quotas over three lists, starvation | a task is in one place, runs once per submission, is served |
| Task manager, `src/core/tasks.c` | task table | submit (which runs the handler), the scheduler's dispatch | two components move one task | the scheduler holds known tasks only, ended tasks are not run again |
| Service lifecycle, `src/core/service_lifecycle.c` | service records, groups | register, start, stop, restart, suspend, health reports, groups | a budget of restarts over a window, charged at several places | restarts are limited and available |
| Circuit breaker, `src/core/circuit_breaker.c` | state, counts | allow a call, report it, reset | reports long after the state has changed | trials are bounded, closing needs successes, half-open ends |
| Crash-loop detection, `src/core/crash_loop.c` | component records | register, failure, success, quarantine, release | tumbling windows, cool-down | a crash loop is caught, a cool-down holds |
| Health tracker, `src/core/health_tracker.c` | states, missed heartbeats | heartbeat, set state, watchdog | a heartbeat between two rounds | nobody heard of lately is failed |
| Event engine and loop, `events.c`, `runtime.c` | ring, subscriptions, stop flag | publish, subscribe, unsubscribe, process, signal | handlers that call the engine while it walks its tables | order of delivery, everything accepted is dispatched |
| Startup coordinator, `src/core/lifecycle.c` | components with phase and criticality | register, startup, shutdown, restart | rollback in the middle, a shutdown asked for by a callback | running means ready, stopped means released, phases build on each other |
| Dependency manager, `src/core/dependency.c` | graph, order, states | add, resolve, report, propagate | cycles, rows that overflow, judgement in table order | the order is sound and complete, READY means ready |
| Reload manager, `src/core/reload_mgr.c` | slots of reloadables, the one reload | register, work, save state, request, tick, cancel, roll back | slots that become free in any order under a search by count | one reload at a time, it waits for work only, nothing is installed that was not asked for |
| Process manager, `src/core/processes.c` | table of records beside the kernel's children | create, reap, terminate, shut down | a child ends at any moment; pids are given again | the records that say RUNNING are the children there are |
| IPC server, `src/core/ipc.c`, with `security.c`, `authorization.c` | slots, count, identities, roles | one pass over all slots, stop; register, revoke, assign | clients that come, send in parts and go away between any two steps | an answer only to who is trusted and granted at that moment, one connection per socket |
| State manager, `src/core/state_manager.c` | entries, dirty marks, a file and backups | create, update, delete, save, load, recover | crashes between the steps of a save | the file is whole, what is clean is saved unless it was only called so, a backup is found |
| Identities, `03_SECURITY/identity.c` | table and vault copies | create, update, move, remove | the second of two writes fails | the vault follows the table |
| Sessions, `session_management.c` | table of sessions | create, validate, touch, terminate, expire | owner and clock change between checks | nobody is admitted late or after a refusal, limits per identity |
| Attempt control, `attempt_control.c` | failures per identity | check, failure, success, reset, cleanup | window, delay and block end at different times | guessing is bounded, a block is served |
| Roles, permissions and the decision, `rbac.c`, `permission.c`, `authorization.c` | roles, assignments, permission objects, protected resources, providers | create, move, assign, grant, protect, register, authorize, enforce | identities, roles and assignments that change between decisions, a service that is set but not asked | what is allowed is backed by what holds now; revoking an assignment takes the role away |
| MFA, `mfa.c` | policies, transactions | create, verify a factor, complete, cancel | policies change under a transaction | completed means all factors, blocked is not verified |
| Keys, vault, deletion, backup | versions, objects, a package | add, activate, rotate, revoke, store, erase, restore | an index beside the states, objects that share a key | one active version, erasing one object spares the others |
| Incidents, `incident.c` | incidents, level, lockdown | report, classify, contain, recover, lockdown | a level that is recomputed at some calls only | the level is exact, criticals lock, contained is revoked |
| Responses, `sec_response.c` | plans with their actions | create, validate, approve, reject, execute, cancel, expire | two ways to execute, approvals that a new policy changes | nothing is done twice or without its approval |
| Alerts, `sec_alert.c` | a ring of alerts, deduplication entries, a queue of notifications | create, suppress, escalate, resolve, notify | a ring that drops what is active; retries at the head of a queue | the counter accounts for the dropped, notifications in order, criticals are not silenced |
| Notifications, `sec_notify.c` | a ring of notifications, routing rules, channels, providers | create, process an alert, route, deliver, retry, expire, cancel | an alert whose severity rises after it was told of; a ring that is full; a provider that fails | nothing goes out on a channel its severity may not use, attempts are bounded |
| Admission and enforcement, `04_CONTROL_ROOM/runtime_admission_gate.c`, `runtime_enforcement.c` | rings of requests and decisions | submit, quick check, reassess, invalidate | decisions that outlive the request they were made for | a grant is warranted, one grant in force per request |
| Startup of the Control Room, `startup_recovery.c` | phases and their results, decision | start, one phase, warn, block, shut down | phases by hand before a startup; a deadline in an `int` | what runs went through every phase |
| Pipelines, `04_CONTROL_ROOM/pipeline.c` | pipelines, stages, edges, counts | create, start, pause, drain, stop, expire, stages and edges | removal in any order, shared pools | counts cover, a graph joins the stages it has |
| Pipeline scheduler, `pipeline_scheduler.c` | entries | submit, depend, tick, choose, move, clean up | rings of dependencies through reused slots, aging | nobody waits for itself, the boost is bounded |
| Workflow orchestrator, `workflow_orchestrator.c` | workflows, stages, dependencies | create, validate, ..., start, pause, cancel, stop, tick | reused slots, ignored errors, cycles, partial failure | nothing dangles, outcomes are final and honest, active workflows end |
| Workflow checkpoints, `workflow_checkpoint.c` | checkpoints, reconciliations | create, move, restart, reconcile, tick | a restart between any two calls; a reconciliation that is kept and handed out again | it names the newest committed when it was made; what was withdrawn does not come back |
| Workflow recovery, `workflow_recovery.c` | failures, decisions | record, classify, decide, authorize, execute, tick | decisions that are stale when executed, or executed again | a recovered failure is done with, a decision changes it once |
| Resources, `resource.c` | resources, reservations | register, reserve, release, clean up | holes in tables searched up to a count | nothing is promised twice |
| Devices, `device_io.c` | devices, reservations | reserve, activate, release, disconnect, reconnect | two accounts of one device, loss in between | the count is exact, a lost device is free |
| Streams and routes, `io_stream.c`, `io_router.c` | streams, routes, endpoints | push, pull, authorize, connect, close, lose | bytes guessed, loops through later routes | nothing is lost from the buffer, back-pressure ends, no loops |

How they interact. The operation queue reads the availability of its targets from the
component registry. The task manager and the scheduler share tasks by id: `main.c` submits to the one
and then to the other, and the scheduler's dispatch writes the manager's table (`TaskRuntime`). Sessions, MFA
and incidents ask the identity service, MFA also the attempt control; incidents revoke identities through it
(`Sessions`, `MfaTransactions`, `Incidents` and `Authorization` extend `Identities`). The decision on a request asks
the sessions, the identities, the roles, the permission objects and a policy's provider, in this order.
The IPC server asks the core's security at the handshake and its authorization at each request (`IpcServer` is the composition of the three). Deletion and backup work on the vault
and the keys (`KeyVault`). The event engine runs under the loop (`Events`). The guards of the core (service
lifecycle, breaker, crash loop, health) do not call one another, nor do pipelines, their scheduler, checkpoints and
failures, and, against what their names suggest, streams, routes and device sessions never look at each other; `main.c` and
the tests call each. All publish events, which no component but `main.c`'s logger subscribes to.

Components not modelled, with the reason, are in section 7. `PROJECT.json` lists every component with its
status, and under `hazards` the lines where the behaviours above bite, with the properties that watch them.

## 2. The modules

| Module | Role |
|---|---|
| `OperationPool`, `OperationQueue`, `OperationQueueProofs` | what a queue promises; the queue and its refinement `Pool`; theorems |
| `Scheduler`, `TaskRuntime`, `SchedulerProofs` | the three lists, aging, dispatch; composed with the task table; theorems about both |
| `ServiceLifecycle`, `CircuitBreaker`, `CrashLoop`, `HealthTracker` | restart budgets; calls let through; failure windows; heartbeats |
| `Events` | the ring, its subscriptions, the loop and the stop flag |
| `SupervisionProofs` | theorems about the breaker, the watchdog, the crash loop and the events |
| `StartupCoordinator`, `DependencyGraph`, `ReloadManager`, `StateManager` | how the core comes up, goes down and is renewed, and what it keeps on the disk |
| `Processes`, `IpcServer` | the other processes: children and clients |
| `CoreProofs` | theorems about children, clients, reloads and the startup |
| `Identities`, `Sessions`, `AttemptControl`, `MfaTransactions`, `Authorization`, `KeyVault` | the security services; `Sessions`, `MfaTransactions` and `Authorization` (with a theorem) are compositions with `Identities` |
| `Incidents`, `Alerts` | incidents, over the identities they contain, and the plans that respond to them; alerts and the notifications that carry them |
| `DispatchControl`, `StartupRecovery` | the boundaries an operation passes; the startup of the Control Room |
| `SecurityProofs` | theorems about sessions, attempts, transactions, rights, keys, incidents, responses, and the two boundaries |
| `WorkflowOrchestrator`, `OrchestratorProofs` | workflows with their stages; theorems about them |
| `WorkflowRecovery` | what is kept of workflows, and what is done about their failures |
| `Pipelines` | pipelines with their graphs; in its second half the admission of entries |
| `Resources`, `Devices`, `IoPaths` | what work is given: capacity, devices, streams, routes |
| `ContinuityProofs` | theorems about the state file, checkpoints, failures, pipelines and their admission, resources, devices, streams and routes, the order of the dependencies and the startup |
| `MC...` | instances for TLC: constants, symmetry and, for `MCCoreRuntime`, `MCSupervision`, `MCSecurity`, `MCContinuity` and `MCWorkflowOrchestrator`, the way several instances are explored in one run |

`PROJECT.json` `map` gives, for every definition that models code, the function and lines.
In general one action is one whole public function when it succeeds; a call that is refused and
changes nothing has no action (it is a stutter); a call that fails after changing something (a
dequeue whose re-check rejects the operation, an orchestrator's `cancel` whose transition is refused,
a vault write that fails after the table was written) is an action like any other. A call during which others
can come in (a callback, a handler, a crash) is cut into steps at these points and nowhere else.

**OperationQueue.** `state`, `active`, `retries`, `since`, `op` are the fields of `entries[i]`; `count`,
`runningCount`, `queuedCount`, `total` those of the service record, kept *beside* the table as in the
code, so that an invariant can relate them. `Enqueue` is `ozayn_oq_enqueue` with all its checks in order.
`Dispatch` is the selection, the re-check and the start in `ozayn_oq_dequeue_next`; when the
re-check fails, the same call rejects the operation. `Tick` is the clock, `SetAvailability` the component
registry, `starts` a history. The table is declared as a ring but never wraps, because enqueue refuses once `count`
has reached the maximum and nothing reduces it (section 6); so slot *i* belongs to the *i*-th accepted operation.

**Scheduler, TaskRuntime.** Each array is the sequence of its slots up to its count, with `Hole` for an inactive
slot within the count: `wake` really leaves such holes, and `Wake` follows it to the letter, including that it
compacts the array before it copies the entry its pointer names. `Tick` ages the waiting and ready lists, then dispatches the entry
`Selected` names. Ages above the last one that aging can tell apart are kept as a rank, because selection compares ages of any size.
`CreateTask` is `ozayn_task_manager_submit`, which calls the handler itself, `ScheduleTask` what `main.c:881-891` does next, `RuntimeTick` the
dispatch that sets the task's state and calls the handler.

**ServiceLifecycle, CircuitBreaker, CrashLoop, HealthTracker.** `recent`, `trial` and `granted` are histories of the restarts done
at each age, of the half-open period and of the restarts granted. The breaker's `underway` is the set of calls admitted and not yet reported,
which lets a report come in a later state. `TurnUnhealthy` is `set_health` with the restart or give-up it contains; `Restart` the explicit call, which
charges the budget by another path. `CrashLoop` keeps records in slot order, since `unregister` leaves a slot behind. `WatchdogTick` is a whole round; nothing
in the program calls it, so nothing is said about when it comes.

**Events.** `at`, `event`, `index` are where the one thread stands in `ozayn_events_process`: between pops, in the scan, inside a
handler. Handlers are callers like any other, so `Publish`, `Subscribe` and `Unsubscribe` are possible inside
one; the nested `process` of the code is refused by its guard and has no action. `Signal` may come at any moment. A handler that publishes in answer
to what it publishes keeps the loop from its stop flag for ever; the bound `MaxEvents` on publications hides that.

**StartupCoordinator.** A startup is one callback at a time because `ozayn_lc_request_shutdown` can be called from a callback, and then
the whole shutdown runs inside it before the startup goes on. `holds` is what the callbacks have done (nothing, `open` by `init_fn`,
`running` by `start_fn`). `tangled` records that a component was opened twice or a startup outlived its own shutdown.
**DependencyGraph.** Nodes are the indexes of their registration. `SortNodes` is Kahn's queue as the function of the number of nodes
taken from it, over rows that hold `MaxPerNode` dependents and drop the rest, as the code's do; `Judged` folds over the nodes in table order, reading each
state as it is at that moment.
**ReloadManager.** The sixteen states of a reload are passed in one call, or not left QUIESCING; so `Quiesce` is the whole of a tick, and `asked` records the versions
a component was registered with or asked for.
**Processes.** `processes` are the records, `child` what the kernel holds under a pid: none, alive, or ended and not waited for. `ChildEnds` is nobody's call. A pid is given again once
it was waited for, which is why a stale record would be dangerous; `Terminate` is the signal, the asking and the wait that blocks.
**IpcServer.** The server's pass is cut into its steps, `Accept` and one `Serve(i)` per slot, because clients, other processes, act between any two of them; `turn` is where the pass stands. A message is whole or in two parts,
of which the second may come too late: then it is read as a header. What the core does to identities and roles (`Policy`) falls between two passes, as there is one thread. `said` counts the connections ended by a BYE, `answered` is who the
last step answered.
**StateManager.** A file is the snapshot it holds, absent, or torn. A save is one step with the outcomes it can have, and `CutShort` the ones a crash leaves in
the middle of it: before the backup, after it, before the rename. `known` are the backups whose `active` flag is set, which is in memory only. `Decay` loses the file's content. `MarkClean`, `SaveBackup`, `CallDefaults` and `CallRecover` are the
public calls of `mark_clean`, `save_backup`, `load_defaults` and `recover`; `waived` remembers the entries that count as clean without a save, by the caller's word or by a recovery whose save failed. `CleanIsSaved` makes these two exceptions and no other.
A shutdown forgets memory as a crash does: the code leaves it to `init`, and answers no call before that. `failed` marks the step in which a recovery gave up.

**Identities, Sessions.** `identity` is the table, `vault` what the secure vault holds; each write may be refused, and the call takes the change back or does not,
as in the code. Time stamps are kept as the time left until them. `use`, `admitted`, `refused` are histories.
**AttemptControl.** `attempts` are the slots with window, delay and block as distances from now; the lazy cleanup is part of every call, as in the code.
**MfaTransactions.** `VerifyFactor` is the whole function: expiry, owner, attempt control, the provider's answer, the record of the failure.
**Authorization.** `assignments` and `protected` are the tables in order, `rolePerms` what a role grants. `configured` are the services the decision asks, `given` those that the two setters put into a global. `Authorize` is the whole
decision; the answers of the session service and of the provider are inputs, the first within what `Sessions` guarantees. `allowed` is the last decision, forgotten at the next step.
There is no inheritance of roles in the code.
**KeyVault.** One key, its versions in `lifecycle`, `current` the index kept beside them. `ozayn_kl_transition`, which only its tests call, is left out: it moves a
version without the index.
**Incidents.** `level` is stored by the calls that compute it, and by no other. The plans of `sec_response.c` are the module's second half: an action is its kind; the policy says which kinds are refused or need an approval, and can be replaced under a plan. Whether an action takes effect is an input. Plans are never taken out, so `runs` and `under` (in which
states of the plan an action was done) are histories for good.
**Alerts.** In the first half, the alerts, the ring drops its oldest entry and the deduplication its own, each without the other; `lostActive` counts active alerts that were dropped. `NoticeRounds` is the loop of one call over the queue.
In the second, the notifications of `sec_notify.c`, alerts are an input: `subjects` is what the service reads of them. `Processed` is the body of the loop of `ozayn_snotify_process_queue`, `QueueRounds` the loop over the ring; the same steps can be taken one by one. `again` counts how often
a delivered notification was opened anew by an escalation.

**DispatchControl.** Both boundaries have one shape: a request in a ring, a list of checks of which the first that fails names the decision, a decision in another ring; `layer` says which of the two a behaviour is about, and where the code of the two
differs (the order of the checks, the quick check, the reassessment, which in the gate judges a request without references) so do the actions. A context is the set of conditions that do not hold.
Requests are numbered as they are judged. `chain` in a decision is the number of the request that it goes back to through reassessments, `askedAs` the numbers of the requests that were made under a name, and `restored` the requests of which a decision in force was
stored a second time: a reassessment beyond the limit writes its refusal over the verdict in the caller's buffer and stores the buffer (`runtime_enforcement.c:594`), so that an earlier decision that was in it comes back in force. `OneGrantInForce` and `GrantWarranted` say what holds in view of this and of names that are used twice.
**StartupRecovery.** A phase is its number. `AsInt` is the conversion of a 64-bit time to the `int` that the beginning of a startup is kept in.

**WorkflowOrchestrator.** Identifiers are slot numbers that are used again, so a workflow *is* its slot. `Moved` is what
`_wf_transition` does, *including doing nothing when it refuses*. A call that passes several states is one action. `Tick` is one `ozayn_wof_tick`: for every live
workflow the timeout, then the stages in table order, then the verdict. `binding` is history: the dependencies that their target has to wait for, all but those declared when it had begun and those of a stage that a caller
reported DEPS_SATISFIED (`stage_set_state` does not look at them). **WorkflowRecovery**: the slots of checkpoints fill in the order of sequence numbers. `DetectRestart` is the call made
after a restart; the tables are memory. `commit` is history: whether a checkpoint was committed, and before or after the reconciliation its workflow has. A workflow that has a reconciliation is given that one again
(`workflow_checkpoint.c:749`), whatever became of its checkpoint; the properties are about what a *new* one names. `Sweep` is the retention, the expiry, or the tick that does both. `serial` and `about` tell which failure a decision was
made about, since ids come back with their slots, and `effect` which failure it has changed. `CleanupRecovery` (`ozayn_wfr_cleanup_all`) frees failures in every state and all decisions, and is the one exception `RecoveryHonest` names.

**Pipelines.** Stages and edges of all pipelines share pools; `pipelineCount` and `pausedCount` are counters beside the table and can drift, in one direction only. `EndPipeline` is stop, close, cancel and revoke, which differ in the name of the last state.
The second half is `pipeline_scheduler.c`: `SchedulingTick` walks the table as the code does, each entry judged by those before it as they are now; `SetDeadline` may shorten or prolong what the tick finds over.

**Resources, Devices, IoPaths.** Tables of resources and reservations are arrays searched up to a count that goes down when an entry is taken out: `Known` and `Registered` are
the entries a search still finds. A device's state and the table of reservations are two accounts of one thing, kept by different calls. A stream is its
two counts, units and bytes; `Without` takes out of the bytes what the code guesses a unit has, and `Push` takes sizes below zero too, which the code refuses no more than the model does. A route is looked over for loops once, when it is authorized.

## 3. The runs

All sizes are distinct states with the configurations given. Where several small conjuncts are about one component, the run checks their conjunction under one
name (`QueueSafe`, `SessionsSafe`, ...); the parts are named definitions with a comment each.

### Runs that pass

**`queue`** (`MCOperationQueue`, `OperationQueue.cfg`). A table of three places, two running at
once, three kinds of request: a retryable idempotent START, a STOP that conflicts with it, and an
urgent QUERY that reuses the first request's id. Three instants of time, one unit of queue and
execution timeout and immediate expiry. This is the least with which one can have a full table, two
operations swept at once, a report racing a sweep, a retry overtaking, a lower priority waiting, and
a replay. `QueueSafe` (types, the throttle counts what runs, one start per admission), `AdmissionHolds` (idempotency, load
per component exceeded by retries only, totals account for every operation), `TerminalStays` (a late result changes nothing),
`FifoWithinPriority`, and `ImplementsPool`, the refinement.

**`scheduler_normal`** (`MCScheduler`, `SchedulerNormal.cfg`). Liveness: under fairness of tick and
clock a ready task of NORMAL priority is served, whatever CRITICAL tasks keep arriving. Three
tasks, so that two can take turns against the third; one source with a quota of two, as many as the ready list holds; the boost is the code's maximum of two levels. About 35,000 states.

**`core_runtime`** (`MCCoreRuntime`, `CoreRuntime.cfg`). Five managers of the core, one moving at a time. *Tasks*: three tasks of two
sources with a quota of two, over lists of three, two and one places, so that lists fill up, a quota is met by
tasks in different lists and compaction moves an entry past another. *Startup*: three components over two phases. *Reload*: two slots for
three names, one of each capability, two versions. *Processes*: two pids for four records, so that each pid is given again. *IPC*: two clients over two slots and one identity, which either every client may claim or one; a REQUEST may come in two parts. `TasksSafe` (a task is held once, within the quotas, accepted, known to
the manager, every run explained), `CoreSafe` (of startup and reload), `ProcessesAndPeersSafe` (the records that run are the children there are; the server's count covers its connections, a socket has one, READY is who may claim to be),
`AnswersAuthorized` (who is answered is trusted and has the role at that moment) and `AgingOnlyRaises`. About 2.7 million states. The two sources and the two clients are model values that nothing orders or names, hence the symmetry.

**`supervision`** (`MCSupervision`, `Supervision.cfg`). `guard`, chosen initially and never changed, says which of five parts moves, so that the run is the
union of five. *Services*: one service under each of three budgets, one group. *Breaker*: four calls under way at once, thresholds 2 and 3, two counted trials:
`main.c`'s ratio, `success_threshold = max_calls_half_open + 1`, with which the uncounted call is just enough. *Crash loop*: two components, two slots, windows of two units.
*Health*: one component, two silences to failure, rounds of two units. *Events*: a ring of two, two subscriptions, three events of two types. It shows `SupervisionSafe` (types; less than
three budgets of restarts in a window; a crash loop caught), `HalfBudgetAvailable`, `BreakerSafe`, `ClosesOnSuccesses`, `HalfOpenEnds`, `CooldownHolds`, `FailedAfterSilence`,
`EventsInOrder` (the ring is a queue however it wraps; handlers get events in order) and `EventuallyDispatched`. About 1.3 million states.
The budget of three under NEVER is there because the worst mix of explicit restarts and counted failures, 3 * 3 - 2 restarts in one window, is reached with it.

**`workflow`** (`MCWorkflowOrchestrator`, `WorkflowOrchestrator.cfg`). Two shapes: "deep",
one workflow with two stages and two dependencies (so a cycle closes after validation); and
"wide", two workflows competing for one live place with one stage between them (so that slots are reused by
strangers), one reset of the statistics. A workflow timeout of one unit, stage timeouts off: a stage that never reports must still
end. `OrchestratorSafe` (types, nothing dangles, the limit holds), `TerminalStays`, `DependentsWait`, `VerdictHonest` and the
liveness `ActiveEnds`. About 118,000 states. A mutant that lets a stage go when the one it waits for has merely ended breaks `DependentsWait`.

**`security`** (`MCSecurity`, `Security.cfg`). Eleven parts, one moving at a time. *Sessions*: two identities over one place (so a removed one is replaced), two sessions, a limit of one, idle time
one and lifetime two. *Attempts*: one slot, windows of two and a block of five units, so that a block outlasts the age at which an entry is wiped, and failures fall into stretches that no window begins or ends with. *MFA*: two policies' worth of factor sets, two transactions, one claimant who also tries passwords, is suspended and reactivated.
*Keys*: three versions, two objects. *Incidents*: two about one identity, the only one that moves, with a lockdown at two criticals. *Dispatch*: three requests judged under two identifiers, with a ring of one request, so that a decision outlives the request it was made for, and of two decisions. (That one request gets two grants in force takes five requests, and was found by the proof; section 6.)
*Responses*: one plan of two actions, under two policies of which one refuses what the other wants approved. *Reports*: three alerts over a ring of two under one key, a window for duplicates of one unit. *Notices*: two notifications, one retry, a provider that is given up after two failures. *Rights*: one role, two places for assignments, one permission object, scopes that cover
everything or users. *Protection*: two protected entries, one of which may hide the other, and services that are set later. `IdentitiesSafe` (sessions: admitted in time,
refused for good, limit, vault follows; attempts; transactions; what is allowed is backed by an active identity, role, assignment and object, and a role is held once), `KeysSafe`, `AnswersSafe` (incidents; responses), `NoticesSafe` (alerts; notifications: allowed channels, bounded attempts, duplicates explained), `DispatchSafe`, and `BlocksHold` (a block is served, and nothing of a blocked identity is verified). About 2.4 million states.

**`continuity`** (`MCContinuity`, `Continuity.cfg`). Eleven keepers, one moving at a time: pipelines (two, with two stages), admission (two places, three entries), checkpoints (three of two workflows,
one kept for each), failures, the state file (two entries, two versions), capacity (two resources and reservations), devices (two, two slots), streams (one, of three largest unit sizes, with units of -1 to 6 bytes over a buffer of 5), routes (three over three endpoints), dependencies (four nodes, rows of two, the least in which a row overflows, one node reported as failed at a time) and the startup of the Control Room (three
phases, a clock that passes the largest `int`, which is 3). `PipelinesSafe`, `SchedulingSafe`, `RecoverySafe`, `CheckpointsKept`, `RecoveryHonest`,
`SavedForGood`, `PromisesKept`, `FlowSafe`, `OrderSafe` (the order of the dependencies, and what runs went through every phase). About 1.7 million states. Of the checkpoints: a reconciliation names one that was
committed before it, the newest valid one then (`RecoverySafe`); what was committed and withdrawn is not valid again nor named by a new reconciliation, a restart changes nobody's newest, and what waits for recovery is not taken by age or retention (`CheckpointsKept`). Of the
failures: done is done, criticals are escalated, and a decision carried out again leaves the failure where it brought it (`RecoveryHonest`).

### Runs that TLC finds violated

Each states what a document, comment or test of the repository says, and TLC finds the code
doing otherwise; section 6 gives the counterexamples: `scheduler_wake`, `task_rerun`, `state_recovery`, `backup_replace`, `exclusive_device`.

### Bounds

`MaxTime` (queue), `MaxResets` (orchestrator), `MaxDirtyCount` (state manager), `MaxNegative` (streams), `MaxEvents`, `MaxVersion`, `MaxSerial`, `MaxRegistered`, `MaxIssued`, `MaxEntries`, `MaxVersions`, `MaxEdges`, `MaxReported` (dependencies), `MaxWork` (reload), `MaxUnread` (IPC), `MaxJudged` (dispatch), `MaxAlerts`,
`MaxDuplicates` and `MaxNotices` (alerts), `MaxUptime` (startup), and the sets `ReportedStates`, `Reported`, `References`, `Contexts`, `ResponsePolicies`, `InParts` and `Uids` are bounds of the
model, in guards and named in the modules. Ages and times left are kept only as far as the code compares them and so bound nothing. All
table sizes and thresholds are CONSTANTS that stand for the `#define`s and policies of the code; two of everything is enough for one to end while another lives, three
where a hole between two or a chain is the case.

Deadlock is checked in `queue`, `scheduler_normal` and `workflow`, where a clock that can always advance or a call that is always possible is part of
the model. It is not checked in `core_runtime`, `supervision`, `security` and `continuity`, nor in the violated runs of their modules: there the bounded parts really run out of calls (a stopped engine or server, a
table that only grows and is full).

## 4. Fairness

- `Scheduler!FairSpec`: weak fairness of `Tick`, because each pass of the runtime loop ticks the
  scheduler (`runtime.c:304`) and passes never stop until shutdown, and of `Elapse`, because time
  passes. No caller is assumed to submit, wake or cancel anything.
- `MCWorkflowOrchestrator!MCSpec`: the same of the orchestrator's `Tick`, whose caller is its owner, and of the clock.
  No client and no stage is obliged to do anything; `ActiveEnds` rests on the timeout alone.
- `MCSupervision!MCSpec`: weak fairness of `EngineStep`, because the one thread of the loop (`runtime.c:279-318`) goes on
  taking steps until it has seen the stop flag; nothing is assumed of handlers, callers or signals. And weak fairness of `Report` (the calls that
  were let through are reported at some time) and of `Call` (somebody goes on using the dependency): assumptions about the breaker's
  callers, not about its code. `circuit_breaker.h` asks of them to report each call, and a
  caller that does not leaves the breaker half open for ever, since no timeout covers that state.
- All other runs check safety only and state no fairness. Of the health tracker, the pipeline scheduler and the checkpoints in particular, nothing in the program
  calls the tick, so no fairness of it would be justified.

## 5. The proofs

All theorems hold for every value of the constants allowed by the named ASSUME of the module they are about. Those about a
run's specification (`CoreSpec`, `MCSpec` of `MCSupervision`, `SecuritySpec`, `ContinuitySpec`), in which one of several parts moves,
first show that the other parts leave the variables of this one alone; what remains is about the component's own `Next`.
Each of the properties is also checked by a run, which is where its mutants fail, and so was each of the inductive invariants before it was proved.

**`OperationQueueProofs`** assumes `ConstantsAssumption` (table size, limits, timeouts and
retention are naturals; requests are records of the request type).

- `TypeCorrect`: `TypeOK` is inductive by itself.
- `RunningCountCorrect`: `Spec => []RunningCountExact`. Not inductive as it stands: an enqueue fills slot
  `count + 1`, and could change `Running` if something were left there. So the induction uses
  `IInv == TypeOK /\ Untouched /\ RunningCountExact /\ StartCredit /\ StartsBounded`, where
  `Untouched` says that slots above `count` are free, inactive and never started. Cardinalities are moved by four lemmas (added,
  removed, kept, swept), the last one for sweeps that end several operations in one call.
- `StartsCorrect`: `StartsBounded`, by the strengthening `StartCredit`: a queued operation has been
  started at most as often as it was retried, so a start is always paid for.
- `QueueIsSafe`: the conjunction of these, `QueueSafe`, as the run checks it.
- `AdmissionIsHeld`: `AdmissionHolds`, that is `IdempotentOnce`, `FirstAttemptLoadBounded` and `TotalsAccount`. The totals are proved as `TotalsInStates`: each is the number of slots in a state, held or
  not, so that a step moves them by what it does to one slot.
- `QueueIsFifo`: `FifoWithinPriority`. `InOrder` relates the places of the table to the time of admission: a later slot was filled later.
- `TerminalIsFinal`: the action property `TerminalStays`, one case per action.
- `QueueImplementsPool`: the refinement of `OperationPool` (safety). Initial states correspond, and
  each action of the queue is `Admit`, `Start`, `Settle`, `SendBack`, `Forget` or a stutter of the
  pool; `Start` needs `Cardinality(running) < Limit`, which is where `RunningCountExact` is used.

**`SchedulerProofs`** assumes `SchedulerAssumption`, `TaskAssumption` (tasks are numbered from 1 to the size of the manager's table, and so are finitely many) and `HoleIsNoEntry`.

- `TasksHold`: `TasksSafe`. The invariant `Good` speaks of the three lists together: each fits, holds a task once and holes besides, they share no task, a
  source has no more entries in them than its quota, and what they hold was accepted. `TaskInv` adds the manager's table and that what is held was run once. The hard part is `wake`, which compacts a list of which it
  still holds a pointer: whatever it then copies is an entry that is in no list any more, or a hole. `Compact`, a loop in the code, is a recursive
  function here; that it keeps the entries and their order is shown by the least place at which it would not.
- `AgingRaises`: the action property `AgingOnlyRaises`. Every step but that of `set_priority` is shown to be one that `Climbs`: an entry of a task that was held before comes from an entry of that task that was no higher (`NoLower`), whichever list it was on. `Good`
  is needed for the rest: that entry is the only one of its task, so that it is the one the property compares with, also after a `wake` has moved the entry of somebody else.

**`SupervisionProofs`** assumes `BreakerAssumption` (positive thresholds; trial calls and timeout natural; the set of calls is arbitrary, even
infinite), `HealthAssumption`, `CrashAssumption`, `EventAssumption` and `ServiceAssumption` (budgets and windows are naturals, and of the configurations in use one has the longest window, as one of
finitely many always has).

- `BreakerTypeCorrect`, `ClosedStaysBelow`, `TrialIsBounded`, their conjunction `BreakerIsSafe`, and `ClosesOnlyOnSuccesses`. The
  inductive invariant is `BreakerInv == BreakerTypeOK /\ ClosedBelowThreshold /\ TrialAccounts`.
  `TrialAccounts` relates the counters of the code with the history of the period: calls admitted are at
  most the counted ones and one more, and at least as many successes were seen as are counted. Without it
  neither the bound on trials nor the condition for closing is inductive: the code's counters are
  reset on entry, and the history has to be reset with them.
- `FailsOnlyTheSilent`: `FailedAfterSilence`, from `SilenceCounted`: who was missed *n* times has been quiet for the timeout, for *n* - 1 rounds after it and for what has passed of the present one.
- `CoolsDownFirst`: `CooldownHolds`. It needs the types only; each step, the loops over all components among them, makes of a record that cools down what `Patient` allows.
- `OrderIsKept`: `EventsInOrder`. `EventInv` says how the engine stands to what was accepted: the ring holds what was not taken out (`RingHolds`, through its wrap-around), events are numbered as they came, and
  every subscription was given what was published since it came, up to where the scan is (`GivenToAll`, `DoneFor`). A handler may publish, subscribe and unsubscribe
  while the scan stands at it, which is why the invariant is about where the scan is and not about rounds.
- `WatchersHoldTheirLimits` and `HalfBudgetHolds`: `SupervisionSafe` and `HalfBudgetAvailable`. Both count what was done within a window, so both need sums over ages. That such a sum exists and adds up, and what it becomes
  when a unit of time passes (`SumsShift`) or one is added (`SumsMore`), are lemmas about any counts, each by the least counterexample; the invariants then say where each summand was paid from. `Bookkept` keeps the books of a service
  by the state its window is in: none open (`OfUnset`), open (`OfOpen`), over but not yet noticed (`OfClosed`), and for services restarted on reports how much of what is charged was restarts (`OfAnswered`). The first attempt failed for a good
  reason: the bound stated then, twice the budget, is false, and TLC found the behaviour with a larger budget than the run had used. What holds, and is reached, is three budgets less two. `CrashInv` is the same for crash loops:
  a grant is charged to the present window or to the one before (`Accounted`), which gives twice the failures a window may have, less two; and a name is active in one slot.

**`CoreProofs`** assumes `ProcessAssumption` (pids and the size of the table are naturals), `IpcAssumption` (one slot at least; uids are sets of peers), `ReloadAssumption` (the empty string names nothing) and that of the coordinator. Sets of
clients and identities are arbitrary.

- `ProcessesCorrect`: as many records say RUNNING as the kernel has children. Numbers are no induction hypothesis, so
  `ProcessInv` says it of the pids: a pid has one such record at most, and the pids of these records are those of the children. The numbers follow, because the
  record of a pid is a bijection.
- `AnswersAreAuthorized`: `AnswersAuthorized`. It needs no invariant: each step that answers has asked within the same step (`AnswersStep`), and
  every other step answers nobody. That is the point of the code's choice to authorize each request.
- `IpcCorrect`: the count covers the connections, a socket has one connection, READY is who may claim to be, roles leave nobody behind. The invariant `IpcInv` adds that
  a socket waits once and that whoever waits or is served has connected, without which a client could wait twice and be given two slots. What a look at a slot
  can do to the connections is first stated by itself (`ServesWell`: nothing, an end, or a handshake), and the invariant is shown for these three. `ProcessesAndPeersHold` states the two as the run does.
- `ReloadsHold`: `ReloadsSafe`. The strengthening is `SavedInUse`: the storage a slot refers to lies below `stateUsed`, so that what is handed out next is nobody's.
- `StartupHolds`: `StartupSafe`. `CoordinatorInv` follows the startup through its two loops: `OrderFits` says that the order holds components of the registry phase by phase, and `Progress` what the places before the present one have
  become. A callback that asks for a shutdown runs one in the middle, after which the loop goes on over what is no longer there; that case (`tangled`) is where the invariant is weaker, and the reason why `StoppedIsReleased` names it.
- `CoreIsSafe`: the two together, `CoreSafe`.

**`OrchestratorProofs`** assumes `WorkflowAssumption` and `NoneIsNoRecord`.

- `TablesHold`: `OrchestratorSafe`. The limit is not inductive: the counter it is compared with may be too low. `Limited` says when: only since a reset of the
  statistics that no workflow has yet made use of.
- `EndsAreFinal`, `VerdictsHold`: the action properties `TerminalStays` and `VerdictHonest`; `NoneGoesAhead`: the invariant `DependentsWait`. All calls but the tick are shown to be `Harmless`, which is more than the properties ask: no end is undone, no verdict given, no
  stage let go past a dependency that binds it (`LetsNoneGo`), and none bound that has begun (`BindsWaiting`). `DependentsWait` is inductive together with the tables (`WaitingHolds`): what a stage waited for has ended, ends stay, and the dependency is gone before its slots are used again. The
  tick changes every workflow and every stage at once, so its step is proved for one workflow at a time: overdue, judged, aborted or left alone.

**`SecurityProofs`** assumes `VaultAssumption`, `DispatchAssumption`, `IdentityAssumption`, `IncidentAssumption`, `ResponseAssumption`, `SessionAssumption`, `AttemptAssumption`, `MfaAssumption`, `RightsAssumption`, `AlertAssumption` and `NotificationAssumption`.

- `KeysHold`: `KeysSafe` is inductive by itself. That is worth a remark, as the index of the active version, the states of the versions, the table of objects and the list of revocations are written by different files.
- `DispatchHolds`: `DispatchSafe`. The invariant says what a decision still knows of its request: `Sound`, its number is among those asked under its name, and the record in the ring of requests, if it has not been pushed out, is the request as asked first;
  `Hollow`, it was written over nothing. `RingOfRequests` adds that before each record a request of that name was made, so that the *oldest* record of a name, which is what a
  reassessment uses, is another than the one asked for only where a name was used twice. `OneInForce` and `IdsGoUp` are the properties about grants in an inductive form. The first attempt failed for a good reason: as first
  stated, two of the properties were false, for five requests and more (section 6, `AlwaysOneGrant`).

- `AnswersHold`: `AnswersSafe`. Incidents change identities and the other services change them too, so `IdentityInv` and what a step may make of an identity (`IdentitySteps`, `GoneStays`) are proved once for all of them. `Fair` adds to
  the properties that nothing on its way to a containment carries one already, and that who was revoked for an incident is gone. For the plans, `SoundAct` says what an action may be while its plan is in a state; the execution of a whole
  plan is a fold of the steps of single actions, and is shown by what one of them keeps.
- `IdentitiesHold`: `IdentitiesSafe`, from four invariants that are kept side by side. Sessions: what is left of a session in the code's table is what its age and its quiet time leave of it (`InStep`), whatever a touch has written there. Rights: `RightsInv` as in `Authorization`, kept
  while the other services change the identities. Transactions: a verified one has all its factors (`TxSound`). Attempts: the entry of an identity accounts for the failures of the last window (`Tally`): while it is blocked, they came before the block (`Serving`); while it counts, there are as many since its window
  began as it says, and at most `MaxMisses - 2` before (`Counting`); and once its window has passed, what is left of it gets less (`Lapsed`). The number of failures in a stretch is a sum over a window, a recursive function; that it grows by what is added and loses what is shifted out is shown by the least age at which it would not.
- `NoticesHold`: `NoticesSafe`, from two invariants. Notifications (`NotificationInv`): in which states an attempt is still owed or has been spent (`SoundNotification`), which is what bounds attempts over retries and renewed escalations, and `again`, which tells a second open notification about one
  alert from a duplicate. A change of one record is several writes in the code; `Reads` follows its fields through them. Alerts (`AlertInv`): the counter of active alerts is the active ones in the ring and those it has dropped (`CountSound`), every alert whose notice is pending has it queued
  (`AwaitedIn`), and only the head of the queue was tried before, which is what keeps the order through a retry. Both loops over a queue are recursive functions; `RoundsStay` shows of any such loop, by its first bad round, what every round keeps.
- `BlocksAreServed`: the action properties of `BlocksHold`. Nobody who is blocked has an attempt under way (`Waiting`), so no late failure can lift a block; the wipe spares it; and a factor is only noted after the attempt control has allowed it.

The first attempt to prove the failure rate failed for a good reason. As first stated, for every policy, it is false: where the block is shorter than the window, the count begins anew within the same stretch (TLC shows it for `MissWindow` 3 and `BlockTime` 1).
`ozayn_ac_validate_policy` lets such a policy pass (`attempt_control.c:60`); both policies in the code block for at least as long as the window, and for these the property is stated and proved.

**`ContinuityProofs`** assumes the named assumptions of the modules it is about: `StateAssumption` and those of the recovery, the pipelines, their scheduler, the resources, the devices, the streams, the routes, the dependency graph (what callers report are states there are) and the startup (the table has room for every phase).

- `SavedIsForGood`: `SavedForGood`, under the hypothesis `EntriesFit` that all keys fit into the buffer of a save: beyond that a save drops entries and calls them clean (section 6), so that the property is false there. `CountCovers` says how far `dirtyCount` can be off. The entries in `waived` are the exception the property states.
- `RecoveryIsSafe` and `CheckpointsAreKept` (an action property): from `CheckpointInv`, whose `CommitsMarked` ties the history of a checkpoint to its state. `RecoveryIsHonest` (an action property): from `FailureInv`. States of a failure have a `Rank` that no transition lowers, and `EffectsLast` says that a
  failure which a decision changed is at least as far as that brought it, so that carrying the decision out again changes nothing. The tick and the retention are loops over the table, stated as what they make of each entry.
- `PipelinesAreSafe`: `PipelinesSafe`, with `NothingAhead`: ids that were not issued have no stages and no edges, without which a new pipeline could start with those of another.
- `SchedulingHolds`: `SchedulingSafe`. That nobody waits for itself is inductive by itself: had a new need closed a ring, the entries of that ring within the set that refused to reach its entry would have been a ring before. The names of entries need not even be unique. `Lifted` counts in the boost of an
  entry what lifted it. The tick walks over the table while it changes it, a recursive function; that each entry is looked at once (`WalkedOnce`), whatever those before it have become, is shown by the least place at which it would not.
- `PromisesHold`: `PromisesKept`, in two halves. `DeviceInv` adds to the property that a lost device is out of reach (`LostOutOfReach`), which is what refuses a reservation of it. `ResourceInv` adds
  `IdsGiven`: an id is given to one resource, and nothing names one before it is given, so that a new resource starts without debts. What is reserved is a sum over the table; that the
  sum exists, that it adds up and that it grows with the table are lemmas, each by the least counterexample.
- `FlowHolds`: `FlowSafe`. A stream is `SoundStream`: what it counts as buffered is no more than its depth times its largest unit, where the guess of a pull allows that to be said; from it follow the empty buffer of an
  empty stream and the end of backpressure. `RoutesSafe` is inductive by itself, and rests on one fact about the loop check: it says yes for
  every circle, however few steps it may take (`CircleIsFound`), since running out of steps counts as yes.
- `OrderHolds`: `OrderSafe`, in two halves. `GraphInv` says of a resolved order what Kahn's algorithm gave it: `Queued` holds after every node that is taken from the queue, namely that all in the queue come after what they need, that nobody is in
  it twice, and that whoever is known in the rows of all he needs is in it once those were taken. What is not in the order in the end is then one whose row was full, or needs one that is not. No cycle has to be excluded for that: a ring is only left out. The sort, the choice of a row and the judging of the states are recursive functions; `RecursionExists`
  and `AllTheWay` show for each that there is such a function and what every step of it keeps. `BootInv` adds that nothing is completed before a phase was run. A phase that was run by hand may leave its number in a slot of its own, or, when the table is full, in none; a startup wipes the table first, so that the n'th phase gets slot n (`PhaseFollows`),
  which is why what runs went through every phase.

**`Authorization`** needs no assumption but the finiteness that `Identities` names, and does not use it.

- `RightsCorrect`: `AllowedIsBacked` and `HeldByOne` of `RightsSafe`. `RightsInv` adds to them only that the table holds assignments. `HeldByOneKept` goes through the steps that
  touch the table; `DecisionIsBacked` shows that a decision reads all it rests on within its own call, so that no change in between can leave it stale.

Only model-checked is liveness (`NormalServed`, `HalfOpenEnds`, `EventuallyDispatched`, `ActiveEnds`): the prover has no fairness and no ENABLED. All other properties of the passing runs are stated by theorems.

## 6. Where code and documentation disagree

Met while modelling, each with a run that shows it (`PROJECT.json` `findings` quotes the texts):

| Run | What happens |
|---|---|
| `scheduler_wake` | `wake` copies its entry after compacting the array: the task is lost, or another one is made ready in its place |
| `task_rerun` | the task manager runs the handler in submit; the scheduler then runs the finished task again, past the transition table |
| `state_recovery` | after a crash in a save, the recovery skips the intact backup on the disk, because its flag was in memory |
| `backup_replace` | a restore that replaces removes the object before it knows it can bring it back |
| `exclusive_device` | the search for a reservation in the way stops at the count; after one ended before it, an exclusive device is given away twice |

Further properties that do not hold are stated in the modules and can be tried by hand; they are not among the runs. Put the
property in the place of the INVARIANTS and PROPERTIES of the configuration of the run that is named; where it needs other constants, they are given.

| Property | Where | What happens |
|---|---|---|
| `ConflictingNeverTogether` | `queue` | conflict mode WAIT delays nothing: a STOP is started while the START of the same target runs |
| `CleanupFreesSpace` | `queue` | no cleanup gives a place back; after `max_entries` enqueues the queue stays full for ever |
| `QueuedCountExact` | `queue` | cancel never decrements `queued_count` (it has overwritten the state it tests) and retry never increments it |
| `EveryoneServed` | `scheduler_normal` with `LowAndHigh` priorities | a boost of two levels does not lift BACKGROUND above HIGH, so it can starve |
| `BudgetIsAvailable` | `supervision` | a failure is charged twice; a service with two restarts gets one |
| `BudgetIsMaximum`, `BudgetRenews`, `UnhealthyIsHandled` | `supervision` | the first failure sets the count to 1 and forgets explicit restarts; a budget spent by explicit restarts alone opens no window and never comes back; a service that turned unhealthy while suspended is resumed as RUNNING |
| `QuarantinedNotRestarted` | `supervision` | after the cool-down, a component still quarantined is granted a restart while `can_restart` says no |
| `CancelledIsCancelled` | `workflow` | cancelling a workflow in CREATED, VALIDATING, RESUMING or DRAINING cancels its stages, returns OK and leaves the workflow going |
| `GivenIsAsked`, `ScopedIsGranted`, `EveryProtectionCounts` | `security` | a service given to the decision by the setter is not asked (`rbac.h:348`, "When set, authorize() will check RBAC permissions"); a scope must be spelled in small letters and is looked up in capitals, so that only GLOBAL grants are ever found; the first entry that protects a resource hides the others |
| `OpenedForActive` | `security` | a session is opened for an identity that was suspended since it authenticated (`session_management.h:174` requires an ACTIVE one) |
| `CountIsLive` | `continuity` | `pipeline_count` is not lowered by a removal in every state |
| `RunningWithinLimit`, `NotAfterCleanup` | `continuity` | what `schedule_next` has chosen is not counted until it runs; a failed entry that was cleaned up holds nobody back |
| `RetentionKeepsNewest` | `continuity` | the retention's loop supersedes the newest valid checkpoint |
| `RecoversOnlyAuthorized` | `continuity` | execute asks neither for the authorization nor for the safety reference (`04_CONTROL_ROOM/README.md:575`) |
| `DecisionActsOnItsOwn` | `continuity` | a decision is carried out on another failure, which got the slot of the one it was made about |
| `NothingLeaks`, `EndsRegistered`, `NothingEverLost` | `continuity` | capacity of reservations beyond the count is never given back; routes outlive their endpoints; units larger than 1024 bytes leak from the count of bytes until every push is refused |
| `FailedIsReleased`, `NeverTangled`, `StartedInPhases` | `core_runtime` | the rollback gives components of the failed phase `stop_fn` only, and a required one that fails to *start* rolls nothing back; a later startup opens components twice, and goes on after the shutdown a callback asked for; `start_fn`s run in the order of registration |
| `OrderIsComplete`, `ReadyIsReady`, `FailedStaysFailed` | `continuity` | dependents beyond a row are left out of the order and the resolution succeeds; a node is READY above a later-registered one that is not (`main.c` registers TaskManager before ResourceManager); a resolution makes a FAILED node READY |
| `NamesOnce`, `NothingLeftPending`, `OnlyReloadable`, `NoNewWork` | `core_runtime` | a name behind the count is registered again; a version that was cancelled or timed out is installed by the next request; what requires a restart is reloaded; work goes on being taken while QUIESCING (`reload_mgr.h:17`) |
| `NothingOrphaned` | `core_runtime` | the shutdown of the process manager leaves running children to themselves |
| `StoppedIsEmpty`, `NothingMisread` | `core_runtime` | the shutdown closes connections up to the count only; what is not complete within 50 ms is not read again ("will retry next cycle", `ipc.c:827`), and its rest is taken for a header |
| `AcceptsWhileFree`, `ReadyIdsUnique` | `core_runtime` with three `Peers`, the second with three `Slots` | each BYE leaves one in the count, until nobody is accepted; the search for a connection of the same name stops at the count |
| `AlwaysWarranted`, `InvalidatedIsGone` | `security` | the gate judges a request again without its references, and so without its session; after a reset of the statistics an identifier names two decisions, of which one is invalidated |
| `AlwaysOneGrant` | `security` with one request identifier and `MaxJudged` 5 | a refusal that is written over a caller's copy of a decision stores the copy in force; it and the original are reassessed separately, and one request has two grants in force |
| `FailedHasFailure`, `UnauthorizedStays`, `DoneIsNotCancelled` | `security` | a plan executed action by action ends FAILED although all succeeded; an action whose authorization was refused is approved with its plan and done; what was done is cancelled |
| `CountIsActive`, `NewestEntryCounts`, `DuplicateOfOpen` | `security` | active alerts that the ring drops are counted for ever; an older entry of a key hides the newer one; duplicates count in an alert that is resolved |
| `OneOpenAtMost`, `EscalationInTime` | `security` | an escalation opens a delivered notification again beside a new one; what was escalated keeps its old expiry and expires without being told |
| `StartsInTime`, `BlockedIsNotRunning` | `continuity` | on a machine up for longer than 24.8 days the beginning of the startup does not fit its `int` and the startup times out (`04_CONTROL_ROOM/README.md:681`, "the system starts in READY mode regardless"); what runs goes on after a decision that blocks |

What else a reader of the code should know, as the properties that hold describe it or the models leave it out:

- *Core.* A half-open breaker lets `max_calls_half_open + 1` calls through, and successes of calls admitted before the failure count towards closing
  it. Up to three times the budget of restarts, less two, fits into one window; crash-loop windows tumble. A heartbeat overrides an operator's DEGRADED, and the end of a quarantine keeps the misses. `startup_timeout_ms`,
  `component_timeout_ms` and `shutdown_timeout_ms` of the coordinator, and `fail_on_cycle`, `fail_on_missing` and `MAX_EDGES` of the dependency manager, are read by nothing; the shutdown calls
  `shutdown_fn`s forward, also of components that were never initialised. The state manager's seal is not marked dirty and lost at a restart, an entry that is deleted while nothing is dirty comes back on the next load, entries beyond
  64 KB are dropped from a save without a word, and `main.c` never calls the load. The reload manager forgets a saved state before it
knows that the new one can be saved, never gives a storage slot back, and never reaches its automatic rollback. A client that does not read keeps the server sending for ever, and with it the one thread; `OZAYN_IPC_HANDSHAKE_TIMEOUT_S` is read by nothing; roles outlive the identity they were given to, and are those of the next
one of its name. The table of 32 processes gives no place back, and reaping waits for every child, also one that somebody else started.
- *Security.* `touch` revives a session that is overdue and not yet swept. `contain` moves incidents out of states the table calls final; reports are refused for ever once the table is full; a new policy does not recompute the level. Response actions are sent to the decision without a session and with a scope in capitals (`sec_response.c:735`): with an authorization service every one is refused. Places of ended assignments, roles and permission objects are not used again, and no call resumes a role or an assignment, though the tables of transitions allow it. Once the ring of notifications is full, none is queued any more; a failure for want of a provider cannot be retried and waits for its expiry.
- *Control Room.* A workflow whose stages all timed out or were skipped is SUCCEEDED, because only FAILED stages count. Pipeline stages never become READY; edges of stopped pipelines stay in the pool; a running pipeline may be made cyclic; ending a paused one leaves
  the paused count. A commit does not supersede older checkpoints, though `04_CONTROL_ROOM/README.md` says so; slots of ended ones are never freed; a second restart returns the old reconciliation, also when its checkpoint was superseded, found invalid or recovered from since. `ozayn_state_mark_clean` lets a shutdown skip the save of what was never written. A retry decision bypasses the categories that `execute_retry`
  refuses; expired decisions can be executed until a tick. ELIGIBLE entries do not age, so LOW may starve; `max_running` entries are exceeded as above. A cancelled or expired device request leaves its device RESERVED; `device_activate` takes another's reservation; tests set
  REQUESTED to RESERVED through the returned pointer. Reconnection does nothing for a stream, which in UNAVAILABLE can only be closed, revoked or expire; a unit of negative size is stored and lowers the count of bytes; `route.device_id` is never set, so a lost device disconnects no route.

## 7. What is not modelled

Within the modelled components: initialisation failures and null arguments; shutdown of the tables; names, descriptions and
metadata; events and audit records, which nothing modelled reads; statistics that decide nothing;
the width of counters (`uint32_t`, `uint64_t`), none of which can wrap within a realistic life,
save the arithmetic noted in the hazards; strings longer than their fields. A policy is
fixed for a behaviour where its module does not say otherwise.

| Component | Why |
|---|---|
| Platform layer (a tenth of the code for Linux alone), storage and protection providers, modules and plugins | system calls, sockets, file formats and the cryptographic library: the outside world, behind functions whose answers are inputs of the models |
| Authentication, passwords | cryptography; their answer is an input of `Sessions` |
| Configuration files and their validation, commands, logger, diagnostics, status, metrics, timeline, performance, release | parsing, formatting, dispatch tables and read-only views |
| Device sessions | each call looks at one session alone: a transition table, and no more to say than it says |
| Core recovery and defense, security boundaries | counters and tables of policies that nothing in the runtime loop drives |
| Notifications beside those of alerts, detection, risk; safety and modes of the Control Room; its registry, router, results and history | not reached yet; see the plan |

The whole implementation is 124,000 lines, of which the components with control of their own are less than a half; large parts even of these are names of states, copies of strings, statistics
and printing, which no definition here stands for. A model of the rest would be a list of fields.

## 8. Plan

Done, from the centre outwards: the operation queue with its abstract pool; the scheduler and the task manager; the guards of the core; the orchestrator; the event engine; identities with the services around them;
keys and backups; incidents; pipelines; checkpoints and recovery; the state file; resources, devices, streams and routes; startup, dependencies and reload; admission and enforcement; the startup of the Control Room; responses and alerts; roles, permissions and the decision; child processes and the IPC server.

Next:

- Notifications and audit: retries and retention.
- Modes and safety of the Control Room, and the router.
- Proofs, in order of worth: sessions against an abstract specification (a session once ended is never valid again).

## 9. Conventions, and how to run

Names follow the source. History variables (`starts`, `accepted`, `answered`, `asked`, `said`, `recent`, `trial`, `granted`, `resets`, `use`, `admitted`, `refused`, `misses`, `erased`, `lost`, `decayed`, `delivered`, `tangled`, `resolved`, ... and the
field `runs` of a task) record what happened for the properties. No guard reads them, with the exceptions that
`accepted` and `runs` stand for `main.c` handing each id to the scheduler once, and that some carry a bound.

An operator whose name has the form `Original_Something` and whose comment says "mutant" is a faulty
variant, used by nothing in the specification. Putting it in the place of `Original` must make TLC violate
the property that `PROJECT.json` `mutants` pairs with it; that shows that the property can fail.

    tlasany Scheduler.tla
    tlc -workers 2 -config OperationQueue.cfg MCOperationQueue.tla
    tlapm OperationQueueProofs.tla
