# Masterchef in TLA+

Models, model-checking runs and machine-checked proofs for the control plane of
Masterchef: the job queue and what is built on it, the planner, the executor,
the event log, the run store, and the stores behind the HTTP API with their
handlers.

- [The system](#the-system)
- [Modules](#modules)
- [Runs](#runs)
- [Fairness](#fairness)
- [Proofs](#proofs)
- [Known disagreements](#known-disagreements)
- [What is not modelled](#what-is-not-modelled)
- [Plan](#plan)

## The system

Masterchef is one Go process (`cmd/masterchef`): a command line and an HTTP
server around about 150 in-memory stores (`internal/control`), a planner, an
executor and a directory of run records.

```
 HTTP handlers ──► stores (locks, leases, workflows, canaries, dispatch, …)
       │                     │ Enqueue / FailJob / Cancel
       │                     ▼
       ├──────────────► job queue ──► worker goroutine ──► planner ──► executor
       │                     │ publish()                                  │
       │                     ▼                                            ▼
       │              subscribers: workflows, canaries, locks,       run records
       │              backlog SLO, stuck-run detector                 (state)
       ▼
   event log ──► activity streams;  backup and restore of runs and events
```

Every store has a mutex. What makes the system hard to test is what happens
between critical sections:

- the queue calls its subscribers after it has unlocked, from the goroutine that
  made the change, so notifications overtake one another;
- stores that submit jobs learn a job's id when `Enqueue` returns, by when the
  worker may have finished it;
- handlers read several stores one after the other and act on what they read;
- the worker looks at the paused flag, dequeues, and counts itself as running in
  separate steps, while operators pause, drain, cancel and fail jobs;
- loops of schedules and canaries are started and canceled from API calls;
- the run store writes files in place beside readers, restores and crashes;
- most methods read the clock before they wait for their mutex, so that expiry,
  cooldowns and orders by time are judged with a time that is behind;
- fan-outs (alerts, webhooks, event bus) copy their targets, unlock, send, and
  lock again to record what was sent.

`PROJECT.json` lists every part of the source, the hazards with the lines where
they bite, and the source lines each definition stands for.

## Modules

| Module | Source | What it is |
|---|---|---|
| `JobLifecycle` | `control/queue.go` | abstract: the life of a job and its notifications, as clients of the queue see them |
| `JobQueue` | `control/queue.go` | submission, keys, cancel, fail, recover, pause, drain, freeze, emergency stop; the worker's generations, polling and applying |
| `JobQueueHistory` | " | the queue with counters for fairness between classes and for starts while paused |
| `ExecutionLocks` | `control/execution_locks.go`, `server/execution_locks.go` | acquire, enqueue, bind, release, expiry, cleanup |
| `Workflow` | `control/workflow.go` | runs of several steps, driven by job notifications |
| `RunLeases` | `control/run_lease.go`, `server/run_leases.go` | leases, heartbeats, recovery of stale runs |
| `Canary` | `control/canary.go` | loops, results, health |
| `AgentDispatch` | `control/agent_dispatch.go`, `server/agent_dispatch.go` | routing by strategy and mode, jobs under a key, the dispatch log |
| `StuckRecovery` | `control/stuck_recovery.go`, `server/server.go` | automatic and manual checks for stuck jobs |
| `BacklogSLO` | `control/queue_backlog_slo.go`, `server/server.go` | observation of the backlog, alerts with hysteresis, policy |
| `Scheduler` | `control/scheduler.go`, `control/maintenance.go` | loops of schedules, the checks before a dispatch |
| `JobClients`, `Clients` | | composition: locks, workflows, leases, canaries and dispatch, the clients of the queue, one of them at work |
| `Services` | | composition: detector, backlog SLO, scheduler, event log and backups, one of them at work |
| `Planner` | `planner/plan.go` | the topological sort |
| `Executor` | `executor/executor.go`, `cli/cli.go` | strategies, batches, retries, hooks, refreshes, thresholds, handlers |
| `EventLog` | `control/events.go`, `server/activity_stream.go` | hash chain, ring, subscriptions, replay, restore |
| `Backup` | `state/store.go`, `server/backup.go` | run files, snapshots, restore, crash |
| `Grants` | `access_approvals.go`, `jit_grants.go` | break-glass requests with staged quorums, grants |
| `Tokens` | `delegation_tokens.go`, `execution_credentials.go`, `runtime_secrets.go`, `oidc_workload.go`, `identity.go` | things that are issued, used a number of times, and end |
| `Triggers` | `rulebook.go`, `command_ingest.go`, `converge_triggers.go`, `adhoc_commands.go` | what turns an event or a request into a job |
| `Alerts` | `alert_inbox.go`, `notification_router.go`, `webhook.go`, `event_bus.go` | where `recordEvent` sends an event |
| `Associations` | `association.go`, `association_execution.go`, `native_scheduler.go` | associations over schedules, revisions and replay, records of their jobs |
| `Catalog` | `templates.go`, `runbooks.go`, `checklists.go`, `change_records.go`, solution packs | surveys, strict rendering, launches, sign-offs |
| `Syndic` | `syndic.go` | the topology of masters and minions with its read-write lock |
| `Relays` | `edge_relay.go`, `hop_relay.go`, `proxy_minion.go`, `multi_master.go`, `federation.go` | bounded queues, sessions, dispatch through proxies, the cache of job states |
| `Rollouts` | `rollout_controls.go`, `artifact_deployments.go`, `reboot_orchestration.go`, `patch_management.go`, `disruption_budget.go` | plans in waves, windows, budgets |
| `Upgrades` | `gitops_promotion.go`, `upgrade_orchestration.go`, `canary_upgrade.go`, `channels.go`, `failover_drill.go`, `content_channels.go` | changes that advance in steps |
| `Agents` | `agent_attestation.go`, `agent_pki.go`, `agent_checkin.go`, `node_lifecycle.go`, `discovery_inventory.go` | evidence, certificates, nodes |
| `Capacity` | `adaptive_concurrency.go`, `worker_autoscaling.go`, `tenant_limits.go`, `scheduler_partition.go`, `queue_backends.go` | advice and admission from the policy in force |
| `Observations` | `health_probes.go`, `flake_quarantine.go`, `drift_*.go`, `execution_checkpoints.go`, `step_snapshots.go` | what is observed and what is decided from it |
| `Compliance` | `compliance.go`, `policy_bundles.go`, `policy_enforcement_modes.go` | scans, exceptions, continuous scans, bundles |
| `Supply` | `signature_admission.go`, `package_registry.go`, `policy_pull.go`, `offline.go` | admission, publication, certification, pulls |
| `GitOps` | `gitops_*.go`, `deployments.go`, `filesync.go`, `policy/bundle.go` | previews, environments, deployments, file sync, reviews, signed plans |
| `AccessRules` | `rbac.go`, `abac.go`, `delegated_admin.go`, `mtls.go`, `scim.go` | calls that change rules, decisions as operators |

Files without a directory are in `internal/control`; the handlers of the same
names in `internal/server` are part of the module.

Proofs are in `JobQueueProofs`, `LocksProofs`, `WorkflowProofs`,
`JobClientsProofs`, `ClientsProofs`, `ApplyGrantProofs`, `ServiceInvariants` and
`ServicesProofs`. `MCClients`, `MCProgress` and `MCStores` instantiate the modules
for TLC; `JobQueue`, `JobQueueHistory`, `Services` and `Syndic` have no constants
that a configuration could not give, so their runs use them directly, with the
small sets of inputs at the end of each module.

### Conventions

A step is one critical section, or one call outside of any. State variables
keep the names of the Go fields; an id that is not in a map is `"absent"`. A
goroutine in the middle of a handler is a record or an entry that says where it
is (`wpc`, `req`, `acts`, `obs`, `loops`, `request`, `pc`). Ids, keys, names and
payloads are model values; times are either a small clock (`StuckRecovery`,
`BacklogSLO`, the stores, where a call's time may be `MaxWait` behind) or an event
that may happen at any moment (`Expire`, a timer that fires). A Go map that is
ranged over gives its entries in any order. Spellings that the code folds
(`TrimSpace`, `ToLower`, `EqualFold`) are members of a small set with the
function that folds them. A variable `kind` says which of the stores in a module
is at work. Error texts, timestamps that nothing compares and read-only queries are
left out.

Definitions that begin with "Mutant:" in their comment are wrong on purpose:
each replaces the definition after it to show that a property can fail. There is
one for every property of every passing run. Where a property is a conjunction,
its mutant breaks one of the conjuncts; the others are not shown to be breakable
by a mutant kept here.

### How the modules fit together

`JobQueue` implements `JobLifecycle` (property `ImplementsLifecycle`, by a
refinement mapping that derives the phase of a job from the channels and the
worker). The clients of the queue are written against `JobLifecycle`, which they
instantiate on their own `status`, `phase` and `notices`: a client is checked
with everything the queue may do to its jobs, without the queue's channels.

`JobLifecycle` has one notification count per job for cancels and operator
failures, which may be delivered late and in any order; the worker announces the
end of its job itself and takes no other job until every subscriber has
returned. The latter is what lets `Workflow` model the dispatch of the next step
as part of the worker's announcement.

The stores of different clients share nothing but the queue, and what the queue
promises to one does not depend on the others. So `Clients`, `Services`,
`MCProgress` and `MCStores` put one component at work in each behaviour, chosen
in the initial state, and park the variables of the others (`MCClients` adds the
planner and the executor to `Clients`); in `MCStores` the
stores take turns with the variables `v1`, `v2`, …. A property of such a module is
the component's own, guarded by the component at work. Components appear twice
where some properties are about restricted environments (see "quiet" below).

Nearly every handler ends by recording an event. That call changes nothing that
the handler's store reads; what it does is modelled once, in `EventLog` (append
and streams), `Triggers` (rules) and `Alerts` (inbox and fan-outs), and is left
out of the handlers.

## Runs

`tlc -config X.cfg M` in this directory. States are distinct states; every passing
run ends within a few minutes on two workers.

| Run | Module, cfg | States | What it checks |
|---|---|---|---|
| `queue_calls` | `JobQueue`, `QueueCalls` | 151 k | two concurrent callers, full channel, a reused key, cancels, failures, recoveries, freeze, emergency stop: types, `AtMostOnce`, `NoLostJob`, `NoGhostRunning`, `OneJobPerKey`, `SucceededIsFinal`, refinement of `JobLifecycle` |
| `queue_progress` | `JobQueue`, `QueueProgress` | 431 k | pauses, drains, policies, cancels and shutdown under fairness: `PendingServed`, `ShutdownEnds`, `GenerationBounded`, `DrainMeansIdle` |
| `queue_order` | `JobQueueHistory`, `QueueOrder` | 2.4 M | five jobs in three classes: `ServedInTurn`; three jobs with pauses: `PauseLag` |
| `clients` | `MCClients`, `Clients` | 2.9 M | locks, workflows, leases, canaries and dispatch: `LocksExclude`, `StepsFollow`, `EndIsFinal`, `RecoveredStaysLapsed`, `CanaryCounts`, `DispatchedOnce`; the planner on every graph of four resources: `Topological`, `CycleIffRefused`, `LeastOrder`; linear, free and serial runs of the executor: `OutcomeJustified`, `RelationsKept`; types of all of them |
| `services` | `Services`, `Services` | 2.9 M | detector, backlog SLO, scheduler, event log and backups: `RecoveredAccounted`, `AlertsSound`, `DispatchGuarded`, `LogIntegrity`, `BackupIntegrity`, types |
| `progress` | `MCProgress`, `Progress` | 32 k | liveness of clients and controllers: `RegisteredEndsHandled`, `ControllersFinish` |
| `stores` | `MCStores`, `Stores` | 1.6 M | the other stores and their handlers: `AccessAuthorised`, `ChangesAuthorised`, `LimitsHeld`, `AccountsAgree`, `PlansSound`, `EndsStay`, types |
| `queue_drain_fails` | `JobQueue`, `QueueDrainFails` | violated | `SafeDrain` returns while a job is applied |
| `executor_command_line` | `MCClients`, `ExecutorCommandLine` | violated | handlers are missing from plans of the command line |
| `events_full` | `Services`, `EventsFull` | violated | a log that has dropped events does not verify |
| `syndic_locked` | `Syndic`, `SyndicLocked` | violated | after a route through a cycle no update of the topology returns |
| `resume_loads` | `MCStores`, `ResumeLoads` | violated | the config written for a resume is refused by the loader |

### What the properties say

**Queue.** A job is applied at most once whatever mix of cancels, failures,
recoveries and restarts it meets; a pending job is in its channel or in the
worker's hands; the running counter never counts a job that is not being
applied; a key names one existing job, also after a full channel made `Enqueue`
take back what it had entered; success is never undone. A paused queue starts at
most one more job, since the worker may have looked at the flag already. A class
with a waiting job is passed over three times at most, and jobs of one class
start in their order (`ServedInTurn`); the bound is reached with five jobs in
three classes. A pending job is served while the queue is not paused and goes on
(`PendingServed`); that run has two jobs, so it shows that nothing gets stuck, and
`ServedInTurn` is what keeps the low class from waiting behind any number of
others.

Properties of the composed runs are conjunctions of the properties that the
component's module defines, each with its own comment there.

**Locks** (`LocksExclude`, `RegisteredEndsHandled`). While no lock lapses and
none is released by force, one request or unfinished job at a time counts on a
key, a running job has its locks, and the subscriber finds them by the job's id.
With expiry, cleanup and forced releases, no lock disappears from store and
history. A lock bound before its job ends is freed by that end.

**Workflows** (`StepsFollow`, `EndIsFinal`, `RegisteredEndsHandled`). Steps are submitted in order, success means all of them
succeeded, an ended run stays as it is although activity of it is still under
way, a failed run leaves no live job (as long as operators fail no jobs), and a
step registered before its job ends moves the run on.

**Leases, canaries, dispatch** (`RecoveredStaysLapsed`, `ControllersFinish`,
`CanaryCounts`, `DispatchedOnce`). Late heartbeats revive no recovered lease;
every recovered job is failed unless it ends or its holder is back (whether it
was still stale when it was failed is not asked: see Known disagreements). A canary has
one live loop, counts a result once, and is unhealthy exactly at its threshold.
Overlapping dispatches of a config get one job; overrides of an environment
hold against changes of the global mode; the log keeps the latest records. A
dispatch may be answered with a job that has ended: nothing is claimed of that.

**Controllers** (`RecoveredAccounted`, `AlertsSound`, `DispatchGuarded`,
`ControllersFinish`). Overlapping checks count a recovered job once, and a stuck
job that a due check has seen is failed. For each policy
`SetPolicy` accepts the levels are ordered despite the rounding, recoveries
never outnumber alerts, and history and flags agree; with one observer and no
cancels the saturation flag is right once all notifications are handled.
Schedules have one live loop, exceed the backlog limit by less than the number
of loops, and dispatch nothing to a target that was in maintenance during all of
the check; the goroutine of a disabled schedule ends.

**Planner.** The order puts every resource after what it depends on, takes the
least available resource first, and is refused exactly for cyclic graphs.

**Executor** (`OutcomeJustified`, `RelationsKept`). A run succeeds
exactly when nothing failed, and then has one result per resource and per
notified handler; handlers run only after a change; runs stop at the first
failure, or at the failure percentage of the free strategy; steps follow what
they depend on and are refreshed exactly by their changed sources. The serial
strategy is checked on all assignments of four independent resources to four
hosts with batch sizes from none to three. Dependencies across hosts are left
out of it, see Known disagreements.

**Records** (`LogIntegrity`, `BackupIntegrity`). The chain links whatever was dropped or restored, a log that has
dropped nothing verifies, no stream is sent an event twice (one may be missed
altogether, see Known disagreements); a snapshot holds
only complete records, and a restore that returns has brought back all of its
runs, if no other restore was under way.

**Stores.** Each property of the run `stores` is a conjunction over the stores at
work, of properties that relate what a call answers to the calls before it:

- `AccessAuthorised`: a request becomes active only with the quorum of different
  people in each stage; tokens, credentials, secrets and logins are used no more
  often than issued for and never after a call found them over, as far as the
  store keeps what it found (an execution credential that was only too old is
  looked at again by each call, with the time of that call); certificates form
  chains without forks, on evidence that was good; an artifact is admitted by one
  policy; a plan verifies only as it was signed; decisions on access agree with
  one another across scopes, spellings, environments and tenants.
- `ChangesAuthorised`: launches, patches, reboots, disruptions, admissions,
  waivers, auto-corrections, publications, pulls and merges pass the gate that
  decides them, also when the gate changes meanwhile.
- `LimitsHeld`: cooldowns, queue depths, bounded records, advice and shards, with
  overlapping calls.
- `AccountsAgree`: records agree with what happened: every command has its job or
  its dead letter, every event reaches each target once, every enabled
  association has its schedule, every stored digest its file.
- `PlansSound`: the waves of a plan hold every target as often as it was listed
  and no other (a deployment, which drops repetitions, holds it once), in order and
  within their sizes; promotions and upgrades go step by step; a rollback restores
  the channel; a resumed run repeats no step.
- `EndsStay`: what was rejected, revoked, expired, completed or aborted stays so.

Where two calls may really disturb one another, the property names the exception
(two writers of one file, a restore beside another); those are listed under Known
disagreements.

### Bounds

- Two or three jobs are enough for the queue properties that relate two jobs.
  Fairness of polling has five jobs: with four the bound of three is not
  reached. Channels of capacity one make full channels common, capacity two
  gives order within a channel.
- Two callers, requests, observers or loops: all critical sections of one fall
  between those of another. No code counts callers.
- Workflows have three steps (a first, an inner and a last one), or two runs of
  two steps that share the worker.
- Notices per job are bounded by one or two, clocks by a few ticks; every bound
  is a constant (`MaxNotices`, `MaxChecks`, `MaxTicks`, …) used in a guard.
- Stores have one or two items of a kind, enough for one to be confused with the
  other; rings and records keep two, so that the third entry drops one; clocks
  run past the longest time to live, and a call's time is at most one tick
  behind. Fleets have four hosts in two failure domains and two classes, one of
  them unhealthy and one that needs a reboot. Plans are made for listings with and
  without repetitions; what is said of a host is the same wherever it is listed.
- `Agents` has two agents, evidence and certificates taking turns. Evidence has two
  callers, so that a policy or the evidence changes between the check and the
  request it lets through. Certificates have two signing requests and three
  certificates: a chain of three, or two agents of which one renews twice. `RenewExpiring`
  ranges over the map it grows and may or may not meet what it added; one that
  comes to the bound on certificates ends there, and leaves the rest as it was.
- `Associations` has two associations with four revisions between them, so that
  one is replayed to a revision that is neither its first nor its last, and three
  schedules. `Triggers` records the time of every firing of a rule, and
  `CooldownKept` compares each with all before it. In `Compliance` a year, the
  longest an exception may last, is one tick of the clock, and calls work with a
  time they read before they took the lock.
- Symmetry is used for callers, requests, jobs, observers, appenders, runs and
  agents (`Symmetry` in the module of the run), in runs without liveness
  properties only.

Deadlock is checked for the queue, which has an explicit idle step where all
jobs are over and nobody calls. The other runs, which have `CHECK_DEADLOCK
FALSE`, stop when their bounds are used up.

"Quiet" instances: `quiet locks` without expiry, forced release, operator
failures and reused keys; `quiet workflows` without operator failures; `quiet
backlog` with one observer and no cancels. Outside of these the properties
guarded by them fail, for the reasons listed under Known disagreements.

## Fairness

`JobQueue!Fairness`, `MCProgress!FairSpec` and `Syndic!FairSpec` assume that a goroutine that can
go on does (the Go scheduler is preemptive and `sync.Mutex` does not starve),
that `ApplyPath` returns (each step runs under a timeout), and that timers fire.
Nothing is assumed of callers: no one has to submit, cancel, resume or renew.
The only strong fairness is on the exit of a scheduler loop, whose `select`
chooses at random between a fired timer and a context that stays done.

## Proofs

Checked by TLAPS for all values of the constants; `PROJECT.json` lists the
results. A leaf goes to Zenon unless it names another prover (`USE Zenon` at the
head of each module); leaves with arithmetic or sequences name SMT.

### The job queue (`JobQueueProofs`)

`QueueInv` is inductive, and from it follow `TypeCorrect`, `AppliedAtMostOnce`,
`NothingLost`, `NoGhosts`, `SuccessIsFinal` and `KeysAreUnique`. None of these
properties is inductive alone. `QueueInv` adds

- `LaneInv`: an id in a channel has the class of the channel, has not been
  applied, and is not the one the worker holds;
- `LaneOrder`: ids in a channel increase, so that none is there twice;
- `FreshInv`: ids above `nextID` are unknown and not applied;
- `HeldInv`: where the worker is determines the status and the applications of
  the id it holds;
- `RunningInv`: only the held job is running.

`Enqueue` appends a fresh id, greater than all before, which keeps the order
and hence uniqueness; the worker removes the head, which by `LaneOrder` is
nowhere else. The assumptions are those of `JobQueue` on its constants.

The worker over time needs more:

- `GenerationsBounded`: a generation keeps to the policy it started with.
  `GenerationInv` adds that the count of jobs is zero where a generation begins.
- `DrainsWait`: without operator failures and recoveries a successful safe-drain
  leaves no job applying, since the job being applied is then counted exactly
  once (`Counted`). The two hypotheses on `Ops` are needed: the run
  `queue_drain_fails` shows what happens without them.
- `PauseHolds`: at most one start between a pause and a resume. `PauseInv` says
  that after this start the worker is past its look at the flag, and comes back
  to it before it takes another job.
- `TurnsTaken`: a waiting class is passed over three times at most, and a class
  is served in order. `BypassInv` bounds the times a class was passed over plus
  its `Distance` from the poll's start index by three: whenever another class is
  served the distance shrinks. `HeldFirst` says that the worker's job is older
  than those waiting in its class.

`LivesImplemented`: `JobQueue` implements `JobLifecycle`, for finitely many
clients. The mapping keeps `status`; the phase of a job follows from the channels
and the worker, and its notices are the calls that have still to announce it.
Each step changes the phase or the notices of one job at most: enqueueing maps to
`Submit`, the calls to `Cancel` and `Fail`, their announcements to `Deliver`, the
worker's steps to `Work` and `Announce`, and the others to stutters. `QueueInv` is
needed where the worker takes a job: the id it holds is in no channel, so that
its phase is not "queued" any more.

### Locks and workflows (`LocksProofs`, `WorkflowProofs`)

For any keys, jobs and requests one request or unfinished job at a time counts
on a key (`LocksExcludeConflicts`), a running job has the locks it was granted
(`RunsAreCovered`) and they are found by its id (`BoundLocksFound`). The
hypothesis `Quiet` says that no lock lapses, no operator releases a lock or fails
a job, and no idempotency key is reused; without it the properties are false (see
below). `LockInv` adds that `byKey` and `byJob` point to one another, that a
request under way has an unbound lock of its own, and that an ended job stays
ended. With every operation of the store, types are kept (`LocksTyped`) and no
lock is lost (`LocksAccounted`): `StoreInv` adds that a lock that expired in place
is already in the history.

For any workflows and any number of activities under way a run succeeds only
with all of its steps (`SuccessIsComplete`), submits a step only after the one
before has succeeded (`StepsTakenInOrder`) and keeps its status once it has ended
(`EndsAreFinal`). The hypothesis `StepsBounded` says that the lists of steps are
sequences within `MaxSteps`. `WorkflowInv` says of every activity between two
critical sections what is true of its step: the ones before have succeeded, a job
it registers was submitted, and one that ends the run has all steps behind it.

`FailedRunsStop`: a failed run leaves no job pending or running, as long as
operators fail no job by hand (`Unforced`). `failRun` cancels nothing, so this
rests on a run being pursued from one place at a time: in `QuietInv` a
dispatching activity is the only one of its run and none of the later steps has a
job, a run about to fail has no live job, and a job whose successor was submitted
has been announced or is being announced. `RunsTyped` has its own invariant
`TypesInv`, by which the current step keeps to the steps of the run's workflow.

### The clients together (`JobClientsProofs`, `ClientsProofs`)

`JobClientsProofs` has the inductive invariants of three clients under the
substitutions of `JobClients`:

- `LeaseInv`: types, and a recovered lease has lapsed;
- `CanaryInv`: a loop about to register holds a submitted job that no reference
  names and no result was counted for, and no two loops hold the same job; a
  referenced job is not counted yet. With this each result is counted once, and
  the failures and the health change together;
- `DispatchInv`: keys name existing jobs, two paths never the same one; a request
  past its routing carries the strategy that was read for it; the log is within
  its size and its ids are consecutive up to the number recorded.

`ClientsProofs` is about `Clients`, the composition that the run `clients` checks,
and states its properties there: `ClientsExclude`, `ClientsFollow`, `ClientsEnd`,
`LeasesStayLapsed`, `CanariesCount`, `DispatchesOnce` and `ClientsTyped`. For leases,
canaries and dispatch, `WorkInv` is the invariant of whichever client is at work.
For locks and workflows the theorems of `LocksProofs` and `WorkflowProofs` are
instantiated, four times in all. An instance of a proof module is not the
instance of the module it extends, although they agree definition by definition;
the lemmas `SameQuietLocks`, `SameLocks`, `SameQuietWorkflow` and `SameWorkflow`
say so, and the `…Linked` lemmas turn a behaviour of `Clients` into one of the
client at work. `Quiet`, `Bounded`, `StepsBounded` and `Unforced` then follow from the
assumptions of `Clients` on its constants. This module takes the longest to
check, about ten minutes: each obligation carries the four instances.

### Planner and executor (`ApplyGrantProofs`)

For any finite set of ids, numbers that stand for the order of the names, and
any relations the order is topological (`PlanOrder`, from `PlanInv`: the in-degree
of a resource is the number of its predecessors not yet in the order); a plan is
refused exactly if the graph has a cycle (`PlanCycles`, from `CycleInv`), where a
cycle is a non-empty set of resources each with a predecessor in the set; and the
plan is the least of all topological orders (`PlanIsLeast`). `LeastInv` says of
every order that it agrees with the plan so far, or is greater at the first place
where they differ: the queue holds every resource that could come next, and
`Build` takes the least.

For any set of plans of the shape that `Executor` assumes, every run justifies its
outcome (`RunJustified`) and keeps the relations between its steps
(`RunRelations`). The order of the steps is fixed when a run begins, so `StepsOK`
is proved once, from what sorting and cutting into batches compute: the hosts are
the enumeration of a finite set that puts the smaller host, or the smaller place
in its domain, first. `RunInv` then ties the results recorded so far to the step
the run is at: a result per step passed (`RecordOK`, `PositionOK`), a failure
in the outcome exactly when one is recorded (`BlameOK`), a handler notified only by a
recorded change (`NotifiedOK`), and no failure behind a step still to run that the
strategy does not tolerate (`ToleratedOK`).

### The services (`ServiceInvariants`, `ServicesProofs`)

`ServiceInvariants` has the inductive invariants of detector, scheduler and event
log, `ServicesProofs` those of backlog SLO and backups and the theorems about
`Services`, the composition that the run `services` checks: `RecoveriesCount`,
`BacklogAlerts`, `SchedulesGuarded`, `LogHolds`, `BackupsWhole`, `ServicesTyped`.

- `DetectorInv`: jobs in the hands of a check have been failed by it, and a failed
  job is over, so no second check finds it.
- `BacklogInv`: an open alert has not been answered; while the latest observation
  is undisturbed it is the only one between reading and update (`FreshInv`).
- `SchedulerInv`: the live loops are those with a stored cancel function; pending
  jobs and loops about to enqueue together stay below the highest limit plus the
  number of loops; the targets that a check has passed were out of maintenance at
  some time during it.
- `LogInv`: until the ring is full it holds all events sealed since the log was
  empty; what a client has received, what waits in its channel and what appenders
  have yet to send to it are different events.
- `BackupInv`: only runs saved in full are whole on disk, in a snapshot or in a
  request's hands; a restore that is alone finds the files as it has left them.

### Break-glass access (`ApplyGrantProofs`)

One of the stores that the run `stores` checks is proved for itself, since the
composition of all seventeen is more than the prover carries. It shares a module
with the planner and the executor and uses nothing of theirs.

`QuorumsMet`: a request that was ever active has the approvals of different people
in every stage, and a grant that names a request came after its activation.
`RefusalsLast`: a decision against a request stays, and a grant that a validation
has refused passes no later one. `GrantsInv` says of every request that the stages
it has passed have their votes, each of another person, and that one that was
given an end is past the last; a refused grant has been revoked,
so that a caller with an older time is refused too. The hypothesis `GrantInputs`
says that lifetimes are numbers and stages sequences of integers, which `CreatePolicy`
turns into counts of at least one.

### What is only model-checked

- Liveness (`PendingServed`, `ShutdownEnds`, the run `progress`): fairness and
  `ENABLED` are out of reach of the prover.
- The properties of the run `stores` as they stand, conjunctions over seventeen
  stores, and the stores other than `Grants`. The parents in the
  syndic topology would need induction over the ancestors of a node, which the
  prover cannot do.

## Known disagreements

Five are runs, with the quoted text under `findings` in `PROJECT.json`. The
others were met by the same models with a wider environment or a stronger
property; each says under which condition the checked property holds.

| Where | What the code does |
|---|---|
| `control/queue.go:216` (run `queue_drain_fails`) | `FailJob` and `RecoverStuckJobs` decrement `running` while the job is still being applied, or was only pending; `SafeDrain` then succeeds while `ApplyPath` runs |
| `control/queue.go:303` | a job dequeued before the pause starts after `SafeDrain` has returned |
| `control/queue.go:262` | a pending job failed by `FailJob` is still started and may end as succeeded; only canceled ids are dropped |
| `control/queue.go:118` | jobs queued before an emergency stop are applied during it (`features.md:284`: "Global emergency stop to halt new applies") |
| `control/execution_locks.go:68` | `Acquire` over a lapsed lock keeps the old job's `byJob` entry, so the end of the old job releases the new holder's lock |
| `server/execution_locks.go:95` | a job that ends before `BindJob` leaves its lock held until the TTL |
| `control/workflow.go:229` | a step whose job ends before it is entered in `jobRefs` leaves its run in running for ever |
| `control/canary.go:131` | the result of a job that ends before it is entered in `jobRefs` is not counted |
| `server/run_leases.go:105` | a holder that acquires its lease again between `RecoverExpired` and `FailJob` has its job failed although the lease is active |
| `server/server.go:5238` | the detector runs only when some job changes, so the last stuck job is not found |
| `control/queue.go:262`, `server/server.go:5239` | canceled ids leave the queue without a notification, and the saturation flag stays up over an empty queue |
| `server/server.go:5299` | a backlog that drains through the band between recovery level and threshold never announces its recovery |
| `executor/executor.go:835` | the serial strategy orders by batches of hosts and runs a resource before one on a later host that it depends on |
| `cli/cli.go:852` (run `executor_command_line`) | the filtered plan has no handlers, so a notified handler ends the run as failed |
| `executor/executor.go:204` | a change made by an attempt that then failed notifies nobody if the next attempt is skipped by its guard |
| `control/events.go:173` (run `events_full`) | the first event the ring drops makes every later integrity report invalid |
| `control/events.go:82` | a client that leaves while an event is being sent to it makes the sender send on a closed channel |
| `server/activity_stream.go:70` | an event recorded between replay and subscription reaches no client |
| `state/store.go:53` | a crash while a run is saved leaves a file that no later listing gets past |
| `server/backup.go:32`, `:258` | a snapshot may hold the event of a run without its record; restoring a snapshot of the runs alone empties the event log |
| `state/store.go:110` | of two overlapping restores one reports runs as restored that the other has removed |
| `server/agent_dispatch.go:135` | a config that was dispatched once is answered with its ended job and not run again; a request that read the mode before it changed still goes the old way |
| `control/syndic.go:130` (run `syndic_locked`) | the answer "cyclic parent topology detected" keeps the read lock; every later update, and every call behind it, waits for ever |
| `server/execution_checkpoints.go:169` (run `resume_loads`) | a resume filters `depends_on` only, so a `require` or `subscribe` of a finished step makes the loader refuse the config |

Met in the stores, by module:

- `Tokens`: `required_scope` of a delegation token is only trimmed while granted
  scopes are lower-cased; `CompleteLogin` looks neither at whether the provider is
  still enabled nor at the address the login was started for.
- `Triggers`: when the condition of a rule is in error, `Evaluate` returns no
  matches although earlier rules are marked as triggered; an `Enqueue` that fails
  leaves a command both accepted and dead-lettered; the envelope's key is trimmed
  and the queue gets the untrimmed one; a rule or webhook registered as disabled
  is enabled.
- `Alerts`: suppressed alerts are notified too; a severity is part of the
  fingerprint, so that `chooseMaxSeverity` never raises one; a target requested
  disabled is enabled for a moment.
- `Catalog`: the template function `default` still reports its variable as
  missing, so strict mode refuses it; a strict template launched through a runbook
  is not rendered; change records take decisions in any status; a deprecation
  between creation and approval of a pack's runbook is overwritten.
- `Associations`: notifications of one job may overtake one another in the record;
  `Replay` keeps the association's backend.
- `Relays`: the dispatch key of a proxy is the same for good, so that a second
  dispatch is recorded as queued and runs nothing; hop sessions never end; the
  depth of an edge queue counts expired messages until somebody looks.
- `Rollouts`: the planners of rollouts, reboots and patches read the map of
  policies without the lock; `max_unavailable` of a rollout is ignored; a reboot
  plan includes unhealthy hosts; plans of rollouts, reboots and patches keep
  repeated targets, so that a host may be in two waves.
- `Upgrades`: a wave may be larger than the unavailability limit; overlapping
  canary upgrades can roll back to the channel that regresses; a drill without a
  measured recovery passes; a remote's token is hashed untrimmed when upserted and
  trimmed when rotated.
- `Agents`: rotation and renewal do not look at attestation; a tightened policy
  leaves stored evidence good; `RenewExpiring` ranges over the map it grows;
  an enrolment keeps the status of a quarantined node.
- `Capacity`: parallelism can be raised with degraded hosts for the reason
  "healthy fleet".
- `Observations`: probe checks observed earlier overwrite newer ones; a test taken
  out of quarantine returns with its next observation, even a pass; suppressions
  apply to drift before them; remediation ignores `auto_enqueue`; a second resume
  overwrites the file of the first.
- `Compliance`: `LastScanID` may go backwards, and a configuration disabled during
  its scan is scanned all the same; continuous scans carry no team, so scorecards
  miss them; a confidence of 0 counts as not given.
- `Supply`: a key whose scopes are all unknown is good for every scope; the
  publication gate reads the signing policy twice; a certification is not judged
  again when the policy tightens; pulls from the control plane are always
  verified; a dry-run sync resets the count of synced artifacts.
- `GitOps`: keys of environments, deployments and reconciles are the same for good,
  so later requests report the old job; a preview whose job is refused stays
  active without one; a deployment from an unknown source queues a job before it
  is refused; two materialisations of one path may leave a digest that is not the
  file's; a sync that fails leaves a partly copied tree and never removes files;
  an unknown gate id passes as no gate.
- `AccessRules`: policies of equal priority and creation time are decided by the
  order of a map; a condition with an empty value matches a missing key; the roles
  of a provisioned team are not checked to exist.

Several getters (upgrade plans, artifacts, queue backends, checkpoints, flaky
tests, review gates) read through a pointer after `RUnlock`. The models treat each
as one step, which is what it is without a concurrent change of the same item.

## What is not modelled

`PROJECT.json` lists each part with the reason. In short: pure functions of a
request (configuration, variables, cryptography, migration, quality gates), views
and documentation, stores that only insert, replace and list, and transports,
which are external: what they do to a host is a choice among the results they
return. Most of the remaining stores have one critical section per call and no
state that a later call must agree with.

Within the modelled parts, left out are: `List*` and other queries, the texts of
errors and events, retry delays and timeouts of steps (an attempt fails at any
time), filebucket copies and session records of the executor, the retention of
object-store snapshots, and persistence of anything but runs (nothing else is
persisted).

## Plan

1. Recursive algorithms as operators: `config/expand.go`, variable precedence
   (`control/variables.go`), `planner/graph_query.go`, checked against reference
   definitions over bounded inputs.
2. A mutant for each conjunct of the grouped properties.
3. Proofs about more of the stores: `CooldownKept` of `Triggers`, `WavesCover` of
   `Rollouts`, the uses of `Tokens`, the chains of certificates of `Agents`.
4. Liveness of the fan-outs of `Alerts` and of the relays' delivery.
