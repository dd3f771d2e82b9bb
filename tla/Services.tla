------------------------------ MODULE Services -------------------------------
(***************************************************************************)
(* The services around the job queue: the stuck-run detector, backlog      *)
(* tracking, the scheduler, the event log with its streams, and the run    *)
(* store with its backups.                                                 *)
(*                                                                         *)
(* They share nothing but the queue and the event log, of which each       *)
(* module has the part it looks at; so a behaviour has one of them at      *)
(* work, chosen at the start, and the variables of the others are parked.  *)
(***************************************************************************)
EXTENDS StuckRecovery, Scheduler, EventLog, TLC

CONSTANTS
  BacklogPolicies, Threshold, HistoryLimit, TickSeconds, MaxTicks, MaxPending, MaxCancels, MaxChanges,  \* BacklogSLO
  Runs, Requests, MaxSnapshots, MaxCrashes                                                              \* Backup

ASSUME BacklogAssumption ==
  /\ \A p \in BacklogPolicies :
       p.threshold \in Int /\ p.warning \in Int /\ p.recovery \in Int /\ p.projection \in Int
  /\ Threshold \in Nat \ {0} /\ HistoryLimit \in Nat \ {0} /\ TickSeconds \in Nat
  /\ {MaxTicks, MaxPending, MaxCancels, MaxChanges} \subseteq Nat

ASSUME BackupAssumption == MaxCrashes \in Nat

VARIABLES
  service,                                         \* the one at work
  canceled, cancels, changes, samples, satActive, warnActive, history, log, alerts, recoveries, alone,  \* BacklogSLO
  file, worker, snapshots, request, short, crashes                                                      \* Backup

\* Backlog tracking has the clock, the observers and the policy of the detector
\* and the scheduler's queue, and backups have the log's events, under the same
\* names; so these two are instances.
SLO == INSTANCE BacklogSLO WITH Policies <- BacklogPolicies
Snapshots == INSTANCE Backup

-----------------------------------------------------------------------------
(* Parking the variables of the services that are not at work *)

observerVars == <<clock, unobserved, policy, obs>>
ownDetector == <<status, startedAt, lastCheck, totalChecks, totalRecovered, lastRecovered, recoveredJobs>>
ownBacklog ==
  <<canceled, cancels, changes, samples, satActive, warnActive, history, log, alerts, recoveries, alone>>
ownScheduler ==
  <<enabled, cancel, loops, maxBacklog, maxExecutionCost, unhealthy, maintenance, stopped, steady, highest, down>>
ownLog ==
  <<nextIndex, lastHash, subscribers, channel, closed, sending, stream, received, appended, backup, panicked>>
ownBackup == <<file, worker, snapshots, request, short, crashes>>
vars ==
  <<service, pending, events, observerVars, ownDetector, ownBacklog, ownScheduler, ownLog, ownBackup>>

Off == "off"
NoObserver == clock = Off /\ unobserved = Off /\ policy = Off /\ obs = Off
NoDetector ==
  /\ status = Off /\ startedAt = Off /\ lastCheck = Off /\ totalChecks = Off /\ totalRecovered = Off
  /\ lastRecovered = Off /\ recoveredJobs = Off
NoBacklog ==
  /\ canceled = Off /\ cancels = Off /\ changes = Off /\ samples = Off /\ satActive = Off /\ warnActive = Off
  /\ history = Off /\ log = Off /\ alerts = Off /\ recoveries = Off /\ alone = Off
NoSchedules ==
  /\ enabled = Off /\ cancel = Off /\ loops = Off /\ maxBacklog = Off /\ maxExecutionCost = Off /\ unhealthy = Off
  /\ maintenance = Off /\ stopped = Off /\ steady = Off /\ highest = Off /\ down = Off
NoLog ==
  /\ nextIndex = Off /\ lastHash = Off /\ subscribers = Off /\ channel = Off /\ closed = Off /\ sending = Off
  /\ stream = Off /\ received = Off /\ appended = Off /\ backup = Off /\ panicked = Off
NoBackup ==
  file = Off /\ worker = Off /\ snapshots = Off /\ request = Off /\ short = Off /\ crashes = Off

LogAloneInit ==
  /\ service = "log" /\ LogInit
  /\ pending = Off /\ NoObserver /\ NoDetector /\ NoBacklog /\ NoSchedules /\ NoBackup

Init ==
  \/ /\ service = "detector" /\ DetectorInit
     /\ pending = Off /\ events = Off /\ NoBacklog /\ NoSchedules /\ NoLog /\ NoBackup
  \/ /\ service = "backlog" /\ SLO!Init
     /\ events = Off /\ NoDetector /\ NoSchedules /\ NoLog /\ NoBackup
  \/ /\ service = "scheduler" /\ SchedulerInit
     /\ events = Off /\ NoObserver /\ NoDetector /\ NoBacklog /\ NoLog /\ NoBackup
  \/ LogAloneInit
  \/ /\ service = "backup" /\ Snapshots!Init
     /\ pending = Off /\ NoObserver /\ NoDetector /\ NoBacklog /\ NoSchedules /\ NoLog

LogAloneNext ==
  /\ service = "log" /\ LogNext
  /\ UNCHANGED <<service, pending, observerVars, ownDetector, ownBacklog, ownScheduler, ownBackup>>

Next ==
  \/ /\ service = "detector" /\ DetectorNext
     /\ UNCHANGED <<service, pending, events, ownBacklog, ownScheduler, ownLog, ownBackup>>
  \/ /\ service = "backlog" /\ SLO!Next
     /\ UNCHANGED <<service, events, ownDetector, ownScheduler, ownLog, ownBackup>>
  \/ /\ service = "scheduler" /\ SchedulerNext
     /\ UNCHANGED <<service, events, observerVars, ownDetector, ownBacklog, ownLog, ownBackup>>
  \/ LogAloneNext
  \/ /\ service = "backup" /\ Snapshots!Next
     /\ UNCHANGED <<service, pending, observerVars, ownDetector, ownBacklog, ownScheduler, ownLog>>

Spec == Init /\ [][Next]_vars

\* The event log alone.
LogAloneSpec == LogAloneInit /\ [][LogAloneNext]_vars

-----------------------------------------------------------------------------
(* Properties, as the modules of the services define them *)

\* The type of every variable of the service at work.
TypeOK ==
  /\ service = "detector" => DetectorTypeOK
  /\ service = "backlog" => SLO!TypeOK
  /\ service = "scheduler" => SchedulerTypeOK
  /\ service = "log" => LogTypeOK
  /\ service = "backup" => Snapshots!TypeOK

\* The detector's TotalRecovered accounts once for every job it has failed,
\* also when automatic and manual checks overlap.
RecoveredAccounted == service = "detector" => Accounted

\* Backlog alerts are sound: for every policy SetPolicy accepts the recovery
\* level lies below the threshold despite the rounding, every recovery answers
\* an alert of its own although observers apply their snapshots out of order,
\* the last entry of the history agrees with the flags, and the saturation
\* flag is right whenever every notification has been handled, the last of
\* them by an observer that no other overtook.
AlertsSound ==
  service = "backlog" => /\ SLO!LevelsOrdered
                         /\ SLO!RecoveryAnswersAlert
                         /\ SLO!LatestAgrees
                         /\ SLO!FreshWhenQuiet

\* Schedules are dispatched under guard: an enabled schedule has one loop that
\* is not canceled, the one Disable would cancel; the loops exceed the backlog
\* limit by less than their number, although allowDispatch and Enqueue are not
\* atomic; and a target in maintenance for all of the check keeps its schedules
\* from enqueueing, although targets are looked up one by one.
DispatchGuarded ==
  service = "scheduler" => /\ OneLiveLoop
                           /\ OvershootBounded
                           /\ MaintenanceBlocks

\* The retained events form one hash chain that ends in the state the next
\* event is sealed from, whatever the ring dropped or Replace restored; until
\* the ring has dropped an event VerifyIntegrity accepts the log; and no client
\* of the activity stream is sent an event twice.
LogIntegrity ==
  service = "log" => ChainLinked /\ VerifiesUntilFull /\ NoDuplicates

\* No snapshot holds a run before its record has been written in full, also
\* when a save, a restore or a crash is under way while the runs are listed;
\* and when a restore returns, every run of its snapshot is on disk in full, if
\* no other restore was under way.
BackupIntegrity == service = "backup" => Snapshots!SnapshotWhole /\ Snapshots!RestoredComplete

-----------------------------------------------------------------------------
(* Inputs of the small instances *)

\* A stricter policy, a disabled one, and two that SetPolicy refuses.
SmallPolicies ==
  {[enabled |-> TRUE, maxAge |-> 1, cooldown |-> 2], [enabled |-> FALSE, maxAge |-> 1, cooldown |-> 1],
   [enabled |-> TRUE, maxAge |-> 0, cooldown |-> 1], [enabled |-> TRUE, maxAge |-> 1, cooldown |-> -1]}

\* Two legal policies (the first rounds the warning level up from zero) and
\* two that SetPolicy refuses.
SmallBacklogPolicies ==
  {[threshold |-> 1, warning |-> 50, recovery |-> 10, projection |-> 30],
   [threshold |-> 2, warning |-> 99, recovery |-> 98, projection |-> 3600],
   [threshold |-> 2, warning |-> 90, recovery |-> 100, projection |-> 60],
   [threshold |-> 0, warning |-> 90, recovery |-> 80, projection |-> 60]}

\* A schedule with a host and a cluster, and a costly low-priority one.
SmallTargets == {<<"host", "h1">>, <<"cluster", "h1">>}
SmallOptions ==
  [s1 |-> [low |-> FALSE, cost |-> 1, host |-> "h1", targets |-> <<<<"host", "h1">>, <<"cluster", "h1">>>>],
   s2 |-> [low |-> TRUE, cost |-> 2, host |-> "h1", targets |-> << >>]]
SmallCapacities == {<<1, 0>>, <<-1, 1>>}

\* Goroutines stand for one another, and so do jobs, which give the streams and
\* the runs their names.
Symmetry == Permutations(Observers) \cup Permutations(JobIds)
=============================================================================
