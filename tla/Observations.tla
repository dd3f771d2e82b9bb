---------------------------- MODULE Observations -----------------------------
(***************************************************************************)
(* What is observed of hosts, tests and runs and what is decided from it:  *)
(* health probes and their gate, the quarantine of flaky tests, drift with *)
(* its suppressions and allowlists, the resumption of a run from a         *)
(* checkpoint and the snapshots of steps (health_probes.go,                *)
(* flake_quarantine.go, drift_policies.go, drift_slo.go,                   *)
(* execution_checkpoints.go and step_snapshots.go of internal/control)     *)
(* with the handlers of internal/server, drift_remediation.go,             *)
(* drift_insights.go and drift_history.go included.                        *)
(*                                                                         *)
(* The variable kind says which store is at work.                          *)
(***************************************************************************)
EXTENDS Integers, Sequences, FiniteSets, SequencesExt, FiniteSetsExt

CONSTANTS
  Targets,         \* probe targets, and tests
  Percents,        \* thresholds in percent
  FlakePolicies,   \* [auto, min, rate, row]
  MaxObserved,     \* bound: observations of tests, and snapshots
  Runs,            \* recorded runs, newest first: [at, failed, results], a result [host, type, changed, skipped]
  Scopes,          \* what entries cover: [of, value], of "all", "host" or "type"
  MaxEntries,      \* bound: suppressions and allowlist entries made
  MaxClock,        \* bound: the clock
  SLOs,            \* drift policies: [target, window, min, auto]
  Windows,         \* windows, in hours, that requests bring
  Hosts, Types,    \* the hosts and the types of resources, each in the order of their names
  HistoryLimit,    \* entries of the history asked for
  History,         \* evaluations, and snapshots, that are kept
  Configs,         \* configurations: [steps, depends, require], the steps in the order of their plan
  Checkpoints,     \* checkpoints: [order, step], order 0 when only the name is given
  MaxResumes       \* bound: resumptions asked for

VARIABLES
  kind,
  clock,
  items,     \* probes, tests, drift entries, the resume file, or the snapshots in order
  policy,    \* of tests or of drift; the checkpoint
  pc,        \* drift: the evaluation in progress; resume: the queued jobs
  log        \* what was decided, and what was observed

vars == <<kind, clock, items, policy, pc, log>>

Idle == [busy |-> FALSE]
None == [made |-> FALSE]
NoFile == [written |-> FALSE]

-----------------------------------------------------------------------------
(* What the stores hold, and what they hold at first *)

\* A target with the check recorded last for it.
HealthProbeTargets == [enabled : BOOLEAN, status : {"unchecked", "healthy", "degraded", "unhealthy"}]
HealthProbeGateResults == [made : {TRUE}, asked : SUBSET Targets, percent : Int, allow : BOOLEAN]
FlakePolicySet == [auto : BOOLEAN, min : Nat \ {0}, rate : 0..100, row : Nat \ {0}]
FlakeCases == [passes : Nat, failures : Nat, row : Nat, quarantined : BOOLEAN]
DriftEntries == [id : 1..MaxEntries, list : {"suppression", "allowlist"}, scope : Scopes, until : 1..MaxClock + 1]
DriftSLOPolicySet == [target : 1..100, window : Nat, min : Nat, auto : BOOLEAN]
ExecutionCheckpoints == [order : Int, step : STRING]

NewHealthProbeStore == <<>>
NewFlakeQuarantineStore ==
  [cases |-> [t \in Targets |-> [passes |-> 0, failures |-> 0, row |-> 0, quarantined |-> FALSE]],
   policy |-> [auto |-> TRUE, min |-> 10, rate |-> 5, row |-> 3]]
NewDriftPolicyStore == {}
NewDriftSLOStore == [target |-> 99, window |-> 24, min |-> 50, auto |-> TRUE]
NewStepSnapshotStore == [items |-> <<>>, byID |-> {}]

Init ==
  /\ kind \in {"probes", "tests", "drift", "resume", "snapshots"}
  /\ clock = 0
  /\ items = CASE kind = "probes" -> NewHealthProbeStore
               [] kind = "tests" -> NewFlakeQuarantineStore.cases
               [] kind = "drift" -> NewDriftPolicyStore
               [] kind = "resume" -> NoFile
               [] kind = "snapshots" -> NewStepSnapshotStore.items
  /\ policy = CASE kind = "tests" -> NewFlakeQuarantineStore.policy [] kind = "drift" -> NewDriftSLOStore [] OTHER -> None
  /\ pc = IF kind = "resume" THEN <<>> ELSE Idle
  /\ log = CASE kind = "probes" -> None [] kind = "resume" -> {} [] kind = "snapshots" -> NewStepSnapshotStore.byID [] OTHER -> <<>>

-----------------------------------------------------------------------------
(* Health probes: a target has a check once one was recorded. *)

UpsertTarget(t, enabled) ==
  items' = [u \in DOMAIN items \cup {t} |->
              IF u # t THEN items[u]
              ELSE [enabled |-> enabled, status |-> IF t \in DOMAIN items THEN items[t].status ELSE "unchecked"]]

handleHealthProbes ==
  /\ kind = "probes"
  /\ \E t \in Targets, enabled \in BOOLEAN : UpsertTarget(t, enabled)
  /\ log' = None
  /\ UNCHANGED <<kind, clock, policy, pc>>

\* The check recorded last counts, whenever it was observed.
RecordCheck(t, status) ==
  /\ t \in DOMAIN items
  /\ items' = [items EXCEPT ![t].status = status]

handleHealthProbeChecks ==
  /\ kind = "probes"
  /\ \E t \in Targets, status \in {"healthy", "degraded", "unhealthy"} : RecordCheck(t, status)
  /\ log' = None
  /\ UNCHANGED <<kind, clock, policy, pc>>

EvaluateGate(asked, percent) ==
  LET min == IF percent <= 0 \/ percent > 100 THEN 100 ELSE percent
      checked == {t \in DOMAIN items : (asked = {} \/ t \in asked) /\ items[t].enabled /\ items[t].status # "unchecked"}
      healthy == {t \in checked : items[t].status = "healthy"}
  IN checked # {} /\ (Cardinality(healthy) * 100) \div Cardinality(checked) >= min

\* The decision is kept until the targets change.
handleHealthProbeGateEvaluate ==
  /\ kind = "probes"
  /\ \E asked \in SUBSET Targets, percent \in Percents :
       log' = [made |-> TRUE, asked |-> asked, percent |-> percent, allow |-> EvaluateGate(asked, percent)]
  /\ UNCHANGED <<kind, clock, items, policy, pc>>

-----------------------------------------------------------------------------
(* Flaky tests.  The flake rate is failures over passes and failures, its  *)
(* threshold in percent; "flaky" counts as a failure.                      *)

\* A policy without a threshold in range is refused, other numbers left out have defaults.
SetFlakePolicy(in) ==
  /\ in.rate \in 0..100
  /\ policy' = [in EXCEPT !.min = IF @ <= 0 THEN 10 ELSE @, !.row = IF @ <= 0 THEN 3 ELSE @]

handleFlakePolicy ==
  /\ kind = "tests"
  /\ \E in \in FlakePolicies : SetFlakePolicy(in)
  /\ UNCHANGED <<kind, clock, items, pc, log>>

AutoQuarantined(t, p) ==
  LET total == t.passes + t.failures
  IN p.auto /\ total >= p.min /\ (t.failures * 100 >= p.rate * total \/ t.row >= p.row)

Observe(t, pass) ==
  LET seen == [items[t] EXCEPT !.passes = IF pass THEN @ + 1 ELSE @,
                               !.failures = IF pass THEN @ ELSE @ + 1,
                               !.row = IF pass THEN 0 ELSE @ + 1]
  IN items' = [items EXCEPT ![t] = [seen EXCEPT !.quarantined = @ \/ AutoQuarantined(seen, policy)]]

handleFlakeObservations ==
  /\ kind = "tests"
  /\ Len(log) < MaxObserved
  /\ \E t \in Targets, pass \in BOOLEAN :
       /\ Observe(t, pass)
       /\ log' = Append(log, [test |-> t, what |-> IF pass THEN "pass" ELSE "fail"])
  /\ UNCHANGED <<kind, clock, policy, pc>>

Quarantine(t) == items' = [items EXCEPT ![t].quarantined = TRUE]

\* Leaving quarantine clears the row of failures and not the counts: the flake rate can
\* bring the test back at its next observation, a pass included.
Unquarantine(t) == items' = [items EXCEPT ![t].quarantined = FALSE, ![t].row = 0]

handleFlakeCaseAction ==
  /\ kind = "tests"
  /\ Len(log) < MaxObserved
  /\ \E t \in {u \in Targets : items[u].passes + items[u].failures > 0}, what \in {"quarantine", "unquarantine"} :
       /\ IF what = "quarantine" THEN Quarantine(t) ELSE Unquarantine(t)
       /\ log' = Append(log, [test |-> t, what |-> what])
  /\ UNCHANGED <<kind, clock, policy, pc>>

-----------------------------------------------------------------------------
(* Drift.  Entries hide changes of the runs that began before they end,    *)
(* also of those that began before the entry was made.                     *)

Tick ==
  /\ kind = "drift" /\ clock < MaxClock
  /\ clock' = clock + 1
  /\ UNCHANGED <<kind, items, policy, pc, log>>

\* A scope of all has no value, the others need one.
normalizeDriftScope(scope) == IF scope.of = "all" THEN {[scope EXCEPT !.value = ""]} ELSE {s \in {scope} : s.value # ""}

\* Entries are numbered in the order they are made.
AddEntry(list, scope, until) ==
  /\ Len(log) < MaxEntries
  /\ \E s \in normalizeDriftScope(scope) :
       items' = items \cup {[id |-> Len(log) + 1, list |-> list, scope |-> s, until |-> until]}
  /\ log' = Append(log, list)
  /\ pc' = IF pc.busy THEN [pc EXCEPT !.seen = @ \cup (items' \ items)] ELSE pc
  /\ UNCHANGED <<kind, clock, policy>>

DeleteEntry(list) ==
  /\ \E e \in items : e.list = list /\ items' = items \ {e}
  /\ UNCHANGED <<kind, clock, policy, pc, log>>

\* A suppression has to end in the future.
AddSuppression(scope, until) == until > clock /\ AddEntry("suppression", scope, until)
DeleteSuppression == DeleteEntry("suppression")

\* So has an allowlist entry unless it is for ever, which a time past the last stands for.
AddAllowlist(scope, until) == until > clock /\ AddEntry("allowlist", scope, until)
DeleteAllowlist == DeleteEntry("allowlist")

handleDriftSuppressions == kind = "drift" /\ \E scope \in Scopes, until \in 1..MaxClock + 1 : AddSuppression(scope, until)
handleDriftSuppressionByID == kind = "drift" /\ DeleteSuppression
handleDriftAllowlists == kind = "drift" /\ \E scope \in Scopes, until \in 1..MaxClock + 1 : AddAllowlist(scope, until)
handleDriftAllowlistByID == kind = "drift" /\ DeleteAllowlist

SetDriftPolicy(in) ==
  /\ in.target \in 1..100 /\ in.window > 0 /\ in.min >= 0
  /\ policy' = in

handleDriftSLOPolicy ==
  /\ kind = "drift"
  /\ \E in \in SLOs : SetDriftPolicy(in)
  /\ UNCHANGED <<kind, clock, items, pc, log>>

driftScopeMatches(scope, result) ==
  CASE scope.of = "all" -> TRUE
    [] scope.of = "host" -> result.host = scope.value
    [] scope.of = "type" -> result.type = scope.value

IsSuppressed(result, at) ==
  \E e \in items : e.list = "suppression" /\ e.until > at /\ driftScopeMatches(e.scope, result)

IsAllowlisted(result, at) ==
  \E e \in items : e.list = "allowlist" /\ e.until > at /\ driftScopeMatches(e.scope, result)

InWindow(run, hours) == run.at >= clock - hours /\ run.at <= clock

\* The results of the runs within the window, one after the other.
Window(hours) ==
  FlattenSeq([i \in DOMAIN Runs |->
    IF ~InWindow(Runs[i], hours) THEN <<>>
    ELSE [j \in DOMAIN Runs[i].results |-> [at |-> Runs[i].at, result |-> Runs[i].results[j]]]])

\* A handler that goes through the runs: what for, which entries it looks through and whether
\* unchanged results count too.  seen are the entries met so far, bare the number of the
\* changes that none of them covers.
Begin(use, hours, suppressed, allowlisted, unchanged) ==
  /\ kind = "drift" /\ ~pc.busy
  /\ pc' = [busy |-> TRUE, use |-> use, suppressed |-> suppressed, allowlisted |-> allowlisted, unchanged |-> unchanged,
            todo |-> Window(hours), samples |-> 0, drifted |-> <<>>, bare |-> 0,
            failed |-> \E i \in DOMAIN Runs : Runs[i].failed /\ InWindow(Runs[i], hours), seen |-> items]
  /\ UNCHANGED <<kind, clock, items, policy, log>>

\* The objective has the window of the policy as it is at the beginning, the others bring one.
BeginEvaluation == \E suppressed, allowlisted \in BOOLEAN : Begin("slo", policy.window, suppressed, allowlisted, FALSE)
BeginRemediation == \E hours \in Windows : Begin("remediation", hours, FALSE, FALSE, FALSE)
BeginInsights == \E hours \in Windows : Begin("insights", hours, FALSE, FALSE, FALSE)
BeginHistory ==
  \E hours \in Windows, suppressed, allowlisted, unchanged \in BOOLEAN : Begin("history", hours, suppressed, allowlisted, unchanged)

\* One turn of the loop over the results: each asks the stores for the entries of the moment.
\* The objective leaves out skipped results, the history ends at its limit.
JudgeResult ==
  /\ kind = "drift" /\ pc.busy
  /\ pc.todo # <<>>
  /\ LET r == Head(pc.todo)
         drifts == (r.result.changed \/ pc.unchanged) /\ (pc.use = "slo" => ~r.result.skipped)
         counts == /\ drifts
                   /\ pc.suppressed \/ ~IsSuppressed(r.result, r.at)
                   /\ pc.allowlisted \/ ~IsAllowlisted(r.result, r.at)
         bare == drifts /\ \A e \in pc.seen : e.until <= r.at \/ ~(e.scope.of = "all" \/ e.scope.value \in {r.result.host, r.result.type})
         full == pc.use = "history" /\ counts /\ Len(pc.drifted) + 1 >= HistoryLimit
     IN pc' = [pc EXCEPT !.todo = IF full THEN <<>> ELSE Tail(@),
                         !.samples = IF r.result.skipped THEN @ ELSE @ + 1,
                         !.drifted = IF counts THEN Append(@, r.result) ELSE @,
                         !.bare = IF bare THEN @ + 1 ELSE @]
  /\ UNCHANGED <<kind, clock, items, policy, log>>

Ended(use, answer) ==
  /\ kind = "drift" /\ pc.busy /\ pc.use = use
  /\ pc.todo = <<>>
  /\ pc' = [busy |-> FALSE, answer |-> answer]
  /\ UNCHANGED <<kind, clock, items, policy, log>>

\* The objective: too few samples, or compliance below the target, both of the policy of now.
\* Of the evaluations that are kept the model has the last.
Evaluate(n, changed, p) ==
  LET status == IF n < p.min THEN "insufficient_samples"
                ELSE IF n > 0 /\ (n - changed) * 100 < p.target * n THEN "breached" ELSE "healthy"
  IN <<status, IF status = "breached" /\ p.auto THEN "incident" ELSE "no incident">>

handleDriftSLOEvaluate == Ended("slo", Evaluate(pc.samples, Len(pc.drifted), policy))

\* The remediation counts the resources that drifted, at most max of them in safe mode and
\* with no failed run in the window; then it queues a job.
handleDriftRemediation ==
  \E max \in 1..2, safe \in BOOLEAN :
    Ended("remediation",
          LET resources == {<<r.host, r.type>> : r \in ToSet(pc.drifted)}
          IN IF resources = {} THEN <<"noop">>
             ELSE IF safe /\ (Cardinality(resources) > max \/ pc.failed) THEN <<"blocked">> ELSE <<"enqueued">>)

Count(drifted, P(_)) == Len(SelectSeq(drifted, P))

\* The host, or the type, with the most changes, the first by name of several.
sortDriftTrends(names, count) ==
  names[Min({i \in DOMAIN names : \A j \in DOMAIN names : count[names[j]] <= count[names[i]]})]

driftHints(drifted, failed) ==
  LET onHost == [h \in ToSet(Hosts) |-> Count(drifted, LAMBDA r : r.host = h)]
      ofType == [t \in ToSet(Types) |-> Count(drifted, LAMBDA r : r.type = t)]
      hints == {x \in {"host", "command", "failed"} :
                  \/ x = "host" /\ onHost[sortDriftTrends(Hosts, onHost)] >= 3
                  \/ x = "command" /\ drifted # <<>> /\ sortDriftTrends(Types, ofType) = "command"
                  \/ x = "failed" /\ failed}
  IN IF hints = {} THEN {"none"} ELSE hints

handleDriftInsights == Ended("insights", <<Len(pc.drifted), driftHints(pc.drifted, pc.failed)>>)
handleDriftHistory == Ended("history", <<Len(pc.drifted)>>)

-----------------------------------------------------------------------------
(* Resuming a run from one checkpoint, the step it names done.  The file   *)
(* of the resumed configuration is named after the checkpoint.             *)

\* Every checkpoint has a file of its own, so that one stands for all.
Record(in) == policy = None /\ policy' = in

handleExecutionCheckpoints ==
  /\ kind = "resume"
  /\ \E in \in Checkpoints : Record(in)
  /\ UNCHANGED <<kind, clock, items, pc, log>>

\* The checkpoint has a step's order, or its name, which is looked up in the configuration
\* at hand; a step it does not have leaves the whole of it.
StepOrder(c) ==
  IF policy.order > 0 THEN policy.order
  ELSE IF policy.step \in ToSet(c.steps) THEN CHOOSE i \in DOMAIN c.steps : c.steps[i] = policy.step ELSE 0

\* The steps behind the checkpoint.  Dependencies on dropped steps are dropped with them,
\* the other relations (require, subscribe) are kept as they are.
buildResumeConfigFromCheckpoint(c) ==
  LET steps == SubSeq(c.steps, StepOrder(c) + 1, Len(c.steps))
      left == ToSet(steps)
  IN [written |-> TRUE, steps |-> steps,
      depends |-> {d \in c.depends : d[1] \in left /\ d[2] \in left},
      require |-> {d \in c.require : d[2] \in left}]

\* What config.Load and Validate ask of the relations of a configuration.
Loads(file) == \A d \in file.depends \cup file.require : d[1] \in ToSet(file.steps)

\* The file is written, over that of another resumption, and a job queued for it.
handleExecutionCheckpointResume ==
  /\ kind = "resume" /\ policy # None
  /\ Len(pc) < MaxResumes
  /\ \E c \in Configs :
       /\ StepOrder(c) < Len(c.steps)
       /\ items' = buildResumeConfigFromCheckpoint(c)
       /\ log' = log \cup {c}
  /\ pc' = Append(pc, [state |-> "queued", ran |-> <<>>])
  /\ UNCHANGED <<kind, clock, policy>>

\* A job reads the file when it runs, and fails when the configuration does not load.
RunResumed ==
  /\ kind = "resume"
  /\ \E j \in DOMAIN pc :
       /\ pc[j].state = "queued"
       /\ pc' = [pc EXCEPT ![j] = IF Loads(items) THEN [state |-> "ran", ran |-> items.steps]
                                 ELSE [state |-> "failed", ran |-> <<>>]]
  /\ UNCHANGED <<kind, clock, items, policy, log>>

-----------------------------------------------------------------------------
(* Snapshots of steps: the newest of them, and an index by their numbers,  *)
(* which is the variable log.                                              *)

normalizeSnapshotStatus == {"pending", "running", "succeeded", "failed", "skipped"}

\* A step without a beginning begins now, one without an end (0) is not at an end yet.
RecordSnapshot(status, started, ended) ==
  LET all == Append(items, clock + 1)
      over == IF Len(all) > History THEN Len(all) - History ELSE 0
  IN /\ status \in normalizeSnapshotStatus
     /\ ended = 0 \/ ended >= (IF started = 0 THEN clock + 1 ELSE started)
     /\ items' = SubSeq(all, over + 1, Len(all))
     /\ log' = (log \cup {clock + 1}) \ ToSet(SubSeq(all, 1, over))

handleStepSnapshots ==
  /\ kind = "snapshots"
  /\ clock < MaxObserved
  /\ clock' = clock + 1
  /\ \E status \in {"running", "lost"}, started \in 0..1, ended \in 0..1 : RecordSnapshot(status, started, ended)
  /\ UNCHANGED <<kind, policy, pc>>

-----------------------------------------------------------------------------

Next ==
  \/ handleHealthProbes \/ handleHealthProbeChecks \/ handleHealthProbeGateEvaluate
  \/ handleFlakePolicy \/ handleFlakeObservations \/ handleFlakeCaseAction
  \/ Tick \/ handleDriftSuppressions \/ handleDriftSuppressionByID
  \/ handleDriftAllowlists \/ handleDriftAllowlistByID \/ handleDriftSLOPolicy
  \/ BeginEvaluation \/ BeginRemediation \/ BeginInsights \/ BeginHistory \/ JudgeResult
  \/ handleDriftSLOEvaluate \/ handleDriftRemediation \/ handleDriftInsights \/ handleDriftHistory
  \/ handleExecutionCheckpoints \/ handleExecutionCheckpointResume \/ RunResumed
  \/ handleStepSnapshots

Spec == Init /\ [][Next]_vars

-----------------------------------------------------------------------------

\* Every store holds what its types say; a row of failures is no longer than the failures,
\* the snapshots kept are those of the index and no more than the limit, and neither is the
\* drift history.
TypeOK ==
  /\ kind = "probes" => /\ \A t \in DOMAIN items : t \in Targets /\ items[t] \in HealthProbeTargets
                        /\ log.made => log \in HealthProbeGateResults
  /\ kind = "tests" => policy \in FlakePolicySet /\ \A t \in Targets : items[t] \in FlakeCases /\ items[t].row <= items[t].failures
  /\ kind = "snapshots" => ToSet(items) = log /\ Len(items) <= History
  /\ kind = "drift" => /\ items \subseteq DriftEntries /\ policy \in DriftSLOPolicySet
                       /\ pc.busy /\ pc.use = "history" => Len(pc.drifted) <= HistoryLimit
  /\ kind = "resume" => policy = None \/ policy \in ExecutionCheckpoints

\* A gate opens only on checks: some target asked for is enabled and was checked, and of
\* those that are, no more than the rest of the percentage is not healthy.
GateSound ==
  kind = "probes" /\ log.made /\ log.allow =>
    LET live == {t \in DOMAIN items : (log.asked = {} \/ t \in log.asked) /\ items[t].enabled /\ items[t].status # "unchecked"}
        sick == {t \in live : items[t].status # "healthy"}
    IN /\ live # {}
       /\ Cardinality(sick) * 100 <= (100 - (IF log.percent \in 1..100 THEN log.percent ELSE 100)) * Cardinality(live)

\* The counts of a test are those of its history: passes and failures over all of it, the
\* row of failures since the last pass or release; and a test that was released is in
\* quarantine again only after another observation or an operator's word.
FlakesCounted ==
  kind = "tests" =>
    \A t \in Targets :
      LET mine == SelectSeq(log, LAMBDA o : o.test = t)
          ends == {i \in DOMAIN mine : mine[i].what \in {"pass", "unquarantine"}}
          since == IF ends = {} THEN 0 ELSE Max(ends)
      IN /\ items[t].passes = Cardinality({i \in DOMAIN mine : mine[i].what = "pass"})
         /\ items[t].failures = Cardinality({i \in DOMAIN mine : mine[i].what = "fail"})
         /\ items[t].row = Cardinality({i \in DOMAIN mine : i > since /\ mine[i].what = "fail"})
         /\ mine # <<>> /\ Last(mine).what = "unquarantine" => ~items[t].quarantined

\* Drift is hidden only by an entry: a change counts unless some suppression or allowlist
\* entry there was since the evaluation began covers its resource and ends after its run
\* began, whatever is added and deleted while the results are gone through.
DriftHonest == kind = "drift" /\ pc.busy => Len(pc.drifted) >= pc.bare

\* A resumed job runs no step the checkpoint has behind it: what runs is the rest of the
\* plan of a configuration the checkpoint was resumed with, the one it was resumed with
\* last before the job ran.
ResumeRunsRest ==
  kind = "resume" =>
    \A j \in DOMAIN pc : pc[j].state = "ran" =>
      /\ \E c \in log : pc[j].ran = SubSeq(c.steps, StepOrder(c) + 1, Len(c.steps))
      /\ policy.order = 0 => policy.step \notin ToSet(pc[j].ran)

\* The configuration written for the remaining steps loads, so that the job can resume.
ResumeLoads == kind = "resume" /\ items.written => Loads(items)
=============================================================================
