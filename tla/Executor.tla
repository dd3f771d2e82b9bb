------------------------------ MODULE Executor -------------------------------
(***************************************************************************)
(* Executor.Apply (internal/executor/executor.go): it runs the steps of a  *)
(* plan in the order of its strategy, with refresh triggers, retries,      *)
(* hooks and failure thresholds, and then the notified handlers.  Apply is *)
(* called by the queue's runner with the plan planner.Build returns, and   *)
(* by the command line with that plan filtered by its selectors.           *)
(*                                                                         *)
(* Resources are numbered in the order planner.Build gives them, so a      *)
(* resource depends on smaller numbers; hosts, domains and handlers are    *)
(* numbers in the order of their names.  What the built-in transports do   *)
(* to a host is a choice among the results they return.                    *)
(***************************************************************************)
EXTENDS Integers, Sequences, FiniteSets

CONSTANTS
  Plans,        \* what Apply's callers build, with the caller and the selectors
  MaxRetries    \* bound on the retries of a resource

Strategies == {"linear", "free", "serial"}
Launchers == {"runner", "cli"}

\* Config validation: dependencies are acyclic, refresh sources are
\* dependencies, notified handlers exist, hooks, guards and refresh commands
\* are for commands (the Windows shim ignores them).  A file may be retried
\* and may have an until_contains test.
Valid(p) ==
  /\ p.strategy \in Strategies /\ p.serial \in Nat /\ p.maxFail \in 0 .. 100
  /\ p.fatal \in BOOLEAN /\ p.byDomain \in BOOLEAN
  /\ p.caller \in Launchers /\ p.selected \subseteq DOMAIN p.res /\ p.selected # {}
  /\ p.caller = "runner" => p.selected = DOMAIN p.res
  /\ \A i \in DOMAIN p.res : LET r == p.res[i] IN
       /\ r.deps \subseteq 1 .. i - 1 /\ r.sources \subseteq r.deps
       /\ r.refreshOnly => r.sources # {}
       /\ r.notifies \subseteq p.handlers /\ r.retries \in 0 .. MaxRetries
       /\ r.host \in DOMAIN p.domain
       /\ r.type = "file" => ~(r.guard \/ r.rescue \/ r.always \/ r.refreshCommand)

\* Resources, hosts and handlers are numbered.
ASSUME PlansAssumption ==
  /\ MaxRetries \in Nat
  /\ \A p \in Plans : /\ DOMAIN p = {"strategy", "serial", "maxFail", "fatal", "byDomain", "domain",
                                   "handlers", "caller", "selected", "res"}
                      /\ Len(p.res) \in Nat /\ DOMAIN p.res = 1 .. Len(p.res)
                      /\ DOMAIN p.domain \subseteq Nat /\ \A h \in DOMAIN p.domain : p.domain[h] \in Nat
                      /\ p.handlers \subseteq Nat /\ IsFiniteSet(p.handlers)

VARIABLES
  plan, steps,   \* the plan given to Apply, and its resources in the order they run
  next,          \* position in steps, then in handlers
  attempt,
  results,       \* run.Results; failed is what executeStep returned beside it
  changed, notified, failedSteps,
  outcome,       \* run.Status
  at,            \* steps, handlers, done
  handlers       \* the sorted notified handlers

applyVars == <<plan, steps, next, attempt, results, changed, notified, failedSteps, outcome, at, handlers>>

-----------------------------------------------------------------------------
(* The plan and its order *)

\* filterPlanBySelectors: the selected steps, and a plan without handlers.
FilterPlanBySelectors(p) == [p EXCEPT !.handlers = {}]

\* The members of S where R, a total order on S, puts them.
Sorted(S, R) == [i \in 1 .. Cardinality(S) |-> CHOOSE x \in S : Cardinality({y \in S : <<y, x>> \in R}) = i - 1]
Ascending(S) == Sorted(S, {e \in S \X S : e[1] < e[2]})

PlanSteps(p) == Ascending(p.selected)
HostsOf(p) == {p.res[r].host : r \in p.selected}
BatchSize(p) == IF p.serial <= 0 THEN 1 ELSE p.serial

\* The round over the domains in which a host has its turn.
Round(p, h) == Cardinality({g \in HostsOf(p) : p.domain[g] = p.domain[h] /\ g < h})

\* orderedHostsByFailureDomain: round after round, one host of each domain.
OrderedHosts(p) ==
  LET Earlier(g, h) == IF p.byDomain
                       THEN \/ Round(p, g) < Round(p, h)
                            \/ Round(p, g) = Round(p, h) /\ p.domain[g] < p.domain[h]
                       ELSE g < h
  IN {e \in HostsOf(p) \X HostsOf(p) : Earlier(e[1], e[2])}

Place(p, h) == Cardinality({g \in HostsOf(p) : <<g, h>> \in OrderedHosts(p)})
Batch(p, r) == Place(p, p.res[r].host) \div BatchSize(p)

\* serialOrderedSteps: batch after batch of hosts, each in the order of the plan.
SerialOrderedSteps(p) ==
  LET Earlier(q, r) == Batch(p, q) < Batch(p, r) \/ (Batch(p, q) = Batch(p, r) /\ q < r)
  IN Sorted(p.selected, {e \in p.selected \X p.selected : Earlier(e[1], e[2])})

\* Mutant: the free strategy is ordered like the serial one.
OrderOfFreeSerial(p) == IF p.strategy # "linear" THEN SerialOrderedSteps(p) ELSE PlanSteps(p)

OrderOf(p) == IF p.strategy = "serial" THEN SerialOrderedSteps(p) ELSE PlanSteps(p)

ApplyInit ==
  /\ \E p \in Plans : Valid(p) /\ plan = IF p.caller = "cli" THEN FilterPlanBySelectors(p) ELSE p
  /\ steps = OrderOf(plan)
  /\ next = 1 /\ attempt = 1
  /\ results = << >>
  /\ changed = {} /\ notified = {} /\ failedSteps = 0
  /\ outcome = "succeeded" /\ at = "steps" /\ handlers = << >>

-----------------------------------------------------------------------------
(* One attempt *)

Broken == [failed |-> TRUE, changed |-> FALSE, skipped |-> FALSE]

\* What the transport reports: a file (a registry value or a scheduled task of
\* the Windows shim likewise) may be in its desired state already, a
\* command may be skipped by its guard and reports a change otherwise.
Own(r) ==
  IF r.type = "file" THEN {"changes", "keeps", "fails"}
  ELSE {"changes", "fails"} \cup (IF r.guard THEN {"skips"} ELSE {})

\* The attempt's result from what the resource, its rescue hook and its always
\* hook did: hooks that work report a change, a rescue clears the error.
Outcome(r, own, rescueWorks, alwaysWorks) ==
  LET rescued == own = "fails" /\ r.rescue /\ rescueWorks
      error == (own = "fails" /\ ~rescued) \/ (r.always /\ ~alwaysWorks)
  IN [failed |-> error,
      changed |-> own = "changes" \/ rescued \/ (r.always /\ alwaysWorks),
      skipped |-> own = "skips"]

\* executeSingleStep and the until_contains test of executeStep.  Broken is
\* an early return: no transport, failed preparation or file integrity.
SingleStep(r) ==
  LET ran == {Outcome(r, own, x, y) : own \in Own(r), x \in BOOLEAN, y \in BOOLEAN}
      unmet == {[o EXCEPT !.failed = TRUE] : o \in ran}
  IN {Broken} \cup ran \cup (IF r.until THEN unmet ELSE {})

Result(id, kind, out) == [id |-> id, kind |-> kind, failed |-> out.failed, changed |-> out.changed]

ShouldStop(failed, executed) ==
  /\ failed > 0
  /\ \/ plan.fatal
     \/ plan.strategy \in {"linear", "serial"}
     \/ plan.maxFail > 0 /\ executed > 0 /\ (failed * 100) \div executed > plan.maxFail

Current == steps[next]
Resource == plan.res[Current]
Running == at = "steps" /\ next <= Len(steps)

\* refreshTriggeredSources, over the sources buildRefreshSourceIndex collects.
Triggered == Resource.sources \cap changed # {}

Skipping == Resource.refreshOnly /\ ~Triggered

\* A triggered command with a refresh command runs that one, without guards.
Effective == IF Triggered /\ Resource.refreshCommand THEN [Resource EXCEPT !.guard = FALSE] ELSE Resource

NotifiedBy(out) == IF out.changed /\ ~out.skipped THEN notified \cup Resource.notifies ELSE notified

\* Mutant: a step that succeeds sets the outcome of the run.
StatusLast(out) == IF out.failed THEN "failed" ELSE "succeeded"

StatusAfter(out) == IF out.failed THEN "failed" ELSE outcome

\* A refresh-only resource without a changed source.
SkipStep ==
  /\ Running /\ Skipping
  /\ results' = Append(results, Result(Current, "skipped", [failed |-> FALSE, changed |-> FALSE]))
  /\ next' = next + 1
  /\ UNCHANGED <<plan, steps, attempt, changed, notified, failedSteps, outcome, at, handlers>>

\* A failed attempt that is not the last leaves nothing but what it did to
\* the host.
Retry ==
  /\ Running /\ ~Skipping
  /\ attempt <= Resource.retries
  /\ \E out \in SingleStep(Effective) : out.failed
  /\ attempt' = attempt + 1
  /\ UNCHANGED <<plan, steps, next, results, changed, notified, failedSteps, outcome, at, handlers>>

\* The last attempt, or one that succeeds.  next is the number of steps
\* executed, this one included.
RunStep ==
  /\ Running /\ ~Skipping
  /\ \E out \in SingleStep(Effective) :
       /\ out.failed => attempt > Resource.retries
       /\ results' = Append(results, Result(Current, "step", out))
       /\ changed' = IF out.changed THEN changed \cup {Current} ELSE changed
       /\ notified' = NotifiedBy(out)
       /\ outcome' = StatusAfter(out)
       /\ failedSteps' = IF out.failed THEN failedSteps + 1 ELSE failedSteps
       /\ next' = IF out.failed /\ ShouldStop(failedSteps + 1, next) THEN Len(steps) + 1 ELSE next + 1
  /\ attempt' = 1
  /\ UNCHANGED <<plan, steps, at, handlers>>

-----------------------------------------------------------------------------
(* Handlers *)

\* Handlers run only when no step has failed.
EndSteps ==
  /\ at = "steps" /\ next > Len(steps)
  /\ at' = IF outcome = "succeeded" THEN "handlers" ELSE "done"
  /\ next' = 1 /\ handlers' = IF outcome = "succeeded" THEN Ascending(notified) ELSE << >>
  /\ UNCHANGED <<plan, steps, attempt, results, changed, notified, failedSteps, outcome>>

\* executeStep runs a handler; a failure, or a handler that the plan does not
\* have, ends the run.
RunHandler ==
  /\ at = "handlers" /\ next <= Len(handlers)
  /\ \E failed, hostChanged \in BOOLEAN :
       LET missing == handlers[next] \notin plan.handlers
           out == IF missing THEN Broken ELSE [failed |-> failed, changed |-> hostChanged]
       IN /\ results' = Append(results, Result(handlers[next], IF missing THEN "missing" ELSE "handler", out))
          /\ outcome' = IF out.failed THEN "failed" ELSE outcome
          /\ at' = IF out.failed THEN "done" ELSE at
  /\ next' = next + 1
  /\ UNCHANGED <<plan, steps, attempt, changed, notified, failedSteps, handlers>>

FinishRun ==
  /\ at = "handlers" /\ next > Len(handlers)
  /\ at' = "done"
  /\ UNCHANGED <<plan, steps, next, attempt, results, changed, notified, failedSteps, outcome, handlers>>

ApplyNext == SkipStep \/ Retry \/ RunStep \/ EndSteps \/ RunHandler \/ FinishRun

ApplySpec == ApplyInit /\ [][ApplyNext]_applyVars

-----------------------------------------------------------------------------
(* Properties *)

RunDone == at = "done"
StepKinds == {"step", "skipped"}
ResultsOf(r, kinds) == {i \in 1 .. Len(results) : results[i].id = r /\ results[i].kind \in kinds}

\* The type of every variable.
ApplyTypeOK ==
  /\ steps \in Seq(plan.selected) /\ outcome \in {"succeeded", "failed"} /\ at \in {"steps", "handlers", "done"}
  /\ next \in Nat /\ attempt \in 1 .. MaxRetries + 1
  /\ changed \subseteq plan.selected /\ failedSteps \in 0 .. Len(steps)

\* Every strategy runs each resource of the plan once: the batches of the
\* serial strategy neither lose nor repeat a step.
StepsArePermutation ==
  Len(steps) = Cardinality(plan.selected) /\ \A r \in plan.selected : \E i \in 1 .. Len(steps) : steps[i] = r

\* A run is recorded as succeeded exactly when nothing failed, and then it
\* has one result for each resource and one for each notified handler.
SucceededMeansAll ==
  RunDone => /\ outcome = "succeeded" <=> \A i \in 1 .. Len(results) : ~results[i].failed
             /\ outcome = "succeeded" =>
                  /\ \A r \in plan.selected : Cardinality(ResultsOf(r, StepKinds)) = 1
                  /\ \A h \in notified : Cardinality(ResultsOf(h, {"handler"})) = 1

\* A handler runs only when a resource that notifies it changed and no step
\* has failed.
HandlersJustified ==
  \A i \in 1 .. Len(results) : results[i].kind = "handler" =>
    /\ \E k \in 1 .. i - 1 : /\ results[k].kind = "step" /\ results[k].changed
                             /\ results[i].id \in plan.res[results[k].id].notifies
    /\ \A k \in 1 .. i - 1 : ~results[k].failed

\* Linear and serial runs end with their first failure; a free run that goes
\* on has not exceeded its failure percentage at its last failure.
FailureThreshold ==
  \A i \in 1 .. Len(results) - 1 :
    results[i].failed =>
      /\ plan.strategy = "free" /\ ~plan.fatal
      /\ plan.maxFail > 0 =>
           (Cardinality({k \in 1 .. i : results[k].failed}) * 100) \div i <= plan.maxFail

\* Steps of a serial run: hosts of a later batch wait until every host of the
\* earlier batches is through, and a batch has at most serial hosts.
SerialInBatches ==
  plan.strategy = "serial" =>
    \A i \in 1 .. Len(steps) :
      LET open == {h \in HostsOf(plan) : /\ \E k \in 1 .. i : plan.res[steps[k]].host = h
                                         /\ \E k \in i .. Len(steps) : plan.res[steps[k]].host = h}
      IN Cardinality(open) <= BatchSize(plan)

\* The hosts are interleaved across their failure domains: when a host has its
\* turn, no domain is two hosts ahead of its own.
DomainsInterleaved ==
  plan.byDomain =>
    \A g, h \in HostsOf(plan) :
      LET taken(d) == {k \in HostsOf(plan) : plan.domain[k] = d /\ <<k, h>> \in OrderedHosts(plan)}
      IN Cardinality(taken(plan.domain[g])) <= Cardinality(taken(plan.domain[h])) + 1

\* The serial strategy takes a resource before one it depends on when the
\* latter is on a host of a later batch.
NotLater(d, r) == plan.strategy = "serial" => Batch(plan, d) <= Batch(plan, r)

\* A resource runs after everything it depends on that is in no later batch,
\* as planner.Build ordered the steps.
DependenciesFirst ==
  \A i \in 1 .. Len(results) :
    results[i].kind \in StepKinds =>
      \A d \in plan.res[results[i].id].deps \cap plan.selected :
        NotLater(d, results[i].id) => \E k \in 1 .. i - 1 : results[k].id = d /\ results[k].kind \in StepKinds

\* A refresh-only resource is run exactly when one of its sources changed.
RefreshFollowsChange ==
  \A i \in 1 .. Len(results) :
    LET r == results[i].id
    IN results[i].kind \in StepKinds /\ plan.res[r].refreshOnly
         /\ (\A d \in plan.res[r].sources \cap plan.selected : NotLater(d, r)) =>
         (results[i].kind = "step" <=> plan.res[r].sources \cap changed # {})

\* The record of a run is justified by what happened: success by the results
\* of all resources and notified handlers, a handler by a change, and steps
\* after a failure by the strategy and the failure percentage.
OutcomeJustified == SucceededMeansAll /\ HandlersJustified /\ FailureThreshold

\* Steps run after what they depend on and are refreshed exactly by the sources
\* that changed; every strategy runs every resource once, the serial one in
\* batches of at most serial hosts, taken from the failure domains in turn.
RelationsKept ==
  /\ DependenciesFirst /\ RefreshFollowsChange
  /\ StepsArePermutation /\ SerialInBatches /\ DomainsInterleaved

\* A run in which no step fails executes the handlers its resources notified:
\* none is missing from the plan.
NotifiedHandlersFound ==
  \A i \in 1 .. Len(results) : results[i].kind # "missing"

=============================================================================
