------------------------------ MODULE Capacity -------------------------------
(***************************************************************************)
(* How much runs where: the advice on parallelism and on the number of     *)
(* workers, the limits of tenants, the shards of the scheduler and the     *)
(* choice of the queue's backend (adaptive_concurrency.go,                 *)
(* worker_autoscaling.go, tenant_limits.go, scheduler_partition.go and     *)
(* queue_backends.go of internal/control) with the handlers of             *)
(* internal/server.                                                        *)
(*                                                                         *)
(* Every store answers questions from the policy of the moment.  The       *)
(* answer given last is kept with its question until a change that may     *)
(* change it.  The workers follow the advice they get, so that advice is   *)
(* asked for again in the situation it made.  The variable kind says       *)
(* which store is at work.                                                 *)
(***************************************************************************)
EXTENDS Integers, Sequences, FiniteSets, SequencesExt

CONSTANTS
  ParallelPolicies, WorkerPolicies, Limits,   \* the policies and the tenant limits that are asked for
  Levels,          \* parallelism, workers and runs that are asked for; 0 asks for the default
  Rates,           \* failure rates, in percent
  Depths,          \* numbers of jobs queued and running
  Keys,            \* workload keys
  HashOf,          \* workload key -> its 32-bit FNV hash
  Rules,           \* the rules partitions are given: [tenant, env, shard, parallel]
  MaxRules,        \* bound: rules a partition store is given
  Backends         \* names of queue backends, numbers in the order they are made; 1 is the embedded default

VARIABLES
  kind,
  policy,    \* adaptive, workers, tenants: the policy; partitions: the rules in the order they were made; backends: the backends
  active,    \* backends: [id, failovers] of the policy
  workers,   \* workers there are
  answer     \* the answer given last, with what was asked

vars == <<kind, policy, active, workers, answer>>

None == [made |-> FALSE]
NoLimits == [set |-> FALSE]
Large(a, b) == IF a > b THEN a ELSE b
clampInt(v, min, max) == IF v < min THEN min ELSE IF v > max THEN max ELSE v

-----------------------------------------------------------------------------
(* What the stores hold, and what they hold at first *)

AdaptiveConcurrencyPolicies ==
  [min : Nat \ {0}, max : Nat, default : Nat, start : Nat \ {0}, critical : Nat, degraded : Nat, unhealthy : Nat]
WorkerAutoscalingPolicies ==
  [enabled : BOOLEAN, min : Nat \ {0}, max : Nat \ {0}, depth : Nat \ {0}, up : Nat \ {0}, down : Nat \ {0}]
TenantLimitPolicies == [set : {TRUE}, runs : Nat \ {0}, share : 1..100]
SchedulerPartitionRules == [tenant : Nat, env : Nat, shard : Nat, parallel : Nat \ {0}]
QueueBackends == [external : BOOLEAN, enabled : BOOLEAN]
QueueBackendPolicies == [id : Backends, failovers : SUBSET Backends]

NewAdaptiveConcurrencyStore ==
  [min |-> 1, max |-> 50, default |-> 10, start |-> 10, critical |-> 30, degraded |-> 15, unhealthy |-> 35]
NewWorkerAutoscalingStore == [enabled |-> TRUE, min |-> 2, max |-> 200, depth |-> 25, up |-> 5, down |-> 2]
NewQueueBackendStore == <<[external |-> FALSE, enabled |-> TRUE]>>

DefaultPolicy(k) ==
  CASE k = "adaptive" -> NewAdaptiveConcurrencyStore
    [] k = "workers" -> NewWorkerAutoscalingStore
    [] k = "tenants" -> NoLimits
    [] k = "partitions" -> <<>>
    [] k = "backends" -> NewQueueBackendStore

Init ==
  /\ kind \in {"adaptive", "workers", "tenants", "partitions", "backends"}
  /\ policy = DefaultPolicy(kind)
  /\ active = [id |-> 1, failovers |-> {}]
  /\ workers \in IF kind = "workers" THEN Levels ELSE {0}
  /\ answer = None

Answered(a) == answer' = a /\ UNCHANGED <<kind, policy, active, workers>>
Configured(p) == policy' = p /\ answer' = None /\ UNCHANGED <<kind, active, workers>>

-----------------------------------------------------------------------------
(* Parallelism that follows failures and health.  Rates are in percent, so *)
(* the code's scale is a fraction over critical - start.                   *)

normalizeAdaptivePolicy(in) ==
  LET min == IF in.min <= 0 THEN 1 ELSE in.min
      max == Large(in.max, min)
      start == IF in.start <= 0 THEN 10 ELSE in.start
  IN [in EXCEPT !.min = min, !.max = max,
        !.default = IF @ < min \/ @ > max THEN min ELSE @,
        !.start = start,
        !.critical = IF @ <= start THEN start + 20 ELSE @,
        !.degraded = Large(@, 0), !.unhealthy = Large(@, 0)]

\* SetPolicy takes every policy there is, once it is normalized.
SetAdaptivePolicy(in) == Configured(normalizeAdaptivePolicy(in))

handleAdaptiveConcurrencyPolicy == kind = "adaptive" /\ \E in \in ParallelPolicies : SetAdaptivePolicy(in)

\* 1 - (rate - start) / (critical - start), at least 0.3, of the parallelism so far.
Scaled(n, rate, p) ==
  LET width == p.critical - p.start
  IN IF (p.critical - rate) * 10 < 3 * width THEN (n * 3) \div 10
     ELSE (n * (p.critical - rate)) \div width

Penalty(n, percent) == Large(1, (n * percent) \div 100)

RecommendParallelism(p, in) ==
  LET base == clampInt(IF in.current <= 0 THEN p.default ELSE in.current, p.min, p.max)
      failing == IF in.rate >= p.critical THEN p.min
                 ELSE IF in.rate >= p.start THEN Scaled(base, in.rate, p) ELSE base
      degraded == IF in.degraded THEN failing - Penalty(failing, p.degraded) ELSE failing
      \* Go divides towards zero, TLA+ downwards: the penalty of a negative number is 1 either way.
      unhealthy == IF in.unhealthy THEN degraded - Penalty(degraded, p.unhealthy) ELSE degraded
      pressed == IF in.backlog > 200 /\ in.rate < p.start /\ ~in.unhealthy
                 THEN unhealthy + Large(1, unhealthy \div 5) ELSE unhealthy
  IN clampInt(pressed, p.min, p.max)

handleAdaptiveConcurrencyRecommend ==
  /\ kind = "adaptive"
  /\ \E current \in Levels, rate \in Rates, degraded, unhealthy \in BOOLEAN, backlog \in {0, 200, 201} :
       LET in == [current |-> current, rate |-> rate, degraded |-> degraded, unhealthy |-> unhealthy, backlog |-> backlog]
       IN Answered([made |-> TRUE, in |-> in, parallel |-> RecommendParallelism(policy, in)])

-----------------------------------------------------------------------------
(* The number of workers *)

SetWorkerPolicy(in) ==
  /\ in.min > 0 /\ in.max > 0 /\ in.min <= in.max
  /\ in.depth > 0 /\ in.up > 0 /\ in.down > 0
  /\ Configured(in)

handleWorkerAutoscalingPolicy == kind = "workers" /\ \E in \in WorkerPolicies : SetWorkerPolicy(in)

\* The workers the depth of the queue asks for.
Load(p, depth) ==
  clampInt(IF depth > 0 THEN (depth + p.depth - 1) \div p.depth ELSE p.min, p.min, p.max)

\* slow is -1, 0 or 1: the 95th percentile is below, at or above its target.
RecommendWorkers(p, in) ==
  LET current == IF in.current <= 0 THEN p.min ELSE in.current
      load == Load(p, in.depth)
      wanted == IF load > current \/ in.slow > 0 THEN Large(current + p.up, load)
                ELSE IF load < current /\ in.slow < 0 THEN Large(current - p.down, load)
                ELSE current
  IN IF p.enabled THEN clampInt(wanted, p.min, p.max) ELSE current

handleWorkerAutoscalingRecommend ==
  /\ kind = "workers"
  /\ \E depth \in Depths, slow \in -1..1 :
       LET in == [current |-> workers, depth |-> depth, slow |-> slow]
       IN /\ workers' = RecommendWorkers(policy, in)
          /\ answer' = [made |-> TRUE, in |-> in]
  /\ UNCHANGED <<kind, policy, active>>

-----------------------------------------------------------------------------
(* The limits of one tenant *)

UpsertTenantLimits(in) ==
  /\ in.runs > 0 /\ in.share \in 1..100
  /\ Configured([set |-> TRUE, runs |-> in.runs, share |-> in.share])

handleTenantPolicies == kind = "tenants" /\ \E in \in Limits : UpsertTenantLimits(in)

Admit(p, in) ==
  \/ ~p.set
  \/ /\ in.running + in.asked <= p.runs
     /\ in.depth > 0 => (in.queued * 100) \div in.depth <= p.share

\* The numbers are the caller's: nothing is looked up in the queue.
handleTenantAdmissionCheck ==
  /\ kind = "tenants"
  /\ \E asked \in Levels, running, depth, queued \in Depths :
       LET in == [asked |-> asked, running |-> running, depth |-> depth, queued |-> queued]
       IN Answered([made |-> TRUE, in |-> in, allowed |-> Admit(policy, in)])

-----------------------------------------------------------------------------
(* The shards of the scheduler *)

NoEnv == 0
Matches(rule, in) == rule.tenant = in.tenant /\ (rule.env = NoEnv \/ rule.env = in.env)

\* A rule is added for good, also one that repeats another: Upsert looks for none.
\* The answers given to requests it does not match are kept.
UpsertPartition(rule) ==
  /\ policy' = Append(policy, rule)
  /\ answer' = IF answer.made /\ Matches(rule, answer.in) THEN None ELSE answer

handleSchedulerPartitions ==
  /\ kind = "partitions" /\ Len(policy) < MaxRules
  /\ \E rule \in Rules : UpsertPartition(rule)
  /\ UNCHANGED <<kind, active, workers>>

deterministicIndex(key, mod) == IF mod <= 1 THEN 0 ELSE HashOf[key] % mod

\* The candidates sorted by shard; the sort is not stable and the rules come from a map,
\* so rules of one shard come in any order.
Orders(in) ==
  LET matched == {i \in DOMAIN policy : Matches(policy[i], in)}
  IN {order \in SetToSeqs(matched) :
        \A i \in 1..Len(order) - 1 : policy[order[i]].shard <= policy[order[i + 1]].shard}

\* With no candidate the key is spread over eight shards of its own, numbered from 101.
Decide(in) ==
  {IF Len(order) = 0 THEN [shard |-> 101 + deterministicIndex(in.key, 8), parallel |-> 25]
   ELSE LET rule == policy[order[1 + deterministicIndex(in.key, Len(order))]]
        IN [shard |-> rule.shard, parallel |-> rule.parallel] : order \in Orders(in)}

handleSchedulerPartitionDecision ==
  /\ kind = "partitions"
  /\ \E rule \in Rules, env \in {r.env : r \in Rules}, key \in Keys :
       LET in == [tenant |-> rule.tenant, env |-> env, key |-> key]
       IN \E decision \in Decide(in) : Answered([made |-> TRUE, in |-> in, decision |-> decision])

-----------------------------------------------------------------------------
(* The queue's backends *)

\* A backend is made, or one with its name replaced.
UpsertBackend(b, item) ==
  /\ b <= Len(policy) + 1
  /\ Configured(IF b <= Len(policy) THEN [policy EXCEPT ![b] = item] ELSE Append(policy, item))

handleQueueBackends == kind = "backends" /\ \E b \in Backends, item \in QueueBackends : UpsertBackend(b, item)

SetBackendPolicy(id, failovers) ==
  /\ policy[id].enabled
  /\ active' = [id |-> id, failovers |-> {f \in failovers \ {id} : policy[f].enabled}]

handleQueueBackendPolicy ==
  /\ kind = "backends"
  /\ \E id \in DOMAIN policy, failovers \in SUBSET DOMAIN policy : SetBackendPolicy(id, failovers)
  /\ answer' = None
  /\ UNCHANGED <<kind, policy, workers>>

\* Admit reads the policy and the backends under one read lock.
AdmitBackend(external) ==
  LET b == policy[active.id]
      failovers == {f \in active.failovers : policy[f].enabled}
  IN IF ~b.enabled THEN [allowed |-> FALSE, selected |-> 0, failovers |-> {}]
     ELSE IF external /\ ~b.external THEN [allowed |-> FALSE, selected |-> 0, failovers |-> failovers]
     ELSE [allowed |-> TRUE, selected |-> active.id, failovers |-> failovers]

handleQueueBackendAdmit ==
  /\ kind = "backends"
  /\ \E external \in BOOLEAN :
       Answered([made |-> TRUE, in |-> [external |-> external], admitted |-> AdmitBackend(external)])

-----------------------------------------------------------------------------

Next ==
  \/ handleAdaptiveConcurrencyPolicy \/ handleAdaptiveConcurrencyRecommend
  \/ handleWorkerAutoscalingPolicy \/ handleWorkerAutoscalingRecommend
  \/ handleTenantPolicies \/ handleTenantAdmissionCheck
  \/ handleSchedulerPartitions \/ handleSchedulerPartitionDecision
  \/ handleQueueBackends \/ handleQueueBackendPolicy \/ handleQueueBackendAdmit

Spec == Init /\ [][Next]_vars

-----------------------------------------------------------------------------

\* The stores keep what their policies may be: bounds in order, thresholds apart, the
\* backend of the policy one there is.
TypeOK ==
  /\ CASE kind = "adaptive" -> policy \in AdaptiveConcurrencyPolicies
       [] kind = "workers" -> policy \in WorkerAutoscalingPolicies
       [] kind = "tenants" -> policy = NoLimits \/ policy \in TenantLimitPolicies
       [] kind = "partitions" -> policy \in Seq(SchedulerPartitionRules)
       [] kind = "backends" -> policy \in Seq(QueueBackends) /\ active \in QueueBackendPolicies
  /\ kind = "adaptive" => /\ 1 <= policy.min /\ policy.min <= policy.default /\ policy.default <= policy.max
                          /\ 0 < policy.start /\ policy.start < policy.critical
  /\ kind = "workers" => 1 <= policy.min /\ policy.min <= policy.max /\ workers \in Nat
  /\ kind = "backends" => {active.id} \cup active.failovers \subseteq DOMAIN policy

\* The advice on parallelism stays within the policy's bounds and goes the way its reasons
\* say: with failures or sick hosts it is never above what runs, unless a backlog lifts it
\* (degraded hosts do not stop that); a critical failure rate leaves the minimum; the
\* advice on workers, once it is on, never falls below the load nor moves away from it.
AdviceBounded ==
  answer.made =>
    CASE kind = "adaptive" ->
           LET base == clampInt(IF answer.in.current <= 0 THEN policy.default ELSE answer.in.current, policy.min, policy.max)
           IN /\ answer.parallel \in policy.min..policy.max
              /\ answer.in.rate >= policy.critical => answer.parallel = policy.min
              /\ answer.in.unhealthy \/ answer.in.rate >= policy.start \/ answer.in.backlog <= 200 => answer.parallel <= base
      [] kind = "workers" ->
           policy.enabled =>
             LET current == IF answer.in.current = 0 THEN policy.min ELSE answer.in.current
                 load == Load(policy, answer.in.depth)
             IN /\ workers \in load..policy.max
                /\ answer.in.slow < 0 /\ current > load => workers < current
                /\ current = load /\ answer.in.slow <= 0 => workers = current
      [] OTHER -> TRUE

\* What is admitted is within the limits that were in force: a tenant's runs and its share
\* of the queue, and for a backend that it and its failovers are enabled, that it is none
\* of them and that it is external when that was asked for.
AdmissionSound ==
  answer.made =>
    CASE kind = "tenants" ->
           answer.allowed /\ policy.set =>
             /\ answer.in.running + answer.in.asked <= policy.runs
             /\ answer.in.queued * 100 < (policy.share + 1) * answer.in.depth \/ answer.in.depth = 0
      [] kind = "backends" ->
           LET a == answer.admitted
           IN /\ \A f \in a.failovers : policy[f].enabled
              /\ a.allowed => /\ policy[a.selected].enabled
                              /\ a.selected \notin a.failovers
                              /\ answer.in.external => policy[a.selected].external
      [] OTHER -> TRUE

\* A workload stays on its shard as long as no rule is added for its tenant and
\* environment, whatever rules others get and in whatever order the map gives the rules.
ShardStays ==
  kind = "partitions" /\ answer.made =>
    \A decision \in Decide(answer.in) : decision.shard = answer.decision.shard
=============================================================================
