------------------------------ MODULE Rollouts -------------------------------
(***************************************************************************)
(* Plans that take a fleet in waves: rollouts, artifact deployments,       *)
(* reboots, patches, and the disruption budgets plans are held against     *)
(* (rollout_controls.go, artifact_deployments.go, reboot_orchestration.go, *)
(* patch_management.go, disruption_budget.go of internal/control) with     *)
(* the handlers of internal/server.                                        *)
(*                                                                         *)
(* A store keeps one policy per environment, of which one is modelled; a   *)
(* plan is computed from the policy of the moment, or from a default when  *)
(* there is none.  The variable kind says which planner is at work.        *)
(* A listing may name a host more than once.  Only artifact deployments    *)
(* look for that; the others count and plan the host as often.             *)
(***************************************************************************)
EXTENDS Integers, Sequences, FiniteSets, SequencesExt

CONSTANTS
  Hosts,              \* hosts, numbers in the order of their names
  HostOf,             \* host -> [role, domain, class, reboot, healthy], the roles, domains and classes numbers
  Listings,           \* the sequences of hosts plans are asked for
  Batches, Percents,  \* values policies can have; 0 asks for the default
  Hours               \* hours in a day

VARIABLES
  kind,
  policy,   \* the policy of the environment, [set |-> FALSE] before there is one
  plan      \* the plan made last under it: [allowed, waves] with what it was asked for

vars == <<kind, policy, plan>>

Unset == [set |-> FALSE]
NoPlan == [made |-> FALSE]

Init ==
  /\ kind \in {"rollout", "artifact", "reboot", "patch", "budget"}
  /\ policy = Unset /\ plan = NoPlan

Or(value, default) == IF value <= 0 THEN default ELSE value
OrAbove(value, default) == IF value <= 0 \/ value > 100 THEN default ELSE value

\* The loop all planners share: i from 0 in steps of size, up to the length.
Chunks(seq, size) ==
  [w \in 1..(Len(seq) + size - 1) \div size |->
     SubSeq(seq, (w - 1) * size + 1, IF w * size > Len(seq) THEN Len(seq) ELSE w * size)]

\* The hosts of a listing, as often as they are in it, by a number each has and by name.
SortedBy(in, Number(_)) ==
  SortSeq(in, LAMBDA a, b : Number(a) < Number(b) \/ (Number(a) = Number(b) /\ a < b))

\* A plan is an answer and not stored: it is kept until the policy changes.
Planned(p) == plan' = p /\ UNCHANGED <<kind, policy>>
Configured(p) == policy' = p /\ plan' = NoPlan /\ UNCHANGED kind

-----------------------------------------------------------------------------
(* Rollouts *)

RolloutPolicies ==
  [set : {TRUE}, strategy : {"blue-green", "canary", "rolling"}, mode : {"serial", "batch", "percentage"},
   size : Nat \ {0}, percent : 1..100, canary : 1..100]
RolloutPlans == [made : {TRUE}, policy : RolloutPolicies, asked : Seq(Hosts), allowed : {TRUE}, waves : Seq(Seq(Hosts))]

UpsertRolloutPolicy(strategy, mode, size, percent, canary) ==
  Configured([set |-> TRUE, strategy |-> strategy, mode |-> mode, size |-> Or(size, 1),
              percent |-> OrAbove(percent, 25), canary |-> OrAbove(canary, 10)])

handleRolloutPolicies ==
  /\ kind = "rollout"
  /\ \E strategy \in {"blue-green", "canary", "rolling"}, mode \in {"serial", "batch", "percentage"},
        size \in Batches, percent, canary \in Percents : UpsertRolloutPolicy(strategy, mode, size, percent, canary)

Share(n, percent) == IF n * percent < 100 THEN 1 ELSE (n * percent) \div 100

rolloutWaves(p, targets) ==
  LET n == Len(targets)
      first == IF Share(n, p.canary) > n THEN n ELSE Share(n, p.canary)
      batch == CASE p.mode = "batch" -> p.size [] p.mode = "percentage" -> Share(n, p.percent) [] OTHER -> 1
  IN CASE p.strategy = "blue-green" -> <<targets, targets>>
       [] p.strategy = "canary" -> IF first < n THEN <<SubSeq(targets, 1, first), SubSeq(targets, first + 1, n)>> ELSE <<targets>>
       [] OTHER -> Chunks(targets, IF batch > n THEN n ELSE batch)

DefaultRollout == [set |-> TRUE, strategy |-> "rolling", mode |-> "serial", size |-> 1, percent |-> 25, canary |-> 10]

PlanRollout(in) ==
  LET p == IF policy.set THEN policy ELSE DefaultRollout IN
  Planned([made |-> TRUE, policy |-> p, asked |-> in, allowed |-> TRUE, waves |-> rolloutWaves(p, in)])

handleRolloutPlan == kind = "rollout" /\ \E in \in Listings : PlanRollout(in)

-----------------------------------------------------------------------------
(* Artifact deployments *)

\* Targets are asked for in any order and more than once; the checksum may be missing.
normalizeOrderedTargets(in) ==
  SelectSeq([i \in DOMAIN in |-> IF \E j \in 1..i - 1 : in[j] = in[i] THEN 0 ELSE in[i]], LAMBDA t : t # 0)

\* A deployment is stored even when it may not go; of those stored the last is kept.
ArtifactDeployments == [set : {TRUE}, asked : Seq(Hosts), targets : Seq(Hosts), size : Nat \ {0}, pinned : BOOLEAN]
ArtifactPlans == [made : {TRUE}, asked : Seq(Hosts), size : Nat \ {0}, allowed : BOOLEAN, waves : Seq(Seq(Hosts))]

artifactPlan(item) ==
  [made |-> TRUE, asked |-> item.asked, size |-> item.size, allowed |-> item.pinned,
   waves |-> IF item.pinned THEN Chunks(item.targets, item.size) ELSE <<>>]

CreateDeployment(in, size, pinned) ==
  LET targets == normalizeOrderedTargets(in)
      stage == IF Or(size, 1) > Len(targets) THEN Len(targets) ELSE Or(size, 1)
      item == [set |-> TRUE, asked |-> in, targets |-> targets, size |-> stage, pinned |-> pinned] IN
  policy' = item /\ plan' = artifactPlan(item) /\ UNCHANGED kind

handleArtifactDeployments ==
  kind = "artifact" /\ \E in \in Listings, size \in Batches, pinned \in BOOLEAN : CreateDeployment(in, size, pinned)

PlanByID == policy.set /\ Planned(artifactPlan(policy))

handleArtifactDeploymentAction == kind = "artifact" /\ PlanByID

-----------------------------------------------------------------------------
(* Reboots *)

RebootPolicies == [set : {TRUE}, size : Nat \ {0}, healthy : 1..100, order : Seq(Nat)]
RebootPlans == [made : {TRUE}, policy : RebootPolicies, asked : Seq(Hosts), allowed : BOOLEAN, waves : Seq(Seq(Hosts))]

normalizeOrderedRoleList(in) ==
  FoldLeft(LAMBDA out, role : IF role \in Range(out) THEN out ELSE Append(out, role), <<>>, in)

UpsertRebootPolicy(size, healthy, order) ==
  Configured([set |-> TRUE, size |-> Or(size, 1), healthy |-> OrAbove(healthy, 80), order |-> normalizeOrderedRoleList(order)])

handleRebootPolicies ==
  /\ kind = "reboot"
  /\ \E size \in Batches, healthy \in Percents, order \in {<<>>, <<2>>, <<2, 1, 2>>} : UpsertRebootPolicy(size, healthy, order)

\* The roles the policy orders first, then the others as the hosts name them.
roleOrder(order, in) ==
  FoldLeft(LAMBDA roles, h : IF HostOf[h].role \in Range(roles) THEN roles ELSE Append(roles, HostOf[h].role), order, in)

rebootWaves(p, in) ==
  LET order == roleOrder(p.order, in)
      ofRole(r) == SortedBy(SelectSeq(in, LAMBDA h : HostOf[h].role = r), LAMBDA h : HostOf[h].domain)
  IN FlattenSeq([i \in DOMAIN order |-> Chunks(ofRole(order[i]), p.size)])

DefaultReboot == [set |-> TRUE, size |-> 1, healthy |-> 80, order |-> <<>>]

PlanReboot(in) ==
  LET p == IF policy.set THEN policy ELSE DefaultReboot
      healthy == (Len(SelectSeq(in, LAMBDA h : HostOf[h].healthy)) * 100) \div Len(in)
      allowed == healthy >= p.healthy IN
  Planned([made |-> TRUE, policy |-> p, asked |-> in, allowed |-> allowed,
           waves |-> IF allowed THEN rebootWaves(p, in) ELSE <<>>])

handleRebootPlan == kind = "reboot" /\ \E in \in Listings : PlanReboot(in)

-----------------------------------------------------------------------------
(* Patches *)

PatchPolicies ==
  [set : {TRUE}, start : 0..Hours - 1, duration : 1..Hours, size : Nat \ {0},
   classes : SUBSET {HostOf[h].class : h \in Hosts}, approval : BOOLEAN]
PatchPlans ==
  [made : {TRUE}, policy : PatchPolicies, asked : Seq(Hosts), hour : 0..Hours - 1, approved : BOOLEAN,
   allowed : BOOLEAN, waves : Seq(Seq(Hosts))]

UpsertPatchPolicy(start, duration, size, classes, approval) ==
  Configured([set |-> TRUE, start |-> start, duration |-> duration, size |-> Or(size, 1), classes |-> classes,
              approval |-> approval])

handlePatchPolicies ==
  /\ kind = "patch"
  /\ \E start \in 0..Hours - 1, duration \in 1..Hours, size \in Batches, classes \in {{}, {1}}, approval \in BOOLEAN :
       UpsertPatchPolicy(start, duration, size, classes, approval)

\* Mutant: the window ends at midnight.
hourInOneDay(hour, start, duration) ==
  hour \in 0..Hours - 1 /\ hour >= start /\ hour < start + duration

hourInPatchWindow(hour, start, duration) ==
  LET end == (start + duration) % Hours IN
  /\ hour \in 0..Hours - 1
  /\ \/ duration >= Hours
     \/ IF start < end THEN hour >= start /\ hour < end ELSE hour >= start \/ hour < end

DefaultPatch ==
  [set |-> TRUE, start |-> 0, duration |-> Hours, size |-> 1, classes |-> {HostOf[h].class : h \in Hosts}, approval |-> FALSE]

\* The hosts of a listing whose class the policy allows; no classes allow all.
filtered(p, in) == SelectSeq(in, LAMBDA h : p.classes = {} \/ HostOf[h].class \in p.classes)

PlanPatch(in, hour, approved) ==
  LET p == IF policy.set THEN policy ELSE DefaultPatch
      chosen == filtered(p, in)
      allowed == /\ hourInPatchWindow(hour, p.start, p.duration)
                 /\ chosen # <<>>
                 /\ (\E h \in Range(chosen) : HostOf[h].reboot) /\ p.approval => approved
      order == SortedBy(chosen, LAMBDA h : HostOf[h].class)
  IN Planned([made |-> TRUE, policy |-> p, asked |-> in, hour |-> hour, approved |-> approved, allowed |-> allowed,
              waves |-> IF allowed THEN Chunks(order, p.size) ELSE <<>>])

handlePatchPlan == kind = "patch" /\ \E in \in Listings, hour \in 0..Hours - 1, approved \in BOOLEAN : PlanPatch(in, hour, approved)

-----------------------------------------------------------------------------
(* Disruption budgets *)

DisruptionBudgets == [set : {TRUE}, size : Nat \ {0}, healthy : 1..100]
DisruptionReports == [made : {TRUE}, policy : DisruptionBudgets, total : Nat, requested : Nat, allowed : BOOLEAN]

CreateBudget(size, healthy) ==
  Configured([set |-> TRUE, size |-> Or(size, 1),
              healthy |-> IF healthy <= 0 THEN 90 ELSE IF healthy > 100 THEN 100 ELSE healthy])

handleDisruptionBudgets == kind = "budget" /\ \E size \in Batches, healthy \in Percents : CreateBudget(size, healthy)

\* More may be asked for than there are.
EvaluateDisruptionBudget(b, total, requested) ==
  LET remaining == IF total - requested < 0 THEN 0 ELSE total - requested
      percent == IF total > 0 THEN (remaining * 100) \div total ELSE 100 IN
  requested <= b.size /\ percent >= b.healthy

handleDisruptionBudgetEvaluate ==
  /\ kind = "budget" /\ policy.set
  /\ \E total \in 0..Cardinality(Hosts), requested \in 0..Cardinality(Hosts) + 1 :
       Planned([made |-> TRUE, policy |-> policy, total |-> total, requested |-> requested,
                allowed |-> EvaluateDisruptionBudget(policy, total, requested)])

-----------------------------------------------------------------------------

Next ==
  \/ handleRolloutPolicies \/ handleRolloutPlan \/ handleArtifactDeployments \/ handleArtifactDeploymentAction
  \/ handleRebootPolicies \/ handleRebootPlan \/ handlePatchPolicies \/ handlePatchPlan
  \/ handleDisruptionBudgets \/ handleDisruptionBudgetEvaluate

Spec == Init /\ [][Next]_vars

-----------------------------------------------------------------------------
(* Properties *)

\* The type of every variable.
TypeOK ==
  /\ policy = Unset \/ policy \in CASE kind = "rollout" -> RolloutPolicies [] kind = "artifact" -> ArtifactDeployments
       [] kind = "reboot" -> RebootPolicies [] kind = "patch" -> PatchPolicies [] kind = "budget" -> DisruptionBudgets
  /\ plan = NoPlan \/ plan \in CASE kind = "rollout" -> RolloutPlans [] kind = "artifact" -> ArtifactPlans
       [] kind = "reboot" -> RebootPlans [] kind = "patch" -> PatchPlans [] kind = "budget" -> DisruptionReports

Sizes == {Len(plan.waves[w]) : w \in DOMAIN plan.waves}
InWave(w) == Range(plan.waves[w])
FirstListed(h) == SelectInSeq(plan.asked, LAMBDA g : g = h)

\* The waves of a plan that is allowed, one after the other, hold the hosts that were
\* listed as often as they were: a rollout in the order of the listing (with blue-green
\* both waves are it), a deployment each host once and where it was first listed, a reboot
\* all of them, a patch those whose class the policy allows, by class.  No wave is empty
\* or larger than the policy says, a canary no larger than its share; and the hosts of a
\* reboot wave have one role, those the policy orders first in the waves before.
WavesCover ==
  plan.made /\ plan.allowed /\ kind # "budget" =>
    LET all == FlattenSeq(plan.waves)  n == Len(plan.asked) IN
    /\ 0 \notin Sizes
    /\ kind = "artifact" =>
         /\ IsInjective(all) /\ Range(all) = Range(plan.asked)
         /\ \A i, j \in DOMAIN all : i < j => FirstListed(all[i]) < FirstListed(all[j])
         /\ \A k \in Sizes : k <= plan.size
    /\ kind = "rollout" => LET p == plan.policy IN
         /\ IF p.strategy = "blue-green" THEN plan.waves = <<plan.asked, plan.asked>> ELSE all = plan.asked
         /\ p.strategy = "canary" => Len(plan.waves[1]) = 1 \/ Len(plan.waves[1]) * 100 <= n * p.canary
         /\ p.strategy = "rolling" /\ p.mode = "percentage" => \A k \in Sizes : k = 1 \/ k * 100 <= n * p.percent
    /\ kind = "patch" =>
         /\ ToBag(all) = ToBag(filtered(plan.policy, plan.asked))
         /\ \A i, j \in DOMAIN all : i < j => HostOf[all[i]].class <= HostOf[all[j]].class
         /\ \A k \in Sizes : k <= plan.policy.size
    /\ kind = "reboot" =>
         /\ ToBag(all) = ToBag(plan.asked)
         /\ \A k \in Sizes : k <= plan.policy.size
         /\ \A w \in DOMAIN plan.waves : \A g, h \in InWave(w) : HostOf[g].role = HostOf[h].role
         /\ LET o == plan.policy.order IN
            \A v, w \in DOMAIN plan.waves : \A g \in InWave(v), h \in InWave(w), i \in DOMAIN o :
              HostOf[g].role = o[i] /\ HostOf[h].role \notin Range(SubSeq(o, 1, i)) => v < w

\* A patch is planned in the hours of the window counted from its start, around midnight
\* too, and in no other, and with a host that needs a reboot only when that has been
\* approved or need not be; a reboot only when enough of the hosts listed, each counted as
\* often as it is, are healthy; and a disruption within its budget leaves the share of
\* healthy targets it asks for.
PlanPermitted ==
  /\ plan.made /\ kind = "patch" =>
       LET open == \E k \in 0..plan.policy.duration - 1 : (plan.policy.start + k) % Hours = plan.hour
           chosen == filtered(plan.policy, plan.asked) IN
       /\ plan.allowed => open /\ (plan.policy.approval => plan.approved \/ \A h \in Range(chosen) : ~HostOf[h].reboot)
       /\ open /\ plan.approved /\ chosen # <<>> => plan.allowed
  /\ plan.made /\ plan.allowed /\ kind = "reboot" =>
       Cardinality({i \in DOMAIN plan.asked : HostOf[plan.asked[i]].healthy}) * 100 >= plan.policy.healthy * Len(plan.asked)
  /\ plan.made /\ plan.allowed /\ kind = "budget" =>
       /\ plan.requested <= plan.policy.size
       /\ plan.total > 0 => (plan.total - plan.requested) * 100 >= plan.policy.healthy * plan.total
=============================================================================
