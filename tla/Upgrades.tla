------------------------------ MODULE Upgrades -------------------------------
(***************************************************************************)
(* Changes that advance in steps: artifact promotions through stages       *)
(* (gitops_promotion.go), upgrade plans that take nodes in waves           *)
(* (upgrade_orchestration.go), canary upgrades that move a component to    *)
(* another channel and back (canary_upgrade.go, channels.go), failover     *)
(* drills (failover_drill.go) and the remotes content is synchronised from *)
(* (content_channels.go), with their handlers in internal/server.          *)
(*                                                                         *)
(* A store's method holds the store's lock, so it is one step; a handler   *)
(* that calls several of them is several steps of its caller, and other    *)
(* callers come between.  The variable kind says which store is at work.   *)
(***************************************************************************)
EXTENDS Integers, Sequences, FiniteSets, SequencesExt

CONSTANTS
  Callers,
  StageLists,          \* stage lists promotions are asked for
  Digests,             \* artifact digests
  Nodes, Sizes,        \* fleet sizes; wave sizes and unavailability limits, 0 for the default
  Channels,            \* "stable" and others
  Recoveries, Targets, \* drill recovery times and objectives, 0 for the default
  KeepRuns,            \* drill runs kept (5000)
  MaxItems             \* bound on the records made

VARIABLES
  kind,
  items,     \* the records of the store at work
  channel,   \* the channel the component is assigned, {} or one
  healthy,   \* whether the canaries are healthy
  pc,        \* caller -> where its canary upgrade stands
  made       \* records made

vars == <<kind, items, channel, healthy, pc, made>>

Idle == [at |-> "idle"]

Init ==
  /\ kind \in {"promotion", "upgrade", "canary", "drill", "remote"}
  /\ items = <<>> /\ channel = {} /\ healthy = TRUE
  /\ pc = [c \in Callers |-> Idle] /\ made = 0

Put(item) == made < MaxItems /\ made' = made + 1 /\ items' = Append(items, item)
Set(i, item) == items' = [items EXCEPT ![i] = item] /\ UNCHANGED made
Least(a, b) == IF a < b THEN a ELSE b
Or(value, default) == IF value <= 0 THEN default ELSE value

-----------------------------------------------------------------------------
(* What the stores hold *)

ChannelNames == {"stable", "candidate", "edge", "lts"}

GitOpsPromotions ==
  [stages : Seq(STRING), digest : Digests, index : Nat \ {0}, status : {"in_progress", "completed"}, history : Seq(STRING)]
UpgradeOrchestrationPlans ==
  [total : Nat \ {0}, size : Nat \ {0}, wave : Nat, upgraded : Nat,
   status : {"pending", "in_progress", "blocked", "completed", "aborted"}]
CanaryUpgradeRuns == [auto : BOOLEAN, status : {"completed", "rolled_back", "regression_detected"}]
RegionalFailoverDrillRuns == [n : Nat \ {0}, measured : BOOLEAN, recovery : Nat \ {0}, pass : BOOLEAN]
OrgSyncRemotes == [key : Channels, token : Digests, enabled : BOOLEAN]

-----------------------------------------------------------------------------
(* Promotions *)

normalizePromotionStages(in) ==
  FoldLeft(LAMBDA out, stage : IF stage \in Range(out) THEN out ELSE Append(out, stage),
           <<>>, IF in = <<>> THEN <<"staging", "canary", "production">> ELSE in)

CreatePromotion(in, digest) ==
  LET stages == normalizePromotionStages(in) IN
  /\ Len(stages) >= 2
  /\ Put([stages |-> stages, digest |-> digest, index |-> 1, status |-> "in_progress", history |-> <<stages[1]>>])

handleGitOpsPromotions ==
  /\ kind = "promotion"
  /\ \E in \in StageLists, digest \in Digests : CreatePromotion(in, digest)
  /\ UNCHANGED <<kind, channel, healthy, pc>>

AdvancePromotion(i, digest) ==
  LET p == items[i]  next == p.index + 1 IN
  /\ p.status # "completed" /\ digest = p.digest
  /\ Set(i, IF next > Len(p.stages) THEN [p EXCEPT !.status = "completed"]
            ELSE [p EXCEPT !.index = next, !.history = Append(@, p.stages[next]),
                           !.status = IF next = Len(p.stages) THEN "completed" ELSE @])

handleGitOpsPromotionAction ==
  /\ kind = "promotion"
  /\ \E i \in DOMAIN items, digest \in Digests : AdvancePromotion(i, digest)
  /\ UNCHANGED <<kind, channel, healthy, pc>>

-----------------------------------------------------------------------------
(* Upgrade plans *)

CreatePlan(total, size, unavailable) ==
  Put([total |-> total, size |-> Least(Or(size, Or(unavailable, 1)), total), wave |-> 0, upgraded |-> 0, status |-> "pending"])

handleUpgradeOrchestrationPlans ==
  /\ kind = "upgrade"
  /\ \E total \in Nodes, size, unavailable \in Sizes : CreatePlan(total, size, unavailable)
  /\ UNCHANGED <<kind, channel, healthy, pc>>

AdvancePlan(i, well) ==
  LET p == items[i]  upgraded == p.upgraded + Least(p.size, p.total - p.upgraded) IN
  /\ p.status \notin {"completed", "aborted"}
  /\ Set(i, IF ~well THEN [p EXCEPT !.status = "blocked"]
            ELSE [p EXCEPT !.wave = @ + 1, !.upgraded = upgraded,
                           !.status = IF upgraded >= p.total THEN "completed" ELSE "in_progress"])

Abort(i) == items[i].status # "completed" /\ Set(i, [items[i] EXCEPT !.status = "aborted"])

handleUpgradeOrchestrationPlanAction ==
  /\ kind = "upgrade"
  /\ \E i \in DOMAIN items : Abort(i) \/ \E well \in BOOLEAN : AdvancePlan(i, well)
  /\ UNCHANGED <<kind, channel, healthy, pc>>

-----------------------------------------------------------------------------
(* Canary upgrades *)

\* The assignment becomes to, c goes on with next, and whoever else is in the middle of
\* an upgrade has been disturbed.
SetChannel(to, c, next) ==
  /\ channel' = {to}
  /\ pc' = [d \in Callers |-> CASE d = c -> next
                              [] d # c /\ pc[d] # Idle -> [pc[d] EXCEPT !.disturbed = TRUE]
                              [] OTHER -> Idle]

handleChannels(c) ==
  /\ kind = "canary" /\ pc[c] = Idle
  /\ \E to \in Channels : SetChannel(to, c, Idle)
  /\ UNCHANGED <<kind, items, healthy, made>>

\* A probe of a canary (Canary.tla).
onJob ==
  /\ kind = "canary" /\ healthy' = ~healthy
  /\ UNCHANGED <<kind, items, channel, pc, made>>

ReadChannel(c) ==
  /\ kind = "canary" /\ pc[c] = Idle
  /\ \E to \in Channels, auto \in BOOLEAN :
       pc' = [pc EXCEPT ![c] = [at |-> "set", to |-> to, auto |-> auto, disturbed |-> FALSE, was |-> channel,
                                from |-> IF channel = {} THEN "stable" ELSE CHOOSE ch \in channel : TRUE]]
  /\ UNCHANGED <<kind, items, channel, healthy, made>>

BeginUpgrade(c) ==
  /\ pc[c].at = "set" /\ SetChannel(pc[c].to, c, [pc[c] EXCEPT !.at = "check"])
  /\ UNCHANGED <<kind, items, healthy, made>>

\* The canaries are read; a regression with auto_rollback goes back to the channel read.
CheckCanaries(c) ==
  /\ pc[c].at = "check"
  /\ pc' = [pc EXCEPT ![c].at = IF healthy THEN "completed" ELSE IF pc[c].auto THEN "roll" ELSE "regression_detected"]
  /\ UNCHANGED <<kind, items, channel, healthy, made>>

\* Mutant: a rollback goes to the stable channel, wherever the component was.
RollBackToStable(c) ==
  /\ pc[c].at = "roll" /\ SetChannel("stable", c, [pc[c] EXCEPT !.at = "rolled_back"])
  /\ UNCHANGED <<kind, items, healthy, made>>

RollBack(c) ==
  /\ pc[c].at = "roll" /\ SetChannel(pc[c].from, c, [pc[c] EXCEPT !.at = "rolled_back"])
  /\ UNCHANGED <<kind, items, healthy, made>>

\* Nothing but a listing reads the records of canary upgrades: the last is kept.
RecordUpgrade(c) ==
  /\ pc[c].at \in {"completed", "regression_detected", "rolled_back"}
  /\ items' = <<[auto |-> pc[c].auto, status |-> pc[c].at]>>
  /\ pc' = [pc EXCEPT ![c] = Idle]
  /\ UNCHANGED <<kind, channel, healthy, made>>

handleCanaryUpgrades(c) == ReadChannel(c) \/ BeginUpgrade(c) \/ CheckCanaries(c) \/ RollBack(c) \/ RecordUpgrade(c)

\* The agent protocols the channels support beside a control plane, and the check an agent is put to.
BuildSupportMatrix(plane) ==
  LET cp == Or(plane, 1)  least == IF cp - 1 < 1 THEN 1 ELSE cp - 1 IN
  [ch \in ChannelNames |-> [min |-> IF ch = "edge" THEN cp ELSE least, max |-> cp]]

CheckNMinusOneCompatibility(plane, agent) == plane > 0 /\ agent > 0 /\ agent <= plane /\ agent >= plane - 1

-----------------------------------------------------------------------------
(* Failover drills: times in half seconds *)

RunDrill(target, measured) ==
  LET objective == Or(2 * target, 600)
      recovery == Or(measured, IF objective - 2 < 1 THEN 1 ELSE objective - 2)
      run == [n |-> made + 1, measured |-> measured > 0, recovery |-> recovery, pass |-> recovery <= objective]
      all == Append(items, run) IN
  /\ made < MaxItems /\ made' = made + 1
  /\ items' = IF Len(all) > KeepRuns THEN SubSeq(all, Len(all) - KeepRuns + 1, Len(all)) ELSE all

Scorecards ==
  LET n == Len(items)  rs == {items[i].recovery : i \in DOMAIN items} IN
  [count |-> n, passes |-> Cardinality({i \in DOMAIN items : items[i].pass}),
   average |-> FoldLeft(LAMBDA sum, run : sum + run.recovery, 0, items) \div n,
   worst |-> CHOOSE r \in rs : \A q \in rs : q <= r]

handleRegionalFailoverDrills ==
  /\ kind = "drill"
  /\ \E target \in Targets, measured \in Recoveries : RunDrill(target, measured)
  /\ UNCHANGED <<kind, channel, healthy, pc>>

-----------------------------------------------------------------------------
(* Remotes of content channels: a remote is known by organization, channel and name *)

UpsertRemote(key, token, enabled) ==
  IF \E i \in DOMAIN items : items[i].key = key
  THEN \E i \in DOMAIN items : items[i].key = key /\ Set(i, [key |-> key, token |-> token, enabled |-> enabled])
  ELSE Put([key |-> key, token |-> token, enabled |-> enabled])

RotateRemoteToken(i, token) == Set(i, [items[i] EXCEPT !.token = token])

handleContentChannelRemotes ==
  /\ kind = "remote"
  /\ \E key \in Channels, token \in Digests, enabled \in BOOLEAN : UpsertRemote(key, token, enabled)
  /\ UNCHANGED <<kind, channel, healthy, pc>>

handleContentChannelRemoteAction ==
  /\ kind = "remote"
  /\ \E i \in DOMAIN items, token \in Digests : RotateRemoteToken(i, token)
  /\ UNCHANGED <<kind, channel, healthy, pc>>

-----------------------------------------------------------------------------

Next ==
  \/ handleGitOpsPromotions \/ handleGitOpsPromotionAction
  \/ handleUpgradeOrchestrationPlans \/ handleUpgradeOrchestrationPlanAction
  \/ onJob \/ \E c \in Callers : handleChannels(c) \/ handleCanaryUpgrades(c)
  \/ handleRegionalFailoverDrills \/ handleContentChannelRemotes \/ handleContentChannelRemoteAction

Spec == Init /\ [][Next]_vars

-----------------------------------------------------------------------------
(* Properties *)

\* The type of every variable.
TypeOK ==
  /\ Len(items) <= MaxItems /\ made \in 0..MaxItems
  /\ items \in Seq(CASE kind = "promotion" -> GitOpsPromotions [] kind = "upgrade" -> UpgradeOrchestrationPlans
                     [] kind = "canary" -> CanaryUpgradeRuns [] kind = "drill" -> RegionalFailoverDrillRuns
                     [] kind = "remote" -> OrgSyncRemotes)
  /\ channel \subseteq ChannelNames /\ Cardinality(channel) <= 1
  /\ healthy \in BOOLEAN
  /\ \A c \in Callers : pc[c].at \in {"idle", "set", "check", "roll", "completed", "rolled_back", "regression_detected"}

\* A promotion has been through its stages one by one from the first, none skipped and
\* none twice, and is completed exactly at the last; an upgrade plan has upgraded what its
\* waves add up to, never more nodes than there are, and is completed exactly when all
\* are; a drill whose recovery is not measured meets its objective; the runs kept are the
\* latest, and their worst recovery is no better than the average; a remote is kept once.
StepsInOrder ==
  /\ kind = "promotion" => \A i \in DOMAIN items : LET p == items[i] IN
       /\ p.history = SubSeq(p.stages, 1, p.index) /\ IsInjective(p.stages)
       /\ (p.status = "completed") = (p.index = Len(p.stages))
  /\ kind = "upgrade" => \A i \in DOMAIN items : LET p == items[i] IN
       /\ p.upgraded = Least(p.total, p.wave * p.size)
       /\ (p.status = "completed") = (p.upgraded = p.total)
  /\ kind = "drill" =>
       /\ \A i \in DOMAIN items : ~items[i].measured => items[i].pass
       /\ items # <<>> => Scorecards.average <= Scorecards.worst
       /\ \A i \in DOMAIN items : items[i].n = made - Len(items) + i
  /\ kind = "remote" => \A i, j \in DOMAIN items : items[i].key = items[j].key => i = j

\* A canary upgrade that rolls back, and into which no other change of the component's
\* channel came, leaves the channel the component was on, or stable if it was on none; one
\* that does not leaves the channel it went to; and only an upgrade asked to do so rolls
\* back.  What the support matrix says of the stable channel is what an agent's protocol is
\* checked against.
RollbackRestores ==
  /\ kind = "canary" => \A i \in DOMAIN items : items[i].status = "rolled_back" => items[i].auto
  /\ \A plane \in 1..3, agent \in 0..4 : LET row == BuildSupportMatrix(plane)["stable"] IN
       CheckNMinusOneCompatibility(plane, agent) = (agent \in row.min..row.max)
  /\ \A c \in Callers : LET u == pc[c] IN
       /\ u.at \in {"completed", "regression_detected"} /\ ~u.disturbed => channel = {u.to}
       /\ u.at = "rolled_back" /\ ~u.disturbed => channel = IF u.was = {} THEN {"stable"} ELSE u.was

\* A promotion that is completed, and a plan that is completed or aborted, makes no more
\* progress and never becomes active again, and the digest of a promotion is pinned.
ProgressStep ==
  kind \in {"promotion", "upgrade"} => \A i \in DOMAIN items : LET p == items[i]  q == items'[i] IN
    /\ p.status \in {"completed", "aborted"} => q = p
    /\ kind = "promotion" => q.digest = p.digest /\ q.index \in {p.index, p.index + 1}
    /\ kind = "upgrade" => q.upgraded >= p.upgraded
ProgressEnds == [][ProgressStep]_vars
=============================================================================
