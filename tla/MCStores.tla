------------------------------ MODULE MCStores -------------------------------
(***************************************************************************)
(* The stores of the control plane and their handlers, for TLC.            *)
(*                                                                         *)
(* The stores share nothing that the models tell apart, so a behaviour has *)
(* one of them at work, chosen at the start.  They take turns with the     *)
(* variables v1, v2, ...: the instances below say which variable of a      *)
(* store each of them is, and the ones a store does not need are parked.   *)
(***************************************************************************)
EXTENDS Integers, Sequences, TLC

CONSTANTS
  a1, a2,   \* callers
  g1, g2    \* agents

VARIABLES
  store,   \* the store at work
  v1, v2, v3, v4, v5, v6, v7, v8, v9, v10, v11, v12, v13, v14

-----------------------------------------------------------------------------
(* Inputs *)

MCRules ==
  {[on |-> {"a"}, mode |-> "any", conds |-> <<[cmp |-> "", value |-> "x"], [cmp |-> "prefix", value |-> "y"]>>,
    actions |-> <<[type |-> "enqueue_apply", ref |-> "path"]>>, cooldown |-> 2],
   [on |-> {"a"}, mode |-> "", conds |-> <<[cmp |-> "ne", value |-> "x"], [cmp |-> "regex", value |-> "("]>>,
    actions |-> <<[type |-> "launch_workflow", ref |-> "flow"]>>, cooldown |-> -1]}

\* A strict template with a survey, and answers that lack, mistype or give the fields.
MCTemplate ==
  [strict |-> TRUE,
   survey |-> [a |-> [required |-> TRUE, type |-> "bool", enum |-> {"true", "0"}],
               b |-> [required |-> FALSE, type |-> "string", enum |-> {}]],
   defaults |-> [d |-> "x"],
   text |-> <<[fn |-> "plain", var |-> "a", fallback |-> ""], [fn |-> "default", var |-> "b", fallback |-> "z"],
              [fn |-> "plain", var |-> "d", fallback |-> ""]>>]
MCAnswers == {[a |-> "true"], [a |-> "1", b |-> "y"], [a |-> "0", b |-> "y"], [b |-> "y"]}

MCHosts ==
  [h \in 1..4 |-> [role |-> <<1, 2, 2, 3>>[h], domain |-> h % 2, class |-> IF h < 3 THEN 1 ELSE 2,
                   reboot |-> h = 2, healthy |-> h # 3]]

MCFlakePolicies ==
  {[auto |-> TRUE, min |-> 2, rate |-> 60, row |-> 2], [auto |-> FALSE, min |-> 2, rate |-> 60, row |-> 2],
   [auto |-> TRUE, min |-> 3, rate |-> 100, row |-> 2]}

Result(host, type, changed) == [host |-> host, type |-> type, changed |-> changed, skipped |-> FALSE]
MCRuns ==
  <<[at |-> 1, failed |-> FALSE, results |-> <<Result("h1", "file", TRUE), Result("h2", "file", TRUE)>>],
    [at |-> -1, failed |-> TRUE, results |-> <<Result("h2", "command", TRUE), Result("h1", "command", FALSE)>>]>>

MCConfigs ==
  {[steps |-> <<"a", "b", "c">>, depends |-> {<<"a", "b">>}, require |-> {<<"b", "c">>}],
   [steps |-> <<"b", "a", "d">>, depends |-> {<<"b", "d">>, <<"a", "d">>}, require |-> {}]}
MCCheckpoints ==
  {[order |-> 0, step |-> "a"], [order |-> 0, step |-> "b"], [order |-> 1, step |-> ""], [order |-> 2, step |-> "a"]}

MCArtifacts ==
  {[public |-> TRUE, signed |-> TRUE, key |-> "k1", sbom |-> TRUE, attested |-> TRUE],
   [public |-> TRUE, signed |-> FALSE, key |-> "", sbom |-> TRUE, attested |-> TRUE],
   [public |-> FALSE, signed |-> FALSE, key |-> "", sbom |-> FALSE, attested |-> FALSE]}
MCSigning == {[required |-> FALSE, trusted |-> {}], [required |-> TRUE, trusted |-> {"k1"}], [required |-> TRUE, trusted |-> {"k2"}]}
MCCertPolicies ==
  {[signed |-> FALSE, conformance |-> FALSE, rate |-> 0, high |-> 2, critical |-> 1, maintainer |-> 0],
   [signed |-> TRUE, conformance |-> TRUE, rate |-> 98, high |-> 0, critical |-> 0, maintainer |-> 80]}
MCEvidence ==
  {[conformance |-> TRUE, rate |-> 100, high |-> 0, critical |-> 0, maintainer |-> 90],
   [conformance |-> FALSE, rate |-> 98, high |-> 2, critical |-> 1, maintainer |-> 80],
   [conformance |-> TRUE, rate |-> 97, high |-> 0, critical |-> 0, maintainer |-> 79]}

\* Gates with every rule between them, and what is known of a pull request.
MCGates ==
  {[env |-> "prod", min |-> 0, checks |-> {"ci"}, reviewers |-> {"lead"}, block |-> {"other"}],
   [env |-> "prod", min |-> 2, checks |-> {}, reviewers |-> {}, block |-> {"low"}]}
MCPlans == [env : {""}, risk : {"", "low", "high"}, approvals : {1, 2}, checks : {{"ci"}}, reviewers : {{}, {"lead"}}]

Permission(resource, action, scope) == [resource |-> resource, action |-> action, scope |-> scope]
MCRoles ==
  {{}, {Permission(<<"*">>, <<"host">>, <<"eu", "web">>)},
   {Permission(<<"host">>, <<"*">>, <<>>), Permission(<<"disk">>, <<"host">>, <<"us">>)}}
MCPolicies ==
  [effect : {"allow", "deny"}, subject : {<<"*">>, <<"ann">>}, resource : {<<"*">>}, action : {<<"*">>, <<"host">>},
   when : {{}, {<<"net", "vpn">>}, {<<"net", "">>}}, priority : {0, 1}]
MCGrants ==
  [tenant : {"a", "b"}, env : {"*", "dev", ""}, principal : {<<"ann">>},
   scopes : {{<<>>}, {<<"host", "*">>}, {<<"^", "host">>}, {<<"*">>, <<"host">>}}]

-----------------------------------------------------------------------------
(* The stores *)

Grant == INSTANCE Grants WITH
  clock <- v1, policies <- v2, requests <- v3, grants <- v4, issuing <- v5, refused <- v6, revived <- v7,
  Actors <- {"ann", "ANN", "bob"}, Fold <- [x \in {"ann", "ANN", "bob"} |-> IF x = "bob" THEN "bob" ELSE "ann"],
  Policies <- {<<1, 2>>, <<0>>, <<>>}, TTLs <- {0, 1, 9}, MinTTL <- 1, DefaultTTL <- 2, MaxTTL <- 2,
  MaxRequests <- 1, MaxGrants <- 1, MaxWait <- 1, MaxClock <- 2

Token == INSTANCE Tokens WITH
  kind <- v1, clock <- v2, items <- v3, provider <- v4, uses <- v5, dead <- v6, revived <- v7,
  Scopes <- {"Deploy", "read"}, Lower <- [x \in {"Deploy", "read"} |-> IF x = "read" THEN "read" ELSE "deploy"],
  TTLs <- {0, 1, 9}, MinTTL <- 1, DefaultTTL <- 2, MaxTTL <- 3, MaxUses <- {0, 2, 3}, UsesLimit <- 2,
  MaxItems <- 1, MaxWait <- 1, MaxClock <- 4

Trigger == INSTANCE Triggers WITH
  kind <- v1, clock <- v2, items <- v3, ring <- v4, policy <- v5, jobs <- v6, pc <- v7, made <- v8, fired <- v9,
  ended <- v10,
  Callers <- {a1, a2}, Events <- [type : {"a"}, value : {"yz", "x"}], Rules <- MCRules,
  Related <- {<<"prefix", "yz", "y">>}, Malformed <- {"("},
  Keys <- {"", "k", "k "}, Trim <- [x \in {"", "k", "k "} |-> IF x = "k " THEN "k" ELSE x],
  AdHocPolicies <- [allow : BOOLEAN, reason : {TRUE}], Limit <- 2, MaxRules <- 2, MaxRequests <- 3, MaxClock <- 2

Alert == INSTANCE Alerts WITH
  kind <- v1, clock <- v2, items <- v3, muted <- v4, routing <- v5, targets <- v6, ring <- v7, pc <- v8, made <-
  v9, sent <- v10, due <- v11,
  Events <- [type : {"alert"}, sev : {"", "P0", "p0"}] \cup {[type |-> "plain", sev |-> ""]}, Lower <- [x \in {"", "P0", "p0"} |-> IF x = "" THEN "" ELSE "p0"],
  Policies <- {[s \in {"critical", "high", "medium", "low"} |-> r] : r \in {"pager", "mail"}}, Routes <- {"*", "pager"},
  Callers <- {a1, a2}, Cap <- 2, MaxTargets <- 2, MaxEvents <- 2, MaxMarks <- 1, MaxClock <- 1

Association == INSTANCE Associations WITH
  kind <- v1, clock <- v2, schedules <- v3, items <- v4, history <- v5, lock <- v6, pc <- v7, dropped <- v8,
  Callers <- {a1, a2}, Requests <- {[os |-> "linux", interval |-> 2, jitter |-> FALSE, preferred |-> ""]},
  Jobs <- {1, 2, 3}, Statuses <- {"running", "succeeded"}, Limit <- 2,
  MaxAssociations <- 2, MaxRevisions <- 4, MaxSchedules <- 3, MaxWait <- 1, MaxClock <- 2

Launch == INSTANCE Catalog WITH
  kind <- v1, templates <- v2, runbooks <- v3, files <- v4, pc <- v5, jobs <- v6, late <- v7, items <- v8,
  Callers <- {a1, a2}, Templates <- {MCTemplate}, Answers <- MCAnswers, Packs <- {"p"}, Risks <- {"low", "high"},
  Actors <- {"x"}, MaxTemplates <- 1, MaxRunbooks <- 1, MaxJobs <- 3, MaxItems <- 2, MaxDecisions <- 2

Topology == INSTANCE Syndic WITH
  nodes <- v1, readers <- v2, pc <- v3, routes <- v4,
  Callers <- {a1, a2}, Names <- {"a", "b", "c"}, MaxRoutes <- 2

Relay == INSTANCE Relays WITH
  kind <- v1, clock <- v2, items <- v3, messages <- v4, jobs <- v5, cache <- v6, pc <- v7, made <- v8,
  Callers <- {a1, a2}, Sites <- {"s", "t"}, Depths <- {1, 2}, Limits <- {1}, TTL <- 1,
  Endpoints <- {"e", "f"}, MaxSessions <- {1, 2}, Devices <- {"d"}, Proxies <- {"p", "q"}, Paths <- {"x", "y"},
  Statuses <- 2, CacheLimit <- 2, MaxMessages <- 2, MaxWait <- 1, MaxClock <- 2, MaxCalls <- 3

Rollout == INSTANCE Rollouts WITH
  kind <- v1, policy <- v2, plan <- v3,
  Hosts <- 1..4, HostOf <- MCHosts, Listings <- {<<1>>, <<3>>, <<4, 2, 1>>, <<2, 3, 2>>, <<4, 1, 4, 4>>, <<1, 3, 4, 2>>},
  Batches <- {0, 2, 5}, Percents <- {0, 50}, Hours <- 4

Upgrade == INSTANCE Upgrades WITH
  kind <- v1, items <- v2, channel <- v3, healthy <- v4, pc <- v5, made <- v6,
  Callers <- {a1, a2}, StageLists <- {<<>>, <<"a", "b", "a">>, <<"a", "a">>}, Digests <- {1, 2}, Nodes <- {1, 3},
  Sizes <- {0, 2}, Channels <- {"stable", "edge"}, Recoveries <- {0, 1, 5}, Targets <- {0, 2}, KeepRuns <- 2,
  MaxItems <- 2

Agent == INSTANCE Agents WITH
  kind <- v1, clock <- v2, pki <- v3, policy <- v4, evidence <- v5, until <- v6, csrs <- v7, certs <- v8, holder
  <- v9, sources <- v10, nodes <- v11, created <- v12, checkins <- v13, pc <- v14,
  Callers <- {a1, a2}, AgentIds <- {g1, g2}, Withins <- {0, 1}, Life <- 1, AskedProviders <- {{}, {"tpm"}}, Ages <- {1},
  Splay <- [a \in {g1, g2} |-> 6], Intervals <- {0, 3}, MaxEvidence <- 1, MaxCSRs <- [attest |-> 1, certs |-> 2], MaxCerts <- 3,
  MaxChanges <- 1, MaxWait <- 1, MaxClock <- 1

Advice == INSTANCE Capacity WITH
  kind <- v1, policy <- v2, active <- v3, workers <- v4, answer <- v5,
  ParallelPolicies <- [min : {0, 2}, max : {1, 20}, default : {3}, start : {0, 20}, critical : {15},
  degraded : {-1, 50}, unhealthy : {40}],
  WorkerPolicies <- [enabled : BOOLEAN, min : {1, 3}, max : {2, 5}, depth : {2}, up : {2}, down : {3}],
  Limits <- [runs : {0, 2}, share : {0, 30}], Levels <- {0, 1, 3, 20}, Rates <- {0, 15, 20}, Depths <- {0, 4, 7},
  Keys <- {"x", "y"}, HashOf <- [k \in {"x", "y"} |-> IF k = "x" THEN 5 ELSE 11],
  Rules <- [tenant : {1, 2}, env : {0, 1}, shard : {1, 2}, parallel : {5}], MaxRules <- 2, Backends <- 1..3

Observed == INSTANCE Observations WITH
  kind <- v1, clock <- v2, items <- v3, policy <- v4, pc <- v5, log <- v6,
  Targets <- {"t1", "t2"}, Percents <- {0, 50}, FlakePolicies <- MCFlakePolicies, MaxObserved <- 4,
  Runs <- MCRuns, Scopes <- {[of |-> "host", value |-> "h2"], [of |-> "type", value |-> "file"]},
  MaxEntries <- 2, MaxClock <- 1, SLOs <- {[target |-> 60, window |-> 1, min |-> 3, auto |-> TRUE]}, Windows <- {1},
  Hosts <- <<"h1", "h2">>, Types <- <<"command", "file">>, HistoryLimit <- 1,
  History <- 2, Configs <- MCConfigs, Checkpoints <- MCCheckpoints, MaxResumes <- 2

Comply == INSTANCE Compliance WITH
  kind <- v1, clock <- v2, items <- v3, store <- v4, pc <- v5, scans <- v6,
  Controls <- {"c1", "c2"}, Targets <- {"t1", "t2"}, Profiles <- {<<>>, <<"c2", "c1", "c2">>}, Teams <- {"team"},
  Passes <- [c \in {"c1", "c2"} |-> IF c = "c1" THEN {"t1", "t2"} ELSE {"t2"}], MaxClock <- 1, Year <- 1, MaxWait <- 1,
  MaxExceptions <- 1, MaxScans <- 2, Callers <- {a1, a2}, Groups <- {"g1", "g2"}, Lists <- {<<>>, <<"r">>, <<"s">>}, MaxPromotions <- 3,
  Locks <- {<<>>, <<[name |-> "a", digest |-> 1], [name |-> "a", digest |-> 2]>>}

Supplied == INSTANCE Supply WITH
  kind <- v1, items <- v2, policy <- v3, records <- v4, pc <- v5,
  Scopes <- {"image", "module"}, KeyScopes <- {{"other"}, {"image"}}, MaxKeys <- 2, Callers <- {a1}, Artifacts <- MCArtifacts,
  MaxArtifacts <- 1, SigningPolicies <- MCSigning, CertPolicies <- MCCertPolicies, Evidence <- MCEvidence,
  Healths <- {[rate |-> 50, latency |-> 12, cadence |-> 14, issues |-> 0]}, KeepResults <- 2, Refs <- {"a", "b"}, Pinned <- {"a"}, MaxBundles <- 2

Git == INSTANCE GitOps WITH
  kind <- v1, clock <- v2, items <- v3, jobs <- v4, files <- v5, pc <- v6, past <- v7,
  Callers <- {a1, a2}, TTLs <- {0, 3}, DefaultTTL <- 1, MaxTTL <- 2, Names <- {"prod", "dev"}, Branches <- {"main"}, Paths <- {"p"},
  Files <- {1, 2}, MaxVersion <- 2, MaxEdits <- 1, Gates <- MCGates, Plans <- MCPlans, MaxDrift <- 2, Keys <- {1, 2},
  MaxItems <- 2, MaxWait <- 1, MaxClock <- 3

Access == INSTANCE AccessRules WITH
  kind <- v1, clock <- v2, items <- v3, links <- v4,
  Subjects <- {<<"ann">>, <<"bob">>}, Resources <- {<<"host">>, <<"disk">>},
  Actions <- {<<"host", "reboot">>, <<"host">>, <<"hosts", "list">>}, Scopes <- {<<>>, <<"eu">>, <<"eu", "web">>, <<"us">>},
  RoleInputs <- MCRoles, PolicyInputs <- MCPolicies, Contexts <- {{}, {<<"net", "vpn">>}}, GrantInputs <- MCGrants,
  Tenants <- {"a", "b"}, Environments <- {"dev", "prod"}, MTLSInputs <- [min : {"", "1.3", "1.1"}, cert : BOOLEAN, allowed : {{}, {1}, {2}}],
  ExternalIds <- {"x", "y"}, MaxItems <- 2, MaxWait <- 1, MaxClock <- 1

Symmetry == {p @@ q : p \in Permutations({a1, a2}), q \in Permutations({g1, g2})}

-----------------------------------------------------------------------------
(* Parking the variables a store does not need *)

Off == "off"

From14 == <<v14>>
From13 == <<v13, From14>>
From12 == <<v12, From13>>
From11 == <<v11, From12>>
From10 == <<v10, From11>>
From9 == <<v9, From10>>
From8 == <<v8, From9>>
From7 == <<v7, From8>>
From6 == <<v6, From7>>
From5 == <<v5, From6>>
From4 == <<v4, From5>>
From3 == <<v3, From4>>
From2 == <<v2, From3>>

Park14 == v14 = Off
Park13 == v13 = Off /\ Park14
Park12 == v12 = Off /\ Park13
Park11 == v11 = Off /\ Park12
Park10 == v10 = Off /\ Park11
Park9 == v9 = Off /\ Park10
Park8 == v8 = Off /\ Park9
Park7 == v7 = Off /\ Park8
Park6 == v6 = Off /\ Park7
Park5 == v5 = Off /\ Park6
Park4 == v4 = Off /\ Park5

vars == <<store, v1, From2>>

Init ==
  \/ store = "grants" /\ Grant!GrantsInit /\ Park8
  \/ store = "tokens" /\ Token!TokensInit /\ Park8
  \/ store = "triggers" /\ Trigger!Init /\ Park11
  \/ store = "alerts" /\ Alert!Init /\ Park12
  \/ store = "associations" /\ Association!Init /\ Park9
  \/ store = "catalog" /\ Launch!Init /\ Park9
  \/ store = "syndic" /\ Topology!Init /\ Park5
  \/ store = "relays" /\ Relay!Init /\ Park9
  \/ store = "rollouts" /\ Rollout!Init /\ Park4
  \/ store = "upgrades" /\ Upgrade!Init /\ Park7
  \/ store = "agents" /\ Agent!Init
  \/ store = "capacity" /\ Advice!Init /\ Park6
  \/ store = "observations" /\ Observed!Init /\ Park7
  \/ store = "compliance" /\ Comply!Init /\ Park7
  \/ store = "supply" /\ Supplied!Init /\ Park6
  \/ store = "gitops" /\ Git!Init /\ Park8
  \/ store = "access" /\ Access!Init /\ Park5

Next ==
  \/ store = "grants" /\ Grant!GrantsNext /\ UNCHANGED <<store, From8>>
  \/ store = "tokens" /\ Token!TokensNext /\ UNCHANGED <<store, From8>>
  \/ store = "triggers" /\ Trigger!Next /\ UNCHANGED <<store, From11>>
  \/ store = "alerts" /\ Alert!Next /\ UNCHANGED <<store, From12>>
  \/ store = "associations" /\ Association!Next /\ UNCHANGED <<store, From9>>
  \/ store = "catalog" /\ Launch!Next /\ UNCHANGED <<store, From9>>
  \/ store = "syndic" /\ Topology!Next /\ UNCHANGED <<store, From5>>
  \/ store = "relays" /\ Relay!Next /\ UNCHANGED <<store, From9>>
  \/ store = "rollouts" /\ Rollout!Next /\ UNCHANGED <<store, From4>>
  \/ store = "upgrades" /\ Upgrade!Next /\ UNCHANGED <<store, From7>>
  \/ store = "agents" /\ Agent!Next /\ UNCHANGED store
  \/ store = "capacity" /\ Advice!Next /\ UNCHANGED <<store, From6>>
  \/ store = "observations" /\ Observed!Next /\ UNCHANGED <<store, From7>>
  \/ store = "compliance" /\ Comply!Next /\ UNCHANGED <<store, From7>>
  \/ store = "supply" /\ Supplied!Next /\ UNCHANGED <<store, From6>>
  \/ store = "gitops" /\ Git!Next /\ UNCHANGED <<store, From8>>
  \/ store = "access" /\ Access!Next /\ UNCHANGED <<store, From5>>

Spec == Init /\ [][Next]_vars

\* Resumed executions alone.
ResumeSpec ==
  /\ store = "observations" /\ Observed!Init /\ v1 = "resume" /\ Park7
  /\ [][Observed!Next /\ UNCHANGED <<store, From7>>]_vars

-----------------------------------------------------------------------------
(* Properties, as the modules of the stores define them *)

\* The type of every variable of the store at work.
TypeOK ==
  CASE store = "grants" -> Grant!GrantsTypeOK
    [] store = "tokens" -> Token!TokensTypeOK
    [] store = "triggers" -> Trigger!TypeOK
    [] store = "alerts" -> Alert!TypeOK
    [] store = "associations" -> Association!TypeOK
    [] store = "catalog" -> Launch!TypeOK
    [] store = "syndic" -> Topology!TypeOK
    [] store = "relays" -> Relay!TypeOK
    [] store = "rollouts" -> Rollout!TypeOK
    [] store = "upgrades" -> Upgrade!TypeOK
    [] store = "agents" -> Agent!TypeOK
    [] store = "capacity" -> Advice!TypeOK
    [] store = "observations" -> Observed!TypeOK
    [] store = "compliance" -> Comply!TypeOK
    [] store = "supply" -> Supplied!TypeOK
    [] store = "gitops" -> Git!TypeOK
    [] store = "access" -> Access!TypeOK

\* Whoever gets in was let in. A break-glass request has been active only with the quorum
\* of different people in every stage, whoever spells a name how, and a grant that names a
\* request was issued after that. A delegation token, a one-time secret or a pending login is
\* used no more often than it was issued for, and never again after a call has found it used
\* up, expired or revoked; an execution credential never again after its revocation (that it
\* expired is not noted). The certificates of an agent form chains without forks,
\* also while a renewal ranges over the map it grows, and a request was made or approved on
\* evidence that was good when the call began. An artifact is admitted by one policy,
\* whatever is set meanwhile, and a plan verifies only if it was signed as it is. Decisions
\* on access agree with one another: from a scope to those below it, from one spelling,
\* environment or version to the next, and never from one tenant to another.
AccessAuthorised ==
  /\ store = "grants" => Grant!QuorumMet
  /\ store = "tokens" => Token!UsesBounded /\ Token!EndIsFinal
  /\ store = "agents" => Agent!ChainSound /\ Agent!Attested
  /\ store = "supply" => Supplied!AdmittedByPolicy
  /\ store = "gitops" => Git!VerifiedWasSigned
  /\ store = "access" => Access!DecisionsConsistent

\* What changes the fleet has passed its gate. A deprecated runbook launches no more than the
\* calls already under way; answers of a launched template meet its survey; checklists and
\* change records show what was signed off. A patch is planned in its window, around midnight
\* too, and a reboot or disruption within what its policy leaves healthy. Tenants and queue
\* backends are admitted within the limits in force, and a health gate opens only on checks.
\* A scan waives a control only by an exception in force when it began, and drift is
\* corrected without a person only in the mode for it. A package passes the publication gate,
\* and a pull goes through, only with the signature and the evidence its policy asks for.
\* A pull request is let through only with what the gate that decided it asks for.
ChangesAuthorised ==
  /\ store = "catalog" => Launch!LaunchLag /\ Launch!LaunchChecked /\ Launch!SignedOff
  /\ store = "rollouts" => Rollout!PlanPermitted
  /\ store = "capacity" => Advice!AdmissionSound
  /\ store = "observations" => Observed!GateSound
  /\ store = "compliance" => Comply!WaiversSound /\ Comply!AutocorrectHeld
  /\ store = "supply" => Supplied!GateKept /\ Supplied!BadgePublishable /\ Supplied!PullsVerified
  /\ store = "gitops" => Git!ReviewsSound

\* An end is an end. A rejected, revoked or expired request or grant, a certificate that is
\* no longer active, a signing request that was decided, a promotion or an upgrade plan that
\* is completed or aborted, and an exception that was rejected or has lapsed stay what they
\* are, whatever call is still on its way, and an approved exception only lapses. A preview
\* does not come back by itself, a file sync that succeeded has copied every staged file, and
\* no call takes away access that bindings or grants give: only a policy that matches and
\* has the priority changes a decision.
EndsStay ==
  [][/\ store = "grants" => Grant!RefusalStep
     /\ store = "agents" => Agent!EndStep
     /\ store = "upgrades" => Upgrade!ProgressStep
     /\ store = "compliance" => Comply!ExceptionStep
     /\ store = "gitops" => Git!PreviewStep /\ Git!SyncStep
     /\ store = "access" => Access!DecisionStep]_vars

\* Limits hold when calls overlap. A rule fires once within its cooldown, whichever
\* evaluations run side by side; a site queues no more messages than its depth and delivers
\* none that lapsed before the call began; a bounded record of job states drops no entry
\* seen later than one it keeps by more than a call's wait. The advice on parallelism and
\* workers stays within its policy and goes the way its reasons say, and a workload stays on
\* its shard, in whatever order the map gives the partition rules.
LimitsHeld ==
  /\ store = "triggers" => Trigger!CooldownKept
  /\ store = "relays" => Relay!RelayBounded /\ Relay!CacheFollows
  /\ store = "associations" => Association!RecencyKept
  /\ store = "capacity" => Advice!AdviceBounded /\ Advice!ShardStays

\* Records agree with what happened, whatever came in between. A command has a job or a dead
\* letter, a trigger its job or its refusal, an ad-hoc command ran as its policy says; an alert counts
\* what was ingested; an event reaches each target that wanted it exactly once; a dispatch is
\* recorded with the job of its key; a schedule runs exactly for an enabled association,
\* whose revisions have no gap. A node is created once and has the status an operator gave it
\* last. A quarantine follows from the test's history, drift is hidden only by an entry that
\* covers it, a continuous configuration names a scan of its own target, and the promotions
\* of a bundle form a chain. A preview has a job of its own, a deployment the job of its key,
\* and the file of an environment has the digest one of them was stored with, unless two
\* calls wrote it at a time or the queue refused the job.
AccountsAgree ==
  /\ store = "triggers" => Trigger!Accounted
  /\ store = "alerts" => Alert!InboxAgrees /\ Alert!DeliveredOnce
  /\ store = "relays" => Relay!DispatchAgrees
  /\ store = "associations" => Association!SchedulesAgree /\ Association!RevisionsSound
  /\ store = "agents" => Agent!NodesAgree
  /\ store = "observations" => Observed!FlakesCounted /\ Observed!DriftHonest
  /\ store = "compliance" => Comply!ContinuousNamesOwn /\ Comply!PromotionsChain
  /\ store = "gitops" => Git!StoredAgrees

\* Plans cover what they were made for, in order. The waves of a rollout, deployment, reboot
\* or patch hold the hosts as often as they were listed, in order and within their size (a
\* deployment each of them once); a promotion has been through its stages one by one and an
\* upgrade plan has upgraded what its waves add up to; a canary upgrade that nobody came into
\* rolls back to the channel it began from; a resumed job runs no step its checkpoint has
\* behind it; and a node's parent in the syndic topology exists and is no minion, so that
\* every route leads from a master to its target.
PlansSound ==
  /\ store = "rollouts" => Rollout!WavesCover
  /\ store = "upgrades" => Upgrade!StepsInOrder /\ Upgrade!RollbackRestores
  /\ store = "observations" => Observed!ResumeRunsRest
  /\ store = "syndic" => Topology!TopologySound

\* The config a resume writes for the steps that are left is one the loader accepts.
ResumeLoads == Observed!ResumeLoads
=============================================================================
