----------------------------- MODULE Compliance ------------------------------
(***************************************************************************)
(* Compliance scans with their exceptions and continuous runs, the         *)
(* promotion of policy bundles and the enforcement modes of policies       *)
(* (compliance.go, policy_bundles.go, policy_enforcement_modes.go of       *)
(* internal/control) with the handlers of internal/server.                 *)
(*                                                                         *)
(* One profile, whose controls a scan evaluates one by one, one bundle and *)
(* one policy.  The variable kind says which store is at work.             *)
(***************************************************************************)
EXTENDS Integers, Sequences, FiniteSets, SequencesExt

CONSTANTS
  Controls, Targets,   \* controls, what is scanned
  Profiles,            \* lists of controls of profiles; a list may name one twice
  Teams,               \* teams that ask for scans; "" is none
  Passes,              \* control -> the targets it passes on: the hash the code decides by
  Year,                \* how far ahead an exception may end
  MaxWait,             \* bound: how old the time a call has read may be when it has the lock
  MaxClock,            \* bound: the clock
  MaxExceptions,       \* bound: exceptions asked for
  MaxScans,            \* bound: scans made
  Callers,             \* requests for a continuous run that overlap
  Groups, Lists,       \* policy groups and run lists; the empty list keeps the one there is
  MaxPromotions,       \* bound: promotions of the bundle
  Locks                \* lock files of bundles: sequences of [name, digest]

VARIABLES
  kind, clock,
  items,   \* exceptions in the order they were asked for; promotions of the bundle
  store,   \* scans: the profile and the continuous configuration of each target; bundles: the bundle; modes: the mode
  pc,      \* the calls of RunContinuousScan, or the answer of the last evaluation
  scans    \* the scans made, in order

vars == <<kind, clock, items, store, pc, scans>>

Idle == [at |-> "idle"]
NoConfig == [made |-> FALSE]


-----------------------------------------------------------------------------
(* What the stores hold, and what they hold at first *)

ComplianceProfiles == Seq(Controls) \ {<<>>}
ComplianceScans ==
  [target : Targets, team : Teams \cup {""}, at : 0..MaxClock, findings : Seq({"pass", "fail", "waived"}), score : 0..100, pass : BOOLEAN]
ComplianceExceptions ==
  [control : Controls, target : Targets, expires : 1..MaxClock + Year, status : {"pending", "approved", "rejected", "expired"}]
ComplianceContinuousConfigs == [made : {TRUE}, enabled : BOOLEAN, last : 0..MaxScans]
PolicyEnforcementModes == {"audit", "apply-and-monitor", "apply-and-autocorrect"}
PolicyBundlePromotions == [from : Groups, target : Groups, list : Lists]

NewComplianceStore == [profile |-> <<>>, configs |-> [t \in Targets |-> NoConfig]]
NewPolicyBundleStore == NoConfig
\* A policy without a mode is audited.
NewPolicyEnforcementStore == [mode |-> "audit"]

Init ==
  /\ kind \in {"scans", "bundles", "modes"}
  /\ clock = 0 /\ items = <<>> /\ scans = <<>>
  /\ store = CASE kind = "scans" -> NewComplianceStore
               [] kind = "bundles" -> NewPolicyBundleStore
               [] kind = "modes" -> NewPolicyEnforcementStore
  /\ pc = IF kind = "scans" THEN [c \in Callers |-> Idle] ELSE Idle

-----------------------------------------------------------------------------
(* Profiles *)

normalizeComplianceControls(in) == in # <<>>

CreateProfile(controls) ==
  /\ store.profile = <<>>
  /\ normalizeComplianceControls(controls)
  /\ store' = [store EXCEPT !.profile = controls]

handleComplianceProfiles ==
  /\ kind = "scans"
  /\ \E controls \in Profiles : CreateProfile(controls)
  /\ UNCHANGED <<kind, clock, items, pc, scans>>

-----------------------------------------------------------------------------
(* Exceptions *)

Tick ==
  /\ kind = "scans" /\ clock < MaxClock
  /\ clock' = clock + 1
  /\ UNCHANGED <<kind, items, store, pc, scans>>

profileHasControl(c) == c \in ToSet(store.profile)

\* A time a call read before it had the lock.
Nows == {t \in 0..clock : clock - t <= MaxWait}

CreateException(c, t, expires, now) ==
  /\ Len(items) < MaxExceptions
  /\ expires > now /\ expires <= now + Year /\ profileHasControl(c)
  /\ items' = Append(items, [control |-> c, target |-> t, expires |-> expires, status |-> "pending"])

expireExceptionsLocked(now) ==
  [i \in DOMAIN items |->
     IF items[i].status \in {"approved", "pending"} /\ now >= items[i].expires
     THEN [items[i] EXCEPT !.status = "expired"] ELSE items[i]]

\* Mutant: an exception is decided whatever its state.
decideAgain(i, decision, now) == items' = [expireExceptionsLocked(now) EXCEPT ![i].status = decision]

\* A decision that is refused because the exception lapsed has still marked it so.
decideException(i, decision, now) ==
  LET all == expireExceptionsLocked(now)
  IN items' = IF all[i].status = "pending" THEN [all EXCEPT ![i].status = decision] ELSE all

ApproveException(i, now) == decideException(i, "approved", now)
RejectException(i, now) == decideException(i, "rejected", now)
ListExceptions(now) == items' = expireExceptionsLocked(now)

handleComplianceExceptions ==
  /\ kind = "scans"
  /\ \E now \in Nows :
       \/ \E c \in Controls, t \in Targets, expires \in 1..MaxClock + Year + 1 : CreateException(c, t, expires, now)
       \/ ListExceptions(now)
  /\ UNCHANGED <<kind, clock, store, pc, scans>>

handleComplianceExceptionAction ==
  /\ kind = "scans"
  /\ \E i \in DOMAIN items, now \in Nows : ApproveException(i, now) \/ RejectException(i, now)
  /\ UNCHANGED <<kind, clock, store, pc, scans>>

-----------------------------------------------------------------------------
(* Scans *)

matchApprovedExceptionLocked(exceptions, c, t) ==
  \E i \in DOMAIN exceptions :
    /\ exceptions[i].status = "approved" /\ clock < exceptions[i].expires
    /\ exceptions[i].control = c /\ exceptions[i].target = t

evaluateComplianceControl(c, t) == IF t \in Passes[c] THEN "pass" ELSE "fail"

\* The findings of a scan, its score and its verdict; a waived control counts as one passed.
Scan(exceptions, t, team) ==
  LET findings == [i \in DOMAIN store.profile |->
                     IF matchApprovedExceptionLocked(exceptions, store.profile[i], t) THEN "waived"
                     ELSE evaluateComplianceControl(store.profile[i], t)]
      score == (Len(SelectSeq(findings, LAMBDA f : f # "fail")) * 100) \div Len(findings)
  IN [target |-> t, team |-> team, at |-> clock, findings |-> findings, score |-> score, pass |-> score >= 100]

\* What both callers of RunScan do; the exceptions that lapsed are marked first, by a time
\* read under the lock.
RunScan(t, team) ==
  /\ store.profile # <<>>
  /\ Len(scans) < MaxScans
  /\ items' = expireExceptionsLocked(clock)
  /\ scans' = Append(scans, Scan(items', t, team))

handleComplianceScans ==
  /\ kind = "scans"
  /\ \E t \in Targets, team \in Teams : RunScan(t, team)
  /\ UNCHANGED <<kind, clock, store, pc>>

\* The card of a team: how many scans, how many of them passed, and their mean score.  A scan
\* without a team, as the continuous ones are, is on no card.
ScorecardsByDimension(team) ==
  LET mine == SelectSeq(scans, LAMBDA s : s.team = team)
  IN [scans |-> Len(mine), passed |-> Len(SelectSeq(mine, LAMBDA s : s.pass)),
      average |-> FoldFunction(LAMBDA s, sum : sum + s.score, 0, mine) \div Len(mine)]

UpsertContinuousConfig(t, enabled) ==
  /\ store.profile # <<>>
  /\ store' = [store EXCEPT !.configs[t] = IF @.made THEN [@ EXCEPT !.enabled = enabled]
                                           ELSE [made |-> TRUE, enabled |-> enabled, last |-> 0]]

handleComplianceContinuous ==
  /\ kind = "scans"
  /\ \E t \in Targets, enabled \in BOOLEAN : UpsertContinuousConfig(t, enabled)
  /\ UNCHANGED <<kind, clock, items, pc, scans>>

\* RunContinuousScan holds the lock three times: to find the configuration enabled, for
\* the scan, and to note the scan.
BeginContinuous(c) ==
  /\ pc[c].at = "idle"
  /\ \E t \in Targets :
       /\ store.configs[t].made /\ store.configs[t].enabled
       /\ pc' = [pc EXCEPT ![c] = [at |-> "scan", target |-> t]]
  /\ UNCHANGED <<kind, clock, items, store, scans>>

ScanContinuous(c) ==
  /\ pc[c].at = "scan"
  /\ RunScan(pc[c].target, "")
  /\ pc' = [pc EXCEPT ![c] = [at |-> "note", target |-> pc[c].target, scan |-> Len(scans')]]
  /\ UNCHANGED <<kind, clock, store>>

NoteContinuous(c) ==
  /\ pc[c].at = "note"
  /\ store' = [store EXCEPT !.configs[pc[c].target].last = pc[c].scan]
  /\ pc' = [pc EXCEPT ![c] = Idle]
  /\ UNCHANGED <<kind, clock, items, scans>>

RunContinuousScan(c) == BeginContinuous(c) \/ ScanContinuous(c) \/ NoteContinuous(c)
handleComplianceContinuousAction == kind = "scans" /\ \E c \in Callers : RunContinuousScan(c)

-----------------------------------------------------------------------------
(* Policy bundles, one of them *)

\* Two entries of one name and version are refused; the digest covers the entries in
\* whatever order they came.
normalizePolicyLockEntries(in) == \A i, j \in DOMAIN in : in[i].name = in[j].name => i = j
policyLockDigest(entries) == ToSet(entries)

Create(group, list, lock) ==
  /\ ~store.made
  /\ normalizePolicyLockEntries(lock)
  /\ store' = [made |-> TRUE, group |-> group, list |-> list, lock |-> lock, digest |-> policyLockDigest(lock)]

handlePolicyBundles ==
  /\ kind = "bundles"
  /\ \E group \in Groups, list \in Lists, lock \in Locks : Create(group, list, lock)
  /\ UNCHANGED <<kind, clock, items, pc, scans>>

Promote(target, asked) ==
  LET list == IF asked = <<>> THEN store.list ELSE asked
  IN /\ items' = Append(items, [from |-> store.group, target |-> target, list |-> list])
     /\ store' = [store EXCEPT !.group = target, !.list = IF list = <<>> THEN @ ELSE list]

handlePolicyBundleAction ==
  /\ kind = "bundles" /\ store.made
  /\ Len(items) < MaxPromotions
  /\ \E target \in Groups, asked \in Lists : Promote(target, asked)
  /\ UNCHANGED <<kind, clock, pc, scans>>

-----------------------------------------------------------------------------
(* Enforcement modes *)

Upsert(mode) == mode \in PolicyEnforcementModes /\ store' = [mode |-> mode]

handlePolicyEnforcementModes ==
  /\ kind = "modes"
  /\ \E mode \in PolicyEnforcementModes : Upsert(mode)
  /\ pc' = Idle
  /\ UNCHANGED <<kind, clock, items, scans>>

\* A confidence of 0 is one nobody gave; the answer is kept until the mode changes.
EvaluateMode(drift, can, risky, confidence) ==
  LET held == risky \/ (confidence > 0 /\ confidence < 80)
  IN CASE store.mode = "apply-and-monitor" -> [action |-> "apply-and-monitor", blocked |-> FALSE]
       [] store.mode = "apply-and-autocorrect" ->
            [action |-> IF held \/ ~drift \/ ~can THEN "monitor-only" ELSE "apply-and-autocorrect", blocked |-> held]
       [] OTHER -> [action |-> "audit-only", blocked |-> FALSE]

handlePolicyEnforcementModeAction ==
  /\ kind = "modes"
  /\ \E drift, can, risky \in BOOLEAN, confidence \in {0, 79, 80} :
       pc' = [at |-> "answered", drift |-> drift, can |-> can, risky |-> risky, confidence |-> confidence,
              answer |-> EvaluateMode(drift, can, risky, confidence)]
  /\ UNCHANGED <<kind, clock, items, store, scans>>

-----------------------------------------------------------------------------

Next ==
  \/ Tick \/ handleComplianceProfiles \/ handleComplianceExceptions \/ handleComplianceExceptionAction
  \/ handleComplianceScans \/ handleComplianceContinuous \/ handleComplianceContinuousAction
  \/ handlePolicyBundles \/ handlePolicyBundleAction
  \/ handlePolicyEnforcementModes \/ handlePolicyEnforcementModeAction

Spec == Init /\ [][Next]_vars

-----------------------------------------------------------------------------

\* Every store holds what its types say.
TypeOK ==
  /\ kind = "scans" => /\ store.profile = <<>> \/ store.profile \in ComplianceProfiles
                       /\ \A t \in Targets : store.configs[t] = NoConfig \/ store.configs[t] \in ComplianceContinuousConfigs
                       /\ items \in Seq(ComplianceExceptions) /\ scans \in Seq(ComplianceScans)
  /\ kind = "bundles" => items \in Seq(PolicyBundlePromotions)
  /\ kind = "modes" => store.mode \in PolicyEnforcementModes

\* A scan waives a control only by an exception that was asked for this control and target,
\* was approved and had not lapsed when the scan began; it passes when every control
\* passed or is waived and then only; and the card of a team shows 100 only when none of its scans failed.
WaiversSound ==
  kind = "scans" =>
    /\ \A s \in DOMAIN scans :
         /\ \A j \in DOMAIN scans[s].findings : scans[s].findings[j] = "waived" =>
              \E i \in DOMAIN items :
                /\ items[i].control = store.profile[j] /\ items[i].target = scans[s].target
                /\ items[i].status \in {"approved", "expired"} /\ scans[s].at < items[i].expires
         /\ scans[s].pass <=> \A j \in DOMAIN scans[s].findings :
                                scans[s].findings[j] = "waived" \/ scans[s].target \in Passes[store.profile[j]]
    /\ \A team \in Teams \ {""} :
         LET mine == {s \in DOMAIN scans : scans[s].team = team}
         IN mine # {} => (ScorecardsByDimension(team).average = 100 <=> \A s \in mine : scans[s].pass)

\* An exception that was rejected or lapsed never waives again: its state is final, and an
\* approved one only lapses.
ExceptionStep ==
  kind = "scans" =>
    \A i \in DOMAIN items :
      /\ items[i].status \in {"rejected", "expired"} => items'[i] = items[i]
      /\ items[i].status = "approved" => items'[i].status \in {"approved", "expired"}
ExceptionEnds == [][ExceptionStep]_vars

\* A continuous configuration names a scan of its own target, whatever runs overlap; it may
\* be an older one than the newest, when a run that was overtaken notes its scan last.
ContinuousNamesOwn ==
  kind = "scans" =>
    \A t \in Targets : store.configs[t].made /\ store.configs[t].last > 0 =>
      store.configs[t].last <= Len(scans) /\ scans[store.configs[t].last].target = t

\* The promotions of a bundle form a chain that ends in the group the bundle is in, and no
\* promotion takes its run list away.
PromotionsChain ==
  kind = "bundles" /\ items # <<>> =>
    /\ \A i \in 1..Len(items) - 1 : items[i].target = items[i + 1].from
    /\ Last(items).target = store.group
    /\ Last(items).list = store.list
    /\ \A i \in 1..Len(items) - 1 : items[i].list # <<>> => items[i + 1].list # <<>>

\* Drift is corrected without a person only in the mode for it, and never when it is risky
\* or a simulation gave it less than 80 percent.
AutocorrectHeld ==
  kind = "modes" /\ pc.at = "answered" =>
    /\ pc.answer.action = "apply-and-autocorrect" =>
         store.mode = "apply-and-autocorrect" /\ pc.drift /\ pc.can /\ ~pc.risky /\ pc.confidence \notin 1..79
    /\ pc.answer.blocked => pc.answer.action = "monitor-only"
=============================================================================
