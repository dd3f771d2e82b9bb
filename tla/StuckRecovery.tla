---------------------------- MODULE StuckRecovery ----------------------------
(***************************************************************************)
(* The stuck-run detector: internal/control/stuck_recovery.go, its use by  *)
(* observeQueueBacklog and handleRecoverStuck in internal/server/server.go *)
(* and RecoverStuckJobs of the queue.                                      *)
(*                                                                         *)
(* Every notification of the queue ends in observeQueueBacklog, which      *)
(* makes an automatic check unless the last check is too recent.  An       *)
(* observer is a goroutine that delivers notifications or serves a manual  *)
(* recovery request; it reads the clock once and goes through three        *)
(* critical sections: PrepareAutoRun, RecoverStuckJobs, the recording.     *)
(***************************************************************************)
EXTENDS Integers, FiniteSets

CONSTANTS
  JobIds, Observers,
  Policies,     \* what callers pass to SetPolicy
  ManualAges,   \* what callers pass to handleRecoverStuck
  MaxTime,      \* bound on the clock
  MaxNotices,   \* bound on the notifications not yet observed
  MaxChecks     \* bound on the checks after which no manual one is asked for

Never == -1000    \* the zero time of LastCheckAt
DefaultPolicy == [enabled |-> TRUE, maxAge |-> 3, cooldown |-> 1]  \* scaled from 300s and 60s
Ready == [at |-> "idle", now |-> 0, maxAge |-> 0, found |-> {}]

\* There are finitely many jobs, and what callers pass are integers.
ASSUME DetectorAssumption ==
  /\ IsFiniteSet(JobIds) /\ MaxTime \in Nat
  /\ \A p \in Policies : p.enabled \in BOOLEAN /\ p.maxAge \in Int /\ p.cooldown \in Int
  /\ ManualAges \subseteq Int

VARIABLES
  status,          \* pending, running or another status of each job
  startedAt, clock,
  unobserved,      \* notifications whose subscribers have not been called
  policy, lastCheck, totalChecks, totalRecovered, lastRecovered,
  obs,             \* where each observer is
  recoveredJobs    \* jobs RecoverStuckJobs has failed (history variable)

storeVars == <<policy, lastCheck, totalChecks, totalRecovered, lastRecovered>>
detectorVars == <<status, startedAt, clock, unobserved, storeVars, obs, recoveredJobs>>

\* NewStuckRecoveryStore, and the observation at the end of Server.New.
DetectorInit ==
  /\ status = [j \in JobIds |-> "absent"]
  /\ startedAt = [j \in JobIds |-> 0]
  /\ clock = 0 /\ unobserved = 1
  /\ policy = DefaultPolicy /\ lastCheck = Never
  /\ totalChecks = 0 /\ totalRecovered = 0 /\ lastRecovered = 0
  /\ obs = [o \in Observers |-> Ready]
  /\ recoveredJobs = {}

-----------------------------------------------------------------------------
(* Jobs, as far as their age and their notifications go *)

\* Enqueue, Cancel, FailJob and the worker: each change is announced.
JobStep(j, from, to) ==
  /\ status[j] \in from
  /\ unobserved < MaxNotices
  /\ status' = [status EXCEPT ![j] = to]
  /\ startedAt' = IF to = "running" THEN [startedAt EXCEPT ![j] = clock] ELSE startedAt
  /\ unobserved' = unobserved + 1
  /\ UNCHANGED <<clock, storeVars, obs, recoveredJobs>>

Submit(j) == JobStep(j, {"absent"}, "pending")
Start(j) == (\A k \in JobIds : status[k] # "running") /\ JobStep(j, {"pending"}, "running")
End(j) == JobStep(j, {"pending", "running"}, "over")

Tick == clock < MaxTime /\ clock' = clock + 1
        /\ UNCHANGED <<status, startedAt, unobserved, storeVars, obs, recoveredJobs>>

-----------------------------------------------------------------------------
(* The detector *)

\* Mutant: SetPolicy checks nothing.
SetPolicyAny(p) ==
  /\ policy' = p
  /\ UNCHANGED <<status, startedAt, clock, unobserved, lastCheck, totalChecks, totalRecovered,
                 lastRecovered, obs, recoveredJobs>>

\* SetPolicy refuses a maximal age of zero or less and a negative cooldown.
SetPolicy(p) ==
  /\ p.maxAge > 0 /\ p.cooldown >= 0
  /\ policy' = p
  /\ UNCHANGED <<status, startedAt, clock, unobserved, lastCheck, totalChecks, totalRecovered,
                 lastRecovered, obs, recoveredJobs>>

\* observeQueueBacklog reads the clock.
Observe(o) ==
  /\ obs[o].at = "idle"
  /\ unobserved > 0 /\ unobserved' = unobserved - 1
  /\ obs' = [obs EXCEPT ![o] = [@ EXCEPT !.at = "prepare", !.now = clock]]
  /\ UNCHANGED <<status, startedAt, clock, storeVars, recoveredJobs>>

\* PrepareAutoRun lets a check go ahead.
Due(now) ==
  /\ policy.enabled
  /\ policy.cooldown > 0 /\ lastCheck # Never => now - lastCheck >= policy.cooldown

PrepareAutoRun(o) ==
  /\ obs[o].at = "prepare"
  /\ IF Due(obs[o].now)
     THEN /\ lastCheck' = obs[o].now
          /\ totalChecks' = totalChecks + 1
          /\ obs' = [obs EXCEPT ![o] = [@ EXCEPT !.at = "recover", !.maxAge = policy.maxAge]]
     ELSE obs' = [obs EXCEPT ![o] = Ready] /\ UNCHANGED <<lastCheck, totalChecks>>
  /\ UNCHANGED <<status, startedAt, clock, unobserved, policy, totalRecovered, lastRecovered, recoveredJobs>>

\* handleRecoverStuck.
ManualRecover(o, maxAge) ==
  /\ obs[o].at = "idle" /\ totalChecks < MaxChecks
  /\ obs' = [obs EXCEPT ![o] = [@ EXCEPT !.at = "recoverManual",
                                       !.maxAge = IF maxAge > 0 THEN maxAge ELSE policy.maxAge]]
  /\ UNCHANGED <<status, startedAt, clock, unobserved, storeVars, recoveredJobs>>

Stuck(maxAge) == {j \in JobIds : status[j] = "running" /\ clock - startedAt[j] >= maxAge}

\* RecoverStuckJobs; the failed jobs are announced from another goroutine.  It
\* reads the clock just before it locks the queue: an older reading could
\* only find fewer jobs.
RecoverStuckJobs(o) ==
  /\ obs[o].at \in {"recover", "recoverManual"}
  /\ LET stuck == Stuck(obs[o].maxAge) IN
     /\ status' = [j \in JobIds |-> IF j \in stuck THEN "over" ELSE status[j]]
     /\ unobserved' = unobserved + Cardinality(stuck)
     /\ recoveredJobs' = recoveredJobs \cup stuck
     /\ obs' = [obs EXCEPT ![o] = [@ EXCEPT !.at = IF obs[o].at = "recover" THEN "record" ELSE "stamp",
                                          !.found = stuck]]
  /\ UNCHANGED <<startedAt, clock, storeVars>>

\* handleRecoverStuck reads the clock before it takes the store's lock.
Stamp(o) ==
  /\ obs[o].at = "stamp"
  /\ obs' = [obs EXCEPT ![o] = [@ EXCEPT !.at = "recordManual", !.now = clock]]
  /\ UNCHANGED <<status, startedAt, clock, unobserved, storeVars, recoveredJobs>>

\* Mutant: the total is overwritten.
AddedOverwrites(total, found) == IF found > 0 THEN found ELSE total

\* recordRunResultLocked adds to the total.
Added(total, found) == total + found

\* RecordAutoRunResult and RecordManualRun.
Record(o) ==
  /\ obs[o].at \in {"record", "recordManual"}
  /\ lastRecovered' = Cardinality(obs[o].found)
  /\ totalRecovered' = Added(totalRecovered, Cardinality(obs[o].found))
  /\ IF obs[o].at = "recordManual"
     THEN lastCheck' = obs[o].now /\ totalChecks' = totalChecks + 1
     ELSE UNCHANGED <<lastCheck, totalChecks>>
  /\ obs' = [obs EXCEPT ![o] = Ready]
  /\ UNCHANGED <<status, startedAt, clock, unobserved, policy, recoveredJobs>>

Check(o) == Observe(o) \/ PrepareAutoRun(o) \/ RecoverStuckJobs(o) \/ Stamp(o) \/ Record(o)

DetectorNext ==
  \/ \E j \in JobIds : Submit(j) \/ Start(j) \/ End(j)
  \/ Tick
  \/ \E p \in Policies : SetPolicy(p)
  \/ \E o \in Observers : Check(o) \/ \E age \in ManualAges : ManualRecover(o, age)

DetectorSpec == DetectorInit /\ [][DetectorNext]_detectorVars

-----------------------------------------------------------------------------
(* Properties *)

\* The type of every variable.
DetectorTypeOK ==
  /\ status \in [JobIds -> {"absent", "pending", "running", "over"}]
  /\ startedAt \in [JobIds -> 0 .. MaxTime] /\ clock \in 0 .. MaxTime /\ unobserved \in Nat
  /\ policy.maxAge > 0 /\ policy.cooldown >= 0
  /\ lastCheck \in {Never} \cup 0 .. MaxTime
  /\ {totalChecks, totalRecovered, lastRecovered} \subseteq Nat
  /\ \A o \in Observers : obs[o].now <= clock

\* Jobs that a check has failed and not yet recorded.
FoundBy(o) == IF obs[o].at \in {"stamp", "record", "recordManual"} THEN obs[o].found ELSE {}
Unrecorded == UNION {FoundBy(o) : o \in Observers}

\* TotalRecovered accounts for every job the detector has failed once, also
\* when automatic and manual checks overlap: it counts those whose check has
\* been recorded, and no job is in the hands of two checks.
Accounted ==
  /\ totalRecovered = Cardinality(recoveredJobs \ Unrecorded)
  /\ \A o, p \in Observers : o # p => FoundBy(o) \cap FoundBy(p) = {}

=============================================================================
