-------------------------- MODULE ServiceInvariants --------------------------
(***************************************************************************)
(* The inductive invariants of the stuck-run detector, the scheduler and   *)
(* the event log, for any number of jobs, observers, schedules, loops,     *)
(* appenders and streams, and what follows from them.                      *)
(***************************************************************************)
EXTENDS StuckRecovery, Scheduler, EventLog, FiniteSetTheorems, TLAPS

\* Zenon proves a leaf unless the leaf names another prover.
USE Zenon

-----------------------------------------------------------------------------
(* The stuck-run detector *)

Observing ==
  [at : {"idle", "prepare", "recover", "recoverManual", "stamp", "record", "recordManual"}, now : 0 .. MaxTime,
   maxAge : Int, found : SUBSET JobIds]

ObserverTypes == obs \in [Observers -> Observing] /\ \A o \in Observers : obs[o].now <= clock

DetectorTypes ==
  /\ status \in [JobIds -> {"absent", "pending", "running", "over"}]
  /\ startedAt \in [JobIds -> 0 .. MaxTime] /\ clock \in 0 .. MaxTime /\ unobserved \in Nat
  /\ policy.maxAge \in Int /\ policy.maxAge > 0 /\ policy.cooldown \in Int /\ policy.cooldown >= 0
  /\ lastCheck \in {Never} \cup 0 .. MaxTime
  /\ totalChecks \in Nat /\ totalRecovered \in Nat /\ lastRecovered \in Nat
  /\ ObserverTypes
  /\ recoveredJobs \subseteq JobIds

\* Jobs in the hands of a check have been failed by it, and a failed job is over.
DetectorInv ==
  /\ DetectorTypes
  /\ \A j \in recoveredJobs : status[j] = "over"
  /\ \A o \in Observers : FoundBy(o) \subseteq recoveredJobs
  /\ Accounted

LEMMA DetectorStart == DetectorInit => DetectorInv
<1> SUFFICES ASSUME DetectorInit PROVE DetectorInv
  OBVIOUS
<1> USE DEF DetectorInit, Ready
<1>1. \A o \in Observers : FoundBy(o) = {}
  BY DEF FoundBy
<1>2. Unrecorded = {}
  BY <1>1 DEF Unrecorded
<1>3. Accounted
  <2>1. recoveredJobs \ Unrecorded = {} /\ totalRecovered = 0
    BY <1>2 DEF DetectorInit
  <2> QED
    BY <1>1, <2>1, FS_EmptySet DEF Accounted
<1>4. DetectorTypes
  BY DetectorAssumption, SMT DEF DetectorTypes, ObserverTypes, Observing, DefaultPolicy
<1> QED
  BY <1>1, <1>3, <1>4 DEF DetectorInv

LEMMA ObserverTyped ==
  ASSUME DetectorInv, NEW o \in Observers
  PROVE  /\ obs[o] \in Observing /\ obs[o].now \in 0 .. MaxTime /\ obs[o].now <= clock
         /\ clock \in 0 .. MaxTime /\ clock <= clock /\ policy.maxAge \in Int
         /\ Ready \in Observing /\ Ready.now <= clock
<1>1. obs[o] \in Observing /\ obs[o].now <= clock /\ clock \in 0 .. MaxTime /\ policy.maxAge \in Int
  BY DEF DetectorInv, DetectorTypes, ObserverTypes
<1>2. obs[o].now \in 0 .. MaxTime
  BY <1>1 DEF Observing
<1>3. 0 \in 0 .. MaxTime /\ 0 <= clock /\ clock <= clock /\ 0 \in Int
  BY <1>1, DetectorAssumption, SMT
<1> QED
  BY <1>1, <1>2, <1>3 DEF Ready, Observing

LEMMA ObserverStep ==
  ASSUME ObserverTypes, NEW o \in Observers, NEW r \in Observing, r.now <= clock, clock' = clock,
         obs' = [obs EXCEPT ![o] = r]
  PROVE  ObserverTypes'
<1>1. obs' \in [Observers -> Observing]
  BY DEF ObserverTypes
<1>2. \A p \in Observers : obs'[p] = IF p = o THEN r ELSE obs[p]
  BY DEF ObserverTypes
<1> QED
  BY <1>1, <1>2 DEF ObserverTypes

\* A step that leaves the jobs in the hands of the checks alone keeps the account.
LEMMA AccountKept ==
  ASSUME Accounted, totalRecovered' = totalRecovered, recoveredJobs' = recoveredJobs,
         \A o \in Observers : FoundBy(o)' = FoundBy(o)
  PROVE  Accounted'
<1>1. Unrecorded' = Unrecorded
  BY DEF Unrecorded
<1> QED
  BY <1>1 DEF Accounted

\* A change of a job is announced; a job that is over stays over.
LEMMA JobStepKeeps ==
  ASSUME DetectorInv, NEW j \in JobIds, NEW from, from \subseteq {"absent", "pending", "running"},
         NEW to \in {"pending", "running", "over"}, JobStep(j, from, to)
  PROVE  DetectorInv'
<1> USE DEF JobStep, storeVars
<1>1. DetectorTypes'
  BY SMT DEF DetectorInv, DetectorTypes, ObserverTypes, Observing
<1>2. \A o \in Observers : FoundBy(o)' = FoundBy(o)
  BY DEF FoundBy
<1>3. \A i \in recoveredJobs' : status'[i] = "over"
  BY SMT DEF DetectorInv, DetectorTypes, ObserverTypes, Observing
<1> QED
  BY <1>1, <1>2, <1>3, AccountKept DEF DetectorInv

\* A step of a check that finds no job and records none.
LEMMA CheckKeeps ==
  ASSUME DetectorInv, DetectorTypes', UNCHANGED <<status, totalRecovered, recoveredJobs>>,
         \A o \in Observers : FoundBy(o)' = FoundBy(o)
  PROVE  DetectorInv'
  BY AccountKept DEF DetectorInv

\* RecoverStuckJobs fails jobs that no check has failed before.
LEMMA RecoverKeeps ==
  ASSUME DetectorInv, NEW o \in Observers, RecoverStuckJobs(o)
  PROVE  DetectorInv'
<1> DEFINE stuck == Stuck(obs[o].maxAge)
<1>1. stuck \subseteq {j \in JobIds : status[j] = "running"}
  BY DEF Stuck
<1>2. /\ obs[o].at \in {"recover", "recoverManual"}
      /\ status' = [j \in JobIds |-> IF j \in stuck THEN "over" ELSE status[j]]
      /\ unobserved' = unobserved + Cardinality(stuck)
      /\ recoveredJobs' = recoveredJobs \cup stuck
      /\ obs' = [obs EXCEPT ![o] = [@ EXCEPT !.at = IF obs[o].at = "recover" THEN "record" ELSE "stamp", !.found = stuck]]
      /\ UNCHANGED <<startedAt, clock, policy, lastCheck, totalChecks, totalRecovered, lastRecovered>>
  BY DEF RecoverStuckJobs, storeVars
<1>3. IsFiniteSet(stuck) /\ Cardinality(stuck) \in Nat
  <2>1. stuck \subseteq JobIds
    BY <1>1
  <2> QED
    BY <2>1, DetectorAssumption, FS_Subset, FS_CardinalityType
<1> HIDE DEF stuck
<1>4. DetectorTypes'
  <2> DEFINE r == [obs[o] EXCEPT !.at = IF obs[o].at = "recover" THEN "record" ELSE "stamp", !.found = stuck]
  <2>1. r \in Observing /\ r.now <= clock
    <3>1. stuck \in SUBSET JobIds
      BY <1>1
    <3> QED
      BY <3>1, ObserverTyped DEF Observing
  <2>2. ObserverTypes'
    BY <1>2, <2>1, ObserverStep DEF DetectorInv, DetectorTypes
  <2> QED
    BY <1>1, <1>2, <1>3, <2>2, SMT DEF DetectorInv, DetectorTypes
<1>5. \A p \in Observers \ {o} : FoundBy(p)' = FoundBy(p)
  BY <1>2, SMT DEF FoundBy, DetectorInv, DetectorTypes, ObserverTypes, Observing
<1>6. FoundBy(o) = {} /\ FoundBy(o)' = stuck
  BY <1>2, SMT DEF FoundBy, DetectorInv, DetectorTypes, ObserverTypes, Observing
<1>7. stuck \cap recoveredJobs = {}
  BY <1>1 DEF DetectorInv
<1>8. Unrecorded' = Unrecorded \cup stuck
  BY <1>5, <1>6 DEF Unrecorded
<1>9. Unrecorded \subseteq recoveredJobs
  BY DEF Unrecorded, DetectorInv
<1>10. recoveredJobs' \ Unrecorded' = recoveredJobs \ Unrecorded
  BY <1>2, <1>7, <1>8
<1>11. ASSUME NEW p \in Observers, NEW q \in Observers, p # q
       PROVE  FoundBy(p)' \cap FoundBy(q)' = {}
  BY <1>5, <1>6, <1>7, <1>11 DEF DetectorInv, Accounted
<1>12. Accounted'
  BY <1>2, <1>10, <1>11 DEF DetectorInv, Accounted
<1>13. \A p \in Observers : FoundBy(p)' \subseteq recoveredJobs'
  BY <1>2, <1>5, <1>6 DEF DetectorInv
<1>14. \A j \in recoveredJobs' : status'[j] = "over"
  BY <1>1, <1>2 DEF DetectorInv, DetectorTypes, ObserverTypes, Observing
<1> QED
  BY <1>4, <1>12, <1>13, <1>14 DEF DetectorInv

\* recordRunResultLocked adds the jobs of one check to the total.
LEMMA RecordKeeps ==
  ASSUME DetectorInv, NEW o \in Observers, Record(o)
  PROVE  DetectorInv'
<1> DEFINE found == obs[o].found
<1>1. /\ obs[o].at \in {"record", "recordManual"}
      /\ lastRecovered' = Cardinality(found) /\ totalRecovered' = totalRecovered + Cardinality(found)
      /\ obs' = [obs EXCEPT ![o] = Ready]
      /\ UNCHANGED <<status, startedAt, clock, unobserved, policy, recoveredJobs>>
      /\ \/ lastCheck' = obs[o].now /\ totalChecks' = totalChecks + 1
         \/ UNCHANGED <<lastCheck, totalChecks>>
  BY DEF Record, Added
<1>2. found \subseteq JobIds /\ IsFiniteSet(found) /\ Cardinality(found) \in Nat
  BY DetectorAssumption, FS_Subset, FS_CardinalityType, SMT DEF DetectorInv, DetectorTypes, ObserverTypes, Observing
<1>3. FoundBy(o) = found
  BY <1>1 DEF FoundBy
<1> HIDE DEF found
<1>4. DetectorTypes'
  <2>1. Ready \in Observing /\ Ready.now <= clock /\ obs[o].now \in 0 .. MaxTime
    BY ObserverTyped
  <2>2. ObserverTypes'
    BY <1>1, <2>1, ObserverStep DEF DetectorInv, DetectorTypes
  <2> QED
    BY <1>1, <1>2, <2>1, <2>2, SMT DEF DetectorInv, DetectorTypes
<1>5. \A p \in Observers \ {o} : FoundBy(p)' = FoundBy(p)
  BY <1>1, SMT DEF FoundBy, DetectorInv, DetectorTypes, ObserverTypes, Observing
<1>6. FoundBy(o)' = {}
  BY <1>1, SMT DEF FoundBy, DetectorInv, DetectorTypes, ObserverTypes, Observing, Ready
<1>7. found \subseteq recoveredJobs
  BY <1>3 DEF DetectorInv
<1>8. \A p \in Observers \ {o} : FoundBy(p) \cap found = {}
  BY <1>3 DEF DetectorInv, Accounted
<1>9. Unrecorded' = Unrecorded \ found
  BY <1>3, <1>5, <1>6, <1>8 DEF Unrecorded
<1>10. found \subseteq Unrecorded
  BY <1>3 DEF Unrecorded
<1> DEFINE before == recoveredJobs \ Unrecorded
<1>11. recoveredJobs' \ Unrecorded' = before \cup found /\ before \cap found = {}
  BY <1>1, <1>7, <1>9, <1>10
<1>12. IsFiniteSet(before)
  BY DetectorAssumption, FS_Subset DEF DetectorInv, DetectorTypes, ObserverTypes, Observing
<1>13. totalRecovered = Cardinality(before)
  BY DEF DetectorInv, Accounted
<1>14. Cardinality(before \cup found) = Cardinality(before) + Cardinality(found)
  <2> HIDE DEF before
  <2>1. Cardinality(before \cup found) = Cardinality(before) + Cardinality(found) - Cardinality(before \cap found)
    BY <1>2, <1>12, FS_Union
  <2>2. Cardinality(before \cap found) = 0
    BY <1>11, FS_EmptySet
  <2>3. Cardinality(before) \in Nat
    BY <1>12, FS_CardinalityType
  <2> QED
    BY <1>2, <2>1, <2>2, <2>3, SMT
<1>15. \A p, q \in Observers : p # q => FoundBy(p)' \cap FoundBy(q)' = {}
  BY <1>5, <1>6 DEF DetectorInv, Accounted
<1>16. Accounted'
  BY <1>1, <1>11, <1>13, <1>14, <1>15 DEF Accounted
<1>17. \A p \in Observers : FoundBy(p)' \subseteq recoveredJobs'
  BY <1>1, <1>5, <1>6 DEF DetectorInv
<1> QED
  BY <1>1, <1>4, <1>16, <1>17 DEF DetectorInv

LEMMA DetectorStep == DetectorInv /\ [DetectorNext]_(detectorVars) => DetectorInv'
<1> SUFFICES ASSUME DetectorInv, [DetectorNext]_(detectorVars) PROVE DetectorInv'
  OBVIOUS
<1> USE DEF storeVars
<1>1. ASSUME NEW j \in JobIds, Submit(j) \/ Start(j) \/ End(j) PROVE DetectorInv'
  BY <1>1, JobStepKeeps DEF Submit, Start, End
<1>2. CASE Tick
  <2>1. DetectorTypes'
    BY <1>2, DetectorAssumption, SMT DEF DetectorInv, DetectorTypes, ObserverTypes, Observing, Tick
  <2>2. \A o \in Observers : FoundBy(o)' = FoundBy(o)
    BY <1>2 DEF Tick, FoundBy
  <2> QED
    BY <1>2, <2>1, <2>2, CheckKeeps DEF Tick
<1>3. ASSUME NEW p \in Policies, SetPolicy(p) PROVE DetectorInv'
  <2>1. DetectorTypes'
    BY <1>3, DetectorAssumption, SMT DEF DetectorInv, DetectorTypes, ObserverTypes, Observing, SetPolicy
  <2>2. \A o \in Observers : FoundBy(o)' = FoundBy(o)
    BY <1>3 DEF SetPolicy, FoundBy
  <2> QED
    BY <1>3, <2>1, <2>2, CheckKeeps DEF SetPolicy
<1>4. ASSUME NEW o \in Observers, Observe(o) PROVE DetectorInv'
  <2> DEFINE r == [obs[o] EXCEPT !.at = "prepare", !.now = clock]
  <2>1. DetectorTypes'
    <3>1. r \in Observing /\ r.now <= clock
      BY ObserverTyped DEF Observing
    <3>2. ObserverTypes'
      BY <1>4, <3>1, ObserverStep DEF DetectorInv, DetectorTypes, Observe
    <3> QED
      BY <1>4, <3>2, SMT DEF DetectorInv, DetectorTypes, Observe
  <2>2. \A p \in Observers : FoundBy(p)' = FoundBy(p)
    BY <1>4, SMT DEF Observe, FoundBy, DetectorInv, DetectorTypes, ObserverTypes, Observing
  <2> QED
    BY <1>4, <2>1, <2>2, CheckKeeps DEF Observe
<1>5. ASSUME NEW o \in Observers, PrepareAutoRun(o) PROVE DetectorInv'
  <2>1. DetectorTypes'
    <3> DEFINE r == [obs[o] EXCEPT !.at = "recover", !.maxAge = policy.maxAge]
    <3>1. r \in Observing /\ r.now <= clock /\ obs[o].now \in 0 .. MaxTime
      BY ObserverTyped DEF Observing
    <3>2. Ready \in Observing /\ Ready.now <= clock
      BY ObserverTyped
    <3>3. ObserverTypes'
      BY <1>5, <3>1, <3>2, ObserverStep DEF DetectorInv, DetectorTypes, PrepareAutoRun
    <3> QED
      BY <1>5, <3>1, <3>3, SMT DEF DetectorInv, DetectorTypes, PrepareAutoRun
  <2>2. \A p \in Observers : FoundBy(p)' = FoundBy(p)
    <3>1. obs[o].at = "prepare" /\ \A p \in Observers \ {o} : obs'[p] = obs[p]
      BY <1>5 DEF PrepareAutoRun, DetectorInv, DetectorTypes, ObserverTypes
    <3>2. obs'[o].at = "recover" \/ obs'[o].at = "idle"
      <4>1. \/ obs' = [obs EXCEPT ![o] = [@ EXCEPT !.at = "recover", !.maxAge = policy.maxAge]]
            \/ obs' = [obs EXCEPT ![o] = Ready]
        BY <1>5 DEF PrepareAutoRun
      <4>2. obs \in [Observers -> Observing] /\ obs[o] \in Observing
        BY DEF DetectorInv, DetectorTypes, ObserverTypes
      <4>3. [obs[o] EXCEPT !.at = "recover", !.maxAge = policy.maxAge].at = "recover"
        BY <4>2 DEF Observing
      <4>4. Ready.at = "idle"
        BY DEF Ready
      <4> QED
        BY <4>1, <4>2, <4>3, <4>4
    <3> QED
      BY <3>1, <3>2 DEF FoundBy
  <2> QED
    BY <1>5, <2>1, <2>2, CheckKeeps DEF PrepareAutoRun
<1>6. ASSUME NEW o \in Observers, RecoverStuckJobs(o) PROVE DetectorInv'
  BY <1>6, RecoverKeeps
<1>7. ASSUME NEW o \in Observers, Stamp(o) PROVE DetectorInv'
  <2>1. DetectorTypes'
    <3> DEFINE r == [obs[o] EXCEPT !.at = "recordManual", !.now = clock]
    <3>1. r \in Observing /\ r.now <= clock
      BY ObserverTyped DEF Observing
    <3>2. ObserverTypes'
      BY <1>7, <3>1, ObserverStep DEF DetectorInv, DetectorTypes, Stamp
    <3> QED
      BY <1>7, <3>2, SMT DEF DetectorInv, DetectorTypes, Stamp
  <2>2. \A p \in Observers : FoundBy(p)' = FoundBy(p)
    BY <1>7, SMT DEF Stamp, FoundBy, DetectorInv, DetectorTypes, ObserverTypes, Observing
  <2> QED
    BY <1>7, <2>1, <2>2, CheckKeeps DEF Stamp
<1>8. ASSUME NEW o \in Observers, Record(o) PROVE DetectorInv'
  BY <1>8, RecordKeeps
<1>9. ASSUME NEW o \in Observers, NEW age \in ManualAges, ManualRecover(o, age) PROVE DetectorInv'
  <2>1. DetectorTypes'
    <3> DEFINE r == [obs[o] EXCEPT !.at = "recoverManual", !.maxAge = IF age > 0 THEN age ELSE policy.maxAge]
    <3>1. r \in Observing /\ r.now <= clock
      BY DetectorAssumption, ObserverTyped DEF Observing
    <3>2. ObserverTypes'
      BY <1>9, <3>1, ObserverStep DEF DetectorInv, DetectorTypes, ManualRecover
    <3> QED
      BY <1>9, <3>2, SMT DEF DetectorInv, DetectorTypes, ManualRecover
  <2>2. \A p \in Observers : FoundBy(p)' = FoundBy(p)
    BY <1>9, SMT DEF ManualRecover, FoundBy, DetectorInv, DetectorTypes, ObserverTypes, Observing
  <2> QED
    BY <1>9, <2>1, <2>2, CheckKeeps DEF ManualRecover
<1>10. CASE UNCHANGED detectorVars
  <2>1. DetectorTypes' /\ \A o \in Observers : FoundBy(o)' = FoundBy(o)
    BY <1>10 DEF DetectorInv, DetectorTypes, ObserverTypes, Observing, FoundBy, detectorVars
  <2> QED
    BY <1>10, <2>1, CheckKeeps DEF detectorVars
<1> QED
  BY <1>1, <1>2, <1>3, <1>4, <1>5, <1>6, <1>7, <1>8, <1>9, <1>10 DEF DetectorNext, Check

-----------------------------------------------------------------------------
(* The scheduler *)

Looping ==
  [at : {"free", "wait", "maintenance", "backlog", "enqueue", "stamp"}, sched : Schedules \cup {Free},
   canceled : BOOLEAN, left : Seq(Targets), limit : Int]

LimitTypes ==
  /\ maxBacklog \in Nat \ {0} /\ maxExecutionCost \in Nat \ {0} /\ highest \in Nat
  /\ pending \in 0 .. QueueCapacity

ScheduleTypes ==
  /\ enabled \in [Schedules -> {"absent", "on", "off"}]
  /\ cancel \in [Schedules -> Loops \cup {Free}]

SchedulerTypes ==
  /\ ScheduleTypes /\ LimitTypes
  /\ loops \in [Loops -> Looping]
  /\ maintenance \subseteq Targets /\ unhealthy \subseteq Hosts
  /\ steady \in [Loops -> SUBSET Targets]

Live(l, s) == loops[l].at # "free" /\ loops[l].sched = s /\ ~loops[l].canceled

\* The live loops are those with a stored cancel function.
LiveInv ==
  /\ \A l \in Loops : loops[l].at # "free" => loops[l].sched \in Schedules
  /\ \A s \in Schedules, l \in Loops : Live(l, s) <=> cancel[s] = l
  /\ \A s \in Schedules : cancel[s] # Free => enabled[s] = "on"
  /\ \A s \in Schedules : enabled[s] = "on" /\ ~down => cancel[s] # Free

Enqueueing == {l \in Loops : loops[l].at = "enqueue"}

\* The loops that were let through have been counted.
OvershootInv ==
  /\ maxBacklog <= highest
  /\ \A l \in Loops : loops[l].at = "backlog" => loops[l].limit <= highest
  /\ pending + Cardinality(Enqueueing) < highest + Cardinality(Loops)

TargetsOf(l) == OptionsOf[loops[l].sched].targets

\* left is what remains of targets once a front free of elements of S is gone.
FrontFree(targets, left, S) ==
  /\ Len(left) <= Len(targets)
  /\ \A i \in 1 .. Len(left) : left[i] = targets[i + (Len(targets) - Len(left))]
  /\ \A i \in 1 .. Len(targets) - Len(left) : targets[i] \notin S

\* The targets looked up so far were not all the time in maintenance; the rest
\* is still to be looked up.
LookupInv(l) ==
  /\ steady[l] \subseteq maintenance
  /\ loops[l].at = "maintenance" => FrontFree(TargetsOf(l), loops[l].left, steady[l])
  /\ loops[l].at \in {"backlog", "enqueue"} =>
       \A i \in 1 .. Len(TargetsOf(l)) : TargetsOf(l)[i] \notin steady[l]

SchedulerInv == SchedulerTypes /\ LiveInv /\ OvershootInv /\ \A l \in Loops : LookupInv(l)

LEMMA SchedulerStart == SchedulerInit => SchedulerInv
<1> SUFFICES ASSUME SchedulerInit PROVE SchedulerInv
  OBVIOUS
<1> USE DEF SchedulerInit
<1>1. NoLoop \in Looping /\ NoLoop.at = "free"
  <2>1. << >> \in Seq(Targets) /\ 0 \in Int
    BY SMT
  <2> QED
    BY <2>1 DEF NoLoop, Looping
<1>2. loops \in [Loops -> Looping] /\ \A l \in Loops : loops[l].at = "free"
  BY <1>1
<1>3. LimitTypes
  BY SchedulerAssumption, SMT DEF LimitTypes
<1>4. SchedulerTypes
  BY <1>2, <1>3 DEF SchedulerTypes, ScheduleTypes
<1>5. LiveInv
  BY <1>2, SchedulerAssumption DEF LiveInv, Live
<1>6. OvershootInv
  <2>1. Enqueueing = {}
    BY <1>2 DEF Enqueueing
  <2>2. Cardinality(Loops) \in Nat /\ Cardinality(Enqueueing) = 0
    BY <2>1, SchedulerAssumption, FS_CardinalityType, FS_EmptySet
  <2> QED
    BY <1>2, <2>2, SchedulerAssumption, SMT DEF OvershootInv
<1>7. \A l \in Loops : LookupInv(l)
  BY <1>2 DEF LookupInv
<1> QED
  BY <1>4, <1>5, <1>6, <1>7 DEF SchedulerInv

\* One goroutine moves on.
LEMMA LoopStep ==
  ASSUME SchedulerInv, NEW l \in Loops, NEW r \in Looping, loops' = [loops EXCEPT ![l] = r]
  PROVE  loops' \in [Loops -> Looping] /\ loops'[l] = r /\ \A m \in Loops \ {l} : loops'[m] = loops[m]
  BY DEF SchedulerInv, SchedulerTypes

\* The loops that are alive stay so, for the same schedules.
LEMMA LiveKept ==
  ASSUME LiveInv, UNCHANGED <<enabled, cancel, down>>,
         \A l \in Loops : /\ loops'[l].at = "free" <=> loops[l].at = "free"
                          /\ loops'[l].sched = loops[l].sched /\ loops'[l].canceled = loops[l].canceled
  PROVE  LiveInv'
<1>1. \A s \in Schedules, l \in Loops : Live(l, s)' <=> Live(l, s)
  BY DEF Live
<1> QED
  BY <1>1 DEF LiveInv

\* What the lookup of a target depends on.
LEMMA LookupKept ==
  ASSUME NEW l \in Loops, LookupInv(l), loops'[l].at = loops[l].at, loops'[l].sched = loops[l].sched,
         loops'[l].left = loops[l].left, steady'[l] = steady[l], maintenance' = maintenance
  PROVE  LookupInv(l)'
  BY DEF LookupInv, TargetsOf

\* A loop is let through by the limit, or its length of the queue is not
\* looked at.
LEMMA OvershootKept ==
  ASSUME OvershootInv, LimitTypes, LimitTypes', Enqueueing' = Enqueueing, pending' <= pending, highest <= highest',
         maxBacklog' <= highest', \A l \in Loops : loops[l].limit \in Int,
         \A l \in Loops : loops'[l].at = "backlog" => \/ loops[l].at = "backlog" /\ loops'[l].limit = loops[l].limit
                                                      \/ loops'[l].limit = maxBacklog
  PROVE  OvershootInv'
<1>1. Cardinality(Loops) \in Nat
  BY SchedulerAssumption, FS_CardinalityType
<1>2. IsFiniteSet(Enqueueing)
  <2>1. Enqueueing \subseteq Loops
    BY DEF Enqueueing
  <2> QED
    BY <2>1, SchedulerAssumption, FS_Subset
<1>3. Cardinality(Enqueueing) \in Nat
  BY <1>2, FS_CardinalityType
<1>4. pending' + Cardinality(Enqueueing') < highest' + Cardinality(Loops)
  <2>1. pending + Cardinality(Enqueueing) < highest + Cardinality(Loops)
    BY DEF OvershootInv
  <2> QED
    BY <1>1, <1>3, <2>1, SMT DEF LimitTypes
<1>5. \A l \in Loops : loops'[l].at = "backlog" => loops'[l].limit <= highest'
  <2>1. ASSUME NEW n \in Int, n <= highest PROVE n <= highest'
    BY <2>1, SMT DEF LimitTypes
  <2>2. maxBacklog <= highest'
    BY SMT DEF OvershootInv, LimitTypes
  <2> QED
    BY <2>1, <2>2 DEF OvershootInv
<1> QED
  BY <1>4, <1>5 DEF OvershootInv

\* SetMaintenance: a target counts as steady only while it is in maintenance.
LEMMA MaintenanceKeeps ==
  ASSUME SchedulerInv, NEW t \in Targets, NEW on \in BOOLEAN, SetMaintenance(t, on)
  PROVE  SchedulerInv'
<1> USE DEF SetMaintenance, limitVars
<1>1. SchedulerTypes'
  BY DEF SchedulerInv, SchedulerTypes, ScheduleTypes, LimitTypes
<1>2. LiveInv' /\ OvershootInv'
  <2>1. Enqueueing' = Enqueueing
    BY DEF Enqueueing
  <2> QED
    BY <2>1, LiveKept DEF SchedulerInv, OvershootInv
<1>3. ASSUME NEW l \in Loops PROVE LookupInv(l)'
  <2>1. LookupInv(l) /\ steady'[l] = steady[l] \cap maintenance'
    BY DEF SchedulerInv
  <2>2. steady'[l] \subseteq steady[l] /\ steady'[l] \subseteq maintenance'
    BY <2>1
  <2> QED
    BY <2>1, <2>2 DEF LookupInv, TargetsOf, FrontFree
<1> QED
  BY <1>1, <1>2, <1>3 DEF SchedulerInv

\* SetCapacity, SetHostHealth, the worker and the emergency stop leave the
\* loops alone.
LEMMA SettingKeeps ==
  ASSUME SchedulerInv, LimitTypes', unhealthy' \subseteq Hosts, pending' <= pending, highest <= highest',
         maxBacklog' <= highest', UNCHANGED <<enabled, cancel, loops, maintenance, steady, down>>
  PROVE  SchedulerInv'
<1>1. SchedulerTypes'
  BY DEF SchedulerInv, SchedulerTypes, ScheduleTypes
<1>2. LiveInv'
  BY LiveKept DEF SchedulerInv
<1>3. OvershootInv'
  <2>1. Enqueueing' = Enqueueing
    BY DEF Enqueueing
  <2>2. \A l \in Loops : loops[l].limit \in Int
    BY DEF SchedulerInv, SchedulerTypes, Looping
  <2> QED
    BY <2>1, <2>2, OvershootKept DEF SchedulerInv, SchedulerTypes
<1>4. \A l \in Loops : LookupInv(l)'
  BY DEF SchedulerInv, LookupInv, TargetsOf
<1> QED
  BY <1>1, <1>2, <1>3, <1>4 DEF SchedulerInv

\* startLocked: the new goroutine is the only live one of its schedule.
LEMMA StartedKeeps ==
  ASSUME SchedulerInv, NEW s \in Schedules, NEW l \in Loops, enabled[s] # "on", Started(s, l)
  PROVE  SchedulerInv'
<1> USE DEF Started, limitVars
<1> DEFINE r == [NoLoop EXCEPT !.at = "wait", !.sched = s]
<1>1. r \in Looping /\ r.at = "wait" /\ r.sched = s /\ r.canceled = FALSE
  <2>1. << >> \in Seq(Targets) /\ 0 \in Int
    BY SMT
  <2> QED
    BY <2>1 DEF NoLoop, Looping
<1>2. loops' \in [Loops -> Looping] /\ loops'[l] = r /\ \A m \in Loops \ {l} : loops'[m] = loops[m]
  BY <1>1, LoopStep
<1> HIDE DEF r
<1>3. SchedulerTypes'
  BY <1>2 DEF SchedulerInv, SchedulerTypes, ScheduleTypes, LimitTypes
<1>4. cancel[s] = Free /\ loops[l].at = "free"
  BY DEF SchedulerInv, LiveInv
<1>5. /\ cancel'[s] = l /\ \A t \in Schedules \ {s} : cancel'[t] = cancel[t]
      /\ enabled'[s] = "on" /\ \A t \in Schedules \ {s} : enabled'[t] = enabled[t]
  BY DEF SchedulerInv, SchedulerTypes, ScheduleTypes
<1>6. LiveInv'
  <2>1. \A m \in Loops : loops'[m].at # "free" => loops'[m].sched \in Schedules
    BY <1>1, <1>2 DEF SchedulerInv, LiveInv
  <2>2. \A t \in Schedules : Live(l, t)' <=> cancel'[t] = l
    <3>1. ASSUME NEW t \in Schedules PROVE cancel[t] # l
      <4>1. Live(l, t) <=> cancel[t] = l
        BY DEF SchedulerInv, LiveInv
      <4> QED
        BY <1>4, <4>1 DEF Live
    <3>2. \A t \in Schedules : Live(l, t)' <=> t = s
      BY <1>1, <1>2 DEF Live
    <3> QED
      BY <1>5, <3>1, <3>2
  <2>3. \A t \in Schedules, m \in Loops \ {l} : Live(m, t)' <=> cancel'[t] = m
    <3> SUFFICES ASSUME NEW t \in Schedules, NEW m \in Loops \ {l} PROVE Live(m, t)' <=> cancel'[t] = m
      OBVIOUS
    <3>1. Live(m, t)' <=> Live(m, t)
      BY <1>2 DEF Live
    <3>2. Live(m, t) <=> cancel[t] = m
      BY DEF SchedulerInv, LiveInv
    <3>3. Free \notin Loops
      BY SchedulerAssumption
    <3>4. CASE t = s
      BY <1>4, <1>5, <3>1, <3>2, <3>3, <3>4
    <3>5. CASE t # s
      BY <1>5, <3>1, <3>2, <3>5
    <3> QED
      BY <3>4, <3>5
  <2>4. l # Free
    BY SchedulerAssumption
  <2>5. \A t \in Schedules, m \in Loops : Live(m, t)' <=> cancel'[t] = m
    BY <2>2, <2>3
  <2>6. ASSUME NEW t \in Schedules
        PROVE  (cancel'[t] # Free => enabled'[t] = "on") /\ (enabled'[t] = "on" /\ ~down' => cancel'[t] # Free)
    <3>1. CASE t = s
      BY <1>5, <2>4, <3>1
    <3>2. CASE t # s
      BY <1>5, <3>2 DEF SchedulerInv, LiveInv
    <3> QED
      BY <3>1, <3>2
  <2> QED
    BY <2>1, <2>5, <2>6 DEF LiveInv
<1>7. OvershootInv'
  <2>1. Enqueueing' = Enqueueing
    BY <1>1, <1>2, <1>4 DEF Enqueueing
  <2>2. \A m \in Loops : loops'[m].at = "backlog" => loops[m].at = "backlog" /\ loops'[m].limit = loops[m].limit
    BY <1>1, <1>2
  <2> QED
    BY <2>1, <2>2 DEF SchedulerInv, OvershootInv
<1>8. ASSUME NEW m \in Loops PROVE LookupInv(m)'
  <2>1. CASE m = l
    BY <1>1, <1>2, <2>1 DEF SchedulerInv, LookupInv
  <2>2. CASE m # l
    BY <1>2, <2>2, LookupKept DEF SchedulerInv
  <2> QED
    BY <2>1, <2>2
<1> QED
  BY <1>3, <1>6, <1>7, <1>8 DEF SchedulerInv

\* Disable and Shutdown: the loops of some schedules are canceled.
LEMMA CancelKeeps ==
  ASSUME SchedulerInv, NEW S \in SUBSET Schedules, ScheduleTypes',
         loops' = [l \in Loops |-> IF \E s \in S : cancel[s] = l THEN [loops[l] EXCEPT !.canceled = TRUE] ELSE loops[l]],
         \A s \in S : cancel'[s] = Free /\ (enabled'[s] # "on" \/ down'),
         \A s \in Schedules \ S : cancel'[s] = cancel[s] /\ enabled'[s] = enabled[s], down => down',
         UNCHANGED <<maxBacklog, maxExecutionCost, unhealthy, highest, maintenance, pending, steady>>
  PROVE  SchedulerInv'
<1>1. ASSUME NEW l \in Loops
      PROVE  /\ loops'[l] \in Looping /\ loops'[l].at = loops[l].at /\ loops'[l].sched = loops[l].sched
             /\ loops'[l].left = loops[l].left /\ loops'[l].limit = loops[l].limit
             /\ loops'[l].canceled = IF \E s \in S : cancel[s] = l THEN TRUE ELSE loops[l].canceled
  <2>1. loops[l] \in Looping
    BY DEF SchedulerInv, SchedulerTypes
  <2>2. CASE \E s \in S : cancel[s] = l
    <3>1. loops'[l] = [loops[l] EXCEPT !.canceled = TRUE]
      BY <2>2
    <3> QED
      BY <2>1, <2>2, <3>1 DEF Looping
  <2>3. CASE ~ \E s \in S : cancel[s] = l
    <3>1. loops'[l] = loops[l]
      BY <2>3
    <3> QED
      BY <2>1, <2>3, <3>1
  <2> QED
    BY <2>2, <2>3
<1>2. loops' \in [Loops -> Looping]
  BY <1>1
<1>3. SchedulerTypes'
  BY <1>2 DEF SchedulerInv, SchedulerTypes, LimitTypes
<1>4. ASSUME NEW l \in Loops, NEW t \in Schedules PROVE Live(l, t)' <=> cancel'[t] = l
  <2>0. Live(l, t) <=> cancel[t] = l
    BY DEF SchedulerInv, LiveInv
  <2>1. CASE t \in S
    <3>1. cancel'[t] # l
      BY <2>1, SchedulerAssumption
    <3>2. ASSUME Live(l, t)' PROVE FALSE
      <4>1. ~ \E s \in S : cancel[s] = l
        BY <1>1, <3>2 DEF Live
      <4>2. Live(l, t)
        BY <1>1, <3>2, <4>1 DEF Live
      <4> QED
        BY <2>0, <2>1, <4>1, <4>2
    <3> QED
      BY <3>1, <3>2
  <2>2. CASE t \notin S /\ \E s \in S : cancel[s] = l
    <3>1. PICK s \in S : cancel[s] = l
      BY <2>2
    <3>2. Live(l, s)
      BY <3>1 DEF SchedulerInv, LiveInv
    <3>3. s # t /\ loops[l].sched = s
      BY <2>2, <3>2 DEF Live
    <3>4. ~Live(l, t) /\ ~Live(l, t)'
      BY <1>1, <3>3 DEF Live
    <3> QED
      BY <2>0, <2>2, <3>4
  <2>3. CASE t \notin S /\ ~ \E s \in S : cancel[s] = l
    <3>1. Live(l, t)' <=> Live(l, t)
      BY <1>1, <2>3 DEF Live
    <3> QED
      BY <2>0, <2>3, <3>1
  <2> QED
    BY <2>1, <2>2, <2>3
<1>5. ASSUME NEW t \in Schedules
      PROVE  (cancel'[t] # Free => enabled'[t] = "on") /\ (enabled'[t] = "on" /\ ~down' => cancel'[t] # Free)
  <2>1. CASE t \in S
    BY <2>1
  <2>2. CASE t \notin S
    BY <2>2 DEF SchedulerInv, LiveInv
  <2> QED
    BY <2>1, <2>2
<1>6. LiveInv'
  BY <1>1, <1>4, <1>5 DEF SchedulerInv, LiveInv
<1>7. OvershootInv'
  <2>0. \A l \in Loops : loops'[l].at = loops[l].at /\ loops'[l].limit = loops[l].limit
    BY <1>1
  <2>1. Enqueueing' = Enqueueing
    BY ONLY <2>0 DEF Enqueueing
  <2>2. OvershootInv /\ UNCHANGED <<maxBacklog, highest, pending>>
    BY DEF SchedulerInv
  <2> QED
    BY ONLY <2>0, <2>1, <2>2 DEF OvershootInv
<1>8. \A l \in Loops : LookupInv(l)'
  BY <1>1, LookupKept DEF SchedulerInv
<1> QED
  BY <1>3, <1>6, <1>7, <1>8 DEF SchedulerInv

LEMMA DisableKeeps ==
  ASSUME SchedulerInv, NEW s \in Schedules, Disable(s)
  PROVE  SchedulerInv'
<1> USE DEF Disable, limitVars
<1>1. ScheduleTypes' /\ cancel'[s] = Free /\ enabled'[s] = "off"
  BY DEF SchedulerInv, SchedulerTypes, ScheduleTypes
<1>2. \A t \in Schedules \ {s} : cancel'[t] = cancel[t] /\ enabled'[t] = enabled[t]
  BY DEF SchedulerInv, SchedulerTypes, ScheduleTypes
<1>3. loops' = [l \in Loops |-> IF \E t \in {s} : cancel[t] = l THEN [loops[l] EXCEPT !.canceled = TRUE] ELSE loops[l]]
  <2>1. \A l \in Loops : (\E t \in {s} : cancel[t] = l) <=> l = cancel[s]
    OBVIOUS
  <2> QED
    BY <2>1
<1>4. {s} \in SUBSET Schedules
  OBVIOUS
<1> QED
  BY <1>1, <1>2, <1>3, <1>4, CancelKeeps

LEMMA ShutdownKeeps ==
  ASSUME SchedulerInv, Shutdown
  PROVE  SchedulerInv'
<1> USE DEF Shutdown, limitVars
<1>1. ScheduleTypes' /\ \A t \in Schedules : cancel'[t] = Free
  BY DEF SchedulerInv, SchedulerTypes, ScheduleTypes
<1> QED
  BY <1>1, CancelKeeps

\* Exit: the loop that returns was canceled.
LEMMA ExitKeeps ==
  ASSUME SchedulerInv, NEW l \in Loops, Exit(l)
  PROVE  SchedulerInv'
<1> USE DEF Exit, OnlyLoops, limitVars
<1>1. NoLoop \in Looping /\ NoLoop.at = "free"
  <2>1. << >> \in Seq(Targets) /\ 0 \in Int
    BY SMT
  <2> QED
    BY <2>1 DEF NoLoop, Looping
<1>2. loops' \in [Loops -> Looping] /\ loops'[l].at = "free" /\ \A m \in Loops \ {l} : loops'[m] = loops[m]
  BY <1>1, LoopStep
<1>3. SchedulerTypes'
  BY <1>2 DEF SchedulerInv, SchedulerTypes, ScheduleTypes, LimitTypes
<1>4. ASSUME NEW m \in Loops, NEW t \in Schedules PROVE Live(m, t)' <=> cancel'[t] = m
  <2>1. Live(m, t) <=> cancel[t] = m
    BY DEF SchedulerInv, LiveInv
  <2>2. CASE m = l
    BY <1>2, <2>1, <2>2 DEF Live
  <2>3. CASE m # l
    BY <1>2, <2>1, <2>3 DEF Live
  <2> QED
    BY <2>2, <2>3
<1>5. LiveInv'
  <2>1. ASSUME NEW m \in Loops, loops'[m].at # "free" PROVE loops'[m].sched \in Schedules
    BY <1>2, <2>1 DEF SchedulerInv, LiveInv
  <2> QED
    BY <1>4, <2>1 DEF SchedulerInv, LiveInv
<1>6. OvershootInv'
  <2>1. Enqueueing' = Enqueueing
    BY <1>2 DEF Enqueueing
  <2> QED
    BY <1>2, <2>1 DEF SchedulerInv, OvershootInv
<1>7. ASSUME NEW m \in Loops PROVE LookupInv(m)'
  <2>1. CASE m = l
    BY <1>2, <2>1 DEF SchedulerInv, LookupInv
  <2>2. CASE m # l
    BY <1>2, <2>2, LookupKept DEF SchedulerInv
  <2> QED
    BY <2>1, <2>2
<1> QED
  BY <1>3, <1>5, <1>6, <1>7 DEF SchedulerInv

\* A dispatch moves on; the limit and the lookup are its own affair.
LEMMA MoveKeeps ==
  ASSUME SchedulerInv, NEW l \in Loops, NEW r \in Looping, loops' = [loops EXCEPT ![l] = r],
         loops[l].at # "free", r.at # "free", r.sched = loops[l].sched, r.canceled = loops[l].canceled,
         steady' \in [Loops -> SUBSET Targets], \A m \in Loops \ {l} : steady'[m] = steady[m],
         UNCHANGED <<down, enabled, cancel, maxBacklog, maxExecutionCost, unhealthy, highest, maintenance>>,
         LimitTypes', LookupInv(l)', OvershootInv'
  PROVE  SchedulerInv'
<1>1. loops' \in [Loops -> Looping] /\ loops'[l] = r /\ \A m \in Loops \ {l} : loops'[m] = loops[m]
  BY LoopStep
<1>2. SchedulerTypes'
  BY <1>1 DEF SchedulerInv, SchedulerTypes, ScheduleTypes
<1>3. ASSUME NEW m \in Loops
      PROVE  /\ loops'[m].at = "free" <=> loops[m].at = "free"
             /\ loops'[m].sched = loops[m].sched /\ loops'[m].canceled = loops[m].canceled
  <2>1. CASE m = l
    BY <1>1, <2>1
  <2>2. CASE m # l
    BY <1>1, <2>2
  <2> QED
    BY <2>1, <2>2
<1>4. LiveInv'
  BY <1>3, LiveKept DEF SchedulerInv
<1>5. ASSUME NEW m \in Loops PROVE LookupInv(m)'
  <2>1. CASE m = l
    BY <2>1
  <2>2. CASE m # l
    BY <1>1, <2>2, LookupKept DEF SchedulerInv
  <2> QED
    BY <2>1, <2>2
<1> QED
  BY <1>2, <1>4, <1>5 DEF SchedulerInv

\* ... and where it neither enters nor leaves the enqueue, only its limit
\* matters.
LEMMA QuietKeeps ==
  ASSUME SchedulerInv, NEW l \in Loops, NEW r \in Looping, loops' = [loops EXCEPT ![l] = r],
         loops[l].at # "enqueue", r.at # "enqueue", r.at = "backlog" => r.limit = maxBacklog,
         UNCHANGED <<maxBacklog, maxExecutionCost, highest, pending>>
  PROVE  LimitTypes' /\ OvershootInv'
<1>1. loops'[l] = r /\ \A m \in Loops \ {l} : loops'[m] = loops[m]
  BY LoopStep
<1>2. LimitTypes'
  BY DEF SchedulerInv, SchedulerTypes, LimitTypes
<1>3. Enqueueing' = Enqueueing
  BY <1>1 DEF Enqueueing
<1>4. ASSUME NEW m \in Loops, loops'[m].at = "backlog" PROVE loops'[m].limit <= highest'
  <2>1. CASE m = l
    BY <1>1, <1>4, <2>1 DEF SchedulerInv, OvershootInv
  <2>2. CASE m # l
    BY <1>1, <1>4, <2>2 DEF SchedulerInv, OvershootInv
  <2> QED
    BY <2>1, <2>2
<1> QED
  BY <1>2, <1>3, <1>4 DEF SchedulerInv, OvershootInv

\* The lookups, one by one.
LEMMA LookedUp ==
  ASSUME NEW targets \in Seq(Targets), NEW S
  PROVE  /\ FrontFree(targets, targets, S)
         /\ FrontFree(targets, << >>, S) => \A i \in 1 .. Len(targets) : targets[i] \notin S
         /\ \A left \in Seq(Targets) :
              FrontFree(targets, left, S) /\ left # << >> /\ Head(left) \notin S => FrontFree(targets, Tail(left), S)
<1>1. FrontFree(targets, targets, S)
  BY SMT DEF FrontFree
<1>2. FrontFree(targets, << >>, S) => \A i \in 1 .. Len(targets) : targets[i] \notin S
  BY SMT DEF FrontFree
<1>3. ASSUME NEW left \in Seq(Targets), FrontFree(targets, left, S), left # << >>, Head(left) \notin S
      PROVE  FrontFree(targets, Tail(left), S)
  <2>1. /\ Len(left) \in Nat \ {0} /\ Len(targets) \in Nat /\ Len(Tail(left)) = Len(left) - 1 /\ Head(left) = left[1]
        /\ \A i \in 1 .. Len(left) - 1 : Tail(left)[i] = left[i + 1]
    BY <1>3, SMT
  <2>2. targets[1 + (Len(targets) - Len(left))] \notin S
    BY <1>3, <2>1, SMT DEF FrontFree
  <2>3. ASSUME NEW i \in 1 .. Len(targets) - (Len(left) - 1) PROVE targets[i] \notin S
    <3>1. i \in 1 .. Len(targets) - Len(left) \/ i = 1 + (Len(targets) - Len(left))
      BY <2>1, SMT
    <3> QED
      BY <1>3, <2>2, <3>1 DEF FrontFree
  <2>4. ASSUME NEW i \in 1 .. Len(left) - 1
        PROVE  Tail(left)[i] = targets[i + (Len(targets) - (Len(left) - 1))]
    <3>1. i + 1 \in 1 .. Len(left) /\ (i + 1) + (Len(targets) - Len(left)) = i + (Len(targets) - (Len(left) - 1))
      BY <2>1, SMT
    <3>2. left[i + 1] = targets[(i + 1) + (Len(targets) - Len(left))]
      BY <1>3, <3>1 DEF FrontFree
    <3> QED
      BY <2>1, <3>1, <3>2
  <2>5. Len(left) - 1 <= Len(targets)
    BY <1>3, <2>1, SMT DEF FrontFree
  <2> QED
    BY <2>1, <2>3, <2>4, <2>5 DEF FrontFree
<1> QED
  BY <1>1, <1>2, <1>3

LEMMA LoopTyped ==
  ASSUME SchedulerInv, NEW l \in Loops
  PROVE  /\ loops[l] \in Looping
         /\ loops[l].at # "free" => loops[l].sched \in Schedules /\ TargetsOf(l) \in Seq(Targets)
  BY SchedulerAssumption DEF SchedulerInv, SchedulerTypes, LiveInv, TargetsOf

LEMMA FireKeeps ==
  ASSUME SchedulerInv, NEW l \in Loops, Fire(l)
  PROVE  SchedulerInv'
<1> USE DEF Fire, OnlyLoops, limitVars
<1> DEFINE r == [loops[l] EXCEPT !.at = "maintenance", !.left = TargetsOf(l)]
<1>1. loops[l] \in Looping /\ TargetsOf(l) \in Seq(Targets)
  BY LoopTyped
<1>2. /\ r \in Looping /\ r.at = "maintenance" /\ r.left = TargetsOf(l)
      /\ r.sched = loops[l].sched /\ r.canceled = loops[l].canceled
  BY <1>1 DEF Looping
<1>3. loops' = [loops EXCEPT ![l] = r]
  BY DEF TargetsOf
<1> HIDE DEF r
<1>4. loops'[l] = r
  BY <1>2, <1>3, LoopStep
<1>5. steady' \in [Loops -> SUBSET Targets] /\ steady'[l] = maintenance /\ \A m \in Loops \ {l} : steady'[m] = steady[m]
  BY DEF SchedulerInv, SchedulerTypes
<1>6. LookupInv(l)'
  <2>1. TargetsOf(l)' = TargetsOf(l)
    BY <1>2, <1>4 DEF TargetsOf
  <2>2. FrontFree(TargetsOf(l), TargetsOf(l), maintenance)
    BY <1>1, LookedUp
  <2> QED
    BY <1>2, <1>4, <1>5, <2>1, <2>2 DEF LookupInv
<1>7. LimitTypes' /\ OvershootInv'
  BY <1>2, <1>3, QuietKeeps
<1> QED
  BY <1>2, <1>3, <1>5, <1>6, <1>7, MoveKeeps

LEMMA LookupKeeps ==
  ASSUME SchedulerInv, NEW l \in Loops, Lookup(l)
  PROVE  SchedulerInv'
<1> USE DEF Lookup, OnlyLoops, limitVars, Goto
<1> DEFINE r == IF Head(loops[l].left) \in maintenance THEN [loops[l] EXCEPT !.at = "stamp"]
                ELSE [loops[l] EXCEPT !.left = Tail(loops[l].left)]
<1>1. loops[l] \in Looping /\ loops[l].left \in Seq(Targets) /\ TargetsOf(l) \in Seq(Targets)
  BY LoopTyped DEF Looping
<1>2. Tail(loops[l].left) \in Seq(Targets)
  BY <1>1, SMT
<1>3. /\ r \in Looping /\ r.sched = loops[l].sched /\ r.canceled = loops[l].canceled
      /\ \/ r.at = "stamp"
         \/ r.at = "maintenance" /\ r.left = Tail(loops[l].left) /\ Head(loops[l].left) \notin maintenance
  <2>1. CASE Head(loops[l].left) \in maintenance
    BY <1>1, <2>1 DEF Looping
  <2>2. CASE Head(loops[l].left) \notin maintenance
    BY <1>1, <1>2, <2>2 DEF Looping
  <2> QED
    BY <2>1, <2>2
<1>4. loops' = [loops EXCEPT ![l] = r]
  OBVIOUS
<1> HIDE DEF r
<1>5. loops'[l] = r
  BY <1>3, <1>4, LoopStep
<1>6. LookupInv(l)'
  <2>1. TargetsOf(l)' = TargetsOf(l)
    BY <1>3, <1>5 DEF TargetsOf
  <2>2. FrontFree(TargetsOf(l), loops[l].left, steady[l]) /\ steady[l] \subseteq maintenance
    BY DEF SchedulerInv, LookupInv
  <2>3. CASE r.at = "stamp"
    BY <1>5, <2>2, <2>3 DEF LookupInv
  <2>4. CASE r.at = "maintenance" /\ r.left = Tail(loops[l].left) /\ Head(loops[l].left) \notin maintenance
    <3>1. FrontFree(TargetsOf(l), Tail(loops[l].left), steady[l])
      BY <1>1, <2>2, <2>4, LookedUp
    <3> QED
      BY <1>5, <2>1, <2>2, <2>4, <3>1 DEF LookupInv
  <2> QED
    BY <1>3, <2>3, <2>4
<1>7. LimitTypes' /\ OvershootInv'
  BY <1>3, <1>4, QuietKeeps
<1>8. steady' \in [Loops -> SUBSET Targets] /\ \A m \in Loops \ {l} : steady'[m] = steady[m]
  BY DEF SchedulerInv, SchedulerTypes
<1> QED
  BY <1>3, <1>4, <1>6, <1>7, <1>8, MoveKeeps

LEMMA LimitsKeeps ==
  ASSUME SchedulerInv, NEW l \in Loops, Limits(l)
  PROVE  SchedulerInv'
<1> USE DEF Limits, OnlyLoops, limitVars, Goto
<1>1. loops[l] \in Looping /\ TargetsOf(l) \in Seq(Targets) /\ maxBacklog \in Int
  <2>1. maxBacklog \in Int
    BY SMT DEF SchedulerInv, SchedulerTypes, LimitTypes
  <2> QED
    BY <2>1, LoopTyped
<1>2. PICK r : /\ r = [loops[l] EXCEPT !.at = "stamp"] \/ r = [loops[l] EXCEPT !.at = "backlog", !.limit = maxBacklog]
               /\ loops' = [loops EXCEPT ![l] = r]
  OBVIOUS
<1>3. /\ r \in Looping /\ r.sched = loops[l].sched /\ r.canceled = loops[l].canceled
      /\ \/ r.at = "stamp"
         \/ r.at = "backlog" /\ r.limit = maxBacklog
  <2>1. CASE r = [loops[l] EXCEPT !.at = "stamp"]
    BY <1>1, <2>1 DEF Looping
  <2>2. CASE r = [loops[l] EXCEPT !.at = "backlog", !.limit = maxBacklog]
    BY <1>1, <2>2 DEF Looping
  <2> QED
    BY <1>2, <2>1, <2>2
<1>4. loops'[l] = r
  BY <1>2, <1>3, LoopStep
<1>5. LookupInv(l)'
  <2>1. TargetsOf(l)' = TargetsOf(l)
    BY <1>3, <1>4 DEF TargetsOf
  <2>2. FrontFree(TargetsOf(l), << >>, steady[l]) /\ steady[l] \subseteq maintenance
    BY DEF SchedulerInv, LookupInv
  <2>3. \A i \in 1 .. Len(TargetsOf(l)) : TargetsOf(l)[i] \notin steady[l]
    BY <1>1, <2>2, LookedUp
  <2> QED
    BY <1>3, <1>4, <2>1, <2>2, <2>3 DEF LookupInv
<1>6. LimitTypes' /\ OvershootInv'
  BY <1>2, <1>3, QuietKeeps
<1>7. steady' \in [Loops -> SUBSET Targets] /\ \A m \in Loops \ {l} : steady'[m] = steady[m]
  BY DEF SchedulerInv, SchedulerTypes
<1> QED
  BY <1>2, <1>3, <1>5, <1>6, <1>7, MoveKeeps

\* The comparison with the length of the queue: every loop let through so far
\* is one of the loops.
LEMMA FitsKeeps ==
  ASSUME SchedulerInv, NEW l \in Loops, Backlog(l)
  PROVE  SchedulerInv'
<1> USE DEF Backlog, OnlyLoops, limitVars, Goto
<1> DEFINE fits == Fits(OptionsOf[loops[l].sched].low, loops[l].limit)
           r == [loops[l] EXCEPT !.at = IF fits THEN "enqueue" ELSE "stamp"]
<1>1. loops[l] \in Looping
  BY LoopTyped
<1>2. /\ r \in Looping /\ r.sched = loops[l].sched /\ r.canceled = loops[l].canceled
      /\ \/ fits /\ r.at = "enqueue"
         \/ r.at = "stamp"
  BY <1>1 DEF Looping
<1>3. loops' = [loops EXCEPT ![l] = r]
  OBVIOUS
<1> HIDE DEF r
<1>4. loops' \in [Loops -> Looping] /\ loops'[l] = r /\ \A m \in Loops \ {l} : loops'[m] = loops[m]
  BY <1>2, <1>3, LoopStep
<1>5. LookupInv(l)'
  <2>1. TargetsOf(l)' = TargetsOf(l)
    BY <1>2, <1>4 DEF TargetsOf
  <2> QED
    BY <1>2, <1>4, <2>1 DEF SchedulerInv, LookupInv
<1>6. LimitTypes' /\ OvershootInv'
  <2>1. CASE fits
    <3>1. pending < loops[l].limit /\ loops[l].limit <= highest /\ loops[l].limit \in Int
      BY <1>1, <2>1 DEF SchedulerInv, OvershootInv, Fits, Looping
    <3>2. Enqueueing' \subseteq Loops
      BY DEF Enqueueing
    <3>3. IsFiniteSet(Enqueueing') /\ Cardinality(Enqueueing') <= Cardinality(Loops)
      BY <3>2, SchedulerAssumption, FS_Subset
    <3>4. Cardinality(Loops) \in Nat /\ Cardinality(Enqueueing') \in Nat
      BY <3>3, SchedulerAssumption, FS_CardinalityType
    <3>5. pending' + Cardinality(Enqueueing') < highest' + Cardinality(Loops)
      <4>1. LimitTypes
        BY DEF SchedulerInv, SchedulerTypes
      <4> QED
        BY <3>1, <3>3, <3>4, <4>1, SMT DEF LimitTypes
    <3>6. ASSUME NEW m \in Loops, loops'[m].at = "backlog" PROVE loops[m].at = "backlog" /\ loops'[m].limit = loops[m].limit
      BY <1>2, <1>4, <3>6
    <3> QED
      BY <3>5, <3>6 DEF SchedulerInv, SchedulerTypes, LimitTypes, OvershootInv
  <2>2. CASE r.at = "stamp"
    BY <1>2, <1>3, <2>2, QuietKeeps
  <2> QED
    BY <1>2, <2>1, <2>2
<1>7. steady' \in [Loops -> SUBSET Targets] /\ \A m \in Loops \ {l} : steady'[m] = steady[m]
  BY DEF SchedulerInv, SchedulerTypes
<1> QED
  BY <1>2, <1>3, <1>5, <1>6, <1>7, MoveKeeps

LEMMA EnqueueKeeps ==
  ASSUME SchedulerInv, NEW l \in Loops, Enqueue(l)
  PROVE  SchedulerInv'
<1> USE DEF Enqueue, limitVars, Goto
<1> DEFINE r == [loops[l] EXCEPT !.at = "stamp"]
<1>1. loops[l] \in Looping
  BY LoopTyped
<1>2. r \in Looping /\ r.sched = loops[l].sched /\ r.canceled = loops[l].canceled /\ r.at = "stamp"
  BY <1>1 DEF Looping
<1>3. loops' = [loops EXCEPT ![l] = r]
  OBVIOUS
<1> HIDE DEF r
<1>4. loops' \in [Loops -> Looping] /\ loops'[l] = r /\ \A m \in Loops \ {l} : loops'[m] = loops[m]
  BY <1>2, <1>3, LoopStep
<1>5. LookupInv(l)'
  BY <1>2, <1>4 DEF SchedulerInv, LookupInv
<1>6. LimitTypes /\ LimitTypes' /\ pending' <= pending + 1
  <2>1. LimitTypes
    BY DEF SchedulerInv, SchedulerTypes
  <2>2. pending \in 0 .. QueueCapacity /\ QueueCapacity \in Nat
    BY <2>1, SchedulerAssumption DEF LimitTypes
  <2>3. pending' \in 0 .. QueueCapacity /\ pending' <= pending + 1
    BY <2>2, SMT
  <2> QED
    BY <2>1, <2>3 DEF LimitTypes
<1>7. OvershootInv'
  <2>1. Enqueueing' = Enqueueing \ {l} /\ l \in Enqueueing /\ Enqueueing \subseteq Loops
    BY <1>2, <1>4 DEF Enqueueing
  <2>2. IsFiniteSet(Enqueueing)
    BY <2>1, SchedulerAssumption, FS_Subset
  <2>3. Cardinality(Enqueueing') = Cardinality(Enqueueing) - 1
    BY <2>1, <2>2, FS_RemoveElement
  <2>4. Cardinality(Loops) \in Nat /\ Cardinality(Enqueueing) \in Nat
    BY <2>2, SchedulerAssumption, FS_CardinalityType
  <2>5. pending + Cardinality(Enqueueing) < highest + Cardinality(Loops)
    BY DEF SchedulerInv, OvershootInv
  <2>6. pending' + Cardinality(Enqueueing') < highest' + Cardinality(Loops)
    <3>1. highest' = highest
      OBVIOUS
    <3> QED
      BY ONLY <1>6, <2>3, <2>4, <2>5, <3>1, SMT DEF LimitTypes
  <2>7. ASSUME NEW m \in Loops, loops'[m].at = "backlog" PROVE loops[m].at = "backlog" /\ loops'[m].limit = loops[m].limit
    BY <1>2, <1>4, <2>7
  <2> QED
    BY <2>6, <2>7 DEF SchedulerInv, OvershootInv
<1>8. steady' \in [Loops -> SUBSET Targets] /\ \A m \in Loops \ {l} : steady'[m] = steady[m]
  BY DEF SchedulerInv, SchedulerTypes
<1> QED
  BY <1>2, <1>3, <1>5, <1>6, <1>7, <1>8, MoveKeeps

LEMMA StampKeeps ==
  ASSUME SchedulerInv, NEW l \in Loops, StampRun(l)
  PROVE  SchedulerInv'
<1> USE DEF StampRun, OnlyLoops, limitVars
<1> DEFINE r == [loops[l] EXCEPT !.at = "wait", !.left = << >>, !.limit = 0]
<1>1. loops[l] \in Looping
  BY LoopTyped
<1>2. r \in Looping /\ r.sched = loops[l].sched /\ r.canceled = loops[l].canceled /\ r.at = "wait"
  <2>1. << >> \in Seq(Targets) /\ 0 \in Int
    BY SMT
  <2> QED
    BY <1>1, <2>1 DEF Looping
<1>3. loops' = [loops EXCEPT ![l] = r]
  OBVIOUS
<1> HIDE DEF r
<1>4. loops'[l] = r
  BY <1>2, <1>3, LoopStep
<1>5. steady' \in [Loops -> SUBSET Targets] /\ steady'[l] = {} /\ \A m \in Loops \ {l} : steady'[m] = steady[m]
  BY DEF SchedulerInv, SchedulerTypes
<1>6. LookupInv(l)'
  BY <1>2, <1>4, <1>5 DEF LookupInv
<1>7. LimitTypes' /\ OvershootInv'
  BY <1>2, <1>3, QuietKeeps
<1> QED
  BY <1>2, <1>3, <1>5, <1>6, <1>7, MoveKeeps

LEMMA SchedulerStep ==
  ASSUME SchedulerInv, SchedulerNext \/ UNCHANGED schedulerVars
  PROVE  SchedulerInv'
<1>0. LimitTypes /\ maxBacklog <= highest
  BY DEF SchedulerInv, SchedulerTypes, OvershootInv
<1>1. ASSUME NEW s \in Schedules, NEW l \in Loops, Create(s, l) \/ Enable(s, l) PROVE SchedulerInv'
  BY <1>1, StartedKeeps DEF Create, Enable
<1>2. ASSUME NEW c \in Capacities, SetCapacity(c) PROVE SchedulerInv'
  <2>1. LimitTypes' /\ highest <= highest' /\ maxBacklog' <= highest' /\ pending' <= pending
    <3>1. c[1] \in Int /\ c[2] \in Int /\ QueueCapacity \in Nat
      BY SchedulerAssumption
    <3> QED
      BY <1>0, <1>2, <3>1, SMT DEF LimitTypes, SetCapacity
  <2> QED
    BY <1>2, <2>1, SettingKeeps DEF SetCapacity, SchedulerInv, SchedulerTypes
<1>3. ASSUME NEW h \in Hosts, NEW healthy \in BOOLEAN, SetHostHealth(h, healthy) PROVE SchedulerInv'
  <2>1. LimitTypes' /\ highest <= highest' /\ maxBacklog' <= highest' /\ pending' <= pending
    BY <1>0, <1>3, SchedulerAssumption, SMT DEF LimitTypes, SetHostHealth
  <2>2. unhealthy' \subseteq Hosts
    BY <1>3 DEF SetHostHealth, SchedulerInv, SchedulerTypes
  <2> QED
    BY <1>3, <2>1, <2>2, SettingKeeps DEF SetHostHealth
<1>4. CASE Take
  <2>1. LimitTypes' /\ highest <= highest' /\ maxBacklog' <= highest' /\ pending' <= pending
    BY <1>0, <1>4, SchedulerAssumption, SMT DEF LimitTypes, Take, limitVars
  <2> QED
    BY <1>4, <2>1, SettingKeeps DEF Take, limitVars, SchedulerInv, SchedulerTypes
<1>5. CASE Stop \/ UNCHANGED schedulerVars
  <2>1. LimitTypes' /\ highest <= highest' /\ maxBacklog' <= highest' /\ pending' <= pending
    BY <1>0, <1>5, SchedulerAssumption, SMT DEF LimitTypes, Stop, limitVars, schedulerVars
  <2> QED
    BY <1>5, <2>1, SettingKeeps DEF Stop, limitVars, schedulerVars, SchedulerInv, SchedulerTypes
<1>6. ASSUME NEW l \in Loops, Exit(l) \/ Fire(l) \/ Dispatch(l) PROVE SchedulerInv'
  BY <1>6, ExitKeeps, FireKeeps, LookupKeeps, LimitsKeeps, FitsKeeps, EnqueueKeeps, StampKeeps DEF Dispatch
<1> QED
  BY <1>1, <1>2, <1>3, <1>4, <1>5, <1>6, DisableKeeps, ShutdownKeeps, MaintenanceKeeps DEF SchedulerNext

\* What the invariant says of the properties of the scheduler.
LEMMA SchedulerSafe ==
  ASSUME SchedulerInv
  PROVE  SchedulerTypeOK /\ OneLiveLoop /\ OvershootBounded /\ MaintenanceBlocks
<1>1. SchedulerTypeOK
  BY DEF SchedulerInv, SchedulerTypes, ScheduleTypes, LimitTypes, Looping, SchedulerTypeOK
<1>2. OneLiveLoop
  <2> SUFFICES ASSUME NEW s \in Schedules
               PROVE  {l \in LoopsOf(s) : ~loops[l].canceled} = {cancel[s]} \ {Free}
    BY DEF SchedulerInv, LiveInv, OneLiveLoop
  <2>1. {l \in LoopsOf(s) : ~loops[l].canceled} = {l \in Loops : Live(l, s)}
    BY DEF LoopsOf, Live
  <2>2. \A l \in Loops : Live(l, s) <=> cancel[s] = l
    BY DEF SchedulerInv, LiveInv
  <2>3. cancel[s] \in Loops \cup {Free} /\ Free \notin Loops
    BY SchedulerAssumption DEF SchedulerInv, SchedulerTypes, ScheduleTypes
  <2> QED
    BY <2>1, <2>2, <2>3
<1>3. OvershootBounded
  <2>1. Enqueueing \subseteq Loops
    BY DEF Enqueueing
  <2>2. Cardinality(Enqueueing) \in Nat /\ Cardinality(Loops) \in Nat
    BY <2>1, SchedulerAssumption, FS_Subset, FS_CardinalityType
  <2>3. pending < highest + Cardinality(Loops)
    BY <2>2, SMT DEF SchedulerInv, SchedulerTypes, LimitTypes, OvershootInv
  <2> QED
    BY <2>3 DEF OvershootBounded
<1>4. MaintenanceBlocks
  BY DEF SchedulerInv, LookupInv, TargetsOf, MaintenanceBlocks
<1> QED
  BY <1>1, <1>2, <1>3, <1>4

-----------------------------------------------------------------------------
(* The event log and its streams *)

Hashes == Seq(Nat \X Nat)
Sealed == [index : Nat, body : Nat, prev : Hashes, hash : Hashes]
Deliveries == [event : Sealed, to : SUBSET Streams]

LogTypes ==
  /\ events \in Seq(Sealed) /\ backup \in Seq(Sealed)
  /\ nextIndex \in Nat /\ appended \in Nat /\ lastHash \in Hashes

StreamTypes ==
  /\ subscribers \subseteq Streams /\ closed \subseteq Streams /\ panicked \in BOOLEAN
  /\ channel \in [Streams -> Seq(Sealed)]
  /\ received \in [Streams -> Seq(Nat)]
  /\ stream \in [Streams -> {"off", "replayed", "live", "leaving", "gone"}]
  /\ sending \in [Appenders -> Deliveries]
  /\ \A s \in Streams : Len(channel[s]) <= Buffer

\* The ring never holds more events than were sealed since the log was empty,
\* nor these more than were appended, and until it is full it holds all of them.
RingInv ==
  /\ Len(events) <= Limit /\ nextIndex <= appended /\ appended <= MaxEvents
  /\ Len(backup) <= Limit /\ Len(backup) <= appended
  /\ Len(events) <= nextIndex
  /\ events = << >> => nextIndex = 0 /\ lastHash = << >>
  /\ nextIndex <= Limit => Len(events) = nextIndex /\ VerifyIntegrity

Different(items) == \A i, j \in 1 .. Len(items) : items[i].body = items[j].body => i = j

\* The bodies of a log are different ones of those appended.
BodiesInv(items) ==
  /\ \A i \in 1 .. Len(items) : items[i].body <= appended
  /\ Different(items)

\* What a client has received, what waits in its channel and what appenders
\* have yet to send to it are different events.
StreamInv(s) ==
  /\ stream[s] \in {"off", "replayed"} =>
       s \notin subscribers /\ channel[s] = << >> /\ \A a \in Appenders : s \notin sending[a].to
  /\ BodiesInv(channel[s])
  /\ \A i \in 1 .. Len(received[s]) : received[s][i] <= appended
  /\ \A i, j \in 1 .. Len(received[s]) : received[s][i] = received[s][j] => i = j
  /\ \A i \in 1 .. Len(received[s]), j \in 1 .. Len(channel[s]) : received[s][i] # channel[s][j].body

DueInv(s, a) ==
  s \in sending[a].to =>
    /\ sending[a].event.body <= appended
    /\ \A i \in 1 .. Len(received[s]) : received[s][i] # sending[a].event.body
    /\ \A i \in 1 .. Len(channel[s]) : channel[s][i].body # sending[a].event.body
    /\ \A b \in Appenders : s \in sending[b].to /\ b # a => sending[b].event.body # sending[a].event.body

StreamsInv == \A s \in Streams : StreamInv(s) /\ \A a \in Appenders : DueInv(s, a)

ChainInv == LogTypes /\ ChainLinked /\ RingInv /\ BodiesInv(events) /\ BodiesInv(backup)

LogInv == ChainInv /\ StreamTypes /\ StreamsInv

\* What sealing and the ring compute.
LEMMA SealTyped ==
  ASSUME NEW body \in Nat, NEW index \in Nat, NEW last \in Hashes
  PROVE  /\ Seal(body, index, last) \in Sealed
         /\ Seal(body, index, last).index = index + 1 /\ Seal(body, index, last).body = body
         /\ Seal(body, index, last).prev = last
         /\ Seal(body, index, last).hash = ComputeEventHash(index + 1, body, last)
<1>1. index + 1 \in Nat
  BY SMT
<1>2. ComputeEventHash(index + 1, body, last) \in Hashes
  <2>1. <<index + 1, body>> \in Nat \X Nat
    BY <1>1
  <2> QED
    BY <2>1, SMT DEF ComputeEventHash, Hashes
<1> QED
  BY <1>1, <1>2 DEF Seal, Sealed

LEMMA RetainFacts ==
  ASSUME NEW items \in Seq(Sealed), NEW e \in Sealed, Len(items) <= Limit
  PROVE  /\ Retain(items, e) \in Seq(Sealed) /\ Len(Retain(items, e)) \in 1 .. Limit
         /\ Retain(items, e)[Len(Retain(items, e))] = e
         /\ Len(items) < Limit => Retain(items, e) = Append(items, e)
         /\ \E k \in {0, 1} :
              /\ Len(Retain(items, e)) = Len(items) + 1 - k
              /\ \A i \in 1 .. Len(Retain(items, e)) - 1 : Retain(items, e)[i] = items[i + k]
<1>1. Limit \in Nat /\ Limit >= 1 /\ Len(items) \in Nat
  BY LogAssumption, SMT
<1>2. CASE Len(items) >= Limit
  <2>1. items # << >> /\ Len(items) = Limit
    BY <1>1, <1>2, SMT
  <2>2. /\ Append(Tail(items), e) \in Seq(Sealed) /\ Len(Append(Tail(items), e)) = Len(items)
        /\ Append(Tail(items), e)[Len(items)] = e
        /\ \A i \in 1 .. Len(items) - 1 : Append(Tail(items), e)[i] = items[i + 1]
    BY <2>1, SMT
  <2>3. Retain(items, e) = Append(Tail(items), e)
    BY <1>2 DEF Retain
  <2>4. Len(items) \in 1 .. Limit /\ ~(Len(items) < Limit) /\ Len(items) = Len(items) + 1 - 1
    BY <1>1, <2>1, SMT
  <2> QED
    BY <2>2, <2>3, <2>4
<1>3. CASE ~(Len(items) >= Limit)
  <2>1. /\ Append(items, e) \in Seq(Sealed) /\ Len(Append(items, e)) = Len(items) + 1
        /\ Append(items, e)[Len(items) + 1] = e
        /\ \A i \in 1 .. (Len(items) + 1) - 1 : Append(items, e)[i] = items[i + 0]
    BY <1>1, SMT
  <2>2. Retain(items, e) = Append(items, e)
    BY <1>3 DEF Retain
  <2>3. Len(items) + 1 \in 1 .. Limit /\ Len(items) + 1 = Len(items) + 1 - 0
    BY <1>1, <1>3, SMT
  <2> QED
    BY <2>1, <2>2, <2>3
<1> QED
  BY <1>2, <1>3

LEMMA QueryFacts ==
  ASSUME NEW items \in Seq(Sealed), NEW n \in Nat
  PROVE  /\ Query(items, n) \in Seq(Nat) /\ Len(Query(items, n)) <= Len(items)
         /\ \A i \in 1 .. Len(Query(items, n)) : Query(items, n)[i] = items[i].body
<1>1. \A i \in 1 .. Len(items) : items[i].body \in Nat
  <2>1. \A i \in 1 .. Len(items) : items[i] \in Sealed
    BY SMT
  <2> QED
    BY <2>1 DEF Sealed
<1>2. /\ Bodies(items) \in Seq(Nat) /\ Len(Bodies(items)) = Len(items)
      /\ \A i \in 1 .. Len(items) : Bodies(items)[i] = items[i].body
  BY <1>1, SMT DEF Bodies
<1>3. Least(n, Len(items)) \in 0 .. Len(items)
  BY SMT DEF Least
<1> DEFINE m == Least(n, Len(items))
           b == Bodies(items)
<1>4. m \in 0 .. Len(b) /\ b \in Seq(Nat) /\ Len(b) = Len(items)
  BY <1>2, <1>3
<1>5. Query(items, n) = SubSeq(b, 1, m)
  BY DEF Query
<1> HIDE DEF m, b
<1>6. SubSeq(b, 1, m) \in Seq(Nat) /\ Len(SubSeq(b, 1, m)) = m /\ \A i \in 1 .. m : SubSeq(b, 1, m)[i] = b[i]
  BY <1>4, SMT
<1>7. m <= Len(items) /\ \A i \in 1 .. m : i \in 1 .. Len(items)
  BY <1>4, SMT
<1>8. \A i \in 1 .. m : b[i] = items[i].body
  BY <1>2, <1>7 DEF b
<1> QED
  BY <1>5, <1>6, <1>7, <1>8

\* What Replace computes: the hash of an item is the one after it.
LEMMA ResealedFacts ==
  ASSUME NEW items \in Seq(Sealed)
  PROVE  /\ Resealed(items) \in Seq(Sealed) /\ Len(Resealed(items)) = Len(items)
         /\ HashAfter(items, 0) = << >>
         /\ \A i \in 1 .. Len(items) :
              /\ Resealed(items)[i].index = i /\ Resealed(items)[i].body = items[i].body
              /\ Resealed(items)[i].prev = HashAfter(items, i - 1)
              /\ Resealed(items)[i].hash = HashAfter(items, i)
              /\ Resealed(items)[i].hash = ComputeEventHash(i, items[i].body, HashAfter(items, i - 1))
<1>1. ASSUME NEW i \in 1 .. Len(items) PROVE items[i].body \in Nat
  <2>1. items[i] \in Sealed
    BY SMT
  <2> QED
    BY <2>1 DEF Sealed
<1>2. ASSUME NEW i \in 0 .. Len(items) PROVE HashAfter(items, i) \in Hashes
  <2>1. ASSUME NEW k \in 1 .. i PROVE <<k, items[k].body>> \in Nat \X Nat
    <3>1. k \in Nat /\ k \in 1 .. Len(items)
      BY SMT
    <3> QED
      BY <1>1, <3>1
  <2>2. i \in Nat
    BY SMT
  <2> QED
    BY <2>1, <2>2, SMT DEF HashAfter, Hashes
<1>3. ASSUME NEW i \in 1 .. Len(items)
      PROVE  ComputeEventHash(i, items[i].body, HashAfter(items, i - 1)) = HashAfter(items, i)
  <2> DEFINE h == HashAfter(items, i - 1)
             e == <<i, items[i].body>>
  <2>1. i \in Nat /\ i - 1 \in Nat /\ i - 1 \in 0 .. Len(items) /\ (i - 1) + 1 = i
    BY SMT
  <2>2. h \in Hashes /\ e \in Nat \X Nat
    BY <1>1, <1>2, <2>1
  <2>3. DOMAIN h = 1 .. i - 1
    BY DEF HashAfter
  <2>4. \A k \in 1 .. i - 1 : h[k] = <<k, items[k].body>>
    BY DEF HashAfter
  <2> HIDE DEF h, e
  <2>5. Len(h) = i - 1
    BY <2>1, <2>2, <2>3, SMT DEF Hashes
  <2>6. DOMAIN Append(h, e) = 1 .. i /\ Append(h, e)[i] = e /\ \A k \in 1 .. i - 1 : Append(h, e)[k] = h[k]
    BY <2>1, <2>2, <2>5, SMT DEF Hashes
  <2>7. ASSUME NEW k \in 1 .. i PROVE Append(h, e)[k] = <<k, items[k].body>>
    <3>1. k \in 1 .. i - 1 \/ k = i
      BY SMT
    <3> QED
      BY <2>4, <2>6, <3>1 DEF e
  <2> DEFINE g == HashAfter(items, i)
  <2>8. g \in Hashes /\ DOMAIN g = 1 .. i /\ \A k \in 1 .. i : g[k] = <<k, items[k].body>>
    <3>1. i \in 0 .. Len(items)
      BY SMT
    <3> QED
      BY <1>2, <3>1 DEF HashAfter
  <2> HIDE DEF g
  <2>9. Append(h, e) \in Hashes /\ Len(Append(h, e)) = i /\ Len(g) = i
    BY <2>1, <2>2, <2>5, <2>8, SMT DEF Hashes
  <2>10. Append(h, e) = g
    <3> DEFINE a == Append(h, e)
    <3>1. a \in Hashes /\ Len(a) = i /\ \A k \in 1 .. i : a[k] = <<k, items[k].body>>
      BY <2>7, <2>9
    <3> HIDE DEF a
    <3>2. a = [k \in 1 .. i |-> a[k]] /\ g = [k \in 1 .. i |-> g[k]]
      BY <2>8, <2>9, <3>1, SMT DEF Hashes
    <3>3. a = g
      BY <2>8, <3>1, <3>2
    <3> QED
      BY <3>3 DEF a
  <2> QED
    BY <2>10 DEF g, h, e, ComputeEventHash
<1>4. ASSUME NEW i \in 1 .. Len(items)
      PROVE  /\ Resealed(items)[i] \in Sealed
             /\ Resealed(items)[i].index = i /\ Resealed(items)[i].body = items[i].body
             /\ Resealed(items)[i].prev = HashAfter(items, i - 1)
             /\ Resealed(items)[i].hash = ComputeEventHash(i, items[i].body, HashAfter(items, i - 1))
  <2>1. i - 1 \in Nat /\ i - 1 \in 0 .. Len(items) /\ (i - 1) + 1 = i
    BY SMT
  <2>2. Resealed(items)[i] = Seal(items[i].body, i - 1, HashAfter(items, i - 1))
    BY DEF Resealed
  <2> DEFINE h == HashAfter(items, i - 1)
             b == items[i].body
             n == i - 1
  <2>3. h \in Hashes /\ b \in Nat /\ n \in Nat /\ n + 1 = i
    BY <1>1, <1>2, <2>1
  <2> HIDE DEF h, b, n
  <2>4. /\ Seal(b, n, h) \in Sealed /\ Seal(b, n, h).index = n + 1
        /\ Seal(b, n, h).body = b /\ Seal(b, n, h).prev = h
        /\ Seal(b, n, h).hash = ComputeEventHash(n + 1, b, h)
    BY <2>3, SealTyped, SMT
  <2>5. Seal(b, n, h).index = i /\ Seal(b, n, h).hash = ComputeEventHash(i, b, h)
    BY <2>3, <2>4
  <2> QED
    BY <2>2, <2>4, <2>5 DEF h, b, n
<1>5. Resealed(items) \in Seq(Sealed) /\ Len(Resealed(items)) = Len(items)
  <2> DEFINE r == Resealed(items)
  <2>1. r = [i \in 1 .. Len(items) |-> r[i]] /\ \A i \in 1 .. Len(items) : r[i] \in Sealed
    <3>1. r = [i \in 1 .. Len(items) |-> r[i]]
      BY DEF Resealed
    <3> QED
      BY <1>4, <3>1
  <2> HIDE DEF r
  <2>2. r \in Seq(Sealed) /\ Len(r) = Len(items)
    BY <2>1, SMT
  <2> QED
    BY <2>2 DEF r
<1>6. HashAfter(items, 0) = << >>
  BY SMT DEF HashAfter
<1> QED
  BY <1>3, <1>4, <1>5, <1>6

LEMMA LogStart == LogInit => LogInv
<1> SUFFICES ASSUME LogInit PROVE LogInv
  OBVIOUS
<1> USE DEF LogInit
<1>1. << >> \in Seq(Sealed) /\ << >> \in Hashes /\ << >> \in Seq(Nat) /\ 0 \in Nat /\ 1 .. Len(<< >>) = {}
  BY SMT DEF Hashes
<1>2. LogTypes
  BY <1>1 DEF LogTypes
<1>3. NoEvent \in Sealed /\ Idle \in Deliveries /\ Idle.to = {}
  BY <1>1 DEF NoEvent, Idle, Sealed, Deliveries
<1>4. Len(<< >>) = 0 /\ 0 <= Limit /\ 0 <= MaxEvents /\ 0 <= 0 /\ 0 <= Buffer /\ 1 .. Len(<< >>) - 1 = {}
  BY LogAssumption, SMT
<1>5. StreamTypes
  BY <1>1, <1>3, <1>4 DEF StreamTypes
<1>6. ChainLinked
  BY <1>4 DEF ChainLinked
<1>7. RingInv
  BY <1>1, <1>4 DEF RingInv, VerifyIntegrity
<1>8. BodiesInv(<< >>)
  BY <1>1 DEF BodiesInv, Different
<1>9. StreamsInv
  BY <1>1, <1>3, <1>8 DEF StreamsInv, StreamInv, DueInv
<1> QED
  BY <1>2, <1>5, <1>6, <1>7, <1>8, <1>9 DEF LogInv, ChainInv

\* Append seals the next event and the ring retains it.
LEMMA AppendChains ==
  ASSUME LogInv, NEW a \in Appenders, AppendEvent(a)
  PROVE  ChainInv'
<1> USE DEF AppendEvent
<1> DEFINE e == Seal(appended + 1, nextIndex, lastHash)
           r == Retain(events, e)
<1>1. LogTypes /\ RingInv /\ ChainLinked /\ BodiesInv(events) /\ BodiesInv(backup)
  BY DEF LogInv, ChainInv
<1>2. appended + 1 \in Nat /\ nextIndex + 1 \in Nat /\ appended \in Nat /\ nextIndex \in Nat
  BY <1>1, SMT DEF LogTypes
<1>3. /\ e \in Sealed /\ e.index = nextIndex + 1 /\ e.body = appended + 1 /\ e.prev = lastHash
      /\ e.hash = ComputeEventHash(nextIndex + 1, appended + 1, lastHash)
  <2>1. lastHash \in Hashes
    BY <1>1 DEF LogTypes
  <2> QED
    BY ONLY <1>2, <2>1, SealTyped, SMT
<1>4. events' = r /\ nextIndex' = e.index /\ lastHash' = e.hash /\ appended' = appended + 1 /\ backup' = backup
  OBVIOUS
<1> HIDE DEF e
<1>5. /\ r \in Seq(Sealed) /\ Len(r) \in 1 .. Limit /\ r[Len(r)] = e /\ (Len(events) < Limit => r = Append(events, e))
      /\ \E k \in {0, 1} : /\ Len(r) = Len(events) + 1 - k
                           /\ \A i \in 1 .. Len(r) - 1 : r[i] = events[i + k]
  BY <1>1, <1>3, RetainFacts DEF LogTypes, RingInv
<1>6. PICK k \in {0, 1} : Len(r) = Len(events) + 1 - k /\ \A i \in 1 .. Len(r) - 1 : r[i] = events[i + k]
  BY <1>5
<1> HIDE DEF r
<1>7. k \in Nat /\ Len(events) \in Nat /\ Len(r) \in Nat /\ Limit \in Nat /\ MaxEvents \in Nat
  BY <1>1, <1>5, LogAssumption, SMT DEF LogTypes
<1>8. \A i \in 1 .. Len(r) - 1 : i + k \in 1 .. Len(events)
  BY <1>6, <1>7, SMT
<1>9. LogTypes'
  <2>1. e.hash \in Hashes
    BY <1>3 DEF Sealed
  <2> QED
    BY <1>1, <1>2, <1>3, <1>4, <1>5, <2>1 DEF LogTypes
<1>10. ChainLinked'
  <2>1. ASSUME NEW i \in 1 .. Len(r) - 1 PROVE r[i + 1].index = r[i].index + 1 /\ r[i + 1].prev = r[i].hash
    <3>1. CASE i + 1 = Len(r)
      <4>1. i + k = Len(events) /\ events # << >>
        BY <1>1, <1>6, <1>7, <3>1, SMT DEF LogTypes
      <4>2. r[i].index = nextIndex /\ r[i].hash = lastHash
        BY <1>1, <1>6, <4>1 DEF ChainLinked
      <4> QED
        BY <1>3, <1>5, <3>1, <4>2
    <3>2. CASE i + 1 # Len(r)
      <4>1. i + 1 \in 1 .. Len(r) - 1 /\ i + k \in 1 .. Len(events) - 1 /\ (i + 1) + k = (i + k) + 1
        BY <1>6, <1>7, <3>2, SMT
      <4>2. events[(i + k) + 1].index = events[i + k].index + 1 /\ events[(i + k) + 1].prev = events[i + k].hash
        BY <1>1, <4>1 DEF ChainLinked
      <4> QED
        BY <1>6, <4>1, <4>2
    <3> QED
      BY <3>1, <3>2
  <2> QED
    BY <1>4, <1>5, <2>1 DEF ChainLinked
<1>11. BodiesInv(events)' /\ BodiesInv(backup)'
  <2>1. \A n \in Nat : n <= appended => n <= appended + 1 /\ n # appended + 1
    BY <1>2, SMT
  <2>2. ASSUME NEW items \in Seq(Sealed), NEW i \in 1 .. Len(items) PROVE items[i].body \in Nat
    <3>1. items[i] \in Sealed
      BY SMT
    <3> QED
      BY <3>1 DEF Sealed
  <2>3. BodiesInv(backup)'
    BY <1>1, <1>4, <2>1, <2>2 DEF BodiesInv, Different, LogTypes
  <2>4. ASSUME NEW i \in 1 .. Len(r) - 1 PROVE r[i].body <= appended + 1 /\ r[i].body # appended + 1
    <3>1. r[i].body = events[i + k].body /\ i + k \in 1 .. Len(events)
      BY <1>6, <1>8
    <3>2. r[i].body \in Nat /\ r[i].body <= appended
      BY <1>1, <2>2, <3>1 DEF LogTypes, BodiesInv
    <3> QED
      BY <2>1, <3>2
  <2>5. \A i \in 1 .. Len(r) : i \in 1 .. Len(r) - 1 \/ i = Len(r)
    BY <1>7, SMT
  <2>6. ASSUME NEW i \in 1 .. Len(r) PROVE r[i].body <= appended + 1
    <3>1. appended + 1 <= appended + 1
      BY <1>2, SMT
    <3> QED
      BY <1>3, <1>5, <2>4, <2>5, <3>1
  <2>7. ASSUME NEW i \in 1 .. Len(r), NEW j \in 1 .. Len(r), r[i].body = r[j].body PROVE i = j
    <3>1. CASE i \in 1 .. Len(r) - 1 /\ j \in 1 .. Len(r) - 1
      <4>1. i + k = j + k
        <5>1. events[i + k].body = events[j + k].body
          BY <1>6, <2>7, <3>1
        <5> QED
          BY <1>1, <1>8, <3>1, <5>1 DEF BodiesInv, Different
      <4> QED
        BY <1>7, <4>1, SMT
    <3>2. CASE i = Len(r) /\ j \in 1 .. Len(r) - 1
      BY <1>3, <1>5, <2>4, <2>7, <3>2
    <3>3. CASE j = Len(r) /\ i \in 1 .. Len(r) - 1
      BY <1>3, <1>5, <2>4, <2>7, <3>3
    <3> QED
      BY <2>5, <3>1, <3>2, <3>3
  <2>8. BodiesInv(events)'
    BY <1>4, <2>6, <2>7 DEF BodiesInv, Different
  <2> QED
    BY <2>3, <2>8
<1>12. RingInv'
  <2>1. /\ Len(r) <= Limit /\ nextIndex + 1 <= appended + 1 /\ appended + 1 <= MaxEvents /\ Len(backup) <= appended + 1
        /\ Len(r) <= nextIndex + 1 /\ r # << >> /\ Len(backup) <= Limit
    BY <1>1, <1>2, <1>5, <1>6, <1>7, SMT DEF RingInv, LogTypes
  <2>2. ASSUME nextIndex + 1 <= Limit PROVE Len(r) = nextIndex + 1 /\ VerifyIntegrity'
    <3>1. nextIndex <= Limit /\ nextIndex < Limit
      BY <1>2, <1>7, <2>2, SMT
    <3>2. Len(events) = nextIndex /\ VerifyIntegrity
      BY <1>1, <3>1 DEF RingInv
    <3>3. r = Append(events, e)
      BY <1>5, <3>1, <3>2
    <3>4. Len(r) = nextIndex + 1 /\ \A i \in 1 .. nextIndex : r[i] = events[i]
      BY <1>1, <1>3, <3>2, <3>3, SMT DEF LogTypes
    <3>5. ASSUME NEW i \in 1 .. Len(r)
          PROVE  /\ r[i].index = i /\ r[i].prev = IF i = 1 THEN << >> ELSE r[i - 1].hash
                 /\ r[i].hash = ComputeEventHash(r[i].index, r[i].body, IF i = 1 THEN << >> ELSE r[i - 1].hash)
      <4>1. CASE i \in 1 .. nextIndex
        <5>1. i # 1 => i - 1 \in 1 .. nextIndex
          BY <1>2, <4>1, SMT
        <5>2. /\ events[i].index = i /\ events[i].prev = IF i = 1 THEN << >> ELSE events[i - 1].hash
              /\ events[i].hash = ComputeEventHash(events[i].index, events[i].body, IF i = 1 THEN << >> ELSE events[i - 1].hash)
          BY <3>2, <4>1 DEF VerifyIntegrity
        <5>3. (IF i = 1 THEN << >> ELSE events[i - 1].hash) = IF i = 1 THEN << >> ELSE r[i - 1].hash
          BY <3>4, <5>1
        <5> QED
          BY <3>4, <4>1, <5>2, <5>3
      <4>2. CASE i = nextIndex + 1
        <5>1. lastHash = IF i = 1 THEN << >> ELSE r[i - 1].hash
          <6>1. CASE i = 1
            <7>1. events = << >>
              BY <1>1, <1>2, <3>2, <4>2, <6>1, SMT DEF LogTypes
            <7> QED
              BY <1>1, <6>1, <7>1 DEF RingInv
          <6>2. CASE i # 1
            <7>1. i - 1 = nextIndex /\ nextIndex \in 1 .. nextIndex /\ events # << >>
              BY <1>1, <1>2, <3>2, <4>2, <6>2, SMT DEF LogTypes
            <7>2. events[nextIndex].hash = lastHash
              BY <1>1, <3>2, <7>1 DEF ChainLinked
            <7> QED
              BY <3>4, <6>2, <7>1, <7>2
          <6> QED
            BY <6>1, <6>2
        <5>2. r[i] = e
          BY <1>5, <3>4, <4>2
        <5>3. e.index = i /\ e.prev = lastHash /\ e.hash = ComputeEventHash(e.index, e.body, lastHash)
          BY <1>3, <4>2
        <5> QED
          BY <5>1, <5>2, <5>3
      <4> QED
        BY <1>2, <3>4, <4>1, <4>2, SMT
    <3>6. VerifyIntegrity'
      BY <1>4, <3>5 DEF VerifyIntegrity
    <3> QED
      BY <3>4, <3>6
  <2> QED
    BY <1>3, <1>4, <2>1, <2>2 DEF RingInv
<1> QED
  BY <1>9, <1>10, <1>11, <1>12 DEF ChainInv

\* Replace: the log restored from a snapshot starts anew.
LEMMA ReplaceChains ==
  ASSUME LogInv, Replace
  PROVE  ChainInv'
<1> USE DEF Replace
<1> DEFINE r == Resealed(backup)
           h(i) == HashAfter(backup, i)
<1>1. LogTypes /\ RingInv /\ BodiesInv(backup) /\ UNCHANGED <<appended, backup>>
  BY DEF LogInv, ChainInv
<1>2. /\ r \in Seq(Sealed) /\ Len(r) = Len(backup) /\ h(0) = << >>
      /\ \A i \in 1 .. Len(backup) : /\ r[i].index = i /\ r[i].body = backup[i].body /\ r[i].prev = h(i - 1)
                                     /\ r[i].hash = h(i)
                                     /\ r[i].hash = ComputeEventHash(i, backup[i].body, h(i - 1))
  BY <1>1, ResealedFacts DEF LogTypes
<1>3. events' = r /\ nextIndex' = Len(backup) /\ lastHash' = IF backup = << >> THEN << >> ELSE r[Len(backup)].hash
  OBVIOUS
<1> HIDE DEF r, h
<1>4. Len(backup) \in Nat /\ (r = << >> <=> backup = << >>) /\ (backup = << >> => Len(backup) = 0)
  BY <1>1, <1>2, SMT DEF LogTypes
<1>5. backup # << >> => Len(backup) \in 1 .. Len(backup) /\ r[Len(backup)] \in Sealed
  BY <1>1, <1>2, SMT DEF LogTypes
<1>6. LogTypes'
  <2>1. << >> \in Hashes
    BY SMT DEF Hashes
  <2>2. lastHash' \in Hashes
    BY <1>3, <1>5, <2>1 DEF Sealed
  <2> QED
    BY <1>1, <1>2, <1>3, <1>4, <2>2 DEF LogTypes
<1>7. ChainLinked'
  <2>1. ASSUME NEW i \in 1 .. Len(r) - 1 PROVE r[i + 1].index = r[i].index + 1 /\ r[i + 1].prev = r[i].hash
    <3>1. i \in 1 .. Len(backup) /\ i + 1 \in 1 .. Len(backup) /\ (i + 1) - 1 = i
      BY <1>2, <1>4, SMT
    <3> QED
      BY <1>2, <3>1
  <2> QED
    BY <1>2, <1>3, <1>4, <1>5, <2>1 DEF ChainLinked
<1>8. BodiesInv(events)' /\ BodiesInv(backup)'
  <2>1. BodiesInv(backup)'
    BY ONLY <1>1 DEF BodiesInv, Different
  <2>2. \A i \in 1 .. Len(r) : r[i].body = backup[i].body /\ i \in 1 .. Len(backup)
    BY <1>2
  <2>3. \A i \in 1 .. Len(r) : r[i].body <= appended
    BY <1>1, <2>2 DEF BodiesInv
  <2>4. ASSUME NEW i \in 1 .. Len(r), NEW j \in 1 .. Len(r), r[i].body = r[j].body PROVE i = j
    BY <1>1, <2>2, <2>4 DEF BodiesInv, Different
  <2> QED
    BY <1>1, <1>3, <2>1, <2>3, <2>4 DEF BodiesInv, Different
<1>9. VerifyIntegrity'
  <2>1. ASSUME NEW i \in 1 .. Len(backup) PROVE h(i - 1) = IF i = 1 THEN << >> ELSE r[i - 1].hash
    <3>1. CASE i = 1
      <4>1. i - 1 = 0
        BY <3>1, SMT
      <4> QED
        BY <1>2, <3>1, <4>1
    <3>2. CASE i # 1
      <4>1. i - 1 \in 1 .. Len(backup)
        BY <1>4, <3>2, SMT
      <4> QED
        BY <1>2, <3>2, <4>1
    <3> QED
      BY <3>1, <3>2
  <2>2. ASSUME NEW i \in 1 .. Len(r)
        PROVE  /\ r[i].index = i /\ r[i].prev = IF i = 1 THEN << >> ELSE r[i - 1].hash
               /\ r[i].hash = ComputeEventHash(r[i].index, r[i].body, IF i = 1 THEN << >> ELSE r[i - 1].hash)
    <3>1. i \in 1 .. Len(backup)
      BY <1>2
    <3>2. /\ r[i].index = i /\ r[i].body = backup[i].body /\ r[i].prev = h(i - 1)
          /\ r[i].hash = ComputeEventHash(i, backup[i].body, h(i - 1))
      BY <1>2, <3>1
    <3> QED
      BY ONLY <2>1, <3>1, <3>2
  <2> QED
    BY <1>3, <2>2 DEF VerifyIntegrity
<1>10. RingInv'
  <2>1. /\ appended <= MaxEvents /\ Len(backup) <= Limit /\ Len(backup) <= appended /\ Len(backup) <= Len(backup)
        /\ backup = << >> => Len(backup) = 0
    <3>1. Len(backup) <= Len(backup)
      BY <1>4, SMT
    <3> QED
      BY <1>1, <1>4, <3>1 DEF RingInv
  <2> QED
    BY ONLY <1>1, <1>2, <1>3, <1>4, <1>9, <2>1 DEF RingInv
<1> QED
  BY <1>6, <1>7, <1>8, <1>10 DEF ChainInv

LEMMA BackupChains ==
  ASSUME LogInv, TakeBackup
  PROVE  ChainInv'
<1>1. ChainInv /\ backup' = events /\ UNCHANGED <<events, nextIndex, lastHash, appended>>
  BY DEF LogInv, TakeBackup, chainVars
<1>2. Len(events) <= appended
  BY <1>1, SMT DEF ChainInv, RingInv, LogTypes
<1>3. LogTypes' /\ ChainLinked' /\ BodiesInv(events)' /\ BodiesInv(backup)'
  BY <1>1 DEF ChainInv, LogTypes, ChainLinked, BodiesInv, Different
<1>4. RingInv'
  BY <1>1, <1>2 DEF ChainInv, RingInv, VerifyIntegrity
<1> QED
  BY <1>3, <1>4 DEF ChainInv

\* Nothing happens to the log.
LEMMA ChainKept ==
  ASSUME ChainInv, UNCHANGED <<events, nextIndex, lastHash, appended, backup>>
  PROVE  ChainInv'
<1>1. LogTypes' /\ ChainLinked' /\ BodiesInv(events)' /\ BodiesInv(backup)'
  BY DEF ChainInv, LogTypes, ChainLinked, BodiesInv, Different
<1>2. RingInv'
  BY DEF ChainInv, RingInv, VerifyIntegrity
<1> QED
  BY <1>1, <1>2 DEF ChainInv

\* Nothing new comes to a stream.
LEMMA StreamKept ==
  ASSUME NEW s \in Streams, StreamInv(s), \A a \in Appenders : DueInv(s, a),
         stream'[s] \in {"off", "replayed"} => stream[s] \in {"off", "replayed"} /\ (s \in subscribers' => s \in subscribers),
         channel'[s] = channel[s], received'[s] = received[s], appended' = appended,
         \A a \in Appenders : sending'[a].event = sending[a].event /\ (s \in sending'[a].to => s \in sending[a].to)
  PROVE  StreamInv(s)' /\ \A a \in Appenders : DueInv(s, a)'
<1>1. BodiesInv(channel[s])'
  BY DEF StreamInv, BodiesInv, Different
<1>2. StreamInv(s)'
  <2>1. stream'[s] \in {"off", "replayed"} =>
          s \notin subscribers' /\ channel'[s] = << >> /\ \A a \in Appenders : s \notin sending'[a].to
    BY DEF StreamInv
  <2>2. /\ \A i \in 1 .. Len(received'[s]) : received'[s][i] <= appended'
        /\ \A i, j \in 1 .. Len(received'[s]) : received'[s][i] = received'[s][j] => i = j
        /\ \A i \in 1 .. Len(received'[s]), j \in 1 .. Len(channel'[s]) : received'[s][i] # channel'[s][j].body
    <3>1. /\ \A i \in 1 .. Len(received[s]) : received[s][i] <= appended
          /\ \A i, j \in 1 .. Len(received[s]) : received[s][i] = received[s][j] => i = j
          /\ \A i \in 1 .. Len(received[s]), j \in 1 .. Len(channel[s]) : received[s][i] # channel[s][j].body
      BY DEF StreamInv
    <3>2. channel'[s] = channel[s] /\ received'[s] = received[s] /\ appended' = appended
      OBVIOUS
    <3> QED
      BY ONLY <3>1, <3>2
  <2> QED
    BY <1>1, <2>1, <2>2 DEF StreamInv
<1>3. ASSUME NEW a \in Appenders PROVE DueInv(s, a)'
  BY DEF DueInv
<1> QED
  BY <1>2, <1>3

\* The bodies of the events a stream has to do with.
LEMMA StreamBodies ==
  ASSUME StreamTypes, NEW s \in Streams
  PROVE  /\ channel[s] \in Seq(Sealed) /\ received[s] \in Seq(Nat)
         /\ \A i \in 1 .. Len(channel[s]) : channel[s][i].body \in Nat
         /\ \A i \in 1 .. Len(received[s]) : received[s][i] \in Nat
         /\ \A a \in Appenders : sending[a] \in Deliveries /\ sending[a].event \in Sealed /\ sending[a].event.body \in Nat
<1>1. channel[s] \in Seq(Sealed) /\ received[s] \in Seq(Nat) /\ \A a \in Appenders : sending[a] \in Deliveries
  BY DEF StreamTypes
<1>2. \A i \in 1 .. Len(channel[s]) : channel[s][i] \in Sealed
  BY <1>1, SMT
<1>3. \A i \in 1 .. Len(received[s]) : received[s][i] \in Nat
  BY <1>1, SMT
<1> QED
  BY <1>1, <1>2, <1>3 DEF Sealed, Deliveries

\* Append leaves a new event with the appender for the subscribers it found.
LEMMA AppendStreams ==
  ASSUME LogInv, NEW a \in Appenders, AppendEvent(a)
  PROVE  StreamTypes' /\ StreamsInv'
<1> USE DEF AppendEvent
<1> DEFINE e == Seal(appended + 1, nextIndex, lastHash)
           d == [event |-> e, to |-> subscribers]
<1>1. LogTypes /\ StreamTypes /\ StreamsInv
  BY DEF LogInv, ChainInv
<1>2. appended + 1 \in Nat /\ nextIndex \in Nat /\ lastHash \in Hashes
  BY <1>1, SMT DEF LogTypes
<1>3. e \in Sealed /\ e.body = appended + 1
  BY ONLY <1>2, SealTyped, SMT
<1>4. sending' = [sending EXCEPT ![a] = d] /\ UNCHANGED <<subscribers, channel, closed, stream, received, panicked>>
  OBVIOUS
<1> HIDE DEF e
<1>5. d \in Deliveries /\ d.event = e /\ d.to = subscribers
  BY <1>1, <1>3 DEF Deliveries, StreamTypes
<1> HIDE DEF d
<1>6. sending' \in [Appenders -> Deliveries] /\ sending'[a] = d /\ \A b \in Appenders \ {a} : sending'[b] = sending[b]
  BY <1>1, <1>4, <1>5 DEF StreamTypes
<1>7. StreamTypes'
  BY <1>1, <1>4, <1>6 DEF StreamTypes
<1>8. \A n \in Nat : n <= appended => n <= appended + 1 /\ n # appended + 1
  BY <1>1, SMT DEF LogTypes
<1>9. appended' = appended + 1 /\ appended + 1 <= appended + 1
  BY <1>2, SMT
<1>10. ASSUME NEW s \in Streams PROVE StreamInv(s)' /\ \A b \in Appenders : DueInv(s, b)'
  <2>1. StreamInv(s) /\ \A b \in Appenders : DueInv(s, b)
    BY <1>1 DEF StreamsInv
  <2>2. /\ \A i \in 1 .. Len(channel[s]) : channel[s][i].body <= appended + 1 /\ channel[s][i].body # appended + 1
        /\ \A i \in 1 .. Len(received[s]) : received[s][i] <= appended + 1 /\ received[s][i] # appended + 1
    BY <1>1, <1>8, <2>1, StreamBodies DEF StreamInv, BodiesInv
  <2>3. \A b \in Appenders : s \in sending[b].to => sending[b].event.body <= appended + 1 /\ sending[b].event.body # appended + 1
    BY <1>1, <1>8, <2>1, StreamBodies DEF DueInv
  <2>4. stream[s] \in {"off", "replayed"} => s \notin subscribers /\ channel[s] = << >> /\ \A b \in Appenders : s \notin sending'[b].to
    <3>1. ASSUME stream[s] \in {"off", "replayed"}, NEW b \in Appenders PROVE s \notin sending'[b].to
      <4>1. s \notin subscribers /\ s \notin sending[b].to
        BY <2>1, <3>1 DEF StreamInv
      <4> QED
        BY <1>5, <1>6, <4>1
    <3> QED
      BY <2>1, <3>1 DEF StreamInv
  <2>5. BodiesInv(channel[s])'
    BY <1>4, <1>9, <2>1, <2>2 DEF StreamInv, BodiesInv, Different
  <2>6. StreamInv(s)'
    BY <1>4, <1>9, <2>1, <2>2, <2>4, <2>5 DEF StreamInv
  <2>7. ASSUME NEW b \in Appenders, s \in sending'[b].to PROVE
          /\ sending'[b].event.body <= appended + 1
          /\ \A i \in 1 .. Len(received[s]) : received[s][i] # sending'[b].event.body
          /\ \A i \in 1 .. Len(channel[s]) : channel[s][i].body # sending'[b].event.body
    <3>1. CASE b = a
      BY <1>3, <1>5, <1>6, <1>9, <2>2, <3>1
    <3>2. CASE b # a
      BY <1>6, <2>1, <2>3, <2>7, <3>2 DEF DueInv
    <3> QED
      BY <3>1, <3>2
  <2>8. ASSUME NEW b \in Appenders, NEW c \in Appenders, s \in sending'[b].to, s \in sending'[c].to, c # b
        PROVE  sending'[c].event.body # sending'[b].event.body
    <3>1. CASE b = a
      BY <1>3, <1>5, <1>6, <2>3, <2>8, <3>1
    <3>2. CASE c = a
      BY <1>3, <1>5, <1>6, <2>3, <2>8, <3>2
    <3>3. CASE b # a /\ c # a
      BY <1>6, <2>1, <2>8, <3>3 DEF DueInv
    <3> QED
      BY <3>1, <3>2, <3>3
  <2>9. ASSUME NEW b \in Appenders PROVE DueInv(s, b)'
    BY <1>4, <1>9, <2>7, <2>8 DEF DueInv
  <2> QED
    BY <2>6, <2>9
<1> QED
  BY <1>7, <1>10 DEF StreamsInv

LEMMA AppendCases ==
  ASSUME NEW S, NEW q \in Seq(S), NEW x \in S
  PROVE  /\ Append(q, x) \in Seq(S) /\ Len(Append(q, x)) = Len(q) + 1
         /\ \A i \in 1 .. Len(Append(q, x)) : \/ i \in 1 .. Len(q) /\ Append(q, x)[i] = q[i]
                                              \/ i = Len(q) + 1 /\ Append(q, x)[i] = x
  BY SMT

\* Send: what the channel takes is new to it and to the client.
LEMMA SendStreams ==
  ASSUME LogInv, NEW a \in Appenders, NEW s \in Streams, Send(a, s)
  PROVE  StreamTypes' /\ StreamsInv'
<1> USE DEF Send
<1> DEFINE d == [sending[a] EXCEPT !.to = sending[a].to \ {s}]
           e == sending[a].event
<1>1. StreamTypes /\ StreamsInv /\ StreamInv(s) /\ DueInv(s, a) /\ e \in Sealed /\ sending[a] \in Deliveries
  BY StreamBodies DEF LogInv, StreamsInv
<1>2. d \in Deliveries /\ d.event = e /\ d.to = sending[a].to \ {s}
  BY <1>1 DEF Deliveries
<1>3. sending' = [sending EXCEPT ![a] = d] /\ UNCHANGED <<subscribers, closed, stream, received, appended>>
  OBVIOUS
<1> HIDE DEF d, e
<1>4. sending' \in [Appenders -> Deliveries] /\ sending'[a] = d /\ \A b \in Appenders \ {a} : sending'[b] = sending[b]
  BY <1>1, <1>2, <1>3 DEF StreamTypes
<1>5. ASSUME NEW b \in Appenders
      PROVE  /\ sending'[b].event = sending[b].event
             /\ \A t \in Streams : t \in sending'[b].to => t \in sending[b].to
             /\ s \in sending'[b].to => b # a
  <2>1. CASE b = a
    BY <1>2, <1>4, <2>1 DEF e
  <2>2. CASE b # a
    BY <1>4, <2>2
  <2> QED
    BY <2>1, <2>2
<1>0. panicked' \in BOOLEAN
  <2>1. panicked' = (s \in closed)
    OBVIOUS
  <2> QED
    BY ONLY <2>1, SMT
<1>6. CASE channel' = channel
  <2>1. StreamTypes'
    BY <1>0, <1>1, <1>3, <1>4, <1>6 DEF StreamTypes
  <2>2. \A t \in Streams : StreamInv(t)' /\ \A b \in Appenders : DueInv(t, b)'
    BY <1>1, <1>3, <1>5, <1>6, StreamKept DEF StreamsInv
  <2> QED
    BY <2>1, <2>2 DEF StreamsInv
<1>7. CASE channel' = [channel EXCEPT ![s] = Append(channel[s], e)] /\ Len(channel[s]) < Buffer
  <2>1. channel[s] \in Seq(Sealed) /\ Buffer \in Nat
    BY <1>1, LogAssumption DEF StreamTypes
  <2>2. /\ Append(channel[s], e) \in Seq(Sealed) /\ Len(Append(channel[s], e)) = Len(channel[s]) + 1
        /\ Len(Append(channel[s], e)) <= Buffer
    BY <1>1, <1>7, <2>1, SMT
  <2>3. \A i \in 1 .. Len(Append(channel[s], e)) :
          \/ i \in 1 .. Len(channel[s]) /\ Append(channel[s], e)[i] = channel[s][i]
          \/ i = Len(channel[s]) + 1 /\ Append(channel[s], e)[i] = e
    BY ONLY <1>1, <2>1, AppendCases
  <2>4. channel'[s] = Append(channel[s], e) /\ \A t \in Streams \ {s} : channel'[t] = channel[t]
    BY <1>1, <1>7 DEF StreamTypes
  <2>5. StreamTypes'
    <3>1. channel' \in [Streams -> Seq(Sealed)]
      BY <1>1, <1>7, <2>2 DEF StreamTypes
    <3>2. \A t \in Streams : Len(channel'[t]) <= Buffer
      BY <1>1, <2>2, <2>4 DEF StreamTypes
    <3> QED
      BY <1>0, <1>1, <1>3, <1>4, <3>1, <3>2 DEF StreamTypes
  <2>6. \A t \in Streams \ {s} : StreamInv(t)' /\ \A b \in Appenders : DueInv(t, b)'
    BY <1>1, <1>3, <1>5, <2>4, StreamKept DEF StreamsInv
  <2>7. /\ e.body <= appended /\ \A i \in 1 .. Len(received[s]) : received[s][i] # e.body
        /\ \A i \in 1 .. Len(channel[s]) : channel[s][i].body # e.body
        /\ \A b \in Appenders \ {a} : s \in sending[b].to => sending[b].event.body # e.body
    BY <1>1 DEF DueInv, e
  <2>8. stream[s] \notin {"off", "replayed"}
    BY <1>1 DEF StreamInv
  <2>9. StreamInv(s)'
    <3> DEFINE c == Append(channel[s], e)
    <3>1. /\ \A i \in 1 .. Len(channel[s]) : channel[s][i].body <= appended
          /\ \A i, j \in 1 .. Len(channel[s]) : channel[s][i].body = channel[s][j].body => i = j
          /\ \A i \in 1 .. Len(received[s]), j \in 1 .. Len(channel[s]) : received[s][i] # channel[s][j].body
      BY <1>1 DEF StreamInv, BodiesInv, Different
    <3> HIDE DEF c
    <3>2. \A i \in 1 .. Len(c) : \/ i \in 1 .. Len(channel[s]) /\ c[i] = channel[s][i]
                                 \/ i = Len(channel[s]) + 1 /\ c[i] = e
      BY <2>3 DEF c
    <3>3. \A i \in 1 .. Len(c) : c[i].body <= appended
      BY ONLY <2>7, <3>1, <3>2
    <3>4. ASSUME NEW i \in 1 .. Len(c), NEW j \in 1 .. Len(c), c[i].body = c[j].body PROVE i = j
      BY ONLY <2>7, <3>1, <3>2, <3>4
    <3>5. \A i \in 1 .. Len(received[s]), j \in 1 .. Len(c) : received[s][i] # c[j].body
      BY ONLY <2>7, <3>1, <3>2
    <3>6. BodiesInv(channel[s])'
      BY <1>3, <2>4, <3>3, <3>4 DEF BodiesInv, Different, c
    <3>7. /\ \A i \in 1 .. Len(received[s]) : received[s][i] <= appended
          /\ \A i, j \in 1 .. Len(received[s]) : received[s][i] = received[s][j] => i = j
      BY <1>1 DEF StreamInv
    <3> QED
      BY ONLY <1>3, <2>4, <2>8, <3>5, <3>6, <3>7 DEF StreamInv, c
  <2>10. ASSUME NEW b \in Appenders PROVE DueInv(s, b)'
    <3> SUFFICES ASSUME s \in sending'[b].to PROVE DueInv(s, b)'
      BY DEF DueInv
    <3>1. b # a /\ DueInv(s, b) /\ s \in sending[b].to
      BY <1>1, <1>5 DEF StreamsInv
    <3>2. \A i \in 1 .. Len(channel'[s]) : channel'[s][i].body # sending[b].event.body
      <4>1. \A i \in 1 .. Len(channel[s]) : channel[s][i].body # sending[b].event.body
        BY <3>1 DEF DueInv
      <4>2. e.body # sending[b].event.body
        BY <2>7, <3>1
      <4> QED
        BY <2>3, <2>4, <4>1, <4>2
    <3>3. sending[b].event.body <= appended /\ \A i \in 1 .. Len(received[s]) : received[s][i] # sending[b].event.body
      BY <3>1 DEF DueInv
    <3>4. ASSUME NEW c \in Appenders, s \in sending'[c].to, c # b PROVE sending'[c].event.body # sending'[b].event.body
      BY <1>5, <3>1, <3>4 DEF DueInv
    <3> QED
      BY <1>3, <1>5, <3>2, <3>3, <3>4 DEF DueInv
  <2> QED
    BY <2>5, <2>6, <2>9, <2>10 DEF StreamsInv
<1> QED
  BY <1>6, <1>7 DEF e

\* Replay writes different events, before the stream is subscribed.
LEMMA ReplayStreams ==
  ASSUME LogInv, NEW s \in Streams, Replay(s)
  PROVE  StreamTypes' /\ StreamsInv'
<1> USE DEF Replay
<1> DEFINE q == Query(events, ReplayLimit)
<1>1. StreamTypes /\ StreamsInv /\ StreamInv(s) /\ BodiesInv(events) /\ events \in Seq(Sealed)
  BY DEF LogInv, StreamsInv, ChainInv, LogTypes
<1>2. q \in Seq(Nat) /\ Len(q) <= Len(events) /\ \A i \in 1 .. Len(q) : q[i] = events[i].body
  BY <1>1, LogAssumption, QueryFacts
<1>3. /\ UNCHANGED <<subscribers, channel, closed, sending, appended, panicked>>
      /\ received' = [received EXCEPT ![s] = q] /\ stream' = [stream EXCEPT ![s] = "replayed"]
  OBVIOUS
<1> HIDE DEF q
<1>4. /\ received'[s] = q /\ stream'[s] = "replayed"
      /\ \A t \in Streams \ {s} : received'[t] = received[t] /\ stream'[t] = stream[t]
  BY <1>1, <1>3 DEF StreamTypes
<1>5. StreamTypes'
  BY <1>1, <1>2, <1>3 DEF StreamTypes
<1>6. \A t \in Streams \ {s} : StreamInv(t)' /\ \A b \in Appenders : DueInv(t, b)'
  BY <1>1, <1>3, <1>4, StreamKept DEF StreamsInv
<1>7. s \notin subscribers /\ channel[s] = << >> /\ \A a \in Appenders : s \notin sending[a].to
  BY <1>1 DEF StreamInv
<1>8. \A i \in 1 .. Len(q) : i \in 1 .. Len(events)
  BY <1>1, <1>2, SMT
<1>9. /\ \A i \in 1 .. Len(q) : q[i] <= appended
      /\ \A i, j \in 1 .. Len(q) : q[i] = q[j] => i = j
  BY <1>1, <1>2, <1>8 DEF BodiesInv, Different
<1>10. StreamInv(s)'
  <2>1. 1 .. Len(<< >>) = {}
    BY SMT
  <2>2. BodiesInv(channel[s])'
    BY <1>3, <1>7, <2>1 DEF BodiesInv, Different
  <2> QED
    BY <1>3, <1>4, <1>7, <1>9, <2>1, <2>2 DEF StreamInv
<1>11. \A b \in Appenders : DueInv(s, b)'
  BY <1>3, <1>7 DEF DueInv
<1> QED
  BY <1>5, <1>6, <1>10, <1>11 DEF StreamsInv

\* Subscribe, Unsubscribe and Close.
LEMMA TurnStreams ==
  ASSUME LogInv, NEW s \in Streams, Subscribe(s) \/ Unsubscribe(s) \/ Close(s)
  PROVE  StreamTypes' /\ StreamsInv'
<1>1. StreamTypes /\ StreamsInv
  BY DEF LogInv
<1>2. /\ UNCHANGED <<channel, received, sending, appended, panicked>>
      /\ subscribers' \subseteq Streams /\ closed' \subseteq Streams /\ subscribers' \subseteq subscribers \cup {s}
      /\ \E at \in {"live", "leaving", "gone"} : stream' = [stream EXCEPT ![s] = at]
  BY <1>1 DEF StreamTypes, Subscribe, Unsubscribe, Close
<1>3. StreamTypes'
  BY <1>1, <1>2 DEF StreamTypes
<1>4. stream'[s] \notin {"off", "replayed"} /\ \A t \in Streams \ {s} : stream'[t] = stream[t]
  BY <1>1, <1>2 DEF StreamTypes
<1>5. ASSUME NEW t \in Streams PROVE StreamInv(t)' /\ \A b \in Appenders : DueInv(t, b)'
  <2>1. stream'[t] \in {"off", "replayed"} => stream[t] \in {"off", "replayed"} /\ (t \in subscribers' => t \in subscribers)
    BY <1>2, <1>4
  <2> QED
    BY <1>1, <1>2, <2>1, StreamKept DEF StreamsInv
<1> QED
  BY <1>3, <1>5 DEF StreamsInv

\* Receive moves an event from the channel to the client.
LEMMA ReceiveStreams ==
  ASSUME LogInv, NEW s \in Streams, Receive(s)
  PROVE  StreamTypes' /\ StreamsInv'
<1> USE DEF Receive
<1> DEFINE b == Head(channel[s]).body
           r == Append(received[s], b)
           c == Tail(channel[s])
<1>1. StreamTypes /\ StreamsInv /\ StreamInv(s) /\ channel[s] \in Seq(Sealed) /\ received[s] \in Seq(Nat)
  BY StreamBodies DEF LogInv, StreamsInv
<1>2. /\ UNCHANGED <<subscribers, closed, sending, stream, appended, panicked>>
      /\ received' = [received EXCEPT ![s] = r] /\ channel' = [channel EXCEPT ![s] = c]
  OBVIOUS
<1>3. Len(channel[s]) \in Nat /\ 1 \in 1 .. Len(channel[s]) /\ Head(channel[s]) = channel[s][1]
  BY <1>1, SMT
<1>4. b \in Nat /\ b = channel[s][1].body
  BY <1>1, <1>3, StreamBodies
<1>5. c \in Seq(Sealed) /\ \A i \in 1 .. Len(c) : i + 1 \in 1 .. Len(channel[s]) /\ i + 1 # 1 /\ c[i] = channel[s][i + 1]
  BY <1>1, SMT
<1>6. Len(channel[s]) <= Buffer => Len(c) <= Buffer
  BY <1>1, LogAssumption, SMT
<1>7. /\ r \in Seq(Nat)
      /\ \A i \in 1 .. Len(r) : \/ i \in 1 .. Len(received[s]) /\ r[i] = received[s][i]
                                \/ i = Len(received[s]) + 1 /\ r[i] = b
  <2> HIDE DEF b
  <2> QED
    BY ONLY <1>1, <1>4, AppendCases
<1>8. \A i, j : i \in 1 .. Len(c) /\ j \in 1 .. Len(c) /\ i + 1 = j + 1 => i = j
  BY SMT
<1> HIDE DEF b, r, c
<1>9. /\ received'[s] = r /\ channel'[s] = c
      /\ \A t \in Streams \ {s} : received'[t] = received[t] /\ channel'[t] = channel[t]
  BY <1>1, <1>2 DEF StreamTypes
<1>10. StreamTypes'
  <2>1. channel' \in [Streams -> Seq(Sealed)] /\ received' \in [Streams -> Seq(Nat)]
    <3>1. channel' \in [Streams -> Seq(Sealed)]
      BY ONLY <1>1, <1>2, <1>5 DEF StreamTypes
    <3>2. received' \in [Streams -> Seq(Nat)]
      BY ONLY <1>1, <1>2, <1>7 DEF StreamTypes
    <3> QED
      BY <3>1, <3>2
  <2>2. \A t \in Streams : Len(channel'[t]) <= Buffer
    BY <1>1, <1>6, <1>9 DEF StreamTypes
  <2> QED
    BY <1>1, <1>2, <2>1, <2>2 DEF StreamTypes
<1>11. \A t \in Streams \ {s} : StreamInv(t)' /\ \A a \in Appenders : DueInv(t, a)'
  BY <1>1, <1>2, <1>9, StreamKept DEF StreamsInv
<1>12. /\ \A i \in 1 .. Len(channel[s]) : channel[s][i].body <= appended
       /\ \A i, j \in 1 .. Len(channel[s]) : channel[s][i].body = channel[s][j].body => i = j
       /\ \A i \in 1 .. Len(received[s]) : received[s][i] <= appended
       /\ \A i, j \in 1 .. Len(received[s]) : received[s][i] = received[s][j] => i = j
       /\ \A i \in 1 .. Len(received[s]), j \in 1 .. Len(channel[s]) : received[s][i] # channel[s][j].body
  BY <1>1 DEF StreamInv, BodiesInv, Different
<1>13. StreamInv(s)'
  <2>1. \A i \in 1 .. Len(c) : c[i].body <= appended /\ c[i].body # b
    BY <1>3, <1>4, <1>5, <1>12
  <2>2. ASSUME NEW i \in 1 .. Len(c), NEW j \in 1 .. Len(c), c[i].body = c[j].body PROVE i = j
    BY <1>5, <1>8, <1>12, <2>2
  <2>3. \A i \in 1 .. Len(r) : r[i] <= appended
    BY <1>3, <1>4, <1>7, <1>12
  <2>4. ASSUME NEW i \in 1 .. Len(r), NEW j \in 1 .. Len(r), r[i] = r[j] PROVE i = j
    <3>1. \A k \in 1 .. Len(received[s]) : received[s][k] # b
      BY <1>3, <1>4, <1>12
    <3> QED
      BY <1>7, <1>12, <2>4, <3>1
  <2>5. ASSUME NEW i \in 1 .. Len(r), NEW j \in 1 .. Len(c) PROVE r[i] # c[j].body
    <3>1. c[j].body # b /\ j + 1 \in 1 .. Len(channel[s]) /\ c[j] = channel[s][j + 1]
      BY <1>5, <2>1
    <3>2. \A k \in 1 .. Len(received[s]) : received[s][k] # c[j].body
      BY <1>12, <3>1
    <3> QED
      BY <1>7, <3>1, <3>2
  <2>6. BodiesInv(channel[s])'
    BY <1>2, <1>9, <2>1, <2>2 DEF BodiesInv, Different
  <2>7. stream'[s] = "live"
    OBVIOUS
  <2> QED
    BY <1>2, <1>9, <2>3, <2>4, <2>5, <2>6, <2>7 DEF StreamInv
<1>14. ASSUME NEW a \in Appenders PROVE DueInv(s, a)'
  <2> SUFFICES ASSUME s \in sending[a].to PROVE DueInv(s, a)'
    BY <1>2 DEF DueInv
  <2>1. /\ sending[a].event.body <= appended
        /\ \A i \in 1 .. Len(received[s]) : received[s][i] # sending[a].event.body
        /\ \A i \in 1 .. Len(channel[s]) : channel[s][i].body # sending[a].event.body
        /\ \A d \in Appenders : s \in sending[d].to /\ d # a => sending[d].event.body # sending[a].event.body
    BY <1>1 DEF StreamsInv, DueInv
  <2>2. \A i \in 1 .. Len(r) : r[i] # sending[a].event.body
    BY <1>3, <1>4, <1>7, <2>1
  <2>3. \A i \in 1 .. Len(c) : c[i].body # sending[a].event.body
    BY <1>5, <2>1
  <2> QED
    BY <1>2, <1>9, <2>1, <2>2, <2>3 DEF DueInv
<1> QED
  BY <1>10, <1>11, <1>13, <1>14 DEF StreamsInv

LEMMA LogStep ==
  ASSUME LogInv, LogNext \/ UNCHANGED logVars
  PROVE  LogInv'
<1> USE DEF chainVars, streamVars
<1>1. ASSUME NEW a \in Appenders, AppendEvent(a) PROVE LogInv'
  BY <1>1, AppendChains, AppendStreams DEF LogInv
<1>2. ASSUME NEW a \in Appenders, NEW s \in Streams, Send(a, s) PROVE LogInv'
  BY <1>2, ChainKept, SendStreams DEF LogInv, Send
<1>3. ASSUME NEW s \in Streams, Replay(s) PROVE LogInv'
  BY <1>3, ChainKept, ReplayStreams DEF LogInv, Replay
<1>4. ASSUME NEW s \in Streams, Receive(s) PROVE LogInv'
  BY <1>4, ChainKept, ReceiveStreams DEF LogInv, Receive
<1>5. ASSUME NEW s \in Streams, Subscribe(s) \/ Unsubscribe(s) \/ Close(s) PROVE LogInv'
  <2>1. UNCHANGED <<events, nextIndex, lastHash, appended, backup>>
    BY <1>5 DEF Subscribe, Unsubscribe, Close
  <2> QED
    BY <1>5, <2>1, ChainKept, TurnStreams DEF LogInv
<1>6. ASSUME UNCHANGED <<subscribers, channel, closed, sending, stream, received, appended, panicked>>
      PROVE  StreamTypes' /\ StreamsInv'
  <2>1. StreamTypes /\ StreamsInv
    BY DEF LogInv
  <2>2. \A t \in Streams : StreamInv(t)' /\ \A a \in Appenders : DueInv(t, a)'
    BY <1>6, <2>1, StreamKept DEF StreamsInv
  <2> QED
    BY <1>6, <2>1, <2>2 DEF StreamTypes, StreamsInv
<1>7. CASE TakeBackup
  BY <1>6, <1>7, BackupChains DEF LogInv, TakeBackup
<1>8. CASE Replace
  BY <1>6, <1>8, ReplaceChains DEF LogInv, Replace
<1>9. CASE UNCHANGED logVars
  BY <1>6, <1>9, ChainKept DEF LogInv, logVars
<1> QED
  BY <1>1, <1>2, <1>3, <1>4, <1>5, <1>7, <1>8, <1>9 DEF LogNext

LEMMA LogSafe ==
  ASSUME LogInv
  PROVE  LogTypeOK /\ ChainLinked /\ VerifiesUntilFull /\ NoDuplicates
<1>1. LogTypeOK
  <2>1. nextIndex \in 0 .. MaxEvents /\ appended \in 0 .. MaxEvents
    BY LogAssumption, SMT DEF LogInv, ChainInv, LogTypes, RingInv
  <2>2. \A a \in Appenders : sending[a].to \subseteq Streams
    BY DEF LogInv, StreamTypes, Deliveries
  <2> QED
    BY <2>1, <2>2 DEF LogInv, ChainInv, RingInv, StreamTypes, LogTypeOK
<1>2. ChainLinked /\ VerifiesUntilFull
  BY DEF LogInv, ChainInv, RingInv, VerifiesUntilFull
<1>3. NoDuplicates
  BY DEF LogInv, StreamsInv, StreamInv, NoDuplicates
<1> QED
  BY <1>1, <1>2, <1>3

=============================================================================
