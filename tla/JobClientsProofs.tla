-------------------------- MODULE JobClientsProofs --------------------------
(***************************************************************************)
(* Run leases, canaries and agent dispatch, for any number of jobs,        *)
(* callers, canaries, loops and paths, as clients of the job queue.        *)
(***************************************************************************)
EXTENDS JobClients, SequenceTheorems, TLAPS

\* Zenon proves a leaf unless the leaf names another prover.
USE Zenon

-----------------------------------------------------------------------------
(* Leases *)

LeaseInv == Leases!TypeOK /\ Leases!RecoveredStaysLapsed

LEMMA LeaseInit == Leases!Init => LeaseInv
  BY DEF Leases!Init, LeaseInv, Leases!TypeOK, Leases!RecoveredStaysLapsed

LEMMA LeaseStep == LeaseInv /\ [Leases!Next]_(Leases!vars) => LeaseInv'
<1> SUFFICES ASSUME LeaseInv, [Leases!Next]_(Leases!vars) PROVE LeaseInv'
  OBVIOUS
<1> USE DEF LeaseInv, Leases!TypeOK, Leases!RecoveredStaysLapsed
<1>1. ASSUME NEW j \in ClientJobs, Leases!Acquire(j) \/ Leases!Release(j) PROVE LeaseInv'
  BY <1>1 DEF Leases!Acquire, Leases!Release
<1>2. ASSUME NEW j \in ClientJobs, Leases!Heartbeat(j) \/ Leases!Expire(j) PROVE LeaseInv'
  BY <1>2 DEF Leases!Heartbeat, Leases!Expire
<1>3. ASSUME NEW h \in Callers, Leases!RecoverExpired(h) PROVE LeaseInv'
  <2>1. Leases!Recoverable \subseteq lapsed
    BY DEF Leases!Recoverable
  <2>2. lease' \in [ClientJobs -> {"none", "active", "released", "recovered"}]
    BY <1>3 DEF Leases!RecoverExpired
  <2>3. \A j \in ClientJobs : lease'[j] = IF j \in Leases!Recoverable THEN "recovered" ELSE lease[j]
    BY <1>3 DEF Leases!RecoverExpired
  <2>4. recovering' \in [Callers -> SUBSET ClientJobs] /\ lapsed' = lapsed
    BY <1>3, <2>1 DEF Leases!RecoverExpired
  <2> QED
    BY <2>1, <2>2, <2>3, <2>4
<1>4. ASSUME NEW h \in Callers, NEW j \in ClientJobs, Leases!FailRecovered(h, j) PROVE LeaseInv'
  BY <1>4 DEF Leases!FailRecovered, Leases!leaseVars
<1>5. ASSUME NEW j \in ClientJobs, Leases!Submit(j) \/ Leases!Cancel(j) \/ Leases!Work(j) \/ Leases!Told(j)
      PROVE  LeaseInv'
  BY <1>5 DEF Leases!Submit, Leases!Cancel, Leases!Work, Leases!Told, Leases!leaseVars
<1>6. CASE UNCHANGED Leases!vars
  BY <1>6 DEF Leases!vars, Leases!jobVars, Leases!leaseVars
<1> QED
  BY <1>1, <1>2, <1>3, <1>4, <1>5, <1>6 DEF Leases!Next

-----------------------------------------------------------------------------
(* Canaries: the state of health *)

JobStatuses == {"absent", "pending", "running", "succeeded", "failed", "canceled"}

\* A step leaves no submitted job unknown.
JobsGrow ==
  /\ status' \in [ClientJobs -> JobStatuses]
  /\ \A j \in ClientJobs : status'[j] = "absent" => status[j] = "absent"

LEMMA CanaryJobStep ==
  ASSUME status \in [ClientJobs -> JobStatuses], NEW j \in ClientJobs,
         \/ Canaries!Jobs!Submit(j) \/ Canaries!Jobs!Cancel(j) \/ Canaries!Jobs!Fail(j)
         \/ Canaries!Jobs!Work(j) \/ Canaries!Jobs!Announce(j)
         \/ \E s \in Canaries!Jobs!ByCaller : Canaries!Jobs!Deliver(j, s)
  PROVE  JobsGrow
<1> USE DEF JobsGrow, JobStatuses, Canaries!Jobs!Changes
<1>1. CASE Canaries!Jobs!Submit(j) \/ Canaries!Jobs!Cancel(j) \/ Canaries!Jobs!Fail(j)
  BY <1>1 DEF Canaries!Jobs!Submit, Canaries!Jobs!Cancel, Canaries!Jobs!Fail
<1>2. CASE Canaries!Jobs!Work(j)
  BY <1>2 DEF Canaries!Jobs!Work, Canaries!Jobs!Drop, Canaries!Jobs!Start, Canaries!Jobs!Apply, Canaries!Jobs!Finish
<1>3. CASE Canaries!Jobs!Announce(j)
  BY <1>3 DEF Canaries!Jobs!Announce
<1>4. CASE \E s \in Canaries!Jobs!ByCaller : Canaries!Jobs!Deliver(j, s)
  BY <1>4 DEF Canaries!Jobs!Deliver
<1> QED
  BY <1>1, <1>2, <1>3, <1>4

\* The failures a canary counts decide on its health.
HealthInv ==
  /\ failures \in [CanaryIds -> Nat]
  /\ health \in [CanaryIds -> {"unknown", "healthy", "unhealthy"}]
  /\ Canaries!UnhealthyIffThreshold

LEMMA FailedInv ==
  ASSUME HealthInv, NEW c \in CanaryIds, Canaries!Failed(c)
  PROVE  HealthInv'
<1>1. /\ failures' = [failures EXCEPT ![c] = failures[c] + 1] /\ failures' \in [CanaryIds -> Nat]
      /\ failures'[c] = failures[c] + 1 /\ \A d \in CanaryIds : d # c => failures'[d] = failures[d]
  BY SMT DEF HealthInv, Canaries!Failed
<1>2. failures[c] >= Threshold => failures[c] + 1 >= Threshold
  BY NumbersAssumption, SMT DEF HealthInv
<1>3. health' = IF failures'[c] >= Threshold THEN [health EXCEPT ![c] = "unhealthy"] ELSE health
  BY DEF Canaries!Failed
<1>4. CASE failures'[c] >= Threshold
  BY <1>1, <1>3, <1>4 DEF HealthInv, Canaries!UnhealthyIffThreshold
<1>5. CASE ~(failures'[c] >= Threshold)
  BY <1>1, <1>2, <1>3, <1>5 DEF HealthInv, Canaries!UnhealthyIffThreshold
<1> QED
  BY <1>4, <1>5

LEMMA SucceededInv ==
  ASSUME HealthInv, NEW c \in CanaryIds,
         failures' = [failures EXCEPT ![c] = 0], health' = [health EXCEPT ![c] = "healthy"]
  PROVE  HealthInv'
<1>1. ~(0 >= Threshold) /\ 0 \in Nat
  BY NumbersAssumption, SMT
<1> QED
  BY <1>1 DEF HealthInv, Canaries!UnhealthyIffThreshold

-----------------------------------------------------------------------------
(* Canaries: the loops and the jobs they enqueue *)

Loop == [at : {"free", "wait", "register", "mark"}, canary : CanaryIds \cup {Free},
         canceled : BOOLEAN, job : ClientJobs \cup {Free}]

CanaryType ==
  /\ status \in [ClientJobs -> JobStatuses]
  /\ enabled \in [CanaryIds -> {"absent", "on", "off"}]
  /\ cancels \in [CanaryIds -> Loops \cup {Free}]
  /\ starting \in [Callers -> CanaryIds \cup {Free}]
  /\ jobRefs \in [ClientJobs -> CanaryIds \cup {Free}] /\ counted \in [ClientJobs -> Nat]
  /\ loops \in [Loops -> Loop]
  /\ \A l \in Loops : loops[l].at # "free" => loops[l].canary \in CanaryIds

AtRegister(l) == loops[l].at = "register"

\* A job that is in jobRefs, or about to be entered by the one loop that
\* enqueued it, has not been counted.
RefsInv ==
  /\ \A l \in Loops : AtRegister(l) =>
       /\ loops[l].job \in ClientJobs /\ status[loops[l].job] # "absent"
       /\ jobRefs[loops[l].job] = Free /\ counted[loops[l].job] = 0
  /\ \A l, m \in Loops : AtRegister(l) /\ AtRegister(m) /\ loops[l].job = loops[m].job => l = m
  /\ \A j \in ClientJobs : status[j] = "absent" => jobRefs[j] = Free /\ counted[j] = 0
  /\ \A j \in ClientJobs : jobRefs[j] # Free => counted[j] = 0
  /\ Canaries!CountedOnce

CanaryInv == CanaryType /\ RefsInv /\ HealthInv /\ Canaries!OneLiveLoop

LEMMA CanaryInit == Canaries!Init => CanaryInv
<1> SUFFICES ASSUME Canaries!Init PROVE CanaryInv
  OBVIOUS
<1>1. /\ Canaries!NoLoop \in Loop /\ Canaries!NoLoop.at = "free"
      /\ \A l \in Loops : loops[l] = Canaries!NoLoop
  BY DEF Canaries!Init, Canaries!NoLoop, Loop
<1>2. 0 \in Nat /\ ~(0 >= Threshold) /\ 0 <= 1
  BY NumbersAssumption, SMT
<1>3. CanaryType
  BY <1>1, <1>2 DEF Canaries!Init, Canaries!Jobs!Init, CanaryType, JobStatuses
<1>4. RefsInv
  BY <1>1, <1>2 DEF Canaries!Init, Canaries!Jobs!Init, RefsInv, AtRegister, Canaries!CountedOnce
<1>5. HealthInv
  BY <1>2 DEF Canaries!Init, HealthInv, Canaries!UnhealthyIffThreshold
<1>6. Canaries!OneLiveLoop
  BY <1>1 DEF Canaries!Init, Canaries!OneLiveLoop, Canaries!LiveLoops
<1> QED
  BY <1>3, <1>4, <1>5, <1>6 DEF CanaryInv

\* What OneLiveLoop says of a canary.
OneLive(c) ==
  /\ Canaries!LiveLoops(c) = {cancels[c]} \ {Free}
  /\ enabled[c] # "on" => cancels[c] = Free
  /\ enabled[c] = "on" /\ ~down /\ (\A k \in Callers : starting[k] # c) => cancels[c] # Free

LEMMA OneLiveFor == Canaries!OneLiveLoop <=> \A c \in CanaryIds : OneLive(c)
  BY DEF Canaries!OneLiveLoop, OneLive

LEMMA OneLiveNext == Canaries!OneLiveLoop' <=> \A c \in CanaryIds : OneLive(c)'
  BY DEF Canaries!OneLiveLoop, OneLive

\* The loops once the stored one of a canary is canceled.
Canceled(c) == IF cancels[c] = Free THEN loops ELSE Canaries!CanceledLoop(cancels[c])

\* The stored loop is the live one; canceled, it leaves the canary without any.
LEMMA CancelStored ==
  ASSUME CanaryInv, NEW c \in CanaryIds
  PROVE  /\ Canceled(c) \in [Loops -> Loop]
         /\ \A l \in Loops : /\ Canceled(c)[l].at = loops[l].at /\ Canceled(c)[l].canary = loops[l].canary
                             /\ Canceled(c)[l].job = loops[l].job
                             /\ loops[l].canary # c => Canceled(c)[l] = loops[l]
                             /\ ~(Canceled(c)[l].canary = c /\ Canceled(c)[l].at # "free" /\ ~Canceled(c)[l].canceled)
<1>1. loops \in [Loops -> Loop] /\ Canaries!LiveLoops(c) = {cancels[c]} \ {Free}
  BY DEF CanaryInv, CanaryType, Canaries!OneLiveLoop
<1>2. CASE cancels[c] = Free
  <2>1. Canceled(c) = loops /\ Canaries!LiveLoops(c) = {}
    BY <1>1, <1>2 DEF Canceled
  <2> QED
    BY <1>1, <2>1 DEF Canaries!LiveLoops
<1>3. CASE cancels[c] # Free
  <2>1. PICK m \in Loops : m = cancels[c]
    BY <1>3 DEF CanaryInv, CanaryType
  <2>2. loops[m].canary = c /\ Canaries!LiveLoops(c) = {m} /\ m \in Canaries!LiveLoops(c)
    BY <1>1, <1>3, <2>1 DEF Canaries!LiveLoops
  <2> DEFINE r == [loops[m] EXCEPT !.canceled = TRUE]
  <2>3. Canceled(c) = [loops EXCEPT ![m].canceled = TRUE]
    BY <1>3, <2>1 DEF Canceled, Canaries!CanceledLoop
  <2>4. /\ r \in Loop /\ r.at = loops[m].at /\ r.canary = loops[m].canary /\ r.job = loops[m].job
        /\ r.canceled = TRUE /\ Canceled(c) = [loops EXCEPT ![m] = r]
    BY <1>1, <2>3 DEF Loop
  <2> HIDE DEF r
  <2>5. Canceled(c) \in [Loops -> Loop] /\ Canceled(c)[m] = r /\ \A l \in Loops : l # m => Canceled(c)[l] = loops[l]
    BY <1>1, <2>4
  <2>6. \A l \in Loops : l # m => l \notin Canaries!LiveLoops(c)
    BY <2>2
  <2>7. \A l \in Loops : l # m => ~(loops[l].canary = c /\ loops[l].at # "free" /\ ~loops[l].canceled)
    BY <2>6 DEF Canaries!LiveLoops
  <2> QED
    BY <2>2, <2>4, <2>5, <2>7
<1> QED
  BY <1>2, <1>3

\* What concerns jobs is kept while loops keep their place and their job.
LEMMA RefsKept ==
  ASSUME CanaryInv, UNCHANGED <<status, jobRefs, counted>>,
         \A l \in Loops : loops'[l].at = "register" => loops[l].at = "register" /\ loops'[l].job = loops[l].job
  PROVE  RefsInv'
  BY DEF CanaryInv, RefsInv, AtRegister, Canaries!CountedOnce

LEMMA HealthKept ==
  ASSUME CanaryInv, UNCHANGED <<failures, health>>
  PROVE  HealthInv'
  BY DEF CanaryInv, HealthInv, Canaries!UnhealthyIffThreshold

\* One canary's loops change; every other canary's are as they were.
LEMMA LiveElsewhere ==
  ASSUME CanaryInv, NEW c \in CanaryIds, NEW d \in CanaryIds, d # c,
         \A l \in Loops : loops'[l] = loops[l] \/ ((loops[l].canary = c \/ loops[l].at = "free") /\ loops'[l].canary = c)
  PROVE  Canaries!LiveLoops(d)' = Canaries!LiveLoops(d)
  BY DEF Canaries!LiveLoops

LEMMA SwitchOnInv ==
  ASSUME CanaryInv, NEW k \in Callers, NEW c \in CanaryIds, Canaries!SwitchOn(k, c)
  PROVE  CanaryInv'
<1>1. /\ UNCHANGED <<status, failures, health, jobRefs, counted, cancels, loops, down>>
      /\ starting[k] = Free
      /\ enabled' = [enabled EXCEPT ![c] = "on"] /\ starting' = [starting EXCEPT ![k] = c]
  BY DEF Canaries!SwitchOn, Canaries!jobVars, Canaries!healthVars
<1>2. CanaryType'
  BY <1>1 DEF CanaryInv, CanaryType
<1>3. RefsInv' /\ HealthInv'
  BY <1>1, RefsKept, HealthKept
<1>4. /\ starting'[k] = c /\ \A h \in Callers : h # k => starting'[h] = starting[h]
      /\ enabled'[c] = "on" /\ \A d \in CanaryIds : d # c => enabled'[d] = enabled[d]
  BY <1>1 DEF CanaryInv, CanaryType
<1>5. ASSUME NEW d \in CanaryIds PROVE OneLive(d)'
  <2>1. OneLive(d) /\ starting[k] # d
    BY <1>1, OneLiveFor, NamesAssumption DEF CanaryInv
  <2>2. Canaries!LiveLoops(d)' = Canaries!LiveLoops(d)
    BY <1>1 DEF Canaries!LiveLoops
  <2>3. CASE d = c
    BY <1>1, <1>4, <2>1, <2>2, <2>3 DEF OneLive
  <2>4. CASE d # c
    BY <1>1, <1>4, <2>1, <2>2, <2>4 DEF OneLive
  <2> QED
    BY <2>3, <2>4
<1> QED
  BY <1>2, <1>3, <1>5, OneLiveNext DEF CanaryInv

LEMMA SwitchOffInv ==
  ASSUME CanaryInv, NEW c \in CanaryIds, Canaries!SwitchOff(c)
  PROVE  CanaryInv'
<1>1. /\ UNCHANGED <<status, failures, health, jobRefs, counted, starting, down>>
      /\ enabled' = [enabled EXCEPT ![c] = "off"] /\ cancels' = [cancels EXCEPT ![c] = Free]
      /\ loops' = Canceled(c)
  BY DEF Canaries!SwitchOff, Canaries!jobVars, Canaries!healthVars, Canceled
<1>2. /\ loops' \in [Loops -> Loop]
      /\ \A l \in Loops : /\ loops'[l].at = loops[l].at /\ loops'[l].canary = loops[l].canary
                          /\ loops'[l].job = loops[l].job
                          /\ loops[l].canary # c => loops'[l] = loops[l]
                          /\ ~(loops'[l].canary = c /\ loops'[l].at # "free" /\ ~loops'[l].canceled)
  BY <1>1, CancelStored
<1>3. CanaryType'
  BY <1>1, <1>2 DEF CanaryInv, CanaryType
<1>4. RefsInv' /\ HealthInv'
  BY <1>1, <1>2, RefsKept, HealthKept
<1>5. /\ cancels'[c] = Free /\ \A d \in CanaryIds : d # c => cancels'[d] = cancels[d]
      /\ enabled'[c] = "off" /\ \A d \in CanaryIds : d # c => enabled'[d] = enabled[d]
  BY <1>1 DEF CanaryInv, CanaryType
<1>6. ASSUME NEW d \in CanaryIds, d # c PROVE OneLive(d)'
  <2>1. \A l \in Loops : \/ loops'[l] = loops[l]
                         \/ (loops[l].canary = c \/ loops[l].at = "free") /\ loops'[l].canary = c
    BY <1>2
  <2>2. Canaries!LiveLoops(d)' = Canaries!LiveLoops(d)
    BY <1>6, <2>1, LiveElsewhere
  <2> QED
    BY <1>1, <1>5, <1>6, <2>2, OneLiveFor DEF CanaryInv, OneLive
<1>7. OneLive(c)'
  <2>1. Canaries!LiveLoops(c)' = {}
    BY <1>2 DEF Canaries!LiveLoops
  <2> QED
    BY <1>5, <2>1 DEF OneLive
<1> QED
  BY <1>3, <1>4, <1>6, <1>7, OneLiveNext DEF CanaryInv

LEMMA StartInv ==
  ASSUME CanaryInv, NEW k \in Callers, NEW l \in Loops, Canaries!Start(k, l)
  PROVE  CanaryInv'
<1>1. PICK c \in CanaryIds : c = starting[k]
  BY DEF Canaries!Start, CanaryInv, CanaryType
<1>2. /\ UNCHANGED <<status, failures, health, jobRefs, counted, enabled, down>>
      /\ starting' = [starting EXCEPT ![k] = Free]
  BY DEF Canaries!Start, Canaries!jobVars, Canaries!healthVars
<1>3. HealthInv'
  BY <1>2, HealthKept
<1>4. \A h \in Callers : h # k => starting'[h] = starting[h]
  BY <1>2 DEF CanaryInv, CanaryType
<1>5. \A d \in CanaryIds : d # c /\ (\A h \in Callers : starting'[h] # d) => \A h \in Callers : starting[h] # d
  BY <1>1, <1>4
<1>6. CASE enabled[c] # "on" /\ UNCHANGED <<loops, cancels>>
  <2>1. CanaryType'
    BY <1>2, <1>6 DEF CanaryInv, CanaryType
  <2>2. RefsInv'
    BY <1>2, <1>6, RefsKept
  <2>3. ASSUME NEW d \in CanaryIds PROVE OneLive(d)'
    <3>1. Canaries!LiveLoops(d)' = Canaries!LiveLoops(d)
      BY <1>6 DEF Canaries!LiveLoops
    <3>2. OneLive(d)
      BY OneLiveFor DEF CanaryInv
    <3> QED
      BY <1>2, <1>5, <1>6, <3>1, <3>2 DEF OneLive
  <2> QED
    BY <1>3, <2>1, <2>2, <2>3, OneLiveNext DEF CanaryInv
<1>7. CASE enabled[c] = "on"
  <2> DEFINE new == [Canaries!NoLoop EXCEPT !.at = "wait", !.canary = c]
  <2>1. /\ loops[l].at = "free" /\ loops' = [Canceled(c) EXCEPT ![l] = new]
        /\ cancels' = [cancels EXCEPT ![c] = l]
    BY <1>1, <1>7 DEF Canaries!Start, Canceled
  <2>2. new \in Loop /\ new.at = "wait" /\ new.canary = c /\ ~new.canceled
    BY DEF Canaries!NoLoop, Loop
  <2> HIDE DEF new
  <2>3. loops' \in [Loops -> Loop] /\ loops'[l] = new /\ \A m \in Loops : m # l => loops'[m] = Canceled(c)[m]
    BY <2>1, <2>2, CancelStored
  <2>4. \A m \in Loops : m # l =>
          /\ loops'[m].at = loops[m].at /\ loops'[m].canary = loops[m].canary
          /\ loops'[m].job = loops[m].job
          /\ loops[m].canary # c => loops'[m] = loops[m]
          /\ ~(loops'[m].canary = c /\ loops'[m].at # "free" /\ ~loops'[m].canceled)
    <3> SUFFICES ASSUME NEW m \in Loops, m # l
                 PROVE  /\ loops'[m].at = loops[m].at /\ loops'[m].canary = loops[m].canary
                        /\ loops'[m].job = loops[m].job
                        /\ loops[m].canary # c => loops'[m] = loops[m]
                        /\ ~(loops'[m].canary = c /\ loops'[m].at # "free" /\ ~loops'[m].canceled)
      OBVIOUS
    <3>1. loops'[m] = Canceled(c)[m]
      BY <2>3
    <3>2. /\ Canceled(c)[m].at = loops[m].at /\ Canceled(c)[m].canary = loops[m].canary
          /\ Canceled(c)[m].job = loops[m].job
          /\ loops[m].canary # c => Canceled(c)[m] = loops[m]
          /\ ~(Canceled(c)[m].canary = c /\ Canceled(c)[m].at # "free" /\ ~Canceled(c)[m].canceled)
      BY CancelStored
    <3> QED
      BY <3>1, <3>2
  <2>5. CanaryType'
    BY <1>2, <2>1, <2>2, <2>3, <2>4 DEF CanaryInv, CanaryType
  <2>6. RefsInv'
    BY <1>2, <2>2, <2>3, <2>4, RefsKept
  <2>7. /\ cancels'[c] = l /\ l # Free /\ \A d \in CanaryIds : d # c => cancels'[d] = cancels[d]
    BY <2>1, NamesAssumption DEF CanaryInv, CanaryType
  <2>8. OneLive(c)'
    <3>1. Canaries!LiveLoops(c)' = {l}
      BY <2>2, <2>3, <2>4 DEF Canaries!LiveLoops
    <3> QED
      BY <1>2, <1>7, <2>7, <3>1 DEF OneLive
  <2>9. ASSUME NEW d \in CanaryIds, d # c PROVE OneLive(d)'
    <3>1. \A m \in Loops : \/ loops'[m] = loops[m]
                           \/ (loops[m].canary = c \/ loops[m].at = "free") /\ loops'[m].canary = c
      BY <2>1, <2>2, <2>3, <2>4
    <3>2. Canaries!LiveLoops(d)' = Canaries!LiveLoops(d)
      BY <2>9, <3>1, LiveElsewhere
    <3>3. OneLive(d)
      BY OneLiveFor DEF CanaryInv
    <3> QED
      BY <1>2, <1>5, <2>7, <2>9, <3>2, <3>3 DEF OneLive
  <2> QED
    BY <1>3, <2>5, <2>6, <2>8, <2>9, OneLiveNext DEF CanaryInv
<1> QED
  BY <1>1, <1>6, <1>7 DEF Canaries!Start

LEMMA ShutdownInv ==
  ASSUME CanaryInv, Canaries!Shutdown
  PROVE  CanaryInv'
<1>1. /\ UNCHANGED <<status, failures, health, jobRefs, counted, enabled, starting>>
      /\ loops' = [l \in Loops |-> IF \E c \in CanaryIds : cancels[c] = l
                                   THEN [loops[l] EXCEPT !.canceled = TRUE] ELSE loops[l]]
      /\ cancels' = [c \in CanaryIds |-> Free] /\ down'
  BY DEF Canaries!Shutdown, Canaries!jobVars, Canaries!healthVars
<1>2. ASSUME NEW l \in Loops
      PROVE  /\ loops'[l] \in Loop /\ loops'[l].at = loops[l].at /\ loops'[l].canary = loops[l].canary
             /\ loops'[l].job = loops[l].job
             /\ ~loops'[l].canceled => ~loops[l].canceled /\ \A c \in CanaryIds : cancels[c] # l
  <2> DEFINE r == [loops[l] EXCEPT !.canceled = TRUE]
  <2>1. /\ r \in Loop /\ r.at = loops[l].at /\ r.canary = loops[l].canary /\ r.job = loops[l].job
        /\ r.canceled = TRUE /\ loops[l] \in Loop
    BY DEF CanaryInv, CanaryType, Loop
  <2>2. loops'[l] = IF \E c \in CanaryIds : cancels[c] = l THEN r ELSE loops[l]
    BY <1>1
  <2> HIDE DEF r
  <2>3. CASE \E c \in CanaryIds : cancels[c] = l
    <3>1. loops'[l] = r
      BY <2>2, <2>3
    <3> QED
      BY <2>1, <3>1
  <2>4. CASE ~\E c \in CanaryIds : cancels[c] = l
    <3>1. loops'[l] = loops[l]
      BY <2>2, <2>4
    <3> QED
      BY <2>1, <2>4, <3>1
  <2> QED
    BY <2>3, <2>4
<1>3. loops' \in [Loops -> Loop]
  BY <1>1, <1>2
<1>4. CanaryType'
  BY <1>1, <1>2, <1>3 DEF CanaryInv, CanaryType
<1>5. RefsInv' /\ HealthInv'
  BY <1>1, <1>2, RefsKept, HealthKept
<1>6. ASSUME NEW c \in CanaryIds PROVE OneLive(c)'
  <2>1. Canaries!LiveLoops(c) = {cancels[c]} \ {Free}
    BY DEF CanaryInv, Canaries!OneLiveLoop
  <2>2. ASSUME NEW l \in Loops PROVE ~(loops'[l].canary = c /\ loops'[l].at # "free" /\ ~loops'[l].canceled)
    <3>1. loops[l].canary = c /\ loops[l].at # "free" /\ ~loops[l].canceled => l = cancels[c]
      BY <2>1 DEF Canaries!LiveLoops
    <3> QED
      BY <1>2, <3>1
  <2>3. Canaries!LiveLoops(c)' = {}
    BY <2>2 DEF Canaries!LiveLoops
  <2>4. cancels'[c] = Free
    BY <1>1
  <2> QED
    BY <1>1, <2>3, <2>4 DEF OneLive
<1> QED
  BY <1>4, <1>5, <1>6, OneLiveNext DEF CanaryInv

LEMMA OneLiveKept ==
  ASSUME CanaryInv, UNCHANGED <<enabled, cancels, starting, down>>,
         \A c \in CanaryIds : Canaries!LiveLoops(c)' = Canaries!LiveLoops(c)
  PROVE  Canaries!OneLiveLoop'
  BY DEF CanaryInv, Canaries!OneLiveLoop

\* A canceled loop is live no more, so that its end is no loss to a canary.
LEMMA ExitInv ==
  ASSUME CanaryInv, NEW l \in Loops, Canaries!Exit(l)
  PROVE  CanaryInv'
<1>1. /\ UNCHANGED <<status, failures, health, jobRefs, counted, enabled, starting, cancels, down>>
      /\ loops[l].canceled /\ loops' = [loops EXCEPT ![l] = Canaries!NoLoop]
  BY DEF Canaries!Exit, Canaries!jobVars, Canaries!healthVars
<1>2. Canaries!NoLoop \in Loop /\ Canaries!NoLoop.at = "free"
  BY DEF Canaries!NoLoop, Loop
<1>3. /\ loops' \in [Loops -> Loop] /\ loops'[l] = Canaries!NoLoop
      /\ \A m \in Loops : m # l => loops'[m] = loops[m]
  BY <1>1, <1>2 DEF CanaryInv, CanaryType
<1>4. CanaryType'
  BY <1>1, <1>2, <1>3 DEF CanaryInv, CanaryType
<1>5. RefsInv' /\ HealthInv'
  BY <1>1, <1>2, <1>3, RefsKept, HealthKept
<1>6. \A c \in CanaryIds : Canaries!LiveLoops(c)' = Canaries!LiveLoops(c)
  BY <1>1, <1>2, <1>3 DEF Canaries!LiveLoops
<1> QED
  BY <1>1, <1>4, <1>5, <1>6, OneLiveKept DEF CanaryInv

\* A loop that goes on stays the loop of its canary.
LEMMA LoopMoves ==
  ASSUME CanaryInv, NEW l \in Loops, NEW r \in Loop, loops[l].at # "free", r.at # "free",
         r.canary = loops[l].canary, r.canceled = loops[l].canceled,
         loops' = [loops EXCEPT ![l] = r], UNCHANGED <<enabled, cancels, starting, down>>
  PROVE  /\ loops'[l] = r /\ \A m \in Loops : m # l => loops'[m] = loops[m]
         /\ loops' \in [Loops -> Loop]
         /\ \A m \in Loops : loops'[m].at # "free" => loops'[m].canary \in CanaryIds
         /\ Canaries!OneLiveLoop'
<1>1. /\ loops'[l] = r /\ \A m \in Loops : m # l => loops'[m] = loops[m]
      /\ loops' \in [Loops -> Loop]
  BY DEF CanaryInv, CanaryType
<1>2. \A m \in Loops : loops'[m].at # "free" => loops'[m].canary \in CanaryIds
  BY <1>1 DEF CanaryInv, CanaryType
<1>3. \A c \in CanaryIds : Canaries!LiveLoops(c)' = Canaries!LiveLoops(c)
  BY <1>1 DEF Canaries!LiveLoops
<1> QED
  BY <1>1, <1>2, <1>3, OneLiveKept

LEMMA LastUpdate ==
  ASSUME NEW S, NEW T, NEW f \in [S -> T], NEW x \in S, NEW a, NEW b
  PROVE  [[f EXCEPT ![x] = a] EXCEPT ![x] = b] = [f EXCEPT ![x] = b] /\ [f EXCEPT ![x] = a][x] = a
  OBVIOUS

LEMMA EnqueueInv ==
  ASSUME CanaryInv, NEW l \in Loops, NEW j \in ClientJobs, Canaries!Enqueue(l, j)
  PROVE  CanaryInv'
<1> DEFINE r == [loops[l] EXCEPT !.at = "register", !.job = j]
<1>1. /\ r \in Loop /\ r.at = "register" /\ r.job = j
      /\ r.canary = loops[l].canary /\ r.canceled = loops[l].canceled
  BY DEF CanaryInv, CanaryType, Loop
<1>2. /\ UNCHANGED <<failures, health, jobRefs, counted, enabled, starting, cancels, down>>
      /\ loops[l].at = "wait" /\ Canaries!Jobs!Submit(j)
      /\ loops' = [loops EXCEPT ![l].at = "register", ![l].job = j]
  BY DEF Canaries!Enqueue, Canaries!healthVars
<1>3. loops' = [loops EXCEPT ![l] = r]
  <2> DEFINE a == [loops[l] EXCEPT !.at = "register"]
             f == [loops EXCEPT ![l] = a]
  <2>1. f[l] = a /\ loops \in [Loops -> Loop]
    BY LastUpdate DEF CanaryInv, CanaryType
  <2>2. loops' = [f EXCEPT ![l] = [f[l] EXCEPT !.job = j]] /\ r = [a EXCEPT !.job = j]
    BY <1>2
  <2>3. loops' = [f EXCEPT ![l] = r]
    BY <2>1, <2>2
  <2> HIDE DEF a, r
  <2> QED
    BY <2>1, <2>3, LastUpdate
<1> HIDE DEF r
<1>4. /\ loops'[l] = r /\ \A m \in Loops : m # l => loops'[m] = loops[m]
      /\ loops' \in [Loops -> Loop]
      /\ \A m \in Loops : loops'[m].at # "free" => loops'[m].canary \in CanaryIds
      /\ Canaries!OneLiveLoop'
  BY <1>1, <1>2, <1>3, LoopMoves
<1>5. status[j] = "absent" /\ status'[j] = "pending" /\ JobsGrow
  BY <1>2, CanaryJobStep DEF Canaries!Jobs!Submit, Canaries!Jobs!Changes, CanaryInv, CanaryType
<1>6. CanaryType'
  BY <1>2, <1>4, <1>5 DEF CanaryInv, CanaryType, JobsGrow
<1>7. jobRefs[j] = Free /\ counted[j] = 0 /\ \A m \in Loops : AtRegister(m) => loops[m].job # j
  BY <1>5 DEF CanaryInv, RefsInv
<1>8. \A m \in Loops : m # l /\ AtRegister(m)' => AtRegister(m) /\ loops'[m].job = loops[m].job
  BY <1>4 DEF AtRegister
<1>9. RefsInv'
  <2>1. ASSUME NEW m \in Loops, AtRegister(m)'
        PROVE  /\ loops'[m].job \in ClientJobs /\ status'[loops'[m].job] # "absent"
               /\ jobRefs'[loops'[m].job] = Free /\ counted'[loops'[m].job] = 0
    <3>1. CASE m = l
      BY <1>1, <1>2, <1>4, <1>5, <1>7, <3>1
    <3>2. CASE m # l
      <4>1. /\ loops'[m].job = loops[m].job /\ loops[m].job \in ClientJobs /\ status[loops[m].job] # "absent"
            /\ jobRefs[loops[m].job] = Free /\ counted[loops[m].job] = 0
        BY <1>8, <2>1, <3>2 DEF CanaryInv, RefsInv
      <4> QED
        BY <1>2, <1>5, <4>1 DEF JobsGrow
    <3> QED
      BY <3>1, <3>2
  <2>2. \A m, n \in Loops : AtRegister(m)' /\ AtRegister(n)' /\ loops'[m].job = loops'[n].job => m = n
    <3>1. \A m \in Loops : m # l /\ AtRegister(m)' => loops'[m].job # loops'[l].job
      BY <1>1, <1>4, <1>7, <1>8
    <3>2. \A m, n \in Loops : AtRegister(m) /\ AtRegister(n) /\ loops[m].job = loops[n].job => m = n
      BY DEF CanaryInv, RefsInv
    <3> QED
      BY <1>8, <3>1, <3>2
  <2>3. \A i \in ClientJobs : status'[i] = "absent" => jobRefs'[i] = Free /\ counted'[i] = 0
    BY <1>2, <1>5 DEF JobsGrow, CanaryInv, RefsInv
  <2>4. \A i \in ClientJobs : (jobRefs'[i] # Free => counted'[i] = 0) /\ counted'[i] <= 1
    BY <1>2 DEF CanaryInv, RefsInv, Canaries!CountedOnce
  <2> QED
    BY <2>1, <2>2, <2>3, <2>4 DEF RefsInv, Canaries!CountedOnce
<1> QED
  BY <1>2, <1>4, <1>6, <1>9, HealthKept DEF CanaryInv

\* Enqueue refused, and the failure it is counted as.
LEMMA RefusedInv ==
  ASSUME CanaryInv, NEW l \in Loops, Canaries!Refused(l) \/ Canaries!MarkFailure(l)
  PROVE  CanaryInv'
<1>1. PICK at \in {"wait", "mark"} :
        /\ loops' = [loops EXCEPT ![l].at = at] /\ loops[l].at \in {"wait", "mark"}
        /\ UNCHANGED <<status, jobRefs, counted, enabled, starting, cancels, down>>
  BY DEF Canaries!Refused, Canaries!MarkFailure, Canaries!jobVars, Canaries!healthVars
<1> DEFINE r == [loops[l] EXCEPT !.at = at]
<1>2. /\ r \in Loop /\ r.at = at /\ r.canary = loops[l].canary /\ r.canceled = loops[l].canceled
      /\ loops' = [loops EXCEPT ![l] = r]
  BY <1>1 DEF CanaryInv, CanaryType, Loop
<1> HIDE DEF r
<1>3. loops[l].at # "free" /\ at # "free" /\ at # "register"
  BY <1>1
<1>4. /\ loops'[l] = r /\ \A m \in Loops : m # l => loops'[m] = loops[m]
      /\ loops' \in [Loops -> Loop]
      /\ \A m \in Loops : loops'[m].at # "free" => loops'[m].canary \in CanaryIds
      /\ Canaries!OneLiveLoop'
  BY <1>1, <1>2, <1>3, LoopMoves
<1>5. CanaryType'
  BY <1>1, <1>4 DEF CanaryInv, CanaryType
<1>6. \A m \in Loops : loops'[m].at = "register" => loops[m].at = "register" /\ loops'[m].job = loops[m].job
  BY <1>2, <1>3, <1>4
<1>7. RefsInv'
  BY <1>1, <1>6, RefsKept
<1>8. HealthInv'
  <2>1. CASE Canaries!Refused(l)
    BY <2>1, HealthKept DEF Canaries!Refused, Canaries!healthVars
  <2>2. CASE Canaries!MarkFailure(l)
    <3>1. loops[l].canary \in CanaryIds /\ HealthInv /\ Canaries!Failed(loops[l].canary)
      BY <1>3, <2>2 DEF CanaryInv, CanaryType, Canaries!MarkFailure
    <3> QED
      BY <3>1, FailedInv
  <2> QED
    BY <2>1, <2>2
<1> QED
  BY <1>4, <1>5, <1>7, <1>8 DEF CanaryInv

LEMMA RegisterInv ==
  ASSUME CanaryInv, NEW l \in Loops, Canaries!Register(l)
  PROVE  CanaryInv'
<1>1. PICK j \in ClientJobs : j = loops[l].job
  BY DEF Canaries!Register, CanaryInv, RefsInv, AtRegister
<1> DEFINE r == [loops[l] EXCEPT !.at = "wait", !.job = Free]
<1>2. /\ r \in Loop /\ r.at = "wait" /\ r.canary = loops[l].canary /\ r.canceled = loops[l].canceled
  BY DEF CanaryInv, CanaryType, Loop
<1>3. /\ UNCHANGED <<status, failures, health, counted, enabled, starting, cancels, down>>
      /\ loops[l].at = "register" /\ jobRefs' = [jobRefs EXCEPT ![j] = loops[l].canary]
      /\ loops' = [loops EXCEPT ![l].at = "wait", ![l].job = Free]
  BY <1>1 DEF Canaries!Register, Canaries!jobVars
<1>4. loops' = [loops EXCEPT ![l] = r]
  <2> DEFINE a == [loops[l] EXCEPT !.at = "wait"]
             f == [loops EXCEPT ![l] = a]
  <2>1. f[l] = a /\ loops \in [Loops -> Loop]
    BY LastUpdate DEF CanaryInv, CanaryType
  <2>2. loops' = [f EXCEPT ![l] = [f[l] EXCEPT !.job = Free]] /\ r = [a EXCEPT !.job = Free]
    BY <1>3
  <2>3. loops' = [f EXCEPT ![l] = r]
    BY <2>1, <2>2
  <2> HIDE DEF a, r
  <2> QED
    BY <2>1, <2>3, LastUpdate
<1> HIDE DEF r
<1>5. /\ loops'[l] = r /\ \A m \in Loops : m # l => loops'[m] = loops[m]
      /\ loops' \in [Loops -> Loop]
      /\ \A m \in Loops : loops'[m].at # "free" => loops'[m].canary \in CanaryIds
      /\ Canaries!OneLiveLoop'
  BY <1>2, <1>3, <1>4, LoopMoves
<1>6. /\ jobRefs' \in [ClientJobs -> CanaryIds \cup {Free}]
      /\ \A i \in ClientJobs : i # j => jobRefs'[i] = jobRefs[i]
  BY <1>3 DEF CanaryInv, CanaryType
<1>7. CanaryType'
  BY <1>3, <1>5, <1>6 DEF CanaryInv, CanaryType
<1>8. counted[j] = 0 /\ status[j] # "absent" /\ AtRegister(l)
  BY <1>1, <1>3 DEF CanaryInv, RefsInv, AtRegister
<1>9. \A m \in Loops : AtRegister(m)' => AtRegister(m) /\ m # l /\ loops'[m].job = loops[m].job
  BY <1>2, <1>5 DEF AtRegister
<1>10. \A m \in Loops : AtRegister(m)' => loops[m].job # j
  BY <1>1, <1>8, <1>9 DEF CanaryInv, RefsInv
<1>11. RefsInv'
  <2>1. ASSUME NEW m \in Loops, AtRegister(m)'
        PROVE  /\ loops'[m].job \in ClientJobs /\ status'[loops'[m].job] # "absent"
               /\ jobRefs'[loops'[m].job] = Free /\ counted'[loops'[m].job] = 0
    <3>1. /\ loops'[m].job = loops[m].job /\ loops[m].job \in ClientJobs /\ status[loops[m].job] # "absent"
          /\ jobRefs[loops[m].job] = Free /\ counted[loops[m].job] = 0 /\ loops[m].job # j
      BY <1>9, <1>10, <2>1 DEF CanaryInv, RefsInv
    <3> QED
      BY <1>3, <1>6, <3>1
  <2>2. \A m, n \in Loops : AtRegister(m)' /\ AtRegister(n)' /\ loops'[m].job = loops'[n].job => m = n
    BY <1>9 DEF CanaryInv, RefsInv
  <2>3. ASSUME NEW i \in ClientJobs
        PROVE  /\ status'[i] = "absent" => jobRefs'[i] = Free /\ counted'[i] = 0
               /\ jobRefs'[i] # Free => counted'[i] = 0
               /\ counted'[i] <= 1
    <3>1. /\ status[i] = "absent" => jobRefs[i] = Free /\ counted[i] = 0
          /\ jobRefs[i] # Free => counted[i] = 0
          /\ counted[i] <= 1
      BY DEF CanaryInv, RefsInv, Canaries!CountedOnce
    <3>2. CASE i = j
      BY <1>3, <1>8, <3>1, <3>2
    <3>3. CASE i # j
      BY <1>3, <1>6, <3>1, <3>3
    <3> QED
      BY <3>2, <3>3
  <2> QED
    BY <2>1, <2>2, <2>3 DEF RefsInv, Canaries!CountedOnce
<1> QED
  BY <1>3, <1>5, <1>7, <1>11, HealthKept DEF CanaryInv

\* Jobs move on while the canaries and their loops rest.
LEMMA JobsInv ==
  ASSUME CanaryInv, JobsGrow,
         UNCHANGED <<failures, health, jobRefs, counted, enabled, cancels, loops, starting, down>>
  PROVE  CanaryInv'
<1>1. CanaryType'
  BY DEF CanaryInv, CanaryType, JobsGrow
<1>2. RefsInv'
  BY DEF CanaryInv, CanaryType, RefsInv, AtRegister, JobsGrow, Canaries!CountedOnce
<1>3. Canaries!OneLiveLoop'
  BY OneLiveKept DEF Canaries!LiveLoops
<1> QED
  BY <1>1, <1>2, <1>3, HealthKept DEF CanaryInv

\* onJob: a result that counts takes the job's entry with it.
LEMMA CountInv ==
  ASSUME CanaryInv, JobsGrow, NEW j \in ClientJobs, NEW s, Canaries!Count(j, s),
         UNCHANGED <<enabled, cancels, loops, starting, down>>
  PROVE  CanaryInv'
<1>1. CASE s \notin {"succeeded", "failed"} \/ jobRefs[j] = Free
  BY <1>1, JobsInv DEF Canaries!Count, Canaries!healthVars
<1>2. CASE ~(s \notin {"succeeded", "failed"} \/ jobRefs[j] = Free)
  <2>1. PICK c \in CanaryIds : c = jobRefs[j]
    BY <1>2 DEF CanaryInv, CanaryType
  <2>2. /\ jobRefs' = [jobRefs EXCEPT ![j] = Free] /\ counted' = [counted EXCEPT ![j] = counted[j] + 1]
        /\ \/ failures' = [failures EXCEPT ![c] = 0] /\ health' = [health EXCEPT ![c] = "healthy"]
           \/ Canaries!Failed(c)
    BY <1>2, <2>1 DEF Canaries!Count
  <2>3. HealthInv'
    BY <2>2, FailedInv, SucceededInv DEF CanaryInv
  <2>4. counted[j] = 0 /\ 0 + 1 = 1 /\ 1 \in Nat /\ 1 <= 1
    <3>1. counted[j] = 0
      BY <1>2 DEF CanaryInv, RefsInv
    <3>2. 0 + 1 = 1 /\ 1 \in Nat /\ 1 <= 1
      BY SMT
    <3> QED
      BY <3>1, <3>2
  <2>5. /\ jobRefs' \in [ClientJobs -> CanaryIds \cup {Free}] /\ jobRefs'[j] = Free
        /\ counted' \in [ClientJobs -> Nat] /\ counted'[j] = 1
        /\ \A i \in ClientJobs : i # j => jobRefs'[i] = jobRefs[i] /\ counted'[i] = counted[i]
    BY <2>2, <2>4 DEF CanaryInv, CanaryType
  <2>6. CanaryType'
    BY <2>5 DEF CanaryInv, CanaryType, JobsGrow
  <2>7. status[j] # "absent" /\ \A m \in Loops : AtRegister(m) => loops[m].job # j
    BY <1>2 DEF CanaryInv, RefsInv
  <2>8. RefsInv'
    <3>1. ASSUME NEW m \in Loops, AtRegister(m)'
          PROVE  /\ loops'[m].job \in ClientJobs /\ status'[loops'[m].job] # "absent"
                 /\ jobRefs'[loops'[m].job] = Free /\ counted'[loops'[m].job] = 0
      <4>1. AtRegister(m)
        BY <3>1 DEF AtRegister
      <4>2. /\ loops[m].job \in ClientJobs /\ status[loops[m].job] # "absent" /\ loops[m].job # j
            /\ jobRefs[loops[m].job] = Free /\ counted[loops[m].job] = 0
        BY <2>7, <4>1 DEF CanaryInv, RefsInv
      <4> QED
        BY <2>5, <4>2 DEF JobsGrow
    <3>2. \A m, n \in Loops : AtRegister(m)' /\ AtRegister(n)' /\ loops'[m].job = loops'[n].job => m = n
      BY DEF CanaryInv, RefsInv, AtRegister
    <3>3. ASSUME NEW i \in ClientJobs
          PROVE  /\ status'[i] = "absent" => jobRefs'[i] = Free /\ counted'[i] = 0
                 /\ jobRefs'[i] # Free => counted'[i] = 0
                 /\ counted'[i] <= 1
      <4>1. /\ status[i] = "absent" => jobRefs[i] = Free /\ counted[i] = 0
            /\ jobRefs[i] # Free => counted[i] = 0
            /\ counted[i] <= 1
            /\ status'[i] = "absent" => status[i] = "absent"
        BY DEF CanaryInv, RefsInv, Canaries!CountedOnce, JobsGrow
      <4>2. CASE i = j
        BY <2>4, <2>5, <2>7, <4>1, <4>2
      <4>3. CASE i # j
        BY <2>5, <4>1, <4>3
      <4> QED
        BY <4>2, <4>3
    <3> QED
      BY <3>1, <3>2, <3>3 DEF RefsInv, Canaries!CountedOnce
  <2>9. Canaries!OneLiveLoop'
    BY OneLiveKept DEF Canaries!LiveLoops
  <2> QED
    BY <2>3, <2>6, <2>8, <2>9 DEF CanaryInv
<1> QED
  BY <1>1, <1>2

LEMMA CanaryStep == CanaryInv /\ [Canaries!Next]_(Canaries!vars) => CanaryInv'
<1> SUFFICES ASSUME CanaryInv, [Canaries!Next]_(Canaries!vars) PROVE CanaryInv'
  OBVIOUS
<1>0. status \in [ClientJobs -> JobStatuses]
  BY DEF CanaryInv, CanaryType
<1>1. CASE \E k \in Callers : (\E c \in CanaryIds : Canaries!SwitchOn(k, c)) \/ \E l \in Loops : Canaries!Start(k, l)
  BY <1>1, SwitchOnInv, StartInv
<1>2. CASE (\E c \in CanaryIds : Canaries!SwitchOff(c)) \/ Canaries!Shutdown
  BY <1>2, SwitchOffInv, ShutdownInv
<1>3. CASE \E l \in Loops : \/ Canaries!Exit(l) \/ Canaries!Refused(l) \/ Canaries!MarkFailure(l)
                            \/ Canaries!Register(l) \/ \E j \in ClientJobs : Canaries!Enqueue(l, j)
  BY <1>3, ExitInv, RefusedInv, RegisterInv, EnqueueInv
<1>4. CASE \E j \in ClientJobs : Canaries!CancelJob(j) \/ Canaries!FailJob(j) \/ Canaries!Work(j)
  <2>1. PICK j \in ClientJobs :
          /\ Canaries!Jobs!Cancel(j) \/ Canaries!Jobs!Fail(j) \/ Canaries!Jobs!Work(j)
          /\ UNCHANGED <<Canaries!healthVars, Canaries!loopVars>>
    BY <1>4 DEF Canaries!CancelJob, Canaries!FailJob, Canaries!Work
  <2>2. JobsGrow
    BY <1>0, <2>1, CanaryJobStep
  <2> QED
    BY <2>1, <2>2, JobsInv DEF Canaries!healthVars, Canaries!loopVars
<1>5. CASE \E j \in ClientJobs : Canaries!OnWorkerJob(j) \/ \E s \in Canaries!Jobs!ByCaller : Canaries!OnJob(j, s)
  <2>1. PICK j \in ClientJobs :
          /\ Canaries!Jobs!Announce(j) \/ \E s \in Canaries!Jobs!ByCaller : Canaries!Jobs!Deliver(j, s)
          /\ \E s : Canaries!Count(j, s)
          /\ UNCHANGED Canaries!loopVars
    BY <1>5 DEF Canaries!OnWorkerJob, Canaries!OnJob
  <2>2. JobsGrow
    BY <1>0, <2>1, CanaryJobStep
  <2> QED
    BY <2>1, <2>2, CountInv DEF Canaries!loopVars
<1>6. CASE UNCHANGED Canaries!vars
  <2>1. JobsGrow
    BY <1>0, <1>6 DEF Canaries!vars, Canaries!jobVars, JobsGrow
  <2> QED
    BY <1>6, <2>1, JobsInv DEF Canaries!vars, Canaries!healthVars, Canaries!loopVars
<1> QED
  BY <1>1, <1>2, <1>3, <1>4, <1>5, <1>6 DEF Canaries!Next, Canaries!Queue

-----------------------------------------------------------------------------
(* Agent dispatch *)

Request ==
  [at : {"idle", "strategy", "enqueue", "publish", "record", "done"},
   path : Paths \cup {Dispatch!NoJob}, env : Environments \cup {Dispatch!NoJob},
   strategy : Dispatch!Strategies, mode : Dispatch!Modes, job : ClientJobs \cup {Dispatch!NoJob}]
Entries ==
  [id : Nat, path : Paths \cup {Dispatch!NoJob}, strategy : Dispatch!Strategies, mode : Dispatch!Modes,
   job : ClientJobs \cup {Dispatch!NoJob}, status : {"queued", "dispatched"}]

\* What a strategy says of the job of a request or a record.
Overridden(r) ==
  /\ r.strategy = "push" => r.job # Dispatch!NoJob
  /\ r.strategy = "pull" => r.job = Dispatch!NoJob

\* A request on its way keeps to the strategy it has read, and has the job its
\* path's key stands for.
Routed(r) ==
  /\ r.at \in {"strategy", "enqueue", "publish", "record"} => r.path \in Paths
  /\ r.at \in {"idle", "strategy", "enqueue", "publish"} => r.job = Dispatch!NoJob
  /\ r.at = "enqueue" => r.strategy # "pull"
  /\ r.at = "publish" => r.strategy # "push"
  /\ r.at = "record" => Overridden(r)
  /\ r.job # Dispatch!NoJob => r.path \in Paths /\ r.job = keys[r.path]

\* An idempotency key stands for one job that exists.
KeyInv ==
  /\ keys \in [Paths -> ClientJobs \cup {Dispatch!NoJob}]
  /\ \A p \in Paths : keys[p] # Dispatch!NoJob => status[keys[p]] # "absent"
  /\ \A p, r \in Paths : keys[p] # Dispatch!NoJob /\ keys[p] = keys[r] => p = r

SettingsInv ==
  mode \in Dispatch!Modes /\ envModes \in [Environments -> Dispatch!Strategies] /\ changes \in 0 .. MaxChanges

RequestsInv == request \in [Callers -> Request] /\ \A q \in Callers : Routed(request[q])

LogInv ==
  /\ records \in Seq(Entries) /\ recorded \in Nat /\ Len(records) <= recorded /\ Len(records) <= Retained
  /\ \A i \in 1 .. Len(records) : Overridden(records[i])
  /\ Dispatch!LatestRecords

DispatchInv == status \in [ClientJobs -> JobStatuses] /\ KeyInv /\ SettingsInv /\ RequestsInv /\ LogInv

LEMMA DispatchInit == Dispatch!Init => DispatchInv
<1> SUFFICES ASSUME Dispatch!Init PROVE DispatchInv
  OBVIOUS
<1>1. status \in [ClientJobs -> JobStatuses] /\ KeyInv
  BY DEF Dispatch!Init, Dispatch!Jobs!Init, JobStatuses, KeyInv
<1>2. 0 \in 0 .. MaxChanges
  BY NumbersAssumption, SMT
<1>3. SettingsInv
  BY <1>2 DEF Dispatch!Init, SettingsInv, Dispatch!Modes, Dispatch!Strategies
<1>4. /\ Dispatch!Idle \in Request /\ Dispatch!Idle.at = "idle" /\ Dispatch!Idle.job = Dispatch!NoJob
  BY DEF Dispatch!Idle, Request, Dispatch!Strategies, Dispatch!Modes
<1>5. Routed(Dispatch!Idle)
  BY <1>4 DEF Routed
<1>6. RequestsInv
  BY <1>4, <1>5 DEF Dispatch!Init, RequestsInv
<1>7. LogInv
  BY NumbersAssumption, SMT DEF Dispatch!Init, LogInv, Dispatch!LatestRecords
<1> QED
  BY <1>1, <1>3, <1>6, <1>7 DEF DispatchInv

\* The jobs move on; no key loses its job.
LEMMA DispatchJobs ==
  ASSUME DispatchInv, JobsGrow, UNCHANGED <<mode, envModes, changes, keys, request, records, recorded>>
  PROVE  DispatchInv'
<1>1. KeyInv'
  BY DEF DispatchInv, KeyInv, JobsGrow
<1>2. SettingsInv' /\ RequestsInv' /\ LogInv'
  BY DEF DispatchInv, SettingsInv, RequestsInv, Routed, LogInv, Dispatch!LatestRecords
<1> QED
  BY <1>1, <1>2 DEF DispatchInv, JobsGrow

\* One request moves; what the others have does not concern it.
LEMMA RequestMoves ==
  ASSUME DispatchInv, NEW q \in Callers, NEW r \in Request, Routed(r), Dispatch!Moves(q, r),
         UNCHANGED <<status, mode, envModes, changes, keys, records, recorded>>
  PROVE  DispatchInv'
<1>1. /\ request' \in [Callers -> Request] /\ request'[q] = r
      /\ \A p \in Callers : p # q => request'[p] = request[p]
  BY DEF DispatchInv, RequestsInv, Dispatch!Moves
<1>2. RequestsInv'
  BY <1>1 DEF DispatchInv, RequestsInv, Routed
<1>3. KeyInv' /\ SettingsInv' /\ LogInv'
  BY DEF DispatchInv, KeyInv, SettingsInv, LogInv, Dispatch!LatestRecords
<1> QED
  BY <1>2, <1>3 DEF DispatchInv

LEMMA SettingsMove ==
  ASSUME DispatchInv,
         \/ \E m \in Dispatch!Modes : Dispatch!SetMode(m)
         \/ \E e \in Environments, s \in Dispatch!Strategies : Dispatch!SetEnvironmentStrategy(e, s)
  PROVE  DispatchInv'
<1>1. /\ UNCHANGED <<status, keys, request, records, recorded>> /\ changes < MaxChanges
      /\ changes' = changes + 1
      /\ mode' \in Dispatch!Modes /\ envModes' \in [Environments -> Dispatch!Strategies]
  BY DEF DispatchInv, SettingsInv, Dispatch!SetMode, Dispatch!SetEnvironmentStrategy, Dispatch!jobVars
<1>2. changes' \in 0 .. MaxChanges
  BY <1>1, NumbersAssumption, SMT DEF DispatchInv, SettingsInv
<1>3. SettingsInv'
  BY <1>1, <1>2 DEF SettingsInv
<1>4. KeyInv' /\ RequestsInv' /\ LogInv'
  BY <1>1 DEF DispatchInv, KeyInv, RequestsInv, Routed, LogInv, Dispatch!LatestRecords
<1> QED
  BY <1>1, <1>3, <1>4 DEF DispatchInv

LEMMA ReadStrategyInv ==
  ASSUME DispatchInv, NEW q \in Callers, NEW p \in Paths, NEW e \in Environments, Dispatch!ReadStrategy(q, p, e)
  PROVE  DispatchInv'
<1> DEFINE r == [Dispatch!Idle EXCEPT !.at = "strategy", !.path = p, !.env = e, !.strategy = envModes[e]]
<1>1. envModes[e] \in Dispatch!Strategies
  BY DEF DispatchInv, SettingsInv
<1>2. /\ r \in Request /\ r.at = "strategy" /\ r.path = p /\ r.job = Dispatch!NoJob
  BY <1>1 DEF Dispatch!Idle, Request, Dispatch!Modes
<1>3. /\ Dispatch!Moves(q, r) /\ UNCHANGED <<status, mode, envModes, changes, keys, records, recorded>>
  BY DEF Dispatch!ReadStrategy, Dispatch!jobVars, Dispatch!settings
<1> HIDE DEF r
<1>4. Routed(r)
  BY <1>2 DEF Routed
<1> QED
  BY <1>2, <1>3, <1>4, RequestMoves

LEMMA ReadModeInv ==
  ASSUME DispatchInv, NEW q \in Callers, Dispatch!ReadMode(q)
  PROVE  DispatchInv'
<1>1. /\ request[q] \in Request /\ Routed(request[q]) /\ request[q].at = "strategy"
      /\ mode \in Dispatch!Modes
  BY DEF DispatchInv, RequestsInv, SettingsInv, Dispatch!ReadMode
<1>2. PICK m \in Dispatch!Modes, at \in {"enqueue", "publish"} :
        /\ m = Dispatch!Route(request[q].strategy) /\ at = IF m = "local" THEN "enqueue" ELSE "publish"
        /\ request[q].strategy = "push" => m = "local"
        /\ request[q].strategy = "pull" => m = "event_bus"
  <2>1. request[q].strategy \in {"push", "pull", "hybrid"}
    BY <1>1 DEF Request, Dispatch!Strategies
  <2>2. /\ Dispatch!Route(request[q].strategy) \in Dispatch!Modes
        /\ request[q].strategy = "push" => Dispatch!Route(request[q].strategy) = "local"
        /\ request[q].strategy = "pull" => Dispatch!Route(request[q].strategy) = "event_bus"
    BY <1>1, <2>1, SMT DEF Dispatch!Route, Dispatch!Modes
  <2> QED
    BY <2>2
<1> DEFINE r == [request[q] EXCEPT !.mode = m, !.at = at]
<1>3. /\ r \in Request /\ r.at = at /\ r.path = request[q].path /\ r.job = request[q].job
      /\ r.strategy = request[q].strategy
  BY <1>1, <1>2 DEF Request
<1>4. /\ Dispatch!Moves(q, r) /\ UNCHANGED <<status, mode, envModes, changes, keys, records, recorded>>
  BY <1>2 DEF Dispatch!ReadMode, Dispatch!jobVars, Dispatch!settings
<1> HIDE DEF r
<1>5. /\ at = "enqueue" => request[q].strategy # "pull"
      /\ at = "publish" => request[q].strategy # "push"
  BY <1>2
<1>6. Routed(r)
  BY <1>1, <1>3, <1>5 DEF Routed
<1> QED
  BY <1>3, <1>4, <1>6, RequestMoves

LEMMA EnqueueKnownInv ==
  ASSUME DispatchInv, NEW q \in Callers, Dispatch!EnqueueKnown(q)
  PROVE  DispatchInv'
<1>1. /\ request[q] \in Request /\ Routed(request[q]) /\ request[q].at = "enqueue"
      /\ keys[request[q].path] # Dispatch!NoJob /\ KeyInv
  BY DEF DispatchInv, RequestsInv, Dispatch!EnqueueKnown
<1>2. PICK j \in ClientJobs : j = keys[request[q].path] /\ j # Dispatch!NoJob
  BY <1>1 DEF Routed, KeyInv
<1> DEFINE r == [request[q] EXCEPT !.at = "record", !.job = j]
<1>3. /\ r \in Request /\ r.at = "record" /\ r.path = request[q].path /\ r.job = j
      /\ r.strategy = request[q].strategy
  BY <1>1 DEF Request
<1>4. /\ Dispatch!Moves(q, r) /\ UNCHANGED <<status, mode, envModes, changes, keys, records, recorded>>
  BY <1>2 DEF Dispatch!EnqueueKnown, Dispatch!jobVars, Dispatch!settings
<1> HIDE DEF r
<1>5. Routed(r)
  BY <1>1, <1>2, <1>3 DEF Routed, Overridden
<1> QED
  BY <1>3, <1>4, <1>5, RequestMoves

LEMMA RequestEndsInv ==
  ASSUME DispatchInv, NEW q \in Callers, Dispatch!Refused(q) \/ Dispatch!Publish(q)
  PROVE  DispatchInv'
<1>1. PICK at \in {"done", "record"} :
        /\ Dispatch!Moves(q, [request[q] EXCEPT !.at = at])
        /\ request[q].at \in {"enqueue", "publish"}
        /\ at = "record" => request[q].at = "publish"
        /\ UNCHANGED <<status, mode, envModes, changes, keys, records, recorded>>
  BY DEF Dispatch!Refused, Dispatch!Publish, Dispatch!jobVars, Dispatch!settings
<1>2. request[q] \in Request /\ Routed(request[q])
  BY DEF DispatchInv, RequestsInv
<1> DEFINE r == [request[q] EXCEPT !.at = at]
<1>3. /\ r \in Request /\ r.at = at /\ r.path = request[q].path /\ r.job = request[q].job
      /\ r.strategy = request[q].strategy
  BY <1>2 DEF Request
<1>4. Dispatch!Moves(q, r)
  BY <1>1
<1> HIDE DEF r
<1>5. Routed(r)
  BY <1>1, <1>2, <1>3 DEF Routed, Overridden
<1> QED
  BY <1>1, <1>3, <1>4, <1>5, RequestMoves

\* A new key stands for a job no other key has.
LEMMA EnqueueNewInv ==
  ASSUME DispatchInv, NEW q \in Callers, NEW j \in ClientJobs, Dispatch!EnqueueNew(q, j)
  PROVE  DispatchInv'
<1>1. /\ request[q] \in Request /\ Routed(request[q]) /\ request[q].at = "enqueue"
      /\ KeyInv /\ j # Dispatch!NoJob
  BY NamesAssumption DEF DispatchInv, RequestsInv, Dispatch!EnqueueNew, Dispatch!NoJob
<1>2. PICK p \in Paths : p = request[q].path
  BY <1>1 DEF Routed
<1>3. /\ keys[p] = Dispatch!NoJob /\ keys' = [keys EXCEPT ![p] = j] /\ Dispatch!Jobs!Submit(j)
      /\ UNCHANGED <<mode, envModes, changes, records, recorded>>
  BY <1>2 DEF Dispatch!EnqueueNew, Dispatch!settings
<1> DEFINE r == [request[q] EXCEPT !.at = "record", !.job = j]
<1>4. /\ r \in Request /\ r.at = "record" /\ r.path = p /\ r.job = j /\ r.strategy = request[q].strategy
  BY <1>1, <1>2 DEF Request
<1>5. Dispatch!Moves(q, r)
  BY DEF Dispatch!EnqueueNew
<1> HIDE DEF r
<1>6. /\ status[j] = "absent" /\ status' = [status EXCEPT ![j] = "pending"]
      /\ status \in [ClientJobs -> JobStatuses]
  BY <1>3 DEF DispatchInv, Dispatch!Jobs!Submit, Dispatch!Jobs!Changes
<1>7. /\ status' \in [ClientJobs -> JobStatuses] /\ status'[j] = "pending"
      /\ \A i \in ClientJobs : status[i] # "absent" => status'[i] # "absent"
  BY <1>6 DEF JobStatuses
<1>8. /\ keys' \in [Paths -> ClientJobs \cup {Dispatch!NoJob}] /\ keys'[p] = j
      /\ \A o \in Paths : o # p => keys'[o] = keys[o]
  BY <1>1, <1>3 DEF KeyInv
<1>9. \A o \in Paths : keys[o] # j
  BY <1>1, <1>6 DEF KeyInv
<1>10. KeyInv'
  <2>1. \A o \in Paths : keys'[o] # Dispatch!NoJob => status'[keys'[o]] # "absent"
    <3> SUFFICES ASSUME NEW o \in Paths, keys'[o] # Dispatch!NoJob PROVE status'[keys'[o]] # "absent"
      OBVIOUS
    <3>1. CASE o = p
      BY <1>7, <1>8, <3>1
    <3>2. CASE o # p
      <4>1. keys'[o] = keys[o] /\ keys[o] \in ClientJobs /\ status[keys[o]] # "absent"
        BY <1>1, <1>8, <3>2 DEF KeyInv
      <4> QED
        BY <1>7, <4>1
    <3> QED
      BY <3>1, <3>2
  <2>2. \A o, n \in Paths : keys'[o] # Dispatch!NoJob /\ keys'[o] = keys'[n] => o = n
    BY <1>1, <1>8, <1>9 DEF KeyInv
  <2> QED
    BY <1>8, <2>1, <2>2 DEF KeyInv
<1>11. /\ request' \in [Callers -> Request] /\ request'[q] = r
       /\ \A o \in Callers : o # q => request'[o] = request[o]
  BY <1>4, <1>5 DEF DispatchInv, RequestsInv, Dispatch!Moves
<1>12. \A o \in Callers : Routed(request[o])'
  <2> SUFFICES ASSUME NEW o \in Callers PROVE Routed(request[o])'
    OBVIOUS
  <2>1. CASE o = q
    BY <1>1, <1>4, <1>8, <1>11, <2>1 DEF Routed, Overridden
  <2>2. CASE o # q
    <3>1. Routed(request[o]) /\ request'[o] = request[o]
      BY <1>11, <2>2 DEF DispatchInv, RequestsInv
    <3>2. request[o].job # Dispatch!NoJob => request[o].path # p
      BY <1>3, <3>1 DEF Routed
    <3> QED
      BY <1>8, <3>1, <3>2 DEF Routed
  <2> QED
    BY <2>1, <2>2
<1>13. RequestsInv'
  BY <1>11, <1>12 DEF RequestsInv
<1>14. SettingsInv' /\ LogInv'
  BY <1>3 DEF DispatchInv, SettingsInv, LogInv, Dispatch!LatestRecords
<1> QED
  BY <1>7, <1>10, <1>13, <1>14 DEF DispatchInv

\* t ends in e, and before it has the latest of s.
EndsIn(s, e, t) ==
  /\ Len(t) <= Retained /\ Len(t) <= Len(s) + 1
  /\ \A i \in 1 .. Len(t) :
       \/ i = Len(t) /\ t[i] = e
       \/ i # Len(t) /\ Len(s) + 1 - Len(t) + i \in 1 .. Len(s) /\ t[i] = s[Len(s) + 1 - Len(t) + i]

\* A log that is cut to its size loses its oldest entries.
LEMMA KeptAppend ==
  ASSUME NEW S, NEW s \in Seq(S), NEW e \in S, NEW t, t = Dispatch!Kept(Append(s, e))
  PROVE  t \in Seq(S) /\ EndsIn(s, e, t)
<1> DEFINE a == Append(s, e)
<1>1. /\ a \in Seq(S) /\ Len(a) = Len(s) + 1 /\ a[Len(s) + 1] = e
      /\ \A i \in 1 .. Len(s) : a[i] = s[i]
      /\ Len(s) \in Nat
  BY SMT
<1> HIDE DEF a
<1>2. CASE Len(a) > Retained
  <2>1. Len(a) - Retained + 1 \in Int /\ Len(a) \in Int /\ Len(a) - Retained + 1 >= 1
    BY <1>1, <1>2, NumbersAssumption, SMT
  <2>2. PICK n \in Int, m \in Int : n = Len(a) - Retained + 1 /\ m = Len(a) /\ n >= 1
    BY <2>1
  <2>3. t = SubSeq(a, n, m)
    BY <1>2, <2>2 DEF Dispatch!Kept, a
  <2>4. \A i \in n .. m : a[i] \in S
    BY <1>1, <2>2, SMT
  <2>5. /\ t \in Seq(S) /\ Len(t) = Retained
        /\ \A i \in 1 .. m - n + 1 : t[i] = a[n + i - 1]
    <3>1. /\ t \in Seq(S) /\ Len(t) = (IF n <= m THEN m - n + 1 ELSE 0)
          /\ \A i \in 1 .. m - n + 1 : t[i] = a[n + i - 1]
      <4>1. /\ SubSeq(a, n, m) \in Seq(S) /\ Len(SubSeq(a, n, m)) = (IF n <= m THEN m - n + 1 ELSE 0)
            /\ \A i \in 1 .. m - n + 1 : SubSeq(a, n, m)[i] = a[n + i - 1]
        BY <2>4, SubSeqProperties, SMT
      <4> QED
        BY <2>3, <4>1
    <3>2. (IF n <= m THEN m - n + 1 ELSE 0) = Retained
      BY <1>1, <1>2, <2>2, NumbersAssumption, SMT
    <3> QED
      BY <3>1, <3>2
  <2>6. ASSUME NEW i \in 1 .. Len(t)
        PROVE  \/ i = Len(t) /\ t[i] = e
               \/ i # Len(t) /\ Len(s) + 1 - Len(t) + i \in 1 .. Len(s) /\ t[i] = s[Len(s) + 1 - Len(t) + i]
    <3>1. t[i] = a[n + i - 1] /\ i \in Nat
      <4>1. i \in 1 .. m - n + 1 /\ i \in Nat
        BY <1>1, <2>2, <2>5, NumbersAssumption, SMT
      <4> QED
        BY <2>5, <4>1
    <3>2. n + i - 1 = Len(s) + 1 - Len(t) + i
      BY <1>1, <2>2, <2>5, <3>1, NumbersAssumption, SMT
    <3>3. /\ i = Len(t) => n + i - 1 = Len(s) + 1
          /\ i # Len(t) => n + i - 1 \in 1 .. Len(s)
      <4>1. /\ Len(s) \in Nat /\ n = Len(s) + 1 - Retained + 1 /\ Len(t) = Retained /\ i \in 1 .. Retained
            /\ Len(s) + 1 > Retained /\ Retained \in Nat
        <5>1. Len(s) \in Nat /\ Len(a) = Len(s) + 1
          BY <1>1
        <5>2. n = Len(s) + 1 - Retained + 1
          BY <2>2, <5>1, NumbersAssumption, SMT
        <5>3. Len(s) + 1 > Retained
          BY <1>2, <5>1
        <5> QED
          BY <2>5, <5>1, <5>2, <5>3, NumbersAssumption
      <4> QED
        BY <4>1, SMT
    <3> QED
      BY <1>1, <3>1, <3>2, <3>3
  <2>7. Len(t) <= Retained /\ Len(t) <= Len(s) + 1
    BY <1>1, <1>2, <2>5, NumbersAssumption, SMT
  <2> QED
    BY <2>5, <2>6, <2>7 DEF EndsIn
<1>3. CASE ~(Len(a) > Retained)
  <2>1. t = a
    BY <1>3 DEF Dispatch!Kept, a
  <2>2. Len(t) <= Retained /\ Len(t) <= Len(s) + 1
    BY <1>1, <1>3, <2>1, NumbersAssumption, SMT
  <2>3. \A i \in 1 .. Len(s) + 1 : /\ i # Len(s) + 1 => i \in 1 .. Len(s)
                                   /\ Len(s) + 1 - (Len(s) + 1) + i = i
    BY <1>1, SMT
  <2> QED
    BY <1>1, <2>1, <2>2, <2>3 DEF EndsIn
<1> QED
  BY <1>2, <1>3

LEMMA RecordInv ==
  ASSUME DispatchInv, NEW q \in Callers, Dispatch!Record(q)
  PROVE  DispatchInv'
<1>1. /\ request[q] \in Request /\ Routed(request[q]) /\ request[q].at = "record"
      /\ records \in Seq(Entries) /\ recorded \in Nat
  BY DEF DispatchInv, RequestsInv, LogInv, Dispatch!Record
<1>2. recorded + 1 \in Nat
  BY <1>1, SMT
<1> DEFINE e == Dispatch!Entry(q)
           r == [request[q] EXCEPT !.at = "done"]
<1>3. e \in Entries /\ e.id = recorded + 1 /\ e.strategy = request[q].strategy /\ e.job = request[q].job
  BY <1>1, <1>2 DEF Dispatch!Entry, Entries, Request
<1>4. /\ r \in Request /\ r.at = "done" /\ r.path = request[q].path /\ r.job = request[q].job
      /\ r.strategy = request[q].strategy
  BY <1>1 DEF Request
<1>5. /\ records' = Dispatch!Kept(Append(records, e)) /\ recorded' = recorded + 1
      /\ Dispatch!Moves(q, r) /\ UNCHANGED <<status, mode, envModes, changes, keys>>
  BY DEF Dispatch!Record, Dispatch!jobVars, Dispatch!settings
<1> HIDE DEF e, r
<1>6. Overridden(e)
  BY <1>1, <1>3 DEF Routed, Overridden
<1>7. Routed(r)
  BY <1>1, <1>4 DEF Routed
<1>8. RequestsInv'
  <2>1. /\ request' \in [Callers -> Request] /\ request'[q] = r
        /\ \A p \in Callers : p # q => request'[p] = request[p]
    BY <1>4, <1>5 DEF DispatchInv, RequestsInv, Dispatch!Moves
  <2> QED
    BY <1>5, <1>7, <2>1 DEF DispatchInv, RequestsInv, Routed
<1>9. KeyInv' /\ SettingsInv'
  BY <1>5 DEF DispatchInv, KeyInv, SettingsInv
<1>10. records' \in Seq(Entries) /\ EndsIn(records, e, records')
  <2>1. PICK t : t = Dispatch!Kept(Append(records, e))
    OBVIOUS
  <2>2. t \in Seq(Entries) /\ EndsIn(records, e, t)
    BY <1>1, <1>3, <2>1, KeptAppend
  <2> QED
    BY <1>5, <2>1, <2>2
<1>11. Len(records) \in Nat /\ Len(records') \in Nat /\ Len(records) <= recorded
  BY <1>1, <1>10, LenProperties DEF DispatchInv, LogInv
<1>12. ASSUME NEW i \in 1 .. Len(records')
       PROVE  Overridden(records'[i]) /\ records'[i].id = recorded' - Len(records') + i
  <2>1. CASE i = Len(records') /\ records'[i] = e
    <3>1. Overridden(records'[i]) /\ records'[i].id = recorded + 1
      BY <1>3, <1>6, <2>1
    <3>2. recorded + 1 = recorded' - Len(records') + i
      BY <1>1, <1>5, <1>11, <2>1, SMT
    <3> QED
      BY <3>1, <3>2
  <2>2. CASE i # Len(records')
    <3>1. PICK k \in 1 .. Len(records) :
            k = Len(records) + 1 - Len(records') + i /\ records'[i] = records[k]
      BY <1>10, <2>2 DEF EndsIn
    <3>2. Overridden(records[k]) /\ records[k].id = recorded - Len(records) + k
      BY DEF DispatchInv, LogInv, Dispatch!LatestRecords
    <3>3. Overridden(records'[i]) /\ records'[i].id = recorded - Len(records) + k
      BY <3>1, <3>2
    <3>4. recorded - Len(records) + k = recorded' - Len(records') + i
      BY <1>1, <1>5, <1>11, <3>1, SMT
    <3> QED
      BY <3>3, <3>4
  <2> QED
    BY <1>10, <2>1, <2>2 DEF EndsIn
<1>13. Len(records') <= recorded' /\ Len(records') <= Retained
  <2>1. Len(records') <= Len(records) + 1 /\ Len(records') <= Retained
    BY <1>10 DEF EndsIn
  <2> QED
    BY <1>1, <1>5, <1>11, <2>1, SMT
<1>14. LogInv'
  BY <1>2, <1>5, <1>10, <1>12, <1>13 DEF LogInv, Dispatch!LatestRecords
<1> QED
  BY <1>5, <1>8, <1>9, <1>14 DEF DispatchInv

LEMMA DispatchJobStep ==
  ASSUME status \in [ClientJobs -> JobStatuses], NEW j \in ClientJobs, Dispatch!JobStep(j)
  PROVE  JobsGrow
<1> USE DEF JobsGrow, JobStatuses, Dispatch!Jobs!Changes
<1>1. CASE Dispatch!Jobs!Cancel(j) \/ Dispatch!Jobs!Fail(j) \/ Dispatch!Jobs!Announce(j)
  BY <1>1 DEF Dispatch!Jobs!Cancel, Dispatch!Jobs!Fail, Dispatch!Jobs!Announce
<1>2. CASE Dispatch!Jobs!Work(j)
  BY <1>2 DEF Dispatch!Jobs!Work, Dispatch!Jobs!Drop, Dispatch!Jobs!Start, Dispatch!Jobs!Apply, Dispatch!Jobs!Finish
<1>3. CASE \E s \in Dispatch!Jobs!ByCaller : Dispatch!Jobs!Deliver(j, s)
  BY <1>3 DEF Dispatch!Jobs!Deliver
<1> QED
  BY <1>1, <1>2, <1>3 DEF Dispatch!JobStep

LEMMA DispatchStep == DispatchInv /\ [Dispatch!Next]_(Dispatch!vars) => DispatchInv'
<1> SUFFICES ASSUME DispatchInv, [Dispatch!Next]_(Dispatch!vars) PROVE DispatchInv'
  OBVIOUS
<1>0. status \in [ClientJobs -> JobStatuses]
  BY DEF DispatchInv
<1>1. CASE \/ \E m \in Dispatch!Modes : Dispatch!SetMode(m)
           \/ \E e \in Environments, s \in Dispatch!Strategies : Dispatch!SetEnvironmentStrategy(e, s)
  BY <1>1, SettingsMove
<1>2. CASE \E q \in Callers :
             \/ \E p \in Paths, e \in Environments : Dispatch!ReadStrategy(q, p, e)
             \/ Dispatch!ReadMode(q) \/ Dispatch!EnqueueKnown(q) \/ Dispatch!Refused(q) \/ Dispatch!Publish(q)
             \/ Dispatch!Record(q) \/ \E j \in ClientJobs : Dispatch!EnqueueNew(q, j)
  BY <1>2, ReadStrategyInv, ReadModeInv, EnqueueKnownInv, RequestEndsInv, RecordInv, EnqueueNewInv
<1>3. CASE \E j \in ClientJobs : Dispatch!JobStep(j)
  <2>1. JobsGrow
    BY <1>0, <1>3, DispatchJobStep
  <2> QED
    BY <1>3, <2>1, DispatchJobs DEF Dispatch!JobStep, Dispatch!settings
<1>4. CASE UNCHANGED Dispatch!vars
  <2>1. JobsGrow
    BY <1>0, <1>4 DEF Dispatch!vars, Dispatch!jobVars, JobsGrow
  <2> QED
    BY <1>4, <2>1, DispatchJobs DEF Dispatch!vars, Dispatch!settings
<1> QED
  BY <1>1, <1>2, <1>3, <1>4 DEF Dispatch!Next

\* The keys decide which job a request has.
LEMMA DispatchSafe ==
  ASSUME DispatchInv
  PROVE  Dispatch!OneJobPerPath /\ Dispatch!OverridesHold /\ Dispatch!LatestRecords
<1>1. ASSUME NEW q \in Callers, request[q].job # Dispatch!NoJob
      PROVE  /\ request[q].path \in Paths /\ request[q].job = keys[request[q].path]
             /\ status[request[q].job] # "absent"
  BY <1>1 DEF DispatchInv, RequestsInv, Routed, KeyInv
<1>2. Dispatch!OneJobPerPath
  <2> SUFFICES ASSUME NEW q \in Callers, NEW r \in Callers,
                      request[q].job # Dispatch!NoJob, request[r].job # Dispatch!NoJob
               PROVE  /\ status[request[q].job] # "absent"
                      /\ request[q].path = request[r].path <=> request[q].job = request[r].job
    BY DEF Dispatch!OneJobPerPath
  <2> QED
    BY <1>1 DEF DispatchInv, KeyInv
<1>3. Dispatch!OverridesHold /\ Dispatch!LatestRecords
  BY DEF DispatchInv, LogInv, Overridden, Dispatch!OverridesHold
<1> QED
  BY <1>2, <1>3

-----------------------------------------------------------------------------
(* Types *)

LEMMA CanaryTyped ==
  ASSUME CanaryInv
  PROVE  Canaries!TypeOK
<1>1. /\ enabled \in [CanaryIds -> {"absent", "on", "off"}]
      /\ failures \in [CanaryIds -> Nat] /\ health \in [CanaryIds -> {"unknown", "healthy", "unhealthy"}]
      /\ cancels \in [CanaryIds -> Loops \cup {Free}] /\ jobRefs \in [ClientJobs -> CanaryIds \cup {Free}]
      /\ starting \in [Callers -> CanaryIds \cup {Free}]
  BY DEF CanaryInv, CanaryType, HealthInv
<1>2. ASSUME NEW l \in Loops
      PROVE  /\ loops[l].at \in {"free", "wait", "register", "mark"}
             /\ loops[l].at = "register" => loops[l].job \in ClientJobs
  BY DEF CanaryInv, CanaryType, Loop, RefsInv, AtRegister
<1> QED
  BY <1>1, <1>2 DEF Canaries!TypeOK

LEMMA DispatchTyped ==
  ASSUME DispatchInv
  PROVE  Dispatch!TypeOK
  BY DEF DispatchInv, SettingsInv, KeyInv, LogInv, Dispatch!TypeOK

=============================================================================
