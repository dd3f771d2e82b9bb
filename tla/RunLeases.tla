------------------------------ MODULE RunLeases ------------------------------
(***************************************************************************)
(* Run leases (internal/control/run_lease.go) and the recovery handler     *)
(* that fails the jobs of stale leases (internal/server/run_leases.go).    *)
(*                                                                         *)
(* The store has one lease for each job id it was ever asked for, which a  *)
(* later Acquire takes over.  A lease lapses when the clock passes its     *)
(* ExpiresAt.  RecoverExpired is one critical section; the handler then    *)
(* calls FailJob for each lease it was handed, one call after the other.   *)
(***************************************************************************)
EXTENDS Naturals, FiniteSets

CONSTANTS
  JobIds,
  Handlers,    \* goroutines that serve a recovery request
  MaxNotices   \* bound on the undelivered notifications of FailJob

VARIABLES
  status, phase, notices,  \* the jobs: JobLifecycle
  lease,                   \* Status of each job's lease, "none" without one
  lapsed,                  \* the leases whose ExpiresAt has passed
  recovering               \* the jobs each handler has still to fail

Jobs == INSTANCE JobLifecycle

jobVars == <<status, phase, notices>>
leaseVars == <<lease, lapsed>>
vars == <<jobVars, leaseVars, recovering>>

Init ==
  /\ Jobs!Init
  /\ lease = [j \in JobIds |-> "none"] /\ lapsed = {}
  /\ recovering = [h \in Handlers |-> {}]

-----------------------------------------------------------------------------

\* Acquire, of a new lease or over any lease the job already has.  The job
\* need not exist.
Acquire(j) ==
  /\ lease' = [lease EXCEPT ![j] = "active"]
  /\ lapsed' = lapsed \ {j}
  /\ UNCHANGED <<jobVars, recovering>>

\* Mutant: the status of the lease is not looked at.
HeartbeatLate(j) ==
  /\ lease[j] # "none"
  /\ lapsed' = lapsed \ {j}
  /\ UNCHANGED <<lease, jobVars, recovering>>

\* Heartbeat renews an active lease, also one that has lapsed meanwhile.
Heartbeat(j) ==
  /\ lease[j] = "active"
  /\ lapsed' = lapsed \ {j}
  /\ UNCHANGED <<lease, jobVars, recovering>>

\* Release sets ExpiresAt to now, whatever the status was.
Release(j) ==
  /\ lease[j] # "none"
  /\ lease' = [lease EXCEPT ![j] = "released"]
  /\ lapsed' = lapsed \cup {j}
  /\ UNCHANGED <<jobVars, recovering>>

Expire(j) ==
  /\ lease[j] = "active"
  /\ lapsed' = lapsed \cup {j}
  /\ UNCHANGED <<lease, jobVars, recovering>>

\* The leases RecoverExpired takes.
Recoverable == {j \in lapsed : lease[j] = "active"}

RecoverExpired(h) ==
  /\ recovering[h] = {}
  /\ Recoverable # {}
  /\ lease' = [j \in JobIds |-> IF j \in Recoverable THEN "recovered" ELSE lease[j]]
  /\ recovering' = [recovering EXCEPT ![h] = Recoverable]
  /\ UNCHANGED <<lapsed, jobVars>>

\* Mutant: only a running job is failed.
FailRecoveredRunning(h, j) ==
  /\ j \in recovering[h]
  /\ recovering' = [recovering EXCEPT ![h] = @ \ {j}]
  /\ \/ Jobs!Fail(j) /\ status[j] = "running"
     \/ status[j] # "running" /\ UNCHANGED jobVars
  /\ UNCHANGED leaseVars

\* The handler's FailJob; an unknown or ended job is left alone.
FailRecovered(h, j) ==
  /\ j \in recovering[h]
  /\ recovering' = [recovering EXCEPT ![h] = @ \ {j}]
  /\ \/ Jobs!Fail(j)
     \/ status[j] \in {"absent", "succeeded", "failed"} /\ UNCHANGED jobVars
  /\ UNCHANGED leaseVars

Undelivered(j) == notices[j]["failed"] + notices[j]["canceled"]

Submit(j) == Jobs!Submit(j) /\ UNCHANGED <<leaseVars, recovering>>
Cancel(j) == Undelivered(j) < MaxNotices /\ Jobs!Cancel(j) /\ UNCHANGED <<leaseVars, recovering>>
Work(j) == (Jobs!Work(j) \/ Jobs!Announce(j)) /\ UNCHANGED <<leaseVars, recovering>>
Told(j) == (\E s \in Jobs!ByCaller : Jobs!Deliver(j, s)) /\ UNCHANGED <<leaseVars, recovering>>

Next ==
  \E j \in JobIds :
    \/ Acquire(j) \/ Heartbeat(j) \/ Release(j) \/ Expire(j)
    \/ \E h \in Handlers : FailRecovered(h, j) \/ RecoverExpired(h)
    \/ Submit(j) \/ Cancel(j) \/ Work(j) \/ Told(j)

Spec == Init /\ [][Next]_vars

-----------------------------------------------------------------------------
(* Properties *)

\* The type of the lease variables; a lapsed lease exists.
TypeOK ==
  /\ lease \in [JobIds -> {"none", "active", "released", "recovered"}]
  /\ lapsed \subseteq {j \in JobIds : lease[j] # "none"}
  /\ recovering \in [Handlers -> SUBSET JobIds]

\* A recovered lease comes back only by a new Acquire, never by the late
\* heartbeat of the old holder.
RecoveredStaysLapsed == \A j \in JobIds : lease[j] = "recovered" => j \in lapsed

=============================================================================
