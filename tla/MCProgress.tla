------------------------------ MODULE MCProgress ------------------------------
(***************************************************************************)
(* What must eventually happen, for TLC: the parts of the control plane    *)
(* that wait for one another's goroutines (execution locks, workflows,     *)
(* run leases, canaries, the stuck-run detector and the scheduler), each   *)
(* under the fairness of its own specification.  They share nothing but    *)
(* the queue, so a behaviour has one part at work, chosen at the start,    *)
(* and the variables of the others are parked.                             *)
(***************************************************************************)
EXTENDS Naturals, Sequences, TLC

CONSTANTS
  j1, j2, k1, q1, q2,    \* jobs, lock key, requests and other callers
  r1, w1, t1, t2,        \* workflow run, workflow, templates
  c1, l1, l2, Free,      \* canary, loops
  s1, h1                 \* schedule, host

VARIABLES
  part,                                                       \* the one at work
  status, phase, notices,                                     \* jobs
  nextID, byKey, byJob, history, req, granted,                \* ExecutionLocks
  templates, workflows, runStatus, runOf, currentStep, acts,  \* Workflow
  jobRefs,                                                    \* Workflow, Canary
  lease, lapsed, recovering,                                  \* RunLeases
  enabled, loops, down,                                       \* Canary, Scheduler
  failures, health, cancels, starting, refused, counted,   \* Canary
  startedAt, clock, unobserved, policy, lastCheck, totalChecks, totalRecovered, lastRecovered, obs, recoveredJobs,
                                                              \* StuckRecovery
  cancel, maxBacklog, maxExecutionCost, unhealthy, maintenance, pending, stopped, steady, highest   \* Scheduler

Locks == INSTANCE ExecutionLocks WITH
  JobIds <- {j1, j2}, Keys <- {k1}, Clients <- {q1, q2}, MaxLocks <- 3, MaxNotices <- 1, Ops <- {"cancel", "fail"}

WorkflowRuns == INSTANCE Workflow WITH
  Runs <- {r1}, Workflows <- {w1}, Templates <- {t1, t2}, StepInputs <- {<<t1, t2, t1>>},
  MaxNotices <- 1, Ops <- {"cancel", "refuse", "delete"}

Leases == INSTANCE RunLeases WITH JobIds <- {j1}, Handlers <- {q1, q2}, MaxNotices <- 1

Canaries == INSTANCE Canary WITH
  JobIds <- {j1}, Canaries <- {c1}, Loops <- {l1}, Callers <- {q1}, Threshold <- 2,
  MaxRefused <- 1, MaxNotices <- 1, Ops <- {"cancel", "fail"}

Detector == INSTANCE StuckRecovery WITH
  JobIds <- {j1}, Observers <- {q1, q2}, Policies <- {}, ManualAges <- {},
  MaxTime <- 3, MaxNotices <- 2, MaxChecks <- 1

Schedules == INSTANCE Scheduler WITH
  Schedules <- {s1}, Loops <- {l1, l2}, Hosts <- {h1}, Targets <- {<<"host", h1>>},
  OptionsOf <- s1 :> [low |-> FALSE, cost |-> 1, host |-> h1, targets |-> <<<<"host", h1>>>>],
  Capacities <- {}, QueueCapacity <- 1, MaxBacklog <- 1, MaxExecutionCost <- 2

-----------------------------------------------------------------------------
(* Parking the variables of the parts that are not at work *)

jobVars == <<phase, notices>>
lockVars == <<nextID, byKey, byJob, history, req, granted>>
workflowVars == <<templates, workflows, runStatus, runOf, currentStep, acts>>
leaseVars == <<lease, lapsed, recovering>>
loopVars == <<enabled, loops, down>>
canaryVars == <<failures, health, cancels, starting, refused, counted>>
stuckVars ==
  <<startedAt, clock, unobserved, policy, lastCheck, totalChecks, totalRecovered, lastRecovered, obs, recoveredJobs>>
schedulerVars == <<cancel, maxBacklog, maxExecutionCost, unhealthy, maintenance, pending, stopped, steady, highest>>
vars ==
  <<part, status, jobRefs, jobVars, lockVars, workflowVars, leaseVars, loopVars, canaryVars, stuckVars, schedulerVars>>

Off == "off"
NoJobs == phase = Off /\ notices = Off
NoLocks ==
  nextID = Off /\ byKey = Off /\ byJob = Off /\ history = Off /\ req = Off /\ granted = Off
NoWorkflows ==
  templates = Off /\ workflows = Off /\ runStatus = Off /\ runOf = Off /\ currentStep = Off /\ acts = Off
NoLeases == lease = Off /\ lapsed = Off /\ recovering = Off
NoLoops == enabled = Off /\ loops = Off /\ down = Off
NoCanaries ==
  /\ failures = Off /\ health = Off /\ cancels = Off /\ starting = Off /\ refused = Off
  /\ counted = Off
NoDetector ==
  /\ startedAt = Off /\ clock = Off /\ unobserved = Off /\ policy = Off /\ lastCheck = Off /\ totalChecks = Off
  /\ totalRecovered = Off /\ lastRecovered = Off /\ obs = Off /\ recoveredJobs = Off
NoSchedules ==
  /\ cancel = Off /\ maxBacklog = Off /\ maxExecutionCost = Off /\ unhealthy = Off /\ maintenance = Off
  /\ pending = Off /\ stopped = Off /\ steady = Off /\ highest = Off

Init ==
  \/ /\ part = "locks" /\ Locks!Init
     /\ jobRefs = Off /\ NoWorkflows /\ NoLeases /\ NoLoops /\ NoCanaries /\ NoDetector /\ NoSchedules
  \/ /\ part = "workflows" /\ WorkflowRuns!Init
     /\ NoLocks /\ NoLeases /\ NoLoops /\ NoCanaries /\ NoDetector /\ NoSchedules
  \/ /\ part = "leases" /\ Leases!Init
     /\ jobRefs = Off /\ NoLocks /\ NoWorkflows /\ NoLoops /\ NoCanaries /\ NoDetector /\ NoSchedules
  \/ /\ part = "canaries" /\ Canaries!Init
     /\ NoLocks /\ NoWorkflows /\ NoLeases /\ NoDetector /\ NoSchedules
  \/ /\ part = "detector" /\ Detector!DetectorInit
     /\ jobRefs = Off /\ NoJobs /\ NoLocks /\ NoWorkflows /\ NoLeases /\ NoLoops /\ NoCanaries /\ NoSchedules
  \/ /\ part = "scheduler" /\ Schedules!SchedulerInit
     /\ status = Off /\ jobRefs = Off /\ NoJobs /\ NoLocks /\ NoWorkflows /\ NoLeases /\ NoCanaries /\ NoDetector

\* A step of one part, which leaves the others parked.
OfLocks(Step) ==
  /\ part = "locks" /\ Step
  /\ UNCHANGED <<part, jobRefs, workflowVars, leaseVars, loopVars, canaryVars, stuckVars, schedulerVars>>
OfWorkflows(Step) ==
  /\ part = "workflows" /\ Step
  /\ UNCHANGED <<part, lockVars, leaseVars, loopVars, canaryVars, stuckVars, schedulerVars>>
OfLeases(Step) ==
  /\ part = "leases" /\ Step
  /\ UNCHANGED <<part, jobRefs, lockVars, workflowVars, loopVars, canaryVars, stuckVars, schedulerVars>>
OfCanaries(Step) ==
  /\ part = "canaries" /\ Step
  /\ UNCHANGED <<part, lockVars, workflowVars, leaseVars, stuckVars, schedulerVars>>
OfDetector(Step) ==
  /\ part = "detector" /\ Step
  /\ UNCHANGED <<part, jobRefs, jobVars, lockVars, workflowVars, leaseVars, loopVars, canaryVars, schedulerVars>>
OfScheduler(Step) ==
  /\ part = "scheduler" /\ Step
  /\ UNCHANGED <<part, status, jobRefs, jobVars, lockVars, workflowVars, leaseVars, canaryVars, stuckVars>>

Next ==
  \/ OfLocks(Locks!Next) \/ OfWorkflows(WorkflowRuns!Next) \/ OfLeases(Leases!Next)
  \/ OfCanaries(Canaries!Next) \/ OfDetector(Detector!DetectorNext) \/ OfScheduler(Schedules!SchedulerNext)

\* The fairness of the parts: goroutines in the middle of something go on, the
\* worker works, its notifications are delivered, clocks and timers run, and a
\* select with two ready cases does not always take the same one.
FairSpec ==
  /\ Init /\ [][Next]_vars
  /\ \A c \in {q1, q2} :
       WF_vars(OfLocks(\/ Locks!RequestEnqueue(c) \/ Locks!RequestBind(c)
                       \/ Locks!RequestUnwind(c) \/ Locks!RequestCancel(c)))
  /\ \A j \in {j1, j2} : WF_vars(OfLocks(Locks!Work(j))) /\ WF_vars(OfLocks(Locks!JobEnded(j)))
  /\ WF_vars(OfWorkflows(WorkflowRuns!Activity))
  /\ \A j \in WorkflowRuns!JobIds :
       /\ WF_vars(OfWorkflows(WorkflowRuns!Work(j) \/ WorkflowRuns!OnWorkerJob(j)))
       /\ \A s \in {"failed", "canceled"} : WF_vars(OfWorkflows(WorkflowRuns!OnJob(j, s)))
  /\ WF_vars(OfLeases(Leases!Told(j1))) /\ \A h \in {q1, q2} : WF_vars(OfLeases(Leases!FailRecovered(h, j1)))
  /\ WF_vars(OfCanaries(Canaries!Register(l1) \/ Canaries!MarkFailure(l1)))
  /\ WF_vars(OfCanaries(Canaries!Work(j1) \/ Canaries!OnWorkerJob(j1)))
  /\ \A s \in {"failed", "canceled"} : WF_vars(OfCanaries(Canaries!OnJob(j1, s)))
  /\ WF_vars(OfDetector(Detector!Tick)) /\ \A o \in {q1, q2} : WF_vars(OfDetector(Detector!Check(o)))
  /\ \A l \in {l1, l2} :
       /\ WF_vars(OfScheduler(Schedules!Dispatch(l))) /\ WF_vars(OfScheduler(Schedules!Fire(l)))
       /\ SF_vars(OfScheduler(Schedules!Exit(l)))

-----------------------------------------------------------------------------
(* Properties, as the modules of the parts define them *)

\* A job that its client has registered before it ends is handled when it
\* ends: its execution lock is given up without waiting for the TTL; its
\* workflow run ends or submits the next step; its canary counts the result,
\* unless the job was canceled.
RegisteredEndsHandled ==
  /\ \A j \in {j1, j2} :
       (part = "locks" /\ byKey[k1].job = j /\ ~Locks!Ended(j)) ~> (part = "locks" /\ byKey[k1].job # j)
  /\ \A i \in WorkflowRuns!Steps :
       (part = "workflows" /\ <<r1, i>> \in jobRefs /\ status[<<r1, i>>] \notin WorkflowRuns!Jobs!Final)
         ~> (/\ part = "workflows"
             /\ WorkflowRuns!Over(r1) \/ (i + 1 \in WorkflowRuns!Steps /\ status[<<r1, i + 1>>] # "absent"))
  /\ (part = "canaries" /\ jobRefs[j1] # Free /\ status[j1] \notin Canaries!Jobs!Final)
       ~> (part = "canaries" /\ (counted[j1] = 1 \/ status[j1] = "canceled"))

\* The controllers finish what they begin. The recovery handler fails the job
\* of every lease it has recovered, unless the job ends by itself or its holder
\* comes back. A notification that finds the detector's cooldown over and a job
\* past the maximal age makes the detector fail that job, although other
\* observers may be between their critical sections and may have taken the
\* check first. The goroutine of a schedule that was disabled ends.
ControllersFinish ==
  /\ (part = "leases" /\ status[j1] # "absent" /\ \E h \in {q1, q2} : j1 \in recovering[h])
       ~> (part = "leases" /\ (status[j1] \in Leases!Jobs!Final \/ lease[j1] # "recovered"))
  /\ \A o \in {q1, q2} :
       (/\ part = "detector" /\ obs[o].at = "prepare"
        /\ Detector!Due(obs[o].now) /\ j1 \in Detector!Stuck(policy.maxAge))
         ~> (part = "detector" /\ status[j1] # "running")
  /\ \A l \in {l1, l2} : (part = "scheduler" /\ loops[l].canceled) ~> (part = "scheduler" /\ loops[l].at = "free")
=============================================================================
