------------------------------- MODULE Clients -------------------------------
(***************************************************************************)
(* The clients of the job queue: execution locks, workflows, run leases,   *)
(* canaries and agent dispatch, each over the life of the jobs it submits  *)
(* (JobLifecycle).                                                         *)
(*                                                                         *)
(* The stores of different clients share nothing but the queue, and what   *)
(* the queue promises does not depend on who submits.  So a behaviour has  *)
(* one kind of client at work, chosen at the start; the variables of the   *)
(* others are parked.  A client appears twice where some of its properties *)
(* are about behaviours in which operators leave it alone.                 *)
(***************************************************************************)
EXTENDS JobClients

CONSTANTS
  QuietJobIds,                  \* jobs of the lock requests that are left alone
  MaxRunNotices,                \* bound on undelivered notifications of a workflow's jobs
  Keys, MaxLocks, MaxQuietLocks,
  Runs, QuietRuns, Workflows, Templates, StepInputs, QuietStepInputs

\* The names for no job and no key are none.
ASSUME LockNamesAssumption == "no job" \notin QuietJobIds /\ "no key" \notin Keys

ASSUME LocksAssumption == MaxLocks \in Nat /\ MaxQuietLocks \in Nat

ASSUME StepsAssumption ==
  \A s \in StepInputs \cup QuietStepInputs : s \in Seq(Templates) /\ Len(s) <= 3

VARIABLES
  client,                                                     \* the client at work
  nextID, byKey, byJob, history, req, granted,                \* ExecutionLocks
  templates, workflows, runStatus, runOf, currentStep, acts   \* Workflow

QuietLocks == INSTANCE ExecutionLocks WITH
  JobIds <- QuietJobIds, Clients <- Callers, MaxLocks <- MaxQuietLocks, Ops <- {"acquire", "cancel"}

Locks == INSTANCE ExecutionLocks WITH
  JobIds <- ClientJobs, Clients <- Callers,
  Ops <- {"acquire", "release", "cleanup", "expire", "cancel", "fail", "reuse"}

QuietWorkflow == INSTANCE Workflow WITH
  Runs <- QuietRuns, StepInputs <- QuietStepInputs, Ops <- {"cancel", "refuse", "delete"}

WorkflowRuns == INSTANCE Workflow WITH MaxNotices <- MaxRunNotices, Ops <- {"cancel", "fail", "refuse"}

-----------------------------------------------------------------------------
(* Parking the variables of the clients that are not at work *)

lockVars == <<nextID, byKey, byJob, history, req, granted>>
workflowVars == <<templates, workflows, runStatus, runOf, currentStep, acts>>
leaseVars == <<lease, lapsed, recovering>>
canaryVars == <<enabled, failures, health, cancels, loops, starting, refused, counted, down>>
dispatchVars == <<mode, envModes, changes, keys, request, records, recorded>>
clientVars ==
  <<client, status, phase, notices, jobRefs, lockVars, workflowVars, leaseVars, canaryVars, dispatchVars>>

Off == "off"
NoLocks ==
  nextID = Off /\ byKey = Off /\ byJob = Off /\ history = Off /\ req = Off /\ granted = Off
NoWorkflows ==
  templates = Off /\ workflows = Off /\ runStatus = Off /\ runOf = Off /\ currentStep = Off /\ acts = Off
NoLeases == lease = Off /\ lapsed = Off /\ recovering = Off
NoCanaries ==
  /\ enabled = Off /\ failures = Off /\ health = Off /\ cancels = Off /\ loops = Off /\ starting = Off
  /\ refused = Off /\ counted = Off /\ down = Off
NoDispatch ==
  /\ mode = Off /\ envModes = Off /\ changes = Off /\ keys = Off /\ request = Off
  /\ records = Off /\ recorded = Off

OfLocks(c) ==
  client = c /\ jobRefs = Off /\ NoWorkflows /\ NoLeases /\ NoCanaries /\ NoDispatch
OfWorkflows(c) == client = c /\ NoLocks /\ NoLeases /\ NoCanaries /\ NoDispatch

ClientInit ==
  \/ OfLocks("quiet locks") /\ QuietLocks!Init
  \/ OfLocks("locks") /\ Locks!Init
  \/ OfWorkflows("quiet workflows") /\ QuietWorkflow!Init
  \/ OfWorkflows("workflows") /\ WorkflowRuns!Init
  \/ client = "leases" /\ Leases!Init /\ jobRefs = Off /\ NoLocks /\ NoWorkflows /\ NoCanaries /\ NoDispatch
  \/ client = "canaries" /\ Canaries!Init /\ NoLocks /\ NoWorkflows /\ NoLeases /\ NoDispatch
  \/ client = "dispatch" /\ Dispatch!Init /\ jobRefs = Off /\ NoLocks /\ NoWorkflows /\ NoLeases /\ NoCanaries

ClientNext ==
  \/ client = "quiet locks" /\ QuietLocks!Next
     /\ UNCHANGED <<client, jobRefs, workflowVars, leaseVars, canaryVars, dispatchVars>>
  \/ client = "locks" /\ Locks!Next
     /\ UNCHANGED <<client, jobRefs, workflowVars, leaseVars, canaryVars, dispatchVars>>
  \/ client = "quiet workflows" /\ QuietWorkflow!Next
     /\ UNCHANGED <<client, lockVars, leaseVars, canaryVars, dispatchVars>>
  \/ client = "workflows" /\ WorkflowRuns!Next
     /\ UNCHANGED <<client, lockVars, leaseVars, canaryVars, dispatchVars>>
  \/ client = "leases" /\ Leases!Next
     /\ UNCHANGED <<client, jobRefs, lockVars, workflowVars, canaryVars, dispatchVars>>
  \/ client = "canaries" /\ Canaries!Next
     /\ UNCHANGED <<client, lockVars, workflowVars, leaseVars, dispatchVars>>
  \/ client = "dispatch" /\ Dispatch!Next
     /\ UNCHANGED <<client, jobRefs, lockVars, workflowVars, leaseVars, canaryVars>>

ClientSpec == ClientInit /\ [][ClientNext]_clientVars

-----------------------------------------------------------------------------
(* Properties, as the modules of the clients define them *)

\* The type of every variable of the client at work.
ClientTypes ==
  /\ client = "quiet locks" => QuietLocks!TypeOK
  /\ client = "locks" => Locks!TypeOK
  /\ client = "quiet workflows" => QuietWorkflow!TypeOK
  /\ client = "workflows" => WorkflowRuns!TypeOK
  /\ client = "leases" => Leases!TypeOK
  /\ client = "canaries" => Canaries!TypeOK
  /\ client = "dispatch" => Dispatch!TypeOK

\* Execution locks exclude one another: without expiry and forced releases one
\* request or unfinished job at a time counts on a key, a running job has the
\* lock of every key it was granted, and the subscriber finds the lock of every
\* job by the job's id. With them, every lock ever acquired is still in the
\* store or in its history.
LocksExclude ==
  /\ client = "quiet locks" => /\ QuietLocks!MutualExclusion
                               /\ QuietLocks!LockCoversRun
                               /\ QuietLocks!BoundLockFindable
  /\ client = "locks" => Locks!LockAccounted

\* A step's job is submitted only after the job of the step before has
\* succeeded, although late notifications of that job may still come; a run
\* succeeds only when the jobs of all its steps have; and while operators fail
\* no jobs, a failed run leaves no job of its own pending or running.
StepsFollow ==
  /\ client = "workflows" => /\ WorkflowRuns!StepsInOrder
                             /\ WorkflowRuns!SuccessMeansAllSteps
  /\ client = "quiet workflows" => /\ QuietWorkflow!StepsInOrder
                                   /\ QuietWorkflow!SuccessMeansAllSteps
                                   /\ QuietWorkflow!FailureStopsRun

\* A workflow run that has ended stays as it is, whatever activity of it is
\* still between two critical sections.
EndIsFinal ==
  [][client = "workflows" => \A r \in Runs : WorkflowRuns!Over(r) => runStatus'[r] = runStatus[r]]_clientVars

\* A recovered lease comes back only by a new Acquire, never by the late
\* heartbeat of its old holder.
RecoveredStaysLapsed == client = "leases" => Leases!RecoveredStaysLapsed

\* A canary never has two loops that are not canceled, counts the result of a
\* job at most once, although an operator's failure and the worker's result are
\* both announced, and is unhealthy exactly while its consecutive failures,
\* those of Enqueue included, reach its threshold.
CanaryCounts ==
  client = "canaries" => /\ Canaries!OneLiveLoop
                         /\ Canaries!CountedOnce
                         /\ Canaries!UnhealthyIffThreshold

\* However dispatch requests overlap, all that are sent to the queue for one
\* path are given one existing job, a job serves one path, the strategy of an
\* environment holds against changes of the global mode made while its request
\* is under way, and the log holds the latest records.
DispatchedOnce ==
  client = "dispatch" => /\ Dispatch!OneJobPerPath
                         /\ Dispatch!OverridesHold
                         /\ Dispatch!LatestRecords
=============================================================================
