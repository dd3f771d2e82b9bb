---------------------------- MODULE ClientsProofs ----------------------------
(***************************************************************************)
(* What the clients of the job queue promise, whichever of them is at      *)
(* work.  The invariants of leases, canaries and agent dispatch are those  *)
(* of JobClientsProofs; the results on locks and workflows are those of    *)
(* LocksProofs and WorkflowProofs, under the substitutions of the clients. *)
(***************************************************************************)
EXTENDS Clients, JobClientsProofs

\* Zenon proves a leaf unless the leaf names another prover.
USE Zenon

\* The client at work is chosen at the start.
LEMMA OneClient == [ClientNext]_clientVars => client' = client
  BY DEF ClientNext, clientVars

-----------------------------------------------------------------------------
(* Leases, canaries and agent dispatch *)

\* The invariant of the client at work.
WorkInv ==
  /\ client = "leases" => LeaseInv
  /\ client = "canaries" => CanaryInv
  /\ client = "dispatch" => DispatchInv

LEMMA WorkInit == ClientInit => WorkInv
  BY LeaseInit, CanaryInit, DispatchInit DEF ClientInit, WorkInv, OfLocks, OfWorkflows

LEMMA WorkStep == WorkInv /\ [ClientNext]_clientVars => WorkInv'
<1> SUFFICES ASSUME WorkInv, [ClientNext]_clientVars PROVE WorkInv'
  OBVIOUS
<1>1. client' = client
  BY OneClient
<1>2. ASSUME client = "leases" PROVE [Leases!Next]_(Leases!vars)
  BY <1>2 DEF ClientNext, clientVars, leaseVars, Leases!vars, Leases!jobVars, Leases!leaseVars
<1>3. ASSUME client = "canaries" PROVE [Canaries!Next]_(Canaries!vars)
  BY <1>3 DEF ClientNext, clientVars, canaryVars, Canaries!vars, Canaries!jobVars, Canaries!healthVars,
       Canaries!loopVars
<1>4. ASSUME client = "dispatch" PROVE [Dispatch!Next]_(Dispatch!vars)
  BY <1>4 DEF ClientNext, clientVars, dispatchVars, Dispatch!vars, Dispatch!jobVars, Dispatch!settings
<1> QED
  BY <1>1, <1>2, <1>3, <1>4, LeaseStep, CanaryStep, DispatchStep DEF WorkInv

LEMMA Works == ClientSpec => []WorkInv
  BY WorkInit, WorkStep, PTL DEF ClientSpec

\* RunLeaseStore: a recovered lease comes back only by a new Acquire, never by
\* the late heartbeat of its old holder.
THEOREM LeasesStayLapsed == ClientSpec => []RecoveredStaysLapsed
<1>1. WorkInv => RecoveredStaysLapsed
  BY DEF WorkInv, LeaseInv, RecoveredStaysLapsed
<1> QED
  BY <1>1, Works, PTL

\* CanaryStore: one live loop per canary, each result counted once, and
\* unhealthy exactly from the threshold on, for any number of canaries, loops
\* and callers.
THEOREM CanariesCount == ClientSpec => []CanaryCounts
<1>1. WorkInv => CanaryCounts
  BY DEF WorkInv, CanaryInv, RefsInv, HealthInv, CanaryCounts
<1> QED
  BY <1>1, Works, PTL

\* handleAgentDispatch: one job per path, overrides that hold, and a log of the
\* latest records, for any number of overlapping requests.
THEOREM DispatchesOnce == ClientSpec => []DispatchedOnce
<1>1. WorkInv => DispatchedOnce
  BY DispatchSafe DEF WorkInv, DispatchedOnce
<1> QED
  BY <1>1, Works, PTL

-----------------------------------------------------------------------------
(* Execution locks *)

QL == INSTANCE LocksProofs WITH
  JobIds <- QuietJobIds, Clients <- Callers, MaxLocks <- MaxQuietLocks, Ops <- {"acquire", "cancel"}

\* QuietLocks, definition by definition.
LEMMA SameQuietLocks ==
  /\ QL!Init <=> QuietLocks!Init
  /\ QL!Next <=> QuietLocks!Next
  /\ QL!vars = QuietLocks!vars
  /\ QL!TypeOK <=> QuietLocks!TypeOK
  /\ QL!MutualExclusion <=> QuietLocks!MutualExclusion
  /\ QL!LockCoversRun <=> QuietLocks!LockCoversRun
  /\ QL!BoundLockFindable <=> QuietLocks!BoundLockFindable
  BY DEF QL!LockIds, QuietLocks!LockIds, QL!NoJob, QuietLocks!NoJob, QL!NoKey, QuietLocks!NoKey, QL!NoLock,
         QuietLocks!NoLock, QL!NoRequest, QuietLocks!NoRequest, QL!jobVars, QuietLocks!jobVars,
         QL!storeVars, QuietLocks!storeVars, QL!vars, QuietLocks!vars, QL!Init, QuietLocks!Init, QL!Held,
         QuietLocks!Held, QL!Archived, QuietLocks!Archived, QL!Acquire, QuietLocks!Acquire, QL!BindJob,
         QuietLocks!BindJob, QL!BindRefused, QuietLocks!BindRefused, QL!Release, QuietLocks!Release,
         QL!CleanupExpired, QuietLocks!CleanupExpired, QL!Expire, QuietLocks!Expire, QL!RequestAcquire,
         QuietLocks!RequestAcquire, QL!RequestEnqueue, QuietLocks!RequestEnqueue, QL!RequestBind,
         QuietLocks!RequestBind, QL!RequestUnwind, QuietLocks!RequestUnwind, QL!RequestCancel,
         QuietLocks!RequestCancel, QL!AcquireCall, QuietLocks!AcquireCall, QL!ReleaseCall,
         QuietLocks!ReleaseCall, QL!ReleaseJobCall, QuietLocks!ReleaseJobCall, QL!Undelivered,
         QuietLocks!Undelivered, QL!CancelCall, QuietLocks!CancelCall, QL!FailCall, QuietLocks!FailCall,
         QL!Work, QuietLocks!Work, QL!Told, QuietLocks!Told, QL!JobEnded, QuietLocks!JobEnded, QL!Request,
         QuietLocks!Request, QL!Operator, QuietLocks!Operator, QL!Queue, QuietLocks!Queue, QL!Idle,
         QuietLocks!Idle, QL!Next, QuietLocks!Next, QL!Lock, QuietLocks!Lock, QL!TypeOK, QuietLocks!TypeOK,
         QL!Ended, QuietLocks!Ended, QL!Contenders, QuietLocks!Contenders, QL!MutualExclusion,
         QuietLocks!MutualExclusion, QL!LockCoversRun, QuietLocks!LockCoversRun, QL!BoundLockFindable,
         QuietLocks!BoundLockFindable, QL!Jobs!Final, QuietLocks!Jobs!Final, QL!Jobs!ByCaller,
         QuietLocks!Jobs!ByCaller, QL!Jobs!Init, QuietLocks!Jobs!Init, QL!Jobs!Changes,
         QuietLocks!Jobs!Changes, QL!Jobs!Notify, QuietLocks!Jobs!Notify, QL!Jobs!Submit,
         QuietLocks!Jobs!Submit, QL!Jobs!Cancel, QuietLocks!Jobs!Cancel, QL!Jobs!Fail, QuietLocks!Jobs!Fail,
         QL!Jobs!WorkerBusy, QuietLocks!Jobs!WorkerBusy, QL!Jobs!Drop, QuietLocks!Jobs!Drop, QL!Jobs!Start,
         QuietLocks!Jobs!Start, QL!Jobs!Apply, QuietLocks!Jobs!Apply, QL!Jobs!Finish,
         QuietLocks!Jobs!Finish, QL!Jobs!Announce, QuietLocks!Jobs!Announce, QL!Jobs!Deliver,
         QuietLocks!Jobs!Deliver, QL!Jobs!Work, QuietLocks!Jobs!Work, QL!Cardinality, QuietLocks!Cardinality

LEMMA QuietLocksLinked ==
  /\ QL!Quiet /\ QL!Bounded
  /\ ClientInit /\ client = "quiet locks" => QL!Init
  /\ [ClientNext]_clientVars =>
       /\ (client = "quiet locks")' <=> (client = "quiet locks")
       /\ client = "quiet locks" => [QL!Next]_(QL!vars)
<1>1. [ClientNext]_clientVars /\ client = "quiet locks" => [QL!Next]_(QL!vars)
  BY SameQuietLocks DEF ClientNext, clientVars, lockVars, QL!vars, QL!jobVars, QL!storeVars
<1> QED
  BY <1>1, OneClient, SameQuietLocks, LockNamesAssumption, LocksAssumption
     DEF QL!Quiet, QL!NoJob, QL!NoKey, QL!Bounded, ClientInit, OfLocks, OfWorkflows

LEMMA QuietLocksAtWork ==
  ClientSpec => [](client = "quiet locks" =>
                  QL!TypeOK /\ QL!MutualExclusion /\ QL!LockCoversRun /\ QL!BoundLockFindable)
  BY QuietLocksLinked, QL!LocksTyped, QL!LocksExcludeConflicts, QL!RunsAreCovered, QL!BoundLocksFound, PTL
     DEF ClientSpec, QL!Spec

L == INSTANCE LocksProofs WITH
  JobIds <- ClientJobs, Clients <- Callers,
  Ops <- {"acquire", "release", "cleanup", "expire", "cancel", "fail", "reuse"}

\* Locks, definition by definition.
LEMMA SameLocks ==
  /\ L!Init <=> Locks!Init
  /\ L!Next <=> Locks!Next
  /\ L!vars = Locks!vars
  /\ L!TypeOK <=> Locks!TypeOK
  /\ L!LockAccounted <=> Locks!LockAccounted
  BY DEF L!LockIds, Locks!LockIds, L!NoJob, Locks!NoJob, L!NoKey, Locks!NoKey, L!NoLock, Locks!NoLock,
         L!NoRequest, Locks!NoRequest, L!jobVars, Locks!jobVars, L!storeVars, Locks!storeVars, L!vars,
         Locks!vars, L!Init, Locks!Init, L!Held, Locks!Held, L!Archived, Locks!Archived, L!Acquire,
         Locks!Acquire, L!BindJob, Locks!BindJob, L!BindRefused, Locks!BindRefused, L!Release,
         Locks!Release, L!CleanupExpired, Locks!CleanupExpired, L!Expire, Locks!Expire, L!RequestAcquire,
         Locks!RequestAcquire, L!RequestEnqueue, Locks!RequestEnqueue, L!RequestBind, Locks!RequestBind,
         L!RequestUnwind, Locks!RequestUnwind, L!RequestCancel, Locks!RequestCancel, L!AcquireCall,
         Locks!AcquireCall, L!ReleaseCall, Locks!ReleaseCall, L!ReleaseJobCall, Locks!ReleaseJobCall,
         L!Undelivered, Locks!Undelivered, L!CancelCall, Locks!CancelCall, L!FailCall, Locks!FailCall,
         L!Work, Locks!Work, L!Told, Locks!Told, L!JobEnded, Locks!JobEnded, L!Request, Locks!Request,
         L!Operator, Locks!Operator, L!Queue, Locks!Queue, L!Idle, Locks!Idle, L!Next, Locks!Next, L!Lock,
         Locks!Lock, L!TypeOK, Locks!TypeOK, L!LockAccounted, Locks!LockAccounted, L!Jobs!ByCaller,
         Locks!Jobs!ByCaller, L!Jobs!Init, Locks!Jobs!Init, L!Jobs!Changes, Locks!Jobs!Changes,
         L!Jobs!Notify, Locks!Jobs!Notify, L!Jobs!Submit, Locks!Jobs!Submit, L!Jobs!Cancel,
         Locks!Jobs!Cancel, L!Jobs!Fail, Locks!Jobs!Fail, L!Jobs!WorkerBusy, Locks!Jobs!WorkerBusy,
         L!Jobs!Drop, Locks!Jobs!Drop, L!Jobs!Start, Locks!Jobs!Start, L!Jobs!Apply, Locks!Jobs!Apply,
         L!Jobs!Finish, Locks!Jobs!Finish, L!Jobs!Announce, Locks!Jobs!Announce, L!Jobs!Deliver,
         Locks!Jobs!Deliver, L!Jobs!Work, Locks!Jobs!Work

LEMMA LocksLinked ==
  /\ L!Bounded
  /\ ClientInit /\ client = "locks" => L!Init
  /\ [ClientNext]_clientVars =>
       /\ (client = "locks")' <=> (client = "locks")
       /\ client = "locks" => [L!Next]_(L!vars)
<1>1. [ClientNext]_clientVars /\ client = "locks" => [L!Next]_(L!vars)
  BY SameLocks DEF ClientNext, clientVars, lockVars, L!vars, L!jobVars, L!storeVars
<1> QED
  BY <1>1, OneClient, SameLocks, LocksAssumption
     DEF L!Bounded, ClientInit, OfLocks, OfWorkflows

LEMMA LocksAtWork ==
  ClientSpec => [](client = "locks" => L!TypeOK /\ L!LockAccounted)
  BY LocksLinked, L!LocksTyped, L!LocksAccounted, PTL DEF ClientSpec, L!Spec

\* ExecutionLockStore and the handlers that use it: without expiry and forced
\* releases conflicting requests and jobs exclude one another, a running job is
\* covered and its lock is found; with them no lock is lost.
THEOREM ClientsExclude == ClientSpec => []LocksExclude
<1>1. /\ client = "quiet locks" => QL!TypeOK /\ QL!MutualExclusion /\ QL!LockCoversRun /\ QL!BoundLockFindable
      /\ client = "locks" => L!TypeOK /\ L!LockAccounted
      => LocksExclude
  BY SameQuietLocks, SameLocks DEF LocksExclude
<1> QED
  BY <1>1, QuietLocksAtWork, LocksAtWork, PTL

-----------------------------------------------------------------------------
(* Workflows *)

QW == INSTANCE WorkflowProofs WITH
  Runs <- QuietRuns, StepInputs <- QuietStepInputs, Ops <- {"cancel", "refuse", "delete"}

\* QuietWorkflow, definition by definition.
LEMMA SameQuietWorkflow ==
  /\ QW!Init <=> QuietWorkflow!Init
  /\ QW!Next <=> QuietWorkflow!Next
  /\ QW!vars = QuietWorkflow!vars
  /\ QW!TypeOK <=> QuietWorkflow!TypeOK
  /\ QW!StepsInOrder <=> QuietWorkflow!StepsInOrder
  /\ QW!SuccessMeansAllSteps <=> QuietWorkflow!SuccessMeansAllSteps
  /\ QW!FailureStopsRun <=> QuietWorkflow!FailureStopsRun
  BY DEF QW!MaxSteps, QuietWorkflow!MaxSteps, QW!Steps, QuietWorkflow!Steps, QW!JobIds,
         QuietWorkflow!JobIds, QW!NoWorkflow, QuietWorkflow!NoWorkflow, QW!jobVars, QuietWorkflow!jobVars,
         QW!runVars, QuietWorkflow!runVars, QW!vars, QuietWorkflow!vars, QW!Init, QuietWorkflow!Init,
         QW!Over, QuietWorkflow!Over, QW!Caller, QuietWorkflow!Caller, QW!Becomes, QuietWorkflow!Becomes,
         QW!Returns, QuietWorkflow!Returns, QW!Create, QuietWorkflow!Create, QW!DeleteTemplate,
         QuietWorkflow!DeleteTemplate, QW!Launch, QuietWorkflow!Launch, QW!ReadRun, QuietWorkflow!ReadRun,
         QW!EnqueueStep, QuietWorkflow!EnqueueStep, QW!Register, QuietWorkflow!Register, QW!Reaction,
         QuietWorkflow!Reaction, QW!Ignored, QuietWorkflow!Ignored, QW!Reacts, QuietWorkflow!Reacts,
         QW!OnJob, QuietWorkflow!OnJob, QW!OnWorkerJob, QuietWorkflow!OnWorkerJob, QW!Succeed,
         QuietWorkflow!Succeed, QW!FailRun, QuietWorkflow!FailRun, QW!Undelivered,
         QuietWorkflow!Undelivered, QW!Work, QuietWorkflow!Work, QW!CancelJob, QuietWorkflow!CancelJob,
         QW!FailJob, QuietWorkflow!FailJob, QW!Proceed, QuietWorkflow!Proceed, QW!Activity,
         QuietWorkflow!Activity, QW!Operator, QuietWorkflow!Operator, QW!Queue, QuietWorkflow!Queue,
         QW!Idle, QuietWorkflow!Idle, QW!Next, QuietWorkflow!Next, QW!TypeOK, QuietWorkflow!TypeOK,
         QW!StepsOf, QuietWorkflow!StepsOf, QW!SuccessMeansAllSteps, QuietWorkflow!SuccessMeansAllSteps,
         QW!StepsInOrder, QuietWorkflow!StepsInOrder, QW!FailureStopsRun, QuietWorkflow!FailureStopsRun,
         QW!Jobs!ByCaller, QuietWorkflow!Jobs!ByCaller, QW!Jobs!Init, QuietWorkflow!Jobs!Init,
         QW!Jobs!Changes, QuietWorkflow!Jobs!Changes, QW!Jobs!Notify, QuietWorkflow!Jobs!Notify,
         QW!Jobs!Submit, QuietWorkflow!Jobs!Submit, QW!Jobs!Cancel, QuietWorkflow!Jobs!Cancel, QW!Jobs!Fail,
         QuietWorkflow!Jobs!Fail, QW!Jobs!WorkerBusy, QuietWorkflow!Jobs!WorkerBusy, QW!Jobs!Drop,
         QuietWorkflow!Jobs!Drop, QW!Jobs!Start, QuietWorkflow!Jobs!Start, QW!Jobs!Apply,
         QuietWorkflow!Jobs!Apply, QW!Jobs!Finish, QuietWorkflow!Jobs!Finish, QW!Jobs!Announce,
         QuietWorkflow!Jobs!Announce, QW!Jobs!Deliver, QuietWorkflow!Jobs!Deliver, QW!Jobs!Work,
         QuietWorkflow!Jobs!Work

LEMMA QuietWorkflowLinked ==
  /\ QW!StepsBounded /\ QW!Unforced
  /\ ClientInit /\ client = "quiet workflows" => QW!Init
  /\ [ClientNext]_clientVars =>
       /\ (client = "quiet workflows")' <=> (client = "quiet workflows")
       /\ client = "quiet workflows" => [QW!Next]_(QW!vars)
<1>1. [ClientNext]_clientVars /\ client = "quiet workflows" => [QW!Next]_(QW!vars)
  BY SameQuietWorkflow DEF ClientNext, clientVars, workflowVars, QW!vars, QW!jobVars, QW!runVars
<1> QED
  BY <1>1, OneClient, SameQuietWorkflow, StepsAssumption
     DEF QW!StepsBounded, QW!MaxSteps, QW!Unforced, ClientInit, OfLocks, OfWorkflows

LEMMA QuietWorkflowAtWork ==
  ClientSpec => [](client = "quiet workflows" =>
                  QW!TypeOK /\ QW!StepsInOrder /\ QW!SuccessMeansAllSteps /\ QW!FailureStopsRun)
  BY QuietWorkflowLinked, QW!RunsTyped, QW!StepsTakenInOrder, QW!SuccessIsComplete, QW!FailedRunsStop, PTL
     DEF ClientSpec, QW!Spec

W == INSTANCE WorkflowProofs WITH MaxNotices <- MaxRunNotices, Ops <- {"cancel", "fail", "refuse"}

\* WorkflowRuns, definition by definition.
LEMMA SameWorkflow ==
  /\ W!Init <=> WorkflowRuns!Init
  /\ W!Next <=> WorkflowRuns!Next
  /\ W!vars = WorkflowRuns!vars
  /\ W!TypeOK <=> WorkflowRuns!TypeOK
  /\ W!StepsInOrder <=> WorkflowRuns!StepsInOrder
  /\ W!SuccessMeansAllSteps <=> WorkflowRuns!SuccessMeansAllSteps
  /\ \A r \in Runs : W!Over(r) <=> WorkflowRuns!Over(r)
  BY DEF W!MaxSteps, WorkflowRuns!MaxSteps, W!Steps, WorkflowRuns!Steps, W!JobIds, WorkflowRuns!JobIds,
         W!NoWorkflow, WorkflowRuns!NoWorkflow, W!jobVars, WorkflowRuns!jobVars, W!runVars,
         WorkflowRuns!runVars, W!vars, WorkflowRuns!vars, W!Init, WorkflowRuns!Init, W!Over,
         WorkflowRuns!Over, W!Caller, WorkflowRuns!Caller, W!Becomes, WorkflowRuns!Becomes, W!Returns,
         WorkflowRuns!Returns, W!Create, WorkflowRuns!Create, W!DeleteTemplate, WorkflowRuns!DeleteTemplate,
         W!Launch, WorkflowRuns!Launch, W!ReadRun, WorkflowRuns!ReadRun, W!EnqueueStep,
         WorkflowRuns!EnqueueStep, W!Register, WorkflowRuns!Register, W!Reaction, WorkflowRuns!Reaction,
         W!Ignored, WorkflowRuns!Ignored, W!Reacts, WorkflowRuns!Reacts, W!OnJob, WorkflowRuns!OnJob,
         W!OnWorkerJob, WorkflowRuns!OnWorkerJob, W!Succeed, WorkflowRuns!Succeed, W!FailRun,
         WorkflowRuns!FailRun, W!Undelivered, WorkflowRuns!Undelivered, W!Work, WorkflowRuns!Work,
         W!CancelJob, WorkflowRuns!CancelJob, W!FailJob, WorkflowRuns!FailJob, W!Proceed,
         WorkflowRuns!Proceed, W!Activity, WorkflowRuns!Activity, W!Operator, WorkflowRuns!Operator,
         W!Queue, WorkflowRuns!Queue, W!Idle, WorkflowRuns!Idle, W!Next, WorkflowRuns!Next, W!TypeOK,
         WorkflowRuns!TypeOK, W!StepsOf, WorkflowRuns!StepsOf, W!SuccessMeansAllSteps,
         WorkflowRuns!SuccessMeansAllSteps, W!StepsInOrder, WorkflowRuns!StepsInOrder, W!Jobs!ByCaller,
         WorkflowRuns!Jobs!ByCaller, W!Jobs!Init, WorkflowRuns!Jobs!Init, W!Jobs!Changes,
         WorkflowRuns!Jobs!Changes, W!Jobs!Notify, WorkflowRuns!Jobs!Notify, W!Jobs!Submit,
         WorkflowRuns!Jobs!Submit, W!Jobs!Cancel, WorkflowRuns!Jobs!Cancel, W!Jobs!Fail,
         WorkflowRuns!Jobs!Fail, W!Jobs!WorkerBusy, WorkflowRuns!Jobs!WorkerBusy, W!Jobs!Drop,
         WorkflowRuns!Jobs!Drop, W!Jobs!Start, WorkflowRuns!Jobs!Start, W!Jobs!Apply,
         WorkflowRuns!Jobs!Apply, W!Jobs!Finish, WorkflowRuns!Jobs!Finish, W!Jobs!Announce,
         WorkflowRuns!Jobs!Announce, W!Jobs!Deliver, WorkflowRuns!Jobs!Deliver, W!Jobs!Work,
         WorkflowRuns!Jobs!Work

LEMMA WorkflowLinked ==
  /\ W!StepsBounded
  /\ ClientInit /\ client = "workflows" => W!Init
  /\ [ClientNext]_clientVars =>
       /\ (client = "workflows")' <=> (client = "workflows")
       /\ client = "workflows" => [W!Next]_(W!vars)
<1>1. [ClientNext]_clientVars /\ client = "workflows" => [W!Next]_(W!vars)
  BY SameWorkflow DEF ClientNext, clientVars, workflowVars, W!vars, W!jobVars, W!runVars
<1> QED
  BY <1>1, OneClient, SameWorkflow, StepsAssumption
     DEF W!StepsBounded, W!MaxSteps, ClientInit, OfLocks, OfWorkflows

LEMMA WorkflowAtWork ==
  ClientSpec => [](client = "workflows" => W!TypeOK /\ W!StepsInOrder /\ W!SuccessMeansAllSteps)
  BY WorkflowLinked, W!RunsTyped, W!StepsTakenInOrder, W!SuccessIsComplete, PTL DEF ClientSpec, W!Spec

\* WorkflowStore: steps in order, success only after all of them, and no job
\* left behind by a failed run while operators fail none.
THEOREM ClientsFollow == ClientSpec => []StepsFollow
<1>1. /\ client = "quiet workflows" =>
           QW!TypeOK /\ QW!StepsInOrder /\ QW!SuccessMeansAllSteps /\ QW!FailureStopsRun
      /\ client = "workflows" => W!TypeOK /\ W!StepsInOrder /\ W!SuccessMeansAllSteps
      => StepsFollow
  BY SameQuietWorkflow, SameWorkflow DEF StepsFollow
<1> QED
  BY <1>1, QuietWorkflowAtWork, WorkflowAtWork, PTL

\* WorkflowStore: a run that has ended keeps its status, whatever its
\* activities still do.
THEOREM ClientsEnd == ClientSpec => EndIsFinal
<1>1. ~(client = "workflows") \/ [\A r \in Runs : W!Over(r) => runStatus'[r] = runStatus[r]]_(W!vars)
      => [client = "workflows" =>
            \A r \in Runs : WorkflowRuns!Over(r) => runStatus'[r] = runStatus[r]]_clientVars
  BY SameWorkflow DEF W!vars, W!runVars
<1> QED
  BY <1>1, WorkflowLinked, W!EndsAreFinal, PTL DEF EndIsFinal, ClientSpec, W!Spec

-----------------------------------------------------------------------------
(* Types *)

\* Every store keeps its variables in their types; the log of dispatches keeps
\* to its size, the ids of locks to their bound, and a run's current step to
\* the number of its steps.
THEOREM ClientsTyped == ClientSpec => []ClientTypes
<1>1. /\ WorkInv
      /\ client = "quiet locks" => QL!TypeOK /\ QL!MutualExclusion /\ QL!LockCoversRun /\ QL!BoundLockFindable
      /\ client = "locks" => L!TypeOK /\ L!LockAccounted
      /\ client = "quiet workflows" =>
           QW!TypeOK /\ QW!StepsInOrder /\ QW!SuccessMeansAllSteps /\ QW!FailureStopsRun
      /\ client = "workflows" => W!TypeOK /\ W!StepsInOrder /\ W!SuccessMeansAllSteps
      => ClientTypes
  BY SameQuietLocks, SameLocks, SameQuietWorkflow, SameWorkflow, CanaryTyped, DispatchTyped
     DEF WorkInv, LeaseInv, ClientTypes
<1> QED
  BY <1>1, Works, QuietLocksAtWork, LocksAtWork, QuietWorkflowAtWork, WorkflowAtWork, PTL

=============================================================================
