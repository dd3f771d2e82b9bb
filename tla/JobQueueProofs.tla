--------------------------- MODULE JobQueueProofs ---------------------------
(***************************************************************************)
(* Proofs about the job queue, for any number of jobs, keys, clients and   *)
(* any channel capacity: its safety properties, the worker over time, and  *)
(* that the queue implements the life of a job.                            *)
(***************************************************************************)
EXTENDS JobQueueHistory, FiniteSetTheorems, TLAPS

\* Zenon proves a leaf unless the leaf names another prover.
USE Zenon

LEMMA PriorityIsClass == Priorities \subseteq Classes
  BY PrioritiesAssumption DEF Classes

LEMMA ClassAtType == \A i \in 0 .. 2 : ClassAt(i) \in Classes
  BY SMT DEF ClassAt, Classes

\* The normalised policy has a limit and a delay that are not negative.
LEMMA NormalizeType ==
  ASSUME NEW in \in PolicyInputs
  PROVE  NormalizePolicy(in) \in [maxJobs : Nat, restartDelay : Nat]
  BY PolicyAssumption, SMT DEF NormalizePolicy

LEMMA TypeInit == Init => TypeOK
<1> SUFFICES ASSUME Init PROVE TypeOK
  OBVIOUS
<1> USE DEF Init
<1>1. TableOK
  <2>1. nextID \in 0 .. MaxJobs
    BY MaxJobsAssumption, SMT
  <2>2. priority \in [JobIds -> Classes]
    BY DEF Classes
  <2> QED
    BY <2>1, <2>2, SMT DEF TableOK
<1>2. ControlOK
  BY DEF ControlOK, DefaultPolicy
<1>3. WorkerOK
  BY SMT DEF WorkerOK, WorkerStates
<1>4. CallsOK
  BY DEF CallsOK
<1> QED
  BY <1>1, <1>2, <1>3, <1>4 DEF TypeOK

USE DEF controlVars, tableVars, workerVars, vars

LEMMA EnqueueType ==
  ASSUME TypeOK, NEW c \in Clients, NEW key \in Keys \cup {NoKey}, NEW force \in BOOLEAN,
         NEW class \in Priorities, Enqueue(c, key, force, class)
  PROVE  TypeOK'
<1>1. nextID' \in 0 .. MaxJobs /\ nextID + 1 \in JobIds
  BY MaxJobsAssumption, SMT DEF Enqueue, JobIds, TypeOK, TableOK
<1>2. class \in Classes
  BY PriorityIsClass
<1>3. /\ status' \in [JobIds -> Statuses \cup {"absent"}]
      /\ priority' \in [JobIds -> Classes]
      /\ keyOf' \in [JobIds -> Keys \cup {NoKey}]
  <2>1. CASE Rollback(nextID + 1, key)
    BY <2>1 DEF Rollback, TypeOK, TableOK
  <2>2. CASE /\ status' = [status EXCEPT ![nextID + 1] = "pending"]
             /\ priority' = [priority EXCEPT ![nextID + 1] = class]
             /\ keyOf' = [keyOf EXCEPT ![nextID + 1] = key]
    <3>1. status' \in [JobIds -> Statuses \cup {"absent"}]
      BY <2>2 DEF Statuses, TypeOK, TableOK
    <3>2. priority' \in [JobIds -> Classes]
      BY <1>2, <2>2 DEF TypeOK, TableOK
    <3>3. keyOf' \in [JobIds -> Keys \cup {NoKey}]
      BY <2>2 DEF TypeOK, TableOK
    <3> QED
      BY <3>1, <3>2, <3>3
  <2> QED
    BY <2>1, <2>2 DEF Enqueue
<1>4. byIdempotency' \in [Keys -> JobIds \cup {NoJob}]
  <2>1. CASE byIdempotency' = byIdempotency
    BY <2>1 DEF TypeOK, TableOK
  <2>2. CASE byIdempotency' = [k \in Keys |-> IF k = key THEN nextID + 1 ELSE byIdempotency[k]]
    <3>1. \A k \in Keys : (IF k = key THEN nextID + 1 ELSE byIdempotency[k]) \in JobIds \cup {NoJob}
      BY <1>1 DEF TypeOK, TableOK
    <3> QED
      BY <2>2, <3>1
  <2> QED
    BY <2>1, <2>2 DEF Enqueue, Rollback
<1>5. pending' \in [Classes -> Seq(JobIds)]
  <2>1. Append(pending[class], nextID + 1) \in Seq(JobIds)
    BY <1>1, <1>2, SMT DEF TypeOK, TableOK
  <2> QED
    BY <1>2, <2>1 DEF Enqueue, Send, TypeOK, TableOK
<1>6. CallsOK'
  BY <1>1, SMT DEF Enqueue, Publish, Notification, Statuses, TypeOK, CallsOK
<1>7. ControlOK' /\ WorkerOK'
  BY DEF Enqueue, TypeOK, ControlOK, WorkerOK
<1> QED
  BY <1>1, <1>3, <1>4, <1>5, <1>6, <1>7 DEF TypeOK, TableOK

LEMMA CallType ==
  ASSUME TypeOK, NEW c \in Clients, NEW id \in JobIds,
         Cancel(c, id) \/ FailJob(c, id) \/ RecoverStuckJobs(c, id)
  PROVE  TypeOK'
<1>1. TableOK'
  BY DEF Cancel, FailJob, RecoverStuckJobs, Statuses, TypeOK, TableOK
<1>2. ControlOK'
  BY DEF Cancel, FailJob, RecoverStuckJobs, TypeOK, ControlOK
<1>3. WorkerOK'
  BY SMT DEF Cancel, FailJob, RecoverStuckJobs, OneLess, TypeOK, WorkerOK
<1>4. CallsOK'
  BY SMT DEF Cancel, FailJob, RecoverStuckJobs, Publish, Notification, Statuses, TypeOK, CallsOK
<1> QED
  BY <1>1, <1>2, <1>3, <1>4 DEF TypeOK

LEMMA DequeueType ==
  ASSUME TypeOK, NEW class \in Classes, Dequeue(class)
  PROVE  held' \in JobIds /\ pending' \in [Classes -> Seq(JobIds)] /\ wpc' = "dequeued"
  BY SMT DEF Dequeue, TypeOK, TableOK

LEMMA TakeType ==
  ASSUME TypeOK, PollClass \/ SelectPending
  PROVE  TypeOK'
<1>1. (rrIndex + scan) % 3 \in 0 .. 2 /\ scan' \in 0 .. 2 /\ rrIndex' \in 0 .. 2
  <2>1. rrIndex \in 0 .. 2 /\ scan \in 0 .. 2
    BY DEF TypeOK, WorkerOK
  <2>2. /\ (rrIndex + scan) % 3 \in 0 .. 2 /\ (scan + 1) % 3 \in 0 .. 2
        /\ (((rrIndex + scan) % 3) + 1) % 3 \in 0 .. 2
    BY <2>1, SMT
  <2> QED
    BY <2>1, <2>2 DEF PollClass, SelectPending, WorkerMoves
<1>2. /\ held' \in JobIds \cup {NoJob}
      /\ pending' \in [Classes -> Seq(JobIds)]
      /\ wpc' \in WorkerStates
  BY <1>1, ClassAtType, DequeueType
     DEF PollClass, SelectPending, WorkerMoves, WorkerStates, TypeOK, TableOK, WorkerOK
<1>3. TableOK'
  BY <1>2 DEF PollClass, SelectPending, TypeOK, TableOK
<1>4. WorkerOK'
  BY <1>1, <1>2 DEF PollClass, SelectPending, WorkerMoves, TypeOK, WorkerOK
<1>5. ControlOK' /\ CallsOK'
  BY DEF PollClass, SelectPending, WorkerMoves, TypeOK, ControlOK, CallsOK
<1> QED
  BY <1>3, <1>4, <1>5 DEF TypeOK

LEMMA RunType ==
  ASSUME TypeOK,
         \/ BeginJob \/ StartApply \/ AnnounceEnd
         \/ \E o \in {"succeeded", "failed"} : FinishJob(o)
  PROVE  TypeOK'
<1> USE DEF BeginJob, StartApply, FinishJob, AnnounceEnd
<1>1. TableOK'
  BY DEF TypeOK, TableOK, Statuses
<1>2. ControlOK' /\ CallsOK'
  BY DEF JobProcessed, WorkerMoves, TypeOK, ControlOK, CallsOK
<1>3. running' \in Nat
  BY SMT DEF OneLess, TypeOK, WorkerOK
<1>4. wpc' \in WorkerStates
  BY DEF JobProcessed, WorkerMoves, WorkerStates
<1>5. /\ generation' \in Nat /\ recycles' \in Nat /\ processed' \in Nat
      /\ held' \in JobIds \cup {NoJob}
      /\ rrIndex' = rrIndex /\ scan' = scan
  BY SMT DEF JobProcessed, WorkerMoves, TypeOK, WorkerOK
<1>6. applied' \in [JobIds -> Nat]
  BY SMT DEF JobProcessed, WorkerMoves, TypeOK, WorkerOK
<1> QED
  BY <1>1, <1>2, <1>3, <1>4, <1>5, <1>6 DEF TypeOK, WorkerOK

LEMMA TypeStep == TypeOK /\ [Next]_vars => TypeOK'
<1> SUFFICES ASSUME TypeOK, [Next]_vars PROVE TypeOK'
  OBVIOUS
<1>1. ASSUME NEW c \in Clients, Announce(c) \/ SafeDrain(c) \/ DrainReturn(c) PROVE TypeOK'
  <2>1. TableOK' /\ WorkerOK'
    BY <1>1 DEF Announce, SafeDrain, DrainReturn, TypeOK, TableOK, WorkerOK
  <2>2. ControlOK'
    BY <1>1 DEF Announce, SafeDrain, DrainReturn, TypeOK, ControlOK
  <2>3. CallsOK'
    BY <1>1 DEF Announce, SafeDrain, DrainReturn, TypeOK, CallsOK
  <2> QED
    BY <2>1, <2>2, <2>3 DEF TypeOK
<1>2. ASSUME Control PROVE TypeOK'
  <2> USE DEF Control, SetEmergencyStop, SetFreeze, SetPaused, SetWorkerLifecyclePolicy, Shutdown
  <2>1. TableOK' /\ CallsOK'
    BY <1>2 DEF TypeOK, TableOK, CallsOK
  <2>2. WorkerOK'
    BY <1>2 DEF TypeOK, WorkerOK
  <2>3. ControlOK'
    BY <1>2, NormalizeType DEF TypeOK, ControlOK
  <2> QED
    BY <2>1, <2>2, <2>3 DEF TypeOK
<1>3. ASSUME StartWorker \/ CheckPaused \/ Restart PROVE TypeOK'
  <2>1. WorkerOK'
    BY <1>3, SMT DEF StartWorker, CheckPaused, Restart, WorkerMoves, WorkerStates, TypeOK, WorkerOK
  <2> QED
    BY <1>3, <2>1 DEF StartWorker, CheckPaused, Restart, WorkerMoves, TypeOK, TableOK, ControlOK, CallsOK
<1>4. ASSUME UNCHANGED vars PROVE TypeOK'
  BY <1>4 DEF TypeOK, TableOK, ControlOK, WorkerOK, CallsOK
<1>5. CASE Worker
  BY <1>3, <1>5, TakeType, RunType DEF Worker
<1>6. ASSUME NEW c \in Clients, Call(c) PROVE TypeOK'
  BY <1>1, <1>6, EnqueueType, CallType DEF Call, Submit
<1> QED
  BY <1>2, <1>4, <1>5, <1>6 DEF Next, Idle

\* Every variable of the queue keeps its type; in particular the running
\* counter, decremented on four paths, never becomes negative.
THEOREM TypeCorrect == Spec => []TypeOK
  BY TypeInit, TypeStep, PTL DEF Spec

-----------------------------------------------------------------------------
(* The inductive invariant *)

\* Taking the head of a channel shifts the rest by one place.
LEMMA TailFacts ==
  ASSUME NEW s \in Seq(JobIds), s # <<>>
  PROVE  /\ Head(s) = s[1] /\ Len(s) >= 1
         /\ Tail(s) \in Seq(JobIds) /\ Len(Tail(s)) = Len(s) - 1
         /\ \A i \in 1 .. Len(Tail(s)) : Tail(s)[i] = s[i + 1] /\ i + 1 \in 1 .. Len(s)
  BY SMT

LEMMA AppendFacts ==
  ASSUME NEW s \in Seq(JobIds), NEW e \in JobIds
  PROVE  /\ Len(Append(s, e)) = Len(s) + 1
         /\ \A i \in 1 .. Len(s) : Append(s, e)[i] = s[i]
         /\ Append(s, e)[Len(s) + 1] = e
  BY SMT

\* An id in a channel is a job id.
LEMMA LaneType ==
  ASSUME TypeOK, NEW class \in Classes, NEW i \in 1 .. Len(pending[class])
  PROVE  pending[class][i] \in JobIds
  BY SMT DEF TypeOK, TableOK

LEMMA InvInit == Init => QueueInv
<1> SUFFICES ASSUME Init PROVE QueueInv
  OBVIOUS
<1>1. TypeOK
  BY TypeInit
<1>2. \A class \in Classes : Len(pending[class]) = 0
  BY DEF Init
<1>3. LaneInv /\ LaneOrder
  BY <1>2, SMT DEF LaneInv, LaneOrder
<1>4. FreshInv /\ HeldInv /\ RunningInv /\ NoGhostRunning /\ AtMostOnce /\ NoLostJob
  BY SMT DEF Init, FreshInv, HeldInv, RunningInv, NoGhostRunning, AtMostOnce, NoLostJob, Applying
<1> QED
  BY <1>1, <1>3, <1>4 DEF QueueInv

\* Steps that leave the jobs, the channels and the worker's job alone.
LEMMA QuietStep ==
  ASSUME QueueInv, TypeOK',
         UNCHANGED <<nextID, status, priority, pending, applied, held, running>>,
         \/ wpc' = wpc
         \/ {wpc, wpc'} \subseteq {"start", "check", "poll", "select", "restart", "done"}
  PROVE  QueueInv'
<1>1. LaneInv' /\ LaneOrder' /\ FreshInv' /\ AtMostOnce'
  BY DEF QueueInv, LaneInv, LaneOrder, FreshInv, AtMostOnce
<1>2. HeldInv' /\ RunningInv' /\ NoGhostRunning'
  BY DEF QueueInv, HeldInv, RunningInv, NoGhostRunning, Applying
<1>3. NoLostJob'
  BY DEF QueueInv, NoLostJob, InLane
<1> QED
  BY <1>1, <1>2, <1>3 DEF QueueInv

LEMMA EnqueueInv ==
  ASSUME QueueInv, TypeOK', NEW c \in Clients, NEW key \in Keys \cup {NoKey},
         NEW force \in BOOLEAN, NEW class \in Priorities, Enqueue(c, key, force, class)
  PROVE  QueueInv'
<1> DEFINE id == nextID + 1
<1>1. id \in JobIds /\ status[id] = "absent" /\ class \in Classes
  BY MaxJobsAssumption, PriorityIsClass, SMT DEF Enqueue, JobIds, QueueInv, FreshInv, TypeOK, TableOK
<1>2. CASE Len(pending[class]) = Capacity /\ Rollback(id, key) /\ UNCHANGED <<pending, publishing>>
  <2>1. \A j \in JobIds : j > nextID' => j > nextID
    BY SMT DEF Enqueue, QueueInv, TypeOK, TableOK, JobIds
  <2>2. LaneInv' /\ LaneOrder' /\ FreshInv' /\ AtMostOnce'
    BY <1>2, <2>1 DEF Enqueue, Rollback, QueueInv, LaneInv, LaneOrder, FreshInv, AtMostOnce
  <2>3. HeldInv' /\ RunningInv' /\ NoGhostRunning' /\ NoLostJob'
    BY <1>2 DEF Enqueue, Rollback, QueueInv, HeldInv, RunningInv, NoGhostRunning, NoLostJob,
       InLane, Applying
  <2> QED
    BY <2>2, <2>3 DEF QueueInv
<1>3. CASE /\ status' = [status EXCEPT ![id] = "pending"]
           /\ priority' = [priority EXCEPT ![id] = class]
           /\ pending' = [pending EXCEPT ![class] = Append(@, id)]
  <2>1. UNCHANGED <<applied, held, wpc, running>> /\ nextID' = id
    BY DEF Enqueue
  <2>2. \A j \in JobIds : j # id => status'[j] = status[j] /\ priority'[j] = priority[j]
    BY <1>3 DEF QueueInv, TypeOK, TableOK
  <2>3. status'[id] = "pending" /\ priority'[id] = class
    BY <1>1, <1>3 DEF QueueInv, TypeOK, TableOK
  <2>4. /\ pending'[class] = Append(pending[class], id)
        /\ \A k \in Classes : k # class => pending'[k] = pending[k]
        /\ \A k \in Classes : pending[k] \in Seq(JobIds)
    BY <1>1, <1>3 DEF QueueInv, TypeOK, TableOK
  <2>5. /\ Len(pending'[class]) = Len(pending[class]) + 1
        /\ pending'[class][Len(pending[class]) + 1] = id
        /\ \A i \in 1 .. Len(pending[class]) : pending'[class][i] = pending[class][i]
    BY <1>1, <2>4, AppendFacts, SMT
  <2>6. \A k \in Classes : \A i \in 1 .. Len(pending[k]) :
          pending[k][i] \in JobIds /\ pending[k][i] < id
    <3> SUFFICES ASSUME NEW k \in Classes, NEW i \in 1 .. Len(pending[k])
                 PROVE  pending[k][i] \in JobIds /\ pending[k][i] < id
      BY DEF JobIds, QueueInv, TypeOK, TableOK
    <3>1. pending[k][i] \in JobIds
      BY LaneType DEF QueueInv
    <3>2. ~(pending[k][i] > nextID)
      BY <3>1 DEF QueueInv, LaneInv, FreshInv, Waiting
    <3> QED
      BY <3>1, <3>2, SMT DEF JobIds, QueueInv, TypeOK, TableOK
  <2>7. applied[id] = 0 /\ held # id
    BY <1>1, SMT DEF QueueInv, FreshInv, HeldInv, TypeOK, WorkerOK, Waiting, Underway, JobIds, NoJob
  <2>8. LaneInv'
    <3> SUFFICES ASSUME NEW k \in Classes, NEW i \in 1 .. Len(pending'[k])
                 PROVE  /\ priority'[pending'[k][i]] = k
                        /\ status'[pending'[k][i]] \in Waiting
                        /\ applied'[pending'[k][i]] = 0
                        /\ pending'[k][i] # held'
      BY DEF LaneInv
    <3>1. CASE k = class /\ i = Len(pending[class]) + 1
      BY <2>1, <2>3, <2>5, <2>7, <3>1 DEF Waiting
    <3>2. CASE ~(k = class /\ i = Len(pending[class]) + 1)
      <4>1. i \in 1 .. Len(pending[k]) /\ pending'[k][i] = pending[k][i]
        BY <2>4, <2>5, <3>2, SMT
      <4> QED
        <5>1. pending[k][i] \in JobIds /\ pending[k][i] # id
          BY <1>1, <2>6, <4>1, SMT DEF JobIds
        <5> QED
          BY <2>1, <2>2, <4>1, <5>1, SMT DEF QueueInv, LaneInv
    <3> QED
      BY <3>1, <3>2
  <2>9. LaneOrder'
    <3> SUFFICES ASSUME NEW k \in Classes, NEW i \in 1 .. Len(pending'[k]),
                        NEW j \in 1 .. Len(pending'[k]), i < j
                 PROVE  pending'[k][i] < pending'[k][j]
      BY DEF LaneOrder
    <3>1. CASE k # class
      BY <2>4, <3>1 DEF QueueInv, LaneOrder
    <3>2. CASE k = class /\ j = Len(pending[class]) + 1
      BY <1>1, <2>4, <2>5, <2>6, <3>2, SMT
    <3>3. CASE k = class /\ j # Len(pending[class]) + 1
      <4>1. i \in 1 .. Len(pending[class]) /\ j \in 1 .. Len(pending[class])
        BY <1>1, <2>4, <2>5, <3>3, SMT
      <4> QED
        BY <1>1, <2>5, <3>3, <4>1 DEF QueueInv, LaneOrder
    <3> QED
      BY <3>1, <3>2, <3>3
  <2>10. FreshInv' /\ AtMostOnce'
    BY <2>1, <2>2, <2>3, <2>7, <1>1, SMT DEF QueueInv, FreshInv, AtMostOnce, TypeOK, TableOK, JobIds
  <2>11. HeldInv' /\ RunningInv' /\ NoGhostRunning'
    BY <2>1, <2>2, <2>3, <2>7
       DEF QueueInv, HeldInv, RunningInv, NoGhostRunning, Applying, TypeOK, WorkerOK, NoJob
  <2>12. NoLostJob'
    <3> SUFFICES ASSUME NEW j \in JobIds, status'[j] = "pending"
                 PROVE  InLane(priority[j], j)' \/ (held' = j /\ wpc' = "dequeued")
      BY DEF NoLostJob
    <3>1. CASE j = id
      BY <1>1, <2>3, <2>4, <2>5, <3>1, SMT DEF InLane
    <3>2. CASE j # id /\ InLane(priority[j], j)
      <4>1. priority[j] \in Classes
        BY DEF QueueInv, TypeOK, TableOK
      <4>2. PICK i \in 1 .. Len(pending[priority[j]]) : pending[priority[j]][i] = j
        BY <3>2 DEF InLane
      <4>3. i \in 1 .. Len(pending'[priority[j]]) /\ pending'[priority[j]][i] = j
        BY <2>4, <2>5, <4>1, <4>2, SMT
      <4> QED
        BY <2>2, <3>2, <4>3 DEF InLane
    <3> QED
      BY <2>1, <2>2, <3>1, <3>2 DEF QueueInv, NoLostJob
  <2> QED
    BY <2>8, <2>9, <2>10, <2>11, <2>12 DEF QueueInv
<1> QED
  BY <1>2, <1>3 DEF Enqueue, Send

LEMMA CancelInv ==
  ASSUME QueueInv, TypeOK', NEW c \in Clients, NEW id \in JobIds,
         Cancel(c, id) \/ FailJob(c, id) \/ RecoverStuckJobs(c, id)
  PROVE  QueueInv'
<1>1. /\ UNCHANGED <<nextID, priority, pending, applied, held, wpc>>
      /\ status[id] \in {"pending", "running", "canceled"}
      /\ status'[id] \in {"canceled", "failed"}
      /\ \A j \in JobIds : j # id => status'[j] = status[j]
      /\ running' \in {running, OneLess(running)}
  BY DEF Cancel, FailJob, RecoverStuckJobs, QueueInv, TypeOK, TableOK
<1>2. LaneInv' /\ LaneOrder'
  <2>1. \A class \in Classes : \A i \in 1 .. Len(pending[class]) : pending[class][i] \in JobIds
    BY LaneType DEF QueueInv
  <2>2. LaneOrder'
    BY <1>1 DEF QueueInv, LaneOrder
  <2>3. ASSUME NEW class \in Classes, NEW i \in 1 .. Len(pending[class])
        PROVE  status'[pending[class][i]] \in Waiting
    <3>1. pending[class][i] \in JobIds /\ status[pending[class][i]] \in Waiting
      BY <2>1, <2>3 DEF QueueInv, LaneInv
    <3>2. CASE pending[class][i] = id
      BY <1>1, <3>2 DEF Waiting
    <3>3. CASE pending[class][i] # id
      BY <1>1, <3>1, <3>3
    <3> QED
      BY <3>2, <3>3
  <2>4. LaneInv'
    BY <1>1, <2>3, SMT DEF QueueInv, LaneInv
  <2> QED
    BY <2>2, <2>4
<1>3. FreshInv' /\ AtMostOnce'
  BY <1>1 DEF QueueInv, FreshInv, AtMostOnce
<1>4. held \in JobIds \cup {NoJob}
  BY DEF QueueInv, TypeOK, WorkerOK
<1>5. HeldInv' /\ RunningInv'
  BY <1>1, <1>4 DEF QueueInv, HeldInv, RunningInv, Applying, Waiting, Underway, NoJob, JobIds
<1>6. NoGhostRunning'
  BY <1>1, SMT DEF QueueInv, NoGhostRunning, Applying, OneLess, TypeOK, WorkerOK
<1>7. NoLostJob'
  BY <1>1 DEF QueueInv, NoLostJob, InLane
<1> QED
  BY <1>2, <1>3, <1>5, <1>6, <1>7 DEF QueueInv

\* The worker takes the oldest id of a channel.
LEMMA DequeueInv ==
  ASSUME QueueInv, TypeOK', held = NoJob, NEW class \in Classes, Dequeue(class),
         UNCHANGED <<nextID, status, priority, applied, running>>
  PROVE  QueueInv'
<1>1. /\ pending[class] \in Seq(JobIds) /\ pending[class] # <<>>
      /\ pending'[class] = Tail(pending[class])
      /\ \A k \in Classes : k # class => pending'[k] = pending[k]
      /\ held' = Head(pending[class]) /\ wpc' = "dequeued"
  BY DEF Dequeue, QueueInv, TypeOK, TableOK
<1>2. /\ held' = pending[class][1] /\ 1 \in 1 .. Len(pending[class]) /\ held' \in JobIds
      /\ Len(pending'[class]) = Len(pending[class]) - 1
      /\ \A i \in 1 .. Len(pending'[class]) :
           pending'[class][i] = pending[class][i + 1] /\ i + 1 \in 1 .. Len(pending[class])
  BY <1>1, TailFacts, LaneType, SMT DEF QueueInv
<1>3. priority[held'] = class /\ status[held'] \in Waiting /\ applied[held'] = 0
  BY <1>2 DEF QueueInv, LaneInv
<1>4. LaneOrder'
  <2> SUFFICES ASSUME NEW k \in Classes, NEW i \in 1 .. Len(pending'[k]),
                      NEW j \in 1 .. Len(pending'[k]), i < j
               PROVE  pending'[k][i] < pending'[k][j]
    BY DEF LaneOrder
  <2>1. CASE k = class
    <3>1. pending'[k][i] = pending[class][i + 1] /\ i + 1 \in 1 .. Len(pending[class])
      BY <1>2, <2>1
    <3>2. pending'[k][j] = pending[class][j + 1] /\ j + 1 \in 1 .. Len(pending[class])
      BY <1>2, <2>1
    <3>3. i + 1 < j + 1
      BY SMT
    <3> QED
      BY <3>1, <3>2, <3>3 DEF QueueInv, LaneOrder
  <2> QED
    BY <1>1, <2>1 DEF QueueInv, LaneOrder
<1>5. LaneInv'
  <2> SUFFICES ASSUME NEW k \in Classes, NEW i \in 1 .. Len(pending'[k])
               PROVE  /\ priority[pending'[k][i]] = k
                      /\ status[pending'[k][i]] \in Waiting
                      /\ applied[pending'[k][i]] = 0
                      /\ pending'[k][i] # held'
    BY DEF LaneInv
  <2>1. CASE k = class
    <3>0. i + 1 \in 1 .. Len(pending[class]) /\ 1 < i + 1
      BY <1>2, <2>1, SMT
    <3>1. pending[class][1] < pending[class][i + 1]
      BY <1>2, <3>0 DEF QueueInv, LaneOrder
    <3>2. pending[class][i + 1] # held'
      BY <1>2, <2>1, <3>1, LaneType, SMT DEF QueueInv, JobIds
    <3>3. pending'[k][i] = pending[class][i + 1]
      BY <1>2, <2>1
    <3>4. /\ priority[pending[class][i + 1]] = class
          /\ status[pending[class][i + 1]] \in Waiting
          /\ applied[pending[class][i + 1]] = 0
      BY <3>0 DEF QueueInv, LaneInv
    <3> QED
      BY <2>1, <3>2, <3>3, <3>4
  <2>2. CASE k # class
    BY <1>1, <1>3, <2>2, SMT DEF QueueInv, LaneInv
  <2> QED
    BY <2>1, <2>2
<1>6. FreshInv' /\ AtMostOnce'
  BY DEF QueueInv, FreshInv, AtMostOnce
<1>7. HeldInv' /\ RunningInv' /\ NoGhostRunning'
  BY <1>1, <1>2, <1>3, MaxJobsAssumption, SMT
     DEF QueueInv, HeldInv, RunningInv, NoGhostRunning, Applying, NoJob, JobIds
<1>8. NoLostJob'
  <2> SUFFICES ASSUME NEW j \in JobIds, status[j] = "pending"
               PROVE  InLane(priority[j], j)' \/ (held' = j /\ wpc' = "dequeued")
    BY DEF NoLostJob
  <2>1. priority[j] \in Classes /\ InLane(priority[j], j)
    <3>1. held # j
      BY MaxJobsAssumption, SMT DEF NoJob, JobIds
    <3> QED
      BY <3>1 DEF QueueInv, NoLostJob, TypeOK, TableOK
  <2>2. PICK i \in 1 .. Len(pending[priority[j]]) : pending[priority[j]][i] = j
    BY <2>1 DEF InLane
  <2>3. CASE priority[j] = class /\ i = 1
    BY <1>1, <1>2, <2>2, <2>3
  <2>4. CASE priority[j] = class /\ i # 1
    <3>1. i - 1 \in 1 .. Len(pending'[class]) /\ (i - 1) + 1 = i
      BY <1>1, <1>2, <2>2, <2>4, SMT
    <3>2. pending'[class][i - 1] = j
      BY <1>2, <2>2, <2>4, <3>1
    <3> QED
      BY <2>4, <3>1, <3>2 DEF InLane
  <2>5. CASE priority[j] # class
    BY <1>1, <2>1, <2>2, <2>5 DEF InLane
  <2> QED
    BY <2>3, <2>4, <2>5
<1> QED
  BY <1>4, <1>5, <1>6, <1>7, <1>8 DEF QueueInv

LEMMA TakeInv ==
  ASSUME QueueInv, TypeOK', PollClass \/ SelectPending
  PROVE  QueueInv'
<1>1. held = NoJob /\ UNCHANGED <<nextID, status, priority, applied, running>>
  BY DEF PollClass, SelectPending, WorkerMoves, QueueInv, HeldInv
<1>2. (rrIndex + scan) % 3 \in 0 .. 2
  BY SMT DEF QueueInv, TypeOK, WorkerOK
<1>3. CASE \E class \in Classes : Dequeue(class)
  BY <1>1, <1>3, DequeueInv
<1>4. CASE ~\E class \in Classes : Dequeue(class)
  <2>1. /\ UNCHANGED <<pending, held>>
        /\ {wpc, wpc'} \subseteq {"poll", "select", "done"}
    BY <1>2, <1>4, ClassAtType DEF PollClass, SelectPending, WorkerMoves
  <2> QED
    BY <1>1, <2>1, QuietStep
<1> QED
  BY <1>3, <1>4

\* The worker is through with a job whose status it leaves alone.
LEMMA ProcessedInv ==
  ASSUME QueueInv, TypeOK', JobProcessed, UNCHANGED <<nextID, status, priority, pending>>,
         \/ wpc = "dequeued" /\ status[held] = "canceled" /\ running' = running
         \/ wpc = "applying" /\ status[held] = "canceled" /\ running' = OneLess(running)
         \/ wpc = "announceEnd" /\ running' = running
  PROVE  QueueInv'
<1>1. held' = NoJob /\ wpc' \in {"check", "restart"} /\ applied' = applied
  BY DEF JobProcessed
<1>2. LaneInv' /\ LaneOrder'
  <2>1. \A class \in Classes : \A i \in 1 .. Len(pending[class]) : pending[class][i] # NoJob
    BY LaneType, MaxJobsAssumption, SMT DEF QueueInv, JobIds, NoJob
  <2>2. LaneOrder'
    BY DEF QueueInv, LaneOrder
  <2>3. LaneInv'
    BY <1>1, <2>1, SMT DEF QueueInv, LaneInv
  <2> QED
    BY <2>2, <2>3
<1>3. FreshInv' /\ AtMostOnce'
  BY <1>1 DEF QueueInv, FreshInv, AtMostOnce
<1>4. HeldInv' /\ RunningInv'
  BY <1>1 DEF QueueInv, HeldInv, RunningInv, Applying, NoJob
<1>5. NoGhostRunning'
  BY <1>1, SMT DEF QueueInv, NoGhostRunning, Applying, OneLess, TypeOK, WorkerOK
<1>6. NoLostJob'
  BY <1>1 DEF QueueInv, NoLostJob, InLane, HeldInv
<1> QED
  BY <1>2, <1>3, <1>4, <1>5, <1>6 DEF QueueInv

\* The worker changes the status of its job, which is in no channel.
LEMMA StatusInv ==
  ASSUME QueueInv, TypeOK', held \in JobIds, held' = held,
         UNCHANGED <<nextID, priority, pending>>, NEW s \in Statuses \ {"pending"},
         status' = [status EXCEPT ![held] = s],
         \/ /\ wpc = "dequeued" /\ wpc' = "announceRun" /\ s = "running"
            /\ running' = running + 1 /\ applied' = applied
         \/ /\ wpc = "announceRun" /\ wpc' = "applying" /\ s = status[held]
            /\ running' = running /\ applied' = [applied EXCEPT ![held] = @ + 1]
         \/ /\ wpc = "applying" /\ wpc' = "announceEnd" /\ s \in {"succeeded", "failed"}
            /\ running' = OneLess(running) /\ applied' = applied
  PROVE  QueueInv'
<1>1. /\ status'[held] = s
      /\ \A j \in JobIds : j # held => status'[j] = status[j] /\ applied'[j] = applied[j]
      /\ status[held] # "absent"
  BY DEF QueueInv, HeldInv, Waiting, Underway, TypeOK, TableOK, WorkerOK
<1>2. LaneInv' /\ LaneOrder'
  <2>1. \A class \in Classes : \A i \in 1 .. Len(pending[class]) :
          pending[class][i] \in JobIds /\ pending[class][i] # held
    BY LaneType DEF QueueInv, LaneInv
  <2>2. LaneOrder'
    BY DEF QueueInv, LaneOrder
  <2>3. LaneInv'
    BY <1>1, <2>1, SMT DEF QueueInv, LaneInv
  <2> QED
    BY <2>2, <2>3
<1>3. applied'[held] \in {0, 1}
  BY SMT DEF QueueInv, HeldInv, TypeOK, WorkerOK
<1>4. FreshInv' /\ AtMostOnce'
  BY <1>1, <1>3, SMT DEF QueueInv, FreshInv, AtMostOnce, Statuses
<1>5. HeldInv'
  BY <1>1, SMT DEF QueueInv, HeldInv, Waiting, Underway, TypeOK, WorkerOK
<1>6. RunningInv'
  BY <1>1 DEF QueueInv, RunningInv, Applying
<1>7. NoGhostRunning'
  BY SMT DEF QueueInv, NoGhostRunning, Applying, OneLess, TypeOK, WorkerOK
<1>8. NoLostJob'
  BY <1>1 DEF QueueInv, NoLostJob, InLane
<1> QED
  BY <1>2, <1>4, <1>5, <1>6, <1>7, <1>8 DEF QueueInv

LEMMA RunInv ==
  ASSUME QueueInv, TypeOK',
         \/ BeginJob \/ StartApply \/ AnnounceEnd
         \/ \E o \in {"succeeded", "failed"} : FinishJob(o)
  PROVE  QueueInv'
<1>1. held \in JobIds /\ status[held] \in Statuses
  BY DEF BeginJob, StartApply, AnnounceEnd, FinishJob, QueueInv, HeldInv, TypeOK, WorkerOK,
     Waiting, Underway, Statuses
<1>2. CASE BeginJob
  <2>1. CASE MayRun(held)
    BY <1>1, <1>2, <2>1, StatusInv DEF BeginJob, WorkerMoves, Statuses
  <2>2. CASE ~MayRun(held)
    BY <1>1, <1>2, <2>2, ProcessedInv DEF BeginJob, MayRun, QueueInv, HeldInv, Waiting
  <2> QED
    BY <2>1, <2>2
<1>3. CASE StartApply
  <2>1. status' = [status EXCEPT ![held] = status[held]] /\ status[held] # "pending"
    BY <1>3 DEF StartApply, QueueInv, HeldInv, Underway, TypeOK, TableOK
  <2> QED
    BY <1>1, <1>3, <2>1, StatusInv DEF StartApply
<1>4. CASE AnnounceEnd
  BY <1>4, ProcessedInv DEF AnnounceEnd
<1>5. ASSUME NEW o \in {"succeeded", "failed"}, FinishJob(o) PROVE QueueInv'
  <2>1. CASE status[held] = "canceled"
    BY <1>5, <2>1, ProcessedInv DEF FinishJob
  <2>2. CASE status[held] # "canceled"
    BY <1>1, <1>5, <2>2, StatusInv DEF FinishJob, WorkerMoves, Statuses
  <2> QED
    BY <2>1, <2>2
<1> QED
  BY <1>2, <1>3, <1>4, <1>5

LEMMA InvStep == QueueInv /\ [Next]_vars => QueueInv'
<1> SUFFICES ASSUME QueueInv, [Next]_vars PROVE QueueInv'
  OBVIOUS
<1>1. TypeOK'
  BY TypeStep DEF QueueInv
<1>2. ASSUME NEW c \in Clients, Call(c) PROVE QueueInv'
  <2>1. CASE Announce(c) \/ SafeDrain(c) \/ DrainReturn(c)
    BY <1>1, <2>1, QuietStep DEF Announce, SafeDrain, DrainReturn
  <2> QED
    BY <1>1, <1>2, <2>1, EnqueueInv, CancelInv DEF Call, Submit
<1>3. CASE Control
  BY <1>1, <1>3, QuietStep DEF Control, SetEmergencyStop, SetFreeze, SetPaused,
     SetWorkerLifecyclePolicy, Shutdown
<1>4. CASE Worker
  <2>1. CASE StartWorker \/ CheckPaused \/ Restart
    BY <1>1, <2>1, QuietStep DEF StartWorker, CheckPaused, Restart, WorkerMoves
  <2> QED
    BY <1>1, <1>4, <2>1, TakeInv, RunInv DEF Worker
<1>5. CASE UNCHANGED vars
  BY <1>1, <1>5, QuietStep
<1> QED
  BY <1>2, <1>3, <1>4, <1>5 DEF Next, Idle

THEOREM Invariance == Spec => []QueueInv
  BY InvInit, InvStep, PTL DEF Spec

\* ApplyPath is called at most once for each job, for any number of jobs,
\* clients and channel slots.
THEOREM AppliedAtMostOnce == Spec => []AtMostOnce
  BY Invariance, PTL DEF QueueInv

\* No pending job is ever outside its channel and the worker's hands.
THEOREM NothingLost == Spec => []NoLostJob
  BY Invariance, PTL DEF QueueInv

\* The running counter never counts a job the worker is not applying.
THEOREM NoGhosts == Spec => []NoGhostRunning
  BY Invariance, PTL DEF QueueInv

LEMMA SucceededStep ==
  ASSUME QueueInv, [Next]_vars, NEW id \in JobIds, status[id] = "succeeded"
  PROVE  status'[id] = "succeeded"
<1>1. ASSUME NEW c \in Clients, Call(c) PROVE status'[id] = "succeeded"
  <2>1. CASE Submit(c)
    <3>1. status' = status \/ status' = [status EXCEPT ![nextID + 1] = "pending"]
      BY <2>1 DEF Submit, Enqueue, Rollback
    <3>2. id # nextID + 1
      BY SMT DEF QueueInv, FreshInv, TypeOK, TableOK, JobIds
    <3> QED
      BY <3>1, <3>2 DEF QueueInv, TypeOK, TableOK
  <2>2. CASE \E j \in JobIds : Cancel(c, j) \/ FailJob(c, j) \/ RecoverStuckJobs(c, j)
    BY <2>2 DEF Cancel, FailJob, RecoverStuckJobs, QueueInv, TypeOK, TableOK
  <2>3. CASE Announce(c) \/ SafeDrain(c) \/ DrainReturn(c)
    BY <2>3 DEF Announce, SafeDrain, DrainReturn
  <2> QED
    BY <1>1, <2>1, <2>2, <2>3 DEF Call
<1>2. CASE Worker
  <2>1. wpc \in {"dequeued", "announceRun", "applying"} => held # id
    BY DEF QueueInv, HeldInv, Waiting, Underway
  <2>2. CASE BeginJob \/ \E o \in {"succeeded", "failed"} : FinishJob(o)
    BY <2>1, <2>2 DEF BeginJob, FinishJob, QueueInv, TypeOK, TableOK
  <2> QED
    BY <1>2, <2>2 DEF Worker, StartWorker, CheckPaused, PollClass, SelectPending, StartApply,
       AnnounceEnd, Restart
<1>3. CASE Control
  BY <1>3 DEF Control, SetEmergencyStop, SetFreeze, SetPaused, SetWorkerLifecyclePolicy, Shutdown
<1>4. CASE UNCHANGED vars
  BY <1>4 DEF vars
<1> QED
  BY <1>1, <1>2, <1>3, <1>4 DEF Next, Idle

\* No cancel, operator failure, recovery or worker step changes the status of
\* a job that has succeeded.
THEOREM SuccessIsFinal == Spec => SucceededIsFinal
<1>1. QueueInv /\ [Next]_vars =>
        [\A id \in JobIds : status[id] = "succeeded" => status'[id] = "succeeded"]_vars
  BY SucceededStep
<1> QED
  BY <1>1, Invariance, PTL DEF Spec, SucceededIsFinal

-----------------------------------------------------------------------------
(* Idempotency keys *)

\* What makes OneJobPerKey inductive: an id that was never given out, or whose
\* job was rolled back, has no key.
KeyInv ==
  /\ OneJobPerKey
  /\ \A id \in JobIds : status[id] = "absent" => keyOf[id] = NoKey

LEMMA KeyInit == Init => KeyInv
  BY KeysAssumption, SMT DEF Init, KeyInv, OneJobPerKey, NoJob

\* Only Enqueue changes the keys, and no step makes a job absent.
LEMMA KeyQuiet ==
  ASSUME QueueInv, KeyInv, UNCHANGED <<byIdempotency, keyOf>>,
         \/ status' = status
         \/ \E j \in JobIds, s \in Statuses : status[j] # "absent" /\ status' = [status EXCEPT ![j] = s]
  PROVE  KeyInv'
<1>1. \A id \in JobIds : status'[id] = "absent" <=> status[id] = "absent"
  BY DEF QueueInv, TypeOK, TableOK, Statuses
<1>2. \A k \in Keys : byIdempotency[k] \in JobIds \cup {NoJob}
  BY DEF QueueInv, TypeOK, TableOK
<1> QED
  BY <1>1, <1>2, SMT DEF KeyInv, OneJobPerKey

LEMMA KeyEnqueue ==
  ASSUME QueueInv, KeyInv, NEW c \in Clients, NEW key \in Keys \cup {NoKey},
         NEW force \in BOOLEAN, NEW class \in Priorities, Enqueue(c, key, force, class)
  PROVE  KeyInv'
<1> DEFINE id == nextID + 1
<1>1. id \in JobIds /\ id # NoJob /\ status[id] = "absent" /\ keyOf[id] = NoKey
  <2>1. id \in 1 .. MaxJobs /\ id > nextID /\ id # 0
    BY MaxJobsAssumption, SMT DEF Enqueue, QueueInv, TypeOK, TableOK
  <2>2. status[id] = "absent"
    BY <2>1 DEF QueueInv, FreshInv, JobIds
  <2> QED
    BY <2>1, <2>2 DEF KeyInv, JobIds, NoJob
<1>2. CASE UNCHANGED <<status, keyOf, byIdempotency>>
  BY <1>2, KeyQuiet
<1>3. CASE ~UNCHANGED <<status, keyOf, byIdempotency>>
  <2>1. /\ status' = [status EXCEPT ![id] = "pending"]
        /\ keyOf' = [keyOf EXCEPT ![id] = key]
        /\ byIdempotency' = [k \in Keys |-> IF k = key THEN id ELSE byIdempotency[k]]
        /\ key \in Keys => byIdempotency[key] = NoJob
    BY <1>3 DEF Enqueue, Rollback, Admitted
  <2>2. /\ status'[id] = "pending" /\ keyOf'[id] = key
        /\ \A j \in JobIds : j # id => status'[j] = status[j] /\ keyOf'[j] = keyOf[j]
        /\ \A k \in Keys : byIdempotency'[k] = IF k = key THEN id ELSE byIdempotency[k]
    BY <1>1, <2>1 DEF QueueInv, TypeOK, TableOK
  <2>3. \A k \in Keys : byIdempotency[k] \in JobIds \cup {NoJob} /\ byIdempotency[k] # id
    BY <1>1, KeysAssumption DEF QueueInv, TypeOK, TableOK, KeyInv, OneJobPerKey
  <2>4. \A j \in JobIds : j # NoJob
    BY SMT DEF JobIds, NoJob
  <2> HIDE DEF id
  <2>5. OneJobPerKey'
    <3> SUFFICES ASSUME NEW k \in Keys
                 PROVE  /\ byIdempotency'[k] # NoJob =>
                             /\ keyOf'[byIdempotency'[k]] = k
                             /\ status'[byIdempotency'[k]] # "absent"
                        /\ \A j \in JobIds : keyOf'[j] = k => byIdempotency'[k] = j
      BY DEF OneJobPerKey
    <3>1. CASE k = key
      <4>1. byIdempotency[k] = NoJob /\ byIdempotency'[k] = id
        BY <2>1, <2>2, <3>1
      <4>2. \A j \in JobIds : keyOf[j] # k
        BY <2>4, <4>1 DEF KeyInv, OneJobPerKey
      <4>3. \A j \in JobIds : keyOf'[j] = k => j = id
        BY <2>2, <4>2
      <4> QED
        BY <2>2, <3>1, <4>1, <4>3
    <3>2. CASE k # key
      <4>1. byIdempotency'[k] = byIdempotency[k]
        BY <2>2, <3>2
      <4>2. byIdempotency[k] # NoJob =>
              /\ byIdempotency[k] \in JobIds /\ byIdempotency[k] # id
              /\ keyOf[byIdempotency[k]] = k /\ status[byIdempotency[k]] # "absent"
        BY <2>3 DEF KeyInv, OneJobPerKey
      <4>3. byIdempotency[k] # NoJob =>
              keyOf'[byIdempotency[k]] = k /\ status'[byIdempotency[k]] # "absent"
        BY <2>2, <4>2
      <4>4. ASSUME NEW j \in JobIds, keyOf'[j] = k PROVE byIdempotency[k] = j
        <5>1. j # id /\ keyOf[j] = k
          BY <2>2, <3>2, <4>4
        <5> QED
          BY <5>1 DEF KeyInv, OneJobPerKey
      <4> QED
        BY <4>1, <4>3, <4>4
    <3> QED
      BY <3>1, <3>2
  <2> QED
    BY <1>1, <2>2, <2>5 DEF KeyInv
<1> QED
  BY <1>2, <1>3

LEMMA KeyStep == QueueInv /\ KeyInv /\ [Next]_vars => KeyInv'
<1> SUFFICES ASSUME QueueInv, KeyInv, [Next]_vars PROVE KeyInv'
  OBVIOUS
<1>1. ASSUME NEW c \in Clients, Call(c) PROVE KeyInv'
  <2>1. CASE \E j \in JobIds : Cancel(c, j) \/ FailJob(c, j) \/ RecoverStuckJobs(c, j)
    BY <2>1, KeyQuiet DEF Cancel, FailJob, RecoverStuckJobs, tableVars, Statuses
  <2>2. CASE Announce(c) \/ SafeDrain(c) \/ DrainReturn(c)
    BY <2>2, KeyQuiet DEF Announce, SafeDrain, DrainReturn, tableVars
  <2> QED
    BY <1>1, <2>1, <2>2, KeyEnqueue DEF Call, Submit
<1>2. CASE Worker
  <2>1. UNCHANGED <<byIdempotency, keyOf>>
    BY <1>2 DEF Worker, StartWorker, CheckPaused, PollClass, SelectPending, BeginJob, StartApply,
       FinishJob, AnnounceEnd, Restart, tableVars
  <2>2. CASE BeginJob \/ \E o \in {"succeeded", "failed"} : FinishJob(o)
    <3>1. held \in JobIds /\ status[held] # "absent"
      BY <2>2 DEF BeginJob, FinishJob, QueueInv, HeldInv, TypeOK, WorkerOK, Waiting, Underway
    <3> QED
      BY <2>1, <2>2, <3>1, KeyQuiet DEF BeginJob, FinishJob, Statuses
  <2> QED
    BY <1>2, <2>1, <2>2, KeyQuiet DEF Worker, StartWorker, CheckPaused, PollClass, SelectPending,
       StartApply, AnnounceEnd, Restart
<1>3. CASE Control
  BY <1>3, KeyQuiet DEF Control, SetEmergencyStop, SetFreeze, SetPaused, SetWorkerLifecyclePolicy,
     Shutdown, tableVars
<1>4. CASE UNCHANGED vars
  BY <1>4, KeyQuiet DEF vars, tableVars
<1> QED
  BY <1>1, <1>2, <1>3, <1>4 DEF Next, Idle

\* An idempotency key names one existing job, for any number of keys, jobs and
\* concurrent callers, whatever happens to the jobs.
THEOREM KeysAreUnique == Spec => []OneJobPerKey
  BY KeyInit, KeyStep, Invariance, PTL DEF Spec, KeyInv

-----------------------------------------------------------------------------
(* The worker over time: generations, drains, pauses and turns *)

\* Calls and the setting of flags leave the worker where it is.
LEMMA CallerStep ==
  ASSUME (\E c \in Clients : Call(c)) \/ Control
  PROVE  UNCHANGED workerVars
<1>1. ASSUME NEW c \in Clients, Submit(c) \/ Announce(c) \/ SafeDrain(c) \/ DrainReturn(c)
      PROVE  UNCHANGED workerVars
  BY <1>1 DEF Submit, Enqueue, Announce, SafeDrain, DrainReturn
<1>2. ASSUME NEW c \in Clients, NEW id \in JobIds, Cancel(c, id) \/ FailJob(c, id) \/ RecoverStuckJobs(c, id)
      PROVE  UNCHANGED workerVars
  BY <1>2 DEF Cancel, FailJob, RecoverStuckJobs
<1>3. CASE Control
  BY <1>3 DEF Control, SetEmergencyStop, SetFreeze, SetPaused, SetWorkerLifecyclePolicy, Shutdown
<1> HIDE DEF workerVars
<1> QED
  BY <1>1, <1>2, <1>3 DEF Call

-----------------------------------------------------------------------------
(* Worker generations *)

\* A generation starts, and takes its policy, with no job processed.
GenerationInv ==
  /\ GenerationBounded
  /\ wpc \in {"start", "restart"} => processed = 0
  /\ wpc = "start" => recycles = 0

LEMMA GenerationInit == Init => GenerationInv
  BY SMT DEF Init, GenerationInv, GenerationBounded, DefaultPolicy

LEMMA GenerationProcessed ==
  ASSUME TypeOK, GenerationInv, JobProcessed, wpc # "start"
  PROVE  GenerationInv'
<1>1. /\ processed \in Nat /\ recycles \in Nat /\ generation = recycles + 1
      /\ genPolicy' = genPolicy /\ genPolicy.maxJobs \in Nat
  BY DEF TypeOK, ControlOK, WorkerOK, GenerationInv, GenerationBounded, JobProcessed
<1>2. CASE genPolicy.maxJobs > 0 /\ processed + 1 >= genPolicy.maxJobs
  <2>1. wpc' = "restart" /\ processed' = 0 /\ recycles' = recycles + 1 /\ generation' = generation + 1
    BY <1>2 DEF JobProcessed
  <2> QED
    BY <1>1, <1>2, <2>1 DEF GenerationInv, GenerationBounded
<1>3. CASE ~(genPolicy.maxJobs > 0 /\ processed + 1 >= genPolicy.maxJobs)
  <2>1. wpc' = "check" /\ processed' = processed + 1 /\ UNCHANGED <<recycles, generation>>
    BY <1>3 DEF JobProcessed
  <2>2. genPolicy.maxJobs > 0 => processed + 1 < genPolicy.maxJobs
    BY <1>1, <1>3, SMT
  <2> QED
    BY <1>1, <2>1, <2>2 DEF GenerationInv, GenerationBounded
<1> QED
  BY <1>2, <1>3

LEMMA GenerationStep == TypeOK /\ GenerationInv /\ [Next]_vars => GenerationInv'
<1> SUFFICES ASSUME TypeOK, GenerationInv, [Next]_vars PROVE GenerationInv'
  OBVIOUS
<1>1. CASE UNCHANGED <<wpc, generation, recycles, processed, genPolicy>>
  BY <1>1 DEF GenerationInv, GenerationBounded
<1>2. ASSUME wpc' \notin {"start", "restart"}, wpc # "start",
             UNCHANGED <<generation, recycles, processed, genPolicy>>
      PROVE  GenerationInv'
  BY <1>2 DEF GenerationInv, GenerationBounded
<1>3. CASE Worker
  <2>1. CASE StartWorker \/ (Restart /\ wpc' = "check")
    <3>1. genPolicy' = workerPolicy /\ workerPolicy.maxJobs \in Nat /\ processed' = 0
      BY <2>1 DEF StartWorker, Restart, WorkerMoves, GenerationInv, TypeOK, ControlOK, WorkerOK
    <3>2. generation' = recycles' + 1 /\ wpc' = "check"
      <4>1. CASE StartWorker
        BY <4>1, SMT DEF StartWorker, GenerationInv
      <4>2. CASE Restart /\ wpc' = "check"
        BY <4>2 DEF Restart, WorkerMoves, GenerationInv, GenerationBounded
      <4> QED
        BY <2>1, <4>1, <4>2
    <3> QED
      BY <3>1, <3>2 DEF GenerationInv, GenerationBounded
  <2>2. CASE (Restart /\ wpc' # "check") \/ CheckPaused \/ PollClass \/ SelectPending \/ StartApply
    BY <1>2, <2>2 DEF Restart, CheckPaused, PollClass, SelectPending, StartApply, Dequeue, WorkerMoves
  <2>3. CASE BeginJob \/ AnnounceEnd \/ \E o \in {"succeeded", "failed"} : FinishJob(o)
    BY <1>2, <2>3, GenerationProcessed DEF BeginJob, AnnounceEnd, FinishJob, WorkerMoves
  <2> QED
    BY <1>3, <2>1, <2>2, <2>3 DEF Worker
<1>4. CASE (\E c \in Clients : Call(c)) \/ Control
  BY <1>1, <1>4, CallerStep
<1> QED
  BY <1>1, <1>3, <1>4 DEF Next, Idle

\* A worker generation handles no more jobs than the policy it took when it
\* started allows, and generations are counted without gaps, for any sequence
\* of SetWorkerLifecyclePolicy calls.
THEOREM GenerationsBounded == Spec => []GenerationBounded
  BY GenerationInit, GenerationStep, TypeCorrect, PTL DEF Spec, GenerationInv

-----------------------------------------------------------------------------
(* SafeDrain *)

\* The counter counts the job that is being applied.
Counted == Applying => running = 1

LEMMA CountedStep ==
  ASSUME "fail" \notin Ops, "recover" \notin Ops
  PROVE  QueueInv /\ Counted /\ [Next]_vars => Counted'
<1> SUFFICES ASSUME QueueInv, Counted, [Next]_vars PROVE Counted'
  OBVIOUS
<1>1. CASE UNCHANGED <<wpc, running>>
  BY <1>1 DEF Counted, Applying
<1>2. CASE Worker
  <2>1. CASE BeginJob /\ wpc' = "announceRun"
    <3>1. running' = running + 1 /\ running = 0
      BY <2>1, SMT DEF BeginJob, JobProcessed, QueueInv, NoGhostRunning, Applying, TypeOK, WorkerOK
    <3> QED
      BY <3>1, SMT DEF Counted
  <2>2. CASE BeginJob /\ wpc' # "announceRun"
    BY <2>2 DEF BeginJob, WorkerMoves, JobProcessed, Counted, Applying
  <2>3. CASE AnnounceEnd \/ \E o \in {"succeeded", "failed"} : FinishJob(o)
    BY <2>3 DEF AnnounceEnd, FinishJob, WorkerMoves, JobProcessed, Counted, Applying
  <2>4. CASE StartApply
    BY <2>4 DEF StartApply, Counted, Applying
  <2>5. CASE StartWorker \/ CheckPaused \/ PollClass \/ SelectPending \/ Restart
    BY <2>5 DEF StartWorker, CheckPaused, PollClass, SelectPending, Dequeue, Restart, WorkerMoves,
       Counted, Applying
  <2> QED
    BY <1>2, <2>1, <2>2, <2>3, <2>4, <2>5 DEF Worker
<1>3. CASE (\E c \in Clients : Call(c)) \/ Control
  <2>1. running' = running
    BY <1>3 DEF Call, Submit, Enqueue, Cancel, Announce, SafeDrain, DrainReturn,
       Control, SetEmergencyStop, SetFreeze, SetPaused, SetWorkerLifecyclePolicy, Shutdown
  <2> QED
    BY <1>1, <1>3, <2>1, CallerStep
<1> QED
  BY <1>1, <1>2, <1>3 DEF Next, Idle

LEMMA DrainStep ==
  ASSUME TypeOK, Counted, [Next]_vars, NEW c \in Clients, drain[c] = "waiting", drain'[c] = "drained"
  PROVE  ~Applying
<1>1. drain # drain'
  OBVIOUS
<1>2. ASSUME NEW d \in Clients, SafeDrain(d) PROVE FALSE
  BY <1>2 DEF SafeDrain, Free, TypeOK, CallsOK
<1>3. PICK d \in Clients : DrainReturn(d)
  <2>1. ~Worker
    BY <1>1 DEF Worker, StartWorker, CheckPaused, PollClass, SelectPending, BeginJob, StartApply,
       FinishJob, AnnounceEnd, Restart
  <2>2. ~Control
    BY <1>1 DEF Control, SetEmergencyStop, SetFreeze, SetPaused, SetWorkerLifecyclePolicy, Shutdown
  <2>3. PICK d \in Clients : Call(d)
    BY <1>1, <2>1, <2>2 DEF Next, Idle
  <2> QED
    BY <1>1, <1>2, <2>3 DEF Call, Submit, Enqueue, Cancel, FailJob, RecoverStuckJobs, Announce
<1>4. running = 0
  BY <1>3 DEF DrainReturn, TypeOK, CallsOK
<1> QED
  BY <1>4, SMT DEF Counted

\* While no operator fails a job and no stuck job is recovered, SafeDrain
\* reports success only when no job is being applied, for any number of
\* concurrent drains and cancels.  (With FailJob it does not hold: see the run
\* queue_drain_fails.)
THEOREM DrainsWait ==
  ASSUME "fail" \notin Ops, "recover" \notin Ops
  PROVE  Spec => DrainMeansIdle
<1>1. Init => Counted
  BY DEF Init, Counted, Applying
<1>2. QueueInv /\ Counted /\ [Next]_vars => Counted'
  BY CountedStep
<1>3. QueueInv /\ Counted /\ [Next]_vars =>
        [\A c \in Clients : drain[c] = "waiting" /\ drain'[c] = "drained" => ~Applying]_vars
  BY DrainStep DEF QueueInv
<1> QED
  BY <1>1, <1>2, <1>3, Invariance, PTL DEF Spec, DrainMeansIdle

-----------------------------------------------------------------------------
(* Pauses *)

\* A worker that has started a job during the pause comes to its check of the
\* paused flag before it takes another one.
PauseInv ==
  /\ startsWhilePaused \in {0, 1}
  /\ startsWhilePaused = 1 =>
       paused /\ wpc \in {"announceRun", "applying", "announceEnd", "check", "restart", "done"}

LEMMA PauseStep == PauseInv /\ [HistoryNext]_historyVars => PauseInv'
<1> SUFFICES ASSUME PauseInv, [HistoryNext]_historyVars PROVE PauseInv'
  OBVIOUS
<1>1. CASE UNCHANGED historyVars
  BY <1>1 DEF historyVars, PauseInv
<1>2. CASE HistoryNext
  <2>1. CASE Starts
    <3>1. startsWhilePaused = 0
      BY <2>1 DEF Starts, PauseInv
    <3>2. startsWhilePaused' = 0 \/ (paused' /\ startsWhilePaused' = startsWhilePaused + 1)
      BY <1>2, <2>1 DEF HistoryNext
    <3>3. 0 + 1 = 1
      BY SMT
    <3> QED
      BY <2>1, <3>1, <3>2, <3>3 DEF Starts, PauseInv
  <2>2. CASE ~Starts
    <3>1. startsWhilePaused' = 0 \/ (paused' /\ startsWhilePaused' = startsWhilePaused)
      BY <1>2, <2>2 DEF HistoryNext
    <3>2. ASSUME startsWhilePaused = 1, paused'
          PROVE  wpc' \in {"announceRun", "applying", "announceEnd", "check", "restart", "done"}
      <4>1. paused /\ wpc \in {"announceRun", "applying", "announceEnd", "check", "restart", "done"}
        BY <3>2 DEF PauseInv
      <4>2. CASE Worker
        BY <4>1, <4>2 DEF Worker, StartWorker, CheckPaused, PollClass, SelectPending, BeginJob,
           StartApply, FinishJob, AnnounceEnd, Restart, WorkerMoves, JobProcessed
      <4>3. CASE (\E c \in Clients : Call(c)) \/ Control
        BY <4>1, <4>3, CallerStep
      <4> QED
        BY <1>2, <4>1, <4>2, <4>3 DEF HistoryNext, Next, Idle
    <3> QED
      BY <3>1, <3>2, SMT DEF PauseInv
  <2> QED
    BY <2>1, <2>2
<1> QED
  BY <1>1, <1>2

\* At most one job starts between a Pause and the next Resume, for any number
\* of jobs, callers and worker generations.
THEOREM PauseHolds == HistorySpec => []PauseLag
<1>1. HistoryInit => PauseInv
  BY SMT DEF HistoryInit, PauseInv
<1>2. PauseInv => PauseLag
  BY SMT DEF PauseInv, PauseLag
<1> QED
  BY <1>1, <1>2, PauseStep, PTL DEF HistorySpec

-----------------------------------------------------------------------------
(* The order within a class *)

\* The job in the worker's hands was submitted before the jobs of its class
\* that still wait.
HeldFirst ==
  \A class \in Classes : \A i \in 1 .. Len(pending[class]) :
    held # NoJob /\ priority[held] = class => held < pending[class][i]

\* Ids that were given out are at most nextID.
LEMMA GivenOut ==
  ASSUME QueueInv, NEW id \in JobIds, status[id] # "absent"
  PROVE  id <= nextID
  BY SMT DEF QueueInv, FreshInv, TypeOK, TableOK, JobIds

LEMMA HeldGivenOut ==
  ASSUME QueueInv, held # NoJob
  PROVE  held \in JobIds /\ held <= nextID
<1>1. held \in JobIds /\ status[held] # "absent"
  BY DEF QueueInv, HeldInv, TypeOK, WorkerOK, Waiting, Underway
<1> QED
  BY <1>1, GivenOut

LEMMA FirstEnqueue ==
  ASSUME QueueInv, HeldFirst, NEW c \in Clients, NEW key \in Keys \cup {NoKey},
         NEW force \in BOOLEAN, NEW class \in Priorities, Enqueue(c, key, force, class)
  PROVE  HeldFirst'
<1> SUFFICES ASSUME NEW k \in Classes, NEW i \in 1 .. Len(pending'[k]), held # NoJob, priority'[held] = k
             PROVE  held < pending'[k][i]
  BY DEF HeldFirst, Enqueue
<1>1. held \in JobIds /\ held < nextID + 1 /\ nextID + 1 \in JobIds /\ class \in Classes
  <2>1. nextID \in 0 .. MaxJobs /\ nextID < MaxJobs
    BY DEF Enqueue, QueueInv, TypeOK, TableOK
  <2>2. held \in JobIds /\ held <= nextID
    BY HeldGivenOut
  <2>3. held < nextID + 1 /\ nextID + 1 \in JobIds
    BY <2>1, <2>2, MaxJobsAssumption, SMT DEF JobIds
  <2> QED
    BY <2>2, <2>3, PriorityIsClass
<1>2. priority'[held] = priority[held]
  <2>1. held # nextID + 1
    BY <1>1, SMT DEF JobIds
  <2> QED
    BY <1>1, <2>1 DEF Enqueue, Rollback, QueueInv, TypeOK, TableOK
<1>3. CASE pending'[k] = pending[k]
  BY <1>2, <1>3 DEF HeldFirst
<1>4. CASE pending'[k] # pending[k]
  <2>1. k = class /\ pending'[k] = Append(pending[k], nextID + 1) /\ pending[k] \in Seq(JobIds)
    BY <1>1, <1>4 DEF Enqueue, Send, QueueInv, TypeOK, TableOK
  <2>2. \/ i \in 1 .. Len(pending[k]) /\ pending'[k][i] = pending[k][i]
        \/ pending'[k][i] = nextID + 1
    BY <1>1, <2>1, AppendFacts, SMT
  <2> QED
    BY <1>1, <1>2, <2>2 DEF HeldFirst
<1> QED
  BY <1>3, <1>4

LEMMA FirstDequeue ==
  ASSUME QueueInv, NEW class \in Classes, Dequeue(class), UNCHANGED priority
  PROVE  HeldFirst'
<1> SUFFICES ASSUME NEW k \in Classes, NEW i \in 1 .. Len(pending'[k]), priority[held'] = k
             PROVE  held' < pending'[k][i]
  BY DEF HeldFirst
<1>1. /\ pending[class] \in Seq(JobIds) /\ pending[class] # <<>>
      /\ pending'[class] = Tail(pending[class]) /\ held' = Head(pending[class])
  BY DEF Dequeue, QueueInv, TypeOK, TableOK
<1>2. /\ held' = pending[class][1] /\ 1 \in 1 .. Len(pending[class])
      /\ \A j \in 1 .. Len(pending'[class]) :
           /\ pending'[class][j] = pending[class][j + 1]
           /\ j + 1 \in 1 .. Len(pending[class]) /\ 1 < j + 1
  BY <1>1, TailFacts, SMT
<1>3. k = class
  BY <1>2 DEF QueueInv, LaneInv
<1> QED
  BY <1>2, <1>3 DEF QueueInv, LaneOrder

LEMMA FirstStep == QueueInv /\ HeldFirst /\ [Next]_vars => HeldFirst'
<1> SUFFICES ASSUME QueueInv, HeldFirst, [Next]_vars PROVE HeldFirst'
  OBVIOUS
<1>1. CASE UNCHANGED <<pending, priority>> /\ held' \in {held, NoJob}
  BY <1>1 DEF HeldFirst
<1>2. CASE Worker
  <2>1. CASE PollClass
    <3>1. ClassAt((rrIndex + scan) % 3) \in Classes
      <4>1. (rrIndex + scan) % 3 \in 0 .. 2
        BY SMT DEF QueueInv, TypeOK, WorkerOK
      <4> QED
        BY <4>1, ClassAtType
    <3> QED
      BY <1>1, <2>1, <3>1, FirstDequeue DEF PollClass
  <2>2. CASE SelectPending
    BY <1>1, <2>2, FirstDequeue DEF SelectPending, WorkerMoves
  <2>3. CASE BeginJob \/ AnnounceEnd \/ \E o \in {"succeeded", "failed"} : FinishJob(o)
    BY <1>1, <2>3 DEF BeginJob, AnnounceEnd, FinishJob, WorkerMoves, JobProcessed
  <2>4. CASE StartWorker \/ CheckPaused \/ StartApply \/ Restart
    BY <1>1, <2>4 DEF StartWorker, CheckPaused, StartApply, Restart, WorkerMoves
  <2> QED
    BY <1>2, <2>1, <2>2, <2>3, <2>4 DEF Worker
<1>3. ASSUME NEW c \in Clients, Call(c) PROVE HeldFirst'
  <2>1. CASE Submit(c)
    BY <2>1, FirstEnqueue DEF Submit
  <2>2. CASE \E id \in JobIds : Cancel(c, id) \/ FailJob(c, id) \/ RecoverStuckJobs(c, id)
    BY <1>1, <2>2 DEF Cancel, FailJob, RecoverStuckJobs
  <2>3. CASE Announce(c) \/ SafeDrain(c) \/ DrainReturn(c)
    BY <1>1, <2>3 DEF Announce, SafeDrain, DrainReturn
  <2> QED
    BY <1>3, <2>1, <2>2, <2>3 DEF Call
<1>4. CASE Control
  BY <1>1, <1>4 DEF Control, SetEmergencyStop, SetFreeze, SetPaused, SetWorkerLifecyclePolicy, Shutdown
<1>5. CASE UNCHANGED vars
  BY <1>1, <1>5
<1> QED
  BY <1>2, <1>3, <1>4, <1>5 DEF Next, Idle

LEMMA InOrder == QueueInv /\ HeldFirst => ClassFIFO
<1> SUFFICES ASSUME QueueInv, HeldFirst, NEW class \in Classes, NEW i \in DOMAIN pending[class]
             PROVE  /\ priority[pending[class][i]] = class
                    /\ i > 1 => pending[class][i - 1] < pending[class][i]
                    /\ held # NoJob /\ priority[held] = class => held < pending[class][i]
  BY DEF ClassFIFO
<1>1. i \in 1 .. Len(pending[class])
  BY LaneType, SMT DEF QueueInv
<1>2. i > 1 => i - 1 \in 1 .. Len(pending[class]) /\ i - 1 < i
  BY <1>1, SMT
<1> QED
  BY <1>1, <1>2 DEF QueueInv, LaneInv, LaneOrder, HeldFirst

-----------------------------------------------------------------------------
(* The turns of the classes *)

Index(class) == IF class = "high" THEN 0 ELSE IF class = "normal" THEN 1 ELSE 2

\* How many classes the next poll tries before this one.
Distance(class) == (Index(class) + 3 - rrIndex) % 3

\* A class that waits is passed over by at most as many jobs as there are
\* classes before it in the poll, and by one more when its first job came too
\* late for the poll or select in progress.
BypassInv ==
  /\ bypassed \in [Classes -> Nat]
  /\ \A class \in Classes :
       /\ bypassed[class] + Distance(class) <= 3
       /\ pending[class] = <<>> \/ wpc = "select" \/ (wpc = "poll" /\ Distance(class) < scan)
            => bypassed[class] = 0

LEMMA DistanceRange ==
  ASSUME NEW class, NEW r \in 0 .. 2
  PROVE  (Index(class) + 3 - r) % 3 \in 0 .. 2
  BY SMT DEF Index

LEMMA DistanceType ==
  ASSUME rrIndex \in 0 .. 2, NEW class \in Classes
  PROVE  Distance(class) \in 0 .. 2
  BY DistanceRange DEF Distance

\* The class a poll tries is the one at the distance it has scanned.
LEMMA ScanDistance ==
  ASSUME rrIndex \in 0 .. 2, scan \in 0 .. 2, NEW class \in Classes
  PROVE  Distance(class) = scan <=> class = ClassAt((rrIndex + scan) % 3)
<1>1. (rrIndex + scan) % 3 \in 0 .. 2
  BY SMT
<1>2. Distance(class) = scan <=> Index(class) = (rrIndex + scan) % 3
  BY <1>1, SMT DEF Distance, Index, Classes
<1>3. \A n \in 0 .. 2 : Index(class) = n <=> class = ClassAt(n)
  BY SMT DEF Index, Classes, ClassAt
<1> QED
  BY <1>1, <1>2, <1>3

\* The poll goes on behind the class it served, so the classes it has not
\* reached come nearer.
LEMMA DistanceShrinks ==
  ASSUME rrIndex \in 0 .. 2, scan \in 0 .. 2, rrIndex' = (((rrIndex + scan) % 3) + 1) % 3,
         NEW class \in Classes, Distance(class) # scan
  PROVE  /\ Distance(class) > scan => Distance(class)' <= Distance(class) - 1
         /\ Distance(class) < scan => Distance(class)' <= 1
<1>1. Index(class) \in 0 .. 2
  BY SMT DEF Index
<1> QED
  BY <1>1, SMT DEF Distance

\* The channels in a step: a job is taken from one of them, or none shrinks.
LEMMA TakenOnce ==
  ASSUME TypeOK, NEW class \in Classes, Dequeue(class)
  PROVE  /\ Taken(class)
         /\ \A other \in Classes : other # class => ~Taken(other) /\ pending'[other] = pending[other]
<1>1. /\ pending[class] \in Seq(JobIds) /\ pending[class] # <<>>
      /\ pending'[class] = Tail(pending[class])
      /\ \A other \in Classes : other # class => pending'[other] = pending[other]
  BY DEF Dequeue, TypeOK, TableOK
<1>2. Taken(class)
  BY <1>1, TailFacts, SMT DEF Taken
<1>3. \A other \in Classes : Len(pending[other]) \in Nat
  BY SMT DEF TypeOK, TableOK
<1>4. \A n \in Nat : ~(n < n)
  BY SMT
<1> QED
  BY <1>1, <1>2, <1>3, <1>4 DEF Taken

LEMMA NoneTaken ==
  ASSUME TypeOK, UNCHANGED pending
         \/ \E c \in Clients : Submit(c)
  PROVE  \A class \in Classes : ~Taken(class) /\ (pending'[class] = <<>> => pending[class] = <<>>)
<1> SUFFICES ASSUME NEW class \in Classes
             PROVE  ~Taken(class) /\ (pending'[class] = <<>> => pending[class] = <<>>)
  OBVIOUS
<1>1. Len(pending[class]) \in Nat /\ pending[class] \in Seq(JobIds)
  BY SMT DEF TypeOK, TableOK
<1>2. CASE pending'[class] = pending[class]
  BY <1>1, <1>2, SMT DEF Taken
<1>3. CASE pending'[class] # pending[class]
  <2>1. PICK k \in Classes : Send(k, nextID + 1)
    BY <1>3, PriorityIsClass DEF Submit, Enqueue
  <2>2. pending'[class] = Append(pending[class], nextID + 1)
    BY <1>3, <2>1 DEF Send, TypeOK, TableOK
  <2> QED
    BY <1>1, <2>2, SMT DEF Taken
<1> QED
  BY <1>2, <1>3

\* When a job of another class is taken, a waiting class comes nearer, or it
\* had not been passed over yet.
LEMMA BypassTaken ==
  ASSUME TypeOK, BypassInv, NEW class \in Classes, Dequeue(class),
         bypassed' = [k \in Classes |-> Bypass(k)],
         \/ wpc = "select" /\ rrIndex' = rrIndex
         \/ /\ wpc = "poll" /\ class = ClassAt((rrIndex + scan) % 3)
            /\ rrIndex' = (((rrIndex + scan) % 3) + 1) % 3
  PROVE  BypassInv'
<1>1. rrIndex \in 0 .. 2 /\ scan \in 0 .. 2 /\ rrIndex' \in 0 .. 2
  BY SMT DEF TypeOK, WorkerOK
<1>2. wpc' = "dequeued"
  BY DEF Dequeue
<1>3. ASSUME NEW k \in Classes
      PROVE  /\ bypassed'[k] \in Nat /\ bypassed'[k] + Distance(k)' <= 3
             /\ pending'[k] = <<>> => bypassed'[k] = 0
  <2>1. /\ Distance(k) \in 0 .. 2 /\ Distance(k)' \in 0 .. 2
        /\ bypassed[k] \in Nat /\ bypassed[k] + Distance(k) <= 3
    <3>1. Distance(k)' \in 0 .. 2
      BY <1>1, DistanceRange DEF Distance
    <3> QED
      BY <1>1, <3>1, DistanceType DEF BypassInv
  <2>2. CASE k = class \/ pending[k] = <<>>
    <3>1. bypassed'[k] = 0
      BY <2>2, TakenOnce DEF Bypass
    <3> QED
      BY <2>1, <3>1, SMT
  <2>3. CASE k # class /\ pending[k] # <<>>
    <3>1. bypassed'[k] = bypassed[k] + 1 /\ pending'[k] # <<>>
      BY <2>3, TakenOnce DEF Bypass
    <3>2. CASE wpc = "select" /\ rrIndex' = rrIndex
      <4>1. bypassed[k] = 0
        BY <3>2 DEF BypassInv
      <4> QED
        BY <2>1, <3>1, <4>1, SMT
    <3>3. CASE /\ wpc = "poll" /\ class = ClassAt((rrIndex + scan) % 3)
               /\ rrIndex' = (((rrIndex + scan) % 3) + 1) % 3
      <4>1. Distance(k) # scan
        BY <1>1, <2>3, <3>3, ScanDistance
      <4>2. CASE Distance(k) < scan
        <5>1. bypassed[k] = 0 /\ Distance(k)' <= 1
          BY <1>1, <3>3, <4>1, <4>2, DistanceShrinks DEF BypassInv
        <5> QED
          BY <2>1, <3>1, <5>1, SMT
      <4>3. CASE Distance(k) > scan
        <5>1. Distance(k)' <= Distance(k) - 1
          BY <1>1, <3>3, <4>1, <4>3, DistanceShrinks
        <5> QED
          BY <2>1, <3>1, <5>1, SMT
      <4> QED
        BY <1>1, <2>1, <4>1, <4>2, <4>3, SMT
    <3> QED
      BY <3>2, <3>3
  <2> QED
    BY <2>2, <2>3
<1> QED
  BY <1>2, <1>3 DEF BypassInv

\* A step that takes no job.  The worker may come to its poll or, having found
\* all channels empty, to its select.
LEMMA BypassKept ==
  ASSUME TypeOK, BypassInv, rrIndex' = rrIndex,
         \A class \in Classes : ~Taken(class) /\ (pending'[class] = <<>> => pending[class] = <<>>),
         bypassed' = [class \in Classes |-> Bypass(class)],
         \A class \in Classes :
           wpc' = "select" \/ (wpc' = "poll" /\ Distance(class) < scan') =>
             \/ pending[class] = <<>>
             \/ wpc = "select"
             \/ wpc = "poll" /\ Distance(class) < scan
  PROVE  BypassInv'
<1> SUFFICES ASSUME NEW k \in Classes
             PROVE  /\ bypassed'[k] \in Nat
                    /\ bypassed'[k] + Distance(k) <= 3
                    /\ pending'[k] = <<>> \/ wpc' = "select" \/ (wpc' = "poll" /\ Distance(k) < scan')
                         => bypassed'[k] = 0
  BY DEF BypassInv, Distance
<1>1. bypassed[k] \in Nat /\ bypassed[k] + Distance(k) <= 3 /\ Distance(k) \in 0 .. 2
  BY DistanceType DEF BypassInv, TypeOK, WorkerOK
<1>2. bypassed'[k] = IF pending[k] = <<>> THEN 0 ELSE bypassed[k]
  BY DEF Bypass
<1>3. 0 \in Nat /\ 0 + Distance(k) <= 3
  BY <1>1, SMT
<1> QED
  BY <1>1, <1>2, <1>3 DEF BypassInv

LEMMA BypassPoll ==
  ASSUME TypeOK, BypassInv, PollClass, bypassed' = [class \in Classes |-> Bypass(class)]
  PROVE  BypassInv'
<1>1. /\ rrIndex \in 0 .. 2 /\ scan \in 0 .. 2
      /\ ClassAt((rrIndex + scan) % 3) \in Classes
  <2>1. rrIndex \in 0 .. 2 /\ scan \in 0 .. 2
    BY DEF TypeOK, WorkerOK
  <2>2. (rrIndex + scan) % 3 \in 0 .. 2
    BY <2>1, SMT
  <2> QED
    BY <2>1, <2>2, ClassAtType
<1>2. CASE Dequeue(ClassAt((rrIndex + scan) % 3))
  <2>1. wpc = "poll" /\ rrIndex' = (((rrIndex + scan) % 3) + 1) % 3
    BY <1>2 DEF PollClass, Dequeue
  <2> QED
    BY <1>1, <1>2, <2>1, BypassTaken
<1>3. CASE ~Dequeue(ClassAt((rrIndex + scan) % 3))
  <2>1. /\ wpc = "poll" /\ pending[ClassAt((rrIndex + scan) % 3)] = <<>>
        /\ scan' = (scan + 1) % 3 /\ wpc' = (IF scan = 2 THEN "select" ELSE "poll")
        /\ UNCHANGED <<pending, rrIndex>>
    BY <1>3 DEF PollClass
  <2>2. ASSUME NEW class \in Classes, wpc' = "select" \/ (wpc' = "poll" /\ Distance(class) < scan')
        PROVE  pending[class] = <<>> \/ Distance(class) < scan
    <3>1. Distance(class) = scan \/ Distance(class) < scan
      <4>1. Distance(class) \in 0 .. 2
        BY <1>1, DistanceType
      <4>2. scan = 2 \/ Distance(class) < scan + 1
        BY <1>1, <2>1, <2>2, SMT
      <4> QED
        BY <1>1, <4>1, <4>2, SMT
    <3> QED
      BY <1>1, <2>1, <3>1, ScanDistance
  <2> QED
    BY <2>1, <2>2, NoneTaken, BypassKept
<1> QED
  BY <1>2, <1>3

LEMMA BypassStep == TypeOK /\ BypassInv /\ [HistoryNext]_historyVars => BypassInv'
<1> SUFFICES ASSUME TypeOK, BypassInv, [HistoryNext]_historyVars PROVE BypassInv'
  OBVIOUS
<1>1. CASE UNCHANGED historyVars
  BY <1>1 DEF historyVars, BypassInv, Distance
<1>2. CASE HistoryNext
  <2>1. bypassed' = [class \in Classes |-> Bypass(class)]
    BY <1>2 DEF HistoryNext
  <2>2. ASSUME UNCHANGED <<pending, rrIndex>>, wpc' \notin {"poll", "select"} \/ UNCHANGED <<wpc, scan>>
        PROVE  BypassInv'
    BY <2>1, <2>2, NoneTaken, BypassKept
  <2>3. CASE Worker
    <3>1. CASE PollClass
      BY <2>1, <3>1, BypassPoll
    <3>2. CASE SelectPending
      <4>1. ASSUME NEW class \in Classes, Dequeue(class), UNCHANGED rrIndex PROVE BypassInv'
        BY <2>1, <3>2, <4>1, BypassTaken DEF SelectPending
      <4> QED
        BY <2>2, <3>2, <4>1 DEF SelectPending, WorkerMoves
    <3>3. CASE CheckPaused
      <4>1. CASE wpc' = "poll"
        <5>1. scan' = 0 /\ UNCHANGED <<pending, rrIndex>>
          BY <3>3, <4>1 DEF CheckPaused, WorkerMoves
        <5>2. \A class \in Classes : ~(Distance(class) < scan')
          <6>1. \A n \in 0 .. 2 : ~(n < 0)
            BY SMT
          <6> QED
            BY <5>1, <6>1, DistanceType DEF TypeOK, WorkerOK
        <5> QED
          BY <2>1, <4>1, <5>1, <5>2, NoneTaken, BypassKept
      <4> QED
        BY <2>2, <3>3, <4>1 DEF CheckPaused, WorkerMoves
    <3>4. CASE StartWorker \/ StartApply \/ Restart
      BY <2>2, <3>4 DEF StartWorker, StartApply, Restart, WorkerMoves
    <3>5. CASE BeginJob \/ AnnounceEnd \/ \E o \in {"succeeded", "failed"} : FinishJob(o)
      BY <2>2, <3>5 DEF BeginJob, AnnounceEnd, FinishJob, WorkerMoves, JobProcessed
    <3> QED
      BY <2>3, <3>1, <3>2, <3>3, <3>4, <3>5 DEF Worker
  <2>4. ASSUME NEW c \in Clients, Call(c) PROVE BypassInv'
    <3>1. UNCHANGED <<rrIndex, wpc, scan>>
      BY <2>4, CallerStep
    <3>2. CASE Submit(c)
      BY <2>1, <3>1, <3>2, NoneTaken, BypassKept
    <3>3. CASE \E id \in JobIds : Cancel(c, id) \/ FailJob(c, id) \/ RecoverStuckJobs(c, id)
      BY <2>2, <3>1, <3>3 DEF Cancel, FailJob, RecoverStuckJobs
    <3>4. CASE Announce(c) \/ SafeDrain(c) \/ DrainReturn(c)
      BY <2>2, <3>1, <3>4 DEF Announce, SafeDrain, DrainReturn
    <3> QED
      BY <2>4, <3>2, <3>3, <3>4 DEF Call
  <2>5. CASE Control
    BY <2>2, <2>5 DEF Control, SetEmergencyStop, SetFreeze, SetPaused, SetWorkerLifecyclePolicy, Shutdown
  <2>6. CASE UNCHANGED vars
    BY <2>2, <2>6
  <2> QED
    BY <1>2, <2>3, <2>4, <2>5, <2>6 DEF HistoryNext, Next, Idle
<1> QED
  BY <1>1, <1>2

\* nextPending serves the priority classes in turn: a class with a waiting job
\* is passed over at most three times, and jobs of a class are taken in the
\* order of their submission, for any number of jobs, callers and any buffer.
THEOREM TurnsTaken == HistorySpec => []ServedInTurn
<1>1. HistoryInit => QueueInv /\ HeldFirst /\ BypassInv
  <2> SUFFICES ASSUME HistoryInit PROVE HeldFirst /\ BypassInv
    BY InvInit DEF HistoryInit
  <2>1. HeldFirst
    BY DEF HistoryInit, Init, HeldFirst
  <2>2. rrIndex \in 0 .. 2
    BY SMT DEF HistoryInit, Init
  <2>3. ASSUME NEW class \in Classes PROVE 0 \in Nat /\ 0 + Distance(class) <= 3
    BY <2>2, DistanceType, SMT
  <2> QED
    BY <2>1, <2>3 DEF HistoryInit, BypassInv
<1>2. /\ QueueInv /\ HeldFirst /\ BypassInv /\ [HistoryNext]_historyVars
      => QueueInv' /\ HeldFirst' /\ BypassInv'
  <2>1. [HistoryNext]_historyVars => [Next]_vars
    BY DEF HistoryNext, historyVars
  <2> QED
    BY <2>1, InvStep, FirstStep, BypassStep DEF QueueInv
<1>3. QueueInv /\ HeldFirst /\ BypassInv => ServedInTurn
  <2> SUFFICES ASSUME QueueInv, BypassInv, NEW class \in Classes PROVE bypassed[class] <= 3
    BY InOrder DEF ServedInTurn
  <2>1. bypassed[class] \in Nat /\ Distance(class) \in 0 .. 2 /\ bypassed[class] + Distance(class) <= 3
    BY DistanceType DEF BypassInv, QueueInv, TypeOK, WorkerOK
  <2> QED
    BY <2>1, SMT
<1> QED
  BY <1>1, <1>2, <1>3, PTL DEF HistorySpec

-----------------------------------------------------------------------------
(***************************************************************************)
(* The queue implements the life of a job (JobLifecycle).  Each step of    *)
(* the queue maps to one step of JobLifecycle or to a stutter; the proof   *)
(* has one lemma for each group of steps and rests on QueueInv.            *)
(***************************************************************************)

\* The abstract state a state of the queue stands for.
PhaseMap == [id \in JobIds |-> Phase(id)]
NoticeMap == [id \in JobIds |-> [s \in {"failed", "canceled"} |-> Undelivered(id, s)]]

-----------------------------------------------------------------------------
(* The phase of a job *)

\* The worker's job is in no channel.
LEMMA HeldNotQueued ==
  ASSUME QueueInv
  PROVE  ~\E class \in Classes : InLane(class, held)
  BY DEF QueueInv, LaneInv, InLane

\* A job keeps its phase when its place and the worker's hold on it are kept.
LEMMA PhaseKept ==
  ASSUME NEW id \in JobIds,
         status'[id] = "absent" <=> status[id] = "absent",
         Queued(id)' <=> Queued(id),
         (held' = id /\ wpc' = "announceRun") <=> (held = id /\ wpc = "announceRun"),
         (held' = id /\ wpc' = "applying") <=> (held = id /\ wpc = "applying"),
         (held' = id /\ wpc' = "announceEnd") <=> (held = id /\ wpc = "announceEnd")
  PROVE  Phase(id)' = Phase(id)
  BY DEF Phase

\* The phase of the worker's job follows from where the worker is.
LEMMA PhaseHeld ==
  QueueInv =>
    /\ wpc = "dequeued" => Phase(held) = "queued"
    /\ wpc = "announceRun" => Phase(held) = "taken"
    /\ wpc = "applying" => Phase(held) = "applying"
    /\ wpc = "announceEnd" => Phase(held) = "announcing"
<1> SUFFICES ASSUME QueueInv
             PROVE  /\ wpc = "dequeued" => Phase(held) = "queued"
                    /\ wpc = "announceRun" => Phase(held) = "taken"
                    /\ wpc = "applying" => Phase(held) = "applying"
                    /\ wpc = "announceEnd" => Phase(held) = "announcing"
  OBVIOUS
<1>1. wpc \in {"dequeued", "announceRun", "applying", "announceEnd"} => status[held] # "absent"
  BY DEF QueueInv, HeldInv, Waiting, Underway
<1>2. ~\E class \in Classes : InLane(class, held)
  BY HeldNotQueued
<1> QED
  BY <1>1, <1>2 DEF Phase, Queued

\* While the worker has no job underway no job is in a phase of the worker.
LEMMA WorkerFree ==
  ASSUME QueueInv, wpc \notin {"announceRun", "applying", "announceEnd"}
  PROVE  \A id \in JobIds : Phase(id) \notin {"taken", "applying", "announcing"}
  BY DEF Phase

\* One job changes its phase, the others keep theirs.
LEMMA PhaseChanged ==
  ASSUME NEW id \in JobIds, NEW p, Phase(id)' = p,
         \A j \in JobIds : j # id => Phase(j)' = Phase(j)
  PROVE  PhaseMap' = [PhaseMap EXCEPT ![id] = p]
  BY DEF PhaseMap

-----------------------------------------------------------------------------
(* The notifications callers have still to deliver *)

Callers(id, s) == {c \in Clients : publishing[c] = [job |-> id, status |-> s]}

LEMMA CallersFinite ==
  ASSUME NEW id, NEW s
  PROVE  /\ IsFiniteSet(Callers(id, s)) /\ IsFiniteSet(Callers(id, s)')
         /\ Cardinality(Callers(id, s)) \in Nat
         /\ Undelivered(id, s) = Cardinality(Callers(id, s))
         /\ Undelivered(id, s)' = Cardinality(Callers(id, s)')
<1>1. Callers(id, s) \subseteq Clients /\ Callers(id, s)' \subseteq Clients
  BY DEF Callers
<1>2. IsFiniteSet(Callers(id, s)) /\ IsFiniteSet(Callers(id, s)')
  BY <1>1, ClientsAssumption, FS_Subset
<1> QED
  BY <1>2, FS_CardinalityType DEF Callers, Undelivered

\* A step that touches no notification of a cancel or a failure.
LEMMA NoticesKept ==
  ASSUME \A c \in Clients : \/ publishing'[c] = publishing[c]
                            \/ /\ publishing[c].status \notin {"failed", "canceled"}
                               /\ publishing'[c].status \notin {"failed", "canceled"}
  PROVE  NoticeMap' = NoticeMap
<1>1. ASSUME NEW id \in JobIds, NEW s \in {"failed", "canceled"}
      PROVE  Undelivered(id, s)' = Undelivered(id, s)
  <2>1. ASSUME NEW c \in Clients
        PROVE  publishing'[c] = [job |-> id, status |-> s] <=> publishing[c] = [job |-> id, status |-> s]
    <3>1. [job |-> id, status |-> s].status \in {"failed", "canceled"}
      OBVIOUS
    <3>2. CASE publishing'[c] = publishing[c]
      BY <3>2
    <3>3. CASE publishing[c].status \notin {"failed", "canceled"} /\ publishing'[c].status \notin {"failed", "canceled"}
      <4>1. publishing[c] # [job |-> id, status |-> s] /\ publishing'[c] # [job |-> id, status |-> s]
        BY <3>1, <3>3
      <4> QED
        BY <4>1
    <3> QED
      BY <3>2, <3>3
  <2>2. Callers(id, s)' = Callers(id, s)
    BY <2>1 DEF Callers
  <2> QED
    BY <2>2, CallersFinite
<1> QED
  BY <1>1 DEF NoticeMap

\* A caller that held no notification takes one.
LEMMA NoticeAdded ==
  ASSUME TypeOK, NEW c \in Clients, NEW id \in JobIds, NEW s \in {"failed", "canceled"},
         Free(c), Publish(c, id, s)
  PROVE  NoticeMap' = [NoticeMap EXCEPT ![id][s] = @ + 1]
<1> DEFINE note == [job |-> id, status |-> s]
<1>1. /\ publishing[c] # note /\ publishing'[c] = note
      /\ \A d \in Clients : d # c => publishing'[d] = publishing[d]
      /\ publishing[c] = Silent
  BY SMT DEF Free, Publish, Silent, NoJob, JobIds, TypeOK, CallsOK
<1>2. Undelivered(id, s)' = Undelivered(id, s) + 1
  <2>1. Callers(id, s)' = Callers(id, s) \cup {c} /\ c \notin Callers(id, s)
    BY <1>1, SMT DEF Callers
  <2> QED
    BY <2>1, CallersFinite, FS_AddElement, SMT
<1>3. ASSUME NEW j \in JobIds, NEW t \in {"failed", "canceled"}, j # id \/ t # s
      PROVE  Undelivered(j, t)' = Undelivered(j, t)
  <2>1. note # [job |-> j, status |-> t] /\ Silent # [job |-> j, status |-> t]
    BY <1>3 DEF Silent, NoJob, JobIds
  <2>2. Callers(j, t)' = Callers(j, t)
    BY <1>1, <2>1 DEF Callers
  <2> QED
    BY <2>2, CallersFinite
<1> QED
  BY <1>2, <1>3 DEF NoticeMap

\* A caller has delivered its notification.
LEMMA NoticeRemoved ==
  ASSUME TypeOK, NEW c \in Clients, NEW id \in JobIds, NEW s \in {"failed", "canceled"},
         publishing[c] = [job |-> id, status |-> s], Announce(c)
  PROVE  /\ NoticeMap' = [NoticeMap EXCEPT ![id][s] = @ - 1]
         /\ NoticeMap[id][s] > 0
<1> DEFINE note == [job |-> id, status |-> s]
<1>1. /\ publishing[c] = note /\ publishing'[c] = Silent
      /\ \A d \in Clients : d # c => publishing'[d] = publishing[d]
  BY DEF Announce, TypeOK, CallsOK
<1>2. Silent # note
  BY DEF Silent, NoJob, JobIds
<1>3. /\ Undelivered(id, s)' = Undelivered(id, s) - 1 /\ Undelivered(id, s) > 0
  <2>1. Callers(id, s)' = Callers(id, s) \ {c} /\ c \in Callers(id, s)
    BY <1>1, <1>2 DEF Callers
  <2>2. Cardinality(Callers(id, s)') = Cardinality(Callers(id, s)) - 1
    BY <2>1, CallersFinite, FS_RemoveElement
  <2>3. Cardinality(Callers(id, s)') \in Nat
    BY CallersFinite, FS_CardinalityType
  <2> QED
    BY <2>2, <2>3, CallersFinite, SMT
<1>4. ASSUME NEW j \in JobIds, NEW t \in {"failed", "canceled"}, j # id \/ t # s
      PROVE  Undelivered(j, t)' = Undelivered(j, t)
  <2>1. note # [job |-> j, status |-> t] /\ Silent # [job |-> j, status |-> t]
    BY <1>4 DEF Silent, NoJob, JobIds
  <2>2. Callers(j, t)' = Callers(j, t)
    BY <1>1, <2>1 DEF Callers
  <2> QED
    BY <2>2, CallersFinite
<1> QED
  BY <1>3, <1>4 DEF NoticeMap

-----------------------------------------------------------------------------
(* Each step of the queue is a step in the life of a job, or none *)

LEMMA InitMaps == Init => Life!Init
<1> SUFFICES ASSUME Init PROVE Life!Init
  OBVIOUS
<1>1. \A id \in JobIds : Phase(id) = "none"
  BY DEF Init, Phase
<1>2. ASSUME NEW id \in JobIds, NEW s \in {"failed", "canceled"} PROVE Undelivered(id, s) = 0
  <2>1. Silent # [job |-> id, status |-> s]
    BY DEF Silent, NoJob, JobIds
  <2>2. Callers(id, s) = {}
    BY <2>1 DEF Init, Callers
  <2> QED
    BY <2>2, CallersFinite, FS_EmptySet
<1> QED
  BY <1>1, <1>2 DEF Init, Life!Init, Life!ByCaller

\* Steps that leave the jobs, the channels and the worker's job alone.
LEMMA PhasesQuiet ==
  ASSUME UNCHANGED <<status, pending, held>>,
         \/ wpc' = wpc
         \/ {wpc, wpc'} \subseteq {"start", "check", "poll", "select", "restart", "done"}
  PROVE  PhaseMap' = PhaseMap
<1>1. ASSUME NEW id \in JobIds PROVE Phase(id)' = Phase(id)
  <2>1. Queued(id)' <=> Queued(id)
    BY DEF Queued, InLane
  <2> QED
    BY <2>1, PhaseKept
<1> QED
  BY <1>1 DEF PhaseMap

LEMMA QuietMaps ==
  ASSUME UNCHANGED <<status, pending, held, publishing>>,
         \/ wpc' = wpc
         \/ {wpc, wpc'} \subseteq {"start", "check", "poll", "select", "restart", "done"}
  PROVE  UNCHANGED Life!lifeVars
<1>1. PhaseMap' = PhaseMap
  BY PhasesQuiet
<1>2. NoticeMap' = NoticeMap
  BY NoticesKept
<1> QED
  BY <1>1, <1>2 DEF Life!lifeVars, PhaseMap, NoticeMap

\* A job that is rolled back leaves no trace; any other one begins its life.
LEMMA EnqueueMaps ==
  ASSUME QueueInv, NEW c \in Clients, NEW key \in Keys \cup {NoKey},
         NEW force \in BOOLEAN, NEW class \in Priorities, Enqueue(c, key, force, class)
  PROVE  [Life!Next]_Life!lifeVars
<1>0. PICK id \in JobIds : id = nextID + 1
  BY MaxJobsAssumption, SMT DEF Enqueue, JobIds, QueueInv, TypeOK, TableOK
<1>1. id \in JobIds /\ status[id] = "absent" /\ class \in Classes
  BY <1>0, PriorityIsClass, SMT DEF JobIds, QueueInv, FreshInv, TypeOK, TableOK
<1>2. CASE Rollback(id, key) /\ UNCHANGED <<pending, publishing>>
  BY <1>0, <1>2, QuietMaps DEF Enqueue, Rollback
<1>3. CASE /\ status' = [status EXCEPT ![id] = "pending"]
           /\ Send(class, id) /\ Publish(c, id, "pending")
  <2>1. UNCHANGED <<held, wpc>> /\ publishing[c] = Silent
    BY DEF Enqueue, Free
  <2>2. /\ status'[id] = "pending"
        /\ \A j \in JobIds : j # id => status'[j] = status[j]
    BY <1>1, <1>3 DEF QueueInv, TypeOK, TableOK
  <2>3. /\ pending'[class] = Append(pending[class], id)
        /\ \A k \in Classes : k # class => pending'[k] = pending[k]
        /\ \A k \in Classes : pending[k] \in Seq(JobIds)
    BY <1>1, <1>3 DEF Send, QueueInv, TypeOK, TableOK
  <2>4. /\ Len(pending'[class]) = Len(pending[class]) + 1
        /\ Len(pending[class]) \in Nat
        /\ pending'[class][Len(pending[class]) + 1] = id
        /\ \A i \in 1 .. Len(pending[class]) : pending'[class][i] = pending[class][i]
    <3>1. pending[class] \in Seq(JobIds) /\ id \in JobIds
      BY <1>1, <2>3
    <3>2. Len(pending[class]) \in Nat
      BY <3>1, SMT
    <3>3. /\ Len(Append(pending[class], id)) = Len(pending[class]) + 1
          /\ Append(pending[class], id)[Len(pending[class]) + 1] = id
          /\ \A i \in 1 .. Len(pending[class]) : Append(pending[class], id)[i] = pending[class][i]
      BY <3>1, AppendFacts
    <3> QED
      BY <2>3, <3>2, <3>3
  <2>5. Phase(id)' = "queued"
    <3>1. InLane(class, id)'
      BY <2>4, SMT DEF InLane
    <3>2. Queued(id)'
      BY <1>1, <3>1 DEF Queued
    <3> QED
      BY <2>2, <3>2 DEF Phase
  <2>6. ASSUME NEW j \in JobIds, j # id PROVE Phase(j)' = Phase(j)
    <3>1. ASSUME NEW k \in Classes PROVE InLane(k, j)' <=> InLane(k, j)
      <4>1. CASE k = class
        <5>1. 1 .. Len(pending'[class]) = (1 .. Len(pending[class])) \cup {Len(pending[class]) + 1}
          BY <2>4, SMT
        <5> QED
          BY <2>4, <2>6, <4>1, <5>1 DEF InLane
      <4> QED
        BY <2>3, <4>1 DEF InLane
    <3>2. Queued(j)' <=> Queued(j)
      BY <2>1, <3>1 DEF Queued
    <3> QED
      BY <2>1, <2>2, <2>6, <3>2, PhaseKept
  <2>7. PhaseMap' = [PhaseMap EXCEPT ![id] = "queued"]
    BY <1>1, <2>5, <2>6, PhaseChanged
  <2>8. NoticeMap' = NoticeMap
    <3>1. ASSUME NEW d \in Clients
          PROVE  \/ publishing'[d] = publishing[d]
                 \/ /\ publishing[d].status \notin {"failed", "canceled"}
                    /\ publishing'[d].status \notin {"failed", "canceled"}
      BY <1>3, <2>1, SMT DEF Publish, Silent, QueueInv, TypeOK, CallsOK
    <3> QED
      BY <3>1, NoticesKept
  <2>9. Life!Submit(id)
    BY <1>1, <1>3, <2>7, <2>8 DEF Life!Submit, Life!Changes, PhaseMap, NoticeMap
  <2> QED
    BY <1>1, <2>9 DEF Life!Next
<1> QED
  BY <1>0, <1>2, <1>3 DEF Enqueue

\* Cancel, FailJob and RecoverStuckJobs leave the worker's side alone.
LEMMA CallMaps ==
  ASSUME QueueInv, NEW c \in Clients, NEW id \in JobIds,
         Cancel(c, id) \/ FailJob(c, id) \/ RecoverStuckJobs(c, id)
  PROVE  Life!Cancel(id) \/ Life!Fail(id)
<1>1. PICK s \in {"canceled", "failed"} :
        /\ status' = [status EXCEPT ![id] = s] /\ Publish(c, id, s)
        /\ s = "canceled" <=> Cancel(c, id)
  <2>1. CASE Cancel(c, id)
    BY <2>1 DEF Cancel
  <2>2. CASE ~Cancel(c, id)
    BY <2>2 DEF FailJob, RecoverStuckJobs
  <2> QED
    BY <2>1, <2>2
<1>2. /\ Free(c) /\ UNCHANGED <<pending, held, wpc>>
      /\ status[id] \in {"pending", "running", "canceled"}
  BY DEF Cancel, FailJob, RecoverStuckJobs
<1>3. NoticeMap' = [NoticeMap EXCEPT ![id][s] = @ + 1]
  BY <1>1, <1>2, NoticeAdded, SMT DEF QueueInv
<1>4. ASSUME NEW j \in JobIds PROVE Phase(j)' = Phase(j)
  <2>1. status'[j] = "absent" <=> status[j] = "absent"
    BY <1>1, <1>2 DEF QueueInv, TypeOK, TableOK
  <2>2. Queued(j)' <=> Queued(j)
    BY <1>2 DEF Queued, InLane
  <2> QED
    BY <1>2, <2>1, <2>2, PhaseKept
<1>5. PhaseMap' = [PhaseMap EXCEPT ![id] = PhaseMap[id]]
  BY <1>4 DEF PhaseMap
<1>6. CASE s = "canceled"
  <2>1. Life!Cancel(id)
    BY <1>1, <1>2, <1>3, <1>5, <1>6 DEF Life!Cancel, Life!Changes, Life!Notify, PhaseMap, NoticeMap
  <2> QED
    BY <2>1
<1>7. CASE s = "failed"
  <2>1. Life!Fail(id)
    BY <1>1, <1>2, <1>3, <1>5, <1>7 DEF Life!Fail, Life!Changes, Life!Notify, PhaseMap, NoticeMap
  <2> QED
    BY <2>1
<1> QED
  BY <1>6, <1>7

\* The end of publish() is a delivery when the notification was about an end.
LEMMA AnnounceMaps ==
  ASSUME QueueInv, NEW c \in Clients, Announce(c)
  PROVE  [Life!Next]_Life!lifeVars
<1>1. PhaseMap' = PhaseMap /\ status' = status
  BY PhasesQuiet DEF Announce
<1>2. publishing[c] \in Notification
  BY DEF Announce, QueueInv, TypeOK, CallsOK
<1>3. PICK id \in JobIds, s \in Statuses : publishing[c] = [job |-> id, status |-> s]
  BY <1>2 DEF Notification
<1>4. CASE s \in {"failed", "canceled"}
  <2>1. /\ NoticeMap' = [NoticeMap EXCEPT ![id][s] = @ - 1]
        /\ NoticeMap[id][s] > 0
    BY <1>3, <1>4, NoticeRemoved DEF QueueInv
  <2>2. Life!Deliver(id, s)
    BY <1>1, <2>1 DEF Life!Deliver, PhaseMap, NoticeMap
  <2> QED
    BY <1>4, <2>2 DEF Life!Next, Life!ByCaller
<1>5. CASE s \notin {"failed", "canceled"}
  <2>1. ASSUME NEW d \in Clients
        PROVE  \/ publishing'[d] = publishing[d]
               \/ /\ publishing[d].status \notin {"failed", "canceled"}
                  /\ publishing'[d].status \notin {"failed", "canceled"}
    BY <1>3, <1>5, SMT DEF Announce, Silent, QueueInv, TypeOK, CallsOK
  <2>2. NoticeMap' = NoticeMap
    BY <2>1, NoticesKept
  <2> QED
    BY <1>1, <2>2 DEF Life!lifeVars, PhaseMap, NoticeMap
<1> QED
  BY <1>4, <1>5

\* An id that goes from the head of its channel to the worker stays queued.
LEMMA DequeueMaps ==
  ASSUME QueueInv, held = NoJob, NEW class \in Classes, Dequeue(class),
         UNCHANGED <<status, publishing>>
  PROVE  UNCHANGED Life!lifeVars
<1>1. /\ pending[class] \in Seq(JobIds) /\ pending[class] # <<>>
      /\ pending'[class] = Tail(pending[class])
      /\ \A k \in Classes : k # class => pending'[k] = pending[k]
      /\ held' = Head(pending[class]) /\ wpc' = "dequeued"
  BY DEF Dequeue, QueueInv, TypeOK, TableOK
<1>2. /\ held' = pending[class][1] /\ 1 \in 1 .. Len(pending[class]) /\ held' \in JobIds
      /\ Len(pending'[class]) = Len(pending[class]) - 1
      /\ \A i \in 1 .. Len(pending'[class]) :
           pending'[class][i] = pending[class][i + 1] /\ i + 1 \in 1 .. Len(pending[class])
  BY <1>1, TailFacts, LaneType, SMT DEF QueueInv
<1>3. ASSUME NEW id \in JobIds PROVE Phase(id)' = Phase(id)
  <2>1. held # id
    BY SMT DEF NoJob, JobIds
  <2>2. ASSUME NEW k \in Classes, InLane(k, id) PROVE InLane(k, id)' \/ held' = id
    <3>1. PICK i \in 1 .. Len(pending[k]) : pending[k][i] = id
      BY <2>2 DEF InLane
    <3>2. CASE k = class /\ i = 1
      BY <1>2, <3>1, <3>2
    <3>3. CASE k = class /\ i # 1
      <4>1. i - 1 \in 1 .. Len(pending'[class]) /\ (i - 1) + 1 = i
        BY <1>1, <1>2, <3>1, <3>3, SMT
      <4>2. pending'[class][i - 1] = id
        BY <1>2, <3>1, <3>3, <4>1
      <4> QED
        BY <3>3, <4>1, <4>2 DEF InLane
    <3>4. CASE k # class
      BY <1>1, <3>1, <3>4 DEF InLane
    <3> QED
      BY <3>2, <3>3, <3>4
  <2>3. ASSUME NEW k \in Classes, InLane(k, id)' PROVE InLane(k, id)
    <3>1. CASE k = class
      BY <1>2, <2>3, <3>1 DEF InLane
    <3>2. CASE k # class
      BY <1>1, <2>3, <3>2 DEF InLane
    <3> QED
      BY <3>1, <3>2
  <2>4. held' = id => InLane(class, id)
    BY <1>2 DEF InLane
  <2>5. Queued(id)' <=> Queued(id)
    BY <1>1, <2>1, <2>2, <2>3, <2>4 DEF Queued
  <2> QED
    BY <1>1, <2>1, <2>5, PhaseKept
<1>4. PhaseMap' = PhaseMap
  BY <1>3 DEF PhaseMap
<1>5. NoticeMap' = NoticeMap
  BY NoticesKept
<1> QED
  BY <1>4, <1>5 DEF Life!lifeVars, PhaseMap, NoticeMap

LEMMA TakeMaps ==
  ASSUME QueueInv, PollClass \/ SelectPending
  PROVE  UNCHANGED Life!lifeVars
<1>1. held = NoJob /\ UNCHANGED <<status, publishing>>
  BY DEF PollClass, SelectPending, WorkerMoves, QueueInv, HeldInv
<1>2. (rrIndex + scan) % 3 \in 0 .. 2
  BY SMT DEF QueueInv, TypeOK, WorkerOK
<1>3. CASE \E class \in Classes : Dequeue(class)
  BY <1>1, <1>3, DequeueMaps
<1>4. CASE ~\E class \in Classes : Dequeue(class)
  <2>1. UNCHANGED <<pending, held>> /\ {wpc, wpc'} \subseteq {"poll", "select", "done"}
    BY <1>2, <1>4, ClassAtType DEF PollClass, SelectPending, WorkerMoves
  <2> QED
    BY <1>1, <2>1, QuietMaps
<1> QED
  BY <1>3, <1>4

\* A step of the worker with its job h changes the phase of h alone.
LEMMA WorkerPhases ==
  ASSUME QueueInv, NEW h \in JobIds, held = h, UNCHANGED <<pending, publishing>>,
         held' \in {h, NoJob}, status'[h] # "absent",
         wpc' # "dequeued", held' = NoJob => wpc' \in {"check", "restart"},
         \A j \in JobIds : j # h => status'[j] = status[j]
  PROVE  /\ PhaseMap' = [PhaseMap EXCEPT ![h] = IF wpc' = "announceRun" THEN "taken"
                                             ELSE IF wpc' = "applying" THEN "applying"
                                             ELSE IF wpc' = "announceEnd" THEN "announcing"
                                             ELSE "over"]
         /\ NoticeMap' = NoticeMap
<1>1. h # NoJob
  BY SMT DEF NoJob, JobIds
<1>2. ~Queued(h)'
  <2>1. ~\E class \in Classes : InLane(class, held)
    BY HeldNotQueued
  <2>2. ~\E class \in Classes : InLane(class, h)'
    BY <2>1 DEF InLane
  <2> QED
    BY <2>2 DEF Queued
<1>3. Phase(h)' = IF wpc' = "announceRun" THEN "taken"
                  ELSE IF wpc' = "applying" THEN "applying"
                  ELSE IF wpc' = "announceEnd" THEN "announcing"
                  ELSE "over"
  BY <1>1, <1>2 DEF Phase
<1>4. ASSUME NEW j \in JobIds, j # h PROVE Phase(j)' = Phase(j)
  <2>1. held # j /\ held' # j
    BY <1>4, SMT DEF NoJob, JobIds
  <2>2. Queued(j)' <=> Queued(j)
    BY <2>1 DEF Queued, InLane
  <2> QED
    BY <1>4, <2>1, <2>2, PhaseKept
<1>5. NoticeMap' = NoticeMap
  BY NoticesKept
<1> QED
  BY <1>3, <1>4, <1>5, PhaseChanged

LEMMA RunMaps ==
  ASSUME QueueInv,
         \/ BeginJob \/ StartApply \/ AnnounceEnd
         \/ \E o \in {"succeeded", "failed"} : FinishJob(o)
  PROVE  Life!Next
<1>1. PICK h \in JobIds : h = held
  BY DEF BeginJob, StartApply, AnnounceEnd, FinishJob, QueueInv, HeldInv, TypeOK, WorkerOK
<1>2. UNCHANGED <<pending, publishing>> /\ held' \in {h, NoJob}
  BY <1>1 DEF BeginJob, StartApply, AnnounceEnd, FinishJob, WorkerMoves, JobProcessed
<1>3. held' = NoJob => wpc' \in {"check", "restart"}
  BY <1>1, SMT DEF BeginJob, StartApply, AnnounceEnd, FinishJob, WorkerMoves, JobProcessed, NoJob, JobIds
<1>4. \A j \in JobIds : j # h => status'[j] = status[j]
  BY <1>1 DEF BeginJob, StartApply, AnnounceEnd, FinishJob, QueueInv, TypeOK, TableOK
<1>5. status[h] # "absent" /\ status'[h] # "absent" /\ wpc' # "dequeued"
  BY <1>1 DEF BeginJob, StartApply, AnnounceEnd, FinishJob, WorkerMoves, JobProcessed, QueueInv,
     HeldInv, Waiting, Underway, TypeOK, TableOK
<1>6. /\ PhaseMap' = [PhaseMap EXCEPT ![h] = IF wpc' = "announceRun" THEN "taken"
                                             ELSE IF wpc' = "applying" THEN "applying"
                                             ELSE IF wpc' = "announceEnd" THEN "announcing"
                                             ELSE "over"]
      /\ NoticeMap' = NoticeMap
  BY <1>1, <1>2, <1>3, <1>4, <1>5, WorkerPhases
<1>7. /\ PhaseMap[h] = Phase(held)
      /\ status = [status EXCEPT ![h] = status[h]]
  BY <1>1 DEF PhaseMap, QueueInv, TypeOK, TableOK
<1>8. CASE BeginJob
  <2>1. PhaseMap[h] = "queued" /\ status[h] \in Waiting
    BY <1>1, <1>7, <1>8, PhaseHeld DEF BeginJob, QueueInv, HeldInv
  <2>2. ~Life!WorkerBusy
    BY <1>8, WorkerFree DEF BeginJob, Life!WorkerBusy
  <2>3. CASE MayRun(held)
    <3>1. /\ status' = [status EXCEPT ![h] = "running"] /\ wpc' = "announceRun"
          /\ status[h] \in {"pending", "failed"}
      BY <1>1, <1>8, <2>1, <2>3 DEF BeginJob, MayRun, WorkerMoves, Waiting
    <3>2. Life!Start(h)
      BY <1>6, <2>1, <2>2, <3>1 DEF Life!Start, Life!Changes, PhaseMap, NoticeMap
    <3> QED
      BY <3>2 DEF Life!Next, Life!Work
  <2>4. CASE ~MayRun(held)
    <3>1. status' = status /\ status[h] = "canceled" /\ wpc' \in {"check", "restart"}
      BY <1>1, <1>8, <2>1, <2>4 DEF BeginJob, MayRun, JobProcessed, Waiting
    <3>2. Life!Drop(h)
      BY <1>6, <1>7, <2>1, <2>2, <3>1 DEF Life!Drop, Life!Changes, PhaseMap, NoticeMap
    <3> QED
      BY <3>2 DEF Life!Next, Life!Work
  <2> QED
    BY <2>3, <2>4
<1>9. CASE StartApply
  <2>1. PhaseMap[h] = "taken" /\ status' = status /\ wpc' = "applying"
    BY <1>7, <1>9, PhaseHeld DEF StartApply
  <2>2. Life!Apply(h)
    BY <1>6, <1>7, <2>1 DEF Life!Apply, Life!Changes, PhaseMap, NoticeMap
  <2> QED
    BY <2>2 DEF Life!Next, Life!Work
<1>10. CASE AnnounceEnd
  <2>1. PhaseMap[h] = "announcing" /\ status' = status /\ wpc' \in {"check", "restart"}
    BY <1>7, <1>10, PhaseHeld DEF AnnounceEnd, JobProcessed
  <2>2. Life!Announce(h)
    BY <1>6, <1>7, <2>1 DEF Life!Announce, Life!Changes, PhaseMap, NoticeMap
  <2> QED
    BY <2>2 DEF Life!Next
<1>11. ASSUME NEW o \in {"succeeded", "failed"}, FinishJob(o) PROVE Life!Next
  <2>1. PhaseMap[h] = "applying"
    BY <1>7, <1>11, PhaseHeld DEF FinishJob
  <2>2. CASE status[h] = "canceled"
    <3>1. status' = status /\ wpc' \in {"check", "restart"}
      BY <1>1, <1>11, <2>2 DEF FinishJob, JobProcessed
    <3>2. Life!Finish(h)
      BY <1>6, <1>7, <2>1, <2>2, <3>1 DEF Life!Finish, Life!Changes, PhaseMap, NoticeMap
    <3> QED
      BY <3>2 DEF Life!Next, Life!Work
  <2>3. CASE status[h] # "canceled"
    <3>1. status' = [status EXCEPT ![h] = o] /\ wpc' = "announceEnd"
      BY <1>1, <1>11, <2>3 DEF FinishJob, WorkerMoves
    <3>2. Life!Finish(h)
      BY <1>6, <2>1, <2>3, <3>1 DEF Life!Finish, Life!Changes, PhaseMap, NoticeMap
    <3> QED
      BY <3>2 DEF Life!Next, Life!Work
  <2> QED
    BY <2>2, <2>3
<1> QED
  BY <1>8, <1>9, <1>10, <1>11

LEMMA StepMaps == QueueInv /\ [Next]_vars => [Life!Next]_Life!lifeVars
<1> SUFFICES ASSUME QueueInv, [Next]_vars PROVE [Life!Next]_Life!lifeVars
  OBVIOUS
<1>1. ASSUME NEW c \in Clients, Call(c) PROVE [Life!Next]_Life!lifeVars
  <2>1. CASE SafeDrain(c) \/ DrainReturn(c)
    BY <2>1, QuietMaps DEF SafeDrain, DrainReturn
  <2>2. CASE \E id \in JobIds : Cancel(c, id) \/ FailJob(c, id) \/ RecoverStuckJobs(c, id)
    <3>1. PICK id \in JobIds : Cancel(c, id) \/ FailJob(c, id) \/ RecoverStuckJobs(c, id)
      BY <2>2
    <3>2. Life!Cancel(id) \/ Life!Fail(id)
      BY <3>1, CallMaps
    <3> QED
      BY <3>2 DEF Life!Next
  <2> QED
    BY <1>1, <2>1, <2>2, EnqueueMaps, AnnounceMaps DEF Call, Submit
<1>2. CASE Control
  BY <1>2, QuietMaps DEF Control, SetEmergencyStop, SetFreeze, SetPaused,
     SetWorkerLifecyclePolicy, Shutdown
<1>3. CASE Worker
  <2>1. CASE StartWorker \/ CheckPaused \/ Restart
    BY <2>1, QuietMaps DEF StartWorker, CheckPaused, Restart, WorkerMoves
  <2> QED
    BY <1>3, <2>1, TakeMaps, RunMaps DEF Worker
<1>4. CASE UNCHANGED vars
  BY <1>4, QuietMaps
<1> QED
  BY <1>1, <1>2, <1>3, <1>4 DEF Next, Idle

\* With any number of callers, jobs and channel slots, every behaviour of the
\* queue is a life of its jobs as JobLifecycle describes it.
THEOREM LivesImplemented == Spec => ImplementsLifecycle
  BY InitMaps, StepMaps, Invariance, PTL DEF Spec, ImplementsLifecycle, Life!Spec

=============================================================================
