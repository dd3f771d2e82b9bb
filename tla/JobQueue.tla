------------------------------ MODULE JobQueue ------------------------------
(***************************************************************************)
(* The job queue of the control plane (internal/control/queue.go).         *)
(*                                                                         *)
(* Jobs are submitted, cancelled and failed by concurrent API calls, which *)
(* take q.mu for their critical section and call the subscribers after     *)
(* unlocking it.  One worker goroutine takes job ids from three bounded    *)
(* channels, one for each priority class, and applies them.                *)
(*                                                                         *)
(* A client stands for a goroutine that serves an API call: between its    *)
(* critical section and the end of publish() it holds the notification it  *)
(* is about to deliver, so notifications of different goroutines overtake  *)
(* one another as they do in the program.                                  *)
(***************************************************************************)
EXTENDS Integers, Sequences, FiniteSets, TLC

CONSTANTS
  MaxJobs,       \* bound on nextID: how many jobs a behaviour creates
  Keys,          \* idempotency keys the callers use
  Priorities,    \* the priority classes the callers use
  Clients,       \* goroutines that serve API calls
  Capacity,      \* the buffer given to NewQueue, the size of each channel
  PolicyInputs,  \* what callers pass to SetWorkerLifecyclePolicy
  Ops            \* the API operations callers use, a subset of AllOps

ASSUME MaxJobsAssumption == MaxJobs \in Nat
ASSUME CapacityAssumption == Capacity \in Nat \ {0}
ASSUME ClientsAssumption == IsFiniteSet(Clients)
ASSUME PolicyAssumption ==
  PolicyInputs \subseteq [mode : STRING, maxJobs : Int, restartDelay : Int]

AllOps == {"cancel", "fail", "recover", "emergency", "freeze", "pause", "drain",
           "policy", "shutdown"}
ASSUME OpsAssumption == Ops \subseteq AllOps
ASSUME PrioritiesAssumption == Priorities \subseteq {"high", "normal", "low"}

JobIds == 1 .. MaxJobs
NoJob == 0
NoKey == "no key"
ASSUME KeysAssumption == NoKey \notin Keys

Classes == {"high", "normal", "low"}
ClassAt(i) == CASE i = 0 -> "high" [] i = 1 -> "normal" [] i = 2 -> "low"

Statuses == {"pending", "running", "succeeded", "failed", "canceled"}

Notification == [job : JobIds, status : Statuses]
Silent == [job |-> NoJob, status |-> "absent"]

VARIABLES
  nextID,         \* ids given out so far
  status, priority, keyOf,  \* q.jobs, by field; an id not in the map is "absent"
  byIdempotency,  \* q.byIdempotency, NoJob where the map has no entry
  pending,        \* the three channels
  emergencyStop, frozen, paused,
  running,        \* the counter q.running
  rrIndex,        \* the rotating start index of nextPending
  workerPolicy,   \* [maxJobs, restartDelay] as normalised
  generation, recycles,
  shutdown,       \* the worker's context is done
  wpc,            \* where the worker goroutine is
  held,           \* the id the worker has dequeued, or NoJob
  scan,           \* how many classes the current poll has tried
  processed,      \* jobs handled in this worker generation
  genPolicy,      \* the policy this generation was started with
  applied,        \* how often ApplyPath was called for each job
  publishing,     \* the notification each client has still to deliver
  drain           \* SafeDrain calls: idle, waiting, drained or timeout

controlVars == <<emergencyStop, frozen, paused, workerPolicy>>
tableVars == <<nextID, byIdempotency, priority, keyOf>>
workerVars == <<rrIndex, generation, recycles, wpc, held, scan, processed,
                genPolicy, applied>>
vars == <<tableVars, status, pending, controlVars, running, shutdown,
          workerVars, publishing, drain>>

WorkerStates == {"start", "check", "poll", "select", "dequeued", "announceRun",
                 "applying", "announceEnd", "restart", "done"}

-----------------------------------------------------------------------------
(* Policies and counters *)

\* NewQueue's initial policy: persistent, no job limit, no restart delay.
DefaultPolicy == [maxJobs |-> 0, restartDelay |-> 0]

\* SetWorkerLifecyclePolicy's normalisation; the mode only decides whether a
\* missing limit means one job (stateless) or none (persistent).
NormalizePolicy(in) ==
  [maxJobs |-> IF in.maxJobs > 0 THEN in.maxJobs
               ELSE IF in.mode = "stateless" THEN 1 ELSE 0,
   restartDelay |-> IF in.restartDelay < 0 THEN 0 ELSE in.restartDelay]

\* Mutant: the decrement without its guard.
OneLessUnguarded(n) == n - 1

\* Mutant: the decrement is forgotten.
OneLessForgotten(n) == n

\* The decrement every path uses: if q.running > 0 { q.running-- }.
OneLess(n) == IF n > 0 THEN n - 1 ELSE n

-----------------------------------------------------------------------------
(* Initial state: NewQueue, with StartWorker called before any request *)

Init ==
  /\ nextID = 0
  /\ status = [id \in JobIds |-> "absent"]
  /\ priority = [id \in JobIds |-> "normal"] /\ keyOf = [id \in JobIds |-> NoKey]
  /\ byIdempotency = [k \in Keys |-> NoJob]
  /\ pending = [p \in Classes |-> <<>>]
  /\ emergencyStop = FALSE /\ frozen = FALSE /\ paused = FALSE
  /\ running = 0 /\ rrIndex = 0
  /\ workerPolicy = DefaultPolicy /\ genPolicy = DefaultPolicy
  /\ generation = 0 /\ recycles = 0
  /\ shutdown = FALSE
  /\ wpc = "start" /\ held = NoJob /\ scan = 0 /\ processed = 0
  /\ applied = [id \in JobIds |-> 0]
  /\ publishing = [c \in Clients |-> Silent]
  /\ drain = [c \in Clients |-> "idle"]

-----------------------------------------------------------------------------
(* API calls: each critical section is one step *)

Free(c) == publishing[c] = Silent /\ drain[c] # "waiting"

\* The notification publish() delivers once the lock is released.
Publish(c, id, s) ==
  publishing' = [publishing EXCEPT ![c] = [job |-> id, status |-> s]]

\* Enqueue reaches the creation of a job: the key is new, and neither the
\* emergency stop nor a freeze refuses the request.
Admitted(key, force) ==
  /\ key \in Keys => byIdempotency[key] = NoJob
  /\ force \/ (~emergencyStop /\ ~frozen)

\* Mutant: the job's entry is left in q.jobs when its channel is full.
RollbackKeepsJob(id, key) ==
  /\ status' = [status EXCEPT ![id] = "pending"]
  /\ UNCHANGED <<priority, keyOf, byIdempotency>>

\* Mutant: the key's entry is left in q.byIdempotency when the channel is full.
RollbackKeepsKey(id, key) ==
  /\ byIdempotency' = [k \in Keys |-> IF k = key THEN id ELSE byIdempotency[k]]
  /\ UNCHANGED <<status, priority, keyOf>>

\* pushPending found the channel full: the entries made for the id are
\* deleted again.
Rollback(id, key) == UNCHANGED <<status, priority, keyOf, byIdempotency>>

\* Mutant: the channel is used as a stack.
SendOnTop(class, id) == pending' = [pending EXCEPT ![class] = <<id>> \o @]

\* The successful send of pushPending.
Send(class, id) == pending' = [pending EXCEPT ![class] = Append(@, id)]

\* Enqueue.  The id is consumed even when the channel is full.
Enqueue(c, key, force, class) ==
  LET id == nextID + 1 IN
  /\ Free(c)
  /\ Admitted(key, force)
  /\ nextID < MaxJobs
  /\ nextID' = id
  /\ \/ /\ Len(pending[class]) < Capacity
        /\ status' = [status EXCEPT ![id] = "pending"]
        /\ priority' = [priority EXCEPT ![id] = class]
        /\ keyOf' = [keyOf EXCEPT ![id] = key]
        /\ byIdempotency' = [k \in Keys |-> IF k = key THEN id ELSE byIdempotency[k]]
        /\ Send(class, id)
        /\ Publish(c, id, "pending")
     \/ /\ Len(pending[class]) = Capacity
        /\ Rollback(id, key)
        /\ UNCHANGED <<pending, publishing>>
  /\ UNCHANGED <<controlVars, running, shutdown, workerVars, drain>>

\* Mutant: Cancel without the check that the job has not finished.
CancelFinished(c, id) ==
  /\ Free(c)
  /\ status[id] # "absent"
  /\ status' = [status EXCEPT ![id] = "canceled"]
  /\ Publish(c, id, "canceled")
  /\ UNCHANGED <<tableVars, pending, controlVars, running, shutdown, workerVars, drain>>

\* Mutant: Cancel takes the job out of the running counter, as FailJob does.
CancelUncounts(c, id) ==
  /\ Free(c)
  /\ status[id] \in {"pending", "running", "canceled"}
  /\ status' = [status EXCEPT ![id] = "canceled"]
  /\ running' = OneLess(running)
  /\ Publish(c, id, "canceled")
  /\ UNCHANGED <<tableVars, pending, controlVars, shutdown, workerVars, drain>>

\* Cancel: refused for a succeeded or failed job.  The id stays in its channel
\* and a running job keeps its place in the running counter.
Cancel(c, id) ==
  /\ Free(c)
  /\ status[id] \in {"pending", "running", "canceled"}
  /\ status' = [status EXCEPT ![id] = "canceled"]
  /\ Publish(c, id, "canceled")
  /\ UNCHANGED <<tableVars, pending, controlVars, running, shutdown, workerVars, drain>>

\* FailJob: a no-op for a succeeded or failed job.  The running counter is
\* decremented whatever the job's status was.
FailJob(c, id) ==
  /\ Free(c)
  /\ status[id] \in {"pending", "running", "canceled"}
  /\ status' = [status EXCEPT ![id] = "failed"]
  /\ running' = OneLess(running)
  /\ Publish(c, id, "failed")
  /\ UNCHANGED <<tableVars, pending, controlVars, shutdown, workerVars, drain>>

\* RecoverStuckJobs: a job that has been running for longer than maxAge is
\* failed.  Only the worker's job can be running, so one job at most is
\* recovered; its age is the environment's choice.  The client stands for
\* the goroutine the code starts to publish.
RecoverStuckJobs(c, id) ==
  /\ Free(c)
  /\ status[id] = "running"
  /\ status' = [status EXCEPT ![id] = "failed"]
  /\ running' = OneLess(running)
  /\ Publish(c, id, "failed")
  /\ UNCHANGED <<tableVars, pending, controlVars, shutdown, workerVars, drain>>

\* publish() has called every subscriber and the API call returns.
Announce(c) ==
  /\ publishing[c] # Silent
  /\ publishing' = [publishing EXCEPT ![c] = Silent]
  /\ UNCHANGED <<tableVars, status, pending, controlVars, running, shutdown, workerVars, drain>>

SetEmergencyStop(active) ==
  /\ emergencyStop' = active
  /\ UNCHANGED <<tableVars, status, pending, frozen, paused, workerPolicy, running,
                 shutdown, workerVars, publishing, drain>>

\* SetFreezeUntil, ClearFreeze, and the passing of freezeUntil.
SetFreeze(active) ==
  /\ frozen' = active
  /\ UNCHANGED <<tableVars, status, pending, emergencyStop, paused, workerPolicy, running,
                 shutdown, workerVars, publishing, drain>>

SetPaused(p) ==
  /\ paused' = p
  /\ UNCHANGED <<tableVars, status, pending, emergencyStop, frozen, workerPolicy, running,
                 shutdown, workerVars, publishing, drain>>

SetWorkerLifecyclePolicy(in) ==
  /\ workerPolicy' = NormalizePolicy(in)
  /\ UNCHANGED <<tableVars, status, pending, emergencyStop, frozen, paused, running,
                 shutdown, workerVars, publishing, drain>>

\* SafeDrain pauses the queue, then polls the running counter.
SafeDrain(c) ==
  /\ Free(c)
  /\ paused' = TRUE
  /\ drain' = [drain EXCEPT ![c] = "waiting"]
  /\ UNCHANGED <<tableVars, status, pending, emergencyStop, frozen, workerPolicy, running,
                 shutdown, workerVars, publishing>>

DrainReturn(c) ==
  /\ drain[c] = "waiting"
  /\ drain' = [drain EXCEPT ![c] = IF running = 0 THEN "drained" ELSE "timeout"]
  /\ UNCHANGED <<tableVars, status, pending, controlVars, running, shutdown, workerVars, publishing>>

\* Server.Shutdown cancels the context the worker was started with.
Shutdown ==
  /\ shutdown' = TRUE
  /\ UNCHANGED <<tableVars, status, pending, controlVars, running, workerVars, publishing, drain>>

-----------------------------------------------------------------------------
(* The worker goroutine *)

\* StartWorker's goroutine sets the generation, then takes the policy in force.
StartWorker ==
  /\ wpc = "start"
  /\ wpc' = "check"
  /\ generation' = 1
  /\ genPolicy' = workerPolicy
  /\ UNCHANGED <<tableVars, status, pending, controlVars, running, shutdown, rrIndex,
                 recycles, held, scan, processed, applied, publishing, drain>>

WorkerMoves(to) == wpc' = to /\ UNCHANGED <<rrIndex, generation, recycles, held, scan, processed, genPolicy, applied>>

\* Mutant: a paused worker does not look at its context.
CheckPausedOnly ==
  /\ wpc = "check" /\ ~paused
  /\ wpc' = "poll" /\ scan' = 0
  /\ UNCHANGED <<rrIndex, generation, recycles, held, processed, genPolicy, applied>>
  /\ UNCHANGED <<tableVars, status, pending, controlVars, running, shutdown, publishing, drain>>

\* The top of runWorkerGeneration's loop.  A paused worker looks again every
\* 100ms, or leaves when the context is done.
CheckPaused ==
  /\ wpc = "check"
  /\ \/ /\ ~paused
        /\ wpc' = "poll" /\ scan' = 0
        /\ UNCHANGED <<rrIndex, generation, recycles, held, processed, genPolicy, applied>>
     \/ paused /\ shutdown /\ WorkerMoves("done")
  /\ UNCHANGED <<tableVars, status, pending, controlVars, running, shutdown, publishing, drain>>

\* Mutant: the id is read but stays in the channel.
DequeuePeek(class) ==
  /\ pending[class] # <<>>
  /\ held' = Head(pending[class])
  /\ pending' = pending
  /\ wpc' = "dequeued"

Dequeue(class) ==
  /\ pending[class] # <<>>
  /\ held' = Head(pending[class])
  /\ pending' = [pending EXCEPT ![class] = Tail(@)]
  /\ wpc' = "dequeued"

\* Mutant: every poll starts with the high class.
PollFixedOrder ==
  /\ wpc = "poll"
  /\ \/ Dequeue(ClassAt(scan)) /\ UNCHANGED <<rrIndex, scan>>
     \/ /\ pending[ClassAt(scan)] = <<>>
        /\ scan' = (scan + 1) % 3
        /\ wpc' = IF scan = 2 THEN "select" ELSE "poll"
        /\ UNCHANGED <<pending, held, rrIndex>>
  /\ UNCHANGED <<tableVars, status, controlVars, running, shutdown, generation, recycles,
                 processed, genPolicy, applied, publishing, drain>>

\* nextPending's first loop: one non-blocking receive for each class, from
\* rrIndex on.  Another goroutine may fill a channel that was found empty.
PollClass ==
  LET idx == (rrIndex + scan) % 3 IN
  /\ wpc = "poll"
  /\ \/ /\ Dequeue(ClassAt(idx))
        /\ rrIndex' = (idx + 1) % 3
        /\ scan' = scan
     \/ /\ pending[ClassAt(idx)] = <<>>
        /\ scan' = (scan + 1) % 3
        /\ wpc' = IF scan = 2 THEN "select" ELSE "poll"
        /\ UNCHANGED <<pending, held, rrIndex>>
  /\ UNCHANGED <<tableVars, status, controlVars, running, shutdown, generation, recycles,
                 processed, genPolicy, applied, publishing, drain>>

\* Mutant: the blocking select forgets the low class.
SelectWithoutLow ==
  /\ wpc = "select"
  /\ \/ \E class \in {"high", "normal"} :
          Dequeue(class) /\ UNCHANGED <<rrIndex, generation, recycles, scan, processed, genPolicy, applied>>
     \/ shutdown /\ WorkerMoves("done") /\ UNCHANGED pending
  /\ UNCHANGED <<tableVars, status, controlVars, running, shutdown, publishing, drain>>

\* nextPending's blocking select, which does not look at the paused flag and
\* does not move rrIndex.
SelectPending ==
  /\ wpc = "select"
  /\ \/ \E class \in Classes : Dequeue(class) /\ UNCHANGED <<rrIndex, generation, recycles, scan, processed, genPolicy, applied>>
     \/ shutdown /\ WorkerMoves("done") /\ UNCHANGED pending
  /\ UNCHANGED <<tableVars, status, controlVars, running, shutdown, publishing, drain>>

\* Mutant: the paused flag is looked at only when a generation starts.
JobProcessedKeepsPolling ==
  /\ held' = NoJob /\ wpc' = "poll" /\ scan' = 0 /\ processed' = processed + 1
  /\ UNCHANGED <<rrIndex, generation, recycles, genPolicy, applied>>

\* Mutant: the limit is compared with > instead of >=.
JobProcessedOneMore ==
  /\ held' = NoJob
  /\ LET ended == genPolicy.maxJobs > 0 /\ processed + 1 > genPolicy.maxJobs IN
     IF ended
     THEN /\ wpc' = "restart" /\ processed' = 0
          /\ recycles' = recycles + 1 /\ generation' = generation + 1
     ELSE /\ wpc' = "check" /\ processed' = processed + 1
          /\ UNCHANGED <<recycles, generation>>
  /\ UNCHANGED <<rrIndex, scan, genPolicy, applied>>

\* runOne has returned: the job counts as processed, and the generation ends
\* when its policy says so.
JobProcessed ==
  /\ held' = NoJob
  /\ LET ended == genPolicy.maxJobs > 0 /\ processed + 1 >= genPolicy.maxJobs IN
     IF ended
     THEN /\ wpc' = "restart" /\ processed' = 0
          /\ recycles' = recycles + 1 /\ generation' = generation + 1
     ELSE /\ wpc' = "check" /\ processed' = processed + 1
          /\ UNCHANGED <<recycles, generation>>
  /\ UNCHANGED <<rrIndex, scan, genPolicy, applied>>

\* Mutant: runOne does not look at the status.
MayRunAny(id) == status[id] # "absent"

\* runOne refuses a job only when it is gone or canceled.
MayRun(id) == status[id] \notin {"absent", "canceled"}

\* The first critical section of runOne.
BeginJob ==
  /\ wpc = "dequeued"
  /\ \/ /\ MayRun(held)
        /\ status' = [status EXCEPT ![held] = "running"]
        /\ running' = running + 1
        /\ WorkerMoves("announceRun")
     \/ ~MayRun(held) /\ JobProcessed /\ UNCHANGED <<status, running>>
  /\ UNCHANGED <<tableVars, pending, controlVars, shutdown, publishing, drain>>

\* publish(running), then the call of ApplyPath.
StartApply ==
  /\ wpc = "announceRun"
  /\ wpc' = "applying"
  /\ applied' = [applied EXCEPT ![held] = @ + 1]
  /\ UNCHANGED <<tableVars, status, pending, controlVars, running, shutdown, rrIndex, generation,
                 recycles, held, scan, processed, genPolicy, publishing, drain>>

\* ApplyPath has returned and runOne takes its second critical section.
FinishJob(outcome) ==
  /\ wpc = "applying"
  /\ running' = OneLess(running)
  /\ \/ status[held] = "canceled" /\ JobProcessed /\ UNCHANGED status
     \/ /\ status[held] # "canceled"
        /\ status' = [status EXCEPT ![held] = outcome]
        /\ WorkerMoves("announceEnd")
  /\ UNCHANGED <<tableVars, pending, controlVars, shutdown, publishing, drain>>

\* publish of the final status, the end of runOne.
AnnounceEnd ==
  /\ wpc = "announceEnd"
  /\ JobProcessed
  /\ UNCHANGED <<tableVars, status, pending, controlVars, running, shutdown, publishing, drain>>

\* Between two generations: the restart delay, cut short by the context, and
\* the next generation's reading of the policy.
Restart ==
  /\ wpc = "restart"
  /\ \/ /\ wpc' = "check" /\ genPolicy' = workerPolicy
        /\ UNCHANGED <<rrIndex, generation, recycles, held, scan, processed, applied>>
     \/ genPolicy.restartDelay > 0 /\ shutdown /\ WorkerMoves("done")
  /\ UNCHANGED <<tableVars, status, pending, controlVars, running, shutdown, publishing, drain>>

-----------------------------------------------------------------------------
(* The specification *)

Worker ==
  \/ StartWorker \/ CheckPaused \/ PollClass \/ SelectPending \/ BeginJob
  \/ StartApply \/ (\E o \in {"succeeded", "failed"} : FinishJob(o))
  \/ AnnounceEnd \/ Restart

Submit(c) ==
  \E key \in Keys \cup {NoKey}, force \in BOOLEAN, class \in Priorities :
    Enqueue(c, key, force, class)

Call(c) ==
  \/ Submit(c)
  \/ "cancel" \in Ops /\ \E id \in JobIds : Cancel(c, id)
  \/ "fail" \in Ops /\ \E id \in JobIds : FailJob(c, id)
  \/ "recover" \in Ops /\ \E id \in JobIds : RecoverStuckJobs(c, id)
  \/ Announce(c)
  \/ "drain" \in Ops /\ SafeDrain(c)
  \/ DrainReturn(c)

Control ==
  \/ "emergency" \in Ops /\ \E b \in BOOLEAN : SetEmergencyStop(b)
  \/ "freeze" \in Ops /\ \E b \in BOOLEAN : SetFreeze(b)
  \/ "pause" \in Ops /\ \E b \in BOOLEAN : SetPaused(b)
  \/ "policy" \in Ops /\ \E in \in PolicyInputs : SetWorkerLifecyclePolicy(in)
  \/ "shutdown" \in Ops /\ Shutdown

\* Nothing left to do: no call is in progress, and the worker has ended, waits
\* for a Resume or waits for a job.
Idle ==
  /\ \A c \in Clients : Free(c)
  /\ \/ wpc = "done"
     \/ wpc = "check" /\ paused
     \/ wpc = "select" /\ \A class \in Classes : pending[class] = <<>>
  /\ UNCHANGED vars

Next == Worker \/ (\E c \in Clients : Call(c)) \/ Control \/ Idle

\* A goroutine that can proceed is scheduled eventually, and ApplyPath returns
\* (the executor bounds every step by stepTimeout).  Callers call when they like.
Fairness ==
  /\ WF_vars(Worker)
  /\ \A c \in Clients : WF_vars(Announce(c)) /\ WF_vars(DrainReturn(c))

Spec == Init /\ [][Next]_vars
FairSpec == Spec /\ Fairness

-----------------------------------------------------------------------------
(* Properties *)

TableOK ==
  /\ nextID \in 0 .. MaxJobs
  /\ status \in [JobIds -> Statuses \cup {"absent"}]
  /\ priority \in [JobIds -> Classes]
  /\ keyOf \in [JobIds -> Keys \cup {NoKey}]
  /\ byIdempotency \in [Keys -> JobIds \cup {NoJob}]
  /\ pending \in [Classes -> Seq(JobIds)]

ControlOK ==
  /\ emergencyStop \in BOOLEAN /\ frozen \in BOOLEAN /\ paused \in BOOLEAN
  /\ shutdown \in BOOLEAN
  /\ workerPolicy \in [maxJobs : Nat, restartDelay : Nat]
  /\ genPolicy \in [maxJobs : Nat, restartDelay : Nat]

WorkerOK ==
  /\ running \in Nat
  /\ rrIndex \in 0 .. 2 /\ scan \in 0 .. 2
  /\ generation \in Nat /\ recycles \in Nat /\ processed \in Nat
  /\ wpc \in WorkerStates
  /\ held \in JobIds \cup {NoJob}
  /\ applied \in [JobIds -> Nat]

CallsOK ==
  /\ publishing \in [Clients -> Notification \cup {Silent}]
  /\ drain \in [Clients -> {"idle", "waiting", "drained", "timeout"}]

\* The type of every variable.
TypeOK == TableOK /\ ControlOK /\ WorkerOK /\ CallsOK

Applying == wpc \in {"announceRun", "applying"}

InLane(class, id) == \E i \in 1 .. Len(pending[class]) : pending[class][i] = id

\* ApplyPath is called at most once for a job, whatever mix of cancels,
\* operator failures, stuck-job recoveries and worker restarts it meets.
AtMostOnce == \A id \in JobIds : applied[id] <= 1

\* No submitted job is forgotten: a pending job is in the channel of its
\* priority class, or in the worker's hands on its way to runOne.  A failed
\* pushPending must leave nothing behind for this to hold.
NoLostJob ==
  \A id \in JobIds : status[id] = "pending" =>
    \/ InLane(priority[id], id)
    \/ held = id /\ wpc = "dequeued"

\* The running counter never counts a job the worker is not applying, so no
\* SafeDrain waits for a job that has already ended.
NoGhostRunning == running <= IF Applying THEN 1 ELSE 0

\* An idempotency key names an existing job, and no other job has that key:
\* Enqueue would hand its caller a nil job for a key without one.
OneJobPerKey ==
  \A k \in Keys :
    /\ byIdempotency[k] # NoJob =>
         keyOf[byIdempotency[k]] = k /\ status[byIdempotency[k]] # "absent"
    /\ \A id \in JobIds : keyOf[id] = k => byIdempotency[k] = id

\* Within a priority class jobs are taken in the order of their submission.
ClassFIFO ==
  \A class \in Classes : \A i \in DOMAIN pending[class] :
    /\ priority[pending[class][i]] = class
    /\ i > 1 => pending[class][i - 1] < pending[class][i]
    /\ held # NoJob /\ priority[held] = class => held < pending[class][i]

\* A job that has succeeded keeps that status for good.
SucceededIsFinal ==
  [][\A id \in JobIds : status[id] = "succeeded" => status'[id] = "succeeded"]_vars

\* A worker generation handles no more jobs than the policy it started with
\* allows, also when the policy is changed while it runs.
GenerationBounded ==
  /\ genPolicy.maxJobs > 0 => processed < genPolicy.maxJobs
  /\ wpc # "start" => generation = recycles + 1

\* SafeDrain reports success only when no job is being applied: the text of
\* its timeout error says it is "waiting for running jobs to complete".
DrainMeansIdle ==
  [][\A c \in Clients : drain[c] = "waiting" /\ drain'[c] = "drained" => ~Applying]_vars

\* While the queue is not paused for good and the server is up, every
\* pending job gets out of pending.
PendingServed ==
  (<>[]~paused /\ []~shutdown) =>
    \A id \in JobIds : status[id] = "pending" ~> status[id] # "pending"

\* Once the server's context is done the worker goroutine ends, so that the
\* Wait of Server.Shutdown returns, also when the queue is paused.
ShutdownEnds == shutdown ~> wpc = "done"

-----------------------------------------------------------------------------
(* The inductive invariant behind AtMostOnce, NoLostJob and NoGhostRunning *)

Waiting == {"pending", "canceled", "failed"}   \* of an id not yet started
Underway == {"running", "canceled", "failed"}  \* of an id being applied

\* An id in a channel has the class of the channel and was never started.
LaneInv ==
  \A class \in Classes : \A i \in 1 .. Len(pending[class]) :
    /\ priority[pending[class][i]] = class
    /\ status[pending[class][i]] \in Waiting
    /\ applied[pending[class][i]] = 0
    /\ pending[class][i] # held

LaneOrder ==
  \A class \in Classes : \A i, j \in 1 .. Len(pending[class]) :
    i < j => pending[class][i] < pending[class][j]

\* Ids are given out in order and an unknown id has not been applied.
FreshInv ==
  \A id \in JobIds :
    /\ id > nextID => status[id] = "absent"
    /\ status[id] = "absent" => applied[id] = 0

\* What the worker has done with the id it holds follows from where it is.
HeldInv ==
  /\ held # NoJob <=> wpc \in {"dequeued", "announceRun", "applying", "announceEnd"}
  /\ wpc = "dequeued" => status[held] \in Waiting /\ applied[held] = 0
  /\ wpc = "announceRun" => status[held] \in Underway /\ applied[held] = 0
  /\ wpc = "applying" => status[held] \in Underway /\ applied[held] = 1
  /\ wpc = "announceEnd" => status[held] \in {"succeeded", "failed"} /\ applied[held] = 1

\* Only the job in the worker's hands is running.
RunningInv == \A id \in JobIds : status[id] = "running" => held = id /\ Applying

QueueInv ==
  /\ TypeOK /\ LaneInv /\ LaneOrder /\ FreshInv /\ HeldInv /\ RunningInv
  /\ NoGhostRunning /\ AtMostOnce /\ NoLostJob

-----------------------------------------------------------------------------
(* Refinement: the queue implements the life of a job *)

Queued(id) == (\E class \in Classes : InLane(class, id)) \/ (held = id /\ wpc = "dequeued")

Phase(id) ==
  IF status[id] = "absent" THEN "none"
  ELSE IF Queued(id) THEN "queued"
  ELSE IF held = id /\ wpc = "announceRun" THEN "taken"
  ELSE IF held = id /\ wpc = "applying" THEN "applying"
  ELSE IF held = id /\ wpc = "announceEnd" THEN "announcing"
  ELSE "over"

\* The notifications that callers still have to deliver.
Undelivered(id, s) ==
  Cardinality({c \in Clients : publishing[c] = [job |-> id, status |-> s]})

Life == INSTANCE JobLifecycle WITH
          status <- status,
          phase <- [id \in JobIds |-> Phase(id)],
          notices <- [id \in JobIds |-> [s \in {"failed", "canceled"} |-> Undelivered(id, s)]]

\* The queue, with its channels, worker and concurrent callers, lets a job
\* live only as JobLifecycle describes.
ImplementsLifecycle == Life!Spec

-----------------------------------------------------------------------------
(* Small instances *)

\* One persistent policy and one stateless policy with a restart delay; the
\* unnormalised values exercise every branch of the normalisation.
MCPolicyInputs ==
  {[mode |-> "stateless", maxJobs |-> 0, restartDelay |-> 1],
   [mode |-> "persistent", maxJobs |-> -1, restartDelay |-> -1]}

MCSymmetry == Permutations(Clients)
=============================================================================
