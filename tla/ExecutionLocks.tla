--------------------------- MODULE ExecutionLocks ---------------------------
(***************************************************************************)
(* Execution locks (internal/control/execution_locks.go) composed with the *)
(* jobs they protect: the request handler that acquires a lock, enqueues a *)
(* job and binds the lock to it (internal/server/execution_locks.go), and  *)
(* the queue subscriber that releases the lock when the job ends.          *)
(*                                                                         *)
(* Each call of the store is one critical section and one step; a client   *)
(* is a goroutine between the calls of enqueueJobWithOptionalLock.  A lock *)
(* lapses when the clock passes its ExpiresAt, at any time after it was    *)
(* acquired, as each caller chooses its own TTL.                           *)
(***************************************************************************)
EXTENDS Naturals, FiniteSets

CONSTANTS
  JobIds, Keys, Clients,
  MaxLocks,    \* bound on nextID: how many locks a behaviour acquires
  MaxNotices,  \* bound on the undelivered notifications of operator calls
  Ops          \* what happens besides requests and the worker

LockIds == 1 .. MaxLocks
NoJob == "no job"
NoKey == "no key"
NoLock == [id |-> 0, job |-> NoJob, status |-> "released", lapsed |-> FALSE]
NoRequest == [at |-> "idle", key |-> NoKey, job |-> NoJob]

VARIABLES
  status, phase, notices,  \* the jobs: JobLifecycle
  nextID, byKey, byJob,    \* the store; NoLock and NoKey where a map has no entry
  history,                 \* how often each lock id was appended to s.history
  req,                     \* where each client is in enqueueJobWithOptionalLock
  granted                  \* the keys each job was bound to (history variable)

Jobs == INSTANCE JobLifecycle

jobVars == <<status, phase, notices>>
storeVars == <<nextID, byKey, byJob, history>>
vars == <<jobVars, storeVars, req, granted>>

Init ==
  /\ Jobs!Init
  /\ nextID = 0
  /\ byKey = [k \in Keys |-> NoLock]
  /\ byJob = [j \in JobIds |-> NoKey]
  /\ history = [l \in LockIds |-> 0]
  /\ req = [c \in Clients |-> NoRequest]
  /\ granted = [j \in JobIds |-> {}]

-----------------------------------------------------------------------------
(* The store *)

\* The lock on a key is active and its ExpiresAt has not passed.
Held(k) == byKey[k].status = "active" /\ ~byKey[k].lapsed

Archived(id) == [history EXCEPT ![id] = @ + 1]

\* Mutant: Acquire does not look at the current lock.
AcquireAlways(k) ==
  /\ nextID < MaxLocks
  /\ nextID' = nextID + 1
  /\ byKey' = [byKey EXCEPT ![k] = [id |-> nextID + 1, job |-> NoJob, status |-> "active", lapsed |-> FALSE]]
  /\ history' = IF byKey[k].status = "active" THEN Archived(byKey[k].id) ELSE history
  /\ UNCHANGED byJob

\* Acquire replaces a lapsed lock, whose byJob entry stays.
Acquire(k) ==
  /\ ~Held(k)
  /\ nextID < MaxLocks
  /\ nextID' = nextID + 1
  /\ byKey' = [byKey EXCEPT ![k] = [id |-> nextID + 1, job |-> NoJob, status |-> "active", lapsed |-> FALSE]]
  /\ history' = IF byKey[k].status = "active" THEN Archived(byKey[k].id) ELSE history
  /\ UNCHANGED byJob

\* BindJob, where it succeeds.
BindJob(k, j) ==
  /\ Held(k)
  /\ byKey' = [byKey EXCEPT ![k].job = j]
  /\ byJob' = [byJob EXCEPT ![j] = k]
  /\ granted' = [granted EXCEPT ![j] = @ \cup {k}]
  /\ UNCHANGED <<nextID, history>>

\* BindJob, where it fails: a lapsed lock is marked, archived and left in byKey.
BindRefused(k) ==
  /\ ~Held(k)
  /\ IF byKey[k].status = "active"
     THEN /\ byKey' = [byKey EXCEPT ![k].status = "expired"]
          /\ history' = Archived(byKey[k].id)
     ELSE UNCHANGED <<byKey, history>>
  /\ UNCHANGED <<nextID, byJob, granted>>

\* Mutant: the released lock stays in byKey.
ReleaseForgets(k) ==
  IF k = NoKey \/ byKey[k] = NoLock
  THEN UNCHANGED storeVars
  ELSE /\ byKey' = [byKey EXCEPT ![k].status = "released"]
       /\ byJob' = [j \in JobIds |-> IF j = byKey[k].job THEN NoKey ELSE byJob[j]]
       /\ history' = Archived(byKey[k].id)
       /\ UNCHANGED nextID

\* Release of a key; with no such lock it changes nothing.
Release(k) ==
  IF k = NoKey \/ byKey[k] = NoLock
  THEN UNCHANGED storeVars
  ELSE /\ byKey' = [byKey EXCEPT ![k] = NoLock]
       /\ byJob' = [j \in JobIds |-> IF j = byKey[k].job THEN NoKey ELSE byJob[j]]
       /\ history' = Archived(byKey[k].id)
       /\ UNCHANGED nextID

\* CleanupExpired of every active lock whose time has passed.
CleanupExpired ==
  LET due == {k \in Keys : byKey[k].status = "active" /\ byKey[k].lapsed} IN
  /\ due # {}
  /\ byKey' = [k \in Keys |-> IF k \in due THEN NoLock ELSE byKey[k]]
  /\ byJob' = [j \in JobIds |-> IF \E k \in due : byKey[k].job = j THEN NoKey ELSE byJob[j]]
  /\ history' = [l \in LockIds |-> IF \E k \in due : byKey[k].id = l THEN history[l] + 1 ELSE history[l]]
  /\ UNCHANGED <<nextID, jobVars, req, granted>>

\* The clock passes the ExpiresAt of a lock.
Expire(k) ==
  /\ Held(k)
  /\ byKey' = [byKey EXCEPT ![k].lapsed = TRUE]
  /\ UNCHANGED <<nextID, byJob, history, jobVars, req, granted>>

-----------------------------------------------------------------------------
(* POST /v1/jobs with a lock key: enqueueJobWithOptionalLock *)

RequestAcquire(c, k) ==
  /\ req[c].at = "idle"
  /\ Acquire(k)
  /\ req' = [req EXCEPT ![c] = [at |-> "acquired", key |-> k, job |-> NoJob]]
  /\ UNCHANGED <<jobVars, granted>>

\* Enqueue creates a job, hands back the job of a known idempotency key, or
\* refuses (emergency stop, freeze, full channel).
RequestEnqueue(c) ==
  /\ req[c].at = "acquired"
  /\ \/ \E j \in JobIds : Jobs!Submit(j) /\ req' = [req EXCEPT ![c].at = "enqueued", ![c].job = j]
     \/ /\ "reuse" \in Ops
        /\ \E j \in JobIds :
             status[j] # "absent" /\ req' = [req EXCEPT ![c].at = "enqueued", ![c].job = j]
        /\ UNCHANGED jobVars
     \/ req' = [req EXCEPT ![c].at = "unwind"] /\ UNCHANGED jobVars
  /\ UNCHANGED <<storeVars, granted>>

RequestBind(c) ==
  /\ req[c].at = "enqueued"
  /\ \/ BindJob(req[c].key, req[c].job) /\ req' = [req EXCEPT ![c] = NoRequest]
     \/ BindRefused(req[c].key) /\ req' = [req EXCEPT ![c].at = "unwind"]
  /\ UNCHANGED jobVars

\* The error paths release the key, whoever holds it by now.
RequestUnwind(c) ==
  /\ req[c].at = "unwind"
  /\ Release(req[c].key)
  /\ req' = IF req[c].job = NoJob THEN [req EXCEPT ![c] = NoRequest]
            ELSE [req EXCEPT ![c].at = "cancel"]
  /\ UNCHANGED <<jobVars, granted>>

\* Cancel is refused for a job that has ended.
RequestCancel(c) ==
  /\ req[c].at = "cancel"
  /\ \/ Jobs!Cancel(req[c].job)
     \/ status[req[c].job] \in {"succeeded", "failed"} /\ UNCHANGED jobVars
  /\ req' = [req EXCEPT ![c] = NoRequest]
  /\ UNCHANGED <<storeVars, granted>>

-----------------------------------------------------------------------------
(* The direct API, the queue, and its subscriber *)

AcquireCall(k) == Acquire(k) /\ UNCHANGED <<jobVars, req, granted>>

\* handleExecutionLockRelease names a key or a job.
ReleaseCall(k) == byKey[k] # NoLock /\ Release(k) /\ UNCHANGED <<jobVars, req, granted>>
ReleaseJobCall(j) == byJob[j] # NoKey /\ Release(byJob[j]) /\ UNCHANGED <<jobVars, req, granted>>

Undelivered(j) == notices[j]["failed"] + notices[j]["canceled"]

CancelCall(j) == Undelivered(j) < MaxNotices /\ Jobs!Cancel(j) /\ UNCHANGED <<storeVars, req, granted>>
FailCall(j) == Undelivered(j) < MaxNotices /\ Jobs!Fail(j) /\ UNCHANGED <<storeVars, req, granted>>
Work(j) == Jobs!Work(j) /\ UNCHANGED <<storeVars, req, granted>>

\* A subscriber is told that a job has ended, by the worker or by a caller of
\* Cancel or FailJob.
Told(j) == Jobs!Announce(j) \/ \E s \in Jobs!ByCaller : Jobs!Deliver(j, s)

\* Mutant: only a success releases the lock.
JobEndedOnSuccess(j) ==
  /\ Told(j)
  /\ IF status[j] = "succeeded" THEN Release(byJob[j]) ELSE UNCHANGED storeVars
  /\ UNCHANGED <<req, granted>>

\* The subscriber of Server.New: the end of a job releases the key that byJob
\* names for it.
JobEnded(j) ==
  /\ Told(j)
  /\ Release(byJob[j])
  /\ UNCHANGED <<req, granted>>

Request(c) ==
  \/ \E k \in Keys : RequestAcquire(c, k)
  \/ RequestEnqueue(c) \/ RequestBind(c) \/ RequestUnwind(c) \/ RequestCancel(c)

Operator ==
  \/ "acquire" \in Ops /\ \E k \in Keys : AcquireCall(k)
  \/ "release" \in Ops /\ \E k \in Keys : ReleaseCall(k)
  \/ "release" \in Ops /\ \E j \in JobIds : ReleaseJobCall(j)
  \/ "cleanup" \in Ops /\ CleanupExpired
  \/ "expire" \in Ops /\ \E k \in Keys : Expire(k)
  \/ "cancel" \in Ops /\ \E j \in JobIds : CancelCall(j)
  \/ "fail" \in Ops /\ \E j \in JobIds : FailCall(j)

Queue == \E j \in JobIds : Work(j) \/ JobEnded(j)

\* Every request has returned, every job has ended and been announced.
Idle ==
  /\ \A c \in Clients : req[c] = NoRequest
  /\ \A j \in JobIds : phase[j] \in {"none", "over"} /\ Undelivered(j) = 0
  /\ UNCHANGED vars

Next == (\E c \in Clients : Request(c)) \/ Operator \/ Queue \/ Idle

Spec == Init /\ [][Next]_vars

-----------------------------------------------------------------------------
(* Properties *)

Lock == [id : LockIds, job : JobIds \cup {NoJob}, status : {"active", "expired"}, lapsed : BOOLEAN]

\* The type of every variable.
TypeOK ==
  /\ nextID \in 0 .. MaxLocks
  /\ byKey \in [Keys -> Lock \cup {NoLock}]
  /\ byJob \in [JobIds -> Keys \cup {NoKey}]
  /\ history \in [LockIds -> Nat]
  /\ req \in [Clients -> [at : {"idle", "acquired", "enqueued", "unwind", "cancel"},
                          key : Keys \cup {NoKey}, job : JobIds \cup {NoJob}]]
  /\ granted \in [JobIds -> SUBSET Keys]

Ended(j) == status[j] \in Jobs!Final

\* Who counts on the lock on a key: requests under way and unfinished jobs
\* the key was granted to.
Contenders(k) ==
  {c \in Clients : req[c].key = k /\ req[c].at \in {"acquired", "enqueued"}}
  \cup {j \in JobIds : k \in granted[j] /\ ~Ended(j)}

\* The lock keeps conflicting runs apart: one request or unfinished job at a
\* time counts on a key.
MutualExclusion == \A k \in Keys : Cardinality(Contenders(k)) <= 1

\* A running job has the lock of every key it was granted, also after other
\* jobs that were granted the key have ended or been canceled.
LockCoversRun ==
  \A j \in JobIds : status[j] = "running" =>
    \A k \in granted[j] : byKey[k].job = j /\ Held(k)

\* The subscriber finds the lock of every job by the job's id.
BoundLockFindable ==
  \A k \in Keys : byKey[k].job # NoJob => byJob[byKey[k].job] = k

\* Every lock ever acquired is in the store or in its history.
LockAccounted ==
  \A l \in 1 .. nextID : history[l] > 0 \/ \E k \in Keys : byKey[k].id = l

=============================================================================
