---------------------------- MODULE AgentDispatch ----------------------------
(***************************************************************************)
(* Agent dispatch (internal/control/agent_dispatch.go and the handler in   *)
(* internal/server/agent_dispatch.go): a request for a config is routed by *)
(* the strategy of its environment and the global mode, either to the job  *)
(* queue, under an idempotency key made of the config's path, or to the    *)
(* event bus, and is then recorded.                                        *)
(*                                                                         *)
(* The handler reads the strategy, then the mode, then calls the queue,    *)
(* then records; each is a critical section of its own.  The life of jobs  *)
(* is that of JobLifecycle.                                                *)
(***************************************************************************)
EXTENDS Integers, Sequences

CONSTANTS
  Requests, Environments, Paths,
  JobIds,
  Retained,      \* records the store keeps
  MaxChanges     \* bound on the changes of mode and strategy

VARIABLES
  status, phase, notices,   \* the jobs
  mode, envModes, changes,
  keys,       \* the queue's idempotency keys: per path, its job or none
  request,    \* per request: at, path, environment, strategy, mode, job
  records, recorded

Jobs == INSTANCE JobLifecycle

jobVars == <<status, phase, notices>>
settings == <<mode, envModes, changes>>
vars == <<jobVars, settings, keys, request, records, recorded>>

NoJob == "none"
Modes == {"local", "event_bus"}
Strategies == {"push", "pull", "hybrid"}
Idle == [at |-> "idle", path |-> NoJob, env |-> NoJob, strategy |-> "hybrid", mode |-> "local", job |-> NoJob]

\* An environment without a strategy of its own is hybrid (EffectiveStrategy).
Init ==
  /\ Jobs!Init
  /\ mode = "local" /\ envModes = [e \in Environments |-> "hybrid"] /\ changes = 0
  /\ keys = [p \in Paths |-> NoJob]
  /\ request = [q \in Requests |-> Idle]
  /\ records = << >> /\ recorded = 0

-----------------------------------------------------------------------------
(* Settings *)

SetMode(m) ==
  /\ m # mode /\ changes < MaxChanges
  /\ mode' = m /\ changes' = changes + 1
  /\ UNCHANGED <<jobVars, envModes, keys, request, records, recorded>>

SetEnvironmentStrategy(e, s) ==
  /\ s # envModes[e] /\ changes < MaxChanges
  /\ envModes' = [envModes EXCEPT ![e] = s] /\ changes' = changes + 1
  /\ UNCHANGED <<jobVars, mode, keys, request, records, recorded>>

-----------------------------------------------------------------------------
(* A request *)

Moves(q, record) == request' = [request EXCEPT ![q] = record]

ReadStrategy(q, p, e) ==
  /\ request[q].at = "idle"
  /\ Moves(q, [Idle EXCEPT !.at = "strategy", !.path = p, !.env = e, !.strategy = envModes[e]])
  /\ UNCHANGED <<jobVars, settings, keys, records, recorded>>

\* The mode a strategy leads to: push and pull override the global one.
Route(strategy) ==
  CASE strategy = "push" -> "local"
    [] strategy = "pull" -> "event_bus"
    [] strategy = "hybrid" -> mode

ReadMode(q) ==
  /\ request[q].at = "strategy"
  /\ Moves(q, [request[q] EXCEPT !.mode = Route(request[q].strategy),
                                 !.at = IF Route(request[q].strategy) = "local" THEN "enqueue" ELSE "publish"])
  /\ UNCHANGED <<jobVars, settings, keys, records, recorded>>

\* Mutant: the queue is called without a key.
EnqueueNewUnkeyed(q, id) ==
  /\ request[q].at = "enqueue" /\ Jobs!Submit(id)
  /\ keys' = [keys EXCEPT ![request[q].path] = id]
  /\ Moves(q, [request[q] EXCEPT !.at = "record", !.job = id])
  /\ UNCHANGED <<settings, records, recorded>>

\* The first request for a path makes a job...
EnqueueNew(q, id) ==
  /\ request[q].at = "enqueue" /\ keys[request[q].path] = NoJob
  /\ Jobs!Submit(id)
  /\ keys' = [keys EXCEPT ![request[q].path] = id]
  /\ Moves(q, [request[q] EXCEPT !.at = "record", !.job = id])
  /\ UNCHANGED <<settings, records, recorded>>

\* ...and every later one gets the same job, whatever became of it.
EnqueueKnown(q) ==
  /\ request[q].at = "enqueue" /\ keys[request[q].path] # NoJob
  /\ Moves(q, [request[q] EXCEPT !.at = "record", !.job = keys[request[q].path]])
  /\ UNCHANGED <<jobVars, settings, keys, records, recorded>>

\* The config is not found, or the queue refuses: nothing is recorded.
Refused(q) ==
  /\ request[q].at = "enqueue"
  /\ Moves(q, [request[q] EXCEPT !.at = "done"])
  /\ UNCHANGED <<jobVars, settings, keys, records, recorded>>

Publish(q) ==
  /\ request[q].at = "publish"
  /\ Moves(q, [request[q] EXCEPT !.at = "record"])
  /\ UNCHANGED <<jobVars, settings, keys, records, recorded>>

\* The record of a request, under the next id.
Entry(q) ==
  [id |-> recorded + 1, path |-> request[q].path, strategy |-> request[q].strategy, mode |-> request[q].mode,
   job |-> request[q].job, status |-> IF request[q].mode = "local" THEN "queued" ELSE "dispatched"]

Kept(log) == IF Len(log) > Retained THEN SubSeq(log, Len(log) - Retained + 1, Len(log)) ELSE log

Record(q) ==
  /\ request[q].at = "record"
  /\ records' = Kept(Append(records, Entry(q))) /\ recorded' = recorded + 1
  /\ Moves(q, [request[q] EXCEPT !.at = "done"])
  /\ UNCHANGED <<jobVars, settings, keys>>

-----------------------------------------------------------------------------
(* The queue's other steps *)

\* Bounded: a notification of Cancel or FailJob is delivered before the next
\* such call.
JobStep(id) ==
  /\ \/ Jobs!Work(id) \/ Jobs!Announce(id) \/ Jobs!Cancel(id) \/ Jobs!Fail(id)
     \/ \E s \in Jobs!ByCaller : Jobs!Deliver(id, s)
  /\ \A i, j \in JobIds, s, t \in Jobs!ByCaller :
       notices'[i][s] + notices'[j][t] > 1 => <<i, s>> = <<j, t>> /\ notices'[i][s] = 1
  /\ UNCHANGED <<settings, keys, request, records, recorded>>

Next ==
  \/ \E m \in Modes : SetMode(m)
  \/ \E e \in Environments, s \in Strategies : SetEnvironmentStrategy(e, s)
  \/ \E q \in Requests :
       \/ \E p \in Paths, e \in Environments : ReadStrategy(q, p, e)
       \/ ReadMode(q) \/ EnqueueKnown(q) \/ Refused(q) \/ Publish(q) \/ Record(q)
       \/ \E id \in JobIds : EnqueueNew(q, id)
  \/ \E id \in JobIds : JobStep(id)

Spec == Init /\ [][Next]_vars

-----------------------------------------------------------------------------
(* Properties *)

\* The type of every variable.
TypeOK ==
  /\ mode \in Modes /\ envModes \in [Environments -> Strategies] /\ changes \in 0 .. MaxChanges
  /\ keys \in [Paths -> JobIds \cup {NoJob}]
  /\ Len(records) <= Retained

\* However requests overlap, all that are sent to the queue for one path are
\* given one job, which exists, and a job serves one path.
OneJobPerPath ==
  \A q, r \in Requests :
    request[q].job # NoJob /\ request[r].job # NoJob =>
      /\ status[request[q].job] # "absent"
      /\ request[q].path = request[r].path <=> request[q].job = request[r].job

\* An environment's override holds against changes of the global mode made
\* while its request is under way: push is always recorded with a job, pull
\* never.
OverridesHold ==
  \A i \in 1 .. Len(records) :
    /\ records[i].strategy = "push" => records[i].job # NoJob
    /\ records[i].strategy = "pull" => records[i].job = NoJob

\* The log holds the latest records, with consecutive ids.
LatestRecords ==
  \A i \in 1 .. Len(records) : records[i].id = recorded - Len(records) + i

=============================================================================
