---------------------------- MODULE JobLifecycle ----------------------------
(***************************************************************************)
(* What the job queue promises to the stores that submit jobs to it: the   *)
(* life of each job and the notifications about its end, without channels, *)
(* worker or callers.  JobQueue is shown to implement this specification;  *)
(* the modules of the queue's clients (execution locks, workflows,         *)
(* canaries, leases) are written against it.                               *)
(*                                                                         *)
(* The queue calls its subscribers after it has unlocked its mutex, from   *)
(* the goroutine that made the change.  The notifications of cancels and   *)
(* operator failures are delayed and overtake one another, but none is     *)
(* lost.  The worker announces the end of its job itself, and takes no     *)
(* other job before every subscriber has returned.                         *)
(***************************************************************************)
EXTENDS Naturals

CONSTANT JobIds

VARIABLES
  status,   \* the status a caller of Get sees; "absent" for an unknown id
  phase,    \* the worker's side: queued, taken, applying, announcing or over
  notices   \* how many notifications of callers are undelivered

lifeVars == <<status, phase, notices>>

Final == {"succeeded", "failed", "canceled"}
ByCaller == {"failed", "canceled"}

Init ==
  /\ status = [id \in JobIds |-> "absent"]
  /\ phase = [id \in JobIds |-> "none"]
  /\ notices = [id \in JobIds |-> [s \in ByCaller |-> 0]]

Changes(id, s, p) ==
  /\ status' = [status EXCEPT ![id] = s]
  /\ phase' = [phase EXCEPT ![id] = p]

Notify(id, s) == notices' = [notices EXCEPT ![id][s] = @ + 1]

Submit(id) ==
  status[id] = "absent" /\ Changes(id, "pending", "queued") /\ UNCHANGED notices

\* Cancel takes effect at once, whatever the worker is doing with the job.
Cancel(id) ==
  /\ status[id] \in {"pending", "running", "canceled"}
  /\ Changes(id, "canceled", phase[id])
  /\ Notify(id, "canceled")

\* FailJob and RecoverStuckJobs.
Fail(id) ==
  /\ status[id] \in {"pending", "running", "canceled"}
  /\ Changes(id, "failed", phase[id])
  /\ Notify(id, "failed")

\* There is one worker, and it may be in the middle of a job.
WorkerBusy == \E id \in JobIds : phase[id] \in {"taken", "applying", "announcing"}

\* The worker takes each id from its channel once and drops a canceled one.
Drop(id) ==
  /\ ~WorkerBusy
  /\ phase[id] = "queued" /\ status[id] = "canceled"
  /\ Changes(id, status[id], "over") /\ UNCHANGED notices

\* A job that an operator failed while it was queued is started all the same.
Start(id) ==
  /\ ~WorkerBusy
  /\ phase[id] = "queued" /\ status[id] \in {"pending", "failed"}
  /\ Changes(id, "running", "taken") /\ UNCHANGED notices

Apply(id) ==
  phase[id] = "taken" /\ Changes(id, status[id], "applying") /\ UNCHANGED notices

\* A canceled job stays canceled and is not announced again; any other status
\* is overwritten.
Finish(id) ==
  /\ phase[id] = "applying"
  /\ \/ status[id] = "canceled" /\ Changes(id, "canceled", "over")
     \/ status[id] # "canceled" /\ \E s \in {"succeeded", "failed"} : Changes(id, s, "announcing")
  /\ UNCHANGED notices

\* The worker has told every subscriber of the end of its job.
Announce(id) ==
  phase[id] = "announcing" /\ Changes(id, status[id], "over") /\ UNCHANGED notices

\* A caller of Cancel or FailJob has told every subscriber.
Deliver(id, s) ==
  /\ notices[id][s] > 0
  /\ notices' = [notices EXCEPT ![id][s] = @ - 1]
  /\ UNCHANGED <<status, phase>>

\* What the queue's worker does with a job.
Work(id) == Drop(id) \/ Start(id) \/ Apply(id) \/ Finish(id)

Next ==
  \E id \in JobIds :
    \/ Submit(id) \/ Cancel(id) \/ Fail(id) \/ Work(id) \/ Announce(id)
    \/ \E s \in ByCaller : Deliver(id, s)

Spec == Init /\ [][Next]_lifeVars
=============================================================================
