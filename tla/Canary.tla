------------------------------- MODULE Canary --------------------------------
(***************************************************************************)
(* Synthetic canaries: internal/control/canary.go over the life of the     *)
(* jobs they submit.  The loop of a canary enqueues a job, then enters it  *)
(* in jobRefs in a second critical section; onJob counts the result of a   *)
(* job that is in jobRefs.  SetEnabled and Create call start after they    *)
(* have let the lock go.                                                   *)
(***************************************************************************)
EXTENDS Naturals, FiniteSets

CONSTANTS
  JobIds, Canaries, Loops,
  Callers,       \* goroutines that serve Create and SetEnabled
  Free,          \* a model value: no loop, no canary
  Threshold,     \* FailureThreshold of every canary
  MaxRefused,    \* bound on the Enqueue calls that fail
  MaxNotices,    \* bound on the undelivered notifications of operator calls
  Ops            \* what operators do with jobs

VARIABLES
  status, phase, notices,      \* the jobs: JobLifecycle
  enabled, failures, health,   \* of each canary
  cancels,       \* the loop whose cancel function is stored, or Free
  jobRefs,       \* the canary of each job with an entry, or Free
  loops, starting,   \* goroutines; the canary each caller is about to start
  refused, counted, down   \* history: refusals and counted results of jobs; Shutdown

Jobs == INSTANCE JobLifecycle

jobVars == <<status, phase, notices>>
healthVars == <<failures, health, jobRefs, counted>>
loopVars == <<enabled, cancels, loops, starting, down>>
vars == <<jobVars, healthVars, loopVars, refused>>

NoLoop == [at |-> "free", canary |-> Free, canceled |-> FALSE, job |-> Free]

Init ==
  /\ Jobs!Init
  /\ enabled = [c \in Canaries |-> "absent"]
  /\ failures = [c \in Canaries |-> 0] /\ health = [c \in Canaries |-> "unknown"]
  /\ cancels = [c \in Canaries |-> Free]
  /\ jobRefs = [j \in JobIds |-> Free]
  /\ loops = [l \in Loops |-> NoLoop]
  /\ starting = [k \in Callers |-> Free]
  /\ refused = 0
  /\ counted = [j \in JobIds |-> 0] /\ down = FALSE

-----------------------------------------------------------------------------
(* Callers *)

CanceledLoop(l) == [loops EXCEPT ![l].canceled = TRUE]

\* Create and SetEnabled(true), up to the call of start.
SwitchOn(k, c) ==
  /\ starting[k] = Free
  /\ enabled' = [enabled EXCEPT ![c] = "on"]
  /\ starting' = [starting EXCEPT ![k] = c]
  /\ UNCHANGED <<jobVars, healthVars, cancels, loops, down, refused>>

\* SetEnabled(false).
SwitchOff(c) ==
  /\ enabled[c] # "absent"
  /\ enabled' = [enabled EXCEPT ![c] = "off"]
  /\ loops' = IF cancels[c] = Free THEN loops ELSE CanceledLoop(cancels[c])
  /\ cancels' = [cancels EXCEPT ![c] = Free]
  /\ UNCHANGED <<jobVars, healthVars, starting, down, refused>>

\* start: a canary switched off in the meantime is left alone, and a loop
\* that is running is replaced.
Start(k, l) ==
  LET c == starting[k] IN
  /\ c # Free /\ starting' = [starting EXCEPT ![k] = Free]
  /\ IF enabled[c] # "on" THEN UNCHANGED <<loops, cancels>>
     ELSE /\ loops[l].at = "free"
          /\ loops' = [(IF cancels[c] = Free THEN loops ELSE CanceledLoop(cancels[c]))
                         EXCEPT ![l] = [NoLoop EXCEPT !.at = "wait", !.canary = c]]
          /\ cancels' = [cancels EXCEPT ![c] = l]
  /\ UNCHANGED <<jobVars, healthVars, enabled, down, refused>>

Shutdown ==
  /\ loops' = [l \in Loops |-> IF \E c \in Canaries : cancels[c] = l
                                THEN [loops[l] EXCEPT !.canceled = TRUE] ELSE loops[l]]
  /\ cancels' = [c \in Canaries |-> Free]
  /\ down' = TRUE
  /\ UNCHANGED <<jobVars, healthVars, enabled, starting, refused>>

-----------------------------------------------------------------------------
(* The loop *)

Exit(l) ==
  /\ loops[l].at = "wait" /\ loops[l].canceled
  /\ loops' = [loops EXCEPT ![l] = NoLoop]
  /\ UNCHANGED <<jobVars, healthVars, enabled, cancels, starting, down, refused>>

\* The timer fires and Enqueue takes the job.
Enqueue(l, j) ==
  /\ loops[l].at = "wait"
  /\ Jobs!Submit(j)
  /\ loops' = [loops EXCEPT ![l].at = "register", ![l].job = j]
  /\ UNCHANGED <<healthVars, enabled, cancels, starting, down, refused>>

\* The timer fires and Enqueue refuses.
Refused(l) ==
  /\ loops[l].at = "wait" /\ refused < MaxRefused
  /\ refused' = refused + 1
  /\ loops' = [loops EXCEPT ![l].at = "mark"]
  /\ UNCHANGED <<jobVars, healthVars, enabled, cancels, starting, down>>

Failed(c) ==
  /\ failures' = [failures EXCEPT ![c] = @ + 1]
  /\ health' = IF failures'[c] >= Threshold THEN [health EXCEPT ![c] = "unhealthy"] ELSE health

MarkFailure(l) ==
  /\ loops[l].at = "mark"
  /\ Failed(loops[l].canary)
  /\ loops' = [loops EXCEPT ![l].at = "wait"]
  /\ UNCHANGED <<jobVars, jobRefs, counted, enabled, cancels, starting, down, refused>>

Register(l) ==
  /\ loops[l].at = "register"
  /\ jobRefs' = [jobRefs EXCEPT ![loops[l].job] = loops[l].canary]
  /\ loops' = [loops EXCEPT ![l].at = "wait", ![l].job = Free]
  /\ UNCHANGED <<jobVars, failures, health, counted, enabled, cancels, starting, down, refused>>

-----------------------------------------------------------------------------
(* onJob *)

\* Mutant: the entry stays in jobRefs.
CountKeeps(j, s) ==
  IF s \notin {"succeeded", "failed"} \/ jobRefs[j] = Free THEN UNCHANGED healthVars
  ELSE /\ UNCHANGED jobRefs
       /\ counted' = [counted EXCEPT ![j] = @ + 1]
       /\ IF s = "succeeded"
          THEN failures' = [failures EXCEPT ![jobRefs[j]] = 0] /\ health' = [health EXCEPT ![jobRefs[j]] = "healthy"]
          ELSE Failed(jobRefs[j])

Count(j, s) ==
  IF s \notin {"succeeded", "failed"} \/ jobRefs[j] = Free THEN UNCHANGED healthVars
  ELSE /\ jobRefs' = [jobRefs EXCEPT ![j] = Free]
       /\ counted' = [counted EXCEPT ![j] = @ + 1]
       /\ IF s = "succeeded"
          THEN failures' = [failures EXCEPT ![jobRefs[j]] = 0] /\ health' = [health EXCEPT ![jobRefs[j]] = "healthy"]
          ELSE Failed(jobRefs[j])

OnJob(j, s) == Jobs!Deliver(j, s) /\ Count(j, s) /\ UNCHANGED <<loopVars, refused>>
OnWorkerJob(j) == Jobs!Announce(j) /\ Count(j, status[j]) /\ UNCHANGED <<loopVars, refused>>

Undelivered(j) == notices[j]["failed"] + notices[j]["canceled"]

Work(j) == Jobs!Work(j) /\ UNCHANGED <<healthVars, loopVars, refused>>
CancelJob(j) == Undelivered(j) < MaxNotices /\ Jobs!Cancel(j) /\ UNCHANGED <<healthVars, loopVars, refused>>
FailJob(j) == Undelivered(j) < MaxNotices /\ Jobs!Fail(j) /\ UNCHANGED <<healthVars, loopVars, refused>>

Queue == \E j \in JobIds : Work(j) \/ OnWorkerJob(j) \/ \E s \in Jobs!ByCaller : OnJob(j, s)

Next ==
  \/ \E k \in Callers : (\E c \in Canaries : SwitchOn(k, c)) \/ \E l \in Loops : Start(k, l)
  \/ \E c \in Canaries : SwitchOff(c)
  \/ "shutdown" \in Ops /\ Shutdown
  \/ \E l \in Loops : Exit(l) \/ Refused(l) \/ MarkFailure(l) \/ Register(l) \/ \E j \in JobIds : Enqueue(l, j)
  \/ "cancel" \in Ops /\ \E j \in JobIds : CancelJob(j)
  \/ "fail" \in Ops /\ \E j \in JobIds : FailJob(j)
  \/ Queue

Spec == Init /\ [][Next]_vars

-----------------------------------------------------------------------------
(* Properties *)

\* The type of every variable.
TypeOK ==
  /\ enabled \in [Canaries -> {"absent", "on", "off"}]
  /\ failures \in [Canaries -> Nat] /\ health \in [Canaries -> {"unknown", "healthy", "unhealthy"}]
  /\ cancels \in [Canaries -> Loops \cup {Free}] /\ jobRefs \in [JobIds -> Canaries \cup {Free}]
  /\ starting \in [Callers -> Canaries \cup {Free}]
  /\ \A l \in Loops :
       /\ loops[l].at \in {"free", "wait", "register", "mark"}
       /\ loops[l].at = "register" => loops[l].job \in JobIds

LiveLoops(c) == {l \in Loops : loops[l].canary = c /\ loops[l].at # "free" /\ ~loops[l].canceled}

\* A canary never has two loops that are not canceled, whatever SetEnabled
\* calls overlap, and an enabled one has a loop once every start is through.
OneLiveLoop ==
  \A c \in Canaries :
    /\ LiveLoops(c) = {cancels[c]} \ {Free}
    /\ enabled[c] # "on" => cancels[c] = Free
    /\ enabled[c] = "on" /\ ~down /\ (\A k \in Callers : starting[k] # c) => cancels[c] # Free

\* A canary is reported unhealthy exactly while its consecutive failures,
\* those of Enqueue included, reach its threshold.
UnhealthyIffThreshold ==
  \A c \in Canaries : health[c] = "unhealthy" <=> failures[c] >= Threshold

\* A job's result is counted at most once, although an operator's failure
\* and the worker's result are both announced.
CountedOnce == \A j \in JobIds : counted[j] <= 1

=============================================================================
