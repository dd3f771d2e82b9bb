--------------------------- MODULE JobQueueHistory ---------------------------
(***************************************************************************)
(* The job queue with two history variables: how often each priority class *)
(* was passed over while it had a job waiting, and how many jobs were      *)
(* started since the queue was paused.                                     *)
(***************************************************************************)
EXTENDS JobQueue

VARIABLES bypassed, startsWhilePaused

historyVars == <<vars, bypassed, startsWhilePaused>>

Taken(class) == Len(pending'[class]) < Len(pending[class])

Bypass(class) ==
  IF pending[class] = <<>> \/ Taken(class) THEN 0
  ELSE IF \E other \in Classes : Taken(other) THEN bypassed[class] + 1
  ELSE bypassed[class]

Starts == wpc = "dequeued" /\ wpc' = "announceRun"

HistoryInit ==
  /\ Init
  /\ bypassed = [class \in Classes |-> 0]
  /\ startsWhilePaused = 0

HistoryNext ==
  /\ Next
  /\ bypassed' = [class \in Classes |-> Bypass(class)]
  /\ startsWhilePaused' = IF ~paused' THEN 0
                          ELSE IF Starts THEN startsWhilePaused + 1
                          ELSE startsWhilePaused

HistorySpec == HistoryInit /\ [][HistoryNext]_historyVars

\* A waiting priority class is passed over at most three times, however many
\* jobs arrive in the others: once by the poll or select in progress when its
\* job arrived, and then by each of the two other classes ("Fair polling by
\* rotating start index across priority classes", nextPending).  And within a
\* class the worker takes jobs in the order of their submission.
ServedInTurn == ClassFIFO /\ \A class \in Classes : bypassed[class] <= 3

\* Pause lets at most one more job start before the queue is resumed, also when
\* the worker starts a new generation meanwhile: the job it takes when it had
\* already looked at the paused flag.
PauseLag == startsWhilePaused <= 1

-----------------------------------------------------------------------------
(* The small instance: a behaviour has either five jobs in three classes,  *)
(* enough for a class to be passed over more often than it should, or      *)
(* three jobs in two classes with pauses and changes of the worker's       *)
(* policy; which one is chosen at the start.                               *)

VARIABLE callers   \* what the callers do

MCStatelessInputs == {[mode |-> "stateless", maxJobs |-> 0, restartDelay |-> 1]}

FewJobs == 3   \* bound on the jobs submitted beside pauses

MCInit == HistoryInit /\ callers \in {"submit", "pause"}

MCNext ==
  /\ HistoryNext
  /\ callers = "submit" => UNCHANGED controlVars
  /\ callers = "pause" => nextID' <= FewJobs /\ pending'["normal"] = <<>>
  /\ UNCHANGED callers

MCSpec == MCInit /\ [][MCNext]_<<historyVars, callers>>
=============================================================================
