----------------------------- MODULE JobClients ------------------------------
(***************************************************************************)
(* Run leases, canaries and agent dispatch, as clients of the job queue.   *)
(* Each works on the jobs it submits (JobLifecycle).                       *)
(***************************************************************************)
EXTENDS Integers, Sequences, FiniteSets

CONSTANTS
  ClientJobs, Callers,          \* jobs; requests, handlers and other callers
  MaxNotices,                   \* bound on undelivered notifications
  CanaryIds, Loops, Free, Threshold, MaxRefused,
  Environments, Paths, Retained, MaxChanges

\* Free is no canary or loop; the name for no job is none.
ASSUME NamesAssumption ==
  Free \notin CanaryIds \cup Loops /\ "none" \notin ClientJobs /\ ClientJobs # {}

ASSUME NumbersAssumption == Threshold \in Nat \ {0} /\ Retained \in Nat /\ MaxChanges \in Nat

VARIABLES
  status, phase, notices,                                     \* the jobs
  lease, lapsed, recovering,                                  \* RunLeases
  jobRefs,                                                    \* Canary, and Workflow
  enabled, failures, health, cancels, loops, starting, refused, counted, down,  \* Canary
  mode, envModes, changes, keys, request, records, recorded   \* AgentDispatch

Leases == INSTANCE RunLeases WITH JobIds <- ClientJobs, Handlers <- Callers

Canaries == INSTANCE Canary WITH
  JobIds <- ClientJobs, Canaries <- CanaryIds, Ops <- {"cancel", "fail", "shutdown"}

Dispatch == INSTANCE AgentDispatch WITH JobIds <- ClientJobs, Requests <- Callers
=============================================================================
