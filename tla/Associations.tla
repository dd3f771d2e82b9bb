---------------------------- MODULE Associations -----------------------------
(***************************************************************************)
(* Policy associations (internal/control/association.go) over the          *)
(* scheduler, the choice of a native scheduler (native_scheduler.go), and  *)
(* the records of their jobs (association_execution.go), with the handlers *)
(* of internal/server/server.go.                                           *)
(*                                                                         *)
(* An association owns a schedule of the scheduler, which has a lock of    *)
(* its own and is also open to the schedule endpoints.  Create works on    *)
(* the scheduler without the lock of the store, SetEnabled and Replay with *)
(* it.  The variable kind says whether associations or the records of      *)
(* their jobs are at work.                                                 *)
(***************************************************************************)
EXTENDS Integers, Sequences, FiniteSets, SequencesExt

CONSTANTS
  Callers,
  Requests,          \* inputs of Select: [os, interval, jitter, preferred]
  Jobs, Statuses,    \* jobs of the path of an association, and the states notifications report
  Limit,             \* records kept
  MaxAssociations, MaxSchedules, MaxClock,   \* bounds
  MaxRevisions,   \* bound on the revisions of all associations together
  MaxWait         \* bound on the wait for the lock

VARIABLES
  kind,
  clock,
  schedules,   \* sequence of schedules: [enabled, foreign], foreign when the endpoints of schedules set it last
  items,       \* sequence of associations, or the records: job -> [status, seen], or None
  history,     \* per association its revisions
  lock,        \* the callers that hold the lock of the store
  pc,
  dropped      \* history: when the records that have been pruned were seen last

vars == <<kind, clock, schedules, items, history, lock, pc, dropped>>

None == [status |-> "none", seen |-> 0]
Idle == [at |-> "idle"]

\* Times in units of 30 seconds; the embedded scheduler takes any interval.
NewNativeSchedulerCatalog == {
  [name |-> "systemd_timer", os |-> {"linux"}, min |-> 1, jitter |-> TRUE, priority |-> 100],
  [name |-> "cron", os |-> {"linux", "darwin", "bsd"}, min |-> 2, jitter |-> FALSE, priority |-> 80],
  [name |-> "windows_task_scheduler", os |-> {"windows"}, min |-> 2, jitter |-> FALSE, priority |-> 100],
  [name |-> "embedded_scheduler", os |-> {"linux", "darwin", "bsd", "windows"}, min |-> 0, jitter |-> TRUE, priority |-> 10]}

(* What the stores hold, and what they hold at first *)

AssociationRecords ==
  [enabled : BOOLEAN, schedule : Nat, revision : 1..MaxRevisions, backend : NewNativeSchedulerCatalog, req : Requests]
AssociationExecutionRecords == [status : Statuses \cup {"none"}, seen : 0..MaxClock]

NewAssociationStore == <<>>
NewAssociationExecutionStore == [j \in Jobs |-> None]

Init ==
  /\ kind \in {"associations", "executions"}
  /\ clock = 0 /\ schedules = <<>> /\ history = <<>> /\ lock = {} /\ dropped = {}
  /\ items = IF kind = "associations" THEN NewAssociationStore ELSE NewAssociationExecutionStore
  /\ pc = [c \in Callers |-> Idle]

Tick ==
  /\ kind = "executions" /\ clock < MaxClock
  /\ clock' = clock + 1
  /\ UNCHANGED <<kind, schedules, items, history, lock, pc, dropped>>

-----------------------------------------------------------------------------
(* The native schedulers *)

backendSupportsSelection(b, req) ==
  /\ req.os \in b.os
  /\ req.interval >= b.min
  /\ req.jitter => b.jitter

compatibleBackends(req) == {b \in NewNativeSchedulerCatalog : backendSupportsSelection(b, req)}

compatibleFallbacks(req, selected) == {b.name : b \in compatibleBackends(req)} \ {selected.name}

\* The preferred backend if it will do, or the one of the highest priority that will, and the
\* others that would; none when unsupported.
Select(req) ==
  LET fit == compatibleBackends(req) IN
  {[backend |-> b, fallbacks |-> compatibleFallbacks(req, b)] :
     b \in {b \in fit : IF req.preferred # "" THEN b.name = req.preferred ELSE \A other \in fit : other.priority <= b.priority}}

-----------------------------------------------------------------------------
(* Associations *)

NewSchedule(foreign) == schedules' = Append(schedules, [enabled |-> TRUE, foreign |-> foreign])

\* CreateWithOptions makes the schedule, enabled.
BeginCreate(c, req, enabled) ==
  /\ kind = "associations" /\ pc[c] = Idle
  /\ Len(items) < MaxAssociations /\ Len(schedules) < MaxSchedules
  /\ \E selected \in Select(req) :
       pc' = [pc EXCEPT ![c] = [at |-> IF enabled THEN "store" ELSE "disable", req |-> req, backend |-> selected.backend,
                                enabled |-> enabled, schedule |-> Len(schedules) + 1]]
  /\ NewSchedule(FALSE)
  /\ UNCHANGED <<kind, clock, items, history, lock, dropped>>

\* The new schedule of an association that is not enabled is switched off, in Create and in Replay.
DisableNew(c) ==
  /\ pc[c].at = "disable"
  /\ schedules' = [schedules EXCEPT ![pc[c].schedule] = [enabled |-> FALSE, foreign |-> FALSE]]
  /\ pc' = [pc EXCEPT ![c].at = "store"]
  /\ UNCHANGED <<kind, clock, items, history, lock, dropped>>

Create(c) ==
  /\ pc[c].at = "store" /\ lock = {}
  /\ LET a == [enabled |-> pc[c].enabled, schedule |-> pc[c].schedule, revision |-> 1, backend |-> pc[c].backend,
               req |-> pc[c].req] IN
     items' = Append(items, a) /\ history' = Append(history, <<a>>)
  /\ pc' = [pc EXCEPT ![c] = Idle]
  /\ UNCHANGED <<kind, clock, schedules, lock, dropped>>

handleAssociations(c) == (\E req \in Requests, enabled \in BOOLEAN : BeginCreate(c, req, enabled)) \/ Create(c)

Revised(a, new) ==
  /\ items' = [items EXCEPT ![a] = new]
  /\ history' = [history EXCEPT ![a] = Append(@, new)]

\* One step: what the schedule endpoints do between its two writes they might as well do after them.
SetEnabled(a, enabled) ==
  /\ kind = "associations" /\ lock = {} /\ Len(FlattenSeq(history)) < MaxRevisions
  /\ schedules' = [schedules EXCEPT ![items[a].schedule] = [enabled |-> enabled, foreign |-> FALSE]]
  /\ Revised(a, [items[a] EXCEPT !.enabled = enabled, !.revision = @ + 1])
  /\ UNCHANGED <<kind, clock, lock, pc, dropped>>

\* Replay: the schedule there is is switched off, ...
BeginReplay(c, a, revision) ==
  /\ kind = "associations" /\ lock = {} /\ pc[c] = Idle
  /\ Len(FlattenSeq(history)) < MaxRevisions /\ Len(schedules) < MaxSchedules
  /\ \E n \in DOMAIN history[a] :
       /\ history[a][n].revision = revision
       /\ pc' = [pc EXCEPT ![c] = [at |-> "recreate", item |-> a, snapshot |-> history[a][n]]]
  /\ schedules' = [schedules EXCEPT ![items[a].schedule] = [enabled |-> FALSE, foreign |-> FALSE]]
  /\ lock' = {c}
  /\ UNCHANGED <<kind, clock, items, history, dropped>>

\* ... another is made from the snapshot, ...
Recreate(c) ==
  /\ pc[c].at = "recreate" /\ Len(schedules) < MaxSchedules
  /\ NewSchedule(FALSE)
  /\ pc' = [pc EXCEPT ![c] = [at |-> IF pc[c].snapshot.enabled THEN "replay" ELSE "disable replay", item |-> pc[c].item,
                              snapshot |-> pc[c].snapshot, schedule |-> Len(schedules) + 1]]
  /\ UNCHANGED <<kind, clock, items, history, lock, dropped>>

\* Mutant: the schedule made for a disabled revision stays enabled.
DisableReplayedLate(c) ==
  /\ pc[c].at = "disable replay"
  /\ pc' = [pc EXCEPT ![c].at = "replay"]
  /\ UNCHANGED <<kind, clock, items, history, schedules, lock, dropped>>

DisableReplayed(c) ==
  /\ pc[c].at = "disable replay"
  /\ schedules' = [schedules EXCEPT ![pc[c].schedule] = [enabled |-> FALSE, foreign |-> FALSE]]
  /\ pc' = [pc EXCEPT ![c].at = "replay"]
  /\ UNCHANGED <<kind, clock, items, history, lock, dropped>>

\* ... and the association takes it over as its next revision.
Replay(c) ==
  /\ pc[c].at = "replay"
  /\ LET a == pc[c].item  s == pc[c].snapshot IN
     Revised(a, [items[a] EXCEPT !.req = s.req, !.enabled = s.enabled, !.schedule = pc[c].schedule, !.revision = @ + 1])
  /\ pc' = [pc EXCEPT ![c] = Idle]
  /\ lock' = {}
  /\ UNCHANGED <<kind, clock, schedules, dropped>>

handleAssociationAction(c) ==
  \/ \E a \in DOMAIN items, enabled \in BOOLEAN : SetEnabled(a, enabled)
  \/ \E a \in DOMAIN items, revision \in 1..MaxRevisions : BeginReplay(c, a, revision)
  \/ Recreate(c) \/ DisableReplayed(c) \/ Replay(c)

\* The schedule endpoints make schedules of their own and switch any.
handleSchedules ==
  /\ kind = "associations" /\ Len(schedules) < MaxSchedules
  /\ NewSchedule(TRUE)
  /\ UNCHANGED <<kind, clock, items, history, lock, pc, dropped>>

handleScheduleAction ==
  /\ kind = "associations"
  /\ \E s \in DOMAIN schedules, enabled \in BOOLEAN :
       schedules' = [schedules EXCEPT ![s] = [enabled |-> enabled, foreign |-> TRUE]]
  /\ UNCHANGED <<kind, clock, items, history, lock, pc, dropped>>

-----------------------------------------------------------------------------
(* Records of the jobs of an association *)

Kept == {j \in Jobs : items[j] # None}

\* The record seen the longest ago goes; of several, any.
pruneLocked(records) ==
  LET kept == {j \in Jobs : records[j] # None}
      oldest == {k \in kept : \A i \in kept : records[k].seen <= records[i].seen} IN
  IF Cardinality(kept) <= Limit THEN items' = records /\ UNCHANGED dropped
  ELSE \E k \in oldest : items' = [records EXCEPT ![k] = None] /\ dropped' = dropped \cup {records[k].seen}

RecordJob(j, status, now) ==
  LET new == [items EXCEPT ![j] = [status |-> status, seen |-> now]] IN
  IF items[j] # None THEN items' = new /\ UNCHANGED dropped ELSE pruneLocked(new)

\* The queue's subscriber; notifications may overtake one another, and the time is read before the lock.
ObserveJob ==
  /\ kind = "executions"
  /\ \E j \in Jobs, status \in Statuses, now \in {t \in 0..clock : clock - t <= MaxWait} : RecordJob(j, status, now)
  /\ UNCHANGED <<kind, clock, schedules, history, lock, pc>>

-----------------------------------------------------------------------------

Next ==
  \/ Tick \/ handleSchedules \/ handleScheduleAction \/ ObserveJob
  \/ \E c \in Callers : handleAssociations(c) \/ DisableNew(c) \/ handleAssociationAction(c)

Spec == Init /\ [][Next]_vars

-----------------------------------------------------------------------------
(* Properties *)

\* The type of every variable.
TypeOK ==
  /\ lock \subseteq Callers /\ Cardinality(lock) <= 1 /\ clock \in 0..MaxClock /\ Len(schedules) <= MaxSchedules
  /\ kind = "associations" =>
       /\ Len(history) = Len(items)
       /\ \A a \in DOMAIN items : items[a] \in AssociationRecords /\ items[a].schedule \in DOMAIN schedules
  /\ kind = "executions" => items \in [Jobs -> AssociationExecutionRecords]

Replaying(a) == \E c \in lock : pc[c].item = a

\* A schedule that an association has made and that the schedule endpoints have
\* not switched since runs exactly for an enabled association: the one whose
\* schedule it is, or one whose Create or Replay has not come to the end; what
\* Replay has replaced stays off.
SchedulesAgree ==
  kind = "associations" =>
    /\ \A a \in DOMAIN items : LET s == schedules[items[a].schedule] IN
         s.foreign \/ Replaying(a) \/ s.enabled = items[a].enabled
    /\ \A s \in DOMAIN schedules : schedules[s].enabled /\ ~schedules[s].foreign =>
         \/ \E a \in DOMAIN items : items[a].schedule = s /\ items[a].enabled
         \/ \E c \in Callers : "schedule" \in DOMAIN pc[c] /\ pc[c].schedule = s

\* The revisions of an association are numbered without a gap, the last is what it
\* is now, no two of its revisions of different replays share a schedule with
\* another association, and the backend suits the schedule it was chosen for.
RevisionsSound ==
  kind = "associations" => \A a \in DOMAIN items :
    /\ \A n \in DOMAIN history[a] : history[a][n].revision = n
    /\ items[a] = history[a][Len(history[a])]
    /\ \A b \in DOMAIN items \ {a} : \A m \in DOMAIN history[a], n \in DOMAIN history[b] :
         history[a][m].schedule # history[b][n].schedule
    /\ backendSupportsSelection(items[a].backend, items[a].req)
    /\ \A b \in NewNativeSchedulerCatalog : items[a].req.preferred = "" /\ backendSupportsSelection(b, items[a].req) =>
         b.priority <= items[a].backend.priority

\* No more records are kept than the limit, and none is dropped while another is
\* kept that was seen earlier by more than callers wait for the lock.
RecencyKept ==
  kind = "executions" =>
    /\ Cardinality(Kept) <= Limit
    /\ \A j \in Kept, t \in dropped : t <= items[j].seen + MaxWait
=============================================================================
