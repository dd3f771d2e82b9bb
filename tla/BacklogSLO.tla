----------------------------- MODULE BacklogSLO ------------------------------
(***************************************************************************)
(* Backlog tracking: observeQueueBacklog of internal/server/server.go and  *)
(* internal/control/queue_backlog_slo.go.                                  *)
(*                                                                         *)
(* Each notification of the queue makes some goroutine (an observer) read  *)
(* the clock, then the length of the queue, and then update samples,       *)
(* alert flags and history under metricsMu.  The event it decides on is    *)
(* appended to the log after metricsMu is released.                        *)
(***************************************************************************)
EXTENDS Integers, Sequences

CONSTANTS
  Observers,
  Policies,      \* what callers pass to SetPolicy
  Threshold,     \* the threshold the server starts with
  HistoryLimit,  \* capacity of the history (5000 in the server)
  TickSeconds,   \* seconds that pass in one step of the clock
  MaxTicks, MaxPending, MaxCancels, MaxChanges  \* bounds

Ready == [at |-> "idle", now |-> 0, seen |-> 0, emit |-> "none"]
Window == 120    \* seconds a sample is kept

VARIABLES
  pending,       \* ids in the channels, canceled ones included
  canceled,      \* those of them whose job is canceled
  cancels, changes,   \* numbers of cancellations and of announced changes
  clock, unobserved,
  obs,           \* what each observer has read
  samples, policy, satActive, warnActive,
  history,       \* states recorded, oldest first
  log,           \* events appended
  alerts, recoveries, \* events decided on (history variables)
  alone          \* whether the latest observation is undisturbed (history variable)

queueVars == <<pending, canceled, cancels, changes>>
sloVars == <<samples, satActive, warnActive, history, alerts, recoveries>>
vars == <<queueVars, clock, unobserved, obs, policy, sloVars, log, alone>>

\* NewQueueBacklogSLOStore, and the observation at the end of Server.New.
Init ==
  /\ pending = 0 /\ canceled = 0 /\ cancels = 0 /\ changes = 0
  /\ clock = 0 /\ unobserved = 1
  /\ obs = [o \in Observers |-> Ready]
  /\ samples = << >>
  /\ policy = [threshold |-> Threshold, warning |-> 70, recovery |-> 50, projection |-> 300]
  /\ satActive = FALSE /\ warnActive = FALSE
  /\ history = << >> /\ log = << >>
  /\ alerts = 0 /\ recoveries = 0 /\ alone = FALSE

-----------------------------------------------------------------------------
(* The queue, as far as its length goes *)

Announce ==
  /\ changes < MaxChanges
  /\ changes' = changes + 1 /\ unobserved' = unobserved + 1
  /\ UNCHANGED <<clock, obs, policy, sloVars, log, alone>>

Enqueue == pending < MaxPending /\ pending' = pending + 1 /\ UNCHANGED <<canceled, cancels>> /\ Announce
Start == pending > canceled /\ pending' = pending - 1 /\ UNCHANGED <<canceled, cancels>> /\ Announce
Cancel ==
  /\ pending > canceled /\ cancels < MaxCancels
  /\ canceled' = canceled + 1 /\ cancels' = cancels + 1
  /\ UNCHANGED pending /\ Announce

\* runOne returns for a canceled job without an announcement: no observation
\* follows.
Drop ==
  /\ canceled > 0
  /\ canceled' = canceled - 1 /\ pending' = pending - 1 /\ alone' = FALSE
  /\ UNCHANGED <<cancels, changes, clock, unobserved, obs, policy, sloVars, log>>

Tick ==
  /\ clock < MaxTicks * TickSeconds
  /\ clock' = clock + TickSeconds
  /\ UNCHANGED <<queueVars, unobserved, obs, policy, sloVars, log, alone>>

-----------------------------------------------------------------------------
(* Policy *)

MinProjection == 30     \* seconds
MaxProjection == 3600

Legal(p) ==
  /\ p.threshold > 0
  /\ p.warning \in 1 .. 99
  /\ p.recovery \in 1 .. p.warning - 1
  /\ p.projection \in MinProjection .. MaxProjection

SetPolicy(p) ==
  /\ Legal(p)
  /\ policy' = p /\ alone' = FALSE
  /\ UNCHANGED <<queueVars, clock, unobserved, obs, sloVars, log>>

AtLeast(low, x) == IF x < low THEN low ELSE x
WarnThreshold == AtLeast(1, (policy.threshold * policy.warning) \div 100)
RecoveryThreshold == AtLeast(0, (policy.threshold * policy.recovery) \div 100)

-----------------------------------------------------------------------------
(* Observation *)

\* The clock is read, and the automatic stuck-run check is made.
Observe(o) ==
  /\ obs[o].at = "idle"
  /\ unobserved > 0 /\ unobserved' = unobserved - 1
  /\ obs' = [obs EXCEPT ![o] = [@ EXCEPT !.at = "status", !.now = clock]]
  /\ alone' = \A p \in Observers : obs[p].at \in {"idle", "emit"}
  /\ UNCHANGED <<queueVars, clock, policy, sloVars, log>>

\* queue.ControlStatus, under the lock of the queue.
ControlStatus(o) ==
  /\ obs[o].at = "status"
  /\ obs' = [obs EXCEPT ![o] = [@ EXCEPT !.at = "update", !.seen = pending]]
  /\ UNCHANGED <<queueVars, clock, unobserved, policy, sloVars, log, alone>>

\* The new sample, and those not older than the window from the first such on.
Sampled(now, seen) ==
  LET all == Append(samples, [at |-> now, pending |-> seen])
      first == CHOOSE i \in 1 .. Len(all) :
                 /\ all[i].at >= now - Window
                 /\ \A k \in 1 .. i - 1 : all[k].at < now - Window
  IN SubSeq(all, first, Len(all))

\* pending + growth * projection reaches the threshold; growth is per second.
Predictive(kept) ==
  LET oldest == kept[1]
      latest == kept[Len(kept)]
      dt == latest.at - oldest.at
      growth == latest.pending - oldest.pending
  IN dt > 0 /\ growth > 0
     /\ latest.pending * dt + growth * policy.projection >= policy.threshold * dt

\* QueueBacklogSLOStore.Record.
Recorded(state) ==
  IF Len(history) >= HistoryLimit THEN Append(Tail(history), state) ELSE Append(history, state)

State(sat, warn) == CASE sat -> "saturated" [] ~sat /\ warn -> "warning" [] OTHER -> "normal"

\* Mutant: recovery is announced whatever was announced before.
EventAlways(sat, warn, seen) ==
  CASE sat /\ ~satActive -> "saturation"
    [] ~(sat /\ ~satActive) /\ warn /\ ~warnActive -> "predicted"
    [] seen <= RecoveryThreshold /\ ~sat /\ ~warn -> "recovered"
    [] OTHER -> "none"

\* The event to emit, given the new flags and the ones before.
Event(sat, warn, seen) ==
  CASE sat /\ ~satActive -> "saturation"
    [] ~(sat /\ ~satActive) /\ warn /\ ~warnActive -> "predicted"
    [] seen <= RecoveryThreshold /\ (satActive \/ warnActive) /\ ~sat /\ ~warn -> "recovered"
    [] OTHER -> "none"

Saturated(seen) == seen >= policy.threshold

\* The critical section of metricsMu.
Update(o) ==
  /\ obs[o].at = "update"
  /\ LET seen == obs[o].seen
         kept == Sampled(obs[o].now, seen)
         sat == Saturated(seen)
         warn == ~sat /\ Predictive(kept) /\ seen >= WarnThreshold
         event == Event(sat, warn, seen)
     IN /\ samples' = kept
        /\ satActive' = sat /\ warnActive' = warn
        /\ history' = Recorded(State(sat, warn))
        /\ alerts' = alerts + (IF event \in {"saturation", "predicted"} THEN 1 ELSE 0)
        /\ recoveries' = recoveries + (IF event = "recovered" THEN 1 ELSE 0)
        /\ obs' = IF event = "none" THEN [obs EXCEPT ![o] = Ready]
                  ELSE [obs EXCEPT ![o] = [@ EXCEPT !.at = "emit", !.emit = event]]
  /\ UNCHANGED <<queueVars, clock, unobserved, policy, log, alone>>

\* events.Append.
Emit(o) ==
  /\ obs[o].at = "emit"
  /\ log' = Append(log, obs[o].emit)
  /\ obs' = [obs EXCEPT ![o] = Ready]
  /\ UNCHANGED <<queueVars, clock, unobserved, policy, sloVars, alone>>

Next ==
  \/ Enqueue \/ Start \/ Cancel \/ Drop \/ Tick
  \/ \E p \in Policies : SetPolicy(p)
  \/ \E o \in Observers : Observe(o) \/ ControlStatus(o) \/ Update(o) \/ Emit(o)

Spec == Init /\ [][Next]_vars

-----------------------------------------------------------------------------
(* Properties *)

\* The type of every variable; ids of canceled jobs are in the channels.
TypeOK ==
  /\ pending \in 0 .. MaxPending /\ canceled \in 0 .. pending
  /\ clock \in Nat /\ unobserved \in 0 .. MaxChanges + 1
  /\ Legal(policy) /\ {satActive, warnActive} \subseteq BOOLEAN
  /\ Len(history) <= HistoryLimit
  /\ \A i \in 1 .. Len(history) : history[i] \in {"normal", "warning", "saturated"}
  /\ \A i \in 1 .. Len(log) : log[i] \in {"saturation", "predicted", "recovered"}

\* For every legal policy the recovery level lies below the saturation level,
\* and the warning level is not above it, despite the rounding: a backlog at
\* the threshold is never announced as recovered.
LevelsOrdered == RecoveryThreshold < policy.threshold /\ WarnThreshold <= policy.threshold

\* Every recovery announced by observeQueueBacklog answers an alert of its own.
RecoveryAnswersAlert == recoveries <= alerts

\* Between observations the last entry of the history agrees with the flags
\* that the status endpoint returns beside it.
LatestAgrees == history # << >> => history[Len(history)] = State(satActive, warnActive)

Quiet == unobserved = 0 /\ \A o \in Observers : obs[o].at = "idle"

\* Once every notification is handled the saturation flag says whether the
\* backlog reaches the threshold, if the latest observation was undisturbed:
\* no other was between its readings and its update when it began or has begun
\* since, the policy has not changed and no canceled job has been dropped.
FreshWhenQuiet == Quiet /\ alone => satActive = (pending >= policy.threshold)

=============================================================================
