---------------------------- MODULE ServicesProofs ---------------------------
(***************************************************************************)
(* What the services around the job queue promise, for any number of jobs, *)
(* observers, schedules, loops, streams, runs and requests, and whichever  *)
(* of them is at work.  Each service has an inductive invariant, here or   *)
(* in ServiceInvariants; the properties of Services follow from them.      *)
(***************************************************************************)
EXTENDS Services, ServiceInvariants

\* Zenon proves a leaf unless the leaf names another prover.
USE Zenon

\* Each instance has the operators on finite sets under its own name.
LEMMA SameCardinality == \A S : Snapshots!Cardinality(S) = Cardinality(S)
  BY DEF Snapshots!Cardinality, Cardinality

-----------------------------------------------------------------------------
(* Backlog tracking *)

Tracking ==
  [at : {"idle", "status", "update", "emit"}, now : Nat, seen : Nat,
   emit : {"none", "saturation", "predicted", "recovered"}]

TrackingTypes ==
  /\ obs \in [Observers -> Tracking]
  /\ \A o \in Observers : obs[o].at = "emit" => obs[o].emit # "none"

CountTypes ==
  /\ pending \in 0 .. MaxPending /\ canceled \in 0 .. pending
  /\ clock \in Nat /\ changes \in 0 .. MaxChanges /\ unobserved \in 0 .. changes + 1

PolicyTypes ==
  /\ policy.threshold \in Int /\ policy.warning \in Int /\ policy.recovery \in Int
  /\ SLO!Legal(policy)

FlagTypes == satActive \in BOOLEAN /\ warnActive \in BOOLEAN /\ alone \in BOOLEAN

RecordTypes ==
  /\ history \in Seq({"normal", "warning", "saturated"}) /\ Len(history) <= HistoryLimit
  /\ log \in Seq({"saturation", "predicted", "recovered"})
  /\ alerts \in Nat /\ recoveries \in Nat

BacklogTypes == TrackingTypes /\ CountTypes /\ PolicyTypes /\ FlagTypes /\ RecordTypes

Busy(o) == obs[o].at \in {"status", "update"}

\* While the latest observation is undisturbed it is the only one between its
\* readings and its update, and what it has read or written is up to date
\* unless another one is due.
FreshInv ==
  alone =>
    /\ \A o, p \in Observers : Busy(o) /\ Busy(p) => o = p
    /\ \A o \in Observers : obs[o].at = "update" => unobserved > 0 \/ obs[o].seen = pending
    /\ (\A o \in Observers : ~Busy(o)) => unobserved > 0 \/ satActive = (pending >= policy.threshold)

\* An alert is open while a flag is set, and is answered once.
AnswersInv == recoveries + (IF satActive \/ warnActive THEN 1 ELSE 0) <= alerts

BacklogInv == BacklogTypes /\ AnswersInv /\ SLO!LatestAgrees /\ FreshInv

LEMMA BacklogInit == SLO!Init => BacklogInv
<1> SUFFICES ASSUME SLO!Init PROVE BacklogInv
  OBVIOUS
<1> USE DEF SLO!Init
<1>1. TrackingTypes
  BY DEF TrackingTypes, Tracking, SLO!Ready
<1>2. PolicyTypes
  <2>1. 300 \in SLO!MinProjection .. SLO!MaxProjection
    BY SMT DEF SLO!MinProjection, SLO!MaxProjection
  <2> QED
    BY <2>1, BacklogAssumption, SMT DEF PolicyTypes, SLO!Legal
<1>3. CountTypes /\ RecordTypes
  BY BacklogAssumption, SMT DEF CountTypes, RecordTypes
<1>4. FlagTypes
  BY DEF FlagTypes
<1> QED
  BY <1>1, <1>2, <1>3, <1>4, SMT DEF BacklogInv, BacklogTypes, AnswersInv, SLO!LatestAgrees, FreshInv

\* Rounding down keeps a part of the threshold below it.
LEMMA PartBelow ==
  ASSUME NEW t \in Nat \ {0}, NEW w \in 1 .. 99
  PROVE  (t * w) \div 100 < t
<1>1. t * w <= t * 99
  BY SMT
<1>2. t * w \in Nat
  BY SMT
<1>3. PICK x \in Nat : x = t * w
  BY <1>2
<1>4. x <= 99 * t
  BY <1>1, <1>3, SMT
<1>5. x \div 100 < t
  BY <1>4, SMT
<1> QED
  BY <1>3, <1>5

\* What SetPolicy accepts.
LEMMA LegalFacts ==
  ASSUME NEW p, p.threshold \in Int, SLO!Legal(p)
  PROVE  p.threshold \in Nat \ {0} /\ p.warning \in 1 .. 99 /\ p.recovery \in 1 .. 99
  BY SMT DEF SLO!Legal

\* For every policy that SetPolicy accepts the levels are in order.
LEMMA LevelsHold == ASSUME BacklogTypes PROVE SLO!LevelsOrdered
<1>1. policy.threshold \in Nat \ {0} /\ policy.warning \in 1 .. 99 /\ policy.recovery \in 1 .. 99
  <2>1. policy.threshold \in Int /\ SLO!Legal(policy)
    BY DEF BacklogTypes, PolicyTypes
  <2> QED
    BY <2>1, LegalFacts
<1>2. (policy.threshold * policy.recovery) \div 100 < policy.threshold
  BY <1>1, PartBelow
<1>3. (policy.threshold * policy.warning) \div 100 < policy.threshold
  BY <1>1, PartBelow
<1> QED
  BY <1>1, <1>2, <1>3, SMT DEF SLO!LevelsOrdered, SLO!RecoveryThreshold, SLO!WarnThreshold, SLO!AtLeast

\* Each announced change of the queue is still to be observed.
LEMMA AnnounceKeeps ==
  ASSUME BacklogInv, SLO!Announce, pending' \in 0 .. MaxPending, canceled' \in 0 .. pending'
  PROVE  BacklogInv'
<1> USE DEF SLO!Announce, SLO!sloVars
<1>1. CountTypes' /\ unobserved' > 0
  <2>1. CountTypes /\ changes < MaxChanges /\ changes' = changes + 1 /\ unobserved' = unobserved + 1 /\ clock' = clock
    BY DEF BacklogInv, BacklogTypes
  <2>2. MaxChanges \in Nat
    BY BacklogAssumption
  <2> QED
    BY <2>1, <2>2, SMT DEF CountTypes
<1>2. BacklogTypes'
  BY <1>1 DEF BacklogInv, BacklogTypes, TrackingTypes, PolicyTypes, FlagTypes, RecordTypes
<1>3. FreshInv'
  BY <1>1 DEF BacklogInv, FreshInv, Busy
<1> QED
  BY <1>2, <1>3 DEF BacklogInv, AnswersInv, SLO!LatestAgrees, SLO!State

\* An observer moves on; the flags and the records stay.
LEMMA TrackingStep ==
  ASSUME TrackingTypes, NEW o \in Observers, NEW r \in Tracking, r.at = "emit" => r.emit # "none",
         obs' = [obs EXCEPT ![o] = r]
  PROVE  TrackingTypes' /\ \A p \in Observers : obs'[p] = IF p = o THEN r ELSE obs[p]
<1>1. obs' \in [Observers -> Tracking]
  BY DEF TrackingTypes
<1>2. \A p \in Observers : obs'[p] = IF p = o THEN r ELSE obs[p]
  BY DEF TrackingTypes
<1> QED
  BY <1>1, <1>2 DEF TrackingTypes

\* An observation begins; it is undisturbed if no other is under way.
LEMMA ObserveKeeps ==
  ASSUME BacklogInv, NEW o \in Observers, SLO!Observe(o)
  PROVE  BacklogInv'
<1> USE DEF SLO!Observe, SLO!queueVars, SLO!sloVars
<1> DEFINE r == [obs[o] EXCEPT !.at = "status", !.now = clock]
<1>1. r \in Tracking /\ r.at = "status"
  BY DEF BacklogInv, BacklogTypes, TrackingTypes, CountTypes, Tracking
<1>2. TrackingTypes' /\ \A p \in Observers : obs'[p] = IF p = o THEN r ELSE obs[p]
  BY <1>1, TrackingStep DEF BacklogInv, BacklogTypes
<1>3. CountTypes'
  BY SMT DEF BacklogInv, BacklogTypes, CountTypes
<1>4. BacklogTypes'
  BY <1>2, <1>3 DEF BacklogInv, BacklogTypes, PolicyTypes, FlagTypes, RecordTypes
<1>5. FreshInv'
  <2> SUFFICES ASSUME alone' PROVE FreshInv'
    BY DEF FreshInv
  <2>1. \A p \in Observers : obs[p].at = "idle" \/ obs[p].at = "emit"
    OBVIOUS
  <2>2. obs'[o].at = "status" /\ \A p \in Observers \ {o} : obs'[p].at = "idle" \/ obs'[p].at = "emit"
    BY <1>1, <1>2, <2>1
  <2>3. Busy(o)' /\ \A p \in Observers : Busy(p)' => p = o
    BY <2>2 DEF Busy
  <2>4. \A p \in Observers : ~(obs'[p].at = "update")
    BY <2>2
  <2> QED
    BY <2>3, <2>4 DEF FreshInv
<1> QED
  BY <1>4, <1>5 DEF BacklogInv, AnswersInv, SLO!LatestAgrees, SLO!State

\* The length of the queue is read.
LEMMA StatusKeeps ==
  ASSUME BacklogInv, NEW o \in Observers, SLO!ControlStatus(o)
  PROVE  BacklogInv'
<1> USE DEF SLO!ControlStatus, SLO!queueVars, SLO!sloVars
<1> DEFINE r == [obs[o] EXCEPT !.at = "update", !.seen = pending]
<1>1. r \in Tracking /\ r.at = "update" /\ r.seen = pending
  <2>1. pending \in Nat
    BY SMT DEF BacklogInv, BacklogTypes, CountTypes
  <2> QED
    BY <2>1 DEF BacklogInv, BacklogTypes, TrackingTypes, Tracking
<1>2. TrackingTypes' /\ \A p \in Observers : obs'[p] = IF p = o THEN r ELSE obs[p]
  BY <1>1, TrackingStep DEF BacklogInv, BacklogTypes
<1>3. BacklogTypes'
  BY <1>2 DEF BacklogInv, BacklogTypes, CountTypes, PolicyTypes, FlagTypes, RecordTypes
<1>4. \A p \in Observers : Busy(p)' <=> Busy(p)
  BY <1>1, <1>2 DEF Busy
<1>5. \A p \in Observers : obs'[p].at = "update" /\ p # o => obs[p].at = "update" /\ obs'[p].seen = obs[p].seen
  BY <1>2
<1>6. obs'[o].seen = pending' /\ unobserved' = unobserved
  BY <1>1, <1>2
<1>7. FreshInv'
  BY <1>4, <1>5, <1>6 DEF BacklogInv, FreshInv
<1> QED
  BY <1>3, <1>7 DEF BacklogInv, AnswersInv, SLO!LatestAgrees, SLO!State

\* The event is appended to the log.
LEMMA EmitKeeps ==
  ASSUME BacklogInv, NEW o \in Observers, SLO!Emit(o)
  PROVE  BacklogInv'
<1> USE DEF SLO!Emit, SLO!queueVars, SLO!sloVars
<1>1. SLO!Ready \in Tracking /\ SLO!Ready.at = "idle"
  BY DEF SLO!Ready, Tracking
<1>2. TrackingTypes' /\ \A p \in Observers : obs'[p] = IF p = o THEN SLO!Ready ELSE obs[p]
  BY <1>1, TrackingStep DEF BacklogInv, BacklogTypes
<1>3. obs[o].emit \in {"saturation", "predicted", "recovered"}
  BY DEF BacklogInv, BacklogTypes, TrackingTypes, Tracking
<1>4. RecordTypes'
  BY <1>3, SMT DEF BacklogInv, BacklogTypes, RecordTypes
<1>5. BacklogTypes'
  BY <1>2, <1>4 DEF BacklogInv, BacklogTypes, CountTypes, PolicyTypes, FlagTypes
<1>6. \A p \in Observers : Busy(p)' <=> Busy(p)
  BY <1>1, <1>2 DEF Busy
<1>7. \A p \in Observers : obs'[p].at = "update" => obs[p].at = "update" /\ obs'[p].seen = obs[p].seen
  BY <1>1, <1>2
<1>8. FreshInv'
  BY <1>6, <1>7 DEF BacklogInv, FreshInv
<1> QED
  BY <1>5, <1>8 DEF BacklogInv, AnswersInv, SLO!LatestAgrees, SLO!State

\* The record keeps the latest states up to its limit.
LEMMA RecordedLast ==
  ASSUME RecordTypes, NEW x \in {"normal", "warning", "saturated"}
  PROVE  /\ SLO!Recorded(x) \in Seq({"normal", "warning", "saturated"})
         /\ Len(SLO!Recorded(x)) <= HistoryLimit
         /\ SLO!Recorded(x)[Len(SLO!Recorded(x))] = x
<1> DEFINE S == {"normal", "warning", "saturated"}
<1>1. history \in Seq(S) /\ Len(history) <= HistoryLimit /\ HistoryLimit \in Nat \ {0}
  BY BacklogAssumption DEF RecordTypes
<1>2. PICK h \in Seq(S) : SLO!Recorded(x) = Append(h, x) /\ Len(h) < HistoryLimit
  <2>1. CASE Len(history) >= HistoryLimit
    <3>1. Tail(history) \in Seq(S) /\ Len(Tail(history)) = Len(history) - 1
      BY <1>1, <2>1, SMT
    <3>2. Len(Tail(history)) < HistoryLimit
      BY <1>1, <3>1, SMT
    <3> QED
      BY <2>1, <3>1, <3>2 DEF SLO!Recorded
  <2>2. CASE ~(Len(history) >= HistoryLimit)
    <3>1. Len(history) < HistoryLimit
      BY <1>1, <2>2, SMT
    <3> QED
      BY <1>1, <2>2, <3>1 DEF SLO!Recorded
  <2> QED
    BY <2>1, <2>2
<1>3. Append(h, x) \in Seq(S) /\ Len(Append(h, x)) <= HistoryLimit /\ Append(h, x)[Len(Append(h, x))] = x
  BY <1>1, <1>2, SMT
<1> QED
  BY <1>2, <1>3

\* The new flags and the event they call for, given the flags before.
LEMMA EventAnswers ==
  ASSUME FlagTypes, NEW sat \in BOOLEAN, NEW warn \in BOOLEAN, NEW seen, NEW event,
         event = SLO!Event(sat, warn, seen)
  PROVE  /\ event \in {"saturation", "predicted", "recovered", "none"}
         /\ event = "recovered" => (satActive \/ warnActive) /\ ~sat /\ ~warn
         /\ event = "none" /\ (sat \/ warn) => satActive \/ warnActive
<1>1. CASE sat /\ ~satActive
  BY <1>1 DEF SLO!Event, FlagTypes
<1>2. CASE ~(sat /\ ~satActive) /\ warn /\ ~warnActive
  BY <1>2 DEF SLO!Event, FlagTypes
<1>3. CASE ~(sat /\ ~satActive) /\ ~(warn /\ ~warnActive)
  BY <1>3 DEF SLO!Event, FlagTypes
<1> QED
  BY <1>1, <1>2, <1>3 DEF FlagTypes

\* The critical section of metricsMu: what was seen decides on the flags, the
\* last entry of the history agrees with them, and a recovery closes an alert.
LEMMA UpdateKeeps ==
  ASSUME BacklogInv, NEW o \in Observers, SLO!Update(o)
  PROVE  BacklogInv'
<1> DEFINE seen == obs[o].seen
           kept == SLO!Sampled(obs[o].now, seen)
           sat == SLO!Saturated(seen)
           warn == ~sat /\ SLO!Predictive(kept) /\ seen >= SLO!WarnThreshold
           event == SLO!Event(sat, warn, seen)
           r == IF event = "none" THEN SLO!Ready ELSE [obs[o] EXCEPT !.at = "emit", !.emit = event]
           x == SLO!State(sat, warn)
<1>1. /\ obs[o].at = "update"
      /\ satActive' = sat /\ warnActive' = warn /\ history' = SLO!Recorded(x)
      /\ alerts' = alerts + (IF event \in {"saturation", "predicted"} THEN 1 ELSE 0)
      /\ recoveries' = recoveries + (IF event = "recovered" THEN 1 ELSE 0)
      /\ obs' = [obs EXCEPT ![o] = r]
      /\ UNCHANGED <<pending, canceled, changes, clock, unobserved, policy, log, alone>>
  BY DEF SLO!Update, SLO!queueVars
<1>2. sat \in BOOLEAN /\ warn \in BOOLEAN
  BY SMT DEF SLO!Saturated
<1>3. sat = (seen >= policy.threshold)
  BY DEF SLO!Saturated
<1> HIDE DEF kept, sat, warn
<1>4. x \in {"normal", "warning", "saturated"}
  BY <1>2 DEF SLO!State
<1>5. /\ event \in {"saturation", "predicted", "recovered", "none"}
      /\ event = "recovered" => (satActive \/ warnActive) /\ ~sat /\ ~warn
      /\ event = "none" /\ (sat \/ warn) => satActive \/ warnActive
  BY <1>2, EventAnswers DEF BacklogInv, BacklogTypes
<1> HIDE DEF event
<1>6. r \in Tracking /\ (r.at = "emit" => r.emit # "none") /\ r.at \in {"idle", "emit"}
  BY <1>5 DEF BacklogInv, BacklogTypes, TrackingTypes, Tracking, SLO!Ready
<1> HIDE DEF r, x
<1>7. TrackingTypes' /\ \A p \in Observers : obs'[p] = IF p = o THEN r ELSE obs[p]
  BY <1>1, <1>6, TrackingStep DEF BacklogInv, BacklogTypes
<1>8. RecordTypes' /\ SLO!LatestAgrees'
  <2>1. RecordTypes
    BY DEF BacklogInv, BacklogTypes
  <2>2. alerts' \in Nat /\ recoveries' \in Nat
    BY <1>1, <2>1, SMT DEF RecordTypes
  <2> QED
    BY <1>1, <1>4, <2>1, <2>2, RecordedLast DEF RecordTypes, SLO!LatestAgrees, x
<1>9. AnswersInv'
  <2>1. AnswersInv /\ alerts \in Nat /\ recoveries \in Nat
    BY DEF BacklogInv, BacklogTypes, RecordTypes
  <2>2. CASE event \in {"saturation", "predicted"}
    BY <1>1, <2>1, <2>2, SMT DEF AnswersInv
  <2>3. CASE event = "recovered"
    <3>1. (satActive \/ warnActive) /\ ~satActive' /\ ~warnActive'
      BY <1>1, <1>5, <2>3
    <3> QED
      BY <1>1, <2>1, <2>3, <3>1, SMT DEF AnswersInv
  <2>4. CASE event = "none"
    <3>1. satActive' \/ warnActive' => satActive \/ warnActive
      BY <1>1, <1>5, <2>4
    <3> QED
      BY <1>1, <2>1, <2>4, <3>1, SMT DEF AnswersInv
  <2> QED
    BY <1>5, <2>2, <2>3, <2>4
<1>10. FreshInv'
  <2> SUFFICES ASSUME alone' PROVE FreshInv'
    BY DEF FreshInv
  <2>1. alone
    BY <1>1
  <2>2. Busy(o)
    BY <1>1 DEF Busy
  <2>3. \A p \in Observers : Busy(p) => p = o
    BY <2>1, <2>2 DEF BacklogInv, FreshInv
  <2>4. \A p \in Observers : ~Busy(p)'
    BY <1>6, <1>7, <2>3 DEF Busy
  <2>5. unobserved > 0 \/ seen = pending
    BY <1>1, <2>1 DEF BacklogInv, FreshInv
  <2>6. unobserved' > 0 \/ satActive' = (pending' >= policy'.threshold)
    <3>1. UNCHANGED <<pending, policy, unobserved>> /\ satActive' = (seen >= policy.threshold)
      BY <1>1, <1>3
    <3>2. CASE seen = pending
      BY <3>1, <3>2
    <3> QED
      BY <2>5, <3>1, <3>2
  <2>7. \A p \in Observers : ~(obs'[p].at = "update")
    BY <2>4 DEF Busy
  <2> QED
    BY <2>4, <2>6, <2>7 DEF FreshInv
<1>11. BacklogTypes'
  BY <1>1, <1>2, <1>7, <1>8 DEF BacklogInv, BacklogTypes, CountTypes, PolicyTypes, FlagTypes
<1> QED
  BY <1>8, <1>9, <1>10, <1>11 DEF BacklogInv

\* A step that ends the undisturbed observation, if there is one, and leaves
\* the observers and their records alone.
LEMMA DisturbKeeps ==
  ASSUME BacklogInv, CountTypes', PolicyTypes', alone' = FALSE \/ UNCHANGED <<alone, pending, unobserved, policy>>,
         UNCHANGED <<obs, satActive, warnActive, history, alerts, recoveries, log>>
  PROVE  BacklogInv'
<1>1. BacklogTypes'
  BY DEF BacklogInv, BacklogTypes, TrackingTypes, FlagTypes, RecordTypes
<1>2. FreshInv'
  BY DEF BacklogInv, FreshInv, Busy
<1> QED
  BY <1>1, <1>2 DEF BacklogInv, AnswersInv, SLO!LatestAgrees, SLO!State

LEMMA BacklogStep == BacklogInv /\ [SLO!Next]_(SLO!vars) => BacklogInv'
<1> SUFFICES ASSUME BacklogInv, [SLO!Next]_(SLO!vars) PROVE BacklogInv'
  OBVIOUS
<1>0. CountTypes /\ PolicyTypes
  BY DEF BacklogInv, BacklogTypes
<1>1. CASE SLO!Enqueue
  <2>1. pending' \in 0 .. MaxPending /\ canceled' \in 0 .. pending'
    BY <1>0, <1>1, BacklogAssumption, SMT DEF CountTypes, SLO!Enqueue
  <2> QED
    BY <1>1, <2>1, AnnounceKeeps DEF SLO!Enqueue
<1>2. CASE SLO!Start
  <2>1. pending' \in 0 .. MaxPending /\ canceled' \in 0 .. pending'
    BY <1>0, <1>2, BacklogAssumption, SMT DEF CountTypes, SLO!Start
  <2> QED
    BY <1>2, <2>1, AnnounceKeeps DEF SLO!Start
<1>3. CASE SLO!Cancel
  <2>1. pending' \in 0 .. MaxPending /\ canceled' \in 0 .. pending'
    BY <1>0, <1>3, BacklogAssumption, SMT DEF CountTypes, SLO!Cancel
  <2> QED
    BY <1>3, <2>1, AnnounceKeeps DEF SLO!Cancel
<1>4. CASE SLO!Drop
  <2>1. CountTypes'
    BY <1>0, <1>4, BacklogAssumption, SMT DEF CountTypes, SLO!Drop
  <2>2. PolicyTypes'
    BY <1>0, <1>4 DEF PolicyTypes, SLO!Drop
  <2> QED
    BY <1>4, <2>1, <2>2, DisturbKeeps DEF SLO!Drop, SLO!sloVars
<1>5. CASE SLO!Tick
  <2>1. CountTypes'
    BY <1>0, <1>5, BacklogAssumption, SMT DEF CountTypes, SLO!Tick, SLO!queueVars
  <2>2. PolicyTypes'
    BY <1>0, <1>5 DEF PolicyTypes, SLO!Tick
  <2> QED
    BY <1>5, <2>1, <2>2, DisturbKeeps DEF SLO!Tick, SLO!sloVars, SLO!queueVars
<1>6. ASSUME NEW p \in BacklogPolicies, SLO!SetPolicy(p) PROVE BacklogInv'
  <2>1. CountTypes'
    BY <1>0, <1>6 DEF CountTypes, SLO!SetPolicy, SLO!queueVars
  <2>2. PolicyTypes'
    BY <1>6, BacklogAssumption DEF PolicyTypes, SLO!SetPolicy, SLO!Legal
  <2> QED
    BY <1>6, <2>1, <2>2, DisturbKeeps DEF SLO!SetPolicy, SLO!sloVars
<1>7. ASSUME NEW o \in Observers, SLO!Observe(o) \/ SLO!ControlStatus(o) \/ SLO!Update(o) \/ SLO!Emit(o)
      PROVE  BacklogInv'
  BY <1>7, ObserveKeeps, StatusKeeps, UpdateKeeps, EmitKeeps
<1>8. CASE UNCHANGED SLO!vars
  <2>1. CountTypes' /\ PolicyTypes'
    BY <1>0, <1>8 DEF CountTypes, PolicyTypes, SLO!vars, SLO!queueVars
  <2> QED
    BY <1>8, <2>1, DisturbKeeps DEF SLO!vars, SLO!sloVars, SLO!queueVars
<1> QED
  BY <1>1, <1>2, <1>3, <1>4, <1>5, <1>6, <1>7, <1>8 DEF SLO!Next

-----------------------------------------------------------------------------
(* Runs and backups *)

Snaps == [parts : SUBSET {"runs", "events"}, runs : SUBSET Runs, events : SUBSET Runs]

Asking ==
  [at : {"idle", "reading", "removing", "saving"}, snap : Snaps, left : SUBSET Runs, half : SUBSET Runs, alone : BOOLEAN]

BackupTypes ==
  /\ file \in [Runs -> {"absent", "torn", "whole"}]
  /\ worker \in [Runs -> {"new", "writing", "saved", "ended", "lost"}]
  /\ events \subseteq Runs /\ crashes \in 0 .. MaxCrashes
  /\ snapshots \subseteq Snaps
  /\ request \in [Requests -> Asking]

IsSaved(r) == worker[r] \in {"saved", "ended"}

\* Only runs that were saved in full are whole, in a snapshot or on their way
\* into or out of one.
WholeInv ==
  /\ \A r \in Runs : file[r] = "whole" => IsSaved(r)
  /\ \A snap \in snapshots : \A r \in snap.runs : IsSaved(r)
  /\ \A q \in Requests : \A r \in request[q].snap.runs : IsSaved(r)

\* How far a restore has come.
RestoreInv(q) ==
  /\ request[q].left \subseteq request[q].snap.runs /\ request[q].half \subseteq request[q].left
  /\ request[q].half = {} \/ \E r \in Runs : request[q].half = {r}
  /\ request[q].half # {} => request[q].at = "saving"
  /\ request[q].at = "removing" => request[q].left = request[q].snap.runs

\* A restore that is alone finds the files as it has left them.
AloneInv(q) ==
  request[q].alone =>
    /\ Snapshots!Restoring(q)
    /\ \A p \in Requests : Snapshots!Restoring(p) => p = q
    /\ request[q].at = "saving" =>
         /\ \A r \in request[q].snap.runs \ request[q].left : file[r] = "whole"
         /\ \A r \in request[q].half : file[r] = "torn"

BackupInv ==
  /\ BackupTypes /\ WholeInv /\ short = FALSE
  /\ \A q \in Requests : RestoreInv(q) /\ AloneInv(q)

LEMMA IdleTyped ==
  /\ Snapshots!NoSnapshot \in Snaps /\ Snapshots!Idle \in Asking
  /\ Snapshots!Idle.at = "idle" /\ Snapshots!Idle.snap.runs = {} /\ Snapshots!Idle.left = {} /\ Snapshots!Idle.half = {}
  /\ Snapshots!Idle.alone = FALSE
  BY DEF Snapshots!Idle, Snapshots!NoSnapshot, Asking, Snaps

LEMMA BackupInit == Snapshots!Init => BackupInv
<1> SUFFICES ASSUME Snapshots!Init PROVE BackupInv
  OBVIOUS
<1> USE DEF Snapshots!Init
<1>1. crashes \in 0 .. MaxCrashes
  BY BackupAssumption, SMT
<1>2. BackupTypes /\ \A q \in Requests : request[q] = Snapshots!Idle
  BY <1>1, IdleTyped DEF BackupTypes
<1>3. WholeInv
  BY <1>2, IdleTyped DEF WholeInv
<1>4. \A q \in Requests : RestoreInv(q) /\ AloneInv(q)
  BY <1>2, IdleTyped DEF RestoreInv, AloneInv
<1> QED
  BY <1>2, <1>3, <1>4 DEF BackupInv

\* The worker does not touch a run that was saved.
LEMMA WorkerKeeps ==
  ASSUME BackupInv, BackupTypes', UNCHANGED <<snapshots, request, short>>,
         \A r \in Runs : IsSaved(r) => IsSaved(r)' /\ file'[r] = file[r],
         \A r \in Runs : file'[r] = "whole" => IsSaved(r)'
  PROVE  BackupInv'
<1>1. snapshots \subseteq Snaps /\ \A q \in Requests : request[q] \in Asking
  BY DEF BackupInv, BackupTypes
<1>2. \A snap \in snapshots : snap.runs \subseteq Runs
  BY <1>1 DEF Snaps
<1>3. \A q \in Requests : request[q].snap.runs \subseteq Runs
  BY <1>1 DEF Asking, Snaps
<1>4. WholeInv'
  BY <1>2, <1>3 DEF BackupInv, WholeInv
<1>5. ASSUME NEW q \in Requests PROVE RestoreInv(q)' /\ AloneInv(q)'
  <2>1. RestoreInv(q) /\ AloneInv(q) /\ \A r \in request[q].snap.runs : file'[r] = file[r]
    BY <1>3 DEF BackupInv, WholeInv
  <2>2. request[q].half \subseteq request[q].snap.runs
    BY <2>1 DEF RestoreInv
  <2>3. RestoreInv(q)'
    BY <2>1 DEF RestoreInv
  <2>4. AloneInv(q)'
    BY <2>1, <2>2 DEF AloneInv, Snapshots!Restoring
  <2> QED
    BY <2>3, <2>4
<1> QED
  BY <1>4, <1>5 DEF BackupInv

\* One request moves on.
LEMMA RequestStep ==
  ASSUME BackupInv, NEW q \in Requests, NEW x \in Asking, Snapshots!Moves(q, x)
  PROVE  request' \in [Requests -> Asking] /\ request'[q] = x /\ \A p \in Requests \ {q} : request'[p] = request[p]
  BY DEF BackupInv, BackupTypes, Snapshots!Moves

LEMMA AskingTyped ==
  ASSUME BackupInv, NEW q \in Requests
  PROVE  /\ request[q] \in Asking /\ request[q].snap \in Snaps /\ request[q].snap.runs \subseteq Runs
         /\ request[q].snap.events \subseteq Runs /\ request[q].left \subseteq Runs /\ request[q].half \subseteq Runs
<1>1. request[q] \in Asking
  BY DEF BackupInv, BackupTypes
<1> QED
  BY <1>1 DEF Asking, Snaps

\* The other requests notice a change of the files only when one of them is a
\* second restore.
LEMMA OthersKeep ==
  ASSUME BackupInv, NEW q \in Requests, \A p \in Requests \ {q} : request'[p] = request[p],
         Snapshots!Restoring(q)' => Snapshots!Restoring(q), file' = file \/ Snapshots!Restoring(q)
  PROVE  \A p \in Requests \ {q} : RestoreInv(p)' /\ AloneInv(p)'
<1> SUFFICES ASSUME NEW p \in Requests \ {q} PROVE RestoreInv(p)' /\ AloneInv(p)'
  OBVIOUS
<1>1. RestoreInv(p) /\ AloneInv(p) /\ request'[p] = request[p]
  BY DEF BackupInv
<1>2. RestoreInv(p)'
  BY <1>1 DEF RestoreInv
<1>3. \A o \in Requests : Snapshots!Restoring(o)' => Snapshots!Restoring(o)
  BY DEF Snapshots!Restoring
<1>4. Snapshots!Restoring(p) => Snapshots!Restoring(p)'
  BY <1>1 DEF Snapshots!Restoring
<1>5. AloneInv(p)'
  <2> SUFFICES ASSUME request[p].alone
               PROVE  /\ Snapshots!Restoring(p)'
                      /\ \A o \in Requests : Snapshots!Restoring(o)' => o = p
                      /\ request[p].at = "saving" =>
                           /\ \A r \in request[p].snap.runs \ request[p].left : file'[r] = "whole"
                           /\ \A r \in request[p].half : file'[r] = "torn"
    BY <1>1 DEF AloneInv
  <2>1. Snapshots!Restoring(p) /\ \A o \in Requests : Snapshots!Restoring(o) => o = p
    BY <1>1 DEF AloneInv
  <2>2. file' = file
    BY <2>1
  <2> QED
    BY <1>1, <1>3, <1>4, <2>1, <2>2 DEF AloneInv
<1> QED
  BY <1>2, <1>5

\* OpenRun, WriteRun and RecordEnd.
LEMMA SavingKeeps ==
  ASSUME BackupInv, NEW r \in Runs, Snapshots!OpenRun(r) \/ Snapshots!WriteRun(r) \/ Snapshots!RecordEnd(r)
  PROVE  BackupInv'
<1>0. BackupTypes /\ WholeInv
  BY DEF BackupInv
<1>1. CASE Snapshots!OpenRun(r)
  <2>1. /\ worker[r] = "new" /\ worker'[r] = "writing" /\ file'[r] = "torn"
        /\ \A o \in Runs \ {r} : worker'[o] = worker[o] /\ file'[o] = file[o]
    BY <1>0, <1>1 DEF BackupTypes, Snapshots!OpenRun
  <2>2. BackupTypes' /\ UNCHANGED <<snapshots, request, short>>
    BY <1>0, <1>1 DEF BackupTypes, Snapshots!OpenRun
  <2>3. \A o \in Runs : IsSaved(o) => IsSaved(o)' /\ file'[o] = file[o]
    BY <2>1 DEF IsSaved
  <2>4. \A o \in Runs : file'[o] = "whole" => IsSaved(o)'
    BY <1>0, <2>1 DEF IsSaved, WholeInv
  <2> QED
    BY <2>2, <2>3, <2>4, WorkerKeeps
<1>2. CASE Snapshots!WriteRun(r)
  <2>1. /\ worker[r] = "writing" /\ worker'[r] = "saved"
        /\ \A o \in Runs \ {r} : worker'[o] = worker[o] /\ file'[o] = file[o]
    BY <1>0, <1>2 DEF BackupTypes, Snapshots!WriteRun
  <2>2. BackupTypes' /\ UNCHANGED <<snapshots, request, short>>
    BY <1>0, <1>2 DEF BackupTypes, Snapshots!WriteRun
  <2>3. \A o \in Runs : IsSaved(o) => IsSaved(o)' /\ file'[o] = file[o]
    BY <2>1 DEF IsSaved
  <2>4. \A o \in Runs : file'[o] = "whole" => IsSaved(o)'
    BY <1>0, <2>1 DEF IsSaved, WholeInv
  <2> QED
    BY <2>2, <2>3, <2>4, WorkerKeeps
<1>3. CASE Snapshots!RecordEnd(r)
  <2>1. /\ worker[r] = "saved" /\ worker'[r] = "ended" /\ \A o \in Runs \ {r} : worker'[o] = worker[o]
    BY <1>0, <1>3 DEF BackupTypes, Snapshots!RecordEnd
  <2>2. BackupTypes' /\ UNCHANGED <<file, snapshots, request, short>>
    BY <1>0, <1>3 DEF BackupTypes, Snapshots!RecordEnd
  <2>3. \A o \in Runs : IsSaved(o) => IsSaved(o)' /\ file'[o] = file[o]
    BY <2>1, <2>2 DEF IsSaved
  <2>4. \A o \in Runs : file'[o] = "whole" => IsSaved(o)'
    BY <1>0, <2>2, <2>3 DEF WholeInv
  <2> QED
    BY <2>2, <2>3, <2>4, WorkerKeeps
<1> QED
  BY <1>1, <1>2, <1>3

\* A request moves on and the worker does not.
LEMMA RequestKeeps ==
  ASSUME BackupInv, NEW q \in Requests, NEW x \in Asking, Snapshots!Moves(q, x), file' \in [Runs -> {"absent", "torn", "whole"}],
         events' \subseteq Runs, UNCHANGED <<worker, crashes>>, short' = FALSE,
         x.at \in {"removing", "saving"} => Snapshots!Restoring(q), file' = file \/ Snapshots!Restoring(q),
         \A r \in Runs : file'[r] = "whole" => IsSaved(r), \A r \in x.snap.runs : IsSaved(r),
         snapshots' \subseteq Snaps, \A snap \in snapshots' : \A r \in snap.runs : IsSaved(r),
         RestoreInv(q)', AloneInv(q)'
  PROVE  BackupInv'
<1>1. request' \in [Requests -> Asking] /\ request'[q] = x /\ \A p \in Requests \ {q} : request'[p] = request[p]
  BY RequestStep
<1>2. BackupTypes'
  BY <1>1 DEF BackupInv, BackupTypes
<1>3. \A r : IsSaved(r)' <=> IsSaved(r)
  BY DEF IsSaved
<1>4. ASSUME NEW p \in Requests, NEW r \in request'[p].snap.runs PROVE IsSaved(r)
  <2>1. CASE p = q
    BY <1>1, <1>4, <2>1
  <2>2. CASE p # q
    BY <1>1, <1>4, <2>2 DEF BackupInv, WholeInv
  <2> QED
    BY <2>1, <2>2
<1>5. WholeInv'
  BY <1>3, <1>4 DEF WholeInv
<1>6. Snapshots!Restoring(q)' => Snapshots!Restoring(q)
  BY <1>1 DEF Snapshots!Restoring
<1>7. \A p \in Requests \ {q} : RestoreInv(p)' /\ AloneInv(p)'
  BY <1>1, <1>6, OthersKeep
<1>8. \A p \in Requests : RestoreInv(p)' /\ AloneInv(p)'
  BY <1>7
<1> QED
  BY <1>2, <1>5, <1>8 DEF BackupInv

LEMMA BackupKept ==
  ASSUME BackupInv
  PROVE  /\ file \in [Runs -> {"absent", "torn", "whole"}] /\ events \subseteq Runs /\ short = FALSE
         /\ snapshots \subseteq Snaps /\ \A snap \in snapshots : \A r \in snap.runs : IsSaved(r)
         /\ \A r \in Runs : file[r] = "whole" => IsSaved(r)
         /\ \A q \in Requests : RestoreInv(q) /\ AloneInv(q) /\ \A r \in request[q].snap.runs : IsSaved(r)
  BY DEF BackupInv, BackupTypes, WholeInv

LEMMA ReadKeeps ==
  ASSUME BackupInv, NEW q \in Requests, NEW parts \in Snapshots!Parts, Snapshots!ReadRuns(q, parts)
  PROVE  BackupInv'
<1> USE DEF Snapshots!ReadRuns
<1> DEFINE runs == IF "runs" \in parts THEN Snapshots!OnDisk ELSE {}
           snap == [Snapshots!NoSnapshot EXCEPT !.parts = parts, !.runs = runs]
           x == [Snapshots!Idle EXCEPT !.at = "reading", !.snap = snap]
<1>1. runs \subseteq Runs /\ \A r \in runs : IsSaved(r)
  <2>1. \A r \in Runs : file[r] \in {"absent", "torn", "whole"} /\ (file[r] = "whole" => IsSaved(r))
    BY BackupKept
  <2> QED
    BY <2>1 DEF Snapshots!OnDisk, Snapshots!ListRunsFails
<1>2. Snapshots!Moves(q, x)
  OBVIOUS
<1> HIDE DEF runs
<1>3. parts \subseteq {"runs", "events"}
  BY DEF Snapshots!Parts
<1>4. snap \in Snaps /\ snap.runs = runs
  BY <1>1, <1>3, IdleTyped DEF Snaps
<1> HIDE DEF snap
<1>5. x \in Asking /\ x.at = "reading" /\ x.snap = snap /\ x.left = {} /\ x.half = {} /\ x.alone = FALSE
  BY <1>4, IdleTyped DEF Asking
<1> HIDE DEF x
<1>6. request'[q] = x
  BY <1>2, <1>5, RequestStep
<1>7. RestoreInv(q)' /\ AloneInv(q)'
  BY <1>5, <1>6 DEF RestoreInv, AloneInv
<1> QED
  BY <1>1, <1>2, <1>4, <1>5, <1>7, BackupKept, RequestKeeps

LEMMA PutKeeps ==
  ASSUME BackupInv, NEW q \in Requests, Snapshots!PutSnapshot(q)
  PROVE  BackupInv'
<1> USE DEF Snapshots!PutSnapshot
<1> DEFINE recorded == IF "events" \in request[q].snap.parts THEN events ELSE {}
           snap == [request[q].snap EXCEPT !.events = recorded]
<1>1. request[q].snap \in Snaps /\ recorded \subseteq Runs
  BY AskingTyped, BackupKept
<1>2. snapshots' = snapshots \cup {snap}
  OBVIOUS
<1> HIDE DEF recorded
<1>3. snap \in Snaps /\ snap.runs = request[q].snap.runs
  BY <1>1 DEF Snaps
<1> HIDE DEF snap
<1>4. snapshots' \subseteq Snaps /\ \A s \in snapshots' : \A r \in s.runs : IsSaved(r)
  BY <1>2, <1>3, BackupKept
<1>5. request'[q] = Snapshots!Idle
  BY IdleTyped, RequestStep
<1>6. RestoreInv(q)' /\ AloneInv(q)'
  BY <1>5, IdleTyped DEF RestoreInv, AloneInv
<1> QED
  BY <1>4, <1>6, IdleTyped, BackupKept, RequestKeeps

\* Fetch: a restore is alone when it finds no other, and stays so until another
\* one begins.
LEMMA FetchKeeps ==
  ASSUME BackupInv, NEW q \in Requests, NEW snap \in snapshots, Snapshots!Fetch(q, snap)
  PROVE  BackupInv'
<1> USE DEF Snapshots!Fetch
<1> DEFINE single == \A o \in Requests : ~Snapshots!Restoring(o)
           x == [Snapshots!Idle EXCEPT !.at = "removing", !.snap = snap, !.left = snap.runs, !.alone = single]
<1>1. snap \in Snaps /\ snap.runs \subseteq Runs /\ single \in BOOLEAN /\ \A r \in snap.runs : IsSaved(r)
  BY BackupKept DEF Snaps
<1>2. request'[q] = x
  OBVIOUS
<1>3. x \in Asking /\ x.at = "removing" /\ x.snap = snap /\ x.left = snap.runs /\ x.half = {} /\ x.alone = single
  BY <1>1, IdleTyped DEF Asking
<1> HIDE DEF x
<1>4. ASSUME NEW p \in Requests \ {q}
      PROVE  /\ request'[p] \in Asking /\ request'[p].alone = FALSE
             /\ request'[p].at = request[p].at /\ request'[p].snap = request[p].snap
             /\ request'[p].left = request[p].left /\ request'[p].half = request[p].half
  <2>1. request[p] \in Asking /\ request'[p] = [request[p] EXCEPT !.alone = FALSE]
    BY AskingTyped
  <2> QED
    BY <2>1 DEF Asking
<1>5. request' \in [Requests -> Asking]
  <2>1. DOMAIN request' = Requests /\ request' = [p \in Requests |-> request'[p]]
    OBVIOUS
  <2>2. \A p \in Requests : request'[p] \in Asking
    BY <1>2, <1>3, <1>4
  <2> QED
    BY <2>1, <2>2
<1>6. BackupTypes'
  BY <1>5 DEF BackupInv, BackupTypes
<1>7. WholeInv'
  <2>1. ASSUME NEW p \in Requests, NEW r \in request'[p].snap.runs PROVE IsSaved(r)
    <3>1. CASE p = q
      BY <1>1, <1>2, <1>3, <2>1, <3>1
    <3>2. CASE p # q
      BY <1>4, <2>1, <3>2, BackupKept
    <3> QED
      BY <3>1, <3>2
  <2>2. \A r : IsSaved(r)' <=> IsSaved(r)
    BY DEF IsSaved
  <2> QED
    BY <2>1, <2>2, BackupKept DEF WholeInv
<1>8. ASSUME NEW p \in Requests PROVE RestoreInv(p)'
  <2>1. CASE p = q
    BY <1>2, <1>3, <2>1 DEF RestoreInv
  <2>2. CASE p # q
    <3>1. RestoreInv(p)
      BY BackupKept
    <3> QED
      BY <1>4, <2>2, <3>1 DEF RestoreInv
  <2> QED
    BY <2>1, <2>2
<1>9. ASSUME NEW p \in Requests PROVE AloneInv(p)'
  <2>1. CASE p = q
    <3> SUFFICES ASSUME single PROVE Snapshots!Restoring(q)' /\ \A o \in Requests : Snapshots!Restoring(o)' => o = q
      BY <1>2, <1>3, <2>1 DEF AloneInv
    <3>1. \A o \in Requests \ {q} : Snapshots!Restoring(o)' => Snapshots!Restoring(o)
      BY <1>4 DEF Snapshots!Restoring
    <3> QED
      BY <1>2, <1>3, <3>1 DEF Snapshots!Restoring
  <2>2. CASE p # q
    BY <1>4, <2>2 DEF AloneInv
  <2> QED
    BY <2>1, <2>2
<1> QED
  BY <1>6, <1>7, <1>8, <1>9 DEF BackupInv

LEMMA RemoveKeeps ==
  ASSUME BackupInv, NEW q \in Requests, Snapshots!RemoveRuns(q)
  PROVE  BackupInv'
<1> USE DEF Snapshots!RemoveRuns
<1> DEFINE x == [request[q] EXCEPT !.at = "saving"]
<1>1. request[q] \in Asking /\ RestoreInv(q) /\ AloneInv(q) /\ \A r \in request[q].snap.runs : IsSaved(r)
  BY AskingTyped, BackupKept
<1>2. /\ x \in Asking /\ x.at = "saving" /\ x.snap = request[q].snap /\ x.left = request[q].left
      /\ x.half = request[q].half /\ x.alone = request[q].alone
  BY <1>1 DEF Asking
<1>3. Snapshots!Moves(q, x)
  OBVIOUS
<1> HIDE DEF x
<1>4. request'[q] = x /\ \A p \in Requests \ {q} : request'[p] = request[p]
  BY <1>2, <1>3, RequestStep
<1>5. request[q].half = {} /\ request[q].left = request[q].snap.runs
  BY <1>1 DEF RestoreInv
<1>6. RestoreInv(q)'
  BY <1>2, <1>4, <1>5 DEF RestoreInv
<1>7. \A p \in Requests : Snapshots!Restoring(p)' <=> Snapshots!Restoring(p)
  BY <1>2, <1>4 DEF Snapshots!Restoring
<1>8. AloneInv(q)'
  BY <1>1, <1>2, <1>4, <1>5, <1>7 DEF AloneInv
<1>9. /\ file' \in [Runs -> {"absent", "torn", "whole"}] /\ \A r \in Runs : file'[r] # "whole"
      /\ Snapshots!Restoring(q)
  BY DEF Snapshots!Restoring
<1> QED
  BY <1>1, <1>2, <1>3, <1>6, <1>8, <1>9, BackupKept, RequestKeeps

LEMMA OpenKeeps ==
  ASSUME BackupInv, NEW q \in Requests, NEW r \in Runs, Snapshots!OpenRestored(q, r)
  PROVE  BackupInv'
<1> USE DEF Snapshots!OpenRestored
<1> DEFINE x == [request[q] EXCEPT !.half = {r}]
<1>1. request[q] \in Asking /\ RestoreInv(q) /\ AloneInv(q) /\ \A o \in request[q].snap.runs : IsSaved(o)
  BY AskingTyped, BackupKept
<1>2. /\ x \in Asking /\ x.at = request[q].at /\ x.snap = request[q].snap /\ x.left = request[q].left
      /\ x.half = {r} /\ x.alone = request[q].alone
  BY <1>1 DEF Asking
<1>3. Snapshots!Moves(q, x)
  OBVIOUS
<1> HIDE DEF x
<1>4. request'[q] = x /\ \A p \in Requests \ {q} : request'[p] = request[p]
  BY <1>2, <1>3, RequestStep
<1>5. RestoreInv(q)'
  BY <1>1, <1>2, <1>4 DEF RestoreInv
<1>6. \A p \in Requests : Snapshots!Restoring(p)' <=> Snapshots!Restoring(p)
  BY <1>2, <1>4 DEF Snapshots!Restoring
<1>7. /\ file' \in [Runs -> {"absent", "torn", "whole"}] /\ file'[r] = "torn"
      /\ \A o \in Runs \ {r} : file'[o] = file[o]
  BY BackupKept
<1>8. AloneInv(q)'
  <2>1. request[q].snap.runs \subseteq Runs
    BY AskingTyped
  <2>2. ASSUME request[q].alone, NEW o \in request[q].snap.runs \ request[q].left PROVE file'[o] = "whole"
    BY <1>1, <1>7, <2>1, <2>2 DEF AloneInv
  <2>3. ASSUME request[q].alone PROVE Snapshots!Restoring(q)' /\ \A p \in Requests : Snapshots!Restoring(p)' => p = q
    BY <1>1, <1>6, <2>3 DEF AloneInv
  <2>4. \A o \in x.half : file'[o] = "torn"
    BY <1>2, <1>7
  <2> QED
    BY <1>2, <1>4, <2>2, <2>3, <2>4 DEF AloneInv
<1>9. Snapshots!Restoring(q) /\ \A o \in Runs : file'[o] = "whole" => IsSaved(o)
  BY <1>7, BackupKept DEF Snapshots!Restoring
<1> QED
  BY <1>1, <1>2, <1>3, <1>5, <1>7, <1>8, <1>9, BackupKept, RequestKeeps

LEMMA WriteKeeps ==
  ASSUME BackupInv, NEW q \in Requests, Snapshots!WriteRestored(q)
  PROVE  BackupInv'
<1> USE DEF Snapshots!WriteRestored
<1> DEFINE rest == request[q].left \ request[q].half
           x == [request[q] EXCEPT !.half = {}, !.left = rest]
<1>1. /\ request[q] \in Asking /\ RestoreInv(q) /\ AloneInv(q) /\ \A o \in request[q].snap.runs : IsSaved(o)
      /\ request[q].snap.runs \subseteq Runs /\ request[q].left \subseteq Runs
  BY AskingTyped, BackupKept
<1>2. /\ x \in Asking /\ x.at = request[q].at /\ x.snap = request[q].snap /\ x.left = rest
      /\ x.half = {} /\ x.alone = request[q].alone
  <2>1. rest \in SUBSET Runs /\ {} \in SUBSET Runs
    BY <1>1
  <2> HIDE DEF rest
  <2> QED
    BY <1>1, <2>1 DEF Asking
<1>3. Snapshots!Moves(q, x)
  OBVIOUS
<1> HIDE DEF x
<1>4. request'[q] = x /\ \A p \in Requests \ {q} : request'[p] = request[p]
  BY <1>2, <1>3, RequestStep
<1>5. /\ request[q].at = "saving" /\ request[q].half \subseteq request[q].left
      /\ request[q].left \subseteq request[q].snap.runs
  BY <1>1 DEF RestoreInv
<1>6. RestoreInv(q)'
  BY <1>2, <1>4, <1>5 DEF RestoreInv
<1>7. \A p \in Requests : Snapshots!Restoring(p)' <=> Snapshots!Restoring(p)
  BY <1>2, <1>4 DEF Snapshots!Restoring
<1>8. /\ file' \in [Runs -> {"absent", "torn", "whole"}]
      /\ \A o \in Runs : file'[o] = IF o \in request[q].half /\ file[o] # "absent" THEN "whole" ELSE file[o]
  BY BackupKept
<1>9. AloneInv(q)'
  <2>1. ASSUME request[q].alone, NEW o \in request[q].snap.runs \ rest PROVE file'[o] = "whole"
    <3>1. /\ \A r \in request[q].snap.runs \ request[q].left : file[r] = "whole"
          /\ \A r \in request[q].half : file[r] = "torn"
      BY <1>1, <1>5, <2>1 DEF AloneInv
    <3>2. CASE o \in request[q].half
      <4>1. o \in Runs /\ file[o] # "absent"
        BY <1>1, <3>1, <3>2
      <4> QED
        BY <1>8, <3>2, <4>1
    <3>3. CASE o \notin request[q].half
      <4>1. o \in Runs /\ file[o] = "whole"
        BY <1>1, <3>1, <3>3
      <4> QED
        BY <1>8, <3>3, <4>1
    <3> QED
      BY <3>2, <3>3
  <2> HIDE DEF rest
  <2> QED
    BY <1>1, <1>2, <1>4, <1>7, <2>1 DEF AloneInv
<1>10. ASSUME NEW o \in Runs, file'[o] = "whole" PROVE IsSaved(o)
  <2>1. CASE o \in request[q].half
    BY <1>1, <1>5, <2>1
  <2>2. CASE o \notin request[q].half
    BY <1>8, <1>10, <2>2, BackupKept
  <2> QED
    BY <2>1, <2>2
<1>11. Snapshots!Restoring(q)
  BY <1>5 DEF Snapshots!Restoring
<1> HIDE DEF rest
<1> QED
  BY <1>1, <1>2, <1>3, <1>6, <1>8, <1>9, <1>10, <1>11, BackupKept, RequestKeeps

LEMMA ReplaceKeeps ==
  ASSUME BackupInv, NEW q \in Requests, Snapshots!ReplaceEvents(q)
  PROVE  BackupInv'
<1> USE DEF Snapshots!ReplaceEvents
<1>1. AloneInv(q) /\ short = FALSE
  BY BackupKept
<1>2. request[q].alone => \A r \in request[q].snap.runs : file[r] = "whole"
  BY <1>1 DEF AloneInv
<1>3. short' = FALSE
  BY <1>1, <1>2
<1>4. request'[q] = Snapshots!Idle
  BY IdleTyped, RequestStep
<1>5. RestoreInv(q)' /\ AloneInv(q)'
  BY <1>4, IdleTyped DEF RestoreInv, AloneInv
<1>6. events' \subseteq Runs
  BY AskingTyped
<1> QED
  BY <1>3, <1>5, <1>6, IdleTyped, BackupKept, RequestKeeps

\* After a crash every request is gone; the files are as they were.
LEMMA CrashKeeps ==
  ASSUME BackupInv, Snapshots!Crash
  PROVE  BackupInv'
<1> USE DEF Snapshots!Crash
<1>1. \A q \in Requests : request'[q] = Snapshots!Idle
  OBVIOUS
<1>2. request' \in [Requests -> Asking]
  BY IdleTyped
<1>3. ASSUME NEW r \in Runs PROVE worker'[r] \in {"new", "writing", "saved", "ended", "lost"} /\ (IsSaved(r) => IsSaved(r)')
  <2>1. worker[r] \in {"new", "writing", "saved", "ended", "lost"}
    BY DEF BackupInv, BackupTypes
  <2>2. worker'[r] = CASE worker[r] = "writing" -> "lost" [] worker[r] = "saved" -> "ended" [] OTHER -> worker[r]
    OBVIOUS
  <2>3. CASE worker[r] = "writing"
    BY <2>2, <2>3 DEF IsSaved
  <2>4. CASE worker[r] = "saved"
    BY <2>2, <2>4 DEF IsSaved
  <2>5. CASE worker[r] # "writing" /\ worker[r] # "saved"
    <3>1. worker'[r] = worker[r]
      BY <2>2, <2>5
    <3> QED
      BY <2>1, <3>1 DEF IsSaved
  <2> QED
    BY <2>3, <2>4, <2>5
<1>4. worker' \in [Runs -> {"new", "writing", "saved", "ended", "lost"}]
  <2>1. worker' = [r \in Runs |-> worker'[r]]
    OBVIOUS
  <2> QED
    BY <1>3, <2>1
<1>5. crashes' \in 0 .. MaxCrashes
  <2>1. crashes \in 0 .. MaxCrashes
    BY DEF BackupInv, BackupTypes
  <2> QED
    BY <2>1, BackupAssumption, SMT
<1>6. BackupTypes'
  BY <1>2, <1>4, <1>5 DEF BackupInv, BackupTypes
<1>7. WholeInv'
  <2>1. \A snap \in snapshots : snap.runs \subseteq Runs
    BY BackupKept DEF Snaps
  <2> QED
    BY <1>1, <1>3, <2>1, BackupKept, IdleTyped DEF WholeInv
<1>8. \A q \in Requests : RestoreInv(q)' /\ AloneInv(q)'
  BY <1>1, IdleTyped DEF RestoreInv, AloneInv
<1> QED
  BY <1>6, <1>7, <1>8 DEF BackupInv

LEMMA BackupStep ==
  ASSUME BackupInv, Snapshots!Next \/ UNCHANGED Snapshots!vars
  PROVE  BackupInv'
<1>1. CASE UNCHANGED Snapshots!vars
  <2>1. BackupTypes'
    BY <1>1 DEF BackupInv, BackupTypes, Snapshots!vars
  <2>2. \A r \in Runs : (IsSaved(r) => IsSaved(r)' /\ file'[r] = file[r]) /\ (file'[r] = "whole" => IsSaved(r)')
    BY <1>1, BackupKept DEF IsSaved, Snapshots!vars
  <2> QED
    BY <1>1, <2>1, <2>2, WorkerKeeps DEF Snapshots!vars
<1> QED
  BY <1>1, SavingKeeps, ReadKeeps, PutKeeps, FetchKeeps, RemoveKeeps, OpenKeeps, WriteKeeps, ReplaceKeeps, CrashKeeps
     DEF Snapshots!Next

LEMMA BackupSafe ==
  ASSUME BackupInv
  PROVE  Snapshots!TypeOK /\ Snapshots!SnapshotWhole /\ Snapshots!RestoredComplete
<1>1. ASSUME NEW q \in Requests PROVE request[q].left \subseteq Runs /\ Cardinality(request[q].half) <= 1
  <2>1. request[q].half = {} \/ \E r \in Runs : request[q].half = {r}
    BY DEF BackupInv, RestoreInv
  <2>2. Cardinality(request[q].half) \in {0, 1}
    BY <2>1, FS_EmptySet, FS_Singleton
  <2>3. Cardinality(request[q].half) <= 1
    BY <2>2, SMT
  <2> QED
    BY <2>3, AskingTyped
<1>2. \A s \in snapshots : s.runs \subseteq Runs /\ s.events \subseteq Runs
  BY DEF BackupInv, BackupTypes, Snaps
<1>3. Snapshots!TypeOK
  BY <1>1, <1>2, SameCardinality DEF BackupInv, BackupTypes, Snapshots!TypeOK
<1>4. Snapshots!SnapshotWhole /\ Snapshots!RestoredComplete
  BY DEF BackupInv, WholeInv, IsSaved, Snapshots!SnapshotWhole, Snapshots!RestoredComplete
<1> QED
  BY <1>3, <1>4

-----------------------------------------------------------------------------
(* The services together *)

ServicesInv ==
  /\ service = "detector" => DetectorInv
  /\ service = "backlog" => BacklogInv
  /\ service = "scheduler" => SchedulerInv
  /\ service = "log" => LogInv
  /\ service = "backup" => BackupInv

LEMMA ServicesInit == Init => ServicesInv
  BY DetectorStart, BacklogInit, SchedulerStart, LogStart, BackupInit DEF Init, LogAloneInit, ServicesInv

LEMMA ServicesStep == ServicesInv /\ [Next]_vars => ServicesInv'
<1> SUFFICES ASSUME ServicesInv, [Next]_vars PROVE ServicesInv'
  OBVIOUS
<1>1. service' = service
  BY DEF Next, LogAloneNext, vars
<1>2. ASSUME service = "detector" PROVE DetectorNext \/ UNCHANGED detectorVars
  BY <1>2 DEF Next, LogAloneNext, vars, observerVars, ownDetector, detectorVars, storeVars
<1>3. ASSUME service = "backlog" PROVE SLO!Next \/ UNCHANGED SLO!vars
  BY <1>3 DEF Next, LogAloneNext, vars, observerVars, ownBacklog, SLO!vars, SLO!queueVars, SLO!sloVars
<1>4. ASSUME service = "scheduler" PROVE SchedulerNext \/ UNCHANGED schedulerVars
  BY <1>4 DEF Next, LogAloneNext, vars, ownScheduler, schedulerVars, limitVars
<1>5. ASSUME service = "log" PROVE LogNext \/ UNCHANGED logVars
  BY <1>5 DEF Next, LogAloneNext, vars, ownLog, logVars
<1>6. ASSUME service = "backup" PROVE Snapshots!Next \/ UNCHANGED Snapshots!vars
  BY <1>6 DEF Next, LogAloneNext, vars, ownBackup, Snapshots!vars
<1> QED
  BY <1>1, <1>2, <1>3, <1>4, <1>5, <1>6, DetectorStep, BacklogStep, SchedulerStep, LogStep, BackupStep DEF ServicesInv

LEMMA ServicesWork == Spec => []ServicesInv
  BY ServicesInit, ServicesStep, PTL DEF Spec

\* StuckRecoveryStore: TotalRecovered counts every job a check has failed once,
\* for any number of jobs and of overlapping automatic and manual checks.
THEOREM RecoveriesCount == Spec => []RecoveredAccounted
<1>1. ServicesInv => RecoveredAccounted
  BY DEF ServicesInv, DetectorInv, RecoveredAccounted
<1> QED
  BY <1>1, ServicesWork, PTL

\* QueueBacklogSLOStore and observeQueueBacklog: levels in order for every legal
\* policy, recoveries that answer alerts, a history that agrees with the flags
\* and a flag that is up to date, for any number of observers.
THEOREM BacklogAlerts == Spec => []AlertsSound
<1>1. ASSUME BacklogInv
      PROVE  SLO!LevelsOrdered /\ SLO!RecoveryAnswersAlert /\ SLO!LatestAgrees /\ SLO!FreshWhenQuiet
  <2>1. BacklogTypes /\ AnswersInv /\ SLO!LatestAgrees /\ FreshInv
    BY <1>1 DEF BacklogInv
  <2>2. SLO!LevelsOrdered
    BY <2>1, LevelsHold
  <2>3. SLO!RecoveryAnswersAlert
    BY <2>1, SMT DEF AnswersInv, BacklogTypes, RecordTypes, SLO!RecoveryAnswersAlert
  <2>4. SLO!FreshWhenQuiet
    <3> SUFFICES ASSUME unobserved = 0, \A o \in Observers : obs[o].at = "idle", alone
                 PROVE  satActive = (pending >= policy.threshold)
      BY DEF SLO!FreshWhenQuiet, SLO!Quiet
    <3>1. \A o \in Observers : ~Busy(o)
      BY DEF Busy
    <3>2. ~(unobserved > 0)
      BY SMT
    <3> QED
      BY <2>1, <3>1, <3>2 DEF FreshInv
  <2> QED
    BY <2>1, <2>2, <2>3, <2>4
<1>2. ServicesInv => AlertsSound
  BY <1>1 DEF ServicesInv, AlertsSound
<1> QED
  BY <1>2, ServicesWork, PTL

\* Scheduler: one live loop per enabled schedule, a bounded overshoot of the
\* backlog limit and no dispatch to a target that stays in maintenance, for any
\* number of schedules, loops and targets.
THEOREM SchedulesGuarded == Spec => []DispatchGuarded
<1>1. ServicesInv => DispatchGuarded
  BY SchedulerSafe DEF ServicesInv, DispatchGuarded
<1> QED
  BY <1>1, ServicesWork, PTL

\* EventStore: one hash chain whatever the ring dropped or Replace restored,
\* accepted by VerifyIntegrity until the ring is full, and no event twice for a
\* client of the stream, for every limit and any number of appenders and streams.
THEOREM LogHolds == Spec => []LogIntegrity
<1>1. ServicesInv => LogIntegrity
  BY LogSafe DEF ServicesInv, LogIntegrity
<1> QED
  BY <1>1, ServicesWork, PTL

\* backup.go and the run store: only runs saved in full are backed up, and a
\* restore that is alone leaves all of its runs on disk, for any number of runs,
\* requests and crashes.
THEOREM BackupsWhole == Spec => []BackupIntegrity
<1>1. ServicesInv => BackupIntegrity
  BY BackupSafe DEF ServicesInv, BackupIntegrity
<1> QED
  BY <1>1, ServicesWork, PTL

\* The variables of the service at work have their types.
THEOREM ServicesTyped == Spec => []TypeOK
<1>1. DetectorInv => DetectorTypeOK
  BY DEF DetectorInv, DetectorTypes, ObserverTypes, DetectorTypeOK
<1>2. BacklogInv => SLO!TypeOK
  <2> SUFFICES ASSUME BacklogTypes PROVE SLO!TypeOK
    BY DEF BacklogInv
  <2>1. /\ \A i \in 1 .. Len(history) : history[i] \in {"normal", "warning", "saturated"}
        /\ \A i \in 1 .. Len(log) : log[i] \in {"saturation", "predicted", "recovered"}
    BY SMT DEF BacklogTypes, RecordTypes
  <2>2. unobserved \in 0 .. MaxChanges + 1
    BY BacklogAssumption, SMT DEF BacklogTypes, CountTypes
  <2> QED
    BY <2>1, <2>2 DEF BacklogTypes, CountTypes, PolicyTypes, FlagTypes, RecordTypes, SLO!TypeOK
<1>3. ServicesInv => TypeOK
  BY <1>1, <1>2, SchedulerSafe, LogSafe, BackupSafe DEF ServicesInv, TypeOK
<1> QED
  BY <1>3, ServicesWork, PTL
=============================================================================
