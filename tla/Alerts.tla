------------------------------- MODULE Alerts --------------------------------
(***************************************************************************)
(* Where an event goes: the alert inbox (internal/control/alert_inbox.go)  *)
(* and the three fan-outs that recordEvent (internal/server/server.go)     *)
(* calls, the notification router, the webhook dispatcher and the event    *)
(* bus, with their handlers.  The variable kind says which is at work.     *)
(*                                                                         *)
(* A fan-out copies its targets under the lock, sends to one after the     *)
(* other without it, and takes the lock again to record each delivery, so  *)
(* events in flight overlap one another and the switching of targets.      *)
(***************************************************************************)
EXTENDS Integers, Sequences, FiniteSets

CONSTANTS
  Events, Lower,       \* [type, sev]: what recordEvent is given, and the lower-case form of a sev
  Policies,            \* inputs of SetRoutingPolicy: severity -> route
  Routes,              \* what a target may ask for: routes of alerts, prefixes of events, or "*"
  Callers,
  Cap,                 \* deliveries kept
  MaxTargets, MaxEvents, MaxMarks, MaxClock   \* bounds on the targets, events and marks and on the time

VARIABLES
  kind,
  clock,
  items,      \* inbox: per fingerprint the alert, or NoAlert
  muted,      \* inbox: per fingerprint the suppression, or NotMuted
  routing,    \* inbox: the routing policy
  targets,    \* fan-outs: sequence of targets
  ring,       \* fan-outs: the last deliveries
  pc,         \* per caller: the event under way and the copies of the targets it has not passed yet
  made,       \* events so far
  sent,       \* history: inbox: the ingests and marks in turn; fan-outs: all deliveries
  due         \* history: per event the targets that wanted it when it was published

vars == <<kind, clock, items, muted, routing, targets, ring, pc, made, sent, due>>

FanOuts == {"notifications", "webhooks", "bus"}
NoAlert == [status |-> "none"]
NotMuted == [until |-> 0, hits |-> 0]
Idle == [at |-> "idle"]

-----------------------------------------------------------------------------
(* Severities, routes and fingerprints *)

Severities == {"critical", "high", "medium", "low"}
AlertRoutes == {"pager", "ticket", "chatops", "digest"}

severityRank(severity) ==
  CASE severity = "critical" -> 4 [] severity = "high" -> 3 [] severity = "medium" -> 2 [] severity = "low" -> 1

\* What a sender may call a severity; anything unknown is of medium severity.
normalizeSeverity(raw) ==
  CASE Lower[raw] \in {"critical", "crit", "p0"} -> "critical"
    [] Lower[raw] \in {"high", "error", "p1"} -> "high"
    [] Lower[raw] \in {"low", "info", "p3"} -> "low"
    [] OTHER -> "medium"

\* The severity an event states, or what its type is known for; "" when it is no alert.
inferSeverityFromEvent(e) ==
  CASE e.sev # "" -> normalizeSeverity(e.sev)
    [] e.sev = "" /\ e.type = "critical" -> "critical"
    [] e.sev = "" /\ e.type \in {"alert", "error"} -> "high"
    [] e.sev = "" /\ e.type = "saturation" -> "medium"
    [] OTHER -> ""

\* The type, the severity as it is spelled in lower case, and what else is the same here for all events.
normalizedAlertFingerprint(e) == [type |-> e.type, sev |-> Lower[e.sev]]
Prints == {normalizedAlertFingerprint(e) : e \in {x \in Events : inferSeverityFromEvent(x) # ""}}

defaultAlertRoutingPolicy == [critical |-> "pager", high |-> "ticket", medium |-> "chatops", low |-> "digest"]
normalizeAlertRoute(route) == IF route \in AlertRoutes THEN route ELSE ""
routeForSeverityPolicy(severity, policy) == normalizeAlertRoute(policy[severity])

-----------------------------------------------------------------------------
(* What the stores hold, and what they hold at first *)

AlertItems ==
  [count : Nat, suppressed : Nat, seen : Nat, status : {"open", "acknowledged", "resolved"}, severity : Severities,
   route : AlertRoutes]
AlertSuppressions == [until : Nat, hits : Nat]
AlertRoutingPolicies == [Severities -> AlertRoutes]
Targets == [wants : Routes, enabled : BOOLEAN, ok : Nat, failed : Nat]
Deliveries == [event : Nat, target : Nat, ok : BOOLEAN]

NewAlertInbox == [p \in Prints |-> NoAlert]
NewNotificationRouter == <<>>

Init ==
  /\ kind \in {"inbox"} \cup FanOuts
  /\ clock = 0 /\ routing = defaultAlertRoutingPolicy
  /\ items = NewAlertInbox /\ muted = [p \in Prints |-> NotMuted]
  /\ targets = NewNotificationRouter /\ ring = <<>> /\ made = 0 /\ due = <<>>
  /\ sent = IF kind = "inbox" THEN <<>> ELSE {}
  /\ pc = [c \in Callers |-> Idle]

inboxVars == <<items, muted, routing>>
fanVars == <<targets, ring, pc, due>>

Tick ==
  /\ kind = "inbox" /\ clock < MaxClock
  /\ clock' = clock + 1
  /\ UNCHANGED <<kind, inboxVars, fanVars, made, sent>>

-----------------------------------------------------------------------------
(* The alert inbox; every operation reads the clock under the lock *)

cleanupSuppressions == [p \in Prints |-> IF clock < muted[p].until THEN muted[p] ELSE NotMuted]

chooseMaxSeverity(current, candidate) == IF severityRank(candidate) > severityRank(current) THEN candidate ELSE current

\* The alert of a fingerprint that is suppressed only counts the hit; otherwise it
\* is made, or opened again with the greater severity and routed anew.
Ingest(p, severity) ==
  /\ kind = "inbox" /\ made < MaxEvents
  /\ LET swept == cleanupSuppressions
         hidden == clock < swept[p].until
         known == items[p] # NoAlert IN
     /\ muted' = IF hidden THEN [swept EXCEPT ![p].hits = @ + 1] ELSE swept
     /\ items' = [items EXCEPT ![p] =
          CASE hidden /\ known -> [@ EXCEPT !.suppressed = @ + 1, !.seen = clock]
            [] hidden /\ ~known -> NoAlert
            [] ~hidden /\ known -> LET most == chooseMaxSeverity(@.severity, severity) IN
                 [@ EXCEPT !.count = @ + 1, !.seen = clock, !.status = "open", !.severity = most, !.route = routeForSeverityPolicy(most, routing)]
            [] OTHER -> [count |-> 1, suppressed |-> 0, seen |-> clock, status |-> "open", severity |-> severity,
                         route |-> routeForSeverityPolicy(severity, routing)]]
     /\ sent' = Append(sent, [print |-> p, severity |-> severity, hidden |-> hidden, known |-> known])
  /\ made' = made + 1
  /\ UNCHANGED <<kind, clock, routing, fanVars>>

IngestEvent(e) ==
  /\ inferSeverityFromEvent(e) # ""
  /\ Ingest(normalizedAlertFingerprint(e), inferSeverityFromEvent(e))

Mark(p, status) ==
  /\ kind = "inbox" /\ items[p] # NoAlert /\ Len(sent) < made + MaxMarks
  /\ items' = [items EXCEPT ![p].status = status]
  /\ sent' = Append(sent, [print |-> p, status |-> status])
  /\ UNCHANGED <<kind, clock, muted, routing, fanVars, made>>
Acknowledge(p) == Mark(p, "acknowledged")
Resolve(p) == Mark(p, "resolved")

\* A second suppression moves the end of the first and keeps its hits, also of one
\* that has ended and has not been swept yet.
Suppress(p, duration) ==
  /\ kind = "inbox" /\ duration > 0
  /\ muted' = [muted EXCEPT ![p].until = clock + duration]
  /\ UNCHANGED <<kind, clock, items, routing, fanVars, made, sent>>

ClearSuppression(p) ==
  /\ kind = "inbox"
  /\ muted' = [muted EXCEPT ![p] = NotMuted]
  /\ UNCHANGED <<kind, clock, items, routing, fanVars, made, sent>>

\* List, Suppressions and Summary sweep before they read.
ListAlerts ==
  /\ kind = "inbox"
  /\ muted' = cleanupSuppressions
  /\ UNCHANGED <<kind, clock, items, routing, fanVars, made, sent>>

SetRoutingPolicy(policy) ==
  /\ kind = "inbox" /\ \A s \in Severities : normalizeAlertRoute(policy[s]) # ""
  /\ routing' = policy
  /\ UNCHANGED <<kind, clock, items, muted, fanVars, made, sent>>

\* A duration of none is the default one, 2 here.
handleAlertInbox ==
  \/ ListAlerts
  \/ \E p \in Prints : Acknowledge(p) \/ Resolve(p)
  \/ \E p \in Prints, duration \in {0, 1} : Suppress(p, IF duration = 0 THEN 2 ELSE duration)
  \/ \E p \in Prints : ClearSuppression(p)
  \/ \E policy \in Policies : SetRoutingPolicy(policy)

-----------------------------------------------------------------------------
(* The fan-outs *)

Register(target, enabled) ==
  /\ Len(targets) < MaxTargets
  /\ targets' = Append(targets, [wants |-> target, enabled |-> enabled, ok |-> 0, failed |-> 0])

SetEnabled(t, enabled) ==
  /\ targets' = [targets EXCEPT ![t].enabled = enabled]
  /\ UNCHANGED <<kind, clock, inboxVars, ring, made, sent, due>>
SetWebhookEnabled(t, enabled) == kind = "webhooks" /\ SetEnabled(t, enabled)
SetBusTargetEnabled(t, enabled) == kind = "bus" /\ SetEnabled(t, enabled)
SetNotificationEnabled(t, enabled) == kind = "notifications" /\ SetEnabled(t, enabled)

\* A webhook is registered enabled whatever the request says; "*" is a prefix of every type here.
RegisterWebhook(prefix) == kind = "webhooks" /\ Register(prefix, TRUE)
handleWebhooks ==
  /\ \E prefix \in Routes : RegisterWebhook(prefix)
  /\ UNCHANGED <<kind, clock, inboxVars, ring, pc, made, sent, due>>

\* A target of the event bus gets every event.
RegisterBusTarget(enabled) == kind = "bus" /\ Register("*", enabled)
handleEventBusTargets ==
  /\ \E enabled \in BOOLEAN : RegisterBusTarget(enabled)
  /\ UNCHANGED <<kind, clock, inboxVars, ring, pc, made, sent, due>>

\* A target is registered enabled, and switched off in a second critical section
\* when the request says so.
RegisterNotification(route) == kind = "notifications" /\ Register(route, TRUE)
handleNotificationTargets(c) ==
  \/ /\ pc[c] = Idle
     /\ \E r \in Routes, enabled \in BOOLEAN :
          /\ RegisterNotification(r)
          /\ pc' = IF enabled THEN pc ELSE [pc EXCEPT ![c] = [at |-> "disable", target |-> Len(targets) + 1]]
     /\ UNCHANGED <<kind, clock, inboxVars, ring, made, sent, due>>
  \/ /\ pc[c].at = "disable"
     /\ SetNotificationEnabled(pc[c].target, FALSE)
     /\ pc' = [pc EXCEPT ![c] = Idle]

handleWebhookAction == (\E t \in DOMAIN targets, on \in BOOLEAN : SetWebhookEnabled(t, on)) /\ UNCHANGED pc
handleEventBusTargetAction == (\E t \in DOMAIN targets, on \in BOOLEAN : SetBusTargetEnabled(t, on)) /\ UNCHANGED pc
handleNotificationTargetAction == (\E t \in DOMAIN targets, on \in BOOLEAN : SetNotificationEnabled(t, on)) /\ UNCHANGED pc

\* The targets are copied, and the copies that are switched off or do not want the
\* event are passed over.
FanOut(c, wanting) ==
  /\ pc[c] = Idle /\ made < MaxEvents
  /\ pc' = [pc EXCEPT ![c] = [at |-> "send", event |-> made + 1, left |-> wanting]]
  /\ due' = Append(due, wanting)
  /\ made' = made + 1
  /\ UNCHANGED <<kind, clock, inboxVars, targets, ring, sent>>

Wanting(route) == {t \in DOMAIN targets : targets[t].enabled /\ targets[t].wants \in {"*", route}}

NotifyAlert(c, route) == kind = "notifications" /\ FanOut(c, Wanting(route))
Dispatch(c, type) == kind = "webhooks" /\ FanOut(c, Wanting(type))
Publish(c) == kind = "bus" /\ FanOut(c, {t \in DOMAIN targets : targets[t].enabled})
handleEventBusPublish(c) == Publish(c)

\* Mutant: the log drops its oldest when it has outgrown its cap.
LoggedLate(d) ==
  /\ ring' = Append(IF Len(ring) > Cap THEN Tail(ring) ELSE ring, d)
  /\ sent' = sent \cup {d}

\* The log of deliveries drops its oldest.
Logged(d) ==
  /\ ring' = Append(IF Len(ring) >= Cap THEN Tail(ring) ELSE ring, d)
  /\ sent' = sent \cup {d}

\* recordDelivery of webhooks and notifications also counts for the target as it is now.
recordDelivery(d) ==
  /\ targets' = [targets EXCEPT ![d.target].ok = IF d.ok THEN @ + 1 ELSE @,
                                ![d.target].failed = IF d.ok THEN @ ELSE @ + 1]
  /\ Logged(d)

\* What a target answers, if anything.
dispatch(c, t) == {[event |-> pc[c].event, target |-> t, ok |-> ok] : ok \in BOOLEAN}

\* The copies come in the order of a Go map: any.
Deliver(c, t) ==
  /\ pc[c].at = "send" /\ t \in pc[c].left
  /\ pc' = [pc EXCEPT ![c].left = @ \ {t}]
  /\ \E d \in dispatch(c, t) : IF kind = "bus" THEN Logged(d) /\ UNCHANGED targets ELSE recordDelivery(d)
  /\ UNCHANGED <<kind, clock, inboxVars, made, due>>

Delivered(c) ==
  /\ pc[c].at = "send" /\ pc[c].left = {}
  /\ pc' = [pc EXCEPT ![c] = Idle]
  /\ UNCHANGED <<kind, clock, inboxVars, targets, ring, made, sent, due>>

-----------------------------------------------------------------------------

Next ==
  \/ Tick \/ handleAlertInbox \/ handleWebhooks \/ handleEventBusTargets
  \/ handleWebhookAction \/ handleEventBusTargetAction \/ handleNotificationTargetAction
  \/ \E e \in Events : IngestEvent(e)
  \/ \E c \in Callers :
       \/ handleNotificationTargets(c)
       \/ \E route \in Routes \ {"*"} : NotifyAlert(c, route) \/ Dispatch(c, route)
       \/ handleEventBusPublish(c)
       \/ \E t \in 1..MaxTargets : Deliver(c, t)
       \/ Delivered(c)

Spec == Init /\ [][Next]_vars

-----------------------------------------------------------------------------
(* Properties *)

\* The type of every variable.
TypeOK ==
  /\ clock \in 0..MaxClock /\ made \in 0..MaxEvents /\ Len(ring) <= Cap
  /\ \A p \in Prints : (items[p] = NoAlert \/ items[p] \in AlertItems) /\ muted[p] \in AlertSuppressions
  /\ routing \in AlertRoutingPolicies
  /\ \A t \in DOMAIN targets : targets[t] \in Targets
  /\ \A n \in DOMAIN ring : ring[n] \in Deliveries
  /\ \A c \in Callers : pc[c].at \in {"idle", "send", "disable"}

Of(p) == {n \in DOMAIN sent : sent[n].print = p}
IsIngest(n) == "severity" \in DOMAIN sent[n]
Counted(p) == {n \in Of(p) : IsIngest(n) /\ ~sent[n].hidden}

\* The inbox agrees with what Ingest has been given: an alert counts every
\* ingest since it was made, in count or in suppressed; it has the severity of
\* all the events that were counted, for their fingerprint implies it; and it is open exactly if nobody has acknowledged
\* or resolved it since it was counted last, however suppressions begin and end.
InboxAgrees ==
  kind = "inbox" => \A p \in Prints :
    IF items[p] = NoAlert THEN Counted(p) = {}
    ELSE /\ items[p].count = Cardinality(Counted(p))
         /\ items[p].suppressed = Cardinality({n \in Of(p) : IsIngest(n) /\ sent[n].hidden /\ sent[n].known})
         /\ \A n \in Of(p) : IsIngest(n) => items[p].severity = sent[n].severity
         /\ LET marks == {n \in Of(p) : ~IsIngest(n) /\ \A m \in Counted(p) : m < n} IN
            items[p].status = IF marks = {} THEN "open"
                              ELSE sent[CHOOSE n \in marks : \A m \in marks : m <= n].status

\* An event reaches each target that wanted it when the targets were copied, and
\* no other, exactly once, also when targets are switched and other events are on
\* their way meanwhile; the counters of a target are those of all its deliveries;
\* and the log of deliveries holds as many of them as it can, none twice.
DeliveredOnce ==
  kind \in FanOuts =>
    /\ \A e \in 1..made :
         LET running == {c \in Callers : pc[c].at = "send" /\ pc[c].event = e}
             passed == due[e] \ UNION {pc[c].left : c \in running} IN
         /\ {d.target : d \in {x \in sent : x.event = e}} = passed
         /\ Cardinality({d \in sent : d.event = e}) = Cardinality(passed)
    /\ kind # "bus" => \A t \in DOMAIN targets : \A ok \in BOOLEAN :
         (IF ok THEN targets[t].ok ELSE targets[t].failed) = Cardinality({d \in sent : d.target = t /\ d.ok = ok})
    /\ {ring[n] : n \in DOMAIN ring} \subseteq sent
    /\ Cardinality({ring[n] : n \in DOMAIN ring}) = IF Cardinality(sent) < Cap THEN Cardinality(sent) ELSE Cap
=============================================================================
