------------------------------ MODULE Scheduler ------------------------------
(***************************************************************************)
(* Recurring dispatch: internal/control/scheduler.go, with the maintenance *)
(* store it consults (internal/control/maintenance.go).                    *)
(*                                                                         *)
(* A schedule has a loop, a goroutine that waits for its timer, asks       *)
(* allowDispatch and enqueues.  Disable cancels the loop's context, Enable *)
(* starts another loop; the old one may still be in the middle of a        *)
(* dispatch.  allowDispatch takes a lock for every target it looks up, one *)
(* for the limits and one for the length of the queue.                     *)
(***************************************************************************)
EXTENDS Integers, FiniteSets, Sequences

CONSTANTS
  Schedules,     \* ids
  Loops,         \* bound on the goroutines alive at a time
  Free,          \* a model value: no loop, no schedule
  Hosts,
  Targets,       \* hosts, clusters and environments, tagged with their kind
  OptionsOf,     \* the options each schedule is created with
  Capacities,    \* what callers pass to SetCapacity, as <<backlog, cost>>
  QueueCapacity,
  MaxBacklog, MaxExecutionCost   \* the limits the scheduler starts with

\* The name for no loop and no schedule is none, and the limits are numbers.
ASSUME SchedulerAssumption ==
  /\ IsFiniteSet(Loops) /\ Free \notin Loops /\ Free \notin Schedules
  /\ \A s \in Schedules : OptionsOf[s].targets \in Seq(Targets)
  /\ \A c \in Capacities : c[1] \in Int /\ c[2] \in Int
  /\ QueueCapacity \in Nat /\ MaxBacklog \in Nat \ {0} /\ MaxExecutionCost \in Nat \ {0}

VARIABLES
  enabled,       \* absent, on or off, for each schedule
  cancel,        \* the loop whose cancel function is stored, or Free
  loops,         \* the goroutines
  maxBacklog, maxExecutionCost, unhealthy, maintenance,
  pending, stopped,  \* length of the queue; emergency stop
  steady,        \* targets in maintenance ever since the loop's timer fired
  highest,       \* highest backlog limit so far
  down           \* Shutdown has been called (these three are history variables)

limitVars == <<maxBacklog, maxExecutionCost, unhealthy, highest>>
schedulerVars == <<down, enabled, cancel, loops, limitVars, maintenance, pending, stopped, steady>>

NoLoop == [at |-> "free", sched |-> Free, canceled |-> FALSE, left |-> << >>, limit |-> 0]

\* NewScheduler.
SchedulerInit ==
  /\ enabled = [s \in Schedules |-> "absent"]
  /\ cancel = [s \in Schedules |-> Free]
  /\ loops = [l \in Loops |-> NoLoop]
  /\ maxBacklog = MaxBacklog /\ maxExecutionCost = MaxExecutionCost
  /\ unhealthy = {} /\ maintenance = {}
  /\ pending = 0 /\ stopped = FALSE
  /\ steady = [l \in Loops |-> {}] /\ highest = MaxBacklog /\ down = FALSE

-----------------------------------------------------------------------------
(* Calls *)

\* startLocked: a new goroutine takes the place of the stored one.
Started(s, l) ==
  /\ loops[l].at = "free"
  /\ cancel' = [cancel EXCEPT ![s] = l]
  /\ loops' = [loops EXCEPT ![l] = [NoLoop EXCEPT !.at = "wait", !.sched = s]]
  /\ enabled' = [enabled EXCEPT ![s] = "on"]
  /\ UNCHANGED <<down, limitVars, maintenance, pending, stopped, steady>>

\* CreateWithOptions.
Create(s, l) == enabled[s] = "absent" /\ Started(s, l)

Enable(s, l) == enabled[s] = "off" /\ Started(s, l)

\* Mutant: Disable forgets the cancel function without calling it.
DisableForgets(s) ==
  /\ enabled[s] # "absent"
  /\ enabled' = [enabled EXCEPT ![s] = "off"]
  /\ cancel' = [cancel EXCEPT ![s] = Free]
  /\ UNCHANGED <<down, loops, limitVars, maintenance, pending, stopped, steady>>

Disable(s) ==
  /\ enabled[s] # "absent"
  /\ enabled' = [enabled EXCEPT ![s] = "off"]
  /\ cancel' = [cancel EXCEPT ![s] = Free]
  /\ loops' = [l \in Loops |-> IF l = cancel[s] THEN [loops[l] EXCEPT !.canceled = TRUE] ELSE loops[l]]
  /\ UNCHANGED <<down, limitVars, maintenance, pending, stopped, steady>>

\* Shutdown calls every stored cancel function; schedules stay enabled.
Shutdown ==
  /\ loops' = [l \in Loops |-> IF \E s \in Schedules : cancel[s] = l
                                THEN [loops[l] EXCEPT !.canceled = TRUE] ELSE loops[l]]
  /\ cancel' = [s \in Schedules |-> Free]
  /\ down' = TRUE
  /\ UNCHANGED <<enabled, limitVars, maintenance, pending, stopped, steady>>

\* SetMaintenance, for one target.
SetMaintenance(t, on) ==
  /\ maintenance' = IF on THEN maintenance \cup {t} ELSE maintenance \ {t}
  /\ steady' = [l \in Loops |-> steady[l] \cap maintenance']
  /\ UNCHANGED <<down, enabled, cancel, loops, limitVars, pending, stopped>>

\* SetCapacity ignores a limit that is not positive.
SetCapacity(c) ==
  /\ maxBacklog' = IF c[1] > 0 THEN c[1] ELSE maxBacklog
  /\ maxExecutionCost' = IF c[2] > 0 THEN c[2] ELSE maxExecutionCost
  /\ highest' = IF maxBacklog' > highest THEN maxBacklog' ELSE highest
  /\ UNCHANGED <<down, enabled, cancel, loops, unhealthy, maintenance, pending, stopped, steady>>

SetHostHealth(h, healthy) ==
  /\ unhealthy' = IF healthy THEN unhealthy \ {h} ELSE unhealthy \cup {h}
  /\ UNCHANGED <<down, enabled, cancel, loops, maxBacklog, maxExecutionCost, highest, maintenance, pending,
                 stopped, steady>>

-----------------------------------------------------------------------------
(* The queue *)

\* The worker takes a job.
Take ==
  /\ pending > 0 /\ pending' = pending - 1
  /\ UNCHANGED <<down, enabled, cancel, loops, limitVars, maintenance, stopped, steady>>

\* SetEmergencyStop.
Stop ==
  /\ stopped' = ~stopped
  /\ UNCHANGED <<down, enabled, cancel, loops, limitVars, maintenance, pending, steady>>

-----------------------------------------------------------------------------
(* The loop *)

Goto(l, at) == loops' = [loops EXCEPT ![l].at = at]
OnlyLoops == UNCHANGED <<down, enabled, cancel, limitVars, maintenance, pending, stopped>>

\* The context is done; with the timer fired too, select takes either case.
Exit(l) ==
  /\ loops[l].at = "wait" /\ loops[l].canceled
  /\ loops' = [loops EXCEPT ![l] = NoLoop]
  /\ OnlyLoops /\ UNCHANGED steady

Fire(l) ==
  /\ loops[l].at = "wait"
  /\ loops' = [loops EXCEPT ![l] = [@ EXCEPT !.at = "maintenance", !.left = OptionsOf[loops[l].sched].targets]]
  /\ steady' = [steady EXCEPT ![l] = maintenance]
  /\ OnlyLoops

\* One IsActive call of skipForMaintenance.
Lookup(l) ==
  /\ loops[l].at = "maintenance" /\ loops[l].left # << >>
  /\ IF Head(loops[l].left) \in maintenance
     THEN Goto(l, "stamp")
     ELSE loops' = [loops EXCEPT ![l].left = Tail(@)]
  /\ OnlyLoops /\ UNCHANGED steady

\* The limits and the health of the host, under the lock of the scheduler.
Limits(l) ==
  /\ loops[l].at = "maintenance" /\ loops[l].left = << >>
  /\ LET o == OptionsOf[loops[l].sched] IN
     IF o.host \in unhealthy \/ o.cost > maxExecutionCost
     THEN Goto(l, "stamp")
     ELSE loops' = [loops EXCEPT ![l] = [@ EXCEPT !.at = "backlog", !.limit = maxBacklog]]
  /\ OnlyLoops /\ UNCHANGED steady

\* The comparison with the length of the queue.
Fits(low, limit) ==
  /\ pending < limit
  /\ low /\ limit > 1 => pending < limit \div 2

Backlog(l) ==
  /\ loops[l].at = "backlog"
  /\ Goto(l, IF Fits(OptionsOf[loops[l].sched].low, loops[l].limit) THEN "enqueue" ELSE "stamp")
  /\ OnlyLoops /\ UNCHANGED steady

\* Enqueue; its error is ignored.
Enqueue(l) ==
  /\ loops[l].at = "enqueue"
  /\ pending' = IF pending < QueueCapacity /\ ~stopped THEN pending + 1 ELSE pending
  /\ Goto(l, "stamp")
  /\ UNCHANGED <<down, enabled, cancel, limitVars, maintenance, stopped, steady>>

\* Last and next run are set, also when nothing was enqueued.
StampRun(l) ==
  /\ loops[l].at = "stamp"
  /\ loops' = [loops EXCEPT ![l] = [@ EXCEPT !.at = "wait", !.left = << >>, !.limit = 0]]
  /\ steady' = [steady EXCEPT ![l] = {}]
  /\ OnlyLoops

Dispatch(l) == Lookup(l) \/ Limits(l) \/ Backlog(l) \/ Enqueue(l) \/ StampRun(l)

SchedulerNext ==
  \/ \E s \in Schedules : Disable(s) \/ \E l \in Loops : Create(s, l) \/ Enable(s, l)
  \/ \E t \in Targets, on \in BOOLEAN : SetMaintenance(t, on)
  \/ \E c \in Capacities : SetCapacity(c)
  \/ \E h \in Hosts, healthy \in BOOLEAN : SetHostHealth(h, healthy)
  \/ Take \/ Stop \/ Shutdown
  \/ \E l \in Loops : Exit(l) \/ Fire(l) \/ Dispatch(l)

SchedulerSpec == SchedulerInit /\ [][SchedulerNext]_schedulerVars

-----------------------------------------------------------------------------
(* Properties *)

LoopsOf(s) == {l \in Loops : loops[l].at # "free" /\ loops[l].sched = s}

\* The type of every variable.
SchedulerTypeOK ==
  /\ enabled \in [Schedules -> {"absent", "on", "off"}]
  /\ cancel \in [Schedules -> Loops \cup {Free}]
  /\ maintenance \subseteq Targets /\ unhealthy \subseteq Hosts
  /\ maxBacklog \in Nat \ {0} /\ maxExecutionCost \in Nat \ {0}
  /\ pending \in 0 .. QueueCapacity
  /\ \A l \in Loops :
       /\ loops[l].at \in {"free", "wait", "maintenance", "backlog", "enqueue", "stamp"}
       /\ loops[l].sched \in Schedules \cup {Free}

\* However often a schedule is enabled and disabled, also around Shutdown,
\* its one loop that is not canceled is the one Disable would cancel, and it
\* has one exactly while it is enabled, until Shutdown.
OneLiveLoop ==
  \A s \in Schedules :
    /\ {l \in LoopsOf(s) : ~loops[l].canceled} = {cancel[s]} \ {Free}
    /\ cancel[s] # Free => enabled[s] = "on"
    /\ enabled[s] = "on" /\ ~down => cancel[s] # Free

\* allowDispatch and Enqueue are not atomic, so the scheduler may exceed the
\* backlog limit, but by less than the number of its loops.
OvershootBounded == pending < highest + Cardinality(Loops)

\* A target in maintenance for all of the check keeps its schedules from
\* enqueueing, although targets are looked up one by one.
MaintenanceBlocks ==
  \A l \in Loops :
    loops[l].at = "enqueue" =>
      \A i \in 1 .. Len(OptionsOf[loops[l].sched].targets) : OptionsOf[loops[l].sched].targets[i] \notin steady[l]

=============================================================================
