------------------------------ MODULE MCClients ------------------------------
(***************************************************************************)
(* The clients of the job queue for TLC, and what the queue's worker does  *)
(* for a job: the planner and the executor, whose variables are at their   *)
(* start while they are not at work.                                       *)
(***************************************************************************)
EXTENDS Clients, Planner, Executor, TLC

CONSTANTS
  j1, j2, j3, q1, q2,   \* jobs, callers
  t1, t2                \* templates

Symmetry == Permutations({j1, j2}) \cup Permutations({q1, q2})

MCSteps == {<<t1, t2, t1>>}
MCQuietSteps == {<<t1, t2>>}

-----------------------------------------------------------------------------
(* Configs *)

\* Every relation on the ids, and every one with at most one edge and no loop.
MCRelations == [Ids -> SUBSET Ids]
MCFew ==
  {f \in MCRelations : /\ Cardinality(UNION {{id} \X f[id] : id \in Ids}) <= 1
                       /\ \A id \in Ids : id \notin f[id]}

File == [type |-> "file", host |-> 1, deps |-> {}, sources |-> {}, refreshOnly |-> FALSE, refreshCommand |-> FALSE,
         notifies |-> {}, retries |-> 0, guard |-> FALSE, rescue |-> FALSE, always |-> FALSE, until |-> FALSE]
Command == [File EXCEPT !.type = "command"]

PlanOf(res) ==
  [strategy |-> "linear", serial |-> 0, maxFail |-> 0, fatal |-> FALSE, byDomain |-> FALSE,
   domain |-> <<1, 1, 2, 2>>, handlers |-> {1, 2, 3}, caller |-> "runner", selected |-> DOMAIN res, res |-> res]

\* A source with every hook, a resource refreshed by it, and two others.
Four(h1, h2) ==
  <<[Command EXCEPT !.host = h1, !.retries = 1, !.rescue = TRUE, !.until = TRUE, !.notifies = {1}],
    [File EXCEPT !.host = h1, !.retries = 1, !.until = TRUE, !.notifies = {3}],
    [Command EXCEPT !.host = h2, !.deps = {1}, !.sources = {1}, !.refreshOnly = TRUE, !.notifies = {1, 2}],
    [Command EXCEPT !.host = h2, !.deps = {2}, !.sources = {2}, !.guard = TRUE, !.refreshCommand = TRUE,
                    !.always = TRUE, !.notifies = {2}]>>

\* Linear and free runs from both callers; the command line selects some.
MCRuns ==
  {[PlanOf(Four(1, 1)) EXCEPT !.strategy = s, !.maxFail = m, !.fatal = f] :
     s \in {"linear", "free"}, m \in {0, 40, 60}, f \in BOOLEAN}
    \cup {[PlanOf(Four(2, 1)) EXCEPT !.strategy = "free", !.caller = "cli", !.selected = sel] :
            sel \in {{1, 2, 3, 4}, {3, 4}, {1, 2}}}

\* Serial runs of four resources over up to four hosts; the third is refreshed
\* by the first, and the fourth depends on the second.
MCSerial ==
  {[PlanOf([i \in 1 .. 4 |-> [File EXCEPT !.host = hosts[i], !.deps = IF i > 2 THEN {i - 2} ELSE {},
                                          !.sources = IF i = 3 THEN {1} ELSE {}, !.refreshOnly = i = 3]]) EXCEPT
      !.strategy = "serial", !.serial = n, !.byDomain = b, !.domain = d] :
     n \in {0, 2, 3}, b \in BOOLEAN, hosts \in [1 .. 4 -> 1 .. 4], d \in {<<1, 1, 2, 2>>, <<2, 1, 1, 1>>}}

MCPlans == MCRuns \cup MCSerial

\* The command line with everything selected.
MCCommandLine == {[PlanOf(Four(1, 1)) EXCEPT !.caller = "cli"]}

-----------------------------------------------------------------------------
(* One client, the planner or the executor at work *)

NoApply ==
  /\ plan = [strategy |-> "linear", byDomain |-> FALSE, selected |-> {}] /\ steps = << >> /\ next = 1 /\ attempt = 1
  /\ results = << >> /\ changed = {} /\ notified = {} /\ failedSteps = 0 /\ outcome = "succeeded" /\ at = "steps"
  /\ handlers = << >>
NoClient ==
  phase = Off /\ notices = Off /\ jobRefs = Off /\ NoLocks /\ NoWorkflows /\ NoLeases /\ NoCanaries /\ NoDispatch
NoPlan ==
  /\ dependsOn = [id \in Ids |-> {}] /\ before = [id \in Ids |-> {}]
  /\ inDegree = [id \in Ids |-> 0] /\ queue = {} /\ ordered = << >> /\ result = "building"

ExecutorInit == client = "executor" /\ ApplyInit /\ status = Off /\ NoClient /\ NoPlan

MCInit ==
  \/ ClientInit /\ NoPlan /\ NoApply
  \/ client = "planner" /\ Init /\ status = Off /\ NoClient /\ NoApply
  \/ ExecutorInit

MCNext ==
  \/ ClientNext /\ UNCHANGED <<vars, applyVars>>
  \/ client = "planner" /\ Next /\ UNCHANGED <<clientVars, applyVars>>
  \/ client = "executor" /\ ApplyNext /\ UNCHANGED <<clientVars, vars>>

MCSpec == MCInit /\ [][MCNext]_<<clientVars, vars, applyVars>>

\* The executor alone.
ExecutorSpec == ExecutorInit /\ [][MCNext]_<<clientVars, vars, applyVars>>

-----------------------------------------------------------------------------

\* The type of every variable of the client at work, of the planner and of the
\* executor.
TypesOK == ClientTypes /\ TypeOK /\ ApplyTypeOK
=============================================================================
