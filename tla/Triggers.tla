------------------------------ MODULE Triggers -------------------------------
(***************************************************************************)
(* What turns a request or an event into a job or a command: event rules   *)
(* (internal/control/rulebook.go with recordEvent and executeRuleAction of *)
(* internal/server/server.go), asynchronous commands (command_ingest.go),  *)
(* converge triggers (converge_triggers.go) and ad-hoc commands            *)
(* (adhoc_commands.go), with their handlers.                               *)
(*                                                                         *)
(* Each handler takes several critical sections, of its store and of the   *)
(* queue, and the sections of different callers interleave.  The variable  *)
(* kind says which of the four is at work.                                 *)
(***************************************************************************)
EXTENDS Integers, Sequences, FiniteSets, FiniteSetsExt

CONSTANTS
  Callers,
  Events,              \* [type, value]: value is that of the field that conditions look at, or "absent"
  Rules,               \* inputs of Create: [on, mode, conds, actions, cooldown], on the types with its prefix
  Related, Malformed,  \* <<comparator, actual, expected>> that hold for text; regular expressions that do not compile
  Keys, Trim,          \* spellings of idempotency keys, and what TrimSpace makes of them; "" is a missing key
  AdHocPolicies,       \* inputs of SetPolicy: [allow, reason]
  Limit,               \* dead letters, converge triggers and results kept
  MaxRules, MaxRequests, MaxClock   \* bounds on the rules, on the requests and on the time

VARIABLES
  kind,
  clock,
  items,     \* the store: rules, accepted commands, retained triggers, or retained results
  ring,      \* retained dead letters
  policy,    \* ad-hoc guardrails
  jobs,      \* sequence of the jobs that Enqueue has made: [key, for]
  pc,        \* per caller: the request under way, with the section it takes next in at
  made,      \* requests so far
  fired,     \* history: rule -> the times it was triggered with, one after the other
  ended      \* history: how the requests ended, [id, out]

vars == <<kind, clock, items, ring, policy, jobs, pc, made, fired, ended>>

Idle == [at |-> "idle"]

-----------------------------------------------------------------------------
(* What the stores hold, and what they hold at first *)

Comparators == {"eq", "ne", "contains", "prefix", "suffix", "regex"}
RuleActions == [type : {"enqueue_apply", "launch_template", "launch_workflow"}, ref : STRING \ {""}]
RuleSet ==
  [on : SUBSET {e.type : e \in Events}, mode : {"all", "any"}, conds : Seq([cmp : Comparators, value : STRING]),
   actions : Seq(RuleActions), cooldown : Nat, enabled : BOOLEAN, last : Int, count : Nat]
CommandEnvelopes == [key : Keys]
ConvergeTriggers ==
  [id : Nat, key : STRING, auto : BOOLEAN, status : {"recorded", "queued", "blocked"}, job : Nat]
AdHocCommandRequests == [reason : BOOLEAN, pattern : BOOLEAN, dry : BOOLEAN]
AdHocCommandResults ==
  [id : Nat, status : {"approved", "blocked", "succeeded", "failed"}, in : AdHocCommandRequests,
   under : [allow : BOOLEAN, reason : BOOLEAN]]

NewRuleEngine == <<>>
NewCommandIngestStore == <<>>
NewConvergeTriggerStore == <<>>
NewAdHocCommandStore == [allow |-> TRUE, reason |-> TRUE]

Init ==
  /\ kind \in {"rules", "commands", "converge", "adhoc"}
  /\ clock = 0 /\ jobs = <<>> /\ made = 0
  /\ items = IF kind = "rules" THEN NewRuleEngine ELSE NewConvergeTriggerStore
  /\ ring = NewCommandIngestStore
  /\ policy = NewAdHocCommandStore
  /\ pc = [c \in Callers |-> Idle]
  /\ fired = [r \in 1..MaxRules |-> <<>>] /\ ended = {}

Tick ==
  /\ kind = "rules" /\ clock < MaxClock
  /\ clock' = clock + 1
  /\ UNCHANGED <<kind, items, ring, policy, jobs, pc, made, fired, ended>>

\* What Enqueue may answer: the job of the key, an error (emergency stop, freeze,
\* full queue: job 0), or a new job.
Enqueue(key, for) ==
  LET known == {n \in DOMAIN jobs : jobs[n].key = key} IN
  IF key # "" /\ known # {}
  THEN {[job |-> n, jobs |-> jobs] : n \in known}
  ELSE {[job |-> 0, jobs |-> jobs],
        [job |-> Len(jobs) + 1, jobs |-> Append(jobs, [key |-> key, for |-> for])]}

Kept(s) == IF Len(s) > Limit THEN SubSeq(s, Len(s) - Limit + 1, Len(s)) ELSE s

Goto(c, request) == pc' = [pc EXCEPT ![c] = request]
Begin(c) == pc[c] = Idle /\ made < MaxRequests /\ made' = made + 1

-----------------------------------------------------------------------------
(* Event rules *)

normalizeMatchMode(mode) == IF mode = "any" THEN "any" ELSE "all"

\* An action names what it enqueues or launches; a condition without a comparator compares for equality.
validateRuleAction(action) == action \in RuleActions
validateRuleCondition(cond) == [cond EXCEPT !.cmp = IF @ = "" THEN "eq" ELSE @]

\* An action is required, and a negative cooldown is none; a rule is created
\* enabled, also when the request says otherwise.
CreateRule(in) ==
  LET conds == [k \in DOMAIN in.conds |-> validateRuleCondition(in.conds[k])]
  IN /\ kind = "rules" /\ Len(items) < MaxRules
     /\ in.actions # <<>> /\ \A k \in DOMAIN in.actions : validateRuleAction(in.actions[k])
     /\ \A k \in DOMAIN conds : conds[k].cmp \in Comparators
     /\ items' = Append(items, [on |-> in.on, mode |-> normalizeMatchMode(in.mode), conds |-> conds,
                                actions |-> in.actions, cooldown |-> IF in.cooldown < 0 THEN 0 ELSE in.cooldown,
                                enabled |-> TRUE, last |-> -1, count |-> 0])
     /\ UNCHANGED <<kind, clock, ring, policy, jobs, pc, made, fired, ended>>

handleRules == \E in \in Rules : CreateRule(in)

SetEnabled(r, enabled) ==
  /\ kind = "rules"
  /\ items' = [items EXCEPT ![r].enabled = enabled]
  /\ UNCHANGED <<kind, clock, ring, policy, jobs, pc, made, fired, ended>>

handleRuleAction == \E r \in DOMAIN items, enabled \in BOOLEAN : SetEnabled(r, enabled)

\* A condition on a field that is not there does not hold, whatever it says; a regular
\* expression is compiled only here.
evaluateCondition(e, cond) ==
  LET holds == CASE cond.cmp = "eq" -> e.value = cond.value
                 [] cond.cmp = "ne" -> e.value # cond.value
                 [] OTHER -> <<cond.cmp, e.value, cond.value>> \in Related
  IN IF e.value = "absent" THEN "no"
     ELSE IF cond.cmp = "regex" /\ cond.value \in Malformed THEN "error"
     ELSE IF holds THEN "yes" ELSE "no"

\* The conditions in turn, until one decides; one that cannot be evaluated is an error.
ruleMatchesEvent(rule, e) ==
  LET decisive == IF rule.mode = "any" THEN "yes" ELSE "no"
      verdicts == [k \in DOMAIN rule.conds |-> evaluateCondition(e, rule.conds[k])]
      stops == {k \in DOMAIN verdicts : verdicts[k] \in {decisive, "error"}} IN
  IF stops # {} THEN verdicts[Min(stops)]
  ELSE IF rule.conds = <<>> \/ rule.mode = "all" THEN "yes" ELSE "no"

\* recordEvent goes on to Evaluate, which notes the rules there are and the time.
recordEvent(c, event) ==
  /\ kind = "rules" /\ Begin(c)
  /\ Goto(c, [at |-> "rule", type |-> event.type, value |-> event.value, todo |-> [k \in DOMAIN items |-> k], now |-> clock, matches |-> <<>>])
  /\ UNCHANGED <<kind, clock, items, ring, policy, jobs, fired, ended>>

handleEventIngest(c) == \E event \in Events : recordEvent(c, event)

\* Mutant: the cooldown is compared with the last trigger alone.
AppliesAfter(rule, e) ==
  IF ~rule.enabled \/ e.type \notin rule.on THEN "no"
  ELSE IF rule.cooldown > 0 /\ rule.last >= 0 /\ e.now < rule.last THEN "no"
  ELSE ruleMatchesEvent(rule, e)

\* The verdict on a rule under its lock, with the time of the evaluation.
Applies(rule, e) ==
  IF ~rule.enabled \/ e.type \notin rule.on THEN "no"
  ELSE IF rule.cooldown > 0 /\ rule.last >= 0 /\ e.now < rule.last + rule.cooldown THEN "no"
  ELSE ruleMatchesEvent(rule, e)

\* One round of the loop of Evaluate; an error ends it without any match.
Evaluate(c) ==
  /\ pc[c].at = "rule" /\ pc[c].todo # <<>>
  /\ LET e == pc[c]  r == Head(e.todo)  verdict == Applies(items[r], e) IN
     /\ Goto(c, CASE verdict = "error" -> Idle
                  [] verdict = "yes" -> [e EXCEPT !.todo = Tail(@), !.matches = @ \o [k \in DOMAIN items[r].actions |-> r]]
                  [] OTHER -> [e EXCEPT !.todo = Tail(@)])
     /\ items' = IF verdict = "yes" THEN [items EXCEPT ![r].last = e.now, ![r].count = @ + 1] ELSE items
     /\ fired' = IF verdict = "yes" THEN [fired EXCEPT ![r] = Append(@, e.now)] ELSE fired
  /\ UNCHANGED <<kind, clock, ring, policy, jobs, made, ended>>

\* The next action of the matches: each puts a job into the queue, or fails and is passed over.
executeRuleAction(c) ==
  /\ pc[c].at = "rule" /\ pc[c].todo = <<>>
  /\ LET e == pc[c] IN
     IF e.matches = <<>> THEN Goto(c, Idle) /\ UNCHANGED jobs
     ELSE \E q \in Enqueue("", Head(e.matches)) :
            jobs' = q.jobs /\ Goto(c, [e EXCEPT !.matches = Tail(@)])
  /\ UNCHANGED <<kind, clock, items, ring, policy, made, fired, ended>>

-----------------------------------------------------------------------------
(* Asynchronous commands *)

\* A checksum, action or path that will not do goes to the dead letters at once.
RefuseCommand(c) ==
  /\ kind = "commands" /\ Begin(c)
  /\ ring' = Kept(Append(ring, made'))
  /\ ended' = ended \cup {[id |-> made', out |-> "dead"]}
  /\ UNCHANGED <<kind, clock, items, policy, jobs, pc, fired>>

\* RecordAccepted: a known key answers with the command it came with before.
RecordAccepted(c, key) ==
  /\ kind = "commands" /\ Begin(c)
  /\ LET known == {n \in DOMAIN items : Trim[key] # "" /\ Trim[items[n].key] = Trim[key]} IN
     /\ items' = IF known # {} THEN items ELSE Append(items, [key |-> key])
     /\ Goto(c, [at |-> "enqueue", id |-> made', key |-> key,
                 command |-> IF known # {} THEN Min(known) ELSE Len(items) + 1])
  /\ UNCHANGED <<kind, clock, ring, policy, jobs, fired, ended>>

\* The key goes into the queue as it was spelled.
EnqueueCommand(c) ==
  /\ kind = "commands" /\ pc[c].at = "enqueue"
  /\ \E q \in Enqueue(pc[c].key, pc[c].command) :
       /\ jobs' = q.jobs
       /\ Goto(c, IF q.job = 0 THEN [pc[c] EXCEPT !.at = "dead"] ELSE Idle)
       /\ ended' = IF q.job = 0 THEN ended ELSE ended \cup {[id |-> pc[c].id, out |-> "job"]}
  /\ UNCHANGED <<kind, clock, items, ring, policy, made, fired>>

RecordDeadLetter(c) ==
  /\ kind = "commands" /\ pc[c].at = "dead"
  /\ ring' = Kept(Append(ring, pc[c].id))
  /\ ended' = ended \cup {[id |-> pc[c].id, out |-> "dead"]}
  /\ Goto(c, Idle)
  /\ UNCHANGED <<kind, clock, items, policy, jobs, made, fired>>

handleCommandIngest(c) ==
  RefuseCommand(c) \/ (\E key \in Keys : RecordAccepted(c, key)) \/ EnqueueCommand(c) \/ RecordDeadLetter(c)

-----------------------------------------------------------------------------
(* Converge triggers *)

\* Recorded first, and the oldest beyond the limit forgotten.
NewTrigger(c, key, auto) ==
  /\ kind = "converge" /\ Begin(c)
  /\ items' = Kept(Append(items, [id |-> made', key |-> Trim[key], auto |-> auto, status |-> "recorded", job |-> 0]))
  /\ Goto(c, IF auto THEN [at |-> "enqueue", id |-> made', key |-> Trim[key]] ELSE Idle)
  /\ UNCHANGED <<kind, clock, ring, policy, jobs, fired, ended>>

EnqueueTrigger(c) ==
  /\ kind = "converge" /\ pc[c].at = "enqueue"
  /\ \E q \in Enqueue(pc[c].key, pc[c].id) :
       /\ jobs' = q.jobs
       /\ Goto(c, [at |-> "outcome", id |-> pc[c].id, job |-> q.job])
  /\ UNCHANGED <<kind, clock, items, ring, policy, made, fired, ended>>

\* Nothing, if the trigger has been forgotten meanwhile.
UpdateOutcome(c) ==
  /\ kind = "converge" /\ pc[c].at = "outcome"
  /\ items' = [n \in DOMAIN items |->
       IF items[n].id # pc[c].id THEN items[n]
       ELSE [items[n] EXCEPT !.status = IF pc[c].job = 0 THEN "blocked" ELSE "queued", !.job = pc[c].job]]
  /\ ended' = ended \cup {[id |-> pc[c].id, out |-> IF pc[c].job = 0 THEN "blocked" ELSE "queued"]}
  /\ Goto(c, Idle)
  /\ UNCHANGED <<kind, clock, ring, policy, jobs, made, fired>>

handleConvergeTriggers(c) ==
  (\E key \in Keys, auto \in BOOLEAN : NewTrigger(c, key, auto)) \/ EnqueueTrigger(c) \/ UpdateOutcome(c)

-----------------------------------------------------------------------------
(* Ad-hoc commands *)

SetPolicy(in) ==
  /\ kind = "adhoc"
  /\ policy' = in
  /\ UNCHANGED <<kind, clock, items, ring, jobs, pc, made, fired, ended>>

handleAdHocPolicy == \E in \in AdHocPolicies : SetPolicy(in)

\* The verdict under the policy of the moment; a blocked pattern blocks under every policy here.
EvaluateAdHoc(c, in) ==
  /\ kind = "adhoc" /\ Begin(c)
  /\ LET blocked == (policy.reason /\ ~in.reason) \/ in.pattern \/ (~in.dry /\ ~policy.allow) IN
     Goto(c, [at |-> IF blocked \/ in.dry THEN "record" ELSE "run", id |-> made', under |-> policy, in |-> in,
              status |-> IF blocked THEN "blocked" ELSE "approved"])
  /\ UNCHANGED <<kind, clock, items, ring, policy, jobs, fired, ended>>

\* The command exits, fails, or is stopped at its timeout.
executeAdHocCommand(c) ==
  /\ kind = "adhoc" /\ pc[c].at = "run"
  /\ \E status \in {"succeeded", "failed"} : Goto(c, [pc[c] EXCEPT !.at = "record", !.status = status])
  /\ jobs' = Append(jobs, [key |-> "", for |-> pc[c].id])
  /\ UNCHANGED <<kind, clock, items, ring, policy, made, fired, ended>>

RecordAdHoc(c) ==
  /\ kind = "adhoc" /\ pc[c].at = "record"
  /\ items' = Kept(Append(items, [id |-> pc[c].id, status |-> pc[c].status, in |-> pc[c].in, under |-> pc[c].under]))
  /\ ended' = ended \cup {[id |-> pc[c].id, out |-> pc[c].status]}
  /\ Goto(c, Idle)
  /\ UNCHANGED <<kind, clock, ring, policy, jobs, made, fired>>

handleAdHocCommands(c) ==
  \/ \E in \in AdHocCommandRequests : EvaluateAdHoc(c, in)
  \/ executeAdHocCommand(c)
  \/ RecordAdHoc(c)

-----------------------------------------------------------------------------

Next ==
  \/ Tick \/ handleRules \/ handleRuleAction \/ handleAdHocPolicy
  \/ \E c \in Callers :
       \/ handleEventIngest(c)
       \/ Evaluate(c)
       \/ executeRuleAction(c)
       \/ handleCommandIngest(c)
       \/ handleConvergeTriggers(c)
       \/ handleAdHocCommands(c)

Spec == Init /\ [][Next]_vars

-----------------------------------------------------------------------------
(* Properties *)

\* The type of every variable.
TypeOK ==
  /\ clock \in 0..MaxClock /\ made \in 0..MaxRequests
  /\ \A n \in DOMAIN items :
       items[n] \in CASE kind = "rules" -> RuleSet [] kind = "commands" -> CommandEnvelopes
                      [] kind = "converge" -> ConvergeTriggers [] kind = "adhoc" -> AdHocCommandResults
  /\ Len(ring) <= Limit /\ (kind \in {"converge", "adhoc"} => Len(items) <= Limit)
  /\ \A c \in Callers : pc[c].at \in {"idle", "rule", "enqueue", "dead", "outcome", "run", "record"}
  /\ \A n \in DOMAIN jobs : jobs[n].for \in 1..(MaxRules + MaxRequests)
  /\ \A e \in ended : e.id \in 1..made

\* Every trigger of a rule that has a cooldown is that much later than all before it, none
\* at the same instant, whichever evaluations of Evaluate run side by side with times they
\* have read in whichever order.
CooldownKept ==
  kind = "rules" =>
    \A r \in DOMAIN items : items[r].cooldown > 0 =>
      \A i, j \in DOMAIN fired[r] : i < j => fired[r][j] - fired[r][i] >= items[r].cooldown

Working(id) == \E c \in Callers : pc[c] # Idle /\ pc[c].id = id
Ended(id) == {e.out : e \in {x \in ended : x.id = id}}
JobsFor(n) == Cardinality({k \in DOMAIN jobs : jobs[k].for = n})

\* A request leaves one account of itself.  The actions of a rule put no more
\* jobs into the queue than its triggers allow; a command that handleCommandIngest
\* has finished with has a job or a dead letter, and a job for each spelling of its
\* key at most; a trigger that is still listed is queued with a job of its key,
\* blocked, or waiting for its handler; and a listed ad-hoc result is of a command
\* that ran once if the policy it was judged under lets it run, and never otherwise.
Accounted ==
  /\ kind = "rules" => \A r \in DOMAIN items : JobsFor(r) <= items[r].count * Len(items[r].actions)
  /\ kind = "commands" =>
       /\ \A id \in 1..made : Working(id) \/ Cardinality(Ended(id)) = 1
       /\ \A j, k \in DOMAIN jobs : jobs[j].key = jobs[k].key /\ jobs[j].key # "" => j = k
       /\ \A m, n \in DOMAIN items : Trim[items[m].key] = Trim[items[n].key] /\ Trim[items[m].key] # "" => m = n
  /\ kind = "converge" => \A n \in DOMAIN items : LET t == items[n] IN
       CASE t.status = "recorded" -> t.auto => Working(t.id)
         [] t.status = "blocked" -> t.job = 0 /\ JobsFor(t.id) = 0
         [] t.status = "queued" -> jobs[t.job].for = t.id \/ (t.key # "" /\ jobs[t.job].key = t.key)
  /\ kind = "adhoc" => \A n \in DOMAIN items : LET t == items[n] IN
       JobsFor(t.id) = IF t.in.dry \/ t.in.pattern \/ ~t.under.allow \/ (t.under.reason /\ ~t.in.reason) THEN 0 ELSE 1
=============================================================================
