------------------------------- MODULE Catalog -------------------------------
(***************************************************************************)
(* What operators launch and sign off: templates with surveys, runbooks    *)
(* and solution packs (templates.go, runbooks.go, solution_packs.go),      *)
(* checklists (checklists.go) and change records (change_records.go) of    *)
(* internal/control, with the handlers of internal/server/server.go.       *)
(*                                                                         *)
(* Each store has a lock of its own.  A launch reads the runbook, then the *)
(* template, and puts a job into the queue last, so that a template may    *)
(* be deleted or a runbook deprecated meanwhile.  The variable kind says   *)
(* which part is at work.                                                  *)
(***************************************************************************)
EXTENDS Integers, Sequences, FiniteSets

CONSTANTS
  Callers,
  Templates,   \* templates one can create: [strict, survey, defaults, text]
  Answers,     \* answers one can give: functions from fields to values
  Packs,       \* solution packs, one output path each
  Risks,       \* risk levels of checklists
  Actors,
  MaxTemplates, MaxRunbooks, MaxJobs, MaxItems, MaxDecisions   \* bounds

VARIABLES
  kind,
  templates,   \* sequence of templates: [spec, live]
  runbooks,    \* sequence of runbooks: [status, target], the target a template, a pack's path or a workflow
  files,       \* output paths that exist
  pc,
  jobs,        \* number of jobs launched
  late,        \* history: per runbook the jobs launched since it has been deprecated
  items        \* checklists or change records

vars == <<kind, templates, runbooks, files, pc, jobs, late, items>>

Idle == [at |-> "idle"]

\* What the stores hold.
TemplateRecords == [spec : Templates, live : BOOLEAN]
IsRunbook(r) ==
  /\ r.status \in {"draft", "approved", "deprecated"}
  /\ CASE r.target.type = "config" -> r.target.of \in Packs
       [] r.target.type = "template" -> r.target.of \in DOMAIN templates
       [] r.target.type = "workflow" -> r.target.of = 0
ChecklistItems == [phase : {"pre", "post"}, id : {"review", "baseline", "quorum", "verification", "handoff", "rollback"}]
ChecklistRuns == [risk : Risks, done : SUBSET ChecklistItems, status : {"open", "completed"}]
ChangeApprovals == [actor : Actors, decision : {"approve", "reject"}]
ChangeRecords == [status : {"proposed", "approved", "rejected", "executing", "completed", "failed"},
                  approvals : Seq(ChangeApprovals), job : BOOLEAN]

Init ==
  /\ kind \in {"launch", "checklists", "changes"}
  /\ templates = <<>> /\ runbooks = <<>> /\ files = {} /\ jobs = 0 /\ late = <<>> /\ items = <<>>
  /\ pc = [c \in Callers |-> Idle]

-----------------------------------------------------------------------------
(* Surveys and rendering *)

Given(answers, f) == f \in DOMAIN answers /\ answers[f] # ""

\* Atoi and ParseBool on the values that Answers holds.
OfType(value, type) ==
  CASE type = "int" -> value \in {"0", "1"}
    [] type = "bool" -> value \in {"0", "1", "true"}
    [] type = "string" -> TRUE
    [] OTHER -> FALSE

ValidateSurveyAnswers(schema, answers) ==
  \/ DOMAIN schema = {}
  \/ /\ DOMAIN answers \subseteq DOMAIN schema
     /\ \A f \in DOMAIN schema :
          /\ schema[f].required => Given(answers, f)
          /\ Given(answers, f) => /\ OfType(answers[f], schema[f].type)
                                  /\ schema[f].enum = {} \/ answers[f] \in schema[f].enum

MergeTemplateVariables(defaults, answers) ==
  [k \in DOMAIN defaults \cup DOMAIN answers |-> IF k \in DOMAIN answers THEN answers[k] ELSE defaults[k]]

\* An expression is a variable with a function, "plain" (upper and so on) or "default", which has a fallback.
renderTemplateExpression(e, vs) ==
  LET known == e.var \in DOMAIN vs IN
  IF known /\ (e.fn = "default" => vs[e.var] # "") THEN [value |-> vs[e.var], missing |-> {}]
  ELSE [value |-> IF e.fn = "default" THEN e.fallback ELSE "", missing |-> IF known THEN {} ELSE {e.var}]

\* A variable that default falls back for counts as missing all the same.
RenderTemplateText(text, vs) == UNION {renderTemplateExpression(text[n], vs).missing : n \in DOMAIN text}

RenderTemplateFile(t, answers) ==
  t.strict => RenderTemplateText(t.text, MergeTemplateVariables(t.defaults, answers)) = {}

-----------------------------------------------------------------------------
(* Templates *)

CreateTemplate(spec) ==
  /\ Len(templates) < MaxTemplates
  /\ templates' = Append(templates, [spec |-> spec, live |-> TRUE])

handleTemplates ==
  /\ kind = "launch"
  /\ \E spec \in Templates : CreateTemplate(spec)
  /\ UNCHANGED <<kind, runbooks, files, pc, jobs, late, items>>

Delete(t) ==
  /\ templates[t].live
  /\ templates' = [templates EXCEPT ![t].live = FALSE]
  /\ UNCHANGED <<kind, runbooks, files, pc, jobs, late, items>>

\* The queue takes the job, finds it or refuses it; runbook is 0 for a template launched as such.
Enqueue(c) ==
  /\ pc[c].at = "enqueue"
  /\ \/ jobs < MaxJobs /\ jobs' = jobs + 1
        /\ late' = [r \in DOMAIN late |-> IF r = pc[c].runbook /\ runbooks[r].status = "deprecated"
                                          THEN late[r] + 1 ELSE late[r]]
     \/ UNCHANGED <<jobs, late>>
  /\ pc' = [pc EXCEPT ![c] = Idle]
  /\ UNCHANGED <<kind, templates, runbooks, files, items>>

LaunchTemplate(c, t, answers) ==
  /\ kind = "launch" /\ pc[c] = Idle /\ templates[t].live
  /\ ValidateSurveyAnswers(templates[t].spec.survey, answers)
  /\ RenderTemplateFile(templates[t].spec, answers)
  /\ pc' = [pc EXCEPT ![c] = [at |-> "enqueue", runbook |-> 0, answers |-> answers, template |-> t, rendered |-> TRUE]]
  /\ UNCHANGED <<kind, templates, runbooks, files, jobs, late, items>>

handleTemplateAction(c) ==
  \E t \in DOMAIN templates : (\E answers \in Answers : LaunchTemplate(c, t, answers)) \/ Delete(t)

-----------------------------------------------------------------------------
(* Runbooks *)

CreateRunbook(status, target) ==
  /\ Len(runbooks) < MaxRunbooks
  /\ runbooks' = Append(runbooks, [status |-> status, target |-> target])
  /\ late' = Append(late, 0)

\* The handler looks the target up before: of templates those that are there, of workflows any.
Targets == {[type |-> "template", of |-> t] : t \in {t \in DOMAIN templates : templates[t].live}}
           \cup {[type |-> "config", of |-> p] : p \in files} \cup {[type |-> "workflow", of |-> 0]}

handleRunbooks ==
  /\ kind = "launch"
  /\ \E target \in Targets : CreateRunbook("draft", target)
  /\ UNCHANGED <<kind, templates, files, pc, jobs, items>>

\* From any status.
Approve(r) == runbooks' = [runbooks EXCEPT ![r].status = "approved"] /\ late' = [late EXCEPT ![r] = 0]

Deprecate(r) ==
  /\ runbooks' = [runbooks EXCEPT ![r].status = "deprecated"]
  /\ late' = [late EXCEPT ![r] = IF runbooks[r].status = "deprecated" THEN @ ELSE 0]

GetRunbook(c, r) ==
  /\ pc[c] = Idle /\ runbooks[r].status = "approved"
  /\ pc' = [pc EXCEPT ![c] = [at |-> "target", runbook |-> r]]
  /\ UNCHANGED <<runbooks, late>>

\* A template launched by a runbook is checked against its survey and not rendered.
LaunchTarget(c, answers) ==
  /\ pc[c].at = "target"
  /\ LET target == runbooks[pc[c].runbook].target
         t == IF target.type = "template" THEN target.of ELSE 0 IN
     pc' = [pc EXCEPT ![c] =
       IF t = 0 \/ (templates[t].live /\ ValidateSurveyAnswers(templates[t].spec.survey, answers))
       THEN [at |-> "enqueue", runbook |-> pc[c].runbook, answers |-> answers, template |-> t, rendered |-> FALSE]
       ELSE Idle]
  /\ UNCHANGED <<runbooks, late>>

handleRunbookAction(c) ==
  /\ kind = "launch"
  /\ \/ \E r \in DOMAIN runbooks : (Approve(r) \/ Deprecate(r)) /\ UNCHANGED pc
     \/ \E r \in DOMAIN runbooks : GetRunbook(c, r)
     \/ \E answers \in Answers : LaunchTarget(c, answers)
  /\ UNCHANGED <<kind, templates, files, jobs, items>>

-----------------------------------------------------------------------------
(* Solution packs *)

\* The path must not exist; the file is written, and the template and the runbook made, in steps of their own.
BeginApply(c, p, template, runbook) ==
  /\ pc[c] = Idle /\ p \notin files
  /\ pc' = [pc EXCEPT ![c] = [at |-> "write", pack |-> p, template |-> template \/ ~runbook, runbook |-> runbook]]
  /\ UNCHANGED <<templates, runbooks, files, late>>

WriteStarter(c) ==
  /\ pc[c].at = "write"
  /\ files' = files \cup {pc[c].pack}
  /\ pc' = [pc EXCEPT ![c].at = IF pc[c].template THEN "pack template" ELSE "pack runbook"]
  /\ UNCHANGED <<templates, runbooks, late>>

\* What a pack's template is: no survey and no defaults.
PackSpec == [strict |-> FALSE, survey |-> <<>>, defaults |-> <<>>, text |-> <<>>]

PackTemplate(c) ==
  /\ pc[c].at = "pack template"
  /\ CreateTemplate(PackSpec)
  /\ pc' = [pc EXCEPT ![c] = IF pc[c].runbook THEN [pc[c] EXCEPT !.at = "pack runbook"] ELSE Idle]
  /\ UNCHANGED <<runbooks, files, late>>

PackRunbook(c) ==
  /\ pc[c].at = "pack runbook"
  /\ CreateRunbook("draft", [type |-> "config", of |-> pc[c].pack])
  /\ pc' = [pc EXCEPT ![c] = [at |-> "approve", made |-> Len(runbooks) + 1]]
  /\ UNCHANGED <<templates, files>>

ApprovePack(c) ==
  /\ pc[c].at = "approve"
  /\ Approve(pc[c].made)
  /\ pc' = [pc EXCEPT ![c] = Idle]
  /\ UNCHANGED <<templates, files>>

handleSolutionPackAction(c) ==
  /\ kind = "launch"
  /\ \/ \E p \in Packs, template, runbook \in BOOLEAN : BeginApply(c, p, template, runbook)
     \/ WriteStarter(c) \/ PackTemplate(c) \/ PackRunbook(c) \/ ApprovePack(c)
  /\ UNCHANGED <<kind, jobs, items>>

-----------------------------------------------------------------------------
(* Checklists *)

\* All of them are required.
defaultChecklistItems(risk) ==
  {[phase |-> "pre", id |-> "review"], [phase |-> "pre", id |-> "baseline"],
   [phase |-> "post", id |-> "verification"], [phase |-> "post", id |-> "handoff"]}
  \cup IF risk = "high" THEN {[phase |-> "pre", id |-> "quorum"], [phase |-> "post", id |-> "rollback"]} ELSE {}

CreateChecklist(risk) == Len(items) < MaxItems /\ items' = Append(items, [risk |-> risk, done |-> {}, status |-> "open"])

handleChecklists ==
  /\ kind = "checklists" /\ \E risk \in Risks : CreateChecklist(risk)
  /\ UNCHANGED <<kind, templates, runbooks, files, pc, jobs, late>>

CompleteItem(i, item) ==
  LET done == items[i].done \cup {item} IN
  items' = [items EXCEPT ![i].done = done,
                         ![i].status = IF defaultChecklistItems(items[i].risk) \subseteq done THEN "completed" ELSE "open"]

EvaluateGate(i, phase) == {item \in defaultChecklistItems(items[i].risk) : item.phase = phase /\ item \notin items[i].done}

handleChecklistAction ==
  /\ kind = "checklists"
  /\ \E i \in DOMAIN items : \E item \in defaultChecklistItems(items[i].risk) : CompleteItem(i, item)
  /\ UNCHANGED <<kind, templates, runbooks, files, pc, jobs, late>>

-----------------------------------------------------------------------------
(* Change records *)

CreateRecord == Len(items) < MaxItems /\ items' = Append(items, [status |-> "proposed", approvals |-> <<>>, job |-> FALSE])

handleChangeRecords ==
  /\ kind = "changes" /\ CreateRecord
  /\ UNCHANGED <<kind, templates, runbooks, files, pc, jobs, late>>

\* Decisions and marks are taken in any status.
recordDecision(i, actor, decision) ==
  /\ Len(items[i].approvals) < MaxDecisions
  /\ items' = [items EXCEPT ![i].approvals = Append(@, [actor |-> actor, decision |-> decision]),
                            ![i].status = IF decision = "approve" THEN "approved" ELSE "rejected"]

AttachJob(i) == items' = [items EXCEPT ![i].job = TRUE, ![i].status = "executing"]

setTerminalStatus(i, status) == items' = [items EXCEPT ![i].status = status]

handleChangeRecordAction ==
  /\ kind = "changes"
  /\ \E i \in DOMAIN items :
       \/ \E actor \in Actors, decision \in {"approve", "reject"} : recordDecision(i, actor, decision)
       \/ AttachJob(i)
       \/ \E status \in {"completed", "failed"} : setTerminalStatus(i, status)
  /\ UNCHANGED <<kind, templates, runbooks, files, pc, jobs, late>>

-----------------------------------------------------------------------------

Next ==
  \/ handleTemplates \/ handleRunbooks \/ handleChecklists \/ handleChecklistAction
  \/ handleChangeRecords \/ handleChangeRecordAction
  \/ \E c \in Callers : \/ handleTemplateAction(c) \/ handleRunbookAction(c)
                        \/ handleSolutionPackAction(c) \/ Enqueue(c)

Spec == Init /\ [][Next]_vars

-----------------------------------------------------------------------------
(* Properties *)

\* The type of every variable.
TypeOK ==
  /\ jobs \in 0..MaxJobs /\ files \subseteq Packs /\ Len(late) = Len(runbooks)
  /\ \A t \in DOMAIN templates : templates[t] \in TemplateRecords \/ templates[t].spec = PackSpec
  /\ \A r \in DOMAIN runbooks : IsRunbook(runbooks[r])
  /\ \A i \in DOMAIN items : items[i] \in CASE kind = "checklists" -> ChecklistRuns [] kind = "changes" -> ChangeRecords

\* A runbook that has been deprecated launches no more than the calls that had
\* already found it approved: at most one job per caller until it is approved again.
LaunchLag == \A r \in DOMAIN runbooks : late[r] <= Cardinality(Callers)

\* What goes to the queue for a template has answers its survey admits, for every
\* required field one, and, when the template is strict and is launched as such, a
\* value for every variable of its text.
LaunchChecked ==
  \A c \in Callers : pc[c].at = "enqueue" /\ pc[c].template # 0 =>
    LET t == templates[pc[c].template].spec  a == pc[c].answers IN
    /\ \A f \in DOMAIN t.survey : t.survey[f].required => f \in DOMAIN a /\ a[f] # ""
    /\ \A f \in DOMAIN a \cap DOMAIN t.survey : a[f] = "" \/ t.survey[f].enum = {} \/ a[f] \in t.survey[f].enum
    /\ t.strict /\ pc[c].rendered => \A n \in DOMAIN t.text : t.text[n].var \in DOMAIN t.defaults \cup DOMAIN a

\* A checklist is completed exactly when the gates of both phases are open, and a
\* change record that says it is approved or rejected was so decided last, and one
\* that is executing has a job.
SignedOff ==
  /\ kind = "checklists" => \A i \in DOMAIN items :
       items[i].status = "completed" <=> EvaluateGate(i, "pre") = {} /\ EvaluateGate(i, "post") = {}
  /\ kind = "changes" => \A i \in DOMAIN items :
       /\ items[i].status \in {"approved", "rejected"} =>
            /\ items[i].approvals # <<>>
            /\ (items[i].approvals[Len(items[i].approvals)].decision = "approve") = (items[i].status = "approved")
       /\ items[i].status = "executing" => items[i].job
=============================================================================
