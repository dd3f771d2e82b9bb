------------------------------ MODULE Workflow ------------------------------
(***************************************************************************)
(* Workflow runs (internal/control/workflow.go) over the life of the jobs  *)
(* they submit.  A run goes through its steps one job at a time: the       *)
(* notification of a step's success dispatches the next step, from the     *)
(* goroutine that delivers it.                                             *)
(*                                                                         *)
(* dispatchStep and onJob read under the read lock, let it go, and write   *)
(* under the lock again, with the call of Enqueue in between.  An activity *)
(* is a goroutine between two of these sections: a caller's, or the        *)
(* worker's while it announces the end of a job, and then the worker       *)
(* starts no other job before the activity returns.  The idempotency key   *)
(* of a step is runID-step-i, so the pair <<run, step>> names its job.     *)
(***************************************************************************)
EXTENDS Naturals, Sequences, FiniteSets

CONSTANTS
  Runs,         \* run ids a behaviour may use
  Workflows,    \* workflow ids a behaviour may use
  Templates,
  StepInputs,   \* the step lists callers pass to Create, sequences of templates
  MaxNotices,   \* bound on the undelivered notifications of operator calls
  Ops           \* what operators do besides launching

MaxSteps == 3   \* bound on the length of a workflow
Steps == 0 .. MaxSteps - 1
JobIds == Runs \X Steps
NoWorkflow == "no workflow"

VARIABLES
  status, phase, notices,   \* the jobs: JobLifecycle
  templates,                \* the templates in the template store
  workflows,                \* the step list of each workflow, <<>> before Create
  runStatus, runOf,         \* Status and WorkflowID of each run
  currentStep,
  jobRefs,                  \* the jobs with an entry in w.jobRefs
  acts                      \* activities: [run, step, at, from]

Jobs == INSTANCE JobLifecycle

jobVars == <<status, phase, notices>>
runVars == <<runStatus, runOf, currentStep, jobRefs>>
vars == <<jobVars, templates, workflows, runVars, acts>>

Init ==
  /\ Jobs!Init
  /\ templates = Templates
  /\ workflows = [w \in Workflows |-> <<>>]
  /\ runStatus = [r \in Runs |-> "absent"] /\ runOf = [r \in Runs |-> NoWorkflow]
  /\ currentStep = [r \in Runs |-> 0]
  /\ jobRefs = {} /\ acts = {}

Over(r) == runStatus[r] \in {"succeeded", "failed"}
Caller == <<"caller">>

\* The activity goes on to its next section.
Becomes(a, at) == acts' = (acts \ {a}) \cup {[a EXCEPT !.at = at]}

\* The activity returns; the worker has then announced its job.
Returns(a) ==
  /\ acts' = acts \ {a}
  /\ IF a.from = Caller THEN UNCHANGED jobVars ELSE Jobs!Announce(a.from)

-----------------------------------------------------------------------------
(* The API *)

\* Create refuses an empty step list and unknown templates.
Create(w, steps) ==
  /\ workflows[w] = <<>>
  /\ steps # <<>>
  /\ \A i \in DOMAIN steps : steps[i] \in templates
  /\ workflows' = [workflows EXCEPT ![w] = steps]
  /\ UNCHANGED <<jobVars, templates, runVars, acts>>

\* TemplateStore.Delete does not ask whether a workflow uses the template.
DeleteTemplate(t) ==
  /\ templates' = templates \ {t}
  /\ UNCHANGED <<jobVars, workflows, runVars, acts>>

\* Launch creates the run and calls dispatchStep for step 0.
Launch(r, w) ==
  /\ workflows[w] # <<>>
  /\ runStatus[r] = "absent"
  /\ runStatus' = [runStatus EXCEPT ![r] = "pending"]
  /\ runOf' = [runOf EXCEPT ![r] = w]
  /\ acts' = acts \cup {[run |-> r, step |-> 0, at |-> "read", from |-> Caller]}
  /\ UNCHANGED <<jobVars, templates, workflows, currentStep, jobRefs>>

-----------------------------------------------------------------------------
(* dispatchStep *)

\* The section under the read lock.
ReadRun(a) ==
  /\ a.at = "read"
  /\ IF Over(a.run) THEN Returns(a) ELSE (Becomes(a, "enqueue") /\ UNCHANGED jobVars)
  /\ UNCHANGED <<templates, workflows, runVars>>

\* The template lookup and Enqueue.  Both fail into failRun; Enqueue refuses
\* under an emergency stop, a freeze or with a full channel, and hands back
\* the job it already has for the step's key.
EnqueueStep(a) ==
  LET job == <<a.run, a.step>> IN
  /\ a.at = "enqueue"
  /\ \/ workflows[runOf[a.run]][a.step + 1] \notin templates /\ Becomes(a, "fail") /\ UNCHANGED jobVars
     \/ "refuse" \in Ops /\ Becomes(a, "fail") /\ UNCHANGED jobVars
     \/ /\ workflows[runOf[a.run]][a.step + 1] \in templates
        /\ IF status[job] = "absent" THEN Jobs!Submit(job) ELSE UNCHANGED jobVars
        /\ Becomes(a, "register")
  /\ UNCHANGED <<templates, workflows, runVars>>

\* Mutant: a run that has ended in the meantime is set to running again.
RegisterRevives(a) ==
  /\ a.at = "register"
  /\ runStatus' = [runStatus EXCEPT ![a.run] = "running"]
  /\ currentStep' = [currentStep EXCEPT ![a.run] = a.step]
  /\ jobRefs' = jobRefs \cup {<<a.run, a.step>>}
  /\ Returns(a)
  /\ UNCHANGED <<templates, workflows, runOf>>

\* The section after Enqueue: only now can onJob find the job.
Register(a) ==
  /\ a.at = "register"
  /\ IF Over(a.run)
     THEN UNCHANGED runVars
     ELSE /\ runStatus' = [runStatus EXCEPT ![a.run] = "running"]
          /\ currentStep' = [currentStep EXCEPT ![a.run] = a.step]
          /\ jobRefs' = jobRefs \cup {<<a.run, a.step>>}
          /\ UNCHANGED runOf
  /\ Returns(a)
  /\ UNCHANGED <<templates, workflows>>

-----------------------------------------------------------------------------
(* onJob *)

\* Mutant: the last step is taken for one before the last.
ReactionSkipsLast(r, i, s) ==
  IF s # "succeeded" THEN "fail"
  ELSE IF i + 2 >= Len(workflows[runOf[r]]) THEN "succeed" ELSE "read"

\* What onJob does next with the final status of a step's job.
Reaction(r, i, s) ==
  IF s # "succeeded" THEN "fail"
  ELSE IF i + 1 >= Len(workflows[runOf[r]]) THEN "succeed" ELSE "read"

\* onJob's section under the read lock: a job without an entry in jobRefs and
\* a run that has ended are ignored.
Ignored(job) == job \notin jobRefs \/ Over(job[1])

Reacts(job, s, from) ==
  LET at == Reaction(job[1], job[2], s) IN
  /\ ~Ignored(job)
  /\ acts' = acts \cup {[run |-> job[1], step |-> IF at = "read" THEN job[2] + 1 ELSE job[2],
                         at |-> at, from |-> from]}

\* A caller of Cancel or FailJob tells onJob.
OnJob(job, s) ==
  /\ Jobs!Deliver(job, s)
  /\ (Ignored(job) /\ UNCHANGED acts) \/ Reacts(job, s, Caller)
  /\ UNCHANGED <<templates, workflows, runVars>>

\* The worker tells onJob, and is through when the activity returns.
OnWorkerJob(job) ==
  /\ phase[job] = "announcing" /\ \A a \in acts : a.from # job
  /\ \/ Ignored(job) /\ Jobs!Announce(job) /\ UNCHANGED acts
     \/ Reacts(job, status[job], job) /\ UNCHANGED jobVars
  /\ UNCHANGED <<templates, workflows, runVars>>

\* onJob's section for the success of the last step.
Succeed(a) ==
  /\ a.at = "succeed"
  /\ IF Over(a.run)
     THEN UNCHANGED runVars
     ELSE /\ runStatus' = [runStatus EXCEPT ![a.run] = "succeeded"]
          /\ currentStep' = [currentStep EXCEPT ![a.run] = Len(workflows[runOf[a.run]])]
          /\ UNCHANGED <<runOf, jobRefs>>
  /\ Returns(a)
  /\ UNCHANGED <<templates, workflows>>

FailRun(a) ==
  /\ a.at = "fail"
  /\ runStatus' = IF Over(a.run) THEN runStatus ELSE [runStatus EXCEPT ![a.run] = "failed"]
  /\ Returns(a)
  /\ UNCHANGED <<templates, workflows, runOf, currentStep, jobRefs>>

-----------------------------------------------------------------------------
(* The queue and the specification *)

Undelivered(j) == notices[j]["failed"] + notices[j]["canceled"]

Work(j) == Jobs!Work(j) /\ UNCHANGED <<templates, workflows, runVars, acts>>
CancelJob(j) == Undelivered(j) < MaxNotices /\ Jobs!Cancel(j) /\ UNCHANGED <<templates, workflows, runVars, acts>>
FailJob(j) == Undelivered(j) < MaxNotices /\ Jobs!Fail(j) /\ UNCHANGED <<templates, workflows, runVars, acts>>

Proceed(a) == ReadRun(a) \/ EnqueueStep(a) \/ Register(a) \/ Succeed(a) \/ FailRun(a)
Activity == \E a \in acts : Proceed(a)

Operator ==
  \/ \E w \in Workflows, s \in StepInputs : Create(w, s)
  \/ \E r \in Runs, w \in Workflows : Launch(r, w)
  \/ "delete" \in Ops /\ \E t \in templates : DeleteTemplate(t)
  \/ "cancel" \in Ops /\ \E j \in JobIds : CancelJob(j)
  \/ "fail" \in Ops /\ \E j \in JobIds : FailJob(j)

Queue ==
  \E j \in JobIds : Work(j) \/ OnWorkerJob(j) \/ \E s \in Jobs!ByCaller : OnJob(j, s)

\* Every activity has returned, every job has ended and been announced.
Idle ==
  /\ acts = {}
  /\ \A j \in JobIds : phase[j] \in {"none", "over"} /\ Undelivered(j) = 0
  /\ UNCHANGED vars

Next == Operator \/ Activity \/ Queue \/ Idle

Spec == Init /\ [][Next]_vars

-----------------------------------------------------------------------------
(* Properties *)

\* The type of every variable.
TypeOK ==
  /\ templates \subseteq Templates
  /\ workflows \in [Workflows -> StepInputs \cup {<<>>}]
  /\ runStatus \in [Runs -> {"absent", "pending", "running", "succeeded", "failed"}]
  /\ runOf \in [Runs -> Workflows \cup {NoWorkflow}]
  /\ currentStep \in [Runs -> Nat]
  /\ \A r \in Runs : runOf[r] # NoWorkflow => currentStep[r] <= Len(workflows[runOf[r]])
  /\ jobRefs \subseteq JobIds
  /\ acts \subseteq [run : Runs, step : Steps, at : {"read", "enqueue", "register", "succeed", "fail"},
                       from : JobIds \cup {Caller}]

StepsOf(r) == 0 .. Len(workflows[runOf[r]]) - 1

\* A run succeeds only when the job of every one of its steps has succeeded.
SuccessMeansAllSteps ==
  \A r \in Runs : runStatus[r] = "succeeded" =>
    \A i \in StepsOf(r) : status[<<r, i>>] = "succeeded"

\* A step's job is submitted only after the job of the step before has succeeded.
StepsInOrder ==
  \A r \in Runs, i \in Steps :
    i > 0 /\ status[<<r, i>>] # "absent" => status[<<r, i - 1>>] = "succeeded"

\* A failed run leaves no job of its own pending or running.
FailureStopsRun ==
  \A r \in Runs : runStatus[r] = "failed" =>
    \A i \in Steps : status[<<r, i>>] \notin {"pending", "running"}

=============================================================================
