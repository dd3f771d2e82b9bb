--------------------------- MODULE WorkflowProofs ---------------------------
(***************************************************************************)
(* A workflow run takes its steps in order and succeeds only with all of   *)
(* them, for any number of runs, workflows, templates and concurrent       *)
(* activities.                                                             *)
(***************************************************************************)
EXTENDS Workflow, SequenceTheorems, TLAPS

\* Zenon proves a leaf unless the leaf names another prover.
USE Zenon

\* What is assumed of the step lists: MaxSteps bounds their length.
StepsBounded == \A s \in StepInputs : s \in Seq(Templates) /\ Len(s) <= MaxSteps

-----------------------------------------------------------------------------
(* The inductive invariant *)

JobStatuses == {"absent", "pending", "running", "succeeded", "failed", "canceled"}
JobPhases == {"none", "queued", "taken", "applying", "announcing", "over"}

\* A job that has succeeded is past the worker, so no step changes its status;
\* a job that was never submitted is not at the worker.
JobsInv ==
  /\ status \in [JobIds -> JobStatuses] /\ phase \in [JobIds -> JobPhases]
  /\ \A j \in JobIds : status[j] = "succeeded" => phase[j] \in {"announcing", "over"}
  /\ \A j \in JobIds : status[j] = "absent" => phase[j] = "none"

RunsType ==
  /\ workflows \in [Workflows -> StepInputs \cup {<<>>}]
  /\ runStatus \in [Runs -> {"absent", "pending", "running", "succeeded", "failed"}]
  /\ runOf \in [Runs -> Workflows \cup {NoWorkflow}]
  /\ jobRefs \subseteq JobIds
  /\ acts \subseteq [run : Runs, step : Steps, at : {"read", "enqueue", "register", "succeed", "fail"},
                       from : JobIds \cup {Caller}]

Known(r) == runStatus[r] # "absent"
Length(r) == Len(workflows[runOf[r]])
DoneBefore(r, i) == \A k \in Steps : k < i => status[<<r, k>>] = "succeeded"

\* A run that was launched has a workflow, which is never replaced.
RunsInv ==
  \A r \in Runs : Known(r) =>
    runOf[r] \in Workflows /\ workflows[runOf[r]] \in StepInputs /\ workflows[runOf[r]] # <<>>

\* An activity has its step's predecessors behind it, a registering one its
\* job submitted, and one that ends the run all of the run's steps.
ActInv(a) ==
  /\ Known(a.run) /\ a.step < Length(a.run)
  /\ a.at \in {"read", "enqueue", "register"} => DoneBefore(a.run, a.step)
  /\ a.at = "register" => status[<<a.run, a.step>>] # "absent"
  /\ a.at = "succeed" => Length(a.run) <= a.step + 1 /\ DoneBefore(a.run, a.step + 1)

RefInv(j) == Known(j[1]) /\ status[j] # "absent" /\ j[2] < Length(j[1])

OrderInv == \A r \in Runs, i \in Steps : status[<<r, i>>] # "absent" => DoneBefore(r, i)

WorkflowInv ==
  /\ JobsInv /\ RunsType /\ RunsInv /\ OrderInv /\ SuccessMeansAllSteps
  /\ \A a \in acts : ActInv(a)
  /\ \A j \in jobRefs : RefInv(j)

-----------------------------------------------------------------------------
(* What every step keeps *)

\* Jobs do not become absent again and a success stays.
JobsGrow ==
  \A j \in JobIds : /\ status[j] # "absent" => status'[j] # "absent"
                    /\ status[j] = "succeeded" => status'[j] = "succeeded"

\* A launched run keeps its workflow and its steps.
RunsGrow ==
  \A r \in Runs : Known(r) =>
    runStatus'[r] # "absent" /\ runOf'[r] = runOf[r] /\ workflows'[runOf[r]] = workflows[runOf[r]]

LEMMA PairIsJob == \A r \in Runs, i \in Steps : <<r, i>> \in JobIds
  BY DEF JobIds

LEMMA JobIsPair == \A j \in JobIds : j[1] \in Runs /\ j[2] \in Steps /\ j = <<j[1], j[2]>>
  BY SMT DEF JobIds

LEMMA StepNumbers == Steps \subseteq Nat /\ \A n \in Nat : n < MaxSteps => n \in Steps
  BY SMT DEF Steps, MaxSteps

\* A step of the life of job j.
JobStep(j) ==
  \/ Jobs!Submit(j) \/ Jobs!Cancel(j) \/ Jobs!Fail(j) \/ Jobs!Work(j) \/ Jobs!Announce(j)
  \/ \E s \in Jobs!ByCaller : Jobs!Deliver(j, s)

LEMMA JobStepInv ==
  ASSUME JobsInv, NEW j \in JobIds, JobStep(j)
  PROVE  /\ JobsInv' /\ JobsGrow
         /\ \A i \in JobIds : status'[i] # "absent" => status[i] # "absent" \/ (i = j /\ Jobs!Submit(j))
<1>1. CASE Jobs!Submit(j)
  BY <1>1 DEF Jobs!Submit, Jobs!Changes, JobsInv, JobsGrow, JobStatuses, JobPhases
<1>2. CASE Jobs!Cancel(j) \/ Jobs!Fail(j)
  BY <1>2 DEF Jobs!Cancel, Jobs!Fail, Jobs!Changes, JobsInv, JobsGrow, JobStatuses, JobPhases
<1>3. CASE Jobs!Drop(j) \/ Jobs!Start(j) \/ Jobs!Apply(j)
  BY <1>3 DEF Jobs!Drop, Jobs!Start, Jobs!Apply, Jobs!Changes, JobsInv, JobsGrow, JobStatuses, JobPhases
<1>4. CASE Jobs!Finish(j)
  <2>1. PICK s \in {"canceled", "succeeded", "failed"}, p \in {"announcing", "over"} :
          status' = [status EXCEPT ![j] = s] /\ phase' = [phase EXCEPT ![j] = p]
    BY <1>4 DEF Jobs!Finish, Jobs!Changes
  <2>2. status[j] # "succeeded" /\ (status'[j] # "absent")
    BY <1>4, <2>1 DEF Jobs!Finish, JobsInv
  <2>3. status[j] # "absent"
    BY <1>4 DEF Jobs!Finish, JobsInv
  <2> QED
    BY <2>1, <2>2, <2>3 DEF JobsInv, JobsGrow, JobStatuses, JobPhases
<1>5. CASE Jobs!Announce(j)
  BY <1>5 DEF Jobs!Announce, Jobs!Changes, JobsInv, JobsGrow, JobStatuses, JobPhases
<1>6. CASE \E s \in Jobs!ByCaller : Jobs!Deliver(j, s)
  BY <1>6 DEF Jobs!Deliver, JobsInv, JobsGrow
<1> QED
  BY <1>1, <1>2, <1>3, <1>4, <1>5, <1>6 DEF JobStep, Jobs!Work

\* What holds of a run, an activity and a registered job goes on holding.
LEMMA ActKept ==
  ASSUME WorkflowInv, JobsGrow, RunsGrow, NEW a \in acts
  PROVE  ActInv(a)'
<1>1. a.run \in Runs /\ a.step \in Steps /\ a.step \in Nat
  BY StepNumbers DEF WorkflowInv, RunsType
<1>2. ActInv(a)
  BY DEF WorkflowInv
<1>3. Known(a.run)' /\ Length(a.run)' = Length(a.run)
  BY <1>1, <1>2 DEF RunsGrow, ActInv, Known, Length
<1>4. ASSUME NEW i, DoneBefore(a.run, i) PROVE DoneBefore(a.run, i)'
  BY <1>1, <1>4, PairIsJob DEF DoneBefore, JobsGrow
<1>5. status[<<a.run, a.step>>] # "absent" => status'[<<a.run, a.step>>] # "absent"
  BY <1>1, PairIsJob DEF JobsGrow
<1> QED
  BY <1>2, <1>3, <1>4, <1>5 DEF ActInv

LEMMA RefKept ==
  ASSUME WorkflowInv, JobsGrow, RunsGrow, NEW j \in jobRefs
  PROVE  RefInv(j)'
<1>1. j \in JobIds /\ j[1] \in Runs /\ RefInv(j)
  BY JobIsPair DEF WorkflowInv, RunsType
<1> QED
  BY <1>1 DEF RefInv, JobsGrow, RunsGrow, Known, Length

\* A step that submits no job and ends no run keeps the run's account.
LEMMA OrderKept ==
  ASSUME WorkflowInv, JobsGrow, \A j \in JobIds : status'[j] # "absent" => status[j] # "absent"
  PROVE  OrderInv'
  BY PairIsJob DEF WorkflowInv, OrderInv, DoneBefore, JobsGrow

LEMMA SuccessKept ==
  ASSUME WorkflowInv, StepsBounded, JobsGrow, RunsGrow, NEW r \in Runs, runStatus[r] = "succeeded"
  PROVE  \A i \in StepsOf(r)' : status'[<<r, i>>] = "succeeded"
<1>1. Known(r) /\ \A i \in StepsOf(r) : status[<<r, i>>] = "succeeded"
  BY DEF WorkflowInv, SuccessMeansAllSteps, Known
<1>2. StepsOf(r)' = StepsOf(r)
  BY <1>1 DEF RunsGrow, StepsOf
<1>3. StepsOf(r) \subseteq Steps
  <2>1. workflows[runOf[r]] \in Seq(Templates) /\ Len(workflows[runOf[r]]) <= MaxSteps
    BY <1>1 DEF WorkflowInv, RunsInv, StepsBounded
  <2>2. Len(workflows[runOf[r]]) \in Nat
    BY <2>1, SMT
  <2> QED
    BY <2>1, <2>2, SMT DEF StepsOf, Steps, MaxSteps
<1> QED
  BY <1>1, <1>2, <1>3, PairIsJob DEF JobsGrow

\* The invariant from what a step changes: the new activities, registered
\* jobs, launched runs and successes.
LEMMA Assemble ==
  ASSUME WorkflowInv, StepsBounded, JobsInv', RunsType', JobsGrow, RunsGrow, OrderInv',
         \A a \in acts' : a \in acts \/ ActInv(a)',
         \A j \in jobRefs' : j \in jobRefs \/ RefInv(j)',
         \A r \in Runs : Known(r)' => \/ Known(r)
                                      \/ /\ runOf'[r] \in Workflows
                                         /\ workflows'[runOf'[r]] \in StepInputs \ {<<>>},
         \A r \in Runs : runStatus'[r] = "succeeded" =>
           runStatus[r] = "succeeded" \/ \A i \in StepsOf(r)' : status'[<<r, i>>] = "succeeded"
  PROVE  WorkflowInv'
<1>1. \A a \in acts' : ActInv(a)'
  BY ActKept
<1>2. \A j \in jobRefs' : RefInv(j)'
  BY RefKept
<1>3. RunsInv'
  BY DEF RunsInv, RunsGrow, WorkflowInv, Known
<1>4. SuccessMeansAllSteps'
  BY SuccessKept DEF SuccessMeansAllSteps
<1> QED
  BY <1>1, <1>2, <1>3, <1>4 DEF WorkflowInv

\* A step of the jobs that leaves the runs alone, or of the runs that leaves
\* the jobs alone.
LEMMA JobsQuiet ==
  ASSUME WorkflowInv, UNCHANGED jobVars
  PROVE  JobsInv' /\ JobsGrow /\ OrderInv'
  BY DEF jobVars, WorkflowInv, JobsInv, JobsGrow, OrderInv, DoneBefore

LEMMA RunsQuiet ==
  ASSUME UNCHANGED <<workflows, runStatus, runOf>>
  PROVE  /\ RunsGrow
         /\ \A r \in Runs : (Known(r)' => Known(r)) /\ (runStatus'[r] = "succeeded" => runStatus[r] = "succeeded")
  BY DEF RunsGrow, Known

LEMMA ReturnsStep ==
  ASSUME WorkflowInv, NEW a \in acts, Returns(a)
  PROVE  JobsInv' /\ JobsGrow /\ OrderInv' /\ acts' = acts \ {a}
<1>1. CASE a.from = Caller
  BY <1>1, JobsQuiet DEF Returns
<1>2. CASE a.from # Caller
  <2>1. a.from \in JobIds /\ Jobs!Announce(a.from)
    BY <1>2 DEF Returns, WorkflowInv, RunsType
  <2>2. PICK j \in JobIds : j = a.from
    BY <2>1
  <2>3. JobStep(j) /\ ~Jobs!Submit(j)
    BY <2>1, <2>2 DEF JobStep, Jobs!Announce, Jobs!Submit, WorkflowInv, JobsInv
  <2>4. JobsInv' /\ JobsGrow /\ \A i \in JobIds : status'[i] # "absent" => status[i] # "absent"
    BY <2>3, JobStepInv DEF WorkflowInv
  <2> QED
    BY <2>4, OrderKept DEF Returns
<1> QED
  BY <1>1, <1>2

-----------------------------------------------------------------------------
(* The API *)

LEMMA OperatorInv ==
  ASSUME WorkflowInv, StepsBounded, Operator
  PROVE  WorkflowInv'
<1>1. ASSUME NEW w \in Workflows, NEW s \in StepInputs, Create(w, s) PROVE WorkflowInv'
  <2>1. /\ UNCHANGED <<jobVars, runStatus, runOf, jobRefs, acts>>
        /\ workflows[w] = <<>> /\ workflows' = [workflows EXCEPT ![w] = s]
    BY <1>1 DEF Create, runVars
  <2>2. RunsType'
    BY <2>1 DEF WorkflowInv, RunsType
  <2>3. RunsGrow /\ \A r \in Runs : Known(r)' => Known(r)
    BY <2>1 DEF WorkflowInv, RunsType, RunsInv, RunsGrow, Known
  <2> QED
    BY <2>1, <2>2, <2>3, JobsQuiet, Assemble
<1>2. ASSUME NEW r \in Runs, NEW w \in Workflows, Launch(r, w) PROVE WorkflowInv'
  <2> DEFINE new == [run |-> r, step |-> 0, at |-> "read", from |-> Caller]
  <2>1. /\ UNCHANGED <<jobVars, workflows, jobRefs>>
        /\ workflows[w] # <<>> /\ runStatus[r] = "absent"
        /\ runStatus' = [runStatus EXCEPT ![r] = "pending"]
        /\ runOf' = [runOf EXCEPT ![r] = w]
        /\ acts' = acts \cup {new}
    BY <1>2 DEF Launch
  <2>2. RunsType'
    <3>1. new \in [run : Runs, step : Steps, at : {"read", "enqueue", "register", "succeed", "fail"},
                   from : JobIds \cup {Caller}]
      BY SMT DEF Steps, MaxSteps
    <3> QED
      BY <2>1, <3>1 DEF WorkflowInv, RunsType
  <2>3. /\ runStatus'[r] = "pending" /\ runOf'[r] = w
        /\ \A q \in Runs : q # r => runStatus'[q] = runStatus[q] /\ runOf'[q] = runOf[q]
    BY <2>1 DEF WorkflowInv, RunsType
  <2>4. RunsGrow
    BY <2>1, <2>3 DEF RunsGrow, Known
  <2>5. workflows[w] \in StepInputs \ {<<>>}
    BY <2>1 DEF WorkflowInv, RunsType
  <2>6. ActInv(new)'
    <3>1. Len(workflows[w]) > 0
      <4>1. workflows[w] \in Seq(Templates) /\ workflows[w] # <<>>
        BY <2>5 DEF StepsBounded
      <4> QED
        BY <4>1, SMT
    <3>2. Known(new.run)' /\ new.step < Length(new.run)' /\ new.at = "read" /\ new.step = 0
      BY <2>1, <2>3, <3>1 DEF Known, Length
    <3>3. DoneBefore(new.run, new.step)'
      BY StepNumbers, SMT DEF DoneBefore
    <3> QED
      BY <3>2, <3>3 DEF ActInv
  <2>7. \A q \in Runs : Known(q)' => \/ Known(q)
                                     \/ /\ runOf'[q] \in Workflows
                                        /\ workflows'[runOf'[q]] \in StepInputs \ {<<>>}
    BY <2>1, <2>3, <2>5 DEF Known
  <2>8. \A q \in Runs : runStatus'[q] = "succeeded" => runStatus[q] = "succeeded"
    BY <2>3
  <2>9. \A a \in acts' : a \in acts \/ ActInv(a)'
    BY <2>1, <2>6
  <2> QED
    BY <2>1, <2>2, <2>4, <2>7, <2>8, <2>9, JobsQuiet, Assemble
<1>3. ASSUME NEW t, DeleteTemplate(t) PROVE WorkflowInv'
  <2>1. UNCHANGED <<jobVars, workflows, runStatus, runOf, jobRefs, acts>>
    BY <1>3 DEF DeleteTemplate, runVars
  <2>2. RunsType'
    BY <2>1 DEF WorkflowInv, RunsType
  <2> QED
    BY <2>1, <2>2, JobsQuiet, RunsQuiet, Assemble
<1>4. ASSUME NEW j \in JobIds, CancelJob(j) \/ FailJob(j) PROVE WorkflowInv'
  <2>1. /\ UNCHANGED <<workflows, runStatus, runOf, jobRefs, acts>>
        /\ JobStep(j) /\ ~Jobs!Submit(j)
    BY <1>4 DEF CancelJob, FailJob, runVars, JobStep, Jobs!Cancel, Jobs!Fail, Jobs!Submit
  <2>2. JobsInv' /\ JobsGrow /\ \A i \in JobIds : status'[i] # "absent" => status[i] # "absent"
    BY <2>1, JobStepInv DEF WorkflowInv
  <2>3. RunsType'
    BY <2>1 DEF WorkflowInv, RunsType
  <2> QED
    BY <2>1, <2>2, <2>3, OrderKept, RunsQuiet, Assemble
<1> QED
  BY <1>1, <1>2, <1>3, <1>4 DEF Operator

-----------------------------------------------------------------------------
(* The activities *)

LEMMA ActType ==
  ASSUME WorkflowInv, NEW a \in acts
  PROVE  a.run \in Runs /\ a.step \in Steps /\ a.step \in Nat /\ <<a.run, a.step>> \in JobIds
  BY StepNumbers, PairIsJob DEF WorkflowInv, RunsType

\* The activity in its next section.
LEMMA BecomesType ==
  ASSUME WorkflowInv, NEW a \in acts,
         NEW at \in {"read", "enqueue", "register", "succeed", "fail"}, Becomes(a, at)
  PROVE  \E b \in [run : Runs, step : Steps, at : {"read", "enqueue", "register", "succeed", "fail"},
                   from : JobIds \cup {Caller}] :
           /\ b.run = a.run /\ b.step = a.step /\ b.at = at /\ b.from = a.from
           /\ acts' = (acts \ {a}) \cup {b}
  BY DEF Becomes, WorkflowInv, RunsType

LEMMA ReadRunInv ==
  ASSUME WorkflowInv, StepsBounded, NEW a \in acts, ReadRun(a)
  PROVE  WorkflowInv'
<1>1. UNCHANGED <<workflows, runStatus, runOf, jobRefs>> /\ a.at = "read" /\ ActInv(a)
  BY DEF ReadRun, runVars, WorkflowInv
<1>2. CASE Returns(a)
  <2>1. JobsInv' /\ JobsGrow /\ OrderInv' /\ acts' = acts \ {a}
    BY <1>2, ReturnsStep
  <2>2. RunsType'
    BY <1>1, <2>1 DEF WorkflowInv, RunsType
  <2> QED
    BY <1>1, <2>1, <2>2, RunsQuiet, Assemble
<1>3. CASE Becomes(a, "enqueue") /\ UNCHANGED jobVars
  <2>1. PICK b \in [run : Runs, step : Steps, at : {"read", "enqueue", "register", "succeed", "fail"},
                    from : JobIds \cup {Caller}] :
          /\ b.run = a.run /\ b.step = a.step /\ b.at = "enqueue"
          /\ acts' = (acts \ {a}) \cup {b}
    BY <1>3, BecomesType
  <2>2. ActInv(b)'
    BY <1>1, <1>3, <2>1 DEF ActInv, Known, Length, DoneBefore, jobVars
  <2>3. RunsType'
    BY <1>1, <2>1 DEF WorkflowInv, RunsType
  <2> QED
    BY <1>1, <1>3, <2>1, <2>2, <2>3, JobsQuiet, RunsQuiet, Assemble
<1> QED
  BY <1>2, <1>3 DEF ReadRun

LEMMA EnqueueStepInv ==
  ASSUME WorkflowInv, StepsBounded, NEW a \in acts, EnqueueStep(a)
  PROVE  WorkflowInv'
<1>1. /\ UNCHANGED <<workflows, runStatus, runOf, jobRefs>> /\ a.at = "enqueue" /\ ActInv(a)
      /\ a.run \in Runs /\ a.step \in Steps /\ <<a.run, a.step>> \in JobIds
  BY ActType DEF EnqueueStep, runVars, WorkflowInv
<1>2. PICK job \in JobIds : job = <<a.run, a.step>>
  BY <1>1
<1>3. CASE Becomes(a, "fail") /\ UNCHANGED jobVars
  <2>1. PICK b \in [run : Runs, step : Steps, at : {"read", "enqueue", "register", "succeed", "fail"},
                    from : JobIds \cup {Caller}] :
          /\ b.run = a.run /\ b.step = a.step /\ b.at = "fail"
          /\ acts' = (acts \ {a}) \cup {b}
    BY <1>3, BecomesType
  <2>2. ActInv(b)'
    BY <1>1, <2>1 DEF ActInv, Known, Length
  <2>3. RunsType'
    BY <1>1, <2>1 DEF WorkflowInv, RunsType
  <2> QED
    BY <1>1, <1>3, <2>1, <2>2, <2>3, JobsQuiet, RunsQuiet, Assemble
<1>4. CASE /\ Becomes(a, "register")
           /\ IF status[job] = "absent" THEN Jobs!Submit(job) ELSE UNCHANGED jobVars
  <2>1. PICK b \in [run : Runs, step : Steps, at : {"read", "enqueue", "register", "succeed", "fail"},
                    from : JobIds \cup {Caller}] :
          /\ b.run = a.run /\ b.step = a.step /\ b.at = "register"
          /\ acts' = (acts \ {a}) \cup {b}
    BY <1>4, BecomesType
  <2>2. RunsType'
    BY <1>1, <2>1 DEF WorkflowInv, RunsType
  <2>3. /\ JobsInv' /\ JobsGrow /\ status'[job] # "absent"
        /\ \A i \in JobIds : status'[i] # "absent" => status[i] # "absent" \/ i = job
    <3>1. CASE status[job] = "absent"
      <4>1. JobStep(job) /\ Jobs!Submit(job)
        BY <1>4, <3>1 DEF JobStep
      <4>2. status'[job] = "pending"
        BY <4>1 DEF Jobs!Submit, Jobs!Changes, WorkflowInv, JobsInv
      <4> QED
        BY <4>1, <4>2, JobStepInv DEF WorkflowInv
    <3>2. CASE status[job] # "absent"
      <4>1. UNCHANGED jobVars
        BY <1>4, <3>2
      <4> QED
        BY <3>2, <4>1, JobsQuiet DEF jobVars
    <3> QED
      BY <3>1, <3>2
  <2>4. DoneBefore(a.run, a.step) /\ DoneBefore(a.run, a.step)'
    BY <1>1, <2>3, PairIsJob DEF ActInv, DoneBefore, JobsGrow
  <2>5. OrderInv'
    <3> SUFFICES ASSUME NEW r \in Runs, NEW i \in Steps, status'[<<r, i>>] # "absent"
                 PROVE  DoneBefore(r, i)'
      BY DEF OrderInv
    <3>1. CASE <<r, i>> = job
      <4>1. r = a.run /\ i = a.step
        BY <1>2, <3>1, SMT
      <4> QED
        BY <2>4, <4>1 DEF DoneBefore
    <3>2. CASE <<r, i>> # job
      <4>1. DoneBefore(r, i)
        BY <2>3, <3>2, PairIsJob DEF WorkflowInv, OrderInv
      <4> QED
        BY <2>3, <4>1, PairIsJob DEF DoneBefore, JobsGrow
    <3> QED
      BY <3>1, <3>2
  <2>6. ActInv(b)'
    <3>1. Known(b.run)' /\ b.step < Length(b.run)'
      BY <1>1, <2>1 DEF ActInv, Known, Length
    <3>2. DoneBefore(b.run, b.step)'
      BY <2>1, <2>4 DEF DoneBefore
    <3>3. status'[<<b.run, b.step>>] # "absent"
      BY <1>2, <2>1, <2>3
    <3> QED
      BY <2>1, <3>1, <3>2, <3>3 DEF ActInv
  <2> QED
    BY <1>1, <2>1, <2>2, <2>3, <2>5, <2>6, RunsQuiet, Assemble
<1> QED
  BY <1>2, <1>3, <1>4 DEF EnqueueStep

\* An activity that returns may have registered its job or ended its run.
LEMMA EndInv ==
  ASSUME WorkflowInv, StepsBounded, NEW a \in acts, Register(a) \/ Succeed(a) \/ FailRun(a)
  PROVE  WorkflowInv'
<1>1. /\ JobsInv' /\ JobsGrow /\ OrderInv' /\ acts' = acts \ {a}
      /\ UNCHANGED <<workflows, runOf>> /\ ActInv(a)
      /\ a.run \in Runs /\ a.step \in Nat /\ <<a.run, a.step>> \in JobIds
  BY ReturnsStep, ActType DEF Register, Succeed, FailRun, runVars, WorkflowInv
<1>2. PICK s \in {"running", "succeeded", "failed"} :
        /\ runStatus' = runStatus \/ runStatus' = [runStatus EXCEPT ![a.run] = s]
        /\ s = "succeeded" => a.at = "succeed"
  BY DEF Register, Succeed, FailRun, runVars
<1>3. \/ jobRefs' = jobRefs
      \/ a.at = "register" /\ jobRefs' = jobRefs \cup {<<a.run, a.step>>}
  BY DEF Register, Succeed, FailRun, runVars
<1>4. RunsType'
  BY <1>1, <1>2, <1>3 DEF WorkflowInv, RunsType
<1>5. /\ \A r \in Runs : r # a.run => runStatus'[r] = runStatus[r]
      /\ runStatus'[a.run] \in {runStatus[a.run], s}
      /\ Known(a.run)
  BY <1>1, <1>2 DEF WorkflowInv, RunsType, ActInv
<1>6. RunsGrow /\ \A r \in Runs : Known(r)' => Known(r)
  BY <1>1, <1>5 DEF RunsGrow, Known
<1>7. \A j \in jobRefs' : j \in jobRefs \/ RefInv(j)'
  <2> SUFFICES ASSUME a.at = "register" PROVE RefInv(<<a.run, a.step>>)'
    BY <1>3
  <2>1. status'[<<a.run, a.step>>] # "absent"
    BY <1>1 DEF ActInv, JobsGrow
  <2>2. runStatus'[a.run] # "absent" /\ a.step < Len(workflows'[runOf'[a.run]])
    BY <1>1, <1>5, <1>6 DEF ActInv, RunsGrow, Length, Known
  <2> QED
    BY <2>1, <2>2 DEF RefInv, Known, Length
<1>8. ASSUME NEW r \in Runs, runStatus'[r] = "succeeded", runStatus[r] # "succeeded"
      PROVE  \A i \in StepsOf(r)' : status'[<<r, i>>] = "succeeded"
  <2>1. r = a.run /\ a.at = "succeed"
    BY <1>2, <1>5, <1>8
  <2>2. Length(a.run) <= a.step + 1 /\ DoneBefore(a.run, a.step + 1)
    BY <1>1, <2>1 DEF ActInv
  <2>3. workflows[runOf[r]] \in Seq(Templates) /\ Len(workflows[runOf[r]]) <= MaxSteps
    BY <1>5, <2>1 DEF WorkflowInv, RunsInv, StepsBounded
  <2>4. \A i \in StepsOf(r)' : i \in Steps /\ i < a.step + 1
    <3>1. Len(workflows[runOf[r]]) \in Nat /\ Len(workflows[runOf[r]]) <= a.step + 1
      BY <2>1, <2>2, <2>3, SMT DEF Length
    <3>2. StepsOf(r)' = 0 .. Len(workflows[runOf[r]]) - 1
      BY <1>1 DEF StepsOf
    <3> QED
      BY <1>1, <2>3, <3>1, <3>2, SMT DEF Steps, MaxSteps
  <2> QED
    BY <1>1, <2>1, <2>2, <2>4, PairIsJob DEF DoneBefore, JobsGrow
<1>9. \A r \in Runs : runStatus'[r] = "succeeded" =>
        runStatus[r] = "succeeded" \/ \A i \in StepsOf(r)' : status'[<<r, i>>] = "succeeded"
  BY <1>8
<1> QED
  BY <1>1, <1>4, <1>6, <1>7, <1>9, Assemble

-----------------------------------------------------------------------------
(* The queue and its notifications *)

\* onJob goes on with the run only when the job has succeeded.
LEMMA ReactsInv ==
  ASSUME WorkflowInv, StepsBounded, NEW job \in JobIds, NEW s, NEW from \in JobIds \cup {Caller},
         Reacts(job, s, from), s = "succeeded" => status[job] = "succeeded",
         JobsInv', JobsGrow, OrderInv', UNCHANGED <<workflows, runStatus, runOf, jobRefs>>
  PROVE  WorkflowInv'
<1>1. PICK at \in {"read", "succeed", "fail"} : at = Reaction(job[1], job[2], s)
  BY DEF Reaction
<1>2. /\ job[1] \in Runs /\ job[2] \in Steps /\ job[2] \in Nat /\ job = <<job[1], job[2]>>
      /\ job \in jobRefs /\ RefInv(job)
  BY JobIsPair, StepNumbers DEF Reacts, Ignored, WorkflowInv
<1>3. PICK i \in Nat : i = IF at = "read" THEN job[2] + 1 ELSE job[2]
  BY <1>2, SMT
<1> DEFINE b == [run |-> job[1], step |-> i, at |-> at, from |-> from]
<1>4. acts' = acts \cup {b}
  BY <1>1, <1>3 DEF Reacts
<1>5. /\ workflows[runOf[job[1]]] \in Seq(Templates) /\ Len(workflows[runOf[job[1]]]) \in Nat
      /\ Len(workflows[runOf[job[1]]]) <= MaxSteps
  BY <1>2, SMT DEF RefInv, WorkflowInv, RunsInv, StepsBounded
<1>6. /\ i < Length(job[1])
      /\ at # "fail" => s = "succeeded"
      /\ at = "succeed" => Length(job[1]) <= i + 1
  BY <1>1, <1>2, <1>3, <1>5, SMT DEF Reaction, RefInv, Length
<1>7. i \in Steps
  BY <1>3, <1>5, <1>6, SMT DEF Length, Steps, MaxSteps
<1>8. RunsType'
  BY <1>2, <1>4, <1>7, SMT DEF WorkflowInv, RunsType
<1>9. at # "fail" => DoneBefore(job[1], job[2] + 1)'
  <2> SUFFICES ASSUME at # "fail", NEW k \in Steps, k < job[2] + 1
               PROVE  status'[<<job[1], k>>] = "succeeded"
    BY DEF DoneBefore
  <2>1. status[job] = "succeeded"
    BY <1>6
  <2>2. CASE k = job[2]
    BY <1>2, <2>1, <2>2 DEF JobsGrow
  <2>3. CASE k # job[2]
    <3>1. k < job[2]
      BY <1>2, <2>3, StepNumbers, SMT
    <3>2. DoneBefore(job[1], job[2])
      BY <1>2, <2>1 DEF WorkflowInv, OrderInv
    <3> QED
      BY <1>2, <3>1, <3>2, PairIsJob DEF DoneBefore, JobsGrow
  <2> QED
    BY <2>2, <2>3
<1>10. ActInv(b)'
  <2>1. Known(b.run)' /\ b.step < Length(b.run)'
    BY <1>2, <1>6 DEF RefInv, Known, Length
  <2>2. b.at = "read" => DoneBefore(b.run, b.step)'
    BY <1>3, <1>9 DEF DoneBefore
  <2>3. b.at = "succeed" => Length(b.run)' <= b.step + 1 /\ DoneBefore(b.run, b.step + 1)'
    BY <1>3, <1>6, <1>9 DEF DoneBefore, Length
  <2> QED
    BY <2>1, <2>2, <2>3 DEF ActInv
<1> HIDE DEF b
<1>11. \A a \in acts' : a \in acts \/ ActInv(a)'
  BY <1>4, <1>10
<1> QED
  BY <1>8, <1>11, RunsQuiet, Assemble

LEMMA QueueInv ==
  ASSUME WorkflowInv, StepsBounded, Queue
  PROVE  WorkflowInv'
<1>1. ASSUME NEW j \in JobIds, JobStep(j), ~Jobs!Submit(j)
      PROVE  JobsInv' /\ JobsGrow /\ OrderInv'
  <2>1. JobsInv' /\ JobsGrow /\ \A i \in JobIds : status'[i] # "absent" => status[i] # "absent"
    BY <1>1, JobStepInv DEF WorkflowInv
  <2> QED
    BY <2>1, OrderKept
<1>2. ASSUME NEW j \in JobIds, JobStep(j), ~Jobs!Submit(j),
             UNCHANGED <<workflows, runStatus, runOf, jobRefs, acts>>
      PROVE  WorkflowInv'
  <2>1. RunsType'
    BY <1>2 DEF WorkflowInv, RunsType
  <2> QED
    BY <1>1, <1>2, <2>1, RunsQuiet, Assemble
<1>3. ASSUME NEW j \in JobIds, Work(j) PROVE WorkflowInv'
  <2>1. JobStep(j) /\ UNCHANGED <<workflows, runStatus, runOf, jobRefs, acts>>
    BY <1>3 DEF Work, JobStep, runVars
  <2>2. phase[j] # "none"
    BY <1>3 DEF Work, Jobs!Work, Jobs!Drop, Jobs!Start, Jobs!Apply, Jobs!Finish
  <2>3. ~Jobs!Submit(j)
    BY <2>2 DEF Jobs!Submit, WorkflowInv, JobsInv
  <2> QED
    BY <1>2, <2>1, <2>3
<1>4. ASSUME NEW j \in JobIds, NEW s \in Jobs!ByCaller, OnJob(j, s) PROVE WorkflowInv'
  <2>1. /\ JobStep(j) /\ s # "succeeded"
        /\ UNCHANGED <<workflows, runStatus, runOf, jobRefs>>
    BY <1>4 DEF OnJob, JobStep, runVars, Jobs!ByCaller
  <2>2. ~Jobs!Submit(j)
    BY <1>4 DEF OnJob, Jobs!Deliver, Jobs!Submit, Jobs!Changes, WorkflowInv, JobsInv
  <2>3. CASE UNCHANGED acts
    BY <1>2, <2>1, <2>2, <2>3
  <2>4. CASE Reacts(j, s, Caller)
    BY <1>1, <2>1, <2>2, <2>4, ReactsInv
  <2> QED
    BY <1>4, <2>3, <2>4 DEF OnJob
<1>5. ASSUME NEW j \in JobIds, OnWorkerJob(j) PROVE WorkflowInv'
  <2>1. UNCHANGED <<workflows, runStatus, runOf, jobRefs>> /\ phase[j] = "announcing"
    BY <1>5 DEF OnWorkerJob, runVars
  <2>2. CASE Jobs!Announce(j) /\ UNCHANGED acts
    <3>1. JobStep(j) /\ ~Jobs!Submit(j)
      BY <2>1, <2>2 DEF JobStep, Jobs!Submit, WorkflowInv, JobsInv
    <3> QED
      BY <1>2, <2>1, <2>2, <3>1
  <2>3. CASE Reacts(j, status[j], j) /\ UNCHANGED jobVars
    BY <2>1, <2>3, JobsQuiet, ReactsInv
  <2> QED
    BY <1>5, <2>2, <2>3 DEF OnWorkerJob
<1> QED
  BY <1>3, <1>4, <1>5 DEF Queue

-----------------------------------------------------------------------------
(* The theorems *)

LEMMA InvInit == StepsBounded /\ Init => WorkflowInv
<1> SUFFICES ASSUME Init PROVE WorkflowInv
  OBVIOUS
<1>1. JobsInv /\ \A j \in JobIds : status[j] = "absent"
  BY DEF Init, Jobs!Init, JobsInv, JobStatuses, JobPhases
<1>2. RunsType /\ RunsInv /\ acts = {} /\ jobRefs = {}
  BY DEF Init, RunsType, RunsInv, Known
<1>3. OrderInv /\ SuccessMeansAllSteps
  BY <1>1, PairIsJob DEF Init, OrderInv, SuccessMeansAllSteps
<1> QED
  BY <1>1, <1>2, <1>3 DEF WorkflowInv

LEMMA InvStep == StepsBounded /\ WorkflowInv /\ [Next]_vars => WorkflowInv'
<1> SUFFICES ASSUME StepsBounded, WorkflowInv, [Next]_vars PROVE WorkflowInv'
  OBVIOUS
<1>1. CASE Activity
  BY <1>1, ReadRunInv, EnqueueStepInv, EndInv DEF Activity, Proceed
<1>2. CASE UNCHANGED vars
  <2>1. UNCHANGED <<jobVars, workflows, runStatus, runOf, jobRefs, acts>>
    BY <1>2 DEF vars, runVars
  <2>2. RunsType'
    BY <2>1 DEF WorkflowInv, RunsType
  <2> QED
    BY <2>1, <2>2, JobsQuiet, RunsQuiet, Assemble
<1> QED
  BY <1>1, <1>2, OperatorInv, QueueInv DEF Next, Idle

LEMMA Invariance == StepsBounded /\ Spec => []WorkflowInv
<1> SUFFICES ASSUME StepsBounded PROVE Spec => []WorkflowInv
  OBVIOUS
<1>1. Init => WorkflowInv
  BY InvInit
<1>2. WorkflowInv /\ [Next]_vars => WorkflowInv'
  BY InvStep
<1> QED
  BY <1>1, <1>2, PTL DEF Spec

\* A workflow run is reported as succeeded only when the job of every one of
\* its steps has succeeded, whatever cancels, operator failures and late
\* notifications the goroutines of dispatchStep and onJob meet.
THEOREM SuccessIsComplete == StepsBounded /\ Spec => []SuccessMeansAllSteps
  BY Invariance, PTL DEF WorkflowInv

\* The job of a step is submitted only after the step before has succeeded,
\* although dispatchStep lets its lock go around Enqueue.
THEOREM StepsTakenInOrder == StepsBounded /\ Spec => []StepsInOrder
<1>1. WorkflowInv => StepsInOrder
  <2> SUFFICES ASSUME WorkflowInv, NEW r \in Runs, NEW i \in Steps, i > 0, status[<<r, i>>] # "absent"
               PROVE  status[<<r, i - 1>>] = "succeeded"
    BY DEF StepsInOrder
  <2>1. i - 1 \in Steps /\ i - 1 < i
    BY SMT DEF Steps, MaxSteps
  <2> QED
    BY <2>1 DEF WorkflowInv, OrderInv, DoneBefore
<1> QED
  BY <1>1, Invariance, PTL

-----------------------------------------------------------------------------
(* Failed runs *)

\* No operator fails a job.
Unforced == "fail" \notin Ops

Alive(r, i) == status[<<r, i>>] \in {"pending", "running"}
AbsentFrom(r, n) == \A i \in Steps : i >= n => status[<<r, i>>] = "absent"
Dispatches(a) == a.at \in {"read", "enqueue", "register"}

\* The worker that announces the success of a step dispatches the next one.
StepOrigin(a) == a.step > 0 => a.from = <<a.run, a.step - 1>>

\* Only cancels are notified by callers, and a job that has ended stays so.
QuietJobs ==
  /\ notices \in [JobIds -> [{"failed", "canceled"} -> Nat]]
  /\ \A j \in JobIds :
       /\ notices[j]["failed"] = 0 /\ (notices[j]["canceled"] > 0 => status[j] = "canceled")
       /\ status[j] = "failed" => phase[j] \in {"announcing", "over"}
       /\ phase[j] = "announcing" => status[j] \in {"succeeded", "failed"}

\* A dispatching activity is the only one of its run, which has not failed and
\* has no job yet for the step and those after it.
DispatchInv(a) ==
  Dispatches(a) =>
    /\ \A b \in acts : b.run = a.run => b = a
    /\ AbsentFrom(a.run, IF a.at = "register" THEN a.step + 1 ELSE a.step)
    /\ \A i \in Steps : i >= a.step => <<a.run, i>> \notin jobRefs
    /\ runStatus[a.run] # "failed" /\ StepOrigin(a)

\* A run about to fail has no live job: the step was refused or its job ended.
FailInv(a) ==
  a.at = "fail" =>
    /\ \A i \in Steps : ~Alive(a.run, i)
    /\ \/ DoneBefore(a.run, a.step) /\ AbsentFrom(a.run, a.step) /\ StepOrigin(a)
       \/ status[<<a.run, a.step>>] \in {"failed", "canceled"}

\* The worker announces a job in one activity at a time.
FromInv ==
  \A a \in acts : a.from # Caller =>
    phase[a.from] = "announcing" /\ \A b \in acts : b.from = a.from => b = a

\* A job whose successor was submitted is announced, or being announced.
Handed ==
  \A r \in Runs, i \in Steps :
    i + 1 \in Steps /\ status[<<r, i + 1>>] # "absent" =>
      phase[<<r, i>>] = "over" \/ \E a \in acts : a.from = <<r, i>>

Unlaunched == \A r \in Runs : ~Known(r) => AbsentFrom(r, 0)

QuietInv ==
  /\ WorkflowInv /\ QuietJobs /\ FromInv /\ Handed /\ Unlaunched /\ FailureStopsRun
  /\ \A a \in acts : DispatchInv(a) /\ FailInv(a)

\* What a step keeps of the jobs, and of those of one run.
JobsCalm ==
  \A j \in JobIds : /\ phase[j] = "over" => phase'[j] = "over"
                    /\ status[j] \in {"failed", "canceled"} => status'[j] = status[j]
Calm(r) ==
  \A i \in Steps : /\ status'[<<r, i>>] # "absent" => status[<<r, i>>] # "absent"
                   /\ Alive(r, i)' => Alive(r, i)

LEMMA QuietJobStep ==
  ASSUME WorkflowInv, QuietJobs, NEW j \in JobIds, JobStep(j), ~Jobs!Fail(j)
  PROVE  /\ QuietJobs' /\ JobsCalm
         /\ \A i \in JobIds : i # j => status'[i] = status[i] /\ phase'[i] = phase[i]
         /\ status'[j] \in {"pending", "running"} => status[j] \in {"pending", "running"} \/ Jobs!Submit(j)
         /\ phase[j] = "announcing" => phase'[j] = "announcing" \/ Jobs!Announce(j)
<1>1. JobsInv
  BY DEF WorkflowInv
<1> USE DEF JobsInv, JobStatuses, JobPhases, QuietJobs, JobsCalm
<1>2. CASE Jobs!Submit(j)
  BY <1>1, <1>2 DEF Jobs!Submit, Jobs!Changes
<1>3. CASE Jobs!Cancel(j)
  <2>1. /\ status' = [status EXCEPT ![j] = "canceled"] /\ phase' = [phase EXCEPT ![j] = phase[j]]
        /\ notices' = [notices EXCEPT ![j]["canceled"] = @ + 1]
        /\ status[j] \in {"pending", "running", "canceled"}
    BY <1>3 DEF Jobs!Cancel, Jobs!Changes, Jobs!Notify
  <2>2. /\ notices' \in [JobIds -> [{"failed", "canceled"} -> Nat]]
        /\ \A i \in JobIds : i # j => notices'[i] = notices[i]
        /\ notices'[j]["failed"] = notices[j]["failed"]
    BY <2>1, SMT
  <2>3. /\ status'[j] = "canceled" /\ phase' = phase
        /\ \A i \in JobIds : i # j => status'[i] = status[i]
    BY <1>1, <2>1
  <2> QED
    BY <1>1, <2>1, <2>2, <2>3
<1>4. CASE Jobs!Drop(j) \/ Jobs!Start(j) \/ Jobs!Apply(j)
  <2>1. UNCHANGED notices
    BY <1>4 DEF Jobs!Drop, Jobs!Start, Jobs!Apply
  <2> QED
    BY <1>1, <1>4, <2>1 DEF Jobs!Drop, Jobs!Start, Jobs!Apply, Jobs!Changes
<1>5. CASE Jobs!Finish(j)
  <2>1. /\ UNCHANGED notices /\ phase[j] = "applying"
        /\ \/ /\ status[j] = "canceled" /\ status' = [status EXCEPT ![j] = "canceled"]
              /\ phase' = [phase EXCEPT ![j] = "over"]
           \/ \E s \in {"succeeded", "failed"} : /\ status' = [status EXCEPT ![j] = s] /\ status[j] # "canceled"
                                                 /\ phase' = [phase EXCEPT ![j] = "announcing"]
    BY <1>5 DEF Jobs!Finish, Jobs!Changes
  <2> QED
    BY <1>1, <2>1
<1>6. CASE Jobs!Announce(j)
  BY <1>1, <1>6 DEF Jobs!Announce, Jobs!Changes
<1>7. CASE \E s \in Jobs!ByCaller : Jobs!Deliver(j, s)
  <2>1. PICK s \in {"failed", "canceled"} :
          /\ notices[j][s] > 0 /\ notices' = [notices EXCEPT ![j][s] = @ - 1]
          /\ status' = status /\ phase' = phase
    BY <1>7 DEF Jobs!ByCaller, Jobs!Deliver
  <2>2. s = "canceled"
    BY <2>1, SMT
  <2>3. /\ notices' \in [JobIds -> [{"failed", "canceled"} -> Nat]]
        /\ \A i \in JobIds : i # j => notices'[i] = notices[i]
        /\ notices'[j]["failed"] = notices[j]["failed"]
        /\ notices[j]["canceled"] > 0
    BY <2>1, <2>2, SMT
  <2> QED
    BY <1>1, <2>1, <2>3
<1> QED
  BY <1>2, <1>3, <1>4, <1>5, <1>6, <1>7 DEF JobStep, Jobs!Work

LEMMA CalmStep ==
  ASSUME WorkflowInv, QuietJobs, NEW j \in JobIds, JobStep(j), ~Jobs!Fail(j), ~Jobs!Submit(j)
  PROVE  QuietJobs' /\ JobsCalm /\ JobsGrow /\ \A r \in Runs : Calm(r)
<1>1. /\ \A i \in JobIds : status'[i] # "absent" => status[i] # "absent"
      /\ JobsGrow
  BY JobStepInv DEF WorkflowInv
<1>2. \A i \in JobIds : status'[i] \in {"pending", "running"} => status[i] \in {"pending", "running"}
  BY QuietJobStep
<1> QED
  BY <1>1, <1>2, QuietJobStep, PairIsJob DEF Calm, Alive

LEMMA CalmStill ==
  ASSUME WorkflowInv, QuietJobs, UNCHANGED jobVars
  PROVE  QuietJobs' /\ JobsCalm /\ JobsGrow /\ (\A r \in Runs : Calm(r)) /\ phase' = phase /\ status' = status
  BY DEF jobVars, QuietJobs, JobsCalm, JobsGrow, Calm, Alive

\* What holds of an activity goes on holding.
LEMMA DispatchKept ==
  ASSUME QuietInv, NEW a \in acts, Dispatches(a), Calm(a.run),
         \A b \in acts' : b.run = a.run => b = a,
         \A i \in Steps : i >= a.step => <<a.run, i>> \notin jobRefs',
         runStatus'[a.run] # "failed"
  PROVE  DispatchInv(a)'
<1>1. DispatchInv(a)
  BY DEF QuietInv
<1> QED
  BY <1>1 DEF DispatchInv, Dispatches, AbsentFrom, StepOrigin, Calm

LEMMA FailKept ==
  ASSUME QuietInv, NEW a \in acts, Calm(a.run), JobsCalm, JobsGrow
  PROVE  FailInv(a)'
<1>1. FailInv(a) /\ a.run \in Runs /\ <<a.run, a.step>> \in JobIds
  BY ActType DEF QuietInv
<1>2. CASE status[<<a.run, a.step>>] \in {"failed", "canceled"}
  BY <1>1, <1>2 DEF FailInv, Calm, JobsCalm
<1>3. CASE DoneBefore(a.run, a.step) /\ AbsentFrom(a.run, a.step) /\ StepOrigin(a)
  <2>1. DoneBefore(a.run, a.step)'
    BY <1>1, <1>3, PairIsJob DEF DoneBefore, JobsGrow
  <2> QED
    BY <1>1, <1>3, <2>1 DEF FailInv, Calm, AbsentFrom, StepOrigin
<1> QED
  BY <1>1, <1>2, <1>3 DEF FailInv

\* A step that ends no activity, starts no job and ends no run.
LEMMA GrowQuiet ==
  ASSUME QuietInv, WorkflowInv', QuietJobs', JobsCalm, JobsGrow, \A r \in Runs : Calm(r),
         UNCHANGED jobRefs, acts \subseteq acts',
         \A r \in Runs : Known(r) => runStatus'[r] = runStatus[r],
         \A r \in Runs : ~Known(r) => runStatus'[r] # "failed",
         \A a \in acts : a.from # Caller => phase'[a.from] = "announcing",
         \A b \in acts' \ acts :
           /\ DispatchInv(b)' /\ FailInv(b)'
           /\ \A a \in acts : Dispatches(a) => a.run # b.run
           /\ b.from # Caller => phase'[b.from] = "announcing" /\ \A c \in acts' : c.from = b.from => c = b
  PROVE  QuietInv'
<1>1. ASSUME NEW a \in acts PROVE DispatchInv(a)' /\ FailInv(a)'
  <2>1. a.run \in Runs /\ Known(a.run) /\ DispatchInv(a)
    BY ActType DEF QuietInv, WorkflowInv, ActInv
  <2>2. CASE Dispatches(a)
    <3>1. \A b \in acts' : b.run = a.run => b = a
      BY <2>1, <2>2 DEF DispatchInv
    <3>2. runStatus'[a.run] # "failed" /\ \A i \in Steps : i >= a.step => <<a.run, i>> \notin jobRefs'
      BY <2>1, <2>2 DEF DispatchInv
    <3> QED
      BY <2>1, <2>2, <3>1, <3>2, DispatchKept, FailKept
  <2>3. CASE ~Dispatches(a)
    <3>1. DispatchInv(a)'
      BY <2>3 DEF DispatchInv, Dispatches
    <3> QED
      BY <2>1, <3>1, FailKept
  <2> QED
    BY <2>2, <2>3
<1>2. FromInv'
  BY DEF QuietInv, FromInv
<1>3. Handed'
  BY PairIsJob DEF QuietInv, Handed, Calm, JobsCalm
<1>4. Unlaunched'
  BY DEF QuietInv, Unlaunched, Calm, AbsentFrom, Known
<1>5. FailureStopsRun'
  <2> SUFFICES ASSUME NEW r \in Runs, runStatus'[r] = "failed", NEW i \in Steps
               PROVE  status'[<<r, i>>] \notin {"pending", "running"}
    BY DEF FailureStopsRun
  <2>1. runStatus[r] = "failed"
    OBVIOUS
  <2> QED
    BY <2>1 DEF QuietInv, FailureStopsRun, Calm, Alive
<1> QED
  BY <1>1, <1>2, <1>3, <1>4, <1>5 DEF QuietInv

LEMMA LaunchQuiet ==
  ASSUME QuietInv, WorkflowInv', NEW r \in Runs, NEW w \in Workflows, Launch(r, w)
  PROVE  QuietInv'
<1> DEFINE new == [run |-> r, step |-> 0, at |-> "read", from |-> Caller]
<1>1. /\ UNCHANGED <<jobVars, jobRefs>> /\ acts' = acts \cup {new}
      /\ ~Known(r) /\ runStatus' = [runStatus EXCEPT ![r] = "pending"]
  BY DEF Launch, Known
<1>2. runStatus'[r] = "pending" /\ \A q \in Runs : q # r => runStatus'[q] = runStatus[q]
  BY <1>1 DEF QuietInv, WorkflowInv, RunsType
<1>3. QuietJobs' /\ JobsCalm /\ JobsGrow /\ (\A q \in Runs : Calm(q)) /\ phase' = phase /\ status' = status
  BY <1>1, CalmStill DEF QuietInv
<1>4. \A a \in acts : a.run # r
  BY <1>1 DEF QuietInv, WorkflowInv, ActInv
<1>5. /\ AbsentFrom(r, 0)' /\ ~(new.step > 0)
      /\ \A i \in Steps : <<r, i>> \notin jobRefs'
  <2>1. ASSUME NEW i \in Steps PROVE <<r, i>> \notin jobRefs
    <3>1. ~RefInv(<<r, i>>)
      BY <1>1 DEF RefInv
    <3> QED
      BY <3>1 DEF QuietInv, WorkflowInv
  <2>2. ~(new.step > 0)
    BY SMT
  <2> QED
    BY <1>1, <1>3, <2>1, <2>2 DEF QuietInv, Unlaunched, AbsentFrom
<1>6. DispatchInv(new)' /\ FailInv(new)'
  BY <1>1, <1>2, <1>4, <1>5 DEF DispatchInv, FailInv, StepOrigin, AbsentFrom
<1>7. /\ \A b \in acts' \ acts : b = new
      /\ \A a \in acts : a.from # Caller => phase'[a.from] = "announcing"
      /\ \A q \in Runs : (Known(q) => runStatus'[q] = runStatus[q]) /\ (~Known(q) => runStatus'[q] # "failed")
  BY <1>1, <1>2, <1>3 DEF QuietInv, FromInv, Known
<1>8. new.run = r /\ new.from = Caller
  OBVIOUS
<1> HIDE DEF new
<1> QED
  BY <1>1, <1>3, <1>4, <1>6, <1>7, <1>8, GrowQuiet

\* onJob takes a notification of an ended job up.
LEMMA ReactsQuiet ==
  ASSUME QuietInv, StepsBounded, WorkflowInv', NEW job \in JobIds, NEW s,
         NEW from \in JobIds \cup {Caller}, Reacts(job, s, from),
         s = "succeeded" => status[job] = "succeeded" /\ from = job /\ phase[job] = "announcing",
         s # "succeeded" => status[job] \in {"failed", "canceled"},
         from # Caller => phase[from] = "announcing" /\ \A a \in acts : a.from # from,
         QuietJobs', JobsCalm, JobsGrow, \A r \in Runs : Calm(r), phase' = phase,
         UNCHANGED <<runStatus, jobRefs>>
  PROVE  QuietInv'
<1>1. PICK r \in Runs, i \in Steps : job = <<r, i>> /\ job[1] = r /\ job[2] = i
  BY JobIsPair
<1>2. PICK at \in {"read", "succeed", "fail"} : at = Reaction(r, i, s)
  BY DEF Reaction
<1>3. PICK n \in Nat : n = IF at = "read" THEN i + 1 ELSE i
  BY StepNumbers, SMT
<1> DEFINE b == [run |-> r, step |-> n, at |-> at, from |-> from]
<1>4. acts' = acts \cup {b} /\ job \in jobRefs /\ runStatus[r] # "failed"
  BY <1>1, <1>2, <1>3 DEF Reacts, Ignored, Over
<1>5. RefInv(job) /\ status[job] # "absent" /\ DoneBefore(r, i)
  BY <1>1, <1>4 DEF QuietInv, WorkflowInv, RefInv, OrderInv
<1>6. Length(r) \in Nat
  <2>1. workflows[runOf[r]] \in Seq(Templates)
    BY <1>1, <1>5 DEF RefInv, QuietInv, WorkflowInv, RunsInv, StepsBounded
  <2> QED
    BY <2>1, SMT DEF Length
<1>7. /\ at # "fail" => s = "succeeded"
      /\ at = "fail" => s # "succeeded"
      /\ at = "succeed" => Length(r) <= i + 1
      /\ at = "read" => i + 1 < Length(r)
  BY <1>2, <1>6, StepNumbers, SMT DEF Reaction, Length
<1>8. \A k \in Steps : k < i \/ k = i \/ i < k
  BY StepNumbers, SMT
\* No activity dispatches another step of the run.
<1>9. ASSUME NEW c \in acts, Dispatches(c), c.run = r PROVE FALSE
  <2>1. /\ ActInv(c) /\ DispatchInv(c) /\ c.step \in Steps /\ c.step \in Nat
    BY ActType DEF QuietInv, WorkflowInv
  <2>2. i < c.step
    <3>1. ~(i >= c.step)
      BY <1>1, <1>4, <1>9, <2>1 DEF DispatchInv
    <3> QED
      BY <2>1, <3>1, StepNumbers, SMT
  <2>3. DoneBefore(r, c.step) /\ c.step < Length(r)
    BY <1>9, <2>1 DEF ActInv, Dispatches
  <2>4. status[job] = "succeeded" /\ s = "succeeded" /\ at # "fail"
    BY <1>1, <1>7, <2>2, <2>3 DEF DoneBefore
  <2>5. CASE at = "succeed"
    BY <1>6, <1>7, <2>1, <2>2, <2>3, <2>5, StepNumbers, SMT
  <2>6. CASE at = "read"
    <3>1. CASE c.step = i + 1
      <4>1. c.step > 0 /\ c.step - 1 = i
        BY <3>1, StepNumbers, SMT
      <4>2. c.from = job
        BY <1>1, <1>9, <2>1, <4>1 DEF DispatchInv, StepOrigin
      <4>3. phase[job] = "announcing" /\ from = job
        BY <2>4
      <4>4. from # Caller
        BY <4>3, SMT DEF Caller, JobIds
      <4> QED
        BY <4>2, <4>3, <4>4
    <3>2. CASE c.step # i + 1
      <4>1. i + 1 \in Steps /\ i + 1 < c.step
        BY <2>1, <2>2, <3>2, SMT DEF Steps, MaxSteps
      <4>2. status[<<r, i + 1>>] = "succeeded"
        BY <2>3, <4>1 DEF DoneBefore
      <4>3. phase[job] = "announcing" /\ from = job
        BY <2>4
      <4>4. from # Caller
        BY <4>3, SMT DEF Caller, JobIds
      <4>5. phase[job] = "over" \/ \E a \in acts : a.from = job
        BY <1>1, <4>1, <4>2 DEF QuietInv, Handed
      <4> QED
        BY <4>3, <4>4, <4>5
    <3> QED
      BY <3>1, <3>2
  <2> QED
    BY <2>4, <2>5, <2>6
<1>10. at = "read" => DispatchInv(b)'
  <2> SUFFICES ASSUME at = "read" PROVE DispatchInv(b)'
    OBVIOUS
  <2>1. /\ status[job] = "succeeded" /\ from = job /\ phase[job] = "announcing" /\ from # Caller
        /\ \A a \in acts : a.from # job
    <3>1. status[job] = "succeeded" /\ from = job /\ phase[job] = "announcing"
      BY <1>7
    <3>2. from # Caller
      BY <3>1, SMT DEF Caller, JobIds
    <3> QED
      BY <3>1, <3>2
  <2>2. ASSUME i + 1 \in Steps PROVE status[<<r, i + 1>>] = "absent"
    BY <1>1, <2>1, <2>2 DEF QuietInv, Handed
  <2>3. ASSUME NEW k \in Steps, i < k PROVE status[<<r, k>>] = "absent"
    <3>1. i + 1 \in Steps /\ (k = i + 1 \/ i + 1 < k)
      BY <2>3, SMT DEF Steps, MaxSteps
    <3>2. status[<<r, k>>] # "absent" => DoneBefore(r, k)
      BY DEF QuietInv, WorkflowInv, OrderInv
    <3> QED
      BY <2>2, <3>1, <3>2 DEF DoneBefore
  <2>4. ASSUME NEW c \in acts, c.run = r PROVE FALSE
    <3>1. /\ ActInv(c) /\ FailInv(c) /\ c.step \in Steps /\ c.step \in Nat
          /\ c.at \in {"read", "enqueue", "register", "succeed", "fail"}
      BY ActType DEF QuietInv, WorkflowInv, RunsType
    <3>2. CASE c.at = "succeed"
      <4>1. Length(r) <= c.step + 1 /\ DoneBefore(r, c.step + 1)
        BY <2>4, <3>1, <3>2 DEF ActInv
      <4>2. i + 1 < c.step + 1
        BY <1>6, <1>7, <3>1, <4>1, StepNumbers, SMT
      <4>3. i + 1 \in Steps
        BY <3>1, <4>2, SMT DEF Steps, MaxSteps
      <4> QED
        BY <2>2, <4>1, <4>2, <4>3 DEF DoneBefore
    <3>3. CASE c.at = "fail" /\ DoneBefore(r, c.step) /\ AbsentFrom(r, c.step) /\ StepOrigin(c)
      <4>1. ~(i >= c.step)
        BY <1>1, <1>5, <3>3 DEF AbsentFrom
      <4>2. i < c.step
        BY <3>1, <4>1, StepNumbers, SMT
      <4>3. CASE c.step = i + 1
        <5>1. c.step > 0 /\ c.step - 1 = i
          BY <4>3, StepNumbers, SMT
        <5> QED
          BY <1>1, <2>1, <2>4, <3>3, <5>1 DEF StepOrigin
      <4>4. CASE c.step # i + 1
        <5>1. i + 1 \in Steps /\ i + 1 < c.step
          BY <3>1, <4>2, <4>4, SMT DEF Steps, MaxSteps
        <5> QED
          BY <2>2, <3>3, <5>1 DEF DoneBefore
      <4> QED
        BY <4>3, <4>4
    <3>4. CASE status[<<r, c.step>>] \in {"failed", "canceled"}
      <4>1. ~(i < c.step) /\ c.step # i
        BY <1>1, <2>1, <2>3, <3>1, <3>4
      <4>2. c.step < i
        BY <1>8, <3>1, <4>1
      <4> QED
        BY <1>5, <3>1, <3>4, <4>2 DEF DoneBefore
    <3> QED
      BY <1>9, <2>4, <3>1, <3>2, <3>3, <3>4 DEF FailInv, Dispatches
  <2>5. \A k \in Steps : k >= i + 1 => i < k
    BY StepNumbers, SMT
  <2>6. AbsentFrom(r, i + 1)'
    BY <2>3, <2>5 DEF AbsentFrom, Calm
  <2>7. ASSUME NEW k \in Steps, k >= i + 1 PROVE <<r, k>> \notin jobRefs'
    BY <2>3, <2>5, <2>7 DEF QuietInv, WorkflowInv, RefInv
  <2>8. i + 1 - 1 = i /\ n = i + 1
    BY <1>3, StepNumbers, SMT
  <2>9. b.step = i + 1 /\ b.run = r /\ b.from = job /\ b.at = "read"
    BY <2>1, <2>8
  <2>10. \A a \in acts' : a.run = b.run => a = b
    BY <1>4, <2>4, <2>9
  <2> HIDE DEF b
  <2>11. b.step - 1 = i
    BY <2>9, StepNumbers, SMT
  <2>12. StepOrigin(b)'
    BY <1>1, <2>9, <2>11 DEF StepOrigin
  <2> QED
    BY <1>4, <2>6, <2>7, <2>9, <2>10, <2>12 DEF DispatchInv
<1>11. at = "fail" => FailInv(b)'
  <2> SUFFICES ASSUME at = "fail" PROVE FailInv(b)'
    OBVIOUS
  <2>1. status[job] \in {"failed", "canceled"} /\ n = i
    BY <1>3, <1>7
  <2>2. ASSUME NEW k \in Steps PROVE ~Alive(r, k)
    <3>1. CASE k < i
      BY <1>5, <3>1 DEF DoneBefore, Alive
    <3>2. CASE k = i
      BY <1>1, <2>1, <3>2 DEF Alive
    <3>3. CASE i < k
      <4>1. ~DoneBefore(r, k)
        BY <1>1, <2>1, <3>3 DEF DoneBefore
      <4> QED
        BY <4>1 DEF QuietInv, WorkflowInv, OrderInv, Alive
    <3> QED
      BY <1>8, <3>1, <3>2, <3>3
  <2>3. /\ \A k \in Steps : ~Alive(r, k)'
        /\ status'[<<r, n>>] \in {"failed", "canceled"}
    BY <1>1, <2>1, <2>2 DEF Calm, JobsCalm
  <2> QED
    BY <2>3 DEF FailInv, Alive
<1>12. DispatchInv(b)' /\ FailInv(b)'
  BY <1>10, <1>11 DEF DispatchInv, FailInv, Dispatches
<1>13. b.run = r /\ b.from = from
  OBVIOUS
<1> HIDE DEF b
<1>14. /\ \A c \in acts' \ acts : c = b
       /\ \A a \in acts : Dispatches(a) => a.run # b.run
       /\ b.from # Caller => phase'[b.from] = "announcing" /\ \A c \in acts' : c.from = b.from => c = b
       /\ \A a \in acts : a.from # Caller => phase'[a.from] = "announcing"
  BY <1>4, <1>9, <1>13 DEF QuietInv, FromInv
<1>15. \A q \in Runs : (Known(q) => runStatus'[q] = runStatus[q]) /\ (~Known(q) => runStatus'[q] # "failed")
  BY DEF Known
<1> QED
  BY <1>4, <1>12, <1>14, <1>15, GrowQuiet

\* An activity that returns: the worker, if it is one's, has announced the job.
LEMMA ReturnsQuiet ==
  ASSUME QuietInv, WorkflowInv', NEW a \in acts, Returns(a),
         jobRefs' = jobRefs \/ (Dispatches(a) /\ jobRefs' = jobRefs \cup {<<a.run, a.step>>}),
         \A r \in Runs : r # a.run => runStatus'[r] = runStatus[r],
         Known(a.run)', runStatus'[a.run] = "failed" => runStatus[a.run] = "failed" \/ a.at = "fail"
  PROVE  QuietInv'
<1>1. a.run \in Runs /\ acts' = acts \ {a} /\ DispatchInv(a) /\ FailInv(a)
  BY ActType DEF QuietInv, Returns
<1>2. /\ QuietJobs' /\ JobsCalm /\ JobsGrow /\ \A r \in Runs : Calm(r)
      /\ \A i \in JobIds : i # a.from => phase'[i] = phase[i]
      /\ a.from # Caller => phase'[a.from] = "over"
  <2>1. CASE a.from = Caller
    BY <2>1, CalmStill DEF Returns, QuietInv
  <2>2. CASE a.from # Caller
    <3>1. PICK j \in JobIds : j = a.from /\ Jobs!Announce(j)
      BY <2>2 DEF Returns, QuietInv, WorkflowInv, RunsType
    <3>2. JobStep(j) /\ ~Jobs!Submit(j) /\ ~Jobs!Fail(j)
      BY <3>1 DEF JobStep, Jobs!Announce, Jobs!Submit, Jobs!Fail, Jobs!Changes, QuietInv, WorkflowInv, JobsInv
    <3>3. phase' = [phase EXCEPT ![j] = "over"] /\ phase \in [JobIds -> JobPhases]
      BY <3>1 DEF Jobs!Announce, Jobs!Changes, QuietInv, WorkflowInv, JobsInv
    <3> QED
      BY <3>1, <3>2, <3>3, CalmStep DEF QuietInv
  <2> QED
    BY <2>1, <2>2
<1>3. ASSUME NEW c \in acts' PROVE DispatchInv(c)' /\ FailInv(c)'
  <2>1. c \in acts /\ c # a /\ c.run \in Runs /\ DispatchInv(c)
    BY <1>1, ActType DEF QuietInv
  <2>2. CASE Dispatches(c)
    <3>1. c.run # a.run /\ \A d \in acts' : d.run = c.run => d = c
      BY <1>1, <2>1, <2>2 DEF DispatchInv
    <3>2. runStatus'[c.run] # "failed"
      BY <2>1, <2>2, <3>1 DEF DispatchInv
    <3>3. ASSUME NEW i \in Steps, i >= c.step PROVE <<c.run, i>> \notin jobRefs'
      <4>1. <<c.run, i>> # <<a.run, a.step>>
        BY <3>1, SMT
      <4> QED
        BY <2>1, <2>2, <3>3, <4>1 DEF DispatchInv
    <3> QED
      BY <1>2, <2>1, <2>2, <3>1, <3>2, <3>3, DispatchKept, FailKept
  <2>3. CASE ~Dispatches(c)
    <3>1. DispatchInv(c)'
      BY <2>3 DEF DispatchInv, Dispatches
    <3> QED
      BY <1>2, <2>1, <3>1, FailKept
  <2> QED
    BY <2>2, <2>3
<1>4. FromInv'
  <2> SUFFICES ASSUME NEW c \in acts', c.from # Caller
               PROVE  phase'[c.from] = "announcing" /\ \A d \in acts' : d.from = c.from => d = c
    BY DEF FromInv
  <2>1. /\ c \in acts /\ c # a /\ c.from \in JobIds
        /\ phase[c.from] = "announcing" /\ \A d \in acts : d.from = c.from => d = c
    BY <1>1 DEF QuietInv, FromInv, WorkflowInv, RunsType
  <2> QED
    BY <1>1, <1>2, <2>1
<1>5. Handed'
  <2> SUFFICES ASSUME NEW r \in Runs, NEW i \in Steps, i + 1 \in Steps, status'[<<r, i + 1>>] # "absent"
               PROVE  phase'[<<r, i>>] = "over" \/ \E c \in acts' : c.from = <<r, i>>
    BY DEF Handed
  <2>1. status[<<r, i + 1>>] # "absent" /\ <<r, i>> \in JobIds
    BY <1>2, PairIsJob DEF Calm
  <2>2. CASE phase[<<r, i>>] = "over"
    BY <1>2, <2>1, <2>2 DEF JobsCalm
  <2>3. CASE a.from = <<r, i>>
    <3>1. <<r, i>> # Caller
      BY SMT DEF Caller
    <3> QED
      BY <1>2, <2>3, <3>1
  <2> QED
    BY <1>1, <2>1, <2>2, <2>3 DEF QuietInv, Handed
<1>6. Unlaunched'
  BY <1>1, <1>2 DEF QuietInv, Unlaunched, Calm, AbsentFrom, Known
<1>7. FailureStopsRun'
  <2> SUFFICES ASSUME NEW r \in Runs, runStatus'[r] = "failed", NEW i \in Steps
               PROVE  status'[<<r, i>>] \notin {"pending", "running"}
    BY DEF FailureStopsRun
  <2>1. ~Alive(r, i)
    BY <1>1 DEF QuietInv, FailureStopsRun, FailInv, Alive
  <2> QED
    BY <1>2, <2>1 DEF Calm, Alive
<1> QED
  BY <1>2, <1>3, <1>4, <1>5, <1>6, <1>7 DEF QuietInv

LEMMA EndQuiet ==
  ASSUME QuietInv, WorkflowInv', NEW a \in acts, Register(a) \/ Succeed(a) \/ FailRun(a)
  PROVE  QuietInv'
<1>1. Returns(a) /\ a.run \in Runs /\ Known(a.run)
  BY ActType DEF Register, Succeed, FailRun, QuietInv, WorkflowInv, ActInv
<1>2. PICK s \in {"running", "succeeded", "failed"} :
        /\ runStatus' = runStatus \/ runStatus' = [runStatus EXCEPT ![a.run] = s]
        /\ s = "failed" => a.at = "fail"
  BY DEF Register, Succeed, FailRun, runVars
<1>3. jobRefs' = jobRefs \/ (Dispatches(a) /\ jobRefs' = jobRefs \cup {<<a.run, a.step>>})
  BY DEF Register, Succeed, FailRun, runVars, Dispatches
<1>4. /\ \A r \in Runs : r # a.run => runStatus'[r] = runStatus[r]
      /\ runStatus'[a.run] \in {runStatus[a.run], s}
  BY <1>1, <1>2 DEF QuietInv, WorkflowInv, RunsType
<1>5. runStatus'[a.run] # "absent" /\ runStatus[a.run] # "absent"
  BY <1>1, <1>4 DEF Known
<1>6. runStatus'[a.run] = "failed" => runStatus[a.run] = "failed" \/ a.at = "fail"
  BY <1>2, <1>4
<1>7. Known(a.run)'
  BY <1>5 DEF Known
<1> QED
  BY <1>1, <1>3, <1>4, <1>6, <1>7, ReturnsQuiet

LEMMA FromKept ==
  ASSUME FromInv, NEW a \in acts, NEW b, acts' = (acts \ {a}) \cup {b}, b.from = a.from,
         \A c \in acts : c.from # Caller => phase'[c.from] = "announcing"
  PROVE  FromInv'
<1> SUFFICES ASSUME NEW c \in acts', c.from # Caller
             PROVE  phase'[c.from] = "announcing" /\ \A d \in acts' : d.from = c.from => d = c
  BY DEF FromInv
<1>1. CASE c = b
  <2>1. \A d \in acts : d.from = a.from => d = a
    BY <1>1 DEF FromInv
  <2> QED
    BY <1>1, <2>1
<1>2. CASE c # b
  <2>1. c \in acts /\ c # a /\ \A d \in acts : d.from = c.from => d = c
    BY <1>2 DEF FromInv
  <2> QED
    BY <2>1
<1> QED
  BY <1>1, <1>2

\* An activity that goes on to its next section, without a job submitted.
LEMMA BecomesQuiet ==
  ASSUME QuietInv, WorkflowInv', NEW a \in acts, Dispatches(a), UNCHANGED <<jobVars, runStatus, jobRefs>>,
         NEW b, acts' = (acts \ {a}) \cup {b}, b.run = a.run, b.step = a.step, b.from = a.from,
         (a.at = "read" /\ b.at = "enqueue") \/ (a.at = "enqueue" /\ b.at = "fail")
  PROVE  QuietInv'
<1>1. /\ QuietJobs' /\ JobsCalm /\ JobsGrow /\ (\A r \in Runs : Calm(r))
      /\ phase' = phase /\ status' = status
  BY CalmStill DEF QuietInv
<1>2. /\ DispatchInv(a) /\ DoneBefore(a.run, a.step) /\ AbsentFrom(a.run, a.step)
      /\ \A c \in acts : c.run = a.run => c = a
  BY DEF QuietInv, WorkflowInv, ActInv, DispatchInv, Dispatches
<1>3. ASSUME NEW c \in acts', c # b PROVE DispatchInv(c)' /\ FailInv(c)'
  <2>1. c \in acts /\ c.run # a.run /\ c.run \in Runs /\ DispatchInv(c)
    BY <1>2, <1>3, ActType DEF QuietInv
  <2>2. CASE Dispatches(c)
    <3>1. /\ \A d \in acts' : d.run = c.run => d = c
          /\ runStatus'[c.run] # "failed"
          /\ \A i \in Steps : i >= c.step => <<c.run, i>> \notin jobRefs'
      BY <2>1, <2>2 DEF DispatchInv
    <3> QED
      BY <1>1, <2>1, <2>2, <3>1, DispatchKept, FailKept
  <2>3. CASE ~Dispatches(c)
    <3>1. DispatchInv(c)'
      BY <2>3 DEF DispatchInv, Dispatches
    <3> QED
      BY <1>1, <2>1, <3>1, FailKept
  <2> QED
    BY <2>2, <2>3
<1>4. DispatchInv(b)'
  BY <1>1, <1>2 DEF DispatchInv, Dispatches, AbsentFrom, StepOrigin
<1>5. FailInv(b)'
  <2>1. \A i \in Steps : i < a.step \/ i >= a.step
    <3>1. a.step \in Nat
      BY ActType DEF QuietInv
    <3> QED
      BY <3>1, StepNumbers, SMT
  <2>2. \A i \in Steps : ~Alive(a.run, i)
    BY <1>2, <2>1 DEF DoneBefore, AbsentFrom, Alive
  <2>3. StepOrigin(a)
    BY <1>2 DEF DispatchInv
  <2> QED
    BY <1>1, <1>2, <2>2, <2>3 DEF FailInv, DoneBefore, AbsentFrom, StepOrigin, Alive
<1>6. FromInv'
  <2>1. FromInv /\ \A c \in acts : c.from # Caller => phase'[c.from] = "announcing"
    BY <1>1 DEF QuietInv, FromInv
  <2> QED
    BY <2>1, FromKept
<1>7. Handed'
  BY <1>1 DEF QuietInv, Handed
<1>8. Unlaunched' /\ FailureStopsRun'
  BY <1>1 DEF QuietInv, Unlaunched, AbsentFrom, Known, FailureStopsRun
<1> QED
  BY <1>1, <1>3, <1>4, <1>5, <1>6, <1>7, <1>8 DEF QuietInv

\* Enqueue takes the step's job: no other activity of the run is about.
LEMMA SubmitQuiet ==
  ASSUME QuietInv, WorkflowInv', NEW a \in acts, a.at = "enqueue", UNCHANGED <<runStatus, jobRefs>>,
         Jobs!Submit(<<a.run, a.step>>),
         NEW b, acts' = (acts \ {a}) \cup {b}, b.run = a.run, b.step = a.step, b.from = a.from,
         b.at = "register"
  PROVE  QuietInv'
<1>1. PICK job \in JobIds : job = <<a.run, a.step>> /\ JobStep(job) /\ Jobs!Submit(job)
  BY ActType DEF QuietInv, JobStep
<1>2. /\ QuietJobs' /\ JobsCalm
      /\ \A i \in JobIds : i # job => status'[i] = status[i] /\ phase'[i] = phase[i]
      /\ ~Jobs!Announce(job)
  <2>1. phase[job] = "none"
    BY <1>1 DEF Jobs!Submit, QuietInv, WorkflowInv, JobsInv
  <2>2. ~Jobs!Announce(job) /\ ~Jobs!Fail(job)
    BY <1>1, <2>1 DEF Jobs!Announce, Jobs!Fail, Jobs!Submit
  <2> QED
    BY <1>1, <2>2, QuietJobStep DEF QuietInv
<1>3. JobsGrow
  BY <1>1, JobStepInv DEF QuietInv, WorkflowInv
<1>4. \A r \in Runs : r # a.run => Calm(r)
  <2> SUFFICES ASSUME NEW r \in Runs, r # a.run, NEW i \in Steps PROVE status'[<<r, i>>] = status[<<r, i>>]
    BY DEF Calm, Alive
  <2>1. <<r, i>> # job
    BY <1>1, SMT
  <2> QED
    BY <1>2, <2>1, PairIsJob
<1>5. /\ DispatchInv(a) /\ AbsentFrom(a.run, a.step) /\ a.run \in Runs /\ Known(a.run)
      /\ \A c \in acts : c.run = a.run => c = a
      /\ a.step \in Steps /\ StepOrigin(a) /\ runStatus[a.run] # "failed"
  BY ActType DEF QuietInv, WorkflowInv, ActInv, DispatchInv, Dispatches
<1>6. ASSUME NEW c \in acts', c # b PROVE DispatchInv(c)' /\ FailInv(c)'
  <2>1. c \in acts /\ c.run # a.run /\ c.run \in Runs /\ DispatchInv(c)
    BY <1>5, <1>6, ActType DEF QuietInv
  <2>2. CASE Dispatches(c)
    <3>1. /\ \A d \in acts' : d.run = c.run => d = c
          /\ runStatus'[c.run] # "failed"
          /\ \A i \in Steps : i >= c.step => <<c.run, i>> \notin jobRefs'
      BY <2>1, <2>2 DEF DispatchInv
    <3> QED
      BY <1>2, <1>3, <1>4, <2>1, <2>2, <3>1, DispatchKept, FailKept
  <2>3. CASE ~Dispatches(c)
    <3>1. DispatchInv(c)'
      BY <2>3 DEF DispatchInv, Dispatches
    <3> QED
      BY <1>2, <1>3, <1>4, <2>1, <3>1, FailKept
  <2> QED
    BY <2>2, <2>3
<1>7. DispatchInv(b)' /\ FailInv(b)'
  <2>1. AbsentFrom(a.run, a.step + 1)'
    <3> SUFFICES ASSUME NEW i \in Steps, i >= a.step + 1 PROVE status'[<<a.run, i>>] = "absent"
      BY DEF AbsentFrom
    <3>1. i >= a.step /\ i # a.step
      <4>1. \A n \in Nat : i >= n + 1 => i >= n /\ i # n
        BY StepNumbers, SMT
      <4> QED
        BY <1>5, <4>1, StepNumbers
    <3>2. <<a.run, i>> # job
      BY <1>1, <3>1, SMT
    <3> QED
      BY <1>2, <1>5, <3>1, <3>2, PairIsJob DEF AbsentFrom
  <2>2. \A c \in acts' : c.run = b.run => c = b
    BY <1>5
  <2>3. \A i \in Steps : i >= b.step => <<b.run, i>> \notin jobRefs'
    BY <1>5 DEF DispatchInv, Dispatches
  <2>4. StepOrigin(b)' /\ runStatus'[b.run] # "failed"
    BY <1>5 DEF StepOrigin
  <2> QED
    BY <2>1, <2>2, <2>3, <2>4 DEF DispatchInv, FailInv, AbsentFrom
<1>8. FromInv'
  <2>1. \A c \in acts : c.from # Caller => c.from \in JobIds /\ c.from # job
    <3>1. phase[job] = "none"
      BY <1>1 DEF Jobs!Submit, QuietInv, WorkflowInv, JobsInv
    <3> QED
      BY <3>1 DEF QuietInv, FromInv, WorkflowInv, RunsType
  <2>2. FromInv /\ \A c \in acts : c.from # Caller => phase'[c.from] = "announcing"
    BY <1>2, <2>1 DEF QuietInv, FromInv
  <2> QED
    BY <2>2, FromKept
<1>9. Handed'
  <2> SUFFICES ASSUME NEW r \in Runs, NEW i \in Steps, i + 1 \in Steps, status'[<<r, i + 1>>] # "absent"
               PROVE  phase'[<<r, i>>] = "over" \/ \E c \in acts' : c.from = <<r, i>>
    BY DEF Handed
  <2>1. CASE <<r, i + 1>> = job
    <3>1. r = a.run /\ a.step > 0 /\ a.step - 1 = i
      BY <1>1, <2>1, StepNumbers, SMT
    <3> QED
      BY <1>5, <3>1 DEF StepOrigin
  <2>2. CASE <<r, i + 1>> # job
    <3>1. phase[<<r, i>>] = "over" \/ \E c \in acts : c.from = <<r, i>>
      BY <1>2, <2>2, PairIsJob DEF QuietInv, Handed
    <3> QED
      BY <1>2, <3>1, PairIsJob DEF JobsCalm
  <2> QED
    BY <2>1, <2>2
<1>10. Unlaunched' /\ FailureStopsRun'
  BY <1>4, <1>5 DEF QuietInv, Unlaunched, Calm, Alive, AbsentFrom, Known, FailureStopsRun
<1> QED
  BY <1>2, <1>6, <1>7, <1>8, <1>9, <1>10 DEF QuietInv

LEMMA ActivityQuiet ==
  ASSUME QuietInv, WorkflowInv', NEW a \in acts, Proceed(a)
  PROVE  QuietInv'
<1>1. WorkflowInv /\ a.run \in Runs /\ Known(a.run)
  BY ActType DEF QuietInv, WorkflowInv, ActInv
<1>2. CASE ReadRun(a)
  <2>1. UNCHANGED <<runStatus, jobRefs>> /\ a.at = "read" /\ Dispatches(a)
    BY <1>2 DEF ReadRun, runVars, Dispatches
  <2>2. CASE Returns(a)
    <3>1. Known(a.run)'
      BY <1>1, <2>1 DEF Known
    <3> QED
      BY <2>1, <2>2, <3>1, ReturnsQuiet
  <2>3. CASE Becomes(a, "enqueue") /\ UNCHANGED jobVars
    <3>1. PICK b : /\ b.run = a.run /\ b.step = a.step /\ b.at = "enqueue" /\ b.from = a.from
                   /\ acts' = (acts \ {a}) \cup {b}
      BY <1>1, <2>3, BecomesType
    <3> QED
      BY <2>1, <2>3, <3>1, BecomesQuiet
  <2> QED
    BY <1>2, <2>2, <2>3 DEF ReadRun
<1>3. CASE EnqueueStep(a)
  <2>1. UNCHANGED <<runStatus, jobRefs>> /\ a.at = "enqueue" /\ Dispatches(a)
    BY <1>3 DEF EnqueueStep, runVars, Dispatches
  <2>2. CASE Becomes(a, "fail") /\ UNCHANGED jobVars
    <3>1. PICK b : /\ b.run = a.run /\ b.step = a.step /\ b.at = "fail" /\ b.from = a.from
                   /\ acts' = (acts \ {a}) \cup {b}
      BY <1>1, <2>2, BecomesType
    <3> QED
      BY <2>1, <2>2, <3>1, BecomesQuiet
  <2>3. CASE Becomes(a, "register") /\ Jobs!Submit(<<a.run, a.step>>)
    <3>1. PICK b : /\ b.run = a.run /\ b.step = a.step /\ b.at = "register" /\ b.from = a.from
                   /\ acts' = (acts \ {a}) \cup {b}
      BY <1>1, <2>3, BecomesType
    <3> QED
      BY <2>1, <2>3, <3>1, SubmitQuiet
  <2>4. status[<<a.run, a.step>>] = "absent"
    <3>1. a.step \in Steps /\ a.step \in Nat
      BY <1>1, ActType
    <3>2. a.step >= a.step
      BY <3>1, SMT
    <3> QED
      BY <2>1, <3>1, <3>2 DEF QuietInv, DispatchInv, AbsentFrom
  <2> QED
    BY <1>3, <2>2, <2>3, <2>4 DEF EnqueueStep
<1> QED
  BY <1>2, <1>3, EndQuiet DEF Proceed

\* A step of a job that no activity waits for.
LEMMA JobOnlyQuiet ==
  ASSUME QuietInv, WorkflowInv', NEW j \in JobIds, JobStep(j), ~Jobs!Fail(j), ~Jobs!Submit(j),
         Jobs!Announce(j) => \A a \in acts : a.from # j,
         UNCHANGED <<runStatus, jobRefs, acts>>
  PROVE  QuietInv'
<1>1. QuietJobs' /\ JobsCalm /\ JobsGrow /\ \A r \in Runs : Calm(r)
  BY CalmStep DEF QuietInv
<1>2. \A a \in acts : a.from # Caller => phase'[a.from] = "announcing"
  <2>1. /\ \A i \in JobIds : i # j => phase'[i] = phase[i]
        /\ phase[j] = "announcing" => phase'[j] = "announcing" \/ Jobs!Announce(j)
    BY QuietJobStep DEF QuietInv
  <2>2. \A a \in acts : a.from # Caller => a.from \in JobIds /\ phase[a.from] = "announcing"
    BY DEF QuietInv, FromInv, WorkflowInv, RunsType
  <2> QED
    BY <2>1, <2>2
<1>3. \A q \in Runs : (Known(q) => runStatus'[q] = runStatus[q]) /\ (~Known(q) => runStatus'[q] # "failed")
  BY DEF Known
<1> QED
  BY <1>1, <1>2, <1>3, GrowQuiet

LEMMA StillQuiet ==
  ASSUME QuietInv, WorkflowInv', UNCHANGED <<jobVars, runStatus, jobRefs, acts>>
  PROVE  QuietInv'
<1>1. QuietJobs' /\ JobsCalm /\ JobsGrow /\ (\A r \in Runs : Calm(r)) /\ phase' = phase
  BY CalmStill DEF QuietInv
<1>2. \A a \in acts : a.from # Caller => phase'[a.from] = "announcing"
  BY <1>1 DEF QuietInv, FromInv
<1>3. \A q \in Runs : (Known(q) => runStatus'[q] = runStatus[q]) /\ (~Known(q) => runStatus'[q] # "failed")
  BY DEF Known
<1> QED
  BY <1>1, <1>2, <1>3, GrowQuiet

LEMMA OperatorQuiet ==
  ASSUME QuietInv, WorkflowInv', Unforced, Operator
  PROVE  QuietInv'
<1>1. ASSUME NEW w \in Workflows, NEW s \in StepInputs, Create(w, s) PROVE QuietInv'
  BY <1>1, StillQuiet DEF Create, runVars
<1>2. ASSUME NEW t, DeleteTemplate(t) PROVE QuietInv'
  BY <1>2, StillQuiet DEF DeleteTemplate, runVars
<1>3. ASSUME NEW j \in JobIds, CancelJob(j) PROVE QuietInv'
  <2>1. JobStep(j) /\ ~Jobs!Submit(j) /\ UNCHANGED <<runStatus, jobRefs, acts>>
    BY <1>3 DEF CancelJob, runVars, JobStep, Jobs!Cancel, Jobs!Submit
  <2>2. status'[j] = "canceled"
    BY <1>3 DEF CancelJob, Jobs!Cancel, Jobs!Changes, QuietInv, WorkflowInv, JobsInv
  <2>3. ~Jobs!Fail(j)
    BY <2>2 DEF Jobs!Fail, Jobs!Changes, QuietInv, WorkflowInv, JobsInv
  <2>4. ~Jobs!Announce(j)
    <3>1. Jobs!Announce(j) => status[j] \in {"succeeded", "failed"} /\ status'[j] = status[j]
      BY DEF Jobs!Announce, Jobs!Changes, QuietInv, QuietJobs, WorkflowInv, JobsInv
    <3> QED
      BY <2>2, <3>1
  <2> QED
    BY <2>1, <2>3, <2>4, JobOnlyQuiet
<1> QED
  BY <1>1, <1>2, <1>3, LaunchQuiet DEF Operator, Unforced

LEMMA QueueQuiet ==
  ASSUME QuietInv, WorkflowInv', StepsBounded, Queue
  PROVE  QuietInv'
<1>1. ASSUME NEW j \in JobIds, Work(j) PROVE QuietInv'
  <2>1. JobStep(j) /\ UNCHANGED <<runStatus, jobRefs, acts>> /\ UNCHANGED notices
    BY <1>1 DEF Work, JobStep, runVars, Jobs!Work, Jobs!Drop, Jobs!Start, Jobs!Apply, Jobs!Finish
  <2>2. phase[j] \notin {"none", "announcing"}
    BY <1>1 DEF Work, Jobs!Work, Jobs!Drop, Jobs!Start, Jobs!Apply, Jobs!Finish
  <2>3. ~Jobs!Submit(j) /\ ~Jobs!Announce(j)
    BY <2>2 DEF Jobs!Submit, Jobs!Announce, QuietInv, WorkflowInv, JobsInv
  <2>4. ~Jobs!Fail(j)
    <3>1. phase[j] = phase'[j] => status'[j] # "failed"
      BY <1>1, <2>2 DEF Work, Jobs!Work, Jobs!Drop, Jobs!Start, Jobs!Apply, Jobs!Finish,
                 Jobs!Changes, QuietInv, WorkflowInv, JobsInv
    <3> QED
      BY <3>1 DEF Jobs!Fail, Jobs!Changes, QuietInv, WorkflowInv, JobsInv
  <2> QED
    BY <2>1, <2>3, <2>4, JobOnlyQuiet
<1>2. ASSUME NEW j \in JobIds, NEW s \in Jobs!ByCaller, OnJob(j, s) PROVE QuietInv'
  <2>1. /\ JobStep(j) /\ s \in {"failed", "canceled"} /\ notices[j][s] > 0
        /\ UNCHANGED <<status, phase, runStatus, jobRefs>>
    BY <1>2 DEF OnJob, JobStep, runVars, Jobs!ByCaller, Jobs!Deliver
  <2>2. s = "canceled" /\ status[j] = "canceled"
    <3>1. s # "failed"
      BY <2>1, SMT DEF QuietInv, QuietJobs
    <3> QED
      BY <2>1, <3>1 DEF QuietInv, QuietJobs
  <2>3. ~Jobs!Submit(j) /\ ~Jobs!Fail(j) /\ ~Jobs!Announce(j)
    BY <2>1, <2>2 DEF Jobs!Submit, Jobs!Fail, Jobs!Announce, Jobs!Changes,
                      QuietInv, QuietJobs, WorkflowInv, JobsInv
  <2>4. QuietJobs' /\ JobsCalm /\ JobsGrow /\ \A r \in Runs : Calm(r)
    BY <2>1, <2>3, CalmStep DEF QuietInv
  <2>5. CASE UNCHANGED acts
    BY <2>1, <2>3, <2>5, JobOnlyQuiet
  <2>6. CASE Reacts(j, s, Caller)
    BY <2>1, <2>2, <2>4, <2>6, ReactsQuiet
  <2> QED
    BY <1>2, <2>5, <2>6 DEF OnJob
<1>3. ASSUME NEW j \in JobIds, OnWorkerJob(j) PROVE QuietInv'
  <2>1. /\ UNCHANGED <<runStatus, jobRefs>> /\ phase[j] = "announcing" /\ \A a \in acts : a.from # j
        /\ status[j] \in {"succeeded", "failed"}
    BY <1>3 DEF OnWorkerJob, runVars, QuietInv, QuietJobs
  <2>2. CASE Jobs!Announce(j) /\ UNCHANGED acts
    <3>1. JobStep(j) /\ ~Jobs!Submit(j) /\ ~Jobs!Fail(j)
      BY <2>1, <2>2 DEF JobStep, Jobs!Announce, Jobs!Submit, Jobs!Fail, Jobs!Changes,
                        QuietInv, WorkflowInv, JobsInv
    <3> QED
      BY <2>1, <2>2, <3>1, JobOnlyQuiet
  <2>3. CASE Reacts(j, status[j], j) /\ UNCHANGED jobVars
    <3>1. QuietJobs' /\ JobsCalm /\ JobsGrow /\ (\A r \in Runs : Calm(r)) /\ phase' = phase
      BY <2>3, CalmStill DEF QuietInv
    <3> QED
      BY <2>1, <2>3, <3>1, ReactsQuiet
  <2> QED
    BY <1>3, <2>2, <2>3 DEF OnWorkerJob
<1> QED
  BY <1>1, <1>2, <1>3 DEF Queue

LEMMA QuietInit == StepsBounded /\ Init => QuietInv
<1> SUFFICES ASSUME StepsBounded, Init PROVE QuietInv
  OBVIOUS
<1>1. /\ WorkflowInv /\ acts = {} /\ \A j \in JobIds : status[j] = "absent" /\ phase[j] = "none"
  BY InvInit DEF Init, Jobs!Init
<1>2. QuietJobs
  <2>1. /\ notices \in [JobIds -> [{"failed", "canceled"} -> Nat]]
        /\ \A j \in JobIds : notices[j]["failed"] = 0 /\ ~(notices[j]["canceled"] > 0)
    BY SMT DEF Init, Jobs!Init, Jobs!ByCaller
  <2> QED
    BY <1>1, <2>1 DEF QuietJobs
<1>3. FromInv /\ Handed /\ Unlaunched /\ FailureStopsRun
  BY <1>1, PairIsJob DEF Init, FromInv, Handed, Unlaunched, AbsentFrom, FailureStopsRun
<1> QED
  BY <1>1, <1>2, <1>3 DEF QuietInv

LEMMA QuietStep == StepsBounded /\ Unforced /\ QuietInv /\ [Next]_vars => QuietInv'
<1> SUFFICES ASSUME StepsBounded, Unforced, QuietInv, [Next]_vars PROVE QuietInv'
  OBVIOUS
<1>1. WorkflowInv'
  BY InvStep DEF QuietInv
<1>2. CASE UNCHANGED vars
  BY <1>1, <1>2, StillQuiet DEF vars, runVars
<1> QED
  BY <1>1, <1>2, ActivityQuiet, OperatorQuiet, QueueQuiet DEF Next, Idle, Activity

\* A failed run leaves no job of its own pending or running, although failRun
\* cancels none: the jobs of dispatchStep and the notifications onJob reacts
\* to come one at a time, as long as no operator fails a job by hand.
THEOREM FailedRunsStop == StepsBounded /\ Unforced /\ Spec => []FailureStopsRun
<1> SUFFICES ASSUME StepsBounded, Unforced PROVE Spec => []FailureStopsRun
  OBVIOUS
<1>1. Init => QuietInv
  BY QuietInit
<1>2. QuietInv /\ [Next]_vars => QuietInv'
  BY QuietStep
<1>3. QuietInv => FailureStopsRun
  BY DEF QuietInv
<1> QED
  BY <1>1, <1>2, <1>3, PTL DEF Spec

-----------------------------------------------------------------------------
(* Ended runs *)

LEMMA EndStep ==
  WorkflowInv /\ [Next]_vars => \A r \in Runs : Over(r) => runStatus'[r] = runStatus[r]
<1> SUFFICES ASSUME WorkflowInv, [Next]_vars, NEW r \in Runs, Over(r) PROVE runStatus'[r] = runStatus[r]
  OBVIOUS
<1>1. ASSUME NEW a \in acts, Proceed(a) PROVE runStatus'[r] = runStatus[r]
  <2>1. CASE r = a.run
    BY <1>1, <2>1 DEF Proceed, ReadRun, EnqueueStep, Register, Succeed, FailRun, runVars
  <2>2. CASE r # a.run
    <3>1. \/ runStatus' = runStatus
          \/ \E s \in {"running", "succeeded", "failed"} : runStatus' = [runStatus EXCEPT ![a.run] = s]
      BY <1>1 DEF Proceed, ReadRun, EnqueueStep, Register, Succeed, FailRun, runVars
    <3> QED
      BY <2>2, <3>1 DEF WorkflowInv, RunsType
  <2> QED
    BY <2>1, <2>2
<1>2. CASE Operator
  <2>1. ASSUME NEW q \in Runs, NEW w \in Workflows, Launch(q, w) PROVE runStatus'[r] = runStatus[r]
    <3>1. q # r /\ runStatus' = [runStatus EXCEPT ![q] = "pending"]
      BY <2>1 DEF Launch, Over
    <3> QED
      BY <3>1 DEF WorkflowInv, RunsType
  <2> QED
    BY <1>2, <2>1 DEF Operator, Create, DeleteTemplate, CancelJob, FailJob, runVars
<1>3. CASE Queue \/ UNCHANGED vars
  BY <1>3 DEF Queue, Work, OnWorkerJob, OnJob, runVars, vars
<1> QED
  BY <1>1, <1>2, <1>3 DEF Next, Activity, Idle

\* A run that has succeeded or failed keeps its status: dispatchStep, onJob and
\* failRun ask for it again under the lock that they write it under.
THEOREM EndsAreFinal ==
  StepsBounded /\ Spec => [][\A r \in Runs : Over(r) => runStatus'[r] = runStatus[r]]_vars
<1> SUFFICES ASSUME StepsBounded
             PROVE  Spec => [][\A r \in Runs : Over(r) => runStatus'[r] = runStatus[r]]_vars
  OBVIOUS
<1>1. WorkflowInv /\ [Next]_vars => [\A r \in Runs : Over(r) => runStatus'[r] = runStatus[r]]_vars
  BY EndStep
<1> QED
  BY <1>1, Invariance, PTL DEF Spec

-----------------------------------------------------------------------------
(* Types *)

\* A run's current step is one of its steps, or the number of them at the end.
CurrentInv(r) ==
  /\ runOf[r] # NoWorkflow => Known(r)
  /\ Known(r) => currentStep[r] <= Length(r)
  /\ ~Known(r) => currentStep[r] = 0

TypesInv ==
  /\ WorkflowInv /\ templates \subseteq Templates /\ currentStep \in [Runs -> Nat]
  /\ \A r \in Runs : CurrentInv(r)

LEMMA TypesInit == StepsBounded /\ Init => TypesInv
<1> SUFFICES ASSUME StepsBounded, Init PROVE TypesInv
  OBVIOUS
<1>1. 0 \in Nat
  BY SMT
<1>2. WorkflowInv /\ templates \subseteq Templates /\ currentStep \in [Runs -> Nat]
  BY <1>1, InvInit DEF Init
<1> QED
  BY <1>2 DEF Init, TypesInv, CurrentInv, Known

\* A section of an activity leaves its run at a step or at the end.
LEMMA ProceedTypes ==
  ASSUME StepsBounded, TypesInv, NEW a \in acts, Proceed(a)
  PROVE  /\ templates' \subseteq Templates /\ currentStep' \in [Runs -> Nat]
         /\ \A r \in Runs : CurrentInv(r)'
<1>1. /\ a.run \in Runs /\ a.step \in Steps /\ Known(a.run) /\ a.step < Length(a.run)
      /\ workflows[runOf[a.run]] \in StepInputs
  BY DEF TypesInv, WorkflowInv, RunsType, RunsInv, ActInv
<1>2. a.step \in Nat /\ Length(a.run) \in Nat
  <2>1. a.step \in Nat
    BY <1>1, StepNumbers
  <2>2. \A s \in StepInputs : Len(s) \in Nat
    BY LenProperties DEF StepsBounded
  <2> QED
    BY <1>1, <2>1, <2>2 DEF Length
<1>3. a.step <= Length(a.run) /\ Length(a.run) <= Length(a.run)
  BY <1>1, <1>2, SMT
<1>4. /\ UNCHANGED <<templates, workflows, runOf>>
      /\ \/ runStatus' = runStatus
         \/ \E s \in {"running", "succeeded", "failed"} : runStatus' = [runStatus EXCEPT ![a.run] = s]
      /\ \/ currentStep' = currentStep
         \/ \E n \in {a.step, Length(a.run)} : currentStep' = [currentStep EXCEPT ![a.run] = n]
  BY DEF Proceed, ReadRun, EnqueueStep, Register, Succeed, FailRun, runVars, Length
<1>5. \A r \in Runs : Known(r)' <=> Known(r)
  BY <1>1, <1>4 DEF TypesInv, WorkflowInv, RunsType, Known
<1>6. currentStep \in [Runs -> Nat]
  BY DEF TypesInv
<1>7. /\ currentStep' \in [Runs -> Nat] /\ (currentStep'[a.run] = currentStep[a.run] \/ currentStep'[a.run] <= Length(a.run))
      /\ \A r \in Runs : r # a.run => currentStep'[r] = currentStep[r]
  BY <1>1, <1>2, <1>3, <1>4, <1>6
<1>8. ASSUME NEW r \in Runs PROVE CurrentInv(r)'
  <2>1. CurrentInv(r) /\ Length(r)' = Length(r)
    BY <1>4 DEF TypesInv, Length
  <2>2. CASE r = a.run
    BY <1>1, <1>4, <1>5, <1>7, <2>1, <2>2 DEF CurrentInv
  <2>3. CASE r # a.run
    BY <1>4, <1>5, <1>7, <2>1, <2>3 DEF CurrentInv
  <2> QED
    BY <2>2, <2>3
<1> QED
  BY <1>4, <1>7, <1>8 DEF TypesInv

LEMMA TypesStep == StepsBounded /\ TypesInv /\ [Next]_vars => TypesInv'
<1> SUFFICES ASSUME StepsBounded, TypesInv, [Next]_vars PROVE TypesInv'
  OBVIOUS
<1>1. WorkflowInv'
  BY InvStep DEF TypesInv
<1>2. ASSUME NEW a \in acts, Proceed(a) PROVE TypesInv'
  BY <1>1, <1>2, ProceedTypes DEF TypesInv
<1>3. ASSUME NEW w \in Workflows, NEW s \in StepInputs, Create(w, s) PROVE TypesInv'
  <2>1. /\ UNCHANGED <<templates, runStatus, runOf, currentStep>> /\ workflows[w] = <<>>
        /\ workflows' = [workflows EXCEPT ![w] = s]
    BY <1>3 DEF Create, runVars
  <2>2. ASSUME NEW r \in Runs PROVE CurrentInv(r)'
    <3>1. CurrentInv(r) /\ (Known(r)' <=> Known(r))
      BY <2>1 DEF TypesInv, Known
    <3>2. Known(r) => Length(r)' = Length(r)
      <4> SUFFICES ASSUME Known(r) PROVE workflows'[runOf'[r]] = workflows[runOf[r]]
        BY DEF Length
      <4>1. runOf[r] \in Workflows /\ runOf[r] # w
        BY <2>1 DEF TypesInv, WorkflowInv, RunsInv
      <4> QED
        BY <2>1, <4>1 DEF TypesInv, WorkflowInv, RunsType
    <3> QED
      BY <2>1, <3>1, <3>2 DEF CurrentInv
  <2> QED
    BY <1>1, <2>1, <2>2 DEF TypesInv
<1>4. ASSUME NEW q \in Runs, NEW w \in Workflows, Launch(q, w) PROVE TypesInv'
  <2>1. /\ UNCHANGED <<templates, workflows, currentStep>> /\ ~Known(q)
        /\ runStatus' = [runStatus EXCEPT ![q] = "pending"] /\ runOf' = [runOf EXCEPT ![q] = w]
    BY <1>4 DEF Launch, Known
  <2>2. /\ runStatus'[q] = "pending" /\ \A r \in Runs : r # q => runStatus'[r] = runStatus[r]
        /\ runOf'[q] = w /\ \A r \in Runs : r # q => runOf'[r] = runOf[r]
    BY <2>1 DEF TypesInv, WorkflowInv, RunsType
  <2>3. CurrentInv(q)'
    <3>1. currentStep'[q] = 0 /\ Known(q)'
      BY <2>1, <2>2 DEF TypesInv, CurrentInv, Known
    <3>2. workflows'[runOf'[q]] \in StepInputs
      BY <1>1, <3>1 DEF WorkflowInv, RunsInv
    <3>3. \A s \in StepInputs : 0 <= Len(s)
      <4>1. \A s \in StepInputs : Len(s) \in Nat
        BY LenProperties DEF StepsBounded
      <4>2. \A n \in Nat : 0 <= n
        BY SMT
      <4> QED
        BY <4>1, <4>2
    <3> QED
      BY <3>1, <3>2, <3>3 DEF CurrentInv, Length
  <2>4. ASSUME NEW r \in Runs, r # q PROVE CurrentInv(r)'
    BY <2>1, <2>2, <2>4 DEF TypesInv, CurrentInv, Known, Length
  <2> QED
    BY <1>1, <2>1, <2>3, <2>4 DEF TypesInv
<1>5. ASSUME UNCHANGED <<workflows, runVars>>, templates' \subseteq templates PROVE TypesInv'
  BY <1>1, <1>5 DEF TypesInv, CurrentInv, Known, Length, runVars
<1>6. CASE Queue \/ UNCHANGED vars
  BY <1>5, <1>6 DEF Queue, Work, OnWorkerJob, OnJob, vars
<1>7. CASE \/ \E t \in templates : DeleteTemplate(t)
           \/ \E j \in JobIds : CancelJob(j) \/ FailJob(j)
  BY <1>5, <1>7 DEF DeleteTemplate, CancelJob, FailJob
<1> QED
  BY <1>2, <1>3, <1>4, <1>6, <1>7 DEF Next, Activity, Operator, Idle

\* WorkflowStore keeps every variable in its type; the current step of a run
\* never passes the number of its steps.
THEOREM RunsTyped == StepsBounded /\ Spec => []TypeOK
<1> SUFFICES ASSUME StepsBounded PROVE Spec => []TypeOK
  OBVIOUS
<1>1. Init => TypesInv
  BY TypesInit
<1>2. TypesInv /\ [Next]_vars => TypesInv'
  BY TypesStep
<1>3. TypesInv => TypeOK
  BY DEF TypesInv, WorkflowInv, RunsType, CurrentInv, Length, TypeOK
<1> QED
  BY <1>1, <1>2, <1>3, PTL DEF Spec

=============================================================================
