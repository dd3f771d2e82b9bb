------------------------------- MODULE GitOps --------------------------------
(***************************************************************************)
(* The GitOps endpoints: previews of branches (gitops_preview.go),         *)
(* materialised environments (gitops_environments.go), deployment triggers *)
(* (deployments.go), file synchronisation (filesync.go), reviews of pull   *)
(* requests (gitops_pr_review.go), all of internal/control, with their     *)
(* handlers, the reconcile handler and the signed plan artifacts of        *)
(* internal/server and internal/policy.                                    *)
(*                                                                         *)
(* A handler that also asks the queue for a job, or works on files, does   *)
(* so between critical sections of its store; the steps of two callers     *)
(* interleave there.  The variable kind says which part is at work.        *)
(***************************************************************************)
EXTENDS Integers, Sequences, FiniteSets

CONSTANTS
  Callers,
  TTLs, DefaultTTL, MaxTTL,  \* inputs for ttl_seconds, 0 is a missing one
  Names, Branches, Paths,    \* environments, branches and paths of files
  Files, MaxVersion,         \* files of a staging directory, and the versions they have
  MaxEdits,                  \* bound on the edits of a configuration
  Gates, Plans,              \* inputs of UpsertGate and of Evaluate
  MaxDrift,                  \* what a check may find, and the inputs for max_drift_items
  Keys,                      \* key pairs
  MaxItems, MaxWait, MaxClock

VARIABLES
  kind,
  clock,
  items,    \* what the store of this kind holds
  jobs,     \* the queue: key -> number of the job
  files,    \* the files the handlers read and write
  pc,
  past      \* history: what is no longer to be seen in the stores, see the properties

vars == <<kind, clock, items, jobs, files, pc, past>>

Idle == [at |-> "idle"]
Nows == {t \in 0..clock : clock - t <= MaxWait}   \* what a caller that holds a mutex may have read
Put(f, k, v) == [x \in DOMAIN f \cup {k} |-> IF x = k THEN v ELSE f[x]]
Nothing == [x \in {} |-> 0]
Goto(c, next) == pc' = [pc EXCEPT ![c] = next]

-----------------------------------------------------------------------------
(* What the stores hold, and what they hold at first *)

PreviewStatuses == {"active", "expired", "promoted", "closed"}
GitOpsPreviews == [status : PreviewStatuses, digest : {"", "digest"}, job : Nat, expires : Nat]
GitOpsEnvironments == [path : Paths, sha : Names \X Branches \X (0..MaxEdits), job : Nat]
DeploymentTriggers == [key : Names \X Branches \X Paths, source : {"api", "webhook", "cli"}, job : Nat]
FileSyncPipelines == [synced : 0..Cardinality(Files)]
GitOpsApprovalGates ==
  [env : Names, min : 1..10, checks : SUBSET {"ci", "lint"}, reviewers : SUBSET {"lead"},
   block : SUBSET {"low", "medium", "high", "critical"}]
Bundles == [path : Paths, sha : 0..MaxEdits, signature : Keys \X Paths \X (0..MaxEdits)]

NewGitOpsPreviewStore == <<>>
NewGitOpsEnvironmentStore == Nothing
NewDeploymentStore == <<>>
NewFileSyncStore == <<>>
NewGitOpsPRReviewStore == Nothing

Init ==
  /\ kind \in {"previews", "environments", "deployments", "filesync", "reviews", "reconcile", "artifacts"}
  /\ clock = 0 /\ jobs = Nothing /\ past = {}
  /\ items = CASE kind = "previews" -> NewGitOpsPreviewStore
               [] kind = "environments" -> NewGitOpsEnvironmentStore
               [] kind = "deployments" -> NewDeploymentStore
               [] kind = "filesync" -> NewFileSyncStore
               [] kind = "reviews" -> NewGitOpsPRReviewStore
               [] OTHER -> {}
  /\ files = CASE kind = "environments" -> [source |-> 0, out |-> [p \in Paths |-> <<>>]]
               [] kind = "filesync" -> [staging |-> [f \in Files |-> 1], live |-> Nothing]
               [] OTHER -> 0
  /\ pc = [c \in Callers |-> Idle]

Tick ==
  /\ kind = "previews" /\ clock < MaxClock
  /\ clock' = clock + 1
  /\ UNCHANGED <<kind, items, jobs, files, pc, past>>

\* Queue.Enqueue: one job for a key, for good; a key that is new may be refused.
Enqueue(key) == jobs' = IF key \in DOMAIN jobs THEN jobs ELSE Put(jobs, key, Cardinality(DOMAIN jobs) + 1)
Refused(key) == key \notin DOMAIN jobs /\ UNCHANGED jobs

-----------------------------------------------------------------------------
(* Previews of branches *)

isValidArtifactDigest(digest) == digest = "digest"

lifetime(ttl) == IF ttl <= 0 THEN DefaultTTL ELSE IF ttl > MaxTTL THEN MaxTTL ELSE ttl

CreatePreview(ttl, digest, now) ==
  /\ digest # "" => isValidArtifactDigest(digest)
  /\ items' = Append(items, [status |-> "active", digest |-> digest, job |-> 0, expires |-> now + lifetime(ttl)])

AttachJob(i, job) == items' = [items EXCEPT ![i].job = job]

SetStatus(i, status) == items' = [items EXCEPT ![i].status = status]

\* List marks the previews that are past their time.
ListPreviews(now) ==
  items' = [i \in DOMAIN items |->
              IF items[i].status = "active" /\ now > items[i].expires THEN [items[i] EXCEPT !.status = "expired"] ELSE items[i]]

\* A preview is stored before the queue is asked, with its own identifier as the key.
handleGitOpsPreviews(c) ==
  /\ kind = "previews"
  /\ \/ /\ pc[c] = Idle /\ Len(items) < MaxItems
        /\ \E ttl \in TTLs, digest \in {"", "digest", "tag"}, now \in Nows : CreatePreview(ttl, digest, now)
        /\ Goto(c, [at |-> "enqueue", item |-> Len(items) + 1])
        /\ UNCHANGED jobs
     \/ /\ pc[c].at = "enqueue" /\ Enqueue(pc[c].item)
        /\ Goto(c, [at |-> "attach", item |-> pc[c].item, job |-> jobs'[pc[c].item]])
        /\ UNCHANGED items
     \/ pc[c].at = "enqueue" /\ Refused(pc[c].item) /\ Goto(c, Idle) /\ UNCHANGED items
     \/ pc[c].at = "attach" /\ AttachJob(pc[c].item, pc[c].job) /\ Goto(c, Idle) /\ UNCHANGED jobs
     \/ (\E now \in Nows : ListPreviews(now)) /\ UNCHANGED <<pc, jobs>>
  /\ UNCHANGED <<kind, clock, files, past>>

\* Whatever the preview is now.
handleGitOpsPreviewAction ==
  /\ kind = "previews"
  /\ \E i \in DOMAIN items, status \in {"promoted", "closed"} : SetStatus(i, status)
  /\ UNCHANGED <<kind, clock, jobs, files, pc, past>>

-----------------------------------------------------------------------------
(* Environments of branches, written to a file *)

EditSource ==
  /\ kind = "environments" /\ files.source < MaxEdits
  /\ files' = [files EXCEPT !.source = @ + 1]
  /\ UNCHANGED <<kind, clock, items, jobs, pc, past>>

UpsertEnvironment(name, path, sha, job) == items' = Put(items, name, [path |-> path, sha |-> sha, job |-> job])

Writers(path) == {c \in Callers : pc[c] # Idle /\ pc[c].path = path}

\* The source is read; the header names the environment and the branch.
Materialize(c, name, branch, path, enqueue) ==
  /\ pc[c] = Idle
  /\ Goto(c, [at |-> "truncate", name |-> name, path |-> path, content |-> <<name, branch, files.source>>,
              enqueue |-> enqueue, job |-> 0])
  /\ past' = IF Writers(path) = {} THEN past ELSE past \cup {path}
  /\ UNCHANGED <<items, jobs, files>>

\* WriteFile empties the file and writes; over what another caller has written since, the two may mix.
WriteFile(c) ==
  LET path == pc[c].path IN
  /\ \/ /\ pc[c].at = "truncate" /\ Goto(c, [pc[c] EXCEPT !.at = "write"])
        /\ files' = [files EXCEPT !.out[path] = <<>>]
     \/ /\ pc[c].at = "write" /\ Goto(c, [pc[c] EXCEPT !.at = IF pc[c].enqueue THEN "enqueue" ELSE "upsert"])
        /\ \E written \in {pc[c].content} \cup (IF files.out[path] = <<>> THEN {} ELSE {<<"mixed">>}) :
             files' = [files EXCEPT !.out[path] = written]
  /\ UNCHANGED <<items, jobs, past>>

\* The job has the environment and the branch for a key; when it is refused nothing is stored.
EnqueueEnvironment(c) ==
  LET key == <<pc[c].content[1], pc[c].content[2]>> IN
  /\ pc[c].at = "enqueue"
  /\ \/ Enqueue(key) /\ Goto(c, [pc[c] EXCEPT !.at = "upsert", !.job = jobs'[key]]) /\ UNCHANGED past
     \/ Refused(key) /\ Goto(c, Idle) /\ past' = past \cup {pc[c].path}
  /\ UNCHANGED <<items, files>>

\* The digest stored is that of what the handler has written.
StoreEnvironment(c) ==
  /\ pc[c].at = "upsert"
  /\ UpsertEnvironment(pc[c].name, pc[c].path, pc[c].content, pc[c].job)
  /\ Goto(c, Idle)
  /\ UNCHANGED <<jobs, files, past>>

handleGitOpsEnvironments(c) ==
  /\ kind = "environments"
  /\ \/ \E name \in Names, branch \in Branches, path \in Paths, enqueue \in BOOLEAN : Materialize(c, name, branch, path, enqueue)
     \/ WriteFile(c) \/ EnqueueEnvironment(c) \/ StoreEnvironment(c)
  /\ UNCHANGED <<kind, clock>>

-----------------------------------------------------------------------------
(* Deployments *)

\* The source is looked at here, after the job has been queued.
CreateDeployment(key, source, job) ==
  /\ source \in {"api", "webhook", "cli"}
  /\ items' = Append(items, [key |-> key, source |-> source, job |-> job])

handleGitOpsDeployments(c) ==
  /\ kind = "deployments"
  /\ \/ /\ pc[c] = Idle /\ Len(items) < MaxItems
        /\ \E key \in Names \X Branches \X Paths, source \in {"", "webhook", "other"} :
             /\ Enqueue(key)
             /\ Goto(c, [at |-> "create", key |-> key, source |-> IF source = "" THEN "api" ELSE source, job |-> jobs'[key]])
        /\ UNCHANGED <<items, past>>
     \/ /\ pc[c].at = "create" /\ Goto(c, Idle) /\ UNCHANGED jobs
        /\ \/ CreateDeployment(pc[c].key, pc[c].source, pc[c].job) /\ UNCHANGED past
           \/ pc[c].source = "other" /\ past' = past \cup {pc[c].key} /\ UNCHANGED items
  /\ UNCHANGED <<kind, clock, files>>

-----------------------------------------------------------------------------
(* Staging directories copied to live ones *)

\* Somebody edits or removes a file; version 0 is one that is not there.
EditStaging ==
  /\ kind = "filesync"
  /\ \E f \in Files, version \in 0..MaxVersion :
       /\ files.staging[f] # 0 /\ (version = 0 \/ version > files.staging[f])
       /\ files' = [files EXCEPT !.staging[f] = version]
  /\ pc' = [c \in Callers |-> IF pc[c] = Idle THEN Idle ELSE [pc[c] EXCEPT !.alone = FALSE]]
  /\ UNCHANGED <<kind, clock, items, jobs, past>>

CreatePipeline == items' = Append(items, [synced |-> 0])

handleGitOpsFileSyncPipelines ==
  /\ kind = "filesync" /\ Len(items) < 1
  /\ CreatePipeline
  /\ UNCHANGED <<kind, clock, jobs, files, pc, past>>

\* The walk has the names of the directory before it copies the first file.
BeginSync(c) ==
  /\ pc[c] = Idle /\ items # <<>>
  /\ pc' = [d \in Callers |->
              IF d = c THEN [at |-> "copy", todo |-> {f \in Files : files.staging[f] # 0}, synced |-> 0,
                             alone |-> \A other \in Callers : pc[other] = Idle]
              ELSE IF pc[d] = Idle THEN Idle ELSE [pc[d] EXCEPT !.alone = FALSE]]
  /\ UNCHANGED <<items, files>>

\* A file is opened and its target emptied; one that is gone ends the run with an error.
copyFile(c, f) ==
  /\ pc[c].at = "copy" /\ f \in pc[c].todo /\ \A g \in pc[c].todo : f <= g
  /\ IF files.staging[f] = 0 THEN Goto(c, Idle) /\ UNCHANGED files
     ELSE /\ Goto(c, [at |-> "write", todo |-> pc[c].todo \ {f}, synced |-> pc[c].synced, alone |-> pc[c].alone,
                      file |-> f, version |-> files.staging[f]])
          /\ files' = [files EXCEPT !.live = Put(@, f, 0)]
  /\ UNCHANGED items

syncTree(c) ==
  \/ \E f \in Files : copyFile(c, f)
  \/ /\ pc[c].at = "write"
     /\ Goto(c, [at |-> "copy", todo |-> pc[c].todo, synced |-> pc[c].synced + 1, alone |-> pc[c].alone])
     /\ files' = [files EXCEPT !.live[pc[c].file] = pc[c].version]
     /\ UNCHANGED items

\* What the run has copied is noted under the lock.
EndSync(c) ==
  /\ pc[c].at = "copy" /\ pc[c].todo = {}
  /\ items' = [items EXCEPT ![1].synced = pc[c].synced]
  /\ Goto(c, Idle)
  /\ UNCHANGED files

handleGitOpsFileSyncPipelineAction(c) ==
  /\ kind = "filesync"
  /\ BeginSync(c) \/ syncTree(c) \/ EndSync(c)
  /\ UNCHANGED <<kind, clock, jobs, past>>

-----------------------------------------------------------------------------
(* Reviews of pull requests *)

normalizePRRiskLevel(level) == IF level \in {"low", "medium", "high", "critical"} THEN level ELSE ""

normalizeRiskLevels(levels) ==
  LET known == {normalizePRRiskLevel(l) : l \in levels} \ {""} IN IF known = {} THEN {"high", "critical"} ELSE known

\* The gate of an identifier, which is a new one when none is given.
UpsertGate(id, in) ==
  /\ in.min <= 10
  /\ items' = Put(items, IF id = 0 THEN Cardinality(DOMAIN items) + 1 ELSE id,
                  [env |-> in.env, min |-> IF in.min <= 0 THEN 1 ELSE in.min, checks |-> in.checks, reviewers |-> in.reviewers,
                   block |-> normalizeRiskLevels(in.block)])

\* The gates an evaluation may go by: the one named, or whichever of its environment the map gives first.
resolveGate(id, env) == IF id # 0 THEN {id} \cap DOMAIN items ELSE {g \in DOMAIN items : items[g].env = env}

missingStrings(required, actual) == required \ actual

Passes(gate, in) ==
  LET risk == IF normalizePRRiskLevel(in.risk) = "" THEN "medium" ELSE normalizePRRiskLevel(in.risk) IN
  /\ in.approvals >= gate.min + (IF risk \in gate.block THEN 1 ELSE 0)
  /\ missingStrings(gate.checks, in.checks) = {}
  /\ missingStrings(gate.reviewers, in.reviewers) = {}

\* Without a gate everything is allowed.
Evaluate(id, in) ==
  LET gates == resolveGate(id, IF in.env = "" THEN "prod" ELSE in.env) IN
  IF gates = {} THEN {[gate |-> 0, allowed |-> TRUE]}
  ELSE {[gate |-> g, allowed |-> Passes(items[g], in)] : g \in gates}

handleGitOpsApprovalGates ==
  /\ kind = "reviews"
  /\ \E in \in Gates, id \in {0} \cup DOMAIN items :
       (id = 0 => Cardinality(DOMAIN items) < MaxItems) /\ UpsertGate(id, in)
  /\ past' = {}
  /\ UNCHANGED <<kind, clock, jobs, files, pc>>

\* The answer is kept in past until a gate changes.
handleGitOpsApprovalGateEvaluate ==
  /\ kind = "reviews" /\ Cardinality(past) < MaxItems
  /\ \E id \in {0} \cup 1..MaxItems, in \in Plans : \E answer \in Evaluate(id, in) :
       past' = past \cup {[id |-> id, in |-> in, gate |-> answer.gate, allowed |-> answer.allowed]}
  /\ UNCHANGED <<kind, clock, items, jobs, files, pc>>

-----------------------------------------------------------------------------
(* Reconciling a branch *)

\* What a check would find changes with the hosts.
Drift ==
  /\ kind = "reconcile"
  /\ \E found \in 0..MaxDrift : found # files /\ files' = found
  /\ UNCHANGED <<kind, clock, items, jobs, pc, past>>

wouldReconcile(found, max) == found # 0 /\ (max > 0 => found <= max)

\* The drift is found first, and a job asked for when it is within the guardrail.
handleGitOpsReconcile(c) ==
  /\ kind = "reconcile"
  /\ \/ /\ pc[c] = Idle
        /\ \E branch \in Branches, path \in Paths, max \in 0..MaxDrift, enqueue \in BOOLEAN :
             IF wouldReconcile(files, max) /\ enqueue
             THEN Goto(c, [at |-> "enqueue", key |-> <<branch, path>>, found |-> files, max |-> max]) ELSE UNCHANGED pc
        /\ UNCHANGED <<jobs, past>>
     \/ /\ pc[c].at = "enqueue" /\ Goto(c, Idle)
        /\ \/ /\ Enqueue(pc[c].key)
              /\ past' = IF pc[c].key \in DOMAIN jobs THEN past ELSE past \cup {<<pc[c].key, pc[c].found, pc[c].max>>}
           \/ Refused(pc[c].key) /\ UNCHANGED past
  /\ UNCHANGED <<kind, clock, items, files>>

-----------------------------------------------------------------------------
(* Signed plan artifacts *)

EditConfig ==
  /\ kind = "artifacts" /\ files < MaxEdits
  /\ files' = files + 1
  /\ UNCHANGED <<kind, clock, items, jobs, pc, past>>

\* The digest is that of the file now; a signature is of the path and the digest, with a key.
Build(path) == [path |-> path, sha |-> files]
Sign(bundle, key) == [path |-> bundle.path, sha |-> bundle.sha, signature |-> <<key, bundle.path, bundle.sha>>]
Verify(bundle, key) == bundle.signature = <<key, bundle.path, bundle.sha>>

handleGitOpsPlanArtifactSign ==
  /\ kind = "artifacts"
  /\ \E path \in Paths, key \in Keys : items' = items \cup {Sign(Build(path), key)}
  /\ UNCHANGED <<kind, clock, jobs, files, pc, past>>

\* A client hands in a bundle, whose fields may have been changed since it was signed.
handleGitOpsPlanArtifactVerify ==
  /\ kind = "artifacts"
  /\ \E b \in items, path \in Paths, sha \in 0..MaxEdits, key \in Keys :
       LET bundle == [b EXCEPT !.path = path, !.sha = sha] IN
       Verify(bundle, key) /\ past' = past \cup {<<bundle, key>>}
  /\ UNCHANGED <<kind, clock, items, jobs, files, pc>>

-----------------------------------------------------------------------------

Next ==
  \/ Tick \/ EditSource \/ EditStaging \/ Drift \/ EditConfig
  \/ handleGitOpsPreviewAction \/ handleGitOpsFileSyncPipelines
  \/ handleGitOpsApprovalGates \/ handleGitOpsApprovalGateEvaluate
  \/ handleGitOpsPlanArtifactSign \/ handleGitOpsPlanArtifactVerify
  \/ \E c \in Callers :
       \/ handleGitOpsPreviews(c) \/ handleGitOpsEnvironments(c) \/ handleGitOpsDeployments(c)
       \/ handleGitOpsFileSyncPipelineAction(c) \/ handleGitOpsReconcile(c)

Spec == Init /\ [][Next]_vars

-----------------------------------------------------------------------------
(* Properties *)

\* The type of every variable.
TypeOK ==
  /\ clock \in 0..MaxClock
  /\ kind \notin {"reconcile", "artifacts"} => \A i \in DOMAIN items :
       CASE kind = "previews" -> items[i] \in GitOpsPreviews
         [] kind = "environments" -> items[i] \in GitOpsEnvironments
         [] kind = "deployments" -> items[i] \in DeploymentTriggers
         [] kind = "filesync" -> items[i] \in FileSyncPipelines
         [] kind = "reviews" -> items[i] \in GitOpsApprovalGates
  /\ kind = "artifacts" => items \subseteq Bundles

\* What is stored agrees with the queue and with the files.  A preview has a job
\* of its own or none; a deployment has the job of its key, and a job has a
\* deployment unless the source was refused after it was queued; of the file an
\* environment was written to some environment has the digest, unless two
\* callers have written it at a time or the queue has refused the job; and the
\* job of a branch to reconcile was queued for a drift within the guardrail.
StoredAgrees ==
  /\ kind = "previews" => \A i \in DOMAIN items :
       items[i].job # 0 => items[i].job = jobs[i] /\ \A j \in DOMAIN items \ {i} : items[j].job # items[i].job
  /\ kind = "environments" => \A p \in Paths \ past :
       files.out[p] # <<>> /\ Writers(p) = {} => \E e \in DOMAIN items : items[e].path = p /\ items[e].sha = files.out[p]
  /\ kind = "deployments" =>
       /\ \A i \in DOMAIN items : items[i].job = jobs[items[i].key]
       /\ \A key \in DOMAIN jobs \ past :
            \/ \E i \in DOMAIN items : items[i].key = key
            \/ \E c \in Callers : pc[c] # Idle /\ pc[c].key = key
  /\ kind = "reconcile" => \A key \in DOMAIN jobs : \E e \in past :
       e[1] = key /\ e[2] > 0 /\ (e[3] > 0 => e[2] <= e[3])

\* As long as no gate changes, what was allowed stays allowed with more
\* approvals, checks and reviewers, at the same risk or one the gate does not
\* block; a plan that no gate has looked at names a gate that is not there or an
\* environment that has none; and two evaluations of one plan differ only where
\* two gates are for one environment.
ReviewsSound ==
  kind = "reviews" => \A a, b \in past :
    /\ a.gate = b.gate /\ a.gate # 0 /\ a.allowed /\ a.in.approvals <= b.in.approvals
       /\ a.in.checks \subseteq b.in.checks /\ a.in.reviewers \subseteq b.in.reviewers
       /\ (a.in.risk = b.in.risk \/ b.in.risk \in {"low", "medium", "high", "critical"} \ items[b.gate].block) => b.allowed
    /\ a.gate = 0 => IF a.id # 0 THEN a.id \notin DOMAIN items
                     ELSE \A g \in DOMAIN items : items[g].env # (IF a.in.env = "" THEN "prod" ELSE a.in.env)
    /\ a.id = b.id /\ a.in = b.in /\ a.allowed # b.allowed =>
         \E g, h \in DOMAIN items : g # h /\ items[g].env = items[h].env

\* A bundle that has been found verified was signed, with that key, with the path
\* and the digest it has, whatever has become of the file since.
VerifiedWasSigned == kind = "artifacts" => \A v \in past : v[1] \in items /\ v[1].signature[1] = v[2]

\* A preview that is no longer active never is again, one expires only after its
\* time and neither a promoted nor a closed one expires.
PreviewStep ==
  kind = "previews" => \A i \in DOMAIN items :
    /\ items[i].status # "active" => items'[i].status # "active"
    /\ items[i].status # items'[i].status /\ items'[i].status = "expired" => items[i].status = "active" /\ clock > items[i].expires
PreviewsEnd == [][PreviewStep]_vars

\* A run of the file synchronisation that ends without another run or an edit in
\* between leaves every file of the staging directory in the live one as it is,
\* and has counted them.
SyncStep ==
  kind = "filesync" => \A c \in Callers :
    (pc[c] # Idle /\ pc'[c] = Idle /\ pc[c].alone) =>
      /\ \A f \in Files : files.staging[f] # 0 => f \in DOMAIN files.live /\ files.live[f] = files.staging[f]
      /\ items'[1].synced = Cardinality({f \in Files : files.staging[f] # 0})
SyncComplete == [][SyncStep]_vars
=============================================================================
