----------------------------- MODULE LocksProofs -----------------------------
(***************************************************************************)
(* Execution locks keep conflicting jobs apart, for any number of keys,    *)
(* jobs and concurrent requests, as long as no lock lapses, no operator    *)
(* releases one or fails a job, and no idempotency key is used twice.  The *)
(* jobs may be canceled at any time.                                       *)
(***************************************************************************)
EXTENDS ExecutionLocks, FiniteSetTheorems, TLAPS

\* Zenon proves a leaf unless the leaf names another prover.
USE Zenon

Quiet ==
  /\ NoJob \notin JobIds /\ NoKey \notin Keys
  /\ Ops \subseteq {"acquire", "cancel", "cleanup"}

-----------------------------------------------------------------------------
(* The inductive invariant *)

JobsType ==
  /\ status \in [JobIds -> {"absent", "pending", "running", "succeeded", "failed", "canceled"}]
  /\ phase \in [JobIds -> {"none", "queued", "taken", "applying", "announcing", "over"}]
  /\ notices \in [JobIds -> [{"failed", "canceled"} -> Nat]]

\* A subscriber is told only of jobs that have ended, and an ended job stays so.
JobInv(j) ==
  /\ notices[j]["failed"] = 0
  /\ notices[j]["canceled"] > 0 => status[j] = "canceled"
  /\ status[j] = "absent" => phase[j] = "none"
  /\ status[j] \in {"succeeded", "failed"} => phase[j] \in {"announcing", "over"}
  /\ phase[j] = "announcing" => status[j] \in {"succeeded", "failed"}

StoreType ==
  /\ nextID \in Nat
  /\ byKey \in [Keys -> [id : Nat, job : JobIds \cup {NoJob}, status : {"active", "released"}, lapsed : {FALSE}]]
  /\ byJob \in [JobIds -> Keys \cup {NoKey}]
  /\ granted \in [JobIds -> SUBSET Keys]
  /\ req \in [Clients -> [at : {"idle", "acquired", "enqueued", "unwind"},
                          key : Keys \cup {NoKey}, job : JobIds \cup {NoJob}]]

\* A key's lock is the store's entry, bound to the job that byJob names.
KeyInv(k) ==
  /\ byKey[k].status = "released" => byKey[k] = NoLock
  /\ byKey[k].job # NoJob => byJob[byKey[k].job] = k

\* A job has at most the lock it was granted, and keeps it until it ends.
GrantInv(j) ==
  /\ byJob[j] # NoKey => byKey[byJob[j]].job = j
  /\ status[j] = "absent" => granted[j] = {} /\ byJob[j] = NoKey
  /\ ~Ended(j) => \A k \in granted[j] : byKey[k].job = j

Pursues(c) == req[c].at # "idle"

\* A request under way has an unbound lock, and its job has none yet.
RequestInv(c) ==
  /\ Pursues(c) => /\ req[c].key \in Keys
                   /\ byKey[req[c].key].status = "active" /\ byKey[req[c].key].job = NoJob
  /\ req[c].at \in {"acquired", "unwind"} => req[c].job = NoJob
  /\ req[c].at = "enqueued" => /\ req[c].job \in JobIds /\ status[req[c].job] # "absent"
                               /\ granted[req[c].job] = {} /\ byJob[req[c].job] = NoKey

\* No two requests have the same lock or the same job.
Apart(c, d) ==
  Pursues(c) /\ Pursues(d) =>
    /\ req[c].key # req[d].key
    /\ req[c].at = "enqueued" /\ req[d].at = "enqueued" => req[c].job # req[d].job

LockInv ==
  /\ JobsType /\ StoreType
  /\ \A j \in JobIds : JobInv(j) /\ GrantInv(j)
  /\ \A k \in Keys : KeyInv(k)
  /\ \A c \in Clients : RequestInv(c) /\ \A d \in Clients : c # d => Apart(c, d)

-----------------------------------------------------------------------------
(* The jobs *)

\* A step of the life of job j that the quiet operators leave possible.
JobStep(j) ==
  \/ Jobs!Submit(j) \/ Jobs!Cancel(j) \/ Jobs!Work(j) \/ Jobs!Announce(j)
  \/ \E s \in Jobs!ByCaller : Jobs!Deliver(j, s)

JobsGrow ==
  \A j \in JobIds : /\ status[j] # "absent" => status'[j] # "absent"
                    /\ Ended(j) => Ended(j)'

JobsInv == JobsType /\ \A j \in JobIds : JobInv(j)

\* Job j gets status s and phase p, without a notification.
LEMMA ChangesInv ==
  ASSUME JobsInv, NEW j \in JobIds,
         NEW s \in {"pending", "running", "succeeded", "failed", "canceled"},
         NEW p \in {"queued", "taken", "applying", "announcing", "over"},
         Jobs!Changes(j, s, p), UNCHANGED notices,
         Ended(j) => s \in {"succeeded", "failed", "canceled"},
         notices[j]["canceled"] > 0 => s = "canceled",
         s \in {"succeeded", "failed"} => p \in {"announcing", "over"},
         p = "announcing" => s \in {"succeeded", "failed"}
  PROVE  JobsInv' /\ JobsGrow
<1>1. /\ status'[j] = s /\ phase'[j] = p
      /\ \A i \in JobIds : i # j => status'[i] = status[i] /\ phase'[i] = phase[i]
  BY DEF Jobs!Changes, JobsInv, JobsType
<1>2. JobsType'
  BY DEF Jobs!Changes, JobsInv, JobsType
<1>3. ASSUME NEW i \in JobIds PROVE JobInv(i)'
  <2>1. CASE i = j
    BY <1>1, <2>1 DEF JobInv, JobsInv
  <2>2. CASE i # j
    BY <1>1, <2>2 DEF JobInv, JobsInv
  <2> QED
    BY <2>1, <2>2
<1>4. JobsGrow
  BY <1>1 DEF JobsGrow, Ended, Jobs!Final
<1> QED
  BY <1>2, <1>3, <1>4 DEF JobsInv

LEMMA JobStepInv ==
  ASSUME JobsInv, NEW j \in JobIds, JobStep(j)
  PROVE  JobsInv' /\ JobsGrow
<1>1. JobInv(j) /\ JobsType
  BY DEF JobsInv
<1>2. CASE Jobs!Submit(j)
  BY <1>1, <1>2, ChangesInv DEF Jobs!Submit, JobInv, JobsType, Ended, Jobs!Final
<1>3. CASE Jobs!Cancel(j)
  <2>1. /\ status'[j] = "canceled" /\ phase'[j] = phase[j]
        /\ status[j] \in {"pending", "running", "canceled"}
        /\ notices'[j]["failed"] = notices[j]["failed"]
        /\ \A i \in JobIds : i # j => /\ status'[i] = status[i] /\ phase'[i] = phase[i]
                                      /\ notices'[i] = notices[i]
    BY <1>1, <1>3 DEF Jobs!Cancel, Jobs!Changes, Jobs!Notify, JobsType
  <2>2. JobsType'
    BY <1>1, <1>3, SMT DEF Jobs!Cancel, Jobs!Changes, Jobs!Notify, JobsType
  <2>3. ASSUME NEW i \in JobIds PROVE JobInv(i)'
    <3>1. CASE i = j
      BY <1>1, <2>1, <3>1 DEF JobInv
    <3>2. CASE i # j
      BY <2>1, <3>2 DEF JobInv, JobsInv
    <3> QED
      BY <3>1, <3>2
  <2>4. JobsGrow
    BY <2>1 DEF JobsGrow, Ended, Jobs!Final
  <2> QED
    BY <2>2, <2>3, <2>4 DEF JobsInv
<1>4. CASE Jobs!Work(j)
  <2>1. CASE Jobs!Drop(j)
    BY <1>1, <2>1, ChangesInv DEF Jobs!Drop, JobInv, JobsType
  <2>2. CASE Jobs!Start(j)
    BY <1>1, <2>2, ChangesInv DEF Jobs!Start, JobInv, JobsType, Ended, Jobs!Final
  <2>3. CASE Jobs!Apply(j)
    <3>1. status[j] \in {"pending", "running", "succeeded", "failed", "canceled"}
      BY <1>1, <2>3 DEF Jobs!Apply, JobInv, JobsType
    <3>2. status[j] \notin {"succeeded", "failed"}
      BY <1>1, <2>3 DEF Jobs!Apply, JobInv
    <3>3. Jobs!Changes(j, status[j], "applying") /\ UNCHANGED notices
      BY <2>3 DEF Jobs!Apply
    <3>4. notices[j]["canceled"] > 0 => status[j] = "canceled"
      BY <1>1 DEF JobInv
    <3>5. Ended(j) => status[j] \in {"succeeded", "failed", "canceled"}
      BY DEF Ended, Jobs!Final
    <3> QED
      BY <3>1, <3>2, <3>3, <3>4, <3>5, ChangesInv
  <2>4. CASE Jobs!Finish(j)
    <3>1. CASE status[j] = "canceled"
      BY <1>1, <2>4, <3>1, ChangesInv DEF Jobs!Finish
    <3>2. CASE status[j] # "canceled"
      <4>1. PICK s \in {"succeeded", "failed"} : Jobs!Changes(j, s, "announcing") /\ UNCHANGED notices
        BY <2>4, <3>2 DEF Jobs!Finish
      <4>2. ~(notices[j]["canceled"] > 0)
        BY <1>1, <3>2 DEF JobInv
      <4> QED
        BY <4>1, <4>2, ChangesInv
    <3> QED
      BY <3>1, <3>2
  <2> QED
    BY <1>4, <2>1, <2>2, <2>3, <2>4 DEF Jobs!Work
<1>5. CASE Jobs!Announce(j)
  BY <1>1, <1>5, ChangesInv DEF Jobs!Announce, JobInv, JobsType
<1>6. ASSUME NEW s \in Jobs!ByCaller, Jobs!Deliver(j, s) PROVE JobsInv' /\ JobsGrow
  <2>1. UNCHANGED <<status, phase>> /\ s \in {"failed", "canceled"} /\ notices[j][s] > 0
    BY <1>6 DEF Jobs!Deliver, Jobs!ByCaller
  <2>2. s = "canceled"
    BY <1>1, <2>1, SMT DEF JobInv
  <2>3. /\ notices'[j]["failed"] = notices[j]["failed"]
        /\ notices'[j]["canceled"] = notices[j]["canceled"] - 1
        /\ \A i \in JobIds : i # j => notices'[i] = notices[i]
        /\ notices' \in [JobIds -> [{"failed", "canceled"} -> Nat]]
    BY <1>1, <1>6, <2>1, <2>2, SMT DEF Jobs!Deliver, JobsType
  <2>4. ASSUME NEW i \in JobIds PROVE JobInv(i)'
    <3>1. CASE i = j
      BY <1>1, <2>1, <2>2, <2>3, <3>1 DEF JobInv
    <3>2. CASE i # j
      BY <2>1, <2>3, <3>2 DEF JobInv, JobsInv
    <3> QED
      BY <3>1, <3>2
  <2> QED
    BY <2>1, <2>3, <2>4 DEF JobsInv, JobsType, JobsGrow, Ended
<1> QED
  BY <1>2, <1>3, <1>4, <1>5, <1>6 DEF JobStep

\* A subscriber is told only of a job that has ended.
LEMMA ToldEnded ==
  ASSUME JobsInv, NEW j \in JobIds, Told(j)
  PROVE  Ended(j) /\ JobStep(j)
<1>1. JobInv(j) /\ JobsType
  BY DEF JobsInv
<1>2. CASE Jobs!Announce(j)
  BY <1>1, <1>2 DEF Jobs!Announce, JobInv, Ended, Jobs!Final, JobStep
<1>3. ASSUME NEW s \in Jobs!ByCaller, Jobs!Deliver(j, s) PROVE Ended(j) /\ JobStep(j)
  <2>1. s \in {"failed", "canceled"} /\ notices[j][s] > 0
    BY <1>3 DEF Jobs!Deliver, Jobs!ByCaller
  <2>2. Ended(j)
    BY <1>1, <2>1, SMT DEF JobInv, Ended, Jobs!Final
  <2>3. JobStep(j)
    BY <1>3 DEF JobStep
  <2> QED
    BY <2>2, <2>3
<1> QED
  BY <1>2, <1>3 DEF Told

-----------------------------------------------------------------------------
(* The store and the requests *)

\* The jobs take a step and the locks are left alone.
LEMMA LocksKept ==
  ASSUME LockInv, JobsInv', JobsGrow, UNCHANGED <<nextID, byKey, byJob, req, granted>>
  PROVE  LockInv'
<1>1. StoreType' /\ \A k \in Keys : KeyInv(k)'
  BY DEF LockInv, StoreType, KeyInv
<1>2. ASSUME NEW j \in JobIds PROVE GrantInv(j)'
  BY DEF LockInv, GrantInv, JobsGrow
<1>3. ASSUME NEW c \in Clients PROVE RequestInv(c)'
  BY DEF LockInv, RequestInv, Pursues, JobsGrow
<1>4. ASSUME NEW c \in Clients, NEW d \in Clients, c # d PROVE Apart(c, d)'
  BY <1>4 DEF LockInv, Apart, Pursues
<1> QED
  BY <1>1, <1>2, <1>3, <1>4 DEF LockInv, JobsInv

LEMMA JobsQuiet ==
  ASSUME LockInv, UNCHANGED jobVars
  PROVE  JobsInv' /\ JobsGrow /\ (\A j \in JobIds : Ended(j)' <=> Ended(j)) /\ status' = status
  BY DEF LockInv, JobsInv, JobsType, JobInv, JobsGrow, Ended, jobVars

\* What a lock's fields can be.
LEMMA LockFields ==
  ASSUME LockInv, NEW k \in Keys
  PROVE  /\ byKey[k].status \in {"active", "released"} /\ ~byKey[k].lapsed
         /\ byKey[k].job \in JobIds \cup {NoJob}
         /\ byKey[k].status = "released" => byKey[k].job = NoJob
<1>1. byKey[k] \in [id : Nat, job : JobIds \cup {NoJob}, status : {"active", "released"}, lapsed : {FALSE}]
  BY DEF LockInv, StoreType
<1>2. byKey[k].status = "released" => byKey[k] = NoLock
  BY DEF LockInv, KeyInv
<1>3. byKey[k].lapsed \in {FALSE} /\ byKey[k].status \in {"active", "released"}
      /\ byKey[k].job \in JobIds \cup {NoJob}
  BY <1>1
<1>4. ~byKey[k].lapsed
  BY <1>3
<1>5. byKey[k].status = "released" => byKey[k].job = NoJob
  BY <1>2, SMT DEF NoLock
<1> QED
  BY <1>3, <1>4, <1>5

\* A lock is taken on a free key: nobody counted on it.
LEMMA AcquireInv ==
  ASSUME Quiet, LockInv, NEW k \in Keys, Acquire(k), UNCHANGED <<jobVars, granted>>,
         \/ req' = req
         \/ \E c \in Clients : /\ req[c].at = "idle"
                               /\ req' = [req EXCEPT ![c] = [at |-> "acquired", key |-> k, job |-> NoJob]]
  PROVE  LockInv'
<1>1. /\ byKey[k].status = "released" /\ byKey[k].job = NoJob
      /\ byKey'[k].status = "active" /\ byKey'[k].job = NoJob /\ byJob' = byJob
      /\ \A l \in Keys : l # k => byKey'[l] = byKey[l]
  BY LockFields DEF Acquire, Held, LockInv, StoreType
<1>2. JobsInv' /\ JobsGrow /\ (\A j \in JobIds : Ended(j)' <=> Ended(j)) /\ status' = status
  BY JobsQuiet
<1>3. StoreType'
  <2>1. nextID + 1 \in Nat /\ nextID' \in Nat
    BY SMT DEF Acquire, LockInv, StoreType
  <2>2. byKey' \in [Keys -> [id : Nat, job : JobIds \cup {NoJob}, status : {"active", "released"},
                             lapsed : {FALSE}]]
    BY <2>1 DEF Acquire, LockInv, StoreType
  <2>3. req' \in [Clients -> [at : {"idle", "acquired", "enqueued", "unwind"},
                              key : Keys \cup {NoKey}, job : JobIds \cup {NoJob}]]
    BY SMT DEF LockInv, StoreType
  <2> QED
    BY <1>1, <2>1, <2>2, <2>3 DEF LockInv, StoreType
<1>4. ASSUME NEW l \in Keys PROVE KeyInv(l)'
  BY <1>1 DEF LockInv, KeyInv
<1>5. ASSUME NEW j \in JobIds PROVE GrantInv(j)'
  <2>1. GrantInv(j) /\ byJob[j] \in Keys \cup {NoKey} /\ granted[j] \subseteq Keys /\ j # NoJob
    BY DEF Quiet, LockInv, StoreType
  <2> QED
    BY <1>1, <1>2, <2>1 DEF GrantInv
<1>6. \A c \in Clients : Pursues(c) => req[c].key \in Keys /\ req[c].key # k
  BY <1>1 DEF LockInv, RequestInv
<1>7. ASSUME NEW c \in Clients PROVE RequestInv(c)'
  <2>1. CASE req'[c] = req[c]
    BY <1>1, <1>2, <1>6, <2>1, SMT DEF LockInv, RequestInv, Pursues
  <2>2. CASE req'[c] # req[c]
    <3>1. req'[c] = [at |-> "acquired", key |-> k, job |-> NoJob]
      BY <2>2 DEF LockInv, StoreType
    <3> QED
      BY <1>1, <3>1, SMT DEF RequestInv, Pursues
  <2> QED
    BY <2>1, <2>2
<1>8. ASSUME NEW c \in Clients, NEW d \in Clients, c # d PROVE Apart(c, d)'
  <2>1. Apart(c, d)
    BY <1>8 DEF LockInv
  <2>2. CASE req'[c] = req[c] /\ req'[d] = req[d]
    BY <2>1, <2>2 DEF Apart, Pursues
  <2>3. CASE req'[c] # req[c] \/ req'[d] # req[d]
    <3>1. \/ req'[c] = [at |-> "acquired", key |-> k, job |-> NoJob] /\ req'[d] = req[d]
          \/ req'[d] = [at |-> "acquired", key |-> k, job |-> NoJob] /\ req'[c] = req[c]
      BY <1>8, <2>3 DEF LockInv, StoreType
    <3> QED
      BY <1>6, <3>1, SMT DEF Apart, Pursues
  <2> QED
    BY <2>2, <2>3
<1> QED
  BY <1>2, <1>3, <1>4, <1>5, <1>7, <1>8 DEF LockInv, JobsInv

LEMMA EnqueueInv ==
  ASSUME Quiet, LockInv, NEW c \in Clients, RequestEnqueue(c)
  PROVE  LockInv'
<1>1. /\ req[c].at = "acquired" /\ UNCHANGED <<nextID, byKey, byJob, granted>>
      /\ RequestInv(c) /\ Pursues(c)
  BY DEF RequestEnqueue, storeVars, LockInv, Pursues
<1>2. ASSUME NEW j \in JobIds, Jobs!Submit(j), req' = [req EXCEPT ![c].at = "enqueued", ![c].job = j]
      PROVE  LockInv'
  <2>1. JobsInv' /\ JobsGrow /\ status[j] = "absent"
    BY <1>2, JobStepInv DEF LockInv, JobsInv, JobStep, Jobs!Submit
  <2>2. /\ req'[c].at = "enqueued" /\ req'[c].key = req[c].key /\ req'[c].job = j
        /\ \A d \in Clients : d # c => req'[d] = req[d]
    BY <1>2 DEF LockInv, StoreType
  <2>3. StoreType'
    <3> DEFINE Asked == [at : {"idle", "acquired", "enqueued", "unwind"},
                         key : Keys \cup {NoKey}, job : JobIds \cup {NoJob}]
    <3>1. req \in [Clients -> Asked]
      BY DEF LockInv, StoreType
    <3>2. [req[c] EXCEPT !.at = "enqueued", !.job = j] \in Asked
      BY <3>1
    <3>3. req' = [req EXCEPT ![c] = [req[c] EXCEPT !.at = "enqueued", !.job = j]]
      BY <1>2, <3>1
    <3> HIDE DEF Asked
    <3>4. req' \in [Clients -> Asked]
      BY <3>1, <3>2, <3>3
    <3> QED
      BY <1>1, <3>4 DEF LockInv, StoreType, Asked
  <2>4. ASSUME NEW i \in JobIds PROVE GrantInv(i)'
    BY <1>1, <2>1 DEF LockInv, GrantInv, JobsGrow
  <2>5. ASSUME NEW k \in Keys PROVE KeyInv(k)'
    BY <1>1 DEF LockInv, KeyInv
  <2>6. granted[j] = {} /\ byJob[j] = NoKey /\ status'[j] # "absent"
    BY <1>2, <2>1 DEF LockInv, GrantInv, Jobs!Submit, Jobs!Changes, JobsType
  <2>7. ASSUME NEW d \in Clients PROVE RequestInv(d)'
    <3>1. CASE d = c
      BY <1>1, <2>2, <2>6, <3>1 DEF RequestInv, Pursues
    <3>2. CASE d # c
      BY <1>1, <2>1, <2>2, <3>2 DEF LockInv, RequestInv, Pursues, JobsGrow
    <3> QED
      BY <3>1, <3>2
  <2>8. \A d \in Clients : req[d].at = "enqueued" => req[d].job # j
    BY <2>1 DEF LockInv, RequestInv
  <2>9. ASSUME NEW d \in Clients, NEW e \in Clients, d # e PROVE Apart(d, e)'
    <3>1. Apart(d, e)
      BY <2>9 DEF LockInv
    <3>2. CASE d = c
      BY <1>1, <2>2, <2>8, <2>9, <3>1, <3>2 DEF Apart, Pursues
    <3>3. CASE e = c
      BY <1>1, <2>2, <2>8, <2>9, <3>1, <3>3 DEF Apart, Pursues
    <3>4. CASE d # c /\ e # c
      BY <2>2, <3>1, <3>4 DEF Apart, Pursues
    <3> QED
      BY <3>2, <3>3, <3>4
  <2> QED
    BY <2>1, <2>3, <2>4, <2>5, <2>7, <2>9 DEF LockInv, JobsInv
<1>3. CASE req' = [req EXCEPT ![c].at = "unwind"] /\ UNCHANGED jobVars
  <2>1. JobsInv' /\ JobsGrow /\ status' = status
    BY <1>3, JobsQuiet
  <2>2. /\ req'[c].at = "unwind" /\ req'[c].key = req[c].key /\ req'[c].job = req[c].job
        /\ \A d \in Clients : d # c => req'[d] = req[d]
    BY <1>3 DEF LockInv, StoreType
  <2>3. StoreType'
    BY <1>1, <1>3 DEF LockInv, StoreType
  <2>4. ASSUME NEW i \in JobIds PROVE GrantInv(i)'
    BY <1>1, <2>1 DEF LockInv, GrantInv, JobsGrow
  <2>5. ASSUME NEW k \in Keys PROVE KeyInv(k)'
    BY <1>1 DEF LockInv, KeyInv
  <2>6. ASSUME NEW d \in Clients PROVE RequestInv(d)'
    <3>1. CASE d = c
      BY <1>1, <2>2, <3>1 DEF RequestInv, Pursues
    <3>2. CASE d # c
      BY <1>1, <2>1, <2>2, <3>2 DEF LockInv, RequestInv, Pursues
    <3> QED
      BY <3>1, <3>2
  <2>7. ASSUME NEW d \in Clients, NEW e \in Clients, d # e PROVE Apart(d, e)'
    <3>1. Apart(d, e)
      BY <2>7 DEF LockInv
    <3> QED
      BY <1>1, <2>2, <2>7, <3>1 DEF Apart, Pursues
  <2> QED
    BY <2>1, <2>3, <2>4, <2>5, <2>6, <2>7 DEF LockInv, JobsInv
<1> QED
  BY <1>2, <1>3 DEF RequestEnqueue, Quiet

\* The request's lock is bound to its job, which no other lock is bound to.
LEMMA BindInv ==
  ASSUME Quiet, LockInv, NEW c \in Clients, RequestBind(c)
  PROVE  LockInv'
<1>1. /\ req[c].at = "enqueued" /\ Pursues(c) /\ RequestInv(c) /\ UNCHANGED jobVars
  BY DEF RequestBind, LockInv, Pursues
<1>2. PICK k \in Keys, j \in JobIds :
        /\ k = req[c].key /\ j = req[c].job
        /\ byKey[k].status = "active" /\ byKey[k].job = NoJob
        /\ status[j] # "absent" /\ granted[j] = {} /\ byJob[j] = NoKey /\ j # NoJob
  BY <1>1 DEF RequestInv, Quiet
<1>3. /\ byKey' = [byKey EXCEPT ![k].job = j] /\ byJob' = [byJob EXCEPT ![j] = k]
      /\ granted' = [granted EXCEPT ![j] = @ \cup {k}] /\ nextID' = nextID
      /\ req' = [req EXCEPT ![c] = NoRequest]
  BY <1>2, LockFields DEF RequestBind, BindJob, BindRefused, Held
<1>4. /\ byKey'[k].job = j /\ byKey'[k].status = "active"
      /\ \A l \in Keys : l # k => byKey'[l] = byKey[l]
      /\ byJob'[j] = k /\ granted'[j] = {k}
      /\ \A i \in JobIds : i # j => byJob'[i] = byJob[i] /\ granted'[i] = granted[i]
      /\ req'[c] = NoRequest /\ \A d \in Clients : d # c => req'[d] = req[d]
  BY <1>2, <1>3, SMT DEF LockInv, StoreType
<1>5. JobsInv' /\ (\A i \in JobIds : Ended(i)' <=> Ended(i)) /\ status' = status
  BY <1>1, JobsQuiet
<1>6. StoreType'
  <2>1. byKey' \in [Keys -> [id : Nat, job : JobIds \cup {NoJob}, status : {"active", "released"},
                             lapsed : {FALSE}]]
    <3> DEFINE Entry == [id : Nat, job : JobIds \cup {NoJob}, status : {"active", "released"}, lapsed : {FALSE}]
    <3>1. byKey \in [Keys -> Entry]
      BY DEF LockInv, StoreType
    <3>2. [byKey[k] EXCEPT !.job = j] \in Entry
      BY <3>1
    <3>3. byKey' = [byKey EXCEPT ![k] = [byKey[k] EXCEPT !.job = j]]
      BY <1>3
    <3> HIDE DEF Entry
    <3>4. byKey' \in [Keys -> Entry]
      BY <3>1, <3>2, <3>3
    <3> QED
      BY <3>4 DEF Entry
  <2>2. req' \in [Clients -> [at : {"idle", "acquired", "enqueued", "unwind"},
                              key : Keys \cup {NoKey}, job : JobIds \cup {NoJob}]]
    BY <1>3 DEF LockInv, StoreType, NoRequest
  <2>3. granted' \in [JobIds -> SUBSET Keys] /\ byJob' \in [JobIds -> Keys \cup {NoKey}]
    BY <1>3 DEF LockInv, StoreType
  <2> QED
    BY <1>3, <2>1, <2>2, <2>3 DEF LockInv, StoreType
<1>7. ASSUME NEW l \in Keys PROVE KeyInv(l)'
  <2>1. KeyInv(l) /\ byKey[l].job \in JobIds \cup {NoJob}
    BY LockFields DEF LockInv
  <2>2. CASE l = k
    BY <1>4, <2>2 DEF KeyInv
  <2>3. CASE l # k
    <3>1. byKey[l].job # j
      BY <1>2, <2>1 DEF KeyInv, Quiet
    <3> QED
      BY <1>4, <2>1, <2>3, <3>1 DEF KeyInv
  <2> QED
    BY <2>2, <2>3
<1>8. ASSUME NEW i \in JobIds PROVE GrantInv(i)'
  <2>1. GrantInv(i) /\ byJob[i] \in Keys \cup {NoKey} /\ granted[i] \subseteq Keys /\ i # NoJob
    BY DEF Quiet, LockInv, StoreType
  <2>2. CASE i = j
    BY <1>2, <1>4, <1>5, <2>2 DEF GrantInv
  <2>3. CASE i # j
    <3>1. byJob[i] # k \/ byJob[i] = NoKey
      BY <1>2, <2>1 DEF GrantInv
    <3>2. ~Ended(i) => k \notin granted[i]
      BY <1>2, <2>1 DEF GrantInv
    <3> QED
      BY <1>4, <1>5, <2>1, <2>3, <3>1, <3>2 DEF GrantInv
  <2> QED
    BY <2>2, <2>3
<1>9. ASSUME NEW d \in Clients PROVE RequestInv(d)'
  <2>1. CASE d = c
    BY <1>4, <2>1, SMT DEF RequestInv, Pursues, NoRequest
  <2>2. CASE d # c
    <3>1. RequestInv(d) /\ Apart(c, d) /\ req'[d] = req[d]
      BY <1>4, <2>2 DEF LockInv
    <3>2. Pursues(d) => req[d].key \in Keys /\ req[d].key # k
      BY <1>1, <1>2, <3>1 DEF RequestInv, Apart
    <3>3. req[d].at = "enqueued" => req[d].job # j /\ req[d].job \in JobIds
      BY <1>1, <1>2, <3>1 DEF RequestInv, Apart, Pursues
    <3> QED
      BY <1>4, <1>5, <3>1, <3>2, <3>3, SMT DEF RequestInv, Pursues
  <2> QED
    BY <2>1, <2>2
<1>10. ASSUME NEW d \in Clients, NEW e \in Clients, d # e PROVE Apart(d, e)'
  <2>1. Apart(d, e)
    BY <1>10 DEF LockInv
  <2> QED
    BY <1>4, <2>1, SMT DEF Apart, Pursues, NoRequest
<1> QED
  BY <1>5, <1>6, <1>7, <1>8, <1>9, <1>10 DEF LockInv, JobsInv

\* A request that failed gives up the lock that only it counted on.
LEMMA UnwindInv ==
  ASSUME Quiet, LockInv, NEW c \in Clients, RequestUnwind(c)
  PROVE  LockInv'
<1>1. /\ req[c].at = "unwind" /\ Pursues(c) /\ RequestInv(c) /\ UNCHANGED <<jobVars, granted>>
  BY DEF RequestUnwind, LockInv, Pursues
<1>2. PICK k \in Keys :
        /\ k = req[c].key /\ k # NoKey /\ byKey[k] # NoLock
        /\ byKey[k].status = "active" /\ byKey[k].job = NoJob
  BY <1>1, SMT DEF RequestInv, Quiet, NoLock
<1>3. /\ byKey' = [byKey EXCEPT ![k] = NoLock] /\ nextID' = nextID
      /\ byJob' = [j \in JobIds |-> IF j = NoJob THEN NoKey ELSE byJob[j]]
      /\ req' = [req EXCEPT ![c] = NoRequest]
  BY <1>1, <1>2 DEF RequestUnwind, Release, RequestInv
<1>4. /\ byKey'[k] = NoLock /\ \A l \in Keys : l # k => byKey'[l] = byKey[l]
      /\ \A j \in JobIds : byJob'[j] = byJob[j]
      /\ req'[c] = NoRequest /\ \A d \in Clients : d # c => req'[d] = req[d]
  BY <1>3 DEF LockInv, StoreType, Quiet
<1>5. JobsInv' /\ (\A i \in JobIds : Ended(i)' <=> Ended(i)) /\ status' = status
  BY <1>1, JobsQuiet
<1>6. StoreType'
  <2>1. NoLock \in [id : Nat, job : JobIds \cup {NoJob}, status : {"active", "released"}, lapsed : {FALSE}]
    BY DEF NoLock
  <2>2. byKey' \in [Keys -> [id : Nat, job : JobIds \cup {NoJob}, status : {"active", "released"},
                             lapsed : {FALSE}]]
    BY <1>3, <2>1 DEF LockInv, StoreType
  <2>3. req' \in [Clients -> [at : {"idle", "acquired", "enqueued", "unwind"},
                              key : Keys \cup {NoKey}, job : JobIds \cup {NoJob}]]
    BY <1>3 DEF LockInv, StoreType, NoRequest
  <2> QED
    BY <1>1, <1>3, <2>2, <2>3 DEF LockInv, StoreType
<1>7. ASSUME NEW l \in Keys PROVE KeyInv(l)'
  <2>1. KeyInv(l) /\ byKey[l].job \in JobIds \cup {NoJob}
    BY LockFields DEF LockInv
  <2> QED
    BY <1>4, <2>1, SMT DEF KeyInv, NoLock
<1>8. ASSUME NEW i \in JobIds PROVE GrantInv(i)'
  <2>1. GrantInv(i) /\ byJob[i] \in Keys \cup {NoKey} /\ granted[i] \subseteq Keys /\ i # NoJob
    BY DEF Quiet, LockInv, StoreType
  <2>2. (byJob[i] # NoKey => byJob[i] # k) /\ (~Ended(i) => k \notin granted[i])
    BY <1>2, <2>1 DEF GrantInv
  <2> QED
    BY <1>1, <1>4, <1>5, <2>1, <2>2 DEF GrantInv
<1>9. ASSUME NEW d \in Clients PROVE RequestInv(d)'
  <2>1. CASE d = c
    BY <1>4, <2>1, SMT DEF RequestInv, Pursues, NoRequest
  <2>2. CASE d # c
    <3>1. RequestInv(d) /\ Apart(c, d) /\ req'[d] = req[d]
      BY <1>4, <2>2 DEF LockInv
    <3>2. Pursues(d) => req[d].key \in Keys /\ req[d].key # k
      BY <1>1, <1>2, <3>1 DEF RequestInv, Apart
    <3> QED
      BY <1>1, <1>4, <1>5, <3>1, <3>2 DEF RequestInv, Pursues
  <2> QED
    BY <2>1, <2>2
<1>10. ASSUME NEW d \in Clients, NEW e \in Clients, d # e PROVE Apart(d, e)'
  <2>1. Apart(d, e)
    BY <1>10 DEF LockInv
  <2> QED
    BY <1>4, <2>1, SMT DEF Apart, Pursues, NoRequest
<1> QED
  BY <1>5, <1>6, <1>7, <1>8, <1>9, <1>10 DEF LockInv, JobsInv

\* The subscriber releases the lock of a job that has ended, and no other.
LEMMA JobEndedInv ==
  ASSUME Quiet, LockInv, NEW j \in JobIds, JobEnded(j)
  PROVE  LockInv'
<1>1. JobsInv' /\ JobsGrow /\ Ended(j)' /\ UNCHANGED <<req, granted>>
  BY ToldEnded, JobStepInv DEF JobEnded, LockInv, JobsInv, JobsGrow
<1>2. CASE byJob[j] = NoKey
  <2>1. UNCHANGED <<nextID, byKey, byJob>>
    BY <1>2 DEF JobEnded, Release, storeVars
  <2> QED
    BY <1>1, <2>1, LocksKept
<1>3. CASE byJob[j] # NoKey
  <2>1. PICK k \in Keys : k = byJob[j] /\ k # NoKey /\ byKey[k].job = j /\ j # NoJob /\ byKey[k] # NoLock
    BY <1>3, SMT DEF LockInv, StoreType, GrantInv, Quiet, NoLock
  <2>2. /\ byKey' = [byKey EXCEPT ![k] = NoLock] /\ nextID' = nextID
        /\ byJob' = [i \in JobIds |-> IF i = j THEN NoKey ELSE byJob[i]]
    BY <2>1 DEF JobEnded, Release
  <2>3. /\ byKey'[k] = NoLock /\ \A l \in Keys : l # k => byKey'[l] = byKey[l]
        /\ byJob'[j] = NoKey /\ \A i \in JobIds : i # j => byJob'[i] = byJob[i]
    BY <2>2 DEF LockInv, StoreType
  <2>4. StoreType'
    <3>1. NoLock \in [id : Nat, job : JobIds \cup {NoJob}, status : {"active", "released"}, lapsed : {FALSE}]
      BY DEF NoLock
    <3>2. byKey' \in [Keys -> [id : Nat, job : JobIds \cup {NoJob}, status : {"active", "released"},
                               lapsed : {FALSE}]]
      BY <2>2, <3>1 DEF LockInv, StoreType
    <3> QED
      BY <1>1, <2>2, <3>2 DEF LockInv, StoreType
  <2>5. ASSUME NEW l \in Keys PROVE KeyInv(l)'
    <3>1. KeyInv(l) /\ byKey[l].job \in JobIds \cup {NoJob}
      BY LockFields DEF LockInv
    <3>2. CASE l = k
      BY <2>3, <3>2, SMT DEF KeyInv, NoLock
    <3>3. CASE l # k
      <4>1. byKey[l].job # j
        BY <2>1, <3>1, <3>3 DEF KeyInv
      <4> QED
        BY <2>3, <3>1, <3>3, <4>1 DEF KeyInv
    <3> QED
      BY <3>2, <3>3
  <2>6. ASSUME NEW i \in JobIds PROVE GrantInv(i)'
    <3>1. GrantInv(i) /\ byJob[i] \in Keys \cup {NoKey} /\ granted[i] \subseteq Keys
      BY DEF LockInv, StoreType
    <3>2. status'[i] = "absent" => status[i] = "absent"
      BY <1>1 DEF JobsGrow
    <3>3. CASE i = j
      BY <1>1, <2>3, <3>1, <3>2, <3>3 DEF GrantInv
    <3>4. CASE i # j
      <4>1. (byJob[i] # NoKey => byJob[i] # k) /\ (~Ended(i) => k \notin granted[i])
        BY <2>1, <3>1, <3>4 DEF GrantInv
      <4>2. ~Ended(i)' => ~Ended(i)
        BY <1>1 DEF JobsGrow
      <4> QED
        BY <1>1, <2>3, <3>1, <3>2, <3>4, <4>1, <4>2 DEF GrantInv
    <3> QED
      BY <3>3, <3>4
  <2>7. ASSUME NEW c \in Clients PROVE RequestInv(c)'
    <3>1. RequestInv(c) /\ (Pursues(c) => req[c].key \in Keys /\ req[c].key # k)
      BY <2>1 DEF LockInv, RequestInv
    <3> QED
      BY <1>1, <2>3, <3>1 DEF RequestInv, Pursues, JobsGrow
  <2>8. ASSUME NEW c \in Clients, NEW d \in Clients, c # d PROVE Apart(c, d)'
    BY <1>1, <2>8 DEF LockInv, Apart, Pursues
  <2> QED
    BY <1>1, <2>4, <2>5, <2>6, <2>7, <2>8 DEF LockInv, JobsInv
<1> QED
  BY <1>2, <1>3

-----------------------------------------------------------------------------
(* The theorems *)

LEMMA LockInit == Quiet /\ Init => LockInv
<1> SUFFICES ASSUME Quiet, Init PROVE LockInv
  OBVIOUS
<1>1. JobsType /\ \A j \in JobIds : JobInv(j) /\ status[j] = "absent"
  BY SMT DEF Init, Jobs!Init, Jobs!ByCaller, JobsType, JobInv
<1>2. StoreType
  <2>1. NoLock \in [id : Nat, job : JobIds \cup {NoJob}, status : {"active", "released"}, lapsed : {FALSE}]
    BY DEF NoLock
  <2> QED
    BY <2>1 DEF Init, StoreType, NoRequest
<1>3. ASSUME NEW j \in JobIds PROVE GrantInv(j)
  BY DEF Init, GrantInv
<1>4. ASSUME NEW k \in Keys PROVE KeyInv(k)
  BY DEF Init, KeyInv, NoLock
<1>5. ASSUME NEW c \in Clients PROVE req[c].at = "idle"
  BY DEF Init, NoRequest
<1>6. ASSUME NEW c \in Clients PROVE RequestInv(c) /\ \A d \in Clients : c # d => Apart(c, d)
  BY <1>5 DEF RequestInv, Apart, Pursues
<1> QED
  BY <1>1, <1>2, <1>3, <1>4, <1>6 DEF LockInv

LEMMA LockStep == Quiet /\ LockInv /\ [Next]_vars => LockInv'
<1> SUFFICES ASSUME Quiet, LockInv, [Next]_vars PROVE LockInv'
  OBVIOUS
<1>1. ASSUME NEW c \in Clients, Request(c) PROVE LockInv'
  <2>1. ASSUME NEW k \in Keys, RequestAcquire(c, k) PROVE LockInv'
    BY <2>1, AcquireInv DEF RequestAcquire
  <2>2. ~RequestCancel(c)
    BY DEF RequestCancel, LockInv, StoreType
  <2> QED
    BY <1>1, <2>1, <2>2, EnqueueInv, BindInv, UnwindInv DEF Request
<1>2. CASE Operator
  <2>1. ASSUME NEW k \in Keys, AcquireCall(k) PROVE LockInv'
    BY <2>1, AcquireInv DEF AcquireCall
  <2>2. ~CleanupExpired
    BY LockFields DEF CleanupExpired
  <2>3. ASSUME NEW j \in JobIds, CancelCall(j) PROVE LockInv'
    <3>1. JobStep(j) /\ UNCHANGED <<nextID, byKey, byJob, req, granted>>
      BY <2>3 DEF CancelCall, storeVars, JobStep
    <3>2. JobsInv' /\ JobsGrow
      BY <3>1, JobStepInv DEF LockInv, JobsInv
    <3> QED
      BY <3>1, <3>2, LocksKept
  <2> QED
    BY <1>2, <2>1, <2>2, <2>3 DEF Operator, Quiet
<1>3. CASE Queue
  <2>1. ASSUME NEW j \in JobIds, Work(j) PROVE LockInv'
    <3>1. JobStep(j) /\ UNCHANGED <<nextID, byKey, byJob, req, granted>>
      BY <2>1 DEF Work, storeVars, JobStep
    <3>2. JobsInv' /\ JobsGrow
      BY <3>1, JobStepInv DEF LockInv, JobsInv
    <3> QED
      BY <3>1, <3>2, LocksKept
  <2> QED
    BY <1>3, <2>1, JobEndedInv DEF Queue
<1>4. CASE UNCHANGED vars
  <2>1. UNCHANGED <<nextID, byKey, byJob, req, granted>> /\ UNCHANGED jobVars
    BY <1>4 DEF vars, storeVars
  <2> QED
    BY <2>1, JobsQuiet, LocksKept
<1> QED
  BY <1>1, <1>2, <1>3, <1>4 DEF Next, Idle

LEMMA LockInvariance == Quiet /\ Spec => []LockInv
<1> SUFFICES ASSUME Quiet PROVE Spec => []LockInv
  OBVIOUS
<1>1. Init => LockInv
  BY LockInit
<1>2. LockInv /\ [Next]_vars => LockInv'
  BY LockStep
<1> QED
  BY <1>1, <1>2, PTL DEF Spec

\* Between the acquisition of a key and the end of the job it was granted to,
\* no second request or unfinished job counts on the key, although the request
\* handler lets go of the store between its calls and jobs may end, be
\* canceled and be announced at any point of it.
THEOREM LocksExcludeConflicts == Quiet /\ Spec => []MutualExclusion
<1> SUFFICES ASSUME Quiet PROVE Spec => []MutualExclusion
  OBVIOUS
<1>1. LockInv => MutualExclusion
  <2> SUFFICES ASSUME LockInv, NEW k \in Keys PROVE Cardinality(Contenders(k)) <= 1
    BY DEF MutualExclusion
  <2> DEFINE asking == {c \in Clients : req[c].key = k /\ req[c].at \in {"acquired", "enqueued"}}
             bound == {j \in JobIds : k \in granted[j] /\ ~Ended(j)}
  <2>1. \A c \in asking : byKey[k].job = NoJob
    BY DEF LockInv, RequestInv, Pursues
  <2>2. \A c, d \in asking : c = d
    BY DEF LockInv, Apart, Pursues
  <2>3. \A j \in bound : byKey[k].job = j /\ j # NoJob
    BY DEF LockInv, GrantInv, Quiet
  <2>4. \A x, y \in Contenders(k) : x = y
    BY <2>1, <2>2, <2>3 DEF Contenders
  <2>5. CASE Contenders(k) = {}
    BY <2>5, FS_EmptySet, SMT
  <2>6. CASE Contenders(k) # {}
    <3>1. PICK x : Contenders(k) = {x}
      BY <2>4, <2>6
    <3> QED
      BY <3>1, FS_Singleton, SMT
  <2> QED
    BY <2>5, <2>6
<1> QED
  BY <1>1, LockInvariance, PTL

\* A running job has the lock of every key it was granted until it ends.
THEOREM RunsAreCovered == Quiet /\ Spec => []LockCoversRun
<1> SUFFICES ASSUME Quiet PROVE Spec => []LockCoversRun
  OBVIOUS
<1>1. LockInv => LockCoversRun
  <2> SUFFICES ASSUME LockInv, NEW j \in JobIds, status[j] = "running", NEW k \in granted[j]
               PROVE  byKey[k].job = j /\ Held(k)
    BY DEF LockCoversRun
  <2>1. k \in Keys /\ byKey[k].job = j /\ j # NoJob
    BY DEF LockInv, StoreType, GrantInv, Ended, Jobs!Final, Quiet
  <2> QED
    BY <2>1, LockFields DEF Held
<1> QED
  BY <1>1, LockInvariance, PTL

\* The subscriber finds every bound lock by the id of its job.
THEOREM BoundLocksFound == Quiet /\ Spec => []BoundLockFindable
<1>1. LockInv => BoundLockFindable
  BY DEF LockInv, KeyInv, BoundLockFindable
<1> QED
  BY <1>1, LockInvariance, PTL

-----------------------------------------------------------------------------
(* No lock is lost, whatever operators do *)

Bounded == MaxLocks \in Nat

\* The store's part of the type, LockAccounted, and that a lock marked expired
\* is already in the history.
StoreInv ==
  /\ nextID \in 0 .. MaxLocks
  /\ byKey \in [Keys -> Lock \cup {NoLock}]
  /\ byJob \in [JobIds -> Keys \cup {NoKey}]
  /\ history \in [LockIds -> Nat]
  /\ granted \in [JobIds -> SUBSET Keys]
  /\ LockAccounted
  /\ \A k \in Keys : byKey[k].status = "expired" => history[byKey[k].id] > 0

Reqs == [at : {"idle", "acquired", "enqueued", "unwind", "cancel"},
         key : Keys \cup {NoKey}, job : JobIds \cup {NoJob}]

\* A request under way has a key, and a job from Enqueue on.
ReqInv ==
  /\ req \in [Clients -> Reqs]
  /\ \A c \in Clients : /\ req[c].at # "idle" => req[c].key \in Keys
                        /\ req[c].at \in {"enqueued", "cancel"} => req[c].job \in JobIds

AccountInv == StoreInv /\ ReqInv

LEMMA EntryFields ==
  ASSUME StoreInv, NEW k \in Keys
  PROVE  \/ byKey[k] \in Lock /\ byKey[k].id \in LockIds /\ byKey[k].status \in {"active", "expired"}
         \/ byKey[k] = NoLock /\ byKey[k].status = "released" /\ byKey[k].id \notin LockIds
<1>1. byKey[k] \in Lock \cup {NoLock}
  BY DEF StoreInv
<1>2. CASE byKey[k] \in Lock
  BY <1>2, SMT DEF Lock
<1>3. CASE byKey[k] = NoLock
  BY <1>3, SMT DEF NoLock, LockIds
<1> QED
  BY <1>1, <1>2, <1>3

\* The history only grows, and a lock leaves byKey by way of it.
LEMMA StoreKept ==
  ASSUME Bounded, StoreInv, nextID' = nextID,
         byKey' \in [Keys -> Lock \cup {NoLock}], byJob' \in [JobIds -> Keys \cup {NoKey}],
         history' \in [LockIds -> Nat], granted' \in [JobIds -> SUBSET Keys],
         \A l \in LockIds : history[l] > 0 => history'[l] > 0,
         \A k \in Keys :
           \/ /\ byKey'[k].id = byKey[k].id
              /\ byKey'[k].status = "expired" => byKey[k].status = "expired" \/ history'[byKey[k].id] > 0
           \/ byKey'[k] = NoLock /\ (byKey[k].id \in LockIds => history'[byKey[k].id] > 0)
  PROVE  StoreInv'
<1>1. LockAccounted'
  <2> SUFFICES ASSUME NEW l \in 1 .. nextID
               PROVE  history'[l] > 0 \/ \E k \in Keys : byKey'[k].id = l
    BY DEF LockAccounted
  <2>1. l \in LockIds
    BY SMT DEF StoreInv, LockIds, Bounded
  <2>2. history[l] > 0 \/ \E k \in Keys : byKey[k].id = l
    BY DEF StoreInv, LockAccounted
  <2> QED
    BY <2>1, <2>2
<1>2. ASSUME NEW k \in Keys, byKey'[k].status = "expired" PROVE history'[byKey'[k].id] > 0
  <2>1. byKey'[k] # NoLock
    BY <1>2, SMT DEF NoLock
  <2>2. CASE byKey[k].status = "expired"
    <3>1. byKey[k].id \in LockIds /\ history[byKey[k].id] > 0
      BY <2>2, EntryFields DEF StoreInv
    <3> QED
      BY <2>1, <3>1
  <2>3. CASE byKey[k].status # "expired"
    BY <1>2, <2>1, <2>3
  <2> QED
    BY <2>2, <2>3
<1>3. nextID' \in 0 .. MaxLocks
  BY DEF StoreInv
<1> QED
  BY <1>1, <1>2, <1>3 DEF StoreInv

\* Archiving an id counts it and no other.
LEMMA ArchivedCounts ==
  ASSUME StoreInv, NEW id \in LockIds
  PROVE  /\ Archived(id) \in [LockIds -> Nat] /\ Archived(id)[id] > 0
         /\ \A l \in LockIds : history[l] > 0 => Archived(id)[l] > 0
<1>1. history \in [LockIds -> Nat]
  BY DEF StoreInv
<1> QED
  BY <1>1, SMT DEF Archived

LEMMA AcquireAccounted ==
  ASSUME Bounded, StoreInv, NEW k \in Keys, Acquire(k), granted' = granted
  PROVE  StoreInv'
<1> DEFINE new == [id |-> nextID + 1, job |-> NoJob, status |-> "active", lapsed |-> FALSE]
<1>1. /\ nextID' = nextID + 1 /\ byKey' = [byKey EXCEPT ![k] = new] /\ byJob' = byJob
      /\ history' = IF byKey[k].status = "active" THEN Archived(byKey[k].id) ELSE history
  BY DEF Acquire
<1>2. nextID' \in 0 .. MaxLocks /\ nextID + 1 \in LockIds /\ nextID \in Nat
  BY SMT DEF Acquire, StoreInv, Bounded, LockIds
<1>3. new \in Lock /\ new.id = nextID + 1 /\ new.status = "active"
  BY <1>2, SMT DEF Lock
<1> HIDE DEF new
<1>4. /\ byKey' \in [Keys -> Lock \cup {NoLock}] /\ byKey'[k] = new
      /\ \A i \in Keys : i # k => byKey'[i] = byKey[i]
  BY <1>1, <1>3 DEF StoreInv
<1>5. /\ history' \in [LockIds -> Nat]
      /\ \A l \in LockIds : history[l] > 0 => history'[l] > 0
      /\ byKey[k].id \in LockIds => history'[byKey[k].id] > 0
  <2>1. CASE byKey[k].status = "active"
    <3>1. byKey[k].id \in LockIds
      BY <2>1, EntryFields
    <3> QED
      BY <2>1, <3>1, <1>1, ArchivedCounts
  <2>2. CASE byKey[k].status # "active"
    <3>1. byKey[k].id \in LockIds => history[byKey[k].id] > 0
      BY <2>2, EntryFields DEF StoreInv
    <3> QED
      BY <2>2, <3>1, <1>1 DEF StoreInv
  <2> QED
    BY <2>1, <2>2
<1>6. LockAccounted'
  <2> SUFFICES ASSUME NEW l \in 1 .. nextID'
               PROVE  history'[l] > 0 \/ \E i \in Keys : byKey'[i].id = l
    BY DEF LockAccounted
  <2>1. CASE l = nextID + 1
    BY <2>1, <1>3, <1>4
  <2>2. CASE l # nextID + 1
    <3>1. l \in 1 .. nextID /\ l \in LockIds
      BY <2>2, <1>1, <1>2, SMT DEF LockIds, Bounded
    <3>2. history[l] > 0 \/ \E i \in Keys : byKey[i].id = l
      BY <3>1 DEF StoreInv, LockAccounted
    <3> QED
      BY <3>1, <3>2, <1>4, <1>5
  <2> QED
    BY <2>1, <2>2
<1>7. \A i \in Keys : byKey'[i].status = "expired" => history'[byKey'[i].id] > 0
  <2> SUFFICES ASSUME NEW i \in Keys, byKey'[i].status = "expired" PROVE history'[byKey'[i].id] > 0
    OBVIOUS
  <2>1. i # k
    BY <1>3, <1>4
  <2>2. byKey[i].id \in LockIds /\ history[byKey[i].id] > 0
    BY <2>1, <1>4, EntryFields DEF StoreInv
  <2> QED
    BY <2>1, <2>2, <1>4, <1>5
<1> QED
  BY <1>1, <1>2, <1>4, <1>5, <1>6, <1>7 DEF StoreInv

LEMMA BindAccounted ==
  ASSUME Bounded, StoreInv, NEW k \in Keys, NEW j \in JobIds, BindJob(k, j)
  PROVE  StoreInv'
<1>1. /\ Held(k) /\ byKey' = [byKey EXCEPT ![k].job = j] /\ byJob' = [byJob EXCEPT ![j] = k]
      /\ granted' = [granted EXCEPT ![j] = @ \cup {k}] /\ nextID' = nextID /\ history' = history
  BY DEF BindJob
<1>2. byKey[k] \in Lock
  BY <1>1, EntryFields DEF Held
<1>3. [byKey[k] EXCEPT !.job = j] \in Lock /\ [byKey[k] EXCEPT !.job = j].id = byKey[k].id
      /\ [byKey[k] EXCEPT !.job = j].status = byKey[k].status
  BY <1>2, SMT DEF Lock
<1>4. byKey' = [byKey EXCEPT ![k] = [byKey[k] EXCEPT !.job = j]]
  BY <1>1
<1>5. /\ byKey' \in [Keys -> Lock \cup {NoLock}]
      /\ \A i \in Keys : byKey'[i].id = byKey[i].id /\ byKey'[i].status = byKey[i].status
  BY <1>3, <1>4 DEF StoreInv
<1>6. /\ byJob' \in [JobIds -> Keys \cup {NoKey}] /\ granted' \in [JobIds -> SUBSET Keys]
      /\ history' \in [LockIds -> Nat]
  BY <1>1 DEF StoreInv
<1> QED
  BY <1>1, <1>5, <1>6, StoreKept

LEMMA BindRefusedAccounted ==
  ASSUME Bounded, StoreInv, NEW k \in Keys, BindRefused(k)
  PROVE  StoreInv'
<1>1. nextID' = nextID /\ byJob' = byJob /\ granted' = granted
  BY DEF BindRefused
<1>2. byJob' \in [JobIds -> Keys \cup {NoKey}] /\ granted' \in [JobIds -> SUBSET Keys]
  BY <1>1 DEF StoreInv
<1>3. CASE byKey[k].status = "active"
  <2>1. byKey' = [byKey EXCEPT ![k].status = "expired"] /\ history' = Archived(byKey[k].id)
    BY <1>3 DEF BindRefused
  <2>2. byKey[k] \in Lock /\ byKey[k].id \in LockIds
    BY <1>3, EntryFields
  <2>3. [byKey[k] EXCEPT !.status = "expired"] \in Lock /\ [byKey[k] EXCEPT !.status = "expired"].id = byKey[k].id
    BY <2>2, SMT DEF Lock
  <2>4. byKey' = [byKey EXCEPT ![k] = [byKey[k] EXCEPT !.status = "expired"]]
    BY <2>1
  <2>5. /\ byKey' \in [Keys -> Lock \cup {NoLock}] /\ byKey'[k].id = byKey[k].id
        /\ \A i \in Keys : i # k => byKey'[i] = byKey[i]
    BY <2>3, <2>4 DEF StoreInv
  <2>6. /\ history' \in [LockIds -> Nat] /\ history'[byKey[k].id] > 0
        /\ \A l \in LockIds : history[l] > 0 => history'[l] > 0
    BY <2>1, <2>2, ArchivedCounts
  <2>7. \A i \in Keys : /\ byKey'[i].id = byKey[i].id
                        /\ byKey'[i].status = "expired" => byKey[i].status = "expired" \/ history'[byKey[i].id] > 0
    BY <2>5, <2>6
  <2> QED
    BY <1>1, <1>2, <2>5, <2>6, <2>7, StoreKept
<1>4. CASE byKey[k].status # "active"
  <2>1. byKey' = byKey /\ history' = history
    BY <1>4 DEF BindRefused
  <2> QED
    BY <1>1, <1>2, <2>1, StoreKept DEF StoreInv
<1> QED
  BY <1>3, <1>4

LEMMA ReleaseAccounted ==
  ASSUME Bounded, StoreInv, NEW k \in Keys \cup {NoKey}, Release(k), granted' = granted
  PROVE  StoreInv'
<1>1. CASE k = NoKey \/ byKey[k] = NoLock
  <2>1. nextID' = nextID /\ byKey' = byKey /\ byJob' = byJob /\ history' = history
    BY <1>1 DEF Release, storeVars
  <2> QED
    BY <2>1, StoreKept DEF StoreInv
<1>2. CASE k # NoKey /\ byKey[k] # NoLock
  <2>1. /\ k \in Keys /\ byKey' = [byKey EXCEPT ![k] = NoLock] /\ nextID' = nextID
        /\ byJob' = [j \in JobIds |-> IF j = byKey[k].job THEN NoKey ELSE byJob[j]]
        /\ history' = Archived(byKey[k].id)
    BY <1>2 DEF Release
  <2>2. byKey[k].id \in LockIds
    BY <1>2, <2>1, EntryFields
  <2>3. /\ history' \in [LockIds -> Nat] /\ history'[byKey[k].id] > 0
        /\ \A l \in LockIds : history[l] > 0 => history'[l] > 0
    BY <2>1, <2>2, ArchivedCounts
  <2>4. /\ byKey' \in [Keys -> Lock \cup {NoLock}] /\ byKey'[k] = NoLock
        /\ \A i \in Keys : i # k => byKey'[i] = byKey[i]
    BY <2>1 DEF StoreInv
  <2>5. byJob' \in [JobIds -> Keys \cup {NoKey}] /\ granted' \in [JobIds -> SUBSET Keys]
    BY <2>1 DEF StoreInv
  <2>6. \A i \in Keys :
           \/ /\ byKey'[i].id = byKey[i].id
              /\ byKey'[i].status = "expired" => byKey[i].status = "expired" \/ history'[byKey[i].id] > 0
           \/ byKey'[i] = NoLock /\ (byKey[i].id \in LockIds => history'[byKey[i].id] > 0)
    BY <2>3, <2>4
  <2> QED
    BY <2>1, <2>3, <2>4, <2>5, <2>6, StoreKept
<1> QED
  BY <1>1, <1>2

LEMMA CleanupAccounted ==
  ASSUME Bounded, StoreInv, CleanupExpired
  PROVE  StoreInv'
<1> DEFINE due == {k \in Keys : byKey[k].status = "active" /\ byKey[k].lapsed}
<1>1. /\ byKey' = [k \in Keys |-> IF k \in due THEN NoLock ELSE byKey[k]]
      /\ byJob' = [j \in JobIds |-> IF \E k \in due : byKey[k].job = j THEN NoKey ELSE byJob[j]]
      /\ history' = [l \in LockIds |-> IF \E k \in due : byKey[k].id = l THEN history[l] + 1 ELSE history[l]]
      /\ nextID' = nextID /\ granted' = granted
  BY DEF CleanupExpired
<1> HIDE DEF due
<1>2. byKey' \in [Keys -> Lock \cup {NoLock}] /\ byJob' \in [JobIds -> Keys \cup {NoKey}]
      /\ granted' \in [JobIds -> SUBSET Keys]
  BY <1>1 DEF StoreInv
<1>3. /\ \A l \in LockIds : history[l] \in Nat /\ history[l] + 1 \in Nat /\ history[l] + 1 > 0
      /\ \A l \in LockIds : history[l] > 0 => history[l] + 1 > 0
  BY SMT DEF StoreInv
<1>4. /\ history' \in [LockIds -> Nat]
      /\ \A l \in LockIds : history[l] > 0 => history'[l] > 0
      /\ \A l \in LockIds : (\E k \in due : byKey[k].id = l) => history'[l] > 0
  BY <1>1, <1>3
<1>5. \A i \in Keys :
         \/ byKey'[i].id = byKey[i].id /\ byKey'[i].status = byKey[i].status
         \/ byKey'[i] = NoLock /\ (byKey[i].id \in LockIds => history'[byKey[i].id] > 0)
  BY <1>1, <1>4
<1> QED
  BY <1>1, <1>2, <1>4, <1>5, StoreKept

LEMMA ExpireAccounted ==
  ASSUME Bounded, StoreInv, NEW k \in Keys, Expire(k)
  PROVE  StoreInv'
<1>1. /\ Held(k) /\ byKey' = [byKey EXCEPT ![k].lapsed = TRUE]
      /\ nextID' = nextID /\ byJob' = byJob /\ history' = history /\ granted' = granted
  BY DEF Expire
<1>2. byKey[k] \in Lock
  BY <1>1, EntryFields DEF Held
<1>3. [byKey[k] EXCEPT !.lapsed = TRUE] \in Lock /\ [byKey[k] EXCEPT !.lapsed = TRUE].id = byKey[k].id
      /\ [byKey[k] EXCEPT !.lapsed = TRUE].status = byKey[k].status
  BY <1>2 DEF Lock
<1>4. byKey' = [byKey EXCEPT ![k] = [byKey[k] EXCEPT !.lapsed = TRUE]]
  BY <1>1
<1>5. /\ byKey' \in [Keys -> Lock \cup {NoLock}]
      /\ \A i \in Keys : byKey'[i].id = byKey[i].id /\ byKey'[i].status = byKey[i].status
  BY <1>3, <1>4 DEF StoreInv
<1> QED
  BY <1>1, <1>5, StoreKept DEF StoreInv

\* A request gets a legal record.
LEMMA ReqUpdate ==
  ASSUME ReqInv, NEW c \in Clients, NEW r \in Reqs, req' = [req EXCEPT ![c] = r],
         r.at # "idle" => r.key \in Keys, r.at \in {"enqueued", "cancel"} => r.job \in JobIds
  PROVE  ReqInv'
<1>1. req' \in [Clients -> Reqs] /\ req'[c] = r /\ \A d \in Clients : d # c => req'[d] = req[d]
  BY DEF ReqInv
<1> QED
  BY <1>1 DEF ReqInv

LEMMA RequestAccounted ==
  ASSUME Bounded, AccountInv, NEW c \in Clients, Request(c)
  PROVE  AccountInv'
<1>1. StoreInv /\ ReqInv
  BY DEF AccountInv
<1> DEFINE key == req[c].key
           job == req[c].job
<1>2. /\ req[c] \in Reqs /\ req \in [Clients -> Reqs]
      /\ req[c].at # "idle" => key \in Keys
      /\ req[c].at \in {"enqueued", "cancel"} => job \in JobIds
  BY <1>1 DEF ReqInv
<1>3. /\ NoRequest \in Reqs /\ NoRequest.at = "idle"
      /\ req' = [req EXCEPT ![c] = NoRequest] => ReqInv'
  <2>1. NoRequest \in Reqs /\ NoRequest.at = "idle"
    BY DEF NoRequest, Reqs
  <2> QED
    BY <2>1, <1>1, ReqUpdate
<1>4. ASSUME NEW a \in {"unwind", "cancel"}, req' = [req EXCEPT ![c].at = a],
             req[c].at # "idle", a = "cancel" => job \in JobIds
      PROVE  ReqInv'
  <2> DEFINE r == [req[c] EXCEPT !.at = a]
  <2>1. r \in Reqs /\ r.at = a /\ r.key = key /\ r.job = job
    BY <1>2 DEF Reqs
  <2>2. req' = [req EXCEPT ![c] = r]
    BY <1>4
  <2> HIDE DEF r, key, job
  <2> QED
    BY <2>1, <2>2, <1>1, <1>2, <1>4, ReqUpdate
<1>5. ASSUME NEW j \in JobIds, req' = [req EXCEPT ![c].at = "enqueued", ![c].job = j], req[c].at # "idle"
      PROVE  ReqInv'
  <2> DEFINE r == [req[c] EXCEPT !.at = "enqueued", !.job = j]
  <2>1. r \in Reqs /\ r.at = "enqueued" /\ r.key = key /\ r.job = j
    BY <1>2 DEF Reqs
  <2>2. req' = [req EXCEPT ![c] = r]
    BY <1>2, <1>5
  <2> HIDE DEF r, key, job
  <2> QED
    BY <2>1, <2>2, <1>1, <1>2, <1>5, ReqUpdate
<1> HIDE DEF key, job
<1>6. ASSUME NEW k \in Keys, RequestAcquire(c, k) PROVE AccountInv'
  <2> DEFINE r == [at |-> "acquired", key |-> k, job |-> NoJob]
  <2>1. Acquire(k) /\ granted' = granted /\ req' = [req EXCEPT ![c] = r]
    BY <1>6 DEF RequestAcquire
  <2>2. StoreInv'
    BY <2>1, <1>1, AcquireAccounted
  <2>3. r \in Reqs /\ r.at = "acquired" /\ r.key = k
    BY DEF Reqs
  <2> HIDE DEF r
  <2>4. ReqInv'
    BY <2>1, <2>3, <1>1, ReqUpdate
  <2> QED
    BY <2>2, <2>4 DEF AccountInv
<1>7. ASSUME RequestEnqueue(c) PROVE AccountInv'
  <2>1. req[c].at = "acquired" /\ UNCHANGED <<nextID, byKey, byJob, history, granted>>
    BY <1>7 DEF RequestEnqueue, storeVars
  <2>2. StoreInv'
    BY <2>1, <1>1 DEF StoreInv, LockAccounted
  <2>3. \/ \E j \in JobIds : req' = [req EXCEPT ![c].at = "enqueued", ![c].job = j]
        \/ req' = [req EXCEPT ![c].at = "unwind"]
    BY <1>7 DEF RequestEnqueue
  <2>4. ReqInv'
    BY <2>1, <2>3, <1>4, <1>5
  <2> QED
    BY <2>2, <2>4 DEF AccountInv
<1>8. ASSUME RequestBind(c) PROVE AccountInv'
  <2>1. req[c].at = "enqueued" /\ key \in Keys /\ job \in JobIds
    BY <1>2, <1>8 DEF RequestBind
  <2>2. CASE BindJob(key, job) /\ req' = [req EXCEPT ![c] = NoRequest]
    BY <2>1, <2>2, <1>1, <1>3, BindAccounted DEF AccountInv
  <2>3. CASE BindRefused(key) /\ req' = [req EXCEPT ![c].at = "unwind"]
    BY <2>1, <2>3, <1>1, <1>4, BindRefusedAccounted DEF AccountInv
  <2> QED
    BY <1>8, <2>2, <2>3 DEF RequestBind, key, job
<1>9. ASSUME RequestUnwind(c) PROVE AccountInv'
  <2>1. req[c].at = "unwind" /\ key \in Keys /\ Release(key) /\ granted' = granted
    BY <1>2, <1>9 DEF RequestUnwind, key
  <2>2. StoreInv'
    BY <2>1, <1>1, ReleaseAccounted
  <2>3. CASE job = NoJob
    <3>1. req' = [req EXCEPT ![c] = NoRequest]
      BY <1>9, <2>3 DEF RequestUnwind, job
    <3> QED
      BY <2>2, <3>1, <1>3 DEF AccountInv
  <2>4. CASE job # NoJob
    <3>1. req' = [req EXCEPT ![c].at = "cancel"]
      BY <1>9, <2>4 DEF RequestUnwind, job
    <3>2. job \in JobIds
      BY <2>4, <1>2 DEF job, Reqs
    <3> QED
      BY <2>1, <2>2, <3>1, <3>2, <1>4 DEF AccountInv
  <2> QED
    BY <2>3, <2>4
<1>10. ASSUME RequestCancel(c) PROVE AccountInv'
  <2>1. /\ req' = [req EXCEPT ![c] = NoRequest]
        /\ UNCHANGED <<nextID, byKey, byJob, history, granted>>
    BY <1>10 DEF RequestCancel, storeVars
  <2>2. StoreInv'
    BY <2>1, <1>1 DEF StoreInv, LockAccounted
  <2> QED
    BY <2>1, <2>2, <1>3 DEF AccountInv
<1> QED
  BY <1>6, <1>7, <1>8, <1>9, <1>10 DEF Request

LEMMA AccountInit == Bounded /\ Init => AccountInv
<1> SUFFICES ASSUME Bounded, Init PROVE AccountInv
  OBVIOUS
<1>1. /\ nextID = 0 /\ byKey = [k \in Keys |-> NoLock] /\ byJob = [j \in JobIds |-> NoKey]
      /\ history = [l \in LockIds |-> 0] /\ granted = [j \in JobIds |-> {}]
      /\ req = [c \in Clients |-> NoRequest]
  BY DEF Init
<1>2. 0 \in 0 .. MaxLocks /\ 0 \in Nat /\ 1 .. 0 = {} /\ NoLock.status = "released"
  BY SMT DEF Bounded, NoLock
<1>3. LockAccounted
  BY <1>1, <1>2 DEF LockAccounted
<1>4. StoreInv
  BY <1>1, <1>2, <1>3 DEF StoreInv
<1>5. NoRequest \in Reqs /\ NoRequest.at = "idle"
  BY DEF NoRequest, Reqs
<1>6. ReqInv
  BY <1>1, <1>5 DEF ReqInv
<1> QED
  BY <1>4, <1>6 DEF AccountInv

LEMMA AccountStep == Bounded /\ AccountInv /\ [Next]_vars => AccountInv'
<1> SUFFICES ASSUME Bounded, AccountInv, [Next]_vars PROVE AccountInv'
  OBVIOUS
<1>1. StoreInv /\ ReqInv
  BY DEF AccountInv
<1>2. ASSUME UNCHANGED <<nextID, byKey, byJob, history, granted, req>> PROVE AccountInv'
  BY <1>1, <1>2 DEF AccountInv, StoreInv, ReqInv, LockAccounted
<1>3. ASSUME StoreInv', req' = req PROVE AccountInv'
  BY <1>1, <1>3 DEF AccountInv, ReqInv
<1>4. CASE \E c \in Clients : Request(c)
  BY <1>4, RequestAccounted
<1>5. CASE Operator
  <2>1. ASSUME NEW k \in Keys, AcquireCall(k) PROVE AccountInv'
    BY <2>1, <1>1, <1>3, AcquireAccounted DEF AcquireCall
  <2>2. ASSUME NEW k \in Keys, ReleaseCall(k) PROVE AccountInv'
    BY <2>2, <1>1, <1>3, ReleaseAccounted DEF ReleaseCall
  <2>3. ASSUME NEW j \in JobIds, ReleaseJobCall(j) PROVE AccountInv'
    <3>1. byJob[j] \in Keys \cup {NoKey} /\ Release(byJob[j]) /\ granted' = granted /\ req' = req
      BY <2>3, <1>1 DEF ReleaseJobCall, StoreInv
    <3> QED
      BY <3>1, <1>1, <1>3, ReleaseAccounted
  <2>4. ASSUME CleanupExpired PROVE AccountInv'
    <3>1. req' = req
      BY <2>4 DEF CleanupExpired
    <3> QED
      BY <2>4, <3>1, <1>1, <1>3, CleanupAccounted
  <2>5. ASSUME NEW k \in Keys, Expire(k) PROVE AccountInv'
    <3>1. req' = req
      BY <2>5 DEF Expire
    <3> QED
      BY <2>5, <3>1, <1>1, <1>3, ExpireAccounted
  <2>6. ASSUME NEW j \in JobIds, CancelCall(j) \/ FailCall(j) PROVE AccountInv'
    BY <2>6, <1>2 DEF CancelCall, FailCall, storeVars
  <2> QED
    BY <1>5, <2>1, <2>2, <2>3, <2>4, <2>5, <2>6 DEF Operator
<1>6. CASE Queue
  <2>1. PICK j \in JobIds : Work(j) \/ JobEnded(j)
    BY <1>6 DEF Queue
  <2>2. CASE Work(j)
    BY <2>2, <1>2 DEF Work, storeVars
  <2>3. CASE JobEnded(j)
    <3>1. byJob[j] \in Keys \cup {NoKey} /\ Release(byJob[j]) /\ granted' = granted /\ req' = req
      BY <2>3, <1>1 DEF JobEnded, StoreInv
    <3> QED
      BY <3>1, <1>1, <1>3, ReleaseAccounted
  <2> QED
    BY <2>1, <2>2, <2>3
<1>7. CASE Idle \/ UNCHANGED vars
  BY <1>2, <1>7 DEF Idle, vars, storeVars
<1> QED
  BY <1>4, <1>5, <1>6, <1>7 DEF Next

\* Every variable of the store and of its requests has its type, whatever
\* operators do.
THEOREM LocksTyped == Bounded /\ Spec => []TypeOK
<1> SUFFICES ASSUME Bounded PROVE Spec => []TypeOK
  OBVIOUS
<1>1. AccountInv => TypeOK
  BY DEF AccountInv, StoreInv, ReqInv, Reqs, TypeOK
<1>2. Init => AccountInv
  BY AccountInit
<1>3. AccountInv /\ [Next]_vars => AccountInv'
  BY AccountStep
<1> QED
  BY <1>1, <1>2, <1>3, PTL DEF Spec

\* Expiry, forced releases, cleanups and failed binds never lose a lock: it is
\* in the store or in its history.
THEOREM LocksAccounted == Bounded /\ Spec => []LockAccounted
<1> SUFFICES ASSUME Bounded PROVE Spec => []LockAccounted
  OBVIOUS
<1>1. AccountInv => LockAccounted
  BY DEF AccountInv, StoreInv
<1>2. Init => AccountInv
  BY AccountInit
<1>3. AccountInv /\ [Next]_vars => AccountInv'
  BY AccountStep
<1> QED
  BY <1>1, <1>2, <1>3, PTL DEF Spec

=============================================================================
