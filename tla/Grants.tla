------------------------------- MODULE Grants --------------------------------
(***************************************************************************)
(* Access that somebody has to agree to: approval policies and break-glass *)
(* requests (internal/control/access_approvals.go), just-in-time grants    *)
(* (internal/control/jit_grants.go) and their handlers in internal/server. *)
(*                                                                         *)
(* Every method reads the clock first and then waits for the mutex of its  *)
(* store, so it works with a time that may be up to MaxWait old.  A grant  *)
(* that names a break-glass request takes two critical sections, of two    *)
(* stores: the request is looked up, and then the grant is issued.         *)
(***************************************************************************)
EXTENDS Integers, Sequences, FiniteSets

CONSTANTS
  Actors, Fold,        \* spellings of names, and the name each of them is equal to under EqualFold
  Policies,            \* inputs of CreatePolicy: sequences of required approvals
  TTLs,                \* inputs for ttl_seconds; 0 is a missing one
  MinTTL, DefaultTTL, MaxTTL,
  MaxRequests, MaxGrants,  \* bounds on what is created
  MaxWait, MaxClock        \* bounds on the wait for a mutex and on the time

VARIABLES
  clock,
  policies,    \* sequence of policies, each a sequence of required approvals
  requests,    \* sequence of break-glass requests
  grants,      \* sequence of grants
  issuing,     \* handlers that have found their request active: the numbers of the requests
  refused,     \* history: grants that a validation has found revoked or expired
  revived      \* history: grants that have passed a validation after that

grantsVars == <<clock, policies, requests, grants, issuing, refused, revived>>

None == -1
Nows == {t \in 0..clock : clock - t <= MaxWait}   \* what a caller that holds a mutex may have read
Terminal == {"rejected", "revoked", "expired"}

(* What the stores hold, and what they hold at first *)

ApprovalPolicies == Seq(Nat \ {0})
BreakGlassApprovals == [actor : Actors, decision : {"approve", "reject", "revoke"}, stage : Nat \ {0}]
BreakGlassRequests ==
  [stages : ApprovalPolicies, stage : Nat \ {0}, status : {"pending", "active"} \cup Terminal,
   approvals : Seq(BreakGlassApprovals),
   ttl : MinTTL..MaxTTL, expires : Nat \cup {None}]
JITAccessGrants == [request : 0..MaxRequests, expires : Nat, revoked : BOOLEAN]

NewAccessApprovalStore == [policies |-> <<>>, requests |-> <<>>]
NewJITAccessGrantStore == <<>>

GrantsInit ==
  /\ clock = 0
  /\ policies = NewAccessApprovalStore.policies /\ requests = NewAccessApprovalStore.requests
  /\ grants = NewJITAccessGrantStore
  /\ issuing = {} /\ refused = {} /\ revived = {}

Tick ==
  /\ clock < MaxClock
  /\ clock' = clock + 1
  /\ UNCHANGED <<policies, requests, grants, issuing, refused, revived>>

\* A missing lifetime takes the default, one out of bounds is an error.
Lifetimes == {IF ttl <= 0 THEN DefaultTTL ELSE ttl : ttl \in TTLs} \cap MinTTL..MaxTTL

-----------------------------------------------------------------------------
(* Approval policies *)

\* At least one stage, each with at least one approval.
normalizeApprovalStages(stages) ==
  [i \in DOMAIN stages |-> IF stages[i] <= 0 THEN 1 ELSE stages[i]]

CreatePolicy(stages) ==
  /\ policies = <<>> /\ stages # <<>>
  /\ policies' = Append(policies, normalizeApprovalStages(stages))
  /\ UNCHANGED <<clock, requests, grants, issuing, refused, revived>>

-----------------------------------------------------------------------------
(* Break-glass requests *)

\* expireBreakGlassRequestsLocked: what the requests are after the sweep every operation begins with.
expireBreakGlassRequests(now) ==
  [i \in DOMAIN requests |->
     IF requests[i].status = "active" /\ now >= requests[i].expires
     THEN [requests[i] EXCEPT !.status = "expired"] ELSE requests[i]]

\* A request keeps a copy of its policy's stages.
CreateBreakGlassRequest(p, ttl) ==
  /\ Len(requests) < MaxRequests
  /\ requests' = Append(requests, [stages |-> policies[p], stage |-> 1, status |-> "pending", approvals |-> <<>>,
                                   ttl |-> ttl, expires |-> None])
  /\ UNCHANGED <<clock, policies, grants, issuing, refused, revived>>

countApprovalsForStage(req, stage) ==
  Cardinality({k \in DOMAIN req.approvals : req.approvals[k].stage = stage /\ req.approvals[k].decision = "approve"})

\* An approval recorded: the stage advances when it has all it needs, and the last one activates the request.
Approved(req, actor, now) ==
  LET noted == [req EXCEPT !.approvals = Append(@, [actor |-> actor, decision |-> "approve", stage |-> req.stage])]
      next == req.stage + 1
  IN IF countApprovalsForStage(noted, req.stage) < req.stages[req.stage] THEN noted
     ELSE IF next <= Len(req.stages) THEN [noted EXCEPT !.stage = next]
     ELSE [noted EXCEPT !.stage = next, !.status = "active", !.expires = now + req.ttl]

\* Mutant: the names of the approvers are compared as they are spelled.
ApproveAnySpelling(i, actor, now) ==
  LET swept == expireBreakGlassRequests(now)
      req == swept[i]
  IN /\ req.status = "pending"
     /\ \A k \in DOMAIN req.approvals : req.approvals[k].stage = req.stage => req.approvals[k].actor # actor
     /\ requests' = [swept EXCEPT ![i] = Approved(req, actor, now)]
     /\ UNCHANGED <<clock, policies, grants, issuing, refused, revived>>

ApproveBreakGlassRequest(i, actor, now) ==
  LET swept == expireBreakGlassRequests(now)
      req == swept[i]
  IN /\ req.status = "pending"
     /\ \A k \in DOMAIN req.approvals : req.approvals[k].stage = req.stage => Fold[req.approvals[k].actor] # Fold[actor]
     /\ requests' = [swept EXCEPT ![i] = Approved(req, actor, now)]
     /\ UNCHANGED <<clock, policies, grants, issuing, refused, revived>>

Decided(req, actor, decision, status) ==
  [req EXCEPT !.approvals = Append(@, [actor |-> actor, decision |-> decision, stage |-> req.stage]), !.status = status]

RejectBreakGlassRequest(i, actor, now) ==
  LET swept == expireBreakGlassRequests(now)
  IN /\ swept[i].status = "pending"
     /\ requests' = [swept EXCEPT ![i] = Decided(@, actor, "reject", "rejected")]
     /\ UNCHANGED <<clock, policies, grants, issuing, refused, revived>>

RevokeBreakGlassRequest(i, actor, now) ==
  LET swept == expireBreakGlassRequests(now)
  IN /\ swept[i].status \in {"pending", "active"}
     /\ requests' = [swept EXCEPT ![i] = Decided(@, actor, "revoke", "revoked")]
     /\ UNCHANGED <<clock, policies, grants, issuing, refused, revived>>

\* Get and List only sweep.
ListBreakGlassRequests(now) ==
  /\ requests' = expireBreakGlassRequests(now)
  /\ UNCHANGED <<clock, policies, grants, issuing, refused, revived>>

-----------------------------------------------------------------------------
(* Just-in-time grants *)

\* handleJITAccessGrants: GetBreakGlassRequest sweeps, and the request has to be active...
LookUpRequest(i, now) ==
  LET swept == expireBreakGlassRequests(now)
  IN /\ i \notin issuing /\ swept[i].status = "active"
     /\ requests' = swept
     /\ issuing' = issuing \cup {i}
     /\ UNCHANGED <<clock, policies, grants, refused, revived>>

\* ...and Issue appends the grant, which may also name no request (0).
Issue(i, ttl, now) ==
  /\ i # 0 => i \in issuing
  /\ Len(grants) < MaxGrants
  /\ grants' = Append(grants, [request |-> i, expires |-> now + ttl, revoked |-> FALSE])
  /\ issuing' = issuing \ {i}
  /\ UNCHANGED <<clock, policies, requests, refused, revived>>

\* expireLocked notes the expiry as a revocation.
expireGrants(now) == [g \in DOMAIN grants |-> [grants[g] EXCEPT !.revoked = @ \/ now >= grants[g].expires]]

Revoke(g) ==
  /\ grants' = [grants EXCEPT ![g].revoked = TRUE]
  /\ UNCHANGED <<clock, policies, requests, issuing, refused, revived>>

\* Validate with the token of grant g: a matching resource and action, or another one.
Validate(g, matching, now) ==
  LET swept == expireGrants(now)
      valid == ~swept[g].revoked /\ now < swept[g].expires
  IN /\ grants' = swept
     /\ refused' = IF valid THEN refused ELSE refused \cup {g}
     /\ revived' = IF valid /\ matching THEN revived \cup (refused \cap {g}) ELSE revived
     /\ UNCHANGED <<clock, policies, requests, issuing>>

ListGrants(now) ==
  /\ grants' = expireGrants(now)
  /\ UNCHANGED <<clock, policies, requests, issuing, refused, revived>>

-----------------------------------------------------------------------------
(* Specification *)

\* The handlers of /v1/access/approval-policies and /v1/access/break-glass/requests
handleApprovalPolicies == \E stages \in Policies : CreatePolicy(stages)

handleBreakGlassRequests ==
  \/ \E p \in DOMAIN policies, ttl \in Lifetimes : CreateBreakGlassRequest(p, ttl)
  \/ \E now \in Nows : ListBreakGlassRequests(now)

handleBreakGlassRequestAction ==
  \E i \in DOMAIN requests, actor \in Actors, now \in Nows :
    \/ ApproveBreakGlassRequest(i, actor, now)
    \/ RejectBreakGlassRequest(i, actor, now)
    \/ RevokeBreakGlassRequest(i, actor, now)

\* The handlers of /v1/access/jit-grants
handleJITAccessGrants ==
  \/ \E i \in DOMAIN requests, now \in Nows : LookUpRequest(i, now)
  \/ \E i \in {0} \cup issuing, ttl \in Lifetimes, now \in Nows : Issue(i, ttl, now)
  \/ \E now \in Nows : ListGrants(now)

handleJITAccessGrantAction == \E g \in DOMAIN grants : Revoke(g)

handleJITAccessGrantValidate == \E g \in DOMAIN grants, matching \in BOOLEAN, now \in Nows : Validate(g, matching, now)

GrantsNext ==
  \/ Tick
  \/ handleApprovalPolicies \/ handleBreakGlassRequests \/ handleBreakGlassRequestAction
  \/ handleJITAccessGrants \/ handleJITAccessGrantAction \/ handleJITAccessGrantValidate

GrantsSpec == GrantsInit /\ [][GrantsNext]_grantsVars

-----------------------------------------------------------------------------
(* Properties *)

\* The type of every variable.
GrantsTypeOK ==
  /\ clock \in 0..MaxClock
  /\ \A p \in DOMAIN policies : policies[p] \in ApprovalPolicies
  /\ \A i \in DOMAIN requests : requests[i] \in BreakGlassRequests
  /\ \A g \in DOMAIN grants : grants[g] \in JITAccessGrants /\ grants[g].request \in 0..Len(requests)
  /\ issuing \subseteq DOMAIN requests
  /\ revived \subseteq refused /\ refused \subseteq DOMAIN grants

ApproversOf(req, stage) ==
  {Fold[req.approvals[k].actor] : k \in {n \in DOMAIN req.approvals : req.approvals[n].stage = stage
                                                                      /\ req.approvals[n].decision = "approve"}}

\* A request that has ever been active has had, in each of its stages, the
\* required number of approvals of different people, also when one of them
\* spells a name in two ways (ApproveBreakGlassRequest); and every grant that
\* names a request was issued after that request had been activated, although
\* the handler looks it up and issues in two critical sections.
QuorumMet ==
  /\ \A i \in DOMAIN requests :
       requests[i].expires # None =>
         \A s \in DOMAIN requests[i].stages : Cardinality(ApproversOf(requests[i], s)) >= requests[i].stages[s]
  /\ \A g \in DOMAIN grants : grants[g].request # 0 => requests[grants[g].request].expires # None

\* A rejected, revoked or expired request stays what it is, and a grant that a
\* validation has once found revoked or expired passes no later one, although
\* the later one may work with an older time (expireLocked notes the expiry).
RefusalStep ==
  /\ \A i \in DOMAIN requests : requests[i].status \in Terminal => requests'[i].status = requests[i].status
  /\ revived' = {}
RefusalIsFinal == [][RefusalStep]_grantsVars
=============================================================================
