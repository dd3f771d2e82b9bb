----------------------------- MODULE AccessRules -----------------------------
(***************************************************************************)
(* The rules access is decided by: roles and bindings (rbac.go), policies  *)
(* on attributes (abac.go), grants of delegated administration             *)
(* (delegated_admin.go), authorities and component policies of mutual TLS  *)
(* (mtls.go) and the roles and teams a directory provisions (scim.go), all *)
(* of internal/control, with the handlers of internal/server.              *)
(*                                                                         *)
(* Every method is one critical section.  A decision changes nothing, so   *)
(* it is an operator, and the properties say what the decisions are in the *)
(* states the other calls reach.  The variable kind says which store is at *)
(* work.                                                                   *)
(***************************************************************************)
EXTENDS Integers, Sequences, FiniteSets, SequencesExt

CONSTANTS
  Subjects,              \* who asks: users and components
  Resources, Actions,    \* for what; a name is the sequence of its segments, as in "host.reboot"
  Scopes,                \* paths, sequences of segments too; <<>> is a missing one
  RoleInputs,            \* inputs of CreateRole: sets of permissions [resource, action, scope]
  PolicyInputs,          \* inputs of CreatePolicy: [effect, subject, resource, action, when, priority]
  Contexts,              \* attributes of a request: sets of pairs of a key and a value
  GrantInputs,           \* inputs of Create: [tenant, env, principal, scopes]
  Tenants, Environments,
  MTLSInputs,            \* inputs of SetPolicy: [min, cert, allowed]
  ExternalIds,
  MaxItems, MaxWait, MaxClock

VARIABLES
  kind,
  clock,
  items,   \* roles, policies, grants, authorities or provisioned roles: a sequence
  links    \* bindings, component policies or provisioned teams

vars == <<kind, clock, items, links>>

Star == <<"*">>
Nows == {t \in 0..clock : clock - t <= MaxWait}   \* what a caller that holds a mutex may have read
Put(f, k, v) == [x \in DOMAIN f \cup {k} |-> IF x = k THEN v ELSE f[x]]

-----------------------------------------------------------------------------
(* What the stores hold, and what they hold at first *)

RBACPermissions == [resource : {Star} \cup Resources, action : {Star} \cup Actions, scope : Scopes]
RBACBindings == [subject : Subjects, role : Nat \ {0}, scope : Scopes \cup {Star}]
ABACPolicies ==
  [effect : {"allow", "deny"}, subject : {Star} \cup Subjects, resource : {Star} \cup Resources,
   action : {Star} \cup Actions, when : {in.when : in \in PolicyInputs},
   priority : {in.priority : in \in PolicyInputs}, created : 0..MaxClock]
MTLSAuthorities == 1..MaxItems
MTLSComponentPolicies == [min : {"1.2", "1.3"}, cert : BOOLEAN, allowed : SUBSET MTLSAuthorities]
SCIMRoles == [external : ExternalIds]
SCIMTeams == [external : ExternalIds, roles : SUBSET ExternalIds]

NewRBACStore == [roles |-> <<>>, bindings |-> <<>>]
NewABACStore == <<>>
NewDelegatedAdminStore == <<>>
NewMTLSStore == [authorities |-> <<>>, policies |-> [c \in {} |-> 0]]
NewSCIMStore == [roles |-> <<>>, teams |-> <<>>]

Init ==
  /\ kind \in {"rbac", "abac", "admin", "mtls", "scim"} /\ clock = 0
  /\ items = CASE kind = "rbac" -> NewRBACStore.roles
               [] kind = "abac" -> NewABACStore
               [] kind = "admin" -> NewDelegatedAdminStore
               [] kind = "mtls" -> NewMTLSStore.authorities
               [] kind = "scim" -> NewSCIMStore.roles
  /\ links = CASE kind = "mtls" -> NewMTLSStore.policies
               [] kind = "scim" -> NewSCIMStore.teams
               [] OTHER -> NewRBACStore.bindings

Tick ==
  /\ kind = "abac" /\ clock < MaxClock
  /\ clock' = clock + 1
  /\ UNCHANGED <<kind, items, links>>

-----------------------------------------------------------------------------
(* Roles and bindings *)

normalizeRBACPermissions(in) == in # {} /\ \A p \in in : p.resource # <<>> /\ p.action # <<>>

CreateRole(in) == normalizeRBACPermissions(in) /\ items' = Append(items, in)

\* For a role that is there; a missing scope is every scope.
CreateBinding(subject, role, scope) ==
  /\ role \in DOMAIN items
  /\ links' = Append(links, [subject |-> subject, role |-> role, scope |-> IF scope = <<>> THEN Star ELSE scope])

rbacTokenMatches(pattern, value) == pattern = Star \/ pattern = value

\* A scope matches what lies below it.
rbacScopeMatches(pattern, scope) == pattern \in {<<>>, Star} \/ IsPrefix(pattern, scope)

CheckAccess(subject, resource, action, scope) ==
  \E b \in DOMAIN links :
    /\ links[b].subject = subject
    /\ rbacScopeMatches(links[b].scope, scope)
    /\ links[b].role \in DOMAIN items
    /\ \E p \in items[links[b].role] :
         /\ rbacTokenMatches(p.resource, resource) /\ rbacTokenMatches(p.action, action)
         /\ p.scope # <<>> => rbacScopeMatches(p.scope, scope)

handleRBACRoles ==
  /\ kind = "rbac" /\ Len(items) < MaxItems
  /\ \E in \in RoleInputs : CreateRole(in)
  /\ UNCHANGED <<kind, clock, links>>

handleRBACBindings ==
  /\ kind = "rbac" /\ Len(links) < MaxItems
  /\ \E subject \in Subjects, role \in 1..MaxItems, scope \in Scopes : CreateBinding(subject, role, scope)
  /\ UNCHANGED <<kind, clock, items>>

-----------------------------------------------------------------------------
(* Policies on attributes *)

CreatePolicy(in, now) ==
  /\ in.effect \in {"allow", "deny"}
  /\ items' = Append(items, Put(in, "created", now))

\* In the order of ListPolicies p may come before q.
ListedBefore(p, q) == p.priority > q.priority \/ (p.priority = q.priority /\ p.created >= q.created)

abacTokenMatch(pattern, value) == pattern = Star \/ pattern = value

\* A key the context lacks has the empty value.
abacConditionsMatch(conditions, context) ==
  \A c \in conditions : c \in context \/ (c[2] = "" /\ \A d \in context : d[1] # c[1])

Matching(subject, resource, action, context) ==
  {p \in DOMAIN items :
     /\ abacTokenMatch(items[p].subject, subject)
     /\ abacTokenMatch(items[p].resource, resource)
     /\ abacTokenMatch(items[p].action, action)
     /\ abacConditionsMatch(items[p].when, context)}

\* The policies that may decide: the first that matches, and none decides to refuse.
Deciding(subject, resource, action, context) ==
  LET fit == Matching(subject, resource, action, context) IN {p \in fit : \A q \in fit : ListedBefore(items[p], items[q])}

Check(subject, resource, action, context) ==
  LET first == Deciding(subject, resource, action, context) IN
  IF first = {} THEN {FALSE} ELSE {items[p].effect = "allow" : p \in first}

handleABACPolicies ==
  /\ kind = "abac" /\ Len(items) < MaxItems
  /\ \E in \in PolicyInputs, now \in Nows : CreatePolicy(in, now)
  /\ UNCHANGED <<kind, clock, links>>

-----------------------------------------------------------------------------
(* Delegated administration *)

\* An upper-case spelling of a name begins with "^".
lower(name) == SelectSeq(name, LAMBDA segment : segment # "^")

normalizeScopes(in) == {lower(s) : s \in in} \ {<<>>}

CreateGrant(in) ==
  /\ in.tenant # "" /\ in.env # "" /\ normalizeScopes(in.scopes) # {}
  /\ items' = Append(items, [in EXCEPT !.scopes = normalizeScopes(in.scopes)])

\* "host.*" is every action that begins with "host.".
matchesScope(scope, action) ==
  \/ scope = Star \/ scope = action
  \/ scope[Len(scope)] = "*" /\ Len(scope) > 1 /\ IsStrictPrefix(Front(scope), action)

Authorize(tenant, env, principal, action) ==
  {g \in DOMAIN items :
     /\ items[g].tenant = tenant
     /\ items[g].env \in {"*", env}
     /\ items[g].principal = principal
     /\ \E s \in items[g].scopes : matchesScope(s, lower(action))}

handleDelegatedAdminGrants ==
  /\ kind = "admin" /\ Len(items) < MaxItems
  /\ \E in \in GrantInputs : CreateGrant(in)
  /\ UNCHANGED <<kind, clock, links>>

-----------------------------------------------------------------------------
(* Mutual TLS *)

CreateAuthority == items' = Append(items, Len(items) + 1)

SetPolicy(component, in) ==
  LET min == IF in.min = "" THEN "1.2" ELSE in.min IN
  /\ min \in {"1.2", "1.3"} /\ in.allowed \subseteq DOMAIN items
  /\ links' = Put(links, component, [min |-> min, cert |-> in.cert, allowed |-> in.allowed])

tlsVersionAllowed(min, actual) == IF min = "1.3" THEN actual = "1.3" ELSE actual \in {"1.2", "1.3"}

CheckHandshake(component, authority, version, cert) ==
  /\ authority \in DOMAIN items /\ component \in DOMAIN links
  /\ LET policy == links[component] IN
     /\ tlsVersionAllowed(policy.min, version)
     /\ policy.cert => cert
     /\ policy.allowed # {} => authority \in policy.allowed

handleMTLSAuthorities ==
  /\ kind = "mtls" /\ Len(items) < MaxItems
  /\ CreateAuthority
  /\ UNCHANGED <<kind, clock, links>>

handleMTLSPolicies ==
  /\ kind = "mtls"
  /\ \E component \in Subjects, in \in MTLSInputs : SetPolicy(component, in)
  /\ UNCHANGED <<kind, clock, items>>

-----------------------------------------------------------------------------
(* Roles and teams of a directory *)

\* The one with this external identifier is changed, or another is made.
Upsert(list, item) ==
  IF \E i \in DOMAIN list : list[i].external = item.external
  THEN [i \in DOMAIN list |-> IF list[i].external = item.external THEN item ELSE list[i]]
  ELSE Append(list, item)

UpsertRole(external) == items' = Upsert(items, [external |-> external])
UpsertTeam(external, roles) == links' = Upsert(links, [external |-> external, roles |-> roles])

handleSCIMRoles ==
  /\ kind = "scim"
  /\ \E external \in ExternalIds : UpsertRole(external)
  /\ UNCHANGED <<kind, clock, links>>

handleSCIMTeams ==
  /\ kind = "scim"
  /\ \E external \in ExternalIds, roles \in SUBSET ExternalIds : UpsertTeam(external, roles)
  /\ UNCHANGED <<kind, clock, items>>

-----------------------------------------------------------------------------

Next ==
  \/ Tick \/ handleRBACRoles \/ handleRBACBindings \/ handleABACPolicies \/ handleDelegatedAdminGrants
  \/ handleMTLSAuthorities \/ handleMTLSPolicies \/ handleSCIMRoles \/ handleSCIMTeams

Spec == Init /\ [][Next]_vars

-----------------------------------------------------------------------------
(* Properties *)

\* The type of every variable.
TypeOK ==
  /\ clock \in 0..MaxClock
  /\ kind = "rbac" => (\A i \in DOMAIN items : items[i] \subseteq RBACPermissions) /\ \A b \in DOMAIN links : links[b] \in RBACBindings
  /\ kind = "abac" => \A i \in DOMAIN items : items[i] \in ABACPolicies
  /\ kind = "mtls" => \A c \in DOMAIN links : links[c] \in MTLSComponentPolicies
  /\ kind = "scim" => (\A i \in DOMAIN items : items[i] \in SCIMRoles) /\ \A t \in DOMAIN links : links[t] \in SCIMTeams

\* Decisions are consistent with one another.  Who may do something in a scope
\* may do it in every scope below; a grant of delegated administration decides
\* for its tenant only, in each of its environments, for all a scope like
\* "host.*" spans and for an action in either spelling; a handshake that is accepted is
\* accepted with a newer version and with a client certificate too, and a
\* component policy names authorities that are there; an external identifier
\* stands for one role and one team.
DecisionsConsistent ==
  /\ kind = "rbac" =>
       /\ \A s \in Subjects, r \in Resources, a \in Actions, low, high \in Scopes :
            IsPrefix(high, low) /\ CheckAccess(s, r, a, high) => CheckAccess(s, r, a, low)
       /\ \A b \in DOMAIN links : links[b].role \in DOMAIN items
  /\ kind = "admin" => \A g \in DOMAIN items, e \in Environments :
       LET grant == items[g]  for(t, a) == Authorize(t, e, grant.principal, a) IN
       /\ \A t \in Tenants \ {grant.tenant}, a \in Actions : g \notin for(t, a)
       /\ grant.env \in {"*", e} => \A s \in grant.scopes :
            IF s[Len(s)] = "*"
            THEN \A a \in Actions : Len(s) = 1 \/ IsStrictPrefix(Front(s), a) => g \in for(grant.tenant, a)
            ELSE g \in for(grant.tenant, s) /\ g \in for(grant.tenant, <<"^">> \o s)
  /\ kind = "mtls" =>
       /\ \A c \in Subjects, i \in MTLSAuthorities, cert \in BOOLEAN :
            CheckHandshake(c, i, "1.2", cert) => CheckHandshake(c, i, "1.3", TRUE)
       /\ \A c \in DOMAIN links : links[c].allowed \subseteq DOMAIN items
  /\ kind = "scim" =>
       /\ \A i, j \in DOMAIN items : items[i].external = items[j].external => i = j
       /\ \A i, j \in DOMAIN links : links[i].external = links[j].external => i = j

\* What a call may change.  No call takes away what bindings and grants allow,
\* or an identifier a directory has been given; and a new policy changes the
\* decision of a request only if it matches the request and has at least the
\* priority of the policy that decided.
DecisionStep ==
  /\ kind = "rbac" => \A s \in Subjects, r \in Resources, a \in Actions, p \in Scopes :
       CheckAccess(s, r, a, p) => CheckAccess(s, r, a, p)'
  /\ kind = "abac" => \A s \in Subjects, r \in Resources, a \in Actions, c \in Contexts :
       (Check(s, r, a, c) # Check(s, r, a, c)') =>
         /\ Len(items') \in Matching(s, r, a, c)'
         /\ \A p \in Deciding(s, r, a, c) : items'[Len(items')].priority >= items[p].priority
  /\ kind = "admin" => \A t \in Tenants, e \in Environments, p \in Subjects, a \in Actions :
       Authorize(t, e, p, a) \subseteq Authorize(t, e, p, a)'
  /\ kind = "scim" => (\A i \in DOMAIN items : items'[i] = items[i]) /\ \A t \in DOMAIN links : links'[t].external = links[t].external
DecisionsStable == [][DecisionStep]_vars
=============================================================================
