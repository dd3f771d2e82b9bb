------------------------------- MODULE Tokens --------------------------------
(***************************************************************************)
(* The stores that hand out things that end: delegation tokens with a      *)
(* number of uses, execution credentials, runtime secret sessions that can *)
(* be read once, workload credentials, and single sign-on logins           *)
(* (delegation_tokens.go, execution_credentials.go, runtime_secrets.go,    *)
(* oidc_workload.go and identity.go of internal/control, with the handlers *)
(* of the same names in internal/server).                                  *)
(*                                                                         *)
(* A behaviour has one of the stores at work.  A method reads the clock    *)
(* before it waits for the mutex, so its time may be up to MaxWait old.    *)
(* A token is known by its number: it is random and is found by its hash.  *)
(***************************************************************************)
EXTENDS Integers, Sequences, FiniteSets

CONSTANTS
  Scopes, Lower,       \* spellings of scopes, and the lower-case form of each
  TTLs,                \* inputs for ttl_seconds; 0 is a missing one
  MinTTL, DefaultTTL, MaxTTL,
  MaxUses,             \* inputs for max_uses; 0 is a missing one
  UsesLimit,           \* the largest max_uses that is accepted
  MaxItems,            \* bound on what is created
  MaxWait, MaxClock    \* bounds on the wait for a mutex and on the time

VARIABLES
  kind,      \* the store at work
  clock,
  items,     \* sequence of tokens, credentials, sessions or pending logins
  provider,  \* the provider of workload credentials or of logins
  uses,      \* history: how often each item has been used with success, where that is limited
  dead,      \* history: items that an operation has found ended
  revived    \* history: items used with success after that

tokensVars == <<kind, clock, items, provider, uses, dead, revived>>

Kinds == {"delegation", "credential", "secret", "workload", "login"}
Counted == {"delegation", "secret", "login"}   \* the stores that limit the uses
Nows == {t \in 0..clock : clock - t <= MaxWait}   \* what a caller that holds the mutex may have read
Names == {"ours", "theirs"}                       \* mail domains and service accounts
NoProvider == [made |-> FALSE]

-----------------------------------------------------------------------------
(* What the stores hold, and what they hold at first *)

DelegationTokens ==
  [expires : Nat, revoked : BOOLEAN, scopes : SUBSET {Lower[s] : s \in Scopes}, max : 1..UsesLimit, used : 0..UsesLimit]
ExecutionCredentials == [expires : Nat, revoked : BOOLEAN, scopes : SUBSET {Lower[s] : s \in Scopes}]
RuntimeSecretSessions == [expires : Nat, payload : BOOLEAN, consumed : BOOLEAN, destroyed : BOOLEAN]
OIDCWorkloadCredentials == [expires : Nat, gone : BOOLEAN]
Sessions == [open : BOOLEAN, expires : Nat]
PendingLogins == [expires : Nat, gone : BOOLEAN, session : Sessions]   \* with the session that comes of it
Providers == [made : {TRUE}, enabled : BOOLEAN, allowed : SUBSET Names]

NewDelegationTokenStore == <<>>
NewIdentityStore == NoProvider

TokensInit ==
  /\ kind \in Kinds
  /\ clock = 0
  /\ items = NewDelegationTokenStore /\ uses = <<>>
  /\ provider = NewIdentityStore
  /\ dead = {} /\ revived = {}

Tick ==
  /\ clock < MaxClock
  /\ clock' = clock + 1
  /\ UNCHANGED <<kind, items, provider, uses, dead, revived>>

Lifetimes == {IF ttl <= 0 THEN DefaultTTL ELSE ttl : ttl \in TTLs} \cap MinTTL..MaxTTL

normalizeStringSlice(scopes) == {Lower[s] : s \in scopes}

Create(item) ==
  /\ Len(items) < MaxItems
  /\ items' = Append(items, item)
  /\ uses' = Append(uses, 0)
  /\ UNCHANGED <<kind, clock, provider, dead, revived>>

\* The outcome of an operation that would use item i: the item is used, or it was found ended for good.
Used(i) ==
  /\ uses' = IF kind \in Counted THEN [uses EXCEPT ![i] = @ + 1] ELSE uses
  /\ revived' = revived \cup (dead \cap {i})
  /\ UNCHANGED <<kind, clock, provider, dead>>
Refused(i, forGood) ==
  /\ dead' = IF forGood THEN dead \cup {i} ELSE dead
  /\ UNCHANGED <<kind, clock, provider, uses, revived>>
Only(newItems) == items' = newItems /\ UNCHANGED <<kind, clock, provider, uses, dead, revived>>

-----------------------------------------------------------------------------
(* Delegation tokens *)

IssueDelegation(scopes, max, ttl, now) ==
  /\ kind = "delegation"
  /\ scopes # {} /\ max <= UsesLimit
  /\ Create([expires |-> now + ttl, revoked |-> FALSE, scopes |-> normalizeStringSlice(scopes),
             max |-> IF max <= 0 THEN 1 ELSE max, used |-> 0])

\* cleanupExpiredLocked notes an expiry as a revocation.
cleanupExpired(now) == [i \in DOMAIN items |-> [items[i] EXCEPT !.revoked = @ \/ now >= items[i].expires]]

\* The required scope is compared as it is spelled; a token without one is asked for nothing.
ValidateDelegation(i, required, now) ==
  LET swept == cleanupExpired(now)
      item == swept[i]
      live == ~item.revoked /\ now < item.expires
      granted == required \subseteq item.scopes
  IN /\ kind = "delegation"
     /\ IF live /\ granted /\ item.used < item.max
        THEN items' = [swept EXCEPT ![i].used = @ + 1] /\ Used(i)
        ELSE items' = swept /\ Refused(i, ~live \/ item.used >= item.max)

RevokeDelegation(i) == items' = [items EXCEPT ![i].revoked = TRUE] /\ Refused(i, TRUE)

ListDelegations(now) == kind = "delegation" /\ Only(cleanupExpired(now))

-----------------------------------------------------------------------------
(* Execution credentials *)

IssueCredential(scopes, ttl, now) ==
  /\ kind = "credential"
  /\ Create([expires |-> now + ttl, revoked |-> FALSE, scopes |-> normalizeStringSlice(scopes)])

missingExecutionCredentialScopes(actual, required) == normalizeStringSlice(required) \ actual

\* A copy is judged after the mutex is released; nothing is noted, so only a revocation is for good.
ValidateCredential(i, required, now) ==
  LET item == items[i]
  IN /\ kind = "credential"
     /\ UNCHANGED items
     /\ IF ~item.revoked /\ now < item.expires /\ missingExecutionCredentialScopes(item.scopes, required) = {}
        THEN Used(i) ELSE Refused(i, item.revoked)

RevokeCredential(i) == items' = [items EXCEPT ![i].revoked = TRUE] /\ Refused(i, TRUE)

-----------------------------------------------------------------------------
(* Runtime secret sessions *)

\* The payload is overwritten; an expired session also counts as consumed.
zeroizeRecord(record, expired) ==
  [record EXCEPT !.payload = FALSE, !.consumed = @ \/ expired, !.destroyed = TRUE]

cleanupSecrets(now) ==
  [i \in DOMAIN items |-> IF now >= items[i].expires /\ ~items[i].destroyed THEN zeroizeRecord(items[i], TRUE) ELSE items[i]]

Materialize(ttl, now) ==
  /\ kind = "secret" /\ Len(items) < MaxItems
  /\ items' = Append(cleanupSecrets(now), [expires |-> now + ttl, payload |-> TRUE, consumed |-> FALSE, destroyed |-> FALSE])
  /\ uses' = Append(uses, 0)
  /\ UNCHANGED <<kind, clock, provider, dead, revived>>

Consume(i, now) ==
  LET swept == cleanupSecrets(now)
  IN /\ kind = "secret"
     /\ IF ~swept[i].destroyed /\ ~swept[i].consumed
        THEN items' = [swept EXCEPT ![i].consumed = TRUE, ![i].payload = FALSE] /\ Used(i)
        ELSE items' = swept /\ Refused(i, TRUE)

Destroy(i) ==
  /\ kind = "secret"
  /\ items' = [items EXCEPT ![i] = zeroizeRecord(@, FALSE)]
  /\ Refused(i, TRUE)

ListSecrets(now) == kind = "secret" /\ Only(cleanupSecrets(now))

-----------------------------------------------------------------------------
(* Workload credentials and sign-on logins, which are deleted *)

CreateProvider(allowed) ==
  /\ ~provider.made
  /\ provider' = [made |-> TRUE, enabled |-> TRUE, allowed |-> allowed]
  /\ UNCHANGED <<kind, clock, items, uses, dead, revived>>

expireCreds(now) == [i \in DOMAIN items |-> [items[i] EXCEPT !.gone = @ \/ now >= items[i].expires]]

\* An exchange sweeps at a time that it reads under the mutex, also when it is refused.
Exchange(account) ==
  LET allowed == provider.allowed = {} \/ account \in provider.allowed
  IN /\ provider.made /\ Len(items) < MaxItems
     /\ items' = expireCreds(clock) \o (IF allowed THEN <<[expires |-> clock + DefaultTTL, gone |-> FALSE]>> ELSE <<>>)
     /\ uses' = IF allowed THEN Append(uses, 0) ELSE uses
     /\ UNCHANGED <<kind, clock, provider, dead, revived>>

GetCredential(i, now) ==
  LET swept == expireCreds(now)
  IN items' = swept /\ IF swept[i].gone THEN Refused(i, TRUE) ELSE Used(i)

\* A provider that lists no domains allows all of them.
emailDomainAllowed(domain) == provider.allowed = {} \/ domain \in provider.allowed

expirePending(now) == [i \in DOMAIN items |-> [items[i] EXCEPT !.gone = @ \/ now >= items[i].expires]]

\* StartLogin keeps a pending login under a random state, if the provider is enabled...
StartLogin(domain) ==
  /\ provider.made /\ provider.enabled /\ emailDomainAllowed(domain)
  /\ Create([expires |-> clock + DefaultTTL, gone |-> FALSE, session |-> [open |-> FALSE, expires |-> 0]])

\* ...and CompleteLogin takes it away and opens a session, if the address is of an allowed domain.
CompleteLogin(i, domain, now) ==
  LET swept == expirePending(now)
      taken == [swept EXCEPT ![i].gone = TRUE]
  IN IF ~swept[i].gone /\ emailDomainAllowed(domain)
     THEN items' = [taken EXCEPT ![i].session = [open |-> TRUE, expires |-> now + DefaultTTL]] /\ Used(i)
     ELSE items' = taken /\ Refused(i, TRUE)

expireSessions(now) ==
  [i \in DOMAIN items |-> [items[i] EXCEPT !.session.open = @ /\ now < items[i].session.expires]]

\* The session of login i counts as item MaxItems + i where its end is noted.
GetSession(i, now) ==
  LET swept == expireSessions(now)
  IN /\ items[i].session.expires # 0
     /\ items' = swept
     /\ dead' = IF swept[i].session.open THEN dead ELSE dead \cup {MaxItems + i}
     /\ revived' = IF swept[i].session.open THEN revived \cup (dead \cap {MaxItems + i}) ELSE revived
     /\ UNCHANGED <<kind, clock, provider, uses>>

SetProviderEnabled(on) ==
  /\ provider.made
  /\ provider' = [provider EXCEPT !.enabled = on]
  /\ UNCHANGED <<kind, clock, items, uses, dead, revived>>

-----------------------------------------------------------------------------
(* Specification *)

\* The handlers of /v1/access/delegation-tokens and /v1/execution/credentials
handleDelegationTokens ==
  \/ \E scopes \in SUBSET Scopes, max \in MaxUses, ttl \in Lifetimes, now \in Nows : IssueDelegation(scopes, max, ttl, now)
  \/ \E now \in Nows : ListDelegations(now)
handleDelegationTokenValidate ==
  \E i \in DOMAIN items, required \in {{}} \cup {{s} : s \in Scopes}, now \in Nows : ValidateDelegation(i, required, now)
handleExecutionCredentials ==
  \E scopes \in SUBSET Scopes, ttl \in Lifetimes, now \in Nows : IssueCredential(scopes, ttl, now)
handleExecutionCredentialValidate ==
  \E i \in DOMAIN items, required \in SUBSET Scopes, now \in Nows : ValidateCredential(i, required, now)
handleDelegationTokenAction ==
  kind = "delegation" /\ ((\E i \in DOMAIN items : RevokeDelegation(i)) \/ \E now \in Nows : ListDelegations(now))
handleExecutionCredentialAction == kind = "credential" /\ \E i \in DOMAIN items : RevokeCredential(i)

\* The handlers of /v1/secrets/runtime
handleRuntimeSecretSessions ==
  \/ \E ttl \in Lifetimes, now \in Nows : Materialize(ttl, now)
  \/ \E now \in Nows : ListSecrets(now)
handleRuntimeSecretConsume == \E i \in DOMAIN items, now \in Nows : Consume(i, now)
handleRuntimeSecretSessionAction == \E i \in DOMAIN items : Destroy(i)

\* The handlers of /v1/identity
handleOIDCWorkloadProviders == kind = "workload" /\ \E allowed \in {{}, {"ours"}} : CreateProvider(allowed)
handleOIDCWorkloadExchange == kind = "workload" /\ \E account \in Names : Exchange(account)
handleOIDCWorkloadCredentialAction == kind = "workload" /\ \E i \in DOMAIN items, now \in Nows : GetCredential(i, now)
handleSSOProviders == kind = "login" /\ \E allowed \in {{}, {"ours"}} : CreateProvider(allowed)
handleSSOProviderAction == kind = "login" /\ \E on \in BOOLEAN : SetProviderEnabled(on)
handleSSOLoginStart == kind = "login" /\ \E domain \in Names : StartLogin(domain)
handleSSOLoginCallback == kind = "login" /\ \E i \in DOMAIN items, domain \in Names, now \in Nows : CompleteLogin(i, domain, now)
handleSSOSessionAction == kind = "login" /\ \E i \in DOMAIN items, now \in Nows : GetSession(i, now)

TokensNext ==
  \/ Tick
  \/ handleDelegationTokens \/ handleDelegationTokenValidate
  \/ handleExecutionCredentials \/ handleExecutionCredentialValidate
  \/ handleDelegationTokenAction \/ handleExecutionCredentialAction
  \/ handleRuntimeSecretSessions \/ handleRuntimeSecretConsume \/ handleRuntimeSecretSessionAction
  \/ handleOIDCWorkloadProviders \/ handleOIDCWorkloadExchange \/ handleOIDCWorkloadCredentialAction
  \/ handleSSOProviders \/ handleSSOProviderAction \/ handleSSOLoginStart \/ handleSSOLoginCallback
  \/ handleSSOSessionAction

TokensSpec == TokensInit /\ [][TokensNext]_tokensVars

-----------------------------------------------------------------------------
(* Properties *)

\* The type of every variable.
TokensTypeOK ==
  /\ kind \in Kinds /\ clock \in 0..MaxClock
  /\ provider = NoProvider \/ provider \in Providers
  /\ \A i \in DOMAIN items :
       items[i] \in CASE kind = "delegation" -> DelegationTokens [] kind = "credential" -> ExecutionCredentials
                      [] kind = "secret" -> RuntimeSecretSessions [] kind = "workload" -> OIDCWorkloadCredentials
                      [] kind = "login" -> PendingLogins
  /\ DOMAIN uses = DOMAIN items /\ \A i \in DOMAIN uses : uses[i] \in Nat
  /\ revived \subseteq dead /\ dead \subseteq 1..(2 * MaxItems)

\* A delegation token is accepted as often as max_uses says at the most and
\* counts exactly the uses it was accepted for, a secret is read once and
\* its payload is gone as soon as it has been read, destroyed or swept, and a
\* pending login opens one session, whoever asks at the same time.
UsesBounded ==
  \A i \in DOMAIN items :
    /\ kind = "delegation" => uses[i] = items[i].used /\ uses[i] <= items[i].max
    /\ kind = "secret" => uses[i] <= 1 /\ (items[i].payload <=> ~(items[i].consumed \/ items[i].destroyed))
    /\ kind = "login" => uses[i] <= 1

\* What an operation has found revoked, exhausted, consumed, destroyed or
\* deleted, sessions included, is never used again, although a later operation may work with an
\* older time (cleanupExpiredLocked and expirePendingLocked note the expiry).
EndIsFinal == revived = {}
=============================================================================
