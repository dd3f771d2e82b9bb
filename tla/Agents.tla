------------------------------- MODULE Agents --------------------------------
(***************************************************************************)
(* Agents and nodes: certificate requests, certificates, their rotation    *)
(* and renewal (agent_pki.go) behind the attestation of agents             *)
(* (agent_attestation.go), and the nodes of the runtime inventory with     *)
(* discovery, cloud synchronisation and check-ins (node_lifecycle.go,      *)
(* discovery_inventory.go, agent_checkin.go), of internal/control with     *)
(* their handlers in internal/server.                                      *)
(*                                                                         *)
(* Each store has a lock of its own and its methods are steps; the         *)
(* handlers call several, so that a certificate is issued some time after  *)
(* the attestation was looked at.  Two methods are steps of their own      *)
(* inside the store too: attestation evidence is judged by a policy read   *)
(* before the lock is taken, and a renewal goes through the certificates   *)
(* in an order, and over a set, that is Go's choice as it grows the map it *)
(* ranges over.  The variable kind says which part is at work; with        *)
(* "attest" certificates are only requested and approved, with "certs"     *)
(* attestation is never required: its check then changes nothing and reads *)
(* nothing that changes, and the call is one step.                         *)
(***************************************************************************)
EXTENDS Integers, Sequences, FiniteSets, SequencesExt

CONSTANTS
  Callers, AgentIds,
  Withins,        \* hours ahead a renewal may look
  Life,           \* the life of a certificate (90 days)
  AskedProviders, \* providers a policy may be asked to allow; {} asks for all
  Ages,           \* values of max_age_minutes
  Splay,          \* agent -> its hash
  Intervals,      \* check-in intervals
  MaxEvidence, MaxCerts, MaxChanges,   \* bounds on what is made
  MaxCSRs,        \* kind -> bound on the requests made
  MaxWait,        \* how old the time a call has read may be when it is used
  MaxClock

VARIABLES
  kind, clock,
  pki,        \* certificate policy: [auto, required], required if an attribute is asked for
  policy,     \* attestation policy: [require, providers, age]
  evidence,   \* attestations: [agent, verified, expires]
  until,      \* agent -> the latest end of verified evidence it ever had
  csrs, certs,
  holder,     \* the caller that is renewing with the lock of the PKI store held, as a set
  sources,    \* whether discovery sources have been created enabled or disabled
  nodes,      \* node -> [status, history], for the nodes enrolled
  created,    \* nodes the syncs and enrolments have answered as created
  checkins,   \* agent -> its latest check-in
  pc          \* caller -> where its call stands

vars == <<kind, clock, pki, policy, evidence, until, csrs, certs, holder, sources, nodes, created, checkins, pc>>
pkiVars == <<pki, csrs, certs, holder>>
attVars == <<policy, evidence, until>>
nodeVars == <<sources, nodes, created, checkins>>

Idle == [at |-> "idle"]
Providers == {"tpm", "aws_iid"}

Init ==
  /\ kind \in {"attest", "certs", "nodes", "checkins"} /\ clock = 0
  /\ pki = [auto |-> FALSE, required |-> FALSE]
  /\ policy = [require |-> FALSE, providers |-> Providers, age |-> 1]
  /\ evidence = {} /\ until = [a \in AgentIds |-> 0] /\ csrs = <<>> /\ certs = <<>> /\ holder = {}
  /\ sources = {} /\ nodes = [n \in {} |-> {}] /\ created = 0 /\ checkins = [a \in {} |-> {}]
  /\ pc = [c \in Callers |-> Idle]

\* A time a call read no longer than MaxWait ago.
Nows == {t \in 0..clock : clock - t <= MaxWait}

\* Time passes, but no call is held up for longer than MaxWait.
Tick ==
  /\ clock < MaxClock /\ clock' = clock + 1
  /\ \A c \in Callers : pc[c] # Idle => pc[c].since + MaxWait > clock
  /\ UNCHANGED <<kind, pkiVars, attVars, nodeVars, pc>>

Goto(c, next) == pc' = [pc EXCEPT ![c] = next]

-----------------------------------------------------------------------------
(* What the stores hold *)

AttestationPolicies == [require : BOOLEAN, providers : SUBSET Providers \ {{}}, age : Ages]
AttestationEvidence == [agent : AgentIds, verified : BOOLEAN, expires : Nat]
CertificatePolicies == [auto : BOOLEAN, required : BOOLEAN]
AgentCSRs == [agent : AgentIds, status : {"pending", "issued", "rejected"}, cert : Nat]
AgentCertificates == [agent : AgentIds, status : {"active", "rotated", "revoked"}, issued : Nat, expires : Nat, by : Nat]
NodeStatuses == {"bootstrap", "active", "quarantined", "decommissioned"}
ManagedNodes == [status : NodeStatuses, history : Seq(NodeStatuses)]
AgentCheckins == [last : Nat, most : Nat, interval : Nat \ {0}, next : Nat]

-----------------------------------------------------------------------------
(* Attestation *)

SetAttestationPolicy(require, asked, age) ==
  policy' = [require |-> require, providers |-> IF asked = {} THEN Providers ELSE asked, age |-> age]

handleAgentAttestationPolicy ==
  /\ kind = "attest"
  /\ \E require \in BOOLEAN, asked \in AskedProviders, age \in Ages : SetAttestationPolicy(require, asked, age)
  /\ UNCHANGED <<kind, clock, pkiVars, evidence, until, nodeVars, pc>>

\* Evidence is judged, and given its end, by the policy read before the lock is taken.
JudgeEvidence(c) ==
  /\ kind = "attest" /\ pc[c] = Idle
  /\ \E a \in AgentIds, provider \in Providers :
       Goto(c, [at |-> "attest", since |-> clock, agent |-> a, verified |-> provider \in policy.providers, age |-> policy.age])
  /\ UNCHANGED <<kind, clock, pkiVars, attVars, nodeVars>>

StoreEvidence(c) ==
  /\ pc[c].at = "attest" /\ Cardinality(evidence) < MaxEvidence
  /\ evidence' = evidence \cup {[agent |-> pc[c].agent, verified |-> pc[c].verified,
                                 expires |-> pc[c].since + pc[c].age]}
  /\ until' = IF pc[c].verified /\ pc[c].since + pc[c].age > until[pc[c].agent]
              THEN [until EXCEPT ![pc[c].agent] = pc[c].since + pc[c].age] ELSE until
  /\ Goto(c, Idle)
  /\ UNCHANGED <<kind, clock, pkiVars, policy, nodeVars>>

handleAgentAttestations(c) == JudgeEvidence(c) \/ StoreEvidence(c)

expireLocked(now) == {e \in evidence : now < e.expires}

\* Listing or reading evidence removes what has expired.
ListEvidence ==
  /\ kind = "attest" /\ \E now \in Nows : evidence' = expireLocked(now)
  /\ UNCHANGED <<kind, clock, pkiVars, policy, until, nodeVars, pc>>

\* CheckForCertificate for a call that goes on to next: the policy is read, ...
CheckPolicy(c, a, next, id) ==
  /\ Goto(c, [at |-> IF policy.require THEN "evidence" ELSE next, since |-> clock, agent |-> a, next |-> next, id |-> id,
              required |-> policy.require])
  /\ UNCHANGED <<kind, clock, pkiVars, attVars, nodeVars>>

\* ... and if it requires evidence, the latest that is verified and not expired is looked for.
CheckEvidence(c) ==
  /\ pc[c].at = "evidence"
  /\ \E now \in {t \in Nows : t >= pc[c].since} :
       /\ evidence' = expireLocked(now)
       /\ Goto(c, IF \E e \in expireLocked(now) : e.agent = pc[c].agent /\ e.verified
                  THEN [pc[c] EXCEPT !.at = pc[c].next] ELSE Idle)
  /\ UNCHANGED <<kind, clock, pkiVars, policy, until, nodeVars>>

-----------------------------------------------------------------------------
(* Certificates *)

SetCertPolicy(auto, required) == pki' = [auto |-> auto, required |-> required]

handleAgentCertPolicy ==
  /\ kind = "certs" /\ holder = {}
  /\ \E auto, required \in BOOLEAN : SetCertPolicy(auto, required)
  /\ UNCHANGED <<kind, clock, csrs, certs, holder, attVars, nodeVars, pc>>

issueCertificateLocked(list, a, now) ==
  Append(list, [agent |-> a, status |-> "active", issued |-> now, expires |-> now + Life, by |-> 0])

\* attrs says whether the request has the attribute a policy may require.
csrMatchesPolicy(attrs) == pki.required => attrs

SubmitCSR(a, attrs) ==
  LET auto == pki.auto /\ csrMatchesPolicy(attrs) IN
  /\ holder = {} /\ Len(csrs) < MaxCSRs[kind] /\ Len(certs) < MaxCerts
  /\ csrs' = Append(csrs, [agent |-> a, status |-> IF auto THEN "issued" ELSE "pending",
                           cert |-> IF auto THEN Len(certs) + 1 ELSE 0])
  /\ certs' = IF auto THEN issueCertificateLocked(certs, a, clock) ELSE certs
  /\ UNCHANGED <<kind, clock, pki, holder, attVars, nodeVars>>

handleAgentCSRs(c) ==
  \/ kind = "attest" /\ pc[c] = Idle /\ \E a \in AgentIds : CheckPolicy(c, a, "submit", 0)
  \/ CheckEvidence(c)
  \/ pc[c].at = "submit" /\ (\E attrs \in BOOLEAN : SubmitCSR(pc[c].agent, attrs)) /\ Goto(c, Idle)
  \/ kind = "certs" /\ pc[c] = Idle /\ (\E a \in AgentIds, attrs \in BOOLEAN : SubmitCSR(a, attrs)) /\ UNCHANGED pc

DecideCSR(i, decision) ==
  /\ holder = {} /\ csrs[i].status = "pending" /\ Len(certs) < MaxCerts
  /\ csrs' = [csrs EXCEPT ![i].status = IF decision = "approve" THEN "issued" ELSE "rejected",
                          ![i].cert = IF decision = "approve" THEN Len(certs) + 1 ELSE 0]
  /\ certs' = IF decision = "approve" THEN issueCertificateLocked(certs, csrs[i].agent, clock) ELSE certs
  /\ UNCHANGED <<kind, clock, pki, holder, attVars, nodeVars>>

\* The agent is read from the request and checked as above; a request that has been
\* decided meanwhile is refused.
handleAgentCSRAction(c) ==
  \/ kind = "attest" /\ pc[c] = Idle /\ \E i \in DOMAIN csrs : CheckPolicy(c, csrs[i].agent, "approve", i)
  \/ pc[c].at = "approve" /\ DecideCSR(pc[c].id, "approve") /\ Goto(c, Idle)
  \/ /\ pc[c].at = "approve" /\ csrs[pc[c].id].status # "pending" /\ Goto(c, Idle)
     /\ UNCHANGED <<kind, clock, pkiVars, attVars, nodeVars>>
  \/ kind = "certs" /\ pc[c] = Idle /\ (\E i \in DOMAIN csrs : DecideCSR(i, "approve")) /\ UNCHANGED pc
  \/ pc[c] = Idle /\ (\E i \in DOMAIN csrs : DecideCSR(i, "reject")) /\ UNCHANGED pc

RevokeCertificate(i) == holder = {} /\ certs' = [certs EXCEPT ![i].status = "revoked"]

handleAgentCertificateAction ==
  /\ kind = "certs" /\ \E i \in DOMAIN certs : RevokeCertificate(i)
  /\ UNCHANGED <<kind, clock, pki, csrs, holder, attVars, nodeVars, pc>>

Rotated(i, now) == issueCertificateLocked([certs EXCEPT ![i].status = "rotated", ![i].by = Len(certs) + 1], certs[i].agent, now)

\* The latest of the agent's active certificates is replaced, any of those issued at the
\* same time; an agent without one is issued one.
RotateAgentCertificate(a) ==
  LET active == {i \in DOMAIN certs : certs[i].agent = a /\ certs[i].status = "active"} IN
  /\ holder = {} /\ Len(certs) < MaxCerts
  /\ IF active = {} THEN certs' = issueCertificateLocked(certs, a, clock)
     ELSE \E i \in active : /\ \A j \in active : certs[j].issued <= certs[i].issued
                            /\ certs' = Rotated(i, clock)

handleAgentCertificateRotate ==
  /\ kind = "certs" /\ \E a \in AgentIds : RotateAgentCertificate(a)
  /\ UNCHANGED <<kind, clock, pki, csrs, holder, attVars, nodeVars, pc>>

\* What a renewal replaces when the range over the certificates comes to it.
Expiring(threshold) == {i \in DOMAIN certs : certs[i].status = "active" /\ certs[i].expires <= threshold}

\* A renewal holds the lock while it ranges over the certificates: each that was there at
\* its start is visited, one it adds itself may be or not.
BeginRenewal(c) ==
  /\ kind = "certs" /\ pc[c] = Idle /\ holder = {}
  /\ \E within \in Withins, now \in Nows :
       Goto(c, [at |-> "renew", since |-> clock, threshold |-> now + within, there |-> Len(certs)])
  /\ holder' = {c}
  /\ UNCHANGED <<kind, clock, pki, csrs, certs, attVars, nodeVars>>

RenewNext(c) ==
  /\ pc[c].at = "renew" /\ Len(certs) < MaxCerts
  /\ \E i \in Expiring(pc[c].threshold) : certs' = Rotated(i, clock)
  /\ UNCHANGED <<kind, clock, pki, csrs, holder, attVars, nodeVars, pc>>

\* The bound on certificates ends a renewal too.
EndRenewal(c) ==
  /\ pc[c].at = "renew" /\ (Expiring(pc[c].threshold) \cap 1..pc[c].there = {} \/ Len(certs) = MaxCerts)
  /\ Goto(c, Idle) /\ holder' = {}
  /\ UNCHANGED <<kind, clock, pki, csrs, certs, attVars, nodeVars>>

handleAgentCertificateRenewExpiring(c) == BeginRenewal(c) \/ RenewNext(c) \/ EndRenewal(c)

-----------------------------------------------------------------------------
(* Nodes: the agents are the nodes' names *)

Enroll(n) ==
  IF n \in DOMAIN nodes THEN UNCHANGED <<nodes, created>>
  ELSE /\ nodes' = [m \in DOMAIN nodes \cup {n} |-> IF m = n THEN [status |-> "bootstrap", history |-> <<"bootstrap">>] ELSE nodes[m]]
       /\ created' = created + 1

handleRuntimeHosts ==
  /\ kind = "nodes" /\ \E n \in AgentIds : Enroll(n)
  /\ UNCHANGED <<kind, clock, pkiVars, attVars, sources, checkins, pc>>

CreateSource(enabled) == sources' = sources \cup {enabled}

handleDiscoverySources ==
  /\ kind = "nodes" /\ \E enabled \in BOOLEAN : CreateSource(enabled)
  /\ UNCHANGED <<kind, clock, pkiVars, attVars, nodes, created, checkins, pc>>

\* A sync enrols the hosts it is given one after the other, other calls come between.
EnrollNext(c) ==
  /\ pc[c].at = "sync" /\ Enroll(Head(pc[c].hosts))
  /\ Goto(c, IF Len(pc[c].hosts) = 1 THEN Idle ELSE [pc[c] EXCEPT !.hosts = Tail(@)])
  /\ UNCHANGED <<kind, clock, pkiVars, attVars, sources, checkins>>

PrepareSync(c, hosts) == TRUE \in sources /\ Goto(c, [at |-> "sync", since |-> clock, hosts |-> hosts])

handleDiscoverySourceSync(c) ==
  \/ /\ kind = "nodes" /\ pc[c] = Idle /\ \E hosts \in SeqOf(AgentIds, 2) \ {<<>>} : PrepareSync(c, hosts)
     /\ UNCHANGED <<kind, clock, pkiVars, attVars, nodeVars>>
  \/ EnrollNext(c)

\* A cloud names its provider in the call and needs no source.
handleCloudInventorySync(c) ==
  \/ /\ kind = "nodes" /\ pc[c] = Idle
     /\ \E hosts \in SeqOf(AgentIds, 2) \ {<<>>} : Goto(c, [at |-> "sync", since |-> clock, hosts |-> hosts])
     /\ UNCHANGED <<kind, clock, pkiVars, attVars, nodeVars>>
  \/ EnrollNext(c)

SetStatus(n, status) ==
  /\ n \in DOMAIN nodes /\ Len(nodes[n].history) <= MaxChanges
  /\ nodes' = [nodes EXCEPT ![n] = [status |-> status, history |-> Append(@.history, status)]]

handleRuntimeHostAction ==
  /\ kind = "nodes"
  /\ \E n \in AgentIds, status \in NodeStatuses : SetStatus(n, status)
  /\ UNCHANGED <<kind, clock, pkiVars, attVars, sources, created, checkins, pc>>

deterministicSplay(a, most) == IF most <= 0 THEN 0 ELSE Splay[a] % (most + 1)

\* The intervals are also the values of the splay an agent asks for.
Checkin(a, interval, most, now) ==
  LET every == IF interval <= 0 THEN 2 ELSE interval IN
  checkins' = [b \in DOMAIN checkins \cup {a} |->
    IF b = a THEN [last |-> now, most |-> most, interval |-> every, next |-> now + every + deterministicSplay(a, most)]
    ELSE checkins[b]]

handleAgentCheckins ==
  /\ kind = "checkins"
  /\ \E a \in AgentIds, interval, most \in Intervals, now \in Nows : Checkin(a, interval, most, now)
  /\ UNCHANGED <<kind, clock, pkiVars, attVars, sources, nodes, created, pc>>

-----------------------------------------------------------------------------

Next ==
  \/ Tick \/ handleAgentAttestationPolicy \/ ListEvidence \/ handleAgentCertPolicy
  \/ handleAgentCertificateAction \/ handleAgentCertificateRotate
  \/ handleRuntimeHosts \/ handleDiscoverySources \/ handleRuntimeHostAction \/ handleAgentCheckins
  \/ \E c \in Callers :
       \/ handleAgentAttestations(c) \/ handleAgentCSRs(c) \/ handleAgentCSRAction(c)
       \/ handleAgentCertificateRenewExpiring(c) \/ handleDiscoverySourceSync(c) \/ handleCloudInventorySync(c)

Spec == Init /\ [][Next]_vars

-----------------------------------------------------------------------------
(* Properties *)

\* The type of every variable.
TypeOK ==
  /\ clock \in 0..MaxClock /\ policy \in AttestationPolicies /\ pki \in CertificatePolicies
  /\ evidence \subseteq AttestationEvidence /\ until \in [AgentIds -> Nat]
  /\ csrs \in Seq(AgentCSRs) /\ (csrs = <<>> \/ Len(csrs) <= MaxCSRs[kind]) /\ certs \in Seq(AgentCertificates) /\ Len(certs) <= MaxCerts
  /\ DOMAIN nodes \subseteq AgentIds /\ \A n \in DOMAIN nodes : nodes[n] \in ManagedNodes
  /\ DOMAIN checkins \subseteq AgentIds /\ \A a \in DOMAIN checkins : checkins[a] \in AgentCheckins

\* Every certificate a request was issued is the request's own and its agent's; every
\* certificate that was replaced names a later one of the same agent, no two name the
\* same, and none names one that a request was issued.  This holds within a renewal too,
\* however the range over the growing map goes, and with a renewal that looks further
\* ahead than a certificate lives.
ChainSound ==
  /\ \A i \in DOMAIN csrs : csrs[i].status = "issued" => csrs[i].cert \in DOMAIN certs /\ certs[csrs[i].cert].agent = csrs[i].agent
  /\ \A i, j \in DOMAIN csrs : i # j /\ csrs[i].cert # 0 => csrs[i].cert # csrs[j].cert
  /\ \A i \in DOMAIN certs : certs[i].status = "rotated" \/ certs[i].by # 0 =>
       /\ certs[i].by \in i + 1..Len(certs) /\ certs[certs[i].by].agent = certs[i].agent
       /\ \A j \in DOMAIN certs : j # i => certs[j].by # certs[i].by
       /\ \A k \in DOMAIN csrs : csrs[k].cert # certs[i].by

\* A certificate that is no longer active never is again, a request that was decided stays
\* decided, and what a certificate was replaced by never changes.
EndStep ==
  /\ \A i \in DOMAIN certs : certs[i].status # "active" => certs'[i].status # "active" /\ certs'[i].by = certs[i].by
  /\ \A i \in DOMAIN certs : certs[i].status = "revoked" => certs'[i] = certs[i]
  /\ \A i \in DOMAIN csrs : csrs[i].status # "pending" => csrs'[i] = csrs[i]
EndIsFinal == [][EndStep]_vars

\* A call that has passed a policy that requires attestation, and is about to have a
\* request made or approved, is for an agent that had verified evidence still good when
\* the call began, so that the evidence a certificate rests on has ended at most as long
\* ago as a call takes.
Attested ==
  \A c \in Callers : pc[c].at \in {"submit", "approve"} /\ pc[c].required =>
    until[pc[c].agent] > pc[c].since /\ pc[c].since \in Nows

\* A node is answered as created once, by whichever of the calls that name it comes first;
\* its status is the last an operator gave it, which no later sync takes back; and an agent
\* is expected again within its interval and the splay it asked for.
NodesAgree ==
  /\ created = Cardinality(DOMAIN nodes)
  /\ \A n \in DOMAIN nodes : nodes[n].history[1] = "bootstrap" /\ nodes[n].status = Last(nodes[n].history)
  /\ \A a \in DOMAIN checkins : LET k == checkins[a] IN k.next \in k.last + k.interval..k.last + k.interval + k.most
=============================================================================
