------------------------------- MODULE Supply --------------------------------
(***************************************************************************)
(* What may come in from outside: signatures that admit an artifact, the   *)
(* package registry with its certifications and publication gate, policy   *)
(* pulls, and offline bundles with their mirrors (signature_admission.go,  *)
(* package_registry.go, policy_pull.go, offline.go of internal/control and *)
(* internal/server).  The variable kind says which store is at work.       *)
(*                                                                         *)
(* A signature is good or bad: whether the bytes verify is ed25519's.      *)
(* Rates are percentages.  The code subtracts them as floats and truncates,*)
(* so a score that loses points for a low rate may be one point higher     *)
(* than here; an artifact that loses such points is never certified.       *)
(***************************************************************************)
EXTENDS Integers, Sequences, FiniteSets, SequencesExt

CONSTANTS
  Scopes,            \* scopes a signature may be required for
  KeyScopes,         \* what a key is limited to; {} is any scope
  MaxKeys,           \* bound: keys registered
  Callers,           \* requests that overlap
  Artifacts,         \* artifacts published: [public, signed, key, sbom, attested]
  MaxArtifacts,      \* bound: artifacts published
  SigningPolicies,   \* [required, trusted]
  CertPolicies,      \* [signed, conformance, rate, high, critical, maintainer]
  Evidence,          \* what Certify is given: [conformance, rate, high, critical, maintainer]
  Healths,           \* what a maintainer is judged by: [rate, latency, cadence, issues]
  KeepResults,       \* pull results kept, 3000 in the code
  Refs, Pinned,      \* artifacts a bundle may list, and the ones that carry a digest
  MaxBundles         \* bound: bundles made

VARIABLES
  kind,
  items,     \* keys, artifacts, pull sources or offline bundles, by their number
  policy,    \* of signatures: [required, trusted]; of the registry: [sign, cert, health]; offline: the mode
  records,   \* certification of each artifact, pull results, or the mirror
  pc         \* what each caller is in the middle of, or was answered

vars == <<kind, items, policy, records, pc>>

Idle == [at |-> "idle"]
None == [made |-> FALSE]
Max2(a, b) == IF a > b THEN a ELSE b

-----------------------------------------------------------------------------
(* What the stores hold, and what they hold at first *)

SignatureVerificationKeys == SUBSET Scopes
SignatureAdmissionPolicies == [required : SUBSET Scopes, trusted : SUBSET (1..MaxKeys)]
PackageArtifacts == [public : BOOLEAN, signed : BOOLEAN, key : STRING, sbom : BOOLEAN, attested : BOOLEAN]
PackageSigningPolicies == [required : BOOLEAN, trusted : SUBSET STRING]
PackageCertificationPolicies ==
  [signed : BOOLEAN, conformance : BOOLEAN, rate : 0..100, high : Nat, critical : Nat, maintainer : 0..100]
PackageCertificationReports ==
  [made : {TRUE}, certified : BOOLEAN, score : 0..100, in : Evidence, tier : {"none", "gold", "silver", "bronze"}]
MaintainerHealthReports == [made : {TRUE}, score : 0..100]
PolicyPullSources == [type : {"control_plane", "git_signed"}, requires : BOOLEAN, enabled : BOOLEAN]
PolicyPullResults ==
  [source : 1..MaxBundles, requires : BOOLEAN, good : BOOLEAN, verified : BOOLEAN, status : {"pulled", "rejected"}]
OfflineBundles == [refs : SUBSET Refs, key : STRING]
OfflineMirrors ==
  [made : {TRUE}, status : {"", "planned", "partial", "succeeded"}, synced : Nat, asked : SUBSET Refs]

NewSignatureAdmissionStore == [required |-> {"image", "collection"} \cap Scopes, trusted |-> {}]
NewPackageRegistryStore ==
  [sign |-> [required |-> TRUE, trusted |-> {}],
   cert |-> [signed |-> TRUE, conformance |-> TRUE, rate |-> 98, high |-> 0, critical |-> 0, maintainer |-> 80],
   health |-> None]
NewPolicyPullStore == <<>>
NewOfflineStore == [enabled |-> FALSE]

Init ==
  /\ kind \in {"signatures", "registry", "pulls", "offline"}
  /\ items = <<>>
  /\ policy = CASE kind = "signatures" -> NewSignatureAdmissionStore
                [] kind = "registry" -> NewPackageRegistryStore
                [] kind = "pulls" -> None
                [] kind = "offline" -> NewOfflineStore
  /\ records = IF kind = "offline" THEN None ELSE NewPolicyPullStore
  /\ pc = [c \in Callers |-> Idle]

-----------------------------------------------------------------------------
(* Signature admission *)

\* Scopes nobody knows are dropped; a key that is left with none is good for all of them.
normalizeSignatureScopes(in) == in \cap Scopes

AddKey(scopes) == items' = Append(items, normalizeSignatureScopes(scopes))

handleSignatureKeyrings ==
  /\ kind = "signatures" /\ Len(items) < MaxKeys
  /\ \E scopes \in KeyScopes : AddKey(scopes)
  /\ UNCHANGED <<kind, policy, records, pc>>

\* A policy that trusts a key that is not there is refused.
SetAdmissionPolicy(required, trusted) ==
  /\ trusted \subseteq DOMAIN items
  /\ policy' = [required |-> normalizeSignatureScopes(required), trusted |-> trusted]

handleSignatureAdmissionPolicy ==
  /\ kind = "signatures"
  /\ \E required \in SUBSET Scopes, trusted \in SUBSET (1..MaxKeys) : SetAdmissionPolicy(required, trusted)
  /\ UNCHANGED <<kind, items, records, pc>>

\* Admit copies the policy under one lock and looks the key up under another.  A request
\* without a key and a signature is answered from the policy alone.
BeginAdmit(c) ==
  /\ pc[c].at # "lookup"
  /\ \E scope \in Scopes, key \in 0..MaxKeys, sig \in {"none", "good", "bad"} :
       LET bare == key = 0 \/ sig = "none"
       IN pc' = [pc EXCEPT ![c] =
            [at |-> IF bare THEN "done" ELSE "lookup", scope |-> scope, key |-> key, sig |-> sig, policy |-> policy,
             allowed |-> key = 0 /\ sig = "none" /\ scope \notin policy.required, verified |-> FALSE]]
  /\ UNCHANGED <<kind, items, policy, records>>

Admit(c) ==
  /\ pc[c].at = "lookup"
  /\ LET call == pc[c]
         ok == /\ call.key \in DOMAIN items
               /\ items[call.key] = {} \/ call.scope \in items[call.key]
               /\ call.policy.trusted = {} \/ call.key \in call.policy.trusted
               /\ call.sig = "good"
     IN pc' = [pc EXCEPT ![c] = [call EXCEPT !.at = "done", !.allowed = ok, !.verified = ok]]
  /\ UNCHANGED <<kind, items, policy, records>>

handleSignatureAdmissionCheck(c) == kind = "signatures" /\ (BeginAdmit(c) \/ Admit(c))

-----------------------------------------------------------------------------
(* The package registry *)

\* A signed artifact names its key.
Publish(a) ==
  /\ a.signed => a.key # ""
  /\ items' = Append(items, a)
  /\ records' = Append(records, None)

handlePackageArtifacts ==
  /\ kind = "registry" /\ Len(items) < MaxArtifacts
  /\ \E a \in Artifacts : Publish(a)
  /\ UNCHANGED <<kind, policy, pc>>

SetPolicy(p) == policy' = [policy EXCEPT !.sign = p]

handlePackageSigningPolicy ==
  /\ kind = "registry"
  /\ \E p \in SigningPolicies : SetPolicy(p)
  /\ UNCHANGED <<kind, items, records, pc>>

Verify(a, p) ==
  /\ p.required => a.signed
  /\ a.signed => p.trusted = {} \/ a.key \in p.trusted

\* A rate and a maintainer score of 0 are the defaults.
SetCertificationPolicy(p) ==
  LET in == [p EXCEPT !.rate = IF @ = 0 THEN 98 ELSE @, !.maintainer = IF @ = 0 THEN 80 ELSE @]
  IN /\ in.rate \in 0..100 /\ in.maintainer \in 0..100 /\ in.high >= 0 /\ in.critical >= 0
     /\ policy' = [policy EXCEPT !.cert = in]

handlePackageCertificationPolicy ==
  /\ kind = "registry"
  /\ \E p \in CertPolicies : SetCertificationPolicy(p)
  /\ UNCHANGED <<kind, items, records, pc>>

Certification(a, in) ==
  LET p == policy.cert
      certified == /\ p.signed => a.signed
                   /\ p.conformance => in.conformance
                   /\ in.rate >= p.rate /\ in.high <= p.high /\ in.critical <= p.critical
                   /\ in.maintainer >= p.maintainer
      score == Max2(0, 100 - Max2(0, p.rate - in.rate) - 5 * in.high - 20 * in.critical
                           - Max2(0, p.maintainer - in.maintainer))
  IN [made |-> TRUE, certified |-> certified, score |-> score, in |-> in,
      tier |-> CASE ~certified -> "none" [] score >= 95 -> "gold" [] score \in 85..94 -> "silver" [] OTHER -> "bronze"]

\* The latest certification of an artifact replaces the one before, passed or not.
Certify(i, in) == records' = [records EXCEPT ![i] = Certification(items[i], in)]

handlePackageCertify ==
  /\ kind = "registry"
  /\ \E i \in DOMAIN items, in \in Evidence : Certify(i, in)
  /\ UNCHANGED <<kind, items, policy, pc>>

\* PublicationGateCheck copies the policies and the certification, then calls Verify,
\* which copies the signing policy again.
BeginGate(c) ==
  /\ pc[c].at # "verify"
  /\ \E i \in DOMAIN items, public \in BOOLEAN :
       pc' = [pc EXCEPT ![c] = [at |-> "verify", item |-> i, public |-> public, policy |-> policy, cert |-> records[i]]]
  /\ UNCHANGED <<kind, items, policy, records>>

\* What the gate asks beyond Verify, by the copies p and cert.
Publishable(a, public, p, cert) ==
  IF public THEN /\ a.public /\ (p.cert.signed => a.signed)
                 /\ cert.made /\ cert.certified /\ a.sbom /\ a.attested
            ELSE p.sign.required => a.signed

PublicationGateCheck(c) ==
  /\ pc[c].at = "verify"
  /\ LET call == pc[c] a == items[pc[c].item]
     IN pc' = [pc EXCEPT ![c] =
          [at |-> "done", item |-> call.item, public |-> call.public, first |-> call.policy.sign, second |-> policy.sign,
           cert |-> call.cert,
           allowed |-> Verify(a, policy.sign) /\ Publishable(a, call.public, call.policy, call.cert)]]
  /\ UNCHANGED <<kind, items, policy, records>>

handlePackagePublicationCheck(c) == kind = "registry" /\ (BeginGate(c) \/ PublicationGateCheck(c))

UpsertMaintainerHealth(h) ==
  LET score == Max2(0, 100 - (100 - h.rate) - h.latency \div 12 - h.cadence \div 14 - 10 * h.issues)
  IN policy' = [policy EXCEPT !.health = [made |-> TRUE, score |-> score]]

handlePackageMaintainerHealth ==
  /\ kind = "registry"
  /\ \E h \in Healths : UpsertMaintainerHealth(h)
  /\ UNCHANGED <<kind, items, records, pc>>

\* The quality report of artifact i, from what the registry holds now.
buildPackageQualityReport(i) ==
  LET a == items[i] cert == records[i]
      tiers == [gold |-> 15, silver |-> 10, bronze |-> 5, none |-> 0]
      points == (IF a.signed THEN 20 ELSE 0) + (IF a.sbom THEN 10 ELSE 0) + (IF a.attested THEN 10 ELSE 0)
                + (IF cert.made THEN (cert.score \div 2) + tiers[cert.tier] + (IF cert.certified THEN 20 ELSE 0) ELSE 0)
                + (IF policy.health.made THEN policy.health.score \div 5 ELSE 0)
      certified == cert.made /\ cert.certified
  IN [score |-> IF points > 100 THEN 100 ELSE points,
      badge |-> CASE certified /\ a.signed /\ cert.tier = "gold" /\ a.sbom /\ a.attested -> "trusted"
                  [] certified /\ a.signed /\ ~(cert.tier = "gold" /\ a.sbom /\ a.attested) -> "verified"
                  [] OTHER -> IF a.public THEN "community" ELSE "internal"]

-----------------------------------------------------------------------------
(* Policy pulls *)

\* A source of the control plane requires no signature, whatever was asked.
CreateSource(type, requires, enabled) ==
  items' = Append(items, [type |-> type, requires |-> requires /\ type = "git_signed", enabled |-> enabled])

handlePolicyPullSources ==
  /\ kind = "pulls" /\ Len(items) < MaxBundles
  /\ \E type \in {"control_plane", "git_signed"}, requires, enabled \in BOOLEAN : CreateSource(type, requires, enabled)
  /\ UNCHANGED <<kind, policy, records, pc>>

RecordResult(r) ==
  LET grown == Append(records, r)
  IN records' = IF Len(grown) > KeepResults THEN Tail(grown) ELSE grown

handlePolicyPullExecute ==
  /\ kind = "pulls"
  /\ \E i \in DOMAIN items, good \in BOOLEAN :
       LET source == items[i]
           verified == source.type = "control_plane" \/ (source.requires /\ good)
       IN /\ source.enabled
          /\ RecordResult([source |-> i, requires |-> source.requires, good |-> good, verified |-> verified,
                           status |-> IF source.requires /\ ~good THEN "rejected" ELSE "pulled"])
  /\ UNCHANGED <<kind, items, policy, pc>>

-----------------------------------------------------------------------------
(* Offline bundles and a mirror *)

\* The mode is kept for who asks for it; nothing else depends on it.
SetMode(enabled) == policy' = [enabled |-> enabled]

handleOfflineMode ==
  /\ kind = "offline"
  /\ \E enabled \in BOOLEAN : SetMode(enabled)
  /\ UNCHANGED <<kind, items, records, pc>>

\* key is the one the bundle is signed with, "" when it is not signed.
CreateBundle(refs, key) == items' = Append(items, [refs |-> refs, key |-> key])

handleOfflineBundles ==
  /\ kind = "offline" /\ Len(items) < MaxBundles
  /\ \E refs \in SUBSET Refs, key \in {"", "k1"} : CreateBundle(refs, key)
  /\ UNCHANGED <<kind, policy, records, pc>>

\* The verifier brings the key; what is verified is the digest of the manifest.
handleOfflineBundleVerify(c) ==
  /\ kind = "offline"
  /\ \E i \in DOMAIN items, key \in {"k1", "k2"} :
       pc' = [pc EXCEPT ![c] = [at |-> "verified", item |-> i, key |-> key,
                                ok |-> items[i].key # "" /\ items[i].key = key]]
  /\ UNCHANGED <<kind, items, policy, records>>

\* A mirror that is upserted again keeps what its last synchronisation left.
UpsertMirror == records' = IF records.made THEN records ELSE [made |-> TRUE, status |-> "", synced |-> 0, asked |-> {}]

handleOfflineMirrors ==
  /\ kind = "offline"
  /\ UpsertMirror
  /\ UNCHANGED <<kind, items, policy, pc>>

collectOfflineArtifactsLocked == UNION {items[i].refs : i \in DOMAIN items}

\* asked is what was synchronised, for the properties only; a dry run counts nothing.
SyncMirror(given, dry) ==
  LET refs == IF given = {} THEN collectOfflineArtifactsLocked ELSE given
  IN records' = [made |-> TRUE, asked |-> refs,
                 synced |-> IF dry THEN 0 ELSE Cardinality(refs \cap Pinned),
                 status |-> CASE dry -> "planned" [] ~dry /\ refs \ Pinned # {} -> "partial" [] OTHER -> "succeeded"]

handleOfflineMirrorSync ==
  /\ kind = "offline" /\ records.made
  /\ \E given \in SUBSET Refs, dry \in BOOLEAN : SyncMirror(given, dry)
  /\ UNCHANGED <<kind, items, policy, pc>>

-----------------------------------------------------------------------------

Next ==
  \/ handleSignatureKeyrings \/ handleSignatureAdmissionPolicy
  \/ handlePackageArtifacts \/ handlePackageSigningPolicy \/ handlePackageCertificationPolicy
  \/ handlePackageCertify \/ handlePackageMaintainerHealth
  \/ \E c \in Callers :
       handleSignatureAdmissionCheck(c) \/ handlePackagePublicationCheck(c) \/ handleOfflineBundleVerify(c)
  \/ handlePolicyPullSources \/ handlePolicyPullExecute
  \/ handleOfflineMode \/ handleOfflineBundles \/ handleOfflineMirrors \/ handleOfflineMirrorSync

Spec == Init /\ [][Next]_vars

-----------------------------------------------------------------------------

\* Every store holds what its types say; an artifact has a place for its certification, and
\* pull results stay within their limit.
TypeOK ==
  /\ kind = "signatures" => policy \in SignatureAdmissionPolicies /\ \A i \in DOMAIN items : items[i] \in SignatureVerificationKeys
  /\ kind = "registry" => /\ \A i \in DOMAIN items : items[i] \in PackageArtifacts
                          /\ Len(records) = Len(items)
                          /\ \A i \in DOMAIN records : records[i] = None \/ records[i] \in PackageCertificationReports
                          /\ policy.sign \in PackageSigningPolicies /\ policy.cert \in PackageCertificationPolicies
                          /\ policy.health = None \/ policy.health \in MaintainerHealthReports
  /\ kind = "pulls" => /\ \A i \in DOMAIN items : items[i] \in PolicyPullSources
                       /\ Len(records) <= KeepResults /\ \A i \in DOMAIN records : records[i] \in PolicyPullResults
  /\ kind = "offline" => /\ \A i \in DOMAIN items : items[i] \in OfflineBundles
                         /\ records = None \/ records \in OfflineMirrors

\* Whatever changes while a request is admitted, an artifact gets in by one policy: it was
\* verified by a key that policy trusts and whose scopes cover it, or it came bare and that
\* policy did not require a signature.  The keys a policy trusts exist.
AdmittedByPolicy ==
  kind = "signatures" =>
    /\ policy.trusted \subseteq DOMAIN items
    /\ \A c \in Callers : pc[c].at = "done" /\ pc[c].allowed =>
         /\ pc[c].scope \in pc[c].policy.required => pc[c].verified
         /\ pc[c].verified => /\ pc[c].key \in DOMAIN items /\ pc[c].sig = "good"
                              /\ items[pc[c].key] = {} \/ pc[c].scope \in items[pc[c].key]
                              /\ pc[c].policy.trusted # {} => pc[c].key \in pc[c].policy.trusted

\* An artifact passes the publication gate only if the signing policy of the later of the
\* gate's two reads accepts it and, for the public, it was certified, signed where it must
\* be, and came with its bill of materials and attestation; for private use it also meets
\* the earlier read.  A certification is of the evidence: gold has no critical finding.
GateKept ==
  kind = "registry" =>
    /\ \A c \in Callers : pc[c].at = "done" /\ pc[c].allowed =>
         LET a == items[pc[c].item]
         IN /\ pc[c].second.required => a.signed
            /\ a.signed /\ pc[c].second.trusted # {} => a.key \in pc[c].second.trusted
            /\ pc[c].public => a.public /\ a.sbom /\ a.attested /\ pc[c].cert.made /\ pc[c].cert.certified
            /\ ~pc[c].public /\ pc[c].first.required => a.signed
    /\ \A i \in DOMAIN records : records[i].made /\ records[i].tier = "gold" =>
         records[i].certified /\ records[i].in.critical = 0 /\ records[i].in.high <= 1

\* An artifact that carries the trusted badge, is public and whose key is trusted passes the
\* public gate whatever the certification policy has become since it was certified.
BadgePublishable ==
  kind = "registry" =>
    \A i \in DOMAIN items :
      /\ buildPackageQualityReport(i).score \in 0..100
      /\ buildPackageQualityReport(i).badge = "trusted" /\ items[i].public /\ Verify(items[i], policy.sign) =>
           Publishable(items[i], TRUE, policy, records[i])

\* A pull that went through from a source that requires signatures was verified; a rejected
\* one is from such a source; a mirror that reports success has all it was asked for, except
\* after a dry run, which reports nothing synchronised; and an offline bundle verifies only
\* with the key that signed it.
PullsVerified ==
  /\ kind = "pulls" =>
       \A i \in DOMAIN records :
         /\ records[i].status = "pulled" /\ records[i].requires => records[i].good /\ records[i].verified
         /\ records[i].status = "rejected" => records[i].requires /\ ~records[i].verified
         /\ items[records[i].source].requires = records[i].requires
  /\ kind = "offline" /\ records.made =>
       /\ records.status = "succeeded" => records.synced = Cardinality(records.asked) /\ records.asked \subseteq Pinned
       /\ records.status = "partial" => records.synced < Cardinality(records.asked)
  /\ kind = "offline" =>
       \A c \in Callers : pc[c].at = "verified" /\ pc[c].ok => items[pc[c].item].key = pc[c].key
=============================================================================
