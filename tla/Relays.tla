------------------------------- MODULE Relays --------------------------------
(***************************************************************************)
(* The stores between control planes and sites: edge relays, hop relays,   *)
(* proxy minions, the cache of several masters, and the peers of a         *)
(* federation (edge_relay.go, hop_relay.go, proxy_minion.go,               *)
(* multi_master.go, federation.go of internal/control) with the handlers   *)
(* of internal/server.                                                     *)
(*                                                                         *)
(* The stores share nothing: the variable kind, fixed at the start, says   *)
(* which one is at work.  Callers read the time before they ask for the    *)
(* lock, so it may be behind by MaxWait.                                   *)
(***************************************************************************)
EXTENDS Integers, Sequences, FiniteSets, FiniteSetsExt

CONSTANTS
  Callers,
  Sites, Depths, Limits,     \* edge sites, depths one can configure, limits of a delivery
  TTL,                       \* of a message
  Endpoints, MaxSessions,    \* hop endpoints that can be made, sessions each allows
  Devices, Proxies, Paths,   \* proxy minions
  Statuses, CacheLimit,      \* what a job passes through, in order; entries the cache keeps
  MaxMessages, MaxWait, MaxClock, MaxCalls   \* bounds

VARIABLES
  kind,
  clock,
  items,     \* sites, endpoints, bindings, masters or peers: partial functions as sets of records, by name
  messages,  \* messages of sites, sessions of endpoints, or dispatches of proxies
  jobs,      \* per key the job made for it; or the status of the job and the events that masters cache
  cache,     \* 0 for the job, or event -> [status, at]
  pc,
  made       \* history: calls so far, when the entries dropped had been written

vars == <<kind, clock, items, messages, jobs, cache, pc, made>>

Idle == [at |-> "idle"]
Nows == {t \in 0..clock : clock - t <= MaxWait}
Empty == [x \in {} |-> 0]
Put(f, k, v) == [x \in DOMAIN f \cup {k} |-> IF x = k THEN v ELSE f[x]]

\* What the stores hold.
NodeStatuses == {"active", "degraded", "offline"}
EdgeRelaySites == [depth : Depths]
EdgeRelayMessages == [site : Sites, status : {"queued", "delivered", "gone"}, expires : Nat, at : 0..MaxClock, depth : Depths]
HopRelayEndpoints == [max : MaxSessions]
HopRelaySessions == [endpoint : Endpoints]
ProxyMinionBindings == [proxy : Proxies]
ProxyMinionDispatches == [key : Proxies \X Devices \X Paths, job : Nat]
MultiMasterNodes == [status : NodeStatuses]
MultiMasterCacheEntries == [status : 1..Statuses, at : 0..MaxClock]
FederationPeers == [healthy : BOOLEAN]

Init ==
  /\ kind \in {"edge", "hop", "proxy", "masters", "registry"}
  /\ clock = 0 /\ items = Empty /\ messages = <<>> /\ cache = Empty
  /\ jobs = IF kind = "masters" THEN [status |-> 1, events |-> 0] ELSE Empty
  /\ pc = [c \in Callers |-> Idle]
  /\ made = [calls |-> 0, dropped |-> {}]

Tick ==
  /\ kind \in {"edge", "masters"} /\ clock < MaxClock
  /\ clock' = clock + 1
  /\ UNCHANGED <<kind, items, messages, jobs, cache, pc, made>>

-----------------------------------------------------------------------------
(* Edge relays: messages are [site, status, expires, at], removed ones "gone" *)

UpsertSite(site, depth) == items' = Put(items, site, [depth |-> depth])

handleEdgeRelaySites ==
  /\ kind = "edge"
  /\ \E site \in Sites, depth \in Depths : UpsertSite(site, depth)
  /\ UNCHANGED <<kind, clock, messages, jobs, cache, pc, made>>

\* Messages that have expired count until somebody delivers or lists.
queueDepthLocked(ms, site) == Cardinality({m \in DOMAIN ms : ms[m].site = site /\ ms[m].status = "queued"})

QueueMessage(site, now) ==
  /\ site \in DOMAIN items /\ queueDepthLocked(messages, site) < items[site].depth
  /\ Len(messages) < MaxMessages
  /\ messages' = Append(messages, [site |-> site, status |-> "queued", expires |-> now + TTL, at |-> 0,
                                   depth |-> items[site].depth])

\* What has expired is removed, delivered or not, of all sites.
expireLocked(now) ==
  [m \in DOMAIN messages |-> IF now >= messages[m].expires THEN [messages[m] EXCEPT !.status = "gone"] ELSE messages[m]]

ListMessages(now) == messages' = expireLocked(now)

handleEdgeRelayMessages ==
  /\ kind = "edge"
  /\ \E now \in Nows : ListMessages(now) \/ \E site \in Sites : QueueMessage(site, now)
  /\ UNCHANGED <<kind, clock, items, jobs, cache, pc, made>>

\* Up to limit of the messages, in the order of a map: any.
Deliver(site, limit, now) ==
  /\ site \in DOMAIN items
  /\ LET live == expireLocked(now)
         queued == {m \in DOMAIN live : live[m].site = site /\ live[m].status = "queued"} IN
     \E sent \in SUBSET queued :
       /\ Cardinality(sent) = Min({limit, Cardinality(queued)})
       /\ messages' = [m \in DOMAIN live |-> IF m \in sent THEN [live[m] EXCEPT !.status = "delivered", !.at = clock] ELSE live[m]]

\* A heartbeat writes times only.
handleEdgeRelaySiteAction ==
  /\ kind = "edge"
  /\ \E site \in Sites, limit \in Limits, now \in Nows : Deliver(site, limit, now)
  /\ UNCHANGED <<kind, clock, items, jobs, cache, pc, made>>

-----------------------------------------------------------------------------
(* Hop relays: a session never ends *)

\* Every call makes another endpoint.
UpsertEndpoint(e, max) == e \notin DOMAIN items /\ items' = Put(items, e, [max |-> max])

handleRelayEndpoints ==
  /\ kind = "hop" /\ \E e \in Endpoints, max \in MaxSessions : UpsertEndpoint(e, max)
  /\ UNCHANGED <<kind, clock, messages, jobs, cache, pc, made>>

OpenSession(e) ==
  /\ e \in DOMAIN items /\ Len(messages) < MaxMessages
  /\ Cardinality({m \in DOMAIN messages : messages[m].endpoint = e}) < items[e].max
  /\ messages' = Append(messages, [endpoint |-> e])

handleRelaySessions ==
  /\ kind = "hop" /\ \E e \in Endpoints : OpenSession(e)
  /\ UNCHANGED <<kind, clock, items, jobs, cache, pc, made>>

-----------------------------------------------------------------------------
(* Proxy minions *)

\* One binding per device; a device may move to another proxy.
UpsertBinding(device, proxy) == items' = Put(items, device, [proxy |-> proxy])

handleProxyMinions ==
  /\ kind = "proxy"
  /\ \E device \in Devices, proxy \in Proxies : UpsertBinding(device, proxy)
  /\ UNCHANGED <<kind, clock, messages, jobs, cache, pc, made>>

ResolveDevice(c, device, path) ==
  /\ pc[c] = Idle /\ device \in DOMAIN items /\ Len(messages) < MaxMessages
  /\ pc' = [pc EXCEPT ![c] = [at |-> "enqueue", key |-> <<items[device].proxy, device, path>>]]
  /\ UNCHANGED <<messages, jobs>>

\* The queue knows one job per key, for good, and may refuse.
EnqueueDispatch(c) ==
  /\ pc[c].at = "enqueue"
  /\ LET key == pc[c].key IN
     \/ /\ jobs' = IF key \in DOMAIN jobs THEN jobs ELSE Put(jobs, key, Cardinality(DOMAIN jobs) + 1)
        /\ pc' = [pc EXCEPT ![c] = [at |-> "record", key |-> key, job |-> jobs'[key]]]
     \/ pc' = [pc EXCEPT ![c] = Idle] /\ UNCHANGED jobs
  /\ UNCHANGED messages

RecordDispatch(c) ==
  /\ pc[c].at = "record" /\ Len(messages) < MaxMessages
  /\ messages' = Append(messages, [key |-> pc[c].key, job |-> pc[c].job])
  /\ pc' = [pc EXCEPT ![c] = Idle]
  /\ UNCHANGED jobs

handleProxyMinionDispatch(c) ==
  /\ kind = "proxy"
  /\ \/ \E device \in Devices, path \in Paths : ResolveDevice(c, device, path)
     \/ EnqueueDispatch(c) \/ RecordDispatch(c)
  /\ UNCHANGED <<kind, clock, items, cache, made>>

-----------------------------------------------------------------------------
(* Several masters: the cache of jobs and events *)

\* The job goes on in the queue, or an event is logged; Statuses is the last state of the job.
JobMoves ==
  /\ kind = "masters" /\ jobs.status < Statuses
  /\ jobs' = [jobs EXCEPT !.status = @ + 1]
  /\ UNCHANGED <<kind, clock, items, messages, cache, pc, made>>

EventLogged ==
  /\ kind = "masters" /\ jobs.events < MaxMessages
  /\ jobs' = [jobs EXCEPT !.events = @ + 1]
  /\ UNCHANGED <<kind, clock, items, messages, cache, pc, made>>

\* The handler lists the job and the last event first, and then waits for the lock with the time it has read.
handleMultiMasterCache(c) ==
  /\ kind = "masters" /\ pc[c] = Idle /\ made.calls < MaxCalls
  /\ pc' = [pc EXCEPT ![c] = [at |-> "sync", listed |-> {0} \cup IF jobs.events > 0 THEN {jobs.events} ELSE {},
                              status |-> jobs.status, now |-> clock]]
  /\ made' = [made EXCEPT !.calls = @ + 1]
  /\ UNCHANGED <<kind, clock, items, messages, jobs, cache>>

\* All entries given are written; if they are too many, the ones written last stay, of equals any.
SyncCentralCache(c) ==
  /\ pc[c].at = "sync" /\ clock - pc[c].now <= MaxWait
  /\ LET all == [e \in DOMAIN cache \cup pc[c].listed |->
                   IF e \in pc[c].listed THEN [status |-> pc[c].status, at |-> pc[c].now] ELSE cache[e]]
     IN \E keep \in SUBSET DOMAIN all :
          /\ Cardinality(keep) = Min({CacheLimit, Cardinality(DOMAIN all)})
          /\ \A e \in keep, k \in DOMAIN all \ keep : all[k].at <= all[e].at
          /\ cache' = [e \in keep |-> all[e]]
          /\ made' = [made EXCEPT !.dropped = @ \cup {all[k].at : k \in DOMAIN all \ keep}]
  /\ pc' = [pc EXCEPT ![c] = Idle]
  /\ UNCHANGED <<kind, clock, items, messages, jobs>>

-----------------------------------------------------------------------------
(* Masters and peers *)

UpsertNode(status) == items' = Put(items, "master", [status |-> status])

handleMultiMasterNodes ==
  /\ kind = "registry" /\ \E status \in NodeStatuses : UpsertNode(status)
  /\ UNCHANGED <<kind, clock, messages, jobs, cache, pc, made>>

\* A heartbeat leaves the status alone when it names none.
Heartbeat(status) == "master" \in DOMAIN items /\ items' = Put(items, "master", [status |-> status])

handleMultiMasterNodeAction ==
  /\ kind = "registry" /\ \E status \in NodeStatuses : Heartbeat(status)
  /\ UNCHANGED <<kind, clock, messages, jobs, cache, pc, made>>

PeersKnown == DOMAIN items \ {"master"}

\* Every call makes another peer.
UpsertPeer ==
  /\ Cardinality(PeersKnown) < MaxMessages
  /\ items' = Put(items, <<"p1", "p2", "p3">>[Cardinality(PeersKnown) + 1], [healthy |-> TRUE])

handleFederationPeers ==
  /\ kind = "registry" /\ UpsertPeer
  /\ UNCHANGED <<kind, clock, messages, jobs, cache, pc, made>>

SetPeerHealth(p, healthy) == items' = Put(items, p, [healthy |-> healthy])

handleFederationPeerAction ==
  /\ kind = "registry" /\ \E p \in PeersKnown, healthy \in BOOLEAN : SetPeerHealth(p, healthy)
  /\ UNCHANGED <<kind, clock, messages, jobs, cache, pc, made>>

-----------------------------------------------------------------------------

Next ==
  \/ Tick \/ handleEdgeRelaySites \/ handleEdgeRelayMessages \/ handleEdgeRelaySiteAction
  \/ handleRelayEndpoints \/ handleRelaySessions \/ handleProxyMinions \/ JobMoves \/ EventLogged
  \/ handleMultiMasterNodes \/ handleMultiMasterNodeAction \/ handleFederationPeers \/ handleFederationPeerAction
  \/ \E c \in Callers : handleProxyMinionDispatch(c) \/ handleMultiMasterCache(c) \/ SyncCentralCache(c)

Spec == Init /\ [][Next]_vars

-----------------------------------------------------------------------------
(* Properties *)

\* The type of every variable.
TypeOK ==
  /\ clock \in 0..MaxClock /\ Len(messages) <= MaxMessages
  /\ \A x \in DOMAIN items : items[x] \in CASE kind = "edge" -> EdgeRelaySites
                                           [] kind = "hop" -> HopRelayEndpoints
                                           [] kind = "proxy" -> ProxyMinionBindings
                                           [] kind = "registry" -> MultiMasterNodes \cup FederationPeers
  /\ \A m \in DOMAIN messages : messages[m] \in CASE kind = "edge" -> EdgeRelayMessages
                                                 [] kind = "hop" -> HopRelaySessions
                                                 [] kind = "proxy" -> ProxyMinionDispatches
  /\ \A e \in DOMAIN cache : e \in 0..jobs.events /\ cache[e] \in MultiMasterCacheEntries
  /\ Cardinality(DOMAIN cache) <= CacheLimit

\* No site queues more messages than the depth in force when the last was taken, none is
\* delivered later than the wait for the lock after it has expired, and no endpoint of a
\* hop relay carries more sessions than it allows.
RelayBounded ==
  /\ kind = "edge" => \A m \in DOMAIN messages :
       /\ messages[m].status = "delivered" => messages[m].at < messages[m].expires + MaxWait
       /\ \A later \in DOMAIN messages : later >= m /\ messages[later].site = messages[m].site =>
            Cardinality({n \in m..later : messages[n].site = messages[m].site /\ messages[n].status = "queued"})
              <= Max({messages[n].depth : n \in m..later})
  /\ kind = "hop" => \A e \in DOMAIN items : Cardinality({m \in DOMAIN messages : messages[m].endpoint = e}) <= items[e].max

\* A dispatch is recorded with the job made for its device, proxy and path, of which there
\* is one for good: dispatching again runs nothing again.
DispatchAgrees ==
  kind = "proxy" => \A m \in DOMAIN messages :
    /\ messages[m].key \in DOMAIN jobs /\ messages[m].job = jobs[messages[m].key]
    /\ \A n \in DOMAIN messages : (messages[m].job = messages[n].job) <=> (messages[m].key = messages[n].key)

\* The cache shows a job in a state the queue has had it in, though an older one may
\* overwrite a newer one, and drops no entry written more than the wait for the lock
\* after one that it keeps.
CacheFollows ==
  kind = "masters" => \A e \in DOMAIN cache :
    /\ cache[e].status \in 1..jobs.status
    /\ \A t \in made.dropped : t <= cache[e].at + MaxWait
=============================================================================
