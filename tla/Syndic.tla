------------------------------- MODULE Syndic --------------------------------
(***************************************************************************)
(* The topology of masters, syndics and minions                            *)
(* (internal/control/syndic.go, internal/server/syndic.go) with its        *)
(* read-write lock.                                                        *)
(*                                                                         *)
(* ResolveRoute has no deferred unlock: it releases the lock on every way  *)
(* out but one, the answer that the topology is cyclic.  A writer waits    *)
(* for all readers, and a reader waits for the writers that wait.          *)
(***************************************************************************)
EXTENDS Integers, FiniteSets

CONSTANTS
  Callers,
  Names,       \* names of nodes
  MaxRoutes    \* bound on the routes asked for

VARIABLES
  nodes,    \* name -> [role, parent], role "" when there is no such node, parent "" when it has none
  readers,  \* read locks held
  pc,       \* per caller the call it makes
  routes    \* routes asked for so far

vars == <<nodes, readers, pc, routes>>

Idle == [at |-> "idle"]

SyndicNodes == [role : {"", "master", "syndic", "minion"}, parent : Names \cup {""}]

Init ==
  /\ nodes = [n \in Names |-> [role |-> "", parent |-> ""]]
  /\ readers = 0 /\ routes = 0
  /\ pc = [c \in Callers |-> Idle]

Known == {n \in Names : nodes[n].role # ""}
WriterWaits == \E c \in Callers : pc[c].at = "upsert"

\* What Upsert checks before it asks for the lock.
handleSyndicNodes(c, name, role, parent) ==
  /\ pc[c] = Idle
  /\ (role = "master") <=> (parent = "")
  /\ parent # name
  /\ pc' = [pc EXCEPT ![c] = [at |-> "upsert", name |-> name, role |-> role, parent |-> parent]]
  /\ UNCHANGED <<nodes, readers, routes>>

hasChildrenLocked(name) == \E n \in Known : nodes[n].parent = name

Upsert(c) ==
  /\ pc[c].at = "upsert" /\ readers = 0
  /\ LET name == pc[c].name  role == pc[c].role  parent == pc[c].parent IN
     nodes' = IF /\ parent # "" => parent \in Known /\ nodes[parent].role # "minion"
                 /\ role = "minion" => ~hasChildrenLocked(name)
              THEN [nodes EXCEPT ![name] = [role |-> role, parent |-> parent]]
              ELSE nodes
  /\ pc' = [pc EXCEPT ![c] = Idle]
  /\ UNCHANGED <<readers, routes>>

handleSyndicRoute(c, target) ==
  /\ pc[c] = Idle /\ routes < MaxRoutes
  /\ pc' = [pc EXCEPT ![c] = [at |-> "route", target |-> target]]
  /\ routes' = routes + 1
  /\ UNCHANGED <<nodes, readers>>

\* The node k links above n, "" beyond the top.
Ancestor(n, k) ==
  LET up[i \in 0..k] == IF i = 0 THEN n ELSE IF up[i - 1] \in Known THEN nodes[up[i - 1]].parent ELSE "" IN up[k]

\* Following the parents comes back to a node seen before: it never comes to the top.
Cyclic(n) == Ancestor(n, Cardinality(Names)) # ""

\* The path from the top to n, as a function of the number of links to n.
Path(n) ==
  LET hops == CHOOSE k \in 0..Cardinality(Names) : Ancestor(n, k + 1) = "" /\ Ancestor(n, k) # "" IN
  [k \in 0..hops |-> Ancestor(n, hops - k)]

ResolveRoute(c) ==
  /\ pc[c].at = "route" /\ ~WriterWaits
  /\ pc' = [pc EXCEPT ![c] = Idle]
  /\ readers' = IF pc[c].target \in Known /\ Cyclic(pc[c].target) THEN readers + 1 ELSE readers
  /\ UNCHANGED <<nodes, routes>>

Next ==
  \E c \in Callers :
    \/ \E name \in Names, role \in {"master", "syndic", "minion"}, parent \in Names \cup {""} :
         handleSyndicNodes(c, name, role, parent)
    \/ \E target \in Names : handleSyndicRoute(c, target)
    \/ Upsert(c) \/ ResolveRoute(c)

Spec == Init /\ [][Next]_vars

\* A call that has begun goes on as soon as the lock lets it.
FairSpec == Spec /\ \A c \in Callers : WF_vars(Upsert(c)) /\ WF_vars(ResolveRoute(c))

-----------------------------------------------------------------------------
(* Properties *)

\* The type of every variable.
TypeOK ==
  /\ nodes \in [Names -> SyndicNodes]
  /\ readers \in 0..MaxRoutes /\ routes \in 0..MaxRoutes

\* Every node but a master has a parent, which exists and is no minion, however roles
\* are changed; and a route, where there is one, leads from a master down to the target,
\* each node the parent of the next.
TopologySound ==
  \A n \in Known :
    /\ (nodes[n].role = "master") <=> (nodes[n].parent = "")
    /\ nodes[n].parent # "" => nodes[n].parent \in Known /\ nodes[nodes[n].parent].role # "minion"
    /\ Cyclic(n) \/ LET p == Path(n)  hops == Cardinality(DOMAIN p) - 1 IN
         /\ nodes[p[0]].role = "master" /\ p[hops] = n
         /\ \A k \in 1..hops : nodes[p[k]].parent = p[k - 1]

\* Every call is answered: an update or a route asked for ends some time, also after a
\* route that found the topology cyclic.
CallsAnswered == \A c \in Callers : pc[c].at # "idle" ~> pc[c].at = "idle"
=============================================================================
