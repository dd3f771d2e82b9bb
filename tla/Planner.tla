------------------------------- MODULE Planner -------------------------------
(***************************************************************************)
(* planner.Build (internal/planner/plan.go): the topological order of the  *)
(* resources of a config.  Ids are numbers, whose order stands for the     *)
(* order of the strings.  The code keeps its queue sorted, so the set of   *)
(* its elements says all there is to say about it.                         *)
(***************************************************************************)
EXTENDS Integers, Sequences, FiniteSets

CONSTANTS
  Ids,                          \* the resources of a config
  DependsInputs, BeforeInputs   \* the relations between them, from either end

ASSUME IdsAssumption == Ids \subseteq Nat /\ IsFiniteSet(Ids)
ASSUME PlannerInputs == DependsInputs \cup BeforeInputs \subseteq [Ids -> SUBSET Ids]

VARIABLES
  dependsOn,   \* depends_on, require and subscribe of each resource
  before,      \* before and notify of each resource
  inDegree, queue,
  ordered,
  result       \* building, planned or cycle

vars == <<dependsOn, before, inDegree, queue, ordered, result>>

\* What addEdge collects, each edge once.
Edges == {e \in Ids \X Ids : e[1] \in dependsOn[e[2]] \/ e[2] \in before[e[1]]}

Preds(id) == {p \in Ids : <<p, id>> \in Edges}

\* Mutant: an edge that is named from both ends is counted twice.
DegreesTwice == [id \in Ids |-> Cardinality(dependsOn[id]) + Cardinality({p \in Ids : id \in before[p]})]

\* Mutant: the degrees start one too low.
DegreesShort == [id \in Ids |-> Cardinality(Preds(id)) - 1]

Degrees == [id \in Ids |-> Cardinality(Preds(id))]

\* The graph is built and the queue filled with the ids of degree 0.
Init ==
  /\ dependsOn \in DependsInputs /\ before \in BeforeInputs
  /\ inDegree = Degrees
  /\ queue = {id \in Ids : inDegree[id] = 0}
  /\ ordered = << >>
  /\ result = "building"

\* The id at the front of the sorted queue.
IsFirst(id) == id \in queue /\ \A other \in queue : id <= other

\* The ids that cur lets go of.
Children(cur) == {id \in Ids : <<cur, id>> \in Edges}

\* Mutant: the queue is not sorted again after children were appended.
PopAny ==
  /\ result = "building"
  /\ \E cur \in queue :
       /\ inDegree' = [id \in Ids |-> IF id \in Children(cur) THEN inDegree[id] - 1 ELSE inDegree[id]]
       /\ queue' = (queue \ {cur}) \cup {id \in Children(cur) : inDegree'[id] = 0}
       /\ ordered' = Append(ordered, cur)
  /\ UNCHANGED <<dependsOn, before, result>>

\* Mutant: a child is queued by its first parent.
PopEager ==
  /\ result = "building"
  /\ \E cur \in queue :
       /\ IsFirst(cur)
       /\ inDegree' = [id \in Ids |-> IF id \in Children(cur) THEN 0 ELSE inDegree[id]]
       /\ queue' = (queue \ {cur}) \cup {id \in Children(cur) : inDegree[id] > 0}
       /\ ordered' = Append(ordered, cur)
  /\ UNCHANGED <<dependsOn, before, result>>

\* One turn of the loop.
Pop ==
  /\ result = "building"
  /\ \E cur \in queue :
       /\ IsFirst(cur)
       /\ inDegree' = [id \in Ids |-> IF id \in Children(cur) THEN inDegree[id] - 1 ELSE inDegree[id]]
       /\ queue' = (queue \ {cur}) \cup {id \in Children(cur) : inDegree'[id] = 0}
       /\ ordered' = Append(ordered, cur)
  /\ UNCHANGED <<dependsOn, before, result>>

\* The comparison after the loop.
Finish ==
  /\ result = "building" /\ queue = {}
  /\ result' = IF Len(ordered) # Cardinality(Ids) THEN "cycle" ELSE "planned"
  /\ UNCHANGED <<dependsOn, before, inDegree, queue, ordered>>

Next == Pop \/ Finish

Spec == Init /\ [][Next]_vars

-----------------------------------------------------------------------------
(* Properties *)

Done == {ordered[i] : i \in 1 .. Len(ordered)}

\* The type of every variable.
TypeOK ==
  /\ dependsOn \in [Ids -> SUBSET Ids] /\ before \in [Ids -> SUBSET Ids]
  /\ inDegree \in [Ids -> Nat]
  /\ queue \subseteq Ids
  /\ ordered \in Seq(Ids)
  /\ result \in {"building", "planned", "cycle"}

\* Whatever the loop has put out so far comes after all it depends on, and
\* nothing is put out twice.
Topological ==
  \A i \in 1 .. Len(ordered) :
    /\ \A p \in Preds(ordered[i]) : \E k \in 1 .. i - 1 : ordered[k] = p
    /\ \A k \in 1 .. i - 1 : ordered[k] # ordered[i]

\* A non-empty set of resources each of which waits for another one of them.
HasCycle == \E S \in SUBSET Ids : S # {} /\ \A id \in S : Preds(id) \cap S # {}

\* Build refuses exactly the configs whose resources depend on themselves.
CycleIffRefused == result # "building" => (result = "cycle" <=> HasCycle)

Orders == {o \in [1 .. Cardinality(Ids) -> Ids] :
             /\ \A i, k \in DOMAIN o : i # k => o[i] # o[k]
             /\ \A i \in DOMAIN o : \A p \in Preds(o[i]) : \E k \in 1 .. i - 1 : o[k] = p}

\* The plan is the least of all topological orders, so it is a function of
\* the edges alone: "Build constructs a deterministic topological plan".
LeastOrder ==
  result = "planned" =>
    \A o \in Orders :
      o # ordered =>
        \E i \in DOMAIN o : ordered[i] < o[i] /\ \A k \in 1 .. i - 1 : ordered[k] = o[k]

=============================================================================
