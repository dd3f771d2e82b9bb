-------------------------- MODULE ApplyGrantProofs --------------------------
(***************************************************************************)
(* planner.Build puts out every resource after all it depends on, for      *)
(* every finite set of ids and every dependency relation; Executor.Apply   *)
(* runs a plan in the order of its strategy and accounts for what it did,  *)
(* for every plan.                                                         *)
(*                                                                         *)
(* Break-glass access is had only by the approvals of every stage, and a   *)
(* grant that was refused stays so, for any policies, people and lifetimes.*)
(***************************************************************************)
EXTENDS Planner, Executor, Grants, FiniteSetTheorems, SequenceTheorems, TLAPS

\* Zenon proves a leaf unless the leaf names another prover.
USE Zenon

\* The degree of an id counts the predecessors that are not put out yet, and
\* what is queued has none left and is not put out.
DegreeInv ==
  /\ \A id \in Ids : inDegree[id] = Cardinality(Preds(id) \ Done)
  /\ \A id \in queue : inDegree[id] = 0 /\ id \notin Done

PlanInv == TypeOK /\ DegreeInv /\ Topological

\* Sets of predecessors are finite.
LEMMA PredsFinite ==
  ASSUME NEW id
  PROVE  IsFiniteSet(Preds(id) \ Done) /\ Cardinality(Preds(id) \ Done) \in Nat
<1>1. Preds(id) \ Done \subseteq Ids
  BY DEF Preds
<1> QED
  BY <1>1, IdsAssumption, FS_Subset, FS_CardinalityType

\* Init puts nothing out and counts all predecessors.
LEMMA PlanInit == Init => PlanInv
<1> SUFFICES ASSUME Init PROVE PlanInv
  OBVIOUS
<1>1. Done = {}
  BY SMT DEF Init, Done
<1>2. \A id \in Ids : Preds(id) \ Done = Preds(id)
  BY <1>1
<1>3. \A id \in Ids : Cardinality(Preds(id)) \in Nat
  BY <1>2, PredsFinite
<1>4. TypeOK
  BY <1>3, PlannerInputs, SMT DEF Init, Degrees, TypeOK
<1>5. DegreeInv
  BY <1>1, <1>2, <1>3 DEF Init, Degrees, DegreeInv
<1>6. Topological
  BY SMT DEF Init, Topological
<1> QED
  BY <1>4, <1>5, <1>6 DEF PlanInv

\* Appending to the plan.
LEMMA AppendDone ==
  ASSUME TypeOK, NEW cur \in Ids, ordered' = Append(ordered, cur)
  PROVE  /\ ordered' \in Seq(Ids) /\ Len(ordered') = Len(ordered) + 1
         /\ ordered'[Len(ordered')] = cur
         /\ \A i \in 1 .. Len(ordered) : ordered'[i] = ordered[i]
         /\ Done' = Done \cup {cur}
<1>1. ordered \in Seq(Ids) /\ Len(ordered) \in Nat
  BY SMT DEF TypeOK
<1>2. /\ ordered' \in Seq(Ids) /\ Len(ordered') = Len(ordered) + 1
      /\ ordered'[Len(ordered) + 1] = cur
      /\ \A i \in 1 .. Len(ordered) : ordered'[i] = ordered[i]
  BY <1>1, SMT
<1>3. Done' = {ordered'[i] : i \in 1 .. Len(ordered) + 1}
  BY <1>2 DEF Done
<1>4. 1 .. Len(ordered) + 1 = 1 .. Len(ordered) \cup {Len(ordered) + 1}
  BY <1>1, SMT
<1>5. Done' = Done \cup {cur}
  BY <1>2, <1>3, <1>4, SMT DEF Done
<1> QED
  BY <1>2, <1>5

\* The loop keeps the invariant.
LEMMA PlanPop == PlanInv /\ Pop => PlanInv'
<1> SUFFICES ASSUME PlanInv, Pop PROVE PlanInv'
  OBVIOUS
<1> USE DEF PlanInv
<1>1. PICK cur \in queue :
        /\ inDegree' = [id \in Ids |-> IF id \in Children(cur) THEN inDegree[id] - 1 ELSE inDegree[id]]
        /\ queue' = (queue \ {cur}) \cup {id \in Children(cur) : inDegree'[id] = 0}
        /\ ordered' = Append(ordered, cur)
  BY DEF Pop
<1>2. cur \in Ids /\ inDegree[cur] = 0 /\ cur \notin Done
  BY DEF TypeOK, DegreeInv
<1>3. /\ ordered' \in Seq(Ids) /\ Len(ordered') = Len(ordered) + 1
      /\ ordered'[Len(ordered')] = cur
      /\ \A i \in 1 .. Len(ordered) : ordered'[i] = ordered[i]
      /\ Done' = Done \cup {cur}
  BY <1>1, <1>2, AppendDone
<1>4. /\ dependsOn' = dependsOn /\ before' = before /\ result' = result
      /\ \A id : Preds(id)' = Preds(id)
  BY DEF Pop, Preds, Edges
<1>5. \A id \in Ids : id \in Children(cur) <=> cur \in Preds(id)
  BY <1>2 DEF Children, Preds
<1>6. \A id \in Ids : inDegree'[id] = Cardinality(Preds(id) \ Done')
  <2> SUFFICES ASSUME NEW id \in Ids PROVE inDegree'[id] = Cardinality(Preds(id) \ Done')
    OBVIOUS
  <2>1. Preds(id) \ Done' = (Preds(id) \ Done) \ {cur}
    BY <1>3
  <2>2. cur \in Preds(id) \ Done <=> id \in Children(cur)
    BY <1>2, <1>5
  <2>3. Cardinality(Preds(id) \ Done') =
          IF cur \in Preds(id) \ Done THEN Cardinality(Preds(id) \ Done) - 1 ELSE Cardinality(Preds(id) \ Done)
    <3> DEFINE Waiting == Preds(id) \ Done
    <3>1. IsFiniteSet(Waiting)
      BY PredsFinite
    <3>2. CASE cur \in Waiting
      <4>1. Cardinality(Waiting \ {cur}) = Cardinality(Waiting) - 1
        <5> HIDE DEF Waiting
        <5> QED
          BY <3>1, <3>2, FS_RemoveElement
      <4> QED
        BY <2>1, <3>2, <4>1
    <3>3. CASE cur \notin Waiting
      <4>1. Waiting \ {cur} = Waiting
        BY <3>3
      <4> QED
        BY <2>1, <3>3, <4>1
    <3> QED
      BY <3>2, <3>3
  <2>4. inDegree[id] = Cardinality(Preds(id) \ Done)
    BY DEF DegreeInv
  <2> QED
    BY <1>1, <2>2, <2>3, <2>4
<1>7. \A id \in Ids : Cardinality(Preds(id) \ Done') \in Nat
  <2> SUFFICES ASSUME NEW id \in Ids PROVE Cardinality(Preds(id) \ Done') \in Nat
    OBVIOUS
  <2>1. Preds(id) \ Done' \subseteq Ids
    BY DEF Preds
  <2> QED
    BY <2>1, IdsAssumption, FS_Subset, FS_CardinalityType
<1>8. Preds(cur) \subseteq Done
  <2>1. Cardinality(Preds(cur) \ Done) = 0
    BY <1>2 DEF DegreeInv
  <2>2. Preds(cur) \ Done = {}
    BY <2>1, PredsFinite, FS_EmptySet
  <2> QED
    BY <2>2
<1>9. TypeOK'
  <2>1. inDegree' \in [Ids -> Nat]
    BY <1>1, <1>6, <1>7
  <2>2. queue' \subseteq Ids
    BY <1>1 DEF TypeOK, Children
  <2> QED
    BY <1>3, <1>4, <2>1, <2>2 DEF TypeOK
<1>10. DegreeInv'
  <2>1. \A id \in queue' : inDegree'[id] = 0 /\ id \notin Done'
    <3> SUFFICES ASSUME NEW id \in queue' PROVE inDegree'[id] = 0 /\ id \notin Done'
      OBVIOUS
    <3>1. CASE id \in Children(cur) /\ inDegree'[id] = 0
      <4>1. id \in Ids /\ cur \in Preds(id)
        BY <3>1, <1>5 DEF Children
      <4>2. id # cur
        BY <4>1, <1>2, <1>8
      <4>3. id \notin Done
        <5> SUFFICES ASSUME id \in Done PROVE FALSE
          OBVIOUS
        <5>1. PICK i \in 1 .. Len(ordered) : ordered[i] = id
          BY DEF Done
        <5>2. PICK k \in 1 .. i - 1 : ordered[k] = cur
          BY <4>1, <5>1 DEF Topological
        <5>3. k \in 1 .. Len(ordered)
          BY <5>1, <5>2, SMT DEF TypeOK
        <5> QED
          BY <5>2, <5>3, <1>2 DEF Done
      <4> QED
        BY <3>1, <4>2, <4>3, <1>3
    <3>2. CASE id \in queue /\ id # cur /\ ~(id \in Children(cur) /\ inDegree'[id] = 0)
      <4>1. id \in Ids /\ inDegree[id] = 0 /\ id \notin Done
        BY <3>2 DEF TypeOK, DegreeInv
      <4>2. id \notin Children(cur)
        <5>1. Cardinality(Preds(id) \ Done) = 0
          BY <4>1 DEF DegreeInv
        <5>2. Preds(id) \ Done = {}
          BY <5>1, PredsFinite, FS_EmptySet
        <5> QED
          BY <4>1, <5>2, <1>2, <1>5
      <4> QED
        BY <4>1, <4>2, <3>2, <1>1, <1>3
    <3> QED
      BY <1>1, <3>1, <3>2
  <2> QED
    BY <1>4, <1>6, <2>1 DEF DegreeInv
<1>11. Topological'
  <2> SUFFICES ASSUME NEW i \in 1 .. Len(ordered')
               PROVE  /\ \A p \in Preds(ordered'[i]) : \E k \in 1 .. i - 1 : ordered'[k] = p
                      /\ \A k \in 1 .. i - 1 : ordered'[k] # ordered'[i]
    BY <1>4 DEF Topological
  <2>0. Len(ordered) \in Nat /\ i \in Nat
    BY <1>3, SMT DEF TypeOK
  <2>1. CASE i = Len(ordered')
    <3>1. ordered'[i] = cur /\ i - 1 = Len(ordered)
      BY <2>0, <2>1, <1>3, SMT
    <3>2. \A p \in Preds(cur) : \E k \in 1 .. Len(ordered) : ordered[k] = p
      BY <1>8 DEF Done
    <3>3. \A k \in 1 .. Len(ordered) : ordered[k] # cur
      BY <1>2 DEF Done
    <3> QED
      BY <3>1, <3>2, <3>3, <1>3
  <2>2. CASE i # Len(ordered')
    <3>1. i \in 1 .. Len(ordered)
      BY <2>0, <2>2, <1>3, SMT
    <3>2. ordered'[i] = ordered[i] /\ \A k \in 1 .. i - 1 : ordered'[k] = ordered[k]
      BY <2>0, <3>1, <1>3, SMT
    <3>3. /\ \A p \in Preds(ordered[i]) : \E k \in 1 .. i - 1 : ordered[k] = p
          /\ \A k \in 1 .. i - 1 : ordered[k] # ordered[i]
      BY <3>1 DEF Topological
    <3> QED
      BY <3>2, <3>3
  <2> QED
    BY <2>1, <2>2
<1> QED
  BY <1>9, <1>10, <1>11

\* The other steps do not touch the plan.
LEMMA PlanStep == PlanInv /\ [Next]_vars => PlanInv'
<1> SUFFICES ASSUME PlanInv, [Next]_vars PROVE PlanInv'
  OBVIOUS
<1>1. CASE Pop
  BY <1>1, PlanPop
<1>2. CASE Finish \/ UNCHANGED vars
  <2>1. /\ UNCHANGED <<dependsOn, before, inDegree, queue, ordered>>
        /\ result' \in {"building", "planned", "cycle"}
    BY <1>2 DEF Finish, vars, PlanInv, TypeOK
  <2>2. Edges' = Edges /\ Done' = Done /\ \A id : Preds(id)' = Preds(id)
    BY <2>1 DEF Edges, Done, Preds
  <2>3. TypeOK'
    BY <2>1 DEF PlanInv, TypeOK
  <2>4. DegreeInv'
    BY <2>1, <2>2 DEF PlanInv, DegreeInv
  <2>5. Topological'
    BY <2>1, <2>2, SMT DEF PlanInv, Topological
  <2> QED
    BY <2>3, <2>4, <2>5 DEF PlanInv
<1> QED
  BY <1>1, <1>2 DEF Next

\* The counters and the queue of Build's loop agree with the edges still open.
THEOREM PlanInvariance == Spec => []PlanInv
  BY PlanInit, PlanStep, PTL DEF Spec

\* Every prefix of the plan that Build puts out is closed under dependencies
\* and has no repetition.
THEOREM PlanOrder == Spec => []Topological
  BY PlanInvariance, PTL DEF PlanInv

-----------------------------------------------------------------------------
(* Cycles *)

\* Each resource of S waits for another one of S.
Knot(S) == \A id \in S : Preds(id) \cap S # {}

\* The plan has as many entries as elements, what has no predecessor left is
\* queued, and no resource of a knot is ever put out.
LoopInv ==
  /\ Cardinality(Done) = Len(ordered)
  /\ \A id \in Ids \ Done : inDegree[id] = 0 => id \in queue
  /\ \A S \in SUBSET Ids : Knot(S) => S \cap Done = {}

CycleInv == PlanInv /\ LoopInv /\ CycleIffRefused

LEMMA DoneFinite ==
  ASSUME TypeOK
  PROVE  Done \subseteq Ids /\ IsFiniteSet(Done) /\ Cardinality(Done) \in Nat
<1>1. Done \subseteq Ids
  BY SMT DEF TypeOK, Done
<1> QED
  BY <1>1, IdsAssumption, FS_Subset, FS_CardinalityType

LEMMA CycleInit == Init => CycleInv
<1> SUFFICES ASSUME Init PROVE CycleInv
  OBVIOUS
<1>1. PlanInv
  BY PlanInit
<1>2. Done = {} /\ Len(ordered) = 0
  BY SMT DEF Init, Done
<1>3. LoopInv
  BY <1>2, FS_EmptySet DEF LoopInv, Init
<1>4. CycleIffRefused
  BY DEF Init, CycleIffRefused
<1> QED
  BY <1>1, <1>3, <1>4 DEF CycleInv

\* What cur waits for is put out before it.
LEMMA CyclePop == CycleInv /\ Pop => CycleInv'
<1> SUFFICES ASSUME CycleInv, Pop PROVE CycleInv'
  OBVIOUS
<1>1. PlanInv /\ TypeOK /\ LoopInv
  BY DEF CycleInv, PlanInv
<1>2. PlanInv'
  BY <1>1, PlanPop
<1>3. PICK cur \in queue :
        /\ inDegree' = [id \in Ids |-> IF id \in Children(cur) THEN inDegree[id] - 1 ELSE inDegree[id]]
        /\ queue' = (queue \ {cur}) \cup {id \in Children(cur) : inDegree'[id] = 0}
        /\ ordered' = Append(ordered, cur)
  BY DEF Pop
<1>4. cur \in Ids /\ inDegree[cur] = 0 /\ cur \notin Done
  BY <1>1 DEF PlanInv, TypeOK, DegreeInv
<1>5. Done' = Done \cup {cur} /\ Len(ordered') = Len(ordered) + 1
  BY <1>1, <1>3, <1>4, AppendDone
<1>6. result' = result /\ result = "building" /\ \A id : Preds(id)' = Preds(id)
  BY DEF Pop, Preds, Edges
<1>7. Preds(cur) \subseteq Done
  <2>1. Cardinality(Preds(cur) \ Done) = 0
    BY <1>1, <1>4 DEF PlanInv, DegreeInv
  <2>2. Preds(cur) \ Done = {}
    BY <2>1, PredsFinite, FS_EmptySet
  <2> QED
    BY <2>2
<1>8. Cardinality(Done') = Len(ordered')
  <2>1. Cardinality(Done \cup {cur}) = Cardinality(Done) + 1
    BY <1>1, <1>4, DoneFinite, FS_AddElement
  <2> QED
    BY <2>1, <1>1, <1>5 DEF LoopInv
<1>9. \A id \in Ids \ Done' : inDegree'[id] = 0 => id \in queue'
  BY <1>1, <1>3, <1>5 DEF LoopInv, Children
<1>10. \A S \in SUBSET Ids : Knot(S) => S \cap Done' = {}
  <2> SUFFICES ASSUME NEW S \in SUBSET Ids, Knot(S) PROVE S \cap Done' = {}
    OBVIOUS
  <2>1. S \cap Done = {}
    BY <1>1 DEF LoopInv
  <2>2. cur \notin S
    BY <2>1, <1>7 DEF Knot
  <2> QED
    BY <2>1, <2>2, <1>5
<1>11. LoopInv'
  BY <1>6, <1>8, <1>9, <1>10 DEF LoopInv, Knot
<1>12. CycleIffRefused'
  BY <1>6 DEF CycleIffRefused
<1> QED
  BY <1>2, <1>11, <1>12 DEF CycleInv

\* With the queue empty, what is left over is a knot; with nothing left over
\* there is none.
LEMMA CycleFinish == CycleInv /\ Finish => CycleIffRefused'
<1> SUFFICES ASSUME CycleInv, Finish PROVE CycleIffRefused'
  OBVIOUS
<1>1. TypeOK /\ LoopInv /\ DegreeInv
  BY DEF CycleInv, PlanInv
<1>2. HasCycle' = HasCycle
  BY SMT DEF Finish, HasCycle, Preds, Edges
<1>3. HasCycle <=> \E S \in SUBSET Ids : S # {} /\ Knot(S)
  BY DEF HasCycle, Knot
<1>4. Done \subseteq Ids /\ Cardinality(Done) = Len(ordered)
  BY <1>1, DoneFinite DEF LoopInv
<1>5. CASE Len(ordered) # Cardinality(Ids)
  <2>1. Ids \ Done # {}
    <3>1. Done # Ids
      BY <1>4, <1>5
    <3> QED
      BY <3>1, <1>4
  <2>2. ASSUME NEW id \in Ids \ Done
        PROVE  Preds(id) \cap (Ids \ Done) # {}
    <3>1. inDegree[id] # 0
      BY <1>1 DEF LoopInv, Finish
    <3>2. Preds(id) \ Done # {}
      BY <1>1, <3>1, FS_EmptySet DEF DegreeInv
    <3> QED
      BY <3>2 DEF Preds
  <2>3. HasCycle
    BY <1>3, <2>1, <2>2 DEF Knot
  <2> QED
    BY <1>2, <1>5, <2>3 DEF Finish, CycleIffRefused
<1>6. CASE Len(ordered) = Cardinality(Ids)
  <2>1. Done = Ids
    BY <1>4, <1>6, IdsAssumption, FS_Subset
  <2>2. ~HasCycle
    BY <1>1, <1>3, <2>1 DEF LoopInv
  <2> QED
    BY <1>2, <1>6, <2>2 DEF Finish, CycleIffRefused
<1> QED
  BY <1>5, <1>6

LEMMA CycleStep == CycleInv /\ [Next]_vars => CycleInv'
<1> SUFFICES ASSUME CycleInv, [Next]_vars PROVE CycleInv'
  OBVIOUS
<1>1. CASE Pop
  BY <1>1, CyclePop
<1>2. CASE Finish \/ UNCHANGED vars
  <2>1. UNCHANGED <<dependsOn, before, inDegree, queue, ordered>>
    BY <1>2 DEF Finish, vars
  <2>2. Done' = Done /\ Edges' = Edges /\ \A id : Preds(id)' = Preds(id)
    BY <2>1 DEF Done, Edges, Preds
  <2>3. LoopInv'
    BY <2>1, <2>2 DEF CycleInv, LoopInv, Knot
  <2>4. CycleIffRefused'
    <3>1. CASE Finish
      BY <3>1, CycleFinish
    <3>2. CASE UNCHANGED vars
      <4>1. HasCycle' = HasCycle
        BY <2>2 DEF HasCycle
      <4> QED
        BY <3>2, <4>1 DEF vars, CycleInv, CycleIffRefused
    <3> QED
      BY <1>2, <3>1, <3>2
  <2>5. PlanInv'
    BY PlanStep DEF CycleInv
  <2> QED
    BY <2>3, <2>4, <2>5 DEF CycleInv
<1> QED
  BY <1>1, <1>2 DEF Next

\* Build refuses exactly the configs in which resources wait for each other.
THEOREM PlanCycles == Spec => []CycleIffRefused
<1>1. CycleInv => CycleIffRefused
  BY DEF CycleInv
<1> QED
  BY <1>1, CycleInit, CycleStep, PTL DEF Spec

-----------------------------------------------------------------------------
(* The least order *)

Agrees(o, n) == \A k \in 1 .. n : ordered[k] = o[k]

\* What is put out so far is a prefix of a topological order, or less than it
\* at the first place where they differ.
PrefixLeast ==
  \A o \in Orders :
    Agrees(o, Len(ordered)) \/ \E i \in 1 .. Len(ordered) : ordered[i] < o[i] /\ Agrees(o, i - 1)

LeastInv ==
  /\ CycleInv /\ PrefixLeast
  /\ result = "planned" => Len(ordered) = Cardinality(Ids)

LEMMA LeastInit == Init => LeastInv
<1> SUFFICES ASSUME Init PROVE LeastInv
  OBVIOUS
<1>1. Len(ordered) = 0 /\ 1 .. 0 = {}
  BY SMT DEF Init
<1>2. PrefixLeast
  BY <1>1 DEF PrefixLeast, Agrees
<1> QED
  BY <1>2, CycleInit DEF LeastInv, Init

\* The loop takes the least of the resources that could come next.
LEMMA LeastPop == LeastInv /\ Pop => LeastInv'
<1> SUFFICES ASSUME LeastInv, Pop PROVE LeastInv'
  OBVIOUS
<1>1. CycleInv /\ TypeOK /\ LoopInv /\ DegreeInv /\ Topological
  BY DEF LeastInv, CycleInv, PlanInv
<1>2. CycleInv' /\ TypeOK' /\ LoopInv'
  BY <1>1, CyclePop DEF CycleInv, PlanInv
<1>3. PICK cur \in queue : IsFirst(cur) /\ ordered' = Append(ordered, cur)
  BY DEF Pop
<1>4. cur \in Ids
  BY <1>1 DEF TypeOK
<1> DEFINE n == Len(ordered)
<1>5. /\ n \in Nat /\ Len(ordered') = n + 1 /\ ordered'[n + 1] = cur
      /\ \A i \in 1 .. n : ordered'[i] = ordered[i]
  <2>1. n \in Nat
    BY <1>1, SMT DEF TypeOK
  <2>2. /\ Len(ordered') = n + 1 /\ ordered'[Len(ordered')] = cur
        /\ \A i \in 1 .. n : ordered'[i] = ordered[i]
    BY <1>1, <1>3, <1>4, AppendDone
  <2> QED
    BY <2>1, <2>2
<1>6. n + 1 <= Cardinality(Ids)
  <2>1. Cardinality(Done') = n + 1
    BY <1>2, <1>5 DEF LoopInv
  <2>2. Done' \subseteq Ids
    BY <1>1, <1>3, <1>4, AppendDone, DoneFinite
  <2> QED
    BY <2>1, <2>2, IdsAssumption, FS_Subset
<1>7. Orders' = Orders /\ result' = result /\ result = "building"
  <2>1. dependsOn' = dependsOn /\ before' = before /\ result' = result /\ result = "building"
    BY DEF Pop
  <2>2. Orders' = Orders
    BY <2>1 DEF Orders, Preds, Edges
  <2> QED
    BY <2>1, <2>2
<1> HIDE DEF n
<1>8. ASSUME NEW o \in Orders, Agrees(o, n)
      PROVE  cur <= o[n + 1]
  <2> DEFINE id == o[n + 1]
  <2>1. /\ o \in [1 .. Cardinality(Ids) -> Ids]
        /\ \A i, k \in DOMAIN o : i # k => o[i] # o[k]
        /\ \A i \in DOMAIN o : \A p \in Preds(o[i]) : \E k \in 1 .. i - 1 : o[k] = p
    BY DEF Orders
  <2>2. Cardinality(Ids) \in Nat
    BY IdsAssumption, FS_CardinalityType
  <2>3. n + 1 \in DOMAIN o /\ id \in Ids
    BY <2>1, <2>2, <1>5, <1>6, SMT
  <2>4. id \notin Done
    <3> SUFFICES ASSUME NEW k \in 1 .. n, ordered[k] = id PROVE FALSE
      BY DEF Done, n
    <3>1. k \in DOMAIN o /\ k # n + 1
      BY <2>1, <2>2, <1>5, <1>6, SMT
    <3>2. o[k] = id
      BY <1>8 DEF Agrees
    <3> QED
      BY <2>1, <2>3, <3>1, <3>2
  <2>5. Preds(id) \subseteq Done
    <3> SUFFICES ASSUME NEW p \in Preds(id) PROVE p \in Done
      OBVIOUS
    <3>1. PICK k \in 1 .. (n + 1) - 1 : o[k] = p
      BY <2>1, <2>3
    <3>2. k \in 1 .. n
      BY <3>1, <1>5, SMT
    <3>3. ordered[k] = p
      BY <3>1, <3>2, <1>8 DEF Agrees
    <3> QED
      BY <3>2, <3>3 DEF Done, n
  <2>6. inDegree[id] = 0
    <3>1. Preds(id) \ Done = {}
      BY <2>5
    <3> QED
      BY <3>1, <2>3, <1>1, FS_EmptySet DEF DegreeInv
  <2>7. id \in queue
    BY <2>3, <2>4, <2>6, <1>1 DEF LoopInv
  <2> QED
    BY <2>7, <1>3 DEF IsFirst
<1>9. PrefixLeast'
  <2> SUFFICES ASSUME NEW o \in Orders
               PROVE  \/ \A k \in 1 .. n + 1 : ordered'[k] = o[k]
                      \/ \E i \in 1 .. n + 1 : /\ ordered'[i] < o[i]
                                              /\ \A k \in 1 .. i - 1 : ordered'[k] = o[k]
    BY <1>5, <1>7 DEF PrefixLeast, Agrees
  <2>1. Agrees(o, n) \/ \E i \in 1 .. n : ordered[i] < o[i] /\ Agrees(o, i - 1)
    BY DEF LeastInv, PrefixLeast, n
  <2>2. CASE Agrees(o, n)
    <3>1. \A k \in 1 .. n : ordered'[k] = o[k]
      BY <2>2, <1>5 DEF Agrees
    <3>2. cur \in Int /\ o[n + 1] \in Int /\ cur <= o[n + 1]
      <4>1. cur <= o[n + 1]
        BY <2>2, <1>8
      <4>2. o \in [1 .. Cardinality(Ids) -> Ids] /\ Cardinality(Ids) \in Nat
        BY IdsAssumption, FS_CardinalityType DEF Orders
      <4>3. n + 1 \in 1 .. Cardinality(Ids)
        BY <4>2, <1>5, <1>6, SMT
      <4>4. o[n + 1] \in Ids
        BY <4>2, <4>3
      <4>5. Ids \subseteq Int
        BY IdsAssumption, SMT
      <4> QED
        BY <4>1, <4>4, <4>5, <1>4
    <3>3. CASE cur = o[n + 1]
      <4>1. \A k \in 1 .. n + 1 : k \in 1 .. n \/ k = n + 1
        BY <1>5, SMT
      <4> QED
        BY <4>1, <3>1, <3>3, <1>5
    <3>4. CASE cur # o[n + 1]
      <4>1. ordered'[n + 1] < o[n + 1] /\ n + 1 \in 1 .. n + 1 /\ (n + 1) - 1 = n
        BY <3>2, <3>4, <1>5, SMT
      <4>2. \A k \in 1 .. (n + 1) - 1 : ordered'[k] = o[k]
        BY <4>1, <3>1
      <4> QED
        BY <4>1, <4>2
    <3> QED
      BY <3>3, <3>4
  <2>3. CASE \E i \in 1 .. n : ordered[i] < o[i] /\ Agrees(o, i - 1)
    <3>1. PICK i \in 1 .. n : ordered[i] < o[i] /\ \A k \in 1 .. i - 1 : ordered[k] = o[k]
      BY <2>3 DEF Agrees
    <3>2. i \in 1 .. n + 1 /\ \A k \in 1 .. i - 1 : k \in 1 .. n
      BY <3>1, <1>5, SMT
    <3> QED
      BY <3>1, <3>2, <1>5
  <2> QED
    BY <2>1, <2>2, <2>3
<1> QED
  BY <1>2, <1>7, <1>9 DEF LeastInv

LEMMA LeastStep == LeastInv /\ [Next]_vars => LeastInv'
<1> SUFFICES ASSUME LeastInv, [Next]_vars PROVE LeastInv'
  OBVIOUS
<1>1. CASE Pop
  BY <1>1, LeastPop
<1>2. CASE Finish \/ UNCHANGED vars
  <2>1. UNCHANGED <<dependsOn, before, inDegree, queue, ordered>>
    BY <1>2 DEF Finish, vars
  <2>2. Orders' = Orders
    BY <2>1 DEF Orders, Preds, Edges
  <2>3. PrefixLeast'
    BY <2>1, <2>2 DEF LeastInv, PrefixLeast, Agrees
  <2>4. result' = "planned" => Len(ordered') = Cardinality(Ids)
    BY <1>2, <2>1 DEF Finish, vars, LeastInv
  <2>5. CycleInv'
    BY CycleStep DEF LeastInv
  <2> QED
    BY <2>3, <2>4, <2>5 DEF LeastInv
<1> QED
  BY <1>1, <1>2 DEF Next

\* Build's plan is the least of all topological orders of the config, so it is
\* a function of the edges alone.
THEOREM PlanIsLeast == Spec => []LeastOrder
<1>1. LeastInv => LeastOrder
  <2> SUFFICES ASSUME LeastInv, result = "planned", NEW o \in Orders, o # ordered
               PROVE  \E i \in DOMAIN o : ordered[i] < o[i] /\ \A k \in 1 .. i - 1 : ordered[k] = o[k]
    BY DEF LeastOrder
  <2>1. o \in [1 .. Cardinality(Ids) -> Ids] /\ Len(ordered) = Cardinality(Ids) /\ ordered \in Seq(Ids)
    BY DEF LeastInv, CycleInv, PlanInv, TypeOK, Orders
  <2>2. DOMAIN o = 1 .. Len(ordered)
    BY <2>1
  <2>3. ~Agrees(o, Len(ordered))
    BY <2>1, <2>2, SMT DEF Agrees
  <2> QED
    BY <2>2, <2>3 DEF LeastInv, PrefixLeast, Agrees
<1> QED
  BY <1>1, LeastInit, LeastStep, PTL DEF Spec

-----------------------------------------------------------------------------
(* Sorting *)

\* A strict total order on S.
TotalOrder(S, R) ==
  /\ \A x, y \in S : x # y => <<x, y>> \in R \/ <<y, x>> \in R
  /\ \A x, y \in S : <<x, y>> \in R => <<y, x>> \notin R
  /\ \A x, y, z \in S : <<x, y>> \in R /\ <<y, z>> \in R => <<x, z>> \in R

\* The rank of a member: how many precede it.  Ranks follow the order and are
\* below the number of members.
LEMMA Ranks ==
  ASSUME NEW S, IsFiniteSet(S), NEW R, TotalOrder(S, R)
  PROVE  /\ \A x \in S : Cardinality({y \in S : <<y, x>> \in R}) \in 0 .. Cardinality(S) - 1
         /\ \A x, z \in S : <<x, z>> \in R =>
              Cardinality({y \in S : <<y, x>> \in R}) < Cardinality({y \in S : <<y, z>> \in R})
<1> DEFINE below(x) == {y \in S : <<y, x>> \in R}
<1>1. \A x \in S : below(x) \in SUBSET S /\ x \notin below(x)
  BY DEF TotalOrder
<1> HIDE DEF below
<1>2. ASSUME NEW T, IsFiniteSet(T), NEW U \in SUBSET T, NEW e \in T, e \notin U
      PROVE  Cardinality(U) \in Nat /\ Cardinality(T) \in Nat /\ Cardinality(U) < Cardinality(T)
  <2>1. IsFiniteSet(U) /\ Cardinality(U) <= Cardinality(T) /\ Cardinality(U) # Cardinality(T)
    BY <1>2, FS_Subset
  <2>2. Cardinality(U) \in Nat /\ Cardinality(T) \in Nat
    BY <2>1, <1>2, FS_CardinalityType
  <2> QED
    BY <2>1, <2>2, SMT
<1>3. ASSUME NEW x \in S
      PROVE  Cardinality(below(x)) \in 0 .. Cardinality(S) - 1
  <2>1. Cardinality(below(x)) \in Nat /\ Cardinality(S) \in Nat /\ Cardinality(below(x)) < Cardinality(S)
    BY <1>1, <1>2
  <2> QED
    BY <2>1, SMT
<1>4. ASSUME NEW x \in S, NEW z \in S, <<x, z>> \in R
      PROVE  Cardinality(below(x)) < Cardinality(below(z))
  <2>1. below(x) \in SUBSET below(z) /\ x \in below(z) /\ x \notin below(x)
    BY <1>4 DEF below, TotalOrder
  <2>2. IsFiniteSet(below(z))
    BY <1>1, FS_Subset
  <2> QED
    BY <2>1, <2>2, <1>2
<1> QED
  BY <1>3, <1>4 DEF below

\* Sorted lists every member once, in the order.
LEMMA SortedFacts ==
  ASSUME NEW S, IsFiniteSet(S), NEW R, TotalOrder(S, R)
  PROVE  /\ Sorted(S, R) \in Seq(S) /\ Len(Sorted(S, R)) = Cardinality(S)
         /\ \A x \in S : \E i \in 1 .. Cardinality(S) : Sorted(S, R)[i] = x
         /\ \A i, k \in 1 .. Cardinality(S) : i < k =>
              Sorted(S, R)[i] # Sorted(S, R)[k] /\ <<Sorted(S, R)[i], Sorted(S, R)[k]>> \in R
<1> DEFINE n == Cardinality(S)
           rank == [x \in S |-> Cardinality({y \in S : <<y, x>> \in R})]
           s == Sorted(S, R)
<1>1. n \in Nat
  BY FS_CardinalityType
<1>2. \A x \in S : rank[x] \in 0 .. n - 1
  BY Ranks
<1>3. \A x, z \in S : <<x, z>> \in R => rank[x] < rank[z]
  <2>1. \A x, z \in S : <<x, z>> \in R =>
          Cardinality({y \in S : <<y, x>> \in R}) < Cardinality({y \in S : <<y, z>> \in R})
    BY Ranks
  <2>2. \A x \in S : rank[x] = Cardinality({y \in S : <<y, x>> \in R})
    OBVIOUS
  <2> HIDE DEF rank
  <2> QED
    BY <2>1, <2>2
<1>4. s = [i \in 1 .. n |-> CHOOSE x \in S : Cardinality({y \in S : <<y, x>> \in R}) = i - 1]
  BY DEF Sorted
<1>5. rank \in [S -> 0 .. n - 1]
  BY <1>2
<1>r. \A x \in S : rank[x] = Cardinality({y \in S : <<y, x>> \in R})
  OBVIOUS
<1> HIDE DEF n, rank, s
<1>6. \A x, z \in S : rank[x] = rank[z] => x = z
  <2> SUFFICES ASSUME NEW x \in S, NEW z \in S, rank[x] = rank[z], x # z PROVE FALSE
    OBVIOUS
  <2>1. <<x, z>> \in R \/ <<z, x>> \in R
    BY DEF TotalOrder
  <2>2. rank[x] < rank[z] \/ rank[z] < rank[x]
    BY <2>1, <1>3
  <2>3. rank[x] \in Int
    BY <1>2, <1>1, SMT
  <2> QED
    BY <2>2, <2>3, SMT
<1>7. rank \in Injection(S, 0 .. n - 1)
  BY <1>5, <1>6 DEF Injection, IsInjective
<1>8. IsFiniteSet(0 .. n - 1) /\ Cardinality(0 .. n - 1) = n
  <2>1. 0 \in Int /\ n - 1 \in Int
    BY <1>1, SMT
  <2>2. IsFiniteSet(0 .. n - 1) /\ Cardinality(0 .. n - 1) = IF 0 > n - 1 THEN 0 ELSE n - 1 - 0 + 1
    BY <2>1, FS_Interval
  <2> QED
    BY <2>2, <1>1, SMT
<1>9. rank \in Surjection(S, 0 .. n - 1)
  BY <1>7, <1>8, FS_Injection DEF n
<1>10. ASSUME NEW i \in 1 .. n
       PROVE  s[i] \in S /\ rank[s[i]] = i - 1
  <2>1. i - 1 \in 0 .. n - 1
    BY <1>1, SMT
  <2>2. \E x \in S : rank[x] = i - 1
    BY <2>1, <1>9 DEF Surjection
  <2>3. s[i] = CHOOSE x \in S : Cardinality({y \in S : <<y, x>> \in R}) = i - 1
    BY <1>4
  <2>4. \E x \in S : Cardinality({y \in S : <<y, x>> \in R}) = i - 1
    BY <2>2, <1>r
  <2>5. s[i] \in S /\ Cardinality({y \in S : <<y, s[i]>> \in R}) = i - 1
    BY <2>3, <2>4
  <2> QED
    BY <2>5, <1>r
<1>11. s \in Seq(S) /\ Len(s) = n
  <2>1. s \in [1 .. n -> S]
    BY <1>4, <1>10
  <2> QED
    BY <2>1, <1>1, SMT
<1>12. ASSUME NEW x \in S
       PROVE  \E i \in 1 .. n : s[i] = x
  <2>1. rank[x] + 1 \in 1 .. n /\ (rank[x] + 1) - 1 = rank[x]
    BY <1>1, <1>2, SMT
  <2>2. s[rank[x] + 1] \in S /\ rank[s[rank[x] + 1]] = rank[x]
    BY <2>1, <1>10
  <2> QED
    BY <2>1, <2>2, <1>6
<1>13. ASSUME NEW i \in 1 .. n, NEW k \in 1 .. n, i < k
       PROVE  s[i] # s[k] /\ <<s[i], s[k]>> \in R
  <2>1. s[i] \in S /\ s[k] \in S /\ rank[s[i]] = i - 1 /\ rank[s[k]] = k - 1
    BY <1>10
  <2>2. rank[s[i]] # rank[s[k]] /\ ~(rank[s[k]] < rank[s[i]])
    BY <2>1, <1>1, <1>13, SMT
  <2>3. <<s[i], s[k]>> \in R \/ <<s[k], s[i]>> \in R
    BY <2>1, <2>2 DEF TotalOrder
  <2> QED
    BY <2>1, <2>2, <2>3, <1>3
<1> QED
  BY <1>11, <1>12, <1>13 DEF s, n

\* Numbers are totally ordered.
LEMMA AscendingFacts ==
  ASSUME NEW S, IsFiniteSet(S), S \subseteq Nat
  PROVE  /\ Ascending(S) \in Seq(S) /\ Len(Ascending(S)) = Cardinality(S)
         /\ \A x \in S : \E i \in 1 .. Cardinality(S) : Ascending(S)[i] = x
         /\ \A i, k \in 1 .. Cardinality(S) : i < k =>
              Ascending(S)[i] # Ascending(S)[k] /\ Ascending(S)[i] < Ascending(S)[k]
<1> DEFINE R == {e \in S \X S : e[1] < e[2]}
<1>1. \A x, y \in S : <<x, y>> \in R <=> x < y
  OBVIOUS
<1>2. \A x \in S : x \in Nat
  OBVIOUS
<1> HIDE DEF R
<1>3. TotalOrder(S, R)
  <2>1. \A x, y \in S : x # y => x < y \/ y < x
    BY <1>2, SMT
  <2>2. \A x, y \in S : x < y => ~(y < x)
    BY <1>2, SMT
  <2>3. \A x, y, z \in S : x < y /\ y < z => x < z
    BY <1>2, SMT
  <2> QED
    BY <2>1, <2>2, <2>3, <1>1 DEF TotalOrder
<1>4. /\ Sorted(S, R) \in Seq(S) /\ Len(Sorted(S, R)) = Cardinality(S)
      /\ \A x \in S : \E i \in 1 .. Cardinality(S) : Sorted(S, R)[i] = x
      /\ \A i, k \in 1 .. Cardinality(S) : i < k =>
              Sorted(S, R)[i] # Sorted(S, R)[k] /\ <<Sorted(S, R)[i], Sorted(S, R)[k]>> \in R
  BY <1>3, SortedFacts
<1>5. Ascending(S) = Sorted(S, R)
  BY DEF Ascending, R
<1>6. \A i \in 1 .. Cardinality(S) : Sorted(S, R)[i] \in S
  <2> DEFINE s == Sorted(S, R)
  <2>1. s \in Seq(S) /\ Len(s) = Cardinality(S)
    BY <1>4
  <2> HIDE DEF s
  <2>2. \A i \in 1 .. Len(s) : s[i] \in S
    BY <2>1, SMT
  <2> QED
    BY <2>1, <2>2 DEF s
<1> QED
  BY <1>1, <1>4, <1>5, <1>6

-----------------------------------------------------------------------------
(* The executor's invariant *)

\* What a plan that reaches Apply is like, filtered or not.
PlanOK ==
  /\ plan.strategy \in Strategies /\ plan.serial \in Nat /\ plan.maxFail \in Nat /\ plan.fatal \in BOOLEAN
  /\ plan.selected \subseteq Nat /\ IsFiniteSet(plan.selected)
  /\ \A r \in plan.selected :
       /\ \A d \in plan.res[r].deps : d \in Nat /\ d < r
       /\ plan.res[r].sources \subseteq plan.res[r].deps
       /\ plan.res[r].notifies \subseteq Nat /\ IsFiniteSet(plan.res[r].notifies)
       /\ plan.res[r].host \in Nat /\ plan.domain[plan.res[r].host] \in Nat
       /\ plan.res[r].retries \in 0 .. MaxRetries

\* The order of the strategy: by number, in a serial run within a batch.
Precedes(q, r) ==
  IF plan.strategy = "serial"
  THEN Batch(plan, q) < Batch(plan, r) \/ (Batch(plan, q) = Batch(plan, r) /\ q < r)
  ELSE q < r

\* The steps are the resources of the plan, each once, in that order.
StepsOK ==
  /\ steps \in Seq(plan.selected) /\ StepsArePermutation
  /\ \A i, k \in 1 .. Len(steps) : i < k => steps[i] # steps[k] /\ Precedes(steps[i], steps[k])

Recorded == [id : Nat, kind : {"step", "skipped", "handler", "missing"}, failed : BOOLEAN, changed : BOOLEAN]

\* The types, with those of what is recorded.
RunTyped ==
  /\ next \in Nat \ {0} /\ attempt \in 1 .. MaxRetries + 1 /\ results \in Seq(Recorded)
  /\ outcome \in {"succeeded", "failed"} /\ at \in {"steps", "handlers", "done"}
  /\ changed \subseteq plan.selected /\ notified \subseteq Nat /\ IsFiniteSet(notified)
  /\ failedSteps \in 0 .. Len(steps)

\* The results are those of the steps, in their order, then of the handlers.
RecordOK ==
  \A k \in 1 .. Len(results) :
    IF k <= Len(steps)
    THEN results[k].id = steps[k] /\ results[k].kind \in StepKinds
    ELSE /\ k - Len(steps) \in 1 .. Len(handlers) /\ results[k].id = handlers[k - Len(steps)]
         /\ results[k].kind \in {"handler", "missing"} /\ (results[k].kind = "missing" => results[k].failed)

\* How far the run is: a step or a handler leaves one result, unless the run
\* stopped at a failure.
PositionOK ==
  /\ at = "steps" => /\ next <= Len(steps) + 1 /\ Len(results) <= next - 1
                     /\ (next <= Len(steps) \/ outcome = "succeeded") => Len(results) = next - 1
  /\ at = "handlers" => /\ outcome = "succeeded" /\ next <= Len(handlers) + 1
                        /\ Len(results) = Len(steps) + next - 1
  /\ at = "done" /\ outcome = "succeeded" => Len(results) = Len(steps) + Len(handlers)

\* The handlers are the notified ones, each once.
HandlersOK ==
  /\ handlers \in Seq(notified)
  /\ at = "steps" => handlers = << >>
  /\ \A i, k \in 1 .. Len(handlers) : i < k => handlers[i] # handlers[k]
  /\ at # "steps" /\ outcome = "succeeded" => \A h \in notified : \E i \in 1 .. Len(handlers) : handlers[i] = h

Failures == {k \in 1 .. Len(results) : results[k].failed}

\* The outcome and the count of failures agree with the results.
BlameOK ==
  /\ outcome = "succeeded" <=> \A k \in 1 .. Len(results) : ~results[k].failed
  /\ at = "steps" => failedSteps = Cardinality(Failures)

\* Every notified handler was notified by a change that is recorded.
NotifiedOK ==
  \A h \in notified : \E k \in 1 .. Len(results) :
    /\ k <= Len(steps) /\ results[k].kind = "step" /\ results[k].changed
    /\ h \in plan.res[results[k].id].notifies

Tolerated(i) ==
  /\ plan.strategy = "free" /\ ~plan.fatal
  /\ plan.maxFail > 0 => (Cardinality({k \in 1 .. i : results[k].failed}) * 100) \div i <= plan.maxFail

\* While steps are left to run, the strategy tolerates every failure so far.
ToleratedOK == Running => \A i \in 1 .. Len(results) : results[i].failed => Tolerated(i)

RunInv ==
  /\ PlanOK /\ StepsOK /\ RunTyped /\ RecordOK /\ PositionOK /\ HandlersOK
  /\ BlameOK /\ NotifiedOK /\ ToleratedOK
  /\ HandlersJustified /\ FailureThreshold /\ RefreshFollowsChange

-----------------------------------------------------------------------------
(* The order of hosts and steps *)

\* A plan has finitely many hosts.
LEMMA HostsFinite ==
  ASSUME PlanOK
  PROVE  /\ IsFiniteSet(HostsOf(plan)) /\ HostsOf(plan) \subseteq Nat
         /\ \A h \in HostsOf(plan) : h \in Nat /\ plan.domain[h] \in Nat
         /\ \A r \in plan.selected : plan.res[r].host \in HostsOf(plan)
<1> DEFINE host == [r \in plan.selected |-> plan.res[r].host]
<1>1. host \in Surjection(plan.selected, HostsOf(plan))
  BY DEF HostsOf, Surjection
<1>2. IsFiniteSet(plan.selected)
  BY DEF PlanOK
<1>3. IsFiniteSet(HostsOf(plan))
  BY <1>1, <1>2, FS_Surjection
<1> QED
  BY <1>3 DEF PlanOK, HostsOf

\* A host's round counts the hosts of its domain before it.
LEMMA RoundFacts ==
  ASSUME PlanOK
  PROVE  /\ \A h \in HostsOf(plan) : Round(plan, h) \in Nat
         /\ \A g, h \in HostsOf(plan) :
              plan.domain[g] = plan.domain[h] /\ g < h => Round(plan, g) < Round(plan, h)
<1> DEFINE H == HostsOf(plan)
           peers(h) == {g \in H : plan.domain[g] = plan.domain[h] /\ g < h}
<1>1. IsFiniteSet(H) /\ \A h \in H : h \in Nat
  BY HostsFinite
<1>2. \A h \in H : peers(h) \in SUBSET H /\ Round(plan, h) = Cardinality(peers(h))
  BY DEF Round
<1>3. ASSUME NEW h \in H
      PROVE  IsFiniteSet(peers(h)) /\ Round(plan, h) \in Nat
  BY <1>1, <1>2, FS_Subset, FS_CardinalityType
<1>4. ASSUME NEW g \in H, NEW h \in H, plan.domain[g] = plan.domain[h], g < h
      PROVE  Round(plan, g) < Round(plan, h)
  <2>1. ~(g < g) /\ \A k \in H : k < g => k < h
    BY <1>1, <1>4, SMT
  <2>2. peers(g) \in SUBSET peers(h) /\ g \in peers(h) /\ g \notin peers(g)
    BY <2>1, <1>4
  <2> HIDE DEF peers
  <2>3. Cardinality(peers(g)) <= Cardinality(peers(h)) /\ Cardinality(peers(g)) # Cardinality(peers(h))
    BY <2>2, <1>3, FS_Subset
  <2>4. Round(plan, g) = Cardinality(peers(g)) /\ Round(plan, h) = Cardinality(peers(h))
    BY <1>2
  <2>5. Round(plan, g) <= Round(plan, h) /\ Round(plan, g) # Round(plan, h)
    BY <2>3, <2>4
  <2> QED
    BY <2>5, <1>3, SMT
<1> QED
  BY <1>3, <1>4

\* What precedes what in OrderedHosts.
LEMMA OrderedHostsFacts ==
  ASSUME NEW g \in HostsOf(plan), NEW h \in HostsOf(plan)
  PROVE  <<g, h>> \in OrderedHosts(plan) <=>
           IF plan.byDomain
           THEN \/ Round(plan, g) < Round(plan, h)
                \/ Round(plan, g) = Round(plan, h) /\ plan.domain[g] < plan.domain[h]
           ELSE g < h
BY DEF OrderedHosts

\* orderedHostsByFailureDomain is a total order on the hosts.
LEMMA HostOrder ==
  ASSUME PlanOK
  PROVE  TotalOrder(HostsOf(plan), OrderedHosts(plan))
<1> DEFINE H == HostsOf(plan)
           Earlier(g, h) == IF plan.byDomain
                            THEN \/ Round(plan, g) < Round(plan, h)
                                 \/ Round(plan, g) = Round(plan, h) /\ plan.domain[g] < plan.domain[h]
                            ELSE g < h
<1>1. \A g, h \in H : <<g, h>> \in OrderedHosts(plan) <=> Earlier(g, h)
  BY OrderedHostsFacts
<1>2. \A h \in H : h \in Nat /\ plan.domain[h] \in Nat /\ Round(plan, h) \in Nat
  BY HostsFinite, RoundFacts
<1>3. \A g, h \in H : g # h => Earlier(g, h) \/ Earlier(h, g)
  <2> SUFFICES ASSUME NEW g \in H, NEW h \in H, g # h PROVE Earlier(g, h) \/ Earlier(h, g)
    OBVIOUS
  <2>1. plan.domain[g] = plan.domain[h] => Round(plan, g) < Round(plan, h) \/ Round(plan, h) < Round(plan, g)
    <3>1. g < h \/ h < g
      BY <1>2, SMT
    <3> QED
      BY <3>1, RoundFacts
  <2>2. \/ Round(plan, g) < Round(plan, h)
        \/ Round(plan, h) < Round(plan, g)
        \/ Round(plan, g) = Round(plan, h) /\ (plan.domain[g] < plan.domain[h] \/ plan.domain[h] < plan.domain[g])
    BY <1>2, <2>1, SMT
  <2>3. g < h \/ h < g
    BY <1>2, SMT
  <2> QED
    BY <2>2, <2>3
<1>4. \A g, h \in H : Earlier(g, h) => ~Earlier(h, g)
  BY <1>2, SMT
<1>5. \A g, h, k \in H : Earlier(g, h) /\ Earlier(h, k) => Earlier(g, k)
  BY <1>2, SMT
<1> HIDE DEF Earlier
<1> QED
  BY <1>1, <1>3, <1>4, <1>5 DEF TotalOrder

\* Hosts have places of their own, in their order.
LEMMA Places ==
  ASSUME PlanOK
  PROVE  /\ \A h \in HostsOf(plan) : Place(plan, h) \in Nat
         /\ \A g, h \in HostsOf(plan) : g # h => Place(plan, g) # Place(plan, h)
<1> DEFINE H == HostsOf(plan)
<1>1. IsFiniteSet(H) /\ TotalOrder(H, OrderedHosts(plan))
  BY HostsFinite, HostOrder
<1>2. /\ \A x \in H : Cardinality({y \in H : <<y, x>> \in OrderedHosts(plan)}) \in 0 .. Cardinality(H) - 1
      /\ \A x, z \in H : <<x, z>> \in OrderedHosts(plan) =>
           Cardinality({y \in H : <<y, x>> \in OrderedHosts(plan)})
             < Cardinality({y \in H : <<y, z>> \in OrderedHosts(plan)})
  BY <1>1, Ranks
<1>3. \A x \in H : Place(plan, x) = Cardinality({y \in H : <<y, x>> \in OrderedHosts(plan)})
  BY DEF Place
<1>4. /\ \A x \in H : Place(plan, x) \in 0 .. Cardinality(H) - 1
      /\ \A x, z \in H : <<x, z>> \in OrderedHosts(plan) => Place(plan, x) < Place(plan, z)
  BY <1>2, <1>3
<1>5. Cardinality(H) \in Nat
  BY <1>1, FS_CardinalityType
<1>6. \A x \in H : Place(plan, x) \in Nat
  BY <1>4, <1>5, SMT
<1>7. \A g, h \in H : g # h => Place(plan, g) < Place(plan, h) \/ Place(plan, h) < Place(plan, g)
  BY <1>1, <1>4 DEF TotalOrder
<1>8. \A g, h \in H : g # h => Place(plan, g) # Place(plan, h)
  BY <1>6, <1>7, SMT
<1> QED
  BY <1>6, <1>8

\* Quotient and remainder determine a number, and the remainder is below the
\* divisor.
LEMMA DivMod ==
  ASSUME NEW p \in Nat, NEW q \in Nat, NEW b \in Nat \ {0}
  PROVE  /\ p % b \in 0 .. b - 1 /\ p \div b \in Nat
         /\ p \div b = q \div b /\ p % b = q % b => p = q
<1>1. p % b \in 0 .. b - 1 /\ p \div b \in Nat
  BY SMT
<1>2. \A n \in Nat : n = b * (n \div b) + (n % b)
  BY Z3
<1> QED
  BY <1>1, <1>2, SMT

\* Batches are numbered.
LEMMA BatchFacts ==
  ASSUME PlanOK
  PROVE  /\ BatchSize(plan) \in Nat \ {0}
         /\ \A r \in plan.selected :
              Place(plan, plan.res[r].host) \in Nat /\ Batch(plan, r) \in Nat
<1>1. BatchSize(plan) \in Nat \ {0}
  <2>1. plan.serial \in Nat
    BY DEF PlanOK
  <2> QED
    BY <2>1, SMT DEF BatchSize
<1>2. ASSUME NEW r \in plan.selected
      PROVE  Place(plan, plan.res[r].host) \in Nat /\ Batch(plan, r) \in Nat
  <2>1. Place(plan, plan.res[r].host) \in Nat
    BY HostsFinite, Places
  <2> QED
    BY <1>1, <2>1, DivMod DEF Batch
<1> QED
  BY <1>1, <1>2

\* Each strategy's order of the steps has every resource of the plan once.
LEMMA StepOrder ==
  ASSUME PlanOK, steps = OrderOf(plan)
  PROVE  StepsOK
<1> DEFINE S == plan.selected
           Earlier(q, r) == Batch(plan, q) < Batch(plan, r) \/ (Batch(plan, q) = Batch(plan, r) /\ q < r)
           R == {e \in S \X S : Earlier(e[1], e[2])}
<1>1. IsFiniteSet(S) /\ S \subseteq Nat
  BY DEF PlanOK
<1>2. CASE plan.strategy = "serial"
  <2>1. \A q, r \in S : <<q, r>> \in R <=> Earlier(q, r)
    OBVIOUS
  <2>2. \A r \in S : r \in Nat /\ Batch(plan, r) \in Nat
    BY <1>1, BatchFacts
  <2>3. steps = Sorted(S, R)
    BY <1>2 DEF OrderOf, SerialOrderedSteps
  <2>4. \A q, r \in S : q # r => Earlier(q, r) \/ Earlier(r, q)
    BY <2>2, SMT
  <2>5. \A q, r \in S : Earlier(q, r) => ~Earlier(r, q)
    BY <2>2, SMT
  <2>6. \A q, r, t \in S : Earlier(q, r) /\ Earlier(r, t) => Earlier(q, t)
    BY <2>2, SMT
  <2>7. \A q, r \in S : Earlier(q, r) => Precedes(q, r)
    BY <1>2 DEF Precedes
  <2> HIDE DEF R, Earlier, S
  <2>8. TotalOrder(S, R)
    BY <2>1, <2>4, <2>5, <2>6 DEF TotalOrder
  <2>9. /\ steps \in Seq(S) /\ Len(steps) = Cardinality(S)
        /\ \A x \in S : \E i \in 1 .. Cardinality(S) : steps[i] = x
        /\ \A i, k \in 1 .. Cardinality(S) : i < k => steps[i] # steps[k] /\ <<steps[i], steps[k]>> \in R
    <3>1. /\ Sorted(S, R) \in Seq(S) /\ Len(Sorted(S, R)) = Cardinality(S)
          /\ \A x \in S : \E i \in 1 .. Cardinality(S) : Sorted(S, R)[i] = x
          /\ \A i, k \in 1 .. Cardinality(S) : i < k =>
               Sorted(S, R)[i] # Sorted(S, R)[k] /\ <<Sorted(S, R)[i], Sorted(S, R)[k]>> \in R
      BY <1>1, <2>8, SortedFacts
    <3> QED
      BY <2>3, <3>1
  <2>10. \A i \in 1 .. Len(steps) : steps[i] \in S
    BY <2>9, SMT
  <2>11. \A i, k \in 1 .. Len(steps) : i < k => steps[i] # steps[k] /\ Precedes(steps[i], steps[k])
    BY <2>1, <2>7, <2>9, <2>10
  <2> QED
    BY <2>9, <2>11 DEF StepsOK, StepsArePermutation, S
<1>3. CASE plan.strategy # "serial"
  <2>1. steps = Ascending(S)
    BY <1>3 DEF OrderOf, PlanSteps
  <2>2. \A q, r : q < r => Precedes(q, r)
    BY <1>3 DEF Precedes
  <2> HIDE DEF S
  <2>3. /\ steps \in Seq(S) /\ Len(steps) = Cardinality(S)
        /\ \A x \in S : \E i \in 1 .. Cardinality(S) : steps[i] = x
        /\ \A i, k \in 1 .. Cardinality(S) : i < k => steps[i] # steps[k] /\ steps[i] < steps[k]
    BY <1>1, <2>1, AscendingFacts
  <2>4. \A i, k \in 1 .. Len(steps) : i < k => steps[i] # steps[k] /\ Precedes(steps[i], steps[k])
    BY <2>2, <2>3
  <2> QED
    BY <2>3, <2>4 DEF StepsOK, StepsArePermutation, S
<1> QED
  BY <1>2, <1>3

\* What the order of the steps gives for two positions of a serial run.
LEMMA BatchesAscend ==
  ASSUME PlanOK, StepsOK, plan.strategy = "serial",
         NEW i \in 1 .. Len(steps), NEW k \in 1 .. Len(steps), i <= k
  PROVE  Batch(plan, steps[i]) <= Batch(plan, steps[k])
<1>1. steps[i] \in plan.selected /\ steps[k] \in plan.selected
  <2>1. steps \in Seq(plan.selected)
    BY DEF StepsOK
  <2> QED
    BY <2>1, SMT
<1>2. Batch(plan, steps[i]) \in Nat /\ Batch(plan, steps[k]) \in Nat
  BY <1>1, BatchFacts
<1>3. CASE i = k
  BY <1>2, <1>3, SMT
<1>4. CASE i # k
  <2>1. i < k
    BY <1>4, SMT
  <2>2. Precedes(steps[i], steps[k])
    BY <2>1 DEF StepsOK
  <2>3. Batch(plan, steps[i]) < Batch(plan, steps[k]) \/ Batch(plan, steps[i]) = Batch(plan, steps[k])
    BY <2>2 DEF Precedes
  <2> QED
    BY <2>3, <1>2, SMT
<1> QED
  BY <1>3, <1>4

\* The hosts open at a step of a serial run are of that step's batch.
LEMMA BatchesHold == PlanOK /\ StepsOK => SerialInBatches
<1> SUFFICES ASSUME PlanOK, StepsOK, plan.strategy = "serial", NEW i \in 1 .. Len(steps)
             PROVE  Cardinality({h \in HostsOf(plan) :
                                   /\ \E k \in 1 .. i : plan.res[steps[k]].host = h
                                   /\ \E k \in i .. Len(steps) : plan.res[steps[k]].host = h}) <= BatchSize(plan)
  BY DEF SerialInBatches
<1> DEFINE open == {h \in HostsOf(plan) : /\ \E k \in 1 .. i : plan.res[steps[k]].host = h
                                          /\ \E k \in i .. Len(steps) : plan.res[steps[k]].host = h}
           b == BatchSize(plan)
           f == [h \in open |-> Place(plan, h) % b]
<1>1. b \in Nat \ {0}
  BY BatchFacts
<1>2. Len(steps) \in Nat /\ \A k \in 1 .. Len(steps) : steps[k] \in plan.selected
  <2>1. steps \in Seq(plan.selected)
    BY DEF StepsOK
  <2> QED
    BY <2>1, SMT
<1>3. ASSUME NEW h \in open
      PROVE  h \in HostsOf(plan) /\ Place(plan, h) \in Nat /\ Place(plan, h) \div b = Batch(plan, steps[i])
  <2>1. PICK k \in 1 .. i : plan.res[steps[k]].host = h
    OBVIOUS
  <2>2. PICK l \in i .. Len(steps) : plan.res[steps[l]].host = h
    OBVIOUS
  <2>3. k \in 1 .. Len(steps) /\ l \in 1 .. Len(steps) /\ k <= i /\ i <= l
    BY <1>2, SMT
  <2>4. Batch(plan, steps[k]) <= Batch(plan, steps[i]) /\ Batch(plan, steps[i]) <= Batch(plan, steps[l])
    BY <2>3, BatchesAscend
  <2>5. Batch(plan, steps[k]) = Place(plan, h) \div b /\ Batch(plan, steps[l]) = Place(plan, h) \div b
    BY <2>1, <2>2 DEF Batch
  <2>6. Batch(plan, steps[k]) \in Nat /\ Batch(plan, steps[i]) \in Nat
    BY <1>2, <2>3, BatchFacts
  <2>7. Place(plan, h) \div b = Batch(plan, steps[i])
    BY <2>4, <2>5, <2>6, SMT
  <2> QED
    BY <2>7, Places
<1> HIDE DEF open, b
<1>4. f \in Injection(open, 0 .. b - 1)
  <2>1. \A h \in open : Place(plan, h) % b \in 0 .. b - 1
    BY <1>1, <1>3, DivMod
  <2>2. ASSUME NEW g \in open, NEW h \in open, Place(plan, g) % b = Place(plan, h) % b
        PROVE  g = h
    <3>1. Place(plan, g) = Place(plan, h)
      BY <1>1, <1>3, <2>2, DivMod
    <3> QED
      BY <3>1, <1>3, Places
  <2> QED
    BY <2>1, <2>2 DEF Injection, IsInjective
<1>5. IsFiniteSet(0 .. b - 1) /\ Cardinality(0 .. b - 1) = b
  <2>1. 0 \in Int /\ b - 1 \in Int
    BY <1>1, SMT
  <2>2. IsFiniteSet(0 .. b - 1) /\ Cardinality(0 .. b - 1) = IF 0 > b - 1 THEN 0 ELSE b - 1 - 0 + 1
    BY <2>1, FS_Interval
  <2> QED
    BY <2>2, <1>1, SMT
<1>6. Cardinality(open) <= b
  <2>1. Cardinality(open) <= Cardinality(0 .. b - 1)
    BY <1>4, <1>5, FS_Injection
  <2> QED
    BY <2>1, <1>5
<1> QED
  BY <1>6 DEF open, b

\* When a host has its turn, the hosts taken from another domain are of no
\* later round, and its own domain gave one in every earlier round.
LEMMA DomainsHold == PlanOK => DomainsInterleaved
<1> SUFFICES ASSUME PlanOK, plan.byDomain, NEW g \in HostsOf(plan), NEW h \in HostsOf(plan)
             PROVE  Cardinality({k \in HostsOf(plan) : plan.domain[k] = plan.domain[g] /\ <<k, h>> \in OrderedHosts(plan)})
                      <= Cardinality({k \in HostsOf(plan) : plan.domain[k] = plan.domain[h]
                                                            /\ <<k, h>> \in OrderedHosts(plan)}) + 1
  BY DEF DomainsInterleaved
<1> DEFINE H == HostsOf(plan)
           others == {k \in H : plan.domain[k] = plan.domain[g] /\ <<k, h>> \in OrderedHosts(plan)}
           own == {k \in H : plan.domain[k] = plan.domain[h] /\ <<k, h>> \in OrderedHosts(plan)}
           peers == {k \in H : plan.domain[k] = plan.domain[h] /\ k < h}
           n == Round(plan, h)
           f == [k \in others |-> Round(plan, k)]
<1>1. IsFiniteSet(H) /\ \A k \in H : k \in Nat /\ Round(plan, k) \in Nat
  BY HostsFinite, RoundFacts
<1>2. \A k, l \in H : plan.domain[k] = plan.domain[l] /\ k < l => Round(plan, k) < Round(plan, l)
  BY RoundFacts
<1>3. \A k \in H : <<k, h>> \in OrderedHosts(plan) <=>
        \/ Round(plan, k) < Round(plan, h)
        \/ Round(plan, k) = Round(plan, h) /\ plan.domain[k] < plan.domain[h]
  BY OrderedHostsFacts
<1>4. n \in Nat
  BY <1>1
<1>5. peers \subseteq own /\ own \subseteq H /\ others \subseteq H /\ n = Cardinality(peers)
  BY <1>2, <1>3 DEF Round
<1>6. \A k \in others : Round(plan, k) \in 0 .. n
  <2>1. \A k \in others : Round(plan, k) < n \/ Round(plan, k) = n
    BY <1>3
  <2>2. \A k \in others : Round(plan, k) \in Nat
    BY <1>1
  <2> HIDE DEF others, n
  <2> QED
    BY <2>1, <2>2, <1>4, SMT
<1>7. \A k, l \in others : Round(plan, k) = Round(plan, l) => k = l
  <2> SUFFICES ASSUME NEW k \in others, NEW l \in others, Round(plan, k) = Round(plan, l), k # l
               PROVE  FALSE
    OBVIOUS
  <2>1. k \in H /\ l \in H /\ plan.domain[k] = plan.domain[l]
    OBVIOUS
  <2>2. k < l \/ l < k
    BY <1>1, <2>1, SMT
  <2>3. Round(plan, k) < Round(plan, l) \/ Round(plan, l) < Round(plan, k)
    BY <2>1, <2>2, <1>2
  <2>4. Round(plan, k) \in Nat
    BY <1>1, <2>1
  <2> QED
    BY <2>3, <2>4, SMT
<1> HIDE DEF H, others, own, peers, n
<1>8. f \in Injection(others, 0 .. n)
  BY <1>6, <1>7 DEF Injection, IsInjective
<1>9. IsFiniteSet(0 .. n) /\ Cardinality(0 .. n) = n + 1
  <2>1. 0 \in Int /\ n \in Int
    BY <1>4, SMT
  <2>2. IsFiniteSet(0 .. n) /\ Cardinality(0 .. n) = IF 0 > n THEN 0 ELSE n - 0 + 1
    BY <2>1, FS_Interval
  <2> QED
    BY <2>2, <1>4, SMT
<1>10. Cardinality(others) <= n + 1
  <2>1. Cardinality(others) <= Cardinality(0 .. n)
    BY <1>8, <1>9, FS_Injection
  <2> QED
    BY <2>1, <1>9
<1>11. IsFiniteSet(own) /\ IsFiniteSet(others)
  BY <1>1, <1>5, FS_Subset
<1>12. n <= Cardinality(own)
  BY <1>5, <1>11, FS_Subset
<1>13. Cardinality(own) \in Nat /\ Cardinality(others) \in Nat
  BY <1>11, FS_CardinalityType
<1>14. Cardinality(others) <= Cardinality(own) + 1
  BY <1>4, <1>10, <1>12, <1>13, SMT
<1> QED
  BY <1>14 DEF others, own, H

-----------------------------------------------------------------------------
(* The executor's steps keep the invariant *)

\* A step's place in the plan.
LEMMA StepsTyped ==
  ASSUME StepsOK
  PROVE  Len(steps) \in Nat /\ \A i \in 1 .. Len(steps) : steps[i] \in plan.selected
<1>1. steps \in Seq(plan.selected)
  BY DEF StepsOK
<1> QED
  BY <1>1, SMT

\* Apply is given a plan that config validation let through.
LEMMA InitPlan == ApplyInit => PlanOK
<1> SUFFICES ASSUME ApplyInit PROVE PlanOK
  OBVIOUS
<1>1. PICK p \in Plans : Valid(p) /\ plan = IF p.caller = "cli" THEN FilterPlanBySelectors(p) ELSE p
  BY DEF ApplyInit
<1>2. /\ plan.strategy = p.strategy /\ plan.serial = p.serial /\ plan.maxFail = p.maxFail /\ plan.fatal = p.fatal
      /\ plan.selected = p.selected /\ plan.res = p.res /\ plan.domain = p.domain
  <2>1. {"strategy", "serial", "maxFail", "fatal", "domain", "selected", "res"} \subseteq DOMAIN p
    BY PlansAssumption
  <2>2. CASE p.caller = "cli"
    <3>1. plan = [p EXCEPT !.handlers = {}]
      BY <1>1, <2>2 DEF FilterPlanBySelectors
    <3> QED
      BY <2>1, <3>1
  <2>3. CASE p.caller # "cli"
    BY <1>1, <2>3
  <2> QED
    BY <2>2, <2>3
<1>3. /\ Len(p.res) \in Nat /\ DOMAIN p.res = 1 .. Len(p.res)
      /\ DOMAIN p.domain \subseteq Nat /\ \A h \in DOMAIN p.domain : p.domain[h] \in Nat
      /\ p.handlers \subseteq Nat /\ IsFiniteSet(p.handlers)
  BY PlansAssumption
<1>4. plan.strategy \in Strategies /\ plan.serial \in Nat /\ plan.maxFail \in Nat /\ plan.fatal \in BOOLEAN
  <2>1. plan.strategy \in Strategies /\ plan.serial \in Nat /\ plan.maxFail \in 0 .. 100 /\ plan.fatal \in BOOLEAN
    BY <1>1, <1>2 DEF Valid
  <2>2. \A n \in 0 .. 100 : n \in Nat
    BY SMT
  <2> QED
    BY <2>1, <2>2
<1>5. plan.selected \subseteq Nat /\ IsFiniteSet(plan.selected)
  <2>1. plan.selected \in SUBSET (1 .. Len(p.res))
    BY <1>1, <1>2, <1>3 DEF Valid
  <2>2. IsFiniteSet(1 .. Len(p.res)) /\ 1 .. Len(p.res) \subseteq Nat
    <3>1. Len(p.res) \in Int /\ 1 \in Int /\ 1 .. Len(p.res) \subseteq Nat
      BY <1>3, SMT
    <3> QED
      BY <3>1, FS_Interval
  <2> QED
    BY <2>1, <2>2, FS_Subset
<1>6. ASSUME NEW r \in plan.selected
      PROVE  /\ \A d \in plan.res[r].deps : d \in Nat /\ d < r
             /\ plan.res[r].sources \subseteq plan.res[r].deps
             /\ plan.res[r].notifies \subseteq Nat /\ IsFiniteSet(plan.res[r].notifies)
             /\ plan.res[r].host \in Nat /\ plan.domain[plan.res[r].host] \in Nat
             /\ plan.res[r].retries \in 0 .. MaxRetries
  <2>1. /\ p.res[r].deps \subseteq 1 .. r - 1 /\ p.res[r].sources \subseteq p.res[r].deps
        /\ p.res[r].notifies \subseteq p.handlers /\ p.res[r].retries \in 0 .. MaxRetries
        /\ p.res[r].host \in DOMAIN p.domain
    BY <1>1, <1>2 DEF Valid
  <2>2. \A d \in 1 .. r - 1 : d \in Nat /\ d < r
    BY <1>5, SMT
  <2>3. plan.res[r] = p.res[r]
    BY <1>2
  <2>4. IsFiniteSet(p.res[r].notifies)
    BY <2>1, <1>3, FS_Subset
  <2> QED
    BY <1>2, <1>3, <2>1, <2>2, <2>3, <2>4
<1> QED
  BY <1>4, <1>5, <1>6 DEF PlanOK

\* Nothing has run.
LEMMA InitRun == ApplyInit => RunInv
<1> SUFFICES ASSUME ApplyInit PROVE RunInv
  OBVIOUS
<1>1. PlanOK /\ StepsOK
  BY InitPlan, StepOrder DEF ApplyInit
<1>2. Len(steps) \in Nat
  BY <1>1, StepsTyped
<1>3. /\ next = 1 /\ attempt = 1 /\ results = << >> /\ changed = {} /\ notified = {} /\ failedSteps = 0
      /\ outcome = "succeeded" /\ at = "steps" /\ handlers = << >>
  BY DEF ApplyInit
<1>4. Len(results) = 0 /\ 1 .. Len(results) = {} /\ Len(handlers) = 0 /\ 1 .. Len(handlers) = {}
  BY <1>3, SMT
<1>5. RunTyped
  <2>1. next \in Nat \ {0} /\ attempt \in 1 .. MaxRetries + 1 /\ results \in Seq(Recorded) /\ failedSteps \in 0 .. Len(steps)
    BY <1>2, <1>3, PlansAssumption, SMT
  <2> QED
    BY <2>1, <1>3, FS_EmptySet DEF RunTyped
<1>6. PositionOK
  <2>1. next <= Len(steps) + 1 /\ Len(results) <= next - 1 /\ Len(results) = next - 1
    BY <1>2, <1>3, <1>4, SMT
  <2> QED
    BY <2>1, <1>3 DEF PositionOK
<1>7. HandlersOK
  <2>1. handlers \in Seq(notified)
    BY <1>3, SMT
  <2> QED
    BY <2>1, <1>3, <1>4 DEF HandlersOK
<1>8. BlameOK
  <2>1. Failures = {}
    BY <1>4 DEF Failures
  <2> QED
    BY <2>1, <1>3, <1>4, FS_EmptySet DEF BlameOK
<1>9. FailureThreshold
  <2>1. 1 .. Len(results) - 1 = {}
    BY <1>4, SMT
  <2> QED
    BY <2>1 DEF FailureThreshold
<1>10. RecordOK /\ NotifiedOK /\ ToleratedOK /\ HandlersJustified /\ RefreshFollowsChange
  BY <1>3, <1>4 DEF RecordOK, NotifiedOK, ToleratedOK, HandlersJustified, RefreshFollowsChange
<1> QED
  BY <1>1, <1>5, <1>6, <1>7, <1>8, <1>9, <1>10 DEF RunInv

\* The plan and the order of its steps do not change.
LEMMA PlanKept ==
  ASSUME PlanOK, StepsOK, UNCHANGED <<plan, steps>>
  PROVE  PlanOK' /\ StepsOK'
<1>1. PlanOK'
  BY DEF PlanOK
<1>2. StepsOK'
  BY DEF StepsOK, StepsArePermutation, Precedes
<1> QED
  BY <1>1, <1>2

\* One result more leaves the others where they are.
LEMMA Appended ==
  ASSUME results \in Seq(Recorded), NEW e \in Recorded, results' = Append(results, e)
  PROVE  /\ Len(results) \in Nat /\ Len(results') = Len(results) + 1 /\ results' \in Seq(Recorded)
         /\ \A k \in 1 .. Len(results) : k \in 1 .. Len(results') /\ results'[k] = results[k]
         /\ results'[Len(results) + 1] = e /\ Len(results) + 1 \in 1 .. Len(results')
         /\ \A k \in 1 .. Len(results') : k \in 1 .. Len(results) \/ k = Len(results) + 1
BY SMT

\* The failures are finitely many, and one result more may be one more.
LEMMA FailuresAppended ==
  ASSUME results \in Seq(Recorded), NEW e \in Recorded, results' = Append(results, e)
  PROVE  /\ Cardinality(Failures) \in Nat
         /\ ~e.failed => Failures' = Failures
         /\ e.failed => Cardinality(Failures') = Cardinality(Failures) + 1
<1> DEFINE n == Len(results)
<1>1. /\ n \in Nat /\ Len(results') = n + 1
      /\ \A k \in 1 .. n : k \in 1 .. n + 1 /\ results'[k] = results[k]
      /\ results'[n + 1] = e /\ n + 1 \in 1 .. n + 1
      /\ \A k \in 1 .. n + 1 : k \in 1 .. n \/ k = n + 1
  BY Appended
<1>2. Failures' = {k \in 1 .. n + 1 : results'[k].failed} /\ Failures = {k \in 1 .. n : results[k].failed}
  BY <1>1 DEF Failures
<1>3. n + 1 \notin 1 .. n
  BY <1>1, SMT
<1> HIDE DEF n
<1>4. IsFiniteSet(Failures)
  <2>1. Failures \in SUBSET (1 .. n)
    BY <1>2
  <2>2. IsFiniteSet(1 .. n)
    <3>1. 1 \in Int /\ n \in Int
      BY <1>1, SMT
    <3> QED
      BY <3>1, FS_Interval
  <2> QED
    BY <2>1, <2>2, FS_Subset
<1>5. CASE ~e.failed
  <2>1. Failures' = Failures
    BY <1>1, <1>2, <1>5
  <2> QED
    BY <2>1, <1>4, <1>5, FS_CardinalityType
<1>6. CASE e.failed
  <2>1. Failures' = Failures \cup {n + 1}
    BY <1>1, <1>2, <1>6
  <2>2. n + 1 \notin Failures
    BY <1>2, <1>3
  <2> QED
    BY <2>1, <2>2, <1>4, <1>6, FS_AddElement, FS_CardinalityType
<1> QED
  BY <1>5, <1>6

\* A failure is as tolerable as it was when a result is added.
LEMMA ToleratedKept ==
  ASSUME results \in Seq(Recorded), NEW e \in Recorded, results' = Append(results, e), plan' = plan,
         NEW i \in 1 .. Len(results)
  PROVE  Tolerated(i)' <=> Tolerated(i)
<1>1. \A k \in 1 .. i : k \in 1 .. Len(results)
  <2>1. Len(results) \in Nat
    BY Appended
  <2> QED
    BY <2>1, SMT
<1>2. {k \in 1 .. i : results'[k].failed} = {k \in 1 .. i : results[k].failed}
  BY <1>1, Appended
<1> QED
  BY <1>2 DEF Tolerated

\* Where a running step puts its result.
LEMMA StepPosition ==
  ASSUME RunInv, Running
  PROVE  /\ Len(results) = next - 1 /\ next \in 1 .. Len(steps) /\ Len(steps) \in Nat
         /\ Current \in plan.selected /\ Current \in Nat /\ handlers = << >>
         /\ ~(next <= Len(results)) /\ Len(results) + 1 = next
         /\ \A k \in 1 .. Len(results) : k \in 1 .. Len(steps) /\ k < next
<1>1. Len(steps) \in Nat /\ \A i \in 1 .. Len(steps) : steps[i] \in plan.selected
  BY StepsTyped DEF RunInv
<1>2. Len(results) = next - 1 /\ next <= Len(steps) /\ next \in Nat \ {0} /\ handlers = << >>
  BY DEF RunInv, Running, PositionOK, RunTyped, HandlersOK
<1>3. /\ next \in 1 .. Len(steps) /\ ~(next <= Len(results)) /\ Len(results) + 1 = next
      /\ \A k \in 1 .. Len(results) : k \in 1 .. Len(steps) /\ k < next
  BY <1>1, <1>2, SMT
<1>4. Current \in plan.selected
  BY <1>1, <1>3 DEF Current
<1>5. Current \in Nat
  BY <1>4 DEF RunInv, PlanOK
<1> QED
  BY <1>1, <1>2, <1>3, <1>4, <1>5

\* What a step's result keeps, whatever the step did.
LEMMA StepAppends ==
  ASSUME RunInv, Running, NEW e \in Recorded, e.id = Current, e.kind \in StepKinds,
         results' = Append(results, e), UNCHANGED <<plan, steps, at, handlers>>
  PROVE  PlanOK' /\ StepsOK' /\ RecordOK' /\ HandlersJustified' /\ FailureThreshold'
<1>1. PlanOK' /\ StepsOK'
  BY PlanKept DEF RunInv
<1>2. results \in Seq(Recorded)
  BY DEF RunInv, RunTyped
<1>3. /\ Len(results') = Len(results) + 1
      /\ \A k \in 1 .. Len(results) : k \in 1 .. Len(results') /\ results'[k] = results[k]
      /\ results'[Len(results) + 1] = e
      /\ \A k \in 1 .. Len(results') : k \in 1 .. Len(results) \/ k = Len(results) + 1
  BY <1>2, Appended
<1>4. /\ Len(results) + 1 = next /\ next \in 1 .. Len(steps) /\ Len(steps) \in Nat
      /\ \A k \in 1 .. Len(results) : k \in 1 .. Len(steps) /\ k < next
  BY StepPosition
<1>5. ASSUME NEW k \in 1 .. Len(results')
      PROVE  k <= Len(steps) /\ results'[k].id = steps[k] /\ results'[k].kind \in StepKinds
  <2>1. CASE k \in 1 .. Len(results)
    <3>1. k <= Len(steps)
      BY <2>1, <1>4, SMT
    <3>2. results[k].id = steps[k] /\ results[k].kind \in StepKinds
      BY <2>1, <3>1 DEF RunInv, RecordOK
    <3> QED
      BY <2>1, <3>1, <3>2, <1>3
  <2>2. CASE k = Len(results) + 1
    <3>1. k = next /\ k <= Len(steps)
      BY <2>2, <1>4, SMT
    <3> QED
      BY <3>1, <1>3, <1>4 DEF Current
  <2> QED
    BY <1>3, <2>1, <2>2
<1>6. RecordOK'
  BY <1>5 DEF RecordOK
<1>7. HandlersJustified'
  <2>1. \A k \in 1 .. Len(results') : results'[k].kind # "handler"
    BY <1>5 DEF StepKinds
  <2> QED
    BY <2>1 DEF HandlersJustified
<1>8. FailureThreshold'
  <2> SUFFICES ASSUME NEW i \in 1 .. Len(results') - 1, results'[i].failed
               PROVE  Tolerated(i)'
    BY DEF FailureThreshold, Tolerated
  <2>1. i \in 1 .. Len(results)
    <3>1. Len(results) \in Nat
      BY <1>2, Appended
    <3> QED
      BY <1>3, <3>1, SMT
  <2>2. results[i].failed
    BY <2>1, <1>3
  <2>3. Tolerated(i)
    BY <2>1, <2>2 DEF RunInv, ToleratedOK
  <2> QED
    BY <2>1, <2>3, <1>2, ToleratedKept
<1> QED
  BY <1>1, <1>6, <1>7, <1>8

\* A dependency in no later batch is not after the resource that has it.
LEMMA DependencyEarlier ==
  ASSUME PlanOK, StepsOK, NEW i \in 1 .. Len(steps), NEW k \in 1 .. Len(steps),
         steps[k] \in plan.res[steps[i]].deps, NotLater(steps[k], steps[i])
  PROVE  k < i
<1>1. steps[i] \in plan.selected /\ steps[k] \in plan.selected /\ Len(steps) \in Nat
  BY StepsTyped
<1>2. steps[i] \in Nat /\ steps[k] \in Nat /\ steps[k] < steps[i]
  BY <1>1 DEF PlanOK
<1>3. Batch(plan, steps[i]) \in Nat /\ Batch(plan, steps[k]) \in Nat
  BY <1>1, BatchFacts
<1>4. ASSUME i < k PROVE FALSE
  <2>1. Precedes(steps[i], steps[k])
    BY <1>4 DEF StepsOK
  <2> QED
    BY <1>2, <1>3, <2>1, SMT DEF Precedes, NotLater
<1>5. ASSUME i = k PROVE FALSE
  BY <1>2, <1>5, SMT
<1> QED
  BY <1>1, <1>4, <1>5, SMT

\* A step is no source of itself or of a resource whose sources came first.
LEMMA RefreshKept ==
  ASSUME RunInv, Running, NEW e \in Recorded, e.id = Current, e.kind \in StepKinds,
         results' = Append(results, e), plan' = plan,
         changed \subseteq changed', changed' \subseteq changed \cup {Current},
         Resource.refreshOnly => (e.kind = "step" <=> Triggered)
  PROVE  RefreshFollowsChange'
<1>1. PlanOK /\ StepsOK /\ RecordOK /\ RefreshFollowsChange /\ results \in Seq(Recorded)
  BY DEF RunInv, RunTyped
<1>2. /\ \A k \in 1 .. Len(results) : k \in 1 .. Len(results') /\ results'[k] = results[k]
      /\ results'[Len(results) + 1] = e
      /\ \A k \in 1 .. Len(results') : k \in 1 .. Len(results) \/ k = Len(results) + 1
  BY <1>1, Appended
<1>3. /\ Len(results) + 1 = next /\ next \in 1 .. Len(steps) /\ Current \in plan.selected
      /\ \A k \in 1 .. Len(results) : k \in 1 .. Len(steps) /\ k < next
  BY StepPosition
<1> SUFFICES ASSUME NEW i \in 1 .. Len(results'), results'[i].kind \in StepKinds,
                    plan.res[results'[i].id].refreshOnly,
                    \A d \in plan.res[results'[i].id].sources \cap plan.selected : NotLater(d, results'[i].id)
             PROVE  results'[i].kind = "step" <=> plan.res[results'[i].id].sources \cap changed' # {}
  BY DEF RefreshFollowsChange, NotLater
<1> DEFINE r == results'[i].id
<1>4. CASE i \in 1 .. Len(results)
  <2>1. results'[i] = results[i]
    BY <1>2, <1>4
  <2>2. i \in 1 .. Len(steps) /\ i < next
    BY <1>3, <1>4
  <2>3. r = steps[i]
    <3>1. i <= Len(steps)
      BY <1>3, <2>2, SMT
    <3> QED
      BY <1>1, <1>4, <2>1, <3>1 DEF RecordOK
  <2>4. results[i].kind = "step" <=> plan.res[r].sources \cap changed # {}
    BY <1>1, <1>4, <2>1 DEF RefreshFollowsChange
  <2>5. Current \notin plan.res[r].sources
    <3> SUFFICES ASSUME Current \in plan.res[r].sources PROVE FALSE
      OBVIOUS
    <3>1. steps[next] \in plan.res[steps[i]].deps /\ NotLater(steps[next], steps[i])
      <4>1. steps[i] \in plan.selected
        BY <1>1, <2>2, StepsTyped
      <4> QED
        BY <4>1, <1>1, <1>3, <2>3 DEF Current, PlanOK
    <3>2. next < i
      BY <1>1, <1>3, <2>2, <3>1, DependencyEarlier
    <3> QED
      BY <3>2, <1>3, <2>2, SMT
  <2> QED
    BY <2>1, <2>4, <2>5
<1>5. CASE i = Len(results) + 1
  <2>1. results'[i] = e /\ r = Current
    BY <1>2, <1>5
  <2>2. Current \notin plan.res[Current].sources
    <3>1. \A d \in plan.res[Current].sources : d \in Nat /\ d < Current
      BY <1>1, <1>3 DEF PlanOK
    <3>2. Current \in Nat
      BY StepPosition
    <3>3. ~(Current < Current)
      <4> HIDE DEF Current
      <4> QED
        BY <3>2, SMT
    <3> QED
      BY <3>1, <3>3
  <2>3. e.kind = "step" <=> plan.res[Current].sources \cap changed # {}
    BY <2>1 DEF Resource, Triggered
  <2> QED
    BY <2>1, <2>2, <2>3
<1> QED
  BY <1>2, <1>4, <1>5

\* A handler's notification stays recorded.
LEMMA NotificationKept ==
  ASSUME NotifiedOK, results \in Seq(Recorded), NEW e \in Recorded, results' = Append(results, e),
         UNCHANGED <<plan, steps>>, NEW h \in notified
  PROVE  \E k \in 1 .. Len(results') :
           /\ k <= Len(steps') /\ results'[k].kind = "step" /\ results'[k].changed
           /\ h \in plan'.res[results'[k].id].notifies
<1>1. PICK k \in 1 .. Len(results) :
        /\ k <= Len(steps) /\ results[k].kind = "step" /\ results[k].changed
        /\ h \in plan.res[results[k].id].notifies
  BY DEF NotifiedOK
<1>2. k \in 1 .. Len(results') /\ results'[k] = results[k]
  BY Appended
<1> QED
  BY <1>1, <1>2

\* A refresh-only resource that is skipped.
LEMMA RunSkip == RunInv /\ SkipStep => RunInv'
<1> SUFFICES ASSUME RunInv, SkipStep PROVE RunInv'
  OBVIOUS
<1> DEFINE e == Result(Current, "skipped", [failed |-> FALSE, changed |-> FALSE])
<1>1. /\ Running /\ Skipping /\ results' = Append(results, e) /\ next' = next + 1
      /\ UNCHANGED <<plan, steps, attempt, changed, notified, failedSteps, outcome, at, handlers>>
  BY DEF SkipStep
<1>2. /\ Len(results) = next - 1 /\ next \in 1 .. Len(steps) /\ Len(steps) \in Nat /\ Current \in Nat
  BY <1>1, StepPosition
<1>3. e \in Recorded /\ e.id = Current /\ e.kind = "skipped" /\ e.kind \in StepKinds /\ e.failed = FALSE
  BY <1>2 DEF Recorded, Result, StepKinds
<1> HIDE DEF e
<1>4. PlanOK' /\ StepsOK' /\ RecordOK' /\ HandlersJustified' /\ FailureThreshold'
  BY <1>1, <1>3, StepAppends
<1>5. RefreshFollowsChange'
  <2>1. Resource.refreshOnly => (e.kind = "step" <=> Triggered)
    BY <1>1, <1>3 DEF Skipping
  <2> QED
    BY <1>1, <1>3, <2>1, RefreshKept
<1>6. results \in Seq(Recorded)
  BY DEF RunInv, RunTyped
<1>7. /\ Len(results) \in Nat /\ Len(results') = Len(results) + 1 /\ results' \in Seq(Recorded)
      /\ \A k \in 1 .. Len(results) : k \in 1 .. Len(results') /\ results'[k] = results[k]
      /\ results'[Len(results) + 1] = e /\ Len(results) + 1 \in 1 .. Len(results')
      /\ \A k \in 1 .. Len(results') : k \in 1 .. Len(results) \/ k = Len(results) + 1
  BY <1>1, <1>3, <1>6, Appended
<1>8. RunTyped'
  <2>1. next' \in Nat \ {0}
    BY <1>1, <1>2, SMT
  <2> QED
    BY <1>1, <1>7, <2>1 DEF RunInv, RunTyped
<1>9. PositionOK'
  <2>1. next' <= Len(steps) + 1 /\ Len(results') <= next' - 1 /\ Len(results') = next' - 1
    BY <1>1, <1>2, <1>7, SMT
  <2> QED
    BY <1>1, <2>1 DEF PositionOK, Running
<1>10. HandlersOK'
  BY <1>1 DEF RunInv, HandlersOK
<1>11. BlameOK'
  <2>1. Failures' = Failures
    BY <1>1, <1>3, <1>6, FailuresAppended
  <2> QED
    BY <1>1, <1>3, <1>7, <2>1 DEF RunInv, BlameOK
<1>12. NotifiedOK'
  BY <1>1, <1>3, <1>6, NotificationKept DEF RunInv, NotifiedOK
<1>13. ToleratedOK'
  <2> SUFFICES ASSUME NEW i \in 1 .. Len(results'), results'[i].failed PROVE Tolerated(i)'
    BY DEF ToleratedOK
  <2>1. i \in 1 .. Len(results) /\ results[i].failed
    BY <1>3, <1>7
  <2>2. Tolerated(i)
    BY <1>1, <2>1 DEF RunInv, ToleratedOK
  <2> QED
    BY <1>1, <1>3, <1>6, <2>1, <2>2, ToleratedKept
<1> QED
  BY <1>4, <1>5, <1>8, <1>9, <1>10, <1>11, <1>12, <1>13 DEF RunInv

\* A failed attempt that will be repeated.
LEMMA RunRetry == RunInv /\ Retry => RunInv'
<1> SUFFICES ASSUME RunInv, Retry PROVE RunInv'
  OBVIOUS
<1>1. /\ Running /\ attempt <= Resource.retries /\ attempt' = attempt + 1
      /\ UNCHANGED <<plan, steps, next, results, changed, notified, failedSteps, outcome, at, handlers>>
  BY DEF Retry
<1>2. attempt' \in 1 .. MaxRetries + 1
  <2>1. Resource.retries \in 0 .. MaxRetries
    BY <1>1, StepPosition DEF RunInv, PlanOK, Resource
  <2>2. attempt \in 1 .. MaxRetries + 1
    BY DEF RunInv, RunTyped
  <2> QED
    BY <1>1, <2>1, <2>2, PlansAssumption, SMT
<1>3. PlanOK' /\ StepsOK'
  BY <1>1, PlanKept DEF RunInv
<1>4. RunTyped'
  BY <1>1, <1>2 DEF RunInv, RunTyped
<1>5. RecordOK' /\ PositionOK' /\ HandlersOK' /\ NotifiedOK'
  BY <1>1 DEF RunInv, RecordOK, PositionOK, HandlersOK, NotifiedOK
<1>6. BlameOK' /\ ToleratedOK'
  BY <1>1 DEF RunInv, BlameOK, Failures, ToleratedOK, Tolerated, Running
<1>7. HandlersJustified' /\ FailureThreshold'
  BY <1>1 DEF RunInv, HandlersJustified, FailureThreshold
<1>8. RefreshFollowsChange'
  BY <1>1 DEF RunInv, RefreshFollowsChange, NotLater
<1> QED
  BY <1>3, <1>4, <1>5, <1>6, <1>7, <1>8 DEF RunInv

\* What an attempt returns.
LEMMA AttemptTyped ==
  ASSUME NEW r, NEW out \in SingleStep(r)
  PROVE  out.failed \in BOOLEAN /\ out.changed \in BOOLEAN
<1> DEFINE ran == {Outcome(r, own, x, y) : own \in Own(r), x \in BOOLEAN, y \in BOOLEAN}
<1>1. ASSUME NEW o \in ran
      PROVE  /\ o.failed \in BOOLEAN /\ o.changed \in BOOLEAN
             /\ [o EXCEPT !.failed = TRUE].failed = TRUE /\ [o EXCEPT !.failed = TRUE].changed = o.changed
  <2>1. PICK own \in Own(r), x \in BOOLEAN, y \in BOOLEAN : o = Outcome(r, own, x, y)
    BY SMT
  <2> DEFINE rescued == own = "fails" /\ r.rescue /\ x
             f == (own = "fails" /\ ~rescued) \/ (r.always /\ ~y)
             c == own = "changes" \/ rescued \/ (r.always /\ y)
  <2>2. o = [failed |-> f, changed |-> c, skipped |-> own = "skips"]
    BY <2>1, SMT DEF Outcome
  <2>3. f \in BOOLEAN /\ c \in BOOLEAN
    BY SMT
  <2> HIDE DEF f, c
  <2> QED
    BY <2>2, <2>3, SMT
<1>2. Broken.failed \in BOOLEAN /\ Broken.changed \in BOOLEAN
  BY DEF Broken
<1>3. out \in {Broken} \cup ran \cup (IF r.until THEN {[o EXCEPT !.failed = TRUE] : o \in ran} ELSE {})
  BY SMT DEF SingleStep
<1> HIDE DEF ran
<1>4. out = Broken \/ out \in ran \/ \E o \in ran : out = [o EXCEPT !.failed = TRUE]
  BY <1>3
<1>5. CASE out = Broken
  BY <1>2, <1>5
<1>6. CASE out \in ran
  BY <1>1, <1>6
<1>7. CASE \E o \in ran : out = [o EXCEPT !.failed = TRUE]
  <2>1. PICK o \in ran : out = [o EXCEPT !.failed = TRUE]
    BY <1>7
  <2>2. out.failed = TRUE /\ out.changed = o.changed /\ o.changed \in BOOLEAN
    BY <1>1, <2>1
  <2> QED
    BY <2>2
<1> QED
  BY <1>4, <1>5, <1>6, <1>7

\* The last attempt at a resource.
LEMMA RunOne == RunInv /\ RunStep => RunInv'
<1> SUFFICES ASSUME RunInv, RunStep PROVE RunInv'
  OBVIOUS
<1>1. PICK out \in SingleStep(Effective) :
        /\ results' = Append(results, Result(Current, "step", out))
        /\ changed' = IF out.changed THEN changed \cup {Current} ELSE changed
        /\ notified' = NotifiedBy(out)
        /\ outcome' = StatusAfter(out)
        /\ failedSteps' = IF out.failed THEN failedSteps + 1 ELSE failedSteps
        /\ next' = IF out.failed /\ ShouldStop(failedSteps + 1, next) THEN Len(steps) + 1 ELSE next + 1
  BY DEF RunStep
<1> DEFINE e == Result(Current, "step", out)
<1>2. Running /\ ~Skipping /\ attempt' = 1 /\ UNCHANGED <<plan, steps, at, handlers>>
  BY DEF RunStep
<1>3. /\ Len(results) = next - 1 /\ next \in 1 .. Len(steps) /\ Len(steps) \in Nat /\ Current \in Nat
      /\ Current \in plan.selected /\ handlers = << >> /\ Len(results) + 1 = next
  BY <1>2, StepPosition
<1>4. /\ e \in Recorded /\ e.id = Current /\ e.kind = "step" /\ e.kind \in StepKinds
      /\ e.failed = out.failed /\ e.changed = out.changed /\ results' = Append(results, e)
  BY <1>1, <1>3, AttemptTyped DEF Recorded, Result, StepKinds
<1> HIDE DEF e
<1>5. PlanOK' /\ StepsOK' /\ RecordOK' /\ HandlersJustified' /\ FailureThreshold'
  BY <1>2, <1>4, StepAppends
<1>6. RefreshFollowsChange'
  <2>1. Resource.refreshOnly => (e.kind = "step" <=> Triggered)
    BY <1>2, <1>4 DEF Skipping
  <2>2. changed \subseteq changed' /\ changed' \subseteq changed \cup {Current}
    BY <1>1
  <2> QED
    BY <1>2, <1>4, <2>1, <2>2, RefreshKept
<1>7. results \in Seq(Recorded)
  BY DEF RunInv, RunTyped
<1>8. /\ Len(results) \in Nat /\ Len(results') = next /\ results' \in Seq(Recorded)
      /\ \A k \in 1 .. Len(results) : k \in 1 .. Len(results') /\ results'[k] = results[k]
      /\ results'[next] = e /\ next \in 1 .. Len(results')
      /\ \A k \in 1 .. Len(results') : k \in 1 .. Len(results) \/ k = next
  BY <1>3, <1>4, <1>7, Appended
<1>9. /\ failedSteps = Cardinality(Failures) /\ failedSteps \in Nat
      /\ failedSteps' = Cardinality(Failures') /\ (out.failed => Cardinality(Failures') = failedSteps + 1)
  <2>1. failedSteps = Cardinality(Failures)
    BY <1>2 DEF RunInv, BlameOK, Running
  <2> QED
    BY <1>1, <1>4, <1>7, <2>1, FailuresAppended
<1>10. failedSteps' \in 0 .. Len(steps)
  <2>1. Failures' \in SUBSET (1 .. next)
    BY <1>8 DEF Failures
  <2>2. IsFiniteSet(1 .. next) /\ Cardinality(1 .. next) = next
    <3>1. 1 \in Int /\ next \in Int
      BY <1>3, SMT
    <3>2. IsFiniteSet(1 .. next) /\ Cardinality(1 .. next) = IF 1 > next THEN 0 ELSE next - 1 + 1
      BY <3>1, FS_Interval
    <3> QED
      BY <3>2, <1>3, SMT
  <2>3. Cardinality(Failures') <= next /\ Cardinality(Failures') \in Nat
    BY <2>1, <2>2, FS_Subset, FS_CardinalityType
  <2> QED
    BY <1>3, <1>9, <2>3, SMT
<1>11. next' \in Nat \ {0} /\ next' <= Len(steps) + 1 /\ Len(results') <= next' - 1
  BY <1>1, <1>3, <1>8, SMT
<1>12. RunTyped'
  <2>1. attempt' \in 1 .. MaxRetries + 1
    BY <1>2, PlansAssumption, SMT
  <2>2. outcome' \in {"succeeded", "failed"}
    BY <1>1 DEF RunInv, RunTyped, StatusAfter
  <2>3. changed' \subseteq plan.selected
    BY <1>1, <1>3 DEF RunInv, RunTyped
  <2>4. notified' \subseteq Nat /\ IsFiniteSet(notified')
    <3>1. Resource.notifies \subseteq Nat /\ IsFiniteSet(Resource.notifies)
      BY <1>3 DEF RunInv, PlanOK, Resource
    <3>2. notified \subseteq Nat /\ IsFiniteSet(notified)
      BY DEF RunInv, RunTyped
    <3>3. IsFiniteSet(notified \cup Resource.notifies)
      BY <3>1, <3>2, FS_Union
    <3> QED
      BY <1>1, <3>1, <3>2, <3>3 DEF NotifiedBy
  <2>5. at' \in {"steps", "handlers", "done"}
    BY <1>2 DEF RunInv, RunTyped
  <2> QED
    BY <1>2, <1>8, <1>10, <1>11, <2>1, <2>2, <2>3, <2>4, <2>5 DEF RunTyped
<1>13. PositionOK'
  <2>1. next' <= Len(steps) \/ outcome' = "succeeded" => Len(results') = next' - 1
    <3>1. CASE out.failed /\ ShouldStop(failedSteps + 1, next)
      <4>1. outcome' = "failed" /\ ~(next' <= Len(steps))
        BY <1>1, <1>3, <3>1, SMT DEF StatusAfter
      <4> QED
        BY <4>1
    <3>2. CASE ~(out.failed /\ ShouldStop(failedSteps + 1, next))
      <4>1. next' = next + 1
        BY <1>1, <3>2
      <4> QED
        BY <4>1, <1>3, <1>8, SMT
    <3> QED
      BY <3>1, <3>2
  <2> QED
    BY <1>2, <1>11, <2>1 DEF PositionOK, Running
<1>14. HandlersOK'
  <2>1. handlers' = << >> /\ handlers' \in Seq(notified') /\ 1 .. Len(handlers') = {}
    BY <1>2, <1>3, SMT
  <2> QED
    BY <1>2, <2>1 DEF HandlersOK, Running
<1>15. BlameOK'
  <2>1. outcome' = "succeeded" <=> outcome = "succeeded" /\ ~e.failed
    BY <1>1, <1>4 DEF StatusAfter
  <2>2. outcome = "succeeded" <=> \A k \in 1 .. Len(results) : ~results[k].failed
    BY DEF RunInv, BlameOK
  <2>3. outcome' = "succeeded" <=> \A k \in 1 .. Len(results') : ~results'[k].failed
    BY <1>8, <2>1, <2>2
  <2> QED
    BY <1>9, <2>3 DEF BlameOK
<1>16. NotifiedOK'
  <2> SUFFICES ASSUME NEW h \in notified'
               PROVE  \E k \in 1 .. Len(results') :
                        /\ k <= Len(steps') /\ results'[k].kind = "step" /\ results'[k].changed
                        /\ h \in plan'.res[results'[k].id].notifies
    BY DEF NotifiedOK
  <2>1. CASE h \in notified
    BY <1>2, <1>4, <1>7, <2>1, NotificationKept DEF RunInv
  <2>2. CASE h \notin notified
    <3>1. out.changed /\ h \in Resource.notifies
      BY <1>1, <2>2 DEF NotifiedBy
    <3>2. next <= Len(steps')
      BY <1>2, <1>3, SMT
    <3> QED
      BY <1>2, <1>4, <1>8, <3>1, <3>2 DEF Resource
  <2> QED
    BY <2>1, <2>2
<1>17. ToleratedOK'
  <2> SUFFICES ASSUME Running', NEW i \in 1 .. Len(results'), results'[i].failed PROVE Tolerated(i)'
    BY DEF ToleratedOK
  <2>1. CASE i \in 1 .. Len(results)
    <3>1. Tolerated(i)
      BY <1>2, <1>8, <2>1 DEF RunInv, ToleratedOK
    <3> QED
      BY <1>2, <1>4, <1>7, <2>1, <3>1, ToleratedKept
  <2>2. CASE i = next
    <3>1. out.failed
      BY <1>4, <1>8, <2>2
    <3>2. ~ShouldStop(failedSteps + 1, next)
      <4> SUFFICES ASSUME ShouldStop(failedSteps + 1, next) PROVE FALSE
        OBVIOUS
      <4>1. next' = Len(steps) + 1 /\ next' <= Len(steps)
        BY <1>1, <1>2, <3>1 DEF Running
      <4> QED
        BY <4>1, <1>3, SMT
    <3>3. failedSteps + 1 > 0 /\ next > 0
      BY <1>3, <1>9, SMT
    <3>4. plan.strategy = "free" /\ ~plan.fatal
      BY <3>2, <3>3 DEF ShouldStop, RunInv, PlanOK, Strategies
    <3>5. {k \in 1 .. i : results'[k].failed} = Failures'
      BY <1>8, <2>2 DEF Failures
    <3>6. plan.maxFail > 0 => ((failedSteps + 1) * 100) \div next <= plan.maxFail
      <4>1. plan.maxFail > 0 => ~(((failedSteps + 1) * 100) \div next > plan.maxFail)
        BY <3>2, <3>3 DEF ShouldStop
      <4>2. ((failedSteps + 1) * 100) \div next \in Nat
        <5>1. (failedSteps + 1) * 100 \in Nat /\ next \in Nat \ {0}
          BY <1>3, <1>9, SMT
        <5> QED
          BY <5>1, DivMod
      <4>3. plan.maxFail \in Nat
        BY DEF RunInv, PlanOK
      <4> QED
        BY <4>1, <4>2, <4>3, SMT
    <3>7. Cardinality({k \in 1 .. i : results'[k].failed}) = failedSteps + 1
      BY <1>9, <3>1, <3>5
    <3> QED
      BY <1>2, <2>2, <3>4, <3>6, <3>7 DEF Tolerated
  <2> QED
    BY <1>8, <2>1, <2>2
<1> QED
  BY <1>5, <1>6, <1>12, <1>13, <1>14, <1>15, <1>16, <1>17 DEF RunInv

\* The steps are over; without a failure the notified handlers follow.
LEMMA RunEndSteps == RunInv /\ EndSteps => RunInv'
<1> SUFFICES ASSUME RunInv, EndSteps PROVE RunInv'
  OBVIOUS
<1>1. /\ at = "steps" /\ next > Len(steps) /\ next' = 1
      /\ at' = IF outcome = "succeeded" THEN "handlers" ELSE "done"
      /\ handlers' = IF outcome = "succeeded" THEN Ascending(notified) ELSE << >>
      /\ UNCHANGED <<plan, steps, attempt, results, changed, notified, failedSteps, outcome>>
  BY DEF EndSteps
<1>2. Len(steps) \in Nat
  BY StepsTyped DEF RunInv
<1>3. /\ next \in Nat /\ results \in Seq(Recorded) /\ notified \subseteq Nat /\ IsFiniteSet(notified)
      /\ outcome \in {"succeeded", "failed"}
  BY DEF RunInv, RunTyped
<1>4. /\ next <= Len(steps) + 1 /\ Len(results) <= next - 1
      /\ outcome = "succeeded" => Len(results) = next - 1
  BY <1>1 DEF RunInv, PositionOK
<1>5. /\ Len(results) \in Nat /\ next = Len(steps) + 1 /\ Len(results) <= Len(steps)
      /\ outcome = "succeeded" => Len(results) = Len(steps)
  BY <1>1, <1>2, <1>3, <1>4, SMT
<1>6. PlanOK' /\ StepsOK'
  BY <1>1, PlanKept DEF RunInv
<1>7. RunTyped'
  <2>1. next' \in Nat \ {0}
    BY <1>1, SMT
  <2>2. at' \in {"steps", "handlers", "done"}
    BY <1>1
  <2> QED
    BY <1>1, <2>1, <2>2 DEF RunInv, RunTyped
<1>8. RecordOK'
  <2>1. \A k \in 1 .. Len(results) : k <= Len(steps)
    BY <1>2, <1>5, SMT
  <2> QED
    BY <1>1, <2>1 DEF RunInv, RecordOK
<1>9. /\ handlers' \in Seq(notified) /\ Len(handlers') \in Nat
      /\ \A i, k \in 1 .. Len(handlers') : i < k => handlers'[i] # handlers'[k]
      /\ outcome = "succeeded" => \A h \in notified : \E i \in 1 .. Len(handlers') : handlers'[i] = h
  <2>1. CASE outcome = "succeeded"
    <3>1. handlers' = Ascending(notified)
      BY <1>1, <2>1
    <3>2. /\ Ascending(notified) \in Seq(notified) /\ Len(Ascending(notified)) = Cardinality(notified)
          /\ \A x \in notified : \E i \in 1 .. Cardinality(notified) : Ascending(notified)[i] = x
          /\ \A i, k \in 1 .. Cardinality(notified) : i < k =>
               Ascending(notified)[i] # Ascending(notified)[k] /\ Ascending(notified)[i] < Ascending(notified)[k]
      BY <1>3, AscendingFacts
    <3>3. Cardinality(notified) \in Nat
      BY <1>3, FS_CardinalityType
    <3> QED
      BY <3>1, <3>2, <3>3
  <2>2. CASE outcome # "succeeded"
    <3>1. handlers' = << >>
      BY <1>1, <2>2
    <3>2. handlers' \in Seq(notified) /\ Len(handlers') \in Nat /\ 1 .. Len(handlers') = {}
      BY <3>1, SMT
    <3> QED
      BY <2>2, <3>2
  <2> QED
    BY <2>1, <2>2
<1>10. HandlersOK'
  BY <1>1, <1>9 DEF HandlersOK
<1>11. PositionOK'
  <2>1. next' <= Len(handlers') + 1 /\ (outcome = "succeeded" => Len(results) = Len(steps) + next' - 1)
    BY <1>1, <1>2, <1>5, <1>9, SMT
  <2> QED
    BY <1>1, <2>1 DEF PositionOK
<1>12. BlameOK' /\ NotifiedOK' /\ ToleratedOK'
  BY <1>1 DEF RunInv, BlameOK, NotifiedOK, ToleratedOK, Running
<1>13. HandlersJustified' /\ FailureThreshold' /\ RefreshFollowsChange'
  BY <1>1 DEF RunInv, HandlersJustified, FailureThreshold, RefreshFollowsChange, NotLater
<1> QED
  BY <1>6, <1>7, <1>8, <1>10, <1>11, <1>12, <1>13 DEF RunInv

\* A handler runs, or is missing from the plan.
LEMMA RunOneHandler == RunInv /\ RunHandler => RunInv'
<1> SUFFICES ASSUME RunInv, RunHandler PROVE RunInv'
  OBVIOUS
<1> DEFINE missing == handlers[next] \notin plan.handlers
<1>1. /\ at = "handlers" /\ next <= Len(handlers) /\ next' = next + 1
      /\ UNCHANGED <<plan, steps, attempt, changed, notified, failedSteps, handlers>>
  BY DEF RunHandler
<1>2. PICK failed \in BOOLEAN, hostChanged \in BOOLEAN :
        LET out == IF missing THEN Broken ELSE [failed |-> failed, changed |-> hostChanged]
        IN /\ results' = Append(results, Result(handlers[next], IF missing THEN "missing" ELSE "handler", out))
           /\ outcome' = IF out.failed THEN "failed" ELSE outcome
           /\ at' = IF out.failed THEN "done" ELSE at
  BY DEF RunHandler
<1> DEFINE out == IF missing THEN Broken ELSE [failed |-> failed, changed |-> hostChanged]
           e == Result(handlers[next], IF missing THEN "missing" ELSE "handler", out)
           n == Len(results)
<1>3. /\ next \in Nat \ {0} /\ results \in Seq(Recorded) /\ notified \subseteq Nat /\ handlers \in Seq(notified)
      /\ outcome = "succeeded" /\ n = Len(steps) + next - 1
  BY <1>1 DEF RunInv, RunTyped, HandlersOK, PositionOK
<1>4. Len(steps) \in Nat
  BY StepsTyped DEF RunInv
<1>5. Len(handlers) \in Nat /\ next \in 1 .. Len(handlers) /\ handlers[next] \in notified
  BY <1>1, <1>3, SMT
<1>6. /\ e \in Recorded /\ e.id = handlers[next] /\ e.kind \in {"handler", "missing"} /\ e.failed = out.failed
      /\ e.kind = "missing" => e.failed
  <2>1. handlers[next] \in Nat
    BY <1>3, <1>5
  <2>2. CASE missing
    <3>1. e = [id |-> handlers[next], kind |-> "missing", failed |-> TRUE, changed |-> FALSE] /\ out.failed = TRUE
      BY <2>2 DEF Result, Broken
    <3> HIDE DEF e, out, missing
    <3> QED
      BY <2>1, <3>1 DEF Recorded
  <2>3. CASE ~missing
    <3>1. /\ e = [id |-> handlers[next], kind |-> "handler", failed |-> failed, changed |-> hostChanged]
          /\ out.failed = failed
      BY <2>3 DEF Result
    <3> HIDE DEF e, out, missing
    <3> QED
      BY <2>1, <3>1 DEF Recorded
  <2> QED
    BY <2>2, <2>3
<1>7. /\ results' = Append(results, e)
      /\ outcome' = IF e.failed THEN "failed" ELSE outcome
      /\ at' = IF e.failed THEN "done" ELSE at
  BY <1>2, <1>6
<1> HIDE DEF e, out
<1>8. /\ n \in Nat /\ Len(results') = n + 1 /\ results' \in Seq(Recorded)
      /\ \A k \in 1 .. n : k \in 1 .. Len(results') /\ results'[k] = results[k]
      /\ results'[n + 1] = e /\ n + 1 \in 1 .. Len(results')
      /\ \A k \in 1 .. Len(results') : k \in 1 .. n \/ k = n + 1
  BY <1>3, <1>6, <1>7, Appended
<1>9. \A k \in 1 .. n : ~results[k].failed
  BY <1>3 DEF RunInv, BlameOK
<1>10. PlanOK' /\ StepsOK'
  BY <1>1, PlanKept DEF RunInv
<1>11. RunTyped'
  <2>1. next' \in Nat \ {0}
    BY <1>1, <1>3, SMT
  <2>2. at' \in {"steps", "handlers", "done"} /\ outcome' \in {"succeeded", "failed"}
    BY <1>1, <1>3, <1>7
  <2> QED
    BY <1>1, <1>8, <2>1, <2>2 DEF RunInv, RunTyped
<1>12. RecordOK'
  <2>1. ASSUME NEW k \in 1 .. n
        PROVE  IF k <= Len(steps)
               THEN results'[k].id = steps[k] /\ results'[k].kind \in StepKinds
               ELSE /\ k - Len(steps) \in 1 .. Len(handlers) /\ results'[k].id = handlers[k - Len(steps)]
                    /\ results'[k].kind \in {"handler", "missing"} /\ (results'[k].kind = "missing" => results'[k].failed)
    <3>1. results'[k] = results[k]
      BY <1>8
    <3> QED
      BY <3>1 DEF RunInv, RecordOK
  <2>2. ~(n + 1 <= Len(steps)) /\ (n + 1) - Len(steps) = next
    BY <1>3, <1>4, <1>8, SMT
  <2> QED
    BY <1>1, <1>5, <1>6, <1>8, <2>1, <2>2 DEF RecordOK
<1>13. PositionOK'
  <2>1. next' <= Len(handlers') + 1 /\ Len(results') = Len(steps') + next' - 1
    BY <1>1, <1>3, <1>4, <1>5, <1>8, SMT
  <2> QED
    BY <1>1, <1>3, <1>7, <2>1 DEF PositionOK
<1>14. HandlersOK'
  <2>1. at # "steps" /\ at' # "steps"
    BY <1>1, <1>7
  <2>2. /\ handlers \in Seq(notified)
        /\ \A i, k \in 1 .. Len(handlers) : i < k => handlers[i] # handlers[k]
        /\ \A h \in notified : \E i \in 1 .. Len(handlers) : handlers[i] = h
    BY <1>3, <2>1 DEF RunInv, HandlersOK
  <2> QED
    BY <1>1, <2>1, <2>2 DEF HandlersOK
<1>15. BlameOK'
  <2>1. outcome' = "succeeded" <=> ~e.failed
    BY <1>3, <1>7
  <2>2. outcome' = "succeeded" <=> \A k \in 1 .. Len(results') : ~results'[k].failed
    BY <1>8, <1>9, <2>1
  <2>3. at' # "steps"
    BY <1>1, <1>7
  <2> QED
    BY <2>2, <2>3 DEF BlameOK
<1>16. NotifiedOK'
  BY <1>1, <1>3, <1>6, <1>7, NotificationKept DEF RunInv, NotifiedOK
<1>17. ToleratedOK'
  BY <1>1, <1>7 DEF ToleratedOK, Running
<1>18. HandlersJustified'
  <2> SUFFICES ASSUME NEW i \in 1 .. Len(results'), results'[i].kind = "handler"
               PROVE  /\ \E k \in 1 .. i - 1 : /\ results'[k].kind = "step" /\ results'[k].changed
                                               /\ results'[i].id \in plan.res[results'[k].id].notifies
                      /\ \A k \in 1 .. i - 1 : ~results'[k].failed
    BY <1>1 DEF HandlersJustified
  <2>1. \A k \in 1 .. i - 1 : k \in 1 .. n
    BY <1>8, SMT
  <2>2. \A k \in 1 .. i - 1 : ~results'[k].failed
    BY <1>8, <1>9, <2>1
  <2>3. CASE i \in 1 .. n
    <3>1. results'[i] = results[i]
      BY <1>8, <2>3
    <3>2. PICK k \in 1 .. i - 1 : /\ results[k].kind = "step" /\ results[k].changed
                                  /\ results[i].id \in plan.res[results[k].id].notifies
      BY <2>3, <3>1 DEF RunInv, HandlersJustified
    <3>3. results'[k] = results[k]
      BY <1>8, <2>1
    <3> QED
      BY <2>2, <3>1, <3>2, <3>3
  <2>4. CASE i = n + 1
    <3>1. results'[i].id \in notified
      BY <1>5, <1>6, <1>8, <2>4
    <3>2. PICK k \in 1 .. n : /\ results[k].kind = "step" /\ results[k].changed
                              /\ results'[i].id \in plan.res[results[k].id].notifies
      BY <3>1 DEF RunInv, NotifiedOK
    <3>3. k \in 1 .. i - 1
      BY <1>8, <2>4, SMT
    <3>4. results'[k] = results[k]
      BY <1>8
    <3> QED
      BY <2>2, <3>2, <3>3, <3>4
  <2> QED
    BY <1>8, <2>3, <2>4
<1>19. FailureThreshold'
  <2>1. \A i \in 1 .. Len(results') - 1 : i \in 1 .. n
    BY <1>8, SMT
  <2>2. \A i \in 1 .. Len(results') - 1 : ~results'[i].failed
    BY <1>8, <1>9, <2>1
  <2> QED
    BY <2>2 DEF FailureThreshold
<1>20. RefreshFollowsChange'
  <2>1. \A i \in 1 .. Len(results') : results'[i].kind \in StepKinds => i \in 1 .. n /\ results'[i] = results[i]
    BY <1>6, <1>8 DEF StepKinds
  <2> QED
    BY <1>1, <2>1 DEF RunInv, RefreshFollowsChange, NotLater
<1> QED
  BY <1>10, <1>11, <1>12, <1>13, <1>14, <1>15, <1>16, <1>17, <1>18, <1>19, <1>20 DEF RunInv

\* All handlers ran.
LEMMA RunFinish == RunInv /\ FinishRun => RunInv'
<1> SUFFICES ASSUME RunInv, FinishRun PROVE RunInv'
  OBVIOUS
<1>1. /\ at = "handlers" /\ next > Len(handlers) /\ at' = "done"
      /\ UNCHANGED <<plan, steps, next, attempt, results, changed, notified, failedSteps, outcome, handlers>>
  BY DEF FinishRun
<1>2. PlanOK' /\ StepsOK'
  BY <1>1, PlanKept DEF RunInv
<1>3. RunTyped' /\ RecordOK' /\ HandlersOK' /\ NotifiedOK'
  BY <1>1 DEF RunInv, RunTyped, RecordOK, HandlersOK, NotifiedOK
<1>4. PositionOK'
  <2>1. /\ next <= Len(handlers) + 1 /\ Len(results) = Len(steps) + next - 1 /\ next \in Nat
        /\ handlers \in Seq(notified)
    BY <1>1 DEF RunInv, PositionOK, RunTyped, HandlersOK
  <2>2. Len(steps) \in Nat
    BY StepsTyped DEF RunInv
  <2>3. Len(results) = Len(steps) + Len(handlers)
    BY <1>1, <2>1, <2>2, SMT
  <2> QED
    BY <1>1, <2>3 DEF PositionOK
<1>5. BlameOK' /\ ToleratedOK'
  BY <1>1 DEF RunInv, BlameOK, ToleratedOK, Running
<1>6. HandlersJustified' /\ FailureThreshold' /\ RefreshFollowsChange'
  BY <1>1 DEF RunInv, HandlersJustified, FailureThreshold, RefreshFollowsChange, NotLater
<1> QED
  BY <1>2, <1>3, <1>4, <1>5, <1>6 DEF RunInv

\* Every action keeps the invariant.
LEMMA RunKept == RunInv /\ [ApplyNext]_applyVars => RunInv'
<1> SUFFICES ASSUME RunInv, [ApplyNext]_applyVars PROVE RunInv'
  OBVIOUS
<1>1. CASE SkipStep
  BY <1>1, RunSkip
<1>2. CASE Retry
  BY <1>2, RunRetry
<1>3. CASE RunStep
  BY <1>3, RunOne
<1>4. CASE EndSteps
  BY <1>4, RunEndSteps
<1>5. CASE RunHandler
  BY <1>5, RunOneHandler
<1>6. CASE FinishRun
  BY <1>6, RunFinish
<1>7. CASE UNCHANGED applyVars
  <2>1. UNCHANGED <<plan, steps, next, attempt, results, changed, notified, failedSteps, outcome, at, handlers>>
    BY <1>7 DEF applyVars
  <2>2. PlanOK' /\ StepsOK'
    BY <2>1, PlanKept DEF RunInv
  <2>3. RunTyped' /\ RecordOK' /\ PositionOK' /\ HandlersOK' /\ NotifiedOK'
    BY <2>1 DEF RunInv, RunTyped, RecordOK, PositionOK, HandlersOK, NotifiedOK
  <2>4. BlameOK' /\ ToleratedOK'
    BY <2>1 DEF RunInv, BlameOK, Failures, ToleratedOK, Tolerated, Running
  <2>5. HandlersJustified' /\ FailureThreshold'
    BY <2>1 DEF RunInv, HandlersJustified, FailureThreshold
  <2>6. RefreshFollowsChange'
    BY <2>1 DEF RunInv, RefreshFollowsChange, NotLater
  <2> QED
    BY <2>2, <2>3, <2>4, <2>5, <2>6 DEF RunInv
<1> QED
  BY <1>1, <1>2, <1>3, <1>4, <1>5, <1>6, <1>7 DEF ApplyNext

\* The executor's invariant holds throughout every run.
THEOREM RunInvariance == ApplySpec => []RunInv
<1> QED
  BY InitRun, RunKept, PTL DEF ApplySpec

-----------------------------------------------------------------------------
(* What the invariant says of a run *)

\* A succeeded run has the result of every resource and handler once.
LEMMA SuccessIsWhole == RunInv => SucceededMeansAll
<1> SUFFICES ASSUME RunInv, RunDone
             PROVE  /\ outcome = "succeeded" <=> \A i \in 1 .. Len(results) : ~results[i].failed
                    /\ outcome = "succeeded" =>
                         /\ \A r \in plan.selected : Cardinality(ResultsOf(r, StepKinds)) = 1
                         /\ \A h \in notified : Cardinality(ResultsOf(h, {"handler"})) = 1
  BY DEF SucceededMeansAll
<1>1. outcome = "succeeded" <=> \A i \in 1 .. Len(results) : ~results[i].failed
  BY DEF RunInv, BlameOK
<1> SUFFICES ASSUME outcome = "succeeded"
             PROVE  /\ \A r \in plan.selected : Cardinality(ResultsOf(r, StepKinds)) = 1
                    /\ \A h \in notified : Cardinality(ResultsOf(h, {"handler"})) = 1
  BY <1>1
<1>2. /\ Len(results) = Len(steps) + Len(handlers) /\ Len(steps) \in Nat /\ Len(handlers) \in Nat
      /\ StepsOK /\ RecordOK
  <2>1. Len(handlers) \in Nat
    <3>1. handlers \in Seq(notified)
      BY DEF RunInv, HandlersOK
    <3> QED
      BY <3>1, SMT
  <2> QED
    BY <2>1, StepsTyped DEF RunInv, RunDone, PositionOK
<1>3. \A i, k \in 1 .. Len(handlers) : i < k => handlers[i] # handlers[k]
  BY DEF RunInv, HandlersOK
<1>4. ASSUME NEW k \in 1 .. Len(results)
      PROVE  IF k <= Len(steps)
             THEN k \in 1 .. Len(steps) /\ results[k].id = steps[k] /\ results[k].kind \in StepKinds
             ELSE /\ k - Len(steps) \in 1 .. Len(handlers) /\ results[k].id = handlers[k - Len(steps)]
                  /\ results[k].kind = "handler"
  <2>1. k <= Len(steps) => k \in 1 .. Len(steps)
    BY <1>2, SMT
  <2>2. ~results[k].failed
    BY <1>1
  <2> QED
    BY <1>2, <2>1, <2>2 DEF RecordOK
<1>5. ASSUME NEW r \in plan.selected
      PROVE  Cardinality(ResultsOf(r, StepKinds)) = 1
  <2>1. PICK i \in 1 .. Len(steps) : steps[i] = r
    BY <1>2 DEF StepsOK, StepsArePermutation
  <2>2. i \in 1 .. Len(results) /\ i <= Len(steps)
    BY <1>2, SMT
  <2>3. results[i].id = r /\ results[i].kind \in StepKinds
    BY <1>4, <2>1, <2>2
  <2>4. ASSUME NEW k \in 1 .. Len(results), results[k].id = r, results[k].kind \in StepKinds
        PROVE  k = i
    <3>1. k \in 1 .. Len(steps) /\ steps[k] = r
      <4>1. k <= Len(steps)
        BY <1>4, <2>4 DEF StepKinds
      <4> QED
        BY <1>4, <2>4, <4>1
    <3>2. ~(i < k) /\ ~(k < i)
      BY <1>2, <2>1, <3>1 DEF StepsOK
    <3> QED
      BY <1>2, <3>1, <3>2, SMT
  <2>5. ResultsOf(r, StepKinds) = {i}
    BY <2>2, <2>3, <2>4 DEF ResultsOf
  <2> QED
    BY <2>5, FS_Singleton
<1>6. ASSUME NEW h \in notified
      PROVE  Cardinality(ResultsOf(h, {"handler"})) = 1
  <2>1. PICK i \in 1 .. Len(handlers) : handlers[i] = h
    BY DEF RunInv, HandlersOK, RunDone
  <2>2. /\ Len(steps) + i \in 1 .. Len(results) /\ ~(Len(steps) + i <= Len(steps))
        /\ (Len(steps) + i) - Len(steps) = i
    BY <1>2, SMT
  <2>3. results[Len(steps) + i].id = h /\ results[Len(steps) + i].kind = "handler"
    BY <1>4, <2>1, <2>2
  <2>4. ASSUME NEW k \in 1 .. Len(results), results[k].id = h, results[k].kind = "handler"
        PROVE  k = Len(steps) + i
    <3>1. k - Len(steps) \in 1 .. Len(handlers) /\ handlers[k - Len(steps)] = h
      <4>1. ~(k <= Len(steps))
        BY <1>4, <2>4 DEF StepKinds
      <4> QED
        BY <1>4, <2>4, <4>1
    <3>2. ~(i < k - Len(steps)) /\ ~(k - Len(steps) < i)
      BY <1>3, <2>1, <3>1
    <3> QED
      BY <1>2, <3>1, <3>2, SMT
  <2>5. ResultsOf(h, {"handler"}) = {Len(steps) + i}
    BY <2>2, <2>3, <2>4 DEF ResultsOf
  <2> QED
    BY <2>5, FS_Singleton
<1> QED
  BY <1>5, <1>6

\* What a resource depends on is at an earlier position, if in no later batch.
LEMMA DependenciesHold == RunInv => DependenciesFirst
<1> SUFFICES ASSUME RunInv, NEW i \in 1 .. Len(results), results[i].kind \in StepKinds,
                    NEW d \in plan.res[results[i].id].deps \cap plan.selected, NotLater(d, results[i].id)
             PROVE  \E k \in 1 .. i - 1 : results[k].id = d /\ results[k].kind \in StepKinds
  BY DEF DependenciesFirst
<1>1. PlanOK /\ StepsOK /\ RecordOK /\ Len(steps) \in Nat /\ results \in Seq(Recorded)
  BY StepsTyped DEF RunInv, RunTyped
<1>2. Len(results) \in Nat
  BY <1>1, SMT
<1>3. i <= Len(steps) /\ results[i].id = steps[i]
  BY <1>1 DEF RecordOK, StepKinds
<1>4. i \in 1 .. Len(steps)
  BY <1>1, <1>2, <1>3, SMT
<1>5. PICK k \in 1 .. Len(steps) : steps[k] = d
  BY <1>1 DEF StepsOK, StepsArePermutation
<1>6. k < i
  BY <1>1, <1>3, <1>4, <1>5, DependencyEarlier
<1>7. k \in 1 .. i - 1 /\ k \in 1 .. Len(results) /\ k <= Len(steps)
  BY <1>1, <1>2, <1>4, <1>6, SMT
<1> QED
  BY <1>1, <1>5, <1>7 DEF RecordOK

\* The variables of the executor keep their types.
THEOREM RunTypes == ApplySpec => []ApplyTypeOK
<1>1. RunInv => ApplyTypeOK
  <2>1. \A n \in Nat \ {0} : n \in Nat
    OBVIOUS
  <2> QED
    BY <2>1 DEF RunInv, StepsOK, RunTyped, ApplyTypeOK
<1> QED
  BY <1>1, RunInvariance, PTL

\* For every plan: a run is recorded as succeeded exactly when nothing failed
\* and everything was run, handlers run only after a change and without a
\* failure, and steps after a failure only as strategy and threshold allow.
THEOREM RunJustified == ApplySpec => []OutcomeJustified
<1>1. RunInv => OutcomeJustified
  BY SuccessIsWhole DEF RunInv, OutcomeJustified
<1> QED
  BY <1>1, RunInvariance, PTL

\* For every plan: each strategy runs every resource once, after what it
\* depends on, refreshed by the sources that changed; serial runs keep to
\* their batches, and the batches take the failure domains in turn.
THEOREM RunRelations == ApplySpec => []RelationsKept
<1>1. RunInv => RelationsKept
  BY DependenciesHold, BatchesHold, DomainsHold DEF RunInv, StepsOK, RelationsKept
<1> QED
  BY <1>1, RunInvariance, PTL

-----------------------------------------------------------------------------
(* Break-glass requests and grants *)

\* A function on the positions of a sequence is a sequence of that length.
LEMMA Mapped ==
  ASSUME NEW S, NEW T, NEW s \in Seq(S), NEW f, f = [i \in DOMAIN s |-> f[i]], \A i \in DOMAIN s : f[i] \in T
  PROVE  f \in Seq(T) /\ Len(f) = Len(s) /\ DOMAIN f = DOMAIN s
<1>1. Len(s) \in Nat /\ DOMAIN s = 1 .. Len(s)
  BY SMT
<1>2. f \in [1 .. Len(s) -> T]
  BY <1>1
<1> QED
  BY <1>1, <1>2, SeqDef, SMT

\* Sequences with the same positions are equally long.
LEMMA SameLength == ASSUME NEW S, NEW s \in Seq(S), NEW t \in Seq(S), DOMAIN s = DOMAIN t PROVE Len(s) = Len(t)
<1>1. Len(s) \in Nat /\ Len(t) \in Nat /\ 1 .. Len(s) = 1 .. Len(t)
  BY SMT
<1>2. \A n \in Nat : n \in 1 .. Len(s) <=> n \in 1 .. Len(t)
  BY <1>1
<1> QED
  BY <1>1, <1>2, SMT

\* What the handlers let through: lifetimes are not negative, and stages ask
\* for some number of approvals.
GrantInputs ==
  /\ MinTTL \in Nat /\ MaxTTL \in Int /\ MaxClock \in Nat /\ MaxRequests \in Nat
  /\ Policies \subseteq Seq(Int)

VotesFor(votes, stage) == {k \in DOMAIN votes : votes[k].stage = stage /\ votes[k].decision = "approve"}
Voters(votes, stage) == {Fold[votes[k].actor] : k \in VotesFor(votes, stage)}

\* A stage that a request has passed has its approvals, each of another
\* person; the last stage is passed exactly by activation.
RequestOK(req) ==
  /\ \A s \in Nat : Cardinality(Voters(req.approvals, s)) = Cardinality(VotesFor(req.approvals, s))
  /\ req.stage <= Len(req.stages) + 1
  /\ \A s \in 1 .. req.stage - 1 : Cardinality(VotesFor(req.approvals, s)) >= req.stages[s]
  /\ req.status = "pending" => req.stage <= Len(req.stages)
  /\ req.expires # None => req.stage = Len(req.stages) + 1
  /\ req.status = "active" => req.expires # None

GrantsInv ==
  /\ GrantsTypeOK
  /\ policies \in Seq(ApprovalPolicies \ {<< >>})
  /\ requests \in Seq(BreakGlassRequests) /\ Len(requests) <= MaxRequests /\ grants \in Seq(JITAccessGrants)
  /\ \A i \in DOMAIN requests : RequestOK(requests[i])
  /\ \A i \in issuing : requests[i].expires # None
  /\ \A g \in DOMAIN grants : grants[g].request # 0 => requests[grants[g].request].expires # None
  /\ \A g \in refused : grants[g].revoked
  /\ revived = {}

\* A vote counts once, and an approval is of a person who has not voted yet in
\* the stage.
LEMMA VoteCounted ==
  ASSUME NEW votes \in Seq(BreakGlassApprovals), NEW vote \in BreakGlassApprovals, NEW s \in Nat,
         vote.decision = "approve" =>
           \A k \in DOMAIN votes : votes[k].stage = vote.stage => Fold[votes[k].actor] # Fold[vote.actor],
         Cardinality(Voters(votes, s)) = Cardinality(VotesFor(votes, s))
  PROVE  /\ Cardinality(Voters(Append(votes, vote), s)) = Cardinality(VotesFor(Append(votes, vote), s))
         /\ Cardinality(VotesFor(Append(votes, vote), s)) \in Nat
         /\ Cardinality(VotesFor(votes, s)) \in Nat
         /\ Cardinality(VotesFor(Append(votes, vote), s)) >= Cardinality(VotesFor(votes, s))
<1> DEFINE after == Append(votes, vote)
           k0 == Len(votes) + 1
           counts == vote.stage = s /\ vote.decision = "approve"
<1>1. /\ Len(votes) \in Nat /\ DOMAIN votes = 1 .. Len(votes)
      /\ after \in Seq(BreakGlassApprovals) /\ DOMAIN after = 1 .. k0
      /\ \A k \in 1 .. Len(votes) : after[k] = votes[k]
      /\ after[k0] = vote
  BY SMT
<1>2. VotesFor(after, s) = VotesFor(votes, s) \cup (IF counts THEN {k0} ELSE {})
  BY <1>1, SMT DEF VotesFor
<1>3. Voters(after, s) = Voters(votes, s) \cup (IF counts THEN {Fold[vote.actor]} ELSE {})
  <2>1. \A k \in VotesFor(votes, s) : after[k] = votes[k]
    BY <1>1 DEF VotesFor
  <2> HIDE DEF after, k0, counts
  <2>2. \A x : x \in Voters(after, s) <=> \E k \in VotesFor(after, s) : x = Fold[after[k].actor]
    BY DEF Voters
  <2>3. \A x : x \in Voters(votes, s) <=> \E k \in VotesFor(votes, s) : x = Fold[votes[k].actor]
    BY DEF Voters
  <2>4. CASE counts
    <3>1. VotesFor(after, s) = VotesFor(votes, s) \cup {k0}
      BY <1>2, <2>4
    <3>2. \A x : x \in Voters(after, s) <=> x \in Voters(votes, s) \/ x = Fold[vote.actor]
      BY <1>1, <2>1, <2>2, <2>3, <3>1, SMT
    <3> QED
      BY <2>4, <3>2
  <2>5. CASE ~counts
    <3>1. VotesFor(after, s) = VotesFor(votes, s)
      BY <1>2, <2>5
    <3>2. \A x : x \in Voters(after, s) <=> x \in Voters(votes, s)
      BY <2>1, <2>2, <2>3, <3>1, SMT
    <3> QED
      BY <2>5, <3>2
  <2> QED
    BY <2>4, <2>5
<1>4. IsFiniteSet(VotesFor(votes, s)) /\ k0 \notin VotesFor(votes, s)
  <2>1. VotesFor(votes, s) \subseteq 1 .. Len(votes)
    BY <1>1 DEF VotesFor
  <2>2. IsFiniteSet(1 .. Len(votes))
    BY <1>1, FS_Interval, SMT
  <2> QED
    BY <1>1, <2>1, <2>2, FS_Subset, SMT
<1>5. IsFiniteSet(Voters(votes, s))
  <2> DEFINE f == [k \in VotesFor(votes, s) |-> Fold[votes[k].actor]]
  <2>1. f \in Surjection(VotesFor(votes, s), Voters(votes, s))
    BY DEF Voters, Surjection
  <2> HIDE DEF f
  <2> QED
    BY <1>4, <2>1, FS_Surjection
<1>6. Cardinality(VotesFor(votes, s)) \in Nat
  BY <1>4, FS_CardinalityType
<1>7. CASE counts
  <2>1. Fold[vote.actor] \notin Voters(votes, s)
    BY <1>7 DEF Voters, VotesFor
  <2>2. Cardinality(Voters(votes, s) \cup {Fold[vote.actor]}) = Cardinality(Voters(votes, s)) + 1
    BY <2>1, <1>5, FS_AddElement
  <2>3. Cardinality(VotesFor(votes, s) \cup {k0}) = Cardinality(VotesFor(votes, s)) + 1
    BY <1>4, FS_AddElement
  <2> HIDE DEF after, k0, counts
  <2> QED
    BY <1>2, <1>3, <1>6, <1>7, <2>2, <2>3, SMT DEF after
<1>8. CASE ~counts
  <2> HIDE DEF after, k0, counts
  <2>1. VotesFor(after, s) = VotesFor(votes, s) /\ Voters(after, s) = Voters(votes, s)
    BY <1>2, <1>3, <1>8
  <2> QED
    BY <2>1, <1>6, SMT DEF after
<1> QED
  BY <1>7, <1>8

\* What the steps on requests keep.
RequestsKept ==
  /\ requests' \in Seq(BreakGlassRequests) /\ Len(requests') <= MaxRequests /\ DOMAIN requests \subseteq DOMAIN requests'
  /\ \A i \in DOMAIN requests' : RequestOK(requests'[i])
  /\ \A i \in DOMAIN requests :
       /\ requests[i].expires # None => requests'[i].expires # None
       /\ requests[i].status \in Terminal => requests'[i].status = requests[i].status

\* expireBreakGlassRequestsLocked ends active requests and leaves the others.
Swept(swept) ==
  /\ swept \in Seq(BreakGlassRequests) /\ Len(swept) = Len(requests) /\ DOMAIN swept = DOMAIN requests
  /\ \A i \in DOMAIN requests :
       /\ swept[i] \in BreakGlassRequests /\ RequestOK(swept[i]) /\ swept[i].expires = requests[i].expires
       /\ requests[i].status \in Terminal => swept[i].status = requests[i].status

\* expireLocked keeps every request as it should be, and ends none that has ended otherwise.
LEMMA RequestsSwept ==
  ASSUME GrantsInv, NEW now, NEW swept, swept = expireBreakGlassRequests(now)
  PROVE  Swept(swept)
<1>1. requests \in Seq(BreakGlassRequests) /\ \A i \in DOMAIN requests : requests[i] \in BreakGlassRequests /\ RequestOK(requests[i])
  BY DEF GrantsInv, GrantsTypeOK
<1>2. \A i \in DOMAIN requests :
        \/ swept[i] = requests[i]
        \/ requests[i].status = "active" /\ swept[i] = [requests[i] EXCEPT !.status = "expired"]
  BY SMT DEF expireBreakGlassRequests
<1>3. ASSUME NEW i \in DOMAIN requests
      PROVE  /\ swept[i] \in BreakGlassRequests
             /\ RequestOK(swept[i]) /\ swept[i].expires = requests[i].expires
             /\ requests[i].status \in Terminal => swept[i].status = requests[i].status
  <2> DEFINE req == requests[i]
             ended == [req EXCEPT !.status = "expired"]
  <2>1. req \in BreakGlassRequests /\ RequestOK(req)
    BY <1>1
  <2>2. CASE swept[i] = req
    BY <2>1, <2>2
  <2>3. CASE req.status = "active" /\ swept[i] = ended
    <3>1. /\ ended \in BreakGlassRequests
          /\ ended.stages = req.stages /\ ended.stage = req.stage /\ ended.approvals = req.approvals
          /\ ended.expires = req.expires /\ ended.status = "expired"
      BY <2>1, SMT DEF BreakGlassRequests, Terminal
    <3>2. RequestOK(ended)
      BY <3>1, <2>1 DEF RequestOK
    <3> QED
      BY <3>1, <3>2, <2>3 DEF Terminal
  <2> QED
    BY <1>2, <2>2, <2>3
<1>4. swept = [i \in DOMAIN requests |-> swept[i]]
  BY DEF expireBreakGlassRequests
<1>5. swept \in Seq(BreakGlassRequests) /\ DOMAIN swept = DOMAIN requests
  BY <1>1, <1>3, <1>4, Mapped
<1>6. Len(swept) = Len(requests)
  BY <1>1, <1>5, SameLength
<1> QED
  BY <1>3, <1>5, <1>6 DEF Swept

\* A sweep alone keeps the requests in order.
LEMMA SweepKeeps == ASSUME GrantsInv, NEW now, requests' = expireBreakGlassRequests(now) PROVE RequestsKept
<1>1. PICK swept : swept = expireBreakGlassRequests(now)
  OBVIOUS
<1>2. Swept(swept)
  BY <1>1, RequestsSwept
<1> QED
  BY <1>1, <1>2 DEF RequestsKept, Swept, GrantsInv

\* A vote on a pending or an active request of a sweep, and what becomes of it.
LEMMA VoteKeeps ==
  ASSUME GrantsInv, NEW swept, Swept(swept), NEW i \in DOMAIN requests, swept[i].status \notin Terminal,
         NEW req \in BreakGlassRequests, RequestOK(req), swept[i].expires # None => req.expires # None,
         requests' = [swept EXCEPT ![i] = req]
  PROVE  RequestsKept
<1>1. /\ swept \in Seq(BreakGlassRequests) /\ DOMAIN swept = DOMAIN requests
      /\ DOMAIN requests' = DOMAIN requests /\ requests'[i] = req
      /\ \A j \in DOMAIN requests : j # i => requests'[j] = swept[j]
  BY DEF Swept
<1>2. requests' \in Seq(BreakGlassRequests)
  BY <1>1, SMT
<1>3. \A j \in DOMAIN requests : RequestOK(requests'[j])
  BY <1>1 DEF Swept
<1>4. \A j \in DOMAIN requests : requests[j].expires # None => requests'[j].expires # None
  BY <1>1 DEF Swept
<1>5. requests[i].status \notin Terminal
  BY <1>1 DEF Swept
<1>6. \A j \in DOMAIN requests : requests[j].status \in Terminal => requests'[j].status = requests[j].status
  BY <1>1, <1>5 DEF Swept
<1>7. Len(requests') = Len(requests) /\ Len(requests) <= MaxRequests
  BY <1>1, <1>2, SameLength DEF GrantsInv
<1> QED
  BY <1>1, <1>2, <1>3, <1>4, <1>6, <1>7 DEF RequestsKept

\* ApproveBreakGlassRequest: an approval of another person, which may pass the
\* stage or activate the request.
LEMMA ApprovalOK ==
  ASSUME GrantInputs, NEW req \in BreakGlassRequests, RequestOK(req), req.status = "pending",
         NEW actor \in Actors, NEW now \in Nat,
         \A k \in DOMAIN req.approvals : req.approvals[k].stage = req.stage => Fold[req.approvals[k].actor] # Fold[actor]
  PROVE  /\ Approved(req, actor, now) \in BreakGlassRequests /\ RequestOK(Approved(req, actor, now))
         /\ req.expires # None => Approved(req, actor, now).expires # None
<1> DEFINE vote == [actor |-> actor, decision |-> "approve", stage |-> req.stage]
           votes == Append(req.approvals, vote)
           noted == [req EXCEPT !.approvals = votes]
           moved == req.stage + 1
           passed == [noted EXCEPT !.stage = moved]
           activated == [noted EXCEPT !.stage = moved, !.status = "active", !.expires = now + req.ttl]
<1>1. /\ req.stages \in Seq(Nat \ {0}) /\ req.stage \in Nat \ {0} /\ req.approvals \in Seq(BreakGlassApprovals)
      /\ req.ttl \in MinTTL .. MaxTTL /\ req.expires \in Nat \cup {None}
      /\ Len(req.stages) \in Nat /\ req.stage <= Len(req.stages)
  <2>1. req.stage <= Len(req.stages)
    BY DEF RequestOK
  <2> QED
    BY <2>1, SMT DEF BreakGlassRequests, ApprovalPolicies
<1>2. vote \in BreakGlassApprovals /\ votes \in Seq(BreakGlassApprovals) /\ vote.stage = req.stage /\ vote.actor = actor
  BY <1>1, SMT DEF BreakGlassApprovals
<1>3. now + req.ttl \in Nat /\ now + req.ttl # None
  BY <1>1, SMT DEF GrantInputs, None
<1>4. \A s \in Nat :
        /\ Cardinality(Voters(votes, s)) = Cardinality(VotesFor(votes, s))
        /\ Cardinality(VotesFor(votes, s)) \in Nat
        /\ Cardinality(VotesFor(req.approvals, s)) \in Nat
        /\ Cardinality(VotesFor(votes, s)) >= Cardinality(VotesFor(req.approvals, s))
  <2> SUFFICES ASSUME NEW s \in Nat
               PROVE  /\ Cardinality(Voters(votes, s)) = Cardinality(VotesFor(votes, s))
                      /\ Cardinality(VotesFor(votes, s)) \in Nat
                      /\ Cardinality(VotesFor(req.approvals, s)) \in Nat
                      /\ Cardinality(VotesFor(votes, s)) >= Cardinality(VotesFor(req.approvals, s))
    OBVIOUS
  <2>1. Cardinality(Voters(req.approvals, s)) = Cardinality(VotesFor(req.approvals, s))
    BY DEF RequestOK
  <2>2. \A k \in DOMAIN req.approvals : req.approvals[k].stage = vote.stage => Fold[req.approvals[k].actor] # Fold[vote.actor]
    BY <1>2
  <2> HIDE DEF vote
  <2> QED
    BY <1>1, <1>2, <2>1, <2>2, VoteCounted
<1>5. /\ noted \in BreakGlassRequests /\ noted.approvals = votes
      /\ noted.stages = req.stages /\ noted.stage = req.stage /\ noted.status = req.status
      /\ noted.expires = req.expires /\ noted.ttl = req.ttl
  <2> HIDE DEF votes
  <2> QED
    BY <1>2, SMT DEF BreakGlassRequests
<1>6. req.expires = None
  BY <1>1, SMT DEF RequestOK
<1>7. \A s \in 1 .. req.stage - 1 :
        s \in Nat /\ Cardinality(VotesFor(votes, s)) >= req.stages[s]
  <2> SUFFICES ASSUME NEW s \in 1 .. req.stage - 1 PROVE s \in Nat /\ Cardinality(VotesFor(votes, s)) >= req.stages[s]
    OBVIOUS
  <2>1. s \in Nat /\ req.stages[s] \in Nat
    BY <1>1, SMT
  <2>2. Cardinality(VotesFor(req.approvals, s)) >= req.stages[s]
    BY DEF RequestOK
  <2> QED
    BY <1>4, <2>1, <2>2, SMT
<1>8. countApprovalsForStage(noted, req.stage) = Cardinality(VotesFor(votes, req.stage))
  BY <1>5 DEF countApprovalsForStage, VotesFor
<1>9. CASE countApprovalsForStage(noted, req.stage) < req.stages[req.stage]
  <2>1. Approved(req, actor, now) = noted
    BY <1>9 DEF Approved
  <2>2. RequestOK(noted)
    BY <1>4, <1>5, <1>7 DEF RequestOK
  <2> QED
    BY <1>5, <1>6, <2>1, <2>2
<1>10. CASE ~(countApprovalsForStage(noted, req.stage) < req.stages[req.stage])
  <2> HIDE DEF votes
  <2>1. \A s \in 1 .. moved - 1 : Cardinality(VotesFor(votes, s)) >= req.stages[s]
    BY <1>1, <1>4, <1>7, <1>8, <1>10, SMT
  <2>2. CASE moved <= Len(req.stages)
    <3>1. Approved(req, actor, now) = passed
      BY <1>10, <2>2 DEF Approved, votes
    <3>2. /\ passed \in BreakGlassRequests /\ passed.approvals = votes
          /\ passed.stages = req.stages /\ passed.stage = moved /\ passed.status = req.status
          /\ passed.expires = req.expires
      <4> HIDE DEF noted
      <4>1. moved \in Nat \ {0}
        BY <1>1, SMT
      <4> HIDE DEF moved
      <4> QED
        BY <1>5, <4>1, SMT DEF BreakGlassRequests
    <3>3. moved <= Len(req.stages) + 1
      BY <1>1, <2>2, SMT
    <3>4. RequestOK(passed)
      BY <1>4, <1>6, <2>1, <2>2, <3>2, <3>3 DEF RequestOK
    <3> QED
      BY <1>6, <3>1, <3>2, <3>4
  <2>3. CASE ~(moved <= Len(req.stages))
    <3>1. Approved(req, actor, now) = activated
      BY <1>10, <2>3 DEF Approved, votes
    <3>2. /\ activated \in BreakGlassRequests /\ activated.approvals = votes
          /\ activated.stages = req.stages /\ activated.stage = moved /\ activated.status = "active"
          /\ activated.expires = now + req.ttl
      <4> HIDE DEF noted
      <4>1. moved \in Nat \ {0}
        BY <1>1, SMT
      <4> HIDE DEF moved
      <4>2. PICK p : p = passed
        OBVIOUS
      <4>3. p \in BreakGlassRequests /\ p.approvals = votes /\ p.stages = req.stages /\ p.stage = moved
        BY <1>5, <4>1, <4>2, SMT DEF BreakGlassRequests
      <4>4. PICK q : q = [p EXCEPT !.status = "active"]
        OBVIOUS
      <4>5. /\ q \in BreakGlassRequests /\ q.approvals = votes /\ q.stages = req.stages /\ q.stage = moved
            /\ q.status = "active"
        BY <4>3, <4>4, SMT DEF BreakGlassRequests
      <4>6. activated = [q EXCEPT !.expires = now + req.ttl]
        BY <4>2, <4>4
      <4> HIDE DEF activated
      <4> QED
        BY <1>3, <4>5, <4>6, SMT DEF BreakGlassRequests
    <3>3. moved = Len(req.stages) + 1 /\ moved <= Len(req.stages) + 1
      BY <1>1, <2>3, SMT
    <3>4. RequestOK(activated)
      BY <1>3, <1>4, <2>1, <3>2, <3>3 DEF RequestOK
    <3> QED
      BY <1>6, <3>1, <3>2, <3>4
  <2> QED
    BY <2>2, <2>3
<1> QED
  BY <1>9, <1>10

\* Reject and Revoke note the decision and end the request.
LEMMA DecisionOK ==
  ASSUME NEW req \in BreakGlassRequests, RequestOK(req), NEW actor \in Actors,
         NEW decision \in {"reject", "revoke"}, NEW ended \in {"rejected", "revoked"}
  PROVE  /\ Decided(req, actor, decision, ended) \in BreakGlassRequests
         /\ RequestOK(Decided(req, actor, decision, ended))
         /\ Decided(req, actor, decision, ended).expires = req.expires
<1> DEFINE vote == [actor |-> actor, decision |-> decision, stage |-> req.stage]
           votes == Append(req.approvals, vote)
           noted == [req EXCEPT !.approvals = votes, !.status = ended]
<1>1. req.approvals \in Seq(BreakGlassApprovals) /\ req.stage \in Nat \ {0} /\ req.stages \in Seq(Nat \ {0})
  BY SMT DEF BreakGlassRequests, ApprovalPolicies
<1>2. vote \in BreakGlassApprovals /\ votes \in Seq(BreakGlassApprovals) /\ vote.decision # "approve"
  BY <1>1, SMT DEF BreakGlassApprovals
<1>3. \A s \in Nat :
        /\ Cardinality(Voters(votes, s)) = Cardinality(VotesFor(votes, s))
        /\ Cardinality(VotesFor(votes, s)) \in Nat
        /\ Cardinality(VotesFor(req.approvals, s)) \in Nat
        /\ Cardinality(VotesFor(votes, s)) >= Cardinality(VotesFor(req.approvals, s))
  <2> HIDE DEF vote
  <2> QED
    BY <1>1, <1>2, VoteCounted DEF RequestOK
<1>4. /\ noted \in BreakGlassRequests /\ noted.approvals = votes
      /\ noted.stages = req.stages /\ noted.stage = req.stage /\ noted.status = ended
      /\ noted.expires = req.expires
  <2> HIDE DEF votes
  <2> QED
    <3>1. PICK p : p = [req EXCEPT !.approvals = votes]
      OBVIOUS
    <3>2. /\ p \in BreakGlassRequests /\ p.approvals = votes /\ p.stages = req.stages
          /\ p.stage = req.stage /\ p.expires = req.expires
      BY <1>2, <3>1, SMT DEF BreakGlassRequests
    <3>3. noted = [p EXCEPT !.status = ended]
      BY <3>1
    <3> HIDE DEF noted
    <3> QED
      BY <3>2, <3>3, SMT DEF BreakGlassRequests, Terminal
<1>5. Decided(req, actor, decision, ended) = noted
  BY DEF Decided
<1>6. \A s \in 1 .. req.stage - 1 : Cardinality(VotesFor(votes, s)) >= req.stages[s]
  <2> SUFFICES ASSUME NEW s \in 1 .. req.stage - 1 PROVE Cardinality(VotesFor(votes, s)) >= req.stages[s]
    OBVIOUS
  <2>1. /\ s \in Nat /\ s \in 1 .. Len(req.stages) /\ req.stages[s] \in Nat
    <3>1. req.stage <= Len(req.stages) + 1
      BY DEF RequestOK
    <3> QED
      BY <1>1, <3>1, SMT
  <2>2. Cardinality(VotesFor(req.approvals, s)) >= req.stages[s]
    BY DEF RequestOK
  <2>3. /\ Cardinality(VotesFor(votes, s)) \in Nat /\ Cardinality(VotesFor(req.approvals, s)) \in Nat
        /\ Cardinality(VotesFor(votes, s)) >= Cardinality(VotesFor(req.approvals, s))
    BY <1>3, <2>1
  <2> QED
    BY <2>1, <2>2, <2>3, SMT
<1>7. RequestOK(noted)
  <2> HIDE DEF votes, noted
  <2> QED
    BY <1>3, <1>4, <1>6 DEF RequestOK
<1> QED
  BY <1>4, <1>5, <1>7

\* A step on the requests keeps the invariant, and ended requests as they are.
LEMMA RequestStepKeeps ==
  ASSUME GrantsInv, RequestsKept, UNCHANGED <<clock, policies, grants, refused, revived>>,
         issuing' \subseteq DOMAIN requests', \A i \in issuing' : requests'[i].expires # None
  PROVE  GrantsInv' /\ RefusalStep
<1>1. /\ requests' \in Seq(BreakGlassRequests) /\ Len(requests') <= MaxRequests
      /\ DOMAIN requests \subseteq DOMAIN requests'
      /\ \A i \in DOMAIN requests' : requests'[i] \in BreakGlassRequests /\ RequestOK(requests'[i])
      /\ DOMAIN requests = 1 .. Len(requests) /\ DOMAIN requests' = 1 .. Len(requests')
      /\ Len(requests) \in Nat /\ Len(requests') \in Nat
  BY SMT DEF RequestsKept, GrantsInv
<1>2. \A i \in DOMAIN requests : requests[i].expires # None => requests'[i].expires # None
  BY DEF RequestsKept
<1>3. \A g \in DOMAIN grants :
        /\ grants[g].request \in 0 .. Len(requests')
        /\ grants[g].request # 0 => requests'[grants[g].request].expires # None
  <2> SUFFICES ASSUME NEW g \in DOMAIN grants
               PROVE  /\ grants[g].request \in 0 .. Len(requests')
                      /\ grants[g].request # 0 => requests'[grants[g].request].expires # None
    OBVIOUS
  <2>1. /\ grants[g].request \in 0 .. Len(requests)
        /\ grants[g].request # 0 => requests[grants[g].request].expires # None
    BY DEF GrantsInv, GrantsTypeOK
  <2>2. grants[g].request \in 0 .. Len(requests')
    BY <1>1, <2>1, SMT
  <2>3. grants[g].request # 0 => grants[g].request \in DOMAIN requests
    BY <1>1, <2>1, SMT
  <2> QED
    BY <1>2, <2>1, <2>2, <2>3
<1>4. GrantsTypeOK'
  BY <1>1, <1>3 DEF GrantsTypeOK, GrantsInv
<1>5. GrantsInv'
  BY <1>1, <1>3, <1>4 DEF GrantsInv
<1> QED
  BY <1>5 DEF GrantsInv, RefusalStep, RequestsKept

\* Likewise a step on the grants, which forgets no revocation and names only a
\* request that was found active.
LEMMA GrantStepKeeps ==
  ASSUME GrantsInv, UNCHANGED <<clock, policies, requests>>,
         grants' \in Seq(JITAccessGrants), DOMAIN grants \subseteq DOMAIN grants',
         \A g \in DOMAIN grants : /\ grants'[g].request = grants[g].request
                                  /\ grants[g].revoked => grants'[g].revoked,
         \A g \in DOMAIN grants' \ DOMAIN grants : grants'[g].request \in {0} \cup issuing,
         issuing' \subseteq issuing, refused' \subseteq DOMAIN grants',
         \A g \in refused' \ refused : grants'[g].revoked, revived' = {}
  PROVE  GrantsInv' /\ RefusalStep
<1>1. /\ Len(requests) \in Nat /\ DOMAIN requests = 1 .. Len(requests)
      /\ \A g \in DOMAIN grants' : grants'[g] \in JITAccessGrants
  BY SMT DEF GrantsInv
<1>2. \A g \in DOMAIN grants' :
        /\ grants'[g].request \in 0 .. Len(requests)
        /\ grants'[g].request # 0 => requests[grants'[g].request].expires # None
  <2> SUFFICES ASSUME NEW g \in DOMAIN grants'
               PROVE  /\ grants'[g].request \in 0 .. Len(requests)
                      /\ grants'[g].request # 0 => requests[grants'[g].request].expires # None
    OBVIOUS
  <2>1. CASE g \in DOMAIN grants
    BY <2>1 DEF GrantsInv, GrantsTypeOK
  <2>2. CASE g \notin DOMAIN grants
    <3>1. grants'[g].request = 0 \/ grants'[g].request \in issuing
      BY <2>2
    <3>2. \A i \in issuing : i \in 1 .. Len(requests) /\ requests[i].expires # None
      BY <1>1 DEF GrantsInv, GrantsTypeOK
    <3>3. 0 \in 0 .. Len(requests) /\ \A i \in 1 .. Len(requests) : i \in 0 .. Len(requests)
      BY <1>1, SMT
    <3> QED
      BY <3>1, <3>2, <3>3
  <2> QED
    BY <2>1, <2>2
<1>3. GrantsTypeOK'
  BY <1>1, <1>2 DEF GrantsTypeOK, GrantsInv
<1>4. \A g \in refused' : grants'[g].revoked
  BY DEF GrantsInv, GrantsTypeOK
<1>5. GrantsInv'
  BY <1>2, <1>3, <1>4 DEF GrantsInv
<1> QED
  BY <1>5 DEF RefusalStep, GrantsInv

\* expireLocked only revokes, and revokes what is over.
LEMMA GrantsSwept ==
  ASSUME GrantsInv, NEW now, NEW swept, swept = expireGrants(now)
  PROVE  /\ swept \in Seq(JITAccessGrants) /\ DOMAIN swept = DOMAIN grants
         /\ \A g \in DOMAIN grants :
              /\ swept[g].request = grants[g].request /\ swept[g].expires = grants[g].expires
              /\ swept[g].revoked <=> grants[g].revoked \/ now >= grants[g].expires
<1>1. grants \in Seq(JITAccessGrants) /\ \A g \in DOMAIN grants : grants[g] \in JITAccessGrants
  BY DEF GrantsInv, GrantsTypeOK
<1>2. ASSUME NEW g \in DOMAIN grants
      PROVE  /\ swept[g] \in JITAccessGrants
             /\ swept[g].request = grants[g].request /\ swept[g].expires = grants[g].expires
             /\ swept[g].revoked <=> grants[g].revoked \/ now >= grants[g].expires
  <2>1. PICK over : over = (now >= grants[g].expires)
    OBVIOUS
  <2>2. swept[g] = [grants[g] EXCEPT !.revoked = grants[g].revoked \/ over]
    BY <2>1 DEF expireGrants
  <2>3. (grants[g].revoked \/ over) \in BOOLEAN
    OBVIOUS
  <2> QED
    BY <1>1, <2>1, <2>2, <2>3 DEF JITAccessGrants
<1>3. swept = [g \in DOMAIN grants |-> swept[g]]
  BY DEF expireGrants
<1>4. swept \in Seq(JITAccessGrants) /\ DOMAIN swept = DOMAIN grants
  BY <1>1, <1>2, <1>3, Mapped
<1> QED
  BY <1>2, <1>4

\* The empty stores satisfy the invariant.
LEMMA GrantsBegin == ASSUME GrantInputs PROVE GrantsInit => GrantsInv
<1> SUFFICES ASSUME GrantsInit PROVE GrantsInv
  OBVIOUS
<1>1. /\ clock = 0 /\ policies = << >> /\ requests = << >> /\ grants = << >>
      /\ issuing = {} /\ refused = {} /\ revived = {}
  BY DEF GrantsInit, NewAccessApprovalStore, NewJITAccessGrantStore
<1>2. DOMAIN policies = {} /\ DOMAIN requests = {} /\ DOMAIN grants = {}
  BY <1>1, SMT
<1>3. clock \in 0 .. MaxClock /\ Len(requests) <= MaxRequests
  BY <1>1, SMT DEF GrantInputs
<1>4. /\ policies \in Seq(ApprovalPolicies \ {<< >>}) /\ requests \in Seq(BreakGlassRequests)
      /\ grants \in Seq(JITAccessGrants)
  BY <1>1, SMT
<1> QED
  BY <1>1, <1>2, <1>3, <1>4 DEF GrantsInv, GrantsTypeOK

\* CreatePolicy keeps the invariant.
LEMMA PolicyStep ==
  ASSUME GrantInputs, GrantsInv, NEW stages \in Policies, CreatePolicy(stages) PROVE GrantsInv' /\ RefusalStep
<1>1. stages \in Seq(Int) /\ stages # << >> /\ Len(stages) \in Nat /\ DOMAIN stages = 1 .. Len(stages)
  BY SMT DEF GrantInputs, CreatePolicy
<1>2. PICK policy : policy = normalizeApprovalStages(stages)
  OBVIOUS
<1>3. policy = [i \in DOMAIN stages |-> policy[i]] /\ \A i \in DOMAIN stages : policy[i] \in Nat \ {0}
  BY <1>1, <1>2, SMT DEF normalizeApprovalStages
<1>4. policy \in Seq(Nat \ {0}) /\ Len(policy) = Len(stages)
  <2>1. PICK counts : counts = Nat \ {0}
    OBVIOUS
  <2>2. policy \in Seq(counts) /\ DOMAIN policy = DOMAIN stages
    <3>1. stages \in Seq(Int) /\ policy = [i \in DOMAIN stages |-> policy[i]] /\ \A i \in DOMAIN stages : policy[i] \in counts
      BY <1>1, <1>3, <2>1
    <3> QED
      BY <3>1, Mapped
  <2>3. policy \in Seq(Int) /\ policy \in Seq(Nat \ {0})
    BY <2>1, <2>2, SMT
  <2> QED
    BY <1>1, <2>2, <2>3, SameLength
<1>5. policy \in ApprovalPolicies \ {<< >>}
  <2>1. Len(stages) # 0
    BY <1>1, SMT
  <2> QED
    BY <1>4, <2>1, SMT DEF ApprovalPolicies
<1>6. policies \in Seq(ApprovalPolicies \ {<< >>}) /\ policies' = Append(policies, policy)
  BY <1>2 DEF CreatePolicy, GrantsInv
<1>7. /\ policies' \in Seq(ApprovalPolicies \ {<< >>})
      /\ \A p \in DOMAIN policies' : policies'[p] \in ApprovalPolicies
  BY <1>5, <1>6, SMT
<1>8. UNCHANGED <<clock, requests, grants, issuing, refused, revived>>
  BY DEF CreatePolicy
<1>9. GrantsInv'
  BY <1>7, <1>8 DEF GrantsInv, GrantsTypeOK
<1> QED
  BY <1>8, <1>9 DEF RefusalStep, GrantsInv

\* CreateBreakGlassRequest keeps the invariant.
LEMMA RequestStep ==
  ASSUME GrantInputs, GrantsInv, NEW p \in DOMAIN policies, NEW ttl \in Lifetimes, CreateBreakGlassRequest(p, ttl)
  PROVE  GrantsInv' /\ RefusalStep
<1> DEFINE req == [stages |-> policies[p], stage |-> 1, status |-> "pending", approvals |-> << >>,
                   ttl |-> ttl, expires |-> None]
<1>1. policies[p] \in ApprovalPolicies /\ policies[p] # << >> /\ Len(policies[p]) \in Nat \ {0}
  BY SMT DEF GrantsInv, ApprovalPolicies
<1>2. req \in BreakGlassRequests
  BY <1>1, SMT DEF BreakGlassRequests, Lifetimes
<1>3. RequestOK(req)
  <2>1. \A s : VotesFor(<< >>, s) = {} /\ Voters(<< >>, s) = {}
    BY SMT DEF VotesFor, Voters
  <2>2. 1 <= Len(policies[p]) /\ 1 <= Len(policies[p]) + 1 /\ 1 .. 1 - 1 = {}
    BY <1>1, SMT
  <2> QED
    BY <2>1, <2>2 DEF RequestOK
<1>4. requests \in Seq(BreakGlassRequests) /\ requests' = Append(requests, req)
  BY DEF CreateBreakGlassRequest, GrantsInv
<1> HIDE DEF req
<1>5. /\ requests' \in Seq(BreakGlassRequests) /\ DOMAIN requests \subseteq DOMAIN requests'
      /\ \A i \in DOMAIN requests : requests'[i] = requests[i]
      /\ \A i \in DOMAIN requests' : i \in DOMAIN requests \/ requests'[i] = req
      /\ Len(requests') = Len(requests) + 1 /\ Len(requests) \in Nat
  BY <1>2, <1>4, SMT
<1>6. Len(requests') <= MaxRequests
  BY <1>5, SMT DEF CreateBreakGlassRequest, GrantInputs
<1>7. RequestsKept
  BY <1>3, <1>5, <1>6 DEF RequestsKept, GrantsInv
<1> QED
  BY <1>5, <1>7, RequestStepKeeps DEF CreateBreakGlassRequest, GrantsInv, GrantsTypeOK

\* The times that callers may have read are numbers.
LEMMA NowsTyped == ASSUME GrantsInv PROVE \A now \in Nows : now \in Nat
  BY SMT DEF Nows, GrantsInv, GrantsTypeOK

\* A sweep, with or without a vote, leaves the lookups of active requests justified.
LEMMA SweepStep ==
  ASSUME GrantsInv, RequestsKept, UNCHANGED <<clock, policies, grants, issuing, refused, revived>>
  PROVE  GrantsInv' /\ RefusalStep
<1>1. issuing' \subseteq DOMAIN requests' /\ \A i \in issuing' : requests'[i].expires # None
  BY DEF GrantsInv, GrantsTypeOK, RequestsKept
<1> QED
  BY <1>1, RequestStepKeeps

\* An approval keeps the invariant.
LEMMA ApproveStep ==
  ASSUME GrantInputs, GrantsInv, NEW i \in DOMAIN requests, NEW actor \in Actors, NEW now \in Nat,
         ApproveBreakGlassRequest(i, actor, now)
  PROVE  GrantsInv' /\ RefusalStep
<1>1. PICK swept : swept = expireBreakGlassRequests(now)
  OBVIOUS
<1>2. Swept(swept)
  BY <1>1, RequestsSwept
<1>3. swept[i] \in BreakGlassRequests /\ RequestOK(swept[i])
  BY <1>2 DEF Swept
<1>4. /\ swept[i].status = "pending"
      /\ \A k \in DOMAIN swept[i].approvals :
           swept[i].approvals[k].stage = swept[i].stage => Fold[swept[i].approvals[k].actor] # Fold[actor]
      /\ requests' = [swept EXCEPT ![i] = Approved(swept[i], actor, now)]
      /\ UNCHANGED <<clock, policies, grants, issuing, refused, revived>>
  BY <1>1 DEF ApproveBreakGlassRequest
<1>5. PICK req : req = Approved(swept[i], actor, now)
  OBVIOUS
<1>6. req \in BreakGlassRequests /\ RequestOK(req) /\ (swept[i].expires # None => req.expires # None)
  BY <1>3, <1>4, <1>5, ApprovalOK
<1>7. swept[i].status \notin Terminal
  BY <1>4 DEF Terminal
<1>8. RequestsKept
  BY <1>2, <1>4, <1>5, <1>6, <1>7, VoteKeeps
<1> QED
  BY <1>4, <1>8, SweepStep

\* So does a rejection or a revocation,
LEMMA DecisionStep ==
  ASSUME GrantsInv, NEW i \in DOMAIN requests, NEW actor \in Actors, NEW now,
         RejectBreakGlassRequest(i, actor, now) \/ RevokeBreakGlassRequest(i, actor, now)
  PROVE  GrantsInv' /\ RefusalStep
<1>1. PICK swept : swept = expireBreakGlassRequests(now)
  OBVIOUS
<1>2. Swept(swept)
  BY <1>1, RequestsSwept
<1>3. swept[i] \in BreakGlassRequests /\ RequestOK(swept[i])
  BY <1>2 DEF Swept
<1>4. PICK decision \in {"reject", "revoke"}, ended \in {"rejected", "revoked"} :
        requests' = [swept EXCEPT ![i] = Decided(swept[i], actor, decision, ended)]
  BY <1>1 DEF RejectBreakGlassRequest, RevokeBreakGlassRequest
<1>5. swept[i].status \notin Terminal /\ UNCHANGED <<clock, policies, grants, issuing, refused, revived>>
  BY <1>1 DEF RejectBreakGlassRequest, RevokeBreakGlassRequest, Terminal
<1>6. PICK req : req = Decided(swept[i], actor, decision, ended)
  OBVIOUS
<1>7. req \in BreakGlassRequests /\ RequestOK(req) /\ req.expires = swept[i].expires
  BY <1>3, <1>6, DecisionOK
<1>8. RequestsKept
  BY <1>2, <1>4, <1>5, <1>6, <1>7, VoteKeeps
<1> QED
  BY <1>5, <1>8, SweepStep

\* the lookup of an active request before a grant,
LEMMA LookUpStep ==
  ASSUME GrantsInv, NEW i \in DOMAIN requests, NEW now, LookUpRequest(i, now)
  PROVE  GrantsInv' /\ RefusalStep
<1>1. /\ expireBreakGlassRequests(now)[i].status = "active" /\ requests' = expireBreakGlassRequests(now)
      /\ issuing' = issuing \cup {i} /\ UNCHANGED <<clock, policies, grants, refused, revived>>
  BY DEF LookUpRequest
<1>2. RequestsKept
  BY <1>1, SweepKeeps
<1>3. i \in DOMAIN requests' /\ requests'[i].expires # None
  BY <1>1, <1>2 DEF RequestsKept, RequestOK
<1>4. issuing' \subseteq DOMAIN requests' /\ \A j \in issuing' : requests'[j].expires # None
  BY <1>1, <1>2, <1>3 DEF GrantsInv, GrantsTypeOK, RequestsKept
<1> QED
  BY <1>1, <1>2, <1>4, RequestStepKeeps

\* the issue of a grant,
LEMMA IssueStep ==
  ASSUME GrantInputs, GrantsInv, NEW i \in {0} \cup issuing, NEW ttl \in Lifetimes, NEW now \in Nat, Issue(i, ttl, now)
  PROVE  GrantsInv' /\ RefusalStep
<1> DEFINE grant == [request |-> i, expires |-> now + ttl, revoked |-> FALSE]
<1>1. i \in 0 .. MaxRequests /\ now + ttl \in Nat
  <2>1. i = 0 \/ i \in 1 .. Len(requests)
    BY SMT DEF GrantsInv, GrantsTypeOK
  <2>2. Len(requests) \in Nat /\ Len(requests) <= MaxRequests
    BY SMT DEF GrantsInv
  <2> QED
    BY <2>1, <2>2, SMT DEF GrantInputs, Lifetimes
<1>2. grant \in JITAccessGrants /\ grant.request = i
  BY <1>1 DEF JITAccessGrants
<1> HIDE DEF grant
<1>3. grants \in Seq(JITAccessGrants) /\ grants' = Append(grants, grant)
  BY DEF Issue, GrantsInv, grant
<1>4. /\ grants' \in Seq(JITAccessGrants) /\ DOMAIN grants \subseteq DOMAIN grants'
      /\ \A g \in DOMAIN grants : grants'[g] = grants[g]
      /\ \A g \in DOMAIN grants' : g \in DOMAIN grants \/ grants'[g] = grant
  BY <1>2, <1>3, SMT
<1>5. UNCHANGED <<clock, policies, requests, refused, revived>> /\ issuing' \subseteq issuing
  BY DEF Issue
<1>6. refused' \subseteq DOMAIN grants' /\ revived' = {}
  BY <1>4, <1>5 DEF GrantsInv, GrantsTypeOK
<1> QED
  BY <1>2, <1>4, <1>5, <1>6, GrantStepKeeps

\* the revocation of a grant,
LEMMA RevokeStep == ASSUME GrantsInv, NEW g \in DOMAIN grants, Revoke(g) PROVE GrantsInv' /\ RefusalStep
<1>1. grants \in Seq(JITAccessGrants) /\ \A h \in DOMAIN grants : grants[h] \in JITAccessGrants
  BY DEF GrantsInv, GrantsTypeOK
<1>2. PICK grant : grant = [grants[g] EXCEPT !.revoked = TRUE]
  OBVIOUS
<1>3. grant \in JITAccessGrants /\ grant.request = grants[g].request /\ grant.revoked
  BY <1>1, <1>2 DEF JITAccessGrants
<1>4. grants' = [grants EXCEPT ![g] = grant] /\ UNCHANGED <<clock, policies, requests, issuing, refused, revived>>
  BY <1>2 DEF Revoke
<1>5. /\ grants' \in Seq(JITAccessGrants) /\ DOMAIN grants' = DOMAIN grants
      /\ grants'[g] = grant /\ \A h \in DOMAIN grants : h # g => grants'[h] = grants[h]
  BY <1>1, <1>3, <1>4, SMT
<1>6. refused' \subseteq DOMAIN grants' /\ revived' = {}
  BY <1>4, <1>5 DEF GrantsInv, GrantsTypeOK
<1> QED
  BY <1>3, <1>4, <1>5, <1>6, GrantStepKeeps

\* A grant that was refused once is revoked, so Validate refuses it again,
\* whatever time it works with.
LEMMA ValidateStep ==
  ASSUME GrantsInv, NEW g \in DOMAIN grants, NEW matching \in BOOLEAN, NEW now \in Nat, Validate(g, matching, now)
  PROVE  GrantsInv' /\ RefusalStep
<1>1. PICK swept : swept = expireGrants(now)
  OBVIOUS
<1>2. /\ swept \in Seq(JITAccessGrants) /\ DOMAIN swept = DOMAIN grants
      /\ \A h \in DOMAIN grants :
           /\ swept[h].request = grants[h].request /\ swept[h].expires = grants[h].expires
           /\ swept[h].revoked <=> grants[h].revoked \/ now >= grants[h].expires
  BY <1>1, GrantsSwept
<1>3. PICK valid : valid = (~swept[g].revoked /\ now < swept[g].expires)
  OBVIOUS
<1>4. /\ grants' = swept /\ refused' = (IF valid THEN refused ELSE refused \cup {g})
      /\ revived' = (IF valid /\ matching THEN revived \cup (refused \cap {g}) ELSE revived)
      /\ UNCHANGED <<clock, policies, requests, issuing>>
  BY <1>1, <1>3 DEF Validate
<1>5. grants[g].expires \in Nat
  BY DEF GrantsInv, GrantsTypeOK, JITAccessGrants
<1>6. now < swept[g].expires <=> ~(now >= grants[g].expires)
  BY <1>2, <1>5, SMT
<1>7. valid <=> ~swept[g].revoked
  BY <1>2, <1>3, <1>6
<1>8. revived = {} /\ refused \subseteq DOMAIN grants /\ \A h \in refused : grants[h].revoked
  BY DEF GrantsInv, GrantsTypeOK
<1>9. valid => refused \cap {g} = {}
  BY <1>2, <1>7, <1>8
<1>10. revived' = {}
  BY <1>4, <1>8, <1>9
<1>11. refused' \subseteq DOMAIN grants' /\ \A h \in refused' \ refused : grants'[h].revoked
  BY <1>2, <1>4, <1>7, <1>8
<1> QED
  BY <1>2, <1>4, <1>10, <1>11, GrantStepKeeps

\* and so does a listing.
LEMMA ListStep == ASSUME GrantsInv, NEW now, ListGrants(now) PROVE GrantsInv' /\ RefusalStep
<1>1. PICK swept : swept = expireGrants(now)
  OBVIOUS
<1>2. /\ swept \in Seq(JITAccessGrants) /\ DOMAIN swept = DOMAIN grants
      /\ \A h \in DOMAIN grants :
           /\ swept[h].request = grants[h].request
           /\ swept[h].revoked <=> grants[h].revoked \/ now >= grants[h].expires
  BY <1>1, GrantsSwept
<1>3. grants' = swept /\ UNCHANGED <<clock, policies, requests, issuing, refused, revived>>
  BY <1>1 DEF ListGrants
<1>4. refused' \subseteq DOMAIN grants' /\ revived' = {}
  BY <1>2, <1>3 DEF GrantsInv, GrantsTypeOK
<1> QED
  BY <1>2, <1>3, <1>4, GrantStepKeeps

\* Every step keeps the invariant and what has been refused.
LEMMA GrantsStep == ASSUME GrantInputs, GrantsInv, [GrantsNext]_grantsVars PROVE GrantsInv' /\ (RefusalStep \/ UNCHANGED grantsVars)
<1>1. \A now \in Nows : now \in Nat
  BY NowsTyped
<1>2. CASE Tick
  <2>1. clock' \in 0 .. MaxClock
    BY <1>2, SMT DEF Tick, GrantsInv, GrantsTypeOK, GrantInputs
  <2>2. UNCHANGED <<policies, requests, grants, issuing, refused, revived>>
    BY <1>2 DEF Tick
  <2>3. GrantsInv'
    BY <2>1, <2>2 DEF GrantsInv, GrantsTypeOK
  <2> QED
    BY <2>2, <2>3 DEF RefusalStep, GrantsInv
<1>3. CASE handleApprovalPolicies
  BY <1>3, PolicyStep DEF handleApprovalPolicies
<1>4. CASE handleBreakGlassRequests
  <2>1. ASSUME NEW now \in Nows, ListBreakGlassRequests(now) PROVE GrantsInv' /\ RefusalStep
    BY <2>1, SweepKeeps, SweepStep DEF ListBreakGlassRequests
  <2> QED
    BY <1>4, <2>1, RequestStep DEF handleBreakGlassRequests
<1>5. CASE handleBreakGlassRequestAction
  BY <1>1, <1>5, ApproveStep, DecisionStep DEF handleBreakGlassRequestAction
<1>6. CASE handleJITAccessGrants
  BY <1>1, <1>6, LookUpStep, IssueStep, ListStep DEF handleJITAccessGrants
<1>7. CASE handleJITAccessGrantAction
  BY <1>7, RevokeStep DEF handleJITAccessGrantAction
<1>8. CASE handleJITAccessGrantValidate
  BY <1>1, <1>8, ValidateStep DEF handleJITAccessGrantValidate
<1>9. CASE UNCHANGED grantsVars
  BY <1>9 DEF grantsVars, GrantsInv, GrantsTypeOK
<1> QED
  BY <1>2, <1>3, <1>4, <1>5, <1>6, <1>7, <1>8, <1>9 DEF GrantsNext

\* The invariant holds always.
LEMMA GrantsInvariance == ASSUME GrantInputs PROVE GrantsSpec => []GrantsInv
<1>1. GrantsInit => GrantsInv
  BY GrantsBegin
<1>2. GrantsInv /\ [GrantsNext]_grantsVars => GrantsInv'
  BY GrantsStep
<1> QED
  BY <1>1, <1>2, PTL DEF GrantsSpec

\* AccessApprovalStore and JITAccessGrantStore: a request that has been active
\* had the approvals of different people in every stage, and a grant that
\* names a request came after its activation, for any policies, names, spellings
\* and number of requests and grants.
THEOREM QuorumsMet == ASSUME GrantInputs PROVE GrantsSpec => []QuorumMet
<1>1. ASSUME GrantsInv PROVE QuorumMet
  <2>1. ASSUME NEW i \in DOMAIN requests, requests[i].expires # None, NEW s \in DOMAIN requests[i].stages
        PROVE  Cardinality(ApproversOf(requests[i], s)) >= requests[i].stages[s]
    <3> DEFINE req == requests[i]
    <3>1. req.stages \in Seq(Nat \ {0})
      BY <1>1, SMT DEF GrantsInv, GrantsTypeOK, BreakGlassRequests, ApprovalPolicies
    <3>2. RequestOK(req)
      BY <1>1 DEF GrantsInv
    <3>3. req.stage = Len(req.stages) + 1
      BY <2>1, <3>2 DEF RequestOK
    <3>4. s \in Nat /\ s \in 1 .. req.stage - 1
      BY <2>1, <3>1, <3>3, SMT
    <3>5. Cardinality(VotesFor(req.approvals, s)) >= req.stages[s]
      BY <3>2, <3>4 DEF RequestOK
    <3>6. Cardinality(Voters(req.approvals, s)) = Cardinality(VotesFor(req.approvals, s))
      BY <3>2, <3>4 DEF RequestOK
    <3>7. ApproversOf(req, s) = Voters(req.approvals, s)
      BY DEF ApproversOf, Voters, VotesFor
    <3> QED
      BY <3>5, <3>6, <3>7
  <2> QED
    BY <1>1, <2>1 DEF QuorumMet, GrantsInv
<1> QED
  BY <1>1, GrantsInvariance, PTL

\* A rejected, revoked or expired request stays what it is, and no validation
\* passes a grant that an earlier one has refused, whatever older time it works
\* with: an action property of the same stores.
THEOREM RefusalsLast == ASSUME GrantInputs PROVE GrantsSpec => RefusalIsFinal
<1>1. ASSUME GrantsInv, [GrantsNext]_grantsVars PROVE [RefusalStep]_grantsVars
  BY <1>1, GrantsStep
<1> QED
  BY <1>1, GrantsInvariance, PTL DEF GrantsSpec, RefusalIsFinal

=============================================================================
