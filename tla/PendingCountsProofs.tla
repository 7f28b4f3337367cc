-------------------------- MODULE PendingCountsProofs --------------------------
(***************************************************************************)
(* For every node, whatever its in-degree: the packed counts are exact and *)
(* PendingCounts implements NodeActivation, provided that a Merge that     *)
(* begins a loop has no control inputs.                                    *)
(***************************************************************************)
EXTENDS PendingCounts, FiniteSetTheorems, TLAPS

(* The node is activated when its inputs say so, and only then; the edges    *)
(* are live or dead; nothing has started before.                             *)
Rest ==
  /\ live \cap dead = {}
  /\ (activations = <<>>) <=> ~NA!IsReady(live, dead)
  /\ activations = <<>> => pc = "waits"
  /\ has_started <=> Vlog /\ pc # "waits"

IInv == TypeOK /\ CountsExact /\ Rest

--------------------------------------------------------------------------------
(* The in-edges of a node, and the parts of them that are counted, are finite. *)
LEMMA EdgesFinite ==
  ASSUME NEW n \in Nodes
  PROVE  /\ IsFiniteSet(Edges(n)) /\ Cardinality(Edges(n)) \in Nat
         /\ IsFiniteSet(Data[n]) /\ Cardinality(Data[n]) \in Nat
         /\ IsFiniteSet(Control[n]) /\ Cardinality(Control[n]) \in Nat
         /\ Cardinality(Data[n]) <= Cardinality(Edges(n))
         /\ Cardinality(Control[n]) <= Cardinality(Edges(n))
         /\ InitialCount(n) \in Nat /\ InitialCount(n) <= 2 * Cardinality(Edges(n)) + 1
<1>1. IsFiniteSet(Data[n]) /\ IsFiniteSet(Control[n])
  BY NodeAssumption
<1>2. IsFiniteSet(Edges(n))
  BY <1>1, FS_Union DEF Edges, NA!Edges
<1>3. Data[n] \in SUBSET Edges(n) /\ Control[n] \in SUBSET Edges(n)
  BY DEF Edges, NA!Edges
<1>4. Cardinality(Data[n]) <= Cardinality(Edges(n))
  BY <1>2, <1>3, FS_Subset
<1>5. Cardinality(Control[n]) <= Cardinality(Edges(n))
  BY <1>2, <1>3, FS_Subset
<1>6. /\ Cardinality(Edges(n)) \in Nat /\ Cardinality(Data[n]) \in Nat
      /\ Cardinality(Control[n]) \in Nat
  BY <1>1, <1>2, FS_CardinalityType
<1>7. InitialCount(n) \in Nat /\ InitialCount(n) <= 2 * Cardinality(Edges(n)) + 1
  BY <1>5, <1>6 DEF InitialCount
<1> QED BY <1>1, <1>2, <1>4, <1>5, <1>6, <1>7

(* The counts begin as what they stand for, and CreateHandle has made room. *)
LEMMA Beginning == Init => IInv
<1> SUFFICES ASSUME Init PROVE IInv OBVIOUS
<1>1. node \in Nodes BY DEF Init
<1> DEFINE E == Edges(node)
<1>2. /\ kMaxCountForPackedCounts \in Nat \ {0} /\ LargeModulus \in Nat
      /\ 2 * Cardinality(E) + 1 < LargeModulus
  BY <1>1, NodeAssumption
<1>3. is_large \in BOOLEAN
  BY DEF Init, NeedsLarge
<1>4. /\ InitialCount(node) < Modulus /\ Cardinality(E) < Modulus
      /\ Modulus \in Nat
  BY <1>1, <1>2, EdgesFinite DEF Init, NeedsLarge, Modulus
<1>5. pending = InitialCount(node)
  BY <1>1, <1>4, EdgesFinite DEF Init
<1>6. TypeOK
  <2>1. pending \in 0 .. Modulus - 1 /\ dead_count \in 0 .. Modulus - 1
    BY <1>1, <1>4, <1>5, EdgesFinite DEF Init
  <2>2. has_started \in BOOLEAN
    BY DEF Init
  <2>3. activations \in Seq(BOOLEAN) /\ pc \in {"waits", "started", "completed"}
    BY DEF Init
  <2>4. live \subseteq E /\ dead \subseteq E
    BY DEF Init
  <2> QED BY <1>1, <1>3, <1>4, <2>1, <2>2, <2>3, <2>4 DEF TypeOK
<1>7. Missing = E /\ Control[node] \cap Missing = Control[node]
  BY DEF Init, Missing, Edges, NA!Edges
<1>8. CountsExact
  <2>1. /\ activations = <<>> /\ live \cap Data[node] = {}
        /\ dead \cap Data[node] = {} /\ dead = {} /\ dead_count = 0
    BY DEF Init
  <2>2. CASE Kind[node] = "merge"
    <3>1. pending = 2 * Cardinality(Control[node]) + 1
      BY <1>1, <1>5, <2>2, EdgesFinite DEF InitialCount
    <3> QED BY <1>7, <2>1, <2>2, <3>1, FS_EmptySet DEF CountsExact
  <2>3. CASE Kind[node] # "merge"
    BY <1>5, <1>7, <2>1, <2>3, FS_EmptySet DEF CountsExact, InitialCount
  <2> QED BY <2>2, <2>3
<1>9. ~NA!IsReady(live, dead)
  BY <1>1, NodeAssumption DEF Init, NA!IsReady, Edges
<1>10. Rest
  BY <1>9 DEF Init, Rest
<1> QED BY <1>6, <1>8, <1>10 DEF IInv

--------------------------------------------------------------------------------
(* What a step of ActivateNodes finds: a finite set of missing edges that e  *)
(* belongs to, and, before the activation, a count that is not zero.         *)
LEMMA Arrival ==
  ASSUME IInv, NEW e, NA!MayArrive(e)
  PROVE  /\ node \in Nodes /\ e \in Edges(node) /\ e \in Missing
         /\ IsFiniteSet(Missing) /\ IsFiniteSet(Control[node] \cap Missing)
         /\ IsFiniteSet(dead) /\ IsFiniteSet(dead \cap Data[node])
         /\ Modulus \in Nat /\ pending \in 0 .. Modulus - 1 /\ dead_count \in 0 .. Modulus - 1
         /\ Cardinality(Edges(node)) < Modulus
<1>1. node \in Nodes /\ dead \subseteq Edges(node)
  BY DEF IInv, TypeOK
<1>2. e \in Edges(node) /\ e \in Missing
  BY DEF NA!MayArrive, Missing, Edges
<1>3. IsFiniteSet(Edges(node)) /\ IsFiniteSet(Control[node]) /\ IsFiniteSet(Data[node])
  BY <1>1, EdgesFinite
<1>4. Missing \in SUBSET Edges(node) /\ Control[node] \cap Missing \in SUBSET Control[node]
  BY DEF Missing
<1>5. IsFiniteSet(Missing) /\ IsFiniteSet(Control[node] \cap Missing)
  BY <1>3, <1>4, FS_Subset
<1>6. dead \in SUBSET Edges(node) /\ dead \cap Data[node] \in SUBSET Data[node]
  BY <1>1
<1>7. IsFiniteSet(dead) /\ IsFiniteSet(dead \cap Data[node])
  BY <1>3, <1>6, FS_Subset
<1>8. Modulus \in Nat
  BY NodeAssumption DEF Modulus
<1> QED BY <1>1, <1>2, <1>5, <1>7, <1>8 DEF IInv, TypeOK

(* The step as NodeActivation sees it. *)
Simulated(e, is_dead) ==
  /\ activations' = IF activations = <<>> /\ NA!IsReady(live', dead')
                    THEN <<NA!IsDead(live', dead')>> ELSE activations
  /\ (activations' = <<>>) <=> ~NA!IsReady(live', dead')

(* What all the cases of ActivateNodes share. *)
Arrives(e, is_dead) ==
  /\ IInv
  /\ e \in Edges(node) /\ is_dead \in BOOLEAN
  /\ ActivateNodes(e, is_dead)

(* A node that is not a Merge. *)
LEMMA PlainStep ==
  ASSUME NEW e, NEW is_dead, Arrives(e, is_dead), Kind[node] # "merge"
  PROVE  Simulated(e, is_dead) /\ CountsExact' /\ pending' \in 0 .. Modulus - 1
         /\ dead_count' \in 0 .. Modulus - 1 /\ UNCHANGED has_started
<1> USE DEF Arrives
<1>1. NA!MayArrive(e) /\ AdjustForActivation(is_dead) /\ UNCHANGED <<node, is_large, pc>>
  BY DEF ActivateNodes
<1>2. /\ node \in Nodes /\ e \in Edges(node) /\ e \in Missing
      /\ IsFiniteSet(Missing) /\ IsFiniteSet(dead)
      /\ Modulus \in Nat /\ pending \in 0 .. Modulus - 1 /\ dead_count \in 0 .. Modulus - 1
      /\ Cardinality(Edges(node)) < Modulus
  BY <1>1, Arrival
<1>3. Missing' = Missing \ {e} /\ IsFiniteSet(Missing') /\ UNCHANGED has_started
  BY <1>1, <1>2, FS_RemoveElement DEF Missing, ActivateNodes, AdjustForActivation, Edges
<1>4. NA!IsReady(live, dead) <=> Missing = {}
  BY DEF NA!IsReady, Missing, Edges
<1>5. NA!IsReady(live', dead') <=> Missing' = {}
  BY <1>1 DEF NA!IsReady, Missing, Edges, NA!Edges
<1>6. activations = <<>> /\ ~has_started
  BY <1>2, <1>4 DEF IInv, Rest
<1>7. pending = Cardinality(Missing) /\ dead_count = Cardinality(dead)
  BY <1>6 DEF IInv, CountsExact
<1>8. Cardinality(Missing') = pending - 1 /\ pending # 0 /\ pending \in Nat
  BY <1>2, <1>3, <1>7, FS_RemoveElement, FS_EmptySet, FS_CardinalityType
<1>9. pending' = Cardinality(Missing')
  BY <1>1, <1>2, <1>8 DEF AdjustForActivation
<1>10. dead' = (IF is_dead THEN dead \cup {e} ELSE dead) /\ dead' \in SUBSET Edges(node)
       /\ e \notin dead
  BY <1>2 DEF ActivateNodes, IInv, TypeOK, Missing
<1>11. IsFiniteSet(dead') /\ Cardinality(dead') = (IF is_dead THEN dead_count + 1 ELSE dead_count)
  BY <1>2, <1>7, <1>10, FS_AddElement
<1>12. Cardinality(dead') < Modulus /\ Cardinality(dead') \in Nat
  <2>1. IsFiniteSet(Edges(node)) /\ Cardinality(Edges(node)) \in Nat
    BY <1>2, EdgesFinite
  <2>2. Cardinality(dead') <= Cardinality(Edges(node))
    BY <1>10, <2>1, FS_Subset
  <2>3. Cardinality(dead') \in Nat
    BY <1>11, FS_CardinalityType
  <2> QED BY <1>2, <2>1, <2>2, <2>3
<1>13. dead_count' = Cardinality(dead')
  <2>1. NodeState = "PENDING_NOTREADY"
    BY <1>6, <1>8 DEF NodeState
  <2>2. CASE is_dead
    <3>1. dead_count' = (dead_count + 1) % Modulus
      BY <1>1, <2>1, <2>2 DEF AdjustForActivation, IncrementedDeadCount
    <3> QED BY <1>2, <1>11, <1>12, <2>2, <3>1
  <2>3. CASE ~is_dead
    BY <1>1, <1>11, <2>3 DEF AdjustForActivation
  <2> QED BY <2>2, <2>3
<1>14. (pending' = 0) <=> NA!IsReady(live', dead')
  BY <1>3, <1>5, <1>9, FS_EmptySet
<1>15. (dead_count' > 0) <=> dead' # {}
  BY <1>11, <1>12, <1>13, FS_EmptySet
<1>16. activations' = IF pending' = 0
                      THEN Append(activations, dead_count' > 0 /\ Kind[node] # "control_trigger")
                      ELSE activations
  BY <1>1 DEF AdjustForActivation, Activate
<1>17. (dead_count' > 0 /\ Kind[node] # "control_trigger") = NA!IsDead(live', dead')
  BY <1>2, <1>15, NodeAssumption DEF NA!IsDead
<1>18. Append(activations, NA!IsDead(live', dead')) = <<NA!IsDead(live', dead')>>
  BY <1>6
<1>19. Simulated(e, is_dead)
  BY <1>6, <1>14, <1>16, <1>17, <1>18 DEF Simulated
<1>20. CountsExact'
  BY <1>1, <1>5, <1>9, <1>13, <1>19 DEF CountsExact, Simulated
<1> QED BY <1>2, <1>3, <1>8, <1>9, <1>12, <1>13, <1>19, <1>20

--------------------------------------------------------------------------------
(* The terms of a Merge's counts. *)
Awaited == Cardinality(Control[node] \cap Missing)
Flag == IF live \cap Data[node] = {} THEN 1 ELSE 0

(* A Merge before and after an arrival: while it waits its count is not zero *)
(* and counts what CountsExact says; afterwards it is zero for late data.    *)
LEMMA MergeBefore ==
  ASSUME NEW e, NEW is_dead, Arrives(e, is_dead), Kind[node] = "merge"
  PROVE  /\ Awaited \in Nat /\ Flag \in 0 .. 1 /\ (Awaited = 0 <=> Control[node] \subseteq live \cup dead)
         /\ activations = <<>> =>
              /\ pending = 2 * Awaited + Flag /\ pending > 0 /\ PendingOf = pending
              /\ NodeState = "PENDING_NOTREADY"
              /\ dead_count = Cardinality(dead \cap Data[node])
              /\ Awaited = 0 => Flag = 1 /\ dead \cap Enters[node] = {} /\ ~(Data[node] \subseteq dead)
         /\ activations # <<>> => Control[node] \cap Missing = {}
         /\ activations # <<>> /\ e \in Data[node] => PendingOf = 0 /\ NodeState # "PENDING_NOTREADY"
<1> USE DEF Arrives
<1>1. NA!MayArrive(e)
  BY DEF ActivateNodes
<1>2. /\ node \in Nodes /\ e \in Edges(node) /\ e \in Missing
      /\ IsFiniteSet(Control[node] \cap Missing)
      /\ pending \in Nat
  BY <1>1, Arrival
<1>3. Awaited \in Nat /\ Flag \in 0 .. 1 /\ (Awaited = 0 <=> Control[node] \cap Missing = {})
  BY <1>2, FS_CardinalityType, FS_EmptySet DEF Awaited, Flag
<1>4. (Control[node] \cap Missing = {}) <=> Control[node] \subseteq live \cup dead
  BY DEF Missing, Edges, NA!Edges
<1>5. ASSUME activations = <<>>
      PROVE  /\ pending = 2 * Awaited + Flag /\ pending > 0 /\ PendingOf = pending
             /\ NodeState = "PENDING_NOTREADY"
             /\ dead_count = Cardinality(dead \cap Data[node])
             /\ Awaited = 0 => Flag = 1 /\ dead \cap Enters[node] = {} /\ ~(Data[node] \subseteq dead)
  <2>1. ~NA!IsReady(live, dead) /\ ~has_started
    BY <1>5 DEF IInv, Rest
  <2>2. pending = 2 * Awaited + Flag /\ dead_count = Cardinality(dead \cap Data[node])
    BY <1>5 DEF IInv, CountsExact, Awaited, Flag
  <2>3. Awaited = 0 => Flag = 1 /\ dead \cap Enters[node] = {} /\ ~(Data[node] \subseteq dead)
    BY <1>3, <1>4, <2>1 DEF NA!IsReady, Flag
  <2>4. pending > 0
    BY <1>3, <2>2, <2>3
  <2>5. NodeState = "PENDING_NOTREADY"
    BY <2>1, <2>4 DEF NodeState
  <2> QED BY <2>2, <2>3, <2>4, <2>5 DEF PendingOf
<1>6. ASSUME activations # <<>> PROVE Control[node] \cap Missing = {}
  BY <1>4, <1>6 DEF IInv, Rest, NA!IsReady
<1>7. ASSUME activations # <<>>, e \in Data[node]
      PROVE  PendingOf = 0 /\ NodeState # "PENDING_NOTREADY"
  <2>1. dead \cap Enters[node] = {}
    BY <1>1, <1>7 DEF NA!MayArrive
  <2>2. PendingOf = 0
    BY <1>2, <1>7, <2>1 DEF IInv, CountsExact
  <2>3. NodeState # "PENDING_NOTREADY"
    BY <2>2 DEF PendingOf, NodeState
  <2> QED BY <2>2, <2>3
<1> QED BY <1>3, <1>4, <1>5, <1>6, <1>7

(* A control edge comes to a Merge. *)
LEMMA MergeControlStep ==
  ASSUME NEW e, NEW is_dead, Arrives(e, is_dead), Kind[node] = "merge", e \in Control[node],
         LoopMergesUncontrolled
  PROVE  Simulated(e, is_dead) /\ CountsExact' /\ pending' \in 0 .. Modulus - 1
         /\ dead_count' \in 0 .. Modulus - 1 /\ UNCHANGED has_started
<1> USE DEF Arrives
<1>1. /\ NA!MayArrive(e) /\ MergeControl(e) /\ UNCHANGED <<node, is_large, pc>>
      /\ live' \cup dead' = live \cup dead \cup {e}
  BY DEF ActivateNodes
<1>2. /\ node \in Nodes /\ e \in Edges(node) /\ e \in Missing
      /\ IsFiniteSet(Control[node] \cap Missing) /\ IsFiniteSet(dead \cap Data[node])
      /\ Modulus \in Nat /\ pending \in 0 .. Modulus - 1 /\ dead_count \in 0 .. Modulus - 1
  BY <1>1, Arrival
<1>3. Enters[node] = {} /\ e \notin Data[node]
  BY <1>2, NodeAssumption DEF LoopMergesUncontrolled
<1>4. activations = <<>>
  BY <1>2, MergeBefore
<1>5. /\ Awaited \in Nat /\ Flag \in 0 .. 1 /\ pending = 2 * Awaited + Flag
      /\ dead_count = Cardinality(dead \cap Data[node])
  BY <1>4, MergeBefore
<1>6. /\ Control[node] \cap Missing' = (Control[node] \cap Missing) \ {e}
      /\ live' \cap Data[node] = live \cap Data[node]
      /\ dead' \cap Data[node] = dead \cap Data[node]
  BY <1>1, <1>3 DEF Missing, ActivateNodes, Edges, NA!Edges
<1>7. Awaited' = Awaited - 1 /\ Flag' = Flag /\ IsFiniteSet(Control[node] \cap Missing') /\ Awaited >= 1
  <2>1. Awaited' = Cardinality(Control[node] \cap Missing')
    BY <1>1 DEF Awaited
  <2> DEFINE S == Control[node] \cap Missing
  <2>2. IsFiniteSet(S \ {e}) /\ Cardinality(S \ {e}) = Cardinality(S) - 1
    BY <1>2, FS_RemoveElement
  <2>5. Awaited = Cardinality(S)
    BY DEF Awaited
  <2>3. Flag' = Flag
    BY <1>1, <1>6 DEF Flag
  <2>4. Awaited # 0
    BY <1>2, FS_EmptySet DEF Awaited
  <2>6. Control[node] \cap Missing' = S \ {e}
    BY <1>6
  <2>7. Awaited' = Cardinality(S \ {e}) /\ IsFiniteSet(Control[node] \cap Missing')
    BY <2>1, <2>2, <2>6
  <2>8. Awaited' = Awaited - 1
    BY <2>2, <2>5, <2>7
  <2>9. Awaited >= 1
    BY <1>5, <2>4
  <2> QED BY <2>3, <2>7, <2>8, <2>9
<1>8. pending' = 2 * Awaited' + Flag' /\ pending' \in 0 .. Modulus - 1
  <2>1. pending' = (pending - 2) % Modulus
    BY <1>1 DEF MergeControl
  <2>2. pending - 2 \in 0 .. Modulus - 1 /\ pending - 2 = 2 * Awaited' + Flag'
    BY <1>2, <1>5, <1>7
  <2>3. (pending - 2) % Modulus = pending - 2
    BY <1>2, <2>2
  <2> QED BY <2>1, <2>2, <2>3
<1>9. (Awaited' = 0) <=> Control[node] \subseteq live' \cup dead'
  <2>1. (Awaited' = 0) <=> Control[node] \cap Missing' = {}
    BY <1>1, <1>7, FS_EmptySet DEF Awaited
  <2> QED BY <1>1, <2>1 DEF Missing, Edges, NA!Edges
<1>10. (dead_count = Cardinality(Data[node])) <=> Data[node] \subseteq dead
  <2>1. IsFiniteSet(Data[node]) /\ dead \cap Data[node] \in SUBSET Data[node]
    BY <1>2, EdgesFinite
  <2>2. dead_count = Cardinality(Data[node]) => dead \cap Data[node] = Data[node]
    BY <1>5, <2>1, FS_Subset
  <2>3. Data[node] \subseteq dead => dead \cap Data[node] = Data[node]
    OBVIOUS
  <2> QED BY <1>5, <2>2, <2>3
<1>11. (Flag = 0) <=> live \cap Data[node] # {}
  BY DEF Flag
<1>12. live \cap Data[node] # {} => ~(Data[node] \subseteq dead)
  BY DEF IInv, Rest
<1>13. DEFINE dst_dead == dead_count = Cardinality(Data[node])
              ready == pending' = 0 \/ (pending' = 1 /\ dst_dead)
<1>14. ready <=> NA!IsReady(live', dead')
  <2>1. NA!IsReady(live', dead') <=> Awaited' = 0 /\ (Flag = 0 \/ dst_dead)
    BY <1>3, <1>6, <1>9, <1>10, <1>11 DEF NA!IsReady
  <2>2. pending' = 0 <=> Awaited' = 0 /\ Flag = 0
    BY <1>5, <1>7, <1>8
  <2>3. pending' = 1 <=> Awaited' = 0 /\ Flag = 1
    BY <1>5, <1>7, <1>8
  <2> QED BY <1>5, <2>1, <2>2, <2>3
<1>15. ready => (dst_dead /\ Kind[node] # "control_trigger") = NA!IsDead(live', dead')
  <2>1. NA!IsDead(live', dead') = (live \cap Data[node] = {})
    BY <1>6 DEF NA!IsDead
  <2>2. ready => (dst_dead <=> live \cap Data[node] = {})
    BY <1>5, <1>7, <1>8, <1>10, <1>11, <1>12
  <2> QED BY <2>1, <2>2
<1>16. activations' = IF ready THEN Append(activations, dst_dead /\ Kind[node] # "control_trigger")
                      ELSE activations
  BY <1>1 DEF MergeControl, Activate
<1>17. \A x : Append(activations, x) = <<x>>
  BY <1>4
<1>18. Simulated(e, is_dead)
  <2>1. CASE ready
    BY <1>4, <1>14, <1>15, <1>16, <1>17, <2>1 DEF Simulated
  <2>2. CASE ~ready
    BY <1>4, <1>14, <1>16, <2>2 DEF Simulated
  <2> QED BY <2>1, <2>2
<1>19. dead_count' = dead_count /\ has_started' = has_started
  BY <1>1 DEF MergeControl
<1>20. CountsExact'
  <2>1. CASE activations' = <<>>
    BY <1>1, <1>5, <1>6, <1>8, <1>19, <2>1 DEF CountsExact, Awaited, Flag
  <2>2. CASE activations' # <<>>
    <3>1. ready /\ Awaited' = 0
      BY <1>4, <1>5, <1>7, <1>8, <1>16, <2>2
    <3>2. CASE pending' = 0
      BY <1>1, <2>2, <3>2 DEF CountsExact, PendingOf, NodeState
    <3>3. CASE dst_dead
      <4>1. Missing' = {}
        BY <1>1, <1>2, <1>9, <1>10, <3>1, <3>3, <1>6 DEF Missing, Edges, NA!Edges
      <4> QED BY <2>2, <4>1 DEF CountsExact
    <3> QED BY <3>1, <3>2, <3>3
  <2> QED BY <2>1, <2>2
<1> QED BY <1>2, <1>8, <1>18, <1>19, <1>20

(* A live data input comes to a Merge. *)
LEMMA MergeLiveStep ==
  ASSUME NEW e, Arrives(e, FALSE), Kind[node] = "merge", e \in Data[node]
  PROVE  Simulated(e, FALSE) /\ CountsExact' /\ pending' \in 0 .. Modulus - 1
         /\ dead_count' \in 0 .. Modulus - 1 /\ UNCHANGED has_started
<1> USE DEF Arrives
<1>1. /\ NA!MayArrive(e) /\ live' = live \cup {e} /\ dead' = dead
      /\ UNCHANGED <<node, is_large, pc>>
  BY DEF ActivateNodes
<1>2. /\ node \in Nodes /\ e \in Edges(node) /\ e \in Missing
      /\ Modulus \in Nat /\ pending \in 0 .. Modulus - 1 /\ dead_count \in 0 .. Modulus - 1
  BY <1>1, Arrival
<1>3. e \notin Control[node]
  BY <1>2, NodeAssumption
<1>4. MergeLive(e)
  BY <1>3 DEF ActivateNodes
<1>5. /\ Awaited \in Nat /\ Flag \in 0 .. 1
      /\ (Awaited = 0 <=> Control[node] \subseteq live \cup dead)
  BY MergeBefore
<1>6. /\ Control[node] \cap Missing' = Control[node] \cap Missing
      /\ (Control[node] \subseteq live' \cup dead' <=> Control[node] \subseteq live \cup dead)
  BY <1>1, <1>3 DEF Missing, Edges, NA!Edges
<1>7. live' \cap Data[node] # {}
  BY <1>1
<1>8. dead_count' = dead_count /\ has_started' = has_started
  BY <1>4 DEF MergeLive
<1>9. NA!IsReady(live', dead') <=> Awaited = 0
  BY <1>5, <1>6, <1>7 DEF NA!IsReady
<1>10. NA!IsDead(live', dead') = FALSE
  BY <1>7 DEF NA!IsDead
<1>11. activations' = IF PendingOf = 1 THEN Append(activations, FALSE) ELSE activations
  BY <1>4 DEF MergeLive, Activate
<1>12. CASE activations = <<>>
  <2>1. /\ pending = 2 * Awaited + Flag /\ pending > 0 /\ PendingOf = pending
        /\ NodeState = "PENDING_NOTREADY"
        /\ dead_count = Cardinality(dead \cap Data[node])
        /\ Awaited = 0 => Flag = 1
    BY <1>12, MergeBefore
  <2>2. pending' = 2 * Awaited
    <3>1. pending' = pending - (pending % 2)
      BY <1>4, <2>1 DEF MergeLive, mark_live
    <3>2. pending % 2 = Flag
      BY <1>5, <2>1
    <3> QED BY <1>5, <2>1, <3>1, <3>2
  <2>3. PendingOf = 1 <=> Awaited = 0
    BY <1>5, <2>1
  <2>4. Append(activations, FALSE) = <<FALSE>>
    BY <1>12
  <2>5. Simulated(e, FALSE)
    <3>1. CASE PendingOf = 1
      <4>1. activations' = <<NA!IsDead(live', dead')>>
        BY <1>10, <1>11, <2>4, <3>1
      <4> QED BY <1>9, <1>12, <2>3, <3>1, <4>1 DEF Simulated
    <3>2. CASE PendingOf # 1
      BY <1>9, <1>11, <1>12, <2>3, <3>2 DEF Simulated
    <3> QED BY <3>1, <3>2
  <2>6. pending' \in 0 .. Modulus - 1
    BY <1>2, <1>5, <2>1, <2>2
  <2>7. CountsExact'
    <3>1. CASE activations' = <<>>
      <4>1. pending' = 2 * Cardinality(Control[node] \cap Missing')
        BY <1>6, <2>2 DEF Awaited
      <4>2. dead_count' = Cardinality(dead' \cap Data[node])
        BY <1>1, <1>8, <2>1
      <4>3. Cardinality(Control[node] \cap Missing') \in Nat
        BY <1>5, <1>6 DEF Awaited
      <4> QED BY <1>1, <1>7, <3>1, <4>1, <4>2, <4>3 DEF CountsExact
    <3>2. CASE activations' # <<>>
      <4>1. pending' = 0
        BY <1>5, <1>11, <1>12, <2>2, <2>3, <3>2
      <4> QED BY <3>2, <4>1 DEF CountsExact, PendingOf
    <3> QED BY <3>1, <3>2
  <2> QED BY <1>2, <1>8, <2>5, <2>6, <2>7
<1>13. CASE activations # <<>>
  <2>1. PendingOf = 0 /\ NodeState # "PENDING_NOTREADY"
    BY <1>13, MergeBefore
  <2>2. activations' = activations
    BY <1>11, <2>1
  <2>3. Awaited = 0
    BY <1>13, FS_EmptySet, MergeBefore DEF Awaited
  <2>4. Simulated(e, FALSE)
    BY <1>9, <1>13, <2>2, <2>3 DEF Simulated
  <2>5. pending' = pending
    BY <1>4, <2>1 DEF MergeLive, mark_live
  <2>6. PendingOf' = 0
    BY <1>8, <2>1, <2>5 DEF PendingOf, NodeState
  <2>7. CountsExact'
    BY <1>13, <2>2, <2>6 DEF CountsExact
  <2> QED BY <1>2, <1>8, <2>4, <2>5, <2>7
<1> QED BY <1>12, <1>13

(* A dead data input comes to a Merge. *)
LEMMA MergeDeadStep ==
  ASSUME NEW e, Arrives(e, TRUE), Kind[node] = "merge", e \in Data[node]
  PROVE  Simulated(e, TRUE) /\ CountsExact' /\ pending' \in 0 .. Modulus - 1
         /\ dead_count' \in 0 .. Modulus - 1 /\ UNCHANGED has_started
<1> USE DEF Arrives
<1>1. /\ NA!MayArrive(e) /\ dead' = dead \cup {e} /\ live' = live
      /\ UNCHANGED <<node, is_large, pc>>
  BY DEF ActivateNodes
<1>2. /\ node \in Nodes /\ e \in Edges(node) /\ e \in Missing
      /\ IsFiniteSet(dead \cap Data[node])
      /\ Modulus \in Nat /\ pending \in 0 .. Modulus - 1 /\ dead_count \in 0 .. Modulus - 1
      /\ Cardinality(Edges(node)) < Modulus
  BY <1>1, Arrival
<1>3. e \notin Control[node]
  BY <1>2, NodeAssumption
<1>4. MergeDead(e)
  BY <1>3 DEF ActivateNodes
<1>5. /\ Awaited \in Nat /\ Flag \in 0 .. 1
      /\ (Awaited = 0 <=> Control[node] \subseteq live \cup dead)
  BY MergeBefore
<1>6. /\ Control[node] \cap Missing' = Control[node] \cap Missing
      /\ (Control[node] \subseteq live' \cup dead' <=> Control[node] \subseteq live \cup dead)
  BY <1>1, <1>3 DEF Missing, Edges, NA!Edges
<1>7. pending' = pending /\ has_started' = has_started /\ dead_count' = IncrementedDeadCount
  BY <1>4 DEF MergeDead
<1>8. DEFINE dst_dead == dead_count' = Cardinality(Data[node]) \/ e \in Enters[node]
<1>9. activations' = IF PendingOf = 1 /\ dst_dead THEN Append(activations, TRUE) ELSE activations
  BY <1>4, <1>7 DEF MergeDead, Activate
<1>10. CASE activations = <<>>
  <2>1. /\ pending = 2 * Awaited + Flag /\ pending > 0 /\ PendingOf = pending
        /\ NodeState = "PENDING_NOTREADY"
        /\ dead_count = Cardinality(dead \cap Data[node])
        /\ Awaited = 0 => Flag = 1 /\ dead \cap Enters[node] = {} /\ ~(Data[node] \subseteq dead)
    BY <1>10, MergeBefore
  <2>2. /\ dead' \cap Data[node] = (dead \cap Data[node]) \cup {e}
        /\ e \notin dead \cap Data[node] /\ dead' \cap Data[node] \in SUBSET Data[node]
    BY <1>1, <1>2 DEF Missing
  <2>3. /\ IsFiniteSet(dead' \cap Data[node])
        /\ Cardinality(dead' \cap Data[node]) = dead_count + 1
    BY <1>2, <2>1, <2>2, FS_AddElement
  <2>4. /\ IsFiniteSet(Data[node])
        /\ Cardinality(Data[node]) \in Nat /\ Cardinality(Edges(node)) \in Nat
        /\ Cardinality(Data[node]) <= Cardinality(Edges(node))
    BY <1>2, EdgesFinite
  <2>5. Cardinality(dead' \cap Data[node]) <= Cardinality(Data[node])
        /\ (Cardinality(Data[node]) = Cardinality(dead' \cap Data[node]) =>
              Data[node] = dead' \cap Data[node])
    BY <2>2, <2>4, FS_Subset
  <2>6. dead_count' = dead_count + 1 /\ dead_count' \in 0 .. Modulus - 1
    <3>1. dead_count' = (dead_count + 1) % Modulus
      BY <1>7, <2>1 DEF IncrementedDeadCount
    <3>2. dead_count + 1 \in 0 .. Modulus - 1
      BY <1>2, <2>3, <2>4, <2>5
    <3> QED BY <1>2, <3>1, <3>2
  <2>7. dead_count' = Cardinality(Data[node]) <=> Data[node] \subseteq dead'
    <3>1. Data[node] \subseteq dead' => dead' \cap Data[node] = Data[node]
      OBVIOUS
    <3>2. dead_count' = Cardinality(dead' \cap Data[node])
      BY <2>3, <2>6
    <3> QED BY <2>5, <3>1, <3>2
  <2>8. PendingOf = 1 <=> Awaited = 0 /\ Flag = 1
    BY <1>5, <2>1
  <2>9. Flag = 1 <=> live \cap Data[node] = {}
    BY DEF Flag
  <2>10. NA!IsReady(live', dead') <=> PendingOf = 1 /\ dst_dead
    <3>1. CASE Awaited = 0
      <4>1. dead' \cap Enters[node] # {} <=> e \in Enters[node]
        BY <1>1, <2>1, <3>1
      <4>2. NA!IsReady(live', dead') <=> Data[node] \subseteq dead' \/ e \in Enters[node]
        BY <1>1, <1>5, <1>6, <2>1, <2>9, <3>1, <4>1 DEF NA!IsReady
      <4> QED BY <2>1, <2>7, <2>8, <3>1, <4>2
    <3>2. CASE Awaited # 0
      BY <1>5, <1>6, <2>8, <3>2 DEF NA!IsReady
    <3> QED BY <3>1, <3>2
  <2>11. PendingOf = 1 => NA!IsDead(live', dead') = TRUE
    BY <1>1, <2>8, <2>9 DEF NA!IsDead
  <2>12. Append(activations, TRUE) = <<TRUE>>
    BY <1>10
  <2>13. Simulated(e, TRUE)
    <3>1. CASE PendingOf = 1 /\ dst_dead
      <4>1. activations' = <<NA!IsDead(live', dead')>>
        BY <1>9, <2>11, <2>12, <3>1
      <4> QED BY <1>10, <2>10, <3>1, <4>1 DEF Simulated
    <3>2. CASE ~(PendingOf = 1 /\ dst_dead)
      BY <1>9, <1>10, <2>10, <3>2 DEF Simulated
    <3> QED BY <3>1, <3>2
  <2>14. CountsExact'
    <3>1. CASE activations' = <<>>
      <4>1. pending' = 2 * Cardinality(Control[node] \cap Missing')
                       + (IF live' \cap Data[node] = {} THEN 1 ELSE 0)
        BY <1>1, <1>6, <1>7, <2>1 DEF Awaited, Flag
      <4>2. dead_count' = Cardinality(dead' \cap Data[node])
        BY <2>3, <2>6
      <4> QED BY <1>1, <3>1, <4>1, <4>2 DEF CountsExact
    <3>2. CASE activations' # <<>>
      <4>1. PendingOf = 1 /\ dst_dead
        BY <1>9, <1>10, <3>2
      <4>2. CASE e \in Enters[node]
        <5>1. dead' \cap Enters[node]' # {}
          BY <1>1, <4>2
        <5> QED BY <1>1, <3>2, <5>1 DEF CountsExact
      <4>3. CASE Data[node] \subseteq dead'
        <5>1. Missing' = {}
          BY <1>1, <1>5, <1>6, <2>8, <4>1, <4>3 DEF Missing, Edges, NA!Edges
        <5> QED BY <3>2, <5>1 DEF CountsExact
      <4> QED BY <2>7, <4>1, <4>2, <4>3
    <3> QED BY <3>1, <3>2
  <2> QED BY <1>2, <1>7, <2>6, <2>13, <2>14
<1>11. CASE activations # <<>>
  <2>1. PendingOf = 0 /\ NodeState # "PENDING_NOTREADY" /\ Control[node] \cap Missing = {}
    BY <1>11, MergeBefore
  <2>2. activations' = activations
    BY <1>9, <2>1
  <2>3. NA!IsReady(live', dead')
    BY <1>1, <1>6, <1>11 DEF IInv, Rest, NA!IsReady
  <2>4. Simulated(e, TRUE)
    BY <1>11, <2>2, <2>3 DEF Simulated
  <2>5. dead_count' = dead_count
    BY <1>7, <2>1 DEF IncrementedDeadCount
  <2>6. PendingOf' = 0
    BY <1>7, <2>1 DEF PendingOf, NodeState
  <2>7. CountsExact'
    BY <1>11, <2>2, <2>6 DEF CountsExact
  <2> QED BY <1>2, <1>7, <2>4, <2>5, <2>7
<1> QED BY <1>10, <1>11

--------------------------------------------------------------------------------
(* Every arrival keeps the counts exact and is a step of NodeActivation. *)
LEMMA ArrivalStep ==
  ASSUME NEW e, NEW is_dead, Arrives(e, is_dead), LoopMergesUncontrolled
  PROVE  IInv' /\ NA!Arrive(e)
<1>1. /\ IInv /\ e \in Edges(node) /\ is_dead \in BOOLEAN
      /\ ActivateNodes(e, is_dead)
  BY DEF Arrives
<1>2. /\ NA!MayArrive(e) /\ UNCHANGED <<node, is_large, pc>>
      /\ \/ live' = live \cup {e} /\ UNCHANGED dead
         \/ dead' = dead \cup {e} /\ UNCHANGED live
  BY <1>1 DEF ActivateNodes
<1>3. /\ Simulated(e, is_dead) /\ CountsExact' /\ pending' \in 0 .. Modulus - 1
      /\ dead_count' \in 0 .. Modulus - 1 /\ UNCHANGED has_started
  <2>1. CASE Kind[node] # "merge"
    BY <2>1, PlainStep
  <2>2. CASE Kind[node] = "merge" /\ e \in Control[node]
    BY <2>2, MergeControlStep
  <2>3. CASE Kind[node] = "merge" /\ e \in Data[node]
    <3>1. CASE is_dead = TRUE
      BY <2>3, <3>1, MergeDeadStep
    <3>2. CASE is_dead = FALSE
      BY <2>3, <3>2, MergeLiveStep
    <3> QED BY <1>1, <3>1, <3>2
  <2> QED BY <1>1, <2>1, <2>2, <2>3 DEF Edges, NA!Edges
<1>4. NA!Arrive(e)
  BY <1>2, <1>3 DEF NA!Arrive, Simulated
<1>5. NA!IsDead(live', dead') \in BOOLEAN
  BY <1>1, NodeAssumption DEF NA!IsDead, IInv, TypeOK
<1>6. activations' \in Seq(BOOLEAN)
  <2>1. activations \in Seq(BOOLEAN)
    BY <1>1 DEF IInv, TypeOK
  <2>2. <<NA!IsDead(live', dead')>> \in Seq(BOOLEAN)
    BY <1>5
  <2> QED BY <1>3, <2>1, <2>2 DEF Simulated
<1>7. TypeOK'
  <2>1. /\ Modulus' = Modulus /\ InitialCount(node)' = InitialCount(node)
        /\ Edges(node)' = Edges(node)
    BY <1>2 DEF Modulus, InitialCount, Edges, NA!Edges
  <2>2. live' \subseteq Edges(node) /\ dead' \subseteq Edges(node)
    BY <1>1, <1>2 DEF IInv, TypeOK
  <2>3. has_started' \in BOOLEAN /\ is_large' \in BOOLEAN
    BY <1>1, <1>2, <1>3 DEF IInv, TypeOK
  <2> QED BY <1>1, <1>2, <1>3, <1>6, <2>1, <2>2, <2>3 DEF IInv, TypeOK
<1>8. Rest'
  <2>1. live' \cap dead' = {}
    BY <1>1, <1>2 DEF IInv, Rest, NA!MayArrive
  <2>2. (activations' = <<>>) <=> ~NA!IsReady(live, dead)'
    BY <1>2, <1>3 DEF Simulated, NA!IsReady, NA!Edges
  <2>3. activations' = <<>> => activations = <<>>
    BY <1>3 DEF Simulated
  <2>4. activations' = <<>> => pc' = "waits"
    BY <1>1, <1>2, <2>3 DEF IInv, Rest
  <2>5. has_started' <=> Vlog /\ pc' # "waits"
    BY <1>1, <1>2, <1>3 DEF IInv, Rest
  <2> QED BY <2>1, <2>2, <2>4, <2>5 DEF Rest
<1> QED BY <1>3, <1>4, <1>7, <1>8 DEF IInv

(* The marks of Process do not change what an input that comes later does. *)
LEMMA MarkStep ==
  ASSUME IInv, MarkStarted \/ MarkCompleted
  PROVE  IInv' /\ UNCHANGED NA!avars
<1>1. /\ UNCHANGED <<node, live, dead, activations, is_large, dead_count>>
      /\ activations # <<>> /\ pc' \in {"started", "completed"}
  BY DEF MarkStarted, MarkCompleted, IInv, Rest
<1>2. has_started' \in BOOLEAN
  BY NodeAssumption DEF MarkStarted, MarkCompleted, IInv, TypeOK
<1>3. Modulus' = Modulus /\ 1 \in 0 .. Modulus - 1 /\ pending \in 0 .. Modulus - 1
  <2>1. Modulus' = Modulus /\ Modulus \in Nat /\ pending \in 0 .. Modulus - 1
    BY <1>1, NodeAssumption DEF Modulus, IInv, TypeOK
  <2>2. Cardinality(Edges(node)) < Modulus /\ node \in Nodes
    BY DEF IInv, TypeOK
  <2>3. Cardinality(Edges(node)) \in Nat /\ Cardinality(Edges(node)) # 0
    BY <2>2, EdgesFinite, NodeAssumption, FS_EmptySet
  <2> QED BY <2>1, <2>2, <2>3
<1>4. pending' \in 0 .. Modulus - 1
  BY <1>3 DEF MarkStarted, MarkCompleted
<1>5. TypeOK'
  <2>1. InitialCount(node)' = InitialCount(node) /\ Edges(node)' = Edges(node)
    BY <1>1 DEF InitialCount, Edges, NA!Edges
  <2>2. pc' \in {"waits", "started", "completed"}
    BY <1>1
  <2>3. is_large' \in BOOLEAN
    BY <1>1 DEF IInv, TypeOK
  <2> QED BY <1>1, <1>2, <1>3, <1>4, <2>1, <2>2, <2>3 DEF IInv, TypeOK
<1>6. PendingOf = 0 => PendingOf' = 0
  <2>1. CASE MarkStarted
    <3>1. ~has_started /\ pending' = pending
      BY <2>1 DEF MarkStarted, IInv, Rest
    <3>2. PendingOf = 0 => pending = 0
      BY <3>1 DEF PendingOf, NodeState
    <3> QED BY <3>1, <3>2 DEF PendingOf
  <2>2. CASE MarkCompleted
    <3>1. has_started = Vlog /\ has_started' = has_started
      BY <2>2, NodeAssumption DEF MarkCompleted, IInv, Rest, TypeOK
    <3>2. CASE has_started
      <4>1. NodeState' # "PENDING_NOTREADY"
        BY <3>1, <3>2 DEF NodeState
      <4> QED BY <4>1 DEF PendingOf
    <3>3. CASE ~has_started
      <4>1. pending' = pending
        BY <2>2, <3>1, <3>3 DEF MarkCompleted
      <4> QED BY <3>1, <4>1 DEF PendingOf, NodeState
    <3> QED BY <3>2, <3>3
  <2> QED BY <2>1, <2>2
<1>7. CountsExact'
  <2>1. Missing' = Missing
    BY <1>1 DEF Missing, Edges, NA!Edges
  <2> QED BY <1>1, <1>6, <2>1 DEF IInv, CountsExact
<1>8. Rest'
  <2>1. has_started' <=> Vlog /\ pc' # "waits"
    BY NodeAssumption DEF MarkStarted, MarkCompleted, IInv, Rest
  <2> QED BY <1>1, <2>1 DEF IInv, Rest, NA!IsReady, NA!Edges
<1> QED BY <1>1, <1>5, <1>7, <1>8 DEF IInv, NA!avars

(* One step of the whole. *)
LEMMA StepSimulates ==
  ASSUME IInv, [Next]_vars, LoopMergesUncontrolled
  PROVE  IInv' /\ [NA!AbstractNext]_NA!avars
<1>1. ASSUME NEW e \in Edges(node), NEW is_dead \in BOOLEAN, ActivateNodes(e, is_dead)
      PROVE  IInv' /\ [NA!AbstractNext]_NA!avars
  <2>1. IInv' /\ NA!Arrive(e)
    BY <1>1, ArrivalStep DEF Arrives
  <2>2. node \in Nodes /\ e \in NA!Edges(node)
    BY <1>1 DEF IInv, TypeOK, Edges
  <2> QED BY <2>1, <2>2 DEF NA!AbstractNext
<1>2. CASE MarkStarted \/ MarkCompleted
  BY <1>2, MarkStep
<1>3. CASE UNCHANGED vars
  BY <1>3 DEF vars, counts, IInv, TypeOK, CountsExact, Rest, Missing, Modulus, PendingOf,
              NodeState, InitialCount, Edges, NA!Edges, NA!IsReady, NA!avars
<1> QED BY <1>1, <1>2, <1>3 DEF Next

(* Types, and room for every count: no field wraps. *)
THEOREM CountsFit == LoopMergesUncontrolled => (Spec => []TypeOK)
<1> SUFFICES ASSUME LoopMergesUncontrolled PROVE Spec => []TypeOK OBVIOUS
<1>1. Init => IInv BY Beginning
<1>2. IInv /\ [Next]_vars => IInv' BY StepSimulates
<1>3. IInv => TypeOK BY DEF IInv
<1> QED BY <1>1, <1>2, <1>3, PTL DEF Spec

(* The packed fields are exact until the node is activated, and cannot       *)
(* activate it again.                                                        *)
THEOREM CountsAreExact == LoopMergesUncontrolled => (Spec => []CountsExact)
<1> SUFFICES ASSUME LoopMergesUncontrolled PROVE Spec => []CountsExact OBVIOUS
<1>1. Init => IInv BY Beginning
<1>2. IInv /\ [Next]_vars => IInv' BY StepSimulates
<1>3. IInv => CountsExact BY DEF IInv
<1> QED BY <1>1, <1>2, <1>3, PTL DEF Spec

(* ActivateNodes, counting, activates the nodes that NodeActivation, which   *)
(* looks at the sets of inputs, activates: once each, live or dead alike.    *)
THEOREM CountingImplements == LoopMergesUncontrolled => (Spec => ImplementsActivation)
<1> SUFFICES ASSUME LoopMergesUncontrolled PROVE Spec => ImplementsActivation OBVIOUS
<1>1. Init => IInv BY Beginning
<1>2. Init => NA!AbstractInit BY DEF Init, NA!AbstractInit
<1>3. IInv /\ [Next]_vars => IInv' /\ [NA!AbstractNext]_NA!avars
  BY StepSimulates
<1> QED BY <1>1, <1>2, <1>3, PTL DEF Spec, ImplementsActivation, NA!AbstractSpec
================================================================================
