---------------------------- MODULE NodeActivation ----------------------------
(***************************************************************************)
(* What ActivateNodes promises about one node of an iteration              *)
(* (core/common_runtime/executor.cc:2756): from its inputs, live or dead   *)
(* and in any order, follow whether it is activated, how often (once), and *)
(* whether it is dead.  No counts: the inputs that have come are sets.     *)
(***************************************************************************)
CONSTANTS
  Nodes,
  Kind,        \* "merge", "control_trigger" or "plain", for each node
  Data, Control, Enters  \* the in-edges of each node; the data edges from an Enter

Edges(n) == Data[n] \cup Control[n]

VARIABLES
  node,         \* the node this behaviour is about
  live, dead,   \* the in-edges whose source has run, and with what outcome
  activations   \* is_dead of each activation of the node

avars == <<node, live, dead, activations>>

(* "A merge node is ready if all control inputs have arrived and either a) a *)
(* live data input becomes available or b) all data inputs are dead", or     *)
(* the loop it begins is in an untaken branch.                               *)
IsReady(l, d) ==
  IF Kind[node] = "merge"
  THEN /\ Control[node] \subseteq l \cup d
       /\ l \cap Data[node] # {} \/ Data[node] \subseteq d \/ d \cap Enters[node] # {}
  ELSE Edges(node) \subseteq l \cup d

IsDead(l, d) ==
  CASE Kind[node] = "merge" -> l \cap Data[node] = {}
    [] Kind[node] = "control_trigger" -> FALSE
    [] OTHER -> d # {}

(* No data comes to a Merge after a dead Enter: the loop is not entered. *)
MayArrive(e) ==
  /\ e \in Edges(node) \ (live \cup dead)
  /\ Kind[node] = "merge" /\ e \in Data[node] => dead \cap Enters[node] = {}

AbstractInit ==
  /\ node \in Nodes
  /\ live = {} /\ dead = {}
  /\ activations = <<>>

Arrive(e) ==
  /\ MayArrive(e)
  /\ \/ live' = live \cup {e} /\ UNCHANGED dead
     \/ dead' = dead \cup {e} /\ UNCHANGED live
  /\ activations' = IF activations = <<>> /\ IsReady(live', dead')
                    THEN <<IsDead(live', dead')>>
                    ELSE activations
  /\ UNCHANGED node

AbstractNext == \E n \in Nodes : \E e \in Edges(n) : Arrive(e)

AbstractSpec == AbstractInit /\ [][AbstractNext]_avars
================================================================================
