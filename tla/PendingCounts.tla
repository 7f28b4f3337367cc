----------------------------- MODULE PendingCounts -----------------------------
(***************************************************************************)
(* tensorflow::PendingCounts (core/common_runtime/pending_counts.h) as     *)
(* ActivateNodes and Process (executor.cc) use it for one node of an       *)
(* iteration, under the frame's mu: the count of missing inputs, in which  *)
(* a Merge hides a flag, the count of dead ones, and the encoding of what  *)
(* has started and completed, packed into bits.                            *)
(*                                                                         *)
(* VLOG_IS_ON(1) does not change during a step.  Unsigned fields wrap.     *)
(***************************************************************************)
EXTENDS Integers, FiniteSets, Sequences

CONSTANTS
  Nodes, Kind, Data, Control, Enters,  \* as in NodeActivation
  kMaxCountForPackedCounts,
  LargeModulus,        \* 2^32 in the code: beyond the in-edges of any node
  Vlog                 \* vlog_

VARIABLES
  node, live, dead, activations,       \* as in NodeActivation
  is_large,                            \* the node's Handle
  pending, dead_count, has_started,    \* its PackedCounts or LargeCounts
  pc                                   \* the node: "waits", "started", "completed"

counts == <<pending, dead_count, has_started>>
vars == <<node, live, dead, activations, is_large, counts, pc>>

(* The refinement mapping: the inputs and activations are those of the node, the *)
(* counts and the state of the node have no counterpart.                         *)
NA == INSTANCE NodeActivation
        WITH node <- node, live <- live, dead <- dead, activations <- activations
Edges(n) == NA!Edges(n)

ASSUME NodeAssumption ==
  /\ kMaxCountForPackedCounts \in Nat \ {0} /\ LargeModulus \in Nat /\ Vlog \in BOOLEAN
  /\ \A n \in Nodes :
       /\ Kind[n] \in {"merge", "control_trigger", "plain"}
       /\ IsFiniteSet(Data[n]) /\ IsFiniteSet(Control[n])
       /\ Data[n] \cap Control[n] = {} /\ Edges(n) # {}
       /\ Enters[n] \subseteq Data[n]
       /\ Kind[n] = "merge" => Data[n] # {}
       /\ 2 * Cardinality(Edges(n)) + 1 < LargeModulus

Modulus == IF is_large THEN LargeModulus ELSE kMaxCountForPackedCounts + 1

--------------------------------------------------------------------------------
(* GetMaxPendingCounts; max_dead_count is the number of in-edges. *)
InitialCount(n) ==
  IF Kind[n] = "merge" THEN 1 + 2 * Cardinality(Control[n]) ELSE Cardinality(Edges(n))

(* Fault: off by one. *)
NeedsLargeOffByOne(n) ==
  \/ InitialCount(n) > kMaxCountForPackedCounts + 1
  \/ Cardinality(Edges(n)) > kMaxCountForPackedCounts + 1

(* Layout::CreateHandle. *)
NeedsLarge(n) ==
  \/ InitialCount(n) > kMaxCountForPackedCounts
  \/ Cardinality(Edges(n)) > kMaxCountForPackedCounts

(* set_initial_count, of every node when an iteration begins. *)
Init ==
  /\ node \in Nodes
  /\ live = {} /\ dead = {}
  /\ activations = <<>>
  /\ is_large = NeedsLarge(node)
  /\ pending = InitialCount(node) % Modulus
  /\ dead_count = 0
  /\ has_started = FALSE
  /\ pc = "waits"

--------------------------------------------------------------------------------
NodeState ==
  IF has_started THEN (IF pending = 0 THEN "STARTED" ELSE "COMPLETED")
  ELSE (IF pending = 0 THEN "PENDING_READY" ELSE "PENDING_NOTREADY")

(* Fault: the field as it is. *)
PendingOfField == pending

(* pending(h): "The pending count encodes the state once the node has        *)
(* started, so just return 0."                                               *)
PendingOf == IF NodeState = "PENDING_NOTREADY" THEN pending ELSE 0

mark_live ==
  pending' = IF NodeState = "PENDING_NOTREADY" THEN pending - (pending % 2) ELSE pending

(* dead_count after increment_dead_count. *)
IncrementedDeadCount ==
  IF NodeState = "PENDING_NOTREADY" THEN (dead_count + 1) % Modulus ELSE dead_count

(* dst joins the ready list if it is ready. *)
Activate(ready, is_dead) ==
  activations' = IF ready
                 THEN Append(activations, is_dead /\ Kind[node] # "control_trigger")
                 ELSE activations

(* A control edge into a Merge. *)
MergeControl(e) ==
  LET count == (pending - 2) % Modulus
      dst_dead == dead_count = Cardinality(Data[node])
  IN  /\ pending' = count
      /\ Activate(count = 0 \/ (count = 1 /\ dst_dead), dst_dead)
      /\ UNCHANGED <<dead_count, has_started>>

(* Fault: a live input starts the Merge although control inputs are missing. *)
MergeLiveTooEarly(e) ==
  /\ mark_live
  /\ Activate(PendingOf % 2 = 1, FALSE)
  /\ UNCHANGED <<dead_count, has_started>>

(* A live data input of a Merge: only the first may start it. *)
MergeLive(e) ==
  /\ mark_live
  /\ Activate(PendingOf = 1, FALSE)
  /\ UNCHANGED <<dead_count, has_started>>

(* A dead data input of a Merge. *)
MergeDead(e) ==
  LET dst_dead == IncrementedDeadCount = Cardinality(Data[node]) \/ e \in Enters[node]
  IN  /\ dead_count' = IncrementedDeadCount
      /\ Activate(PendingOf = 1 /\ dst_dead, TRUE)
      /\ UNCHANGED <<pending, has_started>>

(* Any edge into another node: adjust_for_activation.  A control edge is     *)
(* dead when its source is.                                                  *)
AdjustForActivation(increment_dead) ==
  LET d == IF increment_dead THEN IncrementedDeadCount ELSE dead_count
      p == (pending - 1) % Modulus
  IN  /\ dead_count' = d
      /\ pending' = p
      /\ Activate(p = 0, d > 0)
      /\ UNCHANGED has_started

(* ActivateNodes for edge e, whose source has run live or dead. *)
ActivateNodes(e, is_dead) ==
  /\ NA!MayArrive(e)
  /\ IF is_dead THEN dead' = dead \cup {e} /\ UNCHANGED live
     ELSE live' = live \cup {e} /\ UNCHANGED dead
  /\ IF Kind[node] = "merge"
     THEN IF e \in Control[node] THEN MergeControl(e)
          ELSE IF is_dead THEN MergeDead(e) ELSE MergeLive(e)
     ELSE AdjustForActivation(is_dead)
  /\ UNCHANGED <<node, is_large, pc>>

(* Process starts the node, and with logging marks it, ... *)
MarkStarted ==
  /\ pc = "waits" /\ activations # <<>>
  /\ pc' = "started"
  /\ has_started' = Vlog
  /\ UNCHANGED <<node, live, dead, activations, is_large, pending, dead_count>>

(* ... and again when it is done. *)
MarkCompleted ==
  /\ pc = "started"
  /\ pc' = "completed"
  /\ pending' = IF Vlog THEN 1 ELSE pending
  /\ UNCHANGED <<node, live, dead, activations, is_large, dead_count, has_started>>

Next ==
  \/ \E e \in Edges(node), is_dead \in BOOLEAN : ActivateNodes(e, is_dead)
  \/ MarkStarted
  \/ MarkCompleted

Spec == Init /\ [][Next]_vars

--------------------------------------------------------------------------------
(* Types; and a node is given packed counts only if all its counts fit. *)
TypeOK ==
  /\ node \in Nodes
  /\ live \subseteq Edges(node) /\ dead \subseteq Edges(node)
  /\ InitialCount(node) < Modulus /\ Cardinality(Edges(node)) < Modulus
  /\ is_large \in BOOLEAN /\ has_started \in BOOLEAN
  /\ pending \in 0 .. Modulus - 1 /\ dead_count \in 0 .. Modulus - 1
  /\ activations \in Seq(BOOLEAN)
  /\ pc \in {"waits", "started", "completed"}

Missing == Edges(node) \ (live \cup dead)

(* Until the node is activated the fields, packed or not, hold the numbers   *)
(* they stand for: the missing inputs or, of a Merge, twice the missing      *)
(* control inputs plus one while no live input has come; and the dead        *)
(* inputs.  Afterwards PendingOf never makes a late input start it again.    *)
CountsExact ==
  IF activations = <<>>
  THEN IF Kind[node] = "merge"
       THEN /\ pending = 2 * Cardinality(Control[node] \cap Missing)
                         + (IF live \cap Data[node] = {} THEN 1 ELSE 0)
            /\ dead_count = Cardinality(dead \cap Data[node])
       ELSE /\ pending = Cardinality(Missing)
            /\ dead_count = Cardinality(dead)
  ELSE Missing # {} => PendingOf = 0 \/ dead \cap Enters[node] # {}

(* A Merge with an Enter for input has no control inputs. *)
LoopMergesUncontrolled == \A n \in Nodes : Enters[n] # {} => Control[n] = {}

(* The counts decide what the sets of inputs decide: PendingCounts and       *)
(* ActivateNodes implement NodeActivation.                                   *)
ImplementsActivation == NA!AbstractSpec
================================================================================
