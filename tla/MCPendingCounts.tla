---------------------------- MODULE MCPendingCounts ----------------------------
(***************************************************************************)
(* PendingCounts for TLC: nodes on both sides of the limit of PackedCounts *)
(* in either count, a loop's Merge, a ControlTrigger.  Edges are numbers.  *)
(***************************************************************************)
EXTENDS PendingCounts

Shape(kind, data, control, enters) ==
  [kind |-> kind, data |-> data, control |-> control, enters |-> enters]

Shapes ==
  [plain7  |-> Shape("plain", 1 .. 5, 6 .. 7, {}),
   plain8  |-> Shape("plain", 1 .. 5, 6 .. 8, {}),
   merge7  |-> Shape("merge", 1 .. 3, 4 .. 6, {}),
   merge9  |-> Shape("merge", 1 .. 3, 4 .. 7, {}),
   loop    |-> Shape("merge", 1 .. 2, {}, {1}),
   trigger |-> Shape("control_trigger", {}, 1 .. 3, {})]

MCKind == [n \in Nodes |-> Shapes[n].kind]
MCData == [n \in Nodes |-> Shapes[n].data]
MCControl == [n \in Nodes |-> Shapes[n].control]
MCEnters == [n \in Nodes |-> Shapes[n].enters]

(* Every input has come and the node is done. *)
Over == Missing = {} /\ pc = "completed"

(* The loop is not entered. *)
NotEntered == dead \cap Enters[node] # {} /\ pc = "completed"

MCNext == Next \/ ((Over \/ NotEntered) /\ UNCHANGED vars)

MCSpec == Init /\ [][MCNext]_vars
================================================================================
