----------------------------- MODULE MCFIFOQueue -----------------------------
(***************************************************************************)
(* FIFOQueue for TLC: capacity 1, so that every batch waits half-filled.   *)
(* The enqueue brings no or two elements, the dequeue asks for two or      *)
(* three (which it cannot get), with or without allow_small_batch; the     *)
(* Close cancels the pending enqueues or waits for them.  Enqueue and      *)
(* dequeue are of different steps, one of which may be cancelled, or both  *)
(* of the step that may be.                                                *)
(***************************************************************************)
EXTENDS FIFOQueue

CONSTANTS e, d, c, m1, m2

Arguments(enq, deq, cancelled, small) ==
  [size : {[a \in {e, d} |-> IF a = e THEN enq ELSE deq]},
   manager : {[a \in {e, d} |-> IF a \in cancelled THEN m1 ELSE m2]},
   small : {small}, cancel_pending : SUBSET {c}]

MCArgs == UNION {Arguments(0, 2, {d}, {}), Arguments(2, 3, {d}, {}), Arguments(2, 2, {e}, {d}),
                 Arguments(2, 2, {e, d}, {})}

(* No thread is inside a call that can go on: what is left is calls that     *)
(* nobody makes, and those that a StartCancel keeps waiting for ever.        *)
Quiescent ==
  \A t \in Threads : \/ pc[t] \in {"start", "over"}
                     \/ pc[t] = "wait" /\ \E m \in Cancelled : WaitsForItself(m)

MCNext == Next \/ (Quiescent /\ UNCHANGED vars)

MCSpec == Init /\ [][MCNext]_vars /\ Fairness
==============================================================================
