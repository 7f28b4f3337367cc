------------------------- MODULE MCCancellationClients -------------------------
(* CancellationClients with two StartCancel callers and three clients. Clients*)
(* and cancellers are interchangeable, but liveness is checked, so no         *)
(* symmetry is declared.                                                      *)
EXTENDS CancellationClients

(* The operations are over: every client has ended and every StartCancel     *)
(* has returned; the system legitimately stops.                              *)
Done ==
  /\ \A c \in Clients : client_pc[c] \in {"freed", "left"}
  /\ \A t \in Cancellers : cancel_pc[t] = "returned"

MCNext == Next \/ (Done /\ UNCHANGED vars)

MCSpec == Init /\ [][MCNext]_vars /\ Fairness
================================================================================
