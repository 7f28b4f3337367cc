-------------------------- MODULE MCLocalRendezvous ---------------------------
(* LocalRendezvous for TLC: every operation meets on one key, where the      *)
(* queue gets long enough for a waiter in its middle to be cancelled.  Keys  *)
(* share nothing but mu_, the abort and the cancellation.                    *)
EXTENDS LocalRendezvous

CONSTANT k1

MCKeyOf == [x \in Sends \cup Recvs |-> k1]

(* No thread is inside a call: what is left is calls that nobody makes. *)
Quiescent ==
  /\ \A s \in Sends : send_pc[s] # "notify"
  /\ \A r \in Recvs : recv_pc[r] \in {"start", "returned"}
  /\ \A a \in Aborters : abort_pc[a] # "calling"
  /\ \A t \in Cancellers : cancel_pc[t] \in {"idle", "returned"}

MCNext == Next \/ (Quiescent /\ UNCHANGED vars)

MCSpec == Init /\ [][MCNext]_vars /\ Fairness
================================================================================
