-------------------------- MODULE MCRemoteRendezvous ---------------------------
(* RemoteRendezvous for TLC: two steps, of which the second shares nothing   *)
(* with the first but the free list of calls.                                *)
EXTENDS RemoteRendezvous

CONSTANTS s1, s2, r3

MCStepOf == [x \in Recvs \cup Aborters |-> IF x = r3 THEN s2 ELSE s1]

(* No thread is inside a call; what is left is calls nobody makes. *)
Quiescent ==
  /\ \A r \in Recvs : pc[r] \in {"start", "deferred", "rpc", "waiting", "answered"}
  /\ \A a \in Aborters : abort_pc[a] # "local"
  /\ \A s \in Steps : cm[s] # "cancelling"
  /\ \A k \in Locals \cup SameWorker : sent[k] # "checked"

MCNext == Next \/ (Quiescent /\ UNCHANGED vars)

MCSpec == Init /\ [][MCNext]_vars
MCFairSpec == MCSpec /\ Fairness
================================================================================
