---------------------------- MODULE MCExecutorState ----------------------------
(* ExecutorState for TLC. *)
EXTENDS ExecutorState

(* The step is over, and so is a cancellation somebody else has begun. *)
Done == done_calls = 1 /\ user_cancel_pc # "cancelling"

MCNext == Next \/ (Done /\ UNCHANGED vars)

MCSpec == Init /\ [][MCNext]_vars /\ Fairness
================================================================================
