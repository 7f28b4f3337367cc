------------------------- MODULE MCSharedBatchScheduler -------------------------
(* Up to two batches of size 2 in q1, with tasks of sizes 1 and 2 and one too     *)
(* large for it; a client who only opens and closes q2.                           *)
EXTENDS SharedBatchScheduler

CONSTANTS q1, q2, small1, small2, small3, full, big

TaskQueue(k) == q1
TaskSize(k) == CASE k = full -> 2 [] k = big -> 4 [] OTHER -> 1

(* The tasks of size 1 differ in nothing but their names: they come in order.     *)
(* The refusal of the one that is too large touches nothing else: it comes first. *)
Alike == <<small1, small2, small3>>

InOrder ==
  /\ \A i, j \in DOMAIN Alike : i < j /\ task[Alike[i]] = "new" => task[Alike[j]] = "new"
  /\ task[big] = "new" => \A k \in Tasks : task[k] = "new"

(* The bound: q2 is opened only beside at most one task of size 1. *)
OneBesideQ2 == handle[q2] # "none" => task[small2] = "new"

(* What was promised is forgotten when the client asks again, so that whoever can *)
(* be disappointed can be so with an answer asked for when none was at hand.      *)
AsksWithoutAnswer == promised[q1] > 0 => promised'[q1] <= promised[q1]

MCNext == Next /\ InOrder' /\ OneBesideQ2' /\ AsksWithoutAnswer

MCSpec == Init /\ [][MCNext]_vars /\ Fairness
=================================================================================
