--------------------------- MODULE MCExecutorNested ----------------------------
(***************************************************************************)
(* ExecutorFrames on a loop inside the body of a loop: while_loop(i < n,   *)
(* while_loop(j < m, f(j, c), ...)).  Two iterations of the outer loop may *)
(* run at once, each with an inner frame of its own, and the loop          *)
(* invariant c enters both loops.                                          *)
(***************************************************************************)
EXTENDS ExecutorMeaning

CONSTANTS
  MaxTrips,   \* bound: trips of the outer loop plus trips of the inner loop
  Parallel

Outer == {"merge_i", "switch_i", "next_i", "step", "exit_i", "enter_j", "inv_j"}
Inner == {"merge_j", "switch_j", "f", "next_j", "exit_j"}
MCNodes == Outer \cup Inner \cup {"c", "enter_i", "inv_i", "z"}

MCKind == [n \in MCNodes |->
  CASE n \in {"switch_i", "switch_j"} -> "switch"
    [] n \in {"enter_i", "enter_j"} -> "enter"
    [] n \in {"inv_i", "inv_j"} -> "const_enter"
    [] n \in {"merge_i", "merge_j"} -> "merge"
    [] n \in {"next_i", "next_j"} -> "next_iter"
    [] n \in {"exit_i", "exit_j"} -> "exit"
    [] OTHER -> "op"]

Data(src, slot, dst, input) == [src |-> src, slot |-> slot, dst |-> dst, input |-> input]

MCEdges ==
  <<Data("c", 0, "enter_i", 0), Data("c", 0, "inv_i", 0),
    Data("enter_i", 0, "merge_i", 0), Data("next_i", 0, "merge_i", 1),
    Data("merge_i", 0, "switch_i", 0),
    Data("switch_i", 1, "next_i", 0), Data("switch_i", 0, "exit_i", 0),
    Data("switch_i", 1, "enter_j", 0), Data("inv_i", 0, "inv_j", 0),
    Data("enter_j", 0, "merge_j", 0), Data("next_j", 0, "merge_j", 1),
    Data("merge_j", 0, "switch_j", 0),
    Data("switch_j", 1, "f", 0), Data("inv_j", 0, "f", 1), Data("f", 0, "next_j", 0),
    Data("switch_j", 0, "exit_j", 0), Data("exit_j", 0, "step", 0), Data("exit_i", 0, "z", 0)>>

MCFrameName ==
  [n \in MCNodes |-> IF n \in Outer THEN "outer" ELSE IF n \in Inner THEN "inner" ELSE RootName]
MCChildName ==
  [n \in {"enter_i", "inv_i", "enter_j", "inv_j"} |->
     IF n \in {"enter_i", "inv_i"} THEN "outer" ELSE "inner"]
MCMaxParallel == [name \in {"outer", "inner"} |-> IF name = "outer" THEN Parallel ELSE 1]

MCPredicates ==
  {[n \in {"switch_i", "switch_j"} |->
      IF n = "switch_i" THEN 0 .. trips[1] - 1 ELSE 0 .. trips[2] - 1] :
     trips \in {ij \in (0 .. MaxTrips) \X (0 .. MaxTrips) : ij[1] + ij[2] <= MaxTrips}}

(* The step is over. *)
MCNext == FramesNext \/ (procs = {} /\ UNCHANGED frames_vars)
MCSpec == FramesInit /\ [][MCNext]_frames_vars /\ FramesFairness
================================================================================
