---------------------------- MODULE MCExecutorLoop -----------------------------
(***************************************************************************)
(* ExecutorFrames on                                                       *)
(*                                                                         *)
(*   y, x = cond(p, lambda: while_loop(i < n, (i + 1, f(x, c))), ...)      *)
(*                                                                         *)
(* The loop has two variables and a loop invariant c, so that the counter  *)
(* i may run ahead of x, up to Parallel iterations; it stands on one       *)
(* branch of a conditional, so that its Enters are dead when the other     *)
(* branch is taken.                                                        *)
(***************************************************************************)
EXTENDS ExecutorMeaning

CONSTANTS MaxTrips, Parallel

Loop == {"merge_i", "merge_x", "cond", "switch_i", "switch_x", "f", "next_i", "next_x",
         "exit_i", "exit_x"}
MCNodes == Loop \cup {"p", "switch", "c", "enter_i", "enter_x", "inv", "y", "join", "z"}

MCKind == [n \in MCNodes |->
  CASE n \in {"switch", "switch_i", "switch_x"} -> "switch"
    [] n \in {"enter_i", "enter_x"} -> "enter"
    [] n = "inv" -> "const_enter"
    [] n \in {"merge_i", "merge_x", "join"} -> "merge"
    [] n \in {"next_i", "next_x"} -> "next_iter"
    [] n \in {"exit_i", "exit_x"} -> "exit"
    [] n = "z" -> "control_trigger"
    [] OTHER -> "op"]

Data(src, slot, dst, input) == [src |-> src, slot |-> slot, dst |-> dst, input |-> input]
Control(src, dst) == Data(src, kControlSlot, dst, kControlSlot)

MCEdges ==
  <<Data("p", 0, "switch", 0), Data("switch", 1, "enter_i", 0), Data("switch", 1, "enter_x", 0),
    Data("switch", 1, "c", 0), Data("c", 0, "inv", 0), Data("switch", 0, "join", 0),
    Data("enter_i", 0, "merge_i", 0), Data("next_i", 0, "merge_i", 1),
    Data("enter_x", 0, "merge_x", 0), Data("next_x", 0, "merge_x", 1),
    Data("merge_i", 0, "cond", 0),
    Data("merge_i", 0, "switch_i", 0), Data("cond", 0, "switch_i", 1),
    Data("merge_x", 0, "switch_x", 0), Data("cond", 0, "switch_x", 1),
    Data("switch_i", 1, "next_i", 0), Data("switch_i", 0, "exit_i", 0),
    Data("switch_x", 1, "f", 0), Data("inv", 0, "f", 1), Data("f", 0, "next_x", 0),
    Data("switch_x", 0, "exit_x", 0), Data("exit_x", 0, "join", 1),
    Data("exit_i", 0, "y", 0), Control("c", "join"), Control("y", "z"), Control("join", "z")>>

MCFrameName == [n \in MCNodes |-> IF n \in Loop THEN "loop" ELSE RootName]
MCChildName == [n \in {"enter_i", "enter_x", "inv"} |-> "loop"]
MCMaxParallel == [name \in {"loop"} |-> Parallel]

MCPredicates ==
  {[n \in {"switch", "switch_i", "switch_x"} |->
      IF n = "switch" THEN branch ELSE 0 .. trips - 1] :
     branch \in {{}, {0}}, trips \in 0 .. MaxTrips}

(* The step is over. *)
MCNext == FramesNext \/ (procs = {} /\ UNCHANGED frames_vars)
MCSpec == FramesInit /\ [][MCNext]_frames_vars /\ FramesFairness
================================================================================
