---------------------------- MODULE ExecutorMeaning ----------------------------
(***************************************************************************)
(* What a graph with Switch, Merge, Enter, Exit and NextIteration nodes    *)
(* means, by recursion over its nodes and iterations, and that this is     *)
(* what the executor of ExecutorFrames runs.                               *)
(***************************************************************************)
EXTENDS ExecutorFrames, FiniteSetsExt

(* What the graph means, without counts, frames to collect or threads: node  *)
(* n of iteration i of frame f is "live", "dead", or "absent" (never runs).  *)
MaxIter == Max({0} \cup UNION {taken[n] : n \in DOMAIN taken}) + 1

RECURSIVE Meaning(_, _, _)

(* The token that edge e brings to its destination there. *)
Token(e, f, i) ==
  LET n == e.src
      child == Child(f, i, FrameName[n])
  IN  CASE Kind[n] = "next_iter" ->
             IF i > 0 /\ Meaning(n, f, i - 1) = "live" THEN "live" ELSE "absent"
        [] Kind[n] = "enter" ->
             IF i = 0 THEN Meaning(n, ParentFrame(f), ParentIter(f)) ELSE "absent"
        [] Kind[n] = "const_enter" -> Meaning(n, ParentFrame(f), ParentIter(f))
        [] Kind[n] = "exit" ->
             IF \E j \in 0 .. MaxIter : Meaning(n, child, j) = "live" THEN "live" ELSE "dead"
        [] Kind[n] = "switch" /\ ~IsControlEdge(e) ->
             IF Meaning(n, f, i) = "live" /\ (e.slot = 1) # (i \in taken[n])
             THEN "dead" ELSE Meaning(n, f, i)
        [] OTHER -> Meaning(n, f, i)

Meaning(n, f, i) ==
  LET Tokens(S) == {Token(e, f, i) : e \in S}
      all == Tokens(InEdges(n))
      data == Tokens({e \in InEdges(n) : ~IsControlEdge(e)})
      control == Tokens({e \in InEdges(n) : IsControlEdge(e)})
      dead_enter == \E e \in InEdges(n) : IsEnter(e.src) /\ Token(e, f, i) = "dead"
  IN  CASE Kind[n] = "merge" ->
             IF "absent" \in control THEN "absent"
             ELSE IF "live" \in data THEN "live"
             ELSE IF data = {"dead"} \/ dead_enter THEN "dead" ELSE "absent"
        [] Kind[n] # "merge" ->
             IF "absent" \in all THEN "absent"
             ELSE IF "dead" \in all /\ Kind[n] # "control_trigger" THEN "dead" ELSE "live"

(* Iteration i of frame f is begun. *)
Begun(f, i) ==
  i = 0 \/ \E n \in Nodes : /\ Kind[n] = "next_iter" /\ FrameName[n] = NameOf(f)
                            /\ Meaning(n, f, i - 1) = "live"

(* The tagged nodes of frame f and of the frames inside it. *)
RECURSIVE MeantToRun(_)
MeantToRun(f) ==
  LET here == {<<n, i>> \in Nodes \X (0 .. MaxIter) : FrameName[n] = NameOf(f) /\ Begun(f, i)
                                                     /\ Meaning(n, f, i) # "absent"}
      inside == {Child(f, ni[2], ChildName[ni[1]]) : ni \in {x \in here : IsEnter(x[1])}}
  IN  {TaggedNode(ni[1], f, ni[2], Meaning(ni[1], f, ni[2]) = "dead") : ni \in here}
        \cup UNION {MeantToRun(g) : g \in inside}

--------------------------------------------------------------------------------
(* When nothing is left to do, exactly the nodes have run that the graph     *)
(* means to run, live or dead as it says, in whatever order the threads took *)
(* them, and every frame has been collected.                                 *)
RunsTheGraph == procs = {} => executed = MeantToRun(Root) /\ DOMAIN frames = {}
================================================================================
