---------------------------- MODULE ExecutorFrames -----------------------------
(***************************************************************************)
(* How the executor (common_runtime/executor.cc, pending_counts.h) decides *)
(* what runs next: PropagateOutputs over a graph with Switch, Merge, Enter,*)
(* Exit and NextIteration nodes, the frames and iterations it creates and  *)
(* collects on the way, and the deadness that stops an untaken branch.     *)
(*                                                                         *)
(* Tensors are abstracted to Entry::has_value.  A step of the model is one *)
(* critical section of a frame's mu or of the executor's mu_; a node runs  *)
(* (Compute) and its first critical section follow in one step, and so do  *)
(* its last one and NodeDone, for what lies between them is local.         *)
(***************************************************************************)
EXTENDS Integers, Sequences, FiniteSets

CONSTANTS
  Nodes,
  Kind,         \* Kind[n]: "op", "switch", "merge", "enter", "const_enter", "exit",
                \*          "next_iter" or "control_trigger"
  Edges,        \* the list of the edges, records [src, slot, dst, input]; slot and
                \* input are kControlSlot for a control edge
  FrameName,    \* FrameName[n]: the static frame that node n runs in
  ChildName,    \* ChildName[n]: the attr frame_name of Enter node n
  MaxParallel,  \* MaxParallel[name]: the attr parallel_iterations of a frame
  Predicates    \* what the Switches may be told: functions from a Switch to the
                \* iterations in which its predicate is true

kControlSlot == -1
RootName == "root"
Null == [iter |-> -1]      \* a null IterationState*

IsEnter(n) == Kind[n] \in {"enter", "const_enter"}
EdgeSet == {Edges[k] : k \in DOMAIN Edges}
InEdges(n) == {e \in EdgeSet : e.dst = n}

(* What BuildControlFlowInfo and the front end's while_loop establish: the   *)
(* nodes without inputs are outside every loop, and an Exit or NextIteration *)
(* is within one; a loop allows one iteration at least; an Enter leads into  *)
(* its child frame, an Exit back to the frame of the Enters, and no other    *)
(* edge leaves a frame; only a Switch has a second output.                   *)
ASSUME GraphAssumption ==
  /\ IsFiniteSet(Nodes)
  /\ Edges \in Seq([src : Nodes, slot : {kControlSlot, 0, 1}, dst : Nodes, input : Int])
  /\ \A n \in Nodes : InEdges(n) = {} => FrameName[n] = RootName
  /\ \A n \in Nodes : Kind[n] \in {"exit", "next_iter"} => FrameName[n] # RootName
  /\ \A n \in Nodes : IsEnter(n) =>
       ChildName[n] # RootName /\ MaxParallel[ChildName[n]] \in Nat \ {0}
  /\ \A e \in EdgeSet :
       /\ e.slot = 1 => Kind[e.src] = "switch"
       /\ IsEnter(e.src) => FrameName[e.dst] = ChildName[e.src]
       /\ Kind[e.src] = "exit" =>
            \A n \in Nodes : IsEnter(n) /\ ChildName[n] = FrameName[e.src] => FrameName[e.dst] = FrameName[n]
       /\ ~IsEnter(e.src) /\ Kind[e.src] # "exit" => FrameName[e.dst] = FrameName[e.src]

VARIABLES
  taken,     \* the predicates of this step
  frames,    \* outstanding_frames_: frame -> FrameState
  procs,     \* the nodes that are ready or being processed
  executed   \* history: the tagged nodes that have run

frames_vars == <<taken, frames, procs, executed>>

--------------------------------------------------------------------------------
(* A frame instance is named by the path of <<frame name, parent iteration>> *)
(* pairs that leads to it (MakeFrameName).                                   *)
Root == <<>>
Child(f, i, name) == Append(f, <<name, i>>)
NameOf(f) == IF f = Root THEN RootName ELSE f[Len(f)][1]
ParentFrame(f) == SubSeq(f, 1, Len(f) - 1)
ParentIter(f) == f[Len(f)][2]

IsControlEdge(e) == e.slot = kControlSlot
NumInputs(n) == Cardinality({e \in InEdges(n) : ~IsControlEdge(e)})

(* GetMaxPendingCounts: bit 0 of a Merge's count says it waits for a live    *)
(* data input.                                                               *)
InitialPending(n) ==
  IF Kind[n] = "merge"
  THEN 1 + 2 * Cardinality({e \in InEdges(n) : IsControlEdge(e)})
  ELSE Cardinality(InEdges(n))

InputCount(name) == Cardinality({n \in Nodes : IsEnter(n) /\ ChildName[n] = name})

NewIteration(name, i) ==
  LET nodes == {n \in Nodes : FrameName[n] = name} IN
  [iter |-> i,                   \* history: which iteration this is the state of
   pending |-> [n \in nodes |-> InitialPending(n)],
   dead_count |-> [n \in nodes |-> 0],
   outstanding_ops |-> 0,
   outstanding_frame_count |-> 0]

(* Fault: the circular buffer has no spare slot. *)
NewFrameNoSpareSlot(name) ==
  LET size == IF name = RootName THEN 1 ELSE MaxParallel[name] IN
  [num_pending_inputs |-> IF name = RootName THEN 0 ELSE InputCount(name),
   iteration_count |-> 0,
   num_outstanding_iterations |-> 1,
   iterations |-> [j \in 0 .. size - 1 |-> IF j = 0 THEN NewIteration(name, 0) ELSE Null],
   next_iter_roots |-> <<>>,
   inv_values |-> <<>>,
   dead_exits |-> <<>>]

(* `iterations' is a circular buffer with one slot more than may be in use. *)
NewFrame(name) ==
  LET size == IF name = RootName THEN 1 ELSE MaxParallel[name] + 1 IN
  [num_pending_inputs |-> IF name = RootName THEN 0 ELSE InputCount(name),
   iteration_count |-> 0,
   num_outstanding_iterations |-> 1,
   iterations |-> [j \in 0 .. size - 1 |-> IF j = 0 THEN NewIteration(name, 0) ELSE Null],
   next_iter_roots |-> <<>>,
   inv_values |-> <<>>,
   dead_exits |-> <<>>]

Slot(fr, i) == i % Cardinality(DOMAIN fr.iterations)
GetIteration(fr, i) == fr.iterations[Slot(fr, i)]
SetIteration(fr, i, state) == [fr EXCEPT !.iterations[Slot(fr, i)] = state]
AddToFrameCount(fr, i, k) ==
  SetIteration(fr, i, [GetIteration(fr, i) EXCEPT !.outstanding_frame_count = @ + k])

TaggedNode(n, f, i, dead) == [node |-> n, frame |-> f, iter |-> i, dead |-> dead]
Entry(n, has_value) == [node |-> n, has_value |-> has_value]

--------------------------------------------------------------------------------
(* The effect of one output edge on the pending and dead counts of its       *)
(* destination, and whether that is now ready and dead.  (Both counts are    *)
(* left alone by PendingCounts once the node is ready.)                      *)
Arrival(pending, dead_count, ready, dead) ==
  [pending |-> pending, dead_count |-> dead_count, ready |-> ready, dead |-> dead]

ActivateMergeControl(d, pending, dead_count) ==
  LET all_dead == dead_count = NumInputs(d) IN
  Arrival(pending - 2, dead_count, pending = 2 \/ (pending = 3 /\ all_dead), all_dead)

(* Fault: a Merge starts on its first live input, whatever it still waits for. *)
ActivateMergeLiveAtOnce(d, pending, dead_count) ==
  Arrival(pending - (pending % 2), dead_count, pending % 2 = 1, FALSE)

(* mark_live clears bit 0; only the first live input can start the node. *)
ActivateMergeLive(d, pending, dead_count) ==
  Arrival(pending - (pending % 2), dead_count, pending = 1, FALSE)

ActivateMergeDead(d, pending, dead_count, from_enter) ==
  LET count == IF pending = 0 THEN dead_count ELSE dead_count + 1
      dead == count = NumInputs(d) \/ from_enter
  IN  Arrival(pending, count, pending = 1 /\ dead, dead)

AdjustForActivation(d, pending, dead_count, increment_dead) ==
  LET count == IF increment_dead /\ pending # 0 THEN dead_count + 1 ELSE dead_count IN
  Arrival(pending - 1, count, pending = 1, count > 0)

ActivateEdge(e, it, is_dead, outputs) ==
  LET d == e.dst
      pending == it.pending[d]
      dead_count == it.dead_count[d]
      live == ~IsControlEdge(e) /\ outputs[e.slot]
  IN  IF Kind[d] # "merge"
      THEN AdjustForActivation(d, pending, dead_count, is_dead \/ (~IsControlEdge(e) /\ ~live))
      ELSE IF IsControlEdge(e) THEN ActivateMergeControl(d, pending, dead_count)
      ELSE IF live THEN ActivateMergeLive(d, pending, dead_count)
      ELSE ActivateMergeDead(d, pending, dead_count, IsEnter(e.src))

(* The functions below take and return the state fr of a frame together with *)
(* the list `ready' they add to; is_done is what they tell their caller of   *)
(* the frame.                                                                *)
Acc(fr, ready) == [fr |-> fr, ready |-> ready, is_done |-> FALSE]

(* The state of an iteration after arrival a at node d. *)
WithArrival(it, d, a) ==
  [it EXCEPT !.pending[d] = a.pending, !.dead_count[d] = a.dead_count,
             !.outstanding_ops = IF a.ready THEN @ + 1 ELSE @]

(* Edge e has brought its token to iteration i of frame f. *)
Arrived(acc, f, i, e, a) ==
  [acc EXCEPT
     !.fr = SetIteration(@, i, WithArrival(GetIteration(@, i), e.dst, a)),
     !.ready = IF a.ready
               THEN @ \cup {TaggedNode(e.dst, f, i, a.dead /\ Kind[e.dst] # "control_trigger")}
               ELSE @]

ActivateOne(acc, f, i, e, is_dead, outputs) ==
  Arrived(acc, f, i, e, ActivateEdge(e, GetIteration(acc.fr, i), is_dead, outputs))

(* FrameState::ActivateNodes: node n delivers `outputs' to iteration i. *)
ActivateNodes(acc, f, n, is_dead, i, outputs) ==
  LET X[k \in 0 .. Len(Edges)] ==
        IF k = 0 THEN acc
        ELSE IF Edges[k].src # n THEN X[k-1]
        ELSE ActivateOne(X[k-1], f, i, Edges[k], is_dead, outputs)
  IN  X[Len(Edges)]

(* The entries of the list S are delivered to iteration i (ActivateNexts,    *)
(* ActivateLoopInvs).                                                        *)
ActivateEntry(acc, f, i, x) ==
  ActivateNodes(acc, f, x.node, ~x.has_value, i, [s \in {0} |-> x.has_value])

ActivateEntries(acc, f, i, S) ==
  LET X[k \in 0 .. Len(S)] == IF k = 0 THEN acc ELSE ActivateEntry(X[k-1], f, i, S[k])
  IN  X[Len(S)]

(* FrameState::AddLoopInv: a loop invariant is delivered to all iterations. *)
AddLoopInv(acc, f, n, has_value) ==
  LET count == acc.fr.iteration_count
      X[k \in 0 .. count + 1] ==
        IF k = 0 THEN [acc EXCEPT !.fr.inv_values = Append(@, Entry(n, has_value))]
        ELSE ActivateEntry(X[k-1], f, k - 1, Entry(n, has_value))
  IN  X[count + 1]

(* FrameState::IncrementIteration *)
BeginIteration(fr, f, next) ==
  [SetIteration(fr, next, NewIteration(NameOf(f), next)) EXCEPT
     !.iteration_count = next,
     !.num_outstanding_iterations = @ + 1,
     !.next_iter_roots = <<>>,
     !.dead_exits = <<>>]

IncrementIteration(acc, f) ==
  LET next == acc.fr.iteration_count + 1 IN
  ActivateEntries(
    ActivateEntries([acc EXCEPT !.fr = BeginIteration(@, f, next)], f, next, acc.fr.next_iter_roots),
    f, next, acc.fr.inv_values)

(* Fault: the frames that an iteration has started are not waited for. *)
IsIterationDoneIgnoresFrames(fr, i) ==
  /\ GetIteration(fr, i).outstanding_ops = 0
  /\ IF i = 0 THEN fr.num_pending_inputs = 0 ELSE GetIteration(fr, i - 1) = Null

(* FrameState::IsIterationDone *)
IsIterationDone(fr, i) ==
  /\ GetIteration(fr, i).outstanding_ops = 0
  /\ GetIteration(fr, i).outstanding_frame_count = 0
  /\ IF i = 0 THEN fr.num_pending_inputs = 0 ELSE GetIteration(fr, i - 1) = Null

IsFrameDone(fr) == fr.num_pending_inputs = 0 /\ fr.num_outstanding_iterations = 0

(* FrameState::CleanupIterations: iterations from i on that are done are     *)
(* deleted, and each of them lets a deferred one begin.                      *)
DeleteIteration(fr, i) ==
  [SetIteration(fr, i, Null) EXCEPT !.num_outstanding_iterations = @ - 1]

StartDeferred(acc, f) == IF acc.fr.next_iter_roots = <<>> THEN acc ELSE IncrementIteration(acc, f)

CleanupOne(x, f) ==
  IF x.i <= x.acc.fr.iteration_count /\ IsIterationDone(x.acc.fr, x.i)
  THEN [acc |-> StartDeferred([x.acc EXCEPT !.fr = DeleteIteration(@, x.i)], f), i |-> x.i + 1]
  ELSE x

(* One more iteration at most begins on the way: there is one list of roots. *)
CleanupIterations(acc, f, i) ==
  LET rounds == acc.fr.iteration_count + 2
      X[k \in 0 .. rounds] == IF k = 0 THEN [acc |-> acc, i |-> i] ELSE CleanupOne(X[k-1], f)
      last == X[rounds].acc
  IN  [last EXCEPT !.is_done = IsFrameDone(last.fr)]

(* FrameState::DecrementOutstandingOpsLocked *)
CleanupIfIdle(acc, f, i) ==
  IF GetIteration(acc.fr, i).outstanding_ops # 0 THEN acc ELSE CleanupIterations(acc, f, i)

CountDown(it) == [it EXCEPT !.outstanding_ops = @ - 1]

DecrementOutstandingOps(acc, f, i) ==
  CleanupIfIdle([acc EXCEPT !.fr = SetIteration(@, i, CountDown(GetIteration(@, i)))], f, i)

--------------------------------------------------------------------------------
(* Threads.  A node that is ready is a proc at "process"; the other values   *)
(* of pc are the places in PropagateOutputs where a lock is to be taken.     *)
Proc(tn) == [tn |-> tn, pc |-> "process", ready |-> {}, at |-> tn.frame, at_iter |-> tn.iter]

Continue(p, q) == procs' = (procs \ {p}) \cup {q}

(* NodeDone, ScheduleReady. *)
NodeDone(p, ready) == procs' = (procs \ {p}) \cup {Proc(tn) : tn \in ready}

(* The end of PropagateOutputs: a frame that is done is deleted. *)
FinishSection(p, f, acc) ==
  /\ frames' = [frames EXCEPT ![f] = acc.fr]
  /\ IF acc.is_done
     THEN Continue(p, [p EXCEPT !.pc = "delete", !.ready = acc.ready, !.at = f])
     ELSE NodeDone(p, acc.ready)

(* The end of a critical section after which the thread has others to take. *)
LeaveSection(p, f, acc, next_pc) ==
  /\ frames' = [frames EXCEPT ![f] = acc.fr]
  /\ Continue(p, [p EXCEPT !.pc = next_pc, !.ready = acc.ready])

Execute(p) == executed' = executed \cup {p.tn}

(* The has_value of the outputs of a node: a dead node has none, a Switch    *)
(* feeds one side.                                                           *)
Outputs(tn) ==
  [s \in {0, 1} |->
     ~tn.dead /\ (Kind[tn.node] = "switch" => (s = 1) = (tn.iter \in taken[tn.node]))]

(* A node that is neither Enter nor Exit nor NextIteration. *)
PropagateNormal(p) ==
  LET tn == p.tn
      a == ActivateNodes(Acc(frames[tn.frame], {}), tn.frame, tn.node, tn.dead, tn.iter, Outputs(tn))
  IN  /\ p.pc = "process"
      /\ ~IsEnter(tn.node) /\ Kind[tn.node] \notin {"exit", "next_iter"}
      /\ FinishSection(p, tn.frame, DecrementOutstandingOps(a, tn.frame, tn.iter))
      /\ Execute(p)
      /\ UNCHANGED taken

(* Enter.  FindOrCreateChildFrame looks for the frame, ... *)
FindChildFrame(p) ==
  LET child == Child(p.tn.frame, p.tn.iter, ChildName[p.tn.node]) IN
  /\ p.pc = "process"
  /\ IsEnter(p.tn.node)
  /\ Continue(p, [p EXCEPT !.pc = IF child \in DOMAIN frames THEN "enter" ELSE "create"])
  /\ Execute(p)
  /\ UNCHANGED <<taken, frames>>

(* Fault: the new frame is not entered into outstanding_frames_. *)
CreateChildFrameLosesIt(p) ==
  /\ p.pc = "create"
  /\ Continue(p, [p EXCEPT !.pc = "process"])
  /\ UNCHANGED <<taken, frames, executed>>

(* ... and, when it has built one without holding a lock, looks again. *)
CreateChildFrame(p) ==
  LET f == p.tn.frame
      child == Child(f, p.tn.iter, ChildName[p.tn.node])
  IN  /\ p.pc = "create"
      /\ frames' = IF child \in DOMAIN frames THEN frames
                   ELSE [g \in DOMAIN frames \cup {child} |->
                           IF g = child THEN NewFrame(ChildName[p.tn.node])
                           ELSE IF g = f
                           THEN AddToFrameCount(frames[f], p.tn.iter, 1)
                           ELSE frames[g]]
      /\ Continue(p, [p EXCEPT !.pc = "enter"])
      /\ UNCHANGED <<taken, executed>>

EnterChildFrame(p) ==
  LET tn == p.tn
      child == Child(tn.frame, tn.iter, ChildName[tn.node])
      acc == Acc([frames[child] EXCEPT !.num_pending_inputs = @ - 1], {})
  IN  /\ p.pc = "enter"
      /\ LeaveSection(p, child,
                      IF Kind[tn.node] = "const_enter"
                      THEN AddLoopInv(acc, child, tn.node, ~tn.dead)
                      ELSE ActivateNodes(acc, child, tn.node, tn.dead, 0, Outputs(tn)),
                      "decrement")
      /\ UNCHANGED <<taken, executed>>

(* Exit: a dead one is only remembered, if it is of the last iteration; a    *)
(* live one delivers to the parent frame.                                    *)
PropagateDeadExit(p) ==
  LET tn == p.tn
      fr == frames[tn.frame]
      new == IF tn.iter = fr.iteration_count
             THEN [fr EXCEPT !.dead_exits = Append(@, tn.node)] ELSE fr
  IN  /\ p.pc = "process"
      /\ Kind[tn.node] = "exit" /\ tn.dead
      /\ FinishSection(p, tn.frame, DecrementOutstandingOps(Acc(new, {}), tn.frame, tn.iter))
      /\ Execute(p)
      /\ UNCHANGED taken

PropagateLiveExit(p) ==
  LET tn == p.tn
      parent == ParentFrame(tn.frame)
  IN  /\ p.pc = "process"
      /\ Kind[tn.node] = "exit" /\ ~tn.dead
      /\ LeaveSection(p, parent,
                      ActivateNodes(Acc(frames[parent], {}), parent, tn.node, FALSE,
                                    ParentIter(tn.frame), Outputs(tn)),
                      "decrement")
      /\ Execute(p)
      /\ UNCHANGED taken

(* DecrementOutstandingOps of the input frame, after Enter and live Exit. *)
DecrementInputFrame(p) ==
  /\ p.pc = "decrement"
  /\ FinishSection(p, p.tn.frame,
                   DecrementOutstandingOps(Acc(frames[p.tn.frame], p.ready), p.tn.frame, p.tn.iter))
  /\ UNCHANGED <<taken, executed>>

(* Fault: parallel_iterations is not looked at. *)
IsFullNever(fr, name) == FALSE

(* The maximum of parallel iterations is reached. *)
IsFull(fr, name) == fr.num_outstanding_iterations = MaxParallel[name]

(* NextIteration: deadness stops here; the first one of an iteration starts  *)
(* the next, or is put aside if too many are running.                        *)
NextIteration(fr, tn) ==
  LET last == tn.iter = fr.iteration_count IN
  IF tn.dead THEN Acc(fr, {})
  ELSE IF last /\ IsFull(fr, NameOf(tn.frame))
  THEN Acc([fr EXCEPT !.next_iter_roots = Append(@, Entry(tn.node, TRUE))], {})
  ELSE ActivateNodes(IF last THEN IncrementIteration(Acc(fr, {}), tn.frame) ELSE Acc(fr, {}),
                     tn.frame, tn.node, FALSE, tn.iter + 1, [s \in {0} |-> TRUE])

PropagateNextIteration(p) ==
  LET tn == p.tn IN
  /\ p.pc = "process"
  /\ Kind[tn.node] = "next_iter"
  /\ FinishSection(p, tn.frame,
                   DecrementOutstandingOps(NextIteration(frames[tn.frame], tn), tn.frame, tn.iter))
  /\ Execute(p)
  /\ UNCHANGED taken

(* DeleteFrame: the dead exits are propagated to the parent, ... *)
PropagateDeadExits(p) ==
  LET f == p.at
      parent == ParentFrame(f)
  IN  /\ p.pc = "delete"
      /\ f # Root
      /\ LeaveSection(p, parent,
                      ActivateEntries(Acc(frames[parent], p.ready), parent, ParentIter(f),
                                      [k \in DOMAIN frames[f].dead_exits |-> Entry(frames[f].dead_exits[k], FALSE)]),
                      "erase")
      /\ UNCHANGED <<taken, executed>>

(* ... and the frame leaves outstanding_frames_. *)
EraseFrame(p) ==
  LET f == p.at IN
  /\ p.pc = "erase" \/ (p.pc = "delete" /\ f = Root)
  /\ frames' = [g \in DOMAIN frames \ {f} |-> frames[g]]
  /\ IF f = Root
     THEN NodeDone(p, p.ready)
     ELSE Continue(p, [p EXCEPT !.pc = "cleanup", !.at = ParentFrame(f), !.at_iter = ParentIter(f)])
  /\ UNCHANGED <<taken, executed>>

(* CleanupFramesIterations: the end of a frame may end its parent's iteration. *)
CleanupFramesIterations(p) ==
  /\ p.pc = "cleanup"
  /\ FinishSection(p, p.at,
                   CleanupIterations(Acc(AddToFrameCount(frames[p.at], p.at_iter, -1), p.ready),
                                     p.at, p.at_iter))
  /\ UNCHANGED <<taken, executed>>

--------------------------------------------------------------------------------
(* RunAsync: the nodes without inputs are ready. *)
RootNodes == {n \in Nodes : InEdges(n) = {}}

FramesInit ==
  /\ taken \in Predicates
  /\ frames = [f \in {Root} |->
                 [NewFrame(RootName) EXCEPT !.iterations[0].outstanding_ops = Cardinality(RootNodes)]]
  /\ procs = {Proc(TaggedNode(n, Root, 0, FALSE)) : n \in RootNodes}
  /\ executed = {}

Step(p) ==
  \/ PropagateNormal(p)
  \/ FindChildFrame(p) \/ CreateChildFrame(p) \/ EnterChildFrame(p)
  \/ PropagateDeadExit(p) \/ PropagateLiveExit(p)
  \/ DecrementInputFrame(p)
  \/ PropagateNextIteration(p)
  \/ PropagateDeadExits(p) \/ EraseFrame(p) \/ CleanupFramesIterations(p)

FramesNext == \E p \in procs : Step(p)

(* The thread pool goes on running what is ready: weak fairness of           *)
(* FramesNext, which is enabled as long as there is a proc, written without  *)
(* ENABLED (TLC would evaluate the whole step to find out).                  *)
FramesFairness == []<>(procs = {}) \/ []<><<TRUE>>_frames_vars

FramesSpec == FramesInit /\ [][FramesNext]_frames_vars /\ FramesFairness

--------------------------------------------------------------------------------
(* The tagged nodes that are still to be counted down: those being processed *)
(* and those in a `ready' list that NodeDone has not scheduled yet.          *)
Outstanding ==
  {p.tn : p \in {q \in procs : q.pc \in {"process", "create", "enter", "decrement"}}}
    \cup UNION {p.ready : p \in procs}

(* No thread holds a pointer into a frame or an iteration that has been      *)
(* deleted, and the circular buffer never hands out the state of another     *)
(* iteration: what a tagged node names is there, and is itself.              *)
NoDanglingFrame ==
  /\ \A tn \in Outstanding :
       tn.frame \in DOMAIN frames /\ GetIteration(frames[tn.frame], tn.iter).iter = tn.iter
  /\ \A p \in procs :
       p.pc = "cleanup" => p.at \in DOMAIN frames
                           /\ GetIteration(frames[p.at], p.at_iter).iter = p.at_iter
  /\ \A f \in DOMAIN frames \ {Root} :
       ParentFrame(f) \in DOMAIN frames
       /\ GetIteration(frames[ParentFrame(f)], ParentIter(f)).iter = ParentIter(f)

(* No more iterations of a frame run at once than parallel_iterations says,  *)
(* and the ones that run are successive.                                     *)
ParallelIterations ==
  \A f \in DOMAIN frames \ {Root} :
    LET fr == frames[f]
        live == {j \in DOMAIN fr.iterations : fr.iterations[j] # Null}
    IN  /\ fr.num_outstanding_iterations = Cardinality(live)
        /\ fr.num_outstanding_iterations <= MaxParallel[NameOf(f)]
        /\ {fr.iterations[j].iter : j \in live} =
             fr.iteration_count - fr.num_outstanding_iterations + 1 .. fr.iteration_count

(* A node runs once in an iteration. *)
RunsOnce ==
  /\ \A x, y \in executed \cup {p.tn : p \in procs} :
       x.node = y.node /\ x.frame = y.frame /\ x.iter = y.iter => x = y
  /\ \A p \in procs : p.pc = "process" => p.tn \notin executed

(* The step ends. *)
Terminates == <>(procs = {})
================================================================================
