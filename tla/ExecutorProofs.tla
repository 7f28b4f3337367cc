---------------------------- MODULE ExecutorProofs -----------------------------
(***************************************************************************)
(* Proofs about the executor: ExecutorState, for any number of ops, and    *)
(* ExecutorFrames, for any graph and any parallel_iterations.              *)
(***************************************************************************)
EXTENDS ExecutorState, ExecutorFrames, FiniteSetTheorems, SequenceTheorems, WellFoundedInduction, TLAPS

--------------------------------------------------------------------------------
(* The life of a step *)

Pending == {o \in Ops : deferred[o] = "pending"}

(* The op that counted num_outstanding_ops_ down to zero, until Finish. *)
Ender(o) == pc[o] \in {"finish", "finishing"}

(* The `ready' lists of the ops that are being processed are disjoint, hold  *)
(* only ops that nobody has scheduled, and every such op is in one of them   *)
(* or is a root that RunAsync has yet to schedule.                           *)
ReadyLists ==
  /\ \A o \in Ops : ready[o] # {} => pc[o] \in {"account", "schedule"}
  /\ \A o \in Ops : pc[o] = "schedule" => ready[o] # {}
  /\ \A o, q \in Ops : q \in ready[o] => pc[q] = "activated"
  /\ \A o, p, q \in Ops : q \in ready[o] /\ q \in ready[p] => o = p
  /\ \A o \in Ops : pc[o] = "activated" =>
       run_pc = "scheduling" \/ \E q \in Ops : o \in ready[q]
  /\ run_pc = "scheduling" => RootsLeft # {}

(* An op that has failed has made nothing ready. *)
FailedStops ==
  \A o \in Ops : failed[o] =>
    ready[o] = {} /\ pc[o] \notin {"none", "activated", "scheduled", "computing"}

Counts ==
  /\ num_outstanding_ops = Cardinality(Counted)
  /\ num_deferred_ops = Cardinality(Pending)

(* The right to call Finish comes into being when nothing is counted any     *)
(* more, and is in one place: with the last op, with the deferred ops, with  *)
(* the last of them, or used up.                                             *)
OneFinisher ==
  /\ \A o \in Ops : Ender(o) => Counted = {} /\ ~finish_when_deferred_ops_done /\ finish_calls = 0
  /\ \A o, q \in Ops : Ender(o) /\ Ender(q) => o = q
  /\ \A o \in Ops : pc[o] = "finishing" => Pending = {}
  /\ finish_when_deferred_ops_done => Counted = {}
  /\ \A o \in Ops : deferred[o] = "finish" =>
       finish_when_deferred_ops_done /\ Pending = {} /\ finish_calls = 0
  /\ \A o, q \in Ops : deferred[o] = "finish" /\ deferred[q] = "finish" => o = q
  /\ finish_calls \in {0, 1}
  /\ finish_calls = 1 => Counted = {} /\ Pending = {}

(* How the callback, the object and the two ways to end go together: the     *)
(* run has not begun, is going on, has been ended by RunAsync, or by Finish. *)
NotBegun ==
  /\ run_pc = "start"
  /\ finish_calls = 0 /\ finish_pc = "idle" /\ done_calls = 0
  /\ ~done_cb /\ alive /\ ~finish_when_deferred_ops_done
  /\ \A o \in Ops : pc[o] = "none" /\ deferred[o] = "no"

GoingOn ==
  /\ run_pc # "start"
  /\ finish_calls = 0 /\ finish_pc = "idle" /\ done_calls = 0
  /\ done_cb /\ alive

EndedByRunAsync ==
  /\ run_pc = "returned"
  /\ finish_calls = 0 /\ finish_pc = "idle" /\ done_calls = 1
  /\ ~done_cb /\ ~alive /\ ~finish_when_deferred_ops_done
  /\ \A o \in Ops : pc[o] = "none" /\ deferred[o] = "no"

EndedByFinish ==
  /\ run_pc # "start"
  /\ finish_calls = 1 /\ finish_pc # "idle"
  /\ ~done_cb
  /\ alive <=> finish_pc \notin {"callback", "over"}
  /\ done_calls = IF finish_pc = "over" THEN 1 ELSE 0

Ending == NotBegun \/ GoingOn \/ EndedByRunAsync \/ EndedByFinish

IInv == TypeOK /\ ReadyLists /\ FailedStops /\ Counts /\ OneFinisher /\ Ending

--------------------------------------------------------------------------------
(* Sets of ops are finite. *)
LEMMA OpSets ==
  ASSUME NEW S \in SUBSET Ops
  PROVE  /\ IsFiniteSet(S)
         /\ Cardinality(S) \in Nat
         /\ (Cardinality(S) = 0) <=> (S = {})
  BY OpsAssumption, FS_Subset, FS_CardinalityType, FS_EmptySet

Busy == {"scheduled", "computing", "error", "abort_rendezvous", "abort_collective",
         "start_cancel", "cancelling"}

(* When nothing is counted no op is on its way, and RunAsync has scheduled   *)
(* all roots.                                                                *)
LEMMA NothingCounted ==
  ASSUME TypeOK, ReadyLists, Counted = {}
  PROVE  /\ \A o \in Ops : pc[o] \in {"none", "finish", "finishing", "over"}
         /\ run_pc # "scheduling"
  <1>1. ASSUME NEW o \in Ops, pc[o] = "activated" PROVE FALSE
    <2>1. PICK q \in Ops : o \in ready[q] /\ pc[q] # "schedule"
      BY <1>1 DEF Counted
    <2>2. pc[q] = "account"
      BY <2>1 DEF ReadyLists
    <2> QED
      BY <2>2 DEF Counted
  <1>2. ASSUME NEW o \in Ops, pc[o] = "schedule" PROVE FALSE
    <2>1. PICK q \in Ops : q \in ready[o]
      BY <1>2 DEF ReadyLists, TypeOK
    <2>2. pc[q] = "activated"
      BY <2>1 DEF ReadyLists
    <2> QED
      BY <2>2, <1>1
  <1>3. \A o \in Ops : pc[o] \in {"none", "finish", "finishing", "over"}
    BY <1>1, <1>2 DEF Counted, TypeOK, PcStates
  <1>4. run_pc # "scheduling"
    BY <1>1 DEF ReadyLists, RootsLeft
  <1> QED
    BY <1>3, <1>4

(* An op that moves on while it is counted. *)
LEMMA BusyMove ==
  ASSUME TypeOK, ReadyLists, Counts, OneFinisher, Ending,
         NEW o \in Ops, pc[o] \in Busy,
         NEW x \in Busy \cup {"account"}, pc' = [pc EXCEPT ![o] = x],
         UNCHANGED <<run_pc, ready, num_outstanding_ops, deferred_vars, finish_pc, alive,
                     done_cb, finish_calls, done_calls>>
  PROVE  ReadyLists' /\ Counts' /\ OneFinisher' /\ Ending'
  <1> USE DEF deferred_vars, Busy
  <1>1. ready[o] = {} /\ \A q \in Ops : o \notin ready[q]
    BY DEF ReadyLists
  <1>2. o \in Counted
    BY DEF Counted
  <1>3. Counted' = Counted
    BY <1>1 DEF Counted, TypeOK
  <1>4. Pending' = Pending
    BY DEF Pending
  <1>5. ReadyLists'
    <2>1. RootsLeft' = RootsLeft
      BY <1>1 DEF RootsLeft, TypeOK
    <2> QED
      BY <1>1, <2>1 DEF ReadyLists, TypeOK
  <1>6. Counts'
    BY <1>3, <1>4 DEF Counts
  <1>7. OneFinisher'
    BY <1>2, <1>3, <1>4 DEF OneFinisher, Ender, TypeOK
  <1>8. Ending'
    <2>1. ~NotBegun /\ ~EndedByRunAsync
      BY DEF NotBegun, EndedByRunAsync
    <2> QED
      BY <2>1 DEF Ending, GoingOn, EndedByFinish
  <1> QED
    BY <1>5, <1>6, <1>7, <1>8

(* A step of Finish after its critical section, or of somebody else. *)
LEMMA OpsUnmoved ==
  ASSUME ReadyLists, FailedStops, Counts, OneFinisher,
         UNCHANGED <<run_pc, op_vars, num_outstanding_ops, deferred_vars, finish_calls>>
  PROVE  ReadyLists' /\ FailedStops' /\ Counts' /\ OneFinisher'
  <1> USE DEF op_vars, deferred_vars
  <1>1. Counted' = Counted /\ Pending' = Pending /\ RootsLeft' = RootsLeft
    BY DEF Counted, Pending, RootsLeft
  <1>2. ReadyLists' /\ FailedStops'
    BY <1>1 DEF ReadyLists, FailedStops
  <1>3. Counts'
    BY <1>1 DEF Counts
  <1>4. OneFinisher'
    BY <1>1 DEF OneFinisher, Ender
  <1> QED
    BY <1>2, <1>3, <1>4

--------------------------------------------------------------------------------
(* Nothing is counted or pending in the initial state. *)
LEMMA InitIInv == Init => IInv
  <1> SUFFICES ASSUME Init PROVE IInv
    OBVIOUS
  <1>1. TypeOK
    BY OpsAssumption DEF Init, TypeOK, PcStates
  <1>2. Counted = {} /\ Pending = {}
    BY DEF Init, Counted, Pending
  <1>3. ReadyLists /\ FailedStops
    BY DEF Init, ReadyLists, FailedStops
  <1>4. Counts
    BY <1>2, FS_EmptySet DEF Init, Counts
  <1>5. OneFinisher
    BY <1>2 DEF Init, OneFinisher, Ender
  <1>6. Ending
    BY DEF Init, Ending, NotBegun
  <1> QED
    BY <1>1, <1>3, <1>4, <1>5, <1>6 DEF IInv

(* Every step keeps the types; that the two counters do not go below zero is *)
(* what Counts is needed for.                                                *)
LEMMA TypeStep ==
  ASSUME TypeOK, Counts, OneFinisher, [Next]_vars
  PROVE  TypeOK'
  <1> USE DEF TypeOK, PcStates, op_vars, status_vars, deferred_vars, abort_vars, cancel_vars,
              finish_vars, done_vars
  <1>1. CASE RunAsync
    <2>1. ASSUME NEW s \in {OK, Device}, RunAsyncEnds(s) PROVE TypeOK'
      <3>1. done_calls' \in Nat /\ done_status' \in Ops \cup {OK, Device}
        BY <2>1 DEF RunAsyncEnds
      <3>2. alive' \in BOOLEAN
        BY <2>1 DEF RunAsyncEnds
      <3> QED
        BY <2>1, <3>1, <3>2 DEF RunAsyncEnds
    <2>2. ASSUME NEW roots \in SUBSET Ops, RunAsyncStarts(roots) PROVE TypeOK'
      BY <2>2, OpSets DEF RunAsyncStarts, Activate
    <2>3. ASSUME NEW o \in Ops, RunAsyncSchedules(o) PROVE TypeOK'
      BY <2>3 DEF RunAsyncSchedules
    <2> QED
      BY <1>1, <2>1, <2>2, <2>3 DEF RunAsync
  <1>2. ASSUME NEW o \in Ops, Op(o) PROVE TypeOK'
    <2>1. CASE Compute(o)
      BY <2>1 DEF Compute
    <2>2. CASE IncNumDeferredOps(o)
      BY <2>2 DEF IncNumDeferredOps
    <2>3. ASSUME NEW S \in SUBSET Ops, ComputeSucceeds(o, S) PROVE TypeOK'
      BY <2>3 DEF ComputeSucceeds
    <2>4. ASSUME NEW c \in BOOLEAN, ComputeFails(o, c) PROVE TypeOK'
      BY <2>4 DEF ComputeFails
    <2>5. CASE DecNumDeferredOps(o)
      <3>1. o \in Pending /\ Pending \in SUBSET Ops
        BY <2>5 DEF DecNumDeferredOps, Pending
      <3>2. num_deferred_ops - 1 \in Nat
        BY <3>1, OpSets DEF Counts
      <3> QED
        BY <2>5, <3>2 DEF DecNumDeferredOps
    <2>6. CASE RecordError(o)
      <3>1. pc' \in [Ops -> PcStates] /\ status' \in Ops \cup {OK}
        BY <2>6 DEF RecordError
      <3>2. derived' \in BOOLEAN
        BY <2>6 DEF RecordError
      <3>3. first_error' \in Ops \cup {OK}
        BY <2>6 DEF RecordError, NoteError
      <3> QED
        BY <2>6, <3>1, <3>2, <3>3 DEF RecordError
    <2>7. CASE AbortRendezvous(o)
      BY <2>7 DEF AbortRendezvous
    <2>8. CASE AbortCollective(o)
      BY <2>8 DEF AbortCollective
    <2>9. CASE NodeDoneCancels(o)
      BY <2>9 DEF NodeDoneCancels, CancelEnters
    <2>10. CASE Account(o)
      <3>1. o \in Counted /\ Counted \in SUBSET Ops
        BY <2>10 DEF Account, Counted
      <3>2. num_outstanding_ops - 1 \in Nat
        BY <3>1, OpSets DEF Counts
      <3>3. num_outstanding_ops + (Cardinality(ready[o]) - 1) \in Nat
        <4>1. Cardinality(ready[o]) \in Nat
          BY OpSets
        <4> QED
          BY <3>2, <4>1
      <3> QED
        BY <2>10, <3>2, <3>3 DEF Account
    <2>11. ASSUME NEW q \in Ops, ScheduleReady(o, q) PROVE TypeOK'
      BY <2>11 DEF ScheduleReady
    <2>12. CASE ScheduleFinish(o)
      <3>1. pc' \in [Ops -> PcStates]
        BY <2>12 DEF ScheduleFinish
      <3>2. finish_when_deferred_ops_done' \in BOOLEAN
        BY <2>12 DEF ScheduleFinish
      <3> QED
        BY <2>12, <3>1, <3>2 DEF ScheduleFinish
    <2> QED
      BY <1>2, <2>1, <2>2, <2>3, <2>4, <2>5, <2>6, <2>7, <2>8, <2>9, <2>10, <2>11, <2>12 DEF Op
  <1>3. ASSUME NEW o \in Ops, FinishMoves(o) PROVE TypeOK'
    <2>1. pc' \in [Ops -> PcStates] /\ deferred' \in [Ops -> {"no", "pending", "finish", "done"}]
      BY <1>3 DEF FinishMoves
    <2>2. finish_status' \in Ops \cup {OK, Device} /\ finish_calls' \in Nat
      BY <1>3 DEF FinishMoves
    <2>3. done_cb' \in BOOLEAN
      BY <1>3 DEF FinishMoves
    <2> QED
      BY <1>3, <2>1, <2>2, <2>3 DEF FinishMoves
  <1>4. CASE Finish
    <2>1. CASE FinishAsksDevice
      <3>1. finish_pc' \in {"delete", "abort"}
        BY <2>1 DEF FinishAsksDevice
      <3>2. finish_status' \in Ops \cup {OK, Device}
        BY <2>1 DEF FinishAsksDevice, UpdateStatus
      <3> QED
        BY <2>1, <3>1, <3>2 DEF FinishAsksDevice
    <2>2. CASE FinishAborts
      BY <2>2 DEF FinishAborts
    <2>3. CASE FinishCancels
      BY <2>3 DEF FinishCancels, CancelEnters
    <2>4. CASE FinishDeletes
      <3>1. alive' \in BOOLEAN
        BY <2>4 DEF FinishDeletes
      <3> QED
        BY <2>4, <3>1 DEF FinishDeletes
    <2>5. CASE FinishCallsDone
      <3>1. done_calls' \in Nat /\ done_status' \in Ops \cup {OK, Device}
        BY <2>5 DEF FinishCallsDone
      <3> QED
        BY <2>5, <3>1 DEF FinishCallsDone
    <2> QED
      BY <2>5, <1>4, <2>1, <2>2, <2>3, <2>4 DEF Finish
  <1>5. CASE UserCancels
    BY <1>5 DEF UserCancels, CancelEnters
  <1>6. CASE UNCHANGED vars
    BY <1>6 DEF vars
  <1> QED
    BY <1>1, <1>2, <1>3, <1>4, <1>5, <1>6 DEF Next

--------------------------------------------------------------------------------
(* What the steps of RunAsync keep. *)
LEMMA RunAsyncKeeps ==
  ASSUME IInv, RunAsync
  PROVE  ReadyLists' /\ FailedStops' /\ Counts' /\ OneFinisher' /\ Ending'
  <1> USE DEF IInv, op_vars, deferred_vars, finish_vars, done_vars
  <1>1. ASSUME NEW s \in {OK, Device}, RunAsyncEnds(s)
        PROVE  ReadyLists' /\ FailedStops' /\ Counts' /\ OneFinisher' /\ Ending'
    <2>1. NotBegun
      BY <1>1 DEF RunAsyncEnds, Ending, GoingOn, EndedByRunAsync, EndedByFinish
    <2>2. Counted' = Counted /\ Pending' = Pending
      BY <1>1 DEF RunAsyncEnds, Counted, Pending
    <2>3. ReadyLists'
      BY <1>1, <2>1 DEF RunAsyncEnds, ReadyLists, NotBegun
    <2>4. FailedStops' /\ Counts' /\ OneFinisher'
      BY <1>1, <2>2 DEF RunAsyncEnds, FailedStops, Counts, OneFinisher, Ender
    <2>5. EndedByRunAsync'
      <3>1. done_calls' = 1 /\ run_pc' = "returned"
        BY <1>1, <2>1 DEF RunAsyncEnds, NotBegun
      <3>2. finish_calls' = 0 /\ finish_pc' = "idle"
        BY <1>1, <2>1 DEF RunAsyncEnds, NotBegun
      <3>3. ~done_cb' /\ ~alive' /\ ~finish_when_deferred_ops_done'
        BY <1>1, <2>1 DEF RunAsyncEnds, NotBegun
      <3>4. \A o \in Ops : pc'[o] = "none" /\ deferred'[o] = "no"
        BY <1>1, <2>1 DEF RunAsyncEnds, NotBegun
      <3> QED
        BY <3>1, <3>2, <3>3, <3>4 DEF EndedByRunAsync
    <2> QED
      BY <2>3, <2>4, <2>5 DEF Ending
  <1>2. ASSUME NEW roots \in SUBSET Ops, RunAsyncStarts(roots)
        PROVE  ReadyLists' /\ FailedStops' /\ Counts' /\ OneFinisher' /\ Ending'
    <2>1. NotBegun
      BY <1>2 DEF RunAsyncStarts, Ending, GoingOn, EndedByRunAsync, EndedByFinish
    <2>2. \A o \in Ops : ready[o] = {} /\ ~failed[o]
      BY <2>1 DEF ReadyLists, FailedStops, NotBegun
    <2>3. pc' = [o \in Ops |-> IF o \in roots THEN "activated" ELSE "none"]
      BY <1>2, <2>1 DEF RunAsyncStarts, Activate, NotBegun
    <2>4. ready' = ready /\ failed' = failed /\ deferred' = deferred
      BY <1>2 DEF RunAsyncStarts
    <2>5. Counted' = roots /\ RootsLeft' = roots /\ Pending' = Pending
      BY <2>2, <2>3, <2>4 DEF Counted, RootsLeft, Pending
    <2>6. ReadyLists'
      BY <1>2, <2>2, <2>3, <2>4, <2>5 DEF RunAsyncStarts, ReadyLists
    <2>7. FailedStops'
      BY <2>2, <2>4 DEF FailedStops
    <2>8. Counts'
      BY <1>2, <2>5 DEF RunAsyncStarts, Counts
    <2>9. OneFinisher'
      <3>1. \A o \in Ops : ~Ender(o)' /\ deferred'[o] = "no"
        BY <2>1, <2>3, <2>4 DEF Ender, NotBegun
      <3>2. finish_calls' = 0 /\ ~finish_when_deferred_ops_done'
        BY <1>2, <2>1 DEF RunAsyncStarts, NotBegun
      <3>3. \A o \in Ops : pc'[o] # "finishing"
        BY <2>3
      <3> QED
        BY <3>1, <3>2, <3>3 DEF OneFinisher
    <2>10. GoingOn'
      BY <1>2, <2>1 DEF RunAsyncStarts, NotBegun, GoingOn
    <2> QED
      BY <2>6, <2>7, <2>8, <2>9, <2>10 DEF Ending
  <1>3. ASSUME NEW o \in Ops, RunAsyncSchedules(o)
        PROVE  ReadyLists' /\ FailedStops' /\ Counts' /\ OneFinisher' /\ Ending'
    <2> USE DEF TypeOK
    <2>1. pc[o] = "activated" /\ \A q \in Ops : o \notin ready[q]
      BY <1>3 DEF RunAsyncSchedules, RootsLeft
    <2>2. /\ pc' = [pc EXCEPT ![o] = "scheduled"]
          /\ ready' = ready /\ failed' = failed /\ deferred' = deferred
      BY <1>3 DEF RunAsyncSchedules
    <2>3. ready[o] = {} /\ ~failed[o]
      BY <2>1 DEF ReadyLists, FailedStops
    <2>4. o \in Counted /\ Counted' = Counted /\ Pending' = Pending
      BY <2>1, <2>2 DEF Counted, Pending
    <2>5. RootsLeft' = RootsLeft \ {o}
      BY <2>2 DEF RootsLeft
    <2>6. ReadyLists'
      <3>1. \A r \in Ops : pc'[r] = "activated" =>
              run_pc' = "scheduling" \/ \E q \in Ops : r \in ready'[q]
        <4> SUFFICES ASSUME NEW r \in Ops, pc'[r] = "activated", run_pc' # "scheduling"
                     PROVE  \E q \in Ops : r \in ready'[q]
          OBVIOUS
        <4>1. r # o /\ pc[r] = "activated"
          BY <2>2
        <4>2. RootsLeft = {o}
          BY <1>3 DEF RunAsyncSchedules
        <4> QED
          BY <4>1, <4>2, <2>2 DEF RootsLeft
      <3>2. run_pc' = "scheduling" => RootsLeft' # {}
        BY <1>3, <2>5 DEF RunAsyncSchedules
      <3> QED
        BY <2>1, <2>2, <2>3, <3>1, <3>2 DEF ReadyLists
    <2>7. FailedStops'
      BY <2>2, <2>3 DEF FailedStops
    <2>8. Counts'
      BY <1>3, <2>4 DEF RunAsyncSchedules, Counts
    <2>9. OneFinisher'
      BY <1>3, <2>2, <2>4 DEF RunAsyncSchedules, OneFinisher, Ender
    <2>10. Ending'
      <3>1. ~NotBegun /\ ~EndedByRunAsync /\ ~EndedByFinish
        BY <2>1, <2>4 DEF NotBegun, EndedByRunAsync, EndedByFinish, OneFinisher
      <3> QED
        BY <1>3, <3>1 DEF RunAsyncSchedules, Ending, GoingOn
    <2> QED
      BY <2>6, <2>7, <2>8, <2>9, <2>10
  <1> QED
    BY <1>1, <1>2, <1>3 DEF RunAsync

--------------------------------------------------------------------------------
(* An op that computes, fails and ends the rest of the step stays counted. *)
LEMMA MovesKeep ==
  ASSUME IInv, NEW o \in Ops,
         \/ Compute(o)
         \/ \E cancelled \in BOOLEAN : ComputeFails(o, cancelled)
         \/ RecordError(o) \/ AbortRendezvous(o) \/ AbortCollective(o) \/ NodeDoneCancels(o)
  PROVE  ReadyLists' /\ FailedStops' /\ Counts' /\ OneFinisher' /\ Ending'
  <1> DEFINE Rest == UNCHANGED <<run_pc, ready, num_outstanding_ops, deferred_vars, finish_pc,
                                 alive, done_cb, finish_calls, done_calls>>
  <1> USE DEF IInv
  <1>1. CASE Compute(o)
    <2>1. pc[o] \in Busy /\ pc' = [pc EXCEPT ![o] = "computing"] /\ Rest /\ failed' = failed
      BY <1>1 DEF Compute, Busy, finish_vars, done_vars
    <2>2. ~failed[o]
      BY <1>1 DEF Compute, FailedStops
    <2>3. FailedStops'
      BY <2>1, <2>2 DEF FailedStops, TypeOK
    <2> QED
      BY <2>1, <2>3, BusyMove DEF Busy
  <1>2. ASSUME NEW c \in BOOLEAN, ComputeFails(o, c)
        PROVE  ReadyLists' /\ FailedStops' /\ Counts' /\ OneFinisher' /\ Ending'
    <2>1. /\ pc[o] = "computing" /\ pc' = [pc EXCEPT ![o] = "error"] /\ Rest
          /\ failed' = [failed EXCEPT ![o] = TRUE]
      BY <1>2 DEF ComputeFails, finish_vars, done_vars
    <2>2. ready[o] = {}
      BY <2>1 DEF ReadyLists
    <2>3. FailedStops'
      BY <2>1, <2>2 DEF FailedStops, TypeOK
    <2> QED
      BY <2>1, <2>3, BusyMove DEF Busy
  <1>3. ASSUME NEW x \in (Busy \ {"scheduled", "computing"}) \cup {"account"},
               pc[o] \in Busy, pc' = [pc EXCEPT ![o] = x], Rest, failed' = failed
        PROVE  ReadyLists' /\ FailedStops' /\ Counts' /\ OneFinisher' /\ Ending'
    <2>1. FailedStops'
      BY <1>3 DEF FailedStops, TypeOK, Busy
    <2>2. x \in Busy \cup {"account"}
      OBVIOUS
    <2> QED
      BY <1>3, <2>1, <2>2, BusyMove
  <1>4. CASE RecordError(o)
    <2>1. pc[o] \in Busy /\ Rest /\ failed' = failed
      BY <1>4 DEF RecordError, Busy, finish_vars, done_vars
    <2>2. \/ pc' = [pc EXCEPT ![o] = "abort_rendezvous"]
          \/ pc' = [pc EXCEPT ![o] = "account"]
      BY <1>4 DEF RecordError
    <2>3. "abort_rendezvous" \in Busy \ {"scheduled", "computing"}
      BY DEF Busy
    <2> QED
      BY <2>1, <2>2, <2>3, <1>3
  <1>5. CASE AbortRendezvous(o)
    <2>1. pc[o] \in Busy /\ Rest /\ failed' = failed
      BY <1>5 DEF AbortRendezvous, Busy, finish_vars, done_vars
    <2>2. pc' = [pc EXCEPT ![o] = "abort_collective"]
      BY <1>5 DEF AbortRendezvous
    <2>3. "abort_collective" \in Busy \ {"scheduled", "computing"}
      BY DEF Busy
    <2> QED
      BY <2>1, <2>2, <2>3, <1>3
  <1>6. CASE AbortCollective(o)
    <2>1. pc[o] \in Busy /\ Rest /\ failed' = failed
      BY <1>6 DEF AbortCollective, Busy, finish_vars, done_vars
    <2>2. pc' = [pc EXCEPT ![o] = "start_cancel"]
      BY <1>6 DEF AbortCollective
    <2>3. "start_cancel" \in Busy \ {"scheduled", "computing"}
      BY DEF Busy
    <2> QED
      BY <2>1, <2>2, <2>3, <1>3
  <1>7. CASE NodeDoneCancels(o)
    <2>1. pc[o] \in Busy /\ Rest /\ failed' = failed
      BY <1>7 DEF NodeDoneCancels, Busy, finish_vars, done_vars
    <2>2. pc' = [pc EXCEPT ![o] = "cancelling"] \/ pc' = [pc EXCEPT ![o] = "account"]
      BY <1>7 DEF NodeDoneCancels
    <2>3. "cancelling" \in Busy \ {"scheduled", "computing"}
      BY DEF Busy
    <2> QED
      BY <2>1, <2>2, <2>3, <1>3
  <1> QED
    BY <1>1, <1>2, <1>4, <1>5, <1>6, <1>7

(* The deferred ops are counted too, and the last of them takes over the     *)
(* right to finish if it has been left to them.                              *)
LEMMA DeferredKeeps ==
  ASSUME IInv, NEW o \in Ops, IncNumDeferredOps(o) \/ DecNumDeferredOps(o)
  PROVE  ReadyLists' /\ FailedStops' /\ Counts' /\ OneFinisher' /\ Ending'
  <1> USE DEF IInv, op_vars, finish_vars, done_vars
  <1>1. /\ pc' = pc /\ ready' = ready /\ failed' = failed /\ run_pc' = run_pc
        /\ num_outstanding_ops' = num_outstanding_ops
        /\ finish_when_deferred_ops_done' = finish_when_deferred_ops_done
        /\ finish_calls' = finish_calls /\ finish_pc' = finish_pc /\ done_calls' = done_calls
        /\ alive' = alive /\ done_cb' = done_cb
    BY DEF IncNumDeferredOps, DecNumDeferredOps
  <1>2. Counted' = Counted /\ RootsLeft' = RootsLeft
    BY <1>1 DEF Counted, RootsLeft
  <1>3. ReadyLists' /\ FailedStops'
    BY <1>1, <1>2 DEF ReadyLists, FailedStops
  <1>4. IsFiniteSet(Pending) /\ Cardinality(Pending) \in Nat
    BY OpSets DEF Pending
  <1>5. CASE IncNumDeferredOps(o)
    <2>1. o \in Counted
      BY <1>5 DEF IncNumDeferredOps, Counted
    <2>2. /\ deferred' = [deferred EXCEPT ![o] = "pending"] /\ deferred[o] = "no"
          /\ num_deferred_ops' = num_deferred_ops + 1
      BY <1>5 DEF IncNumDeferredOps
    <2>3. Pending' = Pending \cup {o} /\ o \notin Pending
      BY <2>2 DEF Pending, TypeOK
    <2>4. Counts'
      BY <1>1, <1>2, <1>4, <2>2, <2>3, FS_AddElement DEF Counts
    <2>5. OneFinisher'
      BY <1>1, <1>2, <2>1, <2>2 DEF OneFinisher, Ender, TypeOK
    <2>6. ~NotBegun /\ ~EndedByRunAsync
      BY <1>5 DEF IncNumDeferredOps, NotBegun, EndedByRunAsync
    <2>7. Ending'
      BY <1>1, <2>6 DEF Ending, GoingOn, EndedByFinish
    <2> QED
      BY <1>3, <2>4, <2>5, <2>7
  <1>6. CASE DecNumDeferredOps(o)
    <2>1. o \in Pending
      BY <1>6 DEF DecNumDeferredOps, Pending
    <2>2. \E x \in {"finish", "done"} :
            /\ deferred' = [deferred EXCEPT ![o] = x]
            /\ x = "finish" => num_deferred_ops = 1 /\ finish_when_deferred_ops_done
      BY <1>6 DEF DecNumDeferredOps
    <2>3. num_deferred_ops' = num_deferred_ops - 1
      BY <1>6 DEF DecNumDeferredOps
    <2>4. Pending' = Pending \ {o}
      BY <2>2 DEF Pending, TypeOK
    <2>5. Counts'
      BY <1>1, <1>2, <1>4, <2>1, <2>3, <2>4, FS_RemoveElement DEF Counts
    <2>6. num_deferred_ops = 1 => Pending' = {}
      <3>1. num_deferred_ops = 1 => Cardinality(Pending') = 0
        BY <2>3, <2>5 DEF Counts
      <3>2. Pending' \in SUBSET Ops
        BY DEF Pending
      <3> QED
        BY <3>1, <3>2, OpSets
    <2>7. OneFinisher'
      <3>1. finish_calls = 0 /\ \A q \in Ops : deferred[q] # "finish" /\ pc[q] # "finishing"
        BY <2>1 DEF OneFinisher
      <3> QED
        BY <1>1, <1>2, <2>2, <2>6, <3>1 DEF OneFinisher, Ender, TypeOK
    <2>8. ~NotBegun /\ ~EndedByRunAsync
      BY <2>1 DEF Pending, NotBegun, EndedByRunAsync
    <2>9. Ending'
      BY <1>1, <2>8 DEF Ending, GoingOn, EndedByFinish
    <2> QED
      BY <1>3, <2>5, <2>7, <2>9
  <1> QED
    BY <1>5, <1>6

--------------------------------------------------------------------------------
(* PropagateOutputs fills a `ready' list, which is not counted yet. *)
LEMMA ComputeSucceedsKeeps ==
  ASSUME IInv, NEW o \in Ops, NEW S \in SUBSET Ops, ComputeSucceeds(o, S)
  PROVE  ReadyLists' /\ FailedStops' /\ Counts' /\ OneFinisher' /\ Ending'
  <1> USE DEF IInv, TypeOK, deferred_vars, finish_vars, done_vars
  <1>1. pc[o] = "computing" /\ ready[o] = {} /\ ~failed[o] /\ \A q \in S : pc[q] = "none"
    BY DEF ComputeSucceeds, ReadyLists, FailedStops
  <1>2. \A q \in Ops : ready'[q] = IF q = o THEN S ELSE ready[q]
    BY DEF ComputeSucceeds
  <1>3. \A q \in Ops : pc'[q] = IF q = o THEN "account" ELSE IF q \in S THEN "activated" ELSE pc[q]
    BY DEF ComputeSucceeds
  <1>4. o \in Counted /\ Counted' = Counted
    <2>1. o \in Counted
      BY <1>1 DEF Counted
    <2>2. \A q \in Ops : q \in Counted' <=> q \in Counted
      BY <1>1, <1>2, <1>3 DEF Counted
    <2> QED
      BY <2>1, <2>2 DEF Counted
  <1>5. RootsLeft' = RootsLeft
    BY <1>1, <1>2, <1>3 DEF RootsLeft
  <1>6. /\ failed' = failed /\ run_pc' = run_pc /\ num_outstanding_ops' = num_outstanding_ops
        /\ deferred' = deferred /\ num_deferred_ops' = num_deferred_ops
        /\ finish_when_deferred_ops_done' = finish_when_deferred_ops_done
        /\ finish_calls' = finish_calls /\ finish_pc' = finish_pc /\ done_calls' = done_calls
        /\ alive' = alive /\ done_cb' = done_cb
    BY DEF ComputeSucceeds
  <1>7. Pending' = Pending
    BY <1>6 DEF Pending
  <1>8. ReadyLists'
    <2>1. \A q \in Ops : ready'[q] # {} => pc'[q] \in {"account", "schedule"}
      BY <1>1, <1>2, <1>3 DEF ReadyLists
    <2>2. \A q \in Ops : pc'[q] = "schedule" => ready'[q] # {}
      BY <1>1, <1>2, <1>3 DEF ReadyLists
    <2>3. \A p, q \in Ops : q \in ready'[p] => pc'[q] = "activated"
      BY <1>1, <1>2, <1>3 DEF ReadyLists
    <2>4. \A p, q, r \in Ops : r \in ready'[p] /\ r \in ready'[q] => p = q
      BY <1>1, <1>2, <1>3 DEF ReadyLists
    <2>5. \A q \in Ops : pc'[q] = "activated" =>
            run_pc' = "scheduling" \/ \E p \in Ops : q \in ready'[p]
      BY <1>1, <1>2, <1>3, <1>6 DEF ReadyLists
    <2> QED
      BY <2>5, <1>5, <1>6, <2>1, <2>2, <2>3, <2>4 DEF ReadyLists
  <1>9. FailedStops'
    BY <1>1, <1>2, <1>3, <1>6 DEF FailedStops
  <1>10. Counts'
    BY <1>4, <1>6, <1>7 DEF Counts
  <1>11. OneFinisher'
    BY <1>3, <1>4, <1>6, <1>7 DEF OneFinisher, Ender
  <1>12. ~NotBegun /\ ~EndedByRunAsync
    BY <1>1 DEF NotBegun, EndedByRunAsync
  <1>13. Ending'
    BY <1>6, <1>12 DEF Ending, GoingOn, EndedByFinish
  <1> QED
    BY <1>8, <1>9, <1>10, <1>11, <1>13

(* The op is taken off the count and what it has made ready is added; if     *)
(* that leaves nothing, the op has the right to finish.                      *)
LEMMA AccountKeeps ==
  ASSUME IInv, NEW o \in Ops, Account(o)
  PROVE  ReadyLists' /\ FailedStops' /\ Counts' /\ OneFinisher' /\ Ending'
  <1> USE DEF IInv, TypeOK, deferred_vars, finish_vars, done_vars
  <1>1. /\ ready' = ready /\ failed' = failed /\ run_pc' = run_pc
        /\ deferred' = deferred /\ num_deferred_ops' = num_deferred_ops
        /\ finish_when_deferred_ops_done' = finish_when_deferred_ops_done
        /\ finish_calls' = finish_calls /\ finish_pc' = finish_pc /\ done_calls' = done_calls
        /\ alive' = alive /\ done_cb' = done_cb
    BY DEF Account
  <1>2. pc[o] = "account" /\ o \in Counted
    BY DEF Account, Counted
  <1>3. Pending' = Pending
    BY <1>1 DEF Pending
  <1>4. \A q \in Ops : o \notin ready[q]
    BY <1>2 DEF ReadyLists
  <1>5. IsFiniteSet(Counted) /\ Cardinality(Counted) \in Nat
    BY OpSets DEF Counted
  <1>6. ~finish_when_deferred_ops_done /\ finish_calls = 0 /\ \A q \in Ops : ~Ender(q)
    BY <1>2 DEF OneFinisher
  <1>7. GoingOn
    BY <1>2, <1>6 DEF Ending, NotBegun, EndedByRunAsync, EndedByFinish
  <1>8. Ending'
    BY <1>1, <1>7 DEF Ending, GoingOn
  <1>9. \A q \in Ops : deferred[q] # "finish"
    BY <1>6 DEF OneFinisher
  <1>10. CASE ready[o] = {} \/ failed[o]
    <2>1. ready[o] = {}
      BY <1>10 DEF FailedStops
    <2>2. num_outstanding_ops' = num_outstanding_ops - 1
      BY <1>10 DEF Account
    <2>3. pc' = [pc EXCEPT ![o] = IF num_outstanding_ops = 1 THEN "finish" ELSE "over"]
      BY <1>10 DEF Account
    <2>4. \A q \in Ops : pc'[q] = IF q # o THEN pc[q]
                                  ELSE IF num_outstanding_ops = 1 THEN "finish" ELSE "over"
      BY <2>3
    <2>5. Counted' = Counted \ {o}
      <3>1. \A q \in Ops : q \in Counted' <=> q \in Counted /\ q # o
        BY <1>1, <1>2, <2>1, <2>4 DEF Counted
      <3> QED
        BY <3>1 DEF Counted
    <2>6. Counts'
      BY <1>1, <1>2, <1>3, <1>5, <2>2, <2>5, FS_RemoveElement DEF Counts
    <2>7. ReadyLists'
      <3>1. RootsLeft' = RootsLeft
        BY <1>1, <1>2, <2>4 DEF RootsLeft
      <3> QED
        BY <1>1, <1>2, <1>4, <2>1, <2>4, <3>1 DEF ReadyLists
    <2>8. FailedStops'
      BY <1>1, <2>1, <2>4 DEF FailedStops
    <2>9. num_outstanding_ops = 1 => Counted' = {}
      <3>1. Counted' \in SUBSET Ops
        BY DEF Counted
      <3>2. num_outstanding_ops = 1 => Cardinality(Counted') = 0
        BY <2>2, <2>6 DEF Counts
      <3> QED
        BY <3>1, <3>2, OpSets
    <2>10. OneFinisher'
      <3>1. \A q \in Ops : Ender(q)' => q = o /\ Counted' = {}
        BY <1>6, <2>4, <2>9 DEF Ender
      <3>2. \A q \in Ops : pc'[q] # "finishing"
        BY <1>6, <2>4 DEF Ender
      <3> QED
        BY <1>1, <1>6, <1>9, <3>1, <3>2 DEF OneFinisher
    <2> QED
      BY <1>8, <2>6, <2>7, <2>8, <2>10
  <1>11. CASE ~(ready[o] = {} \/ failed[o])
    <2>1. num_outstanding_ops' = num_outstanding_ops + (Cardinality(ready[o]) - 1)
      BY <1>11 DEF Account
    <2>2. pc' = [pc EXCEPT ![o] = "schedule"]
      BY <1>11 DEF Account
    <2>3. \A q \in Ops : pc'[q] = IF q # o THEN pc[q] ELSE "schedule"
      BY <2>2
    <2>4. \A q \in ready[o] : q # o /\ pc[q] = "activated" /\ q \notin Counted
      BY <1>2 DEF ReadyLists, Counted
    <2>5. Counted' = (Counted \ {o}) \cup ready[o]
      <3>1. \A q \in Ops : q \in ready[o] => q \in Counted'
        BY <1>1, <2>3, <2>4 DEF Counted, ReadyLists
      <3>2. \A q \in Ops : q \notin ready[o] => (q \in Counted' <=> q \in Counted /\ q # o)
        BY <1>1, <1>2, <2>3 DEF Counted
      <3>3. o \notin Counted' /\ ready[o] \in SUBSET Ops
        BY <2>3 DEF Counted
      <3> QED
        BY <3>1, <3>2, <3>3 DEF Counted
    <2>6. Cardinality(Counted') = (Cardinality(Counted) - 1) + Cardinality(ready[o])
      <3>1. IsFiniteSet(Counted \ {o}) /\ Cardinality(Counted \ {o}) = Cardinality(Counted) - 1
        BY <1>2, <1>5, FS_RemoveElement
      <3>2. IsFiniteSet(ready[o]) /\ Cardinality(ready[o]) \in Nat
        BY OpSets
      <3>3. (Counted \ {o}) \cap ready[o] = {}
        BY <2>4
      <3>4. Cardinality((Counted \ {o}) \cup ready[o]) =
              Cardinality(Counted \ {o}) + Cardinality(ready[o]) - Cardinality({})
        BY <3>1, <3>2, <3>3, FS_Union
      <3> QED
        BY <1>5, <2>5, <3>1, <3>2, <3>4, FS_EmptySet
    <2>7. Counts'
      <3>1. Cardinality(ready[o]) \in Nat
        BY OpSets
      <3> QED
        BY <1>1, <1>3, <1>5, <2>1, <2>6, <3>1 DEF Counts
    <2>8. ReadyLists'
      <3>1. RootsLeft' = RootsLeft
        BY <1>1, <1>2, <2>3 DEF RootsLeft
      <3> QED
        BY <1>1, <1>4, <1>11, <2>3, <3>1 DEF ReadyLists
    <2>9. FailedStops'
      BY <1>1, <2>3 DEF FailedStops
    <2>10. OneFinisher'
      <3>1. \A q \in Ops : ~Ender(q)' /\ pc'[q] # "finishing"
        BY <1>6, <2>3 DEF Ender
      <3> QED
        BY <1>1, <1>6, <1>9, <3>1 DEF OneFinisher
    <2> QED
      BY <1>8, <2>7, <2>8, <2>9, <2>10
  <1> QED
    BY <1>10, <1>11

(* An op that leaves a `ready' list for runner_ was counted already. *)
LEMMA ScheduleReadyKeeps ==
  ASSUME IInv, NEW o \in Ops, NEW r \in Ops, ScheduleReady(o, r)
  PROVE  ReadyLists' /\ FailedStops' /\ Counts' /\ OneFinisher' /\ Ending'
  <1> USE DEF IInv, TypeOK, deferred_vars, finish_vars, done_vars
  <1>1. /\ failed' = failed /\ run_pc' = run_pc /\ num_outstanding_ops' = num_outstanding_ops
        /\ deferred' = deferred /\ num_deferred_ops' = num_deferred_ops
        /\ finish_when_deferred_ops_done' = finish_when_deferred_ops_done
        /\ finish_calls' = finish_calls /\ finish_pc' = finish_pc /\ done_calls' = done_calls
        /\ alive' = alive /\ done_cb' = done_cb
    BY DEF ScheduleReady
  <1>2. pc[o] = "schedule" /\ r \in ready[o] /\ pc[r] = "activated" /\ r # o
    BY DEF ScheduleReady, ReadyLists
  <1>3. ready[r] = {} /\ \A q \in Ops : r \in ready[q] => q = o
    BY <1>2 DEF ReadyLists
  <1>4. \A q \in Ops : ready'[q] = IF q = o THEN ready[o] \ {r} ELSE ready[q]
    BY DEF ScheduleReady
  <1>5. \A q \in Ops : pc'[q] = IF q = r THEN "scheduled"
                                ELSE IF q = o /\ ready[o] = {r} THEN "over" ELSE pc[q]
    BY <1>2 DEF ScheduleReady
  <1>6. r \in Counted /\ Counted' = Counted
    <2>1. r \in Counted /\ r \in Counted'
      BY <1>2, <1>3, <1>5 DEF Counted
    <2>2. \A q \in Ops : q # r => (q \in Counted' <=> q \in Counted)
      BY <1>2, <1>4, <1>5 DEF Counted
    <2> QED
      BY <2>1, <2>2 DEF Counted
  <1>7. Pending' = Pending
    BY <1>1 DEF Pending
  <1>8. RootsLeft' = RootsLeft
    BY <1>2, <1>4, <1>5 DEF RootsLeft
  <1>9. ReadyLists'
    <2>1. \A q \in Ops : ready'[q] # {} => pc'[q] \in {"account", "schedule"}
      BY <1>2, <1>3, <1>4, <1>5 DEF ReadyLists
    <2>2. \A q \in Ops : pc'[q] = "schedule" => ready'[q] # {}
      BY <1>2, <1>4, <1>5 DEF ReadyLists
    <2>3. \A p, q \in Ops : q \in ready'[p] => pc'[q] = "activated"
      BY <1>2, <1>3, <1>4, <1>5 DEF ReadyLists
    <2>4. \A p, q, s \in Ops : s \in ready'[p] /\ s \in ready'[q] => p = q
      BY <1>4 DEF ReadyLists
    <2>5. \A q \in Ops : pc'[q] = "activated" =>
            run_pc' = "scheduling" \/ \E p \in Ops : q \in ready'[p]
      BY <1>1, <1>2, <1>4, <1>5 DEF ReadyLists
    <2> QED
      BY <2>5, <1>1, <1>8, <2>1, <2>2, <2>3, <2>4 DEF ReadyLists
  <1>10. FailedStops'
    BY <1>1, <1>2, <1>4, <1>5 DEF FailedStops
  <1>11. Counts'
    BY <1>1, <1>6, <1>7 DEF Counts
  <1>12. OneFinisher'
    BY <1>1, <1>5, <1>6, <1>7 DEF OneFinisher, Ender
  <1>13. ~NotBegun /\ ~EndedByRunAsync
    BY <1>2 DEF NotBegun, EndedByRunAsync
  <1>14. Ending'
    BY <1>1, <1>13 DEF Ending, GoingOn, EndedByFinish
  <1> QED
    BY <1>9, <1>10, <1>11, <1>12, <1>14

(* The right to finish goes from the last op to the deferred ops or to       *)
(* Finish.                                                                   *)
LEMMA FinishKeeps ==
  ASSUME IInv, NEW o \in Ops, ScheduleFinish(o) \/ FinishMoves(o)
  PROVE  ReadyLists' /\ FailedStops' /\ Counts' /\ OneFinisher' /\ Ending'
  <1> USE DEF IInv, TypeOK, deferred_vars, finish_vars, done_vars
  <1>1. /\ ready' = ready /\ failed' = failed /\ run_pc' = run_pc
        /\ num_outstanding_ops' = num_outstanding_ops
        /\ num_deferred_ops' = num_deferred_ops
        /\ done_calls' = done_calls /\ alive' = alive
    BY DEF ScheduleFinish, FinishMoves
  <1>2. Counted = {} /\ finish_calls = 0
    BY DEF ScheduleFinish, FinishMoves, OneFinisher, Ender
  <1>3. \A q \in Ops : pc[q] \in {"none", "finish", "finishing", "over"}
    BY <1>2, NothingCounted
  <1>4. \A q \in Ops : pc'[q] = pc[q] \/ (q = o /\ Ender(o) /\ pc'[q] \in {"finishing", "over"})
    BY DEF ScheduleFinish, FinishMoves, Ender
  <1>5. \A q \in Ops : ready[q] = {}
    BY <1>3 DEF ReadyLists
  <1>6. Counted' = {}
    BY <1>3, <1>4 DEF Counted
  <1>7. Pending' = Pending
    BY DEF ScheduleFinish, FinishMoves, Pending
  <1>8. ReadyLists'
    <2>1. run_pc # "scheduling"
      BY <1>2, NothingCounted
    <2> QED
      BY <1>1, <1>3, <1>4, <1>5, <2>1 DEF ReadyLists
  <1>9. FailedStops'
    BY <1>1, <1>3, <1>4, <1>5 DEF FailedStops, Ender
  <1>10. Counts'
    BY <1>1, <1>2, <1>6, <1>7 DEF Counts
  <1>11. GoingOn
    <2>1. ~NotBegun /\ ~EndedByRunAsync
      BY DEF ScheduleFinish, FinishMoves, NotBegun, EndedByRunAsync
    <2> QED
      BY <1>2, <2>1 DEF Ending, EndedByFinish
  <1>12. CASE ScheduleFinish(o)
    <2>1. Ender(o) /\ pc[o] = "finish" /\ ~finish_when_deferred_ops_done
      BY <1>12 DEF ScheduleFinish, Ender, OneFinisher
    <2>2. deferred' = deferred /\ finish_calls' = finish_calls
      BY <1>12 DEF ScheduleFinish
    <2>3. \A q \in Ops : Ender(q) => q = o
      BY <2>1 DEF OneFinisher
    <2>4. \A q \in Ops : deferred[q] # "finish"
      BY <2>1 DEF OneFinisher
    <2>5. CASE num_deferred_ops > 0
      <3>1. pc' = [pc EXCEPT ![o] = "over"]
        BY <1>12, <2>5 DEF ScheduleFinish
      <3>2. \A q \in Ops : ~Ender(q)' /\ pc'[q] # "finishing"
        BY <2>3, <3>1 DEF Ender
      <3> QED
        <4>1. OneFinisher'
          BY <1>2, <1>6, <2>2, <2>4, <3>2 DEF OneFinisher
        <4>2. GoingOn'
          BY <1>1, <1>11, <1>12 DEF ScheduleFinish, GoingOn
        <4> QED
          BY <1>8, <1>9, <1>10, <4>1, <4>2 DEF Ending
    <2>6. CASE ~(num_deferred_ops > 0)
      <3>1. Pending = {}
        <4>1. Pending \in SUBSET Ops
          BY DEF Pending
        <4> QED
          BY <2>6, <4>1, OpSets DEF Counts
      <3>2. finish_when_deferred_ops_done' = finish_when_deferred_ops_done
        BY <1>12, <2>6 DEF ScheduleFinish
      <3>3. \A q \in Ops : Ender(q)' => q = o
        BY <1>4, <2>3 DEF Ender
      <3>4. OneFinisher'
        BY <1>2, <1>6, <1>7, <2>1, <2>2, <2>4, <3>1, <3>2, <3>3 DEF OneFinisher
      <3>5. GoingOn'
        BY <1>1, <1>11, <1>12 DEF ScheduleFinish, GoingOn
      <3> QED
        BY <1>8, <1>9, <1>10, <3>4, <3>5 DEF Ending
    <2> QED
      BY <2>5, <2>6
  <1>13. CASE FinishMoves(o)
    <2>1. /\ finish_calls' = 1 /\ finish_pc' = "moved" /\ ~done_cb'
          /\ finish_when_deferred_ops_done' = finish_when_deferred_ops_done
      BY <1>2, <1>13 DEF FinishMoves
    <2>2. Pending = {}
      BY <1>13 DEF FinishMoves, OneFinisher
    <2>3. \A q \in Ops : ~Ender(q)' /\ pc'[q] # "finishing"
      <3>1. CASE pc[o] = "finishing" /\ pc' = [pc EXCEPT ![o] = "over"]
        BY <3>1 DEF OneFinisher, Ender
      <3>2. CASE deferred[o] = "finish" /\ pc' = pc
        BY <3>2 DEF OneFinisher, Ender
      <3> QED
        BY <1>13, <3>1, <3>2 DEF FinishMoves
    <2>4. \A q \in Ops : deferred'[q] # "finish"
      <3>1. CASE pc[o] = "finishing" /\ deferred' = deferred
        BY <3>1 DEF OneFinisher, Ender
      <3>2. CASE deferred[o] = "finish" /\ deferred' = [deferred EXCEPT ![o] = "done"]
        BY <3>2 DEF OneFinisher
      <3> QED
        BY <1>13, <3>1, <3>2 DEF FinishMoves
    <2>5. OneFinisher'
      BY <1>6, <1>7, <2>1, <2>2, <2>3, <2>4 DEF OneFinisher
    <2>6. EndedByFinish'
      BY <1>1, <1>11, <2>1 DEF GoingOn, EndedByFinish
    <2> QED
      BY <1>8, <1>9, <1>10, <2>5, <2>6 DEF Ending
  <1> QED
    BY <1>12, <1>13

--------------------------------------------------------------------------------
(* Every step keeps the invariant. *)
LEMMA NextIInv == IInv /\ [Next]_vars => IInv'
  <1> SUFFICES ASSUME IInv, [Next]_vars PROVE IInv'
    OBVIOUS
  <1>1. TypeOK'
    BY TypeStep DEF IInv
  <1> DEFINE Rest == ReadyLists' /\ FailedStops' /\ Counts' /\ OneFinisher' /\ Ending'
  <1>2. ASSUME RunAsync PROVE Rest
    BY <1>2, RunAsyncKeeps
  <1>3. ASSUME NEW o \in Ops, Op(o) PROVE Rest
    <2>1. CASE \/ Compute(o)
               \/ \E cancelled \in BOOLEAN : ComputeFails(o, cancelled)
               \/ RecordError(o) \/ AbortRendezvous(o) \/ AbortCollective(o) \/ NodeDoneCancels(o)
      BY <2>1, MovesKeep
    <2>2. CASE IncNumDeferredOps(o) \/ DecNumDeferredOps(o)
      BY <2>2, DeferredKeeps
    <2>3. CASE \E S \in SUBSET Ops : ComputeSucceeds(o, S)
      BY <2>3, ComputeSucceedsKeeps
    <2>4. CASE Account(o)
      BY <2>4, AccountKeeps
    <2>5. CASE \E q \in Ops : ScheduleReady(o, q)
      BY <2>5, ScheduleReadyKeeps
    <2>6. CASE ScheduleFinish(o)
      BY <2>6, FinishKeeps
    <2> QED
      BY <1>3, <2>1, <2>2, <2>3, <2>4, <2>5, <2>6 DEF Op
  <1>4. ASSUME NEW o \in Ops, FinishMoves(o) PROVE Rest
    BY <1>4, FinishKeeps
  <1>5. ASSUME Finish PROVE Rest
    <2>1. UNCHANGED <<run_pc, op_vars, num_outstanding_ops, deferred_vars, finish_calls>>
      BY <1>5 DEF Finish, FinishAsksDevice, FinishAborts, FinishCancels, FinishDeletes,
                  FinishCallsDone
    <2>2. EndedByFinish
      BY <1>5 DEF Finish, FinishAsksDevice, FinishAborts, FinishCancels, FinishDeletes,
                  FinishCallsDone, IInv, Ending, NotBegun, GoingOn, EndedByRunAsync
    <2>3. EndedByFinish'
      <3>1. CASE FinishAsksDevice
        BY <2>2, <3>1 DEF FinishAsksDevice, EndedByFinish, done_vars
      <3>2. CASE FinishAborts
        BY <2>2, <3>2 DEF FinishAborts, EndedByFinish, done_vars
      <3>3. CASE FinishCancels
        BY <2>2, <3>3 DEF FinishCancels, EndedByFinish, done_vars
      <3>4. CASE FinishDeletes
        BY <2>2, <3>4 DEF FinishDeletes, EndedByFinish, done_vars
      <3>5. CASE FinishCallsDone
        BY <2>2, <3>5 DEF FinishCallsDone, EndedByFinish, done_vars
      <3> QED
        BY <1>5, <3>1, <3>2, <3>3, <3>4, <3>5 DEF Finish
    <2> QED
      BY <2>1, <2>3, OpsUnmoved DEF IInv, Ending
  <1>6. ASSUME UserCancels \/ UNCHANGED vars PROVE Rest
    <2>1. /\ UNCHANGED <<run_pc, op_vars, num_outstanding_ops, deferred_vars>>
          /\ UNCHANGED <<finish_pc, alive, done_cb, finish_calls, done_calls>>
      BY <1>6 DEF UserCancels, vars, finish_vars, done_vars
    <2>2. Ending'
      BY <2>1 DEF IInv, Ending, NotBegun, GoingOn, EndedByRunAsync, EndedByFinish, op_vars,
                  deferred_vars
    <2> QED
      BY <2>1, <2>2, OpsUnmoved DEF IInv
  <1>7. Rest
    BY <1>2, <1>3, <1>4, <1>5, <1>6 DEF Next
  <1> QED
    BY <1>1, <1>7 DEF IInv

(* The inductive invariant holds of every run of the executor. *)
THEOREM ExecutorInvariant == Spec => []IInv
  BY InitIInv, NextIInv, PTL DEF Spec

(* Every variable of the executor keeps its type; in particular the counters *)
(* num_outstanding_ops_ and num_deferred_ops_ never go below zero.           *)
THEOREM ExecutorTypes == Spec => []TypeOK
  <1>1. IInv => TypeOK
    BY DEF IInv
  <1> QED
    BY <1>1, ExecutorInvariant, PTL

(* num_outstanding_ops_ is exact whatever the order of concurrent NodeDones. *)
THEOREM CountIsExact == Spec => []OutstandingExact
  <1>1. IInv => OutstandingExact
    BY DEF IInv, Counts, OutstandingExact
  <1> QED
    BY <1>1, ExecutorInvariant, PTL

(* When `delete this' has run, no op, no thread of NodeDone, ScheduleReady   *)
(* or RunAsync and no deferred op will touch the object.                     *)
THEOREM DeleteIsSafe == Spec => []NoUseAfterDelete
  <1>1. IInv => NoUseAfterDelete
    <2> SUFFICES ASSUME IInv, ~alive PROVE NoUseAfterDelete
      BY DEF NoUseAfterDelete
    <2>1. CASE EndedByRunAsync
      BY <2>1 DEF EndedByRunAsync, NoUseAfterDelete
    <2>2. CASE EndedByFinish
      <3>1. Counted = {} /\ Pending = {} /\ finish_calls = 1
        BY <2>2 DEF EndedByFinish, IInv, OneFinisher
      <3>2. \A o \in Ops : pc[o] \in {"none", "finish", "finishing", "over"}
        BY <3>1, NothingCounted DEF IInv
      <3>3. \A o \in Ops : ~Ender(o) /\ deferred[o] # "finish"
        BY <3>1 DEF IInv, OneFinisher
      <3>4. \A o \in Ops : pc[o] \in {"none", "over"} /\ deferred[o] \in {"no", "done"}
        BY <3>1, <3>2, <3>3 DEF Ender, Pending, IInv, TypeOK
      <3>5. run_pc = "returned"
        BY <2>2, <3>1, NothingCounted DEF EndedByFinish, IInv, TypeOK
      <3> QED
        BY <3>4, <3>5 DEF NoUseAfterDelete
    <2> QED
      BY <2>1, <2>2 DEF IInv, Ending, NotBegun, GoingOn
  <1> QED
    BY <1>1, ExecutorInvariant, PTL

(* Finish is called at most once and finds done_cb_ set, and the done        *)
(* callback is called at most once.                                          *)
THEOREM FinishIsCalledOnce == Spec => []FinishOnce
  <1>1. IInv => FinishOnce
    <2> SUFFICES ASSUME IInv PROVE FinishOnce
      OBVIOUS
    <2>1. finish_calls <= 1
      BY DEF IInv, OneFinisher
    <2>2. done_calls <= 1
      BY DEF IInv, Ending, NotBegun, GoingOn, EndedByRunAsync, EndedByFinish
    <2>3. ASSUME NEW o \in Ops, pc[o] = "finishing" \/ deferred[o] = "finish" PROVE done_cb
      <3>1. finish_calls = 0
        BY <2>3 DEF IInv, OneFinisher, Ender
      <3> QED
        BY <2>3, <3>1 DEF IInv, Ending, NotBegun, GoingOn, EndedByRunAsync, EndedByFinish
    <2> QED
      BY <2>1, <2>2, <2>3 DEF FinishOnce
  <1> QED
    BY <1>1, ExecutorInvariant, PTL

--------------------------------------------------------------------------------
(* The way of the first error: status_ is the first one that came (the       *)
(* history agrees with it at every moment), it is the error of an op that has*)
(* failed and has left "error", and every failed op is either before         *)
(* RecordError or finds status_ set; the op whose error was recorded aborts  *)
(* the rendezvous, then the collectives, then starts the cancellation; what  *)
(* Finish moved out of status_ is what the done callback is given.           *)
Recorded ==
  /\ \A o \in Ops : pc[o] = "error" => failed[o]
  /\ \A o \in Ops : failed[o] => pc[o] = "error" \/ status # OK
  /\ status # OK => failed[status] /\ pc[status] # "error"
  /\ first_error = status

Aborted ==
  status # OK =>
    /\ pc[status] = "abort_rendezvous" \/ rendezvous_aborted
    /\ pc[status] \in {"abort_rendezvous", "abort_collective"} \/ collective_aborted
    /\ \/ pc[status] \in {"abort_rendezvous", "abort_collective", "start_cancel"}
       \/ cancel_phase # "none"

Handed ==
  /\ finish_pc # "idle" /\ status # OK => finish_status = status
  /\ finish_pc = "over" => done_status = finish_status

EInv == Recorded /\ Aborted /\ Handed

(* In the step the op stays, or it moves on and not to "error", and if it    *)
(* has failed it was past the aborts.                                        *)
Passes(o) ==
  \/ pc'[o] = pc[o]
  \/ /\ pc'[o] # "error"
     /\ failed[o] => pc[o] \in {"account", "finish", "finishing"}

(* A step in which no op fails, records its error or aborts anything leaves  *)
(* the first error where it was.                                             *)
LEMMA RecordedKept ==
  ASSUME TypeOK, FailedStops, Recorded, Aborted, status' = status,
         first_error' = first_error, failed' = failed,
         rendezvous_aborted => rendezvous_aborted', collective_aborted => collective_aborted',
         cancel_phase # "none" => cancel_phase' # "none",
         \A o \in Ops : Passes(o)
  PROVE  Recorded' /\ Aborted'
  <1> USE DEF TypeOK, Passes
  <1>1. Recorded'
    BY DEF Recorded
  <1>2. Aborted'
    BY DEF Aborted, Recorded
  <1> QED
    BY <1>1, <1>2

(* Every step keeps the way of the first error. *)
LEMMA ErrorStep == IInv /\ EInv /\ [Next]_vars => EInv'
  <1> SUFFICES ASSUME IInv, EInv, [Next]_vars PROVE EInv'
    OBVIOUS
  <1> USE DEF op_vars, status_vars, deferred_vars, abort_vars, cancel_vars, finish_vars,
              done_vars
  <1>0. TypeOK /\ FailedStops /\ Recorded /\ Aborted /\ Handed
    BY DEF IInv, EInv
  <1>1. ASSUME NEW s \in {OK, Device}, RunAsyncEnds(s) PROVE EInv'
    <2>1. NotBegun
      BY <1>1 DEF RunAsyncEnds, IInv, Ending, GoingOn, EndedByRunAsync, EndedByFinish
    <2>2. Recorded' /\ Aborted'
      BY <1>0, <1>1, RecordedKept DEF RunAsyncEnds, Passes
    <2>3. finish_pc' = "idle"
      BY <1>1, <2>1 DEF RunAsyncEnds, NotBegun
    <2> QED
      BY <2>2, <2>3 DEF EInv, Handed
  <1>2. ASSUME NEW roots \in SUBSET Ops, RunAsyncStarts(roots) PROVE EInv'
    <2>1. NotBegun
      BY <1>2 DEF RunAsyncStarts, IInv, Ending, GoingOn, EndedByRunAsync, EndedByFinish
    <2>2. \A o \in Ops : ~failed[o]
      BY <1>0, <2>1 DEF NotBegun, FailedStops
    <2>3. \A q \in Ops : Passes(q)
      BY <1>0, <1>2, <2>2 DEF RunAsyncStarts, Activate, Passes
    <2>4. Recorded' /\ Aborted'
      BY <1>0, <1>2, <2>3, RecordedKept DEF RunAsyncStarts
    <2> QED
      BY <1>0, <1>2, <2>4 DEF RunAsyncStarts, EInv, Handed
  <1>3. ASSUME NEW o \in Ops, RunAsyncSchedules(o) PROVE EInv'
    <2>1. ~failed[o]
      BY <1>0, <1>3 DEF RunAsyncSchedules, RootsLeft, FailedStops
    <2>2. \A q \in Ops : Passes(q)
      BY <1>0, <1>3, <2>1 DEF RunAsyncSchedules, TypeOK, Passes
    <2>3. Recorded' /\ Aborted'
      BY <1>0, <1>3, <2>2, RecordedKept DEF RunAsyncSchedules
    <2> QED
      BY <1>0, <1>3, <2>3 DEF RunAsyncSchedules, EInv, Handed
  <1>4. ASSUME NEW o \in Ops, Op(o) PROVE EInv'
    <2>1. CASE \/ Compute(o) \/ (\E S \in SUBSET Ops : ComputeSucceeds(o, S))
               \/ (\E q \in Ops : ScheduleReady(o, q))
      <3>1. UNCHANGED <<status_vars, abort_vars, cancel_vars, failed, finish_vars, done_vars>>
        BY <2>1 DEF Compute, ComputeSucceeds, ScheduleReady
      <3>2. \A q \in Ops : Passes(q)
        <4>1. ASSUME Compute(o) PROVE <3>2
          BY <1>0, <4>1 DEF Compute, TypeOK, FailedStops, Passes
        <4>2. ASSUME NEW S \in SUBSET Ops, ComputeSucceeds(o, S) PROVE <3>2
          BY <1>0, <4>2 DEF ComputeSucceeds, TypeOK, FailedStops, Passes
        <4>3. ASSUME NEW r \in Ops, ScheduleReady(o, r) PROVE <3>2
          <5>1. pc[r] = "activated" /\ ready[o] # {}
            BY <4>3 DEF ScheduleReady, IInv, ReadyLists
          <5> QED
            BY <1>0, <4>3, <5>1 DEF ScheduleReady, TypeOK, FailedStops, Passes
        <4> QED
          BY <2>1, <4>1, <4>2, <4>3
      <3>3. Recorded' /\ Aborted'
        BY <1>0, <3>1, <3>2, RecordedKept
      <3> QED
        BY <1>0, <3>1, <3>3 DEF EInv, Handed
    <2>2. CASE IncNumDeferredOps(o) \/ DecNumDeferredOps(o)
      <3>1. UNCHANGED <<op_vars, status_vars, abort_vars, cancel_vars, finish_vars, done_vars>>
        BY <2>2 DEF IncNumDeferredOps, DecNumDeferredOps
      <3>2. Recorded' /\ Aborted'
        BY <1>0, <3>1, RecordedKept DEF Passes
      <3> QED
        BY <1>0, <3>1, <3>2 DEF EInv, Handed
    <2>3. CASE \E c \in BOOLEAN : ComputeFails(o, c)
      <3>1. /\ pc[o] = "computing" /\ pc' = [pc EXCEPT ![o] = "error"]
            /\ failed' = [failed EXCEPT ![o] = TRUE]
            /\ UNCHANGED <<status_vars, abort_vars, cancel_vars, finish_vars, done_vars>>
        BY <2>3 DEF ComputeFails
      <3>2. ~failed[o] /\ (status # OK => status # o)
        BY <1>0, <3>1 DEF FailedStops, Recorded
      <3>3. Recorded'
        BY <1>0, <3>1, <3>2 DEF Recorded, TypeOK
      <3>4. Aborted'
        BY <1>0, <3>1, <3>2 DEF Aborted, TypeOK
      <3> QED
        BY <1>0, <3>1, <3>3, <3>4 DEF EInv, Handed
    <2>4. CASE RecordError(o)
      <3>1. /\ pc[o] = "error"
            /\ UNCHANGED <<failed, abort_vars, cancel_vars, finish_vars, done_vars>>
        BY <2>4 DEF RecordError
      <3>2. CASE status = OK
        <4>1. status' = o /\ first_error' = o /\ pc' = [pc EXCEPT ![o] = "abort_rendezvous"]
          BY <1>0, <2>4, <3>2 DEF RecordError, NoteError, Recorded
        <4>2. failed[o]
          BY <1>0, <3>1 DEF Recorded
        <4>3. finish_pc = "idle"
          <5>1. o \in Counted
            BY <3>1 DEF Counted
          <5> QED
            BY <3>1, <5>1 DEF IInv, OneFinisher, Ending, NotBegun, GoingOn, EndedByRunAsync,
                              EndedByFinish
        <4>4. Recorded' /\ Aborted'
          BY <1>0, <3>1, <4>1, <4>2, OpsAssumption DEF Recorded, Aborted, TypeOK
        <4> QED
          BY <1>0, <3>1, <4>3, <4>4 DEF EInv, Handed
      <3>3. CASE status # OK
        <4>1. /\ status' = status /\ first_error' = first_error
              /\ pc' = [pc EXCEPT ![o] = "account"]
          BY <1>0, <2>4, <3>3 DEF RecordError, NoteError, Recorded
        <4>2. status # o
          BY <1>0, <3>1, <3>3 DEF Recorded
        <4>3. Recorded' /\ Aborted'
          BY <1>0, <3>1, <3>3, <4>1, <4>2 DEF Recorded, Aborted, TypeOK
        <4> QED
          BY <1>0, <3>1, <4>1, <4>3 DEF EInv, Handed
      <3> QED
        BY <3>2, <3>3
    <2>5. CASE AbortRendezvous(o) \/ AbortCollective(o)
      <3>1. UNCHANGED <<status_vars, cancel_vars, failed, finish_vars, done_vars>>
        BY <2>5 DEF AbortRendezvous, AbortCollective
      <3>2. Recorded'
        BY <1>0, <2>5, <3>1 DEF AbortRendezvous, AbortCollective, Recorded, TypeOK
      <3>3. Aborted'
        BY <1>0, <2>5, <3>1 DEF AbortRendezvous, AbortCollective, Aborted, TypeOK
      <3> QED
        BY <1>0, <3>1, <3>2, <3>3 DEF EInv, Handed
    <2>6. CASE NodeDoneCancels(o)
      <3>1. UNCHANGED <<status_vars, abort_vars, failed, finish_vars, done_vars>>
        BY <2>6 DEF NodeDoneCancels
      <3>2. cancel_phase' # "none"
        BY <2>6 DEF NodeDoneCancels, CancelEnters
      <3>3. pc[o] \in {"start_cancel", "cancelling"} /\ \E x \in {"cancelling", "account"} : pc' = [pc EXCEPT ![o] = x]
        BY <2>6 DEF NodeDoneCancels
      <3>4. Recorded'
        BY <1>0, <3>1, <3>3 DEF Recorded, TypeOK
      <3>5. Aborted'
        BY <1>0, <3>1, <3>2, <3>3 DEF Aborted, TypeOK
      <3> QED
        BY <1>0, <3>1, <3>4, <3>5 DEF EInv, Handed
    <2>7. CASE Account(o) \/ ScheduleFinish(o)
      <3>1. UNCHANGED <<status_vars, abort_vars, cancel_vars, failed, finish_vars, done_vars>>
        BY <2>7 DEF Account, ScheduleFinish
      <3>2. \A q \in Ops : Passes(q)
        BY <1>0, <2>7 DEF Account, ScheduleFinish, TypeOK, Passes
      <3>3. Recorded' /\ Aborted'
        BY <1>0, <3>1, <3>2, RecordedKept
      <3> QED
        BY <1>0, <3>1, <3>3 DEF EInv, Handed
    <2> QED
      BY <1>4, <2>1, <2>2, <2>3, <2>4, <2>5, <2>6, <2>7 DEF Op
  <1>5. ASSUME NEW o \in Ops, FinishMoves(o) PROVE EInv'
    <2>1. \A q \in Ops : Passes(q)
      BY <1>0, <1>5 DEF FinishMoves, TypeOK, Passes
    <2>2. Recorded' /\ Aborted'
      BY <1>0, <1>5, <2>1, RecordedKept DEF FinishMoves
    <2> QED
      BY <1>5, <2>2 DEF FinishMoves, EInv, Handed
  <1>6. ASSUME Finish PROVE EInv'
    <2>1. /\ UNCHANGED <<op_vars, status_vars>>
          /\ rendezvous_aborted => rendezvous_aborted'
          /\ collective_aborted => collective_aborted'
          /\ cancel_phase # "none" => cancel_phase' # "none"
      BY <1>6 DEF Finish, FinishAsksDevice, FinishAborts, FinishCancels, FinishDeletes,
                  FinishCallsDone, CancelEnters
    <2>2. Recorded' /\ Aborted'
      BY <1>0, <2>1, RecordedKept DEF Passes
    <2>3. Handed'
      <3>1. CASE FinishAsksDevice
        BY <1>0, <3>1 DEF FinishAsksDevice, UpdateStatus, Handed
      <3>2. CASE ~FinishAsksDevice
        BY <1>0, <1>6, <3>2 DEF Finish, FinishAborts, FinishCancels, FinishDeletes,
                                FinishCallsDone, Handed
      <3> QED
        BY <3>1, <3>2
    <2> QED
      BY <2>2, <2>3 DEF EInv
  <1>7. ASSUME UserCancels \/ UNCHANGED vars PROVE EInv'
    <2>1. /\ UNCHANGED <<op_vars, status_vars, abort_vars, finish_vars, done_vars>>
          /\ cancel_phase # "none" => cancel_phase' # "none"
      BY <1>7 DEF UserCancels, CancelEnters, vars
    <2>2. Recorded' /\ Aborted'
      BY <1>0, <2>1, RecordedKept DEF Passes
    <2> QED
      BY <1>0, <2>1, <2>2 DEF EInv, Handed
  <1> QED
    BY <1>1, <1>2, <1>3, <1>4, <1>5, <1>6, <1>7 DEF Next, RunAsync

(* The step reports the error of the op whose NodeDone came first with one,  *)
(* in whatever order further errors arrive (first_error keeps that op apart  *)
(* from status_), and by then the rendezvous and the collectives are aborted *)
(* and the cancellation has begun: Finish waits for the op that aborts them. *)
THEOREM FirstErrorIsReported == Spec => []FirstErrorReported
  <1>1. Init => EInv
    BY DEF Init, EInv, Recorded, Aborted, Handed
  <1>2. IInv /\ EInv => FirstErrorReported
    <2> SUFFICES ASSUME IInv, EInv, done_calls = 1, NEW o \in Ops, failed[o]
                 PROVE  /\ done_status = first_error
                        /\ first_error \in Ops /\ failed[first_error]
                        /\ rendezvous_aborted /\ collective_aborted
                        /\ cancel_phase # "none"
      BY DEF FirstErrorReported
    <2>1. EndedByFinish /\ finish_pc = "over"
      BY DEF IInv, FailedStops, Ending, NotBegun, GoingOn, EndedByRunAsync, EndedByFinish
    <2>2. Counted = {} /\ \A q \in Ops : ~Ender(q)
      BY <2>1 DEF EndedByFinish, IInv, OneFinisher
    <2>3. \A q \in Ops : pc[q] \in {"none", "over"}
      BY <2>2, NothingCounted DEF IInv, Ender
    <2>4. status # OK /\ status \in Ops
      BY <2>3 DEF EInv, Recorded, IInv, TypeOK
    <2> QED
      BY <2>1, <2>3, <2>4 DEF EInv, Recorded, Aborted, Handed
  <1> QED
    BY <1>1, <1>2, ErrorStep, ExecutorInvariant, PTL DEF Spec

--------------------------------------------------------------------------------
(* Frames and iterations                                                     *)
(*                                                                           *)
(* The counters of a frame and its iterations bound from above what they     *)
(* count (Section, FramesInv).  A critical section is followed through the   *)
(* loops of the functions it calls, one edge, entry or iteration at a time,  *)
(* on an accumulator acc that holds the state of one frame and the nodes     *)
(* found ready; N and C say how many nodes and frames of each iteration are  *)
(* held elsewhere.                                                           *)

(* A set of naturals that is not empty has a least element. *)
LEMMA LeastNumber ==
  ASSUME NEW T \in SUBSET Nat, T # {}
  PROVE  \E m \in T : \A k \in T : m <= k
  <1>1. IsWellFoundedOn(OpToRel(<, Nat), Nat)
    BY NatLessThanWellFounded
  <1>2. PICK m \in T : \A k \in T : ~(<<k, m>> \in OpToRel(<, Nat))
    BY <1>1, WFMin
  <1>3. \A k \in T : ~(k < m)
    BY <1>2 DEF OpToRel
  <1> QED
    BY <1>3

(* Induction up to n, over the set of the numbers for which something holds. *)
LEMMA UpTo ==
  ASSUME NEW n \in Nat, NEW S, 0 \in S, \A k \in 1 .. n : k - 1 \in S => k \in S
  PROVE  n \in S
  <1> DEFINE T == {k \in 0 .. n : k \notin S}
  <1> SUFFICES ASSUME T # {} PROVE FALSE
    OBVIOUS
  <1>1. PICK m \in T : \A k \in T : m <= k
    <2>1. T \in SUBSET Nat
      OBVIOUS
    <2> QED
      BY <2>1, LeastNumber
  <1>2. m # 0 /\ m \in 1 .. n /\ m - 1 \in 0 .. n
    BY <1>1
  <1>3. m - 1 \notin T
    BY <1>1, <1>2
  <1> QED
    BY <1>1, <1>2, <1>3

(* A loop with n rounds whose state stays in T has a function of its states. *)
RunOf(f, b, n, step) == f[0] = b /\ \A i \in 1 .. n : f[i] = step[<<f[i - 1], i>>]

(* That function exists. *)
LEMMA Iteration ==
  ASSUME NEW T, NEW b \in T, NEW n \in Nat, NEW step \in [T \X (1 .. n) -> T]
  PROVE  \E f \in [0 .. n -> T] : RunOf(f, b, n, step)
  <1> DEFINE Run(f, k) == f[0] = b /\ \A i \in 1 .. k : f[i] = step[<<f[i - 1], i>>]
             S == {k \in 0 .. n : \E f \in [0 .. n -> T] : Run(f, k)}
  <1>1. 0 \in S
    <2>1. PICK f : f = [i \in 0 .. n |-> b]
      OBVIOUS
    <2>2. f \in [0 .. n -> T] /\ f[0] = b /\ 0 \in 0 .. n /\ 1 .. 0 = {}
      BY <2>1
    <2>3. Run(f, 0)
      BY <2>2
    <2> HIDE DEF Run
    <2> QED
      BY <2>2, <2>3
  <1>2. ASSUME NEW k \in 1 .. n, k - 1 \in S
        PROVE  k \in S
    <2>1. PICK f \in [0 .. n -> T] : Run(f, k - 1)
      BY <1>2
    <2>2. PICK g : g = [f EXCEPT ![k] = step[<<f[k - 1], k>>]]
      OBVIOUS
    <2>3. k - 1 \in 0 .. n /\ k \in 0 .. n /\ <<f[k - 1], k>> \in T \X (1 .. n)
      OBVIOUS
    <2>4. g \in [0 .. n -> T] /\ g[k] = step[<<f[k - 1], k>>] /\ \A i \in 0 .. n : i # k => g[i] = f[i]
      BY <2>2, <2>3
    <2>5. g[0] = b
      BY <2>1, <2>4
    <2>6. ASSUME NEW i \in 1 .. k
          PROVE  g[i] = step[<<g[i - 1], i>>]
      <3>1. i - 1 \in 0 .. n /\ i - 1 # k /\ i \in 0 .. n
        OBVIOUS
      <3>2. g[i - 1] = f[i - 1]
        BY <2>4, <3>1
      <3>3. i # k => i \in 1 .. k - 1
        OBVIOUS
      <3> QED
        BY <2>1, <2>4, <3>1, <3>2, <3>3
    <2> QED
      BY <2>4, <2>5, <2>6
  <1>3. n \in S
    <2> HIDE DEF S
    <2> QED
      BY <1>1, <1>2, UpTo
  <1> QED
    BY <1>3 DEF RunOf

--------------------------------------------------------------------------------
(* Types.  What depends on a frame depends on the static frame it is of. *)

Names == {ChildName[n] : n \in {m \in Nodes : IsEnter(m)}}
Paths == Seq(Names \X Nat)
NodesOf(name) == {n \in Nodes : FrameName[n] = name}
Plain(n) == Kind[n] # "merge"

(* A tagged node is of the static frame that its frame is an instance of. *)
TaggedNodes ==
  {tn \in [node : Nodes, frame : Paths, iter : Nat, dead : BOOLEAN] : FrameName[tn.node] = NameOf(tn.frame)}

(* Node n has one output at most, and delivers it to nodes of the frame `name'. *)
Feeds(n, name) == \A e \in EdgeSet : e.src = n => e.slot # 1 /\ FrameName[e.dst] = name
EntriesTo(name) == [node : {n \in Nodes : Feeds(n, name)}, has_value : BOOLEAN]

(* The slots of a frame's circular buffer, and how many may be in use. *)
Size(f) == IF f = Root THEN 1 ELSE MaxParallel[NameOf(f)] + 1
Capacity(f) == IF f = Root THEN 1 ELSE MaxParallel[NameOf(f)]

(* The values of the C++ types IterationState and FrameState. *)
IterationStates(name) ==
  [iter : Nat, pending : [NodesOf(name) -> Int], dead_count : [NodesOf(name) -> Int],
   outstanding_ops : Int, outstanding_frame_count : Int]

FrameStates(f) ==
  [num_pending_inputs : Nat, iteration_count : Nat, num_outstanding_iterations : Nat,
   iterations : [0 .. Size(f) - 1 -> IterationStates(NameOf(f)) \cup {Null}],
   next_iter_roots : Seq(EntriesTo(NameOf(f))), inv_values : Seq(EntriesTo(NameOf(f))),
   dead_exits : Seq({n \in NodesOf(NameOf(f)) : Kind[n] = "exit"})]

Accs(f) == [fr : FrameStates(f), ready : SUBSET TaggedNodes, is_done : BOOLEAN]

Procs ==
  [tn : TaggedNodes, ready : SUBSET TaggedNodes, at : Paths, at_iter : Nat,
   pc : {"process", "create", "enter", "decrement", "delete", "erase", "cleanup"}]

--------------------------------------------------------------------------------
(* One frame *)

(* The iterations that run are the last num_outstanding_iterations ones. *)
First(fr) == fr.iteration_count - fr.num_outstanding_iterations + 1
Live(fr, i) == First(fr) <= i /\ i <= fr.iteration_count

(* The circular buffer holds these iterations, each in its slot, and nothing *)
(* else; inputs can only be missing while iteration 0 runs; the root frame   *)
(* has no other iteration.                                                   *)
Window(fr, f) ==
  /\ First(fr) \in Nat /\ fr.num_outstanding_iterations <= Capacity(f)
  /\ \A i \in Nat : Live(fr, i) => fr.iterations[i % Size(f)].iter = i
  /\ \A j \in 0 .. Size(f) - 1 : fr.iterations[j] # Null => Live(fr, fr.iterations[j].iter)
                                                           /\ fr.iterations[j].iter % Size(f) = j
  /\ fr.num_pending_inputs # 0 => First(fr) = 0
  /\ f = Root => fr.iteration_count = 0 /\ fr.next_iter_roots = <<>>

(* Frame state fr with state s in slot j. *)
Replaced(fr, j, s) == [fr EXCEPT !.iterations = [fr.iterations EXCEPT ![j] = s]]

(* The first part of IncrementIteration. *)
Started(acc, f) == [acc EXCEPT !.fr = BeginIteration(acc.fr, f, acc.fr.iteration_count + 1)]

(* Iteration i has been deleted. *)
Dropped(acc, i) == [acc EXCEPT !.fr = DeleteIteration(acc.fr, i)]

(* The members of R that are of iteration i of frame f. *)
At(tn, f, i) == tn.frame = f /\ tn.iter = i
Those(R, f, i) == {tn \in R : At(tn, f, i)}

Tallies == [Nat -> Nat]

(* N[i] nodes and C[i] frames of iteration i are outstanding besides `ready'. *)
Tallied(acc, f, N, C) ==
  \A i \in Nat :
    /\ Live(acc.fr, i) =>
         /\ N[i] + Cardinality(Those(acc.ready, f, i)) <= acc.fr.iterations[i % Size(f)].outstanding_ops
         /\ C[i] <= acc.fr.iterations[i % Size(f)].outstanding_frame_count
    /\ ~Live(acc.fr, i) => N[i] = 0 /\ C[i] = 0 /\ Those(acc.ready, f, i) = {}

(* Of a node that has run or is to run nothing is pending; U are the pairs of *)
(* nodes and iterations other than those in `ready'.                          *)
Spent(fr, f, n, i) ==
  /\ i <= fr.iteration_count
  /\ Live(fr, i) => fr.iterations[i % Size(f)].pending[n] <= 0

Pendings(acc, f, U) ==
  /\ \A n \in NodesOf(NameOf(f)), i \in Nat : Plain(n) /\ <<n, i>> \in U => Spent(acc.fr, f, n, i)
  /\ \A x \in acc.ready : x.frame = f /\ Plain(x.node) =>
       Spent(acc.fr, f, x.node, x.iter) /\ <<x.node, x.iter>> \notin U
  /\ \A x, y \in acc.ready :
       x.frame = f /\ y.frame = f /\ x.iter = y.iter /\ x.node = y.node /\ Plain(x.node) => x = y

(* What holds of frame f, and of what a thread in its critical section has   *)
(* found ready so far.                                                       *)
Section(acc, f, N, C, U) ==
  /\ acc \in Accs(f) /\ IsFiniteSet(acc.ready)
  /\ Window(acc.fr, f) /\ Tallied(acc, f, N, C) /\ Pendings(acc, f, U)

--------------------------------------------------------------------------------
(* The circular buffer *)

(* Numbers that are less than S apart have different remainders. *)
LEMMA Remainders ==
  ASSUME NEW S \in Nat \ {0}, NEW i \in Nat, NEW j \in Nat, i <= j, j - i < S, i % S = j % S
  PROVE  i = j
  <1>1. PICK q, r : q = i \div S /\ r = j \div S
    OBVIOUS
  <1>2. q \in Nat /\ r \in Nat /\ i = S * q + (i % S) /\ j = S * r + (j % S)
    BY <1>1
  <1>3. j - i = S * (r - q)
    BY <1>2
  <1>4. r - q <= 0 \/ r - q >= 1
    BY <1>2
  <1>5. r - q >= 1 => S * (r - q) >= S
    BY <1>2
  <1>6. r - q <= 0 => S * (r - q) <= 0
    BY <1>2
  <1> QED
    BY <1>2, <1>3, <1>4, <1>5, <1>6

(* The sizes of a frame. *)
LEMMA Sizes ==
  ASSUME NEW f \in Paths
  PROVE  /\ Size(f) \in Nat \ {0} /\ Capacity(f) \in Nat \ {0} /\ Capacity(f) <= Size(f)
         /\ f # Root => Capacity(f) < Size(f) /\ Capacity(f) = MaxParallel[NameOf(f)] /\ NameOf(f) \in Names
         /\ \A i \in Nat : i % Size(f) \in 0 .. Size(f) - 1
  <1>1. f # Root => NameOf(f) \in Names
    <2>1. f # Root => Len(f) \in 1 .. Len(f) /\ f[Len(f)] \in Names \X Nat
      BY DEF Paths, Root
    <2> QED
      BY <2>1 DEF NameOf
  <1>2. f # Root => MaxParallel[NameOf(f)] \in Nat \ {0}
    BY <1>1, GraphAssumption DEF Names
  <1>3. Size(f) \in Nat \ {0} /\ Capacity(f) \in Nat \ {0} /\ Capacity(f) <= Size(f)
    BY <1>2 DEF Size, Capacity
  <1>4. f # Root => Capacity(f) < Size(f) /\ Capacity(f) = MaxParallel[NameOf(f)]
    BY <1>2 DEF Size, Capacity
  <1>5. \A S \in Nat \ {0}, i \in Nat : i % S \in 0 .. S - 1
    OBVIOUS
  <1> QED
    BY <1>1, <1>3, <1>4, <1>5

(* Where the state of iteration i is. *)
LEMMA Slots ==
  ASSUME NEW f \in Paths, NEW fr \in FrameStates(f), NEW i
  PROVE  Slot(fr, i) = i % Size(f) /\ GetIteration(fr, i) = fr.iterations[i % Size(f)]
  <1>1. DOMAIN fr.iterations = 0 .. Size(f) - 1
    BY DEF FrameStates
  <1>2. Cardinality(0 .. Size(f) - 1) = Size(f)
    <2>1. Size(f) \in Nat /\ Size(f) >= 1
      BY Sizes
    <2> QED
      BY <2>1, FS_Interval
  <1> QED
    BY <1>1, <1>2 DEF Slot, GetIteration

(* The state of an iteration that runs. *)
LEMMA LiveState ==
  ASSUME NEW f \in Paths, NEW fr \in FrameStates(f), Window(fr, f), NEW i \in Nat
  PROVE  /\ Live(fr, i) => fr.iterations[i % Size(f)] \in IterationStates(NameOf(f)) /\ fr.iterations[i % Size(f)] # Null
         /\ ~Live(fr, i) => fr.iterations[i % Size(f)].iter # i
         /\ fr.iterations[i % Size(f)] \in IterationStates(NameOf(f)) \cup {Null}
         /\ \A k \in Nat : Live(fr, i) /\ Live(fr, k) /\ i # k => i % Size(f) # k % Size(f)
  <1>1. i % Size(f) \in 0 .. Size(f) - 1
    BY Sizes
  <1>2. fr.iterations[i % Size(f)] \in IterationStates(NameOf(f)) \cup {Null}
    BY <1>1 DEF FrameStates
  <1>3. Live(fr, i) => fr.iterations[i % Size(f)] # Null
    BY DEF Window, Null
  <1>4. ~Live(fr, i) => fr.iterations[i % Size(f)].iter # i
    BY <1>1 DEF Window, Null
  <1>5. ASSUME NEW k \in Nat, Live(fr, i), Live(fr, k), i % Size(f) = k % Size(f)
        PROVE  i = k
    <2>1. \A a, b \in Nat : Live(fr, a) /\ Live(fr, b) => a - b < Size(f)
      <3>1. Capacity(f) \in Nat /\ Size(f) \in Nat /\ Capacity(f) <= Size(f)
        BY Sizes
      <3>2. fr.iteration_count \in Nat /\ fr.num_outstanding_iterations \in Nat
        BY DEF FrameStates
      <3> QED
        BY <3>1, <3>2 DEF Window, Live, First
    <2> QED
      BY <1>5, <2>1, Sizes, Remainders
  <1> QED
    BY <1>2, <1>3, <1>4, <1>5

--------------------------------------------------------------------------------
(* ActivateNodes *)

Arrivals == [pending : Int, dead_count : Int, ready : BOOLEAN, dead : BOOLEAN]

(* What an edge does to its destination: but for Merges, it counts down. *)
LEMMA ArrivalFacts ==
  ASSUME NEW e \in EdgeSet, NEW it, it.pending[e.dst] \in Int, it.dead_count[e.dst] \in Int,
         NEW is_dead \in BOOLEAN, NEW outputs, ~IsControlEdge(e) => outputs[e.slot] \in BOOLEAN,
         NEW a, a = ActivateEdge(e, it, is_dead, outputs)
  PROVE  /\ a \in Arrivals
         /\ Plain(e.dst) => a.pending = it.pending[e.dst] - 1 /\ (a.ready <=> it.pending[e.dst] = 1)
  <1>1. PICK d, b, c, live : d = e.dst /\ b = it.pending[d] /\ c = it.dead_count[d]
                             /\ live = (~IsControlEdge(e) /\ outputs[e.slot]) /\ live \in BOOLEAN
    OBVIOUS
  <1>2. b \in Int /\ c \in Int /\ b % 2 \in Int
    BY <1>1
  <1>3. CASE Plain(d)
    <2>1. PICK k \in Int : a = [pending |-> b - 1, dead_count |-> k, ready |-> b = 1, dead |-> k > 0]
      BY <1>1, <1>2, <1>3 DEF ActivateEdge, Plain, AdjustForActivation, Arrival
    <2>2. a.pending = b - 1 /\ a.dead_count = k /\ a.ready = (b = 1) /\ a.dead = (k > 0)
      BY <2>1
    <2>3. a.ready \in BOOLEAN /\ a.dead \in BOOLEAN
      BY <2>2
    <2>4. a \in Arrivals
      BY <1>2, <2>1, <2>2, <2>3 DEF Arrivals
    <2> QED
      BY <1>1, <2>2, <2>4
  <1>4. CASE ~Plain(d) /\ IsControlEdge(e)
    <2>1. a = ActivateMergeControl(d, b, c)
      BY <1>1, <1>4 DEF ActivateEdge, Plain
    <2> QED
      BY <1>1, <1>2, <1>4, <2>1 DEF ActivateMergeControl, Arrival, Arrivals
  <1>5. CASE ~Plain(d) /\ live
    <2>1. a = ActivateMergeLive(d, b, c)
      BY <1>1, <1>5 DEF ActivateEdge, Plain
    <2> QED
      BY <1>1, <1>2, <1>5, <2>1 DEF ActivateMergeLive, Arrival, Arrivals
  <1>6. CASE ~Plain(d) /\ ~IsControlEdge(e) /\ ~live
    <2>1. a = ActivateMergeDead(d, b, c, IsEnter(e.src))
      BY <1>1, <1>6 DEF ActivateEdge, Plain
    <2> QED
      BY <1>1, <1>2, <1>6, <2>1 DEF ActivateMergeDead, Arrival, Arrivals, IsEnter
  <1> QED
    BY <1>1, <1>3, <1>4, <1>5, <1>6

(* Only iterations and `ready' change, and the new nodes are of frame f. *)
Within(acc, y, f) ==
  /\ y.fr = [acc.fr EXCEPT !.iterations = y.fr.iterations]
  /\ y.is_done = acc.is_done
  /\ acc.ready \subseteq y.ready
  /\ \A x \in y.ready : x \in acc.ready \/ x.frame = f

(* The state of iteration i is s after an arrival; it was t, and x may be ready. *)
ArrivedAs(acc, y, f, i, d, a, t, s, x) ==
  /\ x.node = d /\ At(x, f, i)
  /\ s.iter = t.iter /\ s.outstanding_frame_count = t.outstanding_frame_count
  /\ s.outstanding_ops = IF a.ready THEN t.outstanding_ops + 1 ELSE t.outstanding_ops
  /\ \A n \in NodesOf(NameOf(f)) : s.pending[n] = IF n = d THEN a.pending ELSE t.pending[n]
  /\ y.fr = Replaced(acc.fr, i % Size(f), s)
  /\ y.ready = IF a.ready THEN acc.ready \cup {x} ELSE acc.ready
  /\ y.is_done = acc.is_done
  /\ y \in Accs(f)

(* An arrival has that effect. *)
LEMMA ArrivedFacts ==
  ASSUME NEW f \in Paths, NEW acc \in Accs(f), NEW i \in Nat, NEW d \in NodesOf(NameOf(f)),
         NEW t \in IterationStates(NameOf(f)), t = acc.fr.iterations[i % Size(f)],
         NEW e \in EdgeSet, e.dst = d, NEW a \in Arrivals, NEW y, y = Arrived(acc, f, i, e, a)
  PROVE  \E s \in IterationStates(NameOf(f)), x \in TaggedNodes :
           ArrivedAs(acc, y, f, i, d, a, t, s, x)
  <1>1. PICK j : j = i % Size(f)
    OBVIOUS
  <1>2. Slot(acc.fr, i) = j /\ GetIteration(acc.fr, i) = t /\ j \in 0 .. Size(f) - 1
    BY <1>1, Slots, Sizes DEF Accs
  <1>3. PICK pd, dc, o : /\ pd = [t.pending EXCEPT ![d] = a.pending] /\ dc = [t.dead_count EXCEPT ![d] = a.dead_count]
                         /\ o = IF a.ready THEN t.outstanding_ops + 1 ELSE t.outstanding_ops
    OBVIOUS
  <1>4. /\ pd \in [NodesOf(NameOf(f)) -> Int] /\ dc \in [NodesOf(NameOf(f)) -> Int] /\ o \in Int
        /\ \A n \in NodesOf(NameOf(f)) : pd[n] = IF n = d THEN a.pending ELSE t.pending[n]
    BY <1>1, <1>3 DEF IterationStates, Arrivals
  <1>5. PICK s : s = [t EXCEPT !.pending = pd, !.dead_count = dc, !.outstanding_ops = o]
    OBVIOUS
  <1>6. WithArrival(t, d, a) = s
    BY <1>1, <1>3, <1>5 DEF WithArrival, IterationStates
  <1>7. s \in IterationStates(NameOf(f)) /\ s.pending = pd /\ s.outstanding_ops = o
        /\ s.iter = t.iter /\ s.outstanding_frame_count = t.outstanding_frame_count
    BY <1>1, <1>4, <1>5 DEF IterationStates
  <1>8. PICK x : x = TaggedNode(d, f, i, a.dead /\ Kind[d] # "control_trigger")
    OBVIOUS
  <1>9. x \in TaggedNodes /\ x.node = d /\ At(x, f, i)
    BY <1>8 DEF TaggedNodes, TaggedNode, NodesOf, Arrivals, At
  <1>10. PICK v : v = Replaced(acc.fr, j, s)
    OBVIOUS
  <1>11. v \in FrameStates(f)
    BY <1>2, <1>7, <1>10 DEF FrameStates, Accs, Replaced
  <1>12. y = [acc EXCEPT !.fr = v, !.ready = IF a.ready THEN acc.ready \cup {x} ELSE acc.ready]
    BY <1>2, <1>6, <1>8, <1>10 DEF Arrived, Accs, SetIteration, FrameStates, Replaced
  <1>13. y.fr = v /\ y.ready = (IF a.ready THEN acc.ready \cup {x} ELSE acc.ready) /\ y.is_done = acc.is_done
         /\ y \in Accs(f)
    BY <1>9, <1>11, <1>12 DEF Accs
  <1> s \in IterationStates(NameOf(f)) /\ x \in TaggedNodes
    BY <1>7, <1>9
  <1> WITNESS s \in IterationStates(NameOf(f)), x \in TaggedNodes
  <1> QED
    BY ONLY <1>1, <1>3, <1>4, <1>7, <1>9, <1>10, <1>13 DEF ArrivedAs

(* The state of an iteration that runs is replaced. *)
LEMMA ReplaceState ==
  ASSUME NEW f \in Paths, NEW fr \in FrameStates(f), Window(fr, f), NEW i \in Nat, Live(fr, i),
         NEW s \in IterationStates(NameOf(f)), s.iter = i,
         NEW v, v = Replaced(fr, i % Size(f), s)
  PROVE  /\ v \in FrameStates(f) /\ Window(v, f)
         /\ v.iteration_count = fr.iteration_count /\ v.num_pending_inputs = fr.num_pending_inputs
         /\ v.num_outstanding_iterations = fr.num_outstanding_iterations
         /\ \A k : Live(v, k) <=> Live(fr, k)
         /\ \A k \in Nat : Live(fr, k) => v.iterations[k % Size(f)] = IF k = i THEN s ELSE fr.iterations[k % Size(f)]
  <1>1. PICK j, S : j = i % Size(f) /\ S = Size(f)
    OBVIOUS
  <1>2. S \in Nat \ {0} /\ j \in 0 .. S - 1 /\ \A k \in Nat : k % S \in 0 .. S - 1
    BY <1>1, Sizes
  <1>3. /\ v.iteration_count = fr.iteration_count /\ v.num_pending_inputs = fr.num_pending_inputs
        /\ v.num_outstanding_iterations = fr.num_outstanding_iterations
        /\ v.next_iter_roots = fr.next_iter_roots
        /\ v.iterations = [fr.iterations EXCEPT ![j] = s]
    BY <1>1 DEF FrameStates, Replaced
  <1>4. \A k \in 0 .. S - 1 : v.iterations[k] = IF k = j THEN s ELSE fr.iterations[k]
    BY <1>1, <1>2, <1>3 DEF FrameStates
  <1>5. v \in FrameStates(f)
    BY <1>1, <1>2 DEF FrameStates, Replaced
  <1>6. First(v) = First(fr) /\ \A k : Live(v, k) <=> Live(fr, k)
    BY <1>3 DEF Live, First
  <1>7. ASSUME NEW k \in Nat, Live(fr, k)
        PROVE  v.iterations[k % S] = IF k = i THEN s ELSE fr.iterations[k % S]
    <2>1. k # i => k % S # j
      BY <1>1, <1>7, LiveState
    <2> QED
      BY <1>1, <1>2, <1>4, <2>1
  <1>8. ASSUME NEW k \in Nat, Live(v, k)
        PROVE  v.iterations[k % S].iter = k
    BY <1>1, <1>6, <1>7, <1>8 DEF Window
  <1>9. ASSUME NEW k \in 0 .. S - 1, v.iterations[k] # Null
        PROVE  Live(v, v.iterations[k].iter) /\ v.iterations[k].iter % S = k
    BY <1>1, <1>4, <1>6, <1>9 DEF Window
  <1>10. Window(v, f)
    BY <1>1, <1>3, <1>6, <1>8, <1>9 DEF Window
  <1> QED
    BY <1>1, <1>3, <1>5, <1>6, <1>7, <1>10

(* The nodes that are ready can be counted. *)
LEMMA ThoseFinite ==
  ASSUME NEW R, IsFiniteSet(R), NEW f, NEW i
  PROVE  IsFiniteSet(Those(R, f, i)) /\ Cardinality(Those(R, f, i)) \in Nat
  <1>1. Those(R, f, i) \subseteq R
    BY DEF Those
  <1> QED
    BY <1>1, FS_Subset, FS_CardinalityType

(* One more node is ready, at most. *)
LEMMA ThoseAdd ==
  ASSUME NEW R, IsFiniteSet(R), NEW x, NEW f, NEW i
  PROVE  /\ Cardinality(Those(R \cup {x}, f, i)) <= Cardinality(Those(R, f, i)) + 1
         /\ ~At(x, f, i) => Those(R \cup {x}, f, i) = Those(R, f, i)
  <1>1. PICK T, c : T = Those(R, f, i) /\ c = Cardinality(T)
    OBVIOUS
  <1>2. IsFiniteSet(T) /\ c \in Nat
    BY <1>1, ThoseFinite
  <1>3. Those(R \cup {x}, f, i) = IF At(x, f, i) THEN T \cup {x} ELSE T
    BY <1>1 DEF Those
  <1>4. Cardinality(T \cup {x}) = c \/ Cardinality(T \cup {x}) = c + 1
    BY <1>1, <1>2, FS_AddElement
  <1> QED
    BY <1>1, <1>2, <1>3, <1>4

(* An edge is followed. *)
LEMMA ActivateOneStep ==
  ASSUME NEW f \in Paths, NEW acc, NEW N \in Tallies, NEW C \in Tallies, NEW U, Section(acc, f, N, C, U),
         NEW i \in Nat, Live(acc.fr, i), NEW e \in EdgeSet, e.dst \in NodesOf(NameOf(f)), NEW is_dead \in BOOLEAN,
         NEW outputs, ~IsControlEdge(e) => outputs[e.slot] \in BOOLEAN,
         NEW y, y = ActivateOne(acc, f, i, e, is_dead, outputs)
  PROVE  Section(y, f, N, C, U) /\ Within(acc, y, f)
  <1>1. PICK d, S, t : d = e.dst /\ S = Size(f) /\ t = acc.fr.iterations[i % S]
    OBVIOUS
  <1>2. /\ acc \in Accs(f) /\ acc.fr \in FrameStates(f) /\ acc.ready \subseteq TaggedNodes /\ IsFiniteSet(acc.ready)
        /\ Window(acc.fr, f) /\ Tallied(acc, f, N, C) /\ Pendings(acc, f, U)
    BY DEF Section, Accs
  <1>3. t \in IterationStates(NameOf(f)) /\ t.iter = i
    BY <1>1, <1>2, LiveState DEF Window
  <1>4. PICK a : a = ActivateEdge(e, t, is_dead, outputs)
    OBVIOUS
  <1>5. /\ a \in Arrivals
        /\ Plain(d) => a.pending = t.pending[d] - 1 /\ (a.ready <=> t.pending[d] = 1)
    <2>1. t.pending[d] \in Int /\ t.dead_count[d] \in Int
      BY <1>1, <1>3 DEF IterationStates
    <2> QED
      BY <1>1, <1>4, <2>1, ArrivalFacts
  <1>6. y = Arrived(acc, f, i, e, a)
    BY <1>1, <1>2, <1>4, Slots DEF ActivateOne
  <1>a. PICK s \in IterationStates(NameOf(f)), x \in TaggedNodes : ArrivedAs(acc, y, f, i, d, a, t, s, x)
    <2>1. /\ f \in Paths /\ acc \in Accs(f) /\ i \in Nat /\ d \in NodesOf(NameOf(f)) /\ e \in EdgeSet /\ e.dst = d
          /\ t \in IterationStates(NameOf(f)) /\ a \in Arrivals
          /\ y = Arrived(acc, f, i, e, a) /\ t = acc.fr.iterations[i % Size(f)]
      BY <1>1, <1>2, <1>3, <1>5, <1>6
    <2> QED
      BY ONLY <2>1, ArrivedFacts
  <1>7. /\ x.node = d /\ At(x, f, i)
        /\ s.iter = t.iter /\ s.outstanding_frame_count = t.outstanding_frame_count
        /\ s.outstanding_ops = IF a.ready THEN t.outstanding_ops + 1 ELSE t.outstanding_ops
        /\ \A n \in NodesOf(NameOf(f)) : s.pending[n] = IF n = d THEN a.pending ELSE t.pending[n]
        /\ y.fr = Replaced(acc.fr, i % Size(f), s)
        /\ y.ready = IF a.ready THEN acc.ready \cup {x} ELSE acc.ready
        /\ y.is_done = acc.is_done
        /\ y \in Accs(f)
    BY <1>a DEF ArrivedAs
  <1>8. /\ Window(y.fr, f) /\ y.fr.iteration_count = acc.fr.iteration_count
        /\ \A k : Live(y.fr, k) <=> Live(acc.fr, k)
        /\ \A k \in Nat : Live(acc.fr, k) => y.fr.iterations[k % S] = IF k = i THEN s ELSE acc.fr.iterations[k % S]
    BY <1>1, <1>2, <1>3, <1>7, ReplaceState
  <1>9. IsFiniteSet(y.ready)
    <2>1. IsFiniteSet(acc.ready \cup {x})
      BY <1>2, FS_AddElement
    <2> QED
      BY <1>2, <1>7, <2>1
  <1>10. Tallied(y, f, N, C)
    <2> SUFFICES ASSUME NEW k \in Nat
                 PROVE  /\ Live(y.fr, k) =>
                             /\ N[k] + Cardinality(Those(y.ready, f, k)) <= y.fr.iterations[k % S].outstanding_ops
                             /\ C[k] <= y.fr.iterations[k % S].outstanding_frame_count
                        /\ ~Live(y.fr, k) => N[k] = 0 /\ C[k] = 0 /\ Those(y.ready, f, k) = {}
      BY <1>1 DEF Tallied
    <2>1. /\ Live(acc.fr, k) =>
               /\ N[k] + Cardinality(Those(acc.ready, f, k)) <= acc.fr.iterations[k % S].outstanding_ops
               /\ C[k] <= acc.fr.iterations[k % S].outstanding_frame_count
          /\ ~Live(acc.fr, k) => N[k] = 0 /\ C[k] = 0 /\ Those(acc.ready, f, k) = {}
      BY <1>1, <1>2 DEF Tallied
    <2>2. /\ Cardinality(Those(acc.ready \cup {x}, f, k)) <= Cardinality(Those(acc.ready, f, k)) + 1
          /\ ~At(x, f, k) => Those(acc.ready \cup {x}, f, k) = Those(acc.ready, f, k)
      <3>1. PICK R : R = acc.ready
        OBVIOUS
      <3>2. IsFiniteSet(R)
        BY <1>2, <3>1
      <3>3. /\ Cardinality(Those(R \cup {x}, f, k)) <= Cardinality(Those(R, f, k)) + 1
            /\ ~At(x, f, k) => Those(R \cup {x}, f, k) = Those(R, f, k)
        BY ONLY <3>2, ThoseAdd
      <3> QED
        BY <3>1, <3>3
    <2>3. Cardinality(Those(acc.ready, f, k)) \in Nat /\ Cardinality(Those(y.ready, f, k)) \in Nat
      BY <1>2, <1>9, ThoseFinite
    <2>4. N[k] \in Nat /\ t.outstanding_ops \in Int
      BY <1>3 DEF IterationStates, Tallies
    <2>5. CASE k # i
      <3>1. ~At(x, f, k)
        BY <1>7, <2>5 DEF At
      <3>2. Those(y.ready, f, k) = Those(acc.ready, f, k)
        BY <1>7, <2>2, <3>1
      <3> QED
        BY <1>8, <2>1, <2>5, <3>2
    <2>6. CASE k = i
      BY <1>1, <1>7, <1>8, <2>1, <2>2, <2>3, <2>4, <2>6
    <2> QED
      BY <2>5, <2>6
  <1>11. \A n \in NodesOf(NameOf(f)), k \in Nat : Plain(n) /\ Spent(acc.fr, f, n, k) => Spent(y.fr, f, n, k)
    <2> SUFFICES ASSUME NEW n \in NodesOf(NameOf(f)), NEW k \in Nat, Plain(n), Spent(acc.fr, f, n, k), Live(acc.fr, k)
                 PROVE  y.fr.iterations[k % S].pending[n] <= 0
      BY <1>1, <1>8 DEF Spent
    <2>1. acc.fr.iterations[k % S].pending[n] <= 0
      BY <1>1 DEF Spent
    <2>2. t.pending[n] \in Int
      BY <1>3 DEF IterationStates
    <2>3. CASE k # i
      BY <1>8, <2>1, <2>3
    <2>4. CASE k = i
      <3>1. t.pending[n] <= 0 /\ y.fr.iterations[k % S] = s
        BY <1>1, <1>8, <2>1, <2>4
      <3>2. CASE n = d
        BY <1>5, <1>7, <2>2, <3>1, <3>2
      <3>3. CASE n # d
        BY <1>7, <3>1, <3>3
      <3> QED
        BY <3>2, <3>3
    <2> QED
      BY <2>3, <2>4
  <1>12. a.ready /\ Plain(d) => Spent(y.fr, f, d, i) /\ ~Spent(acc.fr, f, d, i)
    <2>1. i <= acc.fr.iteration_count
      BY DEF Live
    <2> QED
      BY <1>1, <1>5, <1>7, <1>8, <2>1 DEF Spent
  <1>13. \A z \in acc.ready : z.frame = f => z.node \in NodesOf(NameOf(f)) /\ z.iter \in Nat
    BY <1>2 DEF TaggedNodes, NodesOf
  <1>14. Pendings(y, f, U)
    <2>1. \A n \in NodesOf(NameOf(f)), k \in Nat : Plain(n) /\ <<n, k>> \in U => Spent(y.fr, f, n, k)
      BY <1>2, <1>11 DEF Pendings
    <2>2. a.ready /\ Plain(d) => /\ <<d, i>> \notin U
                                 /\ \A z \in acc.ready : z.frame = f /\ z.node = d => z.iter # i
      BY <1>1, <1>2, <1>12 DEF Pendings
    <2>3. ASSUME NEW z \in y.ready, z.frame = f, Plain(z.node)
          PROVE  Spent(y.fr, f, z.node, z.iter) /\ <<z.node, z.iter>> \notin U
      <3>1. CASE z \in acc.ready
        BY <1>2, <1>11, <1>13, <2>3, <3>1 DEF Pendings
      <3>2. CASE z = x /\ a.ready
        BY <1>7, <1>12, <2>2, <2>3, <3>2 DEF At
      <3> QED
        BY <1>7, <3>1, <3>2
    <2>4. ASSUME NEW z \in y.ready, NEW w \in y.ready, z.frame = f, w.frame = f, z.iter = w.iter, z.node = w.node, Plain(z.node)
          PROVE  z = w
      <3>1. CASE z \in acc.ready /\ w \in acc.ready
        BY <1>2, <2>4, <3>1 DEF Pendings
      <3>2. CASE ~(z \in acc.ready /\ w \in acc.ready)
        <4>1. a.ready /\ (z = x \/ w = x) /\ (z = x \/ z \in acc.ready) /\ (w = x \/ w \in acc.ready)
          BY <1>7, <3>2
        <4> QED
          BY <1>7, <2>2, <2>4, <4>1 DEF At
      <3> QED
        BY <3>1, <3>2
    <2> QED
      BY <2>1, <2>3, <2>4 DEF Pendings
  <1>15. Section(y, f, N, C, U)
    BY <1>7, <1>8, <1>9, <1>10, <1>14 DEF Section
  <1>16. Within(acc, y, f)
    <2>1. y.fr = [acc.fr EXCEPT !.iterations = y.fr.iterations]
      BY <1>2, <1>7 DEF FrameStates, Replaced
    <2> QED
      BY <1>7, <2>1 DEF Within, At
  <1> QED
    BY <1>15, <1>16

(* Nothing has happened. *)
LEMMA WithinSame ==
  ASSUME NEW f, NEW acc \in Accs(f)
  PROVE  Within(acc, acc, f)
  BY DEF Within, Accs, FrameStates

(* Two in a row. *)
LEMMA WithinTwice ==
  ASSUME NEW f, NEW a \in Accs(f), NEW b \in Accs(f), NEW c \in Accs(f), Within(a, b, f), Within(b, c, f)
  PROVE  Within(a, c, f)
  <1>1. /\ a.fr \in FrameStates(f) /\ b.fr \in FrameStates(f) /\ c.fr \in FrameStates(f)
        /\ b.fr = [a.fr EXCEPT !.iterations = b.fr.iterations]
        /\ c.fr = [b.fr EXCEPT !.iterations = c.fr.iterations]
    BY DEF Within, Accs
  <1>2. c.fr = [a.fr EXCEPT !.iterations = c.fr.iterations]
    BY <1>1 DEF FrameStates
  <1>3. /\ c.is_done = a.is_done
        /\ a.ready \subseteq c.ready
        /\ \A x \in c.ready : x \in a.ready \/ x.frame = f
    BY DEF Within
  <1> QED
    BY <1>2, <1>3 DEF Within

(* What stays the same. *)
LEMMA WithinFields ==
  ASSUME NEW f, NEW a \in Accs(f), NEW b \in Accs(f), Within(a, b, f)
  PROVE  /\ b.fr.iteration_count = a.fr.iteration_count /\ b.fr.num_pending_inputs = a.fr.num_pending_inputs
         /\ b.fr.num_outstanding_iterations = a.fr.num_outstanding_iterations
         /\ b.fr.next_iter_roots = a.fr.next_iter_roots /\ b.fr.inv_values = a.fr.inv_values
         /\ First(b.fr) = First(a.fr) /\ \A i : Live(b.fr, i) <=> Live(a.fr, i)
  <1>1. /\ a.fr \in FrameStates(f) /\ b.fr \in FrameStates(f)
        /\ b.fr = [a.fr EXCEPT !.iterations = b.fr.iterations]
    BY DEF Within, Accs
  <1>2. /\ b.fr.iteration_count = a.fr.iteration_count /\ b.fr.num_pending_inputs = a.fr.num_pending_inputs
        /\ b.fr.num_outstanding_iterations = a.fr.num_outstanding_iterations
        /\ b.fr.next_iter_roots = a.fr.next_iter_roots /\ b.fr.inv_values = a.fr.inv_values
    BY <1>1 DEF FrameStates
  <1> QED
    BY <1>2 DEF First, Live

(* What a loop of arrivals can make of acc. *)
Outcomes(acc, f, N, C, U) == {y \in Accs(f) : Section(y, f, N, C, U) /\ Within(acc, y, f)}

(* What node n delivers goes to frame f. *)
Fits(n, f, outputs) ==
  \A e \in EdgeSet : e.src = n => e.dst \in NodesOf(NameOf(f)) /\ (~IsControlEdge(e) => outputs[e.slot] \in BOOLEAN)

(* The edges of the list. *)
LEMMA EdgeList ==
  Len(Edges) \in Nat /\ \A k \in 1 .. Len(Edges) : Edges[k] \in EdgeSet
  <1>1. Len(Edges) \in Nat /\ DOMAIN Edges = 1 .. Len(Edges)
    BY GraphAssumption
  <1> QED
    BY <1>1 DEF EdgeSet

(* A round of the loop over the edges. *)
Round(x, f, i, n, is_dead, outputs, e) == IF e.src # n THEN x ELSE ActivateOne(x, f, i, e, is_dead, outputs)

(* All edges of a node are followed. *)
LEMMA ActivateNodesStep ==
  ASSUME NEW f \in Paths, NEW acc, NEW N \in Tallies, NEW C \in Tallies, NEW U, Section(acc, f, N, C, U),
         NEW i \in Nat, Live(acc.fr, i), NEW node, NEW is_dead \in BOOLEAN, NEW outputs, Fits(node, f, outputs),
         NEW y, y = ActivateNodes(acc, f, node, is_dead, i, outputs)
  PROVE  Section(y, f, N, C, U) /\ Within(acc, y, f) /\ y \in Accs(f)
  <1>1. PICK n, T : n = Len(Edges) /\ T = Outcomes(acc, f, N, C, U)
    OBVIOUS
  <1>2. n \in Nat /\ \A k \in 1 .. n : Edges[k] \in EdgeSet
    BY <1>1, EdgeList
  <1>3. acc \in T
    BY <1>1, WithinSame DEF Outcomes, Section
  <1> DEFINE Def(g) == g = [k \in 0 .. n |-> IF k = 0 THEN acc ELSE Round(g[k - 1], f, i, node, is_dead, outputs, Edges[k])]
             X == CHOOSE g : Def(g)
  <1>4. ASSUME NEW x \in T, NEW k \in 1 .. n
        PROVE  Round(x, f, i, node, is_dead, outputs, Edges[k]) \in T
    <2>1. x \in Accs(f) /\ Section(x, f, N, C, U) /\ Within(acc, x, f) /\ acc \in Accs(f)
      BY <1>1 DEF Outcomes, Section
    <2>2. CASE Edges[k].src # node
      BY <2>2 DEF Round
    <2>3. CASE Edges[k].src = node
      <3>1. PICK e \in EdgeSet : e = Edges[k]
        BY <1>2
      <3>2. e.dst \in NodesOf(NameOf(f)) /\ (~IsControlEdge(e) => outputs[e.slot] \in BOOLEAN)
        BY <2>3, <3>1 DEF Fits
      <3>3. Live(x.fr, i)
        BY <2>1, WithinFields
      <3>4. PICK z : z = ActivateOne(x, f, i, e, is_dead, outputs)
        OBVIOUS
      <3>5. Section(z, f, N, C, U) /\ Within(x, z, f)
        BY <2>1, <3>2, <3>3, <3>4, ActivateOneStep
      <3>6. z \in Accs(f)
        BY <3>5 DEF Section
      <3>7. Within(acc, z, f)
        BY <2>1, <3>5, <3>6, WithinTwice
      <3> QED
        BY <1>1, <2>3, <3>1, <3>4, <3>5, <3>6, <3>7 DEF Outcomes, Round
    <2> QED
      BY <2>2, <2>3
  <1>6. \A x \in T, k \in 1 .. n : Round(x, f, i, node, is_dead, outputs, Edges[k]) \in T
    BY <1>4
  <1>9. \E g : Def(g)
    <2>1. PICK step : step = [z \in T \X (1 .. n) |-> Round(z[1], f, i, node, is_dead, outputs, Edges[z[2]])]
      OBVIOUS
    <2>2. /\ step \in [T \X (1 .. n) -> T]
          /\ \A x \in T, k \in 1 .. n : step[<<x, k>>] = Round(x, f, i, node, is_dead, outputs, Edges[k])
      BY <1>6, <2>1
    <2>3. PICK g \in [0 .. n -> T] : RunOf(g, acc, n, step)
      <3>1. n \in Nat /\ acc \in T /\ step \in [T \X (1 .. n) -> T]
        BY <1>2, <1>3, <2>2
      <3> QED
        BY ONLY <3>1, Iteration
    <2>4. ASSUME NEW k \in 1 .. n
          PROVE  g[k] = Round(g[k - 1], f, i, node, is_dead, outputs, Edges[k])
      <3>1. k - 1 \in 0 .. n
        BY <1>2
      <3>2. g[k - 1] \in T
        BY <2>3, <3>1
      <3> QED
        BY <2>2, <2>3, <3>2 DEF RunOf
    <2>5. ASSUME NEW k \in 0 .. n
          PROVE  g[k] = IF k = 0 THEN acc ELSE Round(g[k - 1], f, i, node, is_dead, outputs, Edges[k])
      BY <1>2, <2>3, <2>4 DEF RunOf
    <2>6. Def(g)
      BY <2>3, <2>5
    <2> QED
      BY <2>6
  <1>10. Def(X)
    BY <1>9
  <1>11. y = X[n]
    BY <1>1 DEF ActivateNodes, Round
  <1> HIDE DEF X
  <1>b. PICK h : h = X
    OBVIOUS
  <1>c. n \in Nat /\ h = [k \in 0 .. n |-> IF k = 0 THEN acc ELSE Round(h[k - 1], f, i, node, is_dead, outputs, Edges[k])]
    BY <1>2, <1>10, <1>b
  <1> HIDE DEF Def
  <1>12. h[0] = acc
    BY ONLY <1>c
  <1>13. \A k \in 1 .. n : h[k] = Round(h[k - 1], f, i, node, is_dead, outputs, Edges[k])
    BY ONLY <1>c
  <1>14. h[n] \in T
    <2>1. PICK S : S = {k \in 0 .. n : h[k] \in T}
      OBVIOUS
    <2>2. 0 \in S
      BY ONLY <1>c, <1>3, <1>12, <2>1
    <2>3. \A k \in 1 .. n : k - 1 \in S => k \in S
      BY ONLY <1>c, <1>6, <1>13, <2>1
    <2>4. n \in S
      BY <1>2, <2>2, <2>3, UpTo
    <2> QED
      BY <2>1, <2>4
  <1> QED
    BY <1>1, <1>11, <1>b, <1>14 DEF Outcomes

(* The destinations and the slots of edges. *)
LEMMA EdgeFacts ==
  ASSUME NEW e \in EdgeSet
  PROVE  e.src \in Nodes /\ e.dst \in Nodes /\ (IsControlEdge(e) \/ e.slot = 0 \/ e.slot = 1)
  <1>1. PICK k \in 1 .. Len(Edges) : e = Edges[k]
    <2>1. DOMAIN Edges = 1 .. Len(Edges)
      BY GraphAssumption
    <2> QED
      BY <2>1 DEF EdgeSet
  <1>2. e \in [src : Nodes, slot : {kControlSlot, 0, 1}, dst : Nodes, input : Int]
    <2>1. PICK S : S = [src : Nodes, slot : {kControlSlot, 0, 1}, dst : Nodes, input : Int]
      OBVIOUS
    <2>2. Edges \in Seq(S)
      BY <2>1, GraphAssumption
    <2>3. Edges[k] \in S
      BY ONLY k \in 1 .. Len(Edges), <2>2, ElementOfSeq
    <2> QED
      BY <1>1, <2>1, <2>3
  <1> QED
    BY <1>2 DEF IsControlEdge

(* An entry is delivered. *)
LEMMA ActivateEntryStep ==
  ASSUME NEW f \in Paths, NEW acc, NEW N \in Tallies, NEW C \in Tallies, NEW U, Section(acc, f, N, C, U),
         NEW i \in Nat, Live(acc.fr, i), NEW x \in EntriesTo(NameOf(f)),
         NEW y, y = ActivateEntry(acc, f, i, x)
  PROVE  Section(y, f, N, C, U) /\ Within(acc, y, f) /\ y \in Accs(f)
  <1>1. PICK n, v, outputs : n = x.node /\ v = x.has_value /\ outputs = [s \in {0} |-> v]
    OBVIOUS
  <1>2. v \in BOOLEAN /\ n \in Nodes /\ Feeds(n, NameOf(f))
    BY <1>1 DEF EntriesTo
  <1>3. outputs[0] = v
    BY <1>1
  <1>4. Fits(n, f, outputs)
    <2> SUFFICES ASSUME NEW e \in EdgeSet, e.src = n
                 PROVE  e.dst \in NodesOf(NameOf(f)) /\ (~IsControlEdge(e) => outputs[e.slot] \in BOOLEAN)
      BY DEF Fits
    <2>1. e.slot # 1 /\ FrameName[e.dst] = NameOf(f)
      BY <1>2 DEF Feeds
    <2> QED
      BY <1>2, <1>3, <2>1, EdgeFacts DEF NodesOf
  <1>5. y = ActivateNodes(acc, f, n, ~v, i, outputs)
    BY <1>1 DEF ActivateEntry
  <1>6. PICK b \in BOOLEAN : b = ~v
    OBVIOUS
  <1> QED
    BY <1>4, <1>5, <1>6, ActivateNodesStep

(* Several are. *)
LEMMA ActivateEntriesStep ==
  ASSUME NEW f \in Paths, NEW acc, NEW N \in Tallies, NEW C \in Tallies, NEW U, Section(acc, f, N, C, U),
         NEW i \in Nat, Live(acc.fr, i), NEW L, L \in Seq(EntriesTo(NameOf(f))),
         NEW y, y = ActivateEntries(acc, f, i, L)
  PROVE  Section(y, f, N, C, U) /\ Within(acc, y, f) /\ y \in Accs(f)
  <1>1. PICK n, T : n = Len(L) /\ T = Outcomes(acc, f, N, C, U)
    OBVIOUS
  <1>2. n \in Nat /\ \A k \in 1 .. n : L[k] \in EntriesTo(NameOf(f))
    BY <1>1
  <1>3. acc \in T
    BY <1>1, WithinSame DEF Outcomes, Section
  <1> DEFINE Def(g) == g = [k \in 0 .. n |-> IF k = 0 THEN acc ELSE ActivateEntry(g[k - 1], f, i, L[k])]
             X == CHOOSE g : Def(g)
  <1>4. ASSUME NEW x \in T, NEW k \in 1 .. n
        PROVE  ActivateEntry(x, f, i, L[k]) \in T
    <2>1. x \in Accs(f) /\ Section(x, f, N, C, U) /\ Within(acc, x, f) /\ acc \in Accs(f)
      BY <1>1 DEF Outcomes, Section
    <2>2. PICK e \in EntriesTo(NameOf(f)) : e = L[k]
      BY <1>2
    <2>3. Live(x.fr, i)
      BY <2>1, WithinFields
    <2>4. PICK z : z = ActivateEntry(x, f, i, e)
      OBVIOUS
    <2>5. Section(z, f, N, C, U) /\ Within(x, z, f) /\ z \in Accs(f)
      BY <2>1, <2>3, <2>4, ActivateEntryStep
    <2>6. Within(acc, z, f)
      BY <2>1, <2>5, WithinTwice
    <2> QED
      BY <1>1, <2>2, <2>4, <2>5, <2>6 DEF Outcomes
  <1>5. \A x \in T, k \in 1 .. n : ActivateEntry(x, f, i, L[k]) \in T
    BY <1>4
  <1>6. \E g : Def(g)
    <2>1. PICK step : step = [z \in T \X (1 .. n) |-> ActivateEntry(z[1], f, i, L[z[2]])]
      OBVIOUS
    <2>2. /\ step \in [T \X (1 .. n) -> T]
          /\ \A x \in T, k \in 1 .. n : step[<<x, k>>] = ActivateEntry(x, f, i, L[k])
      BY <1>5, <2>1
    <2>3. PICK g \in [0 .. n -> T] : RunOf(g, acc, n, step)
      <3>1. n \in Nat /\ acc \in T /\ step \in [T \X (1 .. n) -> T]
        BY <1>2, <1>3, <2>2
      <3> QED
        BY ONLY <3>1, Iteration
    <2>4. ASSUME NEW k \in 1 .. n
          PROVE  g[k] = ActivateEntry(g[k - 1], f, i, L[k])
      <3>1. k - 1 \in 0 .. n
        BY <1>2
      <3>2. g[k - 1] \in T
        BY <2>3, <3>1
      <3> QED
        BY <2>2, <2>3, <3>2 DEF RunOf
    <2>5. ASSUME NEW k \in 0 .. n
          PROVE  g[k] = IF k = 0 THEN acc ELSE ActivateEntry(g[k - 1], f, i, L[k])
      BY <1>2, <2>3, <2>4 DEF RunOf
    <2>6. Def(g)
      BY <2>3, <2>5
    <2> QED
      BY <2>6
  <1>7. Def(X)
    BY <1>6
  <1>8. y = X[n]
    BY <1>1 DEF ActivateEntries
  <1> HIDE DEF X
  <1>9. PICK h : h = X
    OBVIOUS
  <1>10. n \in Nat /\ h = [k \in 0 .. n |-> IF k = 0 THEN acc ELSE ActivateEntry(h[k - 1], f, i, L[k])]
    BY <1>2, <1>7, <1>9
  <1> HIDE DEF Def
  <1>11. h[0] = acc /\ \A k \in 1 .. n : h[k] = ActivateEntry(h[k - 1], f, i, L[k])
    BY ONLY <1>10
  <1>12. h[n] \in T
    <2>1. PICK S : S = {k \in 0 .. n : h[k] \in T}
      OBVIOUS
    <2>2. 0 \in S
      BY ONLY <1>10, <1>3, <1>11, <2>1
    <2>3. \A k \in 1 .. n : k - 1 \in S => k \in S
      BY ONLY <1>10, <1>5, <1>11, <2>1
    <2>4. n \in S
      BY <1>2, <2>2, <2>3, UpTo
    <2> QED
      BY <2>1, <2>4
  <1> QED
    BY <1>1, <1>8, <1>9, <1>12 DEF Outcomes

--------------------------------------------------------------------------------
(* Iterations *)

(* The image of a finite set. *)
LEMMA ImageFinite ==
  ASSUME NEW S, IsFiniteSet(S), NEW g, NEW T, T = {g[x] : x \in S}
  PROVE  IsFiniteSet(T) /\ Cardinality(T) <= Cardinality(S)
  <1>1. PICK h : h = [x \in S |-> g[x]]
    OBVIOUS
  <1>2. h \in Surjection(S, T)
    BY <1>1 DEF Surjection
  <1> QED
    BY <1>2, FS_Surjection

(* The counts that a node begins with. *)
LEMMA InitialPendingType ==
  ASSUME NEW n \in Nodes
  PROVE  InitialPending(n) \in Int
  <1>1. IsFiniteSet(EdgeSet)
    <2>1. Len(Edges) \in Nat /\ DOMAIN Edges = 1 .. Len(Edges)
      BY GraphAssumption
    <2>2. IsFiniteSet(DOMAIN Edges)
      BY <2>1, FS_Interval
    <2> QED
      BY <2>2, ImageFinite DEF EdgeSet
  <1>2. IsFiniteSet(InEdges(n)) /\ IsFiniteSet({e \in InEdges(n) : IsControlEdge(e)})
    <2>1. InEdges(n) \subseteq EdgeSet /\ {e \in InEdges(n) : IsControlEdge(e)} \subseteq EdgeSet
      BY DEF InEdges
    <2> QED
      BY <1>1, <2>1, FS_Subset
  <1>3. Cardinality(InEdges(n)) \in Nat /\ Cardinality({e \in InEdges(n) : IsControlEdge(e)}) \in Nat
    BY <1>2, FS_CardinalityType
  <1> QED
    BY <1>3 DEF InitialPending

(* The state that an iteration begins with. *)
LEMMA NewIterationFacts ==
  ASSUME NEW name, NEW i \in Nat, NEW s, s = NewIteration(name, i)
  PROVE  /\ s \in IterationStates(name)
         /\ s.iter = i /\ s.outstanding_ops = 0 /\ s.outstanding_frame_count = 0
  <1>1. [n \in NodesOf(name) |-> InitialPending(n)] \in [NodesOf(name) -> Int]
    BY InitialPendingType DEF NodesOf
  <1>2. [n \in NodesOf(name) |-> 0] \in [NodesOf(name) -> Int]
    OBVIOUS
  <1>3. s = [iter |-> i, pending |-> [n \in NodesOf(name) |-> InitialPending(n)], dead_count |-> [n \in NodesOf(name) |-> 0],
             outstanding_ops |-> 0, outstanding_frame_count |-> 0]
    BY DEF NewIteration, NodesOf
  <1> QED
    BY <1>1, <1>2, <1>3 DEF IterationStates

(* Fields other than those of the circular buffer. *)
LEMMA OtherFields ==
  ASSUME NEW f \in Paths, NEW acc, NEW N \in Tallies, NEW C \in Tallies, NEW U, Section(acc, f, N, C, U),
         NEW y \in Accs(f), y.ready = acc.ready, y.fr.iterations = acc.fr.iterations,
         y.fr.iteration_count = acc.fr.iteration_count,
         y.fr.num_outstanding_iterations = acc.fr.num_outstanding_iterations,
         y.fr.num_pending_inputs # 0 => acc.fr.num_pending_inputs # 0,
         f = Root => y.fr.next_iter_roots = <<>>
  PROVE  Section(y, f, N, C, U) /\ First(y.fr) = First(acc.fr) /\ \A i : Live(y.fr, i) <=> Live(acc.fr, i)
  <1>1. First(y.fr) = First(acc.fr) /\ \A i : Live(y.fr, i) <=> Live(acc.fr, i)
    BY DEF First, Live
  <1>2. Window(y.fr, f)
    BY <1>1 DEF Section, Window
  <1>3. Tallied(y, f, N, C)
    BY <1>1 DEF Section, Tallied
  <1>4. Pendings(y, f, U)
    BY <1>1 DEF Section, Pendings, Spent
  <1> QED
    BY <1>1, <1>2, <1>3, <1>4 DEF Section

(* The effect of a critical section on its frame. *)
Grown(acc, y, f) ==
  /\ y.fr.num_pending_inputs = acc.fr.num_pending_inputs
  /\ acc.ready \subseteq y.ready
  /\ \A x \in y.ready : x \in acc.ready \/ x.frame = f

(* That of a loop of arrivals. *)
LEMMA WithinGrown ==
  ASSUME NEW f, NEW a \in Accs(f), NEW b \in Accs(f), Within(a, b, f)
  PROVE  Grown(a, b, f)
  BY WithinFields DEF Grown, Within

(* A loop invariant is delivered to all iterations. *)
LEMMA AddLoopInvStep ==
  ASSUME NEW f \in Paths, NEW acc, NEW N \in Tallies, NEW C \in Tallies, NEW U, Section(acc, f, N, C, U),
         First(acc.fr) = 0, NEW node, NEW v \in BOOLEAN, Entry(node, v) \in EntriesTo(NameOf(f)),
         NEW y, y = AddLoopInv(acc, f, node, v)
  PROVE  Section(y, f, N, C, U) /\ Grown(acc, y, f) /\ y \in Accs(f)
  <1>1. PICK ent, n, b, T : /\ ent = Entry(node, v) /\ n = acc.fr.iteration_count + 1
                            /\ b = [acc EXCEPT !.fr = [acc.fr EXCEPT !.inv_values = Append(acc.fr.inv_values, ent)]]
                            /\ T = Outcomes(b, f, N, C, U)
    OBVIOUS
  <1>2. acc \in Accs(f) /\ acc.fr \in FrameStates(f)
    BY DEF Section, Accs
  <1>3. n \in Nat /\ n = acc.fr.iteration_count + 1 /\ acc.fr.iteration_count \in Nat
    BY <1>1, <1>2 DEF FrameStates
  <1>4. Append(acc.fr.inv_values, ent) \in Seq(EntriesTo(NameOf(f)))
    <2>1. acc.fr.inv_values \in Seq(EntriesTo(NameOf(f))) /\ ent \in EntriesTo(NameOf(f))
      BY <1>1, <1>2 DEF FrameStates
    <2> QED
      BY <2>1, AppendProperties
  <1>5. PICK w : w = [acc.fr EXCEPT !.inv_values = Append(acc.fr.inv_values, ent)]
    OBVIOUS
  <1>6. /\ w \in FrameStates(f) /\ w.iterations = acc.fr.iterations /\ w.iteration_count = acc.fr.iteration_count
        /\ w.num_outstanding_iterations = acc.fr.num_outstanding_iterations
        /\ w.num_pending_inputs = acc.fr.num_pending_inputs /\ w.next_iter_roots = acc.fr.next_iter_roots
    BY <1>2, <1>4, <1>5 DEF FrameStates
  <1>7. b \in Accs(f) /\ b.fr = w /\ b.ready = acc.ready /\ b.is_done = acc.is_done
    BY <1>1, <1>2, <1>5, <1>6 DEF Accs
  <1>8. Section(b, f, N, C, U) /\ First(b.fr) = 0
    <2>1. f = Root => w.next_iter_roots = <<>>
      BY <1>6 DEF Section, Window
    <2>2. /\ f \in Paths /\ N \in Tallies /\ C \in Tallies /\ Section(acc, f, N, C, U) /\ b \in Accs(f)
          /\ b.ready = acc.ready /\ b.fr.iterations = acc.fr.iterations
          /\ b.fr.iteration_count = acc.fr.iteration_count
          /\ b.fr.num_outstanding_iterations = acc.fr.num_outstanding_iterations
          /\ (b.fr.num_pending_inputs # 0 => acc.fr.num_pending_inputs # 0)
          /\ (f = Root => b.fr.next_iter_roots = <<>>)
      BY <1>6, <1>7, <2>1
    <2>3. Section(b, f, N, C, U) /\ First(b.fr) = First(acc.fr)
      BY ONLY <2>2, OtherFields
    <2> QED
      BY <2>3
  <1>9. b \in T
    BY <1>1, <1>7, <1>8, WithinSame DEF Outcomes
  <1> DEFINE Def(g) == g = [k \in 0 .. n |-> IF k = 0 THEN b ELSE ActivateEntry(g[k - 1], f, k - 1, ent)]
             X == CHOOSE g : Def(g)
  <1>10. ASSUME NEW x \in T, NEW k \in 1 .. n
         PROVE  ActivateEntry(x, f, k - 1, ent) \in T
    <2>1. x \in Accs(f) /\ Section(x, f, N, C, U) /\ Within(b, x, f)
      BY <1>1 DEF Outcomes
    <2>2. k - 1 \in Nat
      BY <1>3
    <2>3. First(x.fr) = 0 /\ x.fr.iteration_count = acc.fr.iteration_count
      BY <1>6, <1>7, <1>8, <2>1, WithinFields
    <2>4. Live(x.fr, k - 1)
      BY <1>3, <2>2, <2>3 DEF Live
    <2>5. PICK z : z = ActivateEntry(x, f, k - 1, ent)
      OBVIOUS
    <2>6. Section(z, f, N, C, U) /\ Within(x, z, f) /\ z \in Accs(f)
      BY <1>1, <2>1, <2>2, <2>4, <2>5, ActivateEntryStep
    <2>7. Within(b, z, f)
      BY <1>7, <2>1, <2>6, WithinTwice
    <2> QED
      BY <1>1, <2>5, <2>6, <2>7 DEF Outcomes
  <1>11. \A x \in T, k \in 1 .. n : ActivateEntry(x, f, k - 1, ent) \in T
    BY <1>10
  <1>12. \E g : Def(g)
    <2>1. PICK step : step = [z \in T \X (1 .. n) |-> ActivateEntry(z[1], f, z[2] - 1, ent)]
      OBVIOUS
    <2>2. /\ step \in [T \X (1 .. n) -> T]
          /\ \A x \in T, k \in 1 .. n : step[<<x, k>>] = ActivateEntry(x, f, k - 1, ent)
      BY <1>11, <2>1
    <2>3. PICK g \in [0 .. n -> T] : RunOf(g, b, n, step)
      <3>1. n \in Nat /\ b \in T /\ step \in [T \X (1 .. n) -> T]
        BY <1>3, <1>9, <2>2
      <3> QED
        BY ONLY <3>1, Iteration
    <2>4. ASSUME NEW k \in 1 .. n
          PROVE  g[k] = ActivateEntry(g[k - 1], f, k - 1, ent)
      <3>1. k - 1 \in 0 .. n
        BY <1>3
      <3>2. g[k - 1] \in T
        BY <2>3, <3>1
      <3> QED
        BY <2>2, <2>3, <3>2 DEF RunOf
    <2>5. ASSUME NEW k \in 0 .. n
          PROVE  g[k] = IF k = 0 THEN b ELSE ActivateEntry(g[k - 1], f, k - 1, ent)
      BY <1>3, <2>3, <2>4 DEF RunOf
    <2>6. Def(g)
      BY <2>3, <2>5
    <2> QED
      BY <2>6
  <1>13. Def(X)
    BY <1>12
  <1>14. y = X[n]
    BY <1>1, <1>2 DEF AddLoopInv, Accs, FrameStates
  <1> HIDE DEF X
  <1>15. PICK h : h = X
    OBVIOUS
  <1>16. n \in Nat /\ h = [k \in 0 .. n |-> IF k = 0 THEN b ELSE ActivateEntry(h[k - 1], f, k - 1, ent)]
    BY <1>3, <1>13, <1>15
  <1> HIDE DEF Def
  <1>17. h[0] = b /\ \A k \in 1 .. n : h[k] = ActivateEntry(h[k - 1], f, k - 1, ent)
    BY ONLY <1>16
  <1>18. h[n] \in T
    <2>1. PICK S : S = {k \in 0 .. n : h[k] \in T}
      OBVIOUS
    <2>2. 0 \in S
      BY ONLY <1>16, <1>9, <1>17, <2>1
    <2>3. \A k \in 1 .. n : k - 1 \in S => k \in S
      BY ONLY <1>16, <1>11, <1>17, <2>1
    <2>4. n \in S
      BY <1>3, <2>2, <2>3, UpTo
    <2> QED
      BY <2>1, <2>4
  <1>19. y \in Accs(f) /\ Section(y, f, N, C, U) /\ Within(b, y, f)
    BY <1>1, <1>14, <1>15, <1>18 DEF Outcomes
  <1>20. Grown(b, y, f)
    BY <1>7, <1>19, WithinGrown
  <1> QED
    BY <1>6, <1>7, <1>19, <1>20 DEF Grown

(* An iteration begins. *)
LEMMA BeginStep ==
  ASSUME NEW f \in Paths, NEW acc, NEW N \in Tallies, NEW C \in Tallies, NEW U, Section(acc, f, N, C, U),
         f # Root, acc.fr.num_outstanding_iterations < Capacity(f),
         NEW y, y = Started(acc, f)
  PROVE  /\ Section(y, f, N, C, U) /\ Grown(acc, y, f) /\ y \in Accs(f) /\ y.is_done = acc.is_done
         /\ y.fr.iteration_count = acc.fr.iteration_count + 1 /\ Live(y.fr, acc.fr.iteration_count + 1)
         /\ First(y.fr) = First(acc.fr) /\ y.fr.next_iter_roots = <<>> /\ y.fr.inv_values = acc.fr.inv_values
  <1>1. PICK fr, next, S, j : fr = acc.fr /\ next = fr.iteration_count + 1 /\ S = Size(f) /\ j = next % S
    OBVIOUS
  <1>2. /\ acc \in Accs(f) /\ fr \in FrameStates(f) /\ IsFiniteSet(acc.ready) /\ acc.ready \subseteq TaggedNodes
        /\ Window(fr, f) /\ Tallied(acc, f, N, C) /\ Pendings(acc, f, U)
    BY <1>1 DEF Section, Accs
  <1>3. fr.iteration_count \in Nat /\ fr.num_outstanding_iterations \in Nat /\ next \in Nat /\ next = fr.iteration_count + 1
    BY <1>1, <1>2 DEF FrameStates
  <1>4. S \in Nat \ {0} /\ Capacity(f) \in Nat /\ Capacity(f) < S /\ j \in 0 .. S - 1 /\ \A k \in Nat : k % S \in 0 .. S - 1
    BY <1>1, <1>3, Sizes
  <1>5. PICK s : s = NewIteration(NameOf(f), next)
    OBVIOUS
  <1>6. s \in IterationStates(NameOf(f)) /\ s.iter = next /\ s.outstanding_ops = 0 /\ s.outstanding_frame_count = 0
    BY <1>3, <1>5, NewIterationFacts
  <1>7. PICK w, v : /\ w = [fr.iterations EXCEPT ![j] = s]
                    /\ v = [fr EXCEPT !.iterations = w, !.iteration_count = next, !.dead_exits = <<>>, !.next_iter_roots = <<>>,
                                      !.num_outstanding_iterations = fr.num_outstanding_iterations + 1]
    OBVIOUS
  <1>8. w \in [0 .. S - 1 -> IterationStates(NameOf(f)) \cup {Null}] /\ \A k \in 0 .. S - 1 : w[k] = IF k = j THEN s ELSE fr.iterations[k]
    BY <1>1, <1>2, <1>4, <1>6, <1>7 DEF FrameStates
  <1>9. /\ v \in FrameStates(f) /\ v.iterations = w /\ v.iteration_count = next
        /\ v.num_outstanding_iterations = fr.num_outstanding_iterations + 1
        /\ v.num_pending_inputs = fr.num_pending_inputs /\ v.next_iter_roots = <<>> /\ v.inv_values = fr.inv_values
    <2>1. <<>> \in Seq(EntriesTo(NameOf(f))) /\ <<>> \in Seq({n \in NodesOf(NameOf(f)) : Kind[n] = "exit"})
      OBVIOUS
    <2>2. fr.num_outstanding_iterations + 1 \in Nat
      BY <1>3
    <2> QED
      BY <1>1, <1>2, <1>3, <1>7, <1>8, <2>1, <2>2 DEF FrameStates
  <1>10. BeginIteration(fr, f, next) = v
    <2>1. Slot(fr, next) = j
      BY <1>1, <1>2, Slots
    <2> QED
      BY <1>2, <1>5, <1>7, <2>1 DEF BeginIteration, SetIteration, FrameStates
  <1>11. y \in Accs(f) /\ y.fr = v /\ y.ready = acc.ready /\ y.is_done = acc.is_done
    BY <1>1, <1>2, <1>9, <1>10 DEF Accs, Started
  <1>12. First(v) = First(fr) /\ First(fr) \in Nat
    BY <1>2, <1>3, <1>9 DEF First, Window
  <1>13. Live(v, next) /\ ~Live(fr, next) /\ \A k \in Nat : k # next => (Live(v, k) <=> Live(fr, k))
    <2>1. First(fr) <= next
      BY <1>3 DEF First
    <2> QED
      BY <1>3, <1>9, <1>12, <2>1 DEF Live
  <1>14. ASSUME NEW k \in Nat, Live(fr, k)
         PROVE  k # next /\ k % S # j
    <2>1. k < next /\ next - k < S
      BY <1>1, <1>3, <1>4, <1>14 DEF Live, First
    <2>2. k % S # next % S
      BY ONLY <1>3, <1>4, <2>1, Remainders
    <2> QED
      BY <1>1, <2>1, <2>2
  <1>15. ASSUME NEW k \in Nat, Live(v, k)
         PROVE  v.iterations[k % S] = IF k = next THEN s ELSE fr.iterations[k % S]
    BY <1>1, <1>4, <1>8, <1>9, <1>13, <1>14, <1>15
  <1>16. Window(v, f)
    <2>1. v.num_outstanding_iterations <= Capacity(f)
      <3>1. fr.num_outstanding_iterations < Capacity(f) /\ v.num_outstanding_iterations = fr.num_outstanding_iterations + 1
        BY <1>1, <1>9
      <3> QED
        BY ONLY <1>3, <1>4, <3>1
    <2>2. ASSUME NEW k \in Nat, Live(v, k)
          PROVE  v.iterations[k % S].iter = k
      BY <1>1, <1>2, <1>6, <1>13, <1>15, <2>2 DEF Window
    <2>3. ASSUME NEW k \in 0 .. S - 1, v.iterations[k] # Null
          PROVE  Live(v, v.iterations[k].iter) /\ v.iterations[k].iter % S = k
      <3>1. CASE k = j
        BY <1>1, <1>4, <1>6, <1>8, <1>9, <1>13, <3>1
      <3>2. CASE k # j
        <4>1. v.iterations[k] = fr.iterations[k] /\ fr.iterations[k] \in IterationStates(NameOf(f)) \cup {Null}
          BY <1>1, <1>2, <1>8, <1>9, <3>2 DEF FrameStates
        <4>2. Live(fr, fr.iterations[k].iter) /\ fr.iterations[k].iter % S = k
          BY <1>1, <1>2, <2>3, <4>1 DEF Window
        <4>3. fr.iterations[k].iter \in Nat
          BY <2>3, <4>1 DEF IterationStates
        <4>4. fr.iterations[k].iter # next
          BY <1>1, <3>2, <4>2
        <4> QED
          BY <1>13, <4>1, <4>2, <4>3, <4>4
      <3> QED
        BY <3>1, <3>2
    <2>4. First(v) \in Nat /\ (v.num_pending_inputs # 0 => First(v) = 0)
      BY <1>2, <1>9, <1>12 DEF Window
    <2> QED
      BY <1>1, <2>1, <2>2, <2>3, <2>4 DEF Window
  <1>17. Tallied(y, f, N, C)
    <2> SUFFICES ASSUME NEW k \in Nat
                 PROVE  /\ Live(y.fr, k) =>
                             /\ N[k] + Cardinality(Those(y.ready, f, k)) <= y.fr.iterations[k % S].outstanding_ops
                             /\ C[k] <= y.fr.iterations[k % S].outstanding_frame_count
                        /\ ~Live(y.fr, k) => N[k] = 0 /\ C[k] = 0 /\ Those(y.ready, f, k) = {}
      BY <1>1 DEF Tallied
    <2>1. /\ Live(fr, k) =>
               /\ N[k] + Cardinality(Those(acc.ready, f, k)) <= fr.iterations[k % S].outstanding_ops
               /\ C[k] <= fr.iterations[k % S].outstanding_frame_count
          /\ ~Live(fr, k) => N[k] = 0 /\ C[k] = 0 /\ Those(acc.ready, f, k) = {}
      BY <1>1, <1>2 DEF Tallied
    <2>2. CASE k # next
      BY <1>11, <1>13, <1>15, <2>1, <2>2
    <2>3. CASE k = next
      <3>1. N[k] = 0 /\ C[k] = 0 /\ Those(acc.ready, f, k) = {} /\ y.fr.iterations[k % S] = s /\ Live(y.fr, k)
        BY <1>11, <1>13, <1>15, <2>1, <2>3
      <3>2. Cardinality(Those(acc.ready, f, k)) = 0
        BY <3>1, FS_EmptySet
      <3>3. N[k] + Cardinality(Those(y.ready, f, k)) = 0
        BY <1>11, <3>1, <3>2
      <3> QED
        BY <1>6, <3>1, <3>3
    <2> QED
      BY <2>2, <2>3
  <1>18. \A n \in NodesOf(NameOf(f)), k \in Nat : Spent(fr, f, n, k) => Spent(v, f, n, k)
    <2> SUFFICES ASSUME NEW n \in NodesOf(NameOf(f)), NEW k \in Nat, Spent(fr, f, n, k)
                 PROVE  Spent(v, f, n, k)
      OBVIOUS
    <2>1. k <= fr.iteration_count /\ k # next /\ k <= next
      BY <1>3 DEF Spent
    <2> QED
      BY <1>1, <1>9, <1>13, <1>15, <2>1 DEF Spent
  <1>19. Pendings(y, f, U)
    <2>1. \A z \in acc.ready : z.frame = f => z.node \in NodesOf(NameOf(f)) /\ z.iter \in Nat
      BY <1>2 DEF TaggedNodes, NodesOf
    <2> QED
      BY <1>1, <1>2, <1>11, <1>18, <2>1 DEF Pendings
  <1>20. Section(y, f, N, C, U)
    BY <1>2, <1>11, <1>16, <1>17, <1>19 DEF Section
  <1>21. Grown(acc, y, f)
    BY <1>1, <1>9, <1>11 DEF Grown
  <1> QED
    BY <1>1, <1>9, <1>11, <1>12, <1>13, <1>20, <1>21

(* Two effects in a row. *)
LEMMA GrownTwice ==
  ASSUME NEW f, NEW a, NEW b, NEW c, Grown(a, b, f), Grown(b, c, f)
  PROVE  Grown(a, c, f)
  BY DEF Grown

(* An iteration begins, with what has been put aside and the loop invariants. *)
LEMMA IncrementStep ==
  ASSUME NEW f \in Paths, NEW acc, NEW N \in Tallies, NEW C \in Tallies, NEW U, Section(acc, f, N, C, U),
         f # Root, acc.fr.num_outstanding_iterations < Capacity(f),
         NEW y, y = IncrementIteration(acc, f)
  PROVE  /\ Section(y, f, N, C, U) /\ Grown(acc, y, f) /\ y \in Accs(f) /\ First(y.fr) = First(acc.fr)
         /\ y.fr.iteration_count = acc.fr.iteration_count + 1 /\ Live(y.fr, acc.fr.iteration_count + 1)
         /\ y.fr.next_iter_roots = <<>> /\ y.is_done = acc.is_done
  <1>1. PICK next, roots, invs : next = acc.fr.iteration_count + 1 /\ roots = acc.fr.next_iter_roots /\ invs = acc.fr.inv_values
    OBVIOUS
  <1>2. acc \in Accs(f) /\ acc.fr \in FrameStates(f)
    BY DEF Section, Accs
  <1>3. next \in Nat /\ roots \in Seq(EntriesTo(NameOf(f))) /\ invs \in Seq(EntriesTo(NameOf(f)))
    BY <1>1, <1>2 DEF FrameStates
  <1>4. PICK b : b = Started(acc, f)
    OBVIOUS
  <1>5. /\ Section(b, f, N, C, U) /\ Grown(acc, b, f) /\ b \in Accs(f)
        /\ b.fr.iteration_count = next /\ Live(b.fr, next) /\ First(b.fr) = First(acc.fr) /\ b.fr.next_iter_roots = <<>>
    BY <1>1, <1>4, BeginStep
  <1>6. PICK c : c = ActivateEntries(b, f, next, roots)
    OBVIOUS
  <1>7. Section(c, f, N, C, U) /\ Within(b, c, f) /\ c \in Accs(f)
    BY <1>3, <1>5, <1>6, ActivateEntriesStep
  <1>8. Live(c.fr, next) /\ c.fr.iteration_count = next /\ First(c.fr) = First(acc.fr) /\ c.fr.next_iter_roots = <<>>
    BY <1>5, <1>7, WithinFields
  <1>9. y = ActivateEntries(c, f, next, invs)
    BY <1>1, <1>2, <1>4, <1>6 DEF IncrementIteration, Accs, Started
  <1>10. Section(y, f, N, C, U) /\ Within(c, y, f) /\ y \in Accs(f)
    BY <1>3, <1>7, <1>8, <1>9, ActivateEntriesStep
  <1>11. Live(y.fr, next) /\ y.fr.iteration_count = next /\ First(y.fr) = First(acc.fr) /\ y.fr.next_iter_roots = <<>>
    BY <1>7, <1>8, <1>10, WithinFields
  <1>12. Grown(acc, y, f)
    BY <1>5, <1>7, <1>10, WithinGrown, GrownTwice
  <1>13. y.is_done = acc.is_done
    BY <1>4, <1>7, <1>10, BeginStep DEF Within
  <1> QED
    BY <1>1, <1>10, <1>11, <1>12, <1>13

(* An iteration that is done is the first of those that run, and goes. *)
LEMMA DeleteStep ==
  ASSUME NEW f \in Paths, NEW acc, NEW N \in Tallies, NEW C \in Tallies, NEW U, Section(acc, f, N, C, U),
         NEW i \in Nat, Live(acc.fr, i), IsIterationDone(acc.fr, i),
         NEW y, y = Dropped(acc, i)
  PROVE  /\ Section(y, f, N, C, U) /\ Grown(acc, y, f) /\ y \in Accs(f)
         /\ First(acc.fr) = i /\ First(y.fr) = i + 1 /\ y.fr.iteration_count = acc.fr.iteration_count
         /\ y.fr.num_outstanding_iterations < Capacity(f)
         /\ y.fr.next_iter_roots = acc.fr.next_iter_roots
  <1>1. PICK fr, S, j : fr = acc.fr /\ S = Size(f) /\ j = i % S
    OBVIOUS
  <1>2. /\ acc \in Accs(f) /\ fr \in FrameStates(f) /\ IsFiniteSet(acc.ready) /\ acc.ready \subseteq TaggedNodes
        /\ Window(fr, f) /\ Tallied(acc, f, N, C) /\ Pendings(acc, f, U)
    BY <1>1 DEF Section, Accs
  <1>3. fr.iteration_count \in Nat /\ fr.num_outstanding_iterations \in Nat /\ First(fr) \in Nat
    BY <1>1, <1>2 DEF FrameStates, Window
  <1>23. PICK c, m : c = Capacity(f) /\ m = fr.num_outstanding_iterations
    OBVIOUS
  <1>24. c \in Nat /\ m \in Nat /\ m <= c
    BY <1>2, <1>3, <1>23, Sizes DEF Window
  <1>4. S \in Nat \ {0} /\ Capacity(f) \in Nat /\ j \in 0 .. S - 1 /\ \A k \in Nat : k % S \in 0 .. S - 1
    BY <1>1, Sizes
  <1>5. /\ fr.iterations[j].outstanding_ops = 0 /\ fr.iterations[j].outstanding_frame_count = 0
        /\ (i = 0 => fr.num_pending_inputs = 0) /\ (i # 0 => fr.iterations[(i - 1) % S] = Null)
    BY <1>1, <1>2, Slots DEF IsIterationDone
  <1>6. First(fr) = i
    <2> SUFFICES ASSUME First(fr) # i PROVE FALSE
      OBVIOUS
    <2>1. First(fr) <= i /\ i <= fr.iteration_count
      BY <1>1 DEF Live
    <2>2. i # 0 /\ i - 1 \in Nat /\ First(fr) <= i - 1 /\ i - 1 <= fr.iteration_count
      BY <1>3, <2>1
    <2>3. Live(fr, i - 1)
      BY <2>2 DEF Live
    <2>4. PICK k \in Nat : k = i - 1
      BY <2>2
    <2>5. fr.iterations[k % S] # Null
      BY <1>1, <1>2, <2>3, <2>4, LiveState
    <2> QED
      BY <1>5, <2>2, <2>4, <2>5
  <1>7. fr.num_outstanding_iterations - 1 \in Nat
    BY <1>1, <1>3, <1>6 DEF Live, First
  <1>8. PICK w, v : /\ w = [fr.iterations EXCEPT ![j] = Null]
                    /\ v = [fr EXCEPT !.iterations = w, !.num_outstanding_iterations = fr.num_outstanding_iterations - 1]
    OBVIOUS
  <1>9. w \in [0 .. S - 1 -> IterationStates(NameOf(f)) \cup {Null}] /\ \A k \in 0 .. S - 1 : w[k] = IF k = j THEN Null ELSE fr.iterations[k]
    BY <1>1, <1>2, <1>4, <1>8 DEF FrameStates
  <1>10. /\ v \in FrameStates(f) /\ v.iterations = w /\ v.iteration_count = fr.iteration_count
         /\ v.num_outstanding_iterations = fr.num_outstanding_iterations - 1
         /\ v.num_pending_inputs = fr.num_pending_inputs /\ v.next_iter_roots = fr.next_iter_roots
    BY <1>1, <1>2, <1>7, <1>8, <1>9 DEF FrameStates
  <1>11. DeleteIteration(fr, i) = v
    <2>1. Slot(fr, i) = j
      BY <1>1, <1>2, Slots
    <2> QED
      BY <1>2, <1>8, <2>1 DEF DeleteIteration, SetIteration, FrameStates
  <1>12. y \in Accs(f) /\ y.fr = v /\ y.ready = acc.ready
    BY <1>1, <1>2, <1>10, <1>11 DEF Accs, Dropped
  <1>13. First(v) = i + 1
    BY <1>3, <1>6, <1>10 DEF First
  <1>14. ~Live(v, i) /\ \A k \in Nat : k # i => (Live(v, k) <=> Live(fr, k))
    BY <1>3, <1>6, <1>10, <1>13 DEF Live
  <1>15. ASSUME NEW k \in Nat, Live(v, k)
         PROVE  v.iterations[k % S] = fr.iterations[k % S] /\ Live(fr, k)
    <2>1. k # i /\ Live(fr, k)
      BY <1>14, <1>15
    <2>2. k % S # j
      BY <1>1, <1>2, <2>1, LiveState
    <2> QED
      BY <1>4, <1>9, <1>10, <2>1, <2>2
  <1>25. v.num_outstanding_iterations = m - 1 /\ i + 1 \in Nat /\ m \in Nat /\ c \in Nat /\ c = Capacity(f) /\ m <= c
    BY ONLY <1>10, <1>23, <1>24, i \in Nat
  <1>22. v.num_outstanding_iterations < Capacity(f)
    BY ONLY <1>25
  <1>16. Window(v, f)
    <2>1. First(v) \in Nat /\ v.num_outstanding_iterations <= Capacity(f)
      BY ONLY <1>13, <1>22, <1>25
    <2>2. ASSUME NEW k \in Nat, Live(v, k)
          PROVE  v.iterations[k % S].iter = k
      BY <1>1, <1>2, <1>15, <2>2 DEF Window
    <2>3. ASSUME NEW k \in 0 .. S - 1, v.iterations[k] # Null
          PROVE  Live(v, v.iterations[k].iter) /\ v.iterations[k].iter % S = k
      <3>1. k # j /\ v.iterations[k] = fr.iterations[k] /\ fr.iterations[k] \in IterationStates(NameOf(f)) \cup {Null}
        BY <1>1, <1>2, <1>9, <1>10, <2>3 DEF FrameStates
      <3>2. Live(fr, fr.iterations[k].iter) /\ fr.iterations[k].iter % S = k
        BY <1>1, <1>2, <2>3, <3>1 DEF Window
      <3>3. fr.iterations[k].iter \in Nat
        BY <2>3, <3>1 DEF IterationStates
      <3>4. fr.iterations[k].iter # i
        BY <1>1, <3>1, <3>2
      <3> QED
        BY <1>14, <3>1, <3>2, <3>3, <3>4
    <2>4. v.num_pending_inputs = 0
      BY <1>2, <1>5, <1>6, <1>10 DEF Window
    <2>5. f = Root => v.iteration_count = 0 /\ v.next_iter_roots = <<>>
      BY <1>2, <1>10 DEF Window
    <2> QED
      BY <2>5, <1>1, <2>1, <2>2, <2>3, <2>4 DEF Window
  <1>17. Tallied(y, f, N, C)
    <2> SUFFICES ASSUME NEW k \in Nat
                 PROVE  /\ Live(y.fr, k) =>
                             /\ N[k] + Cardinality(Those(y.ready, f, k)) <= y.fr.iterations[k % S].outstanding_ops
                             /\ C[k] <= y.fr.iterations[k % S].outstanding_frame_count
                        /\ ~Live(y.fr, k) => N[k] = 0 /\ C[k] = 0 /\ Those(y.ready, f, k) = {}
      BY <1>1 DEF Tallied
    <2>1. /\ Live(fr, k) =>
               /\ N[k] + Cardinality(Those(acc.ready, f, k)) <= fr.iterations[k % S].outstanding_ops
               /\ C[k] <= fr.iterations[k % S].outstanding_frame_count
          /\ ~Live(fr, k) => N[k] = 0 /\ C[k] = 0 /\ Those(acc.ready, f, k) = {}
      BY <1>1, <1>2 DEF Tallied
    <2>2. CASE k # i
      BY <1>12, <1>14, <1>15, <2>1, <2>2
    <2>3. CASE k = i
      <3>1. IsFiniteSet(Those(acc.ready, f, k)) /\ Cardinality(Those(acc.ready, f, k)) \in Nat
        BY <1>2, ThoseFinite
      <3>2. N[k] \in Nat /\ C[k] \in Nat
        BY DEF Tallies
      <3>3. N[k] + Cardinality(Those(acc.ready, f, k)) <= 0 /\ C[k] <= 0
        BY <1>1, <1>5, <2>1, <2>3
      <3>4. N[k] = 0 /\ C[k] = 0 /\ Cardinality(Those(acc.ready, f, k)) = 0
        BY ONLY <3>1, <3>2, <3>3
      <3>5. Those(acc.ready, f, k) = {}
        BY <3>1, <3>4, FS_EmptySet
      <3> QED
        BY <1>12, <1>14, <2>3, <3>4, <3>5
    <2> QED
      BY <2>2, <2>3
  <1>18. \A n \in NodesOf(NameOf(f)), k \in Nat : Spent(fr, f, n, k) => Spent(v, f, n, k)
    BY <1>1, <1>10, <1>15 DEF Spent
  <1>19. Pendings(y, f, U)
    <2>1. \A z \in acc.ready : z.frame = f => z.node \in NodesOf(NameOf(f)) /\ z.iter \in Nat
      BY <1>2 DEF TaggedNodes, NodesOf
    <2> QED
      BY <1>1, <1>2, <1>12, <1>18, <2>1 DEF Pendings
  <1>20. Section(y, f, N, C, U)
    BY <1>2, <1>12, <1>16, <1>17, <1>19 DEF Section
  <1>21. Grown(acc, y, f)
    BY <1>1, <1>10, <1>12 DEF Grown
  <1> QED
    BY <1>1, <1>6, <1>10, <1>12, <1>13, <1>20, <1>21, <1>22

(* What the loop of CleanupIterations can make of acc. *)
Cleanups(acc, f, N, C, U) ==
  {x \in [acc : Accs(f), i : Nat] : Section(x.acc, f, N, C, U) /\ Grown(acc, x.acc, f) /\ First(x.acc.fr) <= x.i}

(* A round of that loop. *)
LEMMA CleanupOneStep ==
  ASSUME NEW f \in Paths, NEW acc, NEW N \in Tallies, NEW C \in Tallies, NEW U,
         NEW x \in Cleanups(acc, f, N, C, U)
  PROVE  CleanupOne(x, f) \in Cleanups(acc, f, N, C, U)
  <1>1. PICK a, i : a = x.acc /\ i = x.i
    OBVIOUS
  <1>2. /\ a \in Accs(f) /\ i \in Nat /\ Section(a, f, N, C, U) /\ Grown(acc, a, f) /\ First(a.fr) <= i
        /\ x = [acc |-> a, i |-> i] /\ a.fr \in FrameStates(f)
    BY <1>1 DEF Cleanups, Accs
  <1>3. CASE ~(i <= a.fr.iteration_count /\ IsIterationDone(a.fr, i))
    BY <1>1, <1>3 DEF CleanupOne
  <1>4. CASE i <= a.fr.iteration_count /\ IsIterationDone(a.fr, i)
    <2>1. Live(a.fr, i)
      BY <1>2, <1>4 DEF Live
    <2>2. PICK b : b = Dropped(a, i)
      OBVIOUS
    <2>3. /\ Section(b, f, N, C, U) /\ Grown(a, b, f) /\ b \in Accs(f) /\ First(b.fr) = i + 1
          /\ b.fr.num_outstanding_iterations < Capacity(f)
      BY <1>2, <1>4, <2>1, <2>2, DeleteStep
    <2>4. PICK y : y = StartDeferred(b, f)
      OBVIOUS
    <2>5. CleanupOne(x, f) = [acc |-> y, i |-> i + 1]
      BY <1>1, <1>2, <1>4, <2>2, <2>4 DEF CleanupOne, Dropped, Accs
    <2>6. Section(y, f, N, C, U) /\ Grown(b, y, f) /\ y \in Accs(f) /\ First(y.fr) = i + 1
      <3>1. CASE b.fr.next_iter_roots = <<>>
        BY <2>3, <2>4, <3>1 DEF StartDeferred, Grown
      <3>2. CASE b.fr.next_iter_roots # <<>>
        <4>1. f # Root
          BY <2>3, <3>2 DEF Section, Window
        <4>2. y = IncrementIteration(b, f)
          BY <2>4, <3>2 DEF StartDeferred
        <4> QED
          BY <2>3, <4>1, <4>2, IncrementStep
      <3> QED
        BY <3>1, <3>2
    <2>7. Grown(acc, y, f)
      BY <1>2, <2>3, <2>6, GrownTwice
    <2> QED
      BY <1>2, <2>5, <2>6, <2>7 DEF Cleanups
  <1> QED
    BY <1>3, <1>4

(* The iterations that are done go, and deferred ones begin. *)
LEMMA CleanupStep ==
  ASSUME NEW f \in Paths, NEW acc, NEW N \in Tallies, NEW C \in Tallies, NEW U, Section(acc, f, N, C, U),
         NEW i \in Nat, Live(acc.fr, i), NEW y, y = CleanupIterations(acc, f, i)
  PROVE  Section(y, f, N, C, U) /\ Grown(acc, y, f) /\ (y.is_done => IsFrameDone(y.fr))
  <1>1. PICK n, b, T : n = acc.fr.iteration_count + 2 /\ b = [acc |-> acc, i |-> i] /\ T = Cleanups(acc, f, N, C, U)
    OBVIOUS
  <1>2. n \in Nat /\ acc \in Accs(f)
    BY <1>1 DEF Section, Accs, FrameStates
  <1>3. b \in T
    <2>1. First(acc.fr) <= i /\ Grown(acc, acc, f)
      BY DEF Live, Grown
    <2> QED
      BY <1>1, <1>2, <2>1 DEF Cleanups
  <1> DEFINE Def(g) == g = [k \in 0 .. n |-> IF k = 0 THEN b ELSE CleanupOne(g[k - 1], f)]
             X == CHOOSE g : Def(g)
  <1>4. \A x \in T : CleanupOne(x, f) \in T
    BY <1>1, CleanupOneStep
  <1>5. \E g : Def(g)
    <2>1. PICK step : step = [z \in T \X (1 .. n) |-> CleanupOne(z[1], f)]
      OBVIOUS
    <2>2. /\ step \in [T \X (1 .. n) -> T]
          /\ \A x \in T, k \in 1 .. n : step[<<x, k>>] = CleanupOne(x, f)
      BY <1>4, <2>1
    <2>3. PICK g \in [0 .. n -> T] : RunOf(g, b, n, step)
      <3>1. n \in Nat /\ b \in T /\ step \in [T \X (1 .. n) -> T]
        BY <1>2, <1>3, <2>2
      <3> QED
        BY ONLY <3>1, Iteration
    <2>4. ASSUME NEW k \in 1 .. n
          PROVE  g[k] = CleanupOne(g[k - 1], f)
      <3>1. k - 1 \in 0 .. n
        BY <1>2
      <3>2. g[k - 1] \in T
        BY <2>3, <3>1
      <3> QED
        BY <2>2, <2>3, <3>2 DEF RunOf
    <2>5. ASSUME NEW k \in 0 .. n
          PROVE  g[k] = IF k = 0 THEN b ELSE CleanupOne(g[k - 1], f)
      BY <1>2, <2>3, <2>4 DEF RunOf
    <2>6. Def(g)
      BY <2>3, <2>5
    <2> QED
      BY <2>6
  <1>6. Def(X)
    BY <1>5
  <1>7. y = [X[n].acc EXCEPT !.is_done = IsFrameDone(X[n].acc.fr)]
    BY <1>1 DEF CleanupIterations
  <1> HIDE DEF X
  <1>8. PICK h : h = X
    OBVIOUS
  <1>9. n \in Nat /\ h = [k \in 0 .. n |-> IF k = 0 THEN b ELSE CleanupOne(h[k - 1], f)]
    BY <1>2, <1>6, <1>8
  <1> HIDE DEF Def
  <1>10. h[0] = b /\ \A k \in 1 .. n : h[k] = CleanupOne(h[k - 1], f)
    BY ONLY <1>9
  <1>11. h[n] \in T
    <2>1. PICK S : S = {k \in 0 .. n : h[k] \in T}
      OBVIOUS
    <2>2. 0 \in S
      BY ONLY <1>9, <1>3, <1>10, <2>1
    <2>3. \A k \in 1 .. n : k - 1 \in S => k \in S
      BY ONLY <1>9, <1>4, <1>10, <2>1
    <2>4. n \in S
      BY <1>2, <2>2, <2>3, UpTo
    <2> QED
      BY <2>1, <2>4
  <1>12. PICK z : z = X[n].acc
    OBVIOUS
  <1>13. z \in Accs(f) /\ Section(z, f, N, C, U) /\ Grown(acc, z, f)
    BY <1>1, <1>8, <1>11, <1>12 DEF Cleanups
  <1>14. PICK d \in BOOLEAN : d = IsFrameDone(z.fr)
    BY DEF IsFrameDone
  <1>15. y = [z EXCEPT !.is_done = d]
    BY <1>7, <1>12, <1>14
  <1>16. y \in Accs(f) /\ y.fr = z.fr /\ y.ready = z.ready /\ y.is_done = d
    BY <1>13, <1>15 DEF Accs
  <1>17. Section(y, f, N, C, U)
    BY <1>13, <1>16 DEF Section, Tallied, Pendings
  <1>18. Grown(acc, y, f)
    BY <1>13, <1>16 DEF Grown
  <1> QED
    BY <1>14, <1>16, <1>17, <1>18

(* The frame's state is v. *)
Moved(acc, v) == [acc EXCEPT !.fr = v]

(* The counters of live iteration i change from t's to s's, what they count   *)
(* from N and C to M and D.                                                   *)
Recounted(acc, f, N, C, U, i, M, D, t, s, y) ==
  /\ f \in Paths /\ N \in Tallies /\ C \in Tallies /\ Section(acc, f, N, C, U)
  /\ i \in Nat /\ Live(acc.fr, i) /\ M \in Tallies /\ D \in Tallies
  /\ \A k \in Nat : k # i => M[k] = N[k] /\ D[k] = C[k]
  /\ t = acc.fr.iterations[i % Size(f)]
  /\ s \in IterationStates(NameOf(f)) /\ s.iter = t.iter /\ s.pending = t.pending
  /\ M[i] - N[i] <= s.outstanding_ops - t.outstanding_ops
  /\ D[i] - C[i] <= s.outstanding_frame_count - t.outstanding_frame_count
  /\ y = Moved(acc, Replaced(acc.fr, i % Size(f), s))

(* That keeps what is said of a frame. *)
LEMMA CountersStep ==
  ASSUME NEW acc, NEW f, NEW N, NEW C, NEW U, NEW i, NEW M, NEW D, NEW t, NEW s, NEW y,
         Recounted(acc, f, N, C, U, i, M, D, t, s, y)
  PROVE  /\ Section(y, f, M, D, U) /\ y \in Accs(f) /\ y.ready = acc.ready /\ y.is_done = acc.is_done
         /\ y.fr.num_pending_inputs = acc.fr.num_pending_inputs /\ Live(y.fr, i)
  <1>0. /\ f \in Paths /\ N \in Tallies /\ C \in Tallies /\ Section(acc, f, N, C, U)
        /\ i \in Nat /\ Live(acc.fr, i) /\ M \in Tallies /\ D \in Tallies
        /\ \A k \in Nat : k # i => M[k] = N[k] /\ D[k] = C[k]
        /\ t = acc.fr.iterations[i % Size(f)]
        /\ s \in IterationStates(NameOf(f)) /\ s.iter = t.iter /\ s.pending = t.pending
        /\ M[i] - N[i] <= s.outstanding_ops - t.outstanding_ops
        /\ D[i] - C[i] <= s.outstanding_frame_count - t.outstanding_frame_count
        /\ y = Moved(acc, Replaced(acc.fr, i % Size(f), s))
    BY DEF Recounted
  <1> USE <1>0
  <1>1. PICK v, S : v = Replaced(acc.fr, i % Size(f), s) /\ S = Size(f)
    OBVIOUS
  <1>2. /\ acc \in Accs(f) /\ acc.fr \in FrameStates(f) /\ IsFiniteSet(acc.ready) /\ acc.ready \subseteq TaggedNodes
        /\ Window(acc.fr, f) /\ Tallied(acc, f, N, C) /\ Pendings(acc, f, U)
    BY DEF Section, Accs
  <1>3. t \in IterationStates(NameOf(f)) /\ t.iter = i
    BY <1>2, LiveState DEF Window
  <1>4. /\ v \in FrameStates(f) /\ Window(v, f)
        /\ v.iteration_count = acc.fr.iteration_count /\ v.num_pending_inputs = acc.fr.num_pending_inputs
        /\ v.num_outstanding_iterations = acc.fr.num_outstanding_iterations
        /\ \A k : Live(v, k) <=> Live(acc.fr, k)
        /\ \A k \in Nat : Live(acc.fr, k) => v.iterations[k % Size(f)] = IF k = i THEN s ELSE acc.fr.iterations[k % Size(f)]
    BY <1>1, <1>2, <1>3, ReplaceState
  <1>5. y \in Accs(f) /\ y.fr = v /\ y.ready = acc.ready /\ y.is_done = acc.is_done
    BY <1>1, <1>2, <1>4 DEF Accs, Moved
  <1>6. Tallied(y, f, M, D)
    <2> SUFFICES ASSUME NEW k \in Nat
                 PROVE  /\ Live(y.fr, k) =>
                             /\ M[k] + Cardinality(Those(y.ready, f, k)) <= y.fr.iterations[k % S].outstanding_ops
                             /\ D[k] <= y.fr.iterations[k % S].outstanding_frame_count
                        /\ ~Live(y.fr, k) => M[k] = 0 /\ D[k] = 0 /\ Those(y.ready, f, k) = {}
      BY <1>1 DEF Tallied
    <2>1. /\ Live(acc.fr, k) =>
               /\ N[k] + Cardinality(Those(acc.ready, f, k)) <= acc.fr.iterations[k % S].outstanding_ops
               /\ C[k] <= acc.fr.iterations[k % S].outstanding_frame_count
          /\ ~Live(acc.fr, k) => N[k] = 0 /\ C[k] = 0 /\ Those(acc.ready, f, k) = {}
      BY <1>1, <1>2 DEF Tallied
    <2>2. CASE k # i
      BY <1>1, <1>4, <1>5, <2>1, <2>2
    <2>3. CASE k = i
      <3>1. PICK c : c = Cardinality(Those(acc.ready, f, k))
        OBVIOUS
      <3>2. c \in Nat
        BY <1>2, <3>1, ThoseFinite
      <3>3. N[k] \in Nat /\ C[k] \in Nat /\ M[k] \in Nat /\ D[k] \in Nat
        BY DEF Tallies
      <3>4. t.outstanding_ops \in Int /\ t.outstanding_frame_count \in Int /\ s.outstanding_ops \in Int
            /\ s.outstanding_frame_count \in Int
        BY <1>3 DEF IterationStates
      <3>5. N[k] + c <= t.outstanding_ops /\ C[k] <= t.outstanding_frame_count
            /\ M[k] - N[k] <= s.outstanding_ops - t.outstanding_ops
            /\ D[k] - C[k] <= s.outstanding_frame_count - t.outstanding_frame_count
        BY <1>1, <2>1, <2>3, <3>1
      <3>6. M[k] + c <= s.outstanding_ops /\ D[k] <= s.outstanding_frame_count
        BY ONLY <3>2, <3>3, <3>4, <3>5
      <3> QED
        BY <1>1, <1>4, <1>5, <2>3, <3>1, <3>6
    <2> QED
      BY <2>2, <2>3
  <1>7. \A n \in NodesOf(NameOf(f)), k \in Nat : Spent(acc.fr, f, n, k) => Spent(v, f, n, k)
    BY <1>1, <1>4 DEF Spent
  <1>8. Pendings(y, f, U)
    <2>1. \A z \in acc.ready : z.frame = f => z.node \in NodesOf(NameOf(f)) /\ z.iter \in Nat
      BY <1>2 DEF TaggedNodes, NodesOf
    <2> QED
      BY <1>1, <1>2, <1>5, <1>7, <2>1 DEF Pendings
  <1>9. Section(y, f, M, D, U)
    BY <1>2, <1>4, <1>5, <1>6, <1>8 DEF Section
  <1> QED
    BY <1>4, <1>5, <1>9

(* An iteration of which something is counted is live. *)
LEMMA CountedIsLive ==
  ASSUME NEW f, NEW acc, NEW N, NEW C, NEW U, Section(acc, f, N, C, U),
         NEW i \in Nat, N[i] # 0 \/ C[i] # 0 \/ Those(acc.ready, f, i) # {}
  PROVE  Live(acc.fr, i)
  BY DEF Section, Tallied

(* N with one less at i. *)
OneLess(N, i) == [k \in Nat |-> IF k = i THEN N[k] - 1 ELSE N[k]]

(* It is a tally again. *)
LEMMA OneLessFacts ==
  ASSUME NEW N \in Tallies, NEW i \in Nat, N[i] # 0
  PROVE  OneLess(N, i) \in Tallies /\ OneLess(N, i)[i] = N[i] - 1 /\ \A k \in Nat : k # i => OneLess(N, i)[k] = N[k]
  <1>1. \A k \in Nat : N[k] \in Nat
    BY DEF Tallies
  <1> QED
    BY <1>1 DEF OneLess, Tallies

(* A node of iteration i has been processed. *)
LEMMA DecrementStep ==
  ASSUME NEW f \in Paths, NEW acc, NEW N \in Tallies, NEW C \in Tallies, NEW U, Section(acc, f, N, C, U),
         NEW i \in Nat, N[i] # 0, ~acc.is_done,
         NEW y, y = DecrementOutstandingOps(acc, f, i)
  PROVE  Section(y, f, OneLess(N, i), C, U) /\ Grown(acc, y, f) /\ (y.is_done => IsFrameDone(y.fr))
  <1>1. PICK t, o : t = acc.fr.iterations[i % Size(f)] /\ o = t.outstanding_ops - 1
    OBVIOUS
  <1>2. acc \in Accs(f) /\ acc.fr \in FrameStates(f) /\ Window(acc.fr, f) /\ Live(acc.fr, i)
    BY CountedIsLive DEF Section, Accs
  <1>3. t \in IterationStates(NameOf(f)) /\ o \in Int
    BY <1>1, <1>2, LiveState DEF IterationStates
  <1>4. PICK s : s = [t EXCEPT !.outstanding_ops = o]
    OBVIOUS
  <1>5. s \in IterationStates(NameOf(f)) /\ s.iter = t.iter /\ s.pending = t.pending
        /\ s.outstanding_ops = o /\ s.outstanding_frame_count = t.outstanding_frame_count
    BY <1>3, <1>4 DEF IterationStates
  <1>6. PICK b : b = Moved(acc, Replaced(acc.fr, i % Size(f), s))
    OBVIOUS
  <1>7. y = CleanupIfIdle(b, f, i)
    <2>1. Slot(acc.fr, i) = i % Size(f) /\ GetIteration(acc.fr, i) = t
      BY <1>1, <1>2, Slots
    <2>2. SetIteration(acc.fr, i, s) = Replaced(acc.fr, i % Size(f), s)
      BY <1>2, <2>1 DEF SetIteration, Replaced, FrameStates
    <2>3. CountDown(t) = s
      BY <1>1, <1>3, <1>4 DEF IterationStates, CountDown
    <2>4. [acc EXCEPT !.fr = SetIteration(@, i, CountDown(GetIteration(@, i)))] = b
      BY <1>2, <1>6, <2>1, <2>2, <2>3 DEF Accs, Moved
    <2> QED
      BY <2>4 DEF DecrementOutstandingOps
  <1>8. PICK M : M = OneLess(N, i)
    OBVIOUS
  <1>9. M \in Tallies /\ M[i] = N[i] - 1 /\ \A k \in Nat : k # i => M[k] = N[k]
    BY <1>8, OneLessFacts
  <1>10. M[i] - N[i] <= s.outstanding_ops - t.outstanding_ops
         /\ C[i] - C[i] <= s.outstanding_frame_count - t.outstanding_frame_count
    <2>1. N[i] \in Nat /\ C[i] \in Nat /\ t.outstanding_ops \in Int /\ t.outstanding_frame_count \in Int
      BY <1>3 DEF Tallies, IterationStates
    <2> QED
      BY ONLY <1>1, <1>5, <1>9, <2>1
  <1>11. /\ Section(b, f, M, C, U) /\ b \in Accs(f) /\ b.ready = acc.ready /\ b.is_done = acc.is_done
         /\ b.fr.num_pending_inputs = acc.fr.num_pending_inputs /\ Live(b.fr, i)
    <2>1. Recounted(acc, f, N, C, U, i, M, C, t, s, b)
      BY <1>1, <1>2, <1>5, <1>6, <1>9, <1>10 DEF Recounted
    <2> QED
      BY ONLY <2>1, CountersStep
  <1>12. Grown(acc, b, f)
    BY <1>11 DEF Grown
  <1>13. CASE y = b
    BY <1>8, <1>11, <1>12, <1>13
  <1>14. CASE y = CleanupIterations(b, f, i)
    <2>1. Section(y, f, M, C, U) /\ Grown(b, y, f) /\ (y.is_done => IsFrameDone(y.fr))
      BY <1>9, <1>11, <1>14, CleanupStep
    <2> QED
      BY <1>8, <1>12, <2>1, GrownTwice
  <1> QED
    BY <1>7, <1>13, <1>14 DEF CleanupIfIdle

(* The number of child frames of iteration i changes. *)
LEMMA FrameCountStep ==
  ASSUME NEW f \in Paths, NEW acc, NEW N \in Tallies, NEW C \in Tallies, NEW U, Section(acc, f, N, C, U),
         NEW i \in Nat, Live(acc.fr, i), NEW k \in Int, NEW D \in Tallies, D[i] = C[i] + k,
         \A j \in Nat : j # i => D[j] = C[j],
         NEW y, y = Moved(acc, AddToFrameCount(acc.fr, i, k))
  PROVE  /\ Section(y, f, N, D, U) /\ y \in Accs(f) /\ y.ready = acc.ready /\ y.is_done = acc.is_done
         /\ y.fr.num_pending_inputs = acc.fr.num_pending_inputs /\ Live(y.fr, i)
  <1>1. PICK t, o : t = acc.fr.iterations[i % Size(f)] /\ o = t.outstanding_frame_count + k
    OBVIOUS
  <1>2. acc \in Accs(f) /\ acc.fr \in FrameStates(f) /\ Window(acc.fr, f)
    BY DEF Section, Accs
  <1>3. t \in IterationStates(NameOf(f)) /\ o \in Int
    BY <1>1, <1>2, LiveState DEF IterationStates
  <1>4. PICK s : s = [t EXCEPT !.outstanding_frame_count = o]
    OBVIOUS
  <1>5. s \in IterationStates(NameOf(f)) /\ s.iter = t.iter /\ s.pending = t.pending
        /\ s.outstanding_ops = t.outstanding_ops /\ s.outstanding_frame_count = o
    BY <1>3, <1>4 DEF IterationStates
  <1>6. AddToFrameCount(acc.fr, i, k) = Replaced(acc.fr, i % Size(f), s)
    <2>1. Slot(acc.fr, i) = i % Size(f) /\ GetIteration(acc.fr, i) = t
      BY <1>1, <1>2, Slots
    <2>2. SetIteration(acc.fr, i, s) = Replaced(acc.fr, i % Size(f), s)
      BY <1>2, <2>1 DEF SetIteration, Replaced, FrameStates
    <2>3. [t EXCEPT !.outstanding_frame_count = @ + k] = s
      BY <1>1, <1>3, <1>4 DEF IterationStates
    <2> QED
      BY <2>1, <2>2, <2>3 DEF AddToFrameCount
  <1>7. N[i] - N[i] <= s.outstanding_ops - t.outstanding_ops
        /\ D[i] - C[i] <= s.outstanding_frame_count - t.outstanding_frame_count
    <2>1. N[i] \in Nat /\ C[i] \in Nat /\ t.outstanding_ops \in Int /\ t.outstanding_frame_count \in Int
      BY <1>3 DEF Tallies, IterationStates
    <2>2. D[i] = C[i] + k /\ k \in Int
      OBVIOUS
    <2> QED
      BY ONLY <1>1, <1>5, <2>1, <2>2
  <1>8. y = Moved(acc, Replaced(acc.fr, i % Size(f), s))
    BY <1>6
  <1>9. Recounted(acc, f, N, C, U, i, N, D, t, s, y)
    BY <1>1, <1>5, <1>7, <1>8 DEF Recounted
  <1> QED
    BY ONLY <1>9, CountersStep

--------------------------------------------------------------------------------
(* All frames.  F, P and E stand for frames, procs and executed. *)

(* What is outstanding, as triples of a proc, 0 for the node it processes or *)
(* 1 for one in its list, and that node.                                     *)
Owns(p) == p.pc \in {"process", "create", "enter", "decrement"}
Holds(P) ==
  {<<p, 0, p.tn>> : p \in {q \in P : Owns(q)}} \cup UNION {{<<p, 1, x>> : x \in p.ready} : p \in P}
Held(P, f, i) == {h \in Holds(P) : At(h[3], f, i)}

(* The child frames of an iteration, and the threads that have erased one and *)
(* have yet to count it down.                                                *)
Kids(D, f, i) == {g \in D : g # Root /\ ParentFrame(g) = f /\ ParentIter(g) = i}
Cleaners(P, f, i) == {p \in P : p.pc = "cleanup" /\ p.at = f /\ p.at_iter = i}

(* What outstanding_ops and outstanding_frame_count of f's iterations count. *)
Outs(P, f) == [i \in Nat |-> Cardinality(Held(P, f, i))]
Subs(D, P, f) == [i \in Nat |-> Cardinality(Kids(D, f, i)) + Cardinality(Cleaners(P, f, i))]

(* The nodes that have run, and those that have run or are to run. *)
Key(x) == <<x.node, x.frame, x.iter>>
Keys(E) == {Key(x) : x \in E}
Used(E, P, f) ==
  {z \in Nodes \X Nat : \/ <<z[1], f, z[2]>> \in Keys(E)
                        \/ \E h \in Holds(P) : Key(h[3]) = <<z[1], f, z[2]>>}

(* The Enters that have delivered to their child frames, and those that a    *)
(* frame waits for.                                                          *)
Entered(E, P) ==
  Keys({x \in E : IsEnter(x.node)}) \ Keys({p.tn : p \in {q \in P : q.pc \in {"create", "enter"}}})
EntersOf(name) == {n \in Nodes : IsEnter(n) /\ ChildName[n] = name}
Awaited(K, f) == {n \in EntersOf(NameOf(f)) : <<n, ParentFrame(f), ParentIter(f)>> \notin K}
ChildOf(k) == Child(k[2], k[3], ChildName[k[1]])

(* The types. *)
TypesInv(F, P, E) ==
  /\ IsFiniteSet(P) /\ P \subseteq Procs /\ \A p \in P : IsFiniteSet(p.ready)
  /\ E \subseteq TaggedNodes
  /\ IsFiniteSet(DOMAIN F) /\ DOMAIN F \subseteq Paths

(* A frame's parent is there, and has an Enter that leads to it. *)
ParentsInv(D) ==
  \A f \in D \ {Root} :
    ParentFrame(f) \in D /\ \E n \in EntersOf(NameOf(f)) : FrameName[n] = NameOf(ParentFrame(f))

(* The counters of every frame bound what is outstanding in it. *)
FramesInv(F, P, E) ==
  \A f \in DOMAIN F : Section(Acc(F[f], {}), f, Outs(P, f), Subs(DOMAIN F, P, f), Used(E, P, f))

Ends(p) == p.pc \in {"delete", "erase"}

(* What a thread refers to, by where it stands. *)
ProcOk(F, p) ==
  /\ \A x \in p.ready : x.frame \in DOMAIN F
  /\ Owns(p) => p.tn.frame \in DOMAIN F
  /\ p.pc \in {"process", "create", "enter"} => p.ready = {}
  /\ p.pc \in {"create", "enter"} => IsEnter(p.tn.node)
  /\ p.pc = "enter" => ChildOf(Key(p.tn)) \in DOMAIN F
  /\ Ends(p) => p.at \in DOMAIN F /\ IsFrameDone(F[p.at])
  /\ p.pc = "erase" => p.at # Root
  /\ p.pc = "cleanup" => p.at \in DOMAIN F

(* Every node but a Merge is outstanding once, and has not run before. *)
OnceInv(P, E) ==
  /\ \A h, k \in Holds(P) : Key(h[3]) = Key(k[3]) /\ Plain(h[3].node) => h = k
  /\ \A h \in Holds(P) : Plain(h[3].node) /\ (h[2] = 1 \/ h[1].pc = "process") => Key(h[3]) \notin Keys(E)
  /\ \A p \in P : p.pc # "process" => p.tn \in E

(* One thread at most deletes a frame. *)
EndsInv(P) == \A p, q \in P : Ends(p) /\ Ends(q) /\ p.at = q.at => p = q

(* num_pending_inputs is the number of Enters that have not delivered; a     *)
(* frame that has been there and is gone waits for none, so that no Enter is *)
(* left to create it anew.                                                   *)
InputsInv(F, E, K) ==
  /\ \A f \in DOMAIN F \ {Root} : F[f].num_pending_inputs = Cardinality(Awaited(K, f))
  /\ \A x \in E : x.frame \in DOMAIN F \/ x.frame = Root \/ Awaited(K, x.frame) = {}
  /\ \A k \in K : ChildOf(k) \in DOMAIN F \/ Awaited(K, ChildOf(k)) = {}

(* All of it but the counts of the Enters, which FindOrCreateChildFrame needs. *)
Good(F, P, E) ==
  /\ TypesInv(F, P, E) /\ ParentsInv(DOMAIN F) /\ FramesInv(F, P, E)
  /\ \A p \in P : ProcOk(F, p)
  /\ OnceInv(P, E) /\ EndsInv(P)

(* What a proc holds. *)
LEMMA HoldsFacts ==
  ASSUME NEW P
  PROVE  /\ \A p \in P : Owns(p) => <<p, 0, p.tn>> \in Holds(P)
         /\ \A p \in P : \A x \in p.ready : <<p, 1, x>> \in Holds(P)
         /\ \A h \in Holds(P) :
              /\ h = <<h[1], h[2], h[3]>> /\ h[1] \in P
              /\ (h[2] = 0 /\ Owns(h[1]) /\ h[3] = h[1].tn) \/ (h[2] = 1 /\ h[3] \in h[1].ready)
  <1>1. \A p \in P : Owns(p) => <<p, 0, p.tn>> \in Holds(P)
    BY DEF Holds
  <1>2. \A p \in P : \A x \in p.ready : <<p, 1, x>> \in Holds(P)
    BY DEF Holds
  <1>3. ASSUME NEW h \in Holds(P)
        PROVE  /\ h = <<h[1], h[2], h[3]>> /\ h[1] \in P
               /\ (h[2] = 0 /\ Owns(h[1]) /\ h[3] = h[1].tn) \/ (h[2] = 1 /\ h[3] \in h[1].ready)
    <2>1. CASE \E p \in P : Owns(p) /\ h = <<p, 0, p.tn>>
      <3>1. PICK p \in P : Owns(p) /\ h = <<p, 0, p.tn>>
        BY <2>1
      <3>2. h[1] = p /\ h[2] = 0 /\ h[3] = p.tn
        BY <3>1
      <3> QED
        BY <3>1, <3>2
    <2>2. CASE \E p \in P : \E x \in p.ready : h = <<p, 1, x>>
      <3>3. PICK p \in P : \E x \in p.ready : h = <<p, 1, x>>
        BY <2>2
      <3>1. PICK x \in p.ready : h = <<p, 1, x>>
        BY <3>3
      <3>2. h[1] = p /\ h[2] = 1 /\ h[3] = x
        BY <3>1
      <3> QED
        BY <3>1, <3>2
    <2> QED
      BY <2>1, <2>2 DEF Holds
  <1> QED
    BY <1>1, <1>2, <1>3

(* What procs hold together. *)
LEMMA HoldsUnion ==
  ASSUME NEW A, NEW B
  PROVE  /\ Holds(A \cup B) = Holds(A) \cup Holds(B)
         /\ \A f, i : Held(A \cup B, f, i) = Held(A, f, i) \cup Held(B, f, i)
         /\ A \cap B = {} => \A f, i : Held(A, f, i) \cap Held(B, f, i) = {}
  <1>1. Holds(A \cup B) = Holds(A) \cup Holds(B)
    BY DEF Holds
  <1>2. \A f, i : Held(A \cup B, f, i) = Held(A, f, i) \cup Held(B, f, i)
    BY <1>1 DEF Held
  <1>3. \A h \in Holds(A) : h[1] \in A
    BY HoldsFacts
  <1>4. \A h \in Holds(B) : h[1] \in B
    BY HoldsFacts
  <1> QED
    BY <1>1, <1>2, <1>3, <1>4 DEF Held

(* Finitely many nodes are outstanding. *)
LEMMA HoldsFinite ==
  ASSUME NEW P, IsFiniteSet(P), \A p \in P : IsFiniteSet(p.ready)
  PROVE  /\ IsFiniteSet(Holds(P))
         /\ \A f, i : IsFiniteSet(Held(P, f, i)) /\ Cardinality(Held(P, f, i)) \in Nat
  <1>1. PICK S, A, T, B : /\ S = {q \in P : Owns(q)} /\ A = {<<p, 0, p.tn>> : p \in S}
                          /\ T = {{<<p, 1, x>> : x \in p.ready} : p \in P} /\ B = UNION T
    OBVIOUS
  <1>2. IsFiniteSet(S)
    BY <1>1, FS_Subset
  <1>3. IsFiniteSet(A)
    <2>1. PICK g : g = [p \in S |-> <<p, 0, p.tn>>]
      OBVIOUS
    <2>2. A = {g[p] : p \in S}
      BY <1>1, <2>1
    <2> QED
      BY <1>2, <2>2, ImageFinite
  <1>4. IsFiniteSet(T)
    <2>1. PICK g : g = [p \in P |-> {<<p, 1, x>> : x \in p.ready}]
      OBVIOUS
    <2>2. T = {g[p] : p \in P}
      BY <1>1, <2>1
    <2> QED
      BY <2>2, ImageFinite
  <1>5. ASSUME NEW t \in T
        PROVE  IsFiniteSet(t)
    <2>1. PICK p \in P : t = {<<p, 1, x>> : x \in p.ready}
      BY <1>1, <1>5
    <2>2. PICK g : g = [x \in p.ready |-> <<p, 1, x>>]
      OBVIOUS
    <2>3. t = {g[x] : x \in p.ready}
      BY <2>1, <2>2
    <2>4. IsFiniteSet(p.ready)
      OBVIOUS
    <2> QED
      BY <2>3, <2>4, ImageFinite
  <1>6. IsFiniteSet(B)
    BY <1>1, <1>4, <1>5, FS_UNION
  <1>7. IsFiniteSet(Holds(P))
    <2>1. Holds(P) = A \cup B
      BY <1>1 DEF Holds
    <2> QED
      BY <1>3, <1>6, <2>1, FS_Union
  <1>8. \A f, i : Held(P, f, i) \subseteq Holds(P)
    BY DEF Held
  <1> QED
    BY <1>7, <1>8, FS_Subset, FS_CardinalityType

(* The nodes of an iteration that a proc holds are counted. *)
LEMMA OneHolds ==
  ASSUME NEW p, IsFiniteSet(p.ready), NEW f, NEW i, NEW c, c = Cardinality(Those(p.ready, f, i)),
         NEW H, H = Held({p}, f, i)
  PROVE  /\ IsFiniteSet(H) /\ c \in Nat
         /\ Owns(p) /\ At(p.tn, f, i) => Cardinality(H) = c + 1
         /\ ~(Owns(p) /\ At(p.tn, f, i)) => Cardinality(H) = c
  <1>1. PICK T, B, o : T = Those(p.ready, f, i) /\ B = {<<p, 1, x>> : x \in T} /\ o = <<p, 0, p.tn>>
    OBVIOUS
  <1>2. IsFiniteSet(T) /\ c \in Nat
    BY <1>1, ThoseFinite
  <1>3. IsFiniteSet(B) /\ Cardinality(B) <= Cardinality(T)
    <2>1. PICK g : g = [x \in T |-> <<p, 1, x>>]
      OBVIOUS
    <2>2. B = {g[x] : x \in T}
      BY <1>1, <2>1
    <2> QED
      BY <1>2, <2>2, ImageFinite
  <1>4. Cardinality(T) <= Cardinality(B)
    <2>1. PICK g : g = [h \in B |-> h[3]]
      OBVIOUS
    <2>2. \A x \in T : <<p, 1, x>> \in B /\ g[<<p, 1, x>>] = x
      BY <1>1, <2>1
    <2>3. \A h \in B : g[h] \in T
      BY <1>1, <2>1
    <2>4. T = {g[h] : h \in B}
      BY <2>2, <2>3
    <2> QED
      BY <1>3, <2>4, ImageFinite
  <1>5. Cardinality(B) = c
    BY <1>1, <1>2, <1>3, <1>4, FS_CardinalityType
  <1>6. H = (IF Owns(p) /\ At(p.tn, f, i) THEN B \cup {o} ELSE B)
    <2>1. \A h : h \in Holds({p}) <=> (Owns(p) /\ h = o) \/ \E x \in p.ready : h = <<p, 1, x>>
      BY <1>1 DEF Holds
    <2>2. o[3] = p.tn /\ \A x : <<p, 1, x>>[3] = x
      BY <1>1
    <2>3. ASSUME NEW h \in H
          PROVE  h \in B \/ (h = o /\ Owns(p) /\ At(p.tn, f, i))
      <3>1. h \in Holds({p}) /\ At(h[3], f, i)
        BY DEF Held
      <3>2. CASE h = o /\ Owns(p)
        BY <2>2, <3>1, <3>2
      <3>3. CASE \E x \in p.ready : h = <<p, 1, x>>
        <4>1. PICK x \in p.ready : h = <<p, 1, x>>
          BY <3>3
        <4>2. x \in T
          BY <1>1, <3>1, <4>1, <2>2 DEF Those
        <4> QED
          BY <1>1, <4>1, <4>2
      <3> QED
        BY <2>1, <3>1, <3>2, <3>3
    <2>4. \A h \in B : h \in H
      BY <1>1, <2>1, <2>2 DEF Held, Those
    <2>5. Owns(p) /\ At(p.tn, f, i) => o \in H
      BY <2>1, <2>2 DEF Held
    <2> QED
      BY <2>3, <2>4, <2>5
  <1>7. o \notin B
    BY <1>1
  <1>8. IsFiniteSet(B \cup {o}) /\ Cardinality(B \cup {o}) = c + 1
    BY <1>3, <1>5, <1>7, FS_AddElement
  <1> QED
    BY <1>2, <1>3, <1>5, <1>6, <1>8

(* The nodes that NodeDone schedules are counted. *)
LEMMA NewHolds ==
  ASSUME NEW R, IsFiniteSet(R), NEW Q, Q = {Proc(x) : x \in R}
  PROVE  /\ IsFiniteSet(Q) /\ \A q \in Q : IsFiniteSet(q.ready)
         /\ \A h \in Holds(Q) : h[3] \in R /\ h = <<Proc(h[3]), 0, h[3]>>
         /\ \A f, i : IsFiniteSet(Held(Q, f, i)) /\ Cardinality(Held(Q, f, i)) <= Cardinality(Those(R, f, i))
  <1>1. \A x : Proc(x).tn = x /\ Proc(x).ready = {} /\ Owns(Proc(x))
    BY DEF Proc, Owns
  <1>2. IsFiniteSet(Q)
    <2>1. PICK g : g = [x \in R |-> Proc(x)]
      OBVIOUS
    <2>2. Q = {g[x] : x \in R}
      BY <2>1
    <2> QED
      BY <2>2, ImageFinite
  <1>3. \A q \in Q : IsFiniteSet(q.ready)
    BY <1>1, FS_EmptySet
  <1>4. ASSUME NEW h \in Holds(Q)
        PROVE  h[3] \in R /\ h = <<Proc(h[3]), 0, h[3]>>
    <2>1. /\ h = <<h[1], h[2], h[3]>> /\ h[1] \in Q
          /\ (h[2] = 0 /\ Owns(h[1]) /\ h[3] = h[1].tn) \/ (h[2] = 1 /\ h[3] \in h[1].ready)
      BY HoldsFacts
    <2>2. PICK x \in R : h[1] = Proc(x)
      BY <2>1
    <2> QED
      BY <1>1, <2>1, <2>2
  <1>5. ASSUME NEW f, NEW i
        PROVE  IsFiniteSet(Held(Q, f, i)) /\ Cardinality(Held(Q, f, i)) <= Cardinality(Those(R, f, i))
    <2>1. PICK T, g : T = Those(R, f, i) /\ g = [x \in T |-> <<Proc(x), 0, x>>]
      OBVIOUS
    <2>2. IsFiniteSet(T)
      BY <2>1, ThoseFinite
    <2>3. \A x \in T : g[x] = <<Proc(x), 0, x>>
      BY <2>1
    <2>4. ASSUME NEW x \in T
          PROVE  g[x] \in Held(Q, f, i)
      <3>1. x \in R /\ At(x, f, i) /\ Proc(x) \in Q
        BY <2>1 DEF Those
      <3>2. <<Proc(x), 0, Proc(x).tn>> \in Holds(Q)
        BY <1>1, <3>1, HoldsFacts
      <3> QED
        BY <1>1, <2>3, <3>1, <3>2 DEF Held
    <2>5. ASSUME NEW h \in Held(Q, f, i)
          PROVE  h[3] \in T /\ h = g[h[3]]
      <3>1. h \in Holds(Q) /\ At(h[3], f, i)
        BY DEF Held
      <3>2. h[3] \in T
        BY <1>4, <2>1, <3>1 DEF Those
      <3> QED
        BY <1>4, <2>3, <3>1, <3>2
    <2>6. Held(Q, f, i) = {g[x] : x \in T}
      BY <2>4, <2>5
    <2> QED
      BY <2>1, <2>2, <2>6, ImageFinite
  <1> QED
    BY <1>2, <1>3, <1>4, <1>5

(* A frame is looked at with other lists of what is outstanding. *)
LEMMA Recount ==
  ASSUME NEW f \in Paths, NEW acc, NEW N \in Tallies, NEW C \in Tallies, NEW U, Section(acc, f, N, C, U),
         NEW b \in Accs(f), b.fr = acc.fr, IsFiniteSet(b.ready), NEW M \in Tallies, NEW D \in Tallies, NEW V,
         \A i \in Nat : /\ M[i] + Cardinality(Those(b.ready, f, i)) <= N[i] + Cardinality(Those(acc.ready, f, i))
                        /\ D[i] <= C[i],
         \A z \in V : z \in U \/ \E x \in acc.ready : x.frame = f /\ z = <<x.node, x.iter>>,
         \A x \in b.ready : x.frame = f /\ Plain(x.node) =>
           (<<x.node, x.iter>> \in U \/ x \in acc.ready) /\ <<x.node, x.iter>> \notin V,
         \A x, z \in b.ready :
           x.frame = f /\ z.frame = f /\ x.iter = z.iter /\ x.node = z.node /\ Plain(x.node) => x = z
  PROVE  Section(b, f, M, D, V)
  <1>1. /\ acc \in Accs(f) /\ IsFiniteSet(acc.ready) /\ acc.ready \subseteq TaggedNodes /\ b.ready \subseteq TaggedNodes
        /\ Window(acc.fr, f) /\ Tallied(acc, f, N, C) /\ Pendings(acc, f, U)
    BY DEF Section, Accs
  <1>2. Tallied(b, f, M, D)
    <2> SUFFICES ASSUME NEW i \in Nat
                 PROVE  /\ Live(b.fr, i) =>
                             /\ M[i] + Cardinality(Those(b.ready, f, i)) <= b.fr.iterations[i % Size(f)].outstanding_ops
                             /\ D[i] <= b.fr.iterations[i % Size(f)].outstanding_frame_count
                        /\ ~Live(b.fr, i) => M[i] = 0 /\ D[i] = 0 /\ Those(b.ready, f, i) = {}
      BY DEF Tallied
    <2>1. PICK c, d : c = Cardinality(Those(acc.ready, f, i)) /\ d = Cardinality(Those(b.ready, f, i))
      OBVIOUS
    <2>2. c \in Nat /\ d \in Nat /\ IsFiniteSet(Those(b.ready, f, i))
      BY <1>1, <2>1, ThoseFinite
    <2>3. N[i] \in Nat /\ C[i] \in Nat /\ M[i] \in Nat /\ D[i] \in Nat
      BY DEF Tallies
    <2>4. M[i] + d <= N[i] + c /\ D[i] <= C[i]
      BY <2>1
    <2>5. CASE Live(acc.fr, i)
      <3>1. PICK t : t = acc.fr.iterations[i % Size(f)]
        OBVIOUS
      <3>2. t.outstanding_ops \in Int /\ t.outstanding_frame_count \in Int
        BY <1>1, <2>5, <3>1, LiveState DEF IterationStates, Accs
      <3>3. N[i] + c <= t.outstanding_ops /\ C[i] <= t.outstanding_frame_count
        BY <1>1, <2>1, <2>5, <3>1 DEF Tallied
      <3>4. M[i] + d <= t.outstanding_ops /\ D[i] <= t.outstanding_frame_count
        BY ONLY <2>2, <2>3, <2>4, <3>2, <3>3
      <3> QED
        BY <2>1, <2>5, <3>1, <3>4
    <2>6. CASE ~Live(acc.fr, i)
      <3>1. N[i] = 0 /\ C[i] = 0 /\ Those(acc.ready, f, i) = {}
        BY <1>1, <2>6 DEF Tallied
      <3>2. c = 0
        BY <2>1, <3>1, FS_EmptySet
      <3>3. M[i] = 0 /\ D[i] = 0 /\ d = 0
        BY ONLY <2>2, <2>3, <2>4, <3>1, <3>2
      <3>4. Those(b.ready, f, i) = {}
        BY <2>1, <2>2, <3>3, FS_EmptySet
      <3> QED
        BY <2>6, <3>3, <3>4
    <2> QED
      BY <2>5, <2>6
  <1>3. ASSUME NEW n \in NodesOf(NameOf(f)), NEW i \in Nat, Plain(n),
               <<n, i>> \in U \/ \E x \in acc.ready : x.frame = f /\ <<n, i>> = <<x.node, x.iter>>
        PROVE  Spent(b.fr, f, n, i)
    BY <1>1, <1>3 DEF Pendings
  <1>4. ASSUME NEW x \in b.ready, x.frame = f, Plain(x.node)
        PROVE  Spent(b.fr, f, x.node, x.iter) /\ <<x.node, x.iter>> \notin V
    <2>1. x.node \in NodesOf(NameOf(f)) /\ x.iter \in Nat
      BY <1>1, <1>4 DEF TaggedNodes, NodesOf
    <2> QED
      BY <1>3, <1>4, <2>1
  <1>5. Pendings(b, f, V)
    BY <1>3, <1>4 DEF Pendings
  <1> QED
    BY <1>1, <1>2, <1>5 DEF Section

(* The nodes of frame f that P holds, and tn if `own'. *)
Tally(P, f, own, tn) ==
  [i \in Nat |-> Cardinality(Held(P, f, i)) + IF own /\ At(tn, f, i) THEN 1 ELSE 0]

(* The counts are numbers. *)
LEMMA TalliesTypes ==
  ASSUME NEW P, IsFiniteSet(P), \A p \in P : IsFiniteSet(p.ready), NEW D, IsFiniteSet(D), NEW f, NEW own, NEW tn
  PROVE  Outs(P, f) \in Tallies /\ Subs(D, P, f) \in Tallies /\ Tally(P, f, own, tn) \in Tallies
  <1>1. \A i : Cardinality(Held(P, f, i)) \in Nat
    BY HoldsFinite
  <1>2. ASSUME NEW i \in Nat
        PROVE  Cardinality(Kids(D, f, i)) \in Nat /\ Cardinality(Cleaners(P, f, i)) \in Nat
    <2>1. Kids(D, f, i) \subseteq D /\ Cleaners(P, f, i) \subseteq P
      BY DEF Kids, Cleaners
    <2> QED
      BY <2>1, FS_Subset, FS_CardinalityType
  <1>3. \A i \in Nat : Cardinality(Kids(D, f, i)) + Cardinality(Cleaners(P, f, i)) \in Nat
    BY <1>2
  <1>4. \A i \in Nat : Cardinality(Held(P, f, i)) + (IF own /\ At(tn, f, i) THEN 1 ELSE 0) \in Nat
    BY <1>1
  <1> QED
    BY <1>1, <1>3, <1>4 DEF Outs, Subs, Tally, Tallies

(* What a step begins with. *)
LEMMA TypesOf ==
  ASSUME NEW F, NEW P, NEW E, Good(F, P, E), NEW f \in DOMAIN F
  PROVE  /\ f \in Paths /\ F[f] \in FrameStates(f) /\ Window(F[f], f)
         /\ Outs(P, f) \in Tallies /\ Subs(DOMAIN F, P, f) \in Tallies
         /\ Section(Acc(F[f], {}), f, Outs(P, f), Subs(DOMAIN F, P, f), Used(E, P, f))
         /\ P \subseteq Procs /\ E \subseteq TaggedNodes
         /\ \A p \in P : p.ready \subseteq TaggedNodes /\ p.tn \in TaggedNodes /\ IsFiniteSet(p.ready)
  <1>1. TypesInv(F, P, E) /\ FramesInv(F, P, E)
    BY DEF Good
  <1>2. f \in Paths /\ Section(Acc(F[f], {}), f, Outs(P, f), Subs(DOMAIN F, P, f), Used(E, P, f))
    BY <1>1 DEF TypesInv, FramesInv
  <1>3. Acc(F[f], {}) \in Accs(f) /\ Window(Acc(F[f], {}).fr, f) /\ Acc(F[f], {}).fr = F[f]
    BY <1>2 DEF Section, Acc
  <1>4. F[f] \in FrameStates(f)
    BY <1>3 DEF Accs
  <1>5. Outs(P, f) \in Tallies /\ Subs(DOMAIN F, P, f) \in Tallies
    BY <1>1, TalliesTypes DEF TypesInv
  <1>6. P \subseteq Procs /\ E \subseteq TaggedNodes
    BY <1>1 DEF TypesInv
  <1>7. \A p \in P : p.ready \subseteq TaggedNodes /\ p.tn \in TaggedNodes /\ IsFiniteSet(p.ready)
    BY <1>1, <1>6 DEF TypesInv, Procs
  <1> QED
    BY <1>2, <1>3, <1>4, <1>5, <1>6, <1>7

(* An accumulator. *)
LEMMA AccType ==
  ASSUME NEW f, NEW fr \in FrameStates(f), NEW R \in SUBSET TaggedNodes
  PROVE  Acc(fr, R) \in Accs(f) /\ Acc(fr, R).fr = fr /\ Acc(fr, R).ready = R /\ ~Acc(fr, R).is_done
  BY DEF Acc, Accs

(* Membership in Used. *)
LEMMA UsedFacts ==
  ASSUME NEW E, NEW P, NEW f
  PROVE  /\ Used(E, P, f) \subseteq Nodes \X Nat
         /\ \A n \in Nodes, i \in Nat :
              <<n, i>> \in Used(E, P, f) <=>
                <<n, f, i>> \in Keys(E) \/ \E h \in Holds(P) : Key(h[3]) = <<n, f, i>>
  <1>1. ASSUME NEW n \in Nodes, NEW i \in Nat
        PROVE  <<n, i>> \in Used(E, P, f) <=>
                 <<n, f, i>> \in Keys(E) \/ \E h \in Holds(P) : Key(h[3]) = <<n, f, i>>
    <2>1. PICK z : z = <<n, i>>
      OBVIOUS
    <2>2. z \in Nodes \X Nat /\ z[1] = n /\ z[2] = i
      BY <2>1
    <2>3. z \in Used(E, P, f) <=> <<z[1], f, z[2]>> \in Keys(E) \/ \E h \in Holds(P) : Key(h[3]) = <<z[1], f, z[2]>>
      BY <2>2 DEF Used
    <2> QED
      BY <2>1, <2>2, <2>3
  <1>2. Used(E, P, f) \subseteq Nodes \X Nat
    BY DEF Used
  <1> QED
    BY <1>1, <1>2

(* The nodes of R are neither in E nor held by P, and each is there once. *)
Clear(R, E, P) ==
  /\ \A x \in R : Plain(x.node) => Key(x) \notin Keys(E) /\ \A h \in Holds(P) : Key(h[3]) # Key(x)
  /\ \A x, z \in R : Plain(x.node) /\ Key(x) = Key(z) => x = z

Others(P, p) == P \ {p}
With(E, tn) == E \cup {tn}

(* What a proc does not hold. *)
LEMMA OthersFacts ==
  ASSUME NEW P, NEW p \in P
  PROVE  /\ Holds(P) = Holds(Others(P, p)) \cup Holds({p})
         /\ \A h \in Holds(Others(P, p)) : h \in Holds(P) /\ h[1] \in P /\ h[1] # p
         /\ \A f, i : Held(P, f, i) = Held(Others(P, p), f, i) \cup Held({p}, f, i)
                      /\ Held(Others(P, p), f, i) \cap Held({p}, f, i) = {}
  <1>1. P = Others(P, p) \cup {p} /\ Others(P, p) \cap {p} = {}
    BY DEF Others
  <1>2. \A h \in Holds(Others(P, p)) : h[1] \in Others(P, p)
    BY HoldsFacts
  <1>3. PICK A, B : A = Others(P, p) /\ B = {p}
    OBVIOUS
  <1>4. /\ Holds(A \cup B) = Holds(A) \cup Holds(B)
        /\ \A f, i : Held(A \cup B, f, i) = Held(A, f, i) \cup Held(B, f, i)
        /\ A \cap B = {} => \A f, i : Held(A, f, i) \cap Held(B, f, i) = {}
    BY ONLY HoldsUnion
  <1>5. /\ Holds(P) = Holds(A) \cup Holds(B)
        /\ \A f, i : Held(P, f, i) = Held(A, f, i) \cup Held(B, f, i) /\ Held(A, f, i) \cap Held(B, f, i) = {}
    BY ONLY <1>1, <1>3, <1>4
  <1>6. \A h \in Holds(A) : h \in Holds(P) /\ h[1] \in P /\ h[1] # p
    BY <1>2, <1>3, <1>5 DEF Others
  <1> QED
    BY ONLY <1>3, <1>5, <1>6

(* The list of a proc holds what no other does. *)
LEMMA ReadyClear ==
  ASSUME NEW F, NEW P, NEW E, Good(F, P, E), NEW p \in P
  PROVE  Clear(p.ready, With(E, p.tn), Others(P, p))
  <1>1. OnceInv(P, E) /\ ProcOk(F, p)
    BY DEF Good
  <1>2. \A x \in p.ready : <<p, 1, x>> \in Holds(P)
    BY HoldsFacts
  <1>3. ASSUME NEW x \in p.ready, Plain(x.node)
        PROVE  Key(x) \notin Keys(With(E, p.tn)) /\ \A h \in Holds(Others(P, p)) : Key(h[3]) # Key(x)
    <2>1. PICK h : h = <<p, 1, x>>
      OBVIOUS
    <2>2. h \in Holds(P) /\ h[1] = p /\ h[2] = 1 /\ h[3] = x
      BY <1>2, <2>1
    <2>3. Key(x) \notin Keys(E)
      BY <1>1, <1>3, <2>2 DEF OnceInv
    <2>4. p.tn \in E
      BY <1>1 DEF OnceInv, ProcOk
    <2>5. ASSUME NEW k \in Holds(Others(P, p)), Key(k[3]) = Key(x)
          PROVE  FALSE
      <3>1. k \in Holds(P) /\ k[1] # p
        BY OthersFacts
      <3>2. h = k
        BY <1>1, <1>3, <2>2, <2>5, <3>1 DEF OnceInv
      <3> QED
        BY <2>2, <3>1, <3>2
    <2> QED
      BY <2>3, <2>4, <2>5 DEF Keys, With
  <1>4. ASSUME NEW x \in p.ready, NEW z \in p.ready, Plain(x.node), Key(x) = Key(z)
        PROVE  x = z
    <2>1. PICK h, k : h = <<p, 1, x>> /\ k = <<p, 1, z>>
      OBVIOUS
    <2>2. h \in Holds(P) /\ k \in Holds(P) /\ h[3] = x /\ k[3] = z
      BY <1>2, <2>1
    <2>3. h = k
      BY <1>1, <1>4, <2>2 DEF OnceInv
    <2> QED
      BY <2>2, <2>3
  <1> QED
    BY <1>3, <1>4 DEF Clear

(* A section begins: the thread's own list is set apart from the rest. *)
LEMMA SectionBegins ==
  ASSUME NEW F, NEW P, NEW E, Good(F, P, E), NEW p \in P, NEW f \in DOMAIN F
  PROVE  Section(Acc(F[f], p.ready), f, Tally(Others(P, p), f, Owns(p), p.tn), Subs(DOMAIN F, P, f),
                 Used(With(E, p.tn), Others(P, p), f))
  <1>1. PICK acc, b, N, M, C, U, V, O :
          /\ acc = Acc(F[f], {}) /\ b = Acc(F[f], p.ready) /\ N = Outs(P, f) /\ O = Others(P, p)
          /\ M = Tally(O, f, Owns(p), p.tn) /\ C = Subs(DOMAIN F, P, f) /\ U = Used(E, P, f)
          /\ V = Used(With(E, p.tn), O, f)
    OBVIOUS
  <1>2. /\ f \in Paths /\ F[f] \in FrameStates(f) /\ N \in Tallies /\ C \in Tallies
        /\ Section(acc, f, N, C, U) /\ E \subseteq TaggedNodes
        /\ p.ready \subseteq TaggedNodes /\ p.tn \in TaggedNodes /\ IsFiniteSet(p.ready)
    BY <1>1, TypesOf
  <1>3. /\ b \in Accs(f) /\ b.fr = F[f] /\ b.ready = p.ready
        /\ acc.fr = F[f] /\ acc.ready = {}
    BY <1>1, <1>2, AccType
  <1>4. IsFiniteSet(O) /\ \A q \in O : IsFiniteSet(q.ready)
    BY <1>1, FS_Subset DEF Good, TypesInv, Others
  <1>5. M \in Tallies
    <2>1. IsFiniteSet(DOMAIN F)
      BY DEF Good, TypesInv
    <2> QED
      BY <1>1, <1>4, <2>1, TalliesTypes
  <1>6. ASSUME NEW i \in Nat
        PROVE  M[i] + Cardinality(Those(b.ready, f, i)) <= N[i] + Cardinality(Those(acc.ready, f, i)) /\ C[i] <= C[i]
    <2>1. PICK c, A, B, o : /\ c = Cardinality(Those(p.ready, f, i)) /\ A = Held(O, f, i) /\ B = Held({p}, f, i)
                            /\ o = IF Owns(p) /\ At(p.tn, f, i) THEN 1 ELSE 0
      OBVIOUS
    <2>2. IsFiniteSet(B) /\ c \in Nat /\ o \in Nat /\ Cardinality(B) = c + o
      BY <1>2, <2>1, OneHolds
    <2>3. IsFiniteSet(A) /\ Cardinality(A) \in Nat
      BY <1>4, <2>1, HoldsFinite
    <2>14. \A g, k : Held(P, g, k) = Held(Others(P, p), g, k) \cup Held({p}, g, k)
                     /\ Held(Others(P, p), g, k) \cap Held({p}, g, k) = {}
      BY OthersFacts
    <2>4. Held(P, f, i) = A \cup B /\ A \cap B = {}
      BY ONLY <1>1, <2>1, <2>14
    <2>5. Cardinality(A \cup B) = Cardinality(A) + Cardinality(B) - Cardinality(A \cap B) /\ Cardinality({}) = 0
      BY <2>2, <2>3, FS_Union, FS_EmptySet
    <2>6. N[i] = Cardinality(A \cup B) /\ M[i] = Cardinality(A) + o
      BY <1>1, <2>1, <2>4 DEF Outs, Tally
    <2>7. Those(acc.ready, f, i) = {}
      BY <1>3 DEF Those
    <2>8. N[i] = Cardinality(A) + c + o
      BY <2>2, <2>3, <2>4, <2>5, <2>6
    <2>9. C[i] \in Nat
      BY <1>2 DEF Tallies
    <2>10. Cardinality(Those(b.ready, f, i)) = c /\ Cardinality(Those(acc.ready, f, i)) = 0
      BY <1>3, <2>1, <2>5, <2>7
    <2>11. PICK a : a = Cardinality(A)
      OBVIOUS
    <2>12. a \in Nat /\ c \in Nat /\ o \in Nat /\ N[i] = a + c + o /\ M[i] = a + o
      BY <2>2, <2>3, <2>6, <2>8, <2>11
    <2>13. M[i] + c <= N[i] + 0 /\ C[i] <= C[i]
      BY ONLY <2>9, <2>12
    <2> QED
      BY ONLY <2>10, <2>13
  <1>7. ASSUME NEW z \in V
        PROVE  z \in U
    <2>0. z \in Nodes \X Nat
      BY <1>1, <1>7, UsedFacts
    <2>1. PICK n \in Nodes, i \in Nat : z = <<n, i>>
      BY <2>0
    <2>2. <<n, f, i>> \in Keys(With(E, p.tn)) \/ \E h \in Holds(O) : Key(h[3]) = <<n, f, i>>
      BY <1>1, <1>7, <2>1, UsedFacts
    <2>3. <<n, f, i>> \in Keys(E) \/ (<<n, f, i>> = Key(p.tn)) \/ \E h \in Holds(P) : Key(h[3]) = <<n, f, i>>
      BY <1>1, <2>2, OthersFacts DEF Keys, With
    <2>4. Key(p.tn) \in Keys(E) \/ \E h \in Holds(P) : Key(h[3]) = Key(p.tn)
      <3>1. CASE p.pc # "process"
        BY <3>1 DEF Good, OnceInv, Keys
      <3>2. CASE p.pc = "process"
        <4>1. Owns(p)
          BY <3>2 DEF Owns
        <4>2. PICK h : h = <<p, 0, p.tn>>
          OBVIOUS
        <4>3. h \in Holds(P) /\ h[3] = p.tn
          BY <4>1, <4>2, HoldsFacts
        <4> QED
          BY <4>3
      <3> QED
        BY <3>1, <3>2
    <2>5. <<n, f, i>> \in Keys(E) \/ \E h \in Holds(P) : Key(h[3]) = <<n, f, i>>
      BY <2>3, <2>4
    <2> QED
      BY <1>1, <2>1, <2>5, UsedFacts
  <1>8. Clear(p.ready, With(E, p.tn), O)
    BY <1>1, ReadyClear
  <1>9. ASSUME NEW x \in p.ready, x.frame = f, Plain(x.node)
        PROVE  <<x.node, x.iter>> \in U /\ <<x.node, x.iter>> \notin V
    <2>1. x.node \in Nodes /\ x.iter \in Nat /\ Key(x) = <<x.node, f, x.iter>>
      BY <1>2, <1>9 DEF TaggedNodes, Key
    <2>2. PICK h : h = <<p, 1, x>>
      OBVIOUS
    <2>3. h \in Holds(P) /\ h[3] = x
      BY <2>2, HoldsFacts
    <2>4. <<x.node, x.iter>> \in U
      BY <1>1, <2>1, <2>3, UsedFacts
    <2>5. ~(Key(x) \in Keys(With(E, p.tn)) \/ \E k \in Holds(O) : Key(k[3]) = Key(x))
      BY <1>8, <1>9 DEF Clear
    <2>6. <<x.node, x.iter>> \notin V
      BY <1>1, <2>1, <2>5, UsedFacts
    <2> QED
      BY <2>4, <2>6
  <1>10. \A x, z \in p.ready :
           x.frame = f /\ z.frame = f /\ x.iter = z.iter /\ x.node = z.node /\ Plain(x.node) => x = z
    BY <1>8 DEF Clear, Key
  <1>11. Section(b, f, M, C, V)
    <2>1. /\ f \in Paths /\ N \in Tallies /\ C \in Tallies /\ M \in Tallies /\ Section(acc, f, N, C, U)
          /\ b \in Accs(f) /\ b.fr = acc.fr /\ IsFiniteSet(b.ready)
          /\ \A i \in Nat : M[i] + Cardinality(Those(b.ready, f, i)) <= N[i] + Cardinality(Those(acc.ready, f, i)) /\ C[i] <= C[i]
          /\ \A z \in V : z \in U \/ \E x \in acc.ready : x.frame = f /\ z = <<x.node, x.iter>>
          /\ \A x \in b.ready : x.frame = f /\ Plain(x.node) =>
               (<<x.node, x.iter>> \in U \/ x \in acc.ready) /\ <<x.node, x.iter>> \notin V
          /\ \A x, z \in b.ready :
               x.frame = f /\ z.frame = f /\ x.iter = z.iter /\ x.node = z.node /\ Plain(x.node) => x = z
      BY <1>2, <1>3, <1>5, <1>6, <1>7, <1>9, <1>10
    <2> QED
      BY ONLY <2>1, Recount
  <1> QED
    BY <1>1, <1>11

Extra(own, tn, f, i) == IF own /\ At(tn, f, i) THEN 1 ELSE 0

(* The procs Q take over the list R of proc p, and its node if `own'. *)
Carries(Q, p, R, own) ==
  /\ IsFiniteSet(Q) /\ \A q \in Q : IsFiniteSet(q.ready)
  /\ \A h \in Holds(Q) : h[3] \in R \/ (own /\ h[3] = p.tn /\ h[2] = 0 /\ h[1].pc # "process")
  /\ \A h, k \in Holds(Q) : h[3] = k[3] => h = k \/ (h[3] = p.tn /\ p.tn \in R)
  /\ \A f, i : Cardinality(Held(Q, f, i)) <= Cardinality(Those(R, f, i)) + Extra(own, p.tn, f, i)
  /\ \A q \in Q : q.pc # "process" => q.tn = p.tn

(* So do the procs of NodeDone. *)
LEMMA CarriesNew ==
  ASSUME NEW p, NEW R, IsFiniteSet(R), NEW Q, Q = {Proc(x) : x \in R}
  PROVE  Carries(Q, p, R, FALSE)
  <1>1. /\ IsFiniteSet(Q) /\ \A q \in Q : IsFiniteSet(q.ready)
        /\ \A h \in Holds(Q) : h[3] \in R /\ h = <<Proc(h[3]), 0, h[3]>>
        /\ \A f, i : IsFiniteSet(Held(Q, f, i)) /\ Cardinality(Held(Q, f, i)) <= Cardinality(Those(R, f, i))
    BY NewHolds
  <1>2. ASSUME NEW f, NEW i
        PROVE  Cardinality(Held(Q, f, i)) <= Cardinality(Those(R, f, i)) + Extra(FALSE, p.tn, f, i)
    <2>1. PICK a, b, e : a = Cardinality(Held(Q, f, i)) /\ b = Cardinality(Those(R, f, i)) /\ e = Extra(FALSE, p.tn, f, i)
      OBVIOUS
    <2>2. a \in Nat /\ b \in Nat /\ a <= b
      BY <1>1, <2>1, ThoseFinite, FS_CardinalityType
    <2>3. e = 0
      BY <2>1 DEF Extra
    <2>4. a <= b + e
      BY ONLY <2>2, <2>3
    <2> QED
      BY <2>1, <2>4
  <1>3. \A q \in Q : q.pc = "process"
    BY DEF Proc
  <1> QED
    BY <1>1, <1>2, <1>3 DEF Carries

(* So does the same proc, further on. *)
LEMMA CarriesOne ==
  ASSUME NEW p, NEW q, IsFiniteSet(q.ready), q.tn = p.tn, q.pc # "process", NEW own \in BOOLEAN, own <=> Owns(q)
  PROVE  Carries({q}, p, q.ready, own)
  <1>1. IsFiniteSet({q})
    BY FS_Singleton
  <1>2. ASSUME NEW h \in Holds({q})
        PROVE  /\ h = <<q, h[2], h[3]>> /\ h[1] = q
               /\ (h[2] = 0 /\ own /\ h[3] = p.tn) \/ (h[2] = 1 /\ h[3] \in q.ready)
    <2>1. /\ h = <<h[1], h[2], h[3]>> /\ h[1] \in {q}
          /\ (h[2] = 0 /\ Owns(h[1]) /\ h[3] = h[1].tn) \/ (h[2] = 1 /\ h[3] \in h[1].ready)
      BY HoldsFacts
    <2> QED
      BY <2>1
  <1>3. \A h, k \in Holds({q}) : h[3] = k[3] => h = k \/ (h[3] = p.tn /\ p.tn \in q.ready)
    BY <1>2
  <1>4. ASSUME NEW f, NEW i
        PROVE  Cardinality(Held({q}, f, i)) <= Cardinality(Those(q.ready, f, i)) + Extra(own, p.tn, f, i)
    <2>1. PICK c, H : c = Cardinality(Those(q.ready, f, i)) /\ H = Held({q}, f, i)
      OBVIOUS
    <2>2. /\ c \in Nat
          /\ Owns(q) /\ At(q.tn, f, i) => Cardinality(H) = c + 1
          /\ ~(Owns(q) /\ At(q.tn, f, i)) => Cardinality(H) = c
      BY <2>1, OneHolds
    <2>3. Cardinality(H) = c + Extra(own, p.tn, f, i) /\ Extra(own, p.tn, f, i) \in Nat
      BY <2>2 DEF Extra
    <2> QED
      BY <2>1, <2>2, <2>3
  <1>5. \A h \in Holds({q}) : h[3] \in q.ready \/ (own /\ h[3] = p.tn /\ h[2] = 0 /\ h[1].pc # "process")
    BY <1>2
  <1> QED
    BY <1>1, <1>3, <1>4, <1>5 DEF Carries

(* A section adds nodes to the list that nobody has. *)
LEMMA ClearAfter ==
  ASSUME NEW R, NEW E, NEW O, Clear(R, E, O), NEW f \in Paths, NEW y, NEW M, NEW C,
         Section(y, f, M, C, Used(E, O, f)),
         \A x \in y.ready : x \in R \/ x.frame = f
  PROVE  Clear(y.ready, E, O)
  <1>1. Pendings(y, f, Used(E, O, f)) /\ y.ready \subseteq TaggedNodes
    BY DEF Section, Accs
  <1>2. ASSUME NEW x \in y.ready, Plain(x.node)
        PROVE  Key(x) \notin Keys(E) /\ \A h \in Holds(O) : Key(h[3]) # Key(x)
    <2>1. CASE x \in R
      BY <1>2, <2>1 DEF Clear
    <2>2. CASE x.frame = f
      <3>1. x.node \in Nodes /\ x.iter \in Nat /\ Key(x) = <<x.node, f, x.iter>>
        BY <1>1, <2>2 DEF TaggedNodes, Key
      <3>2. <<x.node, x.iter>> \notin Used(E, O, f)
        BY <1>1, <1>2, <2>2 DEF Pendings
      <3> QED
        BY <3>1, <3>2, UsedFacts
    <2> QED
      BY <2>1, <2>2
  <1>3. ASSUME NEW x \in y.ready, NEW z \in y.ready, Plain(x.node), Key(x) = Key(z)
        PROVE  x = z
    <2>1. x.frame = z.frame /\ x.node = z.node /\ x.iter = z.iter
      BY <1>3 DEF Key
    <2>2. CASE x.frame = f
      BY <1>1, <1>3, <2>1, <2>2 DEF Pendings
    <2>3. CASE x.frame # f
      BY <1>3, <2>1, <2>3 DEF Clear
    <2> QED
      BY <2>2, <2>3
  <1> QED
    BY <1>2, <1>3 DEF Clear

(* Nodes stay outstanding once. *)
LEMMA OnceAfter ==
  ASSUME NEW F, NEW P, NEW E, Good(F, P, E), NEW p \in P, NEW own \in BOOLEAN, own => Owns(p),
         NEW R, NEW E1, E1 = With(E, p.tn), NEW O, O = Others(P, p), Clear(R, E1, O),
         NEW Q, Carries(Q, p, R, own)
  PROVE  OnceInv(O \cup Q, E1)
  <1>1. /\ OnceInv(P, E)
        /\ Holds(O \cup Q) = Holds(O) \cup Holds(Q)
        /\ \A h \in Holds(O) : h \in Holds(P) /\ h[1] \in P /\ h[1] # p
    BY OthersFacts, HoldsUnion DEF Good
  <1>2. Key(p.tn) \in Keys(E1)
    BY DEF Keys, With
  <1>3. ASSUME NEW h \in Holds(O), Plain(h[3].node), Owns(p)
        PROVE  Key(h[3]) # Key(p.tn)
    <2>1. PICK k : k = <<p, 0, p.tn>>
      OBVIOUS
    <2>2. k \in Holds(P) /\ k[1] = p /\ k[3] = p.tn
      BY <1>3, <2>1, HoldsFacts
    <2> QED
      BY <1>1, <1>3, <2>2 DEF OnceInv
  <1>4. \A h \in Holds(Q) : h[3] \in R \/ (own /\ h[3] = p.tn /\ h[2] = 0 /\ h[1].pc # "process")
    BY DEF Carries
  <1>5. \A x \in R : Plain(x.node) => Key(x) \notin Keys(E1) /\ Key(x) # Key(p.tn) /\ x # p.tn
    BY <1>2 DEF Clear
  <1>6. ASSUME NEW h \in Holds(O), NEW k \in Holds(Q), Plain(h[3].node) \/ Plain(k[3].node), Key(h[3]) = Key(k[3])
        PROVE  FALSE
    <2>1. Plain(h[3].node) /\ Plain(k[3].node)
      BY <1>6 DEF Key
    <2> QED
      BY <1>3, <1>4, <1>6, <2>1 DEF Clear
  <1>7. ASSUME NEW h \in Holds(Q), NEW k \in Holds(Q), Plain(h[3].node), Key(h[3]) = Key(k[3])
        PROVE  h = k
    <2>1. Plain(k[3].node)
      BY <1>7 DEF Key
    <2>2. h[3] = k[3]
      BY <1>4, <1>5, <1>7, <2>1 DEF Clear
    <2>3. ~(h[3] = p.tn /\ p.tn \in R)
      BY <1>5, <1>7
    <2> QED
      BY <2>2, <2>3 DEF Carries
  <1>8. \A h, k \in Holds(O \cup Q) : Key(h[3]) = Key(k[3]) /\ Plain(h[3].node) => h = k
    BY <1>1, <1>6, <1>7 DEF OnceInv
  <1>9. ASSUME NEW h \in Holds(O \cup Q), Plain(h[3].node), h[2] = 1 \/ h[1].pc = "process"
        PROVE  Key(h[3]) \notin Keys(E1)
    <2>1. CASE h \in Holds(Q)
      BY <1>4, <1>5, <1>9, <2>1
    <2>2. CASE h \in Holds(O)
      <3>1. Key(h[3]) \notin Keys(E)
        BY <1>1, <1>9, <2>2 DEF OnceInv
      <3>2. Key(h[3]) # Key(p.tn)
        <4>1. CASE Owns(p)
          BY <1>3, <1>9, <2>2, <4>1
        <4>2. CASE ~Owns(p)
          <5>1. p.pc # "process"
            BY <4>2 DEF Owns
          <5>2. Key(p.tn) \in Keys(E)
            BY <1>1, <5>1 DEF OnceInv, Keys
          <5> QED
            BY <3>1, <5>2
        <4> QED
          BY <4>1, <4>2
      <3> QED
        BY <3>1, <3>2 DEF Keys, With
    <2> QED
      BY <1>1, <2>1, <2>2
  <1>10. \A q \in O \cup Q : q.pc # "process" => q.tn \in E1
    BY <1>1 DEF Carries, OnceInv, Others, With
  <1> QED
    BY <1>8, <1>9, <1>10 DEF OnceInv

(* What is outstanding in a frame is counted after a step, too. *)
LEMMA FrameAfter ==
  ASSUME NEW g \in Paths, NEW acc, NEW O, IsFiniteSet(O), \A q \in O : IsFiniteSet(q.ready),
         NEW p, NEW E1, p.tn \in E1, NEW was \in BOOLEAN, NEW own \in BOOLEAN, own => was,
         NEW C \in Tallies, Section(acc, g, Tally(O, g, was, p.tn), C, Used(E1, O, g)),
         NEW Q, NEW R, IsFiniteSet(R), Carries(Q, p, R, own), \A x \in R : x.frame = g => x \in acc.ready,
         NEW D \in Tallies, \A i \in Nat : D[i] <= C[i]
  PROVE  Section(Acc(acc.fr, {}), g, Outs(O \cup Q, g), D, Used(E1, O \cup Q, g))
  <1>1. PICK b, N, M, U, V, P2 :
          /\ b = Acc(acc.fr, {}) /\ P2 = O \cup Q /\ N = Tally(O, g, was, p.tn) /\ M = Outs(P2, g)
          /\ U = Used(E1, O, g) /\ V = Used(E1, P2, g)
    OBVIOUS
  <1>2. acc \in Accs(g) /\ acc.fr \in FrameStates(g) /\ IsFiniteSet(acc.ready)
    BY DEF Section, Accs
  <1>3. b \in Accs(g) /\ b.fr = acc.fr /\ b.ready = {} /\ IsFiniteSet(b.ready)
    BY <1>1, <1>2, AccType, FS_EmptySet
  <1>4. IsFiniteSet(Q) /\ \A q \in Q : IsFiniteSet(q.ready)
    BY DEF Carries
  <1>5. N \in Tallies /\ M \in Tallies
    <2>1. IsFiniteSet(P2) /\ \A q \in P2 : IsFiniteSet(q.ready)
      BY <1>1, <1>4, FS_Union
    <2>2. IsFiniteSet({})
      BY FS_EmptySet
    <2> QED
      BY <1>1, <2>1, <2>2, TalliesTypes
  <1>6. ASSUME NEW i \in Nat
        PROVE  M[i] + Cardinality(Those(b.ready, g, i)) <= N[i] + Cardinality(Those(acc.ready, g, i)) /\ D[i] <= C[i]
    <2>1. PICK A, B, T, W, e, w :
            /\ A = Held(O, g, i) /\ B = Held(Q, g, i) /\ T = Those(R, g, i) /\ W = Those(acc.ready, g, i)
            /\ e = Extra(own, p.tn, g, i) /\ w = Extra(was, p.tn, g, i)
      OBVIOUS
    <2>2. IsFiniteSet(A) /\ IsFiniteSet(B) /\ Cardinality(A) \in Nat /\ Cardinality(B) \in Nat
      BY <1>4, <2>1, HoldsFinite
    <2>3. IsFiniteSet(T) /\ IsFiniteSet(W) /\ Cardinality(T) \in Nat /\ Cardinality(W) \in Nat
      BY <1>2, <2>1, ThoseFinite
    <2>4. e \in Nat /\ w \in Nat /\ e <= w
      BY <2>1 DEF Extra
    <2>5. T \subseteq W
      BY <2>1 DEF Those, At
    <2>6. Cardinality(T) <= Cardinality(W)
      BY <2>3, <2>5, FS_Subset
    <2>7. Cardinality(B) <= Cardinality(T) + e
      BY <2>1 DEF Carries
    <2>8. Cardinality(A \cup B) = Cardinality(A) + Cardinality(B) - Cardinality(A \cap B) /\ Cardinality(A \cap B) \in Nat
      <3>1. IsFiniteSet(A \cap B)
        BY <2>2, FS_Subset
      <3> QED
        BY <2>2, <3>1, FS_Union, FS_CardinalityType
    <2>9. Held(P2, g, i) = A \cup B
      BY <1>1, <2>1, HoldsUnion
    <2>10. M[i] = Cardinality(A \cup B) /\ N[i] = Cardinality(A) + w
      BY <1>1, <2>1, <2>9 DEF Outs, Tally, Extra
    <2>11. Those(b.ready, g, i) = {} /\ Cardinality({}) = 0
      BY <1>3, FS_EmptySet DEF Those
    <2>12. PICK ca, cb, ct, cw, cx : /\ ca = Cardinality(A) /\ cb = Cardinality(B) /\ ct = Cardinality(T)
                                     /\ cw = Cardinality(W) /\ cx = Cardinality(A \cap B)
      OBVIOUS
    <2>13. /\ ca \in Nat /\ cb \in Nat /\ ct \in Nat /\ cw \in Nat /\ cx \in Nat /\ e \in Nat /\ w \in Nat
           /\ e <= w /\ ct <= cw /\ cb <= ct + e /\ M[i] = ca + cb - cx /\ N[i] = ca + w
      BY <2>2, <2>3, <2>4, <2>6, <2>7, <2>8, <2>10, <2>12
    <2>14. M[i] + 0 <= N[i] + cw
      BY ONLY <2>13
    <2> QED
      BY <2>1, <2>11, <2>12, <2>14
  <1>7. ASSUME NEW z \in V
        PROVE  z \in U \/ \E x \in acc.ready : x.frame = g /\ z = <<x.node, x.iter>>
    <2>1. z \in Nodes \X Nat
      BY <1>1, <1>7, UsedFacts
    <2>2. PICK n \in Nodes, i \in Nat : z = <<n, i>>
      BY <2>1
    <2>3. <<n, g, i>> \in Keys(E1) \/ \E h \in Holds(P2) : Key(h[3]) = <<n, g, i>>
      BY <1>1, <1>7, <2>2, UsedFacts
    <2>4. CASE \E h \in Holds(Q) : Key(h[3]) = <<n, g, i>> /\ h[3] \in R
      <3>1. PICK h \in Holds(Q) : Key(h[3]) = <<n, g, i>> /\ h[3] \in R
        BY <2>4
      <3>2. h[3].frame = g /\ h[3].node = n /\ h[3].iter = i
        BY <3>1 DEF Key
      <3> QED
        BY <2>2, <3>1, <3>2
    <2>5. CASE <<n, g, i>> \in Keys(E1) \/ \E h \in Holds(O) : Key(h[3]) = <<n, g, i>>
      BY <1>1, <2>2, <2>5, UsedFacts
    <2>6. Holds(P2) = Holds(O) \cup Holds(Q) /\ Key(p.tn) \in Keys(E1)
      BY <1>1, HoldsUnion DEF Keys
    <2>7. \A h \in Holds(Q) : h[3] \in R \/ h[3] = p.tn
      BY DEF Carries
    <2> QED
      BY <2>3, <2>4, <2>5, <2>6, <2>7
  <1>8. /\ g \in Paths /\ N \in Tallies /\ C \in Tallies /\ M \in Tallies /\ D \in Tallies /\ Section(acc, g, N, C, U)
        /\ b \in Accs(g) /\ b.fr = acc.fr /\ IsFiniteSet(b.ready)
        /\ \A i \in Nat : M[i] + Cardinality(Those(b.ready, g, i)) <= N[i] + Cardinality(Those(acc.ready, g, i)) /\ D[i] <= C[i]
        /\ \A z \in V : z \in U \/ \E x \in acc.ready : x.frame = g /\ z = <<x.node, x.iter>>
        /\ \A x \in b.ready : x.frame = g /\ Plain(x.node) =>
             (<<x.node, x.iter>> \in U \/ x \in acc.ready) /\ <<x.node, x.iter>> \notin V
        /\ \A x, z \in b.ready :
             x.frame = g /\ z.frame = g /\ x.iter = z.iter /\ x.node = z.node /\ Plain(x.node) => x = z
    BY <1>1, <1>3, <1>5, <1>6, <1>7
  <1>9. Section(b, g, M, D, V)
    BY ONLY <1>8, Recount
  <1> QED
    BY <1>1, <1>9

(* Procs that are not at "cleanup" do not count for frames. *)
LEMMA SubsAfter ==
  ASSUME NEW D, IsFiniteSet(D), NEW P, IsFiniteSet(P), NEW p, NEW Q, \A q \in Q : q.pc # "cleanup", NEW g, NEW i \in Nat
  PROVE  /\ Subs(D, Others(P, p) \cup Q, g)[i] <= Subs(D, P, g)[i]
         /\ p \in Cleaners(P, g, i) => Subs(D, Others(P, p) \cup Q, g)[i] <= Subs(D, P, g)[i] - 1
  <1>1. PICK A, B, k : A = Cleaners(P, g, i) /\ B = Cleaners(Others(P, p) \cup Q, g, i) /\ k = Cardinality(Kids(D, g, i))
    OBVIOUS
  <1>2. B = A \ {p}
    BY <1>1 DEF Cleaners, Others
  <1>3. IsFiniteSet(A) /\ IsFiniteSet(B) /\ Cardinality(A) \in Nat /\ Cardinality(B) \in Nat
    <2>1. A \subseteq P
      BY <1>1 DEF Cleaners
    <2> QED
      BY <1>2, <2>1, FS_Subset, FS_CardinalityType
  <1>4. k \in Nat
    <2>1. Kids(D, g, i) \subseteq D
      BY DEF Kids
    <2> QED
      BY <1>1, <2>1, FS_Subset, FS_CardinalityType
  <1>5. Cardinality(B) = IF p \in A THEN Cardinality(A) - 1 ELSE Cardinality(A)
    BY <1>2, <1>3, FS_RemoveElement
  <1>6. Subs(D, P, g)[i] = k + Cardinality(A) /\ Subs(D, Others(P, p) \cup Q, g)[i] = k + Cardinality(B)
    BY <1>1 DEF Subs
  <1> QED
    BY <1>1, <1>3, <1>4, <1>5, <1>6

(* A frame in which something runs is not done. *)
LEMMA LiveNotDone ==
  ASSUME NEW f, NEW fr \in FrameStates(f), NEW i \in Nat, Live(fr, i)
  PROVE  ~IsFrameDone(fr)
  <1>1. fr.iteration_count \in Nat /\ fr.num_outstanding_iterations \in Nat
    BY DEF FrameStates
  <1>3. fr.num_outstanding_iterations = 0 => First(fr) = fr.iteration_count + 1
    BY <1>1 DEF First
  <1> QED
    BY <1>1, <1>3 DEF IsFrameDone, Live

(* Proc p has had a critical section in frame f, with result y, and goes on *)
(* as the procs Q.                                                          *)
Sectioned(F, P, E, p, f, own, D, y, Q, F2) ==
  /\ Good(F, P, E) /\ p \in P /\ f \in DOMAIN F /\ ~IsFrameDone(F[f])
  /\ own \in BOOLEAN /\ (own => Owns(p)) /\ D \in Tallies
  /\ Section(y, f, Tally(Others(P, p), f, own, p.tn), D, Used(With(E, p.tn), Others(P, p), f))
  /\ p.ready \subseteq y.ready /\ \A x \in y.ready : x \in p.ready \/ x.frame = f
  /\ Q \subseteq Procs /\ Carries(Q, p, y.ready, own)
  /\ \A i \in Nat : Subs(DOMAIN F, Others(P, p) \cup Q, f)[i] <= D[i]
  /\ DOMAIN F2 = DOMAIN F /\ F2[f] = y.fr /\ \A g \in DOMAIN F : g # f => F2[g] = F[g]
  /\ \A q \in Q : /\ q.pc # "cleanup" /\ ProcOk(F2, q)
                  /\ Ends(q) => Q = {q} /\ (q.at = f \/ (Ends(p) /\ q.at = p.at))

(* All is well then. *)
LEMMA SectionStep ==
  ASSUME NEW F, NEW P, NEW E, NEW p, NEW f, NEW own, NEW D, NEW y, NEW Q, NEW F2,
         Sectioned(F, P, E, p, f, own, D, y, Q, F2)
  PROVE  Good(F2, Others(P, p) \cup Q, With(E, p.tn))
  <1>20. PICK E1, O : E1 = With(E, p.tn) /\ O = Others(P, p)
    OBVIOUS
  <1>21. /\ Good(F, P, E) /\ p \in P /\ f \in DOMAIN F /\ ~IsFrameDone(F[f])
         /\ own \in BOOLEAN /\ (own => Owns(p)) /\ D \in Tallies
         /\ Section(y, f, Tally(O, f, own, p.tn), D, Used(E1, O, f))
         /\ p.ready \subseteq y.ready /\ \A x \in y.ready : x \in p.ready \/ x.frame = f
         /\ Q \subseteq Procs /\ Carries(Q, p, y.ready, own)
         /\ \A i \in Nat : Subs(DOMAIN F, O \cup Q, f)[i] <= D[i]
         /\ DOMAIN F2 = DOMAIN F /\ F2[f] = y.fr /\ \A g \in DOMAIN F : g # f => F2[g] = F[g]
         /\ \A q \in Q : /\ q.pc # "cleanup" /\ ProcOk(F2, q)
                         /\ Ends(q) => Q = {q} /\ (q.at = f \/ (Ends(p) /\ q.at = p.at))
    BY <1>20 DEF Sectioned
  <1> USE <1>20, <1>21
  <1>1. PICK P2, R : P2 = O \cup Q /\ R = y.ready
    OBVIOUS
  <1>2. /\ TypesInv(F, P, E) /\ ParentsInv(DOMAIN F) /\ FramesInv(F, P, E)
        /\ OnceInv(P, E) /\ EndsInv(P) /\ \A r \in P : ProcOk(F, r)
    BY DEF Good
  <1>3. /\ IsFiniteSet(O) /\ O \subseteq P /\ p \notin O
        /\ \A q \in O : IsFiniteSet(q.ready)
    BY <1>2, FS_Subset DEF TypesInv, Others
  <1>4. IsFiniteSet(Q) /\ \A q \in Q : IsFiniteSet(q.ready)
    BY DEF Carries
  <1>5. IsFiniteSet(P2) /\ \A q \in P2 : IsFiniteSet(q.ready)
    BY <1>1, <1>3, <1>4, FS_Union
  <1>6. f \in Paths /\ p.tn \in TaggedNodes /\ E \subseteq TaggedNodes /\ IsFiniteSet(p.ready)
        /\ p.ready \subseteq TaggedNodes
    BY TypesOf
  <1>7. TypesInv(F2, P2, E1)
    BY <1>1, <1>2, <1>3, <1>5, <1>6 DEF TypesInv, With
  <1>8. IsFiniteSet(R)
    BY <1>1 DEF Section
  <1>9. p.tn \in E1
    BY DEF With
  <1>10. IsFiniteSet(DOMAIN F)
    BY <1>2 DEF TypesInv
  <1>11. \A g : Subs(DOMAIN F, P2, g) \in Tallies
    BY <1>5, <1>10, TalliesTypes
  <1>12. Section(Acc(F2[f], {}), f, Outs(P2, f), Subs(DOMAIN F2, P2, f), Used(E1, P2, f))
    <2>1. PICK T : T = Subs(DOMAIN F, P2, f)
      OBVIOUS
    <2>2. /\ f \in Paths /\ IsFiniteSet(O) /\ (\A q \in O : IsFiniteSet(q.ready)) /\ p.tn \in E1 /\ own \in BOOLEAN
          /\ D \in Tallies /\ Section(y, f, Tally(O, f, own, p.tn), D, Used(E1, O, f)) /\ IsFiniteSet(R)
          /\ Carries(Q, p, R, own) /\ (\A x \in R : x.frame = f => x \in y.ready)
          /\ T \in Tallies /\ \A i \in Nat : T[i] <= D[i]
      BY <1>1, <1>3, <1>6, <1>8, <1>9, <1>11, <2>1
    <2>3. Section(Acc(y.fr, {}), f, Outs(O \cup Q, f), T, Used(E1, O \cup Q, f))
      BY ONLY <2>2, FrameAfter
    <2> QED
      BY <1>1, <2>1, <2>3
  <1>13. ASSUME NEW g \in DOMAIN F, g # f
         PROVE  Section(Acc(F2[g], {}), g, Outs(P2, g), Subs(DOMAIN F2, P2, g), Used(E1, P2, g))
    <2>1. PICK T, C, acc, was : /\ T = Subs(DOMAIN F, P2, g) /\ C = Subs(DOMAIN F, P, g)
                                /\ acc = Acc(F[g], p.ready) /\ was = Owns(p)
      OBVIOUS
    <2>2. Section(acc, g, Tally(O, g, was, p.tn), C, Used(E1, O, g))
      BY <2>1, SectionBegins
    <2>3. g \in Paths /\ F[g] \in FrameStates(g) /\ C \in Tallies
      BY <2>1, TypesOf
    <2>4. acc.fr = F[g] /\ acc.ready = p.ready
      BY <2>1 DEF Acc
    <2>5. was \in BOOLEAN /\ (own => was)
      BY <2>1 DEF Owns
    <2>6. \A i \in Nat : T[i] <= C[i]
      BY <1>1, <1>2, <1>10, <2>1, SubsAfter DEF TypesInv
    <2>7. \A x \in R : x.frame = g => x \in acc.ready
      BY <1>1, <1>13, <2>4
    <2>8. /\ g \in Paths /\ IsFiniteSet(O) /\ (\A q \in O : IsFiniteSet(q.ready)) /\ p.tn \in E1
          /\ was \in BOOLEAN /\ own \in BOOLEAN /\ (own => was)
          /\ C \in Tallies /\ Section(acc, g, Tally(O, g, was, p.tn), C, Used(E1, O, g)) /\ IsFiniteSet(R)
          /\ Carries(Q, p, R, own) /\ (\A x \in R : x.frame = g => x \in acc.ready)
          /\ T \in Tallies /\ \A i \in Nat : T[i] <= C[i]
      BY <1>1, <1>3, <1>8, <1>9, <1>11, <2>1, <2>2, <2>3, <2>5, <2>6, <2>7
    <2>9. Section(Acc(acc.fr, {}), g, Outs(O \cup Q, g), T, Used(E1, O \cup Q, g))
      BY ONLY <2>8, FrameAfter
    <2> QED
      BY <1>1, <1>13, <2>1, <2>4, <2>9
  <1>14. FramesInv(F2, P2, E1)
    BY <1>12, <1>13 DEF FramesInv
  <1>15. \A r \in O : Ends(r) => r.at # f
    BY <1>2, <1>3 DEF ProcOk
  <1>16. ASSUME NEW r \in O
         PROVE  ProcOk(F2, r)
    <2>1. ProcOk(F, r)
      BY <1>2, <1>3
    <2>2. Ends(r) => r.at \in DOMAIN F /\ F2[r.at] = F[r.at]
      BY <1>15, <2>1 DEF ProcOk
    <2> QED
      BY <2>1, <2>2 DEF ProcOk
  <1>17. OnceInv(P2, E1)
    <2>1. Clear(p.ready, E1, O)
      BY ReadyClear
    <2>2. Clear(R, E1, O)
      <3>1. /\ Clear(p.ready, E1, O) /\ f \in Paths /\ Section(y, f, Tally(O, f, own, p.tn), D, Used(E1, O, f))
            /\ \A x \in y.ready : x \in p.ready \/ x.frame = f
        BY <1>6, <2>1
      <3>2. Clear(y.ready, E1, O)
        BY ONLY <3>1, ClearAfter
      <3> QED
        BY <1>1, <3>2
    <2>3. /\ Good(F, P, E) /\ p \in P /\ own \in BOOLEAN /\ (own => Owns(p)) /\ E1 = With(E, p.tn)
          /\ O = Others(P, p) /\ Clear(R, E1, O) /\ Carries(Q, p, R, own)
      BY <1>1, <2>2
    <2>4. OnceInv(O \cup Q, E1)
      BY ONLY <2>3, OnceAfter
    <2> QED
      BY <1>1, <2>4
  <1>18. EndsInv(P2)
    <2>1. ASSUME NEW q \in Q, NEW r \in O, Ends(q), Ends(r), q.at = r.at
          PROVE  FALSE
      BY <1>2, <1>3, <1>15, <2>1 DEF EndsInv
    <2>2. \A q, r \in Q : Ends(q) => q = r
      OBVIOUS
    <2>3. \A q, r \in O : Ends(q) /\ Ends(r) /\ q.at = r.at => q = r
      BY <1>2, <1>3 DEF EndsInv
    <2> QED
      BY <1>1, <2>1, <2>2, <2>3 DEF EndsInv
  <1> QED
    BY <1>1, <1>2, <1>7, <1>14, <1>16, <1>17, <1>18 DEF Good

(* The path to a child frame. *)
LEMMA ChildFacts ==
  ASSUME NEW f \in Paths, NEW i \in Nat, NEW name \in Names, NEW g, g = Child(f, i, name)
  PROVE  g \in Paths /\ g # Root /\ NameOf(g) = name /\ ParentFrame(g) = f /\ ParentIter(g) = i /\ g # f
  <1>1. PICK n, c : n = Len(f) /\ c = <<name, i>>
    OBVIOUS
  <1>2. n \in Nat /\ c \in Names \X Nat /\ f \in Seq(Names \X Nat) /\ g = Append(f, c) /\ c[1] = name /\ c[2] = i
    BY <1>1 DEF Child, Paths
  <1>3. g \in Seq(Names \X Nat) /\ Len(g) = n + 1 /\ g[n + 1] = c /\ \A k \in 1 .. n : g[k] = f[k]
    BY <1>1, <1>2
  <1>4. g # Root /\ g # f
    BY <1>1, <1>2, <1>3 DEF Root
  <1>5. SubSeq(g, 1, n) = f
    <2>1. PICK s : s = SubSeq(g, 1, n)
      OBVIOUS
    <2>2. s \in Seq(Names \X Nat) /\ Len(s) = n /\ \A k \in 1 .. n : s[k] = g[k]
      BY <1>2, <1>3, <2>1
    <2>3. \A k \in 1 .. Len(s) : s[k] = f[k]
      BY <1>3, <2>2
    <2>4. s = f
      BY <1>1, <1>2, <2>2, <2>3, SeqEqual
    <2> QED
      BY <2>1, <2>4
  <1>6. Len(g) - 1 = n
    BY <1>2, <1>3
  <1> QED
    BY <1>2, <1>3, <1>4, <1>5, <1>6 DEF Paths, NameOf, ParentFrame, ParentIter

(* Every other path is one. *)
LEMMA PathFacts ==
  ASSUME NEW g \in Paths, g # Root
  PROVE  /\ NameOf(g) \in Names /\ ParentFrame(g) \in Paths /\ ParentIter(g) \in Nat
         /\ g = Child(ParentFrame(g), ParentIter(g), NameOf(g))
  <1>1. PICK n : n = Len(g)
    OBVIOUS
  <1>2. g \in Seq(Names \X Nat) /\ n \in Nat /\ n # 0
    BY <1>1 DEF Paths, Root
  <1>3. PICK c : c = g[n]
    OBVIOUS
  <1>4. c \in Names \X Nat /\ n - 1 \in Nat
    BY <1>1, <1>2, <1>3
  <1>5. PICK a, k : a \in Names /\ k \in Nat /\ c = <<a, k>> /\ c[1] = a /\ c[2] = k
    BY <1>4
  <1>6. PICK s : s = SubSeq(g, 1, n - 1)
    OBVIOUS
  <1>7. s \in Seq(Names \X Nat) /\ Len(s) = n - 1 /\ \A j \in 1 .. n - 1 : s[j] = g[j]
    BY <1>1, <1>2, <1>4, <1>6
  <1>8. PICK t : t = Append(s, c)
    OBVIOUS
  <1>9. t \in Seq(Names \X Nat) /\ Len(t) = n /\ \A j \in 1 .. n : t[j] = g[j]
    BY <1>2, <1>3, <1>4, <1>7, <1>8
  <1>10. t = g
    BY <1>1, <1>2, <1>9, SeqEqual
  <1>11. NameOf(g) = a /\ ParentFrame(g) = s /\ ParentIter(g) = k
    BY <1>1, <1>3, <1>5, <1>6 DEF NameOf, ParentFrame, ParentIter
  <1> QED
    BY <1>5, <1>7, <1>8, <1>10, <1>11 DEF Paths, Child

(* A name of nodes tells whether the frame is the root. *)
LEMMA RootNameFacts ==
  ASSUME NEW f \in Paths, NameOf(f) # RootName
  PROVE  f # Root
  BY DEF NameOf

Pends(p) == p.pc \in {"create", "enter"}

(* Membership in Entered. *)
LEMMA EnteredFacts ==
  ASSUME NEW E, NEW P, NEW k
  PROVE  k \in Entered(E, P) <=>
           (\E x \in E : IsEnter(x.node) /\ Key(x) = k) /\ ~\E q \in P : Pends(q) /\ Key(q.tn) = k
  BY DEF Entered, Keys, Pends

(* Most steps do not deliver to a child frame. *)
LEMMA EnteredSame ==
  ASSUME NEW E, NEW P, NEW p \in P, ~Pends(p), p.tn \in E \/ ~IsEnter(p.tn.node), NEW Q, \A q \in Q : ~Pends(q)
  PROVE  Entered(With(E, p.tn), Others(P, p) \cup Q) = Entered(E, P)
  <1>1. PICK E1, P2 : E1 = With(E, p.tn) /\ P2 = Others(P, p) \cup Q
    OBVIOUS
  <1>2. ASSUME NEW k
        PROVE  k \in Entered(E1, P2) <=> k \in Entered(E, P)
    <2>1. (\E x \in E1 : IsEnter(x.node) /\ Key(x) = k) <=> \E x \in E : IsEnter(x.node) /\ Key(x) = k
      BY <1>1 DEF With
    <2>2. (\E q \in P2 : Pends(q) /\ Key(q.tn) = k) <=> \E q \in P : Pends(q) /\ Key(q.tn) = k
      BY <1>1 DEF Others
    <2> QED
      BY <2>1, <2>2, EnteredFacts
  <1> QED
    BY <1>1, <1>2

(* Inputs of a frame are counted as before. *)
LEMMA InputsSame ==
  ASSUME NEW F, NEW P, NEW E, NEW K, Good(F, P, E), InputsInv(F, E, K), NEW p \in P,
         NEW F2, DOMAIN F2 = DOMAIN F,
         \A g \in DOMAIN F : F2[g].num_pending_inputs = F[g].num_pending_inputs
  PROVE  InputsInv(F2, With(E, p.tn), K)
  <1>1. p.tn \in E \/ p.tn.frame \in DOMAIN F
    <2>1. OnceInv(P, E) /\ ProcOk(F, p)
      BY DEF Good
    <2> QED
      BY <2>1 DEF OnceInv, ProcOk, Owns
  <1> QED
    BY <1>1 DEF InputsInv, With

(* A node that is to be processed. *)
LEMMA ProcFacts ==
  ASSUME NEW x \in TaggedNodes, NEW q, q = Proc(x)
  PROVE  /\ q \in Procs /\ q.tn = x /\ q.pc = "process" /\ q.ready = {} /\ Owns(q) /\ ~Ends(q) /\ ~Pends(q)
  BY DEF Proc, Procs, TaggedNodes, Owns, Ends, Pends

(* Thread p at its next lock. *)
Next1(p, to, R, at) == [p EXCEPT !.pc = to, !.ready = R, !.at = at]

(* A thread further on. *)
LEMMA NextFacts ==
  ASSUME NEW p \in Procs, NEW to \in {"create", "enter", "decrement", "delete", "erase"},
         NEW R \in SUBSET TaggedNodes, NEW f \in Paths, NEW q, q = Next1(p, to, R, f)
  PROVE  q \in Procs /\ q.tn = p.tn /\ q.pc = to /\ q.ready = R /\ q.at = f
  BY DEF Next1, Procs

(* The whole invariant. *)
Inv(F, P, E) == Good(F, P, E) /\ InputsInv(F, E, Entered(E, P))

(* What FinishSection leaves. *)
Finished(O, p, f, y) ==
  O \cup IF y.is_done THEN {Next1(p, "delete", y.ready, f)} ELSE {Proc(x) : x \in y.ready}

(* The last section of PropagateOutputs, or that of CleanupFramesIterations, *)
(* has the result y.                                                        *)
Finishing(F, P, E, p, f, D, y) ==
  /\ Inv(F, P, E) /\ p \in P /\ f \in DOMAIN F /\ ~IsFrameDone(F[f]) /\ D \in Tallies
  /\ Section(y, f, Tally(Others(P, p), f, FALSE, p.tn), D, Used(With(E, p.tn), Others(P, p), f))
  /\ p.ready \subseteq y.ready /\ \A x \in y.ready : x \in p.ready \/ x.frame = f
  /\ y.fr.num_pending_inputs = F[f].num_pending_inputs /\ (y.is_done => IsFrameDone(y.fr))
  /\ \A i \in Nat : \/ Subs(DOMAIN F, P, f)[i] <= D[i]
                    \/ p \in Cleaners(P, f, i) /\ Subs(DOMAIN F, P, f)[i] - 1 <= D[i]
  /\ ~Pends(p) /\ (p.tn \in E \/ ~IsEnter(p.tn.node))

(* It keeps the invariant. *)
LEMMA FinishStep ==
  ASSUME NEW F, NEW P, NEW E, NEW p, NEW f, NEW D, NEW y, Finishing(F, P, E, p, f, D, y)
  PROVE  Inv([F EXCEPT ![f] = y.fr], Finished(Others(P, p), p, f, y), With(E, p.tn))
  <1>20. PICK E1, O, F2 : E1 = With(E, p.tn) /\ O = Others(P, p) /\ F2 = [F EXCEPT ![f] = y.fr]
    OBVIOUS
  <1>21. /\ Inv(F, P, E) /\ p \in P /\ f \in DOMAIN F /\ ~IsFrameDone(F[f]) /\ D \in Tallies
         /\ Section(y, f, Tally(O, f, FALSE, p.tn), D, Used(E1, O, f))
         /\ p.ready \subseteq y.ready /\ \A x \in y.ready : x \in p.ready \/ x.frame = f
         /\ y.fr.num_pending_inputs = F[f].num_pending_inputs /\ (y.is_done => IsFrameDone(y.fr))
         /\ \A i \in Nat : \/ Subs(DOMAIN F, P, f)[i] <= D[i]
                           \/ p \in Cleaners(P, f, i) /\ Subs(DOMAIN F, P, f)[i] - 1 <= D[i]
         /\ ~Pends(p) /\ (p.tn \in E \/ ~IsEnter(p.tn.node))
    BY <1>20 DEF Finishing
  <1> USE <1>20, <1>21
  <1>1. PICK Q, R, K : /\ R = y.ready /\ K = Entered(E, P)
                       /\ Q = IF y.is_done THEN {Next1(p, "delete", R, f)} ELSE {Proc(x) : x \in R}
    OBVIOUS
  <1>2. Good(F, P, E) /\ InputsInv(F, E, K) /\ ProcOk(F, p)
    BY <1>1 DEF Inv, Good
  <1>3. f \in Paths /\ p \in Procs
    BY <1>2, TypesOf
  <1>4. R \in SUBSET TaggedNodes /\ IsFiniteSet(R)
    BY <1>1 DEF Section, Accs
  <1>5. DOMAIN F2 = DOMAIN F /\ F2[f] = y.fr /\ \A g \in DOMAIN F : g # f => F2[g] = F[g]
    OBVIOUS
  <1>6. \A x \in R : x.frame \in DOMAIN F
    BY <1>1, <1>2 DEF ProcOk
  <1>7. /\ Q \subseteq Procs /\ Carries(Q, p, R, FALSE)
        /\ \A q \in Q : q.pc # "cleanup" /\ ~Pends(q) /\ ProcOk(F2, q) /\ (Ends(q) => Q = {q} /\ q.at = f)
    <2>1. CASE y.is_done
      <3>1. PICK q : q = Next1(p, "delete", R, f)
        OBVIOUS
      <3>2. Q = {q}
        BY <1>1, <2>1, <3>1
      <3>3. q \in Procs /\ q.tn = p.tn /\ q.pc = "delete" /\ q.ready = R /\ q.at = f
        BY <1>3, <1>4, <3>1, NextFacts
      <3>4. ~Owns(q) /\ ~Pends(q) /\ Ends(q)
        BY <3>3 DEF Owns, Pends, Ends
      <3>5. ProcOk(F2, q)
        BY <1>5, <1>6, <2>1, <3>3, <3>4 DEF ProcOk
      <3>6. Carries({q}, p, q.ready, FALSE)
        BY <1>4, <3>3, <3>4, CarriesOne
      <3> QED
        BY <3>2, <3>3, <3>4, <3>5, <3>6
    <2>2. CASE ~y.is_done
      <3>1. Q = {Proc(x) : x \in R}
        BY <1>1, <2>2
      <3>2. Carries(Q, p, R, FALSE)
        BY <1>4, <3>1, CarriesNew
      <3>3. ASSUME NEW q \in Q
            PROVE  q \in Procs /\ q.pc = "process" /\ ~Pends(q) /\ ~Ends(q) /\ ProcOk(F2, q)
        <4>1. PICK x \in R : q = Proc(x)
          BY <3>1
        <4>2. q \in Procs /\ q.tn = x /\ q.pc = "process" /\ q.ready = {} /\ Owns(q) /\ ~Ends(q) /\ ~Pends(q)
          BY <1>4, <4>1, ProcFacts
        <4>3. ProcOk(F2, q)
          BY <1>5, <1>6, <4>2 DEF ProcOk
        <4> QED
          BY <4>2, <4>3
      <3> QED
        BY <3>2, <3>3
    <2> QED
      BY <2>1, <2>2
  <1>8. \A i \in Nat : Subs(DOMAIN F, O \cup Q, f)[i] <= D[i]
    <2> SUFFICES ASSUME NEW i \in Nat
                 PROVE  Subs(DOMAIN F, O \cup Q, f)[i] <= D[i]
      OBVIOUS
    <2>1. PICK a, b : a = Subs(DOMAIN F, O \cup Q, f)[i] /\ b = Subs(DOMAIN F, P, f)[i]
      OBVIOUS
    <2>2. IsFiniteSet(DOMAIN F) /\ IsFiniteSet(P)
      BY <1>2 DEF Good, TypesInv
    <2>3. a <= b /\ (p \in Cleaners(P, f, i) => a <= b - 1)
      BY <1>7, <2>1, <2>2, SubsAfter
    <2>4. a \in Nat /\ b \in Nat /\ D[i] \in Nat
      <3>1. IsFiniteSet(O \cup Q) /\ \A q \in O \cup Q : IsFiniteSet(q.ready)
        <4>1. IsFiniteSet(O) /\ \A q \in O : IsFiniteSet(q.ready)
          BY <1>2, <2>2, FS_Subset DEF Others, Good, TypesInv
        <4>2. IsFiniteSet(Q) /\ \A q \in Q : IsFiniteSet(q.ready)
          BY <1>7 DEF Carries
        <4> QED
          BY <4>1, <4>2, FS_Union
      <3>2. Subs(DOMAIN F, O \cup Q, f) \in Tallies /\ Subs(DOMAIN F, P, f) \in Tallies
        BY <1>2, <2>2, <3>1, TalliesTypes, TypesOf
      <3> QED
        BY <2>1, <3>2 DEF Tallies
    <2>5. b <= D[i] \/ (p \in Cleaners(P, f, i) /\ b - 1 <= D[i])
      BY <2>1
    <2>6. a <= D[i]
      BY ONLY <2>3, <2>4, <2>5
    <2> QED
      BY <2>1, <2>6
  <1>9. Good(F2, O \cup Q, E1)
    <2>1. PICK own : own = FALSE
      OBVIOUS
    <2>2. Sectioned(F, P, E, p, f, own, D, y, Q, F2)
      BY <1>1, <1>2, <1>5, <1>7, <1>8, <2>1 DEF Sectioned
    <2>3. Good(F2, Others(P, p) \cup Q, With(E, p.tn))
      BY ONLY <2>2, SectionStep
    <2> QED
      BY <2>3
  <1>10. InputsInv(F2, E1, K)
    <2>1. \A g \in DOMAIN F : F2[g].num_pending_inputs = F[g].num_pending_inputs
      BY <1>5
    <2> QED
      BY <1>2, <1>5, <2>1, InputsSame
  <1>11. Entered(E1, O \cup Q) = K
    <2>1. p \in P /\ ~Pends(p) /\ (p.tn \in E \/ ~IsEnter(p.tn.node)) /\ \A q \in Q : ~Pends(q)
      BY <1>7
    <2>2. Entered(With(E, p.tn), Others(P, p) \cup Q) = Entered(E, P)
      BY ONLY <2>1, EnteredSame
    <2> QED
      BY <1>1, <2>2
  <1>12. Finished(O, p, f, y) = O \cup Q
    BY <1>1 DEF Finished
  <1> QED
    BY <1>9, <1>10, <1>11, <1>12 DEF Inv

(* A section after which the thread has others to take has the result y. *)
Leaving(F, P, E, p, f, own, y, to) ==
  /\ Good(F, P, E) /\ p \in P /\ f \in DOMAIN F /\ ~IsFrameDone(F[f])
  /\ own \in BOOLEAN /\ (own => Owns(p)) /\ (own <=> to # "erase") /\ to \in {"create", "enter", "decrement", "erase"}
  /\ Section(y, f, Tally(Others(P, p), f, own, p.tn), Subs(DOMAIN F, P, f), Used(With(E, p.tn), Others(P, p), f))
  /\ p.ready \subseteq y.ready /\ \A x \in y.ready : x \in p.ready \/ x.frame = f
  /\ to \in {"create", "enter"} => y.ready = {} /\ IsEnter(p.tn.node)
  /\ to = "enter" => ChildOf(Key(p.tn)) \in DOMAIN F
  /\ to = "erase" => Ends(p) /\ p.at # Root /\ p.at # f

(* It keeps that part of the invariant. *)
LEMMA LeaveStep ==
  ASSUME NEW F, NEW P, NEW E, NEW p, NEW f, NEW own, NEW y, NEW to, Leaving(F, P, E, p, f, own, y, to),
         NEW q, q = Next1(p, to, y.ready, p.at)
  PROVE  /\ Good([F EXCEPT ![f] = y.fr], Others(P, p) \cup {q}, With(E, p.tn))
         /\ q \in Procs /\ q.tn = p.tn /\ q.pc = to
  <1>20. PICK E1, O, F2 : E1 = With(E, p.tn) /\ O = Others(P, p) /\ F2 = [F EXCEPT ![f] = y.fr]
    OBVIOUS
  <1>21. /\ Good(F, P, E) /\ p \in P /\ f \in DOMAIN F /\ ~IsFrameDone(F[f])
         /\ own \in BOOLEAN /\ (own => Owns(p)) /\ (own <=> to # "erase") /\ to \in {"create", "enter", "decrement", "erase"}
         /\ Section(y, f, Tally(O, f, own, p.tn), Subs(DOMAIN F, P, f), Used(E1, O, f))
         /\ p.ready \subseteq y.ready /\ \A x \in y.ready : x \in p.ready \/ x.frame = f
         /\ to \in {"create", "enter"} => y.ready = {} /\ IsEnter(p.tn.node)
         /\ to = "enter" => ChildOf(Key(p.tn)) \in DOMAIN F
         /\ to = "erase" => Ends(p) /\ p.at # Root /\ p.at # f
    BY <1>20 DEF Leaving
  <1> USE <1>20, <1>21
  <1>1. PICK Q, R, D : Q = {q} /\ R = y.ready /\ D = Subs(DOMAIN F, P, f)
    OBVIOUS
  <1>2. ProcOk(F, p)
    BY DEF Good
  <1>3. f \in Paths /\ p \in Procs /\ p.at \in Paths /\ D \in Tallies
    <2>1. f \in Paths /\ p \in Procs /\ D \in Tallies
      BY <1>1, TypesOf
    <2> QED
      BY <2>1 DEF Procs
  <1>4. R \in SUBSET TaggedNodes /\ IsFiniteSet(R)
    BY <1>1 DEF Section, Accs
  <1>5. DOMAIN F2 = DOMAIN F /\ F2[f] = y.fr /\ \A g \in DOMAIN F : g # f => F2[g] = F[g]
    OBVIOUS
  <1>6. \A x \in R : x.frame \in DOMAIN F
    BY <1>1, <1>2 DEF ProcOk
  <1>7. q \in Procs /\ q.tn = p.tn /\ q.pc = to /\ q.ready = R /\ q.at = p.at
    BY <1>1, <1>3, <1>4, NextFacts
  <1>8. own <=> Owns(q)
    BY <1>7 DEF Owns
  <1>9. ProcOk(F2, q)
    <2>1. Owns(q) => q.tn.frame \in DOMAIN F2
      BY <1>2, <1>5, <1>7, <1>8 DEF ProcOk
    <2>2. Ends(q) => q.at \in DOMAIN F2 /\ IsFrameDone(F2[q.at])
      BY <1>2, <1>5, <1>7 DEF ProcOk, Ends
    <2>3. q.pc \in {"process", "create", "enter"} => q.ready = {}
      BY <1>1, <1>7
    <2>4. q.pc # "cleanup" /\ (q.pc = "erase" => q.at # Root)
      BY <1>7
    <2>5. q.pc \in {"create", "enter"} => IsEnter(q.tn.node)
      BY <1>7
    <2>6. q.pc = "enter" => ChildOf(Key(q.tn)) \in DOMAIN F2
      BY <1>5, <1>7
    <2>7. \A x \in q.ready : x.frame \in DOMAIN F2
      BY <1>5, <1>6, <1>7
    <2> QED
      BY <2>5, <2>6, <2>7, <2>1, <2>2, <2>3, <2>4 DEF ProcOk
  <1>10. Carries(Q, p, R, own)
    <2>1. IsFiniteSet(q.ready) /\ q.tn = p.tn /\ q.pc # "process" /\ own \in BOOLEAN /\ (own <=> Owns(q))
      BY <1>4, <1>7, <1>8
    <2>2. Carries({q}, p, q.ready, own)
      BY ONLY <2>1, CarriesOne
    <2> QED
      BY <1>1, <1>7, <2>2
  <1>11. \A i \in Nat : Subs(DOMAIN F, O \cup Q, f)[i] <= D[i]
    <2>1. IsFiniteSet(DOMAIN F) /\ IsFiniteSet(P) /\ \A r \in Q : r.pc # "cleanup"
      BY <1>1, <1>7 DEF Good, TypesInv
    <2> QED
      BY <1>1, <2>1, SubsAfter
  <1>12. Sectioned(F, P, E, p, f, own, D, y, Q, F2)
    <2>1. Ends(q) => Ends(p) /\ q.at = p.at
      BY <1>7 DEF Ends
    <2> QED
      BY <1>1, <1>3, <1>5, <1>7, <1>9, <1>10, <1>11, <2>1 DEF Sectioned
  <1>13. Good(F2, Others(P, p) \cup Q, With(E, p.tn))
    BY ONLY <1>12, SectionStep
  <1> QED
    BY <1>1, <1>7, <1>13

--------------------------------------------------------------------------------
(* The actions *)

(* What is held besides what thread p holds, with its own node and without. *)
Mine(P, p, f) == Tally(Others(P, p), f, TRUE, p.tn)
Rest(P, p, f) == Tally(Others(P, p), f, FALSE, p.tn)
UsedBy(E, P, p, f) == Used(With(E, p.tn), Others(P, p), f)

Owning(F, P, E, p, f, i) == Good(F, P, E) /\ p \in P /\ Owns(p) /\ f = p.tn.frame /\ i = p.tn.iter

(* What is outstanding has a live iteration. *)
LEMMA OwnFacts ==
  ASSUME NEW F, NEW P, NEW E, NEW p, NEW f, NEW i, Owning(F, P, E, p, f, i), NEW N, N = Mine(P, p, f)
  PROVE  /\ f \in DOMAIN F /\ f \in Paths /\ F[f] \in FrameStates(f) /\ i \in Nat /\ p.tn \in TaggedNodes
         /\ Live(F[f], i) /\ ~IsFrameDone(F[f]) /\ N \in Tallies /\ N[i] # 0 /\ p \in Procs
         /\ OneLess(N, i) = Rest(P, p, f) /\ Subs(DOMAIN F, P, f) \in Tallies
         /\ Section(Acc(F[f], p.ready), f, N, Subs(DOMAIN F, P, f), UsedBy(E, P, p, f))
  <1>0. Good(F, P, E) /\ p \in P /\ Owns(p) /\ f = p.tn.frame /\ i = p.tn.iter
    BY DEF Owning
  <1> USE <1>0
  <1>1. f \in DOMAIN F
    BY DEF Good, ProcOk
  <1>2. /\ f \in Paths /\ F[f] \in FrameStates(f) /\ p.tn \in TaggedNodes /\ p.ready \in SUBSET TaggedNodes
    BY <1>1, TypesOf
  <1>3. i \in Nat
    BY <1>2 DEF TaggedNodes
  <1>4. Section(Acc(F[f], p.ready), f, Tally(Others(P, p), f, Owns(p), p.tn), Subs(DOMAIN F, P, f),
                Used(With(E, p.tn), Others(P, p), f))
    BY <1>1, SectionBegins
  <1>5. PICK O : O = Others(P, p)
    OBVIOUS
  <1>6. IsFiniteSet(O) /\ (\A q \in O : IsFiniteSet(q.ready)) /\ IsFiniteSet(DOMAIN F)
    BY <1>5, FS_Subset DEF Good, TypesInv, Others
  <1>7. N \in Tallies
    BY <1>5, <1>6, TalliesTypes DEF Mine
  <1>8. PICK h : h = [k \in Nat |-> Cardinality(Held(O, f, k))]
    OBVIOUS
  <1>17. \A k \in Nat : h[k] \in Nat
    BY <1>6, <1>8, HoldsFinite
  <1>18. PICK t, u : t = TRUE /\ u = FALSE
    OBVIOUS
  <1>19. N = Tally(O, f, t, p.tn) /\ Rest(P, p, f) = Tally(O, f, u, p.tn)
    BY <1>5, <1>18 DEF Mine, Rest
  <1>9. N = [k \in Nat |-> h[k] + IF k = i THEN 1 ELSE 0]
    BY <1>8, <1>18, <1>19 DEF Tally, At
  <1>20. Rest(P, p, f) = [k \in Nat |-> h[k] + 0]
    BY <1>8, <1>18, <1>19 DEF Tally, At
  <1>10. N[i] # 0
    BY ONLY <1>3, <1>9, <1>17
  <1>11. OneLess(N, i) = Rest(P, p, f)
    <2>1. \A k \in Nat : N[k] = h[k] + IF k = i THEN 1 ELSE 0
      BY ONLY <1>9
    <2>2. \A k \in Nat : (IF k = i THEN N[k] - 1 ELSE N[k]) = h[k] + 0
      BY ONLY <1>17, <2>1
    <2> QED
      BY ONLY <1>20, <2>2 DEF OneLess
  <1>12. N = Tally(O, f, Owns(p), p.tn)
    <2>1. Owns(p) = t
      BY <1>18 DEF Owns
    <2> QED
      BY <1>19, <2>1
  <1>13. Section(Acc(F[f], p.ready), f, N, Subs(DOMAIN F, P, f), UsedBy(E, P, p, f))
    BY <1>4, <1>5, <1>12 DEF UsedBy
  <1>14. Acc(F[f], p.ready).fr = F[f]
    BY DEF Acc
  <1>15. Live(F[f], i)
    BY <1>3, <1>10, <1>13, <1>14, CountedIsLive
  <1>16. ~IsFrameDone(F[f])
    BY <1>2, <1>3, <1>15, LiveNotDone
  <1>21. p \in Procs /\ Subs(DOMAIN F, P, f) \in Tallies
    BY <1>1, TypesOf
  <1> QED
    BY <1>1, <1>2, <1>3, <1>7, <1>10, <1>11, <1>13, <1>15, <1>16, <1>21

(* A section is to end with DecrementOutstandingOps. *)
Decrementing(F, P, E, p, f, i, a) ==
  /\ Inv(F, P, E) /\ Owning(F, P, E, p, f, i) /\ ~Pends(p) /\ (p.tn \in E \/ ~IsEnter(p.tn.node))
  /\ Section(a, f, Mine(P, p, f), Subs(DOMAIN F, P, f), UsedBy(E, P, p, f))
  /\ ~a.is_done /\ a.fr.num_pending_inputs = F[f].num_pending_inputs
  /\ p.ready \subseteq a.ready /\ \A x \in a.ready : x \in p.ready \/ x.frame = f

(* It keeps the invariant. *)
LEMMA DecrementFinish ==
  ASSUME NEW F, NEW P, NEW E, NEW p, NEW f, NEW i, NEW a, Decrementing(F, P, E, p, f, i, a),
         NEW y, y = DecrementOutstandingOps(a, f, i)
  PROVE  Inv([F EXCEPT ![f] = y.fr], Finished(Others(P, p), p, f, y), With(E, p.tn))
  <1>1. PICK N, C, U : N = Mine(P, p, f) /\ C = Subs(DOMAIN F, P, f) /\ U = UsedBy(E, P, p, f)
    OBVIOUS
  <1>2. /\ Inv(F, P, E) /\ Owning(F, P, E, p, f, i) /\ ~Pends(p) /\ (p.tn \in E \/ ~IsEnter(p.tn.node))
        /\ Section(a, f, N, C, U)
        /\ ~a.is_done /\ a.fr.num_pending_inputs = F[f].num_pending_inputs
        /\ p.ready \subseteq a.ready /\ \A x \in a.ready : x \in p.ready \/ x.frame = f
    BY <1>1 DEF Decrementing
  <1>3. /\ f \in DOMAIN F /\ f \in Paths /\ F[f] \in FrameStates(f) /\ i \in Nat
        /\ ~IsFrameDone(F[f]) /\ N \in Tallies /\ N[i] # 0 /\ OneLess(N, i) = Rest(P, p, f) /\ C \in Tallies
    BY <1>1, <1>2, OwnFacts
  <1>5. Section(y, f, OneLess(N, i), C, U) /\ Grown(a, y, f) /\ (y.is_done => IsFrameDone(y.fr))
    BY <1>2, <1>3, DecrementStep
  <1>6. /\ y.fr.num_pending_inputs = F[f].num_pending_inputs
        /\ p.ready \subseteq y.ready /\ \A x \in y.ready : x \in p.ready \/ x.frame = f
    BY <1>2, <1>5 DEF Grown
  <1>7. \A k \in Nat : C[k] <= C[k]
    BY <1>3 DEF Tallies
  <1>4. Section(y, f, Tally(Others(P, p), f, FALSE, p.tn), C, Used(With(E, p.tn), Others(P, p), f))
    BY <1>1, <1>3, <1>5 DEF Rest, UsedBy
  <1>9. p \in P
    BY <1>2 DEF Owning
  <1>8. Finishing(F, P, E, p, f, C, y)
    BY ONLY <1>1, <1>2, <1>3, <1>4, <1>5, <1>6, <1>7, <1>9 DEF Finishing
  <1> QED
    BY ONLY <1>8, FinishStep

(* What FinishSection and LeaveSection do to procs. *)
LEMMA SectionMeans ==
  ASSUME NEW p \in Procs, NEW f, NEW y, NEW to
  PROVE  /\ FinishSection(p, f, y) => frames' = [frames EXCEPT ![f] = y.fr] /\ procs' = Finished(Others(procs, p), p, f, y)
         /\ LeaveSection(p, f, y, to) =>
              frames' = [frames EXCEPT ![f] = y.fr] /\ procs' = Others(procs, p) \cup {Next1(p, to, y.ready, p.at)}
  <1>1. FinishSection(p, f, y) => frames' = [frames EXCEPT ![f] = y.fr] /\ procs' = Finished(Others(procs, p), p, f, y)
    BY DEF FinishSection, Finished, Others, Continue, NodeDone, Next1
  <1>2. [p EXCEPT !.pc = to, !.ready = y.ready] = Next1(p, to, y.ready, p.at)
    BY DEF Next1, Procs
  <1> QED
    BY <1>1, <1>2 DEF LeaveSection, Continue, Others

(* What a node delivers within its frame. *)
LEMMA OutputTypes ==
  ASSUME NEW tn \in TaggedNodes
  PROVE  Outputs(tn)[0] \in BOOLEAN /\ Outputs(tn)[1] \in BOOLEAN
  BY DEF Outputs

(* The edges of a node that is neither Enter nor Exit. *)
LEMMA FitsNormal ==
  ASSUME NEW tn \in TaggedNodes, NEW f, f = tn.frame, ~IsEnter(tn.node), Kind[tn.node] # "exit"
  PROVE  Fits(tn.node, f, Outputs(tn)) /\ (Kind[tn.node] # "switch" => Feeds(tn.node, NameOf(f)))
  <1>1. ASSUME NEW e \in EdgeSet, e.src = tn.node
        PROVE  /\ e.dst \in NodesOf(NameOf(f)) /\ FrameName[e.dst] = NameOf(f)
               /\ (~IsControlEdge(e) => Outputs(tn)[e.slot] \in BOOLEAN) /\ (Kind[tn.node] # "switch" => e.slot # 1)
    <2>1. FrameName[tn.node] = NameOf(f)
      BY DEF TaggedNodes
    <2>2. FrameName[e.dst] = FrameName[e.src] /\ (e.slot = 1 => Kind[e.src] = "switch")
      BY <1>1, GraphAssumption
    <2>3. e.dst \in Nodes /\ (IsControlEdge(e) \/ e.slot = 0 \/ e.slot = 1)
      BY EdgeFacts
    <2> QED
      BY <1>1, <2>1, <2>2, <2>3, OutputTypes DEF NodesOf
  <1> QED
    BY <1>1 DEF Fits, Feeds

(* PropagateNormal *)
LEMMA StepNormal ==
  ASSUME Inv(frames, procs, executed), NEW p \in procs, PropagateNormal(p)
  PROVE  Inv(frames, procs, executed)'
  <1>1. PICK f, acc, a, y : /\ f = p.tn.frame /\ acc = Acc(frames[f], {})
                            /\ a = ActivateNodes(acc, f, p.tn.node, p.tn.dead, p.tn.iter, Outputs(p.tn))
                            /\ y = DecrementOutstandingOps(a, f, p.tn.iter)
    OBVIOUS
  <1>2. /\ p.pc = "process" /\ ~IsEnter(p.tn.node) /\ Kind[p.tn.node] # "exit"
        /\ FinishSection(p, f, y) /\ executed' = With(executed, p.tn)
    BY <1>1 DEF PropagateNormal, Execute, With
  <1>3. Good(frames, procs, executed) /\ Owns(p) /\ ~Pends(p) /\ p.ready = {}
    BY <1>2 DEF Inv, Good, Owns, Pends, ProcOk
  <1>4. PICK N, C, U, i : /\ N = Mine(procs, p, f) /\ C = Subs(DOMAIN frames, procs, f)
                          /\ U = UsedBy(executed, procs, p, f) /\ i = p.tn.iter
    OBVIOUS
  <1>10. Owning(frames, procs, executed, p, f, i)
    BY <1>1, <1>3, <1>4 DEF Owning
  <1>5. /\ f \in DOMAIN frames /\ f \in Paths /\ frames[f] \in FrameStates(f) /\ i \in Nat /\ p.tn \in TaggedNodes
        /\ Live(frames[f], i) /\ N \in Tallies /\ C \in Tallies /\ Section(acc, f, N, C, U) /\ p \in Procs
    BY <1>1, <1>3, <1>4, <1>10, OwnFacts
  <1>6. acc.fr = frames[f] /\ acc.ready = {} /\ ~acc.is_done
    BY <1>1 DEF Acc
  <1>7. Section(a, f, N, C, U) /\ Within(acc, a, f) /\ a \in Accs(f)
    <2>1. p.tn.dead \in BOOLEAN
      BY <1>5 DEF TaggedNodes
    <2>2. Fits(p.tn.node, f, Outputs(p.tn))
      BY <1>1, <1>2, <1>5, FitsNormal
    <2>3. PICK n, d, o : n = p.tn.node /\ d = p.tn.dead /\ o = Outputs(p.tn)
      OBVIOUS
    <2>4. /\ f \in Paths /\ N \in Tallies /\ C \in Tallies /\ Section(acc, f, N, C, U) /\ i \in Nat /\ Live(acc.fr, i)
          /\ d \in BOOLEAN /\ Fits(n, f, o) /\ a = ActivateNodes(acc, f, n, d, i, o)
      BY <1>1, <1>4, <1>5, <1>6, <2>1, <2>2, <2>3
    <2> QED
      BY ONLY <2>4, ActivateNodesStep
  <1>8. /\ a.fr.num_pending_inputs = frames[f].num_pending_inputs /\ ~a.is_done
        /\ \A x \in a.ready : x.frame = f
    <2>1. acc \in Accs(f)
      BY <1>5 DEF Section
    <2> QED
      BY <1>6, <1>7, <2>1, WithinFields DEF Within
  <1>11. Decrementing(frames, procs, executed, p, f, i, a)
    BY <1>2, <1>3, <1>4, <1>7, <1>8, <1>10 DEF Decrementing
  <1>9. Inv([frames EXCEPT ![f] = y.fr], Finished(Others(procs, p), p, f, y), With(executed, p.tn))
    BY <1>1, <1>4, <1>11, DecrementFinish
  <1> QED
    BY <1>2, <1>5, <1>9, SectionMeans

(* DecrementInputFrame *)
LEMMA StepDecrement ==
  ASSUME Inv(frames, procs, executed), NEW p \in procs, DecrementInputFrame(p)
  PROVE  Inv(frames, procs, executed)'
  <1>1. PICK f, i, acc, y : /\ f = p.tn.frame /\ i = p.tn.iter /\ acc = Acc(frames[f], p.ready)
                            /\ y = DecrementOutstandingOps(acc, f, i)
    OBVIOUS
  <1>2. p.pc = "decrement" /\ FinishSection(p, f, y) /\ executed' = executed
    BY <1>1 DEF DecrementInputFrame
  <1>3. Good(frames, procs, executed) /\ Owns(p) /\ ~Pends(p) /\ p.tn \in executed
    BY <1>2 DEF Inv, Good, Owns, Pends, OnceInv
  <1>4. Owning(frames, procs, executed, p, f, i)
    BY <1>1, <1>3 DEF Owning
  <1>5. /\ p \in Procs
        /\ Section(acc, f, Mine(procs, p, f), Subs(DOMAIN frames, procs, f), UsedBy(executed, procs, p, f))
    BY <1>1, <1>4, OwnFacts
  <1>6. acc.fr = frames[f] /\ acc.ready = p.ready /\ ~acc.is_done
    BY <1>1 DEF Acc
  <1>7. Decrementing(frames, procs, executed, p, f, i, acc)
    BY <1>3, <1>4, <1>5, <1>6 DEF Decrementing
  <1>8. Inv([frames EXCEPT ![f] = y.fr], Finished(Others(procs, p), p, f, y), With(executed, p.tn))
    BY <1>1, <1>7, DecrementFinish
  <1>9. With(executed, p.tn) = executed
    BY <1>3 DEF With
  <1> QED
    BY <1>2, <1>5, <1>8, <1>9, SectionMeans

(* A node of a frame other than the root. *)
LEMMA ExitFrames ==
  ASSUME NEW tn \in TaggedNodes, Kind[tn.node] \in {"exit", "next_iter"}
  PROVE  tn.frame # Root /\ tn.frame \in Paths /\ tn.node \in NodesOf(NameOf(tn.frame))
  <1>1. tn.node \in Nodes /\ tn.frame \in Paths /\ FrameName[tn.node] = NameOf(tn.frame)
    BY DEF TaggedNodes
  <1>2. FrameName[tn.node] # RootName
    BY <1>1, GraphAssumption
  <1> QED
    BY <1>1, <1>2, RootNameFacts DEF NodesOf

(* PropagateDeadExit *)
LEMMA StepDeadExit ==
  ASSUME Inv(frames, procs, executed), NEW p \in procs, PropagateDeadExit(p)
  PROVE  Inv(frames, procs, executed)'
  <1>1. PICK f, i, n, acc, fr : /\ f = p.tn.frame /\ i = p.tn.iter /\ n = p.tn.node
                                /\ acc = Acc(frames[f], {}) /\ fr = frames[f]
    OBVIOUS
  <1>2. PICK new, a, y : /\ new = (IF i = fr.iteration_count THEN [fr EXCEPT !.dead_exits = Append(fr.dead_exits, n)] ELSE fr)
                         /\ a = Acc(new, {}) /\ y = DecrementOutstandingOps(a, f, i)
    OBVIOUS
  <1>3. /\ p.pc = "process" /\ Kind[n] = "exit"
        /\ FinishSection(p, f, y) /\ executed' = With(executed, p.tn)
    BY <1>1, <1>2 DEF PropagateDeadExit, Execute, With
  <1>4. Good(frames, procs, executed) /\ Owns(p) /\ ~Pends(p) /\ p.ready = {} /\ ~IsEnter(n)
    BY <1>3 DEF Inv, Good, Owns, Pends, ProcOk, IsEnter
  <1>5. PICK N, C, U : /\ N = Mine(procs, p, f) /\ C = Subs(DOMAIN frames, procs, f)
                       /\ U = UsedBy(executed, procs, p, f)
    OBVIOUS
  <1>6. Owning(frames, procs, executed, p, f, i)
    BY <1>1, <1>4 DEF Owning
  <1>7. /\ f \in Paths /\ fr \in FrameStates(f) /\ i \in Nat /\ p.tn \in TaggedNodes
        /\ N \in Tallies /\ C \in Tallies /\ Section(acc, f, N, C, U) /\ p \in Procs
    BY <1>1, <1>4, <1>5, <1>6, OwnFacts
  <1>8. f # Root /\ n \in NodesOf(NameOf(f))
    BY <1>1, <1>3, <1>7, ExitFrames
  <1>9. /\ new \in FrameStates(f) /\ new.iterations = fr.iterations /\ new.iteration_count = fr.iteration_count
        /\ new.num_outstanding_iterations = fr.num_outstanding_iterations
        /\ new.num_pending_inputs = fr.num_pending_inputs
    <2>1. CASE i # fr.iteration_count
      BY <1>2, <1>7, <2>1
    <2>2. CASE i = fr.iteration_count
      <3>1. PICK x, T : x = Append(fr.dead_exits, n) /\ T = {m \in NodesOf(NameOf(f)) : Kind[m] = "exit"}
        OBVIOUS
      <3>2. n \in T /\ fr.dead_exits \in Seq(T)
        BY <1>3, <1>7, <1>8, <3>1 DEF FrameStates
      <3>3. x \in Seq(T)
        BY <3>1, <3>2
      <3>4. new = [fr EXCEPT !.dead_exits = x]
        BY <1>2, <2>2, <3>1
      <3> QED
        BY <1>7, <3>1, <3>3, <3>4 DEF FrameStates
    <2> QED
      BY <2>1, <2>2
  <1>10. /\ acc.fr = fr /\ acc.ready = {} /\ a \in Accs(f) /\ a.fr = new /\ a.ready = {} /\ ~a.is_done
    <2>1. PICK R : R = {}
      OBVIOUS
    <2>2. new \in FrameStates(f) /\ R \in SUBSET TaggedNodes /\ a = Acc(new, R)
      BY <1>2, <1>9, <2>1
    <2>3. a \in Accs(f) /\ a.fr = new /\ a.ready = R /\ ~a.is_done
      BY ONLY <2>2, AccType
    <2> QED
      BY <1>1, <2>1, <2>3 DEF Acc
  <1>11. Section(a, f, N, C, U)
    BY <1>7, <1>8, <1>9, <1>10, OtherFields
  <1>12. Decrementing(frames, procs, executed, p, f, i, a)
    BY <1>1, <1>4, <1>5, <1>6, <1>9, <1>10, <1>11 DEF Decrementing
  <1>13. Inv([frames EXCEPT ![f] = y.fr], Finished(Others(procs, p), p, f, y), With(executed, p.tn))
    BY <1>2, <1>12, DecrementFinish
  <1> QED
    BY <1>3, <1>7, <1>13, SectionMeans

(* NextIteration before the count goes down. *)
LEMMA NextIterationStep ==
  ASSUME NEW f \in Paths, NEW tn \in TaggedNodes, f = tn.frame, Kind[tn.node] = "next_iter",
         NEW fr \in FrameStates(f), NEW N \in Tallies, NEW C \in Tallies, NEW U,
         Section(Acc(fr, {}), f, N, C, U), NEW i, i = tn.iter, Live(fr, i),
         NEW a, a = NextIteration(fr, tn)
  PROVE  /\ Section(a, f, N, C, U) /\ ~a.is_done /\ a.fr.num_pending_inputs = fr.num_pending_inputs
         /\ \A x \in a.ready : x.frame = f
  <1>1. PICK acc, n, o : acc = Acc(fr, {}) /\ n = tn.node /\ o = [s \in {0} |-> TRUE]
    OBVIOUS
  <1>2. /\ f # Root /\ n \in NodesOf(NameOf(f)) /\ i \in Nat /\ n \in Nodes
    BY <1>1, ExitFrames DEF TaggedNodes
  <1>3. acc \in Accs(f) /\ acc.fr = fr /\ acc.ready = {} /\ ~acc.is_done
    BY <1>1, AccType
  <1>4. Feeds(n, NameOf(f))
    <2>1. ~IsEnter(n) /\ Kind[n] # "exit" /\ Kind[n] # "switch"
      BY <1>1 DEF IsEnter
    <2> QED
      BY <1>1, <2>1, FitsNormal
  <1>5. Fits(n, f, o)
    <2>1. ASSUME NEW e \in EdgeSet, e.src = n
          PROVE  e.dst \in NodesOf(NameOf(f)) /\ (~IsControlEdge(e) => o[e.slot] \in BOOLEAN)
      <3>1. e.slot # 1 /\ FrameName[e.dst] = NameOf(f) /\ e.dst \in Nodes /\ (IsControlEdge(e) \/ e.slot = 0 \/ e.slot = 1)
        BY <1>4, <2>1, EdgeFacts DEF Feeds
      <3> QED
        BY <1>1, <3>1 DEF NodesOf
    <2> QED
      BY <2>1 DEF Fits
  <1>6. CASE tn.dead
    BY <1>1, <1>3, <1>6 DEF NextIteration
  <1>7. CASE ~tn.dead /\ i = fr.iteration_count /\ IsFull(fr, NameOf(f))
    <2>1. PICK x, T : x = Append(fr.next_iter_roots, Entry(n, TRUE)) /\ T = EntriesTo(NameOf(f))
      OBVIOUS
    <2>2. Entry(n, TRUE) \in T
      BY <1>2, <1>4, <2>1 DEF Entry, EntriesTo
    <2>9. fr.next_iter_roots \in Seq(T)
      BY <2>1 DEF FrameStates
    <2>3. x \in Seq(T)
      <3>1. PICK r, c : r = fr.next_iter_roots /\ c = Entry(n, TRUE)
        OBVIOUS
      <3>2. r \in Seq(T) /\ c \in T /\ x = Append(r, c)
        BY <2>1, <2>2, <2>9, <3>1
      <3> QED
        BY ONLY <3>2
    <2>4. PICK new : new = [fr EXCEPT !.next_iter_roots = x]
      OBVIOUS
    <2>5. /\ new \in FrameStates(f) /\ new.iterations = fr.iterations /\ new.iteration_count = fr.iteration_count
          /\ new.num_outstanding_iterations = fr.num_outstanding_iterations
          /\ new.num_pending_inputs = fr.num_pending_inputs
      BY <2>1, <2>3, <2>4 DEF FrameStates
    <2>6. a = Acc(new, {})
      BY <1>1, <1>7, <2>1, <2>4 DEF NextIteration
    <2>7. a \in Accs(f) /\ a.fr = new /\ a.ready = {} /\ ~a.is_done
      BY <2>5, <2>6, AccType
    <2>8. /\ f \in Paths /\ N \in Tallies /\ C \in Tallies /\ Section(acc, f, N, C, U) /\ a \in Accs(f)
          /\ a.ready = acc.ready /\ a.fr.iterations = acc.fr.iterations
          /\ a.fr.iteration_count = acc.fr.iteration_count
          /\ a.fr.num_outstanding_iterations = acc.fr.num_outstanding_iterations
          /\ (a.fr.num_pending_inputs # 0 => acc.fr.num_pending_inputs # 0)
          /\ (f = Root => a.fr.next_iter_roots = <<>>)
      BY <1>1, <1>2, <1>3, <2>5, <2>7
    <2>10. Section(a, f, N, C, U)
      BY ONLY <2>8, OtherFields
    <2> QED
      BY <2>5, <2>7, <2>10
  <1>8. CASE ~tn.dead /\ i # fr.iteration_count
    <2>1. a = ActivateNodes(acc, f, n, FALSE, i + 1, o)
      BY <1>1, <1>8 DEF NextIteration
    <2>2. Live(fr, i + 1) /\ i + 1 \in Nat
      <3>1. fr.iteration_count \in Nat /\ fr.num_outstanding_iterations \in Nat
        BY DEF FrameStates
      <3> QED
        BY <1>2, <1>8, <3>1 DEF Live, First
    <2>3. PICK j, d : j = i + 1 /\ d = FALSE
      OBVIOUS
    <2>4. /\ f \in Paths /\ N \in Tallies /\ C \in Tallies /\ Section(acc, f, N, C, U) /\ j \in Nat /\ Live(acc.fr, j)
          /\ d \in BOOLEAN /\ Fits(n, f, o) /\ a = ActivateNodes(acc, f, n, d, j, o)
      BY <1>1, <1>3, <1>5, <2>1, <2>2, <2>3
    <2>5. Section(a, f, N, C, U) /\ Within(acc, a, f) /\ a \in Accs(f)
      BY ONLY <2>4, ActivateNodesStep
    <2> QED
      BY <1>3, <2>5, WithinFields DEF Within
  <1>9. CASE ~tn.dead /\ i = fr.iteration_count /\ ~IsFull(fr, NameOf(f))
    <2>1. PICK b : b = IncrementIteration(acc, f)
      OBVIOUS
    <2>2. a = ActivateNodes(b, f, n, FALSE, i + 1, o)
      BY <1>1, <1>9, <2>1 DEF NextIteration
    <2>3. acc.fr.num_outstanding_iterations < Capacity(f)
      <3>1. PICK c, m : c = Capacity(f) /\ m = fr.num_outstanding_iterations
        OBVIOUS
      <3>2. c \in Nat /\ m \in Nat /\ c = MaxParallel[NameOf(f)]
        BY <1>2, <3>1, Sizes DEF FrameStates
      <3>3. m <= c
        BY <1>1, <1>3, <3>1 DEF Section, Window
      <3>4. m # c
        BY <1>9, <3>1, <3>2 DEF IsFull
      <3>5. m < c
        BY ONLY <3>2, <3>3, <3>4
      <3> QED
        BY <1>3, <3>1, <3>5
    <2>4. /\ Section(b, f, N, C, U) /\ Grown(acc, b, f) /\ b \in Accs(f) /\ Live(b.fr, acc.fr.iteration_count + 1)
          /\ b.is_done = acc.is_done
      <3>1. f \in Paths /\ N \in Tallies /\ C \in Tallies /\ Section(acc, f, N, C, U) /\ f # Root
            /\ acc.fr.num_outstanding_iterations < Capacity(f) /\ b = IncrementIteration(acc, f)
        BY <1>1, <1>2, <2>1, <2>3
      <3> QED
        BY ONLY <3>1, IncrementStep
    <2>5. PICK j, d : j = i + 1 /\ d = FALSE
      OBVIOUS
    <2>6. /\ f \in Paths /\ N \in Tallies /\ C \in Tallies /\ Section(b, f, N, C, U) /\ j \in Nat /\ Live(b.fr, j)
          /\ d \in BOOLEAN /\ Fits(n, f, o) /\ a = ActivateNodes(b, f, n, d, j, o)
      <3>1. j \in Nat /\ Live(b.fr, j)
        <4>1. j = acc.fr.iteration_count + 1
          BY <1>3, <1>9, <2>5
        <4>2. j \in Nat
          BY ONLY <1>2, <2>5
        <4> QED
          BY ONLY <2>4, <4>1, <4>2
      <3>2. d \in BOOLEAN
        BY <2>5
      <3> QED
        BY <1>5, <2>2, <2>4, <2>5, <3>1, <3>2
    <2>7. Section(a, f, N, C, U) /\ Within(b, a, f) /\ a \in Accs(f)
      BY ONLY <2>6, ActivateNodesStep
    <2>8. a.fr.num_pending_inputs = b.fr.num_pending_inputs /\ b.fr.num_pending_inputs = fr.num_pending_inputs
      BY <1>3, <2>4, <2>7, WithinFields DEF Grown
    <2> QED
      BY <1>3, <2>4, <2>7, <2>8 DEF Within, Grown
  <1> QED
    BY <1>6, <1>7, <1>8, <1>9

(* PropagateNextIteration *)
LEMMA StepNextIteration ==
  ASSUME Inv(frames, procs, executed), NEW p \in procs, PropagateNextIteration(p)
  PROVE  Inv(frames, procs, executed)'
  <1>1. PICK f, i, acc, a, y : /\ f = p.tn.frame /\ i = p.tn.iter /\ acc = Acc(frames[f], {})
                               /\ a = NextIteration(frames[f], p.tn) /\ y = DecrementOutstandingOps(a, f, i)
    OBVIOUS
  <1>2. /\ p.pc = "process" /\ Kind[p.tn.node] = "next_iter"
        /\ FinishSection(p, f, y) /\ executed' = With(executed, p.tn)
    BY <1>1 DEF PropagateNextIteration, Execute, With
  <1>3. Good(frames, procs, executed) /\ Owns(p) /\ ~Pends(p) /\ p.ready = {} /\ ~IsEnter(p.tn.node)
    BY <1>2 DEF Inv, Good, Owns, Pends, ProcOk, IsEnter
  <1>4. PICK N, C, U, fr, tn : /\ N = Mine(procs, p, f) /\ C = Subs(DOMAIN frames, procs, f) /\ fr = frames[f]
                               /\ U = UsedBy(executed, procs, p, f) /\ tn = p.tn
    OBVIOUS
  <1>5. Owning(frames, procs, executed, p, f, i)
    BY <1>1, <1>3 DEF Owning
  <1>6. /\ f \in Paths /\ fr \in FrameStates(f) /\ i \in Nat /\ tn \in TaggedNodes /\ Live(fr, i)
        /\ N \in Tallies /\ C \in Tallies /\ Section(acc, f, N, C, U) /\ p \in Procs
    BY <1>1, <1>3, <1>4, <1>5, OwnFacts
  <1>7. /\ f \in Paths /\ tn \in TaggedNodes /\ f = tn.frame /\ Kind[tn.node] = "next_iter"
        /\ fr \in FrameStates(f) /\ N \in Tallies /\ C \in Tallies
        /\ Section(Acc(fr, {}), f, N, C, U) /\ i = tn.iter /\ Live(fr, i) /\ a = NextIteration(fr, tn)
    BY <1>1, <1>2, <1>4, <1>6
  <1>8. /\ Section(a, f, N, C, U) /\ ~a.is_done /\ a.fr.num_pending_inputs = fr.num_pending_inputs
        /\ \A x \in a.ready : x.frame = f
    BY ONLY <1>7, NextIterationStep
  <1>9. Decrementing(frames, procs, executed, p, f, i, a)
    BY <1>3, <1>4, <1>5, <1>8 DEF Decrementing
  <1>10. Inv([frames EXCEPT ![f] = y.fr], Finished(Others(procs, p), p, f, y), With(executed, p.tn))
    BY <1>1, <1>9, DecrementFinish
  <1> QED
    BY <1>2, <1>6, <1>10, SectionMeans


(* The invariant looks at a frame only if it is outstanding. *)
LEMMA GoodSame ==
  ASSUME NEW F, NEW P, NEW E, Good(F, P, E), NEW G, DOMAIN G = DOMAIN F, \A g \in DOMAIN F : G[g] = F[g]
  PROVE  Good(G, P, E)
  <1>1. TypesInv(G, P, E) /\ ParentsInv(DOMAIN G) /\ OnceInv(P, E) /\ EndsInv(P)
    BY DEF Good, TypesInv
  <1>2. FramesInv(G, P, E)
    BY DEF Good, FramesInv
  <1>3. \A p \in P : ProcOk(G, p)
    <2> SUFFICES ASSUME NEW p \in P
                 PROVE  ProcOk(G, p)
      OBVIOUS
    <2>1. ProcOk(F, p)
      BY DEF Good
    <2> QED
      BY <2>1 DEF ProcOk
  <1> QED
    BY <1>1, <1>2, <1>3 DEF Good

(* An Enter that is being processed has not delivered to its child frame. *)
LEMMA NotEntered ==
  ASSUME NEW F, NEW P, NEW E, Good(F, P, E), NEW p \in P, IsEnter(p.tn.node), p.pc \in {"process", "create", "enter"}
  PROVE  Key(p.tn) \notin Entered(E, P)
  <1>1. CASE Pends(p)
    BY <1>1, EnteredFacts
  <1>2. CASE p.pc = "process"
    <2>1. PICK h : h = <<p, 0, p.tn>>
      OBVIOUS
    <2>2. h \in Holds(P) /\ h[3] = p.tn /\ h[1] = p
      BY <1>2, <2>1 DEF Holds, Owns
    <2>3. Plain(p.tn.node)
      BY DEF IsEnter, Plain
    <2>4. Key(p.tn) \notin Keys(E)
      BY <1>2, <2>2, <2>3 DEF Good, OnceInv
    <2> QED
      BY <2>4, EnteredFacts DEF Keys
  <1> QED
    BY <1>1, <1>2 DEF Pends

(* It stays so while it looks for the frame. *)
LEMMA EnteredPends ==
  ASSUME NEW E, NEW P, NEW p \in P, NEW q, q.tn = p.tn, Pends(q), Key(p.tn) \notin Entered(E, P)
  PROVE  Entered(With(E, p.tn), Others(P, p) \cup {q}) = Entered(E, P)
  <1>1. PICK E1, P2, kp : E1 = With(E, p.tn) /\ P2 = Others(P, p) \cup {q} /\ kp = Key(p.tn)
    OBVIOUS
  <1>2. ASSUME NEW k
        PROVE  k \in Entered(E1, P2) <=> k \in Entered(E, P)
    <2>1. CASE k = kp
      <3>1. q \in P2 /\ Key(q.tn) = k
        BY <1>1, <2>1
      <3>2. k \notin Entered(E1, P2)
        BY <3>1, EnteredFacts
      <3> QED
        BY <1>1, <2>1, <3>2
    <2>2. CASE k # kp
      <3>1. (\E x \in E1 : IsEnter(x.node) /\ Key(x) = k) <=> \E x \in E : IsEnter(x.node) /\ Key(x) = k
        BY <1>1, <2>2 DEF With
      <3>2. (\E r \in P2 : Pends(r) /\ Key(r.tn) = k) <=> \E r \in P : Pends(r) /\ Key(r.tn) = k
        BY <1>1, <2>2 DEF Others
      <3> QED
        BY <3>1, <3>2, EnteredFacts
    <2> QED
      BY <2>1, <2>2
  <1> QED
    BY <1>1, <1>2

(* Looking for a child frame. *)
Looking(F, P, E, p, to) ==
  /\ Inv(F, P, E) /\ p \in P /\ IsEnter(p.tn.node) /\ p.pc \in {"process", "create"} /\ to \in {"create", "enter"}
  /\ to = "enter" => ChildOf(Key(p.tn)) \in DOMAIN F

(* It changes no frame. *)
LEMMA LookStep ==
  ASSUME NEW F, NEW P, NEW E, NEW p, NEW to, Looking(F, P, E, p, to), NEW q, q = Next1(p, to, {}, p.at)
  PROVE  Inv(F, Others(P, p) \cup {q}, With(E, p.tn))
  <1>1. /\ Inv(F, P, E) /\ p \in P /\ IsEnter(p.tn.node) /\ p.pc \in {"process", "create"} /\ to \in {"create", "enter"}
        /\ to = "enter" => ChildOf(Key(p.tn)) \in DOMAIN F
    BY DEF Looking
  <1>2. Good(F, P, E) /\ Owns(p) /\ p.ready = {}
    BY <1>1 DEF Inv, Good, Owns, ProcOk
  <1>3. PICK f, i, y, own, K : /\ f = p.tn.frame /\ i = p.tn.iter /\ y = Acc(F[f], p.ready) /\ own = TRUE
                               /\ K = Entered(E, P)
    OBVIOUS
  <1>4. Owning(F, P, E, p, f, i)
    BY <1>1, <1>2, <1>3 DEF Owning
  <1>5. /\ f \in DOMAIN F /\ F[f] \in FrameStates(f) /\ ~IsFrameDone(F[f]) /\ p \in Procs
        /\ Section(y, f, Mine(P, p, f), Subs(DOMAIN F, P, f), UsedBy(E, P, p, f))
    BY <1>3, <1>4, OwnFacts
  <1>6. y.fr = F[f] /\ y.ready = {}
    BY <1>2, <1>3 DEF Acc
  <1>7. Mine(P, p, f) = Tally(Others(P, p), f, own, p.tn) /\ UsedBy(E, P, p, f) = Used(With(E, p.tn), Others(P, p), f)
    BY <1>3 DEF Mine, UsedBy
  <1>8. Leaving(F, P, E, p, f, own, y, to)
    BY <1>1, <1>2, <1>3, <1>5, <1>6, <1>7 DEF Leaving
  <1>9. q = Next1(p, to, y.ready, p.at)
    BY <1>6
  <1>10. Good([F EXCEPT ![f] = y.fr], Others(P, p) \cup {q}, With(E, p.tn)) /\ q.tn = p.tn /\ q.pc = to
    <2>1. Good([F EXCEPT ![f] = y.fr], Others(P, p) \cup {q}, With(E, p.tn))
      BY ONLY <1>8, <1>9, LeaveStep
    <2>2. p.at \in Paths /\ {} \in SUBSET TaggedNodes
      BY <1>5 DEF Procs
    <2>3. q.tn = p.tn /\ q.pc = to
      BY <1>1, <1>5, <2>2, NextFacts
    <2> QED
      BY <2>1, <2>3
  <1>11. Good(F, Others(P, p) \cup {q}, With(E, p.tn))
    <2>1. PICK G : G = [F EXCEPT ![f] = y.fr]
      OBVIOUS
    <2>2. DOMAIN F = DOMAIN G /\ \A g \in DOMAIN G : F[g] = G[g]
      BY <1>5, <1>6, <2>1
    <2> QED
      BY <1>10, <2>1, <2>2, GoodSame
  <1>12. Entered(With(E, p.tn), Others(P, p) \cup {q}) = K
    <2>1. Key(p.tn) \notin Entered(E, P) /\ Pends(q) /\ p \in P /\ q.tn = p.tn
      BY <1>1, <1>2, <1>10, NotEntered DEF Pends
    <2>2. Entered(With(E, p.tn), Others(P, p) \cup {q}) = Entered(E, P)
      BY ONLY <2>1, EnteredPends
    <2> QED
      BY <1>3, <2>2
  <1>13. InputsInv(F, With(E, p.tn), K)
    BY <1>1, <1>2, <1>3, InputsSame DEF Inv
  <1> QED
    BY <1>11, <1>12, <1>13 DEF Inv

(* [p EXCEPT !.pc = ...] *)
LEMMA OnlyPc ==
  ASSUME NEW p \in Procs, NEW to
  PROVE  [p EXCEPT !.pc = to] = Next1(p, to, p.ready, p.at)
  BY DEF Next1, Procs

(* FindChildFrame *)
LEMMA StepFind ==
  ASSUME Inv(frames, procs, executed), NEW p \in procs, FindChildFrame(p)
  PROVE  Inv(frames, procs, executed)'
  <1>1. PICK child, to : /\ child = Child(p.tn.frame, p.tn.iter, ChildName[p.tn.node])
                         /\ to = IF child \in DOMAIN frames THEN "enter" ELSE "create"
    OBVIOUS
  <1>2. /\ p.pc = "process" /\ IsEnter(p.tn.node) /\ executed' = With(executed, p.tn) /\ frames' = frames
        /\ procs' = Others(procs, p) \cup {[p EXCEPT !.pc = to]}
    BY <1>1 DEF FindChildFrame, Continue, Execute, With, Others
  <1>3. p \in Procs /\ p.ready = {}
    BY <1>2 DEF Inv, Good, TypesInv, ProcOk
  <1>4. child = ChildOf(Key(p.tn))
    BY <1>1 DEF ChildOf, Key
  <1>5. Looking(frames, procs, executed, p, to)
    BY <1>1, <1>2, <1>4 DEF Looking
  <1>6. PICK q : q = Next1(p, to, {}, p.at)
    OBVIOUS
  <1>7. procs' = Others(procs, p) \cup {q}
    BY <1>2, <1>3, <1>6, OnlyPc
  <1>8. Inv(frames, Others(procs, p) \cup {q}, With(executed, p.tn))
    BY ONLY <1>5, <1>6, LookStep
  <1> QED
    BY <1>2, <1>7, <1>8

(* A new frame runs iteration 0 and has nothing outstanding. *)
LEMMA NewFrameFacts ==
  ASSUME NEW f \in Paths, NEW fr, fr = NewFrame(NameOf(f)), NEW s, s = NewIteration(NameOf(f), 0)
  PROVE  /\ fr \in FrameStates(f) /\ Window(fr, f) /\ \A i \in Nat : Live(fr, i) <=> i = 0
         /\ fr.iterations[0] = s /\ s \in IterationStates(NameOf(f)) /\ 0 % Size(f) = 0
         /\ f # Root => fr.num_pending_inputs = Cardinality(EntersOf(NameOf(f)))
  <1>1. NameOf(f) = RootName <=> f = Root
    <2>1. CASE f = Root
      BY <2>1 DEF NameOf
    <2>2. CASE f # Root
      <3>1. PICK n \in Nodes : IsEnter(n) /\ ChildName[n] = NameOf(f)
        BY <2>2, Sizes DEF Names
      <3> QED
        BY <2>2, <3>1, GraphAssumption
    <2> QED
      BY <2>1, <2>2
  <1>2. s \in IterationStates(NameOf(f)) /\ s.iter = 0
    BY NewIterationFacts
  <1>3. PICK S, c : S = Size(f) /\ c = IF f = Root THEN 0 ELSE InputCount(NameOf(f))
    OBVIOUS
  <1>4. S \in Nat \ {0} /\ Capacity(f) \in Nat \ {0}
    BY <1>3, Sizes
  <1>5. PICK its : its = [j \in 0 .. S - 1 |-> IF j = 0 THEN s ELSE Null]
    OBVIOUS
  <1>6. its \in [0 .. S - 1 -> IterationStates(NameOf(f)) \cup {Null}] /\ its[0] = s /\ \A j \in 0 .. S - 1 : j # 0 => its[j] = Null
    BY <1>2, <1>4, <1>5
  <1>7. S = IF NameOf(f) = RootName THEN 1 ELSE MaxParallel[NameOf(f)] + 1
    BY <1>1, <1>3 DEF Size
  <1>8. fr = [num_pending_inputs |-> c, iteration_count |-> 0, num_outstanding_iterations |-> 1, iterations |-> its,
              next_iter_roots |-> <<>>, inv_values |-> <<>>, dead_exits |-> <<>>]
    BY <1>1, <1>3, <1>5, <1>7 DEF NewFrame
  <1>9. c \in Nat /\ (f # Root => c = Cardinality(EntersOf(NameOf(f))))
    <2>1. IsFiniteSet(EntersOf(NameOf(f)))
      BY GraphAssumption, FS_Subset DEF EntersOf
    <2>2. Cardinality(EntersOf(NameOf(f))) \in Nat /\ InputCount(NameOf(f)) = Cardinality(EntersOf(NameOf(f)))
      BY <2>1, FS_CardinalityType DEF InputCount, EntersOf
    <2> QED
      BY <1>3, <2>2
  <1>10. fr \in FrameStates(f)
    BY <1>3, <1>6, <1>8, <1>9 DEF FrameStates
  <1>11. First(fr) = 0 /\ \A i \in Nat : Live(fr, i) <=> i = 0
    BY <1>8 DEF First, Live
  <1>12. 0 % S = 0
    BY <1>4
  <1>13. Window(fr, f)
    <2>1. fr.num_outstanding_iterations <= Capacity(f)
      BY <1>4, <1>8
    <2>2. \A i \in Nat : Live(fr, i) => fr.iterations[i % Size(f)].iter = i
      BY <1>2, <1>3, <1>6, <1>8, <1>11, <1>12
    <2>3. \A j \in 0 .. Size(f) - 1 : fr.iterations[j] # Null => Live(fr, fr.iterations[j].iter) /\ fr.iterations[j].iter % Size(f) = j
      BY <1>2, <1>3, <1>6, <1>8, <1>11, <1>12
    <2>4. fr.iteration_count = 0 /\ fr.next_iter_roots = <<>>
      BY <1>8
    <2> QED
      BY <1>11, <2>1, <2>2, <2>3, <2>4 DEF Window
  <1> QED
    BY <1>2, <1>3, <1>6, <1>8, <1>9, <1>10, <1>11, <1>12, <1>13

(* A frame that nothing refers to yet. *)
LEMMA NewSection ==
  ASSUME NEW f \in Paths, NEW fr, fr = NewFrame(NameOf(f)), NEW N, NEW C, \A i \in Nat : N[i] = 0 /\ C[i] = 0
  PROVE  Section(Acc(fr, {}), f, N, C, {})
  <1>1. PICK s, acc, R : s = NewIteration(NameOf(f), 0) /\ R = {} /\ acc = Acc(fr, R)
    OBVIOUS
  <1>2. /\ fr \in FrameStates(f) /\ Window(fr, f) /\ \A i \in Nat : Live(fr, i) <=> i = 0
        /\ fr.iterations[0] = s /\ 0 % Size(f) = 0
    BY <1>1, NewFrameFacts
  <1>3. s.outstanding_ops = 0 /\ s.outstanding_frame_count = 0
    BY <1>1, NewIterationFacts
  <1>4. R \in SUBSET TaggedNodes /\ IsFiniteSet(R)
    BY <1>1, FS_EmptySet
  <1>5. acc \in Accs(f) /\ acc.fr = fr /\ acc.ready = R
    BY <1>1, <1>2, <1>4, AccType
  <1>6. \A i \in Nat : Those(acc.ready, f, i) = {} /\ Cardinality(Those(acc.ready, f, i)) = 0
    <2>1. \A i \in Nat : Those(acc.ready, f, i) = {}
      BY <1>1, <1>5 DEF Those
    <2> QED
      BY <2>1, FS_EmptySet
  <1>7. Tallied(acc, f, N, C)
    BY <1>2, <1>3, <1>5, <1>6 DEF Tallied
  <1>8. Pendings(acc, f, {})
    BY <1>1, <1>5 DEF Pendings
  <1> QED
    BY <1>1, <1>2, <1>4, <1>5, <1>7, <1>8 DEF Section

(* Frame c is created in iteration i of f. *)
LEMMA SubsGrow ==
  ASSUME NEW D, IsFiniteSet(D), NEW P, IsFiniteSet(P), NEW p, p.pc # "cleanup", NEW q, q.pc # "cleanup",
         NEW c, c \notin D, c # Root, NEW g, NEW k \in Nat
  PROVE  /\ ParentFrame(c) = g /\ ParentIter(c) = k =>
              Subs(D \cup {c}, Others(P, p) \cup {q}, g)[k] = Subs(D, P, g)[k] + 1
         /\ ~(ParentFrame(c) = g /\ ParentIter(c) = k) =>
              Subs(D \cup {c}, Others(P, p) \cup {q}, g)[k] = Subs(D, P, g)[k]
  <1>1. PICK A, B, X, Y : /\ A = Kids(D, g, k) /\ B = Kids(D \cup {c}, g, k)
                          /\ X = Cleaners(P, g, k) /\ Y = Cleaners(Others(P, p) \cup {q}, g, k)
    OBVIOUS
  <1>2. X = Y
    BY <1>1 DEF Cleaners, Others
  <1>3. IsFiniteSet(A) /\ IsFiniteSet(X)
    <2>1. A \subseteq D /\ X \subseteq P
      BY <1>1 DEF Kids, Cleaners
    <2> QED
      BY <2>1, FS_Subset
  <1>4. Cardinality(A) \in Nat /\ Cardinality(X) \in Nat
    BY <1>3, FS_CardinalityType
  <1>5. ParentFrame(c) = g /\ ParentIter(c) = k => B = A \cup {c} /\ c \notin A
    BY <1>1 DEF Kids
  <1>6. ~(ParentFrame(c) = g /\ ParentIter(c) = k) => B = A
    BY <1>1 DEF Kids
  <1>7. c \notin A => Cardinality(A \cup {c}) = Cardinality(A) + 1
    BY <1>3, FS_AddElement
  <1>8. PICK a, b, x, u, v : /\ a = Cardinality(A) /\ b = Cardinality(B) /\ x = Cardinality(X)
                             /\ u = Subs(D, P, g)[k] /\ v = Subs(D \cup {c}, Others(P, p) \cup {q}, g)[k]
    OBVIOUS
  <1>9. u = a + x /\ v = b + x
    BY <1>1, <1>2, <1>8 DEF Subs
  <1>10. CASE ParentFrame(c) = g /\ ParentIter(c) = k
    <2>1. b = a + 1 /\ a \in Nat /\ x \in Nat
      BY <1>4, <1>5, <1>7, <1>8, <1>10
    <2>2. v = u + 1
      BY ONLY <1>9, <2>1
    <2> QED
      BY <1>8, <1>10, <2>2
  <1>11. CASE ~(ParentFrame(c) = g /\ ParentIter(c) = k)
    <2>1. v = u
      BY <1>6, <1>8, <1>9, <1>11
    <2> QED
      BY <1>8, <1>11, <2>1
  <1> QED
    BY <1>10, <1>11

(* The second half of FindOrCreateChildFrame creates frame c, *)
Creating(F, P, E, p, f, i, c, q, F2) ==
  /\ Inv(F, P, E) /\ p \in P /\ p.pc = "create" /\ f = p.tn.frame /\ i = p.tn.iter
  /\ c = ChildOf(Key(p.tn)) /\ c \notin DOMAIN F /\ q = Next1(p, "enter", {}, p.at)
  /\ DOMAIN F2 = DOMAIN F \cup {c} /\ F2[c] = NewFrame(ChildName[p.tn.node])
  /\ F2[f] = AddToFrameCount(F[f], i, 1) /\ \A g \in DOMAIN F : g # f => F2[g] = F[g]

(* of an Enter that has not delivered yet. *)
LEMMA CreateFacts ==
  ASSUME NEW F, NEW P, NEW E, NEW p, NEW f, NEW i, NEW c, NEW q, NEW F2, Creating(F, P, E, p, f, i, c, q, F2),
         NEW n, n = p.tn.node, NEW K, K = Entered(E, P)
  PROVE  /\ Good(F, P, E) /\ InputsInv(F, E, K) /\ p \in P /\ Owning(F, P, E, p, f, i) /\ p.ready = {}
         /\ p.tn \in E /\ With(E, p.tn) = E /\ IsEnter(n) /\ n \in Nodes /\ FrameName[n] = NameOf(f)
         /\ c \in Paths /\ c # Root /\ NameOf(c) = ChildName[n] /\ ParentFrame(c) = f /\ ParentIter(c) = i /\ c # f
         /\ n \in EntersOf(NameOf(c)) /\ n \in Awaited(K, c) /\ Key(p.tn) \notin K
         /\ q \in Procs /\ q.tn = p.tn /\ q.pc = "enter" /\ q.ready = {}
  <1>1. /\ Inv(F, P, E) /\ p \in P /\ p.pc = "create" /\ f = p.tn.frame /\ i = p.tn.iter
        /\ c = ChildOf(Key(p.tn)) /\ q = Next1(p, "enter", {}, p.at)
    BY DEF Creating
  <1>2. Good(F, P, E) /\ InputsInv(F, E, K) /\ p.ready = {} /\ p.tn \in E /\ IsEnter(n) /\ Owns(p) /\ p \in Procs
    BY <1>1 DEF Inv, Good, ProcOk, OnceInv, Owns, TypesInv
  <1>3. With(E, p.tn) = E
    BY <1>2 DEF With
  <1>4. p.tn \in TaggedNodes /\ p.at \in Paths /\ {} \in SUBSET TaggedNodes
    BY <1>2 DEF Procs
  <1>5. n \in Nodes /\ FrameName[n] = NameOf(f) /\ f \in Paths /\ i \in Nat
    BY <1>1, <1>4 DEF TaggedNodes
  <1>6. c = Child(f, i, ChildName[n]) /\ ChildName[n] \in Names
    BY <1>1, <1>2, <1>5 DEF ChildOf, Key, Names
  <1>7. c \in Paths /\ c # Root /\ NameOf(c) = ChildName[n] /\ ParentFrame(c) = f /\ ParentIter(c) = i /\ c # f
    BY <1>5, <1>6, ChildFacts
  <1>8. Key(p.tn) \notin K
    BY <1>1, <1>2, NotEntered
  <1>9. n \in EntersOf(NameOf(c)) /\ n \in Awaited(K, c)
    BY <1>1, <1>2, <1>5, <1>7, <1>8 DEF EntersOf, Awaited, Key
  <1>10. q \in Procs /\ q.tn = p.tn /\ q.pc = "enter" /\ q.ready = {}
    BY <1>1, <1>2, <1>4, NextFacts
  <1> QED
    BY <1>1, <1>2, <1>3, <1>5, <1>7, <1>8, <1>9, <1>10 DEF Owning

(* Nothing refers to the new frame. *)
LEMMA CreateFresh ==
  ASSUME NEW F, NEW P, NEW E, NEW p, NEW f, NEW i, NEW c, NEW q, NEW F2, Creating(F, P, E, p, f, i, c, q, F2),
         NEW O, O = Others(P, p) \cup {q}
  PROVE  Section(Acc(F2[c], {}), c, Outs(O, c), Subs(DOMAIN F2, O, c), Used(E, O, c))
  <1>1. PICK n, K : n = p.tn.node /\ K = Entered(E, P)
    OBVIOUS
  <1>2. /\ Good(F, P, E) /\ InputsInv(F, E, K) /\ p \in P /\ Owning(F, P, E, p, f, i)
        /\ c \in Paths /\ c # Root /\ NameOf(c) = ChildName[n] /\ ParentFrame(c) = f /\ c # f /\ n \in Awaited(K, c)
        /\ q.tn = p.tn /\ q.pc = "enter" /\ q.ready = {}
    BY <1>1, CreateFacts
  <1>3. c \notin DOMAIN F /\ DOMAIN F2 = DOMAIN F \cup {c} /\ F2[c] = NewFrame(NameOf(c)) /\ f = p.tn.frame
    BY <1>1, <1>2 DEF Creating
  <1>4. f \in DOMAIN F
    BY <1>2, OwnFacts
  <1>5. \A h \in Holds(O) : h[3].frame # c
    <2> SUFFICES ASSUME NEW h \in Holds(O)
                 PROVE  h[3].frame \in DOMAIN F
      BY <1>3
    <2>1. CASE h[1] = q
      BY <1>2, <1>3, <1>4, <2>1 DEF Holds
    <2>2. CASE h[1] # q
      <3>1. PICK r \in O : r = h[1] /\ ((h[3] = r.tn /\ Owns(r)) \/ h[3] \in r.ready)
        BY DEF Holds
      <3>2. r \in P
        BY <2>2, <3>1 DEF Others
      <3>3. ProcOk(F, r)
        BY <1>2, <3>2 DEF Good
      <3> QED
        BY <3>1, <3>3 DEF ProcOk
    <2> QED
      BY <2>1, <2>2
  <1>6. \A k \in Nat : Outs(O, c)[k] = 0
    <2>1. \A k \in Nat : Held(O, c, k) = {}
      BY <1>5 DEF Held, At
    <2> QED
      BY <2>1, FS_EmptySet DEF Outs
  <1>7. \A k \in Nat : Subs(DOMAIN F2, O, c)[k] = 0
    <2> SUFFICES ASSUME NEW k \in Nat
                 PROVE  Subs(DOMAIN F2, O, c)[k] = 0
      OBVIOUS
    <2>1. Kids(DOMAIN F2, c, k) = {}
      BY <1>2, <1>3 DEF Kids, Good, ParentsInv
    <2>2. Cleaners(O, c, k) = {}
      <3>1. \A r \in P : r.pc = "cleanup" => r.at \in DOMAIN F
        BY <1>2 DEF Good, ProcOk
      <3> QED
        BY <1>2, <1>3, <3>1 DEF Cleaners, Others
    <2> QED
      BY <2>1, <2>2, FS_EmptySet DEF Subs
  <1>8. Used(E, O, c) = {}
    <2>1. \A x \in E : x.frame # c
      BY <1>2, <1>3 DEF InputsInv
    <2>2. \A m, k : <<m, c, k>> \notin Keys(E)
      BY <2>1 DEF Keys, Key
    <2>3. \A h \in Holds(O) : \A m, k : Key(h[3]) # <<m, c, k>>
      BY <1>5 DEF Key
    <2> QED
      BY <2>2, <2>3 DEF Used
  <1>9. PICK N, C, U, fr : N = Outs(O, c) /\ C = Subs(DOMAIN F2, O, c) /\ U = Used(E, O, c) /\ fr = F2[c]
    OBVIOUS
  <1>10. c \in Paths /\ fr = NewFrame(NameOf(c)) /\ \A k \in Nat : N[k] = 0 /\ C[k] = 0
    BY <1>2, <1>3, <1>6, <1>7, <1>9
  <1>11. Section(Acc(fr, {}), c, N, C, {})
    BY ONLY <1>10, NewSection
  <1> QED
    BY <1>8, <1>9, <1>11

(* The thread of p goes on as q, and nothing else is outstanding than before. *)
LEMMA CreateAfter ==
  ASSUME NEW F, NEW P, NEW E, NEW p, NEW f, NEW i, NEW c, NEW q, NEW F2, Creating(F, P, E, p, f, i, c, q, F2),
         NEW g \in DOMAIN F, NEW acc, acc.fr = F2[g], NEW C \in Tallies,
         Section(acc, g, Mine(P, p, g), C, UsedBy(E, P, p, g)),
         NEW D \in Tallies, \A k \in Nat : D[k] <= C[k]
  PROVE  Section(Acc(F2[g], {}), g, Outs(Others(P, p) \cup {q}, g), D, Used(E, Others(P, p) \cup {q}, g))
  <1>1. PICK O, Q, R, t, x : O = Others(P, p) /\ Q = {q} /\ R = {} /\ t = TRUE /\ x = p.tn
    OBVIOUS
  <1>2. /\ Good(F, P, E) /\ p \in P /\ p.tn \in E /\ With(E, p.tn) = E
        /\ q.tn = p.tn /\ q.pc = "enter" /\ q.ready = {}
    BY CreateFacts
  <1>3. g \in Paths
    BY <1>2, TypesOf
  <1>4. IsFiniteSet(O) /\ \A r \in O : IsFiniteSet(r.ready)
    BY <1>1, <1>2, FS_Subset DEF Good, TypesInv, Others
  <1>5. IsFiniteSet(R) /\ t \in BOOLEAN /\ \A y \in R : y.frame = g => y \in acc.ready
    BY <1>1, FS_EmptySet
  <1>6. Carries(Q, p, R, t)
    <2>1. IsFiniteSet(q.ready) /\ q.tn = p.tn /\ q.pc # "process" /\ t \in BOOLEAN /\ (t <=> Owns(q))
      BY <1>1, <1>2, <1>5 DEF Owns
    <2>2. Carries({q}, p, q.ready, t)
      BY ONLY <2>1, CarriesOne
    <2> QED
      BY <1>1, <1>2, <2>2
  <1>7. Section(acc, g, Tally(O, g, t, p.tn), C, Used(E, O, g))
    BY <1>1, <1>2 DEF Mine, UsedBy
  <1>8. /\ g \in Paths /\ IsFiniteSet(O) /\ (\A r \in O : IsFiniteSet(r.ready)) /\ p.tn \in E /\ t \in BOOLEAN /\ (t => t)
        /\ C \in Tallies /\ Section(acc, g, Tally(O, g, t, p.tn), C, Used(E, O, g)) /\ IsFiniteSet(R) /\ Carries(Q, p, R, t)
        /\ (\A y \in R : y.frame = g => y \in acc.ready) /\ D \in Tallies /\ (\A k \in Nat : D[k] <= C[k])
    BY <1>2, <1>3, <1>4, <1>5, <1>6, <1>7
  <1>9. Section(Acc(acc.fr, {}), g, Outs(O \cup Q, g), D, Used(E, O \cup Q, g))
    BY ONLY <1>8, FrameAfter
  <1> QED
    BY <1>1, <1>9

(* The frames that were there. *)
LEMMA CreateOthers ==
  ASSUME NEW F, NEW P, NEW E, NEW p, NEW f, NEW i, NEW c, NEW q, NEW F2, Creating(F, P, E, p, f, i, c, q, F2),
         NEW g \in DOMAIN F, NEW O, O = Others(P, p) \cup {q}
  PROVE  Section(Acc(F2[g], {}), g, Outs(O, g), Subs(DOMAIN F2, O, g), Used(E, O, g))
  <1>1. /\ Good(F, P, E) /\ p \in P /\ Owning(F, P, E, p, f, i) /\ p.ready = {} /\ With(E, p.tn) = E /\ q \in Procs
        /\ c \in Paths /\ c # Root /\ ParentFrame(c) = f /\ ParentIter(c) = i /\ q.pc = "enter" /\ q.ready = {}
    BY CreateFacts
  <1>2. /\ p.pc = "create" /\ c \notin DOMAIN F /\ DOMAIN F2 = DOMAIN F \cup {c}
        /\ F2[f] = AddToFrameCount(F[f], i, 1) /\ (g # f => F2[g] = F[g])
    BY DEF Creating
  <1>3. PICK C, D : C = Subs(DOMAIN F, P, g) /\ D = Subs(DOMAIN F2, O, g)
    OBVIOUS
  <1>4. IsFiniteSet(P) /\ IsFiniteSet(DOMAIN F) /\ (\A r \in P : IsFiniteSet(r.ready)) /\ g \in Paths
    BY <1>1 DEF Good, TypesInv
  <1>5. C \in Tallies /\ D \in Tallies
    <2>1. IsFiniteSet(O) /\ \A r \in O : IsFiniteSet(r.ready)
      <3>1. IsFiniteSet(Others(P, p))
        BY <1>4, FS_Subset DEF Others
      <3>2. IsFiniteSet(O)
        BY <3>1, FS_AddElement
      <3> QED
        BY <1>1, <1>4, <3>2, FS_EmptySet DEF Others
    <2>2. IsFiniteSet(DOMAIN F2)
      BY <1>2, <1>4, FS_AddElement
    <2> QED
      BY <1>3, <1>4, <2>1, <2>2, TalliesTypes
  <1>6. ASSUME NEW k \in Nat
        PROVE  /\ f = g /\ i = k => D[k] = C[k] + 1
               /\ ~(f = g /\ i = k) => D[k] = C[k]
    <2>1. PICK A : A = DOMAIN F
      OBVIOUS
    <2>2. /\ IsFiniteSet(A) /\ IsFiniteSet(P) /\ p.pc # "cleanup" /\ q.pc # "cleanup"
          /\ c \notin A /\ c # Root /\ k \in Nat
      BY <1>1, <1>2, <1>4, <1>6, <2>1
    <2>3. /\ ParentFrame(c) = g /\ ParentIter(c) = k =>
               Subs(A \cup {c}, Others(P, p) \cup {q}, g)[k] = Subs(A, P, g)[k] + 1
          /\ ~(ParentFrame(c) = g /\ ParentIter(c) = k) =>
               Subs(A \cup {c}, Others(P, p) \cup {q}, g)[k] = Subs(A, P, g)[k]
      BY ONLY <2>2, SubsGrow
    <2>4. C = Subs(A, P, g) /\ D = Subs(A \cup {c}, Others(P, p) \cup {q}, g)
      BY <1>2, <1>3, <2>1
    <2> QED
      BY <1>1, <2>3, <2>4
  <1>7. PICK acc : acc = Acc(F[g], {})
    OBVIOUS
  <1>8. acc.fr = F[g]
    BY <1>7 DEF Acc
  <1>9. CASE g # f
    <2>1. Section(acc, g, Mine(P, p, g), C, UsedBy(E, P, p, g))
      <3>1. PICK t : t = TRUE
        OBVIOUS
      <3>2. Owns(p) = t
        BY <1>2, <3>1 DEF Owns
      <3>3. Section(Acc(F[g], p.ready), g, Tally(Others(P, p), g, Owns(p), p.tn), C, Used(With(E, p.tn), Others(P, p), g))
        BY <1>1, <1>3, SectionBegins
      <3> QED
        BY <1>1, <1>7, <3>1, <3>2, <3>3 DEF Mine, UsedBy
    <2>2. \A k \in Nat : D[k] <= C[k]
      <3>1. \A k \in Nat : C[k] \in Nat /\ D[k] = C[k]
        BY <1>5, <1>6, <1>9 DEF Tallies
      <3> QED
        BY ONLY <3>1
    <2>3. /\ Creating(F, P, E, p, f, i, c, q, F2) /\ g \in DOMAIN F /\ acc.fr = F2[g] /\ C \in Tallies
          /\ Section(acc, g, Mine(P, p, g), C, UsedBy(E, P, p, g)) /\ D \in Tallies /\ (\A k \in Nat : D[k] <= C[k])
      BY <1>2, <1>5, <1>8, <1>9, <2>1, <2>2
    <2>4. Section(Acc(F2[g], {}), g, Outs(Others(P, p) \cup {q}, g), D, Used(E, Others(P, p) \cup {q}, g))
      BY ONLY <2>3, CreateAfter
    <2> QED
      BY <1>3, <2>4
  <1>10. CASE g = f
    <2>1. PICK N, U : N = Mine(P, p, g) /\ U = UsedBy(E, P, p, g)
      OBVIOUS
    <2>2. Section(acc, g, N, C, U) /\ N \in Tallies /\ Live(acc.fr, i) /\ i \in Nat
      BY <1>1, <1>3, <1>7, <1>8, <1>10, <2>1, OwnFacts
    <2>3. PICK b, one : b = Moved(acc, AddToFrameCount(acc.fr, i, one)) /\ one = 1
      OBVIOUS
    <2>4. D[i] = C[i] + one /\ one \in Int /\ \A k \in Nat : k # i => D[k] = C[k]
      BY <1>6, <1>10, <2>2, <2>3
    <2>5. /\ g \in Paths /\ N \in Tallies /\ C \in Tallies /\ Section(acc, g, N, C, U) /\ i \in Nat /\ Live(acc.fr, i)
          /\ one \in Int /\ D \in Tallies /\ D[i] = C[i] + one /\ (\A k \in Nat : k # i => D[k] = C[k])
          /\ b = Moved(acc, AddToFrameCount(acc.fr, i, one))
      BY <1>4, <1>5, <2>2, <2>3, <2>4
    <2>6. Section(b, g, N, D, U)
      BY ONLY <2>5, FrameCountStep
    <2>7. b.fr = F2[g]
      <3>1. acc = [fr |-> F[g], ready |-> {}, is_done |-> FALSE]
        BY <1>7 DEF Acc
      <3> QED
        BY <1>2, <1>8, <1>10, <2>3, <3>1 DEF Moved
    <2>8. \A k \in Nat : D[k] <= D[k]
      BY <1>5 DEF Tallies
    <2>9. /\ Creating(F, P, E, p, f, i, c, q, F2) /\ g \in DOMAIN F /\ b.fr = F2[g] /\ D \in Tallies
          /\ Section(b, g, Mine(P, p, g), D, UsedBy(E, P, p, g)) /\ (\A k \in Nat : D[k] <= D[k])
      BY <1>5, <2>1, <2>6, <2>7, <2>8
    <2>10. Section(Acc(F2[g], {}), g, Outs(Others(P, p) \cup {q}, g), D, Used(E, Others(P, p) \cup {q}, g))
      BY ONLY <2>9, CreateAfter
    <2> QED
      BY <1>3, <2>10
  <1> QED
    BY <1>9, <1>10

(* It keeps the invariant. *)
LEMMA CreateStep ==
  ASSUME NEW F, NEW P, NEW E, NEW p, NEW f, NEW i, NEW c, NEW q, NEW F2, Creating(F, P, E, p, f, i, c, q, F2)
  PROVE  Inv(F2, Others(P, p) \cup {q}, E)
  <1>1. PICK n, K, O, D : n = p.tn.node /\ K = Entered(E, P) /\ O = Others(P, p) \cup {q} /\ D = DOMAIN F
    OBVIOUS
  <1>2. /\ Good(F, P, E) /\ InputsInv(F, E, K) /\ p \in P /\ Owning(F, P, E, p, f, i) /\ p.ready = {}
        /\ p.tn \in E /\ With(E, p.tn) = E /\ IsEnter(n) /\ n \in Nodes /\ FrameName[n] = NameOf(f)
        /\ c \in Paths /\ c # Root /\ NameOf(c) = ChildName[n] /\ ParentFrame(c) = f /\ ParentIter(c) = i /\ c # f
        /\ n \in EntersOf(NameOf(c)) /\ n \in Awaited(K, c) /\ Key(p.tn) \notin K
        /\ q \in Procs /\ q.tn = p.tn /\ q.pc = "enter" /\ q.ready = {}
    BY <1>1, CreateFacts
  <1>3. /\ p.pc = "create" /\ c \notin D /\ DOMAIN F2 = D \cup {c} /\ F2[c] = NewFrame(NameOf(c))
        /\ F2[f] = AddToFrameCount(F[f], i, 1) /\ (\A g \in D : g # f => F2[g] = F[g]) /\ c = ChildOf(Key(p.tn))
        /\ f = p.tn.frame
    BY <1>1, <1>2 DEF Creating
  <1>4. f \in D /\ f \in Paths /\ ~IsFrameDone(F[f]) /\ F[f] \in FrameStates(f) /\ Owns(p)
    BY <1>1, <1>2, OwnFacts DEF Owning
  <1>5. IsFiniteSet(P) /\ IsFiniteSet(D) /\ (\A r \in P : IsFiniteSet(r.ready)) /\ P \subseteq Procs /\ D \subseteq Paths
    BY <1>1, <1>2 DEF Good, TypesInv
  <1>6. TypesInv(F2, O, E)
    <2>1. IsFiniteSet(O)
      BY <1>1, <1>5, FS_Subset, FS_AddElement DEF Others
    <2>2. O \subseteq Procs /\ \A r \in O : IsFiniteSet(r.ready)
      BY <1>1, <1>2, <1>5, FS_EmptySet DEF Others
    <2>3. IsFiniteSet(D \cup {c}) /\ D \cup {c} \subseteq Paths
      BY <1>2, <1>5, FS_AddElement
    <2>4. E \subseteq TaggedNodes
      BY <1>2 DEF Good, TypesInv
    <2> QED
      BY <1>3, <2>1, <2>2, <2>3, <2>4 DEF TypesInv
  <1>7. ParentsInv(DOMAIN F2)
    <2>1. ParentsInv(D)
      BY <1>1, <1>2 DEF Good
    <2> QED
      BY <1>2, <1>3, <1>4, <2>1 DEF ParentsInv
  <1>8. FramesInv(F2, O, E)
    <2> SUFFICES ASSUME NEW g \in DOMAIN F2
                 PROVE  Section(Acc(F2[g], {}), g, Outs(O, g), Subs(DOMAIN F2, O, g), Used(E, O, g))
      BY DEF FramesInv
    <2>1. CASE g = c
      BY <1>1, <2>1, CreateFresh
    <2>2. CASE g # c
      BY <1>1, <1>3, <2>2, CreateOthers
    <2> QED
      BY <2>1, <2>2
  <1>9. \A r \in O : ProcOk(F2, r)
    <2> SUFFICES ASSUME NEW r \in O
                 PROVE  ProcOk(F2, r)
      OBVIOUS
    <2>1. CASE r = q
      <3>1. r.pc = "enter" /\ r.ready = {} /\ r.tn = p.tn /\ ~Ends(r)
        BY <1>2, <2>1 DEF Ends
      <3>2. r.tn.frame \in DOMAIN F2 /\ IsEnter(r.tn.node) /\ ChildOf(Key(r.tn)) \in DOMAIN F2
        BY <1>1, <1>2, <1>3, <1>4, <3>1
      <3> QED
        BY <3>1, <3>2 DEF ProcOk
    <2>2. CASE r # q
      <3>1. r \in P
        BY <1>1, <2>2 DEF Others
      <3>2. ProcOk(F, r)
        BY <1>2, <3>1 DEF Good
      <3>3. Ends(r) => r.at \in DOMAIN F2 /\ IsFrameDone(F2[r.at])
        BY <1>1, <1>3, <1>4, <3>2 DEF ProcOk
      <3> QED
        BY <1>1, <1>3, <3>2, <3>3 DEF ProcOk
    <2> QED
      BY <2>1, <2>2
  <1>10. OnceInv(O, E)
    <2>1. PICK Z, t, E1, Q, R : Z = Others(P, p) /\ t = TRUE /\ E1 = E /\ Q = {q} /\ R = {}
      OBVIOUS
    <2>2. Carries(Q, p, R, t)
      <3>1. IsFiniteSet(q.ready) /\ q.tn = p.tn /\ q.pc # "process" /\ t \in BOOLEAN /\ (t <=> Owns(q))
        BY <1>2, <2>1, FS_EmptySet DEF Owns
      <3>2. Carries({q}, p, q.ready, t)
        BY ONLY <3>1, CarriesOne
      <3> QED
        BY <1>2, <2>1, <3>2
    <2>3. Clear(R, E1, Z)
      BY <2>1 DEF Clear
    <2>4. /\ Good(F, P, E) /\ p \in P /\ t \in BOOLEAN /\ (t => Owns(p)) /\ E1 = With(E, p.tn) /\ Z = Others(P, p)
          /\ Clear(R, E1, Z) /\ Carries(Q, p, R, t)
      BY <1>2, <1>4, <2>1, <2>2, <2>3
    <2>5. OnceInv(Z \cup Q, E1)
      BY ONLY <2>4, OnceAfter
    <2> QED
      BY <1>1, <2>1, <2>5
  <1>11. EndsInv(O)
    BY <1>1, <1>2 DEF Good, EndsInv, Others, Ends
  <1>12. Entered(E, O) = K
    <2>1. Key(p.tn) \notin Entered(E, P) /\ Pends(q) /\ p \in P /\ q.tn = p.tn
      BY <1>1, <1>2 DEF Pends
    <2>2. Entered(With(E, p.tn), Others(P, p) \cup {q}) = Entered(E, P)
      BY ONLY <2>1, EnteredPends
    <2> QED
      BY <1>1, <1>2, <2>2
  <1>13. InputsInv(F2, E, K)
    <2>1. Awaited(K, c) = EntersOf(NameOf(c))
      <3>1. ASSUME NEW m \in EntersOf(NameOf(c))
            PROVE  <<m, f, i>> \notin K
        <4>1. PICK k : k = <<m, f, i>>
          OBVIOUS
        <4>2. ChildOf(k) = c
          <5>1. c = Child(f, i, NameOf(c))
            BY <1>2, PathFacts
          <5>2. k[1] = m /\ k[2] = f /\ k[3] = i /\ ChildName[m] = NameOf(c)
            BY <3>1, <4>1 DEF EntersOf
          <5> QED
            BY <5>1, <5>2 DEF ChildOf
        <4> QED
          BY <1>1, <1>2, <1>3, <4>1, <4>2 DEF InputsInv
      <3> QED
        BY <1>2, <3>1 DEF Awaited
    <2>2. F2[c].num_pending_inputs = Cardinality(Awaited(K, c))
      <3>1. PICK fr, s : fr = F2[c] /\ s = NewIteration(NameOf(c), 0)
        OBVIOUS
      <3>2. fr.num_pending_inputs = Cardinality(EntersOf(NameOf(c)))
        BY <1>2, <1>3, <3>1, NewFrameFacts
      <3> QED
        BY <2>1, <3>1, <3>2
    <2>3. F2[f].num_pending_inputs = F[f].num_pending_inputs
      BY <1>3, <1>4 DEF AddToFrameCount, SetIteration, FrameStates
    <2>4. \A g \in DOMAIN F2 \ {Root} : F2[g].num_pending_inputs = Cardinality(Awaited(K, g))
      BY <1>1, <1>2, <1>3, <2>2, <2>3 DEF InputsInv
    <2> QED
      BY <1>1, <1>2, <1>3, <2>4 DEF InputsInv
  <1> QED
    BY <1>1, <1>6, <1>7, <1>8, <1>9, <1>10, <1>11, <1>12, <1>13 DEF Inv, Good

(* CreateChildFrame *)
LEMMA StepCreate ==
  ASSUME Inv(frames, procs, executed), NEW p \in procs, CreateChildFrame(p)
  PROVE  Inv(frames, procs, executed)'
  <1>1. PICK f, i, c, q : /\ f = p.tn.frame /\ i = p.tn.iter /\ c = Child(f, i, ChildName[p.tn.node])
                          /\ q = Next1(p, "enter", {}, p.at)
    OBVIOUS
  <1>2. /\ p.pc = "create" /\ executed' = executed
        /\ procs' = Others(procs, p) \cup {[p EXCEPT !.pc = "enter"]}
        /\ frames' = IF c \in DOMAIN frames THEN frames
                     ELSE [g \in DOMAIN frames \cup {c} |->
                             IF g = c THEN NewFrame(ChildName[p.tn.node])
                             ELSE IF g = f THEN AddToFrameCount(frames[f], i, 1) ELSE frames[g]]
    BY <1>1 DEF CreateChildFrame, Continue, Others
  <1>3. p \in Procs /\ p.ready = {} /\ p.tn \in executed /\ IsEnter(p.tn.node)
    BY <1>2 DEF Inv, Good, TypesInv, ProcOk, OnceInv
  <1>4. procs' = Others(procs, p) \cup {q} /\ c = ChildOf(Key(p.tn)) /\ With(executed, p.tn) = executed
    BY <1>1, <1>2, <1>3, OnlyPc DEF ChildOf, Key, With
  <1>5. CASE c \in DOMAIN frames
    <2>1. PICK to : to = "enter"
      OBVIOUS
    <2>2. Looking(frames, procs, executed, p, to) /\ q = Next1(p, to, {}, p.at)
      BY <1>1, <1>2, <1>3, <1>4, <1>5, <2>1 DEF Looking
    <2>3. Inv(frames, Others(procs, p) \cup {q}, With(executed, p.tn))
      BY ONLY <2>2, LookStep
    <2> QED
      BY <1>2, <1>4, <1>5, <2>3
  <1>6. CASE c \notin DOMAIN frames
    <2>1. PICK F2 : F2 = frames'
      OBVIOUS
    <2>2. f \in DOMAIN frames /\ f # c
      <3>1. Good(frames, procs, executed) /\ Owns(p)
        BY <1>2 DEF Inv, Owns
      <3>2. Owning(frames, procs, executed, p, f, i)
        BY <1>1, <3>1 DEF Owning
      <3> QED
        BY <1>6, <3>2, OwnFacts
    <2>3. /\ DOMAIN F2 = DOMAIN frames \cup {c} /\ F2[c] = NewFrame(ChildName[p.tn.node])
          /\ F2[f] = AddToFrameCount(frames[f], i, 1) /\ \A g \in DOMAIN frames : g # f => F2[g] = frames[g]
      BY <1>2, <1>6, <2>1, <2>2
    <2>4. Creating(frames, procs, executed, p, f, i, c, q, F2)
      BY <1>1, <1>2, <1>4, <1>6, <2>3 DEF Creating
    <2>5. Inv(F2, Others(procs, p) \cup {q}, executed)
      BY ONLY <2>4, CreateStep
    <2> QED
      BY <1>2, <1>4, <2>1, <2>5
  <1> QED
    BY <1>5, <1>6

(* The Enter p delivers to its child frame c. *)
Entering(F, P, E, p, n, c, K) ==
  /\ Inv(F, P, E) /\ p \in P /\ p.pc = "enter" /\ n = p.tn.node /\ c = ChildOf(Key(p.tn)) /\ K = Entered(E, P)

(* The frame is there, and still waits for it. *)
LEMMA EnterFacts ==
  ASSUME NEW F, NEW P, NEW E, NEW p, NEW n, NEW c, NEW K, Entering(F, P, E, p, n, c, K)
  PROVE  /\ Good(F, P, E) /\ InputsInv(F, E, K) /\ p \in P /\ p.ready = {} /\ Owns(p) /\ p \in Procs /\ p.tn \in TaggedNodes
         /\ p.tn \in E /\ With(E, p.tn) = E /\ IsEnter(n) /\ n \in Nodes
         /\ c \in DOMAIN F /\ c \in Paths /\ c # Root /\ NameOf(c) = ChildName[n] /\ F[c] \in FrameStates(c)
         /\ ParentFrame(c) = p.tn.frame /\ ParentIter(c) = p.tn.iter /\ Key(p.tn) \notin K
         /\ n \in Awaited(K, c) /\ IsFiniteSet(Awaited(K, c)) /\ F[c].num_pending_inputs = Cardinality(Awaited(K, c))
         /\ F[c].num_pending_inputs \in Nat \ {0} /\ First(F[c]) = 0 /\ Live(F[c], 0) /\ ~IsFrameDone(F[c])
  <1>1. /\ Inv(F, P, E) /\ p \in P /\ p.pc = "enter" /\ n = p.tn.node /\ c = ChildOf(Key(p.tn)) /\ K = Entered(E, P)
    BY DEF Entering
  <1>2. /\ Good(F, P, E) /\ InputsInv(F, E, K) /\ p.ready = {} /\ p.tn \in E /\ IsEnter(n) /\ Owns(p) /\ p \in Procs
        /\ c \in DOMAIN F
    BY <1>1 DEF Inv, Good, ProcOk, OnceInv, Owns, TypesInv
  <1>3. With(E, p.tn) = E
    BY <1>2 DEF With
  <1>4. p.tn \in TaggedNodes
    BY <1>2 DEF Procs
  <1>5. n \in Nodes /\ p.tn.frame \in Paths /\ p.tn.iter \in Nat
    BY <1>1, <1>4 DEF TaggedNodes
  <1>6. PICK f, i : f = p.tn.frame /\ i = p.tn.iter
    OBVIOUS
  <1>7. c = Child(f, i, ChildName[n]) /\ ChildName[n] \in Names
    BY <1>1, <1>2, <1>5, <1>6 DEF ChildOf, Key, Names
  <1>8. c \in Paths /\ c # Root /\ NameOf(c) = ChildName[n] /\ ParentFrame(c) = f /\ ParentIter(c) = i
    BY <1>5, <1>6, <1>7, ChildFacts
  <1>9. Key(p.tn) \notin K
    BY <1>1, <1>2, NotEntered
  <1>10. n \in Awaited(K, c) /\ IsFiniteSet(Awaited(K, c))
    <2>1. n \in Awaited(K, c)
      BY <1>1, <1>2, <1>5, <1>6, <1>8, <1>9 DEF EntersOf, Awaited, Key
    <2>2. Awaited(K, c) \subseteq Nodes
      BY DEF Awaited, EntersOf
    <2> QED
      BY <2>1, <2>2, GraphAssumption, FS_Subset
  <1>11. F[c] \in FrameStates(c) /\ Window(F[c], c)
    BY <1>2, TypesOf
  <1>12. F[c].num_pending_inputs = Cardinality(Awaited(K, c))
    BY <1>2, <1>8 DEF InputsInv
  <1>13. F[c].num_pending_inputs \in Nat \ {0}
    <2>1. Cardinality(Awaited(K, c)) \in Nat /\ Cardinality(Awaited(K, c)) # 0
      BY <1>10, FS_CardinalityType, FS_EmptySet
    <2> QED
      BY <1>12, <2>1
  <1>14. First(F[c]) = 0 /\ F[c].iteration_count \in Nat
    BY <1>11, <1>13 DEF Window, FrameStates
  <1>15. Live(F[c], 0)
    BY <1>14 DEF Live
  <1>16. ~IsFrameDone(F[c])
    BY <1>13 DEF IsFrameDone
  <1> QED
    BY <1>1, <1>2, <1>3, <1>4, <1>5, <1>6, <1>8, <1>9, <1>10, <1>11, <1>12, <1>13, <1>14, <1>15, <1>16

(* One input of c fewer is awaited, and of no other frame. *)
LEMMA AwaitedAfter ==
  ASSUME NEW F, NEW P, NEW E, NEW p, NEW n, NEW c, NEW K, Entering(F, P, E, p, n, c, K),
         NEW L, L = K \cup {Key(p.tn)}
  PROVE  /\ Awaited(L, c) = Awaited(K, c) \ {n}
         /\ Cardinality(Awaited(L, c)) = Cardinality(Awaited(K, c)) - 1
         /\ \A g \in Paths : g # c /\ g # Root => Awaited(L, g) = Awaited(K, g)
         /\ \A g : Awaited(L, g) \subseteq Awaited(K, g)
  <1>1. PICK f, i : f = p.tn.frame /\ i = p.tn.iter
    OBVIOUS
  <1>2. /\ c \in Paths /\ c # Root /\ NameOf(c) = ChildName[n] /\ ParentFrame(c) = f /\ ParentIter(c) = i
        /\ n \in Awaited(K, c) /\ IsFiniteSet(Awaited(K, c))
    BY <1>1, EnterFacts
  <1>3. Key(p.tn) = <<n, f, i>>
    BY <1>1 DEF Entering, Key
  <1>4. Awaited(L, c) = Awaited(K, c) \ {n}
    BY <1>2, <1>3 DEF Awaited
  <1>5. Cardinality(Awaited(L, c)) = Cardinality(Awaited(K, c)) - 1
    <2>1. PICK A : A = Awaited(K, c)
      OBVIOUS
    <2>2. Cardinality(A \ {n}) = Cardinality(A) - 1
      BY <1>2, <2>1, FS_RemoveElement
    <2> QED
      BY <1>4, <2>1, <2>2
  <1>6. ASSUME NEW g \in Paths, g # c, g # Root
        PROVE  Awaited(L, g) = Awaited(K, g)
    <2>1. ASSUME NEW m \in EntersOf(NameOf(g)), <<m, ParentFrame(g), ParentIter(g)>> = <<n, f, i>>
          PROVE  FALSE
      <3>1. m = n /\ ParentFrame(g) = f /\ ParentIter(g) = i /\ NameOf(g) = NameOf(c)
        BY <1>2, <2>1 DEF EntersOf
      <3>2. g = Child(f, i, NameOf(g)) /\ c = Child(f, i, NameOf(c))
        BY <1>2, <1>6, <3>1, PathFacts
      <3> QED
        BY <1>6, <3>1, <3>2
    <2> QED
      BY <1>3, <2>1 DEF Awaited
  <1>7. \A g : Awaited(L, g) \subseteq Awaited(K, g)
    BY DEF Awaited
  <1> QED
    BY <1>4, <1>5, <1>6, <1>7

(* The inputs after EnterChildFrame. *)
LEMMA InputsAfter ==
  ASSUME NEW F, NEW P, NEW E, NEW p, NEW n, NEW c, NEW K, Entering(F, P, E, p, n, c, K), NEW q, q.pc = "decrement", q.tn = p.tn,
         NEW F2, DOMAIN F2 = DOMAIN F, F2[c].num_pending_inputs = F[c].num_pending_inputs - 1,
         \A g \in DOMAIN F : g # c => F2[g] = F[g]
  PROVE  InputsInv(F2, E, Entered(E, Others(P, p) \cup {q}))
  <1>1. PICK L : L = K \cup {Key(p.tn)}
    OBVIOUS
  <1>2. /\ Good(F, P, E) /\ InputsInv(F, E, K) /\ p \in P /\ p.tn \in E /\ IsEnter(n)
        /\ c \in DOMAIN F /\ c # Root /\ F[c].num_pending_inputs = Cardinality(Awaited(K, c))
    BY EnterFacts
  <1>3. K = Entered(E, P) /\ n = p.tn.node /\ c = ChildOf(Key(p.tn)) /\ Pends(p) /\ ~Pends(q)
    BY DEF Entering, Pends
  <1>4. Entered(E, Others(P, p) \cup {q}) = L
    <2>1. PICK O : O = Others(P, p) \cup {q}
      OBVIOUS
    <2>2. ASSUME NEW k
          PROVE  k \in Entered(E, O) <=> k \in L
      <3>1. CASE k = Key(p.tn)
        <4>1. ~\E r \in O : Pends(r) /\ Key(r.tn) = k
          <5>1. SUFFICES ASSUME NEW r \in O, Pends(r), Key(r.tn) = k
                         PROVE  FALSE
            OBVIOUS
          <5>2. r \in P /\ r # p
            BY <1>3, <2>1, <5>1 DEF Others
          <5>3. PICK h, j : h = <<r, 0, r.tn>> /\ j = <<p, 0, p.tn>>
            OBVIOUS
          <5>4. h \in Holds(P) /\ j \in Holds(P) /\ h[3] = r.tn /\ j[3] = p.tn /\ h[1] = r /\ j[1] = p
            BY <1>2, <1>3, <5>1, <5>2, <5>3 DEF Holds, Owns, Pends
          <5>5. Plain(j[3].node) /\ Key(h[3]) = Key(j[3])
            BY <1>2, <1>3, <3>1, <5>1, <5>4 DEF Plain, IsEnter
          <5>6. h = j
            BY <1>2, <5>4, <5>5 DEF Good, OnceInv
          <5> QED
            BY <5>2, <5>4, <5>6
        <4>2. k \in Entered(E, O)
          BY <1>2, <1>3, <3>1, <4>1, EnteredFacts
        <4> QED
          BY <1>1, <3>1, <4>2
      <3>2. CASE k # Key(p.tn)
        <4>1. (\E r \in O : Pends(r) /\ Key(r.tn) = k) <=> \E r \in P : Pends(r) /\ Key(r.tn) = k
          BY <1>3, <2>1, <3>2 DEF Others
        <4> QED
          BY <1>1, <1>3, <3>2, <4>1, EnteredFacts
      <3> QED
        BY <3>1, <3>2
    <2> QED
      BY <2>1, <2>2
  <1>5. /\ Cardinality(Awaited(L, c)) = Cardinality(Awaited(K, c)) - 1
        /\ \A g \in Paths : g # c /\ g # Root => Awaited(L, g) = Awaited(K, g)
        /\ \A g : Awaited(L, g) \subseteq Awaited(K, g)
    BY <1>1, AwaitedAfter
  <1>6. \A f \in DOMAIN F2 \ {Root} : F2[f].num_pending_inputs = Cardinality(Awaited(L, f))
    <2> SUFFICES ASSUME NEW f \in DOMAIN F, f # Root
                 PROVE  F2[f].num_pending_inputs = Cardinality(Awaited(L, f))
      OBVIOUS
    <2>1. CASE f = c
      BY <1>2, <1>5, <2>1
    <2>2. CASE f # c
      <3>1. f \in Paths
        BY <1>2 DEF Good, TypesInv
      <3>2. F[f].num_pending_inputs = Cardinality(Awaited(K, f))
        BY <1>2 DEF InputsInv
      <3> QED
        BY <1>5, <2>2, <3>1, <3>2
    <2> QED
      BY <2>1, <2>2
  <1>7. \A x \in E : x.frame \in DOMAIN F2 \/ x.frame = Root \/ Awaited(L, x.frame) = {}
    BY <1>2, <1>5 DEF InputsInv
  <1>8. \A k \in L : ChildOf(k) \in DOMAIN F2 \/ Awaited(L, ChildOf(k)) = {}
    <2>1. \A k \in K : ChildOf(k) \in DOMAIN F2 \/ Awaited(L, ChildOf(k)) = {}
      BY <1>2, <1>5 DEF InputsInv
    <2> QED
      BY <1>1, <1>2, <1>3, <2>1
  <1> QED
    BY <1>4, <1>6, <1>7, <1>8 DEF InputsInv

(* Before a section of any frame f the thread of p has p.tn to its account. *)
LEMMA MineBegins ==
  ASSUME NEW F, NEW P, NEW E, Good(F, P, E), NEW p \in P, Owns(p), NEW f \in DOMAIN F
  PROVE  /\ Section(Acc(F[f], p.ready), f, Mine(P, p, f), Subs(DOMAIN F, P, f), UsedBy(E, P, p, f))
         /\ Mine(P, p, f) \in Tallies /\ Subs(DOMAIN F, P, f) \in Tallies /\ f \in Paths
  <1>1. PICK t : t = TRUE
    OBVIOUS
  <1>2. Owns(p) = t
    BY <1>1 DEF Owns
  <1>3. Section(Acc(F[f], p.ready), f, Tally(Others(P, p), f, Owns(p), p.tn), Subs(DOMAIN F, P, f), Used(With(E, p.tn), Others(P, p), f))
    BY SectionBegins
  <1>4. Tally(Others(P, p), f, t, p.tn) \in Tallies /\ Subs(DOMAIN F, P, f) \in Tallies /\ f \in Paths
    <2>1. PICK O : O = Others(P, p)
      OBVIOUS
    <2>2. IsFiniteSet(O) /\ (\A r \in O : IsFiniteSet(r.ready)) /\ IsFiniteSet(DOMAIN F)
      BY <2>1, FS_Subset DEF Good, TypesInv, Others
    <2>3. Tally(O, f, t, p.tn) \in Tallies
      BY <2>2, TalliesTypes
    <2> QED
      BY <2>1, <2>3, TypesOf
  <1> QED
    BY <1>1, <1>2, <1>3, <1>4 DEF Mine, UsedBy

(* The edges of an Enter. *)
LEMMA FitsEnter ==
  ASSUME NEW tn \in TaggedNodes, IsEnter(tn.node), NEW c, NameOf(c) = ChildName[tn.node]
  PROVE  Fits(tn.node, c, Outputs(tn)) /\ Feeds(tn.node, NameOf(c))
  <1>1. ASSUME NEW e \in EdgeSet, e.src = tn.node
        PROVE  /\ e.dst \in NodesOf(NameOf(c)) /\ FrameName[e.dst] = NameOf(c)
               /\ (~IsControlEdge(e) => Outputs(tn)[e.slot] \in BOOLEAN) /\ e.slot # 1
    <2>1. FrameName[e.dst] = ChildName[e.src] /\ (e.slot = 1 => Kind[e.src] = "switch")
      BY <1>1, GraphAssumption
    <2>2. Kind[tn.node] # "switch"
      BY DEF IsEnter
    <2>3. e.dst \in Nodes /\ (IsControlEdge(e) \/ e.slot = 0 \/ e.slot = 1)
      BY EdgeFacts
    <2> QED
      BY <1>1, <2>1, <2>2, <2>3, OutputTypes DEF NodesOf
  <1> QED
    BY <1>1 DEF Fits, Feeds

(* What the Enter leaves in the child frame. *)
Delivered(fr, c, tn) ==
  LET acc == Acc([fr EXCEPT !.num_pending_inputs = @ - 1], {}) IN
  IF Kind[tn.node] = "const_enter" THEN AddLoopInv(acc, c, tn.node, ~tn.dead)
  ELSE ActivateNodes(acc, c, tn.node, tn.dead, 0, Outputs(tn))

(* It has awaited one input more. *)
LEMMA EnterSection ==
  ASSUME NEW F, NEW P, NEW E, NEW p, NEW n, NEW c, NEW K, Entering(F, P, E, p, n, c, K),
         NEW y, y = Delivered(F[c], c, p.tn)
  PROVE  /\ Section(y, c, Mine(P, p, c), Subs(DOMAIN F, P, c), UsedBy(E, P, p, c))
         /\ y.fr.num_pending_inputs = F[c].num_pending_inputs - 1 /\ \A x \in y.ready : x.frame = c
  <1>1. PICK N, C, U, R, base, fr : /\ N = Mine(P, p, c) /\ C = Subs(DOMAIN F, P, c) /\ U = UsedBy(E, P, p, c) /\ R = {}
                                    /\ base = Acc(F[c], R) /\ fr = [F[c] EXCEPT !.num_pending_inputs = F[c].num_pending_inputs - 1]
    OBVIOUS
  <1>2. /\ Good(F, P, E) /\ p \in P /\ p.ready = {} /\ Owns(p) /\ p.tn \in TaggedNodes /\ IsEnter(n) /\ n \in Nodes
        /\ c \in DOMAIN F /\ c \in Paths /\ c # Root /\ NameOf(c) = ChildName[n] /\ F[c] \in FrameStates(c)
        /\ F[c].num_pending_inputs \in Nat \ {0} /\ First(F[c]) = 0 /\ Live(F[c], 0)
    BY EnterFacts
  <1>3. n = p.tn.node
    BY DEF Entering
  <1>4. Section(base, c, N, C, U) /\ N \in Tallies /\ C \in Tallies
    BY <1>1, <1>2, MineBegins
  <1>5. /\ fr \in FrameStates(c) /\ fr.num_pending_inputs = F[c].num_pending_inputs - 1
        /\ fr.iterations = F[c].iterations /\ fr.iteration_count = F[c].iteration_count
        /\ fr.num_outstanding_iterations = F[c].num_outstanding_iterations
    <2>1. F[c].num_pending_inputs - 1 \in Nat
      BY <1>2
    <2> QED
      BY <1>1, <1>2, <2>1 DEF FrameStates
  <1>6. R \in SUBSET TaggedNodes
    BY <1>1
  <1>7. PICK acc : acc = Acc(fr, R)
    OBVIOUS
  <1>8. acc \in Accs(c) /\ acc.fr = fr /\ acc.ready = R /\ ~acc.is_done /\ base.fr = F[c] /\ base.ready = R
    <2>1. acc \in Accs(c) /\ acc.fr = fr /\ acc.ready = R /\ ~acc.is_done
      BY ONLY <1>5, <1>6, <1>7, AccType
    <2> QED
      BY <1>1, <2>1 DEF Acc
  <1>9. Section(acc, c, N, C, U) /\ First(acc.fr) = 0 /\ Live(acc.fr, 0)
    <2>1. /\ c \in Paths /\ N \in Tallies /\ C \in Tallies /\ Section(base, c, N, C, U) /\ acc \in Accs(c)
          /\ acc.ready = base.ready /\ acc.fr.iterations = base.fr.iterations
          /\ acc.fr.iteration_count = base.fr.iteration_count
          /\ acc.fr.num_outstanding_iterations = base.fr.num_outstanding_iterations
          /\ (acc.fr.num_pending_inputs # 0 => base.fr.num_pending_inputs # 0)
          /\ (c = Root => acc.fr.next_iter_roots = <<>>)
      BY <1>2, <1>4, <1>5, <1>8
    <2>2. Section(acc, c, N, C, U) /\ First(acc.fr) = First(base.fr) /\ \A i : Live(acc.fr, i) <=> Live(base.fr, i)
      BY ONLY <2>1, OtherFields
    <2> QED
      BY <1>2, <1>8, <2>2
  <1>10. Fits(n, c, Outputs(p.tn)) /\ Feeds(n, NameOf(c)) /\ p.tn.dead \in BOOLEAN
    BY <1>2, <1>3, FitsEnter DEF TaggedNodes
  <1>11. y = IF Kind[n] = "const_enter" THEN AddLoopInv(acc, c, n, ~p.tn.dead)
             ELSE ActivateNodes(acc, c, n, p.tn.dead, 0, Outputs(p.tn))
    BY <1>1, <1>3, <1>7 DEF Delivered
  <1>12. Section(y, c, N, C, U) /\ Grown(acc, y, c)
    <2>1. CASE Kind[n] = "const_enter"
      <3>1. PICK v : v = ~p.tn.dead
        OBVIOUS
      <3>2. v \in BOOLEAN
        BY <3>1
      <3>3. Entry(n, v) \in EntriesTo(NameOf(c))
        BY <1>2, <1>10, <3>2 DEF Entry, EntriesTo
      <3>4. y = AddLoopInv(acc, c, n, v)
        BY <1>11, <2>1, <3>1
      <3>5. /\ c \in Paths /\ N \in Tallies /\ C \in Tallies /\ Section(acc, c, N, C, U) /\ First(acc.fr) = 0
            /\ v \in BOOLEAN /\ Entry(n, v) \in EntriesTo(NameOf(c)) /\ y = AddLoopInv(acc, c, n, v)
        BY <1>2, <1>4, <1>9, <3>2, <3>3, <3>4
      <3> QED
        BY ONLY <3>5, AddLoopInvStep
    <2>2. CASE Kind[n] # "const_enter"
      <3>1. PICK d, o, i : d = p.tn.dead /\ o = Outputs(p.tn) /\ i = 0
        OBVIOUS
      <3>2. y = ActivateNodes(acc, c, n, d, i, o)
        BY <1>11, <2>2, <3>1
      <3>3. i \in Nat /\ Live(acc.fr, i)
        BY <1>9, <3>1
      <3>4. /\ c \in Paths /\ N \in Tallies /\ C \in Tallies /\ Section(acc, c, N, C, U) /\ i \in Nat /\ Live(acc.fr, i)
            /\ d \in BOOLEAN /\ Fits(n, c, o) /\ y = ActivateNodes(acc, c, n, d, i, o)
        BY <1>2, <1>4, <1>9, <1>10, <3>1, <3>2, <3>3
      <3>5. Section(y, c, N, C, U) /\ Within(acc, y, c) /\ y \in Accs(c)
        BY ONLY <3>4, ActivateNodesStep
      <3> QED
        BY <1>8, <3>5, WithinGrown
    <2> QED
      BY <2>1, <2>2
  <1>13. y.fr.num_pending_inputs = F[c].num_pending_inputs - 1 /\ \A x \in y.ready : x.frame = c
    BY <1>1, <1>5, <1>8, <1>12 DEF Grown
  <1> QED
    BY <1>1, <1>12, <1>13

(* A section of frame f with the result y, before that of the input frame. *)
LEMMA LeaveOwn ==
  ASSUME NEW F, NEW P, NEW E, Good(F, P, E), NEW p \in P, Owns(p), p.ready = {}, NEW f \in DOMAIN F, ~IsFrameDone(F[f]),
         NEW y, Section(y, f, Mine(P, p, f), Subs(DOMAIN F, P, f), UsedBy(E, P, p, f)), \A x \in y.ready : x.frame = f,
         NEW q, q = Next1(p, "decrement", y.ready, p.at)
  PROVE  /\ Good([F EXCEPT ![f] = y.fr], Others(P, p) \cup {q}, With(E, p.tn))
         /\ q \in Procs /\ q.tn = p.tn /\ q.pc = "decrement"
  <1>1. PICK own, to : own = TRUE /\ to = "decrement"
    OBVIOUS
  <1>2. Mine(P, p, f) = Tally(Others(P, p), f, own, p.tn) /\ UsedBy(E, P, p, f) = Used(With(E, p.tn), Others(P, p), f)
    BY <1>1 DEF Mine, UsedBy
  <1>3. Leaving(F, P, E, p, f, own, y, to)
    BY <1>1, <1>2 DEF Leaving
  <1>4. q = Next1(p, to, y.ready, p.at)
    BY <1>1
  <1>5. Good([F EXCEPT ![f] = y.fr], Others(P, p) \cup {q}, With(E, p.tn))
    BY ONLY <1>3, <1>4, LeaveStep
  <1>6. p \in Procs /\ p.at \in Paths /\ y.ready \in SUBSET TaggedNodes
    BY DEF Good, TypesInv, Procs, Section, Accs
  <1>7. q \in Procs /\ q.tn = p.tn /\ q.pc = "decrement"
    BY <1>6, NextFacts
  <1> QED
    BY <1>5, <1>7

(* EnterChildFrame *)
LEMMA StepEnter ==
  ASSUME Inv(frames, procs, executed), NEW p \in procs, EnterChildFrame(p)
  PROVE  Inv(frames, procs, executed)'
  <1>1. PICK n, c, K : n = p.tn.node /\ c = ChildOf(Key(p.tn)) /\ K = Entered(executed, procs)
    OBVIOUS
  <1>2. PICK y, q : y = Delivered(frames[c], c, p.tn) /\ q = Next1(p, "decrement", y.ready, p.at)
    OBVIOUS
  <1>3. c = Child(p.tn.frame, p.tn.iter, ChildName[p.tn.node])
    BY <1>1 DEF ChildOf, Key
  <1>4. p.pc = "enter" /\ LeaveSection(p, c, y, "decrement") /\ executed' = executed
    BY <1>2, <1>3 DEF EnterChildFrame, Delivered
  <1>5. Entering(frames, procs, executed, p, n, c, K)
    BY <1>1, <1>4 DEF Entering
  <1>6. /\ Good(frames, procs, executed) /\ p \in procs /\ p.ready = {} /\ Owns(p) /\ p \in Procs
        /\ With(executed, p.tn) = executed /\ c \in DOMAIN frames /\ ~IsFrameDone(frames[c])
    BY <1>5, EnterFacts
  <1>7. /\ Section(y, c, Mine(procs, p, c), Subs(DOMAIN frames, procs, c), UsedBy(executed, procs, p, c))
        /\ y.fr.num_pending_inputs = frames[c].num_pending_inputs - 1 /\ \A x \in y.ready : x.frame = c
    BY <1>2, <1>5, EnterSection
  <1>8. PICK G : G = [frames EXCEPT ![c] = y.fr]
    OBVIOUS
  <1>9. frames' = G /\ procs' = Others(procs, p) \cup {q}
    BY <1>2, <1>4, <1>6, <1>8, SectionMeans
  <1>10. Good(G, Others(procs, p) \cup {q}, executed) /\ q.tn = p.tn /\ q.pc = "decrement"
    <2>1. PICK F, P, E : F = frames /\ P = procs /\ E = executed
      OBVIOUS
    <2>2. /\ Good(F, P, E) /\ p \in P /\ Owns(p) /\ p.ready = {} /\ c \in DOMAIN F /\ ~IsFrameDone(F[c])
          /\ Section(y, c, Mine(P, p, c), Subs(DOMAIN F, P, c), UsedBy(E, P, p, c)) /\ (\A x \in y.ready : x.frame = c)
          /\ q = Next1(p, "decrement", y.ready, p.at)
      BY <1>2, <1>6, <1>7, <2>1
    <2>3. Good([F EXCEPT ![c] = y.fr], Others(P, p) \cup {q}, With(E, p.tn))
      BY ONLY <2>2, LeaveOwn
    <2>4. p.at \in Paths /\ y.ready \in SUBSET TaggedNodes
      BY <1>6, <1>7 DEF Procs, Section, Accs
    <2>5. q.tn = p.tn /\ q.pc = "decrement"
      BY <1>2, <1>6, <2>4, NextFacts
    <2> QED
      BY <1>6, <1>8, <2>1, <2>3, <2>5
  <1>11. DOMAIN G = DOMAIN frames /\ G[c] = y.fr /\ \A g \in DOMAIN frames : g # c => G[g] = frames[g]
    BY <1>6, <1>8
  <1>12. InputsInv(G, executed, Entered(executed, Others(procs, p) \cup {q}))
    <2>1. /\ Entering(frames, procs, executed, p, n, c, K) /\ q.pc = "decrement" /\ q.tn = p.tn /\ DOMAIN G = DOMAIN frames
          /\ G[c].num_pending_inputs = frames[c].num_pending_inputs - 1 /\ \A g \in DOMAIN frames : g # c => G[g] = frames[g]
      BY <1>5, <1>7, <1>10, <1>11
    <2> QED
      BY ONLY <2>1, InputsAfter
  <1> QED
    BY <1>4, <1>9, <1>10, <1>12 DEF Inv

(* The parent frame of a frame is there, and so is the iteration that created it. *)
LEMMA ParentLive ==
  ASSUME NEW F, NEW P, NEW E, Good(F, P, E), NEW f \in DOMAIN F, f # Root,
         NEW g, g = ParentFrame(f), NEW i, i = ParentIter(f)
  PROVE  /\ g \in DOMAIN F /\ g \in Paths /\ F[g] \in FrameStates(g) /\ i \in Nat /\ Live(F[g], i) /\ ~IsFrameDone(F[g]) /\ g # f
         /\ \E n \in EntersOf(NameOf(f)) : FrameName[n] = NameOf(g)
  <1>1. g \in DOMAIN F /\ \E n \in EntersOf(NameOf(f)) : FrameName[n] = NameOf(g)
    BY DEF Good, ParentsInv
  <1>2. f \in Paths /\ g \in Paths /\ F[g] \in FrameStates(g)
    BY <1>1, TypesOf
  <1>3. i \in Nat /\ NameOf(f) \in Names /\ f = Child(g, i, NameOf(f))
    BY <1>2, PathFacts
  <1>4. g # f
    BY <1>2, <1>3, ChildFacts
  <1>5. PICK N, C, U, acc : /\ N = Outs(P, g) /\ C = Subs(DOMAIN F, P, g) /\ U = Used(E, P, g) /\ acc = Acc(F[g], {})
    OBVIOUS
  <1>6. Section(acc, g, N, C, U)
    BY <1>1, <1>5, TypesOf
  <1>7. C[i] # 0
    <2>1. PICK A, B : A = Kids(DOMAIN F, g, i) /\ B = Cleaners(P, g, i)
      OBVIOUS
    <2>2. f \in A /\ A \subseteq DOMAIN F /\ B \subseteq P
      BY <2>1 DEF Kids, Cleaners
    <2>3. IsFiniteSet(A) /\ IsFiniteSet(B)
      BY <2>2, FS_Subset DEF Good, TypesInv
    <2>4. Cardinality(A) \in Nat /\ Cardinality(A) # 0 /\ Cardinality(B) \in Nat
      BY <2>2, <2>3, FS_CardinalityType, FS_EmptySet
    <2>5. C[i] = Cardinality(A) + Cardinality(B)
      BY <1>3, <1>5, <2>1 DEF Subs
    <2> QED
      BY <2>4, <2>5
  <1>8. acc.fr = F[g]
    BY <1>5 DEF Acc
  <1>9. Live(F[g], i)
    BY <1>3, <1>6, <1>7, <1>8, CountedIsLive
  <1>10. ~IsFrameDone(F[g])
    BY <1>2, <1>3, <1>9, LiveNotDone
  <1> QED
    BY <1>1, <1>2, <1>3, <1>4, <1>9, <1>10

(* The edges of an Exit. *)
LEMMA FeedsExit ==
  ASSUME NEW f, NEW g, \E n \in EntersOf(NameOf(f)) : FrameName[n] = NameOf(g),
         NEW m \in NodesOf(NameOf(f)), Kind[m] = "exit"
  PROVE  Feeds(m, NameOf(g))
  <1>1. PICK n \in EntersOf(NameOf(f)) : FrameName[n] = NameOf(g)
    OBVIOUS
  <1>2. n \in Nodes /\ IsEnter(n) /\ ChildName[n] = NameOf(f)
    BY DEF EntersOf
  <1>3. ASSUME NEW e \in EdgeSet, e.src = m
        PROVE  e.slot # 1 /\ FrameName[e.dst] = NameOf(g)
    <2>1. FrameName[e.src] = NameOf(f) /\ Kind[e.src] = "exit"
      BY <1>3 DEF NodesOf
    <2>2. e.slot = 1 => Kind[e.src] = "switch"
      BY GraphAssumption
    <2>3. FrameName[e.dst] = FrameName[n]
      BY <1>2, <2>1, GraphAssumption
    <2> QED
      BY <1>1, <2>1, <2>2, <2>3
  <1> QED
    BY <1>3 DEF Feeds

(* A node with one output. *)
LEMMA FitsOne ==
  ASSUME NEW m, NEW g, Feeds(m, NameOf(g)), NEW o, o[0] \in BOOLEAN
  PROVE  Fits(m, g, o)
  <1>1. ASSUME NEW e \in EdgeSet, e.src = m
        PROVE  e.dst \in NodesOf(NameOf(g)) /\ (~IsControlEdge(e) => o[e.slot] \in BOOLEAN)
    BY <1>1, EdgeFacts DEF Feeds, NodesOf
  <1> QED
    BY <1>1 DEF Fits

(* A section that has nothing to do with the inputs of frames. *)
LEMMA SameInputs ==
  ASSUME NEW F, NEW P, NEW E, Inv(F, P, E), NEW p \in P, ~Pends(p), p.tn \in E \/ ~IsEnter(p.tn.node), NEW q, ~Pends(q),
         NEW F2, DOMAIN F2 = DOMAIN F, \A g \in DOMAIN F : F2[g].num_pending_inputs = F[g].num_pending_inputs,
         Good(F2, Others(P, p) \cup {q}, With(E, p.tn))
  PROVE  Inv(F2, Others(P, p) \cup {q}, With(E, p.tn))
  <1>1. PICK K, Q : K = Entered(E, P) /\ Q = {q}
    OBVIOUS
  <1>2. Good(F, P, E) /\ InputsInv(F, E, K)
    BY <1>1 DEF Inv
  <1>3. InputsInv(F2, With(E, p.tn), K)
    BY <1>2, InputsSame
  <1>4. Entered(With(E, p.tn), Others(P, p) \cup Q) = K
    BY <1>1, EnteredSame
  <1> QED
    BY <1>1, <1>3, <1>4 DEF Inv

(* PropagateLiveExit *)
LEMMA StepLiveExit ==
  ASSUME Inv(frames, procs, executed), NEW p \in procs, PropagateLiveExit(p)
  PROVE  Inv(frames, procs, executed)'
  <1>1. PICK F, P, E, f, g, n : /\ F = frames /\ P = procs /\ E = executed
                                /\ f = p.tn.frame /\ g = ParentFrame(f) /\ n = p.tn.node
    OBVIOUS
  <1>2. PICK acc, y, q, i : /\ i = ParentIter(f) /\ acc = Acc(F[g], {}) /\ y = ActivateNodes(acc, g, n, FALSE, i, Outputs(p.tn))
                            /\ q = Next1(p, "decrement", y.ready, p.at)
    OBVIOUS
  <1>3. p.pc = "process" /\ Kind[n] = "exit" /\ LeaveSection(p, g, y, "decrement") /\ executed' = With(E, p.tn)
    BY <1>1, <1>2 DEF PropagateLiveExit, Execute, With
  <1>19. q = Next1(p, "decrement", y.ready, p.at)
    BY <1>2
  <1>4. Inv(F, P, E) /\ Good(F, P, E) /\ p \in P /\ Owns(p) /\ ~Pends(p) /\ p.ready = {} /\ ~IsEnter(n) /\ p \in Procs
    BY <1>1, <1>3 DEF Inv, Good, Owns, Pends, ProcOk, IsEnter, TypesInv
  <1>5. p.tn \in TaggedNodes /\ f \in DOMAIN F
    BY <1>1, <1>4 DEF Procs, Good, ProcOk
  <1>6. f # Root /\ n \in NodesOf(NameOf(f))
    BY <1>1, <1>3, <1>5, ExitFrames
  <1>7. /\ g \in DOMAIN F /\ g \in Paths /\ i \in Nat /\ Live(F[g], i) /\ ~IsFrameDone(F[g]) /\ F[g] \in FrameStates(g)
        /\ \E m \in EntersOf(NameOf(f)) : FrameName[m] = NameOf(g)
    BY <1>1, <1>2, <1>4, <1>5, <1>6, ParentLive
  <1>8. PICK N, C, U, d, o : /\ N = Mine(P, p, g) /\ C = Subs(DOMAIN F, P, g) /\ U = UsedBy(E, P, p, g)
                             /\ d = FALSE /\ o = Outputs(p.tn)
    OBVIOUS
  <1>9. Section(acc, g, N, C, U) /\ N \in Tallies /\ C \in Tallies
    BY <1>2, <1>4, <1>7, <1>8, MineBegins
  <1>10. acc.fr = F[g] /\ acc.ready = {}
    BY <1>2 DEF Acc
  <1>11. Fits(n, g, o)
    <2>1. Feeds(n, NameOf(g))
      BY <1>3, <1>6, <1>7, FeedsExit
    <2>2. o[0] \in BOOLEAN
      BY <1>5, <1>8, OutputTypes
    <2> QED
      BY <2>1, <2>2, FitsOne
  <1>12. Section(y, g, N, C, U) /\ Within(acc, y, g) /\ y \in Accs(g)
    <2>1. /\ g \in Paths /\ N \in Tallies /\ C \in Tallies /\ Section(acc, g, N, C, U) /\ i \in Nat /\ Live(acc.fr, i)
          /\ d \in BOOLEAN /\ Fits(n, g, o) /\ y = ActivateNodes(acc, g, n, d, i, o)
      BY <1>2, <1>7, <1>8, <1>9, <1>10, <1>11
    <2> QED
      BY ONLY <2>1, ActivateNodesStep
  <1>13. (\A x \in y.ready : x.frame = g) /\ y.fr.num_pending_inputs = F[g].num_pending_inputs
    <2>1. acc \in Accs(g)
      BY <1>9 DEF Section
    <2> QED
      BY <1>10, <1>12, <2>1, WithinFields DEF Within
  <1>14. PICK G : G = [F EXCEPT ![g] = y.fr]
    OBVIOUS
  <1>15. Good(G, Others(P, p) \cup {q}, With(E, p.tn))
    <2>1. /\ Good(F, P, E) /\ p \in P /\ Owns(p) /\ p.ready = {} /\ g \in DOMAIN F /\ ~IsFrameDone(F[g])
          /\ Section(y, g, Mine(P, p, g), Subs(DOMAIN F, P, g), UsedBy(E, P, p, g)) /\ (\A x \in y.ready : x.frame = g)
          /\ q = Next1(p, "decrement", y.ready, p.at)
      BY <1>2, <1>4, <1>7, <1>8, <1>12, <1>13
    <2>2. Good([F EXCEPT ![g] = y.fr], Others(P, p) \cup {q}, With(E, p.tn))
      BY ONLY <2>1, LeaveOwn
    <2> QED
      BY <1>14, <2>2
  <1>16. ~Pends(q)
    <2>1. p.at \in Paths /\ y.ready \in SUBSET TaggedNodes
      BY <1>4, <1>12 DEF Procs, Accs
    <2>2. q.pc = "decrement"
      BY <1>4, <1>19, <2>1, NextFacts
    <2> QED
      BY <2>2 DEF Pends
  <1>17. Inv(G, Others(P, p) \cup {q}, With(E, p.tn))
    <2>1. DOMAIN G = DOMAIN F /\ \A h \in DOMAIN F : G[h].num_pending_inputs = F[h].num_pending_inputs
      BY <1>7, <1>13, <1>14
    <2>2. /\ Inv(F, P, E) /\ p \in P /\ ~Pends(p) /\ (p.tn \in E \/ ~IsEnter(p.tn.node)) /\ ~Pends(q)
          /\ DOMAIN G = DOMAIN F /\ (\A h \in DOMAIN F : G[h].num_pending_inputs = F[h].num_pending_inputs)
          /\ Good(G, Others(P, p) \cup {q}, With(E, p.tn))
      BY <1>1, <1>4, <1>15, <1>16, <2>1
    <2> QED
      BY ONLY <2>2, SameInputs
  <1>18. frames' = G /\ procs' = Others(P, p) \cup {q}
    BY <1>1, <1>3, <1>4, <1>14, <1>19, SectionMeans
  <1> QED
    BY <1>3, <1>17, <1>18

(* PropagateDeadExits *)
LEMMA StepDeadExits ==
  ASSUME Inv(frames, procs, executed), NEW p \in procs, PropagateDeadExits(p)
  PROVE  Inv(frames, procs, executed)'
  <1>1. PICK F, P, E, f, g, de : /\ F = frames /\ P = procs /\ E = executed
                                 /\ f = p.at /\ g = ParentFrame(f) /\ de = frames[f].dead_exits
    OBVIOUS
  <1>2. PICK acc, i, L : /\ i = ParentIter(f) /\ acc = Acc(F[g], p.ready) /\ L = [k \in DOMAIN de |-> Entry(de[k], FALSE)]
    OBVIOUS
  <1>3. PICK y : y = ActivateEntries(acc, g, i, L)
    OBVIOUS
  <1>4. PICK to, own : to = "erase" /\ own = FALSE
    OBVIOUS
  <1>5. PICK q : q = Next1(p, to, y.ready, p.at)
    OBVIOUS
  <1>6. p.pc = "delete" /\ f # Root /\ LeaveSection(p, g, y, to) /\ executed' = E
    BY <1>1, <1>2, <1>3, <1>4 DEF PropagateDeadExits
  <1>7. /\ Inv(F, P, E) /\ Good(F, P, E) /\ p \in P /\ ~Owns(p) /\ ~Pends(p) /\ Ends(p) /\ p \in Procs /\ p.tn \in E
        /\ f \in DOMAIN F
    BY <1>1, <1>6 DEF Inv, Good, Owns, Pends, Ends, ProcOk, TypesInv, OnceInv
  <1>8. /\ g \in DOMAIN F /\ g \in Paths /\ i \in Nat /\ Live(F[g], i) /\ ~IsFrameDone(F[g]) /\ F[g] \in FrameStates(g) /\ g # f
        /\ \E m \in EntersOf(NameOf(f)) : FrameName[m] = NameOf(g)
    BY <1>1, <1>2, <1>6, <1>7, ParentLive
  <1>9. PICK O, N, C, U : /\ O = Others(P, p) /\ N = Tally(O, g, own, p.tn)
                          /\ C = Subs(DOMAIN F, P, g) /\ U = Used(With(E, p.tn), O, g)
    OBVIOUS
  <1>10. Section(acc, g, N, C, U) /\ N \in Tallies /\ C \in Tallies
    <2>6. Owns(p) = FALSE
      BY <1>6 DEF Owns
    <2>1. Owns(p) = own
      BY ONLY <1>4, <2>6
    <2>2. Section(Acc(F[g], p.ready), g, Tally(Others(P, p), g, Owns(p), p.tn), C, Used(With(E, p.tn), Others(P, p), g))
      BY <1>7, <1>8, <1>9, SectionBegins
    <2>3. IsFiniteSet(O) /\ (\A r \in O : IsFiniteSet(r.ready)) /\ IsFiniteSet(DOMAIN F)
      BY <1>7, <1>9, FS_Subset DEF Good, TypesInv, Others
    <2>4. N \in Tallies
      BY <1>9, <2>3, TalliesTypes
    <2>5. C \in Tallies
      BY <1>7, <1>8, <1>9, TypesOf
    <2> QED
      BY <1>2, <1>9, <2>1, <2>2, <2>4, <2>5
  <1>11. acc.fr = F[g] /\ acc.ready = p.ready /\ acc \in Accs(g)
    <2>1. acc.fr = F[g] /\ acc.ready = p.ready
      BY <1>2 DEF Acc
    <2> QED
      BY <1>10, <2>1 DEF Section
  <1>12. L \in Seq(EntriesTo(NameOf(g)))
    <2>1. PICK T, X : T = {n \in NodesOf(NameOf(f)) : Kind[n] = "exit"} /\ X = EntriesTo(NameOf(g))
      OBVIOUS
    <2>2. F[f] \in FrameStates(f)
      BY <1>7, TypesOf
    <2>3. de \in Seq(T)
      BY <1>1, <2>1, <2>2 DEF FrameStates
    <2>4. \A m \in T : Entry(m, FALSE) \in X
      <3> SUFFICES ASSUME NEW m \in T
                   PROVE  Entry(m, FALSE) \in X
        OBVIOUS
      <3>1. m \in NodesOf(NameOf(f)) /\ Kind[m] = "exit" /\ m \in Nodes
        BY <2>1 DEF NodesOf
      <3>2. Feeds(m, NameOf(g))
        BY <1>8, <3>1, FeedsExit
      <3> QED
        BY <2>1, <3>1, <3>2 DEF Entry, EntriesTo
    <2>5. PICK n : n = Len(de)
      OBVIOUS
    <2>6. n \in Nat /\ DOMAIN de = 1 .. n /\ \A k \in 1 .. n : de[k] \in T
      BY <2>3, <2>5
    <2>7. DOMAIN L = 1 .. n /\ L = [k \in 1 .. n |-> L[k]]
      BY <1>2, <2>6
    <2>8. \A k \in 1 .. n : L[k] \in X
      BY <1>2, <2>4, <2>6
    <2>9. L \in [1 .. n -> X]
      BY ONLY <2>7, <2>8
    <2>10. L \in Seq(X)
      BY ONLY <2>6, <2>9, SeqDef
    <2> QED
      BY <2>1, <2>10
  <1>13. Section(y, g, N, C, U) /\ Within(acc, y, g) /\ y \in Accs(g)
    <2>1. /\ g \in Paths /\ N \in Tallies /\ C \in Tallies /\ Section(acc, g, N, C, U) /\ i \in Nat /\ Live(acc.fr, i)
          /\ L \in Seq(EntriesTo(NameOf(g))) /\ y = ActivateEntries(acc, g, i, L)
      BY <1>3, <1>8, <1>10, <1>11, <1>12
    <2> QED
      BY ONLY <2>1, ActivateEntriesStep
  <1>14. /\ p.ready \subseteq y.ready /\ (\A x \in y.ready : x \in p.ready \/ x.frame = g)
         /\ y.fr.num_pending_inputs = F[g].num_pending_inputs
    BY <1>11, <1>13, WithinFields DEF Within
  <1>15. Leaving(F, P, E, p, g, own, y, to)
    <2>1. own \in BOOLEAN /\ (own => Owns(p)) /\ (own <=> to # "erase") /\ to \in {"create", "enter", "decrement", "erase"}
      BY <1>4
    <2>2. (to = "erase" => Ends(p) /\ p.at # Root /\ p.at # g) /\ to \notin {"create", "enter"} /\ to # "enter"
      BY <1>1, <1>4, <1>6, <1>7, <1>8
    <2> QED
      BY <1>7, <1>8, <1>9, <1>13, <1>14, <2>1, <2>2 DEF Leaving
  <1>16. PICK G : G = [F EXCEPT ![g] = y.fr]
    OBVIOUS
  <1>17. Good(G, Others(P, p) \cup {q}, With(E, p.tn))
    <2>1. Good([F EXCEPT ![g] = y.fr], Others(P, p) \cup {q}, With(E, p.tn))
      BY ONLY <1>5, <1>15, LeaveStep
    <2> QED
      BY <1>16, <2>1
  <1>18. ~Pends(q)
    <2>1. p.at \in Paths /\ y.ready \in SUBSET TaggedNodes /\ to \in {"create", "enter", "decrement", "delete", "erase"}
      BY <1>4, <1>7, <1>13 DEF Procs, Accs
    <2>2. q.pc = to
      BY <1>5, <1>7, <2>1, NextFacts
    <2> QED
      BY <1>4, <2>2 DEF Pends
  <1>19. Inv(G, Others(P, p) \cup {q}, With(E, p.tn))
    <2>1. DOMAIN G = DOMAIN F /\ \A h \in DOMAIN F : G[h].num_pending_inputs = F[h].num_pending_inputs
      BY <1>8, <1>14, <1>16
    <2>2. /\ Inv(F, P, E) /\ p \in P /\ ~Pends(p) /\ (p.tn \in E \/ ~IsEnter(p.tn.node)) /\ ~Pends(q)
          /\ DOMAIN G = DOMAIN F /\ (\A h \in DOMAIN F : G[h].num_pending_inputs = F[h].num_pending_inputs)
          /\ Good(G, Others(P, p) \cup {q}, With(E, p.tn))
      BY <1>7, <1>17, <1>18, <2>1
    <2> QED
      BY ONLY <2>2, SameInputs
  <1>20. frames' = G /\ procs' = Others(P, p) \cup {q}
    BY <1>1, <1>5, <1>6, <1>7, <1>16, SectionMeans
  <1>21. With(E, p.tn) = E
    BY <1>7 DEF With
  <1> QED
    BY <1>6, <1>19, <1>20, <1>21

(* Moved, of what a section begins with. *)
LEMMA MovedAcc ==
  ASSUME NEW fr, NEW R, NEW v
  PROVE  Moved(Acc(fr, R), v) = Acc(v, R)
  <1>0. PICK u : u = FALSE
    OBVIOUS
  <1>1. Acc(fr, R) = [fr |-> fr, ready |-> R, is_done |-> u] /\ Acc(v, R) = [fr |-> v, ready |-> R, is_done |-> u]
    BY <1>0 DEF Acc
  <1>2. Moved(Acc(fr, R), v) = [[fr |-> fr, ready |-> R, is_done |-> u] EXCEPT !.fr = v]
    BY <1>1 DEF Moved
  <1>3. [[fr |-> fr, ready |-> R, is_done |-> u] EXCEPT !.fr = v] = [fr |-> v, ready |-> R, is_done |-> u]
    BY ONLY TRUE
  <1> QED
    BY <1>1, <1>2, <1>3

(* CleanupFramesIterations *)
LEMMA StepCleanup ==
  ASSUME Inv(frames, procs, executed), NEW p \in procs, CleanupFramesIterations(p)
  PROVE  Inv(frames, procs, executed)'
  <1>1. PICK F, P, E, f, i, m : /\ F = frames /\ P = procs /\ E = executed /\ f = p.at /\ i = p.at_iter /\ m = -1
    OBVIOUS
  <1>2. PICK acc, b : acc = Acc(F[f], p.ready) /\ b = Acc(AddToFrameCount(F[f], i, m), p.ready)
    OBVIOUS
  <1>3. PICK y : y = CleanupIterations(b, f, i)
    OBVIOUS
  <1>4. p.pc = "cleanup" /\ FinishSection(p, f, y) /\ executed' = E
    BY <1>1, <1>2, <1>3 DEF CleanupFramesIterations
  <1>5. /\ Inv(F, P, E) /\ Good(F, P, E) /\ p \in P /\ ~Owns(p) /\ ~Pends(p) /\ p \in Procs /\ p.tn \in E /\ f \in DOMAIN F
    BY <1>1, <1>4 DEF Inv, Good, Owns, Pends, ProcOk, TypesInv, OnceInv
  <1>6. i \in Nat /\ f \in Paths /\ F[f] \in FrameStates(f)
    BY <1>1, <1>5, TypesOf DEF Procs
  <1>22. PICK own : own = FALSE
    OBVIOUS
  <1>7. PICK O, N, C, U : /\ O = Others(P, p) /\ N = Tally(O, f, own, p.tn)
                          /\ C = Subs(DOMAIN F, P, f) /\ U = Used(With(E, p.tn), O, f)
    OBVIOUS
  <1>8. Section(acc, f, N, C, U) /\ N \in Tallies /\ C \in Tallies
    <2>6. Owns(p) = FALSE
      BY <1>4 DEF Owns
    <2>1. Owns(p) = own
      BY ONLY <1>22, <2>6
    <2>2. Section(Acc(F[f], p.ready), f, Tally(Others(P, p), f, Owns(p), p.tn), C, Used(With(E, p.tn), Others(P, p), f))
      BY <1>5, <1>7, SectionBegins
    <2>3. IsFiniteSet(O) /\ (\A r \in O : IsFiniteSet(r.ready)) /\ IsFiniteSet(DOMAIN F)
      BY <1>5, <1>7, FS_Subset DEF Good, TypesInv, Others
    <2>4. N \in Tallies
      BY <1>7, <2>3, TalliesTypes
    <2>5. C \in Tallies
      BY <1>5, <1>7, TypesOf
    <2> QED
      BY <1>2, <1>7, <2>1, <2>2, <2>4, <2>5
  <1>9. p \in Cleaners(P, f, i)
    BY <1>1, <1>4, <1>5 DEF Cleaners
  <1>10. C[i] # 0
    <2>1. PICK A, B : A = Kids(DOMAIN F, f, i) /\ B = Cleaners(P, f, i)
      OBVIOUS
    <2>2. A \subseteq DOMAIN F /\ B \subseteq P
      BY <2>1 DEF Kids, Cleaners
    <2>3. IsFiniteSet(A) /\ IsFiniteSet(B)
      BY <1>5, <2>2, FS_Subset DEF Good, TypesInv
    <2>4. Cardinality(A) \in Nat /\ Cardinality(B) # 0 /\ Cardinality(B) \in Nat
      BY <1>9, <2>1, <2>3, FS_CardinalityType, FS_EmptySet
    <2>5. C[i] = Cardinality(A) + Cardinality(B)
      BY <1>6, <1>7, <2>1 DEF Subs
    <2> QED
      BY <2>4, <2>5
  <1>11. acc.fr = F[f] /\ acc.ready = p.ready /\ ~acc.is_done
    BY <1>2 DEF Acc
  <1>12. Live(acc.fr, i)
    BY <1>6, <1>8, <1>10, CountedIsLive
  <1>13. ~IsFrameDone(F[f])
    BY <1>6, <1>11, <1>12, LiveNotDone
  <1>14. PICK D : D = OneLess(C, i)
    OBVIOUS
  <1>15. D \in Tallies /\ D[i] = C[i] - 1 /\ \A k \in Nat : k # i => D[k] = C[k]
    BY <1>6, <1>8, <1>10, <1>14, OneLessFacts
  <1>16. b = Moved(acc, AddToFrameCount(acc.fr, i, m))
    <2>1. PICK v, fr, R : v = AddToFrameCount(F[f], i, m) /\ fr = F[f] /\ R = p.ready
      OBVIOUS
    <2>2. acc = Acc(fr, R) /\ b = Acc(v, R)
      BY <1>2, <2>1
    <2>3. Moved(acc, v) = b
      BY <2>2, MovedAcc
    <2> QED
      BY <1>11, <2>1, <2>3
  <1>17. /\ Section(b, f, N, D, U) /\ b.ready = acc.ready /\ b.is_done = acc.is_done
         /\ b.fr.num_pending_inputs = acc.fr.num_pending_inputs /\ Live(b.fr, i)
    <2>1. m \in Int /\ D[i] = C[i] + m
      <3>1. C[i] \in Nat
        BY <1>6, <1>8 DEF Tallies
      <3> QED
        BY <1>1, <1>15, <3>1
    <2>2. /\ f \in Paths /\ N \in Tallies /\ C \in Tallies /\ Section(acc, f, N, C, U) /\ i \in Nat /\ Live(acc.fr, i)
          /\ m \in Int /\ D \in Tallies /\ D[i] = C[i] + m /\ (\A k \in Nat : k # i => D[k] = C[k])
          /\ b = Moved(acc, AddToFrameCount(acc.fr, i, m))
      BY <1>6, <1>8, <1>12, <1>15, <1>16, <2>1
    <2> QED
      BY ONLY <2>2, FrameCountStep
  <1>18. Section(y, f, N, D, U) /\ Grown(b, y, f) /\ (y.is_done => IsFrameDone(y.fr))
    <2>1. /\ f \in Paths /\ N \in Tallies /\ D \in Tallies /\ Section(b, f, N, D, U) /\ i \in Nat /\ Live(b.fr, i)
          /\ y = CleanupIterations(b, f, i)
      BY <1>3, <1>6, <1>8, <1>15, <1>17
    <2> QED
      BY ONLY <2>1, CleanupStep
  <1>19. Finishing(F, P, E, p, f, D, y)
    <2>1. \A k \in Nat : C[k] <= D[k] \/ (p \in Cleaners(P, f, k) /\ C[k] - 1 <= D[k])
      <3>1. \A k \in Nat : C[k] \in Nat /\ (k # i => D[k] = C[k])
        BY <1>8, <1>15 DEF Tallies
      <3>2. D[i] = C[i] - 1 /\ p \in Cleaners(P, f, i) /\ i \in Nat
        BY <1>6, <1>9, <1>15
      <3>3. ASSUME NEW k \in Nat
            PROVE  C[k] <= D[k] \/ (p \in Cleaners(P, f, k) /\ C[k] - 1 <= D[k])
        <4>1. CASE k = i
          BY ONLY <3>1, <3>2, <4>1
        <4>2. CASE k # i
          BY ONLY <3>1, <3>3, <4>2
        <4> QED
          BY <4>1, <4>2
      <3> QED
        BY <3>3
    <2>2. /\ y.fr.num_pending_inputs = F[f].num_pending_inputs
          /\ p.ready \subseteq y.ready /\ (\A x \in y.ready : x \in p.ready \/ x.frame = f)
      BY <1>11, <1>17, <1>18 DEF Grown
    <2>3. Section(y, f, Tally(Others(P, p), f, FALSE, p.tn), D, Used(With(E, p.tn), Others(P, p), f))
      BY <1>7, <1>18, <1>22
    <2>4. /\ Inv(F, P, E) /\ p \in P /\ f \in DOMAIN F /\ ~IsFrameDone(F[f]) /\ D \in Tallies /\ ~Pends(p) /\ p.tn \in E
          /\ (y.is_done => IsFrameDone(y.fr)) /\ C = Subs(DOMAIN F, P, f)
      BY <1>5, <1>7, <1>13, <1>15, <1>18
    <2> QED
      BY ONLY <2>1, <2>2, <2>3, <2>4 DEF Finishing
  <1>20. Inv([F EXCEPT ![f] = y.fr], Finished(Others(P, p), p, f, y), With(E, p.tn))
    BY ONLY <1>19, FinishStep
  <1>21. With(E, p.tn) = E
    BY <1>5 DEF With
  <1> QED
    BY <1>1, <1>4, <1>5, <1>20, <1>21, SectionMeans

(* Nothing refers to a frame that is done. *)
LEMMA DoneEmpty ==
  ASSUME NEW F, NEW P, NEW E, Good(F, P, E), NEW f \in DOMAIN F, IsFrameDone(F[f])
  PROVE  /\ \A h \in Holds(P) : h[3].frame # f
         /\ \A g \in DOMAIN F \ {Root} : ParentFrame(g) # f
         /\ \A r \in P : r.pc = "cleanup" => r.at # f
  <1>1. PICK N, C, U, acc, D : N = Outs(P, f) /\ C = Subs(DOMAIN F, P, f) /\ U = Used(E, P, f) /\ acc = Acc(F[f], {}) /\ D = DOMAIN F
    OBVIOUS
  <1>2. Section(acc, f, N, C, U) /\ F[f] \in FrameStates(f)
    BY <1>1, TypesOf
  <1>3. acc.fr = F[f]
    BY <1>1 DEF Acc
  <1>4. \A i \in Nat : ~Live(F[f], i)
    BY <1>2, LiveNotDone
  <1>5. \A i \in Nat : N[i] = 0 /\ C[i] = 0
    BY <1>2, <1>3, <1>4 DEF Section, Tallied
  <1>6. IsFiniteSet(P) /\ (\A r \in P : IsFiniteSet(r.ready)) /\ IsFiniteSet(D) /\ P \subseteq Procs /\ D \subseteq Paths
    BY <1>1 DEF Good, TypesInv
  <1>7. ASSUME NEW i \in Nat
        PROVE  Held(P, f, i) = {} /\ Kids(D, f, i) = {} /\ Cleaners(P, f, i) = {}
    <2>1. PICK H, A, B : H = Held(P, f, i) /\ A = Kids(D, f, i) /\ B = Cleaners(P, f, i)
      OBVIOUS
    <2>2. IsFiniteSet(H)
      BY <1>6, <2>1, HoldsFinite
    <2>3. IsFiniteSet(A) /\ IsFiniteSet(B)
      <3>1. A \subseteq D /\ B \subseteq P
        BY <2>1 DEF Kids, Cleaners
      <3> QED
        BY <1>6, <3>1, FS_Subset
    <2>4. Cardinality(A) \in Nat /\ Cardinality(B) \in Nat
      BY <2>3, FS_CardinalityType
    <2>5. N[i] = Cardinality(H) /\ C[i] = Cardinality(A) + Cardinality(B)
      BY <1>1, <2>1 DEF Outs, Subs
    <2>6. Cardinality(H) = 0 /\ Cardinality(A) = 0 /\ Cardinality(B) = 0
      BY <1>5, <2>4, <2>5
    <2>7. H = {} /\ A = {} /\ B = {}
      BY <2>2, <2>3, <2>6, FS_EmptySet
    <2> QED
      BY <2>1, <2>7
  <1>8. ASSUME NEW h \in Holds(P), h[3].frame = f
        PROVE  FALSE
    <2>1. PICK r \in P : h[3] = r.tn \/ h[3] \in r.ready
      BY DEF Holds
    <2>2. h[3] \in TaggedNodes
      BY <1>6, <2>1 DEF Procs
    <2>3. h[3].iter \in Nat
      BY <2>2 DEF TaggedNodes
    <2>4. h \in Held(P, f, h[3].iter)
      BY <1>8 DEF Held, At
    <2> QED
      BY <1>7, <2>3, <2>4
  <1>9. ASSUME NEW g \in D, g # Root, ParentFrame(g) = f
        PROVE  FALSE
    <2>1. ParentIter(g) \in Nat
      BY <1>6, <1>9, PathFacts
    <2>2. g \in Kids(D, f, ParentIter(g))
      BY <1>9 DEF Kids
    <2> QED
      BY <1>7, <2>1, <2>2
  <1>10. ASSUME NEW r \in P, r.pc = "cleanup", r.at = f
         PROVE  FALSE
    <2>1. r.at_iter \in Nat
      BY <1>6 DEF Procs
    <2>2. r \in Cleaners(P, f, r.at_iter)
      BY <1>10 DEF Cleaners
    <2> QED
      BY <1>7, <2>1, <2>2
  <1> QED
    BY <1>1, <1>8, <1>9, <1>10

(* Frame f is erased, and its thread goes on with Q. *)
Follows(Q, f) ==
  \A q \in Q : q.pc = "cleanup" => Q = {q} /\ f # Root /\ q.at = ParentFrame(f) /\ q.at_iter = ParentIter(f)

(* The iteration of the parent waits for one frame less, or for the thread. *)
LEMMA SubsErase ==
  ASSUME NEW D, IsFiniteSet(D), NEW P, IsFiniteSet(P), NEW p, NEW f \in D, NEW Q, Follows(Q, f), NEW g, NEW k \in Nat
  PROVE  Subs(D \ {f}, Others(P, p) \cup Q, g)[k] <= Subs(D, P, g)[k]
  <1>1. PICK A, B, X, Y : /\ A = Kids(D, g, k) /\ B = Kids(D \ {f}, g, k)
                          /\ X = Cleaners(P, g, k) /\ Y = Cleaners(Others(P, p) \cup Q, g, k)
    OBVIOUS
  <1>2. IsFiniteSet(A) /\ IsFiniteSet(X) /\ B \subseteq A
    <2>1. A \subseteq D /\ X \subseteq P /\ B \subseteq A
      BY <1>1 DEF Kids, Cleaners
    <2> QED
      BY <2>1, FS_Subset
  <1>3. IsFiniteSet(B) /\ Cardinality(A) \in Nat /\ Cardinality(X) \in Nat /\ Cardinality(B) \in Nat /\ Cardinality(B) <= Cardinality(A)
    BY <1>2, FS_Subset, FS_CardinalityType
  <1>4. PICK a, b, x, y, u, v : /\ a = Cardinality(A) /\ b = Cardinality(B) /\ x = Cardinality(X) /\ y = Cardinality(Y)
                                /\ u = Subs(D, P, g)[k] /\ v = Subs(D \ {f}, Others(P, p) \cup Q, g)[k]
    OBVIOUS
  <1>5. u = a + x /\ v = b + y
    BY <1>1, <1>4 DEF Subs
  <1>6. CASE \E q \in Q : q.pc = "cleanup" /\ q.at = g /\ q.at_iter = k
    <2>1. PICK q \in Q : q.pc = "cleanup" /\ q.at = g /\ q.at_iter = k
      BY <1>6
    <2>2. Q = {q} /\ f # Root /\ g = ParentFrame(f) /\ k = ParentIter(f)
      BY <2>1 DEF Follows
    <2>3. f \in A /\ B = A \ {f}
      BY <1>1, <2>2 DEF Kids
    <2>4. Cardinality(B) = Cardinality(A) - 1
      BY <1>2, <2>3, FS_RemoveElement
    <2>5. PICK Z : Z = X \cup {q}
      OBVIOUS
    <2>6. Y \subseteq Z
      BY <1>1, <2>2, <2>5 DEF Cleaners, Others
    <2>7. IsFiniteSet(Z) /\ (Cardinality(Z) = Cardinality(X) \/ Cardinality(Z) = Cardinality(X) + 1)
      BY <1>2, <2>5, FS_AddElement
    <2>8. Cardinality(Y) \in Nat /\ Cardinality(Y) <= Cardinality(Z)
      BY <2>6, <2>7, FS_Subset, FS_CardinalityType
    <2>9. PICK z : z = Cardinality(Z)
      OBVIOUS
    <2>10. /\ b = a - 1 /\ a \in Nat /\ x \in Nat /\ y \in Nat /\ y <= z /\ (z = x \/ z = x + 1)
      BY <1>3, <1>4, <2>4, <2>7, <2>8, <2>9
    <2>11. v <= u
      BY ONLY <1>5, <2>10
    <2> QED
      BY <1>4, <2>11
  <1>7. CASE ~\E q \in Q : q.pc = "cleanup" /\ q.at = g /\ q.at_iter = k
    <2>1. Y \subseteq X
      BY <1>1, <1>7 DEF Cleaners, Others
    <2>2. Cardinality(Y) \in Nat /\ Cardinality(Y) <= Cardinality(X)
      BY <1>2, <2>1, FS_Subset, FS_CardinalityType
    <2>3. a \in Nat /\ b \in Nat /\ x \in Nat /\ y \in Nat /\ b <= a /\ y <= x
      BY <1>3, <1>4, <2>2
    <2>4. v <= u
      BY ONLY <1>5, <2>3
    <2> QED
      BY <1>4, <2>4
  <1> QED
    BY <1>6, <1>7

(* EraseFrame, *)
Erasing(F, P, E, p, f, Q, F2) ==
  /\ Inv(F, P, E) /\ p \in P /\ Ends(p) /\ f = p.at
  /\ DOMAIN F2 = DOMAIN F \ {f} /\ \A g \in DOMAIN F2 : F2[g] = F[g]
  /\ Q \subseteq Procs /\ Carries(Q, p, p.ready, FALSE) /\ Follows(Q, f)
  /\ \A q \in Q : /\ q.pc \in {"process", "cleanup"} /\ q.ready \subseteq p.ready
                  /\ q.pc = "process" => q.tn \in p.ready /\ q.ready = {}

(* which leaves no reference to the frame, *)
LEMMA EraseProcs ==
  ASSUME NEW F, NEW P, NEW E, NEW p, NEW f, NEW Q, NEW F2, Erasing(F, P, E, p, f, Q, F2), NEW r \in Others(P, p) \cup Q
  PROVE  ProcOk(F2, r) /\ (r \in Q => ~Ends(r) /\ ~Pends(r))
  <1>1. /\ Inv(F, P, E) /\ Good(F, P, E) /\ p \in P /\ Ends(p) /\ f = p.at /\ ProcOk(F, p) /\ EndsInv(P)
    BY DEF Erasing, Inv, Good
  <1>2. /\ DOMAIN F2 = DOMAIN F \ {f} /\ (\A g \in DOMAIN F2 : F2[g] = F[g]) /\ Follows(Q, f)
        /\ \A q \in Q : /\ q.pc \in {"process", "cleanup"} /\ q.ready \subseteq p.ready
                        /\ q.pc = "process" => q.tn \in p.ready /\ q.ready = {}
    BY DEF Erasing
  <1>3. f \in DOMAIN F /\ IsFrameDone(F[f])
    BY <1>1 DEF ProcOk
  <1>4. /\ \A h \in Holds(P) : h[3].frame # f
        /\ \A g \in DOMAIN F \ {Root} : ParentFrame(g) # f
        /\ \A s \in P : s.pc = "cleanup" => s.at # f
    BY <1>1, <1>3, DoneEmpty
  <1>5. \A s \in P : (\A x \in s.ready : x.frame # f) /\ (Owns(s) => s.tn.frame # f)
    <2> SUFFICES ASSUME NEW s \in P
                 PROVE  (\A x \in s.ready : x.frame # f) /\ (Owns(s) => s.tn.frame # f)
      OBVIOUS
    <2>1. ASSUME NEW x \in s.ready
          PROVE  x.frame # f
      <3>1. PICK h : h = <<s, 1, x>>
        OBVIOUS
      <3>2. h \in Holds(P) /\ h[3] = x
        BY <2>1, <3>1, HoldsFacts
      <3> QED
        BY <1>4, <3>2
    <2>2. ASSUME Owns(s)
          PROVE  s.tn.frame # f
      <3>1. PICK h : h = <<s, 0, s.tn>>
        OBVIOUS
      <3>2. h \in Holds(P) /\ h[3] = s.tn
        BY <2>2, <3>1, HoldsFacts
      <3> QED
        BY <1>4, <3>2
    <2> QED
      BY <2>1, <2>2
  <1>6. \A x \in p.ready : x.frame \in DOMAIN F2
    BY <1>1, <1>2, <1>5 DEF ProcOk
  <1>7. CASE r \in Q
    <2>1. ~Ends(r) /\ ~Pends(r) /\ r.pc # "erase" /\ r.pc # "enter" /\ r.pc # "create"
      BY <1>2, <1>7 DEF Ends, Pends
    <2>2. (\A x \in r.ready : x.frame \in DOMAIN F2) /\ (r.pc = "process" => r.ready = {} /\ r.tn.frame \in DOMAIN F2)
      BY <1>2, <1>6, <1>7
    <2>3. Owns(r) => r.pc = "process"
      BY <1>2, <1>7 DEF Owns
    <2>4. r.pc = "cleanup" => r.at \in DOMAIN F2
      <3> SUFFICES ASSUME r.pc = "cleanup"
                   PROVE  r.at \in DOMAIN F2
        OBVIOUS
      <3>1. f # Root /\ r.at = ParentFrame(f)
        BY <1>2, <1>7 DEF Follows
      <3>2. r.at \in DOMAIN F /\ r.at # f
        BY <1>1, <1>3, <3>1, ParentLive
      <3> QED
        BY <1>2, <3>2
    <2> QED
      BY <1>7, <2>1, <2>2, <2>3, <2>4 DEF ProcOk
  <1>8. CASE r \notin Q
    <2>1. r \in P /\ r # p
      BY <1>8 DEF Others
    <2>2. ProcOk(F, r)
      BY <1>1, <2>1 DEF Good
    <2>3. (\A x \in r.ready : x.frame \in DOMAIN F2) /\ (Owns(r) => r.tn.frame \in DOMAIN F2)
      BY <1>2, <1>5, <2>1, <2>2 DEF ProcOk
    <2>4. r.pc = "enter" => ChildOf(Key(r.tn)) \in DOMAIN F2
      <3> SUFFICES ASSUME r.pc = "enter"
                   PROVE  ChildOf(Key(r.tn)) \in DOMAIN F2
        OBVIOUS
      <3>1. PICK n, c, K : n = r.tn.node /\ c = ChildOf(Key(r.tn)) /\ K = Entered(E, P)
        OBVIOUS
      <3>2. Entering(F, P, E, r, n, c, K)
        BY <1>1, <2>1, <3>1 DEF Entering
      <3>3. c \in DOMAIN F /\ ~IsFrameDone(F[c])
        BY <3>2, EnterFacts
      <3> QED
        BY <1>2, <1>3, <3>1, <3>3
    <2>5. Ends(r) => r.at \in DOMAIN F2 /\ IsFrameDone(F2[r.at])
      BY <1>1, <1>2, <2>1, <2>2 DEF ProcOk, EndsInv
    <2>6. r.pc = "cleanup" => r.at \in DOMAIN F2
      BY <1>2, <1>4, <2>1, <2>2 DEF ProcOk
    <2> QED
      BY <1>8, <2>2, <2>3, <2>4, <2>5, <2>6 DEF ProcOk
  <1> QED
    BY <1>7, <1>8

(* leaves the others as they are, *)
LEMMA EraseOthers ==
  ASSUME NEW F, NEW P, NEW E, NEW p, NEW f, NEW Q, NEW F2, Erasing(F, P, E, p, f, Q, F2), NEW g \in DOMAIN F2
  PROVE  Section(Acc(F2[g], {}), g, Outs(Others(P, p) \cup Q, g), Subs(DOMAIN F2, Others(P, p) \cup Q, g), Used(E, Others(P, p) \cup Q, g))
  <1>1. PICK O, P2, R, u, acc, C, D : /\ O = Others(P, p) /\ P2 = O \cup Q /\ R = p.ready /\ u = FALSE
                                      /\ acc = Acc(F[g], p.ready) /\ C = Subs(DOMAIN F, P, g) /\ D = Subs(DOMAIN F2, P2, g)
    OBVIOUS
  <1>2. /\ Good(F, P, E) /\ p \in P /\ Ends(p) /\ f = p.at /\ ProcOk(F, p) /\ p.tn \in E
    BY DEF Erasing, Inv, Good, OnceInv, Ends
  <1>3. /\ DOMAIN F2 = DOMAIN F \ {f} /\ F2[g] = F[g] /\ Follows(Q, f) /\ g \in DOMAIN F
    BY DEF Erasing
  <1>4. Carries(Q, p, R, u)
    BY <1>1 DEF Erasing
  <1>5. f \in DOMAIN F /\ With(E, p.tn) = E
    BY <1>2 DEF ProcOk, With
  <1>6. /\ IsFiniteSet(P) /\ (\A r \in P : IsFiniteSet(r.ready)) /\ IsFiniteSet(DOMAIN F) /\ IsFiniteSet(DOMAIN F2) /\ g \in Paths
    <2>1. IsFiniteSet(P) /\ (\A r \in P : IsFiniteSet(r.ready)) /\ IsFiniteSet(DOMAIN F) /\ g \in Paths
      BY <1>2, <1>3 DEF Good, TypesInv
    <2> QED
      BY <1>3, <2>1, FS_Subset
  <1>7. IsFiniteSet(O) /\ (\A r \in O : IsFiniteSet(r.ready)) /\ IsFiniteSet(R)
    BY <1>1, <1>2, <1>6, FS_Subset DEF Others
  <1>8. IsFiniteSet(P2) /\ \A r \in P2 : IsFiniteSet(r.ready)
    <2>1. IsFiniteSet(Q) /\ \A r \in Q : IsFiniteSet(r.ready)
      BY <1>4 DEF Carries
    <2> QED
      BY <1>1, <1>7, <2>1, FS_Union
  <1>9. C \in Tallies /\ D \in Tallies
    BY <1>1, <1>6, <1>8, TalliesTypes
  <1>10. \A k \in Nat : D[k] <= C[k]
    BY <1>1, <1>3, <1>5, <1>6, SubsErase
  <1>11. Section(acc, g, Tally(O, g, u, p.tn), C, Used(E, O, g))
    <2>1. Owns(p) = FALSE
      BY <1>2 DEF Owns, Ends
    <2>2. u = FALSE
      BY <1>1
    <2>3. Owns(p) = u
      BY ONLY <2>1, <2>2
    <2>4. Section(Acc(F[g], p.ready), g, Tally(Others(P, p), g, Owns(p), p.tn), C, Used(With(E, p.tn), Others(P, p), g))
      BY <1>1, <1>2, <1>3, SectionBegins
    <2> QED
      BY <1>1, <1>5, <2>3, <2>4
  <1>12. acc.fr = F2[g] /\ acc.ready = R
    BY <1>1, <1>3 DEF Acc
  <1>15. u \in BOOLEAN
    BY <1>1
  <1>13. /\ g \in Paths /\ IsFiniteSet(O) /\ (\A r \in O : IsFiniteSet(r.ready)) /\ p.tn \in E /\ u \in BOOLEAN /\ (u => u)
         /\ C \in Tallies /\ Section(acc, g, Tally(O, g, u, p.tn), C, Used(E, O, g)) /\ IsFiniteSet(R) /\ Carries(Q, p, R, u)
         /\ (\A x \in R : x.frame = g => x \in acc.ready) /\ D \in Tallies /\ (\A k \in Nat : D[k] <= C[k])
    BY <1>2, <1>4, <1>6, <1>7, <1>9, <1>10, <1>11, <1>12, <1>15
  <1>14. Section(Acc(acc.fr, {}), g, Outs(O \cup Q, g), D, Used(E, O \cup Q, g))
    BY ONLY <1>13, FrameAfter
  <1> QED
    BY <1>1, <1>12, <1>14

(* and keeps the invariant. *)
LEMMA EraseStep ==
  ASSUME NEW F, NEW P, NEW E, NEW p, NEW f, NEW Q, NEW F2, Erasing(F, P, E, p, f, Q, F2)
  PROVE  Inv(F2, Others(P, p) \cup Q, E)
  <1>1. PICK O, P2, K : O = Others(P, p) /\ P2 = O \cup Q /\ K = Entered(E, P)
    OBVIOUS
  <1>2. /\ Good(F, P, E) /\ InputsInv(F, E, K) /\ p \in P /\ Ends(p) /\ f = p.at /\ ProcOk(F, p) /\ p.tn \in E /\ ~Pends(p)
    BY <1>1 DEF Erasing, Inv, Good, OnceInv, Ends, Pends
  <1>3. /\ DOMAIN F2 = DOMAIN F \ {f} /\ (\A g \in DOMAIN F2 : F2[g] = F[g]) /\ Follows(Q, f) /\ Q \subseteq Procs
    BY DEF Erasing
  <1>4. f \in DOMAIN F /\ IsFrameDone(F[f]) /\ With(E, p.tn) = E
    BY <1>2 DEF ProcOk, With
  <1>5. \A g \in DOMAIN F \ {Root} : ParentFrame(g) # f
    BY <1>2, <1>4, DoneEmpty
  <1>6. \A r \in P2 : ProcOk(F2, r) /\ (r \in Q => ~Ends(r) /\ ~Pends(r))
    BY <1>1, EraseProcs
  <1>7. TypesInv(F2, P2, E)
    <2>1. IsFiniteSet(P) /\ (\A r \in P : IsFiniteSet(r.ready)) /\ P \subseteq Procs /\ E \subseteq TaggedNodes
          /\ IsFiniteSet(DOMAIN F) /\ DOMAIN F \subseteq Paths
      BY <1>2 DEF Good, TypesInv
    <2>2. IsFiniteSet(O) /\ (\A r \in O : IsFiniteSet(r.ready)) /\ O \subseteq Procs
      BY <1>1, <2>1, FS_Subset DEF Others
    <2>3. IsFiniteSet(Q) /\ \A r \in Q : IsFiniteSet(r.ready)
      BY DEF Erasing, Carries
    <2>4. IsFiniteSet(P2) /\ (\A r \in P2 : IsFiniteSet(r.ready)) /\ P2 \subseteq Procs
      BY <1>1, <1>3, <2>2, <2>3, FS_Union
    <2>5. IsFiniteSet(DOMAIN F2) /\ DOMAIN F2 \subseteq Paths
      BY <1>3, <2>1, FS_Subset
    <2> QED
      BY <2>1, <2>4, <2>5 DEF TypesInv
  <1>8. ParentsInv(DOMAIN F2)
    <2>1. ParentsInv(DOMAIN F)
      BY <1>2 DEF Good
    <2> QED
      BY <1>3, <1>5, <2>1 DEF ParentsInv
  <1>9. FramesInv(F2, P2, E)
    BY <1>1, EraseOthers DEF FramesInv
  <1>10. OnceInv(P2, E)
    <2>1. PICK u, R, E1 : u = FALSE /\ R = p.ready /\ E1 = E
      OBVIOUS
    <2>2. Carries(Q, p, R, u)
      BY <2>1 DEF Erasing
    <2>3. Clear(R, E1, O)
      BY <1>1, <1>2, <1>4, <2>1, ReadyClear
    <2>6. u \in BOOLEAN /\ (u => Owns(p))
      BY <2>1
    <2>4. /\ Good(F, P, E) /\ p \in P /\ u \in BOOLEAN /\ (u => Owns(p)) /\ E1 = With(E, p.tn) /\ O = Others(P, p)
          /\ Clear(R, E1, O) /\ Carries(Q, p, R, u)
      BY <1>1, <1>2, <1>4, <2>1, <2>2, <2>3, <2>6
    <2>5. OnceInv(O \cup Q, E1)
      BY ONLY <2>4, OnceAfter
    <2> QED
      BY <1>1, <2>1, <2>5
  <1>11. EndsInv(P2)
    <2>1. EndsInv(P)
      BY <1>2 DEF Good
    <2> QED
      BY <1>1, <1>6, <2>1 DEF EndsInv, Others
  <1>12. Entered(E, P2) = K
    <2>1. p \in P /\ ~Pends(p) /\ (p.tn \in E \/ ~IsEnter(p.tn.node)) /\ \A q \in Q : ~Pends(q)
      BY <1>1, <1>2, <1>6
    <2>2. Entered(With(E, p.tn), Others(P, p) \cup Q) = Entered(E, P)
      BY ONLY <2>1, EnteredSame
    <2> QED
      BY <1>1, <1>4, <2>2
  <1>13. InputsInv(F2, E, K)
    <2>1. f # Root => Awaited(K, f) = {}
      <3>1. SUFFICES ASSUME f # Root
                     PROVE  Awaited(K, f) = {}
        OBVIOUS
      <3>2. Cardinality(Awaited(K, f)) = 0
        BY <1>2, <1>4, <3>1 DEF InputsInv, IsFrameDone
      <3>3. Awaited(K, f) \subseteq Nodes
        BY DEF Awaited, EntersOf
      <3>4. IsFiniteSet(Awaited(K, f))
        BY <3>3, GraphAssumption, FS_Subset
      <3> QED
        BY <3>2, <3>4, FS_EmptySet
    <2>2. \A k \in K : ChildOf(k) # Root
      <3> SUFFICES ASSUME NEW k \in K
                   PROVE  ChildOf(k) # Root
        OBVIOUS
      <3>1. PICK x \in E : IsEnter(x.node) /\ Key(x) = k
        BY <1>1, EnteredFacts
      <3>2. x \in TaggedNodes
        BY <1>2 DEF Good, TypesInv
      <3>3. x.node \in Nodes /\ x.frame \in Paths /\ x.iter \in Nat
        BY <3>2 DEF TaggedNodes
      <3>4. ChildOf(k) = Child(x.frame, x.iter, ChildName[x.node])
        BY <3>1 DEF ChildOf, Key
      <3>5. ChildName[x.node] \in Names
        BY <3>1, <3>3 DEF Names
      <3> QED
        BY <3>3, <3>4, <3>5, ChildFacts
    <2>3. \A g \in DOMAIN F2 \ {Root} : F2[g].num_pending_inputs = Cardinality(Awaited(K, g))
      BY <1>2, <1>3 DEF InputsInv
    <2>4. \A x \in E : x.frame \in DOMAIN F2 \/ x.frame = Root \/ Awaited(K, x.frame) = {}
      BY <1>2, <1>3, <2>1 DEF InputsInv
    <2>5. \A k \in K : ChildOf(k) \in DOMAIN F2 \/ Awaited(K, ChildOf(k)) = {}
      BY <1>2, <1>3, <2>1, <2>2 DEF InputsInv
    <2> QED
      BY <2>3, <2>4, <2>5 DEF InputsInv
  <1> QED
    BY <1>1, <1>6, <1>7, <1>8, <1>9, <1>10, <1>11, <1>12, <1>13 DEF Inv, Good

(* EraseFrame *)
LEMMA StepErase ==
  ASSUME Inv(frames, procs, executed), NEW p \in procs, EraseFrame(p)
  PROVE  Inv(frames, procs, executed)'
  <1>1. PICK F, P, E, f, F2, R : /\ F = frames /\ P = procs /\ E = executed /\ f = p.at /\ R = p.ready
                                 /\ F2 = [g \in DOMAIN frames \ {f} |-> frames[g]]
    OBVIOUS
  <1>2. Ends(p) /\ frames' = F2 /\ executed' = E
    BY <1>1 DEF EraseFrame, Ends
  <1>3. /\ Inv(F, P, E) /\ Good(F, P, E) /\ p \in P /\ p \in Procs /\ f \in DOMAIN F /\ R \in SUBSET TaggedNodes /\ IsFiniteSet(R)
    BY <1>1, <1>2 DEF Inv, Good, TypesInv, ProcOk, Procs
  <1>4. DOMAIN F2 = DOMAIN F \ {f} /\ \A g \in DOMAIN F2 : F2[g] = F[g]
    BY <1>1
  <1>5. ASSUME NEW Q, Q \subseteq Procs, Carries(Q, p, p.ready, FALSE), Follows(Q, f),
               \A q \in Q : /\ q.pc \in {"process", "cleanup"} /\ q.ready \subseteq p.ready
                            /\ q.pc = "process" => q.tn \in p.ready /\ q.ready = {}
        PROVE  Inv(F2, Others(P, p) \cup Q, E)
    <2>1. Erasing(F, P, E, p, f, Q, F2)
      BY <1>1, <1>2, <1>3, <1>4, <1>5 DEF Erasing
    <2> QED
      BY ONLY <2>1, EraseStep
  <1>6. CASE f = Root
    <2>1. PICK Q : Q = {Proc(x) : x \in R}
      OBVIOUS
    <2>2. procs' = Others(P, p) \cup Q
      BY <1>1, <1>6, <2>1 DEF EraseFrame, NodeDone, Others
    <2>3. Carries(Q, p, R, FALSE)
      BY <1>3, <2>1, CarriesNew
    <2>4. ASSUME NEW q \in Q
          PROVE  q \in Procs /\ q.pc = "process" /\ q.ready = {} /\ q.tn \in R
      <3>1. PICK x \in R : q = Proc(x)
        BY <2>1
      <3> QED
        BY <1>3, <3>1, ProcFacts
    <2>5. Follows(Q, f)
      BY <2>4 DEF Follows
    <2> QED
      BY <1>1, <1>2, <1>5, <2>2, <2>3, <2>4, <2>5
  <1>7. CASE f # Root
    <2>1. PICK q, Q : q = [p EXCEPT !.pc = "cleanup", !.at = ParentFrame(f), !.at_iter = ParentIter(f)] /\ Q = {q}
      OBVIOUS
    <2>2. procs' = Others(P, p) \cup Q
      BY <1>1, <1>7, <2>1 DEF EraseFrame, Continue, Others
    <2>3. ParentFrame(f) \in Paths /\ ParentIter(f) \in Nat
      BY <1>3, <1>7, TypesOf, PathFacts
    <2>4. /\ q \in Procs /\ q.pc = "cleanup" /\ q.ready = R /\ q.tn = p.tn
          /\ q.at = ParentFrame(f) /\ q.at_iter = ParentIter(f)
      BY <1>1, <1>3, <2>1, <2>3 DEF Procs
    <2>5. Carries(Q, p, R, FALSE)
      <3>1. PICK u : u = FALSE
        OBVIOUS
      <3>2. IsFiniteSet(q.ready) /\ q.tn = p.tn /\ q.pc # "process" /\ u \in BOOLEAN /\ (u <=> Owns(q))
        BY <1>3, <2>4, <3>1 DEF Owns
      <3>3. Carries({q}, p, q.ready, u)
        BY ONLY <3>2, CarriesOne
      <3> QED
        BY <2>1, <2>4, <3>1, <3>3
    <2>6. Follows(Q, f)
      BY <1>7, <2>1, <2>4 DEF Follows
    <2> QED
      BY <1>1, <1>2, <1>5, <2>1, <2>2, <2>4, <2>5, <2>6
  <1> QED
    BY <1>6, <1>7

--------------------------------------------------------------------------------
(* The specification *)

(* RunAsync: the nodes that a step starts with. *)
LEMMA InitialReady ==
  ASSUME NEW R, R = {TaggedNode(n, Root, 0, FALSE) : n \in RootNodes}
  PROVE  /\ IsFiniteSet(R) /\ R \subseteq TaggedNodes /\ Cardinality(R) <= Cardinality(RootNodes)
         /\ Cardinality(R) \in Nat /\ Cardinality(RootNodes) \in Nat
         /\ \A x \in R : x.frame = Root /\ x.iter = 0 /\ x.node \in RootNodes
         /\ \A x, y \in R : x.node = y.node => x = y
  <1>1. IsFiniteSet(RootNodes)
    BY GraphAssumption, FS_Subset DEF RootNodes
  <1>2. PICK g : g = [n \in RootNodes |-> TaggedNode(n, Root, 0, FALSE)]
    OBVIOUS
  <1>3. R = {g[n] : n \in RootNodes}
    BY <1>2
  <1>4. IsFiniteSet(R) /\ Cardinality(R) <= Cardinality(RootNodes)
    BY <1>1, <1>3, ImageFinite
  <1>5. Cardinality(R) \in Nat /\ Cardinality(RootNodes) \in Nat
    BY <1>1, <1>4, FS_CardinalityType
  <1>6. ASSUME NEW n \in RootNodes, NEW x, x = TaggedNode(n, Root, 0, FALSE)
        PROVE  x \in TaggedNodes /\ x.frame = Root /\ x.iter = 0 /\ x.node = n
    <2>1. FrameName[n] = RootName /\ n \in Nodes
      BY GraphAssumption DEF RootNodes
    <2>2. Root \in Paths /\ NameOf(Root) = RootName
      BY DEF Paths, Root, NameOf
    <2>3. /\ x \in [node : Nodes, frame : Paths, iter : Nat, dead : BOOLEAN]
          /\ x.frame = Root /\ x.iter = 0 /\ x.node = n
      BY <1>6, <2>1, <2>2 DEF TaggedNode
    <2> QED
      BY <2>1, <2>2, <2>3 DEF TaggedNodes
  <1>7. ASSUME NEW x \in R
        PROVE  x \in TaggedNodes /\ x.frame = Root /\ x.iter = 0 /\ x.node \in RootNodes /\ x = g[x.node]
    <2>1. PICK n \in RootNodes : x = TaggedNode(n, Root, 0, FALSE)
      OBVIOUS
    <2>2. x \in TaggedNodes /\ x.frame = Root /\ x.iter = 0 /\ x.node = n
      BY ONLY <2>1, <1>6
    <2> QED
      BY <1>2, <2>1, <2>2
  <1>8. \A x, y \in R : x.node = y.node => x = y
    BY ONLY <1>7
  <1> QED
    BY ONLY <1>4, <1>5, <1>7, <1>8

(* The root frame as RunAsync leaves it. *)
RunAsyncFrame(c) == [NewFrame(RootName) EXCEPT !.iterations[0].outstanding_ops = c]

(* The frame that a step starts with. *)
LEMMA RootFrame ==
  ASSUME NEW c \in Nat, NEW v, v = RunAsyncFrame(c)
  PROVE  /\ Root \in Paths /\ v \in FrameStates(Root) /\ Window(v, Root) /\ \A i \in Nat : Live(v, i) <=> i = 0
         /\ 0 % Size(Root) = 0 /\ v.iteration_count = 0
         /\ v.iterations[0].outstanding_ops = c /\ v.iterations[0].outstanding_frame_count = 0
         /\ \A n \in RootNodes : Plain(n) => v.iterations[0].pending[n] = 0
  <1>1. PICK f, fr, s, t : /\ f = Root /\ fr = NewFrame(NameOf(f)) /\ s = NewIteration(NameOf(f), 0)
                           /\ t = [s EXCEPT !.outstanding_ops = c]
    OBVIOUS
  <1>2. f \in Paths /\ NameOf(f) = RootName
    BY <1>1 DEF Paths, Root, NameOf
  <1>3. /\ fr \in FrameStates(f) /\ Window(fr, f) /\ \A i \in Nat : Live(fr, i) <=> i = 0
        /\ fr.iterations[0] = s /\ s \in IterationStates(NameOf(f)) /\ 0 % Size(f) = 0
    BY <1>1, <1>2, NewFrameFacts
  <1>4. s.iter = 0 /\ s.outstanding_frame_count = 0
    BY <1>1, NewIterationFacts
  <1>5. /\ t \in IterationStates(NameOf(f)) /\ t.iter = 0 /\ t.outstanding_frame_count = 0
        /\ t.outstanding_ops = c /\ t.pending = s.pending
    BY <1>1, <1>3, <1>4 DEF IterationStates
  <1>6. v = Replaced(fr, 0, t)
    BY <1>1, <1>2, <1>3 DEF RunAsyncFrame, Replaced, FrameStates
  <1>7. PICK z : z = 0
    OBVIOUS
  <1>8. z \in Nat /\ Live(fr, z) /\ t.iter = z /\ v = Replaced(fr, z % Size(f), t)
    BY <1>3, <1>5, <1>6, <1>7
  <1>9. /\ v \in FrameStates(f) /\ Window(v, f) /\ \A k : Live(v, k) <=> Live(fr, k)
        /\ \A k \in Nat : Live(fr, k) => v.iterations[k % Size(f)] = IF k = z THEN t ELSE fr.iterations[k % Size(f)]
    BY ONLY <1>2, <1>3, <1>5, <1>8, ReplaceState
  <1>10. v.iterations[0] = t
    BY <1>3, <1>7, <1>8, <1>9
  <1>11. ASSUME NEW n \in RootNodes, Plain(n)
         PROVE  t.pending[n] = 0
    <2>1. n \in Nodes /\ InEdges(n) = {} /\ FrameName[n] = NameOf(f)
      BY <1>2, GraphAssumption DEF RootNodes
    <2>2. InitialPending(n) = 0
      BY <1>11, <2>1, FS_EmptySet DEF InitialPending, Plain
    <2> QED
      BY <1>1, <1>5, <2>1, <2>2 DEF NewIteration
  <1>12. v.iteration_count = 0
    BY <1>1, <1>9 DEF Window
  <1> QED
    BY <1>1, <1>2, <1>3, <1>5, <1>9, <1>10, <1>11, <1>12

(* The initial state satisfies the invariant. *)
LEMMA InitInv ==
  ASSUME FramesInit
  PROVE  Inv(frames, procs, executed)
  <1>1. PICK F, P, E, R, r, c, v, D :
          /\ F = frames /\ P = procs /\ E = executed /\ r = Root /\ c = Cardinality(RootNodes)
          /\ R = {TaggedNode(n, Root, 0, FALSE) : n \in RootNodes} /\ D = DOMAIN frames
          /\ v = RunAsyncFrame(c)
    OBVIOUS
  <1>2. /\ IsFiniteSet(R) /\ R \subseteq TaggedNodes /\ Cardinality(R) <= c
        /\ Cardinality(R) \in Nat /\ c \in Nat
        /\ \A x \in R : x.frame = r /\ x.iter = 0 /\ x.node \in RootNodes
        /\ \A x, y \in R : x.node = y.node => x = y
    BY <1>1, InitialReady
  <1>3. /\ r \in Paths /\ v \in FrameStates(r) /\ Window(v, r) /\ \A i \in Nat : Live(v, i) <=> i = 0
        /\ 0 % Size(r) = 0 /\ v.iteration_count = 0
        /\ v.iterations[0].outstanding_ops = c /\ v.iterations[0].outstanding_frame_count = 0
        /\ \A n \in RootNodes : Plain(n) => v.iterations[0].pending[n] = 0
    BY <1>1, <1>2, RootFrame
  <1>4. P = {Proc(x) : x \in R} /\ E = {} /\ D = {r} /\ F[r] = v
    BY <1>1 DEF FramesInit, RunAsyncFrame
  <1>5. /\ IsFiniteSet(P) /\ \A q \in P : IsFiniteSet(q.ready)
        /\ \A h \in Holds(P) : h[3] \in R /\ h = <<Proc(h[3]), 0, h[3]>>
        /\ \A f, i : IsFiniteSet(Held(P, f, i)) /\ Cardinality(Held(P, f, i)) <= Cardinality(Those(R, f, i))
    BY <1>2, <1>4, NewHolds
  <1>6. ASSUME NEW q \in P
        PROVE  q \in Procs /\ q.tn \in R /\ q.pc = "process" /\ q.ready = {} /\ ~Ends(q) /\ ~Pends(q)
    <2>1. PICK x \in R : q = Proc(x)
      BY <1>4
    <2> QED
      BY <1>2, <2>1, ProcFacts
  <1>7. TypesInv(F, P, E)
    <2>1. IsFiniteSet(D) /\ D \subseteq Paths
      BY <1>3, <1>4, FS_Singleton
    <2> QED
      BY <1>1, <1>4, <1>5, <1>6, <2>1 DEF TypesInv
  <1>8. ParentsInv(DOMAIN F)
    BY <1>1, <1>4 DEF ParentsInv
  <1>9. \A p \in P : ProcOk(F, p)
    <2> SUFFICES ASSUME NEW p \in P PROVE ProcOk(F, p)
      OBVIOUS
    <2>1. p.tn.frame \in DOMAIN F
      BY <1>1, <1>2, <1>4, <1>6
    <2> QED
      BY <1>6, <2>1 DEF ProcOk
  <1>10. Keys(E) = {}
    BY <1>4 DEF Keys
  <1>11. OnceInv(P, E)
    <2>1. ASSUME NEW h \in Holds(P), NEW k \in Holds(P), Key(h[3]) = Key(k[3])
          PROVE  h = k
      <3>1. h[3] \in R /\ k[3] \in R /\ h = <<Proc(h[3]), 0, h[3]>> /\ k = <<Proc(k[3]), 0, k[3]>>
        BY <1>5
      <3>2. h[3].node = k[3].node
        BY <2>1 DEF Key
      <3>3. h[3] = k[3]
        BY <1>2, <3>1, <3>2
      <3> QED
        BY <3>1, <3>3
    <2> QED
      BY <1>6, <1>10, <2>1 DEF OnceInv
  <1>12. EndsInv(P)
    BY <1>6 DEF EndsInv
  <1>13. \A i \in Nat : Outs(P, r)[i] \in Nat /\ Outs(P, r)[i] <= Cardinality(Those(R, r, i))
    <2> SUFFICES ASSUME NEW i \in Nat PROVE Outs(P, r)[i] \in Nat /\ Outs(P, r)[i] <= Cardinality(Those(R, r, i))
      OBVIOUS
    <2>1. Cardinality(Held(P, r, i)) \in Nat
      BY <1>5, FS_CardinalityType
    <2> QED
      BY <1>5, <2>1 DEF Outs
  <1>14. \A i \in Nat : IF i = 0 THEN Outs(P, r)[i] <= c ELSE Outs(P, r)[i] = 0
    <2> SUFFICES ASSUME NEW i \in Nat PROVE IF i = 0 THEN Outs(P, r)[i] <= c ELSE Outs(P, r)[i] = 0
      OBVIOUS
    <2>1. PICK T, k, o : T = Those(R, r, i) /\ k = Cardinality(T) /\ o = Outs(P, r)[i]
      OBVIOUS
    <2>2. IsFiniteSet(T) /\ k <= Cardinality(R) /\ k \in Nat
      BY <1>2, <2>1, FS_Subset, FS_CardinalityType DEF Those
    <2>3. i # 0 => T = {}
      BY <1>2, <2>1 DEF Those, At
    <2>4. i # 0 => k = 0
      BY <2>1, <2>3, FS_EmptySet
    <2>5. o \in Nat /\ o <= k
      BY <1>13, <2>1
    <2> QED
      BY <1>2, <2>1, <2>2, <2>4, <2>5
  <1>15. \A i \in Nat : Subs(D, P, r)[i] = 0
    <2> SUFFICES ASSUME NEW i \in Nat PROVE Subs(D, P, r)[i] = 0
      OBVIOUS
    <2>1. Kids(D, r, i) = {} /\ Cleaners(P, r, i) = {}
      BY <1>1, <1>4, <1>6 DEF Kids, Cleaners
    <2> QED
      BY <2>1, FS_EmptySet DEF Subs
  <1>16. ASSUME NEW n \in Nodes, NEW i \in Nat, Plain(n), <<n, i>> \in Used(E, P, r)
         PROVE  Spent(v, r, n, i)
    <2>1. PICK h \in Holds(P) : Key(h[3]) = <<n, r, i>>
      BY <1>10, <1>16 DEF Used
    <2>2. n \in RootNodes /\ i = 0
      BY <1>2, <1>5, <2>1 DEF Key
    <2> QED
      BY <1>3, <1>16, <2>2 DEF Spent
  <1>17. Section(Acc(v, {}), r, Outs(P, r), Subs(D, P, r), Used(E, P, r))
    <2>1. PICK Z, acc : Z = {} /\ acc = Acc(v, Z)
      OBVIOUS
    <2>2. Z \in SUBSET TaggedNodes /\ IsFiniteSet(Z) /\ \A i : Those(Z, r, i) = {} /\ Cardinality(Those(Z, r, i)) = 0
      BY <2>1, FS_EmptySet DEF Those
    <2>3. acc \in Accs(r) /\ acc.fr = v /\ acc.ready = Z
      BY <1>3, <2>1, <2>2, AccType
    <2>4. Tallied(acc, r, Outs(P, r), Subs(D, P, r))
      <3>1. ASSUME NEW i \in Nat, NEW o, o = Outs(P, r)[i], NEW u, u = Subs(D, P, r)[i]
            PROVE  /\ Live(acc.fr, i) =>
                        /\ o + Cardinality(Those(acc.ready, r, i)) <= acc.fr.iterations[i % Size(r)].outstanding_ops
                        /\ u <= acc.fr.iterations[i % Size(r)].outstanding_frame_count
                   /\ ~Live(acc.fr, i) => o = 0 /\ u = 0 /\ Those(acc.ready, r, i) = {}
        BY <1>2, <1>3, <1>13, <1>14, <1>15, <2>2, <2>3, <3>1
      <3> QED
        BY <3>1 DEF Tallied
    <2>5. Pendings(acc, r, Used(E, P, r))
      BY <1>16, <2>1, <2>3 DEF Pendings, NodesOf
    <2> QED
      BY <2>5, <1>3, <2>1, <2>2, <2>3, <2>4 DEF Section
  <1>18. FramesInv(F, P, E)
    BY <1>1, <1>4, <1>17 DEF FramesInv
  <1>19. InputsInv(F, E, Entered(E, P))
    <2>1. Entered(E, P) = {}
      BY <1>4 DEF Entered, Keys
    <2> QED
      BY <1>1, <1>4, <2>1 DEF InputsInv
  <1> QED
    BY <1>1, <1>7, <1>8, <1>9, <1>11, <1>12, <1>18, <1>19 DEF Inv, Good

(* The inductive invariant of the specification. *)
FramesIInv == Inv(frames, procs, executed)

(* Every step preserves the invariant. *)
LEMMA NextInv ==
  ASSUME FramesIInv, [FramesNext]_frames_vars
  PROVE  FramesIInv'
  <1>1. CASE UNCHANGED frames_vars
    <2>1. frames' = frames /\ procs' = procs /\ executed' = executed
      BY <1>1 DEF frames_vars
    <2> QED
      BY <2>1 DEF FramesIInv
  <1>2. ASSUME NEW p \in procs, Step(p)
        PROVE  FramesIInv'
    <2> USE DEF FramesIInv
    <2>1. CASE PropagateNormal(p)
      BY <2>1, StepNormal
    <2>2. CASE FindChildFrame(p)
      BY <2>2, StepFind
    <2>3. CASE CreateChildFrame(p)
      BY <2>3, StepCreate
    <2>4. CASE EnterChildFrame(p)
      BY <2>4, StepEnter
    <2>5. CASE PropagateDeadExit(p)
      BY <2>5, StepDeadExit
    <2>6. CASE PropagateLiveExit(p)
      BY <2>6, StepLiveExit
    <2>7. CASE DecrementInputFrame(p)
      BY <2>7, StepDecrement
    <2>8. CASE PropagateNextIteration(p)
      BY <2>8, StepNextIteration
    <2>9. CASE PropagateDeadExits(p)
      BY <2>9, StepDeadExits
    <2>10. CASE EraseFrame(p)
      BY <2>10, StepErase
    <2>11. CASE CleanupFramesIterations(p)
      BY <2>11, StepCleanup
    <2> HIDE DEF FramesIInv
    <2> QED
      BY <1>2, <2>1, <2>2, <2>3, <2>4, <2>5, <2>6, <2>7, <2>8, <2>9, <2>10, <2>11 DEF Step
  <1> QED
    BY <1>1, <1>2 DEF FramesNext

(* The counters of frames and iterations never fall below what they count,   *)
(* for every graph, whatever the Switches are told (executor.cc,             *)
(* PropagateOutputs and the functions of FrameState it calls).               *)
THEOREM FramesInvariant == FramesSpec => []FramesIInv
  <1>1. FramesInit => FramesIInv
    BY InitInv DEF FramesIInv
  <1>2. FramesIInv /\ [FramesNext]_frames_vars => FramesIInv'
    BY NextInv
  <1> QED
    BY <1>1, <1>2, PTL DEF FramesSpec

(* What is held in an iteration, or frames that it has started, keep it. *)
LEMMA HeldIsLive ==
  ASSUME NEW F, NEW P, NEW E, Good(F, P, E), NEW f \in DOMAIN F, NEW i \in Nat, Held(P, f, i) # {} \/ Cleaners(P, f, i) # {}
  PROVE  Live(F[f], i)
  <1>1. /\ Section(Acc(F[f], {}), f, Outs(P, f), Subs(DOMAIN F, P, f), Used(E, P, f))
        /\ IsFiniteSet(P) /\ (\A p \in P : IsFiniteSet(p.ready)) /\ IsFiniteSet(DOMAIN F)
    BY DEF Good, FramesInv, TypesInv
  <1>2. IsFiniteSet(Held(P, f, i)) /\ IsFiniteSet(Cleaners(P, f, i)) /\ IsFiniteSet(Kids(DOMAIN F, f, i))
    BY <1>1, HoldsFinite, FS_Subset DEF Cleaners, Kids
  <1>3. PICK h, c, k : h = Cardinality(Held(P, f, i)) /\ c = Cardinality(Cleaners(P, f, i)) /\ k = Cardinality(Kids(DOMAIN F, f, i))
    OBVIOUS
  <1>4. h \in Nat /\ c \in Nat /\ k \in Nat /\ (h # 0 \/ c # 0)
    BY <1>2, <1>3, FS_CardinalityType, FS_EmptySet
  <1>5. Outs(P, f)[i] # 0 \/ Subs(DOMAIN F, P, f)[i] # 0
    BY <1>3, <1>4 DEF Outs, Subs
  <1>6. PICK acc : acc = Acc(F[f], {})
    OBVIOUS
  <1>7. Live(acc.fr, i)
    BY <1>1, <1>5, <1>6, CountedIsLive
  <1>8. acc.fr = F[f]
    BY <1>6 DEF Acc
  <1> QED
    BY <1>7, <1>8

(* The state of a live iteration is found, and is its own. *)
LEMMA LiveIsThere ==
  ASSUME NEW F, NEW P, NEW E, Good(F, P, E), NEW f \in DOMAIN F, NEW i \in Nat, Live(F[f], i)
  PROVE  GetIteration(F[f], i).iter = i
  <1>1. f \in Paths /\ F[f] \in FrameStates(f) /\ Window(F[f], f)
    BY TypesOf
  <1>2. GetIteration(F[f], i) = F[f].iterations[i % Size(f)]
    BY <1>1, Slots
  <1> QED
    BY <1>1, <1>2 DEF Window

(* No thread holds a pointer into a frame or an iteration that has been       *)
(* deleted (executor.cc, CleanupIterations, DeleteFrame), and the circular    *)
(* buffer never hands out the state of another iteration (GetIteration), for  *)
(* every graph and every number of parallel iterations.                       *)
THEOREM NothingDangles == FramesSpec => []NoDanglingFrame
  <1>1. FramesIInv => NoDanglingFrame
    <2> SUFFICES ASSUME FramesIInv PROVE NoDanglingFrame
      OBVIOUS
    <2>1. PICK F, P, E : F = frames /\ P = procs /\ E = executed
      OBVIOUS
    <2>2. Good(F, P, E)
      BY <2>1 DEF FramesIInv, Inv
    <2>3. /\ P \subseteq Procs /\ \A p \in P : ProcOk(F, p)
          /\ \A p \in P : p.ready \subseteq TaggedNodes /\ p.tn \in TaggedNodes
      BY <2>2 DEF Good, TypesInv, Procs
    <2>4. ASSUME NEW h \in Holds(P)
          PROVE  h[3].frame \in DOMAIN F /\ GetIteration(F[h[3].frame], h[3].iter).iter = h[3].iter
      <3>1. PICK f, i : f = h[3].frame /\ i = h[3].iter
        OBVIOUS
      <3>2. f \in DOMAIN F /\ h[3] \in TaggedNodes
        BY <2>3, <3>1, HoldsFacts DEF ProcOk
      <3>3. i \in Nat
        BY <3>1, <3>2 DEF TaggedNodes
      <3>4. h \in Held(P, f, i)
        BY <3>1 DEF Held, At
      <3>5. Live(F[f], i)
        BY <2>2, <3>2, <3>3, <3>4, HeldIsLive
      <3> QED
        BY <2>2, <3>1, <3>2, <3>3, <3>5, LiveIsThere
    <2>5. ASSUME NEW tn \in Outstanding
          PROVE  tn.frame \in DOMAIN F /\ GetIteration(F[tn.frame], tn.iter).iter = tn.iter
      <3>1. PICK h \in Holds(P) : h[3] = tn
        <4>1. CASE \E p \in P : Owns(p) /\ tn = p.tn
          <5>1. PICK p \in P : Owns(p) /\ tn = p.tn
            BY <4>1
          <5>2. PICK h : h = <<p, 0, tn>>
            OBVIOUS
          <5>3. h \in Holds(P)
            BY <5>1, <5>2, HoldsFacts
          <5>4. h[3] = tn
            BY <5>2
          <5> QED
            BY <5>3, <5>4
        <4>2. CASE \E p \in P : tn \in p.ready
          <5>1. PICK p \in P : tn \in p.ready
            BY <4>2
          <5>2. PICK h : h = <<p, 1, tn>>
            OBVIOUS
          <5>3. h \in Holds(P)
            BY <5>1, <5>2, HoldsFacts
          <5>4. h[3] = tn
            BY <5>2
          <5> QED
            BY <5>3, <5>4
        <4> QED
          BY <2>1, <2>5, <4>1, <4>2 DEF Outstanding, Owns
      <3> QED
        BY <2>4, <3>1
    <2>6. ASSUME NEW p \in P, p.pc = "cleanup"
          PROVE  p.at \in DOMAIN F /\ GetIteration(F[p.at], p.at_iter).iter = p.at_iter
      <3>1. PICK f, i : f = p.at /\ i = p.at_iter
        OBVIOUS
      <3>2. f \in DOMAIN F /\ i \in Nat
        BY <2>3, <2>6, <3>1 DEF ProcOk, Procs
      <3>3. p \in Cleaners(P, f, i)
        BY <2>6, <3>1 DEF Cleaners
      <3>4. Live(F[f], i)
        BY <2>2, <3>2, <3>3, HeldIsLive
      <3> QED
        BY <2>2, <3>1, <3>2, <3>4, LiveIsThere
    <2>7. ASSUME NEW f \in DOMAIN F \ {Root}
          PROVE  ParentFrame(f) \in DOMAIN F /\ GetIteration(F[ParentFrame(f)], ParentIter(f)).iter = ParentIter(f)
      <3>1. PICK g, i : g = ParentFrame(f) /\ i = ParentIter(f)
        OBVIOUS
      <3>2. g \in DOMAIN F /\ i \in Nat /\ Live(F[g], i)
        BY <2>2, <2>7, <3>1, ParentLive
      <3> QED
        BY <2>2, <3>1, <3>2, LiveIsThere
    <2> QED
      BY <2>1, <2>5, <2>6, <2>7 DEF NoDanglingFrame
  <1> QED
    BY <1>1, FramesInvariant, PTL

(* The circular buffer holds the live iterations and nothing else. *)
LEMMA WindowCount ==
  ASSUME NEW f \in Paths, NEW fr \in FrameStates(f), Window(fr, f), NEW J,
         J = {j \in DOMAIN fr.iterations : fr.iterations[j] # Null}
  PROVE  /\ fr.num_outstanding_iterations = Cardinality(J)
         /\ {fr.iterations[j].iter : j \in J} =
              fr.iteration_count - fr.num_outstanding_iterations + 1 .. fr.iteration_count
  <1>1. PICK a, b, n, S : a = First(fr) /\ b = fr.iteration_count /\ n = fr.num_outstanding_iterations /\ S = Size(f)
    OBVIOUS
  <1>2. a \in Nat /\ b \in Nat /\ n \in Nat /\ a = b - n + 1 /\ S \in Nat \ {0}
    BY <1>1, Sizes DEF First, Window, FrameStates
  <1>3. \A i \in Nat : Live(fr, i) <=> i \in a .. b
    BY <1>1, <1>2 DEF Live
  <1>4. DOMAIN fr.iterations = 0 .. S - 1
    BY <1>1 DEF FrameStates
  <1>5. PICK g : g = [i \in a .. b |-> i % S]
    OBVIOUS
  <1>6. ASSUME NEW i \in a .. b
        PROVE  g[i] = i % S /\ g[i] \in J /\ fr.iterations[g[i]].iter = i
    <2>1. i \in Nat /\ Live(fr, i) /\ g[i] = i % S
      BY <1>2, <1>3, <1>5
    <2>2. i % S \in 0 .. S - 1
      BY <1>1, <2>1, Sizes
    <2>3. fr.iterations[i % S] # Null /\ fr.iterations[i % S].iter = i
      BY <1>1, <2>1, LiveState DEF Window
    <2> QED
      BY <1>4, <2>1, <2>2, <2>3
  <1>7. ASSUME NEW j \in J
        PROVE  fr.iterations[j].iter \in a .. b /\ g[fr.iterations[j].iter] = j
    <2>1. PICK s : s = fr.iterations[j]
      OBVIOUS
    <2>2. j \in 0 .. S - 1 /\ s # Null
      BY <1>4, <1>7, <2>1
    <2>3. s \in IterationStates(NameOf(f))
      BY <1>1, <2>1, <2>2 DEF FrameStates
    <2>4. s.iter \in Nat
      BY <2>3 DEF IterationStates
    <2>5. Live(fr, s.iter) /\ s.iter % S = j
      BY <1>1, <2>1, <2>2 DEF Window
    <2>6. s.iter \in a .. b
      BY <1>3, <2>4, <2>5
    <2> QED
      BY <1>5, <2>1, <2>5, <2>6
  <1>8. g \in Bijection(a .. b, J)
    <2>1. g \in [a .. b -> J]
      BY <1>5, <1>6
    <2>2. \A i, k \in a .. b : g[i] = g[k] => i = k
      BY <1>6
    <2>3. \A j \in J : \E i \in a .. b : g[i] = j
      BY <1>7
    <2> QED
      BY <2>1, <2>2, <2>3 DEF Bijection, Injection, Surjection, IsInjective
  <1>9. IsFiniteSet(a .. b) /\ Cardinality(a .. b) = n
    <2>1. IsFiniteSet(a .. b) /\ Cardinality(a .. b) = IF a > b THEN 0 ELSE b - a + 1
      BY <1>2, FS_Interval
    <2> QED
      BY <1>2, <2>1
  <1>10. Cardinality(J) = n
    <2>1. ExistsBijection(a .. b, J)
      BY <1>8 DEF ExistsBijection
    <2> QED
      BY <1>9, <2>1, FS_Bijection
  <1>11. {fr.iterations[j].iter : j \in J} = a .. b
    <2>1. \A x \in {fr.iterations[j].iter : j \in J} : x \in a .. b
      BY <1>7
    <2>2. \A x \in a .. b : x \in {fr.iterations[j].iter : j \in J}
      BY <1>6
    <2> QED
      BY <2>1, <2>2
  <1> QED
    BY <1>1, <1>2, <1>10, <1>11

(* No more iterations of a frame run at once than parallel_iterations says,  *)
(* and the ones that run are successive (executor.cc, IncrementIteration,    *)
(* CleanupIterations), for every graph and every parallel_iterations.        *)
THEOREM Parallelism == FramesSpec => []ParallelIterations
  <1>1. FramesIInv => ParallelIterations
    <2> SUFFICES ASSUME FramesIInv, NEW f \in DOMAIN frames \ {Root}, NEW fr, fr = frames[f],
                        NEW J, J = {j \in DOMAIN fr.iterations : fr.iterations[j] # Null}
                 PROVE  /\ fr.num_outstanding_iterations = Cardinality(J)
                        /\ fr.num_outstanding_iterations <= MaxParallel[NameOf(f)]
                        /\ {fr.iterations[j].iter : j \in J} =
                             fr.iteration_count - fr.num_outstanding_iterations + 1 .. fr.iteration_count
      BY DEF ParallelIterations
    <2>1. f \in Paths /\ fr \in FrameStates(f) /\ Window(fr, f)
      BY TypesOf DEF FramesIInv, Inv
    <2>2. fr.num_outstanding_iterations <= MaxParallel[NameOf(f)]
      BY <2>1, Sizes DEF Window
    <2> QED
      BY <2>1, <2>2, WindowCount
  <1> QED
    BY <1>1, FramesInvariant, PTL
================================================================================
