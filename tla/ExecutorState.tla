----------------------------- MODULE ExecutorState -----------------------------
(***************************************************************************)
(* The life of one tensorflow::ExecutorState (common_runtime/executor.cc): *)
(* RunAsync, the accounting of outstanding ops in NodeDone, the abort on   *)
(* the first error, deferred ops, ScheduleFinish and Finish, which deletes *)
(* the object and calls the step's done callback.                          *)
(*                                                                         *)
(* An op is one execution of a node in one iteration of one frame.  Which  *)
(* ops PropagateOutputs makes ready is left open here: any set that has    *)
(* not been ready before (ExecutorFrames models how the set is computed).  *)
(* Each op is a thread of its own: that a Process call runs several nodes  *)
(* one after the other (inline_ready) only removes interleavings.          *)
(***************************************************************************)
EXTENDS Integers, FiniteSets

CONSTANTS Ops,    \* the ops the graph may come to execute
          OK,     \* Status::OK()
          Device  \* an error of the device, not of an op

ASSUME OpsAssumption == IsFiniteSet(Ops) /\ OK \notin Ops /\ Device \notin Ops /\ OK # Device

VARIABLES
  run_pc,                         \* RunAsync
  pc,                             \* where each op stands
  ready,                          \* the `ready' list of an op's Process, or what is left of it
  failed,                         \* the op's status s is not OK
  by_cancel,                      \* history: the op failed because it was cancelled
  num_outstanding_ops,            \* num_outstanding_ops_
  status, derived,                \* status_: OK or the op it came from; marked as derived
  first_error,                    \* history: the first op whose NodeDone came with an error, or OK
  deferred,                       \* the deferred part of each op
  num_deferred_ops,               \* num_deferred_ops_
  finish_when_deferred_ops_done,  \* finish_when_deferred_ops_done_
  rendezvous_aborted, collective_aborted,
  cancel_phase, user_cancel_pc,   \* the CancellationManager, shared with other executors
  finish_pc, finish_status,       \* Finish
  alive,                          \* the object has not been deleted
  done_cb,                        \* done_cb_ is set
  finish_calls, done_calls, done_status  \* history: calls of Finish; of the done callback

op_vars == <<pc, ready, failed, by_cancel>>
status_vars == <<status, derived, first_error>>
deferred_vars == <<deferred, num_deferred_ops, finish_when_deferred_ops_done>>
abort_vars == <<rendezvous_aborted, collective_aborted>>
cancel_vars == <<cancel_phase, user_cancel_pc>>
finish_vars == <<finish_pc, finish_status, alive, done_cb, finish_calls>>
done_vars == <<done_calls, done_status>>
vars == <<run_pc, op_vars, num_outstanding_ops, status_vars, deferred_vars,
          abort_vars, cancel_vars, finish_vars, done_vars>>

PcStates == {"none", "activated", "scheduled", "computing", "error",
             "abort_rendezvous", "abort_collective", "start_cancel", "cancelling",
             "account", "schedule", "finish", "finishing", "over"}

TypeOK ==
  /\ run_pc \in {"start", "scheduling", "returned"}
  /\ pc \in [Ops -> PcStates]
  /\ ready \in [Ops -> SUBSET Ops]
  /\ failed \in [Ops -> BOOLEAN]
  /\ by_cancel \in [Ops -> BOOLEAN]
  /\ num_outstanding_ops \in Nat
  /\ status \in Ops \cup {OK}
  /\ derived \in BOOLEAN
  /\ first_error \in Ops \cup {OK}
  /\ deferred \in [Ops -> {"no", "pending", "finish", "done"}]
  /\ num_deferred_ops \in Nat
  /\ finish_when_deferred_ops_done \in BOOLEAN
  /\ rendezvous_aborted \in BOOLEAN
  /\ collective_aborted \in BOOLEAN
  /\ cancel_phase \in {"none", "cancelling", "cancelled"}
  /\ user_cancel_pc \in {"start", "cancelling", "returned"}
  /\ finish_pc \in {"idle", "moved", "abort", "start_cancel", "cancelling", "delete",
                    "callback", "over"}
  /\ finish_status \in Ops \cup {OK, Device}
  /\ alive \in BOOLEAN
  /\ done_cb \in BOOLEAN
  /\ finish_calls \in Nat
  /\ done_calls \in Nat
  /\ done_status \in Ops \cup {OK, Device}

Init ==
  /\ run_pc = "start"
  /\ pc = [o \in Ops |-> "none"]
  /\ ready = [o \in Ops |-> {}]
  /\ failed = [o \in Ops |-> FALSE]
  /\ by_cancel = [o \in Ops |-> FALSE]
  /\ num_outstanding_ops = 0
  /\ status = OK
  /\ derived = FALSE
  /\ first_error = OK
  /\ deferred = [o \in Ops |-> "no"]
  /\ num_deferred_ops = 0
  /\ finish_when_deferred_ops_done = FALSE
  /\ rendezvous_aborted = FALSE
  /\ collective_aborted = FALSE
  /\ cancel_phase = "none"
  /\ user_cancel_pc = "start"
  /\ finish_pc = "idle"
  /\ finish_status = OK
  /\ alive = TRUE
  /\ done_cb = FALSE
  /\ finish_calls = 0
  /\ done_calls = 0
  /\ done_status = OK

--------------------------------------------------------------------------------
(* The ops of S are put into a `ready' list. *)
Activate(S) == pc' = [o \in Ops |-> IF o \in S THEN "activated" ELSE pc[o]]

(* RunAsync ends at once: FillContextMap failed, or no node is a root. *)
RunAsyncEnds(s) ==
  /\ run_pc = "start"
  /\ run_pc' = "returned"
  /\ alive' = FALSE
  /\ done_calls' = done_calls + 1
  /\ done_status' = s
  /\ UNCHANGED <<op_vars, num_outstanding_ops, status_vars, deferred_vars, abort_vars,
                 cancel_vars, finish_pc, finish_status, done_cb, finish_calls>>

(* Fault: the count leaves room for the thread that calls RunAsync. *)
RunAsyncStartsOneShort(roots) ==
  /\ run_pc = "start"
  /\ roots # {}
  /\ Activate(roots)
  /\ num_outstanding_ops' = Cardinality(roots) - 1
  /\ done_cb' = TRUE
  /\ run_pc' = "scheduling"
  /\ UNCHANGED <<ready, failed, by_cancel, status_vars, deferred_vars, abort_vars,
                 cancel_vars, finish_pc, finish_status, alive, finish_calls, done_vars>>

RunAsyncStarts(roots) ==
  /\ run_pc = "start"
  /\ roots # {}
  /\ Activate(roots)
  /\ num_outstanding_ops' = Cardinality(roots)
  /\ done_cb' = TRUE
  /\ run_pc' = "scheduling"
  /\ UNCHANGED <<ready, failed, by_cancel, status_vars, deferred_vars, abort_vars,
                 cancel_vars, finish_pc, finish_status, alive, finish_calls, done_vars>>

(* ScheduleReady hands the roots to runner_, one by one. *)
RootsLeft == {o \in Ops : pc[o] = "activated" /\ \A q \in Ops : o \notin ready[q]}

RunAsyncSchedules(o) ==
  /\ run_pc = "scheduling"
  /\ o \in RootsLeft
  /\ pc' = [pc EXCEPT ![o] = "scheduled"]
  /\ run_pc' = IF RootsLeft = {o} THEN "returned" ELSE "scheduling"
  /\ UNCHANGED <<ready, failed, by_cancel, num_outstanding_ops, status_vars,
                 deferred_vars, abort_vars, cancel_vars, finish_vars, done_vars>>

RunAsync ==
  \/ \E s \in {OK, Device} : RunAsyncEnds(s)
  \/ \E roots \in SUBSET Ops : RunAsyncStarts(roots)
  \/ \E o \in Ops : RunAsyncSchedules(o)

--------------------------------------------------------------------------------
(* Process: the kernel starts, ... *)
Compute(o) ==
  /\ pc[o] = "scheduled"
  /\ pc' = [pc EXCEPT ![o] = "computing"]
  /\ UNCHANGED <<run_pc, ready, failed, by_cancel, num_outstanding_ops, status_vars,
                 deferred_vars, abort_vars, cancel_vars, finish_vars, done_vars>>

(* ... it may leave work behind on the device (inc_num_deferred_ops_function) ... *)
IncNumDeferredOps(o) ==
  /\ pc[o] = "computing"
  /\ deferred[o] = "no"
  /\ deferred' = [deferred EXCEPT ![o] = "pending"]
  /\ num_deferred_ops' = num_deferred_ops + 1
  /\ UNCHANGED <<run_pc, op_vars, num_outstanding_ops, status_vars,
                 finish_when_deferred_ops_done, abort_vars, cancel_vars, finish_vars, done_vars>>

(* ... and it ends, in its Process or in the done callback of ComputeAsync:  *)
(* the outputs are propagated, ...                                           *)
ComputeSucceeds(o, S) ==
  /\ pc[o] = "computing"
  /\ \A q \in S : pc[q] = "none"
  /\ ready' = [ready EXCEPT ![o] = S]
  /\ pc' = [q \in Ops |-> IF q = o THEN "account" ELSE IF q \in S THEN "activated" ELSE pc[q]]
  /\ UNCHANGED <<run_pc, failed, by_cancel, num_outstanding_ops, status_vars,
                 deferred_vars, abort_vars, cancel_vars, finish_vars, done_vars>>

(* ... or there is an error, of its own or because it has been cancelled. *)
ComputeFails(o, cancelled) ==
  /\ pc[o] = "computing"
  /\ cancelled => cancel_phase # "none"
  /\ pc' = [pc EXCEPT ![o] = "error"]
  /\ failed' = [failed EXCEPT ![o] = TRUE]
  /\ by_cancel' = [by_cancel EXCEPT ![o] = cancelled]
  /\ UNCHANGED <<run_pc, ready, num_outstanding_ops, status_vars, deferred_vars,
                 abort_vars, cancel_vars, finish_vars, done_vars>>

(* Fault: any deferred op, not only the last one, finishes the step. *)
DecNumDeferredOpsAnyFinishes(o) ==
  /\ deferred[o] = "pending"
  /\ num_deferred_ops' = num_deferred_ops - 1
  /\ deferred' = [deferred EXCEPT ![o] =
                    IF finish_when_deferred_ops_done THEN "finish" ELSE "done"]
  /\ UNCHANGED <<run_pc, op_vars, num_outstanding_ops, status_vars,
                 finish_when_deferred_ops_done, abort_vars, cancel_vars, finish_vars, done_vars>>

(* dec_num_deferred_ops_function, called by the device when the work is over. *)
DecNumDeferredOps(o) ==
  /\ deferred[o] = "pending"
  /\ num_deferred_ops' = num_deferred_ops - 1
  /\ deferred' = [deferred EXCEPT ![o] =
                    IF num_deferred_ops = 1 /\ finish_when_deferred_ops_done
                    THEN "finish" ELSE "done"]
  /\ UNCHANGED <<run_pc, op_vars, num_outstanding_ops, status_vars,
                 finish_when_deferred_ops_done, abort_vars, cancel_vars, finish_vars, done_vars>>

--------------------------------------------------------------------------------
(* The history: whose error came first under mu_, whatever status_ keeps. *)
NoteError(o) == first_error' = IF first_error = OK THEN o ELSE first_error

(* Fault: the last error is kept. *)
RecordLastError(o) ==
  /\ pc[o] = "error"
  /\ NoteError(o)
  /\ status' = o
  /\ derived' = (cancel_phase = "cancelled")
  /\ pc' = [pc EXCEPT ![o] = IF status = OK THEN "abort_rendezvous" ELSE "account"]
  /\ UNCHANGED <<run_pc, ready, failed, by_cancel, num_outstanding_ops, deferred_vars,
                 abort_vars, cancel_vars, finish_vars, done_vars>>

(* NodeDone: the first error is kept, as derived if the step has been        *)
(* cancelled, ...                                                            *)
RecordError(o) ==
  /\ pc[o] = "error"
  /\ NoteError(o)
  /\ IF status = OK
     THEN /\ status' = o
          /\ derived' = (cancel_phase = "cancelled")
          /\ pc' = [pc EXCEPT ![o] = "abort_rendezvous"]
     ELSE /\ pc' = [pc EXCEPT ![o] = "account"]
          /\ UNCHANGED <<status, derived>>
  /\ UNCHANGED <<run_pc, ready, failed, by_cancel, num_outstanding_ops, deferred_vars,
                 abort_vars, cancel_vars, finish_vars, done_vars>>

(* ... and ends the rest of the step: rendezvous, collectives, cancellation; *)
AbortRendezvous(o) ==
  /\ pc[o] = "abort_rendezvous"
  /\ rendezvous_aborted' = TRUE
  /\ pc' = [pc EXCEPT ![o] = "abort_collective"]
  /\ UNCHANGED <<run_pc, ready, failed, by_cancel, num_outstanding_ops, status_vars,
                 deferred_vars, collective_aborted, cancel_vars, finish_vars, done_vars>>

AbortCollective(o) ==
  /\ pc[o] = "abort_collective"
  /\ collective_aborted' = TRUE
  /\ pc' = [pc EXCEPT ![o] = "start_cancel"]
  /\ UNCHANGED <<run_pc, ready, failed, by_cancel, num_outstanding_ops, status_vars,
                 deferred_vars, rendezvous_aborted, cancel_vars, finish_vars, done_vars>>

(* StartCancel of the shared manager, entered by someone at `from': it       *)
(* returns at once if somebody else is or has been cancelling.               *)
CancelEnters == cancel_phase' = IF cancel_phase = "none" THEN "cancelling" ELSE cancel_phase

NodeDoneCancels(o) ==
  /\ \/ /\ pc[o] = "start_cancel"
        /\ CancelEnters
        /\ pc' = [pc EXCEPT ![o] = IF cancel_phase = "none" THEN "cancelling" ELSE "account"]
     \/ /\ pc[o] = "cancelling"
        /\ cancel_phase' = "cancelled"
        /\ pc' = [pc EXCEPT ![o] = "account"]
  /\ UNCHANGED <<run_pc, ready, failed, by_cancel, num_outstanding_ops, status_vars,
                 deferred_vars, abort_vars, user_cancel_pc, finish_vars, done_vars>>

(* Fault: an op that is done is not taken off when it makes others ready. *)
AccountAddsAll(o) ==
  /\ pc[o] = "account"
  /\ IF ready[o] = {} \/ failed[o]
     THEN /\ num_outstanding_ops' = num_outstanding_ops - 1
          /\ pc' = [pc EXCEPT ![o] = IF num_outstanding_ops = 1 THEN "finish" ELSE "over"]
     ELSE /\ num_outstanding_ops' = num_outstanding_ops + Cardinality(ready[o])
          /\ pc' = [pc EXCEPT ![o] = "schedule"]
  /\ UNCHANGED <<run_pc, ready, failed, by_cancel, status_vars, deferred_vars,
                 abort_vars, cancel_vars, finish_vars, done_vars>>

(* fetch_sub, which tells who is the last, or fetch_add; *)
Account(o) ==
  /\ pc[o] = "account"
  /\ IF ready[o] = {} \/ failed[o]
     THEN /\ num_outstanding_ops' = num_outstanding_ops - 1
          /\ pc' = [pc EXCEPT ![o] = IF num_outstanding_ops = 1 THEN "finish" ELSE "over"]
     ELSE /\ num_outstanding_ops' = num_outstanding_ops + (Cardinality(ready[o]) - 1)
          /\ pc' = [pc EXCEPT ![o] = "schedule"]
  /\ UNCHANGED <<run_pc, ready, failed, by_cancel, status_vars, deferred_vars,
                 abort_vars, cancel_vars, finish_vars, done_vars>>

(* ScheduleReady hands the ready ops to runner_ or to inline_ready. *)
ScheduleReady(o, q) ==
  /\ pc[o] = "schedule"
  /\ q \in ready[o]
  /\ ready' = [ready EXCEPT ![o] = @ \ {q}]
  /\ pc' = [pc EXCEPT ![q] = "scheduled", ![o] = IF ready[o] = {q} THEN "over" ELSE @]
  /\ UNCHANGED <<run_pc, failed, by_cancel, num_outstanding_ops, status_vars,
                 deferred_vars, abort_vars, cancel_vars, finish_vars, done_vars>>

(* Fault: the step is finished whatever the device still has to do. *)
ScheduleFinishAtOnce(o) ==
  /\ pc[o] = "finish"
  /\ pc' = [pc EXCEPT ![o] = "finishing"]
  /\ UNCHANGED <<run_pc, ready, failed, by_cancel, num_outstanding_ops, status_vars,
                 deferred_vars, abort_vars, cancel_vars, finish_vars, done_vars>>

(* Fault: off by one, the step is always left to a deferred op. *)
ScheduleFinishNever(o) ==
  /\ pc[o] = "finish"
  /\ num_deferred_ops >= 0
  /\ finish_when_deferred_ops_done' = TRUE
  /\ pc' = [pc EXCEPT ![o] = "over"]
  /\ UNCHANGED <<run_pc, ready, failed, by_cancel, num_outstanding_ops, status_vars,
                 deferred, num_deferred_ops, abort_vars, cancel_vars, finish_vars, done_vars>>

(* The last op: finish now, or leave it to the last deferred op. *)
ScheduleFinish(o) ==
  /\ pc[o] = "finish"
  /\ IF num_deferred_ops > 0
     THEN /\ finish_when_deferred_ops_done' = TRUE
          /\ pc' = [pc EXCEPT ![o] = "over"]
     ELSE /\ pc' = [pc EXCEPT ![o] = "finishing"]
          /\ UNCHANGED finish_when_deferred_ops_done
  /\ UNCHANGED <<run_pc, ready, failed, by_cancel, num_outstanding_ops, status_vars,
                 deferred, num_deferred_ops, abort_vars, cancel_vars, finish_vars, done_vars>>

Op(o) ==
  \/ Compute(o)
  \/ IncNumDeferredOps(o)
  \/ \E S \in SUBSET Ops : ComputeSucceeds(o, S)
  \/ \E cancelled \in BOOLEAN : ComputeFails(o, cancelled)
  \/ DecNumDeferredOps(o)
  \/ RecordError(o) \/ AbortRendezvous(o) \/ AbortCollective(o) \/ NodeDoneCancels(o)
  \/ Account(o)
  \/ \E q \in Ops : ScheduleReady(o, q)
  \/ ScheduleFinish(o)

--------------------------------------------------------------------------------
(* Finish, called by the op that was last or by the last deferred op: status *)
(* and callback are moved out under mu_, ...                                 *)
FinishMoves(o) ==
  /\ \/ /\ pc[o] = "finishing"
        /\ pc' = [pc EXCEPT ![o] = "over"]
        /\ UNCHANGED deferred
     \/ /\ deferred[o] = "finish"
        /\ deferred' = [deferred EXCEPT ![o] = "done"]
        /\ UNCHANGED pc
  /\ finish_calls' = finish_calls + 1
  /\ finish_status' = status
  /\ done_cb' = FALSE
  /\ finish_pc' = "moved"
  /\ UNCHANGED <<run_pc, ready, failed, by_cancel, num_outstanding_ops, status_vars,
                 num_deferred_ops, finish_when_deferred_ops_done, abort_vars, cancel_vars,
                 alive, done_vars>>

(* ... and the device is asked for its status, if it does not allow sync on  *)
(* completion, or synchronised, if sync_on_finish_ is set, or neither.       *)
(* Status::Update keeps an error there is already.                           *)
UpdateStatus(s) == finish_status' = IF finish_status = OK THEN s ELSE finish_status

FinishAsksDevice ==
  /\ finish_pc = "moved"
  /\ \/ /\ \E s \in {OK, Device} : UpdateStatus(s)
        /\ finish_pc' = IF finish_status' = OK THEN "delete" ELSE "abort"
     \/ /\ finish_status = OK
        /\ \E s \in {OK, Device} : UpdateStatus(s)
        /\ finish_pc' = "delete"
     \/ /\ finish_pc' = "delete"
        /\ UNCHANGED finish_status
  /\ UNCHANGED <<run_pc, op_vars, num_outstanding_ops, status_vars, deferred_vars,
                 abort_vars, cancel_vars, alive, done_cb, finish_calls, done_vars>>

(* "This is the last defense where StartCancel must be called." *)
FinishAborts ==
  /\ finish_pc = "abort"
  /\ rendezvous_aborted' = TRUE
  /\ collective_aborted' = TRUE
  /\ finish_pc' = "start_cancel"
  /\ UNCHANGED <<run_pc, op_vars, num_outstanding_ops, status_vars, deferred_vars,
                 cancel_vars, finish_status, alive, done_cb, finish_calls, done_vars>>

FinishCancels ==
  /\ \/ /\ finish_pc = "start_cancel"
        /\ CancelEnters
        /\ finish_pc' = IF cancel_phase = "none" THEN "cancelling" ELSE "delete"
     \/ /\ finish_pc = "cancelling"
        /\ cancel_phase' = "cancelled"
        /\ finish_pc' = "delete"
  /\ UNCHANGED <<run_pc, op_vars, num_outstanding_ops, status_vars, deferred_vars,
                 abort_vars, user_cancel_pc, finish_status, alive, done_cb, finish_calls,
                 done_vars>>

FinishDeletes ==
  /\ finish_pc = "delete"
  /\ alive' = FALSE
  /\ finish_pc' = "callback"
  /\ UNCHANGED <<run_pc, op_vars, num_outstanding_ops, status_vars, deferred_vars,
                 abort_vars, cancel_vars, finish_status, done_cb, finish_calls, done_vars>>

FinishCallsDone ==
  /\ finish_pc = "callback"
  /\ done_calls' = done_calls + 1
  /\ done_status' = finish_status
  /\ finish_pc' = "over"
  /\ UNCHANGED <<run_pc, op_vars, num_outstanding_ops, status_vars, deferred_vars,
                 abort_vars, cancel_vars, finish_status, alive, done_cb, finish_calls>>

Finish == FinishAsksDevice \/ FinishAborts \/ FinishCancels \/ FinishDeletes \/ FinishCallsDone

(* StartCancel called from outside: by the user or by the executor of        *)
(* another partition of the step.                                            *)
UserCancels ==
  /\ \/ /\ user_cancel_pc = "start"
        /\ CancelEnters
        /\ user_cancel_pc' = IF cancel_phase = "none" THEN "cancelling" ELSE "returned"
     \/ /\ user_cancel_pc = "cancelling"
        /\ cancel_phase' = "cancelled"
        /\ user_cancel_pc' = "returned"
  /\ UNCHANGED <<run_pc, op_vars, num_outstanding_ops, status_vars, deferred_vars,
                 abort_vars, finish_vars, done_vars>>

Next ==
  \/ RunAsync
  \/ \E o \in Ops : Op(o) \/ FinishMoves(o)
  \/ Finish
  \/ UserCancels

Spec == Init /\ [][Next]_vars

(* The thread pool runs every closure it is given, kernels return, the       *)
(* device calls back when deferred work or a Sync is over.  The user need    *)
(* not cancel, and an op need not defer anything.                            *)
Fairness ==
  /\ WF_vars(\E o \in Ops : RunAsyncSchedules(o))
  /\ \A o \in Ops :
       /\ WF_vars(Compute(o))
       /\ WF_vars((\E S \in SUBSET Ops : ComputeSucceeds(o, S)) \/ ComputeFails(o, FALSE))
       /\ WF_vars(DecNumDeferredOps(o))
       /\ WF_vars(RecordError(o) \/ AbortRendezvous(o) \/ AbortCollective(o) \/ NodeDoneCancels(o))
       /\ WF_vars(Account(o) \/ (\E q \in Ops : ScheduleReady(o, q)) \/ ScheduleFinish(o))
       /\ WF_vars(FinishMoves(o))
  /\ WF_vars(Finish)

FairSpec == Spec /\ Fairness

--------------------------------------------------------------------------------
(* What num_outstanding_ops_ counts: an op from the moment the one that      *)
(* made it ready has accounted for it until it has accounted for itself.     *)
Counted ==
  {o \in Ops :
     \/ pc[o] \in {"scheduled", "computing", "error", "abort_rendezvous", "abort_collective",
                   "start_cancel", "cancelling", "account"}
     \/ /\ pc[o] = "activated"
        /\ \A q \in Ops : o \in ready[q] => pc[q] = "schedule"}

(* num_outstanding_ops_ is exact at every moment, however the fetch_adds and *)
(* fetch_subs of concurrent NodeDones fall.                                  *)
OutstandingExact == num_outstanding_ops = Cardinality(Counted)

(* Nobody is left that would touch the object after `delete this': no op     *)
(* that is ready or running, no thread inside NodeDone or ScheduleReady, no  *)
(* deferred op that has yet to call back.                                    *)
NoUseAfterDelete ==
  ~alive =>
    /\ run_pc = "returned"
    /\ \A o \in Ops : pc[o] \in {"none", "over"} /\ deferred[o] \in {"no", "done"}

(* "Finish is always called exactly once per ExecutorState" (executor.cc:    *)
(* 1680, 2514): not twice, so that CHECK(done_cb != nullptr) holds, and the  *)
(* done callback is called once whatever path ends the step.                 *)
FinishOnce ==
  /\ finish_calls <= 1
  /\ done_calls <= 1
  /\ \A o \in Ops : pc[o] = "finishing" \/ deferred[o] = "finish" => done_cb

(* When an op failed, the step reports the error of the NodeDone that took   *)
(* mu_ first with one, whatever errors came after it (and whatever the       *)
(* device says in Finish), and by then has aborted the rendezvous and the    *)
(* collectives and started the cancellation.                                 *)
FirstErrorReported ==
  done_calls = 1 /\ (\E o \in Ops : failed[o]) =>
    /\ done_status = first_error
    /\ first_error \in Ops /\ failed[first_error]
    /\ rendezvous_aborted /\ collective_aborted
    /\ cancel_phase # "none"

(* A run ends: the done callback is called. *)
StepCompletes == (run_pc # "start") ~> (done_calls = 1)

(* executor.cc:2276: "If execution has been cancelled, mark any new errors   *)
(* as being derived.  This ensures any errors triggered by cancellation are  *)
(* marked as derived."                                                       *)
DerivedAsDocumented == status # OK => (by_cancel[status] => derived)
================================================================================
