--------------------------- MODULE RemoteRendezvous ----------------------------
(***************************************************************************)
(* The rendezvous of a worker: BaseRemoteRendezvous                        *)
(* (core/distributed_runtime/base_rendezvous_mgr.cc) with the RecvTensor   *)
(* calls of RpcRemoteRendezvous (rpc/rpc_rendezvous_mgr.cc) and the state  *)
(* of one RPC (rpc/grpc_state.h, call_options.cc).                         *)
(*                                                                         *)
(* Each step has a rendezvous of its own with its mutex mu_; the worker's  *)
(* steps share the free list of RpcRecvTensorCall objects, so an object    *)
(* goes from step to step.  A critical section is one model step.          *)
(* RegisterCall takes the CancellationManager's mutex inside mu_, which    *)
(* nobody can tell from one section: the callback it registers needs mu_.  *)
(* local_, a LocalRendezvous, is what its own module shows it to be: a     *)
(* store in which a tensor and its consumer meet, and which an abort       *)
(* drains.  gRPC and the peer are external: an RPC may be answered at any  *)
(* time, fail at any time, and ends once it is cancelled.                  *)
(***************************************************************************)
EXTENDS Naturals, FiniteSets, Sequences, SequencesExt

CONSTANTS Steps,
          Remotes,      \* RecvAsyncs whose key names a source on another worker
          Locals,       \* RecvLocalAsyncs: the RecvTensor requests of other workers
          SameWorker,   \* RecvAsyncs whose key names a source on this worker
          Aborters,     \* StartAborts (Cleanup, AbortStep, an error of the step)
          StepOf,       \* the step of each of these
          Cancellable,  \* steps whose CancellationManager may be cancelled
          MaxRetries,   \* max_retries of an RPC
          OK, Cancelled, Unavailable, Internal, None

Recvs == Remotes \cup Locals \cup SameWorker
Objects == 1 .. Cardinality(Remotes)   \* RpcRecvTensorCalls, as they are allocated

ASSUME RemoteAssumption ==
  /\ StepOf \in [Recvs \cup Aborters -> Steps]
  /\ Cancellable \subseteq Steps
  /\ MaxRetries \in Nat
  /\ IsFiniteSet(Remotes)
  /\ Remotes \cap (Locals \cup SameWorker) = {}
  /\ OK \notin Aborters /\ Cancelled \notin Aborters
  /\ OK \notin {Cancelled, Unavailable, Internal, None}
  /\ Cancelled \notin {Unavailable, Internal, None}

VARIABLES
  session_,       \* per step: Initialize has been called
  status_,        \* per step: OK or the StartAbort whose status it is
  active_,        \* per step: the calls that StartAbort must abort
  deferred_calls_,\* per step: RecvLocalAsyncs that came before Initialize
  local_status,   \* per step: local_'s status
  local_tensor,   \* the keys (one per RecvAsync that meets in local_) whose tensor is stored
  local_waiting,  \* the RecvAsyncs that wait in local_
  sent,           \* the keys whose Send has begun, and ended
  abort_pc,       \* StartAbort: "start", "local" (local_ is aborted), "end"
  cm,             \* per step, CancellationManager: "idle", "cancelling", "cancelled"
  callbacks,      \* per step: the RecvAsyncs whose callback is registered, or about to run
  free,           \* get_call_freelist(): a stack of calls
  allocated,      \* the number of calls ever allocated
  pc,             \* where each RecvAsync or RecvLocalAsync stands
  call,           \* the RpcRecvTensorCall of each remote RecvAsync
  call_status,    \* RpcRecvTensorCall::status_
  cancel_func,    \* CallOptions: a call whose RPC is under way can be cancelled
  try_cancelled,  \* TryCancel was called on the call's present RPC
  rpc_status,     \* what gRPC reports of the call's RPC
  retries,        \* num_retries_
  answer          \* what `done' was called with

object_vars == <<call_status, cancel_func, try_cancelled, rpc_status, retries>>
local_vars == <<local_status, local_tensor, local_waiting, sent>>
step_vars == <<session_, status_, active_, deferred_calls_>>
cm_vars == <<cm, callbacks>>
list_vars == <<free, allocated, call>>
vars == <<step_vars, local_vars, abort_pc, cm_vars, list_vars, pc, object_vars, answer>>

Init ==
  /\ session_ = [s \in Steps |-> FALSE]
  /\ status_ = [s \in Steps |-> OK]
  /\ active_ = [s \in Steps |-> {}]
  /\ deferred_calls_ = [s \in Steps |-> {}]
  /\ local_status = [s \in Steps |-> OK]
  /\ local_tensor = {} /\ local_waiting = {}
  /\ sent = [k \in Locals \cup SameWorker |-> "no"]
  /\ abort_pc = [a \in Aborters |-> "start"]
  /\ cm = [s \in Steps |-> "idle"]
  /\ callbacks = [s \in Steps |-> {}]
  /\ free = <<>> /\ allocated = 0
  /\ pc = [r \in Recvs |-> "start"]
  /\ call = [r \in Remotes |-> 0]
  /\ call_status = [o \in Objects |-> OK]
  /\ cancel_func = [o \in Objects |-> FALSE] /\ try_cancelled = [o \in Objects |-> FALSE]
  /\ rpc_status = [o \in Objects |-> OK]
  /\ retries = [o \in Objects |-> 0]
  /\ answer = [r \in Recvs |-> None]

--------------------------------------------------------------------------------
Goto(r, phase) == pc' = [pc EXCEPT ![r] = phase]

(* done(s): the last thing a RecvAsync does. *)
Done(r, s) ==
  /\ answer' = [answer EXCEPT ![r] = s]
  /\ Goto(r, "answered")

Initialize(s) ==
  /\ ~session_[s]
  /\ session_' = [session_ EXCEPT ![s] = TRUE]
  /\ deferred_calls_' = [deferred_calls_ EXCEPT ![s] = {}]
  /\ pc' = [r \in Recvs |-> IF r \in deferred_calls_[s] THEN "internal" ELSE pc[r]]
  /\ UNCHANGED <<status_, active_, local_vars, abort_pc, cm_vars, list_vars, object_vars, answer>>

(* ValidateDevices; the devices of a key are valid. *)
ValidateDevices(r) ==
  LET s == StepOf[r] IN
  /\ IF status_[s] # OK THEN Done(r, status_[s])
     ELSE IF ~session_[s] THEN Done(r, Internal)
     ELSE Goto(r, "valid") /\ UNCHANGED answer
  /\ UNCHANGED <<step_vars, local_vars, abort_pc, cm_vars, list_vars, object_vars>>

RecvAsync(r) == r \notin Locals /\ pc[r] = "start" /\ ValidateDevices(r)

RecvLocalAsync(r) ==
  LET s == StepOf[r] IN
  /\ r \in Locals /\ pc[r] = "start"
  /\ IF session_[s]
       THEN Goto(r, "internal") /\ UNCHANGED deferred_calls_
       ELSE /\ Goto(r, "deferred")
            /\ deferred_calls_' = [deferred_calls_ EXCEPT ![s] = @ \cup {r}]
  /\ UNCHANGED <<session_, status_, active_, local_vars, abort_pc, cm_vars, list_vars,
                 object_vars, answer>>

RecvLocalAsyncInternal(r) == pc[r] = "internal" /\ ValidateDevices(r)

--------------------------------------------------------------------------------
(* local_->RecvAsync: the tensor is there, or the consumer waits. *)
LocalRecv(r) ==
  /\ r \notin Remotes /\ pc[r] = "valid"
  /\ IF local_status[StepOf[r]] # OK
       THEN Done(r, local_status[StepOf[r]]) /\ UNCHANGED <<local_tensor, local_waiting>>
     ELSE IF r \in local_tensor
       THEN /\ Done(r, OK)
            /\ local_tensor' = local_tensor \ {r}
            /\ UNCHANGED local_waiting
       ELSE /\ Goto(r, "waiting")
            /\ local_waiting' = local_waiting \cup {r}
            /\ UNCHANGED <<local_tensor, answer>>
  /\ UNCHANGED <<step_vars, local_status, sent, abort_pc, cm_vars, list_vars, object_vars>>

(* Send for the key of r: the check of status_ under mu_, then local_->Send. *)
SendChecks(r) ==
  /\ sent[r] = "no" /\ session_[StepOf[r]]
  /\ sent' = [sent EXCEPT ![r] = IF status_[StepOf[r]] = OK THEN "checked" ELSE "end"]
  /\ UNCHANGED <<step_vars, local_status, local_tensor, local_waiting, abort_pc, cm_vars,
                 list_vars, pc, object_vars, answer>>

LocalSend(r) ==
  /\ sent[r] = "checked"
  /\ sent' = [sent EXCEPT ![r] = "end"]
  /\ IF local_status[StepOf[r]] # OK
       THEN UNCHANGED <<local_tensor, local_waiting, pc, answer>>
     ELSE IF r \in local_waiting
       THEN /\ Done(r, OK)
            /\ local_waiting' = local_waiting \ {r}
            /\ UNCHANGED local_tensor
       ELSE /\ local_tensor' = local_tensor \cup {r}
            /\ UNCHANGED <<local_waiting, pc, answer>>
  /\ UNCHANGED <<step_vars, local_status, abort_pc, cm_vars, list_vars, object_vars>>

--------------------------------------------------------------------------------
(* Fault: a call that is cancelled is not marked. *)
CancelOnly(os, s) ==
  /\ try_cancelled' = [o \in Objects |->
       try_cancelled[o] \/ (o \in os /\ cancel_func[o])]
  /\ UNCHANGED <<call_status, cancel_func, rpc_status, retries>>

(* The objects of os are aborted with s: status_.Update(s); opts_.StartCancel(). *)
AbortCalls(os, s) ==
  /\ call_status' = [o \in Objects |->
       IF o \in os /\ call_status[o] = OK THEN s ELSE call_status[o]]
  /\ try_cancelled' = [o \in Objects |->
       try_cancelled[o] \/ (o \in os /\ cancel_func[o])]
  /\ UNCHANGED <<cancel_func, rpc_status, retries>>

(* The callbacks left when the calls of rs are over: TryDeregisterCallback     *)
(* takes a callback out unless StartCancel has it already, and does not wait. *)
TryDeregister(s, rs) ==
  callbacks' = [callbacks EXCEPT ![s] = IF cm[s] = "idle" THEN @ \ rs ELSE @]

PopBack(s) == Front(s)

(* RecvFromRemoteAsync up to Init: New() reuses the object released last.  The *)
(* source worker may be unknown, in which case the object goes straight back.  *)
NewCall(r) ==
  LET o == IF free = <<>> THEN allocated + 1 ELSE Last(free)
      rest == IF free = <<>> THEN free ELSE PopBack(free)
  IN  /\ r \in Remotes /\ pc[r] = "valid"
      /\ allocated' = IF free = <<>> THEN allocated + 1 ELSE allocated
      /\ \/ /\ Goto(r, "inited")
            /\ free' = rest
            /\ call' = [call EXCEPT ![r] = o]
            /\ UNCHANGED answer
         \/ /\ Done(r, Internal)
            /\ free' = Append(rest, o)
            /\ UNCHANGED call
      /\ UNCHANGED <<step_vars, local_vars, abort_pc, cm_vars, object_vars>>

RegisterCall(r) ==
  LET s == StepOf[r]
      o == call[r]
  IN  /\ pc[r] = "inited"
      /\ Goto(r, "registered")
      /\ \/ /\ status_[s] # OK
            /\ AbortCalls({o}, status_[s])
            /\ UNCHANGED <<active_, callbacks>>
         \/ /\ status_[s] = OK /\ cm[s] # "idle"
            /\ AbortCalls({o}, Cancelled)
            /\ UNCHANGED <<active_, callbacks>>
         \/ /\ status_[s] = OK /\ cm[s] = "idle"
            /\ callbacks' = [callbacks EXCEPT ![s] = @ \cup {r}]
            /\ active_' = [active_ EXCEPT ![s] = @ \cup {o}]
            /\ UNCHANGED object_vars
      /\ UNCHANGED <<session_, status_, deferred_calls_, local_vars, abort_pc, cm, list_vars,
                     answer>>

(* Release: Reset, and back to the free list. *)
Release(r) ==
  /\ free' = Append(free, call[r])
  /\ call_status' = [call_status EXCEPT ![call[r]] = OK]
  /\ UNCHANGED <<allocated, call, cancel_func, try_cancelled, rpc_status, retries>>

(* After RegisterCall: a call that was aborted is not started. *)
CheckStatus(r) ==
  /\ pc[r] = "registered"
  /\ IF call_status[call[r]] # OK
       THEN Done(r, call_status[call[r]]) /\ Release(r)
       ELSE Goto(r, "starting") /\ UNCHANGED <<answer, list_vars, object_vars>>
  /\ UNCHANGED <<step_vars, local_vars, abort_pc, cm_vars>>

(* RPCState::StartCall: SetCancelCallback, and the request is out. *)
StartCall(r) ==
  /\ pc[r] = "starting"
  /\ Goto(r, "rpc")
  /\ cancel_func' = [cancel_func EXCEPT ![call[r]] = TRUE]
  /\ try_cancelled' = [try_cancelled EXCEPT ![call[r]] = FALSE]
  /\ UNCHANGED <<step_vars, local_vars, abort_pc, cm_vars, list_vars, call_status, rpc_status,
                 retries, answer>>

(* gRPC ends the call: answered by the peer, lost, or cancelled. *)
RpcEnds(r, s) ==
  /\ pc[r] = "rpc"
  /\ s = Cancelled => try_cancelled[call[r]]
  /\ Goto(r, "completed")
  /\ rpc_status' = [rpc_status EXCEPT ![call[r]] = s]
  /\ UNCHANGED <<step_vars, local_vars, abort_pc, cm_vars, list_vars, call_status, cancel_func,
                 try_cancelled, retries, answer>>

RetriesLeft(o) == retries[o] < MaxRetries

(* OnCompleted: ClearCancelCallback; a lost call is sent again. *)
OnCompleted(r) ==
  LET o == call[r]
      retry == rpc_status[o] = Unavailable /\ RetriesLeft(o)
  IN  /\ pc[r] = "completed"
      /\ cancel_func' = [cancel_func EXCEPT ![o] = FALSE]
      /\ retries' = [retries EXCEPT ![o] = IF retry THEN @ + 1 ELSE 0]
      /\ Goto(r, IF retry THEN "starting" ELSE IF rpc_status[o] = OK THEN "deregister" ELSE "failing")
      /\ UNCHANGED <<step_vars, local_vars, abort_pc, cm_vars, list_vars, call_status,
                     try_cancelled, rpc_status, answer>>

(* StartRTCall's callback: status_.Update(s). *)
UpdateStatus(r) ==
  LET o == call[r] IN
  /\ pc[r] = "failing"
  /\ Goto(r, "deregister")
  /\ call_status' = [call_status EXCEPT ![o] = IF @ = OK THEN rpc_status[o] ELSE @]
  /\ UNCHANGED <<step_vars, local_vars, abort_pc, cm_vars, list_vars, cancel_func,
                 try_cancelled, rpc_status, retries, answer>>

DeregisterCall(r) ==
  LET s == StepOf[r] IN
  /\ pc[r] = "deregister"
  /\ Goto(r, "finish")
  /\ IF call[r] \in active_[s]
       THEN /\ active_' = [active_ EXCEPT ![s] = @ \ {call[r]}]
            /\ TryDeregister(s, {r})
       ELSE UNCHANGED <<active_, callbacks>>
  /\ UNCHANGED <<session_, status_, deferred_calls_, local_vars, abort_pc, cm, list_vars,
                 object_vars, answer>>

(* The rest of the callback given to Start: status, ReleaseWorker, done, Release. *)
Finish(r) ==
  /\ pc[r] = "finish"
  /\ Done(r, call_status[call[r]])
  /\ Release(r)
  /\ UNCHANGED <<step_vars, local_vars, abort_pc, cm_vars>>

--------------------------------------------------------------------------------
(* Fault: local_ does not remember that it was aborted. *)
LocalForgets(s, a) == UNCHANGED local_status

LocalRemembers(s, a) ==
  local_status' = [local_status EXCEPT ![s] = IF @ = OK THEN a ELSE @]

(* StartAbort: first local_, whose waiters are told, *)
AbortLocal(a) ==
  LET s == StepOf[a]
      told == {r \in local_waiting : StepOf[r] = s}
  IN  /\ abort_pc[a] = "start"
      /\ abort_pc' = [abort_pc EXCEPT ![a] = "local"]
      /\ LocalRemembers(s, a)
      /\ local_waiting' = local_waiting \ told
      /\ local_tensor' = {r \in local_tensor : StepOf[r] # s}
      /\ pc' = [r \in Recvs |-> IF r \in told THEN "answered" ELSE pc[r]]
      /\ answer' = [r \in Recvs |-> IF r \in told THEN a ELSE answer[r]]
      /\ UNCHANGED <<step_vars, sent, cm_vars, list_vars, object_vars>>

(* then, under mu_, the calls to other workers. *)
AbortActive(a) ==
  LET s == StepOf[a] IN
  /\ abort_pc[a] = "local"
  /\ abort_pc' = [abort_pc EXCEPT ![a] = "end"]
  /\ IF status_[s] = OK
       THEN /\ status_' = [status_ EXCEPT ![s] = a]
            /\ AbortCalls(active_[s], a)
            /\ TryDeregister(s, {r \in Remotes : call[r] \in active_[s]})
            /\ active_' = [active_ EXCEPT ![s] = {}]
       ELSE UNCHANGED <<status_, object_vars, callbacks, active_>>
  /\ UNCHANGED <<session_, deferred_calls_, local_vars, cm, list_vars, pc, answer>>

(* The step is cancelled: StartCancel and the callbacks of RegisterCall. *)
StartCancel(s) ==
  /\ s \in Cancellable /\ cm[s] = "idle"
  /\ cm' = [cm EXCEPT ![s] = "cancelling"]
  /\ UNCHANGED <<step_vars, local_vars, abort_pc, callbacks, list_vars, pc, object_vars, answer>>

(* Fault: a callback aborts its call without looking for it in active_. *)
FoundAnyway(s, o) == TRUE

FoundActive(s, o) == o \in active_[s]

CancelCallback(s) ==
  /\ cm[s] = "cancelling"
  /\ \E r \in callbacks[s] :
       /\ callbacks' = [callbacks EXCEPT ![s] = @ \ {r}]
       /\ IF FoundActive(s, call[r])
            THEN AbortCalls({call[r]}, Cancelled)
            ELSE UNCHANGED object_vars
  /\ UNCHANGED <<step_vars, local_vars, abort_pc, cm, list_vars, pc, answer>>

CancelEnds(s) ==
  /\ cm[s] = "cancelling" /\ callbacks[s] = {}
  /\ cm' = [cm EXCEPT ![s] = "cancelled"]
  /\ UNCHANGED <<step_vars, local_vars, abort_pc, callbacks, list_vars, pc, object_vars, answer>>

--------------------------------------------------------------------------------
RemoteStep(r) ==
  \/ NewCall(r) \/ RegisterCall(r) \/ CheckStatus(r) \/ StartCall(r)
  \/ RpcEnds(r, Cancelled)
  \/ OnCompleted(r) \/ UpdateStatus(r) \/ DeregisterCall(r) \/ Finish(r)

LocalStep(r) == RecvLocalAsyncInternal(r) \/ LocalRecv(r)

Next ==
  \/ \E s \in Steps : Initialize(s) \/ StartCancel(s) \/ CancelCallback(s) \/ CancelEnds(s)
  \/ \E r \in Recvs : RecvAsync(r) \/ RecvLocalAsync(r)
  \/ \E r \in Remotes : RemoteStep(r) \/ RpcEnds(r, OK) \/ RpcEnds(r, Unavailable)
  \/ \E r \in Locals \cup SameWorker : LocalStep(r) \/ SendChecks(r) \/ LocalSend(r)
  \/ \E a \in Aborters : AbortLocal(a) \/ AbortActive(a)

(* A thread inside a call goes on, and an RPC that is cancelled ends.  Nobody *)
(* has to call, and no peer has to answer.                                    *)
Fairness ==
  /\ \A r \in Remotes : WF_vars(RemoteStep(r))
  /\ \A r \in Locals \cup SameWorker : WF_vars(LocalStep(r)) /\ WF_vars(LocalSend(r))
  /\ \A a \in Aborters : WF_vars(AbortActive(a))
  /\ \A s \in Steps : WF_vars(CancelCallback(s)) /\ WF_vars(CancelEnds(s))

Spec == Init /\ [][Next]_vars
FairSpec == Spec /\ Fairness

--------------------------------------------------------------------------------
Underway == {"registered", "starting", "rpc", "completed", "failing",
             "deregister"}

(* One step at most has been cancelled. *)
OneCancelled == \A s, t \in Steps : cm[s] # "idle" /\ cm[t] # "idle" => s = t

(* The cancellation of a step is never reported by a RecvAsync of another,   *)
(* although TryDeregisterCallback does not wait: the callback may run when   *)
(* its call is over and the call object is another step's.  Stated as long   *)
(* as one step at most has been cancelled: a call that is cancelled before   *)
(* its RPC is released without DeregisterCall (rpc_rendezvous_mgr.cc:261),   *)
(* so an abort of its step can mark a second step's call and by that leave   *)
(* an entry behind in that step's active_, with a callback that reaches a    *)
(* third step's call when the second is cancelled too.                       *)
CancelIsLocal ==
  OneCancelled => \A r \in Recvs : answer[r] = Cancelled => cm[StepOf[r]] # "idle"

(* "If StartAbort was called prior to DeregisterCall, then the current status *)
(* should be bad": a call that is not in active_ although it has not been     *)
(* deregistered carries an error, so its tensor is not passed on.             *)
AbortLeavesMark ==
  \A r \in Remotes :
    pc[r] \in Underway =>
      call[r] \in active_[StepOf[r]] \/ call_status[call[r]] # OK

(* Consumers that meet their producer in local_ of an initialized step are    *)
(* answered when the step is aborted, wherever the abort finds them.          *)
AbortAnswersLocal ==
  \A r \in Locals \cup SameWorker :
    (/\ pc[r] \notin {"start", "deferred"}
     /\ \E a \in Aborters : StepOf[a] = StepOf[r] /\ abort_pc[a] # "start")
      ~> (pc[r] = "answered")
================================================================================
