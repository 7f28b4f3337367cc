-------------------------- MODULE CancellationManager --------------------------
(***************************************************************************)
(* The state and the operations of tensorflow::CancellationManager         *)
(* (core/framework/cancellation.{h,cc}).  Every operation is one critical  *)
(* section of mu_, except StartCancel, which releases mu_ to run the       *)
(* callbacks, and DeregisterCallback, which may wait for the notification. *)
(*                                                                         *)
(* The module has no Next of its own: CancellationClients drives it with   *)
(* arbitrary clients, LocalRendezvous with the waiters of RecvAsync.       *)
(***************************************************************************)
EXTENDS Integers

CONSTANTS Cancellers,   \* the threads that call StartCancel, once each
          NoToken       \* "no callback is being run" in `running'

ASSUME NoTokenAssumption == NoToken \notin Int

VARIABLES
  is_cancelling,            \* is_cancelling_
  is_cancelled,             \* is_cancelled_
  cancelled_notification,   \* cancelled_notification_ has been notified
  next_cancellation_token,  \* next_cancellation_token_
  callbacks,                \* the keys of callbacks_; the closure is named by its token
  callbacks_to_run,         \* StartCancel's local map, what is left of the loop
  running,                  \* the callback each StartCancel is inside of
  cancel_pc                 \* where each StartCancel stands

cm_vars == <<is_cancelling, is_cancelled, cancelled_notification,
             next_cancellation_token, callbacks, callbacks_to_run, running, cancel_pc>>

(* What StartCancel alone changes. *)
start_cancel_vars == <<callbacks_to_run, running, cancel_pc>>

kInvalidToken == -1

CmTypeOK ==
  /\ is_cancelling \in BOOLEAN
  /\ is_cancelled \in BOOLEAN
  /\ cancelled_notification \in BOOLEAN
  /\ next_cancellation_token \in Nat
  /\ callbacks \in SUBSET Nat
  /\ callbacks_to_run \in [Cancellers -> SUBSET Nat]
  /\ running \in [Cancellers -> Nat \cup {NoToken}]
  /\ cancel_pc \in [Cancellers -> {"idle", "loop", "notify", "returned"}]

CmInit ==
  /\ is_cancelling = FALSE
  /\ is_cancelled = FALSE
  /\ cancelled_notification = FALSE
  /\ next_cancellation_token = 0
  /\ callbacks = {}
  /\ callbacks_to_run = [t \in Cancellers |-> {}]
  /\ running = [t \in Cancellers |-> NoToken]
  /\ cancel_pc = [t \in Cancellers |-> "idle"]

--------------------------------------------------------------------------------
(* StartCancel, in the four stretches the locks cut it into. *)

(* First critical section: return at once, or claim the callbacks. *)
StartCancel(t) ==
  /\ cancel_pc[t] = "idle"
  /\ IF is_cancelled \/ is_cancelling
     THEN /\ cancel_pc' = [cancel_pc EXCEPT ![t] = "returned"]
          /\ UNCHANGED <<is_cancelling, callbacks, callbacks_to_run>>
     ELSE /\ is_cancelling' = TRUE
          /\ callbacks_to_run' = [callbacks_to_run EXCEPT ![t] = callbacks]
          /\ callbacks' = {}
          /\ cancel_pc' = [cancel_pc EXCEPT ![t] = "loop"]
  /\ UNCHANGED <<is_cancelled, cancelled_notification, next_cancellation_token, running>>

(* The loop calls the callback of token k, without mu_, ... *)
CallbackBegin(t, k) ==
  /\ cancel_pc[t] = "loop"
  /\ running[t] = NoToken
  /\ k \in callbacks_to_run[t]
  /\ callbacks_to_run' = [callbacks_to_run EXCEPT ![t] = @ \ {k}]
  /\ running' = [running EXCEPT ![t] = k]
  /\ UNCHANGED <<is_cancelling, is_cancelled, cancelled_notification,
                 next_cancellation_token, callbacks, cancel_pc>>

(* ... and the callback returns. *)
CallbackEnd(t) ==
  /\ running[t] # NoToken
  /\ running' = [running EXCEPT ![t] = NoToken]
  /\ UNCHANGED <<is_cancelling, is_cancelled, cancelled_notification,
                 next_cancellation_token, callbacks, callbacks_to_run, cancel_pc>>

(* Fault: the waiters of DeregisterCallback are never notified. *)
StartCancelFinishForgetsNotify(t) ==
  /\ cancel_pc[t] = "loop"
  /\ running[t] = NoToken
  /\ callbacks_to_run[t] = {}
  /\ is_cancelling' = FALSE
  /\ is_cancelled' = TRUE
  /\ cancel_pc' = [cancel_pc EXCEPT ![t] = "returned"]
  /\ UNCHANGED <<cancelled_notification, next_cancellation_token, callbacks,
                 callbacks_to_run, running>>

(* Second critical section, after the loop. *)
StartCancelFinish(t) ==
  /\ cancel_pc[t] = "loop"
  /\ running[t] = NoToken
  /\ callbacks_to_run[t] = {}
  /\ is_cancelling' = FALSE
  /\ is_cancelled' = TRUE
  /\ cancel_pc' = [cancel_pc EXCEPT ![t] = "notify"]
  /\ UNCHANGED <<cancelled_notification, next_cancellation_token, callbacks,
                 callbacks_to_run, running>>

(* The notification comes after mu_ is released. *)
StartCancelNotify(t) ==
  /\ cancel_pc[t] = "notify"
  /\ cancelled_notification' = TRUE
  /\ cancel_pc' = [cancel_pc EXCEPT ![t] = "returned"]
  /\ UNCHANGED <<is_cancelling, is_cancelled, next_cancellation_token, callbacks,
                 callbacks_to_run, running>>

--------------------------------------------------------------------------------
(* The operations of the clients. *)

(* Fault: the tokens count down. *)
get_cancellation_token_counts_down ==
  /\ next_cancellation_token' = next_cancellation_token - 1
  /\ UNCHANGED <<is_cancelling, is_cancelled, cancelled_notification, callbacks,
                 start_cancel_vars>>

get_cancellation_token ==
  /\ next_cancellation_token' = next_cancellation_token + 1
  /\ UNCHANGED <<is_cancelling, is_cancelled, cancelled_notification, callbacks,
                 start_cancel_vars>>

(* Fault: a callback is accepted while the others are being run. *)
ShouldRegisterIgnoresCancelling == ~is_cancelled

ShouldRegister == ~is_cancelled /\ ~is_cancelling

(* RegisterCallback(k) returns ShouldRegister; the CHECK_LT is its precondition. *)
RegisterCallback(k) ==
  /\ k < next_cancellation_token
  /\ callbacks' = IF ShouldRegister THEN callbacks \cup {k} ELSE callbacks
  /\ UNCHANGED <<is_cancelling, is_cancelled, cancelled_notification,
                 next_cancellation_token, start_cancel_vars>>

(* The three ways through DeregisterCallback(k). *)
DeregisterReturnsTrue(k) ==
  /\ ~is_cancelled /\ ~is_cancelling
  /\ callbacks' = callbacks \ {k}
  /\ UNCHANGED <<is_cancelling, is_cancelled, cancelled_notification,
                 next_cancellation_token, start_cancel_vars>>

(* Fault: DeregisterCallback does not wait for the running callbacks. *)
DeregisterReturnsFalseEarly ==
  /\ is_cancelled \/ is_cancelling
  /\ UNCHANGED cm_vars

DeregisterReturnsFalse ==
  /\ is_cancelled
  /\ UNCHANGED cm_vars

DeregisterWaits ==
  /\ ~is_cancelled /\ is_cancelling
  /\ UNCHANGED cm_vars

(* cancelled_notification_.WaitForNotification() *)
DeregisterWakes ==
  /\ cancelled_notification
  /\ UNCHANGED cm_vars

(* Fault: the callback stays in the map. *)
TryDeregisterCallbackKeeps(k) == UNCHANGED cm_vars

(* TryDeregisterCallback(k) returns ShouldRegister and never waits. *)
TryDeregisterCallback(k) ==
  /\ callbacks' = IF is_cancelled \/ is_cancelling THEN callbacks ELSE callbacks \ {k}
  /\ UNCHANGED <<is_cancelling, is_cancelled, cancelled_notification,
                 next_cancellation_token, start_cancel_vars>>

(* The callback of token k may still be entered, or is being run. *)
CallbackLive(k) ==
  \/ k \in callbacks
  \/ \E t \in Cancellers : k \in callbacks_to_run[t] \/ running[t] = k

(* At most one StartCancel is inside its loop, between the two critical      *)
(* sections; the flags say which side of it we are on, and once the loop has *)
(* begun callbacks_ is empty for good.                                       *)
CancelPhase ==
  /\ \A t \in Cancellers : cancel_pc[t] = "loop" => is_cancelling /\ ~is_cancelled
  /\ \A t, u \in Cancellers : cancel_pc[t] = "loop" /\ cancel_pc[u] = "loop" => t = u
  /\ \A t \in Cancellers : cancel_pc[t] # "loop" =>
       callbacks_to_run[t] = {} /\ running[t] = NoToken
  /\ \A t \in Cancellers : cancel_pc[t] = "notify" => is_cancelled
  /\ is_cancelled => ~is_cancelling
  /\ is_cancelled \/ is_cancelling => callbacks = {}
  /\ cancelled_notification => is_cancelled
================================================================================
