-------------------------- MODULE CancellationClients --------------------------
(***************************************************************************)
(* A CancellationManager under the usage pattern its header recommends:    *)
(* each client takes a token, registers a callback and, when its operation *)
(* is over, deregisters it, with DeregisterCallback (and then frees what   *)
(* the callback uses) or with TryDeregisterCallback, while other threads   *)
(* call StartCancel.                                                       *)
(***************************************************************************)
EXTENDS CancellationManager

CONSTANT Clients

VARIABLES
  client_pc,   \* where each client stands
  token,       \* its cancellation token
  registered,  \* RegisterCallback returned true
  result,      \* what (Try)DeregisterCallback returned
  invoked      \* history: how often its callback has been entered

client_vars == <<client_pc, token, registered, result, invoked>>
vars == <<cm_vars, client_vars>>

TypeOK ==
  /\ CmTypeOK
  /\ client_pc \in [Clients -> {"start", "token", "running", "waiting", "freed", "left"}]
  /\ token \in [Clients -> Nat \cup {kInvalidToken}]
  /\ registered \in [Clients -> BOOLEAN]
  /\ result \in [Clients -> BOOLEAN]
  /\ invoked \in [Clients -> Nat]

Init ==
  /\ CmInit
  /\ client_pc = [c \in Clients |-> "start"]
  /\ token = [c \in Clients |-> kInvalidToken]
  /\ registered = [c \in Clients |-> FALSE]
  /\ result = [c \in Clients |-> FALSE]
  /\ invoked = [c \in Clients |-> 0]

Goto(c, from, to) ==
  /\ client_pc[c] = from
  /\ client_pc' = [client_pc EXCEPT ![c] = to]

GetToken(c) ==
  /\ Goto(c, "start", "token")
  /\ token' = [token EXCEPT ![c] = next_cancellation_token]
  /\ get_cancellation_token
  /\ UNCHANGED <<registered, result, invoked>>

Register(c) ==
  /\ Goto(c, "token", "running")
  /\ registered' = [registered EXCEPT ![c] = ShouldRegister]
  /\ RegisterCallback(token[c])
  /\ UNCHANGED <<token, result, invoked>>

(* The client's operation ends; "freed": what the callback uses is gone. *)
Deregister(c) ==
  /\ \/ /\ Goto(c, "running", "freed")
        /\ DeregisterReturnsTrue(token[c])
        /\ result' = [result EXCEPT ![c] = TRUE]
     \/ /\ Goto(c, "running", "freed")
        /\ DeregisterReturnsFalse
        /\ UNCHANGED result
     \/ /\ Goto(c, "running", "waiting")
        /\ DeregisterWaits
        /\ UNCHANGED result
  /\ UNCHANGED <<token, registered, invoked>>

DeregisterReturns(c) ==
  /\ Goto(c, "waiting", "freed")
  /\ DeregisterWakes
  /\ UNCHANGED <<token, registered, result, invoked>>

(* "left": the client goes on without waiting for its callback. *)
TryDeregister(c) ==
  /\ Goto(c, "running", "left")
  /\ TryDeregisterCallback(token[c])
  /\ result' = [result EXCEPT ![c] = ShouldRegister]
  /\ UNCHANGED <<token, registered, invoked>>

RunCallback(t, k) ==
  /\ CallbackBegin(t, k)
  /\ invoked' = [c \in Clients |-> IF token[c] = k THEN invoked[c] + 1 ELSE invoked[c]]
  /\ UNCHANGED <<client_pc, token, registered, result>>

ClientNext ==
  \E c \in Clients :
    \/ GetToken(c)
    \/ Register(c)
    \/ Deregister(c)
    \/ DeregisterReturns(c)
    \/ TryDeregister(c)

CancelNext ==
  \E t \in Cancellers :
    \/ StartCancel(t) /\ UNCHANGED client_vars
    \/ \E k \in callbacks_to_run[t] : RunCallback(t, k)
    \/ CallbackEnd(t) /\ UNCHANGED client_vars
    \/ StartCancelFinish(t) /\ UNCHANGED client_vars
    \/ StartCancelNotify(t) /\ UNCHANGED client_vars

Next == ClientNext \/ CancelNext

Spec == Init /\ [][Next]_vars

(* A StartCancel that has begun is a running thread, and a callback returns  *)
(* (the header forbids it to block on the manager); nobody is obliged to     *)
(* call StartCancel or to end an operation.                                  *)
Fairness ==
  /\ \A t \in Cancellers :
       /\ WF_vars(\E k \in callbacks_to_run[t] : RunCallback(t, k))
       /\ WF_vars(CallbackEnd(t) /\ UNCHANGED client_vars)
       /\ WF_vars(StartCancelFinish(t) /\ UNCHANGED client_vars)
       /\ WF_vars(StartCancelNotify(t) /\ UNCHANGED client_vars)
  /\ \A c \in Clients : WF_vars(DeregisterReturns(c))

FairSpec == Spec /\ Fairness

--------------------------------------------------------------------------------
(* When DeregisterCallback has returned, true or false, the callback is not  *)
(* running and will never be entered again: the caller may free what it uses *)
(* (cancellation.cc:79, "This wait ensures that the caller ... does not      *)
(* return immediately and free objects that may be used").                   *)
SafeToFree ==
  \A c \in Clients : client_pc[c] = "freed" => ~CallbackLive(token[c])

(* What DeregisterCallback returns is exact: true iff the callback never     *)
(* ran, and false, for a callback that had been registered, only after it    *)
(* has run, once (cancellation.h:117).                                       *)
DeregisterResultExact ==
  \A c \in Clients :
    client_pc[c] = "freed" /\ registered[c] =>
      invoked[c] = (IF result[c] THEN 0 ELSE 1)

(* TryDeregisterCallback true: the callback never runs, although the call    *)
(* does not wait; and no callback is ever entered twice, nor one whose       *)
(* registration was refused.                                                 *)
CallbackAccounting ==
  \A c \in Clients :
    /\ client_pc[c] = "left" /\ result[c] => invoked[c] = 0 /\ ~CallbackLive(token[c])
    /\ invoked[c] <= (IF registered[c] THEN 1 ELSE 0)

(* Cancellation completes: every callback registered when StartCancel        *)
(* claimed the map is run, and a client blocked in DeregisterCallback gets   *)
(* to return, in the window between is_cancelled_ and the notification too.  *)
CancellationCompletes ==
  \A c \in Clients :
    /\ (client_pc[c] = "waiting") ~> (client_pc[c] = "freed")
    /\ (is_cancelling /\ registered[c]) ~> (result[c] \/ invoked[c] = 1)

(* cancellation.h:59 documents IsCancelled(): "Returns true iff              *)
(* StartCancel() has been called."  On the most lenient reading a call of    *)
(* StartCancel that has returned has been made: IsCancelled() then is true.  *)
IsCancelledAsDocumented ==
  (\E t \in Cancellers : cancel_pc[t] = "returned") => is_cancelled
================================================================================
