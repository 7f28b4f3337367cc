--------------------------- MODULE CancellationProofs ---------------------------
(***************************************************************************)
(* Proofs about CancellationClients, for any number of clients and of      *)
(* threads that call StartCancel.                                          *)
(***************************************************************************)
EXTENDS CancellationClients, TLAPS

(* Tokens are handed out once, and every callback is filed under one of them. *)
TokensUnique ==
  /\ \A k \in callbacks : k < next_cancellation_token
  /\ \A t \in Cancellers : \A k \in callbacks_to_run[t] : k < next_cancellation_token
  /\ \A t \in Cancellers : running[t] # NoToken => running[t] < next_cancellation_token
  /\ \A c \in Clients : token[c] < next_cancellation_token
  /\ \A c \in Clients : (token[c] = kInvalidToken) <=> (client_pc[c] = "start")
  /\ \A c, d \in Clients : token[c] = token[d] /\ c # d => token[c] = kInvalidToken

(* Where the callback of a client can be, and what that says of the client. *)
CallbackPlaceOf(c) ==
  /\ token[c] \in callbacks =>
       registered[c] /\ ~result[c] /\ invoked[c] = 0 /\ client_pc[c] = "running"
  /\ \A t \in Cancellers :
       /\ token[c] \in callbacks_to_run[t] =>
            registered[c] /\ ~result[c] /\ invoked[c] = 0
              /\ client_pc[c] \in {"running", "waiting", "left"}
       /\ running[t] = token[c] =>
            registered[c] /\ ~result[c] /\ invoked[c] = 1
              /\ client_pc[c] \in {"running", "waiting", "left"}
  /\ client_pc[c] \in {"start", "token"} =>
       ~registered[c] /\ ~result[c] /\ invoked[c] = 0
  /\ client_pc[c] \in {"running", "waiting"} =>
       /\ ~result[c]
       /\ registered[c] =>
            \/ invoked[c] = 1
            \/ /\ invoked[c] = 0
               /\ \/ token[c] \in callbacks
                  \/ \E t \in Cancellers : token[c] \in callbacks_to_run[t]
  /\ client_pc[c] = "left" /\ result[c] => invoked[c] = 0
  /\ client_pc[c] = "freed" /\ registered[c] =>
       invoked[c] = (IF result[c] THEN 0 ELSE 1)
  /\ ~registered[c] => invoked[c] = 0
  /\ invoked[c] <= 1
  /\ invoked[c] = 1 => is_cancelling \/ is_cancelled

CallbackPlace == \A c \in Clients : CallbackPlaceOf(c)

IInv == TypeOK /\ CancelPhase /\ TokensUnique /\ CallbackPlace

--------------------------------------------------------------------------------
(* The inductive invariant holds initially. *)
LEMMA InitIInv == Init => IInv
  <1> SUFFICES ASSUME Init PROVE IInv
    OBVIOUS
  <1> USE NoTokenAssumption DEF Init, CmInit, kInvalidToken
  <1>1. TypeOK
    BY DEF TypeOK, CmTypeOK
  <1>2. CancelPhase
    BY DEF CancelPhase
  <1>3. TokensUnique
    BY DEF TokensUnique
  <1>4. CallbackPlace
    BY DEF CallbackPlace, CallbackPlaceOf
  <1> QED
    BY <1>1, <1>2, <1>3, <1>4 DEF IInv

(* Every step, of a client or of a StartCancel, preserves it. *)
LEMMA NextIInv == IInv /\ [Next]_vars => IInv'
  <1> SUFFICES ASSUME TypeOK, CancelPhase, TokensUnique, CallbackPlace, [Next]_vars
               PROVE  IInv'
    BY DEF IInv
  <1> USE NoTokenAssumption DEF IInv, start_cancel_vars, client_vars, cm_vars
  <1>1. ASSUME NEW c \in Clients, GetToken(c) PROVE IInv'
    <2> USE <1>1 DEF GetToken, Goto, get_cancellation_token
    <2>1. TypeOK'
      BY DEF TypeOK, CmTypeOK, TokensUnique, kInvalidToken
    <2>2. CancelPhase'
      BY DEF TypeOK, CmTypeOK, CancelPhase
    <2>3. TokensUnique'
      BY DEF TypeOK, CmTypeOK, TokensUnique, kInvalidToken
    <2>4. CallbackPlace'
      BY DEF TypeOK, CmTypeOK, CancelPhase, TokensUnique, CallbackPlace, CallbackPlaceOf,
          kInvalidToken
    <2> QED
      BY <2>1, <2>2, <2>3, <2>4
  <1>2. ASSUME NEW c \in Clients, Register(c) PROVE IInv'
    <2> USE <1>2 DEF Register, Goto, RegisterCallback, ShouldRegister
    <2>1. TypeOK'
      BY DEF TypeOK, CmTypeOK, TokensUnique, kInvalidToken
    <2>2. CancelPhase'
      BY DEF TypeOK, CmTypeOK, CancelPhase
    <2>3. TokensUnique'
      BY DEF TypeOK, CmTypeOK, TokensUnique, kInvalidToken
    <2>4. CallbackPlace'
      <3> SUFFICES ASSUME NEW d \in Clients PROVE CallbackPlaceOf(d)'
        BY DEF CallbackPlace
      <3> USE DEF TypeOK, CmTypeOK, CancelPhase, TokensUnique, CallbackPlace,
                  CallbackPlaceOf, kInvalidToken
      <3>1. CASE d = c
        <4>1. CASE ShouldRegister
          <5>1. registered' = [registered EXCEPT ![c] = TRUE] /\ callbacks' = callbacks \cup {token[c]}
            BY <4>1
          <5> QED
            BY <3>1, <5>1
        <4>2. CASE ~ShouldRegister
          <5>1. registered' = [registered EXCEPT ![c] = FALSE] /\ callbacks' = {}
            BY <4>2
          <5> QED
            BY <3>1, <5>1
        <4> QED
          BY <4>1, <4>2
      <3>2. CASE d # c
        BY <3>2
      <3> QED
        BY <3>1, <3>2
    <2> QED
      BY <2>1, <2>2, <2>3, <2>4
  <1>3. ASSUME NEW c \in Clients, Deregister(c) PROVE IInv'
    <2> USE DEF Goto
    <2>1. CASE DeregisterReturnsTrue(token[c])
      <3> USE <1>3, <2>1 DEF Deregister, DeregisterReturnsTrue, DeregisterReturnsFalse,
                             DeregisterWaits
      <3>1. TypeOK'
        BY DEF TypeOK, CmTypeOK
      <3>2. CancelPhase'
        BY DEF TypeOK, CmTypeOK, CancelPhase
      <3>3. TokensUnique'
        BY DEF TypeOK, CmTypeOK, TokensUnique, kInvalidToken
      <3>4. CallbackPlace'
        <4> SUFFICES ASSUME NEW d \in Clients PROVE CallbackPlaceOf(d)'
          BY DEF CallbackPlace
        <4> USE DEF TypeOK, CmTypeOK, CancelPhase, TokensUnique, CallbackPlace,
                    CallbackPlaceOf, kInvalidToken
        <4>1. CASE d = c
          BY <4>1
        <4>2. CASE d # c
          BY <4>2
        <4> QED
          BY <4>1, <4>2
      <3> QED
        BY <3>1, <3>2, <3>3, <3>4
    <2>2. CASE ~DeregisterReturnsTrue(token[c])
      <3>1. /\ is_cancelled \/ is_cancelling
            /\ UNCHANGED <<cm_vars, token, registered, result, invoked>>
            /\ client_pc[c] = "running"
            /\ client_pc' = [client_pc EXCEPT ![c] = IF is_cancelled THEN "freed" ELSE "waiting"]
        BY <1>3, <2>2 DEF Deregister, DeregisterReturnsFalse, DeregisterWaits
      <3> USE <3>1
      <3>2. TypeOK'
        BY DEF TypeOK, CmTypeOK
      <3>3. CancelPhase' /\ TokensUnique'
        BY DEF TypeOK, CmTypeOK, CancelPhase, TokensUnique, kInvalidToken
      <3>4. CallbackPlace'
        BY DEF TypeOK, CmTypeOK, CancelPhase, TokensUnique, CallbackPlace, CallbackPlaceOf,
          kInvalidToken
      <3> QED
        BY <3>2, <3>3, <3>4
    <2> QED
      BY <2>1, <2>2
  <1>4. ASSUME NEW c \in Clients, DeregisterReturns(c) PROVE IInv'
    <2> USE <1>4 DEF DeregisterReturns, Goto, DeregisterWakes
    <2>1. TypeOK'
      BY DEF TypeOK, CmTypeOK, TokensUnique, kInvalidToken
    <2>2. CancelPhase'
      BY DEF TypeOK, CmTypeOK, CancelPhase
    <2>3. TokensUnique'
      BY DEF TypeOK, CmTypeOK, TokensUnique, kInvalidToken
    <2>4. CallbackPlace'
      BY DEF TypeOK, CmTypeOK, CancelPhase, TokensUnique, CallbackPlace, CallbackPlaceOf,
          kInvalidToken
    <2> QED
      BY <2>1, <2>2, <2>3, <2>4
  <1>5. ASSUME NEW c \in Clients, TryDeregister(c) PROVE IInv'
    <2> USE <1>5 DEF TryDeregister, Goto, TryDeregisterCallback, ShouldRegister
    <2>1. TypeOK'
      BY DEF TypeOK, CmTypeOK, TokensUnique, kInvalidToken
    <2>2. CancelPhase'
      BY DEF TypeOK, CmTypeOK, CancelPhase
    <2>3. TokensUnique'
      BY DEF TypeOK, CmTypeOK, TokensUnique, kInvalidToken
    <2>4. CallbackPlace'
      <3> SUFFICES ASSUME NEW d \in Clients PROVE CallbackPlaceOf(d)'
        BY DEF CallbackPlace
      <3> USE DEF TypeOK, CmTypeOK, CancelPhase, TokensUnique, CallbackPlace,
                  CallbackPlaceOf, kInvalidToken
      <3>1. CASE d = c
        BY <3>1
      <3>2. CASE d # c
        BY <3>2
      <3> QED
        BY <3>1, <3>2
    <2> QED
      BY <2>1, <2>2, <2>3, <2>4
  <1>6. ASSUME NEW t \in Cancellers, StartCancel(t), UNCHANGED client_vars PROVE IInv'
    <2> USE <1>6 DEF StartCancel
    <2>1. TypeOK'
      BY DEF TypeOK, CmTypeOK, TokensUnique, kInvalidToken
    <2>2. CancelPhase'
      BY DEF TypeOK, CmTypeOK, CancelPhase
    <2>3. TokensUnique'
      BY DEF TypeOK, CmTypeOK, TokensUnique, kInvalidToken
    <2>4. CallbackPlace'
      BY DEF TypeOK, CmTypeOK, CancelPhase, TokensUnique, CallbackPlace, CallbackPlaceOf,
          kInvalidToken
    <2> QED
      BY <2>1, <2>2, <2>3, <2>4
  <1>7. ASSUME NEW t \in Cancellers, NEW k \in callbacks_to_run[t], RunCallback(t, k) PROVE IInv'
    <2> USE <1>7 DEF RunCallback, CallbackBegin
    <2>1. TypeOK'
      BY DEF TypeOK, CmTypeOK, TokensUnique, kInvalidToken
    <2>2. CancelPhase'
      BY DEF TypeOK, CmTypeOK, CancelPhase
    <2>3. TokensUnique'
      BY DEF TypeOK, CmTypeOK, TokensUnique, kInvalidToken
    <2>4. CallbackPlace'
      BY DEF TypeOK, CmTypeOK, CancelPhase, TokensUnique, CallbackPlace, CallbackPlaceOf,
          kInvalidToken
    <2> QED
      BY <2>1, <2>2, <2>3, <2>4
  <1>8. ASSUME NEW t \in Cancellers, CallbackEnd(t), UNCHANGED client_vars PROVE IInv'
    <2> USE <1>8 DEF CallbackEnd
    <2>1. TypeOK'
      BY DEF TypeOK, CmTypeOK, TokensUnique, kInvalidToken
    <2>2. CancelPhase'
      BY DEF TypeOK, CmTypeOK, CancelPhase
    <2>3. TokensUnique'
      BY DEF TypeOK, CmTypeOK, TokensUnique, kInvalidToken
    <2>4. CallbackPlace'
      BY DEF TypeOK, CmTypeOK, CancelPhase, TokensUnique, CallbackPlace, CallbackPlaceOf,
          kInvalidToken
    <2> QED
      BY <2>1, <2>2, <2>3, <2>4
  <1>9. ASSUME NEW t \in Cancellers, StartCancelFinish(t), UNCHANGED client_vars PROVE IInv'
    <2> USE <1>9 DEF StartCancelFinish
    <2>1. TypeOK'
      BY DEF TypeOK, CmTypeOK, TokensUnique, kInvalidToken
    <2>2. CancelPhase'
      BY DEF TypeOK, CmTypeOK, CancelPhase
    <2>3. TokensUnique'
      BY DEF TypeOK, CmTypeOK, TokensUnique, kInvalidToken
    <2>4. CallbackPlace'
      BY DEF TypeOK, CmTypeOK, CancelPhase, TokensUnique, CallbackPlace, CallbackPlaceOf,
          kInvalidToken
    <2> QED
      BY <2>1, <2>2, <2>3, <2>4
  <1>10. ASSUME NEW t \in Cancellers, StartCancelNotify(t), UNCHANGED client_vars PROVE IInv'
    <2> USE <1>10 DEF StartCancelNotify
    <2>1. TypeOK'
      BY DEF TypeOK, CmTypeOK, TokensUnique, kInvalidToken
    <2>2. CancelPhase'
      BY DEF TypeOK, CmTypeOK, CancelPhase
    <2>3. TokensUnique'
      BY DEF TypeOK, CmTypeOK, TokensUnique, kInvalidToken
    <2>4. CallbackPlace'
      BY DEF TypeOK, CmTypeOK, CancelPhase, TokensUnique, CallbackPlace, CallbackPlaceOf,
          kInvalidToken
    <2> QED
      BY <2>1, <2>2, <2>3, <2>4
  <1>11. CASE UNCHANGED vars
    BY <1>11 DEF vars, TypeOK, CmTypeOK, CancelPhase, TokensUnique, CallbackPlace, CallbackPlaceOf
  <1> QED
    BY <1>1, <1>2, <1>3, <1>4, <1>5, <1>6, <1>7, <1>8, <1>9, <1>10, <1>11
    DEF Next, ClientNext, CancelNext

--------------------------------------------------------------------------------
(* IInv is an invariant of the specification. *)
THEOREM CancellationInvariant == Spec => []IInv
  BY InitIInv, NextIInv, PTL DEF Spec

(* The type invariant. *)
THEOREM CancellationTypes == Spec => []TypeOK
  <1>1. IInv => TypeOK
    BY DEF IInv
  <1> QED
    BY <1>1, CancellationInvariant, PTL

(* A client that has returned from DeregisterCallback may free what its      *)
(* callback uses, whatever the interleaving with StartCancel.                *)
THEOREM DeregisterIsSafe == Spec => []SafeToFree
  <1>1. IInv => SafeToFree
    BY DEF IInv, CallbackPlace, CallbackPlaceOf, SafeToFree, CallbackLive
  <1> QED
    BY <1>1, CancellationInvariant, PTL

(* What DeregisterCallback returns tells whether the callback ran. *)
THEOREM DeregisterIsExact == Spec => []DeregisterResultExact
  <1>1. IInv => DeregisterResultExact
    BY DEF IInv, CallbackPlace, CallbackPlaceOf, DeregisterResultExact
  <1> QED
    BY <1>1, CancellationInvariant, PTL

(* No callback runs twice, none that was refused or deregistered runs. *)
THEOREM CallbacksRunOnce == Spec => []CallbackAccounting
  <1>1. ASSUME IInv, NEW c \in Clients, client_pc[c] = "left", result[c]
        PROVE  invoked[c] = 0 /\ ~CallbackLive(token[c])
    BY <1>1 DEF IInv, CallbackPlace, CallbackPlaceOf, CallbackLive
  <1>2. ASSUME IInv, NEW c \in Clients
        PROVE  invoked[c] <= (IF registered[c] THEN 1 ELSE 0)
    BY <1>2 DEF IInv, CallbackPlace, CallbackPlaceOf
  <1>3. IInv => CallbackAccounting
    BY <1>1, <1>2 DEF CallbackAccounting
  <1> QED
    BY <1>3, CancellationInvariant, PTL
================================================================================
