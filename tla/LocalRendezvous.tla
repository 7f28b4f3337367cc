---------------------------- MODULE LocalRendezvous ----------------------------
(***************************************************************************)
(* tensorflow::LocalRendezvousImpl (core/framework/rendezvous.cc): the     *)
(* table in which producers (Send) and consumers (RecvAsync) of one step   *)
(* meet, together with StartAbort and the cancellation of a waiting        *)
(* consumer through the step's CancellationManager.                        *)
(*                                                                         *)
(* A step of the model is a stretch between two lock operations.  A        *)
(* critical section of mu_ that takes no other lock is one step; RecvAsync *)
(* calls the CancellationManager while it holds mu_, so `mu' records that  *)
(* it does.  The closures (`done', `waiter', the cancellation callback)    *)
(* run outside mu_.  A payload is its Send; an item is the operation that  *)
(* made it.                                                                *)
(***************************************************************************)
EXTENDS CancellationManager, Sequences

CONSTANTS Keys,
          Sends, Recvs, Aborters,  \* one element per call of Send, RecvAsync, StartAbort
          KeyOf,                   \* the key each Send and RecvAsync is called with
          Cancellable,             \* the RecvAsyncs with a recv_args.cancellation_manager
          OK, Cancelled,           \* statuses
          None                     \* no thread, no item, nothing decided yet

ASSUME OpsAssumption ==
  /\ Sends \cap Recvs = {}
  /\ Sends \cap Aborters = {}
  /\ KeyOf \in [Sends \cup Recvs -> Keys]
  /\ Cancellable \subseteq Recvs
  /\ {OK, Cancelled, None} \cap (Sends \cup Recvs \cup Aborters) = {}
  /\ OK # Cancelled /\ OK # None /\ Cancelled # None

VARIABLES
  mu,         \* the RecvAsync that holds mu_ across its calls of the manager
  table,      \* table_: the item queue of each key (absent and empty are alike)
  status,     \* status_: OK or the StartAbort whose status it is
  send_pc, send_item,    \* Send: where it stands, the waiter it has taken
  recv_pc, token,        \* RecvAsync: where it stands, its cancellation token
  abort_pc, abort_items, \* StartAbort: where it stands, the waiters left to call
  cb_pc, cb_item,        \* cancellation callback run by each StartCancel
  outcome,    \* what `done' is, or will be, called with: a Send, Cancelled, a StartAbort
  calls,      \* how often `done' has been called
  arrivals    \* history: the order in which Sends and RecvAsyncs reached each queue

send_vars == <<send_pc, send_item>>
recv_vars == <<recv_pc, token>>
abort_vars == <<abort_pc, abort_items>>
cb_vars == <<cb_pc, cb_item>>
done_vars == <<outcome, calls>>
vars == <<cm_vars, mu, table, status, send_vars, recv_vars, abort_vars, cb_vars,
          done_vars, arrivals>>

Items == Sends \cup Recvs
Outcomes == Sends \cup Aborters \cup {Cancelled, None}

TypeOK ==
  /\ CmTypeOK
  /\ mu \in Recvs \cup {None}
  /\ table \in [Keys -> Seq(Items)]
  /\ status \in Aborters \cup {OK}
  /\ send_pc \in [Sends -> {"start", "notify", "returned", "failed"}]
  /\ send_item \in [Sends -> Recvs \cup {None}]
  /\ recv_pc \in [Recvs -> {"start", "locked", "token", "registered", "deliver", "returned"}]
  /\ token \in [Recvs -> Nat \cup {kInvalidToken}]
  /\ abort_pc \in [Aborters -> {"start", "calling", "returned"}]
  /\ abort_items \in [Aborters -> SUBSET Recvs]
  /\ cb_pc \in [Cancellers -> {"out", "begun", "found", "end"}]
  /\ cb_item \in [Cancellers -> Recvs \cup {None}]
  /\ outcome \in [Recvs -> Outcomes]
  /\ calls \in [Recvs -> Nat]
  /\ arrivals \in [Keys -> Seq(Items)]

Init ==
  /\ CmInit
  /\ mu = None
  /\ table = [k \in Keys |-> <<>>]
  /\ status = OK
  /\ send_pc = [s \in Sends |-> "start"]
  /\ send_item = [s \in Sends |-> None]
  /\ recv_pc = [r \in Recvs |-> "start"]
  /\ token = [r \in Recvs |-> kInvalidToken]
  /\ abort_pc = [a \in Aborters |-> "start"]
  /\ abort_items = [a \in Aborters |-> {}]
  /\ cb_pc = [t \in Cancellers |-> "out"]
  /\ cb_item = [t \in Cancellers |-> None]
  /\ outcome = [r \in Recvs |-> None]
  /\ calls = [r \in Recvs |-> 0]
  /\ arrivals = [k \in Keys |-> <<>>]

--------------------------------------------------------------------------------
IsSendValue(item) == item \in Sends

(* Fault: the front is not looked at, any item counts as a waiter. *)
HasAnyItem(k) == table[k] # <<>>

(* The queue of k holds a message to pick up; a waiter to wake. *)
HasMessage(k) == table[k] # <<>> /\ IsSendValue(Head(table[k]))
HasWaiter(k) == table[k] # <<>> /\ ~IsSendValue(Head(table[k]))

(* Fault: items are pushed at the front. *)
PushFront(k, item) == table' = [table EXCEPT ![k] = <<item>> \o @]

PushBack(k, item) == table' = [table EXCEPT ![k] = Append(@, item)]
PopFront(k) == table' = [table EXCEPT ![k] = Tail(@)]

Arrive(k, item) == arrivals' = [arrivals EXCEPT ![k] = Append(@, item)]

Decide(r, o) == outcome' = [outcome EXCEPT ![r] = o]

done(r) == calls' = [calls EXCEPT ![r] = @ + 1]

(* Fault: the closure does not deregister the cancellation callback. *)
waiterKeepsCallback(r) == done(r) /\ UNCHANGED cm_vars

(* The closure stored in an item: the wrapped `done' if there is a manager. *)
waiter(r) ==
  /\ done(r)
  /\ IF r \in Cancellable THEN TryDeregisterCallback(token[r]) ELSE UNCHANGED cm_vars

--------------------------------------------------------------------------------
(* Send: the critical section ... *)
SendAborted(s) ==
  /\ send_pc[s] = "start" /\ mu = None
  /\ status # OK
  /\ send_pc' = [send_pc EXCEPT ![s] = "failed"]
  /\ UNCHANGED <<cm_vars, mu, table, status, send_item, recv_vars, abort_vars, cb_vars,
                 done_vars, arrivals>>

SendEnqueues(s) ==
  /\ send_pc[s] = "start" /\ mu = None
  /\ status = OK
  /\ ~HasWaiter(KeyOf[s])
  /\ PushBack(KeyOf[s], s)
  /\ Arrive(KeyOf[s], s)
  /\ send_pc' = [send_pc EXCEPT ![s] = "returned"]
  /\ UNCHANGED <<cm_vars, mu, status, send_item, recv_vars, abort_vars, cb_vars, done_vars>>

SendTakesWaiter(s) ==
  /\ send_pc[s] = "start" /\ mu = None
  /\ status = OK
  /\ HasWaiter(KeyOf[s])
  /\ send_item' = [send_item EXCEPT ![s] = Head(table[KeyOf[s]])]
  /\ Decide(Head(table[KeyOf[s]]), s)
  /\ PopFront(KeyOf[s])
  /\ Arrive(KeyOf[s], s)
  /\ send_pc' = [send_pc EXCEPT ![s] = "notify"]
  /\ UNCHANGED <<cm_vars, mu, status, recv_vars, abort_vars, cb_vars, calls>>

(* ... and, outside it, the call of the waiter. *)
SendNotifies(s) ==
  /\ send_pc[s] = "notify"
  /\ waiter(send_item[s])
  /\ send_pc' = [send_pc EXCEPT ![s] = "returned"]
  /\ send_item' = [send_item EXCEPT ![s] = None]
  /\ UNCHANGED <<mu, table, status, recv_vars, abort_vars, cb_vars, outcome, arrivals>>

Send(s) == SendAborted(s) \/ SendEnqueues(s) \/ SendTakesWaiter(s) \/ SendNotifies(s)

--------------------------------------------------------------------------------
(* RecvAsync: the three ways through the critical section, ... *)
RecvAborted(r) ==
  /\ recv_pc[r] = "start" /\ mu = None
  /\ status # OK
  /\ Decide(r, status)
  /\ recv_pc' = [recv_pc EXCEPT ![r] = "deliver"]
  /\ UNCHANGED <<cm_vars, mu, table, status, send_vars, token, abort_vars, cb_vars,
                 calls, arrivals>>

(* Fault: the message is read and not popped. *)
RecvPeeksMessage(r) ==
  /\ recv_pc[r] = "start" /\ mu = None
  /\ status = OK
  /\ HasMessage(KeyOf[r])
  /\ Decide(r, Head(table[KeyOf[r]]))
  /\ Arrive(KeyOf[r], r)
  /\ recv_pc' = [recv_pc EXCEPT ![r] = "deliver"]
  /\ UNCHANGED <<cm_vars, mu, table, status, send_vars, token, abort_vars, cb_vars, calls>>

RecvTakesMessage(r) ==
  /\ recv_pc[r] = "start" /\ mu = None
  /\ status = OK
  /\ HasMessage(KeyOf[r])
  /\ Decide(r, Head(table[KeyOf[r]]))
  /\ PopFront(KeyOf[r])
  /\ Arrive(KeyOf[r], r)
  /\ recv_pc' = [recv_pc EXCEPT ![r] = "deliver"]
  /\ UNCHANGED <<cm_vars, mu, status, send_vars, token, abort_vars, cb_vars, calls>>

(* There is no message to pick up: without a manager the item is pushed at   *)
(* once, with one mu_ is kept while the manager is called.                   *)
RecvFindsNoMessage(r) ==
  /\ recv_pc[r] = "start" /\ mu = None
  /\ status = OK
  /\ ~HasMessage(KeyOf[r])
  /\ \/ /\ r \notin Cancellable
        /\ PushBack(KeyOf[r], r)
        /\ Arrive(KeyOf[r], r)
        /\ recv_pc' = [recv_pc EXCEPT ![r] = "returned"]
        /\ UNCHANGED mu
     \/ /\ r \in Cancellable
        /\ mu' = r
        /\ recv_pc' = [recv_pc EXCEPT ![r] = "locked"]
        /\ UNCHANGED <<table, arrivals>>
  /\ UNCHANGED <<cm_vars, status, send_vars, token, abort_vars, cb_vars, done_vars>>

(* ... the calls of the manager under mu_, ... *)
RecvGetsToken(r) ==
  /\ recv_pc[r] = "locked"
  /\ get_cancellation_token
  /\ token' = [token EXCEPT ![r] = next_cancellation_token]
  /\ recv_pc' = [recv_pc EXCEPT ![r] = "token"]
  /\ UNCHANGED <<mu, table, status, send_vars, abort_vars, cb_vars, done_vars, arrivals>>

RecvRegisters(r) ==
  /\ recv_pc[r] = "token"
  /\ RegisterCallback(token[r])
  /\ IF ShouldRegister
     THEN /\ recv_pc' = [recv_pc EXCEPT ![r] = "registered"]
          /\ UNCHANGED <<mu, outcome>>
     ELSE /\ recv_pc' = [recv_pc EXCEPT ![r] = "deliver"]
          /\ Decide(r, Cancelled)
          /\ mu' = None
  /\ UNCHANGED <<table, status, send_vars, token, abort_vars, cb_vars, calls, arrivals>>

RecvEnqueues(r) ==
  /\ recv_pc[r] = "registered"
  /\ PushBack(KeyOf[r], r)
  /\ Arrive(KeyOf[r], r)
  /\ mu' = None
  /\ recv_pc' = [recv_pc EXCEPT ![r] = "returned"]
  /\ UNCHANGED <<cm_vars, status, send_vars, token, abort_vars, cb_vars, done_vars>>

(* Fault: a RecvAsync that is refused never calls `done'. *)
RecvForgetsDone(r) ==
  /\ recv_pc[r] = "deliver"
  /\ outcome[r] # Cancelled
  /\ done(r)
  /\ recv_pc' = [recv_pc EXCEPT ![r] = "returned"]
  /\ UNCHANGED <<cm_vars, mu, table, status, send_vars, token, abort_vars, cb_vars,
                 outcome, arrivals>>

(* ... and the call of `done' by RecvAsync itself, after mu_ is released. *)
RecvDelivers(r) ==
  /\ recv_pc[r] = "deliver"
  /\ done(r)
  /\ recv_pc' = [recv_pc EXCEPT ![r] = "returned"]
  /\ UNCHANGED <<cm_vars, mu, table, status, send_vars, token, abort_vars, cb_vars,
                 outcome, arrivals>>

RecvAsync(r) ==
  \/ RecvAborted(r) \/ RecvTakesMessage(r) \/ RecvFindsNoMessage(r) \/ RecvGetsToken(r)
  \/ RecvRegisters(r) \/ RecvEnqueues(r) \/ RecvDelivers(r)

--------------------------------------------------------------------------------
(* StartAbort: the first status wins (Status::Update), the table is swapped  *)
(* out, ...                                                                  *)
Waiters == {r \in Recvs : \E k \in Keys : \E i \in DOMAIN table[k] : table[k][i] = r}

AbortSwapsTable(a) ==
  /\ abort_pc[a] = "start" /\ mu = None
  /\ status' = IF status = OK THEN a ELSE status
  /\ table' = [k \in Keys |-> <<>>]
  /\ abort_items' = [abort_items EXCEPT ![a] = Waiters]
  /\ outcome' = [r \in Recvs |-> IF r \in Waiters THEN a ELSE outcome[r]]
  /\ abort_pc' = [abort_pc EXCEPT ![a] = "calling"]
  /\ UNCHANGED <<cm_vars, mu, send_vars, recv_vars, cb_vars, calls, arrivals>>

(* ... and its waiters are called one by one, with this call's own status    *)
(* (the hash table's order is arbitrary).                                    *)
AbortCallsWaiter(a, r) ==
  /\ abort_pc[a] = "calling"
  /\ r \in abort_items[a]
  /\ waiter(r)
  /\ abort_items' = [abort_items EXCEPT ![a] = @ \ {r}]
  /\ UNCHANGED <<mu, table, status, send_vars, recv_vars, abort_pc, cb_vars, outcome, arrivals>>

AbortReturns(a) ==
  /\ abort_pc[a] = "calling"
  /\ abort_items[a] = {}
  /\ abort_pc' = [abort_pc EXCEPT ![a] = "returned"]
  /\ UNCHANGED <<cm_vars, mu, table, status, send_vars, recv_vars, abort_items, cb_vars,
                 done_vars, arrivals>>

StartAbort(a) ==
  AbortSwapsTable(a) \/ AbortReturns(a) \/ \E r \in Recvs : AbortCallsWaiter(a, r)

--------------------------------------------------------------------------------
(* The callback RecvAsync registers; r is the call whose `key_hash' and      *)
(* `token' it captured.                                                      *)
CallbackEnters(t, k) ==
  /\ CallbackBegin(t, k)
  /\ cb_pc' = [cb_pc EXCEPT ![t] = "begun"]
  /\ UNCHANGED <<mu, table, status, send_vars, recv_vars, abort_vars, cb_item, done_vars, arrivals>>

(* The positions of the queue of k whose item has the token tok, if it is a  *)
(* queue of waiters.                                                         *)
WithToken(k, tok) ==
  {i \in DOMAIN table[k] : HasWaiter(k) /\ table[k][i] \in Recvs /\ token[table[k][i]] = tok}

(* Fault: the item stays in the queue it was found in. *)
WithoutNothing(q, i) == q

Without(q, i) == SubSeq(q, 1, i - 1) \o SubSeq(q, i + 1, Len(q))

CallbackFindsItem(t, r) ==
  /\ cb_pc[t] = "begun" /\ mu = None
  /\ running[t] = token[r]
  /\ \E i \in WithToken(KeyOf[r], token[r]) :
       /\ \A j \in WithToken(KeyOf[r], token[r]) : i <= j
       /\ cb_item' = [cb_item EXCEPT ![t] = table[KeyOf[r]][i]]
       /\ Decide(table[KeyOf[r]][i], Cancelled)
       /\ table' = [table EXCEPT ![KeyOf[r]] = Without(@, i)]
  /\ cb_pc' = [cb_pc EXCEPT ![t] = "found"]
  /\ UNCHANGED <<cm_vars, mu, status, send_vars, recv_vars, abort_vars, calls, arrivals>>

CallbackFindsNothing(t, r) ==
  /\ cb_pc[t] = "begun" /\ mu = None
  /\ running[t] = token[r]
  /\ WithToken(KeyOf[r], token[r]) = {}
  /\ cb_pc' = [cb_pc EXCEPT ![t] = "end"]
  /\ UNCHANGED <<cm_vars, mu, table, status, send_vars, recv_vars, abort_vars, cb_item,
                 done_vars, arrivals>>

CallbackCallsWaiter(t) ==
  /\ cb_pc[t] = "found"
  /\ waiter(cb_item[t])
  /\ cb_item' = [cb_item EXCEPT ![t] = None]
  /\ cb_pc' = [cb_pc EXCEPT ![t] = "end"]
  /\ UNCHANGED <<mu, table, status, send_vars, recv_vars, abort_vars, outcome, arrivals>>

CallbackLeaves(t) ==
  /\ cb_pc[t] = "end"
  /\ CallbackEnd(t)
  /\ cb_pc' = [cb_pc EXCEPT ![t] = "out"]
  /\ UNCHANGED <<mu, table, status, send_vars, recv_vars, abort_vars, cb_item, done_vars, arrivals>>

CancelCallback(t) ==
  \/ \E k \in callbacks_to_run[t] : CallbackEnters(t, k)
  \/ \E r \in Recvs : CallbackFindsItem(t, r) \/ CallbackFindsNothing(t, r)
  \/ CallbackCallsWaiter(t)
  \/ CallbackLeaves(t)

(* The stretches of CancellationManager::StartCancel around its callbacks. *)
CancelBegins(t) ==
  /\ StartCancel(t)
  /\ UNCHANGED <<mu, table, status, send_vars, recv_vars, abort_vars, cb_vars, done_vars, arrivals>>

CancelEnds(t) ==
  /\ StartCancelFinish(t) \/ StartCancelNotify(t)
  /\ UNCHANGED <<mu, table, status, send_vars, recv_vars, abort_vars, cb_vars, done_vars, arrivals>>

--------------------------------------------------------------------------------
Next ==
  \/ \E s \in Sends : Send(s)
  \/ \E r \in Recvs : RecvAsync(r)
  \/ \E a \in Aborters : StartAbort(a)
  \/ \E t \in Cancellers : CancelBegins(t) \/ CancelCallback(t) \/ CancelEnds(t)

Spec == Init /\ [][Next]_vars

(* A thread inside a call keeps running; a callback that waits for mu_ gets  *)
(* it once mu_ stays free.  Nobody is obliged to make a call.                *)
Fairness ==
  /\ \A s \in Sends : WF_vars(SendNotifies(s))
  /\ \A r \in Recvs :
       WF_vars(RecvGetsToken(r) \/ RecvRegisters(r) \/ RecvEnqueues(r) \/ RecvDelivers(r))
  /\ \A a \in Aborters :
       WF_vars(AbortReturns(a) \/ \E r \in Recvs : AbortCallsWaiter(a, r))
  /\ \A t \in Cancellers : WF_vars(CancelCallback(t)) /\ WF_vars(CancelEnds(t))

FairSpec == Spec /\ Fairness

--------------------------------------------------------------------------------
(* The item of x is in the table; it is in the hands of a thread that has    *)
(* taken it out and is about to call its waiter.                             *)
InTable(x) == \E i \in DOMAIN table[KeyOf[x]] : table[KeyOf[x]][i] = x

Held(r) ==
  \/ \E s \in Sends : send_item[s] = r
  \/ \E a \in Aborters : r \in abort_items[a]
  \/ \E t \in Cancellers : cb_item[t] = r

(* The message of s has been given to a consumer. *)
Taken(s) == \E r \in Recvs : outcome[r] = s

(* A Send, a StartAbort and a cancellation that race for the same waiter     *)
(* call it once between them: `done' is never called twice, an item whose    *)
(* `done' has been called is nowhere any more, and a RecvAsync that has      *)
(* returned without an answer is still queued or held by someone.            *)
ReceiverAccounting ==
  \A r \in Recvs :
    /\ calls[r] <= 1
    /\ calls[r] = 1 => ~InTable(r) /\ ~Held(r)
    /\ recv_pc[r] = "returned" /\ calls[r] = 0 => InTable(r) \/ Held(r)

(* A message is given to one consumer at most, never by a Send that failed,  *)
(* and an accepted message is lost by StartAbort only (a cancelled waiter    *)
(* does not swallow one).                                                    *)
MessageAccounting ==
  \A s \in Sends :
    /\ \A r1, r2 \in Recvs : outcome[r1] = s /\ outcome[r2] = s => r1 = r2
    /\ Taken(s) => send_pc[s] \in {"notify", "returned"} /\ ~InTable(s)
    /\ send_pc[s] \in {"notify", "returned"} /\ status = OK => Taken(s) \/ InTable(s)

(* "The consumer receives them in the order as the producer sends them"      *)
(* (rendezvous.h): on one key messages are taken in the order of the Sends,  *)
(* no consumer is overtaken while it waits, and earlier consumers get        *)
(* earlier messages, however many waiters are cancelled in between.          *)
Fifo ==
  \A k \in Keys : \A i, j \in DOMAIN arrivals[k] :
    LET x == arrivals[k][i]
        y == arrivals[k][j]
    IN  i < j =>
          /\ x \in Sends /\ y \in Sends /\ Taken(y) => Taken(x)
          /\ x \in Recvs /\ y \in Recvs /\ outcome[y] \in Sends =>
               /\ outcome[x] # None
               /\ outcome[x] \in Sends =>
                    \E m, n \in DOMAIN arrivals[k] :
                      m < n /\ arrivals[k][m] = outcome[x] /\ arrivals[k][n] = outcome[y]

(* The manager keeps no callback, and so no pointer to the rendezvous, of a  *)
(* RecvAsync that has been answered.                                         *)
CallbackReleased ==
  \A r \in Cancellable : calls[r] = 1 => token[r] \notin callbacks

(* Everybody gets an answer: who has been matched, everyone after an abort,  *)
(* every cancellable consumer after a cancellation.                          *)
EveryoneAnswered ==
  \A r \in Recvs :
    /\ (outcome[r] # None) ~> (calls[r] = 1)
    /\ (recv_pc[r] # "start" /\ status # OK) ~> (calls[r] = 1)
    /\ r \in Cancellable => (recv_pc[r] # "start" /\ is_cancelling) ~> (calls[r] = 1)
================================================================================
