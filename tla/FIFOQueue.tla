------------------------------- MODULE FIFOQueue -------------------------------
(***************************************************************************)
(* tensorflow::FIFOQueue and QueueBase (core/kernels/fifo_queue.cc and     *)
(* queue_base.cc): attempts to enqueue, dequeue and close wait in two      *)
(* deques; FlushUnlocked runs what can run under mu_ and calls back        *)
(* outside it; a step's CancellationManager may cancel an attempt at any   *)
(* time, from a thread of its own.                                         *)
(*                                                                         *)
(* TryEnqueue and TryDequeue are TryEnqueueMany and TryDequeueMany of one  *)
(* element.  A manager is reduced to its phase and its callbacks; one      *)
(* thread cancels it.  FlushUnlocked holds mu_ over several steps of the   *)
(* model, one for each run_callback, during which the other threads stand  *)
(* still: their steps either need mu_ or commute with those.  Every other  *)
(* critical section of mu_ is one step.                                    *)
(***************************************************************************)
EXTENDS Integers, Sequences, SequencesExt

CONSTANTS
  Enqueues, Dequeues, Closes,  \* one element per call
  Args,             \* the arguments the ops may have: records [size, manager,
                    \* small, cancel_pending]
  Managers,         \* the CancellationManagers of the steps
  Cancelled,        \* the managers that StartCancel may be called on
  Capacity,
  None

Ops == Enqueues \cup Dequeues \cup Closes
Attempts == Enqueues \cup Dequeues     \* the ops that register with a manager
Threads == Ops \cup Cancelled          \* a manager stands for its StartCancel

ASSUME QueueAssumption ==
  /\ Capacity \in Nat \ {0}
  /\ Args \subseteq [size : [Attempts -> Nat], manager : [Attempts -> Managers],
                     small : SUBSET Dequeues, cancel_pending : SUBSET Closes]
  /\ Cancelled \subseteq Managers
  /\ None \notin Threads
  /\ Enqueues \cap Dequeues = {} /\ Closes \cap Attempts = {} /\ Cancelled \cap Ops = {}

VARIABLES
  queue, closed,      \* queues_, closed_; an element is <<its enqueue, its index>>
  enqueue_attempts, dequeue_attempts,
  is_cancelled, requested, tuple,   \* the fields of an attempt
  args,               \* size: the elements a TryEnqueue(Many) brings or a
                      \* TryDequeue(Many) asks for; manager: that of its step; small: the
                      \* TryDequeueManys with allow_small_batch; cancel_pending: the
                      \* Closes with cancel_pending_enqueues
  mu, changed,        \* the thread inside FlushUnlocked, and its `changed'
  pc, to_call,        \* the threads: where they stand, what they have still to call back
  phase, callbacks, cancelling,     \* the managers; the attempt whose Cancel each runs
  outcome, calls,     \* the status an op ends with; how often its callback was called
  accepted            \* history: the elements in the order they were enqueued

attempt_vars == <<is_cancelled, requested, tuple>>
deques == <<enqueue_attempts, dequeue_attempts>>
cm_vars == <<phase, callbacks, cancelling>>
vars == <<queue, closed, deques, attempt_vars, args, mu, changed, pc, to_call,
          cm_vars, outcome, calls, accepted>>

Init ==
  /\ queue = <<>> /\ accepted = <<>>
  /\ closed = FALSE /\ changed = FALSE
  /\ enqueue_attempts = <<>> /\ dequeue_attempts = <<>>
  /\ is_cancelled = [a \in Ops |-> FALSE]
  /\ args \in Args /\ requested = args.size
  /\ tuple = [a \in Dequeues |-> <<>>]
  /\ mu = None
  /\ pc = [t \in Threads |-> "start"]
  /\ to_call = [t \in Threads |-> <<>>]
  /\ phase = [m \in Managers |-> "none"]
  /\ callbacks = [m \in Managers |-> {}]
  /\ cancelling = [m \in Cancelled |-> None]
  /\ outcome = [a \in Ops |-> "none"]
  /\ calls = [a \in Ops |-> 0]

(* Thread t may take a step. *)
Runs(t) == mu \in {None, t}

Goto(t, from, to) == Runs(t) /\ pc[t] = from /\ pc' = [pc EXCEPT ![t] = to]

Answer(a) == calls' = [calls EXCEPT ![a] = @ + 1]

--------------------------------------------------------------------------------
(* TryEnqueueMany and TryDequeueMany: an empty batch is answered at once, ... *)
TryEmptyBatch(a) ==
  /\ args.size[a] = 0
  /\ Goto(a, "start", "over")
  /\ Answer(a)
  /\ outcome' = [outcome EXCEPT ![a] = "ok"]
  /\ UNCHANGED <<args, queue, closed, deques, attempt_vars, mu, changed, to_call, cm_vars,
                 accepted>>

(* ... otherwise the callback is registered under mu_ and the attempt        *)
(* queued, ...                                                               *)
TryRegisters(a) ==
  /\ args.size[a] # 0
  /\ phase[args.manager[a]] = "none"
  /\ Goto(a, "start", "flush")
  /\ callbacks' = [callbacks EXCEPT ![args.manager[a]] = @ \cup {a}]
  /\ IF a \in Enqueues
     THEN enqueue_attempts' = Append(enqueue_attempts, a) /\ UNCHANGED dequeue_attempts
     ELSE dequeue_attempts' = Append(dequeue_attempts, a) /\ UNCHANGED enqueue_attempts
  /\ UNCHANGED <<args, queue, closed, attempt_vars, mu, changed, to_call, phase, cancelling,
                 outcome, calls, accepted>>

(* ... unless the step is cancelled already. *)
TryFindsCancelled(a) ==
  /\ args.size[a] # 0
  /\ phase[args.manager[a]] # "none"
  /\ Goto(a, "start", "deliver")
  /\ outcome' = [outcome EXCEPT ![a] = "cancelled"]
  /\ UNCHANGED <<args, queue, closed, deques, attempt_vars, mu, changed, to_call, cm_vars,
                 calls, accepted>>

(* The op's thread calls its own callback, and is done. *)
Deliver(a) ==
  /\ Goto(a, "deliver", "over")
  /\ Answer(a)
  /\ UNCHANGED <<args, queue, closed, deques, attempt_vars, mu, changed, to_call, cm_vars,
                 outcome, accepted>>

Try(a) == TryEmptyBatch(a) \/ TryRegisters(a) \/ TryFindsCancelled(a) \/ Deliver(a)

--------------------------------------------------------------------------------
(* Close: an attempt like the others, ... *)
CloseQueues(c) ==
  /\ c \notin args.cancel_pending
  /\ Goto(c, "start", "flush")
  /\ enqueue_attempts' = Append(enqueue_attempts, c)
  /\ UNCHANGED <<args, queue, closed, dequeue_attempts, attempt_vars, mu, changed, to_call,
                 cm_vars, outcome, calls, accepted>>

(* ... or CloseAndCancel, which cancels the pending enqueues, a queued Close *)
(* among them; it leaves their callbacks with the managers.                  *)
Pending(attempts) ==
  LET found[i \in 0 .. Len(attempts)] ==
        IF i = 0 THEN <<>>
        ELSE IF is_cancelled[attempts[i]] THEN found[i - 1]
        ELSE Append(found[i - 1], attempts[i])
  IN  found[Len(attempts)]

CloseAndCancel(c) ==
  LET pending == Pending(enqueue_attempts) IN
  /\ c \in args.cancel_pending
  /\ Goto(c, "start", "calling")
  /\ closed' = TRUE
  /\ is_cancelled' = [a \in Ops |-> is_cancelled[a] \/ a \in ToSet(pending)]
  /\ outcome' = [a \in Ops |-> IF a \in ToSet(pending) THEN "cancelled" ELSE outcome[a]]
  /\ to_call' = [to_call EXCEPT ![c] = pending]
  /\ UNCHANGED <<args, queue, deques, requested, tuple, mu, changed, cm_vars, calls,
                 accepted>>

(* Callbacks that are called without being deregistered: those of            *)
(* CloseAndCancel and of Cancel; then FlushUnlocked.                         *)
CallBack(t) ==
  /\ pc[t] = "calling" /\ Runs(t)
  /\ IF to_call[t] = <<>>
     THEN Goto(t, "calling", "flush") /\ UNCHANGED <<to_call, calls>>
     ELSE /\ Answer(Head(to_call[t]))
          /\ to_call' = [to_call EXCEPT ![t] = Tail(@)]
          /\ UNCHANGED pc
  /\ UNCHANGED <<args, queue, closed, deques, attempt_vars, mu, changed, cm_vars, outcome,
                 accepted>>

--------------------------------------------------------------------------------
(* StartCancel of manager m: it claims the callbacks, ... *)
CancelStarts(m) ==
  /\ Goto(m, "start", "loop")
  /\ phase' = [phase EXCEPT ![m] = "cancelling"]
  /\ UNCHANGED <<args, queue, closed, deques, attempt_vars, mu, changed, to_call, callbacks,
                 cancelling, outcome, calls, accepted>>

CancelCallback(m, a) ==
  /\ a \in callbacks[m]
  /\ Goto(m, "loop", "cancel")
  /\ callbacks' = [callbacks EXCEPT ![m] = @ \ {a}]
  /\ cancelling' = [cancelling EXCEPT ![m] = a]
  /\ UNCHANGED <<args, queue, closed, deques, attempt_vars, mu, changed, to_call, phase,
                 outcome, calls, accepted>>

(* ... each of which runs Cancel: the attempt, if it is still queued and has *)
(* not been cancelled, stays queued but loses its callback, ...              *)
Queued(a) == a \in ToSet(enqueue_attempts) \cup ToSet(dequeue_attempts)

(* Fault: an attempt that CloseAndCancel has cancelled is cancelled again. *)
CancelFindsAgain(m) ==
  LET a == cancelling[m] IN
  /\ pc[m] = "cancel"
  /\ Queued(a)
  /\ Goto(m, "cancel", "calling")
  /\ is_cancelled' = [is_cancelled EXCEPT ![a] = TRUE]
  /\ outcome' = [outcome EXCEPT ![a] = "cancelled"]
  /\ to_call' = [to_call EXCEPT ![m] = <<a>>]
  /\ UNCHANGED <<args, queue, closed, deques, requested, tuple, mu, changed, cm_vars, calls,
                 accepted>>

(* Fault: the callback is not swapped out of the attempt. *)
CancelFindsSilently(m) ==
  LET a == cancelling[m] IN
  /\ pc[m] = "cancel"
  /\ Queued(a) /\ ~is_cancelled[a]
  /\ Goto(m, "cancel", "calling")
  /\ is_cancelled' = [is_cancelled EXCEPT ![a] = TRUE]
  /\ outcome' = [outcome EXCEPT ![a] = "cancelled"]
  /\ UNCHANGED <<args, queue, closed, deques, requested, tuple, to_call, mu, changed, cm_vars,
                 calls, accepted>>

CancelFinds(m) ==
  LET a == cancelling[m] IN
  /\ pc[m] = "cancel"
  /\ Queued(a) /\ ~is_cancelled[a]
  /\ Goto(m, "cancel", "calling")
  /\ is_cancelled' = [is_cancelled EXCEPT ![a] = TRUE]
  /\ outcome' = [outcome EXCEPT ![a] = "cancelled"]
  /\ to_call' = [to_call EXCEPT ![m] = <<a>>]
  /\ UNCHANGED <<args, queue, closed, deques, requested, tuple, mu, changed, cm_vars, calls,
                 accepted>>

CancelFindsNothing(m) ==
  LET a == cancelling[m] IN
  /\ pc[m] = "cancel"
  /\ ~Queued(a) \/ is_cancelled[a]
  /\ Goto(m, "cancel", "loop")
  /\ UNCHANGED <<args, queue, closed, deques, attempt_vars, mu, changed, to_call, cm_vars,
                 outcome, calls, accepted>>

(* ... and when they have all returned is_cancelled_ is set and the waiting  *)
(* DeregisterCallbacks are notified.                                         *)
CancelFinishes(m) ==
  /\ callbacks[m] = {}
  /\ Goto(m, "loop", "over")
  /\ phase' = [phase EXCEPT ![m] = "cancelled"]
  /\ UNCHANGED <<args, queue, closed, deques, attempt_vars, mu, changed, to_call, callbacks,
                 cancelling, outcome, calls, accepted>>

Cancel(m) ==
  \/ CancelStarts(m)
  \/ \E a \in Attempts : CancelCallback(m, a)
  \/ CancelFinds(m) \/ CancelFindsNothing(m)
  \/ CancelFinishes(m)

--------------------------------------------------------------------------------
(* FlushUnlocked: mu_ is taken, and TryAttemptLocked goes through the        *)
(* enqueues, then the dequeues, until neither makes progress.                *)
FlushBegins(t) ==
  /\ Goto(t, "flush", "enqueue")
  /\ mu' = t
  /\ changed' = FALSE
  /\ UNCHANGED <<args, queue, closed, deques, attempt_vars, to_call, cm_vars, outcome, calls,
                 accepted>>

(* A cancelled attempt at the front is dropped. *)
Skip(t) ==
  /\ \/ /\ pc[t] = "enqueue" /\ enqueue_attempts # <<>> /\ is_cancelled[Head(enqueue_attempts)]
        /\ enqueue_attempts' = Tail(enqueue_attempts)
        /\ UNCHANGED dequeue_attempts
     \/ /\ pc[t] = "dequeue" /\ dequeue_attempts # <<>> /\ is_cancelled[Head(dequeue_attempts)]
        /\ dequeue_attempts' = Tail(dequeue_attempts)
        /\ UNCHANGED enqueue_attempts
  /\ UNCHANGED <<args, queue, closed, attempt_vars, mu, changed, pc, to_call, cm_vars,
                 outcome, calls, accepted>>

(* kComplete: the attempt goes to clean_up with its status. *)
Complete(t, a, s) ==
  /\ to_call' = [to_call EXCEPT ![t] = Append(@, a)]
  /\ outcome' = [outcome EXCEPT ![a] = s]
  /\ changed' = TRUE

(* The elements of enqueue a with the indices of S = i .. j. *)
Slices(a, i, j) == [k \in 1 .. j - i + 1 |-> <<a, i + k - 1>>]

Room == Capacity - Len(queue)

(* The run_callback of an enqueue: it fails on a closed queue, and else puts *)
(* in as many elements as there is room for.                                 *)
RunEnqueue(t, a) ==
  LET n == IF Room < requested[a] THEN Room ELSE requested[a]
      first == args.size[a] - requested[a] + 1
      new == Slices(a, first, first + n - 1)
  IN  IF closed
      THEN /\ Complete(t, a, "closed")
           /\ enqueue_attempts' = Tail(enqueue_attempts)
           /\ UNCHANGED <<queue, closed, requested, accepted, pc>>
      ELSE /\ queue' = queue \o new
           /\ accepted' = accepted \o new
           /\ requested' = [requested EXCEPT ![a] = @ - n]
           /\ IF n = requested[a]
              THEN /\ Complete(t, a, "ok")
                   /\ enqueue_attempts' = Tail(enqueue_attempts)
                   /\ UNCHANGED pc
              ELSE /\ changed' = (changed \/ n > 0)
                   /\ Goto(t, "enqueue", "dequeue")
                   /\ UNCHANGED <<enqueue_attempts, to_call, outcome>>
           /\ UNCHANGED closed

(* The run_callback of a Close. *)
RunClose(t, c) ==
  /\ Complete(t, c, IF closed THEN "cancelled" ELSE "ok")
  /\ closed' = TRUE
  /\ enqueue_attempts' = Tail(enqueue_attempts)
  /\ UNCHANGED <<queue, requested, accepted, pc>>

TryEnqueueAttempt(t) ==
  /\ pc[t] = "enqueue" /\ enqueue_attempts # <<>> /\ ~is_cancelled[Head(enqueue_attempts)]
  /\ IF Head(enqueue_attempts) \in Closes
     THEN RunClose(t, Head(enqueue_attempts))
     ELSE RunEnqueue(t, Head(enqueue_attempts))
  /\ UNCHANGED <<args, dequeue_attempts, is_cancelled, tuple, mu, cm_vars, calls>>

NoMoreEnqueues(t) ==
  /\ enqueue_attempts = <<>>
  /\ Goto(t, "enqueue", "dequeue")
  /\ UNCHANGED <<args, queue, closed, deques, attempt_vars, mu, changed, to_call, cm_vars,
                 outcome, calls, accepted>>

(* Fault: the elements of a batch that cannot be filled are put back at the end. *)
RestoredBehind(a) == queue \o tuple[a]

(* "Restore already-dequeued elements to the front of the queue." *)
Restored(a) == tuple[a] \o queue

(* TryAttemptLocked(kDequeue) is over: once more, if anything has changed,   *)
(* or mu_ is released.                                                       *)
EndPass(t, c) ==
  IF c THEN pc' = [pc EXCEPT ![t] = "enqueue"] /\ changed' = FALSE /\ UNCHANGED mu
  ELSE pc' = [pc EXCEPT ![t] = "clean_up"] /\ changed' = FALSE /\ mu' = None

(* The run_callback of a dequeue: the elements are taken as they come;       *)
(* when the queue is closed and there are not enough of them, they are put   *)
(* back, and the attempt fails or, with allow_small_batch, takes what there  *)
(* is (or waits for the enqueues that are left).                             *)
RunDequeue(t, a) ==
  LET n == IF Len(queue) < requested[a] THEN Len(queue) ELSE requested[a] IN
  IF closed /\ Len(queue) < requested[a]
  THEN IF a \in args.small /\ Restored(a) # <<>>
       THEN /\ queue' = <<>>
            /\ tuple' = [tuple EXCEPT ![a] = Restored(a)]
            /\ requested' = [requested EXCEPT ![a] = 0]
            /\ Complete(t, a, "ok")
            /\ dequeue_attempts' = Tail(dequeue_attempts)
            /\ UNCHANGED <<pc, mu>>
       ELSE IF a \in args.small /\ enqueue_attempts # <<>>
       THEN /\ EndPass(t, TRUE)
            /\ UNCHANGED <<queue, tuple, requested, to_call, outcome, dequeue_attempts>>
       ELSE /\ queue' = Restored(a)
            /\ tuple' = [tuple EXCEPT ![a] = <<>>]
            /\ Complete(t, a, "out_of_range")
            /\ dequeue_attempts' = Tail(dequeue_attempts)
            /\ UNCHANGED <<requested, pc, mu>>
  ELSE /\ queue' = SubSeq(queue, n + 1, Len(queue))
       /\ tuple' = [tuple EXCEPT ![a] = @ \o SubSeq(queue, 1, n)]
       /\ requested' = [requested EXCEPT ![a] = @ - n]
       /\ IF n = requested[a]
          THEN /\ Complete(t, a, "ok")
               /\ dequeue_attempts' = Tail(dequeue_attempts)
               /\ UNCHANGED <<pc, mu>>
          ELSE /\ EndPass(t, changed \/ n > 0)
               /\ UNCHANGED <<to_call, outcome, dequeue_attempts>>

TryDequeueAttempt(t) ==
  /\ pc[t] = "dequeue" /\ dequeue_attempts # <<>> /\ ~is_cancelled[Head(dequeue_attempts)]
  /\ RunDequeue(t, Head(dequeue_attempts))
  /\ UNCHANGED <<args, closed, enqueue_attempts, is_cancelled, cm_vars, calls, accepted>>

NoMoreDequeues(t) ==
  /\ pc[t] = "dequeue" /\ dequeue_attempts = <<>>
  /\ EndPass(t, changed)
  /\ UNCHANGED <<args, queue, closed, deques, attempt_vars, to_call, cm_vars, outcome, calls,
                 accepted>>

(* Outside mu_ the finished attempts are deregistered, which waits while     *)
(* their manager is being cancelled, and called back.                        *)
CleanUp(t) ==
  LET a == Head(to_call[t])
      m == args.manager[a]
  IN  /\ pc[t] = "clean_up" /\ Runs(t) /\ to_call[t] # <<>>
      /\ \/ /\ a \in Closes
            /\ Answer(a)
            /\ to_call' = [to_call EXCEPT ![t] = Tail(@)]
            /\ UNCHANGED <<pc, callbacks>>
         \/ /\ a \in Attempts /\ phase[m] # "cancelling"
            /\ Answer(a)
            /\ callbacks' = [callbacks EXCEPT ![m] = @ \ {a}]
            /\ to_call' = [to_call EXCEPT ![t] = Tail(@)]
            /\ UNCHANGED pc
         \/ /\ a \in Attempts /\ phase[m] = "cancelling"
            /\ Goto(t, "clean_up", "wait")
            /\ UNCHANGED <<callbacks, calls, to_call>>
      /\ UNCHANGED <<args, queue, closed, deques, attempt_vars, mu, changed, phase,
                     cancelling, outcome, accepted>>

DeregisterReturns(t) ==
  /\ Goto(t, "wait", "clean_up")
  /\ phase[args.manager[Head(to_call[t])]] = "cancelled"
  /\ UNCHANGED <<args, queue, closed, deques, attempt_vars, mu, changed, to_call, cm_vars,
                 outcome, calls, accepted>>

(* FlushUnlocked returns: to StartCancel's loop, or to the op. *)
FlushReturns(t) ==
  /\ to_call[t] = <<>>
  /\ Goto(t, "clean_up", IF t \in Cancelled THEN "loop"
                         ELSE IF t \in args.cancel_pending THEN "deliver" ELSE "over")
  /\ outcome' = [a \in Ops |-> IF a = t /\ t \in args.cancel_pending THEN "ok" ELSE outcome[a]]
  /\ UNCHANGED <<args, queue, closed, deques, attempt_vars, mu, changed, to_call, cm_vars,
                 calls, accepted>>

Flush(t) ==
  \/ FlushBegins(t)
  \/ Skip(t) \/ TryEnqueueAttempt(t) \/ NoMoreEnqueues(t)
  \/ TryDequeueAttempt(t) \/ NoMoreDequeues(t)
  \/ CleanUp(t) \/ DeregisterReturns(t) \/ FlushReturns(t)

--------------------------------------------------------------------------------
Next ==
  \/ \E a \in Attempts : Try(a)
  \/ \E c \in Closes : CloseQueues(c) \/ CloseAndCancel(c) \/ Deliver(c)
  \/ \E m \in Cancelled : Cancel(m)
  \/ \E t \in Threads : CallBack(t) \/ Flush(t)

Spec == Init /\ [][Next]_vars

(* A thread inside a call goes on, and gets mu_ when it is free again and    *)
(* again: the mutex does not starve a thread for ever.  Nobody is obliged to *)
(* call the queue or StartCancel.                                            *)
Fairness ==
  /\ \A t \in Threads : WF_vars(CallBack(t) \/ Flush(t)) /\ SF_vars(FlushBegins(t))
  /\ \A a \in Ops : WF_vars(Deliver(a))
  /\ \A m \in Cancelled :
       /\ WF_vars((\E a \in Attempts : CancelCallback(m, a)) \/ CancelFinishes(m))
       /\ SF_vars(CancelFinds(m) \/ CancelFindsNothing(m))

FairSpec == Spec /\ Fairness

--------------------------------------------------------------------------------
(* The places an unanswered op can be in: waiting in its deque, or in the    *)
(* hands of a thread that is going to call it back.                          *)
Waiting(a) == Queued(a) /\ ~is_cancelled[a]
InHand(a) == (\E t \in Threads : a \in ToSet(to_call[t])) \/ pc[a] = "deliver"

(* However completion, cancellation by the step and Close race for an        *)
(* attempt, its callback is called once, and a call that has returned        *)
(* without an answer is still in exactly one place that will give it one.    *)
AnsweredOnce ==
  \A a \in Ops :
    /\ calls[a] <= 1
    /\ calls[a] = 1 => ~Waiting(a) /\ ~InHand(a)
    /\ ~(Waiting(a) /\ InHand(a))
    /\ pc[a] = "over" /\ calls[a] = 0 => Waiting(a) \/ InHand(a)

(* The places of element x: the queue, or the tuple of a dequeue. *)
Holders(x) == {a \in Dequeues : x \in ToSet(tuple[a])}

(* The elements of s, in the order in which they were enqueued. *)
InOrder(s) ==
  \A i, j \in 1 .. Len(s) :
    i < j => \E p, q \in 1 .. Len(accepted) : p < q /\ s[i] = accepted[p] /\ s[j] = accepted[q]

(* No element that was enqueued is lost or duplicated or overtaken by a      *)
(* later one, not even when a half-filled batch is put back because the      *)
(* queue is closed; only the cancellation of a half-filled dequeue drops     *)
(* what it has.                                                              *)
ElementAccounting ==
  /\ \A x \in ToSet(accepted) :
       IF x \in ToSet(queue) THEN Holders(x) = {} ELSE \E a \in Dequeues : Holders(x) = {a}
  /\ \A a \in Dequeues : tuple[a] # <<>> => Waiting(a) \/ outcome[a] \in {"ok", "cancelled"}
  /\ InOrder(queue) /\ \A a \in Dequeues : InOrder(tuple[a])

(* StartCancel of m runs the Cancel of an attempt, whose FlushUnlocked has   *)
(* completed another attempt of the same step and deregisters it: it waits   *)
(* for the notification that it would give itself.                           *)
WaitsForItself(m) == pc[m] = "wait" /\ args.manager[Head(to_call[m])] = m

(* The queue is closed or the op's step is cancelled: nothing is to be waited for. *)
Owed(a) ==
  pc[a] # "start" /\ (closed \/ (a \in Attempts /\ phase[args.manager[a]] # "none"))

(* "The function object is guaranteed to call 'callback'"                    *)
(* (queue_interface.h:42): once the queue is closed or its step cancelled,   *)
(* an op that has been called is answered, unless a StartCancel comes to     *)
(* wait for itself; then it hangs, and the guarantee is not kept.            *)
GuaranteedCallback ==
  [](\A m \in Cancelled : ~WaitsForItself(m)) => \A a \in Ops : Owed(a) ~> (calls[a] = 1)
================================================================================
