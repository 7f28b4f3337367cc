-------------------------- MODULE SharedBatchScheduler --------------------------
(***************************************************************************)
(* tensorflow::serving::SharedBatchScheduler                               *)
(* (core/kernels/batching_util/shared_batch_scheduler.h): clients schedule *)
(* tasks into queues of batches, and a pool of batch threads goes round    *)
(* the queues.  A thread holds the scheduler's mutex while it asks a queue *)
(* three times, and takes that queue's own mutex for each question: these  *)
(* are three steps, and clients and other threads come between them.       *)
(***************************************************************************)
EXTENDS Integers, FiniteSets, SequencesExt

CONSTANTS Queues, Threads, Tasks,
          QueueOf(_), SizeOf(_),  \* of each task
          Asking,                 \* queues whose one client asks for the capacity
          MaxBatchSize,           \* options_.max_batch_size
          MaxEnqueued,            \* options_.max_enqueued_batches
          SizeBits, IntBits,      \* the widths of size_t and of int
          End                     \* queues_.end(), nullptr, nobody

ASSUME BatchAssumption ==
  /\ MaxBatchSize \in Nat \ {0} /\ MaxEnqueued \in Nat
  /\ 2^(IntBits - 1) \in Nat \ {0} /\ 2^IntBits = 2 * 2^(IntBits - 1)
  /\ 2^SizeBits \in Nat /\ 2^IntBits <= 2^SizeBits
  /\ \A t \in Tasks : QueueOf(t) \in Queues /\ SizeOf(t) \in Nat \ {0}
  /\ End \notin Queues \cup Threads /\ Asking \subseteq Queues
  /\ IsFiniteSet(Threads)

VARIABLES
  mu,          \* who holds mu_ of the scheduler, or End
  queues,      \* queues_
  next,        \* next_queue_to_schedule_
  batches,     \* batches_ of each queue, each a sequence of tasks
  closed,      \* closed_
  due,         \* batch_timeout_micros have passed for the open batch
  schedulable, \* schedulable_batch_
  processing,  \* num_batches_being_processed_
  awaited,     \* empty_notification_ is set
  handle,      \* where the client is with each queue's handle
  th,          \* each thread: pc, tried and num of its loop, the queue's
               \* closedness, and the batch and queue it works for
  signalled,   \* threads told through schedulable_batch_cv_
  task,        \* where each task is
  notifying,   \* tasks whose Schedule has yet to call schedulable_batch_callback_
  stopping,    \* the destructor has seen no queue: threads end
  promised,    \* history: what SchedulingCapacity promised and is not used up
  broken       \* history: a promise was broken

queueVars == <<batches, closed, due, schedulable, processing, awaited>>
vars == <<mu, queues, next, queueVars, handle, th, signalled, task, notifying, stopping,
          promised, broken>>

Idle == [pc |-> "idle", tried |-> 0, num |-> 0, shut |-> FALSE, batch |-> <<>>, q |-> End]

Init ==
  /\ mu = End /\ queues = <<>> /\ next = End
  /\ batches = [q \in Queues |-> << <<>> >>]
  /\ closed = [q \in Queues |-> FALSE] /\ due = [q \in Queues |-> FALSE]
  /\ schedulable = [q \in Queues |-> FALSE]
  /\ processing = [q \in Queues |-> 0] /\ awaited = [q \in Queues |-> FALSE]
  /\ handle = [q \in Queues |-> "none"]
  /\ th = [t \in Threads |-> Idle] /\ signalled = {}
  /\ task = [k \in Tasks |-> "new"] /\ notifying = {} /\ stopping = FALSE
  /\ promised = [q \in Queues |-> 0] /\ broken = FALSE

--------------------------------------------------------------------------------
(* internal::Queue *)

Size(batch) ==
  LET sum[i \in 0 .. Len(batch)] == IF i = 0 THEN 0 ELSE sum[i - 1] + SizeOf(batch[i])
  IN  sum[Len(batch)]

(* Fault: batches being processed are forgotten. *)
NothingEnqueued(bs, running) == bs = << <<>> >>

IsEmptyInternal(bs, running) == running = 0 /\ bs = << <<>> >>

StartNewBatch(bs) == Append(bs, <<>>)

IsOpenBatchSchedulable(bs, shut, timeout) ==
  Last(bs) # <<>> /\ (shut \/ Size(Last(bs)) >= MaxBatchSize \/ timeout)

Fits(bs, k) == Size(Last(bs)) + SizeOf(k) <= MaxBatchSize

Full(bs) == Len(bs) >= MaxEnqueued

AddTask(bs, k) == [bs EXCEPT ![Len(bs)] = Append(@, k)]

(* The conversion of an unsigned value to int: the low bits, with a sign. *)
ToInt(n) ==
  LET low == n % 2^IntBits
  IN  IF low < 2^(IntBits - 1) THEN low ELSE low - 2^IntBits

(* Fault: the open batch counts as empty. *)
CapacityOfBatches(bs) ==
  (ToInt((MaxEnqueued - Len(bs)) % 2^SizeBits) * MaxBatchSize + ToInt(MaxBatchSize)) % 2^SizeBits

(* The two differences are of size_t and are kept in an int; their product   *)
(* and sum are of size_t again, so that a negative int counts as a huge one. *)
SchedulingCapacity(bs) ==
  LET num_new_batches_schedulable == ToInt((MaxEnqueued - Len(bs)) % 2^SizeBits)
      open_batch_capacity == ToInt((MaxBatchSize - Size(Last(bs))) % 2^SizeBits)
  IN  (num_new_batches_schedulable * MaxBatchSize + open_batch_capacity) % 2^SizeBits

(* Schedule under mu_ of the queue.  The clock may pass the timeout on the way. *)
Accept(q, k, bs, timeout) ==
  /\ batches' = [batches EXCEPT ![q] = bs]
  /\ due' = [due EXCEPT ![q] = timeout]
  /\ promised' = [promised EXCEPT ![q] = IF SizeOf(k) = 1 /\ @ > 0 THEN @ - 1 ELSE 0]
  /\ LET notify == ~schedulable[q]
                   /\ (Len(bs) > 1 \/ IsOpenBatchSchedulable(bs, closed[q], timeout))
     IN  /\ schedulable' = [schedulable EXCEPT ![q] = @ \/ notify]
         /\ notifying' = IF notify THEN notifying \cup {k} ELSE notifying
  /\ task' = [task EXCEPT ![k] = "accepted"]
  /\ UNCHANGED broken

Refuse(q, k, why) ==
  /\ task' = [task EXCEPT ![k] = why]
  /\ broken' = (broken \/ (why = "unavailable" /\ SizeOf(k) = 1 /\ promised[q] > 0))
  /\ UNCHANGED <<batches, due, promised, schedulable, notifying>>

Schedule(k) ==
  LET q == QueueOf(k)
      bs == batches[q]
      room == IF Fits(bs, k) THEN bs ELSE StartNewBatch(bs)
  IN  /\ handle[q] = "open" /\ task[k] = "new"
      /\ \/ SizeOf(k) > MaxBatchSize /\ Refuse(q, k, "invalid")
         \/ SizeOf(k) <= MaxBatchSize /\ ~Fits(bs, k) /\ Full(bs) /\ Refuse(q, k, "unavailable")
         \/ /\ SizeOf(k) <= MaxBatchSize /\ (Fits(bs, k) \/ ~Full(bs))
            /\ \E timeout \in {due[q] /\ Last(room) # <<>>, TRUE} :
                 Accept(q, k, AddTask(room, k), timeout)
      /\ UNCHANGED <<mu, queues, next, closed, processing, awaited, handle, th, signalled,
                     stopping>>

(* schedulable_batch_callback_: takes mu_ of the scheduler, and only that. *)
NotifyScheduler(k) ==
  /\ k \in notifying /\ mu = End
  /\ notifying' = notifying \ {k}
  /\ LET waiting == {t \in Threads : th[t].pc = "waiting"} \ signalled
     IN  \/ waiting = {} /\ UNCHANGED signalled
         \/ \E t \in waiting : signalled' = signalled \cup {t}
  /\ UNCHANGED <<mu, queues, next, queueVars, handle, th, task, stopping, promised, broken>>

(* A client asks; it is the only one to schedule while it relies on the answer. *)
AskCapacity(q) ==
  /\ q \in Asking /\ handle[q] = "open"
  /\ promised' = [promised EXCEPT ![q] = SchedulingCapacity(batches[q])]
  /\ UNCHANGED <<mu, queues, next, queueVars, handle, th, signalled, task, notifying,
                 stopping, broken>>

(* The clock reaches the timeout of an open batch. *)
Clock(q) ==
  /\ Last(batches[q]) # <<>> /\ ~due[q]
  /\ due' = [due EXCEPT ![q] = TRUE]
  /\ UNCHANGED <<mu, queues, next, batches, closed, schedulable, processing, awaited, handle,
                 th, signalled, task, notifying, stopping, promised, broken>>

AddQueue(q) ==
  /\ handle[q] = "none" /\ mu = End /\ ~stopping
  /\ queues' = Append(queues, q)
  /\ next' = IF next = End THEN Head(queues') ELSE next
  /\ handle' = [handle EXCEPT ![q] = "open"]
  /\ UNCHANGED <<mu, queueVars, th, signalled, task, notifying, stopping, promised, broken>>

(* ~QueueHandle, CloseAndWaitUntilEmpty: no call of Schedule is under way. *)
Close(q) ==
  /\ handle[q] = "open"
  /\ \A k \in notifying : QueueOf(k) # q
  /\ closed' = [closed EXCEPT ![q] = TRUE]
  /\ IF IsEmptyInternal(batches[q], processing[q])
       THEN handle' = [handle EXCEPT ![q] = "closed"] /\ UNCHANGED awaited
       ELSE /\ handle' = [handle EXCEPT ![q] = "closing"]
            /\ awaited' = [awaited EXCEPT ![q] = TRUE]
  /\ UNCHANGED <<mu, queues, next, batches, due, schedulable, processing, th, signalled, task,
                 notifying, stopping, promised, broken>>

(* ~SharedBatchScheduler, once no handle shares it: its wait for the queues, *)
(* after which the threads are told to stop and are joined.                  *)
Destroy ==
  /\ \A q \in Queues : handle[q] = "closed"
  /\ mu = End /\ queues = <<>> /\ ~stopping
  /\ stopping' = TRUE
  /\ UNCHANGED <<mu, queues, next, queueVars, handle, th, signalled, task, notifying, promised,
                 broken>>

--------------------------------------------------------------------------------
(* ThreadLogic *)

Start(t) ==
  /\ th[t].pc = "idle" /\ mu = End /\ ~stopping
  /\ mu' = t
  /\ th' = [th EXCEPT ![t].pc = "ask", ![t].tried = 0, ![t].num = Len(queues)]
  /\ UNCHANGED <<queues, next, queueVars, handle, signalled, task, notifying, stopping,
                 promised, broken>>

(* closed() of the next queue; or all were tried, and it waits for a while. *)
AskClosed(t) ==
  /\ th[t].pc = "ask"
  /\ \/ /\ th[t].tried < th[t].num
        /\ th' = [th EXCEPT ![t].pc = "schedule", ![t].shut = closed[next]]
        /\ UNCHANGED mu
     \/ /\ th[t].tried >= th[t].num
        /\ th' = [th EXCEPT ![t] = [Idle EXCEPT !.pc = "waiting"]]
        /\ mu' = End
  /\ UNCHANGED <<queues, next, queueVars, handle, signalled, task, notifying, stopping,
                 promised, broken>>

FrontBatch(bs) == 1

ScheduleBatch(t) ==
  LET q == next
      bs == IF Len(batches[q]) = 1 /\ IsOpenBatchSchedulable(batches[q], closed[q], due[q])
              THEN StartNewBatch(batches[q]) ELSE batches[q]
  IN  /\ th[t].pc = "schedule"
      /\ \/ /\ Len(bs) >= 2
            /\ processing' = [processing EXCEPT ![q] = @ + 1]
            /\ batches' = [batches EXCEPT ![q] = RemoveAt(bs, FrontBatch(bs))]
            /\ due' = [due EXCEPT ![q] = @ /\ Last(bs) # <<>>]
            /\ th' = [th EXCEPT ![t].pc = "advance", ![t].batch = bs[FrontBatch(bs)], ![t].q = q]
            /\ UNCHANGED schedulable
         \/ /\ Len(bs) < 2
            /\ schedulable' = [schedulable EXCEPT ![q] = FALSE]
            /\ th' = [th EXCEPT ![t].pc = "advance"]
            /\ UNCHANGED <<processing, batches, due>>
      /\ UNCHANGED <<mu, queues, next, closed, awaited, handle, signalled, task, notifying,
                     stopping, promised, broken>>

(* Fault: a closed queue that gave no batch is done with. *)
DropWhenClosed(t) == th[t].shut /\ th[t].q = End

(* No batch to process is also no queue for it. *)
Drops(t) ==
  th[t].shut /\ IsEmptyInternal(batches[next], processing[next]) /\ th[t].q = End

(* The iterator that points to q, and the element after it. *)
Position(qs, q) == CHOOSE i \in DOMAIN qs : qs[i] = q

Following(qs, q) == LET i == Position(qs, q) IN IF i < Len(qs) THEN qs[i + 1] ELSE End

Wrapped(q, qs) == IF q = End /\ qs # <<>> THEN Head(qs) ELSE q

Advance(t) ==
  /\ th[t].pc = "advance"
  /\ queues' = IF Drops(t) THEN RemoveAt(queues, Position(queues, next)) ELSE queues
  /\ next' = Wrapped(Following(queues, next), queues')
  /\ \/ /\ th[t].q = End
        /\ th' = [th EXCEPT ![t].pc = "ask", ![t].tried = @ + 1]
        /\ UNCHANGED mu
     \/ /\ th[t].q # End
        /\ th' = [th EXCEPT ![t] = [Idle EXCEPT !.pc = "process", !.batch = th[t].batch, !.q = th[t].q]]
        /\ mu' = End
  /\ UNCHANGED <<queueVars, handle, signalled, task, notifying, stopping, promised, broken>>

(* WaitForMilliseconds ends by a notification, or after the 1 ms it may last. *)
(* Fault: it has no timeout. *)
OnlyNotified(t) == t \in signalled

WaitOver(t) == TRUE

WaitEnds(t) ==
  /\ th[t].pc = "waiting" /\ WaitOver(t) /\ mu = End
  /\ th' = [th EXCEPT ![t] = Idle]
  /\ signalled' = signalled \ {t}
  /\ UNCHANGED <<mu, queues, next, queueVars, handle, task, notifying, stopping, promised,
                 broken>>

(* ProcessBatch: the client's callback, ... *)
ProcessBatch(t) ==
  /\ th[t].pc = "process"
  /\ task' = [k \in Tasks |-> IF k \in ToSet(th[t].batch) THEN "processed" ELSE task[k]]
  /\ th' = [th EXCEPT ![t].pc = "finish"]
  /\ UNCHANGED <<mu, queues, next, queueVars, handle, signalled, notifying, stopping, promised,
                 broken>>

(* ... and the queue is told. *)
TellsCloser(q) == awaited[q] /\ IsEmptyInternal(batches[q], processing[q] - 1)

Finish(t) ==
  LET q == th[t].q IN
  /\ th[t].pc = "finish"
  /\ processing' = [processing EXCEPT ![q] = @ - 1]
  /\ handle' = IF TellsCloser(q) THEN [handle EXCEPT ![q] = "closed"] ELSE handle
  /\ th' = [th EXCEPT ![t] = Idle]
  /\ UNCHANGED <<mu, queues, next, batches, closed, due, schedulable, awaited, signalled,
                 task, notifying, stopping, promised, broken>>

(* PeriodicFunction leaves its loop. *)
Exit(t) ==
  /\ th[t].pc = "idle" /\ stopping
  /\ th' = [th EXCEPT ![t].pc = "exited"]
  /\ UNCHANGED <<mu, queues, next, queueVars, handle, signalled, task, notifying, stopping,
                 promised, broken>>

Thread(t) ==
  \/ Start(t) \/ AskClosed(t) \/ ScheduleBatch(t) \/ Advance(t) \/ WaitEnds(t)
  \/ ProcessBatch(t) \/ Finish(t) \/ Exit(t)

Next ==
  \/ \E k \in Tasks : Schedule(k) \/ NotifyScheduler(k)
  \/ \E q \in Queues : AskCapacity(q) \/ Clock(q) \/ AddQueue(q) \/ Close(q)
  \/ Destroy
  \/ \E t \in Threads : Thread(t)

(* The threads run, the clock goes on, and whoever waits for mu_ gets it. *)
Fairness ==
  /\ \A t \in Threads : WF_vars(Thread(t))
  /\ \A q \in Queues : WF_vars(Clock(q))
  /\ \A k \in Tasks : SF_vars(NotifyScheduler(k))
  /\ SF_vars(Destroy)

Spec == Init /\ [][Next]_vars /\ Fairness

--------------------------------------------------------------------------------
(* A queue is deleted only when nobody will touch it again: no thread works on a *)
(* batch of it, its client's handle is closed and nothing is enqueued.           *)
KeptWhileUsed ==
  /\ \A t \in Threads : th[t].q # End => th[t].q \in ToSet(queues)
  /\ \A q \in Queues : (handle[q] \in {"open", "closing"} \/ batches[q] # << <<>> >>) =>
       q \in ToSet(queues)

(* "The returned queue's destructor blocks until all tasks submitted to it have *)
(* been processed."                                                             *)
CloseCovers ==
  \A k \in Tasks : handle[QueueOf(k)] = "closed" => task[k] # "accepted"

(* The limits for which the ints of SchedulingCapacity hold what they are given. *)
LimitsFitInt == MaxEnqueued \in 1 .. 2^(IntBits - 1) /\ MaxBatchSize < 2^(IntBits - 1)

(* SchedulingCapacity is "a guaranteed number of size 1 tasks that can be *)
(* Schedule()d without getting an UNAVAILABLE error", whatever the batch  *)
(* threads do meanwhile and though its sum may wrap, as long as the two   *)
(* limits fit an int.                                                     *)
CapacityKept == LimitsFitInt => ~broken

(* A task that was accepted is processed, though nobody tells the threads when  *)
(* an open batch reaches its timeout (said of all tasks at once: there are only *)
(* so many, and none is taken back).                                            *)
TasksProcessed == []<>(\A k \in Tasks : task[k] # "accepted")

================================================================================
