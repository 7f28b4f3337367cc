----------------------- MODULE SharedBatchSchedulerProofs -----------------------
(***************************************************************************)
(* Proofs about SharedBatchScheduler, for any number of queues, threads    *)
(* and tasks and any sizes and limits.                                     *)
(***************************************************************************)
EXTENDS SharedBatchScheduler, FiniteSetTheorems, SequenceTheorems, WellFoundedInduction, TLAPS

Pcs == {"idle", "ask", "schedule", "advance", "waiting", "process", "finish", "exited"}
ThreadStates == [pc : Pcs, tried : Nat, num : Nat, shut : BOOLEAN, batch : Seq(Tasks),
                 q : Queues \cup {End}]

TypeOK ==
  /\ mu \in Threads \cup {End}
  /\ queues \in Seq(Queues)
  /\ next \in Queues \cup {End}
  /\ batches \in [Queues -> Seq(Seq(Tasks))]
  /\ \A q \in Queues : Len(batches[q]) >= 1
  /\ closed \in [Queues -> BOOLEAN]
  /\ processing \in [Queues -> Nat]
  /\ awaited \in [Queues -> BOOLEAN]
  /\ handle \in [Queues -> {"none", "open", "closing", "closed"}]
  /\ th \in [Threads -> ThreadStates]
  /\ task \in [Tasks -> {"new", "accepted", "processed", "invalid", "unavailable"}]

Listed(q) == \E i \in 1 .. Len(queues) : queues[i] = q

(* The thread in the loop of ThreadLogic holds mu_, and has fewer queues to  *)
(* try than there are: next_queue_to_schedule_ is then one of them.  What it *)
(* saw closed is still closed.                                               *)
Loop ==
  /\ queues # <<>> => next # End
  /\ next # End => Listed(next)
  /\ \A t \in Threads :
       /\ th[t].pc \in {"ask", "schedule", "advance"} <=> mu = t
       /\ mu = t => th[t].num - th[t].tried <= Len(queues)
       /\ th[t].pc \in {"schedule", "advance"} =>
            /\ th[t].tried < th[t].num
            /\ th[t].shut => closed[next]
       /\ th[t].pc \notin {"advance", "process", "finish"} => th[t].q = End
       /\ th[t].pc \in {"process", "finish"} => th[t].q # End

Users(q) == {t \in Threads : th[t].q = q}

(* num_batches_being_processed_ counts the threads that work for the queue.  *)
Counted == \A q \in Queues : processing[q] = Cardinality(Users(q))

EmptyQueue(q) == processing[q] = 0 /\ batches[q] = << <<>> >>

(* What the phase of a queue's handle says of the queue: the closer waits as *)
(* long as there is work, and the queue is listed until then.                *)
Handles ==
  \A q \in Queues :
    /\ handle[q] = "none" => ~closed[q] /\ ~awaited[q] /\ EmptyQueue(q)
    /\ handle[q] = "open" => ~closed[q] /\ ~awaited[q]
    /\ handle[q] = "closing" => closed[q] /\ awaited[q] /\ ~EmptyQueue(q)
    /\ handle[q] = "closed" => closed[q] /\ EmptyQueue(q)
    /\ handle[q] \in {"open", "closing"} => Listed(q)

InBatch(b, k) == \E j \in 1 .. Len(b) : b[j] = k
Enqueued(bs, k) == \E i \in 1 .. Len(bs) : InBatch(bs[i], k)

(* A task that was accepted is in a batch of its queue, or in the batch of a *)
(* thread that has yet to process it.                                        *)
Accepted ==
  \A k \in Tasks : task[k] = "accepted" =>
    \/ Enqueued(batches[QueueOf(k)], k)
    \/ \E t \in Threads : /\ th[t].q = QueueOf(k) /\ th[t].pc \in {"advance", "process"}
                          /\ InBatch(th[t].batch, k)

IInv == TypeOK /\ Loop /\ Counted /\ Handles /\ Accepted

--------------------------------------------------------------------------------
(* Sequences: an element erased, a batch started, a task added. *)

(* What is left of a list when its element at i is erased. *)
LEMMA RemoveAtFacts ==
  ASSUME NEW S, NEW s \in Seq(S), NEW i \in 1 .. Len(s)
  PROVE  /\ RemoveAt(s, i) \in Seq(S)
         /\ Len(RemoveAt(s, i)) = Len(s) - 1
         /\ \A j \in 1 .. Len(s) - 1 : RemoveAt(s, i)[j] = IF j < i THEN s[j] ELSE s[j + 1]
  <1> DEFINE a == SubSeq(s, 1, i - 1)
             b == SubSeq(s, i + 1, Len(s))
  <1>1. Len(s) \in Nat /\ \A j \in 1 .. Len(s) : s[j] \in S
    BY LenProperties, ElementOfSeq
  <1>2. /\ a \in Seq(S) /\ Len(a) = i - 1
        /\ \A j \in 1 .. (i - 1) : a[j] = s[j]
    <2>1. \A j \in 1 .. (i - 1) : s[j] \in S
      BY <1>1
    <2>2. /\ a \in Seq(S) /\ Len(a) = IF 1 <= i - 1 THEN (i - 1) - 1 + 1 ELSE 0
          /\ \A j \in 1 .. ((i - 1) - 1 + 1) : a[j] = s[1 + j - 1]
      BY <1>1, <2>1, SubSeqProperties
    <2> QED
      BY <1>1, <2>2
  <1>3. /\ b \in Seq(S) /\ Len(b) = Len(s) - i
        /\ \A j \in 1 .. (Len(s) - i) : b[j] = s[i + j]
    <2>1. \A j \in (i + 1) .. Len(s) : s[j] \in S
      BY <1>1
    <2>2. i + 1 \in Int /\ Len(s) \in Int
      BY <1>1
    <2>3. /\ b \in Seq(S)
          /\ Len(b) = IF i + 1 <= Len(s) THEN Len(s) - (i + 1) + 1 ELSE 0
          /\ \A j \in 1 .. (Len(s) - (i + 1) + 1) : b[j] = s[(i + 1) + j - 1]
      BY <2>1, <2>2, SubSeqProperties
    <2> QED
      BY <1>1, <2>3
  <1> HIDE DEF a, b
  <1>4. /\ a \o b \in Seq(S) /\ Len(a \o b) = Len(a) + Len(b)
        /\ \A j \in 1 .. (Len(a) + Len(b)) :
             (a \o b)[j] = IF j <= Len(a) THEN a[j] ELSE b[j - Len(a)]
    BY <1>2, <1>3, ConcatProperties
  <1>5. RemoveAt(s, i) = a \o b
    BY DEF RemoveAt, a, b
  <1>6. Len(a \o b) = Len(s) - 1
    BY <1>1, <1>2, <1>3, <1>4
  <1>7. ASSUME NEW j \in 1 .. Len(s) - 1
        PROVE  (a \o b)[j] = IF j < i THEN s[j] ELSE s[j + 1]
    <2>1. (a \o b)[j] = IF j <= i - 1 THEN a[j] ELSE b[j - (i - 1)]
      BY <1>1, <1>2, <1>3, <1>4
    <2>2. CASE j < i
      BY <1>1, <1>2, <2>1, <2>2
    <2>3. CASE ~(j < i)
      <3>1. j - (i - 1) \in 1 .. (Len(s) - i) /\ i + (j - (i - 1)) = j + 1
        BY <1>1, <2>3
      <3> QED
        BY <1>1, <1>3, <2>1, <2>3, <3>1
    <2> QED
      BY <2>2, <2>3
  <1> QED
    BY <1>4, <1>5, <1>6, <1>7

(* A new open batch at the back. *)
LEMMA StartNewBatchFacts ==
  ASSUME NEW bs \in Seq(Seq(Tasks))
  PROVE  /\ StartNewBatch(bs) \in Seq(Seq(Tasks))
         /\ Len(StartNewBatch(bs)) = Len(bs) + 1
         /\ \A k \in Tasks : Enqueued(bs, k) => Enqueued(StartNewBatch(bs), k)
  <1>1. Len(bs) \in Nat /\ <<>> \in Seq(Tasks)
    BY LenProperties, EmptySeq
  <1>2. /\ Append(bs, <<>>) \in Seq(Seq(Tasks))
        /\ Len(Append(bs, <<>>)) = Len(bs) + 1
        /\ \A i \in 1 .. Len(bs) : Append(bs, <<>>)[i] = bs[i]
    BY <1>1, AppendProperties
  <1>3. ASSUME NEW k \in Tasks, Enqueued(bs, k)
        PROVE  Enqueued(Append(bs, <<>>), k)
    <2>1. PICK i \in 1 .. Len(bs) : InBatch(bs[i], k)
      BY <1>3 DEF Enqueued
    <2>2. i \in 1 .. Len(Append(bs, <<>>)) /\ InBatch(Append(bs, <<>>)[i], k)
      BY <1>1, <1>2, <2>1
    <2> QED
      BY <2>2 DEF Enqueued
  <1> QED
    BY <1>2, <1>3 DEF StartNewBatch

(* A task at the end of the open batch. *)
LEMMA AddTaskFacts ==
  ASSUME NEW bs \in Seq(Seq(Tasks)), Len(bs) >= 1, NEW k \in Tasks
  PROVE  /\ AddTask(bs, k) \in Seq(Seq(Tasks))
         /\ Len(AddTask(bs, k)) = Len(bs)
         /\ Enqueued(AddTask(bs, k), k)
         /\ \A j \in Tasks : Enqueued(bs, j) => Enqueued(AddTask(bs, k), j)
  <1> DEFINE n == Len(bs)
             b == Append(bs[n], k)
             new == [bs EXCEPT ![n] = b]
  <1>1. n \in Nat /\ n \in 1 .. n /\ \A i \in 1 .. n : bs[i] \in Seq(Tasks)
    BY LenProperties, ElementOfSeq
  <1>2. /\ b \in Seq(Tasks) /\ Len(bs[n]) \in Nat /\ Len(b) = Len(bs[n]) + 1
        /\ b[Len(bs[n]) + 1] = k
        /\ \A i \in 1 .. Len(bs[n]) : b[i] = bs[n][i]
    BY <1>1, AppendProperties, LenProperties
  <1> HIDE DEF b
  <1>3. /\ new \in Seq(Seq(Tasks)) /\ Len(new) = n
        /\ new[n] = b /\ \A i \in 1 .. n : i # n => new[i] = bs[i]
    BY <1>1, <1>2, ExceptSeq
  <1>4. AddTask(bs, k) = new
    BY DEF AddTask, b
  <1> HIDE DEF new
  <1>5. InBatch(b, k) /\ \A j \in Tasks : InBatch(bs[n], j) => InBatch(b, j)
    <2>1. Len(bs[n]) + 1 \in 1 .. Len(b)
      BY <1>2
    <2>2. \A i \in 1 .. Len(bs[n]) : i \in 1 .. Len(b)
      BY <1>2
    <2> QED
      BY <1>2, <2>1, <2>2 DEF InBatch
  <1>6. Enqueued(new, k)
    BY <1>1, <1>3, <1>5 DEF Enqueued
  <1>7. ASSUME NEW j \in Tasks, Enqueued(bs, j)
        PROVE  Enqueued(new, j)
    <2>1. PICK i \in 1 .. n : InBatch(bs[i], j)
      BY <1>7 DEF Enqueued
    <2>2. InBatch(new[i], j)
      BY <1>3, <1>5, <2>1
    <2> QED
      BY <1>3, <2>1, <2>2 DEF Enqueued
  <1> QED
    BY <1>3, <1>4, <1>6, <1>7

(* A queue whose only batch is empty has no task enqueued. *)
LEMMA NothingInEmpty ==
  ASSUME NEW k
  PROVE  ~Enqueued(<< <<>> >>, k)
  <1>1. Len(<< <<>> >>) = 1 /\ << <<>> >>[1] = <<>> /\ Len(<<>>) = 0
    OBVIOUS
  <1> QED
    BY <1>1 DEF Enqueued, InBatch

(* The threads that work for a queue are finitely many. *)
LEMMA UsersFinite ==
  ASSUME NEW q
  PROVE  /\ IsFiniteSet(Users(q)) /\ Cardinality(Users(q)) \in Nat
         /\ Cardinality(Users(q)) = 0 <=> Users(q) = {}
  <1>1. Users(q) \subseteq Threads
    BY DEF Users
  <1>2. IsFiniteSet(Users(q))
    BY <1>1, FS_Subset, BatchAssumption
  <1> QED
    BY <1>2, FS_CardinalityType, FS_EmptySet

(* A thread with queues to try finds next_queue_to_schedule_ at one of them. *)
LEMMA NextInLoop ==
  ASSUME TypeOK, Loop, NEW t \in Threads, mu = t, th[t].tried < th[t].num
  PROVE  next \in Queues /\ Listed(next)
  <1>1. /\ th[t].tried \in Nat /\ th[t].num \in Nat /\ queues \in Seq(Queues)
        /\ th[t].num - th[t].tried <= Len(queues)
    BY DEF TypeOK, ThreadStates, Loop
  <1>2. queues # <<>>
    BY <1>1, EmptySeq
  <1> QED
    BY <1>2 DEF Loop, TypeOK

--------------------------------------------------------------------------------
(* The inductive invariant holds initially. *)
LEMMA InitIInv == Init => IInv
  <1> SUFFICES ASSUME Init PROVE IInv
    OBVIOUS
  <1> USE BatchAssumption DEF Init, Idle
  <1>1. TypeOK
    <2>1. <<>> \in Seq(Queues) /\ <<>> \in Seq(Tasks) /\ << <<>> >> \in Seq(Seq(Tasks))
          /\ Len(<< <<>> >>) = 1
      OBVIOUS
    <2> QED
      BY <2>1 DEF TypeOK, ThreadStates, Pcs
  <1>2. Loop
    BY DEF Loop
  <1>3. Counted
    <2>1. ASSUME NEW q \in Queues PROVE Cardinality(Users(q)) = 0
      <3>1. Users(q) = {}
        BY DEF Users
      <3> QED
        BY <3>1, UsersFinite
    <2> QED
      BY <2>1 DEF Counted
  <1>4. Handles
    BY DEF Handles, EmptyQueue
  <1>5. Accepted
    BY DEF Accepted
  <1> QED
    BY <1>1, <1>2, <1>3, <1>4, <1>5 DEF IInv

(* A task is scheduled, or refused. *)
LEMMA ScheduleIInv == ASSUME IInv, NEW k \in Tasks, Schedule(k) PROVE IInv'
  <1> DEFINE q == QueueOf(k)
             room == IF Fits(batches[q], k) THEN batches[q] ELSE StartNewBatch(batches[q])
  <1> USE DEF IInv
  <1>1. /\ q \in Queues /\ handle[q] = "open" /\ task[k] = "new"
        /\ UNCHANGED <<mu, queues, next, closed, processing, awaited, handle, th>>
    BY BatchAssumption DEF Schedule
  <1>2. \/ \E why \in {"invalid", "unavailable"} : task' = [task EXCEPT ![k] = why] /\ batches' = batches
        \/ task' = [task EXCEPT ![k] = "accepted"] /\ batches' = [batches EXCEPT ![q] = AddTask(room, k)]
    BY DEF Schedule, Refuse, Accept
  <1>3. /\ batches[q] \in Seq(Seq(Tasks)) /\ Len(batches[q]) >= 1
    BY <1>1 DEF TypeOK
  <1>4. /\ room \in Seq(Seq(Tasks)) /\ Len(room) >= 1
        /\ \A j \in Tasks : Enqueued(batches[q], j) => Enqueued(room, j)
    <2>1. Len(batches[q]) \in Nat
      BY <1>3, LenProperties
    <2>2. CASE Fits(batches[q], k)
      BY <1>3, <2>2
    <2>3. CASE ~Fits(batches[q], k)
      <3>1. room = StartNewBatch(batches[q])
        BY <2>3
      <3>2. PICK bs \in Seq(Seq(Tasks)) : bs = batches[q]
        BY <1>3
      <3>3. /\ StartNewBatch(bs) \in Seq(Seq(Tasks))
            /\ Len(StartNewBatch(bs)) = Len(bs) + 1
            /\ \A j \in Tasks : Enqueued(bs, j) => Enqueued(StartNewBatch(bs), j)
        BY StartNewBatchFacts
      <3> HIDE DEF room
      <3> QED
        BY <2>1, <3>1, <3>2, <3>3
    <2> QED
      BY <2>2, <2>3
  <1> HIDE DEF room
  <1>5. /\ AddTask(room, k) \in Seq(Seq(Tasks)) /\ Len(AddTask(room, k)) >= 1
        /\ Enqueued(AddTask(room, k), k)
        /\ \A j \in Tasks : Enqueued(batches[q], j) => Enqueued(AddTask(room, k), j)
    BY <1>4, AddTaskFacts
  <1>6. /\ \A j \in Tasks : j # k => task'[j] = task[j]
        /\ \A p \in Queues : p # q => batches'[p] = batches[p]
        /\ \A j \in Tasks : Enqueued(batches[q], j) => Enqueued(batches'[q], j)
        /\ task'[k] = "accepted" => Enqueued(batches'[q], k)
    BY <1>1, <1>2, <1>5 DEF TypeOK
  <1>7. TypeOK'
    BY <1>1, <1>2, <1>3, <1>5 DEF TypeOK
  <1>8. Loop' /\ Counted'
    BY <1>1 DEF Loop, Listed, Counted, Users
  <1>9. Handles'
    BY <1>1, <1>6 DEF Handles, EmptyQueue, Listed
  <1>10. Accepted'
    <2>1. ASSUME NEW j \in Tasks, task'[j] = "accepted", j # k
          PROVE  \/ Enqueued(batches[QueueOf(j)], j)
                 \/ \E t \in Threads : /\ th[t].q = QueueOf(j) /\ th[t].pc \in {"advance", "process"}
                                       /\ InBatch(th[t].batch, j)
      BY <1>6, <2>1 DEF Accepted
    <2>2. ASSUME NEW j \in Tasks, Enqueued(batches[QueueOf(j)], j)
          PROVE  Enqueued(batches'[QueueOf(j)], j)
      BY <1>6, <2>2, BatchAssumption
    <2> QED
      BY <1>1, <1>6, <2>1, <2>2 DEF Accepted
  <1> QED
    BY <1>7, <1>8, <1>9, <1>10

(* The steps of clients that touch no batch. *)
LEMMA ClientIInv ==
  ASSUME IInv, \/ \E k \in Tasks : NotifyScheduler(k)
               \/ \E q \in Queues : AskCapacity(q) \/ Clock(q)
               \/ Destroy
  PROVE  IInv'
  <1> USE DEF IInv
  <1>1. UNCHANGED <<mu, queues, next, batches, closed, processing, awaited, handle, th>>
    BY DEF NotifyScheduler, AskCapacity, Clock, Destroy, queueVars
  <1>2. task' = task
    BY DEF NotifyScheduler, AskCapacity, Clock, Destroy
  <1>3. TypeOK'
    BY <1>1, <1>2 DEF TypeOK
  <1>4. Loop' /\ Counted' /\ Handles'
    BY <1>1 DEF Loop, Listed, Counted, Users, Handles, EmptyQueue
  <1>5. Accepted'
    BY <1>1, <1>2 DEF Accepted
  <1> QED
    BY <1>3, <1>4, <1>5

(* A queue is added. *)
LEMMA AddQueueIInv == ASSUME IInv, NEW q \in Queues, AddQueue(q) PROVE IInv'
  <1> USE DEF IInv
  <1>1. /\ handle[q] = "none" /\ mu = End
        /\ queues' = Append(queues, q)
        /\ next' = IF next = End THEN Head(queues') ELSE next
        /\ handle' = [handle EXCEPT ![q] = "open"]
        /\ UNCHANGED <<mu, batches, closed, processing, awaited, th, task>>
    BY DEF AddQueue, queueVars
  <1>2. queues \in Seq(Queues) /\ Len(queues) \in Nat
    BY LenProperties DEF TypeOK
  <1>3. /\ queues' \in Seq(Queues) /\ Len(queues') = Len(queues) + 1
        /\ queues'[Len(queues) + 1] = q
        /\ \A i \in 1 .. Len(queues) : queues'[i] = queues[i]
    BY <1>1, <1>2, AppendProperties
  <1>4. Listed(q)' /\ \A p \in Queues : Listed(p) => Listed(p)'
    <2>1. Len(queues) + 1 \in 1 .. Len(queues') /\ \A i \in 1 .. Len(queues) : i \in 1 .. Len(queues')
      BY <1>2, <1>3
    <2> QED
      BY <1>3, <2>1 DEF Listed
  <1>5. Head(queues') = queues'[1] /\ 1 \in 1 .. Len(queues') /\ queues'[1] \in Queues
    <2>1. queues' # <<>> /\ 1 \in 1 .. Len(queues')
      BY <1>2, <1>3, EmptySeq
    <2> QED
      BY <1>3, <2>1, ElementOfSeq
  <1>6. next' \in Queues /\ \E i \in 1 .. Len(queues') : queues'[i] = next'
    <2>1. CASE next = End
      BY <1>1, <1>5, <2>1
    <2>2. CASE next # End
      BY <1>1, <1>4, <2>2 DEF TypeOK, Loop, Listed
    <2> QED
      BY <2>1, <2>2
  <1>7. TypeOK'
    BY <1>1, <1>3, <1>6 DEF TypeOK
  <1>8. Loop'
    BY <1>1, <1>6, BatchAssumption DEF Loop, Listed, TypeOK
  <1>9. Counted' /\ Accepted'
    BY <1>1 DEF Counted, Users, Accepted
  <1>10. Handles'
    BY <1>1, <1>4 DEF Handles, EmptyQueue, TypeOK
  <1> QED
    BY <1>7, <1>8, <1>9, <1>10

(* A handle is closed, and its client waits or not. *)
LEMMA CloseIInv == ASSUME IInv, NEW q \in Queues, Close(q) PROVE IInv'
  <1> USE DEF IInv
  <1>1. /\ handle[q] = "open"
        /\ closed' = [closed EXCEPT ![q] = TRUE]
        /\ IF EmptyQueue(q)
             THEN handle' = [handle EXCEPT ![q] = "closed"] /\ awaited' = awaited
             ELSE /\ handle' = [handle EXCEPT ![q] = "closing"]
                  /\ awaited' = [awaited EXCEPT ![q] = TRUE]
        /\ UNCHANGED <<mu, queues, next, batches, processing, th, task>>
    BY DEF Close, EmptyQueue, IsEmptyInternal
  <1>2. TypeOK'
    BY <1>1 DEF TypeOK
  <1>3. \A p \in Queues : closed[p] => closed'[p]
    BY <1>1 DEF TypeOK
  <1>4. Loop'
    <2>1. ASSUME NEW t \in Threads, th[t].pc \in {"schedule", "advance"} PROVE next \in Queues
      BY <2>1, NextInLoop DEF Loop
    <2> QED
      BY <1>1, <1>3, <2>1 DEF Loop, Listed
  <1>5. Counted' /\ Accepted'
    BY <1>1 DEF Counted, Users, Accepted
  <1>6. Handles'
    <2>1. \A p \in Queues : EmptyQueue(p)' <=> EmptyQueue(p)
      BY <1>1 DEF EmptyQueue
    <2>2. \A p \in Queues : Listed(p)' <=> Listed(p)
      BY <1>1 DEF Listed
    <2>3. Handles
      OBVIOUS
    <2>4. ASSUME NEW p \in Queues, p # q
          PROVE  handle'[p] = handle[p] /\ closed'[p] = closed[p] /\ awaited'[p] = awaited[p]
      BY <1>1, <2>4 DEF TypeOK
    <2>5. /\ closed'[q]
          /\ IF EmptyQueue(q) THEN handle'[q] = "closed"
                              ELSE handle'[q] = "closing" /\ awaited'[q]
      BY <1>1 DEF TypeOK
    <2> QED
      BY <1>1, <2>1, <2>2, <2>3, <2>4, <2>5 DEF Handles
  <1> QED
    BY <1>2, <1>4, <1>5, <1>6

(* Steps of a thread at which it is given no batch and ends no work. *)
LEMMA IdleStepIInv ==
  ASSUME IInv, NEW t \in Threads, Start(t) \/ AskClosed(t) \/ WaitEnds(t) \/ Exit(t)
  PROVE  IInv'
  <1> USE DEF IInv
  <1>1. UNCHANGED <<queues, next, batches, closed, processing, awaited, handle, task>>
    BY DEF Start, AskClosed, WaitEnds, Exit, queueVars
  <1>2. /\ queues \in Seq(Queues) /\ Len(queues) \in Nat /\ th[t].q = End
        /\ <<>> \in Seq(Tasks)
    BY LenProperties, EmptySeq DEF TypeOK, Loop, Start, AskClosed, WaitEnds, Exit
  <1>3. \E r \in ThreadStates :
          /\ th' = [th EXCEPT ![t] = r]
          /\ r.q = End /\ r.pc \in {"idle", "ask", "schedule", "waiting", "exited"}
          /\ \A u \in Threads : u # t => (mu' = u <=> mu = u)
          /\ mu' \in {mu, t, End}
          /\ mu' = t <=> r.pc \in {"ask", "schedule"}
          /\ mu' = t => r.num - r.tried <= Len(queues)
          /\ r.pc = "schedule" => r.tried < r.num /\ (r.shut => closed[next])
    <2> USE BatchAssumption
    <2>0. th[t] \in ThreadStates /\ th[t].tried \in Nat /\ th[t].num \in Nat
      BY DEF TypeOK, ThreadStates
    <2>1. CASE Start(t)
      <3> DEFINE r == [th[t] EXCEPT !.pc = "ask", !.tried = 0, !.num = Len(queues)]
      <3>1. /\ r \in ThreadStates /\ r.q = End /\ r.pc = "ask"
            /\ r.num = Len(queues) /\ r.tried = 0
        BY <1>2, <2>0 DEF ThreadStates, Pcs
      <3>2. th' = [th EXCEPT ![t] = r] /\ mu = End /\ mu' = t
        BY <2>1 DEF Start
      <3> HIDE DEF r
      <3>3. r.num - r.tried <= Len(queues)
        BY <1>2, <3>1
      <3> QED
        BY <3>1, <3>2, <3>3
    <2>2. CASE AskClosed(t) /\ th[t].tried < th[t].num
      <3> DEFINE r == [th[t] EXCEPT !.pc = "schedule", !.shut = closed[next]]
      <3>1. th' = [th EXCEPT ![t] = r] /\ mu = t /\ mu' = t
        <4>1. ~(th[t].tried >= th[t].num)
          BY <2>0, <2>2
        <4>2. th[t].pc = "ask" /\ mu' = mu
          BY <2>2, <4>1 DEF AskClosed
        <4>3. th' = [th EXCEPT ![t].pc = "schedule", ![t].shut = closed[next]]
          BY <2>2, <4>1 DEF AskClosed
        <4> QED
          BY <4>2, <4>3 DEF Loop
      <3>2. closed[next] \in BOOLEAN
        BY <2>2, <3>1, NextInLoop DEF TypeOK
      <3>3. /\ r \in ThreadStates /\ r.q = End /\ r.pc = "schedule"
            /\ r.tried = th[t].tried /\ r.num = th[t].num /\ r.shut = closed[next]
        BY <1>2, <2>0, <3>2 DEF ThreadStates, Pcs
      <3>4. th[t].num - th[t].tried <= Len(queues)
        BY <3>1 DEF Loop
      <3> HIDE DEF r
      <3> QED
        BY <2>2, <3>1, <3>3, <3>4
    <2>3. CASE AskClosed(t) /\ ~(th[t].tried < th[t].num)
      <3> DEFINE r == [Idle EXCEPT !.pc = "waiting"]
      <3>1. r \in ThreadStates /\ r.q = End /\ r.pc = "waiting"
        BY <1>2 DEF ThreadStates, Pcs, Idle
      <3>2. th' = [th EXCEPT ![t] = r] /\ mu = t /\ mu' = End
        BY <2>3, <2>0 DEF AskClosed, Loop
      <3> HIDE DEF r
      <3> QED
        BY <3>1, <3>2
    <2>4. CASE WaitEnds(t)
      <3>1. Idle \in ThreadStates /\ Idle.q = End /\ Idle.pc = "idle"
        BY <1>2 DEF ThreadStates, Pcs, Idle
      <3> QED
        BY <2>4, <3>1 DEF WaitEnds
    <2>5. CASE Exit(t)
      <3> DEFINE r == [th[t] EXCEPT !.pc = "exited"]
      <3>1. r \in ThreadStates /\ r.q = End /\ r.pc = "exited"
        BY <1>2, <2>0 DEF ThreadStates, Pcs
      <3>2. th' = [th EXCEPT ![t] = r] /\ mu' = mu /\ th[t].pc = "idle"
        BY <2>5 DEF Exit
      <3> HIDE DEF r
      <3> QED
        BY <3>1, <3>2 DEF Loop
    <2> QED
      BY <2>1, <2>2, <2>3, <2>4, <2>5
  <1>4. /\ th' \in [Threads -> ThreadStates] /\ \A u \in Threads : u # t => th'[u] = th[u]
        /\ th'[t].q = End /\ th'[t].pc \in {"idle", "ask", "schedule", "waiting", "exited"}
        /\ mu' = t <=> th'[t].pc \in {"ask", "schedule"}
        /\ mu' = t => th'[t].num - th'[t].tried <= Len(queues)
        /\ th'[t].pc = "schedule" => th'[t].tried < th'[t].num /\ (th'[t].shut => closed[next])
    BY <1>3 DEF TypeOK
  <1>5. TypeOK'
    BY <1>1, <1>3, <1>4 DEF TypeOK
  <1>6. Loop'
    <2>1. ASSUME NEW u \in Threads, u # t PROVE mu' = u <=> mu = u
      BY <1>3, <2>1
    <2> QED
      BY <1>1, <1>4, <2>1 DEF Loop, Listed
  <1>7. Counted'
    <2>1. ASSUME NEW q \in Queues PROVE Users(q)' = Users(q)
      BY <1>2, <1>4, BatchAssumption DEF Users
    <2> QED
      BY <1>1, <2>1 DEF Counted
  <1>8. Handles'
    BY <1>1 DEF Handles, EmptyQueue, Listed
  <1>9. Accepted'
    BY <1>1, <1>2, <1>4, BatchAssumption DEF Accepted
  <1> QED
    BY <1>5, <1>6, <1>7, <1>8, <1>9

(* The client's callback runs on a batch. *)
LEMMA ProcessBatchIInv == ASSUME IInv, NEW t \in Threads, ProcessBatch(t) PROVE IInv'
  <1> DEFINE r == [th[t] EXCEPT !.pc = "finish"]
  <1> USE DEF IInv
  <1>1. /\ th[t].pc = "process" /\ th' = [th EXCEPT ![t] = r]
        /\ task' = [k \in Tasks |-> IF k \in ToSet(th[t].batch) THEN "processed" ELSE task[k]]
        /\ UNCHANGED <<mu, queues, next, batches, closed, processing, awaited, handle>>
    BY DEF ProcessBatch, queueVars
  <1>2. th[t] \in ThreadStates /\ th[t].q # End /\ mu # t
    BY <1>1 DEF TypeOK, Loop
  <1>3. r \in ThreadStates /\ r.pc = "finish" /\ r.q = th[t].q
    BY <1>2 DEF ThreadStates, Pcs
  <1> HIDE DEF r
  <1>4. /\ th' \in [Threads -> ThreadStates] /\ \A u \in Threads : u # t => th'[u] = th[u]
        /\ th'[t].pc = "finish" /\ th'[t].q = th[t].q
    BY <1>1, <1>3 DEF TypeOK
  <1>5. TypeOK'
    BY <1>1, <1>4 DEF TypeOK
  <1>6. Loop'
    BY <1>1, <1>2, <1>4 DEF Loop, Listed
  <1>7. Counted'
    <2>1. ASSUME NEW q \in Queues PROVE Users(q)' = Users(q)
      BY <1>4 DEF Users
    <2> QED
      BY <1>1, <2>1 DEF Counted
  <1>8. Handles'
    BY <1>1 DEF Handles, EmptyQueue, Listed
  <1>9. Accepted'
    <2> SUFFICES ASSUME NEW k \in Tasks, task'[k] = "accepted"
                 PROVE  \/ Enqueued(batches[QueueOf(k)], k)
                        \/ \E u \in Threads : /\ th'[u].q = QueueOf(k)
                                              /\ th'[u].pc \in {"advance", "process"}
                                              /\ InBatch(th'[u].batch, k)
      BY <1>1 DEF Accepted
    <2>1. task[k] = "accepted" /\ k \notin ToSet(th[t].batch)
      BY <1>1
    <2>2. ~InBatch(th[t].batch, k)
      <3>1. th[t].batch \in Seq(Tasks)
        BY <1>2 DEF ThreadStates
      <3>2. DOMAIN th[t].batch = 1 .. Len(th[t].batch)
        BY <3>1, LenProperties
      <3> QED
        BY <2>1, <3>2 DEF InBatch, ToSet
    <2> QED
      BY <1>4, <2>1, <2>2 DEF Accepted
  <1> QED
    BY <1>5, <1>6, <1>7, <1>8, <1>9

(* A thread is done with its batch, and tells who waits for the queue. *)
LEMMA FinishIInv == ASSUME IInv, NEW t \in Threads, Finish(t) PROVE IInv'
  <1> USE DEF IInv
  <1>1. PICK q : q = th[t].q
    OBVIOUS
  <1>2. /\ th[t].pc = "finish" /\ th' = [th EXCEPT ![t] = Idle]
        /\ processing' = [processing EXCEPT ![q] = @ - 1]
        /\ handle' = IF TellsCloser(q) THEN [handle EXCEPT ![q] = "closed"] ELSE handle
        /\ UNCHANGED <<mu, queues, next, batches, closed, awaited, task>>
    BY <1>1 DEF Finish
  <1>3. q \in Queues /\ mu # t
    BY <1>1, <1>2 DEF TypeOK, ThreadStates, Loop
  <1>4. Idle \in ThreadStates /\ Idle.q = End /\ Idle.pc = "idle"
    BY EmptySeq DEF ThreadStates, Pcs, Idle
  <1>5. /\ th' \in [Threads -> ThreadStates] /\ \A u \in Threads : u # t => th'[u] = th[u]
        /\ th'[t].q = End /\ th'[t].pc = "idle"
    BY <1>2, <1>4 DEF TypeOK
  <1>6. Counted'
    <2>1. ASSUME NEW p \in Queues, p # q PROVE processing'[p] = Cardinality(Users(p)')
      <3>1. Users(p)' = Users(p)
        BY <1>1, <1>5, <2>1, BatchAssumption DEF Users
      <3> QED
        BY <1>2, <2>1, <3>1 DEF TypeOK, Counted
    <2>2. processing'[q] = Cardinality(Users(q)')
      <3>1. Users(q)' = Users(q) \ {t} /\ t \in Users(q)
        BY <1>1, <1>3, <1>5, BatchAssumption DEF Users
      <3>2. Cardinality(Users(q) \ {t}) = Cardinality(Users(q)) - 1
        BY <3>1, UsersFinite, FS_RemoveElement
      <3> QED
        BY <1>2, <1>3, <3>1, <3>2 DEF TypeOK, Counted
    <2> QED
      BY <2>1, <2>2 DEF Counted
  <1>7. processing' \in [Queues -> Nat]
    <2>1. \A p \in Queues : Cardinality(Users(p)') \in Nat
      <3> SUFFICES ASSUME NEW p \in Queues PROVE Cardinality(Users(p)') \in Nat
        OBVIOUS
      <3>1. Users(p)' \subseteq Threads
        BY DEF Users
      <3> QED
        BY <3>1, FS_Subset, FS_CardinalityType, BatchAssumption
    <2>2. \A p \in Queues : processing'[p] \in Nat
      BY <1>6, <2>1 DEF Counted
    <2>3. processing' = [p \in Queues |-> processing'[p]]
      BY <1>2, <1>3 DEF TypeOK
    <2> QED
      BY <2>2, <2>3
  <1>8. TypeOK'
    BY <1>2, <1>5, <1>7 DEF TypeOK
  <1>9. Loop'
    BY <1>2, <1>3, <1>5 DEF Loop, Listed
  <1>10. Handles'
    <2>1. \A p \in Queues : Listed(p)' <=> Listed(p)
      BY <1>2 DEF Listed
    <2>2. ASSUME NEW p \in Queues, p # q
          PROVE  handle'[p] = handle[p] /\ (EmptyQueue(p)' <=> EmptyQueue(p))
      BY <1>2, <2>2 DEF TypeOK, EmptyQueue
    <2>3. processing[q] \in Nat /\ processing[q] # 0
      <3>1. t \in Users(q)
        BY <1>1 DEF Users
      <3> QED
        BY <1>3, <3>1, UsersFinite DEF Counted
    <2>4. ~EmptyQueue(q) /\ processing'[q] = processing[q] - 1
      BY <1>2, <1>3, <2>3 DEF EmptyQueue, TypeOK
    <2>5. TellsCloser(q) <=> awaited[q] /\ EmptyQueue(q)'
      BY <1>2, <2>4 DEF TellsCloser, EmptyQueue, IsEmptyInternal
    <2>6. handle[q] \in {"open", "closing"}
      BY <1>3, <2>4 DEF Handles, TypeOK
    <2>7. handle'[q] = IF awaited[q] /\ EmptyQueue(q)' THEN "closed" ELSE handle[q]
      BY <1>2, <1>3, <2>5 DEF TypeOK
    <2> QED
      BY <1>2, <1>3, <2>1, <2>2, <2>6, <2>7 DEF Handles
  <1>11. Accepted'
    BY <1>2, <1>5 DEF Accepted
  <1> QED
    BY <1>6, <1>8, <1>9, <1>10, <1>11

(* The front batch is taken: a task is in it or still enqueued. *)
LEMMA FrontBatchFacts ==
  ASSUME NEW bs \in Seq(Seq(Tasks)), Len(bs) >= 2
  PROVE  /\ bs[1] \in Seq(Tasks)
         /\ RemoveAt(bs, 1) \in Seq(Seq(Tasks)) /\ Len(RemoveAt(bs, 1)) >= 1
         /\ \A k \in Tasks : Enqueued(bs, k) => InBatch(bs[1], k) \/ Enqueued(RemoveAt(bs, 1), k)
  <1>1. Len(bs) \in Nat /\ 1 \in 1 .. Len(bs) /\ bs[1] \in Seq(Tasks)
    <2>1. Len(bs) \in Nat
      BY LenProperties
    <2>2. 1 \in 1 .. Len(bs)
      BY <2>1
    <2> QED
      BY <2>1, <2>2, ElementOfSeq
  <1>2. PICK rest : rest = RemoveAt(bs, 1)
    OBVIOUS
  <1>3. /\ rest \in Seq(Seq(Tasks)) /\ Len(rest) = Len(bs) - 1
        /\ \A j \in 1 .. Len(bs) - 1 : rest[j] = IF j < 1 THEN bs[j] ELSE bs[j + 1]
    BY <1>1, <1>2, RemoveAtFacts
  <1>4. ASSUME NEW k \in Tasks, Enqueued(bs, k), ~InBatch(bs[1], k)
        PROVE  Enqueued(rest, k)
    <2>1. PICK i \in 1 .. Len(bs) : InBatch(bs[i], k)
      BY <1>4 DEF Enqueued
    <2>2. i # 1
      BY <1>4, <2>1
    <2>3. PICK j : j = i - 1
      OBVIOUS
    <2>4. j \in 1 .. Len(rest) /\ rest[j] = bs[i]
      BY <1>1, <1>3, <2>2, <2>3
    <2> QED
      BY <2>1, <2>4 DEF Enqueued
  <1> QED
    BY <1>1, <1>2, <1>3, <1>4

(* A queue is asked for a batch. *)
LEMMA ScheduleBatchIInv == ASSUME IInv, NEW t \in Threads, ScheduleBatch(t) PROVE IInv'
  <1> USE DEF IInv
  <1>1. PICK q : q = next
    OBVIOUS
  <1>2. PICK bs : bs = IF Len(batches[q]) = 1 /\ IsOpenBatchSchedulable(batches[q], closed[q], due[q])
                         THEN StartNewBatch(batches[q]) ELSE batches[q]
    OBVIOUS
  <1>3. /\ th[t].pc = "schedule"
        /\ \/ /\ Len(bs) >= 2
              /\ processing' = [processing EXCEPT ![q] = @ + 1]
              /\ batches' = [batches EXCEPT ![q] = RemoveAt(bs, 1)]
              /\ th' = [th EXCEPT ![t] = [@ EXCEPT !.pc = "advance", !.batch = bs[1], !.q = q]]
           \/ /\ Len(bs) < 2
              /\ th' = [th EXCEPT ![t] = [@ EXCEPT !.pc = "advance"]]
              /\ UNCHANGED <<processing, batches>>
        /\ UNCHANGED <<mu, queues, next, closed, awaited, handle, task>>
    BY <1>1, <1>2 DEF ScheduleBatch, FrontBatch
  <1>4. /\ mu = t /\ th[t] \in ThreadStates /\ th[t].q = End /\ th[t].tried < th[t].num
        /\ th[t].shut => closed[next]
    BY <1>3 DEF Loop, TypeOK
  <1>5. q \in Queues
    BY <1>1, <1>4, NextInLoop
  <1>6. batches[q] \in Seq(Seq(Tasks)) /\ Len(batches[q]) >= 1 /\ Len(batches[q]) \in Nat
    BY <1>5, LenProperties DEF TypeOK
  <1>7. /\ bs \in Seq(Seq(Tasks))
        /\ \A k \in Tasks : Enqueued(batches[q], k) => Enqueued(bs, k)
    <2>1. /\ StartNewBatch(batches[q]) \in Seq(Seq(Tasks))
          /\ \A k \in Tasks : Enqueued(batches[q], k) => Enqueued(StartNewBatch(batches[q]), k)
      <3>1. PICK b \in Seq(Seq(Tasks)) : b = batches[q]
        BY <1>6
      <3> QED
        BY <3>1, StartNewBatchFacts
    <2> QED
      BY <1>2, <1>6, <2>1
  <1>8. ASSUME Len(bs) >= 2 PROVE batches[q] # << <<>> >>
    <2> SUFFICES ASSUME batches[q] = << <<>> >> PROVE FALSE
      OBVIOUS
    <2>1. Len(<< <<>> >>) = 1 /\ Last(<< <<>> >>) = <<>>
      BY DEF Last
    <2>2. ~IsOpenBatchSchedulable(batches[q], closed[q], due[q])
      BY <2>1 DEF IsOpenBatchSchedulable
    <2> QED
      BY <1>2, <1>8, <2>1, <2>2
  <1>9. CASE Len(bs) >= 2
    <2> DEFINE r == [th[t] EXCEPT !.pc = "advance", !.batch = bs[1], !.q = q]
    <2>1. Len(bs) \in Nat /\ ~(Len(bs) < 2)
      BY <1>7, <1>9, LenProperties
    <2>2. /\ processing' = [processing EXCEPT ![q] = @ + 1]
          /\ batches' = [batches EXCEPT ![q] = RemoveAt(bs, 1)]
          /\ th' = [th EXCEPT ![t] = r]
      BY <1>3, <2>1
    <2>3. /\ bs[1] \in Seq(Tasks)
          /\ RemoveAt(bs, 1) \in Seq(Seq(Tasks)) /\ Len(RemoveAt(bs, 1)) >= 1
          /\ \A k \in Tasks : Enqueued(bs, k) => InBatch(bs[1], k) \/ Enqueued(RemoveAt(bs, 1), k)
      BY <1>7, <1>9, FrontBatchFacts
    <2>4. /\ r \in ThreadStates /\ r.pc = "advance" /\ r.q = q /\ r.batch = bs[1]
          /\ r.tried = th[t].tried /\ r.num = th[t].num /\ r.shut = th[t].shut
      BY <1>4, <1>5, <2>3 DEF ThreadStates, Pcs
    <2> HIDE DEF r
    <2>5. /\ th' \in [Threads -> ThreadStates] /\ \A u \in Threads : u # t => th'[u] = th[u]
          /\ th'[t] = r
      BY <2>2, <2>4 DEF TypeOK
    <2>6. /\ \A p \in Queues : p # q => batches'[p] = batches[p] /\ processing'[p] = processing[p]
          /\ batches'[q] = RemoveAt(bs, 1) /\ processing'[q] = processing[q] + 1
      BY <1>5, <2>2 DEF TypeOK
    <2>7. TypeOK'
      BY <1>3, <1>5, <2>2, <2>3, <2>5 DEF TypeOK
    <2>8. Loop'
      BY <1>3, <1>4, <2>4, <2>5 DEF Loop, Listed
    <2>9. Counted'
      <3>1. ASSUME NEW p \in Queues, p # q PROVE processing'[p] = Cardinality(Users(p)')
        <4>1. Users(p)' = Users(p)
          BY <1>4, <2>4, <2>5, <3>1, BatchAssumption DEF Users
        <4> QED
          BY <2>6, <3>1, <4>1 DEF Counted
      <3>2. processing'[q] = Cardinality(Users(q)')
        <4>1. Users(q)' = Users(q) \cup {t} /\ t \notin Users(q)
          BY <1>4, <1>5, <2>4, <2>5, BatchAssumption DEF Users
        <4>2. Cardinality(Users(q) \cup {t}) = Cardinality(Users(q)) + 1
          BY <4>1, UsersFinite, FS_AddElement
        <4> QED
          BY <1>5, <2>6, <4>1, <4>2 DEF Counted
      <3> QED
        BY <3>1, <3>2 DEF Counted
    <2>10. Handles'
      <3>1. \A p \in Queues : Listed(p)' <=> Listed(p)
        BY <1>3 DEF Listed
      <3>2. \A p \in Queues : p # q => (EmptyQueue(p)' <=> EmptyQueue(p))
        BY <2>6 DEF EmptyQueue
      <3>3. ~EmptyQueue(q)'
        <4>1. processing[q] \in Nat
          BY <1>5 DEF TypeOK
        <4> QED
          BY <2>6, <4>1 DEF EmptyQueue
      <3>4. handle[q] \in {"open", "closing"}
        BY <1>5, <1>8, <1>9 DEF Handles, EmptyQueue, TypeOK
      <3> QED
        BY <1>3, <1>5, <3>1, <3>2, <3>3, <3>4 DEF Handles
    <2>11. Accepted'
      <3> SUFFICES ASSUME NEW k \in Tasks, task[k] = "accepted"
                   PROVE  \/ Enqueued(batches'[QueueOf(k)], k)
                          \/ \E u \in Threads : /\ th'[u].q = QueueOf(k)
                                                /\ th'[u].pc \in {"advance", "process"}
                                                /\ InBatch(th'[u].batch, k)
        BY <1>3 DEF Accepted
      <3>1. QueueOf(k) \in Queues
        BY BatchAssumption
      <3>2. CASE Enqueued(batches[QueueOf(k)], k) /\ QueueOf(k) # q
        BY <2>6, <3>1, <3>2
      <3>3. CASE Enqueued(batches[QueueOf(k)], k) /\ QueueOf(k) = q
        <4>1. InBatch(bs[1], k) \/ Enqueued(batches'[q], k)
          BY <1>7, <2>3, <2>6, <3>3
        <4> QED
          BY <2>4, <2>5, <3>3, <4>1
      <3>4. CASE \E u \in Threads : /\ th[u].q = QueueOf(k) /\ th[u].pc \in {"advance", "process"}
                                    /\ InBatch(th[u].batch, k)
        BY <1>3, <2>5, <3>4
      <3> QED
        BY <3>2, <3>3, <3>4 DEF Accepted
    <2> QED
      BY <2>7, <2>8, <2>9, <2>10, <2>11
  <1>10. CASE Len(bs) < 2
    <2> DEFINE r == [th[t] EXCEPT !.pc = "advance"]
    <2>1. Len(bs) \in Nat /\ ~(Len(bs) >= 2)
      BY <1>7, <1>10, LenProperties
    <2>2. processing' = processing /\ batches' = batches /\ th' = [th EXCEPT ![t] = r]
      BY <1>3, <2>1
    <2>3. /\ r \in ThreadStates /\ r.pc = "advance" /\ r.q = End
          /\ r.tried = th[t].tried /\ r.num = th[t].num /\ r.shut = th[t].shut
      BY <1>4 DEF ThreadStates, Pcs
    <2> HIDE DEF r
    <2>4. /\ th' \in [Threads -> ThreadStates] /\ \A u \in Threads : u # t => th'[u] = th[u]
          /\ th'[t] = r
      BY <2>2, <2>3 DEF TypeOK
    <2>5. TypeOK'
      BY <1>3, <2>2, <2>4 DEF TypeOK
    <2>6. Loop'
      BY <1>3, <1>4, <2>3, <2>4 DEF Loop, Listed
    <2>7. Counted'
      <3>1. ASSUME NEW p \in Queues PROVE Users(p)' = Users(p)
        BY <1>4, <2>3, <2>4 DEF Users
      <3> QED
        BY <2>2, <3>1 DEF Counted
    <2>8. Handles'
      BY <1>3, <2>2 DEF Handles, EmptyQueue, Listed
    <2>9. Accepted'
      BY <1>3, <1>4, <2>2, <2>4, BatchAssumption DEF Accepted
    <2> QED
      BY <2>5, <2>6, <2>7, <2>8, <2>9
  <1> QED
    BY <1>3, <1>9, <1>10

(* What erasing or passing next_queue_to_schedule_ leaves of the list. *)
LEMMA AdvanceFacts ==
  ASSUME TypeOK, Listed(next), NEW drops \in BOOLEAN, NEW qs, NEW nx,
         qs = IF drops THEN RemoveAt(queues, Position(queues, next)) ELSE queues,
         nx = Wrapped(Following(queues, next), qs)
  PROVE  /\ qs \in Seq(Queues) /\ nx \in Queues \cup {End}
         /\ Len(qs) \in Nat /\ Len(qs) >= Len(queues) - 1
         /\ qs # <<>> => nx # End
         /\ nx # End => \E j \in 1 .. Len(qs) : qs[j] = nx
         /\ \A p \in Queues : Listed(p) /\ (drops => p # next) => \E j \in 1 .. Len(qs) : qs[j] = p
  <1>1. /\ queues \in Seq(Queues) /\ Len(queues) \in Nat /\ DOMAIN queues = 1 .. Len(queues)
        /\ \A j \in 1 .. Len(queues) : queues[j] \in Queues
    BY LenProperties, ElementOfSeq DEF TypeOK
  <1>0. Len(queues) \in Nat
    BY <1>1
  <1>2. PICK i \in 1 .. Len(queues) : i = Position(queues, next) /\ queues[i] = next
    BY <1>1 DEF Position, Listed
  <1>3. PICK after : after = Following(queues, next)
    OBVIOUS
  <1>4. after = IF i < Len(queues) THEN queues[i + 1] ELSE End
    BY <1>2, <1>3 DEF Following
  <1>5. ASSUME qs \in Seq(Queues), Len(qs) \in Nat, after \in Queues \cup {End},
               after # End => \E j \in 1 .. Len(qs) : qs[j] = after
        PROVE  /\ nx \in Queues \cup {End}
               /\ qs # <<>> => nx # End
               /\ nx # End => \E j \in 1 .. Len(qs) : qs[j] = nx
    <2>1. nx = IF after = End /\ qs # <<>> THEN Head(qs) ELSE after
      BY <1>3 DEF Wrapped
    <2>2. CASE after = End /\ qs # <<>>
      <3>1. 1 \in 1 .. Len(qs) /\ Head(qs) = qs[1] /\ qs[1] \in Queues
        <4>1. Len(qs) # 0
          BY <1>5, <2>2, EmptySeq
        <4>2. 1 \in 1 .. Len(qs)
          BY <1>5, <4>1
        <4> QED
          BY <1>5, <4>2, ElementOfSeq
      <3> QED
        BY <2>1, <2>2, <3>1, BatchAssumption
    <2>3. CASE ~(after = End /\ qs # <<>>)
      BY <1>5, <2>1, <2>3
    <2> QED
      BY <2>2, <2>3
  <1>6. after \in Queues \cup {End}
    <2>1. i < Len(queues) => i + 1 \in 1 .. Len(queues)
      BY <1>1
    <2> QED
      BY <1>1, <1>4, <2>1
  <1>7. CASE ~drops
    <2>1. qs = queues
      BY <1>7
    <2>2. after # End => \E j \in 1 .. Len(qs) : qs[j] = after
      <3>1. i < Len(queues) => i + 1 \in 1 .. Len(queues)
        BY <1>1
      <3> QED
        BY <1>4, <2>1, <3>1
    <2> QED
      BY <1>1, <1>5, <1>6, <2>1, <2>2 DEF Listed
  <1>8. CASE drops
    <2>1. /\ qs \in Seq(Queues) /\ Len(qs) = Len(queues) - 1
          /\ \A j \in 1 .. Len(queues) - 1 : qs[j] = IF j < i THEN queues[j] ELSE queues[j + 1]
      <3>1. qs = RemoveAt(queues, i)
        BY <1>2, <1>8
      <3> QED
        BY <1>1, <3>1, RemoveAtFacts
    <2>2. Len(qs) \in Nat
      BY <2>1, LenProperties
    <2>0. Len(qs) = Len(queues) - 1
      BY <2>1
    <2>3. after # End => \E j \in 1 .. Len(qs) : qs[j] = after
      <3> SUFFICES ASSUME i < Len(queues) PROVE \E j \in 1 .. Len(qs) : qs[j] = queues[i + 1]
        BY <1>4
      <3>1. i \in 1 .. Len(qs)
        BY <1>0, <2>0
      <3> QED
        BY <2>1, <3>1
    <2>4. ASSUME NEW p \in Queues, Listed(p), p # next
          PROVE  \E j \in 1 .. Len(qs) : qs[j] = p
      <3>1. PICK m \in 1 .. Len(queues) : queues[m] = p
        BY <2>4 DEF Listed
      <3>2. m # i
        BY <1>2, <2>4, <3>1
      <3>3. CASE m < i
        <4>1. m \in 1 .. Len(qs)
          BY <1>0, <2>0, <3>3
        <4> QED
          BY <2>1, <3>1, <3>3, <4>1
      <3>4. CASE m > i
        <4>1. m - 1 \in 1 .. Len(qs) /\ ~(m - 1 < i) /\ (m - 1) + 1 = m
          BY <1>0, <2>0, <3>4
        <4> QED
          BY <2>1, <3>1, <4>1
      <3> QED
        BY <1>1, <3>2, <3>3, <3>4
    <2>5. Len(qs) >= Len(queues) - 1
      BY <1>0, <2>0
    <2> QED
      BY <1>5, <1>6, <1>8, <2>1, <2>2, <2>3, <2>4, <2>5
  <1> QED
    BY <1>7, <1>8

(* The thread goes on to the next queue, and may drop this one. *)
LEMMA AdvanceIInv == ASSUME IInv, NEW t \in Threads, Advance(t) PROVE IInv'
  <1> USE DEF IInv
  <1>1. /\ th[t].pc = "advance"
        /\ queues' = IF Drops(t) THEN RemoveAt(queues, Position(queues, next)) ELSE queues
        /\ next' = Wrapped(Following(queues, next), queues')
        /\ \/ /\ th[t].q = End /\ mu' = mu
              /\ th' = [th EXCEPT ![t].pc = "ask", ![t].tried = @ + 1]
           \/ /\ th[t].q # End /\ mu' = End
              /\ th' = [th EXCEPT ![t] = [Idle EXCEPT !.pc = "process", !.batch = th[t].batch,
                                                      !.q = th[t].q]]
        /\ UNCHANGED <<batches, closed, processing, awaited, handle, task>>
    BY DEF Advance, queueVars
  <1>2. /\ mu = t /\ th[t] \in ThreadStates /\ th[t].tried < th[t].num
        /\ th[t].shut => closed[next]
        /\ th[t].num - th[t].tried <= Len(queues)
    BY <1>1 DEF Loop, TypeOK
  <1>3. next \in Queues /\ Listed(next)
    BY <1>2, NextInLoop
  <1>4. PICK drops \in BOOLEAN : drops <=> Drops(t)
    OBVIOUS
  <1>5. drops => handle[next] = "closed" /\ th[t].q = End
    BY <1>2, <1>3, <1>4 DEF Drops, IsEmptyInternal, Handles, EmptyQueue, TypeOK
  <1>6. /\ queues' \in Seq(Queues) /\ next' \in Queues \cup {End}
        /\ Len(queues') \in Nat /\ Len(queues') >= Len(queues) - 1
        /\ queues' # <<>> => next' # End
        /\ next' # End => \E j \in 1 .. Len(queues') : queues'[j] = next'
        /\ \A p \in Queues : Listed(p) /\ (drops => p # next) =>
             \E j \in 1 .. Len(queues') : queues'[j] = p
    <2>1. PICK qs, nx : qs = queues' /\ nx = next'
      OBVIOUS
    <2>2. qs = IF drops THEN RemoveAt(queues, Position(queues, next)) ELSE queues
      BY <1>1, <1>4, <2>1
    <2>3. nx = Wrapped(Following(queues, next), qs)
      BY <1>1, <2>1
    <2> QED
      BY <1>3, <2>1, <2>2, <2>3, AdvanceFacts
  <1>7. \E r \in ThreadStates :
          /\ th' = [th EXCEPT ![t] = r] /\ r.q = th[t].q /\ r.batch = th[t].batch
          /\ \/ r.pc = "ask" /\ r.q = End /\ mu' = t /\ r.num - r.tried <= Len(queues')
             \/ r.pc = "process" /\ r.q # End /\ mu' = End
    <2>0. /\ th[t].tried \in Nat /\ th[t].num \in Nat /\ th[t].batch \in Seq(Tasks)
          /\ th[t].q \in Queues \cup {End} /\ Len(queues) \in Nat
      BY <1>2, LenProperties DEF ThreadStates, TypeOK
    <2>1. CASE th[t].q = End
      <3>0. PICK n \in Nat : n = th[t].tried + 1
        BY <2>0
      <3> DEFINE r == [th[t] EXCEPT !.pc = "ask", !.tried = n]
      <3>1. /\ r \in ThreadStates /\ r.pc = "ask" /\ r.q = th[t].q /\ r.batch = th[t].batch
            /\ r.num = th[t].num /\ r.tried = n
        BY <1>2, <2>0 DEF ThreadStates, Pcs
      <3>2. th' = [th EXCEPT ![t] = r] /\ mu' = t
        <4>1. th' = [th EXCEPT ![t].pc = "ask", ![t].tried = @ + 1] /\ mu' = t
          BY <1>1, <1>2, <2>1
        <4>2. th \in [Threads -> ThreadStates]
          BY DEF TypeOK
        <4> QED
          BY <1>2, <3>0, <4>1, <4>2 DEF ThreadStates
      <3> HIDE DEF r
      <3>3. r.num - r.tried <= Len(queues')
        BY <1>2, <1>6, <2>0, <3>0, <3>1
      <3> QED
        BY <2>1, <3>1, <3>2, <3>3
    <2>2. CASE th[t].q # End
      <3> DEFINE r == [Idle EXCEPT !.pc = "process", !.batch = th[t].batch, !.q = th[t].q]
      <3>1. r \in ThreadStates /\ r.pc = "process" /\ r.q = th[t].q /\ r.batch = th[t].batch
        BY <2>0 DEF ThreadStates, Pcs, Idle
      <3>2. th' = [th EXCEPT ![t] = r] /\ mu' = End
        BY <1>1, <2>2
      <3> HIDE DEF r
      <3> QED
        BY <2>2, <3>1, <3>2
    <2> QED
      BY <2>1, <2>2
  <1>8. /\ th' \in [Threads -> ThreadStates] /\ \A u \in Threads : u # t => th'[u] = th[u]
        /\ th'[t].q = th[t].q /\ th'[t].batch = th[t].batch
        /\ \/ th'[t].pc = "ask" /\ th'[t].q = End /\ mu' = t
              /\ th'[t].num - th'[t].tried <= Len(queues')
           \/ th'[t].pc = "process" /\ th'[t].q # End /\ mu' = End
    BY <1>7 DEF TypeOK
  <1>9. TypeOK'
    BY <1>1, <1>6, <1>8 DEF TypeOK
  <1>10. Loop'
    <2>1. ASSUME NEW u \in Threads, u # t
          PROVE  /\ mu' # u /\ mu # u /\ th[u].pc \notin {"ask", "schedule", "advance"}
      BY <1>2, <1>8, <2>1, BatchAssumption DEF Loop
    <2>2. ASSUME NEW u \in Threads
          PROVE  /\ th'[u].pc \in {"ask", "schedule", "advance"} <=> mu' = u
                 /\ mu' = u => th'[u].num - th'[u].tried <= Len(queues')
                 /\ th'[u].pc \notin {"schedule", "advance"}
                 /\ th'[u].pc \notin {"advance", "process", "finish"} => th'[u].q = End
                 /\ th'[u].pc \in {"process", "finish"} => th'[u].q # End
      BY <1>8, <2>1, BatchAssumption DEF Loop
    <2> QED
      BY <1>6, <2>2 DEF Loop, Listed
  <1>11. Counted'
    <2>1. ASSUME NEW q \in Queues PROVE Users(q)' = Users(q)
      BY <1>8 DEF Users
    <2> QED
      BY <1>1, <2>1 DEF Counted
  <1>12. Handles'
    <2>1. \A q \in Queues : EmptyQueue(q)' <=> EmptyQueue(q)
      BY <1>1 DEF EmptyQueue
    <2>2. ASSUME NEW q \in Queues, handle[q] \in {"open", "closing"}
          PROVE  Listed(q)'
      BY <1>5, <1>6, <2>2 DEF Handles, Listed
    <2> QED
      BY <1>1, <2>1, <2>2 DEF Handles
  <1>13. Accepted'
    <2> SUFFICES ASSUME NEW k \in Tasks, task[k] = "accepted"
                 PROVE  \/ Enqueued(batches[QueueOf(k)], k)
                        \/ \E u \in Threads : /\ th'[u].q = QueueOf(k)
                                              /\ th'[u].pc \in {"advance", "process"}
                                              /\ InBatch(th'[u].batch, k)
      BY <1>1 DEF Accepted
    <2>1. \A u \in Threads : th[u].q = QueueOf(k) /\ th[u].pc \in {"advance", "process"} =>
            /\ th'[u].q = QueueOf(k) /\ th'[u].pc \in {"advance", "process"}
            /\ th'[u].batch = th[u].batch
      BY <1>8, BatchAssumption
    <2> QED
      BY <2>1 DEF Accepted
  <1> QED
    BY <1>9, <1>10, <1>11, <1>12, <1>13

--------------------------------------------------------------------------------
(* The invariant on which the theorems rest: who holds mu_ and what it may   *)
(* rely on, the count of batches being processed, what a handle's phase says *)
(* of its queue, and where an accepted task is.                              *)
THEOREM BatchInvariant == Spec => []IInv
  <1>1. Init => IInv
    BY InitIInv
  <1>2. IInv /\ [Next]_vars => IInv'
    <2> SUFFICES ASSUME IInv, [Next]_vars PROVE IInv'
      OBVIOUS
    <2>1. CASE UNCHANGED vars
      <3>1. UNCHANGED <<mu, queues, next, batches, closed, processing, awaited, handle, th, task>>
        BY <2>1 DEF vars, queueVars
      <3>2. TypeOK' /\ Loop'
        BY <3>1 DEF IInv, TypeOK, Loop, Listed
      <3>3. Counted' /\ Handles' /\ Accepted'
        BY <3>1 DEF IInv, Counted, Users, Handles, EmptyQueue, Listed, Accepted
      <3> QED
        BY <3>2, <3>3 DEF IInv
    <2>2. CASE \E k \in Tasks : Schedule(k)
      BY <2>2, ScheduleIInv
    <2>3. CASE \/ \E k \in Tasks : NotifyScheduler(k)
               \/ \E q \in Queues : AskCapacity(q) \/ Clock(q)
               \/ Destroy
      BY <2>3, ClientIInv
    <2>4. CASE \E q \in Queues : AddQueue(q)
      BY <2>4, AddQueueIInv
    <2>5. CASE \E q \in Queues : Close(q)
      BY <2>5, CloseIInv
    <2>6. CASE \E t \in Threads : Thread(t)
      BY <2>6, IdleStepIInv, ScheduleBatchIInv, AdvanceIInv, ProcessBatchIInv, FinishIInv
         DEF Thread
    <2> QED
      BY <2>1, <2>2, <2>3, <2>4, <2>5, <2>6 DEF Next
  <1> QED
    BY <1>1, <1>2, PTL DEF Spec

(* A thread in the loop of ThreadLogic finds next_queue_to_schedule_ at a    *)
(* queue of queues_, whatever it dropped before: the DCHECK that it is not   *)
(* end() holds.                                                              *)
NextIsListed ==
  \A t \in Threads :
    (th[t].pc \in {"schedule", "advance"} \/ (th[t].pc = "ask" /\ th[t].tried < th[t].num)) =>
      next \in ToSet(queues)

(* The elements of the list are those at its positions. *)
LEMMA ListedIsElement ==
  ASSUME TypeOK, NEW q, Listed(q)
  PROVE  q \in ToSet(queues)
  BY LenProperties DEF TypeOK, Listed, ToSet

(* ThreadLogic never dereferences next_queue_to_schedule_ at end(). *)
THEOREM NextQueueExists == Spec => []NextIsListed
  <1>1. IInv => NextIsListed
    <2> SUFFICES ASSUME IInv, NEW t \in Threads,
                        \/ th[t].pc \in {"schedule", "advance"}
                        \/ th[t].pc = "ask" /\ th[t].tried < th[t].num
                 PROVE  next \in ToSet(queues)
      BY DEF NextIsListed
    <2>1. Listed(next) /\ TypeOK
      BY NextInLoop DEF IInv, Loop
    <2> QED
      BY <2>1, ListedIsElement
  <1> QED
    BY <1>1, BatchInvariant, PTL

(* A queue is erased from queues_, and so deleted, only when no thread works *)
(* on a batch of it, its client's handle is closed and nothing is enqueued.  *)
THEOREM QueuesAreKeptWhileUsed == Spec => []KeptWhileUsed
  <1>1. IInv => KeptWhileUsed
    <2> SUFFICES ASSUME IInv PROVE KeptWhileUsed
      OBVIOUS
    <2> USE DEF IInv
    <2>1. ASSUME NEW q \in Queues, handle[q] \in {"open", "closing"} \/ ~EmptyQueue(q)
          PROVE  q \in ToSet(queues)
      <3>1. handle[q] \in {"open", "closing"}
        BY <2>1 DEF Handles, TypeOK
      <3> QED
        BY <3>1, ListedIsElement DEF Handles
    <2>2. ASSUME NEW t \in Threads, th[t].q # End
          PROVE  th[t].q \in ToSet(queues)
      <3>1. PICK q \in Queues : q = th[t].q
        BY <2>2 DEF TypeOK, ThreadStates
      <3>2. t \in Users(q)
        BY <3>1 DEF Users
      <3>3. ~EmptyQueue(q)
        BY <3>2, UsersFinite DEF EmptyQueue, Counted
      <3> QED
        BY <2>1, <3>1, <3>3
    <2> QED
      BY <2>1, <2>2 DEF KeptWhileUsed, EmptyQueue
  <1> QED
    BY <1>1, BatchInvariant, PTL

(* The destructor of a queue's handle returns only when every task accepted  *)
(* by that queue has been processed.                                         *)
THEOREM CloseCoversTasks == Spec => []CloseCovers
  <1>1. IInv => CloseCovers
    <2> SUFFICES ASSUME IInv, NEW k \in Tasks, handle[QueueOf(k)] = "closed",
                        task[k] = "accepted"
                 PROVE  FALSE
      BY DEF CloseCovers
    <2> USE DEF IInv
    <2>1. PICK q \in Queues : q = QueueOf(k)
      BY BatchAssumption
    <2>2. EmptyQueue(q)
      BY <2>1 DEF Handles
    <2>3. ~Enqueued(batches[q], k)
      BY <2>2, NothingInEmpty DEF EmptyQueue
    <2>4. Users(q) = {}
      BY <2>2, UsersFinite DEF EmptyQueue, Counted
    <2> QED
      BY <2>1, <2>3, <2>4 DEF Accepted, Users
  <1> QED
    BY <1>1, BatchInvariant, PTL

--------------------------------------------------------------------------------
(* The size of a batch: what the recursion computes, by the least length at  *)
(* which it would be wrong.                                                  *)

(* A set of natural numbers has a least element. *)
LEMMA LeastNumber ==
  ASSUME NEW T, T \subseteq Nat, T # {}
  PROVE  \E x \in T : \A y \in T : x <= y
  <1>1. \E x \in T : \A y \in T : ~(<<y, x>> \in OpToRel(<, Nat))
    BY NatLessThanWellFounded, WFMin
  <1>2. PICK x \in T : \A y \in T : ~(<<y, x>> \in OpToRel(<, Nat))
    BY <1>1
  <1>3. \A y \in T : ~(y < x)
    BY <1>2 DEF OpToRel
  <1> QED
    BY <1>3

(* sum is the sums of the first elements of batch b, up to n of them. *)
Sums(sum, b, n) ==
  sum = [i \in 0 .. n |-> IF i = 0 THEN 0 ELSE sum[i - 1] + SizeOf(b[i])]

(* There are such sums, for every n. *)
LEMMA SumsExist ==
  ASSUME NEW b, NEW n \in Nat
  PROVE  \E sum : Sums(sum, b, n)
  <1> DEFINE Good(m) == \E sum : Sums(sum, b, m)
             T == {m \in Nat : ~Good(m)}
  <1>1. Good(0)
    <2> DEFINE f == [i \in 0 .. 0 |-> 0]
    <2>1. f = [i \in 0 .. 0 |-> IF i = 0 THEN 0 ELSE f[i - 1] + SizeOf(b[i])]
      OBVIOUS
    <2> QED
      BY <2>1 DEF Sums
  <1>2. ASSUME NEW m \in Nat, m > 0, Good(m - 1)
        PROVE  Good(m)
    <2>1. PICK f : Sums(f, b, m - 1)
      BY <1>2
    <2> DEFINE g == [i \in 0 .. m |-> IF i = m THEN f[m - 1] + SizeOf(b[m]) ELSE f[i]]
               h == [i \in 0 .. m |-> IF i = 0 THEN 0 ELSE g[i - 1] + SizeOf(b[i])]
    <2>2. ASSUME NEW i \in 0 .. m
          PROVE  g[i] = IF i = 0 THEN 0 ELSE g[i - 1] + SizeOf(b[i])
      <3>1. CASE i = m
        BY <1>2, <3>1
      <3>2. CASE i # m
        <4>1. i \in 0 .. m - 1 /\ (i # 0 => i - 1 \in 0 .. m /\ i - 1 # m)
          BY <1>2, <3>2
        <4>2. f[i] = IF i = 0 THEN 0 ELSE f[i - 1] + SizeOf(b[i])
          BY <2>1, <4>1 DEF Sums
        <4> QED
          BY <3>2, <4>1, <4>2
      <3> QED
        BY <3>1, <3>2
    <2>3. \A i \in 0 .. m : g[i] = h[i]
      BY <2>2
    <2>4. g = h
      BY <2>3
    <2> HIDE DEF g
    <2> QED
      BY <2>4 DEF Sums
  <1> HIDE DEF Good
  <1>3. T = {}
    <2> SUFFICES ASSUME T # {} PROVE FALSE
      OBVIOUS
    <2>1. PICK m \in T : \A k \in T : m <= k
      BY LeastNumber
    <2>2. m # 0
      BY <1>1, <2>1
    <2>3. m - 1 \in Nat /\ m - 1 \notin T
      BY <2>1, <2>2
    <2> QED
      BY <1>2, <2>1, <2>2, <2>3
  <1> QED
    BY <1>3 DEF Good

(* The size of a batch is the last of its sums. *)
LEMMA SizeIsSum ==
  ASSUME NEW b, Len(b) \in Nat
  PROVE  \E sum : Sums(sum, b, Len(b)) /\ Size(b) = sum[Len(b)]
  <1> DEFINE sum == CHOOSE f : f = [i \in 0 .. Len(b) |-> IF i = 0 THEN 0 ELSE f[i - 1] + SizeOf(b[i])]
  <1>1. Sums(sum, b, Len(b))
    BY SumsExist DEF Sums
  <1>2. Size(b) = sum[Len(b)]
    BY DEF Size
  <1> HIDE DEF sum
  <1> QED
    BY <1>1, <1>2

(* Sums of sequences that agree are equal, and are natural numbers. *)
LEMMA SumsAgree ==
  ASSUME NEW b, NEW c, NEW n \in Nat, NEW m \in Nat, n <= m,
         NEW f, NEW g, Sums(f, b, n), Sums(g, c, m),
         \A i \in 1 .. n : b[i] = c[i] /\ b[i] \in Tasks
  PROVE  f[n] = g[n] /\ f[n] \in Nat
  <1> DEFINE T == {i \in Nat : i <= n /\ ~(f[i] = g[i] /\ f[i] \in Nat)}
  <1>1. /\ \A i \in 0 .. n : f[i] = IF i = 0 THEN 0 ELSE f[i - 1] + SizeOf(b[i])
        /\ \A i \in 0 .. m : g[i] = IF i = 0 THEN 0 ELSE g[i - 1] + SizeOf(c[i])
    BY DEF Sums
  <1>2. T = {}
    <2> SUFFICES ASSUME T # {} PROVE FALSE
      OBVIOUS
    <2>1. PICK i \in T : \A k \in T : i <= k
      BY LeastNumber
    <2>2. i \in 0 .. n /\ i \in 0 .. m
      BY <2>1
    <2>3. i # 0
      BY <1>1, <2>1, <2>2
    <2>4. i - 1 \in Nat /\ i - 1 <= n /\ i - 1 \notin T /\ i \in 1 .. n
      BY <2>1, <2>2, <2>3
    <2>5. f[i - 1] = g[i - 1] /\ f[i - 1] \in Nat
      BY <2>4
    <2>6. b[i] = c[i] /\ SizeOf(b[i]) \in Nat
      BY <2>4, BatchAssumption
    <2>7. f[i] = f[i - 1] + SizeOf(b[i]) /\ g[i] = g[i - 1] + SizeOf(c[i])
      BY <1>1, <2>2, <2>3
    <2> QED
      BY <2>1, <2>5, <2>6, <2>7
  <1>3. n \notin T
    BY <1>2
  <1> QED
    BY <1>3

(* Batch::size is 0 at first and grows by the size of each task added. *)
LEMMA SizeFacts ==
  /\ Size(<<>>) = 0
  /\ \A b \in Seq(Tasks) : Size(b) \in Nat
  /\ \A b \in Seq(Tasks), k \in Tasks : Size(Append(b, k)) = Size(b) + SizeOf(k)
  <1>1. Size(<<>>) = 0
    <2>1. PICK sum : Sums(sum, <<>>, 0) /\ Size(<<>>) = sum[0]
      <3>1. Len(<<>>) = 0
        OBVIOUS
      <3> QED
        BY <3>1, SizeIsSum
    <2> QED
      BY <2>1 DEF Sums
  <1>2. ASSUME NEW b \in Seq(Tasks) PROVE Size(b) \in Nat
    <2>1. Len(b) \in Nat /\ \A i \in 1 .. Len(b) : b[i] \in Tasks
      BY LenProperties, ElementOfSeq
    <2>2. PICK f : Sums(f, b, Len(b)) /\ Size(b) = f[Len(b)]
      BY <2>1, SizeIsSum
    <2> QED
      BY <2>1, <2>2, SumsAgree
  <1>3. ASSUME NEW b \in Seq(Tasks), NEW k \in Tasks
        PROVE  Size(Append(b, k)) = Size(b) + SizeOf(k)
    <2>1. PICK n \in Nat : n = Len(b)
      BY LenProperties
    <2>2. PICK c : c = Append(b, k)
      OBVIOUS
    <2>3. Len(c) = n + 1 /\ c[n + 1] = k /\ \A i \in 1 .. n : c[i] = b[i] /\ b[i] \in Tasks
      BY <2>1, <2>2, AppendProperties, ElementOfSeq
    <2>4. PICK f : Sums(f, b, n) /\ Size(b) = f[n]
      BY <2>1, SizeIsSum
    <2>5. PICK g : Sums(g, c, n + 1) /\ Size(c) = g[n + 1]
      <3>1. Len(c) \in Nat
        BY <2>3
      <3> QED
        BY <2>3, <3>1, SizeIsSum
    <2>6. f[n] = g[n]
      <3>1. n + 1 \in Nat /\ n <= n + 1
        OBVIOUS
      <3> QED
        BY <2>3, <2>4, <2>5, <3>1, SumsAgree
    <2>7. g[n + 1] = g[n] + SizeOf(k)
      <3>1. n + 1 \in 0 .. n + 1 /\ n + 1 # 0 /\ (n + 1) - 1 = n
        OBVIOUS
      <3> QED
        BY <2>3, <2>5, <3>1 DEF Sums
    <2> QED
      BY <2>2, <2>4, <2>5, <2>6, <2>7
  <1> QED
    BY <1>1, <1>2, <1>3

--------------------------------------------------------------------------------
(* How many tasks of size 1 fit into the queue as it is. *)
Spare(bs) == (MaxEnqueued - Len(bs)) * MaxBatchSize + MaxBatchSize - Size(Last(bs))

(* No batch is larger, and no queue longer, than it may be, and what was     *)
(* promised is there.                                                        *)
Promises ==
  /\ ~broken
  /\ \A q \in Queues : /\ Len(batches[q]) <= MaxEnqueued
                       /\ Size(Last(batches[q])) <= MaxBatchSize
  /\ promised \in [Queues -> Nat]
  /\ \A q \in Queues : promised[q] <= Spare(batches[q])

(* The last of a list of batches. *)
LEMMA LastBatch ==
  ASSUME NEW bs \in Seq(Seq(Tasks)), Len(bs) >= 1
  PROVE  /\ Last(bs) \in Seq(Tasks) /\ Size(Last(bs)) \in Nat
         /\ Len(bs) \in Nat
         /\ Last(StartNewBatch(bs)) = <<>>
         /\ \A k \in Tasks : Last(AddTask(bs, k)) = Append(Last(bs), k)
         /\ Len(bs) >= 2 => Last(RemoveAt(bs, 1)) = Last(bs)
  <1>1. PICK n \in Nat : n = Len(bs)
    BY LenProperties
  <1>2. n \in 1 .. n /\ n \in 1 .. Len(bs)
    BY <1>1
  <1>3. bs[n] \in Seq(Tasks) /\ Last(bs) = bs[n]
    BY <1>1, <1>2, ElementOfSeq DEF Last
  <1>4. Last(StartNewBatch(bs)) = <<>>
    <2>1. Len(Append(bs, <<>>)) = n + 1 /\ Append(bs, <<>>)[n + 1] = <<>>
      BY <1>1, EmptySeq, AppendProperties
    <2> QED
      BY <2>1 DEF Last, StartNewBatch
  <1>5. ASSUME NEW k \in Tasks PROVE Last(AddTask(bs, k)) = Append(Last(bs), k)
    <2>1. PICK b : b = Append(bs[n], k)
      OBVIOUS
    <2>2. b \in Seq(Tasks)
      BY <1>3, <2>1, AppendProperties
    <2>3. AddTask(bs, k) = [bs EXCEPT ![n] = b]
      BY <1>1, <2>1 DEF AddTask
    <2>4. Len([bs EXCEPT ![n] = b]) = n /\ [bs EXCEPT ![n] = b][n] = b
      BY <1>1, <1>2, <2>2, ExceptSeq
    <2> QED
      BY <1>3, <2>1, <2>3, <2>4 DEF Last
  <1>6. ASSUME Len(bs) >= 2 PROVE Last(RemoveAt(bs, 1)) = Last(bs)
    <2>1. PICK rest : rest = RemoveAt(bs, 1)
      OBVIOUS
    <2>2. 1 \in 1 .. Len(bs)
      BY <1>1, <1>6
    <2>3. /\ Len(rest) = n - 1
          /\ \A j \in 1 .. n - 1 : rest[j] = IF j < 1 THEN bs[j] ELSE bs[j + 1]
      BY <1>1, <2>1, <2>2, RemoveAtFacts
    <2>4. n - 1 \in 1 .. n - 1 /\ ~(n - 1 < 1) /\ (n - 1) + 1 = n
      BY <1>1, <1>6
    <2> QED
      BY <1>3, <2>1, <2>3, <2>4 DEF Last
  <1> QED
    BY <1>1, <1>3, <1>4, <1>5, <1>6, SizeFacts

(* A multiple of the batch size. *)
LEMMA Multiples ==
  ASSUME NEW a \in Int
  PROVE  /\ a * MaxBatchSize \in Int
         /\ (a - 1) * MaxBatchSize = a * MaxBatchSize - MaxBatchSize
         /\ (a + 1) * MaxBatchSize = a * MaxBatchSize + MaxBatchSize
         /\ a >= 0 => a * MaxBatchSize >= 0
         /\ a <= 0 => a * MaxBatchSize <= 0
  BY BatchAssumption

(* A remainder is no larger than the number. *)
LEMMA Remainders ==
  ASSUME NEW x \in Nat
  PROVE  x % 2^SizeBits \in Nat /\ x % 2^SizeBits <= x
  <1>1. PICK d \in Nat \ {0} : d = 2^SizeBits
    BY BatchAssumption
  <1>2. x % d \in Nat /\ x % d <= x
    OBVIOUS
  <1> QED
    BY <1>1, <1>2

(* A size_t that is small enough goes through a difference of size_t's and   *)
(* an int unchanged.                                                         *)
LEMMA FitsInt ==
  ASSUME NEW x \in Nat, x < 2^(IntBits - 1)
  PROVE  ToInt(x % 2^SizeBits) = x
  <1>1. PICK d \in Nat \ {0}, h \in Nat \ {0}, i \in Nat \ {0} :
          d = 2^SizeBits /\ h = 2^(IntBits - 1) /\ i = 2^IntBits /\ i = 2 * h /\ i <= d
    BY BatchAssumption
  <1>2. x < d /\ x < i /\ x < h
    BY <1>1
  <1>3. \A a \in Nat, m \in Nat \ {0} : a < m => a % m = a
    OBVIOUS
  <1>4. x % d = x /\ x % i = x
    BY <1>1, <1>2, <1>3
  <1> QED
    BY <1>1, <1>2, <1>4 DEF ToInt

(* The capacity of a queue with n batches, the open one of size s. *)
Room(n, s) == (MaxEnqueued - n) * MaxBatchSize + MaxBatchSize - s

(* What a batch more or less, and a larger open batch, do to it. *)
LEMMA RoomFacts ==
  ASSUME NEW n \in Nat, NEW s \in Nat
  PROVE  /\ Room(n, s) \in Int /\ Room(n, 0) \in Int
         /\ Room(n, s) = Room(n, 0) - s
         /\ Room(n + 1, 0) = Room(n, 0) - MaxBatchSize
         /\ Room(n - 1, s) = Room(n, s) + MaxBatchSize
         /\ n <= MaxEnqueued /\ s <= MaxBatchSize => Room(n, s) >= 0
         /\ n = MaxEnqueued => Room(n, s) = MaxBatchSize - s
  <1>1. PICK e \in Nat, b \in Nat \ {0} : e = MaxEnqueued /\ b = MaxBatchSize
    BY BatchAssumption
  <1>2. PICK a \in Int : a = e - n
    OBVIOUS
  <1>3. PICK p \in Int : p = a * b
    OBVIOUS
  <1>4. /\ (a - 1) * b = p - b /\ (a + 1) * b = p + b
        /\ a >= 0 => p >= 0
        /\ a = 0 => p = 0
    BY <1>1, <1>2, <1>3, Multiples
  <1>5. e - (n + 1) = a - 1 /\ e - (n - 1) = a + 1
    BY <1>2
  <1>6. /\ Room(n, s) = p + b - s /\ Room(n, 0) = p + b - 0
        /\ Room(n + 1, 0) = (p - b) + b - 0
        /\ Room(n - 1, s) = (p + b) + b - s
    BY <1>1, <1>2, <1>3, <1>4, <1>5 DEF Room
  <1>7. a >= 0 <=> n <= e
    BY <1>2
  <1>8. n = e => a = 0
    BY <1>2
  <1> QED
    BY <1>1, <1>4, <1>6, <1>7, <1>8

(* The capacity of a list of batches, in numbers. *)
LEMMA SpareIsRoom ==
  ASSUME NEW bs, NEW n, NEW s, Len(bs) = n, Size(Last(bs)) = s
  PROVE  Spare(bs) = Room(n, s)
  BY DEF Spare, Room

(* A queue within its limits has no negative capacity. *)
LEMMA SpareIsNat ==
  ASSUME NEW bs \in Seq(Seq(Tasks)), Len(bs) >= 1, Len(bs) <= MaxEnqueued,
         Size(Last(bs)) <= MaxBatchSize
  PROVE  Spare(bs) \in Nat
  <1>1. PICK n \in Nat, s \in Nat : n = Len(bs) /\ s = Size(Last(bs))
    BY LastBatch
  <1>2. Spare(bs) = Room(n, s)
    BY <1>1, SpareIsRoom
  <1>3. Room(n, s) \in Int /\ Room(n, s) >= 0
    BY <1>1, RoomFacts
  <1> QED
    BY <1>2, <1>3

(* A task that the queue has room for takes its size of the capacity, and    *)
(* keeps the limits; one of size 1 takes 1.                                  *)
LEMMA RoomTaken ==
  ASSUME NEW bs \in Seq(Seq(Tasks)), Len(bs) >= 1, Len(bs) <= MaxEnqueued,
         Size(Last(bs)) <= MaxBatchSize,
         NEW k \in Tasks, SizeOf(k) <= MaxBatchSize, Fits(bs, k) \/ ~Full(bs),
         NEW new, new = AddTask(IF Fits(bs, k) THEN bs ELSE StartNewBatch(bs), k)
  PROVE  /\ Len(new) <= MaxEnqueued
         /\ Size(Last(new)) <= MaxBatchSize
         /\ Spare(new) \in Nat
         /\ SizeOf(k) = 1 => Spare(new) = Spare(bs) - 1
  <1>1. PICK n \in Nat, s \in Nat : n = Len(bs) /\ s = Size(Last(bs))
    BY LastBatch
  <1>2. PICK e \in Nat, b \in Nat \ {0} : e = MaxEnqueued /\ b = MaxBatchSize
    BY BatchAssumption
  <1>3. PICK z \in Nat \ {0} : z = SizeOf(k)
    BY BatchAssumption
  <1>4. Spare(bs) = Room(n, s)
    BY <1>1, SpareIsRoom
  <1>5. n >= 1 /\ n <= e /\ s <= b /\ z <= b
    BY <1>1, <1>2, <1>3
  <1>6. CASE Fits(bs, k)
    <2>1. new = AddTask(bs, k)
      BY <1>6
    <2>2. new \in Seq(Seq(Tasks)) /\ Len(new) = n
      BY <1>1, <2>1, AddTaskFacts
    <2>3. Last(bs) \in Seq(Tasks) /\ Last(new) = Append(Last(bs), k)
      BY <2>1, LastBatch
    <2>4. Size(Last(new)) = s + z
      BY <1>1, <1>3, <2>3, SizeFacts
    <2>5. s + z <= b
      BY <1>1, <1>2, <1>3, <1>6 DEF Fits
    <2>6. Spare(new) = Room(n, s + z)
      BY <2>2, <2>4, SpareIsRoom
    <2>7. s + z \in Nat
      OBVIOUS
    <2>8. Room(n, s + z) \in Int /\ Room(n, s + z) >= 0
      BY <1>2, <1>5, <2>5, <2>7, RoomFacts
    <2>9. /\ Room(n, s) = Room(n, 0) - s /\ Room(n, s + z) = Room(n, 0) - (s + z)
          /\ Room(n, 0) \in Int
      BY <2>7, RoomFacts
    <2>10. z = 1 => Room(n, s + z) = Room(n, s) - 1
      BY <2>9
    <2> QED
      BY <1>2, <1>3, <1>4, <1>5, <2>2, <2>4, <2>5, <2>6, <2>8, <2>10
  <1>7. CASE ~Fits(bs, k)
    <2>1. PICK room : room = StartNewBatch(bs)
      OBVIOUS
    <2>2. room \in Seq(Seq(Tasks)) /\ Len(room) = n + 1
      BY <1>1, <2>1, StartNewBatchFacts
    <2>3. Last(room) = <<>>
      BY <2>1, LastBatch
    <2>4. Len(room) >= 1 /\ new = AddTask(room, k)
      BY <1>7, <2>1, <2>2
    <2>5. new \in Seq(Seq(Tasks)) /\ Len(new) = n + 1
      BY <2>2, <2>4, AddTaskFacts
    <2>6. Last(new) = Append(<<>>, k)
      BY <2>2, <2>3, <2>4, LastBatch
    <2>7. Size(Last(new)) = z
      <3>1. <<>> \in Seq(Tasks)
        BY EmptySeq
      <3>2. PICK c : c = Size(<<>>)
        OBVIOUS
      <3>3. c = 0
        BY <3>2, SizeFacts
      <3>4. Size(Append(<<>>, k)) = Size(<<>>) + SizeOf(k)
        BY <3>1, SizeFacts
      <3>5. Size(Last(new)) = c + z
        BY ONLY <1>3, <2>6, <3>2, <3>4, Zenon
      <3> QED
        BY <3>3, <3>5
    <2>8. n < e
      BY <1>1, <1>2, <1>7 DEF Full
    <2>9. n + 1 \in Nat /\ n + 1 <= e
      BY <2>8
    <2>10. Spare(new) = Room(n + 1, z)
      BY <2>5, <2>7, SpareIsRoom
    <2>11. Room(n + 1, z) \in Int /\ Room(n + 1, z) >= 0 /\ Room(n + 1, z) = Room(n + 1, 0) - z
      BY <1>2, <1>5, <2>9, RoomFacts
    <2>12. ASSUME z = 1 PROVE Room(n + 1, z) = Room(n, s) - 1
      <3>1. s = b
        BY <1>1, <1>2, <1>3, <1>5, <1>7, <2>12 DEF Fits
      <3>2. Room(n + 1, 0) = Room(n, 0) - b /\ Room(n, s) = Room(n, 0) - s /\ Room(n, 0) \in Int
        BY <1>2, RoomFacts
      <3> QED
        BY <2>11, <2>12, <3>1, <3>2
    <2> QED
      BY <1>2, <1>3, <1>4, <1>5, <2>5, <2>7, <2>9, <2>10, <2>11, <2>12
  <1> QED
    BY <1>6, <1>7

(* A batch taken by a thread leaves no less room. *)
LEMMA RoomGiven ==
  ASSUME NEW bs \in Seq(Seq(Tasks)), Len(bs) >= 1, Len(bs) <= MaxEnqueued,
         Size(Last(bs)) <= MaxBatchSize,
         NEW rest,
         \/ Len(bs) >= 2 /\ rest = RemoveAt(bs, 1)
         \/ Len(bs) = 1 /\ rest = RemoveAt(StartNewBatch(bs), 1)
  PROVE  /\ Len(rest) <= MaxEnqueued
         /\ Size(Last(rest)) <= MaxBatchSize
         /\ Spare(rest) >= Spare(bs)
  <1>1. PICK n \in Nat, s \in Nat : n = Len(bs) /\ s = Size(Last(bs))
    BY LastBatch
  <1>2. PICK e \in Nat, b \in Nat \ {0} : e = MaxEnqueued /\ b = MaxBatchSize
    BY BatchAssumption
  <1>3. Spare(bs) = Room(n, s)
    BY <1>1, SpareIsRoom
  <1>4. n >= 1 /\ n <= e /\ s <= b
    BY <1>1, <1>2
  <1>5. CASE Len(bs) >= 2 /\ rest = RemoveAt(bs, 1)
    <2>1. 1 \in 1 .. Len(bs)
      BY <1>1, <1>4
    <2>2. Len(rest) = n - 1
      BY <1>1, <1>5, <2>1, RemoveAtFacts
    <2>3. Size(Last(rest)) = s
      BY <1>1, <1>5, LastBatch
    <2>4. Spare(rest) = Room(n - 1, s)
      BY <2>2, <2>3, SpareIsRoom
    <2>5. Room(n - 1, s) = Room(n, s) + b /\ Room(n, s) \in Int
      BY <1>2, RoomFacts
    <2> QED
      BY <1>2, <1>3, <1>4, <2>2, <2>3, <2>4, <2>5
  <1>6. CASE Len(bs) = 1 /\ rest = RemoveAt(StartNewBatch(bs), 1)
    <2>1. PICK two : two = StartNewBatch(bs)
      OBVIOUS
    <2>2. two \in Seq(Seq(Tasks)) /\ Len(two) = n + 1
      BY <1>1, <2>1, StartNewBatchFacts
    <2>3. Last(two) = <<>>
      BY <2>1, LastBatch
    <2>4. n = 1
      BY <1>1, <1>6
    <2>5. 1 \in 1 .. Len(two) /\ Len(two) >= 2 /\ Len(two) >= 1 /\ Len(two) = 2
      BY <2>2, <2>4
    <2>6. rest = RemoveAt(two, 1)
      BY <1>6, <2>1
    <2>7. Len(rest) = 1
      <3>1. Len(rest) = Len(two) - 1
        BY <2>2, <2>5, <2>6, RemoveAtFacts
      <3> QED
        BY <2>5, <3>1
    <2>8. Last(rest) = <<>>
      BY <2>2, <2>3, <2>5, <2>6, LastBatch
    <2>9. Size(Last(rest)) = 0
      BY <2>8, SizeFacts
    <2>10. Spare(rest) = Room(n, 0)
      BY <2>4, <2>7, <2>9, SpareIsRoom
    <2>11. Room(n, s) = Room(n, 0) - s /\ Room(n, 0) \in Int
      BY RoomFacts
    <2> QED
      BY <1>2, <1>3, <1>4, <2>4, <2>7, <2>9, <2>10, <2>11
  <1> QED
    BY <1>5, <1>6

(* Schedule keeps the promises, and breaks none by refusing. *)
LEMMA SchedulePromises ==
  ASSUME IInv, Promises, NEW k \in Tasks, Schedule(k)
  PROVE  Promises'
  <1>1. PICK q \in Queues : q = QueueOf(k)
    BY BatchAssumption
  <1>2. PICK bs : bs = batches[q]
    OBVIOUS
  <1>3. /\ bs \in Seq(Seq(Tasks)) /\ Len(bs) >= 1 /\ Len(bs) <= MaxEnqueued
        /\ Size(Last(bs)) <= MaxBatchSize
        /\ promised[q] \in Nat /\ promised[q] <= Spare(bs)
    BY <1>2 DEF IInv, TypeOK, Promises
  <1>4. PICK new : new = AddTask(IF Fits(bs, k) THEN bs ELSE StartNewBatch(bs), k)
    OBVIOUS
  <1>5. \/ Refuse(q, k, "invalid")
        \/ ~Fits(bs, k) /\ Full(bs) /\ Refuse(q, k, "unavailable")
        \/ /\ SizeOf(k) <= MaxBatchSize /\ (Fits(bs, k) \/ ~Full(bs))
           /\ \E timeout : Accept(q, k, new, timeout)
    BY <1>1, <1>2, <1>4 DEF Schedule
  <1>6. CASE Refuse(q, k, "invalid")
    BY <1>6 DEF Refuse, Promises
  <1>7. CASE ~Fits(bs, k) /\ Full(bs) /\ Refuse(q, k, "unavailable")
    <2>1. /\ Len(bs) \in Nat /\ Size(Last(bs)) \in Nat
          /\ MaxEnqueued \in Nat /\ MaxBatchSize \in Nat \ {0}
      BY <1>3, LastBatch, BatchAssumption
    <2>2. ASSUME SizeOf(k) = 1 PROVE ~(promised[q] > 0)
      <3>1. Size(Last(bs)) = MaxBatchSize /\ MaxEnqueued - Len(bs) = 0
        BY <1>3, <1>7, <2>1, <2>2 DEF Fits, Full
      <3>2. 0 * MaxBatchSize = 0
        BY <2>1
      <3>3. Spare(bs) = 0
        BY <2>1, <3>1, <3>2 DEF Spare
      <3> QED
        BY <1>3, <3>3
    <2>3. ~broken' /\ batches' = batches /\ promised' = promised
      BY <1>7, <2>2 DEF Refuse, Promises
    <2> QED
      BY <2>3 DEF Promises
  <1>8. ASSUME SizeOf(k) <= MaxBatchSize, Fits(bs, k) \/ ~Full(bs), NEW timeout,
               Accept(q, k, new, timeout)
        PROVE  Promises'
    <2>1. /\ batches' = [batches EXCEPT ![q] = new] /\ broken' = broken
          /\ promised' = [promised EXCEPT ![q] = IF SizeOf(k) = 1 /\ @ > 0 THEN @ - 1 ELSE 0]
      BY <1>8 DEF Accept
    <2>2. /\ Len(new) <= MaxEnqueued /\ Size(Last(new)) <= MaxBatchSize
          /\ Spare(new) \in Nat
          /\ SizeOf(k) = 1 => Spare(new) = Spare(bs) - 1
      BY <1>3, <1>4, <1>8, RoomTaken
    <2>3. Spare(bs) \in Nat
      BY <1>3, SpareIsNat
    <2>4. PICK p \in Nat : p = IF SizeOf(k) = 1 /\ promised[q] > 0 THEN promised[q] - 1 ELSE 0
      BY <1>3
    <2>5. p <= Spare(new)
      BY <1>3, <2>2, <2>3, <2>4
    <2>6. batches'[q] = new /\ \A r \in Queues : r # q => batches'[r] = batches[r]
      BY <2>1 DEF IInv, TypeOK
    <2>7. /\ promised' \in [Queues -> Nat] /\ promised'[q] = p
          /\ \A r \in Queues : r # q => promised'[r] = promised[r]
      BY <2>1, <2>4 DEF Promises
    <2> QED
      BY <2>1, <2>2, <2>5, <2>6, <2>7 DEF Promises
  <1> QED
    BY <1>5, <1>6, <1>7, <1>8

(* A thread that takes a batch makes room. *)
LEMMA ScheduleBatchPromises ==
  ASSUME IInv, Promises, NEW t \in Threads, ScheduleBatch(t)
  PROVE  Promises'
  <1>1. PICK q : q = next
    OBVIOUS
  <1>2. q \in Queues
    BY <1>1, NextInLoop DEF IInv, Loop, ScheduleBatch
  <1>3. PICK bs : bs = batches[q]
    OBVIOUS
  <1>4. /\ bs \in Seq(Seq(Tasks)) /\ Len(bs) >= 1 /\ Len(bs) <= MaxEnqueued /\ Len(bs) \in Nat
        /\ Size(Last(bs)) <= MaxBatchSize
        /\ promised[q] \in Nat /\ promised[q] <= Spare(bs)
    BY <1>2, <1>3, LenProperties DEF IInv, TypeOK, Promises
  <1>5. PICK two : two = IF Len(bs) = 1 /\ IsOpenBatchSchedulable(bs, closed[q], due[q])
                           THEN StartNewBatch(bs) ELSE bs
    OBVIOUS
  <1>6. /\ broken' = broken /\ promised' = promised
        /\ \/ batches' = batches
           \/ Len(two) >= 2 /\ batches' = [batches EXCEPT ![q] = RemoveAt(two, 1)]
    BY <1>1, <1>3, <1>5 DEF ScheduleBatch, FrontBatch
  <1>7. CASE batches' = batches
    BY <1>6, <1>7 DEF Promises
  <1>8. CASE Len(two) >= 2 /\ batches' = [batches EXCEPT ![q] = RemoveAt(two, 1)]
    <2>1. PICK rest : rest = RemoveAt(two, 1)
      OBVIOUS
    <2>2. /\ Len(rest) <= MaxEnqueued /\ Size(Last(rest)) <= MaxBatchSize
          /\ Spare(rest) >= Spare(bs)
      <3>1. CASE two = bs
        BY <1>4, <1>8, <2>1, <3>1, RoomGiven
      <3>2. CASE two # bs
        <4>1. Len(bs) = 1 /\ two = StartNewBatch(bs)
          BY <1>5, <3>2
        <4> QED
          BY <1>4, <2>1, <4>1, RoomGiven
      <3> QED
        BY <3>1, <3>2
    <2>3. batches'[q] = rest /\ \A r \in Queues : r # q => batches'[r] = batches[r]
      BY <1>2, <1>8, <2>1 DEF IInv, TypeOK
    <2>4. promised[q] <= Spare(rest)
      <3>1. Spare(bs) \in Nat
        BY <1>4, SpareIsNat
      <3>2. Spare(rest) \in Int
        <4>1. two \in Seq(Seq(Tasks)) /\ Len(two) >= 2
          BY <1>4, <1>5, <1>8, StartNewBatchFacts
        <4>2. rest \in Seq(Seq(Tasks)) /\ Len(rest) >= 1
          BY <2>1, <4>1, FrontBatchFacts
        <4> QED
          BY <2>2, <4>2, SpareIsNat
      <3> QED
        BY <1>4, <2>2, <3>1, <3>2
    <2> QED
      BY <1>6, <2>2, <2>3, <2>4 DEF Promises
  <1> QED
    BY <1>6, <1>7, <1>8

(* The answer of SchedulingCapacity can be kept. *)
LEMMA AskPromises ==
  ASSUME LimitsFitInt, IInv, Promises, NEW q \in Queues, AskCapacity(q)
  PROVE  Promises'
  <1>1. PICK bs : bs = batches[q]
    OBVIOUS
  <1>2. /\ bs \in Seq(Seq(Tasks)) /\ Len(bs) >= 1 /\ Len(bs) <= MaxEnqueued
        /\ Size(Last(bs)) <= MaxBatchSize
    BY <1>1 DEF IInv, TypeOK, Promises
  <1>3. PICK p : p = SchedulingCapacity(bs)
    OBVIOUS
  <1>4. p \in Nat /\ p <= Spare(bs)
    <2>1. PICK x \in Nat : x = Spare(bs)
      BY <1>2, SpareIsNat
    <2>2. PICK n \in Nat, s \in Nat : n = Len(bs) /\ s = Size(Last(bs))
      BY <1>2, LastBatch
    <2>3. /\ MaxEnqueued - n \in Nat /\ MaxEnqueued - n < 2^(IntBits - 1)
          /\ MaxBatchSize - s \in Nat /\ MaxBatchSize - s < 2^(IntBits - 1)
      BY <1>2, <2>2, BatchAssumption DEF LimitsFitInt
    <2>4. /\ ToInt((MaxEnqueued - n) % 2^SizeBits) = MaxEnqueued - n
          /\ ToInt((MaxBatchSize - s) % 2^SizeBits) = MaxBatchSize - s
      BY <2>3, FitsInt
    <2>5. p = ((MaxEnqueued - n) * MaxBatchSize + (MaxBatchSize - s)) % 2^SizeBits
      BY <1>3, <2>2, <2>4 DEF SchedulingCapacity
    <2>6. x = (MaxEnqueued - n) * MaxBatchSize + (MaxBatchSize - s)
      <3>1. PICK e \in Int : e = (MaxEnqueued - n) * MaxBatchSize
        BY <2>3, Multiples
      <3> QED
        BY <2>1, <2>2, <3>1, BatchAssumption DEF Spare
    <2>7. p = x % 2^SizeBits
      BY <2>5, <2>6
    <2> QED
      BY <2>1, <2>7, Remainders
  <1>5. promised' = [promised EXCEPT ![q] = p] /\ batches' = batches /\ broken' = broken
    BY <1>1, <1>3 DEF AskCapacity, queueVars
  <1> QED
    BY <1>1, <1>4, <1>5 DEF Promises

(* SchedulingCapacity is "a guaranteed number of size 1 tasks that can be    *)
(* Schedule()d without getting an UNAVAILABLE error", whatever the batch     *)
(* threads do meanwhile and even if the sum wraps, for every two limits that *)
(* an int can hold.                                                          *)
THEOREM CapacityIsKept == Spec => []CapacityKept
  <1>0. CASE ~LimitsFitInt
    <2>1. CapacityKept
      BY <1>0 DEF CapacityKept
    <2> QED
      BY <2>1, PTL
  <1> SUFFICES ASSUME LimitsFitInt PROVE Spec => []CapacityKept
    BY <1>0
  <1>a. MaxEnqueued > 0
    BY BatchAssumption DEF LimitsFitInt
  <1>1. Init => Promises
    <2> SUFFICES ASSUME Init PROVE Promises
      OBVIOUS
    <2>1. PICK bs : bs = << <<>> >>
      OBVIOUS
    <2>2. Len(bs) = 1 /\ Last(bs) = <<>>
      BY <2>1 DEF Last
    <2>3. bs \in Seq(Seq(Tasks))
      <3>1. <<>> \in Seq(Tasks)
        BY EmptySeq
      <3> QED
        BY <2>1, <3>1
    <2>4. Size(Last(bs)) = 0
      BY <2>2, SizeFacts
    <2>5. Len(bs) >= 1 /\ Len(bs) <= MaxEnqueued /\ Size(Last(bs)) <= MaxBatchSize
      BY <1>a, <2>2, <2>4, BatchAssumption
    <2>6. Spare(bs) \in Nat
      BY <2>3, <2>5, SpareIsNat
    <2>7. /\ ~broken /\ \A q \in Queues : batches[q] = bs /\ promised[q] = 0
          /\ promised \in [Queues -> Nat]
      BY <2>1 DEF Init
    <2> QED
      BY <2>5, <2>6, <2>7 DEF Promises
  <1>2. IInv /\ Promises /\ [Next]_vars => Promises'
    <2> SUFFICES ASSUME IInv, Promises, [Next]_vars PROVE Promises'
      OBVIOUS
    <2>1. CASE \E k \in Tasks : Schedule(k)
      BY <2>1, SchedulePromises
    <2>2. CASE \E t \in Threads : ScheduleBatch(t)
      BY <2>2, ScheduleBatchPromises
    <2>3. CASE \E q \in Queues : AskCapacity(q)
      BY <2>3, AskPromises
    <2>4. CASE UNCHANGED <<batches, promised, broken>>
      BY <2>4 DEF Promises
    <2>5. \/ \E k \in Tasks : Schedule(k)
          \/ \E t \in Threads : ScheduleBatch(t)
          \/ \E q \in Queues : AskCapacity(q)
          \/ UNCHANGED <<batches, promised, broken>>
      BY DEF Next, vars, queueVars, NotifyScheduler, Clock, AddQueue, Close, Destroy, Thread,
             Start, AskClosed, Advance, WaitEnds, ProcessBatch, Finish, Exit
    <2> QED
      BY <2>1, <2>2, <2>3, <2>4, <2>5
  <1>3. Promises => CapacityKept
    BY DEF Promises, CapacityKept
  <1> QED
    BY <1>1, <1>2, <1>3, BatchInvariant, PTL DEF Spec

=================================================================================
