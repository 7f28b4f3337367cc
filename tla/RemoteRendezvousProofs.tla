------------------------ MODULE RemoteRendezvousProofs -------------------------
(***************************************************************************)
(* Proofs about RemoteRendezvous, for any number of steps, RecvAsyncs and  *)
(* aborts.                                                                 *)
(***************************************************************************)
EXTENDS RemoteRendezvous, FiniteSetTheorems, SequenceTheorems, TLAPS

Statuses == Aborters \cup {OK, Cancelled, Unavailable, Internal}
LocalPcs == {"start", "deferred", "internal", "valid", "waiting", "answered"}

TypeOK ==
  /\ status_ \in [Steps -> Aborters \cup {OK}]
  /\ local_status \in [Steps -> Aborters \cup {OK}]
  /\ active_ \in [Steps -> SUBSET Objects]
  /\ deferred_calls_ \in [Steps -> SUBSET Locals]
  /\ local_waiting \subseteq Locals \cup SameWorker
  /\ cm \in [Steps -> {"idle", "cancelling", "cancelled"}]
  /\ callbacks \in [Steps -> SUBSET Remotes]
  /\ \A s \in Steps : \A r \in callbacks[s] : StepOf[r] = s
  /\ free \in Seq(Objects)
  /\ allocated \in 0 .. Cardinality(Remotes)
  /\ pc \in [Recvs -> LocalPcs \cup Underway \cup {"inited", "finish"}]
  /\ call \in [Remotes -> Objects \cup {0}]
  /\ call_status \in [Objects -> Statuses]
  /\ cancel_func \in [Objects -> BOOLEAN]
  /\ try_cancelled \in [Objects -> BOOLEAN]
  /\ rpc_status \in [Objects -> {OK, Cancelled, Unavailable}]
  /\ answer \in [Recvs -> Statuses \cup {None}]

(* r holds its call: from New() to Release(). *)
Holds(r) == pc[r] \in Underway \cup {"inited", "finish"}

(* A call that was allocated is held by one RecvAsync or is on the free      *)
(* list, once.                                                               *)
Ownership ==
  /\ \A r \in Remotes : Holds(r) => call[r] \in 1 .. allocated
  /\ \A r, q \in Remotes : Holds(r) /\ Holds(q) /\ call[r] = call[q] => r = q
  /\ \A i \in 1 .. Len(free) : free[i] \in 1 .. allocated
  /\ \A i \in 1 .. Len(free) : \A r \in Remotes : Holds(r) => call[r] # free[i]
  /\ \A i, j \in 1 .. Len(free) : free[i] = free[j] => i = j
  /\ \A o \in 1 .. allocated :
       \/ \E r \in Remotes : Holds(r) /\ call[r] = o
       \/ \E i \in 1 .. Len(free) : free[i] = o

(* An RPC that was cancelled is one of a call that carries an error.         *)
CancelMarks ==
  \A r \in Remotes :
    /\ pc[r] \in {"rpc", "completed", "failing"} /\ try_cancelled[call[r]] =>
         call_status[call[r]] # OK
    /\ pc[r] \in {"completed", "failing"} /\ rpc_status[call[r]] = Cancelled =>
         try_cancelled[call[r]]

(* No step but s has been cancelled. *)
Others(s) == \A t \in Steps : cm[t] # "idle" => t = s

(* As long as nobody has cancelled, active_ and the callbacks of a step are  *)
(* those of its calls under way, and no other call carries an error.         *)
BeforeCancel ==
  (\A s \in Steps : cm[s] = "idle") =>
    /\ \A s \in Steps : \A o \in active_[s] : \E r \in callbacks[s] : call[r] = o
    /\ \A s \in Steps : \A r \in callbacks[s] : call[r] \in active_[s] /\ pc[r] \in Underway
    /\ \A o \in Objects : call_status[o] # OK =>
         \E r \in Remotes : call[r] = o /\ pc[r] \in Underway \cup {"finish"}

(* A callback of the only step that has been cancelled, or may be the next,  *)
(* finds its call in active_ only as long as its RecvAsync holds it, and the *)
(* call is in nobody else's active_.                                         *)
CallbacksOwn ==
  \A s \in Steps : Others(s) =>
    \A r \in callbacks[s] : call[r] \in active_[s] =>
      /\ pc[r] \in Underway
      /\ pc[r] = "registered" => call_status[call[r]] = OK
      /\ \A t \in Steps : call[r] \in active_[t] => t = s

(* A call that carries Cancelled is held by a RecvAsync of the step that was *)
(* cancelled.                                                                *)
CancelledOwn ==
  OneCancelled =>
    \A o \in Objects : call_status[o] = Cancelled =>
      \E r \in Remotes :
        /\ call[r] = o /\ pc[r] \in Underway \cup {"finish"}
        /\ cm[StepOf[r]] # "idle"

(* A callback is of a RecvAsync that has called RegisterCall. *)
CallbacksBegun ==
  \A s \in Steps : \A r \in callbacks[s] : pc[r] \in Underway \cup {"finish", "answered"}

CInv == CallbacksBegun /\ BeforeCancel /\ CallbacksOwn /\ CancelledOwn /\ CancelIsLocal
IInv == TypeOK /\ Ownership /\ CancelMarks /\ AbortLeavesMark

--------------------------------------------------------------------------------
(* What is left of a list when its last element is taken off. *)
LEMMA PopBackFacts ==
  ASSUME NEW S, NEW s \in Seq(S), s # <<>>
  PROVE  /\ Last(s) \in S /\ Last(s) = s[Len(s)]
         /\ PopBack(s) \in Seq(S)
         /\ Len(PopBack(s)) = Len(s) - 1
         /\ \A i \in 1 .. Len(s) - 1 : PopBack(s)[i] = s[i]
  <1>1. Len(s) \in Nat /\ Len(s) > 0 /\ \A i \in 1 .. Len(s) : s[i] \in S
    BY EmptySeq, LenProperties, ElementOfSeq
  <1>2. PICK n \in Nat : n = Len(s) - 1
    BY <1>1
  <1>3. \A i \in 1 .. n : s[i] \in S
    BY <1>1, <1>2
  <1>4. /\ SubSeq(s, 1, n) \in Seq(S)
        /\ Len(SubSeq(s, 1, n)) = n
        /\ \A i \in 1 .. n : SubSeq(s, 1, n)[i] = s[i]
    BY <1>2, <1>3
  <1> QED
    BY <1>1, <1>2, <1>4 DEF PopBack, Front, Last

(* The calls allocated are numbers of Objects. *)
LEMMA ObjectFacts ==
  ASSUME TypeOK, Ownership
  PROVE  /\ Cardinality(Remotes) \in Nat /\ allocated \in Nat
         /\ 1 .. allocated \subseteq Objects
         /\ \A r \in Remotes : Holds(r) => call[r] \in Objects
  <1>1. Cardinality(Remotes) \in Nat
    BY RemoteAssumption, FS_CardinalityType
  <1>2. allocated \in Nat /\ allocated <= Cardinality(Remotes)
    BY <1>1 DEF TypeOK
  <1>3. 1 .. allocated \subseteq Objects
    BY <1>1, <1>2 DEF Objects
  <1> QED
    BY <1>1, <1>2, <1>3 DEF Ownership

(* New() allocates a call only when every call is held, and a RecvAsync      *)
(* holds one at most: there are never more calls than RecvAsyncs.            *)
LEMMA AllocationBound ==
  ASSUME TypeOK, Ownership, NEW r \in Remotes, ~Holds(r), free = <<>>
  PROVE  allocated + 1 \in Objects
  <1> DEFINE H == {q \in Remotes : Holds(q)}
             f == [q \in H |-> call[q]]
  <1>1. allocated \in Nat /\ Cardinality(Remotes) \in Nat
    BY ObjectFacts
  <1>2. f \in [H -> 1 .. allocated]
    BY DEF Ownership
  <1>3. \A o \in 1 .. allocated : \E q \in H : f[q] = o
    BY DEF Ownership
  <1>4. f \in Surjection(H, 1 .. allocated)
    BY <1>2, <1>3 DEF Surjection
  <1>5. IsFiniteSet(H) /\ IsFiniteSet(Remotes)
    BY RemoteAssumption, FS_Subset
  <1>6. Cardinality(1 .. allocated) <= Cardinality(H)
    <2> HIDE DEF f, H
    <2> QED
      BY <1>4, <1>5, FS_Surjection
  <1>7. Cardinality(1 .. allocated) = allocated
    <2>1. 1 \in Int /\ allocated \in Int
      BY <1>1
    <2>2. Cardinality(1 .. allocated) = IF 1 > allocated THEN 0 ELSE allocated - 1 + 1
      BY <2>1, FS_Interval
    <2> QED
      BY <1>1, <2>2
  <1>8. Cardinality(H) < Cardinality(Remotes)
    <2>1. H \in SUBSET Remotes /\ H # Remotes
      OBVIOUS
    <2>2. Cardinality(H) \in Nat
      BY <1>5, FS_CardinalityType
    <2> HIDE DEF H
    <2>3. Cardinality(H) <= Cardinality(Remotes) /\ Cardinality(Remotes) # Cardinality(H)
      BY <1>5, <2>1, FS_Subset
    <2> QED
      BY <1>1, <2>2, <2>3
  <1>9. Cardinality(H) \in Nat
    BY <1>5, FS_CardinalityType
  <1> HIDE DEF H
  <1> QED
    BY <1>1, <1>6, <1>7, <1>8, <1>9 DEF Objects

--------------------------------------------------------------------------------
(* Nothing is allocated, registered or cancelled in the initial state. *)
LEMMA InitIInv == Init => IInv /\ CInv
  <1> SUFFICES ASSUME Init PROVE IInv /\ CInv
    OBVIOUS
  <1>1. TypeOK
    <2>1. Cardinality(Remotes) \in Nat
      BY RemoteAssumption, FS_CardinalityType
    <2>2. free \in Seq(Objects) /\ allocated \in 0 .. Cardinality(Remotes)
      BY <2>1 DEF Init
    <2> QED
      BY <2>2 DEF Init, TypeOK, LocalPcs, Statuses
  <1>2. Ownership
    BY DEF Init, Ownership, Holds, Recvs, Underway
  <1>3. CancelMarks /\ AbortLeavesMark
    BY DEF Init, CancelMarks, AbortLeavesMark, Recvs, Underway
  <1>4. CallbacksBegun /\ BeforeCancel /\ CallbacksOwn
    BY DEF Init, CallbacksBegun, BeforeCancel, CallbacksOwn
  <1>5. CancelledOwn /\ CancelIsLocal
    BY RemoteAssumption DEF Init, CancelledOwn, CancelIsLocal
  <1> QED
    BY <1>1, <1>2, <1>3, <1>4, <1>5 DEF IInv, CInv

(* Every step keeps the types; that a new call is one of Objects is what     *)
(* Ownership is needed for.                                                  *)
LEMMA TypeStep ==
  ASSUME TypeOK, Ownership, [Next]_vars
  PROVE  TypeOK'
  <1> USE RemoteAssumption DEF TypeOK, object_vars, local_vars, step_vars, cm_vars, list_vars
  <1>0. \A r \in Remotes : Holds(r) => call[r] \in Objects
    BY ObjectFacts
  <1>1. ASSUME NEW s \in Steps, Initialize(s) PROVE TypeOK'
    BY <1>1 DEF Initialize, LocalPcs
  <1>2. ASSUME NEW s \in Steps, StartCancel(s) \/ CancelEnds(s) PROVE TypeOK'
    BY <1>2 DEF StartCancel, CancelEnds
  <1>3. ASSUME NEW s \in Steps, CancelCallback(s) PROVE TypeOK'
    BY <1>3 DEF CancelCallback, AbortCalls, Statuses
  <1>4. ASSUME NEW r \in Recvs, RecvAsync(r) \/ RecvLocalAsyncInternal(r) PROVE TypeOK'
    BY <1>4 DEF RecvAsync, RecvLocalAsyncInternal, ValidateDevices, Done, Goto, LocalPcs,
                Statuses, Recvs
  <1>5. ASSUME NEW r \in Recvs, RecvLocalAsync(r) PROVE TypeOK'
    BY <1>5 DEF RecvLocalAsync, Goto, LocalPcs, Recvs
  <1>6. ASSUME NEW r \in Locals \cup SameWorker, LocalRecv(r) PROVE TypeOK'
    BY <1>6 DEF LocalRecv, Done, Goto, LocalPcs, Statuses, Recvs
  <1>7. ASSUME NEW r \in Locals \cup SameWorker, SendChecks(r) PROVE TypeOK'
    BY <1>7 DEF SendChecks
  <1>8. ASSUME NEW r \in Locals \cup SameWorker, LocalSend(r) PROVE TypeOK'
    BY <1>8 DEF LocalSend, Done, Goto, LocalPcs, Statuses, Recvs
  <1>9. ASSUME NEW a \in Aborters, AbortLocal(a) PROVE TypeOK'
    BY <1>9 DEF AbortLocal, LocalRemembers, LocalPcs, Statuses, Recvs
  <1>10. ASSUME NEW a \in Aborters, AbortActive(a) PROVE TypeOK'
    <2>0. StepOf[a] \in Steps
      OBVIOUS
    <2>1. /\ status_' \in [Steps -> Aborters \cup {OK}]
          /\ active_' \in [Steps -> SUBSET Objects]
      BY <1>10, <2>0 DEF AbortActive
    <2>4. /\ callbacks' \in [Steps -> SUBSET Remotes]
          /\ \A s \in Steps : \A q \in callbacks'[s] : StepOf[q] = s
      <3>1. CASE callbacks' = callbacks
        BY <3>1
      <3>2. CASE TryDeregister(StepOf[a], {r \in Remotes : call[r] \in active_[StepOf[a]]})
        BY <2>0, <3>2 DEF TryDeregister
      <3> QED
        BY <1>10, <3>1, <3>2 DEF AbortActive
    <2>2. call_status' \in [Objects -> Statuses] /\ try_cancelled' \in [Objects -> BOOLEAN]
      <3>1. CASE UNCHANGED object_vars
        BY <3>1
      <3>2. CASE AbortCalls(active_[StepOf[a]], a)
        BY <3>2 DEF AbortCalls, Statuses
      <3> QED
        BY <1>10, <3>1, <3>2 DEF AbortActive
    <2>3. /\ UNCHANGED <<deferred_calls_, local_vars, cm, list_vars, pc, answer>>
          /\ UNCHANGED <<cancel_func, rpc_status>>
      BY <1>10 DEF AbortActive, AbortCalls
    <2> QED
      BY <2>1, <2>2, <2>3, <2>4
  <1>11. ASSUME NEW r \in Remotes, RemoteStep(r) \/ RpcEnds(r, OK) \/ RpcEnds(r, Unavailable)
         PROVE  TypeOK'
    <2>1. CASE NewCall(r)
      <3>1. ~Holds(r)
        BY <2>1 DEF NewCall, Holds, Underway
      <3>4. pc' \in [Recvs -> LocalPcs \cup Underway \cup {"inited", "finish"}]
        BY <2>1 DEF NewCall, Done, Goto, LocalPcs, Recvs
      <3>5. answer' \in [Recvs -> Statuses \cup {None}]
        BY <2>1 DEF NewCall, Done, Statuses, Recvs
      <3>6. UNCHANGED <<step_vars, local_vars, cm_vars, object_vars>>
        BY <2>1 DEF NewCall
      <3>2. CASE free = <<>>
        <4>1. allocated + 1 \in Objects /\ allocated + 1 \in 0 .. Cardinality(Remotes)
          BY <3>1, <3>2, AllocationBound, ObjectFacts DEF Objects
        <4>2. allocated' = allocated + 1 /\ free' \in Seq(Objects)
          <5>1. free' = free \/ free' = Append(free, allocated + 1)
            BY <2>1, <3>2 DEF NewCall
          <5>2. Append(free, allocated + 1) \in Seq(Objects)
            BY <4>1, AppendProperties
          <5> QED
            BY <2>1, <3>2, <5>1, <5>2 DEF NewCall
        <4>3. call' \in [Remotes -> Objects \cup {0}]
          BY <2>1, <3>2, <4>1 DEF NewCall
        <4> QED
          BY <4>1, <4>2, <4>3, <3>4, <3>5, <3>6
      <3>3. CASE free # <<>>
        <4>1. Last(free) \in Objects /\ PopBack(free) \in Seq(Objects)
          BY <3>3, PopBackFacts
        <4>2. allocated' = allocated /\ free' \in Seq(Objects)
          <5>1. free' = PopBack(free) \/ free' = Append(PopBack(free), Last(free))
            BY <2>1, <3>3 DEF NewCall
          <5>2. Append(PopBack(free), Last(free)) \in Seq(Objects)
            BY <4>1, AppendProperties
          <5> QED
            BY <2>1, <3>3, <4>1, <5>1, <5>2 DEF NewCall
        <4>3. call' \in [Remotes -> Objects \cup {0}]
          BY <2>1, <3>3, <4>1 DEF NewCall
        <4> QED
          BY <4>2, <4>3, <3>4, <3>5, <3>6
      <3> QED
        BY <3>2, <3>3
    <2>2. CASE RegisterCall(r)
      <3>1. call[r] \in Objects
        BY <1>0, <2>2 DEF RegisterCall, Holds, Underway
      <3>2. /\ callbacks' \in [Steps -> SUBSET Remotes]
            /\ active_' \in [Steps -> SUBSET Objects]
            /\ \A s \in Steps : \A q \in callbacks'[s] : StepOf[q] = s
        BY <2>2, <3>1 DEF RegisterCall, AbortCalls, Recvs
      <3>3. call_status' \in [Objects -> Statuses] /\ try_cancelled' \in [Objects -> BOOLEAN]
        <4>1. CASE UNCHANGED object_vars
          BY <4>1
        <4>2. CASE \E x \in Statuses : AbortCalls({call[r]}, x)
          BY <4>2 DEF AbortCalls
        <4> QED
          BY <2>2, <4>1, <4>2 DEF RegisterCall, Statuses, Recvs
      <3> QED
        BY <2>2, <3>2, <3>3 DEF RegisterCall, AbortCalls, Goto, Underway, Recvs
    <2>3. CASE CheckStatus(r) \/ Finish(r)
      <3>1. call[r] \in Objects
        BY <1>0, <2>3 DEF CheckStatus, Finish, Holds, Underway
      <3>2. call_status[call[r]] \in Statuses
        BY <3>1
      <3>3. free' \in Seq(Objects) /\ call_status' \in [Objects -> Statuses]
        <4>1. Append(free, call[r]) \in Seq(Objects)
          BY <3>1, AppendProperties
        <4>2. [call_status EXCEPT ![call[r]] = OK] \in [Objects -> Statuses]
          BY DEF Statuses
        <4> QED
          BY <2>3, <4>1, <4>2 DEF CheckStatus, Finish, Release
      <3>4. pc' \in [Recvs -> LocalPcs \cup Underway \cup {"inited", "finish"}]
        BY <2>3 DEF CheckStatus, Finish, Done, Goto, Underway, LocalPcs, Recvs
      <3>5. answer' \in [Recvs -> Statuses \cup {None}]
        BY <2>3, <3>2 DEF CheckStatus, Finish, Done, Recvs
      <3>6. UNCHANGED <<step_vars, local_vars, cm_vars, allocated, call, cancel_func,
                        try_cancelled, rpc_status>>
        BY <2>3 DEF CheckStatus, Finish, Release
      <3> QED
        BY <3>3, <3>4, <3>5, <3>6
    <2>4. CASE StartCall(r)
      <3>1. pc' \in [Recvs -> LocalPcs \cup Underway \cup {"inited", "finish"}]
        BY <2>4 DEF StartCall, Goto, Underway, Recvs
      <3>2. cancel_func' \in [Objects -> BOOLEAN] /\ try_cancelled' \in [Objects -> BOOLEAN]
        BY <2>4 DEF StartCall
      <3>3. UNCHANGED <<step_vars, local_vars, cm_vars, list_vars, call_status, rpc_status, answer>>
        BY <2>4 DEF StartCall
      <3> QED
        BY <3>1, <3>2, <3>3
    <2>5. ASSUME NEW s \in {OK, Cancelled, Unavailable}, RpcEnds(r, s) PROVE TypeOK'
      <3>1. pc' \in [Recvs -> LocalPcs \cup Underway \cup {"inited", "finish"}]
        BY <2>5 DEF RpcEnds, Goto, Underway, Recvs
      <3>2. rpc_status' \in [Objects -> {OK, Cancelled, Unavailable}]
        BY <2>5 DEF RpcEnds
      <3>3. UNCHANGED <<step_vars, local_vars, cm_vars, list_vars, call_status, cancel_func,
                        try_cancelled, answer>>
        BY <2>5 DEF RpcEnds
      <3> QED
        BY <3>1, <3>2, <3>3
    <2>6. CASE OnCompleted(r)
      BY <2>6 DEF OnCompleted, Goto, Underway, Recvs
    <2>7. CASE UpdateStatus(r)
      <3>1. call[r] \in Objects
        BY <1>0, <2>7 DEF UpdateStatus, Holds, Underway
      <3> QED
        BY <2>7, <3>1 DEF UpdateStatus, Goto, Underway, Statuses, Recvs
    <2>8. CASE DeregisterCall(r)
      BY <2>8 DEF DeregisterCall, TryDeregister, Goto, Underway, Recvs
    <2> QED
      BY <1>11, <2>1, <2>2, <2>3, <2>4, <2>5, <2>6, <2>7, <2>8 DEF RemoteStep
  <1>12. CASE UNCHANGED vars
    BY <1>12 DEF vars
  <1> QED
    BY <1>1, <1>2, <1>3, <1>4, <1>5, <1>6, <1>7, <1>8, <1>9, <1>10, <1>11, <1>12
       DEF Next, LocalStep, Recvs

--------------------------------------------------------------------------------
(* A step in which no RecvAsync takes or releases a call. *)
LEMMA NoTransfer ==
  ASSUME Ownership, UNCHANGED list_vars, \A r \in Remotes : Holds(r)' <=> Holds(r)
  PROVE  Ownership'
  BY DEF Ownership, list_vars

(* New() hands out a call that nobody holds. *)
LEMMA NewCallKeepsOwnership ==
  ASSUME TypeOK, Ownership, NEW r \in Remotes, NewCall(r)
  PROVE  Ownership'
  <1>1. ~Holds(r) /\ (\A q \in Remotes : q # r => (Holds(q)' <=> Holds(q)))
    BY DEF NewCall, Goto, Done, Holds, Underway, TypeOK, Recvs
  <1>2. allocated \in Nat /\ Len(free) \in Nat
    BY ObjectFacts, LenProperties DEF TypeOK
  <1>3. CASE free = <<>>
    <2>1. allocated' = allocated + 1 /\ Len(free) = 0
      BY <1>3 DEF NewCall
    <2>2. \A o \in 1 .. allocated : \E q \in Remotes : Holds(q) /\ call[q] = o
      BY <2>1 DEF Ownership
    <2>3. CASE pc' = [pc EXCEPT ![r] = "inited"] /\ free' = free
               /\ call' = [call EXCEPT ![r] = allocated + 1]
      <3>1. Holds(r)' /\ call'[r] = allocated + 1 /\ \A q \in Remotes : q # r => call'[q] = call[q]
        BY <2>3 DEF Holds, TypeOK, Recvs
      <3>2. \A q \in Remotes : Holds(q)' => call'[q] \in 1 .. allocated'
        BY <1>1, <1>2, <2>1, <3>1 DEF Ownership
      <3>3. \A p, q \in Remotes : Holds(p)' /\ Holds(q)' /\ call'[p] = call'[q] => p = q
        BY <1>1, <1>2, <3>1 DEF Ownership
      <3>4. \A o \in 1 .. allocated' : \E q \in Remotes : Holds(q)' /\ call'[q] = o
        <4>1. \A o \in 1 .. allocated' : o \in 1 .. allocated \/ o = allocated + 1
          BY <1>2, <2>1
        <4>2. \A o \in 1 .. allocated : \E q \in Remotes : Holds(q)' /\ call'[q] = o
          BY <1>1, <2>2, <3>1
        <4> QED
          BY <3>1, <4>1, <4>2
      <3>5. Len(free') = 0
        BY <2>1, <2>3
      <3> QED
        BY <3>2, <3>3, <3>4, <3>5 DEF Ownership
    <2>4. CASE pc' = [pc EXCEPT ![r] = "answered"] /\ free' = Append(free, allocated + 1)
               /\ call' = call
      <3>1. \A q \in Remotes : Holds(q)' <=> Holds(q)
        BY <1>1, <2>4 DEF Holds, Underway, TypeOK, Recvs
      <3>2. Len(free') = 1 /\ free'[1] = allocated + 1
        BY <1>3, <2>4
      <3>3. \A i \in 1 .. Len(free') : i = 1
        BY <3>2
      <3>4. \A q \in Remotes : Holds(q)' => call'[q] \in 1 .. allocated /\ call'[q] # allocated + 1
        BY <1>2, <2>4, <3>1 DEF Ownership
      <3>5. \A o \in 1 .. allocated' : (\E q \in Remotes : Holds(q)' /\ call'[q] = o) \/ o = free'[1]
        <4>1. \A o \in 1 .. allocated' : o \in 1 .. allocated \/ o = allocated + 1
          BY <1>2, <2>1
        <4> QED
          BY <2>2, <2>4, <3>1, <3>2, <4>1
      <3>6. allocated + 1 \in 1 .. allocated' /\ 1 .. allocated \subseteq 1 .. allocated' /\ 1 \in 1 .. Len(free')
        BY <1>2, <2>1, <3>2
      <3>7. \A p, q \in Remotes : Holds(p)' /\ Holds(q)' /\ call'[p] = call'[q] => p = q
        BY <2>4, <3>1 DEF Ownership
      <3> QED
        BY <3>2, <3>3, <3>4, <3>5, <3>6, <3>7 DEF Ownership
    <2> QED
      BY <1>3, <2>3, <2>4 DEF NewCall, Goto, Done
  <1>4. CASE free # <<>>
    <2>1. allocated' = allocated
      BY <1>4 DEF NewCall
    <2> DEFINE n == Len(free)
               rest == PopBack(free)
    <2>2. /\ n \in Nat /\ n > 0 /\ Last(free) = free[n]
          /\ rest \in Seq(Objects) /\ Len(rest) = n - 1
          /\ \A i \in 1 .. n - 1 : rest[i] = free[i]
      <3>1. free \in Seq(Objects)
        BY DEF TypeOK
      <3>2. n > 0
        BY <1>2, <1>4, <3>1, EmptySeq
      <3> QED
        BY <1>2, <1>4, <3>1, <3>2, PopBackFacts
    <2>3. CASE pc' = [pc EXCEPT ![r] = "inited"] /\ free' = rest
               /\ call' = [call EXCEPT ![r] = free[n]]
      <3>1. Holds(r)' /\ call'[r] = free[n] /\ \A q \in Remotes : q # r => call'[q] = call[q]
        BY <2>3 DEF Holds, TypeOK, Recvs
      <3>2. n \in 1 .. n /\ (\A i \in 1 .. Len(free') : i \in 1 .. n /\ i # n /\ free'[i] = free[i])
        BY <2>2, <2>3
      <3>3. \A i \in 1 .. n : i = n \/ (i \in 1 .. Len(free') /\ free'[i] = free[i])
        BY <2>2, <2>3
      <3> HIDE DEF n, rest
      <3>4. \A q \in Remotes : Holds(q)' => call'[q] \in 1 .. allocated'
        BY <1>1, <2>1, <3>1, <3>2 DEF Ownership, n
      <3>5. \A p, q \in Remotes : Holds(p)' /\ Holds(q)' /\ call'[p] = call'[q] => p = q
        BY <1>1, <3>1, <3>2 DEF Ownership, n
      <3>6. \A i \in 1 .. Len(free') : /\ free'[i] \in 1 .. allocated'
                                      /\ \A q \in Remotes : Holds(q)' => call'[q] # free'[i]
        BY <1>1, <2>1, <3>1, <3>2 DEF Ownership, n
      <3>7. \A i, j \in 1 .. Len(free') : free'[i] = free'[j] => i = j
        BY <3>2 DEF Ownership, n
      <3>8. \A o \in 1 .. allocated' : \/ \E q \in Remotes : Holds(q)' /\ call'[q] = o
                                       \/ \E i \in 1 .. Len(free') : free'[i] = o
        <4> SUFFICES ASSUME NEW o \in 1 .. allocated
                     PROVE  \/ \E q \in Remotes : Holds(q)' /\ call'[q] = o
                            \/ \E i \in 1 .. Len(free') : free'[i] = o
          BY <2>1
        <4>1. CASE \E q \in Remotes : Holds(q) /\ call[q] = o
          BY <1>1, <3>1, <4>1
        <4>2. CASE \E i \in 1 .. n : free[i] = o
          BY <3>1, <3>3, <4>2
        <4> QED
          BY <4>1, <4>2 DEF Ownership, n
      <3> QED
        BY <3>4, <3>5, <3>6, <3>7, <3>8 DEF Ownership
    <2>4. CASE pc' = [pc EXCEPT ![r] = "answered"] /\ free' = Append(rest, free[n]) /\ call' = call
      <3>1. \A q \in Remotes : Holds(q)' <=> Holds(q)
        BY <1>1, <2>4 DEF Holds, Underway, TypeOK, Recvs
      <3>2. Len(free') = n /\ \A i \in 1 .. n : free'[i] = free[i]
        <4>1. free[n] \in Objects
          BY <2>2, ElementOfSeq DEF TypeOK
        <4>2. /\ Len(Append(rest, free[n])) = (n - 1) + 1
              /\ \A i \in 1 .. n - 1 : Append(rest, free[n])[i] = rest[i]
              /\ Append(rest, free[n])[(n - 1) + 1] = free[n]
          BY <2>2, <4>1, AppendProperties
        <4> QED
          BY <2>2, <2>4, <4>2
      <3>3. /\ \A i \in 1 .. Len(free') : i \in 1 .. Len(free) /\ free'[i] = free[i]
            /\ \A i \in 1 .. Len(free) : i \in 1 .. Len(free') /\ free'[i] = free[i]
        BY <3>2
      <3>4. call' = call
        BY <2>4
      <3> HIDE DEF n, rest
      <3>5. /\ \A i \in 1 .. Len(free') : /\ free'[i] \in 1 .. allocated'
                                         /\ \A q \in Remotes : Holds(q)' => call'[q] # free'[i]
            /\ \A i, j \in 1 .. Len(free') : free'[i] = free'[j] => i = j
        BY <2>1, <3>1, <3>3, <3>4 DEF Ownership
      <3>6. \A o \in 1 .. allocated' : \/ \E q \in Remotes : Holds(q)' /\ call'[q] = o
                                       \/ \E i \in 1 .. Len(free') : free'[i] = o
        BY <2>1, <3>1, <3>3, <3>4 DEF Ownership
      <3> QED
        BY <2>1, <3>1, <3>4, <3>5, <3>6 DEF Ownership
    <2> QED
      BY <1>4, <2>2, <2>3, <2>4 DEF NewCall, Goto, Done
  <1> QED
    BY <1>3, <1>4

(* Release() puts the call on the free list, where it is not. *)
LEMMA ReleaseKeepsOwnership ==
  ASSUME TypeOK, Ownership, NEW r \in Remotes, Holds(r), Release(r), Goto(r, "answered")
  PROVE  Ownership'
  <1>1. /\ allocated' = allocated /\ call' = call /\ free' = Append(free, call[r])
    BY DEF Release
  <1>2. \A q \in Remotes : Holds(q)' <=> Holds(q) /\ q # r
    BY DEF Goto, Holds, Underway, TypeOK, Recvs
  <1>3. free \in Seq(Objects) /\ call[r] \in Objects /\ Len(free) \in Nat
    BY ObjectFacts, LenProperties DEF TypeOK
  <1>4. /\ Len(free') = Len(free) + 1 /\ free'[Len(free) + 1] = call[r]
        /\ \A i \in 1 .. Len(free) : free'[i] = free[i]
    BY <1>1, <1>3, AppendProperties
  <1>5. /\ \A i \in 1 .. Len(free') : i \in 1 .. Len(free) \/ i = Len(free) + 1
        /\ 1 .. Len(free) \subseteq 1 .. Len(free') /\ Len(free) + 1 \in 1 .. Len(free')
    BY <1>3, <1>4
  <1>6. \A i \in 1 .. Len(free) : free[i] # call[r]
    BY DEF Ownership
  <1>7. \A q \in Remotes : Holds(q)' => call'[q] \in 1 .. allocated' /\ call'[q] # call[r]
    BY <1>1, <1>2 DEF Ownership
  <1>8. \A p, q \in Remotes : Holds(p)' /\ Holds(q)' /\ call'[p] = call'[q] => p = q
    BY <1>1, <1>2 DEF Ownership
  <1>9. \A i \in 1 .. Len(free') : /\ free'[i] \in 1 .. allocated'
                                  /\ \A q \in Remotes : Holds(q)' => call'[q] # free'[i]
    BY <1>1, <1>2, <1>4, <1>5, <1>7 DEF Ownership
  <1>10. \A i, j \in 1 .. Len(free') : free'[i] = free'[j] => i = j
    BY <1>4, <1>5, <1>6 DEF Ownership
  <1>11. \A o \in 1 .. allocated' : \/ \E q \in Remotes : Holds(q)' /\ call'[q] = o
                                    \/ \E i \in 1 .. Len(free') : free'[i] = o
    <2> SUFFICES ASSUME NEW o \in 1 .. allocated
                 PROVE  \/ \E q \in Remotes : Holds(q)' /\ call'[q] = o
                        \/ \E i \in 1 .. Len(free') : free'[i] = o
      BY <1>1
    <2>1. ASSUME NEW q \in Remotes, Holds(q), call[q] = o, q # r
          PROVE  \E p \in Remotes : Holds(p)' /\ call'[p] = o
      BY <1>1, <1>2, <2>1
    <2>2. CASE call[r] = o
      BY <1>4, <1>5, <2>2
    <2>3. CASE \E i \in 1 .. Len(free) : free[i] = o
      BY <1>4, <1>5, <2>3
    <2> QED
      BY <2>1, <2>2, <2>3 DEF Ownership
  <1> QED
    BY <1>7, <1>8, <1>9, <1>10, <1>11 DEF Ownership

--------------------------------------------------------------------------------
(* A step that has nothing to do with calls to other workers. *)
Quiet ==
  /\ UNCHANGED <<active_, cm_vars, list_vars, object_vars>>
  /\ \A r \in Remotes : \/ pc'[r] = pc[r]
                        \/ pc[r] \in LocalPcs \ {"answered"} /\ pc'[r] \in LocalPcs
  /\ \A r \in Recvs : answer'[r] = answer[r] \/ answer'[r] # Cancelled

(* The steps of a RecvAsync that holds its call, those that take and release *)
(* it apart. *)
Moves(r) ==
  \/ RegisterCall(r) \/ StartCall(r) \/ (\E s \in {OK, Cancelled, Unavailable} : RpcEnds(r, s))
  \/ OnCompleted(r) \/ UpdateStatus(r) \/ DeregisterCall(r)
  \/ (CheckStatus(r) /\ call_status[call[r]] = OK)

Releases(r) ==
  /\ pc[r] \in {"registered", "finish"}
  /\ pc[r] = "registered" => call_status[call[r]] # OK
  /\ Done(r, call_status[call[r]])
  /\ Release(r)
  /\ UNCHANGED <<step_vars, local_vars, abort_pc, cm_vars>>

(* What a step may be. *)
LEMMA StepKinds ==
  ASSUME TypeOK, [Next]_vars
  PROVE  \/ Quiet
         \/ \E s \in Steps : StartCancel(s) \/ CancelEnds(s) \/ CancelCallback(s)
         \/ \E a \in Aborters : AbortActive(a)
         \/ \E r \in Remotes : NewCall(r) \/ Moves(r) \/ Releases(r)
  <1> USE RemoteAssumption DEF TypeOK, step_vars, cm_vars, list_vars, object_vars
  <1>1. ASSUME NEW s \in Steps, Initialize(s) PROVE Quiet
    BY <1>1 DEF Initialize, Quiet, Recvs
  <1>2. ASSUME NEW r \in Recvs, RecvAsync(r) \/ RecvLocalAsyncInternal(r) PROVE Quiet
    <2>1. UNCHANGED <<step_vars, cm_vars, list_vars, object_vars>>
      BY <1>2 DEF RecvAsync, RecvLocalAsyncInternal, ValidateDevices
    <2>2. pc[r] \in {"start", "internal"} /\ \E x \in {"valid", "answered"} : pc' = [pc EXCEPT ![r] = x]
      BY <1>2 DEF RecvAsync, RecvLocalAsyncInternal, ValidateDevices, Done, Goto
    <2>3. \A q \in Recvs : answer'[q] = answer[q] \/ answer'[q] # Cancelled
      BY <1>2 DEF RecvAsync, RecvLocalAsyncInternal, ValidateDevices, Done
    <2> QED
      BY <2>1, <2>2, <2>3 DEF Quiet, LocalPcs, Recvs
  <1>3. ASSUME NEW r \in Recvs, RecvLocalAsync(r) PROVE Quiet
    BY <1>3 DEF RecvLocalAsync, Goto, Quiet, Recvs
  <1>4. ASSUME NEW r \in Locals \cup SameWorker, LocalRecv(r) PROVE Quiet
    BY <1>4 DEF LocalRecv, Done, Goto, Quiet, Recvs
  <1>5. ASSUME NEW r \in Locals \cup SameWorker, SendChecks(r) PROVE Quiet
    BY <1>5 DEF SendChecks, Quiet
  <1>6. ASSUME NEW r \in Locals \cup SameWorker, LocalSend(r) PROVE Quiet
    BY <1>6 DEF LocalSend, Done, Goto, Quiet, Recvs
  <1>7. ASSUME NEW a \in Aborters, AbortLocal(a) PROVE Quiet
    BY <1>7 DEF AbortLocal, Quiet, Recvs
  <1>8. ASSUME NEW r \in Remotes, CheckStatus(r) \/ Finish(r) PROVE Moves(r) \/ Releases(r)
    BY <1>8 DEF CheckStatus, Finish, Moves, Releases
  <1>9. ASSUME UNCHANGED vars PROVE Quiet
    BY <1>9 DEF vars, Quiet
  <1> QED
    BY <1>1, <1>2, <1>3, <1>4, <1>5, <1>6, <1>7, <1>8, <1>9
       DEF Next, RemoteStep, LocalStep, Moves, Recvs

(* What StartAbort of a call with an error does to the calls. *)
LEMMA AbortCallsFacts ==
  ASSUME TypeOK, NEW os, NEW s, s # OK, AbortCalls(os, s)
  PROVE  /\ \A o \in Objects : call_status[o] # OK => call_status'[o] = call_status[o]
         /\ \A o \in Objects : call_status[o] = OK =>
              call_status'[o] = IF o \in os THEN s ELSE OK
         /\ \A o \in Objects : try_cancelled'[o] => try_cancelled[o] \/ call_status'[o] # OK
         /\ \A o \in Objects : try_cancelled[o] => try_cancelled'[o]
         /\ rpc_status' = rpc_status
  BY DEF AbortCalls, TypeOK

(* The two parts of the invariant about one RecvAsync. *)
MarksOf(r) ==
  /\ pc[r] \in {"rpc", "completed", "failing"} /\ try_cancelled[call[r]] =>
       call_status[call[r]] # OK
  /\ pc[r] \in {"completed", "failing"} /\ rpc_status[call[r]] = Cancelled =>
       try_cancelled[call[r]]
  /\ pc[r] \in Underway => call[r] \in active_[StepOf[r]] \/ call_status[call[r]] # OK

(* Those two are CancelMarks and AbortLeavesMark. *)
LEMMA MarksAre == CancelMarks /\ AbortLeavesMark <=> \A r \in Remotes : MarksOf(r)
  BY DEF CancelMarks, AbortLeavesMark, MarksOf

(* A step of a RecvAsync with its own call does nothing to the others. *)
LEMMA OthersMarks ==
  ASSUME TypeOK, Ownership, NEW r \in Remotes, Holds(r), NEW x, Goto(r, x), call' = call,
         \A o \in Objects : o # call[r] =>
           /\ call_status'[o] = call_status[o] /\ try_cancelled'[o] = try_cancelled[o]
           /\ rpc_status'[o] = rpc_status[o]
           /\ \A s \in Steps : o \in active_[s] => o \in active_'[s]
  PROVE  \A q \in Remotes : q # r /\ MarksOf(q) => MarksOf(q)'
  <1> SUFFICES ASSUME NEW q \in Remotes, q # r, MarksOf(q) PROVE MarksOf(q)'
    OBVIOUS
  <1>1. pc'[q] = pc[q]
    BY DEF Goto, TypeOK, Recvs
  <1>2. CASE ~Holds(q)
    BY <1>1, <1>2 DEF MarksOf, Holds, Underway
  <1>3. CASE Holds(q)
    <2>1. call[q] \in Objects /\ call[q] # call[r] /\ StepOf[q] \in Steps
      BY <1>3, ObjectFacts, RemoteAssumption DEF Ownership, Recvs
    <2> QED
      BY <1>1, <2>1 DEF MarksOf
  <1> QED
    BY <1>2, <1>3

(* What a RecvAsync does with the call it holds keeps the invariant. *)
LEMMA MovesKeep ==
  ASSUME IInv, NEW r \in Remotes, Moves(r)
  PROVE  Ownership' /\ CancelMarks' /\ AbortLeavesMark'
  <1> USE RemoteAssumption DEF IInv, TypeOK, step_vars, cm_vars, list_vars, object_vars
  <1>0. MarksOf(r) /\ \A q \in Remotes : MarksOf(q)
    BY MarksAre
  <1>1. Holds(r) /\ UNCHANGED list_vars
    BY DEF Moves, RegisterCall, StartCall, RpcEnds, OnCompleted, UpdateStatus, DeregisterCall,
           CheckStatus, Holds, Underway
  <1>2. PICK x \in Underway \cup {"finish"} : Goto(r, x)
    BY DEF Moves, RegisterCall, StartCall, RpcEnds, OnCompleted, UpdateStatus, DeregisterCall,
           CheckStatus, Underway
  <1>3. Ownership'
    BY <1>1, <1>2, NoTransfer DEF Goto, Holds, Recvs
  <1>4. call[r] \in Objects /\ StepOf[r] \in Steps /\ r \in Recvs
    BY <1>1, ObjectFacts DEF Recvs
  <1> DEFINE o == call[r]
             s == StepOf[r]
  <1>5. ASSUME MarksOf(r)',
               \A p \in Objects : p # o =>
                 /\ call_status'[p] = call_status[p] /\ try_cancelled'[p] = try_cancelled[p]
                 /\ rpc_status'[p] = rpc_status[p]
                 /\ \A t \in Steps : p \in active_[t] => p \in active_'[t]
        PROVE  CancelMarks' /\ AbortLeavesMark'
    <2>1. \A q \in Remotes : q # r => MarksOf(q)'
      BY <1>0, <1>1, <1>2, <1>5, OthersMarks
    <2> QED
      BY <1>5, <2>1, MarksAre DEF CancelMarks, AbortLeavesMark, MarksOf
  <1>6. CASE RegisterCall(r)
    <2>1. pc'[r] = "registered"
      BY <1>4, <1>6 DEF RegisterCall, Goto
    <2>2. CASE status_[s] # OK \/ cm[s] # "idle"
      <3>1. PICK z : z # OK /\ AbortCalls({o}, z) /\ active_' = active_
        BY <1>4, <1>6, <2>2 DEF RegisterCall
      <3>2. call_status'[o] # OK
        BY <1>4, <3>1 DEF AbortCalls
      <3>3. MarksOf(r)'
        BY <1>1, <2>1, <3>2 DEF MarksOf
      <3>4. \A p \in Objects : p # o => /\ call_status'[p] = call_status[p]
                                       /\ try_cancelled'[p] = try_cancelled[p]
                                       /\ rpc_status'[p] = rpc_status[p]
        BY <3>1 DEF AbortCalls
      <3> QED
        BY <1>3, <1>5, <3>1, <3>3, <3>4
    <2>3. CASE status_[s] = OK /\ cm[s] = "idle"
      <3>1. active_' = [active_ EXCEPT ![s] = @ \cup {o}] /\ UNCHANGED object_vars
        BY <1>6, <2>3 DEF RegisterCall
      <3>2. MarksOf(r)'
        BY <1>1, <1>4, <2>1, <3>1 DEF MarksOf
      <3> QED
        BY <1>3, <1>4, <1>5, <3>1, <3>2
    <2> QED
      BY <2>2, <2>3
  <1>7. CASE StartCall(r)
    <2>1. /\ pc[r] = "starting" /\ pc'[r] = "rpc"
          /\ try_cancelled' = [try_cancelled EXCEPT ![o] = FALSE]
          /\ UNCHANGED <<active_, call_status, rpc_status>>
      BY <1>4, <1>7 DEF StartCall, Goto
    <2>2. MarksOf(r)'
      BY <1>0, <1>1, <1>4, <2>1 DEF MarksOf, Underway
    <2> QED
      BY <1>3, <1>5, <2>1, <2>2
  <1>8. ASSUME NEW z \in {OK, Cancelled, Unavailable}, RpcEnds(r, z)
        PROVE  CancelMarks' /\ AbortLeavesMark'
    <2>1. /\ pc[r] = "rpc" /\ pc'[r] = "completed" /\ (z = Cancelled => try_cancelled[o])
          /\ rpc_status' = [rpc_status EXCEPT ![o] = z]
          /\ UNCHANGED <<active_, call_status, try_cancelled>>
      BY <1>4, <1>8 DEF RpcEnds, Goto
    <2>2. MarksOf(r)'
      BY <1>0, <1>1, <1>4, <2>1 DEF MarksOf, Underway
    <2> QED
      BY <1>5, <2>1, <2>2
  <1>9. CASE OnCompleted(r)
    <2>1. /\ pc[r] = "completed" /\ pc'[r] \in {"starting", "deregister", "failing"}
          /\ UNCHANGED <<active_, call_status, rpc_status, try_cancelled>>
      BY <1>4, <1>9 DEF OnCompleted, Goto
    <2>2. MarksOf(r)'
      BY <1>0, <1>1, <1>4, <2>1 DEF MarksOf, Underway
    <2> QED
      BY <1>3, <1>5, <2>1, <2>2
  <1>10. CASE UpdateStatus(r)
    <2>1. /\ pc[r] = "failing" /\ pc'[r] = "deregister"
          /\ call_status' = [call_status EXCEPT ![o] = IF @ = OK THEN rpc_status[o] ELSE @]
          /\ UNCHANGED <<active_, try_cancelled, rpc_status>>
      BY <1>4, <1>10 DEF UpdateStatus, Goto
    <2>2. MarksOf(r)'
      BY <1>0, <1>1, <1>4, <2>1 DEF MarksOf, Underway
    <2> QED
      BY <1>3, <1>5, <2>1, <2>2
  <1>11. CASE DeregisterCall(r)
    <2>1. /\ pc[r] = "deregister" /\ pc'[r] = "finish" /\ UNCHANGED object_vars
          /\ active_' = active_ \/ active_' = [active_ EXCEPT ![s] = @ \ {o}]
      BY <1>4, <1>11 DEF DeregisterCall, Goto
    <2>2. MarksOf(r)'
      BY <2>1 DEF MarksOf, Underway
    <2> QED
      BY <1>3, <1>4, <1>5, <2>1, <2>2
  <1>12. CASE CheckStatus(r) /\ call_status[call[r]] = OK
    <2>1. pc[r] = "registered" /\ pc'[r] = "starting" /\ UNCHANGED <<active_, object_vars>>
      BY <1>4, <1>12 DEF CheckStatus, Goto
    <2>2. MarksOf(r)'
      BY <1>0, <1>1, <1>4, <2>1 DEF MarksOf, Underway
    <2> QED
      BY <1>3, <1>5, <2>1, <2>2
  <1> QED
    BY <1>3, <1>6, <1>7, <1>8, <1>9, <1>10, <1>11, <1>12 DEF Moves

(* Every step keeps the invariant. *)
LEMMA NextIInv == IInv /\ [Next]_vars => IInv'
  <1> SUFFICES ASSUME IInv, [Next]_vars PROVE IInv'
    OBVIOUS
  <1> USE RemoteAssumption DEF object_vars, list_vars, step_vars, cm_vars
  <1>0. TypeOK /\ Ownership /\ (\A r \in Remotes : MarksOf(r)) /\ TypeOK'
    BY TypeStep, MarksAre DEF IInv
  <1>1. \A r \in Remotes : Holds(r) => call[r] \in Objects /\ StepOf[r] \in Steps
    BY <1>0, ObjectFacts DEF Recvs
  <1> DEFINE Rest == Ownership' /\ CancelMarks' /\ AbortLeavesMark'
  <1>2. ASSUME Quiet PROVE Rest
    <2>1. UNCHANGED <<list_vars, active_, object_vars>>
      BY <1>2 DEF Quiet
    <2>2. \A r \in Remotes : Holds(r)' <=> Holds(r)
      BY <1>2 DEF Quiet, Holds, Underway, LocalPcs
    <2>3. Ownership'
      BY <1>0, <2>1, <2>2, NoTransfer
    <2>4. \A r \in Remotes : MarksOf(r)'
      BY <1>0, <1>2, <2>1 DEF MarksOf, Quiet, Underway, LocalPcs
    <2> QED
      BY <2>3, <2>4 DEF MarksOf, CancelMarks, AbortLeavesMark
  <1>3. ASSUME NEW s \in Steps, StartCancel(s) \/ CancelEnds(s) PROVE Rest
    <2>1. UNCHANGED <<list_vars, active_, object_vars, pc>>
      BY <1>3 DEF StartCancel, CancelEnds
    <2>2. Ownership'
      BY <1>0, <2>1, NoTransfer DEF Holds
    <2> QED
      BY <2>1, <2>2 DEF IInv, CancelMarks, AbortLeavesMark
  <1>4. ASSUME NEW s \in Steps, CancelCallback(s) PROVE Rest
    <2>1. UNCHANGED <<list_vars, active_, pc>>
      BY <1>4 DEF CancelCallback
    <2>2. Ownership'
      BY <1>0, <2>1, NoTransfer DEF Holds
    <2>3. CASE UNCHANGED object_vars
      BY <2>1, <2>2, <2>3 DEF IInv, CancelMarks, AbortLeavesMark
    <2>4. ASSUME NEW os, AbortCalls(os, Cancelled) PROVE Rest
      <3>1. \A r \in Remotes : MarksOf(r)'
        BY <1>0, <1>1, <2>1, <2>4, AbortCallsFacts DEF MarksOf, Holds, Underway
      <3> QED
        BY <2>2, <3>1 DEF MarksOf, CancelMarks, AbortLeavesMark
    <2> QED
      BY <1>4, <2>3, <2>4 DEF CancelCallback
  <1>5. ASSUME NEW a \in Aborters, AbortActive(a) PROVE Rest
    <2>1. UNCHANGED <<list_vars, pc>>
      BY <1>5 DEF AbortActive
    <2>2. Ownership'
      BY <1>0, <2>1, NoTransfer DEF Holds
    <2>3. CASE UNCHANGED <<object_vars, active_>>
      BY <2>1, <2>2, <2>3 DEF IInv, CancelMarks, AbortLeavesMark
    <2>4. CASE /\ AbortCalls(active_[StepOf[a]], a)
               /\ active_' = [active_ EXCEPT ![StepOf[a]] = {}]
      <3>1. a # OK /\ StepOf[a] \in Steps
        OBVIOUS
      <3>2. ASSUME NEW r \in Remotes PROVE MarksOf(r)'
        <4>1. CASE ~Holds(r)
          BY <2>1, <4>1 DEF MarksOf, Holds, Underway
        <4>2. CASE Holds(r)
          <5>1. MarksOf(r) /\ call[r] \in Objects /\ StepOf[r] \in Steps
            BY <1>0, <1>1, <4>2
          <5>2. call_status[call[r]] # OK \/ call[r] \in active_[StepOf[a]] =>
                  call_status'[call[r]] # OK
            BY <1>0, <2>4, <3>1, <5>1, AbortCallsFacts
          <5>3. /\ try_cancelled'[call[r]] => try_cancelled[call[r]] \/ call_status'[call[r]] # OK
                /\ try_cancelled[call[r]] => try_cancelled'[call[r]]
                /\ rpc_status' = rpc_status
            BY <1>0, <2>4, <3>1, <5>1, AbortCallsFacts
          <5>4. StepOf[r] # StepOf[a] => active_'[StepOf[r]] = active_[StepOf[r]]
            BY <1>0, <2>4, <5>1 DEF TypeOK
          <5> QED
            BY <2>1, <5>1, <5>2, <5>3, <5>4 DEF MarksOf
        <4> QED
          BY <4>1, <4>2
      <3> QED
        BY <2>2, <3>2 DEF MarksOf, CancelMarks, AbortLeavesMark
    <2> QED
      BY <1>5, <2>3, <2>4 DEF AbortActive
  <1>6. ASSUME NEW r \in Remotes, NewCall(r) PROVE Rest
    <2>1. Ownership' /\ UNCHANGED <<active_, object_vars>>
      BY <1>0, <1>6, NewCallKeepsOwnership DEF NewCall
    <2>2. \A q \in Remotes : MarksOf(q)'
      <3>1. pc'[r] \in {"inited", "answered"}
        BY <1>0, <1>6 DEF NewCall, Goto, Done, TypeOK, Recvs
      <3>2. \A q \in Remotes : q # r => pc'[q] = pc[q] /\ call'[q] = call[q]
        BY <1>0, <1>6 DEF NewCall, Goto, Done, TypeOK, Recvs
      <3> QED
        BY <1>0, <2>1, <3>1, <3>2 DEF MarksOf, Underway
    <2> QED
      BY <2>1, <2>2 DEF MarksOf, CancelMarks, AbortLeavesMark
  <1>7. ASSUME NEW r \in Remotes, Moves(r) PROVE Rest
    BY <1>7, MovesKeep
  <1>8. ASSUME NEW r \in Remotes, Releases(r) PROVE Rest
    <2>1. Holds(r) /\ Goto(r, "answered") /\ Release(r) /\ active_' = active_ /\ call' = call
      BY <1>8 DEF Releases, Done, Release, Holds, Underway
    <2>2. Ownership'
      BY <1>0, <2>1, ReleaseKeepsOwnership
    <2>3. \A q \in Remotes : q # r => MarksOf(q)'
      BY <1>0, <1>1, <2>1, OthersMarks DEF Release, TypeOK
    <2>4. MarksOf(r)'
      BY <1>0, <2>1 DEF MarksOf, Goto, TypeOK, Recvs, Underway
    <2> QED
      BY <2>2, <2>3, <2>4 DEF MarksOf, CancelMarks, AbortLeavesMark
  <1>9. Rest
    BY <1>0, <1>2, <1>3, <1>4, <1>5, <1>6, <1>7, <1>8, StepKinds
  <1> QED
    BY <1>0, <1>9 DEF IInv

--------------------------------------------------------------------------------
(* Two RecvAsyncs that hold a call hold different ones. *)
LEMMA HoldersDiffer ==
  ASSUME IInv, NEW r \in Remotes, NEW q \in Remotes, Holds(r), Holds(q), call[r] = call[q]
  PROVE  r = q
  BY DEF IInv, Ownership

(* The start and the end of a cancellation. *)
LEMMA CancelPhaseKeeps ==
  ASSUME IInv, CInv, NEW s \in Steps, StartCancel(s) \/ CancelEnds(s)
  PROVE  CInv'
  <1>1. UNCHANGED <<active_, callbacks, call, pc, call_status, answer>>
    BY DEF StartCancel, CancelEnds, step_vars, list_vars, object_vars
  <1>2. cm'[s] # "idle" /\ (\A t \in Steps : t # s => cm'[t] = cm[t])
    BY DEF StartCancel, CancelEnds, IInv, TypeOK
  <1>3. \A t \in Steps : cm[t] # "idle" => cm'[t] # "idle"
    BY <1>2
  <1>4. BeforeCancel'
    BY <1>2 DEF BeforeCancel
  <1>5. CallbacksOwn'
    BY <1>1, <1>3 DEF CInv, CallbacksOwn, Others
  <1>6. OneCancelled' => OneCancelled
    BY <1>3 DEF OneCancelled
  <1>7. \A r \in Recvs : StepOf[r] \in Steps
    BY RemoteAssumption
  <1>8. CancelledOwn'
    BY <1>1, <1>3, <1>6, <1>7 DEF CInv, CancelledOwn, Recvs
  <1>9. CancelIsLocal' /\ CallbacksBegun'
    BY <1>1, <1>3, <1>6, <1>7 DEF CInv, CancelIsLocal, CallbacksBegun
  <1> QED
    BY <1>4, <1>5, <1>8, <1>9 DEF CInv

(* A cancellation callback marks a call that its own RecvAsync holds. *)
LEMMA CancelCallbackKeeps ==
  ASSUME IInv, CInv, NEW s \in Steps, CancelCallback(s)
  PROVE  CInv'
  <1> USE RemoteAssumption DEF list_vars, step_vars, object_vars
  <1>1. PICK r \in callbacks[s] :
           /\ callbacks' = [callbacks EXCEPT ![s] = @ \ {r}]
           /\ IF call[r] \in active_[s] THEN AbortCalls({call[r]}, Cancelled)
                                        ELSE UNCHANGED object_vars
    BY DEF CancelCallback, FoundActive
  <1>2. cm[s] = "cancelling" /\ UNCHANGED <<active_, cm, call, pc, answer>>
    BY DEF CancelCallback
  <1>3. r \in Remotes /\ StepOf[r] = s
    BY DEF IInv, TypeOK
  <1>4. \A t \in Steps : callbacks'[t] = IF t = s THEN callbacks[s] \ {r} ELSE callbacks[t]
    BY <1>1 DEF IInv, TypeOK
  <1>5. BeforeCancel' /\ CallbacksBegun' /\ CancelIsLocal'
    BY <1>2, <1>4 DEF CInv, BeforeCancel, CallbacksBegun, CancelIsLocal, OneCancelled
  <1>6. OneCancelled => Others(s)
    BY <1>2 DEF OneCancelled, Others
  <1>7. Others(s) /\ call[r] \in active_[s] => pc[r] \in Underway
    BY DEF CInv, CallbacksOwn
  <1>8. \A o \in Objects :
           call_status'[o] # call_status[o] =>
             o = call[r] /\ call[r] \in active_[s] /\ call_status'[o] = Cancelled
    BY <1>1 DEF AbortCalls, IInv, TypeOK
  <1>9. CallbacksOwn'
    <2> SUFFICES ASSUME Others(s), NEW q \in callbacks[s], q # r, call[q] \in active_[s]
                 PROVE  /\ pc[q] \in Underway
                        /\ pc[q] = "registered" => call_status'[call[q]] = OK
                        /\ \A t \in Steps : call[q] \in active_[t] => t = s
      BY <1>2, <1>4 DEF CallbacksOwn, Others
    <2>1. /\ pc[q] \in Underway /\ q \in Remotes
          /\ pc[q] = "registered" => call_status[call[q]] = OK
          /\ \A t \in Steps : call[q] \in active_[t] => t = s
      BY DEF CInv, CallbacksOwn, IInv, TypeOK
    <2>2. Holds(q) /\ call[q] \in Objects
      BY <2>1, ObjectFacts DEF Holds, IInv
    <2>3. call[r] \in active_[s] => call[q] # call[r]
      BY <1>3, <1>7, <2>1, <2>2, HoldersDiffer DEF Holds
    <2> QED
      BY <1>8, <2>1, <2>2, <2>3
  <1>10. CancelledOwn'
    <2> SUFFICES ASSUME OneCancelled, NEW o \in Objects, call_status'[o] = Cancelled
                 PROVE  \E q \in Remotes : /\ call[q] = o /\ pc[q] \in Underway \cup {"finish"}
                                           /\ cm[StepOf[q]] # "idle"
      BY <1>2 DEF CancelledOwn, OneCancelled
    <2>1. CASE call_status[o] = Cancelled
      BY <2>1 DEF CInv, CancelledOwn
    <2>2. CASE call_status[o] # Cancelled
      BY <1>2, <1>3, <1>6, <1>7, <1>8, <2>2
    <2> QED
      BY <2>1, <2>2
  <1> QED
    BY <1>5, <1>9, <1>10 DEF CInv

(* An abort clears the active_ of its step with the callbacks. *)
LEMMA AbortActiveKeeps ==
  ASSUME IInv, CInv, NEW a \in Aborters, AbortActive(a)
  PROVE  CInv'
  <1> USE RemoteAssumption DEF list_vars, step_vars, object_vars
  <1> DEFINE s == StepOf[a]
  <1>1. UNCHANGED <<cm, call, pc, answer>> /\ s \in Steps /\ a # Cancelled /\ a # OK
    BY DEF AbortActive
  <1>2. CASE UNCHANGED <<active_, callbacks, call_status>>
    BY <1>1, <1>2 DEF CInv, CallbacksBegun, BeforeCancel, CallbacksOwn, CancelledOwn,
                      CancelIsLocal, Others, OneCancelled
  <1>3. CASE /\ AbortCalls(active_[s], a)
             /\ TryDeregister(s, {r \in Remotes : call[r] \in active_[s]})
             /\ active_' = [active_ EXCEPT ![s] = {}]
    <2>1. \A t \in Steps : active_'[t] = IF t = s THEN {} ELSE active_[t]
      BY <1>3 DEF IInv, TypeOK
    <2>2. /\ \A t \in Steps : callbacks'[t] \subseteq callbacks[t]
          /\ \A t \in Steps : t # s => callbacks'[t] = callbacks[t]
          /\ cm[s] = "idle" => \A r \in callbacks'[s] : call[r] \notin active_[s]
      BY <1>3 DEF TryDeregister, IInv, TypeOK
    <2>3. \A o \in Objects : call_status'[o] # call_status[o] => o \in active_[s] /\ call_status'[o] = a
      BY <1>3 DEF AbortCalls, IInv, TypeOK
    <2>4. CallbacksBegun' /\ CancelIsLocal'
      BY <1>1, <2>2 DEF CInv, CallbacksBegun, CancelIsLocal, OneCancelled
    <2>5. BeforeCancel'
      <3> SUFFICES ASSUME \A t \in Steps : cm[t] = "idle"
                   PROVE  /\ \A t \in Steps : \A o \in active_'[t] : \E r \in callbacks'[t] : call[r] = o
                          /\ \A t \in Steps : \A r \in callbacks'[t] :
                               call[r] \in active_'[t] /\ pc[r] \in Underway
                          /\ \A o \in Objects : call_status'[o] # OK =>
                               \E r \in Remotes : call[r] = o /\ pc[r] \in Underway \cup {"finish"}
        BY <1>1 DEF BeforeCancel
      <3>1. callbacks'[s] = {}
        BY <1>1, <2>2 DEF CInv, BeforeCancel
      <3>2. \A o \in active_[s] : \E r \in Remotes : call[r] = o /\ pc[r] \in Underway
        BY <1>1 DEF CInv, BeforeCancel, IInv, TypeOK
      <3>3. \A o \in Objects : call_status'[o] # OK =>
              \E r \in Remotes : call[r] = o /\ pc[r] \in Underway \cup {"finish"}
        BY <2>3, <3>2 DEF CInv, BeforeCancel
      <3> QED
        BY <2>1, <2>2, <3>1, <3>3 DEF CInv, BeforeCancel
    <2>6. CallbacksOwn'
      <3> SUFFICES ASSUME NEW u \in Steps, Others(u), NEW q \in callbacks'[u], call[q] \in active_'[u]
                   PROVE  /\ pc[q] \in Underway
                          /\ pc[q] = "registered" => call_status'[call[q]] = OK
                          /\ \A t \in Steps : call[q] \in active_'[t] => t = u
        BY <1>1 DEF CallbacksOwn, Others
      <3>1. u # s /\ q \in callbacks[u] /\ call[q] \in active_[u]
        BY <2>1, <2>2
      <3>2. /\ pc[q] \in Underway /\ (pc[q] = "registered" => call_status[call[q]] = OK)
            /\ \A t \in Steps : call[q] \in active_[t] => t = u
        BY <3>1 DEF CInv, CallbacksOwn
      <3>3. call[q] \in Objects
        BY <3>1 DEF IInv, TypeOK
      <3> QED
        BY <1>1, <2>1, <2>3, <3>1, <3>2, <3>3
    <2>7. CancelledOwn'
      BY <1>1, <2>3 DEF CInv, CancelledOwn, OneCancelled
    <2> QED
      BY <2>4, <2>5, <2>6, <2>7 DEF CInv
  <1> QED
    BY <1>2, <1>3 DEF AbortActive

(* RegisterCall registers a callback only for a call that nobody else's      *)
(* active_ names and that carries no error, unless a step was cancelled.     *)
LEMMA RegisterKeeps ==
  ASSUME IInv, CInv, NEW r \in Remotes, RegisterCall(r)
  PROVE  CInv'
  <1> USE RemoteAssumption DEF list_vars, step_vars, object_vars
  <1> DEFINE s == StepOf[r]
             o == call[r]
  <1>1. /\ pc[r] = "inited" /\ pc'[r] = "registered" /\ Holds(r)
        /\ \A q \in Remotes : q # r => pc'[q] = pc[q]
        /\ s \in Steps /\ o \in Objects
    BY ObjectFacts DEF RegisterCall, Goto, IInv, TypeOK, Recvs, Holds
  <1>2. UNCHANGED <<cm, call, answer>>
    BY DEF RegisterCall
  <1>3. \A t \in Steps : r \notin callbacks[t]
    BY <1>1 DEF CInv, CallbacksBegun, Underway
  <1>4. \A q \in Remotes : pc[q] \in Underway \cup {"finish"} => q # r /\ call[q] # o
    BY <1>1, HoldersDiffer DEF Holds, Underway
  <1>5. \A t \in Steps : callbacks[t] \subseteq Remotes
    BY DEF IInv, TypeOK
  <1>6. CancelIsLocal'
    BY <1>2 DEF CInv, CancelIsLocal, OneCancelled
  <1>7. ASSUME NEW z, z # OK, AbortCalls({o}, z), UNCHANGED <<active_, callbacks>>,
               z \in Aborters \/ cm[s] # "idle"
        PROVE  CInv'
    <2>1. /\ z # OK /\ AbortCalls({o}, z) /\ UNCHANGED <<active_, callbacks>>
          /\ z \in Aborters \/ cm[s] # "idle"
      BY <1>7
    <2>2. \A p \in Objects : call_status'[p] # call_status[p] => p = o /\ call_status'[p] = z
      BY <2>1 DEF AbortCalls, IInv, TypeOK
    <2>3. CallbacksBegun'
      BY <1>1, <1>3, <1>5, <2>1 DEF CInv, CallbacksBegun
    <2>4. BeforeCancel'
      <3> SUFFICES ASSUME \A t \in Steps : cm[t] = "idle" PROVE BeforeCancel'
        BY <1>2 DEF BeforeCancel
      <3>1. \A p \in Objects : call_status'[p] # OK =>
              \E q \in Remotes : call[q] = p /\ pc'[q] \in Underway \cup {"finish"}
        BY <1>1, <1>4, <2>2 DEF CInv, BeforeCancel, Underway
      <3>2. \A t \in Steps : \A q \in callbacks[t] : call[q] \in active_[t] /\ pc'[q] \in Underway
        BY <1>1, <1>3, <1>5 DEF CInv, BeforeCancel
      <3> QED
        BY <1>2, <2>1, <3>1, <3>2 DEF CInv, BeforeCancel
    <2>5. CallbacksOwn'
      <3> SUFFICES ASSUME NEW u \in Steps, Others(u), NEW q \in callbacks[u], call[q] \in active_[u]
                   PROVE  /\ pc'[q] \in Underway
                          /\ pc'[q] = "registered" => call_status'[call[q]] = OK
                          /\ \A t \in Steps : call[q] \in active_[t] => t = u
        BY <1>2, <2>1 DEF CallbacksOwn, Others
      <3>1. /\ pc[q] \in Underway /\ (pc[q] = "registered" => call_status[call[q]] = OK)
            /\ \A t \in Steps : call[q] \in active_[t] => t = u
        BY DEF CInv, CallbacksOwn
      <3>2. call[q] # o /\ pc'[q] = pc[q] /\ call[q] \in Objects
        BY <1>1, <1>4, <1>5, <3>1 DEF IInv, TypeOK
      <3> QED
        BY <2>2, <3>1, <3>2
    <2>6. CancelledOwn'
      <3> SUFFICES ASSUME OneCancelled, NEW p \in Objects, call_status'[p] = Cancelled
                   PROVE  \E q \in Remotes : /\ call[q] = p /\ pc'[q] \in Underway \cup {"finish"}
                                             /\ cm[StepOf[q]] # "idle"
        BY <1>2 DEF CancelledOwn, OneCancelled
      <3>1. CASE call_status[p] = Cancelled
        BY <1>1, <1>4, <3>1 DEF CInv, CancelledOwn
      <3>2. CASE call_status[p] # Cancelled
        BY <1>1, <2>1, <2>2, <3>2 DEF Underway
      <3> QED
        BY <3>1, <3>2
    <2> QED
      BY <1>6, <2>3, <2>4, <2>5, <2>6 DEF CInv
  <1>8. CASE /\ cm[s] = "idle" /\ UNCHANGED object_vars
             /\ callbacks' = [callbacks EXCEPT ![s] = @ \cup {r}]
             /\ active_' = [active_ EXCEPT ![s] = @ \cup {o}]
    <2>1. \A t \in Steps : /\ callbacks'[t] = IF t = s THEN callbacks[s] \cup {r} ELSE callbacks[t]
                          /\ active_'[t] = IF t = s THEN active_[s] \cup {o} ELSE active_[t]
      BY <1>8 DEF IInv, TypeOK
    <2>2. CallbacksBegun'
      BY <1>1, <1>3, <1>5, <2>1 DEF CInv, CallbacksBegun, Underway
    <2>3. BeforeCancel'
      <3> SUFFICES ASSUME \A t \in Steps : cm[t] = "idle" PROVE BeforeCancel'
        BY <1>2 DEF BeforeCancel
      <3>1. \A p \in Objects : call_status'[p] # OK =>
              \E q \in Remotes : call[q] = p /\ pc'[q] \in Underway \cup {"finish"}
        BY <1>1, <1>4, <1>8 DEF CInv, BeforeCancel
      <3>2. \A t \in Steps : \A q \in callbacks'[t] : call[q] \in active_'[t] /\ pc'[q] \in Underway
        BY <1>1, <1>3, <1>5, <2>1 DEF CInv, BeforeCancel, Underway
      <3>3. \A t \in Steps : \A p \in active_'[t] : \E q \in callbacks'[t] : call[q] = p
        BY <2>1 DEF CInv, BeforeCancel
      <3> QED
        BY <1>2, <3>1, <3>2, <3>3 DEF BeforeCancel
    <2>4. CallbacksOwn'
      <3> SUFFICES ASSUME NEW u \in Steps, Others(u), NEW q \in callbacks'[u], call[q] \in active_'[u]
                   PROVE  /\ pc'[q] \in Underway
                          /\ pc'[q] = "registered" => call_status[call[q]] = OK
                          /\ \A t \in Steps : call[q] \in active_'[t] => t = u
        BY <1>2, <1>8 DEF CallbacksOwn, Others
      <3>1. u = s => \A t \in Steps : cm[t] = "idle"
        BY <1>1, <1>8 DEF Others, IInv, TypeOK
      <3>2. CASE q = r
        <4>1. u = s
          BY <1>3, <2>1, <3>2
        <4>2. call_status[o] = OK
          BY <1>1, <1>4, <3>1, <4>1 DEF CInv, BeforeCancel
        <4>3. \A t \in Steps : o \notin active_[t]
          BY <1>4, <1>5, <3>1, <4>1 DEF CInv, BeforeCancel
        <4> QED
          BY <1>1, <2>1, <3>2, <4>1, <4>2, <4>3 DEF Underway
      <3>3. CASE q # r
        <4>1. q \in callbacks[u] /\ q \in Remotes
          BY <1>5, <2>1, <3>3
        <4>2. call[q] \in active_[u]
          BY <2>1, <3>1, <4>1 DEF CInv, BeforeCancel
        <4>3. /\ pc[q] \in Underway /\ (pc[q] = "registered" => call_status[call[q]] = OK)
              /\ \A t \in Steps : call[q] \in active_[t] => t = u
          BY <4>1, <4>2 DEF CInv, CallbacksOwn
        <4>4. call[q] # o
          BY <1>4, <4>1, <4>3
        <4> QED
          BY <1>1, <2>1, <3>3, <4>1, <4>3, <4>4
      <3> QED
        BY <3>2, <3>3
    <2>5. CancelledOwn'
      BY <1>1, <1>2, <1>4, <1>8 DEF CInv, CancelledOwn, OneCancelled
    <2> QED
      BY <1>6, <2>2, <2>3, <2>4, <2>5 DEF CInv
  <1> QED
    <2>1. status_[s] \in Aborters \cup {OK}
      BY <1>1 DEF IInv, TypeOK
    <2>2. CASE status_[s] # OK /\ AbortCalls({o}, status_[s]) /\ UNCHANGED <<active_, callbacks>>
      BY <1>7, <2>1, <2>2
    <2>3. CASE cm[s] # "idle" /\ AbortCalls({o}, Cancelled) /\ UNCHANGED <<active_, callbacks>>
      BY <1>7, <2>3
    <2> QED
      BY <1>8, <2>2, <2>3 DEF RegisterCall

(* The steps of an RPC. *)
LEMMA RpcKeeps ==
  ASSUME IInv, CInv, NEW r \in Remotes,
         \/ StartCall(r) \/ (\E z \in {OK, Cancelled, Unavailable} : RpcEnds(r, z))
         \/ OnCompleted(r) \/ UpdateStatus(r) \/ (CheckStatus(r) /\ call_status[call[r]] = OK)
  PROVE  CInv'
  <1> USE RemoteAssumption DEF list_vars, step_vars, object_vars, cm_vars
  <1>1. UNCHANGED <<active_, cm, callbacks, call, answer>>
    BY DEF StartCall, RpcEnds, OnCompleted, UpdateStatus, CheckStatus
  <1>2. PICK x \in Underway : Goto(r, x) /\ x # "registered"
    BY DEF StartCall, RpcEnds, OnCompleted, UpdateStatus, CheckStatus, Underway
  <1>3. pc[r] \in Underway /\ Holds(r)
    BY DEF StartCall, RpcEnds, OnCompleted, UpdateStatus, CheckStatus, Underway, Holds
  <1>4. /\ pc'[r] \in Underway /\ pc'[r] # "registered"
        /\ \A q \in Remotes : q # r => pc'[q] = pc[q]
    BY <1>2 DEF Goto, IInv, TypeOK, Recvs
  <1>5. call[r] \in Objects
    BY <1>3, ObjectFacts DEF IInv
  <1>6. /\ \A p \in Objects : p # call[r] => call_status'[p] = call_status[p]
        /\ call_status'[call[r]] # call_status[call[r]] => call_status'[call[r]] # Cancelled
    <2>1. CASE call_status' = call_status
      BY <2>1
    <2>2. CASE UpdateStatus(r)
      <3>1. /\ pc[r] = "failing"
            /\ call_status' = [call_status EXCEPT ![call[r]] =
                                 IF @ = OK THEN rpc_status[call[r]] ELSE @]
        BY <2>2 DEF UpdateStatus
      <3>2. call_status[call[r]] = OK => rpc_status[call[r]] # Cancelled
        BY <3>1 DEF IInv, CancelMarks
      <3> QED
        BY <1>5, <3>1, <3>2 DEF IInv, TypeOK
    <2> QED
      BY <2>1, <2>2 DEF StartCall, RpcEnds, OnCompleted, CheckStatus
  <1>7. \A t \in Steps : callbacks[t] \subseteq Remotes
    BY DEF IInv, TypeOK
  <1>8. CallbacksBegun' /\ CancelIsLocal'
    BY <1>1, <1>4, <1>7 DEF CInv, CallbacksBegun, CancelIsLocal, OneCancelled
  <1>9. BeforeCancel'
    <2> SUFFICES ASSUME \A t \in Steps : cm[t] = "idle" PROVE BeforeCancel'
      BY <1>1 DEF BeforeCancel
    <2>1. \A p \in Objects : call_status'[p] # OK =>
            \E q \in Remotes : call[q] = p /\ pc'[q] \in Underway \cup {"finish"}
      BY <1>4, <1>6 DEF CInv, BeforeCancel
    <2>2. \A t \in Steps : \A q \in callbacks[t] : call[q] \in active_[t] /\ pc'[q] \in Underway
      BY <1>4, <1>7 DEF CInv, BeforeCancel
    <2> QED
      BY <1>1, <2>1, <2>2 DEF CInv, BeforeCancel
  <1>10. CallbacksOwn'
    <2> SUFFICES ASSUME NEW u \in Steps, Others(u), NEW q \in callbacks[u], call[q] \in active_[u]
                 PROVE  /\ pc'[q] \in Underway
                        /\ pc'[q] = "registered" => call_status'[call[q]] = OK
                        /\ \A t \in Steps : call[q] \in active_[t] => t = u
      BY <1>1 DEF CallbacksOwn, Others
    <2>1. /\ pc[q] \in Underway /\ (pc[q] = "registered" => call_status[call[q]] = OK)
          /\ \A t \in Steps : call[q] \in active_[t] => t = u
      BY DEF CInv, CallbacksOwn
    <2>2. q # r => call[q] # call[r] /\ call[q] \in Objects
      BY <1>3, <1>7, <2>1, HoldersDiffer DEF Holds, IInv, TypeOK
    <2> QED
      BY <1>4, <1>6, <1>7, <2>1, <2>2
  <1>11. CancelledOwn'
    BY <1>1, <1>4, <1>6 DEF CInv, CancelledOwn, OneCancelled
  <1> QED
    BY <1>8, <1>9, <1>10, <1>11 DEF CInv

(* DeregisterCall takes the call out of active_, and the callback as long as *)
(* the step has not been cancelled.                                          *)
LEMMA DeregisterKeeps ==
  ASSUME IInv, CInv, NEW r \in Remotes, DeregisterCall(r)
  PROVE  CInv'
  <1> USE RemoteAssumption DEF list_vars, step_vars, object_vars
  <1> DEFINE s == StepOf[r]
             o == call[r]
  <1>1. /\ pc[r] = "deregister" /\ pc'[r] = "finish" /\ Holds(r)
        /\ \A q \in Remotes : q # r => pc'[q] = pc[q]
        /\ s \in Steps /\ o \in Objects
    BY ObjectFacts DEF DeregisterCall, Goto, IInv, TypeOK, Recvs, Holds, Underway
  <1>2. UNCHANGED <<cm, call, answer, call_status>>
    BY DEF DeregisterCall
  <1>3. \A t \in Steps : callbacks[t] \subseteq Remotes /\ \A q \in callbacks[t] : StepOf[q] = t
    BY DEF IInv, TypeOK
  <1>4. \A t \in Steps : active_'[t] = IF t = s THEN active_[s] \ {o} ELSE active_[t]
    <2>1. CASE o \in active_[s]
      BY <1>1, <2>1 DEF DeregisterCall, IInv, TypeOK
    <2>2. CASE o \notin active_[s]
      <3>1. active_' = active_ /\ active_[s] \ {o} = active_[s]
        BY <2>2 DEF DeregisterCall
      <3> QED
        BY <3>1
    <2> QED
      BY <2>1, <2>2
  <1>5. \A t \in Steps : /\ callbacks'[t] \subseteq callbacks[t]
                        /\ \A q \in callbacks[t] : q # r => q \in callbacks'[t]
    BY DEF DeregisterCall, TryDeregister, IInv, TypeOK
  <1>6. cm[s] = "idle" /\ o \in active_[s] => r \notin callbacks'[s]
    BY <1>1 DEF DeregisterCall, TryDeregister, IInv, TypeOK
  <1>7. CallbacksBegun' /\ CancelIsLocal'
    BY <1>1, <1>2, <1>3, <1>5 DEF CInv, CallbacksBegun, CancelIsLocal, OneCancelled
  <1>8. BeforeCancel'
    <2> SUFFICES ASSUME \A t \in Steps : cm[t] = "idle" PROVE BeforeCancel'
      BY <1>2 DEF BeforeCancel
    <2>1. \A p \in Objects : call_status[p] # OK =>
            \E q \in Remotes : call[q] = p /\ pc'[q] \in Underway \cup {"finish"}
      BY <1>1 DEF CInv, BeforeCancel
    <2>2. ASSUME NEW t \in Steps, NEW q \in callbacks'[t]
          PROVE  call[q] \in active_'[t] /\ pc'[q] \in Underway
      <3>1. q \in callbacks[t] /\ q \in Remotes /\ call[q] \in active_[t] /\ pc[q] \in Underway
        BY <1>3, <1>5 DEF CInv, BeforeCancel
      <3>2. q # r
        BY <1>1, <1>3, <1>6, <3>1
      <3>3. call[q] # o
        BY <1>1, <3>1, <3>2, HoldersDiffer DEF Holds
      <3> QED
        BY <1>1, <1>4, <3>1, <3>2, <3>3
    <2>3. ASSUME NEW t \in Steps, NEW p \in active_'[t] PROVE \E q \in callbacks'[t] : call[q] = p
      <3>1. p \in active_[t] /\ (t = s => p # o)
        BY <1>4
      <3>2. PICK q \in callbacks[t] : call[q] = p
        BY <3>1 DEF CInv, BeforeCancel
      <3>3. q # r
        BY <1>3, <3>1, <3>2
      <3> QED
        BY <1>5, <3>2, <3>3
    <2> QED
      BY <1>2, <2>1, <2>2, <2>3 DEF BeforeCancel
  <1>9. CallbacksOwn'
    <2> SUFFICES ASSUME NEW u \in Steps, Others(u), NEW q \in callbacks'[u], call[q] \in active_'[u]
                 PROVE  /\ pc'[q] \in Underway
                        /\ pc'[q] = "registered" => call_status[call[q]] = OK
                        /\ \A t \in Steps : call[q] \in active_'[t] => t = u
      BY <1>2 DEF CallbacksOwn, Others
    <2>1. q \in callbacks[u] /\ call[q] \in active_[u] /\ q \in Remotes /\ StepOf[q] = u
      BY <1>3, <1>4, <1>5
    <2>2. /\ pc[q] \in Underway /\ (pc[q] = "registered" => call_status[call[q]] = OK)
          /\ \A t \in Steps : call[q] \in active_[t] => t = u
      BY <2>1 DEF CInv, CallbacksOwn
    <2>3. q # r
      BY <1>4, <2>1
    <2> QED
      BY <1>1, <1>4, <2>1, <2>2, <2>3
  <1>10. CancelledOwn'
    BY <1>1, <1>2 DEF CInv, CancelledOwn, OneCancelled
  <1> QED
    BY <1>7, <1>8, <1>9, <1>10 DEF CInv

(* A call is released when no callback that can still find it in active_ is  *)
(* left, and its error is reported by the RecvAsync that held it.            *)
LEMMA ReleaseKeeps ==
  ASSUME IInv, CInv, NEW r \in Remotes, Releases(r)
  PROVE  CInv'
  <1> USE RemoteAssumption DEF list_vars, step_vars, object_vars, cm_vars
  <1> DEFINE o == call[r]
  <1>1. /\ pc[r] \in {"registered", "finish"} /\ (pc[r] = "registered" => call_status[o] # OK)
        /\ pc'[r] = "answered" /\ Holds(r)
        /\ \A q \in Remotes : q # r => pc'[q] = pc[q]
        /\ o \in Objects
    BY ObjectFacts DEF Releases, Done, Goto, IInv, TypeOK, Recvs, Holds, Underway
  <1>2. UNCHANGED <<cm, call, active_, callbacks>>
    BY DEF Releases, Release
  <1>3. \A p \in Objects : call_status'[p] = IF p = o THEN OK ELSE call_status[p]
    BY DEF Releases, Release, IInv, TypeOK
  <1>4. answer'[r] = call_status[o] /\ \A q \in Recvs : q # r => answer'[q] = answer[q]
    BY DEF Releases, Done, IInv, TypeOK, Recvs
  <1>5. \A t \in Steps : callbacks[t] \subseteq Remotes /\ \A q \in callbacks[t] : StepOf[q] = t
    BY DEF IInv, TypeOK
  <1>6. CallbacksBegun'
    BY <1>1, <1>2, <1>5 DEF CInv, CallbacksBegun
  <1>7. CancelIsLocal'
    <2> SUFFICES ASSUME OneCancelled, NEW q \in Recvs, answer'[q] = Cancelled
                 PROVE  cm[StepOf[q]] # "idle"
      BY <1>2 DEF CancelIsLocal, OneCancelled
    <2>1. CASE q # r
      BY <1>4, <2>1 DEF CInv, CancelIsLocal
    <2>2. CASE q = r
      <3>1. PICK h \in Remotes : /\ call[h] = o /\ pc[h] \in Underway \cup {"finish"}
                                 /\ cm[StepOf[h]] # "idle"
        BY <1>1, <1>4, <2>2 DEF CInv, CancelledOwn
      <3>2. h = r
        BY <1>1, <3>1, HoldersDiffer DEF Holds
      <3> QED
        BY <2>2, <3>1, <3>2
    <2> QED
      BY <2>1, <2>2
  <1>8. CallbacksOwn'
    <2> SUFFICES ASSUME NEW u \in Steps, Others(u), NEW q \in callbacks[u], call[q] \in active_[u]
                 PROVE  /\ pc'[q] \in Underway
                        /\ pc'[q] = "registered" => call_status'[call[q]] = OK
                        /\ \A t \in Steps : call[q] \in active_[t] => t = u
      BY <1>2 DEF CallbacksOwn, Others
    <2>1. /\ pc[q] \in Underway /\ (pc[q] = "registered" => call_status[call[q]] = OK)
          /\ \A t \in Steps : call[q] \in active_[t] => t = u
      BY DEF CInv, CallbacksOwn
    <2>2. q # r /\ call[q] \in Objects
      BY <1>1, <2>1 DEF Underway, IInv, TypeOK
    <2> QED
      BY <1>1, <1>3, <1>5, <2>1, <2>2
  <1>9. BeforeCancel'
    <2> SUFFICES ASSUME \A t \in Steps : cm[t] = "idle" PROVE BeforeCancel'
      BY <1>2 DEF BeforeCancel
    <2>1. \A p \in Objects : call_status'[p] # OK =>
            \E q \in Remotes : call[q] = p /\ pc'[q] \in Underway \cup {"finish"}
      BY <1>1, <1>3 DEF CInv, BeforeCancel
    <2>2. ASSUME NEW t \in Steps, NEW q \in callbacks[t]
          PROVE  call[q] \in active_[t] /\ pc'[q] \in Underway
      <3>1. q \in Remotes /\ call[q] \in active_[t] /\ pc[q] \in Underway
        BY <1>5 DEF CInv, BeforeCancel
      <3>2. pc[q] = "registered" => call_status[call[q]] = OK
        BY <3>1 DEF CInv, CallbacksOwn, Others
      <3>3. q # r
        BY <1>1, <3>1, <3>2 DEF Underway
      <3> QED
        BY <1>1, <3>1, <3>3
    <2> QED
      BY <1>2, <2>1, <2>2 DEF CInv, BeforeCancel
  <1>10. CancelledOwn'
    <2> SUFFICES ASSUME OneCancelled, NEW p \in Objects, call_status'[p] = Cancelled
                 PROVE  \E q \in Remotes : /\ call[q] = p /\ pc'[q] \in Underway \cup {"finish"}
                                           /\ cm[StepOf[q]] # "idle"
      BY <1>2 DEF CancelledOwn, OneCancelled
    <2>1. p # o /\ call_status[p] = Cancelled
      BY <1>3
    <2>2. PICK q \in Remotes : /\ call[q] = p /\ pc[q] \in Underway \cup {"finish"}
                               /\ cm[StepOf[q]] # "idle"
      BY <2>1 DEF CInv, CancelledOwn
    <2> QED
      BY <1>1, <2>1, <2>2
  <1> QED
    BY <1>6, <1>7, <1>8, <1>9, <1>10 DEF CInv

(* A new call, and everything that has nothing to do with calls. *)
LEMMA NewCallKeeps ==
  ASSUME IInv, CInv, NEW r \in Remotes, NewCall(r)
  PROVE  CInv'
  <1> USE RemoteAssumption DEF list_vars, step_vars, object_vars, cm_vars
  <1>1. /\ pc[r] = "valid" /\ pc'[r] \in {"inited", "answered"}
        /\ \A q \in Remotes : q # r => pc'[q] = pc[q] /\ call'[q] = call[q]
    BY DEF NewCall, Goto, Done, IInv, TypeOK, Recvs
  <1>2. UNCHANGED <<active_, cm, callbacks, call_status>>
    BY DEF NewCall
  <1>3. \A q \in Recvs : answer'[q] = answer[q] \/ answer'[q] # Cancelled
    BY DEF NewCall, Done, IInv, TypeOK
  <1>4. \A t \in Steps : r \notin callbacks[t] /\ callbacks[t] \subseteq Remotes
    BY <1>1 DEF CInv, CallbacksBegun, Underway, IInv, TypeOK
  <1>5. \A q \in Remotes : pc[q] \in Underway \cup {"finish"} => q # r
    BY <1>1 DEF Underway
  <1>6. CallbacksBegun' /\ CancelIsLocal'
    BY <1>1, <1>2, <1>3, <1>4 DEF CInv, CallbacksBegun, CancelIsLocal, OneCancelled
  <1>7. BeforeCancel'
    <2>1. \A t \in Steps : \A q \in callbacks[t] : q \in Remotes /\ pc'[q] = pc[q] /\ call'[q] = call[q]
      BY <1>1, <1>4
    <2>2. \A q \in Remotes : pc[q] \in Underway \cup {"finish"} => pc'[q] = pc[q] /\ call'[q] = call[q]
      BY <1>1, <1>5
    <2> QED
      BY <1>2, <2>1, <2>2 DEF CInv, BeforeCancel
  <1>8. CallbacksOwn'
    BY <1>1, <1>2, <1>4 DEF CInv, CallbacksOwn, Others
  <1>9. CancelledOwn'
    BY <1>1, <1>2, <1>5 DEF CInv, CancelledOwn, OneCancelled
  <1> QED
    BY <1>6, <1>7, <1>8, <1>9 DEF CInv

(* Every step keeps cancellations apart. *)
LEMMA NextCInv == IInv /\ CInv /\ [Next]_vars => CInv'
  <1> SUFFICES ASSUME IInv, CInv, [Next]_vars PROVE CInv'
    OBVIOUS
  <1>1. ASSUME Quiet PROVE CInv'
    <2>1. UNCHANGED <<active_, cm, callbacks, call, call_status>>
      BY <1>1 DEF Quiet, cm_vars, list_vars, object_vars
    <2>2. \A r \in Remotes : pc[r] \in Underway \cup {"finish"} => pc'[r] = pc[r]
      BY <1>1 DEF Quiet, Underway, LocalPcs
    <2>3. \A t \in Steps : callbacks[t] \subseteq Remotes
      BY DEF IInv, TypeOK
    <2>4. \A r \in Recvs : answer'[r] = answer[r] \/ answer'[r] # Cancelled
      BY <1>1 DEF Quiet
    <2>5. \A t \in Steps : \A r \in callbacks[t] : pc'[r] = pc[r]
      <3>1. \A r \in Remotes : pc[r] = "answered" => pc'[r] = pc[r]
        BY <1>1 DEF Quiet
      <3> QED
        BY <2>2, <2>3, <3>1 DEF CInv, CallbacksBegun
    <2>6. CallbacksBegun' /\ CancelIsLocal'
      BY <2>1, <2>4, <2>5 DEF CInv, CallbacksBegun, CancelIsLocal, OneCancelled
    <2>7. BeforeCancel'
      BY <2>1, <2>2, <2>5 DEF CInv, BeforeCancel
    <2>8. CallbacksOwn'
      BY <2>1, <2>5 DEF CInv, CallbacksOwn, Others
    <2>9. CancelledOwn'
      BY <2>1, <2>2 DEF CInv, CancelledOwn, OneCancelled
    <2> QED
      BY <2>6, <2>7, <2>8, <2>9 DEF CInv
  <1>2. ASSUME NEW s \in Steps, StartCancel(s) \/ CancelEnds(s) \/ CancelCallback(s) PROVE CInv'
    BY <1>2, CancelPhaseKeeps, CancelCallbackKeeps
  <1>3. ASSUME NEW a \in Aborters, AbortActive(a) PROVE CInv'
    BY <1>3, AbortActiveKeeps
  <1>4. ASSUME NEW r \in Remotes, NewCall(r) PROVE CInv'
    BY <1>4, NewCallKeeps
  <1>5. ASSUME NEW r \in Remotes, Moves(r) PROVE CInv'
    BY <1>5, RegisterKeeps, RpcKeeps, DeregisterKeeps DEF Moves
  <1>6. ASSUME NEW r \in Remotes, Releases(r) PROVE CInv'
    BY <1>6, ReleaseKeeps
  <1> QED
    BY <1>1, <1>2, <1>3, <1>4, <1>5, <1>6, StepKinds DEF IInv

--------------------------------------------------------------------------------
(* The invariant holds in every state of the rendezvous of a worker. *)
THEOREM RemoteInvariant == Spec => []IInv
  BY InitIInv, NextIInv, PTL DEF Spec

(* A call that left active_ before it was deregistered carries an error, so  *)
(* an RPC that an abort came too late for does not report success.           *)
THEOREM AbortAlwaysMarks == Spec => []AbortLeavesMark
  <1>1. IInv => AbortLeavesMark
    BY DEF IInv
  <1> QED
    BY <1>1, RemoteInvariant, PTL

(* A call object is never held by two RecvAsyncs, nor on the free list while *)
(* one holds it or twice: New() and Release() share objects between steps    *)
(* without two calls ever writing to one.                                    *)
THEOREM CallsAreExclusive == Spec => []Ownership
  <1>1. IInv => Ownership
    BY DEF IInv
  <1> QED
    BY <1>1, RemoteInvariant, PTL

(* As long as one step at most has been cancelled, no RecvAsync of another   *)
(* step reports its cancellation, however late the callbacks run and         *)
(* whichever step has their call objects by then.                            *)
THEOREM CancellationStaysLocal == Spec => []CancelIsLocal
  <1>1. CInv => CancelIsLocal
    BY DEF CInv
  <1> QED
    BY <1>1, InitIInv, NextCInv, RemoteInvariant, PTL DEF Spec
================================================================================
