------------------------- MODULE LocalRendezvousProofs -------------------------
(***************************************************************************)
(* Proofs about LocalRendezvous, for any number of keys, of calls of Send, *)
(* RecvAsync, StartAbort and StartCancel.                                  *)
(***************************************************************************)
EXTENDS LocalRendezvous, SequenceTheorems, TLAPS

(* x is in the queue of k. *)
InQueue(k, x) == \E i \in DOMAIN table[k] : table[k][i] = x

(* A RecvAsync that calls the manager has mu_, and it is the only one; what  *)
(* it read under mu_ (no abort, no message) stays true until it pushes its   *)
(* item.                                                                     *)
Locking ==
  /\ \A r \in Recvs : recv_pc[r] \in {"locked", "token", "registered"} <=> mu = r
  /\ mu # None => status = OK /\ ~HasMessage(KeyOf[mu])

(* A queue holds items of its own key, messages only or waiters only, each   *)
(* once; an aborted rendezvous has no queue.                                 *)
Queues ==
  /\ \A k \in Keys : \A i \in DOMAIN table[k] : KeyOf[table[k][i]] = k
  /\ \A k \in Keys : \A i, j \in DOMAIN table[k] :
       /\ table[k][i] \in Sends => table[k][j] \in Sends
       /\ table[k][i] = table[k][j] => i = j
  /\ status # OK => \A k \in Keys : table[k] = <<>>

(* A token is handed out once. *)
Tokens ==
  /\ \A r \in Recvs : token[r] < next_cancellation_token
  /\ \A r \in Recvs : recv_pc[r] \in {"start", "locked"} => token[r] = kInvalidToken
  /\ \A r \in Recvs : recv_pc[r] \in {"token", "registered"} => token[r] # kInvalidToken
  /\ \A r, q \in Recvs : token[r] = token[q] /\ r # q => token[r] = kInvalidToken

(* Whoever holds an item has decided its outcome, and the outcome names the  *)
(* holder: no two threads hold the same item.                                *)
Holders ==
  /\ \A s \in Sends :
       IF send_pc[s] = "notify" THEN send_item[s] \in Recvs /\ outcome[send_item[s]] = s
                                ELSE send_item[s] = None
  /\ \A a \in Aborters : \A r \in abort_items[a] : abort_pc[a] = "calling" /\ outcome[r] = a
  /\ \A t \in Cancellers :
       IF cb_pc[t] = "found" THEN cb_item[t] \in Recvs /\ outcome[cb_item[t]] = Cancelled
                             ELSE cb_item[t] = None
  /\ \A t \in Cancellers : (cb_pc[t] = "out") <=> (running[t] = NoToken)

(* Where the item of a RecvAsync is, and what that says of its `done'. *)
PlaceOf(r) ==
  /\ recv_pc[r] \in {"start", "locked", "token", "registered"} =>
       outcome[r] = None /\ calls[r] = 0
  /\ recv_pc[r] = "deliver" => outcome[r] # None /\ calls[r] = 0
  /\ InQueue(KeyOf[r], r) <=> recv_pc[r] = "returned" /\ outcome[r] = None
  /\ Held(r) <=> recv_pc[r] = "returned" /\ outcome[r] # None /\ calls[r] = 0
  /\ outcome[r] = None => calls[r] = 0
  /\ calls[r] <= 1

Places == \A r \in Recvs : PlaceOf(r)

(* Where the message of a Send is. *)
MessageOf(s) ==
  /\ \A r, q \in Recvs : outcome[r] = s /\ outcome[q] = s => r = q
  /\ \A r \in Recvs : outcome[r] = s =>
       send_pc[s] \in {"notify", "returned"} /\ KeyOf[r] = KeyOf[s] /\ ~InQueue(KeyOf[s], s)
  /\ InQueue(KeyOf[s], s) => send_pc[s] = "returned"
  /\ send_pc[s] \in {"notify", "returned"} /\ status = OK => Taken(s) \/ InQueue(KeyOf[s], s)

Messages == \A s \in Sends : MessageOf(s)

(* An answered RecvAsync, and one about to be answered by itself, has no     *)
(* callback in the manager.                                                  *)
Released ==
  \A r \in Cancellable : calls[r] = 1 \/ recv_pc[r] = "deliver" => token[r] \notin callbacks

IInv == TypeOK /\ CancelPhase /\ Locking /\ Queues /\ Tokens /\ Holders /\ Places
          /\ Messages /\ Released

--------------------------------------------------------------------------------
(* What a step does to a queue, by positions. *)

(* p is q without its i-th element. *)
Removal(q, p, i) ==
  /\ p \in Seq(Items)
  /\ Len(p) = Len(q) - 1
  /\ \A j \in 1..Len(p) : p[j] = IF j < i THEN q[j] ELSE q[j + 1]

(* Popping the front takes out the first element, ... *)
LEMMA TailRemoves ==
  ASSUME NEW q \in Seq(Items), q # <<>>
  PROVE  1 \in DOMAIN q /\ Head(q) = q[1] /\ Removal(q, Tail(q), 1)
  <1>1. Len(q) \in Nat \ {0} /\ DOMAIN q = 1..Len(q)
    BY EmptySeq, LenProperties
  <1>2. Head(q) = q[1]
    BY <1>1
  <1>3. /\ Tail(q) \in Seq(Items) /\ Len(Tail(q)) = Len(q) - 1
        /\ \A j \in 1..Len(Tail(q)) : Tail(q)[j] = q[j + 1]
    BY HeadTailProperties
  <1> QED
    BY <1>1, <1>2, <1>3 DEF Removal

(* ... and erasing the list node that the callback has found, that one. *)
LEMMA WithoutRemoves ==
  ASSUME NEW q \in Seq(Items), NEW i \in DOMAIN q
  PROVE  Removal(q, Without(q, i), i)
  <1> DEFINE a == SubSeq(q, 1, i - 1)
             b == SubSeq(q, i + 1, Len(q))
  <1>1. Len(q) \in Nat /\ DOMAIN q = 1..Len(q) /\ i \in 1..Len(q)
    BY LenProperties
  <1>2. \A j \in 1..Len(q) : q[j] \in Items
    BY ElementOfSeq
  <1>3. /\ a \in Seq(Items) /\ Len(a) = i - 1
        /\ \A j \in 1..(i - 1) : a[j] = q[j]
    <2>1. \A j \in 1..(i - 1) : q[j] \in Items
      BY <1>1, <1>2
    <2>2. /\ a \in Seq(Items) /\ Len(a) = IF 1 <= i - 1 THEN (i - 1) - 1 + 1 ELSE 0
          /\ \A j \in 1..((i - 1) - 1 + 1) : a[j] = q[1 + j - 1]
      BY <1>1, <2>1, SubSeqProperties
    <2> QED
      BY <1>1, <2>2
  <1>4. /\ b \in Seq(Items) /\ Len(b) = Len(q) - i
        /\ \A j \in 1..(Len(q) - i) : b[j] = q[i + j]
    <2>1. \A j \in (i + 1)..Len(q) : q[j] \in Items
      BY <1>1, <1>2
    <2>2. /\ b \in Seq(Items)
          /\ Len(b) = IF i + 1 <= Len(q) THEN Len(q) - (i + 1) + 1 ELSE 0
          /\ \A j \in 1..(Len(q) - (i + 1) + 1) : b[j] = q[(i + 1) + j - 1]
      <3>1. i + 1 \in Int /\ Len(q) \in Int
        BY <1>1
      <3> QED
        BY <2>1, <3>1, SubSeqProperties
    <2> QED
      BY <1>1, <2>2
  <1> HIDE DEF a, b
  <1>5. /\ a \o b \in Seq(Items) /\ Len(a \o b) = Len(a) + Len(b)
        /\ \A j \in 1..(Len(a) + Len(b)) : (a \o b)[j] = IF j <= Len(a) THEN a[j] ELSE b[j - Len(a)]
    BY <1>3, <1>4, ConcatProperties
  <1>6. Without(q, i) = a \o b
    BY DEF Without, a, b
  <1>7. Len(a \o b) = Len(q) - 1
    BY <1>1, <1>3, <1>4, <1>5
  <1>8. ASSUME NEW j \in 1..Len(a \o b)
        PROVE  (a \o b)[j] = IF j < i THEN q[j] ELSE q[j + 1]
    <2>1. (a \o b)[j] = IF j <= i - 1 THEN a[j] ELSE b[j - (i - 1)]
      BY <1>3, <1>4, <1>5
    <2>2. CASE j < i
      BY <1>1, <1>3, <1>7, <2>1, <2>2
    <2>3. CASE ~(j < i)
      <3>1. j - (i - 1) \in 1..(Len(q) - i) /\ i + (j - (i - 1)) = j + 1 /\ ~(j <= i - 1)
        BY <1>1, <1>7, <2>3
      <3> QED
        BY <1>4, <2>1, <2>3, <3>1
    <2> QED
      BY <2>2, <2>3
  <1> QED
    BY <1>5, <1>6, <1>7, <1>8 DEF Removal

(* The front of a queue tells what all of it holds. *)
LEMMA Fronts ==
  ASSUME TypeOK, Queues, NEW k \in Keys
  PROVE  /\ HasMessage(k) <=> \E x \in Sends : InQueue(k, x)
         /\ HasWaiter(k) <=> \E x \in Recvs : InQueue(k, x)
         /\ \A x : InQueue(k, x) => x \in Items
  <1>1. table[k] \in Seq(Items)
    BY DEF TypeOK
  <1>2. /\ Len(table[k]) \in Nat /\ DOMAIN table[k] = 1..Len(table[k])
        /\ \A i \in DOMAIN table[k] : table[k][i] \in Items
        /\ table[k] # <<>> => 1 \in DOMAIN table[k] /\ Head(table[k]) = table[k][1]
    BY <1>1, LenProperties, ElementOfSeq, TailRemoves
  <1>3. table[k] = <<>> => DOMAIN table[k] = {}
    BY <1>1, <1>2, EmptySeq
  <1>4. \A i, j \in DOMAIN table[k] : table[k][i] \in Sends => table[k][j] \in Sends
    BY DEF Queues
  <1>5. \A x : x \in Recvs => x \notin Sends
    BY OpsAssumption
  <1>6. HasMessage(k) <=> table[k] # <<>> /\ table[k][1] \in Sends
    BY <1>2 DEF HasMessage, IsSendValue
  <1>7. HasWaiter(k) <=> table[k] # <<>> /\ table[k][1] \notin Sends
    BY <1>2 DEF HasWaiter, IsSendValue
  <1> QED
    BY <1>2, <1>3, <1>4, <1>5, <1>6, <1>7 DEF InQueue, Items

(* Pushing an item of the right kind keeps the queues as they should be. *)
LEMMA PushKeeps ==
  ASSUME TypeOK, Queues, status = OK, status' = status,
         NEW k \in Keys, NEW x \in Items, KeyOf[x] = k, ~InQueue(k, x),
         IF x \in Sends THEN ~HasWaiter(k) ELSE ~HasMessage(k),
         PushBack(k, x)
  PROVE  /\ table' \in [Keys -> Seq(Items)]
         /\ Queues'
         /\ \A h \in Keys : \A y : InQueue(h, y)' <=> InQueue(h, y) \/ (h = k /\ y = x)
  <1> DEFINE q == table[k]
             n == Len(q)
             p == Append(q, x)
  <1>1. q \in Seq(Items) /\ n \in Nat /\ DOMAIN q = 1..n
    BY LenProperties DEF TypeOK
  <1>2. p \in Seq(Items) /\ Len(p) = n + 1 /\ DOMAIN p = 1..(n + 1)
    BY <1>1, AppendProperties, LenProperties
  <1>3. (\A i \in 1..n : p[i] = q[i]) /\ p[n + 1] = x
    BY <1>1, AppendProperties
  <1>4. table' \in [Keys -> Seq(Items)]
    BY <1>2 DEF TypeOK, PushBack
  <1>5. \A h \in Keys : table'[h] = IF h = k THEN p ELSE table[h]
    BY DEF TypeOK, PushBack
  <1> HIDE DEF p
  <1>6. \A i \in 1..n : q[i] # x /\ (q[i] \in Sends <=> x \in Sends)
    BY <1>1, Fronts, ElementOfSeq DEF InQueue, Items
  <1>7. \A i \in 1..(n + 1) : i \in 1..n \/ i = n + 1
    BY <1>1
  <1>8. \A h \in Keys : \A y : InQueue(h, y)' <=> InQueue(h, y) \/ (h = k /\ y = x)
    <2> SUFFICES ASSUME NEW h \in Keys, NEW y
                 PROVE  InQueue(h, y)' <=> InQueue(h, y) \/ (h = k /\ y = x)
      OBVIOUS
    <2>1. CASE h # k
      BY <1>5, <2>1 DEF InQueue
    <2>2. CASE h = k
      <3>1. InQueue(h, y)' <=> \E i \in 1..(n + 1) : p[i] = y
        BY <1>2, <1>5, <2>2 DEF InQueue
      <3>2. InQueue(h, y) <=> \E i \in 1..n : q[i] = y
        BY <1>1, <2>2 DEF InQueue
      <3> QED
        BY <1>1, <1>3, <1>7, <2>2, <3>1, <3>2
    <2> QED
      BY <2>1, <2>2
  <1>9. Queues'
    <2>1. ASSUME NEW h \in Keys, NEW i \in DOMAIN table'[h] PROVE KeyOf[table'[h][i]] = h
      BY <1>1, <1>2, <1>3, <1>5, <1>7 DEF Queues
    <2>2. ASSUME NEW h \in Keys, NEW i \in DOMAIN table'[h], NEW j \in DOMAIN table'[h]
          PROVE  /\ table'[h][i] \in Sends => table'[h][j] \in Sends
                 /\ table'[h][i] = table'[h][j] => i = j
      <3>1. CASE h # k
        BY <1>5, <3>1 DEF Queues
      <3>2. CASE h = k
        BY <1>1, <1>2, <1>3, <1>5, <1>6, <1>7, <3>2 DEF Queues
      <3> QED
        BY <3>1, <3>2
    <2> QED
      BY <2>1, <2>2 DEF Queues
  <1> QED
    BY <1>4, <1>8, <1>9

(* So does taking one item out. *)
LEMMA RemovalKeeps ==
  ASSUME TypeOK, Queues, status' = status,
         NEW k \in Keys, NEW i \in DOMAIN table[k], NEW p, Removal(table[k], p, i),
         table' = [table EXCEPT ![k] = p]
  PROVE  /\ table' \in [Keys -> Seq(Items)]
         /\ Queues'
         /\ \A h \in Keys : \A y :
              InQueue(h, y)' <=> InQueue(h, y) /\ ~(h = k /\ y = table[k][i])
  <1> DEFINE q == table[k]
             n == Len(q)
             w(j) == IF j < i THEN j ELSE j + 1
  <1>1. q \in Seq(Items) /\ n \in Nat /\ DOMAIN q = 1..n /\ i \in 1..n
    BY LenProperties DEF TypeOK
  <1>2. p \in Seq(Items) /\ Len(p) = n - 1 /\ DOMAIN p = 1..(n - 1)
    BY <1>1, LenProperties DEF Removal
  <1>3. ASSUME NEW j \in 1..(n - 1) PROVE w(j) \in 1..n /\ w(j) # i /\ p[j] = q[w(j)]
    BY <1>1, <1>2, <1>3 DEF Removal
  <1>4. table' \in [Keys -> Seq(Items)]
    BY <1>2 DEF TypeOK
  <1>5. \A h \in Keys : table'[h] = IF h = k THEN p ELSE table[h]
    BY DEF TypeOK
  <1>6. \A j, l \in 1..n : q[j] = q[l] => j = l
    BY <1>1 DEF Queues
  <1>7. \A h \in Keys : \A y :
          InQueue(h, y)' <=> InQueue(h, y) /\ ~(h = k /\ y = table[k][i])
    <2> SUFFICES ASSUME NEW h \in Keys, NEW y
                 PROVE  InQueue(h, y)' <=> InQueue(h, y) /\ ~(h = k /\ y = q[i])
      OBVIOUS
    <2>1. CASE h # k
      BY <1>5, <2>1 DEF InQueue
    <2>2. CASE h = k
      <3>1. InQueue(h, y)' <=> \E j \in 1..(n - 1) : p[j] = y
        BY <1>2, <1>5, <2>2 DEF InQueue
      <3>2. InQueue(h, y) <=> \E j \in 1..n : q[j] = y
        BY <1>1, <2>2 DEF InQueue
      <3>3. ASSUME NEW j \in 1..(n - 1), p[j] = y PROVE InQueue(h, y) /\ y # q[i]
        BY <1>1, <1>3, <1>6, <3>2, <3>3
      <3>4. ASSUME NEW j \in 1..n, q[j] = y, y # q[i] PROVE \E l \in 1..(n - 1) : p[l] = y
        <4>1. CASE j < i
          <5>1. j \in 1..(n - 1) /\ w(j) = j
            BY <1>1, <4>1
          <5> QED
            BY <1>3, <3>4, <5>1
        <4>2. CASE ~(j < i)
          <5>1. j # i
            BY <3>4
          <5>2. j - 1 \in 1..(n - 1) /\ w(j - 1) = j
            BY <1>1, <4>2, <5>1
          <5> QED
            BY <1>3, <3>4, <5>2
        <4> QED
          BY <4>1, <4>2
      <3> QED
        BY <2>2, <3>1, <3>2, <3>3, <3>4
    <2> QED
      BY <2>1, <2>2
  <1>8. \A j \in 1..(n - 1) : \E v \in 1..n : p[j] = q[v]
    BY <1>3
  <1>9. ASSUME NEW j \in 1..(n - 1), NEW l \in 1..(n - 1), p[j] = p[l] PROVE j = l
    <2>1. w(j) = w(l)
      BY <1>3, <1>6, <1>9
    <2> QED
      BY <1>1, <2>1
  <1> HIDE DEF w
  <1>10. Queues'
    <2>1. ASSUME NEW h \in Keys, NEW j \in DOMAIN table'[h] PROVE KeyOf[table'[h][j]] = h
      BY <1>1, <1>2, <1>5, <1>8 DEF Queues
    <2>2. ASSUME NEW h \in Keys, NEW j \in DOMAIN table'[h], NEW l \in DOMAIN table'[h]
          PROVE  /\ table'[h][j] \in Sends => table'[h][l] \in Sends
                 /\ table'[h][j] = table'[h][l] => j = l
      <3>1. CASE h # k
        BY <1>5, <3>1 DEF Queues
      <3>2. CASE h = k
        <4>1. table'[h] = p /\ j \in 1..(n - 1) /\ l \in 1..(n - 1)
          BY <1>2, <1>5, <3>2
        <4>2. PICK v \in 1..n, u \in 1..n : p[j] = q[v] /\ p[l] = q[u]
          BY <1>8, <4>1
        <4>3. q[v] \in Sends => q[u] \in Sends
          BY <1>1 DEF Queues
        <4> QED
          BY <1>9, <4>1, <4>2, <4>3
      <3> QED
        BY <3>1, <3>2
    <2>3. status # OK => \A h \in Keys : table'[h] = <<>>
      <3>1. table[k] = <<>> => DOMAIN table[k] = {}
        BY <1>1, EmptySeq
      <3> QED
        BY <3>1 DEF Queues
    <2> QED
      BY <2>1, <2>2, <2>3 DEF Queues
  <1> QED
    BY <1>4, <1>7, <1>10

--------------------------------------------------------------------------------
(* The inductive invariant holds initially. *)
LEMMA InitIInv == Init => IInv
  <1> SUFFICES ASSUME Init PROVE IInv
    OBVIOUS
  <1> USE OpsAssumption, NoTokenAssumption DEF Init, CmInit, kInvalidToken
  <1>1. <<>> \in Seq(Items) /\ Len(<<>>) = 0 /\ DOMAIN <<>> = {}
    <2>1. <<>> \in Seq(Items) /\ Len(<<>>) = 0
      BY EmptySeq
    <2> QED
      BY <2>1, LenProperties
  <1>2. TypeOK
    BY <1>1 DEF TypeOK, CmTypeOK, Outcomes
  <1>3. CancelPhase /\ Tokens /\ Released
    BY DEF CancelPhase, Tokens, Released
  <1>4. Locking
    BY DEF Locking
  <1>5. Queues
    BY <1>1 DEF Queues
  <1>6. \A k \in Keys : \A x : ~InQueue(k, x)
    BY <1>1 DEF InQueue
  <1>7. Holders
    BY DEF Holders
  <1>8. Places
    BY <1>6 DEF Places, PlaceOf, Held
  <1>9. Messages
    BY <1>6 DEF Messages, MessageOf
  <1> QED
    BY <1>2, <1>3, <1>4, <1>5, <1>7, <1>8, <1>9 DEF IInv

(* No two threads hold the same item. *)
LEMMA OneHolder ==
  ASSUME TypeOK, CancelPhase, Holders, NEW r \in Recvs
  PROVE  /\ \A s \in Sends : send_item[s] = r => outcome[r] = s
         /\ \A a \in Aborters : r \in abort_items[a] => outcome[r] = a
         /\ \A t \in Cancellers : cb_item[t] = r => outcome[r] = Cancelled
         /\ \A t, u \in Cancellers : cb_item[t] = r /\ cb_item[u] = r => t = u
  <1>1. \A t \in Cancellers : cb_item[t] = r => cb_pc[t] = "found"
    BY OpsAssumption DEF Holders
  <1>2. \A t \in Cancellers : cb_item[t] = r => cancel_pc[t] = "loop"
    BY <1>1 DEF Holders, CancelPhase
  <1>3. \A t, u \in Cancellers : cb_item[t] = r /\ cb_item[u] = r => t = u
    BY <1>2 DEF CancelPhase
  <1>4. \A s \in Sends : send_item[s] = r => outcome[r] = s
    BY OpsAssumption DEF Holders
  <1> QED
    BY <1>1, <1>3, <1>4 DEF Holders

(* The call of a waiter, by whoever holds the item, leaves the manager       *)
(* without the callback of that RecvAsync, and the item to nobody.           *)
LEMMA Answering ==
  ASSUME IInv, NEW r \in Recvs, Held(r), waiter(r),
         UNCHANGED <<mu, table, status, recv_vars, outcome>>,
         \A q \in Recvs : Held(q)' <=> Held(q) /\ q # r
  PROVE  /\ CmTypeOK' /\ calls' \in [Recvs -> Nat]
         /\ running' = running
         /\ CancelPhase' /\ Locking' /\ Queues' /\ Tokens' /\ Places' /\ Released'
         /\ \A k \in Keys : \A x : InQueue(k, x)' <=> InQueue(k, x)
  <1> USE OpsAssumption DEF IInv, recv_vars
  <1>1. calls \in [Recvs -> Nat] /\ calls[r] = 0 /\ recv_pc[r] = "returned" /\ outcome[r] # None
    BY DEF Places, PlaceOf, TypeOK
  <1>2. calls' = [calls EXCEPT ![r] = 1]
    BY <1>1 DEF waiter, done
  <1>3. /\ UNCHANGED <<is_cancelling, is_cancelled, cancelled_notification,
                       next_cancellation_token, callbacks_to_run, running, cancel_pc>>
        /\ callbacks' \subseteq callbacks
        /\ r \in Cancellable => token[r] \notin callbacks'
    BY DEF waiter, TryDeregisterCallback, cm_vars, start_cancel_vars, CancelPhase
  <1>4. CmTypeOK'
    BY <1>3 DEF TypeOK, CmTypeOK
  <1>5. CancelPhase'
    BY <1>3 DEF CancelPhase
  <1>6. Locking' /\ Queues' /\ Tokens'
    BY <1>3 DEF Locking, HasMessage, Queues, Tokens
  <1>7. \A k \in Keys : \A x : InQueue(k, x)' <=> InQueue(k, x)
    BY DEF InQueue
  <1>8. ASSUME NEW q \in Recvs PROVE PlaceOf(q)'
    <2>1. KeyOf[q] \in Keys
      OBVIOUS
    <2>2. calls'[q] = IF q = r THEN 1 ELSE calls[q]
      BY <1>1, <1>2
    <2> QED
      BY <1>1, <1>7, <2>1, <2>2 DEF Places, PlaceOf
  <1>9. Released'
    BY <1>1, <1>2, <1>3 DEF Released
  <1> QED
    BY <1>1, <1>2, <1>3, <1>4, <1>5, <1>6, <1>7, <1>8, <1>9 DEF Places

(* The steps of Send. *)
LEMMA SendKeeps == ASSUME IInv, NEW s \in Sends, Send(s) PROVE IInv'
  <1> DEFINE k == KeyOf[s]
  <1> USE OpsAssumption
       DEF IInv, cm_vars, send_vars, recv_vars, abort_vars, cb_vars, done_vars
  <1>0. k \in Keys /\ s \in Items /\ (\A r \in Recvs : r # s /\ KeyOf[r] \in Keys)
    BY DEF Items
  <1>1. CASE SendAborted(s)
    <2> USE <1>1 DEF SendAborted
    <2>1. TypeOK'
      BY DEF TypeOK, CmTypeOK
    <2>2. CancelPhase' /\ Locking' /\ Queues' /\ Tokens' /\ Released'
      BY DEF CancelPhase, Locking, HasMessage, Queues, Tokens, Released
    <2>3. Holders'
      BY DEF TypeOK, Holders
    <2>4. Places'
      BY DEF Places, PlaceOf, Held, InQueue
    <2>5. \A u \in Sends : send_pc'[u] = IF u = s THEN "failed" ELSE send_pc[u]
      BY DEF TypeOK
    <2>6. Messages'
      BY <2>5 DEF Messages, MessageOf, InQueue, Taken
    <2> QED
      BY <2>1, <2>2, <2>3, <2>4, <2>6
  <1>2. CASE SendEnqueues(s)
    <2> USE <1>2 DEF SendEnqueues
    <2>1. \A u \in Sends : send_pc'[u] = IF u = s THEN "returned" ELSE send_pc[u]
      BY DEF TypeOK
    <2>2. ~InQueue(k, s) /\ ~Taken(s)
      BY DEF Messages, MessageOf, Taken
    <2>3. /\ table' \in [Keys -> Seq(Items)] /\ Queues'
          /\ \A h \in Keys : \A y : InQueue(h, y)' <=> InQueue(h, y) \/ (h = k /\ y = s)
      BY <1>0, <2>2, PushKeeps
    <2>4. TypeOK'
      <3>1. arrivals' \in [Keys -> Seq(Items)]
        <4>1. Append(arrivals[k], s) \in Seq(Items)
          BY <1>0, AppendProperties DEF TypeOK
        <4> QED
          BY <4>1 DEF TypeOK, Arrive
      <3> QED
        BY <2>3, <3>1 DEF TypeOK, CmTypeOK
    <2>5. CancelPhase' /\ Locking' /\ Tokens' /\ Released'
      BY DEF CancelPhase, Locking, Tokens, Released
    <2>6. Holders'
      BY <2>1 DEF Holders
    <2>7. Places'
      BY <1>0, <2>3 DEF Places, PlaceOf, Held
    <2>8. ASSUME NEW u \in Sends PROVE MessageOf(u)'
      <3>1. KeyOf[u] \in Keys
        OBVIOUS
      <3>2. InQueue(KeyOf[u], u)' <=> InQueue(KeyOf[u], u) \/ u = s
        BY <2>3, <3>1
      <3>3. Taken(u)' <=> Taken(u)
        BY DEF Taken
      <3> QED
        BY <2>1, <2>2, <3>2, <3>3 DEF Messages, MessageOf, Taken
    <2> QED
      BY <2>3, <2>4, <2>5, <2>6, <2>7, <2>8 DEF Messages
  <1>3. CASE SendTakesWaiter(s)
    <2> DEFINE q == table[k]
               r == Head(q)
    <2> USE <1>3 DEF SendTakesWaiter
    <2>1. \A u \in Sends : send_pc'[u] = IF u = s THEN "notify" ELSE send_pc[u]
      BY DEF TypeOK
    <2>2. q \in Seq(Items) /\ q # <<>> /\ r \notin Sends
      BY <1>0 DEF TypeOK, HasWaiter, IsSendValue
    <2>3. 1 \in DOMAIN q /\ r = q[1] /\ Removal(q, Tail(q), 1)
      BY <2>2, TailRemoves
    <2>4. r \in Recvs /\ KeyOf[r] = k /\ InQueue(k, r)
      <3>1. InQueue(k, r)
        BY <2>3 DEF InQueue
      <3>2. r \in Items
        BY <1>0, <3>1, Fronts
      <3> QED
        BY <1>0, <2>2, <2>3, <3>1, <3>2 DEF Items, Queues
    <2>5. /\ table' \in [Keys -> Seq(Items)] /\ Queues'
          /\ \A h \in Keys : \A y : InQueue(h, y)' <=> InQueue(h, y) /\ ~(h = k /\ y = r)
      <3>1. table' = [table EXCEPT ![k] = Tail(q)] /\ status' = status
        BY DEF PopFront
      <3>2. /\ table' \in [Keys -> Seq(Items)] /\ Queues'
            /\ \A h \in Keys : \A y : InQueue(h, y)' <=> InQueue(h, y) /\ ~(h = k /\ y = q[1])
        <4> HIDE DEF q, r
        <4> QED
          BY <1>0, <2>3, <3>1, RemovalKeeps DEF q
      <3> QED
        BY <2>3, <3>2
    <2>6. \A p \in Recvs : outcome'[p] = IF p = r THEN s ELSE outcome[p]
      BY <2>4 DEF Decide, TypeOK
    <2>7. \A u \in Sends : send_item'[u] = IF u = s THEN r ELSE send_item[u]
      BY DEF TypeOK
    <2> HIDE DEF r, q
    <2>8. TypeOK'
      <3>1. arrivals' \in [Keys -> Seq(Items)]
        <4>1. Append(arrivals[k], s) \in Seq(Items)
          BY <1>0, AppendProperties DEF TypeOK
        <4> QED
          BY <4>1 DEF TypeOK, Arrive
      <3>2. outcome' \in [Recvs -> Outcomes] /\ send_item' \in [Sends -> Recvs \cup {None}]
        BY <2>4 DEF Decide, TypeOK, Outcomes, r, q
      <3> QED
        BY <2>5, <3>1, <3>2 DEF TypeOK, CmTypeOK
    <2>9. CancelPhase' /\ Locking' /\ Tokens' /\ Released'
      BY DEF CancelPhase, Locking, Tokens, Released
    <2>10. /\ recv_pc[r] = "returned" /\ outcome[r] = None /\ calls[r] = 0
           /\ ~Held(r) /\ ~Taken(s) /\ ~InQueue(k, s)
      <3>1. PlaceOf(r) /\ MessageOf(s)
        BY <2>4 DEF Places, Messages
      <3> QED
        BY <2>4, <3>1 DEF PlaceOf, MessageOf, Taken
    <2>11. Holders'
      <3>1. \A u \in Sends : send_item[u] # r
        BY <2>10 DEF Held
      <3>2. ASSUME NEW u \in Sends
            PROVE  IF send_pc'[u] = "notify" THEN send_item'[u] \in Recvs /\ outcome'[send_item'[u]] = u
                                             ELSE send_item'[u] = None
        BY <2>1, <2>4, <2>6, <2>7, <3>1 DEF Holders
      <3>3. ASSUME NEW a \in Aborters, NEW p \in abort_items[a] PROVE abort_pc[a] = "calling" /\ outcome'[p] = a
        <4>1. p \in Recvs /\ p # r
          BY <2>10 DEF TypeOK, Held
        <4> QED
          BY <2>6, <4>1 DEF Holders
      <3>4. \A t \in Cancellers : cb_item[t] # r
        BY <2>10 DEF Held
      <3> QED
        BY <2>6, <3>2, <3>3, <3>4 DEF Holders
    <2>12. ASSUME NEW p \in Recvs PROVE PlaceOf(p)'
      <3>1. Held(p)' <=> Held(p) \/ p = r
        BY <2>4, <2>7, <2>10 DEF Held, Holders
      <3>2. InQueue(KeyOf[p], p)' <=> InQueue(KeyOf[p], p) /\ p # r
        BY <1>0, <2>4, <2>5
      <3>3. PlaceOf(p) /\ recv_pc' = recv_pc /\ calls' = calls /\ s # None
        BY DEF Places
      <3> QED
        BY <2>6, <2>10, <3>1, <3>2, <3>3 DEF PlaceOf
    <2>13. ASSUME NEW u \in Sends PROVE MessageOf(u)'
      <3>1. InQueue(KeyOf[u], u)' <=> InQueue(KeyOf[u], u)
        BY <1>0, <2>4, <2>5
      <3>2. MessageOf(u) /\ (Taken(u)' <=> Taken(u) \/ u = s) /\ status' = status
        BY <2>4, <2>6, <2>10 DEF Messages, Taken
      <3> QED
        BY <2>1, <2>4, <2>6, <2>10, <3>1, <3>2 DEF MessageOf, Taken
    <2> QED
      BY <2>5, <2>8, <2>9, <2>11, <2>12, <2>13 DEF Places, Messages
  <1>4. CASE SendNotifies(s)
    <2> DEFINE r == send_item[s]
    <2> USE <1>4 DEF SendNotifies
    <2>1. r \in Recvs /\ outcome[r] = s /\ Held(r)
      BY DEF Holders, Held
    <2>2. \A u \in Sends : /\ send_pc'[u] = IF u = s THEN "returned" ELSE send_pc[u]
                           /\ send_item'[u] = IF u = s THEN None ELSE send_item[u]
      BY DEF TypeOK
    <2>3. ASSUME NEW p \in Recvs PROVE Held(p)' <=> Held(p) /\ p # r
      BY <2>1, <2>2, OneHolder DEF Held
    <2> HIDE DEF r
    <2>4. /\ CmTypeOK' /\ calls' \in [Recvs -> Nat] /\ running' = running
          /\ CancelPhase' /\ Locking' /\ Queues' /\ Tokens' /\ Places' /\ Released'
          /\ \A h \in Keys : \A x : InQueue(h, x)' <=> InQueue(h, x)
      BY <2>1, <2>3, Answering DEF r
    <2>5. TypeOK'
      BY <2>4 DEF TypeOK
    <2>6. Holders'
      BY <2>2, <2>4 DEF Holders
    <2>7. Messages'
      BY <2>2, <2>4 DEF Messages, MessageOf, Taken
    <2> QED
      BY <2>4, <2>5, <2>6, <2>7
  <1> QED
    BY <1>1, <1>2, <1>3, <1>4 DEF Send

(* The steps of RecvAsync that push its item: with or without a manager. *)
LEMMA RecvPushes ==
  ASSUME IInv, NEW r \in Recvs, status = OK, ~HasMessage(KeyOf[r]),
         recv_pc[r] \in {"start", "registered"}, mu \in {None, r},
         PushBack(KeyOf[r], r), Arrive(KeyOf[r], r), mu' = None,
         recv_pc' = [recv_pc EXCEPT ![r] = "returned"],
         UNCHANGED <<cm_vars, status, send_vars, token, abort_vars, cb_vars, done_vars>>
  PROVE  IInv'
  <1> DEFINE k == KeyOf[r]
  <1> USE OpsAssumption
       DEF IInv, cm_vars, send_vars, recv_vars, abort_vars, cb_vars, done_vars
  <1>0. k \in Keys /\ r \in Items /\ r \notin Sends
    BY DEF Items
  <1>1. \A q \in Recvs : recv_pc'[q] = IF q = r THEN "returned" ELSE recv_pc[q]
    BY DEF TypeOK
  <1>2. outcome[r] = None /\ calls[r] = 0 /\ ~InQueue(k, r) /\ ~Held(r)
    BY DEF Places, PlaceOf
  <1>3. /\ table' \in [Keys -> Seq(Items)] /\ Queues'
        /\ \A h \in Keys : \A y : InQueue(h, y)' <=> InQueue(h, y) \/ (h = k /\ y = r)
    BY <1>0, <1>2, PushKeeps
  <1>4. TypeOK'
    <2>1. arrivals' \in [Keys -> Seq(Items)]
      <3>1. Append(arrivals[k], r) \in Seq(Items)
        BY <1>0, AppendProperties DEF TypeOK
      <3> QED
        BY <3>1 DEF TypeOK, Arrive
    <2> QED
      BY <1>3, <2>1 DEF TypeOK, CmTypeOK
  <1>5. CancelPhase' /\ Holders'
    BY DEF CancelPhase, Holders
  <1>6. Locking'
    BY <1>1 DEF Locking
  <1>7. Tokens' /\ Released'
    BY <1>1, <1>2 DEF Tokens, Released
  <1>8. ASSUME NEW q \in Recvs PROVE PlaceOf(q)'
    <2>1. Held(q)' <=> Held(q)
      BY DEF Held
    <2>2. InQueue(KeyOf[q], q)' <=> InQueue(KeyOf[q], q) \/ q = r
      BY <1>3
    <2>3. PlaceOf(q)
      BY DEF Places
    <2> QED
      BY <1>1, <1>2, <2>1, <2>2, <2>3 DEF PlaceOf
  <1>9. ASSUME NEW u \in Sends PROVE MessageOf(u)'
    <2>1. InQueue(KeyOf[u], u)' <=> InQueue(KeyOf[u], u)
      BY <1>0, <1>3
    <2> QED
      BY <2>1 DEF Messages, MessageOf, Taken
  <1> QED
    BY <1>3, <1>4, <1>5, <1>6, <1>7, <1>8, <1>9 DEF Places, Messages

(* The steps of RecvAsync. *)
LEMMA RecvKeeps == ASSUME IInv, NEW r \in Recvs, RecvAsync(r) PROVE IInv'
  <1> DEFINE k == KeyOf[r]
  <1> USE OpsAssumption
       DEF IInv, cm_vars, send_vars, recv_vars, abort_vars, cb_vars, done_vars, start_cancel_vars
  <1>0. k \in Keys /\ r \in Items /\ r \notin Sends
    BY DEF Items
  <1>1. CASE RecvAborted(r)
    <2> USE <1>1 DEF RecvAborted, Decide
    <2>1. \A q \in Recvs : /\ recv_pc'[q] = IF q = r THEN "deliver" ELSE recv_pc[q]
                           /\ outcome'[q] = IF q = r THEN status ELSE outcome[q]
      BY DEF TypeOK
    <2>2. status \in Aborters /\ outcome[r] = None /\ calls[r] = 0 /\ ~InQueue(k, r) /\ ~Held(r)
      BY DEF Places, PlaceOf, TypeOK
    <2>3. TypeOK'
      BY <2>2 DEF TypeOK, CmTypeOK, Outcomes
    <2>4. CancelPhase' /\ Locking' /\ Queues'
      BY <2>1 DEF CancelPhase, Locking, HasMessage, Queues
    <2>5. Tokens'
      BY <2>1 DEF Tokens
    <2>6. Released'
      BY <2>1 DEF Released, Tokens, TypeOK, CmTypeOK, kInvalidToken
    <2>7. Holders'
      BY <2>1, <2>2 DEF Holders, Held, TypeOK
    <2>8. ASSUME NEW q \in Recvs PROVE PlaceOf(q)'
      <3>1. PlaceOf(q) /\ (Held(q)' <=> Held(q))
            /\ (InQueue(KeyOf[q], q)' <=> InQueue(KeyOf[q], q)) /\ calls' = calls
        BY DEF Places, Held, InQueue
      <3> QED
        BY <2>1, <2>2, <3>1 DEF PlaceOf
    <2>9. ASSUME NEW u \in Sends PROVE MessageOf(u)'
      <3>1. MessageOf(u) /\ (InQueue(KeyOf[u], u)' <=> InQueue(KeyOf[u], u))
        BY DEF Messages, InQueue
      <3>2. \A q \in Recvs : outcome'[q] = u <=> outcome[q] = u
        BY <2>1, <2>2
      <3> QED
        BY <3>1, <3>2 DEF MessageOf, Taken
    <2> QED
      BY <2>3, <2>4, <2>5, <2>6, <2>7, <2>8, <2>9 DEF Places, Messages
  <1>2. CASE RecvTakesMessage(r)
    <2> DEFINE q == table[k]
               s == Head(q)
    <2> USE <1>2 DEF RecvTakesMessage
    <2>1. q \in Seq(Items) /\ q # <<>> /\ s \in Sends
      BY <1>0 DEF TypeOK, HasMessage, IsSendValue
    <2>2. 1 \in DOMAIN q /\ s = q[1] /\ Removal(q, Tail(q), 1)
      BY <2>1, TailRemoves
    <2>3. KeyOf[s] = k /\ InQueue(k, s)
      BY <1>0, <2>2 DEF InQueue, Queues
    <2>4. /\ table' \in [Keys -> Seq(Items)] /\ Queues'
          /\ \A h \in Keys : \A y : InQueue(h, y)' <=> InQueue(h, y) /\ ~(h = k /\ y = s)
      <3>1. table' = [table EXCEPT ![k] = Tail(q)] /\ status' = status
        BY DEF PopFront
      <3>2. /\ table' \in [Keys -> Seq(Items)] /\ Queues'
            /\ \A h \in Keys : \A y : InQueue(h, y)' <=> InQueue(h, y) /\ ~(h = k /\ y = q[1])
        <4> HIDE DEF q, s
        <4> QED
          BY <1>0, <2>2, <3>1, RemovalKeeps DEF q
      <3> QED
        BY <2>2, <3>2
    <2>5. \A p \in Recvs : /\ recv_pc'[p] = IF p = r THEN "deliver" ELSE recv_pc[p]
                           /\ outcome'[p] = IF p = r THEN s ELSE outcome[p]
      BY DEF TypeOK, Decide
    <2>6. outcome' = [outcome EXCEPT ![r] = s]
      BY DEF Decide
    <2> HIDE DEF s, q
    <2>7. outcome[r] = None /\ calls[r] = 0 /\ ~InQueue(k, r) /\ ~Held(r)
      BY DEF Places, PlaceOf
    <2>8. TypeOK'
      <3>1. arrivals' \in [Keys -> Seq(Items)]
        <4>1. Append(arrivals[k], r) \in Seq(Items)
          BY <1>0, AppendProperties DEF TypeOK
        <4> QED
          BY <4>1 DEF TypeOK, Arrive
      <3>2. outcome' \in [Recvs -> Outcomes]
        BY <2>1, <2>6 DEF TypeOK, Outcomes
      <3> QED
        BY <2>4, <3>1, <3>2 DEF TypeOK, CmTypeOK
    <2>9. CancelPhase' /\ Locking'
      BY <2>5 DEF CancelPhase, Locking
    <2>10. Tokens'
      BY <2>5 DEF Tokens
    <2>11. Released'
      BY <2>5 DEF Released, Tokens, TypeOK, CmTypeOK, kInvalidToken
    <2>12. Holders'
      BY <2>5, <2>7 DEF Holders, Held, TypeOK
    <2>13. ASSUME NEW p \in Recvs PROVE PlaceOf(p)'
      <3>1. PlaceOf(p) /\ (Held(p)' <=> Held(p)) /\ calls' = calls /\ s # None
        BY <2>1 DEF Places, Held
      <3>2. InQueue(KeyOf[p], p)' <=> InQueue(KeyOf[p], p)
        BY <2>1, <2>4
      <3> QED
        BY <2>5, <2>7, <3>1, <3>2 DEF PlaceOf
    <2>14. ASSUME NEW u \in Sends PROVE MessageOf(u)'
      <3>1. InQueue(KeyOf[u], u)' <=> InQueue(KeyOf[u], u) /\ u # s
        BY <2>3, <2>4
      <3>2. MessageOf(u) /\ MessageOf(s) /\ (Taken(u)' <=> Taken(u) \/ u = s) /\ status' = status
        BY <2>1, <2>5, <2>7 DEF Messages, Taken
      <3> QED
        BY <2>1, <2>3, <2>5, <2>7, <3>1, <3>2 DEF MessageOf, Taken
    <2> QED
      BY <2>4, <2>8, <2>9, <2>10, <2>11, <2>12, <2>13, <2>14 DEF Places, Messages
  <1>3. CASE RecvFindsNoMessage(r)
    <2>1. CASE r \notin Cancellable
      BY <1>3, <2>1, RecvPushes DEF RecvFindsNoMessage
    <2>2. CASE r \in Cancellable
      <3>0. /\ recv_pc[r] = "start" /\ mu = None /\ status = OK /\ ~HasMessage(KeyOf[r])
            /\ mu' = r /\ recv_pc' = [recv_pc EXCEPT ![r] = "locked"]
            /\ UNCHANGED <<table, arrivals, cm_vars, status, send_vars, token, abort_vars,
                           cb_vars, done_vars>>
        BY <1>3, <2>2 DEF RecvFindsNoMessage
      <3> USE <3>0
      <3>1. \A q \in Recvs : recv_pc'[q] = IF q = r THEN "locked" ELSE recv_pc[q]
        BY DEF TypeOK
      <3>2. TypeOK' /\ CancelPhase' /\ Queues' /\ Holders'
        <4>1. TypeOK'
          BY DEF TypeOK, CmTypeOK
        <4> QED
          BY <4>1 DEF CancelPhase, Queues, Holders
      <3>3. Locking'
        BY <3>1 DEF Locking, HasMessage
      <3>4. Tokens' /\ Released'
        BY <3>1 DEF Tokens, Released
      <3>5. Places'
        BY <3>1 DEF Places, PlaceOf, Held, InQueue
      <3>6. Messages'
        BY DEF Messages, MessageOf, Taken, InQueue
      <3> QED
        BY <3>2, <3>3, <3>4, <3>5, <3>6
    <2> QED
      BY <2>1, <2>2
  <1>4. CASE RecvGetsToken(r)
    <2> USE <1>4 DEF RecvGetsToken, get_cancellation_token
    <2>1. \A q \in Recvs : /\ recv_pc'[q] = IF q = r THEN "token" ELSE recv_pc[q]
                           /\ token'[q] = IF q = r THEN next_cancellation_token ELSE token[q]
      BY DEF TypeOK
    <2>2. TypeOK' /\ CancelPhase' /\ Queues' /\ Holders'
      BY DEF TypeOK, CmTypeOK, CancelPhase, Queues, Holders
    <2>3. Locking'
      BY <2>1 DEF Locking, HasMessage
    <2>4. Tokens'
      <3>1. next_cancellation_token \in Nat /\ next_cancellation_token' = next_cancellation_token + 1
        BY DEF TypeOK, CmTypeOK
      <3>2. \A q \in Recvs : token[q] \in Int /\ token[q] < next_cancellation_token
        BY DEF TypeOK, Tokens, kInvalidToken
      <3>3. \A q \in Recvs : token'[q] < next_cancellation_token'
        BY <2>1, <3>1, <3>2
      <3>4. \A p, q \in Recvs : token'[p] = token'[q] /\ p # q => token'[p] = kInvalidToken
        BY <2>1, <3>1, <3>2 DEF Tokens
      <3>5. next_cancellation_token # kInvalidToken
        BY <3>1 DEF kInvalidToken
      <3> QED
        BY <2>1, <3>3, <3>4, <3>5 DEF Tokens
    <2>5. calls[r] = 0
      BY DEF Places, PlaceOf
    <2>6. Released'
      BY <2>1, <2>5 DEF Released
    <2>7. Places'
      BY <2>1 DEF Places, PlaceOf, Held, InQueue
    <2>8. Messages'
      BY DEF Messages, MessageOf, Taken, InQueue
    <2> QED
      BY <2>2, <2>3, <2>4, <2>6, <2>7, <2>8
  <1>5. CASE RecvRegisters(r) /\ ShouldRegister
    <2> USE <1>5 DEF RecvRegisters, RegisterCallback, ShouldRegister
    <2>1. \A q \in Recvs : recv_pc'[q] = IF q = r THEN "registered" ELSE recv_pc[q]
      BY DEF TypeOK
    <2>2. token[r] \in Nat
      BY DEF TypeOK, Tokens
    <2>3. TypeOK'
      BY <2>2 DEF TypeOK, CmTypeOK
    <2>4. CancelPhase' /\ Queues' /\ Holders'
      BY DEF CancelPhase, Queues, Holders
    <2>5. Locking'
      BY <2>1 DEF Locking, HasMessage
    <2>6. Tokens'
      BY <2>1 DEF Tokens
    <2>7. calls[r] = 0
      BY DEF Places, PlaceOf
    <2>8. Released'
      BY <2>1, <2>2, <2>7 DEF Released, Tokens, kInvalidToken
    <2>9. Places'
      BY <2>1 DEF Places, PlaceOf, Held, InQueue
    <2>10. Messages'
      BY DEF Messages, MessageOf, Taken, InQueue
    <2> QED
      BY <2>3, <2>4, <2>5, <2>6, <2>8, <2>9, <2>10
  <1>6. CASE RecvRegisters(r) /\ ~ShouldRegister
    <2> USE <1>6 DEF RecvRegisters, RegisterCallback, ShouldRegister, Decide
    <2>1. \A q \in Recvs : /\ recv_pc'[q] = IF q = r THEN "deliver" ELSE recv_pc[q]
                           /\ outcome'[q] = IF q = r THEN Cancelled ELSE outcome[q]
      BY DEF TypeOK
    <2>2. outcome[r] = None /\ calls[r] = 0 /\ ~InQueue(k, r) /\ ~Held(r) /\ callbacks' = {}
      BY DEF Places, PlaceOf, CancelPhase
    <2>3. TypeOK'
      BY DEF TypeOK, CmTypeOK, Outcomes
    <2>4. CancelPhase' /\ Queues'
      BY <2>1 DEF CancelPhase, Queues
    <2>5. Locking' /\ Tokens' /\ Released'
      BY <2>1, <2>2 DEF Locking, Tokens, Released
    <2>6. Holders'
      BY <2>1, <2>2 DEF Holders, Held, TypeOK
    <2>7. ASSUME NEW q \in Recvs PROVE PlaceOf(q)'
      <3>1. PlaceOf(q) /\ (Held(q)' <=> Held(q))
            /\ (InQueue(KeyOf[q], q)' <=> InQueue(KeyOf[q], q)) /\ calls' = calls
        BY DEF Places, Held, InQueue
      <3> QED
        BY <2>1, <2>2, <3>1 DEF PlaceOf
    <2>8. ASSUME NEW u \in Sends PROVE MessageOf(u)'
      <3>1. MessageOf(u) /\ (InQueue(KeyOf[u], u)' <=> InQueue(KeyOf[u], u))
        BY DEF Messages, InQueue
      <3>2. \A q \in Recvs : outcome'[q] = u <=> outcome[q] = u
        BY <2>1, <2>2
      <3> QED
        BY <3>1, <3>2 DEF MessageOf, Taken
    <2> QED
      BY <2>3, <2>4, <2>5, <2>6, <2>7, <2>8 DEF Places, Messages
  <1>7. CASE RecvEnqueues(r)
    <2>1. mu = r /\ status = OK /\ ~HasMessage(KeyOf[r])
      BY <1>7 DEF RecvEnqueues, Locking
    <2> QED
      BY <1>7, <2>1, RecvPushes DEF RecvEnqueues
  <1>8. CASE RecvDelivers(r)
    <2> USE <1>8 DEF RecvDelivers, done
    <2>1. outcome[r] # None /\ calls[r] = 0 /\ ~InQueue(k, r) /\ ~Held(r)
      BY DEF Places, PlaceOf
    <2>2. \A q \in Recvs : /\ recv_pc'[q] = IF q = r THEN "returned" ELSE recv_pc[q]
                           /\ calls'[q] = IF q = r THEN 1 ELSE calls[q]
      BY <2>1 DEF TypeOK
    <2>3. TypeOK' /\ CancelPhase' /\ Queues' /\ Holders'
      BY DEF TypeOK, CmTypeOK, CancelPhase, Queues, Holders
    <2>4. Locking'
      BY <2>2 DEF Locking, HasMessage
    <2>5. Tokens' /\ Released'
      BY <2>2 DEF Tokens, Released
    <2>6. ASSUME NEW q \in Recvs PROVE PlaceOf(q)'
      <3>1. PlaceOf(q) /\ (Held(q)' <=> Held(q))
            /\ (InQueue(KeyOf[q], q)' <=> InQueue(KeyOf[q], q)) /\ outcome' = outcome
        BY DEF Places, Held, InQueue
      <3> QED
        BY <2>1, <2>2, <3>1 DEF PlaceOf
    <2>7. Messages'
      BY DEF Messages, MessageOf, Taken, InQueue
    <2> QED
      BY <2>3, <2>4, <2>5, <2>6, <2>7 DEF Places
  <1> QED
    BY <1>1, <1>2, <1>3, <1>4, <1>5, <1>6, <1>7, <1>8 DEF RecvAsync

(* The steps of StartAbort. *)
LEMMA AbortKeeps == ASSUME IInv, NEW a \in Aborters, StartAbort(a) PROVE IInv'
  <1> USE OpsAssumption
       DEF IInv, cm_vars, send_vars, recv_vars, abort_vars, cb_vars, done_vars
  <1>1. CASE AbortSwapsTable(a)
    <2> USE <1>1 DEF AbortSwapsTable
    <2>1. \A r \in Recvs : r \in Waiters <=> InQueue(KeyOf[r], r)
      BY DEF Waiters, InQueue, Queues
    <2>2. \A r \in Recvs : outcome'[r] = IF r \in Waiters THEN a ELSE outcome[r]
      BY DEF TypeOK
    <2>3. \A b \in Aborters : /\ abort_items'[b] = IF b = a THEN Waiters ELSE abort_items[b]
                              /\ abort_pc'[b] = IF b = a THEN "calling" ELSE abort_pc[b]
      BY DEF TypeOK
    <2>4. Waiters \subseteq Recvs
      BY DEF Waiters
    <2> HIDE DEF Waiters
    <2>5. status' \in Aborters /\ status' # OK
      BY DEF TypeOK
    <2>6. \A r \in Waiters : recv_pc[r] = "returned" /\ outcome[r] = None /\ ~Held(r)
      BY <2>1, <2>4 DEF Places, PlaceOf
    <2>7. <<>> \in Seq(Items) /\ DOMAIN <<>> = {}
      <3>1. <<>> \in Seq(Items) /\ Len(<<>>) = 0
        BY EmptySeq
      <3> QED
        BY <3>1, LenProperties
    <2>8. \A k \in Keys : table'[k] = <<>> /\ \A x : ~InQueue(k, x)'
      BY <2>7 DEF InQueue
    <2>9. TypeOK'
      <3>1. outcome' \in [Recvs -> Outcomes]
        BY DEF TypeOK, Outcomes
      <3>2. abort_items' \in [Aborters -> SUBSET Recvs]
        BY <2>4 DEF TypeOK
      <3> QED
        BY <2>5, <2>7, <3>1, <3>2 DEF TypeOK, CmTypeOK
    <2>10. CancelPhase' /\ Tokens' /\ Released'
      BY DEF CancelPhase, Tokens, Released
    <2>11. Locking'
      BY DEF Locking
    <2>12. Queues'
      BY <2>7, <2>8 DEF Queues
    <2>13. Holders'
      <3>1. ASSUME NEW s \in Sends
            PROVE  IF send_pc[s] = "notify" THEN send_item[s] \in Recvs /\ outcome'[send_item[s]] = s
                                            ELSE send_item[s] = None
        BY <2>2, <2>6 DEF Holders, Held
      <3>2. ASSUME NEW b \in Aborters, NEW r \in abort_items'[b]
            PROVE  abort_pc'[b] = "calling" /\ outcome'[r] = b
        <4>1. CASE r \in Waiters
          BY <2>2, <2>3, <2>4, <2>6, <3>2, <4>1 DEF Held
        <4>2. CASE r \notin Waiters
          BY <2>2, <2>3, <3>2, <4>2 DEF Holders, TypeOK
        <4> QED
          BY <4>1, <4>2
      <3>3. ASSUME NEW t \in Cancellers
            PROVE  IF cb_pc[t] = "found" THEN cb_item[t] \in Recvs /\ outcome'[cb_item[t]] = Cancelled
                                         ELSE cb_item[t] = None
        BY <2>2, <2>6 DEF Holders, Held
      <3> QED
        BY <3>1, <3>2, <3>3 DEF Holders
    <2>14. ASSUME NEW r \in Recvs PROVE PlaceOf(r)'
      <3>1. Held(r)' <=> Held(r) \/ r \in Waiters
        BY <2>3 DEF Held, Holders
      <3>2. PlaceOf(r) /\ recv_pc' = recv_pc /\ calls' = calls /\ a # None
        BY DEF Places
      <3> QED
        BY <2>1, <2>2, <2>6, <2>8, <3>1, <3>2 DEF PlaceOf
    <2>15. ASSUME NEW s \in Sends PROVE MessageOf(s)'
      <3>1. \A r \in Recvs : outcome'[r] = s => outcome[r] = s
        BY <2>2
      <3> QED
        BY <2>5, <2>8, <3>1 DEF Messages, MessageOf
    <2> QED
      BY <2>9, <2>10, <2>11, <2>12, <2>13, <2>14, <2>15 DEF Places, Messages
  <1>2. ASSUME NEW r \in Recvs, AbortCallsWaiter(a, r) PROVE IInv'
    <2> USE <1>2 DEF AbortCallsWaiter
    <2>1. outcome[r] = a /\ Held(r)
      BY DEF Holders, Held
    <2>2. \A b \in Aborters : abort_items'[b] = IF b = a THEN abort_items[b] \ {r} ELSE abort_items[b]
      BY DEF TypeOK
    <2>3. ASSUME NEW p \in Recvs PROVE Held(p)' <=> Held(p) /\ p # r
      <3>1. /\ \A s \in Sends : send_item[s] # r
            /\ \A b \in Aborters : r \in abort_items[b] => b = a
            /\ \A t \in Cancellers : cb_item[t] # r
        BY <2>1, OneHolder
      <3>2. CASE p = r
        BY <2>2, <3>1, <3>2 DEF Held
      <3>3. CASE p # r
        BY <2>2, <3>3 DEF Held
      <3> QED
        BY <3>2, <3>3
    <2>4. /\ CmTypeOK' /\ calls' \in [Recvs -> Nat] /\ running' = running
          /\ CancelPhase' /\ Locking' /\ Queues' /\ Tokens' /\ Places' /\ Released'
          /\ \A h \in Keys : \A x : InQueue(h, x)' <=> InQueue(h, x)
      BY <2>1, <2>3, Answering
    <2>5. TypeOK'
      BY <2>4 DEF TypeOK
    <2>6. Holders'
      BY <2>2, <2>4 DEF Holders
    <2>7. Messages'
      BY <2>4 DEF Messages, MessageOf, Taken
    <2> QED
      BY <2>4, <2>5, <2>6, <2>7
  <1>3. CASE AbortReturns(a)
    <2> USE <1>3 DEF AbortReturns
    <2>1. TypeOK'
      BY DEF TypeOK, CmTypeOK
    <2>2. CancelPhase' /\ Locking' /\ Queues' /\ Tokens' /\ Released'
      BY DEF CancelPhase, Locking, HasMessage, Queues, Tokens, Released
    <2>3. Holders'
      BY DEF TypeOK, Holders
    <2>4. Places'
      BY DEF Places, PlaceOf, Held, InQueue
    <2>5. Messages'
      BY DEF Messages, MessageOf, InQueue, Taken
    <2> QED
      BY <2>1, <2>2, <2>3, <2>4, <2>5
  <1> QED
    BY <1>1, <1>2, <1>3 DEF StartAbort

(* The operations of StartCancel, whatever else the step does. *)
LEMMA ManagerKeeps ==
  ASSUME CmTypeOK, CancelPhase, NEW t \in Cancellers
  PROVE  /\ StartCancel(t) \/ StartCancelFinish(t) \/ StartCancelNotify(t) =>
              /\ CmTypeOK' /\ CancelPhase' /\ callbacks' \subseteq callbacks
              /\ UNCHANGED <<next_cancellation_token, running>>
         /\ CallbackEnd(t) => CmTypeOK' /\ CancelPhase'
         /\ \A k : CallbackBegin(t, k) => CmTypeOK' /\ CancelPhase'
  <1>1. ASSUME StartCancel(t)
        PROVE  /\ CmTypeOK' /\ CancelPhase' /\ callbacks' \subseteq callbacks
               /\ UNCHANGED <<next_cancellation_token, running>>
    <2> USE <1>1 DEF StartCancel
    <2>1. CASE is_cancelled \/ is_cancelling
      BY <2>1 DEF CmTypeOK, CancelPhase
    <2>2. CASE ~(is_cancelled \/ is_cancelling)
      <3>1. CmTypeOK'
        BY <2>2 DEF CmTypeOK
      <3>2. CancelPhase'
        BY <2>2 DEF CmTypeOK, CancelPhase
      <3> QED
        BY <2>2, <3>1, <3>2
    <2> QED
      BY <2>1, <2>2
  <1>2. ASSUME StartCancelFinish(t)
        PROVE  /\ CmTypeOK' /\ CancelPhase' /\ callbacks' \subseteq callbacks
               /\ UNCHANGED <<next_cancellation_token, running>>
    BY <1>2 DEF StartCancelFinish, CmTypeOK, CancelPhase
  <1>3. ASSUME StartCancelNotify(t)
        PROVE  /\ CmTypeOK' /\ CancelPhase' /\ callbacks' \subseteq callbacks
               /\ UNCHANGED <<next_cancellation_token, running>>
    BY <1>3 DEF StartCancelNotify, CmTypeOK, CancelPhase
  <1>4. ASSUME CallbackEnd(t) PROVE CmTypeOK' /\ CancelPhase'
    BY <1>4 DEF CallbackEnd, CmTypeOK, CancelPhase
  <1>5. ASSUME NEW k, CallbackBegin(t, k) PROVE CmTypeOK' /\ CancelPhase'
    BY <1>5 DEF CallbackBegin, CmTypeOK, CancelPhase
  <1> QED
    BY <1>1, <1>2, <1>3, <1>4, <1>5

(* The steps of StartCancel and of the callbacks it runs. *)
LEMMA CancelKeeps ==
  ASSUME IInv, NEW t \in Cancellers, CancelBegins(t) \/ CancelCallback(t) \/ CancelEnds(t)
  PROVE  IInv'
  <1> USE OpsAssumption, NoTokenAssumption
       DEF IInv, cm_vars, send_vars, recv_vars, abort_vars, cb_vars, done_vars
  <1>1. ASSUME CmTypeOK', CancelPhase', callbacks' \subseteq callbacks,
               next_cancellation_token' = next_cancellation_token,
               cb_pc' \in [Cancellers -> {"out", "begun", "found", "end"}],
               \A u \in Cancellers : /\ (cb_pc'[u] = "found") <=> (cb_pc[u] = "found")
                                     /\ (cb_pc'[u] = "out") <=> (running'[u] = NoToken),
               UNCHANGED <<mu, table, status, send_vars, recv_vars, abort_vars, cb_item,
                           done_vars, arrivals>>
        PROVE  IInv'
    <2> USE <1>1
    <2>1. TypeOK'
      BY DEF TypeOK
    <2>2. Locking' /\ Queues' /\ Tokens' /\ Released'
      BY DEF Locking, HasMessage, Queues, Tokens, Released
    <2>3. Holders'
      BY DEF Holders
    <2>4. Places'
      BY DEF Places, PlaceOf, Held, InQueue
    <2>5. Messages'
      BY DEF Messages, MessageOf, InQueue, Taken
    <2> QED
      BY <2>1, <2>2, <2>3, <2>4, <2>5
  <1>2. CASE CancelBegins(t) \/ CancelEnds(t)
    BY <1>1, <1>2, ManagerKeeps DEF CancelBegins, CancelEnds, Holders, TypeOK
  <1>3. ASSUME NEW k \in callbacks_to_run[t], CallbackEnters(t, k) PROVE IInv'
    <2> USE <1>3 DEF CallbackEnters, CallbackBegin
    <2>1. k # NoToken
      BY DEF TypeOK, CmTypeOK
    <2>2. CmTypeOK' /\ CancelPhase'
      BY ManagerKeeps DEF TypeOK
    <2>3. cb_pc[t] = "out"
      BY DEF Holders
    <2>4. \A u \in Cancellers : /\ cb_pc'[u] = IF u = t THEN "begun" ELSE cb_pc[u]
                                /\ running'[u] = IF u = t THEN k ELSE running[u]
      BY DEF TypeOK, CmTypeOK
    <2> QED
      BY <1>1, <2>1, <2>2, <2>3, <2>4 DEF Holders, TypeOK
  <1>4. ASSUME NEW r \in Recvs, CallbackFindsNothing(t, r) PROVE IInv'
    <2> USE <1>4 DEF CallbackFindsNothing
    <2>1. CmTypeOK' /\ CancelPhase'
      BY DEF TypeOK, CmTypeOK, CancelPhase
    <2>2. \A u \in Cancellers : cb_pc'[u] = IF u = t THEN "end" ELSE cb_pc[u]
      BY DEF TypeOK
    <2> QED
      BY <1>1, <2>1, <2>2 DEF Holders, TypeOK
  <1>5. CASE CallbackLeaves(t)
    <2> USE <1>5 DEF CallbackLeaves, CallbackEnd
    <2>1. CmTypeOK' /\ CancelPhase'
      BY ManagerKeeps DEF TypeOK
    <2>2. \A u \in Cancellers : /\ cb_pc'[u] = IF u = t THEN "out" ELSE cb_pc[u]
                                /\ running'[u] = IF u = t THEN NoToken ELSE running[u]
      BY DEF TypeOK, CmTypeOK
    <2> QED
      BY <1>1, <2>1, <2>2 DEF Holders, TypeOK
  <1>6. CASE CallbackCallsWaiter(t)
    <2> DEFINE r == cb_item[t]
    <2> USE <1>6 DEF CallbackCallsWaiter
    <2>1. r \in Recvs /\ outcome[r] = Cancelled /\ Held(r)
      BY DEF Holders, Held
    <2>2. \A u \in Cancellers : /\ cb_pc'[u] = IF u = t THEN "end" ELSE cb_pc[u]
                                /\ cb_item'[u] = IF u = t THEN None ELSE cb_item[u]
      BY DEF TypeOK
    <2>3. ASSUME NEW p \in Recvs PROVE Held(p)' <=> Held(p) /\ p # r
      BY <2>1, <2>2, OneHolder DEF Held
    <2> HIDE DEF r
    <2>4. /\ CmTypeOK' /\ calls' \in [Recvs -> Nat] /\ running' = running
          /\ CancelPhase' /\ Locking' /\ Queues' /\ Tokens' /\ Places' /\ Released'
          /\ \A h \in Keys : \A x : InQueue(h, x)' <=> InQueue(h, x)
      BY <2>1, <2>3, Answering DEF r
    <2>5. TypeOK'
      BY <2>4 DEF TypeOK
    <2>6. Holders'
      BY <2>2, <2>4 DEF Holders
    <2>7. Messages'
      BY <2>4 DEF Messages, MessageOf, Taken
    <2> QED
      BY <2>4, <2>5, <2>6, <2>7
  <1>7. ASSUME NEW q \in Recvs, CallbackFindsItem(t, q) PROVE IInv'
    <2> DEFINE k == KeyOf[q]
    <2>1. PICK i \in WithToken(k, token[q]) :
            /\ cb_item' = [cb_item EXCEPT ![t] = table[k][i]]
            /\ Decide(table[k][i], Cancelled)
            /\ table' = [table EXCEPT ![k] = Without(table[k], i)]
      BY <1>7 DEF CallbackFindsItem, TypeOK
    <2> DEFINE r == table[k][i]
    <2>2. /\ cb_pc[t] = "begun" /\ mu = None
          /\ cb_pc' = [cb_pc EXCEPT ![t] = "found"]
          /\ UNCHANGED <<cm_vars, mu, status, send_vars, recv_vars, abort_vars, calls, arrivals>>
      BY <1>7 DEF CallbackFindsItem
    <2>3. k \in Keys /\ i \in DOMAIN table[k] /\ r \in Recvs
      BY DEF WithToken
    <2>4. KeyOf[r] = k /\ InQueue(k, r)
      BY <2>3 DEF Queues, InQueue
    <2>5. /\ table' \in [Keys -> Seq(Items)] /\ Queues'
          /\ \A h \in Keys : \A y : InQueue(h, y)' <=> InQueue(h, y) /\ ~(h = k /\ y = r)
      <3>1. Removal(table[k], Without(table[k], i), i)
        BY <2>3, WithoutRemoves DEF TypeOK
      <3> HIDE DEF k
      <3> QED
        BY <2>1, <2>2, <2>3, <3>1, RemovalKeeps
    <2>6. /\ outcome' = [outcome EXCEPT ![r] = Cancelled]
          /\ cb_item' = [cb_item EXCEPT ![t] = r]
      BY <2>1 DEF Decide
    <2> HIDE DEF k, r
    <2> USE <2>2
    <2>7. TypeOK'
      BY <2>3, <2>5, <2>6 DEF TypeOK, CmTypeOK, Outcomes
    <2>8. CancelPhase' /\ Locking' /\ Tokens' /\ Released'
      BY DEF CancelPhase, Locking, Tokens, Released
    <2>9. /\ \A p \in Recvs : outcome'[p] = IF p = r THEN Cancelled ELSE outcome[p]
          /\ \A u \in Cancellers : /\ cb_item'[u] = IF u = t THEN r ELSE cb_item[u]
                                   /\ cb_pc'[u] = IF u = t THEN "found" ELSE cb_pc[u]
      BY <2>3, <2>6 DEF TypeOK
    <2>10. recv_pc[r] = "returned" /\ outcome[r] = None /\ calls[r] = 0 /\ ~Held(r)
      BY <2>3, <2>4 DEF Places, PlaceOf
    <2>11. Holders'
      <3>1. ASSUME NEW s \in Sends
            PROVE  IF send_pc[s] = "notify" THEN send_item[s] \in Recvs /\ outcome'[send_item[s]] = s
                                            ELSE send_item[s] = None
        BY <2>9, <2>10 DEF Holders, Held
      <3>2. ASSUME NEW b \in Aborters, NEW p \in abort_items[b]
            PROVE  abort_pc[b] = "calling" /\ outcome'[p] = b
        BY <2>9, <2>10 DEF Holders, Held, TypeOK
      <3>3. ASSUME NEW u \in Cancellers
            PROVE  IF cb_pc'[u] = "found" THEN cb_item'[u] \in Recvs /\ outcome'[cb_item'[u]] = Cancelled
                                          ELSE cb_item'[u] = None
        BY <2>3, <2>9 DEF Holders
      <3>4. \A u \in Cancellers : (cb_pc'[u] = "out") <=> (running'[u] = NoToken)
        BY <2>9 DEF Holders
      <3> QED
        BY <3>1, <3>2, <3>3, <3>4 DEF Holders
    <2>12. ASSUME NEW p \in Recvs PROVE PlaceOf(p)'
      <3>1. Held(p)' <=> Held(p) \/ p = r
        BY <2>3, <2>9, <2>10 DEF Held, Holders
      <3>2. InQueue(KeyOf[p], p)' <=> InQueue(KeyOf[p], p) /\ p # r
        BY <2>4, <2>5
      <3>3. PlaceOf(p)
        BY DEF Places
      <3> QED
        BY <2>9, <2>10, <3>1, <3>2, <3>3 DEF PlaceOf
    <2>13. ASSUME NEW s \in Sends PROVE MessageOf(s)'
      <3>1. InQueue(KeyOf[s], s)' <=> InQueue(KeyOf[s], s)
        BY <2>3, <2>5
      <3>2. \A p \in Recvs : outcome'[p] = s <=> outcome[p] = s
        BY <2>9, <2>10
      <3> QED
        BY <3>1, <3>2 DEF Messages, MessageOf, Taken
    <2> QED
      BY <2>5, <2>7, <2>8, <2>11, <2>12, <2>13 DEF Places, Messages
  <1> QED
    BY <1>2, <1>3, <1>4, <1>5, <1>6, <1>7 DEF CancelCallback

(* Every step preserves the inductive invariant. *)
LEMMA NextIInv == IInv /\ [Next]_vars => IInv'
  <1>1. CASE IInv /\ UNCHANGED vars
    BY <1>1 DEF vars, cm_vars, send_vars, recv_vars, abort_vars, cb_vars, done_vars, IInv,
         TypeOK, CmTypeOK, CancelPhase, Locking, HasMessage, Queues, Tokens, Holders, Places,
         PlaceOf, Held, InQueue, Messages, MessageOf, Taken, Released
  <1> QED
    BY <1>1, SendKeeps, RecvKeeps, AbortKeeps, CancelKeeps DEF Next

--------------------------------------------------------------------------------
(* IInv is an invariant of the specification. *)
THEOREM RendezvousInvariant == Spec => []IInv
  BY InitIInv, NextIInv, PTL DEF Spec

(* Every variable keeps its type; callbacks_ and the tokens included. *)
THEOREM RendezvousTypes == Spec => []TypeOK
  <1>1. IInv => TypeOK
    BY DEF IInv
  <1> QED
    BY <1>1, RendezvousInvariant, PTL

(* A Send, a StartAbort and a cancellation that race for a waiter call its   *)
(* `done' once between them, and none is forgotten.                          *)
THEOREM EveryWaiterAccountedFor == Spec => []ReceiverAccounting
  <1>1. \A r \in Recvs : InTable(r) <=> InQueue(KeyOf[r], r)
    BY DEF InTable, InQueue
  <1>2. IInv => ReceiverAccounting
    BY <1>1 DEF IInv, Places, PlaceOf, ReceiverAccounting
  <1> QED
    BY <1>2, RendezvousInvariant, PTL

(* A message reaches one consumer at most, and only an abort loses one. *)
THEOREM EveryMessageAccountedFor == Spec => []MessageAccounting
  <1>1. IInv => MessageAccounting
    BY DEF IInv, Messages, MessageOf, MessageAccounting, Taken, InTable, InQueue
  <1> QED
    BY <1>1, RendezvousInvariant, PTL

(* The manager keeps no callback of a RecvAsync that has been answered. *)
THEOREM CallbacksAreReleased == Spec => []CallbackReleased
  <1>1. IInv => CallbackReleased
    BY DEF IInv, Released, CallbackReleased
  <1> QED
    BY <1>1, RendezvousInvariant, PTL

--------------------------------------------------------------------------------
(* The order of arrival.  x is in the sequence q; x comes before y in it. *)
Occurs(q, x) == \E i \in DOMAIN q : q[i] = x

Precedes(q, x, y) == \E i, j \in DOMAIN q : i < j /\ q[i] = x /\ q[j] = y

Arrived(k, x) == Occurs(arrivals[k], x)
Before(k, x, y) == Precedes(arrivals[k], x, y)
Ahead(k, x, y) == Precedes(table[k], x, y)

(* Every item arrives once, at the queue of its key; a queue keeps the order *)
(* of arrival.                                                               *)
Order ==
  /\ \A k \in Keys : \A x \in Items : Arrived(k, x) =>
       /\ KeyOf[x] = k
       /\ x \in Sends => send_pc[x] \in {"notify", "returned"}
       /\ x \in Recvs => recv_pc[x] \in {"deliver", "returned"}
       /\ ~Before(k, x, x)
  /\ \A s \in Sends : send_pc[s] \in {"notify", "returned"} => Arrived(KeyOf[s], s)
  /\ \A r \in Recvs : InQueue(KeyOf[r], r) => Arrived(KeyOf[r], r)
  /\ \A k \in Keys : \A x, y \in Items : Ahead(k, x, y) => Before(k, x, y)

(* Fifo, by the order of arrival. *)
InOrder ==
  /\ \A k \in Keys : \A x, y \in Sends : Before(k, x, y) /\ Taken(y) => Taken(x)
  /\ \A k \in Keys : \A x, y \in Recvs :
       Before(k, x, y) /\ outcome[y] \in Sends =>
         /\ outcome[x] # None
         /\ outcome[x] \in Sends => Before(k, outcome[x], outcome[y])

OInv == Order /\ InOrder

(* What appending does to the order of a sequence, ... *)
LEMMA AppendOrder ==
  ASSUME NEW q \in Seq(Items), NEW x \in Items
  PROVE  /\ \A y : Occurs(Append(q, x), y) <=> Occurs(q, y) \/ y = x
         /\ \A y, z : Precedes(Append(q, x), y, z) <=>
                        Precedes(q, y, z) \/ (z = x /\ Occurs(q, y))
  <1> DEFINE p == Append(q, x)
             n == Len(q)
  <1>1. n \in Nat /\ DOMAIN q = 1..n
    BY LenProperties
  <1>2. p \in Seq(Items) /\ Len(p) = n + 1 /\ DOMAIN p = 1..(n + 1)
    BY <1>1, AppendProperties, LenProperties
  <1>3. (\A i \in 1..n : p[i] = q[i]) /\ p[n + 1] = x
    BY AppendProperties
  <1> HIDE DEF p, n
  <1>4. \A i \in 1..(n + 1) : i \in 1..n \/ i = n + 1
    BY <1>1
  <1>5. \A i \in 1..n : i \in 1..(n + 1) /\ i < n + 1
    BY <1>1
  <1>6. n + 1 \in 1..(n + 1)
    BY <1>1
  <1>7. \A y : Occurs(p, y) <=> Occurs(q, y) \/ y = x
    BY <1>1, <1>2, <1>3, <1>4, <1>5, <1>6 DEF Occurs
  <1>8. ASSUME NEW y, NEW z, Precedes(p, y, z)
        PROVE  Precedes(q, y, z) \/ (z = x /\ Occurs(q, y))
    <2>1. PICK i \in 1..(n + 1), j \in 1..(n + 1) : i < j /\ p[i] = y /\ p[j] = z
      BY <1>2, <1>8 DEF Precedes
    <2>2. i \in 1..n
      BY <1>1, <2>1
    <2>3. CASE j \in 1..n
      BY <1>1, <1>3, <2>1, <2>2, <2>3 DEF Precedes
    <2>4. CASE j = n + 1
      BY <1>1, <1>3, <2>1, <2>2, <2>4 DEF Occurs
    <2> QED
      BY <1>4, <2>3, <2>4
  <1>9. ASSUME NEW y, NEW z, Precedes(q, y, z) PROVE Precedes(p, y, z)
    BY <1>1, <1>2, <1>3, <1>5, <1>9 DEF Precedes
  <1>10. ASSUME NEW y, Occurs(q, y) PROVE Precedes(p, y, x)
    BY <1>1, <1>2, <1>3, <1>5, <1>6, <1>10 DEF Precedes, Occurs
  <1> QED
    BY <1>7, <1>8, <1>9, <1>10 DEF p

(* ... and taking an element out. *)
LEMMA RemovalOrder ==
  ASSUME NEW q \in Seq(Items), NEW i \in DOMAIN q, NEW p, Removal(q, p, i)
  PROVE  \A x, y : Precedes(p, x, y) => Precedes(q, x, y)
  <1> DEFINE n == Len(q)
             w(j) == IF j < i THEN j ELSE j + 1
  <1>1. n \in Nat /\ DOMAIN q = 1..n /\ i \in 1..n
    BY LenProperties
  <1>2. DOMAIN p = 1..(n - 1) /\ Len(p) = n - 1
    BY <1>1, LenProperties DEF Removal
  <1>3. \A j \in 1..(n - 1) : w(j) \in 1..n /\ p[j] = q[w(j)]
    BY <1>1, <1>2 DEF Removal
  <1> SUFFICES ASSUME NEW x, NEW y, Precedes(p, x, y) PROVE Precedes(q, x, y)
    OBVIOUS
  <1>4. PICK j \in 1..(n - 1), l \in 1..(n - 1) : j < l /\ p[j] = x /\ p[l] = y
    BY <1>2 DEF Precedes
  <1>5. w(j) < w(l)
    BY <1>1, <1>4
  <1>6. w(j) \in 1..n /\ w(l) \in 1..n /\ q[w(j)] = x /\ q[w(l)] = y
    BY <1>3, <1>4
  <1> HIDE DEF w
  <1> QED
    BY <1>1, <1>5, <1>6 DEF Precedes

(* Precedes orders what a sequence holds, strictly where nothing repeats; a  *)
(* front precedes the rest.                                                  *)
LEMMA SequenceOrder ==
  ASSUME NEW q \in Seq(Items), NEW x, NEW y
  PROVE  /\ Precedes(q, x, y) => Occurs(q, x) /\ Occurs(q, y)
         /\ Occurs(q, x) /\ Occurs(q, y) /\ x # y => Precedes(q, x, y) \/ Precedes(q, y, x)
         /\ Precedes(q, x, y) /\ Precedes(q, y, x) => Precedes(q, x, x) \/ Precedes(q, y, y)
         /\ q # <<>> /\ Occurs(q, x) /\ x # q[1] => Precedes(q, q[1], x)
  <1>1. Len(q) \in Nat /\ DOMAIN q = 1..Len(q)
    BY LenProperties
  <1>2. Precedes(q, x, y) => Occurs(q, x) /\ Occurs(q, y)
    BY DEF Precedes, Occurs
  <1>3. ASSUME Occurs(q, x), Occurs(q, y), x # y PROVE Precedes(q, x, y) \/ Precedes(q, y, x)
    BY <1>1, <1>3 DEF Precedes, Occurs
  <1>4. ASSUME Precedes(q, x, y), Precedes(q, y, x) PROVE Precedes(q, x, x) \/ Precedes(q, y, y)
    <2>1. PICK i \in 1..Len(q), j \in 1..Len(q) : i < j /\ q[i] = x /\ q[j] = y
      BY <1>1, <1>4 DEF Precedes
    <2>2. PICK m \in 1..Len(q), n \in 1..Len(q) : m < n /\ q[m] = y /\ q[n] = x
      BY <1>1, <1>4 DEF Precedes
    <2>3. CASE i < n
      BY <1>1, <2>1, <2>2, <2>3 DEF Precedes
    <2>4. CASE ~(i < n)
      <3>1. m < j
        BY <1>1, <2>1, <2>2, <2>4
      <3> QED
        BY <1>1, <2>1, <2>2, <3>1 DEF Precedes
    <2> QED
      BY <2>3, <2>4
  <1>5. ASSUME q # <<>>, Occurs(q, x), x # q[1] PROVE Precedes(q, q[1], x)
    <2>1. PICK i \in 1..Len(q) : q[i] = x
      BY <1>1, <1>5 DEF Occurs
    <2>2. 1 \in 1..Len(q) /\ 1 < i
      BY <1>1, <1>5, <2>1
    <2> QED
      BY <1>1, <2>1, <2>2 DEF Precedes
  <1> QED
    BY <1>2, <1>3, <1>4, <1>5

(* The same, for the arrivals and the queues of the rendezvous. *)
LEMMA ArrivalOrder ==
  ASSUME IInv, OInv, NEW k \in Keys
  PROVE  /\ \A x, y : Before(k, x, y) => Arrived(k, x) /\ Arrived(k, y)
         /\ \A x, y : Arrived(k, x) /\ Arrived(k, y) /\ x # y => Before(k, x, y) \/ Before(k, y, x)
         /\ \A x, y \in Items : ~(Before(k, x, y) /\ Before(k, y, x))
         /\ \A x : InQueue(k, x) => x \in Items /\ KeyOf[x] = k /\ Arrived(k, x)
         /\ \A x \in Sends : \A y \in Recvs : ~(InQueue(k, x) /\ InQueue(k, y))
         /\ \A x, y \in Items : InQueue(k, x) /\ Before(k, y, x) /\ x = Head(table[k]) => ~InQueue(k, y)
         /\ \A x \in Sends : Arrived(k, x) /\ status = OK => Taken(x) \/ InQueue(k, x)
         /\ \A x \in Recvs : Arrived(k, x) /\ outcome[x] = None => InQueue(k, x)
         /\ \A x \in Recvs : Arrived(k, x) /\ outcome[x] \in Sends => Arrived(k, outcome[x])
  <1> USE OpsAssumption DEF IInv, OInv
  <1>1. arrivals[k] \in Seq(Items) /\ table[k] \in Seq(Items)
    BY DEF TypeOK
  <1>2. /\ \A x, y : Before(k, x, y) => Arrived(k, x) /\ Arrived(k, y)
        /\ \A x, y : Arrived(k, x) /\ Arrived(k, y) /\ x # y => Before(k, x, y) \/ Before(k, y, x)
    BY <1>1, SequenceOrder DEF Before, Arrived
  <1>3. \A x, y \in Items : ~(Before(k, x, y) /\ Before(k, y, x))
    <2> SUFFICES ASSUME NEW x \in Items, NEW y \in Items, Before(k, x, y), Before(k, y, x)
                 PROVE  FALSE
      OBVIOUS
    <2>1. Before(k, x, x) \/ Before(k, y, y)
      BY <1>1, SequenceOrder DEF Before
    <2> QED
      BY <1>2, <2>1 DEF Order
  <1>4. ASSUME NEW x, InQueue(k, x) PROVE x \in Items /\ KeyOf[x] = k /\ Arrived(k, x)
    <2>1. x \in Items /\ KeyOf[x] = k
      BY <1>4, Fronts DEF InQueue, Queues
    <2>2. CASE x \in Sends
      BY <1>4, <2>1, <2>2 DEF Messages, MessageOf, Order
    <2>3. CASE x \in Recvs
      BY <1>4, <2>1, <2>3 DEF Order
    <2> QED
      BY <2>1, <2>2, <2>3 DEF Items
  <1>5. \A x \in Sends : \A y \in Recvs : ~(InQueue(k, x) /\ InQueue(k, y))
    BY DEF InQueue, Queues
  <1>6. ASSUME NEW x \in Items, NEW y \in Items, InQueue(k, x), Before(k, y, x), x = Head(table[k]),
               InQueue(k, y)
        PROVE  FALSE
    <2>1. table[k] # <<>> /\ x = table[k][1]
      <3>1. table[k] # <<>>
        BY <1>1, <1>6, EmptySeq, LenProperties DEF InQueue
      <3> QED
        BY <1>1, <1>6, <3>1, TailRemoves
    <2>2. x # y
      BY <1>3, <1>6
    <2>3. Ahead(k, x, y)
      BY <1>1, <1>6, <2>1, <2>2, SequenceOrder DEF Ahead, InQueue, Occurs
    <2> QED
      BY <1>3, <1>6, <2>3 DEF Order
  <1>7. \A x \in Sends : Arrived(k, x) /\ status = OK => Taken(x) \/ InQueue(k, x)
    BY DEF Order, Messages, MessageOf, Items
  <1>8. \A x \in Recvs : Arrived(k, x) /\ outcome[x] = None => InQueue(k, x)
    BY DEF Order, Places, PlaceOf, Items
  <1>9. \A x \in Recvs : Arrived(k, x) /\ outcome[x] \in Sends => Arrived(k, outcome[x])
    BY DEF Order, Messages, MessageOf, Items
  <1> QED
    BY <1>2, <1>3, <1>4, <1>5, <1>6, <1>7, <1>8, <1>9

(* What Arrive does to the order of arrival. *)
LEMMA ArriveOrder ==
  ASSUME TypeOK, NEW k \in Keys, NEW x \in Items, Arrive(k, x)
  PROVE  /\ \A h \in Keys : \A y : Arrived(h, y)' <=> Arrived(h, y) \/ (h = k /\ y = x)
         /\ \A h \in Keys : \A y, z :
              Before(h, y, z)' <=> Before(h, y, z) \/ (h = k /\ z = x /\ Arrived(k, y))
  <1>1. arrivals[k] \in Seq(Items)
    BY DEF TypeOK
  <1>2. \A h \in Keys : arrivals'[h] = IF h = k THEN Append(arrivals[k], x) ELSE arrivals[h]
    BY DEF TypeOK, Arrive
  <1>3. /\ \A y : Occurs(Append(arrivals[k], x), y) <=> Occurs(arrivals[k], y) \/ y = x
        /\ \A y, z : Precedes(Append(arrivals[k], x), y, z) <=>
                       Precedes(arrivals[k], y, z) \/ (z = x /\ Occurs(arrivals[k], y))
    BY <1>1, AppendOrder
  <1> QED
    BY <1>2, <1>3 DEF Arrived, Before

(* A step that makes nothing arrive and gives no message away. *)
LEMMA QuietOrder ==
  ASSUME IInv, OInv, arrivals' = arrivals,
         \A k \in Keys : \A x, y : Ahead(k, x, y)' => Ahead(k, x, y),
         \A k \in Keys : \A x : InQueue(k, x)' => InQueue(k, x),
         \A r \in Recvs : \/ outcome'[r] = outcome[r]
                          \/ outcome[r] = None /\ outcome'[r] \notin Sends \cup {None},
         \A s \in Sends : send_pc'[s] \in {"notify", "returned"} <=> send_pc[s] \in {"notify", "returned"},
         \A r \in Recvs : recv_pc[r] \in {"deliver", "returned"} => recv_pc'[r] \in {"deliver", "returned"}
  PROVE  OInv'
  <1> USE OpsAssumption DEF OInv
  <1>1. \A k, x : Arrived(k, x)' <=> Arrived(k, x)
    BY DEF Arrived
  <1>2. \A k, x, y : Before(k, x, y)' <=> Before(k, x, y)
    BY DEF Before
  <1>3. \A r \in Recvs : KeyOf[r] \in Keys
    OBVIOUS
  <1>4. Order'
    BY <1>1, <1>2, <1>3 DEF Order
  <1>5. \A s \in Sends : Taken(s)' <=> Taken(s)
    BY DEF Taken
  <1>6. \A k \in Keys : \A x, y \in Recvs :
          Before(k, x, y) /\ outcome'[y] \in Sends =>
            /\ outcome'[x] # None
            /\ outcome'[x] \in Sends => Before(k, outcome'[x], outcome'[y])
    <2> SUFFICES ASSUME NEW k \in Keys, NEW x \in Recvs, NEW y \in Recvs,
                        Before(k, x, y), outcome'[y] \in Sends
                 PROVE  /\ outcome'[x] # None
                        /\ outcome'[x] \in Sends => Before(k, outcome'[x], outcome'[y])
      OBVIOUS
    <2>1. outcome'[y] = outcome[y]
      OBVIOUS
    <2>2. outcome[x] # None
      BY <2>1 DEF InOrder
    <2>3. outcome'[x] = outcome[x]
      BY <2>2
    <2> QED
      BY <2>1, <2>3 DEF InOrder
  <1>7. InOrder'
    BY <1>2, <1>5, <1>6 DEF InOrder
  <1> QED
    BY <1>4, <1>7

(* An item that arrives and stays: a Send or a RecvAsync that pushes it. *)
LEMMA PushOrder ==
  ASSUME IInv, OInv, NEW x \in Items, ~Arrived(KeyOf[x], x), ~InQueue(KeyOf[x], x),
         PushBack(KeyOf[x], x), Arrive(KeyOf[x], x), outcome' = outcome,
         x \in Sends => ~Taken(x), x \in Recvs => outcome[x] = None,
         \A s \in Sends : send_pc'[s] = IF s = x THEN "returned" ELSE send_pc[s],
         \A r \in Recvs : recv_pc'[r] = IF r = x THEN "returned" ELSE recv_pc[r]
  PROVE  OInv'
  <1> DEFINE k == KeyOf[x]
  <1> USE OpsAssumption DEF OInv
  <1>1. k \in Keys /\ TypeOK /\ table[k] \in Seq(Items) /\ \A y \in Items : KeyOf[y] \in Keys
    BY DEF IInv, TypeOK, Items
  <1>2. /\ \A h \in Keys : \A y : Arrived(h, y)' <=> Arrived(h, y) \/ (h = k /\ y = x)
        /\ \A h \in Keys : \A y, z :
             Before(h, y, z)' <=> Before(h, y, z) \/ (h = k /\ z = x /\ Arrived(k, y))
    BY <1>1, ArriveOrder
  <1>3. /\ \A h \in Keys : \A y : InQueue(h, y)' <=> InQueue(h, y) \/ (h = k /\ y = x)
        /\ \A h \in Keys : \A y, z :
             Ahead(h, y, z)' <=> Ahead(h, y, z) \/ (h = k /\ z = x /\ InQueue(k, y))
    <2>1. \A h \in Keys : table'[h] = IF h = k THEN Append(table[k], x) ELSE table[h]
      BY <1>1 DEF TypeOK, PushBack
    <2>2. /\ \A y : Occurs(Append(table[k], x), y) <=> Occurs(table[k], y) \/ y = x
          /\ \A y, z : Precedes(Append(table[k], x), y, z) <=>
                         Precedes(table[k], y, z) \/ (z = x /\ Occurs(table[k], y))
      BY <1>1, AppendOrder
    <2>3. \A h \in Keys : \A y : InQueue(h, y) <=> Occurs(table[h], y)
      BY DEF InQueue, Occurs
    <2>4. \A h \in Keys : \A y : InQueue(h, y)' <=> Occurs(table'[h], y)
      BY DEF InQueue, Occurs
    <2> QED
      BY <1>1, <2>1, <2>2, <2>3, <2>4 DEF Ahead
  <1> HIDE DEF k
  <1>4. /\ \A y, z : Before(k, y, z) => Arrived(k, y) /\ Arrived(k, z)
        /\ \A y : InQueue(k, y) => Arrived(k, y)
    BY <1>1, ArrivalOrder
  <1>5. Order'
    <2>1. ASSUME NEW h \in Keys, NEW y \in Items, Arrived(h, y)'
          PROVE  /\ KeyOf[y] = h
                 /\ y \in Sends => send_pc'[y] \in {"notify", "returned"}
                 /\ y \in Recvs => recv_pc'[y] \in {"deliver", "returned"}
                 /\ ~Before(h, y, y)'
      <3>1. CASE y = x
        BY <1>1, <1>2, <1>4, <2>1, <3>1 DEF Order, k
      <3>2. CASE y # x
        BY <1>2, <2>1, <3>2 DEF Order
      <3> QED
        BY <3>1, <3>2
    <2>2. \A s \in Sends : send_pc'[s] \in {"notify", "returned"} => Arrived(KeyOf[s], s)'
      BY <1>1, <1>2 DEF Order, k, Items
    <2>3. \A r \in Recvs : InQueue(KeyOf[r], r)' => Arrived(KeyOf[r], r)'
      BY <1>1, <1>2, <1>3 DEF Order, Items
    <2>4. \A h \in Keys : \A y, z \in Items : Ahead(h, y, z)' => Before(h, y, z)'
      BY <1>2, <1>3, <1>4 DEF Order
    <2> QED
      BY <2>1, <2>2, <2>3, <2>4 DEF Order
  <1>6. \A s \in Sends : Taken(s)' <=> Taken(s)
    BY DEF Taken
  <1>7. \A h \in Keys : \A y, z \in Sends : Before(h, y, z)' /\ Taken(z) => Taken(y)
    BY <1>2 DEF InOrder
  <1>8. \A h \in Keys : \A y, z \in Recvs :
          Before(h, y, z)' /\ outcome[z] \in Sends =>
            /\ outcome[y] # None
            /\ outcome[y] \in Sends => Before(h, outcome[y], outcome[z])'
    <2> SUFFICES ASSUME NEW h \in Keys, NEW y \in Recvs, NEW z \in Recvs,
                        Before(h, y, z)', outcome[z] \in Sends
                 PROVE  /\ outcome[y] # None
                        /\ outcome[y] \in Sends => Before(h, outcome[y], outcome[z])'
      OBVIOUS
    <2>1. Before(h, y, z)
      BY <1>2
    <2> QED
      BY <1>2, <2>1 DEF InOrder
  <1>9. InOrder'
    BY <1>6, <1>7, <1>8 DEF InOrder
  <1> QED
    BY <1>5, <1>9

(* A match: a Send meets the waiter r at the front, or a RecvAsync the       *)
(* message at the front; x is the one that arrives.                          *)
LEMMA MatchOrder ==
  ASSUME IInv, OInv, NEW s \in Sends, NEW r \in Recvs, NEW k \in Keys, NEW x \in {s, r},
         KeyOf[s] = k, KeyOf[r] = k, status = OK, ~Arrived(k, x), ~Taken(s), outcome[r] = None,
         InQueue(k, Head(table[k])), Head(table[k]) = IF x = s THEN r ELSE s,
         table' = [table EXCEPT ![k] = Tail(table[k])], Arrive(k, x),
         \A q \in Recvs : outcome'[q] = IF q = r THEN s ELSE outcome[q],
         \A u \in Sends : send_pc'[u] = IF u = x THEN "notify" ELSE send_pc[u],
         \A q \in Recvs : recv_pc'[q] = IF q = x THEN "deliver" ELSE recv_pc[q]
  PROVE  OInv'
  <1> DEFINE f == Head(table[k])
  <1> USE OpsAssumption DEF OInv
  <1>1. /\ TypeOK /\ table[k] \in Seq(Items) /\ x \in Items /\ s \in Items /\ r \in Items /\ s # r
        /\ (\A y \in Items : KeyOf[y] \in Keys) /\ f \in Items
    BY DEF IInv, TypeOK, Items
  <1>2. /\ \A h \in Keys : \A y : Arrived(h, y)' <=> Arrived(h, y) \/ (h = k /\ y = x)
        /\ \A h \in Keys : \A y, z :
             Before(h, y, z)' <=> Before(h, y, z) \/ (h = k /\ z = x /\ Arrived(k, y))
    BY <1>1, ArriveOrder
  <1>3. /\ \A h \in Keys : \A y : InQueue(h, y)' => InQueue(h, y) /\ y # f
        /\ \A h \in Keys : \A y, z : Ahead(h, y, z)' => Ahead(h, y, z)
    <2>1. \A h \in Keys : table'[h] = IF h = k THEN Tail(table[k]) ELSE table[h]
      BY <1>1 DEF TypeOK
    <2>2. table[k] # <<>>
      BY <1>1, EmptySeq, LenProperties DEF InQueue
    <2>3. 1 \in DOMAIN table[k] /\ f = table[k][1] /\ Removal(table[k], Tail(table[k]), 1)
      BY <1>1, <2>2, TailRemoves
    <2>4. \A y, z : Precedes(Tail(table[k]), y, z) => Precedes(table[k], y, z)
      BY <1>1, <2>3, RemovalOrder
    <2>5. \A i, j \in DOMAIN table[k] : table[k][i] = table[k][j] => i = j
      BY DEF IInv, Queues
    <2>6. \A y : Occurs(Tail(table[k]), y) => Occurs(table[k], y) /\ y # f
      <3> DEFINE n == Len(table[k])
                 p == Tail(table[k])
      <3>1. /\ n \in Nat /\ DOMAIN table[k] = 1..n /\ 1 \in 1..n
            /\ DOMAIN p = 1..(n - 1) /\ \A j \in 1..(n - 1) : p[j] = table[k][j + 1]
        BY <1>1, <2>3, LenProperties DEF Removal
      <3> HIDE DEF n, p
      <3>2. \A j \in 1..(n - 1) : j + 1 \in 1..n /\ j + 1 # 1
        BY <3>1
      <3> QED
        BY <2>3, <2>5, <3>1, <3>2 DEF Occurs, p
    <2>7. \A h \in Keys : \A y : InQueue(h, y)' <=> Occurs(table'[h], y)
      BY DEF InQueue, Occurs
    <2>8. \A h \in Keys : \A y : InQueue(h, y) <=> Occurs(table[h], y)
      BY DEF InQueue, Occurs
    <2>9. \A h \in Keys : h # k => ~InQueue(h, f)
      BY <1>1, ArrivalOrder
    <2> QED
      BY <2>1, <2>4, <2>6, <2>7, <2>8, <2>9 DEF Ahead
  <1>4. /\ \A y, z : Before(k, y, z) => Arrived(k, y) /\ Arrived(k, z)
        /\ \A y, z : Arrived(k, y) /\ Arrived(k, z) /\ y # z => Before(k, y, z) \/ Before(k, z, y)
        /\ \A y : InQueue(k, y) => Arrived(k, y)
        /\ \A y \in Sends : \A z \in Recvs : ~(InQueue(k, y) /\ InQueue(k, z))
        /\ \A y \in Items : Before(k, y, f) => ~InQueue(k, y)
        /\ \A y \in Sends : Arrived(k, y) => Taken(y) \/ InQueue(k, y)
        /\ \A y \in Recvs : Arrived(k, y) /\ outcome[y] = None => InQueue(k, y)
        /\ \A y \in Recvs : Arrived(k, y) /\ outcome[y] \in Sends => Arrived(k, outcome[y])
    BY <1>1, ArrivalOrder
  <1> HIDE DEF f
  <1>5. InQueue(k, f) /\ f = (IF x = s THEN r ELSE s) /\ x # f
    BY <1>1 DEF f
  <1>6. Order'
    <2>1. ASSUME NEW h \in Keys, NEW y \in Items, Arrived(h, y)'
          PROVE  /\ KeyOf[y] = h
                 /\ y \in Sends => send_pc'[y] \in {"notify", "returned"}
                 /\ y \in Recvs => recv_pc'[y] \in {"deliver", "returned"}
                 /\ ~Before(h, y, y)'
      <3>1. CASE y = x
        <4>1. KeyOf[x] = k
          OBVIOUS
        <4>2. h = k
          BY <1>1, <1>2, <2>1, <3>1, <4>1 DEF Order
        <4> QED
          BY <1>2, <1>4, <3>1, <4>1, <4>2
      <3>2. CASE y # x
        BY <1>2, <2>1, <3>2 DEF Order
      <3> QED
        BY <3>1, <3>2
    <2>2. \A u \in Sends : send_pc'[u] \in {"notify", "returned"} => Arrived(KeyOf[u], u)'
      BY <1>1, <1>2 DEF Order, Items
    <2>3. \A q \in Recvs : InQueue(KeyOf[q], q)' => Arrived(KeyOf[q], q)'
      BY <1>1, <1>2, <1>3 DEF Order, Items
    <2>4. \A h \in Keys : \A y, z \in Items : Ahead(h, y, z)' => Before(h, y, z)'
      BY <1>2, <1>3 DEF Order
    <2> QED
      BY <2>1, <2>2, <2>3, <2>4 DEF Order
  <1>7. \A u \in Sends : Taken(u)' <=> Taken(u) \/ u = s
    BY DEF Taken
  <1>8. \A h \in Keys : \A y \in Items : \A z : Before(h, y, z) /\ z \in {s, r} => h = k
    <2>1. \A h \in Keys : \A y, z : Before(h, y, z) => Arrived(h, z)
      BY ArrivalOrder
    <2> QED
      BY <1>1, <2>1 DEF Order
  <1>9. ASSUME NEW h \in Keys, NEW y \in Sends, NEW z \in Sends, Before(h, y, z)', Taken(z)'
        PROVE  Taken(y)'
    <2>1. CASE z # s
      BY <1>2, <1>7, <1>9, <2>1 DEF InOrder
    <2>2. CASE z = s
      <3>1. h = k /\ Arrived(k, y)
        BY <1>1, <1>2, <1>4, <1>8, <1>9, <2>2 DEF Items
      <3>2. ~InQueue(k, y)
        <4>1. CASE x = s
          BY <1>4, <1>5, <4>1
        <4>2. CASE x # s
          BY <1>1, <1>2, <1>4, <1>5, <1>9, <2>2, <3>1, <4>2 DEF Items
        <4> QED
          BY <4>1, <4>2
      <3> QED
        BY <1>4, <1>7, <3>1, <3>2
    <2> QED
      BY <2>1, <2>2
  <1>10. ASSUME NEW h \in Keys, NEW y \in Recvs, NEW z \in Recvs, Before(h, y, z)', outcome'[z] \in Sends
         PROVE  /\ outcome'[y] # None
                /\ outcome'[y] \in Sends => Precedes(arrivals'[h], outcome'[y], outcome'[z])
    <2>1. CASE z # r
      <3>1. Before(h, y, z) /\ outcome[z] \in Sends
        BY <1>2, <1>10, <2>1
      <3>2. outcome[y] # None /\ (outcome[y] \in Sends => Before(h, outcome[y], outcome[z]))
        BY <3>1 DEF InOrder
      <3> QED
        <4>1. outcome'[y] = outcome[y] /\ outcome'[z] = outcome[z]
          BY <2>1, <3>2
        <4>2. ASSUME NEW m, NEW n, Before(h, m, n) PROVE Precedes(arrivals'[h], m, n)
          BY <1>2, <4>2 DEF Before
        <4> QED
          BY <3>2, <4>1, <4>2
    <2>2. CASE z = r
      <3>1. h = k /\ Arrived(k, y)
        BY <1>1, <1>2, <1>4, <1>8, <1>10, <2>2 DEF Items
      <3>2. ~InQueue(k, y)
        <4>1. CASE x = r
          BY <1>1, <1>4, <1>5, <4>1
        <4>2. CASE x # r
          BY <1>1, <1>2, <1>4, <1>5, <1>10, <2>2, <3>1, <4>2 DEF Items
        <4> QED
          BY <4>1, <4>2
      <3>3. outcome[y] # None /\ y # r
        BY <1>4, <3>1, <3>2
      <3>4. ASSUME NEW m \in Sends, m = outcome[y] PROVE Before(k, m, s)'
        <4>1. Arrived(k, m) /\ Taken(m)
          BY <1>4, <3>1, <3>4 DEF Taken
        <4>2. CASE x = s
          BY <1>2, <4>1, <4>2
        <4>3. CASE x # s
          <5>1. Arrived(k, s) /\ m # s
            BY <1>4, <1>5, <4>1, <4>3
          <5>2. ~Before(k, s, m)
            BY <4>1 DEF InOrder
          <5> QED
            BY <1>2, <1>4, <4>1, <5>1, <5>2
        <4> QED
          BY <4>2, <4>3
      <3>5. \A m \in Sends : m = outcome[y] => Precedes(arrivals'[k], m, s)
        BY <3>4 DEF Before
      <3>6. outcome'[y] = outcome[y] /\ outcome'[z] = s
        BY <2>2, <3>3
      <3> QED
        BY <3>1, <3>3, <3>5, <3>6
    <2> QED
      BY <2>1, <2>2
  <1>11. InOrder'
    BY <1>9, <1>10 DEF InOrder, Before
  <1> QED
    BY <1>6, <1>11

(* Nothing has arrived in the initial state. *)
LEMMA InitOInv == Init => OInv
  <1> SUFFICES ASSUME Init PROVE OInv
    OBVIOUS
  <1>1. DOMAIN <<>> = {}
    <2>1. <<>> \in Seq(Items) /\ Len(<<>>) = 0
      BY EmptySeq
    <2> QED
      BY <2>1, LenProperties
  <1>2. \A k \in Keys : \A x, y : ~Arrived(k, x) /\ ~Before(k, x, y) /\ ~Ahead(k, x, y) /\ ~InQueue(k, x)
    BY <1>1 DEF Init, Arrived, Before, Ahead, InQueue, Occurs, Precedes
  <1> QED
    BY <1>2, OpsAssumption DEF Init, OInv, Order, InOrder

(* A step that leaves the arrivals and the queues alone. *)
LEMMA StillOrder ==
  ASSUME IInv, OInv, UNCHANGED <<table, arrivals>>,
         \A r \in Recvs : \/ outcome'[r] = outcome[r]
                          \/ outcome[r] = None /\ outcome'[r] \notin Sends \cup {None},
         \A s \in Sends : send_pc'[s] \in {"notify", "returned"} <=> send_pc[s] \in {"notify", "returned"},
         \A r \in Recvs : recv_pc[r] \in {"deliver", "returned"} => recv_pc'[r] \in {"deliver", "returned"}
  PROVE  OInv'
  <1>1. /\ \A k \in Keys : \A x, y : Ahead(k, x, y)' => Ahead(k, x, y)
        /\ \A k \in Keys : \A x : InQueue(k, x)' => InQueue(k, x)
    BY DEF Ahead, InQueue
  <1> QED
    BY <1>1, QuietOrder

(* Every step preserves the order. *)
LEMMA NextOInv == IInv /\ OInv /\ [Next]_vars => OInv'
  <1> SUFFICES ASSUME IInv, OInv, [Next]_vars PROVE OInv'
    OBVIOUS
  <1> USE OpsAssumption DEF cm_vars, send_vars, recv_vars, abort_vars, cb_vars, done_vars
  <1>0. TypeOK
    BY DEF IInv
  <1>1. ASSUME NEW s \in Sends, Send(s) PROVE OInv'
    <2> DEFINE k == KeyOf[s]
    <2>0. k \in Keys /\ s \in Items
      BY DEF Items
    <2>1. ASSUME send_pc[s] = "start"
          PROVE  ~Arrived(k, s) /\ ~InQueue(k, s) /\ ~Taken(s) /\ \A r \in Recvs : r # s
      BY <2>0, <2>1 DEF IInv, OInv, Order, Messages, MessageOf, Taken
    <2>2. CASE SendAborted(s)
      <3>1. \A u \in Sends : send_pc'[u] = IF u = s THEN "failed" ELSE send_pc[u]
        BY <1>0, <2>2 DEF SendAborted, TypeOK
      <3> QED
        BY <2>2, <3>1, StillOrder DEF SendAborted
    <2>3. CASE SendEnqueues(s)
      <3>1. \A u \in Sends : send_pc'[u] = IF u = s THEN "returned" ELSE send_pc[u]
        BY <1>0, <2>3 DEF SendEnqueues, TypeOK
      <3>2. \A r \in Recvs : recv_pc'[r] = IF r = s THEN "returned" ELSE recv_pc[r]
        BY <2>1, <2>3 DEF SendEnqueues
      <3> QED
        BY <2>0, <2>1, <2>3, <3>1, <3>2, PushOrder DEF SendEnqueues
    <2>4. CASE SendTakesWaiter(s)
      <3> DEFINE r == Head(table[k])
      <3>1. \A u \in Sends : send_pc'[u] = IF u = s THEN "notify" ELSE send_pc[u]
        BY <1>0, <2>4 DEF SendTakesWaiter, TypeOK
      <3>2. table[k] \in Seq(Items) /\ table[k] # <<>> /\ r \notin Sends
        BY <1>0, <2>0, <2>4 DEF SendTakesWaiter, TypeOK, HasWaiter, IsSendValue
      <3>3. 1 \in DOMAIN table[k] /\ r = table[k][1]
        BY <3>2, TailRemoves
      <3>4. InQueue(k, r)
        BY <3>3 DEF InQueue
      <3>5. r \in Recvs /\ KeyOf[r] = k
        BY <2>0, <3>2, <3>4, ArrivalOrder DEF Items
      <3>6. outcome[r] = None
        BY <3>4, <3>5 DEF IInv, Places, PlaceOf
      <3>7. \A q \in Recvs : /\ outcome'[q] = IF q = r THEN s ELSE outcome[q]
                             /\ recv_pc'[q] = IF q = s THEN "deliver" ELSE recv_pc[q]
        BY <1>0, <2>1, <2>4 DEF SendTakesWaiter, Decide, TypeOK
      <3>8. table' = [table EXCEPT ![k] = Tail(table[k])] /\ Arrive(k, s) /\ status = OK
        BY <2>4 DEF SendTakesWaiter, PopFront
      <3>9. send_pc[s] = "start"
        BY <2>4 DEF SendTakesWaiter
      <3> HIDE DEF k
      <3> QED
        BY <2>0, <2>1, <3>1, <3>4, <3>5, <3>6, <3>7, <3>8, <3>9, MatchOrder DEF k
    <2>5. CASE SendNotifies(s)
      <3>1. \A u \in Sends : send_pc'[u] = IF u = s THEN "returned" ELSE send_pc[u]
        BY <1>0, <2>5 DEF SendNotifies, TypeOK
      <3> QED
        BY <2>5, <3>1, StillOrder DEF SendNotifies
    <2> QED
      BY <1>1, <2>2, <2>3, <2>4, <2>5 DEF Send
  <1>2. ASSUME NEW r \in Recvs, RecvAsync(r) PROVE OInv'
    <2> DEFINE k == KeyOf[r]
    <2>0. k \in Keys /\ r \in Items
      BY DEF Items
    <2>1. ASSUME recv_pc[r] \in {"start", "registered"}
          PROVE  ~Arrived(k, r) /\ ~InQueue(k, r) /\ outcome[r] = None /\ \A s \in Sends : s # r
      BY <2>0, <2>1 DEF IInv, OInv, Order, Places, PlaceOf
    <2>2. CASE RecvAborted(r)
      <3>1. \A q \in Recvs : /\ recv_pc'[q] = IF q = r THEN "deliver" ELSE recv_pc[q]
                             /\ outcome'[q] = IF q = r THEN status ELSE outcome[q]
        BY <1>0, <2>2 DEF RecvAborted, Decide, TypeOK
      <3>2. status \in Aborters /\ outcome[r] = None
        BY <1>0, <2>1, <2>2 DEF RecvAborted, TypeOK
      <3> QED
        BY <2>2, <3>1, <3>2, StillOrder DEF RecvAborted
    <2>3. CASE RecvTakesMessage(r)
      <3> DEFINE s == Head(table[k])
      <3>1. table[k] \in Seq(Items) /\ table[k] # <<>> /\ s \in Sends
        BY <1>0, <2>0, <2>3 DEF RecvTakesMessage, TypeOK, HasMessage, IsSendValue
      <3>2. 1 \in DOMAIN table[k] /\ s = table[k][1]
        BY <3>1, TailRemoves
      <3>3. InQueue(k, s)
        BY <3>2 DEF InQueue
      <3>4. KeyOf[s] = k
        BY <2>0, <3>3, ArrivalOrder
      <3>5. ~Taken(s)
        BY <3>1, <3>3, <3>4 DEF IInv, Messages, MessageOf, Taken
      <3>6. \A q \in Recvs : /\ outcome'[q] = IF q = r THEN s ELSE outcome[q]
                             /\ recv_pc'[q] = IF q = r THEN "deliver" ELSE recv_pc[q]
        BY <1>0, <2>3 DEF RecvTakesMessage, Decide, TypeOK
      <3>7. \A u \in Sends : send_pc'[u] = IF u = r THEN "notify" ELSE send_pc[u]
        BY <2>3 DEF RecvTakesMessage
      <3>8. /\ table' = [table EXCEPT ![k] = Tail(table[k])] /\ Arrive(k, r) /\ status = OK
            /\ recv_pc[r] = "start"
        BY <2>3 DEF RecvTakesMessage, PopFront
      <3>9. r # s
        BY <3>1
      <3> HIDE DEF k
      <3> QED
        <4>1. PICK m \in Sends : m = s
          BY <3>1
        <4>2. InQueue(k, Head(table[k])) /\ Head(table[k]) = IF r = m THEN r ELSE m
          BY <3>3, <3>9, <4>1
        <4>3. ~Arrived(k, r) /\ outcome[r] = None /\ KeyOf[r] = k /\ r \in {m, r}
          BY <2>1, <3>8 DEF k
        <4>4. KeyOf[m] = k /\ ~Taken(m)
          BY <3>4, <3>5, <4>1
        <4>5. /\ \A q \in Recvs : outcome'[q] = IF q = r THEN m ELSE outcome[q]
              /\ \A q \in Recvs : recv_pc'[q] = IF q = r THEN "deliver" ELSE recv_pc[q]
          BY <3>6, <4>1
        <4> HIDE DEF s
        <4> QED
          BY <2>0, <3>7, <3>8, <4>2, <4>3, <4>4, <4>5, MatchOrder
    <2>4. CASE RecvFindsNoMessage(r) /\ r \in Cancellable
      <3>1. \A q \in Recvs : recv_pc'[q] = IF q = r THEN "locked" ELSE recv_pc[q]
        BY <1>0, <2>4 DEF RecvFindsNoMessage, TypeOK
      <3> QED
        BY <2>4, <3>1, StillOrder DEF RecvFindsNoMessage
    <2>5. CASE RecvEnqueues(r) \/ (RecvFindsNoMessage(r) /\ r \notin Cancellable)
      <3>1. /\ recv_pc[r] \in {"start", "registered"} /\ PushBack(k, r) /\ Arrive(k, r)
            /\ recv_pc' = [recv_pc EXCEPT ![r] = "returned"] /\ outcome' = outcome
            /\ UNCHANGED send_vars
        BY <2>5 DEF RecvEnqueues, RecvFindsNoMessage
      <3>2. /\ \A q \in Recvs : recv_pc'[q] = IF q = r THEN "returned" ELSE recv_pc[q]
            /\ \A s \in Sends : send_pc'[s] = IF s = r THEN "returned" ELSE send_pc[s]
        BY <1>0, <2>1, <3>1 DEF TypeOK
      <3> QED
        BY <2>0, <2>1, <3>1, <3>2, PushOrder
    <2>6. CASE RecvGetsToken(r)
      <3>1. \A q \in Recvs : recv_pc'[q] = IF q = r THEN "token" ELSE recv_pc[q]
        BY <1>0, <2>6 DEF RecvGetsToken, TypeOK
      <3> QED
        BY <2>6, <3>1, StillOrder DEF RecvGetsToken
    <2>7. CASE RecvRegisters(r)
      <3>1. outcome[r] = None /\ recv_pc[r] = "token"
        BY <2>7 DEF RecvRegisters, IInv, Places, PlaceOf
      <3>2. \A q \in Recvs : q # r => recv_pc'[q] = recv_pc[q] /\ outcome'[q] = outcome[q]
        BY <1>0, <2>7 DEF RecvRegisters, Decide, TypeOK
      <3>3. outcome'[r] \in {None, Cancelled}
        BY <1>0, <2>7, <3>1 DEF RecvRegisters, Decide, TypeOK
      <3>4. UNCHANGED <<table, arrivals, send_vars>>
        BY <2>7 DEF RecvRegisters
      <3> QED
        BY <3>1, <3>2, <3>3, <3>4, StillOrder
    <2>8. CASE RecvDelivers(r)
      <3>1. \A q \in Recvs : recv_pc'[q] = IF q = r THEN "returned" ELSE recv_pc[q]
        BY <1>0, <2>8 DEF RecvDelivers, TypeOK
      <3> QED
        BY <2>8, <3>1, StillOrder DEF RecvDelivers
    <2> QED
      BY <1>2, <2>2, <2>3, <2>4, <2>5, <2>6, <2>7, <2>8 DEF RecvAsync
  <1>3. ASSUME NEW a \in Aborters, StartAbort(a) PROVE OInv'
    <2>1. CASE AbortSwapsTable(a)
      <3>1. \A k \in Keys : table'[k] = <<>>
        BY <2>1 DEF AbortSwapsTable
      <3>2. DOMAIN <<>> = {}
        <4>1. <<>> \in Seq(Items) /\ Len(<<>>) = 0
          BY EmptySeq
        <4> QED
          BY <4>1, LenProperties
      <3>3. \A k \in Keys : \A x, y : ~Ahead(k, x, y)' /\ ~InQueue(k, x)'
        BY <3>1, <3>2 DEF Ahead, Precedes, InQueue
      <3>4. \A r \in Waiters : outcome[r] = None
        BY DEF Waiters, IInv, Queues, Places, PlaceOf, InQueue
      <3>5. \A r \in Recvs : \/ outcome'[r] = outcome[r]
                             \/ outcome[r] = None /\ outcome'[r] \notin Sends \cup {None}
        BY <1>0, <2>1, <3>4 DEF AbortSwapsTable, TypeOK
      <3> QED
        BY <2>1, <3>3, <3>5, QuietOrder DEF AbortSwapsTable
    <2>2. CASE AbortReturns(a)
      BY <2>2, StillOrder DEF AbortReturns
    <2>3. ASSUME NEW r \in Recvs, AbortCallsWaiter(a, r) PROVE OInv'
      BY <2>3, StillOrder DEF AbortCallsWaiter
    <2> QED
      BY <1>3, <2>1, <2>2, <2>3 DEF StartAbort
  <1>4. ASSUME NEW t \in Cancellers, CancelBegins(t) \/ CancelCallback(t) \/ CancelEnds(t)
        PROVE  OInv'
    <2>1. ASSUME NEW q \in Recvs, CallbackFindsItem(t, q) PROVE OInv'
      <3> DEFINE k == KeyOf[q]
      <3>1. PICK i \in WithToken(k, token[q]) :
              /\ Decide(table[k][i], Cancelled)
              /\ table' = [table EXCEPT ![k] = Without(table[k], i)]
        BY <1>0, <2>1 DEF CallbackFindsItem, TypeOK
      <3> DEFINE r == table[k][i]
      <3>2. UNCHANGED <<status, send_vars, recv_vars, arrivals>>
        BY <2>1 DEF CallbackFindsItem
      <3>3. k \in Keys /\ table[k] \in Seq(Items) /\ i \in DOMAIN table[k] /\ r \in Recvs
        BY <1>0 DEF WithToken, TypeOK
      <3>4. KeyOf[r] = k /\ InQueue(k, r)
        BY <3>3 DEF IInv, Queues, InQueue
      <3>5. outcome[r] = None
        BY <3>3, <3>4 DEF IInv, Places, PlaceOf
      <3>6. Removal(table[k], Without(table[k], i), i)
        BY <3>3, WithoutRemoves
      <3>7. \A h \in Keys : table'[h] = IF h = k THEN Without(table[k], i) ELSE table[h]
        BY <1>0, <3>1 DEF TypeOK
      <3>8. \A x, y : Precedes(Without(table[k], i), x, y) => Precedes(table[k], x, y)
        BY <3>3, <3>6, RemovalOrder
      <3>9. \A h \in Keys : \A x, y : Ahead(h, x, y)' => Ahead(h, x, y)
        BY <3>7, <3>8 DEF Ahead
      <3>10. \A h \in Keys : \A x : InQueue(h, x)' => InQueue(h, x)
        <4> HIDE DEF k
        <4> QED
          BY <3>1, <3>2, <3>3, <3>6, RemovalKeeps DEF IInv
      <3>11. \A p \in Recvs : outcome'[p] = IF p = r THEN Cancelled ELSE outcome[p]
        BY <1>0, <3>1, <3>3 DEF Decide, TypeOK
      <3>12. \A p \in Recvs : \/ outcome'[p] = outcome[p]
                              \/ outcome[p] = None /\ outcome'[p] \notin Sends \cup {None}
        BY <3>5, <3>11
      <3> QED
        BY <3>2, <3>9, <3>10, <3>12, QuietOrder
    <2>2. CASE UNCHANGED <<table, arrivals, send_vars, recv_vars, outcome>>
      BY <2>2, StillOrder
    <2>3. ASSUME NEW q \in Recvs, CallbackFindsNothing(t, q) PROVE OInv'
      BY <2>2, <2>3 DEF CallbackFindsNothing
    <2>4. ASSUME NEW c \in callbacks_to_run[t], CallbackEnters(t, c) PROVE OInv'
      BY <2>2, <2>4 DEF CallbackEnters
    <2>5. CASE CallbackCallsWaiter(t) \/ CallbackLeaves(t) \/ CancelBegins(t) \/ CancelEnds(t)
      BY <2>2, <2>5 DEF CallbackCallsWaiter, CallbackLeaves, CancelBegins, CancelEnds
    <2> QED
      BY <1>4, <2>1, <2>3, <2>4, <2>5 DEF CancelCallback
  <1>5. CASE UNCHANGED vars
    BY <1>5, StillOrder DEF vars
  <1> QED
    BY <1>1, <1>2, <1>3, <1>4, <1>5 DEF Next

(* "The consumer receives them in the order as the producer sends them":     *)
(* whatever is cancelled in between, on every key.                           *)
THEOREM DeliveryIsFifo == Spec => []Fifo
  <1>1. ASSUME TypeOK, OInv PROVE Fifo
    <2> SUFFICES ASSUME NEW k \in Keys, NEW i \in DOMAIN arrivals[k], NEW j \in DOMAIN arrivals[k],
                        i < j
                 PROVE  LET x == arrivals[k][i]
                            y == arrivals[k][j]
                        IN  /\ x \in Sends /\ y \in Sends /\ Taken(y) => Taken(x)
                            /\ x \in Recvs /\ y \in Recvs /\ outcome[y] \in Sends =>
                                 /\ outcome[x] # None
                                 /\ outcome[x] \in Sends =>
                                      \E m, n \in DOMAIN arrivals[k] :
                                        m < n /\ arrivals[k][m] = outcome[x]
                                          /\ arrivals[k][n] = outcome[y]
      BY DEF Fifo
    <2>1. Before(k, arrivals[k][i], arrivals[k][j])
      BY DEF Before, Precedes
    <2>2. \A x, y : Before(k, x, y) <=>
            \E m, n \in DOMAIN arrivals[k] : m < n /\ arrivals[k][m] = x /\ arrivals[k][n] = y
      BY DEF Before, Precedes
    <2> QED
      BY <1>1, <2>1, <2>2 DEF OInv, InOrder
  <1>2. IInv /\ OInv => Fifo
    BY <1>1 DEF IInv
  <1> QED
    BY <1>2, InitOInv, NextOInv, RendezvousInvariant, PTL DEF Spec
================================================================================
