---------------------------- MODULE FIFOQueueProofs ----------------------------
(***************************************************************************)
(* Proofs about FIFOQueue, for any number of calls, elements, managers and *)
(* any capacity.                                                           *)
(***************************************************************************)
EXTENDS FIFOQueue, SequenceTheorems, WellFoundedInduction, TLAPS

(* x is in the sequence s; no two places of s hold the same. *)
On(s, x) == \E i \in 1 .. Len(s) : s[i] = x
Once(s) == \A i, j \in 1 .. Len(s) : s[i] = s[j] => i = j

--------------------------------------------------------------------------------
(* Sequences without repetition *)

(* The set of a sequence is what is in it. *)
LEMMA ToSetIsOn ==
  ASSUME NEW S, NEW s \in Seq(S), NEW x
  PROVE  x \in ToSet(s) <=> On(s, x)
  BY LenProperties DEF ToSet, On

(* Nothing is in the empty sequence, and only in that one. *)
LEMMA EmptyFacts ==
  ASSUME NEW S
  PROVE  /\ <<>> \in Seq(S) /\ Len(<<>>) = 0 /\ Once(<<>>)
         /\ \A x : ~On(<<>>, x)
         /\ \A s \in Seq(S) : (\A x : ~On(s, x)) => s = <<>>
  <1>1. <<>> \in Seq(S) /\ Len(<<>>) = 0
    BY EmptySeq
  <1>2. Once(<<>>) /\ \A x : ~On(<<>>, x)
    BY <1>1 DEF Once, On
  <1>3. ASSUME NEW s \in Seq(S), s # <<>> PROVE \E x : On(s, x)
    <2>1. PICK n \in Nat \ {0} : n = Len(s)
      BY <1>3, EmptySeq
    <2>2. 1 \in 1 .. Len(s)
      BY <2>1
    <2> QED
      BY <2>2 DEF On
  <1> QED
    BY <1>1, <1>2, <1>3

(* What is in a sequence has its type. *)
LEMMA ElementsOf ==
  ASSUME NEW S, NEW s \in Seq(S), NEW x, On(s, x)
  PROVE  x \in S /\ s # <<>>
  BY ElementOfSeq, EmptyFacts DEF On

(* push_back of something new. *)
LEMMA AppendFacts ==
  ASSUME NEW S, NEW s \in Seq(S), NEW x \in S
  PROVE  /\ Append(s, x) \in Seq(S) /\ Append(s, x) # <<>>
         /\ \A y : On(Append(s, x), y) <=> On(s, y) \/ y = x
         /\ Once(s) /\ ~On(s, x) => Once(Append(s, x))
  <1>1. PICK n \in Nat : n = Len(s)
    BY LenProperties
  <1>2. PICK r : r = Append(s, x)
    OBVIOUS
  <1>3. /\ r \in Seq(S) /\ r # <<>> /\ Len(r) = n + 1 /\ r[n + 1] = x
        /\ \A i \in 1 .. n : r[i] = s[i]
    BY <1>1, <1>2, AppendProperties
  <1>4. \A y : On(r, y) <=> On(s, y) \/ y = x
    <2> TAKE y
    <2>1. ASSUME On(r, y), y # x PROVE On(s, y)
      <3>1. PICK i \in 1 .. n + 1 : r[i] = y
        BY <1>3, <2>1 DEF On
      <3>2. i \in 1 .. n
        BY <1>3, <2>1, <3>1
      <3> QED
        BY <1>1, <1>3, <3>1, <3>2 DEF On
    <2>2. ASSUME On(s, y) PROVE On(r, y)
      <3>1. PICK i \in 1 .. n : s[i] = y
        BY <1>1, <2>2 DEF On
      <3>2. i \in 1 .. n + 1
        OBVIOUS
      <3> QED
        BY <1>3, <3>1, <3>2 DEF On
    <2>3. On(r, x)
      <3>1. n + 1 \in 1 .. n + 1
        OBVIOUS
      <3> QED
        BY <1>3, <3>1 DEF On
    <2> QED
      BY <2>1, <2>2, <2>3
  <1>5. ASSUME Once(s), ~On(s, x) PROVE Once(r)
    <2> SUFFICES ASSUME NEW i \in 1 .. n + 1, NEW j \in 1 .. n + 1, r[i] = r[j]
                 PROVE  i = j
      BY <1>3 DEF Once
    <2>1. \A k \in 1 .. n : s[k] # x
      BY <1>1, <1>5 DEF On
    <2>2. CASE i \in 1 .. n /\ j \in 1 .. n
      BY <1>1, <1>3, <1>5, <2>2 DEF Once
    <2>3. CASE i \in 1 .. n /\ j = n + 1
      BY <1>3, <2>1, <2>3
    <2>4. CASE i = n + 1 /\ j \in 1 .. n
      BY <1>3, <2>1, <2>4
    <2>5. (i \in 1 .. n \/ i = n + 1) /\ (j \in 1 .. n \/ j = n + 1)
      OBVIOUS
    <2> QED
      BY <2>2, <2>3, <2>4, <2>5
  <1> QED
    BY <1>2, <1>3, <1>4, <1>5

(* pop_front. *)
LEMMA TailFacts ==
  ASSUME NEW S, NEW s \in Seq(S), s # <<>>, Once(s)
  PROVE  /\ Head(s) \in S /\ On(s, Head(s))
         /\ Tail(s) \in Seq(S) /\ Once(Tail(s))
         /\ \A y : On(Tail(s), y) <=> On(s, y) /\ y # Head(s)
  <1>1. PICK n \in Nat \ {0} : n = Len(s)
    BY EmptySeq
  <1>2. PICK r : r = Tail(s)
    OBVIOUS
  <1>3. /\ r \in Seq(S) /\ Len(r) = n - 1 /\ Head(s) \in S
        /\ \A i \in 1 .. n - 1 : r[i] = s[i + 1]
    BY <1>1, <1>2, HeadTailProperties
  <1>4. Head(s) = s[1] /\ 1 \in 1 .. n
    BY <1>1
  <1>5. On(s, Head(s))
    BY <1>1, <1>4 DEF On
  <1>6. Once(r)
    <2> SUFFICES ASSUME NEW i \in 1 .. n - 1, NEW j \in 1 .. n - 1, r[i] = r[j]
                 PROVE  i = j
      BY <1>3 DEF Once
    <2>1. i + 1 \in 1 .. n /\ j + 1 \in 1 .. n
      OBVIOUS
    <2>2. i + 1 = j + 1
      BY <1>1, <1>3, <2>1 DEF Once
    <2> QED
      BY <2>2
  <1>7. \A y : On(r, y) <=> On(s, y) /\ y # Head(s)
    <2> TAKE y
    <2>1. ASSUME On(r, y) PROVE On(s, y) /\ y # Head(s)
      <3>1. PICK i \in 1 .. n - 1 : r[i] = y
        BY <1>3, <2>1 DEF On
      <3>2. i + 1 \in 1 .. n /\ s[i + 1] = y /\ i + 1 # 1
        BY <1>3, <3>1
      <3> QED
        BY <1>1, <1>4, <3>2 DEF On, Once
    <2>2. ASSUME On(s, y), y # Head(s) PROVE On(r, y)
      <3>1. PICK i \in 1 .. n : s[i] = y
        BY <1>1, <2>2 DEF On
      <3>2. i # 1
        BY <1>4, <2>2, <3>1
      <3>3. i - 1 \in 1 .. n - 1 /\ (i - 1) + 1 = i
        BY <3>2
      <3> QED
        BY <1>3, <3>1, <3>3 DEF On
    <2> QED
      BY <2>1, <2>2
  <1> QED
    BY <1>2, <1>3, <1>5, <1>6, <1>7

(* Two sequences with nothing in common, one after the other. *)
LEMMA ConcatFacts ==
  ASSUME NEW S, NEW s \in Seq(S), NEW t \in Seq(S)
  PROVE  /\ s \o t \in Seq(S) /\ Len(s \o t) = Len(s) + Len(t)
         /\ \A y : On(s \o t, y) <=> On(s, y) \/ On(t, y)
         /\ Once(s) /\ Once(t) /\ (\A y : ~(On(s, y) /\ On(t, y))) => Once(s \o t)
  <1>1. PICK n \in Nat, m \in Nat : n = Len(s) /\ m = Len(t)
    BY LenProperties
  <1>2. PICK r : r = s \o t
    OBVIOUS
  <1>3. /\ r \in Seq(S) /\ Len(r) = n + m
        /\ \A i \in 1 .. n + m : r[i] = IF i <= n THEN s[i] ELSE t[i - n]
    BY <1>1, <1>2, ConcatProperties
  <1>4. /\ \A i \in 1 .. n : i \in 1 .. n + m /\ r[i] = s[i]
        /\ \A i \in 1 .. m : i + n \in 1 .. n + m /\ r[i + n] = t[i]
    <2>1. \A i \in 1 .. n : i \in 1 .. n + m /\ i <= n
      OBVIOUS
    <2>2. \A i \in 1 .. m : i + n \in 1 .. n + m /\ ~(i + n <= n) /\ (i + n) - n = i
      OBVIOUS
    <2> QED
      BY <1>3, <2>1, <2>2
  <1>5. \A i \in 1 .. n + m : i \in 1 .. n \/ \E j \in 1 .. m : i = j + n
    <2> TAKE i \in 1 .. n + m
    <2>1. CASE i <= n
      BY <2>1
    <2>2. CASE ~(i <= n)
      <3>1. i - n \in 1 .. m /\ i = (i - n) + n
        BY <2>2
      <3> QED
        BY <3>1
    <2> QED
      BY <2>1, <2>2
  <1>6. \A y : On(r, y) <=> On(s, y) \/ On(t, y)
    <2> TAKE y
    <2>1. ASSUME On(r, y) PROVE On(s, y) \/ On(t, y)
      <3>1. PICK i \in 1 .. n + m : r[i] = y
        BY <1>3, <2>1 DEF On
      <3>2. (\E j \in 1 .. n : s[j] = y) \/ (\E j \in 1 .. m : t[j] = y)
        BY <1>4, <1>5, <3>1
      <3> QED
        BY <1>1, <3>2 DEF On
    <2>2. ASSUME On(s, y) PROVE On(r, y)
      <3>1. PICK i \in 1 .. n : s[i] = y
        BY <1>1, <2>2 DEF On
      <3> QED
        BY <1>3, <1>4, <3>1 DEF On
    <2>3. ASSUME On(t, y) PROVE On(r, y)
      <3>1. PICK i \in 1 .. m : t[i] = y
        BY <1>1, <2>3 DEF On
      <3> QED
        BY <1>3, <1>4, <3>1 DEF On
    <2> QED
      BY <2>1, <2>2, <2>3
  <1>7. ASSUME Once(s), Once(t), \A y : ~(On(s, y) /\ On(t, y)) PROVE Once(r)
    <2> SUFFICES ASSUME NEW i \in 1 .. n + m, NEW j \in 1 .. n + m, r[i] = r[j]
                 PROVE  i = j
      BY <1>3 DEF Once
    <2>1. \A k \in 1 .. n, l \in 1 .. m : s[k] # t[l]
      BY <1>1, <1>7 DEF On
    <2>2. CASE i \in 1 .. n /\ j \in 1 .. n
      BY <1>1, <1>4, <1>7, <2>2 DEF Once
    <2>3. CASE \E k \in 1 .. m, l \in 1 .. m : i = k + n /\ j = l + n
      <3>1. PICK k \in 1 .. m, l \in 1 .. m : i = k + n /\ j = l + n
        BY <2>3
      <3>2. t[k] = t[l]
        BY <1>4, <3>1
      <3>3. k = l
        BY <1>1, <1>7, <3>2 DEF Once
      <3> QED
        BY <3>1, <3>3
    <2>4. CASE i \in 1 .. n /\ \E l \in 1 .. m : j = l + n
      <3>1. PICK l \in 1 .. m : j = l + n
        BY <2>4
      <3>2. r[i] = s[i] /\ r[j] = t[l]
        BY <1>4, <2>4, <3>1
      <3> QED
        BY <2>1, <2>4, <3>2
    <2>5. CASE j \in 1 .. n /\ \E l \in 1 .. m : i = l + n
      <3>1. PICK l \in 1 .. m : i = l + n
        BY <2>5
      <3>2. r[j] = s[j] /\ r[i] = t[l]
        BY <1>4, <2>5, <3>1
      <3> QED
        BY <2>1, <2>5, <3>2
    <2> QED
      BY <1>5, <2>2, <2>3, <2>4, <2>5
  <1> QED
    BY <1>1, <1>2, <1>3, <1>6, <1>7

(* A sequence cut in two. *)
LEMMA CutFacts ==
  ASSUME NEW S, NEW s \in Seq(S), Once(s), NEW n \in Nat, n <= Len(s)
  PROVE  LET a == SubSeq(s, 1, n)
             b == SubSeq(s, n + 1, Len(s))
         IN  /\ a \in Seq(S) /\ b \in Seq(S) /\ Once(a) /\ Once(b)
             /\ Len(b) = Len(s) - n
             /\ \A y : On(s, y) <=> On(a, y) \/ On(b, y)
             /\ \A y : ~(On(a, y) /\ On(b, y))
  <1>1. PICK l \in Nat : l = Len(s)
    BY LenProperties
  <1>2. PICK a, b : a = SubSeq(s, 1, n) /\ b = SubSeq(s, n + 1, l)
    OBVIOUS
  <1>3. n <= l /\ \A i \in 1 .. l : s[i] \in S
    BY <1>1, ElementOfSeq
  <1>4. a \in Seq(S) /\ Len(a) = n /\ \A i \in 1 .. n : a[i] = s[i]
    <2>1. \A i \in 1 .. n : s[i] \in S
      BY <1>3
    <2>2. /\ a \in Seq(S) /\ Len(a) = IF 1 <= n THEN n - 1 + 1 ELSE 0
          /\ \A i \in 1 .. n - 1 + 1 : a[i] = s[1 + i - 1]
      BY <1>2, <2>1, SubSeqProperties
    <2> QED
      BY <2>2
  <1>5. b \in Seq(S) /\ Len(b) = l - n /\ \A i \in 1 .. l - n : b[i] = s[i + n]
    <2>1. \A i \in n + 1 .. l : s[i] \in S
      BY <1>3
    <2>2. /\ b \in Seq(S) /\ Len(b) = IF n + 1 <= l THEN l - (n + 1) + 1 ELSE 0
          /\ \A i \in 1 .. l - (n + 1) + 1 : b[i] = s[n + 1 + i - 1]
      BY <1>2, <2>1, SubSeqProperties
    <2>3. \A i \in 1 .. l - n : i \in 1 .. l - (n + 1) + 1 /\ n + 1 + i - 1 = i + n
      OBVIOUS
    <2> QED
      BY <1>3, <2>2, <2>3
  <1>6. \A i, j \in 1 .. l : s[i] = s[j] => i = j
    BY <1>1 DEF Once
  <1>7. Once(a) /\ Once(b)
    <2>1. Once(a)
      BY <1>3, <1>4, <1>6 DEF Once
    <2>2. ASSUME NEW i \in 1 .. l - n, NEW j \in 1 .. l - n, b[i] = b[j] PROVE i = j
      <3>1. i + n \in 1 .. l /\ j + n \in 1 .. l
        BY <1>3
      <3>2. i + n = j + n
        BY <1>5, <1>6, <2>2, <3>1
      <3> QED
        BY <3>2
    <2> QED
      BY <1>5, <2>1, <2>2 DEF Once
  <1>8. \A y : On(a, y) <=> \E i \in 1 .. l : i <= n /\ s[i] = y
    BY <1>3, <1>4 DEF On
  <1>9. \A y : On(b, y) <=> \E i \in 1 .. l : i > n /\ s[i] = y
    <2> TAKE y
    <2>1. ASSUME NEW i \in 1 .. l - n, b[i] = y PROVE \E k \in 1 .. l : k > n /\ s[k] = y
      <3>1. i + n \in 1 .. l /\ i + n > n
        BY <1>3
      <3> QED
        BY <1>5, <2>1, <3>1
    <2>2. ASSUME NEW i \in 1 .. l, i > n, s[i] = y PROVE \E k \in 1 .. l - n : b[k] = y
      <3>1. i - n \in 1 .. l - n /\ (i - n) + n = i
        BY <2>2
      <3> QED
        BY <1>5, <2>2, <3>1
    <2> QED
      BY <1>5, <2>1, <2>2 DEF On
  <1>10. \A y : On(s, y) <=> On(a, y) \/ On(b, y)
    <2>1. \A i \in 1 .. l : i <= n \/ i > n
      OBVIOUS
    <2> QED
      BY <1>1, <1>8, <1>9, <2>1 DEF On
  <1>11. \A y : ~(On(a, y) /\ On(b, y))
    BY <1>6, <1>8, <1>9
  <1> QED
    BY <1>1, <1>2, <1>4, <1>5, <1>7, <1>10, <1>11

(* s is the elements first .. last of enqueue a, n of them. *)
Batch(s, a, first, last, n) ==
  /\ s \in Seq(Enqueues \X Nat) /\ Len(s) = n /\ Once(s)
  /\ \A y : On(s, y) <=> \E k \in Nat : first <= k /\ k <= last /\ y = <<a, k>>

(* Slices are such a batch. *)
LEMMA SlicesFacts ==
  ASSUME NEW a \in Enqueues, NEW first \in Nat \ {0}, NEW last \in Int, NEW n \in Nat,
         n = last - first + 1
  PROVE  Batch(Slices(a, first, last), a, first, last, n)
  <1>1. PICK new : new = Slices(a, first, last)
    OBVIOUS
  <1>2. new = [k \in 1 .. n |-> <<a, first + k - 1>>]
    BY <1>1 DEF Slices
  <1>3. \A k \in 1 .. n : new[k] = <<a, first + k - 1>> /\ first + k - 1 \in Nat
    BY <1>2
  <1>4. new \in [1 .. n -> Enqueues \X Nat]
    BY <1>2, <1>3
  <1>5. new \in Seq(Enqueues \X Nat) /\ Len(new) = n
    BY <1>4, SeqDef, LenProperties
  <1>6. Once(new)
    BY <1>3, <1>5 DEF Once
  <1>7. \A y : On(new, y) <=> \E k \in Nat : first <= k /\ k <= last /\ y = <<a, k>>
    <2> TAKE y
    <2>1. ASSUME NEW i \in 1 .. n, new[i] = y
          PROVE  \E k \in Nat : first <= k /\ k <= last /\ y = <<a, k>>
      <3>1. first + i - 1 \in Nat /\ first <= first + i - 1 /\ first + i - 1 <= last
        OBVIOUS
      <3> QED
        BY <1>3, <2>1, <3>1
    <2>2. ASSUME NEW k \in Nat, first <= k, k <= last, y = <<a, k>>
          PROVE  \E i \in 1 .. n : new[i] = y
      <3>1. k - first + 1 \in 1 .. n /\ first + (k - first + 1) - 1 = k
        BY <2>2
      <3>2. new[k - first + 1] = <<a, first + (k - first + 1) - 1>>
        BY <1>3, <3>1
      <3> QED
        BY <2>2, <3>1, <3>2
    <2> QED
      BY <1>5, <2>1, <2>2 DEF On
  <1> QED
    BY <1>1, <1>5, <1>6, <1>7 DEF Batch

--------------------------------------------------------------------------------
(* What the loop of CloseAndCancel finds: by the least number of attempts    *)
(* after which it would be wrong.                                            *)

(* A set of natural numbers has a least element. *)
LEMMA LeastNumber ==
  ASSUME NEW T, T \subseteq Nat, T # {}
  PROVE  \E x \in T : \A y \in T : x <= y
  <1>1. \E x \in T : \A y \in T : ~(<<y, x>> \in OpToRel(<, Nat))
    BY NatLessThanWellFounded, WFMin
  <1>2. PICK x \in T : \A y \in T : ~(<<y, x>> \in OpToRel(<, Nat))
    BY <1>1
  <1>3. \A y \in T : ~(y < x)
    BY <1>2 DEF OpToRel
  <1> QED
    BY <1>3

(* f is what the loop has found among the first attempts, up to n of them. *)
Finds(f, s, n) ==
  f = [i \in 0 .. n |-> IF i = 0 THEN <<>>
                        ELSE IF is_cancelled[s[i]] THEN f[i - 1]
                        ELSE Append(f[i - 1], s[i])]

(* There is such a function. *)
LEMMA FindsExists ==
  ASSUME NEW s, NEW n \in Nat
  PROVE  \E f : Finds(f, s, n)
  <1> DEFINE Step(x, i) == IF is_cancelled[s[i]] THEN x ELSE Append(x, s[i])
             Good(m) == \E f : f = [i \in 0 .. m |-> IF i = 0 THEN <<>> ELSE Step(f[i - 1], i)]
             T == {m \in Nat : ~Good(m)}
  <1> HIDE DEF Step
  <1>1. Good(0)
    <2> DEFINE f == [i \in 0 .. 0 |-> <<>>]
    <2>1. f = [i \in 0 .. 0 |-> IF i = 0 THEN <<>> ELSE Step(f[i - 1], i)]
      OBVIOUS
    <2> QED
      BY <2>1
  <1>2. ASSUME NEW m \in Nat, m > 0, Good(m - 1)
        PROVE  Good(m)
    <2>1. PICK f : f = [i \in 0 .. m - 1 |-> IF i = 0 THEN <<>> ELSE Step(f[i - 1], i)]
      BY <1>2
    <2> DEFINE g == [i \in 0 .. m |-> IF i = m THEN Step(f[m - 1], m) ELSE f[i]]
               h == [i \in 0 .. m |-> IF i = 0 THEN <<>> ELSE Step(g[i - 1], i)]
    <2>2. ASSUME NEW i \in 0 .. m
          PROVE  g[i] = IF i = 0 THEN <<>> ELSE Step(g[i - 1], i)
      <3>1. CASE i = m
        <4>1. m - 1 \in 0 .. m /\ m - 1 # m /\ i # 0
          BY <1>2, <3>1
        <4>2. g[m - 1] = f[m - 1]
          BY <4>1
        <4> QED
          BY <3>1, <4>1, <4>2
      <3>2. CASE i # m
        <4>1. i \in 0 .. m - 1 /\ (i # 0 => i - 1 \in 0 .. m /\ i - 1 # m)
          BY <1>2, <3>2
        <4>2. f[i] = IF i = 0 THEN <<>> ELSE Step(f[i - 1], i)
          BY <2>1, <4>1
        <4> QED
          BY <3>2, <4>1, <4>2
      <3> QED
        BY <3>1, <3>2
    <2>3. \A i \in 0 .. m : g[i] = h[i]
      BY <2>2
    <2>4. g = h
      BY <2>3
    <2> HIDE DEF g
    <2> QED
      BY <2>4
  <1> HIDE DEF Good
  <1>3. T = {}
    <2> SUFFICES ASSUME T # {} PROVE FALSE
      OBVIOUS
    <2>1. PICK m \in T : \A k \in T : m <= k
      BY LeastNumber
    <2>2. m # 0
      BY <1>1, <2>1
    <2>3. m - 1 \in Nat /\ m - 1 \notin T
      BY <2>1, <2>2
    <2> QED
      BY <1>2, <2>1, <2>2, <2>3
  <1>4. Good(n)
    BY <1>3
  <1> QED
    BY <1>4 DEF Good, Finds, Step

(* The pending attempts are those not cancelled, each once. *)
LEMMA PendingFacts ==
  ASSUME NEW S, NEW s \in Seq(S), Once(s)
  PROVE  /\ Pending(s) \in Seq(S) /\ Once(Pending(s))
         /\ \A y : On(Pending(s), y) <=> On(s, y) /\ ~is_cancelled[y]
  <1>1. PICK n \in Nat : n = Len(s)
    BY LenProperties
  <1>2. PICK f : Finds(f, s, n) /\ Pending(s) = f[n]
    <2> DEFINE g == CHOOSE h : h = [i \in 0 .. Len(s) |->
                      IF i = 0 THEN <<>>
                      ELSE IF is_cancelled[s[i]] THEN h[i - 1]
                      ELSE Append(h[i - 1], s[i])]
    <2>1. Finds(g, s, Len(s))
      BY <1>1, FindsExists DEF Finds
    <2>2. Pending(s) = g[Len(s)]
      BY DEF Pending
    <2> HIDE DEF g
    <2> QED
      BY <1>1, <2>1, <2>2
  <1>3. /\ f[0] = <<>>
        /\ \A i \in 1 .. n : f[i] = IF is_cancelled[s[i]] THEN f[i - 1] ELSE Append(f[i - 1], s[i])
    <2> DEFINE Step(x, i) == IF is_cancelled[s[i]] THEN x ELSE Append(x, s[i])
    <2>1. f = [i \in 0 .. n |-> IF i = 0 THEN <<>> ELSE Step(f[i - 1], i)]
      BY <1>2, Zenon DEF Finds
    <2> HIDE DEF Step
    <2>2. f[0] = <<>> /\ \A i \in 1 .. n : f[i] = Step(f[i - 1], i)
      BY <2>1
    <2> QED
      BY <2>2 DEF Step
  <1> DEFINE Right(m) ==
               /\ f[m] \in Seq(S) /\ Once(f[m])
               /\ \A y : On(f[m], y) <=> (\E i \in 1 .. m : s[i] = y) /\ ~is_cancelled[y]
             T == {m \in Nat : m <= n /\ ~Right(m)}
  <1>4. Right(0)
    <2>1. f[0] \in Seq(S) /\ Once(f[0]) /\ \A y : ~On(f[0], y)
      BY <1>3, EmptyFacts
    <2>2. \A i : i \notin 1 .. 0
      OBVIOUS
    <2> QED
      BY <2>1, <2>2
  <1>5. ASSUME NEW m \in Nat, m > 0, m <= n, Right(m - 1)
        PROVE  Right(m)
    <2>1. m \in 1 .. n /\ \A i \in 1 .. m : i \in 1 .. n
      BY <1>5
    <2>2. s[m] \in S /\ \A i \in 1 .. m - 1 : s[i] # s[m]
      <3>1. s[m] \in S
        BY <1>1, <2>1, ElementOfSeq
      <3>2. \A i \in 1 .. m - 1 : i \in 1 .. n /\ i # m
        BY <1>5
      <3> QED
        BY <1>1, <2>1, <3>1, <3>2 DEF Once
    <2>3. \A y : (\E i \in 1 .. m : s[i] = y) <=> (\E i \in 1 .. m - 1 : s[i] = y) \/ s[m] = y
      <3>1. \A i : i \in 1 .. m <=> i \in 1 .. m - 1 \/ i = m
        BY <1>5
      <3> QED
        BY <3>1
    <2>4. CASE is_cancelled[s[m]]
      <3>1. f[m] = f[m - 1]
        BY <1>3, <2>1, <2>4
      <3> QED
        BY <1>5, <2>3, <2>4, <3>1
    <2>5. CASE ~is_cancelled[s[m]]
      <3>1. PICK p : p = f[m - 1]
        OBVIOUS
      <3>2. f[m] = Append(p, s[m])
        BY <1>3, <2>1, <2>5, <3>1
      <3>3. /\ p \in Seq(S) /\ Once(p)
            /\ \A y : On(p, y) <=> (\E i \in 1 .. m - 1 : s[i] = y) /\ ~is_cancelled[y]
        BY <1>5, <3>1
      <3>4. ~On(p, s[m])
        BY <2>2, <3>3
      <3>5. /\ f[m] \in Seq(S) /\ Once(f[m])
            /\ \A y : On(f[m], y) <=> On(p, y) \/ y = s[m]
        BY <2>2, <3>2, <3>3, <3>4, AppendFacts
      <3> QED
        BY <2>3, <2>5, <3>3, <3>5
    <2> QED
      BY <2>4, <2>5
  <1> HIDE DEF Right
  <1>6. T = {}
    <2> SUFFICES ASSUME T # {} PROVE FALSE
      OBVIOUS
    <2>1. PICK m \in T : \A k \in T : m <= k
      BY LeastNumber
    <2>2. m # 0
      BY <1>4, <2>1
    <2>3. m - 1 \in Nat /\ m - 1 \notin T /\ m - 1 <= n
      BY <2>1, <2>2
    <2> QED
      BY <1>5, <2>1, <2>2, <2>3
  <1>7. Right(n)
    BY <1>6
  <1> QED
    BY <1>1, <1>2, <1>7 DEF Right, On

--------------------------------------------------------------------------------
(* The inductive invariant *)

Pcs == {"start", "deliver", "over", "flush", "calling", "loop", "cancel", "enqueue", "dequeue",
        "clean_up", "wait"}

TypeOK ==
  /\ queue \in Seq(Enqueues \X Nat) /\ accepted \in Seq(Enqueues \X Nat)
  /\ closed \in BOOLEAN
  /\ enqueue_attempts \in Seq(Enqueues \cup Closes) /\ dequeue_attempts \in Seq(Dequeues)
  /\ is_cancelled \in [Ops -> BOOLEAN]
  /\ args \in Args
  /\ requested \in [Attempts -> Nat]
  /\ tuple \in [Dequeues -> Seq(Enqueues \X Nat)]
  /\ pc \in [Threads -> Pcs]
  /\ to_call \in [Threads -> Seq(Ops)]
  /\ calls \in [Ops -> Nat]
  /\ outcome \in [Ops -> {"none", "ok", "cancelled", "closed", "out_of_range"}]

InDeque(a) == On(enqueue_attempts, a) \/ On(dequeue_attempts, a)
Held(a) == \E t \in Threads : On(to_call[t], a)

(* No attempt is twice in a deque, or to be called back twice; only a thread *)
(* on its way through the callbacks or FlushUnlocked has something to call.  *)
Lists ==
  /\ Once(enqueue_attempts) /\ Once(dequeue_attempts)
  /\ \A t \in Threads :
       /\ Once(to_call[t])
       /\ to_call[t] # <<>> => pc[t] \in {"calling", "enqueue", "dequeue", "clean_up", "wait"}
  /\ \A t, u \in Threads, a \in Ops : On(to_call[t], a) /\ On(to_call[u], a) => t = u

(* a is answered by its own call, and is never queued. *)
Direct(a) == pc[a] \in {"start", "deliver"} \/ a \in args.cancel_pending

(* Where an op is, by how far its call has come. *)
Places ==
  \A a \in Ops :
    /\ calls[a] \in {0, 1}
    /\ Direct(a) => ~InDeque(a) /\ ~Held(a) /\ (calls[a] = 0 <=> pc[a] # "over")
    /\ pc[a] = "start" => ~is_cancelled[a]
    /\ ~Direct(a) /\ calls[a] = 0 => Held(a) \/ (InDeque(a) /\ ~is_cancelled[a])
    /\ InDeque(a) /\ ~is_cancelled[a] => calls[a] = 0 /\ ~Held(a)
    /\ Held(a) => calls[a] = 0

OInv == TypeOK /\ Lists /\ Places

(* No element is in two places, every accepted one is in one, and an         *)
(* enqueue's elements are accepted in the order of their indices; only a     *)
(* closed queue may be over its capacity.                                    *)
Elements ==
  /\ Once(queue) /\ \A d \in Dequeues : Once(tuple[d])
  /\ \A d \in Dequeues : \A x : ~(On(queue, x) /\ On(tuple[d], x))
  /\ \A c, d \in Dequeues : \A x : On(tuple[c], x) /\ On(tuple[d], x) => c = d
  /\ \A x : On(accepted, x) <=> On(queue, x) \/ \E d \in Dequeues : On(tuple[d], x)
  /\ \A a \in Enqueues :
       /\ requested[a] <= args.size[a]
       /\ \A i \in Nat : On(accepted, <<a, i>>) => i <= args.size[a] - requested[a]
  /\ ~closed => Len(queue) <= Capacity

(* A dequeue that has elements waits for more, or keeps them. *)
Kept ==
  \A d \in Dequeues :
    tuple[d] # <<>> => \/ InDeque(d) /\ ~is_cancelled[d]
                       \/ outcome[d] \in {"ok", "cancelled"}

--------------------------------------------------------------------------------
(* What is a thread, an op, an attempt. *)
LEMMA Kinds ==
  /\ Attempts \subseteq Ops /\ Ops \subseteq Threads /\ Cancelled \subseteq Threads
  /\ Enqueues \cup Closes \subseteq Ops /\ Enqueues \subseteq Attempts
  /\ Closes \subseteq Ops /\ Dequeues \subseteq Ops /\ Dequeues \subseteq Attempts
  /\ \A x \in Cancelled : x \notin Ops
  /\ \A x \in Attempts : x \notin Closes
  /\ \A x \in Dequeues : x \notin Enqueues \cup Closes
  /\ \A x \in Ops : x \in Enqueues \cup Closes \/ x \in Dequeues
  /\ \A x \in Attempts : x \in Enqueues \/ x \in Dequeues
  BY QueueAssumption DEF Threads, Ops, Attempts

(* The arguments are what the ops were called with. *)
LEMMA ArgFacts ==
  ASSUME args \in Args
  PROVE  args.size \in [Attempts -> Nat] /\ args.cancel_pending \subseteq Closes
  BY QueueAssumption

(* Nobody has called yet. *)
LEMMA InitOInv == Init => OInv
  <1> SUFFICES ASSUME Init PROVE OInv
    OBVIOUS
  <1>1. TypeOK
    BY EmptySeq, ArgFacts DEF Init, TypeOK, Pcs
  <1>2. /\ enqueue_attempts = <<>> /\ dequeue_attempts = <<>>
        /\ \A t \in Threads : to_call[t] = <<>>
        /\ \A a \in Ops : pc[a] = "start" /\ calls[a] = 0 /\ ~is_cancelled[a]
    BY Kinds DEF Init
  <1>3. Once(<<>>) /\ \A x : ~On(<<>>, x)
    BY EmptyFacts
  <1>4. Lists
    BY <1>2, <1>3 DEF Lists
  <1>5. Places
    BY <1>2, <1>3 DEF Places, Direct, InDeque, Held
  <1> QED
    BY <1>1, <1>4, <1>5 DEF OInv

(* A thread goes on inside a call: nothing else has changed. *)
LEMMA MoveKeeps ==
  ASSUME OInv, TypeOK', NEW t \in Threads, NEW p \in Pcs,
         pc' = [pc EXCEPT ![t] = p],
         t \in Ops => pc[t] \notin {"start", "deliver", "over"} /\ p \notin {"start", "deliver", "over"},
         to_call[t] # <<>> => p \in {"calling", "enqueue", "dequeue", "clean_up", "wait"},
         UNCHANGED <<enqueue_attempts, dequeue_attempts, is_cancelled, args, to_call, calls>>
  PROVE  OInv'
  <1>1. /\ \A u \in Threads : pc'[u] = IF u = t THEN p ELSE pc[u]
        /\ \A x \in Ops : x \in Threads
    BY Kinds DEF OInv, TypeOK
  <1>2. Lists'
    BY <1>1 DEF OInv, Lists
  <1>3. \A x : (InDeque(x)' <=> InDeque(x)) /\ (Held(x)' <=> Held(x))
    BY DEF InDeque, Held
  <1>4. Places'
    BY <1>1, <1>3 DEF OInv, Places, Direct
  <1> QED
    BY <1>2, <1>4 DEF OInv

(* TryEnqueueMany, TryDequeueMany and the answer of a call to itself. *)
LEMMA AnswerSelf ==
  ASSUME OInv, TypeOK', NEW a \in Ops, pc[a] \in {"start", "deliver"},
         pc' = [pc EXCEPT ![a] = "over"], calls' = [calls EXCEPT ![a] = @ + 1],
         UNCHANGED <<enqueue_attempts, dequeue_attempts, is_cancelled, args, to_call>>
  PROVE  OInv'
  <1>1. /\ \A u \in Threads : pc'[u] = IF u = a THEN "over" ELSE pc[u]
        /\ \A x \in Ops : x \in Threads
        /\ \A x \in Ops : calls'[x] = IF x = a THEN calls[a] + 1 ELSE calls[x]
    BY Kinds DEF OInv, TypeOK
  <1>2. \A x : (InDeque(x)' <=> InDeque(x)) /\ (Held(x)' <=> Held(x))
    BY DEF InDeque, Held
  <1>3. ~InDeque(a) /\ ~Held(a) /\ calls[a] = 0
    BY DEF OInv, Places, Direct
  <1>4. to_call[a] = <<>>
    BY <1>1 DEF OInv, Lists
  <1>5. Lists'
    BY <1>1, <1>4 DEF OInv, Lists
  <1>6. Places'
    BY <1>1, <1>2, <1>3 DEF OInv, Places, Direct
  <1> QED
    BY <1>5, <1>6 DEF OInv

(* An op is put at the end of its deque. *)
LEMMA QueueOp ==
  ASSUME OInv, TypeOK', NEW a \in Ops, pc[a] = "start", a \notin args.cancel_pending,
         pc' = [pc EXCEPT ![a] = "flush"],
         \/ /\ a \in Enqueues \cup Closes
            /\ enqueue_attempts' = Append(enqueue_attempts, a)
            /\ UNCHANGED dequeue_attempts
         \/ /\ a \in Dequeues
            /\ dequeue_attempts' = Append(dequeue_attempts, a)
            /\ UNCHANGED enqueue_attempts,
         UNCHANGED <<is_cancelled, args, to_call, calls>>
  PROVE  OInv'
  <1>1. /\ \A u \in Threads : pc'[u] = IF u = a THEN "flush" ELSE pc[u]
        /\ \A x \in Ops : x \in Threads
    BY Kinds DEF OInv, TypeOK
  <1>2. ~InDeque(a) /\ ~Held(a) /\ calls[a] = 0 /\ ~is_cancelled[a]
    BY DEF OInv, Places, Direct
  <1>3. to_call[a] = <<>>
    BY <1>1 DEF OInv, Lists
  <1>4. /\ Once(enqueue_attempts') /\ Once(dequeue_attempts')
        /\ \A x : InDeque(x)' <=> InDeque(x) \/ x = a
    <2>1. CASE a \in Enqueues \cup Closes /\ enqueue_attempts' = Append(enqueue_attempts, a)
               /\ UNCHANGED dequeue_attempts
      BY <1>2, <2>1, AppendFacts DEF OInv, TypeOK, Lists, InDeque
    <2>2. CASE a \in Dequeues /\ dequeue_attempts' = Append(dequeue_attempts, a)
               /\ UNCHANGED enqueue_attempts
      BY <1>2, <2>2, AppendFacts DEF OInv, TypeOK, Lists, InDeque
    <2> QED
      BY <2>1, <2>2
  <1>5. \A x : Held(x)' <=> Held(x)
    BY DEF Held
  <1>6. Lists'
    BY <1>1, <1>3, <1>4 DEF OInv, Lists
  <1>7. Places'
    BY <1>1, <1>2, <1>4, <1>5 DEF OInv, Places, Direct
  <1> QED
    BY <1>6, <1>7 DEF OInv

(* The front of a deque is dropped if it is cancelled; otherwise it is       *)
(* handed to the thread that will call it back.                              *)
LEMMA TakeFront ==
  ASSUME OInv, TypeOK', NEW t \in Threads, NEW a,
         \/ /\ enqueue_attempts # <<>> /\ a = Head(enqueue_attempts)
            /\ enqueue_attempts' = Tail(enqueue_attempts)
            /\ UNCHANGED dequeue_attempts
         \/ /\ dequeue_attempts # <<>> /\ a = Head(dequeue_attempts)
            /\ dequeue_attempts' = Tail(dequeue_attempts)
            /\ UNCHANGED enqueue_attempts,
         \/ is_cancelled[a] /\ UNCHANGED to_call
         \/ ~is_cancelled[a] /\ to_call' = [to_call EXCEPT ![t] = Append(@, a)]
            /\ pc[t] \in {"enqueue", "dequeue"},
         UNCHANGED <<is_cancelled, args, calls, pc>>
  PROVE  OInv' /\ a \in Ops /\ \A x : InDeque(x)' <=> InDeque(x) /\ x # a
  <1>1. /\ a \in Ops /\ InDeque(a)
        /\ Once(enqueue_attempts') /\ Once(dequeue_attempts')
        /\ \A x : InDeque(x)' <=> InDeque(x) /\ x # a
    <2>1. CASE /\ enqueue_attempts # <<>> /\ a = Head(enqueue_attempts)
               /\ enqueue_attempts' = Tail(enqueue_attempts)
               /\ UNCHANGED dequeue_attempts
      <3>1. /\ a \in Enqueues \cup Closes /\ On(enqueue_attempts, a)
            /\ Once(enqueue_attempts')
            /\ \A x : On(enqueue_attempts', x) <=> On(enqueue_attempts, x) /\ x # a
        BY <2>1, TailFacts DEF OInv, TypeOK, Lists
      <3>2. a \in Ops /\ ~On(dequeue_attempts, a)
        BY <3>1, Kinds, ElementsOf DEF OInv, TypeOK
      <3> QED
        BY <2>1, <3>1, <3>2 DEF InDeque, OInv, Lists
    <2>2. CASE /\ dequeue_attempts # <<>> /\ a = Head(dequeue_attempts)
               /\ dequeue_attempts' = Tail(dequeue_attempts)
               /\ UNCHANGED enqueue_attempts
      <3>1. /\ a \in Dequeues /\ On(dequeue_attempts, a)
            /\ Once(dequeue_attempts')
            /\ \A x : On(dequeue_attempts', x) <=> On(dequeue_attempts, x) /\ x # a
        BY <2>2, TailFacts DEF OInv, TypeOK, Lists
      <3>2. a \in Ops /\ ~On(enqueue_attempts, a)
        BY <3>1, Kinds, ElementsOf DEF OInv, TypeOK
      <3> QED
        BY <2>2, <3>1, <3>2 DEF InDeque, OInv, Lists
    <2> QED
      BY <2>1, <2>2
  <1>2. \A x \in Ops : x \in Threads /\ pc'[x] = pc[x]
    BY Kinds
  <1>3. CASE is_cancelled[a] /\ UNCHANGED to_call
    <2>1. Lists'
      BY <1>1, <1>3 DEF OInv, Lists
    <2>2. \A x : Held(x)' <=> Held(x)
      BY <1>3 DEF Held
    <2>3. Places'
      BY <1>1, <1>2, <1>3, <2>2 DEF OInv, Places, Direct
    <2> QED
      BY <1>1, <2>1, <2>3 DEF OInv
  <1>4. CASE ~is_cancelled[a] /\ to_call' = [to_call EXCEPT ![t] = Append(@, a)]
             /\ pc[t] \in {"enqueue", "dequeue"}
    <2>1. ~Held(a) /\ calls[a] = 0 /\ ~Direct(a)
      BY <1>1, <1>4 DEF OInv, Places
    <2>2. to_call[t] \in Seq(Ops) /\ Once(to_call[t]) /\ ~On(to_call[t], a)
      BY <2>1 DEF OInv, TypeOK, Lists, Held
    <2>3. /\ \A u \in Threads : to_call'[u] = IF u = t THEN Append(to_call[t], a) ELSE to_call[u]
          /\ Once(Append(to_call[t], a))
          /\ \A x : On(Append(to_call[t], a), x) <=> On(to_call[t], x) \/ x = a
      BY <1>1, <1>4, <2>2, AppendFacts DEF OInv, TypeOK
    <2>4. \A x : Held(x)' <=> Held(x) \/ x = a
      BY <2>3 DEF Held
    <2>5. Lists'
      <3>1. \A u \in Threads : Once(to_call'[u]) /\ (to_call'[u] # <<>> => pc'[u] \in
              {"calling", "enqueue", "dequeue", "clean_up", "wait"})
        BY <1>4, <2>3 DEF OInv, Lists
      <3>2. \A u \in Threads : ~On(to_call[u], a)
        BY <2>1 DEF Held
      <3>3. \A u, v \in Threads, x \in Ops : On(to_call'[u], x) /\ On(to_call'[v], x) => u = v
        BY <2>3, <3>2 DEF OInv, Lists
      <3> QED
        BY <1>1, <3>1, <3>3 DEF Lists
    <2>6. Places'
      BY <1>1, <1>2, <1>4, <2>1, <2>4 DEF OInv, Places, Direct
    <2> QED
      BY <1>1, <2>5, <2>6 DEF OInv
  <1> QED
    BY <1>3, <1>4

(* The first of the callbacks that a thread holds is called. *)
LEMMA AnswerHeld ==
  ASSUME OInv, TypeOK', NEW t \in Threads, to_call[t] # <<>>,
         calls' = [calls EXCEPT ![Head(to_call[t])] = @ + 1],
         to_call' = [to_call EXCEPT ![t] = Tail(@)],
         UNCHANGED <<enqueue_attempts, dequeue_attempts, is_cancelled, args, pc>>
  PROVE  OInv'
  <1>1. PICK a : a = Head(to_call[t])
    OBVIOUS
  <1>2. PICK rest : rest = Tail(to_call[t])
    OBVIOUS
  <1>3. /\ a \in Ops /\ On(to_call[t], a) /\ Once(rest)
        /\ \A x : On(rest, x) <=> On(to_call[t], x) /\ x # a
    BY <1>1, <1>2, TailFacts DEF OInv, TypeOK, Lists
  <1>4. \A u \in Threads : to_call'[u] = IF u = t THEN rest ELSE to_call[u]
    BY <1>2 DEF OInv, TypeOK
  <1>5. \A x \in Ops : calls'[x] = IF x = a THEN calls[a] + 1 ELSE calls[x]
    BY <1>1, <1>3 DEF OInv, TypeOK
  <1>6. Held(a) /\ calls[a] = 0 /\ ~Direct(a)
    BY <1>3 DEF OInv, Places, Held
  <1>7. \A x \in Ops : Held(x)' <=> Held(x) /\ x # a
    BY <1>3, <1>4 DEF Held, OInv, Lists
  <1>8. \A x : InDeque(x)' <=> InDeque(x)
    BY DEF InDeque
  <1>9. Lists'
    <2>1. \A u \in Threads : Once(to_call'[u]) /\ (to_call'[u] # <<>> => to_call[u] # <<>>)
      BY <1>3, <1>4 DEF OInv, Lists
    <2>2. \A u \in Threads : \A x : On(to_call'[u], x) => On(to_call[u], x)
      BY <1>3, <1>4
    <2> QED
      BY <2>1, <2>2 DEF OInv, Lists
  <1>10. Places'
    BY <1>3, <1>5, <1>6, <1>7, <1>8 DEF OInv, Places, Direct
  <1> QED
    BY <1>9, <1>10 DEF OInv

(* Ops that wait in a deque are cancelled, and are the thread's to call.     *)
LEMMA CancelOps ==
  ASSUME OInv, TypeOK', NEW t \in Threads, NEW list \in Seq(Ops), Once(list),
         \A x : On(list, x) => InDeque(x) /\ ~is_cancelled[x],
         t \in Ops => t \in args.cancel_pending /\ pc[t] = "start",
         to_call[t] = <<>>,
         pc' = [pc EXCEPT ![t] = "calling"],
         to_call' = [to_call EXCEPT ![t] = list],
         \A x \in Ops : is_cancelled'[x] <=> is_cancelled[x] \/ On(list, x),
         UNCHANGED <<enqueue_attempts, dequeue_attempts, args, calls>>
  PROVE  OInv'
  <1>1. /\ \A u \in Threads : pc'[u] = IF u = t THEN "calling" ELSE pc[u]
        /\ \A u \in Threads : to_call'[u] = IF u = t THEN list ELSE to_call[u]
        /\ \A x \in Ops : x \in Threads
    BY Kinds DEF OInv, TypeOK
  <1>2. \A x : InDeque(x)' <=> InDeque(x)
    BY DEF InDeque
  <1>3. \A x \in Ops : On(list, x) => ~Held(x) /\ calls[x] = 0 /\ ~Direct(x)
    BY DEF OInv, Places
  <1>4. \A x : ~On(to_call[t], x)
    BY EmptyFacts
  <1>5. \A x : Held(x)' <=> Held(x) \/ On(list, x)
    BY <1>1, <1>4 DEF Held
  <1>6. Lists'
    <2>1. \A u \in Threads : Once(to_call'[u]) /\ (to_call'[u] # <<>> => pc'[u] \in
            {"calling", "enqueue", "dequeue", "clean_up", "wait"})
      BY <1>1 DEF OInv, Lists
    <2>2. \A u \in Threads, x \in Ops : On(list, x) => ~On(to_call[u], x)
      BY <1>3 DEF Held
    <2>3. \A u, v \in Threads, x \in Ops : On(to_call'[u], x) /\ On(to_call'[v], x) => u = v
      BY <1>1, <2>2 DEF OInv, Lists
    <2> QED
      BY <2>1, <2>3 DEF OInv, Lists
  <1>7. Places'
    BY <1>1, <1>2, <1>3, <1>5 DEF OInv, Places, Direct
  <1> QED
    BY <1>6, <1>7 DEF OInv

--------------------------------------------------------------------------------
(* The steps *)

(* TryEnqueueMany and TryDequeueMany keep the invariant, ... *)
LEMMA TryKeeps == ASSUME OInv, NEW a \in Attempts, Try(a) PROVE OInv'
  <1>1. a \in Ops /\ a \in Threads /\ a \notin Closes
    BY Kinds
  <1>2. CASE TryEmptyBatch(a) \/ Deliver(a)
    <2>1. /\ pc[a] \in {"start", "deliver"} /\ pc' = [pc EXCEPT ![a] = "over"]
          /\ calls' = [calls EXCEPT ![a] = @ + 1]
          /\ outcome' = outcome \/ outcome' = [outcome EXCEPT ![a] = "ok"]
          /\ UNCHANGED <<args, queue, closed, enqueue_attempts, dequeue_attempts, is_cancelled,
                         requested, tuple, to_call, accepted>>
      BY <1>2 DEF TryEmptyBatch, Deliver, Goto, Answer, deques, attempt_vars
    <2>2. calls' \in [Ops -> Nat] /\ pc' \in [Threads -> Pcs]
      BY <1>1, <2>1 DEF OInv, TypeOK, Pcs
    <2>3. outcome' \in [Ops -> {"none", "ok", "cancelled", "closed", "out_of_range"}]
      BY <1>1, <2>1 DEF OInv, TypeOK
    <2>4. TypeOK'
      BY <2>1, <2>2, <2>3 DEF OInv, TypeOK
    <2> QED
      BY <1>1, <2>1, <2>4, AnswerSelf
  <1>3. CASE TryRegisters(a)
    <2> USE <1>3 DEF TryRegisters, Goto, attempt_vars
    <2>1. a \notin args.cancel_pending
      BY <1>1, ArgFacts DEF OInv, TypeOK
    <2>2. \/ /\ a \in Enqueues \cup Closes
             /\ enqueue_attempts' = Append(enqueue_attempts, a)
             /\ UNCHANGED dequeue_attempts
          \/ /\ a \in Dequeues
             /\ dequeue_attempts' = Append(dequeue_attempts, a)
             /\ UNCHANGED enqueue_attempts
      BY Kinds
    <2>3. enqueue_attempts' \in Seq(Enqueues \cup Closes) /\ dequeue_attempts' \in Seq(Dequeues)
      <3>1. a \in Enqueues \cup Closes => Append(enqueue_attempts, a) \in Seq(Enqueues \cup Closes)
        BY AppendProperties DEF OInv, TypeOK
      <3>2. a \in Dequeues => Append(dequeue_attempts, a) \in Seq(Dequeues)
        BY AppendProperties DEF OInv, TypeOK
      <3> QED
        BY <2>2, <3>1, <3>2 DEF OInv, TypeOK
    <2>4. TypeOK'
      BY <1>1, <2>3 DEF OInv, TypeOK, Pcs
    <2> QED
      BY <1>1, <2>1, <2>2, <2>4, QueueOp
  <1>4. CASE TryFindsCancelled(a)
    <2> USE <1>4 DEF TryFindsCancelled, Goto, deques, attempt_vars
    <2>1. TypeOK'
      BY <1>1 DEF OInv, TypeOK, Pcs
    <2>2. /\ \A u \in Threads : pc'[u] = IF u = a THEN "deliver" ELSE pc[u]
          /\ \A x \in Ops : x \in Threads
      BY Kinds DEF OInv, TypeOK
    <2>3. to_call[a] = <<>>
      BY <1>1 DEF OInv, Lists
    <2>4. Lists'
      BY <2>2, <2>3 DEF OInv, Lists
    <2>5. \A x : (InDeque(x)' <=> InDeque(x)) /\ (Held(x)' <=> Held(x))
      BY DEF InDeque, Held
    <2>6. Places'
      BY <2>2, <2>5 DEF OInv, Places, Direct
    <2> QED
      BY <2>1, <2>4, <2>6 DEF OInv
  <1> QED
    BY <1>2, <1>3, <1>4 DEF Try

(* ... so do Close and CloseAndCancel, ... *)
LEMMA CloseKeeps ==
  ASSUME OInv, NEW c \in Closes, CloseQueues(c) \/ CloseAndCancel(c) \/ Deliver(c)
  PROVE  OInv'
  <1>1. c \in Ops /\ c \in Threads
    BY Kinds
  <1>2. CASE Deliver(c)
    <2>1. TypeOK'
      BY <1>1, <1>2 DEF OInv, TypeOK, Deliver, Goto, Answer, Pcs, deques, attempt_vars
    <2> QED
      BY <1>1, <1>2, <2>1, AnswerSelf DEF Deliver, Goto, Answer, deques, attempt_vars
  <1>3. CASE CloseQueues(c)
    <2> USE <1>3 DEF CloseQueues, Goto, attempt_vars
    <2>1. enqueue_attempts' \in Seq(Enqueues \cup Closes)
      BY AppendProperties DEF OInv, TypeOK
    <2>2. TypeOK'
      BY <1>1, <2>1 DEF OInv, TypeOK, Pcs
    <2> QED
      BY <1>1, <2>2, QueueOp
  <1>4. CASE CloseAndCancel(c)
    <2> USE DEF Goto, deques
    <2>1. PICK list : list = Pending(enqueue_attempts)
      OBVIOUS
    <2>2. /\ list \in Seq(Enqueues \cup Closes) /\ Once(list)
          /\ \A x : On(list, x) <=> On(enqueue_attempts, x) /\ ~is_cancelled[x]
      BY <2>1, PendingFacts DEF OInv, TypeOK, Lists
    <2>3. list \in Seq(Ops)
      BY <2>2, Kinds, SeqMonotonic
    <2>4. /\ c \in args.cancel_pending /\ pc[c] = "start" /\ pc' = [pc EXCEPT ![c] = "calling"]
          /\ closed' = TRUE
          /\ is_cancelled' = [a \in Ops |-> is_cancelled[a] \/ a \in ToSet(list)]
          /\ outcome' = [a \in Ops |-> IF a \in ToSet(list) THEN "cancelled" ELSE outcome[a]]
          /\ to_call' = [to_call EXCEPT ![c] = list]
          /\ UNCHANGED <<args, queue, enqueue_attempts, dequeue_attempts, requested, tuple, calls,
                         accepted>>
      BY <1>4, <2>1 DEF CloseAndCancel
    <2>5. \A x \in Ops : is_cancelled'[x] <=> is_cancelled[x] \/ On(list, x)
      BY <2>3, <2>4, ToSetIsOn
    <2>6. to_call[c] = <<>>
      BY <1>1, <2>4 DEF OInv, Lists
    <2>7. TypeOK'
      BY <1>1, <2>3, <2>4 DEF OInv, TypeOK, Pcs
    <2>8. \A x : On(list, x) => InDeque(x) /\ ~is_cancelled[x]
      BY <2>2 DEF InDeque
    <2> QED
      BY <1>1, <2>2, <2>3, <2>4, <2>5, <2>6, <2>7, <2>8, CancelOps
  <1> QED
    BY <1>2, <1>3, <1>4

(* ... the callbacks outside FlushUnlocked, ... *)
LEMMA CallBackKeeps == ASSUME OInv, NEW t \in Threads, CallBack(t) PROVE OInv'
  <1> USE DEF CallBack, deques, attempt_vars
  <1>1. CASE to_call[t] = <<>>
    <2>1. pc' = [pc EXCEPT ![t] = "flush"] /\ pc[t] = "calling" /\ UNCHANGED <<to_call, calls>>
      BY <1>1 DEF Goto
    <2>2. TypeOK'
      BY <2>1 DEF OInv, TypeOK, Pcs
    <2> QED
      BY <1>1, <2>1, <2>2, MoveKeeps DEF Pcs
  <1>2. CASE to_call[t] # <<>>
    <2>1. /\ calls' = [calls EXCEPT ![Head(to_call[t])] = @ + 1]
          /\ to_call' = [to_call EXCEPT ![t] = Tail(@)]
          /\ UNCHANGED pc
      BY <1>2 DEF Answer
    <2>2. Tail(to_call[t]) \in Seq(Ops) /\ Head(to_call[t]) \in Ops
      BY <1>2, HeadTailProperties DEF OInv, TypeOK
    <2>3. TypeOK'
      BY <2>1, <2>2 DEF OInv, TypeOK
    <2> QED
      BY <1>2, <2>1, <2>3, AnswerHeld
  <1> QED
    BY <1>1, <1>2

(* ... and StartCancel with the Cancel it calls. *)
LEMMA CancelKeeps == ASSUME OInv, NEW m \in Cancelled, Cancel(m) PROVE OInv'
  <1>1. m \in Threads /\ m \notin Ops
    BY Kinds
  <1> USE DEF Goto, deques, attempt_vars
  <1>2. CASE CancelFinds(m)
    <2>1. PICK a : a = cancelling[m]
      OBVIOUS
    <2>2. /\ Queued(a) /\ ~is_cancelled[a] /\ pc[m] = "cancel"
          /\ pc' = [pc EXCEPT ![m] = "calling"]
          /\ is_cancelled' = [is_cancelled EXCEPT ![a] = TRUE]
          /\ outcome' = [outcome EXCEPT ![a] = "cancelled"]
          /\ to_call' = [to_call EXCEPT ![m] = <<a>>]
          /\ UNCHANGED <<args, queue, closed, enqueue_attempts, dequeue_attempts, requested, tuple,
                         calls, accepted>>
      BY <1>2, <2>1 DEF CancelFinds
    <2>3. InDeque(a)
      BY <2>2, ToSetIsOn DEF Queued, InDeque, OInv, TypeOK
    <2>4. a \in Ops
      BY <2>3, Kinds, ElementsOf DEF InDeque, OInv, TypeOK
    <2>5. <<a>> \in Seq(Ops) /\ Once(<<a>>) /\ \A x : On(<<a>>, x) <=> x = a
      BY <2>4 DEF Once, On
    <2>6. to_call[m] = <<>>
      BY <1>1, <2>2 DEF OInv, Lists
    <2>7. TypeOK'
      BY <1>1, <2>2, <2>4, <2>5 DEF OInv, TypeOK, Pcs
    <2>8. \A x \in Ops : is_cancelled'[x] <=> is_cancelled[x] \/ On(<<a>>, x)
      BY <2>2, <2>4, <2>5 DEF OInv, TypeOK
    <2>9. \A x : On(<<a>>, x) => InDeque(x) /\ ~is_cancelled[x]
      BY <2>2, <2>3, <2>5
    <2> QED
      BY <1>1, <2>2, <2>5, <2>6, <2>7, <2>8, <2>9, CancelOps
  <1>3. CASE \/ CancelStarts(m) \/ CancelFindsNothing(m) \/ CancelFinishes(m)
             \/ \E a \in Attempts : CancelCallback(m, a)
    <2>1. \E p \in {"loop", "cancel", "over"} :
            /\ pc' = [pc EXCEPT ![m] = p] /\ pc[m] \in {"start", "loop", "cancel"}
            /\ UNCHANGED <<args, queue, closed, enqueue_attempts, dequeue_attempts, is_cancelled,
                           requested, tuple, to_call, calls, outcome, accepted>>
      BY <1>3 DEF CancelStarts, CancelFindsNothing, CancelFinishes, CancelCallback
    <2>2. PICK p \in {"loop", "cancel", "over"} :
            /\ pc' = [pc EXCEPT ![m] = p] /\ pc[m] \in {"start", "loop", "cancel"}
            /\ UNCHANGED <<args, queue, closed, enqueue_attempts, dequeue_attempts, is_cancelled,
                           requested, tuple, to_call, calls, outcome, accepted>>
      BY <2>1
    <2>3. TypeOK'
      BY <2>2 DEF OInv, TypeOK, Pcs
    <2>4. to_call[m] = <<>>
      BY <1>1, <2>2 DEF OInv, Lists
    <2> QED
      BY <1>1, <2>2, <2>3, <2>4, MoveKeeps DEF Pcs
  <1> QED
    BY <1>2, <1>3 DEF Cancel

--------------------------------------------------------------------------------
(* The elements *)

(* They stay where they are. *)
LEMMA ElementsStay ==
  ASSUME Elements, UNCHANGED <<queue, tuple, accepted, requested, args>>, closed => closed'
  PROVE  Elements'
  BY DEF Elements

(* An enqueue puts in its next n elements. *)
LEMMA ElementsIn ==
  ASSUME TypeOK, Elements, ~closed, NEW a \in Enqueues,
         NEW n \in Nat, n <= requested[a], Len(queue) + n <= Capacity,
         NEW first, first = args.size[a] - requested[a] + 1,
         NEW new, new = Slices(a, first, first + n - 1),
         queue' = queue \o new, accepted' = accepted \o new,
         requested' = [requested EXCEPT ![a] = @ - n],
         UNCHANGED <<tuple, args, closed>>
  PROVE  /\ queue' \in Seq(Enqueues \X Nat) /\ accepted' \in Seq(Enqueues \X Nat)
         /\ requested' \in [Attempts -> Nat]
         /\ Elements'
  <1>1. a \in Attempts /\ requested[a] \in Nat /\ args.size[a] \in Nat
    BY Kinds, ArgFacts DEF TypeOK
  <1>2. PICK r \in Nat, z \in Nat : r = requested[a] /\ z = args.size[a]
    BY <1>1
  <1>3. r <= z /\ n <= r /\ first \in Nat \ {0} /\ first = z - r + 1
    <2>1. requested[a] <= args.size[a]
      BY DEF Elements
    <2>2. r <= z /\ n <= r /\ first = z - r + 1
      BY <1>2, <2>1
    <2> QED
      BY ONLY r \in Nat, z \in Nat, <2>2
  <1>4. /\ new \in Seq(Enqueues \X Nat) /\ Len(new) = n /\ Once(new)
        /\ \A y : On(new, y) <=> \E k \in Nat : first <= k /\ k < first + n /\ y = <<a, k>>
    <2>1. PICK last : last = first + n - 1
      OBVIOUS
    <2>2. new = Slices(a, first, last)
      BY <2>1, Zenon
    <2>3. last \in Int /\ n = last - first + 1 /\ \A k \in Nat : k <= last <=> k < first + n
      BY ONLY n \in Nat, <1>3, <2>1
    <2>4. /\ new \in Seq(Enqueues \X Nat) /\ Len(new) = n /\ Once(new)
          /\ \A y : On(new, y) <=> \E k \in Nat : first <= k /\ k <= last /\ y = <<a, k>>
      <3>1. first \in Nat \ {0} /\ last \in Int /\ n = last - first + 1
        BY ONLY <1>3, <2>3, Zenon
      <3>2. Batch(Slices(a, first, last), a, first, last, n)
        BY ONLY a \in Enqueues, n \in Nat, <3>1, SlicesFacts
      <3> QED
        BY <2>2, <3>2, Zenon DEF Batch
    <2> QED
      BY <2>3, <2>4
  <1>5. \A y : On(new, y) => ~On(accepted, y)
    <2> SUFFICES ASSUME NEW k \in Nat, first <= k, On(accepted, <<a, k>>) PROVE FALSE
      BY <1>4
    <2>1. k <= z - r
      BY <1>2 DEF Elements
    <2> QED
      BY <1>3, <2>1
  <1>6. \A y : On(new, y) => ~On(queue, y) /\ \A d \in Dequeues : ~On(tuple[d], y)
    BY <1>5 DEF Elements
  <1>7. /\ queue' \in Seq(Enqueues \X Nat) /\ Len(queue') = Len(queue) + Len(new) /\ Once(queue')
        /\ \A y : On(queue', y) <=> On(queue, y) \/ On(new, y)
    BY <1>4, <1>6, ConcatFacts DEF TypeOK, Elements
  <1>8. /\ accepted' \in Seq(Enqueues \X Nat)
        /\ \A y : On(accepted', y) <=> On(accepted, y) \/ On(new, y)
    BY <1>4, ConcatFacts DEF TypeOK
  <1>9. /\ r - n \in Nat /\ requested' \in [Attempts -> Nat] /\ requested'[a] = r - n
        /\ \A b \in Enqueues : b # a => requested'[b] = requested[b]
    <2>1. r - n \in Nat
      BY <1>3
    <2> QED
      BY <1>1, <1>2, <2>1, Kinds DEF TypeOK
  <1>10. ASSUME NEW b \in Enqueues
         PROVE  /\ requested'[b] <= args.size[b]
                /\ \A i \in Nat : On(accepted', <<b, i>>) => i <= args.size[b] - requested'[b]
    <2>1. CASE b # a
      <3>1. \A i \in Nat : ~On(new, <<b, i>>)
        BY <1>4, <2>1
      <3> QED
        BY <1>8, <1>9, <2>1, <3>1 DEF Elements
    <2>2. CASE b = a
      <3>1. r - n <= z
        BY <1>3
      <3>2. ASSUME NEW i \in Nat, On(accepted', <<a, i>>) PROVE i <= z - (r - n)
        <4>1. CASE On(accepted, <<a, i>>)
          <5>1. i <= z - r
            BY <1>2, <4>1 DEF Elements
          <5> QED
            BY <1>3, <5>1
        <4>2. CASE On(new, <<a, i>>)
          <5>1. i < first + n
            BY <1>4, <4>2
          <5> QED
            BY <1>3, <5>1
        <4> QED
          BY <1>8, <3>2, <4>1, <4>2
      <3> QED
        BY <1>2, <1>9, <2>2, <3>1, <3>2
    <2> QED
      BY <2>1, <2>2
  <1>11. /\ \A d \in Dequeues : Once(tuple'[d])
         /\ \A d \in Dequeues : \A x : ~(On(queue', x) /\ On(tuple'[d], x))
         /\ \A c, d \in Dequeues : \A x : On(tuple'[c], x) /\ On(tuple'[d], x) => c = d
         /\ \A x : On(accepted', x) <=> On(queue', x) \/ \E d \in Dequeues : On(tuple'[d], x)
    BY <1>6, <1>7, <1>8 DEF Elements
  <1>12. Len(queue') <= Capacity
    BY <1>4, <1>7
  <1> QED
    BY <1>7, <1>8, <1>9, <1>10, <1>11, <1>12 DEF Elements

(* A dequeue takes the first n elements of the queue. *)
LEMMA ElementsOut ==
  ASSUME TypeOK, Elements, NEW d \in Dequeues, NEW n \in Nat, n <= Len(queue), NEW r \in Nat,
         queue' = SubSeq(queue, n + 1, Len(queue)),
         tuple' = [tuple EXCEPT ![d] = @ \o SubSeq(queue, 1, n)],
         requested' = [requested EXCEPT ![d] = r],
         UNCHANGED <<accepted, args, closed>>
  PROVE  /\ queue' \in Seq(Enqueues \X Nat)
         /\ tuple' \in [Dequeues -> Seq(Enqueues \X Nat)]
         /\ requested' \in [Attempts -> Nat]
         /\ Elements'
  <1>1. PICK first : first = SubSeq(queue, 1, n)
    OBVIOUS
  <1>2. /\ first \in Seq(Enqueues \X Nat) /\ queue' \in Seq(Enqueues \X Nat)
        /\ Once(first) /\ Once(queue') /\ Len(queue') = Len(queue) - n
        /\ \A y : On(queue, y) <=> On(first, y) \/ On(queue', y)
        /\ \A y : ~(On(first, y) /\ On(queue', y))
    BY <1>1, CutFacts DEF TypeOK, Elements
  <1>3. PICK new : new = tuple[d] \o first
    OBVIOUS
  <1>4. /\ new \in Seq(Enqueues \X Nat) /\ Once(new)
        /\ \A y : On(new, y) <=> On(tuple[d], y) \/ On(first, y)
    BY <1>2, <1>3, ConcatFacts DEF TypeOK, Elements
  <1>5. /\ tuple' \in [Dequeues -> Seq(Enqueues \X Nat)]
        /\ \A c \in Dequeues : tuple'[c] = IF c = d THEN new ELSE tuple[c]
    BY <1>1, <1>3, <1>4 DEF TypeOK
  <1>6. requested' \in [Attempts -> Nat] /\ \A a \in Enqueues : requested'[a] = requested[a]
    BY Kinds, QueueAssumption DEF TypeOK
  <1>7. /\ \A c \in Dequeues : Once(tuple'[c])
        /\ \A c \in Dequeues : \A x : ~(On(queue', x) /\ On(tuple'[c], x))
        /\ \A b, c \in Dequeues : \A x : On(tuple'[b], x) /\ On(tuple'[c], x) => b = c
    BY <1>2, <1>4, <1>5 DEF Elements
  <1>8. \A x : On(accepted', x) <=> On(queue', x) \/ \E c \in Dequeues : On(tuple'[c], x)
    BY <1>2, <1>4, <1>5 DEF Elements
  <1>9. ~closed' => Len(queue') <= Capacity
    <2>1. Len(queue) \in Nat
      BY LenProperties DEF TypeOK
    <2> QED
      BY <1>2, <2>1, QueueAssumption DEF Elements
  <1>10. \A a \in Enqueues :
           /\ requested'[a] <= args'.size[a]
           /\ \A i \in Nat : On(accepted', <<a, i>>) => i <= args'.size[a] - requested'[a]
    BY <1>6 DEF Elements
  <1> QED
    BY <1>2, <1>5, <1>6, <1>7, <1>8, <1>9, <1>10 DEF Elements

(* The elements of a batch that cannot be filled go back to the front. *)
LEMMA ElementsBack ==
  ASSUME TypeOK, Elements, NEW d \in Dequeues, closed,
         queue' = tuple[d] \o queue, tuple' = [tuple EXCEPT ![d] = <<>>],
         UNCHANGED <<accepted, requested, args, closed>>
  PROVE  /\ queue' \in Seq(Enqueues \X Nat)
         /\ tuple' \in [Dequeues -> Seq(Enqueues \X Nat)]
         /\ Elements'
  <1>1. /\ queue' \in Seq(Enqueues \X Nat) /\ Once(queue')
        /\ \A y : On(queue', y) <=> On(tuple[d], y) \/ On(queue, y)
    BY ConcatFacts DEF TypeOK, Elements
  <1>2. /\ tuple' \in [Dequeues -> Seq(Enqueues \X Nat)]
        /\ \A c \in Dequeues : tuple'[c] = IF c = d THEN <<>> ELSE tuple[c]
    BY EmptySeq DEF TypeOK
  <1>3. Once(<<>>) /\ \A x : ~On(<<>>, x)
    BY EmptyFacts
  <1>4. /\ \A c \in Dequeues : Once(tuple'[c])
        /\ \A c \in Dequeues : \A x : ~(On(queue', x) /\ On(tuple'[c], x))
        /\ \A b, c \in Dequeues : \A x : On(tuple'[b], x) /\ On(tuple'[c], x) => b = c
    BY <1>1, <1>2, <1>3 DEF Elements
  <1>5. \A x : On(accepted', x) <=> On(queue', x) \/ \E c \in Dequeues : On(tuple'[c], x)
    BY <1>1, <1>2, <1>3 DEF Elements
  <1>6. \A a \in Enqueues :
           /\ requested'[a] <= args'.size[a]
           /\ \A i \in Nat : On(accepted', <<a, i>>) => i <= args'.size[a] - requested'[a]
    BY DEF Elements
  <1> QED
    BY <1>1, <1>2, <1>4, <1>5, <1>6 DEF Elements

(* The dequeues keep their elements. *)
LEMMA KeptStays ==
  ASSUME Kept, UNCHANGED tuple,
         \A d \in Dequeues :
           /\ InDeque(d) /\ ~is_cancelled[d] =>
                \/ InDeque(d)' /\ ~is_cancelled'[d]
                \/ outcome'[d] \in {"ok", "cancelled"}
           /\ outcome[d] \in {"ok", "cancelled"} => outcome'[d] \in {"ok", "cancelled"}
  PROVE  Kept'
  BY DEF Kept

EInv == Elements /\ Kept

(* At first there is no element. *)
LEMMA InitEInv == Init => EInv
  <1> SUFFICES ASSUME Init PROVE EInv
    OBVIOUS
  <1>1. Once(<<>>) /\ Len(<<>>) = 0 /\ \A x : ~On(<<>>, x)
    BY EmptyFacts
  <1>2. queue = <<>> /\ accepted = <<>> /\ \A d \in Dequeues : tuple[d] = <<>>
    BY DEF Init
  <1>3. \A a \in Enqueues : requested[a] = args.size[a] /\ args.size[a] \in Nat
    BY Kinds, ArgFacts DEF Init
  <1>4. Elements
    BY <1>1, <1>2, <1>3, QueueAssumption DEF Elements
  <1>5. Kept
    BY <1>2 DEF Kept
  <1> QED
    BY <1>4, <1>5 DEF EInv

(* The steps outside FlushUnlocked move no element. *)
LEMMA OtherElements ==
  ASSUME OInv, EInv,
         \/ \E a \in Attempts : Try(a)
         \/ \E c \in Closes : CloseQueues(c) \/ CloseAndCancel(c) \/ Deliver(c)
         \/ \E m \in Cancelled : Cancel(m)
         \/ \E t \in Threads : CallBack(t)
  PROVE  EInv'
  <1> USE DEF OInv, EInv, Goto, deques, attempt_vars
  <1>1. ASSUME NEW a \in Ops, UNCHANGED <<queue, tuple, accepted, requested, args, closed,
                                         enqueue_attempts, dequeue_attempts, is_cancelled>>,
               outcome' = outcome \/ \E s \in {"ok", "cancelled"} : outcome' = [outcome EXCEPT ![a] = s]
        PROVE  EInv'
    <2>1. \A x : InDeque(x)' <=> InDeque(x)
      BY <1>1 DEF InDeque
    <2>2. \A d \in Dequeues : d \in Ops
      BY Kinds
    <2>3. \A d \in Dequeues :
            outcome[d] \in {"ok", "cancelled"} => outcome'[d] \in {"ok", "cancelled"}
      BY <1>1, <2>2 DEF TypeOK
    <2> QED
      BY <1>1, <2>1, <2>3, ElementsStay, KeptStays
  <1>2. ASSUME NEW a \in Ops, UNCHANGED <<queue, tuple, accepted, requested, args, closed,
                                         is_cancelled, outcome>>,
               \/ /\ enqueue_attempts' = Append(enqueue_attempts, a) /\ a \in Enqueues \cup Closes
                  /\ UNCHANGED dequeue_attempts
               \/ /\ dequeue_attempts' = Append(dequeue_attempts, a) /\ a \in Dequeues
                  /\ UNCHANGED enqueue_attempts
        PROVE  EInv'
    <2>1. /\ \A x : On(enqueue_attempts, x) => On(enqueue_attempts', x)
          /\ \A x : On(dequeue_attempts, x) => On(dequeue_attempts', x)
      <3>1. a \in Enqueues \cup Closes =>
              \A x : On(enqueue_attempts, x) => On(Append(enqueue_attempts, a), x)
        <4>1. PICK S : S = Enqueues \cup Closes
          OBVIOUS
        <4>2. enqueue_attempts \in Seq(S)
          BY <4>1 DEF TypeOK
        <4> QED
          BY <4>1, <4>2, AppendFacts
      <3>2. a \in Dequeues =>
              \A x : On(dequeue_attempts, x) => On(Append(dequeue_attempts, a), x)
        BY AppendFacts DEF TypeOK
      <3> QED
        BY <1>2, <3>1, <3>2
    <2>2. \A x : InDeque(x) => InDeque(x)'
      BY <2>1 DEF InDeque
    <2> QED
      BY <1>2, <2>2, ElementsStay, KeptStays
  <1>3. ASSUME NEW a \in Attempts, Try(a) PROVE EInv'
    <2>1. a \in Ops
      BY Kinds
    <2>2. CASE TryEmptyBatch(a) \/ TryFindsCancelled(a) \/ Deliver(a)
      BY <1>1, <2>1, <2>2 DEF TryEmptyBatch, TryFindsCancelled, Deliver
    <2>3. CASE TryRegisters(a)
      BY <1>2, <2>1, <2>3, Kinds DEF TryRegisters
    <2> QED
      BY <1>3, <2>2, <2>3 DEF Try
  <1>4. ASSUME NEW c \in Closes, CloseQueues(c) \/ CloseAndCancel(c) \/ Deliver(c) PROVE EInv'
    <2>1. c \in Ops
      BY Kinds
    <2>2. CASE Deliver(c)
      BY <1>1, <2>1, <2>2 DEF Deliver
    <2>3. CASE CloseQueues(c)
      BY <1>2, <2>1, <2>3 DEF CloseQueues
    <2>4. CASE CloseAndCancel(c)
      <3>1. PICK list : list = Pending(enqueue_attempts)
        OBVIOUS
      <3>2. /\ list \in Seq(Enqueues \cup Closes)
            /\ \A x : On(list, x) => On(enqueue_attempts, x)
        BY <3>1, PendingFacts DEF TypeOK, Lists
      <3>3. \A d \in Dequeues : d \in Ops /\ d \notin ToSet(list)
        BY <3>2, Kinds, ElementsOf, ToSetIsOn
      <3>4. /\ is_cancelled' = [a \in Ops |-> is_cancelled[a] \/ a \in ToSet(list)]
            /\ outcome' = [a \in Ops |-> IF a \in ToSet(list) THEN "cancelled" ELSE outcome[a]]
            /\ closed'
            /\ UNCHANGED <<queue, tuple, accepted, requested, args, enqueue_attempts,
                           dequeue_attempts>>
        BY <2>4, <3>1 DEF CloseAndCancel
      <3>5. \A d \in Dequeues : outcome'[d] = outcome[d] /\ (is_cancelled'[d] <=> is_cancelled[d])
        BY <3>3, <3>4
      <3>6. \A x : InDeque(x)' <=> InDeque(x)
        BY <3>4 DEF InDeque
      <3> QED
        BY <3>4, <3>5, <3>6, ElementsStay, KeptStays
    <2> QED
      BY <1>4, <2>2, <2>3, <2>4
  <1>5. ASSUME NEW m \in Cancelled, Cancel(m) PROVE EInv'
    <2>1. CASE CancelFinds(m)
      <3>1. PICK a : a = cancelling[m]
        OBVIOUS
      <3>2. /\ is_cancelled' = [is_cancelled EXCEPT ![a] = TRUE]
            /\ outcome' = [outcome EXCEPT ![a] = "cancelled"]
            /\ UNCHANGED <<queue, tuple, accepted, requested, args, closed, enqueue_attempts,
                           dequeue_attempts>>
        BY <2>1, <3>1 DEF CancelFinds
      <3>3. \A d \in Dequeues : d \in Ops
        BY Kinds
      <3>4. \A d \in Dequeues :
              IF d = a THEN outcome'[d] = "cancelled"
              ELSE outcome'[d] = outcome[d] /\ (is_cancelled'[d] <=> is_cancelled[d])
        BY <3>2, <3>3 DEF TypeOK
      <3>5. \A x : InDeque(x)' <=> InDeque(x)
        BY <3>2 DEF InDeque
      <3> QED
        BY <3>2, <3>4, <3>5, ElementsStay, KeptStays
    <2>2. CASE \/ CancelStarts(m) \/ CancelFindsNothing(m) \/ CancelFinishes(m)
               \/ \E a \in Attempts : CancelCallback(m, a)
      <3>1. UNCHANGED <<queue, tuple, accepted, requested, args, closed, enqueue_attempts,
                        dequeue_attempts, is_cancelled, outcome>>
        BY <2>2 DEF CancelStarts, CancelFindsNothing, CancelFinishes, CancelCallback
      <3> QED
        BY <3>1 DEF Elements, Kept, InDeque
    <2> QED
      BY <1>5, <2>1, <2>2 DEF Cancel
  <1>6. ASSUME NEW t \in Threads, CallBack(t) PROVE EInv'
    BY <1>6 DEF CallBack, Elements, Kept, InDeque
  <1> QED
    BY <1>3, <1>4, <1>5, <1>6

(* The steps of FlushUnlocked that run no attempt. *)
LEMMA FlushMoves ==
  ASSUME OInv, EInv, NEW t \in Threads,
         FlushBegins(t) \/ NoMoreEnqueues(t) \/ NoMoreDequeues(t) \/ DeregisterReturns(t)
  PROVE  OInv' /\ EInv'
  <1>1. /\ \E p \in {"enqueue", "dequeue", "clean_up"} : pc' = [pc EXCEPT ![t] = p]
        /\ pc[t] \in {"flush", "enqueue", "dequeue", "wait"}
        /\ UNCHANGED <<args, queue, closed, enqueue_attempts, dequeue_attempts, is_cancelled,
                       requested, tuple, to_call, calls, outcome, accepted>>
    BY DEF FlushBegins, NoMoreEnqueues, NoMoreDequeues, EndPass, DeregisterReturns, Goto, deques,
           attempt_vars
  <1>2. PICK p \in {"enqueue", "dequeue", "clean_up"} : pc' = [pc EXCEPT ![t] = p]
    BY <1>1
  <1>3. TypeOK'
    BY <1>1, <1>2 DEF OInv, TypeOK, Pcs
  <1>4. OInv'
    BY <1>1, <1>2, <1>3, MoveKeeps DEF Pcs
  <1>5. EInv'
    BY <1>1 DEF EInv, Elements, Kept, InDeque
  <1> QED
    BY <1>4, <1>5

(* A cancelled attempt is dropped. *)
LEMMA SkipKeeps == ASSUME OInv, EInv, NEW t \in Threads, Skip(t) PROVE OInv' /\ EInv'
  <1>1. UNCHANGED <<args, queue, closed, is_cancelled, requested, tuple, to_call, calls, outcome,
                    accepted, pc>>
    BY DEF Skip, attempt_vars
  <1>2. PICK a :
          /\ \/ /\ enqueue_attempts # <<>> /\ a = Head(enqueue_attempts)
                /\ enqueue_attempts' = Tail(enqueue_attempts)
                /\ UNCHANGED dequeue_attempts
             \/ /\ dequeue_attempts # <<>> /\ a = Head(dequeue_attempts)
                /\ dequeue_attempts' = Tail(dequeue_attempts)
                /\ UNCHANGED enqueue_attempts
          /\ is_cancelled[a]
    BY DEF Skip
  <1>3. enqueue_attempts' \in Seq(Enqueues \cup Closes) /\ dequeue_attempts' \in Seq(Dequeues)
    <2>1. enqueue_attempts # <<>> => Tail(enqueue_attempts) \in Seq(Enqueues \cup Closes)
      BY HeadTailProperties DEF OInv, TypeOK
    <2>2. dequeue_attempts # <<>> => Tail(dequeue_attempts) \in Seq(Dequeues)
      BY HeadTailProperties DEF OInv, TypeOK
    <2> QED
      BY <1>2, <2>1, <2>2 DEF OInv, TypeOK
  <1>4. TypeOK'
    BY <1>1, <1>3 DEF OInv, TypeOK
  <1>5. OInv' /\ \A x : InDeque(x)' <=> InDeque(x) /\ x # a
    BY <1>1, <1>2, <1>4, TakeFront
  <1>6. EInv'
    BY <1>1, <1>2, <1>5, ElementsStay, KeptStays DEF EInv
  <1> QED
    BY <1>5, <1>6

(* The callbacks are called, ... *)
LEMMA CleanUpKeeps == ASSUME OInv, EInv, NEW t \in Threads, CleanUp(t) PROVE OInv' /\ EInv'
  <1>1. /\ pc[t] = "clean_up" /\ to_call[t] # <<>>
        /\ UNCHANGED <<args, queue, closed, enqueue_attempts, dequeue_attempts, is_cancelled,
                       requested, tuple, outcome, accepted>>
        /\ \/ /\ calls' = [calls EXCEPT ![Head(to_call[t])] = @ + 1]
              /\ to_call' = [to_call EXCEPT ![t] = Tail(@)]
              /\ UNCHANGED pc
           \/ pc' = [pc EXCEPT ![t] = "wait"] /\ UNCHANGED <<calls, to_call>>
    BY DEF CleanUp, Goto, Answer, deques, attempt_vars
  <1>2. EInv'
    BY <1>1 DEF EInv, Elements, Kept, InDeque
  <1>3. CASE /\ calls' = [calls EXCEPT ![Head(to_call[t])] = @ + 1]
             /\ to_call' = [to_call EXCEPT ![t] = Tail(@)]
             /\ UNCHANGED pc
    <2>1. Tail(to_call[t]) \in Seq(Ops) /\ Head(to_call[t]) \in Ops
      BY <1>1, HeadTailProperties DEF OInv, TypeOK
    <2>2. TypeOK'
      BY <1>1, <1>3, <2>1 DEF OInv, TypeOK
    <2> QED
      BY <1>1, <1>2, <1>3, <2>2, AnswerHeld
  <1>4. CASE pc' = [pc EXCEPT ![t] = "wait"] /\ UNCHANGED <<calls, to_call>>
    <2>1. TypeOK'
      BY <1>1, <1>4 DEF OInv, TypeOK, Pcs
    <2> QED
      BY <1>1, <1>2, <1>4, <2>1, MoveKeeps DEF Pcs
  <1> QED
    BY <1>1, <1>3, <1>4

(* ... and FlushUnlocked returns. *)
LEMMA ReturnKeeps == ASSUME OInv, EInv, NEW t \in Threads, FlushReturns(t) PROVE OInv' /\ EInv'
  <1>1. PICK p : p = IF t \in Cancelled THEN "loop"
                     ELSE IF t \in args.cancel_pending THEN "deliver" ELSE "over"
    OBVIOUS
  <1>2. /\ pc[t] = "clean_up" /\ to_call[t] = <<>> /\ pc' = [pc EXCEPT ![t] = p]
        /\ outcome' = [a \in Ops |-> IF a = t /\ t \in args.cancel_pending THEN "ok" ELSE outcome[a]]
        /\ UNCHANGED <<args, queue, closed, enqueue_attempts, dequeue_attempts, is_cancelled,
                       requested, tuple, to_call, calls, accepted>>
    BY <1>1 DEF FlushReturns, Goto, deques, attempt_vars
  <1>3. p \in Pcs
    BY <1>1 DEF Pcs
  <1>4. TypeOK'
    BY <1>2, <1>3 DEF OInv, TypeOK
  <1>5. /\ \A u \in Threads : pc'[u] = IF u = t THEN p ELSE pc[u]
        /\ \A x \in Ops : x \in Threads /\ x \notin Cancelled
    BY <1>2, Kinds DEF OInv, TypeOK
  <1>6. Lists'
    BY <1>2, <1>5 DEF OInv, Lists
  <1>7. \A x : (InDeque(x)' <=> InDeque(x)) /\ (Held(x)' <=> Held(x))
    BY <1>2 DEF InDeque, Held
  <1>8. Places'
    BY <1>1, <1>2, <1>5, <1>7 DEF OInv, Places, Direct
  <1>9. \A d \in Dequeues :
          outcome[d] \in {"ok", "cancelled"} => outcome'[d] \in {"ok", "cancelled"}
    BY <1>2, Kinds
  <1>10. EInv'
    BY <1>2, <1>7, <1>9, ElementsStay, KeptStays DEF EInv
  <1> QED
    BY <1>4, <1>6, <1>8, <1>10 DEF OInv

(* The front enqueue or Close is run. *)
LEMMA EnqueueKeeps ==
  ASSUME OInv, EInv, NEW t \in Threads, TryEnqueueAttempt(t)
  PROVE  OInv' /\ EInv'
  <1>1. PICK a : a = Head(enqueue_attempts)
    OBVIOUS
  <1>2. /\ pc[t] = "enqueue" /\ enqueue_attempts # <<>> /\ ~is_cancelled[a]
        /\ IF a \in Closes THEN RunClose(t, a) ELSE RunEnqueue(t, a)
        /\ UNCHANGED <<args, dequeue_attempts, is_cancelled, tuple, calls>>
    BY <1>1 DEF TryEnqueueAttempt
  <1>3. a \in Enqueues \cup Closes /\ Tail(enqueue_attempts) \in Seq(Enqueues \cup Closes)
    BY <1>1, <1>2, HeadTailProperties DEF OInv, TypeOK
  <1>4. a \in Ops /\ \A d \in Dequeues : d \in Ops /\ d # a
    BY <1>3, Kinds
  <1>5. ASSUME NEW s \in {"ok", "cancelled", "closed"}, Complete(t, a, s),
               enqueue_attempts' = Tail(enqueue_attempts), UNCHANGED pc,
               queue' \in Seq(Enqueues \X Nat), accepted' \in Seq(Enqueues \X Nat),
               closed' \in BOOLEAN, requested' \in [Attempts -> Nat], Elements'
        PROVE  OInv' /\ EInv'
    <2>1. /\ to_call' = [to_call EXCEPT ![t] = Append(@, a)]
          /\ outcome' = [outcome EXCEPT ![a] = s]
      BY <1>5 DEF Complete
    <2>2. Append(to_call[t], a) \in Seq(Ops)
      BY <1>4, AppendProperties DEF OInv, TypeOK
    <2>3. to_call' \in [Threads -> Seq(Ops)]
      BY <2>1, <2>2 DEF OInv, TypeOK
    <2>4. outcome' \in [Ops -> {"none", "ok", "cancelled", "closed", "out_of_range"}]
      BY <2>1 DEF OInv, TypeOK
    <2>5. TypeOK'
      BY <1>2, <1>3, <1>5, <2>3, <2>4 DEF OInv, TypeOK
    <2>6. OInv' /\ \A x : InDeque(x)' <=> InDeque(x) /\ x # a
      BY <1>1, <1>2, <1>5, <2>1, <2>5, TakeFront
    <2>7. \A d \in Dequeues : outcome'[d] = outcome[d]
      BY <1>4, <2>1 DEF OInv, TypeOK
    <2> QED
      BY <1>2, <1>4, <1>5, <2>6, <2>7, KeptStays DEF EInv
  <1>6. CASE a \in Closes
    <2>1. /\ \E s \in {"ok", "cancelled"} : Complete(t, a, s)
          /\ closed' = TRUE /\ enqueue_attempts' = Tail(enqueue_attempts)
          /\ UNCHANGED <<queue, requested, accepted, pc>>
      BY <1>2, <1>6 DEF RunClose
    <2>2. Elements'
      BY <1>2, <2>1, ElementsStay DEF EInv
    <2> QED
      BY <1>5, <2>1, <2>2 DEF OInv, TypeOK
  <1>7. CASE a \notin Closes /\ closed
    <2>1. /\ Complete(t, a, "closed") /\ enqueue_attempts' = Tail(enqueue_attempts)
          /\ UNCHANGED <<queue, closed, requested, accepted, pc>>
      BY <1>2, <1>7 DEF RunEnqueue
    <2>2. Elements'
      BY <1>2, <2>1, ElementsStay DEF EInv
    <2> QED
      BY <1>5, <2>1, <2>2 DEF OInv, TypeOK
  <1>8. CASE a \notin Closes /\ ~closed
    <2>1. a \in Enqueues /\ a \in Attempts
      BY <1>3, <1>8, Kinds
    <2>2. PICK r \in Nat, l \in Nat : r = requested[a] /\ l = Len(queue)
      BY <2>1, LenProperties DEF OInv, TypeOK
    <2>3. PICK n : n = IF Room < requested[a] THEN Room ELSE requested[a]
      OBVIOUS
    <2>4. PICK first : first = args.size[a] - requested[a] + 1
      OBVIOUS
    <2>5. PICK new : new = Slices(a, first, first + n - 1)
      OBVIOUS
    <2>6. /\ queue' = queue \o new /\ accepted' = accepted \o new
          /\ requested' = [requested EXCEPT ![a] = @ - n]
          /\ UNCHANGED closed
          /\ IF n = requested[a]
             THEN Complete(t, a, "ok") /\ enqueue_attempts' = Tail(enqueue_attempts) /\ UNCHANGED pc
             ELSE /\ pc' = [pc EXCEPT ![t] = "dequeue"]
                  /\ UNCHANGED <<enqueue_attempts, to_call, outcome>>
      BY <1>2, <1>8, <2>3, <2>4, <2>5 DEF RunEnqueue, Goto
    <2>7. l <= Capacity /\ Capacity \in Nat
      BY <1>8, <2>2, QueueAssumption DEF EInv, Elements
    <2>8. n \in Nat /\ n <= requested[a] /\ Len(queue) + n <= Capacity
      BY <2>2, <2>3, <2>7 DEF Room
    <2>9. /\ queue' \in Seq(Enqueues \X Nat) /\ accepted' \in Seq(Enqueues \X Nat)
          /\ requested' \in [Attempts -> Nat]
          /\ Elements'
      BY <1>2, <1>8, <2>1, <2>4, <2>5, <2>6, <2>8, ElementsIn DEF OInv, EInv
    <2>10. CASE n = requested[a]
      BY <1>5, <2>6, <2>9, <2>10 DEF OInv, TypeOK
    <2>11. CASE n # requested[a]
      <3>1. /\ pc' = [pc EXCEPT ![t] = "dequeue"]
            /\ UNCHANGED <<enqueue_attempts, to_call, outcome>>
        BY <2>6, <2>11
      <3>2. TypeOK'
        BY <1>2, <2>6, <2>9, <3>1 DEF OInv, TypeOK, Pcs
      <3>3. OInv'
        BY <1>2, <3>1, <3>2, MoveKeeps DEF Pcs
      <3>4. Kept'
        BY <1>2, <3>1 DEF EInv, Kept, InDeque
      <3> QED
        BY <2>9, <3>3, <3>4 DEF EInv
    <2> QED
      BY <2>10, <2>11
  <1> QED
    BY <1>6, <1>7, <1>8

(* The front dequeue is run. *)
LEMMA DequeueKeeps ==
  ASSUME OInv, EInv, NEW t \in Threads, TryDequeueAttempt(t)
  PROVE  OInv' /\ EInv'
  <1>1. PICK a : a = Head(dequeue_attempts)
    OBVIOUS
  <1>2. /\ pc[t] = "dequeue" /\ dequeue_attempts # <<>> /\ ~is_cancelled[a]
        /\ RunDequeue(t, a)
        /\ UNCHANGED <<args, closed, enqueue_attempts, is_cancelled, calls, accepted>>
    BY <1>1 DEF TryDequeueAttempt
  <1>3. a \in Dequeues /\ Tail(dequeue_attempts) \in Seq(Dequeues) /\ On(dequeue_attempts, a)
    BY <1>1, <1>2, TailFacts DEF OInv, TypeOK, Lists
  <1>4. a \in Ops /\ a \in Attempts /\ \A d \in Dequeues : d \in Ops
    BY <1>3, Kinds
  <1>5. ASSUME NEW s \in {"ok", "out_of_range"}, Complete(t, a, s),
               dequeue_attempts' = Tail(dequeue_attempts), UNCHANGED pc,
               queue' \in Seq(Enqueues \X Nat), requested' \in [Attempts -> Nat],
               tuple' \in [Dequeues -> Seq(Enqueues \X Nat)], Elements',
               \A d \in Dequeues : d # a => tuple'[d] = tuple[d],
               s # "ok" => tuple'[a] = <<>>
        PROVE  OInv' /\ EInv'
    <2>1. /\ to_call' = [to_call EXCEPT ![t] = Append(@, a)]
          /\ outcome' = [outcome EXCEPT ![a] = s]
      BY <1>5 DEF Complete
    <2>2. Append(to_call[t], a) \in Seq(Ops)
      BY <1>4, AppendProperties DEF OInv, TypeOK
    <2>3. to_call' \in [Threads -> Seq(Ops)]
      BY <2>1, <2>2 DEF OInv, TypeOK
    <2>4. /\ outcome' \in [Ops -> {"none", "ok", "cancelled", "closed", "out_of_range"}]
          /\ \A d \in Dequeues : outcome'[d] = IF d = a THEN s ELSE outcome[d]
      BY <1>4, <2>1 DEF OInv, TypeOK
    <2>5. TypeOK'
      BY <1>2, <1>3, <1>5, <2>3, <2>4 DEF OInv, TypeOK
    <2>6. OInv' /\ \A x : InDeque(x)' <=> InDeque(x) /\ x # a
      BY <1>1, <1>2, <1>5, <2>1, <2>5, TakeFront
    <2>7. Kept'
      BY <1>2, <1>5, <2>4, <2>6 DEF EInv, Kept
    <2> QED
      BY <1>5, <2>6, <2>7 DEF EInv
  <1>6. ASSUME NEW c \in BOOLEAN, EndPass(t, c), UNCHANGED <<to_call, outcome, dequeue_attempts>>,
               queue' \in Seq(Enqueues \X Nat), requested' \in [Attempts -> Nat],
               tuple' \in [Dequeues -> Seq(Enqueues \X Nat)], Elements',
               \A d \in Dequeues : d # a => tuple'[d] = tuple[d]
        PROVE  OInv' /\ EInv'
    <2>1. PICK p \in {"enqueue", "clean_up"} : pc' = [pc EXCEPT ![t] = p]
      BY <1>6 DEF EndPass
    <2>2. TypeOK'
      BY <1>2, <1>6, <2>1 DEF OInv, TypeOK, Pcs
    <2>3. OInv'
      BY <1>2, <1>6, <2>1, <2>2, MoveKeeps DEF Pcs
    <2>4. \A x : InDeque(x)' <=> InDeque(x)
      BY <1>2, <1>6 DEF InDeque
    <2>5. InDeque(a)
      BY <1>3 DEF InDeque
    <2>6. Kept'
      BY <1>2, <1>6, <2>4, <2>5 DEF EInv, Kept
    <2> QED
      BY <1>6, <2>3, <2>6 DEF EInv
  <1>7. PICK r \in Nat, l \in Nat : r = requested[a] /\ l = Len(queue)
    BY <1>4, LenProperties DEF OInv, TypeOK
  <1>8. CASE closed /\ l < r
    <2>1. CASE a \in args.small /\ Restored(a) # <<>>
      <3>1. /\ queue' = <<>> /\ tuple' = [tuple EXCEPT ![a] = tuple[a] \o queue]
            /\ requested' = [requested EXCEPT ![a] = 0]
            /\ Complete(t, a, "ok") /\ dequeue_attempts' = Tail(dequeue_attempts) /\ UNCHANGED pc
        BY <1>2, <1>7, <1>8, <2>1 DEF RunDequeue, Restored
      <3>2. SubSeq(queue, l + 1, l) = <<>> /\ SubSeq(queue, 1, l) = queue
        <4>1. SubSeq(queue, l + 1, l) = <<>>
          BY SubSeqEmpty
        <4>2. SubSeq(queue, 1, Len(queue)) = queue
          BY SubSeqFull DEF OInv, TypeOK
        <4> QED
          BY <1>7, <4>1, <4>2
      <3>3. /\ queue' = SubSeq(queue, l + 1, Len(queue)) /\ l <= Len(queue)
            /\ tuple' = [tuple EXCEPT ![a] = @ \o SubSeq(queue, 1, l)]
        <4>1. l <= Len(queue)
          BY <1>7
        <4>2. queue' = SubSeq(queue, l + 1, Len(queue))
          BY ONLY <1>7, <3>1, <3>2, Zenon
        <4>3. tuple' = [tuple EXCEPT ![a] = @ \o SubSeq(queue, 1, l)]
          BY ONLY <3>1, <3>2, Zenon
        <4> QED
          BY <4>1, <4>2, <4>3
      <3>4. /\ queue' \in Seq(Enqueues \X Nat)
            /\ tuple' \in [Dequeues -> Seq(Enqueues \X Nat)]
            /\ requested' \in [Attempts -> Nat]
            /\ Elements'
        BY <1>2, <1>3, <3>1, <3>3, ElementsOut DEF OInv, EInv
      <3>5. \A d \in Dequeues : d # a => tuple'[d] = tuple[d]
        BY <3>1 DEF OInv, TypeOK
      <3> QED
        BY <1>5, <3>1, <3>4, <3>5
    <2>2. CASE ~(a \in args.small /\ Restored(a) # <<>>) /\ a \in args.small
               /\ enqueue_attempts # <<>>
      <3>1. /\ EndPass(t, TRUE)
            /\ UNCHANGED <<queue, tuple, requested, to_call, outcome, dequeue_attempts>>
        BY <1>2, <1>7, <1>8, <2>2 DEF RunDequeue
      <3>2. Elements'
        BY <1>2, <3>1, ElementsStay DEF EInv
      <3> QED
        BY <1>6, <3>1, <3>2 DEF OInv, TypeOK
    <2>3. CASE /\ ~(a \in args.small /\ Restored(a) # <<>>)
               /\ ~(a \in args.small /\ enqueue_attempts # <<>>)
      <3>1. /\ queue' = tuple[a] \o queue /\ tuple' = [tuple EXCEPT ![a] = <<>>]
            /\ Complete(t, a, "out_of_range") /\ dequeue_attempts' = Tail(dequeue_attempts)
            /\ UNCHANGED <<requested, pc>>
        BY <1>2, <1>7, <1>8, <2>3 DEF RunDequeue, Restored
      <3>2. /\ queue' \in Seq(Enqueues \X Nat)
            /\ tuple' \in [Dequeues -> Seq(Enqueues \X Nat)]
            /\ Elements'
        BY <1>2, <1>3, <1>8, <3>1, ElementsBack DEF OInv, EInv
      <3>3. /\ \A d \in Dequeues : d # a => tuple'[d] = tuple[d]
            /\ tuple'[a] = <<>>
        BY <1>3, <3>1 DEF OInv, TypeOK
      <3> QED
        BY <1>5, <3>1, <3>2, <3>3 DEF OInv, TypeOK
    <2> QED
      BY <2>1, <2>2, <2>3
  <1>9. CASE ~(closed /\ l < r)
    <2>1. PICK n : n = IF Len(queue) < requested[a] THEN Len(queue) ELSE requested[a]
      OBVIOUS
    <2>2. n \in Nat /\ n <= l /\ n <= r
      BY <1>7, <2>1
    <2>3. /\ queue' = SubSeq(queue, n + 1, Len(queue))
          /\ tuple' = [tuple EXCEPT ![a] = @ \o SubSeq(queue, 1, n)]
          /\ requested' = [requested EXCEPT ![a] = @ - n]
          /\ IF n = requested[a]
             THEN Complete(t, a, "ok") /\ dequeue_attempts' = Tail(dequeue_attempts) /\ UNCHANGED pc
             ELSE EndPass(t, changed \/ n > 0) /\ UNCHANGED <<to_call, outcome, dequeue_attempts>>
      BY <1>2, <1>7, <1>9, <2>1 DEF RunDequeue
    <2>4. PICK k \in Nat : k = r - n
      BY <2>2
    <2>5. requested' = [requested EXCEPT ![a] = k] /\ n <= Len(queue)
      BY <1>7, <2>2, <2>3, <2>4
    <2>6. /\ queue' \in Seq(Enqueues \X Nat)
          /\ tuple' \in [Dequeues -> Seq(Enqueues \X Nat)]
          /\ requested' \in [Attempts -> Nat]
          /\ Elements'
      BY <1>2, <1>3, <2>2, <2>3, <2>5, ElementsOut DEF OInv, EInv
    <2>7. \A d \in Dequeues : d # a => tuple'[d] = tuple[d]
      BY <2>3 DEF OInv, TypeOK
    <2>8. CASE n = requested[a]
      BY <1>5, <2>3, <2>6, <2>7, <2>8
    <2>9. CASE n # requested[a]
      <3>1. PICK c \in BOOLEAN : c = (changed \/ n > 0)
        OBVIOUS
      <3>2. EndPass(t, c) /\ UNCHANGED <<to_call, outcome, dequeue_attempts>>
        BY <2>3, <2>9, <3>1
      <3> QED
        BY <1>6, <2>6, <2>7, <3>2
    <2> QED
      BY <2>8, <2>9
  <1> QED
    BY <1>8, <1>9

--------------------------------------------------------------------------------
(* The invariant of the queue. *)
THEOREM QueueInvariant == Spec => [](OInv /\ EInv)
  <1>1. Init => OInv /\ EInv
    BY InitOInv, InitEInv
  <1>2. (OInv /\ EInv) /\ [Next]_vars => (OInv /\ EInv)'
    <2> SUFFICES ASSUME OInv, EInv, [Next]_vars PROVE OInv' /\ EInv'
      OBVIOUS
    <2>1. CASE \/ \E a \in Attempts : Try(a)
               \/ \E c \in Closes : CloseQueues(c) \/ CloseAndCancel(c) \/ Deliver(c)
               \/ \E m \in Cancelled : Cancel(m)
               \/ \E t \in Threads : CallBack(t)
      <3>1. EInv'
        BY <2>1, OtherElements
      <3>2. OInv'
        BY <2>1, TryKeeps, CloseKeeps, CancelKeeps, CallBackKeeps
      <3> QED
        BY <3>1, <3>2
    <2>2. ASSUME NEW t \in Threads, Flush(t) PROVE OInv' /\ EInv'
      BY <2>2, FlushMoves, SkipKeeps, EnqueueKeeps, DequeueKeeps, CleanUpKeeps, ReturnKeeps
         DEF Flush
    <2>3. CASE UNCHANGED vars
      <3> USE <2>3 DEF vars, deques, attempt_vars, cm_vars
      <3>1. TypeOK'
        BY DEF OInv, TypeOK
      <3>2. Lists'
        BY DEF OInv, Lists
      <3>3. Places'
        BY DEF OInv, Places, Direct, InDeque, Held
      <3>4. EInv'
        BY DEF EInv, Elements, Kept, InDeque
      <3> QED
        BY <3>1, <3>2, <3>3, <3>4 DEF OInv
    <2> QED
      BY <2>1, <2>2, <2>3 DEF Next
  <1> QED
    BY <1>1, <1>2, PTL DEF Spec

(* However completion, cancellation by the step and Close race for an        *)
(* attempt, its callback is called at most once, and a call that has         *)
(* returned without an answer is in exactly one place that will give it one. *)
THEOREM EveryAttemptAnsweredOnce == Spec => []AnsweredOnce
  <1>1. OInv => AnsweredOnce
    <2> SUFFICES ASSUME OInv, NEW a \in Ops
                 PROVE  /\ calls[a] <= 1
                        /\ calls[a] = 1 => ~Waiting(a) /\ ~InHand(a)
                        /\ ~(Waiting(a) /\ InHand(a))
                        /\ pc[a] = "over" /\ calls[a] = 0 => Waiting(a) \/ InHand(a)
      BY DEF AnsweredOnce
    <2>1. Waiting(a) <=> InDeque(a) /\ ~is_cancelled[a]
      <3>1. a \in ToSet(enqueue_attempts) <=> On(enqueue_attempts, a)
        BY ToSetIsOn DEF OInv, TypeOK
      <3>2. a \in ToSet(dequeue_attempts) <=> On(dequeue_attempts, a)
        BY ToSetIsOn DEF OInv, TypeOK
      <3> QED
        BY <3>1, <3>2 DEF Waiting, Queued, InDeque
    <2>2. InHand(a) <=> Held(a) \/ pc[a] = "deliver"
      <3>1. \A t \in Threads : a \in ToSet(to_call[t]) <=> On(to_call[t], a)
        BY ToSetIsOn DEF OInv, TypeOK
      <3> QED
        BY <3>1 DEF InHand, Held
    <2> QED
      BY <2>1, <2>2 DEF OInv, Places, Direct
  <1> QED
    BY <1>1, QueueInvariant, PTL

--------------------------------------------------------------------------------
(* The order of the elements *)

(* In the sequence acc, x comes before y; s is in the order of acc; all of s *)
(* comes before all of t.                                                    *)
Before(acc, x, y) == \E p, q \in 1 .. Len(acc) : p < q /\ acc[p] = x /\ acc[q] = y
Sorted(acc, s) == \A i, j \in 1 .. Len(s) : i < j => Before(acc, s[i], s[j])
Ahead(acc, s, t) == \A x, y : On(s, x) /\ On(t, y) => Before(acc, x, y)

(* Two sequences in order, the one ahead of the other, are in order.         *)
LEMMA SortedConcat ==
  ASSUME NEW S, NEW s \in Seq(S), NEW t \in Seq(S), NEW acc,
         Sorted(acc, s), Sorted(acc, t), Ahead(acc, s, t)
  PROVE  Sorted(acc, s \o t)
  <1>1. PICK n \in Nat, m \in Nat : n = Len(s) /\ m = Len(t)
    BY LenProperties
  <1>2. PICK r : r = s \o t
    OBVIOUS
  <1>3. Len(r) = n + m /\ \A i \in 1 .. n + m : r[i] = IF i <= n THEN s[i] ELSE t[i - n]
    BY <1>1, <1>2, ConcatProperties
  <1> SUFFICES ASSUME NEW i \in 1 .. n + m, NEW j \in 1 .. n + m, i < j
               PROVE  Before(acc, r[i], r[j])
    BY <1>2, <1>3 DEF Sorted
  <1>4. CASE j <= n
    <2>1. i \in 1 .. n /\ j \in 1 .. n /\ r[i] = s[i] /\ r[j] = s[j]
      BY <1>3, <1>4
    <2> QED
      BY <1>1, <2>1 DEF Sorted
  <1>5. CASE i > n
    <2>1. /\ i - n \in 1 .. m /\ j - n \in 1 .. m /\ i - n < j - n
          /\ r[i] = t[i - n] /\ r[j] = t[j - n]
      BY <1>3, <1>5
    <2> QED
      BY <1>1, <2>1 DEF Sorted
  <1>6. CASE i <= n /\ j > n
    <2>1. i \in 1 .. n /\ j - n \in 1 .. m /\ r[i] = s[i] /\ r[j] = t[j - n]
      BY <1>3, <1>6
    <2>2. On(s, r[i]) /\ On(t, r[j])
      BY <1>1, <2>1 DEF On
    <2> QED
      BY <2>2 DEF Ahead
  <1> QED
    BY <1>4, <1>5, <1>6

(* What is cut off a sequence in order is in order, and ahead of the rest.   *)
LEMMA SortedCut ==
  ASSUME NEW S, NEW s \in Seq(S), NEW acc, Sorted(acc, s), NEW n \in Nat, n <= Len(s),
         NEW a, a = SubSeq(s, 1, n), NEW b, b = SubSeq(s, n + 1, Len(s))
  PROVE  Sorted(acc, a) /\ Sorted(acc, b) /\ Ahead(acc, a, b)
  <1>1. PICK l \in Nat : l = Len(s)
    BY LenProperties
  <1>2. n <= l /\ \A i \in 1 .. l : s[i] \in S
    BY <1>1, ElementOfSeq
  <1>3. Len(a) = n /\ \A i \in 1 .. n : a[i] = s[i]
    <2>1. \A i \in 1 .. n : s[i] \in S
      BY <1>2
    <2>2. /\ Len(a) = IF 1 <= n THEN n - 1 + 1 ELSE 0
          /\ \A i \in 1 .. n - 1 + 1 : a[i] = s[1 + i - 1]
      BY <2>1, SubSeqProperties
    <2> QED
      BY <2>2
  <1>4. Len(b) = l - n /\ \A i \in 1 .. l - n : b[i] = s[n + i]
    <2>1. \A i \in n + 1 .. l : s[i] \in S
      BY <1>2
    <2>2. /\ Len(b) = IF n + 1 <= l THEN l - (n + 1) + 1 ELSE 0
          /\ \A i \in 1 .. l - (n + 1) + 1 : b[i] = s[(n + 1) + i - 1]
      BY <1>1, <2>1, SubSeqProperties
    <2> QED
      BY <1>2, <2>2
  <1>5. Sorted(acc, a)
    <2> SUFFICES ASSUME NEW i \in 1 .. n, NEW j \in 1 .. n, i < j
                 PROVE  Before(acc, a[i], a[j])
      BY <1>3 DEF Sorted
    <2>1. i \in 1 .. l /\ j \in 1 .. l
      BY <1>2
    <2> QED
      BY <1>1, <1>3, <2>1 DEF Sorted
  <1>6. Sorted(acc, b)
    <2> SUFFICES ASSUME NEW i \in 1 .. l - n, NEW j \in 1 .. l - n, i < j
                 PROVE  Before(acc, b[i], b[j])
      BY <1>4 DEF Sorted
    <2>1. n + i \in 1 .. l /\ n + j \in 1 .. l /\ n + i < n + j
      BY <1>2
    <2> QED
      BY <1>1, <1>4, <2>1 DEF Sorted
  <1>7. Ahead(acc, a, b)
    <2> SUFFICES ASSUME NEW x, NEW y, On(a, x), On(b, y) PROVE Before(acc, x, y)
      BY DEF Ahead
    <2>1. PICK i \in 1 .. n : x = s[i]
      BY <1>3 DEF On
    <2>2. PICK j \in 1 .. l - n : y = s[n + j]
      BY <1>4 DEF On
    <2>3. i \in 1 .. l /\ n + j \in 1 .. l /\ i < n + j
      BY <1>2
    <2> QED
      BY <1>1, <2>1, <2>2, <2>3 DEF Sorted
  <1> QED
    BY <1>5, <1>6, <1>7

(* New elements come after all there were, in their own order. *)
LEMMA OrderGrows ==
  ASSUME NEW S, NEW acc \in Seq(S), NEW new \in Seq(S), NEW r, r = acc \o new
  PROVE  /\ \A x, y : Before(acc, x, y) => Before(r, x, y)
         /\ Ahead(r, acc, new) /\ Sorted(r, new)
  <1>1. PICK n \in Nat, m \in Nat : n = Len(acc) /\ m = Len(new)
    BY LenProperties
  <1>2. Len(r) = n + m /\ \A i \in 1 .. n + m : r[i] = IF i <= n THEN acc[i] ELSE new[i - n]
    BY <1>1, ConcatProperties
  <1>3. \A i \in 1 .. n : i \in 1 .. n + m /\ r[i] = acc[i]
    BY <1>2
  <1>4. \A i \in 1 .. m : n + i \in 1 .. n + m /\ r[n + i] = new[i]
    <2> SUFFICES ASSUME NEW i \in 1 .. m PROVE n + i \in 1 .. n + m /\ r[n + i] = new[i]
      OBVIOUS
    <2>1. n + i \in 1 .. n + m /\ ~(n + i <= n) /\ (n + i) - n = i
      OBVIOUS
    <2> QED
      BY <1>2, <2>1
  <1>5. ASSUME NEW x, NEW y, Before(acc, x, y) PROVE Before(r, x, y)
    <2>1. PICK p \in 1 .. n, q \in 1 .. n : p < q /\ acc[p] = x /\ acc[q] = y
      BY <1>1, <1>5 DEF Before
    <2> QED
      BY <1>2, <1>3, <2>1 DEF Before
  <1>6. ASSUME NEW x, NEW y, On(acc, x), On(new, y) PROVE Before(r, x, y)
    <2>1. PICK p \in 1 .. n : acc[p] = x
      BY <1>1, <1>6 DEF On
    <2>2. PICK q \in 1 .. m : new[q] = y
      BY <1>1, <1>6 DEF On
    <2>3. p < n + q
      OBVIOUS
    <2> QED
      BY <1>2, <1>3, <1>4, <2>1, <2>2, <2>3 DEF Before
  <1>7. ASSUME NEW i \in 1 .. m, NEW j \in 1 .. m, i < j PROVE Before(r, new[i], new[j])
    <2>1. n + i < n + j
      BY <1>7
    <2> QED
      BY <1>2, <1>4, <2>1 DEF Before
  <1> QED
    BY <1>1, <1>5, <1>6, <1>7 DEF Ahead, Sorted

(* The queue and every tuple are in order; what the attempt that waits has   *)
(* taken is ahead of what the queue holds, and the attempts behind a live    *)
(* one have taken nothing.                                                   *)
InTurn ==
  /\ Sorted(accepted, queue) /\ \A d \in Dequeues : Sorted(accepted, tuple[d])
  /\ \A d \in Dequeues :
       /\ On(dequeue_attempts, d) /\ ~is_cancelled[d] => Ahead(accepted, tuple[d], queue)
       /\ pc[d] = "start" => tuple[d] = <<>>
  /\ \A i, j \in 1 .. Len(dequeue_attempts) :
       i < j /\ ~is_cancelled[dequeue_attempts[i]] => tuple[dequeue_attempts[j]] = <<>>

(* Nothing is ahead of anything where there is nothing. *)
LEMMA NothingAhead ==
  ASSUME NEW acc, NEW s PROVE Ahead(acc, <<>>, s) /\ Sorted(acc, <<>>)
  <1>1. Len(<<>>) = 0 /\ \A x : ~On(<<>>, x)
    BY EmptyFacts
  <1> QED
    BY <1>1 DEF Ahead, Sorted

(* Steps that move no element: an attempt is queued, cancelled or dropped.   *)
LEMMA TurnStays ==
  ASSUME OInv, InTurn, UNCHANGED <<queue, tuple, accepted>>,
         \A d \in Dequeues : is_cancelled[d] => is_cancelled'[d],
         \A d \in Dequeues : pc'[d] = "start" => pc[d] = "start",
         \/ dequeue_attempts' = dequeue_attempts
         \/ dequeue_attempts # <<>> /\ dequeue_attempts' = Tail(dequeue_attempts)
         \/ \E d \in Dequeues :
              tuple[d] = <<>> /\ dequeue_attempts' = Append(dequeue_attempts, d)
  PROVE  InTurn'
  <1>1. PICK n \in Nat, D \in Seq(Dequeues) : n = Len(D) /\ D = dequeue_attempts
    BY LenProperties DEF OInv, TypeOK
  <1>2. \A i \in 1 .. n : D[i] \in Dequeues
    BY <1>1, ElementOfSeq
  <1>3. /\ \A d \in Dequeues : On(dequeue_attempts', d) => On(D, d) \/ tuple[d] = <<>>
        /\ \A i, j \in 1 .. Len(dequeue_attempts') :
             i < j => \/ tuple[dequeue_attempts'[j]] = <<>>
                      \/ \E k, l \in 1 .. n : /\ k < l
                                              /\ D[k] = dequeue_attempts'[i]
                                              /\ D[l] = dequeue_attempts'[j]
    <2>1. CASE dequeue_attempts' = D
      BY <1>1, <2>1
    <2>2. CASE D # <<>> /\ dequeue_attempts' = Tail(D)
      <3>1. PICK T : T = Tail(D)
        OBVIOUS
      <3>2. Len(T) = n - 1 /\ \A i \in 1 .. n - 1 : T[i] = D[i + 1] /\ i + 1 \in 1 .. n
        BY <1>1, <2>2, <3>1, HeadTailProperties
      <3>3. \A d \in Dequeues : On(T, d) => On(D, d)
        BY <1>1, <3>2 DEF On
      <3>4. ASSUME NEW i \in 1 .. n - 1, NEW j \in 1 .. n - 1, i < j
            PROVE  \E k, l \in 1 .. n : k < l /\ D[k] = T[i] /\ D[l] = T[j]
        <4>1. i + 1 < j + 1
          BY <3>4
        <4> QED
          BY <3>2, <4>1
      <3> QED
        BY <2>2, <3>1, <3>2, <3>3, <3>4
    <2>3. ASSUME NEW d \in Dequeues, tuple[d] = <<>>, dequeue_attempts' = Append(D, d)
          PROVE  <1>3
      <3>1. PICK T : T = Append(D, d)
        OBVIOUS
      <3>2. Len(T) = n + 1 /\ T[n + 1] = d /\ \A i \in 1 .. n : T[i] = D[i]
        BY <1>1, <3>1, AppendProperties
      <3>3. \A x \in Dequeues : On(T, x) => On(D, x) \/ tuple[x] = <<>>
        BY <1>1, <2>3, <3>1, AppendFacts
      <3>4. ASSUME NEW i \in 1 .. n + 1, NEW j \in 1 .. n + 1, i < j
            PROVE  \/ tuple[T[j]] = <<>>
                   \/ \E k, l \in 1 .. n : k < l /\ D[k] = T[i] /\ D[l] = T[j]
        <4>1. CASE j = n + 1
          BY <2>3, <3>2, <4>1
        <4>2. CASE j # n + 1
          <5>1. i \in 1 .. n /\ j \in 1 .. n
            BY <3>4, <4>2
          <5> QED
            BY <3>2, <3>4, <5>1
        <4> QED
          BY <4>1, <4>2
      <3> QED
        BY <2>3, <3>1, <3>2, <3>3, <3>4
    <2> QED
      BY <1>1, <2>1, <2>2, <2>3
  <1>4. \A d \in Dequeues :
          On(dequeue_attempts', d) /\ ~is_cancelled'[d] => Ahead(accepted, tuple[d], queue)
    BY <1>1, <1>3, NothingAhead DEF InTurn
  <1>5. \A i, j \in 1 .. Len(dequeue_attempts') :
          i < j /\ ~is_cancelled'[dequeue_attempts'[i]] => tuple[dequeue_attempts'[j]] = <<>>
    <2> SUFFICES ASSUME NEW i \in 1 .. Len(dequeue_attempts'), NEW j \in 1 .. Len(dequeue_attempts'),
                        i < j, ~is_cancelled'[dequeue_attempts'[i]],
                        tuple[dequeue_attempts'[j]] # <<>>
                 PROVE  FALSE
      OBVIOUS
    <2>1. PICK k \in 1 .. n, l \in 1 .. n :
            k < l /\ D[k] = dequeue_attempts'[i] /\ D[l] = dequeue_attempts'[j]
      BY <1>3
    <2>2. ~is_cancelled[D[k]]
      BY <1>2, <2>1
    <2> QED
      BY <1>1, <2>1, <2>2 DEF InTurn
  <1> QED
    BY <1>4, <1>5 DEF InTurn

(* An enqueue puts its elements at the end. *)
LEMMA TurnIn ==
  ASSUME OInv, Elements, InTurn, NEW new \in Seq(Enqueues \X Nat),
         queue' = queue \o new, accepted' = accepted \o new,
         UNCHANGED <<tuple, dequeue_attempts, is_cancelled>>,
         \A d \in Dequeues : pc'[d] = "start" => pc[d] = "start"
  PROVE  InTurn'
  <1>1. /\ queue \in Seq(Enqueues \X Nat) /\ accepted \in Seq(Enqueues \X Nat)
        /\ tuple \in [Dequeues -> Seq(Enqueues \X Nat)]
    BY DEF OInv, TypeOK
  <1>2. /\ \A x, y : Before(accepted, x, y) => Before(accepted', x, y)
        /\ Ahead(accepted', accepted, new) /\ Sorted(accepted', new)
    BY <1>1, OrderGrows
  <1>3. /\ \A x : On(queue, x) => On(accepted, x)
        /\ \A d \in Dequeues : \A x : On(tuple[d], x) => On(accepted, x)
    BY DEF Elements
  <1>4. Sorted(accepted', queue')
    <2>1. Sorted(accepted', queue) /\ Ahead(accepted', queue, new)
      BY <1>2, <1>3 DEF InTurn, Sorted, Ahead
    <2> QED
      BY <1>1, <1>2, <2>1, SortedConcat
  <1>5. \A d \in Dequeues : Sorted(accepted', tuple[d])
    BY <1>2 DEF InTurn, Sorted
  <1>6. ASSUME NEW d \in Dequeues, On(dequeue_attempts, d), ~is_cancelled[d]
        PROVE  Ahead(accepted', tuple[d], queue')
    <2>1. Ahead(accepted, tuple[d], queue)
      BY <1>6 DEF InTurn
    <2>2. \A y : On(queue', y) <=> On(queue, y) \/ On(new, y)
      BY <1>1, ConcatFacts
    <2> QED
      BY <1>2, <1>3, <2>1, <2>2 DEF Ahead
  <1> QED
    BY <1>4, <1>5, <1>6 DEF InTurn

(* The front attempt is alone in having taken something. *)
LEMMA OnlyFront ==
  ASSUME OInv, InTurn, NEW a, a = Head(dequeue_attempts), dequeue_attempts # <<>>,
         ~is_cancelled[a]
  PROVE  /\ a \in Dequeues /\ On(dequeue_attempts, a) /\ pc[a] # "start"
         /\ \A d \in Dequeues : On(dequeue_attempts, d) /\ d # a => tuple[d] = <<>>
         /\ \A j \in 1 .. Len(dequeue_attempts) :
              j # 1 => dequeue_attempts[j] # a /\ tuple[dequeue_attempts[j]] = <<>>
  <1>1. PICK n \in Nat \ {0}, D \in Seq(Dequeues) : n = Len(D) /\ D = dequeue_attempts
    BY EmptySeq, LenProperties DEF OInv, TypeOK
  <1>2. a = D[1] /\ 1 \in 1 .. n
    BY <1>1
  <1>3. a \in Dequeues /\ On(D, a) /\ Once(D)
    BY <1>1, TailFacts DEF OInv, Lists
  <1>4. pc[a] # "start"
    <2>1. a \in Ops /\ InDeque(a)
      BY <1>1, <1>3, Kinds DEF InDeque
    <2> QED
      BY <2>1 DEF OInv, Places, Direct
  <1>5. ASSUME NEW j \in 1 .. n, j # 1 PROVE D[j] # a /\ tuple[D[j]] = <<>>
    <2>1. 1 < j
      BY <1>5
    <2>2. D[j] # a
      BY <1>1, <1>2, <1>3, <1>5 DEF Once
    <2> QED
      BY <1>1, <1>2, <2>1, <2>2 DEF InTurn
  <1>6. ASSUME NEW d \in Dequeues, On(D, d), d # a PROVE tuple[d] = <<>>
    <2>1. PICK j \in 1 .. n : D[j] = d
      BY <1>1, <1>6 DEF On
    <2> QED
      BY <1>2, <1>5, <1>6, <2>1
  <1> QED
    BY <1>1, <1>3, <1>4, <1>5, <1>6

(* T has only members of D, and behind its front only what was behind D's. *)
Follows(D, T) ==
  /\ \A d : On(T, d) => On(D, d)
  /\ \A i, j \in 1 .. Len(T) : i < j => \E k \in 1 .. Len(D) : k # 1 /\ D[k] = T[j]

(* So it is when at most the front of a deque has left. *)
LEMMA Behind ==
  ASSUME NEW D \in Seq(Dequeues), D # <<>>, NEW T, T \in {D, Tail(D)}, Once(D)
  PROVE  Follows(D, T)
  <1>1. PICK n \in Nat \ {0} : n = Len(D)
    BY EmptySeq, LenProperties
  <1>2. CASE T = D
    BY <1>1, <1>2 DEF Follows
  <1>3. CASE T = Tail(D)
    <2>1. Len(T) = n - 1 /\ \A i \in 1 .. n - 1 : T[i] = D[i + 1] /\ i + 1 \in 1 .. n /\ i + 1 # 1
      BY <1>1, <1>3, HeadTailProperties
    <2>2. \A d : On(T, d) => On(D, d)
      BY <1>3, TailFacts
    <2> QED
      BY <1>1, <2>1, <2>2 DEF Follows
  <1> QED
    BY <1>2, <1>3

(* The front attempt takes the first n elements, and may be done. *)
LEMMA TurnOut ==
  ASSUME OInv, InTurn, NEW a, a = Head(dequeue_attempts), dequeue_attempts # <<>>,
         ~is_cancelled[a], NEW n \in Nat, n <= Len(queue),
         queue' = SubSeq(queue, n + 1, Len(queue)),
         tuple' = [tuple EXCEPT ![a] = @ \o SubSeq(queue, 1, n)],
         dequeue_attempts' \in {dequeue_attempts, Tail(dequeue_attempts)},
         UNCHANGED <<accepted, is_cancelled>>,
         \A d \in Dequeues : pc'[d] = "start" => pc[d] = "start"
  PROVE  InTurn'
  <1>1. /\ queue \in Seq(Enqueues \X Nat) /\ tuple \in [Dequeues -> Seq(Enqueues \X Nat)]
        /\ dequeue_attempts \in Seq(Dequeues) /\ Once(dequeue_attempts)
    BY DEF OInv, TypeOK, Lists
  <1>2. /\ a \in Dequeues /\ On(dequeue_attempts, a) /\ pc[a] # "start"
        /\ \A d \in Dequeues : On(dequeue_attempts, d) /\ d # a => tuple[d] = <<>>
        /\ \A j \in 1 .. Len(dequeue_attempts) :
             j # 1 => dequeue_attempts[j] # a /\ tuple[dequeue_attempts[j]] = <<>>
    BY OnlyFront
  <1>3. PICK first : first = SubSeq(queue, 1, n)
    OBVIOUS
  <1>4. /\ Sorted(accepted, first) /\ Sorted(accepted, queue') /\ Ahead(accepted, first, queue')
    BY <1>1, <1>3, SortedCut DEF InTurn
  <1>5. /\ first \in Seq(Enqueues \X Nat)
        /\ \A y : On(first, y) \/ On(queue', y) => On(queue, y)
    <2>1. PICK l \in Nat : l = Len(queue)
      BY <1>1, LenProperties
    <2>2. n <= l /\ \A i \in 1 .. l : queue[i] \in Enqueues \X Nat
      BY <1>1, <2>1, ElementOfSeq
    <2>3. (\A i \in 1 .. n : queue[i] \in Enqueues \X Nat)
          /\ (\A i \in n + 1 .. l : queue[i] \in Enqueues \X Nat)
      BY <2>2
    <2>4. /\ first \in Seq(Enqueues \X Nat) /\ Len(first) = IF 1 <= n THEN n - 1 + 1 ELSE 0
          /\ \A i \in 1 .. n - 1 + 1 : first[i] = queue[1 + i - 1]
      BY <1>3, <2>3, SubSeqProperties
    <2>5. /\ Len(queue') = IF n + 1 <= l THEN l - (n + 1) + 1 ELSE 0
          /\ \A i \in 1 .. l - (n + 1) + 1 : queue'[i] = queue[(n + 1) + i - 1]
      BY <2>1, <2>3, SubSeqProperties
    <2>6. Len(first) = n /\ \A i \in 1 .. n : first[i] = queue[i] /\ i \in 1 .. l
      BY <2>2, <2>4
    <2>7. Len(queue') = l - n /\ \A i \in 1 .. l - n : queue'[i] = queue[n + i] /\ n + i \in 1 .. l
      BY <2>2, <2>5
    <2>8. \A y : On(first, y) => On(queue, y)
      BY <2>1, <2>6 DEF On
    <2>9. \A y : On(queue', y) => On(queue, y)
      BY <2>1, <2>7 DEF On
    <2> QED
      BY <2>4, <2>8, <2>9
  <1>6. \A d \in Dequeues : tuple'[d] = IF d = a THEN tuple[a] \o first ELSE tuple[d]
    BY <1>1, <1>3
  <1>7. tuple[a] \in Seq(Enqueues \X Nat) /\ Ahead(accepted, tuple[a], queue)
    BY <1>1, <1>2 DEF InTurn
  <1>8. Sorted(accepted, tuple[a] \o first)
    <2>1. Ahead(accepted, tuple[a], first)
      BY <1>5, <1>7 DEF Ahead
    <2>2. Sorted(accepted, tuple[a])
      BY <1>2 DEF InTurn
    <2> QED
      BY <1>4, <1>5, <1>7, <2>1, <2>2, SortedConcat
  <1>9. Ahead(accepted, tuple[a] \o first, queue')
    <2>1. \A y : On(tuple[a] \o first, y) <=> On(tuple[a], y) \/ On(first, y)
      BY <1>5, <1>7, ConcatFacts
    <2> QED
      BY <1>4, <1>5, <1>7, <2>1 DEF Ahead
  <1>10. /\ \A d : On(dequeue_attempts', d) => On(dequeue_attempts, d)
         /\ \A i, j \in 1 .. Len(dequeue_attempts') :
              i < j => \E k \in 1 .. Len(dequeue_attempts) :
                         k # 1 /\ dequeue_attempts[k] = dequeue_attempts'[j]
    <2>1. Follows(dequeue_attempts, dequeue_attempts')
      BY <1>1, Behind
    <2> QED
      BY <2>1 DEF Follows
  <1>11. \A d \in Dequeues : Sorted(accepted, tuple'[d])
    BY <1>6, <1>8 DEF InTurn
  <1>12. ASSUME NEW d \in Dequeues, On(dequeue_attempts', d)
         PROVE  Ahead(accepted, tuple'[d], queue')
    <2>1. CASE d = a
      BY <1>6, <1>9, <2>1
    <2>2. CASE d # a
      <3>1. tuple'[d] = <<>>
        BY <1>2, <1>6, <1>10, <1>12, <2>2
      <3> QED
        BY <3>1, NothingAhead
    <2> QED
      BY <2>1, <2>2
  <1>13. ASSUME NEW i \in 1 .. Len(dequeue_attempts'), NEW j \in 1 .. Len(dequeue_attempts'), i < j
         PROVE  tuple'[dequeue_attempts'[j]] = <<>>
    <2>1. PICK k \in 1 .. Len(dequeue_attempts) : k # 1 /\ dequeue_attempts[k] = dequeue_attempts'[j]
      BY <1>10, <1>13
    <2>2. dequeue_attempts[k] \in Dequeues
      BY <1>1, ElementOfSeq
    <2> QED
      BY <1>2, <1>6, <2>1, <2>2
  <1>14. \A d \in Dequeues : pc'[d] = "start" => tuple'[d] = <<>>
    BY <1>2, <1>6 DEF InTurn
  <1> QED
    BY <1>4, <1>11, <1>12, <1>13, <1>14 DEF InTurn

(* The front attempt puts back what it has taken, and is done. *)
LEMMA TurnBack ==
  ASSUME OInv, InTurn, NEW a, a = Head(dequeue_attempts), dequeue_attempts # <<>>,
         ~is_cancelled[a],
         queue' = tuple[a] \o queue, tuple' = [tuple EXCEPT ![a] = <<>>],
         dequeue_attempts' = Tail(dequeue_attempts),
         UNCHANGED <<accepted, is_cancelled>>,
         \A d \in Dequeues : pc'[d] = "start" => pc[d] = "start"
  PROVE  InTurn'
  <1>1. /\ queue \in Seq(Enqueues \X Nat) /\ tuple \in [Dequeues -> Seq(Enqueues \X Nat)]
        /\ dequeue_attempts \in Seq(Dequeues) /\ Once(dequeue_attempts)
    BY DEF OInv, TypeOK, Lists
  <1>2. /\ a \in Dequeues /\ On(dequeue_attempts, a)
        /\ \A d \in Dequeues : On(dequeue_attempts, d) /\ d # a => tuple[d] = <<>>
        /\ \A j \in 1 .. Len(dequeue_attempts) :
             j # 1 => dequeue_attempts[j] # a /\ tuple[dequeue_attempts[j]] = <<>>
    BY OnlyFront
  <1>3. \A d \in Dequeues : tuple'[d] = IF d = a THEN <<>> ELSE tuple[d]
    BY <1>1
  <1>4. Sorted(accepted, queue')
    <2>1. tuple[a] \in Seq(Enqueues \X Nat) /\ Sorted(accepted, tuple[a])
          /\ Ahead(accepted, tuple[a], queue)
      BY <1>1, <1>2 DEF InTurn
    <2> QED
      BY <1>1, <2>1, SortedConcat DEF InTurn
  <1>5. /\ \A d : On(dequeue_attempts', d) => On(dequeue_attempts, d)
        /\ \A i, j \in 1 .. Len(dequeue_attempts') :
             i < j => \E k \in 1 .. Len(dequeue_attempts) :
                        k # 1 /\ dequeue_attempts[k] = dequeue_attempts'[j]
    BY <1>1, Behind DEF Follows
  <1>6. \A d \in Dequeues : Sorted(accepted, tuple'[d])
    BY <1>3, NothingAhead DEF InTurn
  <1>7. ASSUME NEW d \in Dequeues, On(dequeue_attempts', d)
        PROVE  Ahead(accepted, tuple'[d], queue')
    <2>1. tuple'[d] = <<>>
      BY <1>2, <1>3, <1>5, <1>7
    <2> QED
      BY <2>1, NothingAhead
  <1>8. ASSUME NEW i \in 1 .. Len(dequeue_attempts'), NEW j \in 1 .. Len(dequeue_attempts'), i < j
        PROVE  tuple'[dequeue_attempts'[j]] = <<>>
    <2>1. PICK k \in 1 .. Len(dequeue_attempts) : k # 1 /\ dequeue_attempts[k] = dequeue_attempts'[j]
      BY <1>5, <1>8
    <2>2. dequeue_attempts[k] \in Dequeues
      BY <1>1, ElementOfSeq
    <2> QED
      BY <1>2, <1>3, <2>1, <2>2
  <1>9. \A d \in Dequeues : pc'[d] = "start" => tuple'[d] = <<>>
    BY <1>3 DEF InTurn
  <1> QED
    BY <1>4, <1>6, <1>7, <1>8, <1>9 DEF InTurn

(* Every step keeps the elements in turn. *)
LEMMA InTurnStep == OInv /\ EInv /\ InTurn /\ [Next]_vars => InTurn'
  <1> SUFFICES ASSUME OInv, EInv, InTurn, [Next]_vars PROVE InTurn'
    OBVIOUS
  <1> USE DEF Goto, deques, attempt_vars
  <1>0. /\ \A d \in Dequeues : d \in Ops /\ d \in Threads
        /\ is_cancelled \in [Ops -> BOOLEAN] /\ pc \in [Threads -> Pcs]
    BY Kinds DEF OInv, TypeOK
  <1>1. ASSUME NEW a \in Attempts, Try(a) PROVE InTurn'
    <2>1. CASE TryEmptyBatch(a) \/ TryFindsCancelled(a) \/ Deliver(a)
      <3>1. /\ UNCHANGED <<queue, tuple, accepted, is_cancelled, dequeue_attempts>>
            /\ \E p \in {"over", "deliver"} : pc' = [pc EXCEPT ![a] = p]
        BY <2>1 DEF TryEmptyBatch, TryFindsCancelled, Deliver
      <3>2. \A d \in Dequeues : pc'[d] = "start" => pc[d] = "start"
        BY <1>0, <3>1
      <3> QED
        BY <3>1, <3>2, TurnStays
    <2>2. CASE TryRegisters(a)
      <3>1. /\ UNCHANGED <<queue, tuple, accepted, is_cancelled>>
            /\ pc[a] = "start" /\ pc' = [pc EXCEPT ![a] = "flush"]
            /\ \/ dequeue_attempts' = dequeue_attempts
               \/ a \notin Enqueues /\ dequeue_attempts' = Append(dequeue_attempts, a)
        BY <2>2 DEF TryRegisters
      <3>2. \A d \in Dequeues : pc'[d] = "start" => pc[d] = "start"
        BY <1>0, <3>1
      <3>3. a \notin Enqueues => a \in Dequeues /\ tuple[a] = <<>>
        BY <3>1, Kinds DEF InTurn
      <3> QED
        BY <3>1, <3>2, <3>3, TurnStays
    <2> QED
      BY <1>1, <2>1, <2>2 DEF Try
  <1>2. ASSUME NEW c \in Closes, CloseQueues(c) \/ CloseAndCancel(c) \/ Deliver(c) PROVE InTurn'
    <2>1. /\ UNCHANGED <<queue, tuple, accepted, dequeue_attempts>>
          /\ \E p \in {"over", "flush", "calling"} : pc' = [pc EXCEPT ![c] = p]
          /\ \/ UNCHANGED is_cancelled
             \/ is_cancelled' = [a \in Ops |-> is_cancelled[a] \/ a \in ToSet(Pending(enqueue_attempts))]
      BY <1>2 DEF CloseQueues, CloseAndCancel, Deliver
    <2>2. \A d \in Dequeues : pc'[d] = "start" => pc[d] = "start"
      BY <1>0, <2>1
    <2>3. \A d \in Dequeues : is_cancelled[d] => is_cancelled'[d]
      BY <1>0, <2>1
    <2> QED
      BY <2>1, <2>2, <2>3, TurnStays
  <1>3. ASSUME NEW m \in Cancelled, Cancel(m) PROVE InTurn'
    <2>1. /\ UNCHANGED <<queue, tuple, accepted, dequeue_attempts>>
          /\ \E p \in {"loop", "cancel", "calling", "over"} : pc' = [pc EXCEPT ![m] = p]
          /\ \/ UNCHANGED is_cancelled
             \/ is_cancelled' = [is_cancelled EXCEPT ![cancelling[m]] = TRUE]
      BY <1>3 DEF Cancel, CancelStarts, CancelCallback, CancelFinds, CancelFindsNothing,
                  CancelFinishes
    <2>2. \A d \in Dequeues : pc'[d] = "start" => pc[d] = "start"
      BY <1>0, <2>1
    <2>3. \A d \in Dequeues : is_cancelled[d] => is_cancelled'[d]
      BY <1>0, <2>1
    <2> QED
      BY <2>1, <2>2, <2>3, TurnStays
  <1>4. ASSUME NEW t \in Threads,
               \/ CallBack(t) \/ FlushBegins(t) \/ Skip(t) \/ NoMoreEnqueues(t)
               \/ NoMoreDequeues(t) \/ CleanUp(t) \/ DeregisterReturns(t) \/ FlushReturns(t)
        PROVE  InTurn'
    <2>1. /\ UNCHANGED <<queue, tuple, accepted, is_cancelled>>
          /\ \/ dequeue_attempts' = dequeue_attempts
             \/ dequeue_attempts # <<>> /\ dequeue_attempts' = Tail(dequeue_attempts)
      BY <1>4 DEF CallBack, FlushBegins, Skip, NoMoreEnqueues, NoMoreDequeues, CleanUp,
                  DeregisterReturns, FlushReturns
    <2>2. \/ UNCHANGED pc
          \/ \E p \in {"flush", "enqueue", "dequeue", "clean_up", "wait", "loop", "deliver", "over"} :
               pc' = [pc EXCEPT ![t] = p]
      BY <1>4 DEF CallBack, FlushBegins, Skip, NoMoreEnqueues, NoMoreDequeues, EndPass, CleanUp,
                  DeregisterReturns, FlushReturns
    <2>3. \A d \in Dequeues : pc'[d] = "start" => pc[d] = "start"
      BY <1>0, <2>2
    <2> QED
      BY <2>1, <2>3, TurnStays
  <1>5. ASSUME NEW t \in Threads, TryEnqueueAttempt(t) PROVE InTurn'
    <2>1. PICK a : a = Head(enqueue_attempts)
      OBVIOUS
    <2>2. /\ UNCHANGED <<dequeue_attempts, is_cancelled, tuple>>
          /\ a \in Closes => RunClose(t, a)
          /\ a \notin Closes => RunEnqueue(t, a)
          /\ enqueue_attempts # <<>>
      BY <1>5, <2>1 DEF TryEnqueueAttempt
    <2>3. UNCHANGED pc \/ pc' = [pc EXCEPT ![t] = "dequeue"]
      BY <2>2 DEF RunClose, RunEnqueue
    <2>4. \A d \in Dequeues : pc'[d] = "start" => pc[d] = "start"
      BY <1>0, <2>3
    <2>5. CASE a \in Closes \/ closed
      <3>1. UNCHANGED <<queue, accepted>>
        BY <2>2, <2>5 DEF RunClose, RunEnqueue
      <3> QED
        BY <2>2, <2>4, <3>1, TurnStays
    <2>6. CASE a \notin Closes /\ ~closed
      <3>1. a \in Enqueues /\ a \in Attempts
        <4>1. a \in Enqueues \cup Closes
          BY <2>1, <2>2, HeadTailProperties DEF OInv, TypeOK
        <4> QED
          BY <2>6, <4>1, Kinds
      <3>2. PICK r \in Nat, l \in Nat, z \in Nat : r = requested[a] /\ l = Len(queue) /\ z = args.size[a]
        BY <3>1, LenProperties, ArgFacts DEF OInv, TypeOK
      <3>3. PICK n : n = IF Room < requested[a] THEN Room ELSE requested[a]
        OBVIOUS
      <3>4. PICK first : first = args.size[a] - requested[a] + 1
        OBVIOUS
      <3>5. PICK new : new = Slices(a, first, first + n - 1)
        OBVIOUS
      <3>6. queue' = queue \o new /\ accepted' = accepted \o new
        BY <2>2, <2>6, <3>3, <3>4, <3>5 DEF RunEnqueue
      <3>7. l <= Capacity /\ Capacity \in Nat /\ r <= z
        BY <2>6, <3>1, <3>2, QueueAssumption DEF EInv, Elements
      <3>8. n \in Nat /\ first \in Nat \ {0} /\ first + n - 1 \in Int /\ n = (first + n - 1) - first + 1
        <4>1. n = IF Capacity - l < r THEN Capacity - l ELSE r
          BY <3>2, <3>3 DEF Room
        <4>2. first = z - r + 1
          BY <3>2, <3>4
        <4>3. r \in Nat /\ l \in Nat /\ z \in Nat
          BY <3>2
        <4> QED
          BY <3>7, <4>1, <4>2, <4>3
      <3>9. new \in Seq(Enqueues \X Nat)
        BY <3>1, <3>5, <3>8, SlicesFacts DEF Batch
      <3> QED
        BY <2>2, <2>4, <3>6, <3>9, TurnIn DEF EInv
    <2> QED
      BY <2>5, <2>6
  <1>6. ASSUME NEW t \in Threads, TryDequeueAttempt(t) PROVE InTurn'
    <2>1. PICK a : a = Head(dequeue_attempts)
      OBVIOUS
    <2>2. /\ dequeue_attempts # <<>> /\ ~is_cancelled[a] /\ RunDequeue(t, a)
          /\ UNCHANGED <<is_cancelled, accepted>>
      BY <1>6, <2>1 DEF TryDequeueAttempt
    <2>3. UNCHANGED pc \/ \E p \in {"enqueue", "clean_up"} : pc' = [pc EXCEPT ![t] = p]
      BY <2>2 DEF RunDequeue, EndPass
    <2>4. \A d \in Dequeues : pc'[d] = "start" => pc[d] = "start"
      BY <1>0, <2>3
    <2>5. a \in Attempts
      BY <2>1, <2>2, OnlyFront, Kinds
    <2>6. PICK r \in Nat, l \in Nat : r = requested[a] /\ l = Len(queue)
      BY <2>5, LenProperties DEF OInv, TypeOK
    <2>7. CASE closed /\ l < r /\ a \in args.small /\ Restored(a) # <<>>
      <3>1. /\ queue' = <<>> /\ tuple' = [tuple EXCEPT ![a] = tuple[a] \o queue]
            /\ dequeue_attempts' = Tail(dequeue_attempts)
        BY <2>2, <2>6, <2>7 DEF RunDequeue, Restored
      <3>2. SubSeq(queue, l + 1, l) = <<>> /\ SubSeq(queue, 1, l) = queue
        <4>1. SubSeq(queue, l + 1, l) = <<>>
          BY SubSeqEmpty
        <4>2. SubSeq(queue, 1, Len(queue)) = queue
          BY SubSeqFull DEF OInv, TypeOK
        <4> QED
          BY <2>6, <4>1, <4>2
      <3>3. queue' = SubSeq(queue, l + 1, Len(queue))
        BY ONLY <2>6, <3>1, <3>2, Zenon
      <3>4. tuple' = [tuple EXCEPT ![a] = @ \o SubSeq(queue, 1, l)]
        BY ONLY <3>1, <3>2, Zenon
      <3>5. l <= Len(queue) /\ dequeue_attempts' \in {dequeue_attempts, Tail(dequeue_attempts)}
        BY <2>6, <3>1
      <3> HIDE DEF InTurn
      <3> QED
        BY <2>1, <2>2, <2>4, <3>3, <3>4, <3>5, TurnOut
    <2>8. CASE /\ closed /\ l < r /\ ~(a \in args.small /\ Restored(a) # <<>>)
               /\ a \in args.small /\ enqueue_attempts # <<>>
      <3>1. UNCHANGED <<queue, tuple, dequeue_attempts>>
        BY <2>2, <2>6, <2>8 DEF RunDequeue
      <3> QED
        BY <2>2, <2>4, <3>1, TurnStays
    <2>9. CASE /\ closed /\ l < r /\ ~(a \in args.small /\ Restored(a) # <<>>)
               /\ ~(a \in args.small /\ enqueue_attempts # <<>>)
      <3>1. /\ queue' = tuple[a] \o queue /\ tuple' = [tuple EXCEPT ![a] = <<>>]
            /\ dequeue_attempts' = Tail(dequeue_attempts)
        BY <2>2, <2>6, <2>9 DEF RunDequeue, Restored
      <3> QED
        BY <2>1, <2>2, <2>4, <3>1, TurnBack
    <2>10. CASE ~(closed /\ l < r)
      <3>1. PICK n : n = IF Len(queue) < requested[a] THEN Len(queue) ELSE requested[a]
        OBVIOUS
      <3>2. n \in Nat /\ n <= Len(queue)
        BY <2>6, <3>1
      <3>3. /\ queue' = SubSeq(queue, n + 1, Len(queue))
            /\ tuple' = [tuple EXCEPT ![a] = @ \o SubSeq(queue, 1, n)]
            /\ dequeue_attempts' \in {dequeue_attempts, Tail(dequeue_attempts)}
        BY <2>2, <2>6, <2>10, <3>1 DEF RunDequeue
      <3> QED
        BY <2>1, <2>2, <2>4, <3>2, <3>3, TurnOut
    <2> QED
      BY <2>7, <2>8, <2>9, <2>10
  <1>7. CASE UNCHANGED vars
    BY <1>7, TurnStays DEF vars
  <1> QED
    BY <1>1, <1>2, <1>3, <1>4, <1>5, <1>6, <1>7 DEF Next, Flush

(* No element that was enqueued is lost or duplicated or overtaken by a      *)
(* later one, not even when a half-filled batch is put back because the      *)
(* queue is closed; only the cancellation of a half-filled dequeue drops     *)
(* what it has.                                                              *)
THEOREM NoElementIsLost == Spec => []ElementAccounting
  <1>1. OInv /\ EInv /\ InTurn => ElementAccounting
    <2> SUFFICES ASSUME OInv, EInv, InTurn PROVE ElementAccounting
      OBVIOUS
    <2>1. /\ \A x : x \in ToSet(accepted) <=> On(accepted, x)
          /\ \A x : x \in ToSet(queue) <=> On(queue, x)
      BY ToSetIsOn DEF OInv, TypeOK
    <2>2. \A d \in Dequeues : \A x : x \in ToSet(tuple[d]) <=> On(tuple[d], x)
      BY ToSetIsOn DEF OInv, TypeOK
    <2>3. ASSUME NEW x, On(accepted, x)
          PROVE  IF x \in ToSet(queue) THEN Holders(x) = {}
                 ELSE \E a \in Dequeues : Holders(x) = {a}
      <3>1. CASE On(queue, x)
        BY <2>1, <2>2, <3>1 DEF EInv, Elements, Holders
      <3>2. CASE ~On(queue, x)
        <4>1. PICK d \in Dequeues : On(tuple[d], x)
          BY <2>3, <3>2 DEF EInv, Elements
        <4>2. Holders(x) = {d}
          BY <2>2, <4>1 DEF EInv, Elements, Holders
        <4> QED
          BY <2>1, <3>2, <4>2
      <3> QED
        BY <3>1, <3>2
    <2>4. \A d \in Dequeues : Waiting(d) <=> InDeque(d) /\ ~is_cancelled[d]
      <3>1. \A x : x \in ToSet(enqueue_attempts) <=> On(enqueue_attempts, x)
        BY ToSetIsOn DEF OInv, TypeOK
      <3>2. \A x : x \in ToSet(dequeue_attempts) <=> On(dequeue_attempts, x)
        BY ToSetIsOn DEF OInv, TypeOK
      <3> QED
        BY <3>1, <3>2 DEF Waiting, Queued, InDeque
    <2>5. InOrder(queue) /\ \A d \in Dequeues : InOrder(tuple[d])
      <3>1. ASSUME NEW s, Sorted(accepted, s) PROVE InOrder(s)
        <4> SUFFICES ASSUME NEW i \in 1 .. Len(s), NEW j \in 1 .. Len(s), i < j
                     PROVE  \E p, q \in 1 .. Len(accepted) :
                              p < q /\ s[i] = accepted[p] /\ s[j] = accepted[q]
          BY DEF InOrder
        <4>1. Before(accepted, s[i], s[j])
          BY ONLY <3>1, i < j, i \in 1 .. Len(s), j \in 1 .. Len(s) DEF Sorted
        <4>2. PICK p \in 1 .. Len(accepted), q \in 1 .. Len(accepted) :
                p < q /\ accepted[p] = s[i] /\ accepted[q] = s[j]
          BY ONLY <4>1 DEF Before
        <4> QED
          BY ONLY <4>2
      <3>2. Sorted(accepted, queue) /\ \A d \in Dequeues : Sorted(accepted, tuple[d])
        BY DEF InTurn
      <3> QED
        BY ONLY <3>1, <3>2
    <2> QED
      BY <2>1, <2>3, <2>4, <2>5 DEF ElementAccounting, EInv, Kept
  <1>2. Init => InTurn
    <2> SUFFICES ASSUME Init PROVE InTurn
      OBVIOUS
    <2>1. /\ queue = <<>> /\ dequeue_attempts = <<>> /\ \A d \in Dequeues : tuple[d] = <<>>
          /\ Len(<<>>) = 0
      BY EmptyFacts DEF Init
    <2> QED
      BY <2>1, NothingAhead DEF InTurn
  <1> QED
    BY <1>1, <1>2, InTurnStep, QueueInvariant, PTL DEF Spec

================================================================================
